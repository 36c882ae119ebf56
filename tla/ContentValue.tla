---------------------------- MODULE ContentValue ----------------------------
(***************************************************************************)
(* What the bytes of a record come to: the normaliser of content values    *)
(* and the classification of an IPFS record that holds an IPNS link.       *)
(***************************************************************************)

Kinds == {"ipfs", "ipns", "arweave"}

(***************************************************************************)
(* A text, trimmed and without null bytes, is an identifier, bare, after a *)
(* scheme or in the URL of a gateway (by path or by host), and what        *)
(* follows it.  "CID" is a base32 CID typed in capitals, "" none at all,   *)
(* which nothing but slashes may follow.                                   *)
(***************************************************************************)
Scheme == [ipfs |-> "ipfs:", ipns |-> "ipns:", arweave |-> "ar:"]
Gateway == [ipfs |-> "https ipfs", ipns |-> "https ipns", arweave |-> "https arweave"]

Wraps == {"bare"} \cup {Scheme[k] : k \in Kinds} \cup {Gateway[k] : k \in Kinds}
Ids == {"", "cid", "CID", "key"}
Rests == {"", "/", "?query", "/File", "/file"}

Text == {t \in [wrap : Wraps, id : Ids, rest : Rests] : t.id = "" => t.rest \in {"", "/"}}

Written(wrap, id, rest) == [wrap |-> wrap, id |-> id, rest |-> rest]
Bare(id) == Written("bare", id, "")
Blank == Bare("")

(* An account that does not exist. *)
Absent == Written("absent", "", "")

-----------------------------------------------------------------------------
(***************************************************************************)
(* normalizeContentValue.                                                  *)
(***************************************************************************)
InGateway(t, kind) == t.wrap = Gateway[kind] /\ t.id # ""

(* A gateway's pattern keeps the identifier only, a scheme is taken off. *)
Extract(t, kind) ==
    IF InGateway(t, kind) THEN Bare(t.id)
    ELSE IF t.wrap = Scheme[kind] THEN Written("bare", t.id, t.rest) ELSE t

(* QUERY_OR_FRAGMENT and TRAILING_SLASH. *)
Cut(t) == IF t.rest \in {"/", "?query"} THEN Written(t.wrap, t.id, "") ELSE t

(* CIDV1_PREFIX looks at the beginning, and the whole text is put in lower case. *)
LowerCase(t) ==
    IF t.wrap = "bare" /\ t.id = "CID"
    THEN Written("bare", "cid", IF t.rest = "/File" THEN "/file" ELSE t.rest)
    ELSE t

Normalized(t, kind) ==
    LET s == LowerCase(Cut(Extract(t, kind)))
    IN IF s = Blank THEN t ELSE s

(* detectIpnsFromIpfsValue. *)
IpnsKey(t) == Cut(Extract(t, "ipns"))
IpnsShaped(t) ==
    /\ t.wrap = Scheme["ipns"] \/ InGateway(t, "ipns")
    /\ IpnsKey(t) # Blank

(***************************************************************************)
(* classifyRecordContent, of a text that is not blank.                     *)
(***************************************************************************)
ClassifyRecordContent(t, slotKind) ==
    IF slotKind = "ipfs" /\ IpnsShaped(t)
    THEN [kind |-> "ipns", value |-> IpnsKey(t)]
    ELSE [kind |-> slotKind, value |-> Normalized(t, slotKind)]

-----------------------------------------------------------------------------
(***************************************************************************)
(* What the text means to a client of the name service, kind by kind and   *)
(* independently of any rewriting: which content it addresses, if it       *)
(* addresses content of that kind.                                         *)
(***************************************************************************)
Addresses(t, kind) == t.id # "" /\ t.wrap \in {"bare", Scheme[kind], Gateway[kind]}

MeansIpns(t, slotKind) ==
    slotKind = "ipfs" /\ Addresses(t, "ipns") /\ t.wrap # "bare"

Meant(t, slotKind) == IF MeansIpns(t, slotKind) THEN "ipns" ELSE slotKind

(* One CID, however it is typed, and the file below it. *)
Identity(t) == IF t.id = "CID" THEN "cid" ELSE t.id
File(t) == IF t.rest \in {"/File", "/file"} THEN t.rest ELSE ""

(***************************************************************************)
(* Where the code departs from this: a gateway's URL loses its file, a     *)
(* file below a CID in capitals loses its own, and an IPNS key in capitals *)
(* keeps them in an IPFS record.                                           *)
(***************************************************************************)
LosesFile(t) == File(t) # "" /\ t.wrap \in {Gateway[k] : k \in Kinds}
LosesCase(t, slotKind) ==
    t.id = "CID" /\ (MeansIpns(t, slotKind) \/ t.rest = "/File")

(* The value a text should have; one that addresses nothing of the kind stays as it is. *)
Canonical(t, slotKind, value) ==
    IF Addresses(t, Meant(t, slotKind))
    THEN \/ value = Written("bare", Identity(t), File(t))
         \/ LosesFile(t) /\ value = Bare(Identity(t))
         \/ LosesCase(t, slotKind) /\ value.wrap = "bare"
    ELSE value.wrap = t.wrap /\ value.id = t.id

=============================================================================
