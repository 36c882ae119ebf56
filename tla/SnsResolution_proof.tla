------------------------ MODULE SnsResolution_proof ------------------------
(***************************************************************************)
(* Proofs about the resolver, for any set of owners, any number of         *)
(* attempts and of changes.  A lemma for the types, one for the invariant  *)
(* of a resolution in progress.                                            *)
(***************************************************************************)
EXTENDS SnsResolution, TLAPS

(***************************************************************************)
(* The normaliser on texts taken apart.                                    *)
(***************************************************************************)
LEMMA Texts ==
    ASSUME NEW t \in Text
    PROVE  /\ t.wrap \in Wraps /\ t.id \in Ids /\ t.rest \in Rests
           /\ t.id = "" => t.rest \in {"", "/"}
           /\ t = Written(t.wrap, t.id, t.rest)
  BY DEF Text, Written

LEMMA WrittenText ==
    ASSUME NEW w \in Wraps, NEW i \in Ids, NEW f \in Rests, i = "" => f \in {"", "/"}
    PROVE  /\ Written(w, i, f) \in Text
           /\ Written(w, i, f).wrap = w /\ Written(w, i, f).id = i /\ Written(w, i, f).rest = f
  BY DEF Text, Written

LEMMA WrapsApart ==
    /\ "bare" \in Wraps
    /\ \A k \in Kinds : Scheme[k] \in Wraps /\ Gateway[k] \in Wraps
                         /\ Scheme[k] # "bare" /\ Gateway[k] # "bare"
    /\ \A k, l \in Kinds : /\ Scheme[k] # Gateway[l]
                           /\ k # l => Scheme[k] # Scheme[l] /\ Gateway[k] # Gateway[l]
<1>1. Scheme["ipfs"] = "ipfs:" /\ Scheme["ipns"] = "ipns:" /\ Scheme["arweave"] = "ar:"
  BY DEF Scheme
<1>2. /\ Gateway["ipfs"] = "https ipfs" /\ Gateway["ipns"] = "https ipns"
      /\ Gateway["arweave"] = "https arweave"
  BY DEF Gateway
<1> QED BY <1>1, <1>2 DEF Wraps, Kinds

LEMMA CutText ==
    ASSUME NEW t \in Text
    PROVE  /\ Cut(t) \in Text /\ Cut(t).wrap = t.wrap /\ Cut(t).id = t.id
           /\ Cut(t).rest = IF t.rest \in {"/", "?query"} THEN "" ELSE t.rest
<1>1. CASE t.rest \in {"/", "?query"}
  <2>1. Cut(t) = Written(t.wrap, t.id, "")
    BY <1>1 DEF Cut
  <2>2. t.wrap \in Wraps /\ t.id \in Ids /\ "" \in Rests
    BY Texts DEF Rests
  <2>3. Written(t.wrap, t.id, "") \in Text
    BY <2>2 DEF Text, Written
  <2>4. LET u == Written(t.wrap, t.id, "") IN u.wrap = t.wrap /\ u.id = t.id /\ u.rest = ""
    BY DEF Written
  <2> QED BY <1>1, <2>1, <2>3, <2>4
<1>2. CASE t.rest \notin {"/", "?query"}
  BY <1>2 DEF Cut
<1> QED BY <1>1, <1>2

LEMMA ExtractText ==
    ASSUME NEW t \in Text, NEW k \in Kinds
    PROVE  /\ Extract(t, k) \in Text /\ Extract(t, k).id = t.id
           /\ Extract(t, k).wrap = IF InGateway(t, k) \/ t.wrap = Scheme[k] THEN "bare" ELSE t.wrap
           /\ Extract(t, k).rest = IF InGateway(t, k) THEN "" ELSE t.rest
<1>1. t.wrap \in Wraps /\ t.id \in Ids /\ t.rest \in Rests /\ (t.id = "" => t.rest \in {"", "/"})
  BY Texts
<1>2. CASE InGateway(t, k)
  <2>1. Extract(t, k) = Written("bare", t.id, "")
    BY <1>2 DEF Extract, Bare
  <2>2. Written("bare", t.id, "") \in Text
    BY <1>1, WrapsApart DEF Rests, Text, Written
  <2>3. LET u == Written("bare", t.id, "") IN u.wrap = "bare" /\ u.id = t.id /\ u.rest = ""
    BY DEF Written
  <2> QED BY <1>2, <2>1, <2>2, <2>3
<1>3. CASE ~InGateway(t, k) /\ t.wrap = Scheme[k]
  <2>1. Extract(t, k) = Written("bare", t.id, t.rest)
    BY <1>3 DEF Extract
  <2>2. Written("bare", t.id, t.rest) \in Text
    BY <1>1, WrapsApart DEF Text, Written
  <2> QED BY <1>3, <2>1, <2>2 DEF Written
<1>4. CASE ~InGateway(t, k) /\ t.wrap # Scheme[k]
  BY <1>4 DEF Extract
<1> QED BY <1>2, <1>3, <1>4

LEMMA CutExtracted ==
    ASSUME NEW t \in Text, NEW k \in Kinds
    PROVE  LET e == Cut(Extract(t, k))
           IN /\ e \in Text /\ e.id = t.id
              /\ e.wrap = IF InGateway(t, k) \/ t.wrap = Scheme[k] THEN "bare" ELSE t.wrap
              /\ e.rest = IF InGateway(t, k) THEN "" ELSE File(t)
<1> DEFINE x == Extract(t, k)
<1>1. /\ x \in Text /\ x.id = t.id
      /\ x.wrap = IF InGateway(t, k) \/ t.wrap = Scheme[k] THEN "bare" ELSE t.wrap
      /\ x.rest = IF InGateway(t, k) THEN "" ELSE t.rest
  BY ExtractText
<1> HIDE DEF x
<1>2. /\ Cut(x) \in Text /\ Cut(x).wrap = x.wrap /\ Cut(x).id = x.id
      /\ Cut(x).rest = IF x.rest \in {"/", "?query"} THEN "" ELSE x.rest
  BY <1>1, CutText
<1>3. t.rest \in Rests
  BY Texts
<1>4. Cut(x).rest = IF InGateway(t, k) THEN "" ELSE File(t)
  BY <1>1, <1>2, <1>3 DEF File, Rests
<1>5. /\ Cut(x) \in Text /\ Cut(x).id = t.id
      /\ Cut(x).wrap = IF InGateway(t, k) \/ t.wrap = Scheme[k] THEN "bare" ELSE t.wrap
  BY <1>1, <1>2
<1> QED BY <1>4, <1>5 DEF x

LEMMA LowerText ==
    ASSUME NEW t \in Text
    PROVE  /\ LowerCase(t) \in Text /\ LowerCase(t).wrap = t.wrap
           /\ t.wrap # "bare" \/ t.id # "CID" => LowerCase(t) = t
           /\ t.wrap = "bare" => LowerCase(t).id = Identity(t)
           /\ t.rest # "/File" \/ t.id # "CID" => LowerCase(t).rest = t.rest
<1>1. t.wrap \in Wraps /\ t.id \in Ids /\ t.rest \in Rests
  BY Texts
<1>2. CASE t.wrap = "bare" /\ t.id = "CID"
  <2> DEFINE f == IF t.rest = "/File" THEN "/file" ELSE t.rest
  <2>1. LowerCase(t) = Written("bare", "cid", f)
    BY <1>2 DEF LowerCase
  <2>2. f \in Rests /\ "cid" \in Ids
    BY <1>1 DEF Rests, Ids
  <2>3. Written("bare", "cid", f) \in Text
    BY <2>2, WrapsApart DEF Text, Written
  <2>4. Written("bare", "cid", f).wrap = "bare" /\ Written("bare", "cid", f).id = "cid"
        /\ Written("bare", "cid", f).rest = f
    BY DEF Written
  <2> QED BY <1>2, <2>1, <2>3, <2>4 DEF Identity
<1>3. CASE ~(t.wrap = "bare" /\ t.id = "CID")
  BY <1>3 DEF LowerCase, Identity
<1> QED BY <1>2, <1>3

LEMMA BlankText == Blank = Written("bare", "", "") /\ Blank.wrap = "bare" /\ Blank.id = "" /\ Blank.rest = ""
  BY DEF Blank, Bare, Written

(* Whatever an owner writes, the code makes of it the kind and the value it addresses. *)
THEOREM ContentCanonical ==
    ASSUME NEW t \in Text, t # Blank, NEW k \in Kinds
    PROVE  /\ ClassifyRecordContent(t, k).kind = Meant(t, k)
           /\ ClassifyRecordContent(t, k).value \in Text
           /\ Canonical(t, k, ClassifyRecordContent(t, k).value)
<1> DEFINE read == ClassifyRecordContent(t, k)
           key == IpnsKey(t)
           ext == Cut(Extract(t, k))
           low == LowerCase(ext)
<1>1. t.wrap \in Wraps /\ t.id \in Ids /\ t.rest \in Rests /\ (t.id = "" => t.rest \in {"", "/"})
  BY Texts
<1>2. "ipns" \in Kinds
  BY DEF Kinds
<1>3. /\ key \in Text /\ key.id = t.id
      /\ key.wrap = IF InGateway(t, "ipns") \/ t.wrap = Scheme["ipns"] THEN "bare" ELSE t.wrap
      /\ key.rest = IF InGateway(t, "ipns") THEN "" ELSE File(t)
  BY <1>2, CutExtracted DEF IpnsKey
<1>4. /\ ext \in Text /\ ext.id = t.id
      /\ ext.wrap = IF InGateway(t, k) \/ t.wrap = Scheme[k] THEN "bare" ELSE t.wrap
      /\ ext.rest = IF InGateway(t, k) THEN "" ELSE File(t)
  BY CutExtracted
<1>5. /\ low \in Text /\ low.wrap = ext.wrap
      /\ ext.wrap # "bare" \/ t.id # "CID" => low = ext
      /\ ext.wrap = "bare" => low.id = Identity(t)
      /\ ext.rest # "/File" \/ t.id # "CID" => low.rest = ext.rest
  BY <1>4, LowerText DEF Identity
<1>6. IpnsShaped(t) <=> Addresses(t, "ipns") /\ t.wrap # "bare"
  <2>1. IpnsShaped(t) <=> (t.wrap = Scheme["ipns"] \/ InGateway(t, "ipns")) /\ key # Blank
    BY DEF IpnsShaped
  <2>2. CASE t.id = ""
    <3>1. t.wrap = Scheme["ipns"] => key = Blank
      <4>1. t.wrap = Scheme["ipns"] => key.wrap = "bare" /\ key.id = "" /\ key.rest = ""
        BY <1>1, <1>3, <2>2 DEF InGateway, File
      <4> QED BY <1>3, <4>1, Texts, BlankText
    <3> QED BY <2>1, <2>2, <3>1 DEF InGateway, Addresses
  <2>3. CASE t.id # ""
    BY <1>2, <1>3, <2>1, <2>3, BlankText, WrapsApart DEF InGateway, Addresses
  <2> QED BY <2>2, <2>3
<1> HIDE DEF key, ext, low
<1>7. CASE MeansIpns(t, k)
  <2>1. read.kind = "ipns" /\ read.value = key
    BY <1>6, <1>7 DEF MeansIpns, ClassifyRecordContent, key
  <2>2. Meant(t, k) = "ipns" /\ Addresses(t, "ipns") /\ t.id # ""
    BY <1>7 DEF Meant, MeansIpns, Addresses
  <2>3. key.wrap = "bare"
    BY <1>3, <1>7, <2>2 DEF MeansIpns, Addresses, InGateway
  <2>4. key = Written("bare", t.id, key.rest)
    BY <1>3, <2>3, Texts
  <2>5. key.rest = File(t) \/ (t.wrap = Gateway["ipns"] /\ key.rest = "")
    BY <1>3 DEF InGateway
  <2>6. t.id = "CID" => LosesCase(t, k)
    BY <1>7 DEF LosesCase
  <2>7. t.wrap = Gateway["ipns"] /\ File(t) # "" => LosesFile(t)
    BY <1>2 DEF LosesFile
  <2>8. Canonical(t, k, key)
    BY <2>2, <2>3, <2>4, <2>5, <2>6, <2>7 DEF Canonical, Identity, Bare
  <2> QED BY <1>3, <2>1, <2>2, <2>8
<1>8. CASE ~MeansIpns(t, k)
  <2>1. read.kind = k /\ read.value = IF low = Blank THEN t ELSE low
    BY <1>6, <1>8 DEF MeansIpns, ClassifyRecordContent, Normalized, low, ext
  <2>2. Meant(t, k) = k
    BY <1>8 DEF Meant
  <2>3. CASE Addresses(t, k)
    <3>1. t.id # "" /\ ext.wrap = "bare" /\ low.wrap = "bare" /\ low.id = Identity(t) /\ low.id # ""
      BY <1>4, <1>5, <2>3 DEF Addresses, InGateway, Identity
    <3>2. low # Blank
      BY <3>1, BlankText
    <3>3. low = Written("bare", Identity(t), low.rest)
      BY <1>5, <3>1, Texts
    <3>4. ext.rest = File(t) \/ (t.wrap = Gateway[k] /\ ext.rest = "")
      BY <1>4 DEF InGateway
    <3>5. low.rest = ext.rest \/ LosesCase(t, k)
      BY <1>4, <1>5 DEF LosesCase, File, InGateway
    <3>6. t.wrap = Gateway[k] /\ File(t) # "" => LosesFile(t)
      BY DEF LosesFile
    <3>7. Canonical(t, k, low)
      BY <2>2, <2>3, <3>1, <3>3, <3>4, <3>5, <3>6 DEF Canonical, Bare
    <3> QED BY <1>5, <2>1, <2>2, <3>2, <3>7
  <2>4. CASE ~Addresses(t, k)
    <3>1. t.id = "" \/ (ext.wrap = t.wrap /\ t.wrap # "bare")
      <4>1. t.id # "" => t.wrap # "bare" /\ t.wrap # Scheme[k] /\ t.wrap # Gateway[k]
        BY <2>4 DEF Addresses
      <4>2. t.id # "" => ~InGateway(t, k)
        BY <4>1 DEF InGateway
      <4>3. t.id # "" => ext.wrap = t.wrap
        BY <1>4, <4>1, <4>2
      <4> QED BY <4>1, <4>3
    <3>2. CASE t.id = ""
      <4>1. low = ext /\ low.id = ""
        BY <1>4, <1>5, <3>2
      <4>2. ext.wrap = t.wrap \/ low = Blank
        <5>1. ext.wrap # t.wrap => ext.wrap = "bare" /\ ext.id = "" /\ ext.rest = ""
          BY <1>1, <1>4, <3>2 DEF InGateway, File
        <5> QED BY <1>4, <4>1, <5>1, Texts, BlankText
      <4> QED BY <1>5, <2>1, <2>2, <2>4, <3>2, <4>1, <4>2 DEF Canonical
    <3>3. CASE t.id # "" /\ ext.wrap = t.wrap /\ t.wrap # "bare"
      <4>1. low = ext /\ low # Blank
        BY <1>5, <3>3, BlankText
      <4> QED BY <1>4, <1>5, <2>1, <2>2, <2>4, <3>3, <4>1 DEF Canonical
    <3> QED BY <3>1, <3>2, <3>3
  <2> QED BY <2>3, <2>4
<1> QED BY <1>7, <1>8

LEMMA KindType == \A s \in Slots : Kind(s) \in Kinds
  BY DEF Kind, Kinds

LEMMA FallThroughType ==
    ASSUME ResolutionAssumption, TypeOK, reader.pc = "reading"
    PROVE  FallThrough(reader) \in [pc : {"idle", "reading", "done", "failed"}, slot : Slots,
                                    attempt : 0 .. Retries - 1, result : Results]
<1> DEFINE Readers == [pc : {"idle", "reading", "done", "failed"}, slot : Slots,
                       attempt : 0 .. Retries - 1, result : Results]
<1>1. reader \in Readers /\ reader.slot \in Slots
  BY DEF TypeOK
<1>2. 0 \in 0 .. Retries - 1
  BY DEF ResolutionAssumption
<1>3. CASE reader.slot = 6
  <2>1. FallThrough(reader) = [reader EXCEPT !.pc = "done", !.attempt = 0]
    BY <1>3 DEF FallThrough
  <2> QED BY <1>1, <1>2, <2>1
<1>4. CASE reader.slot # 6
  <2>1. FallThrough(reader) = [reader EXCEPT !.slot = @ + 1, !.attempt = 0]
    BY <1>4 DEF FallThrough
  <2>2. reader.slot + 1 \in Slots
    BY <1>1, <1>4 DEF Slots
  <2> QED BY <1>1, <1>2, <2>1, <2>2
<1> QED BY <1>3, <1>4

LEMMA TypeInit == ResolutionAssumption /\ Init => TypeOK
<1> SUFFICES ASSUME ResolutionAssumption, Init PROVE TypeOK
  OBVIOUS
<1>1. reader \in [pc : {"idle", "reading", "done", "failed"}, slot : Slots,
                  attempt : 0 .. Retries - 1, result : Results]
  BY DEF ResolutionAssumption, Init, Slots, Results, None
<1>2. signer \in [Slots -> Owners \cup {NoOwner}]
  BY DEF Init
<1>3. form \in [Slots -> Contents]
  BY DEF Init
<1> QED BY <1>1, <1>2, <1>3 DEF Init, TypeOK

(* Every step keeps the types. *)
LEMMA TypeNext == ResolutionAssumption /\ TypeOK /\ [Next]_vars => TypeOK'
<1> SUFFICES ASSUME ResolutionAssumption, TypeOK, [Next]_vars PROVE TypeOK'
  OBVIOUS
<1> DEFINE Readers == [pc : {"idle", "reading", "done", "failed"}, slot : Slots,
                       attempt : 0 .. Retries - 1, result : Results]
<1>a. reader \in Readers
  BY DEF TypeOK
<1>1. ASSUME NEW s \in Slots, WriteRecord(s) PROVE TypeOK'
  <2>1. PICK f \in Contents, by \in {owner, NoOwner} :
           form' = [form EXCEPT ![s] = f] /\ signer' = [signer EXCEPT ![s] = by]
    BY <1>1 DEF WriteRecord
  <2>2. form' \in [Slots -> Contents] /\ signer' \in [Slots -> Owners \cup {NoOwner}]
    BY <2>1 DEF TypeOK
  <2>3. changes' \in Nat /\ steady' \subseteq Slots /\ calm' \in BOOLEAN
    <3>1. changes' = changes + 1 /\ steady' = {t \in steady : Usable(t)'} /\ calm' = FALSE
      BY <1>1 DEF WriteRecord, Change
    <3>2. changes \in Nat /\ steady \subseteq Slots
      BY DEF TypeOK
    <3>3. changes' \in Nat
      BY <3>1, <3>2
    <3>4. steady' \subseteq Slots
      BY <3>1, <3>2
    <3> QED BY <3>1, <3>3, <3>4
  <2> QED BY <1>1, <2>2, <2>3 DEF WriteRecord, TypeOK
<1>2. CASE Transfer
  <2>1. changes' \in Nat /\ steady' \subseteq Slots /\ calm' \in BOOLEAN
    <3>1. changes' = changes + 1 /\ steady' = {t \in steady : Usable(t)'} /\ calm' = FALSE
      BY <1>2 DEF Transfer, Change
    <3>2. changes \in Nat /\ steady \subseteq Slots
      BY DEF TypeOK
    <3>3. changes' \in Nat
      BY <3>1, <3>2
    <3>4. steady' \subseteq Slots
      BY <3>1, <3>2
    <3> QED BY <3>1, <3>3, <3>4
  <2> QED BY <1>2, <2>1 DEF Transfer, TypeOK
<1>3. CASE Begin
  <2>1. reader' \in Readers
    BY <1>3 DEF Begin, ResolutionAssumption, Slots, Results, None
  <2>2. steady' \subseteq Slots /\ calm' \in BOOLEAN /\ misled' \in BOOLEAN
    BY <1>3 DEF Begin
  <2> QED BY <1>3, <2>1, <2>2 DEF Begin, chain, TypeOK
<1>4. CASE ReadMiss \/ TakenForMissing
  <2>1. reader' \in Readers
    BY <1>4, FallThroughType DEF ReadMiss, TakenForMissing
  <2>2. misled' \in BOOLEAN
    BY <1>4 DEF ReadMiss, TakenForMissing, TypeOK
  <2> QED BY <1>4, <2>1, <2>2 DEF ReadMiss, TakenForMissing, chain, TypeOK
<1>5. CASE ReadHit
  <2> DEFINE s == reader.slot
             read == Classified(s)
  <2>1. s \in Slots /\ form[s] \in Contents /\ form[s] # Absent /\ form[s] # Blank
    BY <1>5 DEF ReadHit, HasContent, TypeOK
  <2>2. [slot |-> s, kind |-> read.kind, value |-> read.value] \in Results
    <3>1. form[s] \in Text
      BY <2>1 DEF Contents, ResolutionAssumption
    <3>2. read.kind \in Kinds /\ read.value \in Text
      BY <2>1, <3>1, KindType, ContentCanonical DEF Classified, Meant, Kinds
    <3> QED BY <2>1, <3>2 DEF Results
  <2>3. 0 \in 0 .. Retries - 1
    BY DEF ResolutionAssumption
  <2>4. reader' \in Readers
    BY <1>5, <1>a, <2>2, <2>3 DEF ReadHit
  <2> QED BY <1>5, <2>4 DEF ReadHit, chain, TypeOK
<1>6. CASE Retry
  <2>1. reader.attempt + 1 \in 0 .. Retries - 1
    BY <1>6, <1>a DEF Retry, ResolutionAssumption
  <2>2. reader' \in Readers
    BY <1>6, <1>a, <2>1 DEF Retry
  <2> QED BY <1>6, <2>2 DEF Retry, chain, TypeOK
<1>7. CASE GiveUp
  <2>1. 0 \in 0 .. Retries - 1
    BY DEF ResolutionAssumption
  <2>2. reader' = [reader EXCEPT !.pc = "failed", !.attempt = 0]
    BY <1>7 DEF GiveUp
  <2>3. reader' \in Readers
    BY <1>a, <2>1, <2>2
  <2> QED BY <1>7, <2>3 DEF GiveUp, chain, TypeOK
<1>8. CASE UNCHANGED vars
  BY <1>8 DEF vars, chain, TypeOK
<1> QED BY <1>1, <1>2, <1>3, <1>4, <1>5, <1>6, <1>7, <1>8 DEF Next, Read

(* The resolver's state stays well typed: no slot past the last, no attempt past the limit. *)
THEOREM TypeCorrect == Spec => []TypeOK
<1>1. Init => TypeOK
  BY ResolutionAssumption, TypeInit
<1>2. TypeOK /\ [Next]_vars => TypeOK'
  BY ResolutionAssumption, TypeNext
<1> QED BY <1>1, <1>2, PTL DEF Spec

-----------------------------------------------------------------------------
(* The code's checks accept a record exactly when clients of the name service do. *)
LEMMA ContentIsUsable ==
    ASSUME NEW s \in Slots
    PROVE  HasContent(s) <=> Usable(s)
  BY DEF HasContent, Usable, Verified, Authentic

(* Before the first resolution there is nothing to show. *)
LEMMA InvInit == Init => ResolutionInv
  BY DEF Init, ResolutionInv, NoSteadyRecordMissed, CalmResultTrue

(* A change shrinks steady and ends the calm; the reader has not moved. *)
LEMMA ChangeKeeps ==
    ASSUME ResolutionInv, UNCHANGED <<reader, misled>>, calm' = FALSE,
           steady' = {t \in steady : Usable(t)'}
    PROVE  ResolutionInv'
<1>1. steady' \subseteq steady
  OBVIOUS
<1>2. \A s \in steady' : Usable(s)'
  OBVIOUS
<1>3. NoSteadyRecordMissed'
  BY <1>1 DEF ResolutionInv, NoSteadyRecordMissed, Passed
<1>4. CalmResultTrue'
  BY DEF CalmResultTrue
<1> QED BY <1>1, <1>2, <1>3, <1>4 DEF ResolutionInv

(* A slot that is passed over rightly, or by mistake, keeps the invariant. *)
LEMMA PassOver ==
    ASSUME TypeOK, ResolutionInv, UNCHANGED <<chain, steady, calm>>,
           reader.pc = "reading", reader' = FallThrough(reader),
           misled' \/ (misled' = misled /\ reader.slot \notin steady)
    PROVE  ResolutionInv'
<1>1. reader.slot \in Slots /\ steady \subseteq Slots /\ reader.result = None
  BY DEF TypeOK, ResolutionInv
<1>2. misled' \/ \A t \in steady : reader.slot + 1 <= t
  BY <1>1 DEF ResolutionInv, Slots
<1>3. \A s \in Slots : Usable(s)' <=> Usable(s)
  BY DEF Usable, Authentic, chain
<1>4. CASE reader.slot = 6
  <2>1. reader'.pc = "done" /\ reader'.result = None
    BY <1>1, <1>4 DEF FallThrough, TypeOK
  <2>2. misled' \/ steady = {}
    BY <1>1, <1>2, <1>4 DEF Slots
  <2>3. NoSteadyRecordMissed'
    BY <2>2 DEF NoSteadyRecordMissed
  <2>4. CalmResultTrue'
    BY <1>3, <2>1, <2>2 DEF CalmResultTrue, ResolutionInv
  <2> QED BY <1>1, <1>3, <2>1, <2>3, <2>4 DEF ResolutionInv
<1>5. CASE reader.slot # 6
  <2>1. reader'.pc = "reading" /\ reader'.result = None /\ reader'.slot = reader.slot + 1
    BY <1>1, <1>5 DEF FallThrough, TypeOK
  <2>2. NoSteadyRecordMissed' /\ CalmResultTrue'
    BY <2>1 DEF NoSteadyRecordMissed, CalmResultTrue
  <2> QED BY <1>1, <1>2, <1>3, <2>1, <2>2 DEF ResolutionInv
<1> QED BY <1>4, <1>5

(* Every step keeps the invariant. *)
LEMMA InvNext == TypeOK /\ ResolutionInv /\ [Next]_vars => ResolutionInv'
<1> SUFFICES ASSUME TypeOK, ResolutionInv, [Next]_vars PROVE ResolutionInv'
  OBVIOUS
<1>1. ASSUME NEW s \in Slots, WriteRecord(s) PROVE ResolutionInv'
  BY <1>1, ChangeKeeps DEF WriteRecord
<1>2. CASE Transfer
  BY <1>2, ChangeKeeps DEF Transfer
<1>3. CASE Begin
  <2>1. steady' = {s \in Slots : Usable(s)} /\ reader'.pc = "reading"
        /\ reader'.result = None /\ reader'.slot = 1
    BY <1>3 DEF Begin
  <2>2. \A s \in Slots : Usable(s)' <=> Usable(s)
    BY <1>3 DEF Begin, Usable, Authentic, chain
  <2>3. \A t \in steady' : 1 <= t
    BY <2>1 DEF Slots
  <2>4. NoSteadyRecordMissed' /\ CalmResultTrue'
    BY <2>1 DEF NoSteadyRecordMissed, CalmResultTrue
  <2> QED BY <2>1, <2>2, <2>3, <2>4 DEF ResolutionInv
<1>4. CASE ReadMiss
  <2>1. reader.slot \in Slots
    BY DEF TypeOK
  <2>2. ~Usable(reader.slot)
    BY <1>4, <2>1, ContentIsUsable DEF ReadMiss
  <2>3. reader.slot \notin steady
    BY <2>2 DEF ResolutionInv
  <2> QED BY <1>4, <2>3, PassOver DEF ReadMiss
<1>5. CASE TakenForMissing
  BY <1>5, PassOver DEF TakenForMissing
<1>6. CASE ReadHit
  <2> DEFINE k == reader.slot
  <2>1. k \in Slots /\ steady \subseteq Slots
    BY DEF TypeOK
  <2>2. Usable(k) /\ form[k] \in Text /\ form[k] # Blank
    BY <1>6, <2>1, ContentIsUsable, ResolutionAssumption
    DEF ReadHit, HasContent, TypeOK, Contents, ResolutionAssumption
  <2>a. /\ reader'.pc = "done" /\ reader'.result.slot = k
        /\ reader'.result.kind = Classified(k).kind /\ reader'.result.value = Classified(k).value
    BY <1>6 DEF ReadHit, TypeOK
  <2>3. /\ reader'.pc = "done" /\ reader'.result.slot = k
        /\ reader'.result.kind = Says(k) /\ Canonical(form[k], Kind(k), reader'.result.value)
    BY <2>1, <2>2, <2>a, KindType, ContentCanonical DEF Classified, Says
  <2>4. reader'.result # None
    BY <2>1, <2>3 DEF None, Slots
  <2>5. /\ \A s \in Slots : (Usable(s)' <=> Usable(s)) /\ Says(s)' = Says(s)
        /\ UNCHANGED form
    BY <1>6 DEF ReadHit, Usable, Authentic, Says, Kind, chain
  <2>6. misled \/ \A t \in steady : k <= t
    BY <1>6 DEF ReadHit, ResolutionInv
  <2>7. UNCHANGED <<steady, calm, misled>>
    BY <1>6 DEF ReadHit
  <2>8. NoSteadyRecordMissed'
    BY <2>1, <2>3, <2>4, <2>6, <2>7 DEF NoSteadyRecordMissed, Passed, Slots
  <2>9. CalmResultTrue'
    <3> SUFFICES ASSUME calm, ~misled PROVE \A t \in 1 .. k - 1 : ~Usable(t)
      BY <2>1, <2>2, <2>3, <2>5, <2>7 DEF CalmResultTrue, Slots
    <3>1. \A s \in Slots : Usable(s) => s \in steady
      BY <1>6 DEF ReadHit, ResolutionInv
    <3> QED BY <2>1, <2>6, <3>1 DEF Slots
  <2> QED BY <1>6, <2>3, <2>5, <2>7, <2>8, <2>9 DEF ReadHit, TypeOK, ResolutionInv
<1>7. CASE Retry \/ GiveUp
  <2>1. UNCHANGED <<chain, steady, calm, misled>> /\ reader.pc = "reading"
    BY <1>7 DEF Retry, GiveUp
  <2>2. reader'.pc \in {"reading", "failed"} /\ reader'.slot = reader.slot
        /\ reader'.result = reader.result
    BY <1>7, <2>1 DEF Retry, GiveUp, TypeOK
  <2>3. \A s \in Slots : Usable(s)' <=> Usable(s)
    BY <2>1 DEF Usable, Authentic, chain
  <2>4. NoSteadyRecordMissed' /\ CalmResultTrue'
    BY <2>2 DEF NoSteadyRecordMissed, CalmResultTrue
  <2> QED BY <2>1, <2>2, <2>3, <2>4 DEF ResolutionInv, TypeOK
<1>8. CASE UNCHANGED vars
  BY <1>8 DEF vars, chain, ResolutionInv, NoSteadyRecordMissed, CalmResultTrue, Passed,
             Usable, Authentic, Says, Kind
<1> QED BY <1>1, <1>2, <1>3, <1>4, <1>5, <1>6, <1>7, <1>8 DEF Next, Read

LEMMA InvCorrect == Spec => []ResolutionInv
<1> QED BY InvInit, InvNext, TypeCorrect, PTL DEF Spec

(* No resolution misses a record that was usable all along, unless a failure misled it. *)
THEOREM NothingMissed == Spec => []NoSteadyRecordMissed
<1>1. ResolutionInv => NoSteadyRecordMissed
  BY DEF ResolutionInv
<1> QED BY <1>1, InvCorrect, PTL

(* An undisturbed resolution returns what the records say. *)
THEOREM UndisturbedTrue == Spec => []CalmResultTrue
<1>1. ResolutionInv => CalmResultTrue
  BY DEF ResolutionInv
<1> QED BY <1>1, InvCorrect, PTL

=============================================================================
