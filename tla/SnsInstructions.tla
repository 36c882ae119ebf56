--------------------------- MODULE SnsInstructions ---------------------------
(***************************************************************************)
(* What the register and the record-changes job read out of a transaction: *)
(* the domains it creates under .sol, and the domains whose V2 records it  *)
(* touches.                                                                *)
(*                                                                         *)
(* A transaction has top-level instructions and, per top-level             *)
(* instruction, a group of inner ones (CPIs).  Of an instruction matter:   *)
(* parsed (decoded by the node, without accounts and data), the program,   *)
(* the accounts, and the bytes of the data, which are none when the text   *)
(* is empty or no base58.                                                  *)
(***************************************************************************)
EXTENDS Integers, Sequences, SequencesExt

NameService == "SPL Name Service"
RecordsV2 == "SNS Records V2"
SolRoot == ".sol"

(* The code counts accounts from 0. *)
Account(ix, index) == ix.accounts[index + 1]
HasAccount(ix, index) == Len(ix.accounts) > index

IsPartiallyDecoded(ix) == ~ix.parsed

(* The instruction's kind, 0 for Create; -1 stands for undefined. *)
FirstByte(ix) == IF ix.data = <<>> THEN -1 ELSE Head(ix.data)

IsCreate(ix) ==
    /\ IsPartiallyDecoded(ix)
    /\ ix.program = NameService
    /\ HasAccount(ix, 5)
    /\ FirstByte(ix) = 0
    /\ Account(ix, 5) = SolRoot

TouchesRecord(ix) ==
    /\ IsPartiallyDecoded(ix)
    /\ ix.program = RecordsV2
    /\ HasAccount(ix, 4)

(* All instructions of a transaction, wherever they are. *)
Members(tx) == Range(tx.top) \cup UNION {Range(group) : group \in Range(tx.inner)}

(* Mutant: only the top-level instructions are looked at. *)
TopLevel(tx) == tx.top

(* The top-level instructions first, then all inner ones, group by group. *)
Instructions(tx) == tx.top \o FlattenSeq(tx.inner)

(***************************************************************************)
(* The loop of both extractors over what each instruction matches, which   *)
(* is a domain or nothing: a domain not seen before is added.              *)
(***************************************************************************)
Distinct(matched) ==
    LET matches[n \in 0 .. Len(matched)] ==
            IF n = 0 THEN <<>>
            ELSE IF matched[n] \subseteq Range(matches[n - 1]) THEN matches[n - 1]
            ELSE Append(matches[n - 1], CHOOSE domain \in matched[n] : TRUE)
    IN matches[Len(matched)]

(* Mutant: a failed transaction is read like any other. *)
EvenFailed(tx) == Instructions(tx)

(* A failed transaction changed nothing on chain: processSignature ignores it. *)
Effective(tx) == IF tx.err THEN <<>> ELSE Instructions(tx)

(* The domains a transaction creates, and those whose records it touches. *)
CreatedDomains(tx) ==
    LET ixs == Effective(tx)
    IN Distinct([i \in DOMAIN ixs |-> IF IsCreate(ixs[i]) THEN {Account(ixs[i], 2)} ELSE {}])

RecordDomains(tx) ==
    LET ixs == Effective(tx)
    IN Distinct([i \in DOMAIN ixs |-> IF TouchesRecord(ixs[i]) THEN {Account(ixs[i], 4)} ELSE {}])

=============================================================================
