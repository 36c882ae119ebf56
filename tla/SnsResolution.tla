--------------------------- MODULE SnsResolution ---------------------------
(***************************************************************************)
(* SnsService.resolveContent for one domain: the V2 and V1 records of      *)
(* three kinds are read one after the other, each in a call of its own     *)
(* that is retried, and the first usable one wins.  Meanwhile the owner    *)
(* may write records, and the domain may change hands, which makes its V2  *)
(* records stale.                                                          *)
(***************************************************************************)
EXTENDS ContentValue, Integers, FiniteSets

CONSTANTS
    Owners,         \* wallets that may own the domain
    Payloads,       \* texts that owners write to records
    Retries,        \* attempts of retryWithExponentialBackoff
    MaxSet,         \* bound: records set at the same time
    MaxChanges      \* bound: record writes and transfers

NoOwner == "none"

ASSUME ResolutionAssumption ==
    /\ Owners # {} /\ NoOwner \notin Owners
    /\ Payloads \subseteq Text
    /\ Retries \in Nat \ {0}
    /\ MaxSet \in Nat /\ MaxChanges \in Nat

VARIABLES
    form,       \* what a record slot holds
    signer,     \* who a V2 record was last validated by
    owner,      \* registry owner of the domain
    reader,     \* the resolution in progress, or the last one
    steady,     \* history: slots usable at every moment since it began
    calm,       \* history: nothing was written or transferred since it began
    misled,     \* history: it took a failure for a missing record
    changes     \* changes so far

chain == <<form, signer, owner>>
vars == <<chain, reader, steady, calm, misled, changes>>

-----------------------------------------------------------------------------
(* The order of the reads: V2 before V1, IPFS before IPNS before Arweave. *)
Slots == 1 .. 6
IsV2(s) == s % 2 = 1
Kind(s) == IF s <= 2 THEN "ipfs" ELSE IF s <= 4 THEN "ipns" ELSE "arweave"

Contents == Payloads \cup {Absent}

(* What the record says to a client of the name service. *)
Authentic(s) == IsV2(s) => signer[s] = owner
Usable(s) == form[s] \notin {Absent, Blank} /\ Authentic(s)
Says(s) == Meant(form[s], Kind(s))

None == [slot |-> 0, kind |-> "none", value |-> Absent]
Results == [slot : {0} \cup Slots, kind : Kinds \cup {"none"}, value : Text \cup {Absent}]

(* slot is the record being read and attempt counts its failed calls. *)
TypeOK ==
    /\ form \in [Slots -> Contents]
    /\ signer \in [Slots -> Owners \cup {NoOwner}]
    /\ owner \in Owners
    /\ reader \in [pc : {"idle", "reading", "done", "failed"}, slot : Slots,
                   attempt : 0 .. Retries - 1, result : Results]
    /\ steady \subseteq Slots /\ calm \in BOOLEAN /\ misled \in BOOLEAN
    /\ changes \in Nat

Init ==
    /\ \E set \in SUBSET Slots :
          /\ Cardinality(set) <= MaxSet
          /\ form \in [Slots -> Contents]
          /\ \A s \in Slots : form[s] = Absent <=> s \notin set
    /\ owner \in Owners
    /\ signer = [s \in Slots |-> IF IsV2(s) /\ form[s] # Absent THEN owner ELSE NoOwner]
    /\ reader = [pc |-> "idle", slot |-> 1, attempt |-> 0, result |-> None]
    /\ steady = {} /\ calm = TRUE /\ misled = FALSE
    /\ changes = 0

-----------------------------------------------------------------------------
(* The chain. *)
Change == changes < MaxChanges /\ changes' = changes + 1

(* A V2 record may be written without validating it, or be deleted. *)
WriteRecord(s) ==
    /\ Change
    /\ UNCHANGED <<owner, reader, misled>>
    /\ \E f \in Contents, by \in {owner, NoOwner} :
          /\ f = Absent \/ ~IsV2(s) => by = NoOwner
          /\ form' = [form EXCEPT ![s] = f]
          /\ signer' = [signer EXCEPT ![s] = by]
    /\ Cardinality({t \in Slots : form'[t] # Absent}) <= MaxSet
    /\ steady' = {t \in steady : Usable(t)'}
    /\ calm' = FALSE

Transfer ==
    /\ Change
    /\ owner' \in Owners \ {owner}
    /\ UNCHANGED <<form, signer, reader, misled>>
    /\ steady' = {t \in steady : Usable(t)'}
    /\ calm' = FALSE

-----------------------------------------------------------------------------
(***************************************************************************)
(* The resolution.                                                         *)
(***************************************************************************)
Begin ==
    /\ reader.pc # "reading"
    /\ reader' = [pc |-> "reading", slot |-> 1, attempt |-> 0, result |-> None]
    /\ steady' = {s \in Slots : Usable(s)}
    /\ calm' = TRUE /\ misled' = FALSE
    /\ UNCHANGED <<chain, changes>>

(* Mutant: a V2 record is accepted whoever validated it. *)
VerifiedByAnyone(s) == IsV2(s) => signer[s] # NoOwner

(* Staleness; none of the three kinds has a guardian or is signed by itself. *)
Verified(s) == IsV2(s) => signer[s] = owner

Classified(s) == ClassifyRecordContent(form[s], Kind(s))

HasContent(s) == form[s] \notin {Absent, Blank} /\ Verified(s)

(* No record in this slot: the next slot is read, after the last there is no content. *)
FallThrough(r) ==
    IF r.slot = 6 THEN [r EXCEPT !.pc = "done", !.attempt = 0]
    ELSE [r EXCEPT !.slot = @ + 1, !.attempt = 0]

ReadMiss ==
    /\ reader.pc = "reading" /\ ~HasContent(reader.slot)
    /\ reader' = FallThrough(reader)
    /\ UNCHANGED <<chain, steady, calm, misled, changes>>

ReadHit ==
    /\ reader.pc = "reading" /\ HasContent(reader.slot)
    /\ reader' = [reader EXCEPT !.pc = "done", !.attempt = 0,
                     !.result = LET read == Classified(reader.slot)
                                IN [slot |-> reader.slot, kind |-> read.kind, value |-> read.value]]
    /\ UNCHANGED <<chain, steady, calm, misled, changes>>

(* Mutant: one attempt too many. *)
RetryOnceMore ==
    /\ reader.pc = "reading"
    /\ reader.attempt < Retries
    /\ reader' = [reader EXCEPT !.attempt = @ + 1]
    /\ UNCHANGED <<chain, steady, calm, misled, changes>>

(* Mutant: after the last attempt the count starts again. *)
RetryForever ==
    /\ reader.pc = "reading"
    /\ reader' = [reader EXCEPT !.attempt = (@ + 1) % Retries]
    /\ UNCHANGED <<chain, steady, calm, misled, changes>>

(* A retryable failure, and another attempt is left. *)
Retry ==
    /\ reader.pc = "reading"
    /\ reader.attempt + 1 < Retries
    /\ reader' = [reader EXCEPT !.attempt = @ + 1]
    /\ UNCHANGED <<chain, steady, calm, misled, changes>>

(* Mutant: a read that keeps failing counts as a missing record. *)
SwallowFailure ==
    /\ reader.pc = "reading"
    /\ reader' = FallThrough(reader)
    /\ UNCHANGED <<chain, steady, calm, misled, changes>>

(* A failure that is not retryable, or the last attempt's: the job's tick learns of it. *)
GiveUp ==
    /\ reader.pc = "reading"
    /\ reader' = [reader EXCEPT !.pc = "failed", !.attempt = 0]
    /\ UNCHANGED <<chain, steady, calm, misled, changes>>

(* isMissingAccountError finds one of its hints in the failure's message. *)
TakenForMissing ==
    /\ reader.pc = "reading"
    /\ reader' = FallThrough(reader)
    /\ misled' = TRUE
    /\ UNCHANGED <<chain, steady, calm, changes>>

-----------------------------------------------------------------------------
Read == ReadMiss \/ ReadHit \/ Retry \/ GiveUp \/ TakenForMissing

Next ==
    \/ \E s \in Slots : WriteRecord(s)
    \/ Transfer
    \/ Begin
    \/ Read

Spec == Init /\ [][Next]_vars

(* Every call is answered or fails, as often as it may fail. *)
FairSpec == Spec /\ WF_vars(Read)

-----------------------------------------------------------------------------
(***************************************************************************)
(* Properties.                                                             *)
(***************************************************************************)
Passed == IF reader.result = None THEN Slots ELSE 1 .. reader.result.slot - 1

(***************************************************************************)
(* sns.service.ts:303-307, no "silent data loss on RPC outages": whatever  *)
(* fails or is written meanwhile, a resolution neither comes back empty    *)
(* nor settles for a later record while a better one was there all along,  *)
(* except when the text of a failure made it pass for a missing account.   *)
(***************************************************************************)
NoSteadyRecordMissed ==
    reader.pc = "done" => misled \/ Passed \cap steady = {}

(***************************************************************************)
(* A resolution during which the chain stood still returns what the        *)
(* records say at its end: the usable record of highest priority, with the *)
(* kind its content has and the one value its content is known by, however *)
(* the record spells it.                                                   *)
(***************************************************************************)
CalmResultTrue ==
    reader.pc = "done" /\ calm /\ ~misled =>
        \/ reader.result = None /\ \A s \in Slots : ~Usable(s)
        \/ \E s \in Slots :
              /\ reader.result.slot = s /\ reader.result.kind = Says(s)
              /\ Canonical(form[s], Kind(s), reader.result.value)
              /\ Usable(s) /\ \A t \in 1 .. s - 1 : ~Usable(t)

(***************************************************************************)
(* The inductive invariant: until something changes, steady is what is     *)
(* usable, and no read has passed a slot of it.                            *)
(***************************************************************************)
ResolutionInv ==
    /\ \A s \in steady : Usable(s)
    /\ reader.pc # "idle" /\ calm => \A s \in Slots : Usable(s) => s \in steady
    /\ reader.pc = "reading" =>
          /\ reader.result = None
          /\ misled \/ \A t \in steady : reader.slot <= t
    /\ NoSteadyRecordMissed
    /\ CalmResultTrue

(* Each resolution comes to an end, even if every call fails for ever. *)
ResolutionEnds == reader.pc = "reading" ~> reader.pc # "reading"

=============================================================================
