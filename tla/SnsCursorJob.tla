---------------------------- MODULE SnsCursorJob ----------------------------
(***************************************************************************)
(* The tick of a slot-cursor job: SnsRegisterJob.handle (the tick of       *)
(* SnsRecordChangesJob.handle has the same shape), the signature walker it *)
(* calls and the cursor row it saves.                                      *)
(*                                                                         *)
(* A signature is its position in chain, the program's history in the      *)
(* order the chain confirmed it.  A process keeps isJobRunning in memory,  *)
(* so several processes (the cron service and a "cli:once" run, or two     *)
(* deployments that overlap) tick at the same time on one cursor row.      *)
(***************************************************************************)
EXTENDS Integers, Sequences, FiniteSets

CONSTANTS
    Procs,          \* processes that run the job
    PageLimit,      \* WALKER_OPTIONS.pageLimit
    MaxPages,       \* WALKER_OPTIONS.maxPagesPerTick
    Concurrency,    \* snsTxFetchConcurrency, the PromisePool's width
    Seed,           \* position of the configured start signature, 0 if none
    MaxSigs,        \* bound: length of the history
    MaxSlot,        \* bound: slots
    MaxFaults       \* bound: failed calls, unseen transactions and crashes

ASSUME ConstantsAssumption ==
    /\ PageLimit \in Nat \ {0}
    /\ MaxPages \in Nat \ {0}
    /\ Concurrency \in Nat \ {0}
    /\ Seed \in Nat
    /\ MaxSigs \in Nat
    /\ MaxSlot \in Nat \ {0}
    /\ MaxFaults \in Nat

VARIABLES
    chain,      \* confirmed signatures of the program, oldest first
    cursor,     \* lastMigratedBlockNumber of the job's row, 0 without a row
    job,        \* the tick in progress in each process
    applied,    \* history: signatures whose effects are in the database
    missed,     \* history: processed without effect (null transaction, no name)
    failed,     \* history: signatures whose latest processing threw
    coldSlot,   \* history: highest slot a cold-start tick saved
    faults      \* faults so far

db == <<cursor, coldSlot>>
outcomes == <<applied, missed, failed>>
vars == <<chain, db, job, outcomes, faults>>

Sigs == 1 .. Len(chain)
Slot(i) == chain[i].slot
TipSlot == IF Len(chain) = 0 THEN 1 ELSE Slot(Len(chain))

(***************************************************************************)
(* A tick: the local variables of handle and of the walker's loop, and the *)
(* PromisePool's queue, running tasks and errors.  before = 0 is the       *)
(* undefined "before" of the first page.                                   *)
(***************************************************************************)
Idle == [pc |-> "idle", lastSlot |-> 0, before |-> 0, pages |-> 0,
         sigs |-> {}, todo |-> {}, active |-> {}, errors |-> {}]

Job == [pc : {"idle", "walk", "work"}, lastSlot : Nat, before : {0} \cup Sigs, pages : Nat,
        sigs : SUBSET Sigs, todo : SUBSET Sigs, active : SUBSET Sigs,
        errors : SUBSET Sigs]

TypeOK ==
    /\ chain \in Seq([slot : Nat \ {0}, err : BOOLEAN])
    /\ cursor \in Nat /\ coldSlot \in Nat
    /\ job \in [Procs -> Job]
    /\ applied \subseteq Sigs /\ missed \subseteq Sigs /\ failed \subseteq Sigs
    /\ faults \in Nat

Init ==
    /\ chain = [i \in 1 .. Seed |-> [slot |-> 1, err |-> FALSE]]
    /\ cursor = 0 /\ coldSlot = 0
    /\ job = [p \in Procs |-> Idle]
    /\ applied = {} /\ missed = {} /\ failed = {}
    /\ faults = 0

-----------------------------------------------------------------------------
(***************************************************************************)
(* The chain, and the faults around the job.                               *)
(***************************************************************************)
Confirm ==
    /\ Len(chain) < MaxSigs
    /\ \E s \in TipSlot .. MaxSlot, e \in BOOLEAN :
          chain' = Append(chain, [slot |-> s, err |-> e])
    /\ UNCHANGED <<db, job, outcomes, faults>>

Fault == faults < MaxFaults /\ faults' = faults + 1

(* Everything a tick holds is in memory, isJobRunning included. *)
Crash(p) ==
    /\ Fault
    /\ job[p].pc # "idle"
    /\ job' = [job EXCEPT ![p] = Idle]
    /\ UNCHANGED <<chain, db, outcomes>>

-----------------------------------------------------------------------------
(***************************************************************************)
(* The tick begins.  A cron call that finds isJobRunning set returns.      *)
(***************************************************************************)
(* Mutant: the boundary is replayed by one slot less. *)
StartTickOneBelow(p) ==
    /\ job[p].pc = "idle"
    /\ job' = [job EXCEPT ![p] = [Idle EXCEPT !.pc = "walk", !.lastSlot = cursor - 1]]
    /\ UNCHANGED <<chain, db, outcomes, faults>>

StartTick(p) ==
    /\ job[p].pc = "idle"
    /\ job' = [job EXCEPT ![p] = [Idle EXCEPT !.pc = "walk", !.lastSlot = cursor]]
    /\ UNCHANGED <<chain, db, outcomes, faults>>

(***************************************************************************)
(* The walker.  getSignaturesForAddress returns the PageLimit signatures   *)
(* before "before", and on a cold start none up to the seed.               *)
(***************************************************************************)
Before(p) == IF job[p].before = 0 THEN Len(chain) + 1 ELSE job[p].before
Until(p) == IF job[p].lastSlot = 0 THEN Seed ELSE 0

Oldest(p) == IF Before(p) - PageLimit > Until(p)
             THEN Before(p) - PageLimit ELSE Until(p) + 1

Page(p) == Oldest(p) .. (Before(p) - 1)

(* Mutant: the boundary slot is not collected again. *)
CollectedAboveCursor(p) ==
    job[p].sigs \cup {i \in Page(p) : ~chain[i].err /\ Slot(i) > job[p].lastSlot}

Collected(p) ==
    job[p].sigs \cup {i \in Page(p) : ~chain[i].err /\ Slot(i) >= job[p].lastSlot}

(* The loop's exits: an empty page, a page below the cursor, a cold start, the cap. *)
WalkEnds(p) ==
    \/ Page(p) = {}
    \/ Page(p) # {} /\ Slot(Oldest(p)) < job[p].lastSlot
    \/ job[p].lastSlot = 0
    \/ job[p].pages + 1 = MaxPages

FetchPage(p) ==
    /\ job[p].pc = "walk"
    /\ ~WalkEnds(p)
    /\ job' = [job EXCEPT ![p].before = Oldest(p), ![p].pages = @ + 1,
                          ![p].sigs = Collected(p)]
    /\ UNCHANGED <<chain, db, outcomes, faults>>

(* A tick that collected nothing returns; any other one fills the pool. *)
FetchLastPage(p) ==
    /\ job[p].pc = "walk"
    /\ WalkEnds(p)
    /\ job' = [job EXCEPT ![p] =
                 IF Collected(p) = {} THEN Idle
                 ELSE [@ EXCEPT !.pc = "work", !.sigs = Collected(p),
                                !.todo = Collected(p)]]
    /\ UNCHANGED <<chain, db, outcomes, faults>>

-----------------------------------------------------------------------------
(***************************************************************************)
(* The pool takes signatures by slot; the stable sort of a list that runs  *)
(* newest to oldest leaves a slot's signatures newest first.               *)
(***************************************************************************)
Precedes(i, j) == Slot(i) < Slot(j) \/ (Slot(i) = Slot(j) /\ i > j)

TakeSig(p) ==
    /\ Cardinality(job[p].active) < Concurrency
    /\ \E i \in job[p].todo :
          /\ \A k \in job[p].todo \ {i} : Precedes(i, k)
          /\ job' = [job EXCEPT ![p].todo = @ \ {i}, ![p].active = @ \cup {i}]
    /\ UNCHANGED <<chain, db, outcomes, faults>>

(* processSignature writes the domains of the transaction. *)
SigApplied(p, i) ==
    /\ i \in job[p].active
    /\ job' = [job EXCEPT ![p].active = @ \ {i}]
    /\ applied' = applied \cup {i}
    /\ failed' = failed \ {i}
    /\ UNCHANGED <<chain, db, missed, faults>>

(* A null transaction or a name that cannot be looked up counts as processed. *)
SigMissed(p, i) ==
    /\ Fault
    /\ i \in job[p].active
    /\ job' = [job EXCEPT ![p].active = @ \ {i}]
    /\ missed' = missed \cup {i}
    /\ failed' = failed \ {i}
    /\ UNCHANGED <<chain, db, applied>>

(* Mutant: the pool's error is swallowed. *)
SigThrowsSilently(p, i) ==
    /\ Fault
    /\ i \in job[p].active
    /\ job' = [job EXCEPT ![p].active = @ \ {i}]
    /\ failed' = failed \cup {i}
    /\ UNCHANGED <<chain, db, applied, missed>>

SigThrows(p, i) ==
    /\ Fault
    /\ i \in job[p].active
    /\ job' = [job EXCEPT ![p].active = @ \ {i}, ![p].errors = @ \cup {i}]
    /\ failed' = failed \cup {i}
    /\ UNCHANGED <<chain, db, applied, missed>>

-----------------------------------------------------------------------------
(***************************************************************************)
(* The tick ends.  safeSlot is the highest slot collected, or the lowest   *)
(* one that failed; the row is written only if that is past the slot the   *)
(* tick began with.                                                        *)
(***************************************************************************)
PoolDone(p) == job[p].pc = "work" /\ job[p].todo = {} /\ job[p].active = {}

(* Mutant: errors do not hold the cursor. *)
IsMaxSlot(p, s) ==
    /\ \E i \in job[p].sigs : s = Slot(i)
    /\ \A i \in job[p].sigs : Slot(i) <= s

IsSafeSlot(p, s) ==
    IF job[p].errors = {}
    THEN /\ \E i \in job[p].sigs : s = Slot(i)
         /\ \A i \in job[p].sigs : Slot(i) <= s
    ELSE /\ \E i \in job[p].errors : s = Slot(i)
         /\ \A i \in job[p].errors : s <= Slot(i)

SaveCursor(p, s) ==
    IF s > job[p].lastSlot
    THEN /\ cursor' = s
         /\ coldSlot' = IF job[p].lastSlot = 0 /\ s > coldSlot THEN s ELSE coldSlot
    ELSE UNCHANGED db

(* Mutant: isJobRunning stays set. *)
EndTickLocked(p) ==
    /\ PoolDone(p)
    /\ \E i \in job[p].sigs : IsSafeSlot(p, Slot(i)) /\ SaveCursor(p, Slot(i))
    /\ UNCHANGED <<chain, job, outcomes, faults>>

EndTick(p) ==
    /\ PoolDone(p)
    /\ \E i \in job[p].sigs : IsSafeSlot(p, Slot(i)) /\ SaveCursor(p, Slot(i))
    /\ job' = [job EXCEPT ![p] = Idle]
    /\ UNCHANGED <<chain, outcomes, faults>>

(* A walk or a save that throws: catch logs, finally clears isJobRunning.*)
TickFails(p) ==
    /\ Fault
    /\ job[p].pc = "walk" \/ PoolDone(p)
    /\ job' = [job EXCEPT ![p] = Idle]
    /\ UNCHANGED <<chain, db, outcomes>>

-----------------------------------------------------------------------------
Process(p) ==
    \/ StartTick(p)
    \/ FetchPage(p)
    \/ FetchLastPage(p)
    \/ TakeSig(p)
    \/ \E i \in Sigs : SigApplied(p, i)
    \/ EndTick(p)

Disturb(p) ==
    \/ Crash(p)
    \/ TickFails(p)
    \/ \E i \in Sigs : SigMissed(p, i) \/ SigThrows(p, i)

Next == Confirm \/ \E p \in Procs : Process(p) \/ Disturb(p)

Spec == Init /\ [][Next]_vars

(***************************************************************************)
(* Cron fires every minute and every call answers or throws: a process     *)
(* always goes on, with whichever step of its tick or worker of its pool.  *)
(***************************************************************************)
Fairness == \A p \in Procs : WF_vars(Process(p))

FairSpec == Spec /\ Fairness

-----------------------------------------------------------------------------
(***************************************************************************)
(* Properties.                                                             *)
(***************************************************************************)
Settled == applied \cup missed

Wanted(i) == i > Seed /\ ~chain[i].err

Window == PageLimit * MaxPages

(* How many newer signatures put i out of the reach of the tick that left it. *)
Reach(i) == IF Slot(i) < coldSlot THEN PageLimit ELSE Window

LeftBehind(s) == {i \in Sigs : Wanted(i) /\ i \notin Settled /\ Slot(i) < s}

(***************************************************************************)
(* What the held cursor of handle does guarantee, whatever fails, crashes  *)
(* or runs beside it: the cursor leaves an unprocessed signature behind    *)
(* only when the signature lay out of the walk's reach, beyond the one     *)
(* page of a cold start or the MaxPages pages of a later tick.             *)
(***************************************************************************)
SkippedOnlyBehindFullWindow ==
    \A i \in LeftBehind(cursor) : Len(chain) - i >= Reach(i)

(***************************************************************************)
(* README.md:7-8, "held-cursor invariants that never advance past a failed *)
(* item".  The walker's page cap breaks it.                                *)
(***************************************************************************)
NeverPastFailedItem ==
    \A i \in failed : i \in Settled \/ Slot(i) >= cursor

WindowFullAbove(i) ==
    Len(chain) - i >= (IF cursor = 0 THEN PageLimit ELSE Reach(i))

Owed == {i \in Sigs : Wanted(i) /\ i \notin Settled /\ ~WindowFullAbove(i)}

(***************************************************************************)
(* Whatever failed, crashed or was replayed: no signature stays undone     *)
(* while the newer ones leave room for it in the window of a tick.         *)
(***************************************************************************)
EverySigProcessed == []<>(Owed = {})

(* The finally of handle: no tick, failed or not, leaves the job locked. *)
TickEnds == \A p \in Procs : []<>(job[p].pc = "idle")

-----------------------------------------------------------------------------
(***************************************************************************)
(* The inductive invariant behind SkippedOnlyBehindFullWindow.  A tick     *)
(* relies on the slot it began with, which another process may have moved  *)
(* on meanwhile, so the guarantee is kept for that slot too; Known bounds  *)
(* it, so that a signature confirmed later is never below it.              *)
(***************************************************************************)
Sorted == \A i, j \in Sigs : i <= j => Slot(i) <= Slot(j)

Safe(s) == \A i \in LeftBehind(s) : Len(chain) - i >= Reach(i)
Known(s) == s <= TipSlot

(* The walk so far holds everything from before on, or only newer than it. *)
WalkInv(p) ==
    job[p].pc = "walk" =>
        /\ job[p].todo = {} /\ job[p].active = {} /\ job[p].errors = {}
        /\ job[p].pages < MaxPages
        /\ job[p].before = 0 => job[p].sigs = {} /\ job[p].pages = 0
        /\ job[p].before # 0 =>
              /\ job[p].lastSlot > 0
              /\ job[p].before \in Sigs
              /\ \/ job[p].before = 1
                 \/ Len(chain) + 1 - job[p].before >= job[p].pages * PageLimit
              /\ \A i \in job[p].sigs : i >= job[p].before
              /\ \A i \in Sigs \ job[p].sigs :
                    i >= job[p].before /\ ~chain[i].err /\ Slot(i) >= job[p].lastSlot
                        => \A k \in job[p].sigs : Slot(k) <= Slot(i)

(* The pool loses nothing, and what the walk did not collect is newer or out of reach. *)
WorkInv(p) ==
    job[p].pc = "work" =>
        /\ job[p].todo \subseteq job[p].sigs
        /\ job[p].active \subseteq job[p].sigs
        /\ job[p].errors \subseteq job[p].sigs
        /\ job[p].sigs \subseteq
              Settled \cup job[p].todo \cup job[p].active \cup job[p].errors
        /\ \A i \in Sigs \ job[p].sigs :
              Wanted(i) /\ Slot(i) >= job[p].lastSlot =>
                 \/ \A k \in job[p].sigs : Slot(k) <= Slot(i)
                 \/ Len(chain) - i >= Window
                 \/ job[p].lastSlot = 0 /\ Len(chain) - i >= PageLimit

TickInv(p) ==
    Safe(job[p].lastSlot) /\ Known(job[p].lastSlot) /\ WalkInv(p) /\ WorkInv(p)

CursorInv ==
    Sorted /\ Safe(cursor) /\ Known(cursor) /\ \A p \in Procs : TickInv(p)

=============================================================================
