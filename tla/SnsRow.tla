------------------------------- MODULE SnsRow -------------------------------
(***************************************************************************)
(* The dns row of one domain, which the register, record-changes and       *)
(* backfill jobs create and the first two and the reconcile job complete.  *)
(* Each creates it by INSERT ... ON CONFLICT DO NOTHING on the unique      *)
(* name, reads it back, and may save the whole entity it has read.         *)
(*                                                                         *)
(* A signature is its position in sigs.  Those of other domains, which     *)
(* only move a cursor on, are left out but for registrations that failed   *)
(* before the domain's: what the replay of the newest slot repairs is      *)
(* promised until a newer signature ends it.  Of the content only matters  *)
(* here whether there is any.                                              *)
(* node, chain and main are the same in every insert.                      *)
(***************************************************************************)
EXTENDS SnsInstructions, SnsLookups

CONSTANTS
    Domain,         \* the domain's account
    Accounts,       \* states its registry account may be in for getOwner
    Transactions,   \* by name, transactions of the two programs
    Registrars,     \* pool workers of the register job
    Writers,        \* pool workers of the record-changes job
    Reconcilers,    \* pool workers of the reconcile job
    MaxAttempts,    \* MAX_IPFS_FETCH_RETRY_ATTEMPTS
    MaxSigs,        \* bound: signatures
    MaxSlot,        \* bound: slots
    MaxFaults       \* bound: failed calls, unseen transactions and crashes

ASSUME RowAssumption ==
    /\ Registrars \cap Writers = {} /\ Reconcilers \cap (Registrars \cup Writers) = {}
    /\ MaxAttempts \in Nat \ {0} /\ MaxSigs \in Nat /\ MaxSlot \in Nat /\ MaxFaults \in Nat

VARIABLES
    sigs,       \* confirmed signatures of the domain in both programs, oldest first
    content,    \* whether a record of the domain has content
    row,        \* the dns row
    cursor,     \* saved slot of either job
    tick,       \* the tick in progress of either job
    task,       \* what each pool worker is doing
    faults      \* faults so far

vars == <<sigs, content, row, cursor, tick, task, faults>>

Jobs == {"register", "changes"}
Workers == Registrars \cup Writers \cup Reconcilers
JobOf(w) == IF w \in Registrars THEN "register" ELSE "changes"
Crew(j) == IF j = "register" THEN Registrars ELSE Writers

Names == DOMAIN Transactions

All(n) == Members(Transactions[n])

(* A transaction has finitely many instructions, in order, and so has each of its groups. *)
ASSUME TransactionsAssumption ==
    \A n \in Names : /\ Transactions[n].top \in Seq(All(n))
                     /\ Transactions[n].inner \in Seq(Seq(All(n)))

(* The transactions that make the domain a .sol domain, or write records of it. *)
Takes(program) == {n \in Names : \E ix \in All(n) : ix.program = program}

Registering ==
    {n \in Takes(NameService) : ~Transactions[n].err /\
        \E ix \in All(n) : ix.program = NameService /\ FirstByte(ix) = 0
                            /\ Account(ix, 2) = Domain /\ Account(ix, 5) = SolRoot}

Writing ==
    {n \in Takes(RecordsV2) : ~Transactions[n].err /\
        \E ix \in All(n) : ix.program = RecordsV2 /\ Account(ix, 4) = Domain}

(* The transactions in which a job's processSignature finds the domain. *)
Found ==
    [register |-> {n \in Names : Contains(CreatedDomains(Transactions[n]), Domain)},
     changes  |-> {n \in Names : Contains(RecordDomains(Transactions[n]), Domain)}]

Positions == 1 .. Len(sigs)
Of(j) == {i \in Positions : sigs[i].job = j}
Slot(i) == sigs[i].slot
TipSlot == IF sigs = <<>> THEN 1 ELSE Slot(Len(sigs))

(***************************************************************************)
(* owner and cid say whether ownerAddress and cid are set; setupTx is 0    *)
(* for null; fails is ipfsFetchAttempt, with isFetchFailed at MaxAttempts. *)
(***************************************************************************)
Row == [exists : BOOLEAN, owner : BOOLEAN, setupTx : 0 .. MaxSigs, cid : BOOLEAN,
        fails : 0 .. MaxAttempts]
NoRow == [exists |-> FALSE, owner |-> FALSE, setupTx |-> 0, cid |-> FALSE, fails |-> 0]
Skeleton == [NoRow EXCEPT !.exists = TRUE]

Free == [pc |-> "free", sig |-> 0, row |-> NoRow]
NoTick == [on |-> FALSE, sigs |-> {}, todo |-> {}, errors |-> {}]

TypeOK ==
    /\ sigs \in Seq([job : Jobs, slot : 1 .. MaxSlot, tx : Names])
    /\ content \in BOOLEAN /\ row \in Row
    /\ \A j \in Jobs : cursor[j] \in {0} \cup {Slot(i) : i \in Of(j)}
    /\ \A j \in Jobs : tick[j] \in [on : BOOLEAN, sigs : SUBSET Of(j), todo : SUBSET Of(j),
                                    errors : SUBSET Of(j)]
    /\ task \in [Workers -> [pc : {"free", "byNode", "insert", "find", "save"},
                             sig : 0 .. MaxSigs, row : Row]]
    /\ faults \in 0 .. MaxFaults

Init ==
    /\ sigs = <<>>
    /\ content = FALSE /\ row = NoRow
    /\ cursor = [j \in Jobs |-> 0]
    /\ tick = [j \in Jobs |-> NoTick]
    /\ task = [w \in Workers |-> Free]
    /\ faults = 0

-----------------------------------------------------------------------------
(***************************************************************************)
(* The chain, the backfill job and the faults.                             *)
(***************************************************************************)
Registered == \E i \in Positions : sigs[i].tx \in Registering

(* The domain is registered once, and its records are written after that. *)
Confirm ==
    /\ Len(sigs) < MaxSigs
    /\ \E n \in Names, slot \in {TipSlot, TipSlot + 1} \cap 1 .. MaxSlot :
          /\ Registered <=> n \in Writing
          /\ sigs' = Append(sigs, [job |-> IF n \in Takes(NameService) THEN "register"
                                           ELSE "changes",
                                   slot |-> slot, tx |-> n])
          /\ content' \in IF n \in Writing THEN BOOLEAN ELSE {content}
    /\ UNCHANGED <<row, cursor, tick, task, faults>>

InsertOrIgnore(r) == row' = IF row.exists THEN row ELSE r

(* processBatch inserts neither an owner nor a transaction. *)
BackfillInserts ==
    /\ Registered /\ ~row.exists
    /\ InsertOrIgnore(Skeleton)
    /\ UNCHANGED <<sigs, content, cursor, tick, task, faults>>

Fault == faults < MaxFaults /\ faults' = faults + 1

Crash ==
    /\ Fault
    /\ \E j \in Jobs : tick[j].on
    /\ tick' = [j \in Jobs |-> NoTick]
    /\ task' = [w \in Workers |-> Free]
    /\ UNCHANGED <<sigs, content, row, cursor>>

-----------------------------------------------------------------------------
(***************************************************************************)
(* The ticks; SnsCursorJob has the pages of their walk.                    *)
(***************************************************************************)
StartTick(j) ==
    /\ ~tick[j].on
    /\ LET new == {i \in Of(j) : Slot(i) >= cursor[j]}
       IN /\ new # {}
          /\ tick' = [tick EXCEPT ![j] = [on |-> TRUE, sigs |-> new, todo |-> new,
                                          errors |-> {}]]
    /\ UNCHANGED <<sigs, content, row, cursor, task, faults>>

(* By slot, and the newest of a slot first. *)
Precedes(i, k) == Slot(i) < Slot(k) \/ (Slot(i) = Slot(k) /\ i > k)

TakeSig(w) ==
    LET j == JobOf(w)
    IN /\ w \notin Reconcilers /\ task[w].pc = "free"
       /\ \E i \in tick[j].todo :
             /\ \A k \in tick[j].todo \ {i} : Precedes(i, k)
             /\ tick' = [tick EXCEPT ![j].todo = @ \ {i}]
             /\ task' = IF sigs[i].tx \notin Found[j] THEN task
                        ELSE [task EXCEPT ![w] = [Free EXCEPT !.sig = i,
                                 !.pc = IF j = "register" THEN "insert" ELSE "byNode"]]
       /\ UNCHANGED <<sigs, content, row, cursor, faults>>

(* A null transaction, or a name that cannot be looked up, counts as processed. *)
SigMissed(w) ==
    /\ Fault
    /\ task[w].pc \in {"insert", "byNode"}
    /\ task' = [task EXCEPT ![w] = Free]
    /\ UNCHANGED <<sigs, content, row, cursor, tick>>

(* An await throws; only the two jobs with a cursor remember the signature. *)
TaskThrows(w) ==
    /\ Fault
    /\ task[w].pc # "free"
    /\ tick' = IF w \in Reconcilers THEN tick
               ELSE [tick EXCEPT ![JobOf(w)].errors = @ \cup {task[w].sig}]
    /\ task' = [task EXCEPT ![w] = Free]
    /\ UNCHANGED <<sigs, content, row, cursor>>

Newest(some) == {i \in some : \A k \in some : Slot(k) <= Slot(i)}
Oldest(some) == {i \in some : \A k \in some : Slot(i) <= Slot(k)}

(* Mutant: the cursor moves on to the slot after the last one. *)
EndTickPastTop(j) ==
    /\ tick[j].on /\ tick[j].todo = {} /\ \A w \in Crew(j) : task[w].pc = "free"
    /\ \E i \in Newest(tick[j].sigs) : cursor' = [cursor EXCEPT ![j] = Slot(i) + 1]
    /\ tick' = [tick EXCEPT ![j] = NoTick]
    /\ UNCHANGED <<sigs, content, row, task, faults>>

EndTick(j) ==
    /\ tick[j].on /\ tick[j].todo = {} /\ \A w \in Crew(j) : task[w].pc = "free"
    /\ \E i \in IF tick[j].errors = {} THEN Newest(tick[j].sigs) ELSE Oldest(tick[j].errors) :
          cursor' = [cursor EXCEPT ![j] = IF Slot(i) > @ THEN Slot(i) ELSE @]
    /\ tick' = [tick EXCEPT ![j] = NoTick]
    /\ UNCHANGED <<sigs, content, row, task, faults>>

-----------------------------------------------------------------------------
(***************************************************************************)
(* upsertDomain of the register job.                                       *)
(***************************************************************************)
InsertRegistered(w) ==
    /\ w \in Registrars /\ task[w].pc = "insert"
    /\ InsertOrIgnore([Skeleton EXCEPT !.owner = TRUE, !.setupTx = task[w].sig])
    /\ task' = [task EXCEPT ![w].pc = "find"]
    /\ UNCHANGED <<sigs, content, cursor, tick, faults>>

Filled(r, sig) ==
    [r EXCEPT !.owner = TRUE, !.setupTx = IF r.setupTx = 0 THEN sig ELSE @]

(* Mutant: a row that lost the insert is not completed. *)
FindRegisteredOnly(w) ==
    /\ w \in Registrars /\ task[w].pc = "find"
    /\ task' = [task EXCEPT ![w] = Free]
    /\ UNCHANGED <<sigs, content, row, cursor, tick, faults>>

(* The fields the winning insert left null are filled in, and only then is it saved. *)
FindRegistered(w) ==
    /\ w \in Registrars /\ task[w].pc = "find"
    /\ LET filled == Filled(row, task[w].sig)
       IN task' = [task EXCEPT ![w] =
                      IF filled = row THEN Free ELSE [@ EXCEPT !.pc = "save", !.row = filled]]
    /\ UNCHANGED <<sigs, content, row, cursor, tick, faults>>

SaveRegistered(w) ==
    /\ w \in Registrars /\ task[w].pc = "save"
    /\ row' = task[w].row
    /\ task' = [task EXCEPT ![w] = Free]
    /\ UNCHANGED <<sigs, content, cursor, tick, faults>>

-----------------------------------------------------------------------------
(***************************************************************************)
(* applyRecordWrite of the record-changes job, and the reconcile job.      *)
(***************************************************************************)
(* Mutant: the transaction is left to the insert. *)
Unstamped(r, sig) == r

Stamped(r, sig) == [r EXCEPT !.setupTx = sig]

FindByNode(w) ==
    /\ task[w].pc = "byNode"
    /\ task' = [task EXCEPT ![w] =
          IF row.exists THEN [@ EXCEPT !.pc = "save", !.row = Stamped(row, task[w].sig)]
          ELSE [@ EXCEPT !.pc = "insert"]]
    /\ UNCHANGED <<sigs, content, row, cursor, tick, faults>>

(* An unknown domain.  getOwner may find no owner; the name, looked up, is valid. *)
InsertWritten(w) ==
    /\ w \in Writers /\ task[w].pc = "insert"
    /\ \E account \in Accounts :
          InsertOrIgnore([Skeleton EXCEPT !.owner = GetOwner(TRUE, account) # Undefined,
                                          !.setupTx = task[w].sig])
    /\ task' = [task EXCEPT ![w].pc = "find"]
    /\ UNCHANGED <<sigs, content, cursor, tick, faults>>

FindWritten(w) ==
    /\ w \in Writers /\ task[w].pc = "find"
    /\ task' = [task EXCEPT ![w].pc = "save", ![w].row = Stamped(row, task[w].sig)]
    /\ UNCHANGED <<sigs, content, row, cursor, tick, faults>>

(* findUnresolved loads a row without a cid that is not given up on. *)
LoadUnresolved(w) ==
    /\ w \in Reconcilers /\ task[w].pc = "free"
    /\ row.exists /\ ~row.cid /\ row.fails < MaxAttempts
    /\ task' = [task EXCEPT ![w].pc = "save", ![w].row = row]
    /\ UNCHANGED <<sigs, content, row, cursor, tick, faults>>

Resolved(r) ==
    [r EXCEPT !.cid = content,
              !.fails = IF content THEN 0 ELSE IF @ < MaxAttempts THEN @ + 1 ELSE @]

(* applyResolution saves the row as loaded, with what the resolution found. *)
SaveResolved(w) ==
    /\ w \notin Registrars /\ task[w].pc = "save"
    /\ row' = Resolved(task[w].row)
    /\ task' = [task EXCEPT ![w] = Free]
    /\ UNCHANGED <<sigs, content, cursor, tick, faults>>

-----------------------------------------------------------------------------
Work(w) ==
    \/ TakeSig(w)
    \/ InsertRegistered(w) \/ FindRegistered(w) \/ SaveRegistered(w)
    \/ FindByNode(w) \/ InsertWritten(w) \/ FindWritten(w) \/ SaveResolved(w)

Disturb(w) == SigMissed(w) \/ TaskThrows(w)

Next ==
    \/ Confirm \/ BackfillInserts \/ Crash
    \/ \E j \in Jobs : StartTick(j) \/ EndTick(j)
    \/ \E w \in Workers : Work(w) \/ Disturb(w) \/ LoadUnresolved(w)

Spec == Init /\ [][Next]_vars

(***************************************************************************)
(* Cron fires the two jobs again and again and every await settles.        *)
(* Nothing obliges the backfill or the reconcile job to come by.           *)
(***************************************************************************)
Fairness ==
    /\ \A j \in Jobs : WF_vars(StartTick(j)) /\ WF_vars(EndTick(j))
    /\ \A w \in Workers : WF_vars(Work(w))

FairSpec == Spec /\ Fairness

-----------------------------------------------------------------------------
(***************************************************************************)
(* Properties.                                                             *)
(***************************************************************************)
(***************************************************************************)
(* Only a registration under .sol that went through brings a domain into   *)
(* the table, and setupTxHash is always one that did or a write of one of  *)
(* its records: never a failed transaction or another domain's, whichever  *)
(* jobs insert, load, complete and save the row at the same time.          *)
(***************************************************************************)
Tells(sig) == sig # 0 => sigs[sig].tx \in Registering \cup Writing

OnlyRegistered == (row.exists => Registered) /\ Tells(row.setupTx)

(***************************************************************************)
(* docs/sns-overview.md:571, ownerAddress comes from register or           *)
(* record-changes: the row of a registered domain always has an owner      *)
(* again, whichever job inserted it without one and whichever saved a row  *)
(* over another's: no overwritten owner is lost for good.                  *)
(* Not <>[]: ticks in lockstep for ever overwrite for ever.                *)
(***************************************************************************)
OwnerRecorded ==
    []<>(Registered => row.exists /\ row.owner)

(***************************************************************************)
(* docs/data-model.md:31, setupTxHash is "the most recent registration or  *)
(* V2 record-write tx": so it always is again for a write alone in the     *)
(* newest slot.  Of two writes in one slot the older is processed last.    *)
(***************************************************************************)
LatestWriteStamped ==
    []<>(\A i \in Of("changes") :
            sigs[i].tx \in Writing
            /\ (\A k \in Of("changes") \ {i} : Slot(k) < Slot(i)) => row.setupTx = i)

=============================================================================
