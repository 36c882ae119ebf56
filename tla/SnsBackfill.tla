---------------------------- MODULE SnsBackfill ----------------------------
(***************************************************************************)
(* SnsBackfillJob: the sweep over the domain accounts, one partition (the  *)
(* first byte of the owner) after the other, that gives every top-level    *)
(* .sol domain a dns row.  Several processes may sweep at once, since      *)
(* isJobRunning is in memory and the cursor row is shared: an instance     *)
(* about to be replaced and its successor, or the service and a "cli:once" *)
(* run, whose application context schedules the cron jobs too.             *)
(*                                                                         *)
(* Page sizes are left open: a page holds any of the accounts not seen     *)
(* yet, a batch any of a page's in any order, up to its size.              *)
(***************************************************************************)
EXTENDS SnsLookups, FiniteSets, Functions

CONSTANTS
    Procs,          \* processes that run the job
    Domains,        \* top-level .sol domains
    Reverse,        \* their reverse accounts
    BatchSize,      \* snsBackfillBatchSize
    Total,          \* TOTAL_PARTITIONS
    PerTick,        \* snsBackfillPartitionsPerTick
    MaxFaults       \* bound: failed calls and crashes

ASSUME BackfillAssumption ==
    /\ BatchSize \in Nat \ {0}
    /\ Total \in Nat \ {0}
    /\ PerTick \in Nat \ {0}
    /\ MaxFaults \in Nat

VARIABLES
    owner,      \* partition of a domain's owner, Total for an unregistered domain
    fresh,      \* history: domains registered since the sweep began
    moved,      \* history: domains that changed hands since the sweep began
    dns,        \* the domains with a dns row
    cursor,     \* lastMigratedBlockNumber of the backfill row: the next partition
    done,       \* isMigrated
    job,        \* the tick in progress in each process
    faults      \* faults so far

world == <<owner, fresh, moved>>
row == <<cursor, done>>
vars == <<world, dns, row, job, faults>>

Partitions == 0 .. Total - 1

(* Their reverse account is missing or unreadable. *)
Nameless == {d \in Domains : ReverseLookup(Reverse[d]) = Undefined}
Registered(d) == owner[d] # Total

(***************************************************************************)
(* A tick: partition and endPartition, the keys of the current partition   *)
(* returned so far, those of the page still to insert, whether the page    *)
(* came with a paginationKey, and the isMigrated of the row that           *)
(* saveSnsBackfillMigration found.                                         *)
(***************************************************************************)
Idle == [pc |-> "idle", partition |-> 0, end |-> 0, seen |-> {}, page |-> {},
         more |-> FALSE, isMigrated |-> FALSE]

Job == [pc : {"idle", "fetch", "batch", "find", "save", "end"},
        partition : 0 .. Total, end : 0 .. Total,
        seen : SUBSET Domains, page : SUBSET Domains, more : BOOLEAN, isMigrated : BOOLEAN]

TypeOK ==
    /\ owner \in [Domains -> 0 .. Total]
    /\ fresh \subseteq Domains /\ moved \subseteq Domains
    /\ dns \subseteq Domains
    /\ cursor \in 0 .. Total /\ done \in BOOLEAN
    /\ job \in [Procs -> Job]
    /\ faults \in Nat

Init ==
    /\ owner \in [Domains -> 0 .. Total]
    /\ fresh = {} /\ moved = {}
    /\ dns = {}
    /\ cursor = 0 /\ done = FALSE
    /\ job = [p \in Procs |-> Idle]
    /\ faults = 0

-----------------------------------------------------------------------------
(***************************************************************************)
(* The registry, and the other jobs.                                       *)
(***************************************************************************)
Register(d) ==
    /\ ~Registered(d)
    /\ \E b \in Partitions : owner' = [owner EXCEPT ![d] = b]
    /\ fresh' = fresh \cup {d}
    /\ UNCHANGED <<moved, dns, row, job, faults>>

Transfer(d) ==
    /\ Registered(d)
    /\ \E b \in Partitions \ {owner[d]} : owner' = [owner EXCEPT ![d] = b]
    /\ moved' = moved \cup {d}
    /\ UNCHANGED <<fresh, dns, row, job, faults>>

(* The register job sees a registration in its transaction. *)
RegisterJobInserts(d) ==
    /\ d \in fresh \ (dns \cup Nameless)
    /\ dns' = dns \cup {d}
    /\ UNCHANGED <<world, row, job, faults>>

-----------------------------------------------------------------------------
(***************************************************************************)
(* The tick.  One that finds isMigrated set returns.                       *)
(***************************************************************************)
(* Mutant: the range is not cut off at the last partition. *)
EndOfUncapped(start) == start + PerTick

EndOf(start) == IF start + PerTick < Total THEN start + PerTick ELSE Total

AtPartition(b, end) ==
    [Idle EXCEPT !.pc = IF b < end THEN "fetch" ELSE "end", !.partition = b, !.end = end]

StartTick(p) ==
    /\ job[p].pc = "idle"
    /\ ~done
    /\ job' = [job EXCEPT ![p] = AtPartition(cursor, EndOf(cursor))]
    /\ UNCHANGED <<world, dns, row, faults>>

(***************************************************************************)
(* getProgramAccounts, or one page of getProgramAccountsV2, whose          *)
(* paginationKey says that there are accounts beyond the page.             *)
(***************************************************************************)
Unseen(p) == {d \in Domains : owner[d] = job[p].partition} \ job[p].seen

FetchPage(p) ==
    /\ job[p].pc = "fetch"
    /\ \E keys \in SUBSET Unseen(p) :
          /\ keys = {} => Unseen(p) = {}
          /\ job' = [job EXCEPT ![p].pc = "batch", ![p].page = keys,
                                ![p].seen = @ \cup keys, ![p].more = Unseen(p) \ keys # {}]
    /\ UNCHANGED <<world, dns, row, faults>>

Batches(page) ==
    {keys \in UNION {[1 .. n -> page] : n \in 1 .. BatchSize} : IsInjective(keys)}

NamesOf(keys) == ReverseLookupBatch([i \in 1 .. Len(keys) |-> Reverse[keys[i]]])

(* The rows of a batch: those of the keys with a name at their position. *)
Rows(keys) ==
    LET names == NamesOf(keys)
    IN {keys[i] : i \in {k \in DOMAIN keys : names[k] # Undefined}}

(* Mutant: a batch without a single name skips the insert of the whole page. *)
ProcessBatchOrSkip(p) ==
    /\ job[p].pc = "batch"
    /\ \E keys \in Batches(job[p].page) :
          /\ dns' = dns \cup Rows(keys)
          /\ job' = [job EXCEPT ![p].page = IF Rows(keys) = {} THEN {} ELSE @ \ Range(keys)]
    /\ UNCHANGED <<world, row, faults>>

(* reverseLookupBatch, and one insert of the names it found. *)
ProcessBatch(p) ==
    /\ job[p].pc = "batch"
    /\ \E keys \in Batches(job[p].page) :
          /\ dns' = dns \cup Rows(keys)
          /\ job' = [job EXCEPT ![p].page = @ \ Range(keys)]
    /\ UNCHANGED <<world, row, faults>>

PageDone(p) ==
    /\ job[p].pc = "batch" /\ job[p].page = {}
    /\ job' = [job EXCEPT ![p].pc = IF job[p].more THEN "fetch" ELSE "find"]
    /\ UNCHANGED <<world, dns, row, faults>>

FindRow(p) ==
    /\ job[p].pc = "find"
    /\ job' = [job EXCEPT ![p].pc = "save", ![p].isMigrated = done]
    /\ UNCHANGED <<world, dns, row, faults>>

(* Mutant: the partition just done is saved, not the next. *)
SaveCursorBehind(p) ==
    /\ job[p].pc = "save"
    /\ cursor' = job[p].partition
    /\ done' = job[p].isMigrated
    /\ job' = [job EXCEPT ![p] = AtPartition(@.partition + 1, @.end)]
    /\ UNCHANGED <<world, dns, faults>>

(* Mutant: the row is saved as not complete unless the caller says so. *)
SaveCursorOpen(p) ==
    /\ job[p].pc = "save"
    /\ cursor' = job[p].partition + 1
    /\ done' = FALSE
    /\ job' = [job EXCEPT ![p] = AtPartition(@.partition + 1, @.end)]
    /\ UNCHANGED <<world, dns, faults>>

(* The entity found is saved whole, its isMigrated with it. *)
SaveCursor(p) ==
    /\ job[p].pc = "save"
    /\ cursor' = job[p].partition + 1
    /\ done' = job[p].isMigrated
    /\ job' = [job EXCEPT ![p] = AtPartition(@.partition + 1, @.end)]
    /\ UNCHANGED <<world, dns, faults>>

(* Mutant: complete as soon as the tick's own range is. *)
EndTickComplete(p) ==
    /\ job[p].pc = "end"
    /\ cursor' = job[p].end /\ done' = TRUE
    /\ job' = [job EXCEPT ![p] = Idle]
    /\ UNCHANGED <<world, dns, faults>>

(* Every partition of the tick's range is done; the last range completes the sweep. *)
EndTick(p) ==
    /\ job[p].pc = "end"
    /\ IF job[p].partition = Total
       THEN cursor' = Total /\ done' = TRUE
       ELSE UNCHANGED row
    /\ job' = [job EXCEPT ![p] = Idle]
    /\ UNCHANGED <<world, dns, faults>>

(***************************************************************************)
(* An await throws and the loop breaks.  What was saved stays; if the last *)
(* partition was through and only its cursor could not be saved, it counts *)
(* as processed all the same and the sweep is marked complete.             *)
(***************************************************************************)
Throws(p) ==
    /\ faults < MaxFaults /\ faults' = faults + 1
    /\ job[p].pc # "idle"
    /\ job' = [job EXCEPT ![p] =
                  IF @.pc \in {"find", "save"} /\ @.partition + 1 = Total
                  THEN AtPartition(Total, Total) ELSE Idle]
    /\ UNCHANGED <<world, dns, row>>

(* The process dies; isJobRunning dies with it. *)
Crash(p) ==
    /\ faults < MaxFaults /\ faults' = faults + 1
    /\ job[p].pc # "idle"
    /\ job' = [job EXCEPT ![p] = Idle]
    /\ UNCHANGED <<world, dns, row>>

-----------------------------------------------------------------------------
World(d) == Register(d) \/ Transfer(d) \/ RegisterJobInserts(d)

Process(p) ==
    \/ StartTick(p) \/ FetchPage(p) \/ ProcessBatch(p) \/ PageDone(p)
    \/ FindRow(p) \/ SaveCursor(p) \/ EndTick(p)

Next == (\E d \in Domains : World(d)) \/ (\E p \in Procs : Process(p) \/ Throws(p) \/ Crash(p))

Spec == Init /\ [][Next]_vars

(* Cron calls the job again and again, and each of its awaits settles. *)
FairSpec == Spec /\ \A p \in Procs : WF_vars(Process(p))

-----------------------------------------------------------------------------
(***************************************************************************)
(* Properties.                                                             *)
(***************************************************************************)
(* The domains the sweep owes a row. *)
Due == {d \in Domains : Registered(d) /\ d \notin fresh \cup moved \cup Nameless}

(***************************************************************************)
(* isMigrated is set only when every domain owed has its row, wherever the *)
(* partitions' pages, batches and saves were cut short before.             *)
(***************************************************************************)
CompleteCovers == done => Due \subseteq dns

(* The processes whose save puts an isMigrated back that is not set. *)
Holders == {p \in Procs : job[p].pc = "save" /\ ~job[p].isMigrated}

Promise == INSTANCE DomainSweep
              WITH due <- Due, found <- dns, closed <- done, holders <- Holders

(***************************************************************************)
(* The job keeps the promise of DomainSweep: a completed sweep is reopened *)
(* by nobody but a process that read the row before it was marked, and by  *)
(* that one only once, although every cursor save writes the whole row and *)
(* processes fail or die between reading and saving it.                    *)
(***************************************************************************)
KeepsPromise == Promise!Spec

(***************************************************************************)
(* In the end the sweep is marked complete: a crash between the last       *)
(* cursor save and the mark does not leave it open.                        *)
(***************************************************************************)
SweepCompletes == <>done

-----------------------------------------------------------------------------
(***************************************************************************)
(* The inductive invariant: what the cursor and every tick have passed is  *)
(* inserted, and so is what a tick has seen of its partition.              *)
(***************************************************************************)
SweptBelow(b) == \A d \in Due : owner[d] < b => d \in dns

SeenAll(p) == \A d \in Due : owner[d] = job[p].partition => d \in job[p].seen

TickInv(p) ==
    /\ SweptBelow(job[p].partition)
    /\ \A d \in Due : d \in job[p].seen \ job[p].page => d \in dns
    /\ job[p].pc = "batch" /\ ~job[p].more => SeenAll(p)
    /\ job[p].pc \in {"find", "save"} => SweptBelow(job[p].partition + 1)
    /\ job[p].pc \in {"fetch", "find", "save"} => job[p].page = {}
    /\ job[p].isMigrated => Due \subseteq dns
    /\ job[p].pc = "end" => job[p].partition = job[p].end
    /\ job[p].pc \in {"fetch", "batch", "find", "save"} => job[p].partition < job[p].end

BackfillInv ==
    /\ SweptBelow(cursor)
    /\ CompleteCovers
    /\ \A p \in Procs : TickInv(p)

=============================================================================
