----------------------------- MODULE SnsContent -----------------------------
(***************************************************************************)
(* The content of a domain on its way from the chain into the database:    *)
(* SnsRecordChangesJob re-resolves the domains whose V2 records were       *)
(* written, SnsReconcileJob drains the rows that have no cid, and both     *)
(* write through applyResolution, step by step, from a row they loaded     *)
(* earlier.  TypeORM's save writes every column that differs from the      *)
(* database, so a save puts the whole loaded row back.                     *)
(*                                                                         *)
(* The walk of the record-changes tick is taken as one step in which every *)
(* signature from the cursor on is collected (SnsCursorJob has the pages). *)
(* Signature i is that of the i-th transaction of the V2 records program   *)
(* and has slot i; a transaction may write the records of several domains. *)
(*                                                                         *)
(* Before a row's cid changes, handleCidChange takes the domain out of the *)
(* processing group of the old one in a transaction, and when it was the   *)
(* primary there, reads the rows of the other members and saves them too.  *)
(* CidProcessing has the columns that tie a row to its group.  The         *)
(* register job saves the rows it finds incomplete, as the backfill's are. *)
(*                                                                         *)
(* Downstream the content indexer, another service, fetches the content of *)
(* the rows whose ipfsProcessed is false, sets it, and groups the domains  *)
(* that have one cid.                                                      *)
(***************************************************************************)
EXTENDS SnsInstructions

CONSTANTS
    Domains,        \* top-level .sol domains
    Transactions,   \* by name, transactions the V2 records program may take part in
    Values,         \* record values: a kind and an identifier
    Implausible,    \* identifiers that isPlausiblePointerValue refuses
    MutableKinds,   \* kinds pointerKindFromContentType maps to a pointer
    Writers,        \* pool workers of the record-changes job
    Reconcilers,    \* pool workers of the reconcile job
    Registrars,     \* pool workers of the register job
    BatchSize,      \* RECONCILE_BATCH_SIZE
    MaxAttempts,    \* MAX_IPFS_FETCH_RETRY_ATTEMPTS
    Unreadable,     \* domains whose resolution always throws
    Indexed,        \* domains the content indexer serves
    Settled,        \* domains with a row from the start, oldest first
    Ownerless,      \* domains getOwner finds no owner of
    FaultKinds,     \* bound: which of "throw", "miss" and "crash" may happen
    MaxWrites,      \* bound: transactions
    MaxFaults       \* bound: failed steps and crashes

None == [cid |-> "none", kind |-> "none"]
Content == Values \cup {None}
Cids == {v.cid : v \in Content}
Workers == Writers \cup Reconcilers \cup Registrars
Nobody == "nobody"

Names == DOMAIN Transactions

(***************************************************************************)
(* The domains whose records a transaction writes, in whatever instruction *)
(* of it.  The node parses none of the program's.                          *)
(***************************************************************************)
Written ==
    LET of(tx) == {Account(ix, 4) : ix \in {i \in Members(tx) : i.program = RecordsV2}}
    IN [n \in Names |-> IF Transactions[n].err THEN {} ELSE of(Transactions[n])]

(* The domains processSignature finds in it, in order. *)
Found == [n \in Names |-> RecordDomains(Transactions[n])]

ASSUME ConstantsAssumption ==
    /\ None \notin Values
    /\ \A v \in Values : v.cid # "none"
    /\ Nobody \notin Domains
    /\ Writers \cap (Reconcilers \cup Registrars) = {} /\ Reconcilers \cap Registrars = {}
    /\ \A n \in Names : Written[n] \subseteq Domains /\ Found[n] \in Seq(Domains)
    /\ Settled \in Seq(Domains) /\ IsInjective(Settled)
    /\ BatchSize \in Nat \ {0} /\ MaxAttempts \in Nat \ {0} /\ MaxFaults \in Nat

VARIABLES
    records,    \* what the domains' records say on chain
    held,       \* history: all they ever said, since before the first transaction
    writes,     \* the confirmed transactions, oldest first
    born,       \* the domains that have a dns row, in order of created_at
    rows,       \* the dns rows
    audit,      \* cid of the latest dns_settings row of a domain
    pointer,    \* pointer_value of a domain's content_pointer row
    indexed,    \* what the content indexer fetched last for a domain
    groups,     \* the cid_processing row of a cid
    cursor,     \* saved slot of the record-changes job
    tick,       \* record-changes tick: signatures collected, queued, failed
    batch,      \* rows the reconcile tick loaded and has not yet handed out
    task,       \* what each pool worker is doing
    faults,     \* faults so far
    spoilt      \* history: what has befallen a domain since its content last changed

chainVars == <<records, held, writes>>
derivedVars == <<audit, pointer, indexed, groups>>
bookVars == <<faults, spoilt>>
vars == <<chainVars, born, rows, derivedVars, cursor, tick, batch, task, bookVars>>

Slots == 1 .. Len(writes)
Lowest(slots) == {i \in slots : \A k \in slots : i <= k}

(***************************************************************************)
(* fails is ipfsFetchAttempt, counted up to MaxAttempts; gaveUp is         *)
(* isFetchFailed; unseen says that ipfsProcessed is false, neither true    *)
(* nor null; bare, that columns the register job fills are missing.        *)
(***************************************************************************)
Row == [content : Content, fails : 0 .. MaxAttempts, gaveUp : BOOLEAN, unseen : BOOLEAN,
        bare : BOOLEAN]
Skeleton ==
    [content |-> None, fails |-> 0, gaveUp |-> FALSE, unseen |-> FALSE, bare |-> FALSE]

(* primaryDnsId and associatedDomains. *)
Group == [primary : Domains \cup {Nobody}, members : SUBSET Domains]
NoGroup == [primary |-> Nobody, members |-> {}]

NoCopies == [d \in Domains |-> Skeleton]

(***************************************************************************)
(* A task's domains are those of its transaction that it has yet to        *)
(* finish; group and copies are what its open transaction has read.        *)
(***************************************************************************)
FreeTask ==
    [pc |-> "free", sig |-> 0, domains |-> <<>>, row |-> Skeleton, result |-> None,
     group |-> NoGroup, copies |-> NoCopies]
(***************************************************************************)
(* What has befallen a domain since its content last changed, the worst of *)
(* it: its audit row and pointer were cut off from its row or written late *)
(* (Adrift), or its row was put back by a save that was not to change the  *)
(* content, of a task of its own (Reverted) or of another's (Restored).    *)
(***************************************************************************)
Untouched == 0
Adrift == 1
Reverted == 2
Restored == 3

NoTick == [on |-> FALSE, top |-> 0, todo |-> {}, errors |-> {}]

TypeOK ==
    /\ records \in [Domains -> Content]
    /\ held \in [Domains -> SUBSET Content]
    /\ writes \in Seq(Names)
    /\ born \in Seq(Domains) /\ IsInjective(born)
    /\ rows \in [Domains -> Row]
    /\ audit \in [Domains -> Cids] /\ pointer \in [Domains -> Content]
    /\ indexed \in [Domains -> Content]
    /\ groups \in [Cids -> Group]
    /\ cursor \in 0 .. Len(writes)
    /\ tick \in [on : BOOLEAN, top : 0 .. Len(writes), todo : SUBSET Slots,
                 errors : SUBSET Slots]
    /\ batch \in Seq([domain : Domains, row : Row])
    /\ task \in [Workers ->
          [pc : {"free", "load", "resolve", "find", "leave", "elect", "tear", "save", "audit",
                 "sync", "fill"},
           sig : 0 .. Len(writes), domains : Seq(Domains), row : Row, result : Content,
           group : Group, copies : [Domains -> Row]]]
    /\ faults \in 0 .. MaxFaults
    /\ spoilt \in [Domains -> Untouched .. Restored]

(* A mutable kind has a pointer to its value; any other content has none. *)
PointerFor(content) == IF content.kind \in MutableKinds THEN content ELSE None

(* No pointer is made of an implausible value: the one there is stays. *)
Refused(content) == PointerFor(content) # None /\ content.cid \in Implausible

(* The content of the rows there are from the start. *)
Before == [d \in Domains |-> IF d \in Range(Settled) THEN records[d] ELSE None]

FirstRow(d) ==
    [Skeleton EXCEPT !.content = Before[d], !.bare = d \in Range(Settled) \cap Ownerless]

(* The rows of one cid are grouped, and one of them is the primary. *)
Grouped(c, group) ==
    /\ group.members = {d \in Domains : c # "none" /\ Before[d].cid = c}
    /\ IF group.members = {} THEN group = NoGroup ELSE group.primary \in group.members

(***************************************************************************)
(* The rows of the settled domains have been made, resolved and followed   *)
(* up before, for those without an owner from what the backfill inserted.  *)
(***************************************************************************)
Init ==
    /\ records \in [Domains -> Content]
    /\ held = [d \in Domains |-> {None, records[d]}]
    /\ writes = <<>>
    /\ born = Settled
    /\ rows = [d \in Domains |-> FirstRow(d)]
    /\ audit = [d \in Domains |-> Before[d].cid]
    /\ pointer = [d \in Domains |->
          IF Refused(Before[d]) THEN None ELSE PointerFor(Before[d])]
    /\ indexed = Before
    /\ groups \in [Cids -> Group] /\ \A c \in Cids : Grouped(c, groups[c])
    /\ cursor = 0
    /\ tick = NoTick
    /\ batch = <<>>
    /\ task = [w \in Workers |-> FreeTask]
    /\ faults = 0
    /\ spoilt = [d \in Domains |-> Untouched]

-----------------------------------------------------------------------------
(***************************************************************************)
(* The world around the two jobs.                                          *)
(***************************************************************************)
(* A transaction writes or clears records, and changes the content of their domains. *)
WriteRecords(n) ==
    /\ Len(writes) < MaxWrites
    /\ \E now \in [Domains -> Content] :
          /\ \A d \in Domains : d \in Written[n] <=> now[d] # records[d]
          /\ records' = now
          /\ held' = [d \in Domains |-> held[d] \cup {now[d]}]
    /\ writes' = Append(writes, n)
    /\ UNCHANGED <<born, rows, derivedVars, cursor, tick, batch, task, bookVars>>

Joined(group, d) ==
    [primary |-> IF group = NoGroup THEN d ELSE group.primary, members |-> group.members \cup {d}]

(***************************************************************************)
(* The content indexer fetches the content of a row it has not seen, and   *)
(* has the domain join the others with that cid.                           *)
(***************************************************************************)
IndexContent(d) ==
    /\ d \in Indexed
    /\ rows[d].unseen /\ rows[d].content # None
    /\ indexed' = [indexed EXCEPT ![d] = rows[d].content]
    /\ rows' = [rows EXCEPT ![d].unseen = FALSE]
    /\ groups' = [groups EXCEPT ![rows[d].content.cid] = Joined(@, d)]
    /\ UNCHANGED <<chainVars, born, audit, pointer, cursor, tick, batch, task, bookVars>>

HasRow(d) == d \in Range(born)

(* INSERT ... ON CONFLICT DO NOTHING of a row without content. *)
InsertSkeleton(d, bare) ==
    /\ born' = IF HasRow(d) THEN born ELSE Append(born, d)
    /\ rows' = IF HasRow(d) THEN rows ELSE [rows EXCEPT ![d].bare = bare]

(* The backfill inserts a domain with neither owner nor transaction. *)
BackfillInserts(d) ==
    /\ ~HasRow(d)
    /\ InsertSkeleton(d, TRUE)
    /\ UNCHANGED <<chainVars, derivedVars, cursor, tick, batch, task, bookVars>>

(* The register job, again and again: each tick walks its cursor's slot again. *)
UpsertDomain(w, d) ==
    /\ task[w].pc = "free"
    /\ InsertSkeleton(d, FALSE)
    /\ task' = IF ~rows'[d].bare THEN task
               ELSE [task EXCEPT ![w] = [FreeTask EXCEPT !.pc = "fill", !.domains = <<d>>,
                                                         !.row = rows'[d]]]
    /\ UNCHANGED <<chainVars, derivedVars, cursor, tick, batch, bookVars>>

(* The task has saved the row of d and not yet written what follows it. *)
Following(t, d) == t.pc \in {"audit", "sync"} /\ Head(t.domains) = d

Fault(kind) == kind \in FaultKinds /\ faults < MaxFaults /\ faults' = faults + 1

Worst(how, before) == IF before < how THEN how ELSE before

(* Every tick and task is lost with the process. *)
Crash ==
    /\ Fault("crash")
    /\ tick.on \/ \E w \in Workers : task[w].pc # "free"
    /\ tick' = NoTick /\ batch' = <<>>
    /\ task' = [w \in Workers |-> FreeTask]
    /\ spoilt' = [d \in Domains |->
          IF \E w \in Workers : Following(task[w], d) THEN Worst(Adrift, spoilt[d]) ELSE spoilt[d]]
    /\ UNCHANGED <<chainVars, born, rows, derivedVars, cursor>>

-----------------------------------------------------------------------------
(***************************************************************************)
(* The record-changes tick.                                                *)
(***************************************************************************)
(* Mutant: the walk collects above the cursor's slot only. *)
StartTickAbove ==
    /\ ~tick.on
    /\ \E i \in Slots : i > cursor
    /\ tick' = [on |-> TRUE, top |-> Len(writes),
                todo |-> {i \in Slots : i > cursor}, errors |-> {}]
    /\ UNCHANGED <<chainVars, born, rows, derivedVars, cursor, batch, task, bookVars>>

StartTick ==
    /\ ~tick.on
    /\ \E i \in Slots : i >= cursor
    /\ tick' = [on |-> TRUE, top |-> Len(writes),
                todo |-> {i \in Slots : i >= cursor}, errors |-> {}]
    /\ UNCHANGED <<chainVars, born, rows, derivedVars, cursor, batch, task, bookVars>>

TakeSig(w) ==
    /\ task[w].pc = "free"
    /\ \E i \in Lowest(tick.todo) :
          /\ tick' = [tick EXCEPT !.todo = @ \ {i}]
          /\ LET domains == Found[writes[i]]
             IN task' = IF domains = <<>> THEN task
                        ELSE [task EXCEPT ![w] = [FreeTask EXCEPT !.pc = "load", !.sig = i,
                                                                  !.domains = domains]]
    /\ UNCHANGED <<chainVars, born, rows, derivedVars, cursor, batch, bookVars>>

Domain(w) == Head(task[w].domains)

(* Mutant: only a transaction's first domain is processed. *)
FirstOnly(t) == FreeTask

(* Mutant: what the first domain resolved to is written to the others too. *)
ResolvedOnce(t) ==
    IF Len(t.domains) <= 1 THEN FreeTask ELSE [t EXCEPT !.pc = "save", !.domains = Tail(@)]

(* The next domain of the transaction, or the end of the task. *)
NextDomain(t) ==
    IF Len(t.domains) <= 1 THEN FreeTask
    ELSE [FreeTask EXCEPT !.pc = "load", !.sig = t.sig, !.domains = Tail(t.domains)]

(***************************************************************************)
(* findByNode, or, for an unknown domain, the insert that loses quietly to *)
(* another job's and the findByName after it.                              *)
(***************************************************************************)
LoadRow(w) ==
    /\ task[w].pc = "load"
    /\ InsertSkeleton(Domain(w), Domain(w) \in Ownerless)
    /\ task' = [task EXCEPT ![w].pc = "resolve", ![w].row = rows'[Domain(w)]]
    /\ UNCHANGED <<chainVars, derivedVars, cursor, tick, batch, bookVars>>

(* A null transaction counts as processed. *)
SigMissed(w) ==
    /\ Fault("miss")
    /\ task[w].pc = "load" /\ task[w].domains = Found[writes[task[w].sig]]
    /\ task' = [task EXCEPT ![w] = FreeTask]
    /\ UNCHANGED <<chainVars, born, rows, derivedVars, cursor, tick, batch, spoilt>>

(* So does an unknown domain whose name cannot be looked up; the next one follows. *)
NameMissed(w) ==
    /\ Fault("miss")
    /\ task[w].pc = "load" /\ ~HasRow(Domain(w))
    /\ task' = [task EXCEPT ![w] = NextDomain(task[w])]
    /\ UNCHANGED <<chainVars, born, rows, derivedVars, cursor, tick, batch, spoilt>>

(* Mutants: errors do not hold the cursor; it moves past the slots it saw. *)
EndTickDespiteErrors ==
    /\ tick.on /\ tick.todo = {} /\ \A w \in Writers : task[w].pc = "free"
    /\ cursor' = tick.top
    /\ tick' = NoTick
    /\ UNCHANGED <<chainVars, born, rows, derivedVars, batch, task, bookVars>>

EndTickPastTop ==
    /\ tick.on /\ tick.todo = {} /\ \A w \in Writers : task[w].pc = "free"
    /\ cursor' = tick.top + 1
    /\ tick' = NoTick
    /\ UNCHANGED <<chainVars, born, rows, derivedVars, batch, task, bookVars>>

EndTick ==
    /\ tick.on /\ tick.todo = {} /\ \A w \in Writers : task[w].pc = "free"
    /\ \E safeSlot \in IF tick.errors = {} THEN {tick.top} ELSE Lowest(tick.errors) :
          cursor' = IF safeSlot > cursor THEN safeSlot ELSE cursor
    /\ tick' = NoTick
    /\ UNCHANGED <<chainVars, born, rows, derivedVars, batch, task, bookVars>>

-----------------------------------------------------------------------------
(***************************************************************************)
(* The reconcile tick: findUnresolved loads the oldest rows of the queue   *)
(* at once, and the pool hands them out.                                   *)
(***************************************************************************)
InQueue(d) == rows[d].content = None /\ ~rows[d].gaveUp

Older(d, e) == \E i, k \in DOMAIN born : i < k /\ born[i] = d /\ born[k] = e

(* The rows q, up to limit, are the first of the queue by created_at. *)
OldestFirst(q, limit) ==
    /\ \A i, k \in DOMAIN q : i < k => Older(q[i], q[k])
    /\ \A d \in Range(born) \ Range(q) :
          InQueue(d) => Len(q) = limit /\ \A i \in DOMAIN q : Older(q[i], d)

(* Mutant: the batch takes one row less than it may. *)
StartReconcileShort ==
    /\ Reconcilers # {}
    /\ batch = <<>> /\ \A w \in Reconcilers : task[w].pc = "free"
    /\ \E n \in 1 .. BatchSize - 1 : \E q \in [1 .. n -> {d \in Range(born) : InQueue(d)}] :
          /\ OldestFirst(q, BatchSize - 1)
          /\ batch' = [i \in 1 .. n |-> [domain |-> q[i], row |-> rows[q[i]]]]
    /\ UNCHANGED <<chainVars, born, rows, derivedVars, cursor, tick, task, bookVars>>

StartReconcile ==
    /\ Reconcilers # {}
    /\ batch = <<>> /\ \A w \in Reconcilers : task[w].pc = "free"
    /\ \E n \in 1 .. BatchSize : \E q \in [1 .. n -> {d \in Range(born) : InQueue(d)}] :
          /\ OldestFirst(q, BatchSize)
          /\ batch' = [i \in 1 .. n |-> [domain |-> q[i], row |-> rows[q[i]]]]
    /\ UNCHANGED <<chainVars, born, rows, derivedVars, cursor, tick, task, bookVars>>

TakeRow(w) ==
    /\ task[w].pc = "free"
    /\ batch # <<>>
    /\ batch' = Tail(batch)
    /\ task' = [task EXCEPT ![w] = [FreeTask EXCEPT !.pc = "resolve",
                      !.domains = <<Head(batch).domain>>, !.row = Head(batch).row]]
    /\ UNCHANGED <<chainVars, born, rows, derivedVars, cursor, tick, bookVars>>

-----------------------------------------------------------------------------
(***************************************************************************)
(* Both jobs: resolveContent, then applyResolution's awaits in order.      *)
(***************************************************************************)
Resolve(w) ==
    /\ task[w].pc = "resolve"
    /\ Domain(w) \notin Unreadable
    /\ LET result == records[Domain(w)]
           old    == task[w].row.content
       IN task' = [task EXCEPT ![w].result = result,
             ![w].pc = IF old # None /\ result.cid # old.cid THEN "find" ELSE "save"]
    /\ UNCHANGED <<chainVars, born, rows, derivedVars, cursor, tick, batch, bookVars>>

(***************************************************************************)
(* handleCidChange: a row whose cid changes leaves the group of the old    *)
(* one, in a transaction that reads what is committed.                     *)
(***************************************************************************)
OldCid(w) == task[w].row.content.cid

Without(group, d) == [group EXCEPT !.members = @ \ {d}]

(* Left(t) is done with its group, and saves its row next. *)
Left(t) == [t EXCEPT !.pc = "save", !.group = NoGroup, !.copies = NoCopies]

FindGroup(w) ==
    /\ task[w].pc = "find"
    /\ LET group == groups[OldCid(w)]
       IN task' = [task EXCEPT ![w] =
             IF group = NoGroup THEN Left(@)
             ELSE [@ EXCEPT !.group = Without(group, Domain(w)),
                            !.pc = IF group.primary = Domain(w) THEN "elect" ELSE "leave"]]
    /\ UNCHANGED <<chainVars, born, rows, derivedVars, cursor, tick, batch, bookVars>>

(***************************************************************************)
(* Not the primary: the group is saved.  If it has been removed meanwhile, *)
(* the save inserts it again, or updates nothing if it had still seen it.  *)
(***************************************************************************)
LeaveGroup(w) ==
    /\ task[w].pc = "leave"
    /\ \/ groups' = [groups EXCEPT ![OldCid(w)] = task[w].group]
       \/ groups[OldCid(w)] = NoGroup /\ UNCHANGED groups
    /\ task' = [task EXCEPT ![w] = Left(@)]
    /\ UNCHANGED <<chainVars, born, rows, audit, pointer, indexed, cursor, tick, batch, bookVars>>

Survivors(w) == task[w].group.members

(* The primary: the rows of the other members are read. *)
FindSurvivors(w) ==
    /\ task[w].pc = "elect"
    /\ task' = [task EXCEPT ![w].pc = "tear",
          ![w].copies = [d \in Domains |-> IF d \in Survivors(w) THEN rows[d] ELSE Skeleton]]
    /\ UNCHANGED <<chainVars, born, rows, derivedVars, cursor, tick, batch, bookVars>>

(***************************************************************************)
(* A row about to be saved is not what it was copied from any more: its    *)
(* content, or it has been announced to the content indexer meanwhile.     *)
(***************************************************************************)
Outdated(copy, d) == copy.content # rows[d].content \/ (rows[d].unseen /\ ~copy.unseen)

(* They are saved detached and to be indexed again, the group is removed: the commit. *)
TearDown(w) ==
    /\ task[w].pc = "tear"
    /\ LET copy(d) == [task[w].copies[d] EXCEPT !.unseen = TRUE]
       IN /\ rows' = [d \in Domains |-> IF d \in Survivors(w) THEN copy(d) ELSE rows[d]]
          /\ spoilt' = [d \in Domains |->
                IF d \in Survivors(w) /\ Outdated(copy(d), d) THEN Restored ELSE spoilt[d]]
    /\ groups' = [groups EXCEPT ![OldCid(w)] = NoGroup]
    /\ task' = [task EXCEPT ![w] = Left(@)]
    /\ UNCHANGED <<chainVars, born, audit, pointer, indexed, cursor, tick, batch, faults>>

-----------------------------------------------------------------------------
(* Mutant: the content indexer is not told of the new content. *)
HitUnannounced(row, result) == [row EXCEPT !.content = result, !.fails = 0, !.gaveUp = FALSE]

Hit(row, result) ==
    [row EXCEPT !.content = result, !.fails = 0, !.gaveUp = FALSE, !.unseen = TRUE]

(* Mutant: content found again counts as seen by the content indexer. *)
HitSameSeen(row) == [row EXCEPT !.fails = 0, !.gaveUp = FALSE, !.unseen = FALSE]

HitSame(row) == [row EXCEPT !.fails = 0, !.gaveUp = FALSE]

Miss(row) ==
    LET attempt == IF row.fails < MaxAttempts THEN row.fails + 1 ELSE MaxAttempts
    IN [row EXCEPT !.content = None, !.fails = attempt, !.gaveUp = attempt >= MaxAttempts,
                   !.unseen = FALSE]

Resolved(row, result) ==
    IF result = None THEN Miss(row)
    ELSE IF result.cid = row.content.cid THEN HitSame(row)
    ELSE Hit(row, result)

(* Only a cid that changed, or went, is followed by the audit row and the pointer. *)
SaveRow(w) ==
    LET t       == task[w]
        row     == Resolved(t.row, t.result)
        changed == t.result.cid # t.row.content.cid
    IN /\ t.pc = "save"
       /\ rows' = [rows EXCEPT ![Domain(w)] = row]
       /\ task' = [task EXCEPT ![w] =
             IF changed THEN [t EXCEPT !.pc = "audit", !.row = row] ELSE NextDomain(t)]
       /\ spoilt' = [spoilt EXCEPT ![Domain(w)] =
             IF changed THEN Untouched
             ELSE IF Outdated(t.row, Domain(w)) THEN Worst(Reverted, @) ELSE @]
       /\ UNCHANGED <<chainVars, born, derivedVars, cursor, tick, batch, faults>>

(* The audit row or pointer about to be written is of the row as it is. *)
UpToDate(w) == task[w].row.content = rows[Domain(w)].content

CreateDnsSettings(w) ==
    /\ task[w].pc = "audit"
    /\ audit' = [audit EXCEPT ![Domain(w)] = task[w].row.content.cid]
    /\ task' = [task EXCEPT ![w].pc = "sync"]
    /\ spoilt' = [spoilt EXCEPT ![Domain(w)] = IF UpToDate(w) THEN @ ELSE Worst(Adrift, @)]
    /\ UNCHANGED <<chainVars, born, rows, pointer, indexed, groups, cursor, tick, batch, faults>>

(* Mutant: no pointer is ever deleted. *)
SyncedUpsertOnly(old, content) ==
    IF PointerFor(content) = None \/ Refused(content) THEN old ELSE PointerFor(content)

Synced(old, content) ==
    IF Refused(content) \/ PointerFor(content).cid = old.cid THEN old ELSE PointerFor(content)

SyncFromDns(w) ==
    /\ task[w].pc = "sync"
    /\ pointer' = [pointer EXCEPT ![Domain(w)] = Synced(@, task[w].row.content)]
    /\ task' = [task EXCEPT ![w] = NextDomain(task[w])]
    /\ spoilt' = [spoilt EXCEPT ![Domain(w)] = IF UpToDate(w) THEN @ ELSE Worst(Adrift, @)]
    /\ UNCHANGED <<chainVars, born, rows, audit, indexed, groups, cursor, tick, batch, faults>>

(* The register job saves the incomplete row it read, completed. *)
FillOwner(w) ==
    LET t == task[w]
    IN /\ t.pc = "fill"
       /\ rows' = [rows EXCEPT ![Domain(w)] = [t.row EXCEPT !.bare = FALSE]]
       /\ task' = [task EXCEPT ![w] = FreeTask]
       /\ spoilt' = [spoilt EXCEPT ![Domain(w)] =
             IF Outdated(t.row, Domain(w)) THEN Restored ELSE @]
       /\ UNCHANGED <<chainVars, born, derivedVars, cursor, tick, batch, faults>>

(***************************************************************************)
(* Any await may throw: the pool records a signature's error, and a row's  *)
(* is only logged.  What the task wrote before stays, an open transaction  *)
(* is rolled back, and the other domains wait for the replay.              *)
(***************************************************************************)
TaskThrows(w) ==
    /\ task[w].pc # "free"
    /\ \/ Fault("throw")
       \/ task[w].pc = "resolve" /\ Domain(w) \in Unreadable /\ UNCHANGED faults
    /\ tick' = IF w \in Writers THEN [tick EXCEPT !.errors = @ \cup {task[w].sig}] ELSE tick
    /\ task' = [task EXCEPT ![w] = FreeTask]
    /\ spoilt' = [d \in Domains |->
          IF Following(task[w], d) THEN Worst(Adrift, spoilt[d]) ELSE spoilt[d]]
    /\ UNCHANGED <<chainVars, born, rows, derivedVars, cursor, batch>>

-----------------------------------------------------------------------------
World ==
    \/ Crash
    \/ \E n \in Names : WriteRecords(n)
    \/ \E d \in Domains : BackfillInserts(d) \/ IndexContent(d)

Apply(w) ==
    \/ Resolve(w) \/ FindGroup(w) \/ LeaveGroup(w) \/ FindSurvivors(w) \/ TearDown(w)
    \/ SaveRow(w) \/ CreateDnsSettings(w) \/ SyncFromDns(w)
    \/ FillOwner(w) \/ TaskThrows(w)

Next ==
    \/ World
    \/ StartTick \/ EndTick \/ StartReconcile
    \/ \E w \in Writers : TakeSig(w) \/ LoadRow(w) \/ SigMissed(w) \/ NameMissed(w)
    \/ \E w \in Reconcilers : TakeRow(w)
    \/ \E w \in Registrars, d \in Domains : UpsertDomain(w, d)
    \/ \E w \in Workers : Apply(w)

Spec == Init /\ [][Next]_vars

(***************************************************************************)
(* Cron fires both jobs again and again, a pool hands its next item to a   *)
(* free worker, and every await settles; the content indexer comes by      *)
(* every row in the end.  Nothing obliges owners to write records or the   *)
(* other jobs to find domains.                                             *)
(***************************************************************************)
Fairness ==
    /\ WF_vars(StartTick) /\ WF_vars(EndTick) /\ WF_vars(StartReconcile)
    /\ \A w \in Writers : WF_vars(TakeSig(w)) /\ WF_vars(LoadRow(w))
    /\ \A w \in Reconcilers : WF_vars(TakeRow(w))
    /\ \A w \in Workers : WF_vars(Apply(w))
    /\ \A d \in Domains : WF_vars(IndexContent(d))

FairSpec == Spec /\ Fairness

-----------------------------------------------------------------------------
(***************************************************************************)
(* Properties.                                                             *)
(***************************************************************************)
Mirrors(d) == HasRow(d) /\ rows[d].content = records[d]

(***************************************************************************)
(* Whatever is written of a domain, in its row, audit row and pointer, and *)
(* what the content indexer fetched for it, its own records said at some   *)
(* time: no task, however it overlaps with others and whatever transaction *)
(* it works through, writes one domain's content to another.               *)
(***************************************************************************)
OnlyOwnContent ==
    \A d \in Domains :
        /\ {rows[d].content, pointer[d], indexed[d]} \subseteq held[d]
        /\ \E v \in held[d] : audit[d] = v.cid

(***************************************************************************)
(* Inductive: a task under way carries content of the domain it works on,  *)
(* and copies of rows with content of theirs.                              *)
(***************************************************************************)
TaskOwn(t) ==
    /\ t.pc \notin {"free", "load"} => t.row.content \in held[Head(t.domains)]
    /\ t.pc \notin {"free", "load", "resolve", "fill"} => t.result \in held[Head(t.domains)]
    /\ \A d \in Domains : t.copies[d].content \in held[d]

ContentInv ==
    /\ OnlyOwnContent
    /\ \A d \in Domains : None \in held[d] /\ records[d] \in held[d]
    /\ \A i \in DOMAIN batch : batch[i].row.content \in held[batch[i].domain]
    /\ \A w \in Workers : TaskOwn(task[w])

(***************************************************************************)
(* What hangs on a row follows it, however the workers of the jobs overlap *)
(* and whatever fails: content the indexer has not fetched is announced to *)
(* it, and the latest audit row and the pointer are those of the row's     *)
(* content or a task is about to write them.  It excepts, until its        *)
(* content changes next, a domain whose row was reverted or restored, and  *)
(* for audit row and pointer one that went adrift.                         *)
(***************************************************************************)
AboutTo(pcs, d) ==
    \E w \in Workers : Following(task[w], d) /\ task[w].pc \in pcs /\ UpToDate(w)

Announced(d) == rows[d].content = None \/ rows[d].unseen \/ indexed[d] = rows[d].content
Audited(d) == AboutTo({"audit"}, d) \/ audit[d] = rows[d].content.cid
Pointed(d) ==
    \/ AboutTo({"audit", "sync"}, d)
    \/ Refused(rows[d].content) \/ pointer[d].cid = PointerFor(rows[d].content).cid

RowFollowed ==
    \A d \in Domains :
        /\ d \in Indexed /\ spoilt[d] < Reverted => Announced(d)
        /\ spoilt[d] = Untouched => Audited(d) /\ Pointed(d)

(***************************************************************************)
(* In the end the row of every domain whose V2 record was ever written     *)
(* says what the chain says, in whatever instruction of whatever           *)
(* transaction it was: what the record-changes job is for.  Only one thing *)
(* may come in between: a task at another domain, the primary of its       *)
(* group, or the register job puts the row back as it had read it before.  *)
(***************************************************************************)
EveryWriteMirrored ==
    \A d \in Domains :
        <>[]((\E i \in Slots : d \in Written[writes[i]]) => Mirrors(d) \/ spoilt[d] = Restored)

(* A domain a transaction names before d always throws. *)
Blocked(n, d) ==
    \E i, k \in DOMAIN Found[n] : i < k /\ Found[n][i] \in Unreadable /\ Found[n][k] = d

(***************************************************************************)
(* The domains written last are mirrored in the end whatever the other job *)
(* does and whichever other domain always throws, unless the transaction   *)
(* names that one before: each tick walks the cursor's own slot again      *)
(* (slot >= lastSlot), and that repairs a row overwritten meanwhile.       *)
(***************************************************************************)
LastWriteMirrored ==
    \A d \in Domains \ Unreadable :
        <>[](/\ writes # <<>>
             /\ d \in Written[Last(writes)] /\ ~Blocked(Last(writes), d)
             => Mirrors(d))

(***************************************************************************)
(* The queue drains: a row without content is resolved or given up on,     *)
(* even behind rows that always throw and keep their place at the head of  *)
(* it, as long as these do not fill the batch.                             *)
(***************************************************************************)
QueueDrains ==
    \A d \in Domains \ Unreadable : (HasRow(d) /\ InQueue(d)) ~> ~InQueue(d)

(***************************************************************************)
(* In the end a domain's pointer is the one its row calls for, unless that *)
(* value is no plausible pointer.                                          *)
(***************************************************************************)
PointerFollowsRow ==
    \A d \in Domains :
        <>[](Refused(rows[d].content) \/ pointer[d] = PointerFor(rows[d].content))

(***************************************************************************)
(* In the end the content indexer has fetched the content the row has, and *)
(* not an earlier one: the handover by ipfsProcessed = false loses nothing *)
(* although every save writes the flag back as it was loaded.              *)
(***************************************************************************)
IndexFollowsRow ==
    \A d \in Indexed :
        <>[](rows[d].content # None => indexed[d] = rows[d].content)

=============================================================================
