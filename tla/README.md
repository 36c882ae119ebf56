# Verification of the SNS indexer

TLA+ modules, TLC runs and TLAPS proofs for the Solana Name Service indexer in this
repository: a NestJS service whose four cron jobs follow two Solana programs and keep the
`dns`, `dns_settings`, `content_pointer`, `cid_processing` and `dns_migrations` tables that
other services read. Paths below are relative to `src/` of the service.

`PROJECT.json` lists, for each definition, the lines it models, and for each hazard of the
code the properties that cover it.

## 1. The system

### Components, their state and their operations

| Component | Code | State | Operations |
|---|---|---|---|
| Register job | `modules/sns/jobs/sns-register.job.ts` | `isJobRunning` in memory, cursor row `SNS_REGISTER` | every minute: read cursor, walk signatures, process them in a pool, `upsertDomain`, hold or move the cursor |
| Signature walker | `modules/sns/lib/signature-walker.ts` | none | pages newest to oldest, filters errors and old slots, stops at the cursor, an empty or short page, or the page cap |
| Record-changes job | `modules/sns/jobs/sns-record-changes.job.ts` | as the register job, row `SNS_RECORDS_V2_UPDATE` | as above; for each domain written: find or insert its row, resolve, `applyResolution` |
| Reconcile job | `modules/sns/jobs/sns-reconcile.job.ts` | `isJobRunning` | load a batch of rows without content, resolve each in a pool, `applyResolution` |
| Content state machine | `modules/sns/jobs/sns-reconcile.state.ts` | the loaded row | hit new, hit same, miss with and without a previous cid; each of its effects is an await of its own |
| Backfill job | `modules/sns/jobs/sns-backfill.job.ts` | `isJobRunning`, cursor row `SNS_BACKFILL` | some partitions per tick, page by page, batch by batch; mark complete |
| Cursor rows | `modules/dns/dns-migration.repository.ts` | `dns_migrations` | find or create, save |
| Domain rows | `modules/dns/dns.repository.ts`, `dns.entity.ts` | `dns` | insert-or-ignore by name, find, `findUnresolved`, save of the whole entity |
| Audit rows | `modules/dns/dns-settings.service.ts` | `dns_settings` | append |
| Content pointers | `modules/pointer/content-pointer.service.ts` | `content_pointer` | upsert or delete, by kind of content |
| Processing groups | `modules/dns/cid-processing/cid-processing.service.ts` | `cid_processing` | take a domain out, elect a new primary, tear down |
| Rate limiter | `providers/token-bucket.ts` | tokens, queue, timer | `acquire`, `refill`, `drain` |
| SNS resolver | `modules/shared/services/sns.service.ts` | none | reads and classifies records, owners, reverse names |
| Instruction parsers | `modules/sns/parsers/` | none | which domains a transaction creates, or writes records of |
| Value normaliser | `providers/content-value-normalizer.ts` | none | takes a record's text out of schemes and gateways, finds IPNS links in IPFS records |
| Retry helper | `providers/utils.provider.ts` | attempts and delay of a call | attempt, tell errors worth retrying, sleep ever longer, give up |
| Configuration, entry points, logging | `modules/shared/services/api-config.service.ts`, `cli/`, `main.ts`, `config/` | none | wiring |

### How they interact

The jobs call each other nowhere: they meet in the database. The register, record-changes
and backfill jobs all insert the row of a domain they find; the reconcile job and the
record-changes job both resolve its content and write through `applyResolution`, from a row
loaded earlier. Each job guards itself with a boolean in memory, so a second process (the
`cli:once` script, or an instance about to be replaced) is not excluded: the cursor rows are
shared by several ticks. Every RPC call waits for the one token bucket of its process.

### What is hard

* A tick is a long chain of awaits in up to `concurrency` pool workers; rows are read at one
  await and saved whole at a later one, while other workers, jobs and processes do the same.
* Writes of one change (group, row, audit row, pointer) are separate awaits, of which only
  the group has a transaction. A throw or a crash may fall between any two of them.
* A failed signature holds the cursor, and the next tick replays what already succeeded.
  Replays must be harmless, and the page cap must not cut off what the cursor is held for.
* The partition key of the backfill, the owner, changes while it sweeps.
* A resolution is up to six reads of a chain that moves on between them, and any of them
  may fail; a failure must not look like an empty record.
* The bucket's callers must all be woken by a timer that is set only sometimes, and its
  arithmetic reads a wall clock that may be set.
* A transaction is more than its top-level instructions: registrars create domains through
  inner ones, one transaction may write records of several domains, and a failed one carries
  its instructions all the same.

### What makes each component correct

Walker and held cursor: nothing is skipped unless it was out of reach
(`SkippedOnlyBehindFullWindow`), everything in reach is processed (`EverySigProcessed`), a tick
always releases its lock (`TickEnds`). Content: rows end as the chain says
(`EveryWriteMirrored`, `LastWriteMirrored`), with no domain ever given another's content
(`OnlyOwnContent`), the pointer and the content indexer end as the row says
(`PointerFollowsRow`, `IndexFollowsRow`), and neither they nor the audit row fall behind it
unseen (`RowFollowed`), the queue drains (`QueueDrains`). Rows: only a registration that went
through makes one (`OnlyRegistered`), and no save of a stale copy loses an owner or a
transaction for good (`OwnerRecorded`, `LatestWriteStamped`). Backfill: it is complete only
when it is (`CompleteCovers`), and some day it is (`SweepCompletes`), and the mark is not taken
back but by a process that read the row before it (`KeepsPromise`). Groups: no stale member, no
change of cid undone, no dangling reference (`NoStaleMember`, `NoChangeLost`,
`NoDanglingGroup`). Resolver: nothing that was there all along is missed, an undisturbed result
is the right one, and there is an end to it (`NoSteadyRecordMissed`, `CalmResultTrue`,
`ResolutionEnds`). Limiter and retries: a bounded rate (`RateBound`, `RequestBound`), no lost
wakeup (`TimerWhileWaiting`), outages ridden out for as long as the options say
(`GivesUpOnlyAfterPatience`), and an end to every call that is not overtaken for ever
(`EveryCallSettles`). Batched names stay with their accounts (`BatchAligned`), and a record's
text gets the kind and value of what it addresses (`ContentCanonical`).

## 2. The modules

### SnsCursorJob: the tick, the walk and the held cursor

One action per step of `handle`: `StartTick` reads the cursor, `FetchPage` is one turn of
the walker's loop, `FetchLastPage` the turn that ends the walk and sorts what it collected,
`TakeSig` starts a signature in the pool, `SigApplied`, `SigMissed` and `SigThrows` end it,
`EndTick` computes the safe slot and saves the cursor, `TickFails` is a throw anywhere
outside the pool, `Crash` the end of the process. `chain` is the program's history, which
`Confirm` extends at any moment, several signatures to a slot and failed transactions
included. `applied`, `missed`, `failed` and `coldSlot` are history variables. The work on one
signature is one step here; its awaits are in SnsRow and SnsContent. Several processes
share the cursor row, so that the saved slot may also go back.

### SnsInstructions: what the jobs read out of a transaction

A transaction is its error, its top-level instructions and the groups of inner ones; an
instruction is whether the node parsed it, its program, accounts and data. `IsCreate` and
`TouchesRecord` are the classifiers, `CreatedDomains` and `RecordDomains` the extraction with
its order and its removal of duplicates, after `processSignature` has dropped failed
transactions (`Effective`). MCSnsRow compares both with a reference definition, over all
transactions of up to two top-level and two inner instructions and a second group. SnsRow and
SnsContent take their transactions from it: what a transaction *does* on chain is stated
there on its own (`Registering`, `Writing`, `Written`), what a job *finds* in it comes from
the parsers (`Found`).

### SnsContent: from a record write to the pointer

The record-changes and reconcile jobs on the content of domains. Each await is a step with
its own place in `task[w].pc`: `LoadRow`, `Resolve`, `SaveRow`, `CreateDnsSettings`,
`SyncFromDns`, and `TaskThrows` or `Crash` in between. When the cid changes, `handleCidChange`
comes before the save: `FindGroup` reads the old cid's group, `LeaveGroup` saves it without the
domain, and when the domain is its primary `FindSurvivors` reads the other members' rows and
`TearDown` saves them whole and removes the group. A task carries the row it loaded, and
`SaveRow` writes that row back as a whole, as TypeORM's `save` does. A task of the
record-changes job goes through the domains of its transaction one after another
(`NextDomain`); a throw ends it for all that are left, a name that cannot be looked up
(`NameMissed`) only for the one. `BackfillInserts` is the backfill job adding a row without
an owner (`bare`), `UpsertDomain` and `FillOwner` are the register job adding one, or reading a
bare one and saving it whole and completed; `born` is the order of `created_at` that the queue
is served in. `IndexContent` is the content indexer downstream, which takes a row whose
`ipfsProcessed` is false (`unseen`), sets it, and has the domain join the group of its cid. The
walk is one step that collects everything from the cursor on. `held` is a history variable: all
that a domain's records ever said. So is `spoilt`: the worst that has befallen a domain's row
since its content last changed, which names the three ways in which the code lets a row, or
what hangs on it, fall behind. *Adrift*: its audit row and pointer were cut off from it by a
failure, or written late. *Reverted*: a task of its own, which did not mean to change the
content, put an older copy back. *Restored*: a task of another domain, the primary of its group,
or the register job did.

### SnsRow: one domain's row under all four jobs

Who creates the row and who completes it: `upsertDomain` (`InsertRegistered`,
`FindRegistered`, `SaveRegistered`), `applyRecordWrite` (`FindByNode`, `InsertWritten`,
`FindWritten`, `SaveResolved`), `processBatch` (`BackfillInserts`) and the reconcile job
(`LoadUnresolved`, `SaveResolved`), with the owner, the transaction, the presence of content
and the attempt counter as columns. Its signatures are transactions read by SnsInstructions,
failed registrations among them; the owner of an unknown domain comes from `GetOwner` of
SnsLookups, which may find none. The resolution is read at the save; SnsContent has
it earlier. Signatures of other domains are left out: they only move a cursor on, which ends
the replay of the boundary slot and with it what the two properties promise.

### SnsBackfill and DomainSweep

SnsBackfill is the sweep: `StartTick`, `FetchPage`, `ProcessBatch`, `PageDone`, the two steps
of the cursor's save (`FindRow`, `SaveCursor`), `EndTick`, and `Throws` or `Crash` at any of
them, in several processes, while domains are registered, transferred and inserted by the
register job. Page sizes are left open; a batch is a sequence of up to `BatchSize` keys, whose
names come back position by position from `ReverseLookupBatch`. DomainSweep says what the rest
of the system may rely on, without partitions, pages or cursors: the mark comes only when every
owed domain has a row, and only a process that found the row open before (`Hold`) takes it
back, once (`Reopen`). SnsBackfill implements it with `due <- Due, found <- dns, closed <-
done, holders <- Holders`, the processes about to save an `isMigrated` that is not set. When
the last partition's cursor cannot be saved (`Throws`), that partition has been counted by
then, and the tick marks the sweep complete all the same (`sns-backfill.job.ts:108-111`,
`:132-139`). A domain that has changed hands
since the sweep began is no longer owed (section 5 says why).

### SnsLookups

`GetOwner`, `ReverseLookup` and the chunks of `ReverseLookupBatch`, over the states an
account may be in: missing, empty, unreadable, or with a value.

### TokenBucket and RpcCalls

TokenBucket: `AcquireNow` and `AcquireLater` are the two ends of `acquire`, `Drain` is the
timer's callback, `Tick` the time that passes. Tokens are counted in units (`One` to a token,
`Rate` per tick) so that the fractions of the code stay integers. A due timer may be late, and
the wall clock that `refill` reads may be set back or forward, a bounded number of times,
while timers run on; `since`, what the wall clock says has passed since the last refill, is
followed up to a `Horizon` beyond which no set-back is left to matter. `debt` is a history
variable: it grows by a token with each grant and shrinks by what arrives, so that a bound on
it bounds the grants of every interval at once.

RpcCalls adds the callers: attempts, the sleep between them (`WaitTime`), exhaustion and
errors that are not retried. A pool worker whose call is over makes its next one at once
(`Again`), so that newcomers never run out, and `acquire` gives them a token though others wait
(`Overtakes`). Calls through the Connection take a token for each attempt; the page fetch of
the backfill (`SendPast`) takes none. A page is one fetch: the next page is another member of
`PageFetches`, so that `RequestBound` grows with the pages fetched. `load` is the debt of all
requests, and `spent` counts the time since a call's first failure. The options of the code are
checked against the budgets its comments give, in ms, by an assumption of MCRpcCalls.

### CidProcessing

`handleCidChange` for the group of one cid: `FindGroup`, `Leave`, `FindSurvivors`,
`TearDown`, then `SaveRow` of the caller, with `Abort` rolling the transaction back.
PostgreSQL's read committed and TypeORM's read-compare-write are modelled as such. Of the
history variables, `met` has the domains whose transaction was open along with another, and
`applied` those whose change has been saved. What ties a row to its group is here, for one
group; SnsContent has all groups and what the survivors' saves do to content.

### SnsResolution

`resolveContent` read by read: the V2 and V1 records of the three kinds in their order, each a
call that is retried (`Retry`), given up on (`GiveUp`), answered (`ReadMiss`, `ReadHit`) or
whose failure is taken for a missing account by its text (`TakenForMissing`). Meanwhile the
owner writes records and the domain changes hands, which makes its V2 records stale. What a
record holds is a text of ContentValue. `steady`, `calm` and `misled` are history variables:
what was usable ever since the resolution began, whether the chain stood still, and whether a
failure passed for a missing record.

### ContentValue

A text is taken apart into what wraps the identifier (nothing, a scheme, a gateway by path or
by host), the identifier (none, a CID, a CID typed in capitals, an IPNS key) and what follows
it. `Normalized` and `ClassifyRecordContent` rewrite it step by step in the code's order;
`Canonical` says independently of any rewriting what the text addresses, and names the three
departures (section 5).

The `MC...` modules give the sets of processes and values for TLC.

## 3. The runs

| Run | Specification, bounds | Shows |
|---|---|---|
| `cursor` | fair, cron and `cli:once`, walk of 2 pages of 1 signature, 3 signatures in up to 2 slots, 1 fault | the cursor passes an unprocessed signature only behind a full window, each in reach is processed, each tick ends; the proof's invariant holds |
| `cursor_held` | one process, 4 signatures, 1 fault | **violation**: the cursor passes a failed signature |
| `content_changes` | fair, record-changes with 2 workers and the register job with one, 2 domains with rows, one of them bare, grouped if their cid is the same, 2 transactions (through another program, of both domains), 1 throw or crash | every write is mirrored, unless the row was restored |
| `content_both` | fair, both jobs, 2 domains of which one always throws, 2 transactions, 1 unseen transaction or name, one domain served by the content indexer | the indexer, audit row and pointer follow each row or are about to, unless it was reverted, restored or went adrift; the last write is mirrored; the queue drains |
| `content_pointer` | fair, 1 worker, 2 domains, 2 transactions (of both domains, or failed), no fault, content immutable, mutable, implausible or none, one domain served by the content indexer | only own content; in the end the pointer and the indexer follow the row |
| `content_stale` | fair, both jobs, no fault | **violation**: a stale save is never repaired |
| `content_partial` | fair, 1 worker, 1 throw | **violation**: a pointer is never brought up to date |
| `row` | fair, one worker for each job, 3 transactions (failed registration, registration, write) in 2 slots, 1 fault | no row without a registration; a lost owner or transaction comes back |
| `backfill` | fair, two processes, 2 domains (one nameless), 2 partitions, 1 per tick, batches of up to 2 looked up 1 by 1, 1 fault | refinement of DomainSweep, completion covers, completion comes |
| `rpc` | fair, 2 callers through the bucket, of 2 and 1 attempts, that call again and again, a page fetch of 2 attempts past it, capacity 2, clock set once | rate and request bound, timer, patience; every call settles unless newcomers overtake for ever |
| `group` | fair, 2 workers, 3 domains, 1 fault | no stale member and no change undone, but of a domain whose transaction met another; no dangling reference, and meanwhile only of a row still to be saved |
| `resolution` | fair, 2 owners, 4 spellings, 2 attempts, 2 records at once, 2 writes or transfers | nothing steady is missed, an undisturbed result is right, each resolution ends |

Why the bounds are enough. `cursor`: with a window of two signatures a third already fills it,
and two slots for three signatures give a shared boundary slot that is replayed; two processes
give every pair of stale reads. The proofs cover any number of each. `content_*`: two writes
are the fewest of which one can be passed by the cursor, two workers the fewest that can
cross; a transaction of both domains has one that is read first and one that waits, and two
domains with one cid are a primary and a member whose row it saves. `row`: one
registration and two writes give a replay with an older write beside it, a failed registration
before the other one the order in which a row might come too early. `backfill`: two partitions
of one each give two ticks, a partition to come and one behind; the second domain tells pages
from batches, and chunks of one within batches of two give the first an offset. `rpc`: three
callers give a queue behind an empty bucket and one beside it, and as two of them call again
and again, a newcomer is always at hand to overtake one that waits; a token is one and a half
ticks' refill, so that fractions remain, and the page fetch has a second sleep that the
ceiling cuts. `group`: three domains give a primary that leaves and two survivors.
`resolution`: two records at once and two writes are enough to move content from a slot not
yet read to one already passed; two attempts have both a retry and an exhaustion.
`CHECK_DEADLOCK FALSE` is set where the system really may stop: no record written and no row
unresolved (SnsContent), every change applied (CidProcessing).

### Fairness

Weak fairness only. `handle` is called by cron every minute whatever happened before
(`StartTick`, `StartReconcile`); PromisePool hands the next item to any free worker
(`TakeSig`, `TakeRow`); the content indexer comes by every row it serves in the end
(`IndexContent`); every await ends in an answer or a throw, the retry helper bounding the
attempts (the remaining steps of a tick or task, and `Read` in SnsResolution, where that bound is
modelled and may be used up at every call); the event loop runs a due timer (`DrainQueue`),
time passes (`TimePasses`), and a call that slept tries again (`Resend`). `EveryCallSettles`
assumes besides that from some time on no newcomer overtakes: that the code does not ensure it
is in section 5. In SnsCursorJob the
fairness is that of a process as a whole, the least that has it go on. Nothing is assumed of
the chain, of owners, of the register and backfill jobs in SnsContent, of the reconcile and backfill jobs in SnsRow, or of faults, which are
bounded in number and may fall anywhere. `OwnerRecorded` and `LatestWriteStamped` are
recurrences (`[]<>`), not `<>[]`: two jobs whose ticks interleave in lockstep for ever would
overwrite each other for ever, and weak fairness does not exclude it. `EverySigProcessed` and
`TickEnds` are recurrences too: nothing that is owed stays owed, and every process is idle
again and again.

## 4. The proofs

TLAPS proves the following for every value of the constants that satisfies the assumption
named in the module (sets of processes of any size, any page limit, capacity and so on).

* `SnsCursorJob_proof`: `TypeCorrect`; `CursorCorrect`, that `CursorInv` always holds; and
  from it `SkipBound`: `SkippedOnlyBehindFullWindow`. The property is not inductive: a tick
  works from a slot it read long ago and from pages it fetched before newer signatures came,
  and saves at the end. `CursorInv` adds that what is *safe* for the cursor is safe for the
  slot each tick began with, that a walk holds all it has passed except what is newer than
  all of it (`WalkInv`), that the pool loses nothing (`WorkInv`), and that no saved slot is
  above the tip (`Known`), which keeps later signatures from being born skipped.
  `CursorForward`: while one process runs the job (`Alone`), no step moves the cursor back,
  since the slot its tick began with is still the saved one (`InStep`). The `EndTick` of
  SnsContent and of SnsRow, where one process ticks, takes the larger of the two slots and
  rests on this.
* `SnsBackfill_proof`: `TypeCorrect`; `BackfillCorrect` (`BackfillInv`: whatever lies below
  the cursor or below a tick's partition is inserted, and so is whatever a tick has seen and no
  longer holds in its page); `CompletionCovers`; and `Implements`, the refinement of
  DomainSweep, by initial states and one case per action: a process joins the holders when it
  finds the row open, and leaves them by its save or a fault. `BatchAligned` is "an array aligned
  1:1" (`sns.service.ts:465`) for every size of chunk, and is used for the rows of a batch
  (`BatchInserts`).
* `RpcCalls_proof`: of the bucket alone `NoLostWakeup` and `RateBounded`, by `RateInv`, which
  counts what a refill would bring now as if it were granted already. `CallsUseTheBucket`: RpcCalls
  implements TokenBucket, step by step or with a stutter, and so `RetriesWoken` and
  `RetriesRateBounded` for calls that are retried. Of the calls `RpcTypeCorrect`,
  `OutagesRiddenOut` and `RequestsBounded`, that is `RpcTypeOK`, `GivesUpOnlyAfterPatience`
  and `RequestBound`. A call that waits for its n-th attempt has spent at least the shortest
  sleeps before it, which is what the budget adds up. A page fetch goes past the
  bucket and may do so again only after its shortest sleep: it owns a slot for each tick of
  that sleep, a request takes them all, and each tick slept gives one back. `LoadInv` says
  that what the load exceeds the bucket's debt by is held in slots that are not free.
* `SnsContent_proof`: `TypeCorrect`, from `Typed`, which adds that a task under way has a
  domain and a signature. `ContentCarried` and from it `OwnContent`: `OnlyOwnContent` is not
  inductive, for a save writes what its task loaded and resolved steps before, from a batch
  loaded before that. `ContentInv` adds that all of these carry content of the domain they
  belong to (`TaskOwn`), and it is kept because what a domain's records ever said only grows.
  `RowsFollowed` is `RowFollowed`, of any number of workers of the three jobs and without a
  hypothesis on how they overlap: the exceptions are in the property, where `spoilt` names what
  has befallen a domain. The property is itself inductive, domain by domain (`FollowedAt`): a
  step either leaves the content and what hangs on it alone (`FollowedOn`, which also keeps the
  task that is about to write them), or is a save that puts the row back (`PutBack`), or gives
  new content and has the task follow it up (`FollowSave`, `FollowAudit`, `FollowSync`).
* `SnsResolution_proof`: `TypeCorrect`; `NothingMissed` and `UndisturbedTrue`, both from
  `ResolutionInv`: what is steady is usable, until something changes everything usable is
  steady, and no read without a failure taken for a miss has passed a steady slot.
  `ContentCanonical` is about the normaliser, for every text.
* `SnsRow_proof`: `ParsersExact`, which domains the parsers return of a transaction, whatever
  its top-level and inner instructions; `TypeCorrect`, from `Typed`, which adds that a worker holds
  a signature of its own job; and `Registration`, that no row comes into being before a
  registration that went through, and that a row never has a transaction stamped that does not
  tell of the domain. Its invariant: whoever works on the domain, and every confirmed write,
  comes after the registration (`RowInv`), and what a task is about to stamp tells of the
  domain (`StampInv`). It has no hypothesis about the parsers; it uses `ParsersExact`.
* `CidProcessing_proof`: `TypeCorrect`; and `RefsListed`, by `RefInv`. `RefListed` is not
  inductive: a transaction saves the group it read earlier. `RefInv` adds that this group,
  though out of date, lists every row that still points to a group but those about to be saved
  (`RefRead`), that a domain being worked on is still pending and that no two workers have it.
  `MembersNotStale` is `NoStaleMember` and `ChangesKept` is `NoChangeLost`, both by `MemberInv`:
  a domain that has left, or is about to save its row, is in no open transaction's copy of the
  group unless the two overlapped (`GoneUnseen`), a transaction that met no other has read the
  group as it is (`AloneCurrent`), and a new cid is an applied change (`NewApplied`), wherever a
  fault falls.

`RecursionFacts` holds what `SnsRow_proof` (the parsers' folds) and `RpcCalls_proof` (delays
and budgets) need of recursion: that a function defined by recursion over the numbers is a
function with the value its equation gives. The induction in it is over sets (a set of numbers
with 0 and the successor of each of its members is all of Nat), not over operators, so that no
theorem with an operator as a parameter is instantiated.

Every safety property of the runs is a theorem. Model-checked only: all liveness, which rests on
fairness and ENABLED and so is out of the prover's reach (`EverySigProcessed`, `TickEnds`,
`EveryWriteMirrored`, `LastWriteMirrored`, `QueueDrains`, `PointerFollowsRow`,
`IndexFollowsRow`, `OwnerRecorded`, `LatestWriteStamped`, `SweepCompletes`,
`EveryCallSettles`, `NoDanglingGroup`, `ResolutionEnds`), and the violations.
That the parsers name only domains of `Domains` is an assumption on the transactions of
SnsContent; `ParsersExact` says which they name, and TLC evaluates the assumption.

## 5. Where the code and its documents disagree

Shown by a run:

* `cursor_held`. `README.md:7-8` promises "held-cursor invariants that never advance past a
  failed item". The walk starts from the tip and gives up after `maxPagesPerTick` pages
  (`signature-walker.ts:39`): when newer signatures fill them, the failed one is not
  collected again and the cursor moves past it. What does hold is
  `SkippedOnlyBehindFullWindow`.
* `content_stale`. `docs/sns-overview.md:444-446` calls concurrent jobs safe because "every
  write is idempotent and every read is independent". The reconcile job may save a resolution
  it read before a record write over the newer one; the row has then left the queue, and once
  the cursor has moved on nothing looks at it again.
* `content_partial`. `sns-record-changes.job.ts:136-137`: "idempotent applyResolution make
  replay safe". After a throw between the row's save and `syncFromDns` the replay takes the
  unchanged branch, and the pointer stays as it was.

Met while modelling, with no run of their own:

* Two pool workers on two signatures of one domain may cross in `syncFromDns`
  (`content_partial` with `Writers = {w1, w2}` and no fault), and two rows that always throw
  at the head of the queue with `BatchSize = 1` starve the rest (`dns.repository.ts:21`).
* The primary of a group whose cid changes saves the rows of the other members whole, as its
  transaction has read them (`cid-processing.service.ts:76-89`). A worker that has meanwhile
  saved a new cid for one of them loses it: nothing failed, the cursor moves on, and no job looks
  at that domain again (two workers, one transaction on each of two domains of one cid). That
  contradicts `sns-overview.md:444-446` once more. Hence `Restored` in `EveryWriteMirrored` and
  `RowFollowed`, and `met` in `NoChangeLost`, which says that nothing but such an overlap undoes
  a change.
* `upsertDomain` saves the row it read (`sns-register.job.ts:273`) when one of its columns was
  missing, and with it the cid as it was then, over what record-changes has saved meanwhile.
  Hence `Restored` here too.
* A record whose kind changes and whose identifier does not is taken for unchanged
  (`sns-reconcile.state.ts:62-63`, `:80`); the values of the runs have distinct identifiers.
* A domain transferred to a partition already swept is never backfilled, while
  `sns-backfill.job.ts:26` speaks of every top-level domain. Hence `Due`.
* `saveSnsBackfillMigration` writes back `isMigrated` as found, so that a second process may
  reopen a completed sweep (`.env.example:69-71` says it never runs again). Hence `Reopen`.
  When only the last cursor's save fails, the tick marks the sweep complete although it logs
  "cursor held for replay next tick" (`sns-backfill.job.ts:122`): harmless, for that partition
  is inserted.
* `token-bucket.ts:5-6` says FIFO, but `acquire` does not look at the queue
  (`token-bucket.ts:45`): a newcomer may take the token a waiting caller is about to get, and
  pool workers that call again and again may have it wait for ever. Hence `Overtakes` in
  `EveryCallSettles`. `token-bucket.ts:22` calls the capacity the
  steady-state rate; in the first second of a burst nearly twice as many calls are granted.
* `docs/data-model.md:16-21` has `dns_settings` among the tables that are never written;
  `DnsSettingsService.createDnsSettings` inserts a row for each change of cid, as
  `sns-overview.md:143` and `:160` say.
* Two domains that leave one group at once: the second save puts the first one back
  (`cid-processing.service.ts:18-19`). Hence `met` in `NoStaleMember`.
* `sns.service.ts:309-314` wants no "silent data loss on RPC outages", yet line 304 takes any
  failure whose message contains "not found" for a missing record. Hence `misled` in
  NoSteadyRecordMissed and CalmResultTrue.
* Six reads are no snapshot: an owner who moves content from an IPNS to an IPFS record while
  the domain is resolved may have it resolve to nothing, although one of the two was set at
  every moment. Hence "usable all along" record by record. A V2 write itself brings the domain
  back to the record-changes job.
* A transfer makes V2 records stale, but is no record write: the row keeps content that
  `resolveContent` would no longer return, until the owner writes a record.
* `upsertDomain` means to keep a transaction stamped by record-changes
  (`sns-register.job.ts:241-243`), yet saves the row it read, over whatever was stamped
  since; of two writes in one slot the older is processed last and leaves its transaction,
  against `docs/data-model.md:31`. Hence "alone in the newest slot" and `[]<>`. Either column is
  repaired only by the replay of the boundary slot, until a newer signature of that program,
  of whatever domain, moves the cursor on.
* `.env.example:42` calls the limit a "Process-wide cap on outbound Solana RPS", but the Helius
  page fetch takes no token (`sns-backfill.job.ts:247`). Hence `RequestBound` beside
  `RateBound`.
* A domain that always throws keeps those after it in the same transaction from being reached,
  and holds the cursor, as long as it does (`sns-record-changes.job.ts:190`). Hence `Blocked`.
* With two pool workers a save of an unchanged cid may write `ipfsProcessed` back as it was
  loaded, over the handover of another worker's new cid, when that cid is then taken back: the
  content indexer keeps an earlier one for good (`content_pointer` with two writers), although
  `sns-reconcile.state.ts:107-108` leaves the column to the indexer on this path.
* An implausible value leaves the previous content's pointer in place
  (`content-pointer.service.ts:159-161` says so). Hence the exception in `PointerFollowsRow`.
* A gateway's URL loses the file below the identifier, which `ipfs://<cid>/file` keeps; a path
  below a CIDv1 in capitals is put in lower case with it; an IPNS key in capitals keeps them
  in an IPFS record and loses them in an IPNS record. Hence the departures in `Canonical`.
  `ipns://` without a key in an IPFS record becomes IPFS content `ipns:`.
* Of two creations of one domain in one transaction the first one's owner is recorded
  (`sns-create-instruction.ts:125`).

## 6. Not modelled, and the plan

Not modelled: configuration, entry points, logging, TypeORM declarations, the schema drift
script (no behaviour over time); Solana, Helius and PostgreSQL beyond what the code relies on.
The content indexer and the pointer worker are other services; of the former only the handover
by `ipfsProcessed` is here, of the latter's scheduling columns nothing. A cursor row created
twice (`dns-migration.repository.ts:70`, no unique index) is one row here: either of two rows
holds a slot that some tick saved, as the one row does after a slower process's save.

The order of the modules: SnsCursorJob first, because every job stands on its held cursor;
SnsContent, what the service is for; SnsBackfill with DomainSweep; TokenBucket and
CidProcessing; SnsRow; SnsResolution with ContentValue; RpcCalls; SnsInstructions and
SnsLookups, which SnsContent, SnsRow and SnsBackfill take their data from. What is left:

1. A step-wise `Resolve` in SnsContent, composed from SnsResolution, so that a torn read meets
   the replay of the boundary slot.
2. The two rows of a cursor created twice, in SnsBackfill, where the partition and
   `isMigrated` may come apart.
3. Proofs: the safety part of the recurrences of SnsRow, that whatever wiped out an owner or a
   transaction has left the boundary slot to be replayed.
