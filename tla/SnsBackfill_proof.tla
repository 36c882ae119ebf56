------------------------- MODULE SnsBackfill_proof -------------------------
(***************************************************************************)
(* Proofs about SnsBackfill for any number of processes, partitions and    *)
(* domains: the batched reverse lookup gives every account the answer the  *)
(* single one gives it; types; the invariant behind CompleteCovers; and    *)
(* that the job implements DomainSweep.                                    *)
(***************************************************************************)
EXTENDS SnsBackfill, SequenceTheorems, TLAPS

-----------------------------------------------------------------------------
(* A position lies in the chunk that starts at its offset. *)
LEMMA OffsetBounds ==
    ASSUME NEW n \in Nat \ {0}
    PROVE  /\ Offset(n) \in Nat
           /\ Offset(n) + 1 <= n /\ n <= Offset(n) + Chunk
<1> DEFINE q == (n - 1) \div Chunk
           m == (n - 1) % Chunk
<1>1. Chunk \in Nat \ {0}
  BY ChunkAssumption
<1>2. q \in Int /\ m \in 0 .. Chunk - 1 /\ n - 1 = Chunk * q + m
  BY <1>1
<1>3. q \in Nat
  BY <1>1
<1>4. Chunk * q \in Nat /\ Chunk * q = q * Chunk
  BY <1>1, <1>3
<1>5. Offset(n) = Chunk * q
  BY <1>4 DEF Offset
<1> HIDE DEF q, m
<1>6. QED
  BY <1>1, <1>2, <1>4, <1>5

(***************************************************************************)
(* "Returns an array aligned 1:1 with domainPubkeys" (sns.service.ts:465): *)
(* for every chunk size and every number of accounts the batch has one     *)
(* answer per account, at the account's own place, and it is the one       *)
(* reverseLookup gives.                                                    *)
(***************************************************************************)
THEOREM BatchAligned ==
    ASSUME NEW T, NEW accounts \in Seq(T)
    PROVE  ReverseLookupBatch(accounts) =
              [n \in 1 .. Len(accounts) |-> ReverseLookup(accounts[n])]
<1>1. SUFFICES ASSUME NEW n \in 1 .. Len(accounts)
               PROVE  ChunkAt(accounts, Offset(n))[n - Offset(n)] = accounts[n]
  BY DEF ReverseLookupBatch
<1>2. /\ n \in Nat \ {0} /\ n <= Len(accounts) /\ Len(accounts) \in Nat
      /\ Chunk \in Nat \ {0}
  BY ChunkAssumption
<1>3. /\ Offset(n) \in Nat
      /\ Offset(n) + 1 <= n /\ n <= Offset(n) + Chunk
  BY <1>2, OffsetBounds
<1> DEFINE first == Offset(n) + 1
           last  == IF Offset(n) + Chunk < Len(accounts) THEN Offset(n) + Chunk
                    ELSE Len(accounts)
<1>4. /\ first \in Nat \ {0} /\ last \in Nat
      /\ first <= n /\ n <= last /\ last <= Len(accounts)
  BY <1>2, <1>3
<1>5. ChunkAt(accounts, Offset(n)) = SubSeq(accounts, first, last)
  BY DEF ChunkAt
<1>f. first = Offset(n) + 1
  OBVIOUS
<1> HIDE DEF first, last
<1>6. n - Offset(n) \in 1 .. last - first + 1 /\ first + (n - Offset(n)) - 1 = n
  <2>1. PICK o \in Nat : o = Offset(n) /\ o + 1 = first
    BY <1>3, <1>f
  <2>2. n \in Nat /\ last \in Nat /\ o + 1 <= n /\ n <= last
    BY <1>2, <1>3, <1>4, <2>1
  <2>3. n - o \in 1 .. last - (o + 1) + 1 /\ (o + 1) + (n - o) - 1 = n
    BY <2>2
  <2>4. QED
    BY <2>1, <2>3
<1>7. SubSeq(accounts, first, last)[n - Offset(n)] = accounts[first + (n - Offset(n)) - 1]
  <2>1. \A i \in first .. last : accounts[i] \in T
    BY <1>2, <1>4
  <2>2. \A i \in 1 .. last - first + 1 :
            SubSeq(accounts, first, last)[i] = accounts[first + i - 1]
    BY <1>4, <2>1, SubSeqProperties
  <2>3. QED
    BY <1>6, <2>2
<1>8. QED
  BY <1>5, <1>6, <1>7

-----------------------------------------------------------------------------
(* The position a tick moves to is a job record in range. *)
LEMMA AtPartitionType ==
    ASSUME BackfillAssumption, NEW b \in 0 .. Total, NEW end \in 0 .. Total
    PROVE  /\ AtPartition(b, end) \in Job
           /\ AtPartition(b, end).partition = b
           /\ AtPartition(b, end).end = end
           /\ AtPartition(b, end).seen = {} /\ AtPartition(b, end).page = {}
           /\ AtPartition(b, end).more = FALSE
           /\ AtPartition(b, end).isMigrated = FALSE
           /\ AtPartition(b, end).pc = IF b < end THEN "fetch" ELSE "end"
  BY DEF AtPartition, Idle, Job

LEMMA IdleType == BackfillAssumption => Idle \in Job
  BY DEF Idle, Job, BackfillAssumption

LEMMA EndOfType ==
    ASSUME BackfillAssumption, NEW b \in 0 .. Total
    PROVE  EndOf(b) \in 0 .. Total /\ b <= EndOf(b)
  BY DEF EndOf, BackfillAssumption

LEMMA RangeFrom ==
    ASSUME BackfillAssumption, NEW b \in 0 .. Total
    PROVE  /\ AtPartition(b, EndOf(b)).partition = b
           /\ AtPartition(b, EndOf(b)).end = EndOf(b)
           /\ AtPartition(b, EndOf(b)).pc = IF b < EndOf(b) THEN "fetch" ELSE "end"
<1>1. EndOf(b) \in 0 .. Total
  BY EndOfType
<1> QED
  BY <1>1 DEF AtPartition, Idle

(* A cursor is saved by a tick that is still inside its range. *)
InRange(p) ==
    job[p].pc \in {"fetch", "batch", "find", "save"} => job[p].partition < job[p].end

Typed == TypeOK /\ \A p \in Procs : InRange(p)

(* Where an await that throws leaves a tick. *)
Breaks(p) ==
    IF job[p].pc \in {"find", "save"} /\ job[p].partition + 1 = Total
    THEN AtPartition(Total, Total) ELSE Idle

LEMMA BreaksType ==
    ASSUME BackfillAssumption, NEW p \in Procs
    PROVE  /\ Breaks(p) \in Job
           /\ Breaks(p).pc \in {"idle", "end"}
           /\ Breaks(p) # Idle =>
                 /\ job[p].pc \in {"find", "save"} /\ job[p].partition + 1 = Total
                 /\ Breaks(p) = AtPartition(Total, Total)
<1>1. Total \in 0 .. Total
  BY DEF BackfillAssumption
<1>2. /\ AtPartition(Total, Total) \in Job
      /\ AtPartition(Total, Total).pc = "end"
  <2> PICK b \in 0 .. Total : b = Total
    BY <1>1
  <2> DEFINE at == AtPartition(b, b)
  <2>1. at \in Job
    BY AtPartitionType
  <2>2. at.pc = IF b < b THEN "fetch" ELSE "end"
    BY DEF AtPartition, Idle
  <2>3. ~(b < b)
    BY DEF BackfillAssumption
  <2> HIDE DEF at
  <2>4. at.pc = "end"
    BY <2>2, <2>3
  <2> QED
    BY <2>1, <2>4 DEF at
<1>3. Idle \in Job /\ Idle.pc = "idle"
  BY IdleType DEF Idle
<1> QED
  BY <1>2, <1>3 DEF Breaks

(***************************************************************************)
(* A batch inserts the rows of the keys it was given that have a name.     *)
(***************************************************************************)
LEMMA BatchInserts ==
    ASSUME BackfillAssumption, job \in [Procs -> Job], NEW p \in Procs, ProcessBatch(p)
    PROVE  \E slice \in (SUBSET job[p].page) \ {{}} :
              /\ dns' = dns \cup (slice \ Nameless)
              /\ job' = [job EXCEPT ![p].page = @ \ slice]
<1>1. PICK keys \in Batches(job[p].page) :
          /\ dns' = dns \cup Rows(keys)
          /\ job' = [job EXCEPT ![p].page = @ \ Range(keys)]
  BY DEF ProcessBatch
<1>2. PICK n \in 1 .. BatchSize : keys \in [1 .. n -> job[p].page]
  BY <1>1 DEF Batches
<1>3. job[p].page \subseteq Domains
  BY DEF Job
<1>4. n \in Nat \ {0}
  BY <1>2 DEF BackfillAssumption
<1>5. keys \in Seq(Domains) /\ Len(keys) = n /\ DOMAIN keys = 1 .. n
  BY <1>2, <1>3, <1>4
<1>6. Range(keys) \in (SUBSET job[p].page) \ {{}}
  <2>1. \A i \in 1 .. n : keys[i] \in job[p].page
    BY <1>2
  <2>2. 1 \in 1 .. n
    BY <1>4
  <2>3. Range(keys) = {keys[i] : i \in 1 .. n}
    BY <1>5 DEF Range
  <2>4. Range(keys) \subseteq job[p].page
    BY <2>1, <2>3
  <2>5. keys[1] \in Range(keys)
    BY <2>2, <2>3
  <2>6. Range(keys) # {}
    BY <2>5
  <2>7. \A S : S \subseteq job[p].page /\ S # {} => S \in (SUBSET job[p].page) \ {{}}
    OBVIOUS
  <2>8. QED
    BY <2>4, <2>6, <2>7
<1> DEFINE accounts == [i \in 1 .. Len(keys) |-> Reverse[keys[i]]]
<1>7. accounts \in Seq({Reverse[d] : d \in Domains}) /\ Len(accounts) = n
  BY <1>2, <1>3, <1>4, <1>5
<1>8. \A i \in 1 .. n : NamesOf(keys)[i] = ReverseLookup(Reverse[keys[i]])
  <2>1. ReverseLookupBatch(accounts) =
            [i \in 1 .. Len(accounts) |-> ReverseLookup(accounts[i])]
    BY <1>7, BatchAligned
  <2>2. QED
    BY <1>5, <1>7, <2>1 DEF NamesOf
<1>9. Rows(keys) = Range(keys) \ Nameless
  <2>1. \A i \in 1 .. n : keys[i] \in Domains
    BY <1>2, <1>3
  <2>2. \A i \in 1 .. n : NamesOf(keys)[i] # Undefined <=> keys[i] \notin Nameless
    BY <1>8, <2>1 DEF Nameless
  <2>3. QED
    BY <1>5, <2>2 DEF Rows, Range
<1>10. QED
  BY <1>1, <1>6, <1>9

LEMMA TypedInit == BackfillAssumption /\ Init => Typed
<1> SUFFICES ASSUME BackfillAssumption, Init PROVE Typed
  OBVIOUS
<1>1. 0 \in 0 .. Total /\ 0 \in Nat
  BY DEF BackfillAssumption
<1>2. job \in [Procs -> Job]
  BY IdleType DEF Init
<1>3. \A p \in Procs : InRange(p)
  BY DEF Init, InRange, Idle
<1> QED
  BY <1>1, <1>2, <1>3 DEF Init, Typed, TypeOK

LEMMA TypedNext ==
    ASSUME BackfillAssumption, Typed, [Next]_vars
    PROVE  Typed'
<1> USE BackfillAssumption DEF Typed, TypeOK
<1>1. ASSUME NEW d \in Domains, Register(d) PROVE Typed'
  BY <1>1 DEF Register, Partitions, InRange, row
<1>2. ASSUME NEW d \in Domains, Transfer(d) PROVE Typed'
  BY <1>2 DEF Transfer, Partitions, InRange, row
<1>3. ASSUME NEW d \in Domains, RegisterJobInserts(d) PROVE Typed'
  BY <1>3 DEF RegisterJobInserts, InRange, row, world
<1>4. ASSUME NEW p \in Procs, StartTick(p) PROVE Typed'
  <2>1. cursor \in 0 .. Total /\ EndOf(cursor) \in 0 .. Total /\ cursor <= EndOf(cursor)
    BY EndOfType
  <2>2. AtPartition(cursor, EndOf(cursor)) \in Job
    BY <2>1, AtPartitionType
  <2>3. job' \in [Procs -> Job]
    BY <1>4, <2>2 DEF StartTick
  <2>4. job'[p] = AtPartition(cursor, EndOf(cursor))
    BY <1>4 DEF StartTick
  <2>5. InRange(p)'
    <3>1. /\ job'[p].partition = cursor /\ job'[p].end = EndOf(cursor)
          /\ job'[p].pc = IF cursor < EndOf(cursor) THEN "fetch" ELSE "end"
      <4>1. cursor \in 0 .. Total
        OBVIOUS
      <4> DEFINE at == AtPartition(cursor, EndOf(cursor))
      <4>2. /\ at.partition = cursor /\ at.end = EndOf(cursor)
            /\ at.pc = IF cursor < EndOf(cursor) THEN "fetch" ELSE "end"
        BY <4>1, RangeFrom
      <4> HIDE DEF at
      <4> QED
        BY <2>4, <4>2 DEF at
    <3> QED
      BY <3>1 DEF InRange
  <2>6. \A q \in Procs \ {p} : InRange(q)'
    BY <1>4 DEF StartTick, InRange
  <2> QED
    BY <1>4, <2>3, <2>5, <2>6 DEF StartTick, row, world
<1>5. ASSUME NEW p \in Procs, FetchPage(p) PROVE Typed'
  <2>1. PICK keys \in SUBSET Unseen(p) :
            job' = [job EXCEPT ![p].pc = "batch", ![p].page = keys,
                               ![p].seen = @ \cup keys, ![p].more = Unseen(p) \ keys # {}]
    BY <1>5 DEF FetchPage
  <2>2. keys \in SUBSET Domains
    BY DEF Unseen
  <2>3. job' \in [Procs -> Job]
    <3>1. (Unseen(p) \ keys # {}) \in BOOLEAN
      OBVIOUS
    <3> DEFINE more == Unseen(p) \ keys # {}
    <3>2. job' = [job EXCEPT ![p] = [job[p] EXCEPT !.pc = "batch", !.page = keys,
                                         !.seen = job[p].seen \cup keys, !.more = more]]
      BY <2>1
    <3>3. more \in BOOLEAN
      BY <3>1
    <3> HIDE DEF more
    <3>4. [job[p] EXCEPT !.pc = "batch", !.page = keys,
                         !.seen = job[p].seen \cup keys, !.more = more] \in Job
      BY <2>2, <3>3 DEF Job
    <3> QED
      BY <3>2, <3>4
  <2>4. \A q \in Procs : InRange(q)'
    BY <1>5, <2>1 DEF FetchPage, InRange, Job
  <2> QED
    BY <1>5, <2>3, <2>4 DEF FetchPage, row, world
<1>6. ASSUME NEW p \in Procs, ProcessBatch(p) PROVE Typed'
  <2>1. PICK slice \in (SUBSET job[p].page) \ {{}} :
            /\ dns' = dns \cup (slice \ Nameless)
            /\ job' = [job EXCEPT ![p].page = @ \ slice]
    BY <1>6, BatchInserts DEF Typed, TypeOK
  <2>2. slice \in SUBSET Domains
    BY DEF Job
  <2>3. job' \in [Procs -> Job]
    BY <2>1 DEF Job
  <2>4. \A q \in Procs : InRange(q)'
    BY <1>6, <2>1 DEF InRange, Job
  <2> QED
    BY <1>6, <2>1, <2>2, <2>3, <2>4 DEF ProcessBatch, row, world
<1>7. ASSUME NEW p \in Procs, PageDone(p) PROVE Typed'
  <2>1. job' \in [Procs -> Job] /\ \A q \in Procs : InRange(q)'
    BY <1>7 DEF PageDone, Job, InRange
  <2> QED
    BY <1>7, <2>1 DEF PageDone, row, world
<1>8. ASSUME NEW p \in Procs, FindRow(p) PROVE Typed'
  <2>1. job' \in [Procs -> Job]
    <3>1. [job[p] EXCEPT !.pc = "save", !.isMigrated = done] \in Job
      BY DEF Job
    <3>2. job' = [job EXCEPT ![p] = [job[p] EXCEPT !.pc = "save", !.isMigrated = done]]
      BY <1>8 DEF FindRow
    <3> QED
      BY <3>1, <3>2
  <2>2. \A q \in Procs : InRange(q)'
    BY <1>8 DEF FindRow, Job, InRange
  <2> QED
    BY <1>8, <2>1, <2>2 DEF FindRow, row, world
<1>9. ASSUME NEW p \in Procs, SaveCursor(p) PROVE Typed'
  <2>1. /\ job[p] \in Job
        /\ job[p].partition < job[p].end
        /\ job[p].partition \in 0 .. Total /\ job[p].end \in 0 .. Total
        /\ job[p].isMigrated \in BOOLEAN
    BY <1>9 DEF SaveCursor, InRange, Job
  <2>2. job[p].partition + 1 \in 0 .. Total
    BY <2>1 DEF BackfillAssumption
  <2>3. job'[p] = AtPartition(job[p].partition + 1, job[p].end)
    BY <1>9 DEF SaveCursor
  <2>4. AtPartition(job[p].partition + 1, job[p].end) \in Job
    BY <2>1, <2>2, AtPartitionType
  <2>5. job' \in [Procs -> Job]
    BY <1>9, <2>4 DEF SaveCursor
  <2>6. InRange(p)'
    <3>1. /\ job'[p].partition = job[p].partition + 1 /\ job'[p].end = job[p].end
          /\ job'[p].pc = IF job[p].partition + 1 < job[p].end THEN "fetch" ELSE "end"
      <4> DEFINE at == AtPartition(job[p].partition + 1, job[p].end)
      <4>1. /\ at.partition = job[p].partition + 1 /\ at.end = job[p].end
            /\ at.pc = IF job[p].partition + 1 < job[p].end THEN "fetch" ELSE "end"
        BY <2>1, <2>2, AtPartitionType
      <4> HIDE DEF at
      <4> QED
        BY <2>3, <4>1 DEF at
    <3> QED
      BY <3>1 DEF InRange
  <2>7. \A q \in Procs \ {p} : InRange(q)'
    BY <1>9 DEF SaveCursor, InRange
  <2> QED
    BY <1>9, <2>1, <2>2, <2>5, <2>6, <2>7 DEF SaveCursor, world
<1>10. ASSUME NEW p \in Procs, EndTick(p) PROVE Typed'
  <2>1. job' \in [Procs -> Job]
    BY <1>10, IdleType DEF EndTick
  <2>2. \A q \in Procs : InRange(q)'
    BY <1>10 DEF EndTick, InRange, Idle
  <2>3. cursor' \in 0 .. Total /\ done' \in BOOLEAN
    <3>1. CASE job[p].partition = Total
      BY <1>10, <3>1 DEF EndTick, BackfillAssumption
    <3>2. CASE job[p].partition # Total
      BY <1>10, <3>2 DEF EndTick, row
    <3> QED
      BY <3>1, <3>2
  <2> QED
    BY <1>10, <2>1, <2>2, <2>3 DEF EndTick, world
<1>11. ASSUME NEW p \in Procs, Throws(p) PROVE Typed'
  <2>1. Breaks(p) \in Job /\ Breaks(p).pc \in {"idle", "end"}
    BY BreaksType
  <2>2. job' = [job EXCEPT ![p] = Breaks(p)]
    BY <1>11 DEF Throws, Breaks
  <2>3. job' \in [Procs -> Job] /\ \A q \in Procs : InRange(q)'
    BY <2>1, <2>2 DEF InRange
  <2> QED
    BY <1>11, <2>3 DEF Throws, world, row
<1>12. ASSUME NEW p \in Procs, Crash(p) PROVE Typed'
  <2>1. job' \in [Procs -> Job]
    BY <1>12, IdleType DEF Crash
  <2>2. \A q \in Procs : InRange(q)'
    BY <1>12 DEF Crash, InRange, Idle
  <2> QED
    BY <1>12, <2>1, <2>2 DEF Crash, world, row
<1>13. CASE UNCHANGED vars
  BY <1>13 DEF vars, world, row, InRange
<1> QED
  BY <1>1, <1>2, <1>3, <1>4, <1>5, <1>6, <1>7, <1>8, <1>9, <1>10, <1>11, <1>12, <1>13
     DEF Next, World, Process

(***************************************************************************)
(* Every state is well typed: no cursor beyond the last partition, no tick *)
(* outside its range.                                                      *)
(***************************************************************************)
THEOREM TypeCorrect == Spec => []TypeOK
<1>1. Init => Typed
  BY TypedInit, BackfillAssumption
<1>2. Typed /\ [Next]_vars => Typed'
  BY TypedNext, BackfillAssumption
<1>3. Typed => TypeOK
  BY DEF Typed
<1> QED
  BY <1>1, <1>2, <1>3, PTL DEF Spec

LEMMA AlwaysTyped == Spec => []Typed
<1>1. Init => Typed
  BY TypedInit, BackfillAssumption
<1>2. Typed /\ [Next]_vars => Typed'
  BY TypedNext, BackfillAssumption
<1> QED
  BY <1>1, <1>2, PTL DEF Spec

-----------------------------------------------------------------------------
(* A step of the world or of another tick: owed domains stay put, rows stay. *)
Keeps ==
    /\ Due' \subseteq Due
    /\ \A d \in Due' : owner'[d] = owner[d]
    /\ dns \subseteq dns'

LEMMA StepKeeps ==
    ASSUME BackfillAssumption, Typed, [Next]_vars
    PROVE  Keeps
<1> USE DEF Keeps, Due, Registered
<1>1. ASSUME NEW d \in Domains, Register(d) PROVE Keeps
  BY <1>1 DEF Register, Typed, TypeOK, Registered
<1>2. ASSUME NEW d \in Domains, Transfer(d) PROVE Keeps
  BY <1>2 DEF Transfer, Typed, TypeOK
<1>3. ASSUME NEW d \in Domains, RegisterJobInserts(d) PROVE Keeps
  BY <1>3 DEF RegisterJobInserts, world
<1>4. ASSUME NEW p \in Procs, Process(p) \/ Throws(p) \/ Crash(p) PROVE Keeps
  <2>1. UNCHANGED world
    BY <1>4 DEF Process, Throws, Crash, StartTick, FetchPage, ProcessBatch, PageDone, FindRow,
                SaveCursor, EndTick
  <2>2. dns \subseteq dns'
    BY <1>4 DEF Process, Throws, Crash, StartTick, FetchPage, ProcessBatch, PageDone, FindRow,
                SaveCursor, EndTick
  <2> QED
    BY <2>1, <2>2 DEF world
<1>5. CASE UNCHANGED vars
  BY <1>5 DEF vars, world
<1> QED
  BY <1>1, <1>2, <1>3, <1>4, <1>5 DEF Next, World

(* What was inserted below a partition stays so. *)
LEMMA SweptStays ==
    ASSUME Keeps, NEW CONSTANT b, SweptBelow(b)
    PROVE  SweptBelow(b)'
  BY DEF Keeps, SweptBelow

(* A tick that does not move keeps its invariant. *)
LEMMA TickInvStays ==
    ASSUME Keeps, NEW CONSTANT p, TickInv(p), job'[p] = job[p]
    PROVE  TickInv(p)'
  BY DEF Keeps, TickInv, SweptBelow, SeenAll

LEMMA InvInit == Init => BackfillInv
  BY DEF Init, BackfillInv, TickInv, SweptBelow, SeenAll, CompleteCovers, Due, Idle

(***************************************************************************)
(* The tick p may change its job only; what it owes about its new position *)
(* is all there is to show for its own step.                               *)
(***************************************************************************)
LEMMA OwnStep ==
    ASSUME Keeps, BackfillInv, NEW p \in Procs,
           \A q \in Procs \ {p} : job'[q] = job[q],
           TickInv(p)', SweptBelow(cursor)', CompleteCovers'
    PROVE  BackfillInv'
<1>1. \A q \in Procs \ {p} : TickInv(q)'
  <2> TAKE q \in Procs \ {p}
  <2>1. TickInv(q) /\ job'[q] = job[q]
    BY DEF BackfillInv
  <2> QED
    BY <2>1, TickInvStays
<1> QED
  BY <1>1 DEF BackfillInv

(* While the row stands still, what it says stays true. *)
LEMMA RowStays ==
    ASSUME Keeps, BackfillInv, UNCHANGED row
    PROVE  SweptBelow(cursor)' /\ CompleteCovers'
  BY DEF Keeps, BackfillInv, SweptBelow, CompleteCovers, row

LEMMA InvWorld ==
    ASSUME Keeps, BackfillInv, UNCHANGED <<row, job>>
    PROVE  BackfillInv'
<1>1. \A p \in Procs : TickInv(p)'
  <2> TAKE p \in Procs
  <2>1. TickInv(p) /\ job'[p] = job[p]
    BY DEF BackfillInv
  <2> QED
    BY <2>1, TickInvStays
<1> QED
  BY <1>1, RowStays DEF BackfillInv

(* A tick that starts at, or moves on to, a partition with everything below swept. *)
LEMMA TickInvAt ==
    ASSUME BackfillAssumption, Keeps, NEW p \in Procs, NEW b \in 0 .. Total, NEW end \in 0 .. Total,
           b <= end, SweptBelow(b), job'[p] = AtPartition(b, end)
    PROVE  TickInv(p)'
<1>1. SweptBelow(b)'
  BY SweptStays
<1>2. /\ job'[p].partition = b /\ job'[p].end = end
      /\ job'[p].seen = {} /\ job'[p].page = {}
      /\ job'[p].more = FALSE /\ job'[p].isMigrated = FALSE
      /\ job'[p].pc = IF b < end THEN "fetch" ELSE "end"
  BY DEF AtPartition, Idle
<1>3. SweptBelow(job[p].partition)'
  BY <1>1, <1>2 DEF SweptBelow
<1>4. job'[p].pc \in {"fetch", "end"}
  BY <1>2
<1>5. job'[p].pc = "fetch" => b < end
  BY <1>2
<1>6. job'[p].pc = "end" => b = end
  BY <1>2
<1> QED
  BY <1>2, <1>3, <1>4, <1>5, <1>6 DEF TickInv

LEMMA TickInvIdle ==
    ASSUME BackfillAssumption, Typed', NEW p \in Procs, job'[p] = Idle
    PROVE  TickInv(p)'
<1>1. \A d \in Domains : owner'[d] \in 0 .. Total
  BY DEF Typed, TypeOK
<1>2. SweptBelow(0)'
  BY <1>1 DEF SweptBelow, Due, BackfillAssumption
<1> QED
  BY <1>2 DEF TickInv, Idle, SweptBelow, SeenAll

LEMMA InvNext ==
    ASSUME BackfillAssumption, Typed, Typed', BackfillInv, [Next]_vars
    PROVE  BackfillInv'
<1> Keeps
  BY StepKeeps
<1>1. ASSUME NEW d \in Domains, World(d) PROVE BackfillInv'
  BY <1>1, InvWorld DEF World, Register, Transfer, RegisterJobInserts
<1>2. ASSUME NEW p \in Procs, StartTick(p) PROVE BackfillInv'
  <2>1. cursor \in 0 .. Total /\ EndOf(cursor) \in 0 .. Total /\ cursor <= EndOf(cursor)
    BY EndOfType DEF Typed, TypeOK
  <2>2. job'[p] = AtPartition(cursor, EndOf(cursor)) /\ UNCHANGED row
        /\ \A q \in Procs \ {p} : job'[q] = job[q]
    BY <1>2 DEF StartTick, Typed, TypeOK
  <2>3. SweptBelow(cursor)
    BY DEF BackfillInv
  <2>4. TickInv(p)'
    BY <2>1, <2>2, <2>3, TickInvAt
  <2> QED
    BY <2>2, <2>4, RowStays, OwnStep
<1>3. ASSUME NEW p \in Procs, FetchPage(p) PROVE BackfillInv'
  <2>1. PICK keys \in SUBSET Unseen(p) :
            job' = [job EXCEPT ![p].pc = "batch", ![p].page = keys,
                               ![p].seen = @ \cup keys, ![p].more = Unseen(p) \ keys # {}]
    BY <1>3 DEF FetchPage
  <2>2. job[p] \in Job /\ job[p].pc = "fetch" /\ TickInv(p) /\ UNCHANGED <<world, dns, row>>
        /\ \A q \in Procs \ {p} : job'[q] = job[q]
    BY <1>3, <2>1 DEF FetchPage, Typed, TypeOK, BackfillInv
  <2>3. /\ job'[p].pc = "batch" /\ job'[p].page = keys
        /\ job'[p].seen = job[p].seen \cup keys
        /\ job'[p].partition = job[p].partition /\ job'[p].end = job[p].end
        /\ job'[p].isMigrated = job[p].isMigrated
        /\ ~job'[p].more => Unseen(p) \ keys = {}
    BY <2>1, <2>2 DEF Job, Typed, TypeOK
  <2>4. Due' = Due /\ owner' = owner /\ dns' = dns
    BY <2>2 DEF Due, Registered, world
  <2>5. ~job'[p].more => SeenAll(p)'
    BY <2>3, <2>4 DEF SeenAll, Unseen, Due
  <2>6. TickInv(p)'
    BY <2>2, <2>3, <2>4, <2>5 DEF TickInv, SweptBelow
  <2> QED
    BY <2>2, <2>6, RowStays, OwnStep
<1>4. ASSUME NEW p \in Procs, ProcessBatch(p) PROVE BackfillInv'
  <2>1. PICK slice \in (SUBSET job[p].page) \ {{}} :
            /\ dns' = dns \cup (slice \ Nameless)
            /\ job' = [job EXCEPT ![p].page = @ \ slice]
    BY <1>4, BatchInserts DEF Typed, TypeOK
  <2>2. job[p] \in Job /\ job[p].pc = "batch" /\ TickInv(p) /\ UNCHANGED <<world, row>>
        /\ \A q \in Procs \ {p} : job'[q] = job[q]
    BY <1>4, <2>1 DEF ProcessBatch, Typed, TypeOK, BackfillInv
  <2>3. job'[p] = [job[p] EXCEPT !.page = job[p].page \ slice]
    BY <2>1 DEF Typed, TypeOK
  <2>4. /\ job'[p].pc = "batch" /\ job'[p].page = job[p].page \ slice
        /\ job'[p].seen = job[p].seen /\ job'[p].more = job[p].more
        /\ job'[p].partition = job[p].partition /\ job'[p].end = job[p].end
        /\ job'[p].isMigrated = job[p].isMigrated
    BY <2>2, <2>3 DEF Job
  <2>5. Due' = Due /\ owner' = owner
    BY <2>2 DEF Due, Registered, world
  <2>6. \A d \in Due' : d \in job'[p].seen \ job'[p].page => d \in dns'
    BY <2>1, <2>2, <2>4, <2>5 DEF TickInv, Due
  <2>7. ~job'[p].more => SeenAll(p)'
    BY <2>2, <2>4, <2>5 DEF SeenAll, TickInv
  <2>8. TickInv(p)'
    BY <2>1, <2>2, <2>4, <2>5, <2>6, <2>7 DEF TickInv, SweptBelow
  <2> QED
    BY <2>2, <2>8, RowStays, OwnStep
<1>5. ASSUME NEW p \in Procs, PageDone(p) PROVE BackfillInv'
  <2>1. job[p] \in Job /\ job[p].pc = "batch" /\ TickInv(p) /\ UNCHANGED <<world, dns, row>>
        /\ job[p].page = {} /\ \A q \in Procs \ {p} : job'[q] = job[q]
    BY <1>5 DEF PageDone, Typed, TypeOK, BackfillInv
  <2>2. /\ job'[p].pc = IF job[p].more THEN "fetch" ELSE "find"
        /\ job'[p].page = {} /\ job'[p].seen = job[p].seen
        /\ job'[p].partition = job[p].partition /\ job'[p].end = job[p].end
        /\ job'[p].isMigrated = job[p].isMigrated
    BY <1>5, <2>1 DEF PageDone, Job, Typed, TypeOK
  <2>3. Due' = Due /\ owner' = owner /\ dns' = dns
    BY <2>1 DEF Due, Registered, world
  <2>4. job'[p].pc \in {"find", "save"} => SweptBelow(job[p].partition + 1)
    <3> HAVE job'[p].pc \in {"find", "save"}
    <3>1. ~job[p].more
      BY <2>2
    <3>2. SeenAll(p)
      BY <2>1, <3>1 DEF TickInv
    <3>3. \A d \in Due : owner[d] = job[p].partition => d \in dns
      BY <2>1, <3>2 DEF TickInv, SeenAll
    <3>4. \A d \in Due : owner[d] < job[p].partition => d \in dns
      BY <2>1 DEF TickInv, SweptBelow
    <3>5. \A d \in Domains : owner[d] \in Int
      BY DEF Typed, TypeOK, BackfillAssumption
    <3>6. job[p].partition \in Int
      BY <2>1 DEF Job, BackfillAssumption
    <3> QED
      BY <3>3, <3>4, <3>5, <3>6 DEF SweptBelow, Due
  <2>5. job'[p].pc \in {"fetch", "find"}
    BY <2>2
  <2>6. TickInv(p)'
    BY <2>1, <2>2, <2>3, <2>4, <2>5 DEF TickInv, SweptBelow
  <2> QED
    BY <2>1, <2>6, RowStays, OwnStep
<1>6. ASSUME NEW p \in Procs, FindRow(p) PROVE BackfillInv'
  <2>1. job[p] \in Job /\ job[p].pc = "find" /\ TickInv(p) /\ UNCHANGED <<world, dns, row>>
        /\ \A q \in Procs \ {p} : job'[q] = job[q]
    BY <1>6 DEF FindRow, Typed, TypeOK, BackfillInv
  <2>2. /\ job'[p].pc = "save" /\ job'[p].isMigrated = done
        /\ job'[p].page = job[p].page /\ job'[p].seen = job[p].seen
        /\ job'[p].partition = job[p].partition /\ job'[p].end = job[p].end
    BY <1>6, <2>1 DEF FindRow, Job, Typed, TypeOK
  <2>3. Due' = Due /\ owner' = owner /\ dns' = dns
    BY <2>1 DEF Due, Registered, world
  <2>4. done => Due \subseteq dns
    BY DEF BackfillInv, CompleteCovers
  <2>5. TickInv(p)'
    BY <2>1, <2>2, <2>3, <2>4 DEF TickInv, SweptBelow
  <2> QED
    BY <2>1, <2>5, RowStays, OwnStep
<1>7. ASSUME NEW p \in Procs, SaveCursor(p) PROVE BackfillInv'
  <2>1. job[p] \in Job /\ job[p].pc = "save" /\ TickInv(p) /\ UNCHANGED <<world, dns>>
        /\ cursor' = job[p].partition + 1 /\ done' = job[p].isMigrated
        /\ job'[p] = AtPartition(job[p].partition + 1, job[p].end)
        /\ \A q \in Procs \ {p} : job'[q] = job[q]
    BY <1>7 DEF SaveCursor, Typed, TypeOK, BackfillInv
  <2>2. job[p].partition \in 0 .. Total /\ job[p].end \in 0 .. Total
        /\ job[p].partition < job[p].end
    BY <2>1 DEF Job, Typed, InRange
  <2>3. job[p].partition + 1 \in 0 .. Total /\ job[p].partition + 1 <= job[p].end
    BY <2>2 DEF BackfillAssumption
  <2>4. SweptBelow(job[p].partition + 1)
    BY <2>1 DEF TickInv
  <2>5. TickInv(p)'
    BY <2>1, <2>2, <2>3, <2>4, TickInvAt
  <2>6. Due' = Due /\ owner' = owner /\ dns' = dns
    BY <2>1 DEF Due, Registered, world
  <2>7. SweptBelow(cursor)'
    BY <2>1, <2>4, <2>6 DEF SweptBelow
  <2>8. CompleteCovers'
    BY <2>1, <2>6 DEF TickInv, CompleteCovers
  <2> QED
    BY <2>1, <2>5, <2>7, <2>8, OwnStep
<1>8. ASSUME NEW p \in Procs, EndTick(p) PROVE BackfillInv'
  <2>1. job'[p] = Idle /\ UNCHANGED <<world, dns>> /\ TickInv(p)
        /\ \A q \in Procs \ {p} : job'[q] = job[q]
    BY <1>8 DEF EndTick, Typed, TypeOK, BackfillInv
  <2>2. TickInv(p)'
    BY <2>1, TickInvIdle
  <2>3. CASE job[p].partition = Total
    <3>1. cursor' = Total /\ done' = TRUE
      BY <1>8, <2>3 DEF EndTick
    <3>2. SweptBelow(Total)
      BY <2>1, <2>3 DEF TickInv
    <3>3. Due' = Due /\ owner' = owner /\ dns' = dns
      BY <2>1 DEF Due, Registered, world
    <3>4. SweptBelow(cursor)'
      BY <3>1, <3>2, <3>3 DEF SweptBelow
    <3>5. \A d \in Due : owner[d] < Total
      BY DEF Due, Registered, Typed, TypeOK, BackfillAssumption
    <3>6. CompleteCovers'
      BY <3>2, <3>3, <3>5 DEF SweptBelow, CompleteCovers
    <3> QED
      BY <2>1, <2>2, <3>4, <3>6, OwnStep
  <2>4. CASE job[p].partition # Total
    <3>1. UNCHANGED row
      BY <1>8, <2>4 DEF EndTick
    <3> QED
      BY <2>1, <2>2, <3>1, RowStays, OwnStep
  <2> QED
    BY <2>3, <2>4
<1>9. ASSUME NEW p \in Procs, Throws(p) PROVE BackfillInv'
  <2>1. /\ job' = [job EXCEPT ![p] = Breaks(p)] /\ UNCHANGED <<world, dns, row>>
        /\ job[p] \in Job /\ TickInv(p)
    BY <1>9 DEF Throws, Breaks, Typed, TypeOK, BackfillInv
  <2>2. job'[p] = Breaks(p) /\ \A q \in Procs \ {p} : job'[q] = job[q]
    BY <2>1 DEF Typed, TypeOK
  <2>3. CASE Breaks(p) = Idle
    BY <2>1, <2>2, <2>3, TickInvIdle, RowStays, OwnStep
  <2>4. CASE Breaks(p) # Idle
    <3>1. /\ job[p].pc \in {"find", "save"} /\ job[p].partition + 1 = Total
          /\ job'[p] = AtPartition(Total, Total)
      BY <2>2, <2>4, BreaksType
    <3>2. SweptBelow(Total)
      BY <2>1, <3>1 DEF TickInv
    <3>3. Total \in 0 .. Total /\ Total <= Total
      BY DEF BackfillAssumption
    <3>4. TickInv(p)'
      BY <3>1, <3>2, <3>3, TickInvAt
    <3> QED
      BY <2>1, <2>2, <3>4, RowStays, OwnStep
  <2> QED
    BY <2>3, <2>4
<1>10. ASSUME NEW p \in Procs, Crash(p) PROVE BackfillInv'
  <2>1. job'[p] = Idle /\ UNCHANGED row /\ \A q \in Procs \ {p} : job'[q] = job[q]
    BY <1>10 DEF Crash, Typed, TypeOK
  <2> QED
    BY <2>1, TickInvIdle, RowStays, OwnStep
<1>11. CASE UNCHANGED vars
  BY <1>11, InvWorld DEF vars
<1> QED
  BY <1>1, <1>2, <1>3, <1>4, <1>5, <1>6, <1>7, <1>8, <1>9, <1>10, <1>11 DEF Next, Process

(***************************************************************************)
(* The invariant of the sweep holds for any number of processes, whatever  *)
(* fails or crashes, and whatever domains are registered or change hands.  *)
(***************************************************************************)
THEOREM BackfillCorrect == Spec => []BackfillInv
<1>1. Typed /\ Typed' /\ BackfillInv /\ [Next]_vars => BackfillInv'
  BY InvNext, BackfillAssumption
<1> QED
  BY InvInit, AlwaysTyped, <1>1, PTL DEF Spec

(***************************************************************************)
(* isMigrated is set only when every domain that had a name all along and  *)
(* kept its owner has a dns row.                                           *)
(***************************************************************************)
THEOREM CompletionCovers == Spec => []CompleteCovers
<1>1. BackfillInv => CompleteCovers
  BY DEF BackfillInv
<1> QED
  BY BackfillCorrect, <1>1, PTL

-----------------------------------------------------------------------------
(***************************************************************************)
(* Refinement.                                                             *)
(***************************************************************************)
LEMMA PromiseInit == Init => Promise!Init
  BY DEF Init, Promise!Init, Due, Holders, Idle

(* A tick that is not about to save, before its step or after it, changes no holder. *)
LEMMA HoldersStay ==
    ASSUME NEW p \in Procs, \A q \in Procs \ {p} : job'[q] = job[q],
           p \in Holders <=> (job'[p].pc = "save" /\ ~job'[p].isMigrated)
    PROVE  Holders' = Holders
  BY DEF Holders

(* One that was leaves them. *)
LEMMA HolderLeaves ==
    ASSUME NEW p \in Procs, \A q \in Procs \ {p} : job'[q] = job[q], job'[p].pc # "save"
    PROVE  Holders' = Holders \ {p}
  BY DEF Holders

LEMMA PromiseNext ==
    ASSUME BackfillAssumption, Typed, BackfillInv, [Next]_vars
    PROVE  [Promise!Next]_Promise!vars
<1> USE DEF Promise!Next, Promise!vars
<1>j. job \in [Procs -> Job]
  BY DEF Typed, TypeOK
<1>1. ASSUME NEW d \in Domains, Register(d) PROVE UNCHANGED Promise!vars
  BY <1>1 DEF Register, Due, Registered, Typed, TypeOK, row, Holders
<1>2. ASSUME NEW d \in Domains, Transfer(d) PROVE [Promise!Next]_Promise!vars
  <2>1. UNCHANGED <<dns, done, Holders>>
    BY <1>2 DEF Transfer, row, Holders
  <2>2. Due' = Due \ {d}
    BY <1>2 DEF Transfer, Due, Registered, Typed, TypeOK, Partitions, BackfillAssumption
  <2>3. CASE d \in Due
    BY <2>1, <2>2, <2>3 DEF Promise!Excuse
  <2>4. CASE d \notin Due
    BY <2>1, <2>2, <2>4
  <2> QED
    BY <2>3, <2>4
<1>3. ASSUME NEW d \in Domains, RegisterJobInserts(d) PROVE Promise!Find
  <2>1. Due' = Due /\ Holders' = Holders
    BY <1>3 DEF RegisterJobInserts, world, Due, Registered, Holders
  <2> QED
    BY <1>3, <2>1 DEF RegisterJobInserts, Promise!Find, row
<1>4. ASSUME NEW p \in Procs, UNCHANGED world PROVE Due' = Due
  BY <1>4 DEF world, Due, Registered
<1>5. ASSUME NEW p \in Procs, StartTick(p) \/ FetchPage(p) \/ PageDone(p)
      PROVE UNCHANGED Promise!vars
  <2>1. Due' = Due /\ UNCHANGED <<dns, done>>
    BY <1>4, <1>5 DEF StartTick, FetchPage, PageDone, row
  <2>2. /\ \A q \in Procs \ {p} : job'[q] = job[q]
        /\ job[p].pc # "save" /\ job'[p].pc # "save"
    <3>1. CASE StartTick(p)
      BY <1>j, <3>1 DEF StartTick, AtPartition, Idle
    <3>2. CASE FetchPage(p)
      BY <1>j, <3>2 DEF FetchPage, Job
    <3>3. CASE PageDone(p)
      BY <1>j, <3>3 DEF PageDone, Job
    <3> QED
      BY <1>5, <3>1, <3>2, <3>3
  <2>3. Holders' = Holders
    BY <2>2, HoldersStay DEF Holders
  <2> QED
    BY <2>1, <2>3
<1>6. ASSUME NEW p \in Procs, FindRow(p) PROVE [Promise!Next]_Promise!vars
  <2>1. Due' = Due /\ UNCHANGED <<dns, done>>
    BY <1>4, <1>6 DEF FindRow, row
  <2>2. /\ job[p].pc = "find" /\ job'[p].pc = "save" /\ job'[p].isMigrated = done
        /\ \A q \in Procs \ {p} : job'[q] = job[q]
    BY <1>j, <1>6 DEF FindRow, Job
  <2>3. CASE done
    BY <2>1, <2>2, <2>3, HoldersStay DEF Holders
  <2>4. CASE ~done
    <3>1. Holders' = Holders \cup {p}
      BY <2>2, <2>4 DEF Holders
    <3> QED
      BY <2>1, <2>4, <3>1 DEF Promise!Hold
  <2> QED
    BY <2>3, <2>4
<1>7. ASSUME NEW p \in Procs, Throws(p) \/ Crash(p) PROVE [Promise!Next]_Promise!vars
  <2>1. Due' = Due /\ UNCHANGED <<dns, done>>
    BY <1>4, <1>7 DEF Throws, Crash, row
  <2>2. job'[p].pc # "save" /\ \A q \in Procs \ {p} : job'[q] = job[q]
    <3>1. CASE Throws(p)
      <4>1. job' = [job EXCEPT ![p] = Breaks(p)] /\ Breaks(p).pc \in {"idle", "end"}
        BY <3>1, BreaksType DEF Throws, Breaks
      <4> QED
        BY <1>j, <4>1
    <3>2. CASE Crash(p)
      BY <1>j, <3>2 DEF Crash, Idle
    <3> QED
      BY <1>7, <3>1, <3>2
  <2>3. Holders' = Holders \ {p}
    BY <2>2, HolderLeaves
  <2> QED
    BY <2>1, <2>3 DEF Promise!Drop
<1>8. ASSUME NEW p \in Procs, ProcessBatch(p) PROVE Promise!Find
  <2>1. PICK slice \in (SUBSET job[p].page) \ {{}} :
            /\ dns' = dns \cup (slice \ Nameless)
            /\ job' = [job EXCEPT ![p].page = @ \ slice]
    BY <1>8, BatchInserts DEF Typed, TypeOK
  <2>2. slice \ Nameless \in SUBSET Domains
    BY <2>1 DEF Typed, TypeOK, Job
  <2>3. Due' = Due /\ done' = done
    BY <1>4, <1>8 DEF ProcessBatch, row
  <2>4. /\ job[p].pc = "batch" /\ job'[p].pc = "batch"
        /\ \A q \in Procs \ {p} : job'[q] = job[q]
    BY <1>j, <1>8, <2>1 DEF ProcessBatch, Job
  <2>5. Holders' = Holders
    BY <2>4, HoldersStay DEF Holders
  <2> QED
    BY <2>1, <2>2, <2>3, <2>5 DEF Promise!Find
<1>9. ASSUME NEW p \in Procs, SaveCursor(p) PROVE [Promise!Next]_Promise!vars
  <2>1. Due' = Due /\ dns' = dns /\ done' = job[p].isMigrated
    BY <1>4, <1>9 DEF SaveCursor
  <2>2. job[p].isMigrated \in BOOLEAN /\ TickInv(p) /\ job[p].pc = "save"
    BY <1>9 DEF Typed, TypeOK, Job, BackfillInv, SaveCursor
  <2>3. job'[p].pc # "save" /\ \A q \in Procs \ {p} : job'[q] = job[q]
    BY <1>j, <1>9 DEF SaveCursor, AtPartition, Idle
  <2>4. Holders' = Holders \ {p}
    BY <2>3, HolderLeaves
  <2>5. CASE job[p].isMigrated = TRUE
    <3>1. p \notin Holders
      BY <2>5 DEF Holders
    <3>2. Due \subseteq dns
      BY <2>2, <2>5 DEF TickInv
    <3> QED
      BY <2>1, <2>4, <2>5, <3>1, <3>2 DEF Promise!Close
  <2>6. CASE job[p].isMigrated = FALSE
    <3>1. p \in Holders
      BY <2>2, <2>6 DEF Holders
    <3> QED
      BY <2>1, <2>4, <2>6, <3>1 DEF Promise!Reopen
  <2> QED
    BY <2>2, <2>5, <2>6
<1>10. ASSUME NEW p \in Procs, EndTick(p) PROVE [Promise!Next]_Promise!vars
  <2>1. Due' = Due /\ dns' = dns /\ TickInv(p)
    BY <1>4, <1>10 DEF EndTick, BackfillInv
  <2>2. /\ job[p].pc # "save" /\ job'[p].pc # "save"
        /\ \A q \in Procs \ {p} : job'[q] = job[q]
    BY <1>j, <1>10 DEF EndTick, Idle
  <2>3. Holders' = Holders
    BY <2>2, HoldersStay DEF Holders
  <2>4. CASE job[p].partition = Total
    <3>1. \A d \in Due : owner[d] < Total
      BY DEF Due, Registered, Typed, TypeOK, BackfillAssumption
    <3>2. Due \subseteq dns
      BY <2>1, <2>4, <3>1 DEF TickInv, SweptBelow
    <3> QED
      BY <1>10, <2>1, <2>3, <2>4, <3>2 DEF EndTick, Promise!Close
  <2>5. CASE job[p].partition # Total
    BY <1>10, <2>1, <2>3, <2>5 DEF EndTick, row
  <2> QED
    BY <2>4, <2>5
<1>11. CASE UNCHANGED vars
  BY <1>11 DEF vars, world, row, Due, Registered, Holders
<1> QED
  BY <1>1, <1>2, <1>3, <1>5, <1>6, <1>7, <1>8, <1>9, <1>10, <1>11 DEF Next, World, Process

(***************************************************************************)
(* The backfill job implements DomainSweep: for any number of processes    *)
(* and partitions the sweep is marked complete only when it has covered    *)
(* what it owes, and reopened only by a cursor save of a process that had  *)
(* found the row open, whatever fails in between.                          *)
(***************************************************************************)
THEOREM Implements == Spec => KeepsPromise
<1>1. Typed /\ BackfillInv /\ [Next]_vars => [Promise!Next]_Promise!vars
  BY PromiseNext, BackfillAssumption
<1> QED
  BY PromiseInit, AlwaysTyped, BackfillCorrect, <1>1, PTL DEF Spec, KeepsPromise, Promise!Spec

=============================================================================
