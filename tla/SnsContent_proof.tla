-------------------------- MODULE SnsContent_proof --------------------------
(***************************************************************************)
(* The content pipeline is type correct, no domain is given content its    *)
(* own records never had, and what hangs on a row follows it as long as    *)
(* the row is not put back: for any number of domains, workers,            *)
(* transactions and faults.                                                *)
(***************************************************************************)
EXTENDS SnsContent, SequenceTheorems, TLAPS

-----------------------------------------------------------------------------
(***************************************************************************)
(* Types.  A task under way has a domain to work on, and a writer's task a *)
(* signature.                                                              *)
(***************************************************************************)
Busy(w) ==
    task[w].pc # "free" =>
        /\ task[w].domains # <<>>
        /\ w \in Writers => task[w].sig \in Slots

Typed == TypeOK /\ \A w \in Workers : Busy(w)

Pcs == {"free", "load", "resolve", "find", "leave", "elect", "tear", "save", "audit", "sync",
        "fill"}
Marks == Untouched .. Restored

Task == [pc : Pcs, sig : 0 .. Len(writes), domains : Seq(Domains), row : Row, result : Content,
         group : Group, copies : [Domains -> Row]]

LEMMA SkeletonType == ConstantsAssumption => Skeleton \in Row /\ Skeleton.content = None
  BY DEF Skeleton, Row, Content, ConstantsAssumption

LEMMA NothingRead ==
    ASSUME ConstantsAssumption
    PROVE  NoGroup \in Group /\ NoCopies \in [Domains -> Row]
  BY SkeletonType DEF NoGroup, Group, NoCopies

LEMMA MarksType == Marks = {Untouched, Adrift, Reverted, Restored}
  BY DEF Marks, Untouched, Adrift, Reverted, Restored

LEMMA WorstType ==
    ASSUME NEW how \in Marks, NEW before \in Marks
    PROVE  /\ Worst(how, before) \in Marks
           /\ Worst(how, before) >= how /\ Worst(how, before) >= before
  BY DEF Worst, Marks, Untouched, Restored

LEMMA FreeType ==
    ASSUME ConstantsAssumption, writes \in Seq(Names)
    PROVE  FreeTask \in Task /\ FreeTask.pc = "free"
<1>1. Len(writes) \in Nat
  OBVIOUS
<1>2. <<>> \in Seq(Domains)
  OBVIOUS
<1>3. QED
  BY <1>1, <1>2, SkeletonType, NothingRead DEF FreeTask, Task, Pcs, Content

(* The task of a worker is the only one a step of the worker changes. *)
LEMMA HeadType ==
    ASSUME Typed, NEW w \in Workers, task[w].pc # "free"
    PROVE  Domain(w) \in Domains
<1>1. task[w].domains \in Seq(Domains) /\ task[w].domains # <<>>
  BY DEF Typed, TypeOK, Busy
<1>2. QED
  BY <1>1, HeadTailProperties DEF Domain

LEMMA NextDomainType ==
    ASSUME ConstantsAssumption, writes \in Seq(Names), NEW t \in Task
    PROVE  /\ NextDomain(t) \in Task
           /\ NextDomain(t).pc \in {"free", "load"}
           /\ NextDomain(t).pc = "load" =>
                 NextDomain(t).domains # <<>> /\ NextDomain(t).sig = t.sig
<1>1. CASE Len(t.domains) <= 1
  <2>1. NextDomain(t) = FreeTask
    BY <1>1 DEF NextDomain
  <2>2. QED
    BY <2>1, FreeType
<1>2. CASE ~(Len(t.domains) <= 1)
  <2>1. t.domains \in Seq(Domains)
    BY DEF Task
  <2>2. t.domains # <<>>
    BY <1>2, <2>1
  <2>3. Tail(t.domains) \in Seq(Domains) /\ Len(Tail(t.domains)) = Len(t.domains) - 1
    BY <2>1, <2>2, HeadTailProperties
  <2>4. Tail(t.domains) # <<>>
    <3> DEFINE n == Len(t.domains)
               m == Len(Tail(t.domains))
    <3>1. n \in Nat /\ n > 1 /\ m = n - 1
      BY <1>2, <2>1, <2>3
    <3> HIDE DEF n, m
    <3>2. m # 0
      BY <3>1
    <3>3. Len(<<>>) = 0
      OBVIOUS
    <3>4. QED
      BY <3>2, <3>3 DEF m
  <2>5. NextDomain(t) = [FreeTask EXCEPT !.pc = "load", !.sig = t.sig, !.domains = Tail(t.domains)]
    BY <1>2 DEF NextDomain
  <2>6. NextDomain(t) \in Task
    BY <2>3, <2>5, FreeType DEF Task, Pcs
  <2>7. /\ NextDomain(t).pc = "load" /\ NextDomain(t).sig = t.sig
        /\ NextDomain(t).domains = Tail(t.domains)
    BY <2>5 DEF FreeTask
  <2>8. QED
    BY <2>4, <2>6, <2>7
<1>3. QED
  BY <1>1, <1>2

LEMMA LeftType ==
    ASSUME ConstantsAssumption, NEW t \in Task
    PROVE  Left(t) \in Task /\ Left(t).domains = t.domains /\ Left(t).sig = t.sig
<1>1. NoGroup \in Group /\ NoCopies \in [Domains -> Row]
  BY NothingRead
<1>2. QED
  BY <1>1 DEF Left, Task, Pcs

(* What a resolution makes of a row, and of a pointer. *)
LEMMA ResolvedType ==
    ASSUME ConstantsAssumption, NEW row \in Row, NEW result \in Content
    PROVE  /\ Resolved(row, result) \in Row
           /\ Resolved(row, result).content \in {None, row.content, result}
<1>1. MaxAttempts \in Nat \ {0} /\ None \in Content
  BY DEF ConstantsAssumption, Content
<1>2. row.fails \in 0 .. MaxAttempts
  BY DEF Row
<1>3. ASSUME NEW content \in Content, NEW fails \in 0 .. MaxAttempts, NEW gaveUp \in BOOLEAN,
             NEW unseen \in BOOLEAN
      PROVE  [row EXCEPT !.content = content, !.fails = fails, !.gaveUp = gaveUp,
                         !.unseen = unseen] \in Row
  <2> DEFINE r1 == [row EXCEPT !.content = content]
             r2 == [r1 EXCEPT !.fails = fails]
             r3 == [r2 EXCEPT !.gaveUp = gaveUp]
             r4 == [r3 EXCEPT !.unseen = unseen]
  <2>1. r1 \in Row
    BY DEF Row
  <2>2. r2 \in Row
    BY <2>1 DEF Row
  <2>3. r3 \in Row
    BY <2>2 DEF Row
  <2>4. r4 \in Row
    BY <2>3 DEF Row
  <2>5. [row EXCEPT !.content = content, !.fails = fails, !.gaveUp = gaveUp, !.unseen = unseen]
           = r4
    OBVIOUS
  <2>6. QED
    BY <2>4, <2>5
<1>4. Miss(row) \in Row /\ Miss(row).content = None
  <2> DEFINE attempt == IF row.fails < MaxAttempts THEN row.fails + 1 ELSE MaxAttempts
             over == attempt >= MaxAttempts
  <2>1. attempt \in 0 .. MaxAttempts
    BY <1>1, <1>2
  <2>2. over \in BOOLEAN
    OBVIOUS
  <2>3. Miss(row) = [row EXCEPT !.content = None, !.fails = attempt, !.gaveUp = over,
                                !.unseen = FALSE]
    BY DEF Miss
  <2> HIDE DEF attempt, over
  <2>4. Miss(row) \in Row
    <3>1. /\ None \in Content /\ FALSE \in BOOLEAN
          /\ attempt \in 0 .. MaxAttempts /\ over \in BOOLEAN
      BY <1>1, <2>1, <2>2
    <3>2. [row EXCEPT !.content = None, !.fails = attempt, !.gaveUp = over, !.unseen = FALSE]
             \in Row
      BY <1>3, <3>1
    <3>3. QED
      BY <2>3, <3>2, Zenon
  <2>5. Miss(row).content = None
    BY <2>3 DEF Row
  <2>6. QED
    BY <2>4, <2>5
<1>5. HitSame(row) \in Row /\ HitSame(row).content = row.content
  <2> DEFINE r1 == [row EXCEPT !.fails = 0]
             r2 == [r1 EXCEPT !.gaveUp = FALSE]
  <2>1. 0 \in 0 .. MaxAttempts
    BY <1>1
  <2>2. r1 \in Row /\ r1.content = row.content
    BY <2>1 DEF Row
  <2>3. r2 \in Row /\ r2.content = r1.content
    BY <2>2 DEF Row
  <2>4. HitSame(row) = r2
    BY DEF HitSame
  <2>5. QED
    BY <2>2, <2>3, <2>4
<1>6. Hit(row, result) \in Row /\ Hit(row, result).content = result
  <2>1. 0 \in 0 .. MaxAttempts
    BY <1>1
  <2>2. Hit(row, result) \in Row
    BY <1>3, <2>1 DEF Hit
  <2>3. Hit(row, result).content = result
    BY DEF Hit, Row
  <2>4. QED
    BY <2>2, <2>3
<1>7. Resolved(row, result) \in {Miss(row), HitSame(row), Hit(row, result)}
  BY DEF Resolved
<1>8. QED
  BY <1>4, <1>7, <1>5, <1>6

LEMMA SyncedValue ==
    ASSUME NEW old, NEW content
    PROVE  Synced(old, content) \in {old, None, content}
  BY DEF Synced, PointerFor

(* A row is appended once. *)
LEMMA BornType ==
    ASSUME Typed, NEW d \in Domains, NEW bare, InsertSkeleton(d, bare)
    PROVE  born' \in Seq(Domains) /\ IsInjective(born')
<1>1. born \in Seq(Domains) /\ IsInjective(born)
  BY DEF Typed, TypeOK
<1>2. CASE HasRow(d)
  BY <1>1, <1>2 DEF InsertSkeleton
<1>3. CASE ~HasRow(d)
  <2>1. born' = Append(born, d)
    BY <1>3 DEF InsertSkeleton
  <2>2. /\ Len(born) \in Nat
        /\ DOMAIN born = 1 .. Len(born) /\ DOMAIN born' = 1 .. Len(born) + 1
        /\ born' \in Seq(Domains)
        /\ \A i \in 1 .. Len(born) : born'[i] = born[i]
        /\ born'[Len(born) + 1] = d
    BY <1>1, <2>1, AppendProperties
  <2>3. \A i \in 1 .. Len(born) : born[i] # d
    BY <1>3, <2>2 DEF HasRow, Range
  <2>4. ASSUME NEW i \in DOMAIN born', NEW k \in DOMAIN born', born'[i] = born'[k]
        PROVE  i = k
    <3>1. CASE i \in 1 .. Len(born) /\ k \in 1 .. Len(born)
      BY <1>1, <2>2, <2>4, <3>1 DEF IsInjective
    <3>2. CASE i = Len(born) + 1 \/ k = Len(born) + 1
      BY <2>2, <2>3, <2>4, <3>2
    <3>3. QED
      BY <2>2, <3>1, <3>2
  <2>5. QED
    BY <2>2, <2>4 DEF IsInjective
<1>4. QED
  BY <1>2, <1>3

(* The row inserted has nothing that any other row or task hangs on. *)
LEMMA InsertType ==
    ASSUME Typed, NEW d \in Domains, NEW bare \in BOOLEAN, InsertSkeleton(d, bare)
    PROVE  /\ rows' \in [Domains -> Row]
           /\ \A e \in Domains : /\ rows'[e].content = rows[e].content
                                /\ rows'[e].unseen = rows[e].unseen
<1>1. rows \in [Domains -> Row]
  BY DEF Typed, TypeOK
<1>2. CASE HasRow(d)
  BY <1>1, <1>2 DEF InsertSkeleton
<1>3. CASE ~HasRow(d)
  <2> DEFINE r == [rows[d] EXCEPT !.bare = bare]
  <2>1. rows' = [rows EXCEPT ![d] = r]
    BY <1>3 DEF InsertSkeleton
  <2>2. r \in Row /\ r.content = rows[d].content /\ r.unseen = rows[d].unseen
    BY <1>1 DEF Row
  <2> HIDE DEF r
  <2>3. QED
    BY <1>1, <2>1, <2>2
<1>4. QED
  BY <1>2, <1>3

(* The parts of TypeOK that are neither of the chain nor a task. *)
RestTyped ==
    /\ born \in Seq(Domains) /\ IsInjective(born)
    /\ rows \in [Domains -> Row]
    /\ audit \in [Domains -> Cids] /\ pointer \in [Domains -> Content]
    /\ indexed \in [Domains -> Content]
    /\ groups \in [Cids -> Group]
    /\ cursor \in 0 .. Len(writes)
    /\ tick \in [on : BOOLEAN, top : 0 .. Len(writes), todo : SUBSET Slots,
                 errors : SUBSET Slots]
    /\ batch \in Seq([domain : Domains, row : Row])
    /\ faults \in 0 .. MaxFaults
    /\ spoilt \in [Domains -> Marks]

ChainTyped ==
    /\ records \in [Domains -> Content] /\ held \in [Domains -> SUBSET Content]
    /\ writes \in Seq(Names)

LEMMA TypedParts ==
    Typed <=> /\ ChainTyped /\ RestTyped
              /\ task \in [Workers -> Task] /\ \A w \in Workers : Busy(w)
  BY DEF Typed, TypeOK, ChainTyped, RestTyped, Task, Pcs, Marks

LEMMA TypedPartsNext ==
    Typed' <=> /\ ChainTyped' /\ RestTyped'
               /\ task' \in [Workers -> Task'] /\ \A w \in Workers : Busy(w)'
  BY DEF Typed, TypeOK, ChainTyped, RestTyped, Task, Pcs, Marks

-----------------------------------------------------------------------------
(***************************************************************************)
(* Typed holds at first and is kept by every step.                         *)
(***************************************************************************)
LEMMA FirstRowType ==
    ASSUME ConstantsAssumption, NEW d \in Domains, Before[d] \in Content
    PROVE  /\ FirstRow(d) \in Row
           /\ FirstRow(d).content = Before[d] /\ ~FirstRow(d).unseen
<1> DEFINE b == d \in Range(Settled) \cap Ownerless
<1>1. b \in BOOLEAN
  OBVIOUS
<1>2. FirstRow(d) = [Skeleton EXCEPT !.content = Before[d], !.bare = b]
  BY DEF FirstRow
<1> HIDE DEF b
<1>3. MaxAttempts \in Nat /\ 0 \in 0 .. MaxAttempts
  BY DEF ConstantsAssumption
<1>4. FirstRow(d) = [content |-> Before[d], fails |-> 0, gaveUp |-> FALSE, unseen |-> FALSE,
                     bare |-> b]
  BY <1>2 DEF Skeleton
<1>5. QED
  BY <1>1, <1>3, <1>4 DEF Row

LEMMA TypedInit == ConstantsAssumption /\ Init => Typed
<1> SUFFICES ASSUME ConstantsAssumption, Init PROVE Typed
  OBVIOUS
<1>1. writes = <<>> /\ writes \in Seq(Names) /\ Len(writes) = 0
  BY DEF Init
<1>2. born \in Seq(Domains) /\ IsInjective(born) /\ batch \in Seq([domain : Domains, row : Row])
  BY DEF Init, ConstantsAssumption
<1>3. None \in Content /\ records \in [Domains -> Content]
  BY DEF Init, Content
<1>4. held \in [Domains -> SUBSET Content] /\ \A d \in Domains : Before[d] \in Content
  BY <1>3 DEF Init, Before
<1>5. ASSUME NEW d \in Domains PROVE FirstRow(d) \in Row
  BY <1>4, FirstRowType
<1>6. rows \in [Domains -> Row]
  BY <1>5 DEF Init
<1>7. /\ audit \in [Domains -> Cids] /\ pointer \in [Domains -> Content]
      /\ indexed \in [Domains -> Content]
  BY <1>3, <1>4 DEF Init, Cids, PointerFor, Before
<1>8. FreeTask \in Task /\ FreeTask.pc = "free"
  BY <1>1, FreeType
<1>9. task \in [Workers -> Task] /\ \A w \in Workers : Busy(w)
  BY <1>8 DEF Init, Busy
<1>10. NoTick \in [on : BOOLEAN, top : 0 .. Len(writes), todo : SUBSET Slots, errors : SUBSET Slots]
  BY <1>1 DEF NoTick, Slots
<1>11. cursor \in 0 .. Len(writes) /\ faults \in 0 .. MaxFaults
  BY <1>1 DEF Init, ConstantsAssumption
<1>12. spoilt \in [Domains -> Marks]
  BY MarksType DEF Init
<1>13. ChainTyped /\ RestTyped
  BY <1>1, <1>2, <1>3, <1>4, <1>6, <1>7, <1>10, <1>11, <1>12 DEF Init, ChainTyped, RestTyped
<1>14. QED
  BY <1>9, <1>13, TypedParts

(***************************************************************************)
(* A step of a worker that leaves the chain alone may change its task to   *)
(* another task of the type.                                               *)
(***************************************************************************)
LEMMA TaskKept ==
    ASSUME Typed, UNCHANGED writes, NEW w \in Workers, NEW t \in Task,
           task' = [task EXCEPT ![w] = t],
           t.pc # "free" => t.domains # <<>> /\ (w \in Writers => t.sig \in Slots)
    PROVE  task' \in [Workers -> Task'] /\ \A v \in Workers : Busy(v)'
<1>1. task \in [Workers -> Task]
  BY DEF Typed, TypeOK, Task, Pcs
<1>2. Task' = Task /\ Slots' = Slots
  BY DEF Task, Slots
<1>3. task' \in [Workers -> Task']
  BY <1>1, <1>2
<1>4. ASSUME NEW v \in Workers PROVE Busy(v)'
  <2>1. CASE v = w
    BY <1>1, <1>2, <2>1 DEF Busy
  <2>2. CASE v # w
    BY <1>1, <1>2, <2>2 DEF Busy, Typed
  <2>3. QED
    BY <2>1, <2>2
<1>5. QED
  BY <1>3, <1>4

LEMMA FaultType == ASSUME ConstantsAssumption, faults \in 0 .. MaxFaults, NEW k, Fault(k)
                   PROVE  faults' \in 0 .. MaxFaults
  BY DEF Fault, ConstantsAssumption

(***************************************************************************)
(* The world's steps and those of the ticks.                               *)
(***************************************************************************)
LEMMA TypedWorld ==
    ASSUME ConstantsAssumption, Typed, World
    PROVE  Typed'
<1> USE TypedParts, TypedPartsNext
<1>1. ASSUME NEW n \in Names, WriteRecords(n) PROVE Typed'
  <2>1. writes \in Seq(Names) /\ Len(writes) \in Nat
    BY DEF ChainTyped
  <2>2. writes' \in Seq(Names) /\ Len(writes') = Len(writes) + 1
    BY <1>1, <2>1, AppendProperties DEF WriteRecords
  <2>3. 0 .. Len(writes) \subseteq 0 .. Len(writes') /\ Slots \subseteq Slots'
    BY <2>1, <2>2 DEF Slots
  <2>4. PICK now \in [Domains -> Content] :
            records' = now /\ held' = [d \in Domains |-> held[d] \cup {now[d]}]
    BY <1>1 DEF WriteRecords
  <2>5. ChainTyped'
    BY <2>2, <2>4 DEF ChainTyped
  <2>6. UNCHANGED <<born, rows, derivedVars, cursor, tick, batch, task, bookVars>>
    BY <1>1 DEF WriteRecords
  <2>7. cursor' \in 0 .. Len(writes')
    BY <2>3, <2>6 DEF RestTyped
  <2>8. tick' \in [on : BOOLEAN, top : 0 .. Len(writes'), todo : SUBSET Slots',
                   errors : SUBSET Slots']
    BY <2>3, <2>6 DEF RestTyped
  <2>9. RestTyped'
    BY <2>6, <2>7, <2>8 DEF RestTyped, derivedVars, bookVars
  <2>10. Task \subseteq Task'
    BY <2>3 DEF Task
  <2>11. task' \in [Workers -> Task']
    BY <2>6, <2>10
  <2>12. \A w \in Workers : Busy(w)'
    BY <2>3, <2>6 DEF Busy
  <2>13. QED
    BY <2>5, <2>9, <2>11, <2>12
<1>2. ASSUME NEW d \in Domains, IndexContent(d) PROVE Typed'
  <2>1. UNCHANGED <<chainVars, born, audit, pointer, cursor, tick, batch, task, bookVars>>
    BY <1>2 DEF IndexContent
  <2>2. rows[d] \in Row /\ rows[d].content \in Content
    BY DEF RestTyped, Row
  <2>3. [rows[d] EXCEPT !.unseen = FALSE] \in Row
    BY <2>2 DEF Row
  <2>4. rows' = [rows EXCEPT ![d] = [rows[d] EXCEPT !.unseen = FALSE]]
    BY <1>2 DEF IndexContent
  <2>5. rows' \in [Domains -> Row] /\ indexed' \in [Domains -> Content]
    BY <1>2, <2>2, <2>3, <2>4 DEF IndexContent, RestTyped
  <2> DEFINE c == rows[d].content.cid
             g == Joined(groups[c], d)
  <2>6. c \in Cids
    BY <2>2 DEF Cids
  <2>7. g \in Group
    BY <2>6 DEF RestTyped, Joined, Group
  <2>8. groups' = [groups EXCEPT ![c] = g]
    BY <1>2 DEF IndexContent
  <2> HIDE DEF c, g
  <2>9. groups' \in [Cids -> Group]
    BY <2>6, <2>7, <2>8 DEF RestTyped
  <2>10. RestTyped'
    BY <2>1, <2>5, <2>9 DEF RestTyped, chainVars, derivedVars, bookVars, Slots
  <2>11. QED
    BY <2>1, <2>10 DEF ChainTyped, chainVars, derivedVars, bookVars, Task, Busy, Slots
<1>3. ASSUME NEW d \in Domains, BackfillInserts(d) PROVE Typed'
  <2>1. UNCHANGED <<chainVars, derivedVars, cursor, tick, batch, task, bookVars>>
    BY <1>3 DEF BackfillInserts
  <2>2. born' \in Seq(Domains) /\ IsInjective(born') /\ rows' \in [Domains -> Row]
    BY <1>3, BornType, InsertType DEF BackfillInserts
  <2>3. RestTyped'
    BY <2>1, <2>2 DEF RestTyped, chainVars, derivedVars, bookVars, Slots
  <2>4. QED
    BY <2>1, <2>3 DEF ChainTyped, chainVars, derivedVars, bookVars, Task, Busy, Slots
<1>4. CASE Crash
  <2>1. UNCHANGED <<chainVars, born, rows, derivedVars, cursor>>
    BY <1>4 DEF Crash
  <2>2. faults' \in 0 .. MaxFaults
    BY <1>4, FaultType DEF Crash, RestTyped
  <2>3. NoTick \in [on : BOOLEAN, top : 0 .. Len(writes), todo : SUBSET Slots,
                    errors : SUBSET Slots]
    BY DEF NoTick, ChainTyped
  <2>4. <<>> \in Seq([domain : Domains, row : Row])
    OBVIOUS
  <2>5. spoilt' \in [Domains -> Marks]
    <3>1. ASSUME NEW d \in Domains PROVE Worst(Adrift, spoilt[d]) \in Marks
      BY MarksType, WorstType DEF RestTyped
    <3>2. QED
      BY <1>4, <3>1 DEF Crash, RestTyped
  <2>6. RestTyped'
    BY <1>4, <2>1, <2>2, <2>3, <2>4, <2>5
       DEF RestTyped, chainVars, derivedVars, bookVars, Slots, Crash
  <2>7. FreeTask \in Task /\ FreeTask.pc = "free"
    BY FreeType DEF ChainTyped
  <2>8. task' \in [Workers -> Task] /\ \A w \in Workers : Busy(w)'
    BY <1>4, <2>7 DEF Crash, Busy
  <2>9. QED
    BY <2>1, <2>6, <2>8 DEF ChainTyped, chainVars, derivedVars, bookVars, Task, Slots
<1>5. QED
  BY <1>1, <1>2, <1>3, <1>4 DEF World

LEMMA TypedTicks ==
    ASSUME ConstantsAssumption, Typed, StartTick \/ EndTick \/ StartReconcile
    PROVE  Typed'
<1> USE TypedParts, TypedPartsNext
<1>1. writes \in Seq(Names) /\ Len(writes) \in Nat
  BY DEF ChainTyped
<1>2. CASE StartTick
  <2>1. UNCHANGED <<chainVars, born, rows, derivedVars, cursor, batch, task, bookVars>>
    BY <1>2 DEF StartTick
  <2>2. tick' = [on |-> TRUE, top |-> Len(writes), todo |-> {i \in Slots : i >= cursor},
                 errors |-> {}]
    BY <1>2 DEF StartTick
  <2>3. tick' \in [on : BOOLEAN, top : 0 .. Len(writes), todo : SUBSET Slots,
                   errors : SUBSET Slots]
    BY <1>1, <2>2
  <2>4. RestTyped'
    BY <2>1, <2>3 DEF RestTyped, chainVars, derivedVars, bookVars, Slots
  <2>5. QED
    BY <2>1, <2>4 DEF ChainTyped, chainVars, derivedVars, bookVars, Task, Busy, Slots
<1>3. CASE EndTick
  <2>1. UNCHANGED <<chainVars, born, rows, derivedVars, batch, task, bookVars>>
    BY <1>3 DEF EndTick
  <2>2. tick' = NoTick /\ NoTick \in [on : BOOLEAN, top : 0 .. Len(writes),
                                      todo : SUBSET Slots, errors : SUBSET Slots]
    BY <1>1, <1>3 DEF EndTick, NoTick
  <2>3. PICK safeSlot \in IF tick.errors = {} THEN {tick.top} ELSE Lowest(tick.errors) :
            cursor' = IF safeSlot > cursor THEN safeSlot ELSE cursor
    BY <1>3 DEF EndTick
  <2>4. tick.errors \subseteq Slots /\ tick.top \in 0 .. Len(writes)
    BY DEF RestTyped
  <2>5. safeSlot \in 0 .. Len(writes)
    BY <1>1, <2>3, <2>4 DEF Lowest, Slots
  <2>6. cursor' \in 0 .. Len(writes)
    BY <2>3, <2>5 DEF RestTyped
  <2>7. RestTyped'
    BY <2>1, <2>2, <2>6 DEF RestTyped, chainVars, derivedVars, bookVars, Slots
  <2>8. QED
    BY <2>1, <2>7 DEF ChainTyped, chainVars, derivedVars, bookVars, Task, Busy, Slots
<1>4. CASE StartReconcile
  <2>1. UNCHANGED <<chainVars, born, rows, derivedVars, cursor, tick, task, bookVars>>
    BY <1>4 DEF StartReconcile
  <2>2. PICK n \in 1 .. BatchSize : \E q \in [1 .. n -> {d \in Range(born) : InQueue(d)}] :
            batch' = [i \in 1 .. n |-> [domain |-> q[i], row |-> rows[q[i]]]]
    BY <1>4 DEF StartReconcile
  <2>3. PICK q \in [1 .. n -> {d \in Range(born) : InQueue(d)}] :
            batch' = [i \in 1 .. n |-> [domain |-> q[i], row |-> rows[q[i]]]]
    BY <2>2
  <2>4. Range(born) \subseteq Domains
    BY DEF RestTyped, Range
  <2>5. \A i \in 1 .. n : [domain |-> q[i], row |-> rows[q[i]]] \in [domain : Domains, row : Row]
    BY <2>4 DEF RestTyped
  <2>6. n \in Nat
    BY <2>2 DEF ConstantsAssumption
  <2>7. batch' \in Seq([domain : Domains, row : Row])
    BY <2>3, <2>5, <2>6
  <2>8. RestTyped'
    BY <2>1, <2>7 DEF RestTyped, chainVars, derivedVars, bookVars, Slots
  <2>9. QED
    BY <2>1, <2>8 DEF ChainTyped, chainVars, derivedVars, bookVars, Task, Busy, Slots
<1>5. QED
  BY <1>2, <1>3, <1>4

(***************************************************************************)
(* The steps of the workers.                                               *)
(***************************************************************************)
LEMMA TypedTakes ==
    ASSUME ConstantsAssumption, Typed, NEW w \in Workers,
           \/ w \in Writers /\ (TakeSig(w) \/ LoadRow(w) \/ SigMissed(w) \/ NameMissed(w))
           \/ w \in Reconcilers /\ TakeRow(w)
           \/ w \in Registrars /\ \E d \in Domains : UpsertDomain(w, d)
    PROVE  Typed'
<1> USE TypedParts, TypedPartsNext
<1>1. writes \in Seq(Names) /\ Len(writes) \in Nat /\ task[w] \in Task
  BY DEF ChainTyped
<1>2. FreeTask \in Task /\ FreeTask.pc = "free"
  BY <1>1, FreeType
<1>3. CASE w \in Writers /\ TakeSig(w)
  <2>1. UNCHANGED <<chainVars, born, rows, derivedVars, cursor, batch, bookVars>>
    BY <1>3 DEF TakeSig
  <2>2. PICK i \in Lowest(tick.todo) :
            /\ tick' = [tick EXCEPT !.todo = @ \ {i}]
            /\ LET domains == Found[writes[i]]
               IN task' = IF domains = <<>> THEN task
                          ELSE [task EXCEPT ![w] = [FreeTask EXCEPT !.pc = "load", !.sig = i,
                                                                    !.domains = domains]]
    BY <1>3 DEF TakeSig
  <2>3. i \in Slots /\ tick.todo \subseteq Slots
    BY <2>2 DEF Lowest, RestTyped
  <2>4. tick' \in [on : BOOLEAN, top : 0 .. Len(writes), todo : SUBSET Slots,
                   errors : SUBSET Slots]
    BY <2>2, <2>3 DEF RestTyped
  <2>5. RestTyped'
    BY <2>1, <2>4 DEF RestTyped, chainVars, derivedVars, bookVars, Slots
  <2>6. i \in 0 .. Len(writes) /\ writes[i] \in Names
    BY <1>1, <2>3 DEF Slots
  <2>7. Found[writes[i]] \in Seq(Domains)
    BY <2>6 DEF ConstantsAssumption
  <2>8. CASE Found[writes[i]] = <<>>
    <3>1. task' = task
      BY <2>2, <2>8
    <3>2. QED
      BY <2>1, <2>5, <3>1 DEF ChainTyped, chainVars, derivedVars, bookVars, Task, Busy, Slots
  <2>9. CASE Found[writes[i]] # <<>>
    <3> DEFINE t == [FreeTask EXCEPT !.pc = "load", !.sig = i, !.domains = Found[writes[i]]]
    <3>1. task' = [task EXCEPT ![w] = t]
      BY <2>2, <2>9
    <3>2. t \in Task /\ t.domains = Found[writes[i]] /\ t.sig = i
      BY <1>2, <2>6, <2>7 DEF Task, Pcs
    <3> HIDE DEF t
    <3>3. task' \in [Workers -> Task'] /\ \A v \in Workers : Busy(v)'
      BY <2>1, <2>3, <2>9, <3>1, <3>2, TaskKept DEF chainVars, derivedVars, bookVars
    <3>4. QED
      BY <2>1, <2>5, <3>3 DEF ChainTyped, chainVars, derivedVars, bookVars
  <2>10. QED
    BY <2>8, <2>9
<1>4. CASE w \in Writers /\ LoadRow(w)
  <2>1. UNCHANGED <<chainVars, derivedVars, cursor, tick, batch, bookVars>>
    BY <1>4 DEF LoadRow
  <2>2. task[w].pc = "load"
    BY <1>4 DEF LoadRow
  <2>3. Domain(w) \in Domains
    BY <2>2, HeadType
  <2> DEFINE b == Domain(w) \in Ownerless
  <2>4. InsertSkeleton(Domain(w), b)
    BY <1>4 DEF LoadRow
  <2>5. b \in BOOLEAN
    OBVIOUS
  <2> HIDE DEF b
  <2>6. born' \in Seq(Domains) /\ IsInjective(born') /\ rows' \in [Domains -> Row]
    BY <2>3, <2>4, <2>5, BornType, InsertType
  <2>7. RestTyped'
    BY <2>1, <2>6 DEF RestTyped, chainVars, derivedVars, bookVars, Slots
  <2> DEFINE r == rows'[Domain(w)]
             t == [task[w] EXCEPT !.pc = "resolve", !.row = r]
  <2>8. r \in Row
    BY <2>3, <2>6
  <2>9. task' = [task EXCEPT ![w].pc = "resolve", ![w].row = r]
    BY <1>4 DEF LoadRow
  <2> HIDE DEF r
  <2>10. t \in Task /\ t.domains = task[w].domains /\ t.sig = task[w].sig
    BY <1>1, <2>8 DEF Task, Pcs
  <2>11. task' = [task EXCEPT ![w] = t]
    BY <2>9
  <2> HIDE DEF t
  <2>12. task' \in [Workers -> Task'] /\ \A v \in Workers : Busy(v)'
    BY <2>1, <2>2, <2>10, <2>11, TaskKept DEF chainVars, derivedVars, bookVars, Busy
  <2>13. QED
    BY <2>1, <2>7, <2>12 DEF ChainTyped, chainVars, derivedVars, bookVars
<1>5. CASE w \in Writers /\ SigMissed(w)
  <2>1. UNCHANGED <<chainVars, born, rows, derivedVars, cursor, tick, batch, spoilt>>
    BY <1>5 DEF SigMissed
  <2>2. faults' \in 0 .. MaxFaults
    BY <1>5, FaultType DEF SigMissed, RestTyped
  <2>3. RestTyped'
    BY <2>1, <2>2 DEF RestTyped, chainVars, derivedVars, bookVars, Slots
  <2>4. task' \in [Workers -> Task'] /\ \A v \in Workers : Busy(v)'
    BY <1>2, <1>5, <2>1, TaskKept DEF chainVars, derivedVars, bookVars, SigMissed
  <2>5. QED
    BY <2>1, <2>3, <2>4 DEF ChainTyped, chainVars, derivedVars, bookVars
<1>6. CASE w \in Writers /\ NameMissed(w)
  <2>1. UNCHANGED <<chainVars, born, rows, derivedVars, cursor, tick, batch, spoilt>>
    BY <1>6 DEF NameMissed
  <2>2. faults' \in 0 .. MaxFaults
    BY <1>6, FaultType DEF NameMissed, RestTyped
  <2>3. RestTyped'
    BY <2>1, <2>2 DEF RestTyped, chainVars, derivedVars, bookVars, Slots
  <2>4. task' \in [Workers -> Task'] /\ \A v \in Workers : Busy(v)'
    BY <1>1, <1>6, <2>1, NextDomainType, TaskKept
      DEF chainVars, derivedVars, bookVars, NameMissed, Busy
  <2>5. QED
    BY <2>1, <2>3, <2>4 DEF ChainTyped, chainVars, derivedVars, bookVars
<1>7. CASE w \in Reconcilers /\ TakeRow(w)
  <2>1. UNCHANGED <<chainVars, born, rows, derivedVars, cursor, tick, bookVars>>
    BY <1>7 DEF TakeRow
  <2>2. batch \in Seq([domain : Domains, row : Row]) /\ batch # <<>>
    BY <1>7 DEF TakeRow, RestTyped
  <2>3. /\ Head(batch) \in [domain : Domains, row : Row]
        /\ Tail(batch) \in Seq([domain : Domains, row : Row])
    BY <2>2, HeadTailProperties
  <2>4. RestTyped'
    BY <1>7, <2>1, <2>3 DEF RestTyped, chainVars, derivedVars, bookVars, Slots, TakeRow
  <2> DEFINE t == [FreeTask EXCEPT !.pc = "resolve",
                      !.domains = <<Head(batch).domain>>, !.row = Head(batch).row]
  <2>5. <<Head(batch).domain>> \in Seq(Domains) /\ <<Head(batch).domain>> # <<>>
    BY <2>3
  <2>6. t \in Task /\ t.domains # <<>>
    BY <1>2, <2>3, <2>5 DEF Task, Pcs
  <2>7. task' = [task EXCEPT ![w] = t]
    BY <1>7 DEF TakeRow
  <2>8. w \notin Writers
    BY <1>7 DEF ConstantsAssumption
  <2> HIDE DEF t
  <2>9. task' \in [Workers -> Task'] /\ \A v \in Workers : Busy(v)'
    BY <2>1, <2>6, <2>7, <2>8, TaskKept DEF chainVars, derivedVars, bookVars
  <2>10. QED
    BY <2>1, <2>4, <2>9 DEF ChainTyped, chainVars, derivedVars, bookVars
<1>8. ASSUME w \in Registrars, NEW d \in Domains, UpsertDomain(w, d) PROVE Typed'
  <2>1. UNCHANGED <<chainVars, derivedVars, cursor, tick, batch, bookVars>>
    BY <1>8 DEF UpsertDomain
  <2>2. born' \in Seq(Domains) /\ IsInjective(born') /\ rows' \in [Domains -> Row]
    BY <1>8, BornType, InsertType DEF UpsertDomain
  <2>3. RestTyped'
    BY <2>1, <2>2 DEF RestTyped, chainVars, derivedVars, bookVars, Slots
  <2> DEFINE r == rows'[d]
             t == [FreeTask EXCEPT !.pc = "fill", !.domains = <<d>>, !.row = r]
  <2>4. r \in Row
    BY <2>2
  <2>5. task' = task \/ task' = [task EXCEPT ![w] = t]
    BY <1>8 DEF UpsertDomain
  <2> HIDE DEF r
  <2>6. <<d>> \in Seq(Domains) /\ <<d>> # <<>>
    OBVIOUS
  <2>7. t \in Task /\ t.domains # <<>>
    BY <1>2, <2>4, <2>6 DEF Task, Pcs
  <2>8. w \notin Writers
    BY <1>8 DEF ConstantsAssumption
  <2> HIDE DEF t
  <2>9. CASE task' = task
    BY <2>1, <2>3, <2>9 DEF ChainTyped, chainVars, derivedVars, bookVars, Task, Busy, Slots
  <2>10. CASE task' = [task EXCEPT ![w] = t]
    <3>1. task' \in [Workers -> Task'] /\ \A v \in Workers : Busy(v)'
      BY <2>1, <2>7, <2>8, <2>10, TaskKept DEF chainVars
    <3>2. QED
      BY <2>1, <2>3, <3>1 DEF ChainTyped, chainVars
  <2>11. QED
    BY <2>5, <2>9, <2>10
<1>9. QED
  BY <1>3, <1>4, <1>5, <1>6, <1>7, <1>8

LEMMA TypedApply ==
    ASSUME ConstantsAssumption, Typed, NEW w \in Workers, Apply(w)
    PROVE  Typed'
<1> USE TypedParts, TypedPartsNext
<1>1. writes \in Seq(Names) /\ Len(writes) \in Nat /\ task[w] \in Task
  BY DEF ChainTyped
<1>2. FreeTask \in Task /\ FreeTask.pc = "free"
  BY <1>1, FreeType
<1>3. task[w].pc # "free" => Domain(w) \in Domains
  BY HeadType
<1>4. task[w].row \in Row /\ task[w].row.content \in Content /\ task[w].result \in Content
  BY <1>1 DEF Task, Row
<1>5. /\ NextDomain(task[w]) \in Task
      /\ NextDomain(task[w]).pc # "free" =>
            NextDomain(task[w]).domains # <<>> /\ NextDomain(task[w]).sig = task[w].sig
  BY <1>1, NextDomainType
<1>6. CASE Resolve(w)
  <2>1. UNCHANGED <<chainVars, born, rows, derivedVars, cursor, tick, batch, bookVars>>
    BY <1>6 DEF Resolve
  <2>2. task[w].pc = "resolve"
    BY <1>6 DEF Resolve
  <2>3. records[Domain(w)] \in Content
    BY <1>3, <2>2 DEF ChainTyped
  <2>4. PICK pc \in {"find", "save"} :
            task' = [task EXCEPT ![w].result = records[Domain(w)], ![w].pc = pc]
    BY <1>6 DEF Resolve
  <2> DEFINE t == [task[w] EXCEPT !.result = records[Domain(w)], !.pc = pc]
  <2>5. t \in Task /\ t.domains = task[w].domains /\ t.sig = task[w].sig
    BY <1>1, <2>3, <2>4 DEF Task, Pcs
  <2>6. task' = [task EXCEPT ![w] = t]
    BY <2>4
  <2> HIDE DEF t
  <2>7. task' \in [Workers -> Task'] /\ \A v \in Workers : Busy(v)'
    BY <2>1, <2>2, <2>5, <2>6, TaskKept DEF chainVars, Busy
  <2>8. RestTyped'
    BY <2>1 DEF RestTyped, chainVars, derivedVars, bookVars, Slots
  <2>9. QED
    BY <2>1, <2>7, <2>8 DEF ChainTyped, chainVars
<1>7. CASE SaveRow(w)
  <2>1. UNCHANGED <<chainVars, born, derivedVars, cursor, tick, batch, faults>>
    BY <1>7 DEF SaveRow
  <2>2. task[w].pc = "save"
    BY <1>7 DEF SaveRow
  <2> DEFINE r == Resolved(task[w].row, task[w].result)
             t == [task[w] EXCEPT !.pc = "audit", !.row = r]
             u == IF task[w].result.cid # task[w].row.content.cid THEN t ELSE NextDomain(task[w])
  <2>3. r \in Row
    BY <1>4, ResolvedType
  <2>4. rows' = [rows EXCEPT ![Domain(w)] = r] /\ task' = [task EXCEPT ![w] = u]
    BY <1>7 DEF SaveRow
  <2> HIDE DEF r
  <2>5. rows' \in [Domains -> Row]
    BY <1>3, <2>2, <2>3, <2>4 DEF RestTyped
  <2>6. t \in Task /\ t.domains = task[w].domains /\ t.sig = task[w].sig
    BY <1>1, <2>3 DEF Task, Pcs
  <2> HIDE DEF t
  <2>7. u \in Task /\ (u.pc # "free" =>
                          u.domains # <<>> /\ (w \in Writers => u.sig \in Slots))
    BY <1>5, <2>2, <2>6 DEF Busy
  <2> HIDE DEF u
  <2>8. task' \in [Workers -> Task'] /\ \A v \in Workers : Busy(v)'
    BY <2>1, <2>4, <2>7, TaskKept DEF chainVars
  <2>9. spoilt' \in [Domains -> Marks]
    <3>1. spoilt[Domain(w)] \in Marks
      BY <1>3, <2>2 DEF RestTyped
    <3>2. Worst(Reverted, spoilt[Domain(w)]) \in Marks /\ Untouched \in Marks
      BY <3>1, MarksType, WorstType
    <3>3. QED
      BY <1>7, <3>1, <3>2 DEF SaveRow, RestTyped
  <2>10. RestTyped'
    BY <2>1, <2>5, <2>9 DEF RestTyped, chainVars, derivedVars, Slots
  <2>11. QED
    BY <2>1, <2>8, <2>10 DEF ChainTyped, chainVars
<1>8. CASE CreateDnsSettings(w)
  <2>1. UNCHANGED <<chainVars, born, rows, pointer, indexed, groups, cursor, tick, batch, faults>>
    BY <1>8 DEF CreateDnsSettings
  <2>2. task[w].pc = "audit"
    BY <1>8 DEF CreateDnsSettings
  <2> DEFINE t == [task[w] EXCEPT !.pc = "sync"]
  <2>3. t \in Task /\ t.domains = task[w].domains /\ t.sig = task[w].sig
    BY <1>1 DEF Task, Pcs
  <2>4. task' = [task EXCEPT ![w] = t]
    BY <1>8 DEF CreateDnsSettings
  <2> HIDE DEF t
  <2>5. task' \in [Workers -> Task'] /\ \A v \in Workers : Busy(v)'
    BY <2>1, <2>2, <2>3, <2>4, TaskKept DEF chainVars, derivedVars, bookVars, Busy
  <2>6. task[w].row.content.cid \in Cids
    BY <1>4 DEF Cids
  <2>7. audit' \in [Domains -> Cids]
    BY <1>8, <2>6 DEF CreateDnsSettings, RestTyped
  <2>8. spoilt' \in [Domains -> Marks]
    <3>1. spoilt[Domain(w)] \in Marks
      BY <1>3, <2>2 DEF RestTyped
    <3>2. Worst(Adrift, spoilt[Domain(w)]) \in Marks
      BY <3>1, MarksType, WorstType
    <3>3. QED
      BY <1>8, <3>1, <3>2 DEF CreateDnsSettings, RestTyped
  <2>9. RestTyped'
    BY <2>1, <2>7, <2>8 DEF RestTyped, chainVars, derivedVars, bookVars, Slots
  <2>10. QED
    BY <2>1, <2>5, <2>9 DEF ChainTyped, chainVars, derivedVars, bookVars
<1>9. CASE SyncFromDns(w)
  <2>1. UNCHANGED <<chainVars, born, rows, audit, indexed, groups, cursor, tick, batch, faults>>
    BY <1>9 DEF SyncFromDns
  <2>2. task[w].pc = "sync" /\ task' = [task EXCEPT ![w] = NextDomain(task[w])]
    BY <1>9 DEF SyncFromDns
  <2>3. task' \in [Workers -> Task'] /\ \A v \in Workers : Busy(v)'
    BY <1>5, <2>1, <2>2, TaskKept DEF chainVars, derivedVars, bookVars, Busy
  <2>4. pointer' = [pointer EXCEPT ![Domain(w)] = Synced(pointer[Domain(w)], task[w].row.content)]
    BY <1>9 DEF SyncFromDns
  <2>5. Synced(pointer[Domain(w)], task[w].row.content) \in Content
    BY <1>3, <1>4, <2>2, SyncedValue DEF RestTyped, Content
  <2>6. pointer' \in [Domains -> Content]
    BY <2>4, <2>5 DEF RestTyped
  <2>7. spoilt' \in [Domains -> Marks]
    <3>1. spoilt[Domain(w)] \in Marks
      BY <1>3, <2>2 DEF RestTyped
    <3>2. Worst(Adrift, spoilt[Domain(w)]) \in Marks
      BY <3>1, MarksType, WorstType
    <3>3. QED
      BY <1>9, <3>1, <3>2 DEF SyncFromDns, RestTyped
  <2>8. RestTyped'
    BY <2>1, <2>6, <2>7 DEF RestTyped, chainVars, derivedVars, bookVars, Slots
  <2>9. QED
    BY <2>1, <2>3, <2>8 DEF ChainTyped, chainVars, derivedVars, bookVars
<1>10. CASE TaskThrows(w)
  <2>1. UNCHANGED <<chainVars, born, rows, derivedVars, cursor, batch>>
    BY <1>10 DEF TaskThrows
  <2>2. task[w].pc # "free" /\ task' = [task EXCEPT ![w] = FreeTask]
    BY <1>10 DEF TaskThrows
  <2>3. faults' \in 0 .. MaxFaults
    BY <1>10, FaultType DEF TaskThrows, RestTyped
  <2>4. task' \in [Workers -> Task'] /\ \A v \in Workers : Busy(v)'
    BY <1>2, <2>1, <2>2, TaskKept DEF chainVars, derivedVars, bookVars
  <2>5. w \in Writers => task[w].sig \in Slots
    BY <2>2 DEF Busy
  <2>6. tick' = IF w \in Writers THEN [tick EXCEPT !.errors = @ \cup {task[w].sig}] ELSE tick
    BY <1>10 DEF TaskThrows
  <2>7. tick' \in [on : BOOLEAN, top : 0 .. Len(writes), todo : SUBSET Slots,
                   errors : SUBSET Slots]
    BY <2>5, <2>6 DEF RestTyped
  <2>8. spoilt' \in [Domains -> Marks]
    <3>1. ASSUME NEW d \in Domains PROVE Worst(Adrift, spoilt[d]) \in Marks
      BY MarksType, WorstType DEF RestTyped
    <3>2. QED
      BY <1>10, <3>1 DEF TaskThrows, RestTyped
  <2>9. RestTyped'
    BY <2>1, <2>3, <2>7, <2>8 DEF RestTyped, chainVars, derivedVars, bookVars, Slots
  <2>10. QED
    BY <2>1, <2>4, <2>9 DEF ChainTyped, chainVars, derivedVars, bookVars
<1>11. CASE FindGroup(w)
  <2>1. UNCHANGED <<chainVars, born, rows, derivedVars, cursor, tick, batch, bookVars>>
    BY <1>11 DEF FindGroup
  <2>2. task[w].pc = "find" /\ OldCid(w) \in Cids
    BY <1>4, <1>11 DEF FindGroup, OldCid, Cids
  <2>3. groups[OldCid(w)] \in Group
    BY <2>2 DEF RestTyped
  <2> DEFINE g == Without(groups[OldCid(w)], Domain(w))
  <2>4. g \in Group
    BY <2>3 DEF Without, Group
  <2>5. \/ task' = [task EXCEPT ![w] = Left(task[w])]
        \/ \E pc \in {"elect", "leave"} :
              task' = [task EXCEPT ![w] = [task[w] EXCEPT !.group = g, !.pc = pc]]
    BY <1>11 DEF FindGroup
  <2> HIDE DEF g
  <2>6. ASSUME NEW pc \in {"elect", "leave"}
         PROVE  LET t == [task[w] EXCEPT !.group = g, !.pc = pc]
                IN t \in Task /\ t.domains = task[w].domains /\ t.sig = task[w].sig
    BY <1>1, <2>4 DEF Task, Pcs
  <2>7. PICK t \in Task : /\ task' = [task EXCEPT ![w] = t]
                          /\ t.domains = task[w].domains /\ t.sig = task[w].sig
    <3>1. CASE task' = [task EXCEPT ![w] = Left(task[w])]
      BY <1>1, <3>1, LeftType
    <3>2. CASE \E pc \in {"elect", "leave"} :
                  task' = [task EXCEPT ![w] = [task[w] EXCEPT !.group = g, !.pc = pc]]
      BY <2>6, <3>2
    <3>3. QED
      BY <2>5, <3>1, <3>2
  <2>8. task' \in [Workers -> Task'] /\ \A v \in Workers : Busy(v)'
    BY <2>1, <2>2, <2>7, TaskKept DEF chainVars, Busy
  <2>9. RestTyped'
    BY <2>1 DEF RestTyped, chainVars, derivedVars, bookVars, Slots
  <2>10. QED
    BY <2>1, <2>8, <2>9 DEF ChainTyped, chainVars
<1>12. CASE LeaveGroup(w)
  <2>1. UNCHANGED <<chainVars, born, rows, audit, pointer, indexed, cursor, tick, batch, bookVars>>
    BY <1>12 DEF LeaveGroup
  <2>2. task[w].pc = "leave" /\ OldCid(w) \in Cids /\ task[w].group \in Group
    BY <1>1, <1>4, <1>12 DEF LeaveGroup, OldCid, Cids, Task
  <2>3. groups' \in [Cids -> Group]
    BY <1>12, <2>2 DEF LeaveGroup, RestTyped
  <2>4. task' = [task EXCEPT ![w] = Left(task[w])]
    BY <1>12 DEF LeaveGroup
  <2>5. task' \in [Workers -> Task'] /\ \A v \in Workers : Busy(v)'
    BY <1>1, <2>1, <2>2, <2>4, LeftType, TaskKept DEF chainVars, Busy
  <2>6. RestTyped'
    BY <2>1, <2>3 DEF RestTyped, chainVars, bookVars, Slots
  <2>7. QED
    BY <2>1, <2>5, <2>6 DEF ChainTyped, chainVars
<1>13. CASE FindSurvivors(w)
  <2>1. UNCHANGED <<chainVars, born, rows, derivedVars, cursor, tick, batch, bookVars>>
    BY <1>13 DEF FindSurvivors
  <2>2. task[w].pc = "elect"
    BY <1>13 DEF FindSurvivors
  <2> DEFINE copies == [d \in Domains |-> IF d \in Survivors(w) THEN rows[d] ELSE Skeleton]
             t == [task[w] EXCEPT !.pc = "tear", !.copies = copies]
  <2>3. copies \in [Domains -> Row]
    BY SkeletonType DEF RestTyped
  <2>4. task' = [task EXCEPT ![w] = t]
    BY <1>13 DEF FindSurvivors
  <2> HIDE DEF copies
  <2>5. t \in Task /\ t.domains = task[w].domains /\ t.sig = task[w].sig
    BY <1>1, <2>3 DEF Task, Pcs
  <2> HIDE DEF t
  <2>6. task' \in [Workers -> Task'] /\ \A v \in Workers : Busy(v)'
    BY <2>1, <2>2, <2>4, <2>5, TaskKept DEF chainVars, Busy
  <2>7. RestTyped'
    BY <2>1 DEF RestTyped, chainVars, derivedVars, bookVars, Slots
  <2>8. QED
    BY <2>1, <2>6, <2>7 DEF ChainTyped, chainVars
<1>14. CASE TearDown(w)
  <2>1. UNCHANGED <<chainVars, born, audit, pointer, indexed, cursor, tick, batch, faults>>
    BY <1>14 DEF TearDown
  <2>2. task[w].pc = "tear" /\ task' = [task EXCEPT ![w] = Left(task[w])]
    BY <1>14 DEF TearDown
  <2>3. ASSUME NEW d \in Domains PROVE [task[w].copies[d] EXCEPT !.unseen = TRUE] \in Row
    BY <1>1 DEF Task, Row
  <2>4. rows' \in [Domains -> Row]
    BY <1>14, <2>3 DEF TearDown, RestTyped
  <2>5. spoilt' \in [Domains -> Marks]
    BY <1>14, MarksType DEF TearDown, RestTyped
  <2>6. groups' \in [Cids -> Group]
    BY <1>14, NothingRead DEF TearDown, RestTyped
  <2>7. task' \in [Workers -> Task'] /\ \A v \in Workers : Busy(v)'
    BY <1>1, <2>1, <2>2, LeftType, TaskKept DEF chainVars, Busy
  <2>8. RestTyped'
    BY <2>1, <2>4, <2>5, <2>6 DEF RestTyped, chainVars, Slots
  <2>9. QED
    BY <2>1, <2>7, <2>8 DEF ChainTyped, chainVars
<1>15. CASE FillOwner(w)
  <2>1. UNCHANGED <<chainVars, born, derivedVars, cursor, tick, batch, faults>>
    BY <1>15 DEF FillOwner
  <2>2. task[w].pc = "fill" /\ task' = [task EXCEPT ![w] = FreeTask]
    BY <1>15 DEF FillOwner
  <2>3. [task[w].row EXCEPT !.bare = FALSE] \in Row
    BY <1>4 DEF Row
  <2>4. rows' \in [Domains -> Row]
    BY <1>15, <2>3 DEF FillOwner, RestTyped
  <2>5. spoilt' \in [Domains -> Marks]
    BY <1>3, <1>15, <2>2, MarksType DEF FillOwner, RestTyped
  <2>6. task' \in [Workers -> Task'] /\ \A v \in Workers : Busy(v)'
    BY <1>2, <2>1, <2>2, TaskKept DEF chainVars
  <2>7. RestTyped'
    BY <2>1, <2>4, <2>5 DEF RestTyped, chainVars, derivedVars, Slots
  <2>8. QED
    BY <2>1, <2>6, <2>7 DEF ChainTyped, chainVars
<1>16. QED
  BY <1>6, <1>7, <1>8, <1>9, <1>10, <1>11, <1>12, <1>13, <1>14, <1>15 DEF Apply

LEMMA TypedNext ==
    ASSUME ConstantsAssumption, Typed, [Next]_vars
    PROVE  Typed'
<1>1. CASE UNCHANGED vars
  <2>1. UNCHANGED <<records, held, writes, born, rows, audit, pointer, indexed, groups, cursor,
                    tick, batch, task, faults, spoilt>>
    BY <1>1 DEF vars, chainVars, derivedVars, bookVars
  <2>2. QED
    BY <2>1 DEF Typed, TypeOK, Busy, Slots
<1>2. CASE Next
  BY <1>2, TypedWorld, TypedTicks, TypedTakes, TypedApply DEF Next, Workers
<1>3. QED
  BY <1>1, <1>2

(***************************************************************************)
(* TypeOK is an invariant: the walk, the pool, the queue and the steps of  *)
(* applyResolution keep every row, cursor and task well-formed.            *)
(***************************************************************************)
THEOREM TypeCorrect == Spec => []TypeOK
<1>1. ConstantsAssumption /\ Init => Typed
  BY TypedInit
<1>2. ConstantsAssumption /\ Typed /\ [Next]_vars => Typed'
  BY TypedNext
<1>3. Typed => TypeOK
  BY DEF Typed
<1>4. QED
  BY <1>1, <1>2, <1>3, ConstantsAssumption, PTL DEF Spec

-----------------------------------------------------------------------------
(***************************************************************************)
(* Whose content it is.  What a domain's records ever said only grows, and *)
(* a step of a worker writes to the domain its task is at.                 *)
(***************************************************************************)
LEMMA NoneOwn ==
    ASSUME ConstantsAssumption, \A d \in Domains : None \in held[d]
    PROVE  TaskOwn(FreeTask) /\ \A d \in Domains : NoCopies[d].content \in held[d]
<1>1. \A d \in Domains : NoCopies[d].content \in held[d]
  BY SkeletonType DEF NoCopies
<1>2. QED
  BY <1>1 DEF TaskOwn, FreeTask

LEMMA OwnInit == ConstantsAssumption /\ Init => ContentInv
<1> SUFFICES ASSUME ConstantsAssumption, Init PROVE ContentInv
  OBVIOUS
<1>1. \A d \in Domains : None \in held[d] /\ records[d] \in held[d]
  BY DEF Init
<1>2. \A d \in Domains : Before[d] \in {None, records[d]} /\ Before[d] \in Content
  BY DEF Init, Before, Content
<1>3. \A d \in Domains : Before[d] \in held[d]
  BY <1>1, <1>2
<1>4. ASSUME NEW d \in Domains
      PROVE  /\ rows[d].content = Before[d] /\ indexed[d] = Before[d]
             /\ audit[d] = Before[d].cid /\ pointer[d] \in {None, Before[d]}
  <2>1. rows[d] = FirstRow(d) /\ FirstRow(d).content = Before[d]
    BY <1>2, FirstRowType DEF Init
  <2>2. pointer[d] \in {None, Before[d]}
    BY DEF Init, PointerFor
  <2>3. QED
    BY <2>1, <2>2 DEF Init
<1>5. OnlyOwnContent
  BY <1>1, <1>3, <1>4 DEF OnlyOwnContent
<1>6. \A w \in Workers : TaskOwn(task[w])
  BY <1>1, NoneOwn DEF Init
<1>7. \A i \in DOMAIN batch : batch[i].row.content \in held[batch[i].domain]
  BY DEF Init
<1>8. QED
  BY <1>1, <1>5, <1>6, <1>7 DEF ContentInv

(* What each part of the invariant says of the tasks, once what they own is kept. *)
TasksOwn == \A w \in Workers : TaskOwn(task[w])
BatchOwn == \A i \in DOMAIN batch : batch[i].row.content \in held[batch[i].domain]
HeldOwn == \A d \in Domains : None \in held[d] /\ records[d] \in held[d]

LEMMA OwnParts == ContentInv <=> OnlyOwnContent /\ HeldOwn /\ BatchOwn /\ TasksOwn
  BY DEF ContentInv, HeldOwn, BatchOwn, TasksOwn

LEMMA OwnPartsNext == ContentInv' <=> OnlyOwnContent' /\ HeldOwn' /\ BatchOwn' /\ TasksOwn'
  BY DEF ContentInv, HeldOwn, BatchOwn, TasksOwn

(* The next domain of a transaction has been neither loaded nor resolved yet. *)
LEMMA NextDomainFresh ==
    ASSUME NEW t
    PROVE  NextDomain(t).pc \in {"free", "load"} /\ NextDomain(t).copies = NoCopies
<1>1. CASE Len(t.domains) <= 1
  BY <1>1 DEF NextDomain, FreeTask
<1>2. CASE ~(Len(t.domains) <= 1)
  BY <1>2 DEF NextDomain, FreeTask
<1>3. QED
  BY <1>1, <1>2

LEMMA NextDomainOwn == ASSUME ConstantsAssumption, HeldOwn, NEW t PROVE TaskOwn(NextDomain(t))
<1>1. \A d \in Domains : NoCopies[d].content \in held[d]
  BY NoneOwn DEF HeldOwn
<1>2. QED
  BY <1>1, NextDomainFresh DEF TaskOwn

(* A task at a later step with the row, result and copies it had. *)
LEMMA SameOwn ==
    ASSUME NEW t, NEW u, TaskOwn(t), t.pc \notin {"free", "load", "resolve", "fill"},
           u.domains = t.domains, u.row = t.row, u.result = t.result, u.copies = t.copies
    PROVE  TaskOwn(u)
  BY DEF TaskOwn

(* The row inserted has no content. *)
LEMMA InsertOwn ==
    ASSUME Typed, OnlyOwnContent, NEW d \in Domains, NEW bare \in BOOLEAN,
           InsertSkeleton(d, bare), UNCHANGED <<held, audit, pointer, indexed>>
    PROVE  OnlyOwnContent' /\ \A e \in Domains : rows'[e].content \in held[e]
<1>1. \A e \in Domains : rows'[e].content = rows[e].content
  BY InsertType
<1>2. QED
  BY <1>1 DEF OnlyOwnContent

LEMMA TasksKept ==
    ASSUME Typed, TasksOwn, UNCHANGED held, NEW w \in Workers, NEW t,
           task' = [task EXCEPT ![w] = t], TaskOwn(t)
    PROVE  TasksOwn'
<1>1. task \in [Workers -> Task]
  BY TypedParts
<1>2. ASSUME NEW v \in Workers PROVE TaskOwn(task[v])'
  <2>1. CASE v = w
    <3>1. task'[v] = t
      BY <1>1, <2>1
    <3>2. QED
      BY <3>1 DEF TaskOwn
  <2>2. CASE v # w
    <3>1. task'[v] = task[v] /\ TaskOwn(task[v])
      BY <1>1, <2>2 DEF TasksOwn
    <3>2. QED
      BY <3>1 DEF TaskOwn
  <2>3. QED
    BY <2>1, <2>2
<1>3. QED
  BY <1>2 DEF TasksOwn

LEMMA OwnWorld ==
    ASSUME ConstantsAssumption, Typed, ContentInv, World
    PROVE  ContentInv'
<1> USE OwnParts, OwnPartsNext
<1>1. task \in [Workers -> Task] /\ batch \in Seq([domain : Domains, row : Row])
  BY TypedParts DEF RestTyped
<1>2. ASSUME NEW n \in Names, WriteRecords(n) PROVE ContentInv'
  <2>1. UNCHANGED <<born, rows, derivedVars, cursor, tick, batch, task, bookVars>>
    BY <1>2 DEF WriteRecords
  <2>2. PICK now \in [Domains -> Content] :
            records' = now /\ held' = [d \in Domains |-> held[d] \cup {now[d]}]
    BY <1>2 DEF WriteRecords
  <2>3. \A d \in Domains : held[d] \subseteq held'[d] /\ records'[d] \in held'[d]
    BY <2>2
  <2>4. OnlyOwnContent'
    BY <2>1, <2>3 DEF OnlyOwnContent, derivedVars
  <2>5. HeldOwn'
    BY <2>3 DEF HeldOwn
  <2>6. ASSUME NEW i \in DOMAIN batch PROVE batch[i].domain \in Domains
    <3> DEFINE E == [domain : Domains, row : Row]
    <3>1. batch \in Seq(E)
      BY <1>1
    <3> HIDE DEF E
    <3>2. batch[i] \in E
      BY <3>1, LenProperties
    <3>3. QED
      BY <3>2 DEF E
  <2>7. BatchOwn'
    BY <2>1, <2>3, <2>6 DEF BatchOwn
  <2>8. ASSUME NEW w \in Workers PROVE TaskOwn(task[w])'
    <3>1. task[w].pc # "free" => Head(task[w].domains) \in Domains
      BY HeadType DEF Domain
    <3>2. TaskOwn(task[w])
      BY DEF TasksOwn
    <3>3. QED
      BY <2>1, <2>3, <3>1, <3>2 DEF TaskOwn
  <2>9. QED
    BY <2>4, <2>5, <2>7, <2>8 DEF TasksOwn
<1>3. ASSUME NEW d \in Domains, IndexContent(d) PROVE ContentInv'
  <2>1. UNCHANGED <<records, held, audit, pointer, batch, task>>
    BY <1>3 DEF IndexContent, chainVars, derivedVars, bookVars
  <2>2. rows \in [Domains -> Row] /\ indexed \in [Domains -> Content]
    BY TypedParts DEF RestTyped
  <2>3. /\ indexed' = [indexed EXCEPT ![d] = rows[d].content]
        /\ rows' = [rows EXCEPT ![d] = [rows[d] EXCEPT !.unseen = FALSE]]
    BY <1>3 DEF IndexContent
  <2>4. [rows[d] EXCEPT !.unseen = FALSE].content = rows[d].content
    BY <2>2 DEF Row
  <2>5. \A e \in Domains : /\ rows'[e].content = rows[e].content
                           /\ indexed'[e] \in {indexed[e], rows[e].content}
    BY <2>2, <2>3, <2>4
  <2>6. OnlyOwnContent'
    BY <2>1, <2>5 DEF OnlyOwnContent
  <2>7. QED
    BY <2>1, <2>6 DEF HeldOwn, BatchOwn, TasksOwn, TaskOwn
<1>4. ASSUME NEW d \in Domains, BackfillInserts(d) PROVE ContentInv'
  <2>1. UNCHANGED <<records, held, audit, pointer, indexed, batch, task>>
    BY <1>4 DEF BackfillInserts, chainVars, derivedVars
  <2>2. OnlyOwnContent'
    BY <1>4, <2>1, InsertOwn DEF BackfillInserts
  <2>3. QED
    BY <2>1, <2>2 DEF HeldOwn, BatchOwn, TasksOwn, TaskOwn
<1>5. CASE Crash
  <2>1. UNCHANGED <<records, held, rows, audit, pointer, indexed>>
    BY <1>5 DEF Crash, chainVars, derivedVars, bookVars
  <2>2. batch' = <<>> /\ task' = [w \in Workers |-> FreeTask]
    BY <1>5 DEF Crash
  <2>3. BatchOwn'
    BY <2>2 DEF BatchOwn
  <2>4. TaskOwn(FreeTask)
    BY NoneOwn DEF HeldOwn
  <2>5. TaskOwn(FreeTask)'
    BY <2>1, <2>4 DEF TaskOwn
  <2>6. TasksOwn'
    BY <2>2, <2>5 DEF TasksOwn
  <2>7. QED
    BY <2>1, <2>3, <2>6 DEF OnlyOwnContent, HeldOwn
<1>6. QED
  BY <1>2, <1>3, <1>4, <1>5 DEF World

LEMMA OwnTicks ==
    ASSUME ConstantsAssumption, Typed, ContentInv, StartTick \/ EndTick \/ StartReconcile
    PROVE  ContentInv'
<1> USE OwnParts, OwnPartsNext
<1>1. CASE StartTick \/ EndTick
  <2>1. UNCHANGED <<records, held, rows, audit, pointer, indexed, batch, task>>
    BY <1>1 DEF StartTick, EndTick, chainVars, derivedVars, bookVars
  <2>2. QED
    BY <2>1 DEF OnlyOwnContent, HeldOwn, BatchOwn, TasksOwn, TaskOwn
<1>2. CASE StartReconcile
  <2>1. UNCHANGED <<records, held, rows, audit, pointer, indexed, task>>
    BY <1>2 DEF StartReconcile, chainVars, derivedVars, bookVars
  <2>2. PICK n \in 1 .. BatchSize : \E q \in [1 .. n -> {d \in Range(born) : InQueue(d)}] :
            batch' = [i \in 1 .. n |-> [domain |-> q[i], row |-> rows[q[i]]]]
    BY <1>2 DEF StartReconcile
  <2>3. PICK q \in [1 .. n -> {d \in Range(born) : InQueue(d)}] :
            batch' = [i \in 1 .. n |-> [domain |-> q[i], row |-> rows[q[i]]]]
    BY <2>2
  <2>4. Range(born) \subseteq Domains
    BY TypedParts DEF RestTyped, Range
  <2>5. \A i \in 1 .. n : q[i] \in Domains /\ rows[q[i]].content \in held[q[i]]
    BY <2>3, <2>4 DEF OnlyOwnContent
  <2>6. BatchOwn'
    BY <2>1, <2>3, <2>5 DEF BatchOwn
  <2>7. QED
    BY <2>1, <2>6 DEF OnlyOwnContent, HeldOwn, TasksOwn, TaskOwn
<1>3. QED
  BY <1>1, <1>2

LEMMA OwnTakes ==
    ASSUME ConstantsAssumption, Typed, ContentInv, NEW w \in Workers,
           \/ w \in Writers /\ (TakeSig(w) \/ LoadRow(w) \/ SigMissed(w) \/ NameMissed(w))
           \/ w \in Reconcilers /\ TakeRow(w)
           \/ w \in Registrars /\ \E d \in Domains : UpsertDomain(w, d)
    PROVE  ContentInv'
<1> USE OwnParts, OwnPartsNext
<1>1. UNCHANGED <<records, held, audit, pointer, indexed>>
  BY DEF TakeSig, LoadRow, SigMissed, NameMissed, TakeRow, UpsertDomain, chainVars, derivedVars
<1>2. HeldOwn'
  BY <1>1 DEF HeldOwn
<1>3. \A d \in Domains : NoCopies[d].content \in held[d]
  BY NoneOwn DEF HeldOwn
<1>4. UNCHANGED rows => OnlyOwnContent' /\ HeldOwn'
  BY <1>1, <1>2 DEF OnlyOwnContent
<1>5. CASE TakeSig(w)
  <2>1. UNCHANGED <<rows, batch>>
    BY <1>5 DEF TakeSig
  <2>2. PICK i \in Lowest(tick.todo) :
            LET domains == Found[writes[i]]
            IN task' = IF domains = <<>> THEN task
                       ELSE [task EXCEPT ![w] = [FreeTask EXCEPT !.pc = "load", !.sig = i,
                                                                 !.domains = domains]]
    BY <1>5 DEF TakeSig
  <2> DEFINE t == [FreeTask EXCEPT !.pc = "load", !.sig = i, !.domains = Found[writes[i]]]
  <2>3. task' = task \/ task' = [task EXCEPT ![w] = t]
    BY <2>2
  <2>4. TaskOwn(t)
    BY <1>3 DEF TaskOwn, FreeTask
  <2> HIDE DEF t
  <2>5. TasksOwn'
    BY <1>1, <2>3, <2>4, TasksKept DEF TasksOwn, TaskOwn
  <2>6. QED
    BY <1>1, <1>4, <2>1, <2>5 DEF BatchOwn
<1>6. CASE LoadRow(w)
  <2> DEFINE b == Domain(w) \in Ownerless
             r == rows'[Domain(w)]
             t == [task[w] EXCEPT !.pc = "resolve", !.row = r]
  <2>1. UNCHANGED batch /\ InsertSkeleton(Domain(w), b) /\ b \in BOOLEAN
    BY <1>6 DEF LoadRow
  <2> HIDE DEF b
  <2>2. task' = [task EXCEPT ![w].pc = "resolve", ![w].row = r] /\ task[w].pc = "load"
    BY <1>6 DEF LoadRow
  <2>3. task[w] \in Task /\ Domain(w) \in Domains
    BY <2>2, HeadType, TypedParts
  <2>4. OnlyOwnContent' /\ r.content \in held[Domain(w)]
    BY <1>1, <2>1, <2>3, InsertOwn
  <2> HIDE DEF r
  <2>5. task' = [task EXCEPT ![w] = t]
    BY <2>2
  <2>6. t.pc = "resolve" /\ t.row = r /\ t.domains = task[w].domains /\ t.copies = task[w].copies
    BY <2>3 DEF Task
  <2> HIDE DEF t
  <2>7. TaskOwn(t)
    BY <2>4, <2>6 DEF TasksOwn, TaskOwn, Domain
  <2>8. TasksOwn'
    BY <1>1, <2>5, <2>7, TasksKept
  <2>9. QED
    BY <1>1, <1>2, <2>1, <2>4, <2>8 DEF BatchOwn
<1>7. CASE SigMissed(w)
  <2>1. UNCHANGED <<rows, batch>> /\ task' = [task EXCEPT ![w] = FreeTask]
    BY <1>7 DEF SigMissed
  <2>2. TaskOwn(FreeTask)
    BY NoneOwn DEF HeldOwn
  <2>3. TasksOwn'
    BY <1>1, <2>1, <2>2, TasksKept
  <2>4. QED
    BY <1>1, <1>4, <2>1, <2>3 DEF BatchOwn
<1>8. CASE NameMissed(w)
  <2>1. UNCHANGED <<rows, batch>> /\ task' = [task EXCEPT ![w] = NextDomain(task[w])]
    BY <1>8 DEF NameMissed
  <2>2. TaskOwn(NextDomain(task[w]))
    BY NextDomainOwn
  <2>3. TasksOwn'
    BY <1>1, <2>1, <2>2, TasksKept
  <2>4. QED
    BY <1>1, <1>4, <2>1, <2>3 DEF BatchOwn
<1>9. CASE TakeRow(w)
  <2>1. batch \in Seq([domain : Domains, row : Row]) /\ batch # <<>> /\ batch' = Tail(batch)
    BY <1>9, TypedParts DEF TakeRow, RestTyped
  <2>2. /\ Head(batch) = batch[1] /\ 1 \in DOMAIN batch
        /\ Len(Tail(batch)) = Len(batch) - 1
        /\ \A i \in 1 .. Len(Tail(batch)) : Tail(batch)[i] = batch[i + 1]
    BY <2>1, HeadTailProperties
  <2>3. BatchOwn'
    <3>1. \A i \in DOMAIN Tail(batch) : i + 1 \in DOMAIN batch
      BY <2>1, <2>2
    <3>2. DOMAIN Tail(batch) = 1 .. Len(Tail(batch))
      BY <2>1
    <3>3. QED
      BY <1>1, <2>1, <2>2, <3>1, <3>2 DEF BatchOwn
  <2> DEFINE t == [FreeTask EXCEPT !.pc = "resolve",
                      !.domains = <<Head(batch).domain>>, !.row = Head(batch).row]
  <2>4. task' = [task EXCEPT ![w] = t]
    BY <1>9 DEF TakeRow
  <2>5. /\ t.pc = "resolve" /\ t.row = Head(batch).row /\ Head(t.domains) = Head(batch).domain
        /\ t.copies = NoCopies
    BY DEF FreeTask
  <2> HIDE DEF t
  <2>6. TaskOwn(t)
    BY <1>3, <2>2, <2>5 DEF TaskOwn, BatchOwn
  <2>7. TasksOwn'
    BY <1>1, <2>4, <2>6, TasksKept
  <2>8. UNCHANGED rows
    BY <1>9 DEF TakeRow
  <2>9. QED
    BY <1>4, <2>3, <2>7, <2>8
<1>10. ASSUME NEW d \in Domains, UpsertDomain(w, d) PROVE ContentInv'
  <2> DEFINE r == rows'[d]
             t == [FreeTask EXCEPT !.pc = "fill", !.domains = <<d>>, !.row = r]
  <2>1. UNCHANGED batch /\ InsertSkeleton(d, FALSE)
    BY <1>10 DEF UpsertDomain
  <2>2. OnlyOwnContent' /\ r.content \in held[d]
    BY <1>1, <2>1, InsertOwn
  <2>3. task' = task \/ task' = [task EXCEPT ![w] = t]
    BY <1>10 DEF UpsertDomain
  <2> HIDE DEF r
  <2>4. t.pc = "fill" /\ t.row = r /\ Head(t.domains) = d /\ t.copies = NoCopies
    BY DEF FreeTask
  <2> HIDE DEF t
  <2>5. TaskOwn(t)
    BY <1>3, <2>2, <2>4 DEF TaskOwn
  <2>6. TasksOwn'
    BY <1>1, <2>3, <2>5, TasksKept DEF TasksOwn, TaskOwn
  <2>7. QED
    BY <1>1, <1>2, <2>1, <2>2, <2>6 DEF BatchOwn
<1>11. QED
  BY <1>5, <1>6, <1>7, <1>8, <1>9, <1>10

LEMMA OwnApply ==
    ASSUME ConstantsAssumption, Typed, ContentInv, NEW w \in Workers, Apply(w)
    PROVE  ContentInv'
<1> USE OwnParts, OwnPartsNext
<1> DEFINE d == Domain(w)
           row == task[w].row
<1>1. UNCHANGED <<records, held, indexed, batch>>
  BY DEF Apply, Resolve, FindGroup, LeaveGroup, FindSurvivors, TearDown, SaveRow,
         CreateDnsSettings, SyncFromDns, FillOwner, TaskThrows, chainVars, derivedVars
<1>2. HeldOwn' /\ BatchOwn'
  BY <1>1 DEF HeldOwn, BatchOwn
<1>3. /\ rows \in [Domains -> Row] /\ audit \in [Domains -> Cids]
      /\ pointer \in [Domains -> Content] /\ task[w] \in Task
  BY TypedParts DEF RestTyped
<1>4. d \in Domains
  <2>1. task[w].pc # "free"
    BY DEF Apply, Resolve, FindGroup, LeaveGroup, FindSurvivors, TearDown, SaveRow,
           CreateDnsSettings, SyncFromDns, FillOwner, TaskThrows
  <2>2. QED
    BY <2>1, HeadType
<1>5. TaskOwn(task[w]) /\ None \in held[d] /\ records[d] \in held[d]
  BY <1>4 DEF TasksOwn, HeldOwn
<1>6. TaskOwn(NextDomain(task[w]))
  BY NextDomainOwn
<1>7. \A e \in Domains : NoCopies[e].content \in held[e]
  BY NoneOwn DEF HeldOwn
<1>8. ASSUME task[w].pc \in {"find", "leave", "tear"} PROVE TaskOwn(Left(task[w]))
  <2>1. /\ Left(task[w]).pc = "save" /\ Left(task[w]).domains = task[w].domains
        /\ Left(task[w]).row = row /\ Left(task[w]).result = task[w].result
        /\ Left(task[w]).copies = NoCopies
    BY <1>3 DEF Left, Task
  <2>2. QED
    BY <1>5, <1>7, <1>8, <2>1 DEF TaskOwn
<1>9. CASE Resolve(w)
  <2>1. UNCHANGED <<rows, audit, pointer>> /\ task[w].pc = "resolve"
    BY <1>9 DEF Resolve, derivedVars
  <2>2. PICK pc \in {"find", "save"} :
            task' = [task EXCEPT ![w].result = records[d], ![w].pc = pc]
    BY <1>9 DEF Resolve
  <2> DEFINE t == [task[w] EXCEPT !.result = records[d], !.pc = pc]
  <2>3. task' = [task EXCEPT ![w] = t]
    BY <2>2
  <2>4. /\ t.pc = pc /\ t.result = records[d] /\ t.row = row /\ t.domains = task[w].domains
        /\ t.copies = task[w].copies
    BY <1>3 DEF Task
  <2> HIDE DEF t
  <2>5. TaskOwn(t)
    BY <1>5, <2>1, <2>2, <2>4 DEF TaskOwn, Domain
  <2>6. TasksOwn'
    BY <1>1, <2>3, <2>5, TasksKept
  <2>7. OnlyOwnContent'
    BY <1>1, <2>1 DEF OnlyOwnContent
  <2>8. QED
    BY <1>2, <2>6, <2>7
<1>10. CASE SaveRow(w)
  <2>1. UNCHANGED <<audit, pointer>> /\ task[w].pc = "save"
    BY <1>10 DEF SaveRow, derivedVars
  <2> DEFINE r == Resolved(row, task[w].result)
             t == [task[w] EXCEPT !.pc = "audit", !.row = r]
             u == IF task[w].result.cid # row.content.cid THEN t ELSE NextDomain(task[w])
  <2>2. row \in Row /\ task[w].result \in Content
    BY <1>3 DEF Task
  <2>3. row.content \in held[d] /\ task[w].result \in held[d]
    BY <1>5, <2>1 DEF TaskOwn, Domain
  <2>4. r.content \in held[d]
    BY <1>5, <2>2, <2>3, ResolvedType
  <2>5. rows' = [rows EXCEPT ![d] = r] /\ task' = [task EXCEPT ![w] = u]
    BY <1>10 DEF SaveRow
  <2> HIDE DEF r
  <2>6. /\ t.pc = "audit" /\ t.row = r /\ t.domains = task[w].domains
        /\ t.result = task[w].result /\ t.copies = task[w].copies
    BY <1>3 DEF Task
  <2> HIDE DEF t
  <2>7. TaskOwn(t)
    BY <1>5, <2>3, <2>4, <2>6 DEF TaskOwn, Domain
  <2>8. TaskOwn(u)
    BY <1>6, <2>7
  <2> HIDE DEF u
  <2>9. TasksOwn'
    BY <1>1, <2>5, <2>8, TasksKept
  <2>10. \A e \in Domains : rows'[e].content = IF e = d THEN r.content ELSE rows[e].content
    BY <1>3, <2>5
  <2>11. OnlyOwnContent'
    BY <1>1, <2>1, <2>4, <2>10 DEF OnlyOwnContent
  <2>12. QED
    BY <1>2, <2>9, <2>11
<1>11. CASE CreateDnsSettings(w)
  <2>1. UNCHANGED <<rows, pointer>> /\ task[w].pc = "audit"
    BY <1>11 DEF CreateDnsSettings
  <2> DEFINE t == [task[w] EXCEPT !.pc = "sync"]
  <2>2. audit' = [audit EXCEPT ![d] = row.content.cid] /\ task' = [task EXCEPT ![w] = t]
    BY <1>11 DEF CreateDnsSettings
  <2>3. /\ t.pc = "sync" /\ t.row = row /\ t.domains = task[w].domains
        /\ t.result = task[w].result /\ t.copies = task[w].copies
    BY <1>3 DEF Task
  <2> HIDE DEF t
  <2>4. row.content \in held[d]
    BY <1>5, <2>1 DEF TaskOwn, Domain
  <2>5. TaskOwn(t)
    BY <1>5, <2>1, <2>3, SameOwn
  <2>6. TasksOwn'
    BY <1>1, <2>2, <2>5, TasksKept
  <2>7. \A e \in Domains : audit'[e] = IF e = d THEN row.content.cid ELSE audit[e]
    BY <1>3, <2>2
  <2>8. OnlyOwnContent'
    BY <1>1, <2>1, <2>4, <2>7 DEF OnlyOwnContent
  <2>9. QED
    BY <1>2, <2>6, <2>8
<1>12. CASE SyncFromDns(w)
  <2>1. UNCHANGED <<rows, audit>> /\ task[w].pc = "sync"
    BY <1>12 DEF SyncFromDns
  <2>2. /\ pointer' = [pointer EXCEPT ![d] = Synced(pointer[d], row.content)]
        /\ task' = [task EXCEPT ![w] = NextDomain(task[w])]
    BY <1>12 DEF SyncFromDns
  <2>3. TasksOwn'
    BY <1>1, <1>6, <2>2, TasksKept
  <2>4. row.content \in held[d]
    BY <1>5, <2>1 DEF TaskOwn, Domain
  <2>5. Synced(pointer[d], row.content) \in held[d]
    BY <1>4, <1>5, <2>4, SyncedValue DEF OnlyOwnContent
  <2>6. \A e \in Domains :
            pointer'[e] = IF e = d THEN Synced(pointer[d], row.content) ELSE pointer[e]
    BY <1>3, <2>2
  <2>7. OnlyOwnContent'
    BY <1>1, <2>1, <2>5, <2>6 DEF OnlyOwnContent
  <2>8. QED
    BY <1>2, <2>3, <2>7
<1>13. CASE TaskThrows(w)
  <2>1. UNCHANGED <<rows, audit, pointer>> /\ task' = [task EXCEPT ![w] = FreeTask]
    BY <1>13 DEF TaskThrows, derivedVars
  <2>2. TaskOwn(FreeTask)
    BY NoneOwn DEF HeldOwn
  <2>3. TasksOwn'
    BY <1>1, <2>1, <2>2, TasksKept
  <2>4. OnlyOwnContent'
    BY <1>1, <2>1 DEF OnlyOwnContent
  <2>5. QED
    BY <1>2, <2>3, <2>4
<1>14. CASE FindGroup(w)
  <2>1. UNCHANGED <<rows, audit, pointer>> /\ task[w].pc = "find"
    BY <1>14 DEF FindGroup, derivedVars
  <2>2. \/ task' = [task EXCEPT ![w] = Left(task[w])]
        \/ \E g, pc : task' = [task EXCEPT ![w] = [task[w] EXCEPT !.group = g, !.pc = pc]]
    BY <1>14 DEF FindGroup
  <2>3. ASSUME NEW g, NEW pc PROVE TaskOwn([task[w] EXCEPT !.group = g, !.pc = pc])
    <3> DEFINE t == [task[w] EXCEPT !.group = g, !.pc = pc]
    <3>1. /\ t.domains = task[w].domains /\ t.row = row /\ t.result = task[w].result
          /\ t.copies = task[w].copies
      BY <1>3 DEF Task
    <3> HIDE DEF t
    <3>2. TaskOwn(t)
      BY <1>5, <2>1, <3>1, SameOwn
    <3>3. QED
      BY <3>2 DEF t
  <2>4. TasksOwn'
    BY <1>1, <1>8, <2>1, <2>2, <2>3, TasksKept
  <2>5. QED
    BY <1>1, <1>2, <2>1, <2>4 DEF OnlyOwnContent
<1>15. CASE LeaveGroup(w)
  <2>1. /\ UNCHANGED <<rows, audit, pointer>> /\ task[w].pc = "leave"
        /\ task' = [task EXCEPT ![w] = Left(task[w])]
    BY <1>15 DEF LeaveGroup
  <2>2. TasksOwn'
    BY <1>1, <1>8, <2>1, TasksKept
  <2>3. QED
    BY <1>1, <1>2, <2>1, <2>2 DEF OnlyOwnContent
<1>16. CASE FindSurvivors(w)
  <2>1. UNCHANGED <<rows, audit, pointer>> /\ task[w].pc = "elect"
    BY <1>16 DEF FindSurvivors, derivedVars
  <2> DEFINE copies == [e \in Domains |-> IF e \in Survivors(w) THEN rows[e] ELSE Skeleton]
             t == [task[w] EXCEPT !.pc = "tear", !.copies = copies]
  <2>2. task' = [task EXCEPT ![w] = t]
    BY <1>16 DEF FindSurvivors
  <2>3. \A e \in Domains : copies[e].content \in held[e]
    BY SkeletonType DEF OnlyOwnContent, HeldOwn
  <2> HIDE DEF copies
  <2>4. /\ t.pc = "tear" /\ t.domains = task[w].domains /\ t.row = row
        /\ t.result = task[w].result /\ t.copies = copies
    BY <1>3 DEF Task
  <2> HIDE DEF t
  <2>5. TaskOwn(t)
    BY <1>5, <2>1, <2>3, <2>4 DEF TaskOwn
  <2>6. TasksOwn'
    BY <1>1, <2>2, <2>5, TasksKept
  <2>7. QED
    BY <1>1, <1>2, <2>1, <2>6 DEF OnlyOwnContent
<1>17. CASE TearDown(w)
  <2>1. /\ UNCHANGED <<audit, pointer>> /\ task[w].pc = "tear"
        /\ task' = [task EXCEPT ![w] = Left(task[w])]
    BY <1>17 DEF TearDown
  <2>2. TasksOwn'
    BY <1>1, <1>8, <2>1, TasksKept
  <2>3. ASSUME NEW e \in Domains PROVE rows'[e].content \in held[e]
    <3>1. /\ task[w].copies[e] \in Row /\ task[w].copies[e].content \in held[e]
          /\ rows[e].content \in held[e]
      BY <1>3, <1>5 DEF Task, TaskOwn, OnlyOwnContent
    <3>2. [task[w].copies[e] EXCEPT !.unseen = TRUE].content = task[w].copies[e].content
      BY <3>1 DEF Row
    <3>3. rows'[e] \in {[task[w].copies[e] EXCEPT !.unseen = TRUE], rows[e]}
      BY <1>17 DEF TearDown
    <3>4. QED
      BY <3>1, <3>2, <3>3
  <2>4. OnlyOwnContent'
    BY <1>1, <2>1, <2>3 DEF OnlyOwnContent
  <2>5. QED
    BY <1>2, <2>2, <2>4
<1>18. CASE FillOwner(w)
  <2>1. /\ UNCHANGED <<audit, pointer>> /\ task[w].pc = "fill"
        /\ task' = [task EXCEPT ![w] = FreeTask]
    BY <1>18 DEF FillOwner, derivedVars
  <2>2. TasksOwn'
    BY <1>1, <2>1, NoneOwn, TasksKept DEF HeldOwn
  <2> DEFINE r == [row EXCEPT !.bare = FALSE]
  <2>3. rows' = [rows EXCEPT ![d] = r]
    BY <1>18 DEF FillOwner
  <2>4. r.content = row.content
    BY <1>3 DEF Task, Row
  <2> HIDE DEF r
  <2>5. row.content \in held[d]
    BY <1>5, <2>1 DEF TaskOwn, Domain
  <2>6. \A e \in Domains : rows'[e].content = IF e = d THEN row.content ELSE rows[e].content
    BY <1>3, <2>3, <2>4
  <2>7. OnlyOwnContent'
    BY <1>1, <2>1, <2>5, <2>6 DEF OnlyOwnContent
  <2>8. QED
    BY <1>2, <2>2, <2>7
<1>19. QED
  BY <1>9, <1>10, <1>11, <1>12, <1>13, <1>14, <1>15, <1>16, <1>17, <1>18 DEF Apply

LEMMA OwnNext ==
    ASSUME ConstantsAssumption, Typed, ContentInv, [Next]_vars
    PROVE  ContentInv'
<1>1. CASE UNCHANGED vars
  <2>1. UNCHANGED <<records, held, rows, audit, pointer, indexed, batch, task>>
    BY <1>1 DEF vars, chainVars, derivedVars, bookVars
  <2>2. QED
    BY <2>1 DEF ContentInv, OnlyOwnContent, TaskOwn
<1>2. CASE Next
  BY <1>2, OwnWorld, OwnTicks, OwnTakes, OwnApply DEF Next, Workers
<1>3. QED
  BY <1>1, <1>2

(***************************************************************************)
(* Whatever a worker carries from one step to the next, the row a tick has *)
(* loaded, the content a task resolved, the row a save returned, is of the *)
(* domain it works on, however tasks, faults and the two jobs overlap.     *)
(***************************************************************************)
THEOREM ContentCarried == Spec => []ContentInv
<1>1. ConstantsAssumption /\ Init => Typed /\ ContentInv
  BY TypedInit, OwnInit
<1>2. ConstantsAssumption /\ Typed /\ ContentInv /\ [Next]_vars => (Typed /\ ContentInv)'
  BY TypedNext, OwnNext
<1>3. QED
  BY <1>1, <1>2, ConstantsAssumption, PTL DEF Spec

(***************************************************************************)
(* Whatever is written of a domain its own records said at some time.      *)
(* ContentInv is needed because a save writes what a task loaded and       *)
(* resolved steps earlier.                                                 *)
(***************************************************************************)
THEOREM OwnContent == Spec => []OnlyOwnContent
<1>1. ContentInv => OnlyOwnContent
  BY DEF ContentInv
<1>2. QED
  BY <1>1, ContentCarried, PTL

-----------------------------------------------------------------------------
(***************************************************************************)
(* What hangs on a row.  Domain by domain, a step keeps it that leaves the *)
(* content alone and raises the flag if anything, or that is counted among *)
(* the things that have befallen the domain.                               *)
(***************************************************************************)
FollowedAt(d) ==
    /\ d \in Indexed /\ spoilt[d] < Reverted => Announced(d)
    /\ spoilt[d] = Untouched => Audited(d) /\ Pointed(d)

LEMMA FollowedEverywhere == RowFollowed <=> \A d \in Domains : FollowedAt(d)
  BY DEF RowFollowed, FollowedAt

LEMMA FollowedEverywhereNext == RowFollowed' <=> \A d \in Domains : FollowedAt(d)'
  BY DEF RowFollowed, FollowedAt

LEMMA MarksOrder ==
    /\ Untouched < Reverted /\ Adrift < Reverted /\ Reverted <= Reverted /\ Reverted < Restored
    /\ Untouched < Adrift
    /\ \A m \in Marks : m >= Untouched /\ (m >= Adrift => m # Untouched)
    /\ \A m, n \in Marks : m >= n /\ m < Reverted => n < Reverted
    /\ \A m, n \in Marks : m >= n /\ m = Untouched => n = Untouched
    /\ \A m \in Marks : m >= Reverted => ~(m < Reverted) /\ m # Untouched
  BY DEF Marks, Untouched, Adrift, Reverted, Restored

LEMMA FollowInit == ConstantsAssumption /\ Init => RowFollowed
<1> SUFFICES ASSUME ConstantsAssumption, Init, NEW d \in Domains PROVE FollowedAt(d)
  BY FollowedEverywhere
<1>1. Before[d] \in Content
  BY DEF Init, Before, Content
<1>2. rows[d].content = Before[d] /\ indexed[d] = Before[d] /\ audit[d] = Before[d].cid
  BY <1>1, FirstRowType DEF Init
<1>3. Refused(Before[d]) \/ pointer[d] = PointerFor(Before[d])
  BY DEF Init
<1>4. QED
  BY <1>2, <1>3 DEF FollowedAt, Announced, Audited, Pointed

(* A value without a name is no value. *)
LEMMA NamelessIsNone ==
    ASSUME ConstantsAssumption, NEW v \in Content, v.cid = "none"
    PROVE  v = None
  BY DEF ConstantsAssumption, Content

(* Without an audit row to write the content stays; the flag falls only with it. *)
LEMMA ResolvedFollows ==
    ASSUME ConstantsAssumption, NEW row \in Row, NEW result \in Content
    PROVE  /\ result.cid = row.content.cid => Resolved(row, result).content = row.content
           /\ \/ Resolved(row, result).content = None
              \/ Resolved(row, result).unseen
              \/ /\ Resolved(row, result).content = row.content
                 /\ Resolved(row, result).unseen = row.unseen
<1>1. None.cid = "none" /\ row.content \in Content
  BY DEF None, Row
<1>2. CASE result = None
  <2>1. Resolved(row, result).content = None
    BY <1>2 DEF Resolved, Miss
  <2>2. QED
    BY <1>1, <1>2, <2>1, NamelessIsNone
<1>3. CASE result # None /\ result.cid = row.content.cid
  <2>1. Resolved(row, result) = HitSame(row)
    BY <1>3 DEF Resolved
  <2>2. HitSame(row).content = row.content /\ HitSame(row).unseen = row.unseen
    BY DEF HitSame, Row
  <2>3. QED
    BY <2>1, <2>2
<1>4. CASE result # None /\ result.cid # row.content.cid
  <2>1. Resolved(row, result) = Hit(row, result)
    BY <1>4 DEF Resolved
  <2>2. QED
    BY <1>4, <2>1 DEF Hit
<1>5. QED
  BY <1>2, <1>3, <1>4

(* Who is about to write an audit row or a pointer still is, if it has not moved. *)
LEMMA StillAboutTo ==
    ASSUME NEW pcs, NEW d \in Domains, AboutTo(pcs, d), rows'[d].content = rows[d].content,
           \A v \in Workers : Following(task[v], d) /\ task[v].pc \in pcs => task'[v] = task[v]
    PROVE  AboutTo(pcs, d)'
<1>1. PICK v \in Workers : Following(task[v], d) /\ task[v].pc \in pcs /\ UpToDate(v)
  BY DEF AboutTo
<1>2. task'[v] = task[v] /\ Domain(v) = d
  BY <1>1 DEF Following, Domain
<1>3. UpToDate(v)'
  BY <1>1, <1>2 DEF UpToDate, Domain
<1>4. QED
  BY <1>1, <1>2, <1>3 DEF AboutTo, Following

(* Nothing that hangs on the row of d changes, nor do the tasks about to write it. *)
Unmoved(d) ==
    /\ audit'[d] = audit[d] /\ pointer'[d] = pointer[d]
    /\ \A v \in Workers : Following(task[v], d) => task'[v] = task[v]

LEMMA FollowedOn ==
    ASSUME Typed, Typed', NEW d \in Domains, FollowedAt(d), spoilt'[d] >= spoilt[d],
           rows'[d].content = rows[d].content, indexed'[d] = indexed[d],
           rows'[d].content = None \/ (rows[d].unseen => rows'[d].unseen),
           spoilt'[d] = Untouched => Unmoved(d)
    PROVE  FollowedAt(d)'
<1>1. spoilt[d] \in Marks /\ spoilt'[d] \in Marks
  BY TypedParts, TypedPartsNext DEF RestTyped
<1>2. ASSUME d \in Indexed, spoilt'[d] < Reverted PROVE Announced(d)'
  <2>1. Announced(d)
    BY <1>1, <1>2, MarksOrder DEF FollowedAt
  <2>2. QED
    BY <2>1 DEF Announced
<1>3. ASSUME spoilt'[d] = Untouched PROVE Audited(d)' /\ Pointed(d)'
  <2>1. Audited(d) /\ Pointed(d)
    BY <1>1, <1>3, MarksOrder DEF FollowedAt
  <2>2. /\ audit'[d] = audit[d] /\ pointer'[d] = pointer[d]
        /\ \A v \in Workers : Following(task[v], d) => task'[v] = task[v]
    BY <1>3 DEF Unmoved
  <2>3. AboutTo({"audit"}, d) => AboutTo({"audit"}, d)'
    BY <2>2, StillAboutTo
  <2>4. AboutTo({"audit", "sync"}, d) => AboutTo({"audit", "sync"}, d)'
    BY <2>2, StillAboutTo
  <2>5. QED
    BY <2>1, <2>2, <2>3, <2>4 DEF Audited, Pointed
<1>4. QED
  BY <1>2, <1>3 DEF FollowedAt

(* Nothing is said of a row put back, or of what hangs on one gone adrift. *)
LEMMA PutBack ==
    ASSUME Typed', NEW d \in Domains, spoilt'[d] >= Reverted
    PROVE  FollowedAt(d)'
<1>1. spoilt'[d] \in Marks
  BY TypedPartsNext DEF RestTyped
<1>2. QED
  BY <1>1, MarksOrder DEF FollowedAt

(* A task that moves leaves the others in place, and every domain it is not following. *)
LEMMA OthersStay ==
    ASSUME Typed, NEW w \in Workers, NEW t, task' = [task EXCEPT ![w] = t], NEW d \in Domains,
           ~Following(task[w], d)
    PROVE  \A v \in Workers : Following(task[v], d) => task'[v] = task[v]
<1>1. task \in [Workers -> Task]
  BY TypedParts
<1>2. QED
  BY <1>1

(* The steps that write nothing: of the ticks, and of a task up to its save. *)
LEMMA FollowQuiet ==
    ASSUME Typed, Typed', RowFollowed, UNCHANGED <<audit, pointer, indexed, spoilt>>,
           \A e \in Domains : /\ rows'[e].content = rows[e].content
                              /\ rows'[e].unseen = rows[e].unseen,
           \A v \in Workers : task[v].pc \in {"audit", "sync"} => task'[v] = task[v]
    PROVE  RowFollowed'
<1> SUFFICES ASSUME NEW d \in Domains PROVE FollowedAt(d)'
  BY FollowedEverywhereNext
<1>1. FollowedAt(d)
  BY FollowedEverywhere
<1>2. spoilt'[d] >= spoilt[d]
  <2>1. spoilt[d] \in Marks
    BY TypedParts DEF RestTyped
  <2>2. QED
    BY <2>1 DEF Marks, Untouched, Restored
<1>3. Unmoved(d)
  BY DEF Unmoved, Following
<1>4. QED
  BY <1>1, <1>2, <1>3, FollowedOn

LEMMA FollowWorld ==
    ASSUME ConstantsAssumption, Typed, Typed', RowFollowed, World
    PROVE  RowFollowed'
<1>1. rows \in [Domains -> Row] /\ indexed \in [Domains -> Content] /\ spoilt \in [Domains -> Marks]
  BY TypedParts DEF RestTyped
<1>2. ASSUME NEW n \in Names, WriteRecords(n) PROVE RowFollowed'
  <2>1. UNCHANGED <<rows, audit, pointer, indexed, spoilt, task>>
    BY <1>2 DEF WriteRecords, derivedVars, bookVars
  <2>2. QED
    BY <2>1, FollowQuiet
<1>3. ASSUME NEW d \in Domains, BackfillInserts(d) PROVE RowFollowed'
  <2>1. UNCHANGED <<audit, pointer, indexed, spoilt, task>>
    BY <1>3 DEF BackfillInserts, derivedVars, bookVars
  <2>2. \A e \in Domains : rows'[e].content = rows[e].content /\ rows'[e].unseen = rows[e].unseen
    BY <1>3, InsertType DEF BackfillInserts
  <2>3. QED
    BY <2>1, <2>2, FollowQuiet
<1>4. ASSUME NEW d \in Domains, IndexContent(d) PROVE RowFollowed'
  <2> SUFFICES ASSUME NEW e \in Domains PROVE FollowedAt(e)'
    BY FollowedEverywhereNext
  <2>1. UNCHANGED <<audit, pointer, spoilt, task>>
    BY <1>4 DEF IndexContent, bookVars
  <2> DEFINE r == [rows[d] EXCEPT !.unseen = FALSE]
  <2>2. rows' = [rows EXCEPT ![d] = r] /\ indexed' = [indexed EXCEPT ![d] = rows[d].content]
    BY <1>4 DEF IndexContent
  <2>3. r.content = rows[d].content
    BY <1>1 DEF Row
  <2> HIDE DEF r
  <2>4. FollowedAt(e) /\ spoilt'[e] >= spoilt[e] /\ Unmoved(e)
    BY <1>1, <2>1, FollowedEverywhere DEF Unmoved, Marks, Untouched, Restored
  <2>5. CASE e # d
    BY <1>1, <2>2, <2>4, <2>5, FollowedOn
  <2>6. CASE e = d
    <3>1. rows'[d].content = rows[d].content /\ indexed'[d] = rows[d].content
      BY <1>1, <2>2, <2>3
    <3>2. Announced(d)'
      BY <3>1 DEF Announced
    <3>3. ASSUME spoilt'[d] = Untouched PROVE Audited(d)' /\ Pointed(d)'
      <4>1. Audited(d) /\ Pointed(d)
        BY <2>1, <2>4, <2>6, <3>3 DEF FollowedAt
      <4>2. AboutTo({"audit"}, d) => AboutTo({"audit"}, d)'
        BY <2>1, <3>1, StillAboutTo
      <4>3. AboutTo({"audit", "sync"}, d) => AboutTo({"audit", "sync"}, d)'
        BY <2>1, <3>1, StillAboutTo
      <4>4. QED
        BY <2>1, <3>1, <4>1, <4>2, <4>3 DEF Audited, Pointed
    <3>4. QED
      BY <2>6, <3>2, <3>3 DEF FollowedAt
  <2>7. QED
    BY <2>5, <2>6
<1>5. CASE Crash
  <2> SUFFICES ASSUME NEW e \in Domains PROVE FollowedAt(e)'
    BY FollowedEverywhereNext
  <2>1. UNCHANGED <<rows, audit, pointer, indexed>>
    BY <1>5 DEF Crash, derivedVars
  <2>2. spoilt'[e] = IF \E w \in Workers : Following(task[w], e)
                     THEN Worst(Adrift, spoilt[e]) ELSE spoilt[e]
    BY <1>5 DEF Crash
  <2>3. CASE \E w \in Workers : Following(task[w], e)
    <3>1. spoilt'[e] >= spoilt[e] /\ spoilt'[e] >= Adrift /\ spoilt'[e] \in Marks
      BY <1>1, <2>2, <2>3, MarksType, WorstType
    <3>2. spoilt'[e] # Untouched
      BY <3>1, MarksOrder
    <3>3. QED
      BY <2>1, <3>1, <3>2, FollowedOn, FollowedEverywhere
  <2>4. CASE ~ \E w \in Workers : Following(task[w], e)
    <3>1. spoilt'[e] >= spoilt[e]
      BY <1>1, <2>2, <2>4 DEF Marks, Untouched, Restored
    <3>2. Unmoved(e)
      BY <2>1, <2>4 DEF Unmoved
    <3>3. QED
      BY <2>1, <3>1, <3>2, FollowedOn, FollowedEverywhere
  <2>5. QED
    BY <2>3, <2>4
<1>6. QED
  BY <1>2, <1>3, <1>4, <1>5 DEF World

LEMMA FollowTicks ==
    ASSUME Typed, Typed', RowFollowed, StartTick \/ EndTick \/ StartReconcile
    PROVE  RowFollowed'
<1>1. UNCHANGED <<rows, audit, pointer, indexed, spoilt, task>>
  BY DEF StartTick, EndTick, StartReconcile, derivedVars, bookVars
<1>2. QED
  BY <1>1, FollowQuiet

LEMMA FollowTakes ==
    ASSUME ConstantsAssumption, Typed, Typed', RowFollowed, NEW w \in Workers,
           \/ w \in Writers /\ (TakeSig(w) \/ LoadRow(w) \/ SigMissed(w) \/ NameMissed(w))
           \/ w \in Reconcilers /\ TakeRow(w)
           \/ w \in Registrars /\ \E d \in Domains : UpsertDomain(w, d)
    PROVE  RowFollowed'
<1>1. UNCHANGED <<audit, pointer, indexed, spoilt>>
  BY DEF TakeSig, LoadRow, SigMissed, NameMissed, TakeRow, UpsertDomain, derivedVars, bookVars
<1>2. ASSUME NEW e \in Domains
      PROVE  rows'[e].content = rows[e].content /\ rows'[e].unseen = rows[e].unseen
  <2>1. CASE LoadRow(w)
    <3> DEFINE b == Domain(w) \in Ownerless
    <3>1. InsertSkeleton(Domain(w), b) /\ b \in BOOLEAN
      BY <2>1 DEF LoadRow
    <3> HIDE DEF b
    <3>2. Domain(w) \in Domains
      BY <2>1, HeadType DEF LoadRow
    <3>3. QED
      BY <3>1, <3>2, InsertType
  <2>2. ASSUME NEW d \in Domains, UpsertDomain(w, d)
        PROVE  rows'[e].content = rows[e].content /\ rows'[e].unseen = rows[e].unseen
    BY <2>2, InsertType DEF UpsertDomain
  <2>3. CASE TakeSig(w) \/ SigMissed(w) \/ NameMissed(w) \/ TakeRow(w)
    BY <2>3 DEF TakeSig, SigMissed, NameMissed, TakeRow
  <2>4. QED
    BY <2>1, <2>2, <2>3
<1>3. task[w].pc \in {"free", "load"} /\ \E t : task' = [task EXCEPT ![w] = t]
  <2>1. task \in [Workers -> Task]
    BY TypedParts
  <2>2. task = [task EXCEPT ![w] = task[w]]
    BY <2>1
  <2>3. CASE TakeSig(w)
    BY <2>2, <2>3 DEF TakeSig
  <2>4. CASE LoadRow(w)
    <3> DEFINE r == rows'[Domain(w)]
    <3>1. task' = [task EXCEPT ![w].pc = "resolve", ![w].row = r] /\ task[w].pc = "load"
      BY <2>4 DEF LoadRow
    <3> HIDE DEF r
    <3>2. task' = [task EXCEPT ![w] = [task[w] EXCEPT !.pc = "resolve", !.row = r]]
      BY <3>1
    <3>3. QED
      BY <3>1, <3>2
  <2>5. CASE SigMissed(w) \/ NameMissed(w) \/ TakeRow(w)
    BY <2>5 DEF SigMissed, NameMissed, TakeRow
  <2>6. ASSUME NEW d \in Domains, UpsertDomain(w, d)
        PROVE  task[w].pc \in {"free", "load"} /\ \E t : task' = [task EXCEPT ![w] = t]
    BY <2>2, <2>6 DEF UpsertDomain
  <2>7. QED
    BY <2>3, <2>4, <2>5, <2>6
<1>4. \A v \in Workers : task[v].pc \in {"audit", "sync"} => task'[v] = task[v]
  <2>1. task \in [Workers -> Task]
    BY TypedParts
  <2>2. \A v \in Workers \ {w} : task'[v] = task[v]
    BY <1>3, <2>1
  <2>3. QED
    BY <1>3, <2>2
<1>5. QED
  BY <1>1, <1>2, <1>4, FollowQuiet

(* Up to its save a task writes no row, audit row or pointer. *)
LEMMA FollowGroup ==
    ASSUME ConstantsAssumption, Typed, Typed', RowFollowed, NEW w \in Workers,
           Resolve(w) \/ FindGroup(w) \/ LeaveGroup(w) \/ FindSurvivors(w)
    PROVE  RowFollowed'
<1>1. UNCHANGED <<rows, audit, pointer, indexed, spoilt>>
  BY DEF Resolve, FindGroup, LeaveGroup, FindSurvivors, derivedVars, bookVars
<1>2. task[w].pc \notin {"audit", "sync"}
  BY DEF Resolve, FindGroup, LeaveGroup, FindSurvivors
<1>3. \A v \in Workers \ {w} : task'[v] = task[v]
  <2>1. task \in [Workers -> Task]
    BY TypedParts
  <2>2. QED
    BY <2>1 DEF Resolve, FindGroup, LeaveGroup, FindSurvivors
<1>4. \A v \in Workers : task[v].pc \in {"audit", "sync"} => task'[v] = task[v]
  BY <1>2, <1>3
<1>5. QED
  BY <1>1, <1>4, FollowQuiet

LEMMA FollowTearDown ==
    ASSUME ConstantsAssumption, Typed, Typed', RowFollowed, NEW w \in Workers, TearDown(w)
    PROVE  RowFollowed'
<1> SUFFICES ASSUME NEW d \in Domains PROVE FollowedAt(d)'
  BY FollowedEverywhereNext
<1> DEFINE copy == [task[w].copies[d] EXCEPT !.unseen = TRUE]
<1>1. /\ UNCHANGED <<audit, pointer, indexed>> /\ task[w].pc = "tear"
      /\ task' = [task EXCEPT ![w] = Left(task[w])]
      /\ rows'[d] = IF d \in Survivors(w) THEN copy ELSE rows[d]
      /\ spoilt'[d] = IF d \in Survivors(w) /\ Outdated(copy, d) THEN Restored ELSE spoilt[d]
  BY DEF TearDown
<1>2. task[w] \in Task /\ spoilt[d] \in Marks
  BY TypedParts DEF RestTyped
<1>3. copy.unseen
  BY <1>2 DEF Task, Row
<1> HIDE DEF copy
<1>4. Unmoved(d)
  <2>1. ~Following(task[w], d)
    BY <1>1 DEF Following
  <2>2. QED
    BY <1>1, <2>1, OthersStay DEF Unmoved
<1>5. CASE d \in Survivors(w) /\ Outdated(copy, d)
  <2>1. spoilt'[d] >= Reverted
    BY <1>1, <1>5 DEF Restored, Reverted
  <2>2. QED
    BY <2>1, PutBack
<1>6. CASE ~(d \in Survivors(w) /\ Outdated(copy, d))
  <2>1. spoilt'[d] = spoilt[d] /\ spoilt'[d] >= spoilt[d]
    BY <1>1, <1>2, <1>6 DEF Marks, Untouched, Restored
  <2>2. rows'[d].content = rows[d].content /\ (rows[d].unseen => rows'[d].unseen)
    BY <1>1, <1>3, <1>6 DEF Outdated
  <2>3. QED
    BY <1>1, <1>4, <2>1, <2>2, FollowedOn, FollowedEverywhere
<1>7. QED
  BY <1>5, <1>6

LEMMA FollowFill ==
    ASSUME ConstantsAssumption, Typed, Typed', RowFollowed, NEW w \in Workers, FillOwner(w)
    PROVE  RowFollowed'
<1> SUFFICES ASSUME NEW d \in Domains PROVE FollowedAt(d)'
  BY FollowedEverywhereNext
<1> DEFINE r == [task[w].row EXCEPT !.bare = FALSE]
<1>1. /\ UNCHANGED <<audit, pointer, indexed>> /\ task[w].pc = "fill"
      /\ task' = [task EXCEPT ![w] = FreeTask]
      /\ rows' = [rows EXCEPT ![Domain(w)] = r]
      /\ spoilt' = [spoilt EXCEPT ![Domain(w)] =
            IF Outdated(task[w].row, Domain(w)) THEN Restored ELSE spoilt[Domain(w)]]
  BY DEF FillOwner, derivedVars
<1>2. /\ task[w] \in Task /\ rows \in [Domains -> Row] /\ spoilt \in [Domains -> Marks]
      /\ spoilt[d] \in Marks
  BY TypedParts DEF RestTyped
<1>3. r.content = task[w].row.content /\ r.unseen = task[w].row.unseen
  BY <1>2 DEF Task, Row
<1> HIDE DEF r
<1>4. Unmoved(d)
  <2>1. ~Following(task[w], d)
    BY <1>1 DEF Following
  <2>2. QED
    BY <1>1, <2>1, OthersStay DEF Unmoved
<1>5. CASE d = Domain(w) /\ Outdated(task[w].row, d)
  <2>1. spoilt'[d] >= Reverted
    BY <1>1, <1>2, <1>5 DEF Restored, Reverted
  <2>2. QED
    BY <2>1, PutBack
<1>6. CASE ~(d = Domain(w) /\ Outdated(task[w].row, d))
  <2>1. spoilt'[d] = spoilt[d] /\ spoilt'[d] >= spoilt[d]
    BY <1>1, <1>2, <1>6 DEF Marks, Untouched, Restored
  <2>2. rows'[d].content = rows[d].content /\ (rows[d].unseen => rows'[d].unseen)
    BY <1>1, <1>2, <1>3, <1>6 DEF Outdated
  <2>3. QED
    BY <1>1, <1>4, <2>1, <2>2, FollowedOn, FollowedEverywhere
<1>7. QED
  BY <1>5, <1>6

LEMMA FollowSave ==
    ASSUME ConstantsAssumption, Typed, Typed', RowFollowed, NEW w \in Workers, SaveRow(w)
    PROVE  RowFollowed'
<1> SUFFICES ASSUME NEW d \in Domains PROVE FollowedAt(d)'
  BY FollowedEverywhereNext
<1> PICK row : row = task[w].row
  OBVIOUS
<1> PICK result : result = task[w].result
  OBVIOUS
<1> PICK r : r = Resolved(row, result)
  OBVIOUS
<1> PICK t : t = [task[w] EXCEPT !.pc = "audit", !.row = r]
  OBVIOUS
<1> DEFINE changed == result.cid # row.content.cid
<1>1. /\ UNCHANGED <<audit, pointer, indexed>> /\ task[w].pc = "save"
      /\ rows' = [rows EXCEPT ![Domain(w)] = r]
      /\ task' = [task EXCEPT ![w] = IF changed THEN t ELSE NextDomain(task[w])]
  BY DEF SaveRow, derivedVars
<1>2. spoilt' = [spoilt EXCEPT ![Domain(w)] =
          IF changed THEN Untouched
          ELSE IF Outdated(row, Domain(w)) THEN Worst(Reverted, spoilt[Domain(w)])
          ELSE spoilt[Domain(w)]]
  BY DEF SaveRow
<1>3. /\ task \in [Workers -> Task] /\ task[w] \in Task /\ rows \in [Domains -> Row]
      /\ spoilt \in [Domains -> Marks] /\ spoilt[d] \in Marks
  BY TypedParts DEF RestTyped
<1>4. row \in Row /\ result \in Content
  BY <1>3 DEF Task
<1>5. Unmoved(d)
  <2>1. ~Following(task[w], d)
    BY <1>1 DEF Following
  <2>2. QED
    BY <1>1, <2>1, OthersStay DEF Unmoved
<1>6. CASE d # Domain(w)
  <2>1. rows'[d] = rows[d] /\ spoilt'[d] = spoilt[d] /\ spoilt'[d] >= spoilt[d]
    BY <1>1, <1>2, <1>3, <1>6 DEF Marks, Untouched, Restored
  <2>2. QED
    BY <1>1, <1>5, <2>1, FollowedOn, FollowedEverywhere
<1>7. CASE d = Domain(w) /\ changed
  <2>1. rows'[d] = r /\ task'[w] = t
    BY <1>1, <1>3, <1>7
  <2>2. t.pc = "audit" /\ t.row = r /\ t.domains = task[w].domains
    BY <1>3 DEF Task
  <2>3. r.content = None \/ r.unseen
    <3>1. r = Miss(row) \/ r = Hit(row, result)
      BY <1>7 DEF Resolved
    <3>2. Miss(row).content = None /\ Hit(row, result).unseen
      BY <1>4 DEF Miss, Hit, Row
    <3>3. QED
      BY <3>1, <3>2
  <2>4. Announced(d)'
    BY <2>1, <2>3 DEF Announced
  <2>5. AboutTo({"audit"}, d)' /\ AboutTo({"audit", "sync"}, d)'
    <3>1. Following(task[w], d)' /\ task'[w].pc = "audit"
      BY <1>7, <2>1, <2>2 DEF Following, Domain
    <3>2. UpToDate(w)'
      BY <1>7, <2>1, <2>2 DEF UpToDate, Domain
    <3>3. QED
      BY <3>1, <3>2 DEF AboutTo
  <2>6. QED
    BY <2>4, <2>5 DEF FollowedAt, Audited, Pointed
<1>8. CASE d = Domain(w) /\ ~changed /\ Outdated(row, d)
  <2>1. Worst(Reverted, spoilt[d]) >= Reverted
    BY <1>3, MarksType, WorstType
  <2>2. spoilt'[d] >= Reverted
    BY <1>2, <1>3, <1>8, <2>1
  <2>3. QED
    BY <2>2, PutBack
<1>9. CASE d = Domain(w) /\ ~changed /\ ~Outdated(row, d)
  <2>1. rows'[d] = r /\ spoilt'[d] = spoilt[d] /\ spoilt'[d] >= spoilt[d]
    BY <1>1, <1>2, <1>3, <1>9 DEF Marks, Untouched, Restored
  <2>2. r.content = row.content /\ (r.content = None \/ r.unseen \/ r.unseen = row.unseen)
    BY <1>4, <1>9, ResolvedFollows
  <2>3. rows'[d].content = rows[d].content
    BY <1>9, <2>1, <2>2 DEF Outdated
  <2>4. rows'[d].content = None \/ (rows[d].unseen => rows'[d].unseen)
    BY <1>9, <2>1, <2>2 DEF Outdated
  <2>5. QED
    BY <1>1, <1>5, <2>1, <2>3, <2>4, FollowedOn, FollowedEverywhere
<1>10. QED
  BY <1>6, <1>7, <1>8, <1>9

(* A write of an audit row or a pointer that is late cuts it off from its row. *)
LEMMA FollowLate ==
    ASSUME Typed, Typed', RowFollowed, NEW d \in Domains, UNCHANGED <<rows, indexed>>,
           spoilt'[d] = Worst(Adrift, spoilt[d])
    PROVE  FollowedAt(d)'
<1>1. spoilt[d] \in Marks
  BY TypedParts DEF RestTyped
<1>2. spoilt'[d] >= spoilt[d] /\ spoilt'[d] >= Adrift /\ spoilt'[d] \in Marks
  BY <1>1, MarksType, WorstType
<1>3. spoilt'[d] # Untouched
  BY <1>2, MarksOrder
<1>4. QED
  BY <1>2, <1>3, FollowedOn, FollowedEverywhere

LEMMA FollowAudit ==
    ASSUME ConstantsAssumption, Typed, Typed', RowFollowed, NEW w \in Workers,
           CreateDnsSettings(w)
    PROVE  RowFollowed'
<1> SUFFICES ASSUME NEW d \in Domains PROVE FollowedAt(d)'
  BY FollowedEverywhereNext
<1> PICK t : t = [task[w] EXCEPT !.pc = "sync"]
  OBVIOUS
<1>1. /\ UNCHANGED <<rows, pointer, indexed>> /\ task[w].pc = "audit"
      /\ audit' = [audit EXCEPT ![Domain(w)] = task[w].row.content.cid]
      /\ task' = [task EXCEPT ![w] = t]
      /\ spoilt' = [spoilt EXCEPT ![Domain(w)] =
            IF UpToDate(w) THEN spoilt[Domain(w)] ELSE Worst(Adrift, spoilt[Domain(w)])]
  BY DEF CreateDnsSettings
<1>2. /\ audit \in [Domains -> Cids] /\ task \in [Workers -> Task] /\ task[w] \in Task
      /\ spoilt \in [Domains -> Marks] /\ spoilt[d] \in Marks
  BY TypedParts DEF RestTyped
<1>3. t.pc = "sync" /\ t.row = task[w].row /\ t.domains = task[w].domains /\ task'[w] = t
  BY <1>1, <1>2 DEF Task
<1>4. CASE d # Domain(w)
  <2>1. spoilt'[d] = spoilt[d] /\ spoilt'[d] >= spoilt[d] /\ audit'[d] = audit[d]
    BY <1>1, <1>2, <1>4 DEF Marks, Untouched, Restored
  <2>2. ~Following(task[w], d)
    BY <1>4 DEF Following, Domain
  <2>3. Unmoved(d)
    BY <1>1, <2>1, <2>2, OthersStay DEF Unmoved
  <2>4. QED
    BY <1>1, <2>1, <2>3, FollowedOn, FollowedEverywhere
<1>5. CASE d = Domain(w) /\ ~UpToDate(w)
  BY <1>1, <1>2, <1>5, FollowLate
<1>6. CASE d = Domain(w) /\ UpToDate(w)
  <2>1. spoilt'[d] = spoilt[d] /\ FollowedAt(d)
    BY <1>1, <1>2, <1>6, FollowedEverywhere
  <2>2. audit'[d] = rows'[d].content.cid
    BY <1>1, <1>2, <1>6 DEF UpToDate
  <2>3. AboutTo({"audit", "sync"}, d)'
    <3>1. Following(task[w], d)' /\ task'[w].pc = "sync"
      BY <1>3, <1>6 DEF Following, Domain
    <3>2. UpToDate(w)'
      BY <1>1, <1>3, <1>6 DEF UpToDate, Domain
    <3>3. QED
      BY <3>1, <3>2 DEF AboutTo
  <2>4. QED
    BY <1>1, <2>1, <2>2, <2>3 DEF FollowedAt, Announced, Audited, Pointed
<1>7. QED
  BY <1>4, <1>5, <1>6

LEMMA FollowSync ==
    ASSUME ConstantsAssumption, Typed, Typed', RowFollowed, NEW w \in Workers, SyncFromDns(w)
    PROVE  RowFollowed'
<1> SUFFICES ASSUME NEW d \in Domains PROVE FollowedAt(d)'
  BY FollowedEverywhereNext
<1> PICK content : content = task[w].row.content
  OBVIOUS
<1>1. /\ UNCHANGED <<rows, audit, indexed>> /\ task[w].pc = "sync"
      /\ pointer' = [pointer EXCEPT ![Domain(w)] = Synced(pointer[Domain(w)], content)]
      /\ task' = [task EXCEPT ![w] = NextDomain(task[w])]
      /\ spoilt' = [spoilt EXCEPT ![Domain(w)] =
            IF UpToDate(w) THEN spoilt[Domain(w)] ELSE Worst(Adrift, spoilt[Domain(w)])]
  BY DEF SyncFromDns
<1>2. /\ pointer \in [Domains -> Content] /\ task \in [Workers -> Task]
      /\ spoilt \in [Domains -> Marks] /\ spoilt[d] \in Marks
  BY TypedParts DEF RestTyped
<1>3. CASE d # Domain(w)
  <2>1. spoilt'[d] = spoilt[d] /\ spoilt'[d] >= spoilt[d] /\ pointer'[d] = pointer[d]
    BY <1>1, <1>2, <1>3 DEF Marks, Untouched, Restored
  <2>2. ~Following(task[w], d)
    BY <1>3 DEF Following, Domain
  <2>3. Unmoved(d)
    BY <1>1, <2>1, <2>2, OthersStay DEF Unmoved
  <2>4. QED
    BY <1>1, <2>1, <2>3, FollowedOn, FollowedEverywhere
<1>4. CASE d = Domain(w) /\ ~UpToDate(w)
  BY <1>1, <1>2, <1>4, FollowLate
<1>5. CASE d = Domain(w) /\ UpToDate(w)
  <2>1. spoilt'[d] = spoilt[d] /\ FollowedAt(d)
    BY <1>1, <1>2, <1>5, FollowedEverywhere
  <2>2. AboutTo({"audit"}, d) => AboutTo({"audit"}, d)'
    <3>1. \A v \in Workers : Following(task[v], d) /\ task[v].pc \in {"audit"} =>
              task'[v] = task[v]
      BY <1>1, <1>2
    <3>2. QED
      BY <1>1, <3>1, StillAboutTo
  <2>3. Audited(d) => Audited(d)'
    BY <1>1, <2>2 DEF Audited
  <2>4. pointer'[d] = Synced(pointer[d], content) /\ content = rows[d].content
    BY <1>1, <1>2, <1>5 DEF UpToDate
  <2>5. Refused(content) \/ Synced(pointer[d], content).cid = PointerFor(content).cid
    BY DEF Synced
  <2>6. (Refused(rows[d].content) \/ pointer[d].cid = PointerFor(rows[d].content).cid)'
    BY <1>1, <2>4, <2>5 DEF Refused, PointerFor, None
  <2>7. Pointed(d)'
    BY <2>6 DEF Pointed
  <2>8. QED
    BY <1>1, <2>1, <2>3, <2>7 DEF FollowedAt, Announced
<1>6. QED
  BY <1>3, <1>4, <1>5

LEMMA FollowThrow ==
    ASSUME ConstantsAssumption, Typed, Typed', RowFollowed, NEW w \in Workers, TaskThrows(w)
    PROVE  RowFollowed'
<1> SUFFICES ASSUME NEW d \in Domains PROVE FollowedAt(d)'
  BY FollowedEverywhereNext
<1>1. /\ UNCHANGED <<rows, audit, pointer, indexed>>
      /\ task' = [task EXCEPT ![w] = FreeTask]
      /\ spoilt'[d] = IF Following(task[w], d) THEN Worst(Adrift, spoilt[d]) ELSE spoilt[d]
  BY DEF TaskThrows, derivedVars
<1>2. CASE Following(task[w], d)
  BY <1>1, <1>2, FollowLate
<1>3. CASE ~Following(task[w], d)
  <2>1. spoilt[d] \in Marks
    BY TypedParts DEF RestTyped
  <2>2. spoilt'[d] >= spoilt[d]
    BY <1>1, <1>3, <2>1 DEF Marks, Untouched, Restored
  <2>3. Unmoved(d)
    BY <1>1, <1>3, OthersStay DEF Unmoved
  <2>4. QED
    BY <1>1, <2>2, <2>3, FollowedOn, FollowedEverywhere
<1>4. QED
  BY <1>2, <1>3

LEMMA FollowNext ==
    ASSUME ConstantsAssumption, Typed, Typed', RowFollowed, [Next]_vars
    PROVE  RowFollowed'
<1>1. CASE UNCHANGED vars
  <2>1. UNCHANGED <<rows, audit, pointer, indexed, spoilt, task>>
    BY <1>1 DEF vars, derivedVars, bookVars
  <2>2. QED
    BY <2>1, FollowQuiet
<1>2. CASE Next
  <2>1. CASE World \/ StartTick \/ EndTick \/ StartReconcile
    BY <2>1, FollowWorld, FollowTicks
  <2>2. ASSUME NEW w \in Writers, TakeSig(w) \/ LoadRow(w) \/ SigMissed(w) \/ NameMissed(w)
        PROVE  RowFollowed'
    BY <2>2, FollowTakes DEF Workers
  <2>3. ASSUME NEW w \in Reconcilers, TakeRow(w) PROVE RowFollowed'
    BY <2>3, FollowTakes DEF Workers
  <2>4. ASSUME NEW w \in Registrars, NEW d \in Domains, UpsertDomain(w, d) PROVE RowFollowed'
    BY <2>4, FollowTakes DEF Workers
  <2>5. ASSUME NEW w \in Workers, Apply(w) PROVE RowFollowed'
    BY <2>5, FollowGroup, FollowTearDown, FollowSave, FollowAudit, FollowSync, FollowFill,
       FollowThrow DEF Apply
  <2>6. QED
    BY <1>2, <2>1, <2>2, <2>3, <2>4, <2>5 DEF Next
<1>3. QED
  BY <1>1, <1>2

(***************************************************************************)
(* However many workers of the three jobs there are, whatever fails and    *)
(* whichever rows the primary of a group saves along: a domain whose row   *)
(* was not put back stays announced to the indexer, and its audit row and  *)
(* pointer follow its row unless a failed or late step cut them off.       *)
(***************************************************************************)
THEOREM RowsFollowed == Spec => []RowFollowed
<1>1. ConstantsAssumption /\ Init => Typed /\ RowFollowed
  BY TypedInit, FollowInit
<1>2. ConstantsAssumption /\ Typed /\ RowFollowed /\ [Next]_vars => (Typed /\ RowFollowed)'
  BY TypedNext, FollowNext
<1>3. QED
  BY <1>1, <1>2, ConstantsAssumption, PTL DEF Spec

=============================================================================
