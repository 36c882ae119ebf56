------------------------ MODULE SnsCursorJob_proof -------------------------
(***************************************************************************)
(* Proofs about the slot-cursor job, for any set of processes, any page    *)
(* size, page cap, pool width, seed, history and number of faults.         *)
(***************************************************************************)
EXTENDS SnsCursorJob, TLAPS

(* The type of the history: what TypeOK says of chain alone. *)
Entry == [slot : Nat \ {0}, err : BOOLEAN]

LEMMA SlotType ==
  ASSUME TypeOK
  PROVE  /\ Len(chain) \in Nat
         /\ \A i \in Sigs : Slot(i) \in Nat \ {0} /\ chain[i].err \in BOOLEAN
  <1>1. chain \in Seq(Entry)
    BY DEF TypeOK, Entry
  <1>2. \A i \in 1 .. Len(chain) : chain[i] \in Entry
    BY <1>1
  <1> QED BY <1>1, <1>2 DEF Sigs, Slot, Entry

(* A confirmed signature extends the history and changes no earlier entry. *)
LEMMA ConfirmExtends ==
  ASSUME TypeOK, Confirm
  PROVE  /\ chain' \in Seq(Entry)
         /\ Len(chain') = Len(chain) + 1
         /\ \A i \in Sigs : chain'[i] = chain[i]
         /\ Sigs \subseteq Sigs'
         /\ Sigs' = Sigs \cup {Len(chain')}
         /\ chain'[Len(chain')].slot >= TipSlot
  <1>1. PICK s \in TipSlot .. MaxSlot, e \in BOOLEAN :
            chain' = Append(chain, [slot |-> s, err |-> e])
    BY DEF Confirm
  <1>2. TipSlot \in Nat \ {0}
    BY SlotType DEF TipSlot, Sigs
  <1>3. MaxSlot \in Nat
    BY ConstantsAssumption
  <1>4. s \in Nat \ {0} /\ s >= TipSlot
    BY <1>2, <1>3
  <1>5. [slot |-> s, err |-> e] \in Entry
    BY <1>4 DEF Entry
  <1>6. chain \in Seq(Entry) /\ Len(chain) \in Nat
    BY DEF TypeOK, Entry
  <1>7. /\ chain' \in Seq(Entry)
        /\ Len(chain') = Len(chain) + 1
        /\ \A i \in Sigs : chain'[i] = chain[i]
        /\ chain'[Len(chain')] = [slot |-> s, err |-> e]
    BY <1>1, <1>5, <1>6 DEF Sigs
  <1> QED BY <1>4, <1>6, <1>7 DEF Sigs

-----------------------------------------------------------------------------
(***************************************************************************)
(* Type correctness.                                                       *)
(***************************************************************************)
LEMMA InitType == Init => TypeOK
  <1> SUFFICES ASSUME Init PROVE TypeOK
    OBVIOUS
  <1>1. chain \in Seq([slot : Nat \ {0}, err : BOOLEAN])
    BY ConstantsAssumption DEF Init
  <1>2. job \in [Procs -> Job]
    BY DEF Init, Idle, Job
  <1> QED BY <1>1, <1>2 DEF Init, TypeOK

LEMMA IdleType == Idle \in Job
  BY DEF Idle, Job

LEMMA WalkType ==
  ASSUME TypeOK, NEW p \in Procs
  PROVE  /\ Before(p) \in 1 .. Len(chain) + 1 /\ Until(p) \in Nat /\ Oldest(p) \in Nat
         /\ Oldest(p) > Until(p)
         /\ Page(p) \subseteq Sigs
         /\ Collected(p) \subseteq Sigs
         /\ Page(p) # {} => Oldest(p) \in Page(p)
  <1>1. job[p] \in Job /\ Len(chain) \in Nat
    BY SlotType DEF TypeOK
  <1>2. Before(p) \in 1 .. Len(chain) + 1 /\ Until(p) \in Nat
    BY <1>1, ConstantsAssumption DEF Before, Until, Job, Sigs
  <1>3. Oldest(p) \in Nat /\ Oldest(p) > Until(p)
    BY <1>2, ConstantsAssumption DEF Oldest
  <1>4. Page(p) \subseteq Sigs
    BY <1>1, <1>2, <1>3 DEF Page, Sigs
  <1>5. Collected(p) \subseteq Sigs
    BY <1>1, <1>4 DEF Collected, Job
  <1>6. Page(p) # {} => Oldest(p) \in Page(p)
    BY <1>2, <1>3 DEF Page
  <1> QED BY <1>2, <1>3, <1>4, <1>5, <1>6

LEMMA NextType == TypeOK /\ [Next]_vars => TypeOK'
  <1> SUFFICES ASSUME TypeOK, [Next]_vars PROVE TypeOK'
    OBVIOUS
  <1> DEFINE Rest == /\ cursor' \in Nat /\ coldSlot' \in Nat
                     /\ applied' \subseteq Sigs /\ missed' \subseteq Sigs
                     /\ failed' \subseteq Sigs /\ faults' \in Nat
  <1>1. CASE Confirm
    <2>1. Sigs \subseteq Sigs'
      BY <1>1, ConfirmExtends
    <2>2. job' = job /\ job' \in [Procs -> Job']
      BY <1>1, <2>1 DEF TypeOK, Job, Confirm
    <2>3. chain' \in Seq([slot : Nat \ {0}, err : BOOLEAN])
      BY <1>1, ConfirmExtends DEF Entry
    <2> QED BY <1>1, <2>1, <2>2, <2>3 DEF TypeOK, Confirm, db, outcomes
  <1>2. ASSUME NEW p \in Procs, chain' = chain, Rest,
               NEW t \in Job, job' = [job EXCEPT ![p] = t]
        PROVE  TypeOK'
    <2>1. Sigs' = Sigs /\ Job' = Job
      BY <1>2 DEF Sigs, Job
    <2>2. job' \in [Procs -> Job]
      BY <1>2 DEF TypeOK
    <2> QED BY <1>2, <2>1, <2>2 DEF TypeOK
  <1>3. ASSUME UNCHANGED <<chain, db, outcomes, faults>> PROVE chain' = chain /\ Rest
    BY <1>3 DEF db, outcomes, TypeOK
  <1>4. ASSUME NEW p \in Procs, StartTick(p) PROVE TypeOK'
    <2>1. [Idle EXCEPT !.pc = "walk", !.lastSlot = cursor] \in Job
      BY DEF TypeOK, Idle, Job
    <2> QED BY <1>2, <1>3, <1>4, <2>1 DEF StartTick
  <1>5. ASSUME NEW p \in Procs, FetchPage(p) PROVE TypeOK'
    <2>1. [job[p] EXCEPT !.before = Oldest(p), !.pages = @ + 1, !.sigs = Collected(p)] \in Job
      <3>1. job[p] \in Job
        BY DEF TypeOK
      <3>2. Oldest(p) \in Sigs
        BY <1>5, WalkType DEF FetchPage, WalkEnds
      <3>3. Collected(p) \subseteq Sigs
        BY WalkType
      <3>4. Oldest(p) \in {0} \cup Sigs /\ job[p].pages + 1 \in Nat
        BY <3>1, <3>2 DEF Job
      <3> QED BY <3>1, <3>3, <3>4 DEF Job
    <2>2. job' = [job EXCEPT ![p] = [job[p] EXCEPT !.before = Oldest(p), !.pages = @ + 1,
                                                   !.sigs = Collected(p)]]
      BY <1>5 DEF FetchPage, TypeOK
    <2> QED BY <1>2, <1>3, <1>5, <2>1, <2>2 DEF FetchPage
  <1>6. ASSUME NEW p \in Procs, FetchLastPage(p) PROVE TypeOK'
    <2> DEFINE t == IF Collected(p) = {} THEN Idle
                    ELSE [job[p] EXCEPT !.pc = "work", !.sigs = Collected(p),
                                        !.todo = Collected(p)]
    <2>1. t \in Job
      BY <1>6, WalkType, IdleType DEF TypeOK, Job, FetchLastPage
    <2>2. job' = [job EXCEPT ![p] = t]
      BY <1>6 DEF FetchLastPage, TypeOK
    <2> QED BY <1>2, <1>3, <1>6, <2>1, <2>2 DEF FetchLastPage
  <1>7. ASSUME NEW p \in Procs, TakeSig(p) PROVE TypeOK'
    <2>1. PICK i \in job[p].todo :
             job' = [job EXCEPT ![p].todo = @ \ {i}, ![p].active = @ \cup {i}]
      BY <1>7 DEF TakeSig
    <2>2. [job[p] EXCEPT !.todo = @ \ {i}, !.active = @ \cup {i}] \in Job
      BY DEF TypeOK, Job
    <2>3. job' = [job EXCEPT ![p] = [job[p] EXCEPT !.todo = @ \ {i}, !.active = @ \cup {i}]]
      BY <2>1 DEF TypeOK
    <2> QED BY <1>2, <1>3, <1>7, <2>2, <2>3 DEF TakeSig
  <1>8. ASSUME NEW p \in Procs, NEW i \in Sigs, SigApplied(p, i) \/ SigMissed(p, i)
        PROVE TypeOK'
    <2>1. [job[p] EXCEPT !.active = @ \ {i}] \in Job
      BY DEF TypeOK, Job
    <2>2. job' = [job EXCEPT ![p] = [job[p] EXCEPT !.active = @ \ {i}]]
      BY <1>8 DEF SigApplied, SigMissed, TypeOK
    <2>3. chain' = chain /\ Rest
      BY <1>8 DEF SigApplied, SigMissed, Fault, TypeOK, db
    <2> QED BY <1>2, <2>1, <2>2, <2>3
  <1>9. ASSUME NEW p \in Procs, NEW i \in Sigs, SigThrows(p, i) PROVE TypeOK'
    <2>1. [job[p] EXCEPT !.active = @ \ {i}, !.errors = @ \cup {i}] \in Job
      BY DEF TypeOK, Job
    <2>2. job' = [job EXCEPT ![p] = [job[p] EXCEPT !.active = @ \ {i}, !.errors = @ \cup {i}]]
      BY <1>9 DEF SigThrows, TypeOK
    <2>3. chain' = chain /\ Rest
      BY <1>9 DEF SigThrows, Fault, TypeOK, db
    <2> QED BY <1>2, <2>1, <2>2, <2>3
  <1>10. ASSUME NEW p \in Procs, EndTick(p) PROVE TypeOK'
    <2>1. PICK i \in job[p].sigs : SaveCursor(p, Slot(i))
      BY <1>10 DEF EndTick
    <2>2. Slot(i) \in Nat
      BY SlotType DEF TypeOK, Job
    <2>3. cursor' \in Nat /\ coldSlot' \in Nat
      BY <2>1, <2>2 DEF SaveCursor, TypeOK, db
    <2>4. chain' = chain /\ Rest
      BY <1>10, <2>3 DEF EndTick, outcomes, TypeOK
    <2> QED BY <1>2, <1>10, <2>4, IdleType DEF EndTick
  <1>11. ASSUME NEW p \in Procs, Crash(p) \/ TickFails(p) PROVE TypeOK'
    <2>1. chain' = chain /\ Rest
      BY <1>11 DEF Crash, TickFails, Fault, db, outcomes, TypeOK
    <2> QED BY <1>2, <1>11, <2>1, IdleType DEF Crash, TickFails
  <1>12. CASE UNCHANGED vars
    <2>1. Job' = Job /\ Sigs' = Sigs
      BY <1>12 DEF vars, Job, Sigs
    <2> QED BY <1>12, <2>1 DEF vars, db, outcomes, TypeOK
  <1> QED
    BY <1>1, <1>4, <1>5, <1>6, <1>7, <1>8, <1>9, <1>10, <1>11, <1>12
    DEF Next, Process, Disturb

(***************************************************************************)
(* The job's rows, ticks and histories keep their types.                   *)
(***************************************************************************)
THEOREM TypeCorrect == Spec => []TypeOK
  BY InitType, NextType, PTL DEF Spec

-----------------------------------------------------------------------------
(***************************************************************************)
(* The cursor's invariant.  What a step leaves alone stays true: the       *)
(* guarantee for a slot, because processed signatures stay processed and   *)
(* windows only fill up, and a tick's own invariant.                       *)
(***************************************************************************)
LEMMA WindowSize == Window \in Nat /\ PageLimit \in Nat /\ Window >= PageLimit
  BY ConstantsAssumption DEF Window

LEMMA SafeStays ==
  ASSUME TypeOK, TypeOK', chain' = chain, Settled \subseteq Settled',
         coldSlot' >= coldSlot, NEW s \in Nat, Safe(s)
  PROVE  Safe(s)'
  <1> SUFFICES ASSUME NEW i \in Sigs, Wanted(i), i \notin Settled, Slot(i) < s
               PROVE  Len(chain) - i >= Reach(i)'
    BY DEF Safe, LeftBehind, Sigs, Wanted, Slot
  <1>1. Len(chain) - i >= Reach(i)
    BY DEF Safe, LeftBehind
  <1>2. Slot(i) \in Nat /\ i \in Nat /\ Len(chain) \in Nat
    BY SlotType DEF Sigs
  <1>3. Slot(i)' = Slot(i) /\ coldSlot \in Nat /\ coldSlot' \in Nat
    BY DEF Slot, TypeOK
  <1> QED BY <1>1, <1>2, <1>3, WindowSize DEF Reach

LEMMA TickStays ==
  ASSUME TypeOK, TypeOK', chain' = chain, Settled \subseteq Settled',
         coldSlot' >= coldSlot, NEW q \in Procs, job'[q] = job[q], TickInv(q)
  PROVE  TickInv(q)'
  <1>1. job[q] \in Job
    BY DEF TypeOK
  <1>2. Safe(job[q].lastSlot)'
    BY <1>1, SafeStays DEF TickInv, Job
  <1>3. Known(job[q].lastSlot)'
    BY DEF TickInv, Known, TipSlot, Slot
  <1>4. WalkInv(q)'
    BY DEF TickInv, WalkInv, Sigs, Slot
  <1>5. WorkInv(q)'
    BY DEF TickInv, WorkInv, Sigs, Slot, Wanted
  <1> QED BY <1>2, <1>3, <1>4, <1>5 DEF TickInv

LEMMA ZeroSafe ==
  ASSUME TypeOK
  PROVE  Safe(0) /\ Known(0)
  <1>1. LeftBehind(0) = {}
    BY SlotType DEF LeftBehind
  <1> QED BY <1>1, SlotType DEF Safe, Known, TipSlot, Sigs

LEMMA IdleInv ==
  ASSUME TypeOK, NEW q \in Procs, job[q] = Idle
  PROVE  TickInv(q)
  <1>1. job[q].lastSlot = 0 /\ job[q].pc = "idle"
    BY DEF Idle
  <1> QED BY <1>1, ZeroSafe DEF TickInv, WalkInv, WorkInv

LEMMA InitInv == Init => CursorInv
  <1> SUFFICES ASSUME Init PROVE CursorInv
    OBVIOUS
  <1>1. TypeOK
    BY InitType
  <1>2. \A i \in Sigs : Slot(i) = 1 /\ i <= Seed
    BY ConstantsAssumption DEF Init, Sigs, Slot
  <1>3. Sorted
    BY <1>2 DEF Sorted
  <1>4. Safe(cursor) /\ Known(cursor)
    <2>1. cursor = 0
      BY DEF Init
    <2> QED BY <1>1, <2>1, ZeroSafe
  <1>5. \A p \in Procs : TickInv(p)
    BY <1>1, IdleInv DEF Init
  <1> QED BY <1>3, <1>4, <1>5 DEF CursorInv

(***************************************************************************)
(* A new signature is nowhere below a slot some tick knows, and newer than *)
(* everything a walk has collected.                                        *)
(***************************************************************************)
LEMMA ConfirmInv ==
  ASSUME TypeOK, TypeOK', CursorInv, Confirm
  PROVE  CursorInv'
  <1> DEFINE n == Len(chain)
  <1>0. /\ UNCHANGED <<cursor, coldSlot, job, applied, missed>>
        /\ n \in Nat /\ Sigs = 1 .. n /\ Sigs' = 1 .. (n + 1) /\ Len(chain') = n + 1
    BY ConfirmExtends, SlotType DEF Confirm, db, outcomes, Sigs
  <1>1. \A i \in Sigs : chain'[i] = chain[i] /\ Slot(i)' = Slot(i)
    BY ConfirmExtends DEF Slot
  <1>2. \A i \in Sigs : Slot(i) \in Nat \ {0}
    BY SlotType
  <1>3. chain'[n + 1].slot \in Nat /\ chain'[n + 1].slot >= TipSlot
    <2>1. chain' \in Seq(Entry) /\ chain'[n + 1].slot >= TipSlot
      BY <1>0, ConfirmExtends
    <2>2. chain'[n + 1] \in Entry
      BY <1>0, <2>1
    <2> QED BY <2>1, <2>2 DEF Entry
  <1>4. \A i \in Sigs : Slot(i) <= TipSlot
    BY <1>0, <1>2 DEF CursorInv, Sorted, TipSlot
  <1>6. TipSlot' = chain'[n + 1].slot /\ TipSlot \in Nat
    BY <1>0, <1>2 DEF TipSlot, Slot
  <1>5. Sorted'
    <2>1. ASSUME NEW i \in Sigs PROVE Slot(i)' <= chain'[n + 1].slot
      BY <1>1, <1>2, <1>3, <1>4, <1>6
    <2> QED BY <1>0, <1>1, <2>1, <1>3 DEF CursorInv, Sorted, Slot
  <1>7. ASSUME NEW s \in Nat, Safe(s), Known(s)
        PROVE  Safe(s)' /\ Known(s)'
    <2>1. Known(s)'
      BY <1>3, <1>6, <1>7 DEF Known
    <2>2. ASSUME NEW i \in 1 .. (n + 1), Wanted(i)', i \notin Settled', Slot(i)' < s
          PROVE  Len(chain') - i >= Reach(i)'
      <3>1. i \in Sigs
        BY <1>0, <1>3, <1>6, <1>7, <2>2 DEF Known, Slot
      <3>2. Wanted(i) /\ i \notin Settled /\ Slot(i) < s
        BY <1>0, <1>1, <2>2, <3>1 DEF Wanted, Settled
      <3>3. Len(chain) - i >= Reach(i)
        BY <1>7, <3>1, <3>2 DEF Safe, LeftBehind
      <3>4. Reach(i)' = Reach(i) /\ Reach(i) \in Nat
        BY <1>0, <1>1, <3>1, WindowSize DEF Reach
      <3> QED BY <1>0, <3>1, <3>3, <3>4
    <2> QED BY <1>0, <2>1, <2>2 DEF Safe, LeftBehind
  <1>8. Safe(cursor)' /\ Known(cursor)'
    BY <1>0, <1>7 DEF CursorInv, TypeOK
  <1>9. ASSUME NEW p \in Procs PROVE TickInv(p)'
    <2>1. job[p] \in Job /\ job'[p] = job[p]
      BY <1>0 DEF TypeOK
    <2>2. TickInv(p)
      BY DEF CursorInv
    <2>3. Safe(job[p].lastSlot)' /\ Known(job[p].lastSlot)'
      BY <1>7, <2>1, <2>2 DEF TickInv, Job
    <2>4. \A k \in job[p].sigs : k \in Sigs /\ Slot(k)' <= chain'[n + 1].slot
      BY <1>1, <1>2, <1>3, <1>4, <1>6, <2>1 DEF Job
    <2>5. WalkInv(p)'
      <3>1. SUFFICES ASSUME job[p].pc = "walk", job[p].before # 0
                     PROVE  WalkInv(p)'
        BY <1>0, <2>1, <2>2 DEF TickInv, WalkInv
      <3>2. /\ job[p].before \in Nat /\ job[p].pages * PageLimit \in Nat
            /\ job[p].pages \in Nat
        BY <1>0, <2>1, ConstantsAssumption DEF Job, Sigs
      <3>3. \/ job[p].before = 1
            \/ n + 2 - job[p].before >= job[p].pages * PageLimit
        BY <1>0, <2>2, <3>1, <3>2 DEF TickInv, WalkInv
      <3>4. ASSUME NEW i \in Sigs' \ job[p].sigs, i >= job[p].before,
                   ~chain'[i].err, Slot(i)' >= job[p].lastSlot,
                   NEW k \in job[p].sigs
            PROVE  Slot(k)' <= Slot(i)'
        <4>1. CASE i = n + 1
          BY <2>4, <4>1 DEF Slot
        <4>2. CASE i \in Sigs
          BY <1>1, <2>2, <2>4, <3>1, <3>4, <4>2 DEF TickInv, WalkInv
        <4> QED BY <1>0, <4>1, <4>2
      <3> QED BY <1>0, <2>1, <2>2, <3>1, <3>3, <3>4 DEF TickInv, WalkInv
    <2>6. WorkInv(p)'
      <3>1. SUFFICES ASSUME job[p].pc = "work" PROVE WorkInv(p)'
        BY <2>1 DEF WorkInv
      <3>2. ASSUME NEW i \in Sigs' \ job[p].sigs, Wanted(i)', Slot(i)' >= job[p].lastSlot
            PROVE  \/ \A k \in job[p].sigs : Slot(k)' <= Slot(i)'
                   \/ n + 1 - i >= Window
                   \/ job[p].lastSlot = 0 /\ n + 1 - i >= PageLimit
        <4>1. CASE i = n + 1
          BY <2>4, <4>1 DEF Slot
        <4>2. CASE i \in Sigs
          <5>1. Wanted(i) /\ Slot(i) >= job[p].lastSlot
            BY <1>1, <3>2, <4>2 DEF Wanted
          <5>2. \/ \A k \in job[p].sigs : Slot(k) <= Slot(i)
                \/ n - i >= Window
                \/ job[p].lastSlot = 0 /\ n - i >= PageLimit
            BY <2>2, <3>1, <3>2, <4>2, <5>1 DEF TickInv, WorkInv
          <5> QED BY <1>0, <1>1, <2>4, <4>2, <5>2, WindowSize
        <4> QED BY <1>0, <4>1, <4>2
      <3>3. Settled' = Settled
        BY <1>0 DEF Settled
      <3> QED BY <1>0, <2>1, <2>2, <3>1, <3>2, <3>3 DEF TickInv, WorkInv
    <2> QED BY <1>0, <2>1, <2>3, <2>5, <2>6 DEF TickInv
  <1> QED BY <1>5, <1>8, <1>9 DEF CursorInv

-----------------------------------------------------------------------------
(***************************************************************************)
(* A step of process p: only its own tick's invariant is at stake, and, if *)
(* it saves, the cursor's.                                                 *)
(***************************************************************************)
LEMMA ProcessStep ==
  ASSUME TypeOK, TypeOK', CursorInv, chain' = chain, Settled \subseteq Settled',
         coldSlot' >= coldSlot, NEW p \in Procs,
         \A q \in Procs \ {p} : job'[q] = job[q],
         Safe(cursor)', Known(cursor)', TickInv(p)'
  PROVE  CursorInv'
  <1>1. Sorted'
    BY DEF CursorInv, Sorted, Sigs, Slot
  <1>2. \A q \in Procs \ {p} : TickInv(q)'
    BY TickStays DEF CursorInv
  <1> QED BY <1>1, <1>2 DEF CursorInv

LEMMA QuietStep ==
  ASSUME TypeOK, TypeOK', CursorInv, chain' = chain, cursor' = cursor,
         coldSlot' = coldSlot, Settled \subseteq Settled', NEW p \in Procs,
         \A q \in Procs \ {p} : job'[q] = job[q], TickInv(p)'
  PROVE  CursorInv'
  <1>1. coldSlot' >= coldSlot /\ cursor \in Nat
    BY DEF TypeOK
  <1>2. Safe(cursor)'
    BY <1>1, SafeStays DEF CursorInv
  <1>3. Known(cursor)'
    BY DEF CursorInv, Known, TipSlot, Slot
  <1> QED BY <1>1, <1>2, <1>3, ProcessStep

LEMMA StartTickInv ==
  ASSUME TypeOK, TypeOK', CursorInv, NEW p \in Procs, StartTick(p)
  PROVE  CursorInv'
  <1>1. /\ UNCHANGED <<chain, cursor, coldSlot, applied, missed>>
        /\ \A q \in Procs \ {p} : job'[q] = job[q]
        /\ job'[p] = [Idle EXCEPT !.pc = "walk", !.lastSlot = cursor]
    BY DEF StartTick, db, outcomes, TypeOK
  <1>2. /\ job'[p].lastSlot = cursor /\ job'[p].pc = "walk" /\ job'[p].before = 0
        /\ job'[p].sigs = {} /\ job'[p].pages = 0
        /\ job'[p].todo = {} /\ job'[p].active = {} /\ job'[p].errors = {}
    BY <1>1 DEF Idle
  <1>3. Safe(cursor)'
    BY <1>1, SafeStays DEF CursorInv, TypeOK, Settled
  <1>4. Safe(job[p].lastSlot)' /\ Known(job[p].lastSlot)'
    BY <1>1, <1>2, <1>3 DEF CursorInv, Safe, LeftBehind, Known, TipSlot, Slot
  <1>5. WalkInv(p)' /\ WorkInv(p)'
    BY <1>2, ConstantsAssumption DEF WalkInv, WorkInv
  <1> QED BY <1>1, <1>4, <1>5, QuietStep DEF TickInv, Settled

LEMMA EndsIdle ==
  ASSUME TypeOK, TypeOK', CursorInv, NEW p \in Procs, Crash(p) \/ TickFails(p)
  PROVE  CursorInv'
  <1>1. /\ UNCHANGED <<chain, cursor, coldSlot, applied, missed>>
        /\ \A q \in Procs \ {p} : job'[q] = job[q]
        /\ job'[p] = Idle
    BY DEF Crash, TickFails, db, outcomes, TypeOK
  <1>2. job'[p].lastSlot = 0 /\ job'[p].pc = "idle"
    BY <1>1 DEF Idle
  <1>3. \A s \in Nat : Safe(s) => Safe(s)'
    BY <1>1, SafeStays DEF Settled, TypeOK
  <1>4. Safe(job[p].lastSlot)' /\ Known(job[p].lastSlot)'
    BY <1>1, <1>2, <1>3, ZeroSafe DEF Safe, LeftBehind, Known, TipSlot, Slot
  <1>5. TickInv(p)'
    BY <1>2, <1>4 DEF TickInv, WalkInv, WorkInv
  <1> QED BY <1>1, <1>5, QuietStep DEF Settled

(***************************************************************************)
(* The pool moves signatures among its queue, its workers, its errors and  *)
(* the processed ones.                                                     *)
(***************************************************************************)
LEMMA PoolInv ==
  ASSUME TypeOK, TypeOK', CursorInv, NEW p \in Procs,
         \/ TakeSig(p)
         \/ \E i \in Sigs : SigApplied(p, i) \/ SigMissed(p, i) \/ SigThrows(p, i)
  PROVE  CursorInv'
  <1>1. /\ UNCHANGED <<chain, cursor, coldSlot>>
        /\ \A q \in Procs \ {p} : job'[q] = job[q]
    BY DEF TakeSig, SigApplied, SigMissed, SigThrows, db, TypeOK
  <1>2. /\ job'[p].pc = job[p].pc /\ job'[p].lastSlot = job[p].lastSlot
        /\ job'[p].before = job[p].before /\ job'[p].pages = job[p].pages
        /\ job'[p].sigs = job[p].sigs
    <2>1. job[p] \in Job /\ p \in DOMAIN job
      BY DEF TypeOK
    <2>2. CASE TakeSig(p)
      <3>1. PICK i \in job[p].todo :
              job' = [job EXCEPT ![p].todo = @ \ {i}, ![p].active = @ \cup {i}]
        BY <2>2 DEF TakeSig
      <3> QED BY <2>1, <3>1 DEF Job
    <2>3. CASE \E i \in Sigs : SigApplied(p, i) \/ SigMissed(p, i)
      BY <2>1, <2>3 DEF SigApplied, SigMissed, Job
    <2>4. CASE \E i \in Sigs : SigThrows(p, i)
      <3>1. PICK i \in Sigs :
              job' = [job EXCEPT ![p].active = @ \ {i}, ![p].errors = @ \cup {i}]
        BY <2>4 DEF SigThrows
      <3> QED BY <2>1, <3>1 DEF Job
    <2> QED BY <2>2, <2>3, <2>4
  <1>3. Settled \subseteq Settled'
    BY DEF TakeSig, SigApplied, SigMissed, SigThrows, outcomes, Settled
  <1>4. /\ job'[p].todo \subseteq job[p].todo
        /\ job'[p].active \subseteq job[p].active \cup job[p].todo
        /\ job'[p].errors \subseteq job[p].errors \cup job[p].active
        /\ job[p].todo \cup job[p].active \cup job[p].errors \subseteq
              Settled' \cup job'[p].todo \cup job'[p].active \cup job'[p].errors
    <2>1. CASE TakeSig(p)
      <3>1. PICK i \in job[p].todo :
               job' = [job EXCEPT ![p].todo = @ \ {i}, ![p].active = @ \cup {i}]
        BY <2>1 DEF TakeSig
      <3>2. /\ job'[p].todo = job[p].todo \ {i} /\ job'[p].active = job[p].active \cup {i}
            /\ job'[p].errors = job[p].errors
        BY <3>1 DEF TypeOK, Job
      <3> QED BY <3>2
    <2>2. CASE \E i \in Sigs : SigApplied(p, i) \/ SigMissed(p, i)
      <3>1. PICK i \in Sigs : /\ i \in job[p].active /\ i \in Settled'
                              /\ job' = [job EXCEPT ![p].active = @ \ {i}]
        BY <2>2 DEF SigApplied, SigMissed, Settled
      <3>2. /\ job'[p].todo = job[p].todo /\ job'[p].active = job[p].active \ {i}
            /\ job'[p].errors = job[p].errors
        BY <3>1 DEF TypeOK, Job
      <3> QED BY <3>1, <3>2
    <2>3. CASE \E i \in Sigs : SigThrows(p, i)
      <3>1. PICK i \in Sigs :
              /\ i \in job[p].active
              /\ job' = [job EXCEPT ![p].active = @ \ {i}, ![p].errors = @ \cup {i}]
        BY <2>3 DEF SigThrows
      <3>2. /\ job'[p].todo = job[p].todo /\ job'[p].active = job[p].active \ {i}
            /\ job'[p].errors = job[p].errors \cup {i}
        BY <3>1 DEF TypeOK, Job
      <3> QED BY <3>1, <3>2
    <2> QED BY <2>1, <2>2, <2>3
  <1>5. TickInv(p)
    BY DEF CursorInv
  <1>6. Safe(job[p].lastSlot)' /\ Known(job[p].lastSlot)'
    <2>1. job[p].lastSlot \in Nat
      BY DEF TypeOK, Job
    <2>2. \A s \in Nat : Safe(s) => Safe(s)'
      BY <1>1, <1>3, SafeStays DEF TypeOK
    <2>3. Safe(job[p].lastSlot)'
      BY <1>1, <1>2, <1>5, <2>1, <2>2 DEF TickInv, Safe, LeftBehind
    <2> QED BY <1>1, <1>2, <1>5, <2>3 DEF TickInv, Known, TipSlot, Slot
  <1>7. WalkInv(p)'
    BY <1>1, <1>2, <1>4, <1>5 DEF TickInv, WalkInv, Sigs, Slot
  <1>8. WorkInv(p)'
    <2>1. SUFFICES ASSUME job[p].pc = "work" PROVE WorkInv(p)'
      BY <1>2 DEF WorkInv
    <2>2. /\ job'[p].todo \subseteq job'[p].sigs
          /\ job'[p].active \subseteq job'[p].sigs
          /\ job'[p].errors \subseteq job'[p].sigs
      BY <1>2, <1>4, <1>5, <2>1 DEF TickInv, WorkInv
    <2>3. job'[p].sigs \subseteq
             Settled' \cup job'[p].todo \cup job'[p].active \cup job'[p].errors
      BY <1>2, <1>3, <1>4, <1>5, <2>1 DEF TickInv, WorkInv
    <2> QED BY <1>1, <1>2, <1>5, <2>1, <2>2, <2>3 DEF TickInv, WorkInv, Sigs, Slot, Wanted
  <1> QED BY <1>1, <1>3, <1>6, <1>7, <1>8, QuietStep DEF TickInv

(***************************************************************************)
(* The walk's step to the next page, and its end.                          *)
(***************************************************************************)
LEMMA Collects ==
  ASSUME TypeOK, CursorInv, NEW p \in Procs, job[p].pc = "walk", Page(p) # {}
  PROVE  /\ \A i \in Collected(p) : i >= Oldest(p)
         /\ \A i \in Sigs \ Collected(p) :
               i >= Oldest(p) /\ ~chain[i].err /\ Slot(i) >= job[p].lastSlot
                  => \A k \in Collected(p) : Slot(k) <= Slot(i)
  <1>1. job[p] \in Job /\ Len(chain) \in Nat /\ Sigs = 1 .. Len(chain)
    BY SlotType DEF TypeOK, Sigs
  <1>2. /\ Before(p) \in 1 .. Len(chain) + 1 /\ Oldest(p) \in Nat
        /\ Oldest(p) < Before(p) /\ Page(p) = Oldest(p) .. (Before(p) - 1)
    BY <1>1, WalkType DEF Page
  <1>3. /\ \A i \in job[p].sigs : i >= Before(p)
        /\ \A i \in Sigs \ job[p].sigs :
              i >= Before(p) /\ ~chain[i].err /\ Slot(i) >= job[p].lastSlot
                 => \A k \in job[p].sigs : Slot(k) <= Slot(i)
    BY <1>1 DEF CursorInv, TickInv, WalkInv, Before
  <1>4. \A i \in Collected(p) : i \in Sigs /\ i >= Oldest(p)
    BY <1>1, <1>2, <1>3, WalkType DEF Collected, Job
  <1>5. ASSUME NEW i \in Sigs \ Collected(p), i >= Oldest(p), ~chain[i].err,
               Slot(i) >= job[p].lastSlot, NEW k \in Collected(p)
        PROVE  Slot(k) <= Slot(i)
    <2>1. i >= Before(p) /\ i \notin job[p].sigs
      BY <1>1, <1>2, <1>5 DEF Collected
    <2>2. CASE k \in job[p].sigs
      BY <1>3, <1>5, <2>1, <2>2
    <2>3. CASE k \in Page(p)
      BY <1>1, <1>2, <1>4, <2>1, <2>3 DEF CursorInv, Sorted
    <2> QED BY <2>2, <2>3 DEF Collected
  <1> QED BY <1>4, <1>5

LEMMA FetchPageInv ==
  ASSUME TypeOK, TypeOK', CursorInv, NEW p \in Procs, FetchPage(p)
  PROVE  CursorInv'
  <1>1. /\ UNCHANGED <<chain, cursor, coldSlot, applied, missed>>
        /\ \A q \in Procs \ {p} : job'[q] = job[q]
    BY DEF FetchPage, db, outcomes, TypeOK
  <1>2. job[p] \in Job /\ job[p].pc = "walk" /\ Len(chain) \in Nat
    BY SlotType DEF TypeOK, FetchPage
  <1>3. /\ job'[p].pc = "walk" /\ job'[p].lastSlot = job[p].lastSlot
        /\ job'[p].before = Oldest(p) /\ job'[p].pages = job[p].pages + 1
        /\ job'[p].sigs = Collected(p) /\ job'[p].todo = job[p].todo
        /\ job'[p].active = job[p].active /\ job'[p].errors = job[p].errors
    BY <1>2 DEF FetchPage, TypeOK, Job
  <1>4. /\ Page(p) # {} /\ job[p].lastSlot > 0 /\ job[p].pages + 1 # MaxPages
        /\ Oldest(p) \in Sigs /\ Oldest(p) # 0 /\ Until(p) = 0
    BY <1>2, WalkType DEF FetchPage, WalkEnds, Job, Sigs, Until
  <1>5. WalkInv(p) /\ Safe(job[p].lastSlot) /\ Known(job[p].lastSlot)
    BY DEF CursorInv, TickInv
  <1>6. job[p].pages \in Nat /\ job[p].pages + 1 < MaxPages
    BY <1>2, <1>4, <1>5, ConstantsAssumption DEF WalkInv, Job
  <1>7. \/ Oldest(p) = 1
        \/ Len(chain) + 1 - Oldest(p) >= (job[p].pages + 1) * PageLimit
    <2>1. (job[p].pages + 1) * PageLimit = job[p].pages * PageLimit + PageLimit
      BY <1>6, ConstantsAssumption
    <2>2. job[p].pages * PageLimit \in Nat
      BY <1>6, ConstantsAssumption
    <2>3. CASE Oldest(p) # 1
      <3>1. Oldest(p) = Before(p) - PageLimit /\ Before(p) # 1
        BY <1>2, <1>4, <2>3, WalkType, ConstantsAssumption DEF Oldest
      <3>2. Len(chain) + 1 - Before(p) >= job[p].pages * PageLimit
        BY <1>2, <1>5, <2>2, <3>1, ConstantsAssumption DEF WalkInv, Before
      <3> QED BY <1>2, <2>1, <2>2, <3>1, <3>2, WalkType, ConstantsAssumption
    <2> QED BY <2>3
  <1>8. WalkInv(p)'
    BY <1>1, <1>2, <1>3, <1>4, <1>5, <1>6, <1>7, Collects DEF WalkInv, Sigs, Slot
  <1>9. WorkInv(p)'
    BY <1>3 DEF WorkInv
  <1>10. Safe(job[p].lastSlot)' /\ Known(job[p].lastSlot)'
    BY <1>1, <1>3, <1>5 DEF Safe, LeftBehind, Known, TipSlot, Slot, Sigs, Wanted, Settled, Reach
  <1> QED BY <1>1, <1>8, <1>9, <1>10, QuietStep DEF TickInv, Settled

LEMMA FetchLastPageInv ==
  ASSUME TypeOK, TypeOK', CursorInv, NEW p \in Procs, FetchLastPage(p)
  PROVE  CursorInv'
  <1>1. /\ UNCHANGED <<chain, cursor, coldSlot, applied, missed>>
        /\ \A q \in Procs \ {p} : job'[q] = job[q]
    BY DEF FetchLastPage, db, outcomes, TypeOK
  <1>2. job[p] \in Job /\ job[p].pc = "walk" /\ Len(chain) \in Nat /\ Sigs = 1 .. Len(chain)
    BY SlotType DEF TypeOK, FetchLastPage, Sigs
  <1>3. WalkInv(p) /\ Safe(job[p].lastSlot) /\ Known(job[p].lastSlot)
    BY DEF CursorInv, TickInv
  <1>4. CASE Collected(p) = {}
    <2>1. job'[p] = Idle
      BY <1>4 DEF FetchLastPage, TypeOK
    <2>2. job'[p].lastSlot = 0 /\ job'[p].pc = "idle"
      BY <2>1 DEF Idle
    <2>3. Safe(job[p].lastSlot)' /\ Known(job[p].lastSlot)'
      BY <1>1, <2>2, ZeroSafe
      DEF Safe, LeftBehind, Known, TipSlot, Slot, Sigs, Wanted, Settled, Reach
    <2>4. TickInv(p)'
      BY <2>2, <2>3 DEF TickInv, WalkInv, WorkInv
    <2> QED BY <1>1, <2>4, QuietStep DEF Settled
  <1>5. CASE Collected(p) # {}
    <2>1. /\ job'[p].pc = "work" /\ job'[p].lastSlot = job[p].lastSlot
          /\ job'[p].sigs = Collected(p) /\ job'[p].todo = Collected(p)
          /\ job'[p].active = job[p].active /\ job'[p].errors = job[p].errors
      BY <1>2, <1>5 DEF FetchLastPage, TypeOK, Job
    <2>2. ASSUME NEW i \in Sigs \ Collected(p), Wanted(i), Slot(i) >= job[p].lastSlot
          PROVE  \/ \A k \in Collected(p) : Slot(k) <= Slot(i)
                 \/ Len(chain) - i >= Window
                 \/ job[p].lastSlot = 0 /\ Len(chain) - i >= PageLimit
      <3>1. CASE i >= Before(p)
        <4>1. \A k \in job[p].sigs : Slot(k) <= Slot(i)
          BY <1>2, <1>3, <2>2, <3>1 DEF WalkInv, Before, Collected, Wanted
        <4>2. \A k \in Page(p) : Slot(k) <= Slot(i)
          BY <1>2, <3>1, WalkType DEF Page, CursorInv, Sorted
        <4> QED BY <4>1, <4>2 DEF Collected
      <3>2. CASE i \in Page(p)
        BY <2>2, <3>2 DEF Collected, Wanted
      <3>3. CASE i < Oldest(p) /\ i < Before(p)
        <4>1. i > Until(p)
          BY <1>2, <2>2, ConstantsAssumption DEF Until, Wanted
        <4>2. Oldest(p) = Before(p) - PageLimit
          BY <1>2, <3>3, <4>1, WalkType DEF Oldest
        <4>3. Page(p) # {} /\ Slot(Oldest(p)) >= job[p].lastSlot
          <5>1. Oldest(p) \in Page(p)
            BY <1>2, <4>2, WalkType, ConstantsAssumption DEF Page
          <5>2. Oldest(p) \in Sigs
            BY <5>1, WalkType
          <5>3. Slot(i) <= Slot(Oldest(p))
            BY <1>2, <3>3, <5>2 DEF CursorInv, Sorted
          <5>4. Slot(i) \in Nat /\ Slot(Oldest(p)) \in Nat /\ job[p].lastSlot \in Nat
            BY <1>2, <5>2, SlotType DEF Job
          <5> QED BY <2>2, <5>1, <5>3, <5>4
        <4>4. job[p].lastSlot = 0 \/ job[p].pages + 1 = MaxPages
          <5>1. Slot(Oldest(p)) \in Nat /\ job[p].lastSlot \in Nat
            BY <1>2, <4>3, WalkType, SlotType DEF Job
          <5> QED BY <4>3, <5>1 DEF FetchLastPage, WalkEnds
        <4>5. CASE job[p].lastSlot = 0
          <5>1. Before(p) = Len(chain) + 1
            BY <1>2, <1>3, <4>5 DEF WalkInv, Before
          <5> QED BY <1>2, <3>3, <4>2, <4>5, <5>1, ConstantsAssumption
        <4>6. CASE job[p].pages + 1 = MaxPages
          <5>1. job[p].pages \in Nat /\ job[p].pages * PageLimit \in Nat
            BY <1>2, ConstantsAssumption DEF Job
          <5>2. Window = job[p].pages * PageLimit + PageLimit
            BY <4>6, <5>1, ConstantsAssumption DEF Window
          <5>3. Len(chain) + 1 - Before(p) >= job[p].pages * PageLimit
            BY <1>2, <1>3, <3>3, <5>1, ConstantsAssumption DEF WalkInv, Before
          <5>4. Before(p) \in Nat /\ PageLimit \in Nat /\ i \in Nat
            BY <1>2, WalkType, ConstantsAssumption
          <5> DEFINE reached == job[p].pages * PageLimit
          <5>5. /\ reached \in Nat /\ Len(chain) \in Nat
                /\ Window = reached + PageLimit /\ Len(chain) + 1 - Before(p) >= reached
                /\ Oldest(p) = Before(p) - PageLimit /\ i < Oldest(p)
            BY <1>2, <3>3, <4>2, <5>1, <5>2, <5>3, SlotType
          <5> HIDE DEF reached
          <5>6. Len(chain) - i >= Window
            BY <5>4, <5>5
          <5> QED BY <5>6
        <4> QED BY <4>4, <4>5, <4>6
      <3> QED BY <1>2, <3>1, <3>2, <3>3, WalkType DEF Page
    <2>3. WorkInv(p)'
      BY <1>1, <1>2, <1>3, <2>1, <2>2 DEF WorkInv, WalkInv, Sigs, Slot, Wanted, Settled
    <2>4. WalkInv(p)'
      BY <2>1 DEF WalkInv
    <2>5. Safe(job[p].lastSlot)' /\ Known(job[p].lastSlot)'
      BY <1>1, <1>3, <2>1
      DEF Safe, LeftBehind, Known, TipSlot, Slot, Sigs, Wanted, Settled, Reach
    <2> QED BY <1>1, <2>3, <2>4, <2>5, QuietStep DEF TickInv, Settled
  <1> QED BY <1>4, <1>5

(***************************************************************************)
(* The save: an unprocessed signature below the slot saved is not one the  *)
(* tick collected, since safeSlot stops at the lowest failure; so it was   *)
(* below the tick's first slot or out of the walk's reach.                 *)
(***************************************************************************)
LEMMA SavedSlotSafe ==
  ASSUME TypeOK, TypeOK', CursorInv, NEW p \in Procs, PoolDone(p),
         NEW s \in Nat, IsSafeSlot(p, s), chain' = chain,
         applied' = applied, missed' = missed, coldSlot' >= coldSlot,
         job[p].lastSlot = 0 => coldSlot' >= s
  PROVE  Safe(s)' /\ Known(s)'
  <1>1. /\ job[p] \in Job /\ job[p].pc = "work" /\ job[p].todo = {} /\ job[p].active = {}
        /\ Len(chain) \in Nat /\ Sigs = 1 .. Len(chain)
    BY SlotType DEF TypeOK, PoolDone, Sigs
  <1>2. Safe(job[p].lastSlot) /\ WorkInv(p)
    BY DEF CursorInv, TickInv
  <1>3. PICK m \in job[p].sigs : s = Slot(m)
    BY <1>1, <1>2 DEF IsSafeSlot, WorkInv
  <1>4. m \in Sigs /\ \A i \in Sigs : Slot(i) \in Nat \ {0}
    BY <1>1, SlotType DEF Job
  <1>5. Known(s)'
    BY <1>1, <1>3, <1>4 DEF Known, TipSlot, CursorInv, Sorted, Slot
  <1>6. ASSUME NEW i \in Sigs, Wanted(i), i \notin Settled, Slot(i) < s
        PROVE  Len(chain) - i >= Reach(i)'
    <2>1. Reach(i)' = (IF Slot(i) < coldSlot' THEN PageLimit ELSE Window)
      BY DEF Reach, Slot
    <2>2. coldSlot \in Nat /\ coldSlot' \in Nat
      BY DEF TypeOK
    <2>3. CASE Slot(i) < job[p].lastSlot
      <3>1. Len(chain) - i >= Reach(i)
        BY <1>2, <1>6, <2>3 DEF Safe, LeftBehind
      <3> QED BY <1>1, <1>4, <2>1, <2>2, <3>1, WindowSize DEF Reach
    <2>4. CASE Slot(i) >= job[p].lastSlot
      <3>1. i \notin job[p].sigs
        BY <1>1, <1>2, <1>3, <1>4, <1>6 DEF IsSafeSlot, WorkInv
      <3>2. ~ \A k \in job[p].sigs : Slot(k) <= Slot(i)
        BY <1>3, <1>4, <1>6
      <3>3. \/ Len(chain) - i >= Window
            \/ job[p].lastSlot = 0 /\ Len(chain) - i >= PageLimit
        BY <1>1, <1>2, <1>6, <2>4, <3>1, <3>2 DEF WorkInv
      <3> QED BY <1>1, <1>4, <1>6, <2>1, <2>2, <3>3, WindowSize
    <2> QED BY <1>1, <1>4, <2>3, <2>4 DEF Job
  <1> QED BY <1>5, <1>6 DEF Safe, LeftBehind, Sigs, Slot, Wanted, Settled

LEMMA EndTickInv ==
  ASSUME TypeOK, TypeOK', CursorInv, NEW p \in Procs, EndTick(p)
  PROVE  CursorInv'
  <1>1. PICK m \in job[p].sigs : IsSafeSlot(p, Slot(m)) /\ SaveCursor(p, Slot(m))
    BY DEF EndTick
  <1>2. /\ UNCHANGED <<chain, applied, missed>>
        /\ \A q \in Procs \ {p} : job'[q] = job[q]
        /\ job'[p] = Idle /\ PoolDone(p)
    BY DEF EndTick, outcomes, TypeOK
  <1>3. Slot(m) \in Nat /\ job[p].lastSlot \in Nat /\ coldSlot \in Nat /\ cursor \in Nat
    BY SlotType DEF TypeOK, Job
  <1>4. coldSlot' >= coldSlot
    BY <1>1, <1>3 DEF SaveCursor, db
  <1>5. \A s \in Nat : Safe(s) => Safe(s)'
    BY <1>2, <1>4, SafeStays DEF Settled
  <1>6. job'[p].lastSlot = 0 /\ job'[p].pc = "idle"
    BY <1>2 DEF Idle
  <1>7. TickInv(p)'
    <2>1. Safe(job[p].lastSlot)' /\ Known(job[p].lastSlot)'
      BY <1>2, <1>5, <1>6, ZeroSafe DEF Safe, LeftBehind, Known, TipSlot, Slot
    <2> QED BY <1>6, <2>1 DEF TickInv, WalkInv, WorkInv
  <1>8. Safe(cursor)' /\ Known(cursor)'
    <2>1. CASE Slot(m) > job[p].lastSlot
      <3> DEFINE s == Slot(m)
      <3>1. cursor' = s /\ (job[p].lastSlot = 0 => coldSlot' >= s)
        BY <1>1, <1>3, <2>1 DEF SaveCursor
      <3>2. \A t \in Nat : t = s => Safe(t)' /\ Known(t)'
        BY <1>1, <1>2, <1>3, <1>4, <3>1, SavedSlotSafe
      <3> HIDE DEF s
      <3> QED BY <1>3, <3>1, <3>2 DEF Safe, LeftBehind, Known, s
    <2>2. CASE ~(Slot(m) > job[p].lastSlot)
      <3>1. cursor' = cursor
        BY <1>1, <2>2 DEF SaveCursor, db
      <3> QED BY <1>2, <1>3, <1>5, <3>1
              DEF CursorInv, Safe, LeftBehind, Known, TipSlot, Slot
    <2> QED BY <2>1, <2>2
  <1> QED BY <1>2, <1>4, <1>7, <1>8, ProcessStep DEF Settled

-----------------------------------------------------------------------------
LEMMA NextInv == TypeOK /\ TypeOK' /\ CursorInv /\ [Next]_vars => CursorInv'
  <1> SUFFICES ASSUME TypeOK, TypeOK', CursorInv, [Next]_vars PROVE CursorInv'
    OBVIOUS
  <1>1. CASE Confirm
    BY <1>1, ConfirmInv
  <1>2. ASSUME NEW p \in Procs, Process(p) PROVE CursorInv'
    BY <1>2, StartTickInv, FetchPageInv, FetchLastPageInv, PoolInv, EndTickInv DEF Process
  <1>3. ASSUME NEW p \in Procs, Disturb(p) PROVE CursorInv'
    BY <1>3, EndsIdle, PoolInv DEF Disturb
  <1>4. CASE UNCHANGED vars
    BY <1>4 DEF vars, db, outcomes, CursorInv, TickInv, WalkInv, WorkInv, Sorted, Safe,
                LeftBehind, Known, Sigs, Slot, TipSlot, Settled, Wanted, Reach
  <1> QED BY <1>1, <1>2, <1>3, <1>4 DEF Next

(***************************************************************************)
(* The cursor's invariant holds of every behaviour.                        *)
(***************************************************************************)
THEOREM CursorCorrect == Spec => []CursorInv
  BY InitType, InitInv, NextType, NextInv, PTL DEF Spec

(***************************************************************************)
(* The held cursor of SnsRegisterJob.handle and SnsRecordChangesJob.handle *)
(* leaves an unprocessed signature behind only when it lay beyond the one  *)
(* page of a cold start or the MaxPages pages of a later tick, whatever    *)
(* fails or crashes and however many processes share the cursor row.       *)
(***************************************************************************)
THEOREM SkipBound == Spec => []SkippedOnlyBehindFullWindow
  <1>1. CursorInv => SkippedOnlyBehindFullWindow
    BY DEF CursorInv, Safe, SkippedOnlyBehindFullWindow
  <1> QED BY <1>1, CursorCorrect, PTL

-----------------------------------------------------------------------------
(***************************************************************************)
(* A process on its own.  The guard of the save compares with the slot the *)
(* tick began with, which is the saved one as long as no other process     *)
(* saves: InStep.                                                          *)
(***************************************************************************)
Alone == \A p, q \in Procs : p = q

InStep == \A p \in Procs : job[p].pc # "idle" => job[p].lastSlot = cursor

LEMMA AloneStep ==
  ASSUME Alone, TypeOK, InStep, [Next]_vars
  PROVE  InStep' /\ cursor' >= cursor
  <1>1. job \in [Procs -> Job] /\ cursor \in Nat
    BY DEF TypeOK
  <1>2. ASSUME NEW p \in Procs, UNCHANGED cursor, job' = [job EXCEPT ![p] = job'[p]],
               job'[p].pc = "idle" \/ (job'[p].lastSlot = job[p].lastSlot /\ job[p].pc # "idle")
        PROVE  InStep' /\ cursor' >= cursor
    <2>1. \A q \in Procs \ {p} : job'[q] = job[q]
      BY <1>1, <1>2
    <2> QED BY <1>1, <1>2, <2>1 DEF InStep
  <1>3. CASE Confirm \/ UNCHANGED vars
    BY <1>1, <1>3 DEF Confirm, db, vars, InStep
  <1>4. ASSUME NEW p \in Procs, StartTick(p) PROVE InStep' /\ cursor' >= cursor
    <2>1. UNCHANGED cursor /\ job'[p].lastSlot = cursor
      BY <1>1, <1>4 DEF StartTick, db, Idle
    <2>2. \A q \in Procs : q = p
      BY DEF Alone
    <2> QED BY <1>1, <2>1, <2>2 DEF InStep
  <1>5. ASSUME NEW p \in Procs, FetchPage(p) \/ FetchLastPage(p) \/ TakeSig(p)
        PROVE  InStep' /\ cursor' >= cursor
    <2>1. UNCHANGED cursor /\ job' = [job EXCEPT ![p] = job'[p]]
      BY <1>1, <1>5 DEF FetchPage, FetchLastPage, TakeSig, db
    <2>2. job[p] \in Job
      BY <1>1
    <2> DEFINE Kept == \/ job'[p].pc = "idle"
                       \/ job'[p].lastSlot = job[p].lastSlot /\ job[p].pc # "idle"
    <2>3. ASSUME FetchPage(p) \/ TakeSig(p) PROVE Kept
      <3>1. job'[p].lastSlot = job[p].lastSlot /\ job'[p].pc = job[p].pc
        <4>1. CASE FetchPage(p)
          BY <1>1, <2>2, <4>1 DEF FetchPage, Job
        <4>2. CASE TakeSig(p)
          <5>1. PICK i \in job[p].todo :
                   job' = [job EXCEPT ![p].todo = @ \ {i}, ![p].active = @ \cup {i}]
            BY <4>2 DEF TakeSig
          <5>2. job'[p] = [job[p] EXCEPT !.todo = @ \ {i}, !.active = @ \cup {i}]
            BY <1>1, <5>1
          <5> QED BY <2>2, <5>2 DEF Job
        <4> QED BY <2>3, <4>1, <4>2
      <3> QED BY <3>1
    <2>4. ASSUME FetchLastPage(p), Collected(p) = {} PROVE Kept
      BY <1>1, <2>4 DEF FetchLastPage, Idle
    <2>5. ASSUME FetchLastPage(p), Collected(p) # {} PROVE Kept
      <3>1. job[p].pc = "walk"
        BY <2>5 DEF FetchLastPage
      <3>2. job'[p] = [job[p] EXCEPT !.pc = "work", !.sigs = Collected(p), !.todo = Collected(p)]
        BY <1>1, <2>5 DEF FetchLastPage
      <3>3. job'[p].lastSlot = job[p].lastSlot
        BY <2>2, <3>2 DEF Job
      <3> QED BY <3>1, <3>3
    <2>6. Kept
      BY <1>5, <2>3, <2>4, <2>5
    <2> QED BY <1>2, <2>1, <2>6
  <1>6. ASSUME NEW p \in Procs, NEW i \in Sigs,
               SigApplied(p, i) \/ SigMissed(p, i) \/ SigThrows(p, i)
        PROVE  InStep' /\ cursor' >= cursor
    <2>1. UNCHANGED cursor /\ job' = [job EXCEPT ![p] = job'[p]]
      BY <1>1, <1>6 DEF SigApplied, SigMissed, SigThrows, db
    <2>2. job'[p].pc = job[p].pc /\ job'[p].lastSlot = job[p].lastSlot
      BY <1>1, <1>6 DEF SigApplied, SigMissed, SigThrows, Job
    <2> QED BY <1>2, <2>1, <2>2
  <1>7. ASSUME NEW p \in Procs, Crash(p) \/ TickFails(p) PROVE InStep' /\ cursor' >= cursor
    BY <1>1, <1>2, <1>7 DEF Crash, TickFails, db, Idle
  <1>8. ASSUME NEW p \in Procs, EndTick(p) PROVE InStep' /\ cursor' >= cursor
    <2>1. PICK i \in job[p].sigs : SaveCursor(p, Slot(i))
      BY <1>8 DEF EndTick
    <2>2. job[p].lastSlot = cursor
      BY <1>8 DEF EndTick, PoolDone, InStep
    <2>3. Slot(i) \in Nat
      BY <1>1, SlotType DEF Job
    <2>4. cursor' >= cursor
      BY <1>1, <2>1, <2>2, <2>3 DEF SaveCursor, db
    <2>5. \A q \in Procs : job'[q].pc = "idle"
      BY <1>1, <1>8 DEF EndTick, Idle, Alone
    <2> QED BY <2>4, <2>5 DEF InStep
  <1> QED
    BY <1>3, <1>4, <1>5, <1>6, <1>7, <1>8 DEF Next, Process, Disturb

(***************************************************************************)
(* As long as one process runs the job, its cursor never moves back,       *)
(* whatever fails or crashes: what SnsContent and SnsRow take for granted  *)
(* in their EndTick.  Of two processes the one that began earlier may.     *)
(***************************************************************************)
THEOREM CursorForward == Alone => (Spec => [][cursor' >= cursor]_vars)
  <1> SUFFICES ASSUME Alone PROVE Spec => [][cursor' >= cursor]_vars
    OBVIOUS
  <1>1. Init => InStep
    BY DEF Init, InStep, Idle
  <1>2. TypeOK /\ InStep /\ [Next]_vars => InStep'
    BY AloneStep
  <1>3. TypeOK /\ InStep /\ [Next]_vars => [cursor' >= cursor]_vars
    BY AloneStep
  <1> QED BY <1>1, <1>2, <1>3, TypeCorrect, PTL DEF Spec

=============================================================================
