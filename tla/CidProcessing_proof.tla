------------------------ MODULE CidProcessing_proof ------------------------
(***************************************************************************)
(* The clean-up of a processing group is type correct for any number of    *)
(* domains, workers and faults, leaves no row that points to a group which *)
(* does not list it, unless the row is to be saved again, and neither      *)
(* lists a domain which has left nor puts its old cid back, unless the     *)
(* domain's own transaction was open along with another.                   *)
(***************************************************************************)
EXTENDS CidProcessing, TLAPS

(* What a worker holds while it is not free. *)
LEMMA HeldType ==
    ASSUME TypeOK, NEW w \in Workers, task[w].pc # "free"
    PROVE  task[w] \in Task
  BY DEF TypeOK, Free

(* A step of a worker's own task leaves the types of the tasks. *)
LEMMA TaskStep ==
    ASSUME TypeOK, NEW w \in Workers, NEW t \in {Free} \cup Task,
           task' = [task EXCEPT ![w] = t]
    PROVE  task' \in [Workers -> {Free} \cup Task]
<1> DEFINE Held == {Free} \cup Task
<1>1. task \in [Workers -> Held]
  BY DEF TypeOK
<1> HIDE DEF Held
<1>2. t \in Held
  BY DEF Held
<1>3. QED
  BY <1>1, <1>2 DEF Held

(* The rows that a commit or a save leaves. *)
LEMMA Detached ==
    ASSUME NEW r \in Row
    PROVE  [r EXCEPT !.ref = FALSE, !.isPrimary = FALSE] \in Row
  BY DEF Row

LEMMA InitTyped == CidAssumption /\ Init => TypeOK
<1> SUFFICES ASSUME CidAssumption, Init PROVE TypeOK
  OBVIOUS
<1>1. PICK members \in (SUBSET Domains) \ {{}} : \E primary \in members :
         /\ group = [exists |-> TRUE, primary |-> primary, members |-> members]
         /\ rows = [d \in Domains |->
                       [cid |-> "old", ref |-> d \in members, isPrimary |-> d = primary]]
  BY DEF Init
<1>2. PICK primary \in members :
         /\ group = [exists |-> TRUE, primary |-> primary, members |-> members]
         /\ rows = [d \in Domains |->
                       [cid |-> "old", ref |-> d \in members, isPrimary |-> d = primary]]
  BY <1>1
<1>3. group \in Group
  BY <1>2 DEF Group
<1>4. rows \in [Domains -> Row]
  <2>1. \A d \in Domains :
           [cid |-> "old", ref |-> d \in members, isPrimary |-> d = primary] \in Row
    <3> SUFFICES ASSUME NEW d \in Domains
                 PROVE  [cid |-> "old", ref |-> d \in members, isPrimary |-> d = primary] \in Row
      OBVIOUS
    <3>1. (d \in members) \in BOOLEAN /\ (d = primary) \in BOOLEAN
      OBVIOUS
    <3>2. QED
      BY <3>1, Zenon DEF Row
  <2>2. QED
    BY <1>2, <2>1
<1>5. task \in [Workers -> {Free} \cup Task]
  BY DEF Init
<1>6. pending \subseteq Domains /\ applied \subseteq Domains /\ met \subseteq Domains
  BY DEF Init
<1>7. faults \in 0 .. MaxFaults
  BY DEF Init, CidAssumption
<1>8. QED
  BY <1>3, <1>4, <1>5, <1>6, <1>7, Zenon DEF TypeOK

LEMMA StepTyped == CidAssumption /\ TypeOK /\ [Next]_vars => TypeOK'
<1> SUFFICES ASSUME CidAssumption, TypeOK, [Next]_vars PROVE TypeOK'
  OBVIOUS
<1>1. ASSUME NEW w \in Workers, NEW d \in Domains, Take(w, d)
      PROVE  TypeOK'
  <2> DEFINE t == [pc |-> "find", domain |-> d, row |-> rows[d],
                   group |-> group, survivors |-> rows]
  <2>1. t \in Task
    BY DEF TypeOK, Task
  <2>2. task' = [task EXCEPT ![w] = t]
    BY <1>1 DEF Take
  <2> HIDE DEF t
  <2>3. task' \in [Workers -> {Free} \cup Task]
    BY <2>1, <2>2, TaskStep
  <2>4. QED
    BY <1>1, <2>3 DEF Take, TypeOK, history
<1>2. ASSUME NEW w \in Workers, FindGroup(w)
      PROVE  TypeOK'
  <2>1. task[w] \in Task
    BY <1>2, HeldType DEF FindGroup
  <2> DEFINE pc == IF ~group.exists THEN "save"
                   ELSE IF group.primary = task[w].domain THEN "elect" ELSE "leave"
             t  == [task[w] EXCEPT !.group = group, !.pc = pc]
  <2>2. pc \in {"save", "elect", "leave"}
    OBVIOUS
  <2>3. task' = [task EXCEPT ![w] = t]
    BY <1>2, <2>1 DEF FindGroup, TypeOK
  <2> HIDE DEF pc
  <2>4. t \in Task
    BY <2>1, <2>2 DEF TypeOK, Task
  <2> HIDE DEF t
  <2>5. task' \in [Workers -> {Free} \cup Task]
    BY <2>3, <2>4, TaskStep
  <2>6. met' \subseteq Domains
    <3>1. \A v \in Workers : InTransaction(v) => task[v].domain \in Domains
      BY HeldType DEF InTransaction, Task
    <3>2. task[w].domain \in Domains
      BY <2>1 DEF Task
    <3>3. QED
      BY <1>2, <3>1, <3>2 DEF FindGroup, TypeOK
  <2>7. QED
    BY <1>2, <2>5, <2>6 DEF FindGroup, TypeOK
<1>3. ASSUME NEW w \in Workers, Leave(w)
      PROVE  TypeOK'
  <2>1. task[w] \in Task
    BY <1>3, HeldType DEF Leave
  <2>2. Without(task[w].group, task[w].domain) \in Group
    BY <2>1 DEF Without, Group, Task
  <2>3. group' \in Group
    BY <1>3, <2>2 DEF Leave, TypeOK
  <2> DEFINE t == [task[w] EXCEPT !.pc = "save"]
  <2>4. t \in Task
    BY <2>1 DEF Task
  <2>5. task' = [task EXCEPT ![w] = t]
    BY <1>3, <2>1 DEF Leave, TypeOK
  <2> HIDE DEF t
  <2>6. task' \in [Workers -> {Free} \cup Task]
    BY <2>4, <2>5, TaskStep
  <2>7. QED
    BY <1>3, <2>3, <2>6 DEF Leave, TypeOK, history
<1>4. ASSUME NEW w \in Workers, FindSurvivors(w)
      PROVE  TypeOK'
  <2>1. task[w] \in Task
    BY <1>4, HeldType DEF FindSurvivors
  <2> DEFINE t == [task[w] EXCEPT !.pc = "tear", !.survivors = rows]
  <2>2. t \in Task
    BY <2>1 DEF Task, TypeOK
  <2>3. task' = [task EXCEPT ![w] = t]
    BY <1>4, <2>1 DEF FindSurvivors, TypeOK
  <2> HIDE DEF t
  <2>4. task' \in [Workers -> {Free} \cup Task]
    BY <2>2, <2>3, TaskStep
  <2>5. QED
    BY <1>4, <2>4 DEF FindSurvivors, TypeOK, history
<1>5. ASSUME NEW w \in Workers, TearDown(w)
      PROVE  TypeOK'
  <2>1. task[w] \in Task
    BY <1>5, HeldType DEF TearDown
  <2>2. rows' \in [Domains -> Row]
    <3>1. \A d \in Domains : rows[d] \in Row /\ task[w].survivors[d] \in Row
      BY <2>1 DEF TypeOK, Task
    <3>2. \A d \in Domains :
             [task[w].survivors[d] EXCEPT !.ref = FALSE, !.isPrimary = FALSE] \in Row
      BY <3>1, Detached
    <3>3. QED
      BY <1>5, <3>1, <3>2 DEF TearDown
  <2>3. group' \in Group
    BY <1>5 DEF TearDown, TypeOK, Group
  <2> DEFINE t == [task[w] EXCEPT !.pc = "save"]
  <2>4. t \in Task
    BY <2>1 DEF Task
  <2>5. task' = [task EXCEPT ![w] = t]
    BY <1>5, <2>1 DEF TearDown, TypeOK
  <2> HIDE DEF t
  <2>6. task' \in [Workers -> {Free} \cup Task]
    BY <2>4, <2>5, TaskStep
  <2>7. QED
    BY <1>5, <2>2, <2>3, <2>6 DEF TearDown, TypeOK, history
<1>6. ASSUME NEW w \in Workers, SaveRow(w)
      PROVE  TypeOK'
  <2>1. task' \in [Workers -> {Free} \cup Task]
    BY <1>6, TaskStep DEF SaveRow
  <2>2. [cid |-> "new", ref |-> FALSE, isPrimary |-> FALSE] \in Row
    BY DEF Row
  <2>3. rows' \in [Domains -> Row]
    BY <1>6, <2>2 DEF SaveRow, TypeOK
  <2>4. applied' \subseteq Domains
    <3>1. task[w].domain \in Domains
      BY <1>6, HeldType DEF SaveRow, Task
    <3>2. QED
      BY <1>6, <3>1 DEF SaveRow, TypeOK
  <2>5. QED
    BY <1>6, <2>1, <2>3, <2>4 DEF SaveRow, TypeOK
<1>7. ASSUME NEW w \in Workers, Abort(w)
      PROVE  TypeOK'
  <2>1. task' \in [Workers -> {Free} \cup Task]
    BY <1>7, TaskStep DEF Abort
  <2>2. faults' \in 0 .. MaxFaults
    BY <1>7 DEF Abort, TypeOK, CidAssumption
  <2>3. QED
    BY <1>7, <2>1, <2>2 DEF Abort, TypeOK, history
<1>8. ASSUME UNCHANGED vars
      PROVE  TypeOK'
  BY <1>8 DEF vars, history, TypeOK
<1>9. QED
  BY <1>1, <1>2, <1>3, <1>4, <1>5, <1>6, <1>7, <1>8 DEF Next, Work

(* The group, its rows and every transaction under way have their types. *)
THEOREM TypeCorrect == Spec => []TypeOK
<1>1. QED
  BY CidAssumption, InitTyped, StepTyped, PTL DEF Spec

-----------------------------------------------------------------------------
(***************************************************************************)
(* References.  A worker's group may be out of date, but the rows that     *)
(* still point to a group are all in it, or about to be saved: references  *)
(* are only ever cleared, and a change done has cleared its own.           *)
(***************************************************************************)
Working(w) == task[w].pc # "free"

OwnDomain == \A w \in Workers : Working(w) => task[w].domain \in pending

OneWorkerEach ==
    \A v, w \in Workers : Working(v) /\ Working(w) /\ v # w => task[v].domain # task[w].domain

RefRead ==
    \A w \in Workers : InTransaction(w) =>
        /\ task[w].group.exists
        /\ \A d \in Domains : rows[d].ref => d \in task[w].group.members \/ d \in pending

RefInv == TypeOK /\ OwnDomain /\ OneWorkerEach /\ RefRead /\ RefListed

LEMMA InitRefInv == CidAssumption /\ Init => RefInv
<1> SUFFICES ASSUME CidAssumption, Init PROVE RefInv
  OBVIOUS
<1>1. TypeOK
  BY InitTyped
<1>2. \A w \in Workers : task[w] = Free
  BY DEF Init
<1>3. OwnDomain /\ OneWorkerEach /\ RefRead
  BY <1>2 DEF OwnDomain, OneWorkerEach, RefRead, Working, InTransaction, Free
<1>4. RefListed
  <2>1. PICK members \in (SUBSET Domains) \ {{}} : \E primary \in members :
           /\ group = [exists |-> TRUE, primary |-> primary, members |-> members]
           /\ rows = [d \in Domains |->
                         [cid |-> "old", ref |-> d \in members, isPrimary |-> d = primary]]
    BY DEF Init
  <2>2. /\ group.exists /\ group.members = members
        /\ \A d \in Domains : rows[d].ref = (d \in members)
    BY <2>1
  <2>3. QED
    BY <2>2 DEF RefListed, Listed
<1>5. QED
  BY <1>1, <1>3, <1>4 DEF RefInv

(***************************************************************************)
(* References are cleared and changes done, never the other way round: the *)
(* groups that were read still hold whom they have to.                     *)
(***************************************************************************)
Cleared ==
    \A d \in Domains : rows'[d].ref => rows[d].ref /\ (d \in pending => d \in pending')

LEMMA OthersKeep ==
    ASSUME RefInv, TypeOK', Cleared, NEW w \in Workers, NEW t,
           task' = [task EXCEPT ![w] = t],
           t.pc # "free" => /\ t.domain \in pending
                            /\ \A v \in Workers \ {w} : Working(v) => task[v].domain # t.domain,
           t.pc \in {"leave", "elect", "tear"} =>
              /\ t.group.exists
              /\ \A d \in Domains : rows'[d].ref => d \in t.group.members \/ d \in pending',
           \A d \in pending \ pending' : t.pc = "free" /\ Working(w) /\ d = task[w].domain
    PROVE  OwnDomain' /\ OneWorkerEach' /\ RefRead'
<1>1. task'[w] = t /\ \A v \in Workers \ {w} : task'[v] = task[v]
  BY DEF RefInv, TypeOK
<1>2. OwnDomain'
  <2> SUFFICES ASSUME NEW v \in Workers, task'[v].pc # "free"
               PROVE  task'[v].domain \in pending'
    BY DEF OwnDomain, Working
  <2>1. CASE v = w
    BY <1>1, <2>1
  <2>2. CASE v # w
    <3>1. task'[v] = task[v] /\ Working(v)
      BY <1>1, <2>2 DEF Working
    <3>2. task[v].domain \in pending
      BY <3>1 DEF RefInv, OwnDomain
    <3>3. Working(w) => task[v].domain # task[w].domain
      BY <2>2, <3>1 DEF RefInv, OneWorkerEach
    <3>4. QED
      BY <3>1, <3>2, <3>3
  <2>3. QED
    BY <2>1, <2>2
<1>3. OneWorkerEach'
  <2> SUFFICES ASSUME NEW u \in Workers, NEW v \in Workers, u # v,
                      task'[u].pc # "free", task'[v].pc # "free"
               PROVE  task'[u].domain # task'[v].domain
    BY DEF OneWorkerEach, Working
  <2>1. CASE u # w /\ v # w
    BY <1>1, <2>1 DEF RefInv, OneWorkerEach, Working
  <2>2. CASE u = w
    BY <1>1, <2>2 DEF Working
  <2>3. CASE v = w
    BY <1>1, <2>3 DEF Working
  <2>4. QED
    BY <2>1, <2>2, <2>3
<1>4. RefRead'
  <2> SUFFICES ASSUME NEW v \in Workers, task'[v].pc \in {"leave", "elect", "tear"}
               PROVE  /\ task'[v].group.exists
                      /\ \A d \in Domains :
                            rows'[d].ref => d \in task'[v].group.members \/ d \in pending'
    BY DEF RefRead, InTransaction
  <2>1. CASE v = w
    BY <1>1, <2>1
  <2>2. CASE v # w
    <3>1. task'[v] = task[v]
      BY <1>1, <2>2
    <3>2. /\ task[v].group.exists
          /\ \A d \in Domains : rows[d].ref => d \in task[v].group.members \/ d \in pending
      BY <3>1 DEF RefInv, RefRead, InTransaction
    <3>3. QED
      BY <3>1, <3>2 DEF Cleared
  <2>3. QED
    BY <2>1, <2>2
<1>5. QED
  BY <1>2, <1>3, <1>4

LEMMA StepRefInv == CidAssumption /\ RefInv /\ [Next]_vars => RefInv'
<1> SUFFICES ASSUME CidAssumption, RefInv, [Next]_vars PROVE RefInv'
  OBVIOUS
<1>t. TypeOK /\ TypeOK'
  BY StepTyped DEF RefInv
<1>1. ASSUME NEW w \in Workers, NEW d \in Domains, Take(w, d)
      PROVE  RefInv'
  <2> DEFINE t == [pc |-> "find", domain |-> d, row |-> rows[d],
                   group |-> group, survivors |-> rows]
  <2>1. task' = [task EXCEPT ![w] = t] /\ t.pc = "find" /\ t.domain = d
    BY <1>1 DEF Take
  <2> HIDE DEF t
  <2>2. UNCHANGED <<group, rows, pending>> /\ d \in pending
    BY <1>1 DEF Take
  <2>3. \A v \in Workers : task[v].domain # d
    BY <1>1 DEF Take
  <2>4. Cleared
    BY <2>2 DEF Cleared
  <2>5. OwnDomain' /\ OneWorkerEach' /\ RefRead'
    BY <1>t, <2>1, <2>2, <2>3, <2>4, OthersKeep
  <2>6. RefListed'
    BY <2>2 DEF RefInv, RefListed, Listed
  <2>7. QED
    BY <1>t, <2>5, <2>6 DEF RefInv
<1>2. ASSUME NEW w \in Workers, FindGroup(w)
      PROVE  RefInv'
  <2>1. task[w] \in Task /\ Working(w)
    BY <1>t, <1>2, HeldType DEF FindGroup, Working
  <2> DEFINE pc == IF ~group.exists THEN "save"
                   ELSE IF group.primary = task[w].domain THEN "elect" ELSE "leave"
             t  == [task[w] EXCEPT !.group = group, !.pc = pc]
  <2>2. task' = [task EXCEPT ![w] = t]
    BY <1>2, <2>1, <1>t DEF FindGroup, TypeOK
  <2>3. t.domain = task[w].domain /\ t.group = group /\ t.pc = pc
    BY <2>1 DEF Task
  <2>4. t.pc \in {"leave", "elect", "tear"} => group.exists
    BY <2>3
  <2> HIDE DEF t, pc
  <2>5. UNCHANGED <<group, rows, pending>>
    BY <1>2 DEF FindGroup
  <2>6. Cleared
    BY <2>5 DEF Cleared
  <2>7. /\ t.domain \in pending
        /\ \A v \in Workers \ {w} : Working(v) => task[v].domain # t.domain
    BY <2>1, <2>3 DEF RefInv, OwnDomain, OneWorkerEach
  <2>8. group.exists => \A d \in Domains : rows'[d].ref => d \in group.members \/ d \in pending'
    BY <2>5 DEF RefInv, RefListed, Listed
  <2>9. OwnDomain' /\ OneWorkerEach' /\ RefRead'
    BY <1>t, <2>2, <2>3, <2>4, <2>5, <2>6, <2>7, <2>8, OthersKeep
  <2>10. RefListed'
    BY <2>5 DEF RefInv, RefListed, Listed
  <2>11. QED
    BY <1>t, <2>9, <2>10 DEF RefInv
<1>3. ASSUME NEW w \in Workers, Leave(w)
      PROVE  RefInv'
  <2>1. task[w] \in Task /\ Working(w) /\ InTransaction(w)
    BY <1>t, <1>3, HeldType DEF Leave, Working, InTransaction
  <2> DEFINE t == [task[w] EXCEPT !.pc = "save"]
  <2>2. task' = [task EXCEPT ![w] = t]
    BY <1>3, <2>1, <1>t DEF Leave, TypeOK
  <2>3. t.domain = task[w].domain /\ t.pc = "save"
    BY <2>1 DEF Task
  <2> HIDE DEF t
  <2>4. UNCHANGED <<rows, pending>>
    BY <1>3 DEF Leave
  <2>5. Cleared
    BY <2>4 DEF Cleared
  <2>6. /\ t.domain \in pending
        /\ \A v \in Workers \ {w} : Working(v) => task[v].domain # t.domain
    BY <2>1, <2>3 DEF RefInv, OwnDomain, OneWorkerEach
  <2>7. OwnDomain' /\ OneWorkerEach' /\ RefRead'
    BY <1>t, <2>2, <2>3, <2>4, <2>5, <2>6, OthersKeep
  <2>8. RefListed'
    <3>1. CASE group' = Without(task[w].group, task[w].domain)
      <4>1. /\ group'.exists = task[w].group.exists
            /\ group'.members = task[w].group.members \ {task[w].domain}
        BY <2>1, <3>1 DEF Without, Task, Group
      <4>2. /\ task[w].group.exists
            /\ \A d \in Domains : rows[d].ref => d \in task[w].group.members \/ d \in pending
        BY <2>1 DEF RefInv, RefRead
      <4>3. task[w].domain \in pending
        BY <2>3, <2>6
      <4>4. QED
        BY <2>4, <4>1, <4>2, <4>3 DEF RefListed, Listed
    <3>2. CASE UNCHANGED group
      BY <2>4, <3>2 DEF RefInv, RefListed, Listed
    <3>3. QED
      BY <1>3, <3>1, <3>2 DEF Leave
  <2>9. QED
    BY <1>t, <2>7, <2>8 DEF RefInv
<1>4. ASSUME NEW w \in Workers, FindSurvivors(w)
      PROVE  RefInv'
  <2>1. task[w] \in Task /\ Working(w) /\ InTransaction(w)
    BY <1>t, <1>4, HeldType DEF FindSurvivors, Working, InTransaction
  <2> DEFINE t == [task[w] EXCEPT !.pc = "tear", !.survivors = rows]
  <2>2. task' = [task EXCEPT ![w] = t]
    BY <1>4, <2>1, <1>t DEF FindSurvivors, TypeOK
  <2>3. t.domain = task[w].domain /\ t.group = task[w].group
    BY <2>1 DEF Task
  <2> HIDE DEF t
  <2>4. UNCHANGED <<group, rows, pending>>
    BY <1>4 DEF FindSurvivors
  <2>5. Cleared
    BY <2>4 DEF Cleared
  <2>6. /\ t.domain \in pending
        /\ \A v \in Workers \ {w} : Working(v) => task[v].domain # t.domain
    BY <2>1, <2>3 DEF RefInv, OwnDomain, OneWorkerEach
  <2>7. /\ t.group.exists
        /\ \A d \in Domains : rows'[d].ref => d \in t.group.members \/ d \in pending'
    BY <2>1, <2>3, <2>4 DEF RefInv, RefRead
  <2>8. OwnDomain' /\ OneWorkerEach' /\ RefRead'
    BY <1>t, <2>2, <2>4, <2>5, <2>6, <2>7, OthersKeep
  <2>9. RefListed'
    BY <2>4 DEF RefInv, RefListed, Listed
  <2>10. QED
    BY <1>t, <2>8, <2>9 DEF RefInv
<1>5. ASSUME NEW w \in Workers, TearDown(w)
      PROVE  RefInv'
  <2>1. task[w] \in Task /\ Working(w) /\ InTransaction(w)
    BY <1>t, <1>5, HeldType DEF TearDown, Working, InTransaction
  <2> DEFINE t == [task[w] EXCEPT !.pc = "save"]
  <2>2. task' = [task EXCEPT ![w] = t]
    BY <1>5, <2>1, <1>t DEF TearDown, TypeOK
  <2>3. t.domain = task[w].domain /\ t.pc = "save"
    BY <2>1 DEF Task
  <2> HIDE DEF t
  <2>4. UNCHANGED pending
    BY <1>5 DEF TearDown
  <2>5. \A d \in Domains : rows'[d].ref => rows[d].ref /\ d \notin Survivors(w)
    <3> SUFFICES ASSUME NEW d \in Domains
                 PROVE  rows'[d].ref => rows[d].ref /\ d \notin Survivors(w)
      OBVIOUS
    <3>1. CASE d \in Survivors(w)
      <4>1. rows'[d] = [task[w].survivors[d] EXCEPT !.ref = FALSE, !.isPrimary = FALSE]
        BY <1>5, <3>1 DEF TearDown
      <4>2. task[w].survivors[d] \in Row
        BY <2>1 DEF Task
      <4>3. QED
        BY <4>1, <4>2 DEF Row
    <3>2. CASE d \notin Survivors(w)
      BY <1>5, <3>2 DEF TearDown
    <3>3. QED
      BY <3>1, <3>2
  <2>6. Cleared
    BY <2>4, <2>5 DEF Cleared
  <2>7. /\ t.domain \in pending
        /\ \A v \in Workers \ {w} : Working(v) => task[v].domain # t.domain
    BY <2>1, <2>3 DEF RefInv, OwnDomain, OneWorkerEach
  <2>8. OwnDomain' /\ OneWorkerEach' /\ RefRead'
    BY <1>t, <2>2, <2>3, <2>4, <2>6, <2>7, OthersKeep
  <2>9. RefListed'
    <3> SUFFICES ASSUME NEW d \in Domains, rows'[d].ref PROVE d \in pending'
      BY DEF RefListed
    <3>1. rows[d].ref /\ d \notin task[w].group.members \ {task[w].domain}
      BY <2>5 DEF Survivors
    <3>2. d \in task[w].group.members \/ d \in pending
      BY <2>1, <3>1 DEF RefInv, RefRead
    <3>3. QED
      BY <2>3, <2>4, <2>7, <3>1, <3>2
  <2>10. QED
    BY <1>t, <2>8, <2>9 DEF RefInv
<1>6. ASSUME NEW w \in Workers, SaveRow(w)
      PROVE  RefInv'
  <2>1. Working(w) /\ task[w].domain \in pending
    BY <1>6 DEF SaveRow, Working, RefInv, OwnDomain
  <2>2. task' = [task EXCEPT ![w] = Free] /\ pending' = pending \ {task[w].domain}
    BY <1>6 DEF SaveRow
  <2>3. \A d \in Domains : rows'[d].ref => rows[d].ref /\ d # task[w].domain
    BY <1>6, <1>t DEF SaveRow, TypeOK
  <2>4. Cleared
    BY <2>2, <2>3 DEF Cleared
  <2>5. OwnDomain' /\ OneWorkerEach' /\ RefRead'
    <3>1. Free.pc = "free"
      BY DEF Free
    <3>2. \A d \in pending \ pending' : Free.pc = "free" /\ Working(w) /\ d = task[w].domain
      BY <2>1, <2>2, <3>1
    <3>3. QED
      BY <1>t, <2>2, <2>4, <3>1, <3>2, OthersKeep
  <2>6. RefListed'
    BY <1>6, <2>2, <2>3 DEF SaveRow, RefInv, RefListed, Listed
  <2>7. QED
    BY <1>t, <2>5, <2>6 DEF RefInv
<1>7. ASSUME NEW w \in Workers, Abort(w)
      PROVE  RefInv'
  <2>1. task' = [task EXCEPT ![w] = Free] /\ UNCHANGED <<group, rows, pending>>
    BY <1>7 DEF Abort
  <2>2. Cleared
    BY <2>1 DEF Cleared
  <2>3. OwnDomain' /\ OneWorkerEach' /\ RefRead'
    <3>1. Free.pc = "free"
      BY DEF Free
    <3>2. QED
      BY <1>t, <2>1, <2>2, <3>1, OthersKeep
  <2>4. RefListed'
    BY <2>1 DEF RefInv, RefListed, Listed
  <2>5. QED
    BY <1>t, <2>3, <2>4 DEF RefInv
<1>8. ASSUME UNCHANGED vars
      PROVE  RefInv'
  <2>1. UNCHANGED <<group, rows, pending, task>>
    BY <1>8 DEF vars
  <2>2. QED
    BY <1>t, <2>1 DEF RefInv, OwnDomain, OneWorkerEach, RefRead, RefListed, Listed, Working,
                      InTransaction
<1>9. QED
  BY <1>1, <1>2, <1>3, <1>4, <1>5, <1>6, <1>7, <1>8 DEF Next, Work

(***************************************************************************)
(* For any number of domains, workers and faults, and however their        *)
(* transactions overlap, a row that points to the group of the old cid is  *)
(* listed in it, or its own change is still to be saved.                   *)
(***************************************************************************)
THEOREM RefsListed == Spec => []RefListed
<1>1. RefInv => RefListed
  BY DEF RefInv
<1>2. QED
  BY <1>1, CidAssumption, InitRefInv, StepRefInv, PTL DEF Spec

-----------------------------------------------------------------------------
(***************************************************************************)
(* Members.  A domain whose transaction was never open along with another  *)
(* knew the group as it was when it left it: from then on neither the      *)
(* group nor any transaction that reads it has the domain as a member, so  *)
(* none saves its row.                                                     *)
(***************************************************************************)
Gone(d) ==
    /\ d \notin met
    /\ d \in applied \/ \E w \in Workers : task[w].pc = "save" /\ task[w].domain = d

GoneUnseen ==
    \A d \in Domains : Gone(d) =>
        /\ ~Listed(d)
        /\ \A w \in Workers : InTransaction(w) => d \notin task[w].group.members

AloneCurrent ==
    \A w \in Workers : InTransaction(w) /\ task[w].domain \notin met =>
        /\ group.exists /\ task[w].group = group
        /\ \A v \in Workers \ {w} : ~InTransaction(v)

NewApplied ==
    \A d \in Domains :
        /\ rows[d].cid = "new" => d \in applied
        /\ \A w \in Workers : Working(w) /\ task[w].survivors[d].cid = "new" => d \in applied

MemberInv == TypeOK /\ GoneUnseen /\ AloneCurrent /\ NewApplied /\ NoChangeLost

LEMMA InitMemberInv == CidAssumption /\ Init => MemberInv
<1> SUFFICES ASSUME CidAssumption, Init PROVE MemberInv
  OBVIOUS
<1>1. TypeOK
  BY InitTyped
<1>2. applied = {} /\ \A w \in Workers : task[w].pc = "free"
  BY DEF Init, Free
<1>3. GoneUnseen /\ AloneCurrent
  BY <1>2 DEF GoneUnseen, AloneCurrent, Gone, InTransaction
<1>4. \A d \in Domains : rows[d].cid = "old"
  BY DEF Init
<1>5. NewApplied /\ NoChangeLost
  BY <1>2, <1>4 DEF NewApplied, NoChangeLost, Working
<1>6. QED
  BY <1>1, <1>3, <1>5 DEF MemberInv

(* A step of one worker that leaves the group, the rows and the changes applied alone. *)
LEMMA GroupKept ==
    ASSUME MemberInv, UNCHANGED <<group, rows, applied>>, met \subseteq met',
           NEW w \in Workers, NEW t, task' = [task EXCEPT ![w] = t],
           t.pc \in {"leave", "elect", "tear"} =>
              /\ \A d \in Domains : Gone(d) => d \notin t.group.members
              /\ t.domain \notin met' => /\ group.exists /\ t.group = group
                                         /\ \A v \in Workers \ {w} : ~InTransaction(v)
              /\ \A v \in Workers \ {w} : InTransaction(v) => task[v].domain \in met',
           t.pc = "save" =>
              /\ ~Listed(t.domain)
              /\ t.domain \in met' \/ \A v \in Workers \ {w} : ~InTransaction(v),
           t.pc # "free" => \A d \in Domains : t.survivors[d].cid = "new" => d \in applied
    PROVE  GoneUnseen' /\ AloneCurrent' /\ NewApplied' /\ NoChangeLost'
<1>1. task'[w] = t /\ \A v \in Workers \ {w} : task'[v] = task[v]
  BY DEF MemberInv, TypeOK
<1>2. \A v \in Workers \ {w} : InTransaction(v)' <=> InTransaction(v)
  BY <1>1 DEF InTransaction
<1>3. GoneUnseen'
  <2> SUFFICES ASSUME NEW d \in Domains, Gone(d)'
               PROVE  ~Listed(d)' /\ \A v \in Workers :
                         InTransaction(v)' => d \notin task'[v].group.members
    BY DEF GoneUnseen
  <2>1. CASE Gone(d)
    <3>1. /\ ~Listed(d)
          /\ \A v \in Workers : InTransaction(v) => d \notin task[v].group.members
      BY <2>1 DEF MemberInv, GoneUnseen
    <3>2. QED
      BY <1>1, <1>2, <2>1, <3>1 DEF Listed, InTransaction
  <2>2. CASE ~Gone(d)
    <3>1. t.pc = "save" /\ t.domain = d /\ d \notin met'
      BY <1>1, <2>2 DEF Gone
    <3>2. QED
      BY <1>1, <1>2, <3>1 DEF Listed, InTransaction
  <2>3. QED
    BY <2>1, <2>2
<1>4. AloneCurrent'
  <2> SUFFICES ASSUME NEW v \in Workers, InTransaction(v)', task'[v].domain \notin met'
               PROVE  /\ group'.exists /\ task'[v].group = group'
                      /\ \A u \in Workers \ {v} : ~InTransaction(u)'
    BY DEF AloneCurrent
  <2>1. CASE v = w
    BY <1>1, <1>2, <2>1 DEF InTransaction
  <2>2. CASE v # w
    <3>1. InTransaction(v) /\ task'[v] = task[v] /\ task[v].domain \notin met
      BY <1>1, <1>2, <2>2
    <3>2. /\ group.exists /\ task[v].group = group
          /\ \A u \in Workers \ {v} : ~InTransaction(u)
      BY <3>1 DEF MemberInv, AloneCurrent
    <3>3. ~InTransaction(w)'
      BY <1>1, <2>2, <3>1 DEF InTransaction
    <3>4. QED
      BY <1>2, <3>1, <3>2, <3>3
  <2>3. QED
    BY <2>1, <2>2
<1>5. NewApplied'
  BY <1>1 DEF MemberInv, NewApplied, Working
<1>6. NoChangeLost'
  BY DEF MemberInv, NoChangeLost
<1>7. QED
  BY <1>3, <1>4, <1>5, <1>6

(* The end of a transaction: its domain and those gone before are not listed. *)
LEMMA GroupLeft ==
    ASSUME MemberInv, UNCHANGED <<applied, met>>, NEW w \in Workers, InTransaction(w),
           NEW t, task' = [task EXCEPT ![w] = t], t.pc = "save", t.domain = task[w].domain,
           \A d \in Domains : Gone(d) \/ d = t.domain => ~Listed(d)'
    PROVE  GoneUnseen' /\ AloneCurrent'
<1>1. task'[w] = t /\ \A v \in Workers \ {w} : task'[v] = task[v]
  BY DEF MemberInv, TypeOK
<1>2. ~InTransaction(w)' /\ \A v \in Workers \ {w} : InTransaction(v)' <=> InTransaction(v)
  BY <1>1 DEF InTransaction
<1>3. GoneUnseen'
  <2> SUFFICES ASSUME NEW d \in Domains, Gone(d)'
               PROVE  ~Listed(d)' /\ \A v \in Workers :
                         InTransaction(v)' => d \notin task'[v].group.members
    BY DEF GoneUnseen
  <2>1. CASE Gone(d)
    BY <1>1, <1>2, <2>1 DEF MemberInv, GoneUnseen
  <2>2. CASE ~Gone(d)
    <3>1. t.domain = d /\ d \notin met
      BY <1>1, <2>2 DEF Gone
    <3>2. \A v \in Workers : ~InTransaction(v)'
      BY <1>2, <3>1 DEF MemberInv, AloneCurrent
    <3>3. QED
      BY <3>1, <3>2
  <2>3. QED
    BY <2>1, <2>2
<1>4. AloneCurrent'
  BY <1>1, <1>2 DEF MemberInv, AloneCurrent
<1>5. QED
  BY <1>3, <1>4

LEMMA StepMemberInv == CidAssumption /\ MemberInv /\ [Next]_vars => MemberInv'
<1> SUFFICES ASSUME CidAssumption, MemberInv, [Next]_vars PROVE MemberInv'
  OBVIOUS
<1>t. TypeOK /\ TypeOK'
  BY StepTyped DEF MemberInv
<1> DEFINE Good == GoneUnseen /\ AloneCurrent /\ NewApplied /\ NoChangeLost
<1>g. GoneUnseen /\ AloneCurrent /\ NewApplied /\ NoChangeLost
  BY DEF MemberInv
<1>1. ASSUME NEW w \in Workers, NEW d \in Domains, Take(w, d) PROVE Good'
  <2> PICK t : t = [pc |-> "find", domain |-> d, row |-> rows[d],
                    group |-> group, survivors |-> rows]
    OBVIOUS
  <2>1. task' = [task EXCEPT ![w] = t] /\ t.pc = "find" /\ t.survivors = rows
    BY <1>1 DEF Take
  <2>2. UNCHANGED <<group, rows, applied, met>>
    BY <1>1 DEF Take, history
  <2>3. \A e \in Domains : t.survivors[e].cid = "new" => e \in applied
    BY <1>g, <2>1 DEF NewApplied
  <2>4. QED
    BY <2>1, <2>2, <2>3, GroupKept
<1>2. ASSUME NEW w \in Workers, FindGroup(w) PROVE Good'
  <2>1. task[w] \in Task /\ ~InTransaction(w) /\ Working(w)
    BY <1>t, <1>2, HeldType DEF FindGroup, InTransaction, Working
  <2> PICK pc : pc = IF ~group.exists THEN "save"
                     ELSE IF group.primary = task[w].domain THEN "elect" ELSE "leave"
    OBVIOUS
  <2> PICK t : t = [task[w] EXCEPT !.group = group, !.pc = pc]
    OBVIOUS
  <2>2. task' = [task EXCEPT ![w] = t] /\ UNCHANGED <<group, rows, applied>>
    BY <1>t, <1>2, <2>1 DEF FindGroup, TypeOK
  <2>3. /\ t.pc = pc /\ t.group = group
        /\ t.domain = task[w].domain /\ t.survivors = task[w].survivors
    BY <2>1 DEF Task
  <2>4. t.pc \in {"leave", "elect", "tear"} => group.exists
    BY <2>3
  <2>5. t.pc = "save" => ~Listed(t.domain)
    BY <2>3 DEF Listed
  <2>6. met \subseteq met'
    BY <1>2 DEF FindGroup
  <2>7. (\E v \in Workers : InTransaction(v)) =>
           /\ task[w].domain \in met'
           /\ \A v \in Workers : InTransaction(v) => task[v].domain \in met'
    BY <1>2 DEF FindGroup
  <2>8. t.pc \in {"leave", "elect", "tear"} =>
           \A d \in Domains : Gone(d) => d \notin t.group.members
    BY <1>g, <2>3, <2>4 DEF GoneUnseen, Listed
  <2>9. \A d \in Domains : t.survivors[d].cid = "new" => d \in applied
    BY <1>g, <2>1, <2>3 DEF NewApplied
  <2>10. QED
    BY <2>2, <2>3, <2>4, <2>5, <2>6, <2>7, <2>8, <2>9, GroupKept
<1>3. ASSUME NEW w \in Workers, Leave(w) PROVE Good'
  <2>1. task[w] \in Task /\ InTransaction(w) /\ Working(w)
    BY <1>t, <1>3, HeldType DEF Leave, InTransaction, Working
  <2> PICK t : t = [task[w] EXCEPT !.pc = "save"]
    OBVIOUS
  <2>2. task' = [task EXCEPT ![w] = t] /\ UNCHANGED <<rows, applied, met>>
    BY <1>t, <1>3, <2>1 DEF Leave, TypeOK, history
  <2>3. t.pc = "save" /\ t.domain = task[w].domain /\ t.survivors = task[w].survivors
    BY <2>1 DEF Task
  <2>4. ASSUME NEW d \in Domains, Gone(d) \/ d = t.domain PROVE ~Listed(d)'
    <3>1. CASE group' = Without(task[w].group, task[w].domain)
      <4>1. group'.members = task[w].group.members \ {task[w].domain}
        BY <2>1, <3>1 DEF Without, Task, Group
      <4>2. Gone(d) => d \notin task[w].group.members
        BY <1>g, <2>1 DEF GoneUnseen
      <4>3. QED
        BY <2>3, <2>4, <4>1, <4>2 DEF Listed
    <3>2. CASE ~group.exists /\ UNCHANGED group
      BY <3>2 DEF Listed
    <3>3. QED
      BY <1>3, <3>1, <3>2 DEF Leave
  <2>5. GoneUnseen' /\ AloneCurrent'
    BY <2>1, <2>2, <2>3, <2>4, GroupLeft
  <2>6. /\ \A v \in Workers : Working(v)' =>
              Working(v) /\ task'[v].survivors = task[v].survivors
    BY <1>t, <2>1, <2>2, <2>3 DEF TypeOK, Working
  <2>7. NewApplied' /\ NoChangeLost'
    BY <1>g, <2>2, <2>6 DEF NewApplied, NoChangeLost
  <2>8. QED
    BY <2>5, <2>7
<1>4. ASSUME NEW w \in Workers, FindSurvivors(w) PROVE Good'
  <2>1. task[w] \in Task /\ InTransaction(w)
    BY <1>t, <1>4, HeldType DEF FindSurvivors, InTransaction
  <2> PICK t : t = [task[w] EXCEPT !.pc = "tear", !.survivors = rows]
    OBVIOUS
  <2>2. task' = [task EXCEPT ![w] = t] /\ UNCHANGED <<group, rows, applied, met>>
    BY <1>t, <1>4, <2>1 DEF FindSurvivors, TypeOK, history
  <2>3. /\ t.pc = "tear" /\ t.group = task[w].group
        /\ t.domain = task[w].domain /\ t.survivors = rows
    BY <2>1 DEF Task
  <2>4. \A d \in Domains : Gone(d) => d \notin t.group.members
    BY <1>g, <2>1, <2>3 DEF GoneUnseen
  <2>5. t.domain \notin met => /\ group.exists /\ t.group = group
                               /\ \A v \in Workers \ {w} : ~InTransaction(v)
    BY <1>g, <2>1, <2>3 DEF AloneCurrent
  <2>6. \A v \in Workers \ {w} : InTransaction(v) => task[v].domain \in met
    BY <1>g, <2>1 DEF AloneCurrent
  <2>7. \A d \in Domains : t.survivors[d].cid = "new" => d \in applied
    BY <1>g, <2>3 DEF NewApplied
  <2>8. QED
    BY <2>2, <2>3, <2>4, <2>5, <2>6, <2>7, GroupKept
<1>5. ASSUME NEW w \in Workers, TearDown(w) PROVE Good'
  <2>1. task[w] \in Task /\ InTransaction(w) /\ Working(w)
    BY <1>t, <1>5, HeldType DEF TearDown, InTransaction, Working
  <2> PICK t : t = [task[w] EXCEPT !.pc = "save"]
    OBVIOUS
  <2>2. task' = [task EXCEPT ![w] = t] /\ UNCHANGED <<applied, met>>
    BY <1>t, <1>5, <2>1 DEF TearDown, TypeOK, history
  <2>3. t.pc = "save" /\ t.domain = task[w].domain /\ t.survivors = task[w].survivors
    BY <2>1 DEF Task
  <2>4. \A d \in Domains : ~Listed(d)'
    BY <1>t, <1>5 DEF TearDown, TypeOK, Group, Listed
  <2>5. GoneUnseen' /\ AloneCurrent'
    BY <2>1, <2>2, <2>3, <2>4, GroupLeft
  <2>6. \A d \in Domains : \/ rows'[d] = rows[d]
                           \/ /\ d \in task[w].group.members
                              /\ rows'[d].cid = task[w].survivors[d].cid
    <3> SUFFICES ASSUME NEW d \in Survivors(w)
                 PROVE  /\ d \in task[w].group.members
                        /\ rows'[d].cid = task[w].survivors[d].cid
      BY <1>5 DEF TearDown
    <3>1. d \in task[w].group.members /\ d \in Domains
      BY <2>1 DEF Survivors, Task, Group
    <3>2. rows'[d] = [task[w].survivors[d] EXCEPT !.ref = FALSE, !.isPrimary = FALSE]
      BY <1>5, <3>1 DEF TearDown
    <3>3. task[w].survivors[d] \in Row
      BY <2>1, <3>1 DEF Task
    <3>4. QED
      BY <3>1, <3>2, <3>3 DEF Row
  <2>7. \A v \in Workers : Working(v)' =>
           Working(v) /\ task'[v].survivors = task[v].survivors
    BY <1>t, <2>1, <2>2, <2>3 DEF TypeOK, Working
  <2>8. NewApplied'
    BY <1>g, <2>1, <2>2, <2>6, <2>7 DEF NewApplied
  <2>9. NoChangeLost'
    <3> SUFFICES ASSUME NEW d \in applied, d \notin met PROVE rows'[d].cid = "new"
      BY <2>2 DEF NoChangeLost
    <3>1. d \in Domains /\ Gone(d) /\ rows[d].cid = "new"
      BY <1>t, <1>g DEF TypeOK, Gone, NoChangeLost
    <3>2. d \notin task[w].group.members
      BY <1>g, <2>1, <3>1 DEF GoneUnseen
    <3>3. QED
      BY <2>6, <3>1, <3>2
  <2>10. QED
    BY <2>5, <2>8, <2>9
<1>6. ASSUME NEW w \in Workers, SaveRow(w) PROVE Good'
  <2>1. task[w] \in Task /\ task[w].pc = "save"
    BY <1>t, <1>6, HeldType DEF SaveRow
  <2>2. /\ UNCHANGED <<group, met>> /\ task' = [task EXCEPT ![w] = Free]
        /\ applied' = applied \cup {task[w].domain}
    BY <1>6 DEF SaveRow
  <2>3. /\ rows'[task[w].domain].cid = "new"
        /\ \A d \in Domains : d # task[w].domain => rows'[d] = rows[d]
    BY <1>t, <1>6, <2>1 DEF SaveRow, TypeOK, Task
  <2>4. /\ task'[w].pc = "free"
        /\ \A v \in Workers \ {w} : task'[v] = task[v]
    BY <1>t, <2>2 DEF TypeOK, Free
  <2>5. \A v \in Workers : task'[v].pc # "free" => v # w /\ task'[v] = task[v]
    BY <2>4
  <2>6. \A d \in Domains : Gone(d)' => Gone(d)
    BY <2>1, <2>2, <2>5 DEF Gone
  <2>7. GoneUnseen' /\ AloneCurrent'
    <3>1. \A v \in Workers : InTransaction(v)' => InTransaction(v) /\ task'[v] = task[v]
      BY <2>5 DEF InTransaction
    <3>2. QED
      BY <1>g, <2>2, <2>6, <3>1 DEF GoneUnseen, AloneCurrent, Listed
  <2>8. NewApplied'
    BY <1>g, <2>2, <2>3, <2>5 DEF NewApplied, Working
  <2>9. NoChangeLost'
    BY <1>t, <1>g, <2>2, <2>3 DEF NoChangeLost, TypeOK
  <2>10. QED
    BY <2>7, <2>8, <2>9
<1>7. ASSUME NEW w \in Workers, Abort(w) PROVE Good'
  <2> PICK t : t = Free
    OBVIOUS
  <2>1. task' = [task EXCEPT ![w] = t] /\ t.pc = "free"
    BY <1>7 DEF Abort, Free
  <2>2. UNCHANGED <<group, rows, applied, met>>
    BY <1>7 DEF Abort, history
  <2>3. QED
    BY <2>1, <2>2, GroupKept
<1>8. ASSUME UNCHANGED vars PROVE Good'
  BY <1>g, <1>8 DEF vars, history, GoneUnseen, AloneCurrent, NewApplied, NoChangeLost, Gone,
                    InTransaction, Listed, Working
<1>9. Good'
  BY <1>1, <1>2, <1>3, <1>4, <1>5, <1>6, <1>7, <1>8 DEF Next, Work
<1>10. QED
  BY <1>t, <1>9 DEF MemberInv

(***************************************************************************)
(* However often transactions are rolled back and saves lost, the group    *)
(* lists nobody who has left its cid, but for the domains whose own        *)
(* transaction was open along with another.                                *)
(***************************************************************************)
THEOREM MembersNotStale == Spec => []NoStaleMember
<1>1. MemberInv => NoStaleMember
  <2> SUFFICES ASSUME MemberInv, NEW d \in Domains, Listed(d), d \notin met
               PROVE  rows[d].cid = "old"
    BY DEF NoStaleMember
  <2>1. d \notin applied
    BY DEF MemberInv, GoneUnseen, Gone
  <2>2. rows[d].cid # "new"
    BY <2>1 DEF MemberInv, NewApplied
  <2>3. rows[d] \in Row
    BY DEF MemberInv, TypeOK
  <2>4. QED
    BY <2>2, <2>3 DEF Row
<1>2. QED
  BY <1>1, CidAssumption, InitMemberInv, StepMemberInv, PTL DEF Spec

(***************************************************************************)
(* A change of cid that was applied stays, although departing primaries    *)
(* save the rows of whole groups, but for the domains whose own            *)
(* transaction was open along with another.                                *)
(***************************************************************************)
THEOREM ChangesKept == Spec => []NoChangeLost
<1>1. MemberInv => NoChangeLost
  BY DEF MemberInv
<1>2. QED
  BY <1>1, CidAssumption, InitMemberInv, StepMemberInv, PTL DEF Spec

=============================================================================
