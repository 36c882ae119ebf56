--------------------------- MODULE CidProcessing ---------------------------
(***************************************************************************)
(* CidProcessingService.handleCidChange: a domain whose cid changes leaves *)
(* the processing group of its old cid, in a transaction of its own,       *)
(* before applyResolution saves its row.  The group, made by the content   *)
(* indexer, is that of one cid, which the domains leave one by one or,     *)
(* when the pools' workers meet, at the same time.                         *)
(*                                                                         *)
(* PostgreSQL reads what is committed, without locks; TypeORM's save first *)
(* reads the stored row, then updates every column that differs from the   *)
(* entity, or inserts the entity when there is no such row.                *)
(***************************************************************************)
EXTENDS Naturals, FiniteSets

CONSTANTS
    Domains,    \* domains that may be in the group
    Workers,    \* pool workers of the two jobs that resolve content
    MaxFaults   \* bound: failed calls and crashes

NoDomain == "none"

ASSUME CidAssumption == MaxFaults \in Nat /\ NoDomain \notin Domains

VARIABLES
    group,      \* the cid_processing row of the old cid
    rows,       \* the dns rows
    pending,    \* domains whose change of cid is still to be applied
    task,       \* what each worker is doing
    applied,    \* history: domains whose change has been applied
    met,        \* history: domains whose transaction was open along with another
    faults      \* faults so far

history == <<applied, met>>
vars == <<group, rows, pending, task, history, faults>>

(* primaryDnsId and associatedDomains; exists is FALSE once the row is removed. *)
Group == [exists : BOOLEAN, primary : Domains, members : SUBSET Domains]

(* cid is "old" until the change is applied; ref is cidProcessingId # null. *)
Row == [cid : {"old", "new"}, ref : BOOLEAN, isPrimary : BOOLEAN]

Free == [pc |-> "free", domain |-> NoDomain]
Task == [pc : {"find", "leave", "elect", "tear", "save"}, domain : Domains, row : Row,
         group : Group, survivors : [Domains -> Row]]

TypeOK ==
    /\ group \in Group
    /\ rows \in [Domains -> Row]
    /\ pending \subseteq Domains
    /\ task \in [Workers -> {Free} \cup Task]
    /\ applied \subseteq Domains /\ met \subseteq Domains
    /\ faults \in 0 .. MaxFaults

(* The indexer has grouped some of the domains; the records of some change. *)
Init ==
    /\ \E members \in (SUBSET Domains) \ {{}} : \E primary \in members :
          /\ group = [exists |-> TRUE, primary |-> primary, members |-> members]
          /\ rows = [d \in Domains |->
                        [cid |-> "old", ref |-> d \in members, isPrimary |-> d = primary]]
    /\ pending \in SUBSET Domains
    /\ task = [w \in Workers |-> Free]
    /\ applied = {} /\ met = {}
    /\ faults = 0

-----------------------------------------------------------------------------
(* A job takes the domain with the row it loaded. *)
Take(w, d) ==
    /\ task[w].pc = "free"
    /\ d \in pending /\ \A v \in Workers : task[v].domain # d
    /\ task' = [task EXCEPT ![w] = [pc |-> "find", domain |-> d, row |-> rows[d],
                                    group |-> group, survivors |-> rows]]
    /\ UNCHANGED <<group, rows, pending, history, faults>>

InTransaction(w) == task[w].pc \in {"leave", "elect", "tear"}

(* The transaction reads the group of the old cid, if there is one. *)
FindGroup(w) ==
    /\ task[w].pc = "find"
    /\ LET open == {v \in Workers : InTransaction(v)}
       IN met' = IF open = {} THEN met ELSE met \cup {task[v].domain : v \in open \cup {w}}
    /\ task' = [task EXCEPT
          ![w].group = group,
          ![w].pc = IF ~group.exists THEN "save"
                    ELSE IF group.primary = task[w].domain THEN "elect" ELSE "leave"]
    /\ UNCHANGED <<group, rows, pending, applied, faults>>

Without(g, d) == [g EXCEPT !.members = @ \ {d}]

(* Mutant: the entity is saved as it was read. *)
LeaveUnfiltered(w) ==
    /\ task[w].pc = "leave"
    /\ group' = task[w].group
    /\ task' = [task EXCEPT ![w].pc = "save"]
    /\ UNCHANGED <<rows, pending, history, faults>>

(***************************************************************************)
(* Not the primary: the group is saved without the domain.  If another     *)
(* transaction has removed the row meanwhile, the save inserts it again,   *)
(* or updates nothing if it had still seen the row.                        *)
(***************************************************************************)
Leave(w) ==
    /\ task[w].pc = "leave"
    /\ \/ group' = Without(task[w].group, task[w].domain)
       \/ ~group.exists /\ UNCHANGED group
    /\ task' = [task EXCEPT ![w].pc = "save"]
    /\ UNCHANGED <<rows, pending, history, faults>>

(* The primary: the rows of the other members are read. *)
FindSurvivors(w) ==
    /\ task[w].pc = "elect"
    /\ task' = [task EXCEPT ![w].pc = "tear", ![w].survivors = rows]
    /\ UNCHANGED <<group, rows, pending, history, faults>>

(* Mutant: they are looked up by their cid and not by the names the group lists. *)
SurvivorsByCid(w) ==
    {d \in Domains : task[w].survivors[d].cid = "old"} \ {task[w].domain}

Survivors(w) == task[w].group.members \ {task[w].domain}

(* Mutant: the group is removed without a look at its other members. *)
TearDownOnly(w) ==
    /\ task[w].pc = "tear"
    /\ group' = [group EXCEPT !.exists = FALSE]
    /\ task' = [task EXCEPT ![w].pc = "save"]
    /\ UNCHANGED <<rows, pending, history, faults>>

(* They are saved detached, the group is removed, and the transaction commits. *)
TearDown(w) ==
    /\ task[w].pc = "tear"
    /\ rows' = [d \in Domains |->
          IF d \in Survivors(w)
          THEN [task[w].survivors[d] EXCEPT !.ref = FALSE, !.isPrimary = FALSE] ELSE rows[d]]
    /\ group' = [group EXCEPT !.exists = FALSE]
    /\ task' = [task EXCEPT ![w].pc = "save"]
    /\ UNCHANGED <<pending, history, faults>>

(* Mutant: the row is saved with its cid unset. *)
SaveRowUnset(w) ==
    /\ task[w].pc = "save"
    /\ rows' = [rows EXCEPT ![task[w].domain] =
                   [cid |-> "unset", ref |-> FALSE, isPrimary |-> FALSE]]
    /\ pending' = pending \ {task[w].domain} /\ applied' = applied \cup {task[w].domain}
    /\ task' = [task EXCEPT ![w] = Free]
    /\ UNCHANGED <<group, met, faults>>

(* Mutant: the row is saved with the group it was loaded with. *)
SaveRowAttached(w) ==
    /\ task[w].pc = "save"
    /\ rows' = [rows EXCEPT ![task[w].domain] = [task[w].row EXCEPT !.cid = "new"]]
    /\ pending' = pending \ {task[w].domain} /\ applied' = applied \cup {task[w].domain}
    /\ task' = [task EXCEPT ![w] = Free]
    /\ UNCHANGED <<group, met, faults>>

(* applyResolution saves the row with its new cid. *)
SaveRow(w) ==
    /\ task[w].pc = "save"
    /\ rows' = [rows EXCEPT ![task[w].domain] =
                   [cid |-> "new", ref |-> FALSE, isPrimary |-> FALSE]]
    /\ pending' = pending \ {task[w].domain} /\ applied' = applied \cup {task[w].domain}
    /\ task' = [task EXCEPT ![w] = Free]
    /\ UNCHANGED <<group, met, faults>>

(* An await throws or the process dies: an open transaction is rolled back. *)
Abort(w) ==
    /\ faults < MaxFaults /\ faults' = faults + 1
    /\ task[w].pc # "free"
    /\ task' = [task EXCEPT ![w] = Free]
    /\ UNCHANGED <<group, rows, pending, history>>

Work(w) ==
    \/ \E d \in Domains : Take(w, d)
    \/ FindGroup(w) \/ Leave(w) \/ FindSurvivors(w) \/ TearDown(w) \/ SaveRow(w)

Next == \E w \in Workers : Work(w) \/ Abort(w)

Spec == Init /\ [][Next]_vars

(* The held cursor has a failed domain processed again; every await settles. *)
FairSpec == Spec /\ \A w \in Workers : WF_vars(Work(w))

-----------------------------------------------------------------------------
(***************************************************************************)
(* Properties.                                                             *)
(***************************************************************************)
(* The group is there and has the domain as a member. *)
Listed(d) == group.exists /\ d \in group.members

(***************************************************************************)
(* cid-processing.service.ts:18-19, "the cleanup half so stale group       *)
(* memberships don't pile up": at no time, whatever is cut off between the *)
(* transaction and the save after it, does the group list a domain that    *)
(* has left its cid, unless another's transaction was open along with its  *)
(* own and undid its removal.                                              *)
(***************************************************************************)
NoStaleMember == \A d \in Domains : Listed(d) => rows[d].cid = "old" \/ d \in met

(***************************************************************************)
(* A change of cid once applied is there to stay, although the primary's   *)
(* departure saves the rows of the others whole as it read them: unless    *)
(* the domain's own transaction overlapped with another, no transaction    *)
(* finds it in the group any more from which it has departed.              *)
(***************************************************************************)
NoChangeLost == \A d \in applied : rows[d].cid = "new" \/ d \in met

(***************************************************************************)
(* Whatever transactions overlap and wherever a fault cuts one from the    *)
(* save after it: the only rows that point to a group which is gone, or    *)
(* does not list them, are those whose own change of cid has to be done    *)
(* yet, and that will put them right.                                      *)
(***************************************************************************)
RefListed == \A d \in Domains : rows[d].ref => Listed(d) \/ d \in pending

(***************************************************************************)
(* A dns row points to a group only while the group exists and has it as a *)
(* member, however often the transaction and the save after it are cut     *)
(* apart and repeated.                                                     *)
(***************************************************************************)
NoDanglingGroup ==
    <>[](\A d \in Domains : rows[d].ref => Listed(d))

=============================================================================
