---------------------------- MODULE DomainSweep ----------------------------
(***************************************************************************)
(* What SnsBackfillJob promises the rest of the indexer, without its       *)
(* partitions, pages and cursor.  The sweep is marked complete only when   *)
(* every domain it owes has a row; and the mark, once set, is lost only to *)
(* a process that found the row open before and saves it back whole, once. *)
(*                                                                         *)
(* A domain is owed that had a name when the sweep began and has kept its  *)
(* owner since.                                                            *)
(***************************************************************************)
CONSTANTS
    Procs,      \* processes that sweep
    Domains     \* top-level domains

VARIABLES
    due,        \* the domains the sweep owes
    found,      \* the domains with a dns row
    closed,     \* isMigrated
    holders     \* processes that found the row open and are about to save it

vars == <<due, found, closed, holders>>

Init ==
    /\ due \in SUBSET Domains
    /\ found = {}
    /\ closed = FALSE
    /\ holders = {}

(* A batch, or another job, inserts rows. *)
Find ==
    /\ \E some \in SUBSET Domains : found' = found \cup some
    /\ UNCHANGED <<due, closed, holders>>

(* A domain changes hands. *)
Excuse ==
    /\ \E d \in due : due' = due \ {d}
    /\ UNCHANGED <<found, closed, holders>>

Close ==
    /\ due \subseteq found
    /\ closed' = TRUE
    /\ UNCHANGED <<due, found, holders>>

(* The row is read to be saved with a new cursor. *)
Hold(p) ==
    /\ ~closed
    /\ holders' = holders \cup {p}
    /\ UNCHANGED <<due, found, closed>>

(* It is saved as it was found, whoever has marked it meanwhile. *)
Reopen(p) ==
    /\ p \in holders
    /\ closed' = FALSE
    /\ holders' = holders \ {p}
    /\ UNCHANGED <<due, found>>

(* The save fails, or the process dies before it. *)
Drop(p) ==
    /\ holders' = holders \ {p}
    /\ UNCHANGED <<due, found, closed>>

Next == Find \/ Excuse \/ Close \/ \E p \in Procs : Hold(p) \/ Reopen(p) \/ Drop(p)

Spec == Init /\ [][Next]_vars
=============================================================================
