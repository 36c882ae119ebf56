--------------------------- MODULE MCSnsBackfill ---------------------------
(* Model-checking instances of the backfill job. *)
EXTENDS SnsBackfill, TLC

CONSTANTS cron, once, d1, d2

(* The reverse account of d2 has no data. *)
OneNamed ==
    [d \in Domains |-> [exists |-> TRUE, data |-> d = d1, readable |-> TRUE, value |-> d]]

CronAndOnce == {cron, once}
=============================================================================
