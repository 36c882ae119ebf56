--------------------------- MODULE MCSnsCursorJob ---------------------------
(* Model-checking instances of the slot-cursor job. *)
EXTENDS SnsCursorJob

CONSTANTS cron, once

CronOnly == {cron}
CronAndOnce == {cron, once}
=============================================================================
