---------------------------- MODULE TokenBucket ----------------------------
(***************************************************************************)
(* The limiter in front of every call of the Solana Connection: acquire,   *)
(* refill, the queue of waiting callers and the timer that drains it.      *)
(* RpcCalls has the callers.                                               *)
(*                                                                         *)
(* A token is One units; Rate units arrive per tick of the clock, so One   *)
(* is 1000 and Rate is refillPerSec when a tick is a millisecond.          *)
(***************************************************************************)
EXTENDS Integers, Sequences

CONSTANTS
    Callers,        \* concurrent callers of throttledFetch
    Capacity,       \* tokens the bucket holds
    One,            \* units of a token
    Rate,           \* units refilled per tick
    MinWait,        \* ticks a timer sleeps at least
    Skew,           \* ticks by which the wall clock may be set
    MaxSets         \* bound: times it is set

ASSUME BucketAssumption ==
    /\ Capacity \in Nat \ {0} /\ One \in Nat \ {0}
    /\ Rate \in Nat \ {0} /\ MinWait \in Nat \ {0}
    /\ Skew \in Nat /\ MaxSets \in Nat

VARIABLES
    tokens,     \* units in the bucket
    since,      \* ticks since lastRefillAt by the wall clock, below 0 after it was set back
    waiting,    \* callers waiting, in the order they came
    timer,      \* ticks until the timer is due, NoTimer without one
    sets,       \* times the wall clock was set
    leaps,      \* history: times it was set forward
    debt        \* history: see Grant

bucket == <<tokens, since, waiting, timer>>
vars == <<bucket, sets, leaps, debt>>

Full == Capacity * One
NoTimer == -1

(* Ticks that fill an empty bucket. *)
FullIn == (Full + Rate - 1) \div Rate

(* since stops here: however often the clock is yet set back, refill stops at Full. *)
Horizon == FullIn + MaxSets * Skew

TypeOK ==
    /\ tokens \in 0 .. Full
    /\ since \in Int /\ since <= Horizon
    /\ waiting \in Seq(Callers)
    /\ timer \in {NoTimer} \cup Nat
    /\ sets \in 0 .. MaxSets /\ leaps \in Nat
    /\ debt \in Nat

Init ==
    /\ tokens = Full /\ since = 0
    /\ waiting = <<>> /\ timer = NoTimer
    /\ sets = 0 /\ leaps = 0 /\ debt = 0

-----------------------------------------------------------------------------
(***************************************************************************)
(* Time.  Timers run by a clock that is never set, and a due one may be    *)
(* kept waiting by the event loop; refill reads Date.now, which may be.    *)
(***************************************************************************)
Later(ticks) == IF since + ticks < Horizon THEN since + ticks ELSE Horizon

Tick ==
    /\ since' = Later(1)
    /\ timer' = IF timer > 0 THEN timer - 1 ELSE timer
    /\ debt' = IF debt > Rate THEN debt - Rate ELSE 0
    /\ UNCHANGED <<tokens, waiting, sets, leaps>>

ClockSetBack ==
    /\ sets < MaxSets /\ sets' = sets + 1
    /\ since' = since - Skew
    /\ UNCHANGED <<tokens, waiting, timer, leaps, debt>>

ClockSetForward ==
    /\ sets < MaxSets /\ sets' = sets + 1
    /\ since' = Later(Skew) /\ leaps' = leaps + 1
    /\ UNCHANGED <<tokens, waiting, timer, debt>>

-----------------------------------------------------------------------------
(* Mutant: the refill is not cut off at the capacity. *)
RefilledUncapped == IF since > 0 THEN tokens + since * Rate ELSE tokens

(* The units that refill leaves in the bucket: nothing arrives while the clock is behind. *)
Refilled ==
    IF since <= 0 THEN tokens
    ELSE IF tokens + since * Rate < Full THEN tokens + since * Rate ELSE Full

(***************************************************************************)
(* What is granted is added to the debt, and a tick pays off Rate of it:   *)
(* at each moment it is, in units, the most that any interval ending now   *)
(* has granted beyond what arrives in such an interval.                    *)
(***************************************************************************)
Grant(n) == debt' = debt + n * One

(* lastRefillAt moves to now, unless now is before it. *)
Stamp == since' = IF since > 0 THEN 0 ELSE since

(***************************************************************************)
(* scheduleNextDrain leaves a pending timer alone; a new one sleeps until  *)
(* the missing part of a token has arrived, rounded up to whole ticks.     *)
(***************************************************************************)
TicksFor(units) == (units + Rate - 1) \div Rate

Sleep(left) == IF TicksFor(One - left) > MinWait THEN TicksFor(One - left) ELSE MinWait

ScheduleNextDrain(left) == timer' = IF timer = NoTimer THEN Sleep(left) ELSE timer

(* Mutant: refill does not move lastRefillAt. *)
AcquireNowKeepingClock(c) ==
    /\ Refilled >= One
    /\ tokens' = Refilled - One
    /\ debt' = debt + One
    /\ UNCHANGED <<since, waiting, timer, sets, leaps>>

(* acquire: the call takes a token at once, or joins the queue. *)
AcquireNow(c) ==
    /\ Refilled >= One
    /\ tokens' = Refilled - One /\ Stamp
    /\ Grant(1)
    /\ UNCHANGED <<waiting, timer, sets, leaps>>

AcquireLater(c) ==
    /\ Refilled < One
    /\ tokens' = Refilled /\ Stamp
    /\ waiting' = Append(waiting, c)
    /\ ScheduleNextDrain(Refilled)
    /\ UNCHANGED <<sets, leaps, debt>>

-----------------------------------------------------------------------------
(* How many waiting callers the refilled bucket serves. *)
Served ==
    IF Refilled \div One < Len(waiting) THEN Refilled \div One ELSE Len(waiting)

(* Mutant: a drain that leaves callers waiting sets no new timer. *)
DrainOnce ==
    /\ timer = 0
    /\ tokens' = Refilled - Served * One /\ Stamp
    /\ waiting' = SubSeq(waiting, Served + 1, Len(waiting))
    /\ Grant(Served)
    /\ timer' = NoTimer
    /\ UNCHANGED <<sets, leaps>>

(* drain: the timer is cleared, and set again when callers are left. *)
Drain ==
    /\ timer = 0
    /\ tokens' = Refilled - Served * One /\ Stamp
    /\ waiting' = SubSeq(waiting, Served + 1, Len(waiting))
    /\ Grant(Served)
    /\ timer' = IF Served < Len(waiting) THEN Sleep(Refilled - Served * One) ELSE NoTimer
    /\ UNCHANGED <<sets, leaps>>

Next ==
    \/ Tick \/ ClockSetBack \/ ClockSetForward
    \/ Drain
    \/ \E c \in Callers : AcquireNow(c) \/ AcquireLater(c)

Spec == Init /\ [][Next]_vars

-----------------------------------------------------------------------------
(***************************************************************************)
(* Properties.                                                             *)
(***************************************************************************)
(***************************************************************************)
(* In no interval are more calls granted than a full bucket and what       *)
(* arrived meanwhile allow, and one bucket more for each time the clock    *)
(* was set forward: the cap on the RPC rate, which is therefore close to   *)
(* twice the capacity in the first second of a burst.                      *)
(***************************************************************************)
RateBound == debt <= (1 + leaps) * Full

(***************************************************************************)
(* A caller that waits is woken: there is a timer while anyone waits, even *)
(* while the clock is behind and nothing arrives.                          *)
(***************************************************************************)
TimerWhileWaiting == waiting # <<>> => timer # NoTimer

-----------------------------------------------------------------------------
(* What the bucket would hold if refill ran now, and the inductive form of RateBound. *)
RateInv == debt + Refilled <= (1 + leaps) * Full

=============================================================================
