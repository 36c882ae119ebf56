--------------------------- MODULE RpcCalls_proof ---------------------------
(***************************************************************************)
(* Proofs about TokenBucket for every capacity, rate and clock, and about  *)
(* RpcCalls, which implements it: what is proved of the bucket holds       *)
(* whoever retries, sleeps or goes past it.                                *)
(***************************************************************************)
EXTENDS RpcCalls, RecursionFacts, FiniteSetTheorems, TLAPS

-----------------------------------------------------------------------------
(* Arithmetic the provers are given in small pieces. *)
LEMMA ProductNat == \A a, b \in Nat : a * b \in Nat
  OBVIOUS

LEMMA ProductGrows == \A a, b, c \in Nat : a <= b => a * c <= b * c
  OBVIOUS

(* A debt that is paid off, and one that stays while less is left in the bucket. *)
LEMMA PaidOff ==
    ASSUME NEW d \in Nat, NEW held \in Int, NEW holds \in Int, NEW rate \in Nat,
           NEW cap \in Nat, d + held <= cap, holds <= held + rate, holds <= cap
    PROVE  (IF d > rate THEN d - rate ELSE 0) + holds <= cap
  OBVIOUS

LEMMA StillOwed ==
    ASSUME NEW d \in Nat, NEW held \in Int, NEW holds \in Int, NEW cap \in Nat, NEW more \in Nat,
           d + held <= cap, holds <= held + more
    PROVE  d + holds <= cap + more
  OBVIOUS

LEMMA DivBound ==
    ASSUME NEW a \in Nat, NEW b \in Nat \ {0}
    PROVE  a \div b \in Nat /\ (a \div b) * b <= a
  OBVIOUS

LEMMA FullType ==
    BucketAssumption => Full \in Nat /\ One <= Full /\ Horizon \in Nat
<1> SUFFICES ASSUME BucketAssumption PROVE Full \in Nat /\ One <= Full /\ Horizon \in Nat
  OBVIOUS
<1>1. Full \in Nat /\ One <= Full
  BY DEF BucketAssumption, Full
<1>2. Full + Rate - 1 \in Nat /\ Rate \in Nat \ {0}
  BY <1>1 DEF BucketAssumption
<1>3. (Full + Rate - 1) \div Rate \in Nat
  BY <1>2, DivBound
<1>4. MaxSets * Skew \in Nat
  BY ProductNat DEF BucketAssumption
<1> QED
  BY <1>1, <1>3, <1>4 DEF Horizon, FullIn

LEMMA RefilledType ==
    ASSUME BucketAssumption, TypeOK
    PROVE  Refilled \in 0 .. Full
<1> DEFINE arrived == since * Rate
<1>1. Rate \in Nat /\ Full \in Nat /\ since \in Int /\ tokens \in 0 .. Full
  BY FullType DEF TypeOK, BucketAssumption
<1>2. since > 0 => arrived \in Nat
  BY <1>1, ProductNat
<1>3. Refilled = IF since <= 0 THEN tokens
                 ELSE IF tokens + arrived < Full THEN tokens + arrived ELSE Full
  BY DEF Refilled
<1> HIDE DEF arrived
<1> QED
  BY <1>1, <1>2, <1>3

LEMMA ServedType ==
    ASSUME BucketAssumption, TypeOK
    PROVE  /\ Served \in Nat /\ Served <= Len(waiting)
           /\ Served * One \in Nat /\ Served * One <= Refilled
<1>1. Refilled \in Nat /\ One \in Nat \ {0} /\ Len(waiting) \in Nat
  BY RefilledType, FullType DEF BucketAssumption, TypeOK
<1>2. Refilled \div One \in Nat /\ (Refilled \div One) * One <= Refilled
  BY <1>1, DivBound
<1>3. Served \in Nat /\ Served <= Len(waiting) /\ Served <= Refilled \div One
  BY <1>1, <1>2 DEF Served
<1>4. Served * One <= (Refilled \div One) * One
  BY <1>1, <1>2, <1>3, ProductGrows
<1>5. Served * One \in Nat /\ (Refilled \div One) * One \in Nat
  BY <1>1, <1>2, <1>3, ProductNat
<1> QED
  BY <1>1, <1>2, <1>3, <1>4, <1>5

LEMMA SleepType ==
    ASSUME BucketAssumption, NEW left \in Nat
    PROVE  Sleep(left) \in Nat \ {0}
<1>1. TicksFor(One - left) \in Int
  BY DEF TicksFor, BucketAssumption
<1> QED
  BY <1>1 DEF Sleep, BucketAssumption

-----------------------------------------------------------------------------
LEMMA TypeInit == BucketAssumption /\ Init => TypeOK
  BY FullType DEF Init, TypeOK, BucketAssumption

LEMMA TypeNext ==
    ASSUME BucketAssumption, TypeOK, [Next]_vars
    PROVE  TypeOK'
<1> USE BucketAssumption
<1>0. /\ Full \in Nat /\ Horizon \in Nat /\ Skew \in Nat /\ MaxSets \in Nat
      /\ One \in Nat \ {0} /\ Rate \in Nat \ {0}
      /\ Refilled \in 0 .. Full
  BY FullType, RefilledType DEF BucketAssumption
<1>a. since \in Int /\ since <= Horizon /\ sets \in 0 .. MaxSets /\ leaps \in Nat /\ debt \in Nat
  BY DEF TypeOK
<1>b. \A n \in Nat : Later(n) \in Int /\ Later(n) <= Horizon
  BY <1>0, <1>a DEF Later
<1>c. Stamp => since' \in Int /\ since' <= Horizon
  BY <1>0, <1>a DEF Stamp
<1>1. CASE Tick
  <2>1. since' \in Int /\ since' <= Horizon
    BY <1>1, <1>b DEF Tick
  <2>2. timer' \in {NoTimer} \cup Nat
    BY <1>1 DEF Tick, TypeOK, NoTimer
  <2>3. debt' \in Nat
    BY <1>0, <1>1, <1>a DEF Tick
  <2> QED
    BY <1>1, <2>1, <2>2, <2>3 DEF Tick, TypeOK
<1>2. CASE ClockSetBack
  <2>1. since' \in Int /\ since' <= Horizon /\ sets' \in 0 .. MaxSets
    BY <1>0, <1>2, <1>a DEF ClockSetBack
  <2> QED
    BY <1>2, <2>1 DEF ClockSetBack, TypeOK
<1>3. CASE ClockSetForward
  <2>1. sets' \in 0 .. MaxSets /\ leaps' \in Nat
    BY <1>0, <1>3, <1>a DEF ClockSetForward
  <2>2. since' \in Int /\ since' <= Horizon
    BY <1>0, <1>3, <1>b DEF ClockSetForward
  <2> QED
    BY <1>3, <2>1, <2>2 DEF ClockSetForward, TypeOK
<1>4. ASSUME NEW c \in Callers, AcquireNow(c) PROVE TypeOK'
  <2>1. tokens' \in 0 .. Full
    BY <1>0, <1>4 DEF AcquireNow
  <2>2. since' \in Int /\ since' <= Horizon
    BY <1>4, <1>c DEF AcquireNow
  <2>3. debt' \in Nat
    BY <1>0, <1>4, <1>a DEF AcquireNow, Grant
  <2> QED
    BY <1>4, <2>1, <2>2, <2>3 DEF AcquireNow, TypeOK
<1>5. ASSUME NEW c \in Callers, AcquireLater(c) PROVE TypeOK'
  <2>1. timer' \in {NoTimer} \cup Nat
    BY <1>0, <1>5, SleepType DEF AcquireLater, ScheduleNextDrain, TypeOK
  <2>2. since' \in Int /\ since' <= Horizon
    BY <1>5, <1>c DEF AcquireLater
  <2>3. waiting' \in Seq(Callers)
    BY <1>5 DEF AcquireLater, TypeOK
  <2> QED
    BY <1>0, <1>5, <2>1, <2>2, <2>3 DEF AcquireLater, TypeOK
<1>6. CASE Drain
  <2> DEFINE spent == Served * One
  <2>1. Served \in Nat /\ Served <= Len(waiting) /\ spent \in Nat /\ spent <= Refilled
    BY ServedType
  <2>2. /\ tokens' = Refilled - spent /\ debt' = debt + spent
        /\ timer' = IF Served < Len(waiting) THEN Sleep(Refilled - spent) ELSE NoTimer
    BY <1>6 DEF Drain, Grant
  <2> HIDE DEF spent
  <2>3. tokens' \in 0 .. Full /\ debt' \in Nat /\ Refilled - spent \in Nat
    BY <1>0, <1>a, <2>1, <2>2
  <2>4. timer' \in {NoTimer} \cup Nat
    BY <2>2, <2>3, SleepType
  <2>5. waiting' \in Seq(Callers)
    <3>1. waiting' = SubSeq(waiting, Served + 1, Len(waiting)) /\ waiting \in Seq(Callers)
      BY <1>6 DEF Drain, TypeOK
    <3> QED
      BY <2>1, <3>1
  <2>6. since' \in Int /\ since' <= Horizon
    BY <1>6, <1>c DEF Drain
  <2> QED
    BY <1>6, <2>3, <2>4, <2>5, <2>6 DEF Drain, TypeOK
<1>7. CASE UNCHANGED vars
  BY <1>7 DEF vars, bucket, TypeOK
<1> QED
  BY <1>1, <1>2, <1>3, <1>4, <1>5, <1>6, <1>7 DEF Next

(* The bucket never holds more than its capacity, nor a negative number of tokens. *)
THEOREM TypeCorrect == Spec => []TypeOK
<1>1. Init => TypeOK
  BY TypeInit, BucketAssumption
<1>2. TypeOK /\ [Next]_vars => TypeOK'
  BY TypeNext, BucketAssumption
<1> QED
  BY <1>1, <1>2, PTL DEF Spec

-----------------------------------------------------------------------------
(***************************************************************************)
(* Whoever waits is waited for by a timer: acquire and drain never leave a *)
(* caller in the queue without one.                                        *)
(***************************************************************************)
LEMMA TimerNext ==
    ASSUME BucketAssumption, TypeOK, TimerWhileWaiting, [Next]_vars
    PROVE  TimerWhileWaiting'
<1> USE BucketAssumption DEF TimerWhileWaiting
<1>0. Refilled \in Nat
  BY RefilledType, FullType
<1>1. CASE Tick
  BY <1>1 DEF Tick, NoTimer, TypeOK
<1>2. CASE ClockSetBack \/ ClockSetForward
  BY <1>2 DEF ClockSetBack, ClockSetForward
<1>3. ASSUME NEW c \in Callers, AcquireNow(c) PROVE TimerWhileWaiting'
  BY <1>3 DEF AcquireNow
<1>4. ASSUME NEW c \in Callers, AcquireLater(c) PROVE TimerWhileWaiting'
  <2>1. Sleep(Refilled) # NoTimer
    BY <1>0, SleepType DEF NoTimer
  <2> QED
    BY <1>4, <2>1 DEF AcquireLater, ScheduleNextDrain
<1>5. CASE Drain
  <2> DEFINE spent == Served * One
  <2>1. Served \in Nat /\ Served <= Len(waiting) /\ spent \in Nat /\ spent <= Refilled
    BY ServedType
  <2>2. timer' = IF Served < Len(waiting) THEN Sleep(Refilled - spent) ELSE NoTimer
    BY <1>5 DEF Drain
  <2> HIDE DEF spent
  <2>3. CASE Served < Len(waiting)
    BY <1>0, <2>1, <2>2, <2>3, SleepType DEF NoTimer
  <2>4. CASE Served = Len(waiting)
    <3>1. waiting' = SubSeq(waiting, Len(waiting) + 1, Len(waiting)) /\ waiting \in Seq(Callers)
      BY <1>5, <2>4 DEF Drain, TypeOK
    <3>2. waiting' = <<>>
      BY <3>1
    <3> QED
      BY <3>2
  <2> QED
    BY <2>1, <2>3, <2>4 DEF TypeOK
<1>6. CASE UNCHANGED vars
  BY <1>6 DEF vars, bucket
<1> QED
  BY <1>1, <1>2, <1>3, <1>4, <1>5, <1>6 DEF Next

THEOREM NoLostWakeup == Spec => []TimerWhileWaiting
<1>1. Init => TimerWhileWaiting
  BY DEF Init, TimerWhileWaiting
<1>2. TypeOK /\ TimerWhileWaiting /\ [Next]_vars => TimerWhileWaiting'
  BY TimerNext, BucketAssumption
<1> QED
  BY <1>1, <1>2, TypeCorrect, PTL DEF Spec

-----------------------------------------------------------------------------
(* A refill that has just run leaves nothing to arrive. *)
LEMMA JustRefilled ==
    ASSUME TypeOK, Stamp
    PROVE  Refilled' = tokens'
<1>1. since' <= 0
  BY DEF Stamp, TypeOK
<1> QED
  BY <1>1 DEF Refilled

(* The later the clock, the more has arrived, and a tick brings at most Rate. *)
LEMMA ClockRefills ==
    ASSUME BucketAssumption, TypeOK, UNCHANGED tokens, since' \in Int
    PROVE  /\ since' <= since => Refilled' <= Refilled
           /\ since' = since + 1 => Refilled' <= Refilled + Rate
<1> DEFINE a == since * Rate
           b == since' * Rate
<1>1. since \in Int /\ Rate \in Nat /\ tokens \in 0 .. Full /\ tokens' = tokens /\ Full \in Nat
  <2>1. Full \in Nat /\ Rate \in Nat
    BY FullType DEF BucketAssumption
  <2>2. since \in Int /\ tokens \in 0 .. Full
    BY DEF TypeOK
  <2> QED
    BY <2>1, <2>2
<1>2. (since > 0 => a \in Nat) /\ (since' > 0 => b \in Nat)
  <2>1. since > 0 => since \in Nat
    BY <1>1
  <2>2. since' > 0 => since' \in Nat
    OBVIOUS
  <2>3. since > 0 => a \in Nat
    BY <1>1, <2>1, ProductNat
  <2>4. since' > 0 => b \in Nat
    BY <1>1, <2>2, ProductNat
  <2> QED
    BY <2>3, <2>4
<1>3. since' > 0 /\ since' <= since => b <= a
  <2> SUFFICES ASSUME since' > 0, since' <= since PROVE b <= a
    OBVIOUS
  <2>1. since' \in Nat /\ since \in Nat
    BY <1>1
  <2> QED
    BY <1>1, <2>1, ProductGrows
<1>4. since' = since + 1 => b = a + Rate
  BY <1>1
<1>5. since = 0 => a = 0
  BY <1>1
<1>6. /\ Refilled = IF since <= 0 THEN tokens
                    ELSE IF tokens + a < Full THEN tokens + a ELSE Full
      /\ Refilled' = IF since' <= 0 THEN tokens
                     ELSE IF tokens + b < Full THEN tokens + b ELSE Full
  BY <1>1 DEF Refilled, Full
<1> HIDE DEF a, b
<1>7. since' <= since => Refilled' <= Refilled
  BY <1>1, <1>2, <1>3, <1>6
<1>8. since' = since + 1 => Refilled' <= Refilled + Rate
  BY <1>1, <1>2, <1>4, <1>5, <1>6
<1> QED
  BY <1>7, <1>8

LEMMA RateNext ==
    ASSUME BucketAssumption, TypeOK, TypeOK', RateInv, [Next]_vars
    PROVE  RateInv'
<1> USE BucketAssumption
<1> DEFINE cap == (1 + leaps) * Full
<1>0. /\ Refilled \in Int /\ Refilled >= 0 /\ Refilled <= Full /\ Full \in Nat /\ Horizon \in Nat
      /\ One \in Nat \ {0} /\ Rate \in Nat \ {0} /\ Skew \in Nat
      /\ debt \in Nat /\ leaps \in Nat /\ since \in Int /\ since <= Horizon
  BY RefilledType, FullType DEF TypeOK, BucketAssumption
<1>1. Refilled' \in Int /\ Refilled' >= 0 /\ Refilled' <= Full
  <2>1. BucketAssumption' => (Refilled \in 0 .. Full)'
    BY RefilledType, PTL
  <2>2. Full' = Full
    BY DEF Full
  <2> QED
    BY <1>0, <2>1, <2>2, BucketAssumption
<1>2. cap \in Nat /\ Full <= cap /\ debt + Refilled <= cap
  <2>1. 1 + leaps \in Nat /\ 1 <= 1 + leaps
    BY <1>0
  <2>2. 1 * Full <= (1 + leaps) * Full
    BY <1>0, <2>1, ProductGrows
  <2>3. cap \in Nat
    BY <1>0, <2>1, ProductNat
  <2> QED
    BY <1>0, <2>2, <2>3 DEF RateInv
<1>3. UNCHANGED leaps /\ debt' + Refilled' <= cap => RateInv'
  BY DEF RateInv, Full
<1>4. ASSUME NEW n \in Nat, Grant(n), UNCHANGED leaps, Refilled' = Refilled - n * One
      PROVE  RateInv'
  <2> DEFINE k == n * One
  <2>1. k \in Nat /\ debt' = debt + k /\ Refilled' = Refilled - k
    BY <1>0, <1>4, ProductNat DEF Grant
  <2> HIDE DEF k, cap
  <2>2. debt' + Refilled' <= cap
    BY <1>0, <1>2, <2>1
  <2> QED
    BY <1>3, <1>4, <2>2
<1>5. CASE Tick
  <2>1. since' \in Int /\ (since' <= since \/ since' = since + 1)
    BY <1>0, <1>5 DEF Tick, Later
  <2>2. Refilled' <= Refilled + Rate
    BY <1>0, <1>1, <1>5, <2>1, ClockRefills DEF Tick
  <2>3. debt' = IF debt > Rate THEN debt - Rate ELSE 0
    BY <1>5 DEF Tick
  <2>4. Refilled' <= cap
    BY <1>0, <1>1, <1>2
  <2> HIDE DEF cap
  <2>5. debt' + Refilled' <= cap
    BY <1>0, <1>1, <1>2, <2>2, <2>3, <2>4, PaidOff
  <2> QED
    BY <1>3, <1>5, <2>5 DEF Tick
<1>6. CASE ClockSetBack
  <2>1. since' \in Int /\ since' <= since
    BY <1>0, <1>6 DEF ClockSetBack
  <2>2. Refilled' <= Refilled + 0 /\ debt' = debt
    BY <1>0, <1>6, <2>1, ClockRefills DEF ClockSetBack
  <2> HIDE DEF cap
  <2>3. debt' + Refilled' <= cap
    <3>1. debt + Refilled' <= cap + 0
      BY <1>0, <1>1, <1>2, <2>2, StillOwed
    <3> QED
      BY <1>2, <2>2, <3>1
  <2> QED
    BY <1>3, <1>6, <2>3 DEF ClockSetBack
<1>7. CASE ClockSetForward
  <2>1. leaps' = leaps + 1 /\ debt' = debt
    BY <1>7 DEF ClockSetForward
  <2>2. (1 + leaps') * Full = cap + Full
    BY <1>0, <2>1
  <2> HIDE DEF cap
  <2>3. debt' + Refilled' <= cap + Full
    <3>1. Refilled' <= Refilled + Full
      BY <1>0, <1>1
    <3> QED
      BY <1>0, <1>1, <1>2, <2>1, <3>1, StillOwed
  <2> QED
    BY <2>2, <2>3 DEF RateInv, Full
<1>8. ASSUME NEW c \in Callers, AcquireNow(c) PROVE RateInv'
  <2>1. Grant(1) /\ UNCHANGED leaps /\ tokens' = Refilled - One /\ Stamp
    BY <1>8 DEF AcquireNow
  <2>2. Refilled' = Refilled - 1 * One
    BY <1>0, <2>1, JustRefilled
  <2> QED
    BY <1>4, <2>1, <2>2
<1>9. ASSUME NEW c \in Callers, AcquireLater(c) PROVE RateInv'
  <2>1. UNCHANGED <<debt, leaps>> /\ tokens' = Refilled /\ Stamp
    BY <1>9 DEF AcquireLater
  <2>2. debt' + Refilled' <= cap
    BY <1>2, <2>1, JustRefilled
  <2> QED
    BY <1>3, <2>1, <2>2
<1>10. CASE Drain
  <2>1. Grant(Served) /\ UNCHANGED leaps /\ tokens' = Refilled - Served * One /\ Stamp
    BY <1>10 DEF Drain
  <2> QED
    BY <1>4, <2>1, JustRefilled, ServedType
<1>11. CASE UNCHANGED vars
  <2>1. UNCHANGED <<debt, leaps, tokens, since>>
    BY <1>11 DEF vars, bucket
  <2>2. Refilled' = Refilled
    BY <2>1 DEF Refilled, Full
  <2> QED
    BY <1>2, <1>3, <2>1, <2>2
<1> QED
  BY <1>5, <1>6, <1>7, <1>8, <1>9, <1>10, <1>11 DEF Next

(***************************************************************************)
(* In any interval at most a full bucket and what arrives in it is         *)
(* granted, and a bucket more for each time the clock was set forward,     *)
(* however the timer is delayed and whoever calls when.                    *)
(***************************************************************************)
THEOREM RateBounded == Spec => []RateBound
<1>1. Init => RateInv
  <2> SUFFICES ASSUME Init PROVE RateInv
    OBVIOUS
  <2>1. Refilled = Full /\ debt = 0 /\ leaps = 0
    BY DEF Init, Refilled
  <2>2. Full \in Nat
    BY FullType, BucketAssumption
  <2> QED
    BY <2>1, <2>2 DEF RateInv
<1>2. TypeOK /\ TypeOK' /\ RateInv /\ [Next]_vars => RateInv'
  BY RateNext, BucketAssumption
<1>3. TypeOK /\ RateInv => RateBound
  <2> SUFFICES ASSUME TypeOK, RateInv PROVE RateBound
    OBVIOUS
  <2> DEFINE cap == (1 + leaps) * Full
  <2>1. Refilled \in Nat /\ debt \in Nat /\ leaps \in Nat /\ Full \in Nat
    BY RefilledType, FullType, BucketAssumption DEF TypeOK
  <2>2. cap \in Nat
    BY <2>1, ProductNat
  <2>3. debt + Refilled <= cap
    BY DEF RateInv
  <2> HIDE DEF cap
  <2>4. debt <= cap
    BY <2>1, <2>2, <2>3
  <2> QED
    BY <2>4 DEF RateBound, cap
<1> QED
  BY <1>1, <1>2, <1>3, TypeCorrect, PTL DEF Spec

-----------------------------------------------------------------------------
(***************************************************************************)
(* The calls.                                                              *)
(***************************************************************************)
LEMMA StepsOfTheBucket == [RpcNext]_rpcVars => [Next]_vars
<1> SUFFICES ASSUME [RpcNext]_rpcVars PROVE [Next]_vars
  OBVIOUS
<1>1. CASE TimePasses \/ ClockIsSet \/ DrainQueue
  BY <1>1 DEF TimePasses, ClockIsSet, DrainQueue, Next
<1>2. ASSUME NEW c \in Callers, SendNow(c) \/ SendLater(c) PROVE Next
  BY <1>2 DEF SendNow, SendLater, Next
<1>3. ASSUME NEW c \in Callers, SendPast(c) \/ Respond(c) \/ Again(c) PROVE UNCHANGED vars
  BY <1>3 DEF SendPast, Respond, Settled, FailedOnce, FailedForGood, Again
<1>4. CASE UNCHANGED rpcVars
  BY <1>4 DEF rpcVars
<1> QED
  BY <1>1, <1>2, <1>3, <1>4 DEF RpcNext

(* The calls move the bucket only by acquire, by its timer and by the clock. *)
THEOREM CallsUseTheBucket == RpcSpec => Spec
<1>1. RpcInit => Init
  BY DEF RpcInit
<1> QED
  BY <1>1, StepsOfTheBucket, PTL DEF RpcSpec, Spec

(* The rate of the requests sent through the Connection stays bounded under retries. *)
THEOREM RetriesRateBounded == RpcSpec => []RateBound
  BY CallsUseTheBucket, RateBounded, PTL

(* No attempt of a call is left in the queue without a timer. *)
THEOREM RetriesWoken == RpcSpec => []TimerWhileWaiting
  BY CallsUseTheBucket, NoLostWakeup, PTL

-----------------------------------------------------------------------------
(* The recursive definitions: ExpBackoff doubles and Patience adds up. *)
LEMMA ExpBackoffDef ==
    ASSUME RpcAssumption
    PROVE  /\ ExpBackoff \in [Nat -> Nat \ {0}]
           /\ ExpBackoff[0] = Delay
           /\ \A n \in Nat : ExpBackoff[n + 1] = 2 * ExpBackoff[n]
<1> DEFINE V == Nat \ {0}
           step == [p \in V \X Nat |-> 2 * p[1]]
           Body(f) == [n \in Nat |-> IF n = 0 THEN Delay ELSE 2 * f[n - 1]]
<1>1. Delay \in V /\ step \in [V \X Nat -> V]
  BY DEF RpcAssumption
<1>2. \A v \in V, n \in Nat : step[<<v, n>>] = 2 * v
  OBVIOUS
<1> HIDE DEF V, step
<1>3. PICK f : f \in Recursive(V, Delay, step)
  BY <1>1, RecursionExists
<1>4. f \in [Nat -> V] /\ f[0] = Delay /\ \A n \in Nat : f[n + 1] = 2 * f[n]
  BY <1>2, <1>3 DEF Recursive
<1>5. f = Body(f)
  <2>1. ASSUME NEW n \in Nat PROVE f[n] = IF n = 0 THEN Delay ELSE 2 * f[n - 1]
    <3>1. CASE n = 0
      BY <1>4, <3>1
    <3>2. CASE n # 0
      <4>1. n - 1 \in Nat /\ (n - 1) + 1 = n
        BY <3>2
      <4> QED
        BY <1>4, <3>2, <4>1
    <3> QED
      BY <3>1, <3>2
  <2> QED
    BY <1>4, <2>1
<1>6. ExpBackoff = Body(ExpBackoff)
  BY <1>5 DEF ExpBackoff
<1>7. ExpBackoff[0] = Delay /\ \A n \in Nat : ExpBackoff[n + 1] = 2 * ExpBackoff[n]
  <2>1. \A n \in Nat : ExpBackoff[n] = IF n = 0 THEN Delay ELSE 2 * ExpBackoff[n - 1]
    BY <1>6
  <2>2. \A n \in Nat : n + 1 \in Nat /\ n + 1 # 0 /\ (n + 1) - 1 = n
    OBVIOUS
  <2> QED
    BY <2>1, <2>2
<1>8. ExpBackoff = [n \in Nat |-> ExpBackoff[n]]
  BY <1>6
<1> DEFINE S == {n \in Nat : ExpBackoff[n] \in Nat \ {0}}
<1>9. S = Nat
  <2>1. 0 \in S
    BY <1>1, <1>7 DEF V
  <2>2. \A n \in S : n + 1 \in S
    BY <1>7
  <2>3. S \in SUBSET Nat
    OBVIOUS
  <2> HIDE DEF S
  <2> QED
    BY <2>1, <2>2, <2>3, NatInd
<1>10. \A n \in Nat : ExpBackoff[n] \in Nat \ {0}
  BY <1>9
<1>11. ExpBackoff \in [Nat -> Nat \ {0}]
  BY <1>8, <1>10
<1> QED
  BY <1>7, <1>11

LEMMA SleepsLengthen ==
    ASSUME RpcAssumption
    PROVE  \A n \in Nat \ {0} : /\ ShortestSleep(n) \in Nat \ {0}
                               /\ ShortestSleep(1) <= ShortestSleep(n)
<1> DEFINE S == {n \in Nat : ExpBackoff[1] <= ExpBackoff[n + 1]}
<1>1. ExpBackoff \in [Nat -> Nat \ {0}] /\ \A n \in Nat : ExpBackoff[n + 1] = 2 * ExpBackoff[n]
  BY ExpBackoffDef
<1>2. S = Nat
  <2>1. 0 \in S
    BY <1>1
  <2>2. ASSUME NEW n \in S PROVE n + 1 \in S
    <3>1. /\ ExpBackoff[1] \in Nat /\ ExpBackoff[n + 1] \in Nat
          /\ ExpBackoff[(n + 1) + 1] = 2 * ExpBackoff[n + 1]
      BY <1>1
    <3> QED
      BY <3>1
  <2>3. S \in SUBSET Nat
    OBVIOUS
  <2> HIDE DEF S
  <2> QED
    BY <2>1, <2>2, <2>3, NatInd
<1>3. ASSUME NEW n \in Nat \ {0}
      PROVE  ShortestSleep(n) \in Nat \ {0} /\ ShortestSleep(1) <= ShortestSleep(n)
  <2>1. ExpBackoff[1] <= ExpBackoff[n]
    <3>1. n - 1 \in Nat /\ (n - 1) + 1 = n
      OBVIOUS
    <3>2. \A k \in Nat : ExpBackoff[1] <= ExpBackoff[k + 1]
      BY <1>2
    <3> QED
      BY <3>1, <3>2
  <2>2. ExpBackoff[1] \in Nat \ {0} /\ ExpBackoff[n] \in Nat \ {0} /\ MaxDelay \in Nat \ {0}
    BY <1>1 DEF RpcAssumption
  <2> QED
    BY <2>1, <2>2 DEF ShortestSleep
<1> QED
  BY <1>3

LEMMA PatienceDef ==
    ASSUME RpcAssumption
    PROVE  /\ Patience \in [Nat -> Nat]
           /\ Patience[0] = 0
           /\ \A n \in Nat : Patience[n + 1] = Patience[n] + ShortestSleep(n + 1)
<1> DEFINE step == [p \in Nat \X Nat |-> p[1] + ShortestSleep(p[2] + 1)]
           Body(f) == [n \in Nat |-> IF n = 0 THEN 0 ELSE f[n - 1] + ShortestSleep(n)]
<1>0. \A n \in Nat : ShortestSleep(n + 1) \in Nat
  <2>1. \A n \in Nat : n + 1 \in Nat \ {0}
    OBVIOUS
  <2> QED
    BY <2>1, SleepsLengthen
<1>1. 0 \in Nat /\ step \in [Nat \X Nat -> Nat]
  BY <1>0
<1>2. \A v \in Nat, n \in Nat : step[<<v, n>>] = v + ShortestSleep(n + 1)
  OBVIOUS
<1> HIDE DEF step
<1>3. PICK f : f \in Recursive(Nat, 0, step)
  BY <1>1, RecursionExists
<1>4. f \in [Nat -> Nat] /\ f[0] = 0 /\ \A n \in Nat : f[n + 1] = f[n] + ShortestSleep(n + 1)
  BY <1>2, <1>3 DEF Recursive
<1>5. f = Body(f)
  <2>1. ASSUME NEW n \in Nat PROVE f[n] = IF n = 0 THEN 0 ELSE f[n - 1] + ShortestSleep(n)
    <3>1. CASE n = 0
      BY <1>4, <3>1
    <3>2. CASE n # 0
      <4>1. n - 1 \in Nat /\ (n - 1) + 1 = n
        BY <3>2
      <4> QED
        BY <1>4, <3>2, <4>1
    <3> QED
      BY <3>1, <3>2
  <2> QED
    BY <1>4, <2>1
<1>6. Patience = Body(Patience)
  BY <1>5 DEF Patience
<1>7. Patience[0] = 0 /\ \A n \in Nat : Patience[n + 1] = Patience[n] + ShortestSleep(n + 1)
  <2>1. \A n \in Nat : Patience[n] = IF n = 0 THEN 0 ELSE Patience[n - 1] + ShortestSleep(n)
    BY <1>6
  <2>2. \A n \in Nat : n + 1 \in Nat /\ n + 1 # 0 /\ (n + 1) - 1 = n
    OBVIOUS
  <2> QED
    BY <2>1, <2>2
<1>8. Patience = [n \in Nat |-> Patience[n]]
  BY <1>6
<1> DEFINE S == {n \in Nat : Patience[n] \in Nat}
<1>9. S = Nat
  <2>1. 0 \in S
    BY <1>7
  <2>2. \A n \in S : n + 1 \in S
    BY <1>0, <1>7
  <2>3. S \in SUBSET Nat
    OBVIOUS
  <2> HIDE DEF S
  <2> QED
    BY <2>1, <2>2, <2>3, NatInd
<1>10. \A n \in Nat : Patience[n] \in Nat
  BY <1>9
<1>11. Patience \in [Nat -> Nat]
  BY <1>8, <1>10
<1> QED
  BY <1>7, <1>11

LEMMA PatienceGrows ==
    ASSUME RpcAssumption, NEW m \in Nat, NEW n \in Nat, n <= m
    PROVE  Patience[n] <= Patience[m]
<1> DEFINE S == {d \in Nat : Patience[n] <= Patience[n + d]}
<1>1. Patience \in [Nat -> Nat] /\ \A k \in Nat : Patience[k + 1] = Patience[k] + ShortestSleep(k + 1)
  BY PatienceDef
<1>2. 0 \in S
  BY <1>1
<1>3. ASSUME NEW d \in S PROVE d + 1 \in S
  <2>1. n + d \in Nat /\ n + (d + 1) = (n + d) + 1 /\ (n + d) + 1 \in Nat \ {0}
    OBVIOUS
  <2>2. ShortestSleep((n + d) + 1) \in Nat
    BY <2>1, SleepsLengthen
  <2>3. /\ Patience[n] \in Nat /\ Patience[n + d] \in Nat /\ Patience[n] <= Patience[n + d]
        /\ Patience[n + (d + 1)] = Patience[n + d] + ShortestSleep((n + d) + 1)
    BY <1>1, <2>1
  <2> QED
    BY <2>2, <2>3
<1>4. S = Nat
  <2>1. S \in SUBSET Nat
    OBVIOUS
  <2> HIDE DEF S
  <2> QED
    BY <1>2, <1>3, <2>1, NatInd
<1>5. m - n \in Nat /\ n + (m - n) = m
  OBVIOUS
<1>6. \A d \in Nat : Patience[n] <= Patience[n + d]
  BY <1>4
<1> QED
  BY <1>5, <1>6
-----------------------------------------------------------------------------
(***************************************************************************)
(* What an action makes of the one call it moves.                          *)
(***************************************************************************)
Becomes(c, k) == call' = [d \in Callers |-> IF d = c THEN k ELSE call[d]]

Sending(k, pc) ==
    {l \in Call : l.pc = pc /\ l.attempt = k.attempt /\ l.wait = 0 /\ l.spent = k.spent}
Answered == {l \in Call : l.pc = "settled" /\ l.attempt = 0 /\ l.wait = 0 /\ l.spent = 0}
Sleeping(k) == {l \in Call : /\ l.pc = "asleep" /\ l.attempt = k.attempt + 1
                             /\ l.wait >= ShortestSleep(l.attempt) /\ l.spent = k.spent}
GivenUp(k) == {l \in Call : /\ l.pc = "failed" /\ l.attempt = k.attempt + 1
                            /\ l.wait = k.wait /\ l.spent = k.spent}

LEMMA SendBecomes ==
    ASSUME RpcTypeOK, NEW c \in Callers, Ready(c), NEW pc \in {"queued", "sent"},
           call' = [call EXCEPT ![c].pc = pc]
    PROVE  \E k \in Sending(call[c], pc) : Becomes(c, k)
<1> DEFINE k == [call[c] EXCEPT !.pc = pc]
<1>1. call[c] \in Call /\ call[c].wait = 0
  BY DEF RpcTypeOK, Ready
<1>2. k \in Sending(call[c], pc)
  BY <1>1 DEF Sending, Call, States
<1>3. Becomes(c, k)
  BY DEF Becomes, RpcTypeOK
<1> QED
  BY <1>2, <1>3

LEMMA SettledBecomes ==
    ASSUME RpcTypeOK, NEW c \in Callers, Settled(c)
    PROVE  \E k \in Answered : Becomes(c, k)
<1> DEFINE k == [NewCall EXCEPT !.pc = "settled"]
<1>1. k \in Answered
  BY DEF Answered, NewCall, Call, States
<1>2. Becomes(c, k)
  BY DEF Becomes, RpcTypeOK, Settled
<1> QED
  BY <1>1, <1>2

Fresh == {l \in Call : l.pc = "new" /\ l.attempt = 0 /\ l.wait = 0 /\ l.spent = 0}

LEMMA AgainBecomes ==
    ASSUME RpcTypeOK, NEW c \in Callers, Again(c)
    PROVE  \E k \in Fresh : Becomes(c, k)
<1>1. NewCall \in Fresh
  BY DEF Fresh, NewCall, Call, States
<1>2. Becomes(c, NewCall)
  BY DEF Becomes, RpcTypeOK, Again
<1> QED
  BY <1>1, <1>2

LEMMA WaitTimeLeast ==
    ASSUME RpcAssumption, NEW n \in Nat \ {0}, NEW jitter \in Nat
    PROVE  WaitTime(n, jitter) \in Nat /\ ShortestSleep(n) <= WaitTime(n, jitter)
<1>1. ExpBackoff[n] \in Nat \ {0} /\ MaxDelay \in Nat \ {0}
  BY ExpBackoffDef DEF RpcAssumption
<1> QED
  BY <1>1 DEF WaitTime, ShortestSleep

LEMMA FailedOnceBecomes ==
    ASSUME RpcAssumption, RpcTypeOK, NEW c \in Callers, FailedOnce(c)
    PROVE  \E k \in Sleeping(call[c]) : Becomes(c, k)
<1>1. PICK jitter \in 0 .. Delay - 1 :
          call' = [call EXCEPT ![c].pc = "asleep", ![c].attempt = @ + 1,
                      ![c].wait = WaitTime(call[c].attempt + 1, jitter)]
  BY DEF FailedOnce
<1> DEFINE n == call[c].attempt + 1
           wait == WaitTime(n, jitter)
           k == [call[c] EXCEPT !.pc = "asleep", !.attempt = n, !.wait = wait]
<1>2. call[c] \in Call /\ n \in Nat \ {0}
  BY DEF RpcTypeOK, Call
<1>3. wait \in Nat /\ ShortestSleep(n) <= wait
  <2>1. jitter \in Nat
    BY DEF RpcAssumption
  <2> HIDE DEF n
  <2> QED
    BY <1>2, <2>1, WaitTimeLeast
<1>4. Becomes(c, k)
  BY <1>1 DEF Becomes, RpcTypeOK
<1>5. k \in Sleeping(call[c])
  <2> HIDE DEF wait
  <2>1. k \in Call /\ k.pc = "asleep" /\ k.attempt = n /\ k.wait = wait /\ k.spent = call[c].spent
    BY <1>2, <1>3 DEF Call, States
  <2>2. wait >= ShortestSleep(n)
    <3>1. ShortestSleep(n) \in Nat
      BY <1>2, SleepsLengthen
    <3> QED
      BY <1>3, <3>1
  <2> QED
    BY <2>1, <2>2 DEF Sleeping
<1> QED
  BY <1>4, <1>5

LEMMA FailedForGoodBecomes ==
    ASSUME RpcTypeOK, NEW c \in Callers, FailedForGood(c)
    PROVE  \E k \in GivenUp(call[c]) : Becomes(c, k)
<1> DEFINE n == call[c].attempt + 1
           k == [call[c] EXCEPT !.pc = "failed", !.attempt = n]
<1>1. call[c] \in Call /\ n \in Nat
  BY DEF RpcTypeOK, Call
<1>2. Becomes(c, k)
  BY DEF Becomes, RpcTypeOK, FailedForGood
<1>3. k \in GivenUp(call[c])
  <2>1. GivenUp(call[c]) = {l \in Call : /\ l.pc = "failed" /\ l.attempt = n
                                         /\ l.wait = call[c].wait /\ l.spent = call[c].spent}
    BY DEF GivenUp
  <2> HIDE DEF n
  <2> QED
    BY <1>1, <2>1 DEF Call, States
<1> QED
  BY <1>2, <1>3

-----------------------------------------------------------------------------
(* The moves of one call, by what they do to the rest of the state. *)
LEMMA Moves ==
    ASSUME RpcAssumption, RpcTypeOK, NEW c \in Callers,
           SendNow(c) \/ SendLater(c) \/ SendPast(c) \/ Respond(c) \/ Again(c)
    PROVE  /\ call[c].pc # "queued"
           /\ \E k \in Call : Becomes(c, k)
           /\ leaps' = leaps
<1>1. call[c].pc # "queued"
  BY DEF SendNow, SendLater, SendPast, Respond, Settled, FailedOnce, FailedForGood, Again, Ready
<1>2. \E k \in Call : Becomes(c, k)
  <2>1. CASE SendNow(c) \/ SendLater(c) \/ SendPast(c)
    BY <2>1, SendBecomes DEF SendNow, SendLater, SendPast, Sending
  <2>2. CASE Respond(c)
    BY <2>2, SettledBecomes, FailedOnceBecomes, FailedForGoodBecomes
       DEF Respond, Answered, Sleeping, GivenUp
  <2>3. CASE Again(c)
    BY <2>3, AgainBecomes DEF Fresh
  <2> QED
    BY <2>1, <2>2, <2>3
<1>3. leaps' = leaps
  BY DEF SendNow, SendLater, SendPast, Respond, Settled, FailedOnce, FailedForGood, Again,
         AcquireNow, AcquireLater, vars
<1> QED
  BY <1>1, <1>2, <1>3

-----------------------------------------------------------------------------
(***************************************************************************)
(* Types, and with them that a call makes no more attempts than it has.    *)
(***************************************************************************)
CallOK(c) ==
    /\ call[c].attempt <= Retries[c]
    /\ call[c].pc # "failed" => call[c].attempt < Retries[c]

LEMMA TypeMoves ==
    ASSUME RpcTypeOK, NEW c \in Callers, NEW k \in Call, Becomes(c, k),
           k.attempt <= Retries[c], k.pc # "failed" => k.attempt < Retries[c]
    PROVE  call' \in [Callers -> Call] /\ \A d \in Callers : CallOK(d)'
<1>1. \A d \in Callers : call'[d] = IF d = c THEN k ELSE call[d]
  BY DEF Becomes
<1>2. call \in [Callers -> Call] /\ \A d \in Callers : CallOK(d)
  BY DEF RpcTypeOK, CallOK
<1>3. call' \in [Callers -> Call]
  BY <1>2 DEF Becomes
<1> QED
  BY <1>1, <1>2, <1>3 DEF CallOK

LEMMA QueuedCallers ==
    ASSUME TypeOK
    PROVE  \A i \in 1 .. Len(waiting) : waiting[i] \in Callers
  BY DEF TypeOK

LEMMA OneTickOnType ==
    ASSUME NEW k \in Call, NEW patience
    PROVE  /\ OneTickOn(k, patience) \in Call
           /\ OneTickOn(k, patience).pc = k.pc
           /\ OneTickOn(k, patience).attempt = k.attempt
           /\ OneTickOn(k, patience).wait = IF k.wait > 0 THEN k.wait - 1 ELSE 0
           /\ OneTickOn(k, patience).spent \in {k.spent, k.spent + 1}
<1> DEFINE w == IF k.wait > 0 THEN k.wait - 1 ELSE 0
           s == IF k.attempt > 0 /\ k.pc \in {"queued", "sent", "asleep"} /\ k.spent < patience
                THEN k.spent + 1 ELSE k.spent
<1>1. w \in Nat /\ s \in Nat /\ s \in {k.spent, k.spent + 1}
  BY DEF Call
<1>2. OneTickOn(k, patience) = [k EXCEPT !.wait = w, !.spent = s]
  BY DEF OneTickOn, Call
<1> HIDE DEF w, s
<1>3. /\ OneTickOn(k, patience) \in Call
      /\ OneTickOn(k, patience).pc = k.pc
      /\ OneTickOn(k, patience).attempt = k.attempt
      /\ OneTickOn(k, patience).wait = w
      /\ OneTickOn(k, patience).spent = s
  BY <1>1, <1>2 DEF Call
<1> QED
  BY <1>1, <1>3 DEF w

LEMMA RpcTypeNext ==
    ASSUME BucketAssumption, RpcAssumption, RpcTypeOK, QueueInv, [RpcNext]_rpcVars
    PROVE  RpcTypeOK'
<1> USE BucketAssumption, RpcAssumption
<1>1. TypeOK'
  BY StepsOfTheBucket, TypeNext DEF RpcTypeOK
<1>2. /\ One \in Nat /\ load \in Nat /\ TypeOK /\ call \in [Callers -> Call]
      /\ \A c \in Callers : CallOK(c) /\ Retries[c] \in Nat \ {0}
  BY DEF RpcTypeOK, CallOK, BucketAssumption, RpcAssumption
<1>3. call' \in [Callers -> Call] /\ (\A c \in Callers : CallOK(c)') /\ load' \in Nat => RpcTypeOK'
  BY <1>1 DEF RpcTypeOK, CallOK
<1>4. \A n \in Nat : Request(n) => load' \in Nat
  BY <1>2, ProductNat DEF Request
<1>5. ASSUME NEW c \in Callers, SendNow(c) \/ SendLater(c) \/ SendPast(c) PROVE RpcTypeOK'
  <2>1. load' \in Nat
    BY <1>2, <1>4, <1>5 DEF SendNow, SendLater, SendPast
  <2>2. Ready(c) /\ \E pc \in {"queued", "sent"} : call' = [call EXCEPT ![c].pc = pc]
    BY <1>5 DEF SendNow, SendLater, SendPast
  <2>3. PICK k \in Sending(call[c], "queued") \cup Sending(call[c], "sent") : Becomes(c, k)
    BY <2>2, SendBecomes
  <2>4. call[c] \in Call /\ CallOK(c) /\ call[c].pc # "failed"
    BY <1>2, <2>2 DEF Ready
  <2>5. k \in Call /\ k.attempt <= Retries[c] /\ k.attempt < Retries[c]
    BY <2>3, <2>4 DEF Sending, CallOK
  <2> QED
    BY <1>3, <2>1, <2>3, <2>5, TypeMoves
<1>6. ASSUME NEW c \in Callers, Respond(c) PROVE RpcTypeOK'
  <2>1. load' \in Nat
    BY <1>2, <1>6 DEF Respond, Settled, FailedOnce, FailedForGood
  <2>2. /\ call[c] \in Call /\ CallOK(c) /\ Retries[c] \in Nat \ {0}
        /\ call[c].attempt \in Nat
    BY <1>2 DEF Call
  <2>3. CASE Settled(c)
    <3>1. PICK k \in Answered : Becomes(c, k)
      BY <2>3, SettledBecomes
    <3>2. k \in Call /\ k.attempt <= Retries[c] /\ k.attempt < Retries[c]
      BY <2>2, <3>1 DEF Answered
    <3> QED
      BY <1>3, <2>1, <3>1, <3>2, TypeMoves
  <2>4. CASE FailedOnce(c)
    <3>1. PICK k \in Sleeping(call[c]) : Becomes(c, k)
      BY <2>4, FailedOnceBecomes
    <3>2. k \in Call /\ k.attempt <= Retries[c] /\ k.attempt < Retries[c]
      BY <2>2, <2>4, <3>1 DEF Sleeping, FailedOnce
    <3> QED
      BY <1>3, <2>1, <3>1, <3>2, TypeMoves
  <2>5. CASE FailedForGood(c)
    <3>1. PICK k \in GivenUp(call[c]) : Becomes(c, k)
      BY <2>5, FailedForGoodBecomes
    <3>2. k \in Call /\ k.attempt <= Retries[c] /\ k.pc = "failed"
      BY <2>2, <2>5, <3>1 DEF GivenUp, FailedForGood, CallOK
    <3> QED
      BY <1>3, <2>1, <3>1, <3>2, TypeMoves
  <2> QED
    BY <1>6, <2>3, <2>4, <2>5 DEF Respond
<1>7. CASE TimePasses
  <2>1. call' = [c \in Callers |-> OneTickOn(call[c], OwnPatience[c])]
    BY <1>7 DEF TimePasses
  <2>2. call' \in [Callers -> Call] /\ \A c \in Callers : CallOK(c)'
    BY <1>2, <2>1, OneTickOnType DEF CallOK
  <2>3. load' \in Nat
    <3>1. PageRate \in Nat /\ Rate \in Nat
      <4>1. Cardinality(PageFetches) \in Nat /\ ShortestSleep(1) \in Nat \ {0}
        BY FS_CardinalityType, SleepsLengthen DEF RpcAssumption
      <4>2. Cardinality(PageFetches) * One \in Nat
        BY <1>2, <4>1, ProductNat
      <4>3. Cardinality(PageFetches) * One + ShortestSleep(1) - 1 \in Nat
        BY <4>1, <4>2
      <4> QED
        BY <4>1, <4>3, DivBound DEF PageRate, BucketAssumption
    <3> QED
      BY <1>2, <1>7, <3>1 DEF TimePasses
  <2> QED
    BY <1>3, <2>2, <2>3
<1>8. CASE DrainQueue
  <2>1. Served \in Nat /\ Served <= Len(waiting)
    BY <1>2, ServedType
  <2>2. load' \in Nat
    BY <1>4, <1>8, <2>1 DEF DrainQueue
  <2>3. ASSUME NEW c \in Callers
        PROVE  call'[c] \in Call /\ CallOK(c)'
    <3>1. \/ call'[c] = call[c]
          \/ call'[c] = [call[c] EXCEPT !.pc = "sent"] /\ \E i \in 1 .. Served : c = waiting[i]
      BY <1>8 DEF DrainQueue
    <3>2. CASE call'[c] = [call[c] EXCEPT !.pc = "sent"] /\ \E i \in 1 .. Served : c = waiting[i]
      <4>1. call[c].pc = "queued"
        <5>1. PICK i \in 1 .. Served : c = waiting[i]
          BY <3>2
        <5>2. i \in 1 .. Len(waiting)
          BY <2>1 DEF RpcTypeOK, TypeOK
        <5> QED
          BY <5>1, <5>2 DEF QueueInv
      <4>2. call[c] \in Call /\ CallOK(c)
        BY <1>2
      <4>3. call'[c] \in Call /\ call'[c].attempt = call[c].attempt
        BY <3>2, <4>2 DEF Call, States
      <4> QED
        BY <4>1, <4>2, <4>3 DEF CallOK
    <3>3. CASE call'[c] = call[c]
      BY <1>2, <3>3 DEF CallOK
    <3> QED
      BY <3>1, <3>2, <3>3
  <2>4. call' \in [Callers -> Call]
    <3>1. call' = [c \in Callers |-> call'[c]]
      BY <1>8 DEF DrainQueue
    <3> QED
      BY <2>3, <3>1
  <2> QED
    BY <1>3, <2>2, <2>3, <2>4
<1>9. CASE ClockIsSet \/ UNCHANGED rpcVars
  BY <1>2, <1>3, <1>9 DEF ClockIsSet, rpcVars, CallOK
<1>10. ASSUME NEW c \in Callers, Again(c) PROVE RpcTypeOK'
  <2>1. PICK k \in Fresh : Becomes(c, k)
    BY <1>10, AgainBecomes
  <2>2. k \in Call /\ k.attempt <= Retries[c] /\ k.attempt < Retries[c]
    BY <1>2, <2>1 DEF Fresh
  <2>3. load' \in Nat
    BY <1>2, <1>10 DEF Again
  <2> QED
    BY <1>3, <2>1, <2>2, <2>3, TypeMoves
<1> QED
  BY <1>5, <1>6, <1>7, <1>8, <1>9, <1>10 DEF RpcNext
-----------------------------------------------------------------------------
(* A caller is in the queue at most once, and then its call is queued. *)
LEMMA QueueNext ==
    ASSUME BucketAssumption, RpcAssumption, RpcTypeOK, QueueInv, [RpcNext]_rpcVars
    PROVE  QueueInv'
<1> USE BucketAssumption, RpcAssumption
<1>0. /\ TypeOK /\ waiting \in Seq(Callers) /\ Len(waiting) \in Nat
      /\ \A i \in 1 .. Len(waiting) : waiting[i] \in Callers /\ call[waiting[i]].pc = "queued"
      /\ \A i, j \in 1 .. Len(waiting) : waiting[i] = waiting[j] => i = j
  BY QueuedCallers DEF RpcTypeOK, TypeOK, QueueInv
<1>1. ASSUME UNCHANGED waiting, \A i \in 1 .. Len(waiting) : call'[waiting[i]].pc = "queued"
      PROVE  QueueInv'
  BY <1>0, <1>1 DEF QueueInv
<1>2. ASSUME NEW c \in Callers, SendNow(c) \/ SendPast(c) \/ Respond(c) \/ Again(c) PROVE QueueInv'
  <2>1. waiting' = waiting
    BY <1>2 DEF SendNow, SendPast, Respond, Settled, FailedOnce, FailedForGood, Again,
                AcquireNow, vars, bucket
  <2>2. call[c].pc # "queued" /\ \E k \in Call : Becomes(c, k)
    BY <1>2, Moves
  <2>3. \A i \in 1 .. Len(waiting) : call'[waiting[i]].pc = "queued"
    BY <1>0, <2>2 DEF Becomes
  <2> QED
    BY <1>1, <2>1, <2>3
<1>3. ASSUME NEW c \in Callers, SendLater(c) PROVE QueueInv'
  <2>1. waiting' = Append(waiting, c) /\ call[c].pc # "queued"
    BY <1>3 DEF SendLater, AcquireLater, Ready
  <2>2. PICK k \in Sending(call[c], "queued") : Becomes(c, k)
    BY <1>3, SendBecomes DEF SendLater
  <2>3. /\ Len(waiting') = Len(waiting) + 1
        /\ \A i \in 1 .. Len(waiting) : waiting'[i] = waiting[i]
        /\ waiting'[Len(waiting) + 1] = c
    BY <1>0, <2>1
  <2>4. \A i \in 1 .. Len(waiting) : waiting[i] # c
    BY <1>0, <2>1
  <2>5. \A d \in Callers : call'[d].pc = IF d = c THEN "queued" ELSE call[d].pc
    BY <2>2 DEF Becomes, Sending
  <2>6. \A i \in 1 .. Len(waiting) + 1 : i = Len(waiting) + 1 \/ i \in 1 .. Len(waiting)
    BY <1>0
  <2>7. \A i \in 1 .. Len(waiting') : call'[waiting'[i]].pc = "queued"
    BY <1>0, <2>3, <2>5, <2>6
  <2>8. \A i, j \in 1 .. Len(waiting') : waiting'[i] = waiting'[j] => i = j
    BY <1>0, <2>3, <2>4, <2>6
  <2> QED
    BY <2>7, <2>8 DEF QueueInv
<1>4. CASE TimePasses
  <2>1. waiting' = waiting /\ \A d \in Callers : call'[d].pc = call[d].pc
    <3>1. \A d \in Callers : call[d] \in Call /\ call'[d] = OneTickOn(call[d], OwnPatience[d])
      BY <1>4 DEF TimePasses, RpcTypeOK
    <3> QED
      BY <1>4, <3>1, OneTickOnType DEF TimePasses, Tick
  <2> QED
    BY <1>0, <1>1, <2>1
<1>5. CASE DrainQueue
  <2>1. Served \in Nat /\ Served <= Len(waiting)
    BY <1>0, ServedType
  <2>2. waiting' = SubSeq(waiting, Served + 1, Len(waiting))
    BY <1>5 DEF DrainQueue, Drain
  <2>3. /\ Len(waiting') = Len(waiting) - Served
        /\ \A i \in 1 .. Len(waiting') : /\ waiting'[i] = waiting[Served + i]
                                        /\ Served + i \in 1 .. Len(waiting)
    <3>1. \A i \in 1 .. Len(waiting) - Served : /\ (Served + 1) + i - 1 = Served + i
                                              /\ Served + i \in 1 .. Len(waiting)
      BY <1>0, <2>1
    <3>2. /\ Len(waiting') = Len(waiting) - Served
          /\ \A i \in 1 .. Len(waiting) - Served : waiting'[i] = waiting[Served + i]
      BY <1>0, <2>1, <2>2, <3>1
    <3> QED
      BY <3>1, <3>2
  <2>4. ASSUME NEW i \in 1 .. Len(waiting')
        PROVE  call'[waiting'[i]].pc = "queued"
    <3>1. waiting'[i] \in Callers /\ call[waiting'[i]].pc = "queued"
      BY <1>0, <2>3
    <3>2. waiting'[i] \notin {waiting[j] : j \in 1 .. Served}
      <4>1. SUFFICES ASSUME NEW j \in 1 .. Served, waiting[Served + i] = waiting[j] PROVE FALSE
        BY <2>3
      <4>2. j \in 1 .. Len(waiting) /\ Served + i \in 1 .. Len(waiting) /\ Served + i # j
        BY <1>0, <2>1, <2>3
      <4> QED
        BY <1>0, <4>1, <4>2
    <3> QED
      BY <1>5, <3>1, <3>2 DEF DrainQueue
  <2>5. ASSUME NEW i \in 1 .. Len(waiting'), NEW j \in 1 .. Len(waiting'), waiting'[i] = waiting'[j]
        PROVE  i = j
    <3>1. Served + i = Served + j
      BY <1>0, <2>3, <2>5
    <3>2. i \in Int /\ j \in Int
      OBVIOUS
    <3> QED
      BY <2>1, <3>1, <3>2
  <2> QED
    BY <2>4, <2>5 DEF QueueInv
<1>6. CASE ClockIsSet \/ UNCHANGED rpcVars
  <2>1. waiting' = waiting /\ call' = call
    BY <1>6 DEF ClockIsSet, ClockSetBack, ClockSetForward, rpcVars, vars, bucket
  <2> QED
    BY <1>0, <1>1, <2>1
<1> QED
  BY <1>2, <1>3, <1>4, <1>5, <1>6 DEF RpcNext

-----------------------------------------------------------------------------
(* A call has been at it for its sleeps. *)
Persistent(k) ==
    /\ k.wait > 0 => k.pc = "asleep"
    /\ k.pc = "asleep" => k.attempt > 0
    /\ k.pc # "failed" => k.spent + k.wait >= Patience[k.attempt]

LEMMA PersistentMoves ==
    ASSUME PatienceInv, NEW c \in Callers, NEW k, Becomes(c, k), Persistent(k)
    PROVE  PatienceInv'
<1>1. \A d \in Callers : call'[d] = IF d = c THEN k ELSE call[d]
  BY DEF Becomes
<1>2. \A d \in Callers : Persistent(call[d])
  BY DEF PatienceInv, Persistent
<1>3. \A d \in Callers : Persistent(call'[d])
  BY <1>1, <1>2
<1> QED
  BY <1>3 DEF PatienceInv, Persistent

(* While a call is not given up, its patience is that of all its sleeps at least. *)
LEMMA PatienceLeft ==
    ASSUME RpcAssumption, RpcTypeOK, NEW c \in Callers, call[c].pc # "failed"
    PROVE  /\ call[c].attempt \in Nat /\ Patience[call[c].attempt] \in Nat
           /\ OwnPatience[c] \in Nat
           /\ Patience[call[c].attempt] <= OwnPatience[c]
<1>1. /\ call[c].attempt \in Nat /\ Retries[c] - 1 \in Nat /\ call[c].attempt <= Retries[c] - 1
      /\ OwnPatience[c] = Patience[Retries[c] - 1]
  BY DEF RpcTypeOK, Call, RpcAssumption, OwnPatience
<1> QED
  BY <1>1, PatienceDef, PatienceGrows

LEMMA PatienceNext ==
    ASSUME BucketAssumption, RpcAssumption, RpcTypeOK, QueueInv, PatienceInv, [RpcNext]_rpcVars
    PROVE  PatienceInv'
<1> USE BucketAssumption, RpcAssumption
<1>1. \A c \in Callers : call[c] \in Call /\ Persistent(call[c])
  BY DEF RpcTypeOK, PatienceInv, Persistent
<1>2. \A n \in Nat : Patience[n] \in Nat /\ Patience[n + 1] = Patience[n] + ShortestSleep(n + 1)
  BY PatienceDef
<1>3. ASSUME NEW c \in Callers, SendNow(c) \/ SendLater(c) \/ SendPast(c) PROVE PatienceInv'
  <2>1. Ready(c) /\ \E pc \in {"queued", "sent"} : call' = [call EXCEPT ![c].pc = pc]
    BY <1>3 DEF SendNow, SendLater, SendPast
  <2>2. PICK k \in Sending(call[c], "queued") \cup Sending(call[c], "sent") : Becomes(c, k)
    BY <2>1, SendBecomes
  <2>3. Persistent(k)
    BY <1>1, <2>1, <2>2 DEF Sending, Ready, Persistent
  <2> QED
    BY <2>2, <2>3, PersistentMoves
<1>4. ASSUME NEW c \in Callers, Settled(c) PROVE PatienceInv'
  <2>1. PICK k \in Answered : Becomes(c, k)
    BY <1>4, SettledBecomes
  <2>2. Persistent(k)
    BY <2>1, PatienceDef DEF Answered, Persistent
  <2> QED
    BY <2>1, <2>2, PersistentMoves
<1>5. ASSUME NEW c \in Callers, FailedOnce(c) PROVE PatienceInv'
  <2>1. PICK k \in Sleeping(call[c]) : Becomes(c, k)
    BY <1>5, FailedOnceBecomes
  <2> DEFINE n == call[c].attempt
  <2>2. n \in Nat /\ call[c].spent \in Nat /\ call[c].wait \in Nat /\ call[c].pc = "sent"
    BY <1>1, <1>5 DEF Call, FailedOnce
  <2>3. call[c].spent >= Patience[n]
    BY <1>1, <2>2 DEF Persistent
  <2>4. /\ k.pc = "asleep" /\ k.attempt = n + 1 /\ k.wait \in Nat
        /\ k.wait >= ShortestSleep(n + 1) /\ k.spent = call[c].spent
    BY <2>1 DEF Sleeping, Call
  <2> HIDE DEF n
  <2>5. ShortestSleep(n + 1) \in Nat /\ Patience[n] \in Nat
    BY <1>2, <2>2, SleepsLengthen
  <2>6. k.spent + k.wait >= Patience[k.attempt]
    BY <1>2, <2>2, <2>3, <2>4, <2>5
  <2>7. Persistent(k)
    BY <2>2, <2>4, <2>6 DEF Persistent
  <2> QED
    BY <2>1, <2>7, PersistentMoves
<1>6. ASSUME NEW c \in Callers, FailedForGood(c) PROVE PatienceInv'
  <2>1. PICK k \in GivenUp(call[c]) : Becomes(c, k)
    BY <1>6, FailedForGoodBecomes
  <2>2. Persistent(k)
    BY <1>1, <1>6, <2>1 DEF GivenUp, Persistent, FailedForGood
  <2> QED
    BY <2>1, <2>2, PersistentMoves
<1>7. CASE TimePasses
  <2>1. ASSUME NEW c \in Callers PROVE Persistent(call'[c])
    <3> DEFINE k == call[c]
               l == OneTickOn(k, OwnPatience[c])
    <3>1. k \in Call /\ Persistent(k) /\ call'[c] = l
      BY <1>1, <1>7 DEF TimePasses
    <3>2. /\ l.pc = k.pc /\ l.attempt = k.attempt
          /\ l.wait = (IF k.wait > 0 THEN k.wait - 1 ELSE 0)
          /\ l.spent \in {k.spent, k.spent + 1}
      BY <3>1, OneTickOnType
    <3>3. k.attempt > 0 /\ k.pc = "asleep" /\ k.spent < OwnPatience[c] => l.spent = k.spent + 1
      BY <3>1 DEF OneTickOn, Call
    <3>4. k.wait \in Nat /\ k.spent \in Nat
      BY <3>1 DEF Call
    <3>5. k.pc # "failed" => /\ Patience[k.attempt] \in Nat /\ OwnPatience[c] \in Nat
                             /\ Patience[k.attempt] <= OwnPatience[c]
      BY PatienceLeft
    <3> HIDE DEF k, l
    <3>6. l.pc # "failed" => l.spent + l.wait >= Patience[l.attempt]
      <4> SUFFICES ASSUME k.pc # "failed" PROVE l.spent + l.wait >= Patience[k.attempt]
        BY <3>2
      <4>1. k.spent + k.wait >= Patience[k.attempt] /\ Patience[k.attempt] \in Nat
        BY <3>1, <3>5 DEF Persistent
      <4>2. CASE k.wait = 0
        BY <3>2, <3>4, <4>1, <4>2
      <4>3. CASE k.wait > 0
        <5>1. k.pc = "asleep" /\ k.attempt > 0
          BY <3>1, <4>3 DEF Persistent
        <5>2. l.spent = k.spent + 1 \/ k.spent >= OwnPatience[c]
          BY <3>3, <3>4, <3>5, <5>1
        <5>3. l.wait \in Nat /\ l.wait = k.wait - 1 /\ l.spent \in Nat /\ l.spent >= k.spent
          BY <3>2, <3>4, <4>3
        <5> QED
          BY <3>4, <3>5, <4>1, <5>2, <5>3
      <4> QED
        BY <3>4, <4>2, <4>3
    <3>7. l.wait > 0 => l.pc = "asleep"
      BY <3>1, <3>2, <3>4 DEF Persistent
    <3>8. Persistent(l)
      BY <3>1, <3>2, <3>6, <3>7 DEF Persistent
    <3> QED
      BY <3>1, <3>8
  <2> QED
    BY <2>1 DEF PatienceInv, Persistent
<1>8. CASE DrainQueue
  <2>1. ASSUME NEW c \in Callers PROVE Persistent(call'[c])
    <3>1. \/ call'[c] = call[c]
          \/ call'[c] = [call[c] EXCEPT !.pc = "sent"] /\ \E i \in 1 .. Served : c = waiting[i]
      BY <1>8 DEF DrainQueue
    <3>2. CASE call'[c] = [call[c] EXCEPT !.pc = "sent"] /\ \E i \in 1 .. Served : c = waiting[i]
      <4>1. Served \in Nat /\ Served <= Len(waiting) /\ Len(waiting) \in Nat
        BY ServedType DEF RpcTypeOK, TypeOK
      <4>2. call[c].pc = "queued"
        <5>1. PICK i \in 1 .. Served : c = waiting[i]
          BY <3>2
        <5>2. i \in 1 .. Len(waiting)
          BY <4>1
        <5> QED
          BY <5>1, <5>2 DEF QueueInv
      <4>3. /\ call'[c].pc = "sent" /\ call'[c].wait = call[c].wait
            /\ call'[c].attempt = call[c].attempt /\ call'[c].spent = call[c].spent
        BY <1>1, <3>2 DEF Call
      <4> QED
        BY <1>1, <4>2, <4>3 DEF Persistent
    <3> QED
      BY <1>1, <3>1, <3>2
  <2> QED
    BY <2>1 DEF PatienceInv, Persistent
<1>9. CASE ClockIsSet \/ UNCHANGED rpcVars
  BY <1>9 DEF ClockIsSet, rpcVars, PatienceInv
<1>10. ASSUME NEW c \in Callers, Again(c) PROVE PatienceInv'
  <2>1. PICK k \in Fresh : Becomes(c, k)
    BY <1>10, AgainBecomes
  <2>2. Persistent(k)
    BY <2>1, PatienceDef DEF Fresh, Persistent
  <2> QED
    BY <2>1, <2>2, PersistentMoves
<1> QED
  BY <1>3, <1>4, <1>5, <1>6, <1>7, <1>8, <1>9, <1>10 DEF RpcNext, Respond

-----------------------------------------------------------------------------
(* Only a call that has failed for good is given up, and then its sleeps are over. *)
LEMMA GivesUpNext ==
    ASSUME BucketAssumption, RpcAssumption, RpcTypeOK, QueueInv, PatienceInv,
           GivesUpOnlyAfterPatience, [RpcNext]_rpcVars
    PROVE  GivesUpOnlyAfterPatience'
<1> USE BucketAssumption, RpcAssumption
<1>1. \A c \in Callers : /\ call[c] \in Call /\ Persistent(call[c])
                         /\ call[c].pc = "failed" => call[c].spent >= OwnPatience[c]
  BY DEF RpcTypeOK, PatienceInv, Persistent, GivesUpOnlyAfterPatience
<1>2. ASSUME \A c \in Callers : call'[c].pc = "failed" => call'[c].spent >= OwnPatience[c]
      PROVE  GivesUpOnlyAfterPatience'
  <2>1. OwnPatience' = OwnPatience
    BY DEF OwnPatience, Patience, ShortestSleep, ExpBackoff
  <2> QED
    BY <1>2, <2>1 DEF GivesUpOnlyAfterPatience
<1>3. ASSUME NEW c \in Callers, NEW k \in Call, Becomes(c, k),
             k.pc = "failed" => k.spent >= OwnPatience[c]
      PROVE  GivesUpOnlyAfterPatience'
  BY <1>1, <1>2, <1>3 DEF Becomes
<1>4. ASSUME NEW c \in Callers, SendNow(c) \/ SendLater(c) \/ SendPast(c) PROVE GivesUpOnlyAfterPatience'
  <2>1. Ready(c) /\ \E pc \in {"queued", "sent"} : call' = [call EXCEPT ![c].pc = pc]
    BY <1>4 DEF SendNow, SendLater, SendPast
  <2>2. PICK k \in Sending(call[c], "queued") \cup Sending(call[c], "sent") : Becomes(c, k)
    BY <2>1, SendBecomes
  <2> QED
    BY <1>3, <2>2 DEF Sending
<1>5. ASSUME NEW c \in Callers, Settled(c) \/ FailedOnce(c) PROVE GivesUpOnlyAfterPatience'
  <2>1. PICK k \in Answered \cup Sleeping(call[c]) : Becomes(c, k)
    BY <1>5, SettledBecomes, FailedOnceBecomes
  <2> QED
    BY <1>3, <2>1 DEF Answered, Sleeping
<1>6. ASSUME NEW c \in Callers, FailedForGood(c) PROVE GivesUpOnlyAfterPatience'
  <2>1. PICK k \in GivenUp(call[c]) : Becomes(c, k)
    BY <1>6, FailedForGoodBecomes
  <2>2. /\ call[c] \in Call /\ call[c].pc = "sent" /\ Persistent(call[c])
        /\ call[c].attempt = Retries[c] - 1
    BY <1>1, <1>6 DEF FailedForGood, RpcTypeOK, RpcAssumption, Call
  <2>3. call[c].wait = 0 /\ call[c].spent \in Nat
    BY <2>2 DEF Persistent, Call
  <2>4. OwnPatience[c] = Patience[call[c].attempt] /\ OwnPatience[c] \in Nat
    BY <2>2, PatienceLeft DEF OwnPatience
  <2>5. call[c].spent >= OwnPatience[c]
    BY <2>2, <2>3, <2>4 DEF Persistent
  <2> QED
    BY <1>3, <2>1, <2>5 DEF GivenUp
<1>7. CASE TimePasses
  <2>1. ASSUME NEW c \in Callers, call'[c].pc = "failed" PROVE call'[c].spent >= OwnPatience[c]
    <3>1. call'[c] = OneTickOn(call[c], OwnPatience[c])
      BY <1>7 DEF TimePasses
    <3>2. call[c].pc = "failed" /\ call'[c].spent = call[c].spent
      BY <1>1, <2>1, <3>1 DEF OneTickOn, Call
    <3> QED
      BY <1>1, <3>2
  <2> QED
    BY <1>2, <2>1
<1>8. CASE DrainQueue
  <2>1. ASSUME NEW c \in Callers, call'[c].pc = "failed" PROVE call'[c] = call[c]
    BY <1>1, <1>8, <2>1 DEF DrainQueue, Call
  <2> QED
    BY <1>1, <1>2, <2>1
<1>9. CASE ClockIsSet \/ UNCHANGED rpcVars
  <2>1. call' = call
    BY <1>9 DEF ClockIsSet, rpcVars
  <2> QED
    BY <1>1, <1>2, <2>1
<1>10. ASSUME NEW c \in Callers, Again(c) PROVE GivesUpOnlyAfterPatience'
  <2>1. PICK k \in Fresh : Becomes(c, k)
    BY <1>10, AgainBecomes
  <2> QED
    BY <1>3, <2>1 DEF Fresh
<1> QED
  BY <1>4, <1>5, <1>6, <1>7, <1>8, <1>9, <1>10 DEF RpcNext, Respond

-----------------------------------------------------------------------------
(***************************************************************************)
(* The load.  Arithmetic first: a load that falls with the debt, one that  *)
(* takes the slots of a sleep, one that a tick pays off.                   *)
(***************************************************************************)
LEMMA ScaleGrows == \A a, b \in Int, c \in Nat : a <= b => c * a <= c * b
  OBVIOUS

LEMMA CeilBound ==
    ASSUME NEW n \in Nat, NEW s \in Nat \ {0}
    PROVE  (n + s - 1) \div s \in Nat /\ n <= s * ((n + s - 1) \div s)
  OBVIOUS

LEMMA LoadFalls ==
    ASSUME NEW s \in Nat, NEW one \in Nat, NEW x \in Int, NEW y \in Int, NEW f \in Nat, NEW g \in Nat,
           NEW most \in Int, s * x + one * f <= most, y <= x, g <= f
    PROVE  s * y + one * g <= most
<1>1. s * y <= s * x /\ one * g <= one * f
  BY ScaleGrows
<1>2. s * x \in Int /\ s * y \in Int /\ one * f \in Int /\ one * g \in Int
  OBVIOUS
<1> QED
  BY <1>1, <1>2

LEMMA LoadTakesSlots ==
    ASSUME NEW s \in Nat, NEW one \in Nat, NEW x \in Int, NEW f \in Int
    PROVE  s * (x + one) + one * (f - s) = s * x + one * f
<1>1. s * (x + one) = s * x + s * one /\ one * (f - s) = one * f - one * s /\ s * one = one * s
  OBVIOUS
<1>2. s * x \in Int /\ s * one \in Int /\ one * f \in Int
  OBVIOUS
<1> QED
  BY <1>1, <1>2

LEMMA LoadPaidOff ==
    ASSUME NEW s \in Nat, NEW one \in Nat, NEW p \in Nat, NEW rate \in Nat, p * one <= s * rate,
           NEW x \in Int, NEW y \in Int, NEW f \in Nat, NEW g \in Nat,
           s * x + one * f <= s * (one * p), y <= x - rate \/ y <= 0, g <= f + p, g <= p * s
    PROVE  s * y + one * g <= s * (one * p)
<1>1. CASE y <= x - rate
  <2>1. s * y <= s * (x - rate) /\ one * g <= one * (f + p)
    BY <1>1, ScaleGrows
  <2>2. s * (x - rate) = s * x - s * rate /\ one * (f + p) = one * f + one * p /\ one * p = p * one
    OBVIOUS
  <2>3. /\ s * x \in Int /\ s * y \in Int /\ s * rate \in Int /\ one * f \in Int
        /\ one * g \in Int /\ one * p \in Int /\ s * (one * p) \in Int
    OBVIOUS
  <2> QED
    BY <2>1, <2>2, <2>3
<1>2. CASE y <= 0
  <2>1. s * y <= s * 0 /\ one * g <= one * (p * s)
    BY <1>2, ScaleGrows
  <2>2. s * 0 = 0 /\ one * (p * s) = s * (one * p)
    OBVIOUS
  <2>3. s * y \in Int /\ one * g \in Int /\ s * (one * p) \in Int
    OBVIOUS
  <2> QED
    BY <2>1, <2>2, <2>3
<1> QED
  BY <1>1, <1>2

LEMMA SlotsFinite ==
    ASSUME RpcAssumption
    PROVE  /\ ShortestSleep(1) \in Nat \ {0}
           /\ Cardinality(PageFetches) \in Nat
           /\ IsFiniteSet(Slots)
           /\ Cardinality(Slots) = Cardinality(PageFetches) * ShortestSleep(1)
<1>1. ShortestSleep(1) \in Nat \ {0}
  BY SleepsLengthen
<1>2. IsFiniteSet(1 .. ShortestSleep(1)) /\ Cardinality(1 .. ShortestSleep(1)) = ShortestSleep(1)
  BY <1>1, FS_Interval
<1>3. IsFiniteSet(PageFetches) /\ Cardinality(PageFetches) \in Nat
  BY FS_CardinalityType DEF RpcAssumption
<1>4. /\ IsFiniteSet(Slots)
      /\ Cardinality(Slots) = Cardinality(PageFetches) * Cardinality(1 .. ShortestSleep(1))
  BY <1>2, <1>3, FS_Product DEF Slots
<1> QED
  BY <1>1, <1>2, <1>3, <1>4

LEMMA FreeFinite ==
    ASSUME RpcAssumption, NEW F, F \subseteq Slots
    PROVE  IsFiniteSet(F) /\ Cardinality(F) \in Nat /\ Cardinality(F) <= Cardinality(Slots)
<1>1. IsFiniteSet(Slots) /\ F \in SUBSET Slots
  BY SlotsFinite
<1>2. IsFiniteSet(F) /\ Cardinality(F) <= Cardinality(Slots)
  BY <1>1, FS_Subset
<1> QED
  BY <1>2, FS_CardinalityType

FreeNext == {slot \in Slots : slot[2] > Cooldown(call'[slot[1]])}

LEMMA FreePrimed == Free' = FreeNext
  BY DEF Free, FreeNext, Slots, Cooldown, ShortestSleep, ExpBackoff

LEMMA LoadInvPrimed ==
    ASSUME ShortestSleep(1) * (load' - debt') + One * Cardinality(FreeNext)
              <= ShortestSleep(1) * (One * Cardinality(PageFetches))
    PROVE  LoadInv'
<1>1. Free' = FreeNext
  BY FreePrimed
<1>2. (ShortestSleep(1))' = ShortestSleep(1)
  BY DEF ShortestSleep, ExpBackoff
<1> QED
  BY <1>1, <1>2 DEF LoadInv
LEMMA CooldownType ==
    ASSUME RpcAssumption
    PROVE  \A k \in Call : Cooldown(k) \in Nat
<1>1. ShortestSleep(1) \in Nat
  BY SleepsLengthen
<1> QED
  BY <1>1 DEF Cooldown, Call

(* No page fetch has come nearer to a request, and the load has risen with the debt at most. *)
LEMMA LoadStays ==
    ASSUME BucketAssumption, RpcAssumption, RpcTypeOK, LoadInv,
           load' - debt' \in Int, load' - debt' <= load - debt,
           call' \in [Callers -> Call],
           \A c \in PageFetches : Cooldown(call[c]) <= Cooldown(call'[c])
    PROVE  LoadInv'
<1> DEFINE s == ShortestSleep(1)
           most == s * (One * Cardinality(PageFetches))
<1>1. /\ s \in Nat /\ One \in Nat /\ Cardinality(PageFetches) \in Nat
      /\ most \in Int /\ load - debt \in Int
  BY SlotsFinite DEF BucketAssumption, RpcTypeOK, TypeOK
<1>2. FreeNext \subseteq Free
  <2>1. \A c \in PageFetches : Cooldown(call[c]) \in Nat /\ Cooldown(call'[c]) \in Nat
    BY CooldownType DEF RpcTypeOK, RpcAssumption
  <2>2. ASSUME NEW slot \in FreeNext PROVE slot \in Free
    <3>1. slot \in Slots /\ slot[1] \in PageFetches /\ slot[2] \in 1 .. s /\ slot[2] > Cooldown(call'[slot[1]])
      BY DEF FreeNext, Slots
    <3>2. slot[2] \in Int
      BY <3>1
    <3>3. slot[2] > Cooldown(call[slot[1]])
      BY <2>1, <3>1, <3>2
    <3> QED
      BY <3>1, <3>3 DEF Free
  <2> QED
    BY <2>2
<1>3. Cardinality(FreeNext) \in Nat /\ Cardinality(Free) \in Nat /\ Cardinality(FreeNext) <= Cardinality(Free)
  <2>1. Free \subseteq Slots /\ FreeNext \subseteq Slots
    BY DEF Free, FreeNext
  <2>2. IsFiniteSet(Free) /\ FreeNext \in SUBSET Free
    BY <1>2, <2>1, FreeFinite
  <2> QED
    BY <2>1, <2>2, FreeFinite, FS_Subset
<1>4. s * (load - debt) + One * Cardinality(Free) <= most
  BY DEF LoadInv
<1> HIDE DEF s, most
<1>5. s * (load' - debt') + One * Cardinality(FreeNext) <= most
  BY <1>1, <1>3, <1>4, LoadFalls
<1> QED
  BY <1>5, LoadInvPrimed DEF s, most

(* A page fetch whose sleep is over sends its request and is in its next sleep, as it were. *)
LEMMA LoadSendPast ==
    ASSUME BucketAssumption, RpcAssumption, RpcTypeOK, LoadInv, NEW c \in Callers, SendPast(c)
    PROVE  LoadInv'
<1> DEFINE s == ShortestSleep(1)
           mine == {c} \X (1 .. s)
           most == s * (One * Cardinality(PageFetches))
<1>1. /\ s \in Nat \ {0} /\ One \in Nat /\ Cardinality(PageFetches) \in Nat
      /\ load \in Nat /\ debt \in Nat
  BY SlotsFinite DEF BucketAssumption, RpcTypeOK, TypeOK
<1>2. PICK k \in Sending(call[c], "sent") : Becomes(c, k)
  BY SendBecomes DEF SendPast
<1>3. Cooldown(call[c]) = 0 /\ Cooldown(k) = s
  BY <1>2 DEF SendPast, Ready, Cooldown, Sending
<1>4. \A d \in PageFetches : call'[d] = IF d = c THEN k ELSE call[d]
  BY <1>2 DEF Becomes, RpcAssumption
<1>5. c \in PageFetches /\ load' = load + One /\ debt' = debt
  BY <1>1 DEF SendPast, Request, vars
<1>6. mine \subseteq Free
  BY <1>1, <1>3, <1>5 DEF Free, Slots
<1>7. FreeNext = Free \ mine
  <2>1. ASSUME NEW slot \in Slots
        PROVE  slot \in FreeNext <=> slot \in Free /\ slot \notin mine
    <3>1. slot[1] \in PageFetches /\ slot[2] \in 1 .. s /\ slot = <<slot[1], slot[2]>>
      BY DEF Slots
    <3>2. CASE slot[1] = c
      BY <1>1, <1>3, <1>4, <3>1, <3>2 DEF FreeNext
    <3>3. CASE slot[1] # c
      BY <1>4, <3>1, <3>3 DEF FreeNext, Free
    <3> QED
      BY <3>2, <3>3
  <2>2. Free \subseteq Slots /\ FreeNext \subseteq Slots
    BY DEF Free, FreeNext
  <2> QED
    BY <2>1, <2>2
<1>8. Cardinality(mine) = s /\ IsFiniteSet(mine)
  <2>1. IsFiniteSet({c}) /\ Cardinality({c}) = 1
    BY FS_Singleton
  <2>2. IsFiniteSet(1 .. s) /\ Cardinality(1 .. s) = s
    BY <1>1, FS_Interval
  <2>3. Cardinality(mine) = 1 * s /\ IsFiniteSet(mine)
    <3> DEFINE S == {c}
               T == 1 .. s
    <3> HIDE DEF S, T
    <3>1. IsFiniteSet(S) /\ IsFiniteSet(T) => /\ IsFiniteSet(S \X T)
                                             /\ Cardinality(S \X T) = Cardinality(S) * Cardinality(T)
      BY FS_Product
    <3> QED
      BY <2>1, <2>2, <3>1 DEF S, T
  <2> QED
    BY <1>1, <2>3
<1>9. Cardinality(Free) \in Nat /\ Cardinality(FreeNext) = Cardinality(Free) - s
  <2>1. IsFiniteSet(Free) /\ Cardinality(Free) \in Nat
    BY FreeFinite DEF Free
  <2>2. Cardinality(FreeNext) = Cardinality(Free) - Cardinality(Free \cap mine)
    BY <1>7, <2>1, FS_Difference
  <2>3. Free \cap mine = mine
    BY <1>6
  <2> QED
    BY <1>8, <2>1, <2>2, <2>3
<1>10. s * (load - debt) + One * Cardinality(Free) <= most
  BY DEF LoadInv
<1> HIDE DEF s, most
<1>11. s * (load' - debt') + One * Cardinality(FreeNext) <= most
  <2>1. load' - debt' = (load - debt) + One /\ load - debt \in Int
    BY <1>1, <1>5
  <2>2. s * ((load - debt) + One) + One * (Cardinality(Free) - s) = s * (load - debt) + One * Cardinality(Free)
    BY <1>1, <1>9, <2>1, LoadTakesSlots
  <2> QED
    BY <1>9, <1>10, <2>1, <2>2
<1> QED
  BY <1>11, LoadInvPrimed DEF s, most

(* A tick brings each page fetch one tick nearer to a request, and pays off PageRate. *)
LEMMA LoadTick ==
    ASSUME BucketAssumption, RpcAssumption, RpcTypeOK, LoadInv, TimePasses
    PROVE  LoadInv'
<1> DEFINE s == ShortestSleep(1)
           p == Cardinality(PageFetches)
           near == {<<c, Cooldown(call[c])>> : c \in PageFetches}
<1>1. /\ s \in Nat \ {0} /\ One \in Nat /\ p \in Nat /\ Rate \in Nat
      /\ load \in Nat /\ debt \in Nat /\ Cardinality(Slots) = p * s
  BY SlotsFinite DEF BucketAssumption, RpcTypeOK, TypeOK
<1>2. PageRate \in Nat /\ p * One <= s * PageRate
  <2>1. p * One \in Nat
    BY <1>1, ProductNat
  <2>2. PageRate = (p * One + s - 1) \div s
    BY DEF PageRate
  <2> QED
    BY <1>1, <2>1, <2>2, CeilBound
<1>3. ASSUME NEW c \in PageFetches
      PROVE  /\ Cooldown(call[c]) \in Nat /\ Cooldown(call'[c]) \in Nat
             /\ Cooldown(call'[c]) >= Cooldown(call[c]) - 1
  <2>1. call[c] \in Call /\ call'[c] = OneTickOn(call[c], OwnPatience[c])
    BY DEF TimePasses, RpcTypeOK, RpcAssumption
  <2>2. /\ call'[c] \in Call /\ call'[c].pc = call[c].pc
        /\ call'[c].wait = IF call[c].wait > 0 THEN call[c].wait - 1 ELSE 0
    BY <2>1, OneTickOnType
  <2>3. Cooldown(call[c]) \in Nat /\ Cooldown(call'[c]) \in Nat
    BY <2>1, <2>2, CooldownType
  <2>4. call[c].wait \in Nat
    BY <2>1 DEF Call
  <2> QED
    BY <1>1, <2>2, <2>3, <2>4 DEF Cooldown
<1>4. FreeNext \subseteq Free \cup near
  <2>1. ASSUME NEW slot \in FreeNext PROVE slot \in Free \cup near
    <3>1. /\ slot \in Slots /\ slot[1] \in PageFetches /\ slot[2] \in 1 .. s
          /\ slot = <<slot[1], slot[2]>> /\ slot[2] > Cooldown(call'[slot[1]])
      BY DEF FreeNext, Slots
    <3>2. slot[2] \in Int
      BY <3>1
    <3>3. slot[2] > Cooldown(call[slot[1]]) \/ slot[2] = Cooldown(call[slot[1]])
      BY <1>3, <3>1, <3>2
    <3> QED
      BY <3>1, <3>3 DEF Free
  <2> QED
    BY <2>1
<1>5. IsFiniteSet(near) /\ Cardinality(near) \in Nat /\ Cardinality(near) <= p
  <2> DEFINE f == [x \in near |-> x[1]]
  <2>1. f \in Injection(near, PageFetches)
    BY DEF Injection, IsInjective
  <2>2. IsFiniteSet(PageFetches)
    BY DEF RpcAssumption
  <2> HIDE DEF f, near
  <2> QED
    BY <2>1, <2>2, FS_Injection, FS_CardinalityType
<1>6. /\ Cardinality(Free) \in Nat /\ Cardinality(FreeNext) \in Nat
      /\ Cardinality(FreeNext) <= Cardinality(Free) + p /\ Cardinality(FreeNext) <= p * s
  <2>1. Free \subseteq Slots /\ FreeNext \subseteq Slots
    BY DEF Free, FreeNext
  <2>2. /\ IsFiniteSet(Free) /\ Cardinality(Free) \in Nat
        /\ Cardinality(FreeNext) \in Nat /\ Cardinality(FreeNext) <= p * s
    BY <1>1, <2>1, FreeFinite
  <2>3. /\ IsFiniteSet(Free \cup near)
        /\ Cardinality(Free \cup near) = Cardinality(Free) + Cardinality(near) - Cardinality(Free \cap near)
    BY <1>5, <2>2, FS_Union
  <2>4. IsFiniteSet(Free \cap near) /\ Cardinality(Free \cap near) \in Nat
    BY <2>2, FS_Intersection, FS_CardinalityType
  <2>5. Cardinality(FreeNext) <= Cardinality(Free \cup near)
    BY <1>4, <2>3, FS_Subset
  <2> QED
    BY <1>1, <1>5, <2>2, <2>3, <2>4, <2>5
<1>7. /\ load' - debt' \in Int
      /\ load' - debt' <= (load - debt) - PageRate \/ load' - debt' <= 0
  <2>1. /\ load' = IF load > Rate + PageRate THEN load - (Rate + PageRate) ELSE 0
        /\ debt' = IF debt > Rate THEN debt - Rate ELSE 0
    BY DEF TimePasses, Tick
  <2> QED
    BY <1>1, <1>2, <2>1
<1>8. s * (load - debt) + One * Cardinality(Free) <= s * (One * p)
  BY DEF LoadInv
<1>9. load - debt \in Int
  BY <1>1
<1> HIDE DEF s, p
<1>10. s * (load' - debt') + One * Cardinality(FreeNext) <= s * (One * p)
  BY <1>1, <1>2, <1>6, <1>7, <1>8, <1>9, LoadPaidOff
<1> QED
  BY <1>10, LoadInvPrimed DEF s, p
LEMMA LoadNext ==
    ASSUME BucketAssumption, RpcAssumption, RpcTypeOK, RpcTypeOK', QueueInv, LoadInv, [RpcNext]_rpcVars
    PROVE  LoadInv'
<1> USE BucketAssumption, RpcAssumption
<1>1. /\ load \in Nat /\ debt \in Nat /\ load' \in Nat /\ debt' \in Nat /\ One \in Nat
      /\ call \in [Callers -> Call] /\ call' \in [Callers -> Call] /\ PageFetches \subseteq Callers
  BY DEF RpcTypeOK, TypeOK, BucketAssumption, RpcAssumption
<1>2. \A c \in Callers : Cooldown(call[c]) \in Nat /\ Cooldown(call'[c]) \in Nat
  BY <1>1, CooldownType
<1>3. ASSUME load' - debt' = load - debt,
             \A c \in PageFetches : Cooldown(call[c]) <= Cooldown(call'[c])
      PROVE  LoadInv'
  <2>1. load - debt \in Int /\ load' - debt' \in Int
    BY <1>1
  <2>2. load' - debt' <= load - debt
    BY <1>3, <2>1
  <2> QED
    BY <1>1, <1>3, <2>1, <2>2, LoadStays
<1>4. ASSUME NEW c \in Callers, NEW k \in Call, Becomes(c, k), load' - debt' = load - debt,
             c \notin PageFetches \/ Cooldown(call[c]) <= Cooldown(k)
      PROVE  LoadInv'
  <2>1. \A d \in PageFetches : call'[d] = IF d = c THEN k ELSE call[d]
    BY <1>1, <1>4 DEF Becomes
  <2>2. \A d \in PageFetches : Cooldown(call[d]) <= Cooldown(call'[d])
    BY <1>1, <1>2, <1>4, <2>1
  <2> QED
    BY <1>3, <1>4, <2>2
<1>5. ASSUME NEW c \in Callers, SendNow(c) \/ SendLater(c) PROVE LoadInv'
  <2>1. c \notin PageFetches /\ \E k \in Call : Becomes(c, k)
    BY <1>5, Moves DEF SendNow, SendLater
  <2>2. load' - debt' = load - debt
    <3>1. CASE SendNow(c)
      <4>1. load' = load + 1 * One /\ debt' = debt + 1 * One
        BY <3>1 DEF SendNow, AcquireNow, Request, Grant
      <4> QED
        BY <1>1, <4>1
    <3>2. CASE SendLater(c)
      <4>1. load' = load /\ debt' = debt
        BY <3>2 DEF SendLater, AcquireLater
      <4> QED
        BY <1>1, <4>1
    <3> QED
      BY <1>5, <3>1, <3>2
  <2> QED
    BY <1>4, <2>1, <2>2
<1>6. ASSUME NEW c \in Callers, Respond(c) PROVE LoadInv'
  <2>1. load' = load /\ debt' = debt /\ call[c].pc = "sent"
    BY <1>6 DEF Respond, Settled, FailedOnce, FailedForGood, vars
  <2>2. Cooldown(call[c]) = ShortestSleep(1) /\ ShortestSleep(1) \in Nat
    BY <2>1, SleepsLengthen DEF Cooldown
  <2>3. \E k \in Call : Becomes(c, k) /\ Cooldown(call[c]) <= Cooldown(k)
    <3>1. CASE Settled(c)
      <4>1. PICK k \in Answered : Becomes(c, k)
        BY <3>1, SettledBecomes
      <4> QED
        BY <2>2, <4>1 DEF Answered, Cooldown
    <3>2. CASE FailedOnce(c)
      <4>1. PICK k \in Sleeping(call[c]) : Becomes(c, k)
        BY <3>2, FailedOnceBecomes
      <4>2. k \in Call /\ k.wait \in Nat /\ Cooldown(k) = k.wait
        BY <4>1 DEF Sleeping, Call, Cooldown
      <4>3. call[c].attempt + 1 \in Nat \ {0} /\ k.wait >= ShortestSleep(call[c].attempt + 1)
        BY <1>1, <4>1 DEF Sleeping, Call
      <4>4. /\ ShortestSleep(call[c].attempt + 1) \in Nat
            /\ ShortestSleep(1) <= ShortestSleep(call[c].attempt + 1)
        BY <4>3, SleepsLengthen
      <4> QED
        BY <2>2, <4>1, <4>2, <4>3, <4>4
    <3>3. CASE FailedForGood(c)
      <4>1. PICK k \in GivenUp(call[c]) : Becomes(c, k)
        BY <3>3, FailedForGoodBecomes
      <4> QED
        BY <2>2, <4>1 DEF GivenUp, Cooldown
    <3> QED
      BY <1>6, <3>1, <3>2, <3>3 DEF Respond
  <2> QED
    BY <1>1, <1>4, <2>1, <2>3
<1>7. CASE DrainQueue
  <2> DEFINE n == Served * One
  <2>1. Served \in Nat /\ Served <= Len(waiting) /\ Len(waiting) \in Nat /\ n \in Nat
    BY ServedType DEF RpcTypeOK, TypeOK
  <2>2. load' = load + n /\ debt' = debt + n
    BY <1>7 DEF DrainQueue, Drain, Request, Grant
  <2>3. load' - debt' = load - debt
    <3> HIDE DEF n
    <3> QED
      BY <1>1, <2>1, <2>2
  <2>4. ASSUME NEW c \in PageFetches PROVE Cooldown(call[c]) <= Cooldown(call'[c])
    <3>1. \/ call'[c] = call[c]
          \/ call'[c] = [call[c] EXCEPT !.pc = "sent"] /\ \E i \in 1 .. Served : c = waiting[i]
      BY <1>1, <1>7 DEF DrainQueue
    <3>2. CASE call'[c] = [call[c] EXCEPT !.pc = "sent"] /\ \E i \in 1 .. Served : c = waiting[i]
      <4>1. call[c].pc = "queued"
        <5>1. PICK i \in 1 .. Served : c = waiting[i]
          BY <3>2
        <5>2. i \in 1 .. Len(waiting)
          BY <2>1
        <5> QED
          BY <5>1, <5>2 DEF QueueInv
      <4>2. call[c] \in Call
        BY <1>1
      <4>3. Cooldown(call[c]) = Cooldown(call'[c])
        BY <3>2, <4>1, <4>2 DEF Call, Cooldown
      <4> QED
        BY <1>1, <1>2, <4>3
    <3> QED
      BY <1>1, <1>2, <3>1, <3>2
  <2> QED
    BY <1>3, <2>3, <2>4
<1>8. CASE ClockIsSet \/ UNCHANGED rpcVars
  <2>1. load' = load /\ debt' = debt /\ call' = call
    BY <1>8 DEF ClockIsSet, ClockSetBack, ClockSetForward, rpcVars, vars
  <2> QED
    BY <1>1, <1>2, <1>3, <2>1
<1>9. ASSUME NEW c \in Callers, Again(c) PROVE LoadInv'
  <2>1. PICK k \in Fresh : Becomes(c, k)
    BY <1>9, AgainBecomes
  <2>2. k \in Call /\ c \notin PageFetches /\ load' = load /\ debt' = debt
    BY <1>9, <2>1 DEF Again, Fresh, vars
  <2> QED
    BY <1>1, <1>4, <2>1, <2>2
<1> QED
  BY <1>5, <1>6, <1>7, <1>8, <1>9, LoadSendPast, LoadTick DEF RpcNext

-----------------------------------------------------------------------------
LEMMA RpcInitInv == BucketAssumption /\ RpcAssumption /\ RpcInit => RpcTypeOK /\ RpcInv
<1> SUFFICES ASSUME BucketAssumption, RpcAssumption, RpcInit PROVE RpcTypeOK /\ RpcInv
  OBVIOUS
<1>1. /\ \A c \in Callers : call[c] = NewCall /\ Retries[c] \in Nat \ {0}
      /\ call = [c \in Callers |-> NewCall] /\ NewCall \in Call
      /\ waiting = <<>> /\ load = 0 /\ debt = 0
  BY DEF RpcInit, Init, NewCall, Call, States, RpcAssumption
<1>2. RpcTypeOK
  <2>1. TypeOK
    BY TypeInit DEF RpcInit
  <2>2. call \in [Callers -> Call] /\ \A c \in Callers : CallOK(c)
    BY <1>1 DEF CallOK, NewCall
  <2> QED
    BY <1>1, <2>1, <2>2 DEF RpcTypeOK, CallOK
<1>3. QueueInv
  BY <1>1 DEF QueueInv
<1>4. PatienceInv /\ GivesUpOnlyAfterPatience
  <2>1. Patience[0] = 0
    BY PatienceDef
  <2>2. NewCall.pc = "new" /\ NewCall.wait = 0 /\ NewCall.spent = 0 /\ NewCall.attempt = 0
    BY DEF NewCall
  <2>3. NewCall.spent + NewCall.wait >= Patience[NewCall.attempt]
    BY <2>1, <2>2
  <2> QED
    BY <1>1, <2>2, <2>3 DEF PatienceInv, GivesUpOnlyAfterPatience
<1>5. LoadInv
  <2> DEFINE s == ShortestSleep(1)
             p == Cardinality(PageFetches)
  <2>1. s \in Nat /\ p \in Nat /\ One \in Nat /\ Cardinality(Slots) = p * s
    BY SlotsFinite DEF BucketAssumption
  <2>2. Free = Slots
    <3>1. \A slot \in Slots : slot[1] \in Callers /\ slot[2] > 0
      BY <2>1 DEF Slots, RpcAssumption
    <3> QED
      BY <1>1, <3>1 DEF Free, Cooldown, NewCall
  <2> HIDE DEF s, p
  <2>3. s * (0 - 0) + One * (p * s) = s * (One * p)
    BY <2>1
  <2>4. s * (0 - 0) + One * (p * s) <= s * (One * p)
    BY <2>1, <2>3
  <2> QED
    BY <1>1, <2>1, <2>2, <2>4 DEF LoadInv, s, p
<1> QED
  BY <1>2, <1>3, <1>4, <1>5 DEF RpcInv

LEMMA RpcInvariant == RpcSpec => [](RpcTypeOK /\ RpcInv)
<1>1. RpcInit => RpcTypeOK /\ RpcInv
  BY RpcInitInv, BucketAssumption, RpcAssumption
<1>2. RpcTypeOK /\ RpcInv /\ [RpcNext]_rpcVars => RpcTypeOK' /\ RpcInv'
  <2> SUFFICES ASSUME RpcTypeOK, RpcInv, [RpcNext]_rpcVars PROVE RpcTypeOK' /\ RpcInv'
    OBVIOUS
  <2>1. QueueInv /\ PatienceInv /\ GivesUpOnlyAfterPatience /\ LoadInv
    BY DEF RpcInv
  <2>2. RpcTypeOK' /\ QueueInv' /\ PatienceInv' /\ GivesUpOnlyAfterPatience'
    BY <2>1, BucketAssumption, RpcAssumption, RpcTypeNext, QueueNext, PatienceNext, GivesUpNext
  <2>3. LoadInv'
    BY <2>1, <2>2, BucketAssumption, RpcAssumption, LoadNext
  <2> QED
    BY <2>2, <2>3 DEF RpcInv
<1> QED
  BY <1>1, <1>2, PTL DEF RpcSpec

(* No call is ever tried more often than it may be, nor answered while it waits for a token. *)
THEOREM RpcTypeCorrect == RpcSpec => []RpcTypeOK
  BY RpcInvariant, PTL

(***************************************************************************)
(* A call that was given up had slept, and the node failed it, for the sum *)
(* of the shortest sleeps its options allow: however many calls compete    *)
(* for the tokens, and whatever the delays, the limit on them, the jitter  *)
(* and the clock.                                                          *)
(***************************************************************************)
THEOREM OutagesRiddenOut == RpcSpec => []GivesUpOnlyAfterPatience
<1>1. RpcInv => GivesUpOnlyAfterPatience
  BY DEF RpcInv
<1> QED
  BY <1>1, RpcInvariant, PTL

(***************************************************************************)
(* At every moment no more has been sent, in any interval that ends then,  *)
(* than the bucket allows and one request of each page fetch, beyond what  *)
(* one request per shortest sleep of each of these comes to.               *)
(***************************************************************************)
THEOREM RequestsBounded == RpcSpec => []RequestBound
<1>1. RpcTypeOK /\ RpcInv /\ RateBound => RequestBound
  <2> SUFFICES ASSUME RpcTypeOK, RpcInv, RateBound PROVE RequestBound
    OBVIOUS
  <2> DEFINE s == ShortestSleep(1)
             p == Cardinality(PageFetches)
             cap == (1 + leaps) * Full
             extra == p * One
             x == load - debt
  <2>1. /\ s \in Nat \ {0} /\ p \in Nat /\ One \in Nat /\ Cardinality(Free) \in Nat
        /\ load \in Nat /\ debt \in Nat /\ leaps \in Nat /\ Full \in Nat
    <3>1. Free \subseteq Slots
      BY DEF Free
    <3>2. Full \in Nat
      BY FullType, BucketAssumption
    <3> QED
      BY <3>1, <3>2, FreeFinite, SlotsFinite, BucketAssumption, RpcAssumption
         DEF BucketAssumption, RpcTypeOK, TypeOK
  <2>2. cap \in Nat /\ extra \in Nat /\ x \in Int /\ debt <= cap /\ One * p = extra
    <3>1. 1 + leaps \in Nat
      BY <2>1
    <3> QED
      BY <2>1, <3>1, ProductNat DEF RateBound
  <2>3. s * x + One * Cardinality(Free) <= s * extra
    BY <2>1, <2>2 DEF RpcInv, LoadInv
  <2>4. load = debt + x
    BY <2>1
  <2> HIDE DEF s, p, cap, x, extra
  <2>5. One * Cardinality(Free) \in Nat
    BY <2>1, ProductNat
  <2>6. x <= extra
    <3>1. s * x <= s * extra
      <4>1. s * x \in Int /\ s * extra \in Int
        BY <2>1, <2>2
      <4> QED
        BY <2>3, <2>5, <4>1
    <3>2. ~ (extra + 1 <= x)
      <4> SUFFICES ASSUME extra + 1 <= x PROVE FALSE
        OBVIOUS
      <4>1. s * (extra + 1) <= s * x
        BY <2>1, <2>2, ScaleGrows
      <4>2. s * (extra + 1) = s * extra + s /\ s * x \in Int /\ s * extra \in Int
        BY <2>1, <2>2
      <4> QED
        BY <2>1, <3>1, <4>1, <4>2
    <3> QED
      BY <2>2, <3>2
  <2>7. load <= cap + extra
    BY <2>1, <2>2, <2>4, <2>6
  <2> QED
    BY <2>7 DEF RequestBound, cap, extra, p
<1> QED
  BY <1>1, RpcInvariant, RetriesRateBounded, PTL

=============================================================================
