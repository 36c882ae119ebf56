------------------------------ MODULE RpcCalls ------------------------------
(***************************************************************************)
(* The calls retryWithExponentialBackoff makes of the RPC node.  Each      *)
(* attempt through the Connection takes a token of TokenBucket first; an   *)
(* attempt of the backfill's page fetch goes past the bucket.  After a     *)
(* failure worth retrying the call sleeps, ever longer, and tries again.   *)
(***************************************************************************)
EXTENDS TokenBucket, FiniteSets

CONSTANTS
    PageFetches,    \* the callers that fetch a page from Helius
    Retries,        \* attempts of each caller's calls
    Delay,          \* ticks, doubled before each sleep
    MaxDelay        \* ticks a call sleeps at most

ASSUME RpcAssumption ==
    /\ PageFetches \subseteq Callers /\ IsFiniteSet(PageFetches)
    /\ Retries \in [Callers -> Nat \ {0}]
    /\ Delay \in Nat \ {0} /\ MaxDelay \in Nat \ {0}

VARIABLES
    call,       \* the call of each caller
    load        \* history: the debt of all requests, those past the bucket included

rpcVars == <<vars, call, load>>

-----------------------------------------------------------------------------
(* Mutant: the delay is not doubled. *)
FlatWaitTime(attempt, jitter) ==
    IF Delay + jitter < MaxDelay THEN Delay + jitter ELSE MaxDelay

(* expBackoff: the delay, doubled with each failed attempt. *)
ExpBackoff[attempt \in Nat] == IF attempt = 0 THEN Delay ELSE 2 * ExpBackoff[attempt - 1]

(* waitTime after the given failed attempt. *)
WaitTime(attempt, jitter) ==
    LET wait == ExpBackoff[attempt] + jitter
    IN IF wait < MaxDelay THEN wait ELSE MaxDelay

(***************************************************************************)
(* The least that a call sleeps after an attempt, and what the sleeps      *)
(* after so many failed attempts come to at least.                         *)
(***************************************************************************)
ShortestSleep(attempt) ==
    IF ExpBackoff[attempt] < MaxDelay THEN ExpBackoff[attempt] ELSE MaxDelay

Patience[failures \in Nat] ==
    IF failures = 0 THEN 0 ELSE Patience[failures - 1] + ShortestSleep(failures)

(* The last failure is not followed by a sleep. *)
OwnPatience == [c \in Callers |-> Patience[Retries[c] - 1]]

(***************************************************************************)
(* wait is what is left of the sleep; spent is history: ticks since the    *)
(* first failure, counted up to patience.                                  *)
(***************************************************************************)
States == {"new", "queued", "sent", "asleep", "settled", "failed"}
Call == [pc : States, attempt : Nat, wait : Nat, spent : Nat]
NewCall == [pc |-> "new", attempt |-> 0, wait |-> 0, spent |-> 0]

RpcTypeOK ==
    /\ TypeOK
    /\ call \in [Callers -> Call]
    /\ \A c \in Callers : /\ call[c].attempt <= Retries[c]
                          /\ call[c].pc # "failed" => call[c].attempt < Retries[c]
    /\ load \in Nat

RpcInit ==
    /\ Init
    /\ call = [c \in Callers |-> NewCall]
    /\ load = 0

-----------------------------------------------------------------------------
Request(n) == load' = load + n * One

(* Units per tick that allow for a request of each page fetch in its shortest sleep. *)
PageRate ==
    (Cardinality(PageFetches) * One + ShortestSleep(1) - 1) \div ShortestSleep(1)

(* Mutant: the sleep is not awaited. *)
ReadyAtOnce(c) == call[c].pc \in {"new", "asleep"}

(* A new call, or one whose sleep is over; it may sleep longer. *)
Ready(c) == call[c].wait = 0 /\ call[c].pc \in {"new", "asleep"}

SendNow(c) ==
    /\ c \notin PageFetches /\ Ready(c)
    /\ AcquireNow(c)
    /\ call' = [call EXCEPT ![c].pc = "sent"]
    /\ Request(1)

SendLater(c) ==
    /\ c \notin PageFetches /\ Ready(c)
    /\ AcquireLater(c)
    /\ call' = [call EXCEPT ![c].pc = "queued"]
    /\ UNCHANGED load

(* fetchPageHeliusV2 calls the global fetch. *)
SendPast(c) ==
    /\ c \in PageFetches /\ Ready(c)
    /\ call' = [call EXCEPT ![c].pc = "sent"]
    /\ Request(1)
    /\ UNCHANGED vars

(* The timer's callback resolves the first promises of the queue. *)
DrainQueue ==
    /\ Drain
    /\ LET served == {waiting[i] : i \in 1 .. Served}
       IN call' = [c \in Callers |->
             IF c \in served THEN [call[c] EXCEPT !.pc = "sent"] ELSE call[c]]
    /\ Request(Served)

-----------------------------------------------------------------------------
(* An answer, or an error that isRetryableRpcError does not know and that is thrown at once. *)
Settled(c) ==
    /\ call[c].pc = "sent"
    /\ call' = [call EXCEPT ![c] = [NewCall EXCEPT !.pc = "settled"]]
    /\ UNCHANGED <<vars, load>>

(* A retryable failure with an attempt left: setTimeout. *)
FailedOnce(c) ==
    /\ call[c].pc = "sent"
    /\ call[c].attempt + 1 < Retries[c]
    /\ \E jitter \in 0 .. Delay - 1 :
          call' = [call EXCEPT ![c].pc = "asleep", ![c].attempt = @ + 1,
                      ![c].wait = WaitTime(call[c].attempt + 1, jitter)]
    /\ UNCHANGED <<vars, load>>

(* A retryable failure of the last attempt: its error is thrown. *)
FailedForGood(c) ==
    /\ call[c].pc = "sent"
    /\ call[c].attempt + 1 >= Retries[c]
    /\ call' = [call EXCEPT ![c].pc = "failed", ![c].attempt = @ + 1]
    /\ UNCHANGED <<vars, load>>

(* The caller makes its next call; a page fetch is one call, the next page another caller's. *)
Again(c) ==
    /\ c \notin PageFetches
    /\ call[c].pc \in {"settled", "failed"}
    /\ call' = [call EXCEPT ![c] = NewCall]
    /\ UNCHANGED <<vars, load>>

-----------------------------------------------------------------------------
(* A tick passes for every call that is asleep. *)
OneTickOn(k, patience) ==
    [k EXCEPT !.wait = IF @ > 0 THEN @ - 1 ELSE 0,
              !.spent = IF k.attempt > 0 /\ k.pc \in {"queued", "sent", "asleep"}
                           /\ @ < patience
                        THEN @ + 1 ELSE @]

TimePasses ==
    /\ Tick
    /\ call' = [c \in Callers |-> OneTickOn(call[c], OwnPatience[c])]
    /\ load' = IF load > Rate + PageRate THEN load - (Rate + PageRate) ELSE 0

ClockIsSet == (ClockSetBack \/ ClockSetForward) /\ UNCHANGED <<call, load>>

Respond(c) == Settled(c) \/ FailedOnce(c) \/ FailedForGood(c)

RpcNext ==
    \/ TimePasses \/ ClockIsSet \/ DrainQueue
    \/ \E c \in Callers : SendNow(c) \/ SendLater(c) \/ SendPast(c) \/ Respond(c) \/ Again(c)

RpcSpec == RpcInit /\ [][RpcNext]_rpcVars

(***************************************************************************)
(* Time passes, the event loop gets to every due timer, and every request  *)
(* is answered or fails in the end.  Nobody has to begin a call.           *)
(***************************************************************************)
Resend(c) == call[c].pc = "asleep" /\ (SendNow(c) \/ SendLater(c) \/ SendPast(c))

RpcFairSpec ==
    /\ RpcSpec
    /\ WF_rpcVars(TimePasses) /\ WF_rpcVars(DrainQueue)
    /\ \A c \in Callers : WF_rpcVars(Resend(c)) /\ WF_rpcVars(Respond(c))

-----------------------------------------------------------------------------
(***************************************************************************)
(* Properties.                                                             *)
(***************************************************************************)
(***************************************************************************)
(* A call gives up only when the node has been failing for the whole of    *)
(* its patience: an outage shorter than that is ridden out, whatever the   *)
(* jitter and however long the attempts waited for tokens.                 *)
(***************************************************************************)
GivesUpOnlyAfterPatience ==
    \A c \in Callers :
        call[c].pc = "failed" => call[c].spent >= OwnPatience[c]

(***************************************************************************)
(* The rate of all requests that reach the node, those past the bucket     *)
(* included: a page fetch adds a request at once, and its retries no more  *)
(* often than its shortest sleep allows.  A page is one fetch, and the     *)
(* next page, asked for at once, one more of PageFetches.                  *)
(***************************************************************************)
RequestBound == load <= (1 + leaps) * Full + Cardinality(PageFetches) * One

(* acquire gives a token to a newcomer although others wait for one. *)
Overtakes(c) == SendNow(c) /\ waiting # <<>>

(***************************************************************************)
(* Every call that was begun is answered or given up on, though callers    *)
(* call again and again, the clock is set and every attempt may fail:      *)
(* unless newcomers overtake those that wait for ever, nothing but the     *)
(* timer being there to keep them from it.                                 *)
(***************************************************************************)
EveryCallSettles ==
    <>[][\A c \in Callers : ~Overtakes(c)]_rpcVars =>
        \A c \in Callers : call[c].pc \in {"queued", "sent", "asleep"}
                              ~> call[c].pc \in {"settled", "failed"}

-----------------------------------------------------------------------------
(***************************************************************************)
(* The inductive invariant.  Only sleepers wait, and those in the queue    *)
(* are queued once each; a call that has failed has been at it for the     *)
(* sleeps so far, but for what is left of the last one.                    *)
(***************************************************************************)
QueueInv ==
    /\ \A i \in 1 .. Len(waiting) : call[waiting[i]].pc = "queued"
    /\ \A i, j \in 1 .. Len(waiting) : waiting[i] = waiting[j] => i = j

PatienceInv ==
    \A c \in Callers :
        /\ call[c].wait > 0 => call[c].pc = "asleep"
        /\ call[c].pc = "asleep" => call[c].attempt > 0
        /\ call[c].pc # "failed" => call[c].spent + call[c].wait >= Patience[call[c].attempt]

(***************************************************************************)
(* The ticks that a call lets pass at least before its next request, and   *)
(* the ticks of their shortest sleeps that the page fetches are past: what *)
(* these have added to the load is paid for by the ticks still to come.    *)
(***************************************************************************)
Cooldown(k) ==
    IF k.pc = "new" THEN 0
    ELSE IF k.pc = "asleep" THEN k.wait ELSE ShortestSleep(1)

Slots == PageFetches \X (1 .. ShortestSleep(1))
Free == {slot \in Slots : slot[2] > Cooldown(call[slot[1]])}

LoadInv ==
    ShortestSleep(1) * (load - debt) + One * Cardinality(Free)
        <= ShortestSleep(1) * (One * Cardinality(PageFetches))

RpcInv == QueueInv /\ PatienceInv /\ GivesUpOnlyAfterPatience /\ LoadInv

=============================================================================
