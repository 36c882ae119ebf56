----------------------------- MODULE MCRpcCalls -----------------------------
(* Model-checking instances of the RPC calls and their rate limiter. *)
EXTENDS RpcCalls, TLC

CONSTANTS a, b, p

(* One caller is never retried, the other and the page fetch are once. *)
AttemptsEach == (a :> 2) @@ (b :> 1) @@ (p :> 2)

Options(delay, maxDelay) == INSTANCE RpcCalls WITH Delay <- delay, MaxDelay <- maxDelay

(* In ms: the default options ride out half a minute, those of the page fetch "~14 min". *)
ASSUME BudgetsAsDocumented ==
    /\ Options(500, 30000)!Patience[5] = 31000
    /\ Options(2000, 120000)!Patience[11] \div 60000 = 14
=============================================================================
