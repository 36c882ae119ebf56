---------------------------- MODULE MCSnsContent ----------------------------
(* Model-checking instances of the content pipeline. *)
EXTENDS SnsContent, TLC

CONSTANTS d1, d2    \* the domains

ipfsA == [cid |-> "a", kind |-> "ipfs"]
ipnsK == [cid |-> "k", kind |-> "ipns"]
ipnsJunk == [cid |-> "x:k", kind |-> "ipns"]

NoRows == <<>>
BlockedRow == <<d2>>
Known == <<d1, d2>>

OneIpfs == {ipfsA}
OneOfEach == {ipfsA, ipnsK}
WithJunk == {ipfsA, ipnsK, ipnsJunk}

(* Instructions of the V2 records program, another program, and transactions. *)
V2(d) == [parsed |-> FALSE, program |-> RecordsV2, data |-> <<2>>,
          accounts |-> <<"system", "names", "payer", "record", d, "owner">>]
Other == [parsed |-> FALSE, program |-> "vault", data |-> <<1>>, accounts |-> <<"payer">>]
Transfer == [parsed |-> TRUE, program |-> "system"]

Direct(d) == [err |-> FALSE, top |-> <<Transfer, V2(d)>>, inner |-> <<>>]
Failed(d) == [Direct(d) EXCEPT !.err = TRUE]
ByProxy(d) == [err |-> FALSE, top |-> <<Other>>, inner |-> <<<<Transfer, V2(d)>>>>]
Several(d, e) ==
    [err |-> FALSE, top |-> <<V2(d), Other, V2(d)>>, inner |-> <<<<Transfer>>, <<V2(e), V2(d)>>>>]

AllForms == [proxy |-> ByProxy(d2), several |-> Several(d1, d2)]
OneDomain == [direct |-> Direct(d1)]
Assorted == [failed |-> Failed(d1), several |-> Several(d1, d2)]
Simple == [first |-> Direct(d1), second |-> Direct(d2)]
ThenUnreadable == [direct |-> Direct(d1), several |-> Several(d1, d2)]
=============================================================================
