------------------------------ MODULE MCSnsRow ------------------------------
(* Model-checking instance of a domain's row. *)
EXTENDS SnsRow, TLC

(* The registrar creates the account of a name through its own program. *)
Create(domain, parent) ==
    [parsed |-> FALSE, program |-> NameService, data |-> <<0>>,
     accounts |-> <<"system", "payer", domain, "owner", "class", parent, "parent owner">>]
Update(domain) == [parsed |-> FALSE, program |-> NameService, data |-> <<1>>,
                   accounts |-> <<domain, "owner">>]
V2(domain) == [parsed |-> FALSE, program |-> RecordsV2, data |-> <<2>>,
               accounts |-> <<"system", "names", "payer", "record", domain, "owner">>]
Registrar == [parsed |-> FALSE, program |-> "registrar", data |-> <<>>, accounts |-> <<"payer">>]
Transfer == [parsed |-> TRUE, program |-> "system"]

Registration ==
    [err |-> FALSE, top |-> <<Transfer, Registrar>>,
     inner |-> <<<<Create("reverse", "central state"), Create(Domain, SolRoot)>>>>]

(* A registration, one that failed, and a record write. *)
Forms == [registered |-> Registration, failed |-> [Registration EXCEPT !.err = TRUE],
          written |-> [err |-> FALSE, top |-> <<V2(Domain)>>, inner |-> <<>>]]

Account0 == [exists |-> TRUE, data |-> TRUE, readable |-> TRUE, value |-> "owner"]
AccountForms == {Account0, [Account0 EXCEPT !.exists = FALSE], [Account0 EXCEPT !.readable = FALSE]}

-----------------------------------------------------------------------------
(***************************************************************************)
(* The parsers on every transaction of up to two top-level and two inner   *)
(* instructions of these: each domain once, and none but the ones there.   *)
(***************************************************************************)
Instances == {Create("a", SolRoot), Create("b", SolRoot), Create("a", "b"),
              Update("a"), V2("a"), V2("b"), Transfer}

Short == UNION {[1 .. n -> Instances] : n \in 0 .. 2}

Once(found, domains) == IsInjective(found) /\ Range(found) = domains

ASSUME ParsersFindEveryDomain ==
    \A top \in Short, inner \in Short :
        LET tx  == [err |-> FALSE, top |-> top, inner |-> <<inner, top>>]
            all == Range(top) \cup Range(inner)
        IN /\ Once(CreatedDomains(tx), {d \in {"a", "b"} : Create(d, SolRoot) \in all})
           /\ Once(RecordDomains(tx), {d \in {"a", "b"} : V2(d) \in all})
=============================================================================
