--------------------------- MODULE MCUpdateAgent ---------------------------
(***************************************************************************)
(* Small instances of UpdateAgent: two apps a and b, target 1 with a1 and  *)
(* b1, target 2 that updates a and drops b, and target 3 that updates a    *)
(* to an app that cannot be started.                                       *)
(***************************************************************************)
EXTENDS UpdateAgent

T1 == [id |-> "t-1", version |-> 1, uris |-> {"a:1", "b:1"}]
T2 == [id |-> "t-2", version |-> 2, uris |-> {"a:2"}]
T3 == [id |-> "t-3", version |-> 3, uris |-> {"a:3", "b:1"}]

MCCatalog2 == {T1, T2}
MCCatalog3 == {T1, T3}
MCURI2 == {"a:1", "a:2", "b:1"}
MCURI3 == {"a:1", "a:3", "b:1"}
MCNameOf2 == [u \in MCURI2 |-> IF u = "b:1" THEN "b" ELSE "a"]
MCNameOf3 == [u \in MCURI3 |-> IF u = "b:1" THEN "b" ELSE "a"]
MCVersionOf2 == [i \in {"t-1", "t-2"} |-> IF i = "t-1" THEN 1 ELSE 2]
MCVersionOf3 == [i \in {"t-1", "t-3"} |-> IF i = "t-1" THEN 1 ELSE 3]
MCBad == {"a:3"}
=============================================================================
