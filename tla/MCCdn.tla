------------------------------- MODULE MCCdn --------------------------------
(* Small instances of Cdn for TLC. *)
EXTENDS Cdn, TLC

CONSTANTS c1, c2, c3, rule, name, v, w

Do(op, k, nw) == [op |-> op, key |-> k, val |-> v, noWait |-> nw]
Two(p, q) == c1 :> p @@ c2 :> q
All(p, q, r) == c1 :> p @@ c2 :> q @@ c3 :> r

AllPlans == {
    Two(Do("enable", rule, FALSE), Do("enable", rule, TRUE)),
    All(Do("disable", rule, FALSE), Do("disable", rule, TRUE), Do("enable", rule, FALSE)),
    All(Do("update", rule, FALSE), Do("update", name, TRUE), Do("disable", rule, FALSE)),
    All(Do("delete", rule, FALSE), Do("update", name, FALSE), Do("enable", rule, FALSE)),
    Two(Do("delete", rule, FALSE), Do("update", name, TRUE)),
    Two(Do("delete", rule, FALSE), Do("disable", rule, FALSE))}
=============================================================================
