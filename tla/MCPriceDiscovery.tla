-------------------------- MODULE MCPriceDiscovery --------------------------
(* Small instances of PriceDiscovery for TLC. *)
EXTENDS PriceDiscovery, TLC

CONSTANTS c1, c2, c3, p, q, u, v, near, far, x, y, z

One == {[id |-> p, user |-> u]}
Other == {[id |-> q, user |-> v]}
Both == One \cup Other
AllLists == {{}, One, Other, Both}

\* Two volume type zones with a type in common.
Types == near :> {x, y} @@ far :> {y, z}

Id == [op |-> "id", max |-> 0, partial |-> FALSE]
Whole == [op |-> "project", max |-> 0, partial |-> FALSE]
Prices(n, some) == [op |-> "prices", max |-> n, partial |-> some]

AllPlans ==
    {c1 :> Prices(1, FALSE) @@ c2 :> Whole @@ c3 :> Id, c1 :> Prices(7, TRUE) @@ c2 :> Whole @@ c3 :> Id}
    \cup {c1 :> Prices(n, some) : n \in {4, 6, 7, 8}, some \in BOOLEAN}
    \cup {c1 :> Whole @@ c2 :> Whole @@ c3 :> Id}
=============================================================================
