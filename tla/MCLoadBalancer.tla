--------------------------- MODULE MCLoadBalancer ---------------------------
(* Small instances of LoadBalancer for TLC. *)
EXTENDS LoadBalancer, TLC

CONSTANTS c1, c2, c3, A, B, R, lb, pool, listener, new, m1, m2, pkg, dp, f, v, w, none

TwoMembers == {m1, m2}
AllKeys == {m1, m2, pkg, dp, f}
Empties == [k \in AllKeys |-> none]

\* R is a Client whose transport retries.
SomeRetry == A :> 1 @@ B :> 1 @@ R :> 2

\* A pool with one member, a listener, and a child to be created.
AtFirst == pool :> [Empties EXCEPT ![m1] = v] @@ listener :> Empties @@ new :> none

Do(a, op, t, k, x, nw) == [client |-> a, op |-> op, on |-> t, key |-> k, val |-> x, noWait |-> nw]
Two(p, q) == c1 :> p @@ c2 :> q
All(p, q, r) == c1 :> p @@ c2 :> q @@ c3 :> r

Add(a, nw) == Do(a, "addMember", pool, m2, v, nw)
Remove(a, nw) == Do(a, "removeMember", pool, m1, none, nw)
Modify(a, nw) == Do(a, "updateMember", pool, m1, w, nw)
SetPool(a) == Do(a, "updatePool", pool, f, w, FALSE)
SetListener(a, x) == Do(a, "updateListener", listener, dp, x, FALSE)
SetPolicy(a, nw) == Do(a, "updatePolicy", listener, f, w, nw)
New(a, op, nw) == Do(a, op, new, dp, v, nw)
Drop(a, op, t, nw) == Do(a, op, t, dp, none, nw)
Resize(a, x, nw) == Do(a, "resize", lb, pkg, x, nw)

\* One Client without and with retries, two Clients, and the other operations.
AllPlans == {
    Two(Add(A, FALSE), Modify(A, FALSE)),
    Two(SetPool(A), Add(A, FALSE)),
    Two(Add(A, TRUE), Remove(A, FALSE)),
    Two(Add(R, FALSE), New(B, "createPool", TRUE)),
    Two(Add(A, FALSE), Modify(B, FALSE)),
    Two(SetListener(A, w), SetPolicy(A, FALSE)),
    Two(SetListener(A, w), SetPolicy(B, TRUE)),
    Two(SetListener(A, pool), Drop(B, "deletePool", pool, FALSE)),
    Two(Resize(A, w, FALSE), Resize(A, w, FALSE)),
    All(Resize(A, w, TRUE), Resize(A, w, FALSE), Resize(B, v, FALSE)),
    Two(New(A, "createListener", FALSE), Drop(A, "deleteListener", listener, FALSE)),
    Two(New(R, "createPolicy", FALSE), Drop(R, "deletePolicy", listener, TRUE)),
    All(Drop(A, "deleteBalancer", lb, FALSE), Drop(B, "deleteBalancer", lb, TRUE), Add(A, FALSE))}

RacePlans == {Two(Add(A, FALSE), Modify(B, FALSE))}
=============================================================================
