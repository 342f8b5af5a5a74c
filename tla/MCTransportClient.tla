-------------------------- MODULE MCTransportClient --------------------------
(* Small instances of TransportClient for TLC. *)
EXTENDS TransportClient, TLC

CONSTANTS c1, c2

\* The write API's Once request, an ordinary write, and a read without a token.
Once == [once |-> TRUE, idem |-> FALSE, uses |-> TRUE, noRedirect |-> TRUE]
Ordinary == [once |-> FALSE, idem |-> FALSE, uses |-> TRUE, noRedirect |-> TRUE]
Bystander == [once |-> TRUE, idem |-> TRUE, uses |-> FALSE, noRedirect |-> TRUE]

Two(p, q) == c1 :> p @@ c2 :> q
Shapes == {r \in Request : r.once => r.noRedirect}

\* Two calls that race on the token slot, and every shape in its turn.
AllRequests ==
    {Two(Once, Once), Two(Ordinary, Once)} \cup {Two(r, Bystander) : r \in Shapes}

\* Every shape, alone.
Alone == [{c1} -> Shapes]
==============================================================================
