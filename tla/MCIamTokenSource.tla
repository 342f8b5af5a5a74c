-------------------------- MODULE MCIamTokenSource --------------------------
(* Small instances of IamTokenSource for TLC. *)
EXTENDS IamTokenSource

CONSTANTS c1, c2, q1, q2

\* Each Client in a process of its own, or both in one process.
Apart == [c \in {c1, c2} |-> IF c = c1 THEN q1 ELSE q2]
Together == [c \in {c1, c2} |-> q1]

\* The deployment n faults and m refusals of good tokens are explored in.
Setup(home, cached, account, n, m) ==
    [home |-> home, cached |-> cached, account |-> account, faults |-> n, denials |-> m]

EverySetup ==
    {Setup(Apart, TRUE, FALSE, 2, 0), Setup(Together, TRUE, FALSE, 2, 0),
     Setup(Together, FALSE, FALSE, 2, 0),
     Setup(Apart, TRUE, TRUE, 2, 0), Setup(Apart, FALSE, TRUE, 2, 0),
     Setup(Apart, TRUE, FALSE, 0, 1), Setup(Together, FALSE, FALSE, 0, 1),
     Setup(Apart, TRUE, TRUE, 0, 1)}
=============================================================================
