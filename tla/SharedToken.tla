----------------------------- MODULE SharedToken -----------------------------
(***************************************************************************)
(* What internal/tokencache promises its callers: one token cell shared by *)
(* all processes, from which a Get takes the token in one step, or which   *)
(* it replaces by a newer one in one step, and only when the cell is no    *)
(* good to that caller or cannot be read.  How processes, files and locks  *)
(* do it is TokenCache's business.                                         *)
(***************************************************************************)
EXTENDS Naturals

CONSTANTS
    Proc,     \* processes (or Clients) sharing one credential set
    Window    \* freshWindow, 30 seconds, in ticks

VARIABLES
    now,      \* the wall clock
    cell,     \* the shared entry; token 0 when there is none
    refused,  \* per process, the token its pending Get rejects, 0 for none
    unread,   \* per process, the pending Get could not read the cell
    served,   \* per process, the last Get ended with a token, not an error
    hand,     \* per process, the entry its last successful Get returned
    setBack   \* the clock has been set back

vars == <<now, cell, refused, unread, served, hand, setBack>>

Entry == [tok : Nat, exp : Nat, got : Nat]
NoEntry == [tok |-> 0, exp |-> 0, got |-> 0]

\* A token is good to a caller that rejects r: it is not about to expire, and
\* a rejection of it is not trusted while it is younger than Window.
Good(e, r) ==
    /\ e.tok # 0
    /\ e.exp > now + Window
    /\ ~(e.tok = r /\ (e.got > now \/ now >= e.got + Window))

Init ==
    /\ now = 0
    /\ cell = NoEntry
    /\ refused = [p \in Proc |-> 0]
    /\ unread = [p \in Proc |-> FALSE]
    /\ served = [p \in Proc |-> FALSE]
    /\ hand = [p \in Proc |-> NoEntry]
    /\ setBack = FALSE

\* A caller may reject the token it was given, nothing else.
Ask(p) ==
    /\ \E r \in {0, hand[p].tok} : refused' = [refused EXCEPT ![p] = r]
    /\ served' = [served EXCEPT ![p] = FALSE]
    /\ UNCHANGED <<now, cell, unread, hand, setBack>>

\* The read of the cell fails, or what it holds makes no sense.
CannotRead(p) ==
    /\ unread' = [unread EXCEPT ![p] = TRUE]
    /\ UNCHANGED <<now, cell, refused, served, hand, setBack>>

\* The Get of p ends, with a token or without.
Answered(p, ok) ==
    /\ refused' = [refused EXCEPT ![p] = 0]
    /\ unread' = [unread EXCEPT ![p] = FALSE]
    /\ served' = [served EXCEPT ![p] = ok]

Serve(p) ==
    /\ Good(cell, refused[p]) /\ ~unread[p]
    /\ hand' = [hand EXCEPT ![p] = cell]
    /\ Answered(p, TRUE)
    /\ UNCHANGED <<now, cell, setBack>>

\* A newer token for p, whether or not the cell could be updated with it.  The
\* cell was no good to p, although a clock set back since may say that it is,
\* or p could not read it.
Renew(p) ==
    /\ ~Good(cell, refused[p]) \/ setBack \/ unread[p]
    /\ hand'[p] \in Entry /\ hand'[p].tok > cell.tok
    /\ hand' = [hand EXCEPT ![p] = hand'[p]]
    /\ cell' = cell \/ cell' = hand'[p]
    /\ Answered(p, TRUE)
    /\ UNCHANGED <<now, setBack>>

\* No answer: the caller learns nothing and the cell stays.
GiveUp(p) ==
    /\ Answered(p, FALSE)
    /\ UNCHANGED <<now, cell, hand, setBack>>

Crash(p) ==
    /\ hand' = [hand EXCEPT ![p] = NoEntry]
    /\ Answered(p, FALSE)
    /\ UNCHANGED <<now, cell, setBack>>

Tick == now' = now + 1 /\ UNCHANGED <<cell, refused, unread, served, hand, setBack>>

\* What was said of the cell before may now be wrong.
StepBack ==
    /\ now' \in Nat /\ now' < now
    /\ setBack' = TRUE
    /\ UNCHANGED <<cell, refused, unread, served, hand>>

Next ==
    \/ Tick \/ StepBack
    \/ \E p \in Proc : Ask(p) \/ CannotRead(p) \/ Serve(p) \/ Renew(p) \/ GiveUp(p) \/ Crash(p)

Spec == Init /\ [][Next]_vars
==============================================================================
