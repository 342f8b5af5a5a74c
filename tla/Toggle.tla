------------------------------- MODULE Toggle -------------------------------
(***************************************************************************)
(* monitor.PauseCheck and ResumeCheck (ADR 0003): read the check, flip it   *)
(* with one PUT that names no target, confirm by reading.  toggleMu         *)
(* serializes the calls of one Client; other Clients, a person at the       *)
(* console and a PUT that lands late do not see it.                         *)
(*                                                                         *)
(* A PUT with Once leaves at most once: TransportClient shows it, so here   *)
(* it is one message that lands or is dropped.                              *)
(***************************************************************************)
EXTENDS Naturals, FiniteSets

CONSTANTS
    Op,          \* calls of PauseCheck and ResumeCheck on one check
    ClientOf,    \* the Client each call is made on
    Target,      \* "ENABLED" for ResumeCheck, "DISABLED" for PauseCheck
    NoOp,        \* toggleMu is free
    MaxReads,    \* Len(confirmWaits), four
    MaxForeign,  \* bound: status changes by others
    LateLanding  \* the service may act on a PUT after the call gave up on it

Known == {"ENABLED", "DISABLED"}
Status == Known \cup {"OTHER"}

ASSUME ToggleAssumption ==
    /\ NoOp \notin Op
    /\ Target \in [Op -> Known]
    /\ MaxReads \in Nat \ {0} /\ MaxForeign \in Nat
    /\ LateLanding \in BOOLEAN

Client == {ClientOf[o] : o \in Op}

VARIABLES
    status,   \* the check's status at the service
    transit,  \* calls whose PUT is on its way to the service
    acted,    \* calls whose PUT flipped the check
    late,     \* those whose call had given up on the PUT by then
    foreign,  \* changes others made so far
    mu,       \* toggleMu of each Client
    pc,
    read,     \* the status a call read before its PUT
    reads,    \* confirm reads done
    result

vars == <<status, transit, acted, late, foreign, mu, pc, read, reads, result>>

PC == {"idle", "read", "put", "wait", "confirm", "done"}
Result == {"none", "readFailed", "unchanged", "unexpected", "refused", "changed", "unconfirmed"}

TypeOK ==
    /\ status \in Status
    /\ transit \subseteq Op /\ acted \subseteq Op /\ late \subseteq acted
    /\ foreign \in 0..MaxForeign
    /\ mu \in [Client -> Op \cup {NoOp}]
    /\ pc \in [Op -> PC]
    /\ read \in [Op -> Status]
    /\ reads \in [Op -> 0..MaxReads]
    /\ result \in [Op -> Result]

Init ==
    /\ status \in Status
    /\ transit = {} /\ acted = {} /\ late = {}
    /\ foreign = 0
    /\ mu = [c \in Client |-> NoOp]
    /\ pc = [o \in Op |-> "idle"]
    /\ read = [o \in Op |-> "OTHER"]
    /\ reads = [o \in Op |-> 0]
    /\ result = [o \in Op |-> "none"]

-----------------------------------------------------------------------------
Flipped(s) == CASE s = "ENABLED" -> "DISABLED" [] s = "DISABLED" -> "ENABLED" [] OTHER -> s

Goto(o, where) == pc' = [pc EXCEPT ![o] = where]

\* The call returns and its deferred unlock runs.
Return(o, r) ==
    /\ Goto(o, "done")
    /\ result' = [result EXCEPT ![o] = r]
    /\ mu' = [mu EXCEPT ![ClientOf[o]] = NoOp]

\* Mutated Lock: toggleMu is not taken.
LockNothing(o) ==
    /\ pc[o] = "idle"
    /\ Goto(o, "read")
    /\ UNCHANGED <<status, transit, acted, late, foreign, mu, read, reads, result>>

\* toggleMu, before anything is read.
Lock(o) ==
    /\ pc[o] = "idle" /\ mu[ClientOf[o]] = NoOp
    /\ mu' = [mu EXCEPT ![ClientOf[o]] = o]
    /\ Goto(o, "read")
    /\ UNCHANGED <<status, transit, acted, late, foreign, read, reads, result>>

\* The pre-toggle read: nothing is sent at the target or at an unknown status.
ReadFirst(o) ==
    /\ pc[o] = "read"
    /\ read' = [read EXCEPT ![o] = status]
    /\ \/ status = Target[o] /\ Return(o, "unchanged")
       \/ status \notin Known /\ Return(o, "unexpected")
       \/ /\ status \in Known \ {Target[o]}
          /\ Goto(o, "put")
          /\ UNCHANGED <<mu, result>>
    /\ UNCHANGED <<status, transit, acted, late, foreign, reads>>

ReadFails(o) ==
    /\ pc[o] = "read"
    /\ Return(o, "readFailed")
    /\ UNCHANGED <<status, transit, acted, late, foreign, read, reads>>

SendToggle(o) ==
    /\ pc[o] = "put"
    /\ transit' = transit \cup {o}
    /\ Goto(o, "wait")
    /\ UNCHANGED <<status, acted, late, foreign, mu, read, reads, result>>

\* Mutated PutRefused: every error of the PUT is returned as it is.
PutRefusedByAny(o) ==
    /\ pc[o] = "wait"
    /\ Return(o, "refused")
    /\ UNCHANGED <<status, transit, acted, late, foreign, read, reads>>

\* A 4xx or a failed dial: serverDidNotAct, the call returns that error.
PutRefused(o) ==
    /\ pc[o] = "wait" /\ o \notin transit /\ o \notin acted
    /\ Return(o, "refused")
    /\ UNCHANGED <<status, transit, acted, late, foreign, read, reads>>

\* A 2xx.
PutAnswered(o) ==
    /\ pc[o] = "wait" /\ o \in acted
    /\ Goto(o, "confirm")
    /\ UNCHANGED <<status, transit, acted, late, foreign, mu, read, reads, result>>

\* A 5xx, a network error, an ended context: the PUT may or may not have
\* landed, and with LateLanding it may still land.
PutAmbiguous(o) ==
    /\ pc[o] = "wait" /\ (LateLanding \/ o \notin transit)
    /\ Goto(o, "confirm")
    /\ UNCHANGED <<status, transit, acted, late, foreign, mu, read, reads, result>>

\* One confirm read, which may fail; the last one without the target ends the
\* call unconfirmed.
Confirm(o) ==
    /\ pc[o] = "confirm"
    /\ reads' = [reads EXCEPT ![o] = @ + 1]
    /\ \/ status = Target[o] /\ Return(o, "changed")
       \/ reads[o] + 1 = MaxReads /\ Return(o, "unconfirmed")
       \/ reads[o] + 1 < MaxReads /\ UNCHANGED <<pc, mu, result>>
    /\ UNCHANGED <<status, transit, acted, late, foreign, read>>

\* The context ends during a wait between confirm reads.
ConfirmCut(o) ==
    /\ pc[o] = "confirm" /\ reads[o] > 0
    /\ Return(o, "unconfirmed")
    /\ UNCHANGED <<status, transit, acted, late, foreign, read, reads>>

-----------------------------------------------------------------------------
\* The service acts on a PUT, or the PUT is refused or lost.
Land(o) ==
    /\ o \in transit
    /\ transit' = transit \ {o}
    /\ acted' = acted \cup {o}
    /\ late' = IF pc[o] = "wait" THEN late ELSE late \cup {o}
    /\ status' = Flipped(status)
    /\ UNCHANGED <<foreign, mu, pc, read, reads, result>>

Drop(o) ==
    /\ o \in transit
    /\ transit' = transit \ {o}
    /\ UNCHANGED <<status, acted, late, foreign, mu, pc, read, reads, result>>

\* A person or another program sets the status.
Foreign(s) ==
    /\ foreign < MaxForeign /\ s # status
    /\ status' = s /\ foreign' = foreign + 1
    /\ UNCHANGED <<transit, acted, late, mu, pc, read, reads, result>>

AllReturned ==
    /\ \A o \in Op : pc[o] = "done"
    /\ transit = {}
    /\ UNCHANGED vars

OpStep(o) ==
    \/ Lock(o) \/ ReadFirst(o) \/ ReadFails(o) \/ SendToggle(o)
    \/ PutRefused(o) \/ PutAnswered(o) \/ PutAmbiguous(o)
    \/ Confirm(o) \/ ConfirmCut(o)

Next ==
    \/ \E o \in Op : OpStep(o) \/ Land(o) \/ Drop(o)
    \/ \E s \in Status : Foreign(s)
    \/ AllReturned

Spec == Init /\ [][Next]_vars

-----------------------------------------------------------------------------
\* Properties.

\* A toggle moves the check to its call's target and never away from it, as
\* long as only calls of one Client wrote so far and no PUT outlived its call:
\* toggleMu keeps the status the call read current until its PUT lands.
FlipReachesTarget ==
    [][\A o \in acted' \ acted :
         /\ foreign = 0 /\ late' = {}
         /\ \A p \in acted' : ClientOf[p] = ClientOf[o]
         => status' = Target[o]]_vars

\* An error that is not ErrStatusUnconfirmed, and "no change", promise that the
\* call did not flip the check and never will, whatever others do.
ErrorMeansUntouched ==
    \A o \in Op :
        result[o] \in {"readFailed", "unchanged", "unexpected", "refused"}
        => o \notin acted /\ o \notin transit
=============================================================================
