----------------------------- MODULE ToggleProofs -----------------------------
(***************************************************************************)
(* Toggle for any number of calls, Clients, confirm reads and foreign       *)
(* changes.  PlaceInv says where a call is that holds toggleMu or has sent  *)
(* its PUT; StandsInv that the status a call means to flip stands until its *)
(* PUT lands, unless somebody outside the Client's mutex wrote.             *)
(***************************************************************************)
EXTENDS Toggle, TLAPS

Inside == {"read", "put", "wait", "confirm"}

MutexInv == \A o \in Op : pc[o] \in Inside => mu[ClientOf[o]] = o

\* Only a call that sent its PUT has one at the service.
SentInv ==
    /\ transit \cap acted = {}
    /\ \A o \in transit \cup acted : pc[o] \in {"wait", "confirm", "done"}

NoEarlyResult == \A o \in Op : pc[o] # "done" => result[o] = "none"

PlaceInv == MutexInv /\ SentInv /\ NoEarlyResult /\ ErrorMeansUntouched

\* So far nobody but calls of o's Client wrote, and each while it waited.
Alone(o) ==
    /\ foreign = 0 /\ late = {}
    /\ \A p \in acted : ClientOf[p] = ClientOf[o]

StandsInv ==
    \A o \in Op :
        pc[o] \in {"put", "wait"} /\ o \notin acted /\ Alone(o)
        => status \in Known \ {Target[o]}

\* A call that goes on reading has a confirm read left.
ReadsLeft == \A o \in Op : pc[o] # "done" => reads[o] < MaxReads

IInv == TypeOK /\ ReadsLeft /\ PlaceInv /\ StandsInv

-----------------------------------------------------------------------------
LEMMA TypeInit == Init => TypeOK
<1>1. "idle" \in PC /\ "none" \in Result /\ "OTHER" \in Status
    BY DEF PC, Result, Status
<1> QED
    BY <1>1, ToggleAssumption DEF Init, TypeOK

LEMMA FlipType == ASSUME NEW s \in Status PROVE Flipped(s) \in Status
BY DEF Flipped, Status, Known

LEMMA TypeStep == TypeOK /\ ReadsLeft /\ [Next]_vars => TypeOK'
<1> SUFFICES ASSUME TypeOK, ReadsLeft, [Next]_vars PROVE TypeOK'
    OBVIOUS
<1> USE ToggleAssumption
<1>1. CASE UNCHANGED vars
    BY <1>1 DEF vars, TypeOK
<1>2. ASSUME NEW o \in Op, OpStep(o) PROVE TypeOK'
    <2>p. Inside \subseteq PC /\ "done" \in PC
        BY DEF Inside, PC
    <2>i. Inside = {"read", "put", "wait", "confirm"}
        BY DEF Inside
    <2>n. {"readFailed", "unchanged", "unexpected", "refused", "changed", "unconfirmed"} \subseteq Result
        BY DEF Result
    <2>c. ClientOf[o] \in Client
        BY DEF Client
    <2>r. ASSUME NEW r \in Result, Return(o, r)
          PROVE  pc' \in [Op -> PC] /\ result' \in [Op -> Result] /\ mu' \in [Client -> Op \cup {NoOp}]
        BY <2>r, <2>p, <2>c DEF Return, Goto, TypeOK
    <2>1. CASE Lock(o)
        BY <2>1, <2>p, <2>i DEF Lock, Goto, TypeOK
    <2>2. CASE ReadFirst(o)
        BY <2>2, <2>p, <2>i, <2>n, <2>r DEF ReadFirst, Goto, TypeOK
    <2>3. CASE ReadFails(o)
        BY <2>3, <2>n, <2>r DEF ReadFails, TypeOK
    <2>4. CASE SendToggle(o)
        BY <2>4, <2>p, <2>i DEF SendToggle, Goto, TypeOK
    <2>5. CASE PutRefused(o)
        BY <2>5, <2>n, <2>r DEF PutRefused, TypeOK
    <2>6. CASE PutAnswered(o)
        BY <2>6, <2>p, <2>i DEF PutAnswered, Goto, TypeOK
    <2>7. CASE PutAmbiguous(o)
        BY <2>7, <2>p, <2>i DEF PutAmbiguous, Goto, TypeOK
    <2>8. CASE Confirm(o)
        <3>1. reads' \in [Op -> 0..MaxReads]
            <4>1. reads[o] + 1 \in 0..MaxReads
                BY <2>8 DEF Confirm, TypeOK, ReadsLeft
            <4> QED
                BY <2>8, <4>1 DEF Confirm, TypeOK
        <3>2. UNCHANGED <<status, transit, acted, late, foreign, read>>
            BY <2>8 DEF Confirm
        <3>3. pc' \in [Op -> PC] /\ result' \in [Op -> Result] /\ mu' \in [Client -> Op \cup {NoOp}]
            BY <2>8, <2>n, <2>r DEF Confirm, TypeOK
        <3> QED
            BY <3>1, <3>2, <3>3 DEF TypeOK
    <2>9. CASE ConfirmCut(o)
        BY <2>9, <2>n, <2>r DEF ConfirmCut, TypeOK
    <2> QED
        BY <1>2, <2>1, <2>2, <2>3, <2>4, <2>5, <2>6, <2>7, <2>8, <2>9 DEF OpStep
<1>3. ASSUME NEW o \in Op, Land(o) PROVE TypeOK'
    BY <1>3, FlipType DEF Land, TypeOK
<1>4. ASSUME NEW o \in Op, Drop(o) PROVE TypeOK'
    BY <1>4 DEF Drop, TypeOK
<1>5. ASSUME NEW s \in Status, Foreign(s) PROVE TypeOK'
    BY <1>5 DEF Foreign, TypeOK
<1> QED
    BY <1>1, <1>2, <1>3, <1>4, <1>5 DEF Next, AllReturned

LEMMA ReadsInit == Init => ReadsLeft
BY ToggleAssumption DEF Init, ReadsLeft

LEMMA ReadsStep == TypeOK /\ ReadsLeft /\ [Next]_vars => ReadsLeft'
<1> SUFFICES ASSUME TypeOK, ReadsLeft, [Next]_vars PROVE ReadsLeft'
    OBVIOUS
<1> USE ToggleAssumption DEF ReadsLeft
<1>1. CASE UNCHANGED <<pc, reads>>
    BY <1>1
<1>2. ASSUME NEW o \in Op, OpStep(o) PROVE ReadsLeft'
    <2>1. CASE Lock(o)
        BY <2>1 DEF Lock, Return, Goto, TypeOK
    <2>2. CASE ReadFirst(o)
        BY <2>2 DEF ReadFirst, Return, Goto, TypeOK
    <2>3. CASE ReadFails(o)
        BY <2>3 DEF ReadFails, Return, Goto, TypeOK
    <2>4. CASE SendToggle(o)
        BY <2>4 DEF SendToggle, Return, Goto, TypeOK
    <2>5. CASE PutRefused(o)
        BY <2>5 DEF PutRefused, Return, Goto, TypeOK
    <2>6. CASE PutAnswered(o)
        BY <2>6 DEF PutAnswered, Return, Goto, TypeOK
    <2>7. CASE PutAmbiguous(o)
        BY <2>7 DEF PutAmbiguous, Return, Goto, TypeOK
    <2>8. CASE Confirm(o)
        BY <2>8 DEF Confirm, Return, Goto, TypeOK
    <2>9. CASE ConfirmCut(o)
        BY <2>9 DEF ConfirmCut, Return, Goto, TypeOK
    <2> QED
        BY <1>2, <2>1, <2>2, <2>3, <2>4, <2>5, <2>6, <2>7, <2>8, <2>9 DEF OpStep
<1> QED
    BY <1>1, <1>2 DEF Next, Land, Drop, Foreign, AllReturned, vars

\* Every reachable state is well typed: no call does more than MaxReads
\* confirm reads.
THEOREM TypeCorrect == Spec => []TypeOK
<1>1. Init => TypeOK /\ ReadsLeft
    BY TypeInit, ReadsInit
<1>2. TypeOK /\ ReadsLeft /\ [Next]_vars => (TypeOK /\ ReadsLeft)'
    BY TypeStep, ReadsStep
<1> QED
    BY <1>1, <1>2, PTL DEF Spec

-----------------------------------------------------------------------------
LEMMA PlaceInit == Init => PlaceInv
BY DEF Init, PlaceInv, MutexInv, SentInv, NoEarlyResult, ErrorMeansUntouched, Inside

\* Two calls of one Client are never both inside.
LEMMA OneInside ==
    ASSUME MutexInv, NEW o \in Op, NEW p \in Op, pc[o] \in Inside, pc[p] \in Inside,
           ClientOf[o] = ClientOf[p]
    PROVE  o = p
BY DEF MutexInv

\* A step of one call leaves the others where they are, and writes nothing.
LEMMA OthersStay ==
    ASSUME NEW o \in Op, OpStep(o), TypeOK
    PROVE  /\ \A p \in Op \ {o} : pc'[p] = pc[p] /\ result'[p] = result[p]
           /\ UNCHANGED <<status, acted, late, foreign>>
<1>1. CASE Lock(o)
    BY <1>1 DEF Lock, Return, Goto, TypeOK
<1>2. CASE ReadFirst(o)
    BY <1>2 DEF ReadFirst, Return, Goto, TypeOK
<1>3. CASE ReadFails(o)
    BY <1>3 DEF ReadFails, Return, Goto, TypeOK
<1>4. CASE SendToggle(o)
    BY <1>4 DEF SendToggle, Return, Goto, TypeOK
<1>5. CASE PutRefused(o)
    BY <1>5 DEF PutRefused, Return, Goto, TypeOK
<1>6. CASE PutAnswered(o)
    BY <1>6 DEF PutAnswered, Return, Goto, TypeOK
<1>7. CASE PutAmbiguous(o)
    BY <1>7 DEF PutAmbiguous, Return, Goto, TypeOK
<1>8. CASE Confirm(o)
    BY <1>8 DEF Confirm, Return, Goto, TypeOK
<1>9. CASE ConfirmCut(o)
    BY <1>9 DEF ConfirmCut, Return, Goto, TypeOK
<1> QED
    BY <1>1, <1>2, <1>3, <1>4, <1>5, <1>6, <1>7, <1>8, <1>9 DEF OpStep

LEMMA PlaceStep == TypeOK /\ PlaceInv /\ [Next]_vars => PlaceInv'
<1> SUFFICES ASSUME TypeOK, PlaceInv, [Next]_vars PROVE PlaceInv'
    OBVIOUS
<1> USE ToggleAssumption DEF PlaceInv
<1>1. CASE UNCHANGED vars
    BY <1>1 DEF vars, MutexInv, SentInv, NoEarlyResult, ErrorMeansUntouched
<1>2. ASSUME NEW o \in Op, OpStep(o) PROVE PlaceInv'
    <2>a. \A p \in Op \ {o} : pc'[p] = pc[p] /\ result'[p] = result[p]
        BY <1>2, OthersStay
    <2>b. \A p \in Op \ {o} : pc[o] \in Inside /\ pc[p] \in Inside => ClientOf[p] # ClientOf[o]
        BY OneInside
    <2>c. \A p \in Op : ClientOf[p] \in Client
        BY DEF Client
    <2>1. MutexInv'
        <3>1. CASE Lock(o)
            BY <3>1, <2>a, <2>b, <2>c DEF Lock, Return, Goto, TypeOK, MutexInv, Inside
        <3>2. CASE ReadFirst(o)
            BY <3>2, <2>a, <2>b, <2>c DEF ReadFirst, Return, Goto, TypeOK, MutexInv, Inside
        <3>3. CASE ReadFails(o)
            BY <3>3, <2>a, <2>b, <2>c DEF ReadFails, Return, Goto, TypeOK, MutexInv, Inside
        <3>4. CASE SendToggle(o)
            BY <3>4, <2>a, <2>b, <2>c DEF SendToggle, Return, Goto, TypeOK, MutexInv, Inside
        <3>5. CASE PutRefused(o)
            BY <3>5, <2>a, <2>b, <2>c DEF PutRefused, Return, Goto, TypeOK, MutexInv, Inside
        <3>6. CASE PutAnswered(o)
            BY <3>6, <2>a, <2>b, <2>c DEF PutAnswered, Return, Goto, TypeOK, MutexInv, Inside
        <3>7. CASE PutAmbiguous(o)
            BY <3>7, <2>a, <2>b, <2>c DEF PutAmbiguous, Return, Goto, TypeOK, MutexInv, Inside
        <3>8. CASE Confirm(o)
            BY <3>8, <2>a, <2>b, <2>c DEF Confirm, Return, Goto, TypeOK, MutexInv, Inside
        <3>9. CASE ConfirmCut(o)
            BY <3>9, <2>a, <2>b, <2>c DEF ConfirmCut, Return, Goto, TypeOK, MutexInv, Inside
        <3> QED
            BY <1>2, <3>1, <3>2, <3>3, <3>4, <3>5, <3>6, <3>7, <3>8, <3>9 DEF OpStep
    <2>2. SentInv'
        <3>1. CASE Lock(o)
            BY <3>1, <2>a DEF Lock, Return, Goto, TypeOK, SentInv
        <3>2. CASE ReadFirst(o)
            BY <3>2, <2>a DEF ReadFirst, Return, Goto, TypeOK, SentInv
        <3>3. CASE ReadFails(o)
            BY <3>3, <2>a DEF ReadFails, Return, Goto, TypeOK, SentInv
        <3>4. CASE SendToggle(o)
            BY <3>4, <2>a DEF SendToggle, Return, Goto, TypeOK, SentInv
        <3>5. CASE PutRefused(o)
            BY <3>5, <2>a DEF PutRefused, Return, Goto, TypeOK, SentInv
        <3>6. CASE PutAnswered(o)
            BY <3>6, <2>a DEF PutAnswered, Return, Goto, TypeOK, SentInv
        <3>7. CASE PutAmbiguous(o)
            BY <3>7, <2>a DEF PutAmbiguous, Return, Goto, TypeOK, SentInv
        <3>8. CASE Confirm(o)
            BY <3>8, <2>a DEF Confirm, Return, Goto, TypeOK, SentInv
        <3>9. CASE ConfirmCut(o)
            BY <3>9, <2>a DEF ConfirmCut, Return, Goto, TypeOK, SentInv
        <3> QED
            BY <1>2, <3>1, <3>2, <3>3, <3>4, <3>5, <3>6, <3>7, <3>8, <3>9 DEF OpStep
    <2>3. NoEarlyResult'
        <3>1. CASE Lock(o)
            BY <3>1, <2>a DEF Lock, Return, Goto, TypeOK, NoEarlyResult
        <3>2. CASE ReadFirst(o)
            BY <3>2, <2>a DEF ReadFirst, Return, Goto, TypeOK, NoEarlyResult
        <3>3. CASE ReadFails(o)
            BY <3>3, <2>a DEF ReadFails, Return, Goto, TypeOK, NoEarlyResult
        <3>4. CASE SendToggle(o)
            BY <3>4, <2>a DEF SendToggle, Return, Goto, TypeOK, NoEarlyResult
        <3>5. CASE PutRefused(o)
            BY <3>5, <2>a DEF PutRefused, Return, Goto, TypeOK, NoEarlyResult
        <3>6. CASE PutAnswered(o)
            BY <3>6, <2>a DEF PutAnswered, Return, Goto, TypeOK, NoEarlyResult
        <3>7. CASE PutAmbiguous(o)
            BY <3>7, <2>a DEF PutAmbiguous, Return, Goto, TypeOK, NoEarlyResult
        <3>8. CASE Confirm(o)
            BY <3>8, <2>a DEF Confirm, Return, Goto, TypeOK, NoEarlyResult
        <3>9. CASE ConfirmCut(o)
            BY <3>9, <2>a DEF ConfirmCut, Return, Goto, TypeOK, NoEarlyResult
        <3> QED
            BY <1>2, <3>1, <3>2, <3>3, <3>4, <3>5, <3>6, <3>7, <3>8, <3>9 DEF OpStep
    <2>4. ErrorMeansUntouched'
        <3>1. CASE Lock(o)
            BY <3>1, <2>a DEF Lock, Return, Goto, TypeOK, SentInv, NoEarlyResult, ErrorMeansUntouched
        <3>2. CASE ReadFirst(o)
            BY <3>2, <2>a DEF ReadFirst, Return, Goto, TypeOK, SentInv, NoEarlyResult, ErrorMeansUntouched
        <3>3. CASE ReadFails(o)
            BY <3>3, <2>a DEF ReadFails, Return, Goto, TypeOK, SentInv, NoEarlyResult, ErrorMeansUntouched
        <3>4. CASE SendToggle(o)
            BY <3>4, <2>a DEF SendToggle, Return, Goto, TypeOK, SentInv, NoEarlyResult, ErrorMeansUntouched
        <3>5. CASE PutRefused(o)
            BY <3>5, <2>a DEF PutRefused, Return, Goto, TypeOK, SentInv, NoEarlyResult, ErrorMeansUntouched
        <3>6. CASE PutAnswered(o)
            BY <3>6, <2>a DEF PutAnswered, Return, Goto, TypeOK, SentInv, NoEarlyResult, ErrorMeansUntouched
        <3>7. CASE PutAmbiguous(o)
            BY <3>7, <2>a DEF PutAmbiguous, Return, Goto, TypeOK, SentInv, NoEarlyResult, ErrorMeansUntouched
        <3>8. CASE Confirm(o)
            BY <3>8, <2>a DEF Confirm, Return, Goto, TypeOK, SentInv, NoEarlyResult, ErrorMeansUntouched
        <3>9. CASE ConfirmCut(o)
            BY <3>9, <2>a DEF ConfirmCut, Return, Goto, TypeOK, SentInv, NoEarlyResult, ErrorMeansUntouched
        <3> QED
            BY <1>2, <3>1, <3>2, <3>3, <3>4, <3>5, <3>6, <3>7, <3>8, <3>9 DEF OpStep
    <2> QED
        BY <2>1, <2>2, <2>3, <2>4
<1>3. ASSUME NEW o \in Op, Land(o) \/ Drop(o) PROVE PlaceInv'
    BY <1>3 DEF Land, Drop, TypeOK, MutexInv, SentInv, NoEarlyResult, ErrorMeansUntouched
<1>4. ASSUME NEW s \in Status, Foreign(s) PROVE PlaceInv'
    BY <1>4 DEF Foreign, MutexInv, SentInv, NoEarlyResult, ErrorMeansUntouched
<1> QED
    BY <1>1, <1>2, <1>3, <1>4 DEF Next, AllReturned

-----------------------------------------------------------------------------
LEMMA StandsStep == TypeOK /\ PlaceInv /\ StandsInv /\ [Next]_vars => StandsInv'
<1> SUFFICES ASSUME TypeOK, PlaceInv, StandsInv, [Next]_vars,
                    NEW o \in Op, pc'[o] \in {"put", "wait"}, o \notin acted', Alone(o)'
             PROVE  status' \in Known \ {Target[o]}
    BY DEF StandsInv
<1>1. CASE UNCHANGED vars
    BY <1>1 DEF vars, StandsInv, Alone
<1>2. ASSUME NEW p \in Op, OpStep(p) PROVE status' \in Known \ {Target[o]}
    <2>1. UNCHANGED <<status, acted, late, foreign>> /\ Alone(o)
        BY <1>2, OthersStay DEF Alone
    <2>2. CASE pc[o] \in {"put", "wait"}
        BY <2>1, <2>2 DEF StandsInv
    <2>3. CASE pc[o] \notin {"put", "wait"}
        <3>1. p = o
            BY <1>2, <2>3, OthersStay
        <3>2. ReadFirst(o)
            BY <1>2, <2>3, <3>1 DEF OpStep, Lock, ReadFails, SendToggle, PutRefused, PutAnswered,
                PutAmbiguous, Confirm, ConfirmCut, Return, Goto, TypeOK
        <3>3. status \in Known \ {Target[o]}
            BY <3>2 DEF ReadFirst, Return, Goto, TypeOK
        <3> QED
            BY <2>1, <3>3
    <2> QED
        BY <2>2, <2>3
<1>3. ASSUME NEW p \in Op, Land(p) PROVE status' \in Known \ {Target[o]}
    <2>1. p # o /\ pc[o] \in Inside
        BY <1>3 DEF Land, Inside
    <2>2. pc[p] = "wait"
        BY <1>3 DEF Land, Alone
    <2>3. ClientOf[p] = ClientOf[o]
        BY <1>3 DEF Land, Alone
    <2> QED
        BY <2>1, <2>2, <2>3, OneInside DEF PlaceInv, Inside
<1>4. ASSUME NEW p \in Op, Drop(p) PROVE status' \in Known \ {Target[o]}
    BY <1>4 DEF Drop, StandsInv, Alone
<1>5. ASSUME NEW s \in Status, Foreign(s) PROVE status' \in Known \ {Target[o]}
    BY <1>5 DEF Foreign, Alone, TypeOK
<1> QED
    BY <1>1, <1>2, <1>3, <1>4, <1>5 DEF Next, AllReturned, vars

LEMMA FlipStep ==
    TypeOK /\ PlaceInv /\ StandsInv /\ [Next]_vars =>
        [\A o \in acted' \ acted :
         /\ foreign = 0 /\ late' = {}
         /\ \A p \in acted' : ClientOf[p] = ClientOf[o]
         => status' = Target[o]]_vars
<1> SUFFICES ASSUME TypeOK, PlaceInv, StandsInv, Next, NEW o \in acted' \ acted,
                    foreign = 0, late' = {}, \A p \in acted' : ClientOf[p] = ClientOf[o]
             PROVE  status' = Target[o]
    OBVIOUS
<1>1. o \in Op /\ Land(o)
    BY DEF Next, OpStep, Lock, ReadFirst, ReadFails, SendToggle, PutRefused, PutAnswered,
           PutAmbiguous, Confirm, ConfirmCut, Land, Drop, Foreign, AllReturned, vars
<1>2. pc[o] = "wait" /\ Alone(o)
    BY <1>1 DEF Land, Alone
<1>3. status \in Known \ {Target[o]} /\ Target[o] \in Known
    BY <1>1, <1>2, ToggleAssumption DEF StandsInv
<1> QED
    BY <1>1, <1>3 DEF Land, Flipped, Known

-----------------------------------------------------------------------------
\* The invariant of the toggle, for any number of calls and Clients.
THEOREM ToggleCorrect == Spec => []IInv
<1>1. Init => IInv
    BY TypeInit, ReadsInit, PlaceInit DEF IInv, StandsInv, Init
<1>2. IInv /\ [Next]_vars => IInv'
    BY TypeStep, ReadsStep, PlaceStep, StandsStep DEF IInv
<1> QED
    BY <1>1, <1>2, PTL DEF Spec

\* An error other than ErrStatusUnconfirmed, and "no change", mean that the
\* call did not flip the check and never will.
THEOREM ErrorCorrect == Spec => []ErrorMeansUntouched
<1>1. IInv => ErrorMeansUntouched
    BY DEF IInv, PlaceInv
<1> QED
    BY <1>1, ToggleCorrect, PTL

\* A toggle reaches its target as long as only its own Client wrote.
THEOREM FlipCorrect == Spec => FlipReachesTarget
<1>1. IInv /\ [Next]_vars =>
        [\A o \in acted' \ acted :
         /\ foreign = 0 /\ late' = {}
         /\ \A p \in acted' : ClientOf[p] = ClientOf[o]
         => status' = Target[o]]_vars
    BY FlipStep DEF IInv
<1> QED
    BY <1>1, ToggleCorrect, PTL DEF Spec, FlipReachesTarget
=============================================================================
