------------------------ MODULE TransportClientProofs ------------------------
(***************************************************************************)
(* Safety of TransportClient for every number of calls, every token set,   *)
(* every retry count and every choice of request shapes.  The invariant is *)
(* split in four: types, the rounds of attempts, the shared slot and lock,  *)
(* and each call's effect at the server; types and rounds are inductive    *)
(* together, the other two relative to them.                               *)
(***************************************************************************)
EXTENDS TransportClient, TLAPS

\* The attempts of the round before the 401 recovery, all of them spent.
FirstRound(c) == IF recovered[c] THEN RetryCount + 1 ELSE 0

\* A call between two attempts of a round has sent one per attempt index.
SendsProgress(c) ==
    /\ pc[c] \in {"idle", "ensure", "lockEnsure"} => sends[c] = 0
    /\ pc[c] \in {"fetch", "lock401", "invalidate"} => sends[c] <= FirstRound(c)
    /\ pc[c] = "attempt" => sends[c] <= FirstRound(c) + attempt[c]
    /\ pc[c] \in {"flight", "sleep"} => sends[c] <= FirstRound(c) + attempt[c] + 1
    /\ pc[c] = "sleep" => attempt[c] < RetryCount
    /\ sends[c] <= 2 * (RetryCount + 1)

SendsInv == \A c \in Call : SendsProgress(c)

\* A call in recovery sent a token the server answered 401 to.
RejectionSeen ==
    \A c \in Call :
        pc[c] \in {"lock401", "lockOnce", "invalidate", "invalidateOnce"} =>
            sent[c] \in rejected /\ req[c].uses

\* The source is asked for a token only when the slot's token is bad.
FetchJustified ==
    \A c \in Call : pc[c] = "fetch" => NeedsRefresh(slot) \/ slot.tok \in rejected

SharedInv ==
    /\ LockInv
    /\ EnsuredHasToken
    /\ RejectionSeen
    /\ InvalidatesOnlyCurrent
    /\ FetchJustified

\* Where a Once call can be before its only attempt, and nowhere after it.
BeforeSend == {"idle", "ensure", "lockEnsure", "fetch", "attempt"}

OnceProgress(c) ==
    req[c].once =>
        /\ pc[c] \notin {"sleep", "lock401", "invalidate"}
        /\ attempt[c] = 0 /\ ~recovered[c]
        /\ sends[c] <= 1
        /\ pc[c] \in BeforeSend => sends[c] = 0

\* Calls whose retries must not repeat an effect.
Careful(c) == (req[c].once \/ ~req[c].idem) /\ ~redirected[c]

CarefulProgress(c) ==
    Careful(c) =>
        /\ acted[c] <= 1
        /\ pc[c] # "done" \/ result[c].retryable => acted[c] = 0

SafeProgress(c) ==
    /\ safe[c] \/ result[c].notSent => ~reached[c]
    /\ pc[c] # "done" => ~result[c].retryable /\ ~result[c].notSent

EffectInv ==
    \A c \in Call : OnceProgress(c) /\ CarefulProgress(c) /\ SafeProgress(c)

-----------------------------------------------------------------------------
LEMMA TypeInit == Init => TypeOK
BY ConstantsAssumption DEF Init, TypeOK, Slot, Result, Kind, PC

\* The three ways a call moves on keep pc and result in their types.
LEMMA GotoType ==
    ASSUME TypeOK, NEW c \in Call, NEW where \in PC, Goto(c, where)
    PROVE  pc' \in [Call -> PC]
BY DEF TypeOK, Goto

LEMMA FailType ==
    ASSUME TypeOK, NEW c \in Call, NEW retryable \in BOOLEAN, NEW isSafe \in BOOLEAN,
           Fail(c, retryable, isSafe)
    PROVE  pc' \in [Call -> PC] /\ result' \in [Call -> Result]
<1>1. [kind |-> "error", retryable |-> retryable, notSent |-> isSafe] \in Result
    BY DEF Result, Kind
<1>2. pc' \in [Call -> PC]
    BY GotoType DEF Fail, PC
<1> QED
    BY <1>1, <1>2 DEF Fail, TypeOK

LEMMA AnswerType ==
    ASSUME TypeOK, NEW c \in Call, NEW kind \in Kind, Answer(c, kind)
    PROVE  pc' \in [Call -> PC] /\ result' \in [Call -> Result]
<1>1. RetryableStatusOf(req[c], kind) \in BOOLEAN
    BY DEF RetryableStatusOf
<1>2. [kind |-> kind, retryable |-> RetryableStatusOf(req[c], kind), notSent |-> FALSE] \in Result
    BY <1>1 DEF Result
<1>3. pc' \in [Call -> PC]
    BY GotoType DEF Answer, PC
<1> QED
    BY <1>2, <1>3 DEF Answer, TypeOK

\* Effect keeps its history variables in their types.
LEMMA EffectType ==
    ASSUME TypeOK, NEW c \in Call, NEW act \in 0..1, NEW hop \in BOOLEAN, Effect(c, act, hop)
    PROVE  acted' \in [Call -> Nat] /\ redirected' \in [Call -> BOOLEAN]
<1>1. acted[c] + act \in Nat /\ (redirected[c] \/ hop) \in BOOLEAN
    BY DEF TypeOK
<1> QED
    BY <1>1 DEF Effect, TypeOK

LEMMA RequestShape ==
    ASSUME TypeOK, NEW c \in Call
    PROVE  /\ req[c] \in Request
           /\ req[c].once \in BOOLEAN /\ req[c].idem \in BOOLEAN
           /\ req[c].uses \in BOOLEAN /\ req[c].noRedirect \in BOOLEAN
           /\ req[c].once => req[c].noRedirect
<1>1. req \in Requests
    BY DEF TypeOK
<1>2. req[c] \in Request /\ (req[c].once => req[c].noRedirect)
    BY <1>1, ConstantsAssumption
<1> QED
    BY <1>2 DEF Request

\* Each action keeps every variable in its type; only Wake needs the rounds.
LEMMA TypeStep == TypeOK /\ SendsInv /\ [Next]_vars => TypeOK'
<1> SUFFICES ASSUME TypeOK, SendsInv, [Next]_vars PROVE TypeOK'
    OBVIOUS
<1> USE ConstantsAssumption
<1> DEFINE Ended == pc' \in [Call -> PC] /\ result' \in [Call -> Result]
<1>1. CASE UNCHANGED vars
    BY <1>1 DEF vars, local, history, TypeOK
<1>2. CASE Expire
    BY <1>2 DEF Expire, local, history, Slot, TypeOK
<1>3. ASSUME NEW c \in Call, Cancel(c) PROVE TypeOK'
    BY <1>3 DEF Cancel, history, TypeOK
<1>4. ASSUME NEW c \in Call, CallStep(c) PROVE TypeOK'
    <2>0. safe[c] \in BOOLEAN /\ live[c] \in BOOLEAN
        BY DEF TypeOK
    <2>f. Fail(c, FALSE, safe[c]) => Ended
        BY <2>0, FailType
    <2>g. ASSUME NEW where \in {"ensure", "attempt", "lockEnsure", "fetch", "flight", "sleep",
                                "lockOnce", "lock401", "invalidate", "invalidateOnce"}
          PROVE  Goto(c, where) /\ UNCHANGED result => Ended
        <3>1. where \in PC
            BY DEF PC, Waiting, Holding, Sending
        <3> QED
            BY <3>1, GotoType DEF TypeOK
    <2>a. ASSUME NEW kind \in Status \cup {"r401"} PROVE Answer(c, kind) => Ended
        <3>1. kind \in Kind
            BY DEF Kind, Status
        <3> QED
            BY <3>1, AnswerType
    <2> USE DEF history
    <2>1. CASE Start(c)
        <3>1. Ended
            BY <2>1, <2>g DEF Start
        <3> QED
            BY <2>1, <3>1 DEF Start, TypeOK
    <2>2. CASE EnsureToken(c)
        <3>1. Ended
            BY <2>2, <2>f, <2>g DEF EnsureToken
        <3> QED
            BY <2>2, <3>1 DEF EnsureToken, TypeOK
    <2>3. CASE RefreshSkips(c)
        <3>1. Ended
            BY <2>3, <2>f, <2>g DEF RefreshSkips
        <3> QED
            BY <2>3, <3>1 DEF RefreshSkips, TypeOK
    <2>4. CASE RefreshFetches(c)
        <3>1. Ended
            BY <2>4, <2>g DEF RefreshFetches
        <3> QED
            BY <2>4, <3>1 DEF RefreshFetches, Lock, TypeOK
    <2>5. ASSUME NEW t \in Token, NEW f \in BOOLEAN, FetchCommits(c, t, f) PROVE TypeOK'
        <3>1. Ended
            BY <2>5, <2>g DEF FetchCommits
        <3>2. slot' \in Slot /\ refreshMu' \in Call \cup {NoCall}
            BY <2>5 DEF FetchCommits, Unlock, Slot, TypeOK
        <3>3. attempt' \in [Call -> 0..RetryCount]
            BY <2>5 DEF FetchCommits, TypeOK
        <3> QED
            BY <2>5, <3>1, <3>2, <3>3 DEF FetchCommits, TypeOK
    <2>6. CASE FetchFails(c)
        <3>1. Ended
            BY <2>6, <2>f DEF FetchFails
        <3> QED
            BY <2>6, <3>1 DEF FetchFails, Unlock, TypeOK
    <2>7. CASE Attempt(c)
        <3>1. Ended
            BY <2>7, <2>f, <2>g DEF Attempt
        <3>2. sent' \in [Call -> Token \cup {NoToken}] /\ sends' \in [Call -> Nat]
            <4>1. slot.tok \in Token \cup {NoToken} /\ sends[c] + 1 \in Nat
                BY DEF TypeOK, Slot
            <4>2. \/ UNCHANGED sent
                  \/ sent' = [sent EXCEPT ![c] = slot.tok]
                BY <2>7 DEF Attempt
            <4>3. \/ UNCHANGED sends
                  \/ sends' = [sends EXCEPT ![c] = @ + 1]
                BY <2>7 DEF Attempt
            <4> QED
                BY <4>1, <4>2, <4>3 DEF TypeOK
        <3> QED
            BY <2>7, <3>1, <3>2 DEF Attempt, TypeOK
    <2>8. ASSUME NEW act \in 0..1, NEW hop \in BOOLEAN, NEW dial \in BOOLEAN,
                 DoFails(c, dial, act, hop)
          PROVE  TypeOK'
        <3>1. Ended
            <4> DEFINE safeNow == StillSafe(c, dial, hop)
                       again == LastRetryable(req[c], dial)
            <4>1. safeNow \in BOOLEAN /\ (live[c] /\ again) \in BOOLEAN
                BY <2>0 DEF LastRetryable, StillSafe
            <4>2. RetryOr(c, again, Fail(c, live[c] /\ again, safeNow))
                BY <2>8 DEF DoFails
            <4>3. Fail(c, live[c] /\ again, safeNow) => Ended
                BY <4>1, FailType
            <4> HIDE DEF safeNow, again
            <4> QED
                BY <4>2, <4>3, <2>g DEF RetryOr
        <3>2. safe' \in [Call -> BOOLEAN]
            BY <2>8, <2>0 DEF DoFails, StillSafe, TypeOK
        <3> QED
            BY <2>8, <3>1, <3>2 DEF DoFails, Effect, TypeOK
    <2>9. ASSUME NEW act \in 0..1, NEW hop \in BOOLEAN, BodyFails(c, act, hop) PROVE TypeOK'
        <3>1. Ended
            BY <2>9, FailType DEF BodyFails
        <3>2. acted' \in [Call -> Nat] /\ redirected' \in [Call -> BOOLEAN]
            BY <2>9, EffectType DEF BodyFails
        <3> QED
            BY <2>9, <3>1, <3>2 DEF BodyFails, TypeOK
    <2>10. ASSUME NEW act \in 0..1, NEW hop \in BOOLEAN, NEW k \in Status,
                  Responds(c, k, act, hop)
           PROVE  TypeOK'
        <3>1. Ended
            BY <2>10, <2>a, <2>g DEF Responds, RetryOr
        <3>2. acted' \in [Call -> Nat] /\ redirected' \in [Call -> BOOLEAN]
            BY <2>10, EffectType DEF Responds
        <3> QED
            BY <2>10, <3>1, <3>2 DEF Responds, TypeOK
    <2>11. ASSUME NEW act \in 0..1, NEW hop \in BOOLEAN, Unauthorized(c, act, hop)
           PROVE  TypeOK'
        <3>1. Ended
            BY <2>11, <2>a, <2>g DEF Unauthorized
        <3>2. acted' \in [Call -> Nat] /\ redirected' \in [Call -> BOOLEAN]
            BY <2>11, EffectType DEF Unauthorized
        <3>3. UNCHANGED recovered \/ recovered' = [recovered EXCEPT ![c] = TRUE]
            BY <2>11 DEF Unauthorized
        <3>4. recovered' \in [Call -> BOOLEAN]
            BY <3>3 DEF TypeOK
        <3>5. rejected' \in SUBSET (Token \cup {NoToken})
            BY <2>11 DEF Unauthorized, TypeOK
        <3> QED
            BY <2>11, <3>1, <3>2, <3>4, <3>5 DEF Unauthorized, TypeOK
    <2>12. CASE Wake(c)
        <3>1. Ended
            BY <2>12, <2>f, <2>g DEF Wake
        <3>2. attempt' \in [Call -> 0..RetryCount]
            <4>1. UNCHANGED attempt \/ attempt' = [attempt EXCEPT ![c] = @ + 1]
                BY <2>12 DEF Wake
            <4>2. attempt[c] + 1 \in 0..RetryCount
                BY <2>12 DEF Wake, SendsInv, SendsProgress, TypeOK
            <4> QED
                BY <4>1, <4>2 DEF TypeOK
        <3> QED
            BY <2>12, <3>1, <3>2 DEF Wake, TypeOK
    <2>13. CASE RecoverySkips(c)
        <3>1. Ended
            BY <2>13, <2>f, <2>g DEF RecoverySkips
        <3>2. attempt' \in [Call -> 0..RetryCount]
            <4>1. UNCHANGED attempt \/ attempt' = [attempt EXCEPT ![c] = 0]
                BY <2>13 DEF RecoverySkips
            <4> QED
                BY <4>1 DEF TypeOK
        <3> QED
            BY <2>13, <3>1, <3>2 DEF RecoverySkips, TypeOK
    <2>14. CASE RecoveryLocks(c)
        <3>1. Ended
            BY <2>14, <2>g DEF RecoveryLocks
        <3> QED
            BY <2>14, <3>1 DEF RecoveryLocks, Lock, TypeOK
    <2>15. CASE InvalidateDone(c)
        <3>1. Ended
            BY <2>15, <2>g DEF InvalidateDone
        <3> QED
            BY <2>15, <3>1 DEF InvalidateDone, TypeOK
    <2>16. CASE InvalidateFails(c)
        <3>1. Ended
            BY <2>16, <2>f DEF InvalidateFails
        <3> QED
            BY <2>16, <3>1 DEF InvalidateFails, Unlock, TypeOK
    <2>17. CASE OnceSkips(c)
        <3>1. Ended
            BY <2>17, <2>f, <2>a DEF OnceSkips
        <3> QED
            BY <2>17, <3>1 DEF OnceSkips, TypeOK
    <2>18. CASE OnceLocks(c)
        <3>1. Ended
            BY <2>18, <2>g DEF OnceLocks
        <3> QED
            BY <2>18, <3>1 DEF OnceLocks, Lock, TypeOK
    <2>19. CASE OnceMarks(c)
        <3>1. Ended
            BY <2>19, <2>a DEF OnceMarks
        <3> QED
            BY <2>19, <3>1 DEF OnceMarks, Unlock, Slot, TypeOK
    <2> QED
        BY <1>4, <2>1, <2>2, <2>3, <2>4, <2>5, <2>6, <2>7, <2>8, <2>9, <2>10, <2>11,
           <2>12, <2>13, <2>14, <2>15, <2>16, <2>17, <2>18, <2>19 DEF CallStep
<1> QED
    BY <1>1, <1>2, <1>3, <1>4 DEF Next, AllReturned

-----------------------------------------------------------------------------
\* A step of one call changes nothing that belongs to another.
LEMMA OthersUntouched ==
    ASSUME TypeOK, NEW c \in Call, CallStep(c), NEW d \in Call, d # c
    PROVE  /\ pc'[d] = pc[d] /\ req'[d] = req[d] /\ attempt'[d] = attempt[d]
           /\ recovered'[d] = recovered[d] /\ safe'[d] = safe[d] /\ result'[d] = result[d]
           /\ sends'[d] = sends[d] /\ acted'[d] = acted[d] /\ reached'[d] = reached[d]
           /\ redirected'[d] = redirected[d]
<1> USE DEF TypeOK, history, Goto, Fail, Answer, Effect, RetryOr
<1>1. CASE Start(c)
    BY <1>1 DEF Start
<1>2. CASE EnsureToken(c)
    BY <1>2 DEF EnsureToken
<1>3. CASE RefreshSkips(c)
    BY <1>3 DEF RefreshSkips
<1>4. CASE RefreshFetches(c)
    BY <1>4 DEF RefreshFetches
<1>5. CASE \E t \in Token, f \in BOOLEAN : FetchCommits(c, t, f)
    BY <1>5 DEF FetchCommits
<1>6. CASE FetchFails(c)
    BY <1>6 DEF FetchFails
<1>7. CASE Attempt(c)
    BY <1>7 DEF Attempt
<1>8. CASE \E act \in 0..1, hop \in BOOLEAN, dial \in BOOLEAN : DoFails(c, dial, act, hop)
    BY <1>8 DEF DoFails
<1>9. CASE \E act \in 0..1, hop \in BOOLEAN : BodyFails(c, act, hop)
    BY <1>9 DEF BodyFails
<1>10. CASE \E act \in 0..1, hop \in BOOLEAN, k \in Status : Responds(c, k, act, hop)
    BY <1>10 DEF Responds
<1>11. CASE \E act \in 0..1, hop \in BOOLEAN : Unauthorized(c, act, hop)
    BY <1>11 DEF Unauthorized
<1>12. CASE Wake(c)
    BY <1>12 DEF Wake
<1>13. CASE RecoverySkips(c)
    BY <1>13 DEF RecoverySkips
<1>14. CASE RecoveryLocks(c)
    BY <1>14 DEF RecoveryLocks
<1>15. CASE InvalidateDone(c)
    BY <1>15 DEF InvalidateDone
<1>16. CASE InvalidateFails(c)
    BY <1>16 DEF InvalidateFails
<1>17. CASE OnceSkips(c)
    BY <1>17 DEF OnceSkips
<1>18. CASE OnceLocks(c)
    BY <1>18 DEF OnceLocks
<1>19. CASE OnceMarks(c)
    BY <1>19 DEF OnceMarks
<1> QED
    BY <1>1, <1>2, <1>3, <1>4, <1>5, <1>6, <1>7, <1>8, <1>9, <1>10, <1>11,
       <1>12, <1>13, <1>14, <1>15, <1>16, <1>17, <1>18, <1>19 DEF CallStep

LEMMA SendsInit == Init => SendsInv
<1> SUFFICES ASSUME Init, NEW c \in Call PROVE SendsProgress(c)
    BY DEF SendsInv
<1>1. pc[c] = "idle" /\ attempt[c] = 0 /\ sends[c] = 0
    BY DEF Init
<1>2. 0 <= 2 * (RetryCount + 1)
    BY ConstantsAssumption
<1> QED
    BY <1>1, <1>2 DEF SendsProgress

\* An attempt is the only step that sends, and a 401 the only way to a second
\* round.
LEMMA SendsStep == TypeOK /\ SendsInv /\ [Next]_vars => SendsInv'
<1> SUFFICES ASSUME TypeOK, SendsInv, [Next]_vars PROVE SendsInv'
    OBVIOUS
<1> USE ConstantsAssumption DEF SendsInv, SendsProgress, FirstRound
<1>1. CASE UNCHANGED vars
    BY <1>1 DEF vars, local, history
<1>2. CASE Expire
    BY <1>2 DEF Expire, local, history
<1>3. ASSUME NEW c \in Call, Cancel(c) PROVE SendsInv'
    BY <1>3 DEF Cancel, history
<1>4. ASSUME NEW c \in Call, CallStep(c) PROVE SendsInv'
  <2>a. SendsProgress(c)'
    <3>t. sends[c] \in Nat /\ attempt[c] \in 0..RetryCount /\ recovered[c] \in BOOLEAN
        BY DEF TypeOK
    <3>m. MaxAttempt(req[c]) \in 0..RetryCount
        BY DEF MaxAttempt
    <3> USE <3>t, <3>m DEF TypeOK, history, Goto, Fail, Answer, RetryOr
    <3>1. CASE Start(c)
        BY <3>1 DEF Start
    <3>2. CASE EnsureToken(c)
        BY <3>2 DEF EnsureToken
    <3>3. CASE RefreshSkips(c)
        BY <3>3 DEF RefreshSkips
    <3>4. CASE RefreshFetches(c)
        BY <3>4 DEF RefreshFetches
    <3>5. CASE \E t \in Token, f \in BOOLEAN : FetchCommits(c, t, f)
        BY <3>5 DEF FetchCommits
    <3>6. CASE FetchFails(c)
        BY <3>6 DEF FetchFails
    <3>7. CASE Attempt(c)
        BY <3>7 DEF Attempt
    <3>8. CASE \E act \in 0..1, hop \in BOOLEAN, dial \in BOOLEAN : DoFails(c, dial, act, hop)
        BY <3>8 DEF DoFails
    <3>9. CASE \E act \in 0..1, hop \in BOOLEAN : BodyFails(c, act, hop)
        BY <3>9 DEF BodyFails
    <3>10. CASE \E act \in 0..1, hop \in BOOLEAN, k \in Status : Responds(c, k, act, hop)
        BY <3>10 DEF Responds
    <3>11. CASE \E act \in 0..1, hop \in BOOLEAN : Unauthorized(c, act, hop)
        BY <3>11 DEF Unauthorized
    <3>12. CASE Wake(c)
        BY <3>12 DEF Wake
    <3>13. CASE RecoverySkips(c)
        BY <3>13 DEF RecoverySkips
    <3>14. CASE RecoveryLocks(c)
        BY <3>14 DEF RecoveryLocks
    <3>15. CASE InvalidateDone(c)
        BY <3>15 DEF InvalidateDone
    <3>16. CASE InvalidateFails(c)
        BY <3>16 DEF InvalidateFails
    <3>17. CASE OnceSkips(c)
        BY <3>17 DEF OnceSkips
    <3>18. CASE OnceLocks(c)
        BY <3>18 DEF OnceLocks
    <3>19. CASE OnceMarks(c)
        BY <3>19 DEF OnceMarks
    <3> QED
        BY <1>4, <3>1, <3>2, <3>3, <3>4, <3>5, <3>6, <3>7, <3>8, <3>9, <3>10, <3>11,
           <3>12, <3>13, <3>14, <3>15, <3>16, <3>17, <3>18, <3>19 DEF CallStep
  <2> QED
    BY <1>4, <2>a, OthersUntouched
<1> QED
    BY <1>1, <1>2, <1>3, <1>4 DEF Next, AllReturned

LEMMA RoundsCorrect == Spec => [](TypeOK /\ SendsInv)
<1>1. Init => TypeOK /\ SendsInv
    BY TypeInit, SendsInit
<1>2. TypeOK /\ SendsInv /\ [Next]_vars => (TypeOK /\ SendsInv)'
    BY TypeStep, SendsStep
<1> QED
    BY <1>1, <1>2, PTL DEF Spec

\* TypeOK holds of every behaviour of the Client: in particular the attempt
\* index never passes the retry count.
THEOREM TypeCorrect == Spec => []TypeOK
BY RoundsCorrect, PTL

\* At most two rounds of attempts, for every retry count.
THEOREM SendsCorrect == Spec => []SendsBounded
<1>1. SendsInv => SendsBounded
    BY DEF SendsInv, SendsProgress, SendsBounded
<1> QED
    BY <1>1, RoundsCorrect, PTL

-----------------------------------------------------------------------------
LEMMA SharedInit == Init => SharedInv
BY ConstantsAssumption
   DEF Init, SharedInv, LockInv, EnsuredHasToken, RejectionSeen, InvalidatesOnlyCurrent,
       FetchJustified, Holding, Sending

\* The slot only changes under refreshMu, to a token or to the token it holds.
LEMMA SharedStep == TypeOK /\ SharedInv /\ [Next]_vars => SharedInv'
<1> SUFFICES ASSUME TypeOK, SharedInv, [Next]_vars PROVE SharedInv'
    OBVIOUS
<1> USE ConstantsAssumption
    DEF TypeOK, SharedInv, LockInv, EnsuredHasToken, RejectionSeen, InvalidatesOnlyCurrent,
        FetchJustified, NeedsRefresh
<1>1. CASE UNCHANGED vars
    BY <1>1 DEF vars, local, history
<1>2. CASE Expire
    BY <1>2 DEF Expire, local, history, Slot
<1>3. ASSUME NEW c \in Call, Cancel(c) PROVE SharedInv'
    BY <1>3 DEF Cancel, history
<1>4. ASSUME NEW c \in Call, CallStep(c) PROVE SharedInv'
    <2> USE DEF history, Goto, Fail, Answer, Lock, Unlock, Holding, Sending
    <2>1. CASE Start(c)
        BY <2>1 DEF Start
    <2>2. CASE EnsureToken(c)
        BY <2>2 DEF EnsureToken
    <2>3. CASE RefreshSkips(c)
        BY <2>3 DEF RefreshSkips
    <2>4. CASE RefreshFetches(c)
        BY <2>4 DEF RefreshFetches
    <2>5. ASSUME NEW t \in Token, NEW f \in BOOLEAN, FetchCommits(c, t, f)
          PROVE  SharedInv'
        BY <2>5 DEF FetchCommits
    <2>6. CASE FetchFails(c)
        BY <2>6 DEF FetchFails
    <2>7. CASE Attempt(c)
        BY <2>7 DEF Attempt
    <2>8. ASSUME NEW act \in 0..1, NEW hop \in BOOLEAN, NEW dial \in BOOLEAN, DoFails(c, dial, act, hop)
          PROVE  SharedInv'
        BY <2>8 DEF DoFails, RetryOr
    <2>9. ASSUME NEW act \in 0..1, NEW hop \in BOOLEAN, BodyFails(c, act, hop)
          PROVE  SharedInv'
        BY <2>9 DEF BodyFails
    <2>10. ASSUME NEW act \in 0..1, NEW hop \in BOOLEAN, NEW k \in Status, Responds(c, k, act, hop)
          PROVE  SharedInv'
        BY <2>10 DEF Responds, RetryOr
    <2>11. ASSUME NEW act \in 0..1, NEW hop \in BOOLEAN, Unauthorized(c, act, hop)
          PROVE  SharedInv'
        BY <2>11 DEF Unauthorized
    <2>12. CASE Wake(c)
        BY <2>12 DEF Wake
    <2>13. CASE RecoverySkips(c)
        BY <2>13 DEF RecoverySkips
    <2>14. CASE RecoveryLocks(c)
        BY <2>14 DEF RecoveryLocks, StillCurrent
    <2>15. CASE InvalidateDone(c)
        BY <2>15 DEF InvalidateDone
    <2>16. CASE InvalidateFails(c)
        BY <2>16 DEF InvalidateFails
    <2>17. CASE OnceSkips(c)
        BY <2>17 DEF OnceSkips
    <2>18. CASE OnceLocks(c)
        BY <2>18 DEF OnceLocks
    <2>19. CASE OnceMarks(c)
        BY <2>19 DEF OnceMarks
    <2> QED
        BY <1>4, <2>1, <2>2, <2>3, <2>4, <2>5, <2>6, <2>7, <2>8, <2>9, <2>10, <2>11,
           <2>12, <2>13, <2>14, <2>15, <2>16, <2>17, <2>18, <2>19 DEF CallStep
<1> QED
    BY <1>1, <1>2, <1>3, <1>4 DEF Next, AllReturned

\* Only a commit of the call holding refreshMu changes the slot's token.
LEMMA ReplacedStep ==
    ASSUME TypeOK, SharedInv, [Next]_vars, slot'.tok # slot.tok
    PROVE  NeedsRefresh(slot) \/ slot.tok \in rejected
<1>1. CASE UNCHANGED vars
    BY <1>1 DEF vars
<1>2. CASE Expire
    BY <1>2 DEF Expire, TypeOK, Slot
<1>3. ASSUME NEW c \in Call, Cancel(c) PROVE FALSE
    BY <1>3 DEF Cancel
<1>4. ASSUME NEW c \in Call, CallStep(c) PROVE NeedsRefresh(slot) \/ slot.tok \in rejected
    <2>1. CASE \E t \in Token, f \in BOOLEAN : FetchCommits(c, t, f)
        BY <2>1 DEF FetchCommits, SharedInv, FetchJustified
    <2>2. CASE OnceMarks(c)
        BY <2>2 DEF OnceMarks, SharedInv, InvalidatesOnlyCurrent
    <2>3. CASE UNCHANGED slot
        BY <2>3
    <2> QED
        BY <1>4, <2>1, <2>2, <2>3
        DEF CallStep, Start, EnsureToken, RefreshSkips, RefreshFetches, FetchFails, Attempt,
            DoFails, BodyFails, Responds, Unauthorized, Wake, RecoverySkips, RecoveryLocks,
            InvalidateDone, InvalidateFails, OnceSkips, OnceLocks
<1> QED
    BY <1>1, <1>2, <1>3, <1>4 DEF Next, AllReturned

LEMMA SharedCorrect == Spec => [](TypeOK /\ SharedInv)
<1>1. Init => SharedInv
    BY SharedInit
<1>2. TypeOK /\ SharedInv /\ [Next]_vars => SharedInv'
    BY SharedStep
<1> QED
    BY <1>1, <1>2, TypeCorrect, PTL DEF Spec

\* refreshMu is held exactly inside the critical sections, for any calls.
THEOREM LockCorrect == Spec => []LockInv
<1>1. SharedInv => LockInv
    BY DEF SharedInv
<1> QED
    BY <1>1, SharedCorrect, PTL

\* No interleaving empties the slot under a call that passed EnsureToken.
THEOREM EnsuredCorrect == Spec => []EnsuredHasToken
<1>1. SharedInv => EnsuredHasToken
    BY DEF SharedInv
<1> QED
    BY <1>1, SharedCorrect, PTL

\* A token that replaced the rejected one is never invalidated by a late 401.
THEOREM InvalidateCorrect == Spec => []InvalidatesOnlyCurrent
<1>1. SharedInv => InvalidatesOnlyCurrent
    BY DEF SharedInv
<1> QED
    BY <1>1, SharedCorrect, PTL

\* No step swaps out a token that is fresh and that the server still accepts.
THEOREM ReplacedCorrect == Spec => ReplacedOnlyWhenBad
<1>1. TypeOK /\ SharedInv /\ [Next]_vars
      => [slot'.tok # slot.tok => NeedsRefresh(slot) \/ slot.tok \in rejected]_vars
    BY ReplacedStep
<1> QED
    BY <1>1, SharedCorrect, PTL DEF Spec, ReplacedOnlyWhenBad

-----------------------------------------------------------------------------
LEMMA EffectInit == Init => EffectInv
<1> SUFFICES ASSUME Init, NEW c \in Call
             PROVE  OnceProgress(c) /\ CarefulProgress(c) /\ SafeProgress(c)
    BY DEF EffectInv
<1>1. /\ pc[c] = "idle" /\ attempt[c] = 0 /\ ~recovered[c] /\ sends[c] = 0 /\ acted[c] = 0
      /\ ~reached[c] /\ ~result[c].retryable /\ ~result[c].notSent
    BY DEF Init
<1> QED
    BY <1>1 DEF OnceProgress, CarefulProgress, SafeProgress, BeforeSend

\* So a step of one call leaves the effects of the others alone.
LEMMA OthersKeep ==
    ASSUME TypeOK, EffectInv, NEW c \in Call, CallStep(c), NEW d \in Call, d # c
    PROVE  OnceProgress(d)' /\ CarefulProgress(d)' /\ SafeProgress(d)'
BY OthersUntouched
DEF EffectInv, OnceProgress, CarefulProgress, SafeProgress, Careful, BeforeSend

\* What one step does to the progress of the call that takes it.
LEMMA EffectStep == TypeOK /\ SharedInv /\ EffectInv /\ [Next]_vars => EffectInv'
<1> SUFFICES ASSUME TypeOK, SharedInv, EffectInv, [Next]_vars PROVE EffectInv'
    OBVIOUS
<1> DEFINE Progress(c) == OnceProgress(c) /\ CarefulProgress(c) /\ SafeProgress(c)
<1> USE DEF EffectInv, OnceProgress, CarefulProgress, SafeProgress, Careful, BeforeSend
<1>1. CASE UNCHANGED vars
    BY <1>1 DEF vars, local, history
<1>2. CASE Expire
    BY <1>2 DEF Expire, local, history
<1>3. ASSUME NEW c \in Call, Cancel(c) PROVE EffectInv'
    BY <1>3 DEF Cancel, history
<1>4. ASSUME NEW c \in Call, CallStep(c) PROVE EffectInv'
  <2>a. Progress(c)'
    <3>0. Progress(c)
        BY DEF EffectInv
    <3>r. /\ req[c].once \in BOOLEAN /\ req[c].idem \in BOOLEAN
          /\ req[c].once => req[c].noRedirect
        BY RequestShape
    <3>t. /\ result[c].retryable \in BOOLEAN /\ result[c].notSent \in BOOLEAN
          /\ acted[c] \in Nat /\ sends[c] \in Nat
        BY DEF TypeOK, Result
    <3> USE <3>0, <3>r, <3>t DEF TypeOK, history, Goto, Fail, Answer, Effect, RetryOr, MaxAttempt,
             StillSafe, LastRetryable, RetryStatus, RetryableStatusOf
    <3>1. CASE Start(c)
        BY <3>1 DEF Start
    <3>2. CASE EnsureToken(c)
        BY <3>2 DEF EnsureToken
    <3>3. CASE RefreshSkips(c)
        BY <3>3 DEF RefreshSkips
    <3>4. CASE RefreshFetches(c)
        BY <3>4 DEF RefreshFetches
    <3>5. ASSUME NEW t \in Token, NEW f \in BOOLEAN, FetchCommits(c, t, f)
          PROVE  Progress(c)'
        BY <3>5 DEF FetchCommits
    <3>6. CASE FetchFails(c)
        BY <3>6 DEF FetchFails
    <3>7. CASE Attempt(c)
        BY <3>7 DEF Attempt
    <3>8. ASSUME NEW act \in 0..1, NEW hop \in BOOLEAN, NEW dial \in BOOLEAN, DoFails(c, dial, act, hop)
          PROVE  Progress(c)'
        BY <3>8 DEF DoFails
    <3>9. ASSUME NEW act \in 0..1, NEW hop \in BOOLEAN, BodyFails(c, act, hop)
          PROVE  Progress(c)'
        BY <3>9 DEF BodyFails
    <3>10. ASSUME NEW act \in 0..1, NEW hop \in BOOLEAN, NEW k \in Status, Responds(c, k, act, hop)
          PROVE  Progress(c)'
        BY <3>10 DEF Responds
    <3>11. ASSUME NEW act \in 0..1, NEW hop \in BOOLEAN, Unauthorized(c, act, hop)
          PROVE  Progress(c)'
        BY <3>11 DEF Unauthorized
    <3>12. CASE Wake(c)
        BY <3>12 DEF Wake
    <3>13. CASE RecoverySkips(c)
        BY <3>13 DEF RecoverySkips
    <3>14. CASE RecoveryLocks(c)
        BY <3>14 DEF RecoveryLocks
    <3>15. CASE InvalidateDone(c)
        BY <3>15 DEF InvalidateDone
    <3>16. CASE InvalidateFails(c)
        BY <3>16 DEF InvalidateFails
    <3>17. CASE OnceSkips(c)
        BY <3>17 DEF OnceSkips
    <3>18. CASE OnceLocks(c)
        BY <3>18 DEF OnceLocks
    <3>19. CASE OnceMarks(c)
        BY <3>19 DEF OnceMarks
    <3> QED
        BY <1>4, <3>1, <3>2, <3>3, <3>4, <3>5, <3>6, <3>7, <3>8, <3>9, <3>10, <3>11,
           <3>12, <3>13, <3>14, <3>15, <3>16, <3>17, <3>18, <3>19 DEF CallStep
  <2> QED
    BY <1>4, <2>a, OthersKeep
<1> QED
    BY <1>1, <1>2, <1>3, <1>4 DEF Next, AllReturned

LEMMA EffectCorrect == Spec => [](TypeOK /\ SharedInv /\ EffectInv)
<1>1. Init => EffectInv
    BY EffectInit
<1>2. TypeOK /\ SharedInv /\ EffectInv /\ [Next]_vars => EffectInv'
    BY EffectStep
<1> QED
    BY <1>1, <1>2, SharedCorrect, PTL DEF Spec

\* ADR 0003: a Once request leaves the Client at most once.  ADR 0002: a
\* non-idempotent request whose redirects are not followed is acted on at most
\* once.
THEOREM CarefulCallsCorrect == Spec => []CarefulCallsOnce
<1>1. EffectInv => CarefulCallsOnce
    BY DEF EffectInv, OnceProgress, CarefulProgress, Careful, CarefulCallsOnce
<1> QED
    BY <1>1, EffectCorrect, PTL

\* The Retryable flag of a careful call is a proof that nothing acted, NotSent
\* one that no byte of the call can have reached a server.
THEOREM ErrorFlagsCorrect == Spec => []ErrorFlagsTrue
<1>1. EffectInv => ErrorFlagsTrue
    BY DEF EffectInv, CarefulProgress, Careful, SafeProgress, ErrorFlagsTrue
<1> QED
    BY <1>1, EffectCorrect, PTL
==============================================================================
