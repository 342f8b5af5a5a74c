-------------------------- MODULE QuotaLedgerProofs --------------------------
(***************************************************************************)
(* QuotaLedger for any number of calls, packages and foreign changes.       *)
(* WriteInv says where a call with a write at the service can be and what   *)
(* its first read showed, whatever others do.  OwnInv adds what is known of the service as long as nobody   *)
(* else writes: there is at most one open write, and until it lands the     *)
(* quota is the one its call read.                                          *)
(***************************************************************************)
EXTENDS QuotaLedger, TLAPS

MutexInv == \A o \in Op : pc[o] \in Held <=> o \in quotaMu

\* The ledger is empty while a call prepares and sends, and holds only writes
\* of calls that wait for them or have returned.
LedgerInv ==
    /\ \A o \in Op : pc[o] \in {"read", "reread", "send", "flight"} => attempt = NoOp
    /\ \A o \in Op : pc[o] = "reconcile" => attempt # NoOp
    /\ \A o \in Op : pc[o] = "settle" => attempt = o
    /\ attempt # NoOp => pc[attempt] \in {"settle", "done"}

\* Only a call that sent can have a write at the service.
SentInv ==
    /\ transit \cap landed = {}
    /\ \A o \in transit \cup landed : pc[o] \in {"flight", "settle", "done"}

NoEarlyResult == \A o \in Op : pc[o] \notin {"report", "done"} => result[o] = "none"

\* A write is prepared, and stays open, on terms that allowed it.
ReadInv ==
    \A o \in Op : pc[o] \in {"reread", "send", "flight"} \/ attempt = o => Eligible(o, seen[o])

WriteInv ==
    MutexInv /\ LedgerInv /\ SentInv /\ NoEarlyResult /\ ReadInv /\ FailedMeansUnacted

-----------------------------------------------------------------------------
\* A write whose outcome is open.
Open(o) == attempt = o \/ pc[o] = "flight"

InTransitIsOpen == \A o \in transit : Open(o)

\* An order that has not taken effect yet is the open write, and the quota is
\* still the one it was priced for.
BuildingIsOpen ==
    building # NoQuota =>
        \E o \in landed : Open(o) /\ Operation[o] \in Creates \cup Extends /\ quota = seen[o]

\* Until the open write lands, nothing moves.
UnlandedAsSeen ==
    \A o \in Op : Open(o) /\ o \notin landed => quota = seen[o] /\ building = NoQuota

\* What a call read still holds when it sends.
SendsAsSeen == \A o \in Op : pc[o] = "send" => quota = seen[o]

OwnInv ==
    foreign = 0 => InTransitIsOpen /\ BuildingIsOpen /\ UnlandedAsSeen /\ SendsAsSeen

IInv == TypeOK /\ WriteInv /\ OwnInv /\ SettledMeansLanded

-----------------------------------------------------------------------------
LEMMA TypeInit == Init => TypeOK
<1>1. "acquire" \in PC /\ "done" \in PC /\ "none" \in Result
    BY DEF PC, Result
<1> QED
    BY <1>1, LedgerAssumption DEF Init, TypeOK

\* Giving the token back leaves at most one holder.
LEMMA ReleaseType ==
    ASSUME TypeOK, NEW o \in Op
    PROVE  quotaMu \ {o} \in {{}} \cup {{p} : p \in Op}
BY DEF TypeOK

\* What others or an order make of a quota is a quota.
LEMMA NewQuota ==
    ASSUME NEW n \in Nat, NEW p \in Package
    PROVE  Bought(n, p) \in Quota
BY DEF Bought, Quota

LEMMA ChangedQuota ==
    ASSUME NEW q \in Quota
    PROVE  /\ Extended(q) \in Quota
           /\ \A b \in BOOLEAN : [q EXCEPT !.renews = b] \in Quota
           /\ ByOthers(q) \subseteq Quota \cup {NoQuota}
<1>1. q.ends + 1 \in Nat
    BY DEF Quota
<1>2. Extended(q) \in Quota
    BY <1>1 DEF Extended, Quota
<1>3. Expired(q) \in Quota
    BY DEF Expired, Quota
<1>4. \A b \in BOOLEAN : [q EXCEPT !.renews = b] \in Quota
    BY DEF Quota
<1> QED
    BY <1>2, <1>3, <1>4 DEF ByOthers

LEMMA TypeStep == TypeOK /\ [Next]_vars => TypeOK'
<1> SUFFICES ASSUME TypeOK, [Next]_vars PROVE TypeOK'
    OBVIOUS
<1> USE LedgerAssumption
<1>p. Held \subseteq PC /\ "acquire" \in PC /\ "report" \in PC /\ "done" \in PC
    BY DEF PC
<1>h. Held = {"reconcile", "read", "reread", "send", "flight", "settle"}
    BY DEF Held
<1>1. CASE UNCHANGED vars
    BY <1>1 DEF vars, server, TypeOK
<1>2. ASSUME NEW o \in Op, OpStep(o) PROVE TypeOK'
    <2>r. ASSUME NEW r \in Result, Return(o, r)
          PROVE  pc' \in [Op -> PC] /\ result' \in [Op -> Result] /\ quotaMu' \in {{}} \cup {{p} : p \in Op}
        BY <2>r, <1>p, ReleaseType DEF Return, Answer, Goto, TypeOK
    <2>n. {"failed", "ineligible", "changed", "nothing", "unsettled", "accepted", "settled"} \subseteq Result
        BY DEF Result, Plain
    <2>1. CASE Acquire(o)
        BY <2>1, <1>p, <1>h DEF Acquire, Goto, TypeOK, server
    <2>2. CASE AcquireFails(o)
        BY <2>2, <1>p, <2>n DEF AcquireFails, Answer, Goto, TypeOK, server
    <2>3. CASE ReconcileConfirms(o)
        BY <2>3, <2>n, <2>r DEF ReconcileConfirms, TypeOK, server
    <2>4. CASE ReconcileFails(o)
        BY <2>4, <2>n, <2>r DEF ReconcileFails, TypeOK, server
    <2>5. CASE ReadTerms(o)
        BY <2>5, <1>p, <1>h, <2>n, <2>r DEF ReadTerms, Goto, TypeOK, server
    <2>6. CASE ReadAgain(o)
        BY <2>6, <1>p, <1>h, <2>n, <2>r DEF ReadAgain, Goto, TypeOK, server
    <2>7. CASE PrepareFails(o)
        BY <2>7, <2>n, <2>r DEF PrepareFails, TypeOK, server
    <2>8. CASE Send(o)
        BY <2>8, <1>p, <1>h DEF Send, Goto, TypeOK
    <2>9. CASE Refused(o)
        BY <2>9, <1>p, <2>n, ReleaseType DEF Refused, Answer, Goto, TypeOK, server
    <2>10. CASE Ambiguous(o)
        BY <2>10, <2>n, <2>r DEF Ambiguous, TypeOK, server
    <2>11. CASE Answered(o)
        BY <2>11, <1>p, <1>h, <2>n, <2>r DEF Answered, Goto, TypeOK, server
    <2>12. CASE SettleConfirms(o)
        BY <2>12, <2>n, <2>r DEF SettleConfirms, TypeOK, server
    <2>13. CASE SettleEnds(o)
        BY <2>13, <2>n, <2>r DEF SettleEnds, TypeOK, server
    <2>14. CASE Report(o)
        BY <2>14, <1>p, <2>n DEF Report, Goto, TypeOK, server
    <2> QED
        BY <1>2, <2>1, <2>2, <2>3, <2>4, <2>5, <2>6, <2>7, <2>8, <2>9, <2>10, <2>11, <2>12, <2>13, <2>14
           DEF OpStep
<1>3. ASSUME NEW o \in Op, Land(o) \/ Drop(o) PROVE TypeOK'
    <2>1. CASE Drop(o)
        BY <2>1 DEF Drop, TypeOK
    <2>2. CASE Land(o)
        <3>1. CASE LandCreate(o)
            <4>1. made + 1 \in Nat /\ PackageOf[o] \in Package
                BY DEF TypeOK
            <4> QED
                BY <2>2, <3>1, <4>1, NewQuota DEF Land, LandCreate, TypeOK
        <3>2. CASE LandDelete(o)
            BY <2>2, <3>2 DEF Land, LandDelete, TypeOK
        <3>3. CASE LandExtend(o)
            <4>1. building' \in Quota
                BY <3>3, ChangedQuota DEF LandExtend, TypeOK
            <4> QED
                BY <2>2, <3>3, <4>1 DEF Land, LandExtend, TypeOK
        <3>4. CASE LandToggle(o)
            <4>1. quota' \in Quota
                BY <3>4, ChangedQuota DEF LandToggle, Target, TypeOK
            <4> QED
                BY <2>2, <3>4, <4>1 DEF Land, LandToggle, TypeOK
        <3> QED
            BY <2>2, <3>1, <3>2, <3>3, <3>4 DEF Land
    <2> QED
        BY <1>3, <2>1, <2>2
<1>4. ASSUME NEW o \in Op, Cancel(o) PROVE TypeOK'
    BY <1>4 DEF Cancel, TypeOK, server
<1>5. CASE Provision
    BY <1>5 DEF Provision, TypeOK
<1>6. CASE Foreign
    <2>1. foreign' \in 0..MaxForeign
        BY <1>6 DEF Foreign, TypeOK
    <2>2. CASE quota # NoQuota /\ UNCHANGED made
        <3>1. quota' \in Quota \cup {NoQuota}
            BY <1>6, <2>2, ChangedQuota DEF Foreign, TypeOK
        <3> QED
            BY <1>6, <2>1, <2>2, <3>1 DEF Foreign, TypeOK
    <2>3. CASE quota = NoQuota
        <3>1. made + 1 \in Nat
            BY DEF TypeOK
        <3>2. quota' \in Quota /\ made' \in Nat
            BY <1>6, <2>3, <3>1, NewQuota DEF Foreign
        <3> QED
            BY <1>6, <2>1, <3>2 DEF Foreign, TypeOK
    <2> QED
        BY <1>6, <2>2, <2>3 DEF Foreign
<1> QED
    BY <1>1, <1>2, <1>3, <1>4, <1>5, <1>6 DEF Next, AllReturned

\* Every reachable state is well typed.
THEOREM TypeCorrect == Spec => []TypeOK
<1> QED
    BY TypeInit, TypeStep, PTL DEF Spec

-----------------------------------------------------------------------------
LEMMA WriteInit == Init => WriteInv
BY LedgerAssumption
   DEF Init, WriteInv, MutexInv, LedgerInv, SentInv, NoEarlyResult, ReadInv, FailedMeansUnacted, Held, Plain

\* Two calls are never both inside the channel.
LEMMA OneHolds ==
    ASSUME TypeOK, MutexInv, NEW o \in Op, NEW p \in Op, pc[o] \in Held, pc[p] \in Held
    PROVE  o = p
BY DEF TypeOK, MutexInv

\* A step of one call leaves the others where they are.
LEMMA OthersStay ==
    ASSUME NEW o \in Op, OpStep(o), TypeOK, NEW p \in Op, p # o
    PROVE  pc'[p] = pc[p] /\ result'[p] = result[p] /\ seen'[p] = seen[p]
<1>1. CASE Acquire(o)
    BY <1>1 DEF Acquire, Return, Answer, Goto, TypeOK, server
<1>2. CASE AcquireFails(o)
    BY <1>2 DEF AcquireFails, Return, Answer, Goto, TypeOK, server
<1>3. CASE ReconcileConfirms(o)
    BY <1>3 DEF ReconcileConfirms, Return, Answer, Goto, TypeOK, server
<1>4. CASE ReconcileFails(o)
    BY <1>4 DEF ReconcileFails, Return, Answer, Goto, TypeOK, server
<1>5. CASE ReadTerms(o)
    BY <1>5 DEF ReadTerms, Return, Answer, Goto, TypeOK, server
<1>6. CASE ReadAgain(o)
    BY <1>6 DEF ReadAgain, Return, Answer, Goto, TypeOK, server
<1>7. CASE PrepareFails(o)
    BY <1>7 DEF PrepareFails, Return, Answer, Goto, TypeOK, server
<1>8. CASE Send(o)
    BY <1>8 DEF Send, Return, Answer, Goto, TypeOK, server
<1>9. CASE Refused(o)
    BY <1>9 DEF Refused, Return, Answer, Goto, TypeOK, server
<1>10. CASE Ambiguous(o)
    BY <1>10 DEF Ambiguous, Return, Answer, Goto, TypeOK, server
<1>11. CASE Answered(o)
    BY <1>11 DEF Answered, Return, Answer, Goto, TypeOK, server
<1>12. CASE SettleConfirms(o)
    BY <1>12 DEF SettleConfirms, Return, Answer, Goto, TypeOK, server
<1>13. CASE SettleEnds(o)
    BY <1>13 DEF SettleEnds, Return, Answer, Goto, TypeOK, server
<1>14. CASE Report(o)
    BY <1>14 DEF Report, Return, Answer, Goto, TypeOK, server
<1> QED
    BY <1>1, <1>2, <1>3, <1>4, <1>5, <1>6, <1>7, <1>8, <1>9, <1>10, <1>11, <1>12, <1>13, <1>14
       DEF OpStep

\* A call comes to its send by the reads.
LEMMA PreparesOnly ==
    ASSUME TypeOK, NEW o \in Op, OpStep(o), ~ReadTerms(o),
           pc'[o] \in {"reread", "send", "flight"}
    PROVE  pc[o] \in {"reread", "send"}
<1>1. CASE ReadAgain(o) \/ Send(o)
    BY <1>1 DEF ReadAgain, Send
<1>2. CASE Acquire(o)
    BY <1>2 DEF Acquire, Return, Answer, Goto, TypeOK
<1>3. CASE AcquireFails(o)
    BY <1>3 DEF AcquireFails, Return, Answer, Goto, TypeOK
<1>4. CASE ReconcileConfirms(o)
    BY <1>4 DEF ReconcileConfirms, Return, Answer, Goto, TypeOK
<1>5. CASE ReconcileFails(o)
    BY <1>5 DEF ReconcileFails, Return, Answer, Goto, TypeOK
<1>6. CASE PrepareFails(o)
    BY <1>6 DEF PrepareFails, Return, Answer, Goto, TypeOK
<1>7. CASE Refused(o)
    BY <1>7 DEF Refused, Return, Answer, Goto, TypeOK
<1>8. CASE Ambiguous(o)
    BY <1>8 DEF Ambiguous, Return, Answer, Goto, TypeOK
<1>9. CASE Answered(o)
    BY <1>9 DEF Answered, Return, Answer, Goto, TypeOK
<1>10. CASE SettleConfirms(o)
    BY <1>10 DEF SettleConfirms, Return, Answer, Goto, TypeOK
<1>11. CASE SettleEnds(o)
    BY <1>11 DEF SettleEnds, Return, Answer, Goto, TypeOK
<1>12. CASE Report(o)
    BY <1>12 DEF Report, Return, Answer, Goto, TypeOK
<1> QED
    BY <1>1, <1>2, <1>3, <1>4, <1>5, <1>6, <1>7, <1>8, <1>9, <1>10, <1>11, <1>12 DEF OpStep

\* A call enters only its own write into the ledger.
LEMMA RecordsOwn ==
    ASSUME NEW o \in Op, OpStep(o)
    PROVE  attempt' \in {attempt, NoOp} \/ (attempt' = o /\ pc[o] = "flight")
<1>1. CASE Acquire(o)
    BY <1>1 DEF Acquire
<1>2. CASE AcquireFails(o)
    BY <1>2 DEF AcquireFails
<1>3. CASE ReconcileConfirms(o)
    BY <1>3 DEF ReconcileConfirms
<1>4. CASE ReconcileFails(o)
    BY <1>4 DEF ReconcileFails
<1>5. CASE ReadTerms(o)
    BY <1>5 DEF ReadTerms
<1>6. CASE ReadAgain(o)
    BY <1>6 DEF ReadAgain
<1>7. CASE PrepareFails(o)
    BY <1>7 DEF PrepareFails
<1>8. CASE Send(o)
    BY <1>8 DEF Send
<1>9. CASE Refused(o)
    BY <1>9 DEF Refused
<1>10. CASE Ambiguous(o)
    BY <1>10 DEF Ambiguous
<1>11. CASE Answered(o)
    BY <1>11 DEF Answered
<1>12. CASE SettleConfirms(o)
    BY <1>12 DEF SettleConfirms
<1>13. CASE SettleEnds(o)
    BY <1>13 DEF SettleEnds
<1>14. CASE Report(o)
    BY <1>14 DEF Report
<1> QED
    BY <1>1, <1>2, <1>3, <1>4, <1>5, <1>6, <1>7, <1>8, <1>9, <1>10, <1>11, <1>12, <1>13, <1>14
       DEF OpStep

LEMMA WriteStep == TypeOK /\ WriteInv /\ [Next]_vars => WriteInv'
<1> SUFFICES ASSUME TypeOK, WriteInv, [Next]_vars PROVE WriteInv'
    OBVIOUS
<1> USE LedgerAssumption DEF WriteInv
<1>1. CASE UNCHANGED vars
    BY <1>1 DEF vars, server, MutexInv, LedgerInv, SentInv, NoEarlyResult, ReadInv, FailedMeansUnacted
<1>2. ASSUME NEW o \in Op, OpStep(o) PROVE WriteInv'
    <2>a. \A p \in Op \ {o} : pc'[p] = pc[p] /\ result'[p] = result[p] /\ seen'[p] = seen[p]
        BY <1>2, OthersStay
    <2>b. pc[o] \in Held => \A p \in Op \ {o} : pc[p] \notin Held
        BY OneHolds
    <2>1. MutexInv'
        <3>1. CASE Acquire(o)
            BY <3>1, <2>a, <2>b DEF Acquire, Return, Answer, Goto, TypeOK, server, MutexInv, Held
        <3>2. CASE AcquireFails(o)
            BY <3>2, <2>a, <2>b DEF AcquireFails, Return, Answer, Goto, TypeOK, server, MutexInv, Held
        <3>3. CASE ReconcileConfirms(o)
            BY <3>3, <2>a, <2>b
               DEF ReconcileConfirms, Return, Answer, Goto, TypeOK, server, MutexInv, Held
        <3>4. CASE ReconcileFails(o)
            BY <3>4, <2>a, <2>b DEF ReconcileFails, Return, Answer, Goto, TypeOK, server, MutexInv, Held
        <3>5. CASE ReadTerms(o)
            BY <3>5, <2>a, <2>b DEF ReadTerms, Return, Answer, Goto, TypeOK, server, MutexInv, Held
        <3>6. CASE ReadAgain(o)
            BY <3>6, <2>a, <2>b DEF ReadAgain, Return, Answer, Goto, TypeOK, server, MutexInv, Held
        <3>7. CASE PrepareFails(o)
            BY <3>7, <2>a, <2>b DEF PrepareFails, Return, Answer, Goto, TypeOK, server, MutexInv, Held
        <3>8. CASE Send(o)
            BY <3>8, <2>a, <2>b DEF Send, Return, Answer, Goto, TypeOK, server, MutexInv, Held
        <3>9. CASE Refused(o)
            BY <3>9, <2>a, <2>b DEF Refused, Return, Answer, Goto, TypeOK, server, MutexInv, Held
        <3>10. CASE Ambiguous(o)
            BY <3>10, <2>a, <2>b DEF Ambiguous, Return, Answer, Goto, TypeOK, server, MutexInv, Held
        <3>11. CASE Answered(o)
            BY <3>11, <2>a, <2>b DEF Answered, Return, Answer, Goto, TypeOK, server, MutexInv, Held
        <3>12. CASE SettleConfirms(o)
            BY <3>12, <2>a, <2>b
               DEF SettleConfirms, Return, Answer, Goto, TypeOK, server, MutexInv, Held
        <3>13. CASE SettleEnds(o)
            BY <3>13, <2>a, <2>b DEF SettleEnds, Return, Answer, Goto, TypeOK, server, MutexInv, Held
        <3>14. CASE Report(o)
            BY <3>14, <2>a, <2>b DEF Report, Return, Answer, Goto, TypeOK, server, MutexInv, Held
        <3> QED
            BY <1>2, <3>1, <3>2, <3>3, <3>4, <3>5, <3>6, <3>7, <3>8, <3>9, <3>10, <3>11, <3>12, <3>13,
               <3>14 DEF OpStep
    <2>2. LedgerInv'
        <3>1. CASE Acquire(o)
            BY <3>1, <2>a, <2>b
               DEF Acquire, Return, Answer, Goto, TypeOK, server, MutexInv, LedgerInv, Held, Plain
        <3>2. CASE AcquireFails(o)
            BY <3>2, <2>a, <2>b
               DEF AcquireFails, Return, Answer, Goto, TypeOK, server, MutexInv, LedgerInv, Held, Plain
        <3>3. CASE ReconcileConfirms(o)
            BY <3>3, <2>a, <2>b DEF ReconcileConfirms, Return, Answer, Goto, TypeOK, server, MutexInv,
               LedgerInv, Held, Plain
        <3>4. CASE ReconcileFails(o)
            BY <3>4, <2>a, <2>b DEF ReconcileFails, Return, Answer, Goto, TypeOK, server, MutexInv,
               LedgerInv, Held, Plain
        <3>5. CASE ReadTerms(o)
            BY <3>5, <2>a, <2>b
               DEF ReadTerms, Return, Answer, Goto, TypeOK, server, MutexInv, LedgerInv, Held, Plain
        <3>6. CASE ReadAgain(o)
            BY <3>6, <2>a, <2>b
               DEF ReadAgain, Return, Answer, Goto, TypeOK, server, MutexInv, LedgerInv, Held, Plain
        <3>7. CASE PrepareFails(o)
            BY <3>7, <2>a, <2>b
               DEF PrepareFails, Return, Answer, Goto, TypeOK, server, MutexInv, LedgerInv, Held, Plain
        <3>8. CASE Send(o)
            BY <3>8, <2>a, <2>b
               DEF Send, Return, Answer, Goto, TypeOK, server, MutexInv, LedgerInv, Held, Plain
        <3>9. CASE Refused(o)
            BY <3>9, <2>a, <2>b
               DEF Refused, Return, Answer, Goto, TypeOK, server, MutexInv, LedgerInv, Held, Plain
        <3>10. CASE Ambiguous(o)
            BY <3>10, <2>a, <2>b
               DEF Ambiguous, Return, Answer, Goto, TypeOK, server, MutexInv, LedgerInv, Held, Plain
        <3>11. CASE Answered(o)
            BY <3>11, <2>a, <2>b
               DEF Answered, Return, Answer, Goto, TypeOK, server, MutexInv, LedgerInv, Held, Plain
        <3>12. CASE SettleConfirms(o)
            BY <3>12, <2>a, <2>b DEF SettleConfirms, Return, Answer, Goto, TypeOK, server, MutexInv,
               LedgerInv, Held, Plain
        <3>13. CASE SettleEnds(o)
            BY <3>13, <2>a, <2>b
               DEF SettleEnds, Return, Answer, Goto, TypeOK, server, MutexInv, LedgerInv, Held, Plain
        <3>14. CASE Report(o)
            BY <3>14, <2>a, <2>b
               DEF Report, Return, Answer, Goto, TypeOK, server, MutexInv, LedgerInv, Held, Plain
        <3> QED
            BY <1>2, <3>1, <3>2, <3>3, <3>4, <3>5, <3>6, <3>7, <3>8, <3>9, <3>10, <3>11, <3>12, <3>13,
               <3>14 DEF OpStep
    <2>3. SentInv'
        <3>1. CASE Acquire(o)
            BY <3>1, <2>a DEF Acquire, Return, Answer, Goto, TypeOK, server, SentInv, Plain
        <3>2. CASE AcquireFails(o)
            BY <3>2, <2>a DEF AcquireFails, Return, Answer, Goto, TypeOK, server, SentInv, Plain
        <3>3. CASE ReconcileConfirms(o)
            BY <3>3, <2>a DEF ReconcileConfirms, Return, Answer, Goto, TypeOK, server, SentInv, Plain
        <3>4. CASE ReconcileFails(o)
            BY <3>4, <2>a DEF ReconcileFails, Return, Answer, Goto, TypeOK, server, SentInv, Plain
        <3>5. CASE ReadTerms(o)
            BY <3>5, <2>a DEF ReadTerms, Return, Answer, Goto, TypeOK, server, SentInv, Plain
        <3>6. CASE ReadAgain(o)
            BY <3>6, <2>a DEF ReadAgain, Return, Answer, Goto, TypeOK, server, SentInv, Plain
        <3>7. CASE PrepareFails(o)
            BY <3>7, <2>a DEF PrepareFails, Return, Answer, Goto, TypeOK, server, SentInv, Plain
        <3>8. CASE Send(o)
            BY <3>8, <2>a DEF Send, Return, Answer, Goto, TypeOK, server, SentInv, Plain
        <3>9. CASE Refused(o)
            BY <3>9, <2>a DEF Refused, Return, Answer, Goto, TypeOK, server, SentInv, Plain
        <3>10. CASE Ambiguous(o)
            BY <3>10, <2>a DEF Ambiguous, Return, Answer, Goto, TypeOK, server, SentInv, Plain
        <3>11. CASE Answered(o)
            BY <3>11, <2>a DEF Answered, Return, Answer, Goto, TypeOK, server, SentInv, Plain
        <3>12. CASE SettleConfirms(o)
            BY <3>12, <2>a DEF SettleConfirms, Return, Answer, Goto, TypeOK, server, SentInv, Plain
        <3>13. CASE SettleEnds(o)
            BY <3>13, <2>a DEF SettleEnds, Return, Answer, Goto, TypeOK, server, SentInv, Plain
        <3>14. CASE Report(o)
            BY <3>14, <2>a DEF Report, Return, Answer, Goto, TypeOK, server, SentInv, Plain
        <3> QED
            BY <1>2, <3>1, <3>2, <3>3, <3>4, <3>5, <3>6, <3>7, <3>8, <3>9, <3>10, <3>11, <3>12, <3>13,
               <3>14 DEF OpStep
    <2>4. NoEarlyResult'
        <3>1. CASE Acquire(o)
            BY <3>1, <2>a DEF Acquire, Return, Answer, Goto, TypeOK, server, NoEarlyResult
        <3>2. CASE AcquireFails(o)
            BY <3>2, <2>a DEF AcquireFails, Return, Answer, Goto, TypeOK, server, NoEarlyResult
        <3>3. CASE ReconcileConfirms(o)
            BY <3>3, <2>a DEF ReconcileConfirms, Return, Answer, Goto, TypeOK, server, NoEarlyResult
        <3>4. CASE ReconcileFails(o)
            BY <3>4, <2>a DEF ReconcileFails, Return, Answer, Goto, TypeOK, server, NoEarlyResult
        <3>5. CASE ReadTerms(o)
            BY <3>5, <2>a DEF ReadTerms, Return, Answer, Goto, TypeOK, server, NoEarlyResult
        <3>6. CASE ReadAgain(o)
            BY <3>6, <2>a DEF ReadAgain, Return, Answer, Goto, TypeOK, server, NoEarlyResult
        <3>7. CASE PrepareFails(o)
            BY <3>7, <2>a DEF PrepareFails, Return, Answer, Goto, TypeOK, server, NoEarlyResult
        <3>8. CASE Send(o)
            BY <3>8, <2>a DEF Send, Return, Answer, Goto, TypeOK, server, NoEarlyResult
        <3>9. CASE Refused(o)
            BY <3>9, <2>a DEF Refused, Return, Answer, Goto, TypeOK, server, NoEarlyResult
        <3>10. CASE Ambiguous(o)
            BY <3>10, <2>a DEF Ambiguous, Return, Answer, Goto, TypeOK, server, NoEarlyResult
        <3>11. CASE Answered(o)
            BY <3>11, <2>a DEF Answered, Return, Answer, Goto, TypeOK, server, NoEarlyResult
        <3>12. CASE SettleConfirms(o)
            BY <3>12, <2>a DEF SettleConfirms, Return, Answer, Goto, TypeOK, server, NoEarlyResult
        <3>13. CASE SettleEnds(o)
            BY <3>13, <2>a DEF SettleEnds, Return, Answer, Goto, TypeOK, server, NoEarlyResult
        <3>14. CASE Report(o)
            BY <3>14, <2>a DEF Report, Return, Answer, Goto, TypeOK, server, NoEarlyResult
        <3> QED
            BY <1>2, <3>1, <3>2, <3>3, <3>4, <3>5, <3>6, <3>7, <3>8, <3>9, <3>10, <3>11, <3>12, <3>13,
               <3>14 DEF OpStep
    <2>5. FailedMeansUnacted'
        <3>1. CASE Acquire(o)
            BY <3>1, <2>a DEF Acquire, Return, Answer, Goto, TypeOK, server, SentInv, NoEarlyResult,
               FailedMeansUnacted, Plain
        <3>2. CASE AcquireFails(o)
            BY <3>2, <2>a DEF AcquireFails, Return, Answer, Goto, TypeOK, server, SentInv,
               NoEarlyResult, FailedMeansUnacted, Plain
        <3>3. CASE ReconcileConfirms(o)
            BY <3>3, <2>a DEF ReconcileConfirms, Return, Answer, Goto, TypeOK, server, SentInv,
               NoEarlyResult, FailedMeansUnacted, Plain
        <3>4. CASE ReconcileFails(o)
            BY <3>4, <2>a DEF ReconcileFails, Return, Answer, Goto, TypeOK, server, SentInv,
               NoEarlyResult, FailedMeansUnacted, Plain
        <3>5. CASE ReadTerms(o)
            BY <3>5, <2>a DEF ReadTerms, Return, Answer, Goto, TypeOK, server, SentInv, NoEarlyResult,
               FailedMeansUnacted, Plain
        <3>6. CASE ReadAgain(o)
            BY <3>6, <2>a DEF ReadAgain, Return, Answer, Goto, TypeOK, server, SentInv, NoEarlyResult,
               FailedMeansUnacted, Plain
        <3>7. CASE PrepareFails(o)
            BY <3>7, <2>a DEF PrepareFails, Return, Answer, Goto, TypeOK, server, SentInv,
               NoEarlyResult, FailedMeansUnacted, Plain
        <3>8. CASE Send(o)
            BY <3>8, <2>a DEF Send, Return, Answer, Goto, TypeOK, server, SentInv, NoEarlyResult,
               FailedMeansUnacted, Plain
        <3>9. CASE Refused(o)
            BY <3>9, <2>a DEF Refused, Return, Answer, Goto, TypeOK, server, SentInv, NoEarlyResult,
               FailedMeansUnacted, Plain
        <3>10. CASE Ambiguous(o)
            BY <3>10, <2>a DEF Ambiguous, Return, Answer, Goto, TypeOK, server, SentInv,
               NoEarlyResult, FailedMeansUnacted, Plain
        <3>11. CASE Answered(o)
            BY <3>11, <2>a DEF Answered, Return, Answer, Goto, TypeOK, server, SentInv, NoEarlyResult,
               FailedMeansUnacted, Plain
        <3>12. CASE SettleConfirms(o)
            BY <3>12, <2>a DEF SettleConfirms, Return, Answer, Goto, TypeOK, server, SentInv,
               NoEarlyResult, FailedMeansUnacted, Plain
        <3>13. CASE SettleEnds(o)
            BY <3>13, <2>a DEF SettleEnds, Return, Answer, Goto, TypeOK, server, SentInv,
               NoEarlyResult, FailedMeansUnacted, Plain
        <3>14. CASE Report(o)
            BY <3>14, <2>a DEF Report, Return, Answer, Goto, TypeOK, server, SentInv, NoEarlyResult,
               FailedMeansUnacted, Plain
        <3> QED
            BY <1>2, <3>1, <3>2, <3>3, <3>4, <3>5, <3>6, <3>7, <3>8, <3>9, <3>10, <3>11, <3>12, <3>13,
               <3>14 DEF OpStep
    <2>6. ReadInv'
        <3>1. CASE ReadTerms(o)
            BY <2>a, <3>1 DEF ReadTerms, Return, Answer, Goto, TypeOK, LedgerInv, ReadInv
        <3>2. CASE ~ReadTerms(o)
            <4>1. seen' = seen
                BY <1>2, <3>2 DEF OpStep, Acquire, AcquireFails, ReconcileConfirms, ReconcileFails,
                    ReadAgain, PrepareFails, Send, Refused, Ambiguous, Answered, SettleConfirms,
                    SettleEnds, Report
            <4>2. pc'[o] \in {"reread", "send", "flight"} => pc[o] \in {"reread", "send"}
                BY <1>2, <3>2, PreparesOnly
            <4>3. attempt' \in {attempt, NoOp} \/ (attempt' = o /\ pc[o] = "flight")
                BY <1>2, RecordsOwn
            <4> QED
                BY <2>a, <4>1, <4>2, <4>3 DEF ReadInv
        <3> QED
            BY <3>1, <3>2
    <2> QED
        BY <2>1, <2>2, <2>3, <2>4, <2>5, <2>6
<1>3. ASSUME NEW o \in Op, Land(o) \/ Drop(o) PROVE WriteInv'
    BY <1>3
       DEF Land, Drop, TypeOK, MutexInv, LedgerInv, SentInv, NoEarlyResult, ReadInv, FailedMeansUnacted
<1>4. ASSUME NEW o \in Op, Cancel(o) PROVE WriteInv'
    BY <1>4 DEF Cancel, server, MutexInv, LedgerInv, SentInv, NoEarlyResult, ReadInv, FailedMeansUnacted
<1>5. CASE Provision \/ Foreign
    BY <1>5
       DEF Provision, Foreign, MutexInv, LedgerInv, SentInv, NoEarlyResult, ReadInv, FailedMeansUnacted
<1> QED
    BY <1>1, <1>2, <1>3, <1>4, <1>5 DEF Next, AllReturned

-----------------------------------------------------------------------------
LEMMA OwnInit == Init => OwnInv /\ SettledMeansLanded
BY LedgerAssumption DEF Init, OwnInv, SettledMeansLanded, InTransitIsOpen, BuildingIsOpen,
   UnlandedAsSeen, SendsAsSeen, Open

\* There is at most one open write, and none while a call prepares.
LEMMA OneOpen ==
    ASSUME TypeOK, WriteInv, NEW o \in Op, NEW p \in Op, Open(p)
    PROVE  /\ Open(o) => o = p
           /\ pc[o] \notin {"read", "reread", "send"}
<1>1. pc[p] = "flight" => attempt = NoOp
    BY DEF WriteInv, LedgerInv
<1>2. pc[p] = "flight" /\ pc[o] \in Held => o = p
    BY OneHolds DEF WriteInv, Held
<1>3. pc[o] \in {"read", "reread", "send", "flight"} => attempt = NoOp /\ pc[o] \in Held
    BY DEF WriteInv, LedgerInv, Held
<1>4. NoOp \notin Op
    BY LedgerAssumption
<1> QED
    BY <1>1, <1>2, <1>3, <1>4 DEF Open

\* A read confirms only a write that landed, and nothing else is on its way.
LEMMA ConfirmedMeansLanded ==
    ASSUME TypeOK, WriteInv, OwnInv, foreign = 0, NEW a \in Op, attempt = a, Confirmed(a)
    PROVE  a \in landed /\ transit = {} /\ building = NoQuota
<1>1. Open(a)
    BY DEF Open
<1>2. Eligible(a, seen[a])
    BY DEF WriteInv, ReadInv
<1>3. quota # seen[a]
    BY <1>2, LedgerAssumption
       DEF Eligible, Confirmed, ConfirmedCreate, ConfirmedExtend, ConfirmedToggle, Creates, Deletes,
           Extends, Toggles, TypeOK, Quota
<1>4. a \in landed
    BY <1>1, <1>3 DEF OwnInv, UnlandedAsSeen
<1>5. transit = {}
    BY <1>1, <1>4, OneOpen DEF OwnInv, InTransitIsOpen, WriteInv, SentInv, TypeOK
<1>6. building = NoQuota
    BY <1>1, <1>3, OneOpen DEF OwnInv, BuildingIsOpen, TypeOK
<1> QED
    BY <1>4, <1>5, <1>6

\* What an action that leaves the service, the ledger and the set of open
\* writes alone does not disturb.
LEMMA OwnKept ==
    ASSUME TypeOK, WriteInv, OwnInv, UNCHANGED server, NEW o \in Op, OpStep(o),
           \A p \in Op : Open(p)' <=> Open(p),
           pc'[o] \notin {"send", "reread"}
    PROVE  OwnInv'
<1> SUFFICES ASSUME foreign = 0
             PROVE  (InTransitIsOpen /\ BuildingIsOpen /\ UnlandedAsSeen /\ SendsAsSeen)'
    BY DEF OwnInv, server
<1>0. InTransitIsOpen /\ BuildingIsOpen /\ UnlandedAsSeen /\ SendsAsSeen
    BY DEF OwnInv
<1>1. \A p \in Op \ {o} : pc'[p] = pc[p] /\ seen'[p] = seen[p]
    BY OthersStay
<1>2. Open(o) => seen'[o] = seen[o]
    <2>1. Open(o) => pc[o] # "read"
        BY OneOpen
    <2>2. pc[o] # "read" => UNCHANGED seen
        BY DEF OpStep, Acquire, AcquireFails, ReconcileConfirms, ReconcileFails, ReadTerms,
               ReadAgain, PrepareFails, Send, Refused, Ambiguous, Answered, SettleConfirms, SettleEnds, Report
    <2> QED
        BY <2>1, <2>2
<1>3. InTransitIsOpen' /\ BuildingIsOpen'
    BY <1>0, <1>1, <1>2 DEF InTransitIsOpen, BuildingIsOpen, server, TypeOK
<1>4. UnlandedAsSeen'
    BY <1>0, <1>1, <1>2 DEF UnlandedAsSeen, server
<1>5. SendsAsSeen'
    BY <1>0, <1>1, <1>2 DEF SendsAsSeen, server
<1> QED
    BY <1>3, <1>4, <1>5

\* The ledger entry that a confirming read removes was the only open write.
LEMMA OwnConfirmed ==
    ASSUME TypeOK, WriteInv, OwnInv, NEW o \in Op, NEW a \in Op,
           attempt = a, ReconcileConfirms(o) \/ SettleConfirms(o)
    PROVE  OwnInv'
<1> SUFFICES ASSUME foreign = 0
             PROVE  (InTransitIsOpen /\ BuildingIsOpen /\ UnlandedAsSeen /\ SendsAsSeen)'
    BY DEF OwnInv, ReconcileConfirms, SettleConfirms, server
<1>1. attempt = a /\ Confirmed(a) /\ pc[o] \in Held
    BY DEF ReconcileConfirms, SettleConfirms, WriteInv, LedgerInv, Held
<1>2. transit = {} /\ building = NoQuota /\ UNCHANGED <<server, seen>>
    BY <1>1, ConfirmedMeansLanded DEF ReconcileConfirms, SettleConfirms
<1>3. \A p \in Op : pc'[p] = pc[p] \/ pc'[p] \in {"report", "done"}
    BY DEF ReconcileConfirms, SettleConfirms, Return, Answer, Goto, TypeOK
<1>4. \A p \in Op : pc'[p] \notin {"flight", "send", "reread"}
    <2>1. pc[o] \notin {"flight", "send", "reread"}
        BY DEF ReconcileConfirms, SettleConfirms
    <2>2. \A p \in Op : pc[p] \notin {"flight", "send", "reread"}
        BY <1>1, <2>1, OneHolds DEF WriteInv, Held
    <2> QED
        BY <1>3, <2>2
<1>5. \A p \in Op : ~Open(p)'
    BY <1>4, LedgerAssumption DEF Open, ReconcileConfirms, SettleConfirms
<1> QED
    BY <1>2, <1>4, <1>5 DEF InTransitIsOpen, BuildingIsOpen, UnlandedAsSeen, SendsAsSeen, server

LEMMA OwnCallStep ==
    ASSUME TypeOK, WriteInv, OwnInv, NEW o \in Op, OpStep(o)
    PROVE  OwnInv'
<1> USE LedgerAssumption
<1>1. CASE Acquire(o)
    <2>1. UNCHANGED server /\ pc'[o] \notin {"send", "reread"}
        BY <1>1 DEF Acquire, Return, Answer, Goto, TypeOK, server
    <2>2. \A p \in Op : Open(p)' <=> Open(p)
        BY <1>1 DEF Acquire, Return, Answer, Goto, TypeOK, WriteInv, LedgerInv, Open
    <2> QED
        BY <2>1, <2>2, OwnKept
<1>2. CASE AcquireFails(o)
    <2>1. UNCHANGED server /\ pc'[o] \notin {"send", "reread"}
        BY <1>2 DEF AcquireFails, Return, Answer, Goto, TypeOK, server
    <2>2. \A p \in Op : Open(p)' <=> Open(p)
        BY <1>2 DEF AcquireFails, Return, Answer, Goto, TypeOK, WriteInv, LedgerInv, Open
    <2> QED
        BY <2>1, <2>2, OwnKept
<1>3. CASE ReconcileFails(o)
    <2>1. UNCHANGED server /\ pc'[o] \notin {"send", "reread"}
        BY <1>3 DEF ReconcileFails, Return, Answer, Goto, TypeOK, server
    <2>2. \A p \in Op : Open(p)' <=> Open(p)
        BY <1>3 DEF ReconcileFails, Return, Answer, Goto, TypeOK, WriteInv, LedgerInv, Open
    <2> QED
        BY <2>1, <2>2, OwnKept
<1>4. CASE PrepareFails(o)
    <2>1. UNCHANGED server /\ pc'[o] \notin {"send", "reread"}
        BY <1>4 DEF PrepareFails, Return, Answer, Goto, TypeOK, server
    <2>2. \A p \in Op : Open(p)' <=> Open(p)
        BY <1>4 DEF PrepareFails, Return, Answer, Goto, TypeOK, WriteInv, LedgerInv, Open
    <2> QED
        BY <2>1, <2>2, OwnKept
<1>5. CASE Ambiguous(o)
    <2>1. UNCHANGED server /\ pc'[o] \notin {"send", "reread"}
        BY <1>5 DEF Ambiguous, Return, Answer, Goto, TypeOK, server
    <2>2. \A p \in Op : Open(p)' <=> Open(p)
        BY <1>5 DEF Ambiguous, Return, Answer, Goto, TypeOK, WriteInv, LedgerInv, Open
    <2> QED
        BY <2>1, <2>2, OwnKept
<1>6. CASE Answered(o)
    <2>1. UNCHANGED server /\ pc'[o] \notin {"send", "reread"}
        BY <1>6 DEF Answered, Return, Answer, Goto, TypeOK, server
    <2>2. \A p \in Op : Open(p)' <=> Open(p)
        BY <1>6 DEF Answered, Return, Answer, Goto, TypeOK, WriteInv, LedgerInv, Open
    <2> QED
        BY <2>1, <2>2, OwnKept
<1>7. CASE SettleEnds(o)
    <2>1. UNCHANGED server /\ pc'[o] \notin {"send", "reread"}
        BY <1>7 DEF SettleEnds, Return, Answer, Goto, TypeOK, server
    <2>2. \A p \in Op : Open(p)' <=> Open(p)
        BY <1>7 DEF SettleEnds, Return, Answer, Goto, TypeOK, WriteInv, LedgerInv, Open
    <2> QED
        BY <2>1, <2>2, OwnKept
<1>r. CASE Report(o)
    <2>1. UNCHANGED server /\ pc'[o] \notin {"send", "reread"}
        BY <1>r DEF Report, Goto, TypeOK
    <2>2. \A p \in Op : Open(p)' <=> Open(p)
        BY <1>r DEF Report, Goto, TypeOK, Open
    <2> QED
        BY <2>1, <2>2, OwnKept
<1>8. CASE ReconcileConfirms(o) \/ SettleConfirms(o)
    <2>1. attempt \in Op
        <3>1. CASE ReconcileConfirms(o)
            BY <3>1 DEF ReconcileConfirms, TypeOK, WriteInv, LedgerInv
        <3>2. CASE SettleConfirms(o)
            BY <3>2 DEF SettleConfirms, WriteInv, LedgerInv
        <3> QED
            BY <1>8, <3>1, <3>2
    <2>2. PICK a \in Op : attempt = a
        BY <2>1
    <2> QED
        BY <1>8, <2>2, OwnConfirmed
<1> SUFFICES ASSUME foreign = 0, ReadTerms(o) \/ ReadAgain(o) \/ Send(o) \/ Refused(o)
             PROVE  (InTransitIsOpen /\ BuildingIsOpen /\ UnlandedAsSeen /\ SendsAsSeen)'
    BY <1>1, <1>2, <1>3, <1>4, <1>5, <1>6, <1>7, <1>8, <1>r
       DEF OpStep, OwnInv, ReadTerms, ReadAgain, Send, Refused, server
<1>9. InTransitIsOpen /\ BuildingIsOpen /\ UnlandedAsSeen /\ SendsAsSeen
    BY DEF OwnInv
<1>10. CASE ReadTerms(o) \/ ReadAgain(o)
    <2>1. \A p \in Op : ~Open(p)
        BY <1>10, OneOpen DEF ReadTerms, ReadAgain
    <2>2. \A p \in Op : ~Open(p)'
        BY <1>10, <2>1 DEF ReadTerms, ReadAgain, Return, Answer, Goto, TypeOK, Open
    <2>3. transit = {} /\ building = NoQuota /\ UNCHANGED server
        BY <1>9, <1>10, <2>1 DEF InTransitIsOpen, BuildingIsOpen, ReadTerms, ReadAgain, TypeOK
    <2>4. SendsAsSeen'
        <3>1. \A p \in Op \ {o} : pc'[p] = pc[p] /\ seen'[p] = seen[p]
            BY <1>10 DEF ReadTerms, ReadAgain, Return, Answer, Goto, TypeOK
        <3>2. CASE ReadTerms(o)
            BY <1>9, <2>2, <2>3, <3>1, <3>2
               DEF SendsAsSeen, ReadTerms, Return, Answer, Goto, TypeOK, server
        <3>3. CASE ReadAgain(o)
            BY <1>9, <2>2, <2>3, <3>1, <3>3
               DEF SendsAsSeen, ReadAgain, Return, Answer, Goto, TypeOK, server
        <3> QED
            BY <1>10, <3>2, <3>3
    <2> QED
        BY <2>2, <2>3, <2>4 DEF InTransitIsOpen, BuildingIsOpen, UnlandedAsSeen, server
<1>11. CASE Send(o)
    <2>1. \A p \in Op : ~Open(p)
        BY <1>11, OneOpen DEF Send
    <2>2. \A p \in Op : Open(p)' <=> p = o
        BY <1>11, <2>1 DEF Send, Goto, TypeOK, Open
    <2>3. transit = {} /\ building = NoQuota
        BY <1>9, <2>1 DEF InTransitIsOpen, BuildingIsOpen, TypeOK
    <2>4. \A p \in Op : pc'[p] \notin {"send", "reread"}
        <3>1. \A p \in Op \ {o} : pc[p] \notin Held
            BY <1>11, OneHolds DEF Send, WriteInv, Held
        <3> QED
            BY <1>11, <3>1 DEF Send, Goto, TypeOK, Held
    <2> QED
        BY <1>9, <1>11, <2>2, <2>3, <2>4
           DEF Send, InTransitIsOpen, BuildingIsOpen, UnlandedAsSeen, SendsAsSeen
<1>12. CASE Refused(o)
    <2>1. Open(o) /\ o \notin transit \cup landed /\ UNCHANGED <<server, seen, attempt>>
        BY <1>12 DEF Refused, Open
    <2>2. \A p \in Op : ~Open(p)'
        <3>1. \A p \in Op : Open(p) => p = o
            BY <2>1, OneOpen
        <3>2. attempt = NoOp
            BY <1>12 DEF Refused, WriteInv, LedgerInv
        <3> QED
            BY <1>12, <3>1, <3>2 DEF Refused, Return, Answer, Goto, TypeOK, Open
    <2>3. transit = {} /\ building = NoQuota
        BY <1>9, <2>1, OneOpen DEF InTransitIsOpen, BuildingIsOpen, TypeOK
    <2>4. \A p \in Op : pc'[p] \notin {"send", "reread"}
        BY <1>12, <2>1, OneOpen DEF Refused, Return, Answer, Goto, TypeOK
    <2> QED
        BY <2>1, <2>2, <2>3, <2>4
           DEF InTransitIsOpen, BuildingIsOpen, UnlandedAsSeen, SendsAsSeen, server
<1> QED
    BY <1>10, <1>11, <1>12

LEMMA OwnStep == TypeOK /\ WriteInv /\ OwnInv /\ [Next]_vars => OwnInv'
<1> SUFFICES ASSUME TypeOK, WriteInv, OwnInv, [Next]_vars PROVE OwnInv'
    OBVIOUS
<1> USE LedgerAssumption
<1>1. CASE UNCHANGED vars
    BY <1>1 DEF vars, server, OwnInv, InTransitIsOpen, BuildingIsOpen, UnlandedAsSeen, SendsAsSeen, Open
<1>2. ASSUME NEW o \in Op, OpStep(o) PROVE OwnInv'
    BY <1>2, OwnCallStep
<1>3. ASSUME NEW o \in Op, Land(o) PROVE OwnInv'
    <2> SUFFICES ASSUME foreign = 0
                 PROVE  (InTransitIsOpen /\ BuildingIsOpen /\ UnlandedAsSeen /\ SendsAsSeen)'
        BY <1>3 DEF OwnInv, Land
    <2>1. Open(o) /\ o \notin landed /\ \A p \in Op : Open(p)' <=> Open(p)
        BY <1>3 DEF OwnInv, InTransitIsOpen, Land, Open, WriteInv, SentInv
    <2>2. \A p \in Op : Open(p) => p = o
        BY <2>1, OneOpen
    <2>3. \A p \in Op : pc'[p] \notin {"send", "reread"}
        BY <1>3, <2>1, OneOpen DEF Land
    <2>4. quota = seen[o] /\ building = NoQuota
        BY <2>1 DEF OwnInv, UnlandedAsSeen
    <2>5. InTransitIsOpen' /\ UnlandedAsSeen' /\ SendsAsSeen'
        BY <1>3, <2>1, <2>2, <2>3 DEF OwnInv, Land, InTransitIsOpen, UnlandedAsSeen, SendsAsSeen, TypeOK
    <2>6. BuildingIsOpen'
        <3>1. building' # NoQuota => LandCreate(o) \/ LandExtend(o)
            BY <1>3, <2>4 DEF Land, LandDelete, LandToggle
        <3>2. building' # NoQuota => Operation[o] \in Creates \cup Extends /\ quota' = quota
            BY <3>1 DEF LandCreate, LandExtend
        <3>3. o \in landed' /\ Open(o)' /\ seen' = seen
            BY <1>3, <2>1 DEF Land
        <3> QED
            BY <2>4, <3>2, <3>3 DEF BuildingIsOpen
    <2> QED
        BY <2>5, <2>6
<1>4. ASSUME NEW o \in Op, Drop(o) \/ Cancel(o) PROVE OwnInv'
    BY <1>4 DEF Drop, Cancel, server, OwnInv, InTransitIsOpen, BuildingIsOpen, UnlandedAsSeen,
       SendsAsSeen, Open
<1>5. CASE Provision
    <2> SUFFICES ASSUME foreign = 0
                 PROVE  (InTransitIsOpen /\ BuildingIsOpen /\ UnlandedAsSeen /\ SendsAsSeen)'
        BY <1>5 DEF OwnInv, Provision
    <2>1. PICK o \in landed : Open(o)
        BY <1>5 DEF OwnInv, BuildingIsOpen, Provision
    <2>2. \A p \in Op : Open(p) => p = o
        BY <2>1, OneOpen DEF TypeOK
    <2>3. \A p \in Op : pc[p] \notin {"send", "reread"}
        BY <2>1, OneOpen DEF TypeOK
    <2> QED
        BY <1>5, <2>1, <2>2, <2>3
           DEF OwnInv, Provision, InTransitIsOpen, BuildingIsOpen, UnlandedAsSeen, SendsAsSeen, Open
<1>6. CASE Foreign
    BY <1>6 DEF Foreign, OwnInv, TypeOK
<1> QED
    BY <1>1, <1>2, <1>3, <1>4, <1>5, <1>6 DEF Next, AllReturned

-----------------------------------------------------------------------------
\* What a call read for its write is not read anew.
LEMMA LandedKeepsSeen ==
    ASSUME TypeOK, WriteInv, [Next]_vars, NEW p \in landed
    PROVE  seen'[p] = seen[p]
<1>1. ASSUME NEW o \in Op, OpStep(o) PROVE seen'[p] = seen[p]
    <2>1. CASE ReadTerms(o)
        BY <2>1 DEF ReadTerms, TypeOK, WriteInv, SentInv
    <2>2. CASE ~ReadTerms(o)
        BY <1>1, <2>2 DEF OpStep, Acquire, AcquireFails, ReconcileConfirms, ReconcileFails,
            ReadAgain, PrepareFails, Send, Refused, Ambiguous, Answered, SettleConfirms,
            SettleEnds, Report
    <2> QED
        BY <2>1, <2>2
<1> QED
    BY <1>1 DEF Next, Land, Drop, Cancel, Provision, Foreign, AllReturned, vars

LEMMA SettledStep ==
    TypeOK /\ WriteInv /\ OwnInv /\ SettledMeansLanded /\ [Next]_vars => SettledMeansLanded'
<1> SUFFICES ASSUME TypeOK, WriteInv, OwnInv, SettledMeansLanded, [Next]_vars
             PROVE  SettledMeansLanded'
    OBVIOUS
<1>1. foreign' = 0 => foreign = 0
    BY DEF Next, OpStep, Acquire, AcquireFails, ReconcileConfirms, ReconcileFails, ReadTerms,
           ReadAgain, PrepareFails, Send, Refused, Ambiguous, Answered, SettleConfirms, SettleEnds, Report,
           Land, Drop, Cancel, Provision, Foreign, AllReturned, vars, server, TypeOK
<1>2. landed \subseteq landed'
    BY DEF Next, OpStep, Acquire, AcquireFails, ReconcileConfirms, ReconcileFails, ReadTerms,
           ReadAgain, PrepareFails, Send, Refused, Ambiguous, Answered, SettleConfirms, SettleEnds, Report,
           Land, Drop, Cancel, Provision, Foreign, AllReturned, vars, server
<1>3. SUFFICES ASSUME NEW o \in Op, result'[o] = "settled", result[o] # "settled", foreign = 0
               PROVE  \E p \in landed' :
                          /\ Operation[p] = Operation[o]
                          /\ IF Operation[o] \in Creates THEN PackageOf[p] = PackageOf[o]
                             ELSE GuardHolds(o, seen'[p])
    <2>1. \A p \in landed : seen'[p] = seen[p]
        BY LandedKeepsSeen
    <2> QED
        BY <1>1, <1>2, <2>1 DEF SettledMeansLanded
<1>4. OpStep(o)
    BY <1>3, OthersStay DEF Next, Land, Drop, Cancel, Provision, Foreign, AllReturned, vars, server
<1>5. (ReconcileConfirms(o) /\ Matches(o, attempt)) \/ SettleConfirms(o)
    BY <1>3, <1>4 DEF OpStep, Acquire, AcquireFails, ReconcileConfirms, ReconcileFails, ReadTerms,
           ReadAgain, PrepareFails, Send, Refused, Ambiguous, Answered, SettleEnds, Report, Return, Answer,
           TypeOK, server
<1>6. CASE ReconcileConfirms(o) /\ Matches(o, attempt)
    <2>1. attempt \in Op /\ Confirmed(attempt) /\ seen' = seen
        BY <1>6 DEF ReconcileConfirms, TypeOK, WriteInv, LedgerInv
    <2>2. attempt \in landed
        BY <1>3, <2>1, ConfirmedMeansLanded
    <2> QED
        BY <1>2, <1>6, <2>1, <2>2 DEF Matches
<1>7. CASE SettleConfirms(o)
    <2>1. attempt = o /\ Confirmed(o) /\ seen' = seen
        BY <1>7 DEF SettleConfirms, WriteInv, LedgerInv
    <2>2. o \in landed
        BY <1>3, <2>1, ConfirmedMeansLanded
    <2>3. Operation[o] \notin Creates => GuardHolds(o, seen[o])
        BY <2>1 DEF WriteInv, ReadInv, Eligible
    <2> QED
        BY <1>2, <2>1, <2>2, <2>3
<1> QED
    BY <1>5, <1>6, <1>7

LEMMA LandsStep == TypeOK /\ WriteInv /\ OwnInv /\ [Next]_vars => [\A o \in landed' \ landed :
         foreign = 0 => building = NoQuota /\ quota = seen[o]]_vars
<1> SUFFICES ASSUME TypeOK, WriteInv, OwnInv, Next, NEW o \in landed' \ landed, foreign = 0
             PROVE  building = NoQuota /\ quota = seen[o]
    OBVIOUS
<1>1. o \in Op /\ Land(o)
    BY DEF Next, OpStep, Acquire, AcquireFails, ReconcileConfirms, ReconcileFails, ReadTerms,
           ReadAgain, PrepareFails, Send, Refused, Ambiguous, Answered, SettleConfirms, SettleEnds, Report,
           Land, Drop, Cancel, Provision, Foreign, AllReturned, vars, server
<1> QED
    BY <1>1 DEF Land, OwnInv, InTransitIsOpen, UnlandedAsSeen

\* When a synthetic call ends with a plain error the ledger is empty, and then
\* only a call that has not returned can have a write on its way.
LEMMA BehindStep ==
    TypeOK /\ WriteInv /\ OwnInv /\ [Next]_vars => [\A o \in Op : NoneLeftBehind(o)]_vars
<1> SUFFICES ASSUME TypeOK, WriteInv, OwnInv, Next, NEW o \in Op,
                    Operation[o] \in Reporting, foreign = 0,
                    pc[o] # "done", pc'[o] = "done", result'[o] \in Plain,
                    NEW p \in transit
             PROVE  pc[p] # "done"
    BY DEF NoneLeftBehind
<1>1. OpStep(o)
    BY OthersStay DEF Next, Land, Drop, Cancel, Provision, Foreign, AllReturned, vars
<1>2. attempt = NoOp
    <2>1. CASE Report(o)
        BY <2>1 DEF Report, TypeOK, Plain
    <2>2. CASE Refused(o)
        BY <2>2 DEF Refused, WriteInv, LedgerInv
    <2>3. CASE Acquire(o) \/ ReadAgain(o) \/ Send(o) \/ PrepareFails(o) \/ AcquireFails(o)
        BY <2>3
           DEF Acquire, ReadAgain, Send, PrepareFails, AcquireFails, Return, Answer, Goto, TypeOK, Plain
    <2>4. CASE ReconcileConfirms(o) \/ ReconcileFails(o) \/ ReadTerms(o)
        BY <2>4 DEF ReconcileConfirms, ReconcileFails, ReadTerms, Return, Answer, Goto, TypeOK, Plain
    <2>5. CASE Ambiguous(o) \/ Answered(o) \/ SettleConfirms(o) \/ SettleEnds(o)
        BY <2>5 DEF Ambiguous, Answered, SettleConfirms, SettleEnds, Return, Answer, Goto, TypeOK, Plain
    <2> QED
        BY <1>1, <2>1, <2>2, <2>3, <2>4, <2>5 DEF OpStep
<1>3. Open(p) /\ p \in Op
    BY DEF OwnInv, InTransitIsOpen, TypeOK
<1> QED
    BY <1>2, <1>3, LedgerAssumption DEF Open

\* The invariant of the ledger, for any number of calls and packages.
THEOREM LedgerCorrect == Spec => []IInv
<1>1. Init => IInv
    BY TypeInit, WriteInit, OwnInit DEF IInv
<1>2. IInv /\ [Next]_vars => IInv'
    BY TypeStep, WriteStep, OwnStep, SettledStep DEF IInv
<1> QED
    BY <1>1, <1>2, PTL DEF Spec

\* A plain error of a quota call tells the whole truth: its write has not landed
\* and never will, and no earlier write of the Client is left behind.
THEOREM FailedCorrect == Spec => PlainErrorsTrue
<1>1. IInv => FailedMeansUnacted
    BY DEF IInv, WriteInv
<1>2. IInv /\ [Next]_vars => [\A o \in Op : NoneLeftBehind(o)]_vars
    BY BehindStep DEF IInv
<1> QED
    BY <1>1, <1>2, LedgerCorrect, PTL DEF Spec, PlainErrorsTrue

\* A settled result has a write of its operation and package behind it, as long
\* as nobody else writes.
THEOREM SettledCorrect == Spec => []SettledMeansLanded
<1>1. IInv => SettledMeansLanded
    BY DEF IInv
<1> QED
    BY <1>1, LedgerCorrect, PTL

\* Every paid write lands on what its call read, as long as nobody else writes:
\* nothing is bought twice and the delete hits the quota that was looked at.
THEOREM LandsCorrect == Spec => LandsAsRead
<1>1. IInv /\ [Next]_vars => [\A o \in landed' \ landed :
         foreign = 0 => building = NoQuota /\ quota = seen[o]]_vars
    BY LandsStep DEF IInv
<1> QED
    BY <1>1, LedgerCorrect, PTL DEF Spec, LandsAsRead

=============================================================================
