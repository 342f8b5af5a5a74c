----------------------------- MODULE QuotaLedger -----------------------------
(***************************************************************************)
(* Paid and free quotas (monitor): the writes of one kind on one Client,    *)
(* either of a notification kind (create, delete, disable auto-renew) or of *)
(* the synthetic one (create, delete, renew, recover, ensure, enable).  A   *)
(* write whose outcome is not known stays in the ledger, and until a read   *)
(* confirms it no further write of the kind is prepared.  quotaMu, a        *)
(* channel of one token, is held through a whole call; most synthetic calls *)
(* look at the ledger once more after they gave it back.                    *)
(*                                                                         *)
(* Every request is sent once (TransportClient), so a write is one message, *)
(* which lands, is dropped, or lands after its call gave up on it.  Prices, *)
(* catalogs, trials and redaction are left out.                             *)
(***************************************************************************)
EXTENDS Naturals, FiniteSets

Creates == {"create", "createSynthetic"}
Deletes == {"delete", "deleteSynthetic"}
Extends == {"renew", "recover", "ensure"}
Toggles == {"disable", "enable"}

\* The calls whose errors are checked against the ledger at the very end.
Reporting == Extends \cup {"createSynthetic", "deleteSynthetic"}

CONSTANTS
    Op,          \* calls on one Client for one kind of quota
    Operation,   \* what each call does
    Package,     \* what quotas can be bought
    PackageOf,   \* the package a create asks for
    Guard,       \* the expiry a renewal expects, the identity other calls expect
    AnyQuota,    \* no identity is expected
    NoOp,        \* the ledger is empty
    NoQuota,     \* the service answers not found
    Scenes,      \* the calls of a run and the first quota, to explore
    MaxForeign   \* bound: changes that others or the calendar make

\* An identity, what was bought, until when, in which state, and auto-renew.
Quota == [id : Nat, pkg : Package, ends : Nat, status : {"ACTIVE", "IN-TRASH"}, renews : BOOLEAN]

ASSUME LedgerAssumption ==
    /\ Operation \in [Op -> Creates \cup Deletes \cup Extends \cup Toggles]
    /\ PackageOf \in [Op -> Package]
    /\ NoOp \notin Op
    /\ NoQuota \notin Quota
    /\ Scenes \subseteq [calls : SUBSET Op, quota : Quota \cup {NoQuota}]
    /\ MaxForeign \in Nat

VARIABLES
    quota,     \* the quota a read shows
    building,  \* what an order makes of it once it takes effect
    made,      \* quotas bought so far; their identities
    transit,   \* calls whose write is on its way
    landed,    \* calls whose write the service acted on
    foreign,   \* changes others made so far
    quotaMu,   \* calls holding the token of the channel
    attempt,   \* the ledger entry: the call whose write is unresolved
    pc,
    live,      \* the call's context has not ended
    seen,      \* the quota a call read before its write
    sentAt,    \* quotas bought before it sent
    result

server == <<quota, building, made, transit, landed, foreign>>
vars == <<server, quotaMu, attempt, pc, live, seen, sentAt, result>>

Held == {"reconcile", "read", "reread", "send", "flight", "settle"}
PC == {"acquire", "report", "done"} \cup Held
Plain == {"failed", "ineligible", "changed"}
Result == {"none", "nothing", "unsettled", "accepted", "settled"} \cup Plain

TypeOK ==
    /\ quota \in Quota \cup {NoQuota} /\ building \in Quota \cup {NoQuota}
    /\ made \in Nat
    /\ transit \subseteq Op /\ landed \subseteq Op
    /\ foreign \in 0..MaxForeign
    /\ quotaMu \in {{}} \cup {{o} : o \in Op}
    /\ attempt \in Op \cup {NoOp}
    /\ pc \in [Op -> PC]
    /\ live \in [Op -> BOOLEAN]
    /\ seen \in [Op -> Quota \cup {NoQuota}]
    /\ sentAt \in [Op -> Nat]
    /\ result \in [Op -> Result]

Init ==
    \E s \in Scenes :
        /\ quota = s.quota /\ building = NoQuota /\ made = 0
        /\ transit = {} /\ landed = {} /\ foreign = 0
        /\ quotaMu = {} /\ attempt = NoOp
        /\ pc = [o \in Op |-> IF o \in s.calls THEN "acquire" ELSE "done"]
        /\ live = [o \in Op |-> TRUE]
        /\ seen = [o \in Op |-> NoQuota]
        /\ sentAt = [o \in Op |-> 0]
        /\ result = [o \in Op |-> "none"]

-----------------------------------------------------------------------------
\* What a call asks for and what a read must show.

\* syntheticGuardMismatch, lifecycleExpectedID: a renewal names the expiry it
\* extends, the other calls may name the quota.
GuardHolds(o, q) ==
    \/ Guard[o] = AnyQuota
    \/ q # NoQuota /\ Guard[o] = IF Operation[o] = "renew" THEN q.ends ELSE q.id

Target(o) == Operation[o] = "enable"

\* What an order of the extending calls does is chosen by the first read.
Action(o, q) ==
    IF Operation[o] # "ensure" THEN Operation[o]
    ELSE IF q.status = "ACTIVE" THEN "renew" ELSE "recover"

\* lifecycleDeleteEligible.
MayDelete(q) == q.status = "ACTIVE" /\ ~q.renews

\* syntheticEligible.
MayExtend(o, q) ==
    /\ ~q.renews
    /\ q.status = IF Action(o, q) = "recover" THEN "IN-TRASH" ELSE "ACTIVE"

Eligible(o, q) ==
    IF Operation[o] \in Creates THEN q = NoQuota
    ELSE /\ q # NoQuota /\ GuardHolds(o, q)
         /\ Operation[o] \in Deletes => MayDelete(q)
         /\ Operation[o] \in Extends => MayExtend(o, q)
         /\ Operation[o] \in Toggles => q.renews # Target(o)

\* The setting is what was asked for, or the renewal is not due.
NothingToDo(o, q) ==
    /\ q # NoQuota /\ GuardHolds(o, q)
    /\ \/ Operation[o] \in Toggles /\ q.renews = Target(o)
       \/ Operation[o] \in Extends /\ MayExtend(o, q) /\ Action(o, q) = "renew"

\* The reconcilers of the creates: an ACTIVE quota of the package, and, of a
\* synthetic one, no older than the order.
ConfirmedCreate(a) ==
    /\ quota # NoQuota /\ quota.pkg = PackageOf[a] /\ quota.status = "ACTIVE"
    /\ Operation[a] = "createSynthetic" => quota.id > sentAt[a]

SameQuota(a) == quota # NoQuota /\ quota.id = seen[a].id /\ quota.pkg = seen[a].pkg

\* syntheticMutationReconciler: the same quota, ACTIVE, with a later expiry.
ConfirmedExtend(a) ==
    SameQuota(a) /\ quota.status = "ACTIVE" /\ quota.ends > seen[a].ends

\* lifecycleReconciler, for a setting.
ConfirmedToggle(a) == SameQuota(a) /\ quota.renews = Target(a)

Confirmed(a) ==
    \/ Operation[a] \in Creates /\ ConfirmedCreate(a)
    \/ Operation[a] \in Deletes /\ quota = NoQuota
    \/ Operation[a] \in Extends /\ ConfirmedExtend(a)
    \/ Operation[a] \in Toggles /\ ConfirmedToggle(a)

\* Mutated Matches: a confirmed attempt answers any call of its operation.
MatchesOperation(o, a) == Operation[o] = Operation[a]

\* quotaAttemptKey.matches, as reconcileQuotaAttempt's callers build the key,
\* and the tests of the synthetic calls.
Matches(o, a) ==
    /\ Operation[o] = Operation[a]
    /\ IF Operation[o] \in Creates THEN PackageOf[o] = PackageOf[a] ELSE GuardHolds(o, seen[a])

\* runQuotaLifecycle compares the identity before it reconciles, unless the
\* attempt carries send evidence.
GuardRefuses(o, a) ==
    /\ Operation[o] \in {"delete"} \cup Toggles
    /\ Operation[a] \notin Reporting
    /\ ~GuardHolds(o, seen[a])

-----------------------------------------------------------------------------
Goto(o, where) == pc' = [pc EXCEPT ![o] = where]

\* A plain error of most synthetic calls passes the deferred look at the ledger.
Answer(o, r) ==
    /\ Goto(o, IF r \in Plain /\ Operation[o] \in Reporting THEN "report" ELSE "done")
    /\ result' = [result EXCEPT ![o] = r]

\* The call returns and its deferred release runs.
Return(o, r) == Answer(o, r) /\ quotaMu' = quotaMu \ {o}

\* Mutated Acquire: a context that ended before the token was taken leaks it.
AcquireLeaks(o) ==
    /\ pc[o] = "acquire" /\ quotaMu = {}
    /\ quotaMu' = {o}
    /\ \/ live[o] /\ Goto(o, IF attempt = NoOp THEN "read" ELSE "reconcile") /\ UNCHANGED result
       \/ ~live[o] /\ Answer(o, "failed")
    /\ UNCHANGED <<server, attempt, live, seen, sentAt>>

\* acquire, and the branch on the ledger: an open attempt is reconciled before
\* anything is prepared.
Acquire(o) ==
    /\ pc[o] = "acquire" /\ quotaMu = {} /\ live[o]
    /\ quotaMu' = {o}
    /\ Goto(o, IF attempt = NoOp THEN "read" ELSE "reconcile")
    /\ UNCHANGED <<server, attempt, live, seen, sentAt, result>>

\* The context ended while waiting, or the select took the token all the same.
AcquireFails(o) ==
    /\ pc[o] = "acquire" /\ ~live[o]
    /\ Answer(o, "failed")
    /\ UNCHANGED <<server, quotaMu, attempt, live, seen, sentAt>>

\* reconcileQuotaAttempt: the attempt is confirmed and leaves the ledger; only
\* a call with the same key may report its success.
ReconcileConfirms(o) ==
    /\ pc[o] = "reconcile" /\ live[o]
    /\ ~GuardRefuses(o, attempt) /\ Confirmed(attempt)
    /\ attempt' = NoOp
    /\ Return(o, IF Matches(o, attempt) THEN "settled" ELSE "changed")
    /\ UNCHANGED <<server, live, seen, sentAt>>

\* Not confirmed, a read that failed, or the bound of the wait; and the
\* identity that does not fit.
ReconcileFails(o) ==
    /\ pc[o] = "reconcile"
    /\ Return(o, IF GuardRefuses(o, attempt) THEN "ineligible" ELSE "unsettled")
    /\ UNCHANGED <<server, attempt, live, seen, sentAt>>

\* The first read of the terms.  An order of a notification quota reads no
\* more before it sends.
ReadTerms(o) ==
    /\ pc[o] = "read" /\ live[o]
    /\ seen' = [seen EXCEPT ![o] = quota]
    /\ \/ /\ Eligible(o, quota)
          /\ Goto(o, IF Operation[o] = "create" THEN "send" ELSE "reread")
          /\ UNCHANGED <<quotaMu, result>>
       \/ NothingToDo(o, quota) /\ Return(o, "nothing")
       \/ ~Eligible(o, quota) /\ ~NothingToDo(o, quota) /\ Return(o, "ineligible")
    /\ UNCHANGED <<server, attempt, live, sentAt>>

\* The same terms are read again right before the send.
ReadAgain(o) ==
    /\ pc[o] = "reread" /\ live[o]
    /\ \/ quota = seen[o] /\ Goto(o, "send") /\ UNCHANGED <<quotaMu, result>>
       \/ quota # seen[o] /\ Return(o, "ineligible")
    /\ UNCHANGED <<server, attempt, live, seen, sentAt>>

\* A read failed, a price was refused, or the context ended before the send.
PrepareFails(o) ==
    /\ pc[o] \in {"read", "reread", "send"}
    /\ Return(o, "failed")
    /\ UNCHANGED <<server, attempt, live, seen, sentAt>>

Send(o) ==
    /\ pc[o] = "send" /\ live[o]
    /\ transit' = transit \cup {o}
    /\ sentAt' = [sentAt EXCEPT ![o] = made]
    /\ Goto(o, "flight")
    /\ UNCHANGED <<quota, building, made, landed, foreign, quotaMu, attempt, live, seen, result>>

\* Mutated Refused: every error of the write is returned as it is.
RefusedByAny(o) ==
    /\ pc[o] = "flight"
    /\ Return(o, "failed")
    /\ UNCHANGED <<server, attempt, live, seen, sentAt>>

\* sendQuotaMutation's definite errors: a 4xx, or nothing was sent.  A 4xx is
\* evidence of its own, so only the delete looks at the ledger again.
Refused(o) ==
    /\ pc[o] = "flight" /\ o \notin transit /\ o \notin landed
    /\ quotaMu' = quotaMu \ {o}
    /\ \/ Answer(o, "failed")
       \/ Operation[o] # "deleteSynthetic" /\ Goto(o, "done") /\ result' = [result EXCEPT ![o] = "failed"]
    /\ UNCHANGED <<server, attempt, live, seen, sentAt>>

\* Mutated Ambiguous: only an answered write is recorded.
AmbiguousForgotten(o) ==
    /\ pc[o] = "flight"
    /\ Return(o, "unsettled")
    /\ UNCHANGED <<server, attempt, live, seen, sentAt>>

\* Any other error: the write is recorded as unresolved.
Ambiguous(o) ==
    /\ pc[o] = "flight"
    /\ attempt' = o
    /\ Return(o, "unsettled")
    /\ UNCHANGED <<server, live, seen, sentAt>>

\* A success is recorded too: a body that cannot be decoded or a payment that
\* is due leaves it open, NoWait does, else the call waits.
Answered(o) ==
    /\ pc[o] = "flight" /\ o \in landed
    /\ attempt' = o
    /\ \/ Goto(o, "settle") /\ UNCHANGED <<quotaMu, result>>
       \/ Return(o, "unsettled")
       \/ Operation[o] \in Creates \cup Extends /\ Return(o, "accepted")
    /\ UNCHANGED <<server, live, seen, sentAt>>

\* waitQuotaAttempt: a read that confirms, or the bound or an error.
SettleConfirms(o) ==
    /\ pc[o] = "settle" /\ live[o] /\ Confirmed(o)
    /\ attempt' = NoOp
    /\ Return(o, "settled")
    /\ UNCHANGED <<server, live, seen, sentAt>>

SettleEnds(o) ==
    /\ pc[o] = "settle"
    /\ Return(o, "unsettled")
    /\ UNCHANGED <<server, attempt, live, seen, sentAt>>

\* Mutated Report: what the ledger holds is not looked at.
ReportBlindly(o) ==
    /\ pc[o] = "report"
    /\ Goto(o, "done")
    /\ UNCHANGED <<server, quotaMu, attempt, live, seen, sentAt, result>>

\* The deferred look at the ledger, without the token: a plain error becomes
\* the unsettled one while an attempt of the Client is open.
Report(o) ==
    /\ pc[o] = "report"
    /\ Goto(o, "done")
    /\ result' = [result EXCEPT ![o] = IF attempt = NoOp THEN @ ELSE "unsettled"]
    /\ UNCHANGED <<server, quotaMu, attempt, live, seen, sentAt>>

-----------------------------------------------------------------------------
Bought(n, p) == [id |-> n, pkg |-> p, ends |-> n, status |-> "ACTIVE", renews |-> FALSE]
Extended(q) == [q EXCEPT !.ends = q.ends + 1, !.status = "ACTIVE"]
Expired(q) == [q EXCEPT !.status = "IN-TRASH"]

\* The service acts on a write.  An order is charged and takes effect later, a
\* delete removes whatever quota the kind has, a setting names its quota.
LandCreate(o) ==
    /\ Operation[o] \in Creates
    /\ made' = made + 1
    /\ building' = Bought(made + 1, PackageOf[o])
    /\ UNCHANGED quota

LandDelete(o) ==
    /\ Operation[o] \in Deletes
    /\ quota' = NoQuota
    /\ UNCHANGED <<made, building>>

LandExtend(o) ==
    /\ Operation[o] \in Extends /\ quota # NoQuota
    /\ quota.status = IF Action(o, seen[o]) = "recover" THEN "IN-TRASH" ELSE "ACTIVE"
    /\ building' = Extended(quota)
    /\ UNCHANGED <<quota, made>>

LandToggle(o) ==
    /\ Operation[o] \in Toggles /\ quota # NoQuota /\ quota.id = seen[o].id
    /\ quota' = [quota EXCEPT !.renews = Target(o)]
    /\ UNCHANGED <<made, building>>

Land(o) ==
    /\ o \in transit
    /\ transit' = transit \ {o}
    /\ landed' = landed \cup {o}
    /\ LandCreate(o) \/ LandDelete(o) \/ LandExtend(o) \/ LandToggle(o)
    /\ UNCHANGED <<foreign, quotaMu, attempt, pc, live, seen, sentAt, result>>

Drop(o) ==
    /\ o \in transit
    /\ transit' = transit \ {o}
    /\ UNCHANGED <<quota, building, made, landed, foreign, quotaMu, attempt, pc, live, seen, sentAt, result>>

\* The order takes effect, perhaps only after somebody paid; what others did
\* since may leave it without.
Provision ==
    /\ building # NoQuota
    /\ building' = NoQuota
    /\ quota' = building \/ (foreign > 0 /\ UNCHANGED quota)
    /\ UNCHANGED <<made, transit, landed, foreign, quotaMu, attempt, pc, live, seen, sentAt, result>>

\* The console or another Client removes, extends or sets a quota, or it
\* expires.
ByOthers(q) ==
    {NoQuota, Expired(q), Extended(q), [q EXCEPT !.renews = TRUE], [q EXCEPT !.renews = FALSE]} \ {q}

Foreign ==
    /\ foreign < MaxForeign /\ foreign' = foreign + 1
    /\ \/ quota # NoQuota /\ quota' \in ByOthers(quota) /\ UNCHANGED made
       \/ /\ quota = NoQuota
          /\ made' = made + 1 /\ \E p \in Package : quota' = Bought(made + 1, p)
    /\ UNCHANGED <<building, transit, landed, quotaMu, attempt, pc, live, seen, sentAt, result>>

Cancel(o) ==
    /\ pc[o] # "done" /\ live[o]
    /\ live' = [live EXCEPT ![o] = FALSE]
    /\ UNCHANGED <<server, quotaMu, attempt, pc, seen, sentAt, result>>

AllReturned ==
    /\ \A o \in Op : pc[o] = "done"
    /\ UNCHANGED vars

OpStep(o) ==
    \/ Acquire(o) \/ AcquireFails(o)
    \/ ReconcileConfirms(o) \/ ReconcileFails(o)
    \/ ReadTerms(o) \/ ReadAgain(o) \/ PrepareFails(o)
    \/ Send(o) \/ Refused(o) \/ Ambiguous(o) \/ Answered(o)
    \/ SettleConfirms(o) \/ SettleEnds(o) \/ Report(o)

Next ==
    \/ \E o \in Op : OpStep(o) \/ Land(o) \/ Drop(o) \/ Cancel(o)
    \/ Provision \/ Foreign
    \/ AllReturned

Spec == Init /\ [][Next]_vars

\* Requests and waits have bounds, so some call goes on, and no call has more
\* than a few steps.  The service owes nothing: an order may never take effect.
FairSpec == Spec /\ WF_vars(\E o \in Op : OpStep(o))

-----------------------------------------------------------------------------
\* Properties.

\* As long as only this Client writes, every write lands on what its call
\* read: an order on no quota and no other order, so nothing is bought twice,
\* an extension on the expiry it was priced for, so nothing is extended twice,
\* and a delete, which names no quota, on the one the call looked at.  Writes
\* with lost answers and orders that take effect slowly included.
LandsAsRead ==
    [][\A o \in landed' \ landed :
         foreign = 0 => building = NoQuota /\ quota = seen[o]]_vars

\* A settled result, also one reported by a later call, stands for a write of
\* the same operation that the service acted on, and of the package, or on the
\* quota and the expiry, that the call named.
SettledMeansLanded ==
    \A o \in Op :
        result[o] = "settled" /\ foreign = 0 =>
            \E p \in landed :
                /\ Operation[p] = Operation[o]
                /\ IF Operation[o] \in Creates THEN PackageOf[p] = PackageOf[o]
                   ELSE GuardHolds(o, seen[p])

\* Any error but the unsettled one, and a call with nothing to do, promises
\* that the call's own write has not landed and never will.
FailedMeansUnacted ==
    \A o \in Op :
        result[o] \in Plain \cup {"nothing"} => o \notin landed \cup transit

\* When a synthetic call ends with such an error, no write of a call that has
\* returned is still on its way, as long as nobody else writes.
NoneLeftBehind(o) ==
    /\ Operation[o] \in Reporting /\ foreign = 0
    /\ pc[o] # "done" /\ pc'[o] = "done" /\ result'[o] \in Plain
    => \A p \in transit : pc[p] # "done"

\* A plain error tells the whole truth: of the call's own write, and, from the
\* synthetic calls, of every earlier write of the Client.
PlainErrorsTrue == []FailedMeansUnacted /\ [][\A o \in Op : NoneLeftBehind(o)]_vars

\* Every call returns: the token of the channel always comes back.
CallsReturn == <>(\A o \in Op : pc[o] = "done")
=============================================================================
