-------------------------- MODULE TransportClient --------------------------
(***************************************************************************)
(* One internal/transport Client shared by concurrent calls.  A call is    *)
(* one doAuthenticated: ensure a token, send with retries, recover once    *)
(* from a 401.  Shared state is the token slot and refreshMu; the token    *)
(* source and the server are external and nondeterministic.                *)
(*                                                                         *)
(* Times are abstract: a slot is fresh or needs refresh, and a context is  *)
(* live or ended.  Bodies, headers, redaction and logging are left out.    *)
(***************************************************************************)
EXTENDS Naturals

CONSTANTS
    Call,        \* calls in progress on the shared Client
    Token,       \* access tokens the source may hand out
    NoToken,     \* the empty access token
    NoCall,      \* refreshMu is unlocked
    Requests,    \* what the calls may carry, a set of functions from Call to Request
    RetryCount   \* Config.RetryCount after New's clamping

\* The fields of Request that decide control.  noRedirect is refuseRedirects.
Request == [once : BOOLEAN, idem : BOOLEAN, uses : BOOLEAN, noRedirect : BOOLEAN]

ASSUME ConstantsAssumption ==
    /\ NoToken \notin Token
    /\ NoCall \notin Call
    /\ Requests \subseteq [Call -> Request]
    /\ \A r \in Requests : \A c \in Call : r[c].once => r[c].noRedirect
    /\ RetryCount \in Nat

VARIABLES
    slot,        \* c.token: the access token and whether it is still fresh
    refreshMu,   \* the call holding c.refreshMu, or NoCall
    pc,          \* where each call is
    req,         \* the request each call carries
    live,        \* the call's context has not ended
    sent,        \* the token placed on the call's latest attempt
    attempt,     \* index of the attempt inside send
    recovered,   \* the call is past its 401 recovery
    safe,        \* notSentState: no attempt so far can have reached a server
    result,      \* what the call returned
    \* history, kept for the properties only
    sends,       \* attempts handed to the HTTP client
    acted,       \* times a handler at the server acted on the call
    reached,     \* the server may have received bytes of the call
    redirected,  \* a redirect of the call was followed
    rejected     \* tokens the server has answered 401 to

local == <<pc, req, live, sent, attempt, recovered, safe, result>>
history == <<sends, acted, reached, redirected, rejected>>
vars == <<slot, refreshMu, local, history>>

Slot == [tok : Token \cup {NoToken}, fresh : BOOLEAN]

\* Outcome classes of one call.
Kind == {"none", "ok", "r3xx", "r401", "r429", "r5xx", "rOther", "error"}
Result == [kind : Kind, retryable : BOOLEAN, notSent : BOOLEAN]

Waiting == {"lockEnsure", "lock401", "lockOnce"}
Holding == {"fetch", "invalidate", "invalidateOnce"}
Sending == {"attempt", "flight", "sleep"}
PC == {"idle", "ensure", "done"} \cup Waiting \cup Holding \cup Sending

TypeOK ==
    /\ slot \in Slot
    /\ refreshMu \in Call \cup {NoCall}
    /\ pc \in [Call -> PC]
    /\ req \in Requests
    /\ live \in [Call -> BOOLEAN]
    /\ sent \in [Call -> Token \cup {NoToken}]
    /\ attempt \in [Call -> 0..RetryCount]
    /\ recovered \in [Call -> BOOLEAN]
    /\ safe \in [Call -> BOOLEAN]
    /\ result \in [Call -> Result]
    /\ sends \in [Call -> Nat]
    /\ acted \in [Call -> Nat]
    /\ reached \in [Call -> BOOLEAN]
    /\ redirected \in [Call -> BOOLEAN]
    /\ rejected \in SUBSET (Token \cup {NoToken})

Init ==
    /\ slot = [tok |-> NoToken, fresh |-> FALSE]
    /\ refreshMu = NoCall
    /\ pc = [c \in Call |-> "idle"]
    /\ req \in Requests
    /\ live = [c \in Call |-> TRUE]
    /\ sent = [c \in Call |-> NoToken]
    /\ attempt = [c \in Call |-> 0]
    /\ recovered = [c \in Call |-> FALSE]
    /\ safe = [c \in Call |-> TRUE]
    /\ result = [c \in Call |-> [kind |-> "none", retryable |-> FALSE, notSent |-> FALSE]]
    /\ sends = [c \in Call |-> 0]
    /\ acted = [c \in Call |-> 0]
    /\ reached = [c \in Call |-> FALSE]
    /\ redirected = [c \in Call |-> FALSE]
    /\ rejected = {}

-----------------------------------------------------------------------------
\* Helpers shared by the actions.

\* Token.NeedsRefresh.
NeedsRefresh(s) == s.tok = NoToken \/ ~s.fresh

\* Mutated MaxAttempt: Once does not force a single attempt.
MaxAttemptForAll(r) == RetryCount

\* send's maxAttempts: Once forces a single attempt.
MaxAttempt(r) == IF r.once THEN 0 ELSE RetryCount

\* Mutated RetryableStatusOf: a Once GET is marked retryable after a 5xx.
RetryableStatusOfMethod(r, kind) == kind = "r429" \/ (r.idem /\ kind = "r5xx")

\* Request.retryable, the flag decodeError puts on a failing status.
RetryableStatusOf(r, kind) ==
    \/ kind = "r429"
    \/ ~r.once /\ r.idem /\ kind = "r5xx"

\* Mutated RetryStatus: a 5xx is retried for every method.
RetryStatusOfAny(r, kind) == kind \in {"r429", "r5xx"}

\* send's own decision to resend after a status (maxAttempts stops Once).
RetryStatus(r, kind) == kind = "r429" \/ (r.idem /\ kind = "r5xx")

\* send's lastRetryable after client.Do failed.
LastRetryable(r, dial) == dial \/ (~r.once /\ r.idem)

\* Mutated StillSafe: the latest attempt alone decides.
LatestSafe(c, dial, hop) == dial /\ ~hop

\* notSentState.observeSend: one attempt that may have reached a server taints
\* the whole call, and a followed redirect had a connection.
StillSafe(c, dial, hop) == safe[c] /\ dial /\ ~hop

Goto(c, where) == pc' = [pc EXCEPT ![c] = where]

\* The call returns an error: NotSent is reported only while still safe.
Fail(c, retryable, isSafe) ==
    /\ Goto(c, "done")
    /\ result' = [result EXCEPT ![c] =
         [kind |-> "error", retryable |-> retryable, notSent |-> isSafe]]

\* The call returns the status it observed.
Answer(c, kind) ==
    /\ Goto(c, "done")
    /\ result' = [result EXCEPT ![c] =
         [kind |-> kind, retryable |-> RetryableStatusOf(req[c], kind), notSent |-> FALSE]]

Lock(c) == refreshMu = NoCall /\ refreshMu' = c
Unlock(c) == refreshMu = c /\ refreshMu' = NoCall

-----------------------------------------------------------------------------
\* EnsureToken and refreshToken.

\* doAuthenticated begins; a request without the IAM token skips EnsureToken.
Start(c) ==
    /\ pc[c] = "idle"
    /\ Goto(c, IF req[c].uses THEN "ensure" ELSE "attempt")
    /\ UNCHANGED <<slot, refreshMu, req, live, sent, attempt, recovered, safe, result, history>>

\* EnsureToken: an ended context fails, a fresh slot is used, else refresh.
EnsureToken(c) ==
    /\ pc[c] = "ensure"
    /\ \/ ~live[c] /\ Fail(c, FALSE, safe[c])
       \/ live[c] /\ ~NeedsRefresh(slot) /\ Goto(c, "attempt") /\ UNCHANGED result
       \/ live[c] /\ NeedsRefresh(slot) /\ Goto(c, "lockEnsure") /\ UNCHANGED result
    /\ UNCHANGED <<slot, refreshMu, req, live, sent, attempt, recovered, safe, history>>

\* refreshToken takes refreshMu and finds it has nothing to do.
RefreshSkips(c) ==
    /\ pc[c] = "lockEnsure" /\ refreshMu = NoCall
    /\ \/ ~live[c] /\ Fail(c, FALSE, safe[c])
       \/ live[c] /\ ~NeedsRefresh(slot) /\ Goto(c, "attempt") /\ UNCHANGED result
    /\ UNCHANGED <<slot, refreshMu, req, live, sent, attempt, recovered, safe, history>>

\* Mutated RefreshFetches: the slot is not looked at again under refreshMu.
RefreshFetchesAgain(c) ==
    /\ pc[c] = "lockEnsure" /\ Lock(c)
    /\ live[c]
    /\ Goto(c, "fetch")
    /\ UNCHANGED <<slot, req, live, sent, attempt, recovered, safe, result, history>>

\* refreshToken takes refreshMu and calls the token source.
RefreshFetches(c) ==
    /\ pc[c] = "lockEnsure" /\ Lock(c)
    /\ live[c] /\ NeedsRefresh(slot)
    /\ Goto(c, "fetch")
    /\ UNCHANGED <<slot, req, live, sent, attempt, recovered, safe, result, history>>

\* The source answered with a usable token before the context ended: commit.
FetchCommits(c, t, fresh) ==
    /\ pc[c] = "fetch" /\ live[c]
    /\ slot' = [tok |-> t, fresh |-> fresh]
    /\ Unlock(c)
    /\ attempt' = [attempt EXCEPT ![c] = 0]
    /\ Goto(c, "attempt")
    /\ UNCHANGED <<req, live, sent, recovered, safe, result, history>>

\* Mutated FetchFails: the error return forgets to unlock.
FetchFailsLocked(c) ==
    /\ pc[c] = "fetch"
    /\ Fail(c, FALSE, safe[c])
    /\ UNCHANGED <<slot, refreshMu, req, live, sent, attempt, recovered, safe, history>>

\* The source failed, returned no token, or the context ended: slot is kept.
FetchFails(c) ==
    /\ pc[c] = "fetch"
    /\ Unlock(c)
    /\ Fail(c, FALSE, safe[c])
    /\ UNCHANGED <<slot, req, live, sent, attempt, recovered, safe, history>>

-----------------------------------------------------------------------------
\* send: one attempt, the server's answer, the wait before the next attempt.

\* send reads the slot for every attempt and refuses to go out without a
\* token.  On an ended context it fails at the NotSent check, or in client.Do
\* before a byte is written followed by a sleep that ends at once.
Attempt(c) ==
    /\ pc[c] = "attempt"
    /\ \/ /\ req[c].uses /\ slot.tok = NoToken
          /\ Fail(c, FALSE, safe[c])
          /\ UNCHANGED <<sent, sends>>
       \/ /\ ~live[c]
          /\ ~(req[c].uses /\ slot.tok = NoToken)
          /\ Fail(c, FALSE, safe[c])
          /\ sent' = IF req[c].uses THEN [sent EXCEPT ![c] = slot.tok] ELSE sent
          /\ UNCHANGED sends
       \/ /\ live[c]
          /\ req[c].uses => slot.tok # NoToken
          /\ sent' = IF req[c].uses THEN [sent EXCEPT ![c] = slot.tok] ELSE sent
          /\ sends' = [sends EXCEPT ![c] = @ + 1]
          /\ Goto(c, "flight")
          /\ UNCHANGED result
    /\ UNCHANGED <<slot, refreshMu, req, live, attempt, recovered, safe,
                   acted, reached, redirected, rejected>>

\* What a failed or status-retried attempt does next: sleep, or give up.
RetryOr(c, retry, giveUp) ==
    IF retry /\ attempt[c] < MaxAttempt(req[c])
    THEN Goto(c, "sleep") /\ UNCHANGED result
    ELSE giveUp

\* How an attempt ended at the server.  hop: a redirect was followed first, so
\* the handler at the first address may have acted.  Without a hop, a failed
\* dial, a 429 and a 401 mean that nothing acted.
Effect(c, act, hop) ==
    /\ hop => ~req[c].noRedirect
    /\ acted' = [acted EXCEPT ![c] = @ + act]
    /\ redirected' = [redirected EXCEPT ![c] = @ \/ hop]

\* client.Do failed, while dialing or later.
DoFails(c, dial, act, hop) ==
    /\ pc[c] = "flight"
    /\ dial /\ ~hop => act = 0
    /\ Effect(c, act, hop)
    /\ LET safeNow == StillSafe(c, dial, hop)
           again == LastRetryable(req[c], dial)
       IN /\ safe' = [safe EXCEPT ![c] = safeNow]
          /\ RetryOr(c, again, Fail(c, live[c] /\ again, safeNow))
    /\ reached' = [reached EXCEPT ![c] = @ \/ ~dial \/ hop]
    /\ UNCHANGED <<slot, refreshMu, req, live, sent, attempt, recovered, sends, rejected>>

\* The response came but its body could not be read: never retried.
BodyFails(c, act, hop) ==
    /\ pc[c] = "flight"
    /\ Effect(c, act, hop)
    /\ safe' = [safe EXCEPT ![c] = FALSE]
    /\ Fail(c, FALSE, FALSE)
    /\ reached' = [reached EXCEPT ![c] = TRUE]
    /\ UNCHANGED <<slot, refreshMu, req, live, sent, attempt, recovered, sends, rejected>>

\* A status other than a 401 on a request with the IAM token.
Responds(c, kind, act, hop) ==
    /\ pc[c] = "flight"
    /\ kind = "ok" => act = 1
    /\ kind = "r429" /\ ~hop => act = 0
    /\ kind = "r3xx" => req[c].noRedirect
    /\ Effect(c, act, hop)
    /\ safe' = [safe EXCEPT ![c] = FALSE]
    /\ RetryOr(c, RetryStatus(req[c], kind), Answer(c, kind))
    /\ reached' = [reached EXCEPT ![c] = TRUE]
    /\ UNCHANGED <<slot, refreshMu, req, live, sent, attempt, recovered, sends, rejected>>

\* A 401: the first one starts recovery, Once invalidates without resending,
\* the second one of a call is its answer.
Unauthorized(c, act, hop) ==
    /\ pc[c] = "flight" /\ req[c].uses
    /\ ~hop => act = 0
    /\ Effect(c, act, hop)
    /\ safe' = [safe EXCEPT ![c] = FALSE]
    /\ rejected' = rejected \cup {sent[c]}
    /\ reached' = [reached EXCEPT ![c] = TRUE]
    /\ \/ recovered[c] /\ Answer(c, "r401") /\ UNCHANGED recovered
       \/ ~recovered[c] /\ req[c].once /\ Goto(c, "lockOnce") /\ UNCHANGED <<result, recovered>>
       \/ /\ ~recovered[c] /\ ~req[c].once /\ Goto(c, "lock401")
          /\ recovered' = [recovered EXCEPT ![c] = TRUE]
          /\ UNCHANGED result
    /\ UNCHANGED <<slot, refreshMu, req, live, sent, attempt, sends>>

\* sleepContext returns: the timer fired, or the context ended first.
Wake(c) ==
    /\ pc[c] = "sleep"
    /\ \/ /\ Goto(c, "attempt")
          /\ attempt' = [attempt EXCEPT ![c] = @ + 1]
          /\ UNCHANGED result
       \/ ~live[c] /\ Fail(c, FALSE, safe[c]) /\ UNCHANGED attempt
    /\ UNCHANGED <<slot, refreshMu, req, live, sent, recovered, safe, history>>

-----------------------------------------------------------------------------
\* invalidateAndRefresh: the 401 recovery of an ordinary request.

\* Mutated StillCurrent: the token sent is not compared with the slot.
SentOne(c) == sent[c] # NoToken

\* The slot still holds the token of the attempt that got the 401.
StillCurrent(c) == sent[c] # NoToken /\ slot.tok = sent[c]

\* Under refreshMu: the context ended, or another call already replaced the
\* token and the replacement is fresh.
RecoverySkips(c) ==
    /\ pc[c] = "lock401" /\ refreshMu = NoCall
    /\ \/ ~live[c] /\ Fail(c, FALSE, safe[c]) /\ UNCHANGED attempt
       \/ /\ live[c] /\ ~StillCurrent(c) /\ ~NeedsRefresh(slot)
          /\ attempt' = [attempt EXCEPT ![c] = 0]
          /\ Goto(c, "attempt")
          /\ UNCHANGED result
    /\ UNCHANGED <<slot, refreshMu, req, live, sent, recovered, safe, history>>

\* Under refreshMu: a current token is first invalidated at the source; a
\* replaced one that has gone stale is only fetched anew.
RecoveryLocks(c) ==
    /\ pc[c] = "lock401" /\ Lock(c) /\ live[c]
    /\ \/ StillCurrent(c) /\ Goto(c, "invalidate")
       \/ ~StillCurrent(c) /\ NeedsRefresh(slot) /\ Goto(c, "fetch")
    /\ UNCHANGED <<slot, req, live, sent, attempt, recovered, safe, result, history>>

\* invalidateContext returned nil: fetch the replacement, the slot untouched.
InvalidateDone(c) ==
    /\ pc[c] = "invalidate"
    /\ Goto(c, "fetch")
    /\ UNCHANGED <<slot, refreshMu, req, live, sent, attempt, recovered, safe, result, history>>

\* invalidateContext failed, which it does only on an ended context.
InvalidateFails(c) ==
    /\ pc[c] \in {"invalidate", "invalidateOnce"} /\ ~live[c]
    /\ Unlock(c)
    /\ Fail(c, FALSE, safe[c])
    /\ UNCHANGED <<slot, req, live, sent, attempt, recovered, safe, history>>

\* invalidateOnceContext: ended context, or the token was already replaced.
OnceSkips(c) ==
    /\ pc[c] = "lockOnce" /\ refreshMu = NoCall
    /\ \/ ~live[c] /\ Fail(c, FALSE, safe[c])
       \/ live[c] /\ slot.tok # sent[c] /\ Answer(c, "r401")
    /\ UNCHANGED <<slot, refreshMu, req, live, sent, attempt, recovered, safe, history>>

OnceLocks(c) ==
    /\ pc[c] = "lockOnce" /\ Lock(c)
    /\ live[c] /\ slot.tok = sent[c]
    /\ Goto(c, "invalidateOnce")
    /\ UNCHANGED <<slot, req, live, sent, attempt, recovered, safe, result, history>>

\* The sent token stays readable, marked as needing a refresh.
OnceMarks(c) ==
    /\ pc[c] = "invalidateOnce" /\ live[c]
    /\ slot' = [tok |-> sent[c], fresh |-> FALSE]
    /\ Unlock(c)
    /\ Answer(c, "r401")
    /\ UNCHANGED <<req, live, sent, attempt, recovered, safe, history>>

-----------------------------------------------------------------------------
\* Environment: a caller's context ends, the token's last 30 seconds begin.

Cancel(c) ==
    /\ pc[c] \notin {"idle", "done"} /\ live[c]
    /\ live' = [live EXCEPT ![c] = FALSE]
    /\ UNCHANGED <<slot, refreshMu, pc, req, sent, attempt, recovered, safe, result, history>>

Expire ==
    /\ slot.tok # NoToken /\ slot.fresh
    /\ slot' = [slot EXCEPT !.fresh = FALSE]
    /\ UNCHANGED <<refreshMu, local, history>>

\* Every call has returned and nobody makes another.
AllReturned ==
    /\ \A c \in Call : pc[c] = "done"
    /\ UNCHANGED vars

Status == {"ok", "r3xx", "r429", "r5xx", "rOther"}

\* Steps of a call that its own goroutine, the source or the server takes.
CallStep(c) ==
    \/ Start(c) \/ EnsureToken(c) \/ RefreshSkips(c) \/ RefreshFetches(c)
    \/ \E t \in Token, f \in BOOLEAN : FetchCommits(c, t, f)
    \/ FetchFails(c)
    \/ Attempt(c)
    \/ \E act \in 0..1, hop \in BOOLEAN :
          \/ \E dial \in BOOLEAN : DoFails(c, dial, act, hop)
          \/ BodyFails(c, act, hop)
          \/ \E k \in Status : Responds(c, k, act, hop)
          \/ Unauthorized(c, act, hop)
    \/ Wake(c)
    \/ RecoverySkips(c) \/ RecoveryLocks(c) \/ InvalidateDone(c) \/ InvalidateFails(c)
    \/ OnceSkips(c) \/ OnceLocks(c) \/ OnceMarks(c)

Next ==
    \/ \E c \in Call : CallStep(c) \/ Cancel(c)
    \/ Expire
    \/ AllReturned

Spec == Init /\ [][Next]_vars

\* The HTTP client has a timeout and the Go mutex hands over, so a started
\* call keeps taking steps; nothing makes a context end or a token expire.
FairSpec == Spec /\ \A c \in Call : WF_vars(CallStep(c))

-----------------------------------------------------------------------------
\* Properties.

\* refreshMu is held exactly by the call inside a critical section.
LockInv == \A c \in Call : pc[c] \in Holding <=> refreshMu = c

\* A call hands at most two full rounds of attempts to the HTTP client, one
\* before and one after its only 401 recovery, whatever the server answers.
SendsBounded == \A c \in Call : sends[c] <= 2 * (RetryCount + 1)

\* A Once request is handed to the HTTP client at most once, whatever the
\* statuses, network errors, 401s and token refreshes around it (ADR 0003), and
\* a non-idempotent request is acted on at most once across its retries and its
\* 401 resend, as long as no redirect of it was followed (ADR 0002 rule 2).
CarefulCallsOnce ==
    \A c \in Call :
        /\ req[c].once => sends[c] <= 1
        /\ ~req[c].idem /\ ~redirected[c] => acted[c] <= 1

\* What an error says of the server is true.  Retryable on a Once or
\* non-idempotent call: no handler has acted on it, so the caller may rerun the
\* operation.  Request.NotSent: no attempt of the call, first send or 401
\* resend, can have reached a connection.
ErrorFlagsTrue ==
    \A c \in Call :
        /\ result[c].retryable /\ (req[c].once \/ ~req[c].idem) /\ ~redirected[c]
           => acted[c] = 0
        /\ result[c].notSent => ~reached[c]

\* A call past EnsureToken always finds a token to send: no concurrent
\* refresh, failed fetch or Once 401 ever empties the shared slot.
EnsuredHasToken ==
    \A c \in Call :
        pc[c] \in Sending \cup {"lock401", "lockOnce", "invalidate", "invalidateOnce"}
        /\ req[c].uses => slot.tok # NoToken

\* The source is told to invalidate a token only while that token is still
\* the one the Client hands out, so a replacement is never dropped.
InvalidatesOnlyCurrent ==
    \A c \in Call :
        pc[c] \in {"invalidate", "invalidateOnce"} =>
            slot.tok = sent[c] /\ sent[c] \in rejected

\* A usable token is never swapped out: a step replaces the slot's token only
\* if it was missing, near expiry, or answered with a 401 by the server.
ReplacedOnlyWhenBad ==
    [][slot'.tok # slot.tok => NeedsRefresh(slot) \/ slot.tok \in rejected]_vars

\* ADR 0002 rule 2 says a non-idempotent request is retried only after a 429
\* or a failed dial, where the server cannot have acted.
RetriesOnlyUnacted ==
    \A c \in Call : pc[c] = "sleep" /\ ~req[c].idem => acted[c] = 0

\* Every call returns, whatever the others do with the shared slot and lock.
CallsReturn == \A c \in Call : pc[c] # "idle" ~> pc[c] = "done"
=============================================================================
