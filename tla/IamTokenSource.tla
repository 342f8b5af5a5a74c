--------------------------- MODULE IamTokenSource ---------------------------
(***************************************************************************)
(* From a 401 to a new login: SDK Clients, each with its token slot and its *)
(* own iamTokenSource, over the IAMUserAuth memory their process shares    *)
(* and the disk cache all processes share; or each with the token source   *)
(* of a service account, whose memory is its own and which works under one *)
(* mutex.  Cache.Get is the single step SharedToken promises; TokenCache   *)
(* implements it.  A Client runs one call at a time here; TransportClient  *)
(* has the races inside one Client.                                        *)
(*                                                                         *)
(* A token keeps its obtain time and expiry wherever it is cached, so time *)
(* is two sets: old tokens, held at least 30 seconds, and stale ones,      *)
(* within 30 seconds of expiry.  Tokens are numbered as they are issued.   *)
(***************************************************************************)
EXTENDS Naturals, FiniteSets

CONSTANTS
    Client,      \* SDK Clients
    Process,     \* operating-system processes
    Setups,      \* deployments: where the Clients live, whether they cache, and two
                 \* bounds: faults (ended contexts, crashes, failed logins, reads and
                 \* writes) and denials (good tokens that are answered 401)
    MaxRevoked,  \* bound: tokens the server revokes
    MaxStale     \* bound: tokens that reach their expiry

ASSUME SourceAssumption ==
    /\ IsFiniteSet(Process)
    /\ Setups \subseteq [home : [Client -> Process], cached : BOOLEAN, account : BOOLEAN,
                   faults : Nat, denials : Nat]
    /\ \A s \in Setups : s.account => \A c, d \in Client : s.home[c] = s.home[d] => c = d
    /\ MaxRevoked \in Nat /\ MaxStale \in Nat

VARIABLES
    setup,     \* the deployment, fixed at the start
    pc,        \* where each Client's call is
    slot,      \* transport.Client.token, 0 when empty
    rejected,  \* rejected of the token source, 0 for ""
    hold,      \* the rejected token taken for the pending Cache.Get
    got,       \* what that Get returned
    first,     \* the token whose 401 started the call's recovery, 0 for none
    firstOld,  \* that token was old when Invalidate looked at it
    auth,      \* IAMUserAuth.cachedToken, per process, or cached of the token source
    cell,      \* the disk entry
    issued,    \* tokens issued so far
    revoked, old, stale,
    denied,    \* tokens that met a 401 for another reason (history)
    faults     \* so far (history)

vars == <<setup, pc, slot, rejected, hold, got, first, firstOld, auth, cell, issued,
          revoked, old, stale, denied, faults>>
server == <<issued, revoked, old, stale, denied, setup>>

\* The process a Client lives in, with its IAMUserAuth.
Home(c) == setup.home[c]

\* Config.TokenCacheDir is set.
HasCache == setup.cached

\* The Clients use a service account.
Account == setup.account

PC == {"ready", "sent", "invalidate", "mark", "token", "take", "get", "remember"}
Tokens == 1..issued

TypeOK ==
    /\ setup \in Setups
    /\ pc \in [Client -> PC]
    /\ slot \in [Client -> 0..issued] /\ rejected \in [Client -> 0..issued]
    /\ hold \in [Client -> 0..issued] /\ got \in [Client -> 0..issued]
    /\ first \in [Client -> 0..issued]
    /\ firstOld \in [Client -> BOOLEAN]
    /\ auth \in [Process -> 0..issued]
    /\ cell \in 0..issued /\ issued \in Nat /\ faults \in Nat
    /\ revoked \subseteq Tokens /\ old \subseteq Tokens /\ stale \subseteq Tokens
    /\ denied \subseteq 0..issued

Init ==
    /\ setup \in Setups
    /\ pc = [c \in Client |-> "ready"]
    /\ slot = [c \in Client |-> 0] /\ rejected = [c \in Client |-> 0]
    /\ hold = [c \in Client |-> 0] /\ got = [c \in Client |-> 0]
    /\ first = [c \in Client |-> 0] /\ firstOld = [c \in Client |-> FALSE]
    /\ auth = [q \in Process |-> 0]
    /\ cell = 0 /\ issued = 0 /\ faults = 0
    /\ revoked = {} /\ old = {} /\ stale = {} /\ denied = {}

-----------------------------------------------------------------------------
Usable(t) == t # 0 /\ t \notin stale

\* Mutated GoodFor: any rejection counts, whatever token it names.
GoodUnlessRejecting(r) == Usable(cell) /\ ~(r # 0 /\ cell \in old)

\* Cache.Get's test: a rejection is trusted only of an old token.
GoodFor(r) == Usable(cell) /\ ~(cell = r /\ cell \in old)

Goto(c, where) == pc' = [pc EXCEPT ![c] = where]
Set(f, c, t) == [f EXCEPT ![c] = t]
Fault == faults < setup.faults /\ faults' = faults + 1

\* The call returns; its recovery is over.
Return(c) ==
    /\ Goto(c, "ready")
    /\ first' = Set(first, c, 0) /\ firstOld' = Set(firstOld, c, FALSE)
    /\ hold' = Set(hold, c, 0) /\ got' = Set(got, c, 0)

\* EnsureToken, then the request goes out.
Begin(c) ==
    /\ pc[c] = "ready"
    /\ Goto(c, IF Usable(slot[c]) THEN "sent" ELSE "token")
    /\ UNCHANGED <<slot, rejected, hold, got, first, firstOld, auth, cell, server, faults>>

Accepted(c) ==
    /\ pc[c] = "sent" /\ slot[c] \notin revoked
    /\ Return(c)
    /\ UNCHANGED <<slot, rejected, auth, cell, server, faults>>

\* A 401 although the token is good, for a reason a new login cannot mend.
Deny(t) ==
    /\ t \notin revoked
    /\ t \in denied \/ Cardinality(denied) < setup.denials
    /\ denied' = denied \cup {t}

\* The first 401 of a call starts the recovery; the second one is ErrAuth.
Unauthorized(c) ==
    /\ pc[c] = "sent"
    /\ \/ first[c] # 0 /\ Return(c) /\ UNCHANGED denied
       \/ /\ first[c] = 0
          /\ \/ slot[c] \in revoked /\ UNCHANGED denied
             \/ Deny(slot[c])
          /\ first' = Set(first, c, slot[c])
          /\ Goto(c, "invalidate")
          /\ UNCHANGED <<hold, got, firstOld>>
    /\ UNCHANGED <<slot, rejected, auth, cell, issued, revoked, old, stale, setup, faults>>

\* Mutated InvalidateAuth: the memory token is never dropped.
InvalidateDiskOnly(c) ==
    /\ pc[c] = "invalidate"
    /\ firstOld' = Set(firstOld, c, first[c] \in old)
    /\ Goto(c, "mark")
    /\ UNCHANGED <<slot, rejected, hold, got, first, auth, cell, server, faults>>

\* Mutated InvalidateAuth: a token is dropped however young it is.
InvalidateAnyAge(c) ==
    /\ pc[c] = "invalidate" /\ ~Account
    /\ LET q == Home(c)
       IN auth' = IF auth[q] = first[c] THEN Set(auth, q, 0) ELSE auth
    /\ firstOld' = Set(firstOld, c, first[c] \in old)
    /\ Goto(c, "mark")
    /\ UNCHANGED <<slot, rejected, hold, got, first, cell, server, faults>>

\* IAMUserAuth.invalidateContext: drop the memory token if it is the one sent
\* and old; a young one stays, whatever the server said.
InvalidateAuth(c) ==
    /\ pc[c] = "invalidate" /\ ~Account
    /\ LET q == Home(c)
       IN auth' = IF auth[q] = first[c] /\ first[c] \in old THEN Set(auth, q, 0) ELSE auth
    /\ firstOld' = Set(firstOld, c, first[c] \in old)
    /\ Goto(c, "mark")
    /\ UNCHANGED <<slot, rejected, hold, got, first, cell, server, faults>>

\* Mutated Mark: the disk cache is not told of the rejection.
MarkNothing(c) ==
    /\ pc[c] = "mark"
    /\ Goto(c, "token")
    /\ UNCHANGED <<slot, rejected, hold, got, first, firstOld, auth, cell, server, faults>>

\* iamTokenSource.InvalidateContext then notes the token for the disk cache.
Mark(c) ==
    /\ pc[c] = "mark"
    /\ rejected' = IF HasCache THEN Set(rejected, c, first[c]) ELSE rejected
    /\ Goto(c, "token")
    /\ UNCHANGED <<slot, hold, got, first, firstOld, auth, cell, server, faults>>

\* serviceAccountTokenSource.InvalidateContext: only a token dropped from the
\* memory is noted for the disk cache.
InvalidateAccount(c) ==
    /\ pc[c] = "invalidate" /\ Account
    /\ LET q == Home(c)
           drops == auth[q] = first[c] /\ first[c] \in old
       IN /\ auth' = IF drops THEN Set(auth, q, 0) ELSE auth
          /\ rejected' = IF drops /\ HasCache THEN Set(rejected, c, first[c]) ELSE rejected
    /\ firstOld' = Set(firstOld, c, first[c] \in old)
    /\ Goto(c, "token")
    /\ UNCHANGED <<slot, hold, got, first, cell, server, faults>>

\* Token: cachedIfFresh, or token's own check under IAMUserAuth.mu.
MemoryHit(c) ==
    /\ pc[c] = "token" /\ Usable(auth[Home(c)])
    /\ slot' = Set(slot, c, auth[Home(c)])
    /\ Goto(c, "sent")
    /\ UNCHANGED <<rejected, hold, got, first, firstOld, auth, cell, server, faults>>

MemoryMiss(c) ==
    /\ pc[c] = "token" /\ HasCache /\ ~Usable(auth[Home(c)])
    /\ Goto(c, "take")
    /\ UNCHANGED <<slot, rejected, hold, got, first, firstOld, auth, cell, server, faults>>

\* Without a cache directory the login runs under IAMUserAuth.mu.
LoginUnderMutex(c) ==
    /\ pc[c] = "token" /\ ~HasCache /\ ~Usable(auth[Home(c)])
    /\ issued' = issued + 1
    /\ auth' = Set(auth, Home(c), issued + 1)
    /\ slot' = Set(slot, c, issued + 1)
    /\ Goto(c, "sent")
    /\ UNCHANGED <<rejected, hold, got, first, firstOld, cell, revoked, old, stale, denied, setup, faults>>

\* iamTokenSource.Token takes the pending rejection out of the source before Cache.Get.
Take(c) ==
    /\ pc[c] = "take" /\ ~Account
    /\ hold' = Set(hold, c, rejected[c])
    /\ rejected' = Set(rejected, c, 0)
    /\ Goto(c, "get")
    /\ UNCHANGED <<slot, got, first, firstOld, auth, cell, server, faults>>

\* diskToken leaves it there until the token is in memory.
Keep(c) ==
    /\ pc[c] = "take" /\ Account
    /\ hold' = Set(hold, c, rejected[c])
    /\ Goto(c, "get")
    /\ UNCHANGED <<slot, rejected, got, first, firstOld, auth, cell, server, faults>>

GetServes(c) ==
    /\ pc[c] = "get" /\ GoodFor(hold[c])
    /\ got' = Set(got, c, cell)
    /\ Goto(c, "remember")
    /\ UNCHANGED <<slot, rejected, hold, first, firstOld, auth, cell, server, faults>>

\* Cache.Get logs in for c.
Login(c) ==
    /\ issued' = issued + 1
    /\ got' = Set(got, c, issued + 1)
    /\ Goto(c, "remember")
    /\ UNCHANGED <<slot, rejected, hold, first, firstOld, auth, revoked, old, stale, denied, setup>>

\* It has to; the entry is updated unless its write fails.
GetRenews(c) ==
    /\ pc[c] = "get" /\ ~GoodFor(hold[c])
    /\ Login(c)
    /\ \/ cell' = issued + 1 /\ UNCHANGED faults
       \/ UNCHANGED cell /\ Fault

\* It could not read the entry, or the entry does not parse, and so replaces it,
\* good as it may be.
GetUnread(c) ==
    /\ pc[c] = "get" /\ Fault
    /\ Login(c)
    /\ cell' = issued + 1 \/ UNCHANGED cell

\* Cache.Get failed: the rejection is put back for the next Token call.
GetFails(c) ==
    /\ pc[c] = "get" /\ Fault
    /\ rejected' = IF hold[c] # 0 THEN Set(rejected, c, hold[c]) ELSE rejected
    /\ Return(c)
    /\ UNCHANGED <<slot, auth, cell, server>>

\* remember, and the commit of the Client's slot.
Remember(c) ==
    /\ pc[c] = "remember" /\ ~Account
    /\ auth' = Set(auth, Home(c), got[c])
    /\ slot' = Set(slot, c, got[c])
    /\ Goto(c, "sent")
    /\ UNCHANGED <<rejected, hold, got, first, firstOld, cell, server, faults>>

\* The end of diskToken: the rejection has done its work.
RememberAccount(c) ==
    /\ pc[c] = "remember" /\ Account
    /\ auth' = Set(auth, Home(c), got[c])
    /\ slot' = Set(slot, c, got[c])
    /\ rejected' = Set(rejected, c, 0)
    /\ Goto(c, "sent")
    /\ UNCHANGED <<hold, got, first, firstOld, cell, server, faults>>

\* The call's context ends between two steps, or a login under the mutex
\* fails: whatever was done so far stays done.
ContextEnds(c) ==
    /\ pc[c] \in {"sent", "invalidate", "mark", "token", "take", "remember"} /\ Fault
    /\ Return(c)
    /\ UNCHANGED <<slot, rejected, auth, cell, server>>

-----------------------------------------------------------------------------
\* A process and its Clients restart with empty memory; the disk entry stays.
Restart(q) ==
    /\ Fault
    /\ LET fresh(f, v) == [c \in Client |-> IF Home(c) = q THEN v ELSE f[c]]
       IN /\ pc' = fresh(pc, "ready") /\ slot' = fresh(slot, 0)
          /\ rejected' = fresh(rejected, 0) /\ hold' = fresh(hold, 0)
          /\ got' = fresh(got, 0) /\ first' = fresh(first, 0)
          /\ firstOld' = fresh(firstOld, FALSE)
    /\ auth' = Set(auth, q, 0)
    /\ UNCHANGED <<cell, server>>

Revoke(t) ==
    /\ t \notin revoked /\ Cardinality(revoked) < MaxRevoked
    /\ revoked' = revoked \cup {t}
    /\ UNCHANGED <<pc, slot, rejected, hold, got, first, firstOld, auth, cell,
                   setup, issued, old, stale, denied, faults>>

\* Older tokens were obtained earlier.
Age(t) ==
    /\ t \notin old /\ 1..(t - 1) \subseteq old
    /\ old' = old \cup {t}
    /\ UNCHANGED <<pc, slot, rejected, hold, got, first, firstOld, auth, cell,
                   setup, issued, revoked, stale, denied, faults>>

Expire(t) ==
    /\ t \in old \ stale /\ Cardinality(stale) < MaxStale
    /\ stale' = stale \cup {t}
    /\ UNCHANGED <<pc, slot, rejected, hold, got, first, firstOld, auth, cell,
                   setup, issued, revoked, old, denied, faults>>

ClientStep(c) ==
    \/ Begin(c) \/ Accepted(c) \/ Unauthorized(c) \/ InvalidateAuth(c) \/ Mark(c)
    \/ MemoryHit(c) \/ MemoryMiss(c) \/ LoginUnderMutex(c) \/ Take(c)
    \/ GetServes(c) \/ GetRenews(c) \/ Remember(c)
    \/ InvalidateAccount(c) \/ Keep(c) \/ RememberAccount(c)

Next ==
    \/ \E c \in Client : ClientStep(c) \/ GetUnread(c) \/ GetFails(c) \/ ContextEnds(c)
    \/ \E q \in Process : Restart(q)
    \/ \E t \in Tokens : Revoke(t) \/ Age(t) \/ Expire(t)

Spec == Init /\ [][Next]_vars

\* The caller keeps calling and time passes; faults are bounded, not fair.
FairSpec ==
    /\ Spec
    /\ \A c \in Client : WF_vars(ClientStep(c))
    /\ WF_vars(\E t \in Tokens : Age(t))

-----------------------------------------------------------------------------
\* Properties.

\* TokenSource's promise: Invalidate drops the token from every cache the
\* source holds, so once an old token was invalidated after a 401, the same
\* call never resends that token.
ResendDiffers ==
    \A c \in Client : pc[c] = "sent" /\ first[c] # 0 /\ firstOld[c] => slot[c] # first[c]

\* The promise is kept wherever no second Client brings the rejected token
\* back from disk into the same IAMUserAuth.
ResendDiffersUnlessShared ==
    \/ HasCache /\ \E c, d \in Client : c # d /\ Home(c) = Home(d)
    \/ ResendDiffers

\* A login is owed to something: for every token issued after the first of
\* each process, an earlier one was revoked, stale, or answered 401 for another
\* reason and is old by now, or a fault happened.  A 401 of a young token causes
\* no login, however often the server repeats it.
LoginsOwed ==
    issued <= (IF HasCache THEN 1 ELSE Cardinality({Home(c) : c \in Client}))
              + Cardinality(revoked) + Cardinality(stale) + Cardinality(denied \cap old)
              + faults

\* A Client that holds a revoked token gets rid of it if it keeps calling,
\* however the rejection crosses memory, disk, other Clients and restarts.
RevokedTokenReplaced == \A c \in Client : slot[c] \in revoked ~> slot[c] \notin revoked
=============================================================================
