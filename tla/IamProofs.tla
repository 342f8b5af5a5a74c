------------------------------ MODULE IamProofs -----------------------------
(***************************************************************************)
(* The token source of an IAM user and the guarded writes of package iam,  *)
(* for any number of Clients, processes, tasks, principals and policies.   *)
(*                                                                         *)
(* Of the token source: RejectionInv follows a rejected token from the 401 *)
(* to the resend, with AccountInv about the memory of a service account;   *)
(* OwedInv counts the logins, with a disk cache against the entry, without *)
(* one against the memory of each process.                                 *)
(*                                                                         *)
(* Of the guarded writes: GuardInv says what a guard has shown at each     *)
(* point of its reads, and that every write on the wire is harmless        *)
(* whenever the service carries it out; SelfInv says where a guard has     *)
(* still to meet its own caller.                                           *)
(***************************************************************************)
EXTENDS IamTokenSource, IamGuard, FiniteSetTheorems, TLAPS

-----------------------------------------------------------------------------
LEMMA TypeInit == Init => TypeOK
BY SourceAssumption DEF Init, TypeOK, PC, Tokens

\* What a returning call leaves.
LEMMA ReturnType ==
    ASSUME TypeOK, NEW c \in Client, Return(c)
    PROVE  /\ pc' \in [Client -> PC] /\ first' \in [Client -> 0..issued]
           /\ firstOld' \in [Client -> BOOLEAN]
           /\ hold' \in [Client -> 0..issued] /\ got' \in [Client -> 0..issued]
BY DEF Return, Goto, Set, TypeOK, PC

LEMMA FaultType == TypeOK /\ Fault => faults' \in Nat
BY DEF Fault, TypeOK

LEMMA TypeStep == TypeOK /\ [Next]_vars => TypeOK'
<1> SUFFICES ASSUME TypeOK, [Next]_vars PROVE TypeOK'
    OBVIOUS
<1> USE SourceAssumption
<1>p. {"ready", "sent", "invalidate", "mark", "token", "take", "get", "remember"} = PC
    BY DEF PC
<1>n. 0..issued \subseteq 0..(issued + 1) /\ Tokens \subseteq 1..(issued + 1) /\ issued + 1 \in 0..(issued + 1)
    BY DEF TypeOK, Tokens
<1>h. ASSUME NEW c \in Client PROVE Home(c) \in Process
    BY DEF Home, TypeOK
<1>1. CASE UNCHANGED vars
    BY <1>1 DEF vars, TypeOK, Tokens
<1>2. ASSUME NEW c \in Client, ClientStep(c) PROVE TypeOK'
    <2>1. CASE Begin(c)
        BY <2>1, <1>p DEF Begin, Goto, TypeOK, server, Tokens
    <2>2. CASE Accepted(c)
        BY <2>2, ReturnType DEF Accepted, TypeOK, server, Tokens
    <2>3. CASE Unauthorized(c)
        <3>1. UNCHANGED <<slot, rejected, auth, cell, issued, revoked, old, stale, setup, faults>>
            BY <2>3 DEF Unauthorized
        <3>2. denied' \subseteq 0..issued
            <4>1. denied' = denied \/ denied' = denied \cup {slot[c]}
                BY <2>3 DEF Unauthorized, Deny
            <4>2. denied \subseteq 0..issued /\ slot[c] \in 0..issued
                BY DEF TypeOK
            <4> QED
                BY <4>1, <4>2
        <3>3. /\ pc' \in [Client -> PC] /\ first' \in [Client -> 0..issued]
              /\ firstOld' \in [Client -> BOOLEAN]
              /\ hold' \in [Client -> 0..issued] /\ got' \in [Client -> 0..issued]
            <4>1. CASE Return(c)
                BY <4>1, ReturnType
            <4>2. CASE Goto(c, "invalidate") /\ first' = Set(first, c, slot[c]) /\ UNCHANGED <<hold, got, firstOld>>
                BY <4>2, <1>p DEF Goto, Set, TypeOK
            <4> QED
                BY <2>3, <4>1, <4>2 DEF Unauthorized
        <3> QED
            BY <3>1, <3>2, <3>3 DEF TypeOK, Tokens
    <2>4. CASE InvalidateAuth(c)
        BY <2>4, <1>p, <1>h DEF InvalidateAuth, Goto, Set, TypeOK, server, Tokens
    <2>5. CASE Mark(c)
        BY <2>5, <1>p DEF Mark, Goto, Set, TypeOK, server, Tokens
    <2>6. CASE MemoryHit(c)
        BY <2>6, <1>p, <1>h DEF MemoryHit, Goto, Set, TypeOK, server, Tokens
    <2>7. CASE MemoryMiss(c)
        BY <2>7, <1>p DEF MemoryMiss, Goto, TypeOK, server, Tokens
    <2>8. CASE LoginUnderMutex(c)
        BY <2>8, <1>p, <1>h, <1>n DEF LoginUnderMutex, Goto, Set, TypeOK, Tokens
    <2>9. CASE Take(c)
        BY <2>9, <1>p DEF Take, Goto, Set, TypeOK, server, Tokens
    <2>10. CASE GetServes(c)
        BY <2>10, <1>p DEF GetServes, Goto, Set, TypeOK, server, Tokens
    <2>11. CASE GetRenews(c)
        BY <2>11, <1>p, <1>n, FaultType DEF GetRenews, Login, Goto, Set, TypeOK, Tokens
    <2>12. CASE Remember(c)
        BY <2>12, <1>p, <1>h DEF Remember, Goto, Set, TypeOK, server, Tokens
    <2>13. CASE InvalidateAccount(c)
        BY <2>13, <1>p, <1>h DEF InvalidateAccount, Goto, Set, TypeOK, server, Tokens
    <2>14. CASE Keep(c)
        BY <2>14, <1>p DEF Keep, Goto, Set, TypeOK, server, Tokens
    <2>15. CASE RememberAccount(c)
        BY <2>15, <1>p, <1>h DEF RememberAccount, Goto, Set, TypeOK, server, Tokens
    <2> QED
        BY <1>2, <2>1, <2>2, <2>3, <2>4, <2>5, <2>6, <2>7, <2>8, <2>9, <2>10, <2>11, <2>12, <2>13,
           <2>14,
           <2>15 DEF ClientStep
<1>7. ASSUME NEW c \in Client, GetUnread(c) PROVE TypeOK'
    <2>1. faults' \in Nat
        BY <1>7, FaultType DEF GetUnread
    <2>2. issued' = issued + 1 /\ cell' \in 0..issued'
        BY <1>7, <1>n DEF GetUnread, Login, TypeOK
    <2> QED
        BY <1>7, <1>p, <1>n, <2>1, <2>2 DEF GetUnread, Login, Goto, Set, TypeOK, Tokens
<1>3. ASSUME NEW c \in Client, GetFails(c) PROVE TypeOK'
    BY <1>3, ReturnType, FaultType DEF GetFails, Set, TypeOK, server, Tokens
<1>4. ASSUME NEW c \in Client, ContextEnds(c) PROVE TypeOK'
    BY <1>4, ReturnType, FaultType DEF ContextEnds, TypeOK, server, Tokens
<1>5. ASSUME NEW q \in Process, Restart(q) PROVE TypeOK'
    <2>1. faults' \in Nat /\ UNCHANGED <<cell, server>>
        BY <1>5, FaultType DEF Restart
    <2>2. auth' \in [Process -> 0..issued]
        BY <1>5 DEF Restart, Set, TypeOK
    <2>3. pc' \in [Client -> PC]
        BY <1>5, <1>p DEF Restart, TypeOK
    <2>4. /\ slot' \in [Client -> 0..issued] /\ rejected' \in [Client -> 0..issued]
          /\ hold' \in [Client -> 0..issued] /\ got' \in [Client -> 0..issued]
          /\ first' \in [Client -> 0..issued]
        BY <1>5 DEF Restart, TypeOK
    <2>5. firstOld' \in [Client -> BOOLEAN]
        BY <1>5, Zenon DEF Restart, TypeOK
    <2> QED
        BY <2>1, <2>2, <2>3, <2>4, <2>5 DEF TypeOK, server, Tokens
<1>6. ASSUME NEW t \in Tokens, Revoke(t) \/ Age(t) \/ Expire(t) PROVE TypeOK'
    BY <1>6 DEF Revoke, Age, Expire, TypeOK, Tokens
<1> QED
    BY <1>1, <1>2, <1>3, <1>4, <1>5, <1>6, <1>7 DEF Next

\* Every reachable state is well typed, for any number of Clients and processes.
THEOREM TypeCorrect == Spec => []TypeOK
BY TypeInit, TypeStep, PTL DEF Spec

-----------------------------------------------------------------------------
\* Only a Client with a disk cache gets past its memory, and only a token that
\* met a 401 starts a recovery or is held as a rejection.
Refused == revoked \cup denied

CauseInv ==
    \A c \in Client :
        /\ pc[c] \in {"take", "get", "remember"} => HasCache
        /\ first[c] \in Refused \cup {0}
        /\ rejected[c] \in Refused \cup {0}
        /\ hold[c] \in Refused \cup {0}

LEMMA CauseInit == Init => CauseInv
BY DEF Init, CauseInv

LEMMA CauseStep == TypeOK /\ CauseInv /\ [Next]_vars => CauseInv'
<1> SUFFICES ASSUME TypeOK, CauseInv, [Next]_vars, NEW c \in Client
             PROVE  /\ pc'[c] \in {"take", "get", "remember"} => HasCache'
                    /\ first'[c] \in Refused' \cup {0}
                    /\ rejected'[c] \in Refused' \cup {0}
                    /\ hold'[c] \in Refused' \cup {0}
    BY DEF CauseInv
<1> USE DEF CauseInv, Refused, HasCache, TypeOK, Goto, Set
<1>1. CASE UNCHANGED vars
    BY <1>1 DEF vars
<1>2. ASSUME NEW d \in Client, ClientStep(d) PROVE CauseInv'
    <2>1. CASE Begin(d)
        BY <2>1 DEF Begin, server
    <2>2. CASE Accepted(d)
        BY <2>2 DEF Accepted, Return, server
    <2>3. CASE Unauthorized(d)
        BY <2>3 DEF Unauthorized, Deny, Return, server
    <2>4. CASE InvalidateAuth(d)
        BY <2>4 DEF InvalidateAuth, server
    <2>5. CASE Mark(d)
        BY <2>5 DEF Mark, server
    <2>6. CASE MemoryHit(d)
        BY <2>6 DEF MemoryHit, server
    <2>7. CASE MemoryMiss(d)
        BY <2>7 DEF MemoryMiss, server
    <2>8. CASE LoginUnderMutex(d)
        BY <2>8 DEF LoginUnderMutex
    <2>9. CASE Take(d)
        BY <2>9 DEF Take, server
    <2>10. CASE GetServes(d)
        BY <2>10 DEF GetServes, server
    <2>11. CASE GetRenews(d)
        BY <2>11 DEF GetRenews, Login
    <2>12. CASE Remember(d)
        BY <2>12 DEF Remember, server
    <2>13. CASE InvalidateAccount(d)
        BY <2>13 DEF InvalidateAccount, server
    <2>14. CASE Keep(d)
        BY <2>14 DEF Keep, server
    <2>15. CASE RememberAccount(d)
        BY <2>15 DEF RememberAccount, server
    <2> QED
        BY <1>2, <2>1, <2>2, <2>3, <2>4, <2>5, <2>6, <2>7, <2>8, <2>9, <2>10, <2>11, <2>12, <2>13,
           <2>14,
           <2>15 DEF ClientStep
<1>3. ASSUME NEW d \in Client, GetFails(d) \/ ContextEnds(d) PROVE CauseInv'
    BY <1>3 DEF GetFails, ContextEnds, Return, server
<1>6. ASSUME NEW d \in Client, GetUnread(d) PROVE CauseInv'
    BY <1>6 DEF GetUnread, Login
<1>4. ASSUME NEW q \in Process, Restart(q) PROVE CauseInv'
    BY <1>4 DEF Restart, server
<1>5. ASSUME NEW t \in Tokens, Revoke(t) \/ Age(t) \/ Expire(t) PROVE CauseInv'
    BY <1>5 DEF Revoke, Age, Expire
<1> QED
    BY <1>1, <1>2, <1>3, <1>4, <1>5, <1>6 DEF Next

LEMMA SetupStays == [Next]_vars => setup' = setup
BY DEF Next, ClientStep, Begin, Accepted, Unauthorized, InvalidateAuth, Mark, MemoryHit, MemoryMiss,
       LoginUnderMutex, Take, GetServes, GetRenews, GetUnread, Login, Remember, InvalidateAccount,
       Keep, RememberAccount, GetFails, ContextEnds, Restart, Revoke, Age, Expire, server, vars

-----------------------------------------------------------------------------
\* The memory of a service account holds what its Client holds, until a
\* rejection drops it; the rejection then stays until the next token.
Remembers(c) ==
    /\ \/ auth[Home(c)] = slot[c]
       \/ auth[Home(c)] = 0 /\ (HasCache => rejected[c] = slot[c])
    /\ pc[c] = "ready" => first[c] = 0
    /\ pc[c] \in {"invalidate", "token", "take", "get", "remember"} /\ first[c] # 0 => first[c] = slot[c]
    /\ pc[c] = "get" => hold[c] = rejected[c]
    /\ pc[c] # "mark"

AccountInv == Account => \A c \in Client : Remembers(c)

LEMMA AccountInit == Init => AccountInv
<1> SUFFICES ASSUME Init, Account, NEW c \in Client PROVE Remembers(c)
    BY DEF AccountInv
<1>1. Home(c) \in Process
    BY SourceAssumption DEF Init, Home
<1> QED
    BY <1>1 DEF Init, Remembers

LEMMA AccountStep ==
    TypeOK /\ CauseInv /\ AccountInv /\ [Next]_vars => AccountInv'
<1> SUFFICES ASSUME TypeOK, CauseInv, AccountInv, [Next]_vars, Account', NEW c \in Client
             PROVE  Remembers(c)'
    BY DEF AccountInv
<1>s. setup' = setup
    BY SetupStays
<1>a. Account
    BY <1>s DEF Account
<1>h. \A d \in Client : Home(d) \in Process /\ (Home(d) = Home(c) => d = c)
    BY <1>a, SourceAssumption DEF Home, TypeOK, Account
<1>c. pc[c] \in {"take", "get", "remember"} => HasCache
    BY DEF CauseInv
<1>r. Remembers(c)
    BY <1>a DEF AccountInv
<1> USE <1>s, <1>a, <1>h, <1>c, <1>r DEF Remembers, HasCache, Home, TypeOK, Goto, Set
<1>1. CASE UNCHANGED vars
    BY <1>1 DEF vars
<1>2. ASSUME NEW d \in Client, ClientStep(d) PROVE Remembers(c)'
    <2>1. CASE Begin(d)
        BY <2>1 DEF Begin, server
    <2>2. CASE Accepted(d)
        BY <2>2 DEF Accepted, Return, server
    <2>3. CASE Unauthorized(d)
        BY <2>3 DEF Unauthorized, Return, server
    <2>4. CASE InvalidateAuth(d)
        BY <2>4 DEF InvalidateAuth, server
    <2>5. CASE Mark(d)
        BY <2>5 DEF Mark, server
    <2>6. CASE MemoryHit(d)
        BY <2>6 DEF MemoryHit, server
    <2>7. CASE MemoryMiss(d)
        BY <2>7 DEF MemoryMiss, server
    <2>8. CASE LoginUnderMutex(d)
        BY <2>8 DEF LoginUnderMutex
    <2>9. CASE Take(d)
        BY <2>9 DEF Take, server
    <2>10. CASE GetServes(d)
        BY <2>10 DEF GetServes, server
    <2>11. CASE GetRenews(d)
        BY <2>11 DEF GetRenews, Login
    <2>12. CASE Remember(d)
        BY <2>12 DEF Remember, server
    <2>13. CASE InvalidateAccount(d)
        BY <2>13 DEF InvalidateAccount, Tokens, server
    <2>14. CASE Keep(d)
        BY <2>14 DEF Keep, server
    <2>15. CASE RememberAccount(d)
        BY <2>15 DEF RememberAccount, server
    <2> QED
        BY <1>2, <2>1, <2>2, <2>3, <2>4, <2>5, <2>6, <2>7, <2>8, <2>9, <2>10, <2>11, <2>12, <2>13,
           <2>14,
           <2>15 DEF ClientStep
<1>3. ASSUME NEW d \in Client, GetFails(d) \/ ContextEnds(d) PROVE Remembers(c)'
    BY <1>3 DEF GetFails, ContextEnds, Return, server
<1>6. ASSUME NEW d \in Client, GetUnread(d) PROVE Remembers(c)'
    BY <1>6 DEF GetUnread, Login
<1>4. ASSUME NEW q \in Process, Restart(q) PROVE Remembers(c)'
    BY <1>4 DEF Restart, server
<1>5. ASSUME NEW t \in Tokens, Revoke(t) \/ Age(t) \/ Expire(t) PROVE Remembers(c)'
    BY <1>5 DEF Revoke, Age, Expire
<1> QED
    BY <1>1, <1>2, <1>3, <1>4, <1>5, <1>6 DEF Next

-----------------------------------------------------------------------------
Unshared == HasCache => \A c, d \in Client : c # d => Home(c) # Home(d)

\* Where the rejection of an old token is kept until the resend.
Dropped(c) ==
    /\ pc[c] # "ready" /\ first[c] \in old
    /\ pc[c] \in {"mark", "token", "take", "get"} => auth[Home(c)] # first[c]
    /\ HasCache /\ pc[c] \in {"token", "take"} => rejected[c] = first[c]
    /\ pc[c] = "get" => hold[c] = first[c]
    /\ pc[c] = "remember" => got[c] # first[c]
    /\ pc[c] = "sent" => slot[c] # first[c]

RejectionInv ==
    Unshared => \A c \in Client : firstOld[c] => Dropped(c)

LEMMA RejectionInit == Init => RejectionInv
BY DEF Init, RejectionInv

LEMMA RejectionStep ==
    TypeOK /\ CauseInv /\ AccountInv /\ RejectionInv /\ [Next]_vars => RejectionInv'
<1> SUFFICES ASSUME TypeOK, CauseInv, AccountInv, RejectionInv, [Next]_vars, Unshared', NEW c \in Client, firstOld'[c]
             PROVE  Dropped(c)'
    BY DEF RejectionInv
<1>s. setup' = setup
    BY SetupStays
<1>u. Unshared
    BY <1>s DEF Unshared, HasCache, Home
<1>h. Home(c) \in Process
    BY SourceAssumption DEF Home, TypeOK
<1>o. first[c] \in old => first[c] \in 1..issued
    BY DEF TypeOK, Tokens
<1>r. firstOld[c] => Dropped(c)
    BY <1>u DEF RejectionInv
<1>c. pc[c] \in {"take", "get", "remember"} => HasCache
    BY DEF CauseInv
<1> USE <1>s, <1>u, <1>h, <1>o, <1>r, <1>c DEF Dropped, Unshared, HasCache, Home, TypeOK, Goto, Set
<1>1. CASE UNCHANGED vars
    BY <1>1 DEF vars
<1>2. ASSUME NEW d \in Client, ClientStep(d) PROVE Dropped(c)'
    <2>1. CASE Begin(d)
        BY <2>1 DEF Begin, server
    <2>2. CASE Accepted(d)
        BY <2>2 DEF Accepted, Return, server
    <2>3. CASE Unauthorized(d)
        BY <2>3 DEF Unauthorized, Return, server
    <2>4. CASE InvalidateAuth(d)
        BY <2>4 DEF InvalidateAuth, server
    <2>5. CASE Mark(d)
        BY <2>5 DEF Mark, server
    <2>6. CASE MemoryHit(d)
        BY <2>6 DEF MemoryHit, server
    <2>7. CASE MemoryMiss(d)
        BY <2>7 DEF MemoryMiss, server
    <2>8. CASE LoginUnderMutex(d)
        BY <2>8 DEF LoginUnderMutex
    <2>9. CASE Take(d)
        BY <2>9 DEF Take, server
    <2>10. CASE GetServes(d)
        BY <2>10 DEF GetServes, GoodFor, server
    <2>11. CASE GetRenews(d)
        BY <2>11 DEF GetRenews, Login
    <2>12. CASE Remember(d)
        BY <2>12, CauseInv DEF Remember, server, CauseInv
    <2>13. CASE InvalidateAccount(d)
        BY <2>13, AccountInv DEF InvalidateAccount, AccountInv, Remembers, server
    <2>14. CASE Keep(d)
        BY <2>14 DEF Keep, server
    <2>15. CASE RememberAccount(d)
        BY <2>15, CauseInv DEF RememberAccount, server, CauseInv
    <2> QED
        BY <1>2, <2>1, <2>2, <2>3, <2>4, <2>5, <2>6, <2>7, <2>8, <2>9, <2>10, <2>11, <2>12, <2>13,
           <2>14,
           <2>15 DEF ClientStep
<1>3. ASSUME NEW d \in Client, GetFails(d) \/ ContextEnds(d) PROVE Dropped(c)'
    BY <1>3 DEF GetFails, ContextEnds, Return, server
<1>6. ASSUME NEW d \in Client, GetUnread(d) PROVE Dropped(c)'
    BY <1>6 DEF GetUnread, Login
<1>4. ASSUME NEW q \in Process, Restart(q) PROVE Dropped(c)'
    BY <1>4 DEF Restart, server
<1>5. ASSUME NEW t \in Tokens, Revoke(t) \/ Age(t) \/ Expire(t) PROVE Dropped(c)'
    BY <1>5 DEF Revoke, Age, Expire
<1> QED
    BY <1>1, <1>2, <1>3, <1>4, <1>5, <1>6 DEF Next

\* An old token that was rejected is not resent by the recovery of its 401,
\* unless another Client of the process shares the memory and the disk entry.
THEOREM ResendCorrect == Spec => []ResendDiffersUnlessShared
<1>1. RejectionInv => ResendDiffersUnlessShared
    BY DEF RejectionInv, Unshared, Dropped, ResendDiffersUnlessShared, ResendDiffers
<1> QED
    BY <1>1, TypeInit, TypeStep, CauseInit, CauseStep, AccountInit, AccountStep, RejectionInit,
       RejectionStep,
       PTL DEF Spec

-----------------------------------------------------------------------------
\* Tokens that gave cause for a login.
Bad == revoked \cup stale \cup (denied \cap old)

\* With a disk cache: those among them that the entry has left behind.
Passed == {t \in Bad : t < cell}
Charged == IF cell = 0 THEN 0 ELSE 1 + Cardinality(Passed)
EntryInv == HasCache => issued <= faults + Charged

\* Without: the processes that remember a token, and the bad tokens that none
\* of them remembers any more.
Holding == {q \in Process : auth[q] # 0}
Gone == {t \in Bad : \A q \in Process : auth[q] # t}
MemoryInv ==
    ~HasCache =>
        /\ issued <= faults + Cardinality(Holding) + Cardinality(Gone)
        /\ \A q, r \in Process : q # r /\ auth[q] # 0 => auth[q] # auth[r]
        /\ \A q \in Holding : \E c \in Client : Home(c) = q

OwedInv == EntryInv /\ MemoryInv

LEMMA BadFinite ==
    ASSUME TypeOK
    PROVE  /\ Bad \subseteq 1..issued /\ IsFiniteSet(Bad)
           /\ IsFiniteSet(revoked) /\ IsFiniteSet(stale) /\ IsFiniteSet(denied \cap old)
           /\ Cardinality(Bad) <= Cardinality(revoked) + Cardinality(stale) + Cardinality(denied \cap old)
<1>1. IsFiniteSet(1..issued)
    BY FS_Interval DEF TypeOK
<1>2. IsFiniteSet(revoked) /\ IsFiniteSet(stale) /\ IsFiniteSet(denied \cap old)
    BY <1>1, FS_Subset DEF TypeOK, Tokens
<1>3. ASSUME NEW S, NEW T, IsFiniteSet(S), IsFiniteSet(T)
      PROVE  IsFiniteSet(S \cup T) /\ Cardinality(S \cup T) <= Cardinality(S) + Cardinality(T)
    <2>1. IsFiniteSet(S \cup T) /\ Cardinality(S \cup T) = Cardinality(S) + Cardinality(T) - Cardinality(S \cap T)
        BY <1>3, FS_Union
    <2>2. IsFiniteSet(S \cap T)
        BY <1>3, FS_Subset
    <2> QED
        BY <1>3, <2>1, <2>2, FS_CardinalityType
<1>4. IsFiniteSet(revoked \cup stale) /\ Cardinality(revoked \cup stale) <= Cardinality(revoked) + Cardinality(stale)
    BY <1>2, <1>3
<1>5. IsFiniteSet(Bad) /\ Cardinality(Bad) <= Cardinality(revoked \cup stale) + Cardinality(denied \cap old)
    BY <1>2, <1>3, <1>4 DEF Bad
<1>6. Bad \subseteq 1..issued
    BY DEF Bad, TypeOK, Tokens
<1> QED
    BY <1>2, <1>4, <1>5, <1>6, FS_CardinalityType

\* More of a finite set counts for more, one element more for one more.
LEMMA Larger ==
    ASSUME NEW S, NEW T, IsFiniteSet(T), S \subseteq T
    PROVE  Cardinality(S) \in Nat /\ Cardinality(T) \in Nat /\ Cardinality(S) <= Cardinality(T)
BY FS_Subset, FS_CardinalityType

LEMMA LargerByOne ==
    ASSUME NEW S, NEW T, IsFiniteSet(T), NEW x \in T, x \notin S, S \subseteq T
    PROVE  Cardinality(S) \in Nat /\ Cardinality(T) \in Nat /\ Cardinality(S) + 1 <= Cardinality(T)
<1>1. IsFiniteSet(S)
    BY FS_Subset
<1>2. Cardinality(S \cup {x}) = Cardinality(S) + 1
    BY <1>1, FS_AddElement
<1>3. Cardinality(S \cup {x}) <= Cardinality(T)
    BY FS_Subset
<1> QED
    BY <1>1, <1>2, <1>3, FS_CardinalityType

LEMMA SumGrows ==
    ASSUME NEW i \in Nat, NEW m \in Nat, NEW n \in Nat, NEW u \in Nat, NEW v \in Nat,
           m <= n, u <= v, i <= m + u
    PROVE  i <= n + v
OBVIOUS

LEMMA OneMoved ==
    ASSUME NEW i \in Nat, NEW f \in Nat, NEW g \in Nat, NEW h \in Nat,
           NEW f2 \in Nat, NEW g2 \in Nat, NEW h2 \in Nat,
           i <= f + h + g, h <= h2 + 1, f + g + 1 <= f2 + g2
    PROVE  i <= f2 + h2 + g2
OBVIOUS

LEMMA OwedInit == Init => OwedInv
<1> SUFFICES ASSUME Init PROVE OwedInv
    OBVIOUS
<1>1. Holding = {} /\ Gone = {}
    BY DEF Init, Holding, Gone, Bad
<1> QED
    BY <1>1, FS_EmptySet DEF Init, OwedInv, EntryInv, MemoryInv, Charged

\* What each step leaves of the server, the entry and the memory of the processes.
Untouched ==
    /\ UNCHANGED <<setup, issued, revoked, stale, old, cell, auth, faults>>
    /\ denied \subseteq denied'

LEMMA QuietSteps ==
    ASSUME NEW c \in Client,
           \/ Begin(c) \/ Accepted(c) \/ Unauthorized(c) \/ Mark(c) \/ MemoryHit(c)
           \/ MemoryMiss(c) \/ Take(c) \/ Keep(c) \/ GetServes(c)
    PROVE  Untouched
BY DEF Untouched, Begin, Accepted, Unauthorized, Deny, Mark, MemoryHit, MemoryMiss, Take, Keep, GetServes,
       server

LEMMA EntryStep ==
    TypeOK /\ TypeOK' /\ CauseInv /\ EntryInv /\ [Next]_vars => EntryInv'
<1> SUFFICES ASSUME TypeOK, TypeOK', CauseInv, EntryInv, [Next]_vars, HasCache'
             PROVE  EntryInv'
    BY DEF EntryInv
<1>f. /\ IsFiniteSet(Passed) /\ IsFiniteSet(Passed') /\ IsFiniteSet(Bad) /\ IsFiniteSet(Bad')
      /\ Cardinality(Passed) \in Nat /\ Cardinality(Passed') \in Nat
    <2>1. IsFiniteSet(Bad) /\ IsFiniteSet(Bad')
        <3>1. Bad' \subseteq 1..issued'
            BY DEF Bad, TypeOK, Tokens
        <3>2. IsFiniteSet(1..issued')
            BY FS_Interval DEF TypeOK
        <3> QED
            BY <3>1, <3>2, BadFinite, FS_Subset
    <2>2. Passed \subseteq Bad /\ Passed' \subseteq Bad'
        BY DEF Passed
    <2> QED
        BY <2>1, <2>2, FS_Subset, FS_CardinalityType
<1>t. issued \in Nat /\ issued' \in Nat /\ faults \in Nat /\ faults' \in Nat /\ cell \in Nat /\ cell' \in Nat
    BY SourceAssumption DEF TypeOK
\* The entry stays as it is and causes are only added.
<1>1. ASSUME issued' = issued, cell' = cell, setup' = setup, revoked \subseteq revoked', stale \subseteq stale',
             old \subseteq old', denied \subseteq denied', faults <= faults'
      PROVE  EntryInv'
    <2>0. HasCache
        BY <1>1, Zenon DEF HasCache
    <2>1. Passed \subseteq Passed'
        BY <1>1 DEF Passed, Bad
    <2>2. Cardinality(Passed) <= Cardinality(Passed')
        BY <2>1, <1>f, Larger
    <2>3. issued <= faults + Charged
        BY <2>0, Zenon DEF EntryInv
    <2>4. Charged \in Nat /\ Charged' \in Nat /\ Charged <= Charged'
        BY <1>1, <2>2, <1>f, <1>t DEF Charged
    <2>5. issued' <= faults' + Charged'
        BY <1>1, <2>3, <2>4, <1>t, SumGrows
    <2> QED
        BY <2>5, Zenon DEF EntryInv
<1>2. ASSUME NEW c \in Client, ClientStep(c) PROVE EntryInv'
    <2>1. CASE GetRenews(c)
        <3>h. HasCache /\ issued' = issued + 1 /\ Bad' = Bad /\ ~GoodFor(hold[c])
            BY <2>1, <1>2 DEF GetRenews, Login, EntryInv, HasCache, Bad, CauseInv
        <3>1. CASE cell' = issued + 1 /\ faults' = faults
            <4>1. CASE cell = 0
                BY <3>1, <3>h, <4>1, <1>f, <1>t DEF EntryInv, Charged
            <4>2. CASE cell # 0
                <5>1. cell \in Bad
                    BY <3>h, <4>2 DEF GoodFor, Usable, Bad, CauseInv, Refused
                <5>2. Passed' = Bad
                    BY <3>1, <3>h, <1>t, BadFinite DEF Passed
                <5>3. Passed \subseteq Bad /\ cell \notin Passed
                    BY <1>t DEF Passed
                <5>4. Cardinality(Passed) + 1 <= Cardinality(Passed')
                    BY <5>1, <5>2, <5>3, <1>f, LargerByOne
                <5> QED
                    BY <3>1, <3>h, <4>2, <5>4, <1>f, <1>t DEF EntryInv, Charged
            <4> QED
                BY <4>1, <4>2
        <3>2. CASE cell' = cell /\ Fault
            <4>1. Passed' = Passed
                BY <3>h, <3>2 DEF Passed
            <4> QED
                BY <3>h, <3>2, <4>1, <1>f, <1>t DEF EntryInv, Charged, Fault
        <3> QED
            BY <2>1, <3>1, <3>2 DEF GetRenews
    <2>2. CASE LoginUnderMutex(c)
        BY <2>2 DEF LoginUnderMutex, EntryInv, HasCache
    <2>3. CASE InvalidateAuth(c) \/ Remember(c) \/ InvalidateAccount(c) \/ RememberAccount(c)
        BY <2>3, <1>1, <1>t DEF InvalidateAuth, Remember, InvalidateAccount, RememberAccount, server
    <2> QED
        BY <1>2, <1>1, <1>t, <2>1, <2>2, <2>3, QuietSteps DEF ClientStep, Untouched
<1>7. ASSUME NEW c \in Client, GetUnread(c) PROVE EntryInv'
    <2>1. HasCache /\ issued' = issued + 1 /\ faults' = faults + 1 /\ Bad' = Bad
        BY <1>7, Zenon DEF GetUnread, Fault, Login, HasCache, Bad
    <2>2. cell' = cell \/ cell' = issued + 1
        BY <1>7 DEF GetUnread
    <2>3. Passed \subseteq Passed'
        BY <2>1, <2>2, <1>t, BadFinite DEF Passed, TypeOK
    <2>4. Cardinality(Passed) <= Cardinality(Passed')
        BY <2>3, <1>f, Larger
    <2>5. Charged \in Nat /\ Charged' \in Nat /\ Charged <= Charged'
        BY <2>2, <2>4, <1>f, <1>t DEF Charged
    <2>6. issued <= faults + Charged
        BY <2>1, Zenon DEF EntryInv
    <2>7. issued + 1 <= (faults + 1) + Charged
        <3> HIDE DEF Charged
        <3> QED
            BY <2>5, <2>6, <1>t
    <2>8. issued' <= faults' + Charged /\ faults' <= faults'
        BY <2>1, <2>7, <1>t
    <2>9. issued' <= faults' + Charged'
        BY <2>5, <2>8, <1>t, SumGrows
    <2> QED
        BY <2>9, Zenon DEF EntryInv
<1>3. ASSUME NEW c \in Client, GetFails(c) \/ ContextEnds(c) PROVE EntryInv'
    BY <1>3, <1>1, <1>t DEF GetFails, ContextEnds, Fault, server
<1>4. ASSUME NEW q \in Process, Restart(q) PROVE EntryInv'
    BY <1>4, <1>1, <1>t DEF Restart, Fault, server
<1>5. ASSUME NEW t \in Tokens, Revoke(t) \/ Age(t) \/ Expire(t) PROVE EntryInv'
    BY <1>5, <1>1, <1>t DEF Revoke, Age, Expire
<1>6. CASE UNCHANGED vars
    <2>1. Untouched
        BY <1>6 DEF vars, Untouched
    <2> QED
        BY <2>1, <1>1, <1>t DEF Untouched
<1> QED
    BY <1>2, <1>3, <1>4, <1>5, <1>6, <1>7 DEF Next, EntryInv

LEMMA MemoryStep ==
    TypeOK /\ TypeOK' /\ CauseInv /\ MemoryInv /\ [Next]_vars => MemoryInv'
<1> SUFFICES ASSUME TypeOK, TypeOK', CauseInv, MemoryInv, [Next]_vars, ~HasCache'
             PROVE  MemoryInv'
    BY DEF MemoryInv
<1>f. /\ IsFiniteSet(Bad) /\ IsFiniteSet(Bad') /\ IsFiniteSet(Gone) /\ IsFiniteSet(Gone')
      /\ IsFiniteSet(Holding) /\ IsFiniteSet(Holding')
    <2>1. Bad' \subseteq 1..issued'
        BY DEF Bad, TypeOK, Tokens
    <2>2. IsFiniteSet(1..issued')
        BY FS_Interval DEF TypeOK
    <2>3. IsFiniteSet(Bad) /\ IsFiniteSet(Bad')
        BY <2>1, <2>2, BadFinite, FS_Subset
    <2>4. /\ Gone \subseteq Bad /\ Gone' \subseteq Bad'
          /\ Holding \subseteq Process /\ Holding' \subseteq Process
        BY DEF Gone, Holding
    <2> QED
        BY <2>3, <2>4, SourceAssumption, FS_Subset
<1>c. /\ Cardinality(Gone) \in Nat /\ Cardinality(Gone') \in Nat
      /\ Cardinality(Holding) \in Nat /\ Cardinality(Holding') \in Nat
    BY <1>f, FS_CardinalityType
<1>t. issued \in Nat /\ issued' \in Nat /\ faults \in Nat /\ faults' \in Nat
    BY SourceAssumption DEF TypeOK
<1>s. setup' = setup
    BY SetupStays
<1>h. ~HasCache
    BY <1>s, Zenon DEF HasCache
<1>m. /\ issued <= faults + Cardinality(Holding) + Cardinality(Gone)
      /\ \A q, r \in Process : q # r /\ auth[q] # 0 => auth[q] # auth[r]
      /\ \A q \in Holding : \E c \in Client : Home(c) = q
    BY <1>h, Zenon DEF MemoryInv
<1>b. Bad \subseteq 1..issued
    BY BadFinite
\* The memory stays as it is and causes are only added.
<1>1. ASSUME issued' = issued, auth' = auth, revoked \subseteq revoked', stale \subseteq stale',
             old \subseteq old', denied \subseteq denied', faults <= faults'
      PROVE  MemoryInv'
    <2>1. Gone \subseteq Gone' /\ Holding' = Holding
        BY <1>1 DEF Gone, Bad, Holding
    <2>2. Cardinality(Gone) <= Cardinality(Gone')
        BY <2>1, <1>f, Larger
    <2>3. issued' <= faults' + Cardinality(Holding') + Cardinality(Gone')
        BY <1>1, <1>m, <2>1, <2>2, <1>c, <1>t, SumGrows
    <2>4. \A q \in Holding' : \E c \in Client : Home(c)' = q
        BY <2>1, <1>m, <1>s DEF Home
    <2> QED
        BY <1>1, <1>m, <2>3, <2>4 DEF MemoryInv
\* One process forgets its token t.
<1>2. ASSUME NEW q \in Process, auth' = [auth EXCEPT ![q] = 0], issued' = issued,
             UNCHANGED <<revoked, stale, old, denied>>,
             \/ faults' = faults + 1
             \/ faults' = faults /\ auth[q] \in Bad
      PROVE  MemoryInv'
    <2>1. Bad' = Bad /\ Gone \subseteq Gone' /\ Holding' = Holding \ {q}
        BY <1>2, <1>b DEF Gone, Bad, Holding, TypeOK
    <2>2. Cardinality(Gone) <= Cardinality(Gone')
        BY <2>1, <1>f, Larger
    <2>3. Cardinality(Holding) <= Cardinality(Holding') + 1
        BY <2>1, <1>f, <1>c, FS_RemoveElement
    <2>4. faults + Cardinality(Gone) + 1 <= faults' + Cardinality(Gone')
        <3>1. CASE faults' = faults + 1
            BY <2>2, <3>1, <1>c, <1>t
        <3>2. CASE faults' = faults /\ auth[q] \in Bad
            <4>1. auth[q] \notin Gone /\ auth[q] # 0
                BY <3>2, <1>b, <1>t DEF Gone
            <4>2. auth[q] \in Gone'
                BY <3>2, <2>1, <1>2, <1>m, <4>1 DEF Gone, TypeOK
            <4>3. Cardinality(Gone) + 1 <= Cardinality(Gone')
                BY <4>1, <4>2, <2>1, <1>f, LargerByOne
            <4> QED
                BY <3>2, <4>3, <1>c, <1>t
        <3> QED
            BY <1>2, <3>1, <3>2
    <2>5. issued <= faults' + Cardinality(Holding') + Cardinality(Gone')
        BY <1>m, <2>3, <2>4, <1>c, <1>t, OneMoved
    <2>6. issued' <= faults' + Cardinality(Holding') + Cardinality(Gone')
        BY <1>2, <2>5
    <2>7. \A r \in Holding' : \E c \in Client : Home(c)' = r
        BY <2>1, <1>m, <1>s DEF Home
    <2>8. \A p, r \in Process : p # r /\ auth'[p] # 0 => auth'[p] # auth'[r]
        BY <1>2, <1>m DEF TypeOK
    <2> QED
        BY <2>6, <2>7, <2>8 DEF MemoryInv
<1>3. ASSUME NEW c \in Client, ClientStep(c) PROVE MemoryInv'
    <2>q. Home(c) \in Process
        BY SourceAssumption DEF Home, TypeOK
    <2>1. CASE LoginUnderMutex(c)
        <3> DEFINE q == Home(c)
        <3>1. /\ issued' = issued + 1 /\ auth' = [auth EXCEPT ![q] = issued + 1] /\ faults' = faults
              /\ Bad' = Bad /\ (auth[q] = 0 \/ auth[q] \in Bad)
            BY <2>1 DEF LoginUnderMutex, Set, Usable, Bad
        <3>2. Gone \subseteq Gone' /\ Holding' = Holding \cup {q}
            BY <3>1, <1>b, <2>q, <1>t DEF Gone, Holding, TypeOK
        <3>3. Cardinality(Holding) <= Cardinality(Holding') /\ Cardinality(Gone) <= Cardinality(Gone')
            BY <3>2, <1>f, Larger
        <3>4. issued' <= faults' + Cardinality(Holding') + Cardinality(Gone')
            <4>1. CASE auth[q] = 0
                <5>1. q \notin Holding
                    BY <4>1 DEF Holding
                <5>2. Cardinality(Holding) + 1 <= Cardinality(Holding')
                    BY <5>1, <3>2, <2>q, <1>f, LargerByOne
                <5> QED
                    BY <3>1, <3>3, <5>2, <1>m, <1>c, <1>t
            <4>2. CASE auth[q] # 0
                <5>1. auth[q] \in Bad /\ auth[q] \notin Gone
                    BY <3>1, <4>2, <2>q DEF Gone
                <5>2. auth[q] \in Gone'
                    BY <5>1, <3>1, <4>2, <2>q, <1>m, <1>b, <1>t DEF Gone, TypeOK
                <5>3. Cardinality(Gone) + 1 <= Cardinality(Gone')
                    BY <5>1, <5>2, <3>2, <1>f, LargerByOne
                <5> QED
                    BY <3>1, <3>3, <5>3, <1>m, <1>c, <1>t
            <4> QED
                BY <4>1, <4>2
        <3>5. \A r \in Holding' : \E d \in Client : Home(d)' = r
            BY <3>2, <1>m, <1>s DEF Home
        <3>6. \A p, r \in Process : p # r /\ auth'[p] # 0 => auth'[p] # auth'[r]
            BY <3>1, <2>q, <1>m, <1>t DEF TypeOK
        <3> QED
            BY <3>4, <3>5, <3>6 DEF MemoryInv
    <2>2. CASE InvalidateAuth(c) \/ InvalidateAccount(c)
        <3>1. CASE auth' = auth
            BY <2>2, <3>1, <1>1, <1>t DEF InvalidateAuth, InvalidateAccount, server
        <3>2. CASE auth' # auth
            <4>1. auth[Home(c)] = first[c] /\ first[c] \in old /\ auth' = [auth EXCEPT ![Home(c)] = 0]
                BY <2>2, <3>2 DEF InvalidateAuth, InvalidateAccount, Set
            <4>2. auth[Home(c)] \in Bad
                BY <4>1 DEF Bad, CauseInv, Refused, TypeOK, Tokens
            <4> QED
                BY <2>2, <2>q, <4>1, <4>2, <1>2 DEF InvalidateAuth, InvalidateAccount, server
        <3> QED
            BY <3>1, <3>2
    <2>3. CASE Remember(c) \/ GetRenews(c) \/ RememberAccount(c)
        BY <2>3, <1>h DEF Remember, GetRenews, RememberAccount, CauseInv
    <2> QED
        BY <1>3, <1>1, <1>t, <2>1, <2>2, <2>3, QuietSteps DEF ClientStep, Untouched
<1>8. ASSUME NEW c \in Client, GetUnread(c) PROVE MemoryInv'
    BY <1>8, <1>h DEF GetUnread, CauseInv
<1>4. ASSUME NEW c \in Client, GetFails(c) \/ ContextEnds(c) PROVE MemoryInv'
    BY <1>4, <1>1, <1>t DEF GetFails, ContextEnds, Fault, server
<1>5. ASSUME NEW q \in Process, Restart(q) PROVE MemoryInv'
    BY <1>5, <1>2 DEF Restart, Fault, Set, server
<1>6. ASSUME NEW t \in Tokens, Revoke(t) \/ Age(t) \/ Expire(t) PROVE MemoryInv'
    BY <1>6, <1>1, <1>t DEF Revoke, Age, Expire
<1>7. CASE UNCHANGED vars
    <2>1. Untouched
        BY <1>7 DEF vars, Untouched
    <2> QED
        BY <2>1, <1>1, <1>t DEF Untouched
<1> QED
    BY <1>3, <1>4, <1>5, <1>6, <1>7, <1>8 DEF Next

LEMMA OwedBound == TypeOK /\ OwedInv => LoginsOwed
<1> SUFFICES ASSUME TypeOK, OwedInv PROVE LoginsOwed
    OBVIOUS
<1>b. /\ IsFiniteSet(Bad)
      /\ Cardinality(Bad) <= Cardinality(revoked) + Cardinality(stale) + Cardinality(denied \cap old)
      /\ Cardinality(revoked) \in Nat /\ Cardinality(stale) \in Nat /\ Cardinality(Bad) \in Nat
      /\ Cardinality(denied \cap old) \in Nat
    BY BadFinite, FS_CardinalityType
<1>t. issued \in Nat /\ faults \in Nat
    BY SourceAssumption DEF TypeOK
<1>1. CASE HasCache
    <2>1. Passed \subseteq Bad
        BY DEF Passed
    <2>2. Cardinality(Passed) \in Nat /\ Cardinality(Passed) <= Cardinality(Bad)
        BY <2>1, <1>b, Larger
    <2>3. Charged \in Nat /\ Charged <= 1 + Cardinality(Bad)
        BY <2>2, <1>b DEF Charged
    <2>4. issued <= faults + Charged
        BY <1>1 DEF OwedInv, EntryInv
    <2>5. issued <= 1 + Cardinality(revoked) + Cardinality(stale) + Cardinality(denied \cap old) + faults
        BY <2>3, <2>4, <1>b, <1>t
    <2> QED
        BY <1>1, <2>5 DEF LoginsOwed
<1>2. CASE ~HasCache
    <2> DEFINE homes == {Home(c) : c \in Client}
    <2>1. Holding \subseteq homes /\ homes \subseteq Process
        BY <1>2, SourceAssumption DEF OwedInv, MemoryInv, Home, TypeOK
    <2>2. Cardinality(Holding) \in Nat /\ Cardinality(homes) \in Nat /\ Cardinality(Holding) <= Cardinality(homes)
        BY <2>1, SourceAssumption, FS_Subset, Larger
    <2>3. Gone \subseteq Bad
        BY DEF Gone
    <2>4. Cardinality(Gone) \in Nat /\ Cardinality(Gone) <= Cardinality(Bad)
        BY <2>3, <1>b, Larger
    <2>5. issued <= faults + Cardinality(Holding) + Cardinality(Gone)
        BY <1>2 DEF OwedInv, MemoryInv
    <2> HIDE DEF homes
    <2>6. issued <= Cardinality(homes) + Cardinality(revoked) + Cardinality(stale) + Cardinality(denied \cap old) + faults
        BY <2>2, <2>4, <2>5, <1>b, <1>t
    <2> QED
        BY <1>2, <2>6 DEF LoginsOwed, homes
<1> QED
    BY <1>1, <1>2

\* No Client logs in without a cause: every login but the first of the entry, or
\* of each process that has none, is owed to a token that was revoked, stale, or
\* old and answered 401 all the same, or to a fault.
THEOREM LoginsCorrect == Spec => []LoginsOwed
<1>1. OwedInv /\ TypeOK /\ TypeOK' /\ CauseInv /\ [Next]_vars => OwedInv'
    BY EntryStep, MemoryStep DEF OwedInv
<1> QED
    BY <1>1, TypeInit, TypeStep, CauseInit, CauseStep, OwedInit, OwedBound, PTL DEF Spec

-----------------------------------------------------------------------------
(* The guarded writes.  Safe says that a holder stands for nobody who may      *)
(* write to IAM; Seen that the guard of a call has shown this of it, or has    *)
(* the reads that could say otherwise still to make; Shown is what a guard     *)
(* without a reason against the write knows, and Harmless what the service     *)
(* may rely on whenever it carries a write out.  A step that is Steady gives   *)
(* no holder a privileged policy and nobody protected a group, which is why    *)
(* none of this goes out of date.                                              *)

Safe(h) ==
    /\ h \in Principal => ~IsProtected(h)
    /\ h \in Group => ~Empowered(h) /\ \A u \in members[h] : ~IsProtected(u)

Harmless(c, doc) ==
    /\ c.op \in {"CreatePolicy", "UpdatePolicy"} => ~StatementsArePrivileged(doc)
    /\ c.op \in AttachOps \cup {"UpdatePolicy"} => c.policy \in used /\ ~Privileged(c.policy)
    /\ c.op \in {"UpdatePolicy", "DeletePolicy"} => \A h \in Holder : c.policy \in held[h] => Safe(h)
    /\ c.op \in AttachOps \cup MemberOps \cup AccountOps \cup {"DeleteGroup", "ResetUserPassword"} => Safe(c.target)
    /\ c.op \in MemberOps => Safe(c.member)

\* The privileged ones among these policies are still to be read for h.
Clears(t, h, ps) == \A p \in ps : Privileged(p) => Read("policy", p, h) \in todo[t]

SeenPrincipal(t, x) ==
    \/ Attached(x) \in todo[t]
    \/ /\ Clears(t, x, held[x])
       /\ x \in User => \/ Read("groupsOf", x, x) \in todo[t]
                        \/ \A g \in GroupsOf(x) : Clears(t, x, held[g])

Seen(t, h) ==
    /\ h \in Principal => SeenPrincipal(t, h)
    /\ h \in Group => \/ Attached(h) \in todo[t]
                      \/ Clears(t, h, held[h]) /\ \A u \in members[h] : SeenPrincipal(t, u)

Listed(t, kind, of) ==
    LET p == Call(t).policy IN
    Read(kind, p, p) \in todo[t] \/ \A h \in of : p \in held[h] => Seen(t, h)

ShownPolicy(t) ==
    LET c == Call(t) IN
    \/ Read("target", c.policy, c.policy) \in todo[t]
    \/ /\ c.op = "UpdatePolicy" =>
            c.policy \in used /\ ~Privileged(c.policy) /\ ~StatementsArePrivileged(Sends(t))
       /\ Listed(t, "groups", Group) /\ Listed(t, "users", User) /\ Listed(t, "accounts", ServiceAccount)

ShownAttachment(t) ==
    LET c == Call(t) IN
    Read("target", c.policy, c.policy) \in todo[t] \/ (c.policy \in used /\ ~Privileged(c.policy))

Shown(t) ==
    LET c == Call(t) IN
    /\ c.op = "CreatePolicy" => ~StatementsArePrivileged(c.doc)
    /\ c.op \in {"UpdatePolicy", "DeletePolicy"} => ShownPolicy(t)
    /\ c.op \in AttachOps => ShownAttachment(t)
    /\ c.op \in AttachOps \cup MemberOps \cup AccountOps \cup {"DeleteGroup"} => Seen(t, c.target)
    /\ c.op \in MemberOps => Seen(t, c.member)
    /\ c.op = "ResetUserPassword" => Read("origin", c.target, c.target) \in todo[t] \/ Seen(t, c.target)

\* What does not exist has nothing and is in nothing.
Existing ==
    /\ exists \subseteq used
    /\ \A h \in Holder : held[h] \subseteq exists /\ (h \notin exists => held[h] = {})
    /\ \A g \in Group : members[g] \subseteq exists /\ (g \notin exists => members[g] = {})

GuardOK(t) ==
    /\ \A p \in Policy : seen[t][p] = "plain" => p \in used /\ ~Privileged(p)
    /\ \A p \in Policy : seen[t][p] = "privileged" => reason[t] # None
    /\ phase[t] = "guard" /\ reason[t] = None => Shown(t)

Turns == \A t \in Task : phase[t] # "idle" => turn[t] <= Len(plan[t])

Forgotten == \A t \in Task : phase[t] = "idle" => \A p \in Policy : seen[t][p] = "unread"

GuardInv ==
    /\ GuardTypeOK /\ Turns /\ Forgotten /\ Existing
    /\ \A m \in wire : Harmless(m.call, m.doc)
    /\ \A t \in Task : GuardOK(t)

\* The reads by which the guard will meet its own caller.
SelfSeen(t, h) ==
    LET u == Caller[t] IN
    /\ h = u => Attached(u) \in todo[t]
    /\ h \in Group /\ u \in members[h] => Attached(u) \in todo[t] \/ Attached(h) \in todo[t]

SelfListed(t) ==
    LET u == Caller[t]
        p == Call(t).policy
    IN
    \/ Read("target", p, p) \in todo[t]
    \/ /\ u \in ServiceAccount /\ p \in held[u] => Read("accounts", p, p) \in todo[t]
       /\ u \in User /\ p \in held[u] => Read("users", p, p) \in todo[t] \/ Attached(u) \in todo[t]
       /\ \A g \in Group : u \in members[g] /\ p \in held[g] => Read("groups", p, p) \in todo[t] \/ SelfSeen(t, g)

SelfShown(t) ==
    LET u == Caller[t]
        c == Call(t)
    IN
    /\ u \in User => \A r \in todo[t] : r.of = u => r = Attached(u)
    /\ \A g \in Group : \A p \in Policy :
         u \in members[g] /\ Read("policy", p, g) \in todo[t] => Attached(u) \in todo[t]
    /\ c.op \in UserOps => c.target # u
    /\ u \in ServiceAccount /\ c.op \in AccountOps \cup AttachOps => c.target # u
    /\ u \in User /\ c.op \in AttachOps \cup MemberOps => SelfSeen(t, c.target)
    /\ u \in User /\ c.op \in MemberOps => SelfSeen(t, c.member)
    /\ c.op = "UpdatePolicy" => SelfListed(t)

\* A call that reaches its guard has a caller to compare with, who may write to
\* IAM as long as it exists.
CallerOK(t) ==
    /\ phase[t] # "idle" => Caller[t] \in Principal
    /\ Caller[t] \in Principal \cap exists => IsProtected(Caller[t])

SelfInv ==
    \A t \in Task : CallerOK(t) /\ (phase[t] = "guard" /\ reason[t] # "self" => SelfShown(t))

-----------------------------------------------------------------------------
LEMMA RequestFacts ==
    ASSUME NEW c \in Request
    PROVE  /\ c.policy \in Policy /\ c.target \in Holder /\ c.member \in User
           /\ c.doc \in Document /\ c.keep \in BOOLEAN
           /\ c.op \in MemberOps \cup {"DeleteGroup"} => c.target \in Group
           /\ c.op \in AccountOps => c.target \in ServiceAccount
           /\ c.op \in UserOps => c.target \in User
           /\ c.op = "CreatePolicy" => ~c.keep
           /\ c.op \in PolicyOps \cup AttachOps \cup MemberOps \cup AccountOps \cup UserOps \cup {"DeleteGroup"}
BY DEF Request

LEMMA CallFacts ==
    ASSUME GuardTypeOK, NEW t \in Task, turn[t] <= Len(plan[t])
    PROVE  Call(t) \in Request
<1>1. plan[t] \in Seq(Request) /\ turn[t] \in Nat \ {0}
    BY DEF GuardTypeOK
<1>2. turn[t] \in 1..Len(plan[t])
    BY <1>1
<1> QED
    BY <1>1, <1>2 DEF Call

LEMMA ReadFacts ==
    ASSUME NEW kind, NEW x, NEW of
    PROVE  /\ Read(kind, x, of).kind = kind /\ Read(kind, x, of).id = x /\ Read(kind, x, of).of = of
           /\ kind \in Kinds /\ x \in Policy \cup Holder /\ of \in Policy \cup Holder => Read(kind, x, of) \in Reads
BY DEF Read, Reads

LEMMA Kinds8 == \A k : k \in Kinds <=> k \in {"attached", "groupsOf", "policy", "target", "groups", "users", "accounts", "origin"}
BY DEF Kinds

\* What the reads of one step may add.
LEMMA NewReads ==
    ASSUME GuardTypeOK, NEW t \in Task, NEW h \in Holder, NEW ps \in SUBSET Policy
    PROVE  /\ Attached(h) \in Reads /\ Read("groupsOf", h, h) \in Reads
           /\ PolicyReads(t, ps, h) \subseteq Reads
           /\ h \in Group => MemberReads(h) \subseteq Reads
           /\ WhyOf(t, ps) \in {None, "privilege"}
<1>1. Attached(h) \in Reads /\ Read("groupsOf", h, h) \in Reads
    BY ReadFacts, Kinds8 DEF Attached
<1>2. PolicyReads(t, ps, h) \subseteq Reads
    <2>1. \A p \in ps : Read("policy", p, h) \in Reads
        BY ReadFacts, Kinds8
    <2> QED
        BY <2>1 DEF PolicyReads
<1>3. h \in Group => MemberReads(h) \subseteq Reads
    <2>1. \A u \in User : Attached(u) \in Reads
        BY ReadFacts, Kinds8 DEF Attached, Holder
    <2> QED
        BY <2>1 DEF MemberReads, GuardTypeOK
<1> QED
    BY <1>1, <1>2, <1>3 DEF WhyOf

LEMMA EndType ==
    ASSUME GuardTypeOK, NEW t \in Task, turn[t] <= Len(plan[t]), Quiet,
           NEW how \in Refusals \cup {None, "failed", "returned"}, End(t, how)
    PROVE  GuardTypeOK'
<1>1. {} \in Document /\ [p \in Policy |-> "unread"] \in [Policy -> Known]
    BY DEF Document, Known
<1>2. /\ exists' = exists /\ used' = used /\ document' = document /\ held' = held /\ members' = members
      /\ plan' = plan /\ wire' = wire /\ taken' = taken
    BY DEF Quiet, service
<1>3. turn' \in [Task -> Nat \ {0}] /\ \A d \in Task : turn'[d] <= Len(plan'[d]) + 1
    <2>1. \A d \in Task : plan[d] \in Seq(Request) /\ Len(plan[d]) \in Nat /\ turn[d] \in Nat \ {0}
        BY DEF GuardTypeOK
    <2> QED
        BY <1>2, <2>1 DEF GuardTypeOK, End
<1>4. todo' \in [Task -> SUBSET Reads] /\ seen' \in [Task -> [Policy -> Known]]
    BY <1>1 DEF GuardTypeOK, End
<1>5. base' \in [Task -> Document] /\ phase' \in [Task -> {"idle", "guard", "sent"}]
    BY <1>1 DEF GuardTypeOK, End
<1>6. /\ reason' \in [Task -> {None, "self", "privilege"}]
      /\ result' \in [Task -> Refusals \cup {None, "failed", "returned"}]
    BY DEF GuardTypeOK, End
<1> QED
    BY <1>2, <1>3, <1>4, <1>5, <1>6 DEF GuardTypeOK

LEMMA LearnType ==
    ASSUME GuardTypeOK, NEW t \in Task, NEW why \in {None, "self", "privilege"}, NEW left \in SUBSET Reads,
           Learn(t, why, left)
    PROVE  /\ todo' \in [Task -> SUBSET Reads] /\ reason' \in [Task -> {None, "self", "privilege"}]
           /\ seen' \in [Task -> [Policy -> Known]] /\ base' \in [Task -> Document] => GuardTypeOK'
<1>1. /\ exists' = exists /\ used' = used /\ document' = document /\ held' = held /\ members' = members
      /\ plan' = plan /\ wire' = wire /\ taken' = taken /\ phase' = phase /\ turn' = turn /\ result' = result
    BY DEF Learn, Quiet, service
<1>2. todo' \in [Task -> SUBSET Reads]
    BY DEF GuardTypeOK, Learn
<1>3. Combine(reason[t], why) \in {None, "self", "privilege"}
    BY DEF Combine
<1>4. reason' \in [Task -> {None, "self", "privilege"}]
    BY <1>3 DEF GuardTypeOK, Learn
<1> QED
    BY <1>1, <1>2, <1>4 DEF GuardTypeOK

LEMMA StartType ==
    ASSUME GuardTypeOK, NEW t \in Task, Start(t)
    PROVE  GuardTypeOK'
<1> DEFINE c == Call(t)
<1>1. turn[t] <= Len(plan[t]) /\ Quiet /\ c \in Request
    BY CallFacts DEF Start
<1>2. ASSUME NEW how \in {"privileged", "selfChange"}, End(t, how) PROVE GuardTypeOK'
    BY <1>1, <1>2, EndType DEF Refusals
<1>3. CASE phase'[t] = "guard" /\ ~End(t, "privileged") /\ ~End(t, "selfChange")
    <2>1. /\ phase' = [phase EXCEPT ![t] = "guard"] /\ todo' = [todo EXCEPT ![t] = FirstReads(c)]
          /\ reason' = [reason EXCEPT ![t] = IF CreateIsPrivileged(c) THEN "privilege" ELSE None]
          /\ UNCHANGED <<turn, result, seen, base>>
        BY <1>3 DEF Start
    <2>2. FirstReads(c) \subseteq Reads
        <3>1. /\ Read("target", c.policy, c.policy) \in Reads /\ Read("origin", c.target, c.target) \in Reads
              /\ Attached(c.target) \in Reads /\ Attached(c.member) \in Reads
            BY <1>1, RequestFacts, ReadFacts, Kinds8 DEF Attached, Holder
        <3> QED
            BY <3>1 DEF FirstReads
    <2>3. todo' \in [Task -> SUBSET Reads] /\ phase' \in [Task -> {"idle", "guard", "sent"}]
        BY <2>1, <2>2 DEF GuardTypeOK
    <2>4. reason' \in [Task -> {None, "self", "privilege"}]
        BY <2>1 DEF GuardTypeOK
    <2>5. /\ exists' = exists /\ used' = used /\ document' = document /\ held' = held /\ members' = members
          /\ plan' = plan /\ wire' = wire /\ taken' = taken
        BY <1>1 DEF Quiet, service
    <2> QED
        BY <2>1, <2>3, <2>4, <2>5 DEF GuardTypeOK
<1> QED
    <2>1. \/ End(t, "privileged") \/ End(t, "selfChange") \/ phase' = [phase EXCEPT ![t] = "guard"]
        BY DEF Start
    <2>2. phase \in [Task -> {"idle", "guard", "sent"}]
        BY DEF GuardTypeOK
    <2> QED
        BY <1>2, <1>3, <2>1, <2>2

\* Steps that only learn keep every call in its plan.
LEMMA LearnTurns ==
    ASSUME Turns, NEW t \in Task, NEW why, NEW left, Learn(t, why, left)
    PROVE  Turns'
BY DEF Learn, Quiet, Turns

LEMMA EndTurns ==
    ASSUME Turns, GuardTypeOK, NEW t \in Task, NEW how, End(t, how), Quiet
    PROVE  Turns'
BY DEF End, Quiet, Turns, GuardTypeOK

LEMMA GuardStepType ==
    ASSUME GuardTypeOK, Turns, NEW t \in Task, GuardStep(t)
    PROVE  GuardTypeOK' /\ Turns'
<1> DEFINE c == Call(t)
<1>g. phase[t] = "guard"
    BY DEF GuardStep, FindSelf, ReadUser, ReadGroupsOf, ReadOrigin, ReadAccount, ReadGroup,
       ReadGroupToDelete,
           ReadPolicy, ReadTarget, ReadList, Refuse, Asks
<1>c. c \in Request /\ turn[t] <= Len(plan[t])
    BY <1>g, CallFacts DEF Turns
<1>l. ASSUME NEW why \in {None, "self", "privilege"}, NEW left \in SUBSET Reads, Learn(t, why, left),
             seen' \in [Task -> [Policy -> Known]], base' \in [Task -> Document]
      PROVE  GuardTypeOK' /\ Turns'
    BY <1>l, LearnType, LearnTurns
<1>e. ASSUME NEW how \in Refusals \cup {None, "failed", "returned"}, End(t, how), Quiet
      PROVE  GuardTypeOK' /\ Turns'
    BY <1>c, <1>e, EndType, EndTurns
<1>s. UNCHANGED <<seen, base>> => seen' \in [Task -> [Policy -> Known]] /\ base' \in [Task -> Document]
    BY DEF GuardTypeOK
<1>t. todo[t] \subseteq Reads
    BY DEF GuardTypeOK
<1>1. ASSUME NEW u \in User, FindSelf(t, u) PROVE GuardTypeOK' /\ Turns'
    BY <1>1, <1>l, <1>s DEF FindSelf
<1>2. ASSUME NEW u \in User, ReadUser(t, u) PROVE GuardTypeOK' /\ Turns'
    <2>1. u \in Holder /\ held[u] \in SUBSET Policy
        BY DEF Holder, GuardTypeOK
    <2>2. (todo[t] \ {Attached(u)}) \cup PolicyReads(t, held[u], u)
            \cup (IF AlreadyPrivileged(t, held[u]) THEN {} ELSE {Read("groupsOf", u, u)}) \in SUBSET Reads
        BY <1>t, <2>1, NewReads
    <2>3. WhyOf(t, held[u]) \in {None, "self", "privilege"}
        BY DEF WhyOf
    <2> QED
        BY <1>2, <1>l, <1>s, <2>2, <2>3 DEF ReadUser
<1>3. ASSUME NEW u \in User, ReadGroupsOf(t, u) PROVE GuardTypeOK' /\ Turns'
    <2> DEFINE ps == UNION {held[g] : g \in GroupsOf(u)}
    <2>1. u \in Holder /\ ps \in SUBSET Policy
        BY DEF Holder, GuardTypeOK, GroupsOf
    <2>2. (todo[t] \ {Read("groupsOf", u, u)}) \cup PolicyReads(t, ps, u) \in SUBSET Reads
        BY <1>t, <2>1, NewReads
    <2>3. WhyOf(t, ps) \in {None, "self", "privilege"}
        BY DEF WhyOf
    <2>4. Learn(t, WhyOf(t, ps), (todo[t] \ {Read("groupsOf", u, u)}) \cup PolicyReads(t, ps, u))
        BY <1>3 DEF ReadGroupsOf
    <2>5. UNCHANGED <<seen, base>>
        BY <1>3 DEF ReadGroupsOf
    <2> HIDE DEF ps
    <2> QED
        BY <1>l, <1>s, <2>2, <2>3, <2>4, <2>5
<1>4. ASSUME NEW s \in ServiceAccount, ReadAccount(t, s) PROVE GuardTypeOK' /\ Turns'
    <2>1. s \in Holder /\ held[s] \in SUBSET Policy
        BY DEF Holder, GuardTypeOK
    <2>2. (todo[t] \ {Attached(s)}) \cup PolicyReads(t, held[s], s) \in SUBSET Reads
        BY <1>t, <2>1, NewReads
    <2>3. WhyOf(t, held[s]) \in {None, "self", "privilege"}
        BY DEF WhyOf
    <2> QED
        BY <1>4, <1>l, <1>s, <2>2, <2>3 DEF ReadAccount
<1>5. ASSUME NEW g \in Group, ReadGroup(t, g) PROVE GuardTypeOK' /\ Turns'
    <2>1. g \in Holder /\ held[g] \in SUBSET Policy
        BY DEF Holder, GuardTypeOK
    <2>2. (todo[t] \ {Attached(g)}) \cup PolicyReads(t, held[g], g) \cup MemberReads(g) \in SUBSET Reads
        BY <1>t, <2>1, NewReads
    <2>3. WhyOf(t, held[g]) \in {None, "self", "privilege"}
        BY DEF WhyOf
    <2> QED
        BY <1>5, <1>l, <1>s, <2>2, <2>3 DEF ReadGroup
<1>6. ASSUME NEW g \in Group, ReadGroupToDelete(t, g) PROVE GuardTypeOK' /\ Turns'
    <2>1. \/ Learn(t, None, todo[t] \ {Attached(g)}) /\ UNCHANGED <<seen, base>>
          \/ End(t, "inUse") /\ Quiet
        BY <1>6 DEF ReadGroupToDelete
    <2>2. todo[t] \ {Attached(g)} \in SUBSET Reads
        BY <1>t
    <2> QED
        BY <1>l, <1>e, <1>s, <2>1, <2>2 DEF Refusals
<1>7. ASSUME NEW p \in Policy, NEW x \in Holder, ReadPolicy(t, p, x) PROVE GuardTypeOK' /\ Turns'
    <2>1. base' \in [Task -> Document]
        BY <1>7 DEF ReadPolicy, GuardTypeOK
    <2>2. seen' \in [Task -> [Policy -> Known]]
        <3>1. PICK k \in Known : seen' = [seen EXCEPT ![t][p] = k]
            BY <1>7 DEF ReadPolicy, Known
        <3>2. [seen[t] EXCEPT ![p] = k] \in [Policy -> Known]
            BY DEF GuardTypeOK
        <3> QED
            BY <3>1, <3>2 DEF GuardTypeOK
    <2>3. /\ {r \in todo[t] : r.of # x} \in SUBSET Reads
          /\ {r \in todo[t] : ~(r.kind = "policy" /\ r.id = p)} \in SUBSET Reads
        BY <1>t
    <2> QED
        BY <1>7, <1>l, <2>1, <2>2, <2>3 DEF ReadPolicy
<1>8. CASE ReadTarget(t)
    <2>1. CASE End(t, "managed") /\ Quiet
        BY <1>e, <2>1 DEF Refusals
    <2>2. CASE ~(End(t, "managed") /\ Quiet)
        <3> DEFINE left == (todo[t] \ {Read("target", c.policy, c.policy)})
                             \cup (IF c.op \in AttachOps THEN {} ELSE Lists(c.policy))
                   why == IF IsPrivilegedChange(c) THEN "privilege" ELSE None
        <3>1. Learn(t, why, left) /\ base' = [base EXCEPT ![t] = document[c.policy]] /\ UNCHANGED seen
            BY <1>8, <2>2 DEF ReadTarget
        <3>2. Lists(c.policy) \subseteq Reads
            BY <1>c, RequestFacts, ReadFacts, Kinds8 DEF Lists
        <3>3. left \in SUBSET Reads
            BY <1>t, <3>2
        <3>4. document[c.policy] \in Document
            BY <1>c, RequestFacts DEF GuardTypeOK
        <3>5. base' \in [Task -> Document] /\ seen' \in [Task -> [Policy -> Known]]
            BY <3>1, <3>4 DEF GuardTypeOK
        <3> QED
            BY <1>l, <3>1, <3>3, <3>5
    <2> QED
        BY <2>1, <2>2
<1>9. ASSUME NEW kind \in {"groups", "users", "accounts"}, NEW of \in SUBSET Holder, ReadList(t, kind, of)
      PROVE  GuardTypeOK' /\ Turns'
    <2> DEFINE on == {h \in of : c.policy \in held[h]}
               left == (todo[t] \ {Read(kind, c.policy, c.policy)}) \cup {Attached(h) : h \in on}
               why == IF of = ServiceAccount /\ ByAccount(t) /\ on # {} THEN "self" ELSE None
    <2>1. \/ End(t, "inUse") /\ Quiet
          \/ Learn(t, why, left) /\ UNCHANGED <<seen, base>>
        BY <1>9 DEF ReadList
    <2>2. \A h \in on : Attached(h) \in Reads
        BY ReadFacts, Kinds8 DEF Attached
    <2>3. left \in SUBSET Reads
        BY <1>t, <2>2
    <2> HIDE DEF on, left
    <2> QED
        BY <1>l, <1>e, <1>s, <2>1, <2>3 DEF Refusals
<1>10. ASSUME NEW u \in User, ReadOrigin(t, u) PROVE GuardTypeOK' /\ Turns'
    <2>1. \/ End(t, "origin") /\ Quiet
          \/ /\ Learn(t, None, (todo[t] \ {Read("origin", u, u)})
                           \cup (IF c.op = "ResetUserPassword" THEN {Attached(u)} ELSE {}))
             /\ UNCHANGED <<seen, base>>
        BY <1>10 DEF ReadOrigin
    <2>2. Attached(u) \in Reads
        BY NewReads DEF Holder
    <2>3. (todo[t] \ {Read("origin", u, u)})
             \cup (IF c.op = "ResetUserPassword" THEN {Attached(u)} ELSE {}) \in SUBSET Reads
        BY <1>t, <2>2
    <2> QED
        BY <1>l, <1>e, <1>s, <2>1, <2>3 DEF Refusals
<1>11. CASE Refuse(t)
    BY <1>11, <1>e DEF Refuse, Refusals
<1> QED
    <2>1. /\ "groups" \in {"groups", "users", "accounts"} /\ "users" \in {"groups", "users", "accounts"}
          /\ "accounts" \in {"groups", "users", "accounts"}
          /\ Group \in SUBSET Holder /\ User \in SUBSET Holder /\ ServiceAccount \in SUBSET Holder
        BY DEF Holder
    <2>2. ReadList(t, "groups", Group) \/ ReadList(t, "users", User) \/ ReadList(t, "accounts", ServiceAccount)
          => GuardTypeOK' /\ Turns'
        BY <1>9, <2>1
    <2> QED
        BY <1>1, <1>2, <1>3, <1>4, <1>5, <1>6, <1>7, <1>8, <1>10, <1>11, <2>2 DEF GuardStep

LEMMA LandType ==
    ASSUME GuardTypeOK, Turns, NEW m \in wire, Land(m)
    PROVE  GuardTypeOK' /\ Turns'
<1> DEFINE c == m.call
<1>1. m.from \in Task /\ c \in Request /\ m.doc \in Document
    BY DEF GuardTypeOK
<1>2. /\ c.policy \in Policy /\ c.target \in Holder /\ c.member \in User
      /\ c.op \in MemberOps => c.target \in Group
      /\ c.op \in AccountOps \cup UserOps => c.target \in Principal
    BY <1>1, RequestFacts DEF Principal
<1>3. /\ plan' = plan /\ turn' = turn /\ phase' = phase /\ todo' = todo /\ seen' = seen /\ reason' = reason
      /\ base' = base /\ result' = result /\ wire' \subseteq wire
    BY DEF Land, guard
<1>4. /\ exists' \subseteq Policy \cup Holder /\ used' \subseteq Policy \cup Holder
      /\ document' \in [Policy -> Document] /\ held' \in [Holder -> SUBSET Policy]
      /\ members' \in [Group -> SUBSET User] /\ taken' \subseteq Principal
    <2>1. CASE LandPolicy(c, m.doc)
        <3>1. members' \in [Group -> SUBSET User] /\ taken' \subseteq Principal
            BY <2>1 DEF LandPolicy, GuardTypeOK
        <3>2. document' \in [Policy -> Document]
            BY <1>1, <1>2, <2>1 DEF LandPolicy, GuardTypeOK
        <3>3. held' \in [Holder -> SUBSET Policy]
            BY <2>1 DEF LandPolicy, GuardTypeOK
        <3>4. exists' \subseteq Policy \cup Holder /\ used' \subseteq Policy \cup Holder
            BY <2>1 DEF LandPolicy, GuardTypeOK
        <3> QED
            BY <3>1, <3>2, <3>3, <3>4
    <2>2. CASE LandAttachment(c)
        <3>1. /\ exists' = exists /\ used' = used /\ document' = document /\ taken' = taken
            BY <2>2 DEF LandAttachment
        <3>2. held' \in [Holder -> SUBSET Policy]
            BY <1>2, <2>2 DEF LandAttachment, GuardTypeOK
        <3>3. members' \in [Group -> SUBSET User]
            <4>1. CASE members' = members
                BY <4>1 DEF GuardTypeOK
            <4>2. CASE c.op \in MemberOps
                <5>1. members[c.target] \cup {c.member} \in SUBSET User /\ members[c.target] \ {c.member} \in SUBSET User
                    BY <1>2, <4>2 DEF GuardTypeOK
                <5>2. \E s \in SUBSET User : members' = [members EXCEPT ![c.target] = s]
                    BY <2>2, <4>2, <5>1 DEF LandAttachment, MemberOps
                <5> QED
                    BY <5>2 DEF GuardTypeOK
            <4> QED
                BY <2>2, <4>1, <4>2 DEF LandAttachment, MemberOps
        <3> QED
            BY <3>1, <3>2, <3>3 DEF GuardTypeOK
    <2>3. CASE LandDelete(c)
        <3>1. members' \in [Group -> SUBSET User] /\ held' \in [Holder -> SUBSET Policy]
            BY <1>2, <2>3 DEF LandDelete, GuardTypeOK
        <3>2. exists' \subseteq Policy \cup Holder /\ used' = used /\ document' = document /\ taken' = taken
            BY <2>3 DEF LandDelete, GuardTypeOK
        <3> QED
            BY <3>1, <3>2 DEF GuardTypeOK
    <2>4. CASE LandTake(c)
        <3>1. c.target \in Principal
            BY <1>2, <2>4 DEF LandTake, AccountOps, UserOps
        <3> QED
            BY <2>4, <3>1 DEF LandTake, GuardTypeOK, service
    <2> QED
        BY <2>1, <2>2, <2>3, <2>4 DEF Land
<1> QED
    BY <1>3, <1>4 DEF GuardTypeOK, Turns

LEMMA SendType ==
    ASSUME GuardTypeOK, Turns, NEW t \in Task, Send(t)
    PROVE  GuardTypeOK' /\ Turns'
<1> DEFINE m == [from |-> t, call |-> Call(t), doc |-> Sends(t)]
<1>1. Call(t) \in Request
    BY CallFacts DEF Send, Turns
<1>2. Sends(t) \in Document
    BY <1>1, RequestFacts DEF Sends, GuardTypeOK
<1>3. m \in [from : Task, call : Request, doc : Document]
    BY <1>1, <1>2
<1>4. wire' = wire \cup {m}
    BY DEF Send
<1> HIDE DEF m
<1>5. wire' \subseteq [from : Task, call : Request, doc : Document]
    BY <1>3, <1>4 DEF GuardTypeOK
<1>6. phase' \in [Task -> {"idle", "guard", "sent"}]
    BY DEF Send, GuardTypeOK
<1>7. /\ exists' = exists /\ used' = used /\ document' = document /\ held' = held /\ members' = members
      /\ plan' = plan /\ turn' = turn /\ todo' = todo /\ seen' = seen /\ reason' = reason /\ base' = base
      /\ result' = result /\ taken' = taken
    BY DEF Send, service, guard
<1>8. Turns'
    BY DEF Send, Turns, guard, GuardTypeOK
<1> QED
    BY <1>5, <1>6, <1>7, <1>8 DEF GuardTypeOK

LEMMA GuardTypeInit == GuardInit => GuardTypeOK /\ Turns
<1> SUFFICES ASSUME GuardInit PROVE GuardTypeOK /\ Turns
    OBVIOUS
<1>1. PICK w \in Worlds : exists = w.exists /\ document = w.document /\ held = w.held /\ members = w.members
    BY DEF GuardInit
<1>2. w \in World
    BY IamAssumption
<1>3. /\ exists \subseteq Policy \cup Holder /\ document \in [Policy -> Document]
      /\ held \in [Holder -> SUBSET Policy] /\ members \in [Group -> SUBSET User]
    BY <1>1, <1>2 DEF World
<1>4. plan \in [Task -> Seq(Request)]
    BY IamAssumption DEF GuardInit
<1>5. {} \in Document /\ [p \in Policy |-> "unread"] \in [Policy -> Known]
    BY DEF Document, Known
<1>6. \A t \in Task : turn[t] <= Len(plan[t]) + 1
    <2>1. \A t \in Task : Len(plan[t]) \in Nat /\ turn[t] = 1
        BY <1>4 DEF GuardInit
    <2> QED
        BY <2>1
<1>7. /\ todo \in [Task -> SUBSET Reads] /\ seen \in [Task -> [Policy -> Known]]
      /\ base \in [Task -> Document]
    BY <1>5 DEF GuardInit
<1>8. /\ turn \in [Task -> Nat \ {0}] /\ phase \in [Task -> {"idle", "guard", "sent"}]
      /\ reason \in [Task -> {None, "self", "privilege"}]
      /\ result \in [Task -> Refusals \cup {None, "failed", "returned"}]
      /\ used = exists /\ wire = {} /\ taken = {}
    BY DEF GuardInit
<1>9. Turns
    BY DEF Turns, GuardInit
<1> QED
    BY <1>3, <1>4, <1>6, <1>7, <1>8, <1>9 DEF GuardTypeOK

LEMMA GuardTypeStep == GuardTypeOK /\ Turns /\ [GuardNext]_guardVars => GuardTypeOK' /\ Turns'
<1> SUFFICES ASSUME GuardTypeOK, Turns, [GuardNext]_guardVars PROVE GuardTypeOK' /\ Turns'
    OBVIOUS
<1>1. CASE UNCHANGED guardVars
    BY <1>1 DEF guardVars, service, guard, GuardTypeOK, Turns
<1>2. ASSUME NEW t \in Task, Start(t) PROVE GuardTypeOK' /\ Turns'
    <2>1. Turns'
        <3>1. \/ \E how : End(t, how) /\ Quiet
              \/ phase' = [phase EXCEPT ![t] = "guard"] /\ turn' = turn /\ plan' = plan /\ turn[t] <= Len(plan[t])
            BY <1>2 DEF Start, Quiet
        <3>2. \A d \in Task : phase'[d] # "idle" => turn'[d] <= Len(plan'[d])
            BY <3>1, EndTurns DEF Turns, GuardTypeOK
        <3> QED
            BY <3>2 DEF Turns
    <2> QED
        BY <1>2, <2>1, StartType
<1>3. ASSUME NEW t \in Task, GuardFails(t) \/ Returns(t) PROVE GuardTypeOK' /\ Turns'
    BY <1>3, EndType, EndTurns DEF GuardFails, Returns, Turns
<1>4. ASSUME NEW m \in wire, Drop(m) PROVE GuardTypeOK' /\ Turns'
    BY <1>4 DEF Drop, service, guard, GuardTypeOK, Turns
<1> QED
    BY <1>1, <1>2, <1>3, <1>4, GuardStepType, SendType, LandType DEF GuardNext

-----------------------------------------------------------------------------
LEMMA Apart ==
    /\ Group \subseteq Holder /\ Principal \subseteq Holder /\ User \subseteq Principal /\ ServiceAccount \subseteq Principal
    /\ \A h \in Holder : h \notin Policy
    /\ \A g \in Group : g \notin Principal
    /\ \A u \in User : u \notin ServiceAccount
    /\ \A h \in Holder : h \in Group \/ h \in Principal
BY IamAssumption DEF Holder, Principal

\* No step gives a holder a privileged policy, or somebody protected a group.
Steady ==
    /\ \A h \in Holder : \A p \in Policy : p \in held'[h] /\ Privileged(p)' => p \in held[h] /\ Privileged(p)
    /\ \A g \in Group : \A u \in User : u \in members'[g] => u \in members[g] \/ (Safe(u) /\ Safe(g))
    /\ \A p \in used : p \in used' /\ (Privileged(p)' => Privileged(p))
    /\ \A h \in Holder : \A p \in Policy : p \in held'[h] => p \in held[h] \/ Safe(h)

LEMMA SteadyStutter == ASSUME UNCHANGED service PROVE Steady
BY DEF Steady, service, Privileged

LEMMA EmpoweredKept ==
    ASSUME Steady, GuardTypeOK', NEW h \in Holder, Empowered(h)'
    PROVE  Empowered(h)
<1>1. PICK p \in held'[h] : Privileged(p)'
    BY DEF Empowered
<1>2. p \in Policy
    BY DEF GuardTypeOK
<1> QED
    BY <1>1, <1>2 DEF Steady, Empowered

LEMMA ProtectedKept ==
    ASSUME Steady, GuardTypeOK', NEW x \in Principal, IsProtected(x)'
    PROVE  IsProtected(x)
<1>1. CASE Empowered(x)'
    BY <1>1, EmpoweredKept, Apart DEF IsProtected
<1>2. CASE x \in User /\ \E g \in GroupsOf(x)' : Empowered(g)'
    <2>1. PICK g \in Group : x \in members'[g] /\ Empowered(g)'
        BY <1>2 DEF GroupsOf
    <2>2. Empowered(g)
        BY <2>1, EmpoweredKept, Apart
    <2>3. x \in members[g]
        BY <1>2, <2>1, <2>2, Apart DEF Steady, Safe
    <2> QED
        BY <1>2, <2>2, <2>3 DEF IsProtected, GroupsOf
<1> QED
    BY <1>1, <1>2 DEF IsProtected

LEMMA SafeKept ==
    ASSUME Steady, GuardTypeOK, GuardTypeOK', NEW h \in Holder, Safe(h)
    PROVE  Safe(h)'
<1>1. h \in Principal => ~IsProtected(h)'
    BY ProtectedKept DEF Safe
<1>2. ASSUME h \in Group PROVE ~Empowered(h)' /\ \A u \in members'[h] : ~IsProtected(u)'
    <2>1. ASSUME NEW u \in members'[h] PROVE ~IsProtected(u)'
        <3>1. u \in User /\ u \in Principal
            BY <1>2, Apart DEF GuardTypeOK
        <3>2. ~IsProtected(u)
            BY <1>2, <3>1 DEF Steady, Safe
        <3> QED
            BY <3>1, <3>2, ProtectedKept
    <2> QED
        BY <1>2, <2>1, EmpoweredKept DEF Safe
<1> QED
    BY <1>1, <1>2 DEF Safe

LEMMA HarmlessKept ==
    ASSUME Steady, GuardTypeOK, GuardTypeOK', NEW c \in Request, NEW doc, Harmless(c, doc)
    PROVE  Harmless(c, doc)'
<1>1. /\ c.policy \in Policy /\ c.target \in Holder /\ c.member \in Holder
    BY RequestFacts, Apart
<1>2. c.op \in AttachOps \cup {"UpdatePolicy"} => c.policy \in used' /\ ~Privileged(c.policy)'
    BY DEF Harmless, Steady
<1>3. c.op \in {"UpdatePolicy", "DeletePolicy"} => \A h \in Holder : c.policy \in held'[h] => Safe(h)'
    BY <1>1, SafeKept DEF Harmless, Steady
<1>4. c.op \in AttachOps \cup MemberOps \cup AccountOps \cup {"DeleteGroup", "ResetUserPassword"} => Safe(c.target)'
    BY <1>1, SafeKept DEF Harmless
<1>5. c.op \in MemberOps => Safe(c.member)'
    BY <1>1, SafeKept DEF Harmless
<1>6. c.op \in {"CreatePolicy", "UpdatePolicy"} => ~StatementsArePrivileged(doc)
    BY DEF Harmless
<1> QED
    BY <1>2, <1>3, <1>4, <1>5, <1>6 DEF Harmless

-----------------------------------------------------------------------------
\* What a write that is carried out does to the service.
Effect(c) ==
    /\ \A q \in used : q \in used' /\ (document'[q] = document[q]
                                       \/ (~StatementsArePrivileged(document'[q]) /\ c.op = "UpdatePolicy" /\ q = c.policy))
    /\ \A h \in Holder : \A q \in Policy : q \in held'[h] => q \in held[h] \/ (q \in used /\ ~Privileged(q) /\ Safe(h))
    /\ \A h \in Holder : \A q \in Policy : q \in held[h] => q \in held'[h] \/ Safe(h) \/ h \notin exists'
                                                           \/ (c.op = "DeletePolicy" /\ q = c.policy)
    /\ \A g \in Group : \A u \in User : u \in members'[g] => u \in members[g] \/ (Safe(u) /\ Safe(g))
    /\ \A g \in Group : \A u \in User : u \in members[g] => u \in members'[g] \/ u \notin exists' \/ Safe(u)
    /\ \A x \in taken' : x \in taken \/ Safe(x)
    /\ \A s \in ServiceAccount : s \in exists /\ s \notin exists' => Safe(s)
    /\ Existing'

LEMMA PolicyEffect ==
    ASSUME GuardTypeOK, Existing, NEW c \in Request, NEW doc, Harmless(c, doc), LandPolicy(c, doc)
    PROVE  Effect(c)
<1>1. /\ members' = members /\ taken' = taken /\ c.policy \in Policy
    BY RequestFacts DEF LandPolicy
<1>e. /\ exists \subseteq used /\ (\A h \in Holder : held[h] \subseteq exists) /\ document \in [Policy -> Document]
      /\ held \in [Holder -> SUBSET Policy]
    BY DEF Existing, GuardTypeOK
<1>2. CASE c.op = "CreatePolicy"
    <2>1. PICK p \in Policy \ used : /\ exists' = exists \cup {p} /\ used' = used \cup {p}
                                     /\ document' = [document EXCEPT ![p] = doc] /\ held' = held
        BY <1>2 DEF LandPolicy
    <2>2. \A q \in used : q \in used' /\ document'[q] = document[q]
        BY <1>e, <2>1
    <2>3. Existing'
        BY <1>1, <2>1, Apart DEF Existing
    <2>4. \A s \in ServiceAccount : s \in exists => s \in exists'
        BY <2>1
    <2> QED
        BY <1>1, <2>1, <2>2, <2>3, <2>4 DEF Effect
<1>3. CASE c.op = "UpdatePolicy"
    <2>1. exists' = exists /\ used' = used /\ held' = held /\ document' = [document EXCEPT ![c.policy] = doc]
        BY <1>3 DEF LandPolicy
    <2>2. ~StatementsArePrivileged(doc)
        BY <1>3 DEF Harmless
    <2>3. \A q \in used : q \in used' /\ (document'[q] = document[q]
                             \/ (~StatementsArePrivileged(document'[q]) /\ c.op = "UpdatePolicy" /\ q = c.policy))
        BY <1>1, <1>3, <1>e, <2>1, <2>2
    <2>4. Existing'
        BY <1>1, <2>1 DEF Existing
    <2> QED
        BY <1>1, <2>1, <2>3, <2>4 DEF Effect
<1>4. CASE c.op = "DeletePolicy"
    <2>1. /\ exists' = exists \ {c.policy} /\ used' = used /\ document' = document
          /\ held' = [h \in Holder |-> held[h] \ {c.policy}]
        BY <1>4 DEF LandPolicy
    <2>2. Existing'
        <3>1. c.policy \notin Holder
            BY <1>1, Apart
        <3>2. \A g \in Group : g \in exists' <=> g \in exists
            BY <2>1, <3>1, Apart
        <3>3. \A g \in Group : members[g] \subseteq Holder
            BY Apart DEF GuardTypeOK
        <3>4. \A g \in Group : members'[g] \subseteq exists' /\ (g \notin exists' => members'[g] = {})
            BY <1>1, <2>1, <3>1, <3>2, <3>3 DEF Existing
        <3>5. \A h \in Holder : held'[h] \subseteq exists' /\ (h \notin exists' => held'[h] = {})
            BY <2>1, <3>1 DEF Existing
        <3> QED
            BY <2>1, <3>4, <3>5 DEF Existing
    <2>3. \A s \in ServiceAccount : s \in exists => s \in exists'
        BY <1>1, <2>1, Apart
    <2> QED
        BY <1>1, <1>4, <2>1, <2>2, <2>3 DEF Effect
<1> QED
    BY <1>2, <1>3, <1>4 DEF LandPolicy

LEMMA AttachmentEffect ==
    ASSUME GuardTypeOK, Existing, NEW c \in Request, NEW doc, Harmless(c, doc), LandAttachment(c)
    PROVE  Effect(c)
<1>1. /\ exists' = exists /\ used' = used /\ document' = document /\ taken' = taken /\ c.target \in exists
      /\ c.target \in Holder /\ c.member \in User /\ c.policy \in Policy
      /\ c.op \in MemberOps => c.target \in Group
    BY RequestFacts DEF LandAttachment
<1>2. CASE c.op \in AttachOps
    <2>1. /\ c.policy \in used /\ ~Privileged(c.policy) /\ Safe(c.target)
        BY <1>2 DEF Harmless
    <2>2. members' = members
        BY <1>2 DEF LandAttachment, AttachOps
    <2>3. /\ \A h \in Holder : h # c.target => held'[h] = held[h]
          /\ \A q : q \in held'[c.target] => q \in held[c.target] \/ (q = c.policy /\ q \in exists)
        BY <1>1, <1>2 DEF LandAttachment, AttachOps, GuardTypeOK
    <2>4. Existing'
        BY <1>1, <2>2, <2>3 DEF Existing
    <2> QED
        BY <1>1, <2>1, <2>2, <2>3, <2>4 DEF Effect
<1>3. CASE c.op \in MemberOps
    <2>1. Safe(c.target) /\ Safe(c.member)
        BY <1>3 DEF Harmless
    <2>2. held' = held
        BY <1>3 DEF LandAttachment, MemberOps
    <2>3. /\ \A g \in Group : g # c.target => members'[g] = members[g]
          /\ \A u : u \in members'[c.target] => u \in members[c.target] \/ (u = c.member /\ u \in exists)
          /\ \A u : u \in members[c.target] => u \in members'[c.target] \/ u = c.member
        BY <1>1, <1>3 DEF LandAttachment, MemberOps, GuardTypeOK
    <2>4. Existing'
        BY <1>1, <2>2, <2>3 DEF Existing
    <2> QED
        BY <1>1, <2>1, <2>2, <2>3, <2>4 DEF Effect
<1> QED
    BY <1>2, <1>3 DEF LandAttachment, AttachOps, MemberOps

LEMMA DeleteEffect ==
    ASSUME GuardTypeOK, Existing, NEW c \in Request, NEW doc, Harmless(c, doc), LandDelete(c)
    PROVE  Effect(c)
<1>1. /\ exists' = exists \ {c.target} /\ used' = used /\ document' = document /\ taken' = taken
      /\ held' = [held EXCEPT ![c.target] = {}]
      /\ members' = [g \in Group |-> IF g = c.target THEN {} ELSE members[g] \ {c.target}]
      /\ c.target \in Holder
    BY RequestFacts DEF LandDelete
<1>2. held \in [Holder -> SUBSET Policy] /\ members \in [Group -> SUBSET User]
    BY DEF GuardTypeOK
<1>3. /\ c.target \in Group => Safe(c.target)
      /\ c.target \in ServiceAccount => Safe(c.target)
    <2>1. c.op = "DeleteGroup" => c.target \in Group /\ Safe(c.target)
        BY RequestFacts DEF Harmless
    <2>2. c.op = "DeleteServiceAccount" => c.target \in ServiceAccount /\ Safe(c.target)
        BY RequestFacts DEF Harmless, AccountOps
    <2>3. c.op = "DeleteUser" => c.target \in User
        BY RequestFacts DEF UserOps
    <2> QED
        BY <2>1, <2>2, <2>3, Apart DEF LandDelete
<1>4. Existing'
    <2>1. /\ exists' \subseteq used'
          /\ \A h \in Holder : held'[h] \subseteq held[h] /\ (h \notin exists' => held'[h] = {})
          /\ \A g \in Group : members'[g] \subseteq members[g] \ {c.target} /\ (g \notin exists' => members'[g] = {})
        BY <1>1, <1>2 DEF Existing
    <2>2. \A h \in Holder : c.target \notin held[h]
        BY <1>1, <1>2, Apart
    <2> QED
        BY <1>1, <2>1, <2>2 DEF Existing
<1>5. \A g \in Group : \A u \in User : u \in members[g] => u \in members'[g] \/ u \notin exists' \/ Safe(u)
    <2>1. ASSUME NEW g \in Group, NEW u \in User, u \in members[g], g = c.target PROVE Safe(u)
        BY <1>3, <2>1, Apart DEF Safe
    <2> QED
        BY <1>1, <2>1
<1>6. \A h \in Holder : \A q \in Policy : q \in held[h] => q \in held'[h] \/ h \notin exists'
    BY <1>1, <1>2
<1>7. \A h \in Holder : held'[h] \subseteq held[h]
    BY <1>1, <1>2
<1>8. \A g \in Group : members'[g] \subseteq members[g]
    BY <1>1
<1>9. \A s \in ServiceAccount : s \in exists /\ s \notin exists' => Safe(s)
    BY <1>1, <1>3
<1> QED
    BY <1>1, <1>4, <1>5, <1>6, <1>7, <1>8, <1>9 DEF Effect

LEMMA TakeEffect ==
    ASSUME GuardTypeOK, Existing, NEW c \in Request, NEW doc, Harmless(c, doc), LandTake(c)
    PROVE  Effect(c)
<1>1. taken' = taken \cup {c.target} /\ Safe(c.target)
    BY DEF LandTake, Harmless, AccountOps
<1>2. exists' = exists /\ used' = used /\ document' = document /\ held' = held /\ members' = members
    BY DEF LandTake, service
<1>3. Existing'
    BY <1>2 DEF Existing
<1> QED
    BY <1>1, <1>2, <1>3 DEF Effect

LEMMA LandEffect ==
    ASSUME GuardInv, NEW m \in wire, Land(m)
    PROVE  Effect(m.call) /\ Harmless(m.call, m.doc) /\ m.call \in Request
<1>1. m.call \in Request /\ Harmless(m.call, m.doc)
    BY DEF GuardInv, GuardTypeOK
<1> QED
    BY <1>1, PolicyEffect, AttachmentEffect, DeleteEffect, TakeEffect DEF Land, GuardInv

LEMMA EffectSteady ==
    ASSUME GuardTypeOK, Existing, NEW c \in Request, Effect(c)
    PROVE  Steady
<1>1. ASSUME NEW p \in used, Privileged(p)' PROVE Privileged(p)
    BY <1>1 DEF Effect, Privileged
<1>2. \A h \in Holder : held[h] \subseteq used
    BY DEF Existing
<1>3. ASSUME NEW h \in Holder, NEW p \in Policy, p \in held'[h], Privileged(p)' PROVE p \in held[h] /\ Privileged(p)
    <2>1. p \in held[h] \/ (p \in used /\ ~Privileged(p))
        BY <1>3 DEF Effect
    <2> QED
        BY <1>1, <1>2, <1>3, <2>1
<1>4. \A p \in used : p \in used'
    BY DEF Effect
<1>5. /\ \A g \in Group : \A u \in User : u \in members'[g] => u \in members[g] \/ (Safe(u) /\ Safe(g))
      /\ \A h \in Holder : \A p \in Policy : p \in held'[h] => p \in held[h] \/ Safe(h)
    BY DEF Effect
<1> QED
    BY <1>1, <1>3, <1>4, <1>5 DEF Steady

\* Whoever may write to IAM keeps all it has, but for its own deletion.
LEMMA EffectKeeps ==
    ASSUME GuardTypeOK, GuardTypeOK', Existing, NEW c \in Request, NEW doc, Effect(c), Harmless(c, doc),
           NEW x \in Principal, IsProtected(x), x \in exists'
    PROVE  /\ PoliciesOf(x)' = PoliciesOf(x) /\ Rights(x)' = Rights(x) /\ (x \in taken' => x \in taken)
           /\ held'[x] = held[x]
           /\ x \in User => GroupsOf(x)' = GroupsOf(x) /\ \A g \in GroupsOf(x) : held'[g] = held[g]
           /\ \A q \in PoliciesOf(x) : document'[q] = document[q]
<1>x. ~Safe(x) /\ x \in Holder
    BY Apart DEF Safe
<1>1. held'[x] = held[x]
    <2>1. \A h \in Holder : \A q \in held[h] : c.op = "DeletePolicy" /\ q = c.policy => Safe(h)
        BY DEF Harmless
    <2>2. \A q \in Policy : q \in held'[x] <=> q \in held[x]
        BY <1>x, <2>1 DEF Effect
    <2>3. held'[x] \subseteq Policy /\ held[x] \subseteq Policy
        BY <1>x DEF GuardTypeOK
    <2> QED
        BY <2>2, <2>3
<1>2. ASSUME NEW g \in Group, x \in members[g] PROVE ~Safe(g) /\ x \in User
    BY <1>2, Apart DEF Safe, GuardTypeOK
<1>3. x \in User => GroupsOf(x)' = GroupsOf(x)
    <2>1. x \in User => \A g \in Group : x \in members'[g] <=> x \in members[g]
        BY <1>x DEF Effect
    <2> QED
        BY <2>1 DEF GroupsOf
<1>4. ASSUME x \in User, NEW g \in GroupsOf(x) PROVE held'[g] = held[g]
    <2>1. g \in Group /\ x \in members[g] /\ x \in members'[g] /\ g \in Holder
        BY <1>3, <1>4, Apart DEF GroupsOf
    <2>2. ~Safe(g) /\ g \in exists'
        BY <1>2, <2>1 DEF Effect, Existing
    <2>3. \A q \in held[g] : ~(c.op = "DeletePolicy" /\ q = c.policy)
        BY <2>1, <2>2 DEF Harmless
    <2>4. \A q \in Policy : q \in held'[g] <=> q \in held[g]
        BY <2>1, <2>2, <2>3 DEF Effect
    <2>5. held'[g] \subseteq Policy /\ held[g] \subseteq Policy
        BY <2>1 DEF GuardTypeOK
    <2> QED
        BY <2>4, <2>5
<1>5. PoliciesOf(x)' = PoliciesOf(x)
    <2>1. x \in User => UNION {held'[g] : g \in GroupsOf(x)'} = UNION {held[g] : g \in GroupsOf(x)}
        BY <1>3, <1>4
    <2> QED
        BY <1>1, <2>1 DEF PoliciesOf
<1>6. ASSUME NEW q \in PoliciesOf(x) PROVE document'[q] = document[q]
    <2>1. PICK h \in Holder : q \in held[h] /\ ~Safe(h)
        <3>1. CASE q \in held[x]
            BY <1>x, <3>1
        <3>2. CASE x \in User /\ \E g \in GroupsOf(x) : q \in held[g]
            BY <1>2, <3>2, Apart DEF GroupsOf
        <3> QED
            BY <1>6, <3>1, <3>2 DEF PoliciesOf
    <2>2. q \in used
        BY <2>1 DEF Existing
    <2>3. ~(c.op = "UpdatePolicy" /\ q = c.policy)
        BY <2>1 DEF Harmless
    <2> QED
        BY <2>2, <2>3 DEF Effect
<1>7. Rights(x)' = Rights(x)
    BY <1>5, <1>6 DEF Rights
<1>8. x \in taken' => x \in taken
    BY <1>x DEF Effect
<1> QED
    BY <1>1, <1>3, <1>4, <1>5, <1>6, <1>7, <1>8

\* Who does not exist has nothing.
LEMMA GoneHasNothing ==
    ASSUME Existing, GuardTypeOK, NEW x \in Principal, x \notin exists
    PROVE  PoliciesOf(x) = {} /\ ~IsProtected(x)
<1>1. held[x] = {}
    BY Apart DEF Existing
<1>2. x \in User => GroupsOf(x) = {}
    BY DEF GroupsOf, Existing
<1> QED
    BY <1>1, <1>2 DEF PoliciesOf, IsProtected, Empowered

LEMMA ServiceSteps ==
    ASSUME GuardInv, [GuardNext]_guardVars
    PROVE  \/ UNCHANGED <<service, taken>>
           \/ \E m \in wire : Land(m)
<1>1. ASSUME NEW t \in Task, GuardStep(t) PROVE UNCHANGED <<service, taken>>
    BY <1>1 DEF GuardStep, FindSelf, ReadUser, ReadGroupsOf, ReadOrigin, ReadAccount, ReadGroup,
       ReadGroupToDelete,
           ReadPolicy, ReadTarget, ReadList, Refuse, Learn, Quiet
<1>2. ASSUME NEW t \in Task, Start(t) \/ GuardFails(t) \/ Send(t) \/ Returns(t) PROVE UNCHANGED <<service, taken>>
    BY <1>2 DEF Start, GuardFails, Send, Returns, Quiet
<1> QED
    BY <1>1, <1>2 DEF GuardNext, guardVars, Drop

LEMMA NextSteady ==
    ASSUME GuardInv, [GuardNext]_guardVars
    PROVE  Steady /\ Existing'
<1>1. CASE UNCHANGED <<service, taken>>
    <2>1. Existing'
        BY <1>1 DEF service, Existing, GuardInv
    <2> QED
        BY <1>1, <2>1, SteadyStutter
<1>2. ASSUME NEW m \in wire, Land(m) PROVE Steady /\ Existing'
    BY <1>2, LandEffect, EffectSteady DEF GuardInv, Effect
<1> QED
    BY <1>1, <1>2, ServiceSteps

LEMMA UntouchedStep ==
    ASSUME GuardInv, GuardInv', [GuardNext]_guardVars, NEW x \in Protected
    PROVE  /\ x \in ServiceAccount => x \in exists'
           /\ x \in exists' => /\ Rights(x)' = Rights(x) /\ PoliciesOf(x)' = PoliciesOf(x)
                               /\ x \in taken' => x \in taken
<1>1. x \in Principal /\ IsProtected(x) /\ x \in exists
    BY GoneHasNothing DEF Protected, GuardInv
<1>2. CASE UNCHANGED <<service, taken>>
    BY <1>1, <1>2 DEF service, Rights, PoliciesOf, GroupsOf
<1>3. ASSUME NEW m \in wire, Land(m)
      PROVE  /\ x \in ServiceAccount => x \in exists'
             /\ x \in exists' => /\ Rights(x)' = Rights(x) /\ PoliciesOf(x)' = PoliciesOf(x)
                                 /\ x \in taken' => x \in taken
    <2>1. Effect(m.call) /\ Harmless(m.call, m.doc) /\ m.call \in Request
        BY <1>3, LandEffect
    <2>2. x \in ServiceAccount => x \in exists'
        BY <1>1, <2>1, Apart DEF Effect, Safe
    <2> QED
        BY <1>1, <2>1, <2>2, EffectKeeps DEF GuardInv
<1> QED
    BY <1>2, <1>3, ServiceSteps

\* A document that grants writes is a privileged one.
LEMMA GrantsIsPrivileged == \A doc : GrantsWrites(doc) => StatementsArePrivileged(doc)
BY DEF GrantsWrites, StatementsArePrivileged

LEMMA MayWriteIsProtected ==
    ASSUME NEW x \in Principal, MayWrite(x)
    PROVE  IsProtected(x)
<1>1. PICK p \in PoliciesOf(x) : Privileged(p)
    BY GrantsIsPrivileged DEF MayWrite, Privileged
<1> QED
    BY <1>1 DEF PoliciesOf, IsProtected, Empowered

LEMMA EmpoweredStep ==
    ASSUME GuardInv, GuardInv', [GuardNext]_guardVars, NEW x \in Principal, MayWrite(x)'
    PROVE  MayWrite(x)
<1>1. IsProtected(x)'
    <2>1. PICK p \in PoliciesOf(x)' : Privileged(p)'
        BY GrantsIsPrivileged DEF MayWrite, Privileged
    <2> QED
        BY <2>1 DEF PoliciesOf, IsProtected, Empowered
<1>2. x \in Protected /\ x \in exists'
    <2>1. IsProtected(x)
        BY <1>1, NextSteady, ProtectedKept DEF GuardInv
    <2>2. x \in exists'
        <3>1. ASSUME x \notin exists' PROVE held'[x] = {} /\ \A g \in Group : x \notin members'[g]
            BY <3>1, Apart DEF GuardInv, Existing
        <3> QED
            BY <1>1, <3>1 DEF IsProtected, Empowered, GroupsOf
    <2> QED
        BY <2>1, <2>2 DEF Protected
<1>3. Rights(x)' = Rights(x) /\ PoliciesOf(x)' = PoliciesOf(x)
    BY <1>2, UntouchedStep
<1>4. PICK p \in PoliciesOf(x)' : GrantsWrites(document'[p])
    BY DEF MayWrite, GrantsWrites
<1>5. <<p, document'[p]>> \in Rights(x)
    BY <1>3, <1>4 DEF Rights
<1>6. \E q \in PoliciesOf(x) : <<p, document'[p]>> = <<q, document[q]>>
    BY <1>5 DEF Rights
<1> QED
    BY <1>4, <1>6 DEF MayWrite

-----------------------------------------------------------------------------
LEMMA SafeSeen ==
    ASSUME GuardTypeOK, NEW t, NEW h \in Holder, Safe(h)
    PROVE  Seen(t, h)
<1>1. ASSUME NEW x \in Principal, ~IsProtected(x) PROVE SeenPrincipal(t, x)
    BY <1>1 DEF IsProtected, Empowered, SeenPrincipal, Clears
<1>2. ASSUME h \in Group, NEW u \in members[h] PROVE u \in Principal
    BY <1>2, Apart DEF GuardTypeOK
<1> QED
    BY <1>1, <1>2 DEF Safe, Seen, Empowered, Clears

\* What a guard has seen stays true while others act.
LEMMA SeenKept ==
    ASSUME Steady, GuardTypeOK, GuardTypeOK', NEW t \in Task, todo'[t] = todo[t], NEW h \in Holder, Seen(t, h)
    PROVE  Seen(t, h)'
<1>1. ASSUME NEW k \in Holder, NEW x, Clears(t, x, held[k]) PROVE Clears(t, x, held[k])'
    BY <1>1 DEF Clears, Steady, GuardTypeOK
<1>2. ASSUME NEW k \in Holder, NEW x, Safe(k) PROVE Clears(t, x, held[k])'
    <2>1. \A p \in held'[k] : ~Privileged(p)'
        BY <1>2, Apart DEF Steady, GuardTypeOK, Safe, IsProtected, Empowered
    <2> QED
        BY <2>1 DEF Clears
<1>3. ASSUME NEW x \in Principal, SeenPrincipal(t, x) PROVE SeenPrincipal(t, x)'
    <2>1. CASE Attached(x) \in todo[t]
        BY <2>1 DEF SeenPrincipal, Attached
    <2>2. CASE Attached(x) \notin todo[t]
        <3>1. Clears(t, x, held[x])'
            BY <1>1, <1>3, <2>2, Apart DEF SeenPrincipal
        <3>2. ASSUME x \in User, Read("groupsOf", x, x) \notin todo[t], NEW g \in GroupsOf(x)'
              PROVE  Clears(t, x, held[g])'
            <4>1. g \in Group /\ g \in Holder /\ x \in members'[g]
                BY <3>2, Apart DEF GroupsOf
            <4>2. CASE x \in members[g]
                BY <1>1, <1>3, <2>2, <3>2, <4>1, <4>2 DEF SeenPrincipal, GroupsOf
            <4>3. CASE x \notin members[g]
                BY <1>2, <3>2, <4>1, <4>3 DEF Steady
            <4> QED
                BY <4>2, <4>3
        <3> QED
            BY <3>1, <3>2 DEF SeenPrincipal
    <2> QED
        BY <2>1, <2>2
<1>4. h \in Principal => SeenPrincipal(t, h)'
    BY <1>3 DEF Seen
<1>5. ASSUME h \in Group, Attached(h) \notin todo[t]
      PROVE  Clears(t, h, held[h])' /\ \A u \in members'[h] : SeenPrincipal(t, u)'
    <2>1. Clears(t, h, held[h])'
        BY <1>1, <1>5 DEF Seen
    <2>2. ASSUME NEW u \in members'[h] PROVE SeenPrincipal(t, u)'
        <3>1. u \in User /\ u \in Principal /\ u \in Holder
            BY <1>5, Apart DEF GuardTypeOK
        <3>2. CASE u \in members[h]
            BY <1>3, <1>5, <3>1, <3>2 DEF Seen
        <3>3. CASE u \notin members[h]
            BY <1>3, <1>5, <3>1, <3>3, SafeSeen DEF Steady, Seen
        <3> QED
            BY <3>2, <3>3
    <2> QED
        BY <2>1, <2>2
<1> QED
    BY <1>4, <1>5 DEF Seen, Attached

\* What an action leaves of one task.
SameTask(t) ==
    /\ plan' = plan /\ turn'[t] = turn[t] /\ phase'[t] = phase[t] /\ todo'[t] = todo[t]
    /\ seen'[t] = seen[t] /\ reason'[t] = reason[t] /\ base'[t] = base[t]

LEMMA ListedKept ==
    ASSUME Steady, GuardTypeOK, GuardTypeOK', NEW t \in Task, SameTask(t), Call(t) \in Request,
           NEW kind, NEW of \in SUBSET Holder, Listed(t, kind, of)
    PROVE  Listed(t, kind, of)'
<1> DEFINE p == Call(t).policy
<1>1. Call(t)' = Call(t) /\ p \in Policy
    BY RequestFacts DEF SameTask, Call
<1>2. CASE Read(kind, p, p) \in todo[t]
    BY <1>1, <1>2 DEF Listed, SameTask
<1>3. CASE Read(kind, p, p) \notin todo[t]
    <2>1. ASSUME NEW h \in of, p \in held'[h] PROVE Seen(t, h)'
        <3>1. p \in held[h] \/ Safe(h)
            BY <1>1, <2>1 DEF Steady
        <3>2. Seen(t, h)
            BY <1>3, <2>1, <3>1, SafeSeen DEF Listed
        <3> QED
            BY <3>2, SeenKept DEF SameTask
    <2> QED
        BY <1>1, <2>1 DEF Listed
<1> QED
    BY <1>2, <1>3

LEMMA ShownKept ==
    ASSUME Steady, GuardTypeOK, GuardTypeOK', NEW t \in Task, SameTask(t), Call(t) \in Request, Shown(t)
    PROVE  Shown(t)'
<1> DEFINE c == Call(t)
<1>1. Call(t)' = c /\ Sends(t)' = Sends(t) /\ todo'[t] = todo[t]
    BY DEF SameTask, Call, Sends
<1>2. c.target \in Holder /\ c.member \in Holder
    BY RequestFacts, Apart
<1>3. c.policy \in used /\ ~Privileged(c.policy) => c.policy \in used' /\ ~Privileged(c.policy)'
    BY <1>1 DEF Steady, Privileged
<1>4. ShownAttachment(t) => ShownAttachment(t)'
    BY <1>1, <1>3 DEF ShownAttachment
<1>5. ShownPolicy(t) => ShownPolicy(t)'
    <2>1. CASE Read("target", c.policy, c.policy) \in todo[t]
        BY <1>1, <2>1 DEF ShownPolicy
    <2>2. ASSUME NEW kind, NEW of \in {Group, User, ServiceAccount}, Listed(t, kind, of) PROVE Listed(t, kind, of)'
        BY <2>2, ListedKept DEF Holder
    <2> QED
        BY <1>1, <1>3, <2>1, <2>2 DEF ShownPolicy
<1>6. Seen(t, c.target) => Seen(t, c.target)'
    BY <1>1, <1>2, SeenKept
<1>7. Seen(t, c.member) => Seen(t, c.member)'
    BY <1>1, <1>2, SeenKept
<1> QED
    BY <1>1, <1>4, <1>5, <1>6, <1>7 DEF Shown

LEMMA OthersKept ==
    ASSUME Steady, GuardInv, GuardTypeOK', NEW t \in Task, SameTask(t)
    PROVE  GuardOK(t)'
<1>1. GuardOK(t) /\ GuardTypeOK /\ Turns
    BY DEF GuardInv
<1>2. \A p \in Policy : seen'[t][p] = "plain" => p \in used' /\ ~Privileged(p)'
    BY <1>1 DEF GuardOK, SameTask, Steady
<1>3. \A p \in Policy : seen'[t][p] = "privileged" => reason'[t] # None
    BY <1>1 DEF GuardOK, SameTask
<1>4. ASSUME phase'[t] = "guard", reason'[t] = None PROVE Shown(t)'
    <2>1. phase[t] = "guard" /\ reason[t] = None
        BY <1>4 DEF SameTask
    <2>2. Shown(t) /\ Call(t) \in Request
        BY <1>1, <2>1, CallFacts DEF GuardOK, Turns
    <2> QED
        BY <1>1, <2>2, ShownKept
<1> QED
    BY <1>2, <1>3, <1>4 DEF GuardOK

-----------------------------------------------------------------------------
\* A read that is done has told what it stood for.
Covers(t) ==
    \A r \in todo[t] : r \notin todo'[t] =>
        /\ r.kind \notin {"target", "origin", "groups", "users", "accounts"}
        /\ r.kind = "policy" => ~Privileged(r.id)
        /\ \A x \in Principal : r = Attached(x) => SeenPrincipal(t, x)'
        /\ \A g \in Group : r = Attached(g) =>
             Clears(t, g, held[g])' /\ \A u \in members[g] : SeenPrincipal(t, u)'
        /\ \A u \in User : r = Read("groupsOf", u, u) => \A g \in GroupsOf(u) : Clears(t, u, held[g])'

LEMMA SeenGrows ==
    ASSUME GuardTypeOK, UNCHANGED service, NEW t \in Task, NEW h \in Holder, Seen(t, h),
           \A r \in todo[t] : r \notin todo'[t] =>
               /\ r.kind = "policy" => ~Privileged(r.id)
               /\ \A x \in Principal : r = Attached(x) => SeenPrincipal(t, x)'
               /\ \A g \in Group : r = Attached(g) =>
                    Clears(t, g, held[g])' /\ \A u \in members[g] : SeenPrincipal(t, u)'
               /\ \A u \in User : r = Read("groupsOf", u, u) => \A g \in GroupsOf(u) : Clears(t, u, held[g])'
    PROVE  Seen(t, h)'
<1>s. held' = held /\ members' = members /\ document' = document
    BY DEF service
<1>1. ASSUME NEW x, NEW ps, Clears(t, x, ps) PROVE \A p \in ps : Privileged(p)' => Read("policy", p, x) \in todo'[t]
    BY <1>1, <1>s, ReadFacts DEF Clears, Privileged
<1>2. ASSUME NEW x \in Principal, SeenPrincipal(t, x) PROVE SeenPrincipal(t, x)'
    <2>1. CASE Attached(x) \in todo[t]
        <3>1. Attached(x)' = Attached(x)
            BY DEF Attached
        <3> QED
            BY <2>1, <3>1 DEF SeenPrincipal
    <2>2. CASE Attached(x) \notin todo[t]
        <3>1. Clears(t, x, held[x])'
            BY <1>1, <1>2, <1>s, <2>2 DEF SeenPrincipal, Clears
        <3>2. ASSUME x \in User, Read("groupsOf", x, x) \notin todo'[t]
              PROVE  \A g \in GroupsOf(x)' : Clears(t, x, held[g])'
            <4>1. GroupsOf(x)' = GroupsOf(x)
                BY <1>s DEF GroupsOf
            <4>2. CASE Read("groupsOf", x, x) \in todo[t]
                BY <3>2, <4>1, <4>2
            <4>3. CASE \A g \in GroupsOf(x) : Clears(t, x, held[g])
                BY <1>1, <1>s, <4>1, <4>3 DEF Clears
            <4> QED
                BY <1>2, <2>2, <3>2, <4>2, <4>3 DEF SeenPrincipal
        <3> QED
            BY <3>1, <3>2 DEF SeenPrincipal
    <2> QED
        BY <2>1, <2>2
<1>3. ASSUME h \in Group, Attached(h) \notin todo'[t]
      PROVE  Clears(t, h, held[h])' /\ \A u \in members'[h] : SeenPrincipal(t, u)'
    <2>1. CASE Attached(h) \in todo[t]
        BY <1>3, <1>s, <2>1
    <2>2. CASE Attached(h) \notin todo[t]
        <3>1. Clears(t, h, held[h]) /\ \A u \in members[h] : SeenPrincipal(t, u)
            BY <1>3, <2>2 DEF Seen
        <3>2. \A u \in members[h] : u \in Principal
            BY <1>3, Apart DEF GuardTypeOK
        <3>3. Clears(t, h, held[h])'
            BY <1>1, <1>s, <3>1 DEF Clears
        <3> QED
            BY <1>2, <1>s, <3>1, <3>2, <3>3
    <2> QED
        BY <2>1, <2>2
<1>4. h \in Principal => SeenPrincipal(t, h)'
    BY <1>2 DEF Seen
<1> QED
    BY <1>3, <1>4 DEF Seen, Attached

LEMMA ShownGrows ==
    ASSUME GuardTypeOK, NEW t \in Task, UNCHANGED <<service, plan, base>>, turn'[t] = turn[t],
           Call(t) \in Request, Covers(t), Shown(t)
    PROVE  Shown(t)'
<1> DEFINE c == Call(t)
<1>1. /\ Call(t)' = c /\ Sends(t)' = Sends(t) /\ used' = used /\ document' = document /\ held' = held
      /\ c.policy \in Policy /\ c.target \in Holder /\ c.member \in Holder
    BY RequestFacts, Apart DEF Call, Sends, service
<1>2. ASSUME NEW h \in Holder, Seen(t, h) PROVE Seen(t, h)'
    BY <1>2, SeenGrows DEF Covers
<1>3. ASSUME NEW kind \in {"target", "origin", "groups", "users", "accounts"}, NEW x, Read(kind, x, x) \in todo[t]
      PROVE  Read(kind, x, x) \in todo'[t]
    BY <1>3, ReadFacts DEF Covers
<1>4. ASSUME NEW kind \in {"groups", "users", "accounts"}, NEW of \in SUBSET Holder, Listed(t, kind, of)
      PROVE  Listed(t, kind, of)'
    BY <1>1, <1>2, <1>3, <1>4 DEF Listed
<1>5. ShownPolicy(t) => ShownPolicy(t)'
    <2>1. CASE Read("target", c.policy, c.policy) \in todo[t]
        BY <1>1, <1>3, <2>1 DEF ShownPolicy
    <2>2. CASE Read("target", c.policy, c.policy) \notin todo[t]
        <3>1. Group \in SUBSET Holder /\ User \in SUBSET Holder /\ ServiceAccount \in SUBSET Holder
            BY DEF Holder
        <3> QED
            BY <1>1, <1>4, <2>2, <3>1 DEF ShownPolicy, Privileged
    <2> QED
        BY <2>1, <2>2
<1>6. ShownAttachment(t) => ShownAttachment(t)'
    BY <1>1, <1>3 DEF ShownAttachment, Privileged
<1>7. Seen(t, c.target) => Seen(t, c.target)'
    BY <1>1, <1>2
<1>8. Seen(t, c.member) => Seen(t, c.member)'
    BY <1>1, <1>2
<1>9. Read("origin", c.target, c.target) \in todo[t] => Read("origin", c.target, c.target)' \in todo'[t]
    BY <1>1, <1>3 DEF Read
<1> QED
    BY <1>1, <1>5, <1>6, <1>7, <1>8, <1>9 DEF Shown

\* The reads after a list of policies cover what they may say.
LEMMA Clearing ==
    ASSUME GuardTypeOK, NEW t \in Task, GuardOK(t), UNCHANGED service, NEW x, NEW ps \in SUBSET Policy,
           reason[t] = None, PolicyReads(t, ps, x) \subseteq todo'[t] \/ AlreadyPrivileged(t, ps)
    PROVE  \A p \in ps : Privileged(p)' => Read("policy", p, x) \in todo'[t]
<1>1. ~AlreadyPrivileged(t, ps)
    BY DEF GuardOK, AlreadyPrivileged
<1>2. \A p \in ps : seen[t][p] \in {"unread", "plain"}
    BY <1>1 DEF GuardTypeOK, Known, AlreadyPrivileged
<1>3. \A p \in ps : Privileged(p)' => seen[t][p] # "plain"
    BY DEF GuardOK, Privileged, service
<1> QED
    BY <1>1, <1>2, <1>3 DEF PolicyReads

LEMMA Learnt ==
    ASSUME GuardTypeOK, NEW t \in Task, NEW why \in {None, "self", "privilege"}, NEW left, Learn(t, why, left)
    PROVE  /\ UNCHANGED <<service, plan, wire, taken, phase, turn, result>>
           /\ reason'[t] = None => reason[t] = None /\ why = None /\ todo'[t] = left
           /\ why # "self" => todo'[t] = left
           /\ \A d \in Task : d # t => todo'[d] = todo[d] /\ reason'[d] = reason[d]
<1>1. UNCHANGED <<service, plan, wire, taken, phase, turn, result>>
    BY DEF Learn, Quiet
<1>2. reason'[t] = Combine(reason[t], why) /\ todo'[t] = IF why = "self" THEN {} ELSE left
    BY DEF Learn, GuardTypeOK
<1>3. Combine(reason[t], why) = None => reason[t] = None /\ why = None
    <2>1. reason[t] \in {None, "self", "privilege"}
        BY DEF GuardTypeOK
    <2> QED
        BY <2>1 DEF Combine, None
<1>4. \A d \in Task : d # t => todo'[d] = todo[d] /\ reason'[d] = reason[d]
    BY DEF Learn, GuardTypeOK
<1> QED
    BY <1>1, <1>2, <1>3, <1>4 DEF None

\* A guard that reads on.
LEMMA ReadsOn ==
    ASSUME GuardInv, NEW t \in Task, phase[t] = "guard", UNCHANGED <<seen, base>>,
           NEW why \in {None, "self", "privilege"}, NEW left, Learn(t, why, left),
           reason'[t] = None => Covers(t)
    PROVE  GuardOK(t)'
<1>1. GuardOK(t) /\ GuardTypeOK /\ Call(t) \in Request
    BY CallFacts DEF GuardInv, Turns
<1>2. /\ UNCHANGED <<service, plan, wire, taken, phase, turn, result>>
      /\ reason'[t] = None => reason[t] = None
    BY <1>1, Learnt
<1>3. \A p \in Policy : seen'[t][p] = "plain" => p \in used' /\ ~Privileged(p)'
    BY <1>1, <1>2 DEF GuardOK, service, Privileged
<1>4. \A p \in Policy : seen'[t][p] = "privileged" => reason'[t] # None
    BY <1>1, <1>2 DEF GuardOK
<1>5. reason'[t] = None => Shown(t)'
    BY <1>1, <1>2, ShownGrows DEF GuardOK
<1> QED
    BY <1>3, <1>4, <1>5 DEF GuardOK

LEMMA AttachedFacts ==
    ASSUME NEW h
    PROVE  /\ Attached(h).kind = "attached" /\ Attached(h).id = h
           /\ \A x : Attached(h) = Attached(x) => h = x
           /\ \A k, x, y : Read(k, x, y) = Attached(h) => k = "attached"
BY DEF Attached, Read

LEMMA WhyFacts == \A t, ps : WhyOf(t, ps) \in {None, "self", "privilege"} /\ (WhyOf(t, ps) = None => ~AlreadyPrivileged(t, ps))
BY DEF WhyOf, None

LEMMA UserRead ==
    ASSUME GuardInv, NEW t \in Task, NEW u \in User, ReadUser(t, u)
    PROVE  GuardOK(t)'
<1> DEFINE left == (todo[t] \ {Attached(u)}) \cup PolicyReads(t, held[u], u)
                     \cup (IF AlreadyPrivileged(t, held[u]) THEN {} ELSE {Read("groupsOf", u, u)})
<1>1. Learn(t, WhyOf(t, held[u]), left) /\ phase[t] = "guard" /\ UNCHANGED <<seen, base>>
    BY DEF ReadUser, Asks
<1>2. ASSUME reason'[t] = None PROVE Covers(t)
    <2>1. /\ reason[t] = None /\ todo'[t] = left /\ ~AlreadyPrivileged(t, held[u]) /\ UNCHANGED service
        BY <1>1, <1>2, Learnt, WhyFacts DEF GuardInv
    <2>2. SeenPrincipal(t, u)'
        <3>1. \A p \in held[u] : Privileged(p)' => Read("policy", p, u) \in todo'[t]
            <4>1. held[u] \in SUBSET Policy
                BY Apart DEF GuardInv, GuardTypeOK
            <4> QED
                BY <2>1, <4>1, Clearing DEF GuardInv
        <3>2. held' = held
            BY <2>1 DEF service
        <3> QED
            BY <2>1, <3>1, <3>2 DEF SeenPrincipal, Clears
    <2> QED
        BY <2>1, <2>2, AttachedFacts, Apart DEF Covers
<1> HIDE DEF left
<1> QED
    BY <1>1, <1>2, ReadsOn, WhyFacts

LEMMA GroupsOfRead ==
    ASSUME GuardInv, NEW t \in Task, NEW u \in User, ReadGroupsOf(t, u)
    PROVE  GuardOK(t)'
<1> DEFINE ps == UNION {held[g] : g \in GroupsOf(u)}
           left == (todo[t] \ {Read("groupsOf", u, u)}) \cup PolicyReads(t, ps, u)
<1>1. Learn(t, WhyOf(t, ps), left) /\ phase[t] = "guard" /\ UNCHANGED <<seen, base>>
    BY DEF ReadGroupsOf, Asks
<1>2. ASSUME reason'[t] = None PROVE Covers(t)
    <2> HIDE DEF ps, left
    <2>1. reason[t] = None /\ todo'[t] = left /\ UNCHANGED service
        BY <1>1, <1>2, Learnt, WhyFacts DEF GuardInv
    <2>2. \A p \in ps : Privileged(p)' => Read("policy", p, u) \in todo'[t]
        <3>1. ps \in SUBSET Policy
            BY Apart DEF ps, GuardInv, GuardTypeOK, GroupsOf
        <3>2. PolicyReads(t, ps, u) \subseteq todo'[t]
            BY <2>1 DEF left
        <3> QED
            BY <2>1, <3>1, <3>2, Clearing DEF GuardInv
    <2>3. \A g \in GroupsOf(u) : Clears(t, u, held[g])'
        <3>1. held' = held
            BY <2>1 DEF service
        <3> QED
            BY <2>2, <3>1 DEF Clears, ps
    <2>4. \A r \in todo[t] : r \notin todo'[t] => r = Read("groupsOf", u, u)
        BY <2>1 DEF left
    <2>5. Read("groupsOf", u, u).kind = "groupsOf" /\ Read("groupsOf", u, u).id = u
        BY ReadFacts
    <2> QED
        BY <2>3, <2>4, <2>5, AttachedFacts, ReadFacts DEF Covers
<1> HIDE DEF left, ps
<1> QED
    BY <1>1, <1>2, ReadsOn, WhyFacts

LEMMA AccountRead ==
    ASSUME GuardInv, NEW t \in Task, NEW s \in ServiceAccount, ReadAccount(t, s)
    PROVE  GuardOK(t)'
<1> DEFINE left == (todo[t] \ {Attached(s)}) \cup PolicyReads(t, held[s], s)
<1>1. Learn(t, WhyOf(t, held[s]), left) /\ phase[t] = "guard" /\ UNCHANGED <<seen, base>>
    BY DEF ReadAccount, Asks
<1>2. ASSUME reason'[t] = None PROVE Covers(t)
    <2>1. reason[t] = None /\ todo'[t] = left /\ UNCHANGED service
        BY <1>1, <1>2, Learnt, WhyFacts DEF GuardInv
    <2>2. SeenPrincipal(t, s)'
        <3>1. held[s] \in SUBSET Policy /\ s \notin User
            BY Apart DEF GuardInv, GuardTypeOK
        <3>2. \A p \in held[s] : Privileged(p)' => Read("policy", p, s) \in todo'[t]
            BY <2>1, <3>1, Clearing DEF GuardInv
        <3>3. held' = held
            BY <2>1 DEF service
        <3> QED
            BY <3>1, <3>2, <3>3 DEF SeenPrincipal, Clears
    <2> QED
        BY <2>1, <2>2, AttachedFacts, Apart DEF Covers
<1> HIDE DEF left
<1> QED
    BY <1>1, <1>2, ReadsOn, WhyFacts

LEMMA GroupRead ==
    ASSUME GuardInv, NEW t \in Task, NEW g \in Group, ReadGroup(t, g)
    PROVE  GuardOK(t)'
<1> DEFINE left == (todo[t] \ {Attached(g)}) \cup PolicyReads(t, held[g], g) \cup MemberReads(g)
<1>1. Learn(t, WhyOf(t, held[g]), left) /\ phase[t] = "guard" /\ UNCHANGED <<seen, base>>
    BY DEF ReadGroup, Asks
<1>2. ASSUME reason'[t] = None PROVE Covers(t)
    <2>1. reason[t] = None /\ todo'[t] = left /\ UNCHANGED service
        BY <1>1, <1>2, Learnt, WhyFacts DEF GuardInv
    <2>2. held' = held /\ members' = members
        BY <2>1 DEF service
    <2>3. Clears(t, g, held[g])'
        <3>1. held[g] \in SUBSET Policy
            BY Apart DEF GuardInv, GuardTypeOK
        <3>2. \A p \in held[g] : Privileged(p)' => Read("policy", p, g) \in todo'[t]
            BY <2>1, <3>1, Clearing DEF GuardInv
        <3> QED
            BY <2>2, <3>2 DEF Clears
    <2>4. \A u \in members[g] : SeenPrincipal(t, u)'
        BY <2>1 DEF MemberReads, SeenPrincipal, Attached
    <2> QED
        BY <2>1, <2>3, <2>4, AttachedFacts, Apart DEF Covers
<1> HIDE DEF left
<1> QED
    BY <1>1, <1>2, ReadsOn, WhyFacts

LEMMA GroupToDeleteRead ==
    ASSUME GuardInv, NEW t \in Task, NEW g \in Group, ReadGroupToDelete(t, g), ~(End(t, "inUse") /\ Quiet)
    PROVE  GuardOK(t)'
<1>1. /\ Learn(t, None, todo[t] \ {Attached(g)}) /\ phase[t] = "guard" /\ UNCHANGED <<seen, base>>
      /\ held[g] = {} /\ members[g] = {}
    BY DEF ReadGroupToDelete, Asks
<1>2. ASSUME reason'[t] = None PROVE Covers(t)
    <2>1. reason[t] = None /\ todo'[t] = todo[t] \ {Attached(g)} /\ UNCHANGED service
        BY <1>1, <1>2, Learnt DEF GuardInv
    <2>2. Clears(t, g, held[g])' /\ \A u \in members[g] : SeenPrincipal(t, u)'
        BY <1>1, <2>1 DEF service, Clears
    <2> QED
        BY <2>1, <2>2, AttachedFacts, Apart DEF Covers
<1> QED
    BY <1>1, <1>2, ReadsOn

\* A policy that is read is either a reason or plain from then on.
LEMMA PolicyRead ==
    ASSUME GuardInv, NEW t \in Task, NEW p \in Policy, NEW x \in Holder, ReadPolicy(t, p, x)
    PROVE  GuardOK(t)'
<1>1. phase[t] = "guard" /\ p \in exists /\ base' = base
    BY DEF ReadPolicy, Asks
<1>2. GuardOK(t) /\ GuardTypeOK /\ Call(t) \in Request /\ p \in used
    BY <1>1, CallFacts DEF GuardInv, Turns, Existing
<1>3. CASE Privileged(p)
    <2>1. Learn(t, "privilege", {r \in todo[t] : r.of # x}) /\ seen' = [seen EXCEPT ![t][p] = "privileged"]
        BY <1>3 DEF ReadPolicy
    <2>2. reason'[t] # None /\ UNCHANGED service
        BY <1>2, <2>1, Learnt DEF None
    <2>3. \A q \in Policy : seen'[t][q] = "plain" => seen[t][q] = "plain"
        BY <1>2, <2>1 DEF GuardTypeOK
    <2> QED
        BY <1>2, <2>2, <2>3 DEF GuardOK, service, Privileged
<1>4. CASE ~Privileged(p)
    <2> DEFINE left == {r \in todo[t] : ~(r.kind = "policy" /\ r.id = p)}
    <2>1. Learn(t, None, left) /\ seen' = [seen EXCEPT ![t][p] = "plain"]
        BY <1>4 DEF ReadPolicy
    <2>2. UNCHANGED <<service, plan, phase, turn>> /\ (reason'[t] = None => reason[t] = None) /\ todo'[t] = left
        BY <1>2, <2>1, Learnt DEF None
    <2>3. \A q \in Policy : seen'[t][q] = IF q = p THEN "plain" ELSE seen[t][q]
        BY <1>2, <2>1 DEF GuardTypeOK
    <2>4. reason'[t] = Combine(reason[t], None)
        BY <1>2, <2>1 DEF Learn, GuardTypeOK
    <2>5. reason[t] # None => reason'[t] # None
        BY <1>2, <2>2
    <2>6. Covers(t)
        BY <1>4, <2>2, AttachedFacts, ReadFacts DEF Covers
    <2>7. reason'[t] = None => Shown(t)'
        BY <1>1, <1>2, <2>2, <2>6, ShownGrows DEF GuardOK
    <2>8. \A q \in Policy : seen'[t][q] = "plain" => q \in used' /\ ~Privileged(q)'
        BY <1>2, <1>4, <2>2, <2>3 DEF GuardOK, service, Privileged
    <2>9. \A q \in Policy : seen'[t][q] = "privileged" => reason'[t] # None
        BY <1>2, <2>3, <2>5 DEF GuardOK
    <2> QED
        BY <2>7, <2>8, <2>9 DEF GuardOK
<1> QED
    BY <1>3, <1>4

\* The reads that settle more than one holder: what they leave the guard to show.
LEMMA ShownBy ==
    ASSUME GuardInv, NEW t \in Task, phase[t] = "guard", UNCHANGED seen,
           NEW why \in {None, "self", "privilege"}, NEW left, Learn(t, why, left),
           reason'[t] = None => Shown(t)'
    PROVE  GuardOK(t)'
<1>1. GuardOK(t) /\ GuardTypeOK
    BY DEF GuardInv
<1>2. UNCHANGED service /\ (reason'[t] = None => reason[t] = None)
    BY <1>1, Learnt
<1>3. \A p \in Policy : seen'[t][p] = "plain" => p \in used' /\ ~Privileged(p)'
    BY <1>1, <1>2 DEF GuardOK, service, Privileged
<1>4. \A p \in Policy : seen'[t][p] = "privileged" => reason'[t] # None
    BY <1>1, <1>2 DEF GuardOK
<1> QED
    BY <1>3, <1>4 DEF GuardOK

LEMMA TargetRead ==
    ASSUME GuardInv, NEW t \in Task, ReadTarget(t), ~(End(t, "managed") /\ Quiet)
    PROVE  GuardOK(t)'
<1> DEFINE c == Call(t)
           r == Read("target", c.policy, c.policy)
           left == (todo[t] \ {r}) \cup (IF c.op \in AttachOps THEN {} ELSE Lists(c.policy))
           why == IF IsPrivilegedChange(c) THEN "privilege" ELSE None
<1>1. /\ Learn(t, why, left) /\ base' = [base EXCEPT ![t] = document[c.policy]] /\ UNCHANGED seen
      /\ phase[t] = "guard" /\ r \in todo[t] /\ c.policy \in exists
    BY DEF ReadTarget, Asks
<1>2. GuardOK(t) /\ GuardTypeOK /\ c \in Request /\ c.policy \in used
    BY <1>1, CallFacts DEF GuardInv, Turns, Existing
<1>3. c.policy \in Policy /\ c.target \in Holder /\ c.member \in Holder
    BY <1>2, RequestFacts, Apart
<1>4. ASSUME reason'[t] = None PROVE Shown(t)'
    <2>1. /\ UNCHANGED <<service, plan, phase, turn>> /\ reason[t] = None /\ why = None /\ todo'[t] = left
        BY <1>1, <1>2, <1>4, Learnt
    <2>2. Call(t)' = c
        BY <2>1 DEF Call
    <2>3. ~IsPrivilegedChange(c)
        BY <2>1 DEF None
    <2>4. Shown(t)
        BY <1>1, <1>2, <2>1 DEF GuardOK
    <2>5. ASSUME NEW h \in Holder, Seen(t, h) PROVE Seen(t, h)'
        <3>1. \A s \in todo[t] : s \notin todo'[t] => s = r
            BY <2>1
        <3>2. r.kind = "target"
            BY ReadFacts
        <3> QED
            BY <1>2, <2>1, <2>5, <3>1, <3>2, SeenGrows, AttachedFacts, ReadFacts
    <2>6. c.op \in AttachOps => ShownAttachment(t)'
        BY <1>2, <2>1, <2>2, <2>3
           DEF ShownAttachment, IsPrivilegedChange, AttachOps, Privileged, service
    <2>7. c.op \in {"UpdatePolicy", "DeletePolicy"} => ShownPolicy(t)'
        <3>1. ASSUME c.op \in {"UpdatePolicy", "DeletePolicy"}, NEW kind \in {"groups", "users", "accounts"}, NEW of
              PROVE  Listed(t, kind, of)'
            <4>1. Read(kind, c.policy, c.policy) \in todo'[t]
                BY <2>1, <3>1 DEF Lists, AttachOps
            <4> QED
                BY <2>2, <4>1 DEF Listed, Read
        <3>2. ASSUME c.op = "UpdatePolicy"
              PROVE  c.policy \in used' /\ ~StatementsArePrivileged(document'[c.policy])
                     /\ ~StatementsArePrivileged(Sends(t)')
            <4>1. ~Privileged(c.policy) /\ (~c.keep => ~StatementsArePrivileged(c.doc))
                BY <2>3, <3>2 DEF IsPrivilegedChange
            <4>2. Sends(t)' = IF c.keep THEN document[c.policy] ELSE c.doc
                BY <1>1, <1>2, <2>2 DEF Sends, GuardTypeOK
            <4> QED
                BY <1>2, <2>1, <4>1, <4>2 DEF Privileged, service
        <3> QED
            BY <2>2, <3>1, <3>2 DEF ShownPolicy, Privileged
    <2>8. c.op # "ResetUserPassword" \/ Read("origin", c.target, c.target) \in todo'[t] \/ Seen(t, c.target)'
        <3>1. Read("origin", c.target, c.target) # r
            BY ReadFacts
        <3> QED
            BY <1>3, <2>1, <2>2, <2>4, <2>5, <3>1 DEF Shown
    <2> HIDE DEF left, r
    <2>9. /\ c.op = "CreatePolicy" => ~StatementsArePrivileged(c.doc)
          /\ c.op \in AttachOps \cup MemberOps \cup AccountOps \cup {"DeleteGroup"} => Seen(t, c.target)'
          /\ c.op \in MemberOps => Seen(t, c.member)'
        BY <1>3, <2>2, <2>4, <2>5 DEF Shown
    <2> QED
        BY <2>2, <2>6, <2>7, <2>8, <2>9 DEF Shown, Read
<1> HIDE DEF left, r
<1>5. why \in {None, "self", "privilege"}
    OBVIOUS
<1> HIDE DEF why
<1> QED
    BY <1>1, <1>4, <1>5, ShownBy

LEMMA ListRead ==
    ASSUME GuardInv, NEW t \in Task,
           NEW kind, NEW of,
           \/ kind = "groups" /\ of = Group
           \/ kind = "users" /\ of = User
           \/ kind = "accounts" /\ of = ServiceAccount,
           ReadList(t, kind, of), ~(End(t, "inUse") /\ Quiet)
    PROVE  GuardOK(t)'
<1> DEFINE c == Call(t)
           on == {h \in of : c.policy \in held[h]}
           r == Read(kind, c.policy, c.policy)
           left == (todo[t] \ {r}) \cup {Attached(h) : h \in on}
           why == IF of = ServiceAccount /\ ByAccount(t) /\ on # {} THEN "self" ELSE None
<1>1. /\ Learn(t, why, left) /\ UNCHANGED <<seen, base>> /\ phase[t] = "guard" /\ r \in todo[t]
    BY DEF ReadList, Asks
<1>2. GuardOK(t) /\ GuardTypeOK /\ c \in Request
    BY <1>1, CallFacts DEF GuardInv, Turns
<1>3. c.policy \in Policy /\ c.target \in Holder /\ c.member \in Holder /\ of \subseteq Holder
    BY <1>2, RequestFacts, Apart
<1>k. r.kind = kind
    BY ReadFacts
<1>w. why \in {None, "self", "privilege"}
    OBVIOUS
<1>4. ASSUME reason'[t] = None PROVE Shown(t)'
    <2> HIDE DEF why
    <2>1. UNCHANGED <<service, plan, phase, turn>> /\ reason[t] = None /\ todo'[t] = left
        BY <1>1, <1>2, <1>4, <1>w, Learnt
    <2>2. Call(t)' = c /\ Sends(t)' = Sends(t) /\ held' = held /\ used' = used /\ document' = document
        BY <1>1, <2>1 DEF Call, Sends, service
    <2>4. Shown(t)
        BY <1>1, <1>2, <2>1 DEF GuardOK
    <2>r. \A s \in todo[t] : s \notin todo'[t] => s = r
        BY <2>1
    <2>5. ASSUME NEW h \in Holder, Seen(t, h) PROVE Seen(t, h)'
        BY <1>2, <1>k, <2>1, <2>5, <2>r, SeenGrows, AttachedFacts, ReadFacts
    <2>6. c.op \in AttachOps => ShownAttachment(t)'
        <3>1. Read("target", c.policy, c.policy) # r
            BY <1>k, ReadFacts
        <3>2. Read("target", c.policy, c.policy) \in todo[t] => Read("target", c.policy, c.policy) \in todo'[t]
            BY <2>r, <3>1
        <3> QED
            BY <2>2, <2>4, <3>2 DEF Shown, ShownAttachment, Privileged, Read
    <2>7. ASSUME NEW k \in {"groups", "users", "accounts"}, NEW xs \in SUBSET Holder, Listed(t, k, xs), k # kind
          PROVE  Listed(t, k, xs)'
        <3>1. Read(k, c.policy, c.policy) \in todo[t] => Read(k, c.policy, c.policy) \in todo'[t]
            BY <1>k, <2>7, <2>r, ReadFacts
        <3> QED
            BY <2>2, <2>5, <2>7, <3>1 DEF Listed, Read
    <2>8. Listed(t, kind, of)'
        <3>1. ASSUME NEW h \in of, c.policy \in held[h] PROVE Seen(t, h)'
            <4>1. Attached(h) \in todo'[t]
                BY <2>1, <3>1
            <4> QED
                BY <4>1 DEF Seen, SeenPrincipal, Attached
        <3> QED
            BY <2>2, <3>1 DEF Listed
    <2>9. c.op \in {"UpdatePolicy", "DeletePolicy"} => ShownPolicy(t)'
        <3>1. CASE Read("target", c.policy, c.policy) \in todo[t]
            <4>1. Read("target", c.policy, c.policy) \in todo'[t]
                BY <1>k, <2>r, <3>1, ReadFacts
            <4> QED
                BY <2>2, <4>1 DEF ShownPolicy, Read
        <3>2. ASSUME c.op \in {"UpdatePolicy", "DeletePolicy"}, Read("target", c.policy, c.policy) \notin todo[t]
              PROVE  ShownPolicy(t)'
            <4>1. /\ c.op = "UpdatePolicy" =>
                       c.policy \in used /\ ~Privileged(c.policy) /\ ~StatementsArePrivileged(Sends(t))
                  /\ Listed(t, "groups", Group) /\ Listed(t, "users", User) /\ Listed(t, "accounts", ServiceAccount)
                BY <2>4, <3>2 DEF Shown, ShownPolicy
            <4>2. Group \in SUBSET Holder /\ User \in SUBSET Holder /\ ServiceAccount \in SUBSET Holder
                BY DEF Holder
            <4>3. /\ Listed(t, "groups", Group)' /\ Listed(t, "users", User)'
                  /\ Listed(t, "accounts", ServiceAccount)'
                BY <2>7, <2>8, <4>1, <4>2
            <4> QED
                BY <2>2, <4>1, <4>3 DEF ShownPolicy, Privileged
        <3> QED
            BY <3>1, <3>2
    <2>10. c.op # "ResetUserPassword" \/ Read("origin", c.target, c.target) \in todo'[t] \/ Seen(t, c.target)'
        <3>1. Read("origin", c.target, c.target) # r
            BY <1>k, ReadFacts
        <3> QED
            BY <1>3, <2>2, <2>4, <2>5, <2>r, <3>1 DEF Shown
    <2> HIDE DEF left, r, on
    <2>11. /\ c.op = "CreatePolicy" => ~StatementsArePrivileged(c.doc)
           /\ c.op \in AttachOps \cup MemberOps \cup AccountOps \cup {"DeleteGroup"} => Seen(t, c.target)'
           /\ c.op \in MemberOps => Seen(t, c.member)'
        BY <1>3, <2>2, <2>4, <2>5 DEF Shown
    <2> QED
        BY <2>2, <2>6, <2>9, <2>10, <2>11 DEF Shown, Read
<1> HIDE DEF left, r, on, why
<1> QED
    BY <1>1, <1>4, <1>w, ShownBy

LEMMA OriginRead ==
    ASSUME GuardInv, NEW t \in Task, NEW u \in User, ReadOrigin(t, u), ~(End(t, "origin") /\ Quiet)
    PROVE  GuardOK(t)'
<1> DEFINE c == Call(t)
           r == Read("origin", u, u)
           left == (todo[t] \ {r}) \cup (IF c.op = "ResetUserPassword" THEN {Attached(u)} ELSE {})
<1>1. /\ Learn(t, None, left) /\ UNCHANGED <<seen, base>> /\ phase[t] = "guard" /\ r \in todo[t]
    BY DEF ReadOrigin, Asks
<1>2. GuardOK(t) /\ GuardTypeOK /\ c \in Request
    BY <1>1, CallFacts DEF GuardInv, Turns
<1>3. c.policy \in Policy /\ c.target \in Holder /\ c.member \in Holder
    BY <1>2, RequestFacts, Apart
<1>k. r.kind = "origin" /\ r.id = u
    BY ReadFacts
<1>4. ASSUME reason'[t] = None PROVE Shown(t)'
    <2>1. UNCHANGED <<service, plan, phase, turn>> /\ reason[t] = None /\ todo'[t] = left
        BY <1>1, <1>2, <1>4, Learnt
    <2>2. Call(t)' = c /\ Sends(t)' = Sends(t) /\ held' = held /\ used' = used /\ document' = document
        BY <1>1, <2>1 DEF Call, Sends, service
    <2>4. Shown(t)
        BY <1>1, <1>2, <2>1 DEF GuardOK
    <2>r. \A s \in todo[t] : s \notin todo'[t] => s = r
        BY <2>1
    <2>5. ASSUME NEW h \in Holder, Seen(t, h) PROVE Seen(t, h)'
        BY <1>2, <1>k, <2>1, <2>5, <2>r, SeenGrows, AttachedFacts, ReadFacts
    <2>6. \A k, x : k # "origin" /\ Read(k, x, x) \in todo[t] => Read(k, x, x) \in todo'[t]
        BY <1>k, <2>r, ReadFacts
    <2>7. c.op \in AttachOps => ShownAttachment(t)'
        BY <2>2, <2>4, <2>6 DEF Shown, ShownAttachment, Privileged, Read
    <2>8. ASSUME NEW k \in {"groups", "users", "accounts"}, NEW xs \in SUBSET Holder, Listed(t, k, xs)
          PROVE  Listed(t, k, xs)'
        BY <2>2, <2>5, <2>6, <2>8 DEF Listed, Read
    <2>9. ShownPolicy(t) => ShownPolicy(t)'
        <3>1. Group \in SUBSET Holder /\ User \in SUBSET Holder /\ ServiceAccount \in SUBSET Holder
            BY DEF Holder
        <3>2. Read("target", c.policy, c.policy) \in todo[t] => Read("target", c.policy, c.policy) \in todo'[t]
            BY <2>6
        <3> QED
            BY <2>2, <2>8, <3>1, <3>2 DEF ShownPolicy, Privileged, Read
    <2>10. ASSUME c.op = "ResetUserPassword"
           PROVE  Read("origin", c.target, c.target) \in todo'[t] \/ Seen(t, c.target)'
        <3>1. CASE c.target = u
            <4>1. Attached(c.target) \in todo'[t] /\ c.target \notin Group
                BY <2>1, <2>10, <3>1, Apart
            <4>2. Attached(c.target)' = Attached(c.target)
                BY <2>2 DEF Attached
            <4> QED
                BY <2>2, <4>1, <4>2 DEF Seen, SeenPrincipal
        <3>2. CASE c.target # u
            <4>1. Read("origin", c.target, c.target) # r
                BY <1>k, <3>2, ReadFacts
            <4> QED
                BY <1>3, <2>2, <2>4, <2>5, <2>r, <2>10, <4>1 DEF Shown
        <3> QED
            BY <3>1, <3>2
    <2> HIDE DEF left, r
    <2>11. /\ c.op = "CreatePolicy" => ~StatementsArePrivileged(c.doc)
           /\ c.op \in AttachOps \cup MemberOps \cup AccountOps \cup {"DeleteGroup"} => Seen(t, c.target)'
           /\ c.op \in MemberOps => Seen(t, c.member)'
        BY <1>3, <2>2, <2>4, <2>5 DEF Shown
    <2> QED
        BY <2>2, <2>4, <2>7, <2>9, <2>10, <2>11 DEF Shown, Read
<1> HIDE DEF left, r
<1> QED
    BY <1>1, <1>4, ShownBy

-----------------------------------------------------------------------------
LEMMA EndGuard ==
    ASSUME GuardTypeOK, NEW t \in Task, NEW how, End(t, how)
    PROVE  GuardOK(t)'
<1>1. phase'[t] = "idle" /\ \A p \in Policy : seen'[t][p] = "unread"
    BY DEF End, GuardTypeOK
<1> QED
    BY <1>1 DEF GuardOK

LEMMA Begins ==
    ASSUME NEW c
    PROVE  /\ c.op \in {"UpdatePolicy", "DeletePolicy"} => FirstReads(c) = {Read("target", c.policy, c.policy)}
           /\ c.op \in AttachOps => FirstReads(c) = {Attached(c.target), Read("target", c.policy, c.policy)}
           /\ c.op \in MemberOps => FirstReads(c) = {Attached(c.member), Attached(c.target)}
           /\ c.op \in AccountOps \cup {"DeleteGroup"} => FirstReads(c) = {Attached(c.target)}
           /\ c.op \in UserOps => FirstReads(c) = {Read("origin", c.target, c.target)}
           /\ c.op = "CreatePolicy" => FirstReads(c) = {}
<1> USE DEF AttachOps, MemberOps, AccountOps, UserOps
<1>1. c.op \in {"UpdatePolicy", "DeletePolicy"} => FirstReads(c) = {Read("target", c.policy, c.policy)}
    BY DEF FirstReads
<1>2. c.op \in AttachOps => FirstReads(c) = {Attached(c.target), Read("target", c.policy, c.policy)}
    BY DEF FirstReads
<1>3. c.op \in MemberOps => FirstReads(c) = {Attached(c.member), Attached(c.target)}
    BY DEF FirstReads
<1>4. c.op \in AccountOps \cup {"DeleteGroup"} => FirstReads(c) = {Attached(c.target)}
    BY DEF FirstReads
<1>5. c.op \in UserOps => FirstReads(c) = {Read("origin", c.target, c.target)}
    BY DEF FirstReads
<1>6. c.op = "CreatePolicy" => FirstReads(c) = {}
    BY DEF FirstReads
<1> QED
    BY <1>1, <1>2, <1>3, <1>4, <1>5, <1>6

LEMMA StartGuard ==
    ASSUME GuardInv, NEW t \in Task, Start(t)
    PROVE  GuardOK(t)'
<1> DEFINE c == Call(t)
<1>1. ASSUME NEW how, End(t, how) PROVE GuardOK(t)'
    BY <1>1, EndGuard DEF GuardInv
<1>2. CASE /\ phase' = [phase EXCEPT ![t] = "guard"] /\ todo' = [todo EXCEPT ![t] = FirstReads(c)]
           /\ reason' = [reason EXCEPT ![t] = IF CreateIsPrivileged(c) THEN "privilege" ELSE None]
           /\ UNCHANGED <<turn, result, seen, base>>
    <2>1. Quiet /\ \A p \in Policy : seen'[t][p] = "unread"
        BY <1>2 DEF Start, GuardInv, Forgotten
    <2>2. todo'[t] = FirstReads(c) /\ Call(t)' = c /\ (reason'[t] = None => ~CreateIsPrivileged(c))
        BY <1>2, <2>1 DEF GuardInv, GuardTypeOK, Call, Quiet, None
    <2>3. ASSUME NEW h, Attached(h) \in FirstReads(c) PROVE Seen(t, h)'
        <3>1. Attached(h)' = Attached(h)
            BY DEF Attached
        <3> QED
            BY <2>2, <2>3, <3>1 DEF Seen, SeenPrincipal
    <2>4. ASSUME reason'[t] = None PROVE Shown(t)'
        <3>1. c.op = "CreatePolicy" => ~StatementsArePrivileged(c.doc)
            BY <2>2, <2>4 DEF CreateIsPrivileged
        <3>2. c.op \in {"UpdatePolicy", "DeletePolicy"} => ShownPolicy(t)'
            BY <2>2, Begins DEF ShownPolicy, Read
        <3>3. c.op \in AttachOps => ShownAttachment(t)'
            BY <2>2, Begins DEF ShownAttachment, Read
        <3>4. c.op \in AttachOps \cup MemberOps \cup AccountOps \cup {"DeleteGroup"} => Seen(t, c.target)'
            <4>1. c.op \in AttachOps \cup MemberOps \cup AccountOps \cup {"DeleteGroup"}
                  => Attached(c.target) \in FirstReads(c)
                BY Begins
            <4> QED
                BY <2>2, <2>3, <4>1
        <3>5. c.op \in MemberOps => Seen(t, c.member)'
            <4>1. c.op \in MemberOps => Attached(c.member) \in FirstReads(c)
                BY Begins
            <4> QED
                BY <2>2, <2>3, <4>1
        <3>6. c.op = "ResetUserPassword" => Read("origin", c.target, c.target) \in todo'[t]
            BY <2>2, Begins DEF UserOps
        <3> QED
            BY <2>2, <3>1, <3>2, <3>3, <3>4, <3>5, <3>6 DEF Shown, Read
    <2> QED
        BY <2>1, <2>4 DEF GuardOK
<1> QED
    BY <1>1, <1>2 DEF Start

LEMMA OwnGuard ==
    ASSUME GuardInv, NEW t \in Task, GuardStep(t)
    PROVE  GuardOK(t)'
<1>1. ASSUME NEW how, End(t, how) PROVE GuardOK(t)'
    BY <1>1, EndGuard DEF GuardInv
<1>2. ASSUME NEW u \in User, FindSelf(t, u) PROVE GuardOK(t)'
    <2>1. Learn(t, "self", {}) /\ UNCHANGED <<seen, base>> /\ phase[t] = "guard"
        BY <1>2 DEF FindSelf, Asks
    <2>2. reason'[t] # None
        BY <2>1, Learnt DEF GuardInv, None
    <2> QED
        BY <2>1, <2>2, ReadsOn
<1>3. ASSUME NEW g \in Group, ReadGroupToDelete(t, g) PROVE GuardOK(t)'
    BY <1>1, <1>3, GroupToDeleteRead
<1>4. ASSUME NEW u \in User, ReadOrigin(t, u) PROVE GuardOK(t)'
    BY <1>1, <1>4, OriginRead
<1>5. CASE ReadTarget(t)
    BY <1>1, <1>5, TargetRead
<1>6. CASE ReadList(t, "groups", Group) \/ ReadList(t, "users", User) \/ ReadList(t, "accounts", ServiceAccount)
    BY <1>1, <1>6, ListRead
<1>7. CASE Refuse(t)
    BY <1>1, <1>7 DEF Refuse
<1> QED
    BY <1>2, <1>3, <1>4, <1>5, <1>6, <1>7, UserRead, GroupsOfRead, AccountRead, GroupRead, PolicyRead
       DEF GuardStep

\* A guard with nothing left to read and no reason has shown the write harmless.
LEMMA SeenSafe ==
    ASSUME GuardTypeOK, NEW t \in Task, todo[t] = {}, NEW h \in Holder, Seen(t, h)
    PROVE  Safe(h)
<1>1. ASSUME NEW x \in Principal, SeenPrincipal(t, x) PROVE ~IsProtected(x)
    BY <1>1 DEF SeenPrincipal, Clears, IsProtected, Empowered
<1>2. ASSUME h \in Group, NEW u \in members[h] PROVE u \in Principal
    BY <1>2, Apart DEF GuardTypeOK
<1> QED
    BY <1>1, <1>2 DEF Seen, Safe, Empowered, Clears

LEMMA ShownHarmless ==
    ASSUME GuardTypeOK, NEW t \in Task, todo[t] = {}, Call(t) \in Request, Shown(t)
    PROVE  Harmless(Call(t), Sends(t))
<1> DEFINE c == Call(t)
<1>1. c.target \in Holder /\ c.member \in Holder /\ (c.op = "CreatePolicy" => ~c.keep)
    BY RequestFacts, Apart
<1>2. c.op = "CreatePolicy" => ~StatementsArePrivileged(Sends(t))
    BY <1>1 DEF Shown, Sends
<1>3. c.op \in {"UpdatePolicy", "DeletePolicy"} => ShownPolicy(t)
    BY DEF Shown
<1>4. c.op = "UpdatePolicy" => c.policy \in used /\ ~Privileged(c.policy) /\ ~StatementsArePrivileged(Sends(t))
    BY <1>3 DEF ShownPolicy
<1>5. ASSUME c.op \in {"UpdatePolicy", "DeletePolicy"}, NEW h \in Holder, c.policy \in held[h] PROVE Safe(h)
    BY <1>3, <1>5, SeenSafe DEF ShownPolicy, Listed, Holder
<1>6. c.op \in AttachOps => c.policy \in used /\ ~Privileged(c.policy)
    BY DEF Shown, ShownAttachment
<1>7. c.op \in AttachOps \cup MemberOps \cup AccountOps \cup {"DeleteGroup", "ResetUserPassword"} => Safe(c.target)
    BY <1>1, SeenSafe DEF Shown
<1>8. c.op \in MemberOps => Safe(c.member)
    BY <1>1, SeenSafe DEF Shown
<1> QED
    BY <1>2, <1>4, <1>5, <1>6, <1>7, <1>8 DEF Harmless

-----------------------------------------------------------------------------
LEMMA LearnSame ==
    ASSUME GuardTypeOK, NEW t \in Task, NEW d \in Task, d # t, NEW why, NEW left, Learn(t, why, left),
           seen'[d] = seen[d], base'[d] = base[d]
    PROVE  SameTask(d)
BY DEF Learn, Quiet, SameTask, GuardTypeOK

LEMMA EndSame ==
    ASSUME GuardTypeOK, NEW t \in Task, NEW d \in Task, d # t, NEW how, End(t, how), Quiet
    PROVE  SameTask(d)
BY DEF End, Quiet, SameTask, GuardTypeOK

LEMMA StepSame ==
    ASSUME GuardTypeOK, NEW t \in Task, NEW d \in Task, d # t,
           Start(t) \/ GuardStep(t) \/ GuardFails(t) \/ Send(t) \/ Returns(t)
    PROVE  SameTask(d)
<1>u. UNCHANGED <<seen, base>> => seen'[d] = seen[d] /\ base'[d] = base[d]
    OBVIOUS
<1>1. CASE Start(t)
    <2>1. CASE \E how : End(t, how)
        BY <1>1, <2>1, EndSame DEF Start
    <2>2. CASE /\ phase' = [phase EXCEPT ![t] = "guard"] /\ todo' = [todo EXCEPT ![t] = FirstReads(Call(t))]
               /\ \E v : reason' = [reason EXCEPT ![t] = v]
               /\ UNCHANGED <<turn, result, seen, base>>
        BY <1>1, <2>2 DEF Start, Quiet, SameTask, GuardTypeOK
    <2> QED
        BY <1>1, <2>1, <2>2 DEF Start
<1>2. CASE GuardFails(t) \/ Returns(t) \/ Refuse(t)
    BY <1>2, EndSame DEF GuardFails, Returns, Refuse
<1>3. CASE Send(t)
    BY <1>3 DEF Send, guard, SameTask, GuardTypeOK
<1>4. ASSUME NEW u \in User, FindSelf(t, u) \/ ReadUser(t, u) \/ ReadGroupsOf(t, u) PROVE SameTask(d)
    BY <1>4, <1>u, LearnSame DEF FindSelf, ReadUser, ReadGroupsOf
<1>5. ASSUME NEW u \in User, ReadOrigin(t, u) PROVE SameTask(d)
    BY <1>5, <1>u, LearnSame, EndSame DEF ReadOrigin
<1>6. ASSUME NEW s \in ServiceAccount, ReadAccount(t, s) PROVE SameTask(d)
    BY <1>6, <1>u, LearnSame DEF ReadAccount
<1>7. ASSUME NEW g \in Group, ReadGroup(t, g) \/ ReadGroupToDelete(t, g) PROVE SameTask(d)
    BY <1>7, <1>u, LearnSame, EndSame DEF ReadGroup, ReadGroupToDelete
<1>8. ASSUME NEW p \in Policy, NEW x \in Holder, ReadPolicy(t, p, x) PROVE SameTask(d)
    <2>1. base'[d] = base[d] /\ seen'[d] = seen[d]
        BY <1>8 DEF ReadPolicy, GuardTypeOK
    <2> QED
        BY <1>8, <2>1, LearnSame DEF ReadPolicy
<1>9. CASE ReadTarget(t)
    <2>1. CASE End(t, "managed") /\ Quiet
        BY <2>1, EndSame
    <2>2. CASE ~(End(t, "managed") /\ Quiet)
        <3>1. seen' = seen /\ base' = [base EXCEPT ![t] = document[Call(t).policy]]
            BY <1>9, <2>2 DEF ReadTarget
        <3>2. base'[d] = base[d] /\ seen'[d] = seen[d]
            BY <3>1 DEF GuardTypeOK
        <3> QED
            BY <1>9, <2>2, <3>2, LearnSame DEF ReadTarget
    <2> QED
        BY <2>1, <2>2
<1>10. ASSUME NEW kind, NEW of, ReadList(t, kind, of) PROVE SameTask(d)
    BY <1>10, <1>u, LearnSame, EndSame DEF ReadList
<1> QED
    BY <1>1, <1>2, <1>3, <1>4, <1>5, <1>6, <1>7, <1>8, <1>9, <1>10 DEF GuardStep

LEMMA ForgottenStep ==
    ASSUME GuardTypeOK, Forgotten, [GuardNext]_guardVars
    PROVE  Forgotten'
<1>1. ASSUME NEW t \in Task, Start(t) \/ GuardStep(t) \/ GuardFails(t) \/ Send(t) \/ Returns(t)
      PROVE  Forgotten'
    <2>1. \A d \in Task : d # t => phase'[d] = phase[d] /\ seen'[d] = seen[d]
        BY <1>1, StepSame DEF SameTask
    <2>2. phase'[t] = "idle" => \A p \in Policy : seen'[t][p] = "unread"
        <3>1. CASE \E how : End(t, how)
            BY <3>1 DEF End, GuardTypeOK
        <3>2. CASE \E why, left : phase[t] = "guard" /\ Learn(t, why, left)
            BY <3>2 DEF Learn
        <3>3. CASE Start(t) \/ Send(t)
            BY <3>1, <3>3 DEF Start, Send, GuardTypeOK
        <3> QED
            BY <1>1, <3>1, <3>2, <3>3
            DEF GuardFails, Returns, GuardStep, FindSelf, ReadUser, ReadGroupsOf, ReadOrigin, ReadAccount, ReadGroup,
                ReadGroupToDelete, ReadPolicy, ReadTarget, ReadList, Refuse, Asks
    <2> QED
        BY <2>1, <2>2 DEF Forgotten
<1>2. ASSUME UNCHANGED <<phase, seen>> PROVE Forgotten'
    BY <1>2 DEF Forgotten
<1> QED
    BY <1>1, <1>2 DEF GuardNext, guardVars, guard, Land, Drop

LEMMA WireStep ==
    ASSUME GuardInv, GuardTypeOK', [GuardNext]_guardVars, NEW m \in wire'
    PROVE  Harmless(m.call, m.doc)'
<1>1. Steady
    BY NextSteady
<1>2. CASE m \in wire
    <2>1. m.call \in Request /\ Harmless(m.call, m.doc)
        BY <1>2 DEF GuardInv, GuardTypeOK
    <2> QED
        BY <1>1, <2>1, HarmlessKept DEF GuardInv
<1>3. CASE m \notin wire
    <2>1. PICK t \in Task : Send(t)
        <3>1. ASSUME NEW t \in Task, Start(t) \/ GuardStep(t) \/ GuardFails(t) \/ Returns(t) PROVE wire' = wire
            BY <3>1 DEF Start, GuardFails, Returns, GuardStep, FindSelf, ReadUser, ReadGroupsOf,
               ReadOrigin, ReadAccount,
                        ReadGroup, ReadGroupToDelete, ReadPolicy, ReadTarget, ReadList, Refuse, Learn, Quiet
        <3> QED
            BY <1>3, <3>1 DEF GuardNext, guardVars, Land, Drop
    <2>2. m = [from |-> t, call |-> Call(t), doc |-> Sends(t)]
        BY <1>3, <2>1 DEF Send
    <2>3. m.call = Call(t) /\ m.doc = Sends(t)
        BY <2>2
    <2>4. Call(t) \in Request /\ Shown(t) /\ todo[t] = {}
        BY <2>1, CallFacts DEF Send, GuardInv, Turns, GuardOK
    <2>5. m.call \in Request /\ Harmless(m.call, m.doc)
        BY <2>3, <2>4, ShownHarmless DEF GuardInv
    <2> QED
        BY <1>1, <2>5, HarmlessKept DEF GuardInv
<1> QED
    BY <1>2, <1>3

LEMMA GuardInvStep == GuardInv /\ [GuardNext]_guardVars => GuardInv'
<1> SUFFICES ASSUME GuardInv, [GuardNext]_guardVars PROVE GuardInv'
    OBVIOUS
<1>1. GuardTypeOK' /\ Turns' /\ Forgotten'
    BY GuardTypeStep, ForgottenStep DEF GuardInv
<1>2. Steady /\ Existing'
    BY NextSteady
<1>3. \A m \in wire' : Harmless(m.call, m.doc)'
    BY <1>1, WireStep
<1>4. ASSUME NEW d \in Task PROVE GuardOK(d)'
    <2>1. CASE SameTask(d)
        BY <1>1, <1>2, <2>1, OthersKept
    <2>2. CASE ~SameTask(d)
        <3>1. ASSUME NEW t \in Task, Start(t) \/ GuardStep(t) \/ GuardFails(t) \/ Send(t) \/ Returns(t)
              PROVE  t = d
            BY <2>2, <3>1, StepSame DEF GuardInv
        <3>2. Start(d) \/ GuardStep(d) \/ GuardFails(d) \/ Send(d) \/ Returns(d)
            BY <2>2, <3>1 DEF GuardNext, guardVars, guard, Land, Drop, SameTask
        <3>3. CASE Send(d)
            <4>1. phase'[d] = "sent" /\ UNCHANGED <<service, guard>>
                BY <3>3 DEF Send, GuardInv, GuardTypeOK
            <4>2. GuardOK(d)
                BY DEF GuardInv
            <4> QED
                BY <4>1, <4>2 DEF GuardOK, service, guard, Privileged
        <3>4. CASE GuardFails(d) \/ Returns(d)
            BY <3>4, EndGuard DEF GuardFails, Returns, GuardInv
        <3> QED
            BY <3>2, <3>3, <3>4, StartGuard, OwnGuard
    <2> QED
        BY <2>1, <2>2
<1> QED
    BY <1>1, <1>2, <1>3, <1>4 DEF GuardInv

LEMMA GuardInvInit == GuardInit => GuardInv
<1> SUFFICES ASSUME GuardInit PROVE GuardInv
    OBVIOUS
<1>1. GuardTypeOK /\ Turns
    BY GuardTypeInit
<1>2. Existing
    <2>1. PICK w \in Worlds : exists = w.exists /\ held = w.held /\ members = w.members
        BY DEF GuardInit
    <2> QED
        BY <2>1, IamAssumption DEF GuardInit, Existing
<1>3. Forgotten
    BY DEF GuardInit, Forgotten
<1>4. \A t \in Task : GuardOK(t)
    BY DEF GuardInit, GuardOK
<1> QED
    BY <1>1, <1>2, <1>3, <1>4 DEF GuardInit, GuardInv

LEMMA GuardInvariant == GuardSpec => []GuardInv
BY GuardInvInit, GuardInvStep, PTL DEF GuardSpec

\* The guarded writes keep their types, for any number of tasks and plans.
THEOREM GuardTypeCorrect == GuardSpec => []GuardTypeOK
<1>1. GuardInv => GuardTypeOK
    BY DEF GuardInv
<1> QED
    BY <1>1, GuardInvariant, PTL

\* A principal that may write to IAM keeps its policies, with what they say, and
\* its credentials, as long as it exists, whatever guarded writes run and however
\* late, often or out of order the service carries them out.
THEOREM UntouchedCorrect == GuardSpec => ProtectedUntouched
<1>1. GuardInv /\ GuardInv' /\ [GuardNext]_guardVars
      => [\A x \in Protected :
            /\ x \in ServiceAccount => x \in exists'
            /\ x \in exists' => Rights(x)' = Rights(x) /\ (x \in taken' => x \in taken)]_guardVars
    BY UntouchedStep
<1> QED
    BY <1>1, GuardInvariant, PTL DEF GuardSpec, ProtectedUntouched

\* No guarded writes together give anybody the right to write to IAM.
THEOREM EmpoweredCorrect == GuardSpec => NobodyEmpowered
<1>1. GuardInv /\ GuardInv' /\ [GuardNext]_guardVars
      => [\A x \in Principal : MayWrite(x)' => MayWrite(x)]_guardVars
    BY EmpoweredStep
<1> QED
    BY <1>1, GuardInvariant, PTL DEF GuardSpec, NobodyEmpowered

-----------------------------------------------------------------------------
\* A caller gets into no group and no group or principal of its gets a policy.
StaysOut(u) ==
    /\ u \in Principal => held'[u] \subseteq held[u]
    /\ \A g \in Group : u \in members'[g] => u \in members[g] /\ held'[g] \subseteq held[g]

\* Only policies come into being.
LEMMA NoNewHolders ==
    ASSUME GuardInv, [GuardNext]_guardVars, NEW h \in Holder, h \in exists'
    PROVE  h \in exists
<1>1. ASSUME NEW m \in wire, Land(m) PROVE h \in exists
    BY <1>1, Apart DEF Land, LandPolicy, LandAttachment, LandDelete, LandTake, service
<1> QED
    BY <1>1, ServiceSteps DEF service

LEMMA CallerStep ==
    ASSUME GuardInv, GuardInv', [GuardNext]_guardVars, NEW x \in Principal, x \in exists => IsProtected(x)
    PROVE  StaysOut(x) /\ (x \in exists' => IsProtected(x)')
<1>1. CASE x \notin exists'
    BY <1>1, Apart DEF StaysOut, GuardInv, Existing
<1>2. CASE x \in exists' /\ UNCHANGED service
    BY <1>2 DEF StaysOut, service, IsProtected, Empowered, GroupsOf, Privileged
<1>3. ASSUME x \in exists', NEW m \in wire, Land(m) PROVE StaysOut(x) /\ IsProtected(x)'
    <2>1. IsProtected(x)
        BY <1>3, NoNewHolders, Apart
    <2>2. /\ held'[x] = held[x]
          /\ x \in User => GroupsOf(x)' = GroupsOf(x) /\ \A g \in GroupsOf(x) : held'[g] = held[g]
          /\ \A q \in PoliciesOf(x) : document'[q] = document[q]
        BY <1>3, <2>1, LandEffect, EffectKeeps DEF GuardInv
    <2>3. \A g \in Group : x \in members'[g] => x \in User
        BY DEF GuardInv, GuardTypeOK
    <2>4. StaysOut(x)
        BY <2>2, <2>3 DEF StaysOut, GroupsOf
    <2>5. CASE Empowered(x)
        <3>1. PICK p \in held[x] : Privileged(p)
            BY <2>5 DEF Empowered
        <3>2. document'[p] = document[p]
            BY <2>2, <3>1 DEF PoliciesOf
        <3>3. Privileged(p)' /\ p \in held'[x]
            BY <2>2, <3>1, <3>2 DEF Privileged
        <3>4. Empowered(x)'
            BY <3>3 DEF Empowered
        <3> QED
            BY <2>4, <3>4 DEF IsProtected
    <2>6. CASE x \in User /\ \E g \in GroupsOf(x) : Empowered(g)
        <3>0. PICK g \in GroupsOf(x) : Empowered(g)
            BY <2>6
        <3>1. PICK p \in held[g] : Privileged(p)
            BY <3>0 DEF Empowered
        <3>2. document'[p] = document[p]
            BY <2>2, <2>6, <3>0, <3>1 DEF PoliciesOf
        <3>3. g \in GroupsOf(x)' /\ p \in held'[g]
            BY <2>2, <2>6, <3>0, <3>1
        <3>4. Privileged(p)'
            BY <3>1, <3>2 DEF Privileged
        <3>5. Empowered(g)'
            BY <3>3, <3>4 DEF Empowered
        <3> QED
            BY <2>4, <2>6, <3>3, <3>5 DEF IsProtected
    <2> QED
        BY <2>1, <2>4, <2>5, <2>6 DEF IsProtected
<1> QED
    BY <1>1, <1>2, <1>3, ServiceSteps

\* What the guards of the others have still to meet stays before them.
LEMMA SelfKept ==
    ASSUME GuardTypeOK, NEW t \in Task, Caller[t] \in Principal, StaysOut(Caller[t]), SameTask(t), SelfShown(t)
    PROVE  SelfShown(t)'
<1> DEFINE u == Caller[t]
           c == Call(t)
<1>1. Call(t)' = c /\ todo'[t] = todo[t]
    BY DEF SameTask, Call
<1>a. \A h : Attached(h)' = Attached(h)
    BY DEF Attached
<1>2. ASSUME NEW h, SelfSeen(t, h) PROVE SelfSeen(t, h)'
    BY <1>1, <1>2, <1>a DEF SelfSeen, StaysOut
<1>3. SelfListed(t) => SelfListed(t)'
    <2>1. u \in Principal => held'[u] \subseteq held[u]
        BY DEF StaysOut
    <2>2. \A g \in Group : u \in members'[g] => u \in members[g] /\ held'[g] \subseteq held[g]
        BY DEF StaysOut
    <2> QED
        BY <1>1, <1>2, <1>a, <2>1, <2>2 DEF SelfListed, Read
<1>4. u \in User => \A r \in todo'[t] : r.of = u => r = Attached(u)
    BY <1>1 DEF SelfShown
<1>5. \A g \in Group : \A p \in Policy : u \in members'[g] /\ Read("policy", p, g) \in todo'[t] => Attached(u) \in todo'[t]
    BY <1>1 DEF SelfShown, StaysOut
<1>6. /\ u \in User /\ c.op \in AttachOps \cup MemberOps => SelfSeen(t, c.target)'
      /\ u \in User /\ c.op \in MemberOps => SelfSeen(t, c.member)'
    BY <1>1, <1>2 DEF SelfShown
<1> QED
    BY <1>1, <1>3, <1>4, <1>5, <1>6, <1>a DEF SelfShown, Read

\* The same for the reads of the task itself.
LEMMA SelfHolds ==
    ASSUME GuardTypeOK, NEW t \in Task, UNCHANGED <<service, plan>>, turn'[t] = turn[t], SelfShown(t),
           \A h \in Holder : SelfSeen(t, h) => SelfSeen(t, h)',
           Attached(Caller[t]) \in todo[t] => Attached(Caller[t]) \in todo'[t],
           Call(t).op = "UpdatePolicy" => SelfListed(t)',
           \A r \in todo'[t] \ todo[t] : Caller[t] \in User /\ r.of = Caller[t] => r = Attached(Caller[t]),
           \A g \in Group : \A p \in Policy :
               Caller[t] \in members[g] /\ Read("policy", p, g) \in todo'[t] \ todo[t] => Attached(Caller[t]) \in todo'[t],
           Call(t) \in Request
    PROVE  SelfShown(t)'
<1> DEFINE u == Caller[t]
           c == Call(t)
<1>1. /\ Call(t)' = c /\ held' = held /\ members' = members
      /\ c.policy \in Policy /\ c.target \in Holder /\ c.member \in Holder
    BY RequestFacts, Apart DEF Call, service
<1>a. \A h : Attached(h)' = Attached(h)
    BY DEF Attached
<1>4. u \in User => \A r \in todo'[t] : r.of = u => r = Attached(u)
    BY DEF SelfShown
<1>5. \A g \in Group : \A p \in Policy : u \in members'[g] /\ Read("policy", p, g) \in todo'[t] => Attached(u) \in todo'[t]
    BY <1>1 DEF SelfShown
<1>6. /\ u \in User /\ c.op \in AttachOps \cup MemberOps => SelfSeen(t, c.target)'
      /\ u \in User /\ c.op \in MemberOps => SelfSeen(t, c.member)'
    BY <1>1 DEF SelfShown
<1> QED
    BY <1>1, <1>4, <1>5, <1>6, <1>a DEF SelfShown, Read

LEMMA SelfGrows ==
    ASSUME GuardTypeOK, NEW t \in Task, UNCHANGED <<service, plan>>, turn'[t] = turn[t], SelfShown(t),
           Attached(Caller[t]) \in todo[t] => Attached(Caller[t]) \in todo'[t],
           \A h \in Holder : SelfSeen(t, h) => SelfSeen(t, h)',
           \A k \in {"target", "groups", "users", "accounts"}, p \in Policy :
               Read(k, p, p) \in todo[t] => Read(k, p, p) \in todo'[t],
           \A r \in todo'[t] \ todo[t] : Caller[t] \in User /\ r.of = Caller[t] => r = Attached(Caller[t]),
           \A g \in Group : \A p \in Policy :
               Caller[t] \in members[g] /\ Read("policy", p, g) \in todo'[t] \ todo[t] => Attached(Caller[t]) \in todo'[t],
           Call(t) \in Request
    PROVE  SelfShown(t)'
<1> DEFINE c == Call(t)
<1>1. Call(t)' = c /\ held' = held /\ members' = members /\ c.policy \in Policy
    BY RequestFacts DEF Call, service
<1>a. \A h : Attached(h)' = Attached(h)
    BY DEF Attached
<1>2. \A g \in Group : SelfSeen(t, g) => SelfSeen(t, g)'
    BY Apart
<1>3. ASSUME NEW k \in {"target", "groups", "users", "accounts"}, Read(k, c.policy, c.policy) \in todo[t]
      PROVE  Read(k, c.policy, c.policy) \in todo'[t]
    BY <1>1, <1>3
<1>4. SelfListed(t) => SelfListed(t)'
    BY <1>1, <1>a, <1>2, <1>3 DEF SelfListed, Read
<1> QED
    BY <1>4, SelfHolds DEF SelfShown

-----------------------------------------------------------------------------
LEMMA LearntSelf ==
    ASSUME GuardTypeOK, NEW t \in Task, NEW why \in {None, "self", "privilege"}, NEW left, Learn(t, why, left),
           reason'[t] # "self"
    PROVE  reason[t] # "self" /\ why # "self" /\ todo'[t] = left /\ UNCHANGED <<service, plan, turn>>
<1>1. reason'[t] = Combine(reason[t], why)
    BY DEF Learn, GuardTypeOK
<1>2. reason[t] # "self" /\ why # "self"
    BY <1>1 DEF Combine
<1> QED
    BY <1>2, Learnt

LEMMA SelfStart ==
    ASSUME GuardInv, NEW t \in Task, Start(t), phase'[t] = "guard"
    PROVE  SelfShown(t)' /\ Caller[t] \in Principal
<1> DEFINE u == Caller[t]
           c == Call(t)
<1>1. phase' = [phase EXCEPT ![t] = "guard"] /\ todo' = [todo EXCEPT ![t] = FirstReads(c)] /\ turn' = turn
    BY DEF Start, End, GuardInv, GuardTypeOK
<1>2. /\ u # Root /\ ~(c.op \in UserOps /\ IsCaller(t, c.target))
      /\ ~(c.op \in AccountOps \cup AttachOps /\ c.target \in ServiceAccount /\ ByAccount(t))
    BY DEF Start, End, GuardInv, GuardTypeOK
<1>3. c \in Request /\ todo'[t] = FirstReads(c) /\ Call(t)' = c
    BY <1>1, CallFacts DEF Start, Quiet, Call, GuardInv, GuardTypeOK
<1>4. u \in Principal /\ u \in Holder
    BY <1>2, IamAssumption DEF Holder, Principal
<1>5. /\ c.policy \in Policy /\ c.target \in Holder /\ c.member \in User
      /\ c.op \in UserOps => c.target \in User
      /\ c.op \in AccountOps => c.target \in ServiceAccount
      /\ c.op \in PolicyOps \cup AttachOps \cup MemberOps \cup AccountOps \cup UserOps \cup {"DeleteGroup"}
    BY <1>3, RequestFacts
<1>6. c.op \in UserOps => c.target # u
    BY <1>2, <1>5 DEF IsCaller
<1>7. u \in ServiceAccount /\ c.op \in AccountOps \cup AttachOps => c.target # u
    BY <1>2 DEF ByAccount
<1>8. \A r \in FirstReads(c) : \/ r = Attached(c.target) \/ r = Attached(c.member)
                               \/ r = Read("target", c.policy, c.policy)
                               \/ r = Read("origin", c.target, c.target) /\ c.op \in UserOps
    BY <1>5, Begins DEF PolicyOps
<1>9. \A r \in FirstReads(c) : r.of = u => r = Attached(u)
    BY <1>4, <1>5, <1>6, <1>8, Apart, ReadFacts DEF Attached
<1>10. \A g, p : Read("policy", p, g) \notin FirstReads(c)
    BY <1>8, AttachedFacts, ReadFacts
<1>a. \A h : Attached(h)' = Attached(h)
    BY DEF Attached
<1>11. ASSUME NEW h, Attached(h) \in FirstReads(c) PROVE SelfSeen(t, h)'
    BY <1>3, <1>11, <1>a DEF SelfSeen
<1>12. c.op \in AttachOps \cup MemberOps => SelfSeen(t, c.target)'
    <2>1. c.op \in AttachOps \cup MemberOps => Attached(c.target) \in FirstReads(c)
        BY Begins
    <2> QED
        BY <1>3, <1>11, <2>1
<1>13. c.op \in MemberOps => SelfSeen(t, c.member)'
    <2>1. c.op \in MemberOps => Attached(c.member) \in FirstReads(c)
        BY Begins
    <2> QED
        BY <1>3, <1>11, <2>1
<1>14. c.op = "UpdatePolicy" => SelfListed(t)'
    BY <1>3, Begins DEF SelfListed, Read
<1> QED
    BY <1>3, <1>4, <1>6, <1>7, <1>9, <1>10, <1>12, <1>13, <1>14, <1>a DEF SelfShown, Read

\* What all reads of one holder have in common.
LEMMA SelfRead ==
    ASSUME GuardInv, NEW t \in Task, phase[t] = "guard", SelfShown(t), Caller[t] \in Principal,
           NEW v \in Holder, v \in User => v # Caller[t],
           NEW why \in {None, "self", "privilege"}, NEW left, Learn(t, why, left), reason'[t] # "self",
           \A r \in todo[t] \ left : (r.of = v /\ r # Attached(Caller[t])) \/ r.kind = "policy",
           \A g \in Group : Attached(g) \in todo[t] \ left /\ Caller[t] \in members[g] => Attached(Caller[t]) \in left,
           \A r \in left \ todo[t] : r.of = v \/ (\E h : r = Attached(h)),
           \A p \in Policy : v \in Group /\ Caller[t] \in members[v] /\ Read("policy", p, v) \in left \ todo[t]
                => Attached(Caller[t]) \in left,
           v = Caller[t] => left \subseteq todo[t]
    PROVE  SelfShown(t)'
<1> DEFINE u == Caller[t]
<1>1. todo'[t] = left /\ UNCHANGED <<service, plan, turn>> /\ Call(t) \in Request
    BY LearntSelf, CallFacts DEF GuardInv, Turns
<1>2. Attached(u) \in todo[t] => Attached(u) \in todo'[t]
    BY <1>1, AttachedFacts
<1>3. ASSUME NEW h \in Holder, SelfSeen(t, h) PROVE SelfSeen(t, h)'
    BY <1>1, <1>2, <1>3 DEF SelfSeen, service, Attached
<1>4. ASSUME NEW k \in {"target", "groups", "users", "accounts"}, NEW p \in Policy, Read(k, p, p) \in todo[t]
      PROVE  Read(k, p, p) \in todo'[t]
    BY <1>1, <1>4, ReadFacts, Apart
<1>5. \A r \in todo'[t] \ todo[t] : u \in User /\ r.of = u => r = Attached(u)
    BY <1>1, ReadFacts DEF Attached
<1>6. \A g \in Group : \A p \in Policy :
          u \in members[g] /\ Read("policy", p, g) \in todo'[t] \ todo[t] => Attached(u) \in todo'[t]
    BY <1>1, ReadFacts, AttachedFacts
<1> QED
    BY <1>1, <1>2, <1>3, <1>4, <1>5, <1>6, SelfGrows DEF GuardInv

LEMMA NotSelfRead ==
    ASSUME NEW t \in Task, SelfShown(t), NEW k, NEW v, k # "attached", Read(k, v, v) \in todo[t], v \in User
    PROVE  v # Caller[t]
BY ReadFacts, AttachedFacts DEF SelfShown

LEMMA PolicyReadsFacts ==
    ASSUME NEW t, NEW ps, NEW x
    PROVE  \A r \in PolicyReads(t, ps, x) : r.of = x /\ r.kind = "policy"
BY ReadFacts DEF PolicyReads

LEMMA SelfUser ==
    ASSUME GuardInv, NEW t \in Task, SelfShown(t), Caller[t] \in Principal, NEW u \in User, ReadUser(t, u),
           reason'[t] # "self"
    PROVE  SelfShown(t)'
<1> DEFINE left == (todo[t] \ {Attached(u)}) \cup PolicyReads(t, held[u], u)
                     \cup (IF AlreadyPrivileged(t, held[u]) THEN {} ELSE {Read("groupsOf", u, u)})
<1>1. Learn(t, WhyOf(t, held[u]), left) /\ phase[t] = "guard" /\ u # Caller[t] /\ u \notin Group /\ u \in Holder
    BY Apart DEF ReadUser, Asks, IsCaller
<1>2. \A r \in todo[t] \ left : r.of = u /\ r # Attached(Caller[t])
    BY <1>1, AttachedFacts, ReadFacts DEF Attached
<1>3. \A g \in Group : Attached(g) \notin todo[t] \ left
    BY <1>1, AttachedFacts
<1>4. \A r \in left \ todo[t] : r.of = u
    BY PolicyReadsFacts, ReadFacts
<1> HIDE DEF left
<1> QED
    BY <1>1, <1>2, <1>3, <1>4, WhyFacts, SelfRead

LEMMA SelfGroupsOf ==
    ASSUME GuardInv, NEW t \in Task, SelfShown(t), Caller[t] \in Principal, NEW u \in User, ReadGroupsOf(t, u),
           reason'[t] # "self"
    PROVE  SelfShown(t)'
<1> DEFINE ps == UNION {held[g] : g \in GroupsOf(u)}
           left == (todo[t] \ {Read("groupsOf", u, u)}) \cup PolicyReads(t, ps, u)
<1>1. /\ Learn(t, WhyOf(t, ps), left) /\ phase[t] = "guard" /\ u # Caller[t] /\ u \notin Group /\ u \in Holder
    BY NotSelfRead, Apart DEF ReadGroupsOf, Asks
<1> HIDE DEF ps
<1>2. \A r \in todo[t] \ left : r.of = u /\ r # Attached(Caller[t])
    BY AttachedFacts, ReadFacts
<1>3. \A g \in Group : Attached(g) \notin todo[t] \ left
    BY AttachedFacts, ReadFacts
<1>4. \A r \in left \ todo[t] : r.of = u
    BY PolicyReadsFacts
<1> HIDE DEF left
<1> QED
    BY <1>1, <1>2, <1>3, <1>4, WhyFacts, SelfRead

LEMMA SelfAccount ==
    ASSUME GuardInv, NEW t \in Task, SelfShown(t), Caller[t] \in Principal, NEW s \in ServiceAccount, ReadAccount(t, s),
           reason'[t] # "self", Caller[t] \in User
    PROVE  SelfShown(t)'
<1> DEFINE left == (todo[t] \ {Attached(s)}) \cup PolicyReads(t, held[s], s)
<1>1. Learn(t, WhyOf(t, held[s]), left) /\ phase[t] = "guard" /\ s # Caller[t] /\ s \notin Group /\ s \in Holder
    BY Apart DEF ReadAccount, Asks
<1>2. \A r \in todo[t] \ left : r.of = s /\ r # Attached(Caller[t])
    BY <1>1, AttachedFacts, ReadFacts DEF Attached
<1>3. \A g \in Group : Attached(g) \notin todo[t] \ left
    BY <1>1, AttachedFacts
<1>4. \A r \in left \ todo[t] : r.of = s
    BY PolicyReadsFacts
<1> HIDE DEF left
<1> QED
    BY <1>1, <1>2, <1>3, <1>4, WhyFacts, SelfRead

LEMMA SelfGroup ==
    ASSUME GuardInv, NEW t \in Task, SelfShown(t), Caller[t] \in Principal, NEW g \in Group, ReadGroup(t, g),
           reason'[t] # "self"
    PROVE  SelfShown(t)'
<1> DEFINE left == (todo[t] \ {Attached(g)}) \cup PolicyReads(t, held[g], g) \cup MemberReads(g)
<1>1. Learn(t, WhyOf(t, held[g]), left) /\ phase[t] = "guard" /\ g # Caller[t] /\ g \notin User /\ g \in Holder
    BY Apart DEF ReadGroup, Asks
<1>2. \A r \in todo[t] \ left : r.of = g /\ r # Attached(Caller[t])
    BY <1>1, AttachedFacts, ReadFacts DEF Attached
<1>3. Caller[t] \in members[g] => Attached(Caller[t]) \in left
    BY DEF MemberReads
<1>4. \A h \in Group : Attached(h) \in todo[t] \ left => h = g
    BY AttachedFacts
<1>5. \A r \in left \ todo[t] : r.of = g \/ (\E h : r = Attached(h))
    BY PolicyReadsFacts DEF MemberReads
<1> HIDE DEF left
<1> QED
    BY <1>1, <1>2, <1>3, <1>4, <1>5, WhyFacts, SelfRead

LEMMA SelfGroupToDelete ==
    ASSUME GuardInv, NEW t \in Task, SelfShown(t), Caller[t] \in Principal, NEW g \in Group, ReadGroupToDelete(t, g),
           ~(End(t, "inUse") /\ Quiet), reason'[t] # "self"
    PROVE  SelfShown(t)'
<1> DEFINE left == todo[t] \ {Attached(g)}
<1>1. /\ Learn(t, None, left) /\ phase[t] = "guard" /\ g # Caller[t] /\ g \notin User /\ g \in Holder /\ members[g] = {}
    BY Apart DEF ReadGroupToDelete, Asks
<1>2. \A r \in todo[t] \ left : r.of = g /\ r # Attached(Caller[t])
    BY <1>1, AttachedFacts, ReadFacts DEF Attached
<1>3. \A h \in Group : Attached(h) \in todo[t] \ left => h = g
    BY AttachedFacts
<1>4. left \subseteq todo[t]
    OBVIOUS
<1> HIDE DEF left
<1> QED
    BY <1>1, <1>2, <1>3, <1>4, SelfRead

\* A privileged policy ends the reads of its holder, but never those of the caller.
LEMMA SelfPolicy ==
    ASSUME GuardInv, NEW t \in Task, SelfShown(t), Caller[t] \in User, NEW p \in Policy, NEW x \in Holder,
           ReadPolicy(t, p, x), reason'[t] # "self"
    PROVE  SelfShown(t)'
<1> DEFINE u == Caller[t]
<1>1. phase[t] = "guard" /\ Read("policy", p, x) \in todo[t]
    BY DEF ReadPolicy, Asks
<1>2. x # u
    BY <1>1, ReadFacts, AttachedFacts DEF SelfShown
<1>3. x \in Group /\ u \in members[x] => Attached(u) \in todo[t]
    BY <1>1 DEF SelfShown
<1>4. CASE Privileged(p)
    <2> DEFINE left == {r \in todo[t] : r.of # x}
    <2>1. Learn(t, "privilege", left)
        BY <1>4 DEF ReadPolicy
    <2>2. \A r \in todo[t] \ left : r.of = x /\ r # Attached(u)
        BY <1>2, ReadFacts DEF Attached
    <2>3. \A g \in Group : Attached(g) \in todo[t] \ left /\ u \in members[g] => Attached(u) \in left
        BY <1>2, <1>3, ReadFacts DEF Attached
    <2>4. left \subseteq todo[t] /\ u \in Principal
        BY Apart
    <2> HIDE DEF left
    <2> QED
        BY <1>1, <1>2, <2>1, <2>2, <2>3, <2>4, SelfRead
<1>5. CASE ~Privileged(p)
    <2> DEFINE left == {r \in todo[t] : ~(r.kind = "policy" /\ r.id = p)}
    <2>1. Learn(t, None, left)
        BY <1>5 DEF ReadPolicy
    <2>2. \A r \in todo[t] \ left : r.kind = "policy"
        OBVIOUS
    <2>3. \A g \in Group : Attached(g) \notin todo[t] \ left
        BY AttachedFacts
    <2>4. left \subseteq todo[t] /\ u \in Principal
        BY Apart
    <2> HIDE DEF left
    <2> QED
        BY <1>1, <1>2, <2>1, <2>2, <2>3, <2>4, SelfRead
<1> QED
    BY <1>4, <1>5

\* A caller that is a service account meets itself in fewer places.
LEMMA SelfByAccount ==
    ASSUME GuardInv, NEW t \in Task, phase[t] = "guard", SelfShown(t), Caller[t] \in ServiceAccount,
           NEW why \in {None, "self", "privilege"}, NEW left, Learn(t, why, left), reason'[t] # "self",
           \A k \in {"target", "accounts"}, p \in Policy : Read(k, p, p) \in todo[t] => Read(k, p, p) \in left
    PROVE  SelfShown(t)'
<1> DEFINE u == Caller[t]
           c == Call(t)
<1>1. todo'[t] = left /\ UNCHANGED <<service, plan, turn>> /\ c \in Request
    BY LearntSelf, CallFacts DEF GuardInv, Turns
<1>2. Call(t)' = c /\ held' = held /\ members' = members /\ c.policy \in Policy
    BY <1>1, RequestFacts DEF Call, service
<1>3. u \notin User /\ \A g \in Group : u \notin members[g]
    BY Apart DEF GuardInv, GuardTypeOK
<1>4. SelfListed(t) => SelfListed(t)'
    <2>1. CASE Read("target", c.policy, c.policy) \in todo[t]
        <3>1. Read("target", c.policy, c.policy) \in todo'[t]
            BY <1>1, <1>2, <2>1
        <3> QED
            BY <1>2, <3>1 DEF SelfListed, Read
    <2>2. ASSUME SelfListed(t), Read("target", c.policy, c.policy) \notin todo[t] PROVE SelfListed(t)'
        <3>1. u \in ServiceAccount /\ c.policy \in held[u] => Read("accounts", c.policy, c.policy) \in todo'[t]
            BY <1>1, <1>2, <2>2 DEF SelfListed
        <3> QED
            BY <1>2, <1>3, <3>1 DEF SelfListed, Read
    <2> QED
        BY <2>1, <2>2
<1> QED
    BY <1>2, <1>3, <1>4 DEF SelfShown

LEMMA SelfAccountRead ==
    ASSUME GuardInv, NEW t \in Task, SelfShown(t), Caller[t] \in ServiceAccount, NEW s \in ServiceAccount,
           ReadAccount(t, s), reason'[t] # "self"
    PROVE  SelfShown(t)'
<1> DEFINE left == (todo[t] \ {Attached(s)}) \cup PolicyReads(t, held[s], s)
<1>1. Learn(t, WhyOf(t, held[s]), left) /\ phase[t] = "guard"
    BY DEF ReadAccount, Asks
<1>2. \A k \in {"target", "accounts"}, p \in Policy : Read(k, p, p) \in todo[t] => Read(k, p, p) \in left
    BY AttachedFacts
<1> HIDE DEF left
<1> QED
    BY <1>1, <1>2, WhyFacts, SelfByAccount

LEMMA SelfPolicyRead ==
    ASSUME GuardInv, NEW t \in Task, SelfShown(t), Caller[t] \in ServiceAccount, NEW p \in Policy, NEW x \in Holder,
           ReadPolicy(t, p, x), reason'[t] # "self"
    PROVE  SelfShown(t)'
<1>1. PICK why \in {None, "self", "privilege"} : \E left : /\ Learn(t, why, left)
                                                          /\ \A r \in todo[t] \ left : r.of = x \/ r.kind = "policy"
    BY DEF ReadPolicy
<1>2. PICK left : Learn(t, why, left) /\ \A r \in todo[t] \ left : r.of = x \/ r.kind = "policy"
    BY <1>1
<1>3. \A k \in {"target", "accounts"}, q \in Policy : Read(k, q, q) \in todo[t] => Read(k, q, q) \in left
    BY <1>2, ReadFacts, Apart
<1>4. phase[t] = "guard"
    BY DEF ReadPolicy, Asks
<1> QED
    BY <1>2, <1>3, <1>4, SelfByAccount

LEMMA SelfOrigin ==
    ASSUME GuardInv, NEW t \in Task, SelfShown(t), NEW v \in User, ReadOrigin(t, v),
           ~(End(t, "origin") /\ Quiet), reason'[t] # "self"
    PROVE  SelfShown(t)'
<1> DEFINE u == Caller[t]
           r == Read("origin", v, v)
           left == (todo[t] \ {r}) \cup (IF Call(t).op = "ResetUserPassword" THEN {Attached(v)} ELSE {})
<1>1. Learn(t, None, left) /\ phase[t] = "guard"
    BY DEF ReadOrigin, Asks
<1>2. todo'[t] = left /\ UNCHANGED <<service, plan, turn>> /\ Call(t) \in Request
    BY <1>1, LearntSelf, CallFacts DEF GuardInv, Turns
<1>3. \A s \in todo[t] : s \notin todo'[t] => s = r
    BY <1>2
<1>4. \A s \in todo'[t] \ todo[t] : s = Attached(v)
    BY <1>2
<1>k. r.kind = "origin"
    BY ReadFacts
<1> HIDE DEF left, r
<1>5. \A h : Attached(h) \in todo[t] => Attached(h) \in todo'[t]
    BY <1>3, <1>k, AttachedFacts
<1>6. ASSUME NEW h \in Holder, SelfSeen(t, h) PROVE SelfSeen(t, h)'
    BY <1>2, <1>5, <1>6 DEF SelfSeen, service, Attached
<1>7. ASSUME NEW k \in {"target", "groups", "users", "accounts"}, NEW p \in Policy, Read(k, p, p) \in todo[t]
      PROVE  Read(k, p, p) \in todo'[t]
    BY <1>3, <1>7, <1>k, ReadFacts
<1>8. \A s \in todo'[t] \ todo[t] : u \in User /\ s.of = u => s = Attached(u)
    BY <1>4, ReadFacts DEF Attached
<1>9. \A g \in Group : \A p \in Policy : Read("policy", p, g) \notin todo'[t] \ todo[t]
    BY <1>4, AttachedFacts
<1> QED
    BY <1>2, <1>5, <1>6, <1>7, <1>8, <1>9, SelfGrows DEF GuardInv

\* The call's own policy is read: an UpdatePolicy has its three lists to read next.
LEMMA SelfTarget ==
    ASSUME GuardInv, NEW t \in Task, SelfShown(t), Caller[t] \in Principal, ReadTarget(t),
           ~(End(t, "managed") /\ Quiet), reason'[t] # "self"
    PROVE  SelfShown(t)'
<1> DEFINE u == Caller[t]
           c == Call(t)
           r == Read("target", c.policy, c.policy)
           left == (todo[t] \ {r}) \cup (IF c.op \in AttachOps THEN {} ELSE Lists(c.policy))
           why == IF IsPrivilegedChange(c) THEN "privilege" ELSE None
<1>1. Learn(t, why, left) /\ phase[t] = "guard"
    BY DEF ReadTarget, Asks
<1>w. why \in {None, "self", "privilege"}
    OBVIOUS
<1> HIDE DEF why
<1>2. todo'[t] = left /\ UNCHANGED <<service, plan, turn>> /\ c \in Request
    BY <1>1, <1>w, LearntSelf, CallFacts DEF GuardInv, Turns
<1>3. \A s \in todo[t] : s \notin todo'[t] => s = r
    BY <1>2
<1>4. \A s \in todo'[t] \ todo[t] : \E k \in {"groups", "users", "accounts"} : s = Read(k, c.policy, c.policy)
    BY <1>2 DEF Lists
<1>5. c.op = "UpdatePolicy" => \A k \in {"groups", "users", "accounts"} : Read(k, c.policy, c.policy) \in todo'[t]
    BY <1>2 DEF Lists, AttachOps
<1>k. r.kind = "target"
    BY ReadFacts
<1> HIDE DEF left, r
<1>6. \A h : Attached(h) \in todo[t] => Attached(h) \in todo'[t]
    BY <1>3, <1>k, AttachedFacts
<1>7. \A h \in Holder : SelfSeen(t, h) => SelfSeen(t, h)'
    BY <1>2, <1>6 DEF SelfSeen, service, Attached
<1>8. Call(t)' = c /\ c.policy \in Policy /\ u \in Holder
    BY <1>2, RequestFacts, Apart DEF Call
<1>9. c.op = "UpdatePolicy" => SelfListed(t)'
    BY <1>5, <1>8 DEF SelfListed, Read
<1>10. \A s \in todo'[t] \ todo[t] : s.of # u
    BY <1>4, <1>8, ReadFacts, Apart
<1>11. \A g \in Group : \A p \in Policy : Read("policy", p, g) \notin todo'[t] \ todo[t]
    BY <1>4, ReadFacts
<1> QED
    BY <1>2, <1>6, <1>7, <1>9, <1>10, <1>11, SelfHolds DEF GuardInv

\* A list of what a policy is attached to leads to the caller, or is about others.
LEMMA SelfList ==
    ASSUME GuardInv, NEW t \in Task, SelfShown(t), Caller[t] \in Principal,
           NEW kind, NEW of,
           \/ kind = "groups" /\ of = Group
           \/ kind = "users" /\ of = User
           \/ kind = "accounts" /\ of = ServiceAccount,
           ReadList(t, kind, of), ~(End(t, "inUse") /\ Quiet), reason'[t] # "self"
    PROVE  SelfShown(t)'
<1> DEFINE u == Caller[t]
           c == Call(t)
           on == {h \in of : c.policy \in held[h]}
           r == Read(kind, c.policy, c.policy)
           left == (todo[t] \ {r}) \cup {Attached(h) : h \in on}
           why == IF of = ServiceAccount /\ ByAccount(t) /\ on # {} THEN "self" ELSE None
<1>1. Learn(t, why, left) /\ phase[t] = "guard"
    BY DEF ReadList, Asks
<1>w. why \in {None, "self", "privilege"}
    OBVIOUS
<1>2. why # "self" /\ todo'[t] = left /\ UNCHANGED <<service, plan, turn>> /\ c \in Request
    <2> HIDE DEF why
    <2> QED
        BY <1>1, <1>w, LearntSelf, CallFacts DEF GuardInv, Turns
<1>3. \A s \in todo[t] : s \notin todo'[t] => s = r
    BY <1>2
<1>4. \A s \in todo'[t] \ todo[t] : \E h : s = Attached(h)
    BY <1>2
<1>5. \A h \in of : c.policy \in held[h] => Attached(h) \in todo'[t]
    BY <1>2
<1>6. of = ServiceAccount => ~(u \in ServiceAccount /\ c.policy \in held[u])
    BY <1>2 DEF ByAccount
<1>k. r.kind = kind /\ kind \in {"groups", "users", "accounts"}
    BY ReadFacts
<1> HIDE DEF left, r, on, why
<1>7. \A h : Attached(h) \in todo[t] => Attached(h) \in todo'[t]
    BY <1>3, <1>k, AttachedFacts
<1>8. \A h \in Holder : SelfSeen(t, h) => SelfSeen(t, h)'
    BY <1>2, <1>7 DEF SelfSeen, service, Attached
<1>9. Call(t)' = c /\ c.policy \in Policy /\ held' = held /\ members' = members
    BY <1>2, RequestFacts DEF Call, service
<1>a. \A h : Attached(h)' = Attached(h)
    BY DEF Attached
<1>10. ASSUME NEW k, k # kind, Read(k, c.policy, c.policy) \in todo[t] PROVE Read(k, c.policy, c.policy) \in todo'[t]
    BY <1>3, <1>10, <1>k, ReadFacts
<1>11. ASSUME SelfListed(t) PROVE SelfListed(t)'
    <2>1. CASE Read("target", c.policy, c.policy) \in todo[t]
        BY <1>9, <1>10, <1>k, <2>1 DEF SelfListed, Read
    <2>2. CASE Read("target", c.policy, c.policy) \notin todo[t]
        <3>1. u \in ServiceAccount /\ c.policy \in held[u] => Read("accounts", c.policy, c.policy) \in todo'[t]
            BY <1>6, <1>10, <1>11, <2>2 DEF SelfListed
        <3>2. u \in User /\ c.policy \in held[u] => Read("users", c.policy, c.policy) \in todo'[t] \/ Attached(u) \in todo'[t]
            BY <1>5, <1>7, <1>10, <1>11, <2>2 DEF SelfListed
        <3>3. ASSUME NEW g \in Group, u \in members[g], c.policy \in held[g]
              PROVE  Read("groups", c.policy, c.policy) \in todo'[t] \/ SelfSeen(t, g)'
            <4>1. CASE kind = "groups"
                <5>1. Attached(g) \in todo'[t] /\ g # u
                    BY <1>5, <3>3, <4>1, Apart
                <5> QED
                    BY <1>a, <5>1 DEF SelfSeen
            <4>2. CASE kind # "groups"
                BY <1>8, <1>10, <1>11, <2>2, <3>3, <4>2, Apart DEF SelfListed
            <4> QED
                BY <4>1, <4>2
        <3> QED
            BY <1>9, <1>a, <3>1, <3>2, <3>3 DEF SelfListed, Read
    <2> QED
        BY <2>1, <2>2
<1>12. \A s \in todo'[t] \ todo[t] : s.of = u => s = Attached(u)
    BY <1>4, ReadFacts DEF Attached
<1>13. \A g \in Group : \A p \in Policy : Read("policy", p, g) \notin todo'[t] \ todo[t]
    BY <1>4, AttachedFacts
<1> QED
    BY <1>2, <1>7, <1>8, <1>11, <1>12, <1>13, SelfHolds DEF GuardInv, SelfShown

\* A step of a guard reads on, or the call ends.
LEMMA ReadsOrEnds ==
    ASSUME NEW t \in Task, GuardStep(t)
    PROVE  \/ \E why \in {None, "self", "privilege"} : \E left : Learn(t, why, left)
           \/ Refuse(t)
           \/ \E how \in {"inUse", "managed", "origin"} : End(t, how)
<1>1. ASSUME NEW v \in User, FindSelf(t, v) \/ ReadUser(t, v) \/ ReadGroupsOf(t, v)
      PROVE  \E why \in {None, "self", "privilege"} : \E left : Learn(t, why, left)
    BY <1>1, WhyFacts DEF FindSelf, ReadUser, ReadGroupsOf
<1>2. ASSUME NEW v \in User, ReadOrigin(t, v)
      PROVE  (\E left : Learn(t, None, left)) \/ End(t, "origin")
    BY <1>2 DEF ReadOrigin
<1>3. ASSUME NEW s \in ServiceAccount, ReadAccount(t, s)
      PROVE  \E why \in {None, "self", "privilege"} : \E left : Learn(t, why, left)
    BY <1>3, WhyFacts DEF ReadAccount
<1>4. ASSUME NEW g \in Group, ReadGroup(t, g)
      PROVE  \E why \in {None, "self", "privilege"} : \E left : Learn(t, why, left)
    BY <1>4, WhyFacts DEF ReadGroup
<1>5. ASSUME NEW g \in Group, ReadGroupToDelete(t, g)
      PROVE  (\E left : Learn(t, None, left)) \/ End(t, "inUse")
    BY <1>5 DEF ReadGroupToDelete
<1>6. ASSUME NEW p \in Policy, NEW x \in Holder, ReadPolicy(t, p, x)
      PROVE  \E why \in {None, "self", "privilege"} : \E left : Learn(t, why, left)
    BY <1>6 DEF ReadPolicy
<1>7. ASSUME ReadTarget(t)
      PROVE  (\E why \in {None, "self", "privilege"} : \E left : Learn(t, why, left)) \/ End(t, "managed")
    BY <1>7 DEF ReadTarget
<1>8. ASSUME NEW kind, NEW of, ReadList(t, kind, of)
      PROVE  (\E why \in {None, "self", "privilege"} : \E left : Learn(t, why, left)) \/ End(t, "inUse")
    BY <1>8 DEF ReadList
<1> QED
    BY <1>1, <1>2, <1>3, <1>4, <1>5, <1>6, <1>7, <1>8 DEF GuardStep

LEMMA SelfGuardStep ==
    ASSUME GuardInv, NEW t \in Task, Caller[t] \in Principal, reason[t] # "self" => SelfShown(t), GuardStep(t),
           phase'[t] = "guard", reason'[t] # "self"
    PROVE  SelfShown(t)'
<1>1. ASSUME NEW how, End(t, how) PROVE FALSE
    BY <1>1 DEF End, GuardInv, GuardTypeOK
<1>2. PICK why \in {None, "self", "privilege"} : \E left : Learn(t, why, left)
    BY <1>1, ReadsOrEnds DEF Refuse
<1>3. SelfShown(t) /\ why # "self"
    BY <1>2, LearntSelf DEF GuardInv
<1>4. ASSUME NEW v \in User, FindSelf(t, v) PROVE FALSE
    <2>1. Learn(t, "self", {})
        BY <1>4 DEF FindSelf
    <2> QED
        BY <2>1, LearntSelf DEF GuardInv
<1>5. ASSUME NEW s \in ServiceAccount, ReadAccount(t, s) PROVE SelfShown(t)'
    BY <1>3, <1>5, SelfAccount, SelfAccountRead DEF Principal
<1>6. ASSUME NEW p \in Policy, NEW x \in Holder, ReadPolicy(t, p, x) PROVE SelfShown(t)'
    BY <1>3, <1>6, SelfPolicy, SelfPolicyRead DEF Principal
<1>7. CASE ReadList(t, "groups", Group) \/ ReadList(t, "users", User) \/ ReadList(t, "accounts", ServiceAccount)
    BY <1>1, <1>3, <1>7, SelfList
<1>8. CASE ReadTarget(t)
    BY <1>1, <1>3, <1>8, SelfTarget
<1>9. ASSUME NEW v \in User, ReadOrigin(t, v) PROVE SelfShown(t)'
    BY <1>1, <1>3, <1>9, SelfOrigin
<1>10. ASSUME NEW g \in Group, ReadGroupToDelete(t, g) PROVE SelfShown(t)'
    BY <1>1, <1>3, <1>10, SelfGroupToDelete
<1>11. CASE Refuse(t)
    BY <1>1, <1>11 DEF Refuse
<1> QED
    BY <1>3, <1>4, <1>5, <1>6, <1>7, <1>8, <1>9, <1>10, <1>11, SelfUser, SelfGroupsOf, SelfGroup
       DEF GuardStep

-----------------------------------------------------------------------------
LEMMA SelfInvInit == GuardInit => SelfInv
<1> SUFFICES ASSUME GuardInit, NEW t \in Task PROVE CallerOK(t) /\ phase[t] # "guard"
    BY DEF SelfInv
<1>1. phase[t] = "idle"
    BY DEF GuardInit
<1>2. Caller[t] \in Principal => IsProtected(Caller[t])
    BY IamAssumption DEF GuardInit, Protected
<1> QED
    BY <1>1, <1>2 DEF CallerOK

LEMMA SelfInvStep ==
    ASSUME GuardInv, GuardInv', SelfInv, [GuardNext]_guardVars
    PROVE  SelfInv'
<1> SUFFICES ASSUME NEW t \in Task
             PROVE  CallerOK(t)' /\ (phase'[t] = "guard" /\ reason'[t] # "self" => SelfShown(t)')
    BY DEF SelfInv
<1> DEFINE u == Caller[t]
<1>1. CallerOK(t) /\ (phase[t] = "guard" /\ reason[t] # "self" => SelfShown(t))
    BY DEF SelfInv
<1>2. u \in Principal => StaysOut(u) /\ (u \in exists' => IsProtected(u)')
    BY <1>1, CallerStep DEF CallerOK
<1>3. ASSUME phase'[t] # "idle" => u \in Principal PROVE CallerOK(t)'
    BY <1>2, <1>3 DEF CallerOK
<1>4. CASE SameTask(t)
    <2>1. phase'[t] = phase[t] /\ reason'[t] = reason[t]
        BY <1>4 DEF SameTask
    <2>2. phase[t] # "idle" => u \in Principal
        BY <1>1 DEF CallerOK
    <2> QED
        BY <1>1, <1>2, <1>3, <1>4, <2>1, <2>2, SelfKept DEF GuardInv
<1>5. CASE ~SameTask(t)
    <2>1. ASSUME NEW d \in Task, Start(d) \/ GuardStep(d) \/ GuardFails(d) \/ Send(d) \/ Returns(d)
          PROVE  d = t
        BY <1>5, <2>1, StepSame DEF GuardInv
    <2>2. Start(t) \/ GuardStep(t) \/ GuardFails(t) \/ Send(t) \/ Returns(t)
        BY <1>5, <2>1 DEF GuardNext, guardVars, guard, Land, Drop, SameTask
    <2>3. ASSUME NEW how, End(t, how) PROVE phase'[t] = "idle"
        BY <2>3 DEF End, GuardInv, GuardTypeOK
    <2>4. CASE GuardFails(t) \/ Returns(t)
        BY <1>3, <2>3, <2>4 DEF GuardFails, Returns
    <2>5. CASE Send(t)
        <3>1. phase'[t] = "sent" /\ phase[t] = "guard"
            BY <2>5 DEF Send, GuardInv, GuardTypeOK
        <3> QED
            BY <1>1, <1>3, <3>1 DEF CallerOK
    <2>6. CASE Start(t)
        <3>1. phase'[t] = "idle" \/ phase'[t] = "guard"
            BY <2>3, <2>6 DEF Start, GuardInv, GuardTypeOK
        <3> QED
            BY <1>3, <2>6, <3>1, SelfStart
    <2>7. CASE GuardStep(t)
        <3>1. phase[t] = "guard"
            BY <2>7 DEF GuardStep, FindSelf, ReadUser, ReadGroupsOf, ReadOrigin, ReadAccount, ReadGroup,
                        ReadGroupToDelete, ReadPolicy, ReadTarget, ReadList, Refuse, Asks
        <3>2. u \in Principal
            BY <1>1, <3>1 DEF CallerOK
        <3> QED
            BY <1>1, <1>3, <2>7, <3>1, <3>2, SelfGuardStep
    <2> QED
        BY <2>2, <2>4, <2>5, <2>6, <2>7
<1> QED
    BY <1>4, <1>5

LEMMA SelfInvariant == GuardSpec => []SelfInv
<1>1. GuardInv /\ GuardInv' /\ SelfInv /\ [GuardNext]_guardVars => SelfInv'
    BY SelfInvStep
<1> QED
    BY <1>1, SelfInvInit, GuardInvariant, PTL DEF GuardSpec

LEMMA AboutFacts ==
    ASSUME NEW c, NEW x, x \in About(c)
    PROVE  \/ c.op \in AttachOps /\ c.target \in Group /\ x \in members[c.target]
           \/ c.op \in AttachOps /\ c.target \notin Group /\ x = c.target
           \/ c.op \in MemberOps /\ (x = c.member \/ x \in members[c.target])
           \/ c.op = "UpdatePolicy" /\ x \in Principal /\ c.policy \in PoliciesOf(x)
           \/ c.op \in AccountOps \cup UserOps /\ x = c.target
BY DEF About

\* What a guard without a read left of its own caller is not about the caller.
LEMMA NotAboutSelf ==
    ASSUME GuardInv, NEW t \in Task, phase[t] = "guard", Caller[t] \in Principal, SelfShown(t),
           todo[t] \subseteq LastRead(Call(t))
    PROVE  Caller[t] \notin About(Call(t))
<1> DEFINE u == Caller[t]
           c == Call(t)
<1>1. /\ c \in Request /\ c.target \in Holder /\ c.member \in User
      /\ c.op \in UserOps => c.target \in User
      /\ c.op \in AccountOps => c.target \in ServiceAccount
      /\ c.op \in MemberOps => c.target \in Group
    BY CallFacts, RequestFacts DEF GuardInv, Turns
<1>2. \A g \in Group : \A x \in members[g] : x \in User /\ x \notin ServiceAccount
    BY Apart DEF GuardInv, GuardTypeOK
<1>3. \A h : Attached(h) \notin todo[t]
    BY AttachedFacts, ReadFacts DEF LastRead
<1>4. c.op = "UpdatePolicy" => todo[t] = {}
    BY DEF LastRead, AttachOps
<1>5. CASE c.op \in AttachOps /\ c.target \in Group /\ u \in members[c.target]
    BY <1>2, <1>3, <1>5 DEF SelfShown, SelfSeen
<1>6. CASE c.op \in AttachOps /\ u = c.target
    BY <1>3, <1>6 DEF SelfShown, SelfSeen, Principal
<1>7. CASE c.op \in MemberOps /\ (u = c.member \/ u \in members[c.target])
    BY <1>1, <1>2, <1>3, <1>7 DEF SelfShown, SelfSeen
<1>8. CASE c.op = "UpdatePolicy" /\ c.policy \in PoliciesOf(u)
    <2>1. SelfListed(t) /\ todo[t] = {}
        BY <1>4, <1>8 DEF SelfShown
    <2>2. c.policy \notin held[u]
        BY <2>1 DEF SelfListed, Principal
    <2>3. PICK g \in Group : u \in members[g] /\ c.policy \in held[g]
        BY <1>8, <2>2 DEF PoliciesOf, GroupsOf
    <2> QED
        BY <2>1, <2>3 DEF SelfListed, SelfSeen
<1>9. CASE c.op \in AccountOps \cup UserOps /\ u = c.target
    BY <1>1, <1>9 DEF SelfShown
<1> QED
    BY <1>5, <1>6, <1>7, <1>8, <1>9, AboutFacts

LEMMA SelfWinsStep ==
    ASSUME GuardInv, SelfInv, [GuardNext]_guardVars, NEW t \in Task,
           phase[t] = "guard", phase'[t] = "idle", result'[t] = "privileged"
    PROVE  Caller[t] \notin About(Call(t))
<1>1. Start(t) \/ GuardStep(t) \/ GuardFails(t) \/ Send(t) \/ Returns(t)
    <2>1. ASSUME NEW d \in Task, d # t, Start(d) \/ GuardStep(d) \/ GuardFails(d) \/ Send(d) \/ Returns(d)
          PROVE  FALSE
        BY <2>1, StepSame DEF GuardInv, SameTask
    <2> QED
        BY <2>1 DEF GuardNext, guardVars, Land, Drop
<1>2. \A how : End(t, how) => how = "privileged"
    BY DEF End, GuardInv, GuardTypeOK
<1>3. GuardStep(t)
    BY <1>1, <1>2 DEF Start, GuardFails, Send, Returns, GuardInv, GuardTypeOK
<1>4. \A why, left : ~Learn(t, why, left)
    BY DEF Learn
<1>5. Refuse(t)
    BY <1>2, <1>3, <1>4, ReadsOrEnds
<1>6. reason[t] # "self" /\ todo[t] \subseteq LastRead(Call(t))
    BY <1>2, <1>5 DEF Refuse
<1>7. SelfShown(t) /\ Caller[t] \in Principal
    BY <1>6 DEF SelfInv, CallerOK
<1> QED
    BY <1>6, <1>7, NotAboutSelf

\* A call about its own caller is refused as such: a guard that ends with
\* "privileged" has met the caller nowhere, in whatever order its reads were
\* answered and whatever other callers changed between them.
THEOREM SelfCorrect == GuardSpec => SelfWins
<1>1. GuardInv /\ SelfInv /\ [GuardNext]_guardVars
      => [\A t \in Task :
            phase[t] = "guard" /\ phase'[t] = "idle" /\ result'[t] = "privileged"
            => Caller[t] \notin About(Call(t))]_guardVars
    BY SelfWinsStep
<1> QED
    BY <1>1, GuardInvariant, SelfInvariant, PTL DEF GuardSpec, SelfWins
=============================================================================
