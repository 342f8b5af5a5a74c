---------------------------- MODULE ClientProofs ----------------------------
(***************************************************************************)
(* What clients keep between their calls: the token that processes share    *)
(* through a file (TokenCache), and the project one Client works in         *)
(* (ProjectSelection, PriceDiscovery).  The two share no state: each part   *)
(* is about its own specification, for any processes, calls, lists,         *)
(* catalogs and clocks.                                                     *)
(*                                                                          *)
(* OrderInv is inductive under any clock.  ClockInv adds what a process     *)
(* that found the entry unusable may rely on until it writes, which needs   *)
(* the lock, and while the clock has not been set back.                     *)
(***************************************************************************)
EXTENDS TokenCache, PriceDiscovery, FiniteSetTheorems, TLAPS


\* A token on its way to the file is the server's last and newer than the file.
InHandIsLast ==
    \A p \in Proc : pc[p] \in {"answered", "write"} =>
        /\ lost
        /\ fresh[p].tok = last.tok /\ fresh[p].exp = last.exp
        /\ disk.tok < last.tok

\* A failed read is one of this Get's, which logs in since.
UnreadWhileIn == \A p \in Proc : unread[p] => pc[p] \in {"login", "answered", "write"}

OrderInv ==
    /\ LockInv
    /\ UnreadWhileIn
    /\ disk.tok <= last.tok
    /\ InHandIsLast
    /\ RecordedIsLast

\* The reason to log in, found under the lock, stands until the lock is free.
MissStands ==
    \A p \in Proc : pc[p] \in {"login", "answered", "write"} =>
        ~Fresh(disk, rejected[p]) \/ unread[p]

\* Obtain times lie between the login at the server and now.
ObtainTimes ==
    /\ disk.got <= now
    /\ last.at <= now
    /\ \A p \in Proc : pc[p] = "write" => last.at <= fresh[p].got /\ fresh[p].got <= now
    /\ ~lost /\ last.tok # 0 => last.at <= disk.got

LongLived == last.tok # 0 => last.exp >= last.at + 2 * Window

ClockInv == ~setBack => MissStands /\ ObtainTimes /\ LongLived

-----------------------------------------------------------------------------
LEMMA TypeInit == Init => TypeOK
<1>1. NoEntry \in Entry /\ [tok |-> 0, at |-> 0, exp |-> 0] \in [tok : Nat, at : Nat, exp : Nat]
    BY DEF NoEntry, Entry
<1>2. "idle" \in PC
    BY DEF PC
<1> SUFFICES ASSUME Init PROVE TypeOK
    OBVIOUS
<1>3. now \in Nat /\ disk \in Entry /\ lock \in Proc \cup {NoProc} /\ lost \in BOOLEAN /\ setBack \in BOOLEAN
    BY <1>1 DEF Init
<1>4. last \in [tok : Nat, at : Nat, exp : Nat]
    BY <1>1 DEF Init
<1>5. /\ pc \in [Proc -> PC] /\ live \in [Proc -> BOOLEAN] /\ rejected \in [Proc -> Nat]
      /\ unread \in [Proc -> BOOLEAN] /\ served \in [Proc -> BOOLEAN]
    BY <1>2 DEF Init
<1>6. fresh \in [Proc -> Entry] /\ hand \in [Proc -> Entry]
    BY <1>1 DEF Init
<1> QED
    BY <1>3, <1>4, <1>5, <1>6 DEF TypeOK

\* Leaving Get keeps the types of what it resets.
LEMMA LeaveType ==
    ASSUME TypeOK, NEW p \in Proc, NEW ok \in BOOLEAN, Leave(p, ok)
    PROVE  /\ pc' \in [Proc -> PC] /\ rejected' \in [Proc -> Nat] /\ live' \in [Proc -> BOOLEAN]
           /\ unread' \in [Proc -> BOOLEAN] /\ served' \in [Proc -> BOOLEAN]
<1>1. pc' \in [Proc -> PC] /\ rejected' \in [Proc -> Nat]
    BY DEF TypeOK, Leave, Goto, PC
<1>2. live' \in [Proc -> BOOLEAN] /\ unread' \in [Proc -> BOOLEAN]
    BY DEF TypeOK, Leave
<1>3. served' \in [Proc -> BOOLEAN]
    BY Zenon DEF TypeOK, Leave
<1> QED
    BY <1>1, <1>2, <1>3

LEMMA TypeStep == TypeOK /\ [Next]_vars => TypeOK'
<1> SUFFICES ASSUME TypeOK, [Next]_vars PROVE TypeOK'
    OBVIOUS
<1> USE CacheAssumption
<1>p. "lock" \in PC /\ "read" \in PC /\ "login" \in PC /\ "answered" \in PC /\ "write" \in PC
    BY DEF PC, Locked
<1>n. NoEntry \in Entry
    BY DEF NoEntry, Entry
<1>1. CASE UNCHANGED vars
    BY <1>1 DEF vars, TypeOK
<1>2. CASE Tick \/ StepBack
    <2>1. now' \in Nat
        BY <1>2 DEF Tick, StepBack, TypeOK
    <2>2. setBack' \in BOOLEAN
        <3>1. (setBack' = TRUE) \/ (setBack' = setBack)
            BY <1>2 DEF Tick, StepBack
        <3> QED
            BY <3>1 DEF TypeOK
    <2> QED
        BY <1>2, <2>1, <2>2 DEF Tick, StepBack, TypeOK
<1>3. ASSUME NEW p \in Proc, NEW r \in {0, hand[p].tok}, Get(p, r) PROVE TypeOK'
    BY <1>3, <1>p DEF Get, Goto, TypeOK, Entry
<1>4. ASSUME NEW p \in Proc, Crash(p) PROVE TypeOK'
    <2>1. lock' \in Proc \cup {NoProc}
        BY <1>4 DEF Crash, TypeOK
    <2> QED
        BY <1>4, <1>n, <2>1, LeaveType DEF Crash, TypeOK
<1>5. ASSUME NEW p \in Proc, Cancel(p) PROVE TypeOK'
    BY <1>5 DEF Cancel, TypeOK
<1>6. ASSUME NEW p \in Proc, GetStep(p) PROVE TypeOK'
    <2>1. CASE Acquire(p)
        BY <2>1, <1>p DEF Acquire, Goto, TypeOK
    <2>2. CASE AcquireFails(p)
        BY <2>2, LeaveType DEF AcquireFails, TypeOK
    <2>3. CASE Hit(p)
        BY <2>3, LeaveType DEF Hit, Return, TypeOK
    <2>4. CASE Miss(p)
        BY <2>4, <1>p DEF Miss, Goto, TypeOK
    <2>9. CASE ReadFails(p)
        BY <2>9, <1>p DEF ReadFails, Goto, TypeOK
    <2>5. ASSUME NEW life \in Lives, LoginServed(p, life) PROVE TypeOK'
        BY <2>5, <1>p DEF LoginServed, Goto, TypeOK, Entry
    <2>6. CASE GetFails(p)
        BY <2>6, <1>n, LeaveType DEF GetFails, Return, TypeOK
    <2>7. CASE Stamp(p)
        BY <2>7, <1>p DEF Stamp, Goto, TypeOK, Entry
    <2>8. CASE Write(p)
        <3>1. disk' \in Entry
            <4>1. disk' = fresh[p] \/ disk' = disk
                BY <2>8 DEF Write
            <4>2. fresh[p] \in Entry /\ disk \in Entry
                BY DEF TypeOK
            <4> QED
                BY <4>1, <4>2
        <3>3. lost' \in BOOLEAN
            <4>1. (lost' = FALSE) \/ (lost' = lost)
                BY <2>8 DEF Write
            <4> QED
                BY <4>1 DEF TypeOK
        <3>2. hand' \in [Proc -> Entry] /\ fresh' \in [Proc -> Entry]
            BY <2>8, <1>n DEF Write, TypeOK
        <3> QED
            BY <2>8, <3>1, <3>2, <3>3, LeaveType DEF Write, Return, TypeOK
    <2> QED
        BY <1>6, <2>1, <2>2, <2>3, <2>4, <2>5, <2>6, <2>7, <2>8, <2>9 DEF GetStep
<1> QED
    BY <1>1, <1>2, <1>3, <1>4, <1>5, <1>6 DEF Next

\* TypeOK holds of every behaviour of the cache.
THEOREM TypeCorrect == Spec => []TypeOK
BY TypeInit, TypeStep, PTL DEF Spec

-----------------------------------------------------------------------------
LEMMA OrderInit == Init => OrderInv
BY CacheAssumption
   DEF Init, OrderInv, LockInv, Locked, UnreadWhileIn, InHandIsLast, RecordedIsLast, NoEntry

\* Only the holder of the lock touches the file, and only with the last token.
LEMMA OrderStep == TypeOK /\ OrderInv /\ [Next]_vars => OrderInv'
<1> SUFFICES ASSUME TypeOK, OrderInv, [Next]_vars PROVE OrderInv'
    OBVIOUS
<1> USE CacheAssumption
    DEF TypeOK, Entry, OrderInv, LockInv, Locked, UnreadWhileIn, InHandIsLast, RecordedIsLast,
        Goto, Leave, Return
<1>1. CASE UNCHANGED vars
    BY <1>1 DEF vars
<1>2. CASE Tick \/ StepBack
    BY <1>2 DEF Tick, StepBack
<1>3. ASSUME NEW p \in Proc, NEW r \in {0, hand[p].tok}, Get(p, r) PROVE OrderInv'
    BY <1>3 DEF Get
<1>4. ASSUME NEW p \in Proc, Crash(p) \/ Cancel(p) PROVE OrderInv'
    BY <1>4 DEF Crash, Cancel
<1>5. ASSUME NEW p \in Proc, GetStep(p) PROVE OrderInv'
    <2>1. CASE Acquire(p)
        BY <2>1 DEF Acquire
    <2>9. CASE AcquireFails(p)
        BY <2>9 DEF AcquireFails
    <2>2. CASE Hit(p)
        BY <2>2 DEF Hit
    <2>7. CASE Miss(p)
        BY <2>7 DEF Miss
    <2>8. CASE ReadFails(p)
        BY <2>8 DEF ReadFails
    <2>3. ASSUME NEW life \in Lives, LoginServed(p, life) PROVE OrderInv'
        BY <2>3 DEF LoginServed
    <2>4. CASE GetFails(p)
        BY <2>4 DEF GetFails
    <2>5. CASE Stamp(p)
        BY <2>5 DEF Stamp
    <2>6. CASE Write(p)
        BY <2>6 DEF Write
    <2> QED
        BY <1>5, <2>1, <2>2, <2>3, <2>4, <2>5, <2>6, <2>7, <2>8, <2>9 DEF GetStep
<1> QED
    BY <1>1, <1>2, <1>3, <1>4, <1>5 DEF Next

LEMMA OrderCorrect == Spec => [](TypeOK /\ OrderInv)
<1>1. Init => TypeOK /\ OrderInv
    BY TypeInit, OrderInit
<1>2. TypeOK /\ OrderInv /\ [Next]_vars => (TypeOK /\ OrderInv)'
    BY TypeStep, OrderStep
<1> QED
    BY <1>1, <1>2, PTL DEF Spec

\* Read, check, login and write run in one process at a time.
THEOREM LockCorrect == Spec => []LockInv
<1>1. OrderInv => LockInv
    BY DEF OrderInv
<1> QED
    BY <1>1, OrderCorrect, PTL

\* Unless it was lost, the server's last token is the one in the file.
THEOREM RecordedCorrect == Spec => []RecordedIsLast
<1>1. OrderInv => RecordedIsLast
    BY DEF OrderInv
<1> QED
    BY <1>1, OrderCorrect, PTL

\* No process ever writes an older token over a newer one.
THEOREM DiskCorrect == Spec => DiskNeverOlder
<1>1. TypeOK /\ OrderInv /\ [Next]_vars => [disk'.tok >= disk.tok]_vars
    <2> SUFFICES ASSUME TypeOK, OrderInv, [Next]_vars PROVE disk'.tok >= disk.tok
        OBVIOUS
    <2>1. disk.tok \in Nat
        BY DEF TypeOK, Entry
    <2>2. ASSUME NEW p \in Proc, Write(p) PROVE disk'.tok >= disk.tok
        BY <2>1, <2>2 DEF Write, OrderInv, InHandIsLast, TypeOK, Entry
    <2>3. CASE UNCHANGED disk
        BY <2>1, <2>3
    <2> QED
        BY <2>2, <2>3
        DEF Next, GetStep, vars, Tick, StepBack, Get, Crash, Cancel, Acquire, AcquireFails,
            Hit, Miss, ReadFails, LoginServed, GetFails, Stamp
<1> QED
    BY <1>1, OrderCorrect, PTL DEF Spec, DiskNeverOlder

-----------------------------------------------------------------------------
LEMMA ClockInit == Init => ClockInv
BY DEF Init, ClockInv, MissStands, ObtainTimes, LongLived, NoEntry

\* Staleness only grows while the clock moves forward and the file is kept.
LEMMA ClockStep ==
    ASSUME TypeOK, TypeOK', OrderInv, ClockInv, [Next]_vars
    PROVE  ClockInv'
<1> USE CacheAssumption
    DEF ClockInv, MissStands, ObtainTimes, LongLived, TypeOK, Entry, Goto, Leave, Return
<1> USE DEF OrderInv, LockInv, Locked, UnreadWhileIn, InHandIsLast, RecordedIsLast
<1>1. CASE UNCHANGED vars
    BY <1>1 DEF vars, Fresh, Rejectable
<1>2. CASE Tick
    BY <1>2 DEF Tick, Fresh, Rejectable
<1>7. CASE StepBack
    BY <1>7 DEF StepBack
<1>3. ASSUME NEW p \in Proc, NEW r \in {0, hand[p].tok}, Get(p, r) PROVE ClockInv'
    BY <1>3 DEF Get, Fresh, Rejectable
<1>4. ASSUME NEW p \in Proc, Crash(p) PROVE ClockInv'
    BY <1>4 DEF Crash, Fresh, Rejectable
<1>5. ASSUME NEW p \in Proc, Cancel(p) PROVE ClockInv'
    BY <1>5 DEF Cancel, Fresh, Rejectable
<1>6. ASSUME NEW p \in Proc, GetStep(p) PROVE ClockInv'
    <2> USE DEF Fresh, Rejectable
    <2>1. CASE Acquire(p)
        BY <2>1 DEF Acquire
    <2>2. CASE AcquireFails(p)
        BY <2>2 DEF AcquireFails
    <2>3. CASE Hit(p)
        BY <2>3 DEF Hit
    <2>4. CASE Miss(p) \/ ReadFails(p)
        BY <2>4 DEF Miss, ReadFails
    <2>5. ASSUME NEW life \in Lives, LoginServed(p, life) PROVE ClockInv'
        BY <2>5 DEF LoginServed
    <2>6. CASE GetFails(p)
        BY <2>6 DEF GetFails
    <2>7. CASE Stamp(p)
        BY <2>7 DEF Stamp
    <2>8. CASE Write(p)
        BY <2>8 DEF Write
    <2> QED
        BY <1>6, <2>1, <2>2, <2>3, <2>4, <2>5, <2>6, <2>7, <2>8 DEF GetStep
<1> QED
    BY <1>1, <1>2, <1>3, <1>4, <1>5, <1>6, <1>7 DEF Next

LEMMA ClockCorrect == Spec => [](TypeOK /\ OrderInv /\ ClockInv)
<1>1. Init => TypeOK /\ OrderInv /\ ClockInv
    BY TypeInit, OrderInit, ClockInit
<1>2. TypeOK /\ OrderInv /\ ClockInv /\ [Next]_vars => (TypeOK /\ OrderInv /\ ClockInv)'
    BY TypeStep, OrderStep, ClockStep
<1> QED
    BY <1>1, <1>2, PTL DEF Spec

\* Why a login may happen: the entry is not fresh to the process that holds
\* the lock, or it could not read it, and unless the last token was lost the
\* entry is that token.
LEMMA LoginStep ==
    ASSUME ~setBack, TypeOK, OrderInv, ClockInv, [Next]_vars,
           last'.tok # last.tok, last.tok # 0, ~lost
    PROVE  \/ last.exp <= now + Window
           \/ /\ now >= last.at + Window
              /\ \E p \in Proc : lock = p /\ rejected[p] = last.tok
           \/ ReaderFailed
<1>1. PICK p \in Proc : \E life \in Lives : LoginServed(p, life)
    BY DEF Next, GetStep, vars, Tick, StepBack, Get, Crash, Cancel, Acquire, AcquireFails,
           Hit, Miss, ReadFails, GetFails, Stamp, Write
<1>2. pc[p] = "login" /\ lock = p
    BY <1>1 DEF LoginServed, OrderInv, LockInv, Locked
<1>3. ~Fresh(disk, rejected[p]) \/ unread[p]
    BY <1>2 DEF ClockInv, MissStands
<1>4. /\ disk.tok = last.tok /\ disk.exp = last.exp
      /\ last.at <= disk.got /\ disk.got <= now
    BY DEF OrderInv, RecordedIsLast, ClockInv, ObtainTimes
<1>5. CASE ~(disk.exp > now + Window)
    BY <1>4, <1>5, CacheAssumption DEF TypeOK, Entry
<1>6. CASE rejected[p] # 0 /\ disk.tok = rejected[p] /\ Rejectable(disk)
    BY <1>2, <1>4, <1>6, CacheAssumption DEF Rejectable, TypeOK, Entry
<1>7. CASE unread[p]
    BY <1>2, <1>7 DEF ReaderFailed
<1> QED
    BY <1>3, <1>4, <1>5, <1>6, <1>7 DEF Fresh

\* While the clock has not been set back, no two recorded logins of any
\* processes fall inside one TOTP window, but for one by a process that could
\* not read the entry.
THEOREM LoginsApartCorrect == Spec => LoginsApart
<1>1. ASSUME TypeOK, OrderInv, ClockInv, [Next]_vars,
             last'.tok # last.tok, last.tok # 0, ~lost, ~setBack
      PROVE  now >= last.at + Window \/ ReaderFailed
    <2>1. last.exp >= last.at + 2 * Window
        BY <1>1 DEF ClockInv, LongLived
    <2> QED
        BY <1>1, <2>1, LoginStep, CacheAssumption DEF TypeOK
<1>2. TypeOK /\ OrderInv /\ ClockInv /\ [Next]_vars
      => [last'.tok # last.tok /\ last.tok # 0 /\ ~lost /\ ~setBack =>
            now >= last.at + Window \/ ReaderFailed]_vars
    BY <1>1
<1> QED
    BY <1>2, ClockCorrect, PTL DEF Spec, LoginsApart

\* Every further login is owed to an expiry, to a rejection of that token or to
\* a failed read of it.
THEOREM LoginCauseCorrect == Spec => LoginHasCause
<1>1. TypeOK /\ OrderInv /\ ClockInv /\ [Next]_vars
      => [last'.tok # last.tok /\ last.tok # 0 /\ ~lost /\ ~setBack =>
            \/ last.exp <= now + Window
            \/ \E p \in Proc : lock = p /\ rejected[p] = last.tok
            \/ ReaderFailed]_vars
    BY LoginStep
<1> QED
    BY <1>1, ClockCorrect, PTL DEF Spec, LoginHasCause

-----------------------------------------------------------------------------
\* Under the lock, what readFresh decides is what the abstract cell decides.
LEMMA FreshIsGood ==
    ASSUME TypeOK, NEW p \in Proc
    PROVE  Fresh(disk, rejected[p]) <=> Cell!Good(disk, rejected[p])
BY DEF Fresh, Rejectable, Cell!Good

\* Each step is one step of the cell, or leaves it as it is.
LEMMA CellStep ==
    ASSUME TypeOK, OrderInv, ClockInv, [Next]_vars
    PROVE  [Cell!Next]_(Cell!vars)
<1> USE DEF Cell!Next, Cell!vars, Cell!Answered, Leave, Return, Goto
<1>1. CASE UNCHANGED vars
    BY <1>1 DEF vars
<1>2. CASE Tick
    BY <1>2 DEF Tick, Cell!Tick
<1>7. CASE StepBack
    <2>1. now' \in Nat /\ now' < now
        BY <1>7 DEF StepBack, TypeOK
    <2>2. (setBack' = TRUE) /\ UNCHANGED <<disk, rejected, unread, served, hand>>
        BY <1>7 DEF StepBack
    <2> QED
        BY <2>1, <2>2 DEF Cell!StepBack
<1>3. ASSUME NEW p \in Proc, NEW r \in {0, hand[p].tok}, Get(p, r) PROVE Cell!Next
    BY <1>3 DEF Get, Cell!Ask
<1>4. ASSUME NEW p \in Proc, Crash(p) PROVE Cell!Next
    BY <1>4 DEF Crash, Cell!Crash, NoEntry, Cell!NoEntry
<1>5. ASSUME NEW p \in Proc, Cancel(p) PROVE UNCHANGED Cell!vars
    BY <1>5 DEF Cancel
<1>6. ASSUME NEW p \in Proc, GetStep(p) PROVE [Cell!Next]_(Cell!vars)
    <2>1. CASE AcquireFails(p)
        BY <2>1 DEF AcquireFails, Cell!GiveUp
    <2>2. CASE GetFails(p)
        BY <2>2 DEF GetFails, Cell!GiveUp
    <2>3. CASE Hit(p)
        <3>1. Cell!Good(disk, rejected[p]) /\ ~unread[p]
            BY <2>3, FreshIsGood DEF Hit, OrderInv, UnreadWhileIn
        <3> QED
            BY <2>3, <3>1 DEF Hit, Cell!Serve
    <2>6. CASE ReadFails(p)
        BY <2>6 DEF ReadFails, Cell!CannotRead
    <2>4. CASE Write(p)
        <3>1. ~Cell!Good(disk, rejected[p]) \/ setBack \/ unread[p]
            BY <2>4, FreshIsGood DEF Write, ClockInv, MissStands
        <3>2. hand'[p] = fresh[p] /\ hand'[p] \in Cell!Entry
            BY <2>4 DEF Write, TypeOK, Entry, Cell!Entry
        <3>3. hand'[p].tok > disk.tok
            BY <2>4, <3>2 DEF Write, OrderInv, InHandIsLast, TypeOK, Entry
        <3>4. hand' = [hand EXCEPT ![p] = hand'[p]] /\ (disk' = disk \/ disk' = hand'[p])
            BY <2>4, <3>2 DEF Write
        <3>5. Cell!Answered(p, TRUE) /\ UNCHANGED <<now, setBack>>
            BY <2>4 DEF Write
        <3> QED
            BY <3>1, <3>2, <3>3, <3>4, <3>5 DEF Cell!Renew
    <2>5. CASE UNCHANGED <<now, disk, rejected, unread, served, hand, setBack>>
        BY <2>5
    <2> QED
        BY <1>6, <2>1, <2>2, <2>3, <2>4, <2>5, <2>6
        DEF GetStep, Acquire, Miss, LoginServed, Stamp
<1> QED
    BY <1>1, <1>2, <1>3, <1>4, <1>5, <1>6, <1>7 DEF Next

\* The flock, the temp file and the rename implement one atomic shared cell.
THEOREM Implements == Spec => SharedTokenSpec
<1>1. Init => Cell!Init
    BY DEF Init, Cell!Init, NoEntry, Cell!NoEntry
<1>2. TypeOK /\ OrderInv /\ ClockInv /\ [Next]_vars => [Cell!Next]_(Cell!vars)
    BY CellStep
<1> QED
    BY <1>1, <1>2, ClockCorrect, PTL DEF Spec, SharedTokenSpec, Cell!Spec

-----------------------------------------------------------------------------
(* The project of a Client and the listing of prices.  BudgetAt says that a    *)
(* session has the requests left for the quotes it goes into, PricedAt what a  *)
(* call without a failure has read, made rows of and priced at each point of   *)
(* its way, Selects how a step may touch the project of the Client.            *)

Early == {"list", "lock", "locked", "zones", "volume_type_zones", "encryption_types"}
Stages == Early \cup {"types", "finish", "quote", "done"}
Outcome == {"none", "ok", "error", "notFound", "ambiguous", "complete", "partial"}

SelectionOK ==
    /\ plan \in Plans /\ projects \in Lists
    /\ projectID \in Project \cup {NoProject}
    /\ list \in [Call -> Lists \cup {{}}]
    /\ stage \in [Call -> Stages] /\ result \in [Call -> Outcome]
    /\ got \in [Call -> Project \cup {NoProject}]

ListingOK ==
    /\ requests \in [Call -> Nat] /\ rows \in [Call -> 0..MaxRows] /\ terminal \in [Call -> BOOLEAN]
    /\ reading \in [Call -> SUBSET Parent] /\ items \in [Call -> SUBSET Everything]
    /\ groups \in [Call -> SUBSET Body] /\ priced \in [Call -> SUBSET Body]
    /\ errs \in [Call -> BOOLEAN] /\ refused \subseteq Call

\* Rows of every volume type zone but those still to be read.
RowsBut(zones) == UNION {RowsIn(p) : p \in Parent \ zones}

BudgetAt(c) == c \in DOMAIN plan =>
    /\ requests[c] <= plan[c].max
    /\ stage[c] = "quote" => IsFiniteSet(groups[c]) /\ Cardinality(groups[c]) + requests[c] <= plan[c].max

PricedAt(c) ==
    /\ stage[c] # "done" => c \in DOMAIN plan /\ result[c] = "none"
    /\ stage[c] \in Early => reading[c] = Parent /\ items[c] = {} /\ ~errs[c]
    /\ stage[c] = "types" /\ ~errs[c] => items[c] = RowsBut(reading[c])
    /\ stage[c] = "finish" => errs[c]
    /\ stage[c] = "quote" /\ ~errs[c] => items[c] = Everything /\ Bodies(c) \subseteq groups[c] \cup priced[c]
    /\ result[c] = "complete" => items[c] = Everything /\ Bodies(c) \subseteq priced[c]

ListingInv ==
    /\ SelectionOK /\ ListingOK /\ refused = {}
    /\ \A c \in Call : BudgetAt(c) /\ PricedAt(c)

-----------------------------------------------------------------------------
LEMMA PlanFacts ==
    ASSUME SelectionOK, NEW c \in DOMAIN plan
    PROVE  c \in Call /\ plan[c].max \in Nat
BY SelectionAssumption DEF SelectionOK, Plan

\* The bodies of all rows are finitely many.
LEMMA FiniteBodies ==
    ASSUME ListingOK, NEW c \in Call
    PROVE  IsFiniteSet(Bodies(c)) /\ Bodies(c) \subseteq Body
<1> DEFINE all == UNION {BodiesOf[p] : p \in Parent}
           f == [p \in Parent |-> BodiesOf[p]]
<1>1. IsFiniteSet({BodiesOf[p] : p \in Parent})
    <2>1. f \in Surjection(Parent, {BodiesOf[p] : p \in Parent})
        BY DEF Surjection
    <2> QED
        BY <2>1, DiscoveryAssumption, FS_Surjection
<1>2. IsFiniteSet(all)
    BY <1>1, DiscoveryAssumption, FS_UNION
<1>3. \A r \in Everything : r[2] \in all /\ r[2] \in Body
    BY DiscoveryAssumption DEF Everything, RowsIn
<1>4. Bodies(c) \subseteq all /\ Bodies(c) \subseteq Body
    BY <1>3 DEF Bodies, ListingOK
<1> QED
    BY <1>2, <1>4, FS_Subset

LEMMA RowCount ==
    ASSUME NEW p \in Parent
    PROVE  /\ Cardinality(BodiesOf[p]) \in Nat /\ Cardinality(RowsIn(p)) = Cardinality(BodiesOf[p])
           /\ \A r \in SUBSET RowsIn(p) : Cardinality(r) \in Nat
           /\ RowsIn(p) \subseteq Everything
<1>1. IsFiniteSet({p}) /\ Cardinality({p}) = 1 /\ IsFiniteSet(BodiesOf[p])
    BY FS_Singleton, DiscoveryAssumption
<1>2. IsFiniteSet(RowsIn(p)) /\ Cardinality(RowsIn(p)) = 1 * Cardinality(BodiesOf[p])
    BY <1>1, FS_Product DEF RowsIn
<1>3. Cardinality(BodiesOf[p]) \in Nat
    BY <1>1, FS_CardinalityType
<1>4. \A r \in SUBSET RowsIn(p) : Cardinality(r) \in Nat
    BY <1>2, FS_Subset, FS_CardinalityType
<1>5. RowsIn(p) \subseteq Everything
    BY DEF Everything
<1> QED
    BY <1>2, <1>3, <1>4, <1>5

LEMMA ListingInit == DiscoveryInit => ListingInv
<1> SUFFICES ASSUME DiscoveryInit PROVE ListingInv
    OBVIOUS
<1>1. SelectionOK
    BY SelectionAssumption DEF DiscoveryInit, SelectionInit, SelectionOK, Stages, Early, Outcome
<1>2. ListingOK /\ refused = {}
    BY DiscoveryAssumption DEF DiscoveryInit, ListingOK
<1>3. \A c \in DOMAIN plan : c \in Call /\ plan[c].max \in Nat
    BY <1>1, PlanFacts
<1>4. \A c \in Call : BudgetAt(c)
    BY <1>3 DEF DiscoveryInit, SelectionInit, BudgetAt
<1>5. \A c \in Call : PricedAt(c)
    BY DEF DiscoveryInit, SelectionInit, PricedAt, Early
<1> QED
    BY <1>1, <1>2, <1>4, <1>5 DEF ListingInv

-----------------------------------------------------------------------------
\* What no step of another call changes.
Stands(d) ==
    /\ stage'[d] = stage[d] /\ result'[d] = result[d]
    /\ requests'[d] = requests[d] /\ reading'[d] = reading[d] /\ items'[d] = items[d]
    /\ groups'[d] = groups[d] /\ priced'[d] = priced[d] /\ errs'[d] = errs[d]

LEMMA StandsKept ==
    ASSUME ListingInv, NEW d \in Call, plan' = plan, Stands(d)
    PROVE  BudgetAt(d)' /\ PricedAt(d)'
BY DEF ListingInv, Stands, BudgetAt, PricedAt, Bodies

\* A step of c alone that keeps what is known of c.
Good(c) ==
    /\ SelectionOK' /\ ListingOK' /\ refused' = {} /\ plan' = plan
    /\ BudgetAt(c)' /\ PricedAt(c)'
    /\ \A d \in Call \ {c} : Stands(d)

LEMMA EndType ==
    ASSUME SelectionOK, NEW c \in Call, NEW r \in Outcome, NEW p \in Project \cup {NoProject}, EndCall(c, r, p)
    PROVE  /\ stage' \in [Call -> Stages] /\ result' \in [Call -> Outcome] /\ got' \in [Call -> Project \cup {NoProject}]
           /\ stage'[c] = "done" /\ result'[c] = r
           /\ \A d \in Call \ {c} : stage'[d] = stage[d] /\ result'[d] = result[d]
BY DEF SelectionOK, EndCall, Stages

LEMMA MoveType ==
    ASSUME SelectionOK, NEW c \in Call, NEW where \in Stages, MoveTo(c, where)
    PROVE  /\ stage' \in [Call -> Stages] /\ result' \in [Call -> Outcome] /\ got' \in [Call -> Project \cup {NoProject}]
           /\ stage'[c] = where /\ result'[c] = result[c]
           /\ \A d \in Call \ {c} : stage'[d] = stage[d] /\ result'[d] = result[d]
BY DEF SelectionOK, MoveTo

LEMMA JSONStep ==
    ASSUME ListingInv, NEW c \in DOMAIN plan, NEW a, DoJSON(c, a)
    PROVE  /\ a \in Answer
           /\ requests' \in [Call -> Nat] /\ terminal' \in [Call -> BOOLEAN]
           /\ \A d \in Call \ {c} : requests'[d] = requests[d]
           /\ requests'[c] <= requests[c] + 1 /\ requests'[c] <= plan[c].max
           /\ a = "limit" => requests[c] + 1 > plan[c].max
<1>1. c \in Call /\ plan[c].max \in Nat /\ requests \in [Call -> Nat] /\ requests[c] <= plan[c].max
    BY PlanFacts DEF ListingInv, ListingOK, BudgetAt
<1>2. terminal' \in [Call -> BOOLEAN]
    BY <1>1 DEF DoJSON, ListingInv, ListingOK
<1>3. CASE UNCHANGED requests /\ a \in {"fatal", "limit"} /\ (a = "limit" => ~Preflight(c, 1))
    BY <1>1, <1>2, <1>3 DEF Preflight, Answer
<1>4. CASE Preflight(c, 1) /\ a \in {"ok", "failed", "fatal"} /\ requests' = [requests EXCEPT ![c] = @ + 1]
    <2>1. requests' = [requests EXCEPT ![c] = requests[c] + 1] /\ requests[c] + 1 \in Nat
        BY <1>1, <1>4
    <2>2. 1 + requests[c] <= plan[c].max
        BY <1>4 DEF Preflight
    <2> QED
        BY <1>1, <1>2, <1>4, <2>1, <2>2 DEF Answer
<1> QED
    BY <1>3, <1>4 DEF DoJSON

LEMMA ReadStep ==
    ASSUME ListingInv, NEW c \in DOMAIN plan, NEW n \in Nat, NEW answer, Read(c, n, answer)
    PROVE  /\ answer \in Answer /\ rows' \in [Call -> 0..MaxRows]
           /\ requests' \in [Call -> Nat] /\ terminal' \in [Call -> BOOLEAN]
           /\ \A d \in Call \ {c} : requests'[d] = requests[d]
           /\ requests'[c] <= plan[c].max
<1>1. PICK a \in Answer : /\ DoJSON(c, a)
                          /\ \/ a = "ok" /\ Fits(c, n) /\ answer = "ok" /\ AddRows(c, n)
                             \/ answer \in {"limit", a} /\ UNCHANGED rows
    BY DEF Read
<1>2. c \in Call /\ rows \in [Call -> 0..MaxRows]
    BY PlanFacts DEF ListingInv, ListingOK
<1>3. rows' \in [Call -> 0..MaxRows]
    <2>1. CASE Fits(c, n) /\ AddRows(c, n)
        <3>1. rows' = [rows EXCEPT ![c] = rows[c] + n] /\ rows[c] + n <= MaxRows
            BY <2>1 DEF Fits, AddRows
        <3>2. rows[c] + n \in 0..MaxRows
            BY <1>2, <3>1, DiscoveryAssumption
        <3> QED
            BY <1>2, <3>1, <3>2
    <2> QED
        BY <1>1, <1>2, <2>1
<1> QED
    BY <1>1, <1>3, JSONStep DEF Answer

-----------------------------------------------------------------------------
\* An ended call that is not complete is fine, whatever it had.
LEMMA EndGood ==
    ASSUME ListingInv, NEW c \in DOMAIN plan, NEW r \in Outcome \ {"complete"}, NEW p \in Project \cup {NoProject},
           EndCall(c, r, p), plan' = plan, requests'[c] <= plan[c].max
    PROVE  BudgetAt(c)' /\ PricedAt(c)'
<1>1. stage'[c] = "done" /\ result'[c] = r
    BY EndType, PlanFacts DEF ListingInv
<1> QED
    BY <1>1 DEF BudgetAt, PricedAt, Early

\* A step ahead of the listing, or within the reads of the catalog.
LEMMA EarlyGood ==
    ASSUME ListingInv, NEW c \in DOMAIN plan, NEW w \in Early \cup {"types"}, stage[c] \in Early, MoveTo(c, w),
           plan' = plan, requests'[c] <= plan[c].max, UNCHANGED listing
    PROVE  BudgetAt(c)' /\ PricedAt(c)'
<1>1. stage'[c] = w /\ result'[c] = result[c] /\ c \in Call
    BY MoveType, PlanFacts DEF ListingInv, Stages
<1>2. reading'[c] = Parent /\ items'[c] = {} /\ ~errs'[c] /\ result'[c] = "none"
    BY <1>1 DEF ListingInv, PricedAt, listing, Early
<1>3. RowsBut(Parent) = {}
    BY DEF RowsBut
<1> QED
    BY <1>1, <1>2, <1>3 DEF BudgetAt, PricedAt, Early

LEMMA SelectionGood ==
    ASSUME ListingInv, NEW c \in Call, UNCHANGED <<session, listing, refused>>,
           ListProjects(c) \/ Lock(c) \/ RequireProjectID(c) \/ RequireProject(c)
    PROVE  Good(c)
<1>1. c \in DOMAIN plan /\ stage[c] \in Early /\ plan' = plan
    BY DEF ListProjects, Lock, RequireProjectID, RequireProject, HoldsMu, ListingInv, PricedAt, Early
<1>2. projects' = projects /\ list' \in [Call -> Lists \cup {{}}]
    BY DEF ListProjects, Lock, RequireProjectID, RequireProject, ListingInv, SelectionOK
<1>3. \A l \in Lists \cup {{}} : \A e \in l : e.id \in Project
    BY SelectionAssumption DEF ListedProject
<1>4. /\ \A e : e \in list[c] \cup projects => e.id \in Project
      /\ projectID \in Project \cup {NoProject}
    BY <1>3 DEF ListingInv, SelectionOK
<1>5. projectID' \in Project \cup {NoProject}
    BY <1>4 DEF ListProjects, Lock, RequireProjectID, RequireProject, Choose, Select, client
<1>6. \/ \E w \in {"lock", "locked", "zones"} : MoveTo(c, w)
      \/ \E r \in Outcome \ {"complete"}, p \in Project \cup {NoProject} : EndCall(c, r, p)
    BY <1>4 DEF ListProjects, Lock, RequireProjectID, RequireProject, Choose, Outcome
<1>7. requests'[c] <= plan[c].max /\ UNCHANGED listing
    BY <1>1 DEF ListingInv, BudgetAt, session
<1>8. BudgetAt(c)' /\ PricedAt(c)'
    BY <1>1, <1>6, <1>7, EndGood, EarlyGood DEF Early
<1>9. SelectionOK' /\ \A d \in Call \ {c} : stage'[d] = stage[d] /\ result'[d] = result[d]
    <2>1. /\ stage' \in [Call -> Stages] /\ result' \in [Call -> Outcome] /\ got' \in [Call -> Project \cup {NoProject}]
          /\ \A d \in Call \ {c} : stage'[d] = stage[d] /\ result'[d] = result[d]
        BY <1>6, EndType, MoveType DEF ListingInv, Stages, Early
    <2> QED
        BY <1>1, <1>2, <1>5, <2>1 DEF SelectionOK, ListingInv
<1> QED
    BY <1>1, <1>8, <1>9 DEF Good, ListingInv, ListingOK, session, listing, Stands

\* The parts of a step of c that only writes the listing and the session of c.
LEMMA GoodParts ==
    ASSUME ListingInv, NEW c \in Call, c \in DOMAIN plan, plan' = plan, projects' = projects, list' = list,
           projectID' = projectID, refused' = {}, ListingOK',
           \/ \E w \in Stages : MoveTo(c, w)
           \/ \E r \in Outcome, p \in Project \cup {NoProject} : EndCall(c, r, p),
           \A d \in Call \ {c} :
               /\ requests'[d] = requests[d] /\ reading'[d] = reading[d] /\ items'[d] = items[d]
               /\ groups'[d] = groups[d] /\ priced'[d] = priced[d] /\ errs'[d] = errs[d],
           BudgetAt(c)', PricedAt(c)'
    PROVE  Good(c)
<1>1. /\ stage' \in [Call -> Stages] /\ result' \in [Call -> Outcome] /\ got' \in [Call -> Project \cup {NoProject}]
      /\ \A d \in Call \ {c} : stage'[d] = stage[d] /\ result'[d] = result[d]
    BY EndType, MoveType DEF ListingInv
<1> QED
    BY <1>1 DEF Good, SelectionOK, ListingInv, Stands

LEMMA RequireGood ==
    ASSUME ListingInv, NEW c \in Call, RequireDiscoveryProjectID(c)
    PROVE  Good(c)
<1>1. c \in DOMAIN plan /\ stage[c] \in Early /\ plan' = plan /\ projects' = projects /\ list' = list /\ UNCHANGED <<listing, refused>>
    BY DEF RequireDiscoveryProjectID, HoldsMu, ListingInv, PricedAt, Early
<1>2. Cardinality(projects) \in Nat /\ \A e \in projects : e.id \in Project
    BY SelectionAssumption, FS_CardinalityType DEF ListingInv, SelectionOK, ListedProject
<1>3. /\ projectID' \in Project \cup {NoProject}
      /\ \/ MoveTo(c, "zones")
         \/ \E r \in Outcome \ {"complete"}, p \in Project \cup {NoProject} : EndCall(c, r, p)
      /\ UNCHANGED session \/ \E a \in Answer : Read(c, Cardinality(projects), a)
    BY <1>2 DEF RequireDiscoveryProjectID, Choose, Select, client, Outcome, ListingInv, SelectionOK
<1>4. /\ rows' \in [Call -> 0..MaxRows] /\ requests' \in [Call -> Nat] /\ terminal' \in [Call -> BOOLEAN]
      /\ \A d \in Call \ {c} : requests'[d] = requests[d]
      /\ requests'[c] <= plan[c].max
    <2>1. CASE UNCHANGED session
        BY <1>1, <2>1 DEF session, ListingInv, ListingOK, BudgetAt
    <2> QED
        BY <1>1, <1>2, <1>3, <2>1, ReadStep
<1>5. BudgetAt(c)' /\ PricedAt(c)'
    BY <1>1, <1>3, <1>4, EndGood, EarlyGood DEF Early
<1>6. SelectionOK' /\ \A d \in Call \ {c} : stage'[d] = stage[d] /\ result'[d] = result[d]
    <2>1. /\ stage' \in [Call -> Stages] /\ result' \in [Call -> Outcome] /\ got' \in [Call -> Project \cup {NoProject}]
          /\ \A d \in Call \ {c} : stage'[d] = stage[d] /\ result'[d] = result[d]
        BY <1>3, EndType, MoveType DEF ListingInv, Stages, Early
    <2> QED
        BY <1>1, <1>3, <2>1 DEF SelectionOK, ListingInv
<1> QED
    BY <1>1, <1>4, <1>5, <1>6 DEF Good, ListingInv, ListingOK, listing, Stands

LEMMA CatalogGood ==
    ASSUME ListingInv, NEW c \in Call, ReadCatalog(c)
    PROVE  Good(c)
<1>1. /\ c \in DOMAIN plan /\ stage[c] \in Early /\ plan' = plan /\ projects' = projects /\ list' = list
      /\ projectID' = projectID /\ UNCHANGED <<listing, refused>>
      /\ stage[c] \in {"zones", "volume_type_zones", "encryption_types"}
    BY DEF ReadCatalog, After, Elsewhere, client, ListingInv, PricedAt, Early
<1>2. RowsOf(stage[c]) \in Nat
    BY DiscoveryAssumption, FS_CardinalityType DEF RowsOf
<1>3. PICK a \in Answer : /\ Read(c, RowsOf(stage[c]), a)
                          /\ IF a = "ok" THEN MoveTo(c, After[stage[c]]) ELSE EndCall(c, "error", projectID)
    BY DEF ReadCatalog
<1>4. /\ rows' \in [Call -> 0..MaxRows] /\ requests' \in [Call -> Nat] /\ terminal' \in [Call -> BOOLEAN]
      /\ \A d \in Call \ {c} : requests'[d] = requests[d]
      /\ requests'[c] <= plan[c].max
    BY <1>1, <1>2, <1>3, ReadStep
<1>5. After[stage[c]] \in Early \cup {"types"}
    BY <1>1 DEF After, Early
<1>6. BudgetAt(c)' /\ PricedAt(c)'
    BY <1>1, <1>3, <1>4, <1>5, EndGood, EarlyGood DEF Outcome, ListingInv, SelectionOK
<1>7. \/ \E w \in Stages : MoveTo(c, w)
      \/ \E r \in Outcome, p \in Project \cup {NoProject} : EndCall(c, r, p)
    BY <1>3, <1>5 DEF Stages, Outcome, ListingInv, SelectionOK
<1>8. ListingOK' /\ refused' = {}
    BY <1>1, <1>4 DEF ListingInv, ListingOK, listing
<1> QED
    BY <1>1, <1>4, <1>6, <1>7, <1>8, GoodParts DEF listing

-----------------------------------------------------------------------------
\* What Finish and GivesUp end a call with.
LEMMA FinishEnds ==
    ASSUME ListingInv, NEW c \in Call, NEW failures \in BOOLEAN, Finish(c, failures)
    PROVE  \E r \in Outcome : EndCall(c, r, projectID) /\ (r = "complete" => ~failures)
BY DEF Finish, Outcome

LEMMA TypesGood ==
    ASSUME ListingInv, NEW c \in Call, NEW p \in Parent, ReadTypes(c, p)
    PROVE  Good(c)
<1> DEFINE n == Cardinality(BodiesOf[p])
<1>1. /\ c \in DOMAIN plan /\ stage[c] = "types" /\ plan' = plan /\ projects' = projects /\ list' = list
      /\ projectID' = projectID /\ projectID \in Project \cup {NoProject} /\ UNCHANGED <<groups, priced, refused>>
      /\ p \in reading[c] /\ reading' = [reading EXCEPT ![c] = reading[c] \ {p}] /\ result[c] = "none"
    BY DEF ReadTypes, Elsewhere, client, ListingInv, SelectionOK, PricedAt
<1>2. PICK a \in Answer :
         /\ DoJSON(c, a)
         /\ \/ \E read \in Answer :
                 /\ GivesUp(c) \/ (Record(c, read) /\ IF Stops(read) THEN Finish(c, TRUE) ELSE MoveTo(c, "types"))
                 /\ UNCHANGED <<items, rows>>
            \/ \E r \in SUBSET RowsIn(p) :
                 /\ items' = [items EXCEPT ![c] = items[c] \cup r] /\ AddRows(c, n + Cardinality(r))
                 /\ \/ /\ r = RowsIn(p) /\ Fits(c, 2 * n)
                       /\ MoveTo(c, "types") /\ UNCHANGED errs
                    \/ /\ rows[c] + n + Cardinality(r) = MaxRows /\ ~Fits(c, 2 * n)
                       /\ GivesUp(c) \/ (Record(c, "limit") /\ MoveTo(c, "finish"))
    BY DEF ReadTypes, Answer
<1> HIDE DEF n
<1>3. /\ requests' \in [Call -> Nat] /\ terminal' \in [Call -> BOOLEAN]
      /\ \A d \in Call \ {c} : requests'[d] = requests[d]
      /\ requests'[c] <= plan[c].max
    BY <1>1, <1>2, JSONStep
<1>4. errs' = errs \/ errs' = [errs EXCEPT ![c] = TRUE]
    BY <1>2 DEF GivesUp, Record
<1>5. items' = items \/ \E r \in SUBSET RowsIn(p) : items' = [items EXCEPT ![c] = items[c] \cup r]
    BY <1>2
<1>6. rows' \in [Call -> 0..MaxRows]
    <2>1. CASE UNCHANGED rows
        BY <2>1 DEF ListingInv, ListingOK
    <2>2. ASSUME NEW r \in SUBSET RowsIn(p), AddRows(c, n + Cardinality(r)),
                 \/ r = RowsIn(p) /\ Fits(c, 2 * n)
                 \/ rows[c] + n + Cardinality(r) = MaxRows
          PROVE  rows' \in [Call -> 0..MaxRows]
        <3>1. n \in Nat /\ Cardinality(r) \in Nat /\ Cardinality(RowsIn(p)) = n /\ rows[c] \in Nat
            BY RowCount, DiscoveryAssumption DEF n, ListingInv, ListingOK
        <3>2. rows[c] + (n + Cardinality(r)) \in 0..MaxRows
            BY <2>2, <3>1, DiscoveryAssumption DEF Fits
        <3> QED
            BY <2>2, <3>2 DEF AddRows, ListingInv, ListingOK
    <2> QED
        BY <1>2, <2>1, <2>2
<1>7. RowsIn(p) \subseteq Everything
    BY RowCount
<1>8. ListingOK' /\ refused' = {}
    <2>1. items' \in [Call -> SUBSET Everything]
        BY <1>5, <1>7 DEF ListingInv, ListingOK
    <2>2. errs' \in [Call -> BOOLEAN]
        BY <1>4 DEF ListingInv, ListingOK
    <2>3. reading' \in [Call -> SUBSET Parent]
        BY <1>1 DEF ListingInv, ListingOK
    <2> QED
        BY <1>1, <1>3, <1>6, <2>1, <2>2, <2>3 DEF ListingInv, ListingOK
<1>9. \/ \E r \in Outcome \ {"complete"} : EndCall(c, r, projectID)
      \/ MoveTo(c, "types") /\ errs'[c]
      \/ MoveTo(c, "finish") /\ errs'[c]
      \/ MoveTo(c, "types") /\ errs' = errs /\ items'[c] = items[c] \cup RowsIn(p)
    BY <1>2, FinishEnds DEF GivesUp, Record, Outcome, ListingInv, ListingOK
<1>10. BudgetAt(c)' /\ PricedAt(c)'
    <2>1. CASE \E r \in Outcome \ {"complete"} : EndCall(c, r, projectID)
        BY <1>1, <1>3, <2>1, EndGood
    <2>2. ASSUME NEW w \in {"types", "finish"}, MoveTo(c, w),
                 errs'[c] \/ (w = "types" /\ errs' = errs /\ items'[c] = items[c] \cup RowsIn(p))
          PROVE  BudgetAt(c)' /\ PricedAt(c)'
        <3>1. stage'[c] = w /\ result'[c] = "none"
            BY <1>1, <2>2, MoveType DEF ListingInv, Stages
        <3>2. BudgetAt(c)'
            BY <1>1, <1>3, <2>2, <3>1 DEF BudgetAt
        <3>3. reading'[c] = reading[c] \ {p} /\ reading[c] \subseteq Parent
            BY <1>1 DEF ListingInv, ListingOK
        <3>4. RowsBut(reading[c] \ {p}) = RowsBut(reading[c]) \cup RowsIn(p)
            BY <1>1, <3>3 DEF RowsBut
        <3>5. ~errs'[c] => items'[c] = RowsBut(reading[c] \ {p})
            BY <1>1, <2>2, <3>4 DEF ListingInv, PricedAt
        <3> QED
            BY <1>1, <2>2, <3>1, <3>2, <3>3, <3>5 DEF PricedAt, Early
    <2> QED
        BY <1>9, <2>1, <2>2
<1>11. \/ \E w \in Stages : MoveTo(c, w)
       \/ \E r \in Outcome, q \in Project \cup {NoProject} : EndCall(c, r, q)
    BY <1>1, <1>9 DEF Stages
<1> QED
    BY <1>1, <1>3, <1>4, <1>5, <1>8, <1>10, <1>11, GoodParts DEF ListingInv, ListingOK

LEMMA FinishGood ==
    ASSUME ListingInv, NEW c \in Call, FinishRows(c) \/ LastQuote(c)
    PROVE  Good(c)
<1>1. /\ c \in DOMAIN plan /\ stage[c] \in {"finish", "quote"} /\ plan' = plan /\ projects' = projects /\ list' = list
      /\ projectID' = projectID /\ projectID \in Project \cup {NoProject} /\ UNCHANGED <<session, listing, refused>>
      /\ Finish(c, errs[c]) /\ errs[c] \in BOOLEAN
      /\ stage[c] = "quote" => groups[c] = {}
    BY DEF FinishRows, LastQuote, Elsewhere, client, ListingInv, SelectionOK, ListingOK, PricedAt
<1>2. PICK r \in Outcome : EndCall(c, r, projectID) /\ (r = "complete" => ~errs[c])
    BY <1>1, FinishEnds
<1>3. requests'[c] <= plan[c].max /\ ListingOK' /\ refused' = {}
    BY <1>1 DEF ListingInv, ListingOK, BudgetAt, session, listing
<1>4. BudgetAt(c)' /\ PricedAt(c)'
    <2>1. stage'[c] = "done" /\ result'[c] = r
        BY <1>1, <1>2, EndType DEF ListingInv
    <2>2. r = "complete" => items[c] = Everything /\ Bodies(c) \subseteq priced[c]
        BY <1>1, <1>2 DEF ListingInv, PricedAt
    <2> QED
        BY <1>1, <1>3, <2>1, <2>2 DEF BudgetAt, PricedAt, Early, Bodies, listing
<1> QED
    BY <1>1, <1>2, <1>3, <1>4, GoodParts DEF session, listing

LEMMA PhaseGood ==
    ASSUME ListingInv, NEW c \in Call, QuotePhase(c)
    PROVE  Good(c)
<1>1. /\ c \in DOMAIN plan /\ stage[c] = "types" /\ plan' = plan /\ projects' = projects /\ list' = list
      /\ projectID' = projectID /\ projectID \in Project \cup {NoProject} /\ UNCHANGED <<session, reading, items, priced, refused>>
      /\ reading[c] = {} /\ result[c] = "none"
    BY DEF QuotePhase, Elsewhere, client, ListingInv, SelectionOK, PricedAt
<1>2. IsFiniteSet(Bodies(c)) /\ Bodies(c) \subseteq Body /\ Cardinality(Bodies(c)) \in Nat
    BY FiniteBodies, FS_CardinalityType DEF ListingInv
<1>3. requests'[c] <= plan[c].max /\ requests'[c] = requests[c] /\ requests[c] \in Nat
    BY <1>1 DEF ListingInv, ListingOK, BudgetAt, session
<1>4. CASE /\ Preflight(c, Cardinality(Bodies(c))) /\ MoveTo(c, "quote")
           /\ groups' = [groups EXCEPT ![c] = Bodies(c)] /\ UNCHANGED errs
    <2>1. groups' \in [Call -> SUBSET Body] /\ groups'[c] = Bodies(c) /\ errs'[c] = errs[c] /\ items'[c] = items[c]
        BY <1>1, <1>2, <1>4 DEF ListingInv, ListingOK
    <2>2. stage'[c] = "quote" /\ result'[c] = "none"
        BY <1>1, <1>4, MoveType DEF ListingInv, Stages
    <2>3. BudgetAt(c)'
        BY <1>1, <1>2, <1>3, <1>4, <2>1, <2>2 DEF BudgetAt, Preflight
    <2>4. RowsBut({}) = Everything
        BY DEF RowsBut, Everything
    <2>5. PricedAt(c)'
        BY <1>1, <2>1, <2>2, <2>4 DEF ListingInv, PricedAt, Bodies, Early
    <2>6. ListingOK' /\ refused' = {}
        BY <1>1, <1>4, <2>1 DEF ListingInv, ListingOK, session
    <2> QED
        BY <1>1, <1>4, <2>1, <2>3, <2>5, <2>6, GoodParts DEF session, Stages
<1>5. CASE (GivesUp(c) \/ (Record(c, "limit") /\ Finish(c, TRUE))) /\ UNCHANGED groups
    <2>1. PICK r \in Outcome \ {"complete"} : EndCall(c, r, projectID)
        BY <1>5, FinishEnds DEF GivesUp, Outcome
    <2>2. errs' = errs \/ errs' = [errs EXCEPT ![c] = TRUE]
        BY <1>5 DEF GivesUp, Record
    <2>3. BudgetAt(c)' /\ PricedAt(c)'
        BY <1>1, <1>3, <2>1, EndGood
    <2>4. ListingOK' /\ refused' = {}
        BY <1>1, <1>5, <2>2 DEF ListingInv, ListingOK, session
    <2>5. \A d \in Call \ {c} : errs'[d] = errs[d]
        BY <2>2 DEF ListingInv, ListingOK
    <2> QED
        BY <1>1, <1>5, <2>1, <2>3, <2>4, <2>5, GoodParts DEF session
<1> QED
    BY <1>4, <1>5 DEF QuotePhase

LEMMA QuoteGood ==
    ASSUME ListingInv, NEW c \in Call, NEW b \in Body, Quote(c, b)
    PROVE  Good(c)
<1>1. /\ c \in DOMAIN plan /\ stage[c] = "quote" /\ plan' = plan /\ projects' = projects /\ list' = list
      /\ projectID' = projectID /\ projectID \in Project \cup {NoProject} /\ UNCHANGED <<rows, reading, items>>
      /\ b \in groups[c] /\ groups' = [groups EXCEPT ![c] = groups[c] \ {b}] /\ result[c] = "none"
    BY DEF Quote, Elsewhere, client, ListingInv, SelectionOK, PricedAt
<1>2. PICK a \in Answer :
         /\ DoJSON(c, a)
         /\ refused' = IF a = "limit" THEN refused \cup {c} ELSE refused
         /\ \/ /\ priced' = [priced EXCEPT ![c] = priced[c] \cup {b}]
               /\ MoveTo(c, "quote") /\ UNCHANGED errs
            \/ /\ UNCHANGED priced
               /\ GivesUp(c) \/ (Record(c, a) /\ IF Stops(a) THEN Finish(c, TRUE) ELSE MoveTo(c, "quote"))
    BY DEF Quote
<1>3. /\ requests' \in [Call -> Nat] /\ terminal' \in [Call -> BOOLEAN]
      /\ \A d \in Call \ {c} : requests'[d] = requests[d]
      /\ requests'[c] <= plan[c].max /\ requests'[c] <= requests[c] + 1
      /\ a = "limit" => requests[c] + 1 > plan[c].max
    BY <1>1, <1>2, JSONStep
<1>4. /\ requests[c] \in Nat /\ plan[c].max \in Nat /\ IsFiniteSet(groups[c]) /\ Cardinality(groups[c]) + requests[c] <= plan[c].max
      /\ Cardinality(groups[c]) \in Nat
    BY <1>1, PlanFacts, FS_CardinalityType DEF ListingInv, ListingOK, BudgetAt
<1>5. /\ IsFiniteSet(groups[c] \ {b}) /\ Cardinality(groups[c] \ {b}) = Cardinality(groups[c]) - 1
      /\ Cardinality(groups[c] \ {b}) \in Nat
    BY <1>1, <1>4, FS_RemoveElement, FS_CardinalityType
<1>6. refused' = {}
    BY <1>2, <1>3, <1>4, <1>5 DEF ListingInv
<1>7. errs' = errs \/ errs' = [errs EXCEPT ![c] = TRUE]
    BY <1>2 DEF GivesUp, Record
<1>8. ListingOK'
    <2>1. groups' \in [Call -> SUBSET Body]
        BY <1>1 DEF ListingInv, ListingOK
    <2>2. priced' \in [Call -> SUBSET Body]
        <3>1. priced' = priced \/ priced' = [priced EXCEPT ![c] = priced[c] \cup {b}]
            BY <1>2
        <3>2. priced \in [Call -> SUBSET Body] /\ priced[c] \cup {b} \in SUBSET Body
            BY DEF ListingInv, ListingOK
        <3> QED
            BY <3>1, <3>2
    <2>3. errs' \in [Call -> BOOLEAN]
        BY <1>7 DEF ListingInv, ListingOK
    <2> QED
        BY <1>1, <1>3, <1>6, <2>1, <2>2, <2>3 DEF ListingInv, ListingOK
<1>9. \/ \E r \in Outcome \ {"complete"} : EndCall(c, r, projectID)
      \/ MoveTo(c, "quote") /\ errs'[c]
      \/ MoveTo(c, "quote") /\ errs' = errs /\ priced'[c] = priced[c] \cup {b}
    BY <1>2, FinishEnds DEF GivesUp, Record, Outcome, ListingInv, ListingOK
<1>10. BudgetAt(c)' /\ PricedAt(c)'
    <2>1. CASE \E r \in Outcome \ {"complete"} : EndCall(c, r, projectID)
        BY <1>1, <1>3, <2>1, EndGood
    <2>2. CASE MoveTo(c, "quote") /\ (errs'[c] \/ (errs' = errs /\ priced'[c] = priced[c] \cup {b}))
        <3>1. stage'[c] = "quote" /\ result'[c] = "none"
            BY <1>1, <2>2, MoveType DEF ListingInv, Stages
        <3>2. groups'[c] = groups[c] \ {b} /\ items'[c] = items[c]
            BY <1>1 DEF ListingInv, ListingOK
        <3>3. BudgetAt(c)'
            <4>1. requests'[c] \in Nat
                BY <1>3, <1>1, PlanFacts DEF ListingInv
            <4>2. Cardinality(groups[c] \ {b}) + requests'[c] <= plan[c].max
                BY <1>3, <1>4, <1>5, <4>1
            <4> QED
                BY <1>1, <1>3, <1>5, <3>2, <4>2 DEF BudgetAt
        <3>4. PricedAt(c)'
            BY <1>1, <2>2, <3>1, <3>2 DEF ListingInv, PricedAt, Bodies, Early
        <3> QED
            BY <3>3, <3>4
    <2> QED
        BY <1>9, <2>1, <2>2
<1>11. \/ \E w \in Stages : MoveTo(c, w)
       \/ \E r \in Outcome, q \in Project \cup {NoProject} : EndCall(c, r, q)
    BY <1>1, <1>9 DEF Stages
<1>12. \A d \in Call \ {c} : groups'[d] = groups[d] /\ priced'[d] = priced[d] /\ errs'[d] = errs[d] /\ items'[d] = items[d]
                            /\ reading'[d] = reading[d]
    BY <1>1, <1>2, <1>7 DEF ListingInv, ListingOK
<1> QED
    BY <1>1, <1>3, <1>6, <1>8, <1>10, <1>11, <1>12, GoodParts

LEMMA ListingStep == ListingInv /\ [DiscoveryNext]_discoveryVars => ListingInv'
<1> SUFFICES ASSUME ListingInv, [DiscoveryNext]_discoveryVars PROVE ListingInv'
    OBVIOUS
<1>1. ASSUME NEW c \in Call, Step(c) PROVE ListingInv'
    <2>1. Good(c)
        BY <1>1, SelectionGood, RequireGood, CatalogGood, TypesGood, FinishGood, PhaseGood, QuoteGood
           DEF Step
    <2> QED
        BY <2>1, StandsKept DEF Good, ListingInv
<1>2. ASSUME UNCHANGED <<plan, client, projectMu, stage, list, got, result, session, listing, refused>>, projects' \in Lists
      PROVE  ListingInv'
    <2>1. \A d \in Call : Stands(d)
        BY <1>2 DEF Stands, session, listing
    <2>2. SelectionOK' /\ ListingOK' /\ refused' = {}
        BY <1>2 DEF ListingInv, SelectionOK, ListingOK, session, listing, client
    <2> QED
        BY <1>2, <2>1, <2>2, StandsKept DEF ListingInv
<1>3. CASE UNCHANGED discoveryVars
    BY <1>2, <1>3 DEF discoveryVars, selectionVars, ListingInv, SelectionOK
<1> QED
    BY <1>1, <1>2, <1>3 DEF DiscoveryNext, Change, Finished

LEMMA ListingInvariant == DiscoverySpec => []ListingInv
BY ListingInit, ListingStep, PTL DEF DiscoverySpec

-----------------------------------------------------------------------------
\* What a step does to the project of the Client and to the one a call reports:
\* it may choose where there was none, or name the user of the one there is.
Selects(c) ==
    /\ got' = got \/ \E x \in {NoProject, projectID'} : got' = [got EXCEPT ![c] = x]
    /\ \/ UNCHANGED client
       \/ \E l \in Lists : \E e \in l : Select(e) /\ projectID \in {NoProject, e.id}

LEMMA Chosen ==
    ASSUME ListingInv, NEW c \in Call, NEW l \in Lists \cup {{}}, projectID = NoProject, Choose(c, l)
    PROVE  Selects(c)
<1>1. CASE Cardinality(l) = 1
    <2>1. PICK e \in l : Select(e) /\ (MoveTo(c, "zones") \/ EndCall(c, "ok", e.id))
        BY <1>1 DEF Choose
    <2> QED
        BY <2>1 DEF Selects, Select, MoveTo, EndCall
<1> QED
    BY <1>1 DEF Choose, Selects, EndCall

LEMMA StepSelects ==
    ASSUME ListingInv, NEW c \in Call, Step(c)
    PROVE  Selects(c)
<1>1. projects \in Lists \cup {{}} /\ list[c] \in Lists \cup {{}}
    BY DEF ListingInv, SelectionOK
<1>2. CASE ListProjects(c) \/ Lock(c) \/ RequireProjectID(c) \/ RequireProject(c)
    <2>1. CASE ListProjects(c) \/ Lock(c)
        BY <2>1 DEF ListProjects, Lock, MoveTo, EndCall, Selects
    <2>2. CASE RequireProjectID(c)
        BY <1>1, <2>2, Chosen DEF RequireProjectID, EndCall, Selects, client
    <2>3. CASE RequireProject(c)
        BY <1>1, <2>3, Chosen DEF RequireProject, EndCall, Selects, Select, client
    <2> QED
        BY <1>2, <2>1, <2>2, <2>3
<1>3. CASE RequireDiscoveryProjectID(c)
    BY <1>1, <1>3, Chosen DEF RequireDiscoveryProjectID, EndCall, MoveTo, Selects, client
<1>4. CASE ReadCatalog(c)
    BY <1>4 DEF ReadCatalog, EndCall, MoveTo, Selects, Elsewhere, client
<1>5. ASSUME NEW p \in Parent, ReadTypes(c, p) PROVE Selects(c)
    BY <1>5 DEF ReadTypes, GivesUp, Finish, EndCall, MoveTo, Selects, Elsewhere, client
<1>6. CASE FinishRows(c) \/ QuotePhase(c) \/ LastQuote(c)
    BY <1>6 DEF FinishRows, QuotePhase, LastQuote, GivesUp, Finish, EndCall, MoveTo, Selects,
       Elsewhere, client
<1>7. ASSUME NEW b \in Body, Quote(c, b) PROVE Selects(c)
    BY <1>7 DEF Quote, GivesUp, Finish, EndCall, MoveTo, Selects, Elsewhere, client
<1> QED
    BY <1>2, <1>3, <1>4, <1>5, <1>6, <1>7 DEF Step

LEMMA SelectsKept ==
    ASSUME ListingInv, SameProject, NEW c \in Call, Selects(c)
    PROVE  SameProject'
<1>1. ASSUME UNCHANGED client PROVE SameProject'
    BY <1>1 DEF Selects, SameProject, ListingInv, SelectionOK, client
<1>2. ASSUME NEW l \in Lists, NEW e \in l, Select(e), projectID \in {NoProject, e.id} PROVE SameProject'
    <2>1. e = [id |-> e.id, user |-> e.user] /\ e.id # NoProject
        BY SelectionAssumption DEF ListedProject
    <2>2. projectID' = e.id /\ projectUserID' = e.user
        BY <1>2 DEF Select
    <2>3. \A d \in Call : got[d] # NoProject => got[d] = projectID'
        BY <1>2, <2>2 DEF SameProject
    <2>4. \A d \in Call : got'[d] # NoProject => got'[d] = projectID'
        BY <2>3 DEF Selects, ListingInv, SelectionOK
    <2> QED
        BY <2>1, <2>2, <2>4 DEF SameProject
<1> QED
    BY <1>1, <1>2 DEF Selects

-----------------------------------------------------------------------------
\* All calls of a Client work in one project, and the user kept with it is one
\* the service named for it, for any number of calls and changes of the lists.
THEOREM ProjectCorrect == DiscoverySpec => []SameProject
<1>1. DiscoveryInit => SameProject
    BY DEF DiscoveryInit, SelectionInit, SameProject
<1>2. ListingInv /\ SameProject /\ [DiscoveryNext]_discoveryVars => SameProject'
    <2> SUFFICES ASSUME ListingInv, SameProject, [DiscoveryNext]_discoveryVars PROVE SameProject'
        OBVIOUS
    <2>1. ASSUME UNCHANGED <<client, got>> PROVE SameProject'
        BY <2>1 DEF SameProject, client
    <2> QED
        BY <2>1, StepSelects, SelectsKept
           DEF DiscoveryNext, Change, Finished, discoveryVars, selectionVars
<1> QED
    BY <1>1, <1>2, ListingInvariant, PTL DEF DiscoverySpec

\* No session exceeds its budget of requests, and once its quotes have begun none
\* is refused for it, whatever the catalog holds and however many fail.
THEOREM BudgetCorrect == DiscoverySpec => []QuotesAllOrNone
<1>1. ListingInv => QuotesAllOrNone
    BY PlanFacts DEF ListingInv, BudgetAt, QuotesAllOrNone
<1> QED
    BY <1>1, ListingInvariant, PTL

\* A listing of prices that reports no error has every row of the catalog, and a
\* price for each that is not inapplicable.
THEOREM PricesCorrect == DiscoverySpec => []CompleteMeansPriced
<1>1. ListingInv => CompleteMeansPriced
    BY DEF ListingInv, PricedAt, CompleteMeansPriced, Bodies
<1> QED
    BY <1>1, ListingInvariant, PTL
=============================================================================
