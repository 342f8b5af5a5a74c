----------------------------- MODULE TokenCache -----------------------------
(***************************************************************************)
(* internal/tokencache: Cache.Get run by several processes that share one  *)
(* entry file and its lock file.  The lock is a flock the kernel drops when *)
(* its holder dies.  The identity server is external: it issues a new       *)
(* token at every login.  Time is a clock of whole ticks, Window of them in *)
(* the 30-second freshWindow; the code compares times exactly this way.     *)
(***************************************************************************)
EXTENDS Naturals

CONSTANTS
    Proc,          \* processes sharing the cache directory and the key
    NoProc,        \* the lock file is free
    Window,        \* freshWindow
    Lives,         \* token lifetimes the server may grant
    MaxNow,        \* bound: the clock stops here
    MaxTokens      \* bound: the server issues this many tokens

ASSUME CacheAssumption ==
    /\ NoProc \notin Proc
    /\ Window \in Nat \ {0}
    /\ Lives \subseteq Nat
    /\ \A l \in Lives : l >= 2 * Window
    /\ MaxNow \in Nat /\ MaxTokens \in Nat

VARIABLES
    now,       \* the wall clock
    disk,      \* the entry file; token 0 when there is none
    lock,      \* the holder of the flock
    pc,        \* where each process is in Get
    live,      \* the Get's context has not ended
    rejected,  \* Get's rejected argument, 0 for ""
    fresh,     \* the token of a login in progress, with its obtain time
    hand,      \* the entry the process's last successful Get returned
    served,    \* the process's last Get ended with a token, not an error
    \* history, kept for the properties only
    unread,    \* this Get found the entry unreadable
    last,      \* the server's last login: its token, time and expiry
    lost,      \* that token never reached the entry file
    setBack    \* the clock has been set back

vars == <<now, disk, lock, pc, live, rejected, fresh, hand, served, unread, last, lost, setBack>>

\* fileContent; a rename replaces it whole.
Entry == [tok : Nat, exp : Nat, got : Nat]
NoEntry == [tok |-> 0, exp |-> 0, got |-> 0]

Locked == {"read", "login", "answered", "write"}
PC == {"idle", "lock"} \cup Locked

TypeOK ==
    /\ now \in Nat
    /\ disk \in Entry
    /\ lock \in Proc \cup {NoProc}
    /\ pc \in [Proc -> PC]
    /\ live \in [Proc -> BOOLEAN]
    /\ rejected \in [Proc -> Nat]
    /\ fresh \in [Proc -> Entry]
    /\ hand \in [Proc -> Entry]
    /\ served \in [Proc -> BOOLEAN]
    /\ unread \in [Proc -> BOOLEAN]
    /\ last \in [tok : Nat, at : Nat, exp : Nat]
    /\ lost \in BOOLEAN
    /\ setBack \in BOOLEAN

Init ==
    /\ now = 0
    /\ disk = NoEntry
    /\ lock = NoProc
    /\ pc = [p \in Proc |-> "idle"]
    /\ live = [p \in Proc |-> TRUE]
    /\ rejected = [p \in Proc |-> 0]
    /\ fresh = [p \in Proc |-> NoEntry]
    /\ hand = [p \in Proc |-> NoEntry]
    /\ served = [p \in Proc |-> FALSE]
    /\ unread = [p \in Proc |-> FALSE]
    /\ last = [tok |-> 0, at |-> 0, exp |-> 0]
    /\ lost = FALSE
    /\ setBack = FALSE

-----------------------------------------------------------------------------
\* Mutated Rejectable: every rejection is trusted.
RejectableAtOnce(e) == TRUE

\* Mutated Rejectable: an obtain time in the future counts as young.
RejectableForward(e) == now >= e.got + Window

\* rejectable: held for Window, or obtained in the future of a clock set back.
Rejectable(e) == e.got > now \/ now >= e.got + Window

\* Mutated Fresh: a token is used up to its expiry.
FreshToTheEnd(e, r) ==
    e.tok # 0 /\ e.exp > now /\ ~(r # 0 /\ e.tok = r /\ Rejectable(e))

\* fresh: not expiring within Window, and not a rejected token that is old.
Fresh(e, r) ==
    /\ e.tok # 0
    /\ e.exp > now + Window
    /\ ~(r # 0 /\ e.tok = r /\ Rejectable(e))

Goto(p, where) == pc' = [pc EXCEPT ![p] = where]

\* Get returns, with a token or an error: its arguments and its context are gone.
Leave(p, ok) ==
    /\ Goto(p, "idle")
    /\ rejected' = [rejected EXCEPT ![p] = 0]
    /\ live' = [live EXCEPT ![p] = TRUE]
    /\ unread' = [unread EXCEPT ![p] = FALSE]
    /\ served' = [served EXCEPT ![p] = ok]

\* getEntry's deferred unlock, on every return that holds the lock.
Return(p, ok) == Leave(p, ok) /\ lock' = NoProc

-----------------------------------------------------------------------------
\* Get with the token the caller saw rejected, or none.
Get(p, r) ==
    /\ pc[p] = "idle"
    /\ r \in {0, hand[p].tok}
    /\ Goto(p, "lock")
    /\ rejected' = [rejected EXCEPT ![p] = r]
    /\ served' = [served EXCEPT ![p] = FALSE]
    /\ UNCHANGED <<now, disk, lock, live, fresh, hand, unread, last, lost, setBack>>

\* acquireFileLock: a non-blocking flock, polled until it succeeds.
Acquire(p) ==
    /\ pc[p] = "lock" /\ lock = NoProc
    /\ lock' = p
    /\ Goto(p, "read")
    /\ UNCHANGED <<now, disk, live, rejected, fresh, hand, served, unread, last, lost, setBack>>

\* Mutated AcquireFails: a blocking flock, the context checked after it.
AcquireBlocks(p) ==
    /\ pc[p] = "lock" /\ ~live[p] /\ lock = NoProc
    /\ Leave(p, FALSE)
    /\ UNCHANGED <<now, disk, lock, fresh, hand, last, lost, setBack>>

\* The context ended while polling.
AcquireFails(p) ==
    /\ pc[p] = "lock" /\ ~live[p]
    /\ Leave(p, FALSE)
    /\ UNCHANGED <<now, disk, lock, fresh, hand, last, lost, setBack>>

\* readFresh found a token to reuse.
Hit(p) ==
    /\ pc[p] = "read" /\ live[p]
    /\ Fresh(disk, rejected[p])
    /\ hand' = [hand EXCEPT ![p] = disk]
    /\ Return(p, TRUE)
    /\ UNCHANGED <<now, disk, fresh, last, lost, setBack>>

\* Mutated Miss: the lock is given back before the login.
MissUnlocks(p) ==
    /\ pc[p] = "read" /\ live[p]
    /\ ~Fresh(disk, rejected[p])
    /\ lock' = NoProc
    /\ Goto(p, "login")
    /\ UNCHANGED <<now, disk, live, rejected, fresh, hand, served, unread, last, lost, setBack>>

\* readFresh read the entry, or found none, and it is not to be reused.
Miss(p) ==
    /\ pc[p] = "read" /\ live[p]
    /\ ~Fresh(disk, rejected[p])
    /\ Goto(p, "login")
    /\ UNCHANGED <<now, disk, lock, live, rejected, fresh, hand, served, unread, last, lost, setBack>>

\* readFresh takes a failed ReadFile, content that does not parse and an empty
\* token for a miss, whatever the entry is: Get logs in and replaces it.
ReadFails(p) ==
    /\ pc[p] = "read" /\ live[p]
    /\ unread' = [unread EXCEPT ![p] = TRUE]
    /\ Goto(p, "login")
    /\ UNCHANGED <<now, disk, lock, live, rejected, fresh, hand, served, last, lost, setBack>>

\* The server accepts the login; the process has not seen the answer yet.
LoginServed(p, life) ==
    /\ pc[p] = "login" /\ last.tok < MaxTokens
    /\ last' = [tok |-> last.tok + 1, at |-> now, exp |-> now + life]
    /\ fresh' = [fresh EXCEPT ![p] = [tok |-> last.tok + 1, exp |-> now + life, got |-> 0]]
    /\ lost' = TRUE
    /\ Goto(p, "answered")
    /\ UNCHANGED <<now, disk, lock, live, rejected, hand, served, unread, setBack>>

\* Get stops with the context's error, or with the login's: a token the server
\* issued meanwhile is discarded.
GetFails(p) ==
    /\ \/ pc[p] \in {"read", "login", "answered"} /\ ~live[p]
       \/ pc[p] \in {"login", "answered"}
    /\ fresh' = [fresh EXCEPT ![p] = NoEntry]
    /\ Return(p, FALSE)
    /\ UNCHANGED <<now, disk, hand, last, lost, setBack>>

\* The login returned in time: obtainedAt is the clock now, not at the server.
Stamp(p) ==
    /\ pc[p] = "answered" /\ live[p]
    /\ fresh' = [fresh EXCEPT ![p].got = now]
    /\ Goto(p, "write")
    /\ UNCHANGED <<now, disk, lock, live, rejected, hand, served, unread, last, lost, setBack>>

\* write: temp file, sync, rename; its failures are ignored.
Write(p) ==
    /\ pc[p] = "write"
    /\ \/ disk' = fresh[p] /\ lost' = FALSE
       \/ UNCHANGED <<disk, lost>>
    /\ hand' = [hand EXCEPT ![p] = fresh[p]]
    /\ fresh' = [fresh EXCEPT ![p] = NoEntry]
    /\ Return(p, TRUE)
    /\ UNCHANGED <<now, last, setBack>>

-----------------------------------------------------------------------------
\* A process dies: its memory is gone and the kernel drops its flock.
Crash(p) ==
    /\ Leave(p, FALSE)
    /\ lock' = IF lock = p THEN NoProc ELSE lock
    /\ hand' = [hand EXCEPT ![p] = NoEntry]
    /\ fresh' = [fresh EXCEPT ![p] = NoEntry]
    /\ UNCHANGED <<now, disk, last, lost, setBack>>

Cancel(p) ==
    /\ pc[p] # "idle" /\ live[p]
    /\ live' = [live EXCEPT ![p] = FALSE]
    /\ UNCHANGED <<now, disk, lock, pc, rejected, fresh, hand, served, unread, last, lost, setBack>>

Tick ==
    /\ now < MaxNow
    /\ now' = now + 1
    /\ UNCHANGED <<disk, lock, pc, live, rejected, fresh, hand, served, unread, last, lost, setBack>>

\* A system time correction.
StepBack ==
    /\ now > 0
    /\ now' = now - 1
    /\ setBack' = TRUE
    /\ UNCHANGED <<disk, lock, pc, live, rejected, fresh, hand, served, unread, last, lost>>

\* What a process does by itself inside Get.
GetStep(p) ==
    \/ Acquire(p) \/ AcquireFails(p) \/ Hit(p) \/ Miss(p) \/ ReadFails(p)
    \/ \E life \in Lives : LoginServed(p, life)
    \/ GetFails(p) \/ Stamp(p) \/ Write(p)

Next ==
    \/ \E p \in Proc : GetStep(p) \/ Crash(p) \/ Cancel(p)
    \/ \E p \in Proc : \E r \in {0, hand[p].tok} : Get(p, r)
    \/ Tick
    \/ StepBack

Spec == Init /\ [][Next]_vars

\* A process in Get keeps running: reads and writes end, a login ends by its
\* context or the HTTP timeout.  No Get has to start, no context has to end.
FairSpec == Spec /\ \A p \in Proc : WF_vars(GetStep(p))

-----------------------------------------------------------------------------
\* Properties.

\* The whole read-check-login-write sequence runs in one process at a time.
LockInv == \A p \in Proc : pc[p] \in Locked <=> lock = p

\* Unless its token was lost before reaching the file, the last login is the
\* one on disk, with its own expiry and an obtain time not before the login.
RecordedIsLast ==
    ~lost /\ last.tok # 0 => disk.tok = last.tok /\ disk.exp = last.exp

\* The process that holds the lock could not read the entry.
ReaderFailed == \E p \in Proc : lock = p /\ unread[p]

\* While the clock has not been set back, two logins are at least Window apart,
\* so they never share a TOTP code, unless the first one's token was lost to a
\* cancel, a crash or a failed write, or the second process could not read it:
\* this holds for all processes together.
LoginsApart ==
    [][last'.tok # last.tok /\ last.tok # 0 /\ ~lost /\ ~setBack =>
         now >= last.at + Window \/ ReaderFailed]_vars

\* Each further login has a cause: the last token is near its expiry, or the
\* process logging in is one that saw exactly that token rejected or could not
\* read it.  Processes that reject an older token, or none, never cause one,
\* nor does one that waited for the lock while another logged in.
LoginHasCause ==
    [][last'.tok # last.tok /\ last.tok # 0 /\ ~lost /\ ~setBack =>
         \/ last.exp <= now + Window
         \/ \E p \in Proc : lock = p /\ rejected[p] = last.tok
         \/ ReaderFailed]_vars

\* The entry file never goes back to an older token.
DiskNeverOlder == [][disk'.tok >= disk.tok]_vars

\* A Get whose context ends returns, also one still polling for the lock.
CancelledGetReturns == \A p \in Proc : pc[p] # "idle" /\ ~live[p] ~> pc[p] = "idle"

\* The lock and file protocol implements the single shared token cell: a token
\* that a Get ends with is good to its caller, also after the clock was set back,
\* or newer than all before, and only a caller to whom the cell is no good, or
\* who cannot read it, replaces it.
Cell == INSTANCE SharedToken WITH cell <- disk, refused <- rejected
SharedTokenSpec == Cell!Spec
=============================================================================
