---------------------------- MODULE CloudService ----------------------------
(***************************************************************************)
(* The vServer service as packages compute and volume use it, and what the  *)
(* calls of both share: the duplicate-name walk and the price guard ahead   *)
(* of an order, the one request of a write with its retries, the polling    *)
(* wait after it.  There is no lock: a call reads, decides and sends, and   *)
(* other calls do the same in between.                                      *)
(*                                                                         *)
(* A request is late while the service has it and its caller does not wait  *)
(* for it any more, queued when it was accepted, running while the object   *)
(* shows a status that is neither its old nor its new one.                  *)
(***************************************************************************)
EXTENDS Naturals, FiniteSets, Sequences

CONSTANTS
    Call,       \* calls of the two packages' writes
    Server, Volume,
    BootVolume, \* of each server
    NameOf,     \* of each server and volume
    Order,      \* all of them, as the service lists them
    Nobody,     \* no server
    AtFirst,    \* the servers and volumes at first
    Plans,      \* what some of the calls do, each set of them to explore
    PageSize,   \* DefaultPageSize
    MaxPages,   \* maxDuplicateNameCheckPages
    MaxReads,   \* bound: sleeps of one wait before its deadline
    Attempts,   \* those the transport makes, RetryCount + 1
    Prompt      \* the service starts a reboot within serverRebootMinWait

Thing == Server \cup Volume
Value == 1..3      \* bound: flavors, and sizes of volumes
Status == {"GONE", "DELETED", "CHANGING", "ERROR", "ACTIVE", "STOPPED", "AVAILABLE", "IN-USE"}
Object == [status : Status, on : Server \cup {Nobody}, val : Value]

ServerOps == {"start", "stop", "reboot", "resizeServer", "deleteServer", "createServer"}
VolumeOps == {"attach", "detach", "resizeVolume", "deleteVolume", "createVolume"}
CreateOps == {"createServer", "createVolume"}
ResizeOps == {"resizeServer", "resizeVolume"}
DeleteOps == {"deleteServer", "deleteVolume"}

\* flag is AllowRunning of a detach, DeleteVolumes of a server's delete.
Plan == [op : ServerOps \cup VolumeOps, on : Thing, server : Server \cup {Nobody},
         val : Value, flag : BOOLEAN, noWait : BOOLEAN]

ASSUME CloudAssumption ==
    /\ Server \cap Volume = {} /\ Nobody \notin Server
    /\ BootVolume \in [Server -> Volume] /\ AtFirst \in [Thing -> Object]
    /\ \A v \in Volume : AtFirst[v].status = "GONE" => AtFirst[v].on = Nobody
    /\ Order \in Seq(Thing) /\ DOMAIN NameOf = Thing
    /\ \A x \in Thing : \E i \in DOMAIN Order : Order[i] = x
    /\ \A p \in Plans : DOMAIN p \subseteq Call /\ \A c \in DOMAIN p :
         /\ p[c] \in Plan /\ (p[c].op \in ServerOps <=> p[c].on \in Server)
         /\ p[c].op \in {"attach", "detach"} => p[c].server \in Server
         \* The service gives an id once.
         /\ p[c].op \in CreateOps => /\ AtFirst[p[c].on].status = "GONE"
                                   /\ \A d \in DOMAIN p \ {c} : p[d].op \in CreateOps => p[d].on # p[c].on
    /\ PageSize \in Nat \ {0} /\ MaxPages \in Nat \ {0}
    /\ MaxReads \in Nat /\ Attempts \in Nat \ {0} /\ Prompt \in BOOLEAN

VARIABLES
    plan,   \* what each call was asked for, never changes
    thing,  \* the servers and volumes
    jobs,   \* requests the service has
    call,   \* the local variables of each call
    taken,  \* history: requests of a call the service accepted
    raced,  \* history: calls with another write to what they read since
    misfit, \* history: calls acted on though what they had checked is not so
    freed   \* history: <<call, volume>> that a delete of its server left over

history == <<taken, raced, misfit, freed>>
vars == <<plan, thing, jobs, call, history>>

PC == {"walk", "read", "readServer", "list", "quote", "send", "early", "settle", "keep", "done"}
Result == {"none", "settled", "accepted", "unchanged", "invalid", "refused", "error",
           "ambiguous", "notSettled", "failed"}
Local == [pc : PC, page : Nat, seen : Nat, reads : 0..MaxReads, tries : 0..(Attempts - 1),
          todo : SUBSET Volume, kept : SUBSET Volume, result : Result]
Job == [call : Call, n : Nat, at : {"late", "queued", "running"}, was : Status]

-----------------------------------------------------------------------------
On(c) == plan[c].on
Asked(c) == plan[c].op
Kind(c) == IF Asked(c) \in ServerOps THEN Server ELSE Volume
Here(c) == thing[On(c)]
StatusOf(x) == thing[x].status
Attached(s) == {v \in Volume : thing[v].on = s}

\* transport.Request.Once
Once(c) == Asked(c) \in CreateOps \cup ResizeOps \cup {"start", "stop", "reboot"}

Goto(c, where) == call' = [call EXCEPT ![c].pc = where]

Return(c, r) == call' = [call EXCEPT ![c] = [@ EXCEPT !.pc = "done", !.result = r, !.reads = 0,
                                              !.tries = 0, !.page = 1, !.seen = 0, !.todo = {}]]

Quiet == UNCHANGED <<plan, thing, jobs, history>>

\* The first read of a call: what happened before does not race with it.
FirstRead(c) ==
    /\ raced' = raced \ {c}
    /\ UNCHANGED <<plan, thing, jobs, taken, misfit, freed>>

\* A read, the quote or the project lookup fails, or ctx ends.
Break(c) ==
    /\ call[c].pc \notin {"send", "keep", "done"}
    /\ Return(c, IF call[c].pc \in {"early", "settle"} THEN "notSettled" ELSE "invalid")
    /\ Quiet

-----------------------------------------------------------------------------
\* Ahead of a create, page by page.
Listed(kind) == {i \in DOMAIN Order : Order[i] \in kind /\ StatusOf(Order[i]) \notin {"GONE", "DELETED"}}

Page(items, p) == {i \in items : Cardinality({k \in items : k < i}) \div PageSize = p - 1}

Pages(items) == (Cardinality(items) + PageSize - 1) \div PageSize

\* Mutated CheckNoDuplicateName: the walk ends a page early.
WalkOneShort(c) ==
    LET items == Listed(Kind(c))
        page == Page(items, call[c].page)
        seen == call[c].seen + Cardinality(page)
    IN  /\ call[c].pc = "walk"
        /\ IF call[c].page > MaxPages \/ \E i \in page : NameOf[Order[i]] = NameOf[On(c)]
             THEN Return(c, "invalid")
           ELSE IF call[c].page + 1 >= Pages(items) THEN Goto(c, "quote")
           ELSE call' = [call EXCEPT ![c].page = @ + 1, ![c].seen = seen]
        /\ IF call[c].page = 1 THEN FirstRead(c) ELSE Quiet

CheckNoDuplicateName(c) ==
    LET items == Listed(Kind(c))
        page == Page(items, call[c].page)
        seen == call[c].seen + Cardinality(page)
    IN  /\ call[c].pc = "walk"
        /\ IF call[c].page > MaxPages \/ \E i \in page : NameOf[Order[i]] = NameOf[On(c)]
             THEN Return(c, "invalid")
           ELSE IF Pages(items) = 0 THEN Goto(c, "quote")
           ELSE IF call[c].page >= Pages(items)
             THEN IF seen = Cardinality(items) THEN Goto(c, "quote") ELSE Return(c, "invalid")
           ELSE call' = [call EXCEPT ![c].page = @ + 1, ![c].seen = seen]
        /\ IF call[c].page = 1 THEN FirstRead(c) ELSE Quiet

\* The price is within MaxPrice, or else the call breaks off here.
CheckPriceAboveMax(c) == call[c].pc = "quote" /\ Goto(c, "send") /\ Quiet

-----------------------------------------------------------------------------
\* What the service takes, as the comments in the code tell it.
Acceptable(c) ==
    LET now == Here(c).status IN
    CASE Asked(c) \in CreateOps -> now = "GONE"
      [] Asked(c) = "deleteServer" -> /\ now \in {"ACTIVE", "STOPPED", "ERROR"}
                                      /\ \A v \in Attached(On(c)) : StatusOf(v) # "CHANGING"
      [] Asked(c) = "attach" -> now = "AVAILABLE" /\ StatusOf(plan[c].server) \in {"ACTIVE", "STOPPED"}
      [] Asked(c) = "detach" -> now = "IN-USE" /\ Here(c).on = plan[c].server
      [] Asked(c) = "resizeVolume" -> now \in {"AVAILABLE", "IN-USE"}
      [] Asked(c) = "deleteVolume" -> now \in {"AVAILABLE", "ERROR"}
      [] OTHER -> now \in {"ACTIVE", "STOPPED"}

Request(c, at) == [call |-> c, n |-> call[c].tries, at |-> at, was |-> "GONE"]

Succeed(c) ==
    \/ IF plan[c].noWait THEN Return(c, "accepted")
       ELSE Goto(c, IF Asked(c) = "reboot" THEN "early" ELSE "settle")
    \/ Asked(c) \in CreateOps /\ Return(c, "ambiguous")  \* no id in the response

\* Mutated Fail: a request sent once is tried again too.
FailAlwaysRetried(c) ==
    IF call[c].tries + 1 < Attempts THEN call' = [call EXCEPT ![c].tries = @ + 1]
    ELSE Return(c, "error")

\* No answer, or a 5xx.
Fail(c) ==
    IF ~Once(c) /\ call[c].tries + 1 < Attempts THEN call' = [call EXCEPT ![c].tries = @ + 1]
    ELSE Return(c, IF Asked(c) \in CreateOps THEN "ambiguous"
                   ELSE IF Once(c) THEN "notSettled" ELSE "error")

Accepted(c) ==
    /\ call[c].pc = "send" /\ Acceptable(c)
    /\ Succeed(c) \/ Fail(c)
    /\ jobs' = jobs \cup {Request(c, "queued")}
    /\ taken' = [taken EXCEPT ![c] = @ + 1]
    /\ UNCHANGED <<plan, thing, raced, misfit, freed>>

\* A 4xx, as is.
Refused(c) == call[c].pc = "send" /\ Return(c, "refused") /\ Quiet

NotTaken(c) == call[c].pc = "send" /\ Fail(c) /\ Quiet

\* The request is still on its way when the call gives up on it.
Outlives(c) ==
    /\ call[c].pc = "send" /\ Fail(c)
    /\ jobs' = jobs \cup {Request(c, "late")}
    /\ UNCHANGED <<plan, thing, history>>

\* The step of a wait was not its last: it sleeps and reads again, or the bound
\* has passed.
Poll(c) ==
    IF call[c].reads < MaxReads THEN call' = [call EXCEPT ![c].reads = @ + 1]
    ELSE Return(c, "notSettled")

\* One read of the wait: a 404 is as the operation takes it.
Await(c, goal, gone) ==
    /\ IF StatusOf(On(c)) = "GONE" THEN gone
       ELSE IF goal THEN Return(c, "settled")
       ELSE IF StatusOf(On(c)) = "ERROR" THEN Return(c, "failed")
       ELSE Poll(c)
    /\ Quiet

-----------------------------------------------------------------------------
\* Whether a job of d changes what c has read or will change.
RacesWith(d, c) ==
    \/ On(d) = On(c)
    \/ Asked(c) = "detach" /\ On(d) = plan[c].server
    \/ Asked(c) = "deleteServer" /\ On(c) = plan[d].server
    \/ Asked(d) = "deleteServer" /\ Here(c).on = On(d)
    \/ /\ Asked(c) \in CreateOps /\ Asked(d) \in CreateOps \cup DeleteOps
       /\ Kind(c) = Kind(d) \/ Asked(d) = "deleteServer"

Races(d) == raced' = raced \cup {c \in DOMAIN plan \ {d} : RacesWith(d, c)}

\* What each call checks ahead of its request, on the state its job starts in.
Fits(c) ==
    /\ Asked(c) = "start" => Here(c).status = "STOPPED"
    /\ Asked(c) \in {"stop", "reboot"} => Here(c).status = "ACTIVE"
    /\ Asked(c) = "resizeServer" => Here(c).val # plan[c].val
    /\ Asked(c) = "resizeVolume" => Here(c).val < plan[c].val
    /\ Asked(c) = "detach" => /\ On(c) # BootVolume[plan[c].server]
                              /\ plan[c].flag \/ StatusOf(plan[c].server) = "STOPPED"
    /\ Asked(c) = "deleteVolume" => Here(c).on = Nobody
    /\ Asked(c) \in CreateOps => \A x \in Kind(c) : StatusOf(x) \notin {"GONE", "DELETED"}
                                   => NameOf[x] # NameOf[On(c)]

Without(j) == jobs \ {j}

\* A late request arrives after all.
Arrive(j) ==
    /\ j.at = "late"
    /\ IF Acceptable(j.call)
         THEN /\ jobs' = Without(j) \cup {[j EXCEPT !.at = "queued"]}
              /\ taken' = [taken EXCEPT ![j.call] = @ + 1]
         ELSE jobs' = Without(j) /\ UNCHANGED taken
    /\ UNCHANGED <<plan, thing, call, raced, misfit, freed>>

StartJob(j) ==
    LET c == j.call IN
    /\ j.at = "queued" /\ Here(c).status # "CHANGING"
    /\ IF Acceptable(c)
         THEN /\ jobs' = Without(j) \cup {[j EXCEPT !.at = "running", !.was = Here(c).status]}
              /\ thing' = [thing EXCEPT ![On(c)].status = "CHANGING"]
              /\ misfit' = IF Fits(c) \/ c \in raced THEN misfit ELSE misfit \cup {c}
              /\ Races(c)
         ELSE jobs' = Without(j) /\ UNCHANGED <<thing, misfit, raced>>
    /\ UNCHANGED <<plan, call, taken, freed>>

\* The object after j.
After(j, gone) ==
    LET c == j.call
        as(s) == [Here(c) EXCEPT !.status = s]
    IN  CASE Asked(c) \in {"start", "reboot", "createServer"} -> as("ACTIVE")
          [] Asked(c) = "stop" -> as("STOPPED")
          [] Asked(c) = "createVolume" -> as("AVAILABLE")
          [] Asked(c) = "attach" -> [as("IN-USE") EXCEPT !.on = plan[c].server]
          [] Asked(c) = "detach" -> [as("AVAILABLE") EXCEPT !.on = Nobody]
          [] Asked(c) \in ResizeOps -> [as(j.was) EXCEPT !.val = plan[c].val]
          [] OTHER -> [as(gone) EXCEPT !.on = Nobody]

\* The volumes of a deleted server go with it or stay.
Takes(c, v) == plan[c].flag \/ v = BootVolume[On(c)]
Leftover(c) == {v \in Attached(On(c)) : Asked(c) = "deleteServer" /\ ~Takes(c, v)}

Applied(j, gone) ==
    LET c == j.call IN
    [x \in Thing |->
        IF x = On(c) THEN After(j, gone)
        ELSE IF x \in Leftover(c) THEN [thing[x] EXCEPT !.status = "AVAILABLE", !.on = Nobody]
        ELSE IF Asked(c) = "deleteServer" /\ x \in Attached(On(c))
          THEN [thing[x] EXCEPT !.status = gone, !.on = Nobody]
        ELSE thing[x]]

EndJob(j) ==
    /\ j.at = "running"
    /\ jobs' = Without(j)
    /\ \/ /\ StatusOf(On(j.call)) = "CHANGING"
          /\ \/ /\ \E gone \in {"GONE", "DELETED"} : thing' = Applied(j, gone)
                /\ freed' = freed \cup ({j.call} \X Leftover(j.call))
             \/ /\ thing' = [thing EXCEPT ![On(j.call)].status = "ERROR"]
                /\ UNCHANGED freed
          /\ Races(j.call)
       \/ StatusOf(On(j.call)) # "CHANGING" /\ UNCHANGED <<thing, freed, raced>>
    /\ UNCHANGED <<plan, call, taken, misfit>>
=============================================================================
