----------------------------- MODULE VServerProofs -----------------------------
(***************************************************************************)
(* VServer for any number of calls, servers, volumes, ACLs, subnets, zones  *)
(* and records, retries and reads: first Cloud, then Network, then Dns, and *)
(* at the end the four packages together.                                   *)
(*                                                                         *)
(* Cloud.  SentInv says that a call has a request at the service only once  *)
(* it has sent one, and a write sent once has one; FitInv that what a call  *)
(* checked still holds when its request starts, unless another write raced  *)
(* with it.  On these rest LandInv, about what is left at the service of a  *)
(* write that its wait found settled, BirthInv, about what is created and   *)
(* what is gone, KeptInv, about the volumes a server's delete has noted,    *)
(* and NameInv, about the pages a create has walked over.                   *)
(***************************************************************************)
EXTENDS VServer, FiniteSetTheorems, TLAPS

CallOK == call \in [Call -> Local]

ServiceOK ==
    /\ plan \in Plans
    /\ thing \in [Thing -> Object]
    /\ jobs \subseteq Job
    /\ taken \in [Call -> Nat]
    /\ raced \subseteq Call /\ misfit \subseteq Call
    /\ freed \subseteq Call \X Volume

LEMMA TypeParts == TypeOK <=> CallOK /\ ServiceOK
BY DEF TypeOK, CallOK, ServiceOK

LEMMA PlanType ==
    ASSUME plan \in Plans, NEW c \in DOMAIN plan
    PROVE  /\ c \in Call /\ plan[c] \in Plan /\ On(c) \in Thing
           /\ Asked(c) \in ServerOps <=> On(c) \in Server
           /\ Asked(c) \in {"attach", "detach"} => plan[c].server \in Server
BY CloudAssumption DEF On, Asked, Plan

\* Only a call that has something to do is anywhere, or has a request at the service.
AskedInv ==
    /\ \A c \in Call : call[c].pc # "done" => c \in DOMAIN plan
    /\ \A j \in jobs : j.call \in DOMAIN plan

LEMMA TypeInit == Init => CallOK /\ ServiceOK /\ AskedInv
<1> SUFFICES ASSUME Init PROVE CallOK /\ ServiceOK /\ AskedInv
    OBVIOUS
<1> USE CloudAssumption
<1>1. 0 \in 0..MaxReads /\ 0 \in 0..(Attempts - 1) /\ {} \subseteq Volume
    OBVIOUS
<1>2. {"done", "walk", "read"} \subseteq PC /\ "none" \in Result
    BY DEF PC, Result
<1>3. CallOK
    BY <1>1, <1>2 DEF Init, CallOK, Local
<1>4. ServiceOK
    BY DEF Init, ServiceOK
<1>5. AskedInv
    BY DEF Init, AskedInv
<1> QED
    BY <1>3, <1>4, <1>5

-----------------------------------------------------------------------------
\* The ways a call moves on.
LEMMA ReturnType ==
    ASSUME CallOK, NEW c \in Call, NEW r \in Result, Return(c, r) PROVE CallOK'
<1>1. 0 \in 0..MaxReads /\ 0 \in 0..(Attempts - 1) /\ {} \subseteq Volume /\ "done" \in PC
    BY CloudAssumption DEF PC
<1>2. call[c] \in Local
    BY DEF CallOK
<1>3. [call[c] EXCEPT !.pc = "done", !.result = r, !.reads = 0, !.tries = 0, !.page = 1, !.seen = 0,
                      !.todo = {}] \in Local
    BY <1>1, <1>2 DEF Local
<1> QED
    BY <1>3 DEF CallOK, Return

LEMMA GotoType ==
    ASSUME CallOK, NEW c \in Call, NEW w \in PC, Goto(c, w) PROVE CallOK'
BY DEF CallOK, Goto, Local

LEMMA PollType ==
    ASSUME CallOK, NEW c \in Call, Poll(c) PROVE CallOK'
<1>1. CASE Return(c, "notSettled")
    BY <1>1, ReturnType DEF Result
<1>2. CASE call[c].reads < MaxReads /\ call' = [call EXCEPT ![c].reads = @ + 1]
    <2>1. call[c] \in Local /\ call[c].reads + 1 \in 0..MaxReads
        BY <1>2, CloudAssumption DEF CallOK, Local
    <2> QED
        BY <1>2, <2>1 DEF CallOK, Local
<1> QED
    BY <1>1, <1>2 DEF Poll

LEMMA FailType ==
    ASSUME CallOK, NEW c \in Call, Fail(c) PROVE CallOK'
<1>1. \A r \in {"ambiguous", "notSettled", "error"} : Return(c, r) => CallOK'
    BY ReturnType DEF Result
<1>2. CASE call[c].tries + 1 < Attempts /\ call' = [call EXCEPT ![c].tries = @ + 1]
    <2>1. call[c] \in Local /\ call[c].tries + 1 \in 0..(Attempts - 1)
        BY <1>2, CloudAssumption DEF CallOK, Local
    <2> QED
        BY <1>2, <2>1 DEF CallOK, Local
<1> QED
    BY <1>1, <1>2 DEF Fail

LEMMA QuietType ==
    ASSUME ServiceOK, NEW c \in Call, Quiet \/ FirstRead(c)
    PROVE  ServiceOK' /\ plan' = plan /\ jobs' = jobs
BY DEF ServiceOK, Quiet, FirstRead, history

-----------------------------------------------------------------------------
\* What the invariants need of a step of a call that the service does not see.
Fresh == {"walk", "read", "readServer", "list", "quote"}

Placed(c, where) ==
    /\ where = "walk" => Asked(c) \in CreateOps
    /\ where = "quote" => Asked(c) \in CreateOps \cup ResizeOps
    /\ where = "readServer" => Asked(c) = "detach"
    /\ where \in {"list", "keep"} => Asked(c) = "deleteServer"

Forgets(c) == raced' = raced \/ (raced' = raced \ {c} /\ call[c].pc \in {"walk", "read"})

Checked(c) == Asked(c) \in CreateOps \/ Fits(c)
                \/ (call[c].pc \in {"quote", "send"} /\ raced' = raced)

Moves(c) ==
    /\ \A d \in Call \ {c} : call'[d] = call[d]
    /\ call[c].pc # "done"
    /\ call'[c].pc \in Fresh => call[c].pc \in Fresh
    /\ call'[c].pc = "send" => call[c].pc \in Fresh \cup {"send"}
    /\ call'[c].pc # "done" => call'[c].result = call[c].result
    /\ call'[c].pc = "done" /\ call'[c].result \in {"invalid", "refused"}
         => call[c].pc \in Fresh \cup {"send"}
    /\ Forgets(c)
    /\ Placed(c, call'[c].pc)
    /\ call'[c].pc \in {"quote", "send"} => Checked(c)

LEMMA ReturnMoves ==
    ASSUME CallOK, NEW c \in Call, NEW r \in Result, Return(c, r), call[c].pc # "done", Forgets(c),
           r \in {"invalid", "refused"} => call[c].pc \in Fresh \cup {"send"}
    PROVE  Moves(c)
<1>1. call'[c].pc = "done" /\ call'[c].result = r /\ \A d \in Call \ {c} : call'[d] = call[d]
    BY DEF CallOK, Return, Local
<1> QED
    BY <1>1 DEF Moves, Fresh, Placed

LEMMA GoMoves ==
    ASSUME CallOK, NEW c \in Call, NEW w \in PC \ {"done"}, Goto(c, w), call[c].pc # "done", Forgets(c),
           w \in Fresh => call[c].pc \in Fresh, w = "send" => call[c].pc \in Fresh \cup {"send"},
           Placed(c, w), w \in {"quote", "send"} => Checked(c)
    PROVE  Moves(c)
<1>1. /\ call'[c].pc = w /\ call'[c].result = call[c].result
      /\ \A d \in Call \ {c} : call'[d] = call[d]
    BY DEF CallOK, Goto, Local
<1> QED
    BY <1>1 DEF Moves

\* The pc and the result of c are as before.
StayMoves(c) == /\ call'[c].pc = call[c].pc /\ call'[c].result = call[c].result
                /\ \A d \in Call \ {c} : call'[d] = call[d]

LEMMA StillMoves ==
    ASSUME NEW c \in Call, StayMoves(c), call[c].pc # "done", Placed(c, call[c].pc), Forgets(c),
           call[c].pc \in {"quote", "send"} => raced' = raced
    PROVE  Moves(c)
BY DEF StayMoves, Moves, Checked

LEMMA PollMoves ==
    ASSUME CallOK, NEW c \in Call, Poll(c), call[c].pc \in {"early", "settle"}, raced' = raced
    PROVE  Moves(c)
<1>1. CASE Return(c, "notSettled")
    BY <1>1, ReturnMoves DEF Result, Forgets
<1>2. CASE call' = [call EXCEPT ![c].reads = @ + 1]
    <2>1. StayMoves(c)
        BY <1>2 DEF StayMoves, CallOK, Local
    <2> QED
        BY <2>1, StillMoves DEF Placed, Forgets
<1> QED
    BY <1>1, <1>2 DEF Poll

LEMMA FailMoves ==
    ASSUME CallOK, NEW c \in Call, Fail(c), call[c].pc = "send", raced' = raced
    PROVE  Moves(c)
<1>1. \A r \in {"ambiguous", "notSettled", "error"} : Return(c, r) => Moves(c)
    BY ReturnMoves DEF Result, Forgets
<1>2. CASE call' = [call EXCEPT ![c].tries = @ + 1]
    <2>1. StayMoves(c)
        BY <1>2 DEF StayMoves, CallOK, Local
    <2> QED
        BY <2>1, StillMoves DEF Placed, Forgets
<1> QED
    BY <1>1, <1>2 DEF Fail

-----------------------------------------------------------------------------
LEMMA RaceType ==
    ASSUME NEW c \in Call, Quiet \/ (FirstRead(c) /\ call[c].pc \in {"walk", "read"})
    PROVE  Forgets(c) /\ (Quiet => raced' = raced)
BY DEF Quiet, FirstRead, history, Forgets

LEMMA AwaitMoves ==
    ASSUME CallOK, NEW c \in Call, NEW STATE goal, NEW ACTION gone, Await(c, goal, gone),
           call[c].pc \in {"early", "settle"}, gone => CallOK' /\ Moves(c)
    PROVE  CallOK' /\ Moves(c) /\ Quiet
<1>1. Quiet /\ raced' = raced /\ Forgets(c)
    BY RaceType DEF Await
<1>2. {"settled", "failed"} \subseteq Result
    BY DEF Result
<1> QED
    BY <1>1, <1>2, ReturnType, PollType, ReturnMoves, PollMoves DEF Await

LEMMA ListType ==
    ASSUME NEW kind, NEW p
    PROVE  /\ Cardinality(Listed(kind)) \in Nat /\ Cardinality(Page(Listed(kind), p)) \in Nat
<1>1. IsFiniteSet(DOMAIN Order)
    BY CloudAssumption, FS_Interval
<1>2. Listed(kind) \subseteq DOMAIN Order /\ Page(Listed(kind), p) \subseteq DOMAIN Order
    BY DEF Listed, Page
<1> QED
    BY <1>1, <1>2, FS_Subset, FS_CardinalityType

LEMMA WalkStep ==
    ASSUME CallOK, ServiceOK, NEW c \in DOMAIN plan, Placed(c, call[c].pc), CheckNoDuplicateName(c)
    PROVE  CallOK' /\ Moves(c) /\ (Quiet \/ FirstRead(c))
<1>0. c \in Call /\ call[c].pc = "walk" /\ Asked(c) \in CreateOps /\ call[c] \in Local
    BY PlanType DEF ServiceOK, CheckNoDuplicateName, Placed, CallOK
<1>1. Quiet \/ FirstRead(c)
    BY DEF CheckNoDuplicateName
<1>2. Forgets(c)
    BY <1>0, <1>1, RaceType
<1>3. ASSUME Return(c, "invalid") PROVE CallOK' /\ Moves(c)
    BY <1>0, <1>2, <1>3, ReturnType, ReturnMoves DEF Result, Fresh
<1>4. ASSUME Goto(c, "quote") PROVE CallOK' /\ Moves(c)
    BY <1>0, <1>2, <1>4, GotoType, GoMoves DEF PC, Fresh, Placed, Checked
<1>5. ASSUME NEW n \in Nat, call' = [call EXCEPT ![c].page = @ + 1, ![c].seen = n]
      PROVE  CallOK' /\ Moves(c)
    <2>1. [call[c] EXCEPT !.page = @ + 1, !.seen = n] \in Local
        <3>1. call[c].page + 1 \in Nat
            BY <1>0 DEF Local
        <3> QED
            BY <1>0, <3>1 DEF Local
    <2>2. call' = [call EXCEPT ![c] = [call[c] EXCEPT !.page = @ + 1, !.seen = n]]
        BY <1>5
    <2>3. CallOK' /\ StayMoves(c)
        BY <1>0, <2>1, <2>2 DEF CallOK, Local, StayMoves
    <2> QED
        BY <1>0, <1>2, <2>3, StillMoves
<1>6. call[c].seen + Cardinality(Page(Listed(Kind(c)), call[c].page)) \in Nat
    BY <1>0, ListType DEF Local
<1> QED
    BY <1>1, <1>3, <1>4, <1>5, <1>6 DEF CheckNoDuplicateName

-----------------------------------------------------------------------------
LEMMA ServerSteps ==
    ASSUME CallOK, ServiceOK, NEW c \in DOMAIN plan, Placed(c, call[c].pc), ServerStep(c)
    PROVE  CallOK' /\ Moves(c) /\ (Quiet \/ FirstRead(c))
<1>0. c \in Call /\ call[c] \in Local
    BY PlanType DEF ServiceOK, CallOK
<1>r. {"settled", "accepted", "unchanged", "invalid", "notSettled", "failed"} \subseteq Result
    BY DEF Result
<1>p. {"quote", "send", "list", "settle", "keep", "done"} \subseteq PC
    BY DEF PC
<1>f. ASSUME NEW ops, Reading(c, ops), FirstRead(c) PROVE Forgets(c) /\ call[c].pc = "read" /\ Asked(c) \in ops
    BY <1>f, <1>0, RaceType DEF Reading
<1>q. ASSUME Quiet PROVE Forgets(c) /\ raced' = raced
    BY <1>q, <1>0, RaceType
<1>n. ASSUME Return(c, "notSettled"), Quiet, call[c].pc \in {"early", "settle"} PROVE CallOK' /\ Moves(c)
    BY <1>n, <1>0, <1>r, <1>q, ReturnType, ReturnMoves
<1>1. CASE ToggleServerStatus(c)
    <2>1. Asked(c) \in {"start", "stop"} /\ Here(c).status = From(c) => Fits(c)
        BY DEF From, Fits, CreateOps
    <2> QED
        BY <1>1, <2>1, <1>0, <1>r, <1>p, <1>f, ReturnType, ReturnMoves, GotoType, GoMoves
           DEF ToggleServerStatus, Reading, Fresh, Placed, Checked
<1>2. CASE WaitServerStatus(c)
    BY <1>2, <1>0, <1>n, AwaitMoves DEF WaitServerStatus, Sent, Await
<1>3. CASE RebootServer(c)
    <2>1. Asked(c) = "reboot" /\ Here(c).status = "ACTIVE" => Fits(c)
        BY DEF Fits, CreateOps
    <2> QED
        BY <1>3, <2>1, <1>0, <1>r, <1>p, <1>f, ReturnType, ReturnMoves, GotoType, GoMoves
           DEF RebootServer, Reading, Fresh, Placed, Checked
<1>4. CASE WaitServerRebooted(c)
    BY <1>4, <1>0, <1>n, AwaitMoves DEF WaitServerRebooted, Await
<1>5. CASE RebootMinWait(c)
    BY <1>5, <1>0, <1>p, <1>q, GotoType, GoMoves DEF RebootMinWait, Fresh, Placed
<1>6. CASE ResizeServer(c)
    <2>1. Asked(c) = "resizeServer" /\ Here(c).val # plan[c].val => Fits(c)
        BY DEF Fits, CreateOps
    <2> QED
        BY <1>6, <2>1, <1>0, <1>r, <1>p, <1>f, ReturnType, ReturnMoves, GotoType, GoMoves
           DEF ResizeServer, Reading, Fresh, Placed, Checked, ResizeOps
<1>7. CASE WaitServerResized(c)
    BY <1>7, <1>0, <1>n, AwaitMoves DEF WaitServerResized, Sent, Await
<1>8. CASE DeleteServer(c)
    BY <1>8, <1>0, <1>r, <1>p, <1>f, ReturnType, ReturnMoves, GotoType, GoMoves
       DEF DeleteServer, Reading, Fresh, Placed
<1>9. CASE ListVolumesByServer(c)
    <2>1. Asked(c) = "deleteServer" /\ Fits(c) /\ call[c].pc = "list" /\ Quiet
        BY <1>9 DEF ListVolumesByServer, Placed, Fits, CreateOps
    <2>2. PICK ids \in SUBSET Volume : call' = [call EXCEPT ![c].pc = "send", ![c].kept = ids]
        BY <1>9 DEF ListVolumesByServer, Attached
    <2>3. [call[c] EXCEPT !.pc = "send", !.kept = ids] \in Local
        BY <1>0, <1>p DEF Local
    <2>4. CallOK' /\ call'[c].pc = "send" /\ call'[c].result = call[c].result
          /\ \A d \in Call \ {c} : call'[d] = call[d]
        BY <1>0, <2>2, <2>3 DEF CallOK, Local
    <2> QED
        BY <2>1, <2>4, <1>q DEF Moves, Fresh, Placed, Checked
<1>10. CASE WaitServerDeleted(c)
    <2>1. ASSUME call' = [call EXCEPT ![c].pc = "keep", ![c].todo = call[c].kept, ![c].reads = 0], Quiet,
                 call[c].pc = "settle", Asked(c) = "deleteServer"
          PROVE  CallOK' /\ Moves(c)
        <3>1. [call[c] EXCEPT !.pc = "keep", !.todo = call[c].kept, !.reads = 0] \in Local
            <4>1. 0 \in 0..MaxReads /\ call[c].kept \in SUBSET Volume
                BY <1>0, CloudAssumption DEF Local
            <4> QED
                BY <1>0, <1>p, <4>1 DEF Local
        <3>2. CallOK' /\ call'[c].pc = "keep" /\ call'[c].result = call[c].result
              /\ \A d \in Call \ {c} : call'[d] = call[d]
            BY <1>0, <2>1, <3>1 DEF CallOK, Local
        <3> QED
            BY <2>1, <3>2, <1>q DEF Moves, Fresh, Placed
    <2> QED
        BY <1>10, <2>1, <1>0, <1>r, <1>q, ReturnType, ReturnMoves, PollType, PollMoves
           DEF WaitServerDeleted, Sent
<1>11. CASE KeptVolumes(c)
    <2>1. PICK v \in Volume, gone \in BOOLEAN : ReadKept(c, v, gone)
        BY <1>0, <1>11 DEF KeptVolumes, Local
    <2>2. call[c].pc = "keep" /\ Quiet
        BY <1>11 DEF KeptVolumes
    <2> DEFINE kept == IF gone THEN call[c].kept \ {v} ELSE call[c].kept
               todo == call[c].todo \ {v}
               next == [call[c] EXCEPT !.kept = kept, !.todo = todo,
                          !.pc = IF todo = {} THEN "done" ELSE @,
                          !.result = IF todo = {} THEN "settled" ELSE @]
    <2>3. next \in Local
        BY <1>0, <1>p, <1>r DEF Local
    <2>4. call' = [call EXCEPT ![c] = next]
        BY <2>1 DEF ReadKept
    <2>5. next.pc \in {"keep", "done"} /\ (next.pc = "done" => next.result = "settled")
          /\ (next.pc = "keep" => next.result = call[c].result)
        BY <1>0, <2>2 DEF Local
    <2>6. CallOK' /\ call'[c] = next /\ \A d \in Call \ {c} : call'[d] = call[d]
        BY <1>0, <2>3, <2>4 DEF CallOK
    <2> HIDE DEF next
    <2> QED
        BY <2>2, <2>5, <2>6, <1>q DEF Moves, Fresh, Placed
<1>12. CASE WaitServerActive(c)
    BY <1>12, <1>0, <1>q, AwaitMoves, PollType, PollMoves DEF WaitServerActive, Sent, Await
<1> QED
    BY <1>1, <1>2, <1>3, <1>4, <1>5, <1>6, <1>7, <1>8, <1>9, <1>10, <1>11, <1>12
       DEF ServerStep, ToggleServerStatus, WaitServerStatus, RebootServer, WaitServerRebooted,
           RebootMinWait, ResizeServer, WaitServerResized, DeleteServer, ListVolumesByServer,
           WaitServerDeleted, KeptVolumes, WaitServerActive, Await

-----------------------------------------------------------------------------
LEMMA VolumeSteps ==
    ASSUME CallOK, ServiceOK, NEW c \in DOMAIN plan, Placed(c, call[c].pc), VolumeStep(c)
    PROVE  CallOK' /\ Moves(c) /\ (Quiet \/ FirstRead(c))
<1>0. c \in Call /\ call[c] \in Local
    BY PlanType DEF ServiceOK, CallOK
<1>r. {"settled", "unchanged", "invalid", "notSettled"} \subseteq Result
    BY DEF Result
<1>p. {"quote", "send", "readServer"} \subseteq PC
    BY DEF PC
<1>f. ASSUME NEW ops, Begins(c, ops), FirstRead(c) PROVE Forgets(c) /\ call[c].pc = "read" /\ Asked(c) \in ops
    BY <1>f, <1>0, RaceType DEF Begins
<1>q. ASSUME Quiet PROVE Forgets(c) /\ raced' = raced
    BY <1>q, <1>0, RaceType
<1>n. ASSUME NEW r \in {"settled", "notSettled"}, Return(c, r), Quiet, call[c].pc = "settle"
      PROVE  CallOK' /\ Moves(c)
    BY <1>n, <1>0, <1>r, <1>q, ReturnType, ReturnMoves
<1>1. CASE AttachVolume(c)
    <2>1. Asked(c) = "attach" => Fits(c)
        BY DEF Fits, CreateOps
    <2> QED
        BY <1>1, <2>1, <1>0, <1>r, <1>p, <1>f, ReturnType, ReturnMoves, GotoType, GoMoves
           DEF AttachVolume, Begins, Fresh, Placed, Checked
<1>2. CASE WaitVolumeAttached(c)
    BY <1>2, <1>0, <1>n, AwaitMoves DEF WaitVolumeAttached, Polls, Await
<1>3. CASE DetachVolume(c)
    BY <1>3, <1>0, <1>r, <1>p, <1>f, ReturnType, ReturnMoves, GotoType, GoMoves
       DEF DetachVolume, Begins, Fresh, Placed
<1>4. CASE ReadServer(c)
    <2>1. Asked(c) = "detach" /\ call[c].pc = "readServer" /\ Quiet
        BY <1>4 DEF ReadServer, Placed
    <2>2. CASE Return(c, "invalid")
        BY <2>1, <2>2, <1>0, <1>r, <1>q, ReturnType, ReturnMoves DEF Fresh
    <2>3. CASE Goto(c, "send") /\ On(c) # BootVolume[plan[c].server]
               /\ (plan[c].flag \/ StatusOf(plan[c].server) = "STOPPED")
        <3>1. Fits(c)
            BY <2>1, <2>3 DEF Fits, CreateOps
        <3> QED
            BY <2>1, <2>3, <3>1, <1>0, <1>p, <1>q, GotoType, GoMoves DEF Fresh, Placed, Checked
    <2> QED
        BY <1>4, <2>1, <2>2, <2>3 DEF ReadServer
<1>5. CASE WaitVolumeDetached(c)
    BY <1>5, <1>0, <1>n, AwaitMoves DEF WaitVolumeDetached, Polls, Await
<1>6. CASE ResizeVolume(c)
    <2>1. Asked(c) = "resizeVolume" /\ Here(c).val < plan[c].val => Fits(c)
        BY DEF Fits, CreateOps
    <2> QED
        BY <1>6, <2>1, <1>0, <1>r, <1>p, <1>f, ReturnType, ReturnMoves, GotoType, GoMoves
           DEF ResizeVolume, Begins, Fresh, Placed, Checked, ResizeOps
<1>7. CASE WaitVolumeResized(c)
    BY <1>7, <1>0, <1>n, AwaitMoves DEF WaitVolumeResized, Polls, Await
<1>8. CASE DeleteVolume(c)
    <2>1. Asked(c) = "deleteVolume" /\ Here(c).on = Nobody => Fits(c)
        BY DEF Fits, CreateOps
    <2> QED
        BY <1>8, <2>1, <1>0, <1>r, <1>p, <1>f, ReturnType, ReturnMoves, GotoType, GoMoves
           DEF DeleteVolume, Begins, Fresh, Placed, Checked
<1>9. CASE WaitVolumeDeleted(c)
    BY <1>9, <1>0, <1>n, AwaitMoves DEF WaitVolumeDeleted, Polls, Await
<1>10. CASE WaitVolumeAvailable(c)
    BY <1>10, <1>0, <1>q, AwaitMoves, PollType, PollMoves DEF WaitVolumeAvailable, Polls, Await
<1> QED
    BY <1>1, <1>2, <1>3, <1>4, <1>5, <1>6, <1>7, <1>8, <1>9, <1>10
       DEF VolumeStep, AttachVolume, WaitVolumeAttached, DetachVolume, ReadServer, WaitVolumeDetached,
           ResizeVolume, WaitVolumeResized, DeleteVolume, WaitVolumeDeleted, WaitVolumeAvailable, Await

\* The steps of a call that leave no request at the service.
QuietStep(c) == \/ CheckNoDuplicateName(c) \/ CheckPriceAboveMax(c) \/ ServerStep(c) \/ VolumeStep(c)
                \/ Refused(c) \/ NotTaken(c) \/ Break(c)

LEMMA QuietSteps ==
    ASSUME CallOK, ServiceOK, NEW c \in DOMAIN plan, Placed(c, call[c].pc), QuietStep(c)
    PROVE  CallOK' /\ ServiceOK' /\ Moves(c) /\ (Quiet \/ FirstRead(c))
<1>0. c \in Call /\ call[c] \in Local
    BY PlanType DEF ServiceOK, CallOK
<1>1. ASSUME CheckPriceAboveMax(c) PROVE CallOK' /\ Moves(c)
    BY <1>0, <1>1, RaceType, GotoType, GoMoves DEF CheckPriceAboveMax, PC, Fresh, Placed, Checked
<1>2. ASSUME Refused(c) PROVE CallOK' /\ Moves(c)
    BY <1>0, <1>2, RaceType, ReturnType, ReturnMoves DEF Refused, Result
<1>3. ASSUME NotTaken(c) PROVE CallOK' /\ Moves(c)
    BY <1>0, <1>3, RaceType, FailType, FailMoves DEF NotTaken
<1>4. ASSUME Break(c) PROVE CallOK' /\ Moves(c)
    <2>1. call[c].pc \in Fresh \cup {"early", "settle"}
        BY <1>0, <1>4 DEF Break, Local, PC, Fresh
    <2> QED
        BY <1>0, <1>4, <2>1, RaceType, ReturnType, ReturnMoves DEF Break, Result, Fresh
<1> QED
    BY <1>0, <1>1, <1>2, <1>3, <1>4, WalkStep, ServerSteps, VolumeSteps, QuietType
       DEF QuietStep, CheckPriceAboveMax, Refused, NotTaken, Break

\* A call that sent a request is past its reads, for good if it is sent once.
Leaves(c) ==
    /\ \A d \in Call \ {c} : call'[d] = call[d]
    /\ call'[c].pc \notin Fresh \cup {"keep"} /\ (Once(c) => call'[c].pc # "send")
    /\ call'[c].pc # "done" => call'[c].result = call[c].result
    /\ call'[c].pc = "done" => call'[c].result \notin {"invalid", "refused"}

LEMMA ReturnLeaves ==
    ASSUME CallOK, NEW c \in Call, NEW r \in Result \ {"invalid", "refused"}, Return(c, r)
    PROVE  CallOK' /\ Leaves(c)
<1>1. call'[c].pc = "done" /\ call'[c].result = r /\ \A d \in Call \ {c} : call'[d] = call[d]
    BY DEF CallOK, Return, Local
<1> QED
    BY <1>1, ReturnType DEF Leaves, Fresh

LEMMA FailLeaves ==
    ASSUME CallOK, NEW c \in Call, Fail(c), call[c].pc = "send"
    PROVE  CallOK' /\ Leaves(c)
<1>1. \A r \in {"ambiguous", "notSettled", "error"} : Return(c, r) => CallOK' /\ Leaves(c)
    BY ReturnLeaves DEF Result
<1>2. CallOK'
    BY FailType
<1>3. Leaves(c)
    <2>1. ASSUME ~Once(c) /\ call' = [call EXCEPT ![c].tries = @ + 1] PROVE Leaves(c)
        <3>1. StayMoves(c)
            BY <2>1 DEF StayMoves, CallOK, Local
        <3> QED
            BY <2>1, <3>1 DEF StayMoves, Leaves, Fresh
    <2> QED
        BY <1>1, <2>1 DEF Fail
<1> QED
    BY <1>2, <1>3

LEMMA SendSteps ==
    ASSUME CallOK, ServiceOK, NEW c \in DOMAIN plan, Accepted(c) \/ Outlives(c)
    PROVE  /\ CallOK' /\ ServiceOK' /\ Leaves(c) /\ call[c].pc = "send"
           /\ UNCHANGED <<plan, thing, raced, misfit>>
           /\ \A d \in Call \ {c} : taken'[d] = taken[d]
           /\ \E r : r.call = c /\ jobs' = jobs \cup {r}
<1>0. c \in Call /\ call[c] \in Local /\ call[c].tries \in Nat /\ call[c].pc = "send"
    BY PlanType, CloudAssumption DEF ServiceOK, CallOK, Local, Accepted, Outlives
<1>1. CallOK' /\ Leaves(c)
    <2>1. ASSUME Succeed(c) PROVE CallOK' /\ Leaves(c)
        <3>1. \A r \in {"accepted", "ambiguous"} : Return(c, r) => CallOK' /\ Leaves(c)
            BY <1>0, ReturnLeaves DEF Result
        <3>2. ASSUME NEW w \in {"early", "settle"}, Goto(c, w) PROVE CallOK' /\ Leaves(c)
            BY <1>0, <3>2, GotoType DEF Goto, CallOK, Local, PC, Leaves, Fresh
        <3> QED
            BY <2>1, <3>1, <3>2 DEF Succeed
    <2> QED
        BY <1>0, <2>1, FailLeaves DEF Accepted, Outlives
<1>2. \A at \in {"late", "queued"} : Request(c, at) \in Job /\ Request(c, at).call = c
    BY <1>0 DEF Request, Job, Status
<1>3. PICK at \in {"late", "queued"} : jobs' = jobs \cup {Request(c, at)}
    BY DEF Accepted, Outlives
<1>4. /\ UNCHANGED <<plan, thing, raced, misfit, freed>> /\ taken' \in [Call -> Nat]
      /\ \A d \in Call \ {c} : taken'[d] = taken[d]
    BY <1>0 DEF Accepted, Outlives, ServiceOK, history
<1>5. ServiceOK'
    BY <1>2, <1>3, <1>4 DEF ServiceOK
<1>6. \E r : r.call = c /\ jobs' = jobs \cup {r}
    BY <1>2, <1>3
<1> QED
    BY <1>0, <1>1, <1>4, <1>5, <1>6

-----------------------------------------------------------------------------
LEMMA JobType ==
    ASSUME ServiceOK, AskedInv, NEW j \in jobs
    PROVE  /\ j \in Job /\ j.call \in DOMAIN plan /\ j.call \in Call /\ On(j.call) \in Thing
           /\ thing[On(j.call)] \in Object /\ plan[j.call] \in Plan
<1>1. j \in Job /\ j.call \in DOMAIN plan
    BY DEF ServiceOK, AskedInv
<1>2. On(j.call) \in Thing /\ j.call \in Call /\ plan[j.call] \in Plan
    BY <1>1, PlanType DEF ServiceOK
<1> QED
    BY <1>1, <1>2 DEF ServiceOK

LEMMA AppliedType ==
    ASSUME ServiceOK, AskedInv, NEW j \in jobs, NEW gone \in {"GONE", "DELETED"}
    PROVE  Applied(j, gone) \in [Thing -> Object]
<1>1. /\ j \in Job /\ On(j.call) \in Thing /\ Here(j.call) \in Object /\ plan[j.call] \in Plan
      /\ thing \in [Thing -> Object]
    BY JobType DEF Here, ServiceOK
<1>2. \A st \in Status : [Here(j.call) EXCEPT !.status = st] \in Object
    BY <1>1 DEF Object
<1>3. {"ACTIVE", "STOPPED", "AVAILABLE", "IN-USE", gone} \subseteq Status /\ j.was \in Status
    BY <1>1 DEF Status, Job
<1>4. After(j, gone) \in Object
    <2>1. plan[j.call].server \in Server \cup {Nobody} /\ plan[j.call].val \in Value
        BY <1>1 DEF Plan
    <2> QED
        BY <1>2, <1>3, <2>1 DEF After, Object
<1>5. \A x \in Thing : /\ [thing[x] EXCEPT !.status = "AVAILABLE", !.on = Nobody] \in Object
                       /\ [thing[x] EXCEPT !.status = gone, !.on = Nobody] \in Object
    BY <1>1, <1>3 DEF Object
<1> QED
    BY <1>1, <1>4, <1>5 DEF Applied

LEMMA ServiceSteps ==
    ASSUME CallOK, ServiceOK, AskedInv, NEW j \in jobs, Arrive(j) \/ StartJob(j) \/ EndJob(j)
    PROVE  ServiceOK' /\ call' = call /\ plan' = plan
<1>0. j \in Job /\ j.call \in Call /\ On(j.call) \in Thing /\ Here(j.call) \in Object
    BY JobType DEF Here
<1>1. Without(j) \subseteq Job
    BY DEF Without, ServiceOK
<1>2. CASE Arrive(j)
    <2>1. [j EXCEPT !.at = "queued"] \in Job
        BY <1>0 DEF Job
    <2>2. jobs' \subseteq Job /\ taken' \in [Call -> Nat]
        BY <1>0, <1>1, <1>2, <2>1 DEF Arrive, ServiceOK
    <2> QED
        BY <1>2, <2>2 DEF Arrive, ServiceOK
<1>3. CASE StartJob(j)
    <2>1. [j EXCEPT !.at = "running", !.was = Here(j.call).status] \in Job
        BY <1>0 DEF Job, Object
    <2>2. [thing EXCEPT ![On(j.call)].status = "CHANGING"] \in [Thing -> Object]
        BY <1>0 DEF ServiceOK, Object, Status
    <2>3. jobs' \subseteq Job /\ thing' \in [Thing -> Object]
        BY <1>1, <1>3, <2>1, <2>2 DEF StartJob, ServiceOK
    <2>4. DOMAIN plan \subseteq Call
        BY PlanType DEF ServiceOK
    <2>5. raced' \subseteq Call /\ misfit' \subseteq Call
        BY <1>0, <1>3, <2>4 DEF StartJob, Races, ServiceOK
    <2> QED
        BY <1>3, <2>3, <2>5 DEF StartJob, ServiceOK
<1>4. CASE EndJob(j)
    <2>1. [thing EXCEPT ![On(j.call)].status = "ERROR"] \in [Thing -> Object]
        BY <1>0 DEF ServiceOK, Object, Status
    <2>2. thing' \in [Thing -> Object]
        BY <1>4, <2>1, AppliedType DEF EndJob, ServiceOK
    <2>3. DOMAIN plan \subseteq Call /\ Leftover(j.call) \subseteq Volume
        BY PlanType DEF ServiceOK, Leftover, Attached
    <2>4. raced' \subseteq Call /\ freed' \subseteq Call \X Volume
        BY <1>0, <1>4, <2>3 DEF EndJob, Races, ServiceOK
    <2> QED
        BY <1>1, <1>4, <2>2, <2>4 DEF EndJob, ServiceOK
<1> QED
    BY <1>2, <1>3, <1>4

-----------------------------------------------------------------------------
Unsent(c) == taken[c] = 0 /\ \A j \in jobs : j.call # c

SentInv == \A c \in DOMAIN plan :
    /\ call[c].pc # "done" => call[c].result = "none"
    /\ call[c].pc \in Fresh => Unsent(c)
    /\ Once(c) /\ (call[c].pc = "send" \/ call[c].result \in {"invalid", "refused"}) => Unsent(c)
    /\ Once(c) => \A i, j \in jobs : i.call = c /\ j.call = c => i = j

LEMMA SentQuiet ==
    ASSUME ServiceOK, SentInv, NEW c \in DOMAIN plan, Moves(c), Quiet \/ FirstRead(c)
    PROVE  SentInv'
<1>1. UNCHANGED <<plan, jobs, taken>> /\ DOMAIN plan \subseteq Call
    BY PlanType DEF Quiet, FirstRead, history, ServiceOK
<1> SUFFICES ASSUME NEW d \in DOMAIN plan
             PROVE  /\ call'[d].pc # "done" => call'[d].result = "none"
                    /\ call'[d].pc \in Fresh => Unsent(d)
                    /\ Once(d) /\ (call'[d].pc = "send" \/ call'[d].result \in {"invalid", "refused"})
                         => Unsent(d)
                    /\ Once(d) => \A i, j \in jobs : i.call = d /\ j.call = d => i = j
    BY <1>1 DEF SentInv, Unsent, Once, Asked
<1>2. CASE d # c
    BY <1>1, <1>2 DEF Moves, SentInv
<1>3. CASE d = c
    <2>1. call[c].result = "none"
        BY DEF Moves, SentInv
    <2>2. call'[c].pc # "done" => call'[c].result = "none"
        BY <2>1 DEF Moves
    <2> QED
        BY <1>3, <2>1, <2>2 DEF Moves, SentInv
<1> QED
    BY <1>2, <1>3

LEMMA SentSend ==
    ASSUME CallOK, ServiceOK, SentInv, NEW c \in DOMAIN plan, Accepted(c) \/ Outlives(c)
    PROVE  SentInv'
<1>1. /\ Leaves(c) /\ call[c].pc = "send" /\ plan' = plan /\ DOMAIN plan \subseteq Call
      /\ \A d \in Call \ {c} : taken'[d] = taken[d]
    BY SendSteps, PlanType DEF ServiceOK
<1>2. PICK r : r.call = c /\ jobs' = jobs \cup {r}
    BY SendSteps
<1> SUFFICES ASSUME NEW d \in DOMAIN plan
             PROVE  /\ call'[d].pc # "done" => call'[d].result = "none"
                    /\ call'[d].pc \in Fresh => Unsent(d)'
                    /\ Once(d) /\ (call'[d].pc = "send" \/ call'[d].result \in {"invalid", "refused"})
                         => Unsent(d)'
                    /\ Once(d) => \A i, j \in jobs' : i.call = d /\ j.call = d => i = j
    BY <1>1 DEF SentInv, Unsent, Once, Asked
<1>3. CASE d # c
    BY <1>1, <1>2, <1>3 DEF Leaves, SentInv, Unsent
<1>4. CASE d = c
    <2>1. call[c].result = "none" /\ (Once(c) => Unsent(c))
        BY <1>1 DEF SentInv
    <2>2. call'[c].pc # "done" => call'[c].result = "none"
        BY <1>1, <2>1 DEF Leaves
    <2>3. Once(c) => \A i, j \in jobs' : i.call = c /\ j.call = c => i = j
        BY <1>2, <2>1 DEF Unsent
    <2> QED
        BY <1>1, <1>4, <2>2, <2>3 DEF Leaves
<1> QED
    BY <1>3, <1>4

\* What the service does with a request makes none of another call.
Works(j) ==
    /\ UNCHANGED <<plan, call>>
    /\ \A d \in Call \ {j.call} : taken'[d] = taken[d]
    /\ jobs' = Without(j) \/ \E r : r.call = j.call /\ jobs' = Without(j) \cup {r}

LEMMA ServiceWorks ==
    ASSUME ServiceOK, AskedInv, NEW j \in jobs, Arrive(j) \/ StartJob(j) \/ EndJob(j)
    PROVE  Works(j)
<1>1. j \in Job /\ taken \in [Call -> Nat]
    BY JobType DEF ServiceOK
<1>2. \A at \in {"queued", "running"} : \A was : [j EXCEPT !.at = at].call = j.call
             /\ [j EXCEPT !.at = at, !.was = was].call = j.call
    BY <1>1 DEF Job
<1> QED
    BY <1>1, <1>2 DEF Works, Arrive, StartJob, EndJob

LEMMA SentWork ==
    ASSUME ServiceOK, AskedInv, SentInv, NEW j \in jobs, Works(j)
    PROVE  SentInv' /\ AskedInv'
<1>1. j.call \in DOMAIN plan /\ UNCHANGED <<plan, call>> /\ DOMAIN plan \subseteq Call
    BY PlanType DEF AskedInv, Works, ServiceOK
<1>2. \A k \in jobs' : k \in Without(j) \/ k.call = j.call
    BY DEF Works
<1>3. AskedInv'
    BY <1>1, <1>2 DEF AskedInv, Without
<1>4. ASSUME NEW d \in DOMAIN plan, Unsent(d) PROVE Unsent(d)'
    BY <1>1, <1>2, <1>4 DEF Unsent, Works, Without
<1>5. ASSUME NEW d \in DOMAIN plan, Once(d) PROVE \A i, k \in jobs' : i.call = d /\ k.call = d => i = k
    <2>1. \A i, k \in jobs : i.call = d /\ k.call = d => i = k
        BY <1>5 DEF SentInv
    <2>2. d = j.call => \A k \in Without(j) : k.call # d
        BY <2>1 DEF Without
    <2> QED
        BY <2>1, <2>2 DEF Works, Without
<1>6. SentInv'
    BY <1>1, <1>4, <1>5 DEF SentInv, Once, Asked
<1> QED
    BY <1>3, <1>6

-----------------------------------------------------------------------------
\* A call whose request may still be carried out; what it checked holds then.
Acting(c) == call[c].pc \in {"quote", "send"} \/ \E j \in jobs : j.call = c /\ j.at # "running"

FitInv ==
    /\ \A c \in DOMAIN plan : c \notin raced /\ Asked(c) \notin CreateOps /\ Acting(c) => Fits(c)
    /\ \A c \in misfit : Asked(c) \in CreateOps

PlaceInv == \A c \in DOMAIN plan : Placed(c, call[c].pc)

LEMMA FitQuiet ==
    ASSUME ServiceOK, SentInv, FitInv, PlaceInv, NEW c \in DOMAIN plan, Moves(c), Quiet \/ FirstRead(c)
    PROVE  FitInv' /\ PlaceInv'
<1>1. UNCHANGED <<plan, thing, jobs, misfit>> /\ DOMAIN plan \subseteq Call
    BY PlanType DEF Quiet, FirstRead, history, ServiceOK
<1>2. ASSUME NEW d \in DOMAIN plan, d \notin raced', Asked(d) \notin CreateOps, Acting(d)' PROVE Fits(d)
    <2>1. CASE d # c
        BY <1>1, <1>2, <2>1 DEF Moves, Forgets, FitInv, Acting
    <2>2. CASE d = c /\ call'[c].pc \in {"quote", "send"}
        <3>1. Checked(c)
            BY <2>2 DEF Moves
        <3> QED
            BY <1>2, <2>2, <3>1 DEF Checked, FitInv, Acting
    <2>3. CASE d = c /\ call'[c].pc \notin {"quote", "send"}
        <3>1. Acting(c) /\ ~Unsent(c)
            BY <1>1, <1>2, <2>3 DEF Acting, Unsent
        <3>2. raced' = raced
            BY <3>1 DEF SentInv, Moves, Forgets, Fresh
        <3> QED
            BY <1>2, <2>3, <3>1, <3>2 DEF FitInv
    <2> QED
        BY <2>1, <2>2, <2>3
<1>3. \A d \in DOMAIN plan : Fits(d)' <=> Fits(d)
    BY <1>1 DEF Fits, Asked, On, Here, StatusOf, Kind
<1>4. FitInv'
    BY <1>1, <1>2, <1>3 DEF FitInv, Asked
<1>5. PlaceInv'
    BY <1>1 DEF PlaceInv, Moves, Placed, Asked
<1> QED
    BY <1>4, <1>5

LEMMA FitSend ==
    ASSUME CallOK, ServiceOK, FitInv, PlaceInv, NEW c \in DOMAIN plan, Accepted(c) \/ Outlives(c)
    PROVE  FitInv' /\ PlaceInv'
<1>1. /\ Leaves(c) /\ call[c].pc = "send" /\ UNCHANGED <<plan, thing, raced, misfit>>
      /\ DOMAIN plan \subseteq Call
    BY SendSteps, PlanType DEF ServiceOK
<1>2. PICK r : r.call = c /\ jobs' = jobs \cup {r}
    BY SendSteps
<1>3. \A d \in DOMAIN plan : Acting(d)' => Acting(d)
    BY <1>1, <1>2 DEF Acting, Leaves
<1>4. \A d \in DOMAIN plan : Fits(d)' <=> Fits(d)
    BY <1>1 DEF Fits, Asked, On, Here, StatusOf, Kind
<1>5. FitInv'
    BY <1>1, <1>3, <1>4 DEF FitInv, Asked
<1>6. PlaceInv'
    <2>1. \A d \in DOMAIN plan : call'[d].pc \in Fresh \cup {"keep"} => call'[d] = call[d]
        BY <1>1 DEF Leaves
    <2> QED
        BY <1>1, <2>1 DEF PlaceInv, Placed, Asked, Fresh
<1> QED
    BY <1>5, <1>6

-----------------------------------------------------------------------------
\* An operation changes its object, and a delete of a server its volumes.
LEMMA Elsewhere ==
    ASSUME ServiceOK, AskedInv, NEW j \in jobs, StartJob(j) \/ EndJob(j), NEW x \in Thing,
           x # On(j.call), ~(Asked(j.call) = "deleteServer" /\ x \in Volume /\ thing[x].on = On(j.call))
    PROVE  thing'[x] = thing[x]
<1>1. thing \in [Thing -> Object] /\ On(j.call) \in Thing
    BY JobType DEF ServiceOK
<1>2. CASE StartJob(j)
    BY <1>1, <1>2 DEF StartJob
<1>3. CASE EndJob(j)
    <2>1. \A gone : Applied(j, gone)[x] = thing[x]
        BY DEF Applied, Leftover, Attached
    <2> QED
        BY <1>1, <1>3, <2>1 DEF EndJob
<1> QED
    BY <1>2, <1>3

LEMMA OthersFit ==
    ASSUME ServiceOK, AskedInv, NEW j \in jobs, StartJob(j) \/ EndJob(j), NEW d \in DOMAIN plan,
           d # j.call, d \notin raced', Asked(d) \notin CreateOps, Fits(d)
    PROVE  Fits(d)'
<1>1. plan' = plan
    BY DEF StartJob, EndJob
<1>2. CASE thing' = thing
    BY <1>1, <1>2 DEF Fits, Asked, On, Here, StatusOf, Kind
<1>3. CASE Races(j.call)
    <2>1. ~RacesWith(j.call, d)
        BY <1>3 DEF Races
    <2>2. On(d) \in Thing /\ (Asked(d) = "detach" => plan[d].server \in Server)
        BY PlanType DEF ServiceOK
    <2>3. Here(d)' = Here(d)
        BY <1>1, <2>1, <2>2, Elsewhere DEF RacesWith, Here, On
    <2>4. Asked(d) = "detach" => thing'[plan[d].server] = thing[plan[d].server]
        BY <2>1, <2>2, Elsewhere, CloudAssumption DEF RacesWith, Thing
    <2> QED
        BY <1>1, <2>3, <2>4 DEF Fits, Asked, On, StatusOf
<1> QED
    BY <1>2, <1>3 DEF StartJob, EndJob

\* The retried request of a call finds what its first attempt left: a volume
\* the call detaches or deletes, which its own operation does not put back.
LEMMA OwnFits ==
    ASSUME ServiceOK, AskedInv, NEW j \in jobs, StartJob(j) \/ EndJob(j),
           Asked(j.call) \notin CreateOps, ~Once(j.call), Fits(j.call)
    PROVE  Fits(j.call)'
<1>1. plan' = plan /\ On(j.call) \in Thing /\ j.call \in DOMAIN plan /\ thing \in [Thing -> Object]
    BY JobType DEF StartJob, EndJob, ServiceOK
<1>2. Asked(j.call) \in {"attach", "detach", "deleteServer", "deleteVolume"}
    <2>1. plan[j.call] \in Plan
        BY JobType
    <2> QED
        BY <2>1 DEF Plan, Once, Asked, ServerOps, VolumeOps, CreateOps, ResizeOps
<1>3. CASE Asked(j.call) \in {"attach", "deleteServer"}
    BY <1>1, <1>3 DEF Fits, Asked, CreateOps
<1>4. CASE Asked(j.call) = "detach"
    <2>1. plan[j.call].server \in Server /\ On(j.call) \notin Server
        BY <1>1, <1>4, PlanType DEF ServiceOK, ServerOps
    <2>2. thing'[plan[j.call].server] = thing[plan[j.call].server]
        BY <1>4, <2>1, Elsewhere DEF Thing
    <2> QED
        BY <1>1, <1>4, <2>2 DEF Fits, Asked, On, StatusOf, CreateOps
<1>5. CASE Asked(j.call) = "deleteVolume"
    <2>1. thing[On(j.call)].on = Nobody
        BY <1>5 DEF Fits, Here, CreateOps
    <2>2. \A gone : Applied(j, gone)[On(j.call)].on = Nobody
        BY <1>1, <1>5 DEF Applied, After, Here, CreateOps, ResizeOps, Object
    <2>3. thing'[On(j.call)].on = Nobody
        BY <1>1, <2>1, <2>2 DEF StartJob, EndJob, Object
    <2> QED
        BY <1>1, <1>5, <2>3 DEF Fits, Asked, On, Here, CreateOps
<1> QED
    BY <1>2, <1>3, <1>4, <1>5

LEMMA FitWork ==
    ASSUME ServiceOK, AskedInv, SentInv, FitInv, PlaceInv, NEW j \in jobs,
           Arrive(j) \/ StartJob(j) \/ EndJob(j)
    PROVE  FitInv' /\ PlaceInv'
<1>1. UNCHANGED <<plan, call>> /\ DOMAIN plan \subseteq Call /\ j.call \in DOMAIN plan /\ j \in Job
    BY JobType, PlanType DEF ServiceOK, Arrive, StartJob, EndJob
<1>2. PlaceInv'
    BY <1>1 DEF PlaceInv, Placed, Asked
<1>3. CASE Arrive(j)
    <2>1. UNCHANGED <<thing, raced, misfit>> /\ j.at = "late"
        BY <1>3 DEF Arrive
    <2>2. [j EXCEPT !.at = "queued"].call = j.call
        BY <1>1 DEF Job
    <2>3. \A d \in DOMAIN plan : Acting(d)' => Acting(d)
        BY <1>1, <1>3, <2>1, <2>2 DEF Acting, Arrive, Without
    <2>4. \A d \in DOMAIN plan : Fits(d)' <=> Fits(d)
        BY <1>1, <2>1 DEF Fits, Asked, On, Here, StatusOf, Kind
    <2>5. FitInv'
        BY <1>1, <2>1, <2>3, <2>4 DEF FitInv, Asked
    <2> QED
        BY <1>2, <2>5
<1>4. CASE StartJob(j) \/ EndJob(j)
    <2>1. raced \subseteq raced'
        BY <1>4 DEF StartJob, EndJob, Races
    <2>2. [j EXCEPT !.at = "running", !.was = Here(j.call).status].at = "running"
        BY <1>1 DEF Job
    <2>3. \A k \in jobs' : k \in Without(j) \/ k.at = "running"
        BY <1>4, <2>2 DEF StartJob, EndJob
    <2>4. ASSUME NEW d \in DOMAIN plan, d \notin raced', Asked(d) \notin CreateOps, Acting(d)'
          PROVE  Fits(d)'
        <3>1. Acting(d) /\ Fits(d)
            BY <1>1, <2>1, <2>3, <2>4 DEF Acting, Without, FitInv
        <3>2. CASE d # j.call
            BY <1>4, <2>4, <3>1, <3>2, OthersFit
        <3>3. CASE d = j.call
            <4>1. ~Once(d)
                BY <1>1, <2>3, <2>4, <3>3 DEF Acting, Without, SentInv, Unsent, Fresh
            <4> QED
                BY <1>4, <2>4, <3>1, <3>3, <4>1, OwnFits
        <3> QED
            BY <3>2, <3>3
    <2>5. \A d \in misfit' : Asked(d) \in CreateOps
        <3>1. CASE EndJob(j)
            BY <3>1 DEF EndJob, FitInv
        <3>2. CASE StartJob(j)
            <4>1. Acting(j.call)
                BY <3>2, <1>1 DEF StartJob, Acting
            <4> QED
                BY <3>2, <4>1, <1>1 DEF StartJob, FitInv
        <3> QED
            BY <1>4, <3>1, <3>2
    <2>6. FitInv'
        BY <1>1, <2>4, <2>5 DEF FitInv, Asked
    <2> QED
        BY <1>2, <2>6
<1> QED
    BY <1>3, <1>4

-----------------------------------------------------------------------------
IInv == CallOK /\ ServiceOK /\ AskedInv /\ SentInv /\ FitInv /\ PlaceInv

LEMMA InvInit == Init => IInv
<1> SUFFICES ASSUME Init PROVE IInv
    OBVIOUS
<1>1. CallOK /\ ServiceOK /\ AskedInv /\ DOMAIN plan \subseteq Call
    BY TypeInit, PlanType DEF ServiceOK
<1>2. \A c \in DOMAIN plan : call[c].result = "none"
         /\ call[c].pc = IF Asked(c) \in CreateOps THEN "walk" ELSE "read"
    BY <1>1 DEF Init, Asked
<1>3. SentInv
    BY <1>1, <1>2 DEF SentInv, Unsent, Init
<1>4. FitInv /\ PlaceInv
    <2>1. \A c \in DOMAIN plan : Placed(c, call[c].pc) /\ call[c].pc \notin {"quote", "send"}
        BY <1>2 DEF Placed
    <2> QED
        BY <2>1 DEF FitInv, Acting, PlaceInv, Init
<1> QED
    BY <1>1, <1>3, <1>4 DEF IInv

\* The steps there are: only a call that has something to do takes any.
LEMMA NextCases ==
    ASSUME AskedInv, [Next]_vars
    PROVE  \/ UNCHANGED vars
           \/ \E c \in DOMAIN plan : QuietStep(c) \/ Accepted(c) \/ Outlives(c)
           \/ \E j \in jobs : Arrive(j) \/ StartJob(j) \/ EndJob(j)
<1>1. ASSUME NEW c \in Call, Step(c) \/ Break(c) PROVE call[c].pc # "done" /\ c \in DOMAIN plan
    <2>1. call[c].pc # "done"
        BY <1>1 DEF Step, Break, ServerStep, VolumeStep, CheckNoDuplicateName, CheckPriceAboveMax,
           ToggleServerStatus, WaitServerStatus, RebootServer, WaitServerRebooted, RebootMinWait,
           ResizeServer, WaitServerResized, DeleteServer, ListVolumesByServer, WaitServerDeleted,
           KeptVolumes, WaitServerActive, Reading, Sent, AttachVolume, WaitVolumeAttached, DetachVolume,
           ReadServer, WaitVolumeDetached, ResizeVolume, WaitVolumeResized, DeleteVolume,
           WaitVolumeDeleted, WaitVolumeAvailable, Begins, Polls, Accepted, Refused, NotTaken, Outlives
    <2> QED
        BY <2>1 DEF AskedInv
<1>2. ASSUME NEW c \in Call, Step(c) \/ Break(c) PROVE QuietStep(c) \/ Accepted(c) \/ Outlives(c)
    BY <1>2 DEF Step, QuietStep
<1> QED
    BY <1>1, <1>2 DEF Next, Service, Finished

LEMMA InvStep == IInv /\ [Next]_vars => IInv'
<1> SUFFICES ASSUME IInv, [Next]_vars PROVE IInv'
    OBVIOUS
<1> USE DEF IInv
<1>1. CASE UNCHANGED vars
    BY <1>1 DEF vars, history, CallOK, ServiceOK, AskedInv, SentInv, Unsent, FitInv, Acting, PlaceInv,
                Placed, Fits, Once, Asked, On, Here, StatusOf, Kind
<1>2. ASSUME NEW c \in DOMAIN plan, \A d \in Call \ {c} : call'[d] = call[d], plan' = plan,
             \A k \in jobs' : k \in jobs \/ k.call = c
      PROVE  AskedInv'
    BY <1>2 DEF AskedInv
<1>3. ASSUME NEW c \in DOMAIN plan, QuietStep(c) PROVE IInv'
    <2>1. CallOK' /\ ServiceOK' /\ Moves(c) /\ (Quiet \/ FirstRead(c))
        BY <1>3, QuietSteps DEF PlaceInv
    <2>2. AskedInv'
        BY <1>2, <2>1 DEF Moves, Quiet, FirstRead
    <2> QED
        BY <2>1, <2>2, SentQuiet, FitQuiet
<1>4. ASSUME NEW c \in DOMAIN plan, Accepted(c) \/ Outlives(c) PROVE IInv'
    <2>1. CallOK' /\ ServiceOK' /\ SentInv' /\ FitInv' /\ PlaceInv'
        BY <1>4, SendSteps, SentSend, FitSend
    <2>2. AskedInv'
        BY <1>2, <1>4, SendSteps DEF Leaves
    <2> QED
        BY <2>1, <2>2
<1>5. ASSUME NEW j \in jobs, Arrive(j) \/ StartJob(j) \/ EndJob(j) PROVE IInv'
    <2>1. CallOK' /\ ServiceOK'
        BY <1>5, ServiceSteps DEF CallOK
    <2>2. SentInv' /\ AskedInv'
        BY <1>5, ServiceWorks, SentWork
    <2>3. FitInv' /\ PlaceInv'
        BY <1>5, FitWork
    <2> QED
        BY <2>1, <2>2, <2>3
<1> QED
    BY <1>1, <1>3, <1>4, <1>5, NextCases

LEMMA Invariant == Spec => []IInv
BY InvInit, InvStep, PTL DEF Spec

-----------------------------------------------------------------------------
\* What the invariants about success, names and kept volumes need of a step of
\* a call that the service does not see.
JobsOf(c) == {j \in jobs : j.call = c}
Told == {"send", "early", "settle", "keep"}

\* serverRebootMinWait has passed.
Began(c) == Prompt => \A j \in JobsOf(c) : j.at # "queued" \/ StatusOf(On(c)) = "CHANGING"

\* The wait found the object as a write sent once leaves it, and not as it found it.
Landed(c) ==
    /\ call[c].pc = "settle" /\ StatusOf(On(c)) # "CHANGING"
    /\ Asked(c) \in CreateOps => StatusOf(On(c)) # "GONE"
    /\ Asked(c) \notin CreateOps \cup {"reboot"} => ~Fits(c)

\* The page a create is about to read does not have its name.
Clean(c) == \A i \in Page(Listed(Kind(c)), call[c].page) : NameOf[Order[i]] # NameOf[On(c)]

Data(s) == Attached(s) \ {BootVolume[s]}

Held(c) == Asked(c) \in CreateOps /\ raced' # raced => call[c].pc = "walk" /\ call[c].page = 1

Comes(c) ==
    /\ call'[c].pc \in {"early", "settle"} =>
         call'[c].pc = call[c].pc \/ (call[c].pc = "early" /\ Began(c))
    /\ call'[c].result = "settled" /\ Once(c) => Landed(c)
    /\ call[c].pc # "list" => \A v \in call[c].kept : v \in call'[c].kept \/ StatusOf(v) = "GONE"
    /\ call'[c].pc \in Told /\ Asked(c) = "deleteServer" =>
         call[c].pc \in Told \/ Data(On(c)) \subseteq call'[c].kept
    /\ Asked(c) \in CreateOps =>
         /\ call'[c].pc = "walk" => call[c].pc = "walk" /\ call'[c].page = call[c].page + 1 /\ Clean(c)
         /\ call'[c].pc = "quote" =>
              call[c].pc = "walk" /\ Clean(c) /\ call[c].page >= Pages(Listed(Kind(c)))
         /\ call'[c].pc = "send" => call[c].pc \in {"quote", "send"}
    /\ Held(c)

LEMMA ReturnComes ==
    ASSUME CallOK, NEW c \in Call, NEW r \in Result, Return(c, r), Held(c),
           r = "settled" /\ Once(c) => Landed(c)
    PROVE  Comes(c)
<1>1. call'[c].pc = "done" /\ call'[c].result = r /\ call'[c].kept = call[c].kept
    BY DEF CallOK, Return, Local
<1> QED
    BY <1>1 DEF Comes, Told

LEMMA GoComes ==
    ASSUME CallOK, NEW c \in Call, NEW w \in PC \ {"done", "walk"}, Goto(c, w), Held(c),
           call[c].result = "none",
           w \in {"early", "settle"} => call[c].pc = "early" /\ Began(c),
           w \in Told => call[c].pc \in Told \/ Asked(c) # "deleteServer",
           w \in {"quote", "send"} => Asked(c) \notin CreateOps
               \/ (w = "send" /\ call[c].pc = "quote")
               \/ (w = "quote" /\ call[c].pc = "walk" /\ Clean(c) /\ call[c].page >= Pages(Listed(Kind(c))))
    PROVE  Comes(c)
<1>1. call'[c].pc = w /\ call'[c].result = "none" /\ call'[c].kept = call[c].kept
    BY DEF CallOK, Goto, Local
<1> QED
    BY <1>1 DEF Comes

\* c reads or sends once more.
Stays(c) == /\ call'[c].pc = call[c].pc /\ call'[c].result = call[c].result
            /\ call'[c].kept = call[c].kept

LEMMA StayComes ==
    ASSUME NEW c \in Call, Stays(c), Held(c), call[c].result = "none", call[c].pc \in Told
    PROVE  Comes(c)
BY DEF Stays, Comes, Told

LEMMA PollComes ==
    ASSUME CallOK, NEW c \in Call, Poll(c), Held(c), call[c].result = "none", call[c].pc \in Told
    PROVE  Comes(c)
<1>1. CASE Return(c, "notSettled")
    BY <1>1, ReturnComes DEF Result
<1>2. CASE call' = [call EXCEPT ![c].reads = @ + 1]
    <2>1. Stays(c)
        BY <1>2 DEF Stays, CallOK, Local
    <2> QED
        BY <2>1, StayComes
<1> QED
    BY <1>1, <1>2 DEF Poll

LEMMA FailComes ==
    ASSUME CallOK, NEW c \in Call, Fail(c), Held(c), call[c].result = "none", call[c].pc = "send"
    PROVE  Comes(c)
<1>1. \A r \in {"ambiguous", "notSettled", "error"} : Return(c, r) => Comes(c)
    BY ReturnComes DEF Result
<1>2. CASE call' = [call EXCEPT ![c].tries = @ + 1]
    <2>1. Stays(c)
        BY <1>2 DEF Stays, CallOK, Local
    <2> QED
        BY <2>1, StayComes DEF Told
<1> QED
    BY <1>1, <1>2 DEF Fail

LEMMA HeldType == ASSUME NEW c, Quiet \/ Asked(c) \notin CreateOps PROVE Held(c)
BY DEF Quiet, history, Held

LEMMA AwaitComes ==
    ASSUME CallOK, NEW c \in Call, NEW STATE goal, NEW ACTION gone, Await(c, goal, gone),
           call[c].pc \in {"early", "settle"}, call[c].result = "none",
           goal /\ Once(c) /\ StatusOf(On(c)) # "GONE" => Landed(c),
           gone /\ Held(c) => Comes(c)
    PROVE  Comes(c)
<1>1. Held(c)
    BY HeldType DEF Await
<1>2. {"settled", "failed"} \subseteq Result
    BY DEF Result
<1> QED
    BY <1>1, <1>2, ReturnComes, PollComes DEF Await, Told

LEMMA WalkComes ==
    ASSUME CallOK, NEW c \in Call, call[c].result = "none", CheckNoDuplicateName(c)
    PROVE  Comes(c)
<1>0. call[c].pc = "walk" /\ call[c] \in Local
    BY DEF CheckNoDuplicateName, CallOK
<1>1. Held(c)
    BY <1>0 DEF CheckNoDuplicateName, Quiet, history, Held
<1> DEFINE items == Listed(Kind(c))
<1>2. ASSUME Return(c, "invalid") PROVE Comes(c)
    BY <1>1, <1>2, ReturnComes DEF Result
<1>3. ASSUME Goto(c, "quote"), Clean(c), call[c].page >= Pages(items) PROVE Comes(c)
    BY <1>0, <1>1, <1>3, GoComes DEF PC, Told
<1>4. ASSUME NEW n, call' = [call EXCEPT ![c].page = @ + 1, ![c].seen = n], Clean(c) PROVE Comes(c)
    <2>1. /\ call'[c].pc = "walk" /\ call'[c].result = "none" /\ call'[c].page = call[c].page + 1
          /\ call'[c].kept = call[c].kept
        BY <1>0, <1>4 DEF CallOK, Local
    <2> QED
        BY <1>0, <1>1, <1>4, <2>1 DEF Comes, Told
<1>5. Pages(items) = 0 => call[c].page >= Pages(items)
    BY <1>0 DEF Local
<1> QED
    BY <1>2, <1>3, <1>4, <1>5 DEF CheckNoDuplicateName, Clean

LEMMA KeptStep ==
    ASSUME CallOK, NEW c \in Call, NEW v, NEW gone \in BOOLEAN, call[c].pc = "keep", ReadKept(c, v, gone)
    PROVE  /\ call'[c].pc \in {"keep", "done"}
           /\ call'[c].kept = IF gone THEN call[c].kept \ {v} ELSE call[c].kept
<1> DEFINE kept == IF gone THEN call[c].kept \ {v} ELSE call[c].kept
           todo == call[c].todo \ {v}
           next == [call[c] EXCEPT !.kept = kept, !.todo = todo,
                      !.pc = IF todo = {} THEN "done" ELSE @,
                      !.result = IF todo = {} THEN "settled" ELSE @]
<1>1. call[c] \in Local
    BY DEF CallOK
<1>2. call' = [call EXCEPT ![c] = next]
    BY DEF ReadKept
<1>3. next.pc \in {"keep", "done"} /\ next.kept = kept
    BY <1>1 DEF Local
<1>4. call'[c] = next
    BY <1>2 DEF CallOK
<1> QED
    BY <1>3, <1>4

LEMMA ServerComes ==
    ASSUME CallOK, ServiceOK, NEW c \in DOMAIN plan, PlaceInv, call[c].result = "none", ServerStep(c)
    PROVE  Comes(c)
<1>0. c \in Call /\ call[c] \in Local /\ Placed(c, call[c].pc)
    BY PlanType DEF ServiceOK, CallOK, PlaceInv
<1>r. {"settled", "accepted", "unchanged", "invalid", "notSettled", "failed"} \subseteq Result
    BY DEF Result
<1>p. {"quote", "send", "list", "settle", "keep"} \subseteq PC \ {"done", "walk"}
    BY DEF PC
<1>n. ASSUME Return(c, "notSettled"), Held(c) PROVE Comes(c)
    BY <1>n, <1>0, <1>r, ReturnComes
<1>h. ASSUME NEW w \in {"quote", "send", "list"}, Goto(c, w), Asked(c) \notin CreateOps,
             w = "send" => Asked(c) # "deleteServer"
      PROVE  Comes(c)
    BY <1>h, <1>0, <1>p, HeldType, GoComes DEF Told
<1>i. ASSUME NEW r \in {"unchanged", "invalid"}, Return(c, r), Asked(c) \notin CreateOps PROVE Comes(c)
    BY <1>i, <1>0, <1>r, HeldType, ReturnComes
<1>1. CASE ToggleServerStatus(c)
    BY <1>1, <1>h, <1>i DEF ToggleServerStatus, Reading, CreateOps
<1>2. CASE WaitServerStatus(c)
    <2>1. /\ call[c].pc = "settle" /\ Asked(c) \in {"start", "stop"}
          /\ Await(c, Here(c).status = Target(c), Return(c, "notSettled"))
        BY <1>2 DEF WaitServerStatus, Sent
    <2>2. Here(c).status = Target(c) => Landed(c)
        BY <2>1 DEF Landed, Target, Fits, CreateOps, StatusOf, Here
    <2> QED
        BY <2>1, <2>2, <1>0, <1>n, AwaitComes
<1>3. CASE RebootServer(c)
    BY <1>3, <1>h, <1>i DEF RebootServer, Reading, CreateOps
<1>4. CASE WaitServerRebooted(c)
    <2>1. /\ call[c].pc \in {"early", "settle"} /\ Asked(c) = "reboot"
          /\ Await(c, call[c].pc = "settle" /\ Here(c).status = "ACTIVE", Return(c, "notSettled"))
        BY <1>4 DEF WaitServerRebooted
    <2>2. call[c].pc = "settle" /\ Here(c).status = "ACTIVE" => Landed(c)
        BY <2>1 DEF Landed, CreateOps, StatusOf, Here
    <2> QED
        BY <2>1, <2>2, <1>0, <1>n, AwaitComes
<1>5. CASE RebootMinWait(c)
    <2>1. Began(c) /\ call[c].pc = "early" /\ Held(c) /\ Goto(c, "settle")
        BY <1>5, HeldType DEF RebootMinWait, Began, JobsOf, StatusOf, Here
    <2> QED
        BY <2>1, <1>0, <1>p, GoComes DEF Told
<1>6. CASE ResizeServer(c)
    BY <1>6, <1>h, <1>i DEF ResizeServer, Reading, CreateOps
<1>7. CASE WaitServerResized(c)
    <2>1. /\ call[c].pc = "settle" /\ Asked(c) = "resizeServer"
          /\ Await(c, Here(c).val = plan[c].val /\ Here(c).status \in {"ACTIVE", "STOPPED"}, Return(c, "notSettled"))
        BY <1>7 DEF WaitServerResized, Sent
    <2>2. Here(c).val = plan[c].val /\ Here(c).status \in {"ACTIVE", "STOPPED"} => Landed(c)
        BY <2>1 DEF Landed, Fits, CreateOps, StatusOf, Here
    <2> QED
        BY <2>1, <2>2, <1>0, <1>n, AwaitComes
<1>8. CASE DeleteServer(c)
    BY <1>8, <1>h, <1>i DEF DeleteServer, Reading, CreateOps
<1>9. CASE ListVolumesByServer(c)
    <2>1. Asked(c) = "deleteServer" /\ call[c].pc = "list" /\ Held(c)
        BY <1>0, <1>9, HeldType DEF ListVolumesByServer, Placed
    <2>2. PICK ids : Data(On(c)) \subseteq ids /\ call' = [call EXCEPT ![c].pc = "send", ![c].kept = ids]
        BY <1>9 DEF ListVolumesByServer, Data
    <2>3. call'[c].pc = "send" /\ call'[c].kept = ids /\ call'[c].result = "none"
        BY <1>0, <2>2 DEF CallOK, Local
    <2> QED
        BY <2>1, <2>2, <2>3 DEF Comes, CreateOps
<1>10. CASE WaitServerDeleted(c)
    <2>1. call[c].pc = "settle" /\ Asked(c) = "deleteServer" /\ Held(c) /\ ~Once(c)
        BY <1>10, HeldType DEF WaitServerDeleted, Sent, Once, CreateOps, ResizeOps
    <2>2. ASSUME call' = [call EXCEPT ![c].pc = "keep", ![c].todo = call[c].kept, ![c].reads = 0] PROVE Comes(c)
        <3>1. call'[c].pc = "keep" /\ call'[c].kept = call[c].kept /\ call'[c].result = "none"
            BY <1>0, <2>2 DEF CallOK, Local
        <3> QED
            BY <2>1, <3>1 DEF Comes, Told
    <2> QED
        BY <1>10, <2>1, <2>2, <1>0, <1>r, ReturnComes, PollComes DEF WaitServerDeleted, Told
<1>11. CASE KeptVolumes(c)
    <2>1. PICK v : (StatusOf(v) = "GONE" /\ ReadKept(c, v, TRUE)) \/ ReadKept(c, v, FALSE)
        BY <1>11 DEF KeptVolumes
    <2>2. call[c].pc = "keep" /\ Held(c)
        BY <1>11, HeldType DEF KeptVolumes
    <2>3. ~Once(c)
        BY <1>0, <2>2 DEF Placed, Once, CreateOps, ResizeOps
    <2>4. call'[c].pc \in {"keep", "done"}
        BY <1>0, <2>1, <2>2, KeptStep
    <2>5. \/ StatusOf(v) = "GONE" /\ call'[c].kept = call[c].kept \ {v}
          \/ call'[c].kept = call[c].kept
        <3>1. TRUE \in BOOLEAN /\ FALSE \in BOOLEAN
            OBVIOUS
        <3>2. ASSUME ReadKept(c, v, TRUE) PROVE call'[c].kept = call[c].kept \ {v}
            BY <1>0, <2>2, <3>1, <3>2, KeptStep
        <3>3. ASSUME ReadKept(c, v, FALSE) PROVE call'[c].kept = call[c].kept
            BY <1>0, <2>2, <3>1, <3>3, KeptStep
        <3> QED
            BY <2>1, <3>2, <3>3
    <2>6. \A u \in call[c].kept : u \in call'[c].kept \/ StatusOf(u) = "GONE"
        BY <2>5
    <2> QED
        BY <2>2, <2>3, <2>4, <2>6 DEF Comes, Told
<1>12. CASE WaitServerActive(c)
    <2>1. /\ call[c].pc = "settle" /\ Asked(c) = "createServer"
          /\ Await(c, Here(c).status = "ACTIVE", Poll(c))
        BY <1>12 DEF WaitServerActive, Sent
    <2>2. Here(c).status = "ACTIVE" => Landed(c)
        BY <2>1 DEF Landed, CreateOps, StatusOf, Here
    <2>3. Poll(c) /\ Held(c) => Comes(c)
        BY <2>1, <1>0, PollComes DEF Told
    <2> QED
        BY <2>1, <2>2, <2>3, <1>0, AwaitComes
<1> QED
    BY <1>1, <1>2, <1>3, <1>4, <1>5, <1>6, <1>7, <1>8, <1>9, <1>10, <1>11, <1>12 DEF ServerStep

LEMMA VolumeComes ==
    ASSUME CallOK, ServiceOK, NEW c \in DOMAIN plan, PlaceInv, call[c].result = "none", VolumeStep(c)
    PROVE  Comes(c)
<1>0. c \in Call /\ call[c] \in Local /\ Placed(c, call[c].pc)
    BY PlanType DEF ServiceOK, CallOK, PlaceInv
<1>r. {"settled", "unchanged", "invalid", "notSettled"} \subseteq Result
    BY DEF Result
<1>p. {"quote", "send", "readServer"} \subseteq PC \ {"done", "walk"}
    BY DEF PC
<1>n. ASSUME Return(c, "notSettled"), Held(c) PROVE Comes(c)
    BY <1>n, <1>0, <1>r, ReturnComes
<1>h. ASSUME NEW w \in {"quote", "send", "readServer"}, Goto(c, w), Asked(c) \notin CreateOps,
             Asked(c) # "deleteServer"
      PROVE  Comes(c)
    BY <1>h, <1>0, <1>p, HeldType, GoComes DEF Told
<1>i. ASSUME NEW r \in {"unchanged", "invalid"}, Return(c, r), Asked(c) \notin CreateOps PROVE Comes(c)
    BY <1>i, <1>0, <1>r, HeldType, ReturnComes
<1>1. CASE AttachVolume(c)
    BY <1>1, <1>h, <1>i DEF AttachVolume, Begins, CreateOps
<1>2. CASE WaitVolumeAttached(c)
    <2>1. /\ call[c].pc = "settle" /\ ~Once(c)
          /\ Await(c, Here(c).status = "IN-USE" /\ Here(c).on = plan[c].server, Return(c, "notSettled"))
        BY <1>2 DEF WaitVolumeAttached, Polls, Once, CreateOps, ResizeOps
    <2> QED
        BY <2>1, <1>0, <1>n, AwaitComes
<1>3. CASE DetachVolume(c)
    BY <1>3, <1>h, <1>i DEF DetachVolume, Begins, CreateOps
<1>4. CASE ReadServer(c)
    <2>1. Asked(c) = "detach"
        BY <1>0, <1>4 DEF ReadServer, Placed
    <2> QED
        BY <1>4, <2>1, <1>h, <1>i DEF ReadServer, CreateOps
<1>5. CASE WaitVolumeDetached(c)
    <2>1. /\ call[c].pc = "settle" /\ ~Once(c)
          /\ Await(c, Here(c).status = "AVAILABLE", Return(c, "notSettled"))
        BY <1>5 DEF WaitVolumeDetached, Polls, Once, CreateOps, ResizeOps
    <2> QED
        BY <2>1, <1>0, <1>n, AwaitComes
<1>6. CASE ResizeVolume(c)
    BY <1>6, <1>h, <1>i DEF ResizeVolume, Begins, CreateOps
<1>7. CASE WaitVolumeResized(c)
    <2>1. /\ call[c].pc = "settle" /\ Asked(c) = "resizeVolume"
          /\ Await(c, Here(c).val = plan[c].val /\ Here(c).status \in {"AVAILABLE", "IN-USE"}, Return(c, "notSettled"))
        BY <1>7 DEF WaitVolumeResized, Polls
    <2>2. plan[c].val \in Nat
        <3>1. plan[c] \in Plan
            BY PlanType DEF ServiceOK
        <3> QED
            BY <3>1 DEF Plan, Value
    <2>3. Here(c).val = plan[c].val /\ Here(c).status \in {"AVAILABLE", "IN-USE"} => Landed(c)
        BY <2>1, <2>2 DEF Landed, Fits, CreateOps, StatusOf, Here
    <2> QED
        BY <2>1, <2>3, <1>0, <1>n, AwaitComes
<1>8. CASE DeleteVolume(c)
    BY <1>8, <1>h, <1>i DEF DeleteVolume, Begins, CreateOps
<1>9. CASE WaitVolumeDeleted(c)
    <2>1. /\ call[c].pc = "settle" /\ ~Once(c)
          /\ Await(c, Here(c).status = "DELETED", Return(c, "settled"))
        BY <1>9 DEF WaitVolumeDeleted, Polls, Once, CreateOps, ResizeOps
    <2>2. Return(c, "settled") /\ Held(c) => Comes(c)
        BY <2>1, <1>0, <1>r, ReturnComes
    <2> QED
        BY <2>1, <2>2, <1>0, AwaitComes
<1>10. CASE WaitVolumeAvailable(c)
    <2>1. /\ call[c].pc = "settle" /\ Asked(c) = "createVolume"
          /\ Await(c, Here(c).status = "AVAILABLE", Poll(c))
        BY <1>10 DEF WaitVolumeAvailable, Polls
    <2>2. Here(c).status = "AVAILABLE" => Landed(c)
        BY <2>1 DEF Landed, CreateOps, StatusOf, Here
    <2>3. Poll(c) /\ Held(c) => Comes(c)
        BY <2>1, <1>0, PollComes DEF Told
    <2> QED
        BY <2>1, <2>2, <2>3, <1>0, AwaitComes
<1> QED
    BY <1>1, <1>2, <1>3, <1>4, <1>5, <1>6, <1>7, <1>8, <1>9, <1>10 DEF VolumeStep

LEMMA QuietComes ==
    ASSUME CallOK, ServiceOK, NEW c \in DOMAIN plan, PlaceInv, call[c].result = "none", QuietStep(c)
    PROVE  Comes(c)
<1>0. c \in Call
    BY PlanType DEF ServiceOK
<1>1. ASSUME CheckPriceAboveMax(c) PROVE Comes(c)
    <2>1. call[c].pc = "quote" /\ Goto(c, "send") /\ Held(c)
        BY <1>1, HeldType DEF CheckPriceAboveMax
    <2>2. Asked(c) # "deleteServer"
        BY <2>1 DEF PlaceInv, Placed, CreateOps, ResizeOps
    <2> QED
        BY <1>0, <2>1, <2>2, GoComes DEF PC
<1>2. ASSUME Refused(c) PROVE Comes(c)
    BY <1>0, <1>2, HeldType, ReturnComes DEF Refused, Result
<1>3. ASSUME NotTaken(c) PROVE Comes(c)
    BY <1>0, <1>3, HeldType, FailComes DEF NotTaken
<1>4. ASSUME Break(c) PROVE Comes(c)
    BY <1>0, <1>4, HeldType, ReturnComes DEF Break, Result
<1> QED
    BY <1>0, <1>1, <1>2, <1>3, <1>4, WalkComes, ServerComes, VolumeComes DEF QuietStep

-----------------------------------------------------------------------------
\* The same of a step that sends a request.
LEMMA SendKinds ==
    ASSUME CallOK, NEW c \in Call, call[c].result = "none", Accepted(c) \/ Outlives(c)
    PROVE  /\ call'[c].result # "settled" /\ call'[c].kept = call[c].kept
           /\ call'[c].pc = "settle" => Asked(c) # "reboot"
           /\ \E at \in {"late", "queued"} : /\ jobs' = jobs \cup {Request(c, at)}
                                             /\ at = "late" => call'[c].pc \notin {"early", "settle"}
                                             /\ at = "queued" => Acceptable(c)
           /\ freed' = freed
<1>0. call[c].pc = "send" /\ freed' = freed
    BY DEF Accepted, Outlives, history
<1>1. ASSUME NEW r \in {"accepted", "ambiguous", "notSettled", "error"}, Return(c, r)
      PROVE  call'[c].result # "settled" /\ call'[c].kept = call[c].kept /\ call'[c].pc = "done"
    BY <1>1 DEF Return, CallOK, Local
<1>2. ASSUME Fail(c)
      PROVE  call'[c].result # "settled" /\ call'[c].kept = call[c].kept /\ call'[c].pc \in {"send", "done"}
    <2>1. ASSUME call' = [call EXCEPT ![c].tries = @ + 1]
          PROVE  call'[c].result = "none" /\ call'[c].kept = call[c].kept /\ call'[c].pc = "send"
        BY <1>0, <2>1 DEF CallOK, Local
    <2> QED
        BY <1>1, <1>2, <2>1 DEF Fail
<1>3. ASSUME Succeed(c)
      PROVE  /\ call'[c].result # "settled" /\ call'[c].kept = call[c].kept
             /\ call'[c].pc = "settle" => Asked(c) # "reboot"
    <2>1. ASSUME NEW w, Goto(c, w)
          PROVE  call'[c].result = "none" /\ call'[c].kept = call[c].kept /\ call'[c].pc = w
        BY <2>1 DEF Goto, CallOK, Local
    <2> QED
        BY <1>1, <1>3, <2>1 DEF Succeed
<1>4. CASE Accepted(c)
    BY <1>0, <1>2, <1>3, <1>4 DEF Accepted
<1>5. CASE Outlives(c)
    BY <1>0, <1>2, <1>5 DEF Outlives
<1> QED
    BY <1>4, <1>5

\* A request is told apart from what became of it by its place only.
LEMMA JobAt ==
    ASSUME ServiceOK, AskedInv, NEW j \in jobs, NEW at, NEW was
    PROVE  /\ [j EXCEPT !.at = at].call = j.call /\ [j EXCEPT !.at = at].at = at
           /\ [j EXCEPT !.at = at, !.was = was].call = j.call
           /\ [j EXCEPT !.at = at, !.was = was].at = at /\ [j EXCEPT !.at = at, !.was = was].was = was
BY JobType DEF Job

\* What is at the service after one of its steps.
LEMMA NextJobs ==
    ASSUME ServiceOK, AskedInv, NEW j \in jobs, NEW k \in jobs'
    PROVE  /\ Arrive(j) => k \in Without(j) \/ (k.call = j.call /\ k.at = "queued")
           /\ StartJob(j) => \/ k \in Without(j)
                             \/ /\ k.call = j.call /\ k.at = "running" /\ k.was = StatusOf(On(j.call))
                                /\ Acceptable(j.call)
           /\ EndJob(j) => k \in Without(j)
<1>1. ASSUME Arrive(j), k \notin Without(j) PROVE k.call = j.call /\ k.at = "queued"
    <2>1. k = [j EXCEPT !.at = "queued"]
        BY <1>1 DEF Arrive
    <2> QED
        BY <2>1, JobAt
<1>2. ASSUME StartJob(j), k \notin Without(j)
      PROVE  k.call = j.call /\ k.at = "running" /\ k.was = StatusOf(On(j.call)) /\ Acceptable(j.call)
    <2>1. k = [j EXCEPT !.at = "running", !.was = Here(j.call).status] /\ Acceptable(j.call)
        BY <1>2 DEF StartJob
    <2> QED
        BY <2>1, JobAt DEF Here, StatusOf
<1> QED
    BY <1>1, <1>2 DEF EndJob

\* What the service takes a request for.
LEMMA Accepting ==
    ASSUME NEW c, Acceptable(c)
    PROVE  IF Asked(c) \in CreateOps THEN StatusOf(On(c)) = "GONE"
           ELSE StatusOf(On(c)) \notin {"GONE", "DELETED", "CHANGING"}
BY DEF Acceptable, Here, StatusOf, CreateOps

\* The requests of another call stay as they are.
LEMMA OtherJobs ==
    ASSUME ServiceOK, AskedInv, NEW j \in jobs, Arrive(j) \/ StartJob(j) \/ EndJob(j), NEW d, d # j.call
    PROVE  JobsOf(d)' = JobsOf(d)
BY ServiceWorks DEF Works, JobsOf, Without

\* The service starts or ends something else: the object of a call stays as it
\* is unless the two race.
LEMMA OtherHere ==
    ASSUME ServiceOK, AskedInv, NEW j \in jobs, StartJob(j) \/ EndJob(j), NEW d \in DOMAIN plan,
           d # j.call, d \notin raced'
    PROVE  thing'[On(d)] = thing[On(d)] /\ d \notin raced
<1>1. CASE thing' = thing /\ raced' = raced
    BY <1>1
<1>2. CASE Races(j.call)
    <2>1. ~RacesWith(j.call, d) /\ On(d) \in Thing /\ d \notin raced
        BY <1>2, PlanType DEF Races, ServiceOK
    <2> QED
        BY <2>1, Elsewhere DEF RacesWith, Here
<1> QED
    BY <1>1, <1>2 DEF StartJob, EndJob

-----------------------------------------------------------------------------
\* A write sent once, and not raced with, that is still at the service has not
\* reached the state its wait looks for.
Ends(c) == Prompt \/ Asked(c) # "reboot"

LandInv == \A c \in DOMAIN plan : Once(c) =>
    /\ call[c].pc \in {"early", "settle"} => \A j \in JobsOf(c) : j.at # "late"
    /\ c \notin raced => \A j \in JobsOf(c) :
         /\ j.at = "running" => StatusOf(On(c)) = "CHANGING"
         /\ j.at = "queued" /\ Asked(c) \in CreateOps => StatusOf(On(c)) = "GONE"
         /\ Prompt /\ call[c].pc = "settle" /\ Asked(c) = "reboot" => j.at = "running"
         /\ Ends(c) => call[c].result # "settled"

LEMMA LandQuiet ==
    ASSUME ServiceOK, SentInv, FitInv, LandInv, NEW c \in DOMAIN plan, Moves(c), Comes(c),
           Quiet \/ FirstRead(c)
    PROVE  LandInv'
<1>1. UNCHANGED <<plan, thing, jobs>> /\ DOMAIN plan \subseteq Call /\ \A d : JobsOf(d)' = JobsOf(d)
    BY PlanType DEF Quiet, FirstRead, ServiceOK, JobsOf
<1> SUFFICES ASSUME NEW d \in DOMAIN plan, Once(d), NEW j \in JobsOf(d)
             PROVE  /\ call'[d].pc \in {"early", "settle"} => j.at # "late"
                    /\ d \notin raced' =>
                         /\ j.at = "running" => StatusOf(On(d)) = "CHANGING"
                         /\ j.at = "queued" /\ Asked(d) \in CreateOps => StatusOf(On(d)) = "GONE"
                         /\ Prompt /\ call'[d].pc = "settle" /\ Asked(d) = "reboot" => j.at = "running"
                         /\ Ends(d) => call'[d].result # "settled"
    BY <1>1 DEF LandInv, Once, Asked, On, StatusOf, Ends
<1>2. CASE d # c
    BY <1>1, <1>2 DEF LandInv, Moves, Forgets
<1>3. CASE d = c
    <2>1. raced' = raced
        BY <1>3 DEF SentInv, Unsent, JobsOf, Moves, Forgets, Fresh
    <2>2. call'[c].pc \in {"early", "settle"} => j.at # "late"
        BY <1>3 DEF Comes, LandInv
    <2> SUFFICES ASSUME c \notin raced
                 PROVE  /\ j.at = "running" => StatusOf(On(c)) = "CHANGING"
                        /\ j.at = "queued" /\ Asked(c) \in CreateOps => StatusOf(On(c)) = "GONE"
                        /\ Prompt /\ call'[c].pc = "settle" /\ Asked(c) = "reboot" => j.at = "running"
                        /\ Ends(c) => call'[c].result # "settled"
        BY <1>3, <2>1, <2>2
    <2>3. /\ j.at = "running" => StatusOf(On(c)) = "CHANGING"
          /\ j.at = "queued" /\ Asked(c) \in CreateOps => StatusOf(On(c)) = "GONE"
        BY <1>3 DEF LandInv
    <2>4. j \in Job /\ j.at \in {"late", "queued", "running"}
        BY DEF JobsOf, ServiceOK, Job
    <2>5. j.at # "running" /\ Asked(c) \notin CreateOps => Fits(c)
        BY <1>3 DEF FitInv, Acting, JobsOf
    <2>6. ASSUME Prompt, call'[c].pc = "settle", Asked(c) = "reboot" PROVE j.at = "running"
        <3>1. CASE call[c].pc = "settle"
            BY <1>3, <2>6, <3>1 DEF LandInv
        <3>2. CASE call[c].pc = "early" /\ Began(c)
            <4>1. j.at # "late" /\ (j.at = "queued" => StatusOf(On(c)) = "CHANGING")
                BY <1>3, <2>6, <3>2 DEF LandInv, Began
            <4>2. j.at = "queued" => StatusOf(On(c)) = "ACTIVE"
                BY <2>5, <2>6 DEF Fits, CreateOps, Here, StatusOf
            <4> QED
                BY <2>4, <4>1, <4>2
        <3> QED
            BY <2>6, <3>1, <3>2 DEF Comes
    <2>7. ASSUME Ends(c), call'[c].result = "settled" PROVE FALSE
        <3>1. Landed(c)
            BY <1>3, <2>7 DEF Comes
        <3>2. j.at = "queued"
            BY <1>3, <2>3, <2>4, <3>1 DEF Landed, LandInv
        <3>3. Asked(c) = "reboot"
            BY <2>3, <2>5, <3>1, <3>2 DEF Landed
        <3> QED
            BY <1>3, <2>7, <3>1, <3>2, <3>3 DEF LandInv, Ends, Landed
    <2> QED
        BY <2>3, <2>6, <2>7
<1> QED
    BY <1>2, <1>3

LEMMA LandSend ==
    ASSUME CallOK, ServiceOK, SentInv, LandInv, NEW c \in DOMAIN plan, Accepted(c) \/ Outlives(c)
    PROVE  LandInv'
<1>1. /\ UNCHANGED <<plan, thing, raced>> /\ DOMAIN plan \subseteq Call /\ call[c].pc = "send"
      /\ \A d \in Call \ {c} : call'[d] = call[d]
    BY SendSteps, PlanType DEF ServiceOK, Leaves
<1>2. call[c].result = "none" /\ (Once(c) => JobsOf(c) = {})
    BY <1>1 DEF SentInv, Unsent, JobsOf
<1>3. PICK at \in {"late", "queued"} : /\ jobs' = jobs \cup {Request(c, at)}
                                       /\ at = "late" => call'[c].pc \notin {"early", "settle"}
                                       /\ at = "queued" => Acceptable(c)
    BY <1>1, <1>2, SendKinds
<1>4. call'[c].result # "settled" /\ (call'[c].pc = "settle" => Asked(c) # "reboot")
    BY <1>1, <1>2, SendKinds
<1>5. Request(c, at).call = c /\ Request(c, at).at = at
    BY DEF Request
<1> SUFFICES ASSUME NEW d \in DOMAIN plan, Once(d), NEW j \in JobsOf(d)'
             PROVE  /\ call'[d].pc \in {"early", "settle"} => j.at # "late"
                    /\ d \notin raced =>
                         /\ j.at = "running" => StatusOf(On(d)) = "CHANGING"
                         /\ j.at = "queued" /\ Asked(d) \in CreateOps => StatusOf(On(d)) = "GONE"
                         /\ Prompt /\ call'[d].pc = "settle" /\ Asked(d) = "reboot" => j.at = "running"
                         /\ Ends(d) => call'[d].result # "settled"
    BY <1>1 DEF LandInv, Once, Asked, On, StatusOf, Ends
<1>6. CASE d # c
    <2>1. j \in JobsOf(d)
        BY <1>3, <1>5, <1>6 DEF JobsOf
    <2> QED
        BY <1>1, <1>6, <2>1 DEF LandInv
<1>7. CASE d = c
    <2>1. j = Request(c, at)
        BY <1>2, <1>3, <1>5, <1>7 DEF JobsOf
    <2>2. at = "queued" /\ Asked(c) \in CreateOps => StatusOf(On(c)) = "GONE"
        BY <1>3, Accepting
    <2> QED
        BY <1>3, <1>4, <1>5, <1>7, <2>1, <2>2
<1> QED
    BY <1>6, <1>7

LEMMA LandWork ==
    ASSUME ServiceOK, AskedInv, SentInv, LandInv, NEW j \in jobs, Arrive(j) \/ StartJob(j) \/ EndJob(j)
    PROVE  LandInv'
<1>1. UNCHANGED <<plan, call>> /\ j.call \in DOMAIN plan /\ On(j.call) \in Thing /\ thing \in [Thing -> Object]
    BY JobType DEF ServiceOK, Arrive, StartJob, EndJob
<1> SUFFICES ASSUME NEW d \in DOMAIN plan, Once(d), NEW k \in JobsOf(d)'
             PROVE  /\ call[d].pc \in {"early", "settle"} => k.at # "late"
                    /\ d \notin raced' =>
                         /\ k.at = "running" => StatusOf(On(d))' = "CHANGING"
                         /\ k.at = "queued" /\ Asked(d) \in CreateOps => StatusOf(On(d))' = "GONE"
                         /\ Prompt /\ call[d].pc = "settle" /\ Asked(d) = "reboot" => k.at = "running"
                         /\ Ends(d) => call[d].result # "settled"
    BY <1>1 DEF LandInv, Once, Asked, On, StatusOf, Ends
<1>2. CASE d # j.call
    <2>1. k \in JobsOf(d)
        BY <1>2, OtherJobs
    <2>2. CASE Arrive(j)
        <3>1. thing' = thing /\ raced' = raced /\ On(d)' = On(d)
            BY <1>1, <2>2 DEF Arrive, On
        <3> QED
            BY <2>1, <3>1 DEF LandInv, StatusOf
    <2>3. CASE StartJob(j) \/ EndJob(j)
        BY <1>1, <1>2, <2>1, <2>3, OtherHere DEF LandInv, StatusOf, On
    <2> QED
        BY <2>2, <2>3
<1>3. CASE d = j.call
    <2>1. Without(j) \cap {i \in jobs : i.call = d} = {}
        BY <1>3 DEF SentInv, Without
    <2>2. j \in JobsOf(d)
        BY <1>3 DEF JobsOf
    <2>3. CASE Arrive(j)
        <3>1. k = [j EXCEPT !.at = "queued"] /\ Acceptable(d) /\ UNCHANGED <<thing, raced>> /\ j.at = "late"
            BY <1>3, <2>1, <2>3 DEF Arrive, JobsOf, Without
        <3>2. k.at = "queued" /\ call[d].pc \notin {"early", "settle"}
            BY <2>2, <3>1, JobAt DEF LandInv
        <3>3. Asked(d) \in CreateOps => StatusOf(On(d))' = "GONE"
            BY <1>1, <3>1, Accepting DEF StatusOf, On
        <3> QED
            BY <2>2, <3>1, <3>2, <3>3 DEF LandInv
    <2>4. CASE StartJob(j)
        <3>1. k = [j EXCEPT !.at = "running", !.was = Here(d).status] /\ Races(d)
              /\ thing' = [thing EXCEPT ![On(d)].status = "CHANGING"]
            BY <1>3, <2>1, <2>4 DEF StartJob, JobsOf, Without
        <3>2. k.at = "running"
            BY <3>1, JobAt
        <3>3. StatusOf(On(d))' = "CHANGING"
            BY <1>1, <1>3, <3>1 DEF StatusOf, On, Object
        <3>4. raced \subseteq raced'
            BY <3>1 DEF Races
        <3> QED
            BY <2>2, <3>2, <3>3, <3>4 DEF LandInv
    <2>5. CASE EndJob(j)
        BY <1>3, <2>1, <2>5 DEF EndJob, JobsOf, Without
    <2> QED
        BY <2>3, <2>4, <2>5
<1> QED
    BY <1>2, <1>3

-----------------------------------------------------------------------------
\* A server or a volume that a call is to create is not there, and nobody has
\* left it over; what is gone stays gone, for an id is given once.
Unborn(c) == Asked(c) \in CreateOps /\
    (call[c].pc \in Fresh \cup {"send"} \/ \E j \in JobsOf(c) : j.at # "running")

BirthInv ==
    /\ \A v \in Volume : StatusOf(v) = "GONE" => thing[v].on = Nobody
    /\ \A j \in jobs : j.at = "running" /\ Asked(j.call) \in ResizeOps => j.was \notin {"GONE", "DELETED"}
    /\ \A c \in DOMAIN plan : Unborn(c) =>
         StatusOf(On(c)) = "GONE" /\ \A d \in Call : <<d, On(c)>> \notin freed

LEMMA BirthQuiet ==
    ASSUME ServiceOK, BirthInv, NEW c \in DOMAIN plan, Moves(c), Quiet \/ FirstRead(c)
    PROVE  BirthInv'
<1>1. UNCHANGED <<plan, thing, jobs, freed>> /\ DOMAIN plan \subseteq Call /\ \A d : JobsOf(d)' = JobsOf(d)
    BY PlanType DEF Quiet, FirstRead, history, ServiceOK, JobsOf
<1>2. ASSUME NEW d \in DOMAIN plan, Unborn(d)' PROVE Unborn(d)
    BY <1>1, <1>2 DEF Unborn, Moves, Asked
<1> QED
    BY <1>1, <1>2 DEF BirthInv, StatusOf, Asked, On

LEMMA BirthSend ==
    ASSUME CallOK, ServiceOK, SentInv, BirthInv, NEW c \in DOMAIN plan, Accepted(c) \/ Outlives(c)
    PROVE  BirthInv'
<1>1. /\ UNCHANGED <<plan, thing>> /\ DOMAIN plan \subseteq Call /\ call[c].pc = "send"
      /\ \A d \in Call \ {c} : call'[d] = call[d]
    BY SendSteps, PlanType DEF ServiceOK, Leaves
<1>2. call[c].result = "none"
    BY <1>1 DEF SentInv
<1>3. PICK at \in {"late", "queued"} : jobs' = jobs \cup {Request(c, at)}
    BY <1>1, <1>2, SendKinds
<1>4. freed' = freed /\ Request(c, at).call = c /\ Request(c, at).at # "running"
    BY <1>1, <1>2, SendKinds DEF Request
<1>5. ASSUME NEW d \in DOMAIN plan, Unborn(d)' PROVE Unborn(d)
    BY <1>1, <1>3, <1>4, <1>5 DEF Unborn, JobsOf, Asked
<1> QED
    BY <1>1, <1>3, <1>4, <1>5 DEF BirthInv, StatusOf, Asked, On

\* What the service starts or ends is born.
LEMMA BornWork ==
    ASSUME ServiceOK, AskedInv, SentInv, BirthInv, NEW j \in jobs, Arrive(j) \/ StartJob(j) \/ EndJob(j),
           NEW d \in DOMAIN plan, Unborn(d)'
    PROVE  /\ Unborn(d) /\ (StartJob(j) \/ EndJob(j) => d # j.call)
           /\ thing'[On(d)] = thing[On(d)] /\ \A e \in Call : <<e, On(d)>> \notin freed'
<1>1. /\ UNCHANGED <<plan, call>> /\ j.call \in DOMAIN plan /\ On(j.call) \in Thing
      /\ DOMAIN plan \subseteq Call
    BY JobType, PlanType DEF ServiceOK, Arrive, StartJob, EndJob
<1>2. CASE Arrive(j)
    <2>1. JobsOf(d)' \subseteq JobsOf(d) \cup {[j EXCEPT !.at = "queued"]} /\ j.at = "late"
        BY <1>2 DEF Arrive, JobsOf, Without
    <2>2. Unborn(d)
        <3>1. CASE d # j.call
            BY <1>1, <3>1, OtherJobs DEF Unborn, Asked
        <3>2. CASE d = j.call
            BY <1>1, <2>1, <3>2 DEF Unborn, Asked, JobsOf
        <3> QED
            BY <3>1, <3>2
    <2> QED
        <3>1. thing' = thing /\ freed' = freed /\ ~StartJob(j) /\ ~EndJob(j)
            BY <1>2, <2>1 DEF Arrive, StartJob, EndJob
        <3> QED
            BY <2>2, <3>1 DEF BirthInv
<1>3. CASE StartJob(j) \/ EndJob(j)
    <2>1. d # j.call
        <3> SUFFICES ASSUME d = j.call PROVE FALSE
            OBVIOUS
        <3>1. Once(d) /\ j \in JobsOf(d) /\ call[d].pc \notin Fresh \cup {"send"}
            BY <1>1 DEF Unborn, Asked, Once, JobsOf, SentInv, Unsent
        <3>2. PICK k \in JobsOf(d)' : k.at # "running"
            BY <1>1, <3>1 DEF Unborn
        <3>3. k \in Without(j) \/ k.at = "running"
            BY <1>3, <3>2, NextJobs DEF JobsOf
        <3>4. k \in jobs /\ k # j /\ k.call = d
            BY <3>2, <3>3 DEF Without, JobsOf
        <3> QED
            BY <3>1, <3>4 DEF SentInv, JobsOf
    <2>2. Unborn(d)
        BY <1>1, <2>1, OtherJobs DEF Unborn, Asked
    <2>3. StatusOf(On(d)) = "GONE" /\ \A e \in Call : <<e, On(d)>> \notin freed
        BY <2>2 DEF BirthInv
    <2>4. CASE thing' = thing /\ freed' = freed
        BY <2>1, <2>2, <2>3, <2>4
    <2>5. CASE ~(thing' = thing /\ freed' = freed)
        <3>1. On(d) # On(j.call)
            <4>1. CASE StartJob(j)
                <5>1. Acceptable(j.call)
                    BY <2>5, <4>1 DEF StartJob
                <5>2. On(d) = On(j.call) => Asked(j.call) \in CreateOps
                    BY <2>3, <5>1, Accepting
                <5>3. plan \in Plans /\ Asked(d) \in CreateOps
                    BY <2>2 DEF ServiceOK, Unborn
                <5> QED
                    BY <1>1, <2>1, <5>2, <5>3, CloudAssumption DEF On, Asked
            <4>2. CASE EndJob(j)
                BY <2>3, <2>5, <4>2 DEF EndJob
            <4> QED
                BY <1>3, <4>1, <4>2
        <3>2. Asked(j.call) = "deleteServer" => On(j.call) \in Server /\ On(j.call) # Nobody
            BY <1>1, PlanType, CloudAssumption DEF ServiceOK, ServerOps
        <3>3. ~(Asked(j.call) = "deleteServer" /\ On(d) \in Volume /\ thing[On(d)].on = On(j.call))
            BY <2>3, <3>2 DEF BirthInv
        <3>4. thing'[On(d)] = thing[On(d)]
            BY <1>3, <3>1, <3>3, Elsewhere, PlanType DEF ServiceOK
        <3>5. On(d) \notin Leftover(j.call)
            BY <3>3 DEF Leftover, Attached
        <3> QED
            BY <1>3, <2>1, <2>2, <2>3, <3>4, <3>5 DEF StartJob, EndJob
    <2> QED
        BY <2>4, <2>5
<1> QED
    BY <1>2, <1>3

\* No operation brings back what is gone but its create.
LEMMA GoneOrNew ==
    ASSUME ServiceOK, AskedInv, BirthInv, NEW j \in jobs, StartJob(j) \/ EndJob(j), NEW v \in Volume,
           StatusOf(v) = "GONE", \A c \in DOMAIN plan : Unborn(c) => On(c) # v
    PROVE  StatusOf(v)' = "GONE"
<1>1. j.call \in DOMAIN plan /\ v \in Thing
    BY JobType DEF Thing
<1>2. CASE thing' = thing
    BY <1>2 DEF StatusOf
<1>3. CASE thing' # thing
    <2>1. On(j.call) # v
        <3>1. CASE StartJob(j)
            <4>1. Acceptable(j.call) /\ j.at = "queued"
                BY <1>3, <3>1 DEF StartJob
            <4>2. On(j.call) = v => Unborn(j.call)
                BY <4>1, Accepting DEF Unborn, JobsOf
            <4> QED
                BY <1>1, <4>2
        <3>2. CASE EndJob(j)
            BY <1>3, <3>2 DEF EndJob
        <3> QED
            BY <3>1, <3>2
    <2>2. Asked(j.call) = "deleteServer" => On(j.call) \in Server /\ On(j.call) # Nobody
        BY <1>1, PlanType, CloudAssumption DEF ServiceOK, ServerOps
    <2>3. thing'[v] = thing[v]
        BY <1>1, <2>1, <2>2, Elsewhere DEF BirthInv
    <2> QED
        BY <2>3 DEF StatusOf
<1> QED
    BY <1>2, <1>3

\* A volume that is gone after an operation is attached to nobody.
LEMMA GoneWork ==
    ASSUME ServiceOK, AskedInv, BirthInv, NEW j \in jobs, StartJob(j) \/ EndJob(j), NEW v \in Volume,
           StatusOf(v)' = "GONE"
    PROVE  thing'[v].on = Nobody
<1>1. /\ v \in Thing /\ On(j.call) \in Thing /\ thing \in [Thing -> Object]
      /\ thing[v] \in Object /\ Here(j.call) \in Object /\ j.was \in Status /\ plan[j.call] \in Plan
    BY JobType DEF ServiceOK, Thing, Here, Job
<1>2. CASE thing'[v] = thing[v]
    BY <1>2 DEF BirthInv, StatusOf
<1>3. CASE thing'[v] # thing[v] /\ StartJob(j)
    BY <1>1, <1>3 DEF StartJob, StatusOf, Object
<1>4. CASE thing'[v] # thing[v] /\ EndJob(j)
    <2>1. CASE thing' = [thing EXCEPT ![On(j.call)].status = "ERROR"]
        BY <1>1, <1>4, <2>1 DEF StatusOf, Object
    <2>2. ASSUME NEW gone \in {"GONE", "DELETED"}, thing' = Applied(j, gone) PROVE thing'[v].on = Nobody
        <3>1. CASE v = On(j.call)
            <4>1. thing'[v] = After(j, gone)
                BY <1>1, <2>2, <3>1 DEF Applied
            <4>2. Asked(j.call) \in ResizeOps => j.was # "GONE"
                BY <1>4 DEF EndJob, BirthInv
            <4>3. Asked(j.call) \in ServerOps \cup VolumeOps
                BY <1>1 DEF Plan, Asked
            <4>4. After(j, gone).status = "GONE" => Asked(j.call) \in DeleteOps
                <5>1. \A st : [Here(j.call) EXCEPT !.status = st].status = st
                    BY <1>1 DEF Object
                <5> QED
                    BY <1>1, <4>2, <4>3, <5>1
                       DEF After, ServerOps, VolumeOps, ResizeOps, DeleteOps, Object
            <4>5. Asked(j.call) \in DeleteOps => After(j, gone).on = Nobody
                BY <1>1 DEF After, DeleteOps, ResizeOps, Object
            <4> QED
                BY <4>1, <4>4, <4>5 DEF StatusOf
        <3>2. CASE v # On(j.call)
            BY <1>1, <1>4, <2>2, <3>2 DEF Applied, Object
        <3> QED
            BY <3>1, <3>2
    <2> QED
        BY <1>4, <2>1, <2>2 DEF EndJob
<1> QED
    BY <1>2, <1>3, <1>4

LEMMA BirthWork ==
    ASSUME ServiceOK, AskedInv, SentInv, BirthInv, NEW j \in jobs, Arrive(j) \/ StartJob(j) \/ EndJob(j)
    PROVE  BirthInv'
<1>1. plan' = plan
    BY DEF Arrive, StartJob, EndJob
<1>2. \A v \in Volume : StatusOf(v)' = "GONE" => thing'[v].on = Nobody
    <2>1. CASE Arrive(j)
        BY <2>1 DEF Arrive, BirthInv, StatusOf
    <2> QED
        BY <2>1, GoneWork
<1>3. ASSUME NEW k \in jobs', k.at = "running", Asked(k.call) \in ResizeOps
      PROVE  k.was \notin {"GONE", "DELETED"}
    <2>1. CASE k \in jobs
        BY <1>3, <2>1 DEF BirthInv
    <2>2. CASE k \notin jobs
        <3>1. k.call = j.call /\ k.was = StatusOf(On(j.call)) /\ Acceptable(j.call)
            BY <1>3, <2>2, NextJobs DEF Without
        <3> QED
            BY <1>3, <3>1, Accepting DEF ResizeOps, CreateOps
    <2> QED
        BY <2>1, <2>2
<1>4. \A c \in DOMAIN plan : Unborn(c)' =>
         StatusOf(On(c))' = "GONE" /\ \A d \in Call : <<d, On(c)>> \notin freed'
    BY <1>1, BornWork DEF BirthInv, StatusOf, On
<1> QED
    BY <1>1, <1>2, <1>3, <1>4 DEF BirthInv, Asked, On

-----------------------------------------------------------------------------
\* The delete of a server holds the data volumes on it in kept from its listing
\* on, and drops none that is not gone for good.
KeptInv ==
    /\ \A c \in DOMAIN plan :
         Asked(c) = "deleteServer" /\ c \notin raced /\ (call[c].pc \in Told \/ JobsOf(c) # {})
           => Data(On(c)) \subseteq call[c].kept
    /\ \A c \in Call, v \in Volume : <<c, v>> \in freed =>
         /\ c \in DOMAIN plan /\ call[c].pc \notin Fresh
         /\ c \notin raced => StatusOf(v) = "GONE" \/ v \in call[c].kept

LEMMA KeptQuiet ==
    ASSUME ServiceOK, SentInv, BirthInv, KeptInv, NEW c \in DOMAIN plan, Moves(c), Comes(c),
           Quiet \/ FirstRead(c)
    PROVE  KeptInv'
<1>1. /\ UNCHANGED <<plan, thing, jobs, freed>> /\ DOMAIN plan \subseteq Call /\ c \in Call
      /\ \A d : JobsOf(d)' = JobsOf(d)
    BY PlanType DEF Quiet, FirstRead, history, ServiceOK, JobsOf
<1>2. \A d \in Call \ {c} : call'[d] = call[d] /\ (d \in raced' <=> d \in raced)
    BY DEF Moves, Forgets
<1>3. ASSUME call[c].pc \notin Fresh
      PROVE  /\ raced' = raced
             /\ \A v \in call[c].kept : v \in call'[c].kept \/ StatusOf(v) = "GONE"
    BY <1>3 DEF Moves, Forgets, Comes, Fresh
<1>4. ASSUME Asked(c) = "deleteServer", c \notin raced', call'[c].pc \in Told \/ JobsOf(c) # {},
             NEW v \in Data(On(c))
      PROVE  v \in call'[c].kept
    <2>1. CASE call[c].pc \in Told \/ JobsOf(c) # {}
        <3>1. call[c].pc \notin Fresh
            BY <2>1 DEF SentInv, Unsent, JobsOf, Told, Fresh
        <3>2. StatusOf(v) # "GONE"
            <4>1. On(c) \in Server /\ v \in Volume /\ thing[v].on = On(c)
                BY <1>4, PlanType DEF ServiceOK, ServerOps, Data, Attached
            <4> QED
                BY <4>1, CloudAssumption DEF BirthInv
        <3>3. v \in call[c].kept
            BY <1>3, <1>4, <2>1, <3>1 DEF KeptInv
        <3> QED
            BY <1>3, <3>1, <3>2, <3>3
    <2>2. CASE ~(call[c].pc \in Told \/ JobsOf(c) # {})
        BY <1>4, <2>2 DEF Comes
    <2> QED
        BY <2>1, <2>2
<1>5. \A d \in DOMAIN plan :
         Asked(d) = "deleteServer" /\ d \notin raced' /\ (call'[d].pc \in Told \/ JobsOf(d) # {})
           => Data(On(d)) \subseteq call'[d].kept
    BY <1>1, <1>2, <1>4 DEF KeptInv
<1>6. \A d \in Call, v \in Volume : <<d, v>> \in freed =>
         /\ d \in DOMAIN plan /\ call'[d].pc \notin Fresh
         /\ d \notin raced' => StatusOf(v) = "GONE" \/ v \in call'[d].kept
    <2>1. ASSUME NEW v \in Volume, <<c, v>> \in freed
          PROVE  /\ call'[c].pc \notin Fresh
                 /\ c \notin raced' => StatusOf(v) = "GONE" \/ v \in call'[c].kept
        <3>1. call[c].pc \notin Fresh
            BY <1>1, <2>1 DEF KeptInv
        <3>2. call'[c].pc \notin Fresh
            BY <3>1 DEF Moves
        <3> QED
            BY <1>1, <1>3, <2>1, <3>1, <3>2 DEF KeptInv
    <2> QED
        BY <1>1, <1>2, <2>1 DEF KeptInv
<1> QED
    BY <1>1, <1>5, <1>6 DEF KeptInv, Asked, On, Data, Attached, StatusOf

LEMMA KeptSend ==
    ASSUME CallOK, ServiceOK, SentInv, KeptInv, NEW c \in DOMAIN plan, Accepted(c) \/ Outlives(c)
    PROVE  KeptInv'
<1>1. /\ UNCHANGED <<plan, thing, raced>> /\ DOMAIN plan \subseteq Call /\ c \in Call
      /\ call[c].pc = "send" /\ call'[c].pc \notin Fresh /\ \A d \in Call \ {c} : call'[d] = call[d]
    BY SendSteps, PlanType DEF ServiceOK, Leaves
<1>2. call[c].result = "none"
    BY <1>1 DEF SentInv
<1>3. call'[c].kept = call[c].kept /\ freed' = freed
    BY <1>1, <1>2, SendKinds
<1>4. \A d : d # c => JobsOf(d)' = JobsOf(d)
    <2>1. PICK at \in {"late", "queued"} : jobs' = jobs \cup {Request(c, at)}
        BY <1>1, <1>2, SendKinds
    <2> QED
        BY <2>1 DEF Request, JobsOf
<1>5. \A d \in DOMAIN plan :
         Asked(d) = "deleteServer" /\ d \notin raced /\ (call'[d].pc \in Told \/ JobsOf(d)' # {})
           => Data(On(d)) \subseteq call'[d].kept
    BY <1>1, <1>3, <1>4 DEF KeptInv, Told
<1>6. \A d \in Call, v \in Volume : <<d, v>> \in freed =>
         /\ d \in DOMAIN plan /\ call'[d].pc \notin Fresh
         /\ d \notin raced => StatusOf(v) = "GONE" \/ v \in call'[d].kept
    BY <1>1, <1>3 DEF KeptInv
<1> QED
    BY <1>1, <1>3, <1>5, <1>6 DEF KeptInv, Asked, On, Data, Attached, StatusOf

\* A volume is put on a server only by a call that attaches it there.
LEMMA DataWork ==
    ASSUME ServiceOK, AskedInv, NEW j \in jobs, StartJob(j) \/ EndJob(j), NEW d \in DOMAIN plan,
           Asked(d) = "deleteServer", d \notin raced'
    PROVE  Data(On(d))' \subseteq Data(On(d))
<1>1. /\ On(d) \in Server /\ On(d) # Nobody /\ plan' = plan /\ thing \in [Thing -> Object]
      /\ j.call \in DOMAIN plan /\ On(j.call) \in Thing /\ Here(j.call) \in Object /\ plan[j.call] \in Plan
    BY JobType, PlanType, CloudAssumption DEF ServiceOK, ServerOps, Here, StartJob, EndJob
<1> SUFFICES ASSUME NEW v \in Volume, thing'[v].on = On(d) PROVE thing[v].on = On(d)
    BY <1>1 DEF Data, Attached, On
<1>2. v \in Thing /\ thing[v] \in Object
    BY <1>1 DEF Thing
<1>3. CASE thing'[v] = thing[v]
    BY <1>3
<1>4. CASE thing' = [thing EXCEPT ![On(j.call)].status = "CHANGING"]
           \/ thing' = [thing EXCEPT ![On(j.call)].status = "ERROR"]
    BY <1>1, <1>2, <1>4 DEF Object
<1>5. ASSUME NEW gone \in {"GONE", "DELETED"}, thing' = Applied(j, gone), Races(j.call)
      PROVE  thing[v].on = On(d)
    <2>1. CASE v = On(j.call)
        <3>1. thing'[v] = After(j, gone)
            BY <1>2, <1>5, <2>1 DEF Applied
        <3>2. Asked(j.call) = "attach" => plan[j.call].server # On(d)
            BY <1>1, <1>5 DEF Races, RacesWith
        <3>3. Asked(j.call) # "attach" => After(j, gone).on \in {Nobody, thing[v].on}
            BY <1>1, <2>1 DEF After, Here, Object, ResizeOps
        <3>4. Asked(j.call) = "attach" => After(j, gone).on = plan[j.call].server
            BY <1>1, <2>1 DEF After, Here, Object, ResizeOps
        <3> QED
            BY <1>1, <3>1, <3>2, <3>3, <3>4
    <2>2. CASE v # On(j.call)
        BY <1>1, <1>2, <1>5, <2>2 DEF Applied, Object
    <2> QED
        BY <2>1, <2>2
<1> QED
    BY <1>3, <1>4, <1>5 DEF StartJob, EndJob

LEMMA KeptWork ==
    ASSUME ServiceOK, AskedInv, SentInv, BirthInv, KeptInv, NEW j \in jobs,
           Arrive(j) \/ StartJob(j) \/ EndJob(j)
    PROVE  KeptInv'
<1>1. /\ UNCHANGED <<plan, call>> /\ j.call \in DOMAIN plan /\ DOMAIN plan \subseteq Call
      /\ raced \subseteq raced'
    BY JobType, PlanType DEF ServiceOK, Arrive, StartJob, EndJob, Races
<1>2. ASSUME NEW d \in DOMAIN plan, JobsOf(d)' # {} PROVE JobsOf(d) # {}
    BY <1>2, OtherJobs DEF JobsOf
<1>3. \A d \in DOMAIN plan :
         Asked(d) = "deleteServer" /\ d \notin raced' /\ (call[d].pc \in Told \/ JobsOf(d)' # {})
           => Data(On(d))' \subseteq call[d].kept
    <2>1. CASE Arrive(j)
        <3>1. \A d \in DOMAIN plan : Data(On(d))' = Data(On(d))
            BY <1>1, <2>1 DEF Arrive, Data, Attached, On
        <3> QED
            BY <1>1, <1>2, <3>1 DEF KeptInv
    <2>2. CASE StartJob(j) \/ EndJob(j)
        BY <1>1, <1>2, <2>2, DataWork DEF KeptInv
    <2> QED
        BY <2>1, <2>2
<1>4. ASSUME NEW d \in Call, NEW v \in Volume, <<d, v>> \in freed
      PROVE  /\ d \in DOMAIN plan /\ call[d].pc \notin Fresh
             /\ d \notin raced' => StatusOf(v)' = "GONE" \/ v \in call[d].kept
    <2>1. /\ d \in DOMAIN plan /\ call[d].pc \notin Fresh
          /\ d \notin raced => StatusOf(v) = "GONE" \/ v \in call[d].kept
        BY <1>4 DEF KeptInv
    <2>2. StatusOf(v) = "GONE" => StatusOf(v)' = "GONE"
        <3>1. CASE Arrive(j)
            BY <3>1 DEF Arrive, StatusOf
        <3>2. CASE StartJob(j) \/ EndJob(j)
            <4>1. \A c \in DOMAIN plan : Unborn(c) => On(c) # v
                BY <1>4 DEF BirthInv
            <4> QED
                BY <3>2, <4>1, GoneOrNew
        <3> QED
            BY <3>1, <3>2
    <2> QED
        BY <1>1, <2>1, <2>2
<1>5. ASSUME NEW d \in Call, NEW v \in Volume, <<d, v>> \in freed' \ freed
      PROVE  /\ d \in DOMAIN plan /\ call[d].pc \notin Fresh
             /\ d \notin raced' => v \in call[d].kept
    <2>1. EndJob(j) /\ d = j.call /\ v \in Leftover(d)
        BY <1>5 DEF Arrive, StartJob, EndJob
    <2>2. j \in JobsOf(d)
        BY <2>1 DEF JobsOf
    <2>3. v \in Data(On(d)) /\ Asked(d) = "deleteServer"
        BY <2>1 DEF Leftover, Takes, Data
    <2>4. call[d].pc \notin Fresh
        BY <1>1, <2>1, <2>2 DEF SentInv, Unsent, JobsOf
    <2> QED
        BY <1>1, <2>1, <2>2, <2>3, <2>4 DEF KeptInv
<1>6. \A d \in Call, v \in Volume : <<d, v>> \in freed' =>
         /\ d \in DOMAIN plan /\ call[d].pc \notin Fresh
         /\ d \notin raced' => StatusOf(v)' = "GONE" \/ v \in call[d].kept
    BY <1>4, <1>5
<1> QED
    BY <1>1, <1>3, <1>6 DEF KeptInv, Asked

-----------------------------------------------------------------------------
\* The walk ahead of a create.  The i-th thing of the list is on this page.
PageOf(items, i) == Cardinality({k \in items : k < i}) \div PageSize + 1

LEMMA PageBound ==
    ASSUME NEW items \in SUBSET DOMAIN Order, NEW i \in items
    PROVE  /\ PageOf(items, i) \in Nat \ {0} /\ PageOf(items, i) <= Pages(items)
           /\ \A p \in Nat : i \in Page(items, p) <=> PageOf(items, i) = p
<1> DEFINE before == {k \in items : k < i}
<1>1. IsFiniteSet(items) /\ DOMAIN Order = 1..Len(Order) /\ Len(Order) \in Nat
    <2>1. DOMAIN Order = 1..Len(Order) /\ Len(Order) \in Nat
        BY CloudAssumption
    <2>2. IsFiniteSet(DOMAIN Order)
        BY <2>1, FS_Interval
    <2> QED
        BY <2>1, <2>2, FS_Subset
<1>2. before \subseteq items /\ i \notin before /\ IsFiniteSet(before)
    <2>1. i \in Nat
        BY <1>1
    <2> QED
        BY <1>1, <2>1, FS_Subset
<1>3. Cardinality(before) \in Nat /\ Cardinality(items) \in Nat
    BY <1>1, <1>2, FS_CardinalityType
<1>4. Cardinality(before) + 1 <= Cardinality(items)
    <2>1. Cardinality(before \cup {i}) = Cardinality(before) + 1 /\ before \cup {i} \subseteq items
        BY <1>2, FS_AddElement
    <2> QED
        BY <1>1, <2>1, FS_Subset
<1> HIDE DEF before
<1>5. PageSize \in Nat \ {0}
    BY CloudAssumption
<1>6. /\ Cardinality(before) \div PageSize \in Nat
      /\ Cardinality(before) \div PageSize + 1 <= (Cardinality(items) + PageSize - 1) \div PageSize
    BY <1>3, <1>4, <1>5
<1>7. PageOf(items, i) = Cardinality(before) \div PageSize + 1
    BY DEF PageOf, before
<1>8. \A p \in Nat : i \in Page(items, p) <=> Cardinality(before) \div PageSize = p - 1
    BY DEF Page, before
<1> QED
    BY <1>6, <1>7, <1>8 DEF Pages

LEMMA ListedType == ASSUME NEW kind PROVE Listed(kind) \subseteq DOMAIN Order
BY DEF Listed

\* A create that nobody has raced with has not seen its name on the pages it
\* has read, and orders only what is on none.
NameInv ==
    /\ \A c \in misfit : Asked(c) \notin CreateOps
    /\ \A c \in DOMAIN plan : Asked(c) \in CreateOps /\ c \notin raced =>
         /\ Acting(c) => Fits(c)
         /\ call[c].pc = "walk" => \A i \in Listed(Kind(c)) :
              NameOf[Order[i]] = NameOf[On(c)] => PageOf(Listed(Kind(c)), i) >= call[c].page

LEMMA FitsCreate ==
    ASSUME NEW c, Asked(c) \in CreateOps, Kind(c) \subseteq Thing,
           \A i \in Listed(Kind(c)) : NameOf[Order[i]] # NameOf[On(c)]
    PROVE  Fits(c)
<1>1. ASSUME NEW x \in Kind(c), StatusOf(x) \notin {"GONE", "DELETED"} PROVE NameOf[x] # NameOf[On(c)]
    <2>1. PICK i \in DOMAIN Order : Order[i] = x
        BY CloudAssumption
    <2> QED
        BY <1>1, <2>1 DEF Listed
<1> QED
    BY <1>1 DEF Fits, CreateOps

LEMMA NameQuiet ==
    ASSUME CallOK, ServiceOK, SentInv, NameInv, NEW c \in DOMAIN plan, Moves(c), Comes(c),
           Quiet \/ FirstRead(c)
    PROVE  NameInv'
<1>1. UNCHANGED <<plan, thing, jobs, misfit>> /\ DOMAIN plan \subseteq Call /\ c \in Call
    BY PlanType DEF Quiet, FirstRead, history, ServiceOK
<1>2. \A d \in DOMAIN plan : /\ Fits(d)' <=> Fits(d)
                             /\ Listed(Kind(d))' = Listed(Kind(d))
    BY <1>1 DEF Fits, Asked, On, Here, StatusOf, Kind, Listed
<1> DEFINE items == Listed(Kind(c))
           Same(i) == NameOf[Order[i]] = NameOf[On(c)]
<1>3. \A i \in items : /\ PageOf(items, i) \in Nat \ {0} /\ PageOf(items, i) <= Pages(items)
                       /\ i \in Page(items, call[c].page) <=> PageOf(items, i) = call[c].page
    BY <1>1, PageBound, ListedType DEF CallOK, Local
<1>4. ASSUME Asked(c) \in CreateOps, c \notin raced', call[c].pc = "walk", Clean(c), NEW i \in items, Same(i)
      PROVE  PageOf(items, i) >= call[c].page /\ PageOf(items, i) # call[c].page
    <2>1. PageOf(items, i) # call[c].page
        BY <1>3, <1>4 DEF Clean
    <2>2. CASE c \in raced
        BY <1>3, <1>4, <2>1, <2>2 DEF Comes, Held
    <2>3. CASE c \notin raced
        BY <1>4, <2>1, <2>3 DEF NameInv
    <2> QED
        BY <2>1, <2>2, <2>3
<1>5. ASSUME Asked(c) \in CreateOps, c \notin raced', call'[c].pc = "walk", NEW i \in items, Same(i)
      PROVE  PageOf(items, i) >= call'[c].page
    <2>1. call[c].pc = "walk" /\ call'[c].page = call[c].page + 1 /\ Clean(c)
        BY <1>5 DEF Comes
    <2>2. call[c].page \in Nat /\ PageOf(items, i) \in Nat
        BY <1>1, <1>3, <1>5 DEF CallOK, Local
    <2> QED
        BY <1>4, <1>5, <2>1, <2>2
<1>6. ASSUME Asked(c) \in CreateOps, c \notin raced', Acting(c)' PROVE Fits(c)
    <2>1. CASE call'[c].pc = "quote"
        <3>1. call[c].pc = "walk" /\ Clean(c) /\ call[c].page >= Pages(items) /\ call[c].page \in Nat
            BY <1>1, <1>6, <2>1 DEF Comes, CallOK, Local
        <3>2. Pages(items) \in Int
            <4>1. Cardinality(items) \in Nat
                BY ListType
            <4> QED
                BY <4>1, CloudAssumption DEF Pages
        <3>3. \A i \in items : ~Same(i)
            BY <1>3, <1>4, <1>6, <3>1, <3>2
        <3>4. Kind(c) \subseteq Thing
            BY DEF Kind, Thing
        <3> QED
            BY <1>6, <3>3, <3>4, FitsCreate
    <2>2. CASE call'[c].pc # "quote"
        <3>1. Acting(c) /\ call[c].pc # "walk"
            <4>1. CASE call'[c].pc = "send"
                BY <1>6, <4>1 DEF Comes, Acting
            <4>2. CASE call'[c].pc # "send"
                BY <1>1, <1>6, <2>2, <4>2 DEF Acting, SentInv, Unsent, Fresh
            <4> QED
                BY <4>1, <4>2
        <3>2. raced' = raced
            BY <1>6, <3>1 DEF Comes, Held
        <3> QED
            BY <1>6, <3>1, <3>2 DEF NameInv
    <2> QED
        BY <2>1, <2>2
<1>7. \A d \in DOMAIN plan \ {c} : /\ call'[d] = call[d] /\ (d \in raced' <=> d \in raced)
                                   /\ Acting(d)' <=> Acting(d)
    BY <1>1 DEF Moves, Forgets, Acting
<1>8. \A d \in DOMAIN plan : Asked(d) \in CreateOps /\ d \notin raced' =>
         /\ Acting(d)' => Fits(d)
         /\ call'[d].pc = "walk" => \A i \in Listed(Kind(d)) :
              NameOf[Order[i]] = NameOf[On(d)] => PageOf(Listed(Kind(d)), i) >= call'[d].page
    BY <1>5, <1>6, <1>7 DEF NameInv
<1> QED
    BY <1>1, <1>2, <1>8 DEF NameInv, Asked, On

LEMMA NameSend ==
    ASSUME CallOK, ServiceOK, NameInv, NEW c \in DOMAIN plan, Accepted(c) \/ Outlives(c)
    PROVE  NameInv'
<1>1. /\ Leaves(c) /\ call[c].pc = "send" /\ UNCHANGED <<plan, thing, raced, misfit>>
      /\ DOMAIN plan \subseteq Call
    BY SendSteps, PlanType DEF ServiceOK
<1>2. PICK r : r.call = c /\ jobs' = jobs \cup {r}
    BY SendSteps
<1>3. \A d \in DOMAIN plan : /\ Acting(d)' => Acting(d)
                             /\ call'[d].pc = "walk" => call'[d] = call[d]
    BY <1>1, <1>2 DEF Acting, Leaves, Fresh
<1>4. \A d \in DOMAIN plan : /\ Fits(d)' <=> Fits(d)
                             /\ Listed(Kind(d))' = Listed(Kind(d))
    BY <1>1 DEF Fits, Asked, On, Here, StatusOf, Kind, Listed
<1>5. \A d \in DOMAIN plan : Asked(d) \in CreateOps /\ d \notin raced =>
         /\ Acting(d)' => Fits(d)
         /\ call'[d].pc = "walk" => \A i \in Listed(Kind(d)) :
              NameOf[Order[i]] = NameOf[On(d)] => PageOf(Listed(Kind(d)), i) >= call'[d].page
    BY <1>3 DEF NameInv
<1> QED
    BY <1>1, <1>4, <1>5 DEF NameInv, Asked, On

\* The list of names changes only by the creates and deletes that race.
LEMMA SameList ==
    ASSUME ServiceOK, AskedInv, BirthInv, NEW j \in jobs, StartJob(j) \/ EndJob(j), NEW d \in DOMAIN plan,
           d # j.call, d \notin raced', Asked(d) \in CreateOps, NEW x \in Kind(d)
    PROVE  StatusOf(x)' \in {"GONE", "DELETED"} <=> StatusOf(x) \in {"GONE", "DELETED"}
<1>1. /\ x \in Thing /\ On(j.call) \in Thing /\ thing \in [Thing -> Object] /\ Here(j.call) \in Object
      /\ j.call \in DOMAIN plan /\ plan[j.call] \in Plan
    BY JobType DEF ServiceOK, Thing, Kind, Here
<1>2. CASE thing'[x] = thing[x]
    BY <1>2 DEF StatusOf
<1>3. CASE thing'[x] # thing[x]
    <2>1. ~RacesWith(j.call, d)
        BY <1>3 DEF StartJob, EndJob, Races
    <2>2. Asked(j.call) # "deleteServer" /\ x = On(j.call)
        <3>1. Asked(j.call) # "deleteServer"
            BY <2>1 DEF RacesWith, DeleteOps
        <3> QED
            BY <1>1, <1>3, <3>1, Elsewhere
    <2>3. Kind(j.call) = Kind(d)
        BY <1>1, <2>2, PlanType, CloudAssumption DEF ServiceOK, Kind, Thing
    <2>4. Asked(j.call) \notin CreateOps \cup DeleteOps
        BY <2>1, <2>3 DEF RacesWith
    <2>5. CASE StartJob(j)
        <3>1. Acceptable(j.call) /\ thing' = [thing EXCEPT ![On(j.call)].status = "CHANGING"]
            BY <1>3, <2>5 DEF StartJob
        <3>2. StatusOf(x) \notin {"GONE", "DELETED"}
            BY <2>2, <2>4, <3>1, Accepting
        <3>3. StatusOf(x)' = "CHANGING"
            BY <1>1, <2>2, <3>1 DEF StatusOf, Object
        <3> QED
            BY <3>2, <3>3
    <2>6. CASE EndJob(j)
        <3>1. StatusOf(x) = "CHANGING"
            BY <1>3, <2>2, <2>6 DEF EndJob
        <3>2. CASE thing' = [thing EXCEPT ![On(j.call)].status = "ERROR"]
            BY <1>1, <2>2, <3>1, <3>2 DEF StatusOf, Object
        <3>3. ASSUME NEW gone, thing' = Applied(j, gone) PROVE StatusOf(x)' \notin {"GONE", "DELETED"}
            <4>1. thing'[x] = After(j, gone)
                BY <1>1, <2>2, <3>3 DEF Applied
            <4>2. Asked(j.call) \in ServerOps \cup VolumeOps
                BY <1>1 DEF Plan, Asked
            <4>3. Asked(j.call) \in ResizeOps => j.was \notin {"GONE", "DELETED"}
                BY <2>6 DEF EndJob, BirthInv
            <4>4. \A st : [Here(j.call) EXCEPT !.status = st].status = st
                BY <1>1 DEF Object
            <4> QED
                BY <1>1, <2>4, <4>1, <4>2, <4>3, <4>4
                   DEF After, StatusOf, ServerOps, VolumeOps, CreateOps, DeleteOps, ResizeOps, Object
        <3> QED
            BY <1>3, <2>6, <3>1, <3>2, <3>3 DEF EndJob
    <2> QED
        BY <2>5, <2>6
<1> QED
    BY <1>2, <1>3

LEMMA NameWork ==
    ASSUME ServiceOK, AskedInv, SentInv, BirthInv, NameInv, NEW j \in jobs,
           Arrive(j) \/ StartJob(j) \/ EndJob(j)
    PROVE  NameInv'
<1>1. /\ UNCHANGED <<plan, call>> /\ j.call \in DOMAIN plan /\ DOMAIN plan \subseteq Call
      /\ raced \subseteq raced'
    BY JobType, PlanType DEF ServiceOK, Arrive, StartJob, EndJob, Races
<1>2. ASSUME NEW d \in DOMAIN plan, Acting(d)' PROVE Acting(d)
    <2>1. CASE call[d].pc \in {"quote", "send"}
        BY <2>1 DEF Acting
    <2>2. CASE call[d].pc \notin {"quote", "send"}
        <3>1. PICK k \in jobs' : k.call = d /\ k.at # "running"
            BY <1>1, <1>2, <2>2 DEF Acting
        <3>2. k \in Without(j) \/ (Arrive(j) /\ k.call = j.call)
            BY <3>1, NextJobs
        <3>3. Arrive(j) => j.at = "late"
            BY DEF Arrive
        <3> QED
            BY <3>1, <3>2, <3>3 DEF Acting, Without
    <2> QED
        BY <2>1, <2>2
<1>3. CASE Arrive(j)
    <2>1. UNCHANGED <<thing, raced, misfit>>
        BY <1>3 DEF Arrive
    <2>2. \A d \in DOMAIN plan : /\ Fits(d)' <=> Fits(d)
                                 /\ Listed(Kind(d))' = Listed(Kind(d))
        BY <1>1, <2>1 DEF Fits, Asked, On, Here, StatusOf, Kind, Listed
    <2> QED
        BY <1>1, <1>2, <2>1, <2>2 DEF NameInv, Asked, On
<1>4. CASE StartJob(j) \/ EndJob(j)
    <2>1. ASSUME NEW d \in DOMAIN plan, Asked(d) \in CreateOps, d \notin raced', d # j.call
          PROVE  Listed(Kind(d))' = Listed(Kind(d)) /\ (Fits(d) => Fits(d)')
        <3>1. Kind(d)' = Kind(d) /\ NameOf[On(d)]' = NameOf[On(d)] /\ Asked(d)' = Asked(d)
            BY <1>1 DEF Kind, Asked, On
        <3>2. \A x \in Kind(d) : StatusOf(x)' \in {"GONE", "DELETED"} <=> StatusOf(x) \in {"GONE", "DELETED"}
            BY <1>4, <2>1, SameList
        <3> QED
            BY <2>1, <3>1, <3>2 DEF Listed, Fits, CreateOps
    <2>2. ASSUME NEW d \in DOMAIN plan, Asked(d) \in CreateOps, d \notin raced', Acting(d)' PROVE Fits(d)'
        <3>1. Acting(d) /\ Fits(d)
            BY <1>1, <1>2, <2>2 DEF NameInv
        <3>2. d # j.call
            <4> SUFFICES ASSUME d = j.call PROVE FALSE
                OBVIOUS
            <4>1. Once(d) /\ call[d].pc \notin {"quote", "send"}
                BY <2>2 DEF Once, SentInv, Unsent, Fresh
            <4>2. PICK k \in jobs' : k.call = d /\ k.at # "running"
                BY <1>1, <2>2, <4>1 DEF Acting
            <4>3. k \in Without(j)
                BY <1>4, <4>2, NextJobs
            <4> QED
                BY <4>1, <4>2, <4>3 DEF SentInv, Without
        <3> QED
            BY <2>1, <2>2, <3>1, <3>2
    <2>3. ASSUME NEW d \in DOMAIN plan, Asked(d) \in CreateOps, d \notin raced', call[d].pc = "walk"
          PROVE  \A i \in Listed(Kind(d))' :
                   NameOf[Order[i]] = NameOf[On(d)] => PageOf(Listed(Kind(d))', i) >= call[d].page
        <3>1. d # j.call
            BY <2>3 DEF SentInv, Unsent, Fresh
        <3> QED
            BY <1>1, <2>1, <2>3, <3>1 DEF NameInv
    <2>4. \A d \in misfit' : Asked(d) \notin CreateOps
        <3>1. CASE EndJob(j)
            BY <3>1 DEF EndJob, NameInv
        <3>2. CASE StartJob(j)
            <4>1. Acting(j.call)
                BY <3>2 DEF StartJob, Acting
            <4> QED
                BY <1>1, <3>2, <4>1 DEF StartJob, NameInv
        <3> QED
            BY <1>4, <3>1, <3>2
    <2> QED
        BY <1>1, <2>2, <2>3, <2>4 DEF NameInv, Asked, On, PageOf
<1> QED
    BY <1>3, <1>4

-----------------------------------------------------------------------------
\* What holds of the requests that came before, of what there is to name and
\* of what was left over, with IInv.
HistoryInv == LandInv /\ BirthInv /\ KeptInv /\ NameInv

LEMMA HistoryInit == Init => HistoryInv
<1> SUFFICES ASSUME Init PROVE HistoryInv
    OBVIOUS
<1>1. ServiceOK /\ DOMAIN plan \subseteq Call
    BY TypeInit, PlanType DEF ServiceOK
<1>2. \A c \in DOMAIN plan : /\ call[c].result = "none" /\ call[c].page = 1 /\ JobsOf(c) = {}
                             /\ call[c].pc = IF Asked(c) \in CreateOps THEN "walk" ELSE "read"
    BY <1>1 DEF Init, Asked, JobsOf
<1>3. LandInv
    BY <1>2 DEF LandInv
<1>4. BirthInv
    <2>1. \A v \in Volume : StatusOf(v) = "GONE" => thing[v].on = Nobody
        BY CloudAssumption DEF Init, StatusOf
    <2>2. \A c \in DOMAIN plan : Asked(c) \in CreateOps => StatusOf(On(c)) = "GONE"
        BY CloudAssumption DEF Init, StatusOf, On, Asked
    <2> QED
        BY <1>2, <2>1, <2>2 DEF BirthInv, Unborn, Init
<1>5. KeptInv
    <2>1. \A c \in DOMAIN plan : call[c].pc \notin Told /\ JobsOf(c) = {}
        BY <1>2 DEF Told
    <2> QED
        BY <2>1 DEF KeptInv, Init
<1>6. NameInv
    <2>1. ASSUME NEW c \in DOMAIN plan, NEW i \in Listed(Kind(c)) PROVE PageOf(Listed(Kind(c)), i) >= 1
        BY ListedType, PageBound
    <2>2. \A c \in DOMAIN plan : ~Acting(c)
        BY <1>2 DEF Acting, JobsOf
    <2> QED
        BY <1>2, <2>1, <2>2 DEF NameInv, Init
<1> QED
    BY <1>3, <1>4, <1>5, <1>6 DEF HistoryInv

LEMMA HistoryStep == IInv /\ HistoryInv /\ [Next]_vars => HistoryInv'
<1> SUFFICES ASSUME IInv, HistoryInv, [Next]_vars PROVE HistoryInv'
    OBVIOUS
<1> USE DEF IInv, HistoryInv
<1>1. CASE UNCHANGED vars
    <2> USE <1>1 DEF vars, history
    <2>1. LandInv'
        BY DEF LandInv, Once, Asked, JobsOf, StatusOf, On, Ends
    <2>2. BirthInv' /\ KeptInv'
        BY DEF BirthInv, KeptInv, Unborn, Asked, JobsOf, StatusOf, On, Data, Attached
    <2>3. NameInv'
        BY DEF NameInv, Acting, Fits, Asked, On, Here, StatusOf, Kind, Listed, PageOf
    <2> QED
        BY <2>1, <2>2, <2>3
<1>2. ASSUME NEW c \in DOMAIN plan, QuietStep(c) PROVE HistoryInv'
    <2>1. Moves(c) /\ (Quiet \/ FirstRead(c))
        BY <1>2, QuietSteps DEF PlaceInv
    <2>2. call[c].result = "none"
        BY <2>1 DEF Moves, SentInv
    <2>3. Comes(c)
        BY <1>2, <2>2, QuietComes
    <2> QED
        BY <2>1, <2>3, LandQuiet, BirthQuiet, KeptQuiet, NameQuiet
<1>3. ASSUME NEW c \in DOMAIN plan, Accepted(c) \/ Outlives(c) PROVE HistoryInv'
    BY <1>3, LandSend, BirthSend, KeptSend, NameSend
<1>4. ASSUME NEW j \in jobs, Arrive(j) \/ StartJob(j) \/ EndJob(j) PROVE HistoryInv'
    BY <1>4, LandWork, BirthWork, KeptWork, NameWork
<1> QED
    BY <1>1, <1>2, <1>3, <1>4, NextCases

LEMMA History == Spec => []HistoryInv
BY HistoryInit, HistoryStep, Invariant, PTL DEF Spec

-----------------------------------------------------------------------------
\* Every reachable state is well typed; no wait polls and no
\* request is tried more often than its bound allows.
THEOREM TypeCorrect == Spec => []TypeOK
<1>1. IInv => TypeOK
    BY TypeParts DEF IInv
<1> QED
    BY <1>1, Invariant, PTL

\* A write that is sent once and reports a 4xx, or an error of its reads, has
\* done nothing and will do nothing.
THEOREM ErrorCorrect == Spec => []ErrorMeansUntouched
<1>1. IInv => ErrorMeansUntouched
    BY DEF IInv, SentInv, Unsent, ErrorMeansUntouched
<1> QED
    BY <1>1, Invariant, PTL

\* What a toggle, a reboot, a resize, a detach or a delete checked is so when
\* the service carries it out, unless another write raced with it.
THEOREM ReadCorrect == Spec => []ActsOnWhatItRead
<1>1. IInv => ActsOnWhatItRead
    BY DEF IInv, FitInv, ActsOnWhatItRead
<1> QED
    BY <1>1, Invariant, PTL

\* A write sent once that reports success has nothing left at the service,
\* unless another write raced with it.  A reboot needs the service to begin it
\* within serverRebootMinWait: Prompt.
THEOREM LandedCorrect == ASSUME Prompt PROVE Spec => []SettledMeansLanded
<1>1. IInv /\ HistoryInv => SettledMeansLanded
    BY DEF IInv, AskedInv, HistoryInv, LandInv, Ends, JobsOf, SettledMeansLanded
<1> QED
    BY <1>1, Invariant, History, PTL

\* A delete of a server names the data volumes it leaves over, however it ends
\* once its request may have been accepted.
THEOREM KeptCorrect == Spec => []KeptNamesWhatStays
<1>1. HistoryInv => KeptNamesWhatStays
    BY DEF HistoryInv, KeptInv, KeptNamesWhatStays
<1> QED
    BY <1>1, History, PTL

\* A create orders a name that exists only if the list changed since its walk
\* over the pages began.
THEOREM NameCorrect == Spec => []NameOrderedOnce
<1>1. HistoryInv => NameOrderedOnce
    BY DEF HistoryInv, NameInv, NameOrderedOnce
<1> QED
    BY <1>1, History, PTL

-----------------------------------------------------------------------------
(* Network: writes in one VPC.  NetInv says who has sent nothing yet, what     *)
(* each call saw at its last read, and who it was that deletes a subnet.       *)

LEMMA Bounds == MaxReads \in Nat /\ Attempts \in Nat \ {0}
BY CloudAssumption

LEMMA NetConstants ==
    /\ Acl \cap Table = {} /\ (Acl \cup Table) \cap Subnet = {}
    /\ None \notin Acl \cup Table \cup Subnet \cup Dhcp
    /\ SystemSet \in Dhcp
BY VServerAssumption

LEMMA NetScene ==
    ASSUME NEW i \in Scenes
    PROVE  /\ [box |-> i.box, subnet |-> i.subnet, vpc |-> i.vpc] \in Net!World
           /\ \A a \in Acl, s \in Subnet :
                i.box[a].status # "GONE" /\ s \in i.box[a].held => i.subnet[s].status \notin {"DELETED", "GONE"}
           /\ \A s \in Subnet : i.subnet[s].status # "DELETING"
           /\ i.foreign \in Nat
           /\ \A c \in DOMAIN i.plan :
                /\ c \in Call /\ i.plan[c] \in Net!Plan
                /\ i.plan[c].op \in Net!EntryOps => i.plan[c].on \in Net!Box
                /\ i.plan[c].op \in Net!SubnetOps => i.plan[c].on \in Acl
                /\ i.plan[c].op \in {"create", "delete"} => i.plan[c].on \in Net!Box \cup Subnet
BY VServerAssumption

NetCallOK == netCall \in [Call -> Net!Local]

BoxState == [status : {"ACTIVE", "BUSY", "DELETING", "ERROR", "GONE"}, hidden : BOOLEAN,
             entries : SUBSET Net!Entry, held : SUBSET Subnet]
SubnetState == [status : Net!Shown \cup {"DELETED", "GONE"}, table : Table \cup {None}]
VpcState == [status : {"ACTIVE", "DELETING", "ERROR", "GONE"}, main : Table \cup {None},
             dns : {"DISABLED", "ENABLING", "ENABLED"}, dhcp : Dhcp \cup {None}, sets : SUBSET Dhcp]

NetStateOK ==
    /\ \E i \in Scenes : netPlan = i.plan
    /\ box \in [Net!Box -> BoxState] /\ subnet \in [Subnet -> SubnetState] /\ vpc \in VpcState
    /\ Occupied \subseteq Subnet
    /\ late \subseteq Call
    /\ foreign \in Nat
    /\ acted \subseteq Call /\ netRaced \subseteq Call /\ netMisfit \subseteq Call

\* Only a call that has something to do is anywhere or sends anything.
NetAskedInv ==
    /\ \A c \in Call : netCall[c].pc # "done" => c \in DOMAIN netPlan
    /\ late \subseteq DOMAIN netPlan

Before == {"read", "readSubnet", "recheck", "uses", "acls", "detail", "subnets", "target"}

\* Where the calls of each operation can be, and what they send.
Place(c, w) ==
    /\ w \in {"recheck", "readSubnet"} => Net!Asked(c) \in Net!ListOps
    /\ w \in {"uses", "acls", "detail"} => Net!Deletes(c, Subnet)
    /\ w = "subnets" => Net!Deletes(c, Table) \/ Net!Asked(c) = "deleteVpc"
    /\ w = "target" => Net!Asked(c) = "setDhcp"

PlacedAt(c) ==
    /\ netCall[c].pc # "done" => netCall[c].result = "none"
    /\ Place(c, netCall[c].pc)
    /\ Net!Asked(c) \in Net!EntryOps => netCall[c].body \subseteq Net!Entry

\* A call has done nothing and has nothing on its way.
NetUntouched(c) == c \notin acted \cup late

NetUntouchedAt(c) ==
    /\ netCall[c].pc \in Before \/ netCall[c].result \in Net!Early => NetUntouched(c)
    /\ Net!Once(c) /\ (netCall[c].pc = "send" \/ netCall[c].result = "refused") => NetUntouched(c)

\* What a call that is at w, with the ACLs todo still to ask about, has seen.
Seen(c, w, todo) ==
    /\ w = "send" => Net!Fits(c)
    /\ w \in {"acls", "detail"} => Net!On(c) \notin Occupied
    /\ w = "detail" => \A a \in Acl \ todo : ~Net!Holds(a, Net!On(c))
    /\ w = "subnets" /\ Net!Asked(c) = "deleteVpc" => Net!InVPC = {}
    /\ w = "target" => ~Net!PrivateDNS

SeenAt(c) ==
    /\ c \notin netRaced => Seen(c, netCall[c].pc, netCall[c].todo) /\ (c \in late => Net!Fits(c))
    /\ (netCall[c].pc = "send" \/ c \in late) /\ Net!Asked(c) = "setDhcp" => netPlan[c].dhcp # SystemSet

PlacedInv == \A c \in DOMAIN netPlan : PlacedAt(c)
NetUntouchedInv == \A c \in DOMAIN netPlan : NetUntouchedAt(c)
SeenInv == \A c \in DOMAIN netPlan : SeenAt(c)

\* A subnet is being deleted for a call, and an ACL that holds one that is, or
\* was, came to hold it after the checks of such a call began.
DeleterInv == \A s \in Subnet : subnet[s].status = "DELETING" =>
    \E c \in acted \cap DOMAIN netPlan : Net!Deletes(c, {s})

StuckInv == \A a \in Acl, s \in Subnet : Net!Holds(a, s) /\ subnet[s].status \in {"DELETING", "DELETED", "GONE"}
    => \E c \in netRaced \cap DOMAIN netPlan : Net!Deletes(c, {s}) /\ netCall[c].pc # "read"

NetInv ==
    /\ NetCallOK /\ NetStateOK /\ NetAskedInv /\ PlacedInv /\ NetUntouchedInv /\ SeenInv
    /\ netMisfit = {} /\ DeleterInv /\ StuckInv

LEMMA NetTypeParts == Net!TypeOK <=> NetCallOK /\ NetStateOK
<1>1. [box |-> box, subnet |-> subnet, vpc |-> vpc] \in Net!World
        <=> box \in [Net!Box -> BoxState] /\ subnet \in [Subnet -> SubnetState] /\ vpc \in VpcState
    BY DEF Net!World, BoxState, SubnetState, VpcState
<1> QED
    BY <1>1 DEF Net!TypeOK, NetCallOK, NetStateOK

LEMMA NetPlanType ==
    ASSUME NetStateOK, NEW c \in DOMAIN netPlan
    PROVE  /\ c \in Call /\ netPlan[c] \in Net!Plan
           /\ Net!Asked(c) \in Net!EntryOps => Net!On(c) \in Net!Box
           /\ Net!Asked(c) \in Net!SubnetOps => Net!On(c) \in Acl
           /\ Net!Asked(c) \in {"create", "delete"} => Net!On(c) \in Net!Box \cup Subnet
           /\ netPlan[c].entry \in Net!Entry /\ netPlan[c].subnet \in Subnet /\ netPlan[c].dhcp \in Dhcp
<1>1. PICK i \in Scenes : netPlan = i.plan
    BY DEF NetStateOK
<1>2. c \in Call /\ netPlan[c] \in Net!Plan
    BY <1>1, NetScene, NetConstants
<1>3. netPlan[c].entry \in Net!Entry /\ netPlan[c].subnet \in Subnet /\ netPlan[c].dhcp \in Dhcp
    BY <1>2 DEF Net!Plan
<1> QED
    BY <1>1, <1>2, <1>3, NetScene, NetConstants DEF Net!Asked, Net!On

\* Which of the cases of a CASE over the operations a call falls into.
NetKind(c) ==
    \/ Net!Asked(c) \in Net!EntryOps \/ Net!Asked(c) \in Net!SubnetOps
    \/ Net!Deletes(c, Acl) \/ Net!Deletes(c, Table) \/ Net!Deletes(c, Subnet)
    \/ Net!Creates(c, Net!Box) \/ Net!Creates(c, Subnet)
    \/ Net!Asked(c) \in {"deleteVpc", "deleteDhcp", "enableDns", "setDhcp", "clearDhcp"}

LEMMA NetKinds ==
    ASSUME NetStateOK, NEW c \in DOMAIN netPlan
    PROVE  NetKind(c)
BY NetPlanType
   DEF NetKind, Net!Plan, Net!Asked, Net!Deletes, Net!Creates, Net!Box, Net!ListOps, Net!DhcpOps,
                   Net!OtherOps

LEMMA NetInit ==
    ASSUME Net!Init PROVE NetInv
<1>1. PICK i \in Scenes : netPlan = i.plan /\ foreign = i.foreign /\ box = i.box /\ subnet = i.subnet /\ vpc = i.vpc
    BY DEF Net!Init
<1>2. [box |-> i.box, subnet |-> i.subnet, vpc |-> i.vpc] \in Net!World /\ i.foreign \in Nat
    BY <1>1, NetScene, NetConstants
<1>3. 0 \in 0..MaxReads /\ 0 \in 0..(Attempts - 1)
    BY Bounds
<1>4. "none" \in Net!Result /\ {"done", "send", "read"} \subseteq Net!PC
    BY DEF Net!Result, Net!PC
<1>5. NetCallOK
    BY <1>3, <1>4 DEF NetCallOK, Net!Local, Net!Init
<1>6. NetStateOK
    BY <1>1, <1>2 DEF NetStateOK, Net!Init, Net!World, BoxState, SubnetState, VpcState
<1>7. ASSUME NEW c \in DOMAIN netPlan
      PROVE  PlacedAt(c) /\ NetUntouchedAt(c) /\ SeenAt(c)
    <2>1. c \in Call
        BY <1>6, NetPlanType
    <2>2. /\ netCall[c].pc = (IF netPlan[c].op = "create" THEN "send" ELSE "read")
          /\ netCall[c].body = {} /\ netCall[c].result = "none" /\ late = {} /\ acted = {}
        BY <2>1 DEF Net!Init
    <2>3. netCall[c].pc \in {"send", "read"} /\ (netCall[c].pc = "send" => Net!Asked(c) = "create")
        BY <2>2 DEF Net!Asked
    <2>4. Net!Asked(c) = "create" => Net!Fits(c)
        BY DEF Net!Fits, Net!Deletes, Net!ListOps, Net!EntryOps, Net!SubnetOps
    <2> QED
        BY <2>2, <2>3, <2>4
           DEF PlacedAt, Place, NetUntouchedAt, NetUntouched, SeenAt, Seen, Net!Early, Before
<1>8. DeleterInv /\ StuckInv
    BY <1>1, NetScene, NetConstants DEF DeleterInv, StuckInv, Net!Holds
<1> QED
    BY <1>5, <1>6, <1>7, <1>8 DEF NetInv, NetAskedInv, PlacedInv, NetUntouchedInv, SeenInv, Net!Init

-----------------------------------------------------------------------------
\* What these see of a step of a call that the service does not see.
NetGoes(c) ==
    /\ \A d \in Call \ {c} : netCall'[d] = netCall[d]
    /\ UNCHANGED <<netPlan, Net!service, Occupied, late, foreign, acted, netMisfit>>
    /\ netRaced' = netRaced \/ (netCall[c].pc \in {"read", "recheck"} /\ netRaced' = netRaced \ {c})
    /\ netCall'[c].pc \in Before => netCall[c].pc \in Before
    /\ netCall'[c].pc = "read" => netCall[c].pc = "read"
    /\ netCall'[c].result \in Net!Early => netCall[c].pc \in Before \/ (netCall[c].pc = "send" /\ Net!Once(c))
    /\ netCall'[c].result = "refused" => netCall[c].pc = "send"
    /\ netCall'[c].pc = "send" => netCall[c].pc \in Before \/ (netCall[c].pc = "send" /\ ~Net!Once(c))
    /\ PlacedAt(c)' /\ SeenAt(c)'

\* The service, as the calls see it, stays as it is.
Calm(c) ==
    \/ Net!Quiet
    \/ netCall[c].pc \in {"read", "recheck"} /\ Net!Afresh(c)

LEMMA CalmSteps ==
    ASSUME NEW c, Calm(c)
    PROVE  /\ UNCHANGED <<netPlan, box, subnet, vpc, Occupied, late, foreign, acted, netMisfit>>
           /\ netRaced' = netRaced \/ (netCall[c].pc \in {"read", "recheck"} /\ netRaced' = netRaced \ {c})
BY DEF Calm, Net!Quiet, Net!Afresh, Net!service, Net!history

\* What a call has seen depends on the list it read and the service alone.
LEMMA SameSeen ==
    ASSUME NEW c \in DOMAIN netPlan, NEW w, NEW todo, UNCHANGED <<netPlan, box, subnet, vpc, Occupied>>,
           netCall'[c].base = netCall[c].base, netCall'[c].body = netCall[c].body
    PROVE  /\ Net!Fits(c)' = Net!Fits(c) /\ Seen(c, w, todo)' = Seen(c, w, todo)
           /\ Net!Asked(c)' = Net!Asked(c) /\ Net!On(c)' = Net!On(c) /\ Net!Once(c)' = Net!Once(c)
<1>1. /\ Net!Asked(c)' = Net!Asked(c) /\ Net!On(c)' = Net!On(c) /\ Net!Here(c)' = Net!Here(c) /\ Net!ListOf(c)' = Net!ListOf(c)
      /\ Net!Once(c)' = Net!Once(c) /\ Net!InVPC' = Net!InVPC /\ Net!Listed' = Net!Listed /\ Net!PrivateDNS' = Net!PrivateDNS
      /\ \A kind : Net!Deletes(c, kind)' = Net!Deletes(c, kind) 
      /\ Net!Named(Net!On(c))' = Net!Named(Net!On(c)) /\ Net!ReliesOnMain(Net!On(c))' = Net!ReliesOnMain(Net!On(c))
      /\ \A a : Net!Holds(a, Net!On(c))' = Net!Holds(a, Net!On(c))
    BY DEF Net!Asked, Net!On, Net!Here, Net!ListOf, Net!Once, Net!OnAcl, Net!InVPC, Net!Listed,
       Net!PrivateDNS,
           Net!Deletes, Net!Named, Net!ReliesOnMain, Net!Holds
<1>2. Net!Fits(c)' = Net!Fits(c)
    BY <1>1 DEF Net!Fits
<1> QED
    BY <1>1, <1>2 DEF Seen

Moved(c, w, todo) ==
    /\ \A d \in Call \ {c} : netCall'[d] = netCall[d]
    /\ netCall'[c].pc = w /\ netCall'[c].todo = todo /\ netCall'[c].result = netCall[c].result
    /\ netCall'[c].base = netCall[c].base /\ netCall'[c].body = netCall[c].body

Ended(c, r) ==
    /\ \A d \in Call \ {c} : netCall'[d] = netCall[d]
    /\ netCall'[c].pc = "done" /\ netCall'[c].result = r
    /\ netCall'[c].base = netCall[c].base /\ netCall'[c].body = netCall[c].body

LEMMA NetReturn ==
    ASSUME NetCallOK, NEW c \in Call, NEW r \in Net!Result, Net!Return(c, r)
    PROVE  NetCallOK' /\ Ended(c, r)
<1>1. 0 \in 0..MaxReads /\ 0 \in 0..(Attempts - 1) /\ "done" \in Net!PC /\ netCall[c] \in Net!Local
    BY Bounds DEF Net!PC, NetCallOK
<1>2. [netCall[c] EXCEPT !.pc = "done", !.result = r, !.todo = {}, !.reads = 0, !.tries = 0] \in Net!Local
    BY <1>1 DEF Net!Local
<1>3. NetCallOK'
    BY <1>2 DEF NetCallOK, Net!Return
<1>4. Ended(c, r)
    BY <1>1 DEF NetCallOK, Net!Local, Net!Return, Ended
<1> QED
    BY <1>3, <1>4

LEMMA NetGoto ==
    ASSUME NetCallOK, NEW c \in Call, NEW w \in Net!PC, Net!Goto(c, w)
    PROVE  NetCallOK' /\ Moved(c, w, netCall[c].todo)
<1>1. 0 \in 0..MaxReads /\ netCall[c] \in Net!Local
    BY Bounds DEF NetCallOK
<1>2. [netCall[c] EXCEPT !.pc = w, !.reads = 0] \in Net!Local
    BY <1>1 DEF Net!Local
<1>3. NetCallOK'
    BY <1>2 DEF NetCallOK, Net!Goto
<1>4. Moved(c, w, netCall[c].todo)
    BY <1>1 DEF NetCallOK, Net!Local, Net!Goto, Moved
<1> QED
    BY <1>3, <1>4

LEMMA NetAsk ==
    ASSUME NetCallOK, NEW c \in Call, NEW acls \in SUBSET Acl, Net!Ask(c, acls)
    PROVE  NetCallOK' /\ Moved(c, IF acls = {} THEN "send" ELSE "detail", acls)
<1> DEFINE w == IF acls = {} THEN "send" ELSE "detail"
<1>1. w \in Net!PC /\ netCall[c] \in Net!Local
    BY DEF NetCallOK, Net!PC
<1> HIDE DEF w
<1>2. netCall' = [netCall EXCEPT ![c] = [netCall[c] EXCEPT !.pc = w, !.todo = acls]]
    BY DEF Net!Ask, w
<1>3. [netCall[c] EXCEPT !.pc = w, !.todo = acls] \in Net!Local
    BY <1>1 DEF Net!Local
<1>4. NetCallOK' /\ Moved(c, w, acls)
    BY <1>1, <1>2, <1>3 DEF NetCallOK, Net!Local, Moved
<1> QED
    BY <1>4 DEF w

LEMMA NetPoll ==
    ASSUME NetCallOK, NEW c \in Call, NEW r \in Net!Result, Net!Poll(c, r)
    PROVE  NetCallOK' /\ (Moved(c, netCall[c].pc, netCall[c].todo) \/ Ended(c, r))
<1>1. CASE Net!Return(c, r)
    BY <1>1, NetReturn
<1>2. CASE netCall[c].reads < MaxReads /\ netCall' = [netCall EXCEPT ![c].reads = @ + 1]
    <2>1. netCall[c] \in Net!Local /\ netCall[c].reads + 1 \in 0..MaxReads
        BY <1>2, Bounds DEF NetCallOK, Net!Local
    <2>2. [netCall[c] EXCEPT !.reads = @ + 1] \in Net!Local
        BY <2>1 DEF Net!Local
    <2>3. NetCallOK' /\ Moved(c, netCall[c].pc, netCall[c].todo)
        BY <1>2, <2>1, <2>2 DEF NetCallOK, Net!Local, Moved
    <2> QED
        BY <2>3
<1> QED
    BY <1>1, <1>2 DEF Net!Poll

LEMMA NetEnds ==
    ASSUME NetInv, NEW c \in DOMAIN netPlan, NEW r, Ended(c, r), NetCallOK', Calm(c), netCall[c].pc # "done",
           r \in Net!Early => netCall[c].pc \in Before \/ (netCall[c].pc = "send" /\ Net!Once(c)),
           r = "refused" => netCall[c].pc = "send"
    PROVE  NetCallOK' /\ NetGoes(c)
<1>1. UNCHANGED <<netPlan, box, subnet, vpc, Occupied, late, foreign, acted, netMisfit>>
      /\ (netRaced' = netRaced \/ (netCall[c].pc \in {"read", "recheck"} /\ netRaced' = netRaced \ {c}))
    BY CalmSteps
<1>2. Net!Fits(c)' = Net!Fits(c) /\ Net!Asked(c)' = Net!Asked(c)
    BY <1>1, SameSeen DEF Ended
<1>3. PlacedAt(c)'
    BY <1>2 DEF NetInv, PlacedInv, PlacedAt, Place, Ended
<1>4. c \in late => netCall[c].pc \notin Before
    BY DEF NetInv, NetUntouchedInv, NetUntouchedAt, NetUntouched
<1>5. SeenAt(c)'
    BY <1>1, <1>2, <1>4 DEF NetInv, SeenInv, SeenAt, Seen, Ended, Before
<1> QED
    BY <1>1, <1>3, <1>5 DEF NetGoes, Ended, Net!service, Before

LEMMA NetMoves ==
    ASSUME NetInv, NEW c \in DOMAIN netPlan, NEW w \in Net!PC \ {"done", "read"}, NEW todo, Moved(c, w, todo), NetCallOK',
           Calm(c), netCall[c].pc \in Before, Place(c, w),
           c \notin netRaced' => Seen(c, w, todo),
           w = "send" /\ Net!Asked(c) = "setDhcp" => netPlan[c].dhcp # SystemSet
    PROVE  NetCallOK' /\ NetGoes(c)
<1>1. UNCHANGED <<netPlan, box, subnet, vpc, Occupied, late, foreign, acted, netMisfit>>
      /\ (netRaced' = netRaced \/ (netCall[c].pc \in {"read", "recheck"} /\ netRaced' = netRaced \ {c}))
    BY CalmSteps
<1>2. Net!Fits(c)' = Net!Fits(c) /\ Seen(c, w, todo)' = Seen(c, w, todo) /\ Net!Asked(c)' = Net!Asked(c) /\ Net!On(c)' = Net!On(c)
    BY <1>1, SameSeen DEF Moved
<1>3. c \notin late /\ netCall[c].result = "none"
    BY DEF NetInv, NetUntouchedInv, NetUntouchedAt, NetUntouched, PlacedInv, PlacedAt, Before
<1>4. PlacedAt(c)'
    BY <1>2, <1>3 DEF NetInv, PlacedInv, PlacedAt, Place, Moved, Net!Deletes
<1>5. SeenAt(c)'
    BY <1>1, <1>2, <1>3 DEF SeenAt, Moved
<1> QED
    BY <1>1, <1>3, <1>4, <1>5 DEF NetGoes, Moved, Net!service, Net!Early

\* A wait that goes on, or a step back to sending again.
LEMMA NetStays ==
    ASSUME NetInv, NEW c \in DOMAIN netPlan, Moved(c, netCall[c].pc, netCall[c].todo), NetCallOK', Calm(c),
           netCall[c].pc \notin {"done", "recheck"}, netCall[c].pc = "send" => ~Net!Once(c)
    PROVE  NetCallOK' /\ NetGoes(c)
<1>1. UNCHANGED <<netPlan, box, subnet, vpc, Occupied, late, foreign, acted, netMisfit>>
      /\ (netRaced' = netRaced \/ (netCall[c].pc = "read" /\ netRaced' = netRaced \ {c}))
    BY CalmSteps
<1>2. /\ Net!Fits(c)' = Net!Fits(c) /\ Net!Asked(c)' = Net!Asked(c) /\ Net!On(c)' = Net!On(c)
      /\ Seen(c, netCall[c].pc, netCall[c].todo)' = Seen(c, netCall[c].pc, netCall[c].todo)
    BY <1>1, SameSeen DEF Moved
<1>3. netCall[c].result = "none" /\ (netCall[c].pc = "read" => c \notin late)
    BY DEF NetInv, NetUntouchedInv, NetUntouchedAt, NetUntouched, PlacedInv, PlacedAt, Before
<1>4. PlacedAt(c)'
    BY <1>2, <1>3 DEF NetInv, PlacedInv, PlacedAt, Place, Moved, Net!Deletes
<1>5. SeenAt(c)'
    <2>1. SeenAt(c)
        BY DEF NetInv, SeenInv
    <2>2. CASE netRaced' = netRaced
        BY <1>1, <1>2, <2>1, <2>2 DEF SeenAt, Seen, Moved
    <2>3. CASE netCall[c].pc = "read"
        BY <1>1, <1>2, <1>3, <2>3 DEF SeenAt, Seen, Moved
    <2> QED
        BY <1>1, <2>2, <2>3
<1> QED
    BY <1>1, <1>3, <1>4, <1>5 DEF NetGoes, Moved, Net!service, Net!Early

-----------------------------------------------------------------------------
(* The steps of a call before its request. *)

LEMMA NetMerge ==
    ASSUME NetInv, NEW c \in DOMAIN netPlan, Net!Reading(c, Net!ListOps), Net!Afresh(c),
           NEW list, NEW w \in {"recheck", "readSubnet"}, Net!Merge(c, list, w),
           Net!Asked(c) \in Net!EntryOps => list \subseteq Net!Entry,
           Net!Asked(c) \in Net!SubnetOps => list \subseteq Subnet
    PROVE  NetCallOK' /\ NetGoes(c)
<1>0. c \in Call /\ Net!On(c) \in Net!Box /\ netCall[c].pc = "read" /\ netCall[c] \in Net!Local /\ netCall[c].result = "none" /\ c \notin late
      /\ Net!Asked(c) \in Net!ListOps /\ Calm(c)
    BY NetPlanType DEF NetInv, NetCallOK, Net!Reading, Net!At, Net!ListOps, Net!Box, NetUntouchedInv,
                       NetUntouchedAt, NetUntouched,
                       PlacedInv, PlacedAt, Before, Calm
<1>1. box[Net!On(c)].entries \subseteq Net!Entry /\ box[Net!On(c)].held \subseteq Subnet
    BY <1>0 DEF NetInv, NetStateOK, BoxState
<1>2. /\ Net!ListOf(c) \in (SUBSET Net!Entry) \cup (SUBSET Subnet) /\ list \in (SUBSET Net!Entry) \cup (SUBSET Subnet)
      /\ 0 \in 0..MaxReads /\ w \in Net!PC
    BY <1>0, <1>1, Bounds, NetConstants DEF Net!ListOf, Net!Here, Net!ListOps, Net!PC
<1>3. [netCall[c] EXCEPT !.pc = w, !.reads = 0, !.base = Net!ListOf(c), !.body = list] \in Net!Local
    BY <1>0, <1>2 DEF Net!Local
<1>4. NetCallOK'
    BY <1>0, <1>3 DEF Net!Merge, NetInv, NetCallOK
<1>5. /\ netCall'[c].pc = w /\ netCall'[c].result = "none" /\ netCall'[c].body = list
      /\ \A d \in Call \ {c} : netCall'[d] = netCall[d]
    BY <1>0 DEF Net!Merge, NetInv, NetCallOK, Net!Local
<1>6. PlacedAt(c)'
    BY <1>0, <1>5, CalmSteps DEF PlacedAt, Place, Net!Asked
<1>7. SeenAt(c)'
    BY <1>0, <1>5, CalmSteps DEF SeenAt, Seen
<1> QED
    BY <1>0, <1>4, <1>5, <1>6, <1>7, CalmSteps DEF NetGoes, Net!service, Before, Net!Early

LEMMA ReturnsEarly ==
    ASSUME NetInv, NEW c \in DOMAIN netPlan, NEW r \in Net!Early, Net!Return(c, r), Calm(c), netCall[c].pc \in Before
    PROVE  NetCallOK' /\ NetGoes(c)
BY NetPlanType, NetReturn, NetEnds DEF NetInv, Net!Result, Net!Early, Before

\* A step to the next read, or to the request.
LEMMA GoesOn ==
    ASSUME NetInv, NEW c \in DOMAIN netPlan, NEW w \in Net!PC \ {"done", "read", "detail"}, Net!Goto(c, w), Calm(c),
           netCall[c].pc \in Before, Place(c, w), c \notin netRaced' => Seen(c, w, {}),
           w = "send" /\ Net!Asked(c) = "setDhcp" => netPlan[c].dhcp # SystemSet
    PROVE  NetCallOK' /\ NetGoes(c)
<1>1. c \in Call /\ NetCallOK' /\ Moved(c, w, netCall[c].todo)
    BY NetPlanType, NetGoto DEF NetInv
<1>2. c \notin netRaced' => Seen(c, w, netCall[c].todo)
    BY DEF Seen
<1> QED
    BY <1>1, <1>2, NetMoves

LEMMA PollsEarly ==
    ASSUME NetInv, NEW c \in DOMAIN netPlan, NEW r \in Net!Early, Net!Poll(c, r), Calm(c), netCall[c].pc = "read"
    PROVE  NetCallOK' /\ NetGoes(c)
BY NetPlanType, NetPoll, NetEnds, NetStays DEF NetInv, Net!Result, Net!Early, Before

LEMMA DecideStep ==
    ASSUME NetInv, NEW c \in DOMAIN netPlan, Net!Reading(c, Net!ListOps), Net!Afresh(c), Net!Decide(c)
    PROVE  NetCallOK' /\ NetGoes(c)
<1>0. c \in Call /\ Net!On(c) \in Net!Box /\ netCall[c].pc = "read" /\ Calm(c) /\ Net!Asked(c) \in Net!ListOps
      /\ netPlan[c].entry \in Net!Entry /\ netPlan[c].subnet \in Subnet /\ netCall[c].pc \in Before
    BY NetPlanType DEF NetInv, Net!Reading, Net!At, Net!ListOps, Net!Box, Calm, Before
<1>1. box[Net!On(c)].entries \subseteq Net!Entry /\ box[Net!On(c)].held \subseteq Subnet
    BY <1>0 DEF NetInv, NetStateOK, BoxState
<1>2. ASSUME NEW r \in {"unchanged", "invalid", "absent", "default"}, Net!Return(c, r)
      PROVE  NetCallOK' /\ NetGoes(c)
    BY <1>0, <1>2, ReturnsEarly DEF Net!Early
<1>3. CASE Net!Asked(c) = "add"
    <2>1. Net!ListOf(c) \cup {netPlan[c].entry} \subseteq Net!Entry
        BY <1>0, <1>1, <1>3 DEF Net!ListOf, Net!EntryOps, Net!Here
    <2>2. CASE Net!Merge(c, Net!ListOf(c) \cup {netPlan[c].entry}, "recheck")
        BY <1>3, <2>1, <2>2, NetMerge DEF Net!SubnetOps
    <2>3. CASE \E e \in Net!Same(c) : Net!Return(c, IF e = netPlan[c].entry THEN "unchanged" ELSE "invalid")
        BY <1>2, <2>3
    <2> QED
        BY <1>3, <2>2, <2>3 DEF Net!Decide, Net!AddEntry
<1>4. CASE Net!Asked(c) = "remove"
    <2>1. Net!ListOf(c) \ Net!Same(c) \subseteq Net!Entry
        BY <1>0, <1>1, <1>4 DEF Net!ListOf, Net!EntryOps, Net!Here
    <2>2. CASE Net!Merge(c, Net!ListOf(c) \ Net!Same(c), "recheck")
        BY <1>4, <2>1, <2>2, NetMerge DEF Net!SubnetOps
    <2> QED
        BY <1>2, <1>4, <2>2 DEF Net!Decide, Net!RemoveRoute, Net!RemoveNetworkACLRule
<1>5. CASE Net!Asked(c) = "associate"
    <2>1. Net!ListOf(c) \cup {netPlan[c].subnet} \subseteq Subnet
        BY <1>0, <1>1, <1>5 DEF Net!ListOf, Net!EntryOps, Net!Here
    <2>2. CASE Net!Merge(c, Net!ListOf(c) \cup {netPlan[c].subnet}, "readSubnet")
        BY <1>5, <2>1, <2>2, NetMerge DEF Net!EntryOps
    <2> QED
        BY <1>2, <1>5, <2>2 DEF Net!Decide, Net!AssociateNetworkACLSubnet
<1>6. CASE Net!Asked(c) = "disassociate"
    <2>1. Net!ListOf(c) \ {netPlan[c].subnet} \subseteq Subnet
        BY <1>0, <1>1, <1>6 DEF Net!ListOf, Net!EntryOps, Net!Here
    <2>2. CASE Net!Merge(c, Net!ListOf(c) \ {netPlan[c].subnet}, "recheck")
        BY <1>6, <2>1, <2>2, NetMerge DEF Net!EntryOps
    <2> QED
        BY <1>2, <1>6, <2>2 DEF Net!Decide, Net!DisassociateNetworkACLSubnet
<1> QED
    BY <1>0, <1>3, <1>4, <1>5, <1>6 DEF Net!ListOps, Net!EntryOps, Net!SubnetOps

LEMMA ListReads ==
    ASSUME NetInv, NEW c \in DOMAIN netPlan, Net!WaitPreWriteActive(c) \/ Net!ReadSubnet(c) \/ Net!Recheck(c)
    PROVE  NetCallOK' /\ NetGoes(c)
<1>1. CASE Net!WaitPreWriteActive(c)
    <2>1. netCall[c].pc = "read" /\ Calm(c) /\ netCall[c].pc \in Before /\ Net!Reading(c, Net!ListOps) /\ Net!Afresh(c)
        BY <1>1 DEF Net!WaitPreWriteActive, Net!Reading, Net!At, Calm, Before
    <2>2. CASE Net!Return(c, "absent")
        BY <2>1, <2>2, ReturnsEarly DEF Net!Early
    <2>3. CASE Net!Poll(c, "busy")
        BY <2>1, <2>3, PollsEarly DEF Net!Early
    <2> QED
        BY <1>1, <2>1, <2>2, <2>3, DecideStep DEF Net!WaitPreWriteActive
<1>2. CASE Net!ReadSubnet(c)
    <2>1. netCall[c].pc = "readSubnet" /\ Calm(c) /\ netCall[c].pc \in Before /\ Net!Asked(c) \in Net!ListOps
        BY <1>2 DEF Net!ReadSubnet, Net!At, Calm, Before, NetInv, PlacedInv, PlacedAt, Place
    <2>2. CASE Net!Return(c, "absent")
        BY <2>1, <2>2, ReturnsEarly DEF Net!Early
    <2>3. CASE Net!Goto(c, "recheck")
        <3>1. Place(c, "recheck") /\ Seen(c, "recheck", {}) /\ "recheck" \in Net!PC \ {"done", "read", "detail"}
            BY <2>1 DEF Place, Seen, Net!PC
        <3> QED
            BY <2>1, <2>3, <3>1, GoesOn
    <2> QED
        BY <1>2, <2>2, <2>3 DEF Net!ReadSubnet
<1>3. CASE Net!Recheck(c)
    <2>1. netCall[c].pc = "recheck" /\ Calm(c) /\ netCall[c].pc \in Before /\ Net!Asked(c) \in Net!ListOps
        BY <1>3 DEF Net!Recheck, Net!At, Calm, Before, NetInv, PlacedInv, PlacedAt, Place
    <2>2. CASE Net!Return(c, "absent") \/ Net!Return(c, "busy")
        BY <2>1, <2>2, ReturnsEarly DEF Net!Early
    <2>3. CASE Net!ListOf(c) = netCall[c].base /\ Net!Goto(c, "send")
        <3>1. Place(c, "send") /\ Seen(c, "send", {}) /\ "send" \in Net!PC \ {"done", "read", "detail"}
            <4>1. Net!Fits(c)
                BY <2>1, <2>3 DEF Net!Fits, Net!Deletes, Net!ListOps, Net!EntryOps, Net!SubnetOps
            <4> QED
                BY <2>1, <4>1 DEF Place, Seen, Net!PC
        <3>2. Net!Asked(c) # "setDhcp"
            BY <2>1 DEF Net!ListOps, Net!EntryOps, Net!SubnetOps
        <3> QED
            BY <2>1, <2>3, <3>1, <3>2, GoesOn
    <2> QED
        BY <1>3, <2>2, <2>3 DEF Net!Recheck
<1> QED
    BY <1>1, <1>2, <1>3

\* The checks of each operation, as the conjuncts of Fits.
LEMMA FitsCases ==
    ASSUME NetStateOK, NEW c \in DOMAIN netPlan
    PROVE  /\ Net!Asked(c) \in Net!ListOps => (Net!Fits(c) <=> Net!ListOf(c) \in {netCall[c].base, netCall[c].body})
           /\ Net!Deletes(c, Acl) => (Net!Fits(c) <=> Net!Here(c).held = {} /\ Net!On(c) \notin DefaultAcl)
           /\ Net!Deletes(c, Table) => (Net!Fits(c) <=> ~Net!Named(Net!On(c)) /\ ~Net!ReliesOnMain(Net!On(c)))
           /\ Net!Deletes(c, Subnet) => (Net!Fits(c) <=> Net!On(c) \notin Occupied /\ \A a \in Acl : ~Net!Holds(a, Net!On(c)))
           /\ Net!Asked(c) \in {"create", "enableDns"} => Net!Fits(c)
           /\ Net!Asked(c) = "deleteVpc" => (Net!Fits(c) <=> Net!InVPC = {} /\ Net!Listed = {})
           /\ Net!Asked(c) = "deleteDhcp" => (Net!Fits(c) <=> vpc.dhcp # netPlan[c].dhcp)
           /\ Net!Asked(c) \in Net!DhcpOps => (Net!Fits(c) <=> ~Net!PrivateDNS)
BY NetConstants
   DEF Net!Fits, Net!Deletes, Net!ListOps, Net!EntryOps, Net!SubnetOps, Net!DhcpOps, Net!Box

LEMMA DeleteReads ==
    ASSUME NetInv, NEW c \in DOMAIN netPlan,
           Net!DeleteACL(c) \/ Net!DeleteRouteTable(c) \/ Net!ReadSubnets(c) \/ Net!DeleteVPC(c) \/ Net!CheckNoSubnets(c)
           \/ Net!DeleteDHCPOptions(c)
    PROVE  NetCallOK' /\ NetGoes(c)
<1>0. /\ Calm(c) /\ netCall[c].pc \in {"read", "subnets"} /\ netCall[c].pc \in Before /\ NetStateOK
      /\ {"send", "subnets"} \subseteq Net!PC \ {"done", "read", "detail"} /\ Place(c, "send")
      /\ Net!Asked(c) # "setDhcp" /\ (c \notin netRaced => Seen(c, netCall[c].pc, netCall[c].todo))
    BY DEF Net!DeleteACL, Net!DeleteRouteTable, Net!ReadSubnets, Net!DeleteVPC, Net!CheckNoSubnets,
           Net!DeleteDHCPOptions, Net!Reading, Net!At,
           Calm, Before, Net!PC, Place, Net!Deletes, NetInv, SeenInv, SeenAt
<1>1. ASSUME NEW r \in {"absent", "default", "inUse"}, Net!Return(c, r) PROVE NetCallOK' /\ NetGoes(c)
    BY <1>0, <1>1, ReturnsEarly DEF Net!Early
<1>2. ASSUME Net!Goto(c, "send"), c \notin netRaced' => Net!Fits(c) PROVE NetCallOK' /\ NetGoes(c)
    <2>1. c \notin netRaced' => Seen(c, "send", {})
        BY <1>2 DEF Seen
    <2> QED
        BY <1>0, <1>2, <2>1, GoesOn
<1>3. CASE Net!DeleteACL(c)
    BY <1>1, <1>2, <1>3, <1>0, FitsCases DEF Net!DeleteACL
<1>4. CASE Net!DeleteRouteTable(c)
    <2>1. Net!Deletes(c, Table) /\ Net!Asked(c) # "deleteVpc"
        BY <1>4 DEF Net!DeleteRouteTable, Net!Deletes
    <2>2. Place(c, "subnets") /\ Seen(c, "subnets", {})
        BY <2>1 DEF Place, Seen
    <2> QED
        BY <1>0, <1>1, <1>4, <2>1, <2>2, GoesOn DEF Net!DeleteRouteTable
<1>5. CASE Net!ReadSubnets(c)
    BY <1>0, <1>1, <1>2, <1>5, FitsCases DEF Net!ReadSubnets
<1>6. CASE Net!DeleteVPC(c)
    <2>1. Net!Asked(c) = "deleteVpc"
        BY <1>6 DEF Net!DeleteVPC, Net!Reading
    <2>2. ASSUME Net!Goto(c, "subnets"), Net!InVPC = {} PROVE NetCallOK' /\ NetGoes(c)
        <3>1. Place(c, "subnets") /\ Seen(c, "subnets", {})
            BY <2>1, <2>2 DEF Place, Seen
        <3> QED
            BY <1>0, <2>1, <2>2, <3>1, GoesOn
    <2> QED
        BY <1>1, <1>6, <2>2 DEF Net!DeleteVPC
<1>7. CASE Net!CheckNoSubnets(c)
    <2>1. Net!Asked(c) = "deleteVpc" /\ netCall[c].pc = "subnets" /\ Net!Quiet
        BY <1>7 DEF Net!CheckNoSubnets, Net!At
    <2>2. c \notin netRaced' => Net!InVPC = {}
        BY <1>0, <2>1 DEF Seen, Net!Quiet, Net!history
    <2> QED
        BY <1>0, <1>1, <1>2, <1>7, <2>1, <2>2, FitsCases DEF Net!CheckNoSubnets
<1>8. CASE Net!DeleteDHCPOptions(c)
    BY <1>0, <1>1, <1>2, <1>8, FitsCases DEF Net!DeleteDHCPOptions, Net!Reading
<1> QED
    BY <1>3, <1>4, <1>5, <1>6, <1>7, <1>8

LEMMA SubnetReads ==
    ASSUME NetInv, NEW c \in DOMAIN netPlan,
           Net!DeleteSubnet(c) \/ Net!CheckSubnetNotInUse(c) \/ Net!ListNetworkACLsInVPC(c) \/ Net!CheckSubnetNotHeld(c)
    PROVE  NetCallOK' /\ NetGoes(c)
<1>0. /\ Calm(c) /\ netCall[c].pc \in {"read", "uses", "acls", "detail"} /\ netCall[c].pc \in Before /\ NetStateOK
      /\ {"uses", "acls"} \subseteq Net!PC \ {"done", "read", "detail"}
      /\ Net!Deletes(c, Subnet) /\ c \in Call /\ NetCallOK
      /\ (c \notin netRaced => Seen(c, netCall[c].pc, netCall[c].todo))
    BY NetPlanType DEF Net!DeleteSubnet, Net!CheckSubnetNotInUse, Net!ListNetworkACLsInVPC,
                       Net!CheckSubnetNotHeld, Net!At,
           Calm, Before, Net!PC, NetInv, SeenInv, SeenAt, PlacedInv, PlacedAt, Place
<1>1. ASSUME NEW r \in {"absent", "inUse"}, Net!Return(c, r) PROVE NetCallOK' /\ NetGoes(c)
    BY <1>0, <1>1, ReturnsEarly DEF Net!Early
<1>2. \A w \in {"send", "uses", "acls", "detail"} : Place(c, w)
    BY <1>0 DEF Place
<1>3. CASE Net!DeleteSubnet(c)
    <2>1. CASE Net!Goto(c, "uses")
        <3>1. Seen(c, "uses", {}) /\ Net!Asked(c) # "setDhcp"
            BY <1>0 DEF Seen, Net!Deletes
        <3> QED
            BY <1>0, <1>2, <2>1, <3>1, GoesOn
    <2> QED
        BY <1>1, <1>3, <2>1 DEF Net!DeleteSubnet
<1>4. CASE Net!CheckSubnetNotInUse(c)
    <2>1. CASE Net!On(c) \notin Occupied /\ Net!Goto(c, "acls")
        <3>1. Seen(c, "acls", {}) /\ Net!Asked(c) # "setDhcp"
            BY <1>0, <2>1 DEF Seen, Net!Deletes
        <3> QED
            BY <1>0, <1>2, <2>1, <3>1, GoesOn
    <2> QED
        BY <1>1, <1>4, <2>1 DEF Net!CheckSubnetNotInUse
<1>5. ASSUME NEW acls \in SUBSET Acl, Net!Ask(c, acls), Net!Quiet,
             c \notin netRaced => Net!On(c) \notin Occupied /\ \A a \in Acl \ acls : ~Net!Holds(a, Net!On(c))
      PROVE  NetCallOK' /\ NetGoes(c)
    <2> DEFINE w == IF acls = {} THEN "send" ELSE "detail"
    <2>1. NetCallOK' /\ Moved(c, w, acls)
        BY <1>0, <1>5, NetAsk
    <2>2. c \notin netRaced' => Seen(c, w, acls)
        <3>1. netRaced' = netRaced
            BY <1>5 DEF Net!Quiet, Net!history
        <3>2. acls = {} /\ c \notin netRaced => Net!Fits(c)
            BY <1>0, <1>5, FitsCases
        <3> QED
            BY <1>5, <3>1, <3>2 DEF Seen
    <2>3. w \in Net!PC \ {"done", "read"} /\ Place(c, w) /\ Net!Asked(c) # "setDhcp"
        BY <1>0, <1>2 DEF Net!PC, Net!Deletes
    <2> HIDE DEF w
    <2> QED
        BY <1>0, <2>1, <2>2, <2>3, NetMoves
<1>6. CASE Net!ListNetworkACLsInVPC(c)
    <2>1. netCall[c].pc = "acls" /\ Net!Quiet /\ Net!Ask(c, {a \in Acl : box[a].status # "GONE"})
        BY <1>6 DEF Net!ListNetworkACLsInVPC, Net!At
    <2>2. \A a \in Acl \ {b \in Acl : box[b].status # "GONE"} : ~Net!Holds(a, Net!On(c))
        BY DEF Net!Holds
    <2>3. c \notin netRaced => Net!On(c) \notin Occupied
        BY <1>0, <2>1 DEF Seen
    <2> QED
        BY <1>5, <2>1, <2>2, <2>3
<1>7. CASE Net!CheckSubnetNotHeld(c)
    <2>1. netCall[c].pc = "detail" /\ Net!Quiet /\ netCall[c].todo \in SUBSET Acl
        BY <1>0, <1>7 DEF Net!CheckSubnetNotHeld, Net!At, NetCallOK, Net!Local
    <2>2. ASSUME NEW a \in netCall[c].todo, ~Net!Holds(a, Net!On(c)), Net!Ask(c, netCall[c].todo \ {a})
          PROVE  NetCallOK' /\ NetGoes(c)
        <3>1. c \notin netRaced => Net!On(c) \notin Occupied /\ \A b \in Acl \ (netCall[c].todo \ {a}) : ~Net!Holds(b, Net!On(c))
            BY <1>0, <2>1, <2>2 DEF Seen
        <3> QED
            BY <1>5, <2>1, <2>2, <3>1
    <2> QED
        BY <1>1, <1>7, <2>2 DEF Net!CheckSubnetNotHeld
<1> QED
    BY <1>3, <1>4, <1>6, <1>7

LEMMA DhcpReads ==
    ASSUME NetInv, NEW c \in DOMAIN netPlan,
           Net!EnableVPCPrivateDNS(c) \/ Net!SetVPCDHCPOptions(c) \/ Net!ReadTarget(c)
    PROVE  NetCallOK' /\ NetGoes(c)
<1>0. /\ Calm(c) /\ netCall[c].pc \in {"read", "target"} /\ netCall[c].pc \in Before /\ NetStateOK
      /\ {"send", "target", "settle"} \subseteq Net!PC \ {"done", "read", "detail"} /\ Place(c, "send") /\ Place(c, "settle")
      /\ c \in Call /\ NetCallOK /\ (c \notin netRaced => Seen(c, netCall[c].pc, netCall[c].todo))
    BY NetPlanType
       DEF Net!EnableVPCPrivateDNS, Net!SetVPCDHCPOptions, Net!ReadTarget, Net!Reading, Net!At,
           Calm, Before, Net!PC, Place, NetInv, SeenInv, SeenAt
<1>1. ASSUME NEW r \in {"absent", "unchanged", "default", "busy"}, Net!Return(c, r) PROVE NetCallOK' /\ NetGoes(c)
    BY <1>0, <1>1, ReturnsEarly DEF Net!Early
<1>2. ASSUME Net!Goto(c, "send"), c \notin netRaced' => Net!Fits(c), Net!Asked(c) = "setDhcp" => netPlan[c].dhcp # SystemSet
      PROVE  NetCallOK' /\ NetGoes(c)
    <2>1. c \notin netRaced' => Seen(c, "send", {})
        BY <1>2 DEF Seen
    <2> QED
        BY <1>0, <1>2, <2>1, GoesOn
<1>3. CASE Net!EnableVPCPrivateDNS(c)
    <2>1. CASE Net!Return(c, "accepted")
        BY <1>0, <2>1, NetReturn, NetEnds DEF Net!Result, Net!Early
    <2>2. CASE Net!Goto(c, "settle")
        <3>1. Seen(c, "settle", {})
            BY DEF Seen
        <3> QED
            BY <1>0, <2>2, <3>1, GoesOn
    <2>3. Net!Asked(c) = "enableDns"
        BY <1>3 DEF Net!EnableVPCPrivateDNS, Net!Reading
    <2>4. Net!Fits(c)
        BY <1>0, <2>3, FitsCases
    <2> QED
        BY <1>1, <1>2, <1>3, <2>1, <2>2, <2>3, <2>4 DEF Net!EnableVPCPrivateDNS
<1>4. CASE Net!SetVPCDHCPOptions(c)
    <2>1. Net!Asked(c) \in Net!DhcpOps
        BY <1>4 DEF Net!SetVPCDHCPOptions, Net!Reading
    <2>2. ASSUME ~Net!PrivateDNS, Net!Goto(c, "target"), Net!Asked(c) = "setDhcp" PROVE NetCallOK' /\ NetGoes(c)
        <3>1. Place(c, "target") /\ Seen(c, "target", {})
            BY <2>2 DEF Place, Seen
        <3> QED
            BY <1>0, <2>2, <3>1, GoesOn
    <2>3. ASSUME ~Net!PrivateDNS, Net!Goto(c, "send"), Net!Asked(c) # "setDhcp" PROVE NetCallOK' /\ NetGoes(c)
        BY <1>0, <1>2, <2>1, <2>3, FitsCases
    <2> QED
        BY <1>1, <1>4, <2>2, <2>3 DEF Net!SetVPCDHCPOptions
<1>5. CASE Net!ReadTarget(c)
    <2>1. Net!Asked(c) = "setDhcp" /\ Net!Quiet /\ netCall[c].pc = "target" /\ Net!Asked(c) \in Net!DhcpOps
        BY <1>5 DEF Net!ReadTarget, Net!At, NetInv, PlacedInv, PlacedAt, Place, Net!DhcpOps
    <2>2. c \notin netRaced' => ~Net!PrivateDNS
        BY <1>0, <2>1 DEF Seen, Net!Quiet, Net!history
    <2>3. ASSUME Net!Goto(c, "send"), netPlan[c].dhcp # SystemSet PROVE NetCallOK' /\ NetGoes(c)
        BY <1>0, <1>2, <2>1, <2>2, <2>3, FitsCases
    <2> QED
        BY <1>1, <1>5, <2>3 DEF Net!ReadTarget
<1> QED
    BY <1>3, <1>4, <1>5

-----------------------------------------------------------------------------
(* The steps of a call after its request was sent. *)

LEMMA NetTries ==
    ASSUME NetCallOK, NEW c \in Call, netCall[c].tries + 1 < Attempts, netCall' = [netCall EXCEPT ![c].tries = @ + 1]
    PROVE  NetCallOK' /\ Moved(c, netCall[c].pc, netCall[c].todo)
<1>1. netCall[c] \in Net!Local /\ netCall[c].tries + 1 \in 0..(Attempts - 1)
    BY Bounds DEF NetCallOK, Net!Local
<1>2. [netCall[c] EXCEPT !.tries = @ + 1] \in Net!Local
    BY <1>1 DEF Net!Local
<1> QED
    BY <1>1, <1>2 DEF NetCallOK, Net!Local, Moved

\* A call whose request may have got through sends it again, or does not any more.
NetSends(c) ==
    \/ ~Net!Once(c) /\ Moved(c, "send", netCall[c].todo)
    \/ \E w \in {"settle", "confirm"} : Moved(c, w, netCall[c].todo)
    \/ \E r \in {"error", "ambiguous", "notSettled", "settled", "accepted"} : Ended(c, r)

LEMMA FailStep ==
    ASSUME NetCallOK, NEW c \in Call, Net!Fail(c), netCall[c].pc = "send"
    PROVE  NetCallOK' /\ NetSends(c)
<1>1. ASSUME NEW r \in {"error", "ambiguous", "notSettled"}, Net!Return(c, r) PROVE NetCallOK' /\ NetSends(c)
    BY <1>1, NetReturn DEF NetSends, Net!Result
<1>2. ASSUME Net!Goto(c, "confirm") PROVE NetCallOK' /\ NetSends(c)
    BY <1>2, NetGoto DEF NetSends, Net!PC
<1>3. CASE ~Net!Once(c) /\ netCall[c].tries + 1 < Attempts /\ netCall' = [netCall EXCEPT ![c].tries = @ + 1]
    BY <1>3, NetTries DEF NetSends
<1> QED
    BY <1>1, <1>2, <1>3 DEF Net!Fail

LEMMA SucceedStep ==
    ASSUME NetCallOK, NEW c \in Call, Net!Succeed(c)
    PROVE  NetCallOK' /\ NetSends(c)
<1>1. ASSUME NEW r \in {"settled", "ambiguous", "accepted"}, Net!Return(c, r) PROVE NetCallOK' /\ NetSends(c)
    BY <1>1, NetReturn DEF NetSends, Net!Result
<1>2. ASSUME Net!Goto(c, "settle") PROVE NetCallOK' /\ NetSends(c)
    BY <1>2, NetGoto DEF NetSends, Net!PC
<1> QED
    BY <1>1, <1>2 DEF Net!Succeed, Net!CreateNetworkACL

LEMMA AfterSend ==
    ASSUME NetInv, NEW c \in DOMAIN netPlan,
           Net!Refused(c) \/ Net!NotTaken(c) \/ Net!ConfirmSubnetDelete(c) \/ Net!WaitACLAbsentAfterDelete(c) \/ Net!Settle(c) \/ Net!Break(c)
    PROVE  NetCallOK' /\ NetGoes(c)
<1>0. c \in Call /\ NetCallOK /\ netCall[c].pc \in Net!PC /\ Net!Quiet /\ Calm(c)
    BY NetPlanType DEF Net!Refused, Net!NotTaken, Net!ConfirmSubnetDelete, Net!WaitACLAbsentAfterDelete,
                       Net!Settle, Net!Break,
                       NetInv, NetCallOK, Net!Local, Calm
<1>1. ASSUME NEW r \in {"error", "settled", "notSettled", "failed"}, Net!Return(c, r), netCall[c].pc # "done"
      PROVE  NetCallOK' /\ NetGoes(c)
    BY <1>0, <1>1, NetReturn, NetEnds DEF Net!Result, Net!Early
<1>2. ASSUME NEW r \in {"error", "notSettled"}, Net!Poll(c, r), netCall[c].pc \in {"confirm", "settle"}
      PROVE  NetCallOK' /\ NetGoes(c)
    BY <1>0, <1>2, NetPoll, NetStays, NetEnds DEF Net!Result, Net!Early
<1>3. CASE Net!Refused(c)
    <2>1. netCall[c].pc = "send" /\ \E r \in {"refused", "busy"} : Net!Return(c, r) /\ (r = "busy" => Net!Once(c))
        BY <1>3 DEF Net!Refused, Net!At, Net!Once
    <2> QED
        BY <1>0, <2>1, NetReturn, NetEnds DEF Net!Result, Net!Early
<1>4. CASE Net!NotTaken(c)
    <2>1. netCall[c].pc = "send" /\ NetCallOK' /\ NetSends(c)
        BY <1>0, <1>4, FailStep DEF Net!NotTaken, Net!At
    <2>2. ASSUME NEW r \in {"error", "ambiguous", "notSettled", "settled", "accepted"}, Ended(c, r)
          PROVE  NetCallOK' /\ NetGoes(c)
        BY <1>0, <2>1, <2>2, NetEnds DEF Net!Early
    <2>3. ASSUME ~Net!Once(c), Moved(c, "send", netCall[c].todo) PROVE NetCallOK' /\ NetGoes(c)
        BY <1>0, <2>1, <2>3, NetStays
    <2>4. ASSUME NEW w \in {"settle", "confirm"}, Moved(c, w, netCall[c].todo) PROVE NetCallOK' /\ NetGoes(c)
        <3>1. UNCHANGED <<netPlan, box, subnet, vpc, Occupied, late, foreign, acted, netMisfit>> /\ netRaced' = netRaced
            BY <1>0 DEF Net!Quiet, Net!service, Net!history
        <3>2. Net!Fits(c)' = Net!Fits(c) /\ Net!Asked(c)' = Net!Asked(c) /\ Net!On(c)' = Net!On(c)
            BY <2>4, <3>1, SameSeen DEF Moved
        <3>3. PlacedAt(c)'
            BY <2>1, <2>4, <3>2 DEF NetInv, PlacedInv, PlacedAt, Place, Moved
        <3>4. SeenAt(c)'
            BY <2>4, <3>1, <3>2 DEF NetInv, SeenInv, SeenAt, Seen, Moved
        <3> QED
            BY <2>1, <2>4, <3>1, <3>3, <3>4 DEF NetGoes, Moved, Net!service, Before, NetInv, PlacedInv,
                                                PlacedAt, Net!Early
    <2> QED
        BY <2>1, <2>2, <2>3, <2>4 DEF NetSends
<1>5. CASE Net!ConfirmSubnetDelete(c)
    BY <1>1, <1>5 DEF Net!ConfirmSubnetDelete, Net!At
<1>6. CASE Net!WaitACLAbsentAfterDelete(c)
    BY <1>1, <1>2, <1>6 DEF Net!WaitACLAbsentAfterDelete, Net!At
<1>7. CASE Net!Settle(c)
    <2>1. Net!Progress(c) \in {"none", "settled", "notSettled", "failed"}
        <3>1. Net!ListSettled(c) \in {"none", "settled", "notSettled", "failed"}
            BY DEF Net!ListSettled
        <3>2. \A b : Net!RouteTableActive(b) \in {"none", "settled", "failed"} /\ Net!RouteTableDeleted(b) \in {"none", "settled", "failed"}
            BY DEF Net!RouteTableActive, Net!RouteTableDeleted
        <3>3. \A s : Net!SubnetActive(s) \in {"none", "settled", "failed"} /\ Net!SubnetDeleted(s) \in {"none", "settled", "failed"}
            BY DEF Net!SubnetActive, Net!SubnetDeleted
        <3>4. Net!VPCDeleted \in {"none", "settled", "failed"} /\ Net!VPCPrivateDNSEnabled \in {"none", "settled", "notSettled", "failed"}
              /\ Net!VPCDHCPOptionsSet(c) \in {"none", "settled", "notSettled", "failed"}
            BY DEF Net!VPCDeleted, Net!VPCPrivateDNSEnabled, Net!VPCDHCPOptionsSet
        <3> QED
            BY <3>1, <3>2, <3>3, <3>4 DEF Net!Progress
    <2> QED
        BY <1>1, <1>2, <1>7, <2>1 DEF Net!Settle, Net!At
<1>8. CASE Net!Break(c)
    <2>1. CASE netCall[c].pc \in {"settle", "confirm"}
        BY <1>1, <1>8, <2>1 DEF Net!Break, Net!At
    <2>2. CASE netCall[c].pc \in Before
        <3>1. Net!Return(c, "failedRead")
            BY <1>8, <2>2 DEF Net!Break, Net!At, Before
        <3> QED
            BY <1>0, <2>2, <3>1, ReturnsEarly DEF Net!Early
    <2> QED
        BY <1>0, <1>8, <2>1, <2>2 DEF Net!Break, Net!PC, Before
<1> QED
    BY <1>3, <1>4, <1>5, <1>6, <1>7, <1>8

-----------------------------------------------------------------------------
(* What the steps of others leave of what a call has seen. *)

LEMMA ViewKept ==
    ASSUME NetStateOK, NEW d \in DOMAIN netPlan, netPlan' = netPlan, netCall'[d] = netCall[d], Net!View(d)' = Net!View(d)
    PROVE  /\ Net!Fits(d)' = Net!Fits(d)
           /\ Net!Deletes(d, Subnet) => /\ (Net!On(d) \in Occupied) = (Net!On(d) \in Occupied)'
                                    /\ \A a \in Acl : Net!Holds(a, Net!On(d))' = Net!Holds(a, Net!On(d))
           /\ Net!Asked(d) = "deleteVpc" => Net!InVPC' = Net!InVPC
           /\ Net!Asked(d) \in Net!DhcpOps => Net!PrivateDNS' = Net!PrivateDNS
<1>0. /\ Net!Asked(d)' = Net!Asked(d) /\ Net!On(d)' = Net!On(d) /\ NetKind(d)
      /\ \A kind : Net!Deletes(d, kind)' = Net!Deletes(d, kind) /\ Net!Creates(d, kind)' = Net!Creates(d, kind)
    BY NetKinds DEF Net!Asked, Net!On, Net!Deletes, Net!Creates
<1>1. CASE Net!Asked(d) \in Net!ListOps
    <2>1. Net!Asked(d) \notin Net!DhcpOps /\ ~Net!Deletes(d, Subnet) /\ Net!Asked(d) # "deleteVpc"
        BY <1>1 DEF Net!ListOps, Net!EntryOps, Net!SubnetOps, Net!DhcpOps, Net!Deletes
    <2>2. Net!ListOf(d)' = Net!ListOf(d)
        BY <1>0, <1>1 DEF Net!View, Net!Deletes, Net!ListOps, Net!EntryOps, Net!SubnetOps
    <2>3. Net!Fits(d)' = Net!Fits(d)
        BY <1>0, <1>1, <2>2 DEF Net!Fits, Net!Deletes, Net!ListOps, Net!EntryOps, Net!SubnetOps
    <2> QED
        BY <2>1, <2>3
<1>2. CASE Net!Deletes(d, Acl)
    <2>1. Net!Here(d).held' = Net!Here(d).held
        BY <1>0, <1>2, NetConstants DEF Net!View, Net!Deletes, Net!ListOps, Net!EntryOps, Net!SubnetOps
    <2>2. Net!Fits(d)' = Net!Fits(d)
        BY <1>0, <1>2, <2>1, NetConstants
           DEF Net!Fits, Net!Deletes, Net!ListOps, Net!EntryOps, Net!SubnetOps
    <2> QED
        BY <1>2, <2>2, NetConstants DEF Net!Deletes, Net!DhcpOps
<1>3. CASE Net!Deletes(d, Table)
    <2>1. <<Net!Named(Net!On(d)), Net!ReliesOnMain(Net!On(d))>>' = <<Net!Named(Net!On(d)), Net!ReliesOnMain(Net!On(d))>>
        BY <1>0, <1>3, NetConstants DEF Net!View, Net!Deletes, Net!ListOps, Net!EntryOps, Net!SubnetOps
    <2>2. Net!Fits(d)' = Net!Fits(d)
        BY <1>0, <1>3, <2>1, NetConstants
           DEF Net!Fits, Net!Deletes, Net!ListOps, Net!EntryOps, Net!SubnetOps
    <2> QED
        BY <1>3, <2>2, NetConstants DEF Net!Deletes, Net!DhcpOps
<1>4. CASE Net!Deletes(d, Subnet)
    <2>1. <<Net!On(d) \in Occupied, {a \in Acl : Net!Holds(a, Net!On(d))}>>' = <<Net!On(d) \in Occupied, {a \in Acl : Net!Holds(a, Net!On(d))}>>
        BY <1>0, <1>4, NetConstants DEF Net!View, Net!Deletes, Net!ListOps, Net!EntryOps, Net!SubnetOps
    <2>2. (Net!On(d) \in Occupied)' = (Net!On(d) \in Occupied) /\ {a \in Acl : Net!Holds(a, Net!On(d))}' = {a \in Acl : Net!Holds(a, Net!On(d))}
        BY <2>1
    <2>3. \A a \in Acl : Net!Holds(a, Net!On(d))' = Net!Holds(a, Net!On(d))
        <3>1. \A a \in Acl : Net!Holds(a, Net!On(d))' <=> a \in {b \in Acl : Net!Holds(b, Net!On(d))}'
            OBVIOUS
        <3>2. \A a \in Acl : Net!Holds(a, Net!On(d)) <=> a \in {b \in Acl : Net!Holds(b, Net!On(d))}
            OBVIOUS
        <3>3. \A a \in Acl : Net!Holds(a, Net!On(d))' \in BOOLEAN /\ Net!Holds(a, Net!On(d)) \in BOOLEAN
            BY DEF Net!Holds
        <3> QED
            BY <2>2, <3>1, <3>2, <3>3
    <2>4. Net!Fits(d)' = Net!Fits(d)
        BY <1>0, <1>4, <2>2, <2>3, NetConstants DEF Net!Fits, Net!Deletes, Net!ListOps, Net!EntryOps,
                                                    Net!SubnetOps
    <2> QED
        BY <1>4, <2>2, <2>3, <2>4 DEF Net!Deletes, Net!DhcpOps
<1>5. CASE Net!Asked(d) \in {"create", "enableDns"}
    <2>1. Net!Fits(d)' = Net!Fits(d)
        BY <1>0, <1>5 DEF Net!Fits, Net!Deletes, Net!ListOps, Net!EntryOps, Net!SubnetOps
    <2> QED
        BY <1>5, <2>1 DEF Net!Deletes, Net!DhcpOps
<1>6. CASE Net!Asked(d) = "deleteVpc"
    <2>1. <<Net!InVPC, Net!Listed>>' = <<Net!InVPC, Net!Listed>>
        BY <1>0, <1>6 DEF Net!View, Net!Deletes, Net!ListOps, Net!EntryOps, Net!SubnetOps
    <2>2. Net!Fits(d)' = Net!Fits(d)
        BY <1>0, <1>6, <2>1 DEF Net!Fits, Net!Deletes, Net!ListOps, Net!EntryOps, Net!SubnetOps
    <2> QED
        BY <1>6, <2>1, <2>2 DEF Net!Deletes, Net!DhcpOps
<1>7. CASE Net!Asked(d) = "deleteDhcp"
    <2>1. vpc.dhcp' = vpc.dhcp
        BY <1>0, <1>7 DEF Net!View, Net!Deletes, Net!ListOps, Net!EntryOps, Net!SubnetOps
    <2>2. Net!Fits(d)' = Net!Fits(d)
        BY <1>0, <1>7, <2>1 DEF Net!Fits, Net!Deletes, Net!ListOps, Net!EntryOps, Net!SubnetOps
    <2> QED
        BY <1>7, <2>2 DEF Net!Deletes, Net!DhcpOps
<1>8. CASE Net!Asked(d) \in Net!DhcpOps
    <2>1. Net!PrivateDNS' = Net!PrivateDNS
        BY <1>0, <1>8 DEF Net!View, Net!Deletes, Net!ListOps, Net!EntryOps, Net!SubnetOps, Net!DhcpOps
    <2>2. Net!Fits(d)' = Net!Fits(d)
        BY <1>0, <1>8, <2>1
           DEF Net!Fits, Net!Deletes, Net!ListOps, Net!EntryOps, Net!SubnetOps, Net!DhcpOps
    <2> QED
        BY <1>8, <2>1, <2>2 DEF Net!Deletes, Net!DhcpOps
<1> QED
    BY <1>0, <1>1, <1>2, <1>3, <1>4, <1>5, <1>6, <1>7, <1>8
       DEF NetKind, Net!ListOps, Net!Creates, Net!DhcpOps

\* A call that does not step itself keeps what it has seen, or is raced.
LEMMA OtherKept ==
    ASSUME NetInv, NEW d \in DOMAIN netPlan, netPlan' = netPlan, netCall'[d] = netCall[d], d \in late' => d \in late,
           d \notin netRaced' => d \notin netRaced /\ Net!View(d)' = Net!View(d)
    PROVE  PlacedAt(d)' /\ SeenAt(d)'
<1>1. /\ Net!Asked(d)' = Net!Asked(d) /\ Net!On(d)' = Net!On(d) /\ \A kind : Net!Deletes(d, kind)' = Net!Deletes(d, kind)
    BY DEF Net!Asked, Net!On, Net!Deletes
<1>2. PlacedAt(d)'
    BY <1>1 DEF NetInv, PlacedInv, PlacedAt, Place
<1>3. SeenAt(d) /\ Place(d, netCall[d].pc)
    BY DEF NetInv, SeenInv, PlacedInv, PlacedAt
<1>4. ASSUME d \notin netRaced'
      PROVE  Seen(d, netCall[d].pc, netCall[d].todo)' /\ (d \in late => Net!Fits(d)')
    <2>1. Net!View(d)' = Net!View(d) /\ d \notin netRaced
        BY <1>4
    <2> QED
        BY <1>1, <1>3, <2>1, ViewKept DEF NetInv, SeenAt, Seen, Place, Net!DhcpOps
<1>5. SeenAt(d)'
    BY <1>1, <1>3, <1>4 DEF SeenAt
<1> QED
    BY <1>2, <1>5

-----------------------------------------------------------------------------
(* What the service does of a call. *)

LEMMA ApplyCases ==
    ASSUME NetStateOK, NEW c \in DOMAIN netPlan, Net!Apply(c)
    PROVE  /\ Net!Asked(c) \in Net!EntryOps =>
                /\ box' = [box EXCEPT ![Net!On(c)] = [box[Net!On(c)] EXCEPT !.entries = netCall[c].body, !.status = "BUSY"]]
                /\ UNCHANGED <<subnet, vpc>>
           /\ Net!Asked(c) \in Net!SubnetOps =>
                /\ box' = [b \in Net!Box |-> IF b = Net!On(c) THEN [box[b] EXCEPT !.held = netCall[c].body, !.hidden = TRUE]
                                         ELSE [box[b] EXCEPT !.held = box[b].held \ netCall[c].body]]
                /\ UNCHANGED <<subnet, vpc>>
           /\ Net!Deletes(c, Net!Box) =>
                /\ box' = [box EXCEPT ![Net!On(c)].status = IF Net!OnAcl(c) THEN "GONE" ELSE "DELETING"]
                /\ UNCHANGED <<subnet, vpc>>
           /\ Net!Creates(c, Net!Box) =>
                /\ box' = [box EXCEPT ![Net!On(c)] = [box[Net!On(c)] EXCEPT !.status = IF Net!OnAcl(c) THEN "ACTIVE" ELSE "BUSY",
                                                                    !.held = {}]]
                /\ UNCHANGED <<subnet, vpc>>
           /\ Net!Creates(c, Subnet) =>
                subnet' = [subnet EXCEPT ![Net!On(c)].status = "CREATING"] /\ UNCHANGED <<box, vpc>>
           /\ Net!Deletes(c, Subnet) =>
                subnet' = [subnet EXCEPT ![Net!On(c)].status = "DELETING"] /\ UNCHANGED <<box, vpc>>
           /\ Net!Asked(c) = "enableDns" =>
                vpc' = [vpc EXCEPT !.dns = "ENABLING", !.dhcp = SystemSet] /\ UNCHANGED <<box, subnet>>
           /\ Net!Asked(c) = "deleteVpc" => vpc' = [vpc EXCEPT !.status = "DELETING"] /\ UNCHANGED <<box, subnet>>
           /\ Net!Asked(c) = "deleteDhcp" =>
                vpc' = [vpc EXCEPT !.sets = vpc.sets \ {netPlan[c].dhcp}] /\ UNCHANGED <<box, subnet>>
           /\ Net!Asked(c) \in Net!DhcpOps => vpc' = [vpc EXCEPT !.dhcp = Net!DhcpAsked(c)] /\ UNCHANGED <<box, subnet>>
<1>1. CASE Net!Asked(c) \in Net!EntryOps
    BY <1>1 DEF Net!Apply, Net!Deletes, Net!Creates, Net!EntryOps, Net!SubnetOps, Net!DhcpOps
<1>2. CASE Net!Asked(c) \in Net!SubnetOps
    BY <1>2 DEF Net!Apply, Net!Deletes, Net!Creates, Net!EntryOps, Net!SubnetOps, Net!DhcpOps
<1>3. CASE Net!Asked(c) \in {"create", "delete"}
    BY <1>3, NetConstants
       DEF Net!Apply, Net!Deletes, Net!Creates, Net!EntryOps, Net!SubnetOps, Net!DhcpOps,
                              Net!Box
<1>4. CASE Net!Asked(c) \in {"enableDns", "deleteVpc", "deleteDhcp"} \cup Net!DhcpOps
    BY <1>4 DEF Net!Apply, Net!Deletes, Net!Creates, Net!EntryOps, Net!SubnetOps, Net!DhcpOps
<1>5. Net!Asked(c) \notin Net!EntryOps \cup Net!SubnetOps \cup {"create", "delete"} \cup {"enableDns", "deleteVpc", "deleteDhcp"} \cup Net!DhcpOps
      => ~Net!Deletes(c, Net!Box) /\ ~Net!Deletes(c, Subnet) /\ ~Net!Creates(c, Net!Box) /\ ~Net!Creates(c, Subnet)
    BY DEF Net!Deletes, Net!Creates
<1> QED
    BY <1>1, <1>2, <1>3, <1>4, <1>5

LEMMA NetActType ==
    ASSUME NetInv, NEW c \in DOMAIN netPlan, Net!Act(c)
    PROVE  box' \in [Net!Box -> BoxState] /\ subnet' \in [Subnet -> SubnetState] /\ vpc' \in VpcState
<1>0. /\ NetStateOK /\ Net!Apply(c) /\ NetKind(c) /\ netPlan[c].dhcp \in Dhcp /\ SystemSet \in Dhcp
      /\ Net!Asked(c) \in Net!EntryOps => netCall[c].body \subseteq Net!Entry /\ Net!On(c) \in Net!Box
      /\ Net!Asked(c) \in Net!SubnetOps => Net!On(c) \in Net!Box
      /\ box \in [Net!Box -> BoxState] /\ subnet \in [Subnet -> SubnetState] /\ vpc \in VpcState
    BY NetPlanType, NetKinds, NetConstants DEF NetInv, NetStateOK, Net!Act, PlacedInv, PlacedAt, Net!Box
<1>1. CASE Net!Asked(c) \in Net!EntryOps
    <2>1. [box[Net!On(c)] EXCEPT !.entries = netCall[c].body, !.status = "BUSY"] \in BoxState
        BY <1>0, <1>1 DEF BoxState
    <2> QED
        BY <1>0, <1>1, <2>1, ApplyCases
<1>2. CASE Net!Asked(c) \in Net!SubnetOps
    <2>1. netCall[c].body \subseteq Subnet
        BY <1>2
           DEF Net!Act, Net!Acceptable, Net!ListOps, Net!Listed, Net!Deletes, Net!Creates, Net!EntryOps,
                    Net!SubnetOps
    <2>2. \A b \in Net!Box : /\ [box[b] EXCEPT !.held = netCall[c].body, !.hidden = TRUE] \in BoxState
                         /\ [box[b] EXCEPT !.held = box[b].held \ netCall[c].body] \in BoxState
        BY <1>0, <2>1 DEF BoxState
    <2>3. box' = [b \in Net!Box |-> IF b = Net!On(c) THEN [box[b] EXCEPT !.held = netCall[c].body, !.hidden = TRUE]
                                ELSE [box[b] EXCEPT !.held = box[b].held \ netCall[c].body]]
          /\ UNCHANGED <<subnet, vpc>>
        BY <1>0, <1>2, ApplyCases
    <2> QED
        BY <1>0, <2>2, <2>3
<1>3. CASE Net!Deletes(c, Net!Box)
    <2>1. Net!On(c) \in Net!Box /\ [box[Net!On(c)] EXCEPT !.status = IF Net!OnAcl(c) THEN "GONE" ELSE "DELETING"] \in BoxState
        BY <1>0, <1>3 DEF BoxState, Net!Deletes
    <2> QED
        BY <1>0, <1>3, <2>1, ApplyCases
<1>4. CASE Net!Creates(c, Net!Box)
    <2>1. Net!On(c) \in Net!Box
          /\ [box[Net!On(c)] EXCEPT !.status = IF Net!OnAcl(c) THEN "ACTIVE" ELSE "BUSY", !.held = {}] \in BoxState
        BY <1>0, <1>4 DEF BoxState, Net!Creates
    <2> QED
        BY <1>0, <1>4, <2>1, ApplyCases
<1>5. CASE Net!Deletes(c, Subnet) \/ Net!Creates(c, Subnet)
    <2>1. Net!On(c) \in Subnet /\ \A st \in {"CREATING", "DELETING"} : [subnet[Net!On(c)] EXCEPT !.status = st] \in SubnetState
        BY <1>0, <1>5 DEF SubnetState, Net!Deletes, Net!Creates, Net!Shown
    <2>2. \/ subnet' = [subnet EXCEPT ![Net!On(c)].status = "CREATING"] /\ UNCHANGED <<box, vpc>>
          \/ subnet' = [subnet EXCEPT ![Net!On(c)].status = "DELETING"] /\ UNCHANGED <<box, vpc>>
        BY <1>0, <1>5, ApplyCases
    <2> QED
        BY <1>0, <2>1, <2>2
<1>6. CASE Net!Asked(c) \in {"deleteVpc", "deleteDhcp", "enableDns"} \cup Net!DhcpOps
    <2>1. Net!DhcpAsked(c) \in Dhcp \cup {None}
        BY <1>0 DEF Net!DhcpAsked
    <2>2. /\ UNCHANGED <<box, subnet>>
          /\ \/ vpc' = [vpc EXCEPT !.dns = "ENABLING", !.dhcp = SystemSet]
             \/ vpc' = [vpc EXCEPT !.status = "DELETING"]
             \/ vpc' = [vpc EXCEPT !.sets = vpc.sets \ {netPlan[c].dhcp}]
             \/ vpc' = [vpc EXCEPT !.dhcp = Net!DhcpAsked(c)]
        BY <1>0, <1>6, ApplyCases
    <2> QED
        BY <1>0, <2>1, <2>2 DEF VpcState
<1> QED
    BY <1>0, <1>1, <1>2, <1>3, <1>4, <1>5, <1>6 DEF NetKind, Net!Deletes, Net!Box, Net!DhcpOps

\* The call's own write leaves what it has checked: it may be sent once more.
LEMMA NetOwnFits ==
    ASSUME NetInv, NEW c \in DOMAIN netPlan, Net!Act(c), Net!Fits(c), Net!Asked(c) = "setDhcp" => netPlan[c].dhcp # SystemSet,
           netCall'[c].base = netCall[c].base, netCall'[c].body = netCall[c].body
    PROVE  Net!Fits(c)'
<1>0. /\ NetStateOK /\ Net!Apply(c) /\ NetKind(c) /\ Occupied' = Occupied
      /\ Net!Asked(c)' = Net!Asked(c) /\ Net!On(c)' = Net!On(c) /\ \A kind : Net!Deletes(c, kind)' = Net!Deletes(c, kind)
      /\ Net!Asked(c) \in Net!EntryOps => Net!On(c) \in Net!Box
      /\ Net!Asked(c) \in Net!SubnetOps => Net!On(c) \in Net!Box
    BY NetPlanType, NetKinds DEF NetInv, Net!Act, Net!Asked, Net!On, Net!Deletes, Net!Box
<1>1. CASE Net!Asked(c) \in Net!EntryOps
    <2>1. box'[Net!On(c)].entries = netCall[c].body
        <3>1. box' = [box EXCEPT ![Net!On(c)] = [box[Net!On(c)] EXCEPT !.entries = netCall[c].body, !.status = "BUSY"]]
            BY <1>0, <1>1, ApplyCases
        <3> QED
            BY <1>0, <1>1, <3>1 DEF NetStateOK, BoxState
    <2> QED
        BY <1>0, <1>1, <2>1
           DEF Net!Fits, Net!ListOps, Net!ListOf, Net!Here, Net!EntryOps, Net!SubnetOps,
                                Net!Deletes
<1>2. CASE Net!Asked(c) \in Net!SubnetOps
    <2>1. box'[Net!On(c)].held = netCall[c].body
        <3>1. box' = [b \in Net!Box |-> IF b = Net!On(c) THEN [box[b] EXCEPT !.held = netCall[c].body, !.hidden = TRUE]
                                    ELSE [box[b] EXCEPT !.held = box[b].held \ netCall[c].body]]
            BY <1>0, <1>2, ApplyCases
        <3> QED
            BY <1>0, <1>2, <3>1 DEF NetStateOK, BoxState
    <2> QED
        BY <1>0, <1>2, <2>1
           DEF Net!Fits, Net!ListOps, Net!ListOf, Net!Here, Net!EntryOps, Net!SubnetOps,
                                Net!Deletes
<1>3. CASE Net!Deletes(c, Acl)
    <2>1. box'[Net!On(c)].held = box[Net!On(c)].held
        <3>1. Net!Deletes(c, Net!Box) /\ Net!On(c) \in Net!Box
            BY <1>3 DEF Net!Deletes, Net!Box
        <3>2. box' = [box EXCEPT ![Net!On(c)].status = IF Net!OnAcl(c) THEN "GONE" ELSE "DELETING"]
            BY <1>0, <3>1, ApplyCases
        <3> QED
            BY <1>0, <3>1, <3>2 DEF NetStateOK, BoxState
    <2> QED
        BY <1>0, <1>3, <2>1, NetConstants
           DEF Net!Fits, Net!Here, Net!ListOps, Net!EntryOps, Net!SubnetOps,
                                              Net!Deletes
<1>4. CASE Net!Deletes(c, Table)
    <2>1. subnet' = subnet /\ vpc' = vpc
        BY <1>0, <1>4, ApplyCases DEF Net!Deletes, Net!Box
    <2>2. Net!Named(Net!On(c))' = Net!Named(Net!On(c)) /\ Net!ReliesOnMain(Net!On(c))' = Net!ReliesOnMain(Net!On(c))
        BY <1>0, <2>1 DEF Net!Named, Net!ReliesOnMain, Net!Listed
    <2> QED
        BY <1>0, <1>4, <2>2, NetConstants
           DEF Net!Fits, Net!ListOps, Net!EntryOps, Net!SubnetOps, Net!Deletes
<1>5. CASE Net!Deletes(c, Subnet)
    <2>1. box' = box
        BY <1>0, <1>5, ApplyCases
    <2>2. \A a : Net!Holds(a, Net!On(c))' = Net!Holds(a, Net!On(c))
        BY <1>0, <2>1 DEF Net!Holds
    <2> QED
        BY <1>0, <1>5, <2>2, NetConstants
           DEF Net!Fits, Net!ListOps, Net!EntryOps, Net!SubnetOps, Net!Deletes
<1>6. CASE Net!Asked(c) \in {"create", "enableDns"}
    BY <1>0, <1>6 DEF Net!Fits, Net!ListOps, Net!EntryOps, Net!SubnetOps, Net!Deletes
<1>7. CASE Net!Asked(c) = "deleteVpc"
    <2>1. subnet' = subnet
        BY <1>0, <1>7, ApplyCases
    <2>2. Net!InVPC' = Net!InVPC /\ Net!Listed' = Net!Listed
        BY <1>0, <2>1 DEF Net!InVPC, Net!Listed
    <2> QED
        BY <1>0, <1>7, <2>2 DEF Net!Fits, Net!ListOps, Net!EntryOps, Net!SubnetOps, Net!Deletes
<1>8. CASE Net!Asked(c) = "deleteDhcp"
    <2>1. vpc'.dhcp = vpc.dhcp
        BY <1>0, <1>8, ApplyCases DEF NetStateOK, VpcState
    <2>2. netPlan' = netPlan
        BY DEF Net!Act
    <2> QED
        BY <1>0, <1>8, <2>1, <2>2 DEF Net!Fits, Net!ListOps, Net!EntryOps, Net!SubnetOps, Net!Deletes
<1>9. CASE Net!Asked(c) \in Net!DhcpOps
    <2>1. vpc'.dhcp = Net!DhcpAsked(c) /\ vpc'.dns = vpc.dns
        BY <1>0, <1>9, ApplyCases DEF NetStateOK, VpcState
    <2>2. Net!DhcpAsked(c) # SystemSet
        BY NetConstants DEF Net!DhcpAsked
    <2>3. ~Net!PrivateDNS
        BY <1>0, <1>9, FitsCases
    <2>4. ~Net!PrivateDNS'
        BY <2>1, <2>2, <2>3 DEF Net!PrivateDNS
    <2> QED
        BY <1>0, <1>9, <2>4
           DEF Net!Fits, Net!ListOps, Net!EntryOps, Net!SubnetOps, Net!DhcpOps, Net!Deletes
<1> QED
    BY <1>0, <1>1, <1>2, <1>3, <1>4, <1>5, <1>6, <1>7, <1>8, <1>9 DEF NetKind, Net!Creates, Net!DhcpOps

\* Only a delete begins to delete a subnet.
LEMMA ActDeletes ==
    ASSUME NetInv, NEW c \in DOMAIN netPlan, Net!Act(c), NEW s \in Subnet
    PROVE  \/ subnet'[s].status \in {subnet[s].status, "CREATING"}
           \/ Net!Deletes(c, {s}) /\ subnet'[s].status = "DELETING"
<1>0. NetStateOK /\ Net!Apply(c) /\ NetKind(c) /\ subnet \in [Subnet -> SubnetState]
    BY NetKinds DEF NetInv, NetStateOK, Net!Act
<1>1. CASE Net!Creates(c, Subnet)
    <2>1. subnet' = [subnet EXCEPT ![Net!On(c)].status = "CREATING"]
        BY <1>0, <1>1, ApplyCases
    <2> QED
        BY <1>0, <2>1 DEF SubnetState
<1>2. CASE Net!Deletes(c, Subnet)
    <2>1. subnet' = [subnet EXCEPT ![Net!On(c)].status = "DELETING"]
        BY <1>0, <1>2, ApplyCases
    <2> QED
        BY <1>0, <1>2, <2>1 DEF SubnetState, Net!Deletes
<1>3. CASE ~Net!Creates(c, Subnet) /\ ~Net!Deletes(c, Subnet)
    <2>1. Net!Deletes(c, Acl) \/ Net!Deletes(c, Table) => Net!Deletes(c, Net!Box)
        BY DEF Net!Deletes, Net!Box
    <2>2. subnet' = subnet
        BY <1>0, <1>3, <2>1, ApplyCases DEF NetKind, Net!DhcpOps
    <2> QED
        BY <2>2
<1> QED
    BY <1>1, <1>2, <1>3

\* Only a write of an ACL's subnets gives it one, a subnet that is listed.
LEMMA ActHolds ==
    ASSUME NetInv, NEW c \in DOMAIN netPlan, Net!Act(c), NEW a \in Acl, NEW s \in Subnet
    PROVE  Net!Holds(a, s)' => Net!Holds(a, s) \/ (Net!Asked(c) \in Net!SubnetOps /\ s \in Net!Listed)
<1>0. /\ NetStateOK /\ Net!Apply(c) /\ NetKind(c) /\ a \in Net!Box
      /\ Net!Asked(c) \in Net!EntryOps => Net!On(c) \in Net!Box
      /\ box \in [Net!Box -> BoxState] /\ subnet \in [Subnet -> SubnetState]
    BY NetPlanType, NetKinds DEF NetInv, NetStateOK, Net!Act, Net!Box
<1>1. CASE Net!Asked(c) \in Net!EntryOps
    <2>1. /\ box' = [box EXCEPT ![Net!On(c)] = [box[Net!On(c)] EXCEPT !.entries = netCall[c].body, !.status = "BUSY"]]
          /\ subnet' = subnet
        BY <1>0, <1>1, ApplyCases
    <2>2. box[Net!On(c)].status = "ACTIVE"
        BY <1>1
           DEF Net!Act, Net!Acceptable, Net!ListOps, Net!Here, Net!Deletes, Net!Creates, Net!EntryOps,
                    Net!SubnetOps
    <2> QED
        BY <1>0, <1>1, <2>1, <2>2 DEF Net!Holds, BoxState
<1>2. CASE Net!Asked(c) \in Net!SubnetOps
    <2>1. /\ box' = [b \in Net!Box |-> IF b = Net!On(c) THEN [box[b] EXCEPT !.held = netCall[c].body, !.hidden = TRUE]
                                   ELSE [box[b] EXCEPT !.held = box[b].held \ netCall[c].body]]
          /\ subnet' = subnet
        BY <1>0, <1>2, ApplyCases
    <2>2. netCall[c].body \subseteq Net!Listed
        BY <1>2 DEF Net!Act, Net!Acceptable, Net!ListOps, Net!Deletes, Net!Creates, Net!EntryOps,
           Net!SubnetOps
    <2> QED
        BY <1>0, <1>2, <2>1, <2>2 DEF Net!Holds, BoxState
<1>3. CASE Net!Deletes(c, Net!Box)
    <2>1. /\ box' = [box EXCEPT ![Net!On(c)].status = IF Net!OnAcl(c) THEN "GONE" ELSE "DELETING"] /\ subnet' = subnet
          /\ Net!On(c) \in Net!Box
        BY <1>0, <1>3, ApplyCases DEF Net!Deletes
    <2>2. Net!On(c) \in Acl => Net!OnAcl(c)
        BY DEF Net!OnAcl
    <2>3. Net!On(c) \in Table => Net!On(c) # a
        BY NetConstants
    <2> QED
        BY <1>0, <2>1, <2>2, <2>3 DEF Net!Holds, BoxState, Net!Box
<1>4. CASE Net!Creates(c, Net!Box)
    <2>1. /\ box' = [box EXCEPT ![Net!On(c)] = [box[Net!On(c)] EXCEPT !.status = IF Net!OnAcl(c) THEN "ACTIVE" ELSE "BUSY",
                                                             !.held = {}]]
          /\ subnet' = subnet /\ Net!On(c) \in Net!Box
        BY <1>0, <1>4, ApplyCases DEF Net!Creates
    <2> QED
        BY <1>0, <2>1 DEF Net!Holds, BoxState
<1>5. CASE \/ Net!Creates(c, Subnet) \/ Net!Deletes(c, Subnet)
            \/ Net!Asked(c) \in {"deleteVpc", "deleteDhcp", "enableDns"} \cup Net!DhcpOps
    <2>1. box' = box
        BY <1>0, <1>5, ApplyCases
    <2> QED
        BY <2>1 DEF Net!Holds
<1> QED
    BY <1>0, <1>1, <1>2, <1>3, <1>4, <1>5 DEF NetKind, Net!Deletes, Net!Box, Net!DhcpOps

LEMMA ActStuck ==
    ASSUME NetInv, NEW c \in DOMAIN netPlan, netCall[c].pc = "send" \/ c \in late, Net!Act(c),
           \A d \in DOMAIN netPlan : netCall'[d].pc = "read" => netCall[d].pc = "read",
           \A d \in DOMAIN netPlan \ {c} : netCall'[d] = netCall[d]
    PROVE  DeleterInv' /\ StuckInv'
<1>0. /\ netPlan' = netPlan /\ acted' = acted \cup {c} /\ netRaced \subseteq netRaced' /\ NetStateOK /\ subnet \in [Subnet -> SubnetState]
      /\ \A d \in DOMAIN netPlan \ {c} : Net!View(d)' # Net!View(d) => d \in netRaced'
      /\ \A d, kind : Net!Deletes(d, kind)' = Net!Deletes(d, kind)
    BY DEF Net!Act, Net!Races, NetInv, NetStateOK, Net!Deletes, Net!Asked, Net!On
<1>1. DeleterInv'
    <2>1. ASSUME NEW s \in Subnet, subnet'[s].status = "DELETING"
          PROVE  \E d \in acted' \cap DOMAIN netPlan' : Net!Deletes(d, {s})'
        <3>1. subnet[s].status = "DELETING" \/ Net!Deletes(c, {s})
            BY <2>1, ActDeletes
        <3> QED
            BY <1>0, <3>1 DEF NetInv, DeleterInv
    <2> QED
        BY <2>1 DEF DeleterInv
<1>2. ASSUME NEW a \in Acl, NEW s \in Subnet, Net!Holds(a, s)', subnet'[s].status \in {"DELETING", "DELETED", "GONE"}
      PROVE  \E d \in netRaced' \cap DOMAIN netPlan' : Net!Deletes(d, {s})' /\ netCall'[d].pc # "read"
    <2>1. CASE Net!Deletes(c, {s}) /\ Net!Holds(a, s)
        <3>1. ~Net!Fits(c)
            BY <1>0, <2>1, FitsCases DEF Net!Deletes
        <3>2. c \in netRaced /\ netCall[c].pc # "read"
            BY <3>1
               DEF NetInv, SeenInv, SeenAt, Seen, NetUntouchedInv, NetUntouchedAt, NetUntouched, Before
        <3> QED
            BY <1>0, <2>1, <3>2
    <2>2. CASE ~Net!Deletes(c, {s}) /\ Net!Holds(a, s)
        <3>1. subnet[s].status \in {"DELETING", "DELETED", "GONE"}
            BY <1>2, <2>2, ActDeletes
        <3> QED
            BY <1>0, <2>2, <3>1 DEF NetInv, StuckInv
    <2>3. CASE ~Net!Holds(a, s)
        <3>1. Net!Asked(c) \in Net!SubnetOps /\ s \in Net!Listed
            BY <1>2, <2>3, ActHolds
        <3>2. ~Net!Deletes(c, {s})
            BY <3>1 DEF Net!Deletes, Net!SubnetOps
        <3>3. subnet[s].status = "DELETING"
            <4>1. subnet[s].status \in {"DELETING", "DELETED", "GONE"}
                BY <1>2, <3>2, ActDeletes
            <4>2. subnet[s].status \in Net!Shown
                BY <3>1 DEF Net!Listed
            <4> QED
                BY <4>1, <4>2 DEF Net!Shown
        <3>4. PICK d \in acted \cap DOMAIN netPlan : Net!Deletes(d, {s})
            BY <3>3 DEF NetInv, DeleterInv
        <3>5. d # c /\ netCall'[d] = netCall[d] /\ netCall[d].pc # "read"
            BY <3>2, <3>4 DEF NetInv, NetUntouchedInv, NetUntouchedAt, NetUntouched, Before
        <3>6. Net!Deletes(d, Subnet) /\ Net!On(d) = s
            BY <3>4 DEF Net!Deletes
        <3>7. Net!View(d)' # Net!View(d)
            <4>1. Net!On(d)' = Net!On(d)
                BY <1>0 DEF Net!On
            <4>2. Net!Holds(a, Net!On(d))' # Net!Holds(a, Net!On(d))
                <5>1. Net!Holds(a, s)' = Net!Holds(a, Net!On(d))'
                    BY <3>6, <4>1 DEF Net!Holds
                <5> QED
                    BY <1>2, <2>3, <3>6, <5>1 
            <4> QED
                BY <1>0, <3>4, <3>5, <3>6, <4>2, ViewKept
        <3> QED
            BY <1>0, <3>4, <3>5, <3>7
    <2> QED
        BY <2>1, <2>2, <2>3
<1> QED
    BY <1>1, <1>2 DEF StuckInv

-----------------------------------------------------------------------------
(* Every step keeps the invariant. *)

LEMMA NetGoesKept ==
    ASSUME NetInv, NEW c \in DOMAIN netPlan, NetGoes(c), NetCallOK'
    PROVE  NetInv'
<1>0. c \in Call /\ DOMAIN netPlan \subseteq Call
    BY NetPlanType DEF NetInv
<1>1. /\ UNCHANGED <<netPlan, box, subnet, vpc, Occupied, late, foreign, acted, netMisfit>>
      /\ netRaced' \subseteq netRaced /\ \A d \in DOMAIN netPlan \ {c} : netCall'[d] = netCall[d] /\ (d \in netRaced <=> d \in netRaced')
    BY <1>0 DEF NetGoes, Net!service
<1>2. NetStateOK'
    BY <1>1 DEF NetInv, NetStateOK
<1>3. /\ Net!Asked(c)' = Net!Asked(c) /\ Net!On(c)' = Net!On(c) /\ Net!Once(c)' = Net!Once(c)
      /\ \A d, kind : Net!Deletes(d, kind)' = Net!Deletes(d, kind) /\ \A a, s : Net!Holds(a, s)' = Net!Holds(a, s)
    BY <1>1 DEF Net!Asked, Net!On, Net!Once, Net!OnAcl, Net!Deletes, Net!Holds
<1>4. NetAskedInv'
    BY <1>0, <1>1 DEF NetInv, NetAskedInv, NetGoes, NetUntouchedInv, NetUntouchedAt
<1>5. ASSUME NEW d \in DOMAIN netPlan, d # c
      PROVE  PlacedAt(d)' /\ SeenAt(d)' /\ NetUntouchedAt(d)'
    <2>1. Net!View(d)' = Net!View(d)
        BY <1>1, <1>5 DEF Net!View, Net!ListOf, Net!Here, Net!Asked, Net!On, Net!Deletes, Net!Named,
                          Net!ReliesOnMain, Net!Listed, Net!Holds, Net!InVPC, Net!PrivateDNS
    <2>2. PlacedAt(d)' /\ SeenAt(d)'
        BY <1>1, <1>5, <2>1, OtherKept
    <2>3. NetUntouchedAt(d)'
        BY <1>1, <1>5 DEF NetInv, NetUntouchedInv, NetUntouchedAt, NetUntouched, Net!Once, Net!OnAcl,
                          Net!Asked, Net!On
    <2> QED
        BY <2>2, <2>3
<1>6. PlacedAt(c)' /\ SeenAt(c)'
    BY DEF NetGoes
<1>7. NetUntouchedAt(c)'
    BY <1>1, <1>3 DEF NetInv, NetUntouchedInv, NetUntouchedAt, NetUntouched, NetGoes
<1>8. DeleterInv'
    BY <1>1, <1>3 DEF NetInv, DeleterInv
<1>9. StuckInv'
    <2>1. ASSUME NEW d \in netRaced \cap DOMAIN netPlan, NEW s \in Subnet, Net!Deletes(d, {s}), netCall[d].pc # "read"
          PROVE  d \in netRaced' /\ netCall'[d].pc # "read"
        <3>1. CASE d = c
            <4>1. Net!Asked(c) \notin Net!ListOps
                BY <2>1, <3>1 DEF Net!Deletes, Net!ListOps, Net!EntryOps, Net!SubnetOps
            <4>2. netCall[c].pc # "recheck"
                BY <4>1 DEF NetInv, PlacedInv, PlacedAt, Place
            <4> QED
                BY <2>1, <3>1, <4>2 DEF NetGoes
        <3> QED
            BY <1>1, <2>1, <3>1
    <2> QED
        BY <1>1, <1>3, <2>1 DEF NetInv, StuckInv
<1> QED
    BY <1>1, <1>2, <1>4, <1>5, <1>6, <1>7, <1>8, <1>9 DEF NetInv, PlacedInv, SeenInv, NetUntouchedInv

\* What is the same of each request that is carried out, late or not.
LEMMA ActKept ==
    ASSUME NetInv, NEW c \in DOMAIN netPlan, Net!Act(c), netCall[c].pc = "send" \/ c \in late, NetCallOK',
           \A d \in DOMAIN netPlan \ {c} : netCall'[d] = netCall[d],
           netCall'[c].base = netCall[c].base, netCall'[c].body = netCall[c].body, netCall'[c].pc \notin Before,
           late' \subseteq late, foreign' = foreign
    PROVE  /\ NetStateOK' /\ netMisfit' = {} /\ DeleterInv' /\ StuckInv'
           /\ c \notin netRaced' => Net!Fits(c)'
           /\ \A d \in DOMAIN netPlan \ {c} : PlacedAt(d)' /\ SeenAt(d)' /\ NetUntouchedAt(d)'
<1>0. /\ netPlan' = netPlan /\ acted' = acted \cup {c} /\ Occupied' = Occupied /\ Net!Races(DOMAIN netPlan \ {c}) /\ c \in Call
      /\ DOMAIN netPlan \subseteq Call /\ netRaced \subseteq netRaced' /\ (c \notin netRaced' => c \notin netRaced)
    BY NetPlanType DEF Net!Act, NetInv, Net!Races
<1>1. /\ c \notin netRaced => Net!Fits(c)
      /\ Net!Asked(c) = "setDhcp" => netPlan[c].dhcp # SystemSet
    BY DEF NetInv, SeenInv, SeenAt, Seen
<1>2. netMisfit' = {}
    BY <1>1 DEF Net!Act, NetInv
<1>3. NetStateOK'
    BY <1>0, <1>2, NetActType DEF NetInv, NetStateOK, Net!Races
<1>4. DeleterInv' /\ StuckInv'
    <2>1. \A d \in DOMAIN netPlan : netCall'[d].pc = "read" => netCall[d].pc = "read"
        BY DEF Before
    <2> QED
        BY <2>1, ActStuck
<1>5. c \notin netRaced' => Net!Fits(c)'
    BY <1>0, <1>1, NetOwnFits
<1>6. ASSUME NEW d \in DOMAIN netPlan \ {c}
      PROVE  PlacedAt(d)' /\ SeenAt(d)' /\ NetUntouchedAt(d)'
    <2>1. d \notin netRaced' => d \notin netRaced /\ Net!View(d)' = Net!View(d)
        BY <1>0 DEF Net!Races
    <2>2. PlacedAt(d)' /\ SeenAt(d)'
        BY <1>0, <2>1, OtherKept
    <2>3. NetUntouchedAt(d)'
        BY <1>0
           DEF NetInv, NetUntouchedInv, NetUntouchedAt, NetUntouched, Net!Once, Net!OnAcl, Net!Asked,
                    Net!On
    <2> QED
        BY <2>2, <2>3
<1> QED
    BY <1>2, <1>3, <1>4, <1>5, <1>6

\* Where a call is after its request may have got through.
LEMMA SendsTo ==
    ASSUME NetInv, NEW c \in DOMAIN netPlan, netCall[c].pc = "send", NetSends(c)
    PROVE  /\ \A d \in Call \ {c} : netCall'[d] = netCall[d]
           /\ netCall'[c].base = netCall[c].base /\ netCall'[c].body = netCall[c].body /\ netCall'[c].pc \notin Before
           /\ netCall'[c].pc # "done" => netCall'[c].result = "none"
           /\ netCall'[c].result \notin Net!Early \cup {"refused"}
           /\ netCall'[c].pc = "send" => ~Net!Once(c)
BY DEF NetSends, Moved, Ended, Before, Net!Early, NetInv, PlacedInv, PlacedAt

LEMMA NetAcceptedKept ==
    ASSUME NetInv, NEW c \in DOMAIN netPlan, Net!Accepted(c)
    PROVE  NetInv'
<1>0. /\ c \in Call /\ DOMAIN netPlan \subseteq Call /\ netCall[c].pc = "send" /\ Net!Act(c) /\ late' = late
      /\ netPlan' = netPlan /\ acted' = acted \cup {c} /\ foreign' = foreign /\ NetCallOK
    BY NetPlanType DEF Net!Accepted, Net!Act, Net!At, NetInv
<1>1. NetCallOK' /\ NetSends(c)
    BY <1>0, FailStep, SucceedStep DEF Net!Accepted
<1>2. /\ \A d \in Call \ {c} : netCall'[d] = netCall[d]
      /\ netCall'[c].base = netCall[c].base /\ netCall'[c].body = netCall[c].body /\ netCall'[c].pc \notin Before
      /\ netCall'[c].pc # "done" => netCall'[c].result = "none"
      /\ netCall'[c].result \notin Net!Early \cup {"refused"}
      /\ netCall'[c].pc = "send" => ~Net!Once(c)
    BY <1>0, <1>1, SendsTo
<1>3. /\ NetStateOK' /\ netMisfit' = {} /\ DeleterInv' /\ StuckInv'
      /\ c \notin netRaced' => Net!Fits(c)'
      /\ \A d \in DOMAIN netPlan \ {c} : PlacedAt(d)' /\ SeenAt(d)' /\ NetUntouchedAt(d)'
    BY <1>0, <1>1, <1>2, ActKept
<1>4. /\ Net!Asked(c)' = Net!Asked(c) /\ Net!On(c)' = Net!On(c) /\ Net!Once(c)' = Net!Once(c)
    BY <1>0 DEF Net!Asked, Net!On, Net!Once, Net!OnAcl
<1>5. PlacedAt(c)'
    BY <1>2, <1>4 DEF NetInv, PlacedInv, PlacedAt, Place, Before
<1>6. SeenAt(c)'
    BY <1>0, <1>2, <1>3, <1>4 DEF NetInv, SeenInv, SeenAt, Seen, Before
<1>7. NetUntouchedAt(c)'
    BY <1>2, <1>4 DEF NetUntouchedAt
<1>8. NetAskedInv'
    BY <1>0, <1>2 DEF NetInv, NetAskedInv
<1> QED
    BY <1>0, <1>1, <1>3, <1>5, <1>6, <1>7, <1>8 DEF NetInv, PlacedInv, SeenInv, NetUntouchedInv

LEMMA NetOutlivesKept ==
    ASSUME NetInv, NEW c \in DOMAIN netPlan, Net!Outlives(c)
    PROVE  NetInv'
<1>0. /\ c \in Call /\ DOMAIN netPlan \subseteq Call /\ netCall[c].pc = "send" /\ late' = late \cup {c} /\ NetCallOK
      /\ UNCHANGED <<netPlan, box, subnet, vpc, Occupied, foreign, acted, netRaced, netMisfit>>
    BY NetPlanType DEF Net!Outlives, Net!At, NetInv, Net!service, Net!history
<1>1. NetCallOK' /\ NetSends(c)
    BY <1>0, FailStep DEF Net!Outlives
<1>2. /\ \A d \in Call \ {c} : netCall'[d] = netCall[d]
      /\ netCall'[c].base = netCall[c].base /\ netCall'[c].body = netCall[c].body /\ netCall'[c].pc \notin Before
      /\ netCall'[c].pc # "done" => netCall'[c].result = "none"
      /\ netCall'[c].result \notin Net!Early \cup {"refused"}
      /\ netCall'[c].pc = "send" => ~Net!Once(c)
    BY <1>0, <1>1, SendsTo
<1>3. /\ Net!Asked(c)' = Net!Asked(c) /\ Net!On(c)' = Net!On(c) /\ Net!Once(c)' = Net!Once(c) /\ Net!Fits(c)' = Net!Fits(c)
    BY <1>0, <1>2, SameSeen
<1>4. NetStateOK' /\ NetAskedInv'
    BY <1>0, <1>2 DEF NetInv, NetStateOK, NetAskedInv
<1>5. PlacedAt(c)' /\ NetUntouchedAt(c)'
    BY <1>2, <1>3 DEF NetInv, PlacedInv, PlacedAt, Place, Before, NetUntouchedAt
<1>6. SeenAt(c)'
    BY <1>0, <1>2, <1>3 DEF NetInv, SeenInv, SeenAt, Seen, Before
<1>7. ASSUME NEW d \in DOMAIN netPlan \ {c}
      PROVE  PlacedAt(d)' /\ SeenAt(d)' /\ NetUntouchedAt(d)'
    <2>1. Net!View(d)' = Net!View(d) /\ netCall'[d] = netCall[d]
        BY <1>0, <1>2 DEF Net!View, Net!ListOf, Net!Here, Net!Asked, Net!On, Net!Deletes, Net!Named,
                          Net!ReliesOnMain, Net!Listed, Net!Holds, Net!InVPC, Net!PrivateDNS
    <2>2. PlacedAt(d)' /\ SeenAt(d)'
        BY <1>0, <2>1, OtherKept
    <2>3. NetUntouchedAt(d)'
        BY <1>0, <2>1 DEF NetInv, NetUntouchedInv, NetUntouchedAt, NetUntouched, Net!Once, Net!OnAcl,
                          Net!Asked, Net!On
    <2> QED
        BY <2>2, <2>3
<1>8. DeleterInv' /\ StuckInv'
    <2>1. \A d, kind : Net!Deletes(d, kind)' = Net!Deletes(d, kind) /\ \A a, s : Net!Holds(a, s)' = Net!Holds(a, s)
        BY <1>0 DEF Net!Deletes, Net!Holds, Net!Asked, Net!On
    <2>2. \A d \in DOMAIN netPlan : netCall'[d].pc = "read" => netCall[d].pc = "read"
        BY <1>0, <1>2 DEF Before
    <2> QED
        BY <1>0, <2>1, <2>2 DEF NetInv, DeleterInv, StuckInv
<1> QED
    BY <1>0, <1>1, <1>4, <1>5, <1>6, <1>7, <1>8 DEF NetInv, PlacedInv, SeenInv, NetUntouchedInv

LEMMA NetArriveKept ==
    ASSUME NetInv, NEW c \in DOMAIN netPlan, Net!Arrive(c)
    PROVE  NetInv'
<1>0. /\ c \in Call /\ DOMAIN netPlan \subseteq Call /\ c \in late /\ late' = late \ {c} /\ netCall' = netCall
      /\ netPlan' = netPlan /\ Occupied' = Occupied /\ foreign' = foreign /\ netCall[c].pc \notin Before
    BY NetPlanType DEF Net!Arrive, Net!Act, NetInv, NetUntouchedInv, NetUntouchedAt, NetUntouched
<1>1. NetCallOK' /\ NetAskedInv'
    BY <1>0 DEF NetInv, NetCallOK, NetAskedInv
<1>2. /\ Net!Asked(c)' = Net!Asked(c) /\ Net!On(c)' = Net!On(c) /\ Net!Once(c)' = Net!Once(c)
      /\ Place(c, netCall[c].pc)' = Place(c, netCall[c].pc)
    BY <1>0 DEF Net!Asked, Net!On, Net!Once, Net!OnAcl, Place, Net!Deletes
<1>3. PlacedAt(c)'
    BY <1>0, <1>2 DEF NetInv, PlacedInv, PlacedAt, Place, Before
<1>4. NetUntouchedAt(c)'
    BY <1>0, <1>2 DEF NetInv, NetUntouchedInv, NetUntouchedAt, NetUntouched
<1>5. CASE Net!Act(c)
    <2>1. /\ NetStateOK' /\ netMisfit' = {} /\ DeleterInv' /\ StuckInv'
          /\ c \notin netRaced' => Net!Fits(c)'
          /\ \A d \in DOMAIN netPlan \ {c} : PlacedAt(d)' /\ SeenAt(d)' /\ NetUntouchedAt(d)'
        BY <1>0, <1>1, <1>5, ActKept
    <2>2. SeenAt(c)'
        BY <1>0, <1>2, <2>1 DEF NetInv, SeenInv, SeenAt, Seen, Before
    <2> QED
        BY <1>0, <1>1, <1>3, <1>4, <2>1, <2>2 DEF NetInv, PlacedInv, SeenInv, NetUntouchedInv
<1>6. CASE UNCHANGED <<netPlan, Net!service, Occupied, foreign, Net!history>>
    <2>1. UNCHANGED <<netPlan, box, subnet, vpc, Occupied, foreign, acted, netRaced, netMisfit>>
        BY <1>6 DEF Net!service, Net!history
    <2>2. NetStateOK' /\ DeleterInv' /\ StuckInv'
        BY <1>0, <2>1
           DEF NetInv, NetStateOK, DeleterInv, StuckInv, Net!Deletes, Net!Holds, Net!Asked, Net!On
    <2>3. ASSUME NEW d \in DOMAIN netPlan
          PROVE  PlacedAt(d)' /\ SeenAt(d)' /\ NetUntouchedAt(d)'
        <3>1. Net!View(d)' = Net!View(d) /\ netCall'[d] = netCall[d]
            BY <1>0, <2>1 DEF Net!View, Net!ListOf, Net!Here, Net!Asked, Net!On, Net!Deletes, Net!Named,
                              Net!ReliesOnMain, Net!Listed, Net!Holds, Net!InVPC, Net!PrivateDNS
        <3>2. PlacedAt(d)' /\ SeenAt(d)'
            BY <1>0, <2>1, <3>1, OtherKept
        <3>3. NetUntouchedAt(d)'
            BY <1>0, <2>1
               DEF NetInv, NetUntouchedInv, NetUntouchedAt, NetUntouched, Net!Once, Net!OnAcl,
                              Net!Asked, Net!On
        <3> QED
            BY <3>2, <3>3
    <2> QED
        BY <1>0, <1>1, <2>1, <2>2, <2>3 DEF NetInv, PlacedInv, SeenInv, NetUntouchedInv
<1> QED
    BY <1>5, <1>6 DEF Net!Arrive

\* A step of nobody's call: it ends work, and what it changes races with calls.
LEMMA BackgroundKept ==
    ASSUME NetInv, UNCHANGED <<netPlan, late, netCall, acted, netMisfit>>, Net!Races(DOMAIN netPlan),
           box' \in [Net!Box -> BoxState], subnet' \in [Subnet -> SubnetState], vpc' \in VpcState,
           Occupied' \subseteq Subnet, foreign' \in Nat,
           \A a \in Acl, s \in Subnet : Net!Holds(a, s)' => Net!Holds(a, s),
           \A s \in Subnet : /\ subnet'[s].status = "DELETING" => subnet[s].status = "DELETING"
                             /\ subnet'[s].status \in {"DELETED", "GONE"} =>
                                  subnet[s].status \in {"DELETING", "DELETED", "GONE"}
    PROVE  NetInv'
<1>0. /\ DOMAIN netPlan \subseteq Call /\ netRaced \subseteq netRaced' /\ netRaced' \subseteq netRaced \cup DOMAIN netPlan
      /\ \A d \in DOMAIN netPlan : d \notin netRaced' => d \notin netRaced /\ Net!View(d)' = Net!View(d)
    BY NetPlanType DEF Net!Races, NetInv
<1>1. NetCallOK' /\ NetAskedInv' /\ NetStateOK' /\ netMisfit' = {}
    BY <1>0 DEF NetInv, NetCallOK, NetAskedInv, NetStateOK
<1>2. ASSUME NEW d \in DOMAIN netPlan
      PROVE  PlacedAt(d)' /\ SeenAt(d)' /\ NetUntouchedAt(d)'
    <2>1. PlacedAt(d)' /\ SeenAt(d)'
        BY <1>0, OtherKept
    <2>2. NetUntouchedAt(d)'
        BY DEF NetInv, NetUntouchedInv, NetUntouchedAt, NetUntouched, Net!Once, Net!OnAcl, Net!Asked,
           Net!On
    <2> QED
        BY <2>1, <2>2
<1>3. \A d, kind : Net!Deletes(d, kind)' = Net!Deletes(d, kind)
    BY DEF Net!Deletes, Net!Asked, Net!On
<1>4. DeleterInv'
    BY <1>3 DEF NetInv, DeleterInv
<1>5. StuckInv'
    <2>1. ASSUME NEW a \in Acl, NEW s \in Subnet, Net!Holds(a, s)', subnet'[s].status \in {"DELETING", "DELETED", "GONE"}
          PROVE  Net!Holds(a, s) /\ subnet[s].status \in {"DELETING", "DELETED", "GONE"}
        BY <2>1
    <2> QED
        BY <1>0, <1>3, <2>1 DEF NetInv, StuckInv
<1> QED
    BY <1>1, <1>2, <1>4, <1>5 DEF NetInv, PlacedInv, SeenInv, NetUntouchedInv

LEMMA NetServiceKept ==
    ASSUME NetInv,
           \/ \E b \in Net!Box : Net!EndBoxWork(b)
           \/ \E s \in Subnet : Net!EndSubnetWork(s) \/ \E t \in Table : Net!Reroute(s, t)
           \/ Net!EndVPCWork
    PROVE  NetInv'
<1>0. /\ box \in [Net!Box -> BoxState] /\ subnet \in [Subnet -> SubnetState] /\ vpc \in VpcState
      /\ Occupied \subseteq Subnet /\ foreign \in Nat /\ Acl \subseteq Net!Box
    BY DEF NetInv, NetStateOK, Net!Box
<1>1. ASSUME NEW b \in Net!Box, Net!EndBoxWork(b) PROVE NetInv'
    <2>1. /\ subnet' = subnet /\ foreign' = foreign /\ Net!Meanwhile /\ Net!Races(DOMAIN netPlan)
          /\ \/ box' = [box EXCEPT ![b].hidden = FALSE]
             \/ /\ box[b].status # "GONE"
                /\ \E end \in {"ACTIVE", "ERROR", "GONE"} : box' = [box EXCEPT ![b].status = end]
          /\ vpc' \in {vpc, [vpc EXCEPT !.main = None]}
        BY <1>1 DEF Net!EndBoxWork
    <2>2. box' \in [Net!Box -> BoxState] /\ vpc' \in VpcState
        <3>1. /\ [box[b] EXCEPT !.hidden = FALSE] \in BoxState
              /\ \A end \in {"ACTIVE", "ERROR", "GONE"} : [box[b] EXCEPT !.status = end] \in BoxState
            BY <1>0, <1>1 DEF BoxState
        <3>2. [vpc EXCEPT !.main = None] \in VpcState
            BY <1>0 DEF VpcState
        <3>3. box' \in [Net!Box -> BoxState]
            BY <1>0, <2>1, <3>1
        <3> QED
            BY <1>0, <2>1, <3>2, <3>3
    <2>3. \A a \in Acl, s \in Subnet : Net!Holds(a, s)' => Net!Holds(a, s)
        BY <1>0, <2>1 DEF Net!Holds, BoxState
    <2> QED
        BY <1>0, <2>1, <2>2, <2>3, BackgroundKept DEF Net!Meanwhile
<1>2. ASSUME NEW s \in Subnet, Net!EndSubnetWork(s) PROVE NetInv'
    <2>1. /\ box' = box /\ vpc' = vpc /\ foreign' = foreign /\ Net!Meanwhile /\ Net!Races(DOMAIN netPlan)
          /\ \E end \in {"ACTIVE", "ERROR", "DELETED", "GONE"} :
               /\ subnet' = [subnet EXCEPT ![s].status = end]
               /\ end \in {"DELETED", "GONE"} => subnet[s].status \in {"DELETING", "DELETED"}
        BY <1>2 DEF Net!EndSubnetWork
    <2>2. subnet' \in [Subnet -> SubnetState]
        BY <1>0, <2>1 DEF SubnetState, Net!Shown
    <2>3. \A r \in Subnet : /\ subnet'[r].status = "DELETING" => subnet[r].status = "DELETING"
                            /\ subnet'[r].status \in {"DELETED", "GONE"} =>
                                 subnet[r].status \in {"DELETING", "DELETED", "GONE"}
        BY <1>0, <2>1 DEF SubnetState
    <2>4. \A a \in Acl, r \in Subnet : Net!Holds(a, r)' => Net!Holds(a, r)
        BY <2>1 DEF Net!Holds
    <2> QED
        BY <1>0, <2>1, <2>2, <2>3, <2>4, BackgroundKept DEF Net!Meanwhile
<1>3. ASSUME NEW s \in Subnet, NEW t \in Table, Net!Reroute(s, t) PROVE NetInv'
    <2>1. /\ box' = box /\ vpc' = vpc /\ foreign' \in Nat /\ Net!Meanwhile /\ Net!Races(DOMAIN netPlan)
          /\ subnet' = [subnet EXCEPT ![s].table = t]
        BY <1>0, <1>3 DEF Net!Reroute
    <2>2. subnet' \in [Subnet -> SubnetState] /\ \A r \in Subnet : subnet'[r].status = subnet[r].status
        BY <1>0, <2>1 DEF SubnetState
    <2>3. \A a \in Acl, r \in Subnet : Net!Holds(a, r)' => Net!Holds(a, r)
        BY <2>1 DEF Net!Holds
    <2> QED
        BY <1>0, <2>1, <2>2, <2>3, BackgroundKept DEF Net!Meanwhile
<1>4. ASSUME Net!EndVPCWork PROVE NetInv'
    <2>1. /\ subnet' = subnet /\ foreign' = foreign /\ Net!Meanwhile /\ Net!Races(DOMAIN netPlan)
          /\ \/ box' = box
             \/ box' = [b \in Net!Box |-> [box[b] EXCEPT !.status = "GONE"]]
          /\ \/ vpc' = [vpc EXCEPT !.dns = "ENABLED"]
             \/ \E end \in {"GONE", "ERROR"} : vpc' = [vpc EXCEPT !.status = end]
        BY <1>4 DEF Net!EndVPCWork
    <2>2. box' \in [Net!Box -> BoxState] /\ vpc' \in VpcState
        <3>1. \A b \in Net!Box : [box[b] EXCEPT !.status = "GONE"] \in BoxState
            BY <1>0 DEF BoxState
        <3>2. vpc' \in VpcState
            BY <1>0, <2>1 DEF VpcState
        <3> QED
            BY <1>0, <2>1, <3>1, <3>2
    <2>3. \A a \in Acl, s \in Subnet : Net!Holds(a, s)' => Net!Holds(a, s)
        BY <1>0, <2>1 DEF Net!Holds, BoxState
    <2> QED
        BY <1>0, <2>1, <2>2, <2>3, BackgroundKept DEF Net!Meanwhile
<1> QED
    BY <1>1, <1>2, <1>3, <1>4

LEMMA NetKept ==
    ASSUME NetInv, Net!Next PROVE NetInv'
<1>1. ASSUME NEW c \in Call, Net!Step(c) \/ Net!Break(c) PROVE NetInv'
    <2>1. netCall[c].pc # "done"
        BY <1>1 DEF Net!Step, Net!WaitPreWriteActive, Net!ReadSubnet, Net!Recheck, Net!DeleteACL,
                    Net!DeleteRouteTable, Net!ReadSubnets,
                    Net!DeleteSubnet, Net!CheckSubnetNotInUse, Net!ListNetworkACLsInVPC,
                    Net!CheckSubnetNotHeld, Net!DeleteVPC,
                    Net!CheckNoSubnets, Net!DeleteDHCPOptions, Net!EnableVPCPrivateDNS, Net!SetVPCDHCPOptions,
                    Net!ReadTarget, Net!Accepted,
                    Net!Refused, Net!NotTaken, Net!Outlives, Net!ConfirmSubnetDelete,
                    Net!WaitACLAbsentAfterDelete, Net!Settle, Net!Break,
                    Net!Reading, Net!At
    <2>2. c \in DOMAIN netPlan
        BY <2>1 DEF NetInv, NetAskedInv
    <2> QED
        BY <1>1, <2>2, ListReads, DeleteReads, SubnetReads, DhcpReads, AfterSend, NetGoesKept,
           NetAcceptedKept, NetOutlivesKept DEF Net!Step
<1>2. ASSUME NEW c \in Call, Net!Arrive(c) PROVE NetInv'
    BY <1>2, NetArriveKept DEF Net!Arrive, NetInv, NetAskedInv
<1> QED
    BY <1>1, <1>2, NetServiceKept DEF Net!Next

LEMMA NetElsewhere ==
    ASSUME NetInv, Net!Elsewhere, Occupied' \subseteq Subnet PROVE NetInv'
<1>1. /\ UNCHANGED <<netPlan, box, subnet, vpc, late, foreign, netCall, acted, netMisfit>> /\ Net!Races(DOMAIN netPlan)
    BY DEF Net!Elsewhere, Net!service
<1>2. \A a \in Acl, s \in Subnet : Net!Holds(a, s)' => Net!Holds(a, s)
    BY <1>1 DEF Net!Holds
<1> QED
    BY <1>1, <1>2, BackgroundKept DEF NetInv, NetStateOK

\* The invariant reads these alone.
LEMMA NetStill ==
    ASSUME NetInv, UNCHANGED <<netPlan, box, subnet, vpc, Occupied, late, foreign, netCall, acted, netRaced, netMisfit>>
    PROVE  NetInv'
<1>1. \A d : Net!View(d)' = Net!View(d)
    BY DEF Net!View, Net!ListOf, Net!Here, Net!Asked, Net!On, Net!Deletes, Net!Named, Net!ReliesOnMain,
           Net!Listed, Net!Holds, Net!InVPC, Net!PrivateDNS
<1>2. \A d \in DOMAIN netPlan : PlacedAt(d)' /\ SeenAt(d)'
    BY <1>1, OtherKept
<1>3. NetUntouchedInv' /\ NetCallOK' /\ NetStateOK' /\ NetAskedInv' /\ netMisfit' = {}
    BY DEF NetInv, NetUntouchedInv, NetUntouchedAt, NetUntouched, Net!Once, Net!OnAcl, Net!Asked,
       Net!On,
           NetCallOK, NetStateOK, NetAskedInv
<1>4. DeleterInv' /\ StuckInv'
    BY DEF NetInv, DeleterInv, StuckInv, Net!Deletes, Net!Holds, Net!Asked, Net!On
<1> QED
    BY <1>2, <1>3, <1>4 DEF NetInv, PlacedInv, SeenInv

LEMMA NetImplied ==
    ASSUME NetInv PROVE Net!TypeOK /\ Net!ActsOnWhatItRead /\ Net!RefusalMeansUntouched /\ Net!NoAclStuck
<1>1. Net!TypeOK /\ Net!ActsOnWhatItRead
    BY NetTypeParts DEF NetInv, Net!ActsOnWhatItRead
<1>2. Net!RefusalMeansUntouched
    BY DEF NetInv, Net!RefusalMeansUntouched, NetUntouchedInv, NetUntouchedAt, NetUntouched, Net!Once
<1>3. Net!NoAclStuck
    BY DEF NetInv, Net!NoAclStuck, StuckInv
<1> QED
    BY <1>1, <1>2, <1>3

-----------------------------------------------------------------------------
(* Dns: zones and records.  ZoneInv says whose turn it is, what a call merged  *)
(* its own part with, and for whom a zone is locked.                           *)

LEMMA ZoneConstants ==
    None \notin Call \cup Text /\ ClientOf \in [Call -> Client] /\ ZoneOf \in [Record -> Zone]
BY VServerAssumption

LEMMA ZoneScene ==
    ASSUME NEW i \in ZoneScenes
    PROVE  /\ [zone |-> i.zone, record |-> i.record] \in Zones!World
           /\ \A z \in Zone : /\ i.zone[z].status \in {"ACTIVE", "ERROR", "GONE"}
                              /\ i.zone[z].by = None /\ ~i.zone[z].hidden
           /\ \A c \in DOMAIN i.plan :
                /\ c \in Call /\ i.plan[c] \in Zones!Plan
                /\ i.plan[c].op \in Zones!RecordOps => ZoneOf[i.plan[c].record] = i.plan[c].zone
                /\ i.plan[c].op = "createZone" => i.plan[c].text \in Text /\ i.plan[c].vpcs \in SUBSET Vpc
BY VServerAssumption

ZoneCallOK == zoneCall \in [Call -> Zones!Local]

ZonesOK ==
    /\ \E i \in ZoneScenes : zonePlan = i.plan
    /\ zone \in [Zone -> Zones!ZoneState] /\ record \in [Record -> Zones!RecordState]
    /\ holder \in [Client -> Call \cup {None}]
    /\ zoneLate \subseteq Call
    /\ zoneActed \subseteq Call /\ zoneRaced \subseteq Call /\ zoneMisfit \subseteq Call

LEMMA ZoneTypeParts == Zones!TypeOK <=> ZoneCallOK /\ ZonesOK
<1>1. [zone |-> zone, record |-> record] \in Zones!World
        <=> zone \in [Zone -> Zones!ZoneState] /\ record \in [Record -> Zones!RecordState]
    BY DEF Zones!World
<1> QED
    BY <1>1 DEF Zones!TypeOK, ZoneCallOK, ZonesOK

LEMMA ZonePlanType ==
    ASSUME ZonesOK, NEW c \in DOMAIN zonePlan
    PROVE  /\ c \in Call /\ zonePlan[c] \in Zones!Plan /\ ClientOf[c] \in Client
           /\ zonePlan[c].zone \in Zone /\ zonePlan[c].record \in Record
           /\ Zones!Asked(c) \in Zones!RecordOps => ZoneOf[zonePlan[c].record] = zonePlan[c].zone
           /\ Zones!Asked(c) = "createZone" => zonePlan[c].text \in Text /\ zonePlan[c].vpcs \in SUBSET Vpc
<1>1. PICK i \in ZoneScenes : zonePlan = i.plan
    BY DEF ZonesOK
<1>2. c \in Call /\ zonePlan[c] \in Zones!Plan
    BY <1>1, ZoneScene, ZoneConstants
<1>3. ClientOf[c] \in Client /\ zonePlan[c].zone \in Zone /\ zonePlan[c].record \in Record
    BY <1>2, ZoneScene, ZoneConstants DEF Zones!Plan
<1> QED
    BY <1>1, <1>2, <1>3, ZoneScene, ZoneConstants DEF Zones!Asked

\* Only a call that has something to do is anywhere or sends anything, and who
\* is between the lock and the return holds the lock of its Client.
ZoneAskedInv ==
    /\ \A c \in Call : zoneCall[c].pc # "done" => c \in DOMAIN zonePlan
    /\ zoneLate \subseteq DOMAIN zonePlan

TurnInv == \A c \in Call : zoneCall[c].pc \notin {"lock", "done"} => holder[ClientOf[c]] = c

LEMMA ZoneInit ==
    ASSUME Zones!Init PROVE ZoneCallOK /\ ZonesOK /\ ZoneAskedInv /\ TurnInv
<1>1. PICK i \in ZoneScenes : zonePlan = i.plan /\ zone = i.zone /\ record = i.record
    BY DEF Zones!Init
<1>2. [zone |-> zone, record |-> record] \in Zones!World
    BY <1>1, ZoneScene, ZoneConstants
<1>3. zone \in [Zone -> Zones!ZoneState] /\ record \in [Record -> Zones!RecordState]
    BY <1>2 DEF Zones!World
<1>4. 0 \in 0..MaxReads /\ 0 \in 0..(Attempts - 1)
    BY Bounds
<1>5. [text |-> None, vpcs |-> {}] \in Zones!Body /\ "none" \in Zones!Result /\ {"lock", "done"} \subseteq Zones!PC
    BY DEF Zones!Body, Zones!Result, Zones!PC
<1>6. ZoneCallOK
    BY <1>4, <1>5 DEF ZoneCallOK, Zones!Local, Zones!Init
<1>7. ZonesOK
    BY <1>1, <1>3 DEF ZonesOK, Zones!Init
<1> QED
    BY <1>6, <1>7 DEF ZoneAskedInv, TurnInv, Zones!Init

-----------------------------------------------------------------------------
\* The ways a call moves on, as its Client's lock sees them.
ZoneStays(c) == zoneCall[c].pc # "lock" /\ zoneCall'[c].pc \notin {"lock", "done"} /\ holder' = holder

ZoneLeaves(c) == zoneCall'[c].pc = "done" /\ holder' = [k \in Client |-> IF holder[k] = c THEN None ELSE holder[k]]

SameBody(c) == zoneCall'[c].base = zoneCall[c].base /\ zoneCall'[c].body = zoneCall[c].body

Turns(c) ==
    /\ \A d \in Call \ {c} : zoneCall'[d] = zoneCall[d]
    /\ zoneCall[c].pc # "done"
    /\ \/ ZoneStays(c) \/ ZoneLeaves(c)
       \/ /\ zoneCall[c].pc = "lock" /\ holder[ClientOf[c]] = None
          /\ holder' = [holder EXCEPT ![ClientOf[c]] = c] /\ zoneCall'[c].pc \notin {"lock", "done"}

LEMMA ZoneReturn ==
    ASSUME ZoneCallOK, NEW c \in Call, NEW r \in Zones!Result, Zones!Return(c, r), zoneCall[c].pc # "done"
    PROVE  /\ ZoneCallOK' /\ Turns(c) /\ zoneCall'[c].pc = "done" /\ zoneCall'[c].result = r
           /\ ~zoneCall'[c].polled /\ SameBody(c)
<1>1. 0 \in 0..MaxReads /\ 0 \in 0..(Attempts - 1) /\ "done" \in Zones!PC
    BY Bounds DEF Zones!PC
<1>2. [zoneCall[c] EXCEPT !.pc = "done", !.result = r, !.shown = "none", !.polled = FALSE,
                      !.reads = 0, !.tries = 0] \in Zones!Local
    BY <1>1 DEF ZoneCallOK, Zones!Local
<1>3. ZoneCallOK'
    BY <1>2 DEF ZoneCallOK, Zones!Return
<1>4. /\ zoneCall'[c].pc = "done" /\ zoneCall'[c].result = r /\ ~zoneCall'[c].polled /\ SameBody(c)
      /\ \A d \in Call \ {c} : zoneCall'[d] = zoneCall[d]
    BY DEF ZoneCallOK, Zones!Local, Zones!Return, SameBody
<1> QED
    BY <1>3, <1>4 DEF Turns, ZoneLeaves, Zones!Return

LEMMA ZoneGoto ==
    ASSUME ZoneCallOK, NEW c \in Call, NEW w \in Zones!PC \ {"lock", "done"}, Zones!Goto(c, w), zoneCall[c].pc \notin {"lock", "done"}
    PROVE  /\ ZoneCallOK' /\ Turns(c) /\ zoneCall'[c].pc = w /\ zoneCall'[c].reads = 0
           /\ zoneCall'[c].result = zoneCall[c].result /\ zoneCall'[c].polled = zoneCall[c].polled /\ SameBody(c)
<1>0. zoneCall[c] \in Zones!Local /\ 0 \in 0..MaxReads
    BY Bounds DEF ZoneCallOK
<1>1. /\ [zoneCall[c] EXCEPT !.pc = w, !.reads = 0] \in Zones!Local
      /\ zoneCall' = [zoneCall EXCEPT ![c] = [zoneCall[c] EXCEPT !.pc = w, !.reads = 0]]
    BY <1>0 DEF Zones!Local, Zones!Goto
<1>2. ZoneCallOK'
    BY <1>1 DEF ZoneCallOK
<1>3. /\ zoneCall'[c].pc = w /\ zoneCall'[c].reads = 0 /\ zoneCall'[c].result = zoneCall[c].result
      /\ zoneCall'[c].polled = zoneCall[c].polled /\ SameBody(c) /\ \A d \in Call \ {c} : zoneCall'[d] = zoneCall[d]
    BY <1>1 DEF ZoneCallOK, Zones!Local, SameBody
<1> QED
    BY <1>2, <1>3 DEF Turns, ZoneStays, Zones!Goto

LEMMA ZonePoll ==
    ASSUME ZoneCallOK, NEW c \in Call, NEW w \in Zones!PC \ {"lock", "done"}, NEW r \in Zones!Result, Zones!Poll(c, w, r),
           zoneCall[c].pc \notin {"lock", "done"}
    PROVE  /\ ZoneCallOK' /\ Turns(c) /\ SameBody(c)
           /\ \/ /\ zoneCall'[c].pc = w /\ zoneCall'[c].result = zoneCall[c].result /\ zoneCall'[c].reads > 0
                 /\ zoneCall'[c].polled = zoneCall[c].polled
              \/ zoneCall'[c].pc = "done" /\ zoneCall'[c].result = r /\ ~zoneCall'[c].polled
<1>1. CASE Zones!Return(c, r)
    BY <1>1, ZoneReturn
<1>2. CASE /\ zoneCall[c].reads < MaxReads /\ UNCHANGED holder
           /\ zoneCall' = [zoneCall EXCEPT ![c] = [@ EXCEPT !.pc = w, !.reads = zoneCall[c].reads + 1]]
    <2>0. zoneCall[c] \in Zones!Local /\ zoneCall[c].reads + 1 \in 0..MaxReads /\ zoneCall[c].reads + 1 > 0
        BY <1>2, Bounds DEF ZoneCallOK, Zones!Local
    <2>1. /\ [zoneCall[c] EXCEPT !.pc = w, !.reads = zoneCall[c].reads + 1] \in Zones!Local
          /\ zoneCall' = [zoneCall EXCEPT ![c] = [zoneCall[c] EXCEPT !.pc = w, !.reads = zoneCall[c].reads + 1]]
        BY <1>2, <2>0 DEF Zones!Local
    <2>2. ZoneCallOK'
        BY <2>1 DEF ZoneCallOK
    <2>3. /\ zoneCall'[c].pc = w /\ zoneCall'[c].reads > 0 /\ zoneCall'[c].result = zoneCall[c].result
          /\ zoneCall'[c].polled = zoneCall[c].polled /\ SameBody(c) /\ \A d \in Call \ {c} : zoneCall'[d] = zoneCall[d]
        BY <2>0, <2>1 DEF ZoneCallOK, Zones!Local, SameBody
    <2> QED
        BY <1>2, <2>2, <2>3 DEF Turns, ZoneStays
<1> QED
    BY <1>1, <1>2 DEF Zones!Poll

LEMMA ZoneFail ==
    ASSUME ZoneCallOK, NEW c \in Call, Zones!Fail(c), zoneCall[c].pc = "send"
    PROVE  /\ ZoneCallOK' /\ Turns(c) /\ SameBody(c)
           /\ \/ /\ zoneCall'[c].pc = "send" /\ zoneCall'[c].result = zoneCall[c].result /\ Zones!Asked(c) \notin Zones!CreateOps
                 /\ zoneCall'[c].polled = zoneCall[c].polled /\ zoneCall'[c].reads = zoneCall[c].reads
              \/ zoneCall'[c].pc = "done" /\ zoneCall'[c].result \in {"ambiguous", "error"} /\ ~zoneCall'[c].polled
<1>1. ASSUME NEW r \in {"ambiguous", "error"}, Zones!Return(c, r)
      PROVE  /\ ZoneCallOK' /\ Turns(c) /\ zoneCall'[c].pc = "done" /\ zoneCall'[c].result = r
             /\ ~zoneCall'[c].polled /\ SameBody(c)
    BY <1>1, ZoneReturn DEF Zones!Result
<1>2. CASE /\ Zones!Asked(c) \notin Zones!CreateOps /\ zoneCall[c].tries + 1 < Attempts
           /\ zoneCall' = [zoneCall EXCEPT ![c].tries = @ + 1] /\ UNCHANGED holder
    <2>1. [zoneCall[c] EXCEPT !.tries = @ + 1] \in Zones!Local /\ zoneCall' = [zoneCall EXCEPT ![c] = [zoneCall[c] EXCEPT !.tries = @ + 1]]
        BY <1>2, Bounds DEF ZoneCallOK, Zones!Local
    <2>2. ZoneCallOK'
        BY <2>1 DEF ZoneCallOK
    <2>3. /\ zoneCall'[c].pc = "send" /\ zoneCall'[c].result = zoneCall[c].result /\ SameBody(c)
          /\ zoneCall'[c].polled = zoneCall[c].polled /\ zoneCall'[c].reads = zoneCall[c].reads
          /\ \A d \in Call \ {c} : zoneCall'[d] = zoneCall[d]
        BY <2>1 DEF ZoneCallOK, Zones!Local, SameBody
    <2> QED
        BY <1>2, <2>2, <2>3 DEF Turns, ZoneStays
<1> QED
    BY <1>1, <1>2 DEF Zones!Fail

-----------------------------------------------------------------------------
\* A call has done nothing and has nothing on its way.
Untouched(c) == c \notin zoneActed \cup zoneLate

UntouchedAt(c) ==
    /\ zoneCall[c].pc # "done" => zoneCall[c].result = "none"
    /\ zoneCall[c].pc \in {"lock", "ready"} \/ zoneCall[c].result \in Zones!Early => Untouched(c)
    /\ Zones!Asked(c) \in Zones!CreateOps /\ (zoneCall[c].pc = "send" \/ zoneCall[c].result = "refused") => Untouched(c)

UntouchedInv == \A c \in DOMAIN zonePlan : UntouchedAt(c)

\* What an update sends of the parts its caller left alone is what it read.
Merges(c) ==
    /\ zonePlan[c].text = None => zoneCall[c].body.text = zoneCall[c].base.text
    /\ zonePlan[c].vpcs = None => zoneCall[c].body.vpcs = zoneCall[c].base.vpcs

MergedAt(c) == Zones!Asked(c) = "updateZone" =>
    /\ zoneCall[c].pc = "send" => Merges(c) /\ (c \notin zoneRaced => Zones!Fits(c))
    /\ zoneCall[c].pc = "send" \/ c \in zoneLate => zoneCall[c].body.text \in Text

MergedInv == \A c \in DOMAIN zonePlan : MergedAt(c)

\* The service locks a zone for a write that is not a delete, and shows it, or
\* else the write is one of a record; a record is not ACTIVE while it is created.
Working(z) == zone[z].hidden \/ zone[z].status \in {"CREATING", "UPDATING"}

ByInv == \A z \in Zone :
    /\ zone[z].by # None <=> Working(z)
    /\ zone[z].hidden => zone[z].status \in {"ACTIVE", "ERROR"}
    /\ \A c \in Call : zone[z].by = c =>
         /\ c \in DOMAIN zonePlan /\ zonePlan[c].zone = z /\ Zones!Asked(c) \notin Zones!DeleteOps
         /\ zone[z].hidden => Zones!Asked(c) \in Zones!RecordOps
         /\ Zones!Asked(c) = "createRecord" => Zones!There(c).status = "CREATING"

\* No zone is locked for the call.
Idle(c) == \A z \in Zone : zone[z].by # c

LookedAt(c) ==
    /\ zoneCall[c].pc = "settleRecord" => Zones!Asked(c) \in Zones!RecordOps
    /\ zoneCall[c].polled => zoneCall[c].pc \in {"settle", "settleRecord"} /\ zoneCall[c].reads > 0
    /\ zoneCall[c].result = "settled" => c \in zoneRaced \/ Idle(c)
    /\ zoneCall[c].pc = "settleRecord" /\ zoneCall[c].shown = "ACTIVE" /\ zoneCall[c].reads > 0 => c \in zoneRaced \/ Idle(c)

LookedInv == \A c \in DOMAIN zonePlan : LookedAt(c)

\* What these see of a step of a call that the service does not see.
Rereads(c) ==
    /\ zoneCall[c].pc = "ready" /\ zoneRaced' = zoneRaced \ {c}
    /\ UNCHANGED <<zonePlan, Zones!service, zoneLate, zoneActed, zoneMisfit>>

Goes(c) ==
    /\ Turns(c)
    /\ Zones!Quiet \/ Rereads(c)
    /\ zoneCall'[c].pc \in {"lock", "ready"} => zoneCall[c].pc \in {"lock", "ready"}
    /\ zoneCall'[c].pc # "done" => zoneCall'[c].result = zoneCall[c].result
    /\ zoneCall'[c].result \in Zones!Early => zoneCall[c].pc \in {"lock", "ready"}
    /\ zoneCall'[c].result = "refused" => zoneCall[c].pc = "send"
    /\ zoneCall'[c].pc = "send" =>
         \/ zoneCall[c].pc = "lock" /\ Zones!Asked(c) = "createZone"
         \/ zoneCall[c].pc = "ready" /\ (Merges(c) /\ Zones!Fits(c))' /\ zoneCall'[c].body.text \in Text
         \/ zoneCall[c].pc = "send"
    /\ zoneCall[c].pc # "ready" => SameBody(c)
    /\ zoneCall'[c].pc = "settleRecord" => Zones!Asked(c) \in Zones!RecordOps
    /\ zoneCall'[c].polled => zoneCall'[c].pc \in {"settle", "settleRecord"} /\ zoneCall'[c].reads > 0
    /\ zoneCall'[c].result = "settled" => c \in zoneRaced' \/ Idle(c)
    /\ zoneCall'[c].pc = "settleRecord" /\ zoneCall'[c].shown = "ACTIVE" /\ zoneCall'[c].reads > 0 => c \in zoneRaced' \/ Idle(c)

LEMMA ReturnGoes ==
    ASSUME ZoneCallOK, NEW c \in Call, NEW r \in Zones!Result, Zones!Return(c, r), zoneCall[c].pc # "done",
           Zones!Quiet \/ Rereads(c),
           r \in Zones!Early => zoneCall[c].pc \in {"lock", "ready"}, r = "refused" => zoneCall[c].pc = "send",
           r = "settled" => c \in zoneRaced' \/ Idle(c)
    PROVE  ZoneCallOK' /\ Goes(c)
BY ZoneReturn DEF Goes

LEMMA PollGoes ==
    ASSUME ZoneCallOK, NEW c \in Call, NEW w \in {"ready", "settle", "gone"}, NEW r \in Zones!Result,
           Zones!Poll(c, w, r), Zones!Quiet \/ Rereads(c), zoneCall[c].pc \notin {"lock", "done"},
           zoneCall[c].result = "none",
           w = "ready" => zoneCall[c].pc = "ready", r \in Zones!Early => zoneCall[c].pc = "ready",
           r \notin {"refused", "settled"}, zoneCall[c].polled => w = "settle"
    PROVE  ZoneCallOK' /\ Goes(c)
<1>1. w \in Zones!PC \ {"lock", "done"}
    BY DEF Zones!PC
<1> QED
    BY <1>1, ZonePoll DEF Goes, Zones!Early

LEMMA ZoneReads ==
    ASSUME ZoneCallOK, ZonesOK, NEW c \in DOMAIN zonePlan, zoneCall[c].result = "none", Zones!WaitZoneReady(c),
           LookedInv
    PROVE  ZoneCallOK' /\ Goes(c)
<1>0. c \in Call /\ zonePlan[c].zone \in Zone /\ zonePlan[c] \in Zones!Plan
    BY ZonePlanType
<1>1. zoneCall[c].pc = "ready" /\ Rereads(c)
    BY DEF Zones!WaitZoneReady, Zones!At, Rereads
<1>2. ~zoneCall[c].polled
    BY <1>1 DEF LookedInv, LookedAt
<1>3. CASE Zones!Return(c, "absent")
    BY <1>0, <1>1, <1>3, ReturnGoes DEF Zones!Result, Zones!Early
<1>4. CASE Zones!Poll(c, "ready", "busy")
    BY <1>0, <1>1, <1>2, <1>4, PollGoes DEF Zones!Result, Zones!Early
<1>5. CASE /\ zoneCall' = [zoneCall EXCEPT ![c] = [@ EXCEPT !.pc = "send", !.reads = 0, !.body = Zones!Merged(c),
                                                  !.base = [text |-> Zones!Here(c).text, vpcs |-> Zones!Here(c).vpcs]]]
           /\ UNCHANGED holder
    <2> DEFINE base == [text |-> Zones!Here(c).text, vpcs |-> Zones!Here(c).vpcs]
    <2>1. Zones!Here(c) \in Zones!ZoneState /\ zoneCall[c] \in Zones!Local /\ 0 \in 0..MaxReads /\ "send" \in Zones!PC
        BY <1>0, Bounds DEF ZonesOK, ZoneCallOK, Zones!Here, Zones!PC
    <2>2. base \in Zones!Body /\ Zones!Merged(c) \in Zones!Body
        <3>1. Zones!Here(c).text \in Text /\ Zones!Here(c).vpcs \in SUBSET Vpc
            BY <2>1 DEF Zones!ZoneState
        <3>2. zonePlan[c].text \in Text \cup {None} /\ (zonePlan[c].vpcs \in SUBSET Vpc \/ zonePlan[c].vpcs = None)
            BY <1>0 DEF Zones!Plan
        <3>3. (IF zonePlan[c].vpcs = None THEN Zones!Here(c).vpcs ELSE zonePlan[c].vpcs) \in SUBSET Vpc
            BY <3>1, <3>2
        <3>4. (IF zonePlan[c].text = None THEN Zones!Here(c).text ELSE zonePlan[c].text) \in Text \cup {None}
            BY <3>1, <3>2
        <3> QED
            BY <3>1, <3>3, <3>4 DEF Zones!Body, Zones!Merged, base
    <2>3. [zoneCall[c] EXCEPT !.pc = "send", !.reads = 0, !.body = Zones!Merged(c), !.base = base] \in Zones!Local
        BY <2>1, <2>2 DEF Zones!Local
    <2>4. ZoneCallOK'
        BY <1>5, <2>3 DEF ZoneCallOK
    <2>5. /\ zoneCall'[c].pc = "send" /\ zoneCall'[c].result = "none" /\ zoneCall'[c].body = Zones!Merged(c)
          /\ zoneCall'[c].base = base /\ zoneCall'[c].polled = zoneCall[c].polled
          /\ \A d \in Call \ {c} : zoneCall'[d] = zoneCall[d]
        BY <1>0, <1>5, <2>1 DEF ZoneCallOK, Zones!Local
    <2>6. (Merges(c) /\ Zones!Fits(c))' /\ zoneCall'[c].body.text \in Text
        <3>1. zonePlan' = zonePlan /\ zone' = zone
            BY <1>1 DEF Rereads, Zones!service
        <3>2. Zones!Merged(c).text \in Text
            BY <1>0, <2>1 DEF Zones!Merged, Zones!Plan, Zones!ZoneState
        <3> QED
            BY <2>5, <3>1, <3>2 DEF Merges, Zones!Merged, Zones!Fits, Zones!Here, base
    <2> QED
        BY <1>0, <1>1, <1>2, <1>5, <2>4, <2>5, <2>6 DEF Goes, Turns, ZoneStays, Zones!Early
<1> QED
    BY <1>1, <1>3, <1>4, <1>5 DEF Zones!WaitZoneReady

\* A zone that is ACTIVE, and not under a lock still to be seen, is not locked.
LEMMA ActiveIdle ==
    ASSUME ZonesOK, ByInv, NEW c \in DOMAIN zonePlan, Zones!Here(c).status = "ACTIVE",
           ~(Zones!Here(c).hidden /\ Zones!Here(c).by = c)
    PROVE  Idle(c)
<1>1. ASSUME NEW z \in Zone, zone[z].by = c PROVE FALSE
    <2>1. c \in Call /\ c # None
        BY ZonePlanType, ZoneConstants
    <2>2. zone[z] = Zones!Here(c) /\ Working(z)
        BY <1>1, <2>1 DEF ByInv, Zones!Here
    <2> QED
        BY <1>1, <2>2 DEF Working
<1> QED
    BY <1>1 DEF Idle

LEMMA ZoneWaits ==
    ASSUME ZoneCallOK, ZonesOK, ByInv, LookedInv, NEW c \in DOMAIN zonePlan, zoneCall[c].result = "none",
           Zones!SettleZone(c) \/ Zones!SettleReadZone(c) \/ Zones!SettleRecord(c)
    PROVE  ZoneCallOK' /\ Goes(c)
<1>0. c \in Call /\ zoneCall[c] \in Zones!Local /\ Zones!Quiet
    BY ZonePlanType DEF Zones!SettleZone, Zones!SettleReadZone, Zones!SettleRecord, ZoneCallOK
<1>1. ASSUME NEW r \in {"notSettled", "failed"}, Zones!Return(c, r), zoneCall[c].pc # "done" PROVE ZoneCallOK' /\ Goes(c)
    BY <1>0, <1>1, ReturnGoes DEF Zones!Result, Zones!Early
<1>2. ASSUME Zones!Return(c, "settled"), Idle(c), zoneCall[c].pc # "done" PROVE ZoneCallOK' /\ Goes(c)
    BY <1>0, <1>2, ReturnGoes DEF Zones!Result, Zones!Early
<1>3. CASE Zones!SettleZone(c)
    <2>1. zoneCall[c].pc = "settle" /\ Zones!Slept(c) /\ Zones!Asked(c) \in Zones!ZoneOps
        BY <1>3 DEF Zones!SettleZone, Zones!At
    <2>2. CASE Zones!Poll(c, "settle", "notSettled")
        BY <1>0, <2>1, <2>2, PollGoes DEF Zones!Result, Zones!Early
    <2>3. CASE Zones!Here(c).status = "ACTIVE" /\ Zones!Return(c, "settled")
        <3>1. ~(Zones!Here(c).hidden /\ Zones!Here(c).by = c)
            BY <1>0, <2>1, ZonePlanType DEF ByInv, Zones!Here, Zones!ZoneOps, Zones!RecordOps
        <3> QED
            BY <1>2, <2>1, <2>3, <3>1, ActiveIdle
    <2> QED
        BY <1>1, <1>3, <2>1, <2>2, <2>3 DEF Zones!SettleZone
<1>4. CASE Zones!SettleReadZone(c)
    <2>1. zoneCall[c].pc = "settle" /\ Zones!Slept(c) /\ Zones!Asked(c) \in Zones!RecordOps
        BY <1>4 DEF Zones!SettleReadZone, Zones!At
    <2>2. CASE Zones!Return(c, "notSettled")
        BY <1>1, <2>1, <2>2
    <2>3. CASE /\ zoneCall' = [zoneCall EXCEPT ![c] = [@ EXCEPT !.pc = "settleRecord",
                                              !.shown = IF Zones!Here(c).status \in {"ACTIVE", "ERROR"}
                                                        THEN Zones!Here(c).status ELSE "other"]]
               /\ UNCHANGED holder
        <3> DEFINE shown == IF Zones!Here(c).status \in {"ACTIVE", "ERROR"} THEN Zones!Here(c).status ELSE "other"
        <3>1. shown \in {"none", "ACTIVE", "ERROR", "other"} /\ "settleRecord" \in Zones!PC
            BY DEF Zones!PC, shown
        <3>2. ZoneCallOK'
            BY <1>0, <2>3, <3>1 DEF ZoneCallOK, Zones!Local, shown
        <3>3. /\ zoneCall'[c].pc = "settleRecord" /\ zoneCall'[c].shown = shown /\ zoneCall'[c].reads = zoneCall[c].reads
              /\ zoneCall'[c].result = "none" /\ zoneCall'[c].polled = zoneCall[c].polled /\ SameBody(c)
              /\ \A d \in Call \ {c} : zoneCall'[d] = zoneCall[d]
            BY <1>0, <2>3 DEF ZoneCallOK, Zones!Local, shown, SameBody
        <3>4. shown = "ACTIVE" /\ zoneCall[c].reads > 0 => Idle(c)
            BY <2>1, ActiveIdle DEF Zones!Slept, shown
        <3>5. zoneCall[c].polled => zoneCall[c].reads > 0
            BY DEF LookedInv, LookedAt
        <3> HIDE DEF shown
        <3> QED
            BY <1>0, <2>1, <2>3, <3>2, <3>3, <3>4, <3>5 DEF Goes, Turns, ZoneStays, Zones!Early
    <2> QED
        BY <1>4, <2>2, <2>3 DEF Zones!SettleReadZone
<1>5. CASE Zones!SettleRecord(c)
    <2>1. zoneCall[c].pc = "settleRecord"
        BY <1>5 DEF Zones!SettleRecord, Zones!At
    <2>2. CASE Zones!SettledRecord(c) /\ Zones!Return(c, "settled")
        <3>1. c \in zoneRaced \/ Idle(c)
            <4>1. ASSUME Zones!Asked(c) = "updateRecord" PROVE c \in zoneRaced \/ Idle(c)
                BY <2>1, <2>2, <4>1 DEF Zones!SettledRecord, LookedInv, LookedAt
            <4>2. ASSUME Zones!Asked(c) # "updateRecord", NEW z \in Zone, zone[z].by = c, zoneCall[c].pc = "settleRecord"
                  PROVE  Zones!Asked(c) \notin Zones!RecordOps
                BY <1>0, <2>2, <4>2 DEF Zones!SettledRecord, ByInv, Zones!RecordOps, Zones!DeleteOps
            <4> QED
                BY <2>1, <4>1, <4>2 DEF Idle, LookedInv, LookedAt
        <3> QED
            BY <1>0, <2>1, <2>2, <3>1, ReturnGoes
               DEF Zones!Result, Zones!Early, Zones!Quiet, Zones!history
    <2>3. CASE /\ zoneCall[c].reads < MaxReads
               /\ zoneCall' = [zoneCall EXCEPT ![c] = [@ EXCEPT !.pc = "settle", !.shown = "none", !.reads = zoneCall[c].reads + 1,
                                                      !.polled = zoneCall[c].polled \/ zoneCall[c].shown = "ACTIVE"]]
               /\ UNCHANGED holder
        <3> DEFINE polled == zoneCall[c].polled \/ zoneCall[c].shown = "ACTIVE"
        <3>1. zoneCall[c].reads + 1 \in 0..MaxReads /\ zoneCall[c].reads + 1 > 0 /\ polled \in BOOLEAN /\ "settle" \in Zones!PC
            BY <1>0, <2>3, Bounds DEF Zones!Local, Zones!PC
        <3> HIDE DEF polled
        <3>2. zoneCall' = [zoneCall EXCEPT ![c] = [@ EXCEPT !.pc = "settle", !.shown = "none",
                                                   !.reads = zoneCall[c].reads + 1, !.polled = polled]]
            BY <2>3 DEF polled
        <3>3. ZoneCallOK'
            BY <1>0, <3>1, <3>2 DEF ZoneCallOK, Zones!Local
        <3>4. /\ zoneCall'[c].pc = "settle" /\ zoneCall'[c].reads = zoneCall[c].reads + 1 /\ zoneCall'[c].result = "none"
              /\ SameBody(c) /\ \A d \in Call \ {c} : zoneCall'[d] = zoneCall[d]
            BY <1>0, <3>2 DEF ZoneCallOK, Zones!Local, SameBody
        <3> QED
            BY <1>0, <2>1, <2>3, <3>1, <3>3, <3>4 DEF Goes, Turns, ZoneStays, Zones!Early
    <2> QED
        BY <1>1, <1>5, <2>1, <2>2, <2>3 DEF Zones!SettleRecord
<1> QED
    BY <1>3, <1>4, <1>5

\* The steps of a call that leave no request at the service.
ZoneQuiet(c) == \/ Zones!LockWrite(c) \/ Zones!WaitZoneReady(c) \/ Zones!Refused(c) \/ Zones!NotTaken(c) \/ Zones!Break(c) \/ Zones!Confirm(c)
                \/ Zones!SettleZone(c) \/ Zones!SettleReadZone(c) \/ Zones!SettleRecord(c)
                \/ Zones!WaitZoneGone(c) \/ Zones!WaitRecordGone(c)

LEMMA ZoneQuietSteps ==
    ASSUME ZoneCallOK, ZonesOK, ByInv, LookedInv, NEW c \in DOMAIN zonePlan, zoneCall[c].result = "none", ZoneQuiet(c)
    PROVE  ZoneCallOK' /\ Goes(c)
<1>0. c \in Call /\ zoneCall[c] \in Zones!Local
    BY ZonePlanType DEF ZoneCallOK
<1>1. CASE Zones!LockWrite(c)
    <2> DEFINE w == IF Zones!Asked(c) = "createZone" THEN "send" ELSE "ready"
    <2>1. w \in Zones!PC \ {"lock", "done"}
        BY DEF Zones!PC
    <2>2. /\ zoneCall' = [zoneCall EXCEPT ![c].pc = w] /\ zoneCall[c].pc = "lock" /\ holder[ClientOf[c]] = None
          /\ holder' = [holder EXCEPT ![ClientOf[c]] = c] /\ Zones!Quiet
        BY <1>1 DEF Zones!LockWrite, Zones!At
    <2>3. w = "send" => Zones!Asked(c) = "createZone"
        OBVIOUS
    <2>4. ~zoneCall[c].polled
        BY <2>2 DEF LookedInv, LookedAt
    <2> HIDE DEF w
    <2>5. /\ ZoneCallOK' /\ zoneCall'[c].pc = w /\ zoneCall'[c].result = "none" /\ ~zoneCall'[c].polled
          /\ SameBody(c) /\ \A d \in Call \ {c} : zoneCall'[d] = zoneCall[d]
        BY <1>0, <2>1, <2>2, <2>4 DEF ZoneCallOK, Zones!Local, SameBody
    <2> QED
        BY <1>0, <2>1, <2>2, <2>3, <2>5 DEF Goes, Turns, Zones!Early, w
<1>2. CASE Zones!Refused(c)
    BY <1>0, <1>2, ReturnGoes DEF Zones!Refused, Zones!At, Zones!Result, Zones!Early
<1>3. CASE Zones!NotTaken(c)
    <2>1. zoneCall[c].pc = "send" /\ Zones!Quiet /\ Zones!Fail(c) /\ ~zoneCall[c].polled
        BY <1>3 DEF Zones!NotTaken, Zones!At, LookedInv, LookedAt
    <2> QED
        BY <1>0, <2>1, ZoneFail DEF Goes, Zones!Early
<1>4. CASE Zones!Break(c)
    <2>1. ASSUME NEW r \in {"canceled", "failedRead", "notSettled"}, Zones!Return(c, r), zoneCall[c].pc # "done", Zones!Quiet,
                 r \in Zones!Early => zoneCall[c].pc \in {"lock", "ready"}
          PROVE  ZoneCallOK' /\ Goes(c)
        BY <1>0, <2>1, ReturnGoes DEF Zones!Result, Zones!Early
    <2> QED
        BY <1>4, <2>1 DEF Zones!Break, Zones!At, Zones!Early
<1>5. CASE Zones!Confirm(c)
    <2>1. \E r \in {"notSettled", "accepted"} : Zones!Return(c, r)
        BY <1>5 DEF Zones!Confirm
    <2> QED
        BY <1>0, <1>5, <2>1, ReturnGoes DEF Zones!Confirm, Zones!At, Zones!Result, Zones!Early
<1>6. CASE Zones!WaitZoneGone(c) \/ Zones!WaitRecordGone(c)
    <2>1. zoneCall[c].pc = "gone" /\ Zones!Quiet /\ Zones!Asked(c) \in Zones!DeleteOps /\ ~zoneCall[c].polled
        BY <1>6
           DEF Zones!WaitZoneGone, Zones!WaitRecordGone, Zones!At, Zones!DeleteOps, LookedInv, LookedAt
    <2>2. CASE Zones!Return(c, "settled")
        <3>1. Idle(c)
            BY <1>0, <2>1 DEF ByInv, Idle
        <3> QED
            BY <1>0, <2>1, <2>2, <3>1, ReturnGoes DEF Zones!Result, Zones!Early
    <2>3. CASE Zones!Poll(c, "gone", "notSettled")
        BY <1>0, <2>1, <2>3, PollGoes DEF Zones!Result, Zones!Early
    <2> QED
        BY <1>6, <2>2, <2>3 DEF Zones!WaitZoneGone, Zones!WaitRecordGone, Zones!Gone
<1> QED
    BY <1>1, <1>2, <1>3, <1>4, <1>5, <1>6, ZoneReads, ZoneWaits DEF ZoneQuiet

-----------------------------------------------------------------------------
ZoneInv ==
    /\ ZoneCallOK /\ ZonesOK /\ ZoneAskedInv /\ TurnInv /\ UntouchedInv
    /\ MergedInv /\ ByInv /\ LookedInv /\ zoneMisfit = {}

LEMMA HolderType ==
    ASSUME ZonesOK, NEW c \in Call, Turns(c)
    PROVE  holder' \in [Client -> Call \cup {None}]
BY DEF Turns, ZoneStays, ZoneLeaves, ZonesOK

LEMMA TurnKept ==
    ASSUME ZonesOK, TurnInv, NEW c \in Call, Turns(c)
    PROVE  TurnInv'
<1>1. \A d \in Call : d # None /\ ClientOf[d] \in Client
    BY ZoneConstants
<1>2. ASSUME NEW d \in Call, zoneCall'[d].pc \notin {"lock", "done"} PROVE holder'[ClientOf[d]] = d
    <2>1. CASE d = c
        BY <1>1, <1>2, <2>1 DEF Turns, ZoneStays, ZoneLeaves, TurnInv, ZonesOK
    <2>2. CASE d # c
        <3>1. holder[ClientOf[d]] = d
            BY <1>2, <2>2 DEF Turns, TurnInv
        <3> QED
            BY <1>1, <2>2, <3>1 DEF Turns, ZoneStays, ZoneLeaves, ZonesOK
    <2> QED
        BY <2>1, <2>2
<1> QED
    BY <1>2 DEF TurnInv

LEMMA GoesKept ==
    ASSUME ZoneInv, NEW c \in DOMAIN zonePlan, Goes(c), ZoneCallOK'
    PROVE  ZoneInv'
<1>0. c \in Call /\ DOMAIN zonePlan \subseteq Call
    BY ZonePlanType DEF ZoneInv
<1>1. /\ zonePlan' = zonePlan /\ zone' = zone /\ record' = record /\ zoneLate' = zoneLate /\ zoneActed' = zoneActed /\ zoneMisfit' = zoneMisfit
      /\ zoneRaced' \subseteq zoneRaced /\ \A d \in DOMAIN zonePlan \ {c} : d \in zoneRaced <=> d \in zoneRaced'
      /\ zoneCall[c].pc # "ready" => zoneRaced' = zoneRaced
    BY DEF Goes, Zones!Quiet, Rereads, Zones!service, Zones!history
<1>2. \A d \in Call \ {c} : zoneCall'[d] = zoneCall[d]
    BY DEF Goes, Turns
<1>3. ZonesOK'
    BY <1>0, <1>1, HolderType DEF ZoneInv, ZonesOK, Goes
<1>4. ZoneAskedInv' /\ TurnInv'
    BY <1>0, <1>1, <1>2, TurnKept DEF ZoneInv, ZoneAskedInv, Goes
<1>5. ASSUME NEW d \in DOMAIN zonePlan, d # c
      PROVE  UntouchedAt(d)' /\ MergedAt(d)' /\ LookedAt(d)'
    <2>1. UntouchedAt(d) /\ MergedAt(d) /\ LookedAt(d) /\ zoneCall'[d] = zoneCall[d]
        BY <1>0, <1>2, <1>5 DEF ZoneInv, UntouchedInv, MergedInv, LookedInv
    <2>2. UntouchedAt(d)'
        BY <1>1, <2>1 DEF UntouchedAt, Untouched, Zones!Asked
    <2>3. MergedAt(d)'
        BY <1>1, <1>5, <2>1 DEF MergedAt, Merges, Zones!Fits, Zones!Asked, Zones!Here
    <2>4. LookedAt(d)'
        BY <1>1, <1>5, <2>1 DEF LookedAt, Idle, Zones!Asked
    <2> QED
        BY <2>2, <2>3, <2>4
<1>6. UntouchedAt(c)'
    BY <1>1
       DEF ZoneInv, UntouchedInv, UntouchedAt, Untouched, Zones!Asked, Goes, Turns, Zones!CreateOps,
                Zones!Early
<1>7. MergedAt(c)'
    <2>1. MergedAt(c)
        BY DEF ZoneInv, MergedInv
    <2>2. CASE zoneCall[c].pc = "ready"
        <3>1. c \notin zoneLate
            BY <2>2 DEF ZoneInv, UntouchedInv, UntouchedAt, Untouched
        <3> QED
            BY <1>1, <2>2, <3>1 DEF MergedAt, Goes
    <2>3. CASE zoneCall[c].pc # "ready"
        <3>1. SameBody(c) /\ zoneRaced' = zoneRaced /\ (zoneCall'[c].pc = "send" /\ Zones!Asked(c) = "updateZone" => zoneCall[c].pc = "send")
            BY <1>1, <2>3 DEF Goes
        <3> QED
            BY <1>1, <2>1, <3>1 DEF MergedAt, Merges, Zones!Fits, Zones!Asked, Zones!Here, SameBody
    <2> QED
        BY <2>2, <2>3
<1>8. LookedAt(c)'
    BY <1>1 DEF LookedAt, Idle, Zones!Asked, Goes
<1>9. ByInv'
    BY <1>1 DEF ZoneInv, ByInv, Working, Zones!Asked, Zones!There
<1> QED
    BY <1>1, <1>3, <1>4, <1>5, <1>6, <1>7, <1>8, <1>9 DEF ZoneInv, UntouchedInv, MergedInv, LookedInv

-----------------------------------------------------------------------------
\* A step of a call whose request may have reached the service.
Sends(c) ==
    /\ Turns(c) /\ SameBody(c) /\ zoneCall[c].pc = "send"
    /\ zoneCall'[c].pc \notin {"lock", "ready", "settleRecord"} /\ ~zoneCall'[c].polled
    /\ zoneCall'[c].pc # "done" => zoneCall'[c].result = zoneCall[c].result
    /\ zoneCall'[c].result \notin Zones!Early \cup {"refused", "settled"}
    /\ zoneCall'[c].pc = "send" => Zones!Asked(c) \notin Zones!CreateOps

LEMMA SendsStep ==
    ASSUME ZoneInv, NEW c \in DOMAIN zonePlan, zoneCall[c].pc = "send", Zones!Succeed(c) \/ Zones!Fail(c)
    PROVE  ZoneCallOK' /\ Sends(c)
<1>0. c \in Call /\ ZoneCallOK /\ ~zoneCall[c].polled /\ zoneCall[c].result = "none"
    BY ZonePlanType DEF ZoneInv, LookedInv, LookedAt, UntouchedInv, UntouchedAt
<1>1. ASSUME NEW r \in {"ambiguous", "accepted"}, Zones!Return(c, r) PROVE ZoneCallOK' /\ Sends(c)
    BY <1>0, <1>1, ZoneReturn DEF Sends, Zones!Result, Zones!Early
<1>2. ASSUME NEW w \in {"confirm", "gone", "settle"}, Zones!Goto(c, w) PROVE ZoneCallOK' /\ Sends(c)
    <2>1. w \in Zones!PC \ {"lock", "done"}
        BY DEF Zones!PC
    <2> QED
        BY <1>0, <1>2, <2>1, ZoneGoto DEF Sends, Zones!Early
<1>3. CASE Zones!Fail(c)
    BY <1>0, <1>3, ZoneFail DEF Sends, Zones!Early
<1> QED
    BY <1>1, <1>2, <1>3 DEF Zones!Succeed, Zones!Settles

\* What the service does of a call: it changes the zone and the record of the
\* call alone, and locks no zone for another.
LEMMA ZoneActType ==
    ASSUME ZoneInv, NEW c \in DOMAIN zonePlan, zoneCall[c].pc = "send" \/ c \in zoneLate, Zones!Act(c)
    PROVE  zone' \in [Zone -> Zones!ZoneState] /\ record' \in [Record -> Zones!RecordState]
<1> DEFINE y == zonePlan[c].zone
           r == zonePlan[c].record
<1>0. /\ c \in Call /\ y \in Zone /\ r \in Record /\ zonePlan[c] \in Zones!Plan
      /\ zone[y] \in Zones!ZoneState /\ record[r] \in Zones!RecordState /\ zoneCall[c].body \in Zones!Body
      /\ zone \in [Zone -> Zones!ZoneState] /\ record \in [Record -> Zones!RecordState]
    BY ZonePlanType DEF ZoneInv, ZonesOK, ZoneCallOK, Zones!Local
<1>1. CASE Zones!Asked(c) = "createZone"
    <2>1. zonePlan[c].text \in Text /\ zonePlan[c].vpcs \in SUBSET Vpc
        BY <1>1, ZonePlanType DEF ZoneInv
    <2>2. [status |-> "CREATING", text |-> zonePlan[c].text, vpcs |-> zonePlan[c].vpcs, by |-> c, hidden |-> FALSE] \in Zones!ZoneState
        BY <1>0, <2>1 DEF Zones!ZoneState
    <2> QED
        BY <1>0, <1>1, <2>2 DEF Zones!Act, Zones!Apply
<1>2. CASE Zones!Asked(c) = "updateZone"
    <2>1. zoneCall[c].body.text \in Text /\ zoneCall[c].body.vpcs \in SUBSET Vpc
        BY <1>0, <1>2 DEF ZoneInv, MergedInv, MergedAt, Zones!Body
    <2>2. Zones!UpdateZone(c) /\ record' = record /\ Zones!Here(c) = zone[y]
        BY <1>2 DEF Zones!Act, Zones!Apply, Zones!Here
    <2>3. PICK status \in {"UPDATING", zone[y].status}, by \in {c, zone[y].by} :
            zone' = [zone EXCEPT ![y] = [zone[y] EXCEPT !.text = zoneCall[c].body.text, !.vpcs = zoneCall[c].body.vpcs,
                                                        !.status = status, !.by = by]]
        BY <2>2 DEF Zones!UpdateZone
    <2>4. status \in {"CREATING", "ACTIVE", "UPDATING", "ERROR", "DELETING", "GONE"} /\ by \in Call \cup {None}
        BY <1>0 DEF Zones!ZoneState
    <2> QED
        BY <1>0, <2>1, <2>2, <2>3, <2>4 DEF Zones!ZoneState
<1>3. CASE Zones!Asked(c) \in {"deleteZone", "deleteRecord"}
    BY <1>0, <1>3 DEF Zones!Act, Zones!Apply, Zones!ZoneState, Zones!RecordState
<1>4. CASE Zones!Asked(c) \in {"createRecord", "updateRecord"}
    <2>1. zonePlan[c].text \in Text \cup {None}
        BY <1>0 DEF Zones!Plan
    <2>2. zone' = [zone EXCEPT ![y] = [zone[y] EXCEPT !.by = c, !.hidden = TRUE]]
        BY <1>0, <1>4 DEF Zones!Act, Zones!Apply
    <2>3. record' = [record EXCEPT ![r] = [status |-> IF Zones!Asked(c) = "createRecord" THEN "CREATING" ELSE record[r].status,
                                          text |-> IF zonePlan[c].text = None THEN record[r].text ELSE zonePlan[c].text]]
        BY <1>0, <1>4 DEF Zones!Act, Zones!Apply
    <2> QED
        BY <1>0, <2>1, <2>2, <2>3 DEF Zones!ZoneState, Zones!RecordState
<1> QED
    BY <1>0, <1>1, <1>2, <1>3, <1>4 DEF Zones!Plan, Zones!ZoneOps, Zones!RecordOps, Zones!Asked

\* What an act leaves of the zones' locks and of the records being created.
LEMMA ActBy ==
    ASSUME ZoneInv, NEW c \in DOMAIN zonePlan, Zones!Act(c)
    PROVE  /\ \A z \in Zone : zone'[z].by \in {zone[z].by, c}
           /\ \A z \in Zone : z # zonePlan[c].zone => zone'[z] = zone[z]
           /\ ByInv'
<1> DEFINE y == zonePlan[c].zone
           r == zonePlan[c].record
<1>0. /\ c \in Call /\ c # None /\ y \in Zone /\ r \in Record /\ zonePlan' = zonePlan
      /\ zone[y] \in Zones!ZoneState /\ record[r] \in Zones!RecordState
      /\ zone \in [Zone -> Zones!ZoneState] /\ record \in [Record -> Zones!RecordState]
    BY ZonePlanType, ZoneConstants DEF ZoneInv, ZonesOK, Zones!Act
<1>1. \A d \in Call, z \in Zone : zone[z].by = d => d \in DOMAIN zonePlan /\ zonePlan[d].record \in Record
    BY ZonePlanType DEF ZoneInv, ByInv
<1>2. Zones!Here(c) = zone[y] /\ Zones!There(c) = record[r] /\ zonePlan[c] \in Zones!Plan
    BY ZonePlanType DEF Zones!Here, Zones!There, ZoneInv
<1> HIDE DEF y, r
<1>a. ASSUME \A z \in Zone : z # y => zone'[z] = zone[z],
             \A s \in Record : s # r => record'[s] = record[s],
             record[r].status = "CREATING" => record'[r].status = "CREATING",
             /\ zone'[y].by # None <=> zone'[y].hidden \/ zone'[y].status \in {"CREATING", "UPDATING"}
             /\ zone'[y].hidden => zone'[y].status \in {"ACTIVE", "ERROR"},
             zone'[y].by \in {zone[y].by, c},
             zone'[y].by = c => /\ Zones!Asked(c) \notin Zones!DeleteOps
                                /\ zone'[y].hidden => Zones!Asked(c) \in Zones!RecordOps
                                /\ Zones!Asked(c) = "createRecord" => record'[r].status = "CREATING",
             zone'[y].by # c => zone'[y].hidden = zone[y].hidden
      PROVE  ByInv'
    <2>1. ASSUME NEW z \in Zone
          PROVE  /\ zone'[z].by # None <=> Working(z)'
                 /\ zone'[z].hidden => zone'[z].status \in {"ACTIVE", "ERROR"}
        <3>1. CASE z = y
            BY <1>a, <3>1 DEF Working
        <3>2. CASE z # y
            BY <1>a, <3>2 DEF Working, ZoneInv, ByInv
        <3> QED
            BY <3>1, <3>2
    <2>2. ASSUME NEW z \in Zone, NEW d \in Call, zone'[z].by = d
          PROVE  /\ d \in DOMAIN zonePlan /\ zonePlan[d].zone = z /\ Zones!Asked(d) \notin Zones!DeleteOps
                 /\ zone'[z].hidden => Zones!Asked(d) \in Zones!RecordOps
                 /\ Zones!Asked(d) = "createRecord" => record'[zonePlan[d].record].status = "CREATING"
        <3>1. CASE z = y /\ d = c
            BY <1>a, <2>2, <3>1 DEF y, r
        <3>2. CASE ~(z = y /\ d = c)
            <4>1. zone[z].by = d /\ zone'[z].hidden = zone[z].hidden
                BY <1>a, <2>2, <3>2
            <4> QED
                BY <1>1, <1>a, <4>1 DEF ZoneInv, ByInv, Zones!There
        <3> QED
            BY <3>1, <3>2
    <2>3. \A d : Zones!Asked(d)' = Zones!Asked(d) /\ Zones!There(d)' = record'[zonePlan[d].record]
        BY <1>0 DEF Zones!Asked, Zones!There
    <2> HIDE DEF Zones!Asked, Zones!There, Working
    <2> QED
        BY <1>0, <2>1, <2>2, <2>3 DEF ByInv
<1>b. /\ zone[y].by # None <=> Working(y)
      /\ zone[y].hidden => zone[y].status \in {"ACTIVE", "ERROR"}
      /\ zone[y].by = c => /\ Zones!Asked(c) \notin Zones!DeleteOps
                           /\ zone[y].hidden => Zones!Asked(c) \in Zones!RecordOps
                           /\ Zones!Asked(c) = "createRecord" => record[r].status = "CREATING"
    BY <1>0, <1>2 DEF ZoneInv, ByInv
<1>3. CASE Zones!Asked(c) = "createZone"
    <2>1. /\ zone' = [zone EXCEPT ![y] = [status |-> "CREATING", text |-> zonePlan[c].text,
                                         vpcs |-> zonePlan[c].vpcs, by |-> c, hidden |-> FALSE]]
          /\ record' = record
        BY <1>3 DEF Zones!Act, Zones!Apply, y
    <2> QED
        BY <1>0, <1>3, <1>a, <2>1 DEF Working, y, Zones!DeleteOps
<1>4. CASE Zones!Asked(c) = "updateZone"
    <2>1. Zones!UpdateZone(c) /\ record' = record /\ Zones!Free(c)
        BY <1>4 DEF Zones!Act, Zones!Apply, Zones!Acceptable
    <2>2. /\ \A z \in Zone : z # y => zone'[z] = zone[z]
          /\ zone'[y].hidden = zone[y].hidden
          /\ \/ zone'[y].by = c /\ zone'[y].status = "UPDATING"
             \/ zone'[y].by = zone[y].by /\ zone'[y].status = zone[y].status
        BY <1>0, <1>2, <2>1 DEF Zones!UpdateZone, y, Zones!ZoneState
    <2>3. zone[y].by = None /\ ~zone[y].hidden
        BY <1>2, <1>b, <2>1 DEF Zones!Free, Working
    <2> QED
        BY <1>0, <1>4, <1>a, <1>b, <2>1, <2>2, <2>3 DEF Working, y, Zones!DeleteOps
<1>5. CASE Zones!Asked(c) = "deleteZone"
    <2>1. zone' = [zone EXCEPT ![y].status = "DELETING"] /\ record' = record /\ Zones!Free(c)
        BY <1>5 DEF Zones!Act, Zones!Apply, Zones!Acceptable, y
    <2>2. zone[y].by = None /\ ~zone[y].hidden
        BY <1>2, <1>b, <2>1 DEF Zones!Free, Working
    <2>3. zone'[y].by = None /\ ~zone'[y].hidden /\ zone'[y].status = "DELETING"
        BY <1>0, <2>1, <2>2 DEF Zones!ZoneState
    <2> QED
        BY <1>0, <1>5, <1>a, <2>1, <2>2, <2>3 DEF Working, y
<1>6. CASE Zones!Asked(c) = "deleteRecord"
    <2>1. record' = [record EXCEPT ![r].status = "DELETING"] /\ zone' = zone /\ Zones!There(c).status \in {"ACTIVE", "ERROR"}
        BY <1>6 DEF Zones!Act, Zones!Apply, Zones!Acceptable, r
    <2> QED
        BY <1>0, <1>2, <1>6, <1>a, <1>b, <2>1 DEF Working, y
<1>7. CASE Zones!Asked(c) \in {"createRecord", "updateRecord"}
    <2>1. zone' = [zone EXCEPT ![y] = [zone[y] EXCEPT !.by = c, !.hidden = TRUE]]
        BY <1>0, <1>7 DEF Zones!Act, Zones!Apply, y
    <2>2. record' = [record EXCEPT ![r] = [status |-> IF Zones!Asked(c) = "createRecord" THEN "CREATING" ELSE record[r].status,
                                          text |-> IF zonePlan[c].text = None THEN record[r].text ELSE zonePlan[c].text]]
        BY <1>0, <1>7 DEF Zones!Act, Zones!Apply, r
    <2>3. zone[y].status \in {"ACTIVE", "ERROR"}
        BY <1>2, <1>7 DEF Zones!Act, Zones!Acceptable, Zones!Free
    <2>4. zone'[y].by = c /\ zone'[y].hidden /\ zone'[y].status = zone[y].status
        BY <1>0, <2>1 DEF Zones!ZoneState
    <2> QED
        BY <1>0, <1>7, <1>a, <2>1, <2>2, <2>3, <2>4 DEF Working, y, Zones!DeleteOps, Zones!RecordOps
<1> QED
    BY <1>2, <1>3, <1>4, <1>5, <1>6, <1>7 DEF Zones!Plan, Zones!ZoneOps, Zones!RecordOps, Zones!Asked

\* What the service's part of an accepted request leaves of the invariants.
LEMMA AcceptedKept ==
    ASSUME ZoneInv, NEW c \in DOMAIN zonePlan, Zones!Accepted(c)
    PROVE  ZoneInv'
<1>0. /\ c \in Call /\ DOMAIN zonePlan \subseteq Call /\ zoneCall[c].pc = "send" /\ Zones!Act(c)
      /\ zonePlan' = zonePlan /\ zoneLate' = zoneLate /\ zoneActed' = zoneActed \cup {c} /\ zoneRaced' = zoneRaced \cup Zones!Others(c)
    BY ZonePlanType DEF Zones!Accepted, Zones!Act, Zones!At, ZoneInv
<1>1. ZoneCallOK' /\ Sends(c)
    BY <1>0, SendsStep DEF Zones!Accepted
<1>2. \A d \in Call \ {c} : zoneCall'[d] = zoneCall[d]
    BY <1>1 DEF Sends, Turns
<1>3. /\ zone' \in [Zone -> Zones!ZoneState] /\ record' \in [Record -> Zones!RecordState]
    BY <1>0, ZoneActType
<1>4. ByInv' /\ \A z \in Zone : zone'[z].by \in {zone[z].by, c}
    BY <1>0, ActBy
<1>5. zoneMisfit' = {}
    <2>1. MergedAt(c)
        BY DEF ZoneInv, MergedInv
    <2>2. Zones!Fits(c) \/ c \in zoneRaced
        BY <1>0, <2>1 DEF MergedAt, Zones!Fits
    <2> QED
        BY <2>2 DEF Zones!Accepted, ZoneInv
<1>6. ZonesOK'
    BY <1>0, <1>1, <1>3, <1>5, HolderType DEF ZoneInv, ZonesOK, Sends, Zones!Others
<1>7. ZoneAskedInv' /\ TurnInv'
    BY <1>0, <1>1, <1>2, TurnKept DEF ZoneInv, ZoneAskedInv, Sends
<1>8. ASSUME NEW d \in DOMAIN zonePlan, d # c
      PROVE  UntouchedAt(d)' /\ MergedAt(d)' /\ LookedAt(d)'
    <2>1. UntouchedAt(d) /\ MergedAt(d) /\ LookedAt(d) /\ zoneCall'[d] = zoneCall[d] /\ d \in Call
        BY <1>0, <1>2, <1>8 DEF ZoneInv, UntouchedInv, MergedInv, LookedInv
    <2>2. UntouchedAt(d)'
        BY <1>0, <1>8, <2>1 DEF UntouchedAt, Untouched, Zones!Asked
    <2>3. MergedAt(d)'
        <3>1. zoneCall[d].pc = "send" => d \in zoneRaced'
            BY <1>0, <1>8, <2>1 DEF ZoneInv, TurnInv, Zones!Others
        <3> QED
            BY <1>0, <2>1, <3>1 DEF MergedAt, Merges, Zones!Asked
    <2>4. LookedAt(d)'
        BY <1>0, <1>4, <1>8, <2>1 DEF LookedAt, Idle, Zones!Asked
    <2> QED
        BY <2>2, <2>3, <2>4
<1>9. UntouchedAt(c)'
    BY <1>0, <1>1 DEF ZoneInv, UntouchedInv, UntouchedAt, Untouched, Zones!Asked, Sends, Turns
<1>10. MergedAt(c)'
    <2>1. MergedAt(c) /\ zonePlan[c].zone \in Zone
        BY ZonePlanType DEF ZoneInv, MergedInv
    <2>2. ASSUME Zones!Asked(c) = "updateZone"
          PROVE  zone'[zonePlan[c].zone].text = zoneCall[c].body.text /\ zone'[zonePlan[c].zone].vpcs = zoneCall[c].body.vpcs
        <3>1. Zones!UpdateZone(c) /\ zone[zonePlan[c].zone] \in Zones!ZoneState
            BY <1>0, <2>1, <2>2 DEF Zones!Act, Zones!Apply, ZoneInv, ZonesOK
        <3> QED
            BY <2>1, <3>1 DEF Zones!UpdateZone, ZoneInv, ZonesOK, Zones!ZoneState
    <2> QED
        BY <1>0, <1>1, <2>1, <2>2
           DEF MergedAt, Merges, Zones!Fits, Zones!Asked, Zones!Here, Sends, SameBody
<1>11. LookedAt(c)'
    BY <1>1 DEF LookedAt, Sends
<1> QED
    BY <1>0, <1>1, <1>4, <1>5, <1>6, <1>7, <1>8, <1>9, <1>10, <1>11
       DEF ZoneInv, UntouchedInv, MergedInv,
           LookedInv

LEMMA OutlivesKept ==
    ASSUME ZoneInv, NEW c \in DOMAIN zonePlan, Zones!Outlives(c)
    PROVE  ZoneInv'
<1>0. /\ c \in Call /\ DOMAIN zonePlan \subseteq Call /\ zoneCall[c].pc = "send"
      /\ zonePlan' = zonePlan /\ zone' = zone /\ record' = record /\ zoneLate' = zoneLate \cup {c}
      /\ zoneActed' = zoneActed /\ zoneRaced' = zoneRaced /\ zoneMisfit' = zoneMisfit
    BY ZonePlanType DEF Zones!Outlives, Zones!At, ZoneInv, Zones!service, Zones!history
<1>1. ZoneCallOK' /\ Sends(c)
    BY <1>0, SendsStep DEF Zones!Outlives
<1>2. \A d \in Call \ {c} : zoneCall'[d] = zoneCall[d]
    BY <1>1 DEF Sends, Turns
<1>3. ZonesOK' /\ ZoneAskedInv' /\ TurnInv' /\ ByInv'
    <2>1. ZonesOK'
        BY <1>0, <1>1, HolderType DEF ZoneInv, ZonesOK, Sends
    <2>2. ZoneAskedInv' /\ TurnInv'
        BY <1>0, <1>1, <1>2, TurnKept DEF ZoneInv, ZoneAskedInv, Sends
    <2>3. ByInv'
        BY <1>0 DEF ZoneInv, ByInv, Working, Zones!Asked, Zones!There
    <2> QED
        BY <2>1, <2>2, <2>3
<1>4. ASSUME NEW d \in DOMAIN zonePlan, d # c
      PROVE  UntouchedAt(d)' /\ MergedAt(d)' /\ LookedAt(d)'
    <2>1. UntouchedAt(d) /\ MergedAt(d) /\ LookedAt(d) /\ zoneCall'[d] = zoneCall[d]
        BY <1>0, <1>2, <1>4 DEF ZoneInv, UntouchedInv, MergedInv, LookedInv
    <2>2. UntouchedAt(d)'
        BY <1>0, <1>4, <2>1 DEF UntouchedAt, Untouched, Zones!Asked
    <2>3. MergedAt(d)'
        BY <1>0, <1>4, <2>1 DEF MergedAt, Merges, Zones!Fits, Zones!Asked, Zones!Here
    <2>4. LookedAt(d)'
        BY <1>0, <2>1 DEF LookedAt, Idle, Zones!Asked
    <2> QED
        BY <2>2, <2>3, <2>4
<1>5. UntouchedAt(c)'
    BY <1>0, <1>1 DEF ZoneInv, UntouchedInv, UntouchedAt, Untouched, Zones!Asked, Sends, Turns
<1>6. MergedAt(c)'
    BY <1>0, <1>1
       DEF ZoneInv, MergedInv, MergedAt, Merges, Zones!Fits, Zones!Asked, Zones!Here, Sends, SameBody
<1>7. LookedAt(c)'
    BY <1>1 DEF LookedAt, Sends
<1> QED
    BY <1>0, <1>1, <1>3, <1>4, <1>5, <1>6, <1>7 DEF ZoneInv, UntouchedInv, MergedInv, LookedInv

LEMMA ArriveKept ==
    ASSUME ZoneInv, NEW c \in DOMAIN zonePlan, Zones!Arrive(c)
    PROVE  ZoneInv'
<1>0. /\ c \in Call /\ DOMAIN zonePlan \subseteq Call /\ c \in zoneLate /\ zoneLate' = zoneLate \ {c}
      /\ zoneCall' = zoneCall /\ holder' = holder /\ zonePlan' = zonePlan /\ zoneMisfit' = zoneMisfit
      /\ zoneActed' \subseteq zoneActed \cup {c} /\ zoneRaced \subseteq zoneRaced'
    BY ZonePlanType DEF Zones!Arrive, Zones!Act, ZoneInv, Zones!service, Zones!history
<1>1. CASE UNCHANGED <<Zones!service, Zones!history>>
    <2>1. UNCHANGED <<zone, record, zoneActed, zoneRaced>>
        BY <1>1 DEF Zones!service, Zones!history
    <2>2. ZoneCallOK' /\ ZonesOK' /\ ZoneAskedInv' /\ TurnInv'
        BY <1>0, <2>1 DEF ZoneInv, ZoneCallOK, ZonesOK, ZoneAskedInv, TurnInv
    <2>3. ByInv'
        BY <1>0, <2>1 DEF ZoneInv, ByInv, Working, Zones!Asked, Zones!There
    <2>4. UntouchedInv' /\ MergedInv' /\ LookedInv'
        BY <1>0, <2>1 DEF ZoneInv, UntouchedInv, UntouchedAt, Untouched, MergedInv, MergedAt, Merges,
                          Zones!Fits,
                          Zones!Here, LookedInv, LookedAt, Idle, Zones!Asked
    <2> QED
        BY <1>0, <2>2, <2>3, <2>4 DEF ZoneInv
<1>2. CASE Zones!Act(c) /\ zoneRaced' = zoneRaced \cup DOMAIN zonePlan
    <2>1. zone' \in [Zone -> Zones!ZoneState] /\ record' \in [Record -> Zones!RecordState]
        BY <1>0, <1>2, ZoneActType
    <2>2. ByInv'
        BY <1>0, <1>2, ActBy
    <2>3. ZoneCallOK' /\ ZonesOK' /\ ZoneAskedInv' /\ TurnInv'
        BY <1>0, <1>2, <2>1 DEF ZoneInv, ZoneCallOK, ZonesOK, ZoneAskedInv, TurnInv
    <2>4. UntouchedInv'
        BY <1>0 DEF ZoneInv, UntouchedInv, UntouchedAt, Untouched, Zones!Asked
    <2>5. MergedInv' /\ LookedInv'
        BY <1>0, <1>2 DEF ZoneInv, MergedInv, MergedAt, Merges, LookedInv, LookedAt, Zones!Asked
    <2> QED
        BY <1>0, <2>2, <2>3, <2>4, <2>5 DEF ZoneInv
<1> QED
    BY <1>1, <1>2 DEF Zones!Arrive

\* The service's own steps end work and leave texts and VPCs alone.
LEMMA ServiceKept ==
    ASSUME ZoneInv, Zones!Meanwhile, zone' \in [Zone -> Zones!ZoneState], record' \in [Record -> Zones!RecordState],
           \A z \in Zone : /\ zone'[z].text = zone[z].text /\ zone'[z].vpcs = zone[z].vpcs
                           /\ zone'[z].by \in {zone[z].by, None},
           ByInv'
    PROVE  ZoneInv'
<1>0. None \notin Call /\ \A d \in DOMAIN zonePlan : d \in Call /\ zonePlan[d].zone \in Zone
    BY ZonePlanType, ZoneConstants DEF ZoneInv
<1>1. ZoneCallOK' /\ ZonesOK' /\ ZoneAskedInv' /\ TurnInv' /\ zoneMisfit' = {}
    BY DEF Zones!Meanwhile, Zones!history, ZoneInv, ZoneCallOK, ZonesOK, ZoneAskedInv, TurnInv
<1>2. UntouchedInv'
    BY DEF Zones!Meanwhile, Zones!history, ZoneInv, UntouchedInv, UntouchedAt, Untouched, Zones!Asked
<1>3. MergedInv'
    BY <1>0 DEF Zones!Meanwhile, Zones!history, ZoneInv, MergedInv, MergedAt, Merges, Zones!Fits,
       Zones!Asked,
                Zones!Here
<1>4. LookedInv'
    BY <1>0 DEF Zones!Meanwhile, Zones!history, ZoneInv, LookedInv, LookedAt, Idle, Zones!Asked
<1> QED
    BY <1>1, <1>2, <1>3, <1>4 DEF ZoneInv

LEMMA ZoneServiceSteps ==
    ASSUME ZoneInv,
           \/ \E z \in Zone : Zones!ShowLock(z) \/ Zones!EndZoneWork(z)
           \/ \E r \in Record : Zones!EndRecordWork(r)
    PROVE  ZoneInv'
<1>0. /\ zone \in [Zone -> Zones!ZoneState] /\ record \in [Record -> Zones!RecordState] /\ ByInv /\ None \notin Call
      /\ \A d \in DOMAIN zonePlan : d \in Call /\ zonePlan[d].zone \in Zone /\ zonePlan[d].record \in Record
      /\ \A d \in DOMAIN zonePlan : Zones!Asked(d) \in Zones!RecordOps => ZoneOf[zonePlan[d].record] = zonePlan[d].zone
    BY ZonePlanType, ZoneConstants DEF ZoneInv, ZonesOK
<1>1. ASSUME NEW z \in Zone, Zones!ShowLock(z) PROVE ZoneInv'
    <2>1. zone' = [zone EXCEPT ![z] = [zone[z] EXCEPT !.hidden = FALSE, !.status = "UPDATING"]]
          /\ record' = record /\ Zones!Meanwhile /\ zone[z].hidden
        BY <1>1 DEF Zones!ShowLock
    <2>2. zone' \in [Zone -> Zones!ZoneState]
        BY <1>0, <2>1 DEF Zones!ZoneState
    <2>3. \A y \in Zone : /\ zone'[y].text = zone[y].text /\ zone'[y].vpcs = zone[y].vpcs
                          /\ zone'[y].by = zone[y].by /\ (y # z => zone'[y] = zone[y])
        BY <1>0, <2>1 DEF Zones!ZoneState
    <2>4. ~zone'[z].hidden /\ zone'[z].status = "UPDATING"
        BY <1>0, <2>1 DEF Zones!ZoneState
    <2>5. ByInv'
        BY <1>0, <2>1, <2>3, <2>4 DEF ByInv, Working, Zones!Asked, Zones!There, Zones!Meanwhile
    <2> QED
        BY <1>0, <2>1, <2>2, <2>3, <2>5, ServiceKept
<1>2. ASSUME NEW z \in Zone, zone[z].status \in {"CREATING", "UPDATING"}, Zones!EndZoneWork(z) PROVE ZoneInv'
    <2> DEFINE b == zone[z].by
    <2>1. b \in Call /\ b \in DOMAIN zonePlan /\ zonePlan[b].zone = z /\ ~zone[z].hidden
        <3>1. zone[z].by # None /\ zone[z].by \in Call \cup {None}
            BY <1>0, <1>2 DEF ByInv, Working, Zones!ZoneState
        <3> QED
            BY <1>0, <1>2, <3>1 DEF ByInv
    <2>2. PICK end \in {"ACTIVE", "ERROR"} :
            zone' = [zone EXCEPT ![z] = [zone[z] EXCEPT !.status = end, !.by = None]]
        BY <1>2 DEF Zones!EndZoneWork, Zones!Ends
    <2>3. /\ Zones!Meanwhile
          /\ \/ record' = record
             \/ /\ Zones!Asked(b) \in Zones!RecordOps
                /\ \E end2 \in {"ACTIVE", "ERROR"} : record' = [record EXCEPT ![zonePlan[b].record].status = end2]
        BY <1>2 DEF Zones!EndZoneWork
    <2>4. record' \in [Record -> Zones!RecordState]
        BY <1>0, <2>1, <2>3 DEF Zones!RecordState
    <2>5. zone' \in [Zone -> Zones!ZoneState]
        BY <1>0, <2>2 DEF Zones!ZoneState
    <2>6. /\ \A y \in Zone : zone'[y].text = zone[y].text /\ zone'[y].vpcs = zone[y].vpcs
          /\ \A y \in Zone \ {z} : zone'[y] = zone[y]
          /\ zone'[z].by = None /\ ~zone'[z].hidden /\ zone'[z].status \in {"ACTIVE", "ERROR"}
        BY <1>0, <2>1, <2>2 DEF Zones!ZoneState
    <2>7. ASSUME NEW d \in DOMAIN zonePlan, zonePlan[d].zone # z, Zones!Asked(d) = "createRecord"
          PROVE  record'[zonePlan[d].record] = record[zonePlan[d].record]
        <3>1. Zones!Asked(b) \in Zones!RecordOps => zonePlan[d].record # zonePlan[b].record
            BY <1>0, <2>1, <2>7 DEF Zones!RecordOps
        <3> QED
            BY <1>0, <2>1, <2>3, <3>1
    <2>8. ASSUME NEW y \in Zone
          PROVE  /\ zone'[y].by # None <=> Working(y)'
                 /\ zone'[y].hidden => zone'[y].status \in {"ACTIVE", "ERROR"}
        BY <1>0, <2>6 DEF ByInv, Working
    <2>9. ASSUME NEW y \in Zone, NEW d \in Call, zone'[y].by = d
          PROVE  /\ d \in DOMAIN zonePlan /\ zonePlan[d].zone = y /\ Zones!Asked(d) \notin Zones!DeleteOps
                 /\ zone'[y].hidden => Zones!Asked(d) \in Zones!RecordOps
                 /\ Zones!Asked(d) = "createRecord" => record'[zonePlan[d].record].status = "CREATING"
        <3>1. y # z /\ zone[y].by = d /\ zone'[y] = zone[y]
            BY <1>0, <2>6, <2>9
        <3> QED
            BY <1>0, <2>7, <3>1 DEF ByInv, Zones!There
    <2>10. zonePlan' = zonePlan /\ \A d : Zones!Asked(d)' = Zones!Asked(d) /\ Zones!There(d)' = record'[zonePlan[d].record]
        BY <2>3 DEF Zones!Meanwhile, Zones!Asked, Zones!There
    <2>11. ByInv'
        BY <2>8, <2>9, <2>10 DEF ByInv
    <2>12. \A y \in Zone : zone'[y].by \in {zone[y].by, None}
        BY <2>6
    <2> QED
        BY <2>3, <2>4, <2>5, <2>6, <2>11, <2>12, ServiceKept
<1>3. ASSUME NEW z \in Zone, zone[z].status = "DELETING", Zones!EndZoneWork(z) PROVE ZoneInv'
    <2>1. zone' = [zone EXCEPT ![z].status = "GONE"] /\ record' = record /\ Zones!Meanwhile
        BY <1>3 DEF Zones!EndZoneWork
    <2>2. zone' \in [Zone -> Zones!ZoneState]
        BY <1>0, <2>1 DEF Zones!ZoneState
    <2>3. \A y \in Zone : /\ zone'[y].text = zone[y].text /\ zone'[y].vpcs = zone[y].vpcs
                          /\ zone'[y].by = zone[y].by /\ zone'[y].hidden = zone[y].hidden
                          /\ (y # z => zone'[y] = zone[y])
        BY <1>0, <2>1 DEF Zones!ZoneState
    <2>4. zone'[z].status = "GONE" /\ ~zone[z].hidden /\ zone[z].by = None
        BY <1>0, <1>3, <2>1 DEF ByInv, Working, Zones!ZoneState
    <2>5. ByInv'
        BY <1>0, <2>1, <2>3, <2>4 DEF ByInv, Working, Zones!Asked, Zones!There, Zones!Meanwhile
    <2> QED
        BY <1>0, <2>1, <2>2, <2>3, <2>5, ServiceKept
<1>4. ASSUME NEW r \in Record, Zones!EndRecordWork(r) PROVE ZoneInv'
    <2>1. record' = [record EXCEPT ![r].status = "GONE"] /\ zone' = zone /\ Zones!Meanwhile /\ record[r].status = "DELETING"
        BY <1>4 DEF Zones!EndRecordWork
    <2>2. record' \in [Record -> Zones!RecordState]
        BY <1>0, <2>1 DEF Zones!RecordState
    <2>3. \A s \in Record : record[s].status = "CREATING" => record'[s].status = "CREATING"
        BY <1>0, <2>1
    <2>4. ByInv'
        BY <1>0, <2>1, <2>3 DEF ByInv, Working, Zones!Asked, Zones!There, Zones!Meanwhile
    <2> QED
        BY <1>0, <2>1, <2>2, <2>4, ServiceKept
<1> QED
    BY <1>1, <1>2, <1>3, <1>4 DEF Zones!EndZoneWork

LEMMA ZoneStart ==
    ASSUME Zones!Init PROVE ZoneInv
<1>1. ZoneCallOK /\ ZonesOK /\ ZoneAskedInv /\ TurnInv
    BY ZoneInit
<1>2. PICK i \in ZoneScenes : zonePlan = i.plan /\ zone = i.zone /\ record = i.record
    BY DEF Zones!Init
<1>3. \A z \in Zone : zone[z].status \in {"ACTIVE", "ERROR", "GONE"} /\ zone[z].by = None /\ ~zone[z].hidden
    BY <1>2, ZoneScene
<1>4. ByInv
    BY <1>3, ZoneConstants DEF ByInv, Working
<1>5. ASSUME NEW c \in DOMAIN zonePlan
      PROVE  UntouchedAt(c) /\ MergedAt(c) /\ LookedAt(c)
    <2>1. /\ zoneCall[c].pc = "lock" /\ zoneCall[c].result = "none" /\ ~zoneCall[c].polled
          /\ c \notin zoneLate /\ c \notin zoneActed
        BY <1>1, ZonePlanType DEF Zones!Init, ZoneCallOK
    <2> QED
        BY <2>1, ZonePlanType
           DEF UntouchedAt, Untouched, MergedAt, LookedAt, Zones!Early, Zones!CreateOps
<1> QED
    BY <1>1, <1>4, <1>5 DEF ZoneInv, UntouchedInv, MergedInv, LookedInv, Zones!Init

LEMMA ZoneKept ==
    ASSUME ZoneInv, Zones!Next PROVE ZoneInv'
<1>1. ASSUME NEW c \in Call, Zones!Step(c) \/ Zones!Break(c) PROVE ZoneInv'
    <2>1. c \in DOMAIN zonePlan
        BY <1>1
           DEF Zones!Step, Zones!LockWrite, Zones!LockWriteAtOnce, Zones!WaitZoneReady, Zones!Accepted,
                    Zones!Refused, Zones!NotTaken, Zones!Outlives, Zones!Confirm,
                    Zones!SettleZone, Zones!SettleReadZone, Zones!SettleRecord, Zones!WaitZoneGone,
                    Zones!WaitRecordGone, Zones!Break, Zones!At,
                    ZoneInv, ZoneAskedInv
    <2>2. zoneCall[c].result = "none"
        BY <1>1, <2>1
           DEF Zones!Step, Zones!LockWrite, Zones!WaitZoneReady, Zones!Accepted, Zones!Refused,
                          Zones!NotTaken, Zones!Outlives, Zones!Confirm,
                    Zones!SettleZone, Zones!SettleReadZone, Zones!SettleRecord, Zones!WaitZoneGone,
                    Zones!WaitRecordGone, Zones!Break, Zones!At,
                    ZoneInv, UntouchedInv, UntouchedAt
    <2>3. CASE ZoneQuiet(c)
        BY <2>1, <2>2, <2>3, ZoneQuietSteps, GoesKept DEF ZoneInv
    <2> QED
        BY <1>1, <2>1, <2>3, AcceptedKept, OutlivesKept DEF Zones!Step, ZoneQuiet
<1>2. ASSUME NEW c \in Call, Zones!Arrive(c) PROVE ZoneInv'
    BY <1>2, ArriveKept DEF Zones!Arrive, ZoneInv, ZoneAskedInv
<1> QED
    BY <1>1, <1>2, ZoneServiceSteps DEF Zones!Next

\* The invariant reads nothing but the variables of this module.
LEMMA ZoneStill ==
    ASSUME ZoneInv, UNCHANGED <<zonePlan, zone, record, holder, zoneLate, zoneCall, zoneActed, zoneRaced, zoneMisfit>>
    PROVE  ZoneInv'
BY DEF ZoneInv, ZoneCallOK, ZonesOK, ZoneAskedInv, TurnInv, UntouchedInv, UntouchedAt, Untouched,
   MergedInv,
       MergedAt, Merges, Zones!Fits, Zones!Here, Zones!There, ByInv, Working, LookedInv, LookedAt, Idle,
       Zones!Asked

LEMMA ZoneImplied ==
    ASSUME ZoneInv PROVE Zones!TypeOK /\ Zones!ActsOnWhatItRead /\ Zones!RefusalMeansUntouched /\ Zones!SettledMeansLanded
<1>1. Zones!TypeOK /\ Zones!ActsOnWhatItRead
    BY ZoneTypeParts DEF ZoneInv, Zones!ActsOnWhatItRead
<1>2. Zones!RefusalMeansUntouched
    BY DEF ZoneInv, Zones!RefusalMeansUntouched, UntouchedInv, UntouchedAt, Untouched, Zones!Asked
<1>3. Zones!SettledMeansLanded
    BY DEF ZoneInv, Zones!SettledMeansLanded, LookedInv, LookedAt, Idle
<1> QED
    BY <1>1, <1>2, <1>3

-----------------------------------------------------------------------------
(* VServer: a step is one of Cloud, during which Network may see servers come  *)
(* and go, or one of Network or of Dns alone.                                  *)

LEMMA Untouchable == UNCHANGED vars => UNCHANGED Occupied
BY DEF vars, history, Occupied, StatusOf

LEMMA SubnetsOccupied == Occupied' \subseteq Subnet
BY VServerAssumption DEF Occupied

LEMMA VServerStart == VInit => NetInv /\ ZoneInv
BY NetInit, ZoneStart DEF VInit

LEMMA VServerStep == NetInv /\ ZoneInv /\ [VNext]_allVars => NetInv' /\ ZoneInv'
<1> SUFFICES ASSUME NetInv, ZoneInv, [VNext]_allVars PROVE NetInv' /\ ZoneInv'
    OBVIOUS
<1>1. ASSUME UNCHANGED zoneVars PROVE ZoneInv'
    BY <1>1, ZoneStill DEF zoneVars
<1>2. ASSUME UNCHANGED vars, UNCHANGED netVars PROVE NetInv'
    BY <1>2, Untouchable, NetStill DEF netVars
<1>3. CASE Next /\ Net!Elsewhere /\ UNCHANGED zoneVars
    BY <1>1, <1>3, NetElsewhere, SubnetsOccupied
<1>4. CASE UNCHANGED <<vars, zoneVars>> /\ Net!Next
    BY <1>1, <1>4, NetKept
<1>5. CASE UNCHANGED <<vars, netVars>> /\ Zones!Next
    BY <1>2, <1>5, ZoneKept
<1>6. CASE UNCHANGED allVars
    BY <1>1, <1>2, <1>6 DEF allVars
<1> QED
    BY <1>3, <1>4, <1>5, <1>6 DEF VNext

LEMMA VServerInvariant == VSpec => [](NetInv /\ ZoneInv)
BY VServerStart, VServerStep, PTL DEF VSpec

\* Network and Dns leave servers and volumes alone: what the theorems
\* above say of Cloud holds with all four packages at work.
THEOREM CloudKept == VSpec => Spec
<1>1. VInit => Init
    BY DEF VInit
<1>2. [VNext]_allVars => [Next]_vars
    BY DEF VNext, allVars
<1> QED
    BY <1>1, <1>2, PTL DEF VSpec, Spec

\* Every reachable state of network and dns is well typed: no wait polls and no
\* request is tried more often than its bound allows.
THEOREM NetTypeCorrect == VSpec => []NetTypeOK
<1>1. NetInv /\ ZoneInv => NetTypeOK
    BY NetImplied, ZoneImplied DEF NetTypeOK
<1> QED
    BY <1>1, VServerInvariant, PTL

\* The writes of packages network and dns act on what they read unless another
\* write came in between, a server that was created in the subnet among them.
THEOREM NetReadCorrect == VSpec => []NetActsOnWhatItRead
<1>1. NetInv /\ ZoneInv => NetActsOnWhatItRead
    BY NetImplied, ZoneImplied DEF NetActsOnWhatItRead
<1> QED
    BY <1>1, VServerInvariant, PTL

\* An error from before the request, and a 4xx to a request sent once, mean that
\* the call changed nothing and never will; success of a write to a zone, that
\* the zone is not locked for it any more.
THEOREM OutcomesCorrect == VSpec => []OutcomesTrue
<1>1. NetInv /\ ZoneInv => OutcomesTrue
    BY NetImplied, ZoneImplied DEF OutcomesTrue
<1> QED
    BY <1>1, VServerInvariant, PTL

\* DeleteSubnet leaves no network ACL stuck with the subnet it deleted, unless
\* the subnet came to an ACL, or a server to the subnet, after its checks began.
THEOREM AclCorrect == VSpec => []NoAclStuck
<1>1. NetInv /\ ZoneInv => NoAclStuck
    BY NetImplied, ZoneImplied DEF NoAclStuck
<1> QED
    BY <1>1, VServerInvariant, PTL
=============================================================================
