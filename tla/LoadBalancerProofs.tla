-------------------------- MODULE LoadBalancerProofs --------------------------
(***************************************************************************)
(* LoadBalancer for any number of calls, Clients, objects, keys, retries    *)
(* and reads.  LockInv says that who is between the lock and the return     *)
(* holds the lock; PaidInv that a paid request the service accepted is      *)
(* never sent again; WriteInv what a write carries, whose writes the keys   *)
(* hold, and when a call has nothing left at the service.                   *)
(***************************************************************************)
EXTENDS LoadBalancer, TLAPS

LEMMA PlanType ==
    ASSUME plan \in Plans
    PROVE  DOMAIN plan \subseteq Call /\ \A c \in DOMAIN plan : plan[c] \in Plan
BY LoadBalancerAssumption

ClientOK ==
    /\ lock \in [Client -> Call \cup {NoCall}]
    /\ pc \in [Call -> PC]
    /\ read \in [Call -> Object]
    /\ body \in [Call -> Content]
    /\ reads \in [Call -> 0..MaxReads]
    /\ tries \in [Call -> Nat] /\ \A c \in DOMAIN plan : tries[c] < Attempts[plan[c].client]
    /\ resent \in [Call -> BOOLEAN]
    /\ result \in [Call -> Result]

HistoryOK ==
    /\ accepted \in [Call -> Nat]
    /\ writer \in [Thing -> [Key -> Call \cup {NoCall}]]
    /\ lost \subseteq Call \X Call /\ robbed \subseteq Call

ServiceOK == plan \in Plans /\ thing \in [Thing -> Object] /\ jobs \subseteq Job /\ HistoryOK

LEMMA TypeParts == TypeOK <=> ClientOK /\ ServiceOK
BY DEF TypeOK, ClientOK, ServiceOK, HistoryOK

\* Only a call that has something to do is anywhere, or has a write at the service.
AskedInv ==
    /\ \A c \in Call : pc[c] # "done" => c \in DOMAIN plan
    /\ \A j \in jobs : j.call \in DOMAIN plan

LEMMA AskedInit == Init => AskedInv
BY DEF Init, AskedInv

LEMMA EmptyType == Empty \in Content /\ Absent \in Object
BY DEF Empty, Absent, Content, Object

LEMMA TypeInit == Init => TypeOK
<1> SUFFICES ASSUME Init PROVE TypeOK
    OBVIOUS
<1> USE LoadBalancerAssumption
<1>1. thing \in [Thing -> Object]
    <2>1. [Absent EXCEPT !.there = TRUE] \in Object
        BY EmptyType DEF Object, Absent
    <2>2. \A t \in Child : Start[t] \in Content \cup {Nothing}
        OBVIOUS
    <2>3. \A m \in Content : [there |-> TRUE, failed |-> FALSE, content |-> m] \in Object
        BY DEF Object
    <2> QED
        BY <2>1, <2>2, <2>3, EmptyType DEF Init, Thing
<1>2. pc \in [Call -> PC]
    BY DEF Init, PC
<1>3. ClientOK
    <2>1. \A c \in DOMAIN plan : tries[c] < Attempts[plan[c].client]
        BY PlanType DEF Init, Plan
    <2> QED
        BY <1>2, <2>1, EmptyType DEF Init, ClientOK, Result
<1>4. ServiceOK
    BY <1>1 DEF Init, ServiceOK, HistoryOK
<1> QED
    BY <1>3, <1>4, TypeParts

-----------------------------------------------------------------------------
\* The ways a call moves on.
Aside(c) == UNCHANGED <<lock, read, body, reads, tries, resent, result>>

LEMMA GotoType ==
    ASSUME ClientOK, NEW c \in Call, NEW w \in PC, Goto(c, w)
    PROVE  pc' \in [Call -> PC]
BY DEF ClientOK, Goto

LEMMA ReturnType ==
    ASSUME ClientOK, ServiceOK, plan' = plan, NEW c \in Call, NEW r \in Result, Return(c, r)
    PROVE  ClientOK'
<1> USE LoadBalancerAssumption
<1>1. "done" \in PC
    BY DEF PC
<1>2. \A d \in DOMAIN plan : tries'[d] < Attempts[plan[d].client]
    BY PlanType DEF Return, ClientOK, ServiceOK, Plan
<1> QED
    BY <1>1, <1>2, EmptyType DEF Return, Goto, ClientOK

LEMMA ProceedType ==
    ASSUME ClientOK, plan' = plan, NEW c \in Call, NEW w \in PC, Proceed(c, w), read' \in [Call -> Object]
    PROVE  ClientOK'
<1>1. 0 \in 0..MaxReads
    BY LoadBalancerAssumption
<1>2. reads' \in [Call -> 0..MaxReads] /\ pc' \in [Call -> PC]
    BY <1>1 DEF Proceed, Goto, ClientOK
<1>3. UNCHANGED <<lock, body, tries, resent, result>>
    BY DEF Proceed
<1> QED
    BY <1>2, <1>3 DEF ClientOK

LEMMA AsideType ==
    ASSUME ClientOK, plan' = plan, NEW c \in Call, NEW w \in PC, Goto(c, w), Aside(c)
    PROVE  ClientOK'
BY DEF Aside, Goto, ClientOK

LEMMA PollType ==
    ASSUME ClientOK, ServiceOK, plan' = plan, NEW c \in Call, NEW w \in PC, NEW r \in Result, Poll(c, w, r)
    PROVE  ClientOK'
<1>1. CASE Return(c, r)
    BY <1>1, ReturnType
<1>2. CASE reads[c] < MaxReads /\ Goto(c, w) /\ reads' = [reads EXCEPT ![c] = @ + 1]
           /\ UNCHANGED <<lock, read, body, tries, resent, result>>
    BY <1>2, LoadBalancerAssumption DEF Goto, ClientOK
<1> QED
    BY <1>1, <1>2 DEF Poll

LEMMA SendBodyType ==
    ASSUME ClientOK, plan' = plan, NEW c \in Call, NEW b \in Content, SendBody(c, b)
    PROVE  ClientOK'
BY DEF SendBody, Goto, ClientOK, PC

LEMMA MergeType ==
    ASSUME ServiceOK, NEW c \in DOMAIN plan, NEW m \in Content PROVE Merge(m, c) \in Content
<1>1. plan[c] \in Plan
    BY PlanType DEF ServiceOK
<1> QED
    BY <1>1 DEF Merge, Content, Plan

LEMMA FailType ==
    ASSUME ClientOK, ServiceOK, plan' = plan, NEW c \in DOMAIN plan, NEW acted, Fail(c, acted)
    PROVE  ClientOK'
<1>0. c \in Call /\ plan[c] \in Plan /\ "error" \in Result
    BY PlanType DEF ServiceOK, Result
<1>1. CASE Return(c, "error")
    BY <1>0, <1>1, ReturnType
<1>2. CASE /\ tries[c] + 1 < Attempts[Mine(c)] /\ tries' = [tries EXCEPT ![c] = @ + 1]
           /\ UNCHANGED <<lock, pc, read, body, reads, resent, result>>
    BY <1>0, <1>2 DEF ClientOK, Mine
<1> QED
    BY <1>1, <1>2 DEF Fail

LEMMA QuietType == ASSUME ServiceOK, Quiet PROVE ServiceOK' /\ plan' = plan
BY DEF Quiet, history, ServiceOK, HistoryOK

-----------------------------------------------------------------------------
LEMMA ThingType ==
    ASSUME ServiceOK, NEW c \in DOMAIN plan
    PROVE  /\ c \in Call /\ On(c) \in Thing /\ Mine(c) \in Client /\ plan[c] \in Plan
           /\ thing[On(c)] \in Object /\ thing[Balancer] \in Object
           /\ thing[On(c)].content \in Content
<1>1. c \in Call /\ plan[c] \in Plan
    BY PlanType DEF ServiceOK
<1>2. On(c) \in Thing /\ Mine(c) \in Client
    BY <1>1 DEF On, Mine, Plan
<1>3. thing[On(c)] \in Object /\ thing[Balancer] \in Object
    BY <1>2 DEF ServiceOK, Thing
<1> QED
    BY <1>1, <1>2, <1>3 DEF Object

\* The steps of a call that the service does not notice.
LEMMA QuietStepType ==
    ASSUME ClientOK, ServiceOK, AskedInv, NEW c \in Call, Step(c) \/ Cancel(c), ~Accepted(c)
    PROVE  Quiet /\ ClientOK'
<1>p. {"check", "lock", "current", "pre", "child", "decide", "send", "delay",
       "settle", "settleLB", "confirm", "resized", "gone", "goneLB", "done"} = PC
    BY DEF PC
<1>r. {"none", "settled", "accepted", "unchanged", "busy", "failed", "notSettled",
       "canceled", "error", "invalid", "notFound", "inUse", "priced"} = Result
    BY DEF Result
<1>q. ASSUME Quiet PROVE ServiceOK' /\ plan' = plan
    BY <1>q, QuietType
<1>d. c \in DOMAIN plan
    BY DEF Step, Cancel, AskedInv, CheckDefaultPool, LockLoadBalancer, ReadCurrent, PreWriteBalancer,
           PreWriteChild, Deciding, AddPoolMember, UpdatePoolMember, RemovePoolMember, Update, UpdatePool,
           UpdateListener, UpdatePolicy, Create, CreatePool, CreateListener, CreatePolicy, Delete,
           DeletePool, DeleteListener, DeletePolicy, ResizeLoadBalancer, Sendable, NotReached,
           RefusedBusy, Refused, FirstDelay, SettleChild, SettleBalancer, ConfirmMembers, WaitResized,
           WaitChildDeleted, WaitBalancerDeleted
<1>t. /\ On(c) \in Thing /\ Mine(c) \in Client /\ thing[On(c)] \in Object /\ thing[Balancer] \in Object
      /\ Members(c) \in Content
    BY <1>d, ThingType DEF Members
<1>u. read \in [Call -> Object] /\ read[c].content \in Content
    BY DEF ClientOK, Object
<1>m. \A m \in Content : Merge(m, c) \in Content
    BY <1>d, MergeType
<1>g. ASSUME plan' = plan, read' = read, NEW w \in PC, Proceed(c, w) PROVE ClientOK'
    BY <1>g, <1>u, ProceedType
<1>b. ASSUME plan' = plan, NEW w \in PC, Goto(c, w), UNCHANGED <<lock, read, body, reads, tries, resent, result>>
      PROVE  ClientOK'
    BY <1>b, AsideType DEF Aside
<1>1. CASE CheckDefaultPool(c)
    BY <1>1, <1>p, <1>r, <1>q, <1>g, ReturnType DEF CheckDefaultPool
<1>2. CASE LockLoadBalancer(c)
    BY <1>2, <1>p, <1>q, <1>t DEF LockLoadBalancer, Goto, ClientOK
<1>3. CASE ReadCurrent(c)
    <2>1. ASSUME NEW w \in PC, Proceed(c, w), read' = [read EXCEPT ![c] = thing[Balancer]], plan' = plan
          PROVE  ClientOK'
        <3>1. read' \in [Call -> Object]
            BY <2>1, <1>t, <1>u
        <3> QED
            BY <2>1, <3>1, ProceedType
    <2> QED
        BY <1>3, <2>1, <1>p, <1>r, <1>q, ReturnType DEF ReadCurrent
<1>a. AfterPreWrite(c) \in PC
    BY <1>p DEF AfterPreWrite
<1>4. CASE PreWriteBalancer(c)
    BY <1>4, <1>a, <1>p, <1>r, <1>q, <1>g, <1>b, ReturnType, PollType DEF PreWriteBalancer
<1>5. CASE PreWriteChild(c)
    <2>1. ASSUME Proceed(c, AfterPreWrite(c)), plan' = plan,
                 read' = [read EXCEPT ![c] = IF resent[c] THEN @ ELSE thing[On(c)]]
          PROVE  ClientOK'
        <3>1. read' \in [Call -> Object]
            BY <2>1, <1>t, <1>u
        <3> QED
            BY <2>1, <3>1, <1>a, ProceedType
    <2> QED
        BY <1>5, <2>1, <1>p, <1>r, <1>q, ReturnType, PollType DEF PreWriteChild
<1>6. CASE AddPoolMember(c) \/ UpdatePoolMember(c) \/ RemovePoolMember(c)
    BY <1>6, <1>m, <1>t, <1>r, <1>q, ReturnType, SendBodyType
       DEF AddPoolMember, UpdatePoolMember, RemovePoolMember, ListMembers
<1>7. CASE UpdatePool(c) \/ UpdateListener(c) \/ UpdatePolicy(c)
    BY <1>7, <1>m, <1>u, <1>r, <1>q, ReturnType, SendBodyType
       DEF UpdatePool, UpdateListener, UpdatePolicy, Update
<1>8. CASE CreatePool(c) \/ CreateListener(c) \/ CreatePolicy(c)
    BY <1>8, <1>m, <1>r, <1>q, EmptyType, ReturnType, SendBodyType
       DEF CreatePool, CreateListener, CreatePolicy, Create
<1>9. CASE DeletePool(c) \/ DeleteListener(c) \/ DeletePolicy(c)
    BY <1>9, <1>q, EmptyType, SendBodyType DEF DeletePool, DeleteListener, DeletePolicy, Delete
<1>10. CASE ResizeLoadBalancer(c)
    BY <1>10, <1>m, <1>r, <1>q, EmptyType, ReturnType, SendBodyType DEF ResizeLoadBalancer
<1>11. CASE NotReached(c)
    BY <1>11, <1>d, <1>q, FailType DEF NotReached
<1>12. CASE RefusedBusy(c)
    <2>1. ASSUME Resend(c), plan' = plan PROVE ClientOK'
        <3>1. 0 \in 0..MaxReads /\ \A d \in DOMAIN plan : Attempts[plan[d].client] \in Nat \ {0}
            BY LoadBalancerAssumption, PlanType DEF ServiceOK, Plan
        <3>2. pc' \in [Call -> PC] /\ resent' \in [Call -> BOOLEAN] /\ reads' \in [Call -> 0..MaxReads]
            BY <2>1, <3>1, <1>p DEF Resend, Goto, ClientOK
        <3>3. tries' \in [Call -> Nat] /\ \A d \in DOMAIN plan : tries'[d] < Attempts[plan[d].client]
            BY <2>1, <3>1 DEF Resend, ClientOK
        <3> QED
            BY <2>1, <3>2, <3>3 DEF Resend, ClientOK
    <2> QED
        BY <1>12, <2>1, <1>r, <1>q, ReturnType DEF RefusedBusy
<1>13. CASE Refused(c)
    BY <1>13, <1>r, <1>q, ReturnType DEF Refused
<1>14. CASE FirstDelay(c)
    BY <1>14, <1>p, <1>q, <1>g DEF FirstDelay
<1>15. CASE SettleChild(c)
    BY <1>15, <1>p, <1>r, <1>q, <1>b, ReturnType, PollType DEF SettleChild
<1>16. CASE SettleBalancer(c)
    BY <1>16, <1>p, <1>r, <1>q, <1>g, ReturnType, PollType DEF SettleBalancer
<1>17. CASE ConfirmMembers(c)
    BY <1>17, <1>r, <1>q, ReturnType DEF ConfirmMembers
<1>18. CASE WaitResized(c)
    BY <1>18, <1>p, <1>r, <1>q, ReturnType, PollType DEF WaitResized
<1>19. CASE WaitChildDeleted(c)
    BY <1>19, <1>p, <1>r, <1>q, <1>b, ReturnType, PollType DEF WaitChildDeleted
<1>20. CASE WaitBalancerDeleted(c)
    BY <1>20, <1>p, <1>r, <1>q, ReturnType, PollType DEF WaitBalancerDeleted
<1>21. CASE Cancel(c)
    BY <1>21, <1>r, <1>q, ReturnType DEF Cancel
<1> QED
    BY <1>1, <1>2, <1>3, <1>4, <1>5, <1>6, <1>7, <1>8, <1>9, <1>10, <1>11, <1>12, <1>13, <1>14, <1>15,
       <1>16, <1>17, <1>18, <1>19, <1>20, <1>21 DEF Step

LEMMA AcceptedType ==
    ASSUME ClientOK, ServiceOK, AskedInv, NEW c \in Call, Accepted(c)
    PROVE  ClientOK' /\ ServiceOK' /\ plan' = plan /\ c \in DOMAIN plan
<1>d. c \in DOMAIN plan /\ plan' = plan
    BY DEF Accepted, Sendable, AskedInv
<1>r. {"accepted", "error"} \subseteq Result
    BY DEF Result
<1>1. ClientOK'
    <2>1. CASE Succeed(c)
        <3>1. Waits(c) \in PC
            BY DEF Waits, PC
        <3>2. read \in [Call -> Object]
            BY DEF ClientOK
        <3> QED
            BY <2>1, <3>1, <3>2, <1>d, <1>r, ReturnType, ProceedType DEF Succeed
    <2>2. CASE Fail(c, TRUE)
        BY <2>2, <1>d, FailType
    <2> QED
        BY <2>1, <2>2 DEF Accepted
<1>2. [call |-> c, n |-> accepted[c], started |-> FALSE, body |-> body[c]] \in Job
    BY DEF Job, ClientOK, ServiceOK, HistoryOK
<1>3. ServiceOK'
    <2>1. plan' \in Plans /\ thing' \in [Thing -> Object]
        BY <1>d DEF Accepted, ServiceOK
    <2>2. jobs' \subseteq Job
        BY <1>2 DEF Accepted, ServiceOK
    <2>3. accepted' \in [Call -> Nat]
        BY DEF Accepted, ServiceOK, HistoryOK
    <2>4. /\ writer' \in [Thing -> [Key -> Call \cup {NoCall}]]
          /\ lost' \subseteq Call \X Call /\ robbed' \subseteq Call
        BY DEF Accepted, ServiceOK, HistoryOK
    <2> QED
        BY <2>1, <2>2, <2>3, <2>4 DEF ServiceOK, HistoryOK
<1> QED
    BY <1>d, <1>1, <1>3

LEMMA JobType ==
    ASSUME ServiceOK, AskedInv, NEW j \in jobs
    PROVE  /\ j \in Job /\ j.call \in DOMAIN plan /\ j.call \in Call
           /\ Applied(j) \in Object /\ Victims(j) \subseteq Call
           /\ \A k \in Key : Holder(j, k) \in Call \cup {NoCall}
<1>1. j \in Job /\ j.call \in DOMAIN plan
    BY DEF ServiceOK, AskedInv
<1>2. thing[On(j.call)] \in Object /\ On(j.call) \in Thing /\ j.call \in Call
    BY <1>1, ThingType
<1>3. Applied(j) \in Object
    <2>1. j.body \in Content /\ thing[On(j.call)].content \in Content
        BY <1>1, <1>2 DEF Job, Object
    <2>2. [k \in Key |-> IF k \in Written(j.call) THEN j.body[k] ELSE thing[On(j.call)].content[k]] \in Content
        BY <2>1 DEF Content
    <2> QED
        BY <2>2, EmptyType DEF Applied, Object
<1>4. Victims(j) \subseteq Call
    <2>1. Overwritten(j) \subseteq Key
        BY DEF Overwritten
    <2>2. \A k \in Overwritten(j) : writer[On(j.call)][k] \in Call \cup {NoCall}
        BY <1>2, <2>1 DEF ServiceOK, HistoryOK
    <2> QED
        BY <2>2 DEF Victims
<1>5. \A k \in Key : Holder(j, k) \in Call \cup {NoCall}
    BY <1>2 DEF Holder, ServiceOK, HistoryOK
<1> QED
    BY <1>1, <1>2, <1>3, <1>4, <1>5

LEMMA ServiceType ==
    ASSUME ClientOK, ServiceOK, AskedInv, NEW j \in jobs, StartJob(j) \/ EndJob(j)
    PROVE  /\ ClientOK' /\ ServiceOK' /\ UNCHANGED <<plan, client, accepted>>
           /\ \A k \in jobs' : \E i \in jobs : k.call = i.call
<1>1. CASE StartJob(j)
    <2>1. [j EXCEPT !.started = TRUE] \in Job
        BY JobType DEF Job
    <2>2. jobs' \subseteq Job /\ UNCHANGED <<plan, thing, client, history>>
        BY <1>1, <2>1 DEF StartJob, ServiceOK
    <2>3. \A k \in jobs' : k.call \in {i.call : i \in jobs}
        BY <1>1, JobType DEF StartJob, Job
    <2> QED
        BY <2>2, <2>3 DEF client, history, ClientOK, ServiceOK, HistoryOK
<1>2. CASE EndJob(j)
    <2>1. jobs' \subseteq jobs /\ UNCHANGED <<plan, client, accepted>>
        BY <1>2 DEF EndJob
    <2>2. thing' \in [Thing -> Object]
        <3>1. \A t : [thing EXCEPT ![t] = Applied(j)] \in [Thing -> Object]
            BY JobType DEF ServiceOK
        <3>2. \A t : [thing EXCEPT ![t].there = TRUE, ![t].failed = TRUE] \in [Thing -> Object]
            BY DEF ServiceOK, Object
        <3> QED
            BY <1>2, <3>1, <3>2 DEF EndJob, ServiceOK
    <2>3. writer' \in [Thing -> [Key -> Call \cup {NoCall}]]
        <3>1. \A t : [writer EXCEPT ![t] = [k \in Key |-> Holder(j, k)]]
                     \in [Thing -> [Key -> Call \cup {NoCall}]]
            BY JobType DEF ServiceOK, HistoryOK
        <3> QED
            BY <1>2, <3>1 DEF EndJob, ServiceOK, HistoryOK
    <2>4. lost' \subseteq Call \X Call /\ robbed' \subseteq Call
        BY <1>2, JobType DEF EndJob, ServiceOK, HistoryOK
    <2> QED
        BY <2>1, <2>2, <2>3, <2>4 DEF client, ClientOK, ServiceOK, HistoryOK
<1> QED
    BY <1>1, <1>2

LEMMA TypeStep == TypeOK /\ AskedInv /\ [Next]_vars => TypeOK' /\ AskedInv'
<1> SUFFICES ASSUME ClientOK, ServiceOK, AskedInv, [Next]_vars PROVE ClientOK' /\ ServiceOK' /\ AskedInv'
    BY TypeParts DEF TypeOK, ClientOK, ServiceOK, HistoryOK
<1>1. CASE UNCHANGED vars
    BY <1>1 DEF vars, client, history, ClientOK, ServiceOK, HistoryOK, AskedInv
<1>a. ASSUME NEW c \in Call, c \in DOMAIN plan, \A d \in Call \ {c} : pc'[d] = pc[d], plan' = plan,
             \A j \in jobs' : j \in jobs \/ j.call = c
      PROVE  AskedInv'
    BY <1>a DEF AskedInv
<1>2. ASSUME NEW c \in Call, Step(c) \/ Cancel(c), ~Accepted(c) PROVE ClientOK' /\ ServiceOK' /\ AskedInv'
    <2>1. Quiet /\ ClientOK'
        BY <1>2, QuietStepType
    <2>2. pc[c] # "done"
        BY <1>2 DEF Step, Cancel, CheckDefaultPool, LockLoadBalancer, ReadCurrent, PreWriteBalancer,
             PreWriteChild, Deciding, AddPoolMember, UpdatePoolMember, RemovePoolMember, Update, UpdatePool,
             UpdateListener, UpdatePolicy, Create, CreatePool, CreateListener, CreatePolicy, Delete,
             DeletePool, DeleteListener, DeletePolicy, ResizeLoadBalancer, Sendable, NotReached,
             RefusedBusy, Refused, FirstDelay, SettleChild, SettleBalancer, ConfirmMembers, WaitResized,
             WaitChildDeleted, WaitBalancerDeleted
    <2>3. \A d \in Call \ {c} : pc'[d] = pc[d]
        BY <1>2 DEF Step, Cancel, CheckDefaultPool, LockLoadBalancer, ReadCurrent, PreWriteBalancer,
             PreWriteChild, AddPoolMember, UpdatePoolMember, RemovePoolMember, Update, UpdatePool,
             UpdateListener, UpdatePolicy, Create, CreatePool, CreateListener, CreatePolicy, Delete,
             DeletePool, DeleteListener, DeletePolicy, ResizeLoadBalancer, NotReached, ListMembers,
             RefusedBusy, Refused, FirstDelay, SettleChild, SettleBalancer, ConfirmMembers, WaitResized,
             WaitChildDeleted, WaitBalancerDeleted, Goto, Return, Proceed, Poll, SendBody, Resend, Fail,
             ClientOK
    <2> QED
        BY <2>1, <2>2, <2>3, <1>a, QuietType DEF AskedInv, Quiet
<1>3. ASSUME NEW c \in Call, Accepted(c) PROVE ClientOK' /\ ServiceOK' /\ AskedInv'
    <2>1. \A d \in Call \ {c} : pc'[d] = pc[d]
        BY <1>3 DEF Accepted, Succeed, Fail, Goto, Return, Proceed, ClientOK
    <2>2. \A j \in jobs' : j \in jobs \/ j.call = c
        BY <1>3 DEF Accepted
    <2> QED
        BY <1>3, <1>a, <2>1, <2>2, AcceptedType
<1>4. ASSUME NEW j \in jobs, StartJob(j) \/ EndJob(j) PROVE ClientOK' /\ ServiceOK' /\ AskedInv'
    BY <1>4, ServiceType DEF AskedInv, client
<1> QED
    BY <1>1, <1>2, <1>3, <1>4 DEF Next, Service, Finished

\* Every reachable state is well typed; no wait reads and no request is tried
\* more often than its bound allows.
THEOREM TypeCorrect == Spec => []TypeOK
BY TypeInit, TypeStep, AskedInit, PTL DEF Spec

-----------------------------------------------------------------------------
\* What the lock and the paid requests see of a step: a call returns and frees
\* its lock, or moves inside it, or takes it; and past its request it stays so.
Before == {"check", "lock", "current", "pre", "child", "decide", "send"}

Frees(c) == pc'[c] = "done" /\ lock' = [a \in Client |-> IF lock[a] = c THEN NoCall ELSE lock[a]]
Stays(c) == lock' = lock /\ pc'[c] # "done" /\ (pc[c] \in {"check", "lock"} => pc'[c] \in {"check", "lock"})
Takes(c) == /\ pc[c] = "lock" /\ lock[Mine(c)] = NoCall /\ pc'[c] # "done"
            /\ lock' = [lock EXCEPT ![Mine(c)] = c]

Moves(c) ==
    /\ \A d \in Call \ {c} : pc'[d] = pc[d] /\ result'[d] = result[d]
    /\ Frees(c) \/ Stays(c) \/ Takes(c)
    /\ pc'[c] # "done" => result'[c] = result[c]
    /\ pc[c] # "done"
    /\ pc[c] \notin Before => pc'[c] \notin Before /\ (pc'[c] = "done" => result'[c] # "busy")

LEMMA ReturnMoves ==
    ASSUME ClientOK, NEW c \in Call, NEW r \in Result, Return(c, r), pc[c] # "done",
           pc[c] \in Before \/ r # "busy"
    PROVE  Moves(c)
BY DEF ClientOK, Return, Goto, Moves, Frees, Before

LEMMA GoMoves ==
    ASSUME ClientOK, NEW c \in Call, NEW w \in PC \ {"done", "check"}, Goto(c, w), pc[c] # "done",
           UNCHANGED <<lock, result>>, pc[c] \in {"check", "lock"} => w = "lock",
           pc[c] \in Before \/ w \notin Before
    PROVE  Moves(c)
BY DEF ClientOK, Goto, Moves, Stays, Before

LEMMA PollMoves ==
    ASSUME ClientOK, NEW c \in Call, NEW w \in PC \ {"done", "check"}, NEW r \in Result, Poll(c, w, r),
           pc[c] \notin {"done", "check", "lock"},
           pc[c] \in Before \/ (w \notin Before /\ r # "busy")
    PROVE  Moves(c)
BY ReturnMoves, GoMoves DEF Poll

LEMMA FailMoves ==
    ASSUME ClientOK, NEW c \in Call, NEW acted, Fail(c, acted), pc[c] = "send" PROVE Moves(c)
<1>1. CASE Return(c, "error")
    BY <1>1, ReturnMoves DEF Result
<1>2. CASE UNCHANGED <<lock, pc, read, body, reads, resent, result>>
    BY <1>2 DEF Moves, Stays, Before
<1> QED
    BY <1>1, <1>2 DEF Fail

LEMMA QuietMoves ==
    ASSUME ClientOK, ServiceOK, AskedInv, NEW c \in Call, Step(c) \/ Cancel(c), ~Accepted(c)
    PROVE  Moves(c)
<1>p. /\ {"lock", "current", "pre", "child", "decide", "send", "delay", "settle", "settleLB", "confirm",
          "resized", "gone", "goneLB"} = PC \ {"done", "check"}
      /\ Before = {"check", "lock", "current", "pre", "child", "decide", "send"}
    BY DEF PC, Before
<1>r. {"none", "settled", "accepted", "unchanged", "busy", "failed", "notSettled",
       "canceled", "error", "invalid", "notFound", "inUse", "priced"} = Result
    BY DEF Result
<1>1. CASE CheckDefaultPool(c)
    BY <1>1, <1>p, <1>r, ReturnMoves, GoMoves DEF CheckDefaultPool, Proceed
<1>2. CASE LockLoadBalancer(c)
    BY <1>2, <1>p DEF LockLoadBalancer, Goto, ClientOK, Moves, Takes
<1>3. CASE ReadCurrent(c)
    BY <1>3, <1>p, <1>r, ReturnMoves, GoMoves DEF ReadCurrent, Proceed
<1>4. CASE PreWriteBalancer(c)
    BY <1>4, <1>p, <1>r, ReturnMoves, PollMoves, GoMoves DEF PreWriteBalancer, Proceed, AfterPreWrite
<1>5. CASE PreWriteChild(c)
    BY <1>5, <1>p, <1>r, ReturnMoves, PollMoves, GoMoves DEF PreWriteChild, Proceed, AfterPreWrite
<1>6. CASE AddPoolMember(c) \/ UpdatePoolMember(c) \/ RemovePoolMember(c)
    BY <1>6, <1>p, <1>r, ReturnMoves, GoMoves
       DEF AddPoolMember, UpdatePoolMember, RemovePoolMember, ListMembers, Deciding, SendBody
<1>7. CASE UpdatePool(c) \/ UpdateListener(c) \/ UpdatePolicy(c)
    BY <1>7, <1>p, <1>r, ReturnMoves, GoMoves
       DEF UpdatePool, UpdateListener, UpdatePolicy, Update, Deciding, SendBody
<1>8. CASE CreatePool(c) \/ CreateListener(c) \/ CreatePolicy(c)
    BY <1>8, <1>p, <1>r, ReturnMoves, GoMoves
       DEF CreatePool, CreateListener, CreatePolicy, Create, Deciding, SendBody
<1>9. CASE DeletePool(c) \/ DeleteListener(c) \/ DeletePolicy(c)
    BY <1>9, <1>p, GoMoves DEF DeletePool, DeleteListener, DeletePolicy, Delete, Deciding, SendBody
<1>10. CASE ResizeLoadBalancer(c)
    BY <1>10, <1>p, <1>r, ReturnMoves, GoMoves DEF ResizeLoadBalancer, Deciding, SendBody
<1>11. CASE NotReached(c)
    BY <1>11, FailMoves DEF NotReached, Sendable
<1>12. CASE RefusedBusy(c)
    BY <1>12, <1>p, <1>r, ReturnMoves, GoMoves DEF RefusedBusy, Resend, Sendable
<1>13. CASE Refused(c)
    BY <1>13, <1>p, <1>r, ReturnMoves DEF Refused, Sendable
<1>14. CASE FirstDelay(c)
    BY <1>14, <1>p, GoMoves DEF FirstDelay, Proceed
<1>15. CASE SettleChild(c)
    BY <1>15, <1>p, <1>r, ReturnMoves, PollMoves, GoMoves DEF SettleChild
<1>16. CASE SettleBalancer(c)
    BY <1>16, <1>p, <1>r, ReturnMoves, PollMoves, GoMoves DEF SettleBalancer, Proceed
<1>17. CASE ConfirmMembers(c)
    BY <1>17, <1>p, <1>r, ReturnMoves DEF ConfirmMembers
<1>18. CASE WaitResized(c)
    BY <1>18, <1>p, <1>r, ReturnMoves, PollMoves DEF WaitResized
<1>19. CASE WaitChildDeleted(c)
    BY <1>19, <1>p, <1>r, ReturnMoves, PollMoves, GoMoves DEF WaitChildDeleted
<1>20. CASE WaitBalancerDeleted(c)
    BY <1>20, <1>p, <1>r, ReturnMoves, PollMoves DEF WaitBalancerDeleted
<1>21. CASE Cancel(c)
    BY <1>21, <1>p, <1>r, ReturnMoves DEF Cancel
<1> QED
    BY <1>1, <1>2, <1>3, <1>4, <1>5, <1>6, <1>7, <1>8, <1>9, <1>10, <1>11, <1>12, <1>13, <1>14, <1>15,
       <1>16, <1>17, <1>18, <1>19, <1>20, <1>21 DEF Step

LEMMA AcceptedMoves ==
    ASSUME ClientOK, NEW c \in Call, Accepted(c) PROVE Moves(c)
<1>1. Waits(c) \in PC \ (Before \cup {"done"}) /\ Waits(c) \notin {"done", "check"} /\ pc[c] = "send"
    BY DEF Accepted, Sendable, Waits, PC, Before
<1>2. CASE Succeed(c)
    BY <1>1, <1>2, ReturnMoves, GoMoves DEF Succeed, Proceed, Result, Before
<1>3. CASE Fail(c, TRUE)
    BY <1>1, <1>3, FailMoves
<1> QED
    BY <1>2, <1>3 DEF Accepted

-----------------------------------------------------------------------------
LockInv == \A c \in Call : Inside(c) => lock[Mine(c)] = c

LEMMA LockMoves ==
    ASSUME ClientOK, ServiceOK, AskedInv, LockInv, plan' = plan, NEW c \in Call, Moves(c)
    PROVE  LockInv'
<1> SUFFICES ASSUME NEW d \in Call, Inside(d)' PROVE lock'[Mine(d)] = d
    BY DEF LockInv, Mine
<1>1. c \in DOMAIN plan /\ Mine(c) \in Client /\ (d # c => Inside(d) /\ lock[Mine(d)] = d)
    BY ThingType DEF Moves, AskedInv, Inside, LockInv
<1>2. d # NoCall /\ Mine(d) \in Client
    <2>1. d \in DOMAIN plan
        BY <1>1 DEF Inside, AskedInv
    <2> QED
        BY <2>1, ThingType, LoadBalancerAssumption
<1>3. CASE Frees(c)
    BY <1>1, <1>2, <1>3 DEF Frees, Inside
<1>4. CASE Stays(c)
    BY <1>1, <1>4 DEF Stays, Moves, Inside, LockInv, Mine
<1>5. CASE Takes(c)
    BY <1>1, <1>2, <1>5 DEF Takes, ClientOK
<1> QED
    BY <1>3, <1>4, <1>5 DEF Moves

\* A paid request the service accepted is behind its call for good.
PaidInv == \A c \in DOMAIN plan :
    /\ pc[c] # "done" => result[c] = "none"
    /\ Asked(c) \in Paid /\ accepted[c] # 0
         => accepted[c] = 1 /\ pc[c] \notin Before /\ result[c] # "busy"

LEMMA PaidQuiet ==
    ASSUME ServiceOK, PaidInv, Quiet, NEW c \in Call, Moves(c) PROVE PaidInv'
<1>1. plan' = plan /\ accepted' = accepted /\ DOMAIN plan \subseteq Call
    BY PlanType DEF Quiet, history, ServiceOK
<1> SUFFICES ASSUME NEW d \in DOMAIN plan
             PROVE  /\ pc'[d] # "done" => result'[d] = "none"
                    /\ Asked(d) \in Paid /\ accepted[d] # 0
                         => accepted[d] = 1 /\ pc'[d] \notin Before /\ result'[d] # "busy"
    BY <1>1 DEF PaidInv, Asked
<1>2. CASE d = c
    BY <1>2 DEF Moves, PaidInv
<1>3. CASE d # c
    BY <1>1, <1>3 DEF Moves, PaidInv
<1> QED
    BY <1>2, <1>3

\* The transport does not repeat a paid request that may have been acted on.
LEMMA PaidAccepted ==
    ASSUME ClientOK, ServiceOK, AskedInv, PaidInv, NEW c \in Call, Accepted(c) PROVE PaidInv'
<1>1. plan' = plan /\ DOMAIN plan \subseteq Call /\ c \in DOMAIN plan /\ Moves(c) /\ pc[c] = "send"
    BY PlanType, AcceptedType, AcceptedMoves DEF ServiceOK, Accepted, Sendable
<1>2. /\ accepted' = [accepted EXCEPT ![c] = @ + 1] /\ accepted \in [Call -> Nat]
      /\ pc \in [Call -> PC] /\ result \in [Call -> Result]
    BY DEF Accepted, ServiceOK, HistoryOK, ClientOK
<1>3. ASSUME Asked(c) \in Paid PROVE accepted'[c] = 1 /\ pc'[c] \notin Before /\ result'[c] # "busy"
    <2>1. accepted[c] = 0 /\ result[c] = "none"
        BY <1>1, <1>3 DEF PaidInv, Before
    <2>2. ~Retried(c)
        BY <1>3 DEF Paid, Retried
    <2>3. pc'[c] \notin Before /\ result'[c] # "busy"
        <3>1. CASE Succeed(c)
            BY <3>1, <1>2, <2>1 DEF Succeed, Return, Proceed, Goto, Waits, Before
        <3>2. CASE Fail(c, TRUE)
            BY <3>2, <1>2, <2>2 DEF Fail, Return, Goto, Before
        <3> QED
            BY <3>1, <3>2 DEF Accepted
    <2> QED
        BY <1>2, <2>1, <2>3
<1> SUFFICES ASSUME NEW d \in DOMAIN plan
             PROVE  /\ pc'[d] # "done" => result'[d] = "none"
                    /\ Asked(d) \in Paid /\ accepted'[d] # 0
                         => accepted'[d] = 1 /\ pc'[d] \notin Before /\ result'[d] # "busy"
    BY <1>1 DEF PaidInv, Asked
<1>4. CASE d = c
    BY <1>1, <1>3, <1>4 DEF Moves, PaidInv
<1>5. CASE d # c
    BY <1>1, <1>2, <1>5 DEF Moves, PaidInv
<1> QED
    BY <1>4, <1>5

IInv == ClientOK /\ ServiceOK /\ AskedInv /\ LockInv /\ PaidInv

LEMMA InvInit == Init => IInv
<1> SUFFICES ASSUME Init PROVE IInv
    OBVIOUS
<1>1. ClientOK /\ ServiceOK /\ AskedInv
    BY TypeInit, TypeParts, AskedInit
<1>2. LockInv
    BY DEF LockInv, Inside, Init
<1>3. PaidInv
    BY PlanType DEF PaidInv, Init
<1> QED
    BY <1>1, <1>2, <1>3 DEF IInv

LEMMA InvStep == IInv /\ [Next]_vars => IInv'
<1> SUFFICES ASSUME IInv, [Next]_vars PROVE IInv'
    OBVIOUS
<1>1. ClientOK' /\ ServiceOK' /\ AskedInv'
    BY TypeStep, TypeParts DEF IInv, TypeOK, ClientOK, ServiceOK, HistoryOK
<1>2. ASSUME UNCHANGED <<plan, client, accepted>> PROVE LockInv' /\ PaidInv'
    BY <1>2 DEF IInv, client, LockInv, PaidInv, Inside, Mine, Asked
<1>3. ASSUME UNCHANGED vars PROVE LockInv' /\ PaidInv'
    BY <1>2, <1>3 DEF vars, client, history
<1>4. ASSUME NEW c \in Call, Step(c) \/ Cancel(c), ~Accepted(c) PROVE LockInv' /\ PaidInv'
    <2>1. Moves(c) /\ Quiet /\ plan' = plan
        BY <1>4, QuietMoves, QuietStepType, QuietType DEF IInv
    <2> QED
        BY <2>1, LockMoves, PaidQuiet DEF IInv
<1>5. ASSUME NEW c \in Call, Accepted(c) PROVE LockInv' /\ PaidInv'
    <2>1. Moves(c) /\ plan' = plan
        BY <1>5, AcceptedMoves, AcceptedType DEF IInv
    <2> QED
        BY <1>5, <2>1, LockMoves, PaidAccepted DEF IInv
<1>6. ASSUME NEW j \in jobs, StartJob(j) \/ EndJob(j) PROVE LockInv' /\ PaidInv'
    BY <1>2, <1>6, ServiceType DEF IInv
<1>7. LockInv' /\ PaidInv'
    BY <1>3, <1>4, <1>5, <1>6 DEF Next, Service, Finished
<1> QED
    BY <1>1, <1>7 DEF IInv

LEMMA Invariant == Spec => []IInv
BY InvInit, InvStep, PTL DEF Spec

\* The writes of one Client are serialized, from the lock to the return.
THEOREM LockCorrect == Spec => []Serialized
<1>1. IInv => Serialized
    BY DEF IInv, LockInv, Serialized
<1> QED
    BY <1>1, Invariant, PTL

\* The service accepts at most one request of a create or a resize.
THEOREM OrderCorrect == Spec => []OrderedOnce
<1>1. IInv => OrderedOnce
    <2> SUFFICES ASSUME IInv, NEW c \in DOMAIN plan, Asked(c) \in Paid PROVE accepted[c] <= 1
        BY DEF OrderedOnce
    <2>1. accepted[c] = 0 \/ accepted[c] = 1
        BY DEF IInv, PaidInv
    <2> QED
        BY <2>1
<1> QED
    BY <1>1, Invariant, PTL

\* A create or a resize that reports ErrBusy ordered nothing.
THEOREM BusyCorrect == Spec => []BusyMeansUntouched
<1>1. IInv => BusyMeansUntouched
    BY DEF IInv, PaidInv, BusyMeansUntouched
<1> QED
    BY <1>1, Invariant, PTL

-----------------------------------------------------------------------------
\* What a call carries and where it came from: every step of a call that the
\* service does not notice, seen from its pc after the step.
Settles(c) ==
    \/ pc[c] \in {"settleLB", "goneLB"} /\ Asked(c) \notin MemberOps
    \/ pc[c] = "confirm" /\ SameMembers(Members(c), body[c])
    \/ pc[c] = "resized" /\ thing[Balancer].content[Package] = plan[c].val
    \/ pc[c] = "gone" /\ Asked(c) = "deleteBalancer"

Decided(c) ==
    /\ Asked(c) \in MemberOps => body'[c] = Merge(Members(c), c)
    /\ Asked(c) \in UpdateOps => body'[c] = Merge(read[c].content, c)
    /\ Asked(c) = "resize" => body'[c] = Merge(Empty, c)

Comes(c, w) ==
    CASE w = "check" -> FALSE
      [] w = "lock" -> pc[c] = "check"
      [] w = "current" -> pc[c] = "lock" /\ Asked(c) \in {"resize", "deleteBalancer"}
      [] w = "pre" -> \/ pc[c] \in {"pre", "child"}
                      \/ pc[c] = "lock" /\ Asked(c) # "resize"
                      \/ pc[c] = "current" /\ Asked(c) = "resize"
                            /\ thing[Balancer].content[Package] # plan[c].val
                      \/ pc[c] = "send" /\ Resends(c)
      [] w = "child" -> pc[c] = "pre" /\ OnChild(c)
      [] w = "decide" -> /\ ~resent[c]
                         /\ \/ pc[c] = "child" /\ read'[c] = thing[On(c)]
                            \/ pc[c] = "pre" /\ ~OnChild(c)
      [] w = "send" -> \/ pc[c] = "send"
                       \/ pc[c] \in {"pre", "child"} /\ resent[c]
                       \/ pc[c] = "decide" /\ Decided(c)
                       \/ pc[c] = "current" /\ Asked(c) # "resize"
      [] w = "settle" -> \/ pc[c] = "delay" /\ (Prompt => \A j \in jobs : j.call = c => j.started)
                         \/ pc[c] \in {"settle", "settleLB"}
      [] w = "settleLB" -> pc[c] = "settle" /\ ~Busy(On(c))
      [] w = "confirm" -> pc[c] \in {"settleLB", "goneLB"} /\ Asked(c) \in MemberOps
      [] w = "resized" -> pc[c] = "resized"
      [] w = "gone" -> pc[c] \in {"gone", "goneLB"} \/ (pc[c] = "current" /\ Asked(c) # "resize")
      [] w = "goneLB" -> pc[c] = "gone" /\ Asked(c) \in DeleteOps
      [] w = "done" -> result'[c] = "settled" => Settles(c)
      [] OTHER -> FALSE

Walks(c) ==
    /\ \A d \in Call \ {c} : /\ pc'[d] = pc[d] /\ result'[d] = result[d] /\ resent'[d] = resent[d]
                             /\ read'[d] = read[d] /\ body'[d] = body[d]
    /\ pc[c] # "done" /\ Comes(c, pc'[c])
    /\ pc'[c] # "done" => result'[c] = result[c]
    /\ pc'[c] # "done" /\ pc[c] # "decide" => body'[c] = body[c]
    /\ resent'[c] # resent[c] => pc[c] = "send" /\ pc'[c] = "pre"

LEMMA ReturnWalks ==
    ASSUME ClientOK, NEW c \in Call, NEW r, Return(c, r), pc[c] # "done", r = "settled" => Settles(c)
    PROVE  Walks(c)
BY DEF ClientOK, Return, Goto, Walks, Comes

LEMMA GoWalks ==
    ASSUME ClientOK, NEW c \in Call, NEW w, Goto(c, w), w # "done", pc[c] # "done", Comes(c, w),
           UNCHANGED <<body, resent, result>>, \A d \in Call \ {c} : read'[d] = read[d]
    PROVE  Walks(c)
<1>1. pc'[c] = w /\ \A d \in Call \ {c} : pc'[d] = pc[d]
    BY DEF ClientOK, Goto
<1> QED
    BY <1>1 DEF Walks

LEMMA PollWalks ==
    ASSUME ClientOK, NEW c \in Call, NEW w, NEW r, Poll(c, w, r), w # "done", pc[c] # "done", Comes(c, w),
           r # "settled"
    PROVE  Walks(c)
BY ReturnWalks, GoWalks DEF Poll

LEMMA SendWalks ==
    ASSUME ClientOK, NEW c \in Call, NEW b, SendBody(c, b), pc[c] = "decide",
           Asked(c) \in MemberOps => b = Merge(Members(c), c),
           Asked(c) \in UpdateOps => b = Merge(read[c].content, c),
           Asked(c) = "resize" => b = Merge(Empty, c)
    PROVE  Walks(c)
<1>1. pc'[c] = "send" /\ body'[c] = b /\ \A d \in Call \ {c} : pc'[d] = pc[d] /\ body'[d] = body[d]
    BY DEF ClientOK, SendBody, Goto
<1>2. Comes(c, "send")
    BY <1>1 DEF Comes, Decided
<1> QED
    BY <1>1, <1>2 DEF Walks, SendBody

LEMMA FailWalks ==
    ASSUME ClientOK, NEW c \in Call, NEW acted, Fail(c, acted), pc[c] = "send" PROVE Walks(c)
<1>1. CASE Return(c, "error")
    BY <1>1, ReturnWalks
<1>2. CASE UNCHANGED <<lock, pc, read, body, reads, resent, result>>
    BY <1>2 DEF Walks, Comes
<1> QED
    BY <1>1, <1>2 DEF Fail

LEMMA ReadWalks ==
    ASSUME ClientOK, NEW c \in Call, NEW r, read' = [read EXCEPT ![c] = r]
    PROVE  read'[c] = r /\ \A d \in Call \ {c} : read'[d] = read[d]
BY DEF ClientOK

LEMMA QuietWalks ==
    ASSUME ClientOK, ServiceOK, AskedInv, NEW c \in Call, Step(c) \/ Cancel(c), ~Accepted(c)
    PROVE  Walks(c)
<1>d. c \in DOMAIN plan \/ pc[c] = "done"
    BY DEF AskedInv
<1>a. Asked(c) \in Op \/ pc[c] = "done"
    BY <1>d, ThingType DEF Asked, Plan
<1>1. CASE CheckDefaultPool(c)
    BY <1>1, ReturnWalks, GoWalks DEF CheckDefaultPool, Proceed, Comes
<1>2. CASE LockLoadBalancer(c)
    BY <1>2, GoWalks DEF LockLoadBalancer, Comes
<1>3. CASE ReadCurrent(c)
    BY <1>3, ReturnWalks, GoWalks, ReadWalks DEF ReadCurrent, Proceed, Comes
<1>4. CASE PreWriteBalancer(c)
    <2>1. CASE Proceed(c, AfterPreWrite(c)) /\ UNCHANGED read /\ ~OnChild(c)
        BY <1>4, <2>1, GoWalks DEF PreWriteBalancer, Proceed, AfterPreWrite, Comes
    <2>2. CASE Goto(c, "child") /\ OnChild(c) /\ UNCHANGED <<lock, read, body, reads, tries, resent, result>>
        BY <1>4, <2>2, GoWalks DEF PreWriteBalancer, Comes
    <2>3. CASE Return(c, "error") \/ Poll(c, "pre", "busy")
        BY <1>4, <2>3, ReturnWalks, PollWalks DEF PreWriteBalancer, Comes
    <2> QED
        BY <1>4, <2>1, <2>2, <2>3 DEF PreWriteBalancer
<1>5. CASE PreWriteChild(c)
    BY <1>5, ReturnWalks, PollWalks, GoWalks, ReadWalks DEF PreWriteChild, Proceed, AfterPreWrite, Comes
<1>6. CASE AddPoolMember(c) \/ UpdatePoolMember(c) \/ RemovePoolMember(c)
    BY <1>6, ReturnWalks, SendWalks
       DEF AddPoolMember, UpdatePoolMember, RemovePoolMember, ListMembers, Deciding, MemberOps, UpdateOps
<1>7. CASE UpdatePool(c) \/ UpdateListener(c) \/ UpdatePolicy(c)
    BY <1>7, ReturnWalks, SendWalks
       DEF UpdatePool, UpdateListener, UpdatePolicy, Update, Deciding, MemberOps, UpdateOps
<1>8. CASE CreatePool(c) \/ CreateListener(c) \/ CreatePolicy(c)
    BY <1>8, ReturnWalks, SendWalks
       DEF CreatePool, CreateListener, CreatePolicy, Create, Deciding, MemberOps, UpdateOps
<1>9. CASE DeletePool(c) \/ DeleteListener(c) \/ DeletePolicy(c)
    BY <1>9, SendWalks
       DEF DeletePool, DeleteListener, DeletePolicy, Delete, Deciding, MemberOps, UpdateOps
<1>10. CASE ResizeLoadBalancer(c)
    BY <1>10, ReturnWalks, SendWalks DEF ResizeLoadBalancer, Deciding, MemberOps, UpdateOps
<1>11. CASE NotReached(c)
    BY <1>11, FailWalks DEF NotReached, Sendable
<1>12. CASE RefusedBusy(c)
    <2>1. CASE Resend(c) /\ Resends(c)
        BY <1>12, <2>1 DEF RefusedBusy, Resend, Sendable, Goto, Walks, Comes, ClientOK
    <2> QED
        BY <1>12, <2>1, ReturnWalks DEF RefusedBusy, Sendable
<1>13. CASE Refused(c)
    BY <1>13, ReturnWalks DEF Refused, Sendable
<1>14. CASE FirstDelay(c)
    BY <1>14, GoWalks DEF FirstDelay, Proceed, Comes
<1>15. CASE SettleChild(c)
    BY <1>15, ReturnWalks, PollWalks, GoWalks DEF SettleChild, Comes
<1>16. CASE SettleBalancer(c)
    BY <1>16, ReturnWalks, PollWalks, GoWalks DEF SettleBalancer, Proceed, Comes, Settles
<1>17. CASE ConfirmMembers(c)
    BY <1>17, ReturnWalks DEF ConfirmMembers, Settles
<1>18. CASE WaitResized(c)
    BY <1>18, ReturnWalks, PollWalks DEF WaitResized, Settles, Comes
<1>19. CASE WaitChildDeleted(c)
    BY <1>19, ReturnWalks, PollWalks, GoWalks DEF WaitChildDeleted, Comes
<1>20. CASE WaitBalancerDeleted(c)
    BY <1>20, ReturnWalks, PollWalks DEF WaitBalancerDeleted, Comes, Settles
<1>21. CASE Cancel(c)
    BY <1>21, ReturnWalks DEF Cancel
<1> QED
    BY <1>1, <1>2, <1>3, <1>4, <1>5, <1>6, <1>7, <1>8, <1>9, <1>10, <1>11, <1>12, <1>13, <1>14, <1>15,
       <1>16, <1>17, <1>18, <1>19, <1>20, <1>21 DEF Step

\* The answer to a request the service took.
Answers(c) ==
    /\ \A d \in Call \ {c} : /\ pc'[d] = pc[d] /\ result'[d] = result[d] /\ resent'[d] = resent[d]
                             /\ read'[d] = read[d] /\ body'[d] = body[d]
    /\ pc[c] = "send" /\ resent'[c] = resent[c]
    /\ pc'[c] \in {"done", "send", Waits(c)}
    /\ pc'[c] = "send" => Retried(c)
    /\ IF pc'[c] = "done" THEN result'[c] # "settled" ELSE body'[c] = body[c] /\ result'[c] = result[c]

LEMMA AcceptedAnswers ==
    ASSUME ClientOK, NEW c \in Call, Accepted(c) PROVE Answers(c)
<1>1. CASE Succeed(c)
    BY <1>1 DEF Accepted, Sendable, Succeed, Return, Proceed, Goto, Answers, ClientOK, Waits
<1>2. CASE Fail(c, TRUE)
    BY <1>2 DEF Accepted, Sendable, Fail, Return, Goto, Answers, ClientOK
<1> QED
    BY <1>1, <1>2 DEF Accepted

-----------------------------------------------------------------------------
Merges == MemberOps \cup UpdateOps
Waited == Merges \cup CreateOps
JobsOf(c) == {j \in jobs : j.call = c}

\* Which operation passes where.
RouteInv == \A c \in DOMAIN plan :
    /\ pc[c] = "check" => Asked(c) = "deletePool"
    /\ pc[c] = "current" => Asked(c) \in {"resize", "deleteBalancer"}
    /\ pc[c] = "child" => OnChild(c)
    /\ pc[c] \in {"delay", "settle", "settleLB"} => Asked(c) \in Waited
    /\ pc[c] = "confirm" => Asked(c) \in MemberOps
    /\ pc[c] = "goneLB" => Asked(c) \in DeleteOps
    /\ pc[c] = "gone" => Asked(c) \in DeleteOps \cup {"deleteBalancer"}
    /\ pc[c] = "resized" => Asked(c) = "resize"
    /\ resent[c] => Resends(c) /\ pc[c] \notin {"check", "lock", "current", "decide"}

\* A call whose wait is over has no write at the service: the first read of the
\* wait comes when the service has started the call's writes.
LandInv == \A c \in DOMAIN plan :
    /\ pc[c] \in {"check", "lock"} => JobsOf(c) = {}
    /\ Prompt /\ Asked(c) \in Waited =>
        /\ pc[c] = "settle" => \A j \in JobsOf(c) : j.started
        /\ pc[c] \in {"settleLB", "confirm"} \/ result[c] = "settled" => JobsOf(c) = {}

\* A members write carries its own member until it has confirmed it.
Carries(c) == pc[c] = "send" \/ (resent[c] /\ pc[c] \in {"pre", "child"})
BodyInv == \A c \in DOMAIN plan :
    Asked(c) \in MemberOps /\ (Carries(c) \/ pc[c] \in {"delay", "settle", "settleLB", "confirm"})
        => body[c][plan[c].key] = plan[c].val

\* A key of an object is held by a write of that object.
HolderInv == \A t \in Thing, k \in Key : writer[t][k] # NoCall =>
    /\ writer[t][k] \in DOMAIN plan /\ On(writer[t][k]) = t
    /\ Asked(writer[t][k]) \notin DeleteOps \cup {"deleteBalancer"}

\* Who has been robbed has its member missing and cannot report it settled.
RobInv == \A c \in robbed : c \in DOMAIN plan /\ (Asked(c) \in MemberOps =>
    thing[On(c)].content[plan[c].key] # plan[c].val /\ result[c] # "settled")

LEMMA AskedType == ASSUME ServiceOK, NEW c \in DOMAIN plan PROVE Asked(c) \in Op /\ c \in Call
BY ThingType DEF Asked, Plan

LEMMA RouteQuiet ==
    ASSUME ServiceOK, RouteInv, plan' = plan, NEW c \in Call, Walks(c) PROVE RouteInv'
<1> SUFFICES ASSUME NEW d \in DOMAIN plan
             PROVE  /\ pc'[d] = "check" => Asked(d) = "deletePool"
                    /\ pc'[d] = "current" => Asked(d) \in {"resize", "deleteBalancer"}
                    /\ pc'[d] = "child" => OnChild(d)
                    /\ pc'[d] \in {"delay", "settle", "settleLB"} => Asked(d) \in Waited
                    /\ pc'[d] = "confirm" => Asked(d) \in MemberOps
                    /\ pc'[d] = "goneLB" => Asked(d) \in DeleteOps
                    /\ pc'[d] = "gone" => Asked(d) \in DeleteOps \cup {"deleteBalancer"}
                    /\ pc'[d] = "resized" => Asked(d) = "resize"
                    /\ resent'[d] => Resends(d) /\ pc'[d] \notin {"check", "lock", "current", "decide"}
    BY DEF RouteInv, Asked, OnChild, Resends
<1>1. CASE d = c
    BY <1>1 DEF Walks, Comes, RouteInv
<1>2. CASE d # c
    BY <1>2, AskedType DEF Walks, RouteInv
<1> QED
    BY <1>1, <1>2

LEMMA RouteAccepted ==
    ASSUME ServiceOK, RouteInv, plan' = plan, NEW c \in Call, Answers(c) PROVE RouteInv'
<1> SUFFICES ASSUME NEW d \in DOMAIN plan
             PROVE  /\ pc'[d] = "check" => Asked(d) = "deletePool"
                    /\ pc'[d] = "current" => Asked(d) \in {"resize", "deleteBalancer"}
                    /\ pc'[d] = "child" => OnChild(d)
                    /\ pc'[d] \in {"delay", "settle", "settleLB"} => Asked(d) \in Waited
                    /\ pc'[d] = "confirm" => Asked(d) \in MemberOps
                    /\ pc'[d] = "goneLB" => Asked(d) \in DeleteOps
                    /\ pc'[d] = "gone" => Asked(d) \in DeleteOps \cup {"deleteBalancer"}
                    /\ pc'[d] = "resized" => Asked(d) = "resize"
                    /\ resent'[d] => Resends(d) /\ pc'[d] \notin {"check", "lock", "current", "decide"}
    BY DEF RouteInv, Asked, OnChild, Resends
<1>1. CASE d = c
    BY <1>1, AskedType DEF Answers, Waits, RouteInv, Op, Waited, Merges
<1>2. CASE d # c
    BY <1>2, AskedType DEF Answers, RouteInv
<1> QED
    BY <1>1, <1>2

LEMMA LandQuiet ==
    ASSUME ServiceOK, RouteInv, PaidInv, LandInv, Quiet, NEW c \in Call, Walks(c) PROVE LandInv'
<1>1. plan' = plan /\ jobs' = jobs
    BY DEF Quiet
<1> SUFFICES ASSUME NEW d \in DOMAIN plan
             PROVE  /\ pc'[d] \in {"check", "lock"} => JobsOf(d) = {}
                    /\ Prompt /\ Asked(d) \in Waited =>
                        /\ pc'[d] = "settle" => \A j \in JobsOf(d) : j.started
                        /\ pc'[d] \in {"settleLB", "confirm"} \/ result'[d] = "settled" => JobsOf(d) = {}
    BY <1>1 DEF LandInv, JobsOf, Asked
<1>2. CASE d = c
    <2>1. pc'[c] \in {"check", "lock"} => JobsOf(c) = {}
        BY <1>2 DEF Walks, Comes, LandInv
    <2> SUFFICES ASSUME Prompt, Asked(c) \in Waited
                 PROVE  /\ pc'[c] = "settle" => \A j \in JobsOf(c) : j.started
                        /\ pc'[c] \in {"settleLB", "confirm"} \/ result'[c] = "settled" => JobsOf(c) = {}
        BY <1>2, <2>1
    <2>2. Asked(c) \notin DeleteOps \cup {"deleteBalancer", "resize"}
        BY DEF Waited, Merges, MemberOps, UpdateOps, CreateOps, DeleteOps
    <2>3. pc'[c] = "settle" => \A j \in JobsOf(c) : j.started
        BY <1>2 DEF Walks, Comes, LandInv, JobsOf
    <2>4. pc'[c] = "settleLB" => JobsOf(c) = {}
        BY <1>2 DEF Walks, Comes, LandInv, JobsOf, Busy, On
    <2>5. pc'[c] = "confirm" => JobsOf(c) = {}
        BY <1>2, <2>2 DEF Walks, Comes, LandInv, RouteInv
    <2>6. result'[c] = "settled" => JobsOf(c) = {}
        BY <1>2, <2>2 DEF Walks, Comes, Settles, LandInv, RouteInv, PaidInv
    <2> QED
        BY <2>3, <2>4, <2>5, <2>6
<1>3. CASE d # c
    BY <1>3, AskedType DEF Walks, LandInv
<1> QED
    BY <1>2, <1>3

LEMMA LandAccepted ==
    ASSUME ServiceOK, PaidInv, LandInv, NEW c \in Call, Accepted(c), Answers(c) PROVE LandInv'
<1>1. /\ plan' = plan /\ \A d \in Call \ {c} : JobsOf(d)' = JobsOf(d)
    BY DEF Accepted, JobsOf
<1> SUFFICES ASSUME NEW d \in DOMAIN plan
             PROVE  /\ pc'[d] \in {"check", "lock"} => JobsOf(d)' = {}
                    /\ Prompt /\ Asked(d) \in Waited =>
                        /\ pc'[d] = "settle" => \A j \in JobsOf(d)' : j.started
                        /\ pc'[d] \in {"settleLB", "confirm"} \/ result'[d] = "settled" => JobsOf(d)' = {}
    BY <1>1 DEF LandInv, Asked
<1>2. CASE d = c
    <2>1. result[c] # "settled"
        BY <1>2 DEF PaidInv, Answers
    <2> QED
        BY <1>2, <2>1 DEF Answers, Waits
<1>3. CASE d # c
    BY <1>1, <1>3, AskedType DEF Answers, LandInv
<1> QED
    BY <1>2, <1>3

LEMMA LandService ==
    ASSUME ServiceOK, AskedInv, LandInv, UNCHANGED <<plan, client>>, NEW j \in jobs,
           jobs' = jobs \ {j} \/ jobs' = (jobs \ {j}) \cup {[j EXCEPT !.started = TRUE]}
    PROVE  LandInv'
<1>1. ASSUME NEW c PROVE /\ JobsOf(c) = {} => JobsOf(c)' = {}
                         /\ (\A i \in JobsOf(c) : i.started) => \A i \in JobsOf(c)' : i.started
    <2>1. [j EXCEPT !.started = TRUE].call = j.call /\ [j EXCEPT !.started = TRUE].started = TRUE
        BY JobType DEF Job
    <2> QED
        BY <2>1 DEF JobsOf
<1> QED
    BY <1>1 DEF LandInv, client, Asked

LEMMA BodyQuiet ==
    ASSUME ServiceOK, ClientOK, RouteInv, BodyInv, plan' = plan, NEW c \in Call, Walks(c) PROVE BodyInv'
<1> SUFFICES ASSUME NEW d \in DOMAIN plan, Asked(d) \in MemberOps,
                    (pc'[d] = "send" \/ (resent'[d] /\ pc'[d] \in {"pre", "child"}))
                        \/ pc'[d] \in {"delay", "settle", "settleLB", "confirm"}
             PROVE  body'[d][plan[d].key] = plan[d].val
    BY DEF BodyInv, Carries, Asked
<1>1. CASE d = c
    <2>1. Asked(c) \notin DeleteOps \cup {"deleteBalancer", "resize"}
        BY <1>1 DEF MemberOps, DeleteOps
    <2>2. CASE pc[c] = "decide"
        <3>1. body'[c] = Merge(Members(c), c)
            BY <1>1, <2>1, <2>2 DEF Walks, Comes, Decided, RouteInv
        <3>2. plan[c].key \in Key /\ Members(c) \in Content
            BY <1>1, ThingType DEF Plan, Members
        <3> QED
            BY <1>1, <3>1, <3>2 DEF Merge, Content
    <2>3. CASE pc[c] # "decide"
        <3>1. body'[c] = body[c]
            BY <1>1, <2>3 DEF Walks
        <3>2. Carries(c) \/ pc[c] \in {"delay", "settle", "settleLB", "confirm"}
            BY <1>1, <2>1, <2>3 DEF Walks, Comes, RouteInv, Carries
        <3> QED
            BY <1>1, <3>1, <3>2 DEF BodyInv
    <2> QED
        BY <2>2, <2>3
<1>2. CASE d # c
    BY <1>2, AskedType DEF Walks, BodyInv, Carries
<1> QED
    BY <1>1, <1>2

LEMMA BodyAccepted ==
    ASSUME ServiceOK, BodyInv, plan' = plan, NEW c \in Call, Answers(c) PROVE BodyInv'
<1> SUFFICES ASSUME NEW d \in DOMAIN plan, Asked(d) \in MemberOps,
                    (pc'[d] = "send" \/ (resent'[d] /\ pc'[d] \in {"pre", "child"}))
                        \/ pc'[d] \in {"delay", "settle", "settleLB", "confirm"}
             PROVE  body'[d][plan[d].key] = plan[d].val
    BY DEF BodyInv, Carries, Asked
<1>1. CASE d = c
    BY <1>1 DEF Answers, BodyInv, Carries, Waits
<1>2. CASE d # c
    BY <1>2, AskedType DEF Answers, BodyInv, Carries
<1> QED
    BY <1>1, <1>2

LEMMA HolderEnd ==
    ASSUME ServiceOK, AskedInv, HolderInv, NEW j \in jobs, plan' = plan,
           writer' = [writer EXCEPT ![On(j.call)] = [k \in Key |-> Holder(j, k)]]
    PROVE  HolderInv'
<1> SUFFICES ASSUME NEW t \in Thing, NEW k \in Key, writer'[t][k] # NoCall
             PROVE  /\ writer'[t][k] \in DOMAIN plan /\ On(writer'[t][k]) = t
                    /\ Asked(writer'[t][k]) \notin DeleteOps \cup {"deleteBalancer"}
    BY DEF HolderInv, On, Asked
<1>1. CASE t = On(j.call)
    <2>1. writer'[t][k] = Holder(j, k)
        BY <1>1 DEF ServiceOK, HistoryOK
    <2> QED
        BY <1>1, <2>1, JobType DEF Holder, HolderInv
<1>2. CASE t # On(j.call)
    BY <1>2 DEF HolderInv, ServiceOK, HistoryOK
<1> QED
    BY <1>1, <1>2

LEMMA RobQuiet ==
    ASSUME ServiceOK, RouteInv, BodyInv, RobInv, Quiet, NEW c \in Call, Walks(c)
    PROVE  RobInv'
<1>1. plan' = plan /\ thing' = thing /\ robbed' = robbed
    BY DEF Quiet, history
<1> SUFFICES ASSUME NEW d \in robbed, Asked(d) \in MemberOps PROVE result'[d] # "settled"
    BY <1>1 DEF RobInv, Asked, On
<1>2. /\ d \in DOMAIN plan /\ d \in Call /\ thing[On(d)].content[plan[d].key] # plan[d].val
      /\ result[d] # "settled" /\ Asked(d) \notin DeleteOps \cup {"deleteBalancer", "resize"}
      /\ plan[d].key \in MemberKey
    BY AskedType, ThingType DEF RobInv, MemberOps, DeleteOps, Plan, Asked
<1>3. CASE d = c
    <2>1. ASSUME Settles(c) PROVE FALSE
        BY <1>2, <1>3, <2>1 DEF Settles, RouteInv, SameMembers, Members, BodyInv
    <2> QED
        BY <1>2, <1>3, <2>1 DEF Walks, Comes
<1>4. CASE d # c
    BY <1>2, <1>4 DEF Walks
<1> QED
    BY <1>3, <1>4

LEMMA RobEnd ==
    ASSUME ServiceOK, AskedInv, PaidInv, HolderInv, RobInv, NEW j \in jobs, EndJob(j)
    PROVE  RobInv'
<1>1. plan' = plan /\ result' = result /\ pc' = pc
    BY DEF EndJob, client
<1>2. /\ j.call \in DOMAIN plan /\ On(j.call) \in Thing
      /\ thing \in [Thing -> Object] /\ \A v \in DOMAIN plan : On(v) \in Thing
    BY JobType, ThingType DEF ServiceOK
<1>3. CASE thing' = [thing EXCEPT ![On(j.call)] = Applied(j)]
           /\ robbed' = (robbed \cup {v \in Victims(j) : pc[v] # "done"})
                \ {v \in DOMAIN plan : On(v) = On(j.call) /\ Applied(j).content[plan[v].key] = plan[v].val}
    <2> SUFFICES ASSUME NEW d \in robbed'
                 PROVE  d \in DOMAIN plan /\ (Asked(d) \in MemberOps =>
                            thing'[On(d)].content[plan[d].key] # plan[d].val /\ result[d] # "settled")
        BY <1>1 DEF RobInv, Asked, On
    <2>1. CASE d \in robbed
        BY <1>2, <1>3, <2>1 DEF RobInv
    <2>2. CASE d \in Victims(j) /\ pc[d] # "done"
        <3>1. PICK k \in Overwritten(j) : d = writer[On(j.call)][k] /\ d # NoCall
            BY <2>2 DEF Victims
        <3>2. d \in DOMAIN plan /\ On(d) = On(j.call)
            BY <1>2, <3>1 DEF HolderInv, Overwritten
        <3> QED
            BY <1>2, <1>3, <2>2, <3>2 DEF PaidInv
    <2> QED
        BY <1>3, <2>1, <2>2
<1>4. CASE robbed' = robbed /\ \A t \in Thing : thing'[t].content = thing[t].content
    BY <1>1, <1>2, <1>4 DEF RobInv, Asked, On
<1>5. ASSUME thing' = [thing EXCEPT ![On(j.call)].there = TRUE, ![On(j.call)].failed = TRUE]
      PROVE  \A t \in Thing : thing'[t].content = thing[t].content
    BY <1>2, <1>5 DEF Object
<1> QED
    BY <1>3, <1>4, <1>5 DEF EndJob

-----------------------------------------------------------------------------
\* Of two calls of one Client that have both written, and have not been cut
\* short, one would still be inside with the other: none of the first has its
\* write at the service when the other is under way.
Busied(c) == pc[c] \notin {"check", "lock", "done"} \/ JobsOf(c) # {}

LEMMA Alone ==
    ASSUME LockInv, LandInv, Prompt,
           NEW c \in DOMAIN plan, NEW d \in DOMAIN plan, ServiceOK, c # d, Mine(c) = Mine(d),
           ~CutShort(c), ~CutShort(d), Asked(c) \in Waited, Asked(d) \in Waited, JobsOf(d) # {}
    PROVE  ~Busied(c)
<1>1. c \in Call /\ d \in Call
    BY AskedType
<1>2. ASSUME NEW e \in {c, d}, JobsOf(e) # {} PROVE Inside(e)
    BY <1>2 DEF LandInv, CutShort, Inside
<1> QED
    BY <1>1, <1>2 DEF Busied, LockInv, Inside

\* What an update or a members write carries of the keys it was not asked to
\* change is what they hold, as far as the calls of its own Client wrote them.
Keeps(c, b) == \A k \in Written(c) \ {plan[c].key} :
    LET v == writer[On(c)][k] IN
    v \in Call \ {c} /\ Mine(v) = Mine(c) /\ ~CutShort(v) /\ ~CutShort(c)
        => b[k] = thing[On(c)].content[k]

BasisInv == Prompt => \A c \in DOMAIN plan : Asked(c) \in Merges =>
    /\ pc[c] = "decide" /\ Asked(c) \in UpdateOps => Keeps(c, read[c].content)
    /\ Carries(c) => Keeps(c, body[c])
    /\ \A j \in JobsOf(c) : Keeps(c, j.body)

LEMMA WrittenType == ASSUME NEW c PROVE Written(c) \subseteq Key
BY LoadBalancerAssumption DEF Written

LEMMA KeepsLater ==
    ASSUME NEW c, NEW b, Keeps(c, b), UNCHANGED <<plan, thing, writer>>,
           \A d \in Call : CutShort(d) => CutShort(d)', c \in Call
    PROVE  Keeps(c, b)'
BY DEF Keeps, Written, Asked, On, Mine

LEMMA MergeKeeps ==
    ASSUME ServiceOK, NEW c \in DOMAIN plan, NEW m \in Content, Keeps(c, m)
    PROVE  Keeps(c, Merge(m, c))
BY WrittenType, ThingType DEF Keeps, Merge, Content

LEMMA ShortLater ==
    ASSUME NEW c \in Call, pc[c] # "done",
           \A d \in Call \ {c} : pc'[d] = pc[d] /\ result'[d] = result[d]
    PROVE  \A d \in Call : CutShort(d) => CutShort(d)'
BY DEF CutShort

LEMMA BasisQuiet ==
    ASSUME ServiceOK, ClientOK, RouteInv, BasisInv, Quiet, NEW c \in Call, Walks(c)
    PROVE  BasisInv'
<1>1. UNCHANGED <<plan, thing, jobs, writer>>
    BY DEF Quiet, history
<1>2. \A d \in Call : CutShort(d) => CutShort(d)'
    BY ShortLater DEF Walks
<1> SUFFICES ASSUME Prompt, NEW d \in DOMAIN plan, Asked(d) \in Merges
             PROVE  /\ pc'[d] = "decide" /\ Asked(d) \in UpdateOps => Keeps(d, read[d].content)'
                    /\ Carries(d)' => Keeps(d, body[d])'
                    /\ \A j \in JobsOf(d) : Keeps(d, j.body)'
    BY <1>1 DEF BasisInv, JobsOf, Asked
<1>d. d \in Call /\ Asked(d) \notin DeleteOps \cup {"deleteBalancer", "resize"} /\ OnChild(d)
    BY AskedType DEF Merges, MemberOps, UpdateOps, DeleteOps, CreateOps, OnChild
<1>k. \A b : Keeps(d, b) => Keeps(d, b)'
    BY <1>1, <1>2, <1>d, KeepsLater
<1>3. \A j \in JobsOf(d) : Keeps(d, j.body)'
    BY <1>k DEF BasisInv
<1>4. CASE d # c
    <2>1. UNCHANGED <<pc[d], resent[d], read[d], body[d]>>
        BY <1>d, <1>4 DEF Walks
    <2> QED
        BY <1>3, <1>k, <2>1 DEF BasisInv, Carries
<1>5. CASE d = c
    <2>1. ASSUME pc'[c] = "decide" PROVE Keeps(c, read[c].content)'
        <3>1. read'[c] = thing[On(c)]
            BY <1>5, <1>d, <2>1 DEF Walks, Comes
        <3> QED
            BY <1>1, <1>5, <3>1 DEF Keeps, On, Written, Asked
    <2>2. ASSUME Carries(c)', pc[c] # "decide" PROVE Keeps(c, body[c])'
        <3>1. Carries(c)
            BY <1>5, <1>d, <2>2 DEF Walks, Comes, RouteInv, Carries
        <3>2. body'[c] = body[c]
            BY <2>2 DEF Walks, Carries
        <3> QED
            BY <1>5, <1>k, <3>1, <3>2 DEF BasisInv
    <2>3. ASSUME Carries(c)', pc[c] = "decide" PROVE Keeps(c, body[c])'
        <3>1. Decided(c)
            BY <1>5, <1>d, <2>3 DEF Walks, Comes, RouteInv, Carries
        <3>2. CASE Asked(c) \in MemberOps
            <4>1. body'[c] = Merge(Members(c), c) /\ Members(c) \in Content /\ Keeps(c, Members(c))
                BY <1>5, <3>1, <3>2, ThingType DEF Decided, Members, Keeps
            <4> QED
                BY <1>5, <1>k, <4>1, MergeKeeps
        <3>3. CASE Asked(c) \in UpdateOps
            <4>1. body'[c] = Merge(read[c].content, c) /\ read[c].content \in Content /\ Keeps(c, read[c].content)
                BY <1>5, <2>3, <3>1, <3>3 DEF Decided, BasisInv, ClientOK, Object
            <4> QED
                BY <1>5, <1>k, <4>1, MergeKeeps
        <3> QED
            BY <1>5, <3>2, <3>3 DEF Merges
    <2> QED
        BY <1>3, <1>5, <2>1, <2>2, <2>3
<1> QED
    BY <1>4, <1>5

LEMMA BasisAccepted ==
    ASSUME ServiceOK, BasisInv, NEW c \in Call, Accepted(c), Answers(c)
    PROVE  BasisInv'
<1>1. UNCHANGED <<plan, thing, writer>>
    BY DEF Accepted
<1>2. \A d \in Call : CutShort(d) => CutShort(d)'
    BY ShortLater DEF Answers
<1> SUFFICES ASSUME Prompt, NEW d \in DOMAIN plan, Asked(d) \in Merges
             PROVE  /\ pc'[d] = "decide" /\ Asked(d) \in UpdateOps => Keeps(d, read[d].content)'
                    /\ Carries(d)' => Keeps(d, body[d])'
                    /\ \A j \in JobsOf(d)' : Keeps(d, j.body)'
    BY <1>1 DEF BasisInv, Asked
<1>d. d \in Call
    BY AskedType
<1>k. \A b : Keeps(d, b) => Keeps(d, b)'
    BY <1>1, <1>2, <1>d, KeepsLater
<1>4. CASE d # c
    <2>1. UNCHANGED <<pc[d], resent[d], read[d], body[d]>> /\ JobsOf(d)' = JobsOf(d)
        BY <1>d, <1>4 DEF Answers, Accepted, JobsOf
    <2> QED
        BY <1>k, <2>1 DEF BasisInv, Carries
<1>5. CASE d = c
    <2>1. Carries(c) /\ \A b : b = body[c] => Keeps(c, b)'
        BY <1>5, <1>k DEF Answers, Carries, BasisInv
    <2>2. pc'[c] # "decide" /\ (Carries(c)' => body'[c] = body[c])
        BY DEF Answers, Waits, Carries
    <2>3. \A j \in JobsOf(c)' : j \in JobsOf(c) \/ j.body = body[c]
        BY DEF Accepted, JobsOf
    <2> QED
        BY <1>5, <1>k, <2>1, <2>2, <2>3 DEF BasisInv
<1> QED
    BY <1>4, <1>5

LEMMA BasisStart ==
    ASSUME ServiceOK, AskedInv, BasisInv, NEW j \in jobs, StartJob(j)
    PROVE  BasisInv'
<1>1. UNCHANGED <<plan, thing, writer, pc, result, resent, read, body>>
    BY DEF StartJob, client, history
<1>2. \A c \in Call : \A b : Keeps(c, b) => Keeps(c, b)'
    BY <1>1, KeepsLater DEF CutShort
<1>3. ASSUME NEW c PROVE \A i \in JobsOf(c)' : \E h \in JobsOf(c) : i.body = h.body
    <2>1. [j EXCEPT !.started = TRUE].call = j.call /\ [j EXCEPT !.started = TRUE].body = j.body
        BY JobType DEF Job
    <2> QED
        BY <2>1 DEF StartJob, JobsOf
<1> QED
    BY <1>1, <1>2, <1>3, AskedType DEF BasisInv, Carries, Asked

\* The effect of a write that was carried out, on a child.
LEMMA AppliedKeeps ==
    ASSUME ServiceOK, AskedInv, NEW j \in jobs, Asked(j.call) \in Waited, NEW k \in Key, Holder(j, k) # j.call
    PROVE  /\ Applied(j).content[k] = thing[On(j.call)].content[k]
           /\ Holder(j, k) = writer[On(j.call)][k]
<1>1. /\ Asked(j.call) \notin DeleteOps \cup {"deleteBalancer", "resize"}
      /\ Asked(j.call) \in Merges /\ k # plan[j.call].key /\ k \notin Overwritten(j)
      /\ Holder(j, k) = writer[On(j.call)][k]
    BY DEF Holder, Waited, Merges, MemberOps, UpdateOps, CreateOps, DeleteOps
<1>2. k \in Written(j.call) => j.body[k] = thing[On(j.call)].content[k]
    BY <1>1 DEF Overwritten, Merges
<1> QED
    BY <1>1, <1>2 DEF Applied

LEMMA EndParts ==
    ASSUME ServiceOK, AskedInv, NEW j \in jobs, EndJob(j)
    PROVE  /\ UNCHANGED <<plan, client, accepted>> /\ jobs' = jobs \ {j}
           /\ \/ /\ \A t \in Thing : thing'[t].content = thing[t].content
                 /\ UNCHANGED <<writer, lost>>
              \/ /\ \A t \in Thing : thing'[t] = IF t = On(j.call) THEN Applied(j) ELSE thing[t]
                 /\ \A t \in Thing, k \in Key :
                        writer'[t][k] = IF t = On(j.call) THEN Holder(j, k) ELSE writer[t][k]
                 /\ lost' = lost \cup ({j.call} \X Victims(j))
<1>1. thing \in [Thing -> Object] /\ writer \in [Thing -> [Key -> Call \cup {NoCall}]]
    BY DEF ServiceOK, HistoryOK
<1>2. ASSUME thing' = [thing EXCEPT ![On(j.call)].there = TRUE, ![On(j.call)].failed = TRUE]
      PROVE  \A t \in Thing : thing'[t].content = thing[t].content
    BY <1>1, <1>2 DEF Object
<1> QED
    BY <1>1, <1>2 DEF EndJob

LEMMA BasisEnd ==
    ASSUME ServiceOK, AskedInv, LockInv, LandInv, BasisInv, NEW j \in jobs, EndJob(j)
    PROVE  BasisInv'
<1> DEFINE c == j.call
<1>1. UNCHANGED <<plan, pc, result, resent, read, body>> /\ jobs' = jobs \ {j}
    BY EndParts DEF client
<1>2. ASSUME Prompt, NEW d \in DOMAIN plan, Asked(d) \in Merges, Busied(d), NEW b, Keeps(d, b)
      PROVE  Keeps(d, b)'
    <2>1. d \in Call /\ On(d) \in Child /\ On(d) \in Thing /\ Asked(d) \in Waited
        BY <1>2, ThingType, LoadBalancerAssumption
           DEF Asked, On, Plan, Thing, Waited, Merges, MemberOps, UpdateOps
    <2>2. c \in DOMAIN plan /\ JobsOf(c) # {} /\ c \in Call
        BY JobType DEF JobsOf
    <2> SUFFICES ASSUME NEW k \in Written(d) \ {plan[d].key}, writer'[On(d)][k] \in Call \ {d},
                        Mine(writer'[On(d)][k]) = Mine(d), ~CutShort(writer'[On(d)][k]), ~CutShort(d)
                 PROVE  b[k] = thing'[On(d)].content[k]
        BY <1>1, <2>1 DEF Keeps, Written, Asked, On, Mine, CutShort
    <2>3. k \in Key
        BY WrittenType
    <2>4. ASSUME writer'[On(d)][k] = writer[On(d)][k], thing'[On(d)].content[k] = thing[On(d)].content[k]
          PROVE  b[k] = thing'[On(d)].content[k]
        BY <1>2, <2>4 DEF Keeps
    <2>5. CASE /\ \A t \in Thing : thing'[t].content = thing[t].content
               /\ UNCHANGED <<writer, lost>>
        BY <2>1, <2>4, <2>5
    <2>6. CASE /\ \A t \in Thing : thing'[t] = IF t = On(c) THEN Applied(j) ELSE thing[t]
               /\ \A t \in Thing, l \in Key : writer'[t][l] = IF t = On(c) THEN Holder(j, l) ELSE writer[t][l]
        <3>1. CASE On(d) # On(c)
            BY <2>1, <2>3, <2>4, <2>6, <3>1
        <3>2. CASE On(d) = On(c)
            <4>1. writer'[On(d)][k] = Holder(j, k) /\ thing'[On(d)] = Applied(j)
                BY <2>1, <2>3, <2>6, <3>2
            <4>2. Asked(c) \in Waited
                <5>1. Asked(c) \in Op /\ Asked(c) \notin {"resize", "deleteBalancer"}
                    BY <2>1, <2>2, <3>2, AskedType, ThingType, LoadBalancerAssumption
                       DEF On, Asked, Plan
                <5>2. Asked(c) \notin DeleteOps
                    BY <4>1, LoadBalancerAssumption DEF Holder
                <5> QED
                    BY <5>1, <5>2 DEF Op, Waited, Merges
            <4>3. Holder(j, k) # c
                <5>1. CASE c = d
                    BY <4>1, <5>1
                <5>2. CASE c # d
                    BY <1>2, <2>1, <2>2, <4>1, <4>2, <5>2, Alone
                <5> QED
                    BY <5>1, <5>2
            <4> QED
                BY <2>3, <2>4, <3>2, <4>1, <4>2, <4>3, AppliedKeeps
        <3> QED
            BY <3>1, <3>2
    <2> QED
        BY <2>5, <2>6, EndParts
<1>3. ASSUME Prompt, NEW d \in DOMAIN plan, Asked(d) \in Merges
      PROVE  /\ pc[d] = "decide" /\ Asked(d) \in UpdateOps => Keeps(d, read[d].content)'
             /\ Carries(d) => Keeps(d, body[d])'
             /\ \A i \in JobsOf(d) : Keeps(d, i.body)'
    <2>1. ASSUME NEW b, Keeps(d, b), Busied(d) PROVE Keeps(d, b)'
        BY <1>2, <1>3, <2>1
    <2>2. (pc[d] = "decide" \/ Carries(d) \/ JobsOf(d) # {}) => Busied(d)
        BY DEF Busied, Carries
    <2> QED
        BY <1>1, <1>3, <2>1, <2>2 DEF BasisInv
<1> QED
    BY <1>1, <1>3 DEF BasisInv, JobsOf, Carries, Asked

-----------------------------------------------------------------------------
\* The requests of a call at the service are told apart by their number.
JobInv ==
    /\ \A j \in jobs : j.n < accepted[j.call]
    /\ \A i, j \in jobs : i.call = j.call /\ i.n = j.n => i = j

LEMMA JobAccepted ==
    ASSUME ServiceOK, AskedInv, JobInv, NEW c \in Call, Accepted(c) PROVE JobInv'
<1> DEFINE new == [call |-> c, n |-> accepted[c], started |-> FALSE, body |-> body[c]]
<1>1. jobs' = jobs \cup {new} /\ new.call = c /\ new.n = accepted[c]
    BY DEF Accepted
<1>2. /\ accepted' = [accepted EXCEPT ![c] = @ + 1] /\ accepted \in [Call -> Nat]
      /\ \A j \in jobs : j.n \in Nat /\ j.call \in Call
    BY JobType DEF Accepted, ServiceOK, HistoryOK, Job
<1> HIDE DEF new
<1>3. accepted'[c] = accepted[c] + 1 /\ accepted[c] \in Nat /\ \A d \in Call \ {c} : accepted'[d] = accepted[d]
    BY <1>2
<1>4. \A j \in jobs' : j.n < accepted'[j.call]
    BY <1>1, <1>2, <1>3 DEF JobInv
<1>5. \A j \in jobs : j.call = c => j.n # accepted[c]
    BY <1>2, <1>3 DEF JobInv
<1> QED
    BY <1>1, <1>4, <1>5 DEF JobInv

LEMMA JobService ==
    ASSUME ServiceOK, AskedInv, JobInv, accepted' = accepted, NEW j \in jobs,
           jobs' = jobs \ {j} \/ jobs' = (jobs \ {j}) \cup {[j EXCEPT !.started = TRUE]}
    PROVE  JobInv'
<1>1. [j EXCEPT !.started = TRUE].call = j.call /\ [j EXCEPT !.started = TRUE].n = j.n
    BY JobType DEF Job
<1> QED
    BY <1>1 DEF JobInv

\* Two resizes of one Client, with no third about and none cut short.
Duel(c, d) ==
    /\ c # d /\ Mine(c) = Mine(d) /\ Asked(c) = "resize" /\ Asked(d) = "resize"
    /\ \A e \in DOMAIN plan \ {c, d} : Asked(e) # "resize"
    /\ ~CutShort(c) /\ ~CutShort(d)

PackageNow == thing[Balancer].content[Package]
PackageOf == writer[Balancer][Package]
Ordering(c) == pc[c] \in {"pre", "decide", "send", "resized"} \/ JobsOf(c) # {}

\* A resize under way does not find its package put there by the other one, and
\* is not told to have settled by it.
DuelInv == \A c, d \in DOMAIN plan : Duel(c, d) =>
    /\ Ordering(c) /\ PackageOf = d => PackageNow # plan[c].val
    /\ result[c] = "settled" => JobsOf(c) = {}

ResizeInv ==
    /\ PackageOf = NoCall => PackageNow = Nothing
    /\ \A c \in DOMAIN plan : Asked(c) = "resize" =>
        /\ pc[c] = "send" => body[c][Package] = plan[c].val
        /\ \A j \in JobsOf(c) : j.body[Package] = plan[c].val
        /\ PackageOf = c => JobsOf(c) = {} /\ accepted[c] # 0

LEMMA ResizeType ==
    ASSUME ServiceOK, NEW c \in DOMAIN plan
    PROVE  /\ Asked(c) = "resize" => On(c) = Balancer /\ plan[c].key = Package /\ plan[c].val # Nothing
                                     /\ c # NoCall /\ Asked(c) \notin Waited \cup DeleteOps \cup {"deleteBalancer"}
           /\ On(c) = Balancer => Asked(c) \in {"resize", "deleteBalancer"}
BY ThingType, LoadBalancerAssumption
   DEF Asked, On, Plan, Waited, Merges, MemberOps, UpdateOps, CreateOps, DeleteOps

LEMMA PackageHolder ==
    ASSUME ServiceOK, HolderInv, PackageOf # NoCall
    PROVE  PackageOf \in DOMAIN plan /\ Asked(PackageOf) = "resize"
<1>1. Balancer \in Thing /\ Package \in Key
    BY LoadBalancerAssumption DEF Thing
<1> QED
    BY <1>1, ResizeType DEF HolderInv, PackageOf

LEMMA ResizeQuiet ==
    ASSUME ServiceOK, RouteInv, ResizeInv, Quiet, NEW c \in Call, Walks(c) PROVE ResizeInv'
<1>1. UNCHANGED <<plan, jobs, accepted, PackageOf, PackageNow>>
    BY DEF Quiet, history, PackageOf, PackageNow
<1> SUFFICES ASSUME NEW d \in DOMAIN plan, Asked(d) = "resize", pc'[d] = "send"
             PROVE  body'[d][Package] = plan[d].val
    BY <1>1 DEF ResizeInv, JobsOf, Asked
<1>2. CASE d # c
    BY <1>2, AskedType DEF Walks, ResizeInv
<1>3. CASE d = c
    <2>1. CASE pc[c] = "send"
        BY <1>3, <2>1 DEF Walks, ResizeInv
    <2>2. CASE pc[c] = "decide"
        <3>1. body'[c] = Merge(Empty, c) /\ Package \in Key
            BY <1>3, <2>2, LoadBalancerAssumption DEF Walks, Comes, Decided
        <3> QED
            BY <1>3, <3>1, ResizeType DEF Merge, Empty
    <2> QED
        BY <1>3, <2>1, <2>2 DEF Walks, Comes, RouteInv, Resends
<1> QED
    BY <1>2, <1>3

LEMMA ResizeAccepted ==
    ASSUME ServiceOK, PaidInv, ResizeInv, NEW c \in Call, Accepted(c), Answers(c) PROVE ResizeInv'
<1>1. /\ UNCHANGED <<plan, PackageOf, PackageNow>> /\ pc[c] = "send" /\ accepted \in [Call -> Nat]
      /\ accepted' = [accepted EXCEPT ![c] = @ + 1]
      /\ JobsOf(c)' = JobsOf(c) \cup {[call |-> c, n |-> accepted[c], started |-> FALSE, body |-> body[c]]}
      /\ \A d \in Call \ {c} : JobsOf(d)' = JobsOf(d)
    BY DEF Accepted, PackageOf, PackageNow, JobsOf, Sendable, ServiceOK, HistoryOK
<1> SUFFICES ASSUME NEW d \in DOMAIN plan, Asked(d) = "resize"
             PROVE  /\ pc'[d] = "send" => body'[d][Package] = plan[d].val
                    /\ \A j \in JobsOf(d)' : j.body[Package] = plan[d].val
                    /\ PackageOf = d => JobsOf(d)' = {} /\ accepted'[d] # 0
    BY <1>1 DEF ResizeInv, Asked
<1>2. CASE d # c
    BY <1>1, <1>2, AskedType DEF Answers, ResizeInv
<1>3. CASE d = c
    <2>1. body[c][Package] = plan[c].val /\ \A j \in JobsOf(c)' : j.body[Package] = plan[c].val
        BY <1>1, <1>3 DEF ResizeInv
    <2>2. PackageOf # c
        BY <1>1, <1>3 DEF ResizeInv, PaidInv, Paid, Before
    <2> QED
        BY <1>3, <2>1, <2>2 DEF Answers
<1> QED
    BY <1>2, <1>3

LEMMA ResizeStart ==
    ASSUME ServiceOK, AskedInv, ResizeInv, NEW j \in jobs, StartJob(j) PROVE ResizeInv'
<1>1. UNCHANGED <<plan, accepted, pc, body, PackageOf, PackageNow>>
    BY DEF StartJob, client, history, PackageOf, PackageNow
<1>2. ASSUME NEW c PROVE /\ JobsOf(c) = {} => JobsOf(c)' = {}
                         /\ \A i \in JobsOf(c)' : \E h \in JobsOf(c) : i.body = h.body
    <2>1. [j EXCEPT !.started = TRUE].call = j.call /\ [j EXCEPT !.started = TRUE].body = j.body
        BY JobType DEF Job
    <2> QED
        BY <2>1 DEF StartJob, JobsOf
<1>3. \A c \in DOMAIN plan : Asked(c) = "resize" =>
          /\ pc[c] = "send" => body[c][Package] = plan[c].val
          /\ \A i \in JobsOf(c)' : i.body[Package] = plan[c].val
          /\ PackageOf = c => JobsOf(c)' = {} /\ accepted[c] # 0
    BY <1>2 DEF ResizeInv
<1> QED
    BY <1>1, <1>3 DEF ResizeInv, Asked

\* What a write that ends does to the package.
LEMMA PackageEnd ==
    ASSUME ServiceOK, AskedInv, NEW j \in jobs, EndJob(j)
    PROVE  \/ UNCHANGED <<PackageOf, PackageNow>>
           \/ Asked(j.call) = "resize" /\ PackageOf' = j.call
           \/ PackageOf' = NoCall /\ PackageNow' = Nothing
<1>1. Balancer \in Thing /\ Package \in Key /\ j.call \in DOMAIN plan
    BY JobType, LoadBalancerAssumption DEF Thing
<1>2. CASE /\ \A t \in Thing : thing'[t].content = thing[t].content
           /\ UNCHANGED <<writer, lost>>
    BY <1>1, <1>2 DEF PackageOf, PackageNow
<1>3. CASE /\ \A t \in Thing : thing'[t] = IF t = On(j.call) THEN Applied(j) ELSE thing[t]
           /\ \A t \in Thing, k \in Key : writer'[t][k] = IF t = On(j.call) THEN Holder(j, k) ELSE writer[t][k]
    <2>1. CASE On(j.call) # Balancer
        BY <1>1, <1>3, <2>1 DEF PackageOf, PackageNow
    <2>2. CASE On(j.call) = Balancer /\ Asked(j.call) = "resize"
        BY <1>1, <1>3, <2>2, ResizeType DEF PackageOf, Holder
    <2>3. CASE On(j.call) = Balancer /\ Asked(j.call) = "deleteBalancer"
        BY <1>1, <1>3, <2>3 DEF PackageOf, PackageNow, Holder, Applied, Absent, Empty
    <2> QED
        BY <1>1, <2>1, <2>2, <2>3, ResizeType
<1> QED
    BY <1>2, <1>3, EndParts

LEMMA ResizeEnd ==
    ASSUME ServiceOK, AskedInv, PaidInv, JobInv, ResizeInv, NEW j \in jobs, EndJob(j)
    PROVE  ResizeInv'
<1>1. UNCHANGED <<plan, accepted, pc, body>> /\ jobs' = jobs \ {j}
    BY EndParts DEF client
<1>2. ASSUME Asked(j.call) = "resize" PROVE JobsOf(j.call)' = {} /\ accepted[j.call] # 0
    <2>1. accepted[j.call] \in Nat /\ \A i \in jobs : i.n \in Nat
        BY JobType DEF ServiceOK, HistoryOK, Job
    <2>2. j.n < accepted[j.call] /\ accepted[j.call] = 1
        BY <1>2, <2>1, JobType DEF JobInv, PaidInv, Paid
    <2>3. \A i \in JobsOf(j.call) : i.n = 0 /\ j.n = 0
        BY <2>1, <2>2 DEF JobInv, JobsOf
    <2> QED
        BY <1>1, <2>2, <2>3 DEF JobInv, JobsOf
<1>3. \A c \in DOMAIN plan : JobsOf(c)' \subseteq JobsOf(c)
    BY <1>1 DEF JobsOf
<1>4. \A c \in DOMAIN plan : Asked(c) = "resize" =>
          /\ pc[c] = "send" => body[c][Package] = plan[c].val
          /\ \A i \in JobsOf(c)' : i.body[Package] = plan[c].val
    BY <1>3 DEF ResizeInv
<1>5. PackageOf' = NoCall => PackageNow' = Nothing
    BY PackageEnd, JobType, ResizeType DEF ResizeInv
<1>6. \A c \in DOMAIN plan : Asked(c) = "resize" /\ PackageOf' = c => JobsOf(c)' = {} /\ accepted[c] # 0
    BY <1>2, <1>3, PackageEnd, ResizeType DEF ResizeInv
<1> QED
    BY <1>1, <1>4, <1>5, <1>6 DEF ResizeInv, Asked

LEMMA DuelBack ==
    ASSUME plan' = plan, NEW c \in Call, NEW d \in Call, \A e \in Call : CutShort(e) => CutShort(e)', Duel(c, d)'
    PROVE  Duel(c, d)
BY DEF Duel, Mine, Asked

LEMMA DuelQuiet ==
    ASSUME ServiceOK, PaidInv, RouteInv, HolderInv, ResizeInv, DuelInv, Quiet, NEW e \in Call, Walks(e)
    PROVE  DuelInv'
<1>1. UNCHANGED <<plan, jobs, PackageOf, PackageNow>>
    BY DEF Quiet, history, PackageOf, PackageNow
<1>2. \A x \in Call : CutShort(x) => CutShort(x)'
    BY ShortLater DEF Walks
<1> SUFFICES ASSUME NEW c \in DOMAIN plan, NEW d \in DOMAIN plan, Duel(c, d)'
             PROVE  /\ Ordering(c)' /\ PackageOf = d => PackageNow # plan[c].val
                    /\ result'[c] = "settled" => JobsOf(c) = {}
    BY <1>1 DEF DuelInv, JobsOf
<1>3. c \in Call /\ Duel(c, d) /\ Asked(c) = "resize" /\ Asked(c) \notin Waited \cup DeleteOps \cup MemberOps
    BY <1>1, <1>2, AskedType, DuelBack, ResizeType DEF Duel, Waited, Merges
<1>4. CASE c # e
    BY <1>1, <1>3, <1>4 DEF Walks, DuelInv, Ordering, JobsOf
<1>5. CASE c = e
    <2>1. ASSUME Ordering(c)', PackageOf = d PROVE PackageNow # plan[c].val
        <3>1. CASE JobsOf(c) # {} \/ pc[c] \in {"pre", "decide", "send", "resized"}
            BY <1>3, <2>1, <3>1 DEF DuelInv, Ordering
        <3>2. CASE JobsOf(c) = {} /\ pc[c] \notin {"pre", "decide", "send", "resized"}
            <4>1. pc'[c] \in {"pre", "decide", "send", "resized"}
                BY <1>1, <2>1, <3>2 DEF Ordering, JobsOf
            <4> QED
                BY <1>3, <1>5, <3>2, <4>1 DEF Walks, Comes, RouteInv, OnChild, PackageNow
        <3> QED
            BY <3>1, <3>2
    <2>2. ASSUME result'[c] = "settled" PROVE JobsOf(c) = {}
        <3>1. pc[c] = "resized" /\ PackageNow = plan[c].val
            BY <1>3, <1>5, <2>2 DEF Walks, Comes, Settles, RouteInv, PaidInv, PackageNow
        <3>2. PackageOf # NoCall /\ PackageOf # d
            BY <1>3, <3>1, ResizeType DEF ResizeInv, DuelInv, Ordering
        <3>3. PackageOf = c
            BY <1>3, <3>2, PackageHolder DEF Duel
        <3> QED
            BY <1>3, <3>3 DEF ResizeInv
    <2> QED
        BY <2>1, <2>2
<1> QED
    BY <1>4, <1>5

LEMMA DuelAccepted ==
    ASSUME ServiceOK, AskedInv, PaidInv, DuelInv, NEW e \in Call, Accepted(e), Answers(e)
    PROVE  DuelInv'
<1>1. /\ UNCHANGED <<plan, PackageOf, PackageNow>> /\ pc[e] = "send"
      /\ \A x \in Call \ {e} : JobsOf(x)' = JobsOf(x)
    BY DEF Accepted, PackageOf, PackageNow, JobsOf, Sendable
<1>2. \A x \in Call : CutShort(x) => CutShort(x)'
    BY ShortLater DEF Answers
<1> SUFFICES ASSUME NEW c \in DOMAIN plan, NEW d \in DOMAIN plan, Duel(c, d)'
             PROVE  /\ Ordering(c)' /\ PackageOf = d => PackageNow # plan[c].val
                    /\ result'[c] = "settled" => JobsOf(c)' = {}
    BY <1>1 DEF DuelInv
<1>3. c \in Call /\ d \in Call /\ Duel(c, d)
    BY <1>1, <1>2, AskedType, DuelBack
<1>4. CASE c # e
    BY <1>1, <1>3, <1>4 DEF Answers, DuelInv, Ordering
<1>5. CASE c = e
    BY <1>1, <1>3, <1>5 DEF Answers, DuelInv, Ordering, PaidInv
<1> QED
    BY <1>4, <1>5

LEMMA DuelStart ==
    ASSUME ServiceOK, AskedInv, DuelInv, NEW j \in jobs, StartJob(j) PROVE DuelInv'
<1>1. UNCHANGED <<plan, pc, result, PackageOf, PackageNow>>
    BY DEF StartJob, client, history, PackageOf, PackageNow
<1>2. ASSUME NEW c PROVE JobsOf(c) = {} <=> JobsOf(c)' = {}
    <2>1. [j EXCEPT !.started = TRUE].call = j.call
        BY JobType DEF Job
    <2> QED
        BY <2>1 DEF StartJob, JobsOf
<1> QED
    BY <1>1, <1>2 DEF DuelInv, Duel, Ordering, CutShort, Mine, Asked

LEMMA DuelEnd ==
    ASSUME ServiceOK, AskedInv, LockInv, LandInv, DuelInv, NEW j \in jobs, EndJob(j)
    PROVE  DuelInv'
<1>1. UNCHANGED <<plan, pc, result>> /\ jobs' = jobs \ {j}
    BY EndParts DEF client
<1>2. \A c \in DOMAIN plan : JobsOf(c)' \subseteq JobsOf(c)
    BY <1>1 DEF JobsOf
<1> SUFFICES ASSUME NEW c \in DOMAIN plan, NEW d \in DOMAIN plan, Duel(c, d)
             PROVE  /\ Ordering(c)' /\ PackageOf' = d => PackageNow' # plan[c].val
                    /\ result[c] = "settled" => JobsOf(c)' = {}
    BY <1>1 DEF DuelInv, Duel, CutShort, Mine, Asked
<1>3. result[c] = "settled" => JobsOf(c)' = {}
    BY <1>2 DEF DuelInv
<1> SUFFICES ASSUME Ordering(c), PackageOf' = d PROVE PackageNow' # plan[c].val
    BY <1>1, <1>2, <1>3 DEF Ordering
<1>4. d # NoCall /\ c \in Call /\ d \in Call
    BY AskedType, ResizeType DEF Duel
<1>5. CASE UNCHANGED <<PackageOf, PackageNow>>
    BY <1>5 DEF DuelInv
<1>6. CASE j.call = d
    <2>1. Duel(d, c)
        BY DEF Duel
    <2>2. ASSUME NEW x \in {c, d}, JobsOf(x) # {} PROVE Inside(x)
        BY <2>1, <2>2 DEF LandInv, DuelInv, Duel, CutShort, Inside
    <2>3. Inside(d) /\ Inside(c)
        BY <1>6, <2>2 DEF Ordering, JobsOf, Inside
    <2> QED
        BY <1>4, <2>3 DEF LockInv, Duel
<1> QED
    BY <1>4, <1>5, <1>6, PackageEnd

-----------------------------------------------------------------------------
\* The losses among the writes of one Client are owned up to.
LEMMA OwnEnd ==
    ASSUME ServiceOK, AskedInv, HolderInv, BasisInv, ResizeInv, DuelInv, Prompt, OwnWritesRespected,
           NEW j \in jobs, EndJob(j)
    PROVE  OwnWritesRespected'
<1> DEFINE by == j.call
<1>1. UNCHANGED <<plan, pc, result>>
    BY EndParts DEF client
<1>2. \A c : CutShort(c)' = CutShort(c)
    BY <1>1 DEF CutShort
<1>3. by \in DOMAIN plan /\ by \in Call /\ JobsOf(by) # {} /\ j \in JobsOf(by) /\ On(by) \in Thing
    BY JobType, ThingType DEF JobsOf
<1>4. ASSUME NEW victim \in Victims(j), Mine(by) = Mine(victim), ~CutShort(by), ~CutShort(victim)
      PROVE  Misled(by, victim)
    <2>1. PICK k \in Overwritten(j) : victim = writer[On(by)][k] /\ victim # NoCall /\ victim # by
        BY <1>4 DEF Victims
    <2>2. k \in Key /\ victim \in DOMAIN plan /\ On(victim) = On(by) /\ victim \in Call
        BY <1>3, <2>1, AskedType DEF Overwritten, HolderInv
    <2>3. CASE Asked(by) \in Merges
        <3>1. Keeps(by, j.body) /\ k \in Written(by) \ {plan[by].key} /\ j.body[k] # thing[On(by)].content[k]
            BY <1>3, <2>1, <2>3 DEF BasisInv, Overwritten, Merges
        <3> QED
            BY <1>4, <2>1, <2>2, <3>1 DEF Keeps
    <2>4. CASE Asked(by) \notin Merges
        <3>1. Asked(by) = "resize" /\ k = Package /\ j.body[k] = thing[On(by)].content[k] /\ On(by) = Balancer
            BY <1>3, <2>1, <2>4, ResizeType DEF Overwritten, Merges
        <3>2. PackageNow = plan[by].val /\ PackageOf = victim
            BY <1>3, <2>1, <3>1 DEF ResizeInv, PackageNow, PackageOf
        <3>3. Asked(victim) = "resize"
            BY <2>1, <3>2, PackageHolder
        <3>4. ~Duel(by, victim)
            BY <1>3, <2>2, <3>2 DEF DuelInv, Ordering
        <3> QED
            BY <1>4, <2>1, <3>1, <3>3, <3>4 DEF Duel, Misled
    <2> QED
        BY <2>3, <2>4
<1>5. lost' = lost \/ lost' = lost \cup ({by} \X Victims(j))
    BY EndParts
<1> QED
    BY <1>1, <1>2, <1>4, <1>5 DEF OwnWritesRespected, Misled, Mine, Asked

LEMMA OwnLater ==
    ASSUME OwnWritesRespected, UNCHANGED <<plan, lost>>, \A c \in Call : CutShort(c) => CutShort(c)'
    PROVE  OwnWritesRespected'
BY DEF OwnWritesRespected, Misled, Mine, Asked

-----------------------------------------------------------------------------
WriteInv ==
    /\ RouteInv /\ LandInv /\ BodyInv /\ HolderInv /\ RobInv /\ BasisInv /\ JobInv /\ ResizeInv /\ DuelInv
    /\ Prompt => OwnWritesRespected

LEMMA WriteInit == Init => WriteInv
<1> SUFFICES ASSUME Init PROVE WriteInv
    OBVIOUS
<1>1. ServiceOK
    BY TypeInit, TypeParts
<1>2. jobs = {} /\ lost = {} /\ robbed = {} /\ \A c : JobsOf(c) = {}
    BY DEF Init, JobsOf
<1>3. \A c \in DOMAIN plan : c \in Call /\ pc[c] \in {"check", "lock"} /\ ~resent[c] /\ result[c] = "none"
                              /\ (pc[c] = "check" => Asked(c) = "deletePool")
    BY <1>1, AskedType DEF Init, Asked
<1>4. \A t \in Thing, k \in Key : writer[t][k] = NoCall
    BY DEF Init
<1>5. Balancer \in Thing /\ Package \in Key
    BY LoadBalancerAssumption DEF Thing
<1>6. RouteInv /\ LandInv /\ BodyInv /\ HolderInv /\ RobInv /\ JobInv
    BY <1>2, <1>3, <1>4 DEF RouteInv, LandInv, BodyInv, Carries, HolderInv, RobInv, JobInv
<1>7. BasisInv
    BY <1>2, <1>3 DEF BasisInv, Carries
<1>8. PackageNow = Nothing /\ PackageOf = NoCall
    BY <1>4, <1>5 DEF Init, PackageNow, PackageOf, Absent, Empty
<1>9. ResizeInv /\ DuelInv
    BY <1>1, <1>2, <1>3, <1>8, ResizeType DEF ResizeInv, DuelInv, Ordering, Duel
<1> QED
    BY <1>2, <1>6, <1>7, <1>9 DEF WriteInv, OwnWritesRespected

LEMMA WriteStep == IInv /\ WriteInv /\ [Next]_vars => WriteInv'
<1> SUFFICES ASSUME IInv, WriteInv, [Next]_vars PROVE WriteInv'
    OBVIOUS
<1> USE DEF IInv
<1>1. ASSUME UNCHANGED vars PROVE WriteInv'
    <2>1. UNCHANGED <<plan, thing, jobs, pc, read, body, resent, result, accepted, writer, lost, robbed>>
        BY <1>1 DEF vars, client, history
    <2> QED
        BY <2>1 DEF WriteInv, RouteInv, LandInv, BodyInv, HolderInv, RobInv, BasisInv, JobInv,
           ResizeInv, DuelInv,
             OwnWritesRespected, JobsOf, Carries, Keeps, Written, Duel, Ordering, CutShort, Misled, Asked, On,
             Mine, PackageNow, PackageOf, OnChild, Resends
<1>2. ASSUME NEW c \in Call, Step(c) \/ Cancel(c), ~Accepted(c) PROVE WriteInv'
    <2>1. Walks(c) /\ Quiet
        BY <1>2, QuietWalks, QuietStepType
    <2>2. UNCHANGED <<plan, thing, jobs, accepted, writer, lost, robbed>>
        BY <2>1 DEF Quiet, history
    <2>3. RouteInv' /\ LandInv' /\ BodyInv' /\ RobInv' /\ BasisInv' /\ ResizeInv' /\ DuelInv'
        BY <2>1, <2>2, RouteQuiet, LandQuiet, BodyQuiet, RobQuiet, BasisQuiet, ResizeQuiet, DuelQuiet
           DEF WriteInv
    <2>4. HolderInv' /\ JobInv'
        BY <2>2 DEF WriteInv, HolderInv, JobInv, On, Asked
    <2>5. Prompt => OwnWritesRespected'
        BY <2>1, <2>2, ShortLater, OwnLater DEF WriteInv, Walks
    <2> QED
        BY <2>3, <2>4, <2>5 DEF WriteInv
<1>3. ASSUME NEW c \in Call, Accepted(c) PROVE WriteInv'
    <2>1. Answers(c) /\ UNCHANGED <<plan, thing, writer, lost, robbed>>
        BY <1>3, AcceptedAnswers DEF Accepted
    <2>2. RouteInv' /\ LandInv' /\ BodyInv' /\ BasisInv' /\ JobInv' /\ ResizeInv' /\ DuelInv'
        BY <1>3, <2>1, RouteAccepted, LandAccepted, BodyAccepted, BasisAccepted, JobAccepted,
           ResizeAccepted,
           DuelAccepted DEF WriteInv
    <2>3. HolderInv'
        BY <2>1 DEF WriteInv, HolderInv, On, Asked
    <2>4. RobInv'
        <3>1. \A d \in robbed : d \in DOMAIN plan /\ d \in Call
            BY AskedType DEF WriteInv, RobInv
        <3> QED
            BY <2>1, <3>1 DEF WriteInv, RobInv, Answers, On, Asked
    <2>5. Prompt => OwnWritesRespected'
        BY <2>1, ShortLater, OwnLater DEF WriteInv, Answers
    <2> QED
        BY <2>2, <2>3, <2>4, <2>5 DEF WriteInv
<1>4. ASSUME NEW j \in jobs, StartJob(j) PROVE WriteInv'
    <2>1. UNCHANGED <<plan, thing, pc, body, resent, result, accepted, writer, lost, robbed>>
          /\ UNCHANGED client /\ jobs' = (jobs \ {j}) \cup {[j EXCEPT !.started = TRUE]}
        BY <1>4 DEF StartJob, client, history
    <2>2. LandInv' /\ BasisInv' /\ JobInv' /\ ResizeInv' /\ DuelInv'
        BY <1>4, <2>1, LandService, BasisStart, JobService, ResizeStart, DuelStart DEF WriteInv
    <2>3. RouteInv' /\ BodyInv' /\ HolderInv' /\ RobInv' /\ (Prompt => OwnWritesRespected')
        BY <2>1
           DEF WriteInv, RouteInv, BodyInv, Carries, HolderInv, RobInv, OwnWritesRespected, CutShort,
             Misled, On, Asked, Mine, OnChild, Resends
    <2> QED
        BY <2>2, <2>3 DEF WriteInv
<1>5. ASSUME NEW j \in jobs, EndJob(j) PROVE WriteInv'
    <2>1. UNCHANGED <<plan, pc, body, resent, result, accepted, client>> /\ jobs' = jobs \ {j}
        BY <1>5, EndParts DEF client
    <2>2. LandInv' /\ RobInv' /\ BasisInv' /\ JobInv' /\ ResizeInv' /\ DuelInv' /\ (Prompt => OwnWritesRespected')
        BY <1>5, <2>1, LandService, RobEnd, BasisEnd, JobService, ResizeEnd, DuelEnd, OwnEnd
           DEF WriteInv
    <2>3. RouteInv' /\ BodyInv'
        BY <2>1 DEF WriteInv, RouteInv, BodyInv, Carries, On, Asked, OnChild, Resends
    <2>4. HolderInv'
        <3>1. CASE writer' = writer
            BY <2>1, <3>1 DEF WriteInv, HolderInv, On, Asked
        <3>2. CASE writer' = [writer EXCEPT ![On(j.call)] = [k \in Key |-> Holder(j, k)]]
            BY <2>1, <3>2, HolderEnd DEF WriteInv
        <3> QED
            BY <1>5, <3>1, <3>2 DEF EndJob
    <2> QED
        BY <2>2, <2>3, <2>4 DEF WriteInv
<1> QED
    BY <1>1, <1>2, <1>3, <1>4, <1>5 DEF Next, Service, Finished

LEMMA WriteInvariant == Spec => []WriteInv
BY Invariant, WriteInit, WriteStep, PTL DEF Spec

\* A members write that lost its member to another writer is not settled.
THEOREM LossCorrect == Spec => []LossIsReported
<1>1. WriteInv => LossIsReported
    BY DEF WriteInv, RobInv, LossIsReported
<1> QED
    BY <1>1, WriteInvariant, PTL

\* A settled call has nothing left at the service, if the service starts what
\* it took within the first delay of the wait.
THEOREM LandedCorrect == ASSUME Prompt PROVE Spec => []SettledMeansLanded
<1>1. IInv /\ WriteInv => SettledMeansLanded
    BY DEF IInv, AskedInv, WriteInv, LandInv, SettledMeansLanded, Waited, Merges, JobsOf
<1> QED
    BY <1>1, Invariant, WriteInvariant, PTL

\* The writes of one Client are not undone by one another, under the same
\* condition.
THEOREM OwnCorrect == ASSUME Prompt PROVE Spec => []OwnWritesRespected
<1>1. WriteInv => OwnWritesRespected
    BY DEF WriteInv
<1> QED
    BY <1>1, WriteInvariant, PTL

=============================================================================
