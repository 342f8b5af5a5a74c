---------------------------- MODULE LoadBalancer ----------------------------
(***************************************************************************)
(* The writes of package loadbalancer: pools, their members, listeners and  *)
(* policies, the resize and the delete of the load balancer itself.  Every  *)
(* one takes the load balancer's lock of its Client, waits until nothing is *)
(* busy, merges what it read with what it was asked for, sends the whole    *)
(* object, once more after a busy refusal, and waits until it settled.      *)
(*                                                                         *)
(* The content of an object is a function of keys: a pool's member by its   *)
(* address and port, a field of a listener or a policy, the package of the  *)
(* load balancer.  The service queues a write, starts it (the statuses turn *)
(* busy) and ends it, each some time after the one before.                  *)
(***************************************************************************)
EXTENDS Naturals, FiniteSets

CONSTANTS
    Call,       \* calls of the package's writes
    Client,     \* Clients they are made on, in one process or many
    Balancer,   \* the load balancer
    Child,      \* its pools, listeners and policies
    Key, Value, \* what their contents are made of
    MemberKey,  \* the keys that are members of pools, the others are fields
    Nothing,    \* no value under a key
    NoCall,     \* nobody: a free lock, an initial value
    DefaultPool,\* the key of a listener that names its default pool
    Package,    \* the key of the load balancer that holds its package
    Start,      \* the children there at first, with their contents
    Plans,      \* what some of the calls do, each set of them to explore
    MaxReads,   \* bound: reads of one wait before its deadline
    Attempts,   \* those the transport of a Client makes, RetryCount + 1
    Prompt      \* the service starts a write within the first delay of a wait

Thing == Child \cup {Balancer}
Content == [Key -> Value \cup {Nothing}]

MemberOps == {"addMember", "updateMember", "removeMember"}
UpdateOps == {"updatePool", "updateListener", "updatePolicy"}
CreateOps == {"createPool", "createListener", "createPolicy"}
DeleteOps == {"deletePool", "deleteListener", "deletePolicy"}
Op == MemberOps \cup UpdateOps \cup CreateOps \cup DeleteOps
        \cup {"resize", "deleteBalancer"}

\* The load balancer is resized, to a package, or deleted; anything else is
\* done to one of its children.
Plan == {p \in [client : Client, op : Op, on : Thing, key : Key,
                val : Value \cup {Nothing}, noWait : BOOLEAN] :
            /\ p.on = Balancer <=> p.op \in {"resize", "deleteBalancer"}
            /\ p.op \in MemberOps => p.key \in MemberKey
            /\ p.op = "resize" => p.key = Package /\ p.val # Nothing}

ASSUME LoadBalancerAssumption ==
    /\ Balancer \notin Child /\ Nothing \notin Value /\ NoCall \notin Call
    /\ MemberKey \subseteq Key /\ Package \in Key \ MemberKey
    /\ Start \in [Child -> Content \cup {Nothing}]
    /\ \A p \in Plans : DOMAIN p \subseteq Call /\ \A c \in DOMAIN p : p[c] \in Plan
    /\ MaxReads \in Nat \ {0} /\ Attempts \in [Client -> Nat \ {0}]
    /\ Prompt \in BOOLEAN

VARIABLES
    plan,    \* what each call was asked for, never changes
    thing,   \* the objects at the service
    jobs,    \* writes the service accepted and has not ended
    lock,    \* Client.locks[Balancer] of each Client
    pc,
    read,    \* what a call last read of its object
    body,    \* what it sends
    reads,   \* reads of the wait it is in
    tries,   \* attempts of the request it is sending
    resent,  \* it has been refused as busy once
    result,
    accepted,\* history: requests of the call the service accepted
    writer,  \* history: the call whose write is what a key holds
    lost,    \* history: <<by, victim>>, by put an old value over victim's, or
             \* ordered the package victim had ordered
    robbed   \* history: calls not returned yet whose value is overwritten so

client == <<lock, pc, read, body, reads, tries, resent, result>>
history == <<accepted, writer, lost, robbed>>
vars == <<plan, thing, jobs, client, history>>

PC == {"check", "lock", "current", "pre", "child", "decide", "send", "delay",
       "settle", "settleLB", "confirm", "resized", "gone", "goneLB", "done"}
Result == {"none", "settled", "accepted", "unchanged", "busy", "failed", "notSettled",
           "canceled", "error", "invalid", "notFound", "inUse", "priced"}

Object == [there : BOOLEAN, failed : BOOLEAN, content : Content]
Job == [call : Call, n : Nat, started : BOOLEAN, body : Content]

TypeOK ==
    /\ plan \in Plans
    /\ thing \in [Thing -> Object]
    /\ jobs \subseteq Job
    /\ lock \in [Client -> Call \cup {NoCall}]
    /\ pc \in [Call -> PC]
    /\ read \in [Call -> Object]
    /\ body \in [Call -> Content]
    /\ reads \in [Call -> 0..MaxReads]
    /\ tries \in [Call -> Nat] /\ \A c \in DOMAIN plan : tries[c] < Attempts[plan[c].client]
    /\ resent \in [Call -> BOOLEAN]
    /\ result \in [Call -> Result]
    /\ accepted \in [Call -> Nat]
    /\ writer \in [Thing -> [Key -> Call \cup {NoCall}]]
    /\ lost \subseteq Call \X Call /\ robbed \subseteq Call

Empty == [k \in Key |-> Nothing]
Absent == [there |-> FALSE, failed |-> FALSE, content |-> Empty]

Init ==
    /\ plan \in Plans
    /\ thing = [t \in Thing |->
                  IF t = Balancer THEN [Absent EXCEPT !.there = TRUE]
                  ELSE IF Start[t] = Nothing THEN Absent
                  ELSE [there |-> TRUE, failed |-> FALSE, content |-> Start[t]]]
    /\ jobs = {}
    /\ lock = [a \in Client |-> NoCall]
    /\ pc = [c \in Call |-> IF c \notin DOMAIN plan THEN "done"
                        ELSE IF plan[c].op = "deletePool" THEN "check" ELSE "lock"]
    /\ read = [c \in Call |-> Absent]
    /\ body = [c \in Call |-> Empty]
    /\ reads = [c \in Call |-> 0]
    /\ tries = [c \in Call |-> 0]
    /\ resent = [c \in Call |-> FALSE]
    /\ result = [c \in Call |-> "none"]
    /\ accepted = [c \in Call |-> 0]
    /\ writer = [t \in Thing |-> [k \in Key |-> NoCall]]
    /\ lost = {} /\ robbed = {}

-----------------------------------------------------------------------------
\* The plan of a call, by field.
On(c) == plan[c].on
Asked(c) == plan[c].op
Mine(c) == plan[c].client

\* progressStatus, as far as the package tells values apart.
Busy(t) == \E j \in jobs : j.started /\ (t = Balancer \/ On(j.call) = t)
Deleting(t) == \E j \in jobs : j.started /\ On(j.call) = t
                                /\ Asked(j.call) \in DeleteOps \cup {"deleteBalancer"}
There(t) == thing[Balancer].there /\ thing[t].there
Used(p) == \E l \in Child : There(l) /\ thing[l].content[DefaultPool] = p

\* Once for a resize, no retry of a POST that may have been acted on.
Retried(c) == Asked(c) \notin CreateOps \cup {"resize"}
\* ResizeLoadBalancer and DeleteLoadBalancer have no busy resend.
Resends(c) == Asked(c) \notin {"resize", "deleteBalancer"}
\* Writes on an object that exists already wait for it too.
OnChild(c) == Asked(c) \notin CreateOps \cup {"resize", "deleteBalancer"}

-----------------------------------------------------------------------------
Goto(c, where) == pc' = [pc EXCEPT ![c] = where]

\* Mutated Return: an error return forgets to unlock.
ReturnHolding(c, r) ==
    /\ Goto(c, "done")
    /\ result' = [result EXCEPT ![c] = r]
    /\ lock' = [a \in Client |-> IF lock[a] = c /\ r # "error" THEN NoCall ELSE lock[a]]
    /\ read' = [read EXCEPT ![c] = Absent]
    /\ body' = [body EXCEPT ![c] = Empty]
    /\ reads' = [reads EXCEPT ![c] = 0]
    /\ tries' = [tries EXCEPT ![c] = 0]
    /\ UNCHANGED resent

\* The call returns, its deferred unlock runs and its variables are gone.
Return(c, r) ==
    /\ Goto(c, "done")
    /\ result' = [result EXCEPT ![c] = r]
    /\ lock' = [a \in Client |-> IF lock[a] = c THEN NoCall ELSE lock[a]]
    /\ read' = [read EXCEPT ![c] = Absent]
    /\ body' = [body EXCEPT ![c] = Empty]
    /\ reads' = [reads EXCEPT ![c] = 0]
    /\ tries' = [tries EXCEPT ![c] = 0]
    /\ UNCHANGED resent

Proceed(c, where) ==
    /\ Goto(c, where)
    /\ reads' = [reads EXCEPT ![c] = 0]
    /\ UNCHANGED <<lock, body, tries, resent, result>>

\* The step of a wait was not its last: the deadline has passed, or it sleeps
\* and reads again.
Poll(c, again, late) ==
    \/ Return(c, late)
    \/ /\ reads[c] < MaxReads
       /\ Goto(c, again)
       /\ reads' = [reads EXCEPT ![c] = @ + 1]
       /\ UNCHANGED <<lock, read, body, tries, resent, result>>

Quiet == UNCHANGED <<plan, thing, jobs, history>>

-----------------------------------------------------------------------------
\* DeletePool lists the listeners before it takes the lock.
CheckDefaultPool(c) ==
    /\ pc[c] = "check"
    /\ IF ~thing[Balancer].there THEN Return(c, "error")
       ELSE IF Used(On(c)) THEN Return(c, "inUse")
       ELSE Proceed(c, "lock") /\ UNCHANGED read
    /\ Quiet

\* Mutated LockLoadBalancer: the lock is taken without waiting for its holder.
LockPerCall(c) ==
    /\ pc[c] = "lock"
    /\ lock' = [lock EXCEPT ![Mine(c)] = c]
    /\ Goto(c, IF Asked(c) \in {"resize", "deleteBalancer"} THEN "current" ELSE "pre")
    /\ UNCHANGED <<read, body, reads, tries, resent, result>>
    /\ Quiet

LockLoadBalancer(c) ==
    /\ pc[c] = "lock"
    /\ lock[Mine(c)] = NoCall
    /\ lock' = [lock EXCEPT ![Mine(c)] = c]
    /\ Goto(c, IF Asked(c) \in {"resize", "deleteBalancer"} THEN "current" ELSE "pre")
    /\ UNCHANGED <<read, body, reads, tries, resent, result>>
    /\ Quiet

\* ctx ends while the call waits for the lock, sleeps or reads, or a read fails
\* after the transport's retries.
Cancel(c) ==
    /\ pc[c] \notin {"done", "send"}
    /\ Return(c, CASE pc[c] = "lock" -> "canceled"
                   [] pc[c] \in {"check", "current", "pre", "child", "decide"} -> "error"
                   [] OTHER -> "notSettled")
    /\ Quiet

\* The first read of ResizeLoadBalancer and of DeleteLoadBalancer.
ReadCurrent(c) ==
    /\ pc[c] = "current"
    /\ IF ~There(Balancer) THEN Return(c, "notFound")
       ELSE IF Asked(c) = "resize" /\ thing[Balancer].content[Package] = plan[c].val
         THEN Return(c, "unchanged")
       ELSE IF Asked(c) = "deleteBalancer" /\ Deleting(Balancer) /\ plan[c].noWait
         THEN Return(c, "accepted")
       ELSE /\ Proceed(c, IF Asked(c) = "resize" THEN "pre"
                          ELSE IF Deleting(Balancer) THEN "gone" ELSE "send")
            /\ read' = [read EXCEPT ![c] = thing[Balancer]]
    /\ Quiet

AfterPreWrite(c) == IF resent[c] THEN "send" ELSE "decide"

\* waitPreWriteReady and readLoadBalancerPreWriteReady: the load balancer,
PreWriteBalancer(c) ==
    /\ pc[c] = "pre"
    /\ IF ~There(Balancer) THEN Return(c, "error")
       ELSE IF Busy(Balancer) THEN Poll(c, "pre", "busy")
       ELSE IF OnChild(c)
         THEN /\ Goto(c, "child")
              /\ UNCHANGED <<lock, read, body, reads, tries, resent, result>>
       ELSE Proceed(c, AfterPreWrite(c)) /\ UNCHANGED read
    /\ Quiet

\* then, in the same step of the wait, the object the write is for.
PreWriteChild(c) ==
    /\ pc[c] = "child"
    /\ IF ~There(On(c)) THEN Return(c, "error")
       ELSE IF Busy(On(c)) THEN Poll(c, "pre", "busy")
       ELSE /\ Proceed(c, AfterPreWrite(c))
            /\ read' = [read EXCEPT ![c] = IF resent[c] THEN @ ELSE thing[On(c)]]
    /\ Quiet

-----------------------------------------------------------------------------
\* What each operation makes of its reads: an answer, or a body to send.
Deciding(c, ops) == pc[c] = "decide" /\ Asked(c) \in ops

SendBody(c, b) ==
    /\ Goto(c, "send")
    /\ body' = [body EXCEPT ![c] = b]
    /\ UNCHANGED <<lock, read, reads, tries, resent, result>>

Merge(content, c) == [content EXCEPT ![plan[c].key] = plan[c].val]

KeySet(content) == {k \in MemberKey : content[k] # Nothing}

SameMembers(a, b) == \A k \in MemberKey : a[k] = b[k]

\* ListPoolMembers and checkMemberReadsAgree, ahead of each members write.
Members(c) == thing[On(c)].content
ReadsAgree(c) == KeySet(read[c].content) = KeySet(Members(c))

ListMembers(c, decision) ==
    IF ~There(On(c)) THEN Return(c, "error")
    ELSE IF ~ReadsAgree(c) THEN Return(c, "busy")
    ELSE decision

AddPoolMember(c) ==
    /\ Deciding(c, {"addMember"})
    /\ LET had == Members(c)[plan[c].key] IN
       ListMembers(c, IF had = plan[c].val THEN Return(c, "unchanged")
                      ELSE IF had # Nothing THEN Return(c, "invalid")
                      ELSE SendBody(c, Merge(Members(c), c)))
    /\ Quiet

UpdatePoolMember(c) ==
    /\ Deciding(c, {"updateMember"})
    /\ LET had == Members(c)[plan[c].key] IN
       ListMembers(c, IF had = Nothing THEN Return(c, "notFound")
                      ELSE IF had = plan[c].val THEN Return(c, "unchanged")
                      ELSE SendBody(c, Merge(Members(c), c)))
    /\ Quiet

\* The plan's value is Nothing.
RemovePoolMember(c) ==
    /\ Deciding(c, {"removeMember"})
    /\ ListMembers(c, IF Members(c)[plan[c].key] = Nothing THEN Return(c, "notFound")
                      ELSE SendBody(c, Merge(Members(c), c)))
    /\ Quiet

\* The fields not asked for are sent as the pre-write wait read them.  A merge
\* the package refuses (no rule, no CIDR, fields the action cannot carry) is
\* an error.
Update(c, op) ==
    /\ Deciding(c, {op})
    /\ SendBody(c, Merge(read[c].content, c)) \/ Return(c, "invalid")
    /\ Quiet
UpdatePool(c) == Update(c, "updatePool")
UpdateListener(c) == Update(c, "updateListener")
UpdatePolicy(c) == Update(c, "updatePolicy")

Create(c, op) ==
    /\ Deciding(c, {op})
    /\ SendBody(c, Merge(Empty, c)) \/ Return(c, "invalid")
    /\ Quiet
CreatePool(c) == Create(c, "createPool")
CreateListener(c) == Create(c, "createListener")
CreatePolicy(c) == Deciding(c, {"createPolicy"}) /\ SendBody(c, Merge(Empty, c)) /\ Quiet

Delete(c, op) == Deciding(c, {op}) /\ SendBody(c, Empty) /\ Quiet
DeletePool(c) == Delete(c, "deletePool")
DeleteListener(c) == Delete(c, "deleteListener")
DeletePolicy(c) == Delete(c, "deletePolicy")

\* The quote fails, has no price, or is above MaxPrice; or the PUT is sent.
ResizeLoadBalancer(c) ==
    /\ Deciding(c, {"resize"})
    /\ SendBody(c, Merge(Empty, c)) \/ Return(c, "priced") \/ Return(c, "error")
    /\ Quiet

-----------------------------------------------------------------------------
\* The request, with the retries of the transport and sendWithBusyResend.
Waits(c) == IF Asked(c) = "resize" THEN "resized"
            ELSE IF Asked(c) \in DeleteOps \cup {"deleteBalancer"} THEN "gone"
            ELSE "delay"

\* A 2xx.  The answer to a create may lack the id.
Succeed(c) ==
    \/ IF plan[c].noWait THEN Return(c, "accepted") ELSE Proceed(c, Waits(c)) /\ UNCHANGED read
    \/ Asked(c) \in CreateOps /\ Return(c, "error")

\* Mutated Fail: every request is tried again.
FailAndRetry(c, acted) ==
    IF tries[c] + 1 < Attempts[Mine(c)]
      THEN /\ tries' = [tries EXCEPT ![c] = @ + 1]
           /\ UNCHANGED <<lock, pc, read, body, reads, resent, result>>
      ELSE Return(c, "error")

\* A 5xx, no answer, or a failed dial when the request was not acted on.
Fail(c, acted) ==
    IF tries[c] + 1 < Attempts[Mine(c)] /\ (Retried(c) \/ (~acted /\ Asked(c) # "resize"))
      THEN /\ tries' = [tries EXCEPT ![c] = @ + 1]
           /\ UNCHANGED <<lock, pc, read, body, reads, resent, result>>
      ELSE Return(c, "error")

Sendable(c) == pc[c] = "send"

\* The service takes the write; the answer arrives or not.
Accepted(c) ==
    /\ Sendable(c)
    /\ There(Balancer) /\ ~Busy(Balancer)
    /\ Asked(c) \in CreateOps \/ There(On(c))
    /\ ~(Asked(c) = "deletePool" /\ Used(On(c)))
    /\ jobs' = jobs \cup {[call |-> c, n |-> accepted[c], started |-> FALSE, body |-> body[c]]}
    /\ accepted' = [accepted EXCEPT ![c] = @ + 1]
    /\ Succeed(c) \/ Fail(c, TRUE)
    /\ UNCHANGED <<plan, thing, writer, lost, robbed>>

NotReached(c) == Sendable(c) /\ Fail(c, FALSE) /\ Quiet

Resend(c) ==
    /\ Goto(c, "pre")
    /\ resent' = [resent EXCEPT ![c] = TRUE]
    /\ reads' = [reads EXCEPT ![c] = 0]
    /\ tries' = [tries EXCEPT ![c] = 0]
    /\ UNCHANGED <<lock, read, body, result>>

\* A 4xx whose message says busy.
RefusedBusy(c) ==
    /\ Sendable(c)
    /\ There(Balancer) /\ Busy(Balancer)
    /\ IF Resends(c) /\ ~resent[c] THEN Resend(c)
       ELSE Return(c, IF Asked(c) = "resize" THEN "busy" ELSE "error")
    /\ Quiet

\* Any other 4xx: the object is gone, a listener uses the pool.
Refused(c) ==
    /\ Sendable(c)
    /\ IF ~There(Balancer) \/ (Asked(c) \notin CreateOps /\ ~There(On(c)))
         THEN Return(c, "notFound")
         ELSE Asked(c) = "deletePool" /\ Used(On(c)) /\ Return(c, "inUse")
    /\ Quiet

-----------------------------------------------------------------------------
\* Mutated FirstDelay: the wait reads at once.
FirstDelayNone(c) ==
    /\ pc[c] = "delay"
    /\ Proceed(c, "settle") /\ UNCHANGED read
    /\ Quiet

\* The waits after a write.
FirstDelay(c) ==
    /\ pc[c] = "delay"
    /\ Prompt => \A j \in jobs : j.call = c => j.started
    /\ Proceed(c, "settle") /\ UNCHANGED read
    /\ Quiet

\* waitChildSettled reads the object,
SettleChild(c) ==
    /\ pc[c] = "settle"
    /\ IF Busy(On(c)) \/ (Asked(c) \in CreateOps /\ ~There(On(c)))
         THEN Poll(c, "settle", "notSettled")
       ELSE IF ~There(On(c)) THEN Return(c, "notSettled")
       ELSE IF thing[On(c)].failed THEN Return(c, "failed")
       ELSE /\ Goto(c, "settleLB")
            /\ UNCHANGED <<lock, read, body, reads, tries, resent, result>>
    /\ Quiet

\* and once that is CREATED the load balancer; waitChildDeleted likewise.
SettleBalancer(c) ==
    /\ pc[c] \in {"settleLB", "goneLB"}
    /\ IF ~There(Balancer) THEN Return(c, "notSettled")
       ELSE IF Busy(Balancer)
         THEN Poll(c, IF pc[c] = "goneLB" THEN "gone" ELSE "settle", "notSettled")
       ELSE IF thing[Balancer].failed THEN Return(c, "failed")
       ELSE IF Asked(c) \in MemberOps THEN Proceed(c, "confirm") /\ UNCHANGED read
       ELSE Return(c, "settled")
    /\ Quiet

\* Mutated ConfirmMembers: the members listed are not compared with those sent.
ConfirmNothing(c) ==
    /\ pc[c] = "confirm"
    /\ Return(c, IF There(On(c)) THEN "settled" ELSE "notSettled")
    /\ Quiet

\* sendPoolMembersAndConfirm lists the members once more.
ConfirmMembers(c) ==
    /\ pc[c] = "confirm"
    /\ Return(c, IF There(On(c)) /\ SameMembers(Members(c), body[c]) THEN "settled" ELSE "notSettled")
    /\ Quiet

WaitResized(c) ==
    /\ pc[c] = "resized"
    /\ IF ~There(Balancer) THEN Return(c, "notSettled")
       ELSE IF Busy(Balancer) THEN Poll(c, "resized", "notSettled")
       ELSE IF thing[Balancer].failed THEN Return(c, "failed")
       ELSE IF thing[Balancer].content[Package] = plan[c].val THEN Return(c, "settled")
       ELSE Poll(c, "resized", "notSettled")
    /\ Quiet

WaitChildDeleted(c) ==
    /\ pc[c] = "gone" /\ Asked(c) \in DeleteOps
    /\ IF ~There(On(c))
         THEN /\ Goto(c, "goneLB")
              /\ UNCHANGED <<lock, read, body, reads, tries, resent, result>>
       ELSE IF thing[On(c)].failed /\ ~Busy(On(c)) THEN Return(c, "failed")
       ELSE Poll(c, "gone", "notSettled")
    /\ Quiet

WaitBalancerDeleted(c) ==
    /\ pc[c] = "gone" /\ Asked(c) = "deleteBalancer"
    /\ IF ~There(Balancer) THEN Return(c, "settled")
       ELSE IF thing[Balancer].failed /\ ~read[c].failed /\ ~Busy(Balancer)
         THEN Return(c, "failed")
       ELSE Poll(c, "gone", "notSettled")
    /\ Quiet

-----------------------------------------------------------------------------
\* The service works on what it accepted.
StartJob(j) ==
    /\ ~j.started
    /\ jobs' = (jobs \ {j}) \cup {[j EXCEPT !.started = TRUE]}
    /\ UNCHANGED <<plan, thing, client, history>>

\* A members PUT leaves the pool's fields alone, the other writes the members.
Written(c) == IF Asked(c) \in MemberOps THEN MemberKey ELSE Key \ MemberKey

\* Keys whose value j replaces although its call did not name them, and the
\* package it sets again.
Overwritten(j) ==
    LET t == On(j.call) IN
    {k \in Key : IF Asked(j.call) \in MemberOps \cup UpdateOps
                   THEN k \in Written(j.call) \ {plan[j.call].key} /\ j.body[k] # thing[t].content[k]
                   ELSE Asked(j.call) = "resize" /\ k = Package
                          /\ j.body[k] = thing[t].content[k]}

Victims(j) == {writer[On(j.call)][k] : k \in Overwritten(j)} \ {NoCall, j.call}

\* Whose write a key holds once j has ended.
Holder(j, k) ==
    LET c == j.call IN
    IF Asked(c) \in DeleteOps \cup {"deleteBalancer"} THEN NoCall
    ELSE IF Asked(c) \in CreateOps \/ k = plan[c].key \/ k \in Overwritten(j) THEN c
    ELSE writer[On(c)][k]

Applied(j) ==
    LET old == thing[On(j.call)] IN
    IF Asked(j.call) \in DeleteOps \cup {"deleteBalancer"} THEN Absent
    ELSE [there |-> TRUE, failed |-> FALSE,
          content |-> [k \in Key |-> IF k \in Written(j.call) THEN j.body[k] ELSE old.content[k]]]

EndJob(j) ==
    LET c == j.call
        t == On(c)
    IN  /\ j.started
        /\ jobs' = jobs \ {j}
        /\ \/ /\ There(Balancer) /\ (Asked(c) \in CreateOps \/ There(t))
              /\ thing' = [thing EXCEPT ![t] = Applied(j)]
              /\ writer' = [writer EXCEPT ![t] = [k \in Key |-> Holder(j, k)]]
              /\ lost' = lost \cup ({c} \X Victims(j))
              /\ robbed' = (robbed \cup {v \in Victims(j) : pc[v] # "done"})
                              \ {v \in DOMAIN plan : On(v) = t /\ Applied(j).content[plan[v].key] = plan[v].val}
           \/ /\ There(Balancer) /\ (Asked(c) \in CreateOps \/ There(t))
              /\ thing' = [thing EXCEPT ![t].there = TRUE, ![t].failed = TRUE]
              /\ UNCHANGED <<writer, lost, robbed>>
           \/ /\ ~There(Balancer) \/ (Asked(c) \notin CreateOps /\ ~There(t))
              /\ UNCHANGED <<thing, writer, lost, robbed>>
        /\ UNCHANGED <<plan, client, accepted>>

-----------------------------------------------------------------------------
Step(c) ==
    \/ CheckDefaultPool(c) \/ LockLoadBalancer(c) \/ ReadCurrent(c)
    \/ PreWriteBalancer(c) \/ PreWriteChild(c)
    \/ AddPoolMember(c) \/ UpdatePoolMember(c) \/ RemovePoolMember(c)
    \/ UpdatePool(c) \/ UpdateListener(c) \/ UpdatePolicy(c)
    \/ CreatePool(c) \/ CreateListener(c) \/ CreatePolicy(c)
    \/ DeletePool(c) \/ DeleteListener(c) \/ DeletePolicy(c)
    \/ ResizeLoadBalancer(c)
    \/ Accepted(c) \/ NotReached(c) \/ RefusedBusy(c) \/ Refused(c)
    \/ FirstDelay(c) \/ SettleChild(c) \/ SettleBalancer(c) \/ ConfirmMembers(c)
    \/ WaitResized(c) \/ WaitChildDeleted(c) \/ WaitBalancerDeleted(c)

Service == \E j \in jobs : StartJob(j) \/ EndJob(j)

\* Every call returned and the service is at rest.
Finished == jobs = {} /\ (\A c \in Call : pc[c] = "done") /\ UNCHANGED vars

Next ==
    \/ \E c \in Call : Step(c) \/ Cancel(c)
    \/ Service
    \/ Finished

Spec == Init /\ [][Next]_vars

\* The calls run, reads return by the transport's timeouts, deadlines pass, and
\* the service takes up what it accepted.  None of them can go on for ever, so
\* fairness to all together is fairness to each.
Progress == (\E c \in Call : Step(c)) \/ (\E j \in jobs : StartJob(j))

FairSpec == Spec /\ WF_vars(Progress)

-----------------------------------------------------------------------------
(* Properties. *)

\* The writes to the load balancer through one Client are serialized from the
\* lock to the deferred unlock, whatever way a call returns.
Inside(c) == pc[c] \notin {"check", "lock", "done"}
Serialized == \A c, d \in Call :
    Inside(c) /\ Inside(d) /\ Mine(c) = Mine(d) => c = d

\* Of two calls of one Client, neither puts back a value the other had changed
\* nor pays again for the package the other had ordered, unless one of them
\* returned before its write had settled: NoWait, an error of the request, an
\* ended context or a passed deadline give that up (waits.go: the lock, the
\* reads under it, the first delay of the wait before the unlock).  The wait of
\* a resize has no first delay and goes by the package it reads: a third resize
\* can make it believe its own order was carried out.
CutShort(c) == pc[c] = "done" /\ result[c] # "settled"
Misled(by, victim) ==
    Asked(by) = "resize" /\ \E c \in DOMAIN plan \ {by, victim} : Asked(c) = "resize"
OwnWritesRespected == \A by, victim \in Call :
    <<by, victim>> \in lost /\ Mine(by) = Mine(victim)
        => CutShort(by) \/ CutShort(victim) \/ Misled(by, victim)

\* A members write whose member another writer dropped while it waited is not
\* reported as settled (the confirm read of sendPoolMembersAndConfirm).
LossIsReported == \A c \in robbed : Asked(c) \in MemberOps => result[c] # "settled"

\* A call that reports success has no request left at the service that could
\* still change the object (the delay before waitChildSettled's first read).
SettledMeansLanded == \A j \in jobs : Asked(j.call) \in MemberOps \cup UpdateOps
    => result[j.call] # "settled"

\* A call creates or resizes at most once, through the transport's retries and
\* the busy resend (sendWithBusyResend, Once).
Paid == CreateOps \cup {"resize"}
OrderedOnce == \A c \in DOMAIN plan : Asked(c) \in Paid => accepted[c] <= 1

\* ErrBusy from a create or a resize means nothing was ordered: a rerun is safe.
BusyMeansUntouched == \A c \in DOMAIN plan :
    Asked(c) \in Paid /\ result[c] = "busy" => accepted[c] = 0

\* Every write returns, also those that queue for the lock behind a wait.
CallsReturn == \A c \in Call : <>(pc[c] = "done")

\* pool_members_write.go says a replace never silently drops a member the
\* caller did not name; the busy resend sends the list read before the refusal.
NoSilentDrop == \A by, victim \in Call :
    <<by, victim>> \in lost => ~(resent[by] /\ result[by] = "settled" /\ result[victim] = "settled")
=============================================================================
