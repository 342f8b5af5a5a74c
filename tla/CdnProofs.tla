------------------------------ MODULE CdnProofs ------------------------------
(***************************************************************************)
(* Cdn for any number of calls, fields and confirm reads.  PlaceInv says    *)
(* which calls can have a request at the server; StandsInv that, until its  *)
(* request is carried out or another write comes between, the CDN stays     *)
(* what the call read.                                                      *)
(***************************************************************************)
EXTENDS Cdn, TLAPS

LEMMA PlanType ==
    ASSUME plan \in Plans
    PROVE  DOMAIN plan \subseteq Call /\ \A c \in DOMAIN plan : plan[c] \in Plan
BY CdnAssumption

\* Only a call that has something to do is anywhere.
AskedInv == \A c \in Call : pc[c] # "done" => c \in DOMAIN plan

LEMMA AskedInit == Init => AskedInv
BY DEF Init, AskedInv

LEMMA TypeInit == Init => TypeOK
BY CdnAssumption DEF Init, TypeOK, PC, Result

LEMMA GotoType ==
    ASSUME TypeOK, NEW c \in Call, NEW w \in PC, Goto(c, w)
    PROVE  pc' \in [Call -> PC] /\ reads' \in [Call -> 0..MaxReads] /\ result' \in [Call -> Result]
BY DEF Goto, TypeOK

LEMMA ReturnType ==
    ASSUME TypeOK, NEW c \in Call, NEW r \in Result, Return(c, r)
    PROVE  pc' \in [Call -> PC] /\ reads' \in [Call -> 0..MaxReads] /\ result' \in [Call -> Result]
BY CdnAssumption DEF Return, TypeOK, PC

LEMMA GuardType ==
    ASSUME NEW c \in Call
    PROVE  Guard(c) \in {"busy", "unchanged", "send", "invalid", "absent", "strange"}
BY DEF Guard

LEMMA MergeType ==
    ASSUME TypeOK, NEW c \in DOMAIN plan PROVE MergeUpdate(c) \in Content
<1>1. plan[c] \in Plan
    BY PlanType DEF TypeOK
<1> QED
    BY <1>1 DEF TypeOK, MergeUpdate, Content, Plan

\* What Handle does to the call, whatever the answer.
LEMMA HandleType ==
    ASSUME TypeOK, NEW c \in Call, NEW answer, Handle(c, answer)
    PROVE  /\ pc' \in [Call -> PC] /\ reads' \in [Call -> 0..MaxReads] /\ result' \in [Call -> Result]
           /\ body' = body
<1>1. {"refused", "maybe", "accepted"} \subseteq Result /\ {"explain", "confirm", "settle"} \subseteq PC
    BY DEF Result, PC
<1> QED
    BY <1>1, GotoType, ReturnType DEF Handle, ReturnRefused

\* What the server keeps when it carries out a request.
LEMMA ActType ==
    ASSUME TypeOK, NEW c \in Call, Act(c)
    PROVE  /\ plan' = plan /\ status' \in Status /\ content' \in Content
           /\ acted' \subseteq Call /\ raced' \subseteq Call /\ misfit' \subseteq Call
BY PlanType DEF Act, TypeOK, Status

LEMMA TypeStep == TypeOK /\ AskedInv /\ [Next]_vars => TypeOK'
<1> SUFFICES ASSUME TypeOK, AskedInv, [Next]_vars PROVE TypeOK'
    OBVIOUS
<1>p. {"busy", "unchanged", "invalid", "absent", "strange", "settled", "accepted", "unconfirmed",
       "notSettled", "unexpected", "notFound", "refused", "error", "maybe"} \subseteq Result
    BY DEF Result
<1>q. {"read", "send", "explain", "confirm", "settle", "done"} = PC
    BY DEF PC
<1>v. plan \in Plans /\ status \in Status /\ content \in Content /\ late \subseteq Call
      /\ body \in [Call -> Content]
    BY DEF TypeOK
<1>h. acted \subseteq Call /\ raced \subseteq Call /\ misfit \subseteq Call
    BY DEF TypeOK
<1>1. CASE UNCHANGED vars
    BY <1>1 DEF vars, history, TypeOK
<1>2. ASSUME NEW c \in Call, Step(c) PROVE TypeOK'
    <2>1. CASE ReadFirst(c)
        <3>1. pc' \in [Call -> PC] /\ reads' \in [Call -> 0..MaxReads] /\ result' \in [Call -> Result]
            BY <2>1, <1>p, <1>q, GuardType, GotoType, ReturnType DEF ReadFirst
        <3>2. c \in DOMAIN plan
            BY <2>1 DEF ReadFirst, AskedInv
        <3>3. body' \in [Call -> Content]
            BY <2>1, <3>2, <1>v, MergeType DEF ReadFirst
        <3> QED
            BY <2>1, <3>1, <3>3, <1>v, <1>h DEF ReadFirst, Server, TypeOK
    <2>2. CASE Taken(c)
        BY <2>2, <1>v, ActType, HandleType DEF Taken, TypeOK
    <2>3. CASE Refused(c) \/ NotReached(c) \/ Vanishes(c)
        BY <2>3, <1>v, <1>h, HandleType DEF Refused, NotReached, Vanishes, Quiet, Server, history, TypeOK
    <2>4. CASE Outlives(c)
        BY <2>4, <1>v, <1>h, HandleType DEF Outlives, history, TypeOK
    <2>5. CASE ExplainWrite401(c)
        BY <2>5, <1>v, <1>h, <1>p, ReturnType DEF ExplainWrite401, Quiet, Server, history, TypeOK
    <2>a. ASSUME NEW r \in Result, Again(c, r)
          PROVE  pc' \in [Call -> PC] /\ reads' \in [Call -> 0..MaxReads] /\ result' \in [Call -> Result]
        BY <2>a, ReturnType, CdnAssumption DEF Again, TypeOK
    <2>s. ASSUME SettleOn(c)
          PROVE  pc' \in [Call -> PC] /\ reads' \in [Call -> 0..MaxReads] /\ result' \in [Call -> Result]
        BY <2>s, <2>a, <1>p, ReturnType DEF SettleOn
    <2>6. CASE Confirm(c)
        BY <2>6, <2>a, <1>v, <1>h, <1>p, <1>q, ReturnType, GotoType DEF Confirm, Quiet, Server, history, TypeOK
    <2>7. CASE Settle(c)
        BY <2>7, <2>s, <1>v, <1>h, <1>p, ReturnType DEF Settle, Quiet, Server, history, TypeOK
    <2>8. CASE GivesUp(c)
        BY <2>8, <1>v, <1>h, <1>p, ReturnType DEF GivesUp, Quiet, Server, history, TypeOK
    <2> QED
        BY <1>2, <2>1, <2>2, <2>3, <2>4, <2>5, <2>6, <2>7, <2>8 DEF Step
<1>3. ASSUME NEW c \in Call, Arrive(c) PROVE TypeOK'
    BY <1>3, <1>v, <1>h, ActType DEF Arrive, history, TypeOK
<1>4. CASE Deploy
    BY <1>4 DEF Deploy, history, Status, TypeOK
<1> QED
    BY <1>1, <1>2, <1>3, <1>4 DEF Next, Finished

LEMMA AskedStep == TypeOK /\ AskedInv /\ [Next]_vars => AskedInv'
<1> SUFFICES ASSUME TypeOK, AskedInv, [Next]_vars PROVE AskedInv'
    OBVIOUS
<1>1. plan' = plan
    BY DEF Next, Step, ReadFirst, Taken, Refused, NotReached, Vanishes, Outlives, ExplainWrite401,
           Confirm, Settle, GivesUp, Arrive, Act, Deploy, Finished, Quiet, vars
<1>2. \A c \in Call : pc[c] = "done" => pc'[c] = "done"
    BY DEF TypeOK, Next, Step, ReadFirst, Taken, Refused, NotReached, Vanishes, Outlives, ExplainWrite401,
           Sending, Handle, ReturnRefused, Confirm, Settle, SettleOn, Again, GivesUp, Arrive, Deploy,
           Finished, Goto, Return, vars
<1> QED
    BY <1>1, <1>2 DEF AskedInv

\* Every reachable state is well typed, with any number of calls; no wait reads
\* more often than its deadline allows.
THEOREM TypeCorrect == Spec => []TypeOK
BY TypeInit, TypeStep, AskedInit, AskedStep, PTL DEF Spec

-----------------------------------------------------------------------------
Early == {"read", "send", "explain"}

\* A call that has not sent, was refused or did nothing has no request at the
\* server; a request that was carried out is not on its way; results come last.
PlaceInv ==
    /\ \A c \in Call : pc[c] \in Early \/ result[c] \in DidNothing => c \notin acted \cup late
    /\ \A c \in Call : pc[c] # "done" => result[c] = "none"
    /\ late \cap acted = {}
    /\ late \subseteq DOMAIN plan

LEMMA PlaceInit == Init => PlaceInv
BY DEF Init, PlaceInv, DidNothing

\* A step of the call's own, by which the server is told nothing.
LEMMA PlaceOwn ==
    ASSUME TypeOK, PlaceInv, NEW c \in Call, UNCHANGED <<plan, late, acted>>,
           \A d \in Call \ {c} : pc'[d] = pc[d] /\ result'[d] = result[d],
           pc'[c] # "done" => result'[c] = "none",
           pc'[c] \in Early \/ result'[c] \in DidNothing => pc[c] \in Early
    PROVE  PlaceInv'
BY DEF PlaceInv

LEMMA PlaceStep == TypeOK /\ AskedInv /\ PlaceInv /\ [Next]_vars => PlaceInv'
<1> SUFFICES ASSUME TypeOK, AskedInv, PlaceInv, [Next]_vars PROVE PlaceInv'
    OBVIOUS
<1>d. DidNothing = {"unchanged", "busy", "absent", "strange", "invalid", "refused", "error"}
    BY DEF DidNothing
<1>e. Early = {"read", "send", "explain"}
    BY DEF Early
<1>n. \A c \in Call : pc[c] # "done" => result[c] = "none"
    BY DEF PlaceInv
<1>1. CASE UNCHANGED vars
    BY <1>1 DEF vars, history, PlaceInv
<1>2. ASSUME NEW c \in Call, Step(c) PROVE PlaceInv'
    <2>o. \A d \in Call \ {c} : pc'[d] = pc[d] /\ result'[d] = result[d]
        BY <1>2 DEF Step, ReadFirst, Taken, Refused, NotReached, Vanishes, Outlives, ExplainWrite401,
             Handle, ReturnRefused, Confirm, Settle, SettleOn, Again, GivesUp, Goto, Return, TypeOK
    <2>n. pc[c] # "done" => (pc'[c] # "done" => result'[c] = "none")
        BY <1>2, <1>n DEF Step, ReadFirst, Taken, Refused, NotReached, Vanishes, Outlives, ExplainWrite401,
             Handle, ReturnRefused, Confirm, Settle, SettleOn, Again, GivesUp, Goto, Return, TypeOK
    <2>1. CASE ReadFirst(c)
        BY <2>1, <2>o, <2>n, <1>e, PlaceOwn DEF ReadFirst, Server
    <2>2. CASE Taken(c)
        <3>1. late' = late /\ acted' = acted \cup {c} /\ plan' = plan /\ pc[c] = "send"
            BY <2>2 DEF Taken, Act, Sending
        <3>2. pc'[c] \notin Early /\ result'[c] \notin DidNothing
            BY <2>2, <1>d, <1>e, <1>n, <3>1 DEF Taken, Handle, ServerDidNotAct, Goto, Return, TypeOK
        <3> QED
            BY <3>1, <3>2, <2>o, <2>n, <1>e DEF PlaceInv
    <2>3. CASE Refused(c) \/ NotReached(c) \/ Vanishes(c)
        <3>1. UNCHANGED <<plan, late, acted>> /\ pc[c] = "send"
            BY <2>3 DEF Refused, NotReached, Vanishes, Sending, Quiet, Server, history
        <3> QED
            BY <3>1, <2>o, <2>n, <1>e, PlaceOwn
    <2>4. CASE Outlives(c)
        <3>1. late' = late \cup {c} /\ acted' = acted /\ plan' = plan /\ pc[c] = "send"
            BY <2>4 DEF Outlives, Sending, history
        <3>2. pc'[c] \notin Early /\ result'[c] \notin DidNothing
            BY <2>4, <1>d, <1>e, <1>n, <3>1 DEF Outlives, Handle, ServerDidNotAct, Goto, Return, TypeOK
        <3> QED
            BY <3>1, <3>2, <2>o, <2>n, <1>e DEF PlaceInv, AskedInv
    <2>5. CASE ExplainWrite401(c)
        BY <2>5, <2>o, <2>n, <1>e, PlaceOwn DEF ExplainWrite401, Quiet, Server, history
    <2>6. CASE Confirm(c) \/ Settle(c)
        <3>1. UNCHANGED <<plan, late, acted>> /\ pc[c] \notin Early /\ pc[c] # "done" /\ result[c] = "none"
            BY <2>6, <1>e, <1>n DEF Confirm, Settle, Quiet, Server, history
        <3>2. pc'[c] \notin Early /\ result'[c] \notin DidNothing
            BY <2>6, <3>1, <1>d, <1>e DEF Confirm, Settle, SettleOn, Again, Goto, Return, TypeOK
        <3> QED
            BY <3>1, <3>2, <2>o, <2>n, PlaceOwn
    <2>7. CASE GivesUp(c)
        <3>1. UNCHANGED <<plan, late, acted>> /\ pc[c] # "done"
            BY <2>7 DEF GivesUp, Quiet, Server, history
        <3>2. pc'[c] \in Early \/ result'[c] \in DidNothing => pc[c] \in Early
            BY <2>7, <1>d, <1>e DEF GivesUp, Return, TypeOK
        <3> QED
            BY <3>1, <3>2, <2>o, <2>n, PlaceOwn
    <2> QED
        BY <1>2, <2>1, <2>2, <2>3, <2>4, <2>5, <2>6, <2>7 DEF Step
<1>3. ASSUME NEW c \in Call, Arrive(c) PROVE PlaceInv'
    BY <1>3 DEF Arrive, Act, history, PlaceInv
<1>4. CASE Deploy
    BY <1>4 DEF Deploy, history, PlaceInv
<1> QED
    BY <1>1, <1>2, <1>3, <1>4 DEF Next, Finished

\* A call that reports that it did nothing has not changed the CDN and never
\* will, whatever was lost, late or refused.
THEOREM ErrorCorrect == Spec => []ErrorMeansUntouched
<1>1. PlaceInv => ErrorMeansUntouched
    BY DEF PlaceInv, ErrorMeansUntouched
<1> QED
    BY <1>1, TypeInit, TypeStep, AskedInit, AskedStep, PlaceInit, PlaceStep, PTL DEF Spec

-----------------------------------------------------------------------------
\* The status a toggle sends its request at.
Before(c) == IF Asked(c) = "disable" THEN "ACTIVE" ELSE "DISABLED"

\* No other write came between, nor was the call's own carried out.
Undisturbed(c) == c \notin raced \cup acted

Waiting(c) == pc[c] = "send" \/ c \in late

\* Then the CDN is as the call read it, and no read can show it a success.
Stands(c) ==
    /\ Waiting(c) \/ pc[c] = "confirm" => (Toggle(c) => status = Before(c))
    /\ Waiting(c) => (Asked(c) = "update" => body[c] = MergeUpdate(c))
    /\ pc[c] = "confirm" => Toggle(c)
    /\ pc[c] # "settle"
    /\ result[c] \notin {"settled", "accepted"}

StandsInv ==
    /\ \A c \in DOMAIN plan : Undisturbed(c) => Stands(c)
    /\ \A c \in Call \ DOMAIN plan : result[c] = "none"
    /\ misfit = {}

LEMMA StandsInit == Init => StandsInv
BY PlanType DEF Init, StandsInv, Stands, Waiting

\* Once a request was carried out nobody is undisturbed, and it did fit.
LEMMA ActFits ==
    ASSUME TypeOK, PlaceInv, StandsInv, NEW c \in DOMAIN plan, Waiting(c), Act(c)
    PROVE  misfit' = {} /\ plan' = plan /\ \A d \in DOMAIN plan : ~Undisturbed(d)'
<1>1. c \in Call
    BY PlanType DEF TypeOK
<1>2. c \notin acted
    BY <1>1 DEF Waiting, PlaceInv, Early
<1>3. Toggle(c) => Before(c) # Settled(c)
    BY DEF Toggle, Toggles, Before, Settled
<1>4. Fits(c) \/ c \in raced
    <2>1. CASE c \in raced
        BY <2>1
    <2>2. CASE c \notin raced
        <3>1. Stands(c)
            BY <1>2, <2>2 DEF StandsInv, Undisturbed
        <3> QED
            BY <3>1, <1>3 DEF Stands, Fits
    <2> QED
        BY <2>1, <2>2
<1> QED
    BY <1>4 DEF Act, StandsInv, Undisturbed

\* A step by which the server is told nothing leaves the others as they are.
LEMMA StandsOwn ==
    ASSUME TypeOK, StandsInv, NEW c \in DOMAIN plan,
           UNCHANGED <<plan, status, content, history>>, late' \subseteq late \cup {c},
           \A d \in Call \ {c} : pc'[d] = pc[d] /\ result'[d] = result[d] /\ body'[d] = body[d],
           Undisturbed(c) => Stands(c)'
    PROVE  StandsInv'
<1>1. DOMAIN plan \subseteq Call /\ c \in Call
    BY PlanType DEF TypeOK
<1>2. ASSUME NEW d \in DOMAIN plan, Undisturbed(d)' PROVE Stands(d)'
    <2>1. Undisturbed(d)
        BY <1>2 DEF Undisturbed, history
    <2>2. CASE d = c
        BY <2>1, <2>2
    <2>3. CASE d # c
        <3>1. Stands(d)
            BY <2>1 DEF StandsInv
        <3> QED
            BY <2>3, <3>1, <1>1 DEF Stands, Waiting, Toggle, Asked, Before, MergeUpdate
    <2> QED
        BY <2>2, <2>3
<1> QED
    BY <1>1, <1>2 DEF StandsInv, history

LEMMA StandsStep == TypeOK /\ AskedInv /\ PlaceInv /\ StandsInv /\ [Next]_vars => StandsInv'
<1> SUFFICES ASSUME TypeOK, AskedInv, PlaceInv, StandsInv, [Next]_vars PROVE StandsInv'
    OBVIOUS
<1>d. DOMAIN plan \subseteq Call
    BY PlanType DEF TypeOK
<1>1. CASE UNCHANGED vars
    BY <1>1 DEF vars, history, StandsInv, Undisturbed, Stands, Waiting, Toggle, Asked, Before, MergeUpdate
<1>2. ASSUME NEW c \in Call, Step(c) PROVE StandsInv'
    <2>d. c \in DOMAIN plan
        BY <1>2 DEF Step, ReadFirst, Taken, Refused, NotReached, Vanishes, Outlives, Sending,
             ExplainWrite401, Confirm, Settle, GivesUp, AskedInv
    <2>o. \A d \in Call \ {c} : pc'[d] = pc[d] /\ result'[d] = result[d] /\ body'[d] = body[d]
        BY <1>2 DEF Step, ReadFirst, Taken, Refused, NotReached, Vanishes, Outlives, ExplainWrite401,
             Handle, ReturnRefused, Confirm, Settle, SettleOn, Again, GivesUp, Goto, Return, TypeOK
    <2>n. result[c] = "none"
        BY <1>2 DEF Step, ReadFirst, Taken, Refused, NotReached, Vanishes, Outlives, Sending,
             ExplainWrite401, Confirm, Settle, GivesUp, PlaceInv
    <2>s. Undisturbed(c) => Stands(c)
        BY <2>d DEF StandsInv
    <2>1. CASE ReadFirst(c)
        <3>1. UNCHANGED <<plan, status, content, late, acted, misfit>> /\ raced' = raced \ {c}
              /\ c \notin late
            BY <2>1 DEF ReadFirst, Server, PlaceInv, Early
        <3>2. Stands(c)'
            <4>1. pc'[c] \in {"send", "done"} /\ result'[c] \notin {"settled", "accepted"}
                BY <2>1, <2>n, GuardType DEF ReadFirst, Goto, Return, TypeOK
            <4>2. pc'[c] = "send" => Guard(c) = "send" /\ body'[c] = MergeUpdate(c)
                BY <2>1 DEF ReadFirst, Goto, Return, TypeOK
            <4>3. Toggle(c) /\ Guard(c) = "send" => status = Before(c)
                BY DEF Toggle, Toggles, Guard, Before
            <4> QED
                BY <3>1, <4>1, <4>2, <4>3 DEF Stands, Waiting, Toggle, Asked, Before, MergeUpdate
        <3>3. ASSUME NEW d \in DOMAIN plan, d # c, Undisturbed(d)' PROVE Stands(d)'
            <4>1. Stands(d)
                BY <3>1, <3>3 DEF Undisturbed, StandsInv
            <4> QED
                BY <3>1, <3>3, <4>1, <2>o, <1>d DEF Stands, Waiting, Toggle, Asked, Before, MergeUpdate
        <3> QED
            BY <3>1, <3>2, <3>3, <2>d, <2>o DEF StandsInv
    <2>2. CASE Taken(c)
        <3>1. misfit' = {} /\ plan' = plan /\ \A d \in DOMAIN plan : ~Undisturbed(d)'
            BY <2>2, <2>d, ActFits DEF Taken, Sending, Waiting
        <3> QED
            BY <3>1, <2>o, <2>d DEF StandsInv
    <2>3. CASE Refused(c) \/ NotReached(c) \/ Vanishes(c) \/ Outlives(c)
        <3>1. /\ UNCHANGED <<plan, status, content, history, body>> /\ late' \subseteq late \cup {c}
              /\ pc[c] = "send"
            BY <2>3 DEF Refused, NotReached, Vanishes, Outlives, Sending, Quiet, Server, Handle
        <3>2. /\ pc'[c] \in {"explain", "confirm", "done"} /\ result'[c] \notin {"settled", "accepted"}
              /\ pc'[c] = "confirm" => Toggle(c)
            BY <2>3, <2>n DEF Refused, NotReached, Vanishes, Outlives, Handle, ServerDidNotAct,
                 ReturnRefused, Goto, Return, TypeOK
        <3>3. Undisturbed(c) => Stands(c)'
            BY <3>1, <3>2, <2>s DEF Stands, Waiting, Toggle, Asked, Before, MergeUpdate
        <3> QED
            BY <3>1, <3>3, <2>d, <2>o, StandsOwn
    <2>4. CASE ExplainWrite401(c) \/ GivesUp(c)
        <3>1. UNCHANGED <<plan, status, content, history, body, late>>
            BY <2>4 DEF ExplainWrite401, GivesUp, Quiet, Server
        <3>2. pc'[c] = "done" /\ result'[c] \notin {"settled", "accepted"}
            BY <2>4 DEF ExplainWrite401, GivesUp, Return, TypeOK
        <3>3. Undisturbed(c) => Stands(c)'
            BY <3>1, <3>2, <2>s DEF Stands, Waiting, Toggle, Asked, Before, MergeUpdate
        <3> QED
            BY <3>1, <3>3, <2>d, <2>o, StandsOwn
    <2>5. CASE Confirm(c) \/ Settle(c)
        <3>1. UNCHANGED <<plan, status, content, history, body, late>>
            BY <2>5 DEF Confirm, Settle, Quiet, Server
        <3>2. Undisturbed(c) => pc[c] = "confirm" /\ Toggle(c) /\ status = Before(c)
            BY <2>5, <2>s DEF Confirm, Settle, Stands
        <3>3. Toggle(c) => Before(c) \notin {Pending(c), Settled(c)}
            BY DEF Toggle, Toggles, Before, Pending, Settled
        <3>4. Undisturbed(c) => pc'[c] \in {"confirm", "done"} /\ result'[c] \notin {"settled", "accepted"}
            BY <2>5, <2>n, <3>2, <3>3 DEF Confirm, Settle, Again, Return, TypeOK
        <3>5. Undisturbed(c) => Stands(c)'
            BY <3>1, <3>2, <3>4, <2>s DEF Stands, Waiting, Toggle, Asked, Before, MergeUpdate
        <3> QED
            BY <3>1, <3>5, <2>d, <2>o, StandsOwn
    <2> QED
        BY <1>2, <2>1, <2>2, <2>3, <2>4, <2>5 DEF Step
<1>3. ASSUME NEW c \in Call, Arrive(c) PROVE StandsInv'
    <2>1. c \in DOMAIN plan /\ Waiting(c) /\ UNCHANGED <<pc, body, reads, result>>
        BY <1>3 DEF Arrive, PlaceInv, Waiting
    <2>2. CASE Act(c)
        <3>1. misfit' = {} /\ plan' = plan /\ \A d \in DOMAIN plan : ~Undisturbed(d)'
            BY <2>1, <2>2, ActFits
        <3> QED
            BY <3>1, <2>1 DEF StandsInv
    <2>3. CASE UNCHANGED <<plan, status, content, history>>
        <3>1. late' \subseteq late
            BY <1>3 DEF Arrive
        <3>2. Undisturbed(c) => Stands(c)'
            BY <2>1, <2>3, <3>1 DEF StandsInv, Stands, Waiting, Toggle, Asked, Before, MergeUpdate
        <3> QED
            BY <2>1, <2>3, <3>1, <3>2, StandsOwn
    <2> QED
        BY <1>3, <2>2, <2>3 DEF Arrive
<1>4. CASE Deploy
    <2>1. /\ UNCHANGED <<plan, content, late, pc, body, result, acted, raced, misfit>>
          /\ status \in {"DEPLOYING", "DISABLING", "DELETING"}
        BY <1>4 DEF Deploy, history
    <2>2. \A c \in DOMAIN plan : status # Before(c)
        BY <2>1 DEF Before
    <2> QED
        BY <2>1, <2>2 DEF StandsInv, Undisturbed, Stands, Waiting, Toggle, Asked, MergeUpdate
<1> QED
    BY <1>1, <1>2, <1>3, <1>4 DEF Next, Finished

IInv == TypeOK /\ AskedInv /\ PlaceInv /\ StandsInv

LEMMA Inductive == Spec => []IInv
<1>1. Init => IInv
    BY TypeInit, AskedInit, PlaceInit, StandsInit DEF IInv
<1>2. IInv /\ [Next]_vars => IInv'
    BY TypeStep, AskedStep, PlaceStep, StandsStep DEF IInv
<1> QED
    BY <1>1, <1>2, PTL DEF Spec

\* A toggle or an update that returns success was carried out, and nothing of it
\* is on its way any more, unless another write raced with it.
THEOREM SuccessCorrect == Spec => []SuccessMeansLanded
<1>1. IInv => SuccessMeansLanded
    BY DEF IInv, StandsInv, Undisturbed, Stands, PlaceInv, SuccessMeansLanded
<1> QED
    BY <1>1, Inductive, PTL

\* The server never carries out a request at another status, or over other
\* fields, than its call read, unless another write came between.
THEOREM ReadCorrect == Spec => []ActsOnWhatItRead
<1>1. IInv => ActsOnWhatItRead
    BY DEF IInv, StandsInv, ActsOnWhatItRead
<1> QED
    BY <1>1, Inductive, PTL
=============================================================================
