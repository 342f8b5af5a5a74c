-------------------------------- MODULE Cdn ---------------------------------
(***************************************************************************)
(* The writes of package cdn to one CDN: enable, disable, update, delete.   *)
(* An enable or a disable reads the status, sends a request that flips it,  *)
(* whatever it is by then, and believes only what it reads afterwards.  An  *)
(* update sends the whole object back, as it read it, with the changes.     *)
(* Calls of one Client or of several interleave: there is no mutex.         *)
(***************************************************************************)
EXTENDS Naturals

CONSTANTS
    Call,      \* calls of the four writes
    Key,       \* rule actions and other fields of the CDN
    Value,
    Plans,     \* what some of the calls do, each set of them to explore
    Begins,    \* statuses the CDN may have at first
    MaxReads   \* bound: reads of a wait before its deadline

Toggles == {"enable", "disable"}
Plan == [op : Toggles \cup {"update", "delete"}, key : Key, val : Value, noWait : BOOLEAN]
Status == {"ACTIVE", "DISABLED", "DEPLOYING", "DISABLING", "DELETING", "UNKNOWN", "GONE"}
Content == [Key -> Value]

ASSUME CdnAssumption ==
    /\ Plans \subseteq UNION {[d -> Plan] : d \in SUBSET Call}
    /\ Begins \subseteq Status /\ Begins # {} /\ MaxReads \in Nat

VARIABLES
    plan,    \* what each call was asked for, never changes
    status,  \* of the CDN, at the server
    content, \* its fields
    late,    \* calls whose request is on its way although they gave up on it
    pc, body, reads, result,  \* of each call
    acted,   \* history: calls whose request the server carried out
    raced,   \* history: calls with another write since their first read
    misfit   \* history: calls carried out though they would not have been sent

history == <<acted, raced, misfit>>
vars == <<plan, status, content, late, pc, body, reads, result, history>>

PC == {"read", "send", "explain", "confirm", "settle", "done"}
Result == {"none", "settled", "accepted", "unchanged", "busy", "absent", "strange", "invalid",
           "refused", "error", "maybe", "unconfirmed", "notSettled", "unexpected", "notFound"}

TypeOK ==
    /\ plan \in Plans
    /\ status \in Status
    /\ content \in Content
    /\ late \subseteq Call
    /\ pc \in [Call -> PC]
    /\ body \in [Call -> Content]
    /\ reads \in [Call -> 0..MaxReads]
    /\ result \in [Call -> Result]
    /\ acted \subseteq Call /\ raced \subseteq Call /\ misfit \subseteq Call

Asked(c) == plan[c].op
Toggle(c) == Asked(c) \in Toggles

\* settleTarget.
Settled(c) == IF Asked(c) = "disable" THEN "DISABLED" ELSE "ACTIVE"
Pending(c) == IF Asked(c) = "disable" THEN "DISABLING" ELSE "DEPLOYING"

Init ==
    /\ plan \in Plans
    /\ status \in Begins
    /\ content \in Content
    /\ late = {}
    /\ pc = [c \in Call |-> IF c \in DOMAIN plan THEN "read" ELSE "done"]
    /\ body = [c \in Call |-> content]
    /\ reads = [c \in Call |-> 0]
    /\ result = [c \in Call |-> "none"]
    /\ acted = {} /\ raced = {} /\ misfit = {}

-----------------------------------------------------------------------------
Goto(c, where) == pc' = [pc EXCEPT ![c] = where] /\ UNCHANGED <<reads, result>>

Return(c, r) ==
    /\ pc' = [pc EXCEPT ![c] = "done"]
    /\ result' = [result EXCEPT ![c] = r]
    /\ reads' = [reads EXCEPT ![c] = 0]

Server == <<status, content, late>>
Quiet == UNCHANGED <<plan, Server, history>>

\* Mutated Guard: an enable does not look whether the CDN is enabled.
GuardEnablesAlways(c) ==
    CASE status \in {"DEPLOYING", "DISABLING", "DELETING"} -> "busy"
      [] status = "ACTIVE" -> "send"
      [] status = "DISABLED" -> IF Asked(c) = "update" THEN "invalid"
                                ELSE IF Asked(c) = "disable" THEN "unchanged" ELSE "send"
      [] status = "GONE" -> "absent"
      [] OTHER -> "strange"

\* The status table: a refusal, no need to send, or send.
Guard(c) ==
    CASE status \in {"DEPLOYING", "DISABLING", "DELETING"} -> "busy"
      [] status = "ACTIVE" -> IF Asked(c) = "enable" THEN "unchanged" ELSE "send"
      [] status = "DISABLED" -> IF Asked(c) = "update" THEN "invalid"
                                ELSE IF Asked(c) = "disable" THEN "unchanged" ELSE "send"
      [] status = "GONE" -> "absent"
      [] OTHER -> "strange"

\* mergeUpdate: the object as read, with the changes.
MergeUpdate(c) == [content EXCEPT ![plan[c].key] = plan[c].val]

ReadFirst(c) ==
    /\ pc[c] = "read"
    /\ IF Guard(c) # "send" THEN Return(c, Guard(c)) /\ UNCHANGED body
       ELSE IF Asked(c) = "update" /\ MergeUpdate(c) = content
         THEN Return(c, "unchanged") /\ UNCHANGED body
       ELSE Goto(c, "send") /\ body' = [body EXCEPT ![c] = MergeUpdate(c)]
    /\ raced' = raced \ {c}
    /\ UNCHANGED <<plan, Server, acted, misfit>>

-----------------------------------------------------------------------------
\* The request, sent once.  It is answered with success, refused by a 4xx or an
\* envelope, has no connection, or ends in a way that leaves open what became
\* of it.
ServerDidNotAct(answer) == answer \in {"refused", "noDial"}

\* explainWrite401: the refusal may be a 401, which asks for one more read.
ReturnRefused(c) == Return(c, "refused") \/ Goto(c, "explain")

Handle(c, answer) ==
    /\ UNCHANGED body
    /\ IF Toggle(c)
         THEN IF ServerDidNotAct(answer) THEN ReturnRefused(c) ELSE Goto(c, "confirm")
       ELSE IF answer = "lost" THEN Return(c, "maybe")
       ELSE IF answer # "ok" THEN ReturnRefused(c)
       ELSE IF Asked(c) = "delete" THEN Return(c, "accepted") ELSE Goto(c, "settle")

Willing(c) == status = "ACTIVE" \/ (status = "DISABLED" /\ Asked(c) # "update")

\* What the call checked ahead of its request: a flip reaches its target, an
\* update puts nothing back that has changed.
Fits(c) == IF Toggle(c) THEN status # Settled(c)
           ELSE Asked(c) = "update" => body[c] = MergeUpdate(c)

Act(c) ==
    /\ Willing(c)
    /\ status' = CASE Toggle(c) -> IF status = "ACTIVE" THEN "DISABLING" ELSE "DEPLOYING"
                   [] Asked(c) = "update" -> "DEPLOYING"
                   [] OTHER -> IF status = "ACTIVE" THEN "DELETING" ELSE "GONE"
    /\ content' = IF Asked(c) = "update" THEN body[c] ELSE content
    /\ acted' = acted \cup {c}
    /\ raced' = raced \cup (DOMAIN plan \ {c})
    /\ misfit' = IF Fits(c) \/ c \in raced THEN misfit ELSE misfit \cup {c}
    /\ UNCHANGED plan

Sending(c) == pc[c] = "send"

Taken(c) == Sending(c) /\ Act(c) /\ (Handle(c, "ok") \/ Handle(c, "lost")) /\ UNCHANGED late
Refused(c) == Sending(c) /\ Handle(c, "refused") /\ Quiet
NotReached(c) == Sending(c) /\ Handle(c, "noDial") /\ Quiet
Vanishes(c) == Sending(c) /\ Handle(c, "lost") /\ Quiet
Outlives(c) ==
    /\ Sending(c) /\ Handle(c, "lost")
    /\ late' = late \cup {c}
    /\ UNCHANGED <<plan, status, content, history>>

ExplainWrite401(c) ==
    /\ pc[c] = "explain"
    /\ Return(c, IF status = "GONE" THEN "absent" ELSE "refused")
    /\ UNCHANGED body /\ Quiet

-----------------------------------------------------------------------------
\* A read of a wait was not the last one.
Again(c, last) ==
    IF reads[c] < MaxReads THEN reads' = [reads EXCEPT ![c] = @ + 1] /\ UNCHANGED <<pc, result>>
    ELSE Return(c, last)

\* settle, with a read in hand.
SettleOn(c) ==
    IF status = Settled(c) THEN Return(c, "settled")
    ELSE IF status = Pending(c) THEN Again(c, "notSettled")
    ELSE Return(c, IF status = "GONE" THEN "notFound" ELSE "unexpected")

\* Mutated Confirm: no read is waited for that shows the toggle was taken.
ConfirmAnyRead(c) ==
    /\ pc[c] = "confirm"
    /\ IF plan[c].noWait THEN Return(c, "accepted")
       ELSE IF status = Settled(c) THEN Return(c, "settled")
       ELSE Goto(c, "settle")
    /\ UNCHANGED body /\ Quiet

\* A toggle trusts only a read that shows its pending or its final status.
Confirm(c) ==
    /\ pc[c] = "confirm"
    /\ IF status \notin {Pending(c), Settled(c)} THEN Again(c, "unconfirmed")
       ELSE IF plan[c].noWait THEN Return(c, "accepted")
       ELSE IF status = Settled(c) THEN Return(c, "settled")
       ELSE Goto(c, "settle")
    /\ UNCHANGED body /\ Quiet

Settle(c) ==
    /\ pc[c] = "settle"
    /\ IF ~Toggle(c) /\ plan[c].noWait
         THEN Return(c, IF status = "GONE" THEN "notSettled" ELSE "accepted")
       ELSE SettleOn(c)
    /\ UNCHANGED body /\ Quiet

\* ctx ends, the deadline passes before or during a read, or reads keep failing.
GivesUp(c) ==
    /\ pc[c] \in {"read", "explain", "confirm", "settle"}
    /\ Return(c, CASE pc[c] = "read" -> "error"
                   [] pc[c] = "explain" -> "refused"
                   [] pc[c] = "confirm" -> "unconfirmed"
                   [] OTHER -> "notSettled")
    /\ UNCHANGED body /\ Quiet

-----------------------------------------------------------------------------
\* The server.
Arrive(c) ==
    /\ c \in late
    /\ late' = late \ {c}
    /\ Act(c) \/ (~Willing(c) /\ UNCHANGED <<plan, status, content, history>>)
    /\ UNCHANGED <<pc, body, reads, result>>

Deploy ==
    /\ status' \in CASE status = "DEPLOYING" -> {"ACTIVE", "UNKNOWN"}
                     [] status = "DISABLING" -> {"DISABLED"}
                     [] status = "DELETING" -> {"GONE"}
                     [] OTHER -> {}
    /\ UNCHANGED <<plan, content, late, pc, body, reads, result, history>>

Step(c) ==
    \/ ReadFirst(c)
    \/ Taken(c) \/ Refused(c) \/ NotReached(c) \/ Vanishes(c) \/ Outlives(c)
    \/ ExplainWrite401(c) \/ Confirm(c) \/ Settle(c) \/ GivesUp(c)

\* Every call returned and the server is at rest.
Finished ==
    /\ late = {} /\ status \notin {"DEPLOYING", "DISABLING", "DELETING"}
    /\ \A c \in Call : pc[c] = "done"
    /\ UNCHANGED vars

Next ==
    \/ \E c \in Call : Step(c) \/ Arrive(c)
    \/ Deploy
    \/ Finished

Spec == Init /\ [][Next]_vars

-----------------------------------------------------------------------------
(* Properties. *)

\* A call that says it sent nothing, or that the server refused it, has not
\* changed the CDN and never will (guard, serverDidNotAct, explainWrite401);
\* all other failures name the doubt: maybe, unconfirmed, not settled.
DidNothing == {"unchanged", "busy", "absent", "strange", "invalid", "refused", "error"}
ErrorMeansUntouched ==
    \A c \in Call : result[c] \in DidNothing => c \notin acted \cup late

\* A toggle or an update that returns success was carried out, and no copy of
\* its request can still flip the CDN back, unless another write raced with it
\* (confirm believes a read, not the answer to the request).
SuccessMeansLanded ==
    \A c \in Call : result[c] \in {"settled", "accepted"} /\ c \notin raced =>
        c \in acted /\ c \notin late

\* The server never flips a CDN away from the call's target, nor puts an old
\* field back, unless another write came between the call's read and its
\* request: late requests alone cannot do it.
ActsOnWhatItRead == misfit = {}
=============================================================================
