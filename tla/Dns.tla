--------------------------------- MODULE Dns ---------------------------------
(***************************************************************************)
(* Writes of package dns: hosted zones and their records.                   *)
(*                                                                         *)
(* A Client does one write at a time, from the first read of the zone to    *)
(* the end of the wait after the request.  Other Clients and requests that  *)
(* outlive their call change things in between; the service then refuses.   *)
(* It locks a zone for each create and update of a record, also one that    *)
(* changes nothing, and shows that only some time after its answer.         *)
(***************************************************************************)
EXTENDS Naturals

CONSTANTS
    Call, Client,
    ClientOf,    \* of each call
    Zone, Record,
    ZoneOf,      \* of each record
    Vpc,
    Text,        \* descriptions of zones and values of records
    None,
    Scenes,      \* what some of the calls do, and the zones they find, to explore
    MaxReads,    \* bound: sleeps of one wait before its deadline
    Attempts     \* those the transport makes, RetryCount + 1

ZoneOps == {"createZone", "updateZone", "deleteZone"}
RecordOps == {"createRecord", "updateRecord", "deleteRecord"}
CreateOps == {"createZone", "createRecord"}
UpdateOps == {"updateZone", "updateRecord"}
DeleteOps == {"deleteZone", "deleteRecord"}

\* text and vpcs are None where the caller leaves them alone.
Plan == [op : ZoneOps \cup RecordOps, zone : Zone, record : Record,
         text : Text \cup {None}, vpcs : (SUBSET Vpc) \cup {None}, noWait : BOOLEAN]

VARIABLES
    plan,     \* what each call was asked for, never changes
    vpcDns,   \* of each VPC, package network changes it
    zone,
    record,
    holder,   \* whose write each Client does: writeLock
    late,     \* calls with a request on its way that nobody waits for
    call,     \* the local variables of each call
    acted,    \* history: calls whose request the service carried out
    raced,    \* history: calls with a write that is none of their Client's turn since their read
    misfit    \* history: calls carried out on a zone other than the one they read

service == <<zone, record>>
history == <<acted, raced, misfit>>

\* by is the call whose work the zone is locked for; hidden, not to be seen yet.
ZoneState == [status : {"CREATING", "ACTIVE", "UPDATING", "ERROR", "DELETING", "GONE"},
              text : Text, vpcs : SUBSET Vpc, by : Call \cup {None}, hidden : BOOLEAN]
RecordState == [status : {"CREATING", "ACTIVE", "ERROR", "DELETING", "GONE"}, text : Text]
World == [zone : [Zone -> ZoneState], record : [Record -> RecordState]]

PC == {"lock", "ready", "send", "confirm", "settle", "settleRecord", "gone", "done"}
Early == {"canceled", "absent", "failedRead", "busy"}
Result == Early \cup {"none", "refused", "ambiguous", "error", "accepted", "settled", "notSettled", "failed"}
Body == [text : Text \cup {None}, vpcs : SUBSET Vpc]
Local == [pc : PC, base : Body, body : Body, shown : {"none", "ACTIVE", "ERROR", "other"}, polled : BOOLEAN,
          reads : 0..MaxReads, tries : 0..(Attempts - 1), result : Result]

TypeOK ==
    /\ \E i \in Scenes : plan = i.plan
    /\ [zone |-> zone, record |-> record] \in World
    /\ holder \in [Client -> Call \cup {None}]
    /\ late \subseteq Call
    /\ call \in [Call -> Local]
    /\ acted \subseteq Call /\ raced \subseteq Call /\ misfit \subseteq Call

Init ==
    /\ \E i \in Scenes : plan = i.plan /\ zone = i.zone /\ record = i.record
    /\ holder = [k \in Client |-> None]
    /\ late = {}
    /\ call = [c \in Call |->
         [pc |-> IF c \in DOMAIN plan THEN "lock" ELSE "done",
          base |-> [text |-> None, vpcs |-> {}], body |-> [text |-> None, vpcs |-> {}],
          shown |-> "none", polled |-> FALSE, reads |-> 0, tries |-> 0, result |-> "none"]]
    /\ acted = {} /\ raced = {} /\ misfit = {}

-----------------------------------------------------------------------------
Asked(c) == plan[c].op
Here(c) == zone[plan[c].zone]
There(c) == record[plan[c].record]
At(c, where) == call[c].pc = where
Settles(c) == IF Asked(c) \in DeleteOps THEN "gone" ELSE "settle"

Goto(c, where) ==
    call' = [call EXCEPT ![c] = [@ EXCEPT !.pc = where, !.reads = 0]] /\ UNCHANGED holder

\* Every way out gives the lock back.
Return(c, r) ==
    /\ call' = [call EXCEPT ![c] = [@ EXCEPT !.pc = "done", !.result = r, !.shown = "none",
                                            !.polled = FALSE, !.reads = 0, !.tries = 0]]
    /\ holder' = [k \in Client |-> IF holder[k] = c THEN None ELSE holder[k]]

Quiet == UNCHANGED <<plan, service, late, history>>

\* A step of poll that was not the last: it sleeps, or the bound has passed.
Poll(c, where, bound) ==
    IF call[c].reads < MaxReads
    THEN call' = [call EXCEPT ![c] = [@ EXCEPT !.pc = where, !.reads = call[c].reads + 1]] /\ UNCHANGED holder
    ELSE Return(c, bound)

\* An interval after the answer, the lock that a request took can be seen.
Slept(c) == call[c].reads > 0 => ~(Here(c).hidden /\ Here(c).by = c)

\* Mutated LockWrite: it does not wait.
LockWriteAtOnce(c) ==
    /\ At(c, "lock")
    /\ call' = [call EXCEPT ![c].pc = IF Asked(c) = "createZone" THEN "send" ELSE "ready"]
    /\ UNCHANGED holder
    /\ Quiet

LockWrite(c) ==
    /\ At(c, "lock")
    /\ holder[ClientOf[c]] = None
    /\ holder' = [holder EXCEPT ![ClientOf[c]] = c]
    /\ call' = [call EXCEPT ![c].pc = IF Asked(c) = "createZone" THEN "send" ELSE "ready"]
    /\ Quiet

\* A read or a sleep fails, or ctx ends.
Break(c) ==
    /\ call[c].pc \notin {"send", "done"}
    /\ Return(c, CASE At(c, "lock") -> "canceled" [] At(c, "ready") -> "failedRead" [] OTHER -> "notSettled")
    /\ Quiet

\* UpdateHostedZone sends all of the zone: what the caller left alone, as read.
Merged(c) ==
    [text |-> IF plan[c].text = None THEN Here(c).text ELSE plan[c].text,
     vpcs |-> IF plan[c].vpcs = None THEN Here(c).vpcs ELSE plan[c].vpcs]

WaitZoneReady(c) ==
    /\ At(c, "ready")
    /\ CASE Here(c).status = "GONE" -> Return(c, "absent")
         [] Here(c).status \in {"ACTIVE", "ERROR"} ->
              /\ call' = [call EXCEPT ![c] = [@ EXCEPT !.pc = "send", !.reads = 0, !.body = Merged(c),
                                                      !.base = [text |-> Here(c).text, vpcs |-> Here(c).vpcs]]]
              /\ UNCHANGED holder
         [] OTHER -> Poll(c, "ready", "busy")
    /\ raced' = raced \ {c}
    /\ UNCHANGED <<plan, service, late, acted, misfit>>

-----------------------------------------------------------------------------
\* The service, as docs/design/dns.md and the comments in the code tell it.  A
\* VPC must have Private DNS, or at least have it being enabled.
Usable(vpcs) == \A v \in vpcs : vpcDns[v] # "DISABLED"
Free(c) == Here(c).status \in {"ACTIVE", "ERROR"} /\ Here(c).by = None
InZone(z) == {r \in Record : ZoneOf[r] = z /\ record[r].status # "GONE"}

Acceptable(c) ==
    CASE Asked(c) = "createZone" -> Here(c).status = "GONE" /\ Usable(plan[c].vpcs)
      [] Asked(c) = "updateZone" -> Free(c) /\ Usable(call[c].body.vpcs)
      [] Asked(c) = "deleteZone" -> Free(c) /\ InZone(plan[c].zone) = {}
      [] Asked(c) = "createRecord" -> Free(c) /\ There(c).status = "GONE"
      [] OTHER -> Free(c) /\ There(c).status \in {"ACTIVE", "ERROR"}

\* An update that moves the zone to other VPCs locks it before the answer.
UpdateZone(c) ==
    LET moves == call[c].body.vpcs # Here(c).vpcs IN
    zone' = [zone EXCEPT ![plan[c].zone] =
        [@ EXCEPT !.text = call[c].body.text, !.vpcs = call[c].body.vpcs,
                  !.status = IF moves THEN "UPDATING" ELSE Here(c).status,
                  !.by = IF moves THEN c ELSE Here(c).by]]

Apply(c) ==
    CASE Asked(c) = "createZone" ->
           /\ zone' = [zone EXCEPT ![plan[c].zone] = [status |-> "CREATING", text |-> plan[c].text,
                                                     vpcs |-> plan[c].vpcs, by |-> c, hidden |-> FALSE]]
           /\ UNCHANGED record
      [] Asked(c) = "updateZone" -> UpdateZone(c) /\ UNCHANGED record
      [] Asked(c) = "deleteZone" ->
           zone' = [zone EXCEPT ![plan[c].zone].status = "DELETING"] /\ UNCHANGED record
      [] Asked(c) = "deleteRecord" ->
           record' = [record EXCEPT ![plan[c].record].status = "DELETING"] /\ UNCHANGED zone
      [] OTHER ->
           /\ zone' = [zone EXCEPT ![plan[c].zone] = [@ EXCEPT !.by = c, !.hidden = TRUE]]
           /\ record' = [record EXCEPT ![plan[c].record] =
                [status |-> IF Asked(c) = "createRecord" THEN "CREATING" ELSE @.status,
                 text |-> IF plan[c].text = None THEN @.text ELSE plan[c].text]]

\* What the caller left alone is what the call read.
Fits(c) ==
    Asked(c) = "updateZone" =>
        /\ plan[c].text = None => Here(c).text = call[c].base.text
        /\ plan[c].vpcs = None => Here(c).vpcs = call[c].base.vpcs

Act(c) ==
    /\ Acceptable(c)
    /\ Apply(c)
    /\ acted' = acted \cup {c}
    /\ UNCHANGED plan

\* Calls whose Client has no part in the write that c sends now.
Others(c) == {d \in DOMAIN plan : ClientOf[d] # ClientOf[c]}

\* A create may come back without an id.
Succeed(c) ==
    \/ Asked(c) \in CreateOps /\ Return(c, "ambiguous")
    \/ /\ plan[c].noWait
       /\ IF Asked(c) \in UpdateOps THEN Goto(c, "confirm") ELSE Return(c, "accepted")
    \/ ~plan[c].noWait /\ Goto(c, Settles(c))

\* No answer, or a 5xx: a PUT and a DELETE are sent again, a POST is not.
Fail(c) ==
    \/ /\ Asked(c) \notin CreateOps /\ call[c].tries + 1 < Attempts
       /\ call' = [call EXCEPT ![c].tries = @ + 1] /\ UNCHANGED holder
    \/ Return(c, IF Asked(c) \in CreateOps THEN "ambiguous" ELSE "error")

Accepted(c) ==
    /\ At(c, "send")
    /\ Succeed(c) \/ Fail(c)
    /\ Act(c)
    /\ raced' = raced \cup Others(c)
    /\ misfit' = IF Fits(c) \/ c \in raced THEN misfit ELSE misfit \cup {c}
    /\ UNCHANGED late

\* A 4xx, the one of the zone lock among them, is never sent again.
Refused(c) == At(c, "send") /\ Return(c, "refused") /\ Quiet

NotTaken(c) == At(c, "send") /\ Fail(c) /\ Quiet

\* The request is still on its way when the call gives up on it.
Outlives(c) ==
    /\ At(c, "send") /\ Fail(c)
    /\ late' = late \cup {c}
    /\ UNCHANGED <<plan, service, history>>

-----------------------------------------------------------------------------
\* An update with NoWait ends with one read.
Confirm(c) ==
    /\ At(c, "confirm")
    /\ LET status == IF Asked(c) = "updateZone" THEN Here(c).status ELSE There(c).status IN
       Return(c, IF status = "GONE" THEN "notSettled" ELSE "accepted")
    /\ Quiet

Shows(c) == Asked(c) = "createZone" \/ (Here(c).text = call[c].body.text /\ Here(c).vpcs = call[c].body.vpcs)

SettleZone(c) ==
    /\ At(c, "settle") /\ Asked(c) \in ZoneOps /\ Slept(c)
    /\ CASE Here(c).status = "GONE" -> Return(c, "notSettled")
         [] Here(c).status = "ACTIVE" /\ Shows(c) -> Return(c, "settled")
         [] Here(c).status = "ERROR" -> Return(c, "failed")
         [] OTHER -> Poll(c, "settle", "notSettled")
    /\ Quiet

\* The zone first and then the record.
SettleReadZone(c) ==
    /\ At(c, "settle") /\ Asked(c) \in RecordOps /\ Slept(c)
    /\ IF Here(c).status = "GONE" THEN Return(c, "notSettled")
       ELSE /\ call' = [call EXCEPT ![c] = [@ EXCEPT !.pc = "settleRecord",
                                                    !.shown = IF Here(c).status \in {"ACTIVE", "ERROR"}
                                                              THEN Here(c).status ELSE "other"]]
            /\ UNCHANGED holder
    /\ Quiet

RecordMatchesUpdate(c) == plan[c].text \in {None, There(c).text}

\* Mutated SettledRecord: an update trusts the first match.
SettledAtOnce(c) ==
    /\ call[c].shown = "ACTIVE" /\ There(c).status = "ACTIVE"
    /\ Asked(c) = "updateRecord" => RecordMatchesUpdate(c)

\* An update does not trust a match in the first poll that finds the zone ACTIVE.
SettledRecord(c) ==
    /\ call[c].shown = "ACTIVE" /\ There(c).status = "ACTIVE"
    /\ Asked(c) = "updateRecord" => call[c].polled /\ RecordMatchesUpdate(c)

SettleRecord(c) ==
    /\ At(c, "settleRecord")
    /\ CASE There(c).status = "GONE" -> Return(c, "notSettled")
         [] "ERROR" \in {call[c].shown, There(c).status} -> Return(c, "failed")
         [] SettledRecord(c) -> Return(c, "settled")
         [] call[c].reads < MaxReads ->
              /\ call' = [call EXCEPT ![c] = [@ EXCEPT !.pc = "settle", !.shown = "none", !.reads = call[c].reads + 1,
                                                      !.polled = call[c].polled \/ call[c].shown = "ACTIVE"]]
              /\ UNCHANGED holder
         [] OTHER -> Return(c, "notSettled")
    /\ Quiet

Gone(c, status) == IF status = "GONE" THEN Return(c, "settled") ELSE Poll(c, "gone", "notSettled")

WaitZoneGone(c) ==
    At(c, "gone") /\ Asked(c) = "deleteZone" /\ Gone(c, Here(c).status) /\ Quiet

\* It does not look at the zone.
WaitRecordGone(c) ==
    At(c, "gone") /\ Asked(c) = "deleteRecord" /\ Gone(c, There(c).status) /\ Quiet

-----------------------------------------------------------------------------
\* A late request arrives after all, for its call as for any other.
Arrive(c) ==
    /\ c \in late
    /\ late' = late \ {c}
    /\ \/ Act(c) /\ raced' = raced \cup DOMAIN plan /\ UNCHANGED misfit
       \/ ~Acceptable(c) /\ UNCHANGED <<plan, service, history>>
    /\ UNCHANGED <<call, holder>>

Meanwhile == UNCHANGED <<plan, holder, late, call, history>>

ShowLock(z) ==
    /\ zone[z].hidden
    /\ zone' = [zone EXCEPT ![z] = [@ EXCEPT !.hidden = FALSE, !.status = "UPDATING"]]
    /\ UNCHANGED record /\ Meanwhile

\* A zone with a VPC whose Private DNS is still being enabled ends in ERROR.
Ends(z) == {"ERROR"} \cup IF \A v \in zone[z].vpcs : vpcDns[v] = "ENABLED" THEN {"ACTIVE"} ELSE {}

EndZoneWork(z) ==
    /\ \/ /\ zone[z].status \in {"CREATING", "UPDATING"}
          /\ \E end \in Ends(z) : zone' = [zone EXCEPT ![z] = [@ EXCEPT !.status = end, !.by = None]]
          /\ IF Asked(zone[z].by) \in RecordOps
             THEN \E end \in {"ACTIVE", "ERROR"} :
                    record' = [record EXCEPT ![plan[zone[z].by].record].status = end]
             ELSE UNCHANGED record
       \/ /\ zone[z].status = "DELETING"
          /\ zone' = [zone EXCEPT ![z].status = "GONE"]
          /\ UNCHANGED record
    /\ Meanwhile

EndRecordWork(r) ==
    /\ record[r].status = "DELETING"
    /\ record' = [record EXCEPT ![r].status = "GONE"]
    /\ UNCHANGED zone /\ Meanwhile

Step(c) ==
    \/ LockWrite(c) \/ WaitZoneReady(c)
    \/ Accepted(c) \/ Refused(c) \/ NotTaken(c) \/ Outlives(c)
    \/ Confirm(c) \/ SettleZone(c) \/ SettleReadZone(c) \/ SettleRecord(c) 
    \/ WaitZoneGone(c) \/ WaitRecordGone(c)

Next ==
    \/ \E c \in Call : Step(c) \/ Break(c) \/ Arrive(c)
    \/ \E z \in Zone : ShowLock(z) \/ EndZoneWork(z)
    \/ \E r \in Record : EndRecordWork(r)

-----------------------------------------------------------------------------
(* Properties. *)

\* A replace of a whole zone, carried out while its call waits for the answer,
\* keeps the part its caller left alone, unless a write of another Client, or a
\* request that outlived its call, came in after the read it was merged with:
\* calls of one Client do not undo each other (writeLock).
ActsOnWhatItRead == misfit = {}

\* An error from before the request, ErrZoneBusy among them, and a 4xx to a
\* create mean that nothing of the call was carried out or is on its way.
RefusalMeansUntouched ==
    \A c \in DOMAIN plan :
        call[c].result \in Early \/ (call[c].result = "refused" /\ Asked(c) \in CreateOps)
            => c \notin acted \cup late

\* A write that returns success after its wait is over: the zone is not locked,
\* or about to be, for it, also after an update that changed nothing, unless
\* another Client or a late request wrote as well.
SettledMeansLanded ==
    \A c \in DOMAIN plan : call[c].result = "settled" /\ c \notin raced =>
        \A z \in Zone : zone[z].by # c
=============================================================================
