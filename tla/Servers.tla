------------------------------ MODULE Servers ------------------------------
(* The writes of package compute: start, stop, reboot, resize, delete and   *)
(* create a server.  RenameServer is one request and keeps no state.        *)
EXTENDS CloudService

Reading(c, ops) == call[c].pc = "read" /\ Asked(c) \in ops
Sent(c, ops) == call[c].pc = "settle" /\ Asked(c) \in ops

Target(c) == IF Asked(c) = "start" THEN "ACTIVE" ELSE "STOPPED"
From(c) == IF Asked(c) = "start" THEN "STOPPED" ELSE "ACTIVE"

\* StartServer and StopServer.
ToggleServerStatus(c) ==
    /\ Reading(c, {"start", "stop"})
    /\ IF Here(c).status = Target(c) THEN Return(c, "unchanged")
       ELSE IF Here(c).status = From(c) THEN Goto(c, "send")
       ELSE Return(c, "invalid")
    /\ FirstRead(c)

WaitServerStatus(c) ==
    /\ Sent(c, {"start", "stop"})
    /\ Await(c, Here(c).status = Target(c), Return(c, "notSettled"))

RebootServer(c) ==
    /\ Reading(c, {"reboot"})
    /\ IF Here(c).status = "ACTIVE" THEN Goto(c, "send") ELSE Return(c, "invalid")
    /\ FirstRead(c)

\* Mutated WaitServerRebooted: any ACTIVE counts.
RebootWithoutMinWait(c) ==
    /\ call[c].pc \in {"early", "settle"} /\ Asked(c) = "reboot"
    /\ Await(c, Here(c).status = "ACTIVE", Return(c, "notSettled"))

\* An ACTIVE that is read too early after the request does not count.
WaitServerRebooted(c) ==
    /\ call[c].pc \in {"early", "settle"} /\ Asked(c) = "reboot"
    /\ Await(c, call[c].pc = "settle" /\ Here(c).status = "ACTIVE", Return(c, "notSettled"))

\* serverRebootMinWait has passed since the request.
RebootMinWait(c) ==
    /\ call[c].pc = "early"
    /\ Prompt => \A j \in jobs : j.call = c => j.at # "queued" \/ Here(c).status = "CHANGING"
    /\ Goto(c, "settle")
    /\ Quiet

ResizeServer(c) ==
    /\ Reading(c, {"resizeServer"})
    /\ IF Here(c).status \in {"ACTIVE", "STOPPED"} /\ Here(c).val # plan[c].val
         THEN Goto(c, "quote") ELSE Return(c, "invalid")
    /\ FirstRead(c)

WaitServerResized(c) ==
    /\ Sent(c, {"resizeServer"})
    /\ Await(c, Here(c).val = plan[c].val /\ Here(c).status \in {"ACTIVE", "STOPPED"},
             Return(c, "notSettled"))

DeleteServer(c) ==
    /\ Reading(c, {"deleteServer"})
    /\ IF Here(c).status = "GONE" THEN Return(c, "invalid") ELSE Goto(c, "list")
    /\ FirstRead(c)

\* The boot volume goes with the server: it is no candidate unless it is
\* deleted on demand, or the server's read lacks its id.
ListVolumesByServer(c) ==
    /\ call[c].pc = "list"
    /\ \E ids \in {Attached(On(c)), Attached(On(c)) \ {BootVolume[On(c)]}} :
         /\ plan[c].flag => ids = Attached(On(c))
         /\ call' = [call EXCEPT ![c].pc = "send", ![c].kept = ids]
    /\ Quiet

WaitServerDeleted(c) ==
    /\ Sent(c, {"deleteServer"})
    /\ IF Here(c).status \in {"GONE", "DELETED"}
         THEN IF plan[c].flag \/ call[c].kept = {} THEN Return(c, "settled")
              ELSE call' = [call EXCEPT ![c].pc = "keep", ![c].todo = call[c].kept, ![c].reads = 0]
       ELSE IF Here(c).status = "ERROR" THEN Return(c, "failed")
       ELSE Poll(c)
    /\ Quiet

\* DeleteServer reads each volume it listed; kept is KeptVolumeIDs.
ReadKept(c, v, gone) ==
    LET kept == IF gone THEN call[c].kept \ {v} ELSE call[c].kept
        todo == call[c].todo \ {v}
    IN  call' = [call EXCEPT ![c].kept = kept, ![c].todo = todo,
                    ![c].pc = IF todo = {} THEN "done" ELSE @,
                    ![c].result = IF todo = {} THEN "settled" ELSE @]

\* Mutated KeptVolumes: every failed read counts as gone.
KeepWhatIsRead(c) ==
    /\ call[c].pc = "keep"
    /\ \E v \in call[c].todo : ReadKept(c, v, TRUE) \/ (StatusOf(v) # "GONE" /\ ReadKept(c, v, FALSE))
    /\ Quiet

\* Only a 404 counts as gone, any other failure of the read does not.
KeptVolumes(c) ==
    /\ call[c].pc = "keep"
    /\ \E v \in call[c].todo : (StatusOf(v) = "GONE" /\ ReadKept(c, v, TRUE)) \/ ReadKept(c, v, FALSE)
    /\ Quiet

\* A server just created may not be readable at once.
WaitServerActive(c) ==
    Sent(c, {"createServer"}) /\ Await(c, Here(c).status = "ACTIVE", Poll(c))

ServerStep(c) ==
    \/ ToggleServerStatus(c) \/ WaitServerStatus(c)
    \/ RebootServer(c) \/ WaitServerRebooted(c) \/ RebootMinWait(c)
    \/ ResizeServer(c) \/ WaitServerResized(c)
    \/ DeleteServer(c) \/ ListVolumesByServer(c) \/ WaitServerDeleted(c) \/ KeptVolumes(c)
    \/ WaitServerActive(c)
=============================================================================
