------------------------------ MODULE Volumes ------------------------------
(* The writes of package volume: attach, detach, resize, delete and create. *)
EXTENDS CloudService

Begins(c, ops) == call[c].pc = "read" /\ Asked(c) \in ops
Polls(c, op) == call[c].pc = "settle" /\ Asked(c) = op

AttachVolume(c) ==
    /\ Begins(c, {"attach"})
    /\ IF Here(c).status = "GONE" THEN Return(c, "invalid")
       ELSE IF Here(c).on = plan[c].server THEN Return(c, "unchanged")
       ELSE Goto(c, "send")
    /\ FirstRead(c)

WaitVolumeAttached(c) ==
    /\ Polls(c, "attach")
    /\ Await(c, Here(c).status = "IN-USE" /\ Here(c).on = plan[c].server, Return(c, "notSettled"))

DetachVolume(c) ==
    /\ Begins(c, {"detach"})
    /\ IF Here(c).status = "GONE" THEN Return(c, "invalid")
       ELSE IF Here(c).on # plan[c].server THEN Return(c, "unchanged")
       ELSE Goto(c, "readServer")
    /\ FirstRead(c)

\* Mutated ReadServer: the server's status is not looked at.
ReadServerBootOnly(c) ==
    /\ call[c].pc = "readServer"
    /\ IF StatusOf(plan[c].server) # "GONE" /\ On(c) # BootVolume[plan[c].server]
         THEN Goto(c, "send") ELSE Return(c, "invalid")
    /\ Quiet

\* A server that is gone, names no boot volume or this one, or is not STOPPED.
ReadServer(c) ==
    /\ call[c].pc = "readServer"
    /\ IF /\ StatusOf(plan[c].server) # "GONE" /\ On(c) # BootVolume[plan[c].server]
          /\ (plan[c].flag \/ StatusOf(plan[c].server) = "STOPPED")
         THEN Goto(c, "send") ELSE Return(c, "invalid")
    /\ Quiet

WaitVolumeDetached(c) ==
    Polls(c, "detach") /\ Await(c, Here(c).status = "AVAILABLE", Return(c, "notSettled"))

ResizeVolume(c) ==
    /\ Begins(c, {"resizeVolume"})
    /\ IF Here(c).status \in {"AVAILABLE", "IN-USE"} /\ Here(c).val < plan[c].val
         THEN Goto(c, "quote") ELSE Return(c, "invalid")
    /\ FirstRead(c)

WaitVolumeResized(c) ==
    /\ Polls(c, "resizeVolume")
    /\ Await(c, Here(c).val = plan[c].val /\ Here(c).status \in {"AVAILABLE", "IN-USE"},
             Return(c, "notSettled"))

DeleteVolume(c) ==
    /\ Begins(c, {"deleteVolume"})
    /\ IF Here(c).status \in {"GONE", "IN-USE"} \/ Here(c).on # Nobody
         THEN Return(c, "invalid") ELSE Goto(c, "send")
    /\ FirstRead(c)

WaitVolumeDeleted(c) ==
    /\ Polls(c, "deleteVolume")
    /\ Await(c, Here(c).status = "DELETED", Return(c, "settled"))

\* A volume just created may not be readable at once.
WaitVolumeAvailable(c) ==
    Polls(c, "createVolume") /\ Await(c, Here(c).status = "AVAILABLE", Poll(c))

VolumeStep(c) ==
    \/ AttachVolume(c) \/ WaitVolumeAttached(c)
    \/ DetachVolume(c) \/ ReadServer(c) \/ WaitVolumeDetached(c)
    \/ ResizeVolume(c) \/ WaitVolumeResized(c)
    \/ DeleteVolume(c) \/ WaitVolumeDeleted(c)
    \/ WaitVolumeAvailable(c)
=============================================================================
