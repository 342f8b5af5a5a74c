------------------------------- MODULE Cloud --------------------------------
(* Calls of packages compute and volume together, on one project.  They meet *)
(* at the service: a detach reads a server that others start and stop, the   *)
(* delete of a server lists volumes that others attach and detach.           *)
EXTENDS Servers, Volumes

Init ==
    /\ plan \in Plans
    /\ thing = AtFirst
    /\ jobs = {}
    /\ call = [c \in Call |->
         [pc |-> IF c \notin DOMAIN plan THEN "done"
                 ELSE IF plan[c].op \in CreateOps THEN "walk" ELSE "read",
          page |-> 1, seen |-> 0, reads |-> 0, tries |-> 0, todo |-> {}, kept |-> {},
          result |-> "none"]]
    /\ taken = [c \in Call |-> 0]
    /\ raced = {} /\ misfit = {} /\ freed = {}

Step(c) ==
    \/ CheckNoDuplicateName(c) \/ CheckPriceAboveMax(c)
    \/ ServerStep(c) \/ VolumeStep(c)
    \/ Accepted(c) \/ Refused(c) \/ NotTaken(c) \/ Outlives(c)

Service == \E j \in jobs : Arrive(j) \/ StartJob(j) \/ EndJob(j)

\* Every call returned and the service is at rest.
Finished == jobs = {} /\ (\A c \in Call : call[c].pc = "done") /\ UNCHANGED vars

Next ==
    \/ \E c \in Call : Step(c) \/ Break(c)
    \/ Service
    \/ Finished

Spec == Init /\ [][Next]_vars

-----------------------------------------------------------------------------
(* Properties. *)

TypeOK ==
    /\ plan \in Plans
    /\ thing \in [Thing -> Object]
    /\ jobs \subseteq Job
    /\ call \in [Call -> Local]
    /\ taken \in [Call -> Nat]
    /\ raced \subseteq Call /\ misfit \subseteq Call
    /\ freed \subseteq Call \X Volume

\* The service never carries out a write in a state the call's own checks rule
\* out (a detach without AllowRunning from a running server, or of its boot
\* volume; a resize that shrinks; a toggle or a reboot from another status)
\* unless another write to what the call had read came in between: the checks
\* of compute and volume miss nothing but that race, through late requests and
\* retries.
ActsOnWhatItRead == {c \in misfit : Asked(c) \notin CreateOps} = {}

\* A create orders a name that exists only if the list changed since its walk
\* over the pages began (CheckNoDuplicateName ahead of CreateServer and
\* CreateVolume).
NameOrderedOnce == {c \in misfit : Asked(c) \in CreateOps} = {}

\* A write sent once that returns success has nothing left at the service that
\* could still act, unless another write raced with it: a reboot in particular
\* is over, not about to begin (serverRebootMinWait).
SettledMeansLanded ==
    \A j \in jobs : Once(j.call) /\ call[j.call].result = "settled" => j.call \in raced

\* A write sent once that returns a 4xx as is, or an error from before its
\* request, did nothing and never will: a rerun is safe (is4xxAPIError).
ErrorMeansUntouched ==
    \A c \in DOMAIN plan : Once(c) /\ call[c].result \in {"invalid", "refused"} =>
        taken[c] = 0 /\ \A j \in jobs : j.call # c

\* A data volume that a delete of its server left over, and that is still there
\* and may cost money, is named by the delete's output, also when its wait
\* failed (KeptVolumeIDs), unless it was attached or detached meanwhile.
HasOutput(c) == call[c].result \in {"settled", "accepted", "notSettled", "failed"}
KeptNamesWhatStays == \A c \in Call, v \in Volume :
    <<c, v>> \in freed /\ HasOutput(c) /\ c \notin raced /\ StatusOf(v) # "GONE" => v \in call[c].kept
=============================================================================
