-------------------------- MODULE ProjectSelection --------------------------
(***************************************************************************)
(* Which project a core.Client works in.  Unless the configuration names    *)
(* one, the Client lists the projects of its region and, if there is        *)
(* exactly one, keeps it for good, with the user the list names for it.     *)
(* RequireProjectID lists under projectMu; RequireProject lists first and   *)
(* takes projectMu to choose.                                               *)
(***************************************************************************)
EXTENDS Naturals, FiniteSets

CONSTANTS
    Call,       \* calls on one Client
    Project,
    User,
    NoProject,  \* projectID is empty
    NoUser,     \* projectUserID is zero
    NoCall,     \* projectMu is unlocked
    Lists,      \* the lists of projects the service may answer with
    Configured, \* the projectIDs a configuration may start with
    Plans       \* what some of the calls do, each set of them to explore

ListedProject == [id : Project, user : User]
Plan == [op : {"id", "project", "prices"}, max : Nat, partial : BOOLEAN]

ASSUME SelectionAssumption ==
    /\ NoProject \notin Project /\ NoUser \notin User /\ NoCall \notin Call
    /\ Lists \subseteq SUBSET ListedProject /\ Lists # {}
    /\ \A l \in Lists : IsFiniteSet(l)
    /\ Configured \subseteq Project \cup {NoProject}
    /\ \A f \in Plans : DOMAIN f \subseteq Call /\ \A c \in DOMAIN f : f[c] \in Plan

VARIABLES
    plan,          \* what each call was asked for, never changes
    projects,      \* the list of the region, at the service
    projectID,
    projectUserID,
    projectMu,     \* the call that holds it
    stage, list,      \* of each call: where it is, the list it read
    got, result    \* the project it worked in, what it returned

client == <<projectID, projectUserID>>
selectionVars == <<plan, projects, client, projectMu, stage, list, got, result>>

Asked(c) == plan[c].op

SelectionInit ==
    /\ plan \in Plans
    /\ projects \in Lists
    /\ projectID \in Configured
    /\ projectUserID = NoUser
    /\ projectMu = NoCall
    /\ stage = [c \in Call |-> IF c \notin DOMAIN plan THEN "done"
                            ELSE IF Asked(c) = "project" THEN "list" ELSE "lock"]
    /\ list = [c \in Call |-> {}]
    /\ got = [c \in Call |-> NoProject]
    /\ result = [c \in Call |-> "none"]

-----------------------------------------------------------------------------
MoveTo(c, where) == stage' = [stage EXCEPT ![c] = where] /\ UNCHANGED <<got, result>>

EndCall(c, r, p) ==
    /\ stage' = [stage EXCEPT ![c] = "done"]
    /\ result' = [result EXCEPT ![c] = r]
    /\ got' = [got EXCEPT ![c] = p]

\* The list is read, or the request fails or ctx ends: then nothing is kept.
ListProjects(c) ==
    /\ stage[c] = "list"
    /\ \/ MoveTo(c, "lock") /\ list' = [list EXCEPT ![c] = projects]
       \/ EndCall(c, "error", NoProject) /\ UNCHANGED list
    /\ UNCHANGED <<plan, projects, client, projectMu>>

\* A Go mutex: no context ends the wait for it.
Lock(c) ==
    /\ stage[c] = "lock" /\ projectMu = NoCall
    /\ projectMu' = c
    /\ MoveTo(c, "locked")
    /\ UNCHANGED <<plan, projects, client, list>>

Select(e) == projectID' = e.id /\ projectUserID' = e.user

\* discoverProjectLocked's switch: the only project there is.  A listing of
\* prices goes on in it.
Choose(c, l) ==
    IF Cardinality(l) = 1
    THEN \E e \in l : /\ Select(e)
                      /\ IF Asked(c) = "prices" THEN MoveTo(c, "zones") ELSE EndCall(c, "ok", e.id)
    ELSE /\ EndCall(c, IF l = {} THEN "notFound" ELSE "ambiguous", NoProject)
         /\ UNCHANGED client

HoldsMu(c, op) == stage[c] = "locked" /\ Asked(c) = op

RequireProjectID(c) ==
    /\ HoldsMu(c, "id")
    /\ \/ EndCall(c, "error", NoProject) /\ UNCHANGED client
       \/ projectID # NoProject /\ EndCall(c, "ok", projectID) /\ UNCHANGED client
       \/ projectID = NoProject /\ Choose(c, projects)
    /\ projectMu' = NoCall
    /\ UNCHANGED <<plan, projects, list>>

\* Mutated RequireProject: the choice of another call is not looked for.
RequireProjectAnew(c) ==
    /\ HoldsMu(c, "project")
    /\ Choose(c, list[c])
    /\ projectMu' = NoCall
    /\ UNCHANGED <<plan, projects, list>>

RequireProject(c) ==
    /\ HoldsMu(c, "project")
    /\ \/ EndCall(c, "error", NoProject) /\ UNCHANGED client
       \/ /\ projectID # NoProject
          /\ IF \E e \in list[c] : e.id = projectID
               THEN \E e \in list[c] : e.id = projectID /\ Select(e)
               ELSE UNCHANGED client
          /\ EndCall(c, "ok", projectID)
       \/ projectID = NoProject /\ Choose(c, list[c])
    /\ projectMu' = NoCall
    /\ UNCHANGED <<plan, projects, list>>

\* Projects are added and removed, their user changes.
Change ==
    /\ projects' \in Lists
    /\ UNCHANGED <<plan, client, projectMu, stage, list, got, result>>

-----------------------------------------------------------------------------
\* All calls of a Client work in one project, whatever the lists say meanwhile,
\* and the user kept with it is one the service named for it.
SameProject ==
    /\ \A c \in Call : got[c] # NoProject => got[c] = projectID
    /\ projectUserID # NoUser =>
         \E l \in Lists : [id |-> projectID, user |-> projectUserID] \in l
=============================================================================
