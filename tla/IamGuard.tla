------------------------------ MODULE IamGuard -------------------------------
(***************************************************************************)
(* The guarded writes of package iam.  A write to policies, groups, users  *)
(* and service accounts is preceded by reads that must show that it        *)
(* changes neither the caller's rights nor those of a principal that may   *)
(* write to IAM.  Reads and write are requests of their own: other guarded *)
(* writes, of the same Client and of others, come between them, and a      *)
(* request that was sent may be carried out late, or twice.                *)
(***************************************************************************)
EXTENDS Naturals, Sequences

CONSTANTS
    Policy, Group, User, ServiceAccount,  \* identifiers, of what exists and of what may be created
    Pattern,       \* action patterns of a statement
    WritePattern,  \* those matchesWriteAction accepts
    Managed,       \* policies of the provider
    Idp,           \* groups whose mode is not "iam"
    Foreign,       \* users whose From is not "iam"
    Root,          \* a caller that is neither a user nor a service account
    Task,          \* goroutines and processes that call the writes
    Caller,        \* whose token each of them uses
    Worlds,        \* what may exist at first
    Plans          \* the calls of the tasks, each set of them to explore

Holder == Group \cup User \cup ServiceAccount
Principal == User \cup ServiceAccount

\* A policy document.  An effect is "odd" when it is neither allow nor deny.
Statement == [effect : {"allow", "deny", "odd"}, actions : SUBSET Pattern]
Document == SUBSET Statement

PolicyOps == {"CreatePolicy", "UpdatePolicy", "DeletePolicy"}
AttachOps == {"AttachPolicy", "DetachPolicy"}
MemberOps == {"AddUserToGroup", "RemoveUserFromGroup"}
AccountOps == {"UpdateServiceAccount", "ResetServiceAccountSecret", "DeleteServiceAccount"}
UserOps == {"DeleteUser", "ResetUserPassword"}

\* checkPolicyStatements: new statements are refused by their shape alone.
Proper(doc) == doc # {} /\ \A s \in doc : s.effect # "odd" /\ s.actions # {}

\* The input of a call; a write ignores the fields it has no use for, and an
\* UpdatePolicy that keeps the statements has no new ones.
Request ==
    {c \in [op : PolicyOps \cup AttachOps \cup MemberOps \cup AccountOps \cup UserOps \cup {"DeleteGroup"},
            policy : Policy, target : Holder, member : User, doc : Document, keep : BOOLEAN] :
        /\ c.op \in MemberOps \cup {"DeleteGroup"} => c.target \in Group
        /\ c.op \in AccountOps => c.target \in ServiceAccount
        /\ c.op \in UserOps => c.target \in User
        /\ c.op = "CreatePolicy" => ~c.keep
        /\ c.op \in {"CreatePolicy", "UpdatePolicy"} => c.keep \/ Proper(c.doc)}

World == [exists : SUBSET (Policy \cup Holder), document : [Policy -> Document],
          held : [Holder -> SUBSET Policy], members : [Group -> SUBSET User]]

VARIABLES
    \* the service
    exists,    \* identifiers of what there is
    used,      \* identifiers given out so far
    document,  \* the statements of each policy
    held,      \* the policies attached to each group and principal
    members,   \* the users in each group
    \* the tasks
    plan,      \* the calls of each task, never changes
    turn,      \* the call of its plan a task is at
    phase,     \* "idle", "guard" while the reads run, "sent"
    todo,      \* reads of the guard that are still to be made
    seen,      \* what the guard knows of policies it has read
    reason,    \* the protection it has found so far
    base,      \* the statements an UpdatePolicy without Statements will send
    result,    \* how the last call ended
    \* the network
    wire,      \* writes sent that the service may still carry out
    \* history
    taken      \* principals whose password, secret or settings were changed

service == <<exists, used, document, held, members>>
guard == <<todo, seen, reason, base>>
guardVars == <<service, plan, turn, phase, guard, result, wire, taken>>

None == "none"
Known == {"unread", "plain", "privileged"}
Refusals == {"selfChange", "privileged", "managed", "inUse", "origin"}
Kinds == {"attached", "groupsOf", "policy", "target", "groups", "users", "accounts", "origin"}

\* A read of the guard: what it asks for, the object, and for whose protection.
Read(kind, x, of) == [kind |-> kind, id |-> x, of |-> of]
Reads == [kind : Kinds, id : Policy \cup Holder, of : Policy \cup Holder]

ASSUME IamAssumption ==
    /\ (User \cap ServiceAccount) \cup (Group \cap Principal) \cup (Policy \cap Holder) = {}
    /\ WritePattern \subseteq Pattern
    /\ Managed \subseteq Policy /\ Idp \subseteq Group /\ Foreign \subseteq User
    /\ Root \notin Principal /\ Caller \in [Task -> Principal \cup {Root}]
    /\ Worlds \subseteq World
    \* What does not exist has nothing and is in nothing.
    /\ \A w \in Worlds :
         /\ \A h \in Holder : w.held[h] \subseteq w.exists /\ (h \notin w.exists => w.held[h] = {})
         /\ \A g \in Group : w.members[g] \subseteq w.exists /\ (g \notin w.exists => w.members[g] = {})
    /\ Plans \subseteq [Task -> Seq(Request)]

-----------------------------------------------------------------------------
\* statementsArePrivileged: whatever cannot be proved safe is privileged.
StatementsArePrivileged(doc) ==
    \/ doc = {}
    \/ \E s \in doc :
         /\ s.effect # "deny"
         /\ s.effect # "allow" \/ s.actions = {} \/ s.actions \cap WritePattern # {}

Privileged(p) == StatementsArePrivileged(document[p])
Empowered(h) == \E p \in held[h] : Privileged(p)

GroupsOf(u) == {g \in Group : u \in members[g]}

\* Principals with a privileged policy, a user also through a group.
IsProtected(x) == Empowered(x) \/ (x \in User /\ \E g \in GroupsOf(x) : Empowered(g))
Protected == {x \in Principal : IsProtected(x)}

\* The policies a principal has, with what they say.
PoliciesOf(x) == held[x] \cup (IF x \in User THEN UNION {held[g] : g \in GroupsOf(x)} ELSE {})
Rights(x) == {<<p, document[p]>> : p \in PoliciesOf(x)}

GuardInit ==
    /\ \E w \in Worlds :
         /\ exists = w.exists /\ document = w.document
         /\ held = w.held /\ members = w.members
    /\ used = exists
    /\ plan \in Plans
    \* The service takes these writes only from callers that may write to IAM.
    /\ \A t \in Task : Caller[t] # Root => Caller[t] \in Protected
    /\ turn = [t \in Task |-> 1]
    /\ phase = [t \in Task |-> "idle"]
    /\ todo = [t \in Task |-> {}]
    /\ seen = [t \in Task |-> [p \in Policy |-> "unread"]]
    /\ reason = [t \in Task |-> None]
    /\ base = [t \in Task |-> {}]
    /\ result = [t \in Task |-> None]
    /\ wire = {} /\ taken = {}

GuardTypeOK ==
    /\ exists \subseteq Policy \cup Holder /\ used \subseteq Policy \cup Holder
    /\ document \in [Policy -> Document]
    /\ held \in [Holder -> SUBSET Policy]
    /\ members \in [Group -> SUBSET User]
    /\ plan \in [Task -> Seq(Request)]
    /\ turn \in [Task -> Nat \ {0}]
    /\ \A t \in Task : turn[t] <= Len(plan[t]) + 1
    /\ phase \in [Task -> {"idle", "guard", "sent"}]
    /\ todo \in [Task -> SUBSET Reads]
    /\ seen \in [Task -> [Policy -> Known]]
    /\ reason \in [Task -> {None, "self", "privilege"}]
    /\ base \in [Task -> Document]
    /\ result \in [Task -> Refusals \cup {None, "failed", "returned"}]
    /\ wire \subseteq [from : Task, call : Request, doc : Document]
    /\ taken \subseteq Principal

-----------------------------------------------------------------------------
Call(t) == plan[t][turn[t]]
Quiet == UNCHANGED <<service, plan, wire, taken>>

\* A call returns: what its guard learned goes with it.
End(t, how) ==
    /\ phase' = [phase EXCEPT ![t] = "idle"]
    /\ turn' = [turn EXCEPT ![t] = @ + 1]
    /\ result' = [result EXCEPT ![t] = how]
    /\ todo' = [todo EXCEPT ![t] = {}]
    /\ seen' = [seen EXCEPT ![t] = [p \in Policy |-> "unread"]]
    /\ reason' = [reason EXCEPT ![t] = None]
    /\ base' = [base EXCEPT ![t] = {}]

\* Mutated Combine: what was found first stays.
CombineFirst(a, b) == IF a = None THEN b ELSE a

\* combineProtectedReasons.
Combine(a, b) ==
    IF "self" \in {a, b} THEN "self" ELSE IF "privilege" \in {a, b} THEN "privilege" ELSE None

\* A read is answered: it adds to the reason and leaves these reads to do.
\* The loops over several objects end early only at "self".
Learn(t, why, left) ==
    /\ reason' = [reason EXCEPT ![t] = Combine(@, why)]
    /\ todo' = [todo EXCEPT ![t] = IF why = "self" THEN {} ELSE left]
    /\ UNCHANGED <<phase, turn, result>> /\ Quiet

\* Whether the caller is the user.  A service account is never compared.
IsCaller(t, x) == x = Caller[t] /\ x \in User
ByAccount(t) == Caller[t] \in ServiceAccount

Attached(x) == Read("attached", x, x)

\* The reads an operation begins with.
FirstReads(c) ==
    CASE c.op \in {"UpdatePolicy", "DeletePolicy"} -> {Read("target", c.policy, c.policy)}
      [] c.op \in AttachOps -> {Attached(c.target), Read("target", c.policy, c.policy)}
      [] c.op \in MemberOps -> {Attached(c.member), Attached(c.target)}
      [] c.op \in AccountOps \cup {"DeleteGroup"} -> {Attached(c.target)}
      [] c.op \in UserOps -> {Read("origin", c.target, c.target)}
      [] OTHER -> {}

\* guardCreatePolicy: it has nothing to read but the actions.
CreateIsPrivileged(c) == c.op = "CreatePolicy" /\ StatementsArePrivileged(c.doc)

\* requireClassifiedCaller and the checks that need no read of the target.
Start(t) ==
    /\ phase[t] = "idle" /\ turn[t] <= Len(plan[t])
    /\ Quiet
    /\ LET c == Call(t) IN
       IF Caller[t] = Root THEN End(t, "privileged")
       ELSE IF \/ c.op \in UserOps /\ IsCaller(t, c.target)
               \/ c.op \in AccountOps \cup AttachOps /\ c.target \in ServiceAccount /\ ByAccount(t)
         THEN End(t, "selfChange")
       ELSE /\ phase' = [phase EXCEPT ![t] = "guard"]
            /\ todo' = [todo EXCEPT ![t] = FirstReads(c)]
            /\ reason' = [reason EXCEPT ![t] = IF CreateIsPrivileged(c) THEN "privilege" ELSE None]
            /\ UNCHANGED <<turn, result, seen, base>>

\* A guard read fails, is not found, is incomplete or cannot be proved, or the
\* context ends: the write is not sent.
GuardFails(t) == phase[t] = "guard" /\ End(t, "failed") /\ Quiet

\* anyPolicyIDPrivileged, over policies attached to x: what the guard has
\* already read in this call it does not read again.
AlreadyPrivileged(t, ps) == \E p \in ps : seen[t][p] = "privileged"
PolicyReads(t, ps, x) ==
    IF AlreadyPrivileged(t, ps) THEN {}
    ELSE {Read("policy", p, x) : p \in {q \in ps : seen[t][q] = "unread"}}
WhyOf(t, ps) == IF AlreadyPrivileged(t, ps) THEN "privilege" ELSE None

Asks(t, r) == phase[t] = "guard" /\ r \in todo[t]

\* userIsProtected: first the comparison with the caller, then the list of the
\* policies attached to the user.
FindSelf(t, u) ==
    /\ Asks(t, Attached(u)) /\ IsCaller(t, u)
    /\ Learn(t, "self", {})
    /\ UNCHANGED <<seen, base>>

ReadUser(t, u) ==
    /\ u \in User \cap exists /\ Asks(t, Attached(u)) /\ ~IsCaller(t, u)
    /\ Learn(t, WhyOf(t, held[u]),
             (todo[t] \ {Attached(u)}) \cup PolicyReads(t, held[u], u)
               \cup (IF AlreadyPrivileged(t, held[u]) THEN {} ELSE {Read("groupsOf", u, u)}))
    /\ UNCHANGED <<seen, base>>

\* guardUserGroups: the user's groups with the policies of each.
ReadGroupsOf(t, u) ==
    /\ u \in User \cap exists /\ Asks(t, Read("groupsOf", u, u))
    /\ LET ps == UNION {held[g] : g \in GroupsOf(u)} IN
       Learn(t, WhyOf(t, ps),
             (todo[t] \ {Read("groupsOf", u, u)}) \cup PolicyReads(t, ps, u))
    /\ UNCHANGED <<seen, base>>

\* serviceAccountIsProtected.
ReadAccount(t, s) ==
    /\ s \in ServiceAccount \cap exists /\ Asks(t, Attached(s))
    /\ Learn(t, WhyOf(t, held[s]), (todo[t] \ {Attached(s)}) \cup PolicyReads(t, held[s], s))
    /\ UNCHANGED <<seen, base>>

\* Mutated MemberReads: a group is judged by its own policies.
NoMemberReads(g) == {}

\* groupIsProtected looks at every member.
MemberReads(g) == {Attached(u) : u \in members[g]}

\* groupIsProtected, from one response with the mode, the policies and the
\* members.
ReadGroup(t, g) ==
    /\ g \in (Group \cap exists) \ Idp /\ Asks(t, Attached(g)) /\ Call(t).op # "DeleteGroup"
    /\ Learn(t, WhyOf(t, held[g]),
             (todo[t] \ {Attached(g)}) \cup PolicyReads(t, held[g], g) \cup MemberReads(g))
    /\ UNCHANGED <<seen, base>>

\* guardDeleteGroup, from the same response.
ReadGroupToDelete(t, g) ==
    /\ g \in (Group \cap exists) \ Idp /\ Asks(t, Attached(g)) /\ Call(t).op = "DeleteGroup"
    /\ IF held[g] \cup members[g] = {}
         THEN Learn(t, None, todo[t] \ {Attached(g)}) /\ UNCHANGED <<seen, base>>
         ELSE End(t, "inUse") /\ Quiet

\* anyPolicyIDPrivileged: GetPolicy.  A privileged policy settles the matter
\* for the one it is attached to.
ReadPolicy(t, p, x) ==
    /\ p \in Policy \cap exists /\ Asks(t, Read("policy", p, x))
    /\ IF Privileged(p)
         THEN /\ Learn(t, "privilege", {r \in todo[t] : r.of # x})
              /\ seen' = [seen EXCEPT ![t][p] = "privileged"]
         ELSE /\ Learn(t, None, {r \in todo[t] : ~(r.kind = "policy" /\ r.id = p)})
              /\ seen' = [seen EXCEPT ![t][p] = "plain"]
    /\ UNCHANGED base

Lists(p) == {Read(kind, p, p) : kind \in {"groups", "users", "accounts"}}

\* Mutated IsPrivilegedChange: the proposed statements are not looked at.
IsPrivilegedChangeAsIs(c) == c.op # "DeletePolicy" /\ Privileged(c.policy)

\* The call's own policy is privileged, or would become so.
IsPrivilegedChange(c) ==
    /\ c.op # "DeletePolicy"
    /\ \/ Privileged(c.policy)
       \/ c.op = "UpdatePolicy" /\ ~c.keep /\ StatementsArePrivileged(c.doc)

\* The policy to attach or detach is read last, when its target is not protected.
LastRead(c) == IF c.op \in AttachOps THEN {Read("target", c.policy, c.policy)} ELSE {}

\* GetPolicy of the call's own policy, in each of its guards.
ReadTarget(t) ==
    LET c == Call(t) IN
    /\ Asks(t, Read("target", c.policy, c.policy)) /\ c.policy \in exists
    /\ c.op \in AttachOps => todo[t] = LastRead(c) /\ reason[t] = None
    /\ IF c.op \notin AttachOps /\ c.policy \in Managed
         THEN End(t, "managed") /\ Quiet
         ELSE /\ Learn(t, IF IsPrivilegedChange(c) THEN "privilege" ELSE None,
                       (todo[t] \ {Read("target", c.policy, c.policy)})
                         \cup (IF c.op \in AttachOps THEN {} ELSE Lists(c.policy)))
              /\ base' = [base EXCEPT ![t] = document[c.policy]]
              /\ UNCHANGED seen

\* guardDeletePolicy refuses whatever the policy is attached to.
StillAttached(c, on) == c.op = "DeletePolicy" /\ on # {}

\* policyAttachedToProtected: one of the three lists, then a check of each on it.
ReadList(t, kind, of) ==
    LET p == Call(t).policy
        on == {h \in of : p \in held[h]}
    IN
    /\ Asks(t, Read(kind, p, p)) /\ p \in exists
    /\ IF StillAttached(Call(t), on)
         THEN End(t, "inUse") /\ Quiet
         ELSE /\ Learn(t, IF of = ServiceAccount /\ ByAccount(t) /\ on # {} THEN "self" ELSE None,
                       (todo[t] \ {Read(kind, p, p)}) \cup {Attached(h) : h \in on})
              /\ UNCHANGED <<seen, base>>

\* guardUserWriteTarget, then guardUserAdministration for a password.
ReadOrigin(t, u) ==
    /\ u \in User \cap exists /\ Asks(t, Read("origin", u, u))
    /\ IF u \in Foreign
         THEN End(t, "origin") /\ Quiet
         ELSE /\ Learn(t, None, (todo[t] \ {Read("origin", u, u)})
                           \cup (IF Call(t).op = "ResetUserPassword" THEN {Attached(u)} ELSE {}))
              /\ UNCHANGED <<seen, base>>

\* refuseForProtectedReason.
Refuse(t) ==
    /\ phase[t] = "guard" /\ reason[t] # None
    /\ todo[t] \subseteq LastRead(Call(t)) \/ reason[t] = "self"
    /\ End(t, IF reason[t] = "self" THEN "selfChange" ELSE "privileged")
    /\ Quiet

\* The statements an UpdatePolicy sends: without new ones those it has read.
Sends(t) == IF Call(t).keep THEN base[t] ELSE Call(t).doc

Send(t) ==
    /\ phase[t] = "guard" /\ reason[t] = None /\ todo[t] = {}
    /\ wire' = wire \cup {[from |-> t, call |-> Call(t), doc |-> Sends(t)]}
    /\ phase' = [phase EXCEPT ![t] = "sent"]
    /\ UNCHANGED <<service, plan, turn, guard, result, taken>>

\* An answer, an error or the end of the context, whatever became of the write.
Returns(t) == phase[t] = "sent" /\ End(t, "returned") /\ Quiet

GuardStep(t) ==
    \/ \E u \in User : FindSelf(t, u) \/ ReadUser(t, u) \/ ReadGroupsOf(t, u) \/ ReadOrigin(t, u)
    \/ \E s \in ServiceAccount : ReadAccount(t, s)
    \/ \E g \in Group : ReadGroup(t, g) \/ ReadGroupToDelete(t, g)
    \/ \E p \in Policy : \E x \in Holder : ReadPolicy(t, p, x)
    \/ ReadTarget(t)
    \/ ReadList(t, "groups", Group) \/ ReadList(t, "users", User)
    \/ ReadList(t, "accounts", ServiceAccount)
    \/ Refuse(t)

-----------------------------------------------------------------------------
\* The service carries a write out.  It refuses one on what does not exist or
\* from a caller that does not, and an attachment that is already there.
LandPolicy(c, doc) ==
    /\ \/ /\ c.op = "CreatePolicy"
          /\ \E p \in Policy \ used :
               /\ exists' = exists \cup {p} /\ used' = used \cup {p}
               /\ document' = [document EXCEPT ![p] = doc]
          /\ UNCHANGED held
       \/ /\ c.op = "UpdatePolicy" /\ c.policy \in exists
          /\ document' = [document EXCEPT ![c.policy] = doc]
          /\ UNCHANGED <<exists, used, held>>
       \/ /\ c.op = "DeletePolicy" /\ c.policy \in exists
          /\ exists' = exists \ {c.policy}
          /\ held' = [h \in Holder |-> held[h] \ {c.policy}]
          /\ UNCHANGED <<used, document>>
    /\ UNCHANGED <<members, taken>>

LandAttachment(c) ==
    /\ c.target \in exists
    /\ \/ /\ c.op = "AttachPolicy" /\ c.policy \in exists \ held[c.target]
          /\ held' = [held EXCEPT ![c.target] = @ \cup {c.policy}]
          /\ UNCHANGED members
       \/ /\ c.op = "DetachPolicy" /\ c.policy \in held[c.target]
          /\ held' = [held EXCEPT ![c.target] = @ \ {c.policy}]
          /\ UNCHANGED members
       \/ /\ c.op = "AddUserToGroup" /\ c.member \in exists \ members[c.target]
          /\ members' = [members EXCEPT ![c.target] = @ \cup {c.member}]
          /\ UNCHANGED held
       \/ /\ c.op = "RemoveUserFromGroup" /\ c.member \in members[c.target]
          /\ members' = [members EXCEPT ![c.target] = @ \ {c.member}]
          /\ UNCHANGED held
    /\ UNCHANGED <<exists, used, document, taken>>

\* A deleted group or principal leaves everything it was in.
LandDelete(c) ==
    /\ c.op \in {"DeleteGroup", "DeleteServiceAccount", "DeleteUser"}
    /\ c.target \in exists
    /\ exists' = exists \ {c.target}
    /\ held' = [held EXCEPT ![c.target] = {}]
    /\ members' = [g \in Group |-> IF g = c.target THEN {} ELSE members[g] \ {c.target}]
    /\ UNCHANGED <<used, document, taken>>

\* The password, the secret or the settings of a principal change.
LandTake(c) ==
    /\ c.op \in {"UpdateServiceAccount", "ResetServiceAccountSecret", "ResetUserPassword"}
    /\ c.target \in exists
    /\ taken' = taken \cup {c.target}
    /\ UNCHANGED service

\* Requests with Once leave once; any other may be carried out again, by the
\* transport's retries or, a POST, at the address of a followed redirect.
Once == {"CreatePolicy", "ResetServiceAccountSecret", "ResetUserPassword"}

Land(m) ==
    /\ m \in wire /\ Caller[m.from] \in exists
    /\ LandPolicy(m.call, m.doc) \/ LandAttachment(m.call) \/ LandDelete(m.call) \/ LandTake(m.call)
    /\ \/ wire' = wire \ {m}
       \/ m.call.op \notin Once /\ UNCHANGED wire
    /\ UNCHANGED <<plan, turn, phase, guard, result>>

\* A request that is lost, or that the service refuses.
Drop(m) ==
    /\ m \in wire
    /\ wire' = wire \ {m}
    /\ UNCHANGED <<service, plan, turn, phase, guard, result, taken>>

GuardNext ==
    \/ \E t \in Task : Start(t) \/ GuardStep(t) \/ GuardFails(t) \/ Send(t) \/ Returns(t)
    \/ \E m \in wire : Land(m) \/ Drop(m)

GuardSpec == GuardInit /\ [][GuardNext]_guardVars

-----------------------------------------------------------------------------
\* Properties.

\* Whoever may write to IAM keeps exactly its policies, with what they say, and
\* its password or secret, as long as it exists, and as a service account it
\* goes on to exist: no guarded write, of any caller and however late it is
\* carried out, changes that.  Callers are such principals themselves, so none
\* changes its own rights.
ProtectedUntouched ==
    [][\A x \in Protected :
         /\ x \in ServiceAccount => x \in exists'
         /\ x \in exists' => Rights(x)' = Rights(x) /\ (x \in taken' => x \in taken)]_guardVars

\* What a document grants, whatever the guard thinks of it.
GrantsWrites(doc) == \E s \in doc : s.effect = "allow" /\ s.actions \cap WritePattern # {}
MayWrite(x) == \E p \in PoliciesOf(x) : GrantsWrites(document[p])

\* No guarded writes together give anybody the right to write to IAM.
NobodyEmpowered == [][\A x \in Principal : MayWrite(x)' => MayWrite(x)]_guardVars

\* The principals whose rights or credentials a call is about.
About(c) ==
    CASE c.op \in AttachOps -> IF c.target \in Group THEN members[c.target] ELSE {c.target}
      [] c.op \in MemberOps -> {c.member} \cup members[c.target]
      [] c.op = "UpdatePolicy" -> {x \in Principal : c.policy \in PoliciesOf(x)}
      [] c.op \in AccountOps \cup UserOps -> {c.target}
      [] OTHER -> {}

\* A call about the caller itself is refused as such, and not as a privileged
\* change, whichever of the two its guard finds first: docs/design/iam-writes.md
\* says that ErrSelfChange wins.
SelfWins ==
    [][\A t \in Task :
         phase[t] = "guard" /\ phase'[t] = "idle" /\ result'[t] = "privileged"
         => Caller[t] \notin About(Call(t))]_guardVars
=============================================================================
