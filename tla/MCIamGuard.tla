----------------------------- MODULE MCIamGuard ------------------------------
(* Small instances of IamGuard for TLC: every pair of guarded writes of two   *)
(* callers.                                                                   *)
EXTENDS IamGuard, FiniteSets

CONSTANTS admin, plain, loose, given, fresh,       \* policies
          admins, staff, empty, idp,        \* groups
          owner, boss, clerk,               \* users
          keeper, robot,                    \* service accounts
          iam, vm,                          \* action patterns
          ours, theirs, robots              \* tasks

Doc(effect, actions) == {[effect |-> effect, actions |-> actions]}
Full == Doc("allow", {iam})
Narrow == Doc("allow", {vm})
Odd == Doc("odd", {vm})  \* as a console may have left it
Denying == Doc("deny", {iam})

\* owner is an administrator through a group, boss and keeper directly.
Holds(h) ==
    CASE h = admins -> {admin} [] h \in {boss, keeper} -> {admin}
      [] h \in {staff, robot} -> {plain} [] OTHER -> {}
Members(g) == CASE g = admins -> {owner} [] g = staff -> {clerk} [] g = idp -> {clerk} [] OTHER -> {}

WorldAtFirst ==
    [exists |-> (Policy \ {fresh}) \cup Holder,
     document |-> [p \in Policy |-> IF p = admin THEN Full ELSE IF p = given THEN Odd ELSE Narrow],
     held |-> [h \in Holder |-> Holds(h)],
     members |-> [g \in Group |-> Members(g)]]
\* The same with an administrator in the group of everybody, too.
WorldMixed == [WorldAtFirst EXCEPT !.members[staff] = {clerk, owner}]
TwoWorlds == {WorldAtFirst, WorldMixed}

CallerOf == [t \in Task |-> CASE t = ours -> owner [] t = theirs -> boss [] t = robots -> keeper]

Do(op, p, x, u) == [op |-> op, policy |-> p, target |-> x, member |-> u, doc |-> Narrow, keep |-> FALSE]
Update(p, d) == [Do("UpdatePolicy", p, staff, clerk) EXCEPT !.doc = d]
KeepStatements(p) == [Update(p, Narrow) EXCEPT !.keep = TRUE]

\* What either of the two may do.
Changes ==
    {[Do("CreatePolicy", plain, staff, clerk) EXCEPT !.doc = Full], Do("CreatePolicy", plain, staff, clerk),
     Update(plain, Full), Update(plain, Denying), KeepStatements(loose),
     Do("DeletePolicy", loose, staff, clerk), Do("DeletePolicy", given, staff, clerk),
     Do("AttachPolicy", loose, staff, clerk), Do("AttachPolicy", loose, clerk, clerk),
     Do("AttachPolicy", admin, staff, clerk), Do("AttachPolicy", given, clerk, clerk),
     Do("DetachPolicy", plain, robot, clerk),
     Do("AddUserToGroup", plain, admins, clerk), Do("AddUserToGroup", plain, empty, clerk),
     Do("RemoveUserFromGroup", plain, staff, clerk), Do("DeleteGroup", plain, empty, clerk),
     Do("ResetServiceAccountSecret", plain, robot, clerk), Do("ResetUserPassword", plain, clerk, clerk),
     Do("DeleteUser", plain, clerk, clerk), Do("DeleteUser", plain, owner, clerk),
     Do("DeleteUser", plain, boss, clerk)}

\* What a service account that is an administrator may do.
OfAccount ==
    {Update(plain, Denying), Do("DetachPolicy", plain, robot, clerk),
     Do("DeleteServiceAccount", plain, robot, clerk), Do("AttachPolicy", fresh, clerk, clerk), Do("AddUserToGroup", plain, empty, boss)}

Pair(t, a, b) ==
    [x \in Task |-> IF x = ours THEN <<a>> ELSE IF x = t THEN <<b>> ELSE <<>>]
AllPairs ==
    {Pair(theirs, a, b) : a \in Changes, b \in Changes}
    \cup {Pair(robots, a, b) : a \in Changes, b \in OfAccount}
=============================================================================
