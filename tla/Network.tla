------------------------------ MODULE Network -------------------------------
(***************************************************************************)
(* Writes of package network in one VPC: the routes of a route table, the   *)
(* rules and subnets of a network ACL, creates and deletes of ACLs, route    *)
(* tables and subnets, the delete of the VPC, Private DNS and DHCP options.  *)
(*                                                                         *)
(* Lists are replaced whole, from what the call read, and a delete is sent  *)
(* on the strength of several reads.  Nothing is locked: other calls, other *)
(* programs and requests that outlive their call change things in between.  *)
(* A request with Once is never repeated; the others are, by the transport. *)
(***************************************************************************)
EXTENDS Naturals, FiniteSets

CONSTANTS
    Call,        \* calls of the writes
    Acl, Table,  \* network ACLs and route tables
    Subnet, Dhcp,
    Key, Rest,   \* a rule's direction and priority or a route's prefix; what else it says
    None,
    DefaultKey,  \* keys of rules that isDefaultACLRule holds for
    DefaultAcl,  \* ACLs that are a project's default
    Unlabelled,  \* ACLs the list shows without a NetworkID
    SystemSet,   \* the DHCP options that enabling Private DNS attaches
    Scenes,      \* what some of the calls do, and the VPC they find, to explore
    MaxReads,    \* bound: sleeps of one wait before its deadline
    Attempts     \* those the transport makes, RetryCount + 1

Box == Acl \cup Table
Entry == [key : Key, rest : Rest]

EntryOps == {"add", "remove"}
SubnetOps == {"associate", "disassociate"}
ListOps == EntryOps \cup SubnetOps
DhcpOps == {"setDhcp", "clearDhcp"}
OtherOps == {"create", "delete", "deleteVpc", "deleteDhcp", "enableDns"}

\* on is the ACL, the route table or the subnet, also of a create or a delete.
Plan == [op : ListOps \cup DhcpOps \cup OtherOps, on : Box \cup Subnet \cup {None},
         entry : Entry, subnet : Subnet, dhcp : Dhcp, noWait : BOOLEAN]

VARIABLES
    plan,     \* what each call was asked for, never changes
    box,      \* ACLs and route tables
    subnet,
    vpc,
    used,     \* subnets with a server, an interface or a virtual address
    late,     \* calls with a request on its way that nobody waits for
    foreign,  \* bound: changes at the console to come
    call,     \* the local variables of each call
    acted,    \* history: calls whose request the service carried out
    raced,    \* history: calls with another write to what they read since
    misfit    \* history: calls carried out though what they had checked is not so

service == <<box, subnet, vpc>>
history == <<acted, raced, misfit>>
vars == <<plan, service, used, late, foreign, call, history>>

Shown == {"CREATING", "ACTIVE", "DELETING", "ERROR"}   \* of a subnet its VPC lists
World == [box : [Box -> [status : {"ACTIVE", "BUSY", "DELETING", "ERROR", "GONE"}, hidden : BOOLEAN,
                         entries : SUBSET Entry, held : SUBSET Subnet]],
          subnet : [Subnet -> [status : Shown \cup {"DELETED", "GONE"}, table : Table \cup {None}]],
          vpc : [status : {"ACTIVE", "DELETING", "ERROR", "GONE"}, main : Table \cup {None},
                 dns : {"DISABLED", "ENABLING", "ENABLED"}, dhcp : Dhcp \cup {None},
                 sets : SUBSET Dhcp]]  \* the DHCP options there are

PC == {"read", "readSubnet", "recheck", "uses", "acls", "detail", "subnets", "target",
       "send", "confirm", "settle", "done"}
Early == {"unchanged", "absent", "invalid", "default", "inUse", "busy", "failedRead"}
Result == Early \cup {"none", "refused", "ambiguous", "accepted", "settled", "notSettled", "failed", "error"}
Local == [pc : PC, base : (SUBSET Entry) \cup (SUBSET Subnet), body : (SUBSET Entry) \cup (SUBSET Subnet),
          todo : SUBSET Acl, reads : 0..MaxReads, tries : 0..(Attempts - 1), result : Result]

TypeOK ==
    /\ \E i \in Scenes : plan = i.plan
    /\ [box |-> box, subnet |-> subnet, vpc |-> vpc] \in World
    /\ used \subseteq Subnet
    /\ late \subseteq Call
    /\ foreign \in Nat
    /\ call \in [Call -> Local]
    /\ acted \subseteq Call /\ raced \subseteq Call /\ misfit \subseteq Call

Init ==
    /\ \E i \in Scenes : /\ plan = i.plan /\ foreign = i.foreign
                        /\ box = i.box /\ subnet = i.subnet /\ vpc = i.vpc
    /\ used \in SUBSET Subnet
    /\ late = {}
    /\ call = [c \in Call |->
         [pc |-> IF c \notin DOMAIN plan THEN "done"
                 ELSE IF plan[c].op = "create" THEN "send" ELSE "read",
          base |-> {}, body |-> {}, todo |-> {}, reads |-> 0, tries |-> 0, result |-> "none"]]
    /\ acted = {} /\ raced = {} /\ misfit = {}

-----------------------------------------------------------------------------
Asked(c) == plan[c].op
On(c) == plan[c].on
Here(c) == box[On(c)]
OnAcl(c) == On(c) \in Acl
Deletes(c, kind) == Asked(c) = "delete" /\ On(c) \in kind
Creates(c, kind) == Asked(c) = "create" /\ On(c) \in kind
Listed == {s \in Subnet : subnet[s].status \in Shown}
Holds(a, s) == box[a].status # "GONE" /\ s \in box[a].held

\* The list a call replaces.
ListOf(c) == IF Asked(c) \in EntryOps THEN Here(c).entries ELSE Here(c).held

\* Mutated Once: the transport may repeat a write of an ACL.
OnlyDnsOnce(c) == Asked(c) \in {"create", "enableDns"}

\* transport.Request.Once, and the POST of a create.
Once(c) == OnAcl(c) \/ Asked(c) \in {"create", "enableDns"}

At(c, where) == call[c].pc = where
Reading(c, ops) == At(c, "read") /\ Asked(c) \in ops
Goto(c, where) == call' = [call EXCEPT ![c] = [@ EXCEPT !.pc = where, !.reads = 0]]

Return(c, r) == call' = [call EXCEPT ![c] = [@ EXCEPT !.pc = "done", !.result = r, !.todo = {},
                                                      !.reads = 0, !.tries = 0]]

Quiet == UNCHANGED <<plan, service, used, late, foreign, history>>

\* The read a call's decision rests on: earlier writes do not race with it.
Afresh(c) ==
    /\ raced' = raced \ {c}
    /\ UNCHANGED <<plan, service, used, late, foreign, acted, misfit>>

\* A step of poll that was not the last: it sleeps, or the bound has passed.
Poll(c, bound) ==
    IF call[c].reads < MaxReads THEN call' = [call EXCEPT ![c].reads = @ + 1] ELSE Return(c, bound)

\* A read or a sleep fails, or ctx ends.
Break(c) ==
    /\ call[c].pc \notin {"send", "done"}
    /\ Return(c, CASE At(c, "settle") -> "notSettled" [] At(c, "confirm") -> "error" [] OTHER -> "failedRead")
    /\ Quiet

-----------------------------------------------------------------------------
\* The list to send is made of the one read: the route or the rule, and the subnet.
Merge(c, list, where) ==
    call' = [call EXCEPT ![c] = [@ EXCEPT !.pc = where, !.reads = 0, !.base = ListOf(c), !.body = list]]

Same(c) == {e \in Here(c).entries : e.key = plan[c].entry.key}

\* AddRoute and AddNetworkACLRule: the first entry of the key decides.
AddEntry(c) ==
    IF Same(c) = {} THEN Merge(c, ListOf(c) \cup {plan[c].entry}, "recheck")
    ELSE \E e \in Same(c) : Return(c, IF e = plan[c].entry THEN "unchanged" ELSE "invalid")

RemoveRoute(c) ==
    CASE Same(c) = {} -> Return(c, "absent")
      [] Cardinality(Same(c)) > 1 -> Return(c, "invalid")
      [] OTHER -> Merge(c, ListOf(c) \ Same(c), "recheck")

\* An ACL has one rule of a key.
RemoveNetworkACLRule(c) ==
    CASE Same(c) = {} -> Return(c, "absent")
      [] plan[c].entry.key \in DefaultKey -> Return(c, "default")
      [] OTHER -> Merge(c, ListOf(c) \ Same(c), "recheck")

AssociateNetworkACLSubnet(c) ==
    IF plan[c].subnet \in Here(c).held THEN Return(c, "unchanged")
    ELSE Merge(c, ListOf(c) \cup {plan[c].subnet}, "readSubnet")

DisassociateNetworkACLSubnet(c) ==
    IF plan[c].subnet \notin Here(c).held THEN Return(c, "unchanged")
    ELSE Merge(c, ListOf(c) \ {plan[c].subnet}, "recheck")

Decide(c) ==
    CASE Asked(c) = "add" -> AddEntry(c)
      [] Asked(c) = "remove" -> IF OnAcl(c) THEN RemoveNetworkACLRule(c) ELSE RemoveRoute(c)
      [] Asked(c) = "associate" -> AssociateNetworkACLSubnet(c)
      [] OTHER -> DisassociateNetworkACLSubnet(c)

WaitPreWriteActive(c) ==
    /\ Reading(c, ListOps)
    /\ CASE Here(c).status = "GONE" -> Return(c, "absent")
         [] Here(c).status = "ACTIVE" -> Decide(c)
         [] OTHER -> Poll(c, "busy")
    /\ Afresh(c)

\* Only a 404 ends it: a deleted subnet is still read for minutes.
ReadSubnet(c) ==
    /\ At(c, "readSubnet")
    /\ IF subnet[plan[c].subnet].status = "GONE" THEN Return(c, "absent") ELSE Goto(c, "recheck")
    /\ Quiet

\* Mutated Recheck: it does not compare.
NoRecheck(c) ==
    /\ At(c, "recheck")
    /\ IF Here(c).status = "GONE" THEN Return(c, "absent") ELSE Goto(c, "send")
    /\ Afresh(c)

\* The second read, immediately before the request.
Recheck(c) ==
    /\ At(c, "recheck")
    /\ CASE Here(c).status = "GONE" -> Return(c, "absent")
         [] ListOf(c) # call[c].base -> Return(c, "busy")
         [] OTHER -> Goto(c, "send")
    /\ Afresh(c)

-----------------------------------------------------------------------------
DeleteACL(c) ==
    /\ At(c, "read") /\ Deletes(c, Acl)
    /\ CASE Here(c).status = "GONE" -> Return(c, "absent")
         [] On(c) \in DefaultAcl -> Return(c, "default")
         [] Here(c).held # {} -> Return(c, "inUse")
         [] OTHER -> Goto(c, "send")
    /\ Afresh(c)

DeleteRouteTable(c) ==
    /\ At(c, "read") /\ Deletes(c, Table)
    /\ IF Here(c).status = "GONE" THEN Return(c, "absent") ELSE Goto(c, "subnets")
    /\ Afresh(c)

\* GetVPC and ListSubnetsByVPC in one step: in between, only a delete of this
\* very table changes which one is the VPC's main table.
Named(t) == \E s \in Listed : subnet[s].table = t
ReliesOnMain(t) == vpc.main = t /\ Named(None)

ReadSubnets(c) ==
    /\ At(c, "subnets") /\ Deletes(c, Table)
    /\ CASE vpc.status = "GONE" -> Return(c, "absent")
         [] Named(On(c)) -> Return(c, "inUse")
         [] ReliesOnMain(On(c)) -> Return(c, "default")
         [] OTHER -> Goto(c, "send")
    /\ Quiet

DeleteSubnet(c) ==
    /\ At(c, "read") /\ Deletes(c, Subnet)
    /\ IF subnet[On(c)].status \in {"DELETED", "GONE"} THEN Return(c, "absent") ELSE Goto(c, "uses")
    /\ Afresh(c)

CheckSubnetNotInUse(c) ==
    /\ At(c, "uses")
    /\ IF On(c) \in used THEN Return(c, "inUse") ELSE Goto(c, "acls")
    /\ Quiet

Ask(c, acls) ==
    call' = [call EXCEPT ![c] = [@ EXCEPT !.pc = IF acls = {} THEN "send" ELSE "detail", !.todo = acls]]

\* Mutated ListNetworkACLsInVPC: an ACL without a NetworkID is not of the VPC.
ListLabelledACLs(c) ==
    At(c, "acls") /\ Ask(c, {a \in Acl \ Unlabelled : box[a].status # "GONE"}) /\ Quiet

ListNetworkACLsInVPC(c) ==
    At(c, "acls") /\ Ask(c, {a \in Acl : box[a].status # "GONE"}) /\ Quiet

\* One ACL after the other, a deleted one is skipped.
CheckSubnetNotHeld(c) ==
    /\ At(c, "detail")
    /\ \E a \in call[c].todo :
         IF Holds(a, On(c)) THEN Return(c, "inUse") ELSE Ask(c, call[c].todo \ {a})
    /\ Quiet

\* ServerCount and VolumeCount: a subnet that is gone is not of this VPC.
InVPC == {s \in used : subnet[s].status # "GONE"}

DeleteVPC(c) ==
    /\ Reading(c, {"deleteVpc"})
    /\ CASE vpc.status = "GONE" -> Return(c, "absent")
         [] InVPC # {} -> Return(c, "inUse")
         [] OTHER -> Goto(c, "subnets")
    /\ Afresh(c)

CheckNoSubnets(c) ==
    /\ At(c, "subnets") /\ Asked(c) = "deleteVpc"
    /\ IF Listed # {} THEN Return(c, "inUse") ELSE Goto(c, "send")
    /\ Quiet

DeleteDHCPOptions(c) ==
    /\ Reading(c, {"deleteDhcp"})
    /\ CASE plan[c].dhcp \notin vpc.sets -> Return(c, "absent")
         [] vpc.dhcp = plan[c].dhcp -> Return(c, "inUse")
         [] OTHER -> Goto(c, "send")
    /\ Afresh(c)

-----------------------------------------------------------------------------
EnableVPCPrivateDNS(c) ==
    /\ Reading(c, {"enableDns"})
    /\ CASE vpc.status = "GONE" -> Return(c, "absent")
         [] vpc.dns = "ENABLED" -> Return(c, "unchanged")
         [] vpc.dns = "DISABLED" -> Goto(c, "send")
         [] plan[c].noWait -> Return(c, "accepted")
         [] OTHER -> Goto(c, "settle")
    /\ Afresh(c)

DhcpAsked(c) == IF Asked(c) = "setDhcp" THEN plan[c].dhcp ELSE None
PrivateDNS == vpc.dns # "DISABLED" \/ vpc.dhcp = SystemSet

SetVPCDHCPOptions(c) ==
    /\ Reading(c, DhcpOps)
    /\ CASE vpc.status = "GONE" -> Return(c, "absent")
         [] vpc.dhcp = DhcpAsked(c) -> Return(c, "unchanged")
         [] PrivateDNS -> Return(c, "default")
         [] OTHER -> Goto(c, IF Asked(c) = "setDhcp" THEN "target" ELSE "send")
    /\ Afresh(c)

\* The set may not be ACTIVE yet.
ReadTarget(c) ==
    /\ At(c, "target")
    /\ CASE plan[c].dhcp \notin vpc.sets -> Return(c, "absent")
         [] plan[c].dhcp = SystemSet -> Return(c, "default")
         [] OTHER -> Goto(c, "send") \/ Return(c, "busy")
    /\ Quiet

-----------------------------------------------------------------------------
\* What the service takes, as the comments in the code tell it: an ACL is busy
\* for a while after a write, without showing it after one of its subnets, and
\* for ever when it holds a subnet that was deleted.  A VPC stays while one of
\* its subnets has not quite gone.
Acceptable(c) ==
    vpc.status # "GONE" /\
    CASE Asked(c) \in ListOps -> Here(c).status = "ACTIVE" /\ ~Here(c).hidden /\ Here(c).held \subseteq Listed
                                 /\ (Asked(c) \in SubnetOps => call[c].body \subseteq Listed)
      [] Deletes(c, Acl) -> Here(c).status \in {"ACTIVE", "ERROR"} /\ ~Here(c).hidden
      [] Deletes(c, Table) -> Here(c).status \in {"ACTIVE", "ERROR"}
      [] Deletes(c, Subnet) -> subnet[On(c)].status \in {"ACTIVE", "ERROR"}
      [] Creates(c, Box) -> Here(c).status = "GONE" /\ vpc.status = "ACTIVE"
      [] Creates(c, Subnet) -> subnet[On(c)].status = "GONE" /\ vpc.status = "ACTIVE"
      [] Asked(c) = "deleteVpc" -> vpc.status # "DELETING" /\ \A s \in Subnet : subnet[s].status = "GONE"
      [] Asked(c) = "enableDns" -> vpc.dns = "DISABLED"
      [] Asked(c) = "clearDhcp" -> TRUE
      [] OTHER -> plan[c].dhcp \in vpc.sets

\* A subnet has one ACL.
Apply(c) ==
    CASE Asked(c) \in EntryOps ->
           /\ box' = [box EXCEPT ![On(c)] = [@ EXCEPT !.entries = call[c].body, !.status = "BUSY"]]
           /\ UNCHANGED <<subnet, vpc>>
      [] Asked(c) \in SubnetOps ->
           /\ box' = [b \in Box |-> IF b = On(c) THEN [box[b] EXCEPT !.held = call[c].body, !.hidden = TRUE]
                                    ELSE [box[b] EXCEPT !.held = @ \ call[c].body]]
           /\ UNCHANGED <<subnet, vpc>>
      [] Deletes(c, Box) ->
           /\ box' = [box EXCEPT ![On(c)].status = IF OnAcl(c) THEN "GONE" ELSE "DELETING"]
           /\ UNCHANGED <<subnet, vpc>>
      [] Creates(c, Box) ->
           /\ box' = [box EXCEPT ![On(c)] = [@ EXCEPT !.status = IF OnAcl(c) THEN "ACTIVE" ELSE "BUSY", !.held = {}]]
           /\ UNCHANGED <<subnet, vpc>>
      [] Creates(c, Subnet) ->
           subnet' = [subnet EXCEPT ![On(c)].status = "CREATING"] /\ UNCHANGED <<box, vpc>>
      [] Deletes(c, Subnet) ->
           subnet' = [subnet EXCEPT ![On(c)].status = "DELETING"] /\ UNCHANGED <<box, vpc>>
      [] Asked(c) = "enableDns" ->
           vpc' = [vpc EXCEPT !.dns = "ENABLING", !.dhcp = SystemSet] /\ UNCHANGED <<box, subnet>>
      [] Asked(c) = "deleteVpc" -> vpc' = [vpc EXCEPT !.status = "DELETING"] /\ UNCHANGED <<box, subnet>>
      [] Asked(c) = "deleteDhcp" ->
           vpc' = [vpc EXCEPT !.sets = @ \ {plan[c].dhcp}] /\ UNCHANGED <<box, subnet>>
      [] OTHER -> vpc' = [vpc EXCEPT !.dhcp = DhcpAsked(c)] /\ UNCHANGED <<box, subnet>>

\* What each call checks ahead of its request.  A repeated one may find its own.
Fits(c) ==
    CASE Asked(c) \in ListOps -> ListOf(c) \in {call[c].base, call[c].body}
      [] Deletes(c, Acl) -> Here(c).held = {} /\ On(c) \notin DefaultAcl
      [] Deletes(c, Table) -> ~Named(On(c)) /\ ~ReliesOnMain(On(c))
      [] Deletes(c, Subnet) -> On(c) \notin used /\ \A a \in Acl : ~Holds(a, On(c))
      [] Asked(c) \in {"create", "enableDns"} -> TRUE
      [] Asked(c) = "deleteVpc" -> InVPC = {} /\ Listed = {}
      [] Asked(c) = "deleteDhcp" -> vpc.dhcp # plan[c].dhcp
      [] OTHER -> ~PrivateDNS

\* What a call's decision rests on.
View(c) ==
    CASE Asked(c) \in ListOps -> ListOf(c)
      [] Deletes(c, Acl) -> Here(c).held
      [] Deletes(c, Table) -> <<Named(On(c)), ReliesOnMain(On(c))>>
      [] Deletes(c, Subnet) -> <<On(c) \in used, {a \in Acl : Holds(a, On(c))}>>
      [] Asked(c) \in {"create", "enableDns"} -> {}
      [] Asked(c) = "deleteVpc" -> <<InVPC, Listed>>
      [] Asked(c) = "deleteDhcp" -> vpc.dhcp
      [] OTHER -> PrivateDNS

Races(others) == raced' = raced \cup {c \in others : View(c)' # View(c)}

Act(c) ==
    /\ Acceptable(c)
    /\ Apply(c)
    /\ acted' = acted \cup {c}
    /\ misfit' = IF Fits(c) \/ c \in raced THEN misfit ELSE misfit \cup {c}
    /\ UNCHANGED <<plan, used, foreign>>
    /\ Races(DOMAIN plan \ {c})

\* The response to a create may name no id.
CreateNetworkACL(c) == Return(c, "settled") \/ Return(c, "ambiguous")

Succeed(c) ==
    CASE Creates(c, Acl) -> CreateNetworkACL(c)
      [] Deletes(c, Acl) \/ Asked(c) = "deleteDhcp" -> Return(c, "settled")
      [] plan[c].noWait -> Return(c, "accepted")
      [] OTHER -> Goto(c, "settle") \/ (Asked(c) = "create" /\ Return(c, "ambiguous"))

\* No answer, or a 5xx: the transport sends it again, or the call ends.
Fail(c) ==
    \/ /\ ~Once(c) /\ call[c].tries + 1 < Attempts
       /\ call' = [call EXCEPT ![c].tries = @ + 1]
    \/ CASE Deletes(c, Subnet) -> Goto(c, "confirm")
         [] Deletes(c, Acl) -> Goto(c, "confirm") \/ Return(c, "error")
         [] Asked(c) = "create" -> Return(c, "ambiguous")
         [] Once(c) -> Return(c, "notSettled")
         [] OTHER -> Return(c, "error")

Accepted(c) ==
    /\ At(c, "send")
    /\ Succeed(c) \/ Fail(c)
    /\ Act(c) /\ UNCHANGED late

\* A 4xx; the one that names the ACL busy and, as any other, the one that says
\* the VPC contains a subnet.
Refused(c) ==
    /\ At(c, "send")
    /\ \E r \in {"refused"} \cup (IF OnAcl(c) /\ Asked(c) # "create" THEN {"busy"} ELSE {}) : Return(c, r)
    /\ Quiet

NotTaken(c) == At(c, "send") /\ Fail(c) /\ Quiet

\* The request is still on its way when the call gives up on it.
Outlives(c) ==
    /\ At(c, "send") /\ Fail(c)
    /\ late' = late \cup {c}
    /\ UNCHANGED <<plan, service, used, foreign, history>>

\* After a delete failed: whether it is still listed.
ConfirmSubnetDelete(c) ==
    /\ At(c, "confirm") /\ Deletes(c, Subnet)
    /\ Return(c, IF On(c) \in Listed THEN "error" ELSE "settled")
    /\ Quiet

WaitACLAbsentAfterDelete(c) ==
    /\ At(c, "confirm") /\ Deletes(c, Acl)
    /\ IF Here(c).status = "GONE" THEN Return(c, "settled") ELSE Poll(c, "error")
    /\ Quiet

\* One read of each wait.
RouteTableActive(t) ==
    CASE box[t].status = "ACTIVE" -> "settled" [] box[t].status = "ERROR" -> "failed" [] OTHER -> "none"
RouteTableDeleted(t) ==
    CASE box[t].status = "GONE" -> "settled" [] box[t].status = "ERROR" -> "failed" [] OTHER -> "none"
SubnetActive(s) ==
    CASE subnet[s].status = "ACTIVE" -> "settled" [] subnet[s].status = "ERROR" -> "failed" [] OTHER -> "none"
SubnetDeleted(s) ==
    CASE s \notin Listed -> "settled" [] subnet[s].status = "ERROR" -> "failed" [] OTHER -> "none"
VPCDeleted == CASE vpc.status = "GONE" -> "settled" [] vpc.status = "ERROR" -> "failed" [] OTHER -> "none"

\* Of a route table as of an ACL: the status, then the list read with it.
ListSettled(c) ==
    CASE Here(c).status = "ACTIVE" -> IF ListOf(c) = call[c].body THEN "settled" ELSE "notSettled"
      [] Here(c).status = "ERROR" -> "failed"
      [] OTHER -> "none"

\* A read that fails ends these two.
VPCPrivateDNSEnabled ==
    CASE vpc.status = "GONE" -> "notSettled" [] vpc.dns = "ENABLED" -> "settled"
      [] vpc.dns = "DISABLED" -> "failed" [] OTHER -> "none"
VPCDHCPOptionsSet(c) ==
    CASE vpc.status = "GONE" -> "notSettled" [] vpc.status = "ERROR" -> "failed"
      [] vpc.dhcp = DhcpAsked(c) -> "settled" [] OTHER -> "none"

Progress(c) ==
    CASE Asked(c) \in ListOps -> ListSettled(c)
      [] Creates(c, Table) -> RouteTableActive(On(c))
      [] Deletes(c, Table) -> RouteTableDeleted(On(c))
      [] Creates(c, Subnet) -> SubnetActive(On(c))
      [] Deletes(c, Subnet) -> SubnetDeleted(On(c))
      [] Asked(c) = "deleteVpc" -> VPCDeleted
      [] Asked(c) = "enableDns" -> VPCPrivateDNSEnabled
      [] OTHER -> VPCDHCPOptionsSet(c)

Settle(c) ==
    /\ At(c, "settle")
    /\ IF Progress(c) = "none" THEN Poll(c, "notSettled") ELSE Return(c, Progress(c))
    /\ Quiet

-----------------------------------------------------------------------------
\* A late request arrives after all.
Arrive(c) ==
    /\ c \in late
    /\ late' = late \ {c}
    /\ \/ Act(c)
       \/ ~Acceptable(c) /\ UNCHANGED <<plan, service, used, foreign, history>>
    /\ UNCHANGED call

Meanwhile == UNCHANGED <<plan, used, late, call, acted, misfit>>

EndBoxWork(b) ==
    /\ \/ /\ box[b].hidden
          /\ box' = [box EXCEPT ![b].hidden = FALSE]
          /\ UNCHANGED vpc
       \/ /\ box[b].status = "BUSY"
          /\ \E end \in {"ACTIVE", "ERROR"} : box' = [box EXCEPT ![b].status = end]
          /\ UNCHANGED vpc
       \/ /\ box[b].status = "DELETING"
          /\ \/ /\ box' = [box EXCEPT ![b].status = "GONE"]
                /\ vpc' = IF vpc.main = b THEN [vpc EXCEPT !.main = None] ELSE vpc
             \/ box' = [box EXCEPT ![b].status = "ERROR"] /\ UNCHANGED vpc
    /\ UNCHANGED <<subnet, foreign>> /\ Meanwhile /\ Races(DOMAIN plan)

EndSubnetWork(s) ==
    /\ \/ /\ subnet[s].status = "CREATING"
          /\ \E end \in {"ACTIVE", "ERROR"} : subnet' = [subnet EXCEPT ![s].status = end]
       \/ /\ subnet[s].status = "DELETING"
          /\ \E end \in {"DELETED", "ERROR"} : subnet' = [subnet EXCEPT ![s].status = end]
       \/ subnet[s].status = "DELETED" /\ subnet' = [subnet EXCEPT ![s].status = "GONE"]
    /\ UNCHANGED <<box, vpc, foreign>> /\ Meanwhile /\ Races(DOMAIN plan)

\* ACLs and route tables go with their VPC.
EndVPCWork ==
    /\ \/ /\ vpc.dns = "ENABLING"
          /\ vpc' = [vpc EXCEPT !.dns = "ENABLED"]
          /\ UNCHANGED box
       \/ /\ vpc.status = "DELETING"
          /\ \/ /\ vpc' = [vpc EXCEPT !.status = "GONE"]
                /\ box' = [b \in Box |-> [box[b] EXCEPT !.status = "GONE"]]
             \/ vpc' = [vpc EXCEPT !.status = "ERROR"] /\ UNCHANGED box
    /\ UNCHANGED <<subnet, foreign>> /\ Meanwhile /\ Races(DOMAIN plan)

\* Somebody gives a subnet another route table at the console.
Reroute(s, t) ==
    /\ foreign > 0 /\ s \in Listed
    /\ foreign' = foreign - 1
    /\ subnet' = [subnet EXCEPT ![s].table = t]
    /\ UNCHANGED <<box, vpc>> /\ Meanwhile /\ Races(DOMAIN plan)

\* What a step of other packages does to the calls: it may change used.
Elsewhere ==
    /\ UNCHANGED <<plan, service, late, foreign, call, acted, misfit>>
    /\ Races(DOMAIN plan)

Step(c) ==
    \/ WaitPreWriteActive(c) \/ ReadSubnet(c) \/ Recheck(c)
    \/ DeleteACL(c) \/ DeleteRouteTable(c) \/ ReadSubnets(c)
    \/ DeleteSubnet(c) \/ CheckSubnetNotInUse(c) \/ ListNetworkACLsInVPC(c) \/ CheckSubnetNotHeld(c)
    \/ DeleteVPC(c) \/ CheckNoSubnets(c) \/ DeleteDHCPOptions(c)
    \/ EnableVPCPrivateDNS(c) \/ SetVPCDHCPOptions(c) \/ ReadTarget(c)
    \/ Accepted(c) \/ Refused(c) \/ NotTaken(c) \/ Outlives(c)
    \/ ConfirmSubnetDelete(c) \/ WaitACLAbsentAfterDelete(c) \/ Settle(c)

Next ==
    \/ \E c \in Call : Step(c) \/ Break(c) \/ Arrive(c)
    \/ \E b \in Box : EndBoxWork(b)
    \/ \E s \in Subnet : EndSubnetWork(s) \/ \E t \in Table : Reroute(s, t)
    \/ EndVPCWork

-----------------------------------------------------------------------------
(* Properties. *)

\* The service never carries out a write in a state the call's own checks rule
\* out (a list that is not the one the merge started from; an ACL with subnets;
\* a route table a subnet depends on; a subnet in use or held by an ACL; the
\* DHCP options of Private DNS), unless another write came in after the last
\* read the decision rests on: the re-read right before a PUT, the first read
\* of the others.
ActsOnWhatItRead == misfit = {}

\* An error from before the request, ErrBusy with the 400 that names the ACL
\* busy among them, and a 4xx to a request sent once, mean that the call changed
\* nothing and nothing of it is on its way: it is safe to call again.
RefusalMeansUntouched ==
    \A c \in DOMAIN plan :
        call[c].result \in Early \/ (call[c].result = "refused" /\ (OnAcl(c) \/ Asked(c) \in {"create", "enableDns"}))
            => c \notin acted \cup late

\* DeleteSubnet leaves no ACL holding the subnet it deleted, stuck for ever,
\* unless the subnet came to an ACL after its checks began.
NoAclStuck ==
    \A a \in Acl, s \in Subnet : Holds(a, s) /\ subnet[s].status \in {"DELETED", "GONE"}
        => \E c \in raced : Deletes(c, {s})
=============================================================================
