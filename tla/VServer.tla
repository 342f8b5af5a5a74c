------------------------------ MODULE VServer ------------------------------
(* Packages compute, volume, network and dns on one project.  They share     *)
(* servers, subnets and the VPC: a server is in one subnet from the moment   *)
(* its create begins at the service, and the delete of that subnet asks for  *)
(* it before; a hosted zone needs the Private DNS of the VPCs it is for.     *)
EXTENDS Cloud

CONSTANTS
    SubnetOf,    \* of each server
    Together,    \* plans of Cloud, Network and Dns to explore together
    Acl, Table, Subnet, Dhcp, Key, Rest, None, DefaultKey, DefaultAcl,
    Unlabelled, SystemSet, Scenes,
    Client, ClientOf, Zone, Record, ZoneOf, Vpc, Text, ZoneScenes,
    ThisVpc      \* the one Network is about

VARIABLES
    netPlan, box, subnet, vpc, late, foreign, netCall, acted, netRaced, netMisfit,
    zonePlan, zone, record, holder, zoneLate, zoneCall, zoneActed, zoneRaced, zoneMisfit

netVars == <<netPlan, box, subnet, vpc, late, foreign, netCall, acted, netRaced, netMisfit>>
zoneVars == <<zonePlan, zone, record, holder, zoneLate, zoneCall, zoneActed, zoneRaced, zoneMisfit>>

Occupied == {SubnetOf[x] : x \in {srv \in Server : StatusOf(srv) \notin {"GONE", "DELETED"}}}

Net == INSTANCE Network WITH plan <- netPlan, call <- netCall, raced <- netRaced,
                             misfit <- netMisfit, used <- Occupied

PrivateDNSOf == [v \in Vpc |-> IF v # ThisVpc THEN "ENABLED"
                              ELSE IF vpc.status = "GONE" THEN "DISABLED" ELSE vpc.dns]

Zones == INSTANCE Dns WITH plan <- zonePlan, vpcDns <- PrivateDNSOf, late <- zoneLate, call <- zoneCall,
                           acted <- zoneActed, raced <- zoneRaced, misfit <- zoneMisfit,
                           Scenes <- ZoneScenes

allVars == <<vars, netVars, zoneVars>>

ASSUME VServerAssumption ==
    /\ SubnetOf \in [Server -> Subnet]
    /\ Acl \cap Table = {} /\ (Acl \cup Table) \cap Subnet = {}
    /\ None \notin Acl \cup Table \cup Subnet \cup Dhcp
    /\ DefaultKey \subseteq Key /\ DefaultAcl \subseteq Acl /\ Unlabelled \subseteq Acl
    /\ SystemSet \in Dhcp
    /\ \A i \in Scenes :
         /\ [box |-> i.box, subnet |-> i.subnet, vpc |-> i.vpc] \in Net!World
         /\ \A a \in Acl, s \in Subnet :
              i.box[a].status # "GONE" /\ s \in i.box[a].held => i.subnet[s].status \notin {"DELETED", "GONE"}
         /\ \A s \in Subnet : i.subnet[s].status # "DELETING"
         /\ i.foreign \in Nat
         /\ DOMAIN i.plan \subseteq Call /\ \A c \in DOMAIN i.plan :
              /\ i.plan[c] \in Net!Plan
              /\ i.plan[c].op \in Net!EntryOps => i.plan[c].on \in Net!Box
              /\ i.plan[c].op \in Net!SubnetOps => i.plan[c].on \in Acl
              /\ i.plan[c].op \in {"create", "delete"} => i.plan[c].on \in Net!Box \cup Subnet
    /\ ThisVpc \in Vpc /\ None \notin Call \cup Text
    /\ ClientOf \in [Call -> Client] /\ ZoneOf \in [Record -> Zone]
    /\ \A i \in ZoneScenes :
         /\ [zone |-> i.zone, record |-> i.record] \in Zones!World
         /\ \A z \in Zone : /\ i.zone[z].status \in {"ACTIVE", "ERROR", "GONE"}
                            /\ i.zone[z].by = None /\ ~i.zone[z].hidden
         /\ DOMAIN i.plan \subseteq Call /\ \A c \in DOMAIN i.plan :
              /\ i.plan[c] \in Zones!Plan
              /\ i.plan[c].op \in Zones!RecordOps => ZoneOf[i.plan[c].record] = i.plan[c].zone
              /\ i.plan[c].op = "createZone" => i.plan[c].text \in Text /\ i.plan[c].vpcs \in SUBSET Vpc

Unasked(p) == DOMAIN p = {}

VInit ==
    /\ Init /\ Net!Init /\ Zones!Init
    /\ \/ <<plan, netPlan, zonePlan>> \in Together
       \/ Unasked(plan) /\ Unasked(netPlan)
       \/ Unasked(plan) /\ Unasked(zonePlan)
       \/ Unasked(netPlan) /\ Unasked(zonePlan)

VNext ==
    \/ Next /\ Net!Elsewhere /\ UNCHANGED zoneVars
    \/ UNCHANGED <<vars, zoneVars>> /\ Net!Next
    \/ UNCHANGED <<vars, netVars>> /\ Zones!Next

VSpec == VInit /\ [][VNext]_allVars

-----------------------------------------------------------------------------
(* The properties of Network and Dns, with the servers that Cloud creates and  *)
(* deletes and the Private DNS that Network enables.                           *)

NetTypeOK == Net!TypeOK /\ Zones!TypeOK

\* The writes of packages network and dns act on what they read, unless another
\* write came in between: the create of a server in the subnet among them, and
\* for a hosted zone none but those of another Client and late requests.
NetActsOnWhatItRead == Net!ActsOnWhatItRead /\ Zones!ActsOnWhatItRead

\* ErrBusy, ErrZoneBusy, the other errors from before the request and a 4xx to a
\* request sent once mean that the call changed nothing and never will; success
\* of a write to a zone, that the zone is not locked for it any more.
OutcomesTrue ==
    Net!RefusalMeansUntouched /\ Zones!RefusalMeansUntouched /\ Zones!SettledMeansLanded

\* DeleteSubnet leaves no network ACL stuck with the subnet it deleted.
NoAclStuck == Net!NoAclStuck
=============================================================================
