------------------------------ MODULE MCCloud ------------------------------
(* Small instances of VServer for TLC. *)
EXTENDS VServer, TLC

CONSTANTS c1, c2, c3, s, t, n, m, boot, root, data, spare, disk,
    p, q, d, r, u, w, a, b, e, own, other, system, k, deny, x, y,
    desk, shop, intra, www, mine, theirs, old, new

\* s and t have boot volumes, s a data volume too, spare is free; the servers n
\* and m, named as t, and the volume disk, named as spare, are to be created.
Is(status, on, val) == [status |-> status, on |-> on, val |-> val]
Running == s :> Is("ACTIVE", Nobody, 1) @@ t :> Is("STOPPED", Nobody, 1)
    @@ n :> Is("GONE", Nobody, 1) @@ m :> Is("GONE", Nobody, 1)
    @@ root :> Is("IN-USE", t, 1) @@ boot :> Is("IN-USE", s, 1)
    @@ data :> Is("IN-USE", s, 1) @@ spare :> Is("AVAILABLE", Nobody, 1)
    @@ disk :> Is("GONE", Nobody, 1)

Boots == s :> boot @@ t :> root @@ n :> disk @@ m :> disk
Names == s :> 1 @@ t :> 2 @@ n :> 2 @@ m :> 2 @@ boot :> 1 @@ root :> 4 @@ data :> 3 @@ spare :> 2 @@ disk :> 2
AsListed == <<s, t, n, m, boot, data, root, spare, disk>>

Do(op, i, srv, val, flag, nw) ==
    [op |-> op, on |-> i, server |-> srv, val |-> val, flag |-> flag, noWait |-> nw]
Power(op, i) == Do(op, i, Nobody, 1, FALSE, FALSE)
Grow(op, i, val) == Do(op, i, Nobody, val, FALSE, FALSE)
Join(op, v, srv, flag) == Do(op, v, srv, 1, flag, FALSE)
New(op, i) == Do(op, i, Nobody, 1, FALSE, FALSE)
Drop(op, i, flag, nw) == Do(op, i, Nobody, 1, flag, nw)

Two(f, g) == c1 :> f @@ c2 :> g
All(f, g, h) == c1 :> f @@ c2 :> g @@ c3 :> h
NoPlan == [c \in {} |-> 0]

AllPlans == {NoPlan,
    Two(Power("stop", s), Power("start", s)),
    Two(Power("stop", s), Join("detach", data, s, FALSE)),
    Two(Power("reboot", s), Join("detach", boot, s, TRUE)),
    Two(Power("reboot", s), Grow("resizeServer", s, 2)),
    Two(Power("start", t), Join("attach", spare, t, FALSE)),
    Two(Grow("resizeVolume", spare, 2), Grow("resizeVolume", spare, 3)),
    Two(Drop("deleteServer", s, FALSE, FALSE), Drop("deleteVolume", data, FALSE, FALSE)),
    Two(Drop("deleteServer", s, TRUE, FALSE), Join("attach", spare, s, FALSE)),
    Two(Drop("deleteServer", s, FALSE, TRUE), Join("detach", data, s, TRUE)),
    Two(Drop("deleteServer", s, TRUE, TRUE), Join("detach", data, s, TRUE)),
    Two(Drop("deleteServer", s, FALSE, TRUE), Power("stop", s)),
    Two(Drop("deleteServer", s, FALSE, TRUE), Power("reboot", s)),
    Two(Drop("deleteServer", s, FALSE, FALSE), Grow("resizeServer", s, 2)),
    Two(Drop("deleteServer", s, FALSE, TRUE), Drop("deleteServer", s, TRUE, FALSE)),
    Two(Drop("deleteVolume", spare, FALSE, FALSE), Join("attach", spare, t, FALSE)),
    Two(Drop("deleteVolume", spare, FALSE, TRUE), Grow("resizeVolume", spare, 2)),
    Two(Join("attach", spare, t, FALSE), Join("attach", spare, t, FALSE)),
    Two(New("createServer", n), Drop("deleteServer", s, TRUE, TRUE)),
    All(Drop("deleteServer", t, TRUE, FALSE), New("createServer", n), New("createServer", m)),
    All(Power("stop", s), Join("detach", data, s, FALSE), Power("start", s)),
    c1 :> New("createServer", n), c1 :> Drop("deleteServer", s, FALSE, FALSE),
    Two(New("createVolume", disk), Drop("deleteServer", s, TRUE, TRUE)),
    Two(New("createVolume", disk), Drop("deleteVolume", spare, FALSE, TRUE))}

-----------------------------------------------------------------------------
\* The ACL p holds the subnet b and is listed without its VPC, q is free, d
\* the default one; of the route tables r is the main one, u is the one of a and
\* w is to be created, as is the subnet e.  s and t are in a, n and m in b.
Subnets == s :> a @@ t :> a @@ n :> b @@ m :> b
Rule(key, val) == [key |-> key, rest |-> val]
List(entries, held) == [status |-> "ACTIVE", hidden |-> FALSE, entries |-> entries, held |-> held]
There(status) == [status |-> status, table |-> None]
Boxes == w :> [List({}, {}) EXCEPT !.status = "GONE"]
    @@ p :> List({Rule(deny, x)}, {b})
    @@ q :> List({Rule(k, x)}, {}) @@ d :> List({}, {})
    @@ r :> List({}, {}) @@ u :> List({Rule(k, x), Rule(deny, x), Rule(deny, y)}, {})
Nets == a :> [status |-> "ACTIVE", table |-> u] @@ b :> There("ACTIVE") @@ e :> There("GONE")
NoNets == [i \in {a, b, e} |-> There("GONE")]
Virtual == [status |-> "ACTIVE", dns |-> "DISABLED", dhcp |-> own, main |-> r,
            sets |-> {own, other, system}]
Scene(boxes, nets, do) == [plan |-> do, box |-> boxes, subnet |-> nets, vpc |-> Virtual,
    foreign |-> IF \E c \in DOMAIN do : do[c].on \in {r, u} /\ do[c].op = "delete" THEN 1 ELSE 0]

Ask(op, on, key, val, net, set, nw) ==
    [op |-> op, on |-> on, entry |-> Rule(key, val), subnet |-> net, dhcp |-> set, noWait |-> nw]
Put(op, on, key, val) == Ask(op, on, key, val, a, own, FALSE)
Move(op, on, net) == Ask(op, on, k, x, net, own, FALSE)
Gone(on) == Ask("delete", on, k, x, a, own, FALSE)
Make(on) == Ask("create", on, k, x, a, own, FALSE)
Dns(op, set) == Ask(op, None, k, x, a, set, FALSE)

NoHolder == [Boxes EXCEPT ![p].held = {}]

AllScenes == {Scene(Boxes, Nets, f) : f \in {
    NoPlan,
    Two(Put("add", p, k, x), Put("add", p, k, y)),
    Two(Put("add", p, k, x), Ask("add", p, k, x, a, own, TRUE)),
    Two(Put("add", q, deny, y), Gone(q)),
    Two(Put("add", p, k, x), Put("remove", p, deny, x)),
    Two(Put("add", r, k, x), Put("add", r, deny, y)),
    Two(Put("remove", u, k, x), Put("remove", u, deny, x)),
    Two(Put("remove", q, k, x), Gone(q)),
    Two(Put("remove", q, k, x), Move("associate", q, b)),
    Two(Move("associate", q, b), Gone(q)),
    Two(Move("associate", q, b), Move("associate", q, b)),
    Two(Move("associate", q, b), Move("disassociate", p, b)),
    Two(Move("associate", p, a), Move("disassociate", p, b)),
    Two(Move("disassociate", p, b), Gone(p)),
    Two(Move("disassociate", p, b), Gone(b)),
    Two(Gone(r), Gone(u)),
    c1 :> Dns("enableDns", own),
    Two(Dns("enableDns", own), Dns("setDhcp", other)),
    Two(Dns("enableDns", own), Ask("enableDns", None, k, x, a, own, TRUE)),
    Two(Dns("setDhcp", other), Dns("clearDhcp", own)),
    Two(Dns("enableDns", own), Dns("clearDhcp", own)),
    Two(Dns("setDhcp", system), Dns("enableDns", own))}}
  \cup {Scene(NoHolder, Nets, f) : f \in {
    Two(Gone(b), Gone(b)),
    Two(Gone(b), Move("associate", q, b)),
    Two(Gone(b), Gone(r)),
    All(Gone(b), Move("associate", q, b), Gone(q)),
    Two(Make(w), Gone(r)),
    Two(Make(e), Move("associate", q, e)),
    Two(Make(q), Dns("deleteVpc", own)),
    Two(Dns("deleteDhcp", other), Dns("setDhcp", other)),
    Two(Dns("deleteDhcp", own), Dns("clearDhcp", own)),
    c1 :> Gone(a),
    c1 :> Gone(d),
    c1 :> Gone(b)}}
  \cup {Scene([NoHolder EXCEPT ![q].status = "GONE"], NoNets, f) : f \in {
    Two(Make(q), Dns("deleteVpc", own)),
    Two(Make(e), Dns("deleteVpc", own)),
    Two(Dns("deleteVpc", own), Dns("deleteVpc", own)),
    Two(Dns("deleteVpc", own), Dns("enableDns", own))}}

-----------------------------------------------------------------------------
\* desk does what c1 and c2 ask, shop what c3 does.  intra has the record www.
Clients == c1 :> desk @@ c2 :> desk @@ c3 :> shop
InIntra == www :> intra
ZoneIs(status, vpcs) == [status |-> status, text |-> old, vpcs |-> vpcs, by |-> None, hidden |-> FALSE]
Web(status) == [status |-> status, text |-> old]
ZoneScene(z, rec, do) == [plan |-> do, zone |-> intra :> z, record |-> www :> Web(rec)]

AskZone(op, text, vpcs, nw) ==
    [op |-> op, zone |-> intra, record |-> www, text |-> text, vpcs |-> vpcs, noWait |-> nw]
NewZone(v) == AskZone("createZone", new, {v}, FALSE)
Describe == AskZone("updateZone", new, None, FALSE)
MoveTo(v, nw) == AskZone("updateZone", None, {v}, nw)
NewRecord == AskZone("createRecord", new, None, FALSE)
SetRecord(text, nw) == AskZone("updateRecord", text, None, nw)
DropRecord == AskZone("deleteRecord", None, None, FALSE)
DropZone(nw) == AskZone("deleteZone", None, None, nw)
Apart(f, g) == c1 :> f @@ c3 :> g

AllZoneScenes == {ZoneScene(ZoneIs("ACTIVE", {theirs}), "ACTIVE", f) : f \in {
    NoPlan,
    Two(Describe, MoveTo(theirs, FALSE)),
    Apart(Describe, MoveTo(theirs, TRUE)),
    Two(SetRecord(old, FALSE), SetRecord(new, TRUE)),
    Apart(SetRecord(old, FALSE), SetRecord(new, FALSE)),
    Two(DropRecord, DropZone(FALSE)),
    Apart(DropRecord, SetRecord(new, FALSE)),
    c1 :> MoveTo(mine, FALSE),
    Two(MoveTo(mine, FALSE), SetRecord(new, FALSE))}}
  \cup {ZoneScene(ZoneIs("ERROR", {theirs}), "GONE", f) : f \in {
    Two(NewRecord, Describe),
    Apart(NewRecord, DropZone(TRUE))}}
  \cup {ZoneScene(ZoneIs("GONE", {}), "GONE", f) : f \in {
    Two(NewZone(theirs), NewRecord),
    Apart(NewZone(mine), NewZone(theirs)),
    c1 :> NewZone(mine),
    Two(NewZone(mine), MoveTo(theirs, FALSE))}}

-----------------------------------------------------------------------------
SharedPlans == {
    <<c1 :> New("createServer", n), c1 :> Gone(b), NoPlan>>,
    <<c1 :> Drop("deleteServer", s, FALSE, FALSE), c1 :> Gone(a), NoPlan>>,
    <<NoPlan, c1 :> Dns("enableDns", own), c1 :> NewZone(mine)>>,
    <<NoPlan, c1 :> Dns("enableDns", own), c1 :> MoveTo(mine, FALSE)>>}
=============================================================================
