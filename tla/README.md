# Verification of the vngcloud SDK

TLA+ models of the parts of this repository whose correctness depends on order:
which request leaves, which token it carries, what a second process sees. TLC
checks them on small instances; TLAPS proves the most important results for
every value of the constants. `PROJECT.json` maps every definition to the lines
it stands for.

    tlc -workers 2 -config MCToggle.cfg MCToggle      # one run
    tlapm TransportClientProofs.tla                   # one proof module

## 1. The system

vngcloud is a Go SDK and a command line for GreenNode cloud services. A program
builds one `core.Client` per Config; service packages (`monitor`, `cdn`,
`volume`, ...) build requests and hand them to it; it sends them through one
`internal/transport.Client`, which owns the access token. The token comes from
a token source: an IAM user login, a service account, or a static token. Logins
may be shared through a cache directory by every process of the machine.

    service packages --Request--> core.Client --> transport.Client --> HTTP
                                       |                |
                                  projectMu        token, refreshMu
                                                        | Token / Invalidate
                                               iamTokenSource (rejected)
                                                 |               |
                                       IAMUserAuth (memory)  tokencache.Cache
                                        shared in a process   entry file + lock
                                                              shared by processes

| Part | State it keeps | Operations | What is hard | What makes it correct |
|---|---|---|---|---|
| `internal/transport` | token slot, `refreshMu`, per call: attempt, last token sent, NotSent evidence | doAuthenticated, send, EnsureToken, refreshToken, invalidateAndRefresh, invalidateOnceContext | concurrent calls on one slot, retries inside a 401 recovery, contexts that end anywhere | Once is once; a non-idempotent request is not acted on twice; Retryable and NotSent tell the truth; a good token is never replaced or invalidated; every call returns |
| `internal/tokencache` | entry file, lock file | Get, readFresh, write | processes, crashes with the lock, a clock set back, failed reads and writes | one login at a time and none without a cause; the file never goes back; it behaves as one shared cell |
| `internal/core` auth | memory token of an IAMUserAuth, `rejected` of each iamTokenSource | Token, InvalidateContext, cachedIfFresh, remember | a rejection crosses memory, disk, Clients and restarts | a revoked token is replaced; an invalidated one is not resent; no login storms |
| `internal/core` project | `projectID`, `projectUserID` under `projectMu` | RequireProjectID, RequireProject, RequireDiscoveryProjectID | a network call under a mutex, a read before the lock | the choice is made once and its user fits it |
| `internal/core` service account | memory token and `rejected` under one mutex, disk namespace | Token, diskToken, InvalidateContext | the disk read, the login or the context fails between a rejection and the next token | as for the IAM source |
| `internal/discovery` | budgets, memo, terminal error of a Session | DoJSON, Preflight, AddRows, BeforeAttempt | limits, fatal answers | budgets hold, nothing follows a fatal answer |
| `monitor` toggle | `toggleMu` | PauseCheck, ResumeCheck | the PUT names no target and may land late | a toggle goes to its target; a plain error means nothing happened |
| `monitor` quotas | ledger of unresolved attempts under a semaphore | create, renew, recover, ensure, delete, auto-renew | paid orders and extensions whose answer is lost; evidence read outside the semaphore | no second order or extension before the first is resolved; a plain error hides no write |
| `cdn` | none (no mutex) | enable, disable, update, delete | a request that flips whatever is there, a slow status machine at the server | an error that says so did nothing; success was carried out; only a race acts on what was not read |
| `loadbalancer` | one lock per load balancer and Client | writes of pools, members, listeners, policies; resize, delete | whole objects are replaced, the balancer is busy after each write, a refusal is sent again | own writes are not undone; a lost member is noticed; a resize is ordered once |
| `compute`, `volume` | none (no mutex) | start, stop, reboot, resize, create, delete; attach, detach, resize, create, delete | reads that are old when the service acts, requests that outlive their call, operations that take time | what was checked holds unless somebody else wrote; a 4xx means nothing happened; volumes that stay are named |
| `network` | none (no lock) | rules and subnets of ACLs, routes, create and delete of ACLs, route tables and subnets, delete of a VPC, Private DNS, DHCP options | lists are replaced whole from an earlier read, deletes rest on several reads, an ACL that keeps a deleted subnet is stuck for ever | what was read holds unless somebody else wrote; an error from before the request means nothing was sent; no ACL gets stuck |
| `dns` | one lock per Client | create, update, delete of hosted zones and records | a zone is replaced whole, the service locks it and shows that late, writes last for seconds | writes of one Client do not undo each other; an error from before the request means nothing was sent; success means the zone is free again |
| other waits | none | poll loop in `storage` | bounds, late answers | the bound ends the wait |
| `iam` guards | none but the caller and the action names, read once | guarded writes of policies, groups, members, attachments, service accounts, users | a guard is many reads, the write a request of its own, late or repeated | whoever may write to IAM keeps its rights and credentials; nobody comes to be one; a change of oneself is reported as that |
| `internal/cli` | config files, downloads | configure, object get | read-modify-write of files | a command does not lose another's profile |
| the rest | none | request building, decoding, rendering | - | - |

Every part, also those not modelled, is listed under `components` of
`PROJECT.json`; the places where order or failure bites are listed under
`hazards`.

## 2. The modules

### TransportClient (internal/transport)

One `transport.Client` shared by a set of calls; a call is one
`doAuthenticated`. `slot` is `Client.token`, reduced to the token and whether
`NeedsRefresh` would accept it; `refreshMu` names its holder; `pc` follows a
call through EnsureToken, refreshToken, the attempts of `send` and the two 401
recoveries. Each critical section is split where the code calls out: the token
source (`RefreshFetches`, then `FetchCommits` or `FetchFails`) and the
invalidation (`RecoveryLocks`, `OnceLocks`, then their outcomes), so contexts
end and other calls look at the slot in between. The checks a goroutine makes
after getting the mutex and before calling out are one step with getting it.

The HTTP exchange is the environment: `DoFails`, `BodyFails`, `Responds` and
`Unauthorized` choose an outcome, whether a handler acted (`act`) and whether a
redirect was followed first (`hop`). Their guards are the only assumptions on
servers: without a redirect, a failed dial, a 429 or a 401 mean that no handler
acted, which is what the code and ADR 0002 assume too. Four request shapes
matter: Once, idempotent, carries the IAM token, refuses redirects; Once
implies refusing redirects, as in `send`.

`sends`, `acted`, `reached`, `redirected` and `rejected` are history.

### SharedToken and TokenCache (internal/tokencache)

`SharedToken` is what the cache promises: one cell, from which a caller takes
the token or which it replaces, in one step, by a newer token and only if the
cell is no good to that caller or cannot be read. `TokenCache` is the code:
processes that poll a flock (`Acquire`), read the entry (`Hit`, `Miss`, and
`ReadFails` for a failed `os.ReadFile` or content that does not parse, which
`readFresh` takes for a miss whatever the entry is), log in (`LoginServed` at the
server, then `Stamp` when the answer is back in time), write with a rename
(`Write`, whose failure is ignored as in the code) and unlock on every return.
A `Crash` drops the flock and all memory; `Cancel` ends a context. The clock is
explicit, because `fresh` and `rejectable` compare times: `Window` ticks are
the 30 seconds of `freshWindow`; `StepBack` sets the clock back, after which
`setBack` stays true and what was found stale may look fresh again. The refinement
maps `disk` to the cell and `rejected` to the pending refusal, keeps who could not
read (`unread`) and whose Get ended with a token (`served`), and leaves lock, file
and login out. `served` is what tells serving a token from giving up: a Get that
hands out what is no good to its caller is no step of `SharedToken`.

### IamTokenSource (internal/core auth, both token sources)

Clients with a token slot and an `iamTokenSource` each, over one `IAMUserAuth`
per process and one disk entry. `setup` says which Client lives in which
process, whether a cache directory is set and whether the Clients use a service
account instead. Then each has a memory of its own (a process of its own here), and
`InvalidateAccount`, `Keep` and `RememberAccount` replace `InvalidateAuth` with
`Mark`, `Take` and `Remember`: the rejection is noted only of a token that was
dropped, and stays in the source until the next token is in memory. `Cache.Get` is one step here,
because `TokenCache` implements `SharedToken`: it serves (`GetServes`), replaces
what is no good (`GetRenews`) or what it cannot read (`GetUnread`, a fault), or
fails (`GetFails`; for a service account also when the file cannot be read); a Client runs one call at a
time, because `TransportClient` has the races inside a Client. Time is reduced
to two sets of tokens: `old` (held for 30 seconds, so a rejection is trusted; tokens grow old in the order in
which they were obtained)
and `stale` (30 seconds from expiry). `Take` and `GetFails` are the rejection
taken out of the source and put back, `ContextEnds` a context that ends between
two steps, `Restart` a process that starts anew. A first 401 comes for a revoked
token or, in the deployments with `denials`, for a good one (`Deny`), as often as
the server likes; that is what the 30-second test of `invalidateContext` is for.

### Toggle (monitor/toggle.go)

Calls of PauseCheck and ResumeCheck on one check, from several Clients. The PUT
is a message in `transit` which the service lands (`Land`) or which is dropped;
with `LateLanding` it may land after its call gave up on it. `ReadFirst`,
`PutRefused`, `PutAmbiguous`, `Confirm` and `ConfirmCut` are the code's cases;
`Foreign` is a person at the console. That a Once PUT leaves at most once is
`CarefulCallsOnce` of TransportClient.

### QuotaLedger (monitor/quotas_*.go)

The writes of one kind of quota on one Client: of a notification kind create,
delete and disable auto-renew; of the synthetic kind create, delete, renew,
recover, ensure and enable auto-renew. `quotaMu` is the channel of one token,
held through the whole call; `attempt` is the entry of `quotaAttempts` for the
kind, named by the call that made it. A call first reconciles an open entry
(`ReconcileConfirms`, `ReconcileFails`) and then never writes itself; with an
empty ledger it reads (`ReadTerms`, and all but the notification create again
right before the send, `ReadAgain`), sends one message (`Send`) and either knows
that nothing happened (`Refused`) or records the attempt (`Ambiguous`,
`Answered`) before it waits (`SettleConfirms`, `SettleEnds`). What an open entry
needs to be confirmed is `Confirmed`: a quota of the package, and for the
synthetic one not older than the order; no quota; a later expiry; the setting.
`Guard` is what the caller expects, the expiry for a renewal and the identity
for the others; `ensure` chooses between renewal and recovery by the first read
(`Action`). Most synthetic calls look at the send evidence once more in a
deferred function, after the token was given back (`Report`): a plain error
becomes the unsettled one while an entry is open. The service is `Land`, `Drop`
and `Provision`: an order or extension takes its time to show, or waits for a
payment. The service extends or deletes whatever quota the kind has when the
message lands. A write of an ended call may land at any later time. The clock
bounds of the waits appear as the freedom to stop.

### LoadBalancer (loadbalancer)

Every write of the package but CreateLoadBalancer and the certificates. `lock`
is the lock of the balancer in each Client (`Client.locks`); a call takes it,
waits until the balancer and its object are not busy (`PreWriteBalancer`,
`PreWriteChild`), makes a body of what it read (`AddPoolMember` to
`ResizeLoadBalancer`), sends it (`Accepted`, `NotReached`, `RefusedBusy`,
`Refused`) and waits (`FirstDelay` to `WaitBalancerDeleted`); every return
unlocks. `sendWithBusyResend` is `Resend`: back to the wait, with the same body.

Content is a function of keys: members by address and port, fields, the
package. A write of members leaves the fields alone and the other way around.
The service takes a write (a job), starts it, which is when the balancer turns
busy, and ends it (`Applied`; `Holder` records whose write a key holds then).
`Prompt` says that it starts a write within the first delay
of a wait, the reason the code gives for that delay; `SettledMeansLanded` and
`OwnWritesRespected` hold for a service that does. The wait of a resize is the
exception: it has no first delay and ends when it reads the package it ordered.
Two other resizes of another Client can show it that package before its own order was
carried out, and the next resize of the same Client is then built on a package
about to change; `OwnWritesRespected` leaves such calls out (`Misled`). The price of a resize is
nondeterministic. UpdatePool's separate read of the health monitor is one read
with the pool's here.

### CloudService, Servers, Volumes, Cloud (compute, volume)

`CloudService` is the vServer service and what the two packages share: the
duplicate-name walk page by page, the price guard, the one request with its
retries, the polling wait. `Servers` and `Volumes` are the writes of the
packages and `Cloud` composes them, since they meet at the service: a detach
reads a server, the delete of a server lists volumes. No lock is involved. A
request is late while nobody waits for it any more (it may arrive at any time or
never), queued when accepted, running while its object is CHANGING. `Fits` is
what each call checks; `raced` holds the calls whose reads another write has
overtaken, `misfit` those carried out although what they had checked was not so.
The delete of a server is among the writes that change the list a create of a
volume walks over, since it may take volumes along. The service gives an id
once, and nothing is attached that is gone.

What the service accepts (`Acceptable`) is taken from the code's comments. The
listing of a server's volumes is taken not to filter by itself; a volume is on
one server at most; a server read without its boot volume id ends a detach. The
price guard is nondeterministic. `Prompt` says that a reboot begins within
`serverRebootMinWait`.

### Network, VServer (network)

`Network` is one VPC: `box` holds its ACLs and route tables (a list of entries
each, an ACL also the subnets it holds), `subnet` and `vpc` the rest. A list
operation waits until the list may be written (`WaitPreWriteActive`), makes the
new list (`AddEntry`, `RemoveRoute`, `AssociateNetworkACLSubnet`, ...), reads it
again (`Recheck`) and replaces it whole. A delete collects its evidence read by
read: `DeleteSubnet`, `CheckSubnetNotInUse`, `ListNetworkACLsInVPC` and one
`CheckSubnetNotHeld` per ACL. `Accepted`, `Refused`, `NotTaken` and `Outlives`
are the request, sent once (`Once`) or retried by the transport;
`ConfirmSubnetDelete`, `WaitACLAbsentAfterDelete` and `Settle` follow it.
`raced` holds the calls of which something they rest on (`View`) has changed
since they read it, `misfit` those carried out although `Fits` was false.

`Acceptable` and `Apply` are the service as the comments tell it: an ACL is busy
after a write, for a while without showing it (`hidden`); a deleted subnet stays
readable for minutes; a VPC is refused while a subnet of it has not quite gone; an ACL
that holds a deleted subnet takes no further write.

`VServer` composes `Cloud`, `Network` and `Dns`: a server is in a subnet from its
create on, which is the `used` of `Network`, and the Private DNS of the VPC is
the `vpcDns` of `Dns`. Seen through the variables of
`Cloud` every step is one of `Cloud` or a stutter (`CloudKept`). A new ACL holds
no subnet. A retry may be accepted although an earlier attempt of the same call
is still on its way. The enable of Private DNS checks nothing of the state that
the service does not check again. GetVPC and ListSubnets before the delete of a route table are one read, as
are the three use lists of CheckSubnetNotInUse.

### Dns (dns)

Writes of hosted zones and records. `holder` is the lock of each Client
(`Client.writeLock`): `LockWrite` takes it, or the context ends (`Break`), and
every return gives it back. `WaitZoneReady` is the wait before the request; its
last read is what `UpdateHostedZone` merges (`Merged`). A PUT and a DELETE are
repeated by the transport, a POST is not (`Fail`). `SettleZone`, the two reads
of `SettleReadZone` and `SettleRecord`, `WaitZoneGone` and `WaitRecordGone` are
the waits after it, `Confirm` the one read of an update with NoWait.

The service is as `docs/design/dns.md` and the comments tell it: it takes writes
to a zone that is ACTIVE or in ERROR, locks it for every create and update of a
record (`by`), shows that lock a moment later (`hidden`, `ShowLock`), and refuses
a VPC without Private DNS; a zone whose VPC is still ENABLING ends in ERROR. A
poll interval is taken to be long enough for the lock to show (`Slept`), which is
the reason the code gives for the second poll of `UpdateRecord`. Which of the
sent fields an output carries is left out.

### Cdn (cdn)

Enable, disable, update and delete of one CDN, by calls of one Client or several:
there is no mutex. An enable and a disable are the same flip at the server. The
server changes the status when it takes a request; a request may be carried out
when its call has given up (`late`). `Confirm` and `Settle` are the two waits
after a toggle; a deadline or an ended context is the freedom to give up. Which
object an output carries is left out.

### IamGuard (iam)

Tasks call the guarded writes one after another, each with the token of its
caller. A guard is the set of reads still to be made (`todo`): a read is
answered by what the service has at that moment, adds to the `reason` for a
refusal and may ask for more reads. The code makes the reads in one order, that
of its lists; the model in any, which the properties do not depend on. `seen`
is the map of policies of one guard call, `base` the statements that an
UpdatePolicy without new ones sends again. `Send` makes the write a message; the
service carries it out (`Land`) at once, late, after the call has given up, or, unless it
is sent `Once`, again, by a retry or a followed redirect.

`Protected` and `Rights` say what holds at the service, in the words of
`docs/design/iam-writes.md`. `GrantsWrites` is what a document really grants, while
`StatementsArePrivileged` also takes for privileged what it cannot read.
What does not exist has no policies and is in no group.
`Caller` is a principal that may write to IAM, since the service takes the
writes of no other, and the service refuses what a deleted one still has on its
way. An action is a pattern here, and matching it against the catalog the set
`WritePattern`. A change at the console is not modelled: the design document
says that it goes unseen ("What stays open"). CreateGroup, UpdateGroup,
CreateUser and CreateServiceAccount change no rights and are left out.

### ProjectSelection, PriceDiscovery (core, discovery, volume)

`ProjectSelection` is `RequireProjectID` (lists under `projectMu`),
`RequireProject` (lists first, takes `projectMu` to choose) and
`RequireDiscoveryProjectID`, while projects come and go. `PriceDiscovery`
extends it by `volume.ListVolumePrices` on a Session: budgets of requests and
rows, the catalog reads, the preflight of the quotes, one quote per body,
AllowPartial. The memo never answers here, because the keys of one listing
differ; a terminal error ends the listing itself, so nothing follows it. There is
one zone and no encryption type; filters are left out. Retries of the transport
do not count as requests. A context that ends is an answer `"error"` or
`"fatal"`.

### MC modules

The `MC...` modules hold the instances of the runs: model values, initial
objects, and the plans, sets of calls to explore. Some modules define, before a
definition X, a variant of it that a plausible bug in the code would give; its
comment says `Mutated X`. No specification uses the variants; each property of a
passing run is violated when one of them replaces its original.

## 3. The runs

| Run | Instance | What it shows |
|---|---|---|
| transport | two calls, two tokens, one retry; a call of every request shape | the token slot and `refreshMu` under all interleavings: `InvalidatesOnlyCurrent`, `ReplacedOnlyWhenBad`; each shape against every outcome of every attempt: `CarefulCallsOnce`, `ErrorFlagsTrue`; the calls return |
| transport_redirect | one call, one retry | a disagreement, see below |
| token_cache | two processes, clock to 2, two tokens, lives of 3 windows, a clock that may go back | that the protocol implements `SharedToken` and `CancelledGetReturns` under any clock; `LoginsApart` and `LoginHasCause` while the clock was not set back, but for processes that cannot read the entry |
| iam | two Clients: two processes with a disk entry, one process with and without; service accounts with a disk entry and without; two faults, or in three of the five one good token that is answered 401 | `RevokedTokenReplaced`, `LoginsOwed`, `ResendDiffersUnlessShared` |
| toggle | three calls on two Clients, one foreign change, late landing, two confirm reads | `FlipReachesTarget`, `ErrorMeansUntouched` |
| quota | thirteen scenes of two or three calls on one Client and the quota they find, one change by somebody else or the calendar | `LandsAsRead` (nothing is bought or extended twice, a delete removes what was read), `SettledMeansLanded`, `PlainErrorsTrue`, every call returns |
| load_balancer | thirteen plans of two or three writes; two Clients without retries, one with one; a pool with one member, a listener, a child to create; one more read per wait | `OwnWritesRespected`, `LossIsReported`, `SettledMeansLanded`, `OrderedOnce`, every call returns |
| load_balancer_resend | two Clients, a new member and a changed one | a disagreement, see below |
| cloud | twenty-four plans of one to three writes; four servers, five volumes, names in common; two attempts, pages of one, one more read per wait; three ACLs, three route tables and three subnets under thirty-seven scenes of one to three network writes, one reroute at the console; a hosted zone with one record, two VPCs and two Clients under fourteen scenes of one or two writes; two plans that pair a server with its subnet, two that pair a zone with the Private DNS of its VPC | `ActsOnWhatItRead`, `NameOrderedOnce`, `SettledMeansLanded`, `ErrorMeansUntouched`, `KeptNamesWhatStays`; of the network and DNS writes `NetActsOnWhatItRead`, `OutcomesTrue`; `NoAclStuck` |
| iam_guard | every pair of 21 guarded writes of two administrators, and with five of a service account; five policies, four groups, three users, two service accounts; two first states | `ProtectedUntouched`, `NobodyEmpowered`, `SelfWins` |
| cdn | six plans of two or three writes, four first statuses, two fields, three reads per wait | `SuccessMeansLanded`, `ActsOnWhatItRead` |
| price_discovery | a listing alone with budgets of 4, 6, 7 and 8 requests, with and without AllowPartial; beside two other calls; three selecting calls; no, one or two projects; two volume type zones with a type in common | `SameProject`, `QuotesAllOrNone`, `CompleteMeansPriced`, every call returns |

The type invariants and the bounds on locks and counters are proved (section 4)
and left out of the runs, except as theorems say.

Why the bounds are enough. The races on the slot are between a call that has
looked at a token and one that changes it, so two calls and two tokens show all
of them; one retry has a first, a last and, with the 401 recovery, a repeated
attempt, and the theorems hold for every retry count. In the cache two processes
contend for one lock; two tokens allow a rejection of the last, of an older
and of no token, and the clock reaches the last window of a life; any read and any
write may fail. Longer
histories are left to the proofs, which cover the same properties. In the IAM run one
revocation, one expiry and two faults allow a rejection to be lost, put back
and taken again on the way; more of them repeat the same steps. One good token
that is denied, any number of times, young and old, shows what a 401 without a
revoked token does; it needs no fault, so the two are not combined. Three toggles
show one waiting, one holding and one on another Client; two confirm reads
stand for the four, since only the first, a middle and the last differ and the
middle ones change nothing. The scenes of the
quota pair the calls in which a later one meets an open attempt of the same key,
of another package, expiry or identity, and of another operation, or finds a
quota an earlier one changed; the first quota is none, active, renewing itself
or in the trash. A race between writes is one
between two of them; the plans of the load balancer and of the cloud pair the
operations that touch the same objects, and a third call is there where one
undoes what another made (start after stop, the third resize, the second
create). A wait with one more read shows the first, a later one and the
deadline. The scenes of the network pair the writes that meet in one list or
one subnet; two routes and two rules are a list with one to keep and one to
change. The scenes of the zone pair calls of one Client and of two over a zone
that is there, in ERROR or not there yet; one more poll shows an update of a
record settle at the second. Servers and volumes, networks and zones are explored
side by side and not in all combinations, since they meet only where a server is
in a subnet and where a zone needs Private DNS (`Together`).
Pages of one make a list of three or four servers a walk of several
steps, and `MaxPages` 3 lets it end by the limit too. The budgets of the price
listing end it in the catalog (1, 4), at the preflight (6), exactly fit (7) and
leave room (8); 11 rows are one less than the whole catalog may need beside the
catalog's own rows.

Fairness. A goroutine that can run runs, a Go mutex is handed to a waiter, the
HTTP client has a timeout and the poll of the flock repeats: weak fairness of
each call's own steps. Contexts need not end, tokens need not expire, nobody
has to start a call, faults are bounded and never fair. In `IamTokenSource` the
Client keeps calling and tokens grow old, since `RevokedTokenReplaced` is about
a Client that is used. In `LoadBalancer` the service starts what it took, and
the calls' steps are bounded by the deadlines of the waits: fairness to all
steps together is fairness to each, for none can go on for ever; and in
`QuotaLedger`, where it is enough that some call goes on, for the same reason. Where no
liveness is stated (`Toggle`, `Cloud`, `Network`, `Dns`, `Cdn`, `IamGuard`) a call's return follows from its
bounded reads and no fairness is assumed. Liveness is checked by TLC only.

### Disagreements with the documentation

* **transport_redirect / RetriesOnlyUnacted.** ADR 0002 (26-28) says a
  non-idempotent request is retried only where the server cannot have acted. A
  followed redirect whose follow-up fails to dial, or answers 429, is retried
  although the first address may have acted. `observeSend` accounts for
  redirects, the retry decision does not. `CarefulCallsOnce` (acted on once)
  and `ErrorFlagsTrue` (Retryable) therefore exclude calls with a followed
  redirect.
* **load_balancer_resend / NoSilentDrop.** `pool_members_write.go` (64-66) says a
  replace never silently drops a member the caller did not name. After a busy
  refusal `sendWithBusyResend` waits and sends the same body, with the member
  list read before the refusal. A write of another Client that made the balancer
  busy is overwritten, and the confirm read finds the list that was sent: both
  calls have returned success. `LossIsReported` shows that a call which is still
  waiting when its member is dropped does not report success.

### Noticed while modelling

These are limits the code's comments accept or do not speak about; the
properties are stated with them as conditions.

* An entry that cannot be read or does not parse makes a Get log in at once, with
  a good token on disk and within the TOTP window of the last login
  (`cache.go:158-165`). `LoginsApart` and `LoginHasCause` leave it out
  (`ReaderFailed`), `SharedToken` allows it, `LoginsOwed` counts it as a fault.
* A write of another Client between a check and the request that rests on it is
  possible wherever the API has no precondition. `ActsOnWhatItRead` of `Cloud` and
  `Cdn`, `NetActsOnWhatItRead`, `NoAclStuck`, `SuccessMeansLanded`,
  `NameOrderedOnce` and `KeptNamesWhatStays` speak of calls that nobody raced with:
  they show that nothing the call does itself makes them untrue, and would not
  notice a race more. The notes under `hazards` say so one by one.
* Two Clients on one IAMUserAuth with a disk cache: the other Client may bring a
  rejected token back from disk between Invalidate and Token, and the recovery
  resends it once (`ResendDiffersUnlessShared` excludes the case,
  `RevokedTokenReplaced` shows that later calls get through).
* Toggles of two Clients: one whose confirm read falls between two flips returns
  success although the other flips back.
* Load balancer: NoWait, an error of the request, an ended context and a passed
  deadline give up the protection of one's own writes (`CutShort`). A PUT that
  was retried may answer busy although its lost first attempt was accepted.
  Updates of pools, listeners and policies have no confirm read.
* The duplicate-name walk passes over a name when another item is removed
  meanwhile, although the totals agree (`pagination.go:70`), and does not see a
  create that is still on its way: `NameOrderedOnce` is about a list that does
  not change.
* A retried DELETE of a server that answers 404 returns no output, so volumes
  that stay are not named (`HasOutput`). A server or volume already in ERROR may
  be reported as failed at the first read of a delete's wait.
* vDNS: the zone lock's 400 is said to mean that nothing was written
  (`docs/design/dns.md`, Errors; `docs/wiki/DNS.md`, Waits). A PUT is repeated
  when its answer is lost, and if the first one landed, the second meets the
  lock that the first one took: the call returns that 400 although its record
  was written. `OutcomesTrue` therefore says that a 4xx means nothing happened
  for creates only. The design document also says that `ErrNotSettled` never
  occurs with NoWait; an update whose one read fails returns it (`Confirm`), as
  the wiki says.
* vDNS: a PUT that outlives its call lands when the lock of its Client is free
  again, over what the next call wrote.
* `AssociateNetworkACLSubnet` reads the subnet first and accepts one that is
  already DELETED. The service of `Network` refuses it.
* The walk over the ACLs before the delete of a subnet skips one that answers
  404. A comment says that a write in flight may briefly make that read fail
  (`waitACLSettled`); such a read, and an ACL that moves to a page already read,
  are not modelled.
* DeleteUser does not look at privileges, since the service decides: an
  administrator may be deleted by another one, and `ProtectedUntouched` is about
  users that still exist.
* `RequireProject` may put back the user of an older list (`SameProject` only
  asks that the service named it once); a call that waits for `projectMu` does
  not obey its own context, but returns.

## 4. What is proved

`TransportClientProofs` proves, for any sets of calls and tokens and every
RetryCount, type correctness, `SendsBounded`, `LockInv`, `EnsuredHasToken`,
`InvalidatesOnlyCurrent`, `ReplacedOnlyWhenBad`, `CarefulCallsOnce` and
`ErrorFlagsTrue`.
The inductive invariant has three layers, each proved from the ones before:

* `TypeOK` with `SendsInv`: how many attempts a call has made, given its
  attempt index, its program counter and whether its recovery is over. Without
  the index the bound on attempts is not inductive.
* `SharedInv`: who holds `refreshMu`, that the slot is filled once any call is
  past EnsureToken, and that a call about to invalidate found its own rejected
  token in the slot. It relates one call's program counter to what every other
  call may do to the slot, hence the lemma that a step of one call leaves the
  others' variables alone (`OthersUntouched`).
* `EffectInv`: what has happened at the server, as a function of where the call
  is: nothing acted while a non-idempotent call may still send, nothing reached
  while `safe` holds.

Assumed: the ASSUME of TransportClient and the server facts in the guards.

`ClientProofs` proves of `TokenCache` for any number of processes type correctness,
`LockInv`, `RecordedIsLast`, `DiskNeverOlder` and `Implements`: the lock and file
protocol implements `SharedToken`, under any clock; and, while the clock has not
been set back, `LoginsApart` and `LoginHasCause`. The
invariant says which token numbers and times the process inside the
lock holds relative to the entry and the last login, and that only a process
inside may have failed to read the entry, so that a login without a cause is that
process's own. Assumed: a token's life is at least twice `freshWindow`. The code does
not check that: `internal/iamuser/login.go` takes the lifetime the identity
server reports.

Of `PriceDiscovery`, and of `ProjectSelection` as part of it, `ClientProofs` proves
`SameProject`, `QuotesAllOrNone` and `CompleteMeansPriced`, for any calls, lists
of projects, catalogs and budgets. `ListingInv` is about one call at a time, for
no other call touches its session. `BudgetAt`: from the preflight on, the requests
made and the bodies still to be quoted fit the budget together; since a request is
made only for a body, none is refused. `PricedAt`: while no read has failed, the
rows are those of all zones but the ones still to be read, and every body of a row
has a price or is still in the groups; with a failure the call cannot end
complete. For the project it is enough that a selected one is never replaced and
that whoever returns one has it from there (`Selects`). Assumed: lists, zones and
the bodies of a zone are finite, as one response is; the budget counts bodies, and
a `Cardinality` of an infinite set bounds nothing.

`QuotaLedgerProofs` proves for any number of calls, packages, guards and foreign
changes type correctness, `PlainErrorsTrue`, `SettledMeansLanded` and
`LandsAsRead`. `WriteInv` says where a call with a write at the service can be,
whatever others do; `OwnInv` adds, as long as nobody else writes, that there is
at most one open write (`OneOpen`), that until it lands the quota is the one its
call read, and that whatever is being built was ordered or extended by it. Neither property
is inductive without it: a confirming read empties the ledger, and only because
it proves that the open write has landed (`ConfirmedMeansLanded`) is there no
second one on its way; the same makes the late look of `Report` tell the truth
(`BehindStep`). Assumed: a 4xx, and NotSent, mean that the service did
not and will not act, as `sendQuotaMutation` does.

`ToggleProofs` proves for any number of calls, Clients, confirm reads and
foreign changes type correctness (which bounds the confirm reads, by
`ReadsLeft`), `ErrorMeansUntouched` and `FlipReachesTarget`. `PlaceInv` says
that a call inside holds its Client's mutex and that only a call that sent its
PUT has one at the service; `StandsInv` that the status a call means to flip
stands until its PUT lands, as long as only its own Client wrote and no PUT
outlived its call. The second is what makes a flip go to the target: the PUT
carries none.

`IamProofs` proves of `IamTokenSource` for any number of processes, Clients and faults
type correctness, `ResendDiffersUnlessShared` and `LoginsOwed`. The first needs
`RejectionInv`, which follows a rejected token: from the 401 to the
`InvalidateContext` of its own Client, whether the source still carries the
rejection, and which memory and entry can hold the token meanwhile. The second
counts: `OwedInv` weighs the logins against the tokens revoked, stale or lost to
a fault, or denied and old by now, and says which of them the entry and the
memories still stand for, so that no cause pays for two logins; a young denied
token is none, for it stays where it is. For a
service account `AccountInv` says that its memory holds what the Client holds,
or nothing, and then the source still carries the rejection. Assumed: finitely
many processes, and one Client per memory of a service account.

Of `IamGuard` it proves for any number of tasks, calls, principals, groups and
policies type correctness, `ProtectedUntouched`, `NobodyEmpowered` and `SelfWins`.
The difficulty is that what a guard has read is old when the write is carried
out. `GuardInv` says nevertheless that every write on the wire is `Harmless` in
the state the service is in now: its targets are `Safe`, stand for nobody who may
write to IAM, and its statements and policy are not privileged. It holds because no
step, of any task, gives a holder a privileged policy or puts a protected user
into a group (`Steady`), so that what is safe stays safe; and a step is steady
because the writes carried out are harmless: the two carry each other. Before the
send, `Shown` is what a guard without a reason knows: of each holder the call is
about it has seen that it is safe or has a read that could say otherwise still to
make (`Seen`, `Clears`), also when a policy was read for another holder and is not
read again (`GuardOK`). A step of another task keeps that by `Steady`, a read of its
own replaces what it answers by what it asks next (`Covers`). `Existing` (what does
not exist has nothing and is in nothing) keeps a policy id that is given out later
from being attached already. `Effect` sums up what a landed write can change, from
which both properties follow.

`SelfWins` needs a second invariant, `SelfInv`: as long as the guard has not found
the caller, every way by which the call is about it leads through a read of its own
caller that is still to be made (`SelfSeen`, `SelfListed`), and no other read can
settle one: a privileged policy ends the reads of its own holder only, and while
one of a group is to be read, so are those of its members, the caller among them.
Others do not bring the caller into a group or a policy to it meanwhile
(`StaysOut`), because it is a protected principal itself (`CallerOK`), which is
the first property again. Assumed: the kinds of identifiers are apart, and at
first what does not exist has nothing and is in nothing.

`CdnProofs` proves for any number of calls, fields and reads type correctness,
`ErrorMeansUntouched`, `SuccessMeansLanded` and `ActsOnWhatItRead`. `PlaceInv`
says where a call is whose request was carried out or is late; `StandsInv` that
status and fields are as a call read them as long as nobody raced with it.

`LoadBalancerProofs` proves for any number of calls, Clients, objects, keys and
reads and every retry count type correctness, `Serialized`, `OrderedOnce`,
`BusyMeansUntouched` and `LossIsReported`, and for a prompt service
`SettledMeansLanded` and `OwnWritesRespected`. `LockInv` says that who is between the lock and the return
holds the lock of its Client; `PaidInv` that a create or a resize the service
took is behind its call for good: not only its count, but also that the call is
past sending and can no more report busy. Every step of a call is first reduced
to what these can see of it (`Moves`: it frees the lock, stays, or takes it).

`WriteInv` follows what is written. `RouteInv` says which wait a call is in for
the operation it asked; `LandInv` that with a prompt service a wait past its
first delay has only started requests at the service, under which the object is
busy and the wait goes on, and none once it has settled. `BodyInv` says that a
members write carries its own member until the confirm read, `RobInv` that a
robbed call's member is still missing. `BasisInv` is where the lock pays: of the
keys a call was not asked to change, those held by another call of its own Client
are, in what it has read, sends or has sent, what the object holds (`Keeps`). It
rests on `HolderInv` (who holds a key), `JobInv` (the requests of a call are told
apart) and on `LandInv` for the end of the other's write. A resize has no list and
no first delay; `ResizeInv` and `DuelInv` make the same argument for two resizes
of one Client with the package as the evidence that the order was carried out,
which a third resize would break.

`VServerProofs` proves of `Cloud` for any number of calls, servers, volumes, pages and reads
and every retry count type correctness, `ErrorMeansUntouched`,
`ActsOnWhatItRead`, `NameOrderedOnce`, `KeptNamesWhatStays` and, for a prompt
service, `SettledMeansLanded`. `SentInv` says that a call has no request at the service
before it sends one, and one only if it is sent once; `FitInv` that what a call
checked is so as long as its request may still start and no other write raced
with it. The second holds through the call's own retries too: a second attempt
of a detach or a delete meets an object its first one has changed, but not what
was checked (`OwnFits`); and of other calls' operations only those counted as
races touch it (`Elsewhere`, `OthersFit`).

The other three need to know what came before (`HistoryInv`). Every step of a
call that the service does not see is first reduced to what they can see of it
(`Comes`). `LandInv`: as long as nobody raced with a call, its accepted request
stands at an object that has not reached what the wait looks for: CHANGING while
it runs, as it was checked before. `KeptInv`: from the list on, every data volume
attached to the server is in the call's notes, and an entry leaves the notes only
when its volume is gone for good, which is `BirthInv`: an object whose id no create
has got is nowhere, and one that is gone stays gone. `NameInv`: the items with
the call's name are on pages the walk has not reached, because no item changes its
page while nobody creates or deletes (`SameList`), and past the last page there
are none (`PageBound`). Assumed: ids of servers name servers and ids of volumes
volumes; the service gives an id once; it lists everything. `CloudKept` proves
that `VServer` implements `Cloud`, so that all of this holds while the four
packages work together.

Of `VServer` it proves `NetActsOnWhatItRead`, `OutcomesTrue` and `NoAclStuck`, for
any number of ACLs, route tables, subnets, zones, records, calls and Clients,
from two invariants, one for the part of each package.

`NetInv`: `SeenInv` is what a call has seen at each point on its way and, unless
another write raced with it, is still so: the list it merged with, up to the
request; that no server is in the subnet; that no ACL holds it but, perhaps,
those it has yet to ask. The step of another call, of `Cloud` or of the console
that changes any of it changes `View` and makes the call one of `raced`, and
no other step touches what is seen (`OtherKept`). It holds through retries and
for a request on its way, because what a first attempt changes is never what a
second one checks, but a list, which then is the one the call sends itself.
`NetUntouchedInv` follows what was sent.
`NoAclStuck` is not inductive: from the moment a subnet is DELETING some call must
be named that asked for it (`DeleterInv`), and an ACL that holds such a subnet came
to hold it after the checks of a delete began (`StuckInv`): no list with a
subnet that is not there any more is accepted, and a delete that saw all ACLs
finds the subnet in none.

`ZoneInv`: who is between the lock and the return holds the lock of its Client
(`TurnInv`), so that no call of that Client writes while another merges, and the
parts an update leaves alone are what it read (`MergedInv`). `ByInv` says for
whom a zone is locked: it shows that, or will (`hidden`), and until then the
write is one of a record; a record being created is not ACTIVE. So the wait of
anything but an update of a record sees the end in what it waits for; an update of
a record in its second poll, when a lock must have shown (`LookedInv`).

Assumed of what the calls find at first: no ACL holds a deleted subnet, no subnet
is being deleted, and no zone is locked. Assumed of what they are asked for: a
rule is for an ACL or a route table, subnets are associated with ACLs, a record
is in its own zone, and a new zone has a text and VPCs. `MCCloud` checks these for
the scenes it explores.

`ErrorMeansUntouched` of `Cdn` and `BusyMeansUntouched` of `LoadBalancer` are
proved and not run as well.

Checked by TLC only: liveness (`CallsReturn`, `CancelledGetReturns`,
`RevokedTokenReplaced`), which is out of the prover's reach. Every other property
of the runs that pass is proved. The invariants were checked by TLC on the
instances of the runs before they were proved.

## 5. What is not modelled

Bodies, URLs, headers, redaction, logging, decoding and rendering: no property
here depends on them, and unit tests reach them. Windows and other lock files:
the first gives the guarantees of the flock, the second is process-local by
design. The login exchange is external: a login gives a new token or fails.
DoStream, DoOnceWithResponse and the discovery variant of `send` are not told
apart from it. In `QuotaLedger` the two kinds are never
mixed on one Client (they share only the token), and prices, catalogs, trials
and an omitted package are left out. Of the modelled packages CreateLoadBalancer, certificates,
RenameServer and other single requests without a read before them are left out:
each is one message. The price listings of compute, network and storage use the
session of `PriceDiscovery` in the same way over other catalogs. Of `network`
CreateVPC, CreateDHCPOptions and the renames are one message each; virtual IPs,
security groups, NAT gateways and VPNs are in the plan below. The wait of
`storage` is the loop that `Poll` of `CloudService`
models, around one read. Details no property depends on: a pool whose read omits its members, or names one
twice (`checkMemberReadsAgree`); an ACL's busy message under a 5xx
(`isACLBusyErr` looks at any status); a Private DNS status the service does not
document (`EnableVPCPrivateDNS` sends nothing then); the pages of
`listNetworkACLsInVPC`, one read here; the memo of a price session, which never
answers within one listing. The parts listed as not modelled under `components`
either have no state that outlives a request or are in the plan below.

## 6. The plan

What is left, in this order. Recursive operators are avoided everywhere.

| Order | Module | Models | Run and bounds | To be proved |
|---|---|---|---|---|
| 1 | ConfigFile | configure and downloads: read, change, replace by rename | two commands | a replaced file is whole |
| 2 | PriceDiscovery, extended | the listings of compute, network and storage | the same run | `ListingInv` for them |
| 3 | Network, extended | virtual IPs, security groups, the purchase of a NAT gateway | the same run | `NetActsOnWhatItRead`, `OutcomesTrue` extended |

Compositions. `SharedToken` is the interface between the cache and the token
sources: `TokenCache` implements it, `IamTokenSource` uses it for both.
`TransportClient` establishes that a
Once request is one message, on which `Toggle`, `QuotaLedger`, `Cdn`,
`LoadBalancer`, `CloudService`, `Network` and `Dns` rest. The abstract specification still worth
stating is a single write with an unknown outcome, which they share.

