# Xboard-Node in TLA+

Xboard-Node runs proxy kernels (sing-box or xray) for a panel: it takes node configurations and
user lists from the panel over REST and WebSocket, keeps the kernel serving them, enforces
per-user limits, and reports traffic. This directory holds TLA+ modules of its parts, the TLC
configurations that check them, and TLAPS proofs of the main invariants. `PROJECT.json` maps each
definition to the source lines it models.

- [Parts of the system](#parts-of-the-system)
- [Modules](#modules)
- [Runs](#runs)
- [Fairness](#fairness)
- [Proofs](#proofs)
- [What the models leave out](#what-the-models-leave-out)
- [Disagreements found](#disagreements-found)
- [Plan](#plan)

## Parts of the system

For each part: the state it keeps, its operations, whom it talks to, what is hard about it, and what
makes it correct.

**Node service** (`internal/service/service.go`). One goroutine runs the select loop of a node and
owns `lastConfig`, `lastUsers`, their hashes, `lastStartErr` and the WebSocket client. Handlers
apply a configuration, a full list or a delta by calling the kernel, the limiter and the ACL store,
and roll back when the kernel refuses. Around it: one polling goroutine at a time
(`pullViaAPIAsync`, guarded by `pullActive` and a skip counter), a goroutine each for
reports and access logs, and a WebSocket client whose events and status changes arrive by bounded
channels that drop. *Hard:* three sources of truth that race (polls, events, deltas), operations in
several steps of which each may fail, ETags that advance before a result is applied. *Correct when:*
change detection compares with what is held; limiter, ACL and kernel follow the list held;
nothing acknowledged to the panel is lost; the node converges.

**Mailbox** (`internal/controlplane/mailbox.go`, `machine.go`). In machine mode one WebSocket serves
all nodes; each node has a mailbox in which the reader coalesces events (latest configuration, a user
list rebuilt from deltas, latest device map) and from which the service drains one snapshot. State:
the values, a dirty flag each, `ready`, `hasFullUserState`, `needsReconcile`, a notification channel
of capacity one. *Hard:* `Apply` notifies after it unlocks; events overtake the REST baseline, and the answer of
a pull that was asked before them comes after them; the client drops a list that is empty before it gets here
(`ws.go:424`). *Correct when:* no wake-up is lost, the rebuilt list is the panel's as long as every change of it was
folded, and the mailbox is a latest-wins snapshot, as its doc comment says.

**Panel control plane and HTTP client** (`controlplane/panel.go`, `panel/client.go`). `Initial`, `Poll`,
`Discover`, `Report`; an ETag for the configuration and one for the users; a health counter that
replaces the transport after repeated timeouts. *Hard:* one poll is two requests, and the ETag of the
first one is kept when the second one fails.

**WebSocket client** (`panel/ws.go`). Dials with backoff, reads events on a goroutine per connection,
pings, writes reports from a channel, tells its owner of connectivity through a channel that drops.
*Hard:* a connection breaks in a read, a write or both; discovery cancels and replaces the client while its
statuses are still queued. *Correct when:* no reader outlives its connection, but for the one named below, and
that a connection is down is noticed.

**Kernel, sing-box** (`kernel/kernel.go`, `kernel/singbox/*.go`). Start builds a new box next to the old
one; reload and the user operations replace inbounds in place. The connection tracker counts
connections, source addresses and bytes of each user, gates devices, kicks, and keeps a record of each
connection for the panel's access log. *Hard:* partial failure (an inbound is removed before the new one
exists), the gate's check and its count are two critical sections, a list reaches the inbounds before the
tracker, device limits change under connections. *Correct when:* counts are those of the connections that are up, a
kick reaches every connection of a user on the list (users off it are not found, though their connections go on), records
arrive once, and the node listens after failures.

**Kernel, xray** (`kernel/xray/*.go`). The same interface on xray-core; user operations go through its
API, or replace the instance when the protocol has no user manager; removing the last user stops it. An instance that is
replaced stays open while it has connections, up to five minutes. Its dispatcher counts users with a device limit under a
lock and those without in a concurrent map. *Hard:* changes that fail half-way and are not looked at again; limits come
and go under connections that are counted in one of the two. *Correct when:* the inbound accepts the users the kernel believes it serves, and slots are
those of connections.

**Limiter, speed tracker, auto-throttle** (`limiter/*.go`). One rate limiter per user, made on demand by
connections and updated by the service; an engine sets users who are too fast to a penalty rate, kicks them
and releases them. *Hard:* making one on demand takes three critical sections, penalties are kept in
one place and the engine's state in another. *Correct when:* a penalty is the engine's doing and ends, and
buckets have the current limits.

**ACL policies** (`acl/*.go`, `model/acl_validate.go`). Validated, compiled to one sorted list per user and
swapped as one pointer while connections are judged and dialled. *Correct when:* verdicts are those of the
configuration as written and nothing is dialled that it denies.

**Traffic tracker and reports** (`tracker/tracker.go`, `pushReportAsync`, `pushReportSync`). Turns
counters into deltas, flushes them to the panel and restores them when the push fails. Addresses have a second way to the
panel, the device batch over the WebSocket (`sendDeviceBatch`), which takes them from the same buffer. *Hard:* counters
restart with the kernel; the last report at shutdown, and any device batch, races with the push under way; a batch counts as
reported before the client drops it. *Correct when:* every byte is reported once, and the panel knows the addresses.

**Machine orchestrator** (`machine/machine.go`). Discovers the nodes of a machine, starts and stops a
service for each, retries failed ones with growing delays, routes WebSocket events. *Hard:* timers,
stops and rediscovery race: each may be half-way when another begins. *Correct when:* every service that runs can
be stopped, its events reach it, and a node the panel lists comes up again however often it fails.

**Certificates** (`cert/*.go`). Material from files, from the panel, self-signed or from an ACME client that
renews in the background and sets a flag the next poll takes. *Correct when:* the kernel comes to serve what
the manager has.

**Configuration loading** (`config/config.go`), **watcher** (`config/watcher.go`), **main loop**
(`cmd/xboard-node/main.go`). A file becomes instances and nodes with IDs and directories of their own; a save
ends the iteration of the main loop and begins another; signals and failing nodes end the process.
*Hard:* three goroutines, a debounce and two channels of small capacity. *Correct when:* the last save is
what runs, the process ends when told to, and no two nodes share what is theirs.

**Local stats** (`localstats/*.go`). Samples every node's counters and says what happened in a window.
*Correct when:* counters that restart and nodes that come and go make it count nothing twice, as long as no two nodes
have one ID.

**Observers and tools**: system monitor, logging, geo data, `xbctl`, installer. They change nothing a
node serves.

How they interact: the main loop starts a service, or an orchestrator that starts one per node. The
service calls its control plane (REST, synchronously in setup and in goroutines later) and receives
events from it by callback into channels, or by mailbox in machine mode. It drives the kernel,
the limiter, the ACL store and the tracker by calls. The kernel's connection hooks read limiter and
ACL concurrently. The panel is outside and sees only requests.

## Modules

| Module | What it models |
|---|---|
| `NodeMailbox` | the mailbox, the reader that calls `Apply`, and the service's side: baseline, seed, `MarkReady`, drains, and the goroutine that pulls |
| `LatestWins` | what the mailbox promises: a register per kind, drained as one snapshot |
| `NodeMailboxProofs` | the theorems about `NodeMailbox` |
| `NodeHandlers` | the service's handlers as operators from a node's state to the set of states they can end in, with the kernel operations they call; the invariants of one node |
| `NodeService` | the select loop, the polling goroutine, the WebSocket client and the panel, composed with the handlers |
| `NodeServiceProofs` | lemmas that every handler preserves those invariants, and the theorems about `NodeService` |
| `TrafficReport` | byte counters and addresses of the kernel's connection tracker, the traffic tracker, the report goroutine, the device batches, the report at shutdown, and what the panel is told |
| `TrafficReportProofs` | the theorems about what a node reports and is told: `TrafficReport`, `AccessLog`, `WSClient` |
| `MCNodeService` | the user lists and configuration steps of its runs |
| `KernelBase` | users, addresses, connections and the values a device limit may have, shared by the data-plane modules |
| `ConnTracker` | the sing-box connection tracker: a connection's way in and out, device limit and gate, kicks, the swap of the user list |
| `SpeedLimits` | limiter, speed tracker, auto-throttle and what the tracking tick does with them |
| `DataPlane` | a node: how lists, kicks and connections pass between `ConnTracker` and `SpeedLimits` |
| `DataPlaneProofs` | the theorems about these three |
| `XrayDispatcher` | device limits of the xray kernel |
| `AclPolicy` | validation, compilation, verdicts and dials of access control, with reference definitions |
| `AclPolicyProofs` | its theorem, and lemmas about sorting, folds, the merge and the search |
| `LocalStats` | the stats engine: its rounds over the nodes, its windows and alerts; the generations of access records |
| `LocalStatsProofs` | its theorem, and lemmas about sums and induction over finite sets |
| `AccessLog` | access records from connections to the panel, and the panel's switch |
| `WSClient` | `Run`, `connect`, the readers and the channels of the WebSocket client |
| `BoxLifecycle` | whether a sing-box listens, through configurations it cannot use, failed reloads and the starts that answer them |
| `XrayKernel` | the users the embedded xray accepts, and those of the instances it has replaced |
| `KernelProofs` | the theorems about these two, `XrayDispatcher` and `NodeCert` |
| `Orchestrator` | one node of a machine: passes of discovery, timers, mailbox, shutdown |
| `ReloadLoop` | the main loop, its guard and its watcher |
| `ConfigLayout` | from a file to nodes: inheritance, environment, IDs, directories, validation |
| `ProcessProofs` | the theorems about these three |
| `NodeCert` | certificate manager, renewals, and the polls and handlers that bring material to the kernel |
| `MCReports`, `MCConnections`, `MCProcess` | instances that check several of these in one run |

`NodeMailbox`. The variables named like Go fields are those fields; `dirty` is the set of the dirty
flags, `token` says whether `notifyCh` is full. `reader[r] = "notify"` is the gap
between unlock and send. `svc` is the service's program counter: `fetch`, `seed`, `mark`, `marked`
(ready is set, the notification not sent), then `drain`, `handle` or `request`, and `select`. `view` is what the service was
handed, `svcUsers` its own list: a list that is offered is taken or not, as `applyUserUpdate` drops it when the kernel
neither runs nor starts. The goroutine of `pullViaAPIAsync` is `polling`, `fetched` and `results`; the panel answers it at one time
and `ApplyPullResult` uses the answer at a later one, when newer events may have been handed over. `behind` says that
the last list offered was not taken or was such an answer, `missed` how changes of the list failed to be folded: `refused`
by the mailbox, or `dropped` by the client because the list was empty (`DropEmptyUsers`). `None` is Go's nil. The list logic
is kept: overlay by ID, removal by ID, and the nil that removing everybody leaves.

`NodeHandlers`. A user list is a function from IDs to records of a key (the UUID) and a limit (speed
limit, device limit, ACL groups: whatever the kernel is not told). The record `Node` holds the
service's fields, the list the limiter was given, the source of the compiled ACL, and the kernel:
whether a box runs, and with which configuration and identities. Each kernel operation has an outcome
"ok" and, when its name is in `Faulty`, an outcome "failed"; a handler's set of results has one
member per combination of outcomes along its path. A hash is represented by the value hashed.

`NodeService`. One action per case of the select loop, per step of the polling goroutine (request
configuration, request users and decide, deliver, release), per step of setup, and per thing the panel
or the connection may do. Every action carries the whole handler. `pull` is the goroutine with
its captured hash and certificate flag; `skip` is `skipRemaining`; an ETag is the value it stands for,
and the panel answers 304 exactly when they agree. Channels have their capacity as a constant and
drop as the code does: a full `wsEvents` turns the event into a reconciliation request, and a full
`wsStatusCh` drops that.

`TrafficReport`. `lastSeen`, `pending` and `lastAliveHash` are fields of `Tracker` (a hash is the value
hashed), `snap` the addresses of its published snapshot, `counter` and `alive` what `GetUserTraffic` of the
live connection tracker would return. `StartKernel` replaces them; connections of the replaced box drain
with the old tracker (`CarryUnread`). `push` is the report goroutine: its place (`start` before it reads the payload,
`wire`, `taken` when the panel has it and the answer is not back) and its payload. `last` is the report at
shutdown, which does not wait for `push`. `deviceCh` are the device batches in the client's write channel: `DeviceTick` is
`sendDeviceBatch`, which takes the addresses for reported and then finds room for them or not, `DeviceTold` and `LinkLost`
are their ends. `FlushAliveIPs` hands out the tracker's own map, so a device batch and the flush at
shutdown may change the map while the goroutine reads it: `Torn` are the maps it may see then, and `Crash`
is the runtime noticing the concurrent access. History variables, which no code has, are `carried` (bytes that
moved), `billed` and `known` (what the panel was told), `resent` (bytes of reports the panel took and the
node took for failed) and `sure` (nothing was lost since addresses were last flushed, nor two reports of them under way). A node that ended in a crash (`crashed`) does nothing more.

`ConnTracker`. A connection is a record whose `at` is its place in `RoutedConnection`: `routed`, `looked` (the
user map was read), `limited` (it was given its user's device limit), `gated` (the gate has its copy of the addresses), `passed`, `admitted` (`addConn`),
`registered` (`connMap`), `open`, `closing`. Between any two of them everything else may happen. `known` is the
user map and `accepts` the inbounds' users; between `SwapInbounds` and `SetUserMap` they differ. `Found` is what a kick
finds: the registered connections of a user, if the user map has the user. `devlimit` is the limiter's table of device limits,
which every list replaces (`limiter.go:50`). `excused`, `raced` and `crossed` are history: why a connection needs no room,
whether another address came in or the limit changed after its copy, whether it came in during a swap.

`SpeedLimits`. `getting` are the calls to `GetLimiter` between their critical sections, `svc` the service between
`UpdateUsers`, `UpdateBuckets` and the kernel. A connection holds the limiter object: it follows the
bucket while that is in the map and keeps the last rate afterwards. Times of the engine are counted in tracking ticks.

`DataPlane`. A connection asks for its limiter at `registered` and opens when it has it; a list goes to limiter, buckets
and kernel in this order, its device limits with the limits; a kick of the engine is `CloseByUUID`, which goes by the
kernel's list while the engine goes by the limiter's. The kernel's part of a list succeeds here:
when it fails, the service sets the earlier list again, which is another list to all of these.

`XrayDispatcher`. Every atomic operation of `unlimitedIPs` (a `sync.Map` of maps of counters) and every critical
section of `limitedIPs` is a step; a connection remembers what it was counted in.

`AclPolicy`. The compiled form (rules sorted by priority, merged port ranges, per-user lists) next to
`Written`, which reads the configuration by its documentation; `VerdictsAsWritten` compares them for every
connection judged, and `PortsAsListed` a compiled port list with the list of ranges. The merge adds modulo
`MaxPort + 1`.

`Orchestrator`. A handle is a node's goroutine with its context and `done` channel; a pass is a call of `rediscover`
or a timer on its way through `stopNode` and `startNode`, one critical section per step. One node stands for
all: the code treats IDs independently of each other.

`ReloadLoop`. Versions of the file are numbered and good, bad (not loadable) or clashing (loadable, refused at
start). `debounce`, `loading` and `reloadCh` are the three places a version may be on its way; `guard` is the
goroutine that waits for a signal or a failing node.

`XrayKernel`. `inbound` are the users of the newest instance, `drains` those of replaced instances that `closeOld` has not closed,
`unremoved` users whose removal failed in the delta under way, over which `AddUsers` writes another UUID.

`BoxLifecycle`. Configurations are readable or not (`Unparsable`), and usable or not (`Uncreatable`: sing-box reads them, and
`Create` fails after the inbound was removed); what else may fail is the port (`mishaps`).

`NodeCert`. A reload or start that fails leaves the old instance with its old certificate or nothing running, and the handler does
not look (`service.go:1010`): `forgotten` is material that was meant for the kernel and did not get there.

`LocalStats`. A node is a source that registered; the engine's maps go by `IdOf`, which two of them may have in common. A sample
looks at one node after the other (`round`), while nodes come, leave and start their kernels.

`ConfigLayout`. An instance has certificate files, certificate content, both or neither, each inherited by itself; an entry of a
node list may replace kernel and certificate settings, with or without a directory.

`WSClient`, `AccessLog`: each variable says at its declaration what it is of the code.

## Runs

| Run | Question | Bounds |
|---|---|---|
| `mailbox` | are wake-ups, values or deltas lost in some interleaving with drains and late answers, and is it a latest-wins snapshot? | 2 IDs, 1 record, 1 configuration, 1 device map, 1 reader, 2 events, any number of pulls |
| `rest` | does polling alone lose something, or stop? | configurations 1 to 3, of which 2 is refused; 3 panel changes, 2 failed requests, 1 renewal |
| `ws` | do limits, hashes and kernel stay in step under events, polls, reconnects and failing kernel operations? | configurations 1 to 3 (ACL of 2 does not compile, 3 is malformed), all lists over 2 IDs as far as `MCNodeService` gives them, 2 changes, 1 connection, channels of capacity 1; start, reload, update and add may fail |
| `traffic` | is a byte billed twice, lost on the way, or never billed? a record? does the panel know the addresses? does the node follow the panel's switch and notice that its connection is down? | see `MCReports` below |
| `connections` | do counts, limits and verdicts hold while lists, limits and policies change under connections? | see `MCConnections` |
| `process` | do penalties, nodes, saves, renewals and failed starts come to their end in every order? | see `MCProcess` |
| `mailbox_last_removal` | does the removal of the last user arrive? (no) | 2 IDs, 4 events |
| `mailbox_reconcile` | do deltas build on a reconciled list? (no) | 2 IDs, 4 events |
| `no_users` | does a node that was set up without users start when they come? (no) | 2 configurations, 2 changes |
| `lost_config` | is a configuration taken by a later poll after one failed? (no) | 1 change, 1 failed request |
| `traffic_reset` | is a restart of the counters always noticed? (no) | 1 direction |
| `traffic_final` | is everything billed after an orderly shutdown? (no) | 1 direction |

Three runs check a *sum* of specifications. A variable `part` that never changes says which one moves; the others stand
still. They share no variable, so the behaviours of the sum are those of each part with idle neighbours, and
an invariant of a part is violated in the sum exactly when it is in the part. For the fairness to
be satisfiable, a part that stands still is in a state in which none of its fair actions is enabled for
good: a node that has ended (`MCReports`), no policy, an orchestrator and a process that are at their end
(`MCProcess`). `MCConnections` states no fairness.

- `MCReports`: `TrafficReport` (1 user, 1 direction, 1 address, 3 bytes or address changes, 1 restart, 1 failed
  report, room for 1 device batch), `AccessLog` (2 overlapping pushes, a buffer of 1, 2 records, 2 starts of the kernel, 1 fault, 1 change of the
  switch) and `WSClient` (channels of capacity 1, 2 connections, 2 events).
- `MCConnections`: `ConnTracker` alone (1 user with a device limit that changes between none and 1, 2 addresses, 2
  connections), `DataPlane` (the same with 1 connection, speed limits 0 and 1), `XrayDispatcher` (2 connections), `AclPolicy`
  (six configurations, two rosters, ports to 7, so that the merge wraps) and `LocalStats` (1 node) in three slices:
  refusals, dials, generations.
- `MCProcess`: `SpeedLimits` (1 user, 2 calls, limits 0, 1 and 2), `Orchestrator` (2 handles, 2 passes, 2 timers),
  `ReloadLoop` (2 nodes, 1 instance, 3 saves), `NodeCert` (2 ACME configurations, 1 renewal at a time, 3
  certificates), `XrayKernel` (2 IDs, 2 UUIDs, a configuration with a user manager and one without, 1 replaced
  instance open at a time), `BoxLifecycle` (5 configurations on 2 ports, one unreadable and one unusable, 2 lists, 3
  mishaps) and `ConfigLayout` (a file from before there were instances, or of one or two out of seven instances, the first of
  a pair out of four, under a top with a domain or with content, in two environments, replaced by any other).

Why the bounds are enough to be interesting:

- *mailbox*: two events are one before the seed or the mark and one around a drain, or a full list and a delta, each
  with pulls asked, answered and applied before, between and after. Two IDs make an overlay differ from a
  replacement and a removal leave somebody. The two runs that look for a counterexample have four events. One reader, since the machine's WebSocket has one; the proofs cover any number.
- *rest*: an accepted change, a refused one and another accepted one in every order with changes of
  the list; two failures reach every state of the skip counter. The configuration only moves
  forward (`ConfigSteps <- Onward`): a poll compares with the hash its goroutine captured, so if an
  earlier result is applied meanwhile and the panel reverts, the answer is taken for what is held
  and dropped, although its ETag has advanced. `NothingLost` states what holds without such a return.
  The requests that fail are those of the configuration; a failure of the second request does lose
  the first one's answer (run `lost_config`).
- *ws*: two changes and a connection let an event wait in its channel while a poll of either age is
  under way, a second event overflow, the connection drop, and discovery replace the client, with any of
  the kernel operations failing in each. Removals do not fail here, see below.
- *traffic*: users are independent of each other, and two directions of one share a report, a reading and the test
  whether the user has bytes at all; the run has one and the proofs have any. Three bytes put one before the restart and two after it, so
  that the new counter falls short of the last value, meets it and passes it; or one each in the counters, in the
  pending bytes and in a report; or an address that comes, goes and comes again around a push and a device batch. One failure is a
  lost request or a lost answer. Two pushes of access records overlap,
  with a start of the kernel between a setting and its application. Two connections are what it takes for a reader to
  outlive its own.
- *connections*: two connections from two addresses and a limit of one put one in the gate while the other passes it,
  and two from one address share a count. A limit that comes, goes and comes back is changed at every stage of a
  connection and under two addresses that are in. One node for the stats, as their sums over several are beyond the run;
  the theorem is about any number and any IDs. In the plane one connection is enough for its interleavings with lists, penalties and
  kicks; the theorems are about any number. Rules overlap in addresses, names, ports and priorities, default verdicts
  differ, and a policy is swapped while a connection dials.
- *process*: two handles of one node and two passes let a restarted node meet the end of its predecessor; the
  second timer is one of an earlier failure that fires while a later one waits. Three saves put one each in the debounce, in the load and in
  the channel; two nodes on one instance fill `errCh`. Three limits are an old, a new and no limit. Mishaps are a
  start, its answer and the next one failing. One replaced xray instance is open at a time; the theorem is
  about any number.

`CHECK_DEADLOCK FALSE` everywhere: the systems are quiet when the panel has nothing to say and the
bounds are used up, a node that was stopped and a process that ended do nothing.

The properties say:

- `NoLostWakeup`, `EventuallyClean`: the service is woken for whatever is in the mailbox, and takes it;
- `UsersTrackStream`: the rebuilt list is the panel's, unless a delta was refused or an empty list dropped since the last full one;
- `QuietUsersCurrent`: a quiet service holds the panel's list, but for those, for a mailbox whose list is nil, for a list it could
  not take, and for the answer of a pull that newer events had overtaken;
- `ImplementsLatestWins`: the mailbox is a register per kind, drained as one snapshot;
- `DetectionSound`: the hashes updates are compared with are those of what is held, after rollbacks too;
- `LimitsInStep`: limiter and ACL are derived from the list and configuration held;
- `ServesWhatIsHeld`: the kernel serves the configuration held and no identity that is not on the list held;
- `NotLeftStopped`, `StopsOnlyWithoutUsers`: the kernel runs when it can, and no failure takes it down;
- `NothingLost`: what the panel was told by ETag that the node has, the node has;
- `EventuallyConverged`: unless setup failed, the node ends up serving what the panel last had;
- `NoByteTwice`: what is billed, under way, pending and still to be read never exceeds what moved, but for
  reports whose answer was lost, which are sent again; restarts and the second report at shutdown included;
- `NoByteLost`: it is exactly what moved until the kernel is started again or the node has stopped;
- `AddressesKnown`: with no report of addresses under way, the panel knows those the tracker takes for reported, unless there
  are none, one was lost (a failed push, a device batch without room or connection), or two were under way together;
- `EventuallyBilled`: while a kernel that is not restarted runs, everything is billed in the end, reports that fail included;
- `AccessOnce`: a record is in one place once, and one that is missing was refused by a full buffer or went with a failed push;
- `SwitchFollowed`: the tracker logs in the end as the panel wishes, whatever pushes overlap and kernels start;
- `NoStrayReader`: a reader that is still about after its connection is one whose write failed;
- `DownNoticed`: a connection that stays away is noticed, though statuses are dropped, unless a handshake hangs;
- `CountsAgree`: the counts of a user's addresses are those of its connections that are up;
- `ReachedIfListed`: a kick finds every connection of a user on the list, but for those that came in while a list was swapped;
- `LimitedButForExcess`: more addresses than the limit are in only by one of the ways the property's comment lists, of which a
  limit that changed is one, each traced by the model;
- `XSlotsAccounted`, `XCountersAgree`: the same question for xray's two kinds of counters, with the races that break them named;
- `PolicyAsWritten`: verdicts, dials and compiled ports are those of the configuration as written;
- `StatsHonest`: when no two nodes have one ID, windows count nothing twice and an alert is justified; a report shows the last
  span and nothing three spans old;
- `KicksReach`: a kick of the engine, which goes by the limiter's list, collects every connection of its user that is up,
  though the kernel has a list of its own;
- `PenaltyIsEngines`, `BucketsCurrent`, `PenaltyEnds`: see above; a bucket may keep an old limit only if `GetLimiter` read it before the list changed;
- `NoOrphans`, `MailboxUnlessOverlap`, `WantedRuns` of the orchestrator;
- `SettledOnFile`: the nodes run the file's last version once the watcher is quiet, unless the save fell into one of
  three gaps; `StopsOrJams`: an iteration that is told to end does, or waits for a slot in `errCh`;
- `RenewalNoticed`: new material is served, or something that will bring it is under way, or the poll that knew of it failed, or
  the kernel refused it and went on with the old;
- `XrayServesUsers`: the newest inbound accepts whom the kernel believes it serves, and nothing else is accepted once replaced
  instances are closed, but for refused changes, lists taken for served, and UUIDs written over after a failed removal;
- `FailureMended`: a box that runs listens, unless its port was not to be had twice, or the configuration cannot be used and the
  inbound was taken away for such a one or by one mishap;
- `LayoutSound`: a node runs once unless its panel's URL is spelt in two ways, nodes share neither directories nor
  certificates, and an instance keeps its data and gets its certificate as chosen, with every exception named in the module.

## Fairness

Weak fairness of the goroutines that can run: setup, the polling goroutine, the report goroutine, each case of the
select loop that was modelled, the notification, passes, timers and handles of the orchestrator, the main loop and its guard. Go's
scheduler runs every runnable goroutine, requests and waits have timeouts, and tickers keep ticking.

Strong fairness where a `select` has other work that may disable and enable a case again and again: the tracking tick of `SpeedLimits`,
the report tick that ships access records, and the two cases that end a connection in `WSClient`. `select` picks among
ready cases at random, so none that is ready again and again is passed over for ever.

No fairness is assumed of the panel, of users and their connections, of renewals, saves, signals or failures, nor of discovery in
`NodeService`, nor of pulls in `NodeMailbox` and device batches in `TrafficReport`: they may never act. (`EventuallyClean` needs the
service's steps, its wake-up and the reader's send, and nothing else.) A service whose context is done returns (`Return` when cancelled, `Stops`); one that
is not may run for ever.

## Proofs

All theorems hold for any users, lists, configurations, capacities and bounds, under the assumptions named in the
modules (`NoneIsNothing`, `MaxEventsIsNat`, `HandlerConstants`, `ServiceConstants`): nil is not a
value, the special configurations are configurations, capacities are positive.

*Mailbox* (`NodeMailboxProofs`). The inductive invariant is `Inv` in `NodeMailbox`. The
properties alone are not inductive: that the seed does not hide a value needs that before it every
value came from an event and is dirty (`UnseededIsDirty`), and that a full list, even one that deltas made nil, stays dirty
until the seed is past (`FullListDirty`); `UsersTrackStream` needs that the baseline was the panel's list
until an event said otherwise (`BaselineCurrent`); `QuietUsersCurrent` needs that what was drained is held
or the service is behind (`DrainedIsHeld`). From it: `TypeCorrect`, `WakeupNeverLost`, `CleanIsAlwaysSeen`,
`UsersAlwaysTrackStream`, `QuietUsersAlwaysCurrent`, and the refinement `MailboxImplementsLatestWins`.

*Handlers* (first part of `NodeServiceProofs`). One lemma per operator, bottom up from the kernel operations: from a
node that satisfies the invariants of `NodeHandlers`, each result of a handler satisfies them.
The kernel's identities are bounded in two directions at intermediate points (a delta has merged the list
but not yet told the kernel), so the lemmas about `AddUsers` and `RemoveUsers` speak of the list on the way.

*Service* (`NodeServiceProofs`). `IInv` conjoins `TypeOK`, the invariants of the node, what setup has
established, `AtMostOneSkip`, and that no skip is left while a pull is under way, which is what makes
`AtMostOneSkip` inductive. Steps that leave the node alone are dealt with together, and those that run a
handler by its lemma. From it: `TypeCorrect`, `HashesAreCurrent`, `LimitsAreInStep`, `KernelRuns`,
`OnlyHeldUsersAreServed`, `BackoffNeverDoubles`, and the action property `KernelStopsForNoUsers`.

`PollingLosesNothing` is `NothingLost` for a node that only polls (`PollingOnly`), with a panel that never goes back
to an earlier configuration: the panel's moves have a rank that each of them raises (`MovesOn`), which says so of any
set of moves and not just of the run's. The invariant `PollInv` orders the four places a configuration can be in
by that rank: what is held, what the result in the channel makes of it, what was last answered, what the panel has; a
pull under way compares with something no later than the answer (`RanksKept`). With it, an answer that
differs from what the pull knows is later than it, so it is carried and not dropped (`ConfigOnTheWay`,
`UsersOnTheWay`). `NothingLost` is false without any one of the hypotheses, and TLC has a counterexample for each: a
panel that goes back has its answer dropped as unchanged; one on a malformed configuration has the poll
fail after the ETag moved, as a failing second request does; a start that fails in answer to a failed update puts
the earlier list back while the ETag stays; a node that is given no users drops the next list, since it cannot start with
those it has; and with a WebSocket a result fetched before an event is applied after it.

`OnlyHeldUsersAreServed` has the premise that removals do not fail. `applyUserDelta` ignores the error of the
removal that precedes a new UUID, and `AddUsers` skips IDs the kernel still has, so without the premise the old
UUID may go on being served.

*Traffic* (`TrafficReportProofs`). The books of one user and direction are two sums: what is accounted for
(`Accounted`: billed, under way, pending, to be read next) and what is owed (carried and resent). One lemma per
action shows that it keeps the books (`Keeps`) or only loses (`Loses`): a start of the kernel, a byte of a
replaced box and the end of the node lose, and so does the byte that brings a new counter up to the last value
seen, which is the case the guard in `Process` mistakes. `NoByteTwice` and `NoByteLost` alone are not inductive: that a byte is
kept needs that counters have not fallen below the last value (`CountersGrow`), and that nobody reads a
replaced box's bytes needs that only a further start leaves one (`FirstKernel`). From it: `TypeCorrect`
(in particular no delta is negative), `BilledOnce`, `NothingLostOnTheWay`, for any users, addresses, restarts
and failures. `AddressesReported` (`AddressesKnown`) needs where the addresses are while the panel does not have them: in
the push under way or last in the device channel, and never in both (`AddressesKept`).

*Access records* (in the same module). `RecordsAccountedFor` (`AccessOnce`) is about a sum over three kinds of places:
each step takes a record from one place and puts it in another, which the lemmas say for a set and one
element (`CountAfter`). By itself `AccessOnce` does not exclude that the next record to be made is one
already lost, so `AccessInv` adds that what was dropped or failed was produced.

*WebSocket client* (in the same module). `ReadersAccountedFor` (`NoStrayReader`) says where `Run` is when a reader may
be left over; `WSInv` says of every reader that it belongs to the connection being read or is orphaned, that `writeCh` exists in
the select loop only, and that nothing was read of a connection that has not been made.

*Data plane* (`DataPlaneProofs`). The set of connections is finite and the rest is arbitrary. `CountsAgree` is inductive with
the types: each step either leaves every set of holders alone (`ShutAlike`, the steps on the way in) or adds or
removes one connection. That no count goes below zero, which the type claims, follows from it and not the
other way round, so types and counts are proved together (`TrackerInv`). `ReachedWhileListed` (`ReachedIfListed`) needs what holds of a connection
before it is registered: one that was not there during a swap was accepted from the list its lookup will find
(`ReachInv`). `PenaltyIsEngines` and `BucketsCurrent` need that a call of `GetLimiter` which has read the current list
knows its limit (`ReadCurrent`), and that whoever is penalized and not released is throttled in the
next cycle too (`CycleSound`). `KicksReachConnections` (`KicksReach`) ties three things together (`KickInv` and the two invariants before): while there is somebody to kick no list is on its way,
outside of that the kernel knows the users of the limiter's list, and each connection is registered under the user it was
looked up as.

`DevicesLimited` (`LimitedButForExcess`) needs what a connection on its way in knows (`Roomed`): until another address of
its user is added, the copy in the gate contains all addresses counted, so that past the gate there is still room,
or the connection needs none. A change of the limits is harmless for those it leaves alone, and one of the ways that the property
excepts for the others (`raced`, `Overfull`); every other step only takes addresses away or is one of those ways.

*Kernels* (`KernelProofs`). `InboundMended` (`FailureMended`) needs that a box was made from a configuration it can use (`Usable`) and that
a start under way for a deaf box has met one mishap already, or its configuration is the unusable one the inbound was taken
away for (`OnceTaken`). `XrayUsersServed` (`XrayServesUsers`) needs that a stopped kernel has an empty inbound (`ClosedAll`) and
that only protocols without a user manager fail to remove (`OnlyRestarts`).
`SlotsCounted` (`XSlotsAccounted`) and `CountersCounted` (`XCountersAgree`) are proved together (`XInv`), since a connection that closes
releases a counter or a slot by what it finds and not by what it took: a slot's holder whose user was never entered as
unlimited finds none. `XFound` says that the counter a connection has found is in the map or known to be lost.
`RenewalsNoticed` (`RenewalNoticed`) needs that an idle worker holds no renewal back (`NothingHeldBack`).

*Orchestrator* (`ProcessProofs`). `NoOrphans` is inductive with the types; `MailboxUnlessOverlap` needs that
while a node runs that was started alone nothing of an earlier one is about (`Alone`), and that a pass that starts a node has its handle (`Begun`).

*Main loop* (in the same module). `SettledOnFile` says where the last version is when the watcher is quiet; the
induction says where it is always (`Traced`), that nothing under way is later than the file (`NoneLater`), that
what is under way is later than what runs (`UnderWayIsLater`), and that between iterations nothing is (`GapIsClear`).

*Configuration files* (in the same module). `LayoutsAreSound` (`LayoutSound`) holds for any set of well-formed files. The
invariant is short, that what runs was loaded and may be started; the work is in following a setting from the file to the nodes,
one lemma per stage (`InheritedFields`, `OverriddenFields`, `NamedFields`, `PlacedFields`, then `Comes`), and in telling
directories apart by their last parts. The attempt showed exceptions that the property did not name, since
none of the run's files needed them: standalone instances, which run no node of a panel; directories of listed nodes and
of certificates that the file itself gives; and a directory that the earlier file gave. They are in the property
now.

*Access control* (`AclPolicyProofs`). `PoliciesAreAsWritten` (`PolicyAsWritten`) says that the program, which sorts, merges, searches and
takes the first match, decides like the text of the configuration, for any configurations, user lists, destinations and order of swaps,
verdicts and dials. The invariant over states is short (`AclInv`): what is in force was compiled from what was applied, and each
connection has the verdict of what was applied when it was judged (`FlowAsWritten`). The work is in the functions:

- `Arranged` is a choice, so that there is an order to choose needs `CanBeArranged`, and that nothing gets lost in it `ArrangedHasAll`;
- a fold and the search are recursive functions, of which it has to be shown that they exist (`FoldDefined`, `HalfDefined`) before they can
  be unfolded (`MergeIsFold`, `RulesInTurn`);
- ports (`PortsCompiled`): merged ranges cover what was listed and rise; that their upper ends rise too, which the search relies on
  (`SearchFinds`), fails just when a range that reaches the largest port is followed by one that lies in it, for then the sum wraps. Hence
  `PortsMatch`: a compiled list never matches more than was listed, and less only for `Wraps`;
- rules (`PolicyLists`, from `OneGroupMore`): a policy lists the rules of the user's groups in the order of `Key`, and in that order no two
  rules are equal (`KeysDiffer`), so the first match is the written one (`Decides`);
- addresses (`DecidedAsWritten`): refused is what no address of is allowed, and what remains to dial is allowed, internal addresses first.

*Local stats* (`LocalStatsProofs`). `StatsAreHonest` (`StatsHonest`) is about nodes that have IDs of their own (`OwnIds`), however they
come and go within a sample and in whatever order the sample goes through them; then a node is alone in its views (`OwnViews`,
`OwnDials`). It compares sums: the engine adds what it found at each of the
nodes and keeps it for a window of samples, the property adds what happened. What the engine finds on a node is right
because of an order between three counts, the node's now, the one last seen and what happened in between: a count
that is not smaller than the last one has grown by no more than what happened, a smaller one is all new
(`RefusalsFollowed`, `DialsFollowed`), and while no kernel was started again the difference is exact (`ExactlyFollowed`).
`SamplesHold` then says sample by sample what the windows hold against what happened, and the totals follow by
summing rows in one order and columns in the other (`SumSwapped`). For access records `Spans` says which ages each
generation may hold, and that no record of the last span is in neither.

A sum is a fold, so its lemmas need induction over finite sets. The library's induction theorems cannot be
used (their hypothesis is an operator), but its theorem that a well-founded relation has least elements can: `BySize` takes a
subset of least cardinality that is not in a given set of subsets, and `OneByOne` follows. Properties are
given to them as sets.

The assumptions are those named in the modules (`BaseConstants`, `SpeedConstants`, `OrchestratorConstants`, `BoxConstants`,
`XrayKernelConstants`, `StrayConstant`, `CertConstants`, `TrafficConstants`, `AccessConstants`, `WSClientConstants`, `ReloadConstants`,
`LayoutConstants`, `LocalStatsConstants`, `AclConstants`): nil is not a value (not an address, a count, a result, a policy or a channel's length), sets that are counted are finite, a
file is a sequence of records with the fields of an instance, an ACL configuration one with the fields of the code's, a destination has
a name or an address, the
penalty rate is none of the users' limits. The last is a choice of the model, which tells penalty and limit apart by their rate.

*Only model-checked:* the liveness properties (`EventuallyClean`, `EventuallyConverged`, `EventuallyBilled`, `SwitchFollowed`,
`DownNoticed`, `PenaltyEnds`, `WantedRuns`, `StopsOrJams`), since liveness under fairness is beyond the prover. Every other
property of a passing run is stated by a theorem.

## What the models leave out

Not modelled at all, see `PROJECT.json` for each: the standalone control plane, which has no state that changes; the
configuration builders of both kernels, pure translations of a configuration whose output is one value here; system monitor, logging, geo data, `xbctl`
and the installer, which are input and output of one-shot commands.

Of what is modelled:

- `NodeService`: shutdown (the last report is in `TrafficReport`, the end of a node in `Orchestrator` and `ReloadLoop`) and machine mode's
  mailbox inside the select loop: `NodeMailbox` models the same service from the mailbox's side, with handlers reduced to "the list is
  taken or not". The metrics change no state of the node; the device batches over WebSocket are in `TrafficReport`. The time a WebSocket was down: discovery
  may find it long enough whenever it is down. `appliedState` is written and never read.
- `NodeHandlers`: whether an ACL compiles is taken to depend on the configuration (`AclPolicy` has the compilation); a
  configuration is refused or not (`Invalid`), while `validateNodeRuntime` also looks at the certificate. Remote overrides.
- `NodeMailbox`: the backoff of pulls, so that any may be skipped, and ETags, so that any answer may be of no effect.
- `TrafficReport`: users that are added, removed or given another ID (counters are there for every user); the size
  of a read or write, one byte here; the online counts and metrics of a report; collisions of the address hash. The kernel
  is sing-box.
- `ConnTracker`: the verdict of the policy (`AclPolicy` has it); the minute after which a device list is stale is any time.
- `SpeedLimits`: bursts, and the measurement of speed: any set of users may be hot in a cycle.
- `XrayKernel`: limits and traffic; what xray-core's user manager does is taken from how `xray.go` uses it.
- `BoxLifecycle`: the tracker, rules and limits of a box, and deltas, which are applied like lists.
- `XrayDispatcher`: UDP connections are admitted like TCP ones and not counted, as in the code; the links' payload.
- `AclPolicy`: names and suffixes are members of sets, addresses are numbers, DNS answers are given with the destination;
  the resolver's reload.
- `NodeCert`: what certmagic, the certificate authority and PEM parsing do inside.
- `WSClient`: lengths of waits, pings (a pong goes the way of a report), events that cannot be read.
- `AccessLog`: the self-update an answer may ask for, which ends the process, and kicks, which are `PanelKick` of `DataPlane`.
- `Orchestrator`: the machine's own status reports and WebSocket, the intervals, the doubling of delays.
- `ReloadLoop`: health server and runtime limits. `ConfigLayout`: settings that are only handed on.
- `LocalStats`: the surge detector's averages, caps of the lists, and what the handlers show.

Of the modelled state only certificates are persisted, so a crash is the end of the state; `NodeCert` begins with what may be on
disk, and counters that start again with the kernel are in `TrafficReport` and `LocalStats`.

## Disagreements found

Each is a run that TLC finds violated (`findings` in `PROJECT.json` has the quotations).

1. `mailbox_last_removal`: a delta that removes the last user leaves a nil list, which `handleWSEvent` ignores.
   The service goes on serving the removed user.
2. `mailbox_reconcile`: the answer of a reconciliation reaches the service and not the mailbox; the next
   delta is folded into the older list and undoes it.
3. `no_users`: a node set up without users never starts, since `applyUserUpdate` gives up a list when
   `ensureRunning`, which looks at the users held so far, cannot start.
4. `lost_config`: `GetConfig` stores the ETag before the poll's second request, whose failure drops the configuration.
5. `traffic_reset`: the tracker takes counters for new only when they are smaller than the last value. A user
   who moves more after a restart than was seen before it, between two ticks, is billed the difference only.
6. `traffic_final`: the last report flushes what is pending and does not read the counters first.

Noticed on the way, without a run of their own.

*Service and reports.* `wsResyncPending` is cleared only by a result, so a reconciliation
whose poll failed blocks later requests for one; the renewal flag is swapped when a poll starts and lost when
it fails; polls are not made at all while the WebSocket is up (`service.go:255`); the mailbox has no case for
`kick.user`; the final report at shutdown is not put back when it fails and shares its address map
with a report under way, and so does every device batch; a batch moves `lastAliveIPsHash` on and is then dropped when the write
channel is full or the connection gone (`ws.go:494`), so neither way reports those addresses again until they change; the client drops
a `sync.users` without users (`ws.go:424`), so a node whose panel has removed everybody keeps them all until it polls; the answer
of a pull may undo events that came after its request (`service.go:261`); a failed report's addresses are not sent again until they change
(`RestoreAliveIPs` merges a buffer into itself), and that nobody is connected any more is never reported, since
empty maps are left out.

*Kernels.* `kernel.go:73` says that active connections of removed users are terminated: `RemoveUsers` of sing-box ends none, and
once the user map has lost the user, kicks do not find them either (`conntracker.go:811`). `applyUserDelta` does not look at the
error of a removal (`service.go:889`). xray: an instance that is replaced serves its connections, and accepts its users, for up to
five minutes (`xray.go:738`), removed users among them; a user whose UUID changed under its ID is added and not removed, so the user manager refuses it and
the old UUID goes on working (`kernel.go:148-170`, `xray.go:523`); `Reload` compares with the hash of the last
`Start` only, so after deltas that went back and forth removed users may stay served (`xray.go:195-203`); the instance listens before
limits and ACL are armed, although the comment at `xray.go:168` says they are re-armed before traffic. Its dispatcher can write
to a nil map when limits are replaced at the wrong moment (`dispatcher.go:429`), and a user who was ever
unlimited keeps slots taken, since `delConn` looks for it in `unlimitedIPs` first. sing-box: connections accepted between the start of a box
(`singbox.go:180`) and `registerTracker` (`:209`) are not tracked; a configuration that parses and that `Create` refuses (`singbox.go:353`: a cipher, a key) costs the
inbound, since the old one has been removed, and the start that answers fails alike; such a reload and start leave a node without an inbound
that counts as running, and the configuration, whose hash is kept, is not tried again.

*Access records.* A failed push loses what it drained; overlapping pushes may apply the panel's switch in any order, which the next push
mends; the buffer of a replaced tracker is never drained; `globalSelfUpdate` stays set when a launched upgrade fails.

*WebSocket.* There is no read deadline, so `connect` may wait in a handshake for ever, where it ignores its context; on cancellation
`<-done` waits without a deadline; `writeCh` is read and replaced without a lock; a reader whose connection
ended by a failed write may deliver an event after the next connection was made.

*Orchestrator.* The goroutine of a stopped node unregisters by ID and takes the mailbox of its successor away
(`machine.go:205`); until the next restart that node gets no events.

*Main loop.* `errCh` has one slot per instance and every node sends: a second node that fails blocks for good, and with it the end of
the process, which then ignores SIGTERM as well (`main.go:201`). A SIGTERM during a reload may be lost. A layout error in a hot reload
ends the process, although `watcher.go:27` says invalid reloads are ignored.

*Configuration.* Nodes of one list share the instance's `cert_dir`, and `config_dir` too when a kernel setting of a node leaves it
out. Going from one instance to two moves the first one's data. Bindings compare URLs as they are spelt, while IDs
normalise them, so a node can run twice. `inheritFrom` asks whether an instance has certificate settings after it has inherited some; it fills in the top's certificate
content next to an instance's own files (`config.go:542`), and `resolveMode` prefers content (`cert.go:235`), so the instance gets the
top's certificate. The comment at `config.go:157` puts files before `auto_tls`, `resolveMode` the other way round.

*Certificates.* A renewal is forgotten when the poll that took the flag fails, and when reload and start both fail and the old
instance goes on with the old certificate, since nobody looks (`service.go:1010`); the flag is not looked at while the WebSocket is up;
a late renewal of a client that was torn down may overwrite newer material; self-signed and pasted modes reuse the PEM of the mode before.

*Local stats.* Emptying `rejPrev` (above 20000 entries) counts old refusals again; the comment in `access.go` speaks of the last 12 to 24
hours while up to almost 36 are merged; a node's ID is the panel's (`service.go:1763`), so nodes of different panels with equal IDs share
their entries, each takes the other's counters for a restart, and refusals and dials are counted again in every sample.

## Plan

Done: all components with a state of their own, and proofs of every safety property of the runs. Next, in this order:

1. `NothingLost` with a WebSocket: which of its hypotheses can be replaced by an order of results and events.
2. Composition of `NodeMailbox` with `NodeHandlers`, to state in machine mode what `ws` states in panel mode.
3. `DataPlane` with a kernel operation that fails between limiter and inbounds.
4. Connection health of the HTTP client, and remote overrides.
