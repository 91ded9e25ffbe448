---------------------------- MODULE TrafficReport -----------------------------
(***************************************************************************)
(* How bytes reach the panel: the kernel's connection tracker counts them  *)
(* (internal/kernel/singbox), the tracking tick turns counters into        *)
(* deltas (internal/tracker), the report tick flushes the deltas into a    *)
(* push of its own goroutine, and a push that fails puts them back         *)
(* (internal/service/service.go).  The node's last report does not wait    *)
(* for the push under way.  Addresses have a second way to the panel: the  *)
(* device tick flushes them from the same buffer, and takes them for       *)
(* reported by the same hash, into a message of the WebSocket client,      *)
(* which may drop it (internal/panel/ws.go).                               *)
(*                                                                         *)
(* A read or a write moves one byte.  Users are there from the beginning.  *)
(***************************************************************************)
EXTENDS Naturals, Sequences

CONSTANTS
    Users, Dirs, Addrs,
    None,        \* FlushAliveIPs returned nil
    MaxDoings,   \* bounds of the model: bytes that move and changes of the addresses
                 \* users are connected from,
    MaxRestarts, \* starts of the kernel after the first,
    MaxFailures, \* and reports that fail
    DeviceCap    \* device reports the write channel of the WebSocket client holds

Flow     == [Users -> [Dirs -> Nat]]
AddrMaps == [Users -> SUBSET Addrs]
Report   == [traffic : Flow, alive : AddrMaps \union {None}]

ASSUME TrafficConstants ==
    /\ None \notin AddrMaps
    /\ MaxDoings \in Nat /\ MaxRestarts \in Nat /\ MaxFailures \in Nat /\ DeviceCap \in Nat

VARIABLES
    counter,       \* bytes counted by the live connection tracker
    alive,         \* addresses it has users connected from
    running,       \* the kernel runs
    draining,      \* a replaced box still carries connections
    fresh,         \* history: the counters were not read since they are new
    carried,       \* history: bytes that moved
    lastSeen, pending, snap, lastAliveHash,   \* Tracker; a hash is what is hashed
    push,          \* the report goroutine and its payload
    skip,          \* pushBackoff.skipRemaining
    deviceCh,      \* device reports in the WebSocket client's write channel, or on the wire
    sure,          \* history: no report of addresses was lost since they were last flushed,
                   \* nor was another one under way then
    phase, last,   \* how far the node is with its end, and its last report
    billed, known, \* what the panel was told
    resent,        \* history: bytes the panel took and the node took for lost
    bytes, moves, restarts, failures

kernel  == <<counter, alive, running, draining, fresh, carried>>
tracker == <<lastSeen, pending, snap, lastAliveHash>>
device  == <<deviceCh, sure>>
panel   == <<billed, known>>
bounds  == <<bytes, moves, restarts, failures>>
vars    == <<kernel, tracker, push, skip, device, phase, last, panel, resent, bounds>>

Zero   == [u \in Users |-> [d \in Dirs |-> 0]]
Nobody == [u \in Users |-> {}]
Idle   == [at |-> "idle", traffic |-> Zero, alive |-> None]
Plus(a, b) == [u \in Users |-> [d \in Dirs |-> a[u][d] + b[u][d]]]

TypeOK ==
    /\ counter \in Flow /\ alive \in AddrMaps
    /\ running \in BOOLEAN /\ draining \in BOOLEAN /\ fresh \in BOOLEAN
    /\ carried \in Flow /\ resent \in Flow
    /\ lastSeen \in Flow /\ pending \in Flow
    /\ snap \in AddrMaps /\ lastAliveHash \in AddrMaps
    /\ push \in [at : {"idle", "start", "wire", "taken"}, traffic : Flow,
                 alive : AddrMaps \union {None}]
    /\ skip \in Nat
    /\ deviceCh \in Seq(AddrMaps) /\ sure \in BOOLEAN
    /\ phase \in {"run", "final", "stopped", "crashed"} /\ last \in Report
    /\ billed \in Flow /\ known \in AddrMaps
    /\ bytes \in Nat /\ moves \in Nat /\ restarts \in Nat /\ failures \in Nat

\* The kernel runs when the tickers start.
InitAt(where) ==
    /\ counter = Zero /\ alive = Nobody /\ carried = Zero /\ resent = Zero
    /\ running = TRUE /\ draining = FALSE /\ fresh = FALSE
    /\ lastSeen = Zero /\ pending = Zero /\ snap = Nobody /\ lastAliveHash = Nobody
    /\ push = Idle /\ skip = 0 /\ deviceCh = <<>> /\ sure = TRUE
    /\ phase = where /\ last = [traffic |-> Zero, alive |-> None]
    /\ billed = Zero /\ known = Nobody
    /\ bytes = 0 /\ moves = 0 /\ restarts = 0 /\ failures = 0

Init == InitAt("run")

-----------------------------------------------------------------------------
(***************************************************************************)
(* The kernel.                                                             *)
(***************************************************************************)
Moves(u, d) ==
    /\ bytes + moves < MaxDoings /\ bytes' = bytes + 1
    /\ carried' = [carried EXCEPT ![u][d] = @ + 1]
    /\ UNCHANGED <<alive, running, draining, fresh, tracker, push, skip, device, phase,
                   last, panel, resent, moves, restarts, failures>>

Carry(u, d) ==
    /\ running
    /\ counter' = [counter EXCEPT ![u][d] = @ + 1]
    /\ Moves(u, d)

\* Connections of a replaced box are counted by its tracker, which nobody reads.
CarryUnread(u, d) ==
    /\ draining
    /\ UNCHANGED counter
    /\ Moves(u, d)

Drained ==
    /\ draining /\ draining' = FALSE
    /\ UNCHANGED <<counter, alive, running, fresh, carried, tracker, push, skip, device, phase,
                   last, panel, resent, bounds>>

\* An address gets its first connection, or loses its last one.
Devices ==
    /\ running /\ bytes + moves < MaxDoings /\ moves' = moves + 1
    /\ \E u \in Users, a \in Addrs :
         \E s \in {alive[u] \union {a}, alive[u] \ {a}} : alive' = [alive EXCEPT ![u] = s]
    /\ UNCHANGED <<counter, running, draining, fresh, carried, tracker, push, skip, device,
                   phase, last, panel, resent, bytes, restarts, failures>>

\* The select loop takes a case.
Service == phase = "run" /\ UNCHANGED <<phase, last>>

\* A start brings a tracker of its own; a box that was running is left to drain.
StartKernel ==
    /\ Service /\ restarts < MaxRestarts /\ restarts' = restarts + 1
    /\ counter' = Zero /\ alive' = Nobody /\ fresh' = TRUE
    /\ running' = TRUE /\ draining' = (running \/ draining)
    /\ UNCHANGED <<carried, tracker, push, skip, device, panel, resent, bytes, moves, failures>>

StopKernel ==
    /\ Service /\ running
    /\ running' = FALSE /\ alive' = Nobody
    /\ UNCHANGED <<counter, draining, fresh, carried, tracker, push, skip, device, panel, resent,
                   bounds>>

-----------------------------------------------------------------------------
(***************************************************************************)
(* The tracking tick.                                                      *)
(***************************************************************************)
\* Users whose counters are both zero are not in the map the kernel returns.
Counted(u) == \E d \in Dirs : counter[u][d] > 0

\* A counter that is smaller than the last value was reset.
Deltas ==
    [u \in Users |-> [d \in Dirs |->
        IF counter[u][d] < lastSeen[u][d] THEN counter[u][d]
                                          ELSE counter[u][d] - lastSeen[u][d]]]

\* Mutant of Seen: the largest value seen is kept.
SeenMost ==
    [u \in Users |-> [d \in Dirs |->
        IF counter[u][d] > lastSeen[u][d] THEN counter[u][d] ELSE lastSeen[u][d]]]

Seen == [u \in Users |-> IF Counted(u) THEN counter[u] ELSE lastSeen[u]]

Track ==
    /\ Service /\ running
    /\ pending' = Plus(pending, Deltas)
    /\ lastSeen' = Seen
    /\ snap' = alive
    /\ fresh' = FALSE
    /\ UNCHANGED <<counter, alive, running, draining, carried, lastAliveHash, push, skip, device,
                   panel, resent, bounds>>

-----------------------------------------------------------------------------
(***************************************************************************)
(* The report tick and its push.                                           *)
(***************************************************************************)
Flushed == [traffic |-> pending, alive |-> IF snap = lastAliveHash THEN None ELSE snap]

\* FlushTraffic and FlushAliveIPs.  A push of addresses is sure to bring them, unless it
\* fails, when no device report is to follow it.
Flush ==
    /\ pending' = Zero /\ lastAliveHash' = snap
    /\ sure' = IF snap = lastAliveHash THEN sure ELSE deviceCh = <<>>
    /\ UNCHANGED <<lastSeen, snap, deviceCh>>

\* Mutant of ReportTick: what there is to report is taken before the guards.
FlushFirst ==
    /\ Service /\ Flush
    /\ IF push.at # "idle" \/ skip > 0
       THEN /\ skip' = IF push.at = "idle" THEN skip - 1 ELSE skip
            /\ UNCHANGED push
       ELSE /\ push' = [at |-> "start", traffic |-> Flushed.traffic, alive |-> Flushed.alive]
            /\ UNCHANGED skip
    /\ UNCHANGED <<kernel, panel, resent, bounds>>

ReportTick ==
    /\ Service /\ push.at = "idle"
    /\ IF skip > 0
       THEN skip' = skip - 1 /\ UNCHANGED <<push, tracker, device>>
       ELSE /\ push' = [at |-> "start", traffic |-> Flushed.traffic, alive |-> Flushed.alive]
            /\ Flush /\ UNCHANGED skip
    /\ UNCHANGED <<kernel, panel, resent, bounds>>

\* Client.Report reads the maps it was given.
PushSends ==
    /\ push.at = "start"
    /\ push' = [push EXCEPT !.at = "wire"]
    /\ UNCHANGED <<kernel, tracker, skip, device, phase, last, panel, resent, bounds>>

\* An empty map is left out of the request.
Told(r) ==
    /\ billed' = Plus(billed, r.traffic)
    /\ known' = IF r.alive \in {None, Nobody} THEN known ELSE r.alive

PanelTakes ==
    /\ push.at = "wire" /\ Told(push)
    /\ push' = [push EXCEPT !.at = "taken"]
    /\ UNCHANGED <<kernel, tracker, skip, device, phase, last, resent, bounds>>

PushSucceeds ==
    /\ push.at = "taken"
    /\ push' = Idle /\ skip' = 0
    /\ UNCHANGED <<kernel, tracker, device, phase, last, panel, resent, bounds>>

OnFailure == skip' = IF skip = 0 THEN 1 ELSE IF skip < 8 THEN 2 * skip ELSE skip

RestoreTraffic == pending' = Plus(pending, push.traffic)

\* The addresses go back into a buffer that the next change of addresses clears; what
\* counts as reported stays what it is.
RestoreAliveIPs == UNCHANGED lastAliveHash

\* Mutant of Restore: pushActive stays set.
RestoreActive ==
    /\ RestoreTraffic /\ RestoreAliveIPs /\ OnFailure
    /\ push' = [Idle EXCEPT !.at = "stuck"]
    /\ UNCHANGED <<lastSeen, snap>>

Restore ==
    /\ RestoreTraffic /\ RestoreAliveIPs /\ OnFailure
    /\ push' = Idle
    /\ UNCHANGED <<lastSeen, snap>>

\* The request is lost before the panel has it, or the answer after.
PushFails ==
    /\ push.at \in {"wire", "taken"}
    /\ failures < MaxFailures /\ failures' = failures + 1
    /\ Restore
    /\ resent' = IF push.at = "taken" THEN Plus(resent, push.traffic) ELSE resent
    /\ sure' = (sure /\ (push.at = "taken" \/ push.alive = None))
    /\ UNCHANGED <<kernel, deviceCh, phase, last, panel, bytes, moves, restarts>>

\* The goroutine does not know that its node has ended, only the end of the process ends it.
Push == phase # "crashed" /\ (PushSends \/ PanelTakes \/ PushSucceeds \/ PushFails)

-----------------------------------------------------------------------------
(***************************************************************************)
(* Flushes under a push.  FlushAliveIPs hands out the tracker's own map: a *)
(* device report or the last report changes it while the push under way    *)
(* may be reading it, and reads it while a push that failed puts addresses *)
(* back.                                                                   *)
(***************************************************************************)
Flushing == snap # lastAliveHash
Racing   == push.at = "start" /\ push.alive # None /\ Flushing

\* What the push may find: for each user the old addresses, none, or the new ones.
Torn ==
    IF Racing THEN {a \in AddrMaps : \A u \in Users : a[u] \in {push.alive[u], {}, snap[u]}}
              ELSE {push.alive}

Tears == \E a \in Torn : push' = [push EXCEPT !.alive = a]

\* The push has addresses for the panel.
Carrying == push.at \in {"start", "wire"} /\ push.alive # None

\* Room for one more: pongs and node status share the channel, which may be full of them.
Queues(devices) == Len(deviceCh) < DeviceCap /\ deviceCh' = Append(deviceCh, devices)

\* sendDeviceBatch, with the client connected; FlushAliveIPs takes them for reported
\* before the client finds out whether there is room, or a connection still.
DeviceTick ==
    /\ Service /\ Flushing /\ Tears
    /\ lastAliveHash' = snap
    /\ \/ Queues(snap) /\ sure' = ~Carrying
       \/ UNCHANGED deviceCh /\ sure' = FALSE
    /\ UNCHANGED <<kernel, lastSeen, pending, snap, skip, panel, resent, bounds>>

DeviceTold ==
    /\ phase = "run" /\ deviceCh # <<>>
    /\ known' = Head(deviceCh) /\ deviceCh' = Tail(deviceCh)
    /\ UNCHANGED <<kernel, tracker, push, skip, sure, phase, last, billed, resent, bounds>>

\* The connection ends, and with it the channel of its own.
LinkLost ==
    /\ phase = "run" /\ deviceCh # <<>>
    /\ deviceCh' = <<>> /\ sure' = FALSE
    /\ UNCHANGED <<kernel, tracker, push, skip, phase, last, panel, resent, bounds>>

-----------------------------------------------------------------------------
(***************************************************************************)
(* The end of the node.                                                    *)
(***************************************************************************)
FinalFlush ==
    /\ phase = "run" /\ phase' = "final"
    /\ last' = Flushed /\ Flush
    /\ Tears
    /\ UNCHANGED <<kernel, skip, panel, resent, bounds>>

\* The kernel stops with its node, and the WebSocket client; what a replaced box or the
\* client's channel still carries is of no account.
Stopped(how) ==
    /\ phase' = how /\ deviceCh' = <<>> /\ sure' = FALSE
    /\ running' = FALSE /\ draining' = FALSE /\ alive' = Nobody
    /\ UNCHANGED <<counter, fresh, carried, lastSeen, push, skip, last>>

\* The runtime may notice two goroutines in one map, which ends the process.
Crash ==
    /\ push.at # "idle" /\ push.alive # None
    /\ \/ phase = "run" /\ Flushing
       \/ phase = "final" /\ last.alive # None
    /\ Stopped("crashed")
    /\ UNCHANGED <<pending, snap, lastAliveHash, panel, resent, bounds>>

FinalTaken ==
    /\ phase = "final" /\ Told(last) /\ Stopped("stopped")
    /\ UNCHANGED <<pending, snap, lastAliveHash, resent, bounds>>

FinalFails ==
    /\ phase = "final" /\ Stopped("stopped")
    /\ failures < MaxFailures /\ failures' = failures + 1
    /\ UNCHANGED <<pending, snap, lastAliveHash, panel, resent, bytes, moves, restarts>>

-----------------------------------------------------------------------------
Next ==
    \/ \E u \in Users, d \in Dirs : Carry(u, d) \/ CarryUnread(u, d)
    \/ Drained \/ Devices \/ StartKernel \/ StopKernel
    \/ Track \/ ReportTick \/ Push
    \/ DeviceTick \/ DeviceTold \/ LinkLost
    \/ FinalFlush \/ FinalTaken \/ FinalFails \/ Crash

\* Tickers keep ticking, the select loop picks at random among what is ready, and a
\* request ends one way or the other.
Fairness == WF_vars(Track) /\ WF_vars(ReportTick) /\ WF_vars(Push)

Spec == Init /\ [][Next]_vars /\ Fairness

-----------------------------------------------------------------------------
(***************************************************************************)
(* Properties.                                                             *)
(***************************************************************************)
InFlight(u, d) ==
    (IF push.at \in {"start", "wire"} THEN push.traffic[u][d] ELSE 0)
      + (IF phase = "final" THEN last.traffic[u][d] ELSE 0)

Accounted(u, d) == billed[u][d] + InFlight(u, d) + pending[u][d] + Deltas[u][d]

\* However often the kernel starts again and reports fail, what is billed, on its way
\* or yet to be read is never more than what moved, and what was sent twice because an
\* answer was lost.
NoByteTwice == \A u \in Users, d \in Dirs : Accounted(u, d) <= carried[u][d] + resent[u][d]

\* Until the kernel starts again or the node stops, no byte gets lost between counters,
\* deltas, pushes that fail and the panel.
NoByteLost ==
    (restarts = 0 /\ phase \in {"run", "final"}) =>
        \A u \in Users, d \in Dirs : Accounted(u, d) = carried[u][d] + resent[u][d]

\* The first kernel's counters never fall below what was read.
CountersGrow == restarts = 0 => \A u \in Users, d \in Dirs : lastSeen[u][d] <= counter[u][d]

\* With no report of addresses under way, those the tracker takes for reported are the
\* ones the panel knows, unless there are none, which a push does not report.  But for
\* what was lost since they were last flushed: a push that failed, a device report that
\* found no room or no connection, or whose connection ended; or for two reports that were
\* under way together, which may reach the panel in either order.
AddressesKnown ==
    (sure /\ phase = "run" /\ ~Carrying /\ deviceCh = <<>>) =>
        lastAliveHash \in {known, Nobody}

\* With the kernel running on, every byte that was read is billed in the end, whatever
\* failed before.
EventuallyBilled ==
    <>[](phase = "run" /\ running) =>
        <>[](\A u \in Users, d \in Dirs : billed[u][d] = Accounted(u, d))

\* "Guard against counter reset (kernel restart)": the first reading of new counters
\* takes all they show.  It does not.
ResetGuarded ==
    [][(fresh /\ ~fresh' /\ phase' = "run") => pending' = Plus(pending, counter)]_vars

\* "to ensure final data is sent": with no failure and no start in between, an orderly
\* shutdown leaves nothing unbilled.  It does.
FinalDataSent ==
    (phase = "stopped" /\ failures = 0 /\ restarts = 0 /\ push.at = "idle") =>
        \A u \in Users, d \in Dirs : billed[u][d] = carried[u][d]
=============================================================================
