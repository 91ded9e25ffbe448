----------------------------- MODULE ConnTracker ------------------------------
(***************************************************************************)
(* The connection tracker of the sing-box kernel                           *)
(* (internal/kernel/singbox/conntracker.go) and the user list its inbounds *)
(* accept (singbox.go).  sing-box calls RoutedConnection for every         *)
(* connection, each on a goroutine of its own; the service's goroutine     *)
(* swaps the user list and closes the connections of users; the limiter's  *)
(* device limits change, and the panel's device lists come and expire.     *)
(*                                                                         *)
(* A connection whose goroutine is done is "free" and stands for the next  *)
(* one.  TCP and UDP connections go through the same steps.                *)
(***************************************************************************)
EXTENDS KernelBase

VARIABLES
    accepts,   \* users the inbounds accept
    known,     \* users of uuidMap, each with its userStats
    swapping,  \* the inbounds have the next list, uuidMap has not
    ips,       \* userStats.ips: how many connections each address of a user has
    refs,      \* connMap: the user of each registered connection, None for ID 0
    devlimit,  \* what the limiter says of a user's device limit, 0 if nothing
    devices,   \* addresses the panel says a user has anywhere, while fresh
    shutting,  \* sockets CloseByUUID has collected and not closed yet
    conn,      \* the connections
    excess     \* history: addresses that got in past the device limit

tracker == <<accepts, known, swapping, ips, refs, devlimit, devices, shutting, conn, excess>>

Stages == {"free", "routed", "looked", "limited", "gated", "passed", "admitted", "registered",
           "open", "closing"}

\* limit and seen are locals of the gate; excused, raced and crossed are history.
ConnState == [at : Stages, user : Users \union {None}, addr : Addrs \union {None},
              tracked : BOOLEAN,       \* its user has a userStats
              limit : DeviceLimits,    \* its user's device limit as the gate was given it
              seen : SUBSET Addrs,     \* addresses of the user when the gate looked
              excused : BOOLEAN,       \* it needs no room: see LimitedButForExcess
              raced : BOOLEAN,         \* another address was added since, or the limit changed
              crossed : BOOLEAN,       \* a list was swapped between accept and lookup
              shut : BOOLEAN]          \* its socket is closed

Free == [at |-> "free", user |-> None, addr |-> None, tracked |-> FALSE, limit |-> 0, seen |-> {},
         excused |-> FALSE, raced |-> FALSE, crossed |-> FALSE, shut |-> FALSE]

\* The stages in which a tracked connection is counted in ips.
Counted == {"admitted", "registered", "open"}
Holding(c) == conn[c].at \in Counted /\ conn[c].tracked

Local(u) == {a \in Addrs : ips[u][a] > 0}

TrackerTypeOK ==
    /\ accepts \subseteq Users /\ known \subseteq Users /\ swapping \in BOOLEAN
    /\ ips \in [Users -> [Addrs -> Nat]]
    /\ refs \in [Conns -> Users \union {None, "absent"}]
    /\ devlimit \in [Users -> DeviceLimits]
    /\ devices \in [Users -> SUBSET Addrs]
    /\ shutting \subseteq Conns
    /\ conn \in [Conns -> ConnState]
    /\ excess \in [Users -> SUBSET Addrs]
    /\ \A c \in Conns : conn[c].at # "free" => conn[c].user \in Users /\ conn[c].addr \in Addrs

TrackerInit ==
    /\ accepts = {} /\ known = {} /\ swapping = FALSE
    /\ ips = [u \in Users |-> [a \in Addrs |-> 0]]
    /\ refs = [c \in Conns |-> "absent"]
    /\ devlimit = [u \in Users |-> 0]
    /\ devices = [u \in Users |-> {}]
    /\ shutting = {}
    /\ conn = [c \in Conns |-> Free]
    /\ excess = [u \in Users |-> {}]

-----------------------------------------------------------------------------
(***************************************************************************)
(* The user list: the inbounds take it first, uuidMap follows.             *)
(***************************************************************************)
SwapInbounds(S) ==
    /\ ~swapping
    /\ swapping' = TRUE
    /\ accepts' = S
    /\ conn' = [c \in Conns |-> IF conn[c].at = "routed" THEN [conn[c] EXCEPT !.crossed = TRUE]
                                                         ELSE conn[c]]
    /\ UNCHANGED <<known, ips, refs, devlimit, devices, shutting, excess>>

\* The stats of users that left stay for the connections they still have.
SetUserMap ==
    /\ swapping
    /\ swapping' = FALSE
    /\ known' = accepts
    /\ UNCHANGED <<accepts, ips, refs, devlimit, devices, shutting, conn, excess>>

-----------------------------------------------------------------------------
(***************************************************************************)
(* RoutedConnection and RoutedPacketConnection.                            *)
(***************************************************************************)
Becomes(c, new) == conn' = [conn EXCEPT ![c] = new]
Moves(c, stage) == Becomes(c, [conn[c] EXCEPT !.at = stage])

\* An inbound has authenticated the user.
Accept(c, u, a) ==
    /\ conn[c].at = "free" /\ c \notin shutting
    /\ u \in accepts
    /\ Becomes(c, [Free EXCEPT !.at = "routed", !.user = u, !.addr = a, !.crossed = swapping])
    /\ UNCHANGED <<accepts, known, swapping, ips, refs, devlimit, devices, shutting, excess>>

\* An unknown UUID has user ID 0, which has no stats.
LookUp(c) ==
    /\ conn[c].at = "routed"
    /\ Becomes(c, [conn[c] EXCEPT !.at = "looked", !.tracked = conn[c].user \in known])
    /\ UNCHANGED <<accepts, known, swapping, ips, refs, devlimit, devices, shutting, excess>>

\* aclRejects: whether the policy forbids the destination is for AclPolicy.
RejectByACL(c) ==
    /\ conn[c].at = "looked"
    /\ Becomes(c, Free)
    /\ UNCHANGED <<accepts, known, swapping, ips, refs, devlimit, devices, shutting, excess>>

\* GetDeviceLimitByUUID.  There is no gate without a limit, nor for a user without stats.
ReadDeviceLimit(c) ==
    /\ conn[c].at = "looked"
    /\ LET limit == devlimit[conn[c].user]
       IN  Becomes(c, IF conn[c].tracked /\ limit > 0
                         THEN [conn[c] EXCEPT !.at = "limited", !.limit = limit]
                         ELSE [conn[c] EXCEPT !.at = "passed", !.excused = TRUE])
    /\ UNCHANGED <<accepts, known, swapping, ips, refs, devlimit, devices, shutting, excess>>

\* checkDeviceGate copies the user's addresses and releases the lock.
EnterGate(c) ==
    /\ conn[c].at = "limited"
    /\ LET own == Local(conn[c].user)
       IN  Becomes(c, [conn[c] EXCEPT !.at = "gated", !.seen = own, !.excused = conn[c].addr \in own])
    /\ UNCHANGED <<accepts, known, swapping, ips, refs, devlimit, devices, shutting, excess>>

Others(c) == conn[c].seen \union devices[conn[c].user]

\* The address sorts among the first.
Sorts(c) == Cardinality(Below(Others(c), conn[c].addr)) < conn[c].limit

\* Mutant of Admits: a full set of addresses still has room.
AdmitsOneMore(c) ==
    conn[c].addr \in Others(c) \/ Cardinality(Others(c)) <= conn[c].limit \/ Sorts(c)

\* An address that is known here or elsewhere gets in, and so does one while
\* there is room; over the limit, one that sorts among the first.
Admits(c) ==
    conn[c].addr \in Others(c) \/ Cardinality(Others(c)) < conn[c].limit \/ Sorts(c)

Sorted(c) == Cardinality(Others(c)) >= conn[c].limit /\ Sorts(c)

PassGate(c) ==
    /\ conn[c].at = "gated" /\ Admits(c)
    /\ Becomes(c, [conn[c] EXCEPT !.at = "passed", !.limit = 0, !.seen = {},
                      !.excused = @ \/ conn[c].addr \in devices[conn[c].user] \/ Sorted(c)])
    /\ UNCHANGED <<accepts, known, swapping, ips, refs, devlimit, devices, shutting, excess>>

Refuse(c) ==
    /\ conn[c].at = "gated" /\ ~Admits(c)
    /\ Becomes(c, Free)
    /\ UNCHANGED <<accepts, known, swapping, ips, refs, devlimit, devices, shutting, excess>>

\* Other connections of the user that are past the copy now decide on an old one.
Overtaken(c) ==
    {d \in Conns \ {c} : conn[d].at \in {"gated", "passed"} /\ conn[d].user = conn[c].user}

\* addConn, for a user with stats.
AddConn(c) ==
    /\ conn[c].at = "passed"
    /\ LET u == conn[c].user
           a == conn[c].addr
           new == conn[c].tracked /\ ips[u][a] = 0
       IN  /\ ips' = IF conn[c].tracked THEN [ips EXCEPT ![u][a] = @ + 1] ELSE ips
           /\ conn' = [d \in Conns |->
                 IF d = c THEN [conn[c] EXCEPT !.at = "admitted", !.excused = FALSE, !.raced = FALSE]
                 ELSE IF new /\ d \in Overtaken(c) THEN [conn[d] EXCEPT !.raced = TRUE]
                 ELSE conn[d]]
           /\ excess' = IF new /\ (conn[c].excused \/ conn[c].raced)
                           THEN [excess EXCEPT ![u] = @ \union {a}] ELSE excess
    /\ UNCHANGED <<accepts, known, swapping, refs, devlimit, devices, shutting>>

\* Mutant of Register: only the first connection from an address is registered for its user.
RegisterFirstOnly(c) ==
    /\ conn[c].at = "admitted"
    /\ Moves(c, "registered")
    /\ refs' = [refs EXCEPT ![c] = IF conn[c].tracked /\ ips[conn[c].user][conn[c].addr] = 1
                                      THEN conn[c].user ELSE None]
    /\ UNCHANGED <<accepts, known, swapping, ips, devlimit, devices, shutting, excess>>

\* Connections without stats are registered under user ID 0.
Register(c) ==
    /\ conn[c].at = "admitted"
    /\ Moves(c, "registered")
    /\ refs' = [refs EXCEPT ![c] = IF conn[c].tracked THEN conn[c].user ELSE None]
    /\ UNCHANGED <<accepts, known, swapping, ips, devlimit, devices, shutting, excess>>

\* The wrapper is returned, with the limiter it was given.
Open(c) ==
    /\ conn[c].at = "registered"
    /\ Moves(c, "open")
    /\ UNCHANGED <<accepts, known, swapping, ips, refs, devlimit, devices, shutting, excess>>

-----------------------------------------------------------------------------
(***************************************************************************)
(* The end of a connection.  sing-box may close a wrapper more than once.  *)
(***************************************************************************)
\* removeConn
ReleaseAddr(c) ==
    LET u == conn[c].user
        a == conn[c].addr
    IN  /\ ips' = IF conn[c].tracked THEN [ips EXCEPT ![u][a] = @ - 1] ELSE ips
        /\ excess' = IF conn[c].tracked /\ ips[u][a] = 1
                        THEN [excess EXCEPT ![u] = @ \ {a}] ELSE excess

\* Mutant of Close: every call releases the address.
CloseEveryTime(c) ==
    /\ conn[c].at \in {"open", "closing"}
    /\ ReleaseAddr(c)
    /\ Moves(c, "closing")
    /\ UNCHANGED <<accepts, known, swapping, refs, devlimit, devices, shutting>>

\* Only the call that sets closed releases the address.
Close(c) ==
    /\ conn[c].at = "open"
    /\ ReleaseAddr(c)
    /\ Moves(c, "closing")
    /\ UNCHANGED <<accepts, known, swapping, refs, devlimit, devices, shutting>>

\* removeConnRef
Unregister(c) ==
    /\ conn[c].at = "closing"
    /\ refs' = [refs EXCEPT ![c] = "absent"]
    /\ Becomes(c, Free)
    /\ UNCHANGED <<accepts, known, swapping, ips, devlimit, devices, shutting, excess>>

\* What a kick finds: uuidMap has the ID of users on the list only.
Found(u) == IF u \in known THEN {c \in Conns : refs[c] = u} ELSE {}

\* The closers are collected under the lock.
CloseByUUID(u) ==
    /\ shutting' = shutting \union Found(u)
    /\ UNCHANGED <<accepts, known, swapping, ips, refs, devlimit, devices, conn, excess>>

Shut(c) ==
    /\ c \in shutting
    /\ shutting' = shutting \ {c}
    /\ conn' = IF conn[c].at = "free" THEN conn ELSE [conn EXCEPT ![c].shut = TRUE]
    /\ UNCHANGED <<accepts, known, swapping, ips, refs, devlimit, devices, excess>>

-----------------------------------------------------------------------------
(***************************************************************************)
(* Limiter.UpdateUsers (internal/limiter/limiter.go) brings other device   *)
(* limits.  Connections that are up stay, whatever the new limit; those on *)
(* their way go by the limit they were given.                              *)
(***************************************************************************)
\* More addresses are in than the new limit has room for.
Overfull(u, limit) == limit > 0 /\ limit # devlimit[u] /\ Cardinality(Local(u) \ excess[u]) > limit

Outdated(c, table) ==
    conn[c].at \in {"limited", "gated", "passed"} /\ table[conn[c].user] # devlimit[conn[c].user]

SetDeviceLimits(table) ==
    /\ devlimit' = table
    /\ conn' = [c \in Conns |-> IF Outdated(c, table) THEN [conn[c] EXCEPT !.raced = TRUE] ELSE conn[c]]
    /\ excess' = [u \in Users |-> IF Overfull(u, table[u]) THEN Local(u) ELSE excess[u]]
    /\ UNCHANGED <<accepts, known, swapping, ips, refs, devices, shutting>>

-----------------------------------------------------------------------------
(***************************************************************************)
(* The panel's device lists.  A list that is a minute old, one that was    *)
(* cleared and one without the user all count as no addresses.             *)
(***************************************************************************)
UpdateGlobalDevices(lists) ==
    /\ devices' = lists
    /\ UNCHANGED <<accepts, known, swapping, ips, refs, devlimit, shutting, conn, excess>>

ForgetGlobalDevices ==
    /\ devices' = [u \in Users |-> {}]
    /\ UNCHANGED <<accepts, known, swapping, ips, refs, devlimit, shutting, conn, excess>>

-----------------------------------------------------------------------------
OpenStep(c) ==
    \/ \E u \in Users, a \in Addrs : Accept(c, u, a)
    \/ LookUp(c) \/ RejectByACL(c) \/ ReadDeviceLimit(c) \/ EnterGate(c)
    \/ PassGate(c) \/ Refuse(c) \/ AddConn(c) \/ Register(c) \/ Open(c)

CloseStep(c) == Close(c) \/ Unregister(c) \/ Shut(c)

TrackerNext ==
    \/ \E S \in SUBSET Users : SwapInbounds(S)
    \/ SetUserMap
    \/ \E c \in Conns : OpenStep(c) \/ CloseStep(c)
    \/ \E u \in Users : CloseByUUID(u)
    \/ \E table \in [Users -> DeviceLimits] : SetDeviceLimits(table)
    \/ \E lists \in [Users -> SUBSET Addrs] : UpdateGlobalDevices(lists)
    \/ ForgetGlobalDevices

TrackerSpec == TrackerInit /\ [][TrackerNext]_tracker

-----------------------------------------------------------------------------
(***************************************************************************)
(* Properties.                                                             *)
(***************************************************************************)
\* The counts by address that the device gate and the reports go by are those
\* of the connections that are up: nothing is released twice or never.
CountsAgree ==
    \A u \in Users, a \in Addrs :
        ips[u][a] = Cardinality({c \in Conns : Holding(c) /\ conn[c].user = u /\ conn[c].addr = a})

\* A kick of a user on the list finds every connection of the user that is up, but for
\* those that came in while a user list was being swapped: they are nobody's, and run past
\* the device limit and out of reach of kicks for good.  A user who is off the list is not
\* found, though the connections it had are still up: taking users off the list ends none.
ReachedIfListed ==
    \A c \in Conns :
        conn[c].at \in {"registered", "open"} /\ conn[c].user \in known =>
            c \in Found(conn[c].user) \/ conn[c].crossed

\* More addresses than the device limit are in only by way of: a gate that decided on a
\* copy another address has overtaken, or by a limit that has changed since; a full list
\* in which the address sorts among the first; the panel listing it elsewhere; an address
\* that was known when the gate looked and gone when it was added; a time without a limit,
\* or off the limiter's list; a limit that became lower than the addresses that were in.
LimitedButForExcess ==
    \A u \in Users :
        devlimit[u] > 0 => Cardinality(Local(u) \ excess[u]) <= devlimit[u]
=============================================================================
