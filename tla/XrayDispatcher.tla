---------------------------- MODULE XrayDispatcher ----------------------------
(***************************************************************************)
(* The device limits of the xray kernel                                    *)
(* (internal/kernel/xray/dispatcher.go).  xray-core calls Dispatch for     *)
(* every connection on a goroutine of its own; the kernel replaces the     *)
(* table of limits.  Users without a limit are counted in a sync.Map, the  *)
(* others under a lock, and a connection that closes looks for its user in *)
(* the sync.Map first.                                                     *)
(*                                                                         *)
(* The atomic operations of the sync.Map and the critical sections of the  *)
(* lock are steps of their own.  Only TCP connections are counted.         *)
(***************************************************************************)
EXTENDS KernelBase, Integers

CONSTANT MaxStray \* bound of the model on the count an address may have as a connection arrives

ASSUME StrayConstant == MaxStray \in Nat /\ None \notin Int

VARIABLES
    xlimits,   \* deviceLimits, 0 for users without an entry
    xentered,  \* users with an entry in unlimitedIPs
    xfree,     \* unlimitedIPs: the count of each address, None if it has no counter
    xslots,    \* limitedIPs: the count of each address
    xmapped,   \* users whose map in limitedIPs is not nil
    xconn,     \* the connections
    xcrashed,  \* a goroutine wrote to a nil map, which ends the process
    xlost      \* history: counters of unlimited users that went astray

xdispatcher == <<xlimits, xentered, xfree, xslots, xmapped, xconn, xcrashed, xlost>>

XStages == {"free", "new", "fast", "entered", "counter", "slow", "known", "room", "full",
            "admitted", "open", "closing", "unslot", "lowered"}

XConn == [at : XStages, user : Users \union {None}, addr : Addrs \union {None}, udp : BOOLEAN,
          limit : DeviceLimits,    \* the limit checkDeviceLimit goes by
          holds : {"nothing", "counter", "slot"},  \* what it was counted in
          stray : BOOLEAN]                         \* its counter is not in the map any more

XFree == [at |-> "free", user |-> None, addr |-> None, udp |-> FALSE, limit |-> 0,
          holds |-> "nothing", stray |-> FALSE]

XTypeOK ==
    /\ xlimits \in [Users -> DeviceLimits]
    /\ xentered \subseteq Users /\ xmapped \subseteq Users
    /\ xfree \in [Users -> [Addrs -> Int \union {None}]]
    /\ xslots \in [Users -> [Addrs -> Nat]]
    /\ xconn \in [Conns -> XConn]
    /\ \A c \in Conns : xconn[c].at # "free" => xconn[c].user \in Users /\ xconn[c].addr \in Addrs
    /\ xcrashed \in BOOLEAN
    /\ xlost \subseteq Users \X Addrs

XInit ==
    /\ xlimits = [u \in Users |-> 0] /\ xentered = {} /\ xmapped = {}
    /\ xfree = [u \in Users |-> [a \in Addrs |-> None]]
    /\ xslots = [u \in Users |-> [a \in Addrs |-> 0]]
    /\ xconn = [c \in Conns |-> XFree]
    /\ xcrashed = FALSE
    /\ xlost = {}

XSlotted(u) == {a \in Addrs : xslots[u][a] > 0}
XOf(c) == <<xconn[c].user, xconn[c].addr>>

XBecomes(c, new) == xconn' = [xconn EXCEPT ![c] = new]
XMoves(c, stage) == XBecomes(c, [xconn[c] EXCEPT !.at = stage])

-----------------------------------------------------------------------------
\* UpdateLimits: the limits of the new list.  A new instance starts with an empty table.
XUpdateLimits(table) ==
    /\ ~xcrashed
    /\ xlimits' = table
    /\ UNCHANGED <<xentered, xfree, xslots, xmapped, xconn, xcrashed, xlost>>

XArrive(c, u, a, udp) ==
    /\ ~xcrashed /\ xconn[c].at = "free"
    /\ xslots[u][a] <= MaxStray /\ (xfree[u][a] # None => xfree[u][a] \in -MaxStray..MaxStray)
    /\ XBecomes(c, [XFree EXCEPT !.at = "new", !.user = u, !.addr = a, !.udp = udp])
    /\ UNCHANGED <<xlimits, xentered, xfree, xslots, xmapped, xcrashed, xlost>>

\* checkACL comes first; a connection it refuses takes no slot.
XRejectByACL(c) ==
    /\ ~xcrashed /\ xconn[c].at = "new"
    /\ XBecomes(c, XFree)
    /\ UNCHANGED <<xlimits, xentered, xfree, xslots, xmapped, xcrashed, xlost>>

XReadLimit(c) ==
    /\ ~xcrashed /\ xconn[c].at = "new"
    /\ LET limit == xlimits[xconn[c].user]
       IN  IF limit > 0 THEN XBecomes(c, [xconn[c] EXCEPT !.at = "slow", !.limit = limit])
           ELSE XMoves(c, IF xconn[c].udp THEN "admitted" ELSE "fast")
    /\ UNCHANGED <<xlimits, xentered, xfree, xslots, xmapped, xcrashed, xlost>>

-----------------------------------------------------------------------------
(***************************************************************************)
(* Users without a limit.                                                  *)
(***************************************************************************)
\* LoadOrStore of the user's entry, which nothing removes.
XEnter(c) ==
    /\ ~xcrashed /\ xconn[c].at = "fast"
    /\ xentered' = xentered \union {xconn[c].user}
    /\ XMoves(c, "entered")
    /\ UNCHANGED <<xlimits, xfree, xslots, xmapped, xcrashed, xlost>>

\* Mutant of XFindCounter: the counter is stored anew.
XResetCounter(c) ==
    /\ ~xcrashed /\ xconn[c].at = "entered"
    /\ xfree' = [xfree EXCEPT ![xconn[c].user][xconn[c].addr] = 0]
    /\ XMoves(c, "counter")
    /\ UNCHANGED <<xlimits, xentered, xslots, xmapped, xcrashed, xlost>>

\* LoadOrStore of the counter of the address.
XFindCounter(c) ==
    /\ ~xcrashed /\ xconn[c].at = "entered"
    /\ LET u == xconn[c].user
           a == xconn[c].addr
       IN  xfree' = IF xfree[u][a] = None THEN [xfree EXCEPT ![u][a] = 0] ELSE xfree
    /\ XMoves(c, "counter")
    /\ UNCHANGED <<xlimits, xentered, xslots, xmapped, xcrashed, xlost>>

\* Add(1), on a counter that may have been deleted from the map meanwhile.
XCountFree(c) ==
    /\ ~xcrashed /\ xconn[c].at = "counter"
    /\ LET u == xconn[c].user
           a == xconn[c].addr
       IN  xfree' = IF xconn[c].stray THEN xfree ELSE [xfree EXCEPT ![u][a] = @ + 1]
    /\ XBecomes(c, [xconn[c] EXCEPT !.at = "admitted", !.holds = "counter"])
    /\ UNCHANGED <<xlimits, xentered, xslots, xmapped, xcrashed, xlost>>

-----------------------------------------------------------------------------
(***************************************************************************)
(* Users with a limit.                                                     *)
(***************************************************************************)
\* The section under the read lock.  What it finds is acted on after it.
XLookAtSlots(c) ==
    /\ ~xcrashed /\ xconn[c].at = "slow"
    /\ LET u     == xconn[c].user
           known == xslots[u][xconn[c].addr] > 0
           room  == u \in xmapped /\ Cardinality(XSlotted(u)) < xconn[c].limit
       IN  IF ~known /\ ~room THEN XMoves(c, "full")
           ELSE XBecomes(c, [xconn[c] EXCEPT !.limit = 0,
                                !.at = IF xconn[c].udp THEN "admitted"
                                       ELSE IF known THEN "known" ELSE "room"])
    /\ UNCHANGED <<xlimits, xentered, xfree, xslots, xmapped, xcrashed, xlost>>

XTakeSlot(c) ==
    /\ xslots' = IF xconn[c].udp THEN xslots
                 ELSE [xslots EXCEPT ![xconn[c].user][xconn[c].addr] = @ + 1]
    /\ XBecomes(c, [xconn[c] EXCEPT !.at = "admitted", !.limit = 0,
                                    !.holds = IF xconn[c].udp THEN "nothing" ELSE "slot"])

\* For a known address the map is taken to be there still.
XCountKnown(c) ==
    /\ ~xcrashed /\ xconn[c].at = "known"
    /\ IF xconn[c].user \in xmapped
          THEN XTakeSlot(c) /\ UNCHANGED xcrashed
          ELSE xcrashed' = TRUE /\ UNCHANGED <<xslots, xconn>>
    /\ UNCHANGED <<xlimits, xentered, xfree, xmapped, xlost>>

XCountRoom(c) ==
    /\ ~xcrashed /\ xconn[c].at = "room"
    /\ xmapped' = xmapped \union {xconn[c].user}
    /\ XTakeSlot(c)
    /\ UNCHANGED <<xlimits, xentered, xfree, xcrashed, xlost>>

XAdmits(c) ==
    LET u == xconn[c].user
    IN  \/ xslots[u][xconn[c].addr] > 0
        \/ Cardinality(XSlotted(u)) < xconn[c].limit
        \/ Cardinality(Below(XSlotted(u), xconn[c].addr)) < xconn[c].limit

\* The write lock, taken when the read lock showed no room: looked at afresh.
XDecideFull(c) ==
    /\ ~xcrashed /\ xconn[c].at = "full"
    /\ xmapped' = xmapped \union {xconn[c].user}
    /\ IF XAdmits(c) THEN XTakeSlot(c) ELSE XBecomes(c, XFree) /\ UNCHANGED xslots
    /\ UNCHANGED <<xlimits, xentered, xfree, xcrashed, xlost>>

-----------------------------------------------------------------------------
(***************************************************************************)
(* The end of a connection.                                                *)
(***************************************************************************)
XDispatch(c) ==
    /\ ~xcrashed /\ xconn[c].at = "admitted"
    /\ XMoves(c, "open")
    /\ UNCHANGED <<xlimits, xentered, xfree, xslots, xmapped, xcrashed, xlost>>

\* The inner dispatcher fails, or the writer of the link is closed for the first
\* time.  A UDP connection has nothing to release.
XEnd(c) ==
    /\ ~xcrashed /\ xconn[c].at \in {"admitted", "open"}
    /\ IF xconn[c].udp THEN XBecomes(c, XFree) ELSE XMoves(c, "closing")
    /\ UNCHANGED <<xlimits, xentered, xfree, xslots, xmapped, xcrashed, xlost>>

\* delConn looks for the user in unlimitedIPs first.
XFindNoEntry(c) ==
    /\ ~xcrashed /\ xconn[c].at = "closing" /\ xconn[c].user \notin xentered
    /\ XMoves(c, "unslot")
    /\ UNCHANGED <<xlimits, xentered, xfree, xslots, xmapped, xcrashed, xlost>>

\* Mutant of XReleaseSlot: the address goes with the first of its connections.
XReleaseAll(c) ==
    /\ ~xcrashed /\ xconn[c].at = "unslot"
    /\ LET u == xconn[c].user
       IN  /\ xslots' = [xslots EXCEPT ![u][xconn[c].addr] = 0]
           /\ xmapped' = IF XSlotted(u) \subseteq {xconn[c].addr} THEN xmapped \ {u} ELSE xmapped
    /\ XBecomes(c, XFree)
    /\ UNCHANGED <<xlimits, xentered, xfree, xcrashed, xlost>>

\* A user's map goes with its last address.
XReleaseSlot(c) ==
    /\ ~xcrashed /\ xconn[c].at = "unslot"
    /\ LET u == xconn[c].user
           a == xconn[c].addr
           less == IF xslots[u][a] = 0 THEN 0 ELSE xslots[u][a] - 1
       IN  /\ xslots' = [xslots EXCEPT ![u][a] = less]
           /\ xmapped' = IF XSlotted(u) \subseteq {a} /\ less = 0 THEN xmapped \ {u} ELSE xmapped
    /\ XBecomes(c, XFree)
    /\ UNCHANGED <<xlimits, xentered, xfree, xcrashed, xlost>>

\* The connection is done with, but for a counter it has to delete.
XSpent(c, stage) == [XFree EXCEPT !.at = stage, !.user = xconn[c].user, !.addr = xconn[c].addr]

\* With an entry it is a counter that goes down, whatever the connection holds.
XReleaseFree(c) ==
    /\ ~xcrashed /\ xconn[c].at = "closing" /\ xconn[c].user \in xentered
    /\ LET u == xconn[c].user
           a == xconn[c].addr
           n == xfree[u][a]
       IN  IF n = None
              THEN XBecomes(c, XFree) /\ UNCHANGED xfree
              ELSE /\ xfree' = [xfree EXCEPT ![u][a] = n - 1]
                   /\ XBecomes(c, IF n - 1 <= 0 THEN XSpent(c, "lowered") ELSE XFree)
    /\ xlost' = IF xconn[c].holds = "counter" /\ ~xconn[c].stray THEN xlost
                ELSE xlost \union {<<xconn[c].user, xconn[c].addr>>}
    /\ UNCHANGED <<xlimits, xentered, xslots, xmapped, xcrashed>>

\* The connections that hold or are about to raise the counter in the map.
XHolders(u, a) ==
    {c \in Conns : /\ xconn[c].user = u /\ xconn[c].addr = a /\ ~xconn[c].stray
                   /\ xconn[c].at = "counter" \/ xconn[c].holds = "counter"}

\* The counter goes, whatever it says by now; those that hold it are not told.
XDropCounter(c) ==
    /\ ~xcrashed /\ xconn[c].at = "lowered"
    /\ LET u == xconn[c].user
           a == xconn[c].addr
       IN  /\ xfree' = [xfree EXCEPT ![u][a] = None]
           /\ xconn' = [d \in Conns |-> IF d = c THEN XFree
                                        ELSE IF d \in XHolders(u, a) THEN [xconn[d] EXCEPT !.stray = TRUE]
                                        ELSE xconn[d]]
           /\ xlost' = IF XHolders(u, a) = {} THEN xlost ELSE xlost \union {<<u, a>>}
    /\ UNCHANGED <<xlimits, xentered, xslots, xmapped, xcrashed>>

-----------------------------------------------------------------------------
XStep(c) ==
    \/ \E u \in Users, a \in Addrs, udp \in BOOLEAN : XArrive(c, u, a, udp)
    \/ XRejectByACL(c) \/ XReadLimit(c) \/ XEnter(c) \/ XFindCounter(c) \/ XCountFree(c)
    \/ XLookAtSlots(c) \/ XCountKnown(c) \/ XCountRoom(c) \/ XDecideFull(c)
    \/ XDispatch(c) \/ XEnd(c) \/ XFindNoEntry(c) \/ XReleaseSlot(c) \/ XReleaseFree(c) \/ XDropCounter(c)

XNext ==
    \/ \E table \in [Users -> DeviceLimits] : XUpdateLimits(table)
    \/ \E c \in Conns : XStep(c)

XSpec == XInit /\ [][XNext]_xdispatcher

-----------------------------------------------------------------------------
(***************************************************************************)
(* Properties.                                                             *)
(***************************************************************************)
XSlotHolders(u, a) ==
    {c \in Conns : xconn[c].holds = "slot" /\ xconn[c].user = u /\ xconn[c].addr = a}

XCounterHolders(u, a) ==
    {c \in Conns : xconn[c].holds = "counter" /\ xconn[c].user = u /\ xconn[c].addr = a}

\* The slots of a limited user are never fewer than the connections that took
\* them, and exactly as many as long as the user was never counted without a
\* limit: after that its connections release counters, and slots stay taken.
XSlotsAccounted ==
    \A u \in Users, a \in Addrs :
        /\ xslots[u][a] >= Cardinality(XSlotHolders(u, a))
        /\ u \notin xentered => xslots[u][a] = Cardinality(XSlotHolders(u, a))

\* The address of a user without a limit is reported while a connection has it,
\* unless a counter was deleted under a connection that was about to raise it
\* or lowered by a connection that had not raised it.
XCountersAgree ==
    \A u \in Users, a \in Addrs :
        <<u, a>> \notin xlost =>
            Cardinality(XCounterHolders(u, a)) = IF xfree[u][a] = None THEN 0 ELSE xfree[u][a]
=============================================================================
