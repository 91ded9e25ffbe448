---------------------------- MODULE ProcessProofs -----------------------------
(***************************************************************************)
(* The process around the nodes' services.  The machine orchestrator keeps *)
(* hold of every service it starts, for every number of handles, passes    *)
(* and timers; the main loop runs the last version of its file, for every  *)
(* number of nodes, instances and saves; and the nodes that a file makes   *)
(* do not get in each other's way, for every set of files.                 *)
(***************************************************************************)
EXTENDS Orchestrator, ReloadLoop, ConfigLayout, TLAPS

-----------------------------------------------------------------------------
(***************************************************************************)
(* The orchestrator: types.                                                *)
(***************************************************************************)
LEMMA NoHandleType == NoHandle \in Handle /\ NoHandle.at = "ended" /\ ~NoHandle.cancelled
BY DEF NoHandle, Handle

LEMMA NoPassType == NoPass \in Pass /\ NoPass.at = "idle" /\ NoPass.target = Gone
BY DEF NoPass, Pass

LEMMA MachineTypeInit == MachineInit => MachineTypeOK
<1> SUFFICES ASSUME MachineInit PROVE MachineTypeOK
  OBVIOUS
<1>1. MaxTimers \in Nat \ {0}
  BY OrchestratorConstants
<1>2. handle \in [Handles -> Handle] /\ pass \in [Passes -> Pass]
  BY NoHandleType, NoPassType DEF MachineInit, MachineAt
<1>3. timers \in 0..MaxTimers
  BY <1>1 DEF MachineInit, MachineAt
<1>4. wanted \in BOOLEAN /\ ending \in BOOLEAN
  BY DEF MachineInit, MachineAt
<1>5. node \in Handles \union {Gone} /\ mailbox \in Handles \union {Gone} /\ retry \in {"none", "waiting", "due"}
  BY DEF MachineInit, MachineAt
<1> QED BY <1>2, <1>3, <1>4, <1>5 DEF MachineTypeOK

\* The next state of the passes and handles has its type, whatever the step.
LEMMA PassTypeNext ==
    ASSUME MachineTypeOK, NEW p \in Passes, NEW at \in {"idle", "fetched", "set", "removed", "unrouted", "waiting",
               "starting", "started", "finishing", "finished"}
    PROVE  /\ PassAt(p, at) => pass' \in [Passes -> Pass]
           /\ PassEnds(p) => pass' \in [Passes -> Pass]
BY NoPassType DEF MachineTypeOK, Pass, PassAt, PassEnds

LEMMA MachineTypeNext == MachineTypeOK /\ [MachineNext]_machine => MachineTypeOK'
<1> SUFFICES ASSUME MachineTypeOK, [MachineNext]_machine PROVE MachineTypeOK'
  OBVIOUS
<1>1. MaxTimers \in Nat \ {0} /\ Gone \notin Handles /\ Main \in Passes
  BY OrchestratorConstants
<1>2. ASSUME NEW p \in Passes, Fetch(p) \/ PassNext(p) \/ FireTimer(p) PROVE MachineTypeOK'
  <2>1. CASE Fetch(p)
    BY <2>1 DEF Fetch, MachineTypeOK, Pass
  <2>2. CASE SetWanted(p)
    <3>1. pass[p].has \in BOOLEAN
      BY DEF MachineTypeOK, Pass
    <3>2. pass' \in [Passes -> Pass]
      BY <2>2, PassTypeNext DEF SetWanted
    <3> QED BY <2>2, <3>1, <3>2 DEF SetWanted, MachineTypeOK
  <2>3. CASE NotRunning(p) \/ Await(p) \/ StartNothing(p)
    <3>1. pass' \in [Passes -> Pass]
      BY <2>3, PassTypeNext DEF NotRunning, Await, StartNothing
    <3> QED BY <2>3, <3>1 DEF NotRunning, Await, StartNothing, MachineTypeOK
  <2>4. CASE Unlist(p)
    BY <2>4 DEF Unlist, MachineTypeOK, Pass
  <2>5. CASE Unroute(p)
    <3>1. pass' \in [Passes -> Pass]
      BY <2>5, PassTypeNext DEF Unroute
    <3> QED BY <2>5, <3>1 DEF Unroute, MachineTypeOK
  <2>6. CASE Cancel(p)
    <3>1. pass' \in [Passes -> Pass]
      BY <2>6, PassTypeNext DEF Cancel
    <3>2. handle' \in [Handles -> Handle]
      BY <2>6 DEF Cancel, MachineTypeOK, Handle
    <3> QED BY <2>6, <3>1, <3>2 DEF Cancel, MachineTypeOK
  <2>7. CASE StartNode(p)
    <3>1. PICK h \in Handles :
             /\ node' = h
             /\ handle' = [handle EXCEPT ![h] =
                   [NoHandle EXCEPT !.at = "registered", !.cancelled = ending, !.overlap = LastStillAbout]]
             /\ pass' = [pass EXCEPT ![p].at = "started", ![p].target = h]
      BY <2>7 DEF StartNode
    <3>2. LastStillAbout \in BOOLEAN /\ ending \in BOOLEAN
      BY DEF LastStillAbout, MachineTypeOK
    <3>3. [NoHandle EXCEPT !.at = "registered", !.cancelled = ending, !.overlap = LastStillAbout] \in Handle
      BY <3>2 DEF NoHandle, Handle
    <3>4. handle' \in [Handles -> Handle]
      BY <3>1, <3>3 DEF MachineTypeOK
    <3>5. pass' \in [Passes -> Pass]
      BY <3>1, ZenonT(60) DEF MachineTypeOK, Pass
    <3> QED BY <2>7, <3>1, <3>4, <3>5 DEF StartNode, MachineTypeOK
  <2>8. CASE Route(p)
    <3>1. mailbox' \in Handles \union {Gone}
      BY <2>8 DEF Route, MachineTypeOK, Pass
    <3>2. handle' \in [Handles -> Handle]
      BY <2>8 DEF Route, MachineTypeOK, Handle
    <3> QED BY <2>8, <3>1, <3>2 DEF Route, MachineTypeOK
  <2>9. CASE Launch(p)
    <3>1. pass' \in [Passes -> Pass]
      BY <2>9, PassTypeNext DEF Launch
    <3>2. handle' \in [Handles -> Handle]
      BY <2>9 DEF Launch, MachineTypeOK, Handle
    <3> QED BY <2>9, <3>1, <3>2 DEF Launch, MachineTypeOK
  <2>10. CASE FireTimer(p)
    <3>1. pass' \in [Passes -> Pass]
      BY <2>10, PassTypeNext DEF FireTimer, MachineTypeOK
    <3>2. timers' \in 0..MaxTimers
      BY <2>10, <1>1 DEF FireTimer, MachineTypeOK
    <3>3. retry' \in {"none", "waiting", "due"}
      BY <2>10 DEF FireTimer, MachineTypeOK
    <3> QED BY <2>10, <3>1, <3>2, <3>3 DEF FireTimer, MachineTypeOK
  <2> QED BY <1>2, <2>1, <2>2, <2>3, <2>4, <2>5, <2>6, <2>7, <2>8, <2>9, <2>10 DEF PassNext
<1>3. ASSUME NEW h \in Handles, Return(h) \/ NodeNext(h) PROVE MachineTypeOK'
  <2>1. CASE Return(h)
    BY <2>1 DEF Return, MachineTypeOK, Handle
  <2>2. CASE UnregisterNode(h)
    BY <2>2 DEF UnregisterNode, MachineTypeOK, Handle
  <2>3. CASE Leave(h)
    <3>1. handle' \in [Handles -> Handle]
      BY <2>3, NoHandleType DEF Leave, MachineTypeOK, Handle
    <3> QED BY <2>3, <3>1 DEF Leave, MachineTypeOK
  <2>4. CASE NodeFailed(h)
    <3>1. handle' \in [Handles -> Handle]
      BY <2>4, NoHandleType DEF NodeFailed, MachineTypeOK
    <3>2. timers' \in 0..MaxTimers
      BY <2>4, <1>1 DEF NodeFailed, AddTimer, MachineTypeOK
    <3> QED BY <2>4, <3>1, <3>2 DEF NodeFailed, MachineTypeOK
  <2> QED BY <1>3, <2>1, <2>2, <2>3, <2>4 DEF NodeNext
<1>4. CASE RetryDue
  BY <1>4 DEF RetryDue, MachineTypeOK
<1>5. CASE Shutdown
  <2>1. handle' \in [Handles -> Handle]
    BY <1>5 DEF Shutdown, MachineTypeOK, Handle
  <2> QED BY <1>5, <2>1 DEF Shutdown, MachineTypeOK
<1>6. CASE StopAll
  BY <1>1, <1>6, ZenonT(60) DEF StopAll, MachineTypeOK, Pass
<1>7. CASE Finish
  BY <1>1, <1>7 DEF Finish, MachineTypeOK, Pass, NoPass
<1>8. CASE UNCHANGED machine
  BY <1>8 DEF machine, MachineTypeOK
<1> QED BY <1>2, <1>3, <1>4, <1>5, <1>6, <1>7, <1>8 DEF MachineNext

\* The maps, handles and passes of the orchestrator keep to their types.
THEOREM MachineTypes == MachineSpec => []MachineTypeOK
BY MachineTypeInit, MachineTypeNext, PTL DEF MachineSpec

-----------------------------------------------------------------------------
(***************************************************************************)
(* No service is out of reach.                                             *)
(***************************************************************************)
\* A pass that is about to tell handle h to end.
Telling(h) == \E p \in Passes : pass[p].target = h /\ pass[p].at \in {"removed", "unrouted"}

Reachable(h) == Done(h) \/ node = h \/ handle[h].cancelled \/ Telling(h)

\* Steps of a pass that keep its target, or are not about one, leave the others' be.
LEMMA TellingKept ==
    ASSUME MachineTypeOK, NEW h \in Handles, NEW p \in Passes,
           pass[p].at \notin {"removed", "unrouted"},
           \A q \in Passes \ {p} : pass'[q] = pass[q],
           Telling(h)
    PROVE  Telling(h)'
BY DEF Telling

\* No step takes a service out of reach that a stop could still reach.
LEMMA ReachableNext ==
    ASSUME MachineTypeOK, MachineTypeOK', [MachineNext]_machine, NEW h \in Handles, Reachable(h)
    PROVE  Reachable(h)'
<1>1. node \in Handles \union {Gone} /\ Gone \notin Handles /\ handle \in [Handles -> Handle]
      /\ pass \in [Passes -> Pass] /\ Main \in Passes
  BY OrchestratorConstants DEF MachineTypeOK
<1>2. ASSUME UNCHANGED <<node, handle>>, Telling(h) => Telling(h)' PROVE Reachable(h)'
  BY <1>2 DEF Reachable, Done
<1>3. ASSUME NEW p \in Passes, Fetch(p) \/ PassNext(p) \/ FireTimer(p) PROVE Reachable(h)'
  <2>1. CASE Fetch(p) \/ SetWanted(p) \/ NotRunning(p) \/ Await(p) \/ StartNothing(p) \/ FireTimer(p)
    <3>1. pass[p].at \notin {"removed", "unrouted"} \/ pass' = pass
      BY <2>1 DEF Fetch, SetWanted, NotRunning, Await, StartNothing, FireTimer
    <3>2. \A q \in Passes \ {p} : pass'[q] = pass[q]
      BY <1>1, <2>1 DEF Fetch, SetWanted, NotRunning, Await, StartNothing, FireTimer, PassAt, PassEnds
    <3>3. UNCHANGED <<node, handle>>
      BY <2>1 DEF Fetch, SetWanted, NotRunning, Await, StartNothing, FireTimer
    <3>4. Telling(h) => Telling(h)'
      BY <3>1, <3>2, TellingKept DEF Telling
    <3> QED BY <1>2, <3>3, <3>4
  <2>2. CASE Unlist(p)
    <3>1. CASE node = h
      BY <1>1, <2>2, <3>1 DEF Unlist, Reachable, Telling
    <3>2. CASE node # h
      <4>1. Telling(h) => Telling(h)'
        BY <1>1, <2>2, TellingKept DEF Unlist
      <4> QED BY <2>2, <3>2, <4>1 DEF Unlist, Reachable, Done
    <3> QED BY <3>1, <3>2
  <2>3. CASE Unroute(p)
    <3>1. Telling(h) => Telling(h)'
      BY <1>1, <2>3 DEF Unroute, PassAt, Telling
    <3> QED BY <1>2, <2>3, <3>1 DEF Unroute
  <2>4. CASE Cancel(p)
    <3>1. CASE pass[p].target = h
      BY <1>1, <2>4, <3>1 DEF Cancel, Reachable, Handle
    <3>2. CASE pass[p].target # h
      <4>1. handle'[h] = handle[h] /\ node' = node
        BY <1>1, <2>4, <3>2 DEF Cancel
      <4>2. Telling(h) => Telling(h)'
        BY <1>1, <2>4, <3>2 DEF Cancel, PassAt, Telling
      <4> QED BY <4>1, <4>2 DEF Reachable, Done
    <3> QED BY <3>1, <3>2
  <2>5. CASE StartNode(p)
    <3>1. Telling(h) => Telling(h)'
      BY <1>1, <2>5, TellingKept DEF StartNode
    <3>2. node' = h \/ handle'[h] = handle[h]
      BY <1>1, <2>5 DEF StartNode
    <3>3. node # h
      BY <1>1, <2>5 DEF StartNode
    <3> QED BY <3>1, <3>2, <3>3 DEF Reachable, Done
  <2>6. CASE Route(p) \/ Launch(p)
    <3>1. Telling(h) => Telling(h)'
      <4>1. pass[p].at = "started" /\ \A q \in Passes \ {p} : pass'[q] = pass[q]
        BY <1>1, <2>6 DEF Route, Launch, PassEnds
      <4> QED BY <4>1, TellingKept
    <3>2. /\ Done(h) => Done(h)'
          /\ handle'[h].cancelled = handle[h].cancelled
          /\ node' = node
      BY <1>1, <2>6 DEF Route, Launch, Done, Handle
    <3> QED BY <3>1, <3>2 DEF Reachable
  <2> QED BY <1>3, <2>1, <2>2, <2>3, <2>4, <2>5, <2>6 DEF PassNext
<1>4. ASSUME NEW g \in Handles, Return(g) \/ NodeNext(g) PROVE Reachable(h)'
  <2>1. Telling(h) => Telling(h)'
    BY <1>4 DEF Return, NodeNext, UnregisterNode, Leave, NodeFailed, Telling
  <2>2. CASE g = h
    <3>1. CASE Return(h)
      BY <1>1, <2>1, <3>1 DEF Return, Reachable, Done, Handle
    <3>2. CASE NodeNext(h)
      <4>1. Done(h)'
        BY <1>1, <3>2, NoHandleType DEF NodeNext, UnregisterNode, Leave, NodeFailed, Done, Handle
      <4> QED BY <4>1 DEF Reachable
    <3> QED BY <1>4, <2>2, <3>1, <3>2
  <2>3. CASE g # h
    <3>1. handle'[h] = handle[h]
      BY <1>1, <1>4, <2>3 DEF Return, NodeNext, UnregisterNode, Leave, NodeFailed
    <3>2. node = h => node' = h
      BY <1>4, <2>3 DEF Return, NodeNext, UnregisterNode, Leave, NodeFailed
    <3> QED BY <2>1, <3>1, <3>2 DEF Reachable, Done
  <2> QED BY <2>2, <2>3
<1>5. CASE RetryDue
  BY <1>2, <1>5 DEF RetryDue, Telling
<1>6. CASE Shutdown
  BY <1>1, <1>6 DEF Shutdown, Reachable, Done, Handle
<1>7. CASE StopAll \/ Finish
  <2>1. Telling(h) => Telling(h)'
    <3>1. pass[Main].at \in {"idle", "finishing"} /\ \A q \in Passes \ {Main} : pass'[q] = pass[q]
      BY <1>1, <1>7 DEF StopAll, Finish
    <3> QED BY <1>1, <3>1, TellingKept
  <2> QED BY <1>2, <1>7, <2>1 DEF StopAll, Finish
<1>8. CASE UNCHANGED machine
  BY <1>2, <1>8 DEF machine, Telling
<1> QED BY <1>3, <1>4, <1>5, <1>6, <1>7, <1>8 DEF MachineNext

LEMMA OrphansNext == MachineTypeOK /\ MachineTypeOK' /\ NoOrphans /\ [MachineNext]_machine => NoOrphans'
<1>1. NoOrphans <=> \A h \in Handles : Reachable(h)
  BY DEF NoOrphans, Reachable, Telling
<1>2. NoOrphans' <=> \A h \in Handles : Reachable(h)'
  BY DEF NoOrphans, Reachable, Telling
<1> QED BY <1>1, <1>2, ReachableNext

LEMMA OrphansInit == MachineInit => NoOrphans
BY NoHandleType DEF MachineInit, MachineAt, NoOrphans, Done

\* However passes of discovery, timers and deaths of nodes fall between each other, a
\* service that runs can be stopped, or has been told to.
THEOREM Orphans == MachineSpec => []NoOrphans
BY MachineTypes, OrphansInit, OrphansNext, PTL DEF MachineSpec

-----------------------------------------------------------------------------
(***************************************************************************)
(* The mailbox of a node that was started alone.                           *)
(***************************************************************************)
\* Nothing of a last node of the ID is about while one runs that was started alone.
Alone ==
    \A h \in Handles :
        node = h /\ ~Done(h) /\ ~handle[h].overlap =>
            /\ \A g \in Handles \ {h} : Done(g)
            /\ \A p \in Passes : pass[p].at # "removed"

\* The pass that starts a node has its handle.
Begun == \A p \in Passes : pass[p].at = "started" => pass[p].target \in Handles

LEMMA MailboxInit == MachineInit => MailboxUnlessOverlap /\ Alone /\ Begun
BY NoHandleType, NoPassType, OrchestratorConstants
   DEF MachineInit, MachineAt, MailboxUnlessOverlap, Alone, Begun

LEMMA BegunNext ==
    ASSUME MachineTypeOK, Begun, [MachineNext]_machine
    PROVE  Begun'
<1>1. pass \in [Passes -> Pass] /\ Main \in Passes
  BY OrchestratorConstants DEF MachineTypeOK
<1> SUFFICES ASSUME NEW p \in Passes, pass'[p].at = "started" PROVE pass'[p].target \in Handles
  BY DEF Begun
<1>2. CASE pass'[p] = pass[p]
  BY <1>2 DEF Begun
<1>3. CASE \E q \in Passes : StartNode(q)
  BY <1>1, <1>3 DEF StartNode, Begun, Pass
<1>4. CASE \E q \in Passes : Fetch(q) \/ Unlist(q) \/ SetWanted(q) \/ Unroute(q) \/ Cancel(q) \/ FireTimer(q)
  BY <1>1, <1>4 DEF Fetch, Unlist, SetWanted, Unroute, Cancel, FireTimer, PassAt, Pass, Begun
<1>5. CASE \E q \in Passes : NotRunning(q) \/ Await(q) \/ StartNothing(q) \/ Launch(q)
  BY <1>1, <1>5, NoPassType DEF NotRunning, Await, StartNothing, Launch, PassEnds, Begun
<1>6. CASE StopAll \/ Finish
  BY <1>1, <1>6 DEF StopAll, Finish, NoPass, Pass, Begun
<1> QED BY <1>2, <1>3, <1>4, <1>5, <1>6 DEF MachineNext, machine, PassNext, NodeNext, Route, Return,
           UnregisterNode, Leave, NodeFailed, RetryDue, Shutdown

\* A step that registers nobody, and takes nobody from nodes, leaves whoever is there alone.
LEMMA AloneKept ==
    ASSUME Alone, NEW h \in Handles, node = h, ~Done(h)', ~handle'[h].overlap,
           \A g \in Handles : (Done(g) => Done(g)') /\ (handle'[g].overlap = handle[g].overlap \/ Done(g)'),
           \A p \in Passes : pass'[p].at = "removed" => pass[p].at = "removed"
    PROVE  /\ \A g \in Handles \ {h} : Done(g)'
           /\ \A p \in Passes : pass'[p].at # "removed"
BY DEF Alone

LEMMA AloneNext ==
    ASSUME MachineTypeOK, MachineTypeOK', Alone, [MachineNext]_machine
    PROVE  Alone'
<1>1. node \in Handles \union {Gone} /\ Gone \notin Handles /\ handle \in [Handles -> Handle]
      /\ pass \in [Passes -> Pass] /\ Main \in Passes
  BY OrchestratorConstants DEF MachineTypeOK
<1> SUFFICES ASSUME NEW h \in Handles, node' = h, ~Done(h)', ~handle'[h].overlap
             PROVE  /\ \A g \in Handles \ {h} : Done(g)'
                    /\ \A p \in Passes : pass'[p].at # "removed"
  BY DEF Alone
<1>2. CASE \E p \in Passes : StartNode(p)
  <2>1. PICK p \in Passes : StartNode(p)
    BY <1>2
  <2>2. handle' = [handle EXCEPT ![h] =
                      [NoHandle EXCEPT !.at = "registered", !.cancelled = ending, !.overlap = LastStillAbout]]
        /\ \A q \in Passes \ {p} : pass'[q] = pass[q]
    BY <1>1, <2>1 DEF StartNode
  <2>3. handle'[h].overlap = LastStillAbout
    BY <1>1, <2>2 DEF NoHandle
  <2>4. (\A g \in Handles : Done(g)) /\ \A q \in Passes : pass[q].at # "removed"
    BY <2>3 DEF LastStillAbout
  <2>5. \A g \in Handles \ {h} : Done(g)'
    BY <1>1, <2>2, <2>4 DEF Done
  <2>6. pass'[p].at # "removed"
    BY <1>1, <2>1 DEF StartNode, Pass
  <2> QED BY <2>2, <2>4, <2>5, <2>6
<1>3. CASE ~\E p \in Passes : StartNode(p)
  <2>1. node = h
    <3>1. CASE UNCHANGED node
      BY <3>1
    <3>2. CASE \E p \in Passes : Unlist(p)
      BY <1>1, <3>2 DEF Unlist
    <3>3. CASE \E g \in Handles : NodeFailed(g)
      BY <1>1, <3>3 DEF NodeFailed
    <3> QED BY <1>3, <3>1, <3>2, <3>3 DEF MachineNext, machine, PassNext, NodeNext, Fetch, SetWanted,
                NotRunning, Unroute, Cancel, Await, StartNothing, Route, Launch, FireTimer, Return,
                UnregisterNode, Leave, RetryDue, Shutdown, StopAll, Finish
  <2>2. \A g \in Handles : (Done(g) => Done(g)') /\ (handle'[g].overlap = handle[g].overlap \/ Done(g)')
    <3>1. CASE UNCHANGED handle
      BY <3>1 DEF Done
    <3>2. CASE \E p \in Passes : Cancel(p) \/ Route(p) \/ Launch(p)
      BY <1>1, <3>2 DEF Cancel, Route, Launch, Done, Handle
    <3>3. CASE \E g \in Handles : Return(g) \/ UnregisterNode(g)
      BY <1>1, <3>3 DEF Return, UnregisterNode, Done, Handle
    <3>4. CASE \E g \in Handles : Leave(g) \/ NodeFailed(g)
      BY <1>1, <3>4, NoHandleType DEF Leave, NodeFailed, Done, Handle
    <3>5. CASE Shutdown
      BY <1>1, <3>5 DEF Shutdown, Done, Handle
    <3> QED BY <1>3, <3>1, <3>2, <3>3, <3>4, <3>5 DEF MachineNext, machine, PassNext, NodeNext, Fetch,
                SetWanted, NotRunning, Unlist, Unroute, Await, StartNothing, FireTimer, RetryDue, StopAll, Finish
  <2>3. \A p \in Passes : pass'[p].at = "removed" => pass[p].at = "removed"
    <3>1. CASE \E p \in Passes : Unlist(p)
      BY <1>1, <3>1 DEF Unlist
    <3>2. CASE UNCHANGED pass
      BY <3>2
    <3>3. CASE \E p \in Passes : \/ Fetch(p) \/ SetWanted(p) \/ Unroute(p) \/ Cancel(p) \/ FireTimer(p)
      BY <1>1, <3>3 DEF Fetch, SetWanted, Unroute, Cancel, FireTimer, PassAt, Pass
    <3>4. CASE \E p \in Passes : NotRunning(p) \/ Await(p) \/ StartNothing(p) \/ Launch(p)
      BY <1>1, <3>4, NoPassType DEF NotRunning, Await, StartNothing, Launch, PassEnds
    <3>5. CASE StopAll \/ Finish
      BY <1>1, <3>5 DEF StopAll, Finish, NoPass, Pass
    <3> QED BY <1>3, <3>1, <3>2, <3>3, <3>4, <3>5 DEF MachineNext, machine, PassNext, NodeNext, Route,
                Return, UnregisterNode, Leave, NodeFailed, RetryDue, Shutdown
  <2> QED BY <2>1, <2>2, <2>3, AloneKept
<1> QED BY <1>2, <1>3

LEMMA MailboxNext ==
    ASSUME MachineTypeOK, MachineTypeOK', Begun, Alone, MailboxUnlessOverlap, [MachineNext]_machine
    PROVE  MailboxUnlessOverlap'
<1>1. node \in Handles \union {Gone} /\ Gone \notin Handles /\ handle \in [Handles -> Handle]
      /\ pass \in [Passes -> Pass] /\ Main \in Passes
  BY OrchestratorConstants DEF MachineTypeOK
<1> SUFFICES ASSUME NEW h \in Handles, node' = h, handle'[h].at \in {"routed", "up"}, ~handle'[h].overlap
             PROVE  mailbox' = h
  BY DEF MailboxUnlessOverlap
<1>2. CASE \E p \in Passes : StartNode(p)
  BY <1>1, <1>2 DEF StartNode, NoHandle
<1>3. CASE \E p \in Passes : Route(p)
  <2>1. PICK p \in Passes : Route(p)
    BY <1>3
  <2>2. CASE pass[p].target = h
    BY <2>1, <2>2 DEF Route
  <2>3. CASE pass[p].target # h
    <3>1. node = h /\ handle'[h] = handle[h] /\ pass[p].target \in Handles
      BY <1>1, <2>1, <2>3 DEF Route, Begun
    <3>2. node = h /\ ~Done(h) /\ ~handle[h].overlap
      BY <3>1 DEF Done
    <3>3. Done(pass[p].target)
      BY <2>3, <3>1, <3>2 DEF Alone
    <3> QED BY <2>1, <3>3 DEF Route, Done
  <2> QED BY <2>2, <2>3
<1>4. CASE \E p \in Passes : Launch(p)
  <2>1. PICK p \in Passes : Launch(p)
    BY <1>4
  <2>2. node = h /\ mailbox' = mailbox /\ handle[h].at \in {"routed", "up"} /\ ~handle[h].overlap
    BY <1>1, <2>1 DEF Launch, Handle
  <2> QED BY <2>2 DEF MailboxUnlessOverlap
<1>5. CASE \E p \in Passes : Unroute(p)
  BY <1>1, <1>5 DEF Unroute, Alone, Done
<1>6. CASE \E g \in Handles : UnregisterNode(g)
  <2>1. PICK g \in Handles : UnregisterNode(g)
    BY <1>6
  <2>2. g # h /\ handle'[h] = handle[h] /\ node = h
    BY <1>1, <2>1 DEF UnregisterNode, Handle
  <2>3. Done(g)
    BY <2>2 DEF Alone, Done
  <2> QED BY <2>1, <2>3 DEF UnregisterNode, Done
<1>7. CASE \E g \in Handles : Return(g) \/ Leave(g) \/ NodeFailed(g)
  <2>1. PICK g \in Handles : Return(g) \/ Leave(g) \/ NodeFailed(g)
    BY <1>7
  <2>2. g # h
    BY <1>1, <2>1, NoHandleType DEF Return, Leave, NodeFailed, Handle
  <2>3. handle'[h] = handle[h] /\ node = h /\ mailbox' = mailbox
    BY <1>1, <2>1, <2>2 DEF Return, Leave, NodeFailed
  <2> QED BY <2>3 DEF MailboxUnlessOverlap
<1>8. CASE Shutdown \/ \E p \in Passes : Cancel(p)
  <2>1. handle'[h].at = handle[h].at /\ handle'[h].overlap = handle[h].overlap
    <3>1. CASE Shutdown
      BY <1>1, <3>1 DEF Shutdown, Handle
    <3>2. CASE \E p \in Passes : Cancel(p)
      <4>1. PICK p \in Passes : Cancel(p)
        BY <3>2
      <4>2. handle' = [handle EXCEPT ![pass[p].target].cancelled = TRUE]
        BY <4>1 DEF Cancel
      <4> QED BY <1>1, <4>2 DEF Handle
    <3> QED BY <1>8, <3>1, <3>2
  <2>2. node' = node /\ mailbox' = mailbox
    BY <1>8 DEF Shutdown, Cancel
  <2> QED BY <2>1, <2>2 DEF MailboxUnlessOverlap
<1>9. CASE \E p \in Passes : Unlist(p)
  BY <1>1, <1>9 DEF Unlist
<1>10. CASE UNCHANGED <<node, mailbox, handle>>
  BY <1>10 DEF MailboxUnlessOverlap
<1> QED BY <1>2, <1>3, <1>4, <1>5, <1>6, <1>7, <1>8, <1>9, <1>10 DEF MachineNext, machine, PassNext,
           NodeNext, Fetch, SetWanted, NotRunning, Await, StartNothing, FireTimer, RetryDue, StopAll, Finish

\* The events of a node that was started alone reach its mailbox, whatever happened to
\* those before it.
THEOREM Mailboxes == MachineSpec => []MailboxUnlessOverlap
<1> DEFINE MInv == MachineTypeOK /\ Begun /\ Alone /\ MailboxUnlessOverlap
<1>1. MachineInit => MInv
  BY MachineTypeInit, MailboxInit DEF MInv
<1>2. MInv /\ [MachineNext]_machine => MInv'
  BY MachineTypeNext, BegunNext, AloneNext, MailboxNext DEF MInv
<1>3. MInv => MailboxUnlessOverlap
  BY DEF MInv
<1> QED BY <1>1, <1>2, <1>3, PTL DEF MachineSpec

-----------------------------------------------------------------------------
(***************************************************************************)
(* The main loop: types.                                                   *)
(***************************************************************************)
\* The versions the loop can run.
Loadable == [v : Versions, is : {"good", "clash"}]

LEMMA LoadableType ==
    /\ Loadable \subseteq [v : Versions, is : Qualities]
    /\ Absent \notin [v : Versions, is : Qualities]
    /\ \A f \in [v : Versions, is : Qualities] : f.is # "bad" => f \in Loadable
BY ReloadConstants DEF Loadable, Versions, Qualities

LEMMA LoopTypeInit == LoopInit => LoopTypeOK
<1> SUFFICES ASSUME LoopInit PROVE LoopTypeOK
  OBVIOUS
<1>1. 0 \in Versions /\ 0 \in 0..Instances
  BY ReloadConstants DEF Versions
<1>2. file \in [v : Versions, is : Qualities] /\ root \in [v : Versions, is : {"good", "clash"}]
  BY <1>1 DEF LoopInit, LoopAt, Qualities
<1>3. unit \in [Nodes -> {"off", "up", "failed", "sending", "done"}]
  BY DEF LoopInit, LoopAt
<1>4. /\ watching \in BOOLEAN /\ debounce \in BOOLEAN /\ cancelled \in BOOLEAN
      /\ sigCh \in BOOLEAN /\ doomed \in BOOLEAN /\ missed \in BOOLEAN
  BY DEF LoopInit, LoopAt
<1>5. /\ stage = "gap" /\ guard = "none" /\ loading = Absent /\ reloadCh = Absent /\ errs = 0
  BY DEF LoopInit, LoopAt
<1> QED BY <1>1, <1>2, <1>3, <1>4, <1>5 DEF LoopTypeOK

\* The steps that change the file, what is read of it or what is run of it.
LEMMA FileTypes ==
    ASSUME LoopTypeOK, [LoopNext]_process
    PROVE  /\ file' \in [v : Versions, is : Qualities]
           /\ root' \in Loadable
           /\ loading' \in Loadable \union {Absent}
           /\ reloadCh' \in Loadable \union {Absent}
<1> USE DEF watcher, signals
<1>1. /\ file \in [v : Versions, is : Qualities] /\ root \in Loadable
      /\ loading \in Loadable \union {Absent} /\ reloadCh \in Loadable \union {Absent}
  BY DEF LoopTypeOK, Loadable
<1>2. file' \in [v : Versions, is : Qualities]
  <2>1. CASE Save
    <3>1. file.v + 1 \in Versions
      BY <1>1, <2>1, ReloadConstants DEF Save, Versions
    <3> QED BY <2>1, <3>1 DEF Save
  <2>2. CASE UNCHANGED file
    BY <1>1, <2>2
  <2> QED BY <2>1, <2>2 DEF LoopNext, process, ReadFile, Offer, WatcherEnds, Signal, TakeSignal,
             GuardLeaves, TimeUp, Fails, SendError, CancelAll, Stops, BeginIteration, LaunchNodes,
             TakeReload, NextIteration, EndProcess
<1>3. root' \in Loadable
  BY <1>1 DEF LoopNext, process, Save, ReadFile, Offer, WatcherEnds, Signal, TakeSignal,
             GuardLeaves, TimeUp, Fails, SendError, CancelAll, Stops, BeginIteration, LaunchNodes,
             TakeReload, NextIteration, EndProcess
<1>4. loading' \in Loadable \union {Absent}
  BY <1>1, LoadableType DEF LoopNext, process, Save, ReadFile, Offer, WatcherEnds, Signal, TakeSignal,
             GuardLeaves, TimeUp, Fails, SendError, CancelAll, Stops, BeginIteration, LaunchNodes,
             TakeReload, NextIteration, EndProcess
<1>5. reloadCh' \in Loadable \union {Absent}
  BY <1>1 DEF LoopNext, process, Save, ReadFile, Offer, WatcherEnds, Signal, TakeSignal,
             GuardLeaves, TimeUp, Fails, SendError, CancelAll, Stops, BeginIteration, LaunchNodes,
             TakeReload, NextIteration, EndProcess
<1> QED BY <1>2, <1>3, <1>4, <1>5

-----------------------------------------------------------------------------
(***************************************************************************)
(* Where the file's last version is.                                       *)
(***************************************************************************)
\* Nothing is under way between two iterations.
GapIsClear ==
    stage = "gap" => ~watching /\ ~debounce /\ loading = Absent /\ reloadCh = Absent

\* Versions only grow, and no version under way is a later one than the file's.
NoneLater ==
    /\ root.v <= file.v
    /\ loading # Absent => loading.v <= file.v
    /\ reloadCh # Absent => reloadCh.v <= file.v

\* Until the iteration is told to end, what is under way in the watcher is later than
\* what the nodes run: the watcher sees no save from before the iteration.
UnderWayIsLater ==
    stage \in {"begun", "run"} /\ (debounce \/ loading # Absent \/ reloadCh # Absent) => root.v < file.v

\* The last version is run, is under way, cannot be loaded, or was missed.
Traced ==
    missed \/ file.is = "bad" \/ root = file \/ debounce \/ loading = file \/ reloadCh = file

LoopInv == LoopTypeOK /\ GapIsClear /\ NoneLater /\ UnderWayIsLater /\ Traced

LEMMA LoopTypeNext == LoopTypeOK /\ [LoopNext]_process => LoopTypeOK'
<1> SUFFICES ASSUME LoopTypeOK, [LoopNext]_process PROVE LoopTypeOK'
  OBVIOUS
<1> USE DEF watcher, signals
<1>1. /\ file' \in [v : Versions, is : Qualities]
      /\ root' \in [v : Versions, is : {"good", "clash"}]
      /\ loading' \in [v : Versions, is : {"good", "clash"}] \union {Absent}
      /\ reloadCh' \in [v : Versions, is : {"good", "clash"}] \union {Absent}
  BY FileTypes DEF Loadable
<1>2. ASSUME unit' \in [Nodes -> {"off", "up", "failed", "sending", "done"}], errs' \in 0..Instances,
             /\ stage' \in {"gap", "begun", "run", "reload", "exited"}
             /\ watching' \in BOOLEAN /\ debounce' \in BOOLEAN
             /\ cancelled' \in BOOLEAN /\ sigCh' \in BOOLEAN /\ doomed' \in BOOLEAN /\ missed' \in BOOLEAN
             /\ guard' \in {"none", "waiting", "armed", "gone"}
      PROVE  LoopTypeOK'
  BY <1>1, <1>2 DEF LoopTypeOK
<1>3. CASE Save \/ ReadFile \/ Offer \/ WatcherEnds
  BY <1>2, <1>3, ZenonT(60) DEF Save, ReadFile, Offer, WatcherEnds, LoopTypeOK
<1>4. CASE Signal \/ TakeSignal \/ GuardLeaves \/ TimeUp
  BY <1>2, <1>4, ZenonT(60) DEF Signal, TakeSignal, GuardLeaves, TimeUp, LoopTypeOK
<1>5. CASE \E n \in Nodes : Fails(n) \/ CancelAll(n) \/ Stops(n)
  BY <1>2, <1>5, ZenonT(60) DEF Fails, CancelAll, Stops, LoopTypeOK
<1>6. CASE \E n \in Nodes : SendError(n)
  <2>1. errs' \in 0..Instances
    BY <1>6, ReloadConstants DEF SendError, LoopTypeOK
  <2>2. unit' \in [Nodes -> {"off", "up", "failed", "sending", "done"}]
    BY <1>6 DEF SendError, LoopTypeOK
  <2> QED BY <1>2, <1>6, <2>1, <2>2 DEF SendError, LoopTypeOK
<1>7. CASE LaunchNodes
  <2>1. errs' \in 0..Instances
    BY <1>7, ReloadConstants DEF LaunchNodes
  <2>2. unit' \in [Nodes -> {"off", "up", "failed", "sending", "done"}]
    BY <1>7 DEF LaunchNodes
  <2> QED BY <1>2, <1>7, <2>1, <2>2 DEF LaunchNodes, LoopTypeOK
<1>8. CASE BeginIteration \/ TakeReload \/ NextIteration \/ EndProcess
  BY <1>2, <1>8, ZenonT(60) DEF BeginIteration, TakeReload, NextIteration, EndProcess, LoopTypeOK
<1>9. CASE UNCHANGED process
  BY <1>2, <1>9 DEF process, LoopTypeOK
<1> QED BY <1>3, <1>4, <1>5, <1>6, <1>7, <1>8, <1>9 DEF LoopNext

\* The loop, its watcher, signals and nodes keep to their types.
THEOREM LoopTypes == LoopSpec => []LoopTypeOK
BY LoopTypeInit, LoopTypeNext, PTL DEF LoopSpec

-----------------------------------------------------------------------------
LEMMA LoopInvInit == LoopInit => LoopInv
<1> SUFFICES ASSUME LoopInit PROVE LoopInv
  OBVIOUS
<1>1. LoopTypeOK
  BY LoopTypeInit
<1>2. root = file /\ loading = Absent /\ reloadCh = Absent /\ ~watching /\ ~debounce /\ stage = "gap"
  BY DEF LoopInit, LoopAt
<1>3. root.v <= file.v
  BY <1>1, <1>2, ReloadConstants DEF LoopTypeOK, Versions
<1> QED BY <1>1, <1>2, <1>3 DEF LoopInv, GapIsClear, NoneLater, UnderWayIsLater, Traced

\* Versions are numbers.
LEMMA VersionsCompare ==
    ASSUME LoopTypeOK
    PROVE  /\ file.v \in Nat /\ root.v \in Nat
           /\ loading # Absent => loading.v \in Nat
           /\ reloadCh # Absent => reloadCh.v \in Nat
           /\ file # Absent /\ root # Absent
BY ReloadConstants, LoadableType DEF LoopTypeOK, Versions, Loadable

LEMMA GapNext ==
    ASSUME LoopInv, [LoopNext]_process PROVE GapIsClear'
BY DEF watcher, signals, LoopInv, GapIsClear, LoopNext, process, Save, ReadFile, Offer, WatcherEnds, Signal,
       TakeSignal, GuardLeaves, TimeUp, Fails, SendError, CancelAll, Stops, BeginIteration, LaunchNodes,
       TakeReload, NextIteration, EndProcess

LEMMA LaterNext ==
    ASSUME LoopInv, [LoopNext]_process PROVE NoneLater' /\ UnderWayIsLater'
<1> USE DEF watcher, signals
<1>1. LoopTypeOK /\ GapIsClear /\ NoneLater /\ UnderWayIsLater
  BY DEF LoopInv
<1>2. /\ file.v \in Nat /\ root.v \in Nat
      /\ loading # Absent => loading.v \in Nat
      /\ reloadCh # Absent => reloadCh.v \in Nat
  BY <1>1, VersionsCompare
<1>3. CASE Save
  <2>1. /\ file'.v = file.v + 1 /\ UNCHANGED <<root, loading, reloadCh>>
    BY <1>3 DEF Save
  <2> QED BY <1>1, <1>2, <2>1 DEF NoneLater, UnderWayIsLater
<1>4. CASE ReadFile
  <2>1. loading' \in {file, Absent} /\ UNCHANGED <<file, root, reloadCh>> /\ debounce
    BY <1>4 DEF ReadFile
  <2>2. NoneLater'
    BY <1>1, <1>2, <2>1 DEF NoneLater
  <2>3. UnderWayIsLater'
    BY <1>1, <1>4 DEF ReadFile, UnderWayIsLater
  <2> QED BY <2>2, <2>3
<1>5. CASE Offer
  BY <1>1, <1>5 DEF Offer, NoneLater, UnderWayIsLater
<1>6. CASE TakeReload
  BY <1>1, <1>6 DEF TakeReload, NoneLater, UnderWayIsLater
<1>7. CASE BeginIteration \/ NextIteration
  BY <1>1, <1>7 DEF BeginIteration, NextIteration, NoneLater, UnderWayIsLater, GapIsClear
<1>8. CASE WatcherEnds \/ Signal \/ TakeSignal \/ GuardLeaves \/ TimeUp \/ LaunchNodes \/ EndProcess
  BY <1>1, <1>8 DEF WatcherEnds, Signal, TakeSignal, GuardLeaves, TimeUp, LaunchNodes, EndProcess,
                    NoneLater, UnderWayIsLater
<1>9. CASE (\E n \in Nodes : Fails(n) \/ SendError(n) \/ CancelAll(n) \/ Stops(n)) \/ UNCHANGED process
  BY <1>1, <1>9 DEF Fails, SendError, CancelAll, Stops, process, NoneLater, UnderWayIsLater
<1> QED BY <1>3, <1>4, <1>5, <1>6, <1>7, <1>8, <1>9 DEF LoopNext

LEMMA TracedNext ==
    ASSUME LoopInv, [LoopNext]_process PROVE Traced'
<1> USE DEF watcher, signals
<1>1. LoopTypeOK /\ GapIsClear /\ UnderWayIsLater /\ Traced /\ missed \in BOOLEAN
  BY DEF LoopInv, LoopTypeOK
<1>2. file # Absent /\ root # Absent /\ file.v \in Nat /\ root.v \in Nat
  BY <1>1, VersionsCompare
<1>3. CASE Save \/ WatcherEnds \/ NextIteration
  <2>1. CASE Save
    <3>1. debounce' \/ missed'
      BY <2>1 DEF Save
    <3> QED BY <3>1 DEF Traced
  <2>2. CASE WatcherEnds
    <3>1. debounce => missed'
      BY <2>2 DEF WatcherEnds
    <3>2. missed => missed'
      BY <2>2 DEF WatcherEnds
    <3>3. UNCHANGED <<file, root, loading, reloadCh>>
      BY <2>2 DEF WatcherEnds
    <3> QED BY <1>1, <3>1, <3>2, <3>3 DEF Traced
  <2>3. CASE NextIteration
    <3>1. file # root => missed'
      BY <2>3 DEF NextIteration
    <3>2. UNCHANGED <<file, root>>
      BY <2>3 DEF NextIteration
    <3> QED BY <3>1, <3>2 DEF Traced
  <2> QED BY <1>3, <2>1, <2>2, <2>3
<1>4. CASE ReadFile
  BY <1>1, <1>4 DEF ReadFile, Traced
<1>5. CASE Offer
  BY <1>1, <1>2, <1>5 DEF Offer, Traced
<1>6. CASE TakeReload
  <2>1. root # file
    BY <1>1, <1>2, <1>6 DEF TakeReload, UnderWayIsLater
  <2> QED BY <1>1, <1>6, <2>1 DEF TakeReload, Traced
<1>7. CASE BeginIteration
  BY <1>1, <1>2, <1>7 DEF BeginIteration, Traced, GapIsClear
<1>8. CASE Signal \/ TakeSignal \/ GuardLeaves \/ TimeUp \/ LaunchNodes \/ EndProcess
  BY <1>1, <1>8 DEF Signal, TakeSignal, GuardLeaves, TimeUp, LaunchNodes, EndProcess, Traced
<1>9. CASE (\E n \in Nodes : Fails(n) \/ SendError(n) \/ CancelAll(n) \/ Stops(n)) \/ UNCHANGED process
  BY <1>1, <1>9 DEF Fails, SendError, CancelAll, Stops, process, Traced
<1> QED BY <1>3, <1>4, <1>5, <1>6, <1>7, <1>8, <1>9 DEF LoopNext

\* Once the watcher has nothing under way the nodes run the file's last version: no order
\* of saves, loads, reloads, signals and failures loses one, but in the gaps named.
THEOREM Settled == LoopSpec => []SettledOnFile
<1>1. LoopInv => SettledOnFile
  BY VersionsCompare DEF LoopInv, Traced, SettledOnFile
<1>2. LoopInv /\ [LoopNext]_process => LoopInv'
  BY LoopTypeNext, GapNext, LaterNext, TracedNext DEF LoopInv
<1> QED BY <1>1, <1>2, LoopInvInit, PTL DEF LoopSpec

-----------------------------------------------------------------------------
(***************************************************************************)
(* What becomes of a configuration file, whatever is in it.                *)
(***************************************************************************)
\* What of an instance that runs comes from where in the file.
Comes(e, f, top) ==
    \E g \in Given(f) : /\ e.dir = IF g.dir # Missing THEN g.dir
                                   ELSE IF top THEN Base ELSE Append(Base, <<"id", e.id>>)
                        /\ e.certs = IF g.certs # Missing THEN g.certs ELSE Append(e.dir, CertsPart)

LEMMA EntryTyped ==
    ASSUME NEW f \in Files, NEW e \in Given(f) \union {f.top}
    PROVE  /\ DOMAIN e = Fields
           /\ e.machine \in Nat /\ e.node \in Nat
           /\ e.standalone \in BOOLEAN /\ e.auto \in BOOLEAN /\ e.files \in BOOLEAN /\ e.content \in BOOLEAN
BY LayoutConstants

\* What each step of LoadRoot leaves alone.
LEMMA InheritedFields ==
    ASSUME NEW e, DOMAIN e = Fields, NEW top
    PROVE  LET x == Inherited(e, top)
           IN  /\ DOMAIN x = Fields /\ x.id = e.id /\ x.url = e.url /\ x.machine = e.machine
               /\ x.node = e.node /\ x.nodes = e.nodes /\ x.standalone = e.standalone
               /\ x.health = e.health /\ x.dir = e.dir /\ x.certs = e.certs
               /\ x.mode = (IF e.mode = "" THEN top.mode ELSE e.mode)
               /\ x.files = (e.files \/ top.files) /\ x.content = (e.content \/ top.content)
               /\ x.auto = (e.auto \/ (top.auto /\ x.mode = "" /\ ~x.files /\ ~x.content))
BY DEF Inherited, Fields

LEMMA OverriddenFields ==
    ASSUME NEW e, DOMAIN e = Fields
    PROVE  LET x == Overridden(e)
           IN  /\ DOMAIN x = Fields /\ x.id = e.id /\ x.url = e.url /\ x.machine = e.machine
               /\ x.nodes = e.nodes /\ x.standalone = e.standalone
               /\ x.health = e.health /\ x.dir = e.dir /\ x.certs = e.certs
               /\ x.mode = e.mode /\ x.files = e.files /\ x.content = e.content /\ x.auto = (e.auto \/ environment.auto)
BY DEF Overridden, Fields

LEMMA NamedFields ==
    ASSUME NEW e, DOMAIN e = Fields
    PROVE  LET x == Named(e)
           IN  /\ DOMAIN x = Fields /\ x.url = e.url /\ x.machine = e.machine
               /\ x.node = e.node /\ x.nodes = e.nodes /\ x.standalone = e.standalone
               /\ x.health = e.health /\ x.dir = e.dir /\ x.certs = e.certs
               /\ x.mode = e.mode /\ x.files = e.files /\ x.content = e.content /\ x.auto = e.auto
               /\ x.id = IF e.id = Missing THEN AutoInstanceID(e) ELSE <<"given", e.id>>
BY DEF Named, Fields

LEMMA PlacedFields ==
    ASSUME NEW e, DOMAIN e = Fields, NEW alone
    PROVE  LET x == Placed(e, alone)
           IN  /\ DOMAIN x = Fields /\ x.id = e.id /\ x.url = e.url /\ x.machine = e.machine
               /\ x.node = e.node /\ x.nodes = e.nodes /\ x.standalone = e.standalone
               /\ x.health = e.health
               /\ x.mode = e.mode /\ x.files = e.files /\ x.content = e.content /\ x.auto = e.auto
               /\ x.dir = IF e.dir # Missing THEN e.dir
                          ELSE IF alone THEN Base ELSE Append(Base, <<"id", e.id>>)
               /\ x.certs = IF e.certs = Missing THEN Append(x.dir, CertsPart) ELSE e.certs
BY DEF Placed, Fields

\* An ID that the file does not give is made from what the instance runs.
LEMMA AutoIDFields ==
    ASSUME NEW e, NEW x, x.standalone = e.standalone, x.machine = e.machine, x.url = e.url,
           x.node = e.node, x.nodes = e.nodes
    PROVE  AutoInstanceID(x) = AutoInstanceID(e)
BY DEF AutoInstanceID, Tally, ListedIn

LEMMA InstancesTyped ==
    ASSUME NEW f \in Files
    PROVE  /\ Len(InstancesOf(f)) \in Nat
           /\ DOMAIN InstancesOf(f) = 1..Len(InstancesOf(f))
           /\ f.instances # <<>> => DOMAIN InstancesOf(f) = DOMAIN f.instances
           /\ f.instances # <<>> => Len(InstancesOf(f)) = Len(f.instances)
<1>1. f.instances \in Seq(Given(f))
  BY LayoutConstants
<1>2. CASE f.instances = <<>>
  BY <1>2 DEF InstancesOf
<1>3. CASE f.instances # <<>>
  <2> DEFINE G(k) == Placed(Named(Overridden(Inherited(f.instances[k], f.top))), Len(f.instances) = 1)
  <2>1. InstancesOf(f) = [k \in DOMAIN f.instances |-> G(k)]
    BY <1>3 DEF InstancesOf
  <2> HIDE DEF G
  <2>2. Len(f.instances) \in Nat /\ DOMAIN f.instances = 1..Len(f.instances)
    BY <1>1
  <2> QED
    BY <1>3, <2>1, <2>2
<1> QED
  BY <1>2, <1>3

\* An instance that runs: its data is where the file says or where its ID says, and
\* its ID is the file's or made from what it runs.
LEMMA InstanceComes ==
    ASSUME NEW f \in Files, NEW k \in DOMAIN InstancesOf(f)
    PROVE  LET e == InstancesOf(f)[k]
           IN  /\ Comes(e, f, Len(InstancesOf(f)) = 1)
               /\ e.id[1] # "given" => e.id = AutoInstanceID(e)
               /\ e.machine \in Nat
<1> DEFINE e == InstancesOf(f)[k]
<1>1. CASE f.instances = <<>>
  <2> DEFINE o == Overridden(f.top)
             p == Placed(o, TRUE)
  <2>1. DOMAIN f.top = Fields /\ Given(f) = {f.top} /\ f.top.machine \in Nat
    BY <1>1, EntryTyped DEF Given
  <2>2. /\ DOMAIN o = Fields /\ o.dir = f.top.dir /\ o.certs = f.top.certs /\ o.machine = f.top.machine
    BY <2>1, OverriddenFields
  <2> HIDE DEF o
  <2>3. /\ DOMAIN p = Fields /\ p.url = o.url /\ p.machine = o.machine
        /\ p.node = o.node /\ p.nodes = o.nodes /\ p.standalone = o.standalone
        /\ p.dir = (IF o.dir # Missing THEN o.dir ELSE Base)
        /\ p.certs = (IF o.certs = Missing THEN Append(p.dir, CertsPart) ELSE o.certs)
    BY <2>2 DEF Placed, Fields
  <2>4. InstancesOf(f) = <<[p EXCEPT !.id = AutoInstanceID(o)]>>
    BY <1>1 DEF InstancesOf, o
  <2> HIDE DEF p
  <2>5. k = 1 /\ Len(InstancesOf(f)) = 1 /\ e = [p EXCEPT !.id = AutoInstanceID(o)]
    BY <2>4
  <2>6. /\ e.url = p.url /\ e.machine = p.machine /\ e.node = p.node /\ e.nodes = p.nodes
        /\ e.standalone = p.standalone /\ e.dir = p.dir /\ e.certs = p.certs
        /\ e.id = AutoInstanceID(o)
    BY <2>3, <2>5 DEF Fields
  <2> HIDE DEF e
  <2>7. AutoInstanceID(e) = AutoInstanceID(o)
    BY <2>3, <2>6, AutoIDFields
  <2>8. Comes(e, f, TRUE)
    BY <2>1, <2>2, <2>3, <2>6 DEF Comes
  <2> QED
    BY <2>1, <2>2, <2>3, <2>5, <2>6, <2>7, <2>8 DEF e
<1>2. CASE f.instances # <<>>
  <2> DEFINE g == f.instances[k]
             h == Inherited(g, f.top)
             o == Overridden(h)
             n == Named(o)
             alone == Len(f.instances) = 1
  <2>1. k \in DOMAIN f.instances /\ Len(InstancesOf(f)) = Len(f.instances)
    BY <1>2, InstancesTyped
  <2>2. g \in Given(f)
    BY <1>2, <2>1 DEF Given
  <2>3. e = Placed(n, alone)
    BY <1>2, <2>1 DEF InstancesOf
  <2>4. DOMAIN g = Fields /\ g.machine \in Nat
    BY <2>2, EntryTyped
  <2>5. DOMAIN h = Fields /\ h.dir = g.dir /\ h.certs = g.certs /\ h.machine = g.machine
    BY <2>4, InheritedFields, ZenonT(60)
  <2> HIDE DEF g, h, alone
  <2>6. DOMAIN o = Fields /\ o.dir = g.dir /\ o.certs = g.certs /\ o.machine = g.machine
    BY <2>5, OverriddenFields
  <2> HIDE DEF o
  <2>7. /\ DOMAIN n = Fields /\ n.url = o.url /\ n.machine = o.machine
        /\ n.node = o.node /\ n.nodes = o.nodes /\ n.standalone = o.standalone
        /\ n.dir = o.dir /\ n.certs = o.certs
        /\ n.id = IF o.id = Missing THEN AutoInstanceID(o) ELSE <<"given", o.id>>
    BY <2>6, NamedFields
  <2> HIDE DEF n
  <2>8. /\ e.id = n.id /\ e.url = n.url /\ e.machine = n.machine
        /\ e.node = n.node /\ e.nodes = n.nodes /\ e.standalone = n.standalone
        /\ e.dir = (IF n.dir # Missing THEN n.dir
                    ELSE IF alone THEN Base ELSE Append(Base, <<"id", n.id>>))
        /\ e.certs = (IF n.certs = Missing THEN Append(e.dir, CertsPart) ELSE n.certs)
    BY <2>3, <2>7, PlacedFields
  <2> HIDE DEF e
  <2>9. AutoInstanceID(e) = AutoInstanceID(o)
    BY <2>7, <2>8, AutoIDFields
  <2>10. e.id[1] # "given" => e.id = AutoInstanceID(e)
    BY <2>7, <2>8, <2>9
  <2>11. Comes(e, f, alone)
    BY <2>2, <2>6, <2>7, <2>8 DEF Comes
  <2> QED
    BY <2>1, <2>4, <2>6, <2>7, <2>8, <2>10, <2>11 DEF alone, e
<1> QED
  BY <1>1, <1>2

-----------------------------------------------------------------------------
\* No node of a panel is run through one spelling of its URL twice, and instances
\* that give neither a list nor an ID do not run one through two.
LEMMA LoadedRunOnce ==
    ASSUME started \in Files, Loads(started), StartsAll(started)
    PROVE  RunOnce
<1> SUFFICES ASSUME NEW j \in DOMAIN Running, NEW k \in DOMAIN Running, j # k,
                    NodeMode(Running[j]), NodeMode(Running[k]),
                    NEW a \in NodesOf(Running[j]), NEW b \in NodesOf(Running[k]),
                    PanelOf[a.url] = PanelOf[b.url], a.node = b.node
             PROVE  a.url # b.url /\ ~(Plain(Running[j]) /\ Plain(Running[k]))
  BY DEF RunOnce
<1>1. Running = InstancesOf(started)
  BY DEF Running
<1> DEFINE d == Running[j]
           e == Running[k]
<1>2. a \in ExpandNodes(d) /\ b \in ExpandNodes(e) /\ d.machine = 0 /\ e.machine = 0
        /\ ~d.standalone /\ ~e.standalone
  BY DEF NodesOf, NodeMode
<1>3. <<a.url, a.node>> # <<b.url, b.node>>
  BY <1>1, <1>2 DEF StartsAll
<1>4. d.id # e.id
  BY <1>1 DEF Loads
<1>5. ASSUME Plain(d), Plain(e) PROVE FALSE
  <2>1. d.id = AutoInstanceID(d) /\ e.id = AutoInstanceID(e) /\ d.nodes = <<>> /\ e.nodes = <<>>
    BY <1>1, <1>5, InstanceComes DEF Plain
  <2> HIDE DEF d, e
  <2>2. a = Node(d, d.node, d.dir, d.certs) /\ b = Node(e, e.node, e.dir, e.certs)
    BY <1>2, <2>1 DEF ExpandNodes
  <2>3. a.url = d.url /\ a.node = d.node /\ b.url = e.url /\ b.node = e.node
    BY <2>2 DEF Node
  <2>4. Tally(d) = Tally(e)
    BY <2>1, <2>3 DEF Tally
  <2>5. d.id = <<"node", PanelOf[d.url], Tally(d)>> /\ e.id = <<"node", PanelOf[e.url], Tally(e)>>
    BY <1>2, <2>1 DEF AutoInstanceID
  <2> QED
    BY <1>4, <2>3, <2>4, <2>5
<1> QED
  BY <1>3, <1>5

\* A sequence is another with an element appended if it is so element by element.
LEMMA Grows ==
    ASSUME NEW S, NEW s \in Seq(S), NEW x \in S, NEW u \in Seq(S), Len(u) = Len(s) + 1,
           \A i \in 1..Len(s) : u[i] = s[i], u[Len(s) + 1] = x
    PROVE  Append(s, x) = u
<1> DEFINE t == Append(s, x)
<1>1. t \in Seq(S) /\ Len(t) = Len(s) + 1 /\ t[Len(s) + 1] = x
  OBVIOUS
<1>2. \A i \in 1..Len(s) : t[i] = u[i]
  <2> SUFFICES ASSUME NEW i \in 1..Len(s) PROVE t[i] = u[i]
    OBVIOUS
  <2>1. t[i] = s[i]
    OBVIOUS
  <2> QED
    BY <2>1
<1> HIDE DEF t
<1>3. \A i \in 1..Len(u) : t[i] = u[i]
  <2> SUFFICES ASSUME NEW i \in 1..Len(u) PROVE t[i] = u[i]
    OBVIOUS
  <2>1. i \in 1..Len(s) \/ i = Len(s) + 1
    OBVIOUS
  <2> QED
    BY <1>1, <1>2, <2>1
<1> QED
  BY <1>1, <1>3 DEF t

\* Directories by their parts.
LEMMA PartsOfOne ==
    ASSUME NEW a, NEW b
    PROVE  Append(<<a>>, b) = <<a, b>>
<1> DEFINE S == {a, b}
           s == <<a>>
           u == <<a, b>>
<1>1. s \in Seq(S) /\ b \in S /\ u \in Seq(S) /\ Len(u) = Len(s) + 1 /\ u[Len(s) + 1] = b
  OBVIOUS
<1>2. Len(s) = 1 /\ u[1] = s[1]
  OBVIOUS
<1> HIDE DEF S, s, u
<1>3. \A i \in 1..Len(s) : u[i] = s[i]
  <2> SUFFICES ASSUME NEW i \in 1..Len(s) PROVE u[i] = s[i]
    OBVIOUS
  <2>1. i = 1
    BY <1>2
  <2> QED
    BY <1>2, <2>1
<1>4. Append(s, b) = u
  BY <1>1, <1>3, Grows
<1> QED
  BY <1>4 DEF s, u

LEMMA PartsOfTwo ==
    ASSUME NEW a, NEW b, NEW c
    PROVE  Append(<<a, b>>, c) = <<a, b, c>>
<1> DEFINE S == {a, b, c}
           s == <<a, b>>
           u == <<a, b, c>>
<1>1. s \in Seq(S) /\ c \in S /\ u \in Seq(S) /\ Len(u) = Len(s) + 1 /\ u[Len(s) + 1] = c
  OBVIOUS
<1>2. Len(s) = 2 /\ u[1] = s[1] /\ u[2] = s[2]
  OBVIOUS
<1> HIDE DEF S, s, u
<1>3. \A i \in 1..Len(s) : u[i] = s[i]
  <2> SUFFICES ASSUME NEW i \in 1..Len(s) PROVE u[i] = s[i]
    OBVIOUS
  <2>1. i = 1 \/ i = 2
    BY <1>2
  <2> QED
    BY <1>2, <2>1
<1>4. Append(s, c) = u
  BY <1>1, <1>3, Grows
<1> QED
  BY <1>4 DEF s, u

LEMMA PartsOfThree ==
    ASSUME NEW a, NEW b, NEW c, NEW d
    PROVE  Append(<<a, b, c>>, d) = <<a, b, c, d>>
<1> DEFINE S == {a, b, c, d}
           s == <<a, b, c>>
           u == <<a, b, c, d>>
<1>1. s \in Seq(S) /\ d \in S /\ u \in Seq(S) /\ Len(u) = Len(s) + 1 /\ u[Len(s) + 1] = d
  OBVIOUS
<1>2. Len(s) = 3 /\ u[1] = s[1] /\ u[2] = s[2] /\ u[3] = s[3]
  OBVIOUS
<1> HIDE DEF S, s, u
<1>3. \A i \in 1..Len(s) : u[i] = s[i]
  <2> SUFFICES ASSUME NEW i \in 1..Len(s) PROVE u[i] = s[i]
    OBVIOUS
  <2>1. i = 1 \/ i = 2 \/ i = 3
    BY <1>2
  <2> QED
    BY <1>2, <2>1
<1>4. Append(s, d) = u
  BY <1>1, <1>3, Grows
<1> QED
  BY <1>4 DEF s, u

\* The directory of a node is its instance's or one in it, its certificates are the
\* instance's or in its own directory, unless the file places one of them.
LEMMA NodePlaces ==
    ASSUME NEW e, ~NodeInFile(e), NEW a \in NodesOf(e)
    PROVE  /\ a.dir = e.dir \/ \E n : a.dir = Append(e.dir, <<"node", n>>)
           /\ a.certs = e.certs \/ a.certs = Append(a.dir, CertsPart) \/ CertsInFile(e)
<1>1. CASE e.machine > 0
  <2>1. PICK n \in DiscoveredIds : a = ExpandMachineNode(e, n)
    BY <1>1 DEF NodesOf
  <2>2. a.dir = Append(e.dir, <<"node", n>>) /\ a.certs = Append(a.dir, CertsPart)
    BY <2>1 DEF ExpandMachineNode, Node
  <2> QED
    BY <2>2
<1>2. CASE ~(e.machine > 0) /\ e.nodes = <<>>
  BY <1>2 DEF NodesOf, ExpandNodes, Node
<1>3. CASE ~(e.machine > 0) /\ e.nodes # <<>>
  <2>1. PICK k \in DOMAIN e.nodes : a = ExpandEntry(e, e.nodes[k])
    BY <1>3 DEF NodesOf, ExpandNodes
  <2>2. a.certs = e.certs \/ a.certs = Append(a.dir, CertsPart) \/ CertsInFile(e)
    BY <2>1 DEF ExpandEntry, Node, CertsInFile
  <2>3. e.nodes[k].kernel = Missing \/ e.nodes[k].kernel = <<>>
    BY DEF NodeInFile
  <2>4. a.dir = e.dir \/ a.dir = Append(e.dir, <<"node", e.nodes[k].node>>)
    BY <2>1, <2>3 DEF ExpandEntry, Node
  <2> QED
    BY <2>2, <2>4
<1> QED
  BY <1>1, <1>2, <1>3

\* The nodes of one instance.
LEMMA ApartInOne ==
    ASSUME started \in Files, StartsAll(started), NEW k \in DOMAIN Running, Loads(started),
           ~PlacedByFile(Running[k]),
           NEW a \in NodesOf(Running[k]), NEW b \in NodesOf(Running[k]), a # b
    PROVE  /\ a.dir = b.dir => \E n \in DOMAIN Running[k].nodes : Running[k].nodes[n].kernel # Missing
           /\ a.certs = b.certs => Running[k].nodes # <<>> \/ CertsInFile(Running[k])
<1> DEFINE e == Running[k]
           part == <<"id", e.id>>
<1>0. Running = InstancesOf(started)
  BY DEF Running
<1>1. e.machine \in Nat /\ ~NodeInFile(e) /\ Comes(e, started, Len(Running) = 1)
        /\ \A g \in Given(started) : g.dir # e.dir
  BY <1>0, InstanceComes DEF PlacedByFile, InFile
<1>2. e.dir = Base \/ e.dir = Append(Base, part)
  BY <1>1 DEF Comes
<1> DEFINE first == <<"dir", "base">>
<1>3. e.dir = <<first>> \/ e.dir = <<first, part>>
  BY <1>2, PartsOfOne, PartsOfTwo, PartsOfThree DEF Base
<1> HIDE DEF part, first
<1>4. CASE e.machine > 0
  <2>1. PICK m \in DiscoveredIds, n \in DiscoveredIds :
           a = ExpandMachineNode(e, m) /\ b = ExpandMachineNode(e, n)
    BY <1>4 DEF NodesOf
  <2>2. /\ a.dir = Append(e.dir, <<"node", m>>) /\ a.certs = Append(a.dir, CertsPart)
        /\ b.dir = Append(e.dir, <<"node", n>>) /\ b.certs = Append(b.dir, CertsPart)
        /\ m # n
    BY <2>1 DEF ExpandMachineNode, Node
  <2>3. <<"node", m>> # <<"node", n>>
    BY <2>2
  <2> DEFINE M == <<"node", m>>
             N == <<"node", n>>
  <2>4. a.dir = Append(e.dir, M) /\ b.dir = Append(e.dir, N) /\ M # N
    BY <2>2, <2>3
  <2>7. a.certs = Append(a.dir, CertsPart) /\ b.certs = Append(b.dir, CertsPart)
    BY <2>2
  <2> HIDE DEF M, N
  <2>5. CASE e.dir = <<first>>
    <3>1. a.dir = <<first, M>> /\ b.dir = <<first, N>>
      BY <2>4, <2>5, PartsOfOne, PartsOfTwo, PartsOfThree
    <3>2. a.certs = <<first, M, CertsPart>> /\ b.certs = <<first, N, CertsPart>>
      BY <2>7, <3>1, PartsOfTwo
    <3> QED
      BY <2>4, <3>1, <3>2
  <2>6. CASE e.dir = <<first, part>>
    <3>1. a.dir = <<first, part, M>> /\ b.dir = <<first, part, N>>
      BY <2>4, <2>6, PartsOfOne, PartsOfTwo, PartsOfThree
    <3>2. a.certs = <<first, part, M, CertsPart>> /\ b.certs = <<first, part, N, CertsPart>>
      BY <2>7, <3>1, PartsOfThree
    <3> QED
      BY <2>4, <3>1, <3>2
  <2> QED
    BY <1>3, <2>5, <2>6
<1>5. CASE e.machine = 0
  <2>1. e.nodes # <<>>
    BY <1>5 DEF NodesOf, ExpandNodes
  <2>2. ASSUME a.dir = b.dir, \A n \in DOMAIN e.nodes : e.nodes[n].kernel = Missing
        PROVE  FALSE
    <3>1. PICK m \in DOMAIN e.nodes, n \in DOMAIN e.nodes :
             a = ExpandEntry(e, e.nodes[m]) /\ b = ExpandEntry(e, e.nodes[n])
      BY <1>5, <2>1 DEF NodesOf, ExpandNodes
    <3>2. m # n
      BY <3>1
    <3>3. e.nodes[m].node # e.nodes[n].node
      BY <1>0, <1>5, <3>2 DEF StartsAll
    <3> DEFINE M == <<"node", e.nodes[m].node>>
               N == <<"node", e.nodes[n].node>>
    <3>4. M # N
      BY <3>3
    <3>5. a.dir = Append(e.dir, M) /\ b.dir = Append(e.dir, N)
      BY <2>2, <3>1 DEF ExpandEntry, Node
    <3>8. a.dir = b.dir
      BY <2>2
    <3> HIDE DEF M, N
    <3>6. CASE e.dir = <<first>>
      <4>1. a.dir = <<first, M>> /\ b.dir = <<first, N>>
        BY <3>5, <3>6, PartsOfOne
      <4>2. <<first, M>>[2] = M /\ <<first, N>>[2] = N
        OBVIOUS
      <4> QED
        BY <3>4, <3>8, <4>1, <4>2
    <3>7. CASE e.dir = <<first, part>>
      <4>1. a.dir = <<first, part, M>> /\ b.dir = <<first, part, N>>
        BY <3>5, <3>7, PartsOfTwo
      <4>2. <<first, part, M>>[3] = M /\ <<first, part, N>>[3] = N
        OBVIOUS
      <4> QED
        BY <3>4, <3>8, <4>1, <4>2
    <3> QED
      BY <1>3, <3>6, <3>7
  <2> QED
    BY <2>1, <2>2
<1> QED
  BY <1>1, <1>4, <1>5

\* The nodes of two instances: their IDs tell the directories apart.
LEMMA ApartInTwo ==
    ASSUME started \in Files, Loads(started),
           NEW j \in DOMAIN Running, NEW k \in DOMAIN Running, j # k,
           ~PlacedByFile(Running[j]), ~PlacedByFile(Running[k]),
           NEW a \in NodesOf(Running[j]), NEW b \in NodesOf(Running[k])
    PROVE  a.dir # b.dir /\ (a.certs = b.certs => CertsInFile(Running[j]) \/ CertsInFile(Running[k]))
<1> DEFINE d == Running[j]
           e == Running[k]
           first == <<"dir", "base">>
           D == <<"id", d.id>>
           E == <<"id", e.id>>
<1>0. Running = InstancesOf(started)
  BY DEF Running
<1>1. Len(Running) # 1
  BY <1>0, InstancesTyped
<1>2. /\ Comes(d, started, FALSE) /\ Comes(e, started, FALSE)
      /\ ~NodeInFile(d) /\ ~NodeInFile(e)
      /\ \A g \in Given(started) : g.dir # d.dir /\ g.dir # e.dir
  BY <1>0, <1>1, InstanceComes DEF PlacedByFile, InFile, Comes
<1>3. D # E
  BY <1>0 DEF Loads
<1>4. d.dir = <<first, D>> /\ e.dir = <<first, E>>
  BY <1>2, PartsOfOne, PartsOfTwo, PartsOfThree DEF Comes, Base
<1>5. /\ CertsInFile(d) \/ d.certs = Append(d.dir, CertsPart)
      /\ CertsInFile(e) \/ e.certs = Append(e.dir, CertsPart)
  BY <1>2 DEF Comes, CertsInFile
<1>6. /\ a.dir = d.dir \/ \E n : a.dir = Append(d.dir, <<"node", n>>)
      /\ a.certs = d.certs \/ a.certs = Append(a.dir, CertsPart) \/ CertsInFile(d)
      /\ b.dir = e.dir \/ \E n : b.dir = Append(e.dir, <<"node", n>>)
      /\ b.certs = e.certs \/ b.certs = Append(b.dir, CertsPart) \/ CertsInFile(e)
  BY <1>2, NodePlaces
<1> HIDE DEF D, E, first, d, e
<1>7. /\ a.dir = <<first, D>> \/ \E x : a.dir = <<first, D, x>>
      /\ b.dir = <<first, E>> \/ \E x : b.dir = <<first, E, x>>
  BY <1>4, <1>6, PartsOfOne, PartsOfTwo, PartsOfThree
<1>8. a.dir # b.dir
  BY <1>3, <1>7
<1>9. ASSUME ~CertsInFile(d), ~CertsInFile(e)
      PROVE  a.certs # b.certs
  <2>1. a.certs = <<first, D, CertsPart>> \/ \E x : a.certs = <<first, D, x, CertsPart>>
    <3>1. a.certs = Append(<<first, D>>, CertsPart) \/ a.certs = Append(a.dir, CertsPart)
      BY <1>4, <1>5, <1>6, <1>9
    <3>2. ASSUME NEW x, a.dir = <<first, D, x>>, a.certs = Append(a.dir, CertsPart)
          PROVE  a.certs = <<first, D, x, CertsPart>>
      BY <3>2, PartsOfThree
    <3>3. Append(<<first, D>>, CertsPart) = <<first, D, CertsPart>>
      BY PartsOfTwo
    <3> QED
      BY <1>7, <3>1, <3>2, <3>3
  <2>2. b.certs = <<first, E, CertsPart>> \/ \E x : b.certs = <<first, E, x, CertsPart>>
    <3>1. b.certs = Append(<<first, E>>, CertsPart) \/ b.certs = Append(b.dir, CertsPart)
      BY <1>4, <1>5, <1>6, <1>9
    <3>2. ASSUME NEW x, b.dir = <<first, E, x>>, b.certs = Append(b.dir, CertsPart)
          PROVE  b.certs = <<first, E, x, CertsPart>>
      BY <3>2, PartsOfThree
    <3>3. Append(<<first, E>>, CertsPart) = <<first, E, CertsPart>>
      BY PartsOfTwo
    <3> QED
      BY <1>7, <3>1, <3>2, <3>3
  <2> QED
    BY <1>3, <2>1, <2>2
<1> QED
  BY <1>8, <1>9 DEF d, e

LEMMA LoadedApart ==
    ASSUME started \in Files, Loads(started), StartsAll(started)
    PROVE  DataApart
<1> SUFFICES ASSUME NEW j \in DOMAIN Running, NEW k \in DOMAIN Running,
                    NEW a \in NodesOf(Running[j]), NEW b \in NodesOf(Running[k]), a # b,
                    ~PlacedByFile(Running[j]), ~PlacedByFile(Running[k])
             PROVE  /\ a.dir = b.dir =>
                          j = k /\ \E n \in DOMAIN Running[k].nodes : Running[k].nodes[n].kernel # Missing
                    /\ a.certs = b.certs => \/ j = k /\ Running[k].nodes # <<>>
                                           \/ CertsInFile(Running[j]) \/ CertsInFile(Running[k])
  BY DEF DataApart
<1>1. CASE j = k
  BY <1>1, ApartInOne
<1>2. CASE j # k
  BY <1>2, ApartInTwo
<1> QED
  BY <1>1, <1>2

LEMMA LoadedStays ==
    ASSUME started \in Files, preceding \in Files
    PROVE  DataStays
<1> DEFINE before == InstancesOf(preceding)
<1> SUFFICES ASSUME Len(before) > 1 <=> Len(Running) > 1,
                    NEW j \in DOMAIN before, NEW k \in DOMAIN Running,
                    before[j].id = Running[k].id,
                    ~InFile(Running[k], started), ~InFile(before[j], preceding)
             PROVE  before[j].dir = Running[k].dir
  BY DEF DataStays
<1>0. Running = InstancesOf(started)
  BY DEF Running
<1>1. Comes(before[j], preceding, Len(before) = 1) /\ Comes(Running[k], started, Len(Running) = 1)
  BY <1>0, InstanceComes
<1>2. Len(before) = 1 <=> Len(Running) = 1
  <2>1. Len(before) \in Nat /\ DOMAIN before = 1..Len(before)
    BY InstancesTyped
  <2>2. Len(Running) \in Nat /\ DOMAIN Running = 1..Len(Running)
    BY <1>0, InstancesTyped
  <2> HIDE DEF before
  <2> QED
    BY <2>1, <2>2
<1> QED
  BY <1>1, <1>2 DEF Comes, InFile

LEMMA NotEmpty ==
    ASSUME NEW S, NEW s \in Seq(S), NEW k \in DOMAIN s
    PROVE  s # <<>>
<1>1. DOMAIN s = 1..Len(s) /\ Len(s) \in Nat
  OBVIOUS
<1>2. k \in 1..Len(s)
  BY <1>1
<1> QED
  BY <1>2

LEMMA LoadedCert ==
    ASSUME started \in Files, environment.auto \in BOOLEAN
    PROVE  CertAsChosen
<1> SUFFICES ASSUME NEW k \in DOMAIN started.instances,
                    \/ started.instances[k].mode # "" \/ started.instances[k].content
                    \/ (started.instances[k].files /\ ~started.top.content),
                    started.top.mode = "", ~environment.auto
             PROVE  Strategy(Running[k]) = Strategy(started.instances[k])
  BY DEF CertAsChosen
<1>0. started.instances # <<>> /\ started.instances[k] \in Given(started)
  <2>1. started.instances \in Seq(Given(started))
    BY LayoutConstants
  <2>2. k \in DOMAIN started.instances
    OBVIOUS
  <2>3. started.instances # <<>>
    BY <2>1, <2>2, NotEmpty
  <2> QED
    BY <2>3 DEF Given
<1> DEFINE g == started.instances[k]
           h == Inherited(g, started.top)
           o == Overridden(h)
           n == Named(o)
           alone == Len(started.instances) = 1
<1>1. started.instances # <<>> /\ g \in Given(started)
  BY <1>0
<1>2. Running[k] = Placed(n, alone)
  BY <1>1 DEF Running, InstancesOf
<1>3. DOMAIN g = Fields /\ g.files \in BOOLEAN /\ g.content \in BOOLEAN /\ g.auto \in BOOLEAN
  BY <1>1, EntryTyped
<1> HIDE DEF g, alone
<1>4. /\ DOMAIN h = Fields /\ h.mode = (IF g.mode = "" THEN started.top.mode ELSE g.mode)
      /\ h.files = (g.files \/ started.top.files) /\ h.content = (g.content \/ started.top.content)
      /\ h.auto = (g.auto \/ (started.top.auto /\ h.mode = "" /\ ~h.files /\ ~h.content))
  BY <1>3 DEF Inherited, Fields
<1> HIDE DEF h
<1>5. DOMAIN o = Fields /\ o.mode = h.mode /\ o.files = h.files /\ o.content = h.content /\ o.auto = (h.auto \/ environment.auto)
  BY <1>4, OverriddenFields
<1> HIDE DEF o
<1>6. DOMAIN n = Fields /\ n.mode = o.mode /\ n.files = o.files /\ n.content = o.content /\ n.auto = o.auto
  BY <1>5, NamedFields
<1> HIDE DEF n
<1>7. Running[k].mode = n.mode /\ Running[k].files = n.files /\ Running[k].content = n.content /\ Running[k].auto = n.auto
  <2>1. LET x == Placed(n, alone) IN x.mode = n.mode /\ x.files = n.files /\ x.content = n.content /\ x.auto = n.auto
    BY <1>6 DEF Placed, Fields
  <2> QED
    BY <1>2, <2>1
<1>8. g.mode # "" \/ g.content \/ (g.files /\ ~started.top.content)
  BY DEF g
<1>9. Strategy(Running[k]) = Strategy(g)
  BY <1>3, <1>4, <1>5, <1>6, <1>7, <1>8 DEF Strategy
<1> QED
  BY <1>9 DEF g

\* What runs was loaded and may be started; so was what it took over from.
LayoutInv == /\ environment \in Environments
             /\ started # Missing => started \in Files /\ Loads(started) /\ StartsAll(started)
             /\ preceding # Missing => preceding \in Files

\* However the file is changed, whatever files there may be: the nodes that run share no
\* data nor certificates, no two instances have a node in common, their data stays where it
\* is when others come and go, and they get their certificate as they chose, all but for
\* what the parts of LayoutSound except.
THEOREM LayoutsAreSound == LayoutSpec => []LayoutSound
<1>1. LayoutInit => LayoutInv
  BY DEF LayoutInit, LayoutInv
<1>2. LayoutInv /\ [LayoutNext]_layout => LayoutInv'
  <2> SUFFICES ASSUME LayoutInv, [LayoutNext]_layout PROVE LayoutInv'
    OBVIOUS
  <2>1. environment' = environment
    BY DEF LayoutNext, ReloadFile, layout
  <2>2. \A f : Loads(f)' <=> Loads(f)
    BY <2>1 DEF Loads, InstancesOf, Overridden
  <2>3. \A f : StartsAll(f)' <=> StartsAll(f)
    BY <2>1 DEF StartsAll, InstancesOf, Overridden
  <2>4. CASE UNCHANGED layout
    BY <2>1, <2>2, <2>3, <2>4 DEF LayoutInv, layout
  <2>5. ASSUME NEW f \in Files, ReloadFile(f) PROVE LayoutInv'
    BY <2>1, <2>2, <2>3, <2>5 DEF LayoutInv, ReloadFile
  <2> QED
    BY <2>4, <2>5 DEF LayoutNext
<1>3. LayoutInv => LayoutSound
  <2> SUFFICES ASSUME LayoutInv, started # Missing PROVE RunOnce /\ DataApart /\ DataStays /\ CertAsChosen
    BY DEF LayoutSound
  <2>1. started \in Files /\ Loads(started) /\ StartsAll(started) /\ environment.auto \in BOOLEAN
    BY LayoutConstants DEF LayoutInv
  <2>2. DataStays
    BY <2>1, LoadedStays DEF LayoutInv, DataStays
  <2> QED
    BY <2>1, <2>2, LoadedRunOnce, LoadedApart, LoadedCert
<1> QED
  BY <1>1, <1>2, <1>3, PTL DEF LayoutSpec
==============================================================================
