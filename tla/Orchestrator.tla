---------------------------- MODULE Orchestrator -----------------------------
(***************************************************************************)
(* One node of a machine (internal/machine/machine.go): discovery starts   *)
(* and stops it, on the main loop and on a goroutine for each sync.nodes   *)
(* event; a node that dies is started again by a timer.  Every pass of     *)
(* discovery, every timer and every node is a goroutine of its own, and    *)
(* the maps are read and written in short critical sections.               *)
(*                                                                         *)
(* A node that runs again under its ID is another handle.  The wait before *)
(* a restart is over at some time; its length is left out.                 *)
(* statuses[id] is left out: unregisterNode deletes it together with       *)
(* mailboxes[id].                                                          *)
(***************************************************************************)
EXTENDS Naturals, FiniteSets

CONSTANTS
    Handles,    \* nodeHandle values alive at a time
    Passes,     \* passes of discovery and restarts by timer at a time
    Main,       \* the pass of the main loop
    MaxTimers,  \* bound of the model on pending timers
    Gone        \* nil

ASSUME OrchestratorConstants ==
    /\ Main \in Passes /\ Gone \notin Handles /\ MaxTimers \in Nat \ {0}
    /\ IsFiniteSet(Handles)

VARIABLES
    wanted,   \* wanted has the node
    node,     \* nodes[id]
    mailbox,  \* the handle of mailboxes[id]
    retry,    \* retry[id]: "none", "waiting" before next, "due" after it
    timers,   \* AfterFunc timers that have not fired
    handle,   \* the handles
    pass,     \* the passes
    ending    \* Run's context is done

machine == <<wanted, node, mailbox, retry, timers, handle, pass, ending>>

\* registered: in nodes; routed: in mailboxes too; up: svc.Run; down: it returned;
\* closed: unregistered, and done is closed; failing: about to call nodeFailed.
Handle == [at : {"registered", "routed", "up", "down", "closed", "failing", "ended"},
           cancelled : BOOLEAN,
           overlap : BOOLEAN]   \* history: the node's last handle was still about

NoHandle == [at |-> "ended", cancelled |-> FALSE, overlap |-> FALSE]

Pass == [at : {"idle", "fetched", "set", "removed", "unrouted", "waiting",
               "starting", "started", "finishing", "finished"},
         has : BOOLEAN, target : Handles \union {Gone}]

NoPass == [at |-> "idle", has |-> FALSE, target |-> Gone]

MachineTypeOK ==
    /\ wanted \in BOOLEAN /\ ending \in BOOLEAN
    /\ node \in Handles \union {Gone} /\ mailbox \in Handles \union {Gone}
    /\ retry \in {"none", "waiting", "due"} /\ timers \in 0..MaxTimers
    /\ handle \in [Handles -> Handle]
    /\ pass \in [Passes -> Pass]

\* The orchestrator before Run has done anything, and after the end of its context.
MachineAt(end) ==
    /\ wanted = FALSE /\ ending = end
    /\ node = Gone /\ mailbox = Gone
    /\ retry = "none" /\ timers = 0
    /\ handle = [h \in Handles |-> NoHandle]
    /\ pass = [p \in Passes |-> NoPass]

MachineInit == MachineAt(FALSE)

\* Mutant of Done: done is closed before the node is unregistered.
DoneOnReturn(h) == handle[h].at \in {"down", "closed", "failing", "ended"}

\* The handle's done channel is closed.
Done(h) == handle[h].at \in {"closed", "failing", "ended"}

PassAt(p, at) == pass' = [pass EXCEPT ![p].at = at]
PassEnds(p)   == pass' = [pass EXCEPT ![p] = NoPass]

-----------------------------------------------------------------------------
(***************************************************************************)
(* rediscover, and the start of Run.  A failed fetch does nothing; any     *)
(* other finds the node or not, as the panel has it then.                  *)
(***************************************************************************)
Fetch(p) ==
    /\ pass[p].at = "idle" /\ ~ending
    /\ \E has \in BOOLEAN :
          pass' = [pass EXCEPT ![p] = [at |-> "fetched", has |-> has, target |-> Gone]]
    /\ UNCHANGED <<wanted, node, mailbox, retry, timers, handle, ending>>

SetWanted(p) ==
    /\ pass[p].at = "fetched"
    /\ wanted' = pass[p].has
    /\ retry' = IF pass[p].has THEN retry ELSE "none"
    /\ PassAt(p, IF pass[p].has THEN "starting" ELSE "set")
    /\ UNCHANGED <<node, mailbox, timers, handle, ending>>

\* Nothing to remove, when toRemove is computed or when stopNode looks again.
NotRunning(p) ==
    /\ pass[p].at = "set" /\ node = Gone
    /\ PassEnds(p)
    /\ UNCHANGED <<wanted, node, mailbox, retry, timers, handle, ending>>

\* stopNode: out of nodes, out of mailboxes, cancel, wait.
Unlist(p) ==
    /\ pass[p].at = "set" /\ node # Gone
    /\ node' = Gone
    /\ pass' = [pass EXCEPT ![p].at = "removed", ![p].target = node]
    /\ UNCHANGED <<wanted, mailbox, retry, timers, handle, ending>>

Unroute(p) ==
    /\ pass[p].at = "removed"
    /\ mailbox' = Gone
    /\ PassAt(p, "unrouted")
    /\ UNCHANGED <<wanted, node, retry, timers, handle, ending>>

Cancel(p) ==
    /\ pass[p].at = "unrouted"
    /\ handle' = [handle EXCEPT ![pass[p].target].cancelled = TRUE]
    /\ PassAt(p, "waiting")
    /\ UNCHANGED <<wanted, node, mailbox, retry, timers, ending>>

Await(p) ==
    /\ pass[p].at = "waiting" /\ Done(pass[p].target)
    /\ PassEnds(p)
    /\ UNCHANGED <<wanted, node, mailbox, retry, timers, handle, ending>>

(***************************************************************************)
(* startNode, of a pass or of a timer.                                     *)
(***************************************************************************)
StartNothing(p) ==
    /\ pass[p].at = "starting"
    /\ node # Gone \/ retry = "waiting"
    /\ PassEnds(p)
    /\ UNCHANGED <<wanted, node, mailbox, retry, timers, handle, ending>>

\* A handle of the node that is still to be unregistered, or a pass that is still
\* to take the node's mailbox away.
LastStillAbout ==
    \/ \E h \in Handles : ~Done(h)
    \/ \E p \in Passes : pass[p].at = "removed"

\* No pass waits for the handle, and its goroutine is over: it can be another one.
Unused(h) == handle[h].at = "ended" /\ \A p \in Passes : pass[p].target # h

StartNode(p) ==
    /\ pass[p].at = "starting"
    /\ node = Gone /\ retry # "waiting"
    /\ \E h \in Handles :
          /\ Unused(h)
          /\ node' = h
          /\ handle' = [handle EXCEPT ![h] =
                [NoHandle EXCEPT !.at = "registered", !.cancelled = ending,
                                 !.overlap = LastStillAbout]]
          /\ pass' = [pass EXCEPT ![p].at = "started", ![p].target = h]
    /\ UNCHANGED <<wanted, mailbox, retry, timers, ending>>

Route(p) ==
    /\ pass[p].at = "started" /\ handle[pass[p].target].at = "registered"
    /\ mailbox' = pass[p].target
    /\ handle' = [handle EXCEPT ![pass[p].target].at = "routed"]
    /\ UNCHANGED <<wanted, node, retry, timers, pass, ending>>

\* Once the kernel has been chosen by a request to the panel, the goroutine starts.
Launch(p) ==
    /\ pass[p].at = "started" /\ handle[pass[p].target].at = "routed"
    /\ handle' = [handle EXCEPT ![pass[p].target].at = "up"]
    /\ PassEnds(p)
    /\ UNCHANGED <<wanted, node, mailbox, retry, timers, ending>>

-----------------------------------------------------------------------------
(***************************************************************************)
(* The node's goroutine.                                                   *)
(***************************************************************************)
\* svc.Run returns nil or an error; whatever it is, Leave asks for the context too.
Return(h) ==
    /\ handle[h].at = "up"
    /\ handle' = [handle EXCEPT ![h].at = "down"]
    /\ UNCHANGED <<wanted, node, mailbox, retry, timers, pass, ending>>

\* unregisterNode goes by the ID, whoever is registered under it by now.
UnregisterNode(h) ==
    /\ handle[h].at = "down"
    /\ mailbox' = Gone
    /\ handle' = [handle EXCEPT ![h].at = "closed"]
    /\ UNCHANGED <<wanted, node, retry, timers, pass, ending>>

\* The end of the goroutine of a node that was stopped, or the step to nodeFailed.
Leave(h) ==
    /\ handle[h].at = "closed"
    /\ handle' = [handle EXCEPT ![h] =
          IF @.cancelled THEN NoHandle ELSE [@ EXCEPT !.at = "failing"]]
    /\ UNCHANGED <<wanted, node, mailbox, retry, timers, pass, ending>>

\* More timers than the bound count as the bound.
AddTimer == timers' = IF timers < MaxTimers THEN timers + 1 ELSE MaxTimers

\* Mutant of NodeFailed: whichever handle is in nodes goes.
NodeFailedAny(h) ==
    /\ handle[h].at = "failing"
    /\ node' = Gone
    /\ retry' = "waiting" /\ AddTimer
    /\ handle' = [handle EXCEPT ![h] = NoHandle]
    /\ UNCHANGED <<wanted, mailbox, pass, ending>>

\* Mutant of NodeFailed: the dead handle stays in nodes.
NodeFailedStays(h) ==
    /\ handle[h].at = "failing"
    /\ retry' = "waiting" /\ AddTimer
    /\ handle' = [handle EXCEPT ![h] = NoHandle]
    /\ UNCHANGED <<wanted, node, mailbox, pass, ending>>

NodeFailed(h) ==
    /\ handle[h].at = "failing"
    /\ node' = IF node = h THEN Gone ELSE node
    /\ retry' = "waiting" /\ AddTimer
    /\ handle' = [handle EXCEPT ![h] = NoHandle]
    /\ UNCHANGED <<wanted, mailbox, pass, ending>>

\* The wait of the last failure is over.
RetryDue ==
    /\ retry = "waiting"
    /\ retry' = "due"
    /\ UNCHANGED <<wanted, node, mailbox, timers, handle, pass, ending>>

\* The timer of an earlier failure may fire while the last one's wait goes on.
FireTimer(p) ==
    /\ timers > (IF retry = "waiting" THEN 1 ELSE 0)
    /\ p # Main /\ pass[p].at = "idle"
    /\ timers' = timers - 1
    /\ IF ending THEN UNCHANGED <<retry, pass>>
       ELSE IF wanted THEN PassAt(p, "starting") /\ UNCHANGED retry
       ELSE retry' = "none" /\ UNCHANGED pass
    /\ UNCHANGED <<wanted, node, mailbox, handle, ending>>

-----------------------------------------------------------------------------
\* The end of Run's context ends the contexts of its nodes.
Shutdown ==
    /\ ~ending /\ ending' = TRUE
    /\ handle' = [h \in Handles |->
          [handle[h] EXCEPT !.cancelled = IF handle[h].at = "ended" THEN @ ELSE TRUE]]
    /\ UNCHANGED <<wanted, node, mailbox, retry, timers, pass>>

\* stopAll waits for the handles it finds.
StopAll ==
    /\ ending /\ pass[Main].at = "idle"
    /\ pass' = [pass EXCEPT ![Main].at = "finishing", ![Main].target = node]
    /\ UNCHANGED <<wanted, node, mailbox, retry, timers, handle, ending>>

Finish ==
    /\ pass[Main].at = "finishing"
    /\ pass[Main].target # Gone => Done(pass[Main].target)
    /\ pass' = [pass EXCEPT ![Main] = [NoPass EXCEPT !.at = "finished"]]
    /\ UNCHANGED <<wanted, node, mailbox, retry, timers, handle, ending>>

-----------------------------------------------------------------------------
PassNext(p) ==
    \/ SetWanted(p) \/ NotRunning(p) \/ Unlist(p) \/ Unroute(p) \/ Cancel(p) \/ Await(p)
    \/ StartNothing(p) \/ StartNode(p) \/ Route(p) \/ Launch(p)

\* The goroutine of a node, once its service has been told to end.
NodeNext(h) == UnregisterNode(h) \/ Leave(h) \/ NodeFailed(h)
NodeEnds(h) == NodeNext(h) \/ (handle[h].cancelled /\ Return(h))

MachineNext ==
    \/ RetryDue \/ Shutdown \/ StopAll \/ Finish
    \/ \E p \in Passes : Fetch(p) \/ PassNext(p) \/ FireTimer(p)
    \/ \E h \in Handles : Return(h) \/ NodeNext(h)

\* Goroutines go on, a cancelled service returns, waits end, and the main loop's
\* ticker asks the panel again and again.
MachineFairness ==
    /\ WF_machine(Fetch(Main)) /\ WF_machine(RetryDue)
    /\ \A p \in Passes : WF_machine(PassNext(p))
    /\ \A p \in Passes \ {Main} : WF_machine(FireTimer(p))
    /\ \A h \in Handles : WF_machine(NodeEnds(h))

MachineSpec == MachineInit /\ [][MachineNext]_machine /\ MachineFairness

-----------------------------------------------------------------------------
\* A service that is not in nodes, and so can no longer be stopped, has been told to
\* end, or a discovery that took it out is about to tell it.
NoOrphans ==
    \A h \in Handles :
        Done(h) \/ node = h \/ handle[h].cancelled
        \/ \E p \in Passes : pass[p].target = h /\ pass[p].at \in {"removed", "unrouted"}

\* The events of a node in nodes reach its mailbox, unless it was started while the last
\* one of its ID was not yet unregistered: that one takes the mailbox of both away.
MailboxUnlessOverlap ==
    \A h \in Handles :
        node = h /\ handle[h].at \in {"routed", "up"} /\ ~handle[h].overlap
            => mailbox = h

\* A node the panel lists runs again and again, however often it fails: no order of
\* discoveries, failures and timers leaves a dead handle in the way of its restart.
WantedRuns ==
    []<>(ending \/ ~wanted \/ \E h \in Handles : node = h /\ handle[h].at = "up")
=============================================================================
