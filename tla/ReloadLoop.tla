------------------------------ MODULE ReloadLoop ------------------------------
(***************************************************************************)
(* The main loop of the process (cmd/xboard-node/main.go, runWithReload)   *)
(* with its config watcher (internal/config/watcher.go): every iteration   *)
(* runs the nodes of one configuration until the file changes, a signal    *)
(* comes or a node dies.  The nodes are those of instances in node mode;   *)
(* the health port is left out.  A save that takes longer to load than the *)
(* debounce, so that two loads overlap, is left out too.                   *)
(***************************************************************************)
EXTENDS Naturals

CONSTANTS
    Nodes,      \* the nodes of the configuration
    Instances,  \* how many instances they belong to: the slots of errCh
    MaxSaves,   \* bound of the model on saves of the file
    Absent      \* no configuration

ASSUME ReloadConstants ==
    /\ Instances \in Nat \ {0} /\ MaxSaves \in Nat
    /\ Absent \notin [v : Nat, is : {"good", "bad", "clash"}]

VARIABLES
    file,       \* version and quality of the file
    root,       \* version this iteration runs
    stage,      \* where runWithReload is
    watching,   \* the watcher's loop runs
    debounce,   \* its timer is set
    loading,    \* version reload has read and not yet handed over
    reloadCh,   \* the version in reloadCh
    unit,       \* the nodes
    errs,       \* errors in errCh
    cancelled,  \* the iteration's context is done
    sigCh,      \* a signal is in sigCh
    guard,      \* the goroutine that waits for it
    doomed,     \* a guard of an earlier iteration counts its 15 seconds
    missed      \* history: the last save was left unapplied by a known gap

process == <<file, root, stage, watching, debounce, loading, reloadCh, unit, errs,
             cancelled, sigCh, guard, doomed, missed>>

Versions == 0..MaxSaves

\* bad: LoadRoot refuses it.  clash: it loads, but its instances cannot start together.
Qualities == {"good", "bad", "clash"}

LoopTypeOK ==
    /\ file \in [v : Versions, is : Qualities] /\ root \in [v : Versions, is : {"good", "clash"}]
    /\ stage \in {"gap", "begun", "run", "reload", "exited"}
    /\ watching \in BOOLEAN /\ debounce \in BOOLEAN
    /\ loading \in [v : Versions, is : {"good", "clash"}] \union {Absent}
    /\ reloadCh \in [v : Versions, is : {"good", "clash"}] \union {Absent}
    /\ unit \in [Nodes -> {"off", "up", "failed", "sending", "done"}]
    /\ errs \in 0..Instances
    /\ cancelled \in BOOLEAN /\ sigCh \in BOOLEAN /\ doomed \in BOOLEAN /\ missed \in BOOLEAN
    /\ guard \in {"none", "waiting", "armed", "gone"}

\* runWithReload before an iteration, and a process that has ended.
LoopAt(st) ==
    /\ file = [v |-> 0, is |-> "good"] /\ root = file
    /\ stage = st /\ watching = FALSE /\ debounce = FALSE
    /\ loading = Absent /\ reloadCh = Absent
    /\ unit = [n \in Nodes |-> "off"] /\ errs = 0
    /\ cancelled = FALSE /\ sigCh = FALSE /\ guard = "none" /\ doomed = FALSE
    /\ missed = FALSE

LoopInit == LoopAt("gap")

watcher == <<watching, debounce, loading, reloadCh>>
signals == <<sigCh, guard, doomed>>

-----------------------------------------------------------------------------
(***************************************************************************)
(* The file and its watcher.                                               *)
(***************************************************************************)
\* Mutant of Save: only writes count, not the Create of a save by rename.
SaveInPlace ==
    /\ stage # "exited" /\ file.v < MaxSaves
    /\ \E is \in Qualities : file' = [v |-> file.v + 1, is |-> is]
    /\ \E renamed \in BOOLEAN : debounce' = (watching /\ (debounce \/ ~renamed))
    /\ missed' = ~watching
    /\ UNCHANGED <<root, stage, watching, loading, reloadCh, unit, errs, cancelled, signals>>

\* The event sets the timer, or sets it again.
Save ==
    /\ stage # "exited" /\ file.v < MaxSaves
    /\ \E is \in Qualities : file' = [v |-> file.v + 1, is |-> is]
    /\ debounce' = watching
    /\ missed' = ~watching
    /\ UNCHANGED <<root, stage, watching, loading, reloadCh, unit, errs, cancelled, signals>>

ReadFile ==
    /\ stage # "exited" /\ debounce /\ loading = Absent
    /\ debounce' = FALSE
    /\ loading' = IF file.is = "bad" THEN Absent ELSE file
    /\ UNCHANGED <<file, root, stage, watching, reloadCh, unit, errs, cancelled, signals, missed>>

\* onChange: the channel holds one; a second is dropped.
Offer ==
    /\ stage # "exited" /\ loading # Absent
    /\ loading' = Absent
    /\ reloadCh' = IF reloadCh = Absent THEN loading ELSE reloadCh
    /\ missed' = (missed \/ (reloadCh # Absent /\ loading = file))
    /\ UNCHANGED <<file, root, stage, watching, debounce, unit, errs, cancelled, signals>>

\* The loop ends with the iteration's context and stops its timer; a reload that
\* has begun goes on.
WatcherEnds ==
    /\ stage # "exited" /\ watching /\ cancelled
    /\ watching' = FALSE /\ debounce' = FALSE
    /\ missed' = (missed \/ debounce)
    /\ UNCHANGED <<file, root, stage, loading, reloadCh, unit, errs, cancelled, signals>>

-----------------------------------------------------------------------------
(***************************************************************************)
(* Signals.  Between signal.Stop and the next signal.Notify one ends the   *)
(* process on the spot.                                                    *)
(***************************************************************************)
Signal ==
    /\ stage # "exited"
    /\ IF stage = "gap" THEN stage' = "exited" /\ UNCHANGED sigCh
       ELSE sigCh' = TRUE /\ UNCHANGED stage
    /\ UNCHANGED <<file, root, watcher, unit, errs, cancelled, guard, doomed, missed>>

\* The first signal cancels, the second one exits.
TakeSignal ==
    /\ stage # "exited" /\ sigCh /\ guard \in {"waiting", "armed"}
    /\ sigCh' = FALSE
    /\ guard' = "armed" /\ cancelled' = TRUE
    /\ stage' = IF guard = "armed" THEN "exited" ELSE stage
    /\ UNCHANGED <<file, root, watcher, unit, errs, doomed, missed>>

GuardLeaves ==
    /\ stage # "exited" /\ guard = "waiting" /\ cancelled
    /\ guard' = "gone"
    /\ UNCHANGED <<file, root, stage, watcher, unit, errs, cancelled, sigCh, doomed, missed>>

\* 15 seconds after a signal.
TimeUp ==
    /\ stage # "exited" /\ (guard = "armed" \/ doomed)
    /\ stage' = "exited"
    /\ UNCHANGED <<file, root, watcher, unit, errs, cancelled, signals, missed>>

-----------------------------------------------------------------------------
(***************************************************************************)
(* The nodes.                                                              *)
(***************************************************************************)
Fails(n) ==
    /\ stage # "exited" /\ unit[n] = "up"
    /\ unit' = [unit EXCEPT ![n] = "failed"]
    /\ UNCHANGED <<file, root, stage, watcher, errs, cancelled, signals, missed>>

\* errCh <- err, and cancel.
SendError(n) ==
    /\ stage # "exited" /\ unit[n] = "failed" /\ errs < Instances
    /\ errs' = errs + 1
    /\ unit' = [unit EXCEPT ![n] = "sending"]
    /\ UNCHANGED <<file, root, stage, watcher, cancelled, signals, missed>>

CancelAll(n) ==
    /\ stage # "exited" /\ unit[n] = "sending"
    /\ cancelled' = TRUE
    /\ unit' = [unit EXCEPT ![n] = "done"]
    /\ UNCHANGED <<file, root, stage, watcher, errs, signals, missed>>

\* svc.Run returns nil once its context is done.
Stops(n) ==
    /\ stage # "exited" /\ unit[n] = "up" /\ cancelled
    /\ unit' = [unit EXCEPT ![n] = "done"]
    /\ UNCHANGED <<file, root, stage, watcher, errs, cancelled, signals, missed>>

-----------------------------------------------------------------------------
(***************************************************************************)
(* runWithReload.                                                          *)
(***************************************************************************)
\* A new context, new channels, a watcher if the system gives one, and a guard.
BeginIteration ==
    /\ stage = "gap"
    /\ stage' = "begun"
    /\ watching' \in BOOLEAN
    /\ debounce' = FALSE /\ reloadCh' = Absent /\ cancelled' = FALSE
    /\ sigCh' = FALSE /\ guard' = "waiting" /\ doomed' = (doomed \/ guard = "armed")
    /\ UNCHANGED <<file, root, loading, unit, errs, missed>>

\* ValidateStartupLayout ends the process; else every node gets its goroutine.
LaunchNodes ==
    /\ stage = "begun"
    /\ stage' = IF root.is = "clash" THEN "exited" ELSE "run"
    /\ unit' = [n \in Nodes |-> "up"] /\ errs' = 0
    /\ UNCHANGED <<file, root, watcher, cancelled, signals, missed>>

\* Mutant of TakeReload: the nodes are not told to stop.
TakeReloadOnly ==
    /\ stage = "run" /\ reloadCh # Absent
    /\ root' = reloadCh /\ reloadCh' = Absent
    /\ stage' = "reload"
    /\ UNCHANGED <<file, watching, debounce, loading, unit, errs, cancelled, signals, missed>>

TakeReload ==
    /\ stage = "run" /\ reloadCh # Absent
    /\ root' = reloadCh /\ reloadCh' = Absent
    /\ cancelled' = TRUE
    /\ stage' = "reload"
    /\ UNCHANGED <<file, watching, debounce, loading, unit, errs, signals, missed>>

\* doneCh is closed.
AllDone == \A n \in Nodes : unit[n] = "done"

\* signal.Stop and watcher.Stop: a reload that has not begun will not, and one that
\* has offers its version to a channel nobody reads.
NextIteration ==
    /\ stage = "reload" /\ AllDone
    /\ stage' = "gap"
    /\ watching' = FALSE /\ debounce' = FALSE /\ loading' = Absent /\ reloadCh' = Absent
    /\ missed' = (missed \/ file # root)
    /\ UNCHANGED <<file, root, unit, errs, cancelled, signals>>

EndProcess ==
    /\ stage = "run" /\ AllDone
    /\ stage' = "exited"
    /\ UNCHANGED <<file, root, watcher, unit, errs, cancelled, signals, missed>>

\* What the loop's goroutine does without being told, and what a node's does.
LoopGoesOn  == BeginIteration \/ LaunchNodes \/ NextIteration \/ EndProcess
UnitEnds(n) == Stops(n) \/ SendError(n) \/ CancelAll(n)

LoopNext ==
    \/ Save \/ ReadFile \/ Offer \/ WatcherEnds
    \/ Signal \/ TakeSignal \/ GuardLeaves \/ TimeUp
    \/ \E n \in Nodes : Fails(n) \/ SendError(n) \/ CancelAll(n) \/ Stops(n)
    \/ BeginIteration \/ LaunchNodes \/ TakeReload \/ NextIteration \/ EndProcess

\* Goroutines go on, 15 seconds pass, and a service whose context is done returns.
LoopFairness ==
    /\ WF_process(LoopGoesOn)
    /\ WF_process(TimeUp) /\ WF_process(GuardLeaves)
    /\ \A n \in Nodes : WF_process(UnitEnds(n))

LoopSpec == LoopInit /\ [][LoopNext]_process /\ LoopFairness

-----------------------------------------------------------------------------
\* While the nodes run and the watcher has nothing under way, they run the file's last
\* version, or it cannot be loaded, or its save fell into one of the gaps: before the
\* watcher ran, while it was ending, or behind a version nobody had taken yet.
SettledOnFile ==
    stage = "run" /\ watching /\ ~cancelled /\ ~debounce /\ loading = Absent /\ reloadCh = Absent
        => root = file \/ file.is = "bad" \/ missed

\* More nodes have failed than errCh has slots, and no signal is being waited for.
Jammed ==
    errs = Instances /\ guard = "gone" /\ \E n \in Nodes : unit[n] = "failed"

\* A reload was taken, or the nodes' context is done.
Ending == stage = "reload" \/ (stage = "run" /\ cancelled)

\* No iteration that is told to end is ending for ever: it ends, in another one or with the
\* process, or a node waits for ever for a slot in errCh.
StopsOrJams == []<>(~Ending \/ Jammed)
=============================================================================
