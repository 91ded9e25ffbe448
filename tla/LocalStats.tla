------------------------------ MODULE LocalStats ------------------------------
(***************************************************************************)
(* The engine of the local stats endpoint (internal/localstats): it reads  *)
(* the counters of every node, one node after the other, and turns them    *)
(* into what happened in a window of samples, for one user's refused       *)
(* connections and for every node's dials; alerts are made of those.       *)
(* A node's counters start at zero with each start of its kernel.  Access  *)
(* records are folded into two generations (access.go).                    *)
(*                                                                         *)
(* The engine goes by the node's ID, which is the panel's: the nodes of two *)
(* panels may have the same one.                                           *)
(*                                                                         *)
(* Time is counted in samples, and in units of its own for generations.    *)
(* What is only shown, the caps of the lists, and the surge detector's     *)
(* averages are left out.                                                  *)
(***************************************************************************)
EXTENDS Integers, FiniteSets, Functions

CONSTANTS
    StatNodes,      \* the nodes: the sources that register
    IdOf,           \* the ID of each
    Window,         \* alertWindow, in samples
    SharedSamples, SharedRejects, DialMinFails, DialShare,  \* DialShare is 1 / dialMinRatio
    GenSpan,        \* accessGenSpan
    Unseen,         \* no entry in a map
    MaxCount,       \* bounds of the model: what each counter counts to,
    MaxAge          \* and the age up to which records are followed

Ages == 0..Window

StatIds == {IdOf[n] : n \in StatNodes}

Counters    == [refused : Nat, tried : Nat, failed : Nat]
Views       == [saw : Counters, happened : Counters]
DialStates  == [last : Counters, events : [Ages -> Counters]]
Generations == [age : Nat, ages : SUBSET Nat]

ASSUME LocalStatsConstants ==
    /\ IsFiniteSet(StatNodes)
    /\ {Window, SharedSamples, SharedRejects, DialMinFails, DialShare, GenSpan, MaxAge} \subseteq Nat
    /\ MaxCount \in [{"refused", "tried", "failed"} -> Nat]
    /\ GenSpan > 0
    /\ Unseen \notin Nat /\ Unseen \notin Counters /\ Unseen \notin Views
    /\ Unseen \notin DialStates /\ Unseen \notin Generations
    /\ \A nodes \in SUBSET StatNodes : nodes # Unseen

VARIABLES
    counters,   \* each node's counters, in its tracker of now or of last
    live,       \* the nodes that are registered
    round,      \* the nodes this sample has still to look at, Unseen between samples
    views,      \* what it saw
    rejPrev,    \* the engine's last count of refusals, by ID
    rejEv,      \* refusals by the age of the sample that found them
    dialled,    \* dialState, by ID
    shared,     \* sharedState.over
    alerts,     \* which alerts there are
    fresh,      \* history: what happened on a node since it was last looked at,
    truth,      \* and what happened in the interval before each of the last samples
    crowded,    \* history: samples in a row with more addresses than the limit
    exact,      \* history: no kernel was started again, no node left and rejPrev was not emptied
    recounted,  \* history: rejPrev was emptied
    generation, \* accessAgg.cur and .prev: how old they are and their records
    recorded,   \* history: the ages of all records
    shown       \* history: those of the records a report shows, Unseen before it

samples == <<counters, live, round, views, rejPrev, rejEv, dialled, shared, alerts,
           fresh, truth, crowded, exact, recounted>>

generations == <<generation, recorded, shown>>

stats == <<samples, generations>>

NoCount == [refused |-> 0, tried |-> 0, failed |-> 0]

\* What happened in a window, of a kind.
Total(window, what) == SumFunction([a \in Ages |-> window[a][what]])

\* What a window holds when the next sample puts new into it.
Shift(window, new) == [a \in Ages |-> IF a = 0 THEN new ELSE window[a - 1]]

StatsInit ==
    /\ counters = [n \in StatNodes |-> Unseen]
    /\ live = {} /\ round = Unseen /\ views = [n \in StatNodes |-> Unseen]
    /\ rejPrev = [i \in StatIds |-> Unseen] /\ rejEv = [a \in Ages |-> NoCount]
    /\ dialled = [i \in StatIds |-> Unseen] /\ shared = Unseen
    /\ alerts = [shared |-> FALSE, dial |-> {}]
    /\ fresh = [n \in StatNodes |-> NoCount]
    /\ truth = [n \in StatNodes |-> [a \in Ages |-> NoCount]]
    /\ crowded = 0 /\ exact = TRUE /\ recounted = FALSE
    /\ generation = [cur |-> Unseen, prev |-> Unseen] /\ recorded = {} /\ shown = Unseen

-----------------------------------------------------------------------------
(***************************************************************************)
(* The nodes.                                                              *)
(***************************************************************************)
Awaited(n) == round # Unseen /\ n \in round

\* RegisterNode: a tracker that has counted nothing.
RegisterNode(n) ==
    /\ n \notin live /\ ~Awaited(n)
    /\ live' = live \union {n}
    /\ counters' = [counters EXCEPT ![n] = NoCount]
    /\ exact' = (exact /\ counters[n] = Unseen)
    /\ UNCHANGED <<round, views, rejPrev, rejEv, dialled, shared, alerts, fresh, truth, crowded, recounted>>

\* The kernel starts with another tracker, or stops and there is none.
NewTracker(n) ==
    /\ n \in live \/ Awaited(n)
    /\ counters' = [counters EXCEPT ![n] = NoCount]
    /\ exact' = FALSE
    /\ UNCHANGED <<live, round, views, rejPrev, rejEv, dialled, shared, alerts, fresh, truth, crowded, recounted>>

\* A sample that has begun looks at the node all the same.
Deregister(n) ==
    /\ n \in live
    /\ live' = live \ {n}
    /\ exact' = FALSE
    /\ UNCHANGED <<counters, round, views, rejPrev, rejEv, dialled, shared, alerts, fresh, truth, crowded, recounted>>

\* noteDeviceReject; a dial, and a failure of one.
Counts(n, what) ==
    /\ n \in live \/ Awaited(n)
    /\ counters[n][what] < MaxCount[what] /\ fresh[n][what] < MaxCount[what]
    /\ what = "failed" => counters[n].failed < counters[n].tried
    /\ counters' = [counters EXCEPT ![n][what] = @ + 1]
    /\ fresh' = [fresh EXCEPT ![n][what] = @ + 1]
    /\ UNCHANGED <<live, round, views, rejPrev, rejEv, dialled, shared, alerts, truth, crowded, exact, recounted>>

-----------------------------------------------------------------------------
(***************************************************************************)
(* sample: the views, without the engine's lock, and step.                 *)
(***************************************************************************)
BeginSample ==
    /\ round = Unseen
    /\ round' = live
    /\ UNCHANGED <<counters, live, views, rejPrev, rejEv, dialled, shared, alerts, fresh, truth, crowded, exact, recounted>>

View(n) ==
    /\ Awaited(n)
    /\ round' = round \ {n}
    /\ views' = [views EXCEPT ![n] = [saw |-> counters[n], happened |-> fresh[n]]]
    /\ fresh' = [fresh EXCEPT ![n] = NoCount]
    /\ UNCHANGED <<counters, live, rejPrev, rejEv, dialled, shared, alerts, truth, crowded, exact, recounted>>

Viewed == {n \in StatNodes : views[n] # Unseen}

\* The engine goes through the views by ID; of those with one ID in any order.
Orders == Injection(StatNodes, 1..Cardinality(StatNodes))

OfId(i)            == {n \in Viewed : IdOf[n] = i}
Earlier(n, order)  == {m \in OfId(IdOf[n]) : order[m] < order[n]}
Latest(ns, order)  == CHOOSE n \in ns : \A m \in ns : order[m] <= order[n]

\* rejPrev of the ID after these views.  A user who was not refused is in none of them.
LastRefusals(ns, i, order) ==
    LET counted == {n \in ns : views[n].saw.refused > 0}
    IN  IF counted = {} THEN rejPrev[i] ELSE views[Latest(counted, order)].saw.refused

\* Mutant of NewRefusals: a count is never taken for that of a new kernel, and a node's
\* first count not for new.
NewRefusalsAll(n, order) == views[n].saw.refused

\* stepRejects: a smaller count is that of a kernel which was started again.
NewRefusals(n, order) ==
    LET now  == views[n].saw.refused
        last == LastRefusals(Earlier(n, order), IdOf[n], order)
    IN  IF last # Unseen /\ now >= last THEN now - last ELSE now

\* What dialState has last seen of the ID after these views.
LastDials(ns, i, order) ==
    IF ns # {} THEN views[Latest(ns, order)].saw
    ELSE IF dialled[i] = Unseen THEN Unseen ELSE dialled[i].last

\* stepDial: only the counters at first sight; two counters that are not both larger are
\* those of a kernel which was started again.
NewDials(n, order) ==
    LET now  == views[n].saw
        last == LastDials(Earlier(n, order), IdOf[n], order)
    IN  IF last = Unseen THEN NoCount
        ELSE IF now.tried >= last.tried /\ now.failed >= last.failed
        THEN [NoCount EXCEPT !.tried = now.tried - last.tried, !.failed = now.failed - last.failed]
        ELSE [now EXCEPT !.refused = 0]

DialsOf(ns, what, order) == SumFunction([n \in ns |-> NewDials(n, order)[what]])

StepDial(i, order) ==
    IF OfId(i) = {} THEN Unseen
    ELSE [last   |-> LastDials(OfId(i), i, order),
          events |-> Shift(IF dialled[i] = Unseen THEN [a \in Ages |-> NoCount] ELSE dialled[i].events,
                           [NoCount EXCEPT !.tried = DialsOf(OfId(i), "tried", order),
                                           !.failed = DialsOf(OfId(i), "failed", order)])]

\* buildAlerts, of the dials of one node.
DialAlert(d) ==
    LET failed == Total(d.events, "failed")
    IN  failed >= DialMinFails /\ DialShare * failed >= Total(d.events, "tried")

\* users has the user; over: it has more addresses than its limit; full: the entries of
\* other users made rejPrev too large.
Step(order, known, over, full) ==
    LET found  == SumFunction([n \in Viewed |-> NewRefusals(n, order)])
        ev     == Shift(rejEv, [NoCount EXCEPT !.refused = found])
        window == Total(ev, "refused")
        keep   == known /\ (over \/ window >= SharedRejects)
        times  == IF ~over THEN 0 ELSE IF shared = Unseen THEN 1 ELSE shared + 1
    IN
    /\ round = {}
    /\ over => known
    /\ (\E n \in Viewed : views[n].saw.refused > 0) => known
    /\ rejEv' = ev
    /\ rejPrev' = [i \in StatIds |-> IF full THEN Unseen ELSE LastRefusals(OfId(i), i, order)]
    /\ shared' = IF ~keep THEN Unseen ELSE IF times > SharedSamples THEN SharedSamples ELSE times
    /\ dialled' = [i \in StatIds |-> StepDial(i, order)]
    /\ alerts' = [shared |-> keep /\ (times >= SharedSamples \/ window >= SharedRejects),
                  dial   |-> {i \in StatIds : OfId(i) # {} /\ DialAlert(dialled'[i])}]
    /\ truth' = [n \in StatNodes |->
                    Shift(truth[n], IF n \in Viewed THEN views[n].happened ELSE NoCount)]
    /\ crowded' = IF ~over THEN 0 ELSE IF crowded < SharedSamples THEN crowded + 1 ELSE crowded
    /\ recounted' = (recounted \/ full) /\ exact' = (exact /\ ~full)
    /\ round' = Unseen /\ views' = [n \in StatNodes |-> Unseen]
    /\ UNCHANGED <<counters, live, fresh>>

Sample == BeginSample \/ (\E n \in StatNodes : View(n))

StatNode == \E n \in StatNodes : RegisterNode(n) \/ NewTracker(n) \/ Deregister(n)

-----------------------------------------------------------------------------
(***************************************************************************)
(* The generations of access records.                                      *)
(***************************************************************************)
Older(ages) == {a + 1 : a \in ages} \cap 0..MaxAge
Aged(g)     == IF g = Unseen THEN Unseen
               ELSE [age |-> IF g.age < MaxAge THEN g.age + 1 ELSE g.age, ages |-> Older(g.ages)]
NewGen      == [age |-> 0, ages |-> {}]

TimePasses ==
    /\ generation' = [cur |-> Aged(generation.cur), prev |-> Aged(generation.prev)]
    /\ recorded' = Older(recorded) /\ shown' = Unseen

\* rotate, before records are added and before a report.
Rotated ==
    LET cur == generation.cur IN
    IF cur = Unseen THEN [generation EXCEPT !.cur = NewGen]
    ELSE IF cur.age < GenSpan THEN generation
    ELSE [cur |-> NewGen, prev |-> IF cur.age >= 2 * GenSpan THEN Unseen ELSE cur]

AddAccess ==
    /\ generation' = [Rotated EXCEPT !.cur.ages = @ \union {0}]
    /\ recorded' = recorded \union {0} /\ shown' = Unseen

\* merged
Merged(g) == g.cur.ages \union (IF g.prev = Unseen THEN {} ELSE g.prev.ages)

Report ==
    /\ generation' = Rotated
    /\ shown' = Merged(Rotated)
    /\ UNCHANGED recorded

GenNext == TimePasses \/ AddAccess \/ Report

SampleNext ==
    \/ StatNode
    \/ \E n \in StatNodes, what \in DOMAIN NoCount : Counts(n, what)
    \/ Sample
    \/ \E order \in Orders, known, over, full \in BOOLEAN : Step(order, known, over, full)

StatsNext == (SampleNext /\ UNCHANGED generations) \/ (GenNext /\ UNCHANGED samples)

StatsSpec == StatsInit /\ [][StatsNext]_stats

-----------------------------------------------------------------------------
(***************************************************************************)
(* Properties.                                                             *)
(***************************************************************************)
Refusals          == Total(rejEv, "refused")
Happened(n, what) == Total(truth[n], what)
AllRefused        == SumFunction([n \in StatNodes |-> Happened(n, "refused")])

\* The refusals and dials the engine believes in happened in its window: starts of a
\* kernel, nodes that leave and return, and the order in which nodes are looked at make
\* it miss some, and none counted twice unless rejPrev was emptied.  Without any of that
\* it misses none of the refusals either.
WindowsHold ==
    /\ ~recounted => Refusals <= AllRefused
    /\ exact => Refusals = AllRefused
    /\ \A n \in StatNodes : dialled[IdOf[n]] # Unseen =>
          \A what \in {"tried", "failed"} :
              Total(dialled[IdOf[n]].events, what) <= Happened(n, what)

\* So an alert is one: the user was above its limit in enough samples in a row, or was
\* refused often enough in the window, and the node's dials failed as often as it says.
AlertsJustified ==
    /\ alerts.shared =>
          crowded >= SharedSamples \/ AllRefused >= SharedRejects \/ recounted
    /\ \A n \in StatNodes : IdOf[n] \in alerts.dial => Happened(n, "failed") >= DialMinFails

\* A report shows every record of the last span, and none that is three spans old.
SpansCovered ==
    shown # Unseen =>
        /\ \A a \in recorded : a <= GenSpan => a \in shown
        /\ \A a \in shown : a < 3 * GenSpan

\* No two nodes have one ID.  Those that do, the nodes of two panels, are taken for one
\* whose kernel is started again and again: their refusals and dials are counted anew in
\* every sample, without an end.
OwnIds == \A m, n \in StatNodes : IdOf[m] = IdOf[n] => m = n

\* What the endpoint says of the past is so.
StatsHonest == (OwnIds => WindowsHold /\ AlertsJustified) /\ SpansCovered
=============================================================================
