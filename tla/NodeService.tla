---------------------------- MODULE NodeService ------------------------------
(***************************************************************************)
(* internal/service/service.go of one node in panel mode: the select loop, *)
(* the goroutine that polls the panel over REST, and the WebSocket client, *)
(* which feed it through three channels.  The panel is the environment; it *)
(* answers polls with 304 when the ETag it is sent is that of what it      *)
(* would answer.  An ETag is represented by the value it stands for.       *)
(***************************************************************************)
EXTENDS NodeHandlers, Sequences

CONSTANTS
    UserLists,    \* the user lists the panel may have
    Malformed,    \* configurations NodeSpecFromPanelValidated refuses
    PushOffers,   \* whether a handshake may offer a WebSocket
    EventCap,     \* capacity of wsEvents
    StatusCap,    \* capacity of wsStatusCh
    ConfigSteps,  \* <<old, new>>: how it may change the configuration
    MaxChanges,   \* bound on what the panel does
    MaxFaults,    \* bound on polls that fail
    MaxLinks,     \* bound on WebSocket connections and attempts
    MaxRenewals   \* bound on certificate renewals

ASSUME ServiceConstants ==
    /\ UserLists \subseteq UserSets
    /\ Malformed \subseteq Configs
    /\ ConfigSteps \subseteq Configs \X Configs
    /\ PushOffers \subseteq BOOLEAN /\ PushOffers # {}
    /\ {EventCap, StatusCap} \subseteq Nat \ {0}
    /\ {MaxChanges, MaxFaults, MaxLinks, MaxRenewals} \subseteq Nat
    /\ None \notin [config : Configs \union {None}, users : UserLists \union {None}, cert : BOOLEAN]

VARIABLES
    phase,          \* "setup", "setupUsers", "run" or "failed"
    node,           \* what the handlers work on
    pull,           \* the polling goroutine
    pullResults,    \* a channel of capacity one: None or its element
    skip,           \* pullBackoff.skipRemaining
    resyncPending,  \* wsResyncPending
    push,           \* wsClient # nil
    downSince,      \* ~wsDisconnectAt.IsZero()
    linkUp,         \* wsClient.IsConnected()
    wsEvents, wsStatuses,
    certRenewed,    \* cert.Manager.renewed
    configETag, userETag,
    panelConfig, panelUsers,
    changes, faults, links, renewals   \* counters for the bounds

client   == <<pull, skip, certRenewed>>
etags    == <<configETag, userETag>>
panel    == <<panelConfig, panelUsers, changes>>
link     == <<push, downSince, linkUp, links>>
queues   == <<wsEvents, wsStatuses>>
counters == <<changes, faults, links, renewals>>
vars == <<phase, node, pull, pullResults, skip, resyncPending, push, downSince, linkUp,
          wsEvents, wsStatuses, certRenewed, configETag, userETag,
          panelConfig, panelUsers, counters>>

IdlePull == [at |-> "idle", known |-> None, cert |-> FALSE, config |-> None, users |-> None]

Event  == [type : {"config"}, config : Configs] \union [type : {"users", "add"}, users : UserSets]
          \union [type : {"remove"}, ids : SUBSET Ids]
Status == [connected : BOOLEAN, resync : BOOLEAN]

\* A send that gives up when the channel is full.
Offer(ch, cap, e) == IF Len(ch) < cap THEN Append(ch, e) ELSE ch

-----------------------------------------------------------------------------
(***************************************************************************)
(* The panel.  When it has a connection, a change is followed by an event. *)
(***************************************************************************)
Changed(old, new) == {i \in DOMAIN new : i \notin DOMAIN old \/ old[i] # new[i]}

\* The events that take a node from one list to another.
UserEvents(old, new) ==
    {[type |-> "users", users |-> new]}
    \union (IF new # old /\ DOMAIN old \subseteq DOMAIN new
               THEN {[type |-> "add", users |-> [i \in Changed(old, new) |-> new[i]]]} ELSE {})
    \union (IF new # old /\ new = Without(old, DOMAIN old \ DOMAIN new)
               THEN {[type |-> "remove", ids |-> DOMAIN old \ DOMAIN new]} ELSE {})

\* The event handler of newPushClient: a full channel drops the event and asks
\* for a reconciliation, unless that channel is full too.
Receive(e) ==
    IF linkUp
       THEN /\ wsEvents' = Offer(wsEvents, EventCap, e)
            /\ wsStatuses' = IF Len(wsEvents) < EventCap THEN wsStatuses
                             ELSE Offer(wsStatuses, StatusCap, [connected |-> TRUE, resync |-> TRUE])
       ELSE UNCHANGED queues

PanelActs ==
    /\ changes < MaxChanges
    /\ changes' = changes + 1
    /\ UNCHANGED <<phase, node, pull, pullResults, skip, resyncPending, link,
                   certRenewed, etags, faults, renewals>>

\* TranslateWSEvent drops a configuration it cannot normalise.
PanelSetsConfig ==
    /\ PanelActs
    /\ \E c \in Configs : /\ <<panelConfig, c>> \in ConfigSteps
                          /\ panelConfig' = c
                          /\ IF c \in Malformed THEN UNCHANGED queues
                                                ELSE Receive([type |-> "config", config |-> c])
    /\ UNCHANGED panelUsers

PanelSetsUsers ==
    /\ PanelActs
    /\ \E new \in UserLists : /\ panelUsers' = new
                              /\ \E e \in UserEvents(panelUsers, new) : Receive(e)
    /\ UNCHANGED panelConfig

\* The ACME goroutine reloads a renewed certificate.
RenewCert ==
    /\ renewals < MaxRenewals
    /\ renewals' = renewals + 1
    /\ certRenewed' = TRUE
    /\ UNCHANGED <<phase, node, pull, pullResults, skip, resyncPending, link, queues,
                   etags, panel, faults>>

-----------------------------------------------------------------------------
(***************************************************************************)
(* initialSetup.  With a WebSocket on offer nothing is fetched.            *)
(***************************************************************************)
SetupPush ==
    /\ phase = "setup"
    /\ TRUE \in PushOffers
    /\ phase' = "run"
    /\ push' = TRUE
    /\ UNCHANGED <<node, client, pullResults, resyncPending, downSince, linkUp, queues, etags,
                   panelConfig, panelUsers, counters>>

SetupConfig ==
    /\ phase = "setup"
    /\ FALSE \in PushOffers
    /\ phase' = "setupUsers"
    /\ configETag' = panelConfig
    /\ UNCHANGED <<node, client, pullResults, resyncPending, push, downSince, linkUp, queues, userETag,
                   panelConfig, panelUsers, counters>>

SetupUsers ==
    /\ phase = "setupUsers"
    /\ userETag' = panelUsers
    /\ IF configETag \in Malformed \union Invalid
          THEN phase' = "failed" /\ UNCHANGED node
          ELSE /\ node' \in SetUp(node, configETag, panelUsers)
               /\ phase' = IF node'.startErr THEN "failed" ELSE "run"
    /\ UNCHANGED <<client, pullResults, resyncPending, push, downSince, linkUp, queues, configETag,
                   panelConfig, panelUsers, counters>>

\* A handshake or request that fails ends the process of the node.
SetupFails ==
    /\ phase \in {"setup", "setupUsers"}
    /\ "setup" \in Faulty
    /\ phase' = "failed"
    /\ UNCHANGED <<node, client, pullResults, resyncPending, push, downSince, linkUp, queues, etags,
                   panelConfig, panelUsers, counters>>

-----------------------------------------------------------------------------
(***************************************************************************)
(* pullViaAPIAsync and the goroutine it starts.                            *)
(***************************************************************************)
\* n calls in a row: none does anything while the goroutine is active, each of
\* them uses up one skip, and the first that finds none left starts it.
TryPull(n) ==
    IF pull.at # "idle"
       THEN UNCHANGED client
       ELSE IF skip >= n
               THEN skip' = skip - n /\ UNCHANGED <<pull, certRenewed>>
               ELSE /\ skip' = 0
                    /\ pull' = [IdlePull EXCEPT !.at = "config", !.known = node.configHash,
                                                !.cert = certRenewed]
                    /\ certRenewed' = FALSE

OnFailure(s) == IF s <= 0 THEN 1 ELSE IF s < 8 THEN 2 * s ELSE s

PullStep(from) ==
    /\ pull.at = from
    /\ UNCHANGED <<phase, node, resyncPending, link, queues, certRenewed,
                   panelConfig, panelUsers, changes, renewals>>

\* Mutant of PullFails: the failed goroutine leaves pullActive set.
PullStaysActive ==
    /\ pull' = [pull EXCEPT !.at = "failed"]
    /\ skip' = OnFailure(skip)

PullFails ==
    /\ pull' = IdlePull
    /\ skip' = OnFailure(skip)

\* GetConfig
PollConfig ==
    /\ PullStep("config")
    /\ pull' = [pull EXCEPT !.at = "users",
                            !.config = IF panelConfig = configETag THEN None ELSE panelConfig]
    /\ configETag' = panelConfig
    /\ UNCHANGED <<pullResults, skip, userETag, faults>>

\* GetUsers, the normalisation of the configuration, and the result.
PollUsers ==
    /\ PullStep("users")
    /\ userETag' = panelUsers
    /\ IF pull.config \in Malformed
          THEN PullFails
          ELSE /\ pull' = [pull EXCEPT
                     !.at = "deliver",
                     !.config = IF pull.config = pull.known /\ ~pull.cert THEN None ELSE pull.config,
                     !.users = IF panelUsers = userETag THEN None ELSE panelUsers]
               /\ skip' = 0
    /\ UNCHANGED <<pullResults, configETag, faults>>

\* Either request may fail, with the ETags as they are by then.
PollFails ==
    /\ \E call \in {"config", "users"} \intersect Faulty : PullStep(call)
    /\ faults < MaxFaults
    /\ faults' = faults + 1
    /\ PullFails
    /\ UNCHANGED <<pullResults, etags>>

DeliverResult ==
    /\ PullStep("deliver")
    /\ pullResults = None
    /\ pullResults' = [config |-> pull.config, users |-> pull.users, cert |-> pull.cert]
    /\ pull' = [IdlePull EXCEPT !.at = "finish"]
    /\ UNCHANGED <<skip, etags, faults>>

FinishPull ==
    /\ PullStep("finish")
    /\ pull' = IdlePull
    /\ UNCHANGED <<pullResults, skip, etags, faults>>

Worker == PollConfig \/ PollUsers \/ PollFails \/ DeliverResult \/ FinishPull

-----------------------------------------------------------------------------
(***************************************************************************)
(* The WebSocket client.  Its status changes are dropped when wsStatusCh   *)
(* is full.                                                                *)
(***************************************************************************)
LinkChanges(up) ==
    /\ wsStatuses' = Offer(wsStatuses, StatusCap, [connected |-> up, resync |-> FALSE])
    /\ linkUp' = up
    /\ UNCHANGED <<phase, node, client, pullResults, resyncPending, push, downSince, wsEvents, etags,
                   panelConfig, panelUsers, changes, faults, renewals>>

LinkAttempt == /\ phase = "run"
               /\ push
               /\ ~linkUp
               /\ links < MaxLinks
               /\ links' = links + 1

Connect    == LinkAttempt /\ LinkChanges(TRUE)
DialFails  == LinkAttempt /\ LinkChanges(FALSE)
Disconnect == linkUp /\ LinkChanges(FALSE) /\ UNCHANGED links

-----------------------------------------------------------------------------
(***************************************************************************)
(* The cases of the select loop that change what is modelled here.         *)
(***************************************************************************)
SelectLoop == /\ phase = "run"
              /\ UNCHANGED <<phase, etags, panelConfig, panelUsers, counters>>

\* case <-pullTicker.C
PullTick ==
    /\ SelectLoop
    /\ ~(push /\ linkUp)
    /\ TryPull(1)
    /\ UNCHANGED <<node, pullResults, resyncPending, push, downSince, linkUp, queues>>

\* case result := <-s.pullResults
ApplyResult ==
    /\ SelectLoop
    /\ pullResults # None
    /\ pullResults' = None
    /\ resyncPending' = FALSE
    /\ node' \in ApplyPullResult(node, pullResults)
    /\ UNCHANGED <<client, push, downSince, linkUp, queues>>

\* case status := <-s.wsStatusCh: a pull for the dropped event, unless one is
\* pending, and a pull for the change of connectivity.
HandleStatus ==
    /\ SelectLoop
    /\ wsStatuses # <<>>
    /\ LET s == Head(wsStatuses)
       IN  /\ downSince' = ~s.connected
           /\ resyncPending' = (resyncPending \/ s.resync)
           /\ TryPull(IF s.resync /\ ~resyncPending THEN 2 ELSE 1)
    /\ wsStatuses' = Tail(wsStatuses)
    /\ UNCHANGED <<node, pullResults, push, linkUp, wsEvents>>

\* case event := <-s.wsEvents.  sync.devices and kick.user reach the
\* connection tracker only.
HandleEvent ==
    /\ SelectLoop
    /\ wsEvents # <<>>
    /\ LET e == Head(wsEvents)
       IN  node' \in CASE e.type = "config" -> OnSyncConfig(node, e.config)
                       [] e.type = "users"  -> OnSyncUsers(node, e.users)
                       [] e.type = "add"    -> ApplyDeltaAdd(node, e.users)
                       [] e.type = "remove" -> ApplyDeltaRemove(node, e.ids)
    /\ wsEvents' = Tail(wsEvents)
    /\ UNCHANGED <<client, pullResults, resyncPending, push, downSince, linkUp, wsStatuses>>

\* case <-wsDiscoveryTicker.C, with no WebSocket or one that was down for long:
\* a handshake, a pull, and the client is created or cancelled.  A client that
\* is cancelled while connected or dialling reports that it is disconnected.
Discover ==
    /\ SelectLoop
    /\ ~push \/ downSince
    /\ TryPull(1)
    /\ \E offered \in PushOffers, reports \in BOOLEAN :
          /\ push' = offered
          /\ downSince' = (downSince /\ push = offered)
          /\ linkUp' = (linkUp /\ offered)
          /\ reports => push /\ ~offered
          /\ linkUp /\ ~offered => reports
          /\ wsStatuses' = IF reports
                              THEN Offer(wsStatuses, StatusCap, [connected |-> FALSE, resync |-> FALSE])
                              ELSE wsStatuses
    /\ UNCHANGED <<node, pullResults, resyncPending, wsEvents>>

-----------------------------------------------------------------------------
Init ==
    /\ phase = "setup"
    /\ node = NewNode
    /\ pull = IdlePull
    /\ pullResults = None
    /\ skip = 0
    /\ resyncPending = FALSE
    /\ push = FALSE
    /\ downSince = FALSE
    /\ linkUp = FALSE
    /\ wsEvents = <<>>
    /\ wsStatuses = <<>>
    /\ certRenewed = FALSE
    /\ configETag = None
    /\ userETag = None
    /\ panelConfig \in Configs
    /\ panelUsers \in UserLists
    /\ changes = 0
    /\ faults = 0
    /\ links = 0
    /\ renewals = 0

Environment == PanelSetsConfig \/ PanelSetsUsers \/ RenewCert \/ Connect \/ DialFails \/ Disconnect
Setup       == SetupPush \/ SetupConfig \/ SetupUsers \/ SetupFails
Service     == PullTick \/ ApplyResult \/ HandleStatus \/ HandleEvent \/ Discover

Next == Environment \/ Setup \/ Worker \/ Service

\* The goroutine runs, and so does every case of the select loop; the tickers
\* tick.  Nothing is assumed of the panel or of the connection.
Fairness == /\ WF_vars(Setup)
            /\ WF_vars(Worker)
            /\ WF_vars(PullTick)
            /\ WF_vars(ApplyResult)
            /\ WF_vars(HandleStatus)
            /\ WF_vars(HandleEvent)

Spec == Init /\ [][Next]_vars /\ Fairness

-----------------------------------------------------------------------------
\* Types of the fields, the channels and the program counters.
TypeOK ==
    /\ phase \in {"setup", "setupUsers", "run", "failed"}
    /\ node \in Node
    /\ pull \in [at     : {"idle", "config", "users", "deliver", "finish"},
                 known  : Configs \union {None},
                 cert   : BOOLEAN,
                 config : Configs \union {None},
                 users  : UserLists \union {None}]
    /\ pullResults \in [config : Configs \union {None},
                        users  : UserLists \union {None},
                        cert   : BOOLEAN] \union {None}
    /\ skip \in Nat
    /\ {resyncPending, push, downSince, linkUp, certRenewed} \subseteq BOOLEAN
    /\ wsEvents \in Seq(Event) /\ Len(wsEvents) <= EventCap
    /\ wsStatuses \in Seq(Status) /\ Len(wsStatuses) <= StatusCap
    /\ configETag \in Configs \union {None}
    /\ userETag \in UserLists \union {None}
    /\ panelConfig \in Configs
    /\ panelUsers \in UserLists
    /\ {changes, faults, links, renewals} \subseteq Nat

\* Change detection never takes an update for one already applied: the hashes
\* are those of the configuration and of the list held, also after a restore.
DetectionSound == HashesCurrent(node)

\* Speed limits, device limits and ACL are those of the users and the
\* configuration held, whichever handler changed them and however the kernel
\* answered; a configuration whose ACL does not compile keeps the last policy.
LimitsInStep == LimitsFollowUsers(node)

\* A node that reports no start error serves the configuration held, and serves
\* nobody who is not on the list held.
ServesWhatIsHeld == KernelInStep(node)

\* The kernel is not left stopped when there is something to serve.
NotLeftStopped == RunsWhenPossible(node)

\* The kernel is stopped for one reason: there are no users.  No failed reload,
\* update or start takes down the box that runs.
StopsOnlyWithoutUsers ==
    [][(node.kernel.up /\ ~node'.kernel.up) => node'.users = NoUsers]_vars

\* What the panel was told by ETag that the node has, the node has, once the poll
\* that fetched it is over: nothing is dropped that will be answered with 304.
NothingLost ==
    (phase = "run" /\ pull.at = "idle" /\ pullResults = None) =>
        /\ configETag \in Invalid \/ configETag = node.config
        /\ userETag = node.users

\* However many polls failed in a row, the next tick but one polls again: a poll
\* that fails finds no skip left, so the wait is never doubled.
AtMostOneSkip == skip <= 1

\* Unless its setup failed, the node ends up serving what the panel last had.
Converged == /\ panelConfig \notin Invalid => node.kernel.config = panelConfig
             /\ node.kernel.users = Identities(panelUsers)
             /\ node.limiter = panelUsers
EventuallyConverged == <>[](phase = "failed" \/ Converged)

\* "no users, kernel will not start until users are available": once they are,
\* it starts.
StartsWithUsers == (phase = "run" /\ [](panelUsers # NoUsers)) ~> node.kernel.up

\* A configuration that was only announced by its ETag is taken with a later poll.
ConfigTakenByPolling == <>[](node.config = panelConfig)
=============================================================================
