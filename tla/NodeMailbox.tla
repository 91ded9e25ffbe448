----------------------------- MODULE NodeMailbox -----------------------------
(***************************************************************************)
(* internal/controlplane/mailbox.go with the two goroutines that share it: *)
(* the reader of the machine's WebSocket, which calls Apply for every      *)
(* event of the node, and the node's service, which seeds the mailbox with *)
(* its REST baseline, marks it ready, and from then on drains it whenever  *)
(* the notification channel wakes its select loop.  A third goroutine      *)
(* polls over REST: its answer is applied when the select loop gets to it, *)
(* which may be after newer events were handed over.                       *)
(*                                                                         *)
(* The panel is the environment.  streamUsers is its user list as of the   *)
(* last event read from the WebSocket; the events are what it sends when   *)
(* that list changes.  A user list is a function from IDs to the rest of   *)
(* the user's record.  None is Go's nil, which the code tells apart from   *)
(* an empty list.                                                          *)
(***************************************************************************)
EXTENDS Naturals, FiniteSets

CONSTANTS
    Ids,         \* user IDs
    Specs,       \* what else a user record holds
    Configs,     \* node configurations
    DeviceMaps,  \* payloads of sync.devices
    Readers,     \* goroutines that call Apply
    None,        \* nil
    MaxEvents    \* bound on the events a behaviour contains

ASSUME NoneIsNothing ==
    /\ None \notin Configs
    /\ None \notin DeviceMaps
    /\ None \notin UNION {[S -> Specs] : S \in SUBSET Ids}

ASSUME MaxEventsIsNat == MaxEvents \in Nat

VARIABLES
    \* fields of NodeMailbox
    ready, config, users, deviceUsers, dirty, needsReconcile, hasFullUserState,
    token,        \* notifyCh holds its one element
    \* where the goroutines are
    reader,       \* reader[r]: "idle", or "notify" between the unlock and the send
    svc,          \* program counter of the service
    \* the service's side
    view,         \* the last value of each kind handed to the service
    svcUsers,     \* Service.lastUsers
    behind,       \* the list offered last was not taken, or was an outdated answer
    resync,       \* wsResyncPending: asked for, and no answer applied since
    \* the goroutine of pullViaAPIAsync
    polling,      \* pullActive
    fetched,      \* the list it was answered, until it is in the channel
    results,      \* the one element of pullResults
    \* the panel's side
    streamUsers,
    events,       \* how many events were read
    missed        \* how changes of the list were missed since the last full list

mailbox == <<ready, config, users, deviceUsers, dirty, needsReconcile, hasFullUserState>>
service == <<svc, view, svcUsers, behind, resync>>
pull    == <<polling, fetched, results>>
panel   == <<streamUsers, events, missed>>
vars    == <<mailbox, token, reader, service, pull, panel>>

Kinds    == {"config", "users", "devices"}
UserSets == UNION {[S -> Specs] : S \in SUBSET Ids}
NoUsers  == [i \in {} |-> None]

\* What a nil list stands for when it is read.
AsList(u) == IF u = None THEN NoUsers ELSE u

Overlay(u, d) == [i \in DOMAIN u \union DOMAIN d |-> IF i \in DOMAIN d THEN d[i] ELSE u[i]]
Without(u, S) == [i \in DOMAIN u \ S |-> u[i]]

\* Removing everybody leaves append([]UserSpec(nil), filtered...), which is nil.
NilIfEmpty(u) == IF DOMAIN u = {} THEN None ELSE u

(***************************************************************************)
(* The panel's deltas: what it sends when its list becomes new.            *)
(***************************************************************************)
Changed(old, new) == {i \in DOMAIN new : i \notin DOMAIN old \/ old[i] # new[i]}
AddDelta(old, new) == [i \in Changed(old, new) |-> new[i]]

AddEvents ==
    {new \in UserSets : DOMAIN streamUsers \subseteq DOMAIN new /\ Changed(streamUsers, new) # {}}
RemoveEvents ==
    {new \in UserSets : \E S \in SUBSET DOMAIN streamUsers :
                            S # {} /\ new = Without(streamUsers, S)}

-----------------------------------------------------------------------------
\* Reader r takes the lock in Apply; notify() follows once the lock is released.
Applying(r) == reader[r] = "idle" /\ events < MaxEvents /\ events' = events + 1

\* Mutant of Notifies: the event is applied and nobody is told.
StaysSilent(r) == UNCHANGED reader

Notifies(r) == reader' = [reader EXCEPT ![r] = "notify"]

ApplyConfig(r) ==
    /\ Applying(r)
    /\ \E c \in Configs : config' = c
    /\ dirty' = dirty \union {"config"}
    /\ Notifies(r)
    /\ UNCHANGED <<ready, users, deviceUsers, needsReconcile, hasFullUserState,
                   token, service, pull, streamUsers, missed>>

ApplyDevices(r) ==
    /\ Applying(r)
    /\ \E d \in DeviceMaps : deviceUsers' = d
    /\ dirty' = dirty \union {"devices"}
    /\ Notifies(r)
    /\ UNCHANGED <<ready, config, users, needsReconcile, hasFullUserState,
                   token, service, pull, streamUsers, missed>>

\* A full list that is not empty: the client passes on no other.
ApplyUsers(r) ==
    /\ Applying(r)
    /\ \E new \in UserSets \ {NoUsers} : streamUsers' = new /\ users' = new
    /\ dirty' = dirty \union {"users"}
    /\ hasFullUserState' = TRUE
    /\ missed' = {}
    /\ Notifies(r)
    /\ UNCHANGED <<ready, config, deviceUsers, needsReconcile, token, service, pull>>

\* The client drops a sync.users without users; the panel's list is empty now.
DropEmptyUsers(r) ==
    /\ Applying(r)
    /\ streamUsers # NoUsers
    /\ streamUsers' = NoUsers
    /\ missed' = missed \union {"dropped"}
    /\ UNCHANGED <<mailbox, token, reader, service, pull>>

\* A delta that does not reach the list: no list to apply it to, or an unknown action.
RefuseDelta ==
    /\ needsReconcile' = TRUE
    /\ missed' = missed \union {"refused"}
    /\ UNCHANGED <<users, dirty>>

\* Mutant of FoldDelta: the list changes and is not marked for delivery.
FoldQuietly(list) ==
    /\ users' = list
    /\ UNCHANGED <<dirty, needsReconcile, missed>>

FoldDelta(list) ==
    /\ users' = list
    /\ dirty' = dirty \union {"users"}
    /\ UNCHANGED <<needsReconcile, missed>>

ApplyAdd(r) ==
    /\ Applying(r)
    /\ \E new \in AddEvents :
          /\ streamUsers' = new
          /\ IF hasFullUserState
                THEN FoldDelta(Overlay(AsList(users), AddDelta(streamUsers, new)))
                ELSE RefuseDelta
    /\ Notifies(r)
    /\ UNCHANGED <<ready, config, deviceUsers, hasFullUserState, token, service, pull>>

ApplyRemove(r) ==
    /\ Applying(r)
    /\ \E new \in RemoveEvents :
          /\ streamUsers' = new
          /\ IF hasFullUserState
                THEN FoldDelta(NilIfEmpty(Without(AsList(users), DOMAIN streamUsers \ DOMAIN new)))
                ELSE RefuseDelta
    /\ Notifies(r)
    /\ UNCHANGED <<ready, config, deviceUsers, hasFullUserState, token, service, pull>>

ApplyUnknownDelta(r) ==
    /\ Applying(r)
    /\ \E new \in UserSets : streamUsers' = new
    /\ RefuseDelta
    /\ Notifies(r)
    /\ UNCHANGED <<ready, config, deviceUsers, hasFullUserState, token, service, pull>>

\* Mutant of Notify: on a channel without a buffer, only a service that waits is
\* woken.
NotifyWaiting(r) ==
    /\ reader[r] = "notify"
    /\ token' = (token \/ svc = "select")
    /\ reader' = [reader EXCEPT ![r] = "idle"]
    /\ UNCHANGED <<mailbox, service, pull, panel>>

\* The non-blocking send on a channel of capacity one.
Notify(r) ==
    /\ reader[r] = "notify"
    /\ token' = TRUE
    /\ reader' = [reader EXCEPT ![r] = "idle"]
    /\ UNCHANGED <<mailbox, service, pull, panel>>

-----------------------------------------------------------------------------
\* MachinePanelControlPlane.Initial: one REST snapshot, while the mailbox, which
\* startNode registered before, already takes events.
FetchBaseline ==
    /\ svc = "fetch"
    /\ \E c \in Configs : view' = [view EXCEPT !.config = c, !.users = streamUsers]
    /\ svcUsers' = streamUsers
    /\ svc' = "seed"
    /\ UNCHANGED <<mailbox, token, reader, behind, resync, pull, panel>>

\* Mutant of SeedBaseline: the baseline replaces a list that came before it.
SeedAlways ==
    /\ svc = "seed"
    /\ IF DOMAIN svcUsers # {}
          THEN users' = svcUsers /\ hasFullUserState' = TRUE
          ELSE UNCHANGED <<users, hasFullUserState>>
    /\ config' = IF config = None THEN view.config ELSE config
    /\ svc' = "mark"
    /\ UNCHANGED <<ready, deviceUsers, dirty, needsReconcile,
                   token, reader, view, svcUsers, behind, resync, pull, panel>>

\* prepareUserState stores an empty list as nil, and SeedBaseline ignores nil.
SeedBaseline ==
    /\ svc = "seed"
    /\ IF DOMAIN svcUsers # {} /\ ~hasFullUserState
          THEN users' = svcUsers /\ hasFullUserState' = TRUE
          ELSE UNCHANGED <<users, hasFullUserState>>
    /\ config' = IF config = None THEN view.config ELSE config
    /\ svc' = "mark"
    /\ UNCHANGED <<ready, deviceUsers, dirty, needsReconcile,
                   token, reader, view, svcUsers, behind, resync, pull, panel>>

MarkReady ==
    /\ svc = "mark"
    /\ ready' = TRUE
    /\ svc' = "marked"
    /\ UNCHANGED <<config, users, deviceUsers, dirty, needsReconcile, hasFullUserState,
                   token, reader, view, svcUsers, behind, resync, pull, panel>>

NotifyReady ==
    /\ svc = "marked"
    /\ token' = TRUE
    /\ svc' = "drain"
    /\ UNCHANGED <<mailbox, reader, view, svcUsers, behind, resync, pull, panel>>

\* case <-s.machineMailboxCh
Wake ==
    /\ svc = "select"
    /\ token
    /\ token' = FALSE
    /\ svc' = "drain"
    /\ UNCHANGED <<mailbox, reader, view, svcUsers, behind, resync, pull, panel>>

\* handleWSEvent returns at once on a nil user list.
Drained(kind) == CASE kind = "config"  -> config
                   [] kind = "users"   -> users
                   [] kind = "devices" -> deviceUsers

Handed(kind) == IF kind \in dirty /\ Drained(kind) # None THEN Drained(kind) ELSE view[kind]

\* applyUserUpdate with a list other than the one held: dropped if the kernel does
\* not run and cannot be started, undone if it can neither update nor restart.
\* Whether it can is left open here.
Offer(list) == svcUsers' \in {list, svcUsers}

\* What the service makes of the users a drain handed over.
TakeDrained ==
    IF "users" \in dirty /\ users # None
       THEN Offer(users) /\ behind' = (svcUsers' # users)
       ELSE UNCHANGED <<svcUsers, behind>>

\* Mutant of DrainIfReady: a drain that hands over users leaves out the rest.
DrainOneKind ==
    /\ svc = "drain"
    /\ svc' = IF needsReconcile THEN "request" ELSE "handle"
    /\ view' = [view EXCEPT !.users = Handed("users"),
                            !.config = IF "users" \in dirty THEN @ ELSE Handed("config")]
    /\ TakeDrained
    /\ dirty' = {}
    /\ needsReconcile' = FALSE
    /\ UNCHANGED <<ready, config, users, deviceUsers, hasFullUserState,
                   token, reader, resync, pull, panel>>

DrainIfReady ==
    /\ svc = "drain"
    /\ IF ready
          THEN /\ view' = [config  |-> Handed("config"),
                           users   |-> Handed("users"),
                           devices |-> Handed("devices")]
               /\ TakeDrained
               /\ svc' = IF needsReconcile THEN "request" ELSE "handle"
               /\ dirty' = {}
               /\ needsReconcile' = FALSE
          ELSE /\ svc' = "handle"
               /\ UNCHANGED <<view, svcUsers, behind, dirty, needsReconcile>>
    /\ UNCHANGED <<ready, config, users, deviceUsers, hasFullUserState,
                   token, reader, resync, pull, panel>>

\* drainMachineMailbox hands what it drained to handleWSEvent, with the lock
\* released; svcUsers already is what these calls make of lastUsers.
Handle ==
    /\ svc = "handle"
    /\ svc' = "select"
    /\ UNCHANGED <<mailbox, token, reader, view, svcUsers, behind, resync, pull, panel>>

\* pullViaAPIAsync: one pull at a time; whether its backoff skips it is left open.
StartPull ==
    /\ IF polling THEN UNCHANGED polling ELSE polling' \in BOOLEAN
    /\ UNCHANGED <<fetched, results>>

\* The same, followed by requestWSResync: one reconciliation at a time.
RequestResync ==
    /\ svc = "request"
    /\ svc' = "select"
    /\ resync' = TRUE
    /\ IF resync THEN UNCHANGED pull ELSE StartPull
    /\ UNCHANGED <<mailbox, token, reader, view, svcUsers, behind, panel>>

\* A status of the WebSocket, or a tick while it is down, pulls too.
AskPull ==
    /\ svc = "select"
    /\ StartPull
    /\ UNCHANGED <<mailbox, token, reader, service, panel>>

-----------------------------------------------------------------------------
\* The panel answers the goroutine with its list, or the request fails.
PollAnswered ==
    /\ polling /\ fetched = None
    /\ \/ fetched' = streamUsers /\ UNCHANGED polling
       \/ polling' = FALSE /\ UNCHANGED fetched
    /\ UNCHANGED <<results, mailbox, token, reader, service, panel>>

\* The send on pullResults waits until the result before has been taken.
PutResult ==
    /\ fetched # None /\ results = None
    /\ results' = fetched
    /\ fetched' = None
    /\ polling' = FALSE
    /\ UNCHANGED <<mailbox, token, reader, service, panel>>

\* The answer reaches the service, however old it is, and not the mailbox.  It is
\* not taken either if it came as "not modified".
ApplyPullResult ==
    /\ svc = "select"
    /\ results # None
    /\ results' = None
    /\ resync' = FALSE
    /\ Offer(results)
    /\ behind' = (svcUsers' # streamUsers)
    /\ UNCHANGED <<polling, fetched, mailbox, token, reader, svc, view, panel>>

-----------------------------------------------------------------------------
Init ==
    /\ ready = FALSE
    /\ config = None
    /\ users = None
    /\ deviceUsers = None
    /\ dirty = {}
    /\ needsReconcile = FALSE
    /\ hasFullUserState = FALSE
    /\ token = FALSE
    /\ reader = [r \in Readers |-> "idle"]
    /\ svc = "fetch"
    /\ view = [config |-> None, users |-> None, devices |-> None]
    /\ svcUsers = NoUsers
    /\ behind = FALSE
    /\ resync = FALSE
    /\ polling = FALSE
    /\ fetched = None
    /\ results = None
    /\ streamUsers \in UserSets
    /\ events = 0
    /\ missed = {}

Read(r) == \/ ApplyConfig(r) \/ ApplyDevices(r) \/ ApplyUsers(r) \/ DropEmptyUsers(r)
           \/ ApplyAdd(r) \/ ApplyRemove(r) \/ ApplyUnknownDelta(r)

\* What the service does without waiting for anybody.
ServiceStep == \/ FetchBaseline \/ SeedBaseline \/ MarkReady \/ NotifyReady
               \/ DrainIfReady \/ Handle \/ RequestResync

PullStep == AskPull \/ PollAnswered \/ PutResult \/ ApplyPullResult

Next == \/ \E r \in Readers : Read(r) \/ Notify(r)
        \/ ServiceStep
        \/ Wake
        \/ PullStep

\* A goroutine that can run is run, and a select takes every case that stays
\* ready; nothing makes the panel send an event, and no pull is needed.
Fairness == /\ WF_vars(ServiceStep)
            /\ WF_vars(Wake)
            /\ \A r \in Readers : WF_vars(Notify(r))

Spec == Init /\ [][Next]_vars /\ Fairness

-----------------------------------------------------------------------------
\* Types of the fields and the program counters.
TypeOK ==
    /\ ready \in BOOLEAN
    /\ config \in Configs \union {None}
    /\ users \in UserSets \union {None}
    /\ deviceUsers \in DeviceMaps \union {None}
    /\ dirty \subseteq Kinds
    /\ needsReconcile \in BOOLEAN
    /\ hasFullUserState \in BOOLEAN
    /\ token \in BOOLEAN
    /\ reader \in [Readers -> {"idle", "notify"}]
    /\ svc \in {"fetch", "seed", "mark", "marked", "drain", "handle", "request", "select"}
    /\ view \in [config  : Configs \union {None},
                users   : UserSets \union {None},
                devices : DeviceMaps \union {None}]
    /\ svcUsers \in UserSets
    /\ behind \in BOOLEAN
    /\ resync \in BOOLEAN
    /\ polling \in BOOLEAN
    /\ fetched \in UserSets \union {None}
    /\ results \in UserSets \union {None}
    /\ streamUsers \in UserSets
    /\ events \in 0..MaxEvents
    /\ missed \subseteq {"refused", "dropped"}

\* No lost wake-up: while the service handles what it drained or sits in its
\* select loop and its mailbox holds something to deliver, the channel holds the
\* token or a reader is about to send it.  Apply marks the state under the lock and
\* sends after it, and the service may drain in between or be busy.
NoLostWakeup ==
    (svc \in {"handle", "request", "select"} /\ (dirty # {} \/ needsReconcile))
        => (token \/ \E r \in Readers : reader[r] = "notify")

\* What the mailbox holds and does not consider dirty is what the service was
\* handed last: neither the seed nor a drain makes a value disappear unseen.
CleanIsSeen ==
    svc \notin {"fetch", "seed"} =>
        \A k \in Kinds \ dirty : Drained(k) \in {None, view[k]}

\* As long as every change since the last full list was folded - the mailbox refuses
\* a delta without a list to apply it to, and the client drops a list that is empty
\* - the list the mailbox rebuilds from deltas is the panel's list, whatever the
\* interleaving of the baseline, the seed and the events.
UsersTrackStream ==
    (hasFullUserState /\ missed = {}) => AsList(users) = streamUsers

\* The service is in its select loop and every event has been handed over.
Quiet ==
    /\ svc = "select"
    /\ ~token
    /\ \A r \in Readers : reader[r] = "idle"

\* A quiet service serves the panel's list, while pulls come and go, with four
\* exceptions: a change was not folded, the mailbox ended up with a nil list, the
\* service refused the list it was handed, or the answer of a pull that newer
\* events had overtaken replaced it (the latter two are "behind").
QuietUsersCurrent ==
    (Quiet /\ hasFullUserState /\ missed = {} /\ users # None /\ ~behind) => svcUsers = streamUsers

\* The same without the exception for nil: removing the last user reaches the
\* service like any other delta.
LastRemovalDelivered ==
    (Quiet /\ hasFullUserState /\ missed = {} /\ ~behind) => svcUsers = streamUsers

\* The same without the exception for refused deltas: once the reconciliation
\* they caused has been applied, deltas are folded into a list that has them.
ReconciledDeltasKept ==
    (Quiet /\ hasFullUserState /\ "dropped" \notin missed /\ users # None /\ ~behind /\ ~resync)
        => svcUsers = streamUsers

-----------------------------------------------------------------------------
\* Before the seed a value in the mailbox is one an event put there, and it is
\* still to be delivered.
UnseededIsDirty ==
    svc \in {"fetch", "seed"} => \A k \in Kinds : Drained(k) # None => k \in dirty

\* The program counter of the service and the flag it sets.
ReadyAfterMark == ready <=> svc \in {"marked", "drain", "handle", "request", "select"}

\* The baseline is the panel's list until an event says otherwise.
BaselineCurrent ==
    svc = "seed" => /\ view.users = svcUsers
                    /\ ~hasFullUserState /\ missed = {} => svcUsers = streamUsers

\* A full list, even one that deltas made nil, stays dirty until the seed is past;
\* without one there are no users in the mailbox.
FullListDirty ==
    /\ svc \in {"fetch", "seed"} /\ hasFullUserState => "users" \in dirty
    /\ ~hasFullUserState => users = None

\* What a drain handed over is what the service holds until the next event, or it
\* is behind.
DrainedIsHeld ==
    (/\ svc \notin {"fetch", "seed"}
     /\ hasFullUserState /\ missed = {} /\ ~behind
     /\ users # None
     /\ "users" \notin dirty) => svcUsers = users

\* The inductive invariant behind the properties above.
Inv ==
    /\ TypeOK
    /\ NoLostWakeup
    /\ CleanIsSeen
    /\ UsersTrackStream
    /\ UnseededIsDirty
    /\ ReadyAfterMark
    /\ BaselineCurrent
    /\ FullListDirty
    /\ DrainedIsHeld

-----------------------------------------------------------------------------
\* The mailbox implements LatestWins: the drains hand over the latest values,
\* all kinds in one snapshot, and nothing before MarkReady.
Latest == INSTANCE LatestWins WITH
             Values <- Configs \union UserSets \union DeviceMaps,
             latest <- [k \in Kinds |-> Drained(k)],
             seen   <- view,
             open   <- ready

ImplementsLatestWins == Latest!Spec

\* Every event that reached a ready mailbox is handed over or replaced by a newer
\* one: whatever is dirty while the service waits, a drain takes all of it.
EventuallyClean == (svc = "select" /\ dirty # {}) ~> (dirty = {})
=============================================================================
