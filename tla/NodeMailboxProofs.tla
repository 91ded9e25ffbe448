-------------------------- MODULE NodeMailboxProofs --------------------------
(***************************************************************************)
(* The safety properties of NodeMailbox for every set of users, readers    *)
(* and events, and the refinement of LatestWins.                           *)
(***************************************************************************)
EXTENDS NodeMailbox, TLAPS

-----------------------------------------------------------------------------
(* User lists *)

\* A function from some of the IDs to Specs is a user list.
LEMMA UserSetsMember ==
    ASSUME NEW S \in SUBSET Ids, NEW f \in [S -> Specs]
    PROVE  f \in UserSets
BY DEF UserSets

\* A user list is a function on a set of IDs.
LEMMA UserSetsElim ==
    ASSUME NEW u \in UserSets
    PROVE  /\ DOMAIN u \in SUBSET Ids
           /\ u \in [DOMAIN u -> Specs]
           /\ u # None
BY NoneIsNothing DEF UserSets

LEMMA OverlayType ==
    ASSUME NEW u \in UserSets, NEW d \in UserSets
    PROVE  Overlay(u, d) \in UserSets
<1>1. /\ DOMAIN u \in SUBSET Ids /\ u \in [DOMAIN u -> Specs]
      /\ DOMAIN d \in SUBSET Ids /\ d \in [DOMAIN d -> Specs]
  BY UserSetsElim
<1>2. Overlay(u, d) \in [DOMAIN u \union DOMAIN d -> Specs]
  BY <1>1 DEF Overlay
<1> QED BY <1>1, <1>2, UserSetsMember

LEMMA WithoutType ==
    ASSUME NEW u \in UserSets, NEW S
    PROVE  Without(u, S) \in UserSets
<1>1. DOMAIN u \in SUBSET Ids /\ u \in [DOMAIN u -> Specs]
  BY UserSetsElim
<1>2. Without(u, S) \in [DOMAIN u \ S -> Specs]
  BY <1>1 DEF Without
<1> QED BY <1>1, <1>2, UserSetsMember

LEMMA AddDeltaType ==
    ASSUME NEW old, NEW new \in UserSets
    PROVE  AddDelta(old, new) \in UserSets
<1>1. DOMAIN new \in SUBSET Ids /\ new \in [DOMAIN new -> Specs]
  BY UserSetsElim
<1>2. Changed(old, new) \in SUBSET Ids
  BY <1>1 DEF Changed
<1>3. AddDelta(old, new) \in [Changed(old, new) -> Specs]
  BY <1>1 DEF AddDelta, Changed
<1> QED BY <1>2, <1>3, UserSetsMember

\* Folding the panel's "add" delta into its old list gives its new list.
LEMMA AddFolds ==
    ASSUME NEW old \in UserSets, NEW new \in UserSets, DOMAIN old \subseteq DOMAIN new
    PROVE  Overlay(old, AddDelta(old, new)) = new
<1>1. old \in [DOMAIN old -> Specs] /\ new \in [DOMAIN new -> Specs]
  BY UserSetsElim
<1>2. DOMAIN AddDelta(old, new) = Changed(old, new)
  BY DEF AddDelta
<1>3. DOMAIN old \union Changed(old, new) = DOMAIN new
  BY DEF Changed
<1>4. Overlay(old, AddDelta(old, new)) =
        [i \in DOMAIN new |-> IF i \in Changed(old, new) THEN new[i] ELSE old[i]]
  BY <1>2, <1>3 DEF Overlay, AddDelta
<1>5. \A i \in DOMAIN new : i \notin Changed(old, new) => old[i] = new[i]
  BY DEF Changed
<1> QED BY <1>1, <1>4, <1>5

\* Folding the panel's "remove" delta into its old list gives its new list.
LEMMA RemoveFolds ==
    ASSUME NEW old \in UserSets, NEW S \in SUBSET DOMAIN old
    PROVE  Without(old, DOMAIN old \ DOMAIN Without(old, S)) = Without(old, S)
<1>1. DOMAIN Without(old, S) = DOMAIN old \ S
  BY DEF Without
<1>2. DOMAIN old \ (DOMAIN old \ DOMAIN Without(old, S)) = DOMAIN old \ S
  BY <1>1
<1> QED BY <1>2 DEF Without

LEMMA NoUsersType == NoUsers \in UserSets
<1>1. NoUsers \in [{} -> Specs]
  BY DEF NoUsers
<1> QED BY <1>1, UserSetsMember

\* A list without users is NoUsers: what AsList makes of nil.
LEMMA EmptyIsNoUsers ==
    ASSUME NEW u \in UserSets, DOMAIN u = {}
    PROVE  u = NoUsers
<1>1. u \in [{} -> Specs]
  BY UserSetsElim
<1> QED BY <1>1 DEF NoUsers

LEMMA NilIfEmptyReads ==
    ASSUME NEW u \in UserSets
    PROVE  /\ NilIfEmpty(u) \in UserSets \union {None}
           /\ AsList(NilIfEmpty(u)) = u
<1>1. u # None
  BY UserSetsElim
<1>2. CASE DOMAIN u = {}
  BY <1>1, <1>2, EmptyIsNoUsers, NoUsersType DEF NilIfEmpty, AsList
<1>3. CASE DOMAIN u # {}
  BY <1>1, <1>3 DEF NilIfEmpty, AsList
<1> QED BY <1>2, <1>3

LEMMA AsListType ==
    ASSUME NEW u \in UserSets \union {None}
    PROVE  AsList(u) \in UserSets
BY NoUsersType DEF AsList

-----------------------------------------------------------------------------
(* Types *)

LEMMA TypeInit == Init => TypeOK
<1>1. NoUsers \in UserSets
  BY NoUsersType
<1>2. ASSUME Init
      PROVE  view \in [config  : Configs \union {None},
                       users   : UserSets \union {None},
                       devices : DeviceMaps \union {None}]
  BY <1>2 DEF Init
<1>3. Init => events \in 0..MaxEvents
  BY MaxEventsIsNat DEF Init
<1>4. Init => reader \in [Readers -> {"idle", "notify"}]
  BY DEF Init
<1>5. Init => missed \subseteq {"refused", "dropped"}
  BY DEF Init
<1> QED BY <1>1, <1>2, <1>3, <1>4, <1>5 DEF Init, TypeOK

LEMMA TypeNext == TypeOK /\ [Next]_vars => TypeOK'
<1> SUFFICES ASSUME TypeOK, [Next]_vars PROVE TypeOK'
  OBVIOUS
<1>1. ASSUME NEW r \in Readers, Read(r) PROVE TypeOK'
  <2> events' \in 0..MaxEvents /\ reader' \in [Readers -> {"idle", "notify"}]
    BY <1>1, MaxEventsIsNat DEF Read, ApplyConfig, ApplyDevices, ApplyUsers, ApplyAdd,
         ApplyRemove, ApplyUnknownDelta, DropEmptyUsers, Applying, Notifies, TypeOK
  <2>1. CASE ApplyConfig(r)
    BY <2>1 DEF ApplyConfig, TypeOK, service, pull, Kinds
  <2>2. CASE ApplyDevices(r)
    BY <2>2 DEF ApplyDevices, TypeOK, service, pull, Kinds
  <2>3. CASE ApplyUsers(r)
    <3>1. streamUsers' \in UserSets /\ users' \in UserSets
      BY <2>3 DEF ApplyUsers
    <3>3. missed' \subseteq {"refused", "dropped"}
      BY <2>3 DEF ApplyUsers
    <3>2. dirty' \subseteq Kinds
      BY <2>3 DEF ApplyUsers, TypeOK, Kinds
    <3>4. /\ hasFullUserState' \in BOOLEAN
          /\ UNCHANGED <<ready, config, deviceUsers, needsReconcile, token, service, pull>>
      BY <2>3 DEF ApplyUsers
    <3> QED BY <3>1, <3>2, <3>3, <3>4 DEF TypeOK, service, pull
  <2>4. CASE ApplyAdd(r)
    <3>1. PICK new \in UserSets :
             /\ streamUsers' = new
             /\ IF hasFullUserState
                   THEN FoldDelta(Overlay(AsList(users), AddDelta(streamUsers, new)))
                   ELSE RefuseDelta
      BY <2>4 DEF ApplyAdd, AddEvents
    <3>2. Overlay(AsList(users), AddDelta(streamUsers, new)) \in UserSets
      BY AsListType, AddDeltaType, OverlayType DEF TypeOK
    <3>3. /\ users' \in UserSets \union {None}
          /\ dirty' \subseteq Kinds
          /\ needsReconcile' \in BOOLEAN
          /\ missed' \subseteq {"refused", "dropped"}
      <4>1. CASE hasFullUserState
        BY <3>1, <3>2, <4>1 DEF FoldDelta, TypeOK, Kinds
      <4>2. CASE ~hasFullUserState
        BY <3>1, <4>2 DEF RefuseDelta, TypeOK
      <4> QED BY <4>1, <4>2
    <3> QED BY <2>4, <3>1, <3>3 DEF ApplyAdd, TypeOK, service, pull
  <2>5. CASE ApplyRemove(r)
    <3>1. PICK new \in UserSets :
             /\ streamUsers' = new
             /\ IF hasFullUserState
                   THEN FoldDelta(NilIfEmpty(Without(AsList(users), DOMAIN streamUsers \ DOMAIN new)))
                   ELSE RefuseDelta
      BY <2>5 DEF ApplyRemove, RemoveEvents
    <3>2. NilIfEmpty(Without(AsList(users), DOMAIN streamUsers \ DOMAIN new))
            \in UserSets \union {None}
      BY AsListType, WithoutType, NilIfEmptyReads DEF TypeOK
    <3>3. /\ users' \in UserSets \union {None}
          /\ dirty' \subseteq Kinds
          /\ needsReconcile' \in BOOLEAN
          /\ missed' \subseteq {"refused", "dropped"}
      <4>1. CASE hasFullUserState
        BY <3>1, <3>2, <4>1 DEF FoldDelta, TypeOK, Kinds
      <4>2. CASE ~hasFullUserState
        BY <3>1, <4>2 DEF RefuseDelta, TypeOK
      <4> QED BY <4>1, <4>2
    <3> QED BY <2>5, <3>1, <3>3 DEF ApplyRemove, TypeOK, service, pull
  <2>6. CASE ApplyUnknownDelta(r)
    <3>1. streamUsers' \in UserSets
      BY <2>6 DEF ApplyUnknownDelta
    <3> QED BY <2>6, <3>1 DEF ApplyUnknownDelta, RefuseDelta, TypeOK, service, pull
  <2>7. CASE DropEmptyUsers(r)
    BY <2>7, NoUsersType DEF DropEmptyUsers, TypeOK, mailbox, service, pull
  <2> QED BY <1>1, <2>1, <2>2, <2>3, <2>4, <2>5, <2>6, <2>7 DEF Read
<1>2. ASSUME NEW r \in Readers, Notify(r) PROVE TypeOK'
  BY <1>2 DEF Notify, TypeOK, mailbox, service, pull, panel
<1>3. CASE FetchBaseline
  <2>1. /\ view' \in [config  : Configs \union {None},
                      users   : UserSets \union {None},
                      devices : DeviceMaps \union {None}]
        /\ svcUsers' \in UserSets /\ svc' = "seed"
    BY <1>3 DEF FetchBaseline, TypeOK
  <2>2. UNCHANGED <<mailbox, token, reader, behind, resync, pull, panel>>
    BY <1>3 DEF FetchBaseline
  <2> QED BY <2>1, <2>2 DEF TypeOK, mailbox, pull, panel
<1>4. CASE SeedBaseline
  <2>1. /\ users' \in UserSets \union {None} /\ hasFullUserState' \in BOOLEAN
        /\ config' \in Configs \union {None} /\ svc' = "mark"
    BY <1>4 DEF SeedBaseline, TypeOK
  <2>2. UNCHANGED <<ready, deviceUsers, dirty, needsReconcile,
                    token, reader, view, svcUsers, behind, resync, pull, panel>>
    BY <1>4 DEF SeedBaseline
  <2> QED BY <2>1, <2>2 DEF TypeOK, pull, panel
<1>5. CASE MarkReady
  BY <1>5 DEF MarkReady, TypeOK, pull, panel
<1>6. CASE NotifyReady
  BY <1>6 DEF NotifyReady, TypeOK, mailbox, pull, panel
<1>7. CASE Wake
  <2>1. token' \in BOOLEAN /\ svc' = "drain"
    BY <1>7 DEF Wake
  <2>2. UNCHANGED <<mailbox, reader, view, svcUsers, behind, resync, pull, panel>>
    BY <1>7 DEF Wake
  <2> QED BY <2>1, <2>2 DEF TypeOK, mailbox, pull, panel
<1>8. CASE DrainIfReady
  <2>1. view' \in [config  : Configs \union {None},
                   users   : UserSets \union {None},
                   devices : DeviceMaps \union {None}]
    BY <1>8 DEF DrainIfReady, Handed, Drained, TypeOK
  <2>2. svcUsers' \in UserSets /\ behind' \in BOOLEAN
    BY <1>8 DEF DrainIfReady, TakeDrained, Offer, TypeOK
  <2>3. svc' \in {"handle", "request"} /\ dirty' \subseteq Kinds /\ needsReconcile' \in BOOLEAN
    BY <1>8 DEF DrainIfReady, TypeOK
  <2> QED BY <1>8, <2>1, <2>2, <2>3 DEF DrainIfReady, TypeOK, pull, panel
<1>9. CASE PullStep
  <2>1. CASE AskPull
    BY <2>1 DEF AskPull, StartPull, TypeOK, mailbox, service, panel
  <2>2. CASE PollAnswered
    <3>1. fetched' \in UserSets \union {None} /\ polling' \in BOOLEAN /\ UNCHANGED results
      BY <2>2 DEF PollAnswered, TypeOK
    <3>2. UNCHANGED <<mailbox, token, reader, service, panel>>
      BY <2>2 DEF PollAnswered
    <3> QED BY <3>1, <3>2 DEF TypeOK, mailbox, service, panel
  <2>3. CASE PutResult
    <3>1. results' \in UserSets \union {None} /\ fetched' \in UserSets \union {None} /\ polling' \in BOOLEAN
      BY <2>3 DEF PutResult, TypeOK
    <3>2. UNCHANGED <<mailbox, token, reader, service, panel>>
      BY <2>3 DEF PutResult
    <3> QED BY <3>1, <3>2 DEF TypeOK, mailbox, service, panel
  <2>4. CASE ApplyPullResult
    <3>1. svcUsers' \in UserSets /\ behind' \in BOOLEAN
      BY <2>4 DEF ApplyPullResult, Offer, TypeOK
    <3>2. results' \in UserSets \union {None} /\ resync' \in BOOLEAN
      BY <2>4 DEF ApplyPullResult
    <3>3. UNCHANGED <<polling, fetched, mailbox, token, reader, svc, view, panel>>
      BY <2>4 DEF ApplyPullResult
    <3> QED BY <3>1, <3>2, <3>3 DEF TypeOK, mailbox, panel
  <2> QED BY <1>9, <2>1, <2>2, <2>3, <2>4 DEF PullStep
<1>10. CASE UNCHANGED vars
  BY <1>10 DEF TypeOK, vars, mailbox, service, pull, panel
<1>11. CASE Handle
  BY <1>11 DEF Handle, TypeOK, mailbox, pull, panel
<1>12. CASE RequestResync
  BY <1>12 DEF RequestResync, StartPull, TypeOK, mailbox, pull, panel
<1> QED BY <1>1, <1>2, <1>3, <1>4, <1>5, <1>6, <1>7, <1>8, <1>9, <1>10, <1>11, <1>12
        DEF Next, ServiceStep

\* Every field keeps its type: TypeOK is an inductive invariant by itself.
THEOREM TypeCorrect == Spec => []TypeOK
BY TypeInit, TypeNext, PTL DEF Spec

-----------------------------------------------------------------------------
(* The inductive invariant *)

LEMMA InvInit == Init => Inv
<1> SUFFICES ASSUME Init PROVE Inv
  OBVIOUS
<1>1. TypeOK
  BY TypeInit
<1>2. NoLostWakeup /\ CleanIsSeen /\ UsersTrackStream /\ ReadyAfterMark
  BY DEF Init, NoLostWakeup, CleanIsSeen, UsersTrackStream, ReadyAfterMark
<1>3. UnseededIsDirty
  BY DEF Init, UnseededIsDirty, Kinds, Drained
<1>4. BaselineCurrent /\ FullListDirty /\ DrainedIsHeld
  BY DEF Init, BaselineCurrent, FullListDirty, DrainedIsHeld
<1> QED BY <1>1, <1>2, <1>3, <1>4 DEF Inv

\* What an event leaves alone, and that it leaves a notification to send if it
\* leaves something to deliver.
LEMMA ReadFrame ==
    ASSUME TypeOK, NEW r \in Readers, Read(r)
    PROVE  /\ UNCHANGED <<service, token, ready>>
           /\ dirty \subseteq dirty'
           /\ (dirty' = dirty /\ needsReconcile' = needsReconcile) \/ reader'[r] = "notify"
           /\ \A q \in Readers : reader[q] = "notify" => reader'[q] = "notify"
<1>1. CASE DropEmptyUsers(r)
  BY <1>1 DEF DropEmptyUsers, mailbox
<1>2. CASE ~DropEmptyUsers(r)
  BY <1>2 DEF Read, ApplyConfig, ApplyDevices, ApplyUsers, ApplyAdd, ApplyRemove, ApplyUnknownDelta,
       Notifies, FoldDelta, RefuseDelta, TypeOK
<1> QED BY <1>1, <1>2

\* What an event does to the users: nothing, a full list, a delta folded into the
\* panel's list, or a delta refused.
LEMMA ReadUsers ==
    ASSUME TypeOK, NEW r \in Readers, Read(r)
    PROVE  \/ UNCHANGED <<users, streamUsers, missed, hasFullUserState>>
           \/ /\ users' = streamUsers' /\ hasFullUserState' /\ missed' = {}
              /\ "users" \in dirty'
           \/ /\ hasFullUserState /\ hasFullUserState'
              /\ AsList(users) = streamUsers => AsList(users') = streamUsers'
              /\ missed' = missed
              /\ "users" \in dirty'
           \/ missed' # {} /\ UNCHANGED <<users, hasFullUserState>>
<1>1. CASE ApplyConfig(r) \/ ApplyDevices(r)
  BY <1>1 DEF ApplyConfig, ApplyDevices
<1>2. CASE ApplyUsers(r)
  BY <1>2 DEF ApplyUsers
<1>3. CASE ApplyAdd(r)
  <2>1. PICK new \in AddEvents :
           /\ streamUsers' = new
           /\ IF hasFullUserState
                 THEN FoldDelta(Overlay(AsList(users), AddDelta(streamUsers, new)))
                 ELSE RefuseDelta
    BY <1>3 DEF ApplyAdd
  <2>2. Overlay(streamUsers, AddDelta(streamUsers, new)) = new
    BY AddFolds DEF AddEvents, TypeOK
  <2>3. new # None
    BY UserSetsElim DEF AddEvents
  <2>4. CASE hasFullUserState
    BY <1>3, <2>1, <2>2, <2>3, <2>4 DEF ApplyAdd, FoldDelta, AsList
  <2>5. CASE ~hasFullUserState
    BY <1>3, <2>1, <2>5 DEF ApplyAdd, RefuseDelta
  <2> QED BY <2>4, <2>5
<1>4. CASE ApplyRemove(r)
  <2>1. PICK new \in RemoveEvents :
           /\ streamUsers' = new
           /\ IF hasFullUserState
                 THEN FoldDelta(NilIfEmpty(Without(AsList(users), DOMAIN streamUsers \ DOMAIN new)))
                 ELSE RefuseDelta
    BY <1>4 DEF ApplyRemove
  <2>2. Without(streamUsers, DOMAIN streamUsers \ DOMAIN new) = new
    BY RemoveFolds DEF RemoveEvents, TypeOK
  <2>3. AsList(NilIfEmpty(new)) = new
    BY NilIfEmptyReads DEF RemoveEvents
  <2>4. CASE hasFullUserState
    BY <1>4, <2>1, <2>2, <2>3, <2>4 DEF ApplyRemove, FoldDelta
  <2>5. CASE ~hasFullUserState
    BY <1>4, <2>1, <2>5 DEF ApplyRemove, RefuseDelta
  <2> QED BY <2>4, <2>5
<1>5. CASE ApplyUnknownDelta(r)
  BY <1>5 DEF ApplyUnknownDelta, RefuseDelta
<1>6. CASE DropEmptyUsers(r)
  BY <1>6 DEF DropEmptyUsers, mailbox
<1> QED BY <1>1, <1>2, <1>3, <1>4, <1>5, <1>6 DEF Read

\* A value an event changes is dirty afterwards.
LEMMA ReadMarks ==
    ASSUME TypeOK, NEW r \in Readers, Read(r), NEW k \in Kinds, k \notin dirty'
    PROVE  Drained(k)' = Drained(k)
BY DEF Read, ApplyConfig, ApplyDevices, ApplyUsers, ApplyAdd, ApplyRemove, ApplyUnknownDelta,
       DropEmptyUsers, mailbox, FoldDelta, RefuseDelta, Drained, Kinds

LEMMA ReadKeepsInv ==
    ASSUME Inv, TypeOK', NEW r \in Readers, Read(r)
    PROVE  Inv'
<1> USE DEF Inv
<1>1. /\ UNCHANGED <<service, token, ready>>
      /\ dirty \subseteq dirty'
      /\ (dirty' = dirty /\ needsReconcile' = needsReconcile) \/ reader'[r] = "notify"
      /\ \A q \in Readers : reader[q] = "notify" => reader'[q] = "notify"
  BY ReadFrame
<1>2. \A k \in Kinds : k \notin dirty' => Drained(k)' = Drained(k)
  BY ReadMarks
<1>3. NoLostWakeup'
  BY <1>1 DEF NoLostWakeup, service
<1>4. CleanIsSeen'
  BY <1>1, <1>2 DEF CleanIsSeen, service
<1>5. UsersTrackStream'
  <2>1. streamUsers' # None
    BY UserSetsElim DEF TypeOK
  <2>2. CASE UNCHANGED <<users, streamUsers, missed, hasFullUserState>>
    BY <2>2 DEF UsersTrackStream, AsList
  <2>3. CASE users' = streamUsers'
    BY <2>1, <2>3 DEF UsersTrackStream, AsList
  <2>4. CASE /\ hasFullUserState
             /\ AsList(users) = streamUsers => AsList(users') = streamUsers'
             /\ missed' = missed
    <3>1. AsList(users') = AsList(users)'
      BY DEF AsList
    <3> QED BY <2>4, <3>1 DEF UsersTrackStream
  <2>5. CASE missed' # {}
    BY <2>5 DEF UsersTrackStream
  <2> QED BY <2>2, <2>3, <2>4, <2>5, ReadUsers
<1>6. UnseededIsDirty'
  BY <1>1, <1>2 DEF UnseededIsDirty, service
<1>7. ReadyAfterMark'
  BY <1>1 DEF ReadyAfterMark, service
<1>8. BaselineCurrent'
  BY <1>1, ReadUsers DEF BaselineCurrent, service
<1>9. FullListDirty'
  BY <1>1, ReadUsers DEF FullListDirty, service
<1>10. DrainedIsHeld'
  BY <1>1, ReadUsers DEF DrainedIsHeld, service
<1> QED BY <1>3, <1>4, <1>5, <1>6, <1>7, <1>8, <1>9, <1>10

LEMMA SeedKeepsInv ==
    ASSUME Inv, TypeOK', SeedBaseline
    PROVE  Inv'
<1> USE DEF Inv, SeedBaseline
<1>1. NoLostWakeup' /\ UnseededIsDirty' /\ ReadyAfterMark' /\ BaselineCurrent'
  BY DEF NoLostWakeup, UnseededIsDirty, ReadyAfterMark, BaselineCurrent
<1>2. users = None \/ "users" \in dirty
  BY DEF UnseededIsDirty, Drained, Kinds
<1>3. CleanIsSeen'
  <2> SUFFICES ASSUME NEW k \in Kinds, k \notin dirty
               PROVE  Drained(k)' \in {None, view[k]}
    BY DEF CleanIsSeen
  <2>1. Drained(k) = None
    BY DEF UnseededIsDirty
  <2>2. CASE k = "config"
    BY <2>1, <2>2 DEF Drained
  <2>3. CASE k = "users"
    BY <2>1, <2>3 DEF Drained, BaselineCurrent
  <2>4. CASE k = "devices"
    BY <2>1, <2>4 DEF Drained
  <2> QED BY <2>2, <2>3, <2>4 DEF Kinds
<1>4. svcUsers # None /\ streamUsers # None
  BY UserSetsElim DEF TypeOK
<1>5. UsersTrackStream'
  BY <1>4 DEF UsersTrackStream, BaselineCurrent, AsList, panel
<1>6. FullListDirty'
  BY DEF FullListDirty
<1>7. DrainedIsHeld'
  BY DEF DrainedIsHeld, FullListDirty, panel
<1> QED BY <1>1, <1>3, <1>5, <1>6, <1>7

LEMMA DrainKeepsInv ==
    ASSUME Inv, TypeOK', DrainIfReady
    PROVE  Inv'
<1> USE DEF Inv, DrainIfReady
<1>1. ready
  BY DEF ReadyAfterMark
<1>2. NoLostWakeup' /\ UnseededIsDirty' /\ ReadyAfterMark' /\ BaselineCurrent' /\ FullListDirty'
  BY <1>1 DEF NoLostWakeup, UnseededIsDirty, ReadyAfterMark, BaselineCurrent, FullListDirty
<1>3. CleanIsSeen'
  <2> SUFFICES ASSUME NEW k \in Kinds
               PROVE  Drained(k)' \in {None, view'[k]}
    BY DEF CleanIsSeen
  <2>1. Drained(k)' = Drained(k)
    BY DEF Drained
  <2>2. view'[k] = Handed(k)
    BY <1>1 DEF Kinds
  <2>3. k \notin dirty => Drained(k) \in {None, view[k]}
    BY DEF CleanIsSeen
  <2> QED BY <2>1, <2>2, <2>3 DEF Handed
<1>4. UsersTrackStream'
  BY DEF UsersTrackStream, AsList, panel
<1>5. DrainedIsHeld'
  BY <1>1 DEF DrainedIsHeld, TakeDrained, panel
<1> QED BY <1>2, <1>3, <1>4, <1>5

LEMMA InvNext == Inv /\ [Next]_vars => Inv'
<1> SUFFICES ASSUME Inv, [Next]_vars PROVE Inv'
  OBVIOUS
<1>0. TypeOK'
  BY TypeNext DEF Inv
<1>1. ASSUME NEW r \in Readers, Read(r) PROVE Inv'
  BY <1>0, <1>1, ReadKeepsInv
<1>2. ASSUME NEW r \in Readers, Notify(r) PROVE Inv'
  BY <1>0, <1>2 DEF Notify, Inv, NoLostWakeup, CleanIsSeen, UsersTrackStream, UnseededIsDirty,
       ReadyAfterMark, BaselineCurrent, FullListDirty, DrainedIsHeld, Drained, AsList,
       mailbox, service, pull, panel
<1>3. CASE FetchBaseline
  <2>1. streamUsers # None /\ view'.users = svcUsers'
    BY <1>3, UserSetsElim DEF FetchBaseline, TypeOK, Inv
  <2> QED BY <1>0, <1>3, <2>1 DEF FetchBaseline, Inv, NoLostWakeup, CleanIsSeen, UsersTrackStream,
       UnseededIsDirty, ReadyAfterMark, BaselineCurrent, FullListDirty, DrainedIsHeld, Drained,
       AsList, mailbox, pull, panel
<1>4. CASE SeedBaseline
  BY <1>0, <1>4, SeedKeepsInv
<1>5. CASE MarkReady
  BY <1>0, <1>5 DEF MarkReady, Inv, NoLostWakeup, CleanIsSeen, UsersTrackStream, UnseededIsDirty,
       ReadyAfterMark, BaselineCurrent, FullListDirty, DrainedIsHeld, Drained, AsList, pull, panel
<1>6. CASE NotifyReady
  BY <1>0, <1>6 DEF NotifyReady, Inv, NoLostWakeup, CleanIsSeen, UsersTrackStream, UnseededIsDirty,
       ReadyAfterMark, BaselineCurrent, FullListDirty, DrainedIsHeld, Drained, AsList, mailbox, pull, panel
<1>7. CASE Wake
  BY <1>0, <1>7 DEF Wake, Inv, NoLostWakeup, CleanIsSeen, UsersTrackStream, UnseededIsDirty,
       ReadyAfterMark, BaselineCurrent, FullListDirty, DrainedIsHeld, Drained, AsList, mailbox, pull, panel
<1>8. CASE DrainIfReady
  BY <1>0, <1>8, DrainKeepsInv
<1>9. CASE PullStep
  <2>1. CASE AskPull \/ PollAnswered \/ PutResult
    <3>1. UNCHANGED <<mailbox, token, reader, service, panel>>
      BY <2>1 DEF AskPull, PollAnswered, PutResult
    <3> QED BY <1>0, <3>1 DEF Inv, NoLostWakeup, CleanIsSeen, UsersTrackStream, UnseededIsDirty,
         ReadyAfterMark, BaselineCurrent, FullListDirty, DrainedIsHeld, Drained, AsList,
         mailbox, service, panel
  <2>2. CASE ApplyPullResult
    <3>1. /\ UNCHANGED <<mailbox, token, reader, svc, view, panel>> /\ svc = "select"
          /\ ~behind' => svcUsers' = streamUsers
      BY <2>2 DEF ApplyPullResult
    <3>2. DrainedIsHeld'
      BY <3>1 DEF Inv, DrainedIsHeld, UsersTrackStream, AsList, mailbox, panel
    <3> QED BY <1>0, <3>1, <3>2 DEF Inv, NoLostWakeup, CleanIsSeen, UsersTrackStream,
         UnseededIsDirty, ReadyAfterMark, BaselineCurrent, FullListDirty, Drained, AsList,
         mailbox, panel
  <2> QED BY <1>9, <2>1, <2>2 DEF PullStep
<1>10. CASE UNCHANGED vars
  BY <1>0, <1>10 DEF vars, Inv, NoLostWakeup, CleanIsSeen, UsersTrackStream, UnseededIsDirty,
       ReadyAfterMark, BaselineCurrent, FullListDirty, DrainedIsHeld, Drained, AsList,
       mailbox, service, pull, panel
<1>11. CASE Handle
  BY <1>0, <1>11 DEF Handle, Inv, NoLostWakeup, CleanIsSeen, UsersTrackStream, UnseededIsDirty,
       ReadyAfterMark, BaselineCurrent, FullListDirty, DrainedIsHeld, Drained, AsList, mailbox, pull, panel
<1>12. CASE RequestResync
  BY <1>0, <1>12 DEF RequestResync, Inv, NoLostWakeup, CleanIsSeen, UsersTrackStream,
       UnseededIsDirty, ReadyAfterMark, BaselineCurrent, FullListDirty, DrainedIsHeld, Drained,
       AsList, mailbox, panel
<1> QED BY <1>1, <1>2, <1>3, <1>4, <1>5, <1>6, <1>7, <1>8, <1>9, <1>10, <1>11, <1>12
        DEF Next, ServiceStep

\* Inv holds in every reachable state.
THEOREM Invariance == Spec => []Inv
BY InvInit, InvNext, PTL DEF Spec

\* No interleaving of Apply, its late notification and the service's drains leaves
\* a mailbox with something to deliver and nobody about to wake the service.
THEOREM WakeupNeverLost == Spec => []NoLostWakeup
<1>1. Inv => NoLostWakeup
  BY DEF Inv
<1> QED BY <1>1, Invariance, PTL

\* The seed and the drains never let a value disappear unseen.
THEOREM CleanIsAlwaysSeen == Spec => []CleanIsSeen
<1>1. Inv => CleanIsSeen
  BY DEF Inv
<1> QED BY <1>1, Invariance, PTL

\* The list rebuilt from deltas is the panel's list until a delta is refused or an
\* empty list dropped.
THEOREM UsersAlwaysTrackStream == Spec => []UsersTrackStream
<1>1. Inv => UsersTrackStream
  BY DEF Inv
<1> QED BY <1>1, Invariance, PTL

\* When nothing is left to hand over, the service serves the panel's list, whatever
\* pulls are under way, unless it refused a list or took an outdated answer.
THEOREM QuietUsersAlwaysCurrent == Spec => []QuietUsersCurrent
<1>1. Inv => QuietUsersCurrent
  <2> SUFFICES ASSUME Inv, Quiet, hasFullUserState, missed = {}, users # None, ~behind
               PROVE  svcUsers = streamUsers
    BY DEF QuietUsersCurrent
  <2>1. "users" \notin dirty
    BY DEF Inv, NoLostWakeup, Quiet
  <2>2. svcUsers = users
    BY <2>1 DEF Inv, DrainedIsHeld, Quiet
  <2>3. users = streamUsers
    BY DEF Inv, UsersTrackStream, AsList
  <2> QED BY <2>2, <2>3
<1> QED BY <1>1, Invariance, PTL

-----------------------------------------------------------------------------
(* The refinement *)

\* Every step of the mailbox is a step of LatestWins or changes none of its variables.
THEOREM MailboxImplementsLatestWins == Spec => ImplementsLatestWins
<1> DEFINE held == [k \in Kinds |-> Drained(k)]
           Values == Configs \union UserSets \union DeviceMaps
<1>1. Init => Latest!Init
  BY DEF Init, Latest!Init, Drained, Kinds
<1>2. Inv /\ [Next]_vars => [Latest!Next]_(Latest!vars)
  <2> SUFFICES ASSUME Inv, [Next]_vars PROVE [Latest!Next]_(Latest!vars)
    OBVIOUS
  <2>0. TypeOK /\ TypeOK'
    BY InvNext DEF Inv
  <2>1. ASSUME NEW r \in Readers, Read(r) PROVE Latest!Publish \/ UNCHANGED Latest!vars
    <3>1. view' = view /\ ready' = ready
      BY <2>0, <2>1, ReadFrame DEF service
    <3>2. ASSUME NEW kind \in Kinds, \A k \in Kinds : k # kind => Drained(k)' = Drained(k)
          PROVE  Latest!Publish
      <4>1. Drained(kind)' \in Values \union {None}
        BY <2>0 DEF TypeOK, Drained, Kinds
      <4>2. held' = [held EXCEPT ![kind] = Drained(kind)']
        BY <3>2
      <4> QED BY <3>1, <4>1, <4>2 DEF Latest!Publish
    <3>3. CASE ApplyConfig(r)
      BY <3>2, <3>3 DEF ApplyConfig, Drained, Kinds
    <3>4. CASE ApplyDevices(r)
      BY <3>2, <3>4 DEF ApplyDevices, Drained, Kinds
    <3>5. CASE ApplyUsers(r) \/ ApplyAdd(r) \/ ApplyRemove(r) \/ ApplyUnknownDelta(r) \/ DropEmptyUsers(r)
      BY <3>2, <3>5 DEF ApplyUsers, ApplyAdd, ApplyRemove, ApplyUnknownDelta, DropEmptyUsers, mailbox,
           Drained, Kinds
    <3> QED BY <2>1, <3>3, <3>4, <3>5 DEF Read
  <2>2. ASSUME NEW r \in Readers, Notify(r) PROVE UNCHANGED Latest!vars
    BY <2>2 DEF Notify, mailbox, service, Latest!vars, Drained
  <2>3. CASE FetchBaseline
    <3>1. ~ready /\ UNCHANGED held /\ UNCHANGED ready
      BY <2>3 DEF FetchBaseline, Inv, ReadyAfterMark, mailbox, Drained
    <3>2. view' \in [Kinds -> Values \union {None}]
      BY <2>0 DEF TypeOK, Kinds
    <3> QED BY <3>1, <3>2 DEF Latest!Next, Latest!Baseline
  <2>4. CASE SeedBaseline
    <3> DEFINE S == {k \in Kinds : held[k] = None /\ held'[k] # None}
    <3>1. ~ready /\ UNCHANGED ready /\ UNCHANGED view
      BY <2>4 DEF SeedBaseline, Inv, ReadyAfterMark
    <3>2. ASSUME NEW k \in Kinds PROVE held'[k] = IF k \in S THEN view[k] ELSE held[k]
      <4>1. CASE k = "config"
        BY <2>4, <4>1 DEF SeedBaseline, Drained
      <4>2. CASE k = "users"
        BY <2>4, <4>2 DEF SeedBaseline, Drained, Inv, BaselineCurrent, FullListDirty
      <4>3. CASE k = "devices"
        BY <2>4, <4>3 DEF SeedBaseline, Drained
      <4> QED BY <4>1, <4>2, <4>3 DEF Kinds
    <3>3. held' = [k \in Kinds |-> IF k \in S THEN view[k] ELSE held[k]]
      BY <3>2
    <3>4. S \in SUBSET {k \in Kinds : held[k] = None}
      OBVIOUS
    <3> HIDE DEF S
    <3> QED BY <3>1, <3>3, <3>4 DEF Latest!Next, Latest!Seed
  <2>5. CASE MarkReady
    BY <2>5 DEF MarkReady, Latest!Next, Latest!Open, Drained
  <2>6. CASE NotifyReady
    BY <2>6 DEF NotifyReady, mailbox, Latest!vars, Drained
  <2>7. CASE Wake
    BY <2>7 DEF Wake, mailbox, Latest!vars, Drained
  <2>8. CASE DrainIfReady
    <3>1. ready /\ UNCHANGED ready /\ UNCHANGED held
      BY <2>8 DEF DrainIfReady, Inv, ReadyAfterMark, Drained
    <3>2. ASSUME NEW k \in Kinds
          PROVE  view'[k] = IF held[k] = None THEN view[k] ELSE held[k]
      <4>1. view'[k] = Handed(k)
        BY <2>8, <3>1 DEF DrainIfReady, Kinds
      <4>2. k \notin dirty => Drained(k) \in {None, view[k]}
        BY <2>8 DEF DrainIfReady, Inv, CleanIsSeen
      <4> QED BY <4>1, <4>2 DEF Handed
    <3>3. view' = [k \in Kinds |-> IF held[k] = None THEN view[k] ELSE held[k]]
      <4>1. view' \in [Kinds -> Values \union {None}]
        BY <2>0 DEF TypeOK, Kinds
      <4> QED BY <3>2, <4>1
    <3> QED BY <3>1, <3>3 DEF Latest!Next, Latest!Deliver
  <2>9. CASE PullStep
    <3>1. UNCHANGED <<mailbox, view>>
      BY <2>9 DEF PullStep, AskPull, PollAnswered, PutResult, ApplyPullResult, service
    <3> QED BY <3>1 DEF mailbox, Latest!vars, Drained
  <2>10. CASE UNCHANGED vars
    BY <2>10 DEF vars, mailbox, service, Latest!vars, Drained
  <2>11. CASE Handle
    BY <2>11 DEF Handle, mailbox, Latest!vars, Drained
  <2>12. CASE RequestResync
    BY <2>12 DEF RequestResync, mailbox, Latest!vars, Drained
  <2> QED BY <2>1, <2>2, <2>3, <2>4, <2>5, <2>6, <2>7, <2>8, <2>9, <2>10, <2>11, <2>12
          DEF Next, ServiceStep, Latest!Next
<1> QED BY <1>1, <1>2, Invariance, PTL DEF Spec, ImplementsLatestWins, Latest!Spec
=============================================================================
