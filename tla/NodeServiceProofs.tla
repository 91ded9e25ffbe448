-------------------------- MODULE NodeServiceProofs --------------------------
(***************************************************************************)
(* Theorems about NodeService.  First what the handlers of NodeHandlers    *)
(* preserve, for every outcome of every kernel call: each lemma takes a    *)
(* node as it is between handlers and shows that the handler leaves one.   *)
(* What is left then is that nothing but a handler touches the node, and   *)
(* that what reaches the handlers through the three channels is what they  *)
(* take.                                                                   *)
(***************************************************************************)
EXTENDS NodeService, SequenceTheorems, TLAPS

\* The part that the helpers which only touch the user state already restore.
Held(n) == n \in Node /\ HashesCurrent(n) /\ LimitsFollowUsers(n)

\* A kernel whose last start succeeded runs the configuration held.
ConfigInStep(n) == (n.kernel.up /\ ~n.startErr) => n.kernel.config = n.config

\* A node between handlers.  A failed removal of a user that gets another UUID is
\* the one kernel error after which the kernel serves an identity nobody holds.
Sound(n) == /\ Held(n)
            /\ ConfigInStep(n)
            /\ "remove" \notin Faulty => KernelInStep(n)
            /\ RunsWhenPossible(n)

\* What a handler does to the node n: it leaves a sound one, and stops the kernel
\* only when there are no users.
Handles(n, s) == Sound(s) /\ (n.kernel.up => (s.kernel.up \/ s.users = NoUsers))

-----------------------------------------------------------------------------
(***************************************************************************)
(* User lists.                                                             *)
(***************************************************************************)
LEMMA ListTyped ==
    ASSUME NEW u \in UserSets
    PROVE  /\ DOMAIN u \subseteq Ids
           /\ \A i \in DOMAIN u : u[i] \in User /\ u[i].key \in Keys
           /\ u = [i \in DOMAIN u |-> u[i]]
BY DEF UserSets, User

LEMMA ListIntro ==
    ASSUME NEW S \in SUBSET Ids, NEW f, f \in [S -> User]
    PROVE  f \in UserSets
BY DEF UserSets

LEMMA IdentityIntro ==
    ASSUME NEW S \in SUBSET Ids, NEW f, f \in [S -> Keys]
    PROVE  f \in IdentitySets
BY DEF IdentitySets

LEMMA NoUsersTyped == NoUsers \in UserSets /\ NoUsers \in IdentitySets
<1>1. NoUsers \in [{} -> User] /\ NoUsers \in [{} -> Keys]
  BY DEF NoUsers
<1> QED
  BY <1>1, ListIntro, IdentityIntro

LEMMA IdentitiesTyped ==
    ASSUME NEW u \in UserSets
    PROVE  /\ Identities(u) \in IdentitySets
           /\ DOMAIN Identities(u) = DOMAIN u
           /\ \A i \in DOMAIN u : Identities(u)[i] = u[i].key
<1>1. Identities(u) \in [DOMAIN u -> Keys]
  BY ListTyped DEF Identities
<1> QED
  BY <1>1, ListTyped, IdentityIntro DEF Identities

LEMMA ListOverlay ==
    ASSUME NEW u \in UserSets, NEW d \in UserSets
    PROVE  Overlay(u, d) \in UserSets
<1>1. Overlay(u, d) \in [DOMAIN u \union DOMAIN d -> User]
  BY ListTyped DEF Overlay
<1> QED
  BY <1>1, ListTyped, ListIntro

LEMMA ListWithout ==
    ASSUME NEW u \in UserSets, NEW S
    PROVE  Without(u, S) \in UserSets
<1>1. Without(u, S) \in [DOMAIN u \ S -> User]
  BY ListTyped DEF Without
<1> QED
  BY <1>1, ListTyped, ListIntro

LEMMA IdentityTyped ==
    ASSUME NEW f \in IdentitySets
    PROVE  DOMAIN f \subseteq Ids /\ \A i \in DOMAIN f : f[i] \in Keys
BY DEF IdentitySets

LEMMA IdentityOverlay ==
    ASSUME NEW f \in IdentitySets, NEW g \in IdentitySets
    PROVE  Overlay(f, g) \in IdentitySets
<1>1. Overlay(f, g) \in [DOMAIN f \union DOMAIN g -> Keys]
  BY IdentityTyped DEF Overlay
<1> QED
  BY <1>1, IdentityTyped, IdentityIntro

LEMMA IdentityWithout ==
    ASSUME NEW f \in IdentitySets, NEW S
    PROVE  Without(f, S) \in IdentitySets
<1>1. Without(f, S) \in [DOMAIN f \ S -> Keys]
  BY IdentityTyped DEF Without
<1> QED
  BY <1>1, IdentityTyped, IdentityIntro

-----------------------------------------------------------------------------
(***************************************************************************)
(* Helpers on the user state.                                              *)
(***************************************************************************)
LEMMA NewNodeSound == Sound(NewNode) /\ ~NewNode.kernel.up
BY NoUsersTyped, HandlerConstants
   DEF Sound, Held, HashesCurrent, LimitsFollowUsers, ConfigInStep, KernelInStep, RunsWhenPossible,
       NewNode, Node, Kernel, Policy

\* SetUsers restores what is held, whatever was held before, and leaves the rest.
LEMMA SetUsersHeld ==
    ASSUME NEW n \in Node, n.configHash = n.config, n.acl.config \notin BadACL,
           NEW users \in UserSets, NEW hash \in UserSets \union {None},
           hash \in {users, None}, hash = None => users = NoUsers
    PROVE  LET s == SetUsers(n, users, hash)
           IN  Held(s) /\ s.config = n.config /\ s.users = users
                       /\ s.startErr = n.startErr /\ s.kernel = n.kernel
<1> DEFINE m == [n EXCEPT !.limiter = users, !.users = users, !.userHash = hash]
<1>1. m \in Node /\ m.config = n.config /\ m.configHash = n.config /\ m.users = users
        /\ m.limiter = users /\ m.userHash = hash /\ m.acl = n.acl
        /\ m.startErr = n.startErr /\ m.kernel = n.kernel
  BY DEF Node
<1>2. CASE n.config \in BadACL
  <2>1. SetUsers(n, users, hash) = m
    BY <1>1, <1>2 DEF SetUsers, RefreshACL
  <2> QED
    BY <1>1, <1>2, <2>1 DEF Held, HashesCurrent, LimitsFollowUsers
<1>3. CASE n.config \notin BadACL
  <2> DEFINE s == [m EXCEPT !.acl = [config |-> m.config, users |-> m.users]]
  <2>1. SetUsers(n, users, hash) = s
    BY <1>1, <1>3 DEF SetUsers, RefreshACL
  <2>2. m.config \in Configs \union {None} /\ m.users \in UserSets
    BY <1>1 DEF Node
  <2>3. s \in Node /\ s.config = n.config /\ s.configHash = n.config /\ s.users = users
          /\ s.limiter = users /\ s.userHash = hash
          /\ s.acl = [config |-> n.config, users |-> users]
          /\ s.startErr = n.startErr /\ s.kernel = n.kernel
    BY <1>1, <2>2 DEF Node, Policy
  <2> HIDE DEF s
  <2> QED
    BY <1>3, <2>1, <2>3 DEF Held, HashesCurrent, LimitsFollowUsers
<1> QED
  BY <1>2, <1>3

LEMMA PrepareHeld ==
    ASSUME NEW n \in Node, n.configHash = n.config, n.acl.config \notin BadACL,
           NEW users \in UserSets
    PROVE  LET s == PrepareUserState(n, users)
           IN  Held(s) /\ s.config = n.config /\ s.users = users
                       /\ s.startErr = n.startErr /\ s.kernel = n.kernel
BY SetUsersHeld, HandlerConstants DEF PrepareUserState

LEMMA RestoreHeld ==
    ASSUME NEW n, Held(n), NEW prev, Held(prev)
    PROVE  LET s == RestoreUserState(n, prev)
           IN  Held(s) /\ s.config = n.config /\ s.users = prev.users
                       /\ s.startErr = n.startErr /\ s.kernel = n.kernel
BY SetUsersHeld DEF RestoreUserState, Held, HashesCurrent, LimitsFollowUsers, Node

LEMMA RefreshHeld ==
    ASSUME NEW n \in Node, HashesCurrent(n), n.limiter = n.users, n.acl.config \notin BadACL
    PROVE  LET s == RefreshACL(n)
           IN  Held(s) /\ s.config = n.config /\ s.users = n.users
                       /\ s.startErr = n.startErr /\ s.kernel = n.kernel
<1>1. CASE n.config \in BadACL
  BY <1>1 DEF RefreshACL, Held, LimitsFollowUsers
<1>2. CASE n.config \notin BadACL
  <2> DEFINE s == [n EXCEPT !.acl = [config |-> n.config, users |-> n.users]]
  <2>1. RefreshACL(n) = s
    BY <1>2 DEF RefreshACL
  <2>2. s \in Node /\ s.config = n.config /\ s.configHash = n.configHash /\ s.users = n.users
          /\ s.limiter = n.limiter /\ s.userHash = n.userHash
          /\ s.acl = [config |-> n.config, users |-> n.users]
          /\ s.startErr = n.startErr /\ s.kernel = n.kernel
    BY DEF Node, Policy
  <2> HIDE DEF s
  <2> QED
    BY <1>2, <2>1, <2>2 DEF Held, HashesCurrent, LimitsFollowUsers
<1> QED
  BY <1>1, <1>2

-----------------------------------------------------------------------------
(***************************************************************************)
(* Kernel operations.                                                      *)
(***************************************************************************)
\* Fields other than the kernel and the start error do not count for Held.
LEMMA HeldFields ==
    ASSUME NEW n, Held(n), NEW s \in Node,
           s.config = n.config, s.configHash = n.configHash, s.users = n.users,
           s.userHash = n.userHash, s.limiter = n.limiter, s.acl = n.acl
    PROVE  Held(s)
BY DEF Held, HashesCurrent, LimitsFollowUsers

LEMMA ServingSound ==
    ASSUME NEW n, Held(n), n.config # None
    PROVE  /\ Sound(Serving(n)) /\ Serving(n).kernel.up
           /\ Sound([Serving(n) EXCEPT !.startErr = FALSE])
           /\ [Serving(n) EXCEPT !.startErr = FALSE].kernel.up
           /\ ~[Serving(n) EXCEPT !.startErr = FALSE].startErr
<1> DEFINE k == [up |-> TRUE, config |-> n.config, users |-> Identities(n.users)]
           s == [n EXCEPT !.kernel = k]
           t == [s EXCEPT !.startErr = FALSE]
<1>1. n \in Node /\ n.users \in UserSets /\ n.config \in Configs \union {None}
  BY DEF Held, Node
<1>2. k \in Kernel
  BY <1>1, IdentitiesTyped DEF Kernel
<1>3. k.up = TRUE /\ k.config = n.config /\ k.users = Identities(n.users)
  OBVIOUS
<1>4. Serving(n) = s /\ [Serving(n) EXCEPT !.startErr = FALSE] = t
  BY DEF Serving
<1> HIDE DEF k
<1>5. /\ s \in Node /\ s.kernel = k /\ s.config = n.config /\ s.configHash = n.configHash
      /\ s.users = n.users /\ s.userHash = n.userHash /\ s.limiter = n.limiter /\ s.acl = n.acl
  BY <1>1, <1>2 DEF Node
<1> HIDE DEF s
<1>6. /\ t \in Node /\ t.kernel = k /\ t.config = n.config /\ t.configHash = n.configHash
      /\ t.users = n.users /\ t.userHash = n.userHash /\ t.limiter = n.limiter /\ t.acl = n.acl
      /\ t.startErr = FALSE
  BY <1>5 DEF Node
<1> HIDE DEF t
<1>7. Held(s) /\ Held(t)
  BY <1>5, <1>6, HeldFields
<1>8. ConfigInStep(s) /\ KernelInStep(s) /\ RunsWhenPossible(s)
  BY <1>1, <1>3, <1>5, IdentitiesTyped DEF ConfigInStep, KernelInStep, RunsWhenPossible
<1>9. ConfigInStep(t) /\ KernelInStep(t) /\ RunsWhenPossible(t)
  BY <1>1, <1>3, <1>6, IdentitiesTyped DEF ConfigInStep, KernelInStep, RunsWhenPossible
<1> QED
  BY <1>3, <1>4, <1>5, <1>6, <1>7, <1>8, <1>9 DEF Sound

\* A start that fails leaves the box that was there and the error.
LEMMA StartSound ==
    ASSUME NEW n, Held(n), n.config # None, NEW s \in StartKernel(n)
    PROVE  /\ Sound(s)
           /\ n.kernel.up \/ ~s.startErr => s.kernel.up
           /\ s.startErr => s.kernel = n.kernel
           /\ s.config = n.config /\ s.users = n.users
<1>1. CASE s = [Serving(n) EXCEPT !.startErr = FALSE]
  <2>1. s.config = n.config /\ s.users = n.users
    BY <1>1 DEF Serving, Held, Node
  <2> QED
    BY <1>1, <2>1, ServingSound
<1>2. CASE s = [n EXCEPT !.startErr = TRUE]
  <2>1. /\ s \in Node /\ s.kernel = n.kernel /\ s.config = n.config /\ s.configHash = n.configHash
        /\ s.users = n.users /\ s.userHash = n.userHash /\ s.limiter = n.limiter /\ s.acl = n.acl
        /\ s.startErr = TRUE
    BY <1>2 DEF Held, Node
  <2>2. Held(s)
    BY <2>1, HeldFields
  <2> QED
    BY <2>1, <2>2 DEF Sound, ConfigInStep, KernelInStep, RunsWhenPossible
<1> QED
  BY <1>1, <1>2 DEF StartKernel

\* Changing the users of the kernel only.
LEMMA KernelUsersSet ==
    ASSUME NEW n, Held(n), NEW f \in IdentitySets
    PROVE  LET s == [n EXCEPT !.kernel.users = f]
           IN  /\ Held(s) /\ s.config = n.config /\ s.users = n.users /\ s.startErr = n.startErr
               /\ s.kernel.up = n.kernel.up /\ s.kernel.config = n.kernel.config
               /\ s.kernel.users = f
<1> DEFINE s == [n EXCEPT !.kernel.users = f]
<1>1. /\ s \in Node /\ s.config = n.config /\ s.configHash = n.configHash
      /\ s.users = n.users /\ s.userHash = n.userHash /\ s.limiter = n.limiter /\ s.acl = n.acl
      /\ s.startErr = n.startErr
      /\ s.kernel.up = n.kernel.up /\ s.kernel.config = n.kernel.config
      /\ s.kernel.users = f
  BY DEF Held, Node, Kernel
<1> HIDE DEF s
<1>2. Held(s)
  BY <1>1, HeldFields
<1> QED
  BY <1>1, <1>2 DEF s

\* UpdateUsers leaves exactly the identities held, or the kernel as it was.
LEMMA UpdateOutcome ==
    ASSUME NEW n, Held(n), n.kernel.up, n.config # None, ConfigInStep(n),
           NEW o \in UpdateUsers(n)
    PROVE  IF o.ok THEN Sound(o.node) /\ o.node.kernel.up ELSE o.node = n
<1>1. n.users \in UserSets
  BY DEF Held, Node
<1>2. Identities(n.users) \in IdentitySets
  BY <1>1, IdentitiesTyped
<1>3. CASE n.kernel.users = Identities(n.users)
  <2>1. o = Done(n)
    BY <1>3 DEF UpdateUsers
  <2>2. o.ok /\ o.node = n
    BY <2>1 DEF Done
  <2>3. KernelInStep(n) /\ RunsWhenPossible(n)
    BY <1>1, <1>3, IdentitiesTyped DEF KernelInStep, ConfigInStep, RunsWhenPossible
  <2> QED
    BY <2>2, <2>3 DEF Sound
<1>4. CASE n.kernel.users # Identities(n.users)
  <2> DEFINE s == [n EXCEPT !.kernel.users = Identities(n.users)]
  <2>1. o = Done(s) \/ o = [ok |-> FALSE, node |-> n]
    BY <1>4 DEF UpdateUsers, Rebuild, Fails
  <2>2. CASE o = Done(s)
    <3>1. /\ Held(s) /\ s.config = n.config /\ s.users = n.users /\ s.startErr = n.startErr
          /\ s.kernel.up = n.kernel.up /\ s.kernel.config = n.kernel.config
          /\ s.kernel.users = Identities(n.users)
      BY <1>2, KernelUsersSet
    <3>2. o.ok /\ o.node = s
      BY <2>2 DEF Done
    <3> HIDE DEF s
    <3>3. ConfigInStep(s) /\ KernelInStep(s) /\ RunsWhenPossible(s)
      BY <1>1, <3>1, IdentitiesTyped DEF KernelInStep, ConfigInStep, RunsWhenPossible
    <3> QED
      BY <3>1, <3>2, <3>3 DEF Sound
  <2> QED
    BY <2>1, <2>2
<1> QED
  BY <1>3, <1>4

-----------------------------------------------------------------------------
(***************************************************************************)
(* The handlers that replace the list.                                     *)
(***************************************************************************)
LEMMA SoundFields ==
    ASSUME NEW n, Sound(n)
    PROVE  /\ n \in Node /\ Held(n) /\ n.configHash = n.config /\ n.limiter = n.users
           /\ HashesCurrent(n) /\ n.acl.config \notin BadACL /\ ConfigInStep(n)
           /\ n.kernel.up => n.config # None
BY DEF Sound, Held, HashesCurrent, LimitsFollowUsers, RunsWhenPossible

\* After a failed start a restore leaves the kernel that was there: it is sound.
LEMMA RestoredSound ==
    ASSUME NEW n, Held(n), n.startErr, n.config # None, NEW prev, Held(prev),
           n.kernel.up
    PROVE  LET s == RestoreUserState(n, prev)
           IN  Sound(s) /\ s.kernel = n.kernel
BY RestoreHeld DEF Sound, ConfigInStep, KernelInStep, RunsWhenPossible

LEMMA SwapSound ==
    ASSUME NEW n, Sound(n), n.kernel.up, NEW users \in UserSets, NEW s \in SwapUsers(n, users)
    PROVE  Sound(s) /\ s.kernel.up
<1> DEFINE p == PrepareUserState(n, users)
<1>1. Held(p) /\ p.config = n.config /\ p.users = users /\ p.startErr = n.startErr
        /\ p.kernel = n.kernel
  BY SoundFields, PrepareHeld
<1>2. p.kernel.up /\ p.config # None /\ ConfigInStep(p)
  BY <1>1, SoundFields DEF ConfigInStep
<1>3. PICK o \in UpdateUsers(p) : s \in IF o.ok THEN {o.node} ELSE RestartOrRestore(o.node, n)
  BY DEF SwapUsers
<1> HIDE DEF p
<1>4. CASE o.ok
  BY <1>1, <1>2, <1>3, <1>4, UpdateOutcome
<1>5. CASE ~o.ok
  <2>1. s \in RestartOrRestore(p, n)
    BY <1>1, <1>2, <1>3, <1>5, UpdateOutcome
  <2>2. PICK t \in StartKernel(p) : s = IF t.startErr THEN RestoreUserState(t, n) ELSE t
    BY <2>1 DEF RestartOrRestore
  <2>3. Sound(t) /\ t.kernel.up /\ t.config = p.config
    BY <1>1, <1>2, StartSound
  <2>4. CASE t.startErr
    BY <1>2, <2>2, <2>3, <2>4, SoundFields, RestoredSound
  <2> QED
    BY <2>2, <2>3, <2>4
<1> QED
  BY <1>4, <1>5

LEMMA EnsureSound ==
    ASSUME NEW n, Sound(n), NEW r \in EnsureRunning(n)
    PROVE  Sound(r) /\ (n.kernel.up => r.kernel.up)
<1>1. CASE r = n
  BY <1>1
<1>2. CASE ~n.kernel.up /\ n.users # NoUsers /\ n.config # None
  BY <1>2, SoundFields, StartSound DEF EnsureRunning
<1> QED
  BY <1>1, <1>2 DEF EnsureRunning

LEMMA UserUpdateSound ==
    ASSUME NEW n, Sound(n), NEW users \in UserSets, NEW s \in ApplyUserUpdate(n, users)
    PROVE  Handles(n, s)
<1>1. PICK r \in EnsureRunning(n) : s \in IF r.kernel.up THEN SwapUsers(r, users) ELSE {r}
  BY DEF ApplyUserUpdate
<1>2. Sound(r) /\ (n.kernel.up => r.kernel.up)
  BY EnsureSound
<1> QED
  BY <1>1, <1>2, SwapSound DEF Handles

-----------------------------------------------------------------------------
(***************************************************************************)
(* Deltas.                                                                 *)
(***************************************************************************)
\* The step that UpdateOrRestore takes from a prepared state whose kernel is that
\* of the state before.
LEMMA FallbackSound ==
    ASSUME NEW prev, Sound(prev), prev.kernel.up,
           NEW p, Held(p), p.kernel = prev.kernel, p.config = prev.config, p.startErr = prev.startErr,
           NEW u \in UpdateUsers(p)
    PROVE  LET s == IF u.ok THEN u.node ELSE RestoreUserState(u.node, prev)
           IN  Sound(s) /\ s.kernel.up
<1>1. p.kernel.up /\ p.config # None /\ ConfigInStep(p)
  BY SoundFields DEF ConfigInStep
<1>2. CASE u.ok
  BY <1>1, <1>2, UpdateOutcome
<1>3. CASE ~u.ok
  <2> DEFINE s == RestoreUserState(p, prev)
  <2>1. u.node = p
    BY <1>1, <1>3, UpdateOutcome
  <2>2. Held(s) /\ s.config = prev.config /\ s.users = prev.users
          /\ s.startErr = prev.startErr /\ s.kernel = prev.kernel
    BY SoundFields, RestoreHeld
  <2> HIDE DEF s
  <2>3. ConfigInStep(s) /\ RunsWhenPossible(s) /\ ("remove" \notin Faulty => KernelInStep(s))
    BY <2>2 DEF Sound, ConfigInStep, KernelInStep, RunsWhenPossible
  <2>4. Sound(s) /\ s.kernel.up
    BY <2>2, <2>3 DEF Sound
  <2> QED
    BY <1>3, <2>1, <2>4 DEF s
<1> QED
  BY <1>2, <1>3

\* With the users that get another UUID out of the kernel, the users of the delta
\* that it still has are those of the delta.
RekeyedAreOut(k, d) ==
    ("remove" \notin Faulty /\ ~k.startErr) =>
        \A i \in DOMAIN k.kernel.users \intersect DOMAIN d : k.kernel.users[i] = d[i].key

\* What AddUsers leaves when it succeeds is in step with the merged list.
LEMMA AddOutcome ==
    ASSUME NEW k, Sound(k), k.kernel.up, NEW d \in UserSets, RekeyedAreOut(k, d),
           NEW o \in AddUsers(PrepareUserState(k, Overlay(k.users, d)), d)
    PROVE  LET p == PrepareUserState(k, Overlay(k.users, d))
           IN  IF o.ok THEN Sound(o.node) /\ o.node.kernel.up ELSE o.node = p
<1> DEFINE merged == Overlay(k.users, d)
           p == PrepareUserState(k, merged)
           f == Overlay(Identities(d), p.kernel.users)
           s == [p EXCEPT !.kernel.users = f]
<1>1. k.users \in UserSets /\ merged \in UserSets
  BY SoundFields, ListOverlay DEF Node
<1>2. Held(p) /\ p.config = k.config /\ p.users = merged /\ p.startErr = k.startErr
        /\ p.kernel = k.kernel
  BY <1>1, SoundFields, PrepareHeld
<1>3. p.kernel.up /\ p.config # None /\ ConfigInStep(p)
  BY <1>2, SoundFields DEF ConfigInStep
<1>4. DOMAIN merged = DOMAIN k.users \union DOMAIN d
        /\ \A i \in DOMAIN merged : merged[i] = IF i \in DOMAIN d THEN d[i] ELSE k.users[i]
  BY DEF Overlay
<1>5. \/ o = Done(p) /\ DOMAIN d \subseteq DOMAIN p.kernel.users
      \/ o = Done(s)
      \/ o = [ok |-> FALSE, node |-> p]
  BY DEF AddUsers, Rebuild, Fails
<1> HIDE DEF merged
<1>6. CASE o = Done(p)
  <2>1. o.ok /\ o.node = p
    BY <1>6 DEF Done
  <2> HIDE DEF p
  <2>2. "remove" \notin Faulty => KernelInStep(p)
    BY <1>2, <1>3, <1>4 DEF Sound, KernelInStep, RekeyedAreOut
  <2>3. RunsWhenPossible(p)
    BY <1>3 DEF RunsWhenPossible
  <2> QED
    BY <1>2, <1>3, <2>1, <2>2, <2>3 DEF Sound, p, merged
<1>7. CASE o = Done(s)
  <2>1. p.kernel.users \in IdentitySets
    BY <1>2 DEF Held, Node, Kernel
  <2>2. Identities(d) \in IdentitySets /\ f \in IdentitySets
    BY <2>1, IdentitiesTyped, IdentityOverlay
  <2>3. /\ DOMAIN f = DOMAIN d \union DOMAIN k.kernel.users
        /\ \A i \in DOMAIN f : f[i] = IF i \in DOMAIN k.kernel.users THEN k.kernel.users[i] ELSE d[i].key
    BY <1>2, IdentitiesTyped DEF Overlay
  <2>4. o.ok /\ o.node = s
    BY <1>7 DEF Done
  <2> HIDE DEF p, f
  <2>5. /\ Held(s) /\ s.config = p.config /\ s.users = p.users /\ s.startErr = p.startErr
        /\ s.kernel.up = p.kernel.up /\ s.kernel.config = p.kernel.config
        /\ s.kernel.users = f
    BY <1>2, <2>2, KernelUsersSet
  <2> HIDE DEF s
  <2>6. "remove" \notin Faulty => KernelInStep(s)
    BY <1>2, <1>3, <1>4, <2>3, <2>5 DEF Sound, KernelInStep, RekeyedAreOut
  <2>7. RunsWhenPossible(s) /\ ConfigInStep(s)
    BY <1>3, <2>5 DEF RunsWhenPossible, ConfigInStep
  <2> QED
    BY <1>3, <2>4, <2>5, <2>6, <2>7 DEF Sound
<1>8. CASE o = [ok |-> FALSE, node |-> p]
  BY <1>8 DEF merged
<1> QED
  BY <1>5, <1>6, <1>7, <1>8

LEMMA MergeSound ==
    ASSUME NEW k, Sound(k), k.kernel.up, NEW d \in UserSets, RekeyedAreOut(k, d),
           NEW s \in MergeDelta(k, d)
    PROVE  Sound(s) /\ s.kernel.up
<1> DEFINE p == PrepareUserState(k, Overlay(k.users, d))
<1>1. k.users \in UserSets /\ Overlay(k.users, d) \in UserSets
  BY SoundFields, ListOverlay DEF Node
<1>2. Held(p) /\ p.config = k.config /\ p.startErr = k.startErr /\ p.kernel = k.kernel
  BY <1>1, SoundFields, PrepareHeld
<1>3. PICK o \in AddUsers(p, d) : s \in UpdateOrRestore(o, k)
  BY DEF MergeDelta
<1>4. IF o.ok THEN Sound(o.node) /\ o.node.kernel.up ELSE o.node = p
  BY <1>3, AddOutcome
<1> HIDE DEF p
<1>5. CASE o.ok
  BY <1>3, <1>4, <1>5 DEF UpdateOrRestore
<1>6. CASE ~o.ok
  <2>1. PICK u \in UpdateUsers(p) : s = IF u.ok THEN u.node ELSE RestoreUserState(u.node, k)
    BY <1>3, <1>4, <1>6 DEF UpdateOrRestore
  <2> QED
    BY <1>2, <2>1, FallbackSound
<1> QED
  BY <1>5, <1>6

\* Taking users out of the kernel before the list changes leaves it in step.
LEMMA RekeySound ==
    ASSUME NEW n, Sound(n), n.kernel.up, NEW d \in UserSets,
           NEW k \in RemoveRekeyed(n, Rekeyed(n, d))
    PROVE  Sound(k) /\ k.kernel.up /\ RekeyedAreOut(k, d)
<1>1. n.kernel.users \in IdentitySets /\ n.users \in UserSets
  BY SoundFields DEF Node, Kernel
<1>2. PICK F : /\ k = [n EXCEPT !.kernel.users = Without(@, Rekeyed(n, d) \ F)]
               /\ "remove" \notin Faulty => F = {}
  BY DEF RemoveRekeyed
<1> DEFINE f == Without(n.kernel.users, Rekeyed(n, d) \ F)
<1>3. f \in IdentitySets
  BY <1>1, IdentityWithout
<1>4. DOMAIN f = DOMAIN n.kernel.users \ (Rekeyed(n, d) \ F)
        /\ \A i \in DOMAIN f : f[i] = n.kernel.users[i]
  BY DEF Without
<1>5. k = [n EXCEPT !.kernel.users = f]
  BY <1>2, SoundFields DEF Node, Kernel
<1> HIDE DEF f
<1>6. /\ Held(k) /\ k.config = n.config /\ k.users = n.users /\ k.startErr = n.startErr
      /\ k.kernel.up = n.kernel.up /\ k.kernel.config = n.kernel.config
      /\ k.kernel.users = f
  BY <1>3, <1>5, SoundFields, KernelUsersSet, ZenonT(60)
<1>7. ConfigInStep(k) /\ RunsWhenPossible(k)
  BY <1>6 DEF Sound, ConfigInStep, RunsWhenPossible
<1>8. "remove" \notin Faulty => KernelInStep(k)
  BY <1>4, <1>6 DEF Sound, KernelInStep
<1>9. RekeyedAreOut(k, d)
  <2> SUFFICES ASSUME "remove" \notin Faulty, ~k.startErr,
                      NEW i \in DOMAIN k.kernel.users \intersect DOMAIN d
               PROVE  k.kernel.users[i] = d[i].key
    BY DEF RekeyedAreOut
  <2>1. i \in DOMAIN n.kernel.users /\ i \notin Rekeyed(n, d) /\ k.kernel.users[i] = n.kernel.users[i]
    BY <1>2, <1>4, <1>6
  <2>2. i \in DOMAIN n.users /\ n.kernel.users[i] = n.users[i].key
    BY <1>6, <2>1 DEF Sound, KernelInStep
  <2> QED
    BY <2>1, <2>2 DEF Rekeyed
<1> QED
  BY <1>6, <1>7, <1>8, <1>9 DEF Sound

LEMMA DeltaAddSound ==
    ASSUME NEW n, Sound(n), NEW d \in UserSets, NEW s \in ApplyDeltaAdd(n, d)
    PROVE  Handles(n, s)
<1>1. PICK r \in EnsureRunning(n) :
         s \in IF r.kernel.up
                  THEN UNION {MergeDelta(k, d) : k \in RemoveRekeyed(r, Rekeyed(r, d))}
                  ELSE {r}
  BY DEF ApplyDeltaAdd
<1>2. Sound(r) /\ (n.kernel.up => r.kernel.up)
  BY EnsureSound
<1>3. CASE r.kernel.up
  <2>1. PICK k \in RemoveRekeyed(r, Rekeyed(r, d)) : s \in MergeDelta(k, d)
    BY <1>1, <1>3
  <2>2. Sound(k) /\ k.kernel.up /\ RekeyedAreOut(k, d)
    BY <1>2, <1>3, <2>1, RekeySound
  <2> QED
    BY <2>1, <2>2, MergeSound DEF Handles
<1>4. CASE ~r.kernel.up
  BY <1>1, <1>2, <1>4 DEF Handles
<1> QED
  BY <1>3, <1>4

\* What RemoveUsers leaves when it succeeds is in step with the shorter list.
LEMMA RemoveOutcome ==
    ASSUME NEW n, Sound(n), n.kernel.up, NEW S \in SUBSET Ids,
           NEW o \in RemoveUsers(PrepareUserState(n, Without(n.users, S)), S)
    PROVE  LET p == PrepareUserState(n, Without(n.users, S))
           IN  IF o.ok THEN Sound(o.node) /\ o.node.kernel.up ELSE o.node = p
<1> DEFINE filtered == Without(n.users, S)
           p == PrepareUserState(n, filtered)
           f == Without(p.kernel.users, S)
           s == [p EXCEPT !.kernel.users = f]
<1>1. n.users \in UserSets /\ filtered \in UserSets
  BY SoundFields, ListWithout DEF Node
<1>2. Held(p) /\ p.config = n.config /\ p.users = filtered /\ p.startErr = n.startErr
        /\ p.kernel = n.kernel
  BY <1>1, SoundFields, PrepareHeld
<1>3. p.kernel.up /\ p.config # None /\ ConfigInStep(p)
  BY <1>2, SoundFields DEF ConfigInStep
<1>4. DOMAIN filtered = DOMAIN n.users \ S /\ \A i \in DOMAIN filtered : filtered[i] = n.users[i]
  BY DEF Without
<1>5. \/ o = Done(p) /\ S \intersect DOMAIN p.kernel.users = {}
      \/ o = Done(s)
      \/ o = [ok |-> FALSE, node |-> p]
  BY DEF RemoveUsers, Rebuild, Fails
<1> HIDE DEF filtered
<1>6. CASE o = Done(p) /\ S \intersect DOMAIN p.kernel.users = {}
  <2>1. o.ok /\ o.node = p
    BY <1>6 DEF Done
  <2>2. S \intersect DOMAIN p.kernel.users = {}
    BY <1>6
  <2> HIDE DEF p
  <2>3. "remove" \notin Faulty => KernelInStep(p)
    BY <1>2, <1>3, <1>4, <2>2 DEF Sound, KernelInStep
  <2>4. RunsWhenPossible(p)
    BY <1>3 DEF RunsWhenPossible
  <2> QED
    BY <1>2, <1>3, <2>1, <2>3, <2>4 DEF Sound, p, filtered
<1>7. CASE o = Done(s)
  <2>1. f \in IdentitySets
    BY <1>2, IdentityWithout DEF Held, Node, Kernel
  <2>2. DOMAIN f = DOMAIN n.kernel.users \ S /\ \A i \in DOMAIN f : f[i] = n.kernel.users[i]
    BY <1>2 DEF Without
  <2>3. o.ok /\ o.node = s
    BY <1>7 DEF Done
  <2> HIDE DEF p, f
  <2>4. /\ Held(s) /\ s.config = p.config /\ s.users = p.users /\ s.startErr = p.startErr
        /\ s.kernel.up = p.kernel.up /\ s.kernel.config = p.kernel.config
        /\ s.kernel.users = f
    BY <1>2, <2>1, KernelUsersSet
  <2> HIDE DEF s
  <2>5. "remove" \notin Faulty => KernelInStep(s)
    BY <1>2, <1>3, <1>4, <2>2, <2>4 DEF Sound, KernelInStep
  <2>6. RunsWhenPossible(s) /\ ConfigInStep(s)
    BY <1>3, <2>4 DEF RunsWhenPossible, ConfigInStep
  <2> QED
    BY <1>3, <2>3, <2>4, <2>5, <2>6 DEF Sound
<1>8. CASE o = [ok |-> FALSE, node |-> p]
  BY <1>8 DEF filtered
<1> QED
  BY <1>5, <1>6, <1>7, <1>8

LEMMA DeltaRemoveSound ==
    ASSUME NEW n, Sound(n), NEW S \in SUBSET Ids, NEW s \in ApplyDeltaRemove(n, S)
    PROVE  Handles(n, s)
<1>1. CASE ~n.kernel.up
  BY <1>1 DEF ApplyDeltaRemove, Handles
<1>2. CASE n.kernel.up
  <2> DEFINE p == PrepareUserState(n, Without(n.users, S))
  <2>1. n.users \in UserSets /\ Without(n.users, S) \in UserSets
    BY SoundFields, ListWithout DEF Node
  <2>2. Held(p) /\ p.config = n.config /\ p.startErr = n.startErr /\ p.kernel = n.kernel
    BY <2>1, SoundFields, PrepareHeld
  <2>3. PICK o \in RemoveUsers(p, S) : s \in UpdateOrRestore(o, n)
    BY <1>2 DEF ApplyDeltaRemove
  <2>4. IF o.ok THEN Sound(o.node) /\ o.node.kernel.up ELSE o.node = p
    BY <1>2, <2>3, RemoveOutcome
  <2> HIDE DEF p
  <2>5. CASE o.ok
    BY <2>3, <2>4, <2>5 DEF UpdateOrRestore, Handles
  <2>6. CASE ~o.ok
    <3>1. PICK u \in UpdateUsers(p) : s = IF u.ok THEN u.node ELSE RestoreUserState(u.node, n)
      BY <2>3, <2>4, <2>6 DEF UpdateOrRestore
    <3> QED
      BY <1>2, <2>2, <3>1, FallbackSound DEF Handles
  <2> QED
    BY <2>5, <2>6
<1> QED
  BY <1>1, <1>2

-----------------------------------------------------------------------------
(***************************************************************************)
(* The handlers that replace the configuration.                            *)
(***************************************************************************)
\* A node whose configuration or users were just replaced: all is as in Held but
\* the policy, which ApplyChanges compiles.
Changing(n) == /\ n \in Node /\ HashesCurrent(n) /\ n.limiter = n.users
               /\ n.acl.config \notin BadACL
               /\ n.kernel.up => n.config # None

LEMMA ChangesSound ==
    ASSUME NEW n, Changing(n), NEW s \in ApplyChanges(n)
    PROVE  Handles(n, s)
<1> DEFINE a == RefreshACL(n)
<1>1. /\ Held(a) /\ a.config = n.config /\ a.users = n.users
      /\ a.startErr = n.startErr /\ a.kernel = n.kernel
  BY RefreshHeld DEF Changing
<1>2. \/ a.users = NoUsers /\ s = StopKernel(a)
      \/ a.users # NoUsers /\ a.config = None /\ s = a
      \/ a.users # NoUsers /\ a.config # None /\ s \in ReloadOrStart(a)
  <2>1. CASE a.users = NoUsers
    BY <2>1 DEF ApplyChanges
  <2>2. CASE a.users # NoUsers /\ a.config = None
    BY <2>2 DEF ApplyChanges
  <2>3. CASE a.users # NoUsers /\ a.config # None
    BY <2>3 DEF ApplyChanges
  <2> QED
    BY <2>1, <2>2, <2>3
<1> HIDE DEF a
<1>3. CASE a.users = NoUsers /\ s = StopKernel(a)
  <2>1. /\ s \in Node /\ s.config = a.config /\ s.configHash = a.configHash
        /\ s.users = a.users /\ s.userHash = a.userHash /\ s.limiter = a.limiter /\ s.acl = a.acl
        /\ ~s.kernel.up
    BY <1>1, <1>3 DEF StopKernel, Held, Node, Kernel
  <2>2. Held(s)
    BY <1>1, <2>1, HeldFields
  <2> QED
    BY <1>3, <2>1, <2>2 DEF Handles, Sound, ConfigInStep, KernelInStep, RunsWhenPossible
<1>4. CASE a.users # NoUsers /\ a.config = None /\ s = a
  BY <1>1, <1>4 DEF Changing, Handles, Sound, ConfigInStep, KernelInStep, RunsWhenPossible
<1>5. CASE a.users # NoUsers /\ a.config # None /\ s \in ReloadOrStart(a)
  <2>1. CASE ~a.kernel.up
    BY <1>1, <1>5, <2>1, StartSound DEF ReloadOrStart, Handles
  <2>2. CASE a.kernel.up
    <3>1. PICK o \in Reload(a) : s \in IF o.ok THEN {o.node} ELSE StartKernel(o.node)
      BY <1>5, <2>2 DEF ReloadOrStart
    <3>2. o = Done(Serving(a)) \/ o = [ok |-> FALSE, node |-> a]
      BY <3>1 DEF Reload, Fails
    <3>3. CASE o = Done(Serving(a))
      BY <1>1, <1>5, <3>1, <3>3, ServingSound DEF Done, Handles
    <3>4. CASE o = [ok |-> FALSE, node |-> a]
      BY <1>1, <1>5, <2>2, <3>1, <3>4, StartSound DEF Handles
    <3> QED
      BY <3>2, <3>3, <3>4
  <2> QED
    BY <2>1, <2>2
<1> QED
  BY <1>2, <1>3, <1>4, <1>5

LEMMA SetConfigChanging ==
    ASSUME NEW n, Sound(n), NEW c \in Configs
    PROVE  /\ Changing(SetConfig(n, c)) /\ SetConfig(n, c).kernel = n.kernel
           /\ SetConfig(n, c).config = c
           /\ SetConfig(n, c).users = n.users /\ SetConfig(n, c).userHash = n.userHash
<1> DEFINE s == [n EXCEPT !.config = c, !.configHash = c]
<1>0. n \in Node
  BY SoundFields
<1>1. /\ s \in Node /\ s.config = c /\ s.configHash = c /\ s.users = n.users
      /\ s.userHash = n.userHash /\ s.limiter = n.limiter /\ s.acl = n.acl /\ s.kernel = n.kernel
  BY <1>0 DEF Node
<1> HIDE DEF s
<1>2. Changing(s)
  BY <1>1, SoundFields, HandlerConstants DEF Changing, HashesCurrent
<1> QED
  BY <1>1, <1>2 DEF SetConfig, s

LEMMA SyncConfigSound ==
    ASSUME NEW n, Sound(n), NEW c \in Configs, NEW s \in OnSyncConfig(n, c)
    PROVE  Handles(n, s)
<1>1. CASE s = n
  BY <1>1 DEF Handles
<1>2. CASE s \in ApplyChanges(SetConfig(n, c))
  BY <1>2, SetConfigChanging, ChangesSound DEF Handles
<1> QED
  BY <1>1, <1>2 DEF OnSyncConfig

LEMMA SyncUsersSound ==
    ASSUME NEW n, Sound(n), NEW users \in UserSets, NEW s \in OnSyncUsers(n, users)
    PROVE  Handles(n, s)
<1>1. CASE s = n
  BY <1>1 DEF Handles
<1>2. CASE s \in ApplyUserUpdate(n, users)
  BY <1>2, UserUpdateSound
<1> QED
  BY <1>1, <1>2 DEF OnSyncUsers

LEMMA PullResultSound ==
    ASSUME NEW n, Sound(n),
           NEW result, result.config \in Configs \union {None}, result.users \in UserSets \union {None},
           result.cert \in BOOLEAN,
           NEW s \in ApplyPullResult(n, result)
    PROVE  Handles(n, s)
<1> DEFINE taken    == result.config # None /\ result.config \notin Invalid
           changed  == result.cert \/ taken
           c        == IF taken THEN SetConfig(n, result.config) ELSE n
           newUsers == result.users # None /\ result.users # c.userHash
           u        == IF newUsers THEN PrepareUserState(c, result.users) ELSE c
<1>1. Changing(c) /\ c.kernel = n.kernel
  BY SetConfigChanging, SoundFields DEF Changing
<1>2. ~taken => c = n
  OBVIOUS
<1>3. \/ changed /\ s \in ApplyChanges(u)
      \/ ~changed /\ newUsers /\ s \in ApplyUserUpdate(c, result.users)
      \/ s = c /\ ~changed
  <2>1. CASE changed
    BY <2>1 DEF ApplyPullResult
  <2>2. CASE ~changed /\ newUsers
    BY <2>2 DEF ApplyPullResult
  <2>3. CASE ~changed /\ ~newUsers
    BY <2>3 DEF ApplyPullResult
  <2> QED
    BY <2>1, <2>2, <2>3
<1> HIDE DEF c
<1>4. CASE changed /\ s \in ApplyChanges(u)
  <2>1. Changing(u) /\ u.kernel = n.kernel
    <3>1. CASE newUsers
      <4>1. /\ Held(u) /\ u.config = c.config /\ u.users = result.users /\ u.kernel = c.kernel
        BY <1>1, <3>1, PrepareHeld DEF Changing, HashesCurrent
      <4> QED
        BY <1>1, <4>1 DEF Changing, Held, LimitsFollowUsers
    <3>2. CASE ~newUsers
      BY <1>1, <3>2
    <3> QED
      BY <3>1, <3>2
  <2> QED
    BY <1>4, <2>1, ChangesSound DEF Handles
<1>5. CASE ~changed /\ newUsers /\ s \in ApplyUserUpdate(c, result.users)
  BY <1>2, <1>5, UserUpdateSound
<1>6. CASE s = c /\ ~changed
  BY <1>2, <1>6 DEF Handles
<1> QED
  BY <1>3, <1>4, <1>5, <1>6

\* The first snapshot, on a node whose kernel never ran.
LEMMA SetUpSound ==
    ASSUME NEW n, Sound(n), ~n.kernel.up, NEW c \in Configs, NEW users \in UserSets,
           NEW s \in SetUp(n, c, users)
    PROVE  Sound(s)
<1> DEFINE m == SetConfig(n, c)
           p == PrepareUserState(m, users)
<1>1. Changing(m) /\ m.kernel = n.kernel /\ m.config = c
  BY SetConfigChanging
<1>2. Held(p) /\ p.config = c /\ p.users = users /\ p.kernel = n.kernel
  BY <1>1, PrepareHeld DEF Changing, HashesCurrent
<1>3. c # None
  BY HandlerConstants
<1>4. CASE users = NoUsers
  BY <1>2, <1>3, <1>4 DEF SetUp, Sound, ConfigInStep, KernelInStep, RunsWhenPossible
<1>5. CASE users # NoUsers
  <2>1. s \in StartKernel(p)
    BY <1>5 DEF SetUp
  <2> HIDE DEF p
  <2> QED
    BY <1>2, <1>3, <2>1, StartSound
<1> QED
  BY <1>4, <1>5

-----------------------------------------------------------------------------
(***************************************************************************)
(* What becomes of a configuration and of users that are handed over, when *)
(* a start does not fail.                                                  *)
(***************************************************************************)
LEMMA StartKept ==
    ASSUME NEW n \in Node, NEW s \in StartKernel(n)
    PROVE  /\ s.config = n.config /\ s.users = n.users
           /\ "start" \notin Faulty => s.startErr = FALSE /\ s.kernel.up
<1>1. CASE s = [Serving(n) EXCEPT !.startErr = FALSE]
  <2> DEFINE k == [up |-> TRUE, config |-> n.config, users |-> Identities(n.users)]
  <2>1. s = [[n EXCEPT !.kernel = k] EXCEPT !.startErr = FALSE] /\ k.up = TRUE
    BY <1>1 DEF Serving
  <2> HIDE DEF k
  <2> QED
    BY <2>1 DEF Node
<1>2. CASE "start" \in Faulty /\ s = [n EXCEPT !.startErr = TRUE]
  BY <1>2 DEF Node
<1> QED
  BY <1>1, <1>2 DEF StartKernel

LEMMA ChangesKept ==
    ASSUME NEW n, Changing(n), NEW s \in ApplyChanges(n)
    PROVE  s.config = n.config /\ s.users = n.users
<1> DEFINE a == RefreshACL(n)
<1>1. a \in Node /\ a.config = n.config /\ a.users = n.users
  BY RefreshHeld DEF Changing, Held
<1> HIDE DEF a
<1>2. CASE s = StopKernel(a) \/ s = a
  BY <1>1, <1>2 DEF StopKernel, Node
<1>3. CASE s \in StartKernel(a)
  BY <1>1, <1>3, StartKept
<1>4. CASE s = Serving(a)
  BY <1>1, <1>4 DEF Serving, Node
<1>5. s \in ReloadOrStart(a) => s \in StartKernel(a) \/ s = Serving(a)
  BY DEF ReloadOrStart, Reload, Fails, Done
<1>6. s = StopKernel(a) \/ s = a \/ s \in ReloadOrStart(a)
  BY DEF ApplyChanges, a
<1> QED
  BY <1>2, <1>3, <1>4, <1>5, <1>6

LEMMA UpdateKept ==
    ASSUME NEW n \in Node, NEW o \in UpdateUsers(n)
    PROVE  o.node.config = n.config /\ o.node.users = n.users /\ (~o.ok => o.node \in Node)
<1>1. o = Done(n) \/ o = Done([n EXCEPT !.kernel.users = Identities(n.users)])
        \/ o = [ok |-> FALSE, node |-> n]
  BY DEF UpdateUsers, Rebuild, Fails
<1> QED
  BY <1>1 DEF Done, Node

\* A list that replaces the one held is held afterwards, even when the kernel has
\* to be started again for it.
LEMMA UserUpdateTaken ==
    ASSUME NEW n, Sound(n), n.config # None, n.users # NoUsers, "start" \notin Faulty,
           NEW users \in UserSets, NEW s \in ApplyUserUpdate(n, users)
    PROVE  s.config = n.config /\ s.users = users
<1>1. PICK r \in EnsureRunning(n) : s \in IF r.kernel.up THEN SwapUsers(r, users) ELSE {r}
  BY DEF ApplyUserUpdate
<1>2. Sound(r) /\ r.kernel.up /\ r.config = n.config
  <2>1. Sound(r)
    BY EnsureSound
  <2>2. CASE n.kernel.up
    BY <2>1, <2>2, <1>1 DEF EnsureRunning
  <2>3. CASE ~n.kernel.up
    BY <2>1, <2>3, <1>1, SoundFields, StartKept DEF EnsureRunning
  <2> QED
    BY <2>1, <2>2, <2>3
<1> DEFINE p == PrepareUserState(r, users)
<1>3. p \in Node /\ p.config = n.config /\ p.users = users
  BY <1>2, SoundFields, PrepareHeld DEF Held
<1>4. PICK o \in UpdateUsers(p) : s \in IF o.ok THEN {o.node} ELSE RestartOrRestore(o.node, r)
  BY <1>1, <1>2 DEF SwapUsers
<1> HIDE DEF p
<1>5. o.node.config = n.config /\ o.node.users = users /\ (~o.ok => o.node \in Node)
  BY <1>3, <1>4, UpdateKept
<1>6. CASE o.ok
  BY <1>4, <1>5, <1>6
<1>7. CASE ~o.ok
  <2>1. PICK t \in StartKernel(o.node) : s = IF t.startErr THEN RestoreUserState(t, r) ELSE t
    BY <1>4, <1>7 DEF RestartOrRestore
  <2> QED
    BY <1>5, <1>7, <2>1, StartKept
<1> QED
  BY <1>6, <1>7

\* A result is taken whole, but for a configuration that is refused.
LEMMA PullResultTaken ==
    ASSUME NEW n, Sound(n), n.config # None, n.users # NoUsers, "start" \notin Faulty,
           NEW result, result.config \in Configs \union {None}, result.users \in UserSets \union {None},
           result.cert \in BOOLEAN,
           NEW s \in ApplyPullResult(n, result)
    PROVE  /\ s.config = IF result.config # None /\ result.config \notin Invalid
                            THEN result.config ELSE n.config
           /\ s.users = IF result.users # None THEN result.users ELSE n.users
<1> DEFINE taken    == result.config # None /\ result.config \notin Invalid
           changed  == result.cert \/ taken
           c        == IF taken THEN SetConfig(n, result.config) ELSE n
           newUsers == result.users # None /\ result.users # c.userHash
           u        == IF newUsers THEN PrepareUserState(c, result.users) ELSE c
<1>1. /\ Changing(c) /\ c.users = n.users /\ c.userHash = n.userHash
      /\ c.config = IF taken THEN result.config ELSE n.config
  BY SetConfigChanging, SoundFields DEF Changing
<1>2. ~taken => c = n
  OBVIOUS
<1>3. ~newUsers => n.users = IF result.users # None THEN result.users ELSE n.users
  BY <1>1, SoundFields DEF HashesCurrent
<1>4. \/ changed /\ s \in ApplyChanges(u)
      \/ ~changed /\ newUsers /\ s \in ApplyUserUpdate(c, result.users)
      \/ s = c /\ ~changed /\ ~newUsers
  <2>1. CASE changed
    BY <2>1 DEF ApplyPullResult
  <2>2. CASE ~changed /\ newUsers
    BY <2>2 DEF ApplyPullResult
  <2>3. CASE ~changed /\ ~newUsers
    BY <2>3 DEF ApplyPullResult
  <2> QED
    BY <2>1, <2>2, <2>3
<1> HIDE DEF c
<1>5. CASE changed /\ s \in ApplyChanges(u)
  <2>1. CASE newUsers
    <3>1. Held(u) /\ u.config = c.config /\ u.users = result.users /\ u.kernel = c.kernel
      BY <1>1, <2>1, PrepareHeld DEF Changing, HashesCurrent
    <3>2. Changing(u)
      BY <1>1, <3>1 DEF Changing, Held, LimitsFollowUsers
    <3> HIDE DEF u
    <3> QED
      BY <1>1, <1>5, <2>1, <3>1, <3>2, ChangesKept
  <2>2. CASE ~newUsers
    BY <1>1, <1>3, <1>5, <2>2, ChangesKept
  <2> QED
    BY <2>1, <2>2
<1>6. CASE ~changed /\ newUsers /\ s \in ApplyUserUpdate(c, result.users)
  BY <1>1, <1>2, <1>6, UserUpdateTaken
<1>7. CASE s = c /\ ~changed /\ ~newUsers
  BY <1>1, <1>3, <1>7
<1> QED
  BY <1>4, <1>5, <1>6, <1>7

LEMMA SetUpTaken ==
    ASSUME NEW n, Sound(n), NEW c \in Configs, NEW users \in UserSets, users # NoUsers,
           NEW s \in SetUp(n, c, users)
    PROVE  s.config = c /\ s.users = users
<1> DEFINE p == PrepareUserState(SetConfig(n, c), users)
<1>1. p \in Node /\ p.config = c /\ p.users = users
  BY SetConfigChanging, PrepareHeld DEF Changing, HashesCurrent, Held
<1>2. s \in StartKernel(p)
  BY DEF SetUp
<1> HIDE DEF p
<1> QED
  BY <1>1, <1>2, StartKept

-----------------------------------------------------------------------------
(***************************************************************************)
(* The loop, the pulls and the channels.                                   *)
(***************************************************************************)

\* During setup the node is new; a poll under way started with no skip left.
IInv ==
    /\ TypeOK
    /\ Sound(node)
    /\ phase \in {"setup", "setupUsers"} => node = NewNode
    /\ phase = "setupUsers" => configETag \in Configs
    /\ AtMostOneSkip
    /\ pull.at \in {"config", "users"} => skip = 0

LEMMA ListsAreTyped == UserLists \subseteq UserSets
BY ServiceConstants

LEMMA EmptyTyped == <<>> \in Seq(Event) /\ <<>> \in Seq(Status)
OBVIOUS

LEMMA OfferTyped ==
    ASSUME NEW S, NEW ch \in Seq(S), NEW cap \in Nat, Len(ch) <= cap, NEW e \in S
    PROVE  Offer(ch, cap, e) \in Seq(S) /\ Len(Offer(ch, cap, e)) <= cap
BY DEF Offer

LEMMA TailTyped ==
    ASSUME NEW S, NEW ch \in Seq(S), ch # <<>>, NEW cap \in Nat, Len(ch) <= cap
    PROVE  Head(ch) \in S /\ Tail(ch) \in Seq(S) /\ Len(Tail(ch)) <= cap
BY HeadTailProperties

LEMMA EventTyped ==
    ASSUME NEW old \in UserSets, NEW new \in UserSets, NEW e \in UserEvents(old, new)
    PROVE  e \in Event
<1>1. CASE e = [type |-> "users", users |-> new]
  BY <1>1 DEF Event
<1>2. CASE e = [type |-> "add", users |-> [i \in Changed(old, new) |-> new[i]]]
  <2>1. Changed(old, new) \subseteq DOMAIN new
    BY DEF Changed
  <2>2. [i \in Changed(old, new) |-> new[i]] \in [Changed(old, new) -> User]
    BY <2>1, ListTyped
  <2>3. [i \in Changed(old, new) |-> new[i]] \in UserSets
    BY <2>1, <2>2, ListTyped, ListIntro
  <2> QED
    BY <1>2, <2>3 DEF Event
<1>3. CASE e = [type |-> "remove", ids |-> DOMAIN old \ DOMAIN new]
  BY <1>3, ListTyped DEF Event
<1> QED
  BY <1>1, <1>2, <1>3 DEF UserEvents

\* What a received event does to the channels.
LEMMA ReceiveTyped ==
    ASSUME TypeOK, NEW e \in Event, Receive(e)
    PROVE  /\ wsEvents' \in Seq(Event) /\ Len(wsEvents') <= EventCap
           /\ wsStatuses' \in Seq(Status) /\ Len(wsStatuses') <= StatusCap
<1>1. EventCap \in Nat /\ StatusCap \in Nat
  BY ServiceConstants
<1>2. [connected |-> TRUE, resync |-> TRUE] \in Status
  BY DEF Status
<1>3. CASE linkUp
  BY <1>1, <1>2, <1>3, OfferTyped DEF Receive, TypeOK
<1>4. CASE ~linkUp
  BY <1>4 DEF Receive, TypeOK, queues
<1> QED
  BY <1>3, <1>4

\* What pullViaAPIAsync does, called n times.
LEMMA TryPullTyped ==
    ASSUME IInv, NEW n \in Nat, TryPull(n)
    PROVE  /\ pull' \in [at     : {"idle", "config", "users", "deliver", "finish"},
                         known  : Configs \union {None},
                         cert   : BOOLEAN,
                         config : Configs \union {None},
                         users  : UserLists \union {None}]
           /\ skip' \in Nat /\ skip' <= 1
           /\ certRenewed' \in BOOLEAN
           /\ pull'.at \in {"config", "users"} => skip' = 0
<1>1. CASE pull.at # "idle"
  BY <1>1 DEF TryPull, IInv, TypeOK, AtMostOneSkip, client
<1>2. CASE pull.at = "idle" /\ skip >= n
  BY <1>2 DEF TryPull, IInv, TypeOK, AtMostOneSkip
<1>3. CASE pull.at = "idle" /\ ~(skip >= n)
  <2>1. node.configHash \in Configs \union {None} /\ certRenewed \in BOOLEAN
    BY DEF IInv, TypeOK, Node
  <2>2. /\ skip' = 0 /\ certRenewed' = FALSE
        /\ pull' = [at |-> "config", known |-> node.configHash, cert |-> certRenewed,
                    config |-> None, users |-> None]
    BY <1>3 DEF TryPull, IdlePull
  <2>3. pull' \in [at     : {"idle", "config", "users", "deliver", "finish"},
                   known  : Configs \union {None},
                   cert   : BOOLEAN,
                   config : Configs \union {None},
                   users  : UserLists \union {None}]
    BY <2>1, <2>2
  <2>4. skip' = 0 /\ skip' \in Nat /\ skip' <= 1
    BY <2>2
  <2>5. certRenewed' \in BOOLEAN
    BY <2>2
  <2> QED
    BY <2>3, <2>4, <2>5
<1> QED
  BY <1>1, <1>2, <1>3

-----------------------------------------------------------------------------
(***************************************************************************)
(* The initial states, and the steps that leave the node alone.            *)
(***************************************************************************)
LEMMA InitInv == Init => IInv
<1> SUFFICES ASSUME Init PROVE IInv
  OBVIOUS
<1>1. Sound(node) /\ node \in Node
  BY NewNodeSound DEF Init, Sound, Held
<1>2. pull \in [at     : {"idle", "config", "users", "deliver", "finish"},
                known  : Configs \union {None},
                cert   : BOOLEAN,
                config : Configs \union {None},
                users  : UserLists \union {None}]
  BY DEF Init, IdlePull
<1>3. /\ wsEvents \in Seq(Event) /\ Len(wsEvents) <= EventCap
      /\ wsStatuses \in Seq(Status) /\ Len(wsStatuses) <= StatusCap
  <2>1. EventCap \in Nat /\ StatusCap \in Nat
    BY ServiceConstants
  <2> QED
    BY <2>1, EmptyTyped DEF Init
<1>4. {resyncPending, push, downSince, linkUp, certRenewed} \subseteq BOOLEAN
  BY DEF Init
<1>5. TypeOK
  BY <1>1, <1>2, <1>3, <1>4 DEF Init, TypeOK
<1> QED
  BY <1>1, <1>5 DEF IInv, Init, AtMostOneSkip, IdlePull

\* What a step has to show when it leaves the node alone.
NodeKept == node' = node /\ (phase' = phase \/ phase' \in {"run", "failed"})

LEMMA KeptInv ==
    ASSUME IInv, NodeKept, TypeOK', (skip <= 1)',
           (pull.at \in {"config", "users"} => skip = 0)',
           configETag \in Configs => configETag' \in Configs
    PROVE  IInv'
BY DEF IInv, NodeKept, AtMostOneSkip

LEMMA PanelInv ==
    ASSUME IInv, PanelSetsConfig \/ PanelSetsUsers \/ RenewCert
    PROVE  IInv' /\ node' = node
<1>1. CASE PanelSetsConfig
  <2>1. PICK c \in Configs : /\ panelConfig' = c
                             /\ IF c \in Malformed THEN UNCHANGED queues
                                                   ELSE Receive([type |-> "config", config |-> c])
    BY <1>1 DEF PanelSetsConfig
  <2>2. /\ wsEvents' \in Seq(Event) /\ Len(wsEvents') <= EventCap
        /\ wsStatuses' \in Seq(Status) /\ Len(wsStatuses') <= StatusCap
    <3>1. CASE c \in Malformed
      BY <2>1, <3>1 DEF IInv, TypeOK, queues
    <3>2. CASE c \notin Malformed
      <4>1. [type |-> "config", config |-> c] \in Event
        BY DEF Event
      <4> QED
        BY <2>1, <3>2, <4>1, ReceiveTyped DEF IInv
    <3> QED
      BY <3>1, <3>2
  <2>3. TypeOK'
    BY <1>1, <2>1, <2>2 DEF IInv, TypeOK, PanelSetsConfig, PanelActs, link, etags
  <2> QED
    BY <1>1, <2>3, KeptInv DEF IInv, PanelSetsConfig, PanelActs, NodeKept, AtMostOneSkip, etags
<1>2. CASE PanelSetsUsers
  <2>1. PICK new \in UserLists : /\ panelUsers' = new
                                  /\ \E e \in UserEvents(panelUsers, new) : Receive(e)
    BY <1>2 DEF PanelSetsUsers
  <2>5. PICK e \in UserEvents(panelUsers, new) : Receive(e)
    BY <2>1
  <2>2. e \in Event
    BY ListsAreTyped, EventTyped DEF IInv, TypeOK
  <2>3. /\ wsEvents' \in Seq(Event) /\ Len(wsEvents') <= EventCap
        /\ wsStatuses' \in Seq(Status) /\ Len(wsStatuses') <= StatusCap
    BY <2>5, <2>2, ReceiveTyped DEF IInv
  <2>4. TypeOK'
    BY <1>2, <2>1, <2>3 DEF IInv, TypeOK, PanelSetsUsers, PanelActs, link, etags
  <2> QED
    BY <1>2, <2>4, KeptInv DEF IInv, PanelSetsUsers, PanelActs, NodeKept, AtMostOneSkip, etags
<1>3. CASE RenewCert
  <2>1. TypeOK'
    BY <1>3 DEF IInv, TypeOK, RenewCert, link, queues, etags, panel
  <2> QED
    BY <1>3, <2>1, KeptInv DEF IInv, RenewCert, NodeKept, AtMostOneSkip, etags
<1> QED
  BY <1>1, <1>2, <1>3

LEMMA LinkInv ==
    ASSUME IInv, Connect \/ DialFails \/ Disconnect
    PROVE  IInv' /\ node' = node
<1>0. links' \in Nat
  <2>1. links \in Nat
    BY DEF IInv, TypeOK
  <2>2. links' = links + 1 \/ links' = links
    BY DEF Connect, DialFails, Disconnect, LinkAttempt
  <2> QED
    BY <2>1, <2>2
<1>1. PICK up \in BOOLEAN : LinkChanges(up)
  BY DEF Connect, DialFails, Disconnect
<1>2. [connected |-> up, resync |-> FALSE] \in Status
  BY DEF Status
<1>3. StatusCap \in Nat
  BY ServiceConstants
<1>4. wsStatuses' \in Seq(Status) /\ Len(wsStatuses') <= StatusCap
  BY <1>1, <1>2, <1>3, OfferTyped DEF LinkChanges, IInv, TypeOK
<1>5. linkUp' \in BOOLEAN
  BY <1>1 DEF LinkChanges
<1>6. TypeOK'
  BY <1>0, <1>1, <1>4, <1>5 DEF IInv, TypeOK, LinkChanges, client, etags
<1> QED
  BY <1>1, <1>6, KeptInv DEF IInv, LinkChanges, NodeKept, AtMostOneSkip, client, etags

LEMMA WorkerInv ==
    ASSUME IInv, Worker
    PROVE  IInv' /\ node' = node
<1> DEFINE Pull == [at     : {"idle", "config", "users", "deliver", "finish"},
                    known  : Configs \union {None},
                    cert   : BOOLEAN,
                    config : Configs \union {None},
                    users  : UserLists \union {None}]
<1>1. IdlePull \in Pull /\ [IdlePull EXCEPT !.at = "finish"] \in Pull
  BY DEF IdlePull
<1>2. IdlePull.at = "idle" /\ [IdlePull EXCEPT !.at = "finish"].at = "finish"
  BY DEF IdlePull
<1>3. CASE PollConfig
  <2>1. pull' \in Pull /\ pull'.at = "users" /\ configETag' \in Configs /\ skip = 0 /\ skip' = skip
    BY <1>3 DEF IInv, TypeOK, PollConfig, PullStep
  <2>2. TypeOK'
    BY <1>3, <2>1 DEF IInv, TypeOK, PollConfig, PullStep, link, queues
  <2> QED
    BY <1>3, <2>1, <2>2, KeptInv DEF IInv, PollConfig, PullStep, NodeKept
<1>4. CASE PollUsers
  <2>1. pull' \in Pull /\ pull'.at \notin {"config", "users"} /\ skip' \in Nat /\ skip' <= 1
    <3>1. CASE pull.config \in Malformed
      BY <1>1, <1>2, <1>4, <3>1 DEF IInv, PollUsers, PullStep, PullFails, OnFailure
    <3>2. CASE pull.config \notin Malformed
      <4>1. skip' = 0
        BY <1>4, <3>2 DEF PollUsers
      <4>2. PICK c \in Configs \union {None}, u \in UserLists \union {None} :
               pull' = [pull EXCEPT !.at = "deliver", !.config = c, !.users = u]
        BY <1>4, <3>2 DEF IInv, TypeOK, PollUsers
      <4>3. pull' \in Pull /\ pull'.at = "deliver"
        BY <4>2 DEF IInv, TypeOK
      <4> QED
        BY <4>1, <4>3
    <3> QED
      BY <3>1, <3>2
  <2>2. TypeOK'
    BY <1>4, <2>1 DEF IInv, TypeOK, PollUsers, PullStep, link, queues
  <2> QED
    BY <1>4, <2>1, <2>2, KeptInv DEF IInv, PollUsers, PullStep, NodeKept
<1>5. CASE PollFails
  <2>1. pull' \in Pull /\ pull'.at \notin {"config", "users"} /\ skip' \in Nat /\ skip' <= 1
    BY <1>1, <1>2, <1>5 DEF IInv, PollFails, PullStep, PullFails, OnFailure
  <2>2. TypeOK'
    BY <1>5, <2>1 DEF IInv, TypeOK, PollFails, PullStep, link, queues, etags
  <2> QED
    BY <1>5, <2>1, <2>2, KeptInv DEF IInv, PollFails, PullStep, NodeKept, etags
<1>6. CASE DeliverResult
  <2>1. pull' \in Pull /\ pull'.at \notin {"config", "users"}
    BY <1>1, <1>2, <1>6 DEF DeliverResult
  <2>2. pullResults' \in [config : Configs \union {None}, users : UserLists \union {None}, cert : BOOLEAN]
    BY <1>6 DEF IInv, TypeOK, DeliverResult
  <2>3. TypeOK'
    BY <1>6, <2>1, <2>2 DEF IInv, TypeOK, DeliverResult, PullStep, link, queues, etags
  <2> QED
    BY <1>6, <2>1, <2>3, KeptInv DEF IInv, DeliverResult, PullStep, NodeKept, AtMostOneSkip, etags
<1>7. CASE FinishPull
  <2>1. pull' \in Pull /\ pull'.at \notin {"config", "users"}
    BY <1>1, <1>2, <1>7 DEF FinishPull
  <2>2. TypeOK'
    BY <1>7, <2>1 DEF IInv, TypeOK, FinishPull, PullStep, link, queues, etags
  <2> QED
    BY <1>7, <2>1, <2>2, KeptInv DEF IInv, FinishPull, PullStep, NodeKept, AtMostOneSkip, etags
<1> QED
  BY <1>3, <1>4, <1>5, <1>6, <1>7 DEF Worker

-----------------------------------------------------------------------------
(***************************************************************************)
(* Setup, and the cases of the select loop.                                *)
(***************************************************************************)
LEMMA SetupInv ==
    ASSUME IInv, Setup
    PROVE  IInv' /\ Handles(node, node')
<1>0. Sound(node)
  BY DEF IInv
<1>1. CASE SetupPush \/ SetupConfig \/ SetupFails
  <2>1. node' = node /\ phase' \in {"setupUsers", "run", "failed"}
    BY <1>1 DEF SetupPush, SetupConfig, SetupFails
  <2>2. push' \in BOOLEAN
    BY <1>1 DEF SetupPush, SetupConfig, SetupFails, IInv, TypeOK
  <2>3. configETag' \in Configs \union {None} /\ (configETag \in Configs => configETag' \in Configs)
    BY <1>1 DEF SetupPush, SetupConfig, SetupFails, IInv, TypeOK, etags
  <2>4. phase' = "setupUsers" => configETag' \in Configs /\ node' = NewNode
    BY <1>1 DEF SetupPush, SetupConfig, SetupFails, IInv, TypeOK
  <2>5. UNCHANGED <<client, pullResults, resyncPending, downSince, linkUp, queues, userETag,
                    panelConfig, panelUsers, counters>>
    BY <1>1 DEF SetupPush, SetupConfig, SetupFails, etags
  <2>6. TypeOK'
    BY <2>1, <2>2, <2>3, <2>5 DEF IInv, TypeOK, client, queues, counters
  <2> QED
    BY <1>0, <2>1, <2>4, <2>5, <2>6 DEF IInv, AtMostOneSkip, client, Handles
<1>2. CASE SetupUsers
  <2>1. /\ node = NewNode /\ ~node.kernel.up /\ configETag \in Configs /\ panelUsers \in UserSets
        /\ userETag' = panelUsers /\ panelUsers \in UserLists
    BY <1>2, NewNodeSound, ListsAreTyped DEF SetupUsers, IInv, TypeOK
  <2>2. /\ phase' \in {"run", "failed"}
        /\ node' = node \/ node' \in SetUp(node, configETag, panelUsers)
    BY <1>2 DEF SetupUsers
  <2>3. Sound(node')
    BY <1>0, <2>1, <2>2, SetUpSound
  <2>4. UNCHANGED <<client, pullResults, resyncPending, push, downSince, linkUp, queues, configETag,
                    panelConfig, panelUsers, counters>>
    BY <1>2 DEF SetupUsers
  <2>5. TypeOK'
    BY <2>1, <2>2, <2>3, <2>4, SoundFields DEF IInv, TypeOK, client, queues, counters
  <2> QED
    BY <2>1, <2>2, <2>3, <2>4, <2>5 DEF IInv, AtMostOneSkip, client, Handles
<1> QED
  BY <1>1, <1>2 DEF Setup

\* Cases of the select loop that handle nothing: the pull that they ask for, n
\* calls of pullViaAPIAsync, is what they have in common.
LEMMA AskInv ==
    ASSUME IInv, SelectLoop, NEW n \in Nat, TryPull(n),
           UNCHANGED <<node, pullResults, wsEvents>>,
           {resyncPending', push', downSince', linkUp'} \subseteq BOOLEAN,
           wsStatuses' \in Seq(Status), Len(wsStatuses') <= StatusCap
    PROVE  IInv' /\ node' = node
<1>1. {resyncPending', push', downSince', linkUp', certRenewed'} \subseteq BOOLEAN
  BY TryPullTyped
<1>2. TypeOK'
  BY <1>1, TryPullTyped DEF IInv, TypeOK, SelectLoop, etags, counters
<1> QED
  BY <1>2, TryPullTyped, KeptInv DEF NodeKept, SelectLoop, etags

\* Cases of the select loop that run a handler.
LEMMA HandlerInv ==
    ASSUME IInv, SelectLoop, Handles(node, node'), UNCHANGED client,
           {resyncPending', push', downSince', linkUp'} \subseteq BOOLEAN,
           UNCHANGED wsStatuses, wsEvents' \in Seq(Event), Len(wsEvents') <= EventCap,
           pullResults' \in {pullResults, None}
    PROVE  IInv'
<1>1. Sound(node') /\ node' \in Node
  BY SoundFields DEF Handles
<1>2. {resyncPending', push', downSince', linkUp', certRenewed'} \subseteq BOOLEAN
  BY DEF IInv, TypeOK, client
<1>3. TypeOK'
  BY <1>1, <1>2 DEF IInv, TypeOK, SelectLoop, client, etags, counters
<1> QED
  BY <1>1, <1>3 DEF IInv, SelectLoop, AtMostOneSkip, client

LEMMA ServiceInv ==
    ASSUME IInv, Service
    PROVE  IInv' /\ Handles(node, node')
<1>0. Sound(node) /\ Handles(node, node)
  BY DEF IInv, Handles
<1>1. EventCap \in Nat /\ StatusCap \in Nat
  BY ServiceConstants
<1>2. CASE PullTick
  BY <1>0, <1>2, AskInv DEF PullTick, IInv, TypeOK, queues
<1>3. CASE ApplyResult
  <2>1. /\ pullResults.config \in Configs \union {None} /\ pullResults.users \in UserSets \union {None}
        /\ pullResults.cert \in BOOLEAN
    BY <1>3, ListsAreTyped DEF ApplyResult, IInv, TypeOK
  <2>2. Handles(node, node')
    BY <1>0, <1>3, <2>1, PullResultSound DEF ApplyResult
  <2> QED
    BY <1>3, <2>2, HandlerInv DEF ApplyResult, IInv, TypeOK, queues
<1>4. CASE HandleStatus
  <2> DEFINE s == Head(wsStatuses)
  <2>1. s \in Status /\ wsStatuses' \in Seq(Status) /\ Len(wsStatuses') <= StatusCap
    BY <1>1, <1>4, TailTyped DEF HandleStatus, IInv, TypeOK
  <2>2. {resyncPending', push', downSince', linkUp'} \subseteq BOOLEAN
    BY <1>4, <2>1 DEF HandleStatus, Status, IInv, TypeOK
  <2>3. PICK n \in {1, 2} : TryPull(n)
    BY <1>4 DEF HandleStatus
  <2> QED
    BY <1>0, <1>4, <2>1, <2>2, <2>3, AskInv DEF HandleStatus
<1>5. CASE HandleEvent
  <2> DEFINE e == Head(wsEvents)
  <2>1. e \in Event /\ wsEvents' \in Seq(Event) /\ Len(wsEvents') <= EventCap
    BY <1>1, <1>5, TailTyped DEF HandleEvent, IInv, TypeOK
  <2>2. Handles(node, node')
    <3>1. CASE e.type = "config" /\ e.config \in Configs
      BY <1>0, <1>5, <3>1, SyncConfigSound DEF HandleEvent
    <3>2. CASE e.type = "users" /\ e.users \in UserSets
      BY <1>0, <1>5, <3>2, SyncUsersSound DEF HandleEvent
    <3>3. CASE e.type = "add" /\ e.users \in UserSets
      BY <1>0, <1>5, <3>3, DeltaAddSound DEF HandleEvent
    <3>4. CASE e.type = "remove" /\ e.ids \in SUBSET Ids
      BY <1>0, <1>5, <3>4, DeltaRemoveSound DEF HandleEvent
    <3> QED
      BY <2>1, <3>1, <3>2, <3>3, <3>4 DEF Event
  <2> QED
    BY <1>5, <2>1, <2>2, HandlerInv DEF HandleEvent, IInv, TypeOK
<1>6. CASE Discover
  <2>1. PICK offered \in PushOffers, reports \in BOOLEAN :
           /\ push' = offered
           /\ downSince' = (downSince /\ push = offered)
           /\ linkUp' = (linkUp /\ offered)
           /\ wsStatuses' = IF reports
                               THEN Offer(wsStatuses, StatusCap, [connected |-> FALSE, resync |-> FALSE])
                               ELSE wsStatuses
    BY <1>6 DEF Discover
  <2>2. {resyncPending', push', downSince', linkUp'} \subseteq BOOLEAN
    BY <1>6, <2>1, ServiceConstants DEF Discover, IInv, TypeOK
  <2>3. [connected |-> FALSE, resync |-> FALSE] \in Status
    BY DEF Status
  <2>4. wsStatuses' \in Seq(Status) /\ Len(wsStatuses') <= StatusCap
    BY <1>1, <2>1, <2>3, OfferTyped DEF IInv, TypeOK
  <2> QED
    BY <1>0, <1>6, <2>2, <2>4, AskInv DEF Discover
<1> QED
  BY <1>2, <1>3, <1>4, <1>5, <1>6 DEF Service

LEMMA StepInv == IInv /\ [Next]_vars => IInv' /\ Handles(node, node')
<1> SUFFICES ASSUME IInv, [Next]_vars PROVE IInv' /\ Handles(node, node')
  OBVIOUS
<1>1. node' = node => Handles(node, node')
  BY DEF IInv, Handles
<1>2. CASE UNCHANGED vars
  <2>1. TypeOK'
    BY <1>2 DEF IInv, TypeOK, vars, counters
  <2> QED
    BY <1>1, <1>2, <2>1 DEF IInv, AtMostOneSkip, vars
<1>3. CASE Environment
  BY <1>1, <1>3, PanelInv, LinkInv DEF Environment
<1>4. CASE Setup
  BY <1>4, SetupInv
<1>5. CASE Worker
  BY <1>1, <1>5, WorkerInv
<1>6. CASE Service
  BY <1>6, ServiceInv
<1> QED
  BY <1>2, <1>3, <1>4, <1>5, <1>6 DEF Next

-----------------------------------------------------------------------------
(***************************************************************************)
(* What holds for every panel, every bound and every failing operation.    *)
(***************************************************************************)
\* The invariant the others follow from: between any two steps of the select
\* loop, the polling goroutine and the WebSocket client the node is sound.
THEOREM Inductive == Spec => []IInv
<1>1. Init => IInv
  BY InitInv
<1>2. IInv /\ [Next]_vars => IInv'
  BY StepInv
<1> QED
  BY <1>1, <1>2, PTL DEF Spec

\* Types: in particular no send ever exceeds the capacity of wsEvents or of
\* wsStatusCh.
THEOREM TypeCorrect == Spec => []TypeOK
<1>1. IInv => TypeOK
  BY DEF IInv
<1> QED
  BY <1>1, Inductive, PTL

\* The hashes that updates are compared with are those of what the node holds,
\* also after a failed update was rolled back.
THEOREM HashesAreCurrent == Spec => []DetectionSound
<1>1. IInv => DetectionSound
  BY DEF IInv, Sound, Held, DetectionSound
<1> QED
  BY <1>1, Inductive, PTL

\* No order of configurations, lists, deltas and rollbacks separates the limiter
\* and the ACL from the users and the configuration held.
THEOREM LimitsAreInStep == Spec => []LimitsInStep
<1>1. IInv => LimitsInStep
  BY DEF IInv, Sound, Held, LimitsInStep
<1> QED
  BY <1>1, Inductive, PTL

\* With a configuration and users, and no failed start, the kernel runs.
THEOREM KernelRuns == Spec => []NotLeftStopped
<1>1. IInv => NotLeftStopped
  BY DEF IInv, Sound, NotLeftStopped
<1> QED
  BY <1>1, Inductive, PTL

\* As long as removing a user from the kernel does not fail, nobody is served who
\* is not on the list held, whichever of the other kernel operations fail.
THEOREM OnlyHeldUsersAreServed == "remove" \notin Faulty => (Spec => []ServesWhatIsHeld)
<1> SUFFICES ASSUME "remove" \notin Faulty PROVE Spec => []ServesWhatIsHeld
  OBVIOUS
<1>1. IInv => ServesWhatIsHeld
  BY DEF IInv, Sound, ServesWhatIsHeld
<1> QED
  BY <1>1, Inductive, PTL

\* A failed poll is followed by at most one tick that does not poll.
THEOREM BackoffNeverDoubles == Spec => []AtMostOneSkip
<1>1. IInv => AtMostOneSkip
  BY DEF IInv
<1> QED
  BY <1>1, Inductive, PTL

\* No handler stops a running kernel while there are users, whatever fails.
THEOREM KernelStopsForNoUsers == Spec => StopsOnlyWithoutUsers
<1>1. IInv /\ [Next]_vars => [(node.kernel.up /\ ~node'.kernel.up) => node'.users = NoUsers]_vars
  BY StepInv DEF Handles
<1> QED
  BY <1>1, Inductive, PTL DEF Spec, StopsOnlyWithoutUsers

-----------------------------------------------------------------------------
(***************************************************************************)
(* Polling only.  The panel offers no WebSocket, always has users, does    *)
(* not go back to an earlier configuration (it has a rank, which every     *)
(* change raises) or on to a malformed one, and neither the second request *)
(* of a poll nor a start of the kernel fails.                              *)
(***************************************************************************)
MovesOn(Rank) == /\ Rank \in [Configs -> Nat]
                 /\ \A s \in ConfigSteps : Rank[s[1]] < Rank[s[2]] /\ s[2] \notin Malformed

PollingOnly == /\ PushOffers = {FALSE}
               /\ NoUsers \notin UserLists
               /\ "users" \notin Faulty /\ "start" \notin Faulty

\* The configuration and the users of the node once the result in the channel has
\* been applied.
NextConfig == IF pullResults # None /\ pullResults.config # None /\ pullResults.config \notin Invalid
                 THEN pullResults.config ELSE node.config
NextUsers  == IF pullResults # None /\ pullResults.users # None
                 THEN pullResults.users ELSE node.users

PanelAhead(Rank) ==
    panelConfig = configETag \/ (Rank[configETag] < Rank[panelConfig] /\ panelConfig \notin Malformed)

\* The panel is never behind what it last answered, nor that behind what is held,
\* or was held when the poll under way compared with it.
RanksKept(Rank) ==
    /\ PanelAhead(Rank)
    /\ Rank[node.config] <= Rank[configETag]
    /\ Rank[NextConfig] <= Rank[configETag]
    /\ pull.at \in {"config", "users"} =>
          /\ pull.known \in Configs
          /\ Rank[pull.known] <= Rank[configETag]

\* What was answered is held, in the channel, or on the way to it.
ConfigOnTheWay(Rank) ==
    IF pull.at \in {"users", "deliver"} /\ pull.config # None
       THEN /\ pull.config = configETag
            /\ pull.at = "users" => Rank[pull.known] < Rank[configETag]
       ELSE configETag \in Invalid \/ configETag = NextConfig

UsersOnTheWay ==
    userETag = IF pull.at = "deliver" /\ pull.users # None THEN pull.users ELSE NextUsers

Following(Rank) == /\ configETag \in Configs \ Malformed
                   /\ panelConfig \notin Malformed
                   /\ node.config \in Configs
                   /\ node.users \in UserLists
                   /\ RanksKept(Rank)
                   /\ ConfigOnTheWay(Rank)
                   /\ UsersOnTheWay

PollInv(Rank) ==
    /\ IInv
    /\ ~push /\ ~linkUp /\ wsEvents = <<>>
    /\ phase \in {"setup", "setupUsers"} => pull.at = "idle" /\ pullResults = None
    /\ phase = "setupUsers" => PanelAhead(Rank)
    /\ phase = "failed" => pull.at = "idle"
    /\ phase = "run" => Following(Rank)

LEMMA PollInit ==
    ASSUME NEW Rank, Init
    PROVE  PollInv(Rank)
BY InitInv DEF Init, PollInv, IdlePull

\* With no WebSocket on offer there is none.
LEMMA NoLink ==
    ASSUME NEW Rank, PollInv(Rank), PollingOnly, [Next]_vars
    PROVE  ~push' /\ ~linkUp' /\ wsEvents' = <<>>
<1>0. ~push /\ ~linkUp /\ wsEvents = <<>> /\ PushOffers = {FALSE}
  BY DEF PollInv, PollingOnly
<1>1. CASE Environment
  <2>1. CASE PanelSetsConfig
    <3>1. UNCHANGED link /\ UNCHANGED queues
      BY <1>0, <2>1 DEF PanelSetsConfig, PanelActs, Receive
    <3> QED
      BY <1>0, <3>1 DEF link, queues
  <2>2. CASE PanelSetsUsers
    <3>1. UNCHANGED link /\ UNCHANGED queues
      BY <1>0, <2>2 DEF PanelSetsUsers, PanelActs, Receive
    <3> QED
      BY <1>0, <3>1 DEF link, queues
  <2>3. CASE RenewCert
    BY <1>0, <2>3 DEF RenewCert, link, queues
  <2>4. ~Connect /\ ~DialFails /\ ~Disconnect
    BY <1>0 DEF Connect, DialFails, Disconnect, LinkAttempt
  <2> QED
    BY <1>1, <2>1, <2>2, <2>3, <2>4 DEF Environment
<1>2. CASE Setup
  BY <1>0, <1>2 DEF Setup, SetupPush, SetupConfig, SetupUsers, SetupFails, queues
<1>3. CASE Worker
  BY <1>0, <1>3 DEF Worker, PollConfig, PollUsers, PollFails, DeliverResult, FinishPull, PullStep, link, queues
<1>4. CASE PullTick \/ ApplyResult \/ HandleStatus
  BY <1>0, <1>4 DEF PullTick, ApplyResult, HandleStatus, queues
<1>5. CASE HandleEvent
  BY <1>0, <1>5 DEF HandleEvent
<1>6. CASE Discover
  BY <1>0, <1>6 DEF Discover
<1>7. CASE UNCHANGED vars
  BY <1>0, <1>7 DEF vars
<1> QED
  BY <1>1, <1>2, <1>3, <1>4, <1>5, <1>6, <1>7 DEF Next, Service

\* A change by the panel only widens its lead.
LEMMA PollPanel ==
    ASSUME NEW Rank, PollInv(Rank), MovesOn(Rank), PollingOnly, IInv', ~push' /\ ~linkUp' /\ wsEvents' = <<>>,
           PanelSetsConfig \/ PanelSetsUsers \/ RenewCert \/ Connect \/ DialFails \/ Disconnect
    PROVE  PollInv(Rank)'
<1>1. UNCHANGED <<phase, node, pull, pullResults, configETag, userETag>>
  BY DEF PanelSetsConfig, PanelSetsUsers, PanelActs, RenewCert, Connect, DialFails, Disconnect,
         LinkChanges, client, etags
<1>2. /\ panelConfig \in Configs /\ panelConfig' \in Configs
      /\ \/ panelConfig' = panelConfig
         \/ Rank[panelConfig] < Rank[panelConfig'] /\ panelConfig' \notin Malformed
  <2>1. panelConfig \in Configs /\ panelConfig' \in Configs
    BY DEF PollInv, IInv, TypeOK
  <2>2. CASE PanelSetsConfig
    BY <2>1, <2>2 DEF PanelSetsConfig, MovesOn
  <2>3. CASE PanelSetsUsers \/ RenewCert
    BY <2>1, <2>3 DEF PanelSetsUsers, RenewCert, panel
  <2>4. CASE Connect \/ DialFails \/ Disconnect
    BY <2>1, <2>4 DEF Connect, DialFails, Disconnect, LinkChanges
  <2> QED
    BY <2>1, <2>2, <2>3, <2>4
<1>3. Rank[panelConfig] \in Nat /\ Rank[panelConfig'] \in Nat
      /\ (configETag \in Configs => Rank[configETag] \in Nat)
  BY <1>2 DEF MovesOn
<1>4. configETag \in Configs /\ PanelAhead(Rank) => PanelAhead(Rank)'
  BY <1>1, <1>2, <1>3 DEF PanelAhead
<1>5. phase = "setupUsers" => configETag \in Configs
  BY DEF PollInv, IInv
<1>6. Following(Rank) => Following(Rank)'
  <2>1. NextConfig' = NextConfig /\ NextUsers' = NextUsers
    BY <1>1 DEF NextConfig, NextUsers
  <2> QED
    BY <1>1, <1>2, <1>4, <2>1 DEF Following, RanksKept, ConfigOnTheWay, UsersOnTheWay
<1> QED
  BY <1>1, <1>2, <1>4, <1>5, <1>6 DEF PollInv

LEMMA PollSetup ==
    ASSUME NEW Rank, PollInv(Rank), MovesOn(Rank), PollingOnly, IInv', ~push' /\ ~linkUp' /\ wsEvents' = <<>>,
           Setup
    PROVE  PollInv(Rank)'
<1>1. UNCHANGED <<pull, pullResults, panelConfig, panelUsers>>
  BY DEF Setup, SetupPush, SetupConfig, SetupUsers, SetupFails, client
<1>2. phase \in {"setup", "setupUsers"} /\ pull.at = "idle" /\ pullResults = None
  BY DEF Setup, SetupPush, SetupConfig, SetupUsers, SetupFails, PollInv
<1>3. CASE SetupPush
  BY <1>3 DEF SetupPush, PollingOnly
<1>4. CASE SetupConfig
  BY <1>1, <1>2, <1>4 DEF SetupConfig, PollInv, PanelAhead
<1>5. CASE SetupFails
  BY <1>1, <1>2, <1>5 DEF SetupFails, PollInv
<1>6. CASE SetupUsers
  <2>1. phase = "setupUsers" /\ configETag' = configETag /\ userETag' = panelUsers
    BY <1>6 DEF SetupUsers
  <2>2. /\ configETag \in Configs /\ Sound(node)
        /\ panelUsers \in UserLists /\ panelUsers \in UserSets /\ panelUsers # NoUsers
    BY <2>1, ListsAreTyped DEF PollInv, IInv, TypeOK, PollingOnly
  <2>3. CASE configETag \in Malformed \union Invalid
    BY <1>1, <1>2, <1>6, <2>3 DEF SetupUsers, PollInv
  <2>4. CASE configETag \notin Malformed \union Invalid
    <3>1. node' \in SetUp(node, configETag, panelUsers) /\ phase' \in {"run", "failed"}
      BY <1>6, <2>4 DEF SetupUsers
    <3>2. node'.config = configETag /\ node'.users = panelUsers
      BY <2>2, <3>1, SetUpTaken
    <3>3. PanelAhead(Rank) /\ PanelAhead(Rank)' /\ panelConfig \notin Malformed
      BY <1>1, <2>1, <2>4 DEF PollInv, PanelAhead
    <3>4. Rank[configETag] \in Nat
      BY <2>2 DEF MovesOn
    <3>5. NextConfig' = configETag /\ NextUsers' = panelUsers
      BY <1>1, <1>2, <3>2 DEF NextConfig, NextUsers
    <3>6. Following(Rank)'
      BY <1>1, <1>2, <2>1, <2>2, <2>4, <3>2, <3>3, <3>4, <3>5
         DEF Following, RanksKept, ConfigOnTheWay, UsersOnTheWay
    <3> QED
      BY <1>1, <1>2, <3>1, <3>6 DEF PollInv
  <2> QED
    BY <2>3, <2>4
<1> QED
  BY <1>3, <1>4, <1>5, <1>6 DEF Setup

\* The ranks of what RanksKept compares are numbers.
LEMMA RanksTyped ==
    ASSUME NEW Rank, PollInv(Rank), MovesOn(Rank), phase = "run"
    PROVE  /\ {Rank[configETag], Rank[panelConfig], Rank[node.config], Rank[NextConfig]} \subseteq Nat
           /\ pull.at \in {"config", "users"} => Rank[pull.known] \in Nat
           /\ NextConfig \in Configs /\ NextUsers \in UserLists
<1>1. configETag \in Configs /\ panelConfig \in Configs /\ node.config \in Configs
      /\ (pull.at \in {"config", "users"} => pull.known \in Configs)
  BY DEF PollInv, IInv, TypeOK, Following, RanksKept
<1>2. pullResults # None => /\ pullResults.config \in Configs \union {None}
                            /\ pullResults.users \in UserLists \union {None}
  BY DEF PollInv, IInv, TypeOK
<1>3. NextConfig \in Configs /\ NextUsers \in UserLists
  BY <1>1, <1>2 DEF NextConfig, NextUsers, PollInv, Following
<1> QED
  BY <1>1, <1>3 DEF MovesOn

LEMMA PollWorker ==
    ASSUME NEW Rank, PollInv(Rank), MovesOn(Rank), PollingOnly, IInv', ~push' /\ ~linkUp' /\ wsEvents' = <<>>,
           Worker
    PROVE  PollInv(Rank)'
<1>1. UNCHANGED <<phase, node, panelConfig, panelUsers>> /\ pull.at # "idle"
  BY DEF Worker, PollConfig, PollUsers, PollFails, DeliverResult, FinishPull, PullStep
<1>2. phase = "run" /\ Following(Rank) /\ TypeOK /\ node.config # None
  BY <1>1, HandlerConstants DEF PollInv, IInv, TypeOK, Following
<1>3. Following(Rank)' => PollInv(Rank)'
  BY <1>1, <1>2 DEF PollInv
<1>4. /\ {Rank[configETag], Rank[panelConfig], Rank[node.config], Rank[NextConfig]} \subseteq Nat
      /\ pull.at \in {"config", "users"} => Rank[pull.known] \in Nat
      /\ NextConfig \in Configs /\ NextUsers \in UserLists
  BY <1>2, RanksTyped
<1>5. pullResults' = pullResults => NextConfig' = NextConfig /\ NextUsers' = NextUsers
  BY <1>1 DEF NextConfig, NextUsers
<1>6. panelConfig \in Configs /\ panelConfig # None /\ panelUsers \in UserLists /\ panelUsers # None
      /\ NextUsers # None
  BY <1>2, <1>4, ListsAreTyped, HandlerConstants DEF TypeOK
<1>7. CASE PollConfig
  <2>1. /\ pull.at = "config" /\ pull'.at = "users" /\ pull'.known = pull.known
        /\ pull'.config = (IF panelConfig = configETag THEN None ELSE panelConfig)
        /\ configETag' = panelConfig /\ pullResults' = pullResults /\ userETag' = userETag
    BY <1>2, <1>7 DEF PollConfig, PullStep, TypeOK
  <2>2. configETag \in Invalid \/ configETag = NextConfig
    BY <1>2, <2>1 DEF Following, ConfigOnTheWay
  <2>3. UsersOnTheWay'
    BY <1>2, <1>5, <2>1 DEF Following, UsersOnTheWay
  <2>4. CASE panelConfig = configETag
    BY <1>1, <1>2, <1>3, <1>5, <2>1, <2>2, <2>3, <2>4 DEF Following, RanksKept, PanelAhead, ConfigOnTheWay
  <2>5. CASE panelConfig # configETag
    <3>1. /\ Rank[configETag] < Rank[panelConfig] /\ Rank[node.config] <= Rank[configETag]
          /\ Rank[NextConfig] <= Rank[configETag] /\ Rank[pull.known] <= Rank[configETag]
          /\ pull.known \in Configs
      BY <1>2, <2>1, <2>5 DEF Following, RanksKept, PanelAhead
    <3>2. /\ Rank[node.config] <= Rank[panelConfig] /\ Rank[NextConfig] <= Rank[panelConfig]
          /\ Rank[pull.known] < Rank[panelConfig] /\ Rank[pull.known] <= Rank[panelConfig]
      BY <1>4, <2>1, <3>1
    <3> QED
      BY <1>1, <1>2, <1>3, <1>5, <1>6, <2>1, <2>3, <2>5, <3>1, <3>2 DEF Following, RanksKept, PanelAhead, ConfigOnTheWay
  <2> QED
    BY <2>4, <2>5
<1>8. CASE PollUsers
  <2>1. /\ pull.at = "users" /\ userETag' = panelUsers
        /\ configETag' = configETag /\ pullResults' = pullResults
    BY <1>8 DEF PollUsers, PullStep
  <2>2. userETag = NextUsers
    BY <1>2, <2>1 DEF Following, UsersOnTheWay
  <2>3. pull.config \notin Malformed
    BY <1>2, <2>1, HandlerConstants, ServiceConstants DEF Following, ConfigOnTheWay
  <2>4. /\ pull'.at = "deliver"
        /\ pull'.config = (IF pull.config = pull.known /\ ~pull.cert THEN None ELSE pull.config)
        /\ pull'.users = (IF panelUsers = userETag THEN None ELSE panelUsers)
    BY <1>2, <1>8, <2>3 DEF PollUsers, TypeOK
  <2>5. pull.config # None => pull.config # pull.known
    BY <1>2, <1>4, <2>1 DEF Following, ConfigOnTheWay
  <2>6. pull'.config = pull.config
    BY <2>4, <2>5
  <2>7. ConfigOnTheWay(Rank)'
    BY <1>2, <1>5, <2>1, <2>4, <2>6 DEF Following, ConfigOnTheWay
  <2>8. UsersOnTheWay'
    BY <1>5, <1>6, <2>1, <2>2, <2>4 DEF UsersOnTheWay
  <2>9. RanksKept(Rank)'
    BY <1>1, <1>2, <1>5, <2>1, <2>4 DEF Following, RanksKept, PanelAhead
  <2> QED
    BY <1>1, <1>2, <1>3, <2>1, <2>7, <2>8, <2>9 DEF Following
<1>9. CASE PollFails
  <2>1. /\ pull.at = "config" /\ pull' = IdlePull
        /\ configETag' = configETag /\ userETag' = userETag /\ pullResults' = pullResults
    BY <1>9 DEF PollFails, PullStep, PullFails, PollingOnly, etags
  <2>2. pull'.at = "idle"
    BY <2>1 DEF IdlePull
  <2> QED
    BY <1>1, <1>2, <1>3, <1>5, <2>1, <2>2 DEF Following, RanksKept, PanelAhead, ConfigOnTheWay, UsersOnTheWay
<1>10. CASE DeliverResult
  <2>1. /\ pull.at = "deliver" /\ pullResults = None /\ pull'.at = "finish"
        /\ pullResults' = [config |-> pull.config, users |-> pull.users, cert |-> pull.cert]
        /\ configETag' = configETag /\ userETag' = userETag
    BY <1>10 DEF DeliverResult, PullStep, IdlePull, etags
  <2>2. pullResults' # None /\ pullResults'.config = pull.config /\ pullResults'.users = pull.users
    BY <1>2, <2>1, ServiceConstants DEF TypeOK
  <2>3. NextConfig = node.config /\ NextUsers = node.users
    BY <2>1 DEF NextConfig, NextUsers
  <2>4. NextConfig' = IF pull.config # None /\ pull.config \notin Invalid THEN pull.config ELSE node.config
    BY <1>1, <2>2 DEF NextConfig
  <2>5. NextUsers' = IF pull.users # None THEN pull.users ELSE node.users
    BY <1>1, <2>2 DEF NextUsers
  <2>6. ConfigOnTheWay(Rank)'
    BY <1>2, <2>1, <2>3, <2>4 DEF Following, ConfigOnTheWay
  <2>7. UsersOnTheWay'
    BY <1>2, <2>1, <2>3, <2>5 DEF Following, UsersOnTheWay
  <2>8. RanksKept(Rank)'
    <3>1. NextConfig' = node.config \/ NextConfig' = configETag
      BY <1>2, <2>1, <2>4 DEF Following, ConfigOnTheWay
    <3> QED
      BY <1>1, <1>2, <1>4, <2>1, <3>1 DEF Following, RanksKept, PanelAhead
  <2> QED
    BY <1>1, <1>2, <1>3, <2>1, <2>6, <2>7, <2>8 DEF Following
<1>11. CASE FinishPull
  <2>1. /\ pull.at = "finish" /\ pull' = IdlePull
        /\ configETag' = configETag /\ userETag' = userETag /\ pullResults' = pullResults
    BY <1>11 DEF FinishPull, PullStep, etags
  <2>2. pull'.at = "idle"
    BY <2>1 DEF IdlePull
  <2> QED
    BY <1>1, <1>2, <1>3, <1>5, <2>1, <2>2 DEF Following, RanksKept, PanelAhead, ConfigOnTheWay, UsersOnTheWay
<1> QED
  BY <1>7, <1>8, <1>9, <1>10, <1>11 DEF Worker

\* A poll that starts compares with what is held.
LEMMA PollAsk ==
    ASSUME NEW Rank, PollInv(Rank), MovesOn(Rank), IInv', ~push' /\ ~linkUp' /\ wsEvents' = <<>>,
           SelectLoop, NEW n \in Nat, TryPull(n), UNCHANGED <<node, pullResults>>
    PROVE  PollInv(Rank)'
<1>1. phase = "run" /\ UNCHANGED <<phase, node, panelConfig, pullResults, configETag, userETag>>
  BY DEF SelectLoop, etags
<1>2. Following(Rank)
  BY <1>1 DEF PollInv
<1>3. NextConfig' = NextConfig /\ NextUsers' = NextUsers
  BY <1>1 DEF NextConfig, NextUsers
<1>4. CASE pull' = pull
  BY <1>1, <1>2, <1>3, <1>4 DEF PollInv, Following, RanksKept, PanelAhead, ConfigOnTheWay, UsersOnTheWay
<1>5. CASE pull' # pull
  <2>1. pull.at = "idle" /\ pull'.at = "config" /\ pull'.known = node.configHash
    BY <1>5 DEF TryPull, IdlePull, client
  <2>2. node.configHash = node.config
    BY SoundFields DEF PollInv, IInv
  <2> QED
    BY <1>1, <1>2, <1>3, <2>1, <2>2 DEF PollInv, Following, RanksKept, PanelAhead, ConfigOnTheWay, UsersOnTheWay
<1> QED
  BY <1>4, <1>5

LEMMA PollService ==
    ASSUME NEW Rank, PollInv(Rank), MovesOn(Rank), PollingOnly, IInv', ~push' /\ ~linkUp' /\ wsEvents' = <<>>,
           Service
    PROVE  PollInv(Rank)'
<1>1. CASE PullTick
  BY <1>1, PollAsk DEF PullTick
<1>2. CASE HandleStatus
  <2>1. PICK n \in {1, 2} : TryPull(n)
    BY <1>2 DEF HandleStatus
  <2> QED
    BY <1>2, <2>1, PollAsk DEF HandleStatus
<1>3. CASE Discover
  BY <1>3, PollAsk DEF Discover
<1>4. CASE HandleEvent
  BY <1>4 DEF HandleEvent, PollInv
<1>5. CASE ApplyResult
  <2>1. /\ phase = "run" /\ pullResults # None /\ pullResults' = None
        /\ node' \in ApplyPullResult(node, pullResults)
        /\ UNCHANGED <<phase, pull, panelConfig, configETag, userETag>>
    BY <1>5 DEF ApplyResult, SelectLoop, client, etags
  <2>2. Following(Rank)
    BY <2>1 DEF PollInv
  <2>3. /\ pullResults.config \in Configs \union {None} /\ pullResults.users \in UserLists \union {None}
        /\ pullResults.users \in UserSets \union {None} /\ pullResults.cert \in BOOLEAN
    BY <2>1, ListsAreTyped DEF PollInv, IInv, TypeOK
  <2>4. Sound(node) /\ node.config # None /\ node.users # NoUsers
    BY <2>2, HandlerConstants DEF PollInv, IInv, Following, PollingOnly
  <2>5. node'.config = NextConfig /\ node'.users = NextUsers
    BY <2>1, <2>3, <2>4, PullResultTaken DEF NextConfig, NextUsers, PollingOnly
  <2>6. NextConfig' = NextConfig /\ NextUsers' = NextUsers
    BY <2>1, <2>5 DEF NextConfig, NextUsers
  <2>7. NextConfig \in Configs /\ NextUsers \in UserLists
    BY <2>1, RanksTyped
  <2>8. Following(Rank)'
    BY <2>1, <2>2, <2>5, <2>6, <2>7 DEF Following, RanksKept, PanelAhead, ConfigOnTheWay, UsersOnTheWay
  <2> QED
    BY <2>1, <2>8 DEF PollInv
<1> QED
  BY <1>1, <1>2, <1>3, <1>4, <1>5 DEF Service

LEMMA PollStep ==
    ASSUME NEW Rank, MovesOn(Rank), PollingOnly, PollInv(Rank), [Next]_vars
    PROVE  PollInv(Rank)'
<1>1. IInv'
  BY StepInv DEF PollInv
<1>2. ~push' /\ ~linkUp' /\ wsEvents' = <<>>
  BY NoLink
<1>3. CASE Environment
  BY <1>1, <1>2, <1>3, PollPanel DEF Environment
<1>4. CASE Setup
  BY <1>1, <1>2, <1>4, PollSetup
<1>5. CASE Worker
  BY <1>1, <1>2, <1>5, PollWorker
<1>6. CASE Service
  BY <1>1, <1>2, <1>6, PollService
<1>7. CASE UNCHANGED vars
  <2>1. NextConfig' = NextConfig /\ NextUsers' = NextUsers
    BY <1>7 DEF vars, NextConfig, NextUsers
  <2> QED
    BY <1>1, <1>2, <1>7, <2>1 DEF PollInv, vars, Following, RanksKept, PanelAhead, ConfigOnTheWay, UsersOnTheWay
<1> QED
  BY <1>3, <1>4, <1>5, <1>6, <1>7 DEF Next

\* A node that is polled only ends every poll with what the panel has answered by
\* then, although the ETags run ahead of the result and results wait for each
\* other in a channel of one: a 304 never stands for something that was dropped.
\* No hypothesis can be dropped.  Were a configuration to come back, a poll that
\* overtakes the result of the one before it could take it for the one still held;
\* a malformed one takes the users of its poll with it; a start that fails after
\* an update has failed puts the old list back.  For the rest of PollingOnly see
\* the runs lost_config and no_users.
THEOREM PollingLosesNothing ==
    ASSUME NEW Rank, MovesOn(Rank), PollingOnly
    PROVE  Spec => []NothingLost
<1>1. Init => PollInv(Rank)
  BY PollInit
<1>2. PollInv(Rank) /\ [Next]_vars => PollInv(Rank)'
  BY PollStep
<1>3. PollInv(Rank) => NothingLost
  BY DEF PollInv, Following, ConfigOnTheWay, UsersOnTheWay, NextConfig, NextUsers, NothingLost
<1> QED
  BY <1>1, <1>2, <1>3, PTL DEF Spec
=============================================================================
