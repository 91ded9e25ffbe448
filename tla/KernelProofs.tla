----------------------------- MODULE KernelProofs ------------------------------
(***************************************************************************)
(* The two kernels: the inbound of a sing-box (BoxLifecycle), for every    *)
(* set of configurations and lists, and the users of an embedded xray      *)
(* (XrayKernel), for every set of users and configurations; its device     *)
(* limits (XrayDispatcher), for any number of connections, addresses and   *)
(* limits; and the certificate that either serves (NodeCert), for every    *)
(* set of ACME configurations and any number of renewals under way.        *)
(***************************************************************************)
EXTENDS BoxLifecycle, XrayKernel, XrayDispatcher, NodeCert, FiniteSetTheorems, TLAPS

-----------------------------------------------------------------------------
(***************************************************************************)
(* The inbound of a sing-box.                                              *)
(***************************************************************************)
LEMMA InType ==
    ASSUME NEW c \in Settings, NEW us \in NodeLists
    PROVE  /\ In(c, us) \in Serves /\ In(c, us) # Nothing
           /\ BoxOf(c, us) \in [config : Settings, users : NodeLists, inbound : Serves \union {Nothing}]
           /\ BoxOf(c, us).config = c
           /\ BoxOf(c, us).inbound # Nothing
BY BoxConstants DEF In, BoxOf, Serves

\* What a handler does to the box leaves it with its type.
LEMMA BoxSteps ==
    ASSUME BoxTypeOK, NEW c \in Settings, NEW us \in NodeLists
    PROVE  LET Typed == /\ box' \in {Nothing} \union [config : Settings, users : NodeLists, inbound : Serves \union {Nothing}]
                        /\ mishaps' \in 0..MaxMishaps /\ spoilt' \in BOOLEAN
           IN  /\ Starts(c, us) => Typed
               /\ StartFails(c) => Typed
               /\ Recreates(c, us) => Typed
               /\ box # Nothing /\ RecreateFails(c) => Typed
               /\ UpdatesInPlace(us) => Typed
<1> DEFINE Typed == /\ box' \in {Nothing} \union [config : Settings, users : NodeLists, inbound : Serves \union {Nothing}]
                    /\ mishaps' \in 0..MaxMishaps /\ spoilt' \in BOOLEAN
<1>1. MaxMishaps \in Nat /\ mishaps \in 0..MaxMishaps /\ spoilt \in BOOLEAN
  BY BoxConstants DEF BoxTypeOK
<1>2. Mishap => mishaps' \in 0..MaxMishaps
  BY <1>1 DEF Mishap
<1>3. Starts(c, us) => Typed
  BY <1>1, InType DEF Starts
<1>4. StartFails(c) => Typed
  BY <1>1, <1>2 DEF StartFails, BoxTypeOK
<1>5. Recreates(c, us) => Typed
  BY <1>1, InType DEF Recreates
<1>6. box # Nothing /\ RecreateFails(c) => Typed
  <2> SUFFICES ASSUME box # Nothing, RecreateFails(c) PROVE Typed
    OBVIOUS
  <2>1. CASE c \in Unparsable
    BY <1>1, <2>1 DEF RecreateFails, BoxTypeOK
  <2>2. CASE c \notin Unparsable
    <3>1. box' = [box EXCEPT !.inbound = Nothing]
      BY <2>2 DEF RecreateFails
    <3>2. box \in [config : Settings, users : NodeLists, inbound : Serves \union {Nothing}]
      BY DEF BoxTypeOK
    <3>3. mishaps' \in 0..MaxMishaps /\ spoilt' \in BOOLEAN
      BY <1>1, <1>2, <2>2 DEF RecreateFails
    <3> QED BY <3>1, <3>2, <3>3
  <2> QED BY <2>1, <2>2
<1>7. UpdatesInPlace(us) => Typed
  <2> SUFFICES ASSUME UpdatesInPlace(us) PROVE Typed
    OBVIOUS
  <2>1. /\ box \in [config : Settings, users : NodeLists, inbound : Serves \union {Nothing}]
        /\ box.inbound \in Serves
    BY DEF UpdatesInPlace, Listens, BoxTypeOK
  <2>2. box' = [box EXCEPT !.users = us, !.inbound.users = us]
    BY DEF UpdatesInPlace
  <2>3. [box.inbound EXCEPT !.users = us] \in Serves
    BY <2>1 DEF Serves
  <2>4. box' \in [config : Settings, users : NodeLists, inbound : Serves \union {Nothing}]
    BY <2>1, <2>2, <2>3
  <2> QED BY <1>1, <2>4 DEF UpdatesInPlace
<1> QED BY <1>3, <1>4, <1>5, <1>6, <1>7

LEMMA BoxTypeInit == BoxInit => BoxTypeOK
<1> SUFFICES ASSUME BoxInit PROVE BoxTypeOK
  OBVIOUS
<1>1. wished \in Serves /\ before \in NodeLists
  BY DEF BoxInit, Serves
<1>2. mishaps \in 0..MaxMishaps
  BY BoxConstants DEF BoxInit
<1> QED BY <1>1, <1>2 DEF BoxInit, BoxTypeOK

LEMMA BoxTypeNext == BoxTypeOK /\ [BoxNext]_boxes => BoxTypeOK'
<1> SUFFICES ASSUME BoxTypeOK, [BoxNext]_boxes PROVE BoxTypeOK'
  OBVIOUS
<1>1. wished \in Serves /\ wished.config \in Settings /\ wished.users \in NodeLists /\ before \in NodeLists
  BY DEF BoxTypeOK, Serves
<1>2. CASE \E c \in Settings : NewSettings(c)
  <2>1. PICK c \in Settings : NewSettings(c)
    BY <1>2
  <2>2. wished' \in Serves
    BY <1>1, <2>1 DEF NewSettings, Serves
  <2>3. /\ box' \in {Nothing} \union [config : Settings, users : NodeLists, inbound : Serves \union {Nothing}]
        /\ mishaps' \in 0..MaxMishaps /\ spoilt' \in BOOLEAN
    BY <1>1, <2>1, BoxSteps DEF NewSettings
  <2> QED BY <2>1, <2>2, <2>3 DEF NewSettings, BoxTypeOK
<1>3. CASE \E us \in NodeLists : NewUsers(us)
  <2>1. PICK us \in NodeLists : NewUsers(us)
    BY <1>3
  <2>2. wished' \in Serves
    BY <1>1, <2>1 DEF NewUsers, Serves
  <2>3. box.config \in Settings
    BY <2>1 DEF NewUsers, BoxTypeOK
  <2>4. /\ box' \in {Nothing} \union [config : Settings, users : NodeLists, inbound : Serves \union {Nothing}]
        /\ mishaps' \in 0..MaxMishaps /\ spoilt' \in BOOLEAN
    <3>1. CASE us = box.users
      BY <2>1, <3>1 DEF NewUsers, BoxTypeOK
    <3>2. CASE us # box.users
      BY <2>1, <2>3, <3>2, BoxSteps DEF NewUsers
    <3> QED BY <3>1, <3>2
  <2>5. before' \in NodeLists /\ step' \in {"idle", "config", "users"}
    BY <1>1, <2>1 DEF NewUsers, BoxTypeOK
  <2> QED BY <2>2, <2>4, <2>5 DEF BoxTypeOK
<1>4. CASE EnsureRunning
  <2>1. /\ box' \in {Nothing} \union [config : Settings, users : NodeLists, inbound : Serves \union {Nothing}]
        /\ mishaps' \in 0..MaxMishaps /\ spoilt' \in BOOLEAN
    BY <1>1, <1>4, BoxSteps DEF EnsureRunning
  <2> QED BY <1>4, <2>1 DEF EnsureRunning, BoxTypeOK
<1>5. CASE Restart
  <2>1. /\ box' \in {Nothing} \union [config : Settings, users : NodeLists, inbound : Serves \union {Nothing}]
        /\ mishaps' \in 0..MaxMishaps /\ spoilt' \in BOOLEAN
    BY <1>1, <1>5, BoxSteps DEF Restart
  <2>2. wished' \in Serves
    BY <1>1, <1>5 DEF Restart, Serves
  <2> QED BY <1>5, <2>1, <2>2 DEF Restart, BoxTypeOK
<1>6. CASE UNCHANGED boxes
  BY <1>6 DEF boxes, BoxTypeOK
<1> QED BY <1>2, <1>3, <1>4, <1>5, <1>6 DEF BoxNext

-----------------------------------------------------------------------------
\* A box was made from a configuration sing-box can use.
Usable == box # Nothing => box.config \notin Unusable

\* A start is under way for a box without an inbound only after the port was taken once,
\* or for a configuration that cannot be used, after one that took the inbound away.
OnceTaken == step # "idle" /\ Deaf => mishaps >= 1 \/ (spoilt /\ wished.config \in Unusable)

BoxInv == BoxTypeOK /\ Usable /\ OnceTaken /\ FailureMended

LEMMA BoxInvInit == BoxInit => BoxInv
BY BoxTypeInit DEF BoxInit, BoxInv, Usable, OnceTaken, FailureMended, Deaf

\* What a handler's change of the box leaves behind.
LEMMA BoxLeft ==
    ASSUME BoxTypeOK, Usable, NEW c \in Settings, NEW us \in NodeLists
    PROVE  /\ Starts(c, us) \/ Recreates(c, us) => Usable' /\ ~Deaf'
           /\ StartFails(c) => /\ UNCHANGED <<box, spoilt>>
                               /\ c \in Unusable \/ Contended(c) \/ mishaps' = mishaps + 1
                               /\ mishaps' \in {mishaps, mishaps + 1}
           /\ box # Nothing /\ RecreateFails(c) =>
                 /\ Usable'
                 /\ \/ c \in Unparsable /\ UNCHANGED <<box, mishaps, spoilt>>
                    \/ c \in Unusable /\ ~Listens' /\ spoilt' /\ mishaps' = mishaps
                    \/ ~Listens' /\ mishaps' = mishaps + 1
           /\ UpdatesInPlace(us) => Usable' /\ ~Deaf'
<1>1. Starts(c, us) \/ Recreates(c, us) => Usable' /\ ~Deaf'
  BY InType DEF Starts, Recreates, Usable, Deaf
<1>2. StartFails(c) => /\ UNCHANGED <<box, spoilt>>
                       /\ c \in Unusable \/ Contended(c) \/ mishaps' = mishaps + 1
                       /\ mishaps' \in {mishaps, mishaps + 1}
  BY DEF StartFails, Mishap
<1>3. ASSUME box # Nothing, RecreateFails(c)
      PROVE  /\ Usable'
             /\ \/ c \in Unparsable /\ UNCHANGED <<box, mishaps, spoilt>>
                \/ c \in Unusable /\ ~Listens' /\ spoilt' /\ mishaps' = mishaps
                \/ ~Listens' /\ mishaps' = mishaps + 1
  <2>1. CASE c \in Unparsable
    BY <1>3, <2>1 DEF RecreateFails, Usable
  <2>2. CASE c \notin Unparsable
    <3>1. box \in [config : Settings, users : NodeLists, inbound : Serves \union {Nothing}]
      BY <1>3 DEF BoxTypeOK
    <3>2. box' = [box EXCEPT !.inbound = Nothing]
      BY <1>3, <2>2 DEF RecreateFails
    <3>3. box'.inbound = Nothing /\ box'.config = box.config
      BY <3>1, <3>2
    <3>4. Usable' /\ ~Listens'
      BY <1>3, <3>2, <3>3 DEF Usable, Listens
    <3>5. \/ c \in Unusable /\ spoilt' /\ mishaps' = mishaps
          \/ mishaps' = mishaps + 1
      <4>1. CASE c \in Uncreatable
        <5>1. spoilt' = TRUE /\ mishaps' = mishaps
          BY <1>3, <2>2, <4>1 DEF RecreateFails
        <5> QED BY <4>1, <5>1 DEF Unusable
      <4>2. CASE c \notin Uncreatable
        BY <1>3, <2>2, <4>2 DEF RecreateFails, Mishap
      <4> QED BY <4>1, <4>2
    <3> QED BY <3>4, <3>5
  <2> QED BY <2>1, <2>2
<1>4. ASSUME UpdatesInPlace(us) PROVE Usable' /\ ~Deaf'
  <2>1. /\ box \in [config : Settings, users : NodeLists, inbound : Serves \union {Nothing}]
        /\ box.inbound \in Serves
    BY <1>4 DEF UpdatesInPlace, Listens, BoxTypeOK
  <2>2. box' = [box EXCEPT !.users = us, !.inbound.users = us]
    BY <1>4 DEF UpdatesInPlace
  <2>3. box'.config = box.config /\ box'.inbound = [box.inbound EXCEPT !.users = us]
    BY <2>1, <2>2
  <2>4. box'.inbound \in Serves
    BY <2>1, <2>3 DEF Serves
  <2>5. box'.inbound # Nothing
    BY <2>4, BoxConstants DEF Serves
  <2> QED BY <1>4, <2>3, <2>5 DEF Usable, Deaf, UpdatesInPlace, Listens
<1> QED BY <1>1, <1>2, <1>3, <1>4

\* The start that answers a failure: the second failure in a row is counted, or is of a
\* configuration sing-box cannot use.
LEMMA RestartMends == BoxInv /\ Restart => Usable' /\ OnceTaken' /\ FailureMended'
<1> SUFFICES ASSUME BoxInv, Restart PROVE Usable' /\ OnceTaken' /\ FailureMended'
  OBVIOUS
<1> DEFINE Mended == mishaps' >= 2 \/ (wished.config \in Unusable /\ (mishaps' = 1 \/ spoilt'))
<1>1. wished.config \in Settings /\ wished.users \in NodeLists /\ mishaps \in Nat /\ BoxTypeOK /\ Usable
  BY BoxConstants DEF BoxInv, BoxTypeOK, Serves
<1>2. step # "idle" /\ step' = "idle" /\ wished'.config = wished.config
  BY DEF Restart, BoxInv, BoxTypeOK, Serves
<1>3. Usable' /\ (Deaf' => Mended)
  <2>1. CASE Starts(wished.config, wished.users)
    BY <1>1, <2>1, BoxLeft
  <2>2. CASE StartFails(wished.config)
    <3>1. UNCHANGED <<box, spoilt>> /\ mishaps' \in {mishaps, mishaps + 1}
      BY <1>1, <2>2, BoxLeft
    <3>2. Usable'
      BY <1>1, <3>1 DEF Usable
    <3>3. ASSUME Deaf' PROVE Mended
      <4>1. Deaf
        BY <3>1, <3>3 DEF Deaf
      <4>2. mishaps >= 1 \/ (spoilt /\ wished.config \in Unusable)
        BY <1>2, <4>1 DEF BoxInv, OnceTaken
      <4>3. wished.config \in Unparsable \/ ~Contended(wished.config)
        BY <1>2 DEF BoxInv, FailureMended
      <4>4. wished.config \in Unusable \/ mishaps' = mishaps + 1
        BY <1>1, <2>2, <4>3, BoxLeft DEF Unusable
      <4>5. CASE mishaps >= 1
        BY <1>1, <3>1, <4>4, <4>5
      <4>6. CASE spoilt /\ wished.config \in Unusable
        BY <3>1, <4>6
      <4> QED BY <4>2, <4>5, <4>6
    <3> QED BY <3>2, <3>3
  <2> QED BY <2>1, <2>2 DEF Restart
<1> QED BY <1>2, <1>3 DEF OnceTaken, FailureMended

\* A handler that changes the box while no start is pending.
LEMMA HandlersMend ==
    ASSUME BoxInv, step = "idle",
           (\E c \in Settings : NewSettings(c)) \/ (\E us \in NodeLists : NewUsers(us)) \/ EnsureRunning
    PROVE  Usable' /\ OnceTaken' /\ FailureMended'
<1>1. wished.config \in Settings /\ wished.users \in NodeLists /\ mishaps \in Nat /\ BoxTypeOK /\ Usable
      /\ wished \in [config : Settings, users : NodeLists]
  BY BoxConstants DEF BoxInv, BoxTypeOK, Serves
<1>2. ASSUME Usable', step' = "idle", ~Deaf' PROVE Usable' /\ OnceTaken' /\ FailureMended'
  BY <1>2 DEF OnceTaken, FailureMended
<1>3. ASSUME NEW c \in Settings, NewSettings(c) PROVE Usable' /\ OnceTaken' /\ FailureMended'
  <2>1. wished'.config = c
    BY <1>1, <1>3 DEF NewSettings
  <2>2. CASE box = Nothing
    <3>1. Starts(c, wished.users) \/ StartFails(c)
      BY <1>3, <2>2 DEF NewSettings
    <3>2. Usable' /\ ~Deaf'
      BY <1>1, <2>2, <3>1, BoxLeft DEF Usable, Deaf
    <3>3. step' = "idle"
      BY <1>3, <2>2 DEF NewSettings
    <3> QED BY <1>2, <3>2, <3>3
  <2>3. CASE box # Nothing /\ Recreates(c, wished.users) /\ UNCHANGED step
    BY <1>1, <1>2, <2>3, BoxLeft
  <2>4. CASE box # Nothing /\ RecreateFails(c) /\ step' = "config"
    <3>1. Usable'
      BY <1>1, <2>4, BoxLeft
    <3>2. CASE c \in Unparsable /\ UNCHANGED <<box, mishaps, spoilt>>
      <4>1. Deaf' => mishaps' >= 1 \/ spoilt'
        BY <1>1, <3>2 DEF BoxInv, FailureMended, Deaf
      <4> QED BY <2>1, <2>4, <3>1, <3>2, <4>1 DEF OnceTaken, FailureMended, Unusable
    <3>3. CASE ~Listens' /\ mishaps' = mishaps + 1
      <4>1. mishaps' >= 1
        BY <1>1, <3>3
      <4> QED BY <2>4, <3>1, <3>3, <4>1 DEF OnceTaken, FailureMended, Contended, Listens
    <3>4. CASE c \in Unusable /\ ~Listens' /\ spoilt'
      BY <2>1, <2>4, <3>1, <3>4 DEF OnceTaken, FailureMended, Contended, Listens
    <3> QED BY <1>1, <2>4, <3>2, <3>3, <3>4, BoxLeft
  <2> QED BY <1>3, <2>2, <2>3, <2>4 DEF NewSettings
<1>4. ASSUME NEW us \in NodeLists, NewUsers(us) PROVE Usable' /\ OnceTaken' /\ FailureMended'
  <2>1. wished'.config = wished.config /\ box # Nothing
    BY <1>1, <1>4 DEF NewUsers
  <2>2. box.config \in Settings /\ box.config \notin Unusable
    BY <1>1, <2>1 DEF BoxTypeOK, Usable
  <2>3. CASE us = box.users
    <3>1. UNCHANGED <<box, mishaps, spoilt, step>>
      BY <1>4, <2>3 DEF NewUsers
    <3>2. (Deaf' => mishaps' >= 2 \/ (wished'.config \in Unusable /\ (mishaps' = 1 \/ spoilt'))) /\ step' = "idle"
      BY <2>1, <3>1 DEF BoxInv, FailureMended, Deaf
    <3> QED BY <1>1, <3>1, <3>2 DEF Usable, OnceTaken, FailureMended
  <2>4. CASE us # box.users /\ (UpdatesInPlace(us) \/ Recreates(box.config, us)) /\ UNCHANGED step
    BY <1>1, <1>2, <2>2, <2>4, BoxLeft
  <2>5. CASE RecreateFails(box.config) /\ step' = "users"
    <3>1. Usable' /\ ~Listens' /\ mishaps' = mishaps + 1
      BY <1>1, <2>1, <2>2, <2>5, BoxLeft DEF Unusable
    <3>2. mishaps' >= 1
      BY <1>1, <3>1
    <3> QED BY <2>5, <3>1, <3>2 DEF OnceTaken, FailureMended, Contended, Listens
  <2> QED BY <1>4, <2>3, <2>4, <2>5 DEF NewUsers
<1>5. CASE EnsureRunning
  <2>1. Usable' /\ ~Deaf'
    BY <1>1, <1>5, BoxLeft DEF EnsureRunning, Usable, Deaf
  <2> QED BY <1>2, <1>5, <2>1 DEF EnsureRunning
<1> QED BY <1>3, <1>4, <1>5

LEMMA BoxInvNext == BoxInv /\ [BoxNext]_boxes => BoxInv'
<1> SUFFICES ASSUME BoxInv, [BoxNext]_boxes PROVE BoxInv'
  OBVIOUS
<1>1. BoxTypeOK'
  BY BoxTypeNext DEF BoxInv
<1>2. CASE Restart
  BY <1>1, <1>2, RestartMends DEF BoxInv
<1>3. CASE (\E c \in Settings : NewSettings(c)) \/ (\E us \in NodeLists : NewUsers(us)) \/ EnsureRunning
  <2>1. step = "idle"
    BY <1>3 DEF NewSettings, NewUsers, EnsureRunning
  <2> QED BY <1>1, <1>3, <2>1, HandlersMend DEF BoxInv
<1>4. CASE UNCHANGED boxes
  BY <1>1, <1>4 DEF boxes, BoxInv, Usable, OnceTaken, FailureMended, Deaf, Contended, Listens
<1> QED BY <1>2, <1>3, <1>4 DEF BoxNext

\* A sing-box that runs listens unless its port was not to be had twice, or the
\* configuration wished cannot be used and either the port was once not to be had or such
\* a configuration took the inbound away; and the start that answers a failure never meets
\* its own predecessor on the port.
THEOREM InboundMended == BoxSpec => []FailureMended
<1>1. BoxInv => FailureMended
  BY DEF BoxInv
<1> QED BY <1>1, BoxInvInit, BoxInvNext, PTL DEF BoxSpec

-----------------------------------------------------------------------------
(***************************************************************************)
(* The users of the embedded xray.                                         *)
(***************************************************************************)
\* What holds of the newest inbound, of a kernel that is stopped, and of a removal that
\* failed, which takes a protocol without a user manager.
ListServed   == running # Nobody => \A i \in Ids \ behind : inbound[i] = users[i]
ClosedAll    == running = Nobody => inbound = Empty
OnlyRestarts == unremoved # {} => running \notin Managed

XrayInv == XrayTypeOK /\ ListServed /\ ClosedAll /\ OnlyRestarts

LEMMA XrayServes == XrayInv => XrayServesUsers
<1> SUFFICES ASSUME XrayInv, NEW i \in Ids \ behind
             PROVE  /\ running # Nobody => inbound[i] = users[i]
                    /\ drains = {} => Accepted(i) \subseteq (IF running = Nobody THEN {} ELSE {users[i]})
  BY DEF XrayServesUsers
<1>1. running # Nobody => inbound[i] = users[i]
  BY DEF XrayInv, ListServed
<1>2. running = Nobody => inbound[i] = Nobody
  BY DEF XrayInv, ClosedAll, Empty
<1>3. drains = {} => Accepted(i) = {inbound[i]} \ {Nobody}
  BY DEF Accepted
<1> QED BY <1>1, <1>2, <1>3

\* The user manager keeps up with a change by which only users that are added or removed
\* change.
LEMMA ManageServes ==
    ASSUME ListServed, running # Nobody, NEW R \in SUBSET Ids, NEW A \in SUBSET Ids, NEW new \in UserLists,
           Manage(R, A, new),
           \A i \in R \ A : new[i] = Nobody,
           \A i \in Ids \ (R \union A) : new[i] = users[i]
    PROVE  ListServed' /\ running' = running
<1> DEFINE left == [i \in Ids |-> IF i \in R THEN Nobody ELSE inbound[i]]
<1>1. PICK refused \in SUBSET A :
         /\ inbound' = [i \in Ids |-> IF i \in A \ refused THEN new[i] ELSE left[i]]
         /\ behind' = (behind \ (R \union A)) \union refused
         /\ users' = new
         /\ UNCHANGED <<running, hashed>>
  BY DEF Manage
<1> SUFFICES ASSUME NEW i \in Ids \ behind' PROVE inbound'[i] = users'[i]
  BY <1>1 DEF ListServed
<1>2. CASE i \in A
  BY <1>1, <1>2
<1>3. CASE i \in R \ A
  BY <1>1, <1>3
<1>4. CASE i \notin R \union A
  <2>1. i \notin behind /\ inbound[i] = users[i]
    BY <1>1, <1>4 DEF ListServed
  <2> QED BY <1>1, <1>4, <2>1
<1> QED BY <1>2, <1>3, <1>4

LEMMA XrayInitServes == XrayInit => XrayInv
BY DEF XrayInit, XrayInv, XrayTypeOK, ListServed, ClosedAll, OnlyRestarts, UserLists, Empty

LEMMA XrayListTypes ==
    ASSUME XrayTypeOK, NEW new \in UserLists, NEW ids \in SUBSET Ids
    PROVE  Merged(new) \in UserLists /\ ListWithout(ids) \in UserLists /\ Empty \in UserLists
BY DEF XrayTypeOK, UserLists, Merged, ListWithout, Empty

\* What keeps the type: an instance put in another's place, and the user manager.
LEMMA SwapTypes ==
    ASSUME XrayTypeOK, NEW config \in Configs, NEW new \in UserLists, Swap(config, new)
    PROVE  /\ running' = config /\ users' = new /\ hashed' = new /\ inbound' = new
           /\ drains' \subseteq UserLists /\ behind' = {}
BY DEF Swap, CloseOld, XrayTypeOK

LEMMA ManageTypes ==
    ASSUME XrayTypeOK, NEW R \in SUBSET Ids, NEW A \in SUBSET Ids, NEW new \in UserLists, Manage(R, A, new)
    PROVE  /\ users' \in UserLists /\ inbound' \in UserLists /\ behind' \subseteq Ids
           /\ UNCHANGED <<running, hashed, drains>>
<1> DEFINE left == [i \in Ids |-> IF i \in R THEN Nobody ELSE inbound[i]]
<1>1. PICK refused \in SUBSET A :
         /\ inbound' = [i \in Ids |-> IF i \in A \ refused THEN new[i] ELSE left[i]]
         /\ behind' = (behind \ (R \union A)) \union refused
         /\ users' = new
         /\ UNCHANGED <<running, hashed, drains>>
  BY DEF Manage
<1>2. inbound' \in UserLists
  BY <1>1 DEF XrayTypeOK, UserLists
<1> QED BY <1>1, <1>2 DEF XrayTypeOK

\* A start, and one that fails.
LEMMA StartKeeps ==
    ASSUME XrayInv, NEW config \in Configs, NEW new \in UserLists, StartKernel(config, new)
    PROVE  XrayInv'
<1>1. CASE StartInstance(config, new)
  <2>1. Swap(config, new) /\ unremoved' = {} /\ config # Nobody
    BY <1>1, XrayKernelConstants DEF StartInstance
  <2>2. /\ running' = config /\ users' = new /\ hashed' = new /\ inbound' = new
        /\ drains' \subseteq UserLists /\ behind' = {}
    BY <2>1, SwapTypes DEF XrayInv
  <2> QED BY <2>1, <2>2 DEF XrayInv, XrayTypeOK, ListServed, ClosedAll, OnlyRestarts
<1>2. CASE unremoved' = {} /\ UNCHANGED <<running, users, hashed, inbound, drains, behind>>
  BY <1>2 DEF XrayInv, XrayTypeOK, ListServed, ClosedAll, OnlyRestarts
<1> QED BY <1>1, <1>2 DEF StartKernel

LEMMA ManageKeeps ==
    ASSUME XrayInv, running # Nobody, NEW R \in SUBSET Ids, NEW A \in SUBSET Ids, NEW new \in UserLists,
           Manage(R, A, new), unremoved' \subseteq unremoved,
           \A i \in R \ A : new[i] = Nobody,
           \A i \in Ids \ (R \union A) : new[i] = users[i]
    PROVE  XrayInv'
<1>1. ListServed' /\ running' = running
  BY ManageServes DEF XrayInv
<1>2. /\ users' \in UserLists /\ inbound' \in UserLists /\ behind' \subseteq Ids
      /\ UNCHANGED <<running, hashed, drains>>
  BY ManageTypes DEF XrayInv
<1>3. XrayTypeOK'
  BY <1>2 DEF XrayInv, XrayTypeOK
<1> QED BY <1>1, <1>3 DEF XrayInv, ClosedAll, OnlyRestarts

\* The end of the kernel.
LEMMA StopKeeps ==
    ASSUME XrayInv, running' = Nobody, inbound' = Empty, unremoved' = {},
           UNCHANGED <<users, hashed, drains, behind>>
    PROVE  XrayInv'
<1>1. Empty \in UserLists
  BY DEF Empty, UserLists
<1> QED BY <1>1 DEF XrayInv, XrayTypeOK, ListServed, ClosedAll, OnlyRestarts

\* A delta keeps what a user has, unless the removal of the user failed just before.
LEMMA AddKeeps ==
    ASSUME XrayInv, NEW delta \in UserLists, AddUsers(delta)
    PROVE  XrayInv'
<1> DEFINE toAdd == Listed(delta) \ Listed(users)
<1>1. /\ running # Nobody /\ running \in Configs /\ Merged(delta) \in UserLists
      /\ toAdd \in SUBSET Ids
  BY XrayListTypes DEF AddUsers, XrayInv, XrayTypeOK, Listed
<1>2. \A i \in Ids \ (toAdd \union unremoved) : Merged(delta)[i] = users[i]
  BY DEF AddUsers, Listed, Merged
<1>3. CASE /\ users' = Merged(delta)
           /\ behind' = behind \union {i \in unremoved : Merged(delta)[i] # inbound[i]}
           /\ unremoved' = {} /\ UNCHANGED <<running, hashed, inbound, drains>>
           /\ toAdd = {}
  <2>1. ListServed'
    <3> SUFFICES ASSUME NEW i \in Ids, i \notin behind' PROVE inbound[i] = Merged(delta)[i]
      BY <1>3 DEF ListServed
    <3>1. CASE i \in unremoved
      BY <1>3, <3>1
    <3>2. CASE i \notin unremoved
      <4>1. inbound[i] = users[i]
        BY <1>1, <1>3 DEF XrayInv, ListServed
      <4> QED BY <1>2, <1>3, <3>2, <4>1
    <3> QED BY <3>1, <3>2
  <2> QED BY <1>1, <1>3, <2>1 DEF XrayInv, XrayTypeOK, ClosedAll, OnlyRestarts
<1>4. CASE running \in Managed /\ Manage({}, toAdd, Merged(delta)) /\ unremoved' = {}
  <2>1. unremoved = {}
    BY <1>4 DEF XrayInv, OnlyRestarts
  <2> QED BY <1>1, <1>2, <1>4, <2>1, ManageKeeps
<1>5. CASE StartKernel(running, Merged(delta))
  BY <1>1, <1>5, StartKeeps
<1> QED BY <1>3, <1>4, <1>5 DEF AddUsers

LEMMA RemoveKeeps ==
    ASSUME XrayInv, NEW ids \in SUBSET Ids, RemoveUsers(ids)
    PROVE  XrayInv'
<1>1. running # Nobody /\ running \in Configs /\ ListWithout(ids) \in UserLists
  BY XrayListTypes DEF RemoveUsers, XrayInv, XrayTypeOK, UserLists
<1>2. CASE /\ running' = Nobody /\ inbound' = Empty /\ unremoved' = {}
           /\ UNCHANGED <<users, hashed, drains, behind>>
  BY <1>2, StopKeeps
<1>3. CASE Manage(ids, {}, ListWithout(ids)) /\ unremoved' = unremoved \ ids
  <2>1. /\ \A i \in ids : ListWithout(ids)[i] = Nobody
        /\ \A i \in Ids \ ids : ListWithout(ids)[i] = users[i]
    BY DEF ListWithout
  <2> QED BY <1>1, <1>3, <2>1, ManageKeeps
<1>4. CASE running \notin Managed /\ Swap(running, ListWithout(ids)) /\ unremoved' = unremoved \ ids
  <2>1. /\ running' = running /\ users' = ListWithout(ids) /\ hashed' = ListWithout(ids)
        /\ inbound' = ListWithout(ids) /\ drains' \subseteq UserLists /\ behind' = {}
    BY <1>1, <1>4, SwapTypes DEF XrayInv
  <2> QED BY <1>1, <1>4, <2>1 DEF XrayInv, XrayTypeOK, ListServed, ClosedAll, OnlyRestarts
<1>5. CASE /\ running \notin Managed
           /\ unremoved' = unremoved \union (ids \intersect Listed(users))
           /\ UNCHANGED <<running, users, hashed, inbound, drains, behind>>
  BY <1>1, <1>5 DEF XrayInv, XrayTypeOK, ListServed, ClosedAll, OnlyRestarts
<1> QED BY <1>2, <1>3, <1>4, <1>5 DEF RemoveUsers

LEMMA XrayInvNext == XrayInv /\ [XrayNext]_xkernel => XrayInv'
<1> SUFFICES ASSUME XrayInv, [XrayNext]_xkernel PROVE XrayInv'
  OBVIOUS
<1>1. CASE UNCHANGED xkernel
  BY <1>1 DEF xkernel, XrayInv, XrayTypeOK, ListServed, ClosedAll, OnlyRestarts
<1>2. ASSUME NEW config \in Configs, NEW new \in UserLists, NEW cert \in BOOLEAN,
             StartInstance(config, new) \/ Reload(config, new, cert)
      PROVE  XrayInv'
  <2>1. CASE StartKernel(config, new)
    BY <2>1, StartKeeps
  <2>2. CASE /\ users' = new /\ behind' = {i \in Ids : inbound[i] # new[i]} /\ unremoved' = {}
             /\ UNCHANGED <<running, hashed, inbound, drains>>
    BY <2>2 DEF XrayInv, XrayTypeOK, ListServed, ClosedAll, OnlyRestarts
  <2> QED BY <1>2, <2>1, <2>2 DEF Reload, StartKernel
<1>3. ASSUME NEW new \in UserLists, UpdateUsers(new) PROVE XrayInv'
  <2>1. running # Nobody /\ running \in Configs
    BY <1>3 DEF UpdateUsers, XrayInv, XrayTypeOK
  <2>2. CASE Manage(ToRemove(users, new), ToAdd(users, new), new) /\ unremoved' = {}
    <3>1. \A i \in Ids \ (ToRemove(users, new) \union ToAdd(users, new)) : new[i] = users[i]
      BY DEF ToRemove, ToAdd, Listed
    <3>2. \A i \in ToRemove(users, new) : new[i] = Nobody
      BY DEF ToRemove, Listed
    <3>3. ToRemove(users, new) \in SUBSET Ids /\ ToAdd(users, new) \in SUBSET Ids
      BY DEF ToRemove, ToAdd, Listed
    <3> QED BY <2>1, <2>2, <3>1, <3>2, <3>3, ManageKeeps
  <2>3. CASE unremoved' = {} /\ UNCHANGED <<running, users, hashed, inbound, drains, behind>>
    BY <2>3 DEF XrayInv, XrayTypeOK, ListServed, ClosedAll, OnlyRestarts
  <2>4. CASE StartKernel(running, new)
    BY <2>1, <2>4, StartKeeps
  <2> QED BY <1>3, <2>2, <2>3, <2>4 DEF UpdateUsers
<1>4. CASE Stop
  BY <1>4, StopKeeps DEF Stop
<1>5. ASSUME NEW old \in UserLists, Recycle(old) PROVE XrayInv'
  BY <1>5 DEF Recycle, XrayInv, XrayTypeOK, ListServed, ClosedAll, OnlyRestarts
<1> QED BY <1>1, <1>2, <1>3, <1>4, <1>5, AddKeeps, RemoveKeeps DEF XrayNext

\* No sequence of starts, reloads, lists and deltas leaves a user of an embedded xray
\* behind, but for a refused change, a list Reload took for served and a UUID written over
\* a removal that failed, and nothing else is accepted once the replaced instances are
\* closed.
THEOREM XrayUsersServed == XraySpec => []XrayServesUsers
<1> QED BY XrayServes, XrayInitServes, XrayInvNext, PTL DEF XraySpec

-----------------------------------------------------------------------------
(***************************************************************************)
(* The certificate of a node.                                              *)
(***************************************************************************)
\* A worker that is idle knows of no renewal: what the flag said was passed on with the
\* result, or is forgotten.
NothingHeldBack == pull.at = "idle" => ~pull.cert

CertInv == CertTypeOK /\ NothingHeldBack /\ RenewalNoticed

\* The manager takes material within the bound, and keeps its type whatever it is told.
LEMMA StoreTyped ==
    ASSUME CertTypeOK, StorePEM
    PROVE  mat' \in Certs /\ disk' \in Certs /\ issued' \in Certs
BY CertConstants DEF CertTypeOK, Certs, StorePEM

LEMMA ReconfigureTyped ==
    ASSUME CertTypeOK, NEW mode \in Modes, Reconfigure(mode)
    PROVE  acme' \in Acmes \union {Off} /\ mat' \in Certs /\ disk' \in Certs /\ issued' \in Certs
<1>1. 0 \in Certs /\ acme \in Acmes \union {Off} /\ mat \in Certs /\ disk \in Certs /\ issued \in Certs
  BY CertConstants DEF CertTypeOK, Certs
<1> DEFINE left == IF acme \notin {Off, mode} THEN 0 ELSE mat
<1>2. left \in Certs
  BY <1>1
<1> HIDE DEF left
<1>3. CASE mode \in Acmes
  <2>1. CASE acme = mode
    BY <1>1, <1>3, <2>1 DEF Reconfigure
  <2>2. CASE acme # mode
    <3>1. StartACME(mode, left)
      BY <1>3, <2>2 DEF Reconfigure, left
    <3> QED BY <1>1, <1>2, <1>3, <3>1, StoreTyped DEF StartACME, Stores
  <2> QED BY <2>1, <2>2
<1>4. CASE mode \notin Acmes
  <2>1. acme' = Off /\ Start(mode, left)
    BY <1>4 DEF Reconfigure, left
  <2> QED BY <1>1, <1>2, <2>1, StoreTyped DEF Start, Stores
<1> QED BY <1>3, <1>4

LEMMA CertInvInit == CertInit => CertInv
<1> SUFFICES ASSUME CertInit PROVE CertInv
  OBVIOUS
<1>1. 0 \in Certs /\ 1 \in Certs
  BY CertConstants DEF Certs
<1>2. pull \in [at : {"idle", "polling", "answered"}, cert : BOOLEAN, config : Modes \union {Off}]
  BY DEF CertInit, NoPull
<1>3. CertTypeOK
  BY <1>1, <1>2 DEF CertInit, CertTypeOK
<1>4. ~pull.cert
  BY DEF CertInit, NoPull
<1> QED BY <1>3, <1>4 DEF CertInit, CertInv, NothingHeldBack, RenewalNoticed

LEMMA CertTypes == CertInv /\ [CertNext]_certificate => CertTypeOK'
<1> SUFFICES ASSUME CertTypeOK, [CertNext]_certificate PROVE CertTypeOK'
  BY DEF CertInv
<1> DEFINE Pulls == [at : {"idle", "polling", "answered"}, cert : BOOLEAN, config : Modes \union {Off}]
<1>1. /\ acme \in Acmes \union {Off} /\ mat \in Certs /\ disk \in Certs /\ issued \in Certs
      /\ renewed \in BOOLEAN /\ busy \in BOOLEAN /\ forgotten \in BOOLEAN
      /\ event \in [Renewers -> {"idle", "begun", "stored"}]
      /\ pull \in Pulls /\ served \in Certs \union {Off}
  BY DEF CertTypeOK
<1>2. NoPull \in Pulls
  BY DEF NoPull
<1>3. ASSUME NEW r \in Renewers, Obtained(r) \/ LoadRenewed(r) \/ Flag(r) PROVE CertTypeOK'
  <2>1. mat' \in Certs /\ disk' \in Certs /\ issued' \in Certs
    BY <1>1, <1>3, StoreTyped DEF Obtained, LoadRenewed, Flag
  <2> QED BY <1>1, <1>3, <2>1 DEF CertTypeOK, Obtained, LoadRenewed, Flag
<1>4. CASE PullViaAPI
  <2>1. pull' \in Pulls
    <3>1. [NoPull EXCEPT !.at = "polling", !.cert = renewed] \in Pulls
      BY <1>1 DEF NoPull
    <3> QED BY <1>4, <3>1 DEF PullViaAPI
  <2> QED BY <1>1, <1>4, <2>1 DEF CertTypeOK, PullViaAPI
<1>5. CASE PollFails
  BY <1>1, <1>2, <1>5 DEF CertTypeOK, PollFails
<1>6. CASE PollAnswers
  BY <1>1, <1>6 DEF CertTypeOK, PollAnswers
<1>7. CASE ApplyPullResult
  <2>1. acme' \in Acmes \union {Off} /\ mat' \in Certs /\ disk' \in Certs /\ issued' \in Certs
    <3>1. pull.config \in Modes \union {Off}
      BY <1>1
    <3> QED BY <1>1, <1>7, <3>1, ReconfigureTyped DEF ApplyPullResult
  <2>2. busy' \in BOOLEAN
    <3>1. pull.cert \in BOOLEAN
      BY <1>1
    <3> QED BY <1>7, <3>1 DEF ApplyPullResult
  <2> QED BY <1>1, <1>2, <1>7, <2>1, <2>2 DEF CertTypeOK, ApplyPullResult
<1>8. ASSUME NEW mode \in Modes, ApplyWSConfig(mode) PROVE CertTypeOK'
  BY <1>1, <1>8, ReconfigureTyped DEF CertTypeOK, ApplyWSConfig
<1>9. CASE ApplyChanges
  BY <1>1, <1>9 DEF CertTypeOK, ApplyChanges
<1>10. CASE KernelStarts \/ KernelStops
  BY <1>1, <1>10 DEF CertTypeOK, KernelStarts, KernelStops
<1>11. CASE UNCHANGED certificate
  BY <1>1, <1>11 DEF CertTypeOK, certificate
<1> QED BY <1>3, <1>4, <1>5, <1>6, <1>7, <1>8, <1>9, <1>10, <1>11 DEF CertNext

LEMMA CertInvNext == CertInv /\ [CertNext]_certificate => CertInv'
<1> SUFFICES ASSUME CertInv, [CertNext]_certificate PROVE CertInv'
  OBVIOUS
<1>1. CertTypeOK /\ NothingHeldBack /\ RenewalNoticed /\ CertTypeOK'
  BY CertTypes DEF CertInv
<1> DEFINE known == pull.cert
           Kept  == NothingHeldBack' /\ RenewalNoticed'
<1>2. /\ pull.at \in {"idle", "polling", "answered"} /\ known \in BOOLEAN
      /\ event \in [Renewers -> {"idle", "begun", "stored"}]
      /\ renewed \in BOOLEAN /\ busy \in BOOLEAN /\ forgotten \in BOOLEAN
  BY <1>1 DEF CertTypeOK
<1>3. /\ pull.at = "idle" => ~known
      /\ \/ served \in {mat, Off} \/ busy \/ renewed \/ known \/ forgotten
         \/ \E r \in Renewers : event[r] = "stored"
  BY <1>1 DEF NothingHeldBack, RenewalNoticed
<1>4. ASSUME UNCHANGED pull PROVE known' = known /\ (NothingHeldBack' <=> NothingHeldBack)
  BY <1>4 DEF NothingHeldBack
<1>5. NoPull.at = "idle" /\ ~NoPull.cert
  BY DEF NoPull
<1>6. ASSUME NEW r \in Renewers, Obtained(r) PROVE Kept
  <2>1. UNCHANGED <<mat, renewed, pull, busy, served, forgotten>> /\ event[r] = "idle"
        /\ event' = [event EXCEPT ![r] = "begun"]
    BY <1>6 DEF Obtained
  <2>2. \A q \in Renewers : event[q] = "stored" => event'[q] = "stored"
    BY <1>2, <2>1
  <2> QED BY <1>1, <1>4, <2>1, <2>2 DEF NothingHeldBack, RenewalNoticed
<1>7. ASSUME NEW r \in Renewers, LoadRenewed(r) PROVE Kept
  <2>1. UNCHANGED <<renewed, pull, busy, served, forgotten>> /\ event[r] = "begun"
    BY <1>7 DEF LoadRenewed
  <2>2. CASE event' = [event EXCEPT ![r] = "stored"]
    <3>1. event'[r] = "stored"
      BY <1>2, <2>2
    <3> QED BY <1>1, <1>4, <2>1, <3>1 DEF NothingHeldBack, RenewalNoticed
  <2>3. CASE event' = [event EXCEPT ![r] = "idle"] /\ UNCHANGED mat
    <3>1. \A q \in Renewers : event[q] = "stored" => event'[q] = "stored"
      BY <1>2, <2>1, <2>3
    <3> QED BY <1>1, <1>4, <2>1, <2>3, <3>1 DEF NothingHeldBack, RenewalNoticed
  <2> QED BY <1>7, <2>2, <2>3 DEF LoadRenewed
<1>8. ASSUME NEW r \in Renewers, Flag(r) PROVE Kept
  BY <1>1, <1>4, <1>8 DEF Flag, NothingHeldBack, RenewalNoticed
<1>9. ASSUME PullViaAPI PROVE Kept
  <2>1. /\ pull' = [NoPull EXCEPT !.at = "polling", !.cert = renewed]
        /\ ~busy /\ pull.at = "idle"
        /\ UNCHANGED <<mat, event, busy, served, forgotten>>
    BY <1>9 DEF PullViaAPI
  <2>2. pull'.at = "polling" /\ known' = renewed
    BY <2>1 DEF NoPull
  <2> QED BY <1>3, <2>1, <2>2 DEF NothingHeldBack, RenewalNoticed
<1>10. ASSUME PollFails PROVE Kept
  <2>1. /\ pull' = NoPull /\ forgotten' = (forgotten \/ known)
        /\ UNCHANGED <<mat, renewed, event, busy, served>>
    BY <1>10 DEF PollFails
  <2> QED BY <1>3, <1>5, <2>1 DEF NothingHeldBack, RenewalNoticed
<1>11. ASSUME PollAnswers PROVE Kept
  <2>1. PICK config \in Modes \union {Off} : pull' = [pull EXCEPT !.at = "answered", !.config = config]
    BY <1>11 DEF PollAnswers
  <2> HIDE DEF Kept
  <2>2. pull \in [at : {"idle", "polling", "answered"}, cert : BOOLEAN, config : Modes \union {Off}]
    BY <1>1 DEF CertTypeOK
  <2>4. pull'.at = "answered" /\ known' = known
    BY ONLY <2>1, <2>2
  <2>3. UNCHANGED <<mat, renewed, event, busy, served, forgotten>>
    BY <1>11 DEF PollAnswers
  <2> QED BY <1>3, <2>3, <2>4 DEF Kept, NothingHeldBack, RenewalNoticed
<1>12. ASSUME ApplyPullResult PROVE Kept
  <2>1. pull' = NoPull /\ UNCHANGED <<renewed, event, served, forgotten>> /\ ~busy
    BY <1>12 DEF ApplyPullResult
  <2>2. (busy' = TRUE) \/ (UNCHANGED mat /\ busy' = known)
    BY <1>12, Zenon DEF ApplyPullResult
  <2> QED BY <1>3, <1>5, <2>1, <2>2 DEF NothingHeldBack, RenewalNoticed
<1>13. ASSUME NEW mode \in Modes, ApplyWSConfig(mode) PROVE Kept
  BY <1>1, <1>4, <1>13 DEF ApplyWSConfig, NothingHeldBack, RenewalNoticed
<1>14. ASSUME ApplyChanges \/ KernelStarts \/ KernelStops PROVE Kept
  BY <1>1, <1>4, <1>14 DEF ApplyChanges, KernelStarts, KernelStops, NothingHeldBack, RenewalNoticed
<1>15. ASSUME UNCHANGED certificate PROVE Kept
  BY <1>1, <1>4, <1>15 DEF certificate, NothingHeldBack, RenewalNoticed
<1>16. Kept
  BY <1>6, <1>7, <1>8, <1>9, <1>10, <1>11, <1>12, <1>13, <1>14, <1>15 DEF CertNext
<1> QED BY <1>1, <1>16 DEF CertInv

\* The kernel serves the manager's material, is down, or will be told: neither the order
\* of a renewal and the flag it sets, of a pull and the result that is applied, nor a
\* configuration in between loses a renewal, but a poll that fails with the flag in hand,
\* and a reload and a start that both fail and leave the old instance.
THEOREM RenewalsNoticed == CertSpec => []RenewalNoticed
<1>1. CertInv => RenewalNoticed
  BY DEF CertInv
<1> QED BY <1>1, CertInvInit, CertInvNext, PTL DEF CertSpec

-----------------------------------------------------------------------------
(***************************************************************************)
(* The device limits of the xray kernel.                                   *)
(***************************************************************************)
LEMMA XFields ==
    ASSUME NEW k \in XConn
    PROVE  /\ k.at \in XStages /\ k.user \in Users \union {None} /\ k.addr \in Addrs \union {None}
           /\ k.udp \in BOOLEAN /\ k.holds \in {"nothing", "counter", "slot"} /\ k.stray \in BOOLEAN
BY DEF XConn

LEMMA XFreeFields ==
    /\ XFree \in XConn /\ XFree.at = "free" /\ XFree.user = None /\ XFree.addr = None
    /\ XFree.udp = FALSE /\ XFree.holds = "nothing" /\ XFree.stray = FALSE
BY BaseConstants DEF XFree, XConn, XStages

\* What the steps make of a connection.
LEMMA XMoved ==
    ASSUME NEW k \in XConn, NEW s \in XStages
    PROVE  LET m == [k EXCEPT !.at = s]
           IN  /\ m \in XConn /\ m.at = s /\ m.user = k.user /\ m.addr = k.addr
               /\ m.udp = k.udp /\ m.holds = k.holds /\ m.stray = k.stray
BY DEF XConn

\* A connection that takes a limit along, or leaves the one it had.
LEMMA XMovedLimit ==
    ASSUME NEW k \in XConn, NEW s \in XStages, NEW n \in DeviceLimits
    PROVE  LET m == [k EXCEPT !.at = s, !.limit = n]
           IN  /\ m \in XConn /\ m.at = s /\ m.user = k.user /\ m.addr = k.addr
               /\ m.udp = k.udp /\ m.holds = k.holds /\ m.stray = k.stray
BY DEF XConn

LEMMA XSlotTaken ==
    ASSUME NEW k \in XConn, NEW h \in {"nothing", "counter", "slot"}
    PROVE  LET m == [k EXCEPT !.at = "admitted", !.limit = 0, !.holds = h]
           IN  /\ m \in XConn /\ m.at = "admitted" /\ m.user = k.user /\ m.addr = k.addr
               /\ m.udp = k.udp /\ m.holds = h /\ m.stray = k.stray
BY BaseConstants DEF XConn, XStages

LEMMA XCounted ==
    ASSUME NEW k \in XConn, NEW h \in {"nothing", "counter", "slot"}
    PROVE  LET m == [k EXCEPT !.at = "admitted", !.holds = h]
           IN  /\ m \in XConn /\ m.at = "admitted" /\ m.user = k.user /\ m.addr = k.addr
               /\ m.udp = k.udp /\ m.holds = h /\ m.stray = k.stray
BY DEF XConn, XStages

LEMMA XStrayed ==
    ASSUME NEW k \in XConn
    PROVE  LET m == [k EXCEPT !.stray = TRUE]
           IN  /\ m \in XConn /\ m.at = k.at /\ m.user = k.user /\ m.addr = k.addr
               /\ m.udp = k.udp /\ m.holds = k.holds /\ m.stray = TRUE
BY DEF XConn

\* The tables, without the connections.
XTables ==
    /\ xlimits \in [Users -> DeviceLimits] /\ xentered \subseteq Users /\ xmapped \subseteq Users
    /\ xfree \in [Users -> [Addrs -> Int \union {None}]]
    /\ xslots \in [Users -> [Addrs -> Nat]]
    /\ xcrashed \in BOOLEAN
    /\ xlost \subseteq Users \X Addrs

XWhose(k) == k.at # "free" => k.user \in Users /\ k.addr \in Addrs

LEMMA XTyped ==
    XTypeOK <=> XTables /\ xconn \in [Conns -> XConn] /\ \A c \in Conns : XWhose(xconn[c])
BY DEF XTypeOK, XTables, XWhose

\* One connection changes.
LEMMA XOneTyped ==
    ASSUME XTypeOK, XTables', NEW c \in Conns, NEW k \in XConn, XWhose(k), XBecomes(c, k)
    PROVE  XTypeOK'
<1>1. xconn' \in [Conns -> XConn] /\ \A d \in Conns : xconn'[d] = IF d = c THEN k ELSE xconn[d]
  BY XTyped DEF XBecomes
<1>2. \A d \in Conns : XWhose(xconn'[d])
  BY <1>1, XTyped
<1> QED BY <1>1, <1>2 DEF XTypeOK, XTables, XWhose

\* Where the connection is not counted, or is told from the others by nothing yet.
XQuiet == {"free", "new", "fast", "entered", "counter", "slow", "known", "room", "full", "lowered"}

XShape(k) ==
    /\ k.at \in XQuiet \/ k.udp = TRUE => k.holds = "nothing"
    /\ k.at \in {"fast", "entered", "counter", "closing"} => k.udp = FALSE
    /\ k.at \in {"admitted", "open", "closing"} /\ k.udp = FALSE => k.holds # "nothing"
    /\ k.at = "unslot" => k.holds = "slot"

XCounts(k) == k.at = "counter" \/ k.holds = "counter"

\* The counter a connection has found is in the map, or known to be lost.
XFound(k, entered, free, lost) ==
    /\ k.at = "entered" \/ XCounts(k) => k.user \in entered
    /\ XCounts(k) => k.stray = TRUE \/ free[k.user][k.addr] # None
    /\ k.stray = TRUE => <<k.user, k.addr>> \in lost

XConnsGood == \A c \in Conns : XShape(xconn[c]) /\ XFound(xconn[c], xentered, xfree, xlost)

XInv == XTypeOK /\ XConnsGood /\ XSlotsAccounted /\ XCountersAgree

LEMMA XSpotted ==
    ASSUME XTypeOK, NEW c \in Conns, xconn[c].at # "free"
    PROVE  xconn[c] \in XConn /\ xconn[c].user \in Users /\ xconn[c].addr \in Addrs
BY DEF XTypeOK

LEMMA XHoldersFinite ==
    ASSUME NEW u \in Users, NEW a \in Addrs
    PROVE  /\ IsFiniteSet(XSlotHolders(u, a)) /\ Cardinality(XSlotHolders(u, a)) \in Nat
           /\ IsFiniteSet(XCounterHolders(u, a)) /\ Cardinality(XCounterHolders(u, a)) \in Nat
<1>1. XSlotHolders(u, a) \in SUBSET Conns /\ XCounterHolders(u, a) \in SUBSET Conns
  BY DEF XSlotHolders, XCounterHolders
<1> QED BY <1>1, BaseConstants, FS_Subset, FS_CardinalityType

LEMMA XCountAfter ==
    ASSUME NEW S, IsFiniteSet(S), NEW x
    PROVE  /\ Cardinality(S \union {x}) = Cardinality(S) + 1 - (IF x \in S THEN 1 ELSE 0)
           /\ Cardinality(S \ {x}) = Cardinality(S) - (IF x \in S THEN 1 ELSE 0)
           /\ x \in S => Cardinality(S) >= 1
<1>1. Cardinality(S) \in Nat
  BY FS_CardinalityType
<1>2. Cardinality(S \union {x}) = IF x \in S THEN Cardinality(S) ELSE Cardinality(S) + 1
  BY FS_AddElement
<1>3. Cardinality(S \ {x}) = IF x \in S THEN Cardinality(S) - 1 ELSE Cardinality(S)
  BY FS_RemoveElement
<1>4. x \in S => Cardinality(S) # 0
  BY FS_EmptySet
<1> QED BY <1>1, <1>2, <1>3, <1>4

XIn(k, what, u, a) == k.holds = what /\ k.user = u /\ k.addr = a
XOne(k, what, u, a) == IF XIn(k, what, u, a) THEN 1 ELSE 0

\* What becomes of those who hold a slot, and of those who hold a counter.
LEMMA XHoldersAfter ==
    ASSUME XTypeOK, NEW c \in Conns, NEW k \in XConn, XBecomes(c, k),
           NEW u \in Users, NEW a \in Addrs
    PROVE  /\ Cardinality(XSlotHolders(u, a)') =
                  Cardinality(XSlotHolders(u, a)) + XOne(k, "slot", u, a) - XOne(xconn[c], "slot", u, a)
           /\ Cardinality(XCounterHolders(u, a)') =
                  Cardinality(XCounterHolders(u, a)) + XOne(k, "counter", u, a) - XOne(xconn[c], "counter", u, a)
<1>1. \A d \in Conns : xconn'[d] = IF d = c THEN k ELSE xconn[d]
  BY DEF XBecomes, XTypeOK
<1>2. /\ IsFiniteSet(XSlotHolders(u, a)) /\ Cardinality(XSlotHolders(u, a)) \in Nat
      /\ IsFiniteSet(XCounterHolders(u, a)) /\ Cardinality(XCounterHolders(u, a)) \in Nat
  BY XHoldersFinite
<1>3. /\ c \in XSlotHolders(u, a) <=> XIn(xconn[c], "slot", u, a)
      /\ c \in XCounterHolders(u, a) <=> XIn(xconn[c], "counter", u, a)
  BY DEF XSlotHolders, XCounterHolders, XIn
<1>4. XSlotHolders(u, a)' = IF XIn(k, "slot", u, a) THEN XSlotHolders(u, a) \union {c}
                            ELSE XSlotHolders(u, a) \ {c}
  <2>1. XSlotHolders(u, a)' = {d \in Conns : XIn(xconn'[d], "slot", u, a)}
    BY DEF XSlotHolders, XIn
  <2>2. XSlotHolders(u, a) = {d \in Conns : XIn(xconn[d], "slot", u, a)}
    BY DEF XSlotHolders, XIn
  <2> QED BY <1>1, <2>1, <2>2
<1>5. XCounterHolders(u, a)' = IF XIn(k, "counter", u, a) THEN XCounterHolders(u, a) \union {c}
                               ELSE XCounterHolders(u, a) \ {c}
  <2>1. XCounterHolders(u, a)' = {d \in Conns : XIn(xconn'[d], "counter", u, a)}
    BY DEF XCounterHolders, XIn
  <2>2. XCounterHolders(u, a) = {d \in Conns : XIn(xconn[d], "counter", u, a)}
    BY DEF XCounterHolders, XIn
  <2> QED BY <1>1, <2>1, <2>2
<1> DEFINE S == XSlotHolders(u, a)
           C == XCounterHolders(u, a)
<1>6. /\ Cardinality(S \union {c}) = Cardinality(S) + 1 - (IF c \in S THEN 1 ELSE 0)
      /\ Cardinality(S \ {c}) = Cardinality(S) - (IF c \in S THEN 1 ELSE 0)
  BY <1>2, XCountAfter
<1>7. /\ Cardinality(C \union {c}) = Cardinality(C) + 1 - (IF c \in C THEN 1 ELSE 0)
      /\ Cardinality(C \ {c}) = Cardinality(C) - (IF c \in C THEN 1 ELSE 0)
  BY <1>2, XCountAfter
<1>8. XOne(k, "slot", u, a) \in {0, 1} /\ XOne(k, "counter", u, a) \in {0, 1}
  BY DEF XOne
<1>9. Cardinality(XSlotHolders(u, a)') =
         Cardinality(S) + XOne(k, "slot", u, a) - XOne(xconn[c], "slot", u, a)
  BY <1>2, <1>3, <1>4, <1>6 DEF XOne
<1>10. Cardinality(XCounterHolders(u, a)') =
         Cardinality(C) + XOne(k, "counter", u, a) - XOne(xconn[c], "counter", u, a)
  BY <1>2, <1>3, <1>5, <1>7 DEF XOne
<1> QED BY <1>9, <1>10

\* What a connection holds is still there to be given back.
LEMMA XHeld ==
    ASSUME NEW c \in Conns, NEW u \in Users, NEW a \in Addrs
    PROVE  /\ XIn(xconn[c], "slot", u, a) => Cardinality(XSlotHolders(u, a)) >= 1
           /\ XIn(xconn[c], "counter", u, a) => Cardinality(XCounterHolders(u, a)) >= 1
<1>1. /\ c \in XSlotHolders(u, a) <=> XIn(xconn[c], "slot", u, a)
      /\ c \in XCounterHolders(u, a) <=> XIn(xconn[c], "counter", u, a)
  BY DEF XSlotHolders, XCounterHolders, XIn
<1>2. IsFiniteSet(XSlotHolders(u, a)) /\ IsFiniteSet(XCounterHolders(u, a))
  BY XHoldersFinite
<1>3. c \in XSlotHolders(u, a) => Cardinality(XSlotHolders(u, a)) >= 1
  BY <1>2, XCountAfter
<1>4. c \in XCounterHolders(u, a) => Cardinality(XCounterHolders(u, a)) >= 1
  BY <1>2, XCountAfter
<1> QED BY <1>1, <1>3, <1>4

LEMMA XOneGood ==
    ASSUME XTypeOK, XConnsGood, NEW c \in Conns, NEW k \in XConn, XBecomes(c, k),
           XShape(k), XFound(k, xentered', xfree', xlost'),
           xentered \subseteq xentered', xlost \subseteq xlost',
           \A u \in Users, a \in Addrs : xfree[u][a] # None => xfree'[u][a] # None
    PROVE  XConnsGood'
<1>1. \A d \in Conns : xconn'[d] = IF d = c THEN k ELSE xconn[d]
  BY DEF XBecomes, XTypeOK
<1>2. \A d \in Conns : XShape(xconn'[d])
  BY <1>1 DEF XConnsGood
<1>3. ASSUME NEW d \in Conns, d # c PROVE XFound(xconn[d], xentered', xfree', xlost')
  <2>1. XShape(xconn[d]) /\ XFound(xconn[d], xentered, xfree, xlost)
    BY DEF XConnsGood
  <2>2. XCounts(xconn[d]) => xconn[d].at # "free"
    BY <2>1 DEF XCounts, XShape, XQuiet
  <2>3. XCounts(xconn[d]) => xconn[d].user \in Users /\ xconn[d].addr \in Addrs
    BY <2>2, XSpotted
  <2> QED BY <2>1, <2>3 DEF XFound
<1>4. \A d \in Conns : XFound(xconn'[d], xentered', xfree', xlost')
  BY <1>1, <1>3
<1> QED BY <1>2, <1>4 DEF XConnsGood, XShape, XFound, XCounts

XCount(u, a) == IF xfree[u][a] = None THEN 0 ELSE xfree[u][a]

LEMMA XAgreeIs ==
    /\ XCountersAgree <=>
           \A u \in Users, a \in Addrs :
               <<u, a>> \notin xlost => Cardinality(XCounterHolders(u, a)) = XCount(u, a)
    /\ XCountersAgree' <=>
           \A u \in Users, a \in Addrs :
               <<u, a>> \notin xlost' => Cardinality(XCounterHolders(u, a)') = XCount(u, a)'
    /\ XSlotsAccounted' <=>
           \A u \in Users, a \in Addrs :
               /\ xslots'[u][a] >= Cardinality(XSlotHolders(u, a)')
               /\ u \notin xentered' => xslots'[u][a] = Cardinality(XSlotHolders(u, a)')
<1>1. \A u, a : XCounterHolders(u, a)' = {c \in Conns : xconn'[c].holds = "counter" /\ xconn'[c].user = u /\ xconn'[c].addr = a}
  BY DEF XCounterHolders
<1>2. \A u, a : XSlotHolders(u, a)' = {c \in Conns : xconn'[c].holds = "slot" /\ xconn'[c].user = u /\ xconn'[c].addr = a}
  BY DEF XSlotHolders
<1>3. \A u, a : XCount(u, a)' = IF xfree'[u][a] = None THEN 0 ELSE xfree'[u][a]
  BY DEF XCount
<1>4. XCountersAgree <=>
           \A u \in Users, a \in Addrs :
               <<u, a>> \notin xlost => Cardinality(XCounterHolders(u, a)) = XCount(u, a)
  BY DEF XCountersAgree, XCount
<1>5. XCountersAgree' <=>
           \A u \in Users, a \in Addrs :
               <<u, a>> \notin xlost' => Cardinality(XCounterHolders(u, a)') = XCount(u, a)'
  BY <1>1, <1>3 DEF XCountersAgree, XCounterHolders
<1>6. XSlotsAccounted' <=>
           \A u \in Users, a \in Addrs :
               /\ xslots'[u][a] >= Cardinality(XSlotHolders(u, a)')
               /\ u \notin xentered' => xslots'[u][a] = Cardinality(XSlotHolders(u, a)')
  BY <1>2 DEF XSlotsAccounted, XSlotHolders
<1> QED BY <1>4, <1>5, <1>6

\* A step in which a connection takes nothing and gives nothing back.
LEMMA XNothingTaken ==
    ASSUME XInv, NEW c \in Conns, NEW k \in XConn, XBecomes(c, k),
           UNCHANGED <<xslots, xfree, xlost>>, xentered \subseteq xentered', XTables',
           XWhose(k), XShape(k), XFound(k, xentered', xfree, xlost),
           \/ k.holds = "nothing" /\ xconn[c].holds = "nothing"
           \/ k.holds = xconn[c].holds /\ k.user = xconn[c].user /\ k.addr = xconn[c].addr
    PROVE  XInv'
<1>1. XTypeOK'
  BY XOneTyped DEF XInv
<1>2. XConnsGood'
  BY XOneGood DEF XInv
<1>3. ASSUME NEW u \in Users, NEW a \in Addrs
      PROVE  /\ Cardinality(XSlotHolders(u, a)') = Cardinality(XSlotHolders(u, a))
             /\ Cardinality(XCounterHolders(u, a)') = Cardinality(XCounterHolders(u, a))
             /\ XCount(u, a)' = XCount(u, a)
  <2>1. /\ XOne(k, "slot", u, a) = XOne(xconn[c], "slot", u, a)
        /\ XOne(k, "counter", u, a) = XOne(xconn[c], "counter", u, a)
        /\ XOne(k, "slot", u, a) \in {0, 1} /\ XOne(k, "counter", u, a) \in {0, 1}
    BY DEF XOne, XIn
  <2>2. XCount(u, a)' = XCount(u, a)
    BY DEF XCount
  <2>3. /\ Cardinality(XSlotHolders(u, a)') =
               Cardinality(XSlotHolders(u, a)) + XOne(k, "slot", u, a) - XOne(xconn[c], "slot", u, a)
        /\ Cardinality(XCounterHolders(u, a)') =
               Cardinality(XCounterHolders(u, a)) + XOne(k, "counter", u, a) - XOne(xconn[c], "counter", u, a)
    BY XHoldersAfter DEF XInv
  <2>4. Cardinality(XSlotHolders(u, a)) \in Nat /\ Cardinality(XCounterHolders(u, a)) \in Nat
    BY XHoldersFinite
  <2> QED BY <2>1, <2>2, <2>3, <2>4
<1>4. XSlotsAccounted'
  BY <1>3, XAgreeIs DEF XInv, XSlotsAccounted
<1>5. XCountersAgree'
  BY <1>3, XAgreeIs DEF XInv
<1> QED BY <1>1, <1>2, <1>4, <1>5 DEF XInv

\* What the invariant says of one connection.
LEMMA XOf1 ==
    ASSUME XInv, NEW c \in Conns
    PROVE  /\ XTypeOK /\ XTables /\ XConnsGood /\ XSlotsAccounted /\ XCountersAgree
           /\ xconn[c] \in XConn /\ XWhose(xconn[c])
           /\ XShape(xconn[c]) /\ XFound(xconn[c], xentered, xfree, xlost)
BY XTyped DEF XInv, XConnsGood

LEMMA XBegins ==
    ASSUME XInv, NEW c \in Conns
    PROVE  /\ (\E u \in Users, a \in Addrs, udp \in BOOLEAN : XArrive(c, u, a, udp)) => XInv'
           /\ XRejectByACL(c) => XInv'
           /\ XReadLimit(c) => XInv'
           /\ XEnter(c) => XInv'
<1> USE XOf1
<1>1. ASSUME NEW u \in Users, NEW a \in Addrs, NEW udp \in BOOLEAN, XArrive(c, u, a, udp) PROVE XInv'
  <2> DEFINE m == [XFree EXCEPT !.at = "new", !.user = u, !.addr = a, !.udp = udp]
  <2>1. "new" \in XStages
    BY DEF XStages
  <2>2. /\ m \in XConn /\ m.at = "new" /\ m.user = u /\ m.addr = a
        /\ m.holds = "nothing" /\ m.stray = FALSE
    BY BaseConstants DEF XFree, XConn, XStages
  <2>3. XBecomes(c, m) /\ xconn[c].at = "free" /\ UNCHANGED <<xlimits, xentered, xfree, xslots, xmapped, xcrashed, xlost>>
    BY <1>1 DEF XArrive
  <2> HIDE DEF m
  <2>4. XWhose(m) /\ XShape(m) /\ XFound(m, xentered', xfree, xlost) /\ xconn[c].holds = "nothing"
    BY <2>2, <2>3 DEF XWhose, XShape, XFound, XCounts, XQuiet
  <2>5. XTables' /\ xentered \subseteq xentered'
    BY <2>3 DEF XTables
  <2> QED BY <2>2, <2>3, <2>4, <2>5, XNothingTaken
<1>2. ASSUME XRejectByACL(c) PROVE XInv'
  <2>1. XBecomes(c, XFree) /\ xconn[c].at = "new" /\ UNCHANGED <<xlimits, xentered, xfree, xslots, xmapped, xcrashed, xlost>>
    BY <1>2 DEF XRejectByACL
  <2>2. XWhose(XFree) /\ XShape(XFree) /\ XFound(XFree, xentered', xfree, xlost) /\ xconn[c].holds = "nothing"
    BY <2>1, XFreeFields DEF XWhose, XShape, XFound, XCounts, XQuiet
  <2>3. XTables' /\ xentered \subseteq xentered'
    BY <2>1 DEF XTables
  <2> QED BY <2>1, <2>2, <2>3, XFreeFields, XNothingTaken
<1>3. ASSUME XReadLimit(c) PROVE XInv'
  <2> DEFINE n == xlimits[xconn[c].user]
             s == IF xconn[c].udp THEN "admitted" ELSE "fast"
             slow == [xconn[c] EXCEPT !.at = "slow", !.limit = n]
             free == [xconn[c] EXCEPT !.at = s]
  <2>1. /\ s \in XStages /\ (s = "admitted" => xconn[c].udp = TRUE) /\ (s = "fast" => xconn[c].udp = FALSE)
        /\ s \in {"admitted", "fast"} /\ "slow" \in XStages
    BY XFields DEF XStages
  <2>2. /\ xconn[c].at = "new" /\ UNCHANGED <<xlimits, xentered, xfree, xslots, xmapped, xcrashed, xlost>>
        /\ XBecomes(c, slow) \/ XBecomes(c, free)
    BY <1>3 DEF XReadLimit, XMoves
  <2>3. n \in DeviceLimits
    BY <2>2 DEF XTables, XWhose
  <2>4. XTables' /\ xentered \subseteq xentered'
    BY <2>2 DEF XTables
  <2> HIDE DEF n, s
  <2>5. CASE XBecomes(c, slow)
    <3>1. /\ slow \in XConn /\ slow.at = "slow" /\ slow.user = xconn[c].user /\ slow.addr = xconn[c].addr
          /\ slow.udp = xconn[c].udp /\ slow.holds = xconn[c].holds /\ slow.stray = xconn[c].stray
      BY <2>1, <2>3, XFields DEF XConn
    <3> HIDE DEF slow
    <3>2. XWhose(slow) /\ XShape(slow) /\ XFound(slow, xentered', xfree, xlost)
      BY <2>2, <3>1 DEF XWhose, XShape, XFound, XCounts, XQuiet
    <3> QED BY <2>2, <2>4, <2>5, <3>1, <3>2, XNothingTaken
  <2>6. CASE XBecomes(c, free)
    <3>1. /\ free \in XConn /\ free.at = s /\ free.user = xconn[c].user /\ free.addr = xconn[c].addr
          /\ free.udp = xconn[c].udp /\ free.holds = xconn[c].holds /\ free.stray = xconn[c].stray
      BY <2>1, XMoved
    <3> HIDE DEF free
    <3>2. XWhose(free) /\ XShape(free) /\ XFound(free, xentered', xfree, xlost)
      BY <2>1, <2>2, <3>1 DEF XWhose, XShape, XFound, XCounts, XQuiet
    <3> QED BY <2>2, <2>4, <2>6, <3>1, <3>2, XNothingTaken
  <2> QED BY <2>2, <2>5, <2>6
<1>4. ASSUME XEnter(c) PROVE XInv'
  <2> DEFINE m == [xconn[c] EXCEPT !.at = "entered"]
  <2>1. "entered" \in XStages
    BY DEF XStages
  <2>2. /\ XBecomes(c, m) /\ xconn[c].at = "fast" /\ xentered' = xentered \union {xconn[c].user}
        /\ UNCHANGED <<xlimits, xfree, xslots, xmapped, xcrashed, xlost>>
    BY <1>4 DEF XEnter, XMoves
  <2>3. /\ m \in XConn /\ m.at = "entered" /\ m.user = xconn[c].user /\ m.addr = xconn[c].addr
        /\ m.udp = xconn[c].udp /\ m.holds = xconn[c].holds /\ m.stray = xconn[c].stray
    BY <2>1, XMoved
  <2> HIDE DEF m
  <2>4. XWhose(m) /\ XShape(m) /\ XFound(m, xentered', xfree, xlost) /\ xconn[c].user \in Users
    BY <2>2, <2>3 DEF XWhose, XShape, XFound, XCounts, XQuiet
  <2>5. XTables' /\ xentered \subseteq xentered'
    BY <2>2, <2>4 DEF XTables
  <2> QED BY <2>2, <2>3, <2>4, <2>5, XNothingTaken
<1> QED BY <1>1, <1>2, <1>3, <1>4

LEMMA XPasses ==
    ASSUME XInv, NEW c \in Conns
    PROVE  /\ XLookAtSlots(c) => XInv'
           /\ XDispatch(c) => XInv'
           /\ XEnd(c) => XInv'
           /\ XFindNoEntry(c) => XInv'
<1> USE XOf1
<1>0. ASSUME NEW s \in {"full", "admitted", "known", "room", "open", "closing", "unslot"},
             NEW m \in XConn, XBecomes(c, m), UNCHANGED <<xlimits, xentered, xfree, xslots, xmapped, xcrashed, xlost>>,
             /\ m.at = s /\ m.user = xconn[c].user /\ m.addr = xconn[c].addr
             /\ m.udp = xconn[c].udp /\ m.holds = xconn[c].holds /\ m.stray = xconn[c].stray,
             \/ xconn[c].at = "slow" /\ (s = "admitted" => xconn[c].udp = TRUE) /\ s \notin {"open", "closing", "unslot"}
             \/ xconn[c].at = "admitted" /\ s = "open"
             \/ xconn[c].at \in {"admitted", "open"} /\ s = "closing" /\ xconn[c].udp = FALSE
             \/ xconn[c].at = "closing" /\ xconn[c].user \notin xentered /\ s = "unslot"
      PROVE  XInv'
  <2>1. XWhose(m)
    BY <1>0 DEF XWhose
  <2>2. XShape(m)
    BY <1>0, XFields DEF XShape, XFound, XCounts, XQuiet
  <2>3. XFound(m, xentered', xfree, xlost)
    BY <1>0 DEF XFound, XCounts
  <2>4. XTables' /\ xentered \subseteq xentered'
    BY <1>0 DEF XTables
  <2> QED BY <1>0, <2>1, <2>2, <2>3, <2>4, XNothingTaken
<1>1. ASSUME NEW s \in {"full", "admitted", "known", "room", "open", "closing", "unslot"},
             XMoves(c, s), UNCHANGED <<xlimits, xentered, xfree, xslots, xmapped, xcrashed, xlost>>,
             \/ xconn[c].at = "slow" /\ (s = "admitted" => xconn[c].udp = TRUE) /\ s \notin {"open", "closing", "unslot"}
             \/ xconn[c].at = "admitted" /\ s = "open"
             \/ xconn[c].at \in {"admitted", "open"} /\ s = "closing" /\ xconn[c].udp = FALSE
             \/ xconn[c].at = "closing" /\ xconn[c].user \notin xentered /\ s = "unslot"
      PROVE  XInv'
  <2> DEFINE m == [xconn[c] EXCEPT !.at = s]
  <2>1. s \in XStages
    BY DEF XStages
  <2>2. XBecomes(c, m)
    BY <1>1 DEF XMoves
  <2>3. /\ m \in XConn /\ m.at = s /\ m.user = xconn[c].user /\ m.addr = xconn[c].addr
        /\ m.udp = xconn[c].udp /\ m.holds = xconn[c].holds /\ m.stray = xconn[c].stray
    BY <2>1, XMoved
  <2> HIDE DEF m
  <2> QED BY <1>0, <1>1, <2>2, <2>3
<1>2. ASSUME XLookAtSlots(c) PROVE XInv'
  <2> DEFINE known == xslots[xconn[c].user][xconn[c].addr] > 0
             room  == xconn[c].user \in xmapped /\ Cardinality(XSlotted(xconn[c].user)) < xconn[c].limit
             s == IF xconn[c].udp THEN "admitted" ELSE IF known THEN "known" ELSE "room"
             m == [xconn[c] EXCEPT !.at = s, !.limit = 0]
             m2 == [xconn[c] EXCEPT !.limit = 0, !.at = s]
  <2>1. /\ xconn[c].at = "slow" /\ UNCHANGED <<xlimits, xentered, xfree, xslots, xmapped, xcrashed, xlost>>
        /\ XMoves(c, "full") \/ XBecomes(c, m2)
    BY <1>2 DEF XLookAtSlots
  <2> HIDE DEF known, room
  <2>2. s \in {"admitted", "known", "room"} /\ (s = "admitted" => xconn[c].udp = TRUE) /\ s \in XStages
    BY XFields DEF XStages
  <2> HIDE DEF s
  <2>3. m2 = m
    OBVIOUS
  <2>4. /\ m \in XConn /\ m.at = s /\ m.user = xconn[c].user /\ m.addr = xconn[c].addr
        /\ m.udp = xconn[c].udp /\ m.holds = xconn[c].holds /\ m.stray = xconn[c].stray
    <3>1. xconn[c] \in XConn /\ 0 \in DeviceLimits
      BY BaseConstants
    <3> QED BY ONLY <2>2, <3>1 DEF XConn
  <2>5. CASE XMoves(c, "full")
    BY <1>1, <2>1, <2>5
  <2> HIDE DEF m, m2
  <2>6. CASE XBecomes(c, m2)
    BY <1>0, <2>1, <2>2, <2>3, <2>4, <2>6
  <2> QED BY <2>1, <2>5, <2>6
<1>3. ASSUME XDispatch(c) PROVE XInv'
  BY <1>1, <1>3 DEF XDispatch
<1>4. ASSUME XEnd(c) PROVE XInv'
  <2>1. CASE xconn[c].udp = FALSE
    BY <1>1, <1>4, <2>1 DEF XEnd
  <2>2. CASE xconn[c].udp = TRUE
    <3>1. XBecomes(c, XFree) /\ UNCHANGED <<xlimits, xentered, xfree, xslots, xmapped, xcrashed, xlost>>
      BY <1>4, <2>2 DEF XEnd
    <3>2. XWhose(XFree) /\ XShape(XFree) /\ XFound(XFree, xentered', xfree, xlost) /\ xconn[c].holds = "nothing"
      BY <2>2, XFreeFields DEF XWhose, XShape, XFound, XCounts, XQuiet
    <3>3. XTables' /\ xentered \subseteq xentered'
      BY <3>1 DEF XTables
    <3> QED BY <3>1, <3>2, <3>3, XFreeFields, XNothingTaken
  <2> QED BY <2>1, <2>2, XFields
<1>5. ASSUME XFindNoEntry(c) PROVE XInv'
  BY <1>1, <1>5 DEF XFindNoEntry
<1> QED BY <1>2, <1>3, <1>4, <1>5

\* A step that changes a slot by what the connection takes or gives back.
LEMMA XSlotMoves ==
    ASSUME XInv, NEW c \in Conns, NEW k \in XConn, XBecomes(c, k),
           NEW u \in Users, NEW a \in Addrs, NEW n \in Nat,
           xslots' = [xslots EXCEPT ![u][a] = n],
           xslots[u][a] + XOne(k, "slot", u, a) - XOne(xconn[c], "slot", u, a) = n,
           k.holds = "slot" => k.user = u /\ k.addr = a,
           xconn[c].holds = "slot" => xconn[c].user = u /\ xconn[c].addr = a,
           xentered' = xentered
    PROVE  XSlotsAccounted'
<1>1. ASSUME NEW v \in Users, NEW b \in Addrs
      PROVE  /\ Cardinality(XSlotHolders(v, b)') =
                    Cardinality(XSlotHolders(v, b)) + XOne(k, "slot", v, b) - XOne(xconn[c], "slot", v, b)
             /\ xslots'[v][b] = xslots[v][b] + XOne(k, "slot", v, b) - XOne(xconn[c], "slot", v, b)
             /\ Cardinality(XSlotHolders(v, b)) \in Nat /\ xslots[v][b] \in Nat
             /\ XOne(k, "slot", v, b) \in {0, 1} /\ XOne(xconn[c], "slot", v, b) \in {0, 1}
  <2>1. xslots \in [Users -> [Addrs -> Nat]]
    BY XOf1 DEF XTables
  <2>2. Cardinality(XSlotHolders(v, b)') =
            Cardinality(XSlotHolders(v, b)) + XOne(k, "slot", v, b) - XOne(xconn[c], "slot", v, b)
    BY XHoldersAfter DEF XInv
  <2>3. XOne(k, "slot", v, b) \in {0, 1} /\ XOne(xconn[c], "slot", v, b) \in {0, 1}
    BY DEF XOne
  <2>4. CASE v = u /\ b = a
    BY <2>1, <2>2, <2>3, <2>4, XHoldersFinite
  <2>5. CASE <<v, b>> # <<u, a>>
    <3>1. XOne(k, "slot", v, b) = 0 /\ XOne(xconn[c], "slot", v, b) = 0
      BY <2>5 DEF XOne, XIn
    <3>2. xslots'[v][b] = xslots[v][b] /\ xslots[v][b] \in Nat
      BY <2>1, <2>5
    <3> QED BY <2>2, <3>1, <3>2, XHoldersFinite
  <2> QED BY <2>4, <2>5
<1>2. ASSUME NEW v \in Users, NEW b \in Addrs
      PROVE  /\ xslots'[v][b] >= Cardinality(XSlotHolders(v, b)')
             /\ v \notin xentered' => xslots'[v][b] = Cardinality(XSlotHolders(v, b)')
  <2>1. /\ xslots[v][b] >= Cardinality(XSlotHolders(v, b))
        /\ v \notin xentered => xslots[v][b] = Cardinality(XSlotHolders(v, b))
    BY DEF XInv, XSlotsAccounted
  <2> QED BY <1>1, <2>1
<1> QED BY <1>2, XAgreeIs

LEMMA XCountersStay ==
    ASSUME XInv, NEW c \in Conns, NEW k \in XConn, XBecomes(c, k),
           UNCHANGED <<xfree, xlost>>, k.holds # "counter", xconn[c].holds # "counter"
    PROVE  XCountersAgree'
<1>1. ASSUME NEW u \in Users, NEW a \in Addrs
      PROVE  /\ Cardinality(XCounterHolders(u, a)') = Cardinality(XCounterHolders(u, a))
             /\ XCount(u, a)' = XCount(u, a)
  <2>1. XOne(k, "counter", u, a) = 0 /\ XOne(xconn[c], "counter", u, a) = 0
    BY DEF XOne, XIn
  <2>2. Cardinality(XCounterHolders(u, a)') =
               Cardinality(XCounterHolders(u, a)) + XOne(k, "counter", u, a) - XOne(xconn[c], "counter", u, a)
    BY XHoldersAfter DEF XInv
  <2>3. Cardinality(XCounterHolders(u, a)') = Cardinality(XCounterHolders(u, a))
    BY <2>1, <2>2, XHoldersFinite
  <2> QED BY <2>3 DEF XCount
<1> QED BY <1>1, XAgreeIs DEF XInv

LEMMA XTakesSlot ==
    ASSUME XInv, NEW c \in Conns, xconn[c].at \in {"known", "room", "full"}, XTakeSlot(c),
           xmapped' \subseteq Users, UNCHANGED <<xlimits, xentered, xfree, xcrashed, xlost>>
    PROVE  XInv'
<1> USE XOf1
<1> DEFINE u == xconn[c].user
           a == xconn[c].addr
           h == IF xconn[c].udp THEN "nothing" ELSE "slot"
           m == [xconn[c] EXCEPT !.at = "admitted", !.limit = 0, !.holds = h]
<1>1. u \in Users /\ a \in Addrs /\ xconn[c].holds = "nothing" /\ xconn[c].at # "counter"
  BY DEF XWhose, XShape, XQuiet
<1>2. /\ XBecomes(c, m)
      /\ h \in {"nothing", "counter", "slot"} /\ h # "counter"
      /\ xconn[c].udp = TRUE => h = "nothing" /\ xslots' = xslots
      /\ xconn[c].udp = FALSE => h = "slot" /\ xslots' = [xslots EXCEPT ![u][a] = xslots[u][a] + 1]
  BY XFields DEF XTakeSlot
<1> HIDE DEF h
<1>3. /\ m \in XConn /\ m.at = "admitted" /\ m.user = u /\ m.addr = a
      /\ m.udp = xconn[c].udp /\ m.holds = h /\ m.stray = xconn[c].stray
  BY <1>2, XSlotTaken
<1> HIDE DEF m
<1>4. XWhose(m) /\ XShape(m)
  BY <1>1, <1>2, <1>3 DEF XWhose, XShape, XQuiet
<1>5. XFound(m, xentered', xfree', xlost')
  BY <1>1, <1>2, <1>3 DEF XFound, XCounts
<1>6. xentered \subseteq xentered' /\ xlost \subseteq xlost'
  OBVIOUS
<1>7. CASE xconn[c].udp = TRUE
  <2>1. XTables'
    BY <1>2, <1>7 DEF XTables
  <2> QED BY <1>1, <1>2, <1>3, <1>4, <1>5, <1>6, <1>7, <2>1, XNothingTaken
<1>8. CASE xconn[c].udp = FALSE
  <2>1. xslots \in [Users -> [Addrs -> Nat]]
    BY DEF XTables
  <2> DEFINE n == xslots[u][a] + 1
  <2>2. n \in Nat /\ xslots' = [xslots EXCEPT ![u][a] = n]
    BY <1>1, <1>2, <1>8, <2>1
  <2>3. XTables'
    <3>1. xslots' \in [Users -> [Addrs -> Nat]]
      BY <1>1, <2>1, <2>2
    <3> QED BY <3>1 DEF XTables
  <2>4. XTypeOK' /\ XConnsGood'
    BY <1>2, <1>3, <1>4, <1>5, <1>6, <2>3, XOneTyped, XOneGood
  <2>5. XOne(m, "slot", u, a) = 1 /\ XOne(xconn[c], "slot", u, a) = 0
    BY <1>1, <1>2, <1>3, <1>8 DEF XOne, XIn
  <2>6. m.user = u /\ m.addr = a /\ xconn[c].user = u /\ xconn[c].addr = a
    BY <1>3
  <2>7. xslots[u][a] + XOne(m, "slot", u, a) - XOne(xconn[c], "slot", u, a) = n
    BY <1>1, <2>1, <2>5
  <2> HIDE DEF n, u, a
  <2>8. XBecomes(c, m) /\ m \in XConn /\ u \in Users /\ a \in Addrs /\ xentered' = xentered
    BY <1>1, <1>2, <1>3
  <2>9. XSlotsAccounted'
    BY ONLY XInv, c \in Conns, <2>2, <2>6, <2>7, <2>8, XSlotMoves, ZenonT(60)
  <2>10. XCountersAgree'
    BY <1>1, <1>2, <1>3, XCountersStay
  <2> QED BY <2>4, <2>9, <2>10 DEF XInv
<1> QED BY <1>7, <1>8, XFields

LEMMA XStill ==
    ASSUME XInv, XTables', UNCHANGED <<xentered, xfree, xslots, xconn, xlost>>
    PROVE  XInv'
<1>1. XTypeOK'
  BY XTyped DEF XInv, XTypeOK, XTables, XWhose
<1>2. XConnsGood'
  BY DEF XInv, XConnsGood, XShape, XFound, XCounts
<1>3. XSlotsAccounted'
  BY DEF XInv, XSlotsAccounted, XSlotHolders
<1>4. XCountersAgree'
  BY DEF XInv, XCountersAgree, XCounterHolders
<1> QED BY <1>1, <1>2, <1>3, <1>4 DEF XInv

LEMMA XSlotSteps ==
    ASSUME XInv, NEW c \in Conns
    PROVE  /\ XCountKnown(c) => XInv'
           /\ XCountRoom(c) => XInv'
           /\ XDecideFull(c) => XInv'
           /\ XReleaseSlot(c) => XInv'
<1> USE XOf1
<1>0. xconn[c].at # "free" => xconn[c].user \in Users /\ xconn[c].addr \in Addrs
  BY DEF XWhose
<1>1. ASSUME XCountKnown(c) PROVE XInv'
  <2>1. CASE xconn[c].user \in xmapped
    <3>1. /\ xconn[c].at = "known" /\ XTakeSlot(c) /\ xmapped' \subseteq Users
          /\ UNCHANGED <<xlimits, xentered, xfree, xcrashed, xlost>>
      BY <1>1, <2>1 DEF XCountKnown, XTables
    <3> QED BY <3>1, XTakesSlot
  <2>2. CASE xconn[c].user \notin xmapped
    <3>1. UNCHANGED <<xlimits, xentered, xfree, xslots, xmapped, xconn, xlost>> /\ XTables'
      BY <1>1, <2>2 DEF XCountKnown, XTables
    <3> QED BY <3>1, XStill
  <2> QED BY <2>1, <2>2
<1>2. ASSUME XCountRoom(c) PROVE XInv'
  <2>1. /\ xconn[c].at = "room" /\ XTakeSlot(c) /\ xmapped' \subseteq Users
        /\ UNCHANGED <<xlimits, xentered, xfree, xcrashed, xlost>>
    BY <1>0, <1>2 DEF XCountRoom, XTables
  <2> QED BY <2>1, XTakesSlot
<1>3. ASSUME XDecideFull(c) PROVE XInv'
  <2>1. /\ xconn[c].at = "full" /\ xmapped' \subseteq Users
        /\ UNCHANGED <<xlimits, xentered, xfree, xcrashed, xlost>>
    BY <1>0, <1>3 DEF XDecideFull, XTables
  <2>2. CASE XTakeSlot(c)
    BY <2>1, <2>2, XTakesSlot
  <2>3. CASE XBecomes(c, XFree) /\ UNCHANGED xslots
    <3>1. XWhose(XFree) /\ XShape(XFree) /\ XFound(XFree, xentered', xfree, xlost) /\ xconn[c].holds = "nothing"
      BY <2>1, XFreeFields DEF XWhose, XShape, XFound, XCounts, XQuiet
    <3>2. XTables' /\ xentered \subseteq xentered'
      BY <2>1, <2>3 DEF XTables
    <3> QED BY <2>1, <2>3, <3>1, <3>2, XFreeFields, XNothingTaken
  <2> QED BY <1>3, <2>2, <2>3 DEF XDecideFull
<1>4. ASSUME XReleaseSlot(c) PROVE XInv'
  <2> DEFINE u == xconn[c].user
             a == xconn[c].addr
             n == IF xslots[u][a] = 0 THEN 0 ELSE xslots[u][a] - 1
  <2>1. /\ u \in Users /\ a \in Addrs /\ xconn[c].at = "unslot" /\ xconn[c].holds = "slot"
        /\ XBecomes(c, XFree) /\ xslots' = [xslots EXCEPT ![u][a] = n]
        /\ UNCHANGED <<xlimits, xentered, xfree, xcrashed, xlost>>
    BY <1>0, <1>4 DEF XReleaseSlot, XShape
  <2>2. xmapped' \subseteq Users
    BY <1>4 DEF XReleaseSlot, XTables
  <2>3. xslots \in [Users -> [Addrs -> Nat]] /\ xslots[u][a] \in Nat
    BY <2>1 DEF XTables
  <2>4. xslots[u][a] >= 1
    <3>1. Cardinality(XSlotHolders(u, a)) >= 1 /\ Cardinality(XSlotHolders(u, a)) \in Nat
      BY <2>1, XHeld, XHoldersFinite DEF XIn
    <3>2. xslots[u][a] >= Cardinality(XSlotHolders(u, a))
      BY <2>1 DEF XSlotsAccounted
    <3> QED BY <2>3, <3>1, <3>2
  <2>5. n \in Nat /\ xslots[u][a] + 0 - 1 = n
    BY <2>3, <2>4
  <2>6. XOne(XFree, "slot", u, a) = 0 /\ XOne(xconn[c], "slot", u, a) = 1
    BY <2>1, XFreeFields DEF XOne, XIn
  <2> HIDE DEF n
  <2>7. XTables'
    <3>1. xslots' \in [Users -> [Addrs -> Nat]]
      BY <2>1, <2>3, <2>5
    <3> QED BY <2>1, <2>2, <3>1 DEF XTables
  <2>8. XWhose(XFree) /\ XShape(XFree) /\ XFound(XFree, xentered', xfree', xlost')
    BY XFreeFields DEF XWhose, XShape, XFound, XCounts, XQuiet
  <2>9. XTypeOK' /\ XConnsGood'
    BY <2>1, <2>7, <2>8, XFreeFields, XOneTyped, XOneGood
  <2>10. xslots[u][a] + XOne(XFree, "slot", u, a) - XOne(xconn[c], "slot", u, a) = n
    BY <2>5, <2>6
  <2>11. xconn[c].user = u /\ xconn[c].addr = a /\ xentered' = xentered
    BY <2>1
  <2> HIDE DEF u, a
  <2>12. XSlotsAccounted'
    BY <2>1, <2>5, <2>10, <2>11, XFreeFields, XSlotMoves
  <2>13. XCountersAgree'
    BY <2>1, XFreeFields, XCountersStay
  <2> QED BY <2>9, <2>12, <2>13 DEF XInv
<1> QED BY <1>1, <1>2, <1>3, <1>4

\* A step that changes a counter by what the connection takes or gives back.
LEMMA XCounterMoves ==
    ASSUME XInv, NEW c \in Conns, NEW k \in XConn, XBecomes(c, k),
           NEW u \in Users, NEW a \in Addrs, NEW n \in Int \union {None},
           xfree' = [xfree EXCEPT ![u][a] = n], xlost \subseteq xlost',
           k.holds = "counter" => k.user = u /\ k.addr = a,
           xconn[c].holds = "counter" => xconn[c].user = u /\ xconn[c].addr = a,
           <<u, a>> \notin xlost' =>
               (IF n = None THEN 0 ELSE n) =
                   XCount(u, a) + XOne(k, "counter", u, a) - XOne(xconn[c], "counter", u, a)
    PROVE  XCountersAgree'
<1> DEFINE m == IF n = None THEN 0 ELSE n
<1>1. ASSUME NEW v \in Users, NEW b \in Addrs, <<v, b>> \notin xlost'
      PROVE  Cardinality(XCounterHolders(v, b)') = XCount(v, b)'
  <2>1. xfree \in [Users -> [Addrs -> Int \union {None}]]
    BY XOf1 DEF XTables
  <2>2. Cardinality(XCounterHolders(v, b)') =
            Cardinality(XCounterHolders(v, b)) + XOne(k, "counter", v, b) - XOne(xconn[c], "counter", v, b)
    BY XHoldersAfter DEF XInv
  <2>3. Cardinality(XCounterHolders(v, b)) = XCount(v, b) /\ Cardinality(XCounterHolders(v, b)) \in Nat
    BY <1>1, XOf1, XAgreeIs, XHoldersFinite
  <2>4. CASE v = u /\ b = a
    <3>1. XCount(v, b)' = m
      BY <2>1, <2>4 DEF XCount
    <3>2. m = XCount(u, a) + XOne(k, "counter", u, a) - XOne(xconn[c], "counter", u, a)
      BY <1>1, <2>4
    <3> HIDE DEF m
    <3> QED BY <2>2, <2>3, <2>4, <3>1, <3>2
  <2>5. CASE <<v, b>> # <<u, a>>
    <3>1. XOne(k, "counter", v, b) = 0 /\ XOne(xconn[c], "counter", v, b) = 0
      BY <2>5 DEF XOne, XIn
    <3>2. XCount(v, b)' = XCount(v, b)
      <4>1. xfree'[v][b] = xfree[v][b]
        BY <2>1, <2>5
      <4> QED BY <4>1 DEF XCount
    <3> QED BY <2>2, <2>3, <3>1, <3>2
  <2> QED BY <2>4, <2>5
<1> QED BY <1>1, XAgreeIs

LEMMA XSlotsStay ==
    ASSUME XInv, NEW c \in Conns, NEW k \in XConn, XBecomes(c, k),
           UNCHANGED <<xslots, xentered>>, k.holds # "slot",
           xconn[c].holds = "slot" => xconn[c].user \in xentered
    PROVE  XSlotsAccounted'
<1>1. ASSUME NEW u \in Users, NEW a \in Addrs
      PROVE  /\ xslots'[u][a] >= Cardinality(XSlotHolders(u, a)')
             /\ u \notin xentered' => xslots'[u][a] = Cardinality(XSlotHolders(u, a)')
  <2>1. xslots[u][a] \in Nat /\ Cardinality(XSlotHolders(u, a)) \in Nat
    BY XOf1, XHoldersFinite DEF XTables
  <2>2. XOne(k, "slot", u, a) = 0 /\ XOne(xconn[c], "slot", u, a) \in {0, 1}
        /\ (u \notin xentered => XOne(xconn[c], "slot", u, a) = 0)
    BY DEF XOne, XIn
  <2>3. Cardinality(XSlotHolders(u, a)') =
            Cardinality(XSlotHolders(u, a)) + XOne(k, "slot", u, a) - XOne(xconn[c], "slot", u, a)
    BY XHoldersAfter DEF XInv
  <2>4. /\ xslots[u][a] >= Cardinality(XSlotHolders(u, a))
        /\ u \notin xentered => xslots[u][a] = Cardinality(XSlotHolders(u, a))
    BY DEF XInv, XSlotsAccounted
  <2> QED BY <2>1, <2>2, <2>3, <2>4
<1> QED BY <1>1, XAgreeIs

\* The counter the connection is at changes, and nothing of a slot.
LEMMA XCounterStep ==
    ASSUME XInv, NEW c \in Conns, NEW k \in XConn, XBecomes(c, k),
           NEW u \in Users, NEW a \in Addrs, NEW n \in Int \union {None},
           n = None => xfree[u][a] = None,
           xfree' = [xfree EXCEPT ![u][a] = n], xlost \subseteq xlost', xlost' \subseteq Users \X Addrs,
           UNCHANGED <<xlimits, xentered, xslots, xmapped, xcrashed>>,
           k.holds = "counter" => k.user = u /\ k.addr = a,
           xconn[c].user = u /\ xconn[c].addr = a,
           k.holds # "slot", xconn[c].holds = "slot" => xconn[c].user \in xentered,
           XWhose(k), XShape(k), XFound(k, xentered, xfree', xlost'),
           <<u, a>> \notin xlost' =>
               (IF n = None THEN 0 ELSE n) =
                   XCount(u, a) + XOne(k, "counter", u, a) - XOne(xconn[c], "counter", u, a)
    PROVE  XInv'
<1> USE XOf1
<1>1. xfree \in [Users -> [Addrs -> Int \union {None}]]
  BY DEF XTables
<1>2. XTables'
  <2>1. xfree' \in [Users -> [Addrs -> Int \union {None}]]
    BY <1>1
  <2> QED BY <2>1 DEF XTables
<1>3. \A v \in Users, b \in Addrs : xfree[v][b] # None => xfree'[v][b] # None
  BY <1>1
<1>4. XTypeOK'
  BY <1>2, XOneTyped
<1>5. XConnsGood'
  BY <1>3, XOneGood
<1>6. XSlotsAccounted'
  BY XSlotsStay
<1>7. XCountersAgree'
  BY XCounterMoves
<1> QED BY <1>4, <1>5, <1>6, <1>7 DEF XInv

LEMMA XCounterSteps ==
    ASSUME XInv, NEW c \in Conns
    PROVE  /\ XFindCounter(c) => XInv'
           /\ XCountFree(c) => XInv'
           /\ XReleaseFree(c) => XInv'
<1> USE XOf1
<1> DEFINE u == xconn[c].user
           a == xconn[c].addr
<1>1. xconn[c].at # "free" => u \in Users /\ a \in Addrs
  BY DEF XWhose
<1>2. \A v \in Users, b \in Addrs :
          /\ xfree[v][b] \in Int \union {None}
          /\ XCount(v, b) \in Int /\ (xfree[v][b] # None => XCount(v, b) = xfree[v][b])
          /\ \A n : n \in Int => n # None /\ (IF n = None THEN 0 ELSE n) = n
  <2>1. xfree \in [Users -> [Addrs -> Int \union {None}]]
    BY DEF XTables
  <2> QED BY <2>1, StrayConstant DEF XCount
<1>3. ASSUME XFindCounter(c) PROVE XInv'
  <2> DEFINE m == [xconn[c] EXCEPT !.at = "counter"]
             n == IF xfree[u][a] = None THEN 0 ELSE xfree[u][a]
  <2>1. /\ xconn[c].at = "entered" /\ XBecomes(c, m)
        /\ UNCHANGED <<xlimits, xentered, xslots, xmapped, xcrashed, xlost>>
    BY <1>3 DEF XFindCounter, XMoves
  <2>2. xfree' = [xfree EXCEPT ![u][a] = n]
    <3>1. xfree \in [Users -> [Addrs -> Int \union {None}]] /\ u \in Users
      BY <1>1, <2>1 DEF XTables
    <3> QED BY <1>3, <3>1 DEF XFindCounter
  <2>3. "counter" \in XStages
    BY DEF XStages
  <2>4. /\ m \in XConn /\ m.at = "counter" /\ m.user = u /\ m.addr = a
        /\ m.udp = xconn[c].udp /\ m.holds = xconn[c].holds /\ m.stray = xconn[c].stray
    BY <2>3, XMoved
  <2> HIDE DEF m
  <2>5. n \in Int \union {None} /\ n # None /\ (IF n = None THEN 0 ELSE n) = XCount(u, a)
    BY <1>1, <1>2, <2>1, StrayConstant DEF XCount
  <2>6. xfree'[u][a] = n
    <3>1. xfree \in [Users -> [Addrs -> Int \union {None}]]
      BY DEF XTables
    <3> HIDE DEF n
    <3> QED BY <1>1, <2>1, <2>2, <3>1
  <2> HIDE DEF n
  <2>7. xconn[c].holds = "nothing" /\ xconn[c].udp = FALSE /\ u \in xentered
        /\ (xconn[c].stray = TRUE => <<u, a>> \in xlost)
    BY <2>1 DEF XShape, XQuiet, XFound
  <2>8. XWhose(m) /\ XShape(m)
    BY <1>1, <2>1, <2>4, <2>7 DEF XWhose, XShape, XQuiet
  <2>9. XFound(m, xentered, xfree', xlost')
    BY <2>1, <2>4, <2>5, <2>6, <2>7 DEF XFound
  <2>10. XOne(m, "counter", u, a) = 0 /\ XOne(xconn[c], "counter", u, a) = 0
    BY <2>4, <2>7 DEF XOne, XIn
  <2>11. (IF n = None THEN 0 ELSE n) =
             XCount(u, a) + XOne(m, "counter", u, a) - XOne(xconn[c], "counter", u, a)
    BY <1>1, <1>2, <2>1, <2>5, <2>10
  <2>12. /\ u \in Users /\ a \in Addrs /\ xconn[c].user = u /\ xconn[c].addr = a
         /\ xlost \subseteq xlost' /\ xlost' \subseteq Users \X Addrs
         /\ m.holds # "slot" /\ m.holds # "counter" /\ xconn[c].holds # "slot"
    BY <1>1, <2>1, <2>4, <2>7 DEF XTables
  <2> HIDE DEF u, a
  <2> QED BY <2>1, <2>2, <2>4, <2>5, <2>8, <2>9, <2>11, <2>12, XCounterStep
<1>4. ASSUME XCountFree(c) PROVE XInv'
  <2> DEFINE m == [xconn[c] EXCEPT !.at = "admitted", !.holds = "counter"]
             n == IF xconn[c].stray THEN xfree[u][a] ELSE xfree[u][a] + 1
  <2>1. /\ xconn[c].at = "counter" /\ XBecomes(c, m)
        /\ UNCHANGED <<xlimits, xentered, xslots, xmapped, xcrashed, xlost>>
    BY <1>4 DEF XCountFree
  <2>2. xfree' = [xfree EXCEPT ![u][a] = n]
    <3>1. xfree \in [Users -> [Addrs -> Int \union {None}]] /\ u \in Users
      BY <1>1, <2>1 DEF XTables
    <3> QED BY <1>4, <3>1, XFields DEF XCountFree
  <2>3. /\ m \in XConn /\ m.at = "admitted" /\ m.user = u /\ m.addr = a
        /\ m.udp = xconn[c].udp /\ m.holds = "counter" /\ m.stray = xconn[c].stray
    BY XCounted
  <2> HIDE DEF m
  <2>4. xconn[c].holds = "nothing" /\ xconn[c].udp = FALSE /\ u \in xentered
        /\ (xconn[c].stray = TRUE => <<u, a>> \in xlost)
        /\ (xconn[c].stray = TRUE \/ xfree[u][a] # None)
    BY <2>1 DEF XShape, XQuiet, XFound, XCounts
  <2>5. /\ n \in Int \union {None}
        /\ xconn[c].stray = FALSE => n # None /\ n = XCount(u, a) + 1
        /\ n = None => xfree[u][a] = None
    BY <1>1, <1>2, <2>1, <2>4, XFields
  <2>6. xfree'[u][a] = n
    <3>1. xfree \in [Users -> [Addrs -> Int \union {None}]]
      BY DEF XTables
    <3> HIDE DEF n
    <3> QED BY <1>1, <2>1, <2>2, <3>1
  <2> HIDE DEF n
  <2>7. XWhose(m) /\ XShape(m)
    BY <1>1, <2>1, <2>3, <2>4 DEF XWhose, XShape, XQuiet
  <2>8. XFound(m, xentered, xfree', xlost')
    BY <2>1, <2>3, <2>4, <2>5, <2>6, XFields DEF XFound
  <2>9. XOne(m, "counter", u, a) = 1 /\ XOne(xconn[c], "counter", u, a) = 0
    BY <2>3, <2>4 DEF XOne, XIn
  <2>10. <<u, a>> \notin xlost' =>
             (IF n = None THEN 0 ELSE n) =
                 XCount(u, a) + XOne(m, "counter", u, a) - XOne(xconn[c], "counter", u, a)
    <3>1. XCount(u, a) \in Int /\ (n \in Int => n # None)
      BY <1>1, <1>2, <2>1
    <3> QED BY <2>1, <2>4, <2>5, <2>9, <3>1, XFields
  <2>11. /\ u \in Users /\ a \in Addrs /\ xconn[c].user = u /\ xconn[c].addr = a
         /\ xlost \subseteq xlost' /\ xlost' \subseteq Users \X Addrs
         /\ m.holds # "slot" /\ xconn[c].holds # "slot"
    BY <1>1, <2>1, <2>3, <2>4 DEF XTables
  <2> HIDE DEF u, a
  <2> QED BY <2>1, <2>2, <2>3, <2>5, <2>7, <2>8, <2>10, <2>11, XCounterStep
<1>5. ASSUME XReleaseFree(c) PROVE XInv'
  <2> DEFINE n == IF xfree[u][a] = None THEN None ELSE xfree[u][a] - 1
             m == IF xfree[u][a] # None /\ xfree[u][a] - 1 <= 0 THEN XSpent(c, "lowered") ELSE XFree
  <2>1. /\ xconn[c].at = "closing" /\ u \in xentered /\ XBecomes(c, m)
        /\ UNCHANGED <<xlimits, xentered, xslots, xmapped, xcrashed>>
    BY <1>5 DEF XReleaseFree
  <2>2. xfree' = [xfree EXCEPT ![u][a] = n]
    <3>1. xfree \in [Users -> [Addrs -> Int \union {None}]] /\ u \in Users
      BY <1>1, <2>1 DEF XTables
    <3> QED BY <1>5, <3>1 DEF XReleaseFree
  <2>3. /\ XSpent(c, "lowered") \in XConn /\ XSpent(c, "lowered").at = "lowered"
        /\ XSpent(c, "lowered").user = u /\ XSpent(c, "lowered").addr = a
        /\ XSpent(c, "lowered").udp = FALSE /\ XSpent(c, "lowered").holds = "nothing"
        /\ XSpent(c, "lowered").stray = FALSE
    <3>1. "lowered" \in XStages /\ u \in Users /\ a \in Addrs
      BY <1>1, <2>1 DEF XStages
    <3>2. XSpent(c, "lowered") = [XFree EXCEPT !.at = "lowered", !.user = u, !.addr = a]
      BY DEF XSpent
    <3> HIDE DEF u, a
    <3> QED BY <3>1, <3>2, BaseConstants DEF XFree, XConn
  <2>4. /\ m \in XConn /\ m.holds = "nothing" /\ m.stray = FALSE /\ m.udp = FALSE
        /\ m.at \in {"lowered", "free"} /\ (m.at # "free" => m.user = u /\ m.addr = a)
    BY <2>3, XFreeFields
  <2> HIDE DEF m
  <2>5. XWhose(m) /\ XShape(m)
    BY <1>1, <2>1, <2>4 DEF XWhose, XShape, XQuiet
  <2>6. XFound(m, xentered, xfree', xlost')
    BY <2>4 DEF XFound, XCounts
  <2>7. /\ xlost' = IF xconn[c].holds = "counter" /\ xconn[c].stray = FALSE THEN xlost
                    ELSE xlost \union {<<u, a>>}
    BY <1>5, XFields DEF XReleaseFree
  <2>8. xlost \subseteq xlost' /\ xlost' \subseteq Users \X Addrs
    BY <1>1, <2>1, <2>7 DEF XTables
  <2>9. <<u, a>> \notin xlost' => xconn[c].holds = "counter" /\ xfree[u][a] # None
    BY <2>7 DEF XFound, XCounts
  <2>10. /\ n \in Int \union {None} /\ (n = None => xfree[u][a] = None)
         /\ xfree[u][a] # None => n # None /\ n = XCount(u, a) - 1
    <3>1. u \in Users /\ a \in Addrs
      BY <1>1, <2>1
    <3> HIDE DEF u, a
    <3>2. /\ xfree[u][a] \in Int \union {None}
          /\ xfree[u][a] # None => XCount(u, a) = xfree[u][a]
      BY <1>2, <3>1
    <3>3. xfree[u][a] # None => xfree[u][a] - 1 \in Int
      BY <3>2
    <3>4. xfree[u][a] # None => xfree[u][a] - 1 # None
      BY <3>3, StrayConstant
    <3> QED BY <3>2, <3>3, <3>4
  <2> HIDE DEF n
  <2>11. XOne(m, "counter", u, a) = 0 /\ (xconn[c].holds = "counter" => XOne(xconn[c], "counter", u, a) = 1)
    BY <2>4 DEF XOne, XIn
  <2>12. <<u, a>> \notin xlost' =>
             (IF n = None THEN 0 ELSE n) =
                 XCount(u, a) + XOne(m, "counter", u, a) - XOne(xconn[c], "counter", u, a)
    <3>1. XCount(u, a) \in Int
      BY <1>1, <1>2, <2>1
    <3> QED BY <2>9, <2>10, <2>11, <3>1
  <2>13. /\ u \in Users /\ a \in Addrs /\ xconn[c].user = u /\ xconn[c].addr = a
         /\ m.holds # "slot" /\ m.holds # "counter"
    BY <1>1, <2>1, <2>4
  <2> HIDE DEF u, a
  <2> QED BY <2>1, <2>2, <2>4, <2>5, <2>6, <2>8, <2>10, <2>12, <2>13, XCounterStep
<1> QED BY <1>3, <1>4, <1>5

LEMMA XDrops ==
    ASSUME XInv, NEW c \in Conns, XDropCounter(c)
    PROVE  XInv'
<1> USE XOf1
<1> DEFINE u == xconn[c].user
           a == xconn[c].addr
           H == XHolders(u, a)
<1>1. /\ u \in Users /\ a \in Addrs /\ xconn[c].at = "lowered" /\ xconn[c].holds = "nothing"
      /\ xfree' = [xfree EXCEPT ![u][a] = None]
      /\ xconn' = [d \in Conns |-> IF d = c THEN XFree
                                   ELSE IF d \in H THEN [xconn[d] EXCEPT !.stray = TRUE]
                                   ELSE xconn[d]]
      /\ xlost' = IF H = {} THEN xlost ELSE xlost \union {<<u, a>>}
      /\ UNCHANGED <<xlimits, xentered, xslots, xmapped, xcrashed>>
  BY DEF XDropCounter, XWhose, XShape, XQuiet
<1>2. xfree \in [Users -> [Addrs -> Int \union {None}]]
  BY DEF XTables
<1>3. ASSUME NEW d \in Conns, d # c
      PROVE  /\ xconn'[d] \in XConn /\ xconn'[d].at = xconn[d].at
             /\ xconn'[d].user = xconn[d].user /\ xconn'[d].addr = xconn[d].addr
             /\ xconn'[d].udp = xconn[d].udp /\ xconn'[d].holds = xconn[d].holds
             /\ d \in H => xconn'[d].stray = TRUE
             /\ d \notin H => xconn'[d].stray = xconn[d].stray
  <2> HIDE DEF H
  <2>1. xconn'[d] = IF d \in H THEN [xconn[d] EXCEPT !.stray = TRUE] ELSE xconn[d]
    BY <1>1, <1>3
  <2>2. xconn[d] \in XConn
    BY XOf1
  <2>3. CASE d \in H
    BY <2>1, <2>2, <2>3, XStrayed
  <2>4. CASE d \notin H
    BY <2>1, <2>2, <2>4
  <2> QED BY <2>3, <2>4
<1>4. xconn'[c] = XFree
  BY <1>1
<1>5. XTables'
  <2>1. xfree' \in [Users -> [Addrs -> Int \union {None}]]
    BY <1>1, <1>2
  <2>2. xlost' \subseteq Users \X Addrs
    BY <1>1 DEF XTables
  <2> QED BY <1>1, <2>1, <2>2 DEF XTables
<1>6. XTypeOK'
  <2>1. \A d \in Conns : xconn'[d] \in XConn /\ XWhose(xconn'[d])
    BY <1>3, <1>4, XFreeFields, XOf1 DEF XWhose
  <2>2. xconn' \in [Conns -> XConn]
    <3>1. xconn' = [d \in Conns |-> xconn'[d]]
      BY <1>1
    <3> QED BY <2>1, <3>1
  <2> QED BY <1>5, <2>1, <2>2 DEF XTypeOK, XTables, XWhose
\* Who counts at the counter, and is not a stray, is among those who are not told.
<1>7. ASSUME NEW d \in Conns, XCounts(xconn[d]), xconn[d].stray # TRUE, xconn[d].user = u, xconn[d].addr = a
      PROVE  d \in H
  BY <1>7, XFields, XOf1 DEF XHolders, XCounts
<1>8. \A d \in H : <<xconn[d].user, xconn[d].addr>> \in xlost'
  BY <1>1 DEF XHolders
<1>9. H \subseteq Conns
  BY DEF XHolders
<1> HIDE DEF H
<1>10. XConnsGood'
  <2>1. ASSUME NEW d \in Conns, d # c
        PROVE  XShape(xconn'[d]) /\ XFound(xconn'[d], xentered', xfree', xlost')
    <3>1. XShape(xconn[d]) /\ XFound(xconn[d], xentered, xfree, xlost) /\ xconn[d] \in XConn
      BY XOf1
    <3>2. XShape(xconn'[d]) /\ (XCounts(xconn'[d]) <=> XCounts(xconn[d]))
      BY <1>3, <2>1, <3>1 DEF XShape, XCounts
    <3>3. CASE d \in H
      <4>1. <<xconn[d].user, xconn[d].addr>> \in xlost'
        BY <1>8, <3>3
      <4>2. /\ xconn'[d].at = xconn[d].at /\ xconn'[d].stray = TRUE
            /\ xconn'[d].user = xconn[d].user /\ xconn'[d].addr = xconn[d].addr
        BY <1>3, <2>1, <3>3
      <4>3. xentered' = xentered
        BY <1>1
      <4> QED BY <3>1, <3>2, <4>1, <4>2, <4>3 DEF XFound
    <3>4. CASE d \notin H
      <4>1. xlost \subseteq xlost' /\ xentered' = xentered
        BY <1>1
      <4>2. /\ xconn'[d].at = xconn[d].at /\ xconn'[d].stray = xconn[d].stray
            /\ xconn'[d].user = xconn[d].user /\ xconn'[d].addr = xconn[d].addr
        BY <1>3, <2>1, <3>4
      <4>3. ASSUME XCounts(xconn[d]), xconn[d].stray # TRUE
            PROVE  xfree'[xconn[d].user][xconn[d].addr] # None
        <5>1. ~(xconn[d].user = u /\ xconn[d].addr = a)
          BY <1>7, <3>4, <4>3
        <5>2. xfree[xconn[d].user][xconn[d].addr] # None
          BY <3>1, <4>3 DEF XFound
        <5>3. xconn[d].user \in Users /\ xconn[d].addr \in Addrs
          BY <3>1, <4>3, XOf1 DEF XCounts, XShape, XQuiet, XWhose
        <5> QED BY <1>1, <1>2, <5>1, <5>2, <5>3
      <4> QED BY <3>1, <3>2, <4>1, <4>2, <4>3 DEF XFound
    <3> QED BY <3>2, <3>3, <3>4
  <2>2. XShape(XFree) /\ XFound(XFree, xentered', xfree', xlost')
    BY XFreeFields DEF XShape, XFound, XCounts, XQuiet
  <2> QED BY <1>4, <2>1, <2>2 DEF XConnsGood, XShape, XFound, XCounts
<1>11. \A v, b, w : w # "nothing" => \A d \in Conns : XIn(xconn'[d], w, v, b) <=> XIn(xconn[d], w, v, b)
  BY <1>1, <1>3, <1>4, XFreeFields DEF XIn
<1>12. \A v, b : XSlotHolders(v, b)' = XSlotHolders(v, b) /\ XCounterHolders(v, b)' = XCounterHolders(v, b)
  BY <1>11 DEF XSlotHolders, XCounterHolders, XIn
<1>13. XSlotsAccounted'
  BY <1>1, <1>12, XAgreeIs DEF XSlotsAccounted
<1>14. XCountersAgree'
  <2>1. ASSUME NEW v \in Users, NEW b \in Addrs, <<v, b>> \notin xlost'
        PROVE  Cardinality(XCounterHolders(v, b)) = XCount(v, b)'
    <3>1. xlost \subseteq xlost'
      BY <1>1
    <3>2. Cardinality(XCounterHolders(v, b)) = XCount(v, b)
      BY <2>1, <3>1, XAgreeIs
    <3>3. CASE v = u /\ b = a
      <4>1. H = {}
        BY <1>1, <2>1, <3>3
      <4>2. ASSUME NEW d \in Conns, XIn(xconn[d], "counter", u, a) PROVE FALSE
        <5>1. xconn[d].stray = TRUE
          BY <1>7, <4>1, <4>2 DEF XIn, XCounts
        <5>2. <<u, a>> \in xlost
          BY <4>2, <5>1, XOf1 DEF XFound, XIn
        <5> QED BY <2>1, <3>1, <3>3, <5>2
      <4>3. XCounterHolders(v, b) = {}
        BY <3>3, <4>2 DEF XCounterHolders, XIn
      <4>4. XCount(v, b)' = 0
        BY <1>1, <1>2, <3>3 DEF XCount
      <4> QED BY <4>3, <4>4, FS_EmptySet
    <3>4. CASE ~(v = u /\ b = a)
      <4>1. xfree'[v][b] = xfree[v][b]
        BY <1>1, <1>2, <3>4
      <4> QED BY <3>2, <4>1 DEF XCount
    <3> QED BY <3>3, <3>4
  <2> QED BY <1>12, <2>1, XAgreeIs
<1> QED BY <1>6, <1>10, <1>13, <1>14 DEF XInv

LEMMA XInvInit == XInit => XInv
<1> SUFFICES ASSUME XInit PROVE XInv
  OBVIOUS
<1>1. /\ xlimits = [u \in Users |-> 0] /\ xentered = {} /\ xmapped = {} /\ xlost = {} /\ xcrashed = FALSE
      /\ xfree = [u \in Users |-> [a \in Addrs |-> None]]
      /\ xslots = [u \in Users |-> [a \in Addrs |-> 0]]
      /\ \A c \in Conns : xconn[c] = XFree
      /\ xconn = [c \in Conns |-> XFree]
  BY DEF XInit
<1>2. XTypeOK
  BY <1>1, XFreeFields, BaseConstants DEF XTypeOK
<1>3. XConnsGood
  BY <1>1, XFreeFields DEF XConnsGood, XShape, XFound, XCounts, XQuiet
<1>4. \A u, a : XSlotHolders(u, a) = {} /\ XCounterHolders(u, a) = {}
  BY <1>1, XFreeFields DEF XSlotHolders, XCounterHolders
<1>5. Cardinality({}) = 0
  BY FS_EmptySet
<1>6. XSlotsAccounted
  BY <1>1, <1>4, <1>5, SMTT(30) DEF XSlotsAccounted
<1>7. XCountersAgree
  BY <1>1, <1>4, <1>5 DEF XCountersAgree
<1> QED BY <1>2, <1>3, <1>6, <1>7 DEF XInv

LEMMA XInvNext == XInv /\ [XNext]_xdispatcher => XInv'
<1> SUFFICES ASSUME XInv, [XNext]_xdispatcher PROVE XInv'
  OBVIOUS
<1>1. ASSUME NEW table \in [Users -> DeviceLimits], XUpdateLimits(table) PROVE XInv'
  <2>1. XTables' /\ UNCHANGED <<xentered, xfree, xslots, xconn, xlost>>
    BY <1>1, XTyped DEF XUpdateLimits, XTables, XInv
  <2> QED BY <2>1, XStill
<1>2. ASSUME NEW c \in Conns, XStep(c) PROVE XInv'
  BY <1>2, XBegins, XPasses, XSlotSteps, XCounterSteps, XDrops DEF XStep
<1>3. CASE UNCHANGED xdispatcher
  <2>1. XTables' /\ UNCHANGED <<xentered, xfree, xslots, xconn, xlost>>
    BY <1>3, XTyped DEF xdispatcher, XTables, XInv
  <2> QED BY <2>1, XStill
<1> QED BY <1>1, <1>2, <1>3 DEF XNext

LEMMA XInvAlways == XSpec => []XInv
BY XInvInit, XInvNext, PTL DEF XSpec

\* The slots of a user with a device limit are never fewer than the connections that took
\* them, and as many while the user was never counted without a limit (dispatcher.go).  The
\* invariant adds, for each connection, what its place in Dispatch says of what it holds.
THEOREM SlotsCounted == XSpec => []XSlotsAccounted
<1>1. XInv => XSlotsAccounted
  BY DEF XInv
<1> QED BY <1>1, XInvAlways, PTL

\* The count of an address of a user without a limit is the number of its connections, while
\* none of its counters went astray (dispatcher.go).  The invariant adds that the counter a
\* connection has found is in the map, unless that one was lost.
THEOREM CountersCounted == XSpec => []XCountersAgree
<1>1. XInv => XCountersAgree
  BY DEF XInv
<1> QED BY <1>1, XInvAlways, PTL
=============================================================================
