---------------------------- MODULE DataPlaneProofs ----------------------------
(***************************************************************************)
(* The data plane of the sing-box kernel for every set of users,           *)
(* addresses, connections, device and speed limits: what is proved of the  *)
(* tracker and of the speed limits, and of the kicks of both together.     *)
(***************************************************************************)
EXTENDS DataPlane, FiniteSetTheorems, TLAPS

-----------------------------------------------------------------------------
(***************************************************************************)
(* The connection tracker: types.  That no count of an address goes below  *)
(* zero is the business of CountsAgree.                                    *)
(***************************************************************************)
TypedButCounts ==
    /\ accepts \subseteq Users /\ known \subseteq Users /\ swapping \in BOOLEAN
    /\ refs \in [Conns -> Users \union {None, "absent"}]
    /\ devlimit \in [Users -> DeviceLimits]
    /\ devices \in [Users -> SUBSET Addrs]
    /\ shutting \subseteq Conns
    /\ conn \in [Conns -> ConnState]
    /\ excess \in [Users -> SUBSET Addrs]
    /\ \A c \in Conns : conn[c].at # "free" => conn[c].user \in Users /\ conn[c].addr \in Addrs

LEMMA FreeType == Free \in ConnState /\ Free.at = "free" /\ ~Free.tracked
BY BaseConstants DEF Free, ConnState, Stages

LEMMA TypesSplit == TrackerTypeOK <=> TypedButCounts /\ ips \in [Users -> [Addrs -> Nat]]
BY DEF TrackerTypeOK, TypedButCounts

\* The state a connection is in after a step of its own.
LEMMA Becoming ==
    ASSUME TypedButCounts, NEW c \in Conns, NEW new \in ConnState, Becomes(c, new),
           new.at # "free" => new.user \in Users /\ new.addr \in Addrs
    PROVE  /\ conn' \in [Conns -> ConnState]
           /\ conn'[c] = new
           /\ \A d \in Conns \ {c} : conn'[d] = conn[d]
           /\ \A d \in Conns : conn'[d].at # "free" => conn'[d].user \in Users /\ conn'[d].addr \in Addrs
BY DEF TypedButCounts, Becomes

\* A connection that moves keeps whose it is.
LEMMA Moving ==
    ASSUME TypedButCounts, NEW c \in Conns, NEW stage \in Stages, Moves(c, stage), conn[c].at # "free"
    PROVE  /\ conn' \in [Conns -> ConnState]
           /\ conn'[c] = [conn[c] EXCEPT !.at = stage]
           /\ conn'[c].at = stage /\ conn'[c].tracked = conn[c].tracked /\ conn'[c].crossed = conn[c].crossed
           /\ conn'[c].user = conn[c].user /\ conn'[c].addr = conn[c].addr
           /\ \A d \in Conns \ {c} : conn'[d] = conn[d]
           /\ \A d \in Conns : conn'[d].at # "free" => conn'[d].user \in Users /\ conn'[d].addr \in Addrs
<1> DEFINE new == [conn[c] EXCEPT !.at = stage]
<1>1. conn[c] \in ConnState /\ conn[c].user \in Users /\ conn[c].addr \in Addrs
  BY DEF TypedButCounts
<1>2. /\ new \in ConnState /\ new.at = stage
      /\ new.user = conn[c].user /\ new.addr = conn[c].addr
      /\ new.tracked = conn[c].tracked /\ new.crossed = conn[c].crossed
  BY <1>1 DEF ConnState
<1>3. Becomes(c, new)
  BY DEF Moves
<1> HIDE DEF new
<1>4. /\ conn' \in [Conns -> ConnState] /\ conn'[c] = new
      /\ \A d \in Conns \ {c} : conn'[d] = conn[d]
      /\ \A d \in Conns : conn'[d].at # "free" => conn'[d].user \in Users /\ conn'[d].addr \in Addrs
  BY <1>1, <1>2, <1>3, Becoming
<1> QED BY <1>2, <1>4 DEF new

\* The steps of a connection on its way in leave the counts and the register be, and are
\* of a connection that is not counted, nor will be.
Entering(c) ==
    \/ \E u \in Users, a \in Addrs : Accept(c, u, a)
    \/ LookUp(c) \/ RejectByACL(c) \/ ReadDeviceLimit(c) \/ EnterGate(c)
    \/ PassGate(c) \/ Refuse(c)

LEMMA EnteringTypes ==
    ASSUME TypedButCounts, NEW c \in Conns, Entering(c)
    PROVE  /\ TypedButCounts'
           /\ \A d \in Conns \ {c} : conn'[d] = conn[d]
           /\ conn[c].at \notin Counted /\ conn'[c].at \notin Counted
           /\ UNCHANGED <<accepts, known, swapping, ips, refs, devlimit, devices, shutting, excess>>
<1>1. /\ conn \in [Conns -> ConnState] /\ conn[c] \in ConnState
      /\ swapping \in BOOLEAN /\ known \subseteq Users /\ devlimit \in [Users -> DeviceLimits]
      /\ conn[c].at # "free" => conn[c].user \in Users /\ conn[c].addr \in Addrs
  BY DEF TypedButCounts
<1>2. ASSUME NEW new \in ConnState, Becomes(c, new),
             new.at # "free" => new.user \in Users /\ new.addr \in Addrs,
             UNCHANGED <<accepts, known, swapping, ips, refs, devlimit, devices, shutting, excess>>
      PROVE  /\ TypedButCounts'
             /\ \A d \in Conns \ {c} : conn'[d] = conn[d]
             /\ conn'[c].at = new.at
  <2>1. /\ conn' \in [Conns -> ConnState]
        /\ conn'[c] = new
        /\ \A d \in Conns \ {c} : conn'[d] = conn[d]
        /\ \A d \in Conns : conn'[d].at # "free" => conn'[d].user \in Users /\ conn'[d].addr \in Addrs
    BY <1>2, Becoming
  <2> QED BY <1>2, <2>1 DEF TypedButCounts
<1>3. ASSUME NEW u \in Users, NEW a \in Addrs, Accept(c, u, a)
      PROVE  /\ TypedButCounts'
             /\ \A d \in Conns \ {c} : conn'[d] = conn[d]
             /\ conn[c].at \notin Counted /\ conn'[c].at \notin Counted
  <2> DEFINE new == [Free EXCEPT !.at = "routed", !.user = u, !.addr = a, !.crossed = swapping]
  <2>1. new \in ConnState /\ new.at = "routed" /\ new.user = u /\ new.addr = a
    BY <1>1, <1>3, BaseConstants DEF Free, ConnState, Stages
  <2> QED BY <1>2, <1>3, <2>1 DEF Accept, Counted
<1>4. CASE LookUp(c)
  <2> DEFINE found == conn[c].user \in known
             new == [conn[c] EXCEPT !.at = "looked", !.tracked = found]
  <2>0. found \in BOOLEAN
    OBVIOUS
  <2>2. Becomes(c, new) /\ conn[c].at = "routed"
    BY <1>4 DEF LookUp
  <2> HIDE DEF found
  <2>1. new \in ConnState /\ new.at = "looked" /\ new.user = conn[c].user /\ new.addr = conn[c].addr
    BY <1>1, <2>0, <2>2 DEF ConnState, Stages
  <2>3. UNCHANGED <<accepts, known, swapping, ips, refs, devlimit, devices, shutting, excess>>
    BY <1>4 DEF LookUp
  <2> HIDE DEF new
  <2> QED BY <1>1, <1>2, <2>1, <2>2, <2>3 DEF Counted
<1>5. CASE RejectByACL(c) \/ Refuse(c)
  BY <1>2, <1>5, FreeType DEF RejectByACL, Refuse, Counted
<1>6. CASE ReadDeviceLimit(c)
  <2> DEFINE limit == devlimit[conn[c].user]
             gated == [conn[c] EXCEPT !.at = "limited", !.limit = limit]
             free == [conn[c] EXCEPT !.at = "passed", !.excused = TRUE]
  <2>1. /\ conn[c].at = "looked"
        /\ Becomes(c, gated) \/ Becomes(c, free)
    BY <1>6 DEF ReadDeviceLimit
  <2>2. limit \in DeviceLimits
    BY <1>1, <2>1
  <2> HIDE DEF limit
  <2>3. gated \in ConnState /\ gated.at = "limited" /\ gated.user = conn[c].user /\ gated.addr = conn[c].addr
    BY <1>1, <2>2 DEF ConnState, Stages
  <2>4. free \in ConnState /\ free.at = "passed" /\ free.user = conn[c].user /\ free.addr = conn[c].addr
    BY <1>1 DEF ConnState, Stages
  <2>5. UNCHANGED <<accepts, known, swapping, ips, refs, devlimit, devices, shutting, excess>>
    BY <1>6 DEF ReadDeviceLimit
  <2> HIDE DEF gated, free
  <2> QED BY <1>1, <1>2, <2>1, <2>3, <2>4, <2>5 DEF Counted
<1>7. CASE EnterGate(c)
  <2> DEFINE own == Local(conn[c].user)
             free == conn[c].addr \in own
             new == [conn[c] EXCEPT !.at = "gated", !.seen = own, !.excused = free]
  <2>1. own \in SUBSET Addrs /\ free \in BOOLEAN
    BY DEF Local
  <2>3. Becomes(c, new)
    BY <1>7 DEF EnterGate
  <2> HIDE DEF own, free
  <2>2. new \in ConnState /\ new.at = "gated" /\ new.user = conn[c].user /\ new.addr = conn[c].addr
    BY <1>1, <2>1 DEF ConnState, Stages
  <2> QED BY <1>1, <1>2, <1>7, <2>2, <2>3 DEF EnterGate, Counted
<1>8. CASE PassGate(c)
  <2> DEFINE free == conn[c].excused \/ conn[c].addr \in devices[conn[c].user] \/ Sorted(c)
             new == [conn[c] EXCEPT !.at = "passed", !.limit = 0, !.seen = {}, !.excused = free]
  <2>1. free \in BOOLEAN
    BY <1>1 DEF ConnState, Sorted
  <2>2. Becomes(c, new)
    BY <1>8 DEF PassGate
  <2> HIDE DEF free
  <2>3. new \in ConnState /\ new.at = "passed" /\ new.user = conn[c].user /\ new.addr = conn[c].addr
    BY <1>1, <2>1, BaseConstants DEF ConnState, Stages
  <2> QED BY <1>1, <1>2, <1>8, <2>2, <2>3 DEF PassGate, Counted
<1>9. UNCHANGED <<accepts, known, swapping, ips, refs, devlimit, devices, shutting, excess>>
  BY DEF Entering, Accept, LookUp, RejectByACL, ReadDeviceLimit, EnterGate, PassGate, Refuse
<1> QED BY <1>3, <1>4, <1>5, <1>6, <1>7, <1>8, <1>9 DEF Entering

\* The other steps of a connection, of the service, of the limiter and of the panel's lists.
LEMMA OtherTypes ==
    ASSUME TypedButCounts, TrackerNext, ~\E c \in Conns : Entering(c)
    PROVE  TypedButCounts'
<1>1. /\ conn \in [Conns -> ConnState] /\ swapping \in BOOLEAN
      /\ accepts \subseteq Users /\ known \subseteq Users /\ shutting \subseteq Conns
      /\ refs \in [Conns -> Users \union {None, "absent"}]
      /\ excess \in [Users -> SUBSET Addrs] /\ devices \in [Users -> SUBSET Addrs]
      /\ devlimit \in [Users -> DeviceLimits]
      /\ \A c \in Conns : conn[c].at # "free" => conn[c].user \in Users /\ conn[c].addr \in Addrs
  BY DEF TypedButCounts
<1>2. ASSUME NEW S \in SUBSET Users, SwapInbounds(S) PROVE TypedButCounts'
  <2>1. \A c \in Conns : conn'[c] \in ConnState /\ conn'[c].at = conn[c].at
                         /\ conn'[c].user = conn[c].user /\ conn'[c].addr = conn[c].addr
    <3> SUFFICES ASSUME NEW c \in Conns
                 PROVE  /\ conn'[c] \in ConnState /\ conn'[c].at = conn[c].at
                        /\ conn'[c].user = conn[c].user /\ conn'[c].addr = conn[c].addr
      OBVIOUS
    <3>1. conn'[c] = conn[c] \/ conn'[c] = [conn[c] EXCEPT !.crossed = TRUE]
      BY <1>1, <1>2 DEF SwapInbounds
    <3>2. conn[c] \in ConnState
      BY <1>1
    <3>3. CASE conn'[c] = conn[c]
      BY <3>2, <3>3
    <3>4. CASE conn'[c] = [conn[c] EXCEPT !.crossed = TRUE]
      BY <3>2, <3>4 DEF ConnState
    <3> QED BY <3>1, <3>3, <3>4
  <2>2. conn' \in [Conns -> ConnState]
    BY <1>2, <2>1 DEF SwapInbounds
  <2> QED BY <1>1, <1>2, <2>1, <2>2 DEF SwapInbounds, TypedButCounts
<1>3. CASE SetUserMap \/ ForgetGlobalDevices \/ \E lists \in [Users -> SUBSET Addrs] : UpdateGlobalDevices(lists)
  BY <1>1, <1>3 DEF SetUserMap, ForgetGlobalDevices, UpdateGlobalDevices, TypedButCounts
<1>4. ASSUME NEW u \in Users, CloseByUUID(u) PROVE TypedButCounts'
  BY <1>1, <1>4 DEF CloseByUUID, Found, TypedButCounts
<1>5. ASSUME NEW c \in Conns, AddConn(c) PROVE TypedButCounts'
  <2>1. conn[c].at = "passed" /\ conn[c].user \in Users /\ conn[c].addr \in Addrs
    BY <1>1, <1>5 DEF AddConn
  <2>2. \A d \in Conns : conn'[d] \in ConnState /\ (conn'[d].at # "free" => conn[d].at # "free")
                         /\ conn'[d].user = conn[d].user /\ conn'[d].addr = conn[d].addr
    <3>1. conn'[c] = [conn[c] EXCEPT !.at = "admitted", !.excused = FALSE, !.raced = FALSE]
      BY <1>1, <1>5 DEF AddConn
    <3>2. \A d \in Conns \ {c} : conn'[d] = conn[d] \/ conn'[d] = [conn[d] EXCEPT !.raced = TRUE]
      BY <1>1, <1>5 DEF AddConn
    <3>3. \A d \in Conns : conn[d] \in ConnState
      BY <1>1
    <3>4. ASSUME NEW d \in Conns \ {c}
          PROVE  /\ conn'[d] \in ConnState /\ conn'[d].at = conn[d].at
                 /\ conn'[d].user = conn[d].user /\ conn'[d].addr = conn[d].addr
      <4>1. conn[d] \in ConnState /\ conn'[d] \in {conn[d], [conn[d] EXCEPT !.raced = TRUE]}
        BY <3>2, <3>3
      <4> QED BY <4>1 DEF ConnState
    <3>5. conn'[c] \in ConnState /\ conn'[c].user = conn[c].user /\ conn'[c].addr = conn[c].addr
      BY <3>1, <3>3 DEF ConnState, Stages
    <3> QED BY <2>1, <3>4, <3>5
  <2>3. conn' \in [Conns -> ConnState]
    BY <1>5, <2>2 DEF AddConn
  <2>4. excess' \in [Users -> SUBSET Addrs]
    BY <1>1, <1>5, <2>1 DEF AddConn
  <2> QED BY <1>1, <1>5, <2>2, <2>3, <2>4 DEF AddConn, TypedButCounts
<1>6. ASSUME NEW c \in Conns, Register(c) PROVE TypedButCounts'
  <2>1. refs' \in [Conns -> Users \union {None, "absent"}]
    BY <1>1, <1>6 DEF Register
  <2> QED BY <1>1, <1>6, <2>1, Moving DEF Register, Stages, TypedButCounts
<1>7. ASSUME NEW c \in Conns, Open(c) PROVE TypedButCounts'
  BY <1>1, <1>7, Moving DEF Open, Stages, TypedButCounts
<1>8. ASSUME NEW c \in Conns, Close(c) PROVE TypedButCounts'
  <2>1. excess' \in [Users -> SUBSET Addrs]
    BY <1>1, <1>8 DEF Close, ReleaseAddr
  <2> QED BY <1>1, <1>8, <2>1, Moving DEF Close, Stages, TypedButCounts
<1>9. ASSUME NEW c \in Conns, Unregister(c) PROVE TypedButCounts'
  <2>1. refs' \in [Conns -> Users \union {None, "absent"}]
    BY <1>1, <1>9 DEF Unregister
  <2> QED BY <1>1, <1>9, <2>1, Becoming, FreeType DEF Unregister, TypedButCounts
<1>10. ASSUME NEW c \in Conns, Shut(c) PROVE TypedButCounts'
  <2>1. /\ conn' \in [Conns -> ConnState]
        /\ \A d \in Conns : conn'[d].at = conn[d].at /\ conn'[d].user = conn[d].user /\ conn'[d].addr = conn[d].addr
    <3>1. conn' = conn \/ conn' = [conn EXCEPT ![c].shut = TRUE]
      BY <1>10 DEF Shut
    <3>2. conn[c] \in ConnState /\ [conn[c] EXCEPT !.shut = TRUE] \in ConnState
      BY <1>1, ZenonT(60) DEF ConnState
    <3>3. /\ [conn[c] EXCEPT !.shut = TRUE].at = conn[c].at
          /\ [conn[c] EXCEPT !.shut = TRUE].user = conn[c].user
          /\ [conn[c] EXCEPT !.shut = TRUE].addr = conn[c].addr
      BY <3>2 DEF ConnState
    <3>4. conn'[c] \in {conn[c], [conn[c] EXCEPT !.shut = TRUE]} /\ \A d \in Conns \ {c} : conn'[d] = conn[d]
      BY <1>1, <3>1
    <3>5. conn' \in [Conns -> ConnState]
      BY <1>1, <3>1, <3>2
    <3> QED BY <3>3, <3>4, <3>5
  <2> QED BY <1>1, <1>10, <2>1 DEF Shut, TypedButCounts
<1>11. ASSUME NEW table \in [Users -> DeviceLimits], SetDeviceLimits(table) PROVE TypedButCounts'
  <2>1. ASSUME NEW c \in Conns
        PROVE  /\ conn'[c] \in ConnState /\ conn'[c].at = conn[c].at
               /\ conn'[c].user = conn[c].user /\ conn'[c].addr = conn[c].addr
    <3>1. conn[c] \in ConnState /\ conn'[c] \in {conn[c], [conn[c] EXCEPT !.raced = TRUE]}
      BY <1>1, <1>11 DEF SetDeviceLimits
    <3> QED BY <3>1 DEF ConnState
  <2>2. conn' \in [Conns -> ConnState]
    BY <1>11, <2>1 DEF SetDeviceLimits
  <2>3. excess' \in [Users -> SUBSET Addrs]
    BY <1>1, <1>11 DEF SetDeviceLimits, Local
  <2>4. devlimit' \in [Users -> DeviceLimits] /\ UNCHANGED <<accepts, known, swapping, refs, devices, shutting>>
    BY <1>11 DEF SetDeviceLimits
  <2> QED BY <1>1, <2>1, <2>2, <2>3, <2>4 DEF TypedButCounts
<1> QED BY <1>2, <1>3, <1>4, <1>5, <1>6, <1>7, <1>8, <1>9, <1>10, <1>11
        DEF TrackerNext, OpenStep, CloseStep, Entering

-----------------------------------------------------------------------------
(***************************************************************************)
(* Addresses are counted as often as they are held.                        *)
(***************************************************************************)
Holders(u, a) == {c \in Conns : Holding(c) /\ conn[c].user = u /\ conn[c].addr = a}

Counts == ips \in [Users -> [Addrs -> Nat]] /\ CountsAgree

LEMMA HoldersFinite ==
    ASSUME NEW u, NEW a
    PROVE  IsFiniteSet(Holders(u, a)) /\ Cardinality(Holders(u, a)) \in Nat
<1>1. Holders(u, a) \subseteq Conns
  BY DEF Holders
<1> QED BY <1>1, BaseConstants, FS_Subset, FS_CardinalityType

\* A step that has nobody come or go.
LEMMA CountsKept ==
    ASSUME Counts, UNCHANGED ips,
           \A c \in Conns : /\ Holding(c)' <=> Holding(c)
                            /\ Holding(c) => conn'[c].user = conn[c].user /\ conn'[c].addr = conn[c].addr
    PROVE  Counts'
<1>1. ASSUME NEW u \in Users, NEW a \in Addrs PROVE Holders(u, a)' = Holders(u, a)
  BY DEF Holders
<1>2. CountsAgree'
  BY <1>1 DEF Counts, CountsAgree, Holders
<1> QED BY <1>2 DEF Counts

\* A step by which one connection comes.
LEMMA CountsAdd ==
    ASSUME Counts, TypedButCounts, NEW c \in Conns, conn[c].user \in Users, conn[c].addr \in Addrs,
           ips' = [ips EXCEPT ![conn[c].user][conn[c].addr] = @ + 1],
           ~Holding(c), Holding(c)', conn'[c].user = conn[c].user, conn'[c].addr = conn[c].addr,
           \A d \in Conns \ {c} : /\ Holding(d)' <=> Holding(d)
                                  /\ Holding(d) => conn'[d].user = conn[d].user /\ conn'[d].addr = conn[d].addr
    PROVE  Counts'
<1>0. PICK v \in Users, b \in Addrs : v = conn[c].user /\ b = conn[c].addr
  OBVIOUS
<1>1. ips' \in [Users -> [Addrs -> Nat]] /\ ips'[v][b] = ips[v][b] + 1
      /\ \A u \in Users, a \in Addrs : <<u, a>> # <<v, b>> => ips'[u][a] = ips[u][a]
  BY <1>0 DEF Counts
<1>2. Holders(v, b)' = Holders(v, b) \union {c} /\ c \notin Holders(v, b)
  BY <1>0 DEF Holders
<1>3. Cardinality(Holders(v, b)') = Cardinality(Holders(v, b)) + 1
  BY <1>2, HoldersFinite, FS_AddElement
<1>4. ASSUME NEW u \in Users, NEW a \in Addrs, <<u, a>> # <<v, b>> PROVE Holders(u, a)' = Holders(u, a)
  BY <1>0, <1>4 DEF Holders
<1>5. \A u \in Users, a \in Addrs : ips[u][a] = Cardinality(Holders(u, a))
  BY DEF Counts, CountsAgree, Holders
<1>6. ASSUME NEW u \in Users, NEW a \in Addrs PROVE ips'[u][a] = Cardinality(Holders(u, a)')
  <2>1. CASE <<u, a>> = <<v, b>>
    BY <1>1, <1>3, <1>5, <2>1
  <2>2. CASE <<u, a>> # <<v, b>>
    BY <1>1, <1>4, <1>5, <2>2
  <2> QED BY <2>1, <2>2
<1>7. CountsAgree'
  BY <1>6 DEF CountsAgree, Holders
<1> QED BY <1>1, <1>7 DEF Counts

\* A step by which one connection goes.
LEMMA CountsRemove ==
    ASSUME Counts, TypedButCounts, NEW c \in Conns, conn[c].user \in Users, conn[c].addr \in Addrs,
           ips' = [ips EXCEPT ![conn[c].user][conn[c].addr] = @ - 1],
           Holding(c), ~Holding(c)',
           \A d \in Conns \ {c} : /\ Holding(d)' <=> Holding(d)
                                  /\ Holding(d) => conn'[d].user = conn[d].user /\ conn'[d].addr = conn[d].addr
    PROVE  Counts'
<1>0. PICK v \in Users, b \in Addrs : v = conn[c].user /\ b = conn[c].addr
  OBVIOUS
<1>1. c \in Holders(v, b) /\ Holders(v, b)' = Holders(v, b) \ {c}
  <2>1. c \in Holders(v, b) /\ c \notin Holders(v, b)'
    BY <1>0 DEF Holders
  <2>2. \A d \in Conns \ {c} : d \in Holders(v, b)' <=> d \in Holders(v, b)
    BY DEF Holders
  <2>3. Holders(v, b) \subseteq Conns /\ Holders(v, b)' \subseteq Conns
    BY DEF Holders
  <2> QED BY <2>1, <2>2, <2>3
<1>2. Cardinality(Holders(v, b)') = Cardinality(Holders(v, b)) - 1 /\ Cardinality(Holders(v, b)') \in Nat
  <2>1. IsFiniteSet(Holders(v, b))
    BY HoldersFinite
  <2>2. Cardinality(Holders(v, b) \ {c}) = Cardinality(Holders(v, b)) - 1
    BY <1>1, <2>1, FS_RemoveElement
  <2>3. Cardinality(Holders(v, b) \ {c}) \in Nat
    BY <2>1, FS_Subset, FS_CardinalityType
  <2> QED BY <1>1, <2>2, <2>3
<1>3. \A u \in Users, a \in Addrs : ips[u][a] = Cardinality(Holders(u, a))
  BY DEF Counts, CountsAgree, Holders
<1>4. ips[v][b] - 1 \in Nat
  BY <1>2, <1>3
<1>5. ips' \in [Users -> [Addrs -> Nat]] /\ ips'[v][b] = ips[v][b] - 1
      /\ \A u \in Users, a \in Addrs : <<u, a>> # <<v, b>> => ips'[u][a] = ips[u][a]
  BY <1>0, <1>4 DEF Counts
<1>6. ASSUME NEW u \in Users, NEW a \in Addrs, <<u, a>> # <<v, b>> PROVE Holders(u, a)' = Holders(u, a)
  BY <1>0, <1>6 DEF Holders
<1>7. ASSUME NEW u \in Users, NEW a \in Addrs PROVE ips'[u][a] = Cardinality(Holders(u, a)')
  <2>1. CASE <<u, a>> = <<v, b>>
    <3>1. ips[v][b] = Cardinality(Holders(v, b))
      BY <1>3
    <3>2. ips'[v][b] = Cardinality(Holders(v, b)')
      BY <1>2, <1>5, <3>1
    <3> QED BY <2>1, <3>2
  <2>2. CASE <<u, a>> # <<v, b>>
    BY <1>3, <1>5, <1>6, <2>2
  <2> QED BY <2>1, <2>2
<1>8. CountsAgree'
  BY <1>7 DEF CountsAgree, Holders
<1> QED BY <1>5, <1>8 DEF Counts

\* A connection that is as it was, but for what a step notes about it.
Alike(d) ==
    /\ conn'[d].at = conn[d].at /\ conn'[d].tracked = conn[d].tracked
    /\ conn'[d].user = conn[d].user /\ conn'[d].addr = conn[d].addr

LEMMA AddConnAlike ==
    ASSUME TypedButCounts, NEW c \in Conns, AddConn(c)
    PROVE  /\ conn'[c].at = "admitted" /\ conn'[c].tracked = conn[c].tracked /\ conn'[c].crossed = conn[c].crossed
           /\ conn'[c].user = conn[c].user /\ conn'[c].addr = conn[c].addr
           /\ \A d \in Conns \ {c} : Alike(d) /\ conn'[d].crossed = conn[d].crossed
<1>1. \A d \in Conns : conn[d] \in ConnState
  BY DEF TypedButCounts
<1>2. conn'[c] = [conn[c] EXCEPT !.at = "admitted", !.excused = FALSE, !.raced = FALSE]
  BY DEF AddConn
<1>3. \A d \in Conns \ {c} : conn'[d] = conn[d] \/ conn'[d] = [conn[d] EXCEPT !.raced = TRUE]
  BY DEF AddConn
<1>4. ASSUME NEW d \in Conns \ {c} PROVE Alike(d) /\ conn'[d].crossed = conn[d].crossed
  <2>1. conn[d] \in ConnState /\ (conn'[d] = conn[d] \/ conn'[d] = [conn[d] EXCEPT !.raced = TRUE])
    BY <1>1, <1>3
  <2> DEFINE noted == [conn[d] EXCEPT !.raced = TRUE]
  <2>2. /\ noted.at = conn[d].at /\ noted.tracked = conn[d].tracked /\ noted.crossed = conn[d].crossed
        /\ noted.user = conn[d].user /\ noted.addr = conn[d].addr
    BY <2>1 DEF ConnState
  <2>3. conn'[d] = conn[d] \/ conn'[d] = noted
    BY <2>1
  <2> HIDE DEF noted
  <2> QED BY <2>2, <2>3 DEF Alike
<1>5. /\ conn'[c].at = "admitted" /\ conn'[c].tracked = conn[c].tracked /\ conn'[c].crossed = conn[c].crossed
      /\ conn'[c].user = conn[c].user /\ conn'[c].addr = conn[c].addr
  <2> DEFINE new == [conn[c] EXCEPT !.at = "admitted", !.excused = FALSE, !.raced = FALSE]
  <2>1. conn[c] \in ConnState
    BY <1>1
  <2>2. /\ new.at = "admitted" /\ new.tracked = conn[c].tracked /\ new.crossed = conn[c].crossed
        /\ new.user = conn[c].user /\ new.addr = conn[c].addr
    BY <2>1 DEF ConnState
  <2>3. conn'[c] = new
    BY <1>2
  <2> HIDE DEF new
  <2> QED BY <2>2, <2>3
<1> QED BY <1>4, <1>5

LEMMA ShutAlike ==
    ASSUME TypedButCounts, NEW c \in Conns, Shut(c), NEW d \in Conns
    PROVE  Alike(d) /\ conn'[d].crossed = conn[d].crossed
<1>1. conn[d] \in ConnState /\ conn \in [Conns -> ConnState]
  BY DEF TypedButCounts
<1> DEFINE new == [conn[d] EXCEPT !.shut = TRUE]
<1>2. conn'[d] = conn[d] \/ conn'[d] = new
  BY <1>1 DEF Shut
<1>3. /\ new.at = conn[d].at /\ new.tracked = conn[d].tracked /\ new.crossed = conn[d].crossed
      /\ new.user = conn[d].user /\ new.addr = conn[d].addr
  BY <1>1 DEF ConnState
<1> HIDE DEF new
<1> QED BY <1>2, <1>3 DEF Alike

LEMMA LimitsAlike ==
    ASSUME TypedButCounts, NEW table, SetDeviceLimits(table), NEW d \in Conns
    PROVE  Alike(d) /\ conn'[d].crossed = conn[d].crossed
<1>1. conn[d] \in ConnState
  BY DEF TypedButCounts
<1> DEFINE new == [conn[d] EXCEPT !.raced = TRUE]
<1>2. conn'[d] = conn[d] \/ conn'[d] = new
  BY DEF SetDeviceLimits
<1>3. /\ new.at = conn[d].at /\ new.tracked = conn[d].tracked /\ new.crossed = conn[d].crossed
      /\ new.user = conn[d].user /\ new.addr = conn[d].addr
  BY <1>1 DEF ConnState
<1> HIDE DEF new
<1> QED BY <1>2, <1>3 DEF Alike

LEMMA SwapAlike ==
    ASSUME TypedButCounts, NEW S, SwapInbounds(S), NEW d \in Conns
    PROVE  Alike(d) /\ (IF conn[d].at = "routed" THEN conn'[d].crossed ELSE conn'[d] = conn[d])
<1>1. conn[d] \in ConnState
  BY DEF TypedButCounts
<1> DEFINE new == [conn[d] EXCEPT !.crossed = TRUE]
<1>2. conn'[d] = IF conn[d].at = "routed" THEN new ELSE conn[d]
  BY DEF SwapInbounds
<1>3. /\ new.at = conn[d].at /\ new.tracked = conn[d].tracked /\ new.crossed = TRUE
      /\ new.user = conn[d].user /\ new.addr = conn[d].addr
  BY <1>1 DEF ConnState
<1> HIDE DEF new
<1> QED BY <1>2, <1>3 DEF Alike

LEMMA CountsNext ==
    ASSUME TypedButCounts, Counts, TrackerNext
    PROVE  Counts'
<1>1. \A c \in Conns : conn[c].at # "free" => conn[c].user \in Users /\ conn[c].addr \in Addrs
  BY DEF TypedButCounts
<1>2. ASSUME UNCHANGED ips, \A d \in Conns : Alike(d) PROVE Counts'
  BY <1>2, CountsKept DEF Alike, Holding
<1>3. ASSUME NEW c \in Conns, UNCHANGED ips, ~Holding(c), ~Holding(c)',
             \A d \in Conns \ {c} : conn'[d] = conn[d]
      PROVE  Counts'
  BY <1>3, CountsKept DEF Holding
<1>4. ASSUME NEW c \in Conns, Entering(c) PROVE Counts'
  BY <1>3, <1>4, EnteringTypes DEF Holding
<1>5. ASSUME NEW S \in SUBSET Users, SwapInbounds(S) PROVE Counts'
  BY <1>2, <1>5, SwapAlike DEF SwapInbounds
<1>6. CASE SetUserMap \/ ForgetGlobalDevices \/ (\E lists \in [Users -> SUBSET Addrs] : UpdateGlobalDevices(lists))
           \/ \E u \in Users : CloseByUUID(u)
  BY <1>2, <1>6 DEF SetUserMap, ForgetGlobalDevices, UpdateGlobalDevices, CloseByUUID, Alike
<1>7. ASSUME NEW c \in Conns, AddConn(c) PROVE Counts'
  <2>1. conn[c].at = "passed" /\ ~Holding(c)
    BY <1>7 DEF AddConn, Holding, Counted
  <2>2. Holding(c)' <=> conn[c].tracked
    BY <1>7, AddConnAlike DEF Holding, Counted
  <2>3. \A d \in Conns \ {c} : /\ Holding(d)' <=> Holding(d)
                               /\ Holding(d) => conn'[d].user = conn[d].user /\ conn'[d].addr = conn[d].addr
    BY <1>7, AddConnAlike DEF Holding, Alike
  <2>4. CASE conn[c].tracked
    BY <1>1, <1>7, <2>1, <2>2, <2>3, <2>4, AddConnAlike, CountsAdd DEF AddConn
  <2>5. CASE ~conn[c].tracked
    BY <1>7, <2>1, <2>2, <2>3, <2>5, CountsKept DEF AddConn
  <2> QED BY <2>4, <2>5
<1>8. ASSUME NEW c \in Conns, Register(c) \/ Open(c) PROVE Counts'
  <2>1. /\ conn[c].at \in Counted /\ conn'[c].at \in Counted /\ conn'[c].tracked = conn[c].tracked
        /\ conn'[c].user = conn[c].user /\ conn'[c].addr = conn[c].addr
        /\ \A d \in Conns \ {c} : conn'[d] = conn[d]
    BY <1>8, Moving DEF Register, Open, Stages, Counted
  <2>2. UNCHANGED ips
    BY <1>8 DEF Register, Open
  <2> QED BY <2>1, <2>2, CountsKept DEF Holding
<1>9. ASSUME NEW c \in Conns, Close(c) PROVE Counts'
  <2>1. /\ conn[c].at = "open" /\ conn'[c].at = "closing"
        /\ conn'[c].user = conn[c].user /\ conn'[c].addr = conn[c].addr
        /\ \A d \in Conns \ {c} : conn'[d] = conn[d]
    BY <1>9, Moving DEF Close, Stages
  <2>2. ~Holding(c)' /\ (Holding(c) <=> conn[c].tracked)
    BY <2>1 DEF Holding, Counted
  <2>3. \A d \in Conns \ {c} : /\ Holding(d)' <=> Holding(d)
                               /\ Holding(d) => conn'[d].user = conn[d].user /\ conn'[d].addr = conn[d].addr
    BY <2>1 DEF Holding
  <2>4. CASE conn[c].tracked
    BY <1>1, <1>9, <2>1, <2>2, <2>3, <2>4, CountsRemove DEF Close, ReleaseAddr
  <2>5. CASE ~conn[c].tracked
    BY <1>3, <1>9, <2>1, <2>2, <2>5 DEF Close, ReleaseAddr
  <2> QED BY <2>4, <2>5
<1>10. ASSUME NEW c \in Conns, Unregister(c) PROVE Counts'
  <2>1. ~Holding(c) /\ ~Holding(c)' /\ \A d \in Conns \ {c} : conn'[d] = conn[d]
    BY <1>10, FreeType, Becoming DEF Unregister, Holding, Counted
  <2> QED BY <1>3, <1>10, <2>1 DEF Unregister
<1>11. ASSUME NEW c \in Conns, Shut(c) PROVE Counts'
  BY <1>2, <1>11, ShutAlike DEF Shut
<1>12. ASSUME NEW table \in [Users -> DeviceLimits], SetDeviceLimits(table) PROVE Counts'
  BY <1>2, <1>12, LimitsAlike DEF SetDeviceLimits
<1> QED BY <1>4, <1>5, <1>6, <1>7, <1>8, <1>9, <1>10, <1>11, <1>12 DEF TrackerNext, OpenStep, CloseStep, Entering

TrackerInv == TypedButCounts /\ Counts

LEMMA TrackerInvInit == TrackerInit => TrackerInv
<1> SUFFICES ASSUME TrackerInit PROVE TrackerInv
  OBVIOUS
<1>1. TypedButCounts
  BY FreeType, BaseConstants DEF TrackerInit, TypedButCounts
<1>2. ips \in [Users -> [Addrs -> Nat]] /\ \A u \in Users, a \in Addrs : ips[u][a] = 0
  BY DEF TrackerInit
<1>3. ASSUME NEW u \in Users, NEW a \in Addrs PROVE Holders(u, a) = {}
  BY FreeType DEF TrackerInit, Holders, Holding
<1>4. CountsAgree
  BY <1>2, <1>3, FS_EmptySet DEF CountsAgree, Holders
<1> QED BY <1>1, <1>2, <1>4 DEF TrackerInv, Counts

LEMMA TrackerInvNext == TrackerInv /\ [TrackerNext]_tracker => TrackerInv'
<1> SUFFICES ASSUME TrackerInv, [TrackerNext]_tracker PROVE TrackerInv'
  OBVIOUS
<1>1. CASE TrackerNext
  <2>1. TypedButCounts'
    BY <1>1, OtherTypes, EnteringTypes DEF TrackerInv
  <2> QED BY <1>1, <2>1, CountsNext DEF TrackerInv
<1>2. CASE UNCHANGED tracker
  <2>1. TypedButCounts'
    BY <1>2 DEF tracker, TrackerInv, TypedButCounts
  <2>2. Counts'
    BY <1>2, CountsKept DEF tracker, TrackerInv, Holding
  <2> QED BY <2>1, <2>2 DEF TrackerInv
<1> QED BY <1>1, <1>2

\* The tracker keeps to its types; that a count of addresses never goes below zero rests
\* on CountsAgree.
THEOREM TrackerTypes == TrackerSpec => []TrackerTypeOK
<1>1. TrackerInv => TrackerTypeOK
  BY TypesSplit DEF TrackerInv, Counts
<1> QED BY <1>1, TrackerInvInit, TrackerInvNext, PTL DEF TrackerSpec

\* The counts the device gate and the reports go by are those of the connections that are
\* up, in whatever order connections come, are refused, closed twice and freed.
THEOREM AddressesCounted == TrackerSpec => []CountsAgree
<1>1. TrackerInv => CountsAgree
  BY DEF TrackerInv, Counts
<1> QED BY <1>1, TrackerInvInit, TrackerInvNext, PTL DEF TrackerSpec

-----------------------------------------------------------------------------
(***************************************************************************)
(* Connections out of reach came in while a list was being swapped.        *)
(***************************************************************************)
PastLookUp == {"looked", "limited", "gated", "passed", "admitted", "registered", "open"}

\* An accepted user is known unless a list is being swapped, and who is not known was
\* accepted then.
Reached(c) ==
    /\ conn[c].at = "routed" /\ ~conn[c].crossed => ~swapping /\ conn[c].user \in known
    /\ conn[c].at \in PastLookUp /\ ~conn[c].tracked => conn[c].crossed
    /\ conn[c].at \in {"registered", "open"} /\ conn[c].tracked => refs[c] = conn[c].user

ReachInv == (~swapping => known = accepts) /\ \A c \in Conns : Reached(c)

\* A connection in a step of its own on the way in.
LEMMA EnteringReached ==
    ASSUME TypedButCounts, ReachInv, NEW c \in Conns, Entering(c)
    PROVE  Reached(c)'
<1>1. conn \in [Conns -> ConnState] /\ conn[c] \in ConnState /\ Reached(c) /\ UNCHANGED <<known, swapping>>
  BY EnteringTypes DEF TypedButCounts, ReachInv
<1>2. CASE \E u \in Users, a \in Addrs : Accept(c, u, a)
  <2>1. PICK u \in Users, a \in Addrs : Accept(c, u, a)
    BY <1>2
  <2> DEFINE new == [Free EXCEPT !.at = "routed", !.user = u, !.addr = a, !.crossed = swapping]
  <2>2. new.at = "routed" /\ new.user = u /\ new.crossed = swapping
    BY DEF Free
  <2>3. conn'[c] = new
    BY <1>1, <2>1 DEF Accept, Becomes
  <2>4. ~swapping => u \in known
    BY <2>1 DEF Accept, ReachInv
  <2> HIDE DEF new
  <2> QED BY <1>1, <2>2, <2>3, <2>4 DEF Reached, PastLookUp
<1>3. CASE LookUp(c)
  <2> DEFINE found == conn[c].user \in known
             new == [conn[c] EXCEPT !.at = "looked", !.tracked = found]
  <2>1. conn'[c] = new /\ conn[c].at = "routed"
    BY <1>1, <1>3 DEF LookUp, Becomes
  <2>2. ~conn[c].crossed => found
    BY <1>1, <2>1 DEF Reached
  <2> HIDE DEF found
  <2>3. new.at = "looked" /\ new.tracked = found /\ new.crossed = conn[c].crossed
    BY <1>1 DEF ConnState
  <2> HIDE DEF new
  <2> QED BY <2>1, <2>2, <2>3 DEF Reached, PastLookUp
<1>4. CASE RejectByACL(c) \/ Refuse(c)
  <2>1. conn'[c].at = "free"
    BY <1>1, <1>4, FreeType DEF RejectByACL, Refuse, Becomes
  <2> QED BY <2>1 DEF Reached, PastLookUp
<1>5. CASE ReadDeviceLimit(c) \/ EnterGate(c) \/ PassGate(c)
  <2>1. /\ conn[c].at \in PastLookUp
        /\ conn'[c].at \in {"limited", "gated", "passed"} /\ conn'[c].tracked = conn[c].tracked
        /\ conn'[c].crossed = conn[c].crossed
    <3>1. CASE ReadDeviceLimit(c)
      BY <1>1, <3>1 DEF ReadDeviceLimit, Becomes, ConnState, PastLookUp
    <3>2. CASE EnterGate(c)
      BY <1>1, <3>2 DEF EnterGate, Becomes, ConnState, PastLookUp
    <3>3. CASE PassGate(c)
      BY <1>1, <3>3 DEF PassGate, Becomes, ConnState, PastLookUp
    <3> QED BY <1>5, <3>1, <3>2, <3>3
  <2> QED BY <1>1, <2>1 DEF Reached, PastLookUp
<1> QED BY <1>2, <1>3, <1>4, <1>5 DEF Entering

\* A connection another actor's step leaves as it was.
LEMMA StaysReached ==
    ASSUME NEW d \in Conns, Reached(d), Alike(d), conn'[d].crossed = conn[d].crossed,
           UNCHANGED <<known, swapping>>, refs'[d] = refs[d]
    PROVE  Reached(d)'
BY DEF Reached, Alike

LEMMA ReachNext ==
    ASSUME TypedButCounts, ReachInv, TrackerNext
    PROVE  ReachInv'
<1>1. /\ conn \in [Conns -> ConnState] /\ refs \in [Conns -> Users \union {None, "absent"}]
      /\ \A c \in Conns : conn[c].at # "free" => conn[c].user \in Users /\ conn[c].addr \in Addrs
      /\ \A d \in Conns : Reached(d)
  BY DEF TypedButCounts, ReachInv
<1>2. ASSUME UNCHANGED <<accepts, known, swapping>>, \A d \in Conns : Reached(d)' PROVE ReachInv'
  BY <1>2 DEF ReachInv
<1>3. ASSUME NEW c \in Conns, UNCHANGED <<accepts, known, swapping>>, Reached(c)',
             \A d \in Conns \ {c} : conn'[d] = conn[d] /\ refs'[d] = refs[d]
      PROVE  ReachInv'
  <2>1. \A d \in Conns \ {c} : Reached(d)'
    BY <1>1, <1>3, StaysReached DEF Alike
  <2> QED BY <1>2, <1>3, <2>1
<1>4. ASSUME NEW c \in Conns, Entering(c) PROVE ReachInv'
  BY <1>3, <1>4, EnteringReached, EnteringTypes
<1>5. ASSUME NEW S \in SUBSET Users, SwapInbounds(S) PROVE ReachInv'
  <2>1. swapping' /\ UNCHANGED <<known, refs>>
    BY <1>5 DEF SwapInbounds
  <2>2. ASSUME NEW d \in Conns PROVE Reached(d)'
    <3>1. CASE conn[d].at = "routed"
      BY <1>5, <3>1, SwapAlike DEF Reached, Alike, PastLookUp
    <3>2. CASE conn[d].at # "routed"
      <4>1. conn'[d] = conn[d]
        BY <1>5, <3>2, SwapAlike
      <4> QED BY <1>1, <2>1, <3>2, <4>1 DEF Reached
    <3> QED BY <3>1, <3>2
  <2> QED BY <2>1, <2>2 DEF ReachInv
<1>6. CASE SetUserMap
  BY <1>1, <1>6 DEF SetUserMap, ReachInv, Reached
<1>7. CASE ForgetGlobalDevices \/ (\E lists \in [Users -> SUBSET Addrs] : UpdateGlobalDevices(lists))
           \/ \E u \in Users : CloseByUUID(u)
  BY <1>1, <1>2, <1>7, StaysReached DEF ForgetGlobalDevices, UpdateGlobalDevices, CloseByUUID, Alike
<1>8. ASSUME NEW c \in Conns, AddConn(c) PROVE ReachInv'
  <2>1. UNCHANGED <<accepts, known, swapping, refs>>
    BY <1>8 DEF AddConn
  <2>2. Reached(c)'
    <3>1. conn[c].at \in PastLookUp /\ Reached(c)
      BY <1>1, <1>8 DEF AddConn, PastLookUp
    <3> QED BY <1>8, <3>1, AddConnAlike DEF Reached, PastLookUp
  <2>3. \A d \in Conns \ {c} : Reached(d)'
    BY <1>1, <1>8, <2>1, AddConnAlike, StaysReached
  <2> QED BY <1>2, <2>1, <2>2, <2>3
<1>9. ASSUME NEW c \in Conns, Register(c) PROVE ReachInv'
  <2>1. /\ conn[c].at = "admitted" /\ conn'[c].at = "registered" /\ conn'[c].tracked = conn[c].tracked
        /\ conn'[c].crossed = conn[c].crossed /\ conn'[c].user = conn[c].user
        /\ \A d \in Conns \ {c} : conn'[d] = conn[d]
    BY <1>9, Moving DEF Register, Stages
  <2>2. /\ conn[c].tracked => refs'[c] = conn[c].user
        /\ \A d \in Conns \ {c} : refs'[d] = refs[d]
        /\ UNCHANGED <<accepts, known, swapping>>
    BY <1>1, <1>9 DEF Register
  <2>3. Reached(c)'
    BY <1>1, <2>1, <2>2 DEF Reached, PastLookUp
  <2> QED BY <1>3, <2>1, <2>2, <2>3
<1>10. ASSUME NEW c \in Conns, Open(c) PROVE ReachInv'
  <2>1. /\ conn[c].at = "registered" /\ conn'[c].at = "open" /\ conn'[c].tracked = conn[c].tracked
        /\ conn'[c].crossed = conn[c].crossed /\ conn'[c].user = conn[c].user
        /\ \A d \in Conns \ {c} : conn'[d] = conn[d]
    BY <1>10, Moving DEF Open, Stages
  <2>2. UNCHANGED <<accepts, known, swapping, refs>>
    BY <1>10 DEF Open
  <2>3. Reached(c)'
    BY <1>1, <2>1, <2>2 DEF Reached, PastLookUp
  <2> QED BY <1>3, <2>1, <2>2, <2>3
<1>11. ASSUME NEW c \in Conns, Close(c) PROVE ReachInv'
  <2>1. conn'[c].at = "closing" /\ \A d \in Conns \ {c} : conn'[d] = conn[d]
    BY <1>11, Moving DEF Close, Stages
  <2>2. UNCHANGED <<accepts, known, swapping, refs>>
    BY <1>11 DEF Close
  <2> QED BY <1>3, <2>1, <2>2 DEF Reached, PastLookUp
<1>12. ASSUME NEW c \in Conns, Unregister(c) PROVE ReachInv'
  <2>1. conn'[c].at = "free" /\ \A d \in Conns \ {c} : conn'[d] = conn[d] /\ refs'[d] = refs[d]
    BY <1>1, <1>12, FreeType DEF Unregister, Becomes
  <2>2. UNCHANGED <<accepts, known, swapping>>
    BY <1>12 DEF Unregister
  <2> QED BY <1>3, <2>1, <2>2 DEF Reached, PastLookUp
<1>13. ASSUME NEW c \in Conns, Shut(c) PROVE ReachInv'
  <2>1. UNCHANGED <<accepts, known, swapping, refs>>
    BY <1>13 DEF Shut
  <2> QED BY <1>1, <1>2, <1>13, <2>1, ShutAlike, StaysReached
<1>14. ASSUME NEW table \in [Users -> DeviceLimits], SetDeviceLimits(table) PROVE ReachInv'
  <2>1. UNCHANGED <<accepts, known, swapping, refs>>
    BY <1>14 DEF SetDeviceLimits
  <2> QED BY <1>1, <1>2, <1>14, <2>1, LimitsAlike, StaysReached
<1> QED BY <1>4, <1>5, <1>6, <1>7, <1>8, <1>9, <1>10, <1>11, <1>12, <1>13, <1>14
        DEF TrackerNext, OpenStep, CloseStep, Entering

\* A kick of a user on the list finds every connection of the user that is up, but for those
\* that came in while a user list was being swapped.  For a user off the list it finds none:
\* the connections of users that left stay up.
THEOREM ReachedWhileListed == TrackerSpec => []ReachedIfListed
<1> DEFINE RInv == TrackerInv /\ ReachInv
<1>1. TrackerInit => RInv
  BY TrackerInvInit, FreeType DEF TrackerInit, ReachInv, Reached, PastLookUp
<1>2. RInv /\ [TrackerNext]_tracker => RInv'
  <2>1. TrackerInv /\ ReachInv /\ TrackerNext => ReachInv'
    BY ReachNext DEF TrackerInv
  <2>2. ReachInv /\ UNCHANGED tracker => ReachInv'
    BY DEF tracker, ReachInv, Reached
  <2> QED BY <2>1, <2>2, TrackerInvNext
<1>3. RInv => ReachedIfListed
  BY DEF ReachInv, Reached, ReachedIfListed, Found, PastLookUp
<1> QED BY <1>1, <1>2, <1>3, PTL DEF TrackerSpec

-----------------------------------------------------------------------------
(***************************************************************************)
(* Only what the code lets by brings in addresses past the device limit.   *)
(***************************************************************************)
LocalIn(counts, u) == {a \in Addrs : counts[u][a] > 0}

\* The limit a connection was given and what its gate has found still say whether there is
\* room, until another address of the user is added or the limit changes: the user has no
\* address the gate did not see, and past the gate, fewer addresses than the limit, unless
\* the connection needs no room.
Roomed(k, counts, table) ==
    k.raced = FALSE =>
        /\ k.at \in {"limited", "gated"} => k.limit = table[k.user]
        /\ k.at = "gated" => /\ LocalIn(counts, k.user) \subseteq k.seen
                             /\ k.addr \in k.seen => k.excused = TRUE
        /\ k.at = "passed" /\ k.tracked = TRUE /\ table[k.user] > 0 =>
               \/ k.excused = TRUE
               \/ Cardinality(LocalIn(counts, k.user)) < table[k.user]

RoomInv == (\A c \in Conns : Roomed(conn[c], ips, devlimit)) /\ LimitedButForExcess

LEMMA AddrSets ==
    ASSUME NEW S \in SUBSET Addrs, NEW T \in SUBSET S
    PROVE  /\ IsFiniteSet(S) /\ Cardinality(S) \in Nat /\ Cardinality(T) \in Nat
           /\ Cardinality(T) <= Cardinality(S)
<1>1. IsFiniteSet(S) /\ T \subseteq S
  BY BaseConstants, FS_Subset
<1> QED BY <1>1, FS_Subset, FS_CardinalityType

\* There is no less room when addresses go.
LEMMA StillRoomed ==
    ASSUME NEW k, NEW old, NEW new, NEW table \in [Users -> DeviceLimits], k.at # "free" => k.user \in Users,
           Roomed(k, old, table), LocalIn(new, k.user) \subseteq LocalIn(old, k.user)
    PROVE  Roomed(k, new, table)
<1> DEFINE S == LocalIn(old, k.user)
           T == LocalIn(new, k.user)
<1>1. S \in SUBSET Addrs /\ T \in SUBSET S
  BY DEF LocalIn
<1>2. Cardinality(T) <= Cardinality(S) /\ Cardinality(T) \in Nat /\ Cardinality(S) \in Nat
  <2> HIDE DEF S, T
  <2> QED BY <1>1, AddrSets
<1>3. ASSUME k.at = "passed", Cardinality(S) < table[k.user]
      PROVE  Cardinality(T) < table[k.user]
  <2>1. table[k.user] \in Nat
    BY <1>3, BaseConstants
  <2> HIDE DEF S, T
  <2> QED BY <1>2, <1>3, <2>1
<1> QED BY <1>1, <1>3 DEF Roomed

\* What a connection goes by is as it was, or overtaken.
Kept(d) ==
    /\ conn'[d].at = conn[d].at /\ conn'[d].tracked = conn[d].tracked
    /\ conn'[d].user = conn[d].user /\ conn'[d].addr = conn[d].addr
    /\ conn'[d].limit = conn[d].limit
    /\ conn'[d].seen = conn[d].seen /\ conn'[d].excused = conn[d].excused
    /\ conn'[d].raced = conn[d].raced \/ conn'[d].raced = TRUE

LEMMA KeptRoomed ==
    ASSUME NEW d \in Conns, Kept(d), NEW counts, NEW table, Roomed(conn[d], counts, table)
    PROVE  Roomed(conn'[d], counts, table)
BY DEF Kept, Roomed

LEMMA NotesKept ==
    ASSUME TypedButCounts, NEW d \in Conns
    PROVE  /\ conn'[d] = conn[d] => Kept(d)
           /\ conn'[d] = [conn[d] EXCEPT !.raced = TRUE] => Kept(d) /\ conn'[d].raced = TRUE
           /\ conn'[d] = [conn[d] EXCEPT !.crossed = TRUE] => Kept(d)
           /\ conn'[d] = [conn[d] EXCEPT !.shut = TRUE] => Kept(d)
<1>1. conn[d] \in ConnState
  BY DEF TypedButCounts
<1>2. ASSUME NEW m, m \in {[conn[d] EXCEPT !.crossed = TRUE], [conn[d] EXCEPT !.shut = TRUE]}
      PROVE  /\ m.at = conn[d].at /\ m.tracked = conn[d].tracked /\ m.user = conn[d].user
             /\ m.addr = conn[d].addr /\ m.limit = conn[d].limit /\ m.seen = conn[d].seen /\ m.excused = conn[d].excused
             /\ m.raced = conn[d].raced
  BY <1>1, <1>2 DEF ConnState
<1>3. ASSUME NEW m, m = [conn[d] EXCEPT !.raced = TRUE]
      PROVE  /\ m.at = conn[d].at /\ m.tracked = conn[d].tracked /\ m.user = conn[d].user
             /\ m.addr = conn[d].addr /\ m.limit = conn[d].limit /\ m.seen = conn[d].seen /\ m.excused = conn[d].excused
             /\ m.raced = TRUE
  BY <1>1, <1>3 DEF ConnState
<1>4. conn'[d] = conn[d] => Kept(d)
  BY DEF Kept
<1>5. conn'[d] = [conn[d] EXCEPT !.raced = TRUE] => Kept(d) /\ conn'[d].raced = TRUE
  BY <1>3 DEF Kept
<1>6. /\ conn'[d] = [conn[d] EXCEPT !.crossed = TRUE] => Kept(d)
      /\ conn'[d] = [conn[d] EXCEPT !.shut = TRUE] => Kept(d)
  BY <1>2 DEF Kept
<1> QED BY <1>4, <1>5, <1>6

\* The gate: who passes it with no other excuse has left room for itself.
LEMMA EnteringRoomed ==
    ASSUME TypedButCounts, RoomInv, NEW c \in Conns, Entering(c)
    PROVE  Roomed(conn'[c], ips, devlimit)
<1> DEFINE k == conn[c]
           u == k.user
<1>1. /\ conn \in [Conns -> ConnState] /\ k \in ConnState /\ Roomed(k, ips, devlimit)
      /\ k.at # "free" => u \in Users /\ k.addr \in Addrs
      /\ devices \in [Users -> SUBSET Addrs] /\ devlimit \in [Users -> DeviceLimits]
  BY DEF TypedButCounts, RoomInv
<1>2. CASE (\E v \in Users, a \in Addrs : Accept(c, v, a)) \/ LookUp(c) \/ RejectByACL(c) \/ Refuse(c)
  <2>1. CASE \E v \in Users, a \in Addrs : Accept(c, v, a)
    <3>1. conn'[c].at = "routed"
      BY <1>1, <2>1, FreeType DEF Accept, Becomes, Free
    <3> QED BY <3>1 DEF Roomed
  <2>2. CASE LookUp(c)
    <3>1. conn'[c].at = "looked"
      BY <1>1, <2>2 DEF LookUp, Becomes, ConnState
    <3> QED BY <3>1 DEF Roomed
  <2>3. CASE RejectByACL(c) \/ Refuse(c)
    <3>1. conn'[c].at = "free"
      BY <1>1, <2>3, FreeType DEF RejectByACL, Refuse, Becomes
    <3> QED BY <3>1 DEF Roomed
  <2> QED BY <1>2, <2>1, <2>2, <2>3
<1>3. CASE ReadDeviceLimit(c)
  <2> DEFINE limit == devlimit[u]
             gated == [k EXCEPT !.at = "limited", !.limit = limit]
             free == [k EXCEPT !.at = "passed", !.excused = TRUE]
  <2>1. conn'[c] = gated \/ conn'[c] = free
    BY <1>1, <1>3 DEF ReadDeviceLimit, Becomes
  <2> HIDE DEF limit
  <2>2. gated.at = "limited" /\ gated.user = u /\ gated.limit = limit
    BY <1>1 DEF ConnState
  <2>3. free.at = "passed" /\ free.excused = TRUE
    BY <1>1 DEF ConnState
  <2>4. limit = devlimit[u]
    BY DEF limit
  <2> HIDE DEF gated, free
  <2>5. CASE conn'[c] = gated
    BY <2>2, <2>4, <2>5 DEF Roomed
  <2>6. CASE conn'[c] = free
    BY <2>3, <2>6 DEF Roomed
  <2> QED BY <2>1, <2>5, <2>6
<1>4. CASE EnterGate(c)
  <2> DEFINE own == Local(u)
             free == k.addr \in own
             new == [k EXCEPT !.at = "gated", !.seen = own, !.excused = free]
  <2>1. conn'[c] = new
    BY <1>1, <1>4 DEF EnterGate, Becomes
  <2>2. free \in BOOLEAN
    OBVIOUS
  <2>3. own = LocalIn(ips, u) /\ (k.addr \in own => free = TRUE)
    BY DEF Local, LocalIn
  <2> HIDE DEF own, free
  <2>4. /\ new.at = "gated" /\ new.user = u /\ new.addr = k.addr /\ new.limit = k.limit
        /\ new.seen = own /\ new.excused = free /\ new.raced = k.raced
    BY <1>1 DEF ConnState
  <2>5. k.at = "limited" /\ (k.raced = FALSE => k.limit = devlimit[u])
    BY <1>1, <1>4 DEF EnterGate, Roomed
  <2> HIDE DEF new
  <2> QED BY <2>1, <2>3, <2>4, <2>5 DEF Roomed
<1>5. CASE PassGate(c)
  <2> DEFINE free == k.excused \/ k.addr \in devices[u] \/ Sorted(c)
             new == [k EXCEPT !.at = "passed", !.limit = 0, !.seen = {}, !.excused = free]
  <2>1. conn'[c] = new /\ k.at = "gated" /\ Admits(c)
    BY <1>1, <1>5 DEF PassGate, Becomes
  <2>2. /\ free \in BOOLEAN
        /\ k.excused = TRUE => free = TRUE
        /\ k.addr \in devices[u] => free = TRUE
        /\ Sorted(c) => free = TRUE
    BY <1>1 DEF ConnState
  <2> HIDE DEF free
  <2>3. /\ new.at = "passed" /\ new.user = u /\ new.tracked = k.tracked /\ new.raced = k.raced
        /\ new.excused = free
    BY <1>1 DEF ConnState
  <2> HIDE DEF new
  <2>4. ASSUME k.raced = FALSE, free # TRUE
        PROVE  Cardinality(LocalIn(ips, u)) < devlimit[u]
    <3>1. /\ LocalIn(ips, u) \subseteq k.seen /\ k.addr \notin k.seen
          /\ k.limit = devlimit[u]
      BY <1>1, <2>1, <2>2, <2>4 DEF Roomed
    <3>2. k.addr \notin Others(c)
      BY <2>2, <2>4, <3>1 DEF Others
    <3>3. k.seen \in SUBSET Addrs
      BY <1>1 DEF ConnState
    <3>4. Others(c) \in SUBSET Addrs /\ LocalIn(ips, u) \in SUBSET Others(c)
      BY <1>1, <2>1, <3>1, <3>3 DEF Others
    <3>5. /\ Cardinality(LocalIn(ips, u)) <= Cardinality(Others(c))
          /\ Cardinality(LocalIn(ips, u)) \in Nat /\ Cardinality(Others(c)) \in Nat
      BY <3>4, AddrSets
    <3>6. devlimit[u] \in Nat
      BY <1>1, <2>1, BaseConstants
    <3>7. Cardinality(Others(c)) < devlimit[u]
      <4>1. CASE Cardinality(Others(c)) < k.limit
        BY <3>1, <4>1
      <4>2. CASE Sorts(c)
        <5>1. ~(Cardinality(Others(c)) >= k.limit)
          BY <2>2, <2>4, <4>2 DEF Sorted
        <5> QED BY <3>1, <3>5, <3>6, <5>1
      <4> QED BY <2>1, <3>2, <4>1, <4>2 DEF Admits
    <3> QED BY <3>5, <3>6, <3>7
  <2> QED BY <2>1, <2>3, <2>4 DEF Roomed
<1> QED BY <1>2, <1>3, <1>4, <1>5 DEF Entering

\* A step of one connection: the others are as they were, and no address comes.
LEMMA OthersRoomed ==
    ASSUME TypedButCounts, RoomInv, NEW c \in Conns,
           \A d \in Conns \ {c} : Kept(d),
           \A u \in Users : LocalIn(ips', u) \subseteq LocalIn(ips, u),
           Roomed(conn'[c], ips', devlimit)
    PROVE  \A d \in Conns : Roomed(conn'[d], ips', devlimit)
<1>1. ASSUME NEW d \in Conns \ {c} PROVE Roomed(conn'[d], ips', devlimit)
  <2>1. /\ devlimit \in [Users -> DeviceLimits]
        /\ Roomed(conn[d], ips, devlimit) /\ (conn[d].at # "free" => conn[d].user \in Users)
    BY DEF RoomInv, TypedButCounts
  <2>2. CASE conn[d].at = "free"
    <3>1. conn'[d].at = "free"
      BY <2>2 DEF Kept
    <3> QED BY <3>1 DEF Roomed
  <2>3. CASE conn[d].at # "free"
    <3>1. Roomed(conn[d], ips', devlimit)
      BY <2>1, <2>3, StillRoomed
    <3> QED BY <3>1, KeptRoomed
  <2> QED BY <2>2, <2>3
<1> QED BY <1>1

Past(counts, out, u) == LocalIn(counts, u) \ out[u]

LEMMA LimitedIs ==
    /\ LimitedButForExcess <=>
           \A u \in Users : devlimit[u] > 0 => Cardinality(Past(ips, excess, u)) <= devlimit[u]
    /\ LimitedButForExcess' <=>
           \A u \in Users : devlimit'[u] > 0 => Cardinality(Past(ips', excess', u)) <= devlimit'[u]
BY DEF LimitedButForExcess, Local, LocalIn, Past

LEMMA FewerLimited ==
    ASSUME LimitedButForExcess, devlimit \in [Users -> DeviceLimits], UNCHANGED devlimit,
           \A u \in Users : Past(ips', excess', u) \subseteq Past(ips, excess, u)
    PROVE  LimitedButForExcess'
<1>1. ASSUME NEW u \in Users, devlimit[u] > 0
      PROVE  Cardinality(Past(ips', excess', u)) <= devlimit[u]
  <2>1. /\ Past(ips, excess, u) \in SUBSET Addrs
        /\ Past(ips', excess', u) \in SUBSET Past(ips, excess, u)
    BY DEF Past, LocalIn
  <2>2. /\ Cardinality(Past(ips', excess', u)) <= Cardinality(Past(ips, excess, u))
        /\ Cardinality(Past(ips', excess', u)) \in Nat /\ Cardinality(Past(ips, excess, u)) \in Nat
    BY <2>1, AddrSets
  <2>3. Cardinality(Past(ips, excess, u)) <= devlimit[u] /\ devlimit[u] \in Nat
    BY <1>1, LimitedIs, BaseConstants
  <2> QED BY <2>2, <2>3
<1> QED BY <1>1, LimitedIs

\* addConn: an address that came in by nothing else had room left for it.
LEMMA AddConnRoomed ==
    ASSUME TypedButCounts, Counts, RoomInv, NEW c \in Conns, AddConn(c)
    PROVE  RoomInv'
<1> DEFINE u == conn[c].user
           a == conn[c].addr
           new == conn[c].tracked /\ ips[u][a] = 0
<1>1. /\ conn[c].at = "passed" /\ u \in Users /\ a \in Addrs /\ conn[c] \in ConnState
      /\ conn[c].tracked \in BOOLEAN /\ conn[c].excused \in BOOLEAN /\ conn[c].raced \in BOOLEAN
      /\ Roomed(conn[c], ips, devlimit) /\ ips \in [Users -> [Addrs -> Nat]]
      /\ excess \in [Users -> SUBSET Addrs]
      /\ devlimit \in [Users -> DeviceLimits] /\ UNCHANGED devlimit
  <2>1. conn[c].at = "passed" /\ conn[c] \in ConnState /\ Roomed(conn[c], ips, devlimit)
    BY DEF AddConn, TypedButCounts, RoomInv
  <2>2. conn[c].tracked \in BOOLEAN /\ conn[c].excused \in BOOLEAN /\ conn[c].raced \in BOOLEAN
    BY <2>1 DEF ConnState
  <2>3. UNCHANGED devlimit
    BY DEF AddConn
  <2> QED BY <2>1, <2>2, <2>3 DEF TypedButCounts, Counts
<1>2. conn'[c].at = "admitted"
  BY AddConnAlike
<1>3. Roomed(conn'[c], ips', devlimit)
  BY <1>2 DEF Roomed
<1>4. \A d \in Conns \ {c} : Kept(d) /\ (new /\ d \in Overtaken(c) => conn'[d].raced = TRUE)
  <2>1. ASSUME NEW d \in Conns \ {c}
        PROVE  conn'[d] = IF new /\ d \in Overtaken(c) THEN [conn[d] EXCEPT !.raced = TRUE] ELSE conn[d]
    BY DEF AddConn
  <2> HIDE DEF new
  <2> QED BY <2>1, NotesKept
<1>5. CASE ~new
  <2>1. /\ excess' = excess
        /\ ips' = ips \/ (ips' = [ips EXCEPT ![u][a] = ips[u][a] + 1] /\ ips[u][a] # 0)
    BY <1>1, <1>5 DEF AddConn
  <2>2. \A v \in Users : LocalIn(ips', v) = LocalIn(ips, v)
    <3>1. \A v \in Users, b \in Addrs : ips'[v][b] > 0 <=> ips[v][b] > 0
      <4> HIDE DEF u, a, new
      <4>1. CASE ips' = ips
        BY <4>1
      <4>2. CASE ips' = [ips EXCEPT ![u][a] = ips[u][a] + 1] /\ ips[u][a] # 0
        <5>1. ips[u][a] \in Nat /\ ips[u][a] + 1 > 0 /\ ips[u][a] > 0
          BY <1>1, <4>2
        <5>2. \A v \in Users, b \in Addrs :
                  ips'[v][b] = IF v = u /\ b = a THEN ips[u][a] + 1 ELSE ips[v][b]
          BY <1>1, <4>2
        <5> QED BY <5>1, <5>2
      <4> QED BY <2>1, <4>1, <4>2
    <3> QED BY <3>1 DEF LocalIn
  <2>3. \A d \in Conns : Roomed(conn'[d], ips', devlimit)
    BY <1>3, <1>4, <2>2, OthersRoomed
  <2>4. LimitedButForExcess'
    BY <1>1, <2>1, <2>2, FewerLimited DEF Past, RoomInv
  <2> QED BY <1>1, <2>3, <2>4 DEF RoomInv
<1>6. CASE new
  <2>1. /\ ips' = [ips EXCEPT ![u][a] = ips[u][a] + 1] /\ ips[u][a] = 0
        /\ excess' = IF conn[c].excused \/ conn[c].raced THEN [excess EXCEPT ![u] = excess[u] \union {a}] ELSE excess
    BY <1>6 DEF AddConn
  <2>2. /\ LocalIn(ips', u) = LocalIn(ips, u) \union {a}
        /\ \A v \in Users \ {u} : LocalIn(ips', v) = LocalIn(ips, v)
    <3> HIDE DEF u, a, new
    <3>1. ips[u][a] + 1 > 0
      BY <2>1
    <3>2. \A v \in Users, b \in Addrs :
              ips'[v][b] = IF v = u /\ b = a THEN ips[u][a] + 1 ELSE ips[v][b]
      BY <1>1, <2>1
    <3> QED BY <1>1, <3>1, <3>2 DEF LocalIn
  <2>3. ASSUME NEW d \in Conns \ {c} PROVE Roomed(conn'[d], ips', devlimit)
    <3>1. Roomed(conn[d], ips, devlimit) /\ (conn[d].at # "free" => conn[d].user \in Users) /\ Kept(d)
      BY <1>4 DEF RoomInv, TypedButCounts
    <3>2. CASE conn[d].at \notin {"gated", "passed"}
      BY <3>1, <3>2 DEF Kept, Roomed
    <3>3. CASE conn[d].at \in {"gated", "passed"} /\ conn[d].user = u
      <4>1. conn'[d].raced = TRUE
        BY <1>4, <1>6, <3>3 DEF Overtaken
      <4> QED BY <4>1 DEF Roomed
    <3>4. CASE conn[d].at \in {"gated", "passed"} /\ conn[d].user # u
      <4>1. LocalIn(ips', conn[d].user) \subseteq LocalIn(ips, conn[d].user)
        BY <2>2, <3>1, <3>4
      <4>2. Roomed(conn[d], ips', devlimit)
        BY <1>1, <3>1, <4>1, StillRoomed
      <4> QED BY <3>1, <4>2, KeptRoomed
    <3> QED BY <3>2, <3>3, <3>4
  <2>4. LimitedButForExcess'
    <3>1. CASE conn[c].excused \/ conn[c].raced
      <4>1. \A v \in Users : Past(ips', excess', v) \subseteq Past(ips, excess, v)
        BY <1>1, <2>1, <2>2, <3>1 DEF Past
      <4> QED BY <1>1, <4>1, FewerLimited DEF RoomInv
    <3>2. CASE ~(conn[c].excused \/ conn[c].raced)
      <4>1. excess' = excess
        BY <2>1, <3>2
      <4>2. ASSUME devlimit[u] > 0
            PROVE  Cardinality(Past(ips', excess', u)) <= devlimit[u]
        <5>1. Cardinality(LocalIn(ips, u)) < devlimit[u]
          <6>1. conn[c].tracked = TRUE /\ conn[c].raced = FALSE /\ conn[c].excused = FALSE
            BY <1>1, <1>6, <3>2
          <6> QED BY <1>1, <4>2, <6>1 DEF Roomed
        <5> DEFINE S == LocalIn(ips, u)
        <5>2. S \in SUBSET Addrs
          BY DEF LocalIn
        <5>3. S \union {a} \in SUBSET Addrs /\ Past(ips', excess', u) \in SUBSET (S \union {a})
          BY <1>1, <2>2, <5>2 DEF Past
        <5> HIDE DEF S
        <5>4. IsFiniteSet(S) /\ Cardinality(S) \in Nat
          BY <5>2, AddrSets
        <5>5. Cardinality(S \union {a}) = Cardinality(S) \/ Cardinality(S \union {a}) = Cardinality(S) + 1
          BY <5>4, FS_AddElement
        <5>6. /\ Cardinality(Past(ips', excess', u)) <= Cardinality(S \union {a})
              /\ Cardinality(Past(ips', excess', u)) \in Nat /\ Cardinality(S \union {a}) \in Nat
          <6> DEFINE P == Past(ips', excess', u)
                     Q == S \union {a}
          <6>1. Q \in SUBSET Addrs /\ P \in SUBSET Q
            BY <5>3
          <6> HIDE DEF P, Q
          <6>2. Cardinality(P) <= Cardinality(Q) /\ Cardinality(P) \in Nat /\ Cardinality(Q) \in Nat
            BY <6>1, AddrSets
          <6> QED BY <6>2 DEF P, Q
        <5>7. devlimit[u] \in Nat /\ Cardinality(S) < devlimit[u]
          BY <1>1, <5>1, BaseConstants DEF S
        <5> QED BY <5>4, <5>5, <5>6, <5>7
      <4>3. ASSUME NEW v \in Users \ {u}, devlimit[v] > 0
            PROVE  Cardinality(Past(ips', excess', v)) <= devlimit[v]
        <5>1. Past(ips', excess', v) = Past(ips, excess, v)
          BY <2>2, <4>1 DEF Past
        <5> QED BY <4>3, <5>1, LimitedIs DEF RoomInv
      <4> QED BY <1>1, <4>2, <4>3, LimitedIs
    <3> QED BY <3>1, <3>2
  <2> QED BY <1>1, <1>3, <2>3, <2>4 DEF RoomInv
<1> QED BY <1>5, <1>6

\* Other device limits: who goes by another limit is noted, and the addresses that are too
\* many for a lower one are.
LEMMA LimitsRoomed ==
    ASSUME TypedButCounts, RoomInv, NEW table \in [Users -> DeviceLimits], SetDeviceLimits(table)
    PROVE  RoomInv'
<1>1. /\ devlimit' = table /\ UNCHANGED ips
      /\ devlimit \in [Users -> DeviceLimits] /\ excess \in [Users -> SUBSET Addrs]
      /\ \A u \in Users : excess'[u] = IF Overfull(u, table[u]) THEN LocalIn(ips, u) ELSE excess[u]
  BY DEF SetDeviceLimits, TypedButCounts, Local, LocalIn
<1>2. ASSUME NEW d \in Conns PROVE Roomed(conn'[d], ips, table)
  <2>1. Roomed(conn[d], ips, devlimit)
    BY DEF RoomInv
  <2>2. CASE Outdated(d, table)
    <3>1. conn'[d] = [conn[d] EXCEPT !.raced = TRUE]
      BY <2>2 DEF SetDeviceLimits
    <3>2. conn'[d].raced = TRUE
      BY <3>1, NotesKept
    <3> QED BY <3>2 DEF Roomed
  <2>3. CASE ~Outdated(d, table)
    <3>1. conn'[d] = conn[d]
      BY <2>3 DEF SetDeviceLimits
    <3>2. conn[d].at \in {"limited", "gated", "passed"} => table[conn[d].user] = devlimit[conn[d].user]
      BY <2>3 DEF Outdated
    <3> QED BY <2>1, <3>1, <3>2 DEF Roomed
  <2> QED BY <2>2, <2>3
<1>3. ASSUME NEW u \in Users, table[u] > 0
      PROVE  Cardinality(Past(ips', excess', u)) <= table[u]
  <2>1. table[u] \in Nat /\ Past(ips, excess, u) = Local(u) \ excess[u]
    BY BaseConstants DEF Past, Local, LocalIn
  <2>2. CASE Overfull(u, table[u])
    <3>1. Past(ips', excess', u) = {}
      BY <1>1, <2>2 DEF Past
    <3> QED BY <1>3, <2>1, <3>1, FS_EmptySet
  <2>3. CASE ~Overfull(u, table[u])
    <3>1. Past(ips', excess', u) = Past(ips, excess, u)
      BY <1>1, <2>3 DEF Past
    <3>2. Cardinality(Past(ips, excess, u)) \in Nat
      <4>1. Past(ips, excess, u) \in SUBSET Addrs
        BY DEF Past, LocalIn
      <4> QED BY <4>1, AddrSets
    <3>3. CASE table[u] = devlimit[u]
      BY <1>3, <3>1, <3>3, LimitedIs DEF RoomInv
    <3>4. CASE table[u] # devlimit[u]
      <4>1. ~(Cardinality(Past(ips, excess, u)) > table[u])
        BY <1>3, <2>1, <2>3, <3>4 DEF Overfull
      <4> QED BY <2>1, <3>1, <3>2, <4>1
    <3> QED BY <3>3, <3>4
  <2> QED BY <2>2, <2>3
<1> QED BY <1>1, <1>2, <1>3, LimitedIs DEF RoomInv

LEMMA RoomNext ==
    ASSUME TypedButCounts, Counts, RoomInv, TrackerNext
    PROVE  RoomInv'
<1>1. /\ conn \in [Conns -> ConnState] /\ ips \in [Users -> [Addrs -> Nat]]
      /\ excess \in [Users -> SUBSET Addrs] /\ LimitedButForExcess
      /\ devlimit \in [Users -> DeviceLimits]
      /\ \A c \in Conns : Roomed(conn[c], ips, devlimit)
      /\ \A c \in Conns : conn[c].at # "free" => conn[c].user \in Users /\ conn[c].addr \in Addrs
  BY DEF TypedButCounts, Counts, RoomInv
<1>2. ASSUME UNCHANGED <<ips, devlimit, excess>>, NEW c \in Conns, \A d \in Conns \ {c} : Kept(d), Roomed(conn'[c], ips, devlimit)
      PROVE  RoomInv'
  <2>1. \A d \in Conns : Roomed(conn'[d], ips', devlimit)
    BY <1>2, OthersRoomed
  <2>2. LimitedButForExcess'
    BY <1>1, <1>2, FewerLimited
  <2> QED BY <1>2, <2>1, <2>2 DEF RoomInv
<1>3. ASSUME UNCHANGED <<ips, devlimit, excess>>, \A d \in Conns : Kept(d) PROVE RoomInv'
  <2>1. \A d \in Conns : Roomed(conn'[d], ips', devlimit)
    BY <1>1, <1>3, KeptRoomed
  <2>2. LimitedButForExcess'
    BY <1>1, <1>3, FewerLimited
  <2> QED BY <1>3, <2>1, <2>2 DEF RoomInv
<1>4. ASSUME NEW c \in Conns, Entering(c) PROVE RoomInv'
  BY <1>2, <1>4, EnteringTypes, EnteringRoomed, NotesKept
<1>5. ASSUME NEW S \in SUBSET Users, SwapInbounds(S) PROVE RoomInv'
  <2>1. \A d \in Conns : conn'[d] = conn[d] \/ conn'[d] = [conn[d] EXCEPT !.crossed = TRUE]
    BY <1>5 DEF SwapInbounds
  <2>2. \A d \in Conns : Kept(d)
    BY <2>1, NotesKept
  <2> QED BY <1>3, <1>5, <2>2 DEF SwapInbounds
<1>6. CASE SetUserMap \/ ForgetGlobalDevices \/ (\E lists \in [Users -> SUBSET Addrs] : UpdateGlobalDevices(lists))
           \/ \E u \in Users : CloseByUUID(u)
  <2>1. UNCHANGED <<ips, devlimit, excess, conn>>
    BY <1>6 DEF SetUserMap, ForgetGlobalDevices, UpdateGlobalDevices, CloseByUUID
  <2>2. \A d \in Conns : Kept(d)
    BY <2>1, NotesKept
  <2> QED BY <1>3, <2>1, <2>2
<1>7. ASSUME NEW c \in Conns, AddConn(c) PROVE RoomInv'
  BY <1>7, AddConnRoomed
<1>8. ASSUME NEW c \in Conns, Register(c) \/ Open(c) PROVE RoomInv'
  <2>1. conn'[c].at \in {"registered", "open"} /\ \A d \in Conns \ {c} : conn'[d] = conn[d]
    BY <1>8, Moving DEF Register, Open, Stages
  <2>2. Roomed(conn'[c], ips, devlimit) /\ UNCHANGED <<ips, devlimit, excess>>
    BY <1>8, <2>1 DEF Roomed, Register, Open
  <2> QED BY <1>2, <2>1, <2>2, NotesKept
<1>9. ASSUME NEW c \in Conns, Close(c) PROVE RoomInv'
  <2> DEFINE u == conn[c].user
             a == conn[c].addr
  <2>1. /\ conn[c].at = "open" /\ conn'[c].at = "closing" /\ u \in Users /\ a \in Addrs
        /\ \A d \in Conns \ {c} : conn'[d] = conn[d]
    BY <1>1, <1>9, Moving DEF Close, Stages
  <2>2. /\ ips' = ips \/ ips' = [ips EXCEPT ![u][a] = ips[u][a] - 1]
        /\ excess' = excess \/ (excess' = [excess EXCEPT ![u] = excess[u] \ {a}]
                                /\ ips' = [ips EXCEPT ![u][a] = 0])
    <3>1. /\ ips' = IF conn[c].tracked THEN [ips EXCEPT ![u][a] = ips[u][a] - 1] ELSE ips
          /\ excess' = IF conn[c].tracked /\ ips[u][a] = 1
                          THEN [excess EXCEPT ![u] = excess[u] \ {a}] ELSE excess
      BY <1>9 DEF Close, ReleaseAddr
    <3> HIDE DEF u, a
    <3>2. ips[u][a] = 1 => ips[u][a] - 1 = 0
      OBVIOUS
    <3>3. CASE conn[c].tracked /\ ips[u][a] = 1
      <4>1. ips' = [ips EXCEPT ![u][a] = ips[u][a] - 1] /\ excess' = [excess EXCEPT ![u] = excess[u] \ {a}]
        BY <3>1, <3>3
      <4> QED BY <3>2, <3>3, <4>1
    <3>4. CASE ~(conn[c].tracked /\ ips[u][a] = 1)
      BY <3>1, <3>4
    <3> QED BY <3>3, <3>4
  <2> HIDE DEF u, a
  <2>3. \A v \in Users : LocalIn(ips', v) \subseteq LocalIn(ips, v)
    <3>1. \A v \in Users, b \in Addrs : ips'[v][b] > 0 => ips[v][b] > 0
      <4>1. CASE ips' = ips
        BY <4>1
      <4>2. CASE ips' = [ips EXCEPT ![u][a] = ips[u][a] - 1]
        <5>1. \A v \in Users, b \in Addrs :
                  ips'[v][b] = IF v = u /\ b = a THEN ips[u][a] - 1 ELSE ips[v][b]
          BY <1>1, <4>2
        <5>2. ips[u][a] \in Nat
          BY <1>1, <2>1
        <5> QED BY <5>1, <5>2
      <4> QED BY <2>2, <4>1, <4>2
    <3> QED BY <3>1 DEF LocalIn
  <2>4. \A d \in Conns : Roomed(conn'[d], ips', devlimit)
    <3>1. Roomed(conn'[c], ips', devlimit)
      BY <2>1 DEF Roomed
    <3>2. \A d \in Conns \ {c} : Kept(d)
      BY <2>1, NotesKept
    <3> QED BY <2>3, <3>1, <3>2, OthersRoomed
  <2>5. \A v \in Users : Past(ips', excess', v) \subseteq Past(ips, excess, v)
    <3>1. CASE excess' = excess
      BY <2>3, <3>1 DEF Past
    <3>2. CASE excess' = [excess EXCEPT ![u] = excess[u] \ {a}] /\ ips' = [ips EXCEPT ![u][a] = 0]
      <4>1. a \notin LocalIn(ips', u)
        BY <1>1, <2>1, <3>2 DEF LocalIn
      <4>2. \A v \in Users : excess'[v] = IF v = u THEN excess[u] \ {a} ELSE excess[v]
        BY <1>1, <3>2
      <4> QED BY <2>3, <4>1, <4>2 DEF Past
    <3> QED BY <2>2, <3>1, <3>2
  <2>6. UNCHANGED devlimit
    BY <1>9 DEF Close
  <2> QED BY <1>1, <2>4, <2>5, <2>6, FewerLimited DEF RoomInv
<1>10. ASSUME NEW c \in Conns, Unregister(c) PROVE RoomInv'
  <2>1. conn'[c].at = "free" /\ \A d \in Conns \ {c} : conn'[d] = conn[d]
    BY <1>1, <1>10, FreeType DEF Unregister, Becomes
  <2>2. Roomed(conn'[c], ips, devlimit) /\ UNCHANGED <<ips, devlimit, excess>>
    BY <1>10, <2>1 DEF Roomed, Unregister
  <2> QED BY <1>2, <2>1, <2>2, NotesKept
<1>11. ASSUME NEW c \in Conns, Shut(c) PROVE RoomInv'
  <2>1. \A d \in Conns : conn'[d] = conn[d] \/ conn'[d] = [conn[d] EXCEPT !.shut = TRUE]
    BY <1>1, <1>11 DEF Shut
  <2>2. \A d \in Conns : Kept(d)
    BY <2>1, NotesKept
  <2> QED BY <1>3, <1>11, <2>2 DEF Shut
<1>12. ASSUME NEW table \in [Users -> DeviceLimits], SetDeviceLimits(table) PROVE RoomInv'
  BY <1>12, LimitsRoomed
<1> QED BY <1>4, <1>5, <1>6, <1>7, <1>8, <1>9, <1>10, <1>11, <1>12 DEF TrackerNext, OpenStep, CloseStep, Entering

\* However connections race through the gate (checkDeviceGate), a user has no more
\* addresses than the device limit but for those that came in by what the code lets by,
\* a limit that was lowered among it.  The invariant adds that what a connection was given
\* and its gate has found still says whether there is room, unless another connection or
\* another limit has overtaken it.
THEOREM DevicesLimited == TrackerSpec => []LimitedButForExcess
<1> DEFINE LInv == TrackerInv /\ RoomInv
<1>1. TrackerInit => LInv
  <2> SUFFICES ASSUME TrackerInit PROVE RoomInv
    BY TrackerInvInit
  <2>1. \A c \in Conns : Roomed(conn[c], ips, devlimit)
    BY FreeType DEF TrackerInit, Roomed
  <2>2. \A u \in Users : Local(u) \ excess[u] = {}
    BY DEF TrackerInit, Local
  <2>3. LimitedButForExcess
    BY <2>2, FS_EmptySet, BaseConstants DEF TrackerInit, LimitedButForExcess
  <2> QED BY <2>1, <2>3 DEF RoomInv
<1>2. LInv /\ [TrackerNext]_tracker => LInv'
  <2>1. TrackerInv /\ RoomInv /\ TrackerNext => RoomInv'
    BY RoomNext DEF TrackerInv
  <2>2. RoomInv /\ UNCHANGED tracker => RoomInv'
    BY DEF tracker, RoomInv, Roomed, LimitedButForExcess, Local
  <2> QED BY <2>1, <2>2, TrackerInvNext
<1>3. LInv => LimitedButForExcess
  BY DEF RoomInv
<1> QED BY <1>1, <1>2, <1>3, PTL DEF TrackerSpec

-----------------------------------------------------------------------------
(***************************************************************************)
(* Speed limits.                                                           *)
(***************************************************************************)
\* A member of FunctionsOn is a function on a subset of its domain.
LEMMA FunctionsOnElim ==
    ASSUME NEW D, NEW R, NEW f \in FunctionsOn(D, R)
    PROVE  DOMAIN f \in SUBSET D /\ f \in [DOMAIN f -> R]
BY DEF FunctionsOn

LEMMA FunctionsOnIntro ==
    ASSUME NEW D, NEW R, NEW S \in SUBSET D, NEW f \in [S -> R]
    PROVE  f \in FunctionsOn(D, R)
BY DEF FunctionsOn

\* What the proofs need to know of the engine's states.
EngineState == [streak : Nat, throttled : BOOLEAN, hotRun : Nat, left : Nat]

SpeedTyped ==
    /\ limits \in FunctionsOn(Users, Speeds)
    /\ buckets \in FunctionsOn(Users, Speeds \union {Penalty})
    /\ penalized \subseteq Users
    /\ engine \in FunctionsOn(Users, EngineState)
    /\ policy \in BOOLEAN
    /\ \A c \in Conns : getting[c] # None =>
          /\ getting[c] \in Call
          /\ getting[c].at = "read" => getting[c].rate \in Speeds
    /\ getting \in [Conns -> Call \union {None}]

LEMMA HeatedType ==
    ASSUME NEW st \in EngineState
    PROVE  /\ Heated(st) \in EngineState /\ Cooled(st) \in EngineState
           /\ st.throttled => Heated(st).throttled
           /\ Cooled(st).throttled = st.throttled
<1>1. KickAfter \in Nat /\ Release \in Nat
  BY SpeedConstants
<1> DEFINE streak == IF st.throttled THEN st.streak ELSE st.streak + 1
           hot == st.throttled \/ Throttling(st)
           run == IF ~st.throttled \/ KickDue(st) \/ KickAfter = 0 THEN 0 ELSE st.hotRun + 1
           left == IF st.left = 0 THEN 0 ELSE st.left - 1
<1>2. hot \in BOOLEAN /\ streak \in Nat /\ run \in Nat /\ left \in Nat
  <2>1. hot \in BOOLEAN
    BY DEF EngineState, Throttling
  <2>2. streak \in Nat /\ run \in Nat /\ left \in Nat
    BY DEF EngineState
  <2> QED BY <2>1, <2>2
<1>3. Heated(st) = [streak |-> streak, throttled |-> hot, hotRun |-> run, left |-> Release]
  BY DEF Heated
<1>4. PICK n \in Nat : Cooled(st) = [st EXCEPT !.streak = 0, !.left = n]
  BY <1>2 DEF Cooled
<1>5. st.throttled => hot
  OBVIOUS
<1> HIDE DEF streak, hot, run, left
<1>7. Heated(st) \in EngineState /\ Heated(st).throttled = hot
  BY <1>1, <1>2, <1>3 DEF EngineState
<1>8. Cooled(st) \in EngineState /\ Cooled(st).throttled = st.throttled
  <2>1. [st EXCEPT !.streak = 0, !.left = n] \in EngineState
    BY DEF EngineState
  <2>2. [st EXCEPT !.streak = 0, !.left = n].throttled = st.throttled
    BY DEF EngineState
  <2> QED BY <1>4, <2>1, <2>2
<1> QED BY <1>5, <1>7, <1>8

LEMMA NewStateType == NewState \in EngineState
BY DEF NewState, EngineState

LEMMA EvaluatedType ==
    ASSUME SpeedTyped, NEW hot \in SUBSET Users
    PROVE  /\ Evaluated(hot) \in FunctionsOn(Users, EngineState)
           /\ DOMAIN Evaluated(hot) = Watched(hot)
           /\ Watched(hot) \subseteq Users
<1>1. DOMAIN engine \in SUBSET Users /\ engine \in [DOMAIN engine -> EngineState]
  BY FunctionsOnElim DEF SpeedTyped
<1>2. Watched(hot) \in SUBSET Users
  BY <1>1 DEF Watched
<1>3. ASSUME NEW u \in Watched(hot) PROVE Evaluated(hot)[u] \in EngineState
  <2>1. State(u) \in EngineState
    BY <1>1, NewStateType DEF State
  <2> QED BY <2>1, HeatedType DEF Evaluated
<1>4. Evaluated(hot) \in [Watched(hot) -> EngineState]
  BY <1>3 DEF Evaluated
<1> QED BY <1>2, <1>4, FunctionsOnIntro

-----------------------------------------------------------------------------
LEMMA SpeedTypedInit == SpeedInit => SpeedTyped
<1> SUFFICES ASSUME SpeedInit PROVE SpeedTyped
  OBVIOUS
<1>1. /\ limits \in [{} -> Speeds] /\ buckets \in [{} -> Speeds \union {Penalty}]
      /\ engine \in [{} -> EngineState] /\ penalized = {} /\ policy \in BOOLEAN
      /\ getting = [c \in Conns |-> None]
  BY DEF SpeedInit
<1>2. {} \in SUBSET Users
  OBVIOUS
<1> QED BY <1>1, <1>2, FunctionsOnIntro DEF SpeedTyped

\* A call to GetLimiter makes its way through its critical sections.
LEMMA GettingTyped ==
    ASSUME SpeedTyped, NEW c \in Conns, NEW call \in Call \union {None},
           call # None /\ call.at = "read" => call.rate \in Speeds,
           getting' = [getting EXCEPT ![c] = call]
    PROVE  /\ getting' \in [Conns -> Call \union {None}]
           /\ \A d \in Conns : getting'[d] # None =>
                 getting'[d] \in Call /\ (getting'[d].at = "read" => getting'[d].rate \in Speeds)
BY DEF SpeedTyped

\* A call that has read a limit of the current list knows it.
ReadCurrent ==
    \A c \in Conns : getting[c] # None /\ getting[c].at = "read" /\ ~getting[c].old =>
        getting[c].user \in DOMAIN limits /\ getting[c].rate = limits[getting[c].user]

SpeedInv == SpeedTyped /\ PenaltyIsEngines /\ ReadCurrent /\ BucketsCurrent

\* The functions of a typed state.
LEMMA SpeedFunctions ==
    ASSUME SpeedTyped
    PROVE  /\ DOMAIN limits \in SUBSET Users /\ limits \in [DOMAIN limits -> Speeds]
           /\ DOMAIN buckets \in SUBSET Users /\ buckets \in [DOMAIN buckets -> Speeds \union {Penalty}]
           /\ DOMAIN engine \in SUBSET Users /\ engine \in [DOMAIN engine -> EngineState]
           /\ Penalty \notin Speeds
BY FunctionsOnElim, SpeedConstants DEF SpeedTyped

\* A step that touches neither lists nor buckets nor calls.
LEMMA SpeedQuiet ==
    ASSUME SpeedInv, UNCHANGED <<limits, buckets, penalized, engine, getting, late>>,
           policy' \in BOOLEAN, svc # "limits" \/ svc' = svc
    PROVE  SpeedInv'
BY DEF SpeedInv, SpeedTyped, PenaltyIsEngines, ReadCurrent, BucketsCurrent

LEMMA SetLimitsKeeps ==
    ASSUME SpeedInv, NEW list \in Lists, SetLimits(list)
    PROVE  SpeedInv'
<1>1. /\ svc' = "limits" /\ limits' = list
      /\ UNCHANGED <<buckets, penalized, engine, policy>>
      /\ SpeedTyped /\ PenaltyIsEngines
  BY DEF SetLimits, SpeedInv
<1>2. limits' \in FunctionsOn(Users, Speeds)
  BY <1>1 DEF Lists, FunctionsOn
<1>3. ASSUME NEW c \in Conns
      PROVE  \/ getting'[c] = getting[c] /\ (getting[c] # None => getting[c].at # "read")
             \/ /\ getting[c] \in Call /\ getting[c].rate \in Speeds
                /\ getting'[c] \in Call /\ getting'[c].rate \in Speeds /\ getting'[c].old
  <2>1. CASE getting[c] # None /\ getting[c].at = "read"
    <3>1. getting[c] \in Call /\ getting[c].rate \in Speeds
      BY <1>1, <2>1 DEF SpeedTyped
    <3>2. getting'[c] = [getting[c] EXCEPT !.old = TRUE]
      BY <2>1 DEF SetLimits
    <3> QED BY <3>1, <3>2 DEF Call
  <2>2. CASE ~(getting[c] # None /\ getting[c].at = "read")
    BY <2>2 DEF SetLimits
  <2> QED BY <2>1, <2>2
<1>4. getting' \in [Conns -> Call \union {None}]
  <2>1. \A c \in Conns : getting'[c] \in Call \union {None}
    BY <1>1, <1>3 DEF SpeedTyped
  <2> QED BY <2>1 DEF SetLimits
<1>5. SpeedTyped'
  BY <1>1, <1>2, <1>3, <1>4 DEF SpeedTyped
<1>6. ReadCurrent'
  BY <1>3 DEF ReadCurrent
<1> QED BY <1>1, <1>5, <1>6 DEF SpeedInv, PenaltyIsEngines, BucketsCurrent

LEMMA UpdateBucketsKeeps == SpeedInv /\ UpdateBuckets => SpeedInv'
<1> SUFFICES ASSUME SpeedInv, UpdateBuckets PROVE SpeedInv'
  OBVIOUS
<1> DEFINE kept == DOMAIN buckets \ Dropped
<1>1. /\ SpeedTyped /\ PenaltyIsEngines /\ ReadCurrent
      /\ UNCHANGED <<limits, engine, policy, getting>> /\ late' = {}
      /\ penalized' = penalized \ {u \in Dropped : u \notin DOMAIN limits}
      /\ buckets' = [u \in kept |-> IF u \in penalized THEN buckets[u] ELSE limits[u]]
  BY DEF SpeedInv, UpdateBuckets
<1>2. \A u \in kept : u \in DOMAIN limits /\ u \in Users
  BY <1>1, SpeedFunctions DEF Dropped
<1>3. ASSUME NEW u \in kept
      PROVE  /\ buckets'[u] \in Speeds \union {Penalty}
             /\ buckets'[u] = Penalty <=> u \in penalized
             /\ u \notin penalized => buckets'[u] = limits[u]
             /\ u \in penalized <=> u \in penalized'
  BY <1>1, <1>2, SpeedFunctions DEF PenaltyIsEngines
<1>4. \A u \in penalized' : u \in kept
  BY <1>1 DEF PenaltyIsEngines, Dropped
<1>5. buckets' \in FunctionsOn(Users, Speeds \union {Penalty})
  <2>1. kept \in SUBSET Users
    BY <1>2
  <2>2. buckets' \in [kept -> Speeds \union {Penalty}]
    BY <1>1, <1>3
  <2> QED BY <2>1, <2>2, FunctionsOnIntro
<1>6. SpeedTyped'
  BY <1>1, <1>5 DEF SpeedTyped
<1>7. DOMAIN buckets' = kept
  BY <1>1
<1>8. PenaltyIsEngines'
  BY <1>1, <1>3, <1>4, <1>7 DEF PenaltyIsEngines
<1>9. ReadCurrent'
  BY <1>1 DEF ReadCurrent
<1>10. BucketsCurrent'
  BY <1>1, <1>2, <1>3, <1>7 DEF BucketsCurrent
<1> QED BY <1>6, <1>8, <1>9, <1>10 DEF SpeedInv

LEMMA LimiterKeeps ==
    ASSUME SpeedInv, NEW c \in Conns, LimiterStep(c)
    PROVE  SpeedInv'
<1>1. SpeedTyped /\ PenaltyIsEngines /\ ReadCurrent /\ BucketsCurrent
  BY DEF SpeedInv
<1>2. ASSUME NEW call \in Call \union {None},
             call # None /\ call.at = "read" =>
                call.rate \in Speeds /\ (~call.old => call.user \in DOMAIN limits /\ call.rate = limits[call.user]),
             getting' = [getting EXCEPT ![c] = call],
             UNCHANGED <<limits, buckets, penalized, engine, policy, svc, late>>
      PROVE  SpeedInv'
  <2>1. /\ getting' \in [Conns -> Call \union {None}]
        /\ \A d \in Conns : getting'[d] # None =>
              getting'[d] \in Call /\ (getting'[d].at = "read" => getting'[d].rate \in Speeds)
    BY <1>1, <1>2, GettingTyped
  <2>2. SpeedTyped'
    BY <1>1, <1>2, <2>1 DEF SpeedTyped
  <2>3. getting'[c] = call /\ \A d \in Conns \ {c} : getting'[d] = getting[d]
    BY <1>1, <1>2 DEF SpeedTyped
  <2>4. ReadCurrent'
    BY <1>1, <1>2, <2>3 DEF ReadCurrent
  <2> QED BY <1>1, <1>2, <2>2, <2>4 DEF SpeedInv, PenaltyIsEngines, BucketsCurrent
<1>3. ASSUME NEW u \in Users, LookUpBucket(c, u) PROVE SpeedInv'
  <2>1. CASE u \in named /\ u \notin DOMAIN buckets
    <3> DEFINE call == [at |-> "missed", user |-> u, rate |-> None, old |-> FALSE]
    <3>1. call \in Call /\ call.at = "missed"
      BY DEF Call
    <3>2. getting' = [getting EXCEPT ![c] = call]
      BY <1>3, <2>1 DEF LookUpBucket
    <3> HIDE DEF call
    <3> QED BY <1>2, <1>3, <3>1, <3>2 DEF LookUpBucket
  <2>2. CASE ~(u \in named /\ u \notin DOMAIN buckets)
    BY <1>1, <1>3, <2>2, SpeedQuiet DEF LookUpBucket, SpeedTyped
  <2> QED BY <2>1, <2>2
<1>4. CASE ReadLimit(c)
  <2>1. getting[c] \in Call /\ getting[c].user \in Users
    BY <1>1, <1>4 DEF ReadLimit, SpeedTyped, Call
  <2>2. CASE Limited(getting[c].user)
    <3>1. getting[c].user \in DOMAIN limits /\ limits[getting[c].user] \in Speeds
      BY <1>1, <2>2, SpeedFunctions DEF Limited
    <3> DEFINE r == limits[getting[c].user]
               call == [getting[c] EXCEPT !.at = "read", !.rate = r]
    <3>2. call \in Call /\ call.rate = limits[getting[c].user] /\ call.user = getting[c].user
      BY <2>1, <3>1 DEF Call
    <3>3. getting' = [getting EXCEPT ![c] = call]
      BY <1>1, <1>4, <2>2 DEF ReadLimit, SpeedTyped
    <3> HIDE DEF call
    <3> QED BY <1>2, <1>4, <3>1, <3>2, <3>3 DEF ReadLimit
  <2>3. CASE ~Limited(getting[c].user)
    BY <1>2, <1>4, <2>3 DEF ReadLimit, Returns
  <2> QED BY <2>2, <2>3
<1>5. CASE InsertBucket(c)
  <2> DEFINE u == getting[c].user
             r == getting[c].rate
  <2>1. getting[c] \in Call /\ u \in Users /\ r \in Speeds /\ getting[c].old \in BOOLEAN
    BY <1>1, <1>5 DEF InsertBucket, SpeedTyped, Call
  <2>2. CASE u \in DOMAIN buckets
    BY <1>2, <1>5, <2>2 DEF InsertBucket, Returns
  <2>3. CASE u \notin DOMAIN buckets
    <3>1. /\ buckets' = [v \in DOMAIN buckets \union {u} |-> IF v = u THEN r ELSE buckets[v]]
          /\ late' = IF getting[c].old THEN late \union {u} ELSE late
          /\ getting' = [getting EXCEPT ![c] = None]
          /\ UNCHANGED <<limits, penalized, engine, policy, svc>>
      BY <1>5, <2>3 DEF InsertBucket, Returns
    <3>2. u \notin penalized /\ r # Penalty
      BY <1>1, <2>1, <2>3, SpeedFunctions DEF PenaltyIsEngines
    <3>3. getting[c].old \/ (u \in DOMAIN limits /\ r = limits[u])
      BY <1>1, <1>5 DEF InsertBucket, ReadCurrent
    <3>4. buckets' \in FunctionsOn(Users, Speeds \union {Penalty})
      <4>1. DOMAIN buckets \union {u} \in SUBSET Users
        BY <1>1, <2>1, SpeedFunctions
      <4>2. buckets' \in [DOMAIN buckets \union {u} -> Speeds \union {Penalty}]
        BY <1>1, <2>1, <3>1, SpeedFunctions
      <4> QED BY <4>1, <4>2, FunctionsOnIntro
    <3>5. /\ getting' \in [Conns -> Call \union {None}]
          /\ \A d \in Conns : getting'[d] # None =>
                getting'[d] \in Call /\ (getting'[d].at = "read" => getting'[d].rate \in Speeds)
      BY <1>1, <3>1, GettingTyped
    <3>6. SpeedTyped'
      BY <1>1, <3>1, <3>4, <3>5 DEF SpeedTyped
    <3>7. getting'[c] = None /\ \A d \in Conns \ {c} : getting'[d] = getting[d]
      BY <1>1, <3>1 DEF SpeedTyped
    <3>8. ReadCurrent'
      BY <1>1, <3>1, <3>7 DEF ReadCurrent
    <3>9. /\ DOMAIN buckets' = DOMAIN buckets \union {u} /\ buckets'[u] = r
          /\ \A v \in DOMAIN buckets : buckets'[v] = buckets[v]
      BY <2>3, <3>1
    <3>10. PenaltyIsEngines'
      BY <1>1, <3>1, <3>2, <3>9 DEF PenaltyIsEngines
    <3>11. BucketsCurrent'
      BY <1>1, <3>1, <3>3, <3>9 DEF BucketsCurrent
    <3> QED BY <3>6, <3>8, <3>10, <3>11 DEF SpeedInv
  <2> QED BY <2>2, <2>3
<1>6. CASE LetGo(c)
  BY <1>1, <1>6, SpeedQuiet DEF LetGo, SpeedTyped
<1> QED BY <1>3, <1>4, <1>5, <1>6 DEF LimiterStep

\* Nobody is throttled and cleared in one cycle, and whoever is penalized and not cleared
\* is throttled on.
LEMMA CycleSound ==
    ASSUME SpeedTyped, PenaltyIsEngines, NEW hot \in SUBSET Users
    PROVE  /\ Throttles(hot) \subseteq Users
           /\ \A u \in Throttles(hot) : u \notin Clears(hot) /\ u \in DOMAIN Evaluated(hot)
                                        /\ Evaluated(hot)[u].throttled
           /\ penalized \ Clears(hot) \subseteq Throttles(hot)
<1>1. /\ DOMAIN Evaluated(hot) = Watched(hot) /\ Watched(hot) \subseteq Users
      /\ engine \in [DOMAIN engine -> EngineState]
  BY EvaluatedType, SpeedFunctions
<1>2. \A u \in Watched(hot) : u \notin Clears(hot)
  BY DEF Watched
<1>3. ASSUME NEW u \in penalized, u \notin Clears(hot) PROVE u \in Throttles(hot)
  <2>1. u \in DOMAIN engine /\ engine[u].throttled /\ engine[u] \in EngineState
    BY <1>1, <1>3 DEF PenaltyIsEngines
  <2>2. u \in Watched(hot)
    BY <1>3, <2>1 DEF Watched, Clears
  <2>3. Evaluated(hot)[u] = IF u \in hot THEN Heated(engine[u]) ELSE Cooled(engine[u])
    BY <2>1, <2>2 DEF Evaluated, State
  <2>4. Heated(engine[u]).throttled /\ Cooled(engine[u]).throttled
    BY <2>1, HeatedType
  <2> QED BY <2>2, <2>3, <2>4 DEF Throttles
<1> QED BY <1>1, <1>2, <1>3 DEF Throttles

LEMMA ThrottleKeeps ==
    ASSUME SpeedInv, NEW hot \in SUBSET Users, ApplyAutoThrottle(hot)
    PROVE  SpeedInv'
<1>1. SpeedTyped /\ PenaltyIsEngines /\ ReadCurrent /\ BucketsCurrent
  BY DEF SpeedInv
<1>2. PICK T, C, E : T = Throttles(hot) /\ C = Clears(hot) /\ E = Evaluated(hot)
  OBVIOUS
<1>3. /\ T \subseteq Users /\ penalized \ C \subseteq T
      /\ \A u \in T : u \notin C /\ u \in DOMAIN E /\ E[u].throttled
  BY <1>1, <1>2, CycleSound
<1>4. E \in FunctionsOn(Users, EngineState)
  BY <1>1, <1>2, EvaluatedType
<1>5. /\ engine' = E /\ svc = "idle" /\ svc' = svc
      /\ penalized' = (penalized \union T) \ C
      /\ late' = late \ Lifted(C)
      /\ buckets' = [u \in (DOMAIN buckets \union T \union Lifted(C)) \ Removed(C) |->
                        IF u \in T THEN Penalty ELSE IF u \in Lifted(C) THEN limits[u] ELSE buckets[u]]
      /\ UNCHANGED <<limits, policy, getting>>
  BY <1>2 DEF ApplyAutoThrottle, Applied, Idle
<1>6. /\ Lifted(C) \subseteq penalized /\ Lifted(C) \subseteq C
      /\ Removed(C) \subseteq Lifted(C)
      /\ \A u \in Lifted(C) \ Removed(C) : u \in DOMAIN limits
      /\ \A u \in penalized : u \in C => u \in Lifted(C)
  BY DEF Lifted, Removed, Limited
<1>7. \A u \in DOMAIN buckets' :
         \/ u \in T /\ u \in penalized' /\ buckets'[u] = Penalty
         \/ /\ u \notin T /\ u \in Lifted(C) /\ u \notin penalized'
            /\ u \in DOMAIN limits /\ buckets'[u] = limits[u]
         \/ /\ u \notin T /\ u \notin Lifted(C) /\ u \in DOMAIN buckets /\ buckets'[u] = buckets[u]
            /\ u \notin penalized /\ u \notin penalized'
  <2> TAKE u \in DOMAIN buckets'
  <2>1. /\ u \in DOMAIN buckets \/ u \in T \/ u \in Lifted(C)
        /\ u \notin Removed(C)
        /\ buckets'[u] = IF u \in T THEN Penalty ELSE IF u \in Lifted(C) THEN limits[u] ELSE buckets[u]
    BY <1>5
  <2>2. \A v \in T : v \notin C
    BY <1>3
  <2>3. CASE u \in T
    BY <1>5, <2>1, <2>2, <2>3
  <2>4. CASE u \notin T /\ u \in Lifted(C)
    BY <1>5, <1>6, <2>1, <2>4
  <2>5. CASE u \notin T /\ u \notin Lifted(C)
    <3>1. u \notin penalized
      BY <1>3, <1>6, <2>5
    <3>2. u \notin penalized'
      BY <1>5, <2>5, <3>1
    <3> QED BY <2>1, <2>5, <3>1, <3>2
  <2> QED BY <2>3, <2>4, <2>5
<1>8. penalized' = T /\ T \subseteq DOMAIN buckets'
  BY <1>3, <1>5, <1>6
<1>9. SpeedTyped'
  <2>1. DOMAIN buckets' \in SUBSET Users
    BY <1>1, <1>3, <1>7, SpeedFunctions
  <2>2. buckets' \in [DOMAIN buckets' -> Speeds \union {Penalty}]
    <3>1. \A u \in DOMAIN buckets' : buckets'[u] \in Speeds \union {Penalty}
      BY <1>1, <1>7, SpeedFunctions
    <3>2. buckets' = [u \in DOMAIN buckets' |-> buckets'[u]]
      BY <1>5
    <3> QED BY <3>1, <3>2
  <2>3. buckets' \in FunctionsOn(Users, Speeds \union {Penalty})
    BY <2>1, <2>2, FunctionsOnIntro
  <2> QED BY <1>1, <1>3, <1>4, <1>5, <1>8, <2>3 DEF SpeedTyped
<1>10. PenaltyIsEngines'
  <2>1. \A u \in DOMAIN limits : limits[u] # Penalty
    BY <1>1, SpeedFunctions
  <2>2. \A u \in DOMAIN buckets' : (buckets'[u] = Penalty) <=> (u \in penalized')
    BY <1>1, <1>7, <2>1 DEF PenaltyIsEngines
  <2>3. ASSUME NEW u \in penalized' PROVE u \in DOMAIN buckets' /\ u \in DOMAIN engine' /\ engine'[u].throttled
    BY <1>3, <1>5, <1>8, <2>3
  <2> QED BY <2>2, <2>3 DEF PenaltyIsEngines
<1>11. ReadCurrent'
  BY <1>1, <1>5 DEF ReadCurrent
<1>12. BucketsCurrent'
  BY <1>1, <1>5, <1>7, <1>8 DEF BucketsCurrent
<1> QED BY <1>9, <1>10, <1>11, <1>12 DEF SpeedInv

LEMMA SpeedInvInit == SpeedInit => SpeedInv
<1> SUFFICES ASSUME SpeedInit PROVE SpeedInv
  OBVIOUS
<1>1. /\ DOMAIN buckets = {} /\ penalized = {} /\ getting = [c \in Conns |-> None]
  BY DEF SpeedInit
<1> QED BY <1>1, SpeedTypedInit DEF SpeedInv, PenaltyIsEngines, ReadCurrent, BucketsCurrent

LEMMA SpeedInvNext == SpeedInv /\ [SpeedNext]_speed => SpeedInv'
<1> SUFFICES ASSUME SpeedInv, [SpeedNext]_speed PROVE SpeedInv'
  OBVIOUS
<1>1. policy \in BOOLEAN
  BY DEF SpeedInv, SpeedTyped
<1>2. CASE UNCHANGED speed
  BY <1>1, <1>2, SpeedQuiet DEF speed
<1>3. CASE ListDone
  BY <1>1, <1>3, SpeedQuiet DEF ListDone
<1>4. ASSUME NEW on \in BOOLEAN, SetPolicy(on) PROVE SpeedInv'
  BY <1>4, SpeedQuiet DEF SetPolicy
<1>5. ASSUME NEW u \in Users, Kick(u) PROVE SpeedInv'
  BY <1>1, <1>5, SpeedQuiet DEF Kick
<1>6. CASE Track
  BY <1>6, ThrottleKeeps DEF Track
<1> QED BY <1>2, <1>3, <1>4, <1>5, <1>6, SetLimitsKeeps, UpdateBucketsKeeps, LimiterKeeps
        DEF SpeedNext, ServiceStep

\* A bucket is at the penalty rate exactly while its user is penalized, and only a user
\* the engine throttles is, for any lists, traffic and calls to GetLimiter.
THEOREM Penalties == SpeedSpec => []PenaltyIsEngines
<1>1. SpeedInv => PenaltyIsEngines
  BY DEF SpeedInv
<1> QED BY <1>1, SpeedInvInit, SpeedInvNext, PTL DEF SpeedSpec

\* Outside of a list change a bucket is at the penalty rate or at its user's limit, but
\* for one a call of GetLimiter made from a limit it had read before the change.
THEOREM Buckets == SpeedSpec => []BucketsCurrent
<1>1. SpeedInv => BucketsCurrent
  BY DEF SpeedInv
<1> QED BY <1>1, SpeedInvInit, SpeedInvNext, PTL DEF SpeedSpec

-----------------------------------------------------------------------------
(***************************************************************************)
(* The composition: kicks of the engine.  That each part keeps to its      *)
(* types makes a step of the whole one of its parts, so their invariants   *)
(* hold: a list the kernel takes is a set of users, and the limiter is     *)
(* asked for a user.                                                       *)
(***************************************************************************)
PlaneInv == TrackerInv /\ SpeedInv

LEMMA ListsAreUsers ==
    ASSUME PlaneInv
    PROVE  /\ DOMAIN limits \in SUBSET Users
           /\ \A c \in Conns : conn[c].at # "free" => conn[c].user \in Users
<1>1. TypedButCounts /\ SpeedTyped
  BY TypesSplit DEF PlaneInv, TrackerInv, SpeedInv
<1> QED BY <1>1, SpeedFunctions DEF TypedButCounts

LEMMA ConnectionsImplement ==
    ASSUME PlaneInv, NEW c \in Conns,
           Enter(c) \/ AskLimiter(c) \/ Leave(c) \/ (Shut(c) /\ UNCHANGED speed)
    PROVE  [TrackerNext]_tracker /\ [SpeedNext]_speed
<1>1. CASE Enter(c)
  <2>1. OpenStep(c)
    BY <1>1 DEF Enter, Gate, OpenStep
  <2> QED BY <1>1, <2>1 DEF Enter, TrackerNext
<1>2. CASE AskLimiter(c)
  <2>1. conn[c].user \in Users
    BY <1>2, ListsAreUsers DEF AskLimiter
  <2>2. LimiterStep(c)
    BY <1>2, <2>1 DEF AskLimiter, LimiterStep
  <2>3. Open(c) \/ UNCHANGED tracker
    BY <1>2 DEF AskLimiter, OpenIfGot
  <2> QED BY <2>2, <2>3 DEF SpeedNext, TrackerNext, OpenStep
<1>3. CASE Leave(c)
  <2>1. CloseStep(c)
    BY <1>3 DEF Leave, CloseStep
  <2>2. LetGo(c) \/ UNCHANGED speed
    BY <1>3 DEF Leave
  <2> QED BY <2>1, <2>2 DEF TrackerNext, SpeedNext, LimiterStep
<1>4. CASE Shut(c) /\ UNCHANGED speed
  BY <1>4 DEF TrackerNext, CloseStep
<1> QED BY <1>1, <1>2, <1>3, <1>4

LEMMA ServiceImplements ==
    ASSUME PlaneInv,
           TakeList \/ SyncBuckets \/ KernelTakes \/ KernelHas \/ Throttle \/ Devices
           \/ \E u \in Users : KickHot(u) \/ PanelKick(u)
    PROVE  [TrackerNext]_tracker /\ [SpeedNext]_speed
<1>1. CASE SyncBuckets \/ KernelHas \/ Throttle
  <2>1. ServiceStep /\ UNCHANGED tracker
    BY <1>1 DEF SyncBuckets, KernelHas, Throttle, ServiceStep
  <2> QED BY <2>1 DEF SpeedNext
<1>2. CASE KernelTakes
  <2>1. (\E S \in SUBSET Users : SwapInbounds(S)) \/ SetUserMap
    BY <1>2, ListsAreUsers DEF KernelTakes
  <2>2. UNCHANGED speed
    BY <1>2 DEF KernelTakes
  <2> QED BY <2>1, <2>2 DEF TrackerNext
<1>3. CASE Devices
  BY <1>3 DEF Devices, TrackerNext
<1>4. ASSUME NEW u \in Users, KickHot(u) PROVE TrackerNext /\ SpeedNext
  BY <1>4 DEF KickHot, TrackerNext, SpeedNext, ServiceStep
<1>5. ASSUME NEW u \in Users, PanelKick(u) PROVE TrackerNext /\ UNCHANGED speed
  BY <1>5 DEF PanelKick, TrackerNext
<1>6. CASE TakeList
  BY <1>6 DEF TakeList, TrackerNext, SpeedNext, ServiceStep
<1> QED BY <1>1, <1>2, <1>3, <1>4, <1>5, <1>6

\* Outside of a list change the kernel knows the users of the limiter's list, and the
\* service throttles and kicks only then.
KickInv ==
    /\ svc = "idle" => known = DOMAIN limits
    /\ kicks # {} => svc = "idle"
    /\ kicks \subseteq DOMAIN limits

LEMMA KickInvNext == KickInv /\ [PlaneNext]_plane => KickInv'
<1> SUFFICES ASSUME KickInv, [PlaneNext]_plane PROVE KickInv'
  OBVIOUS
<1>1. ASSUME UNCHANGED <<known, limits, svc>>, kicks' \subseteq kicks PROVE KickInv'
  BY <1>1 DEF KickInv
<1>2. ASSUME NEW c \in Conns, Enter(c) \/ AskLimiter(c) \/ Leave(c) \/ (Shut(c) /\ UNCHANGED speed)
      PROVE  KickInv'
  <2>1. UNCHANGED known
    <3>1. CASE Enter(c)
      BY <3>1 DEF Enter, Gate, Accept, LookUp, RejectByACL, ReadDeviceLimit, EnterGate, PassGate, Refuse,
                  AddConn, Register
    <3>2. CASE AskLimiter(c) \/ Leave(c) \/ (Shut(c) /\ UNCHANGED speed)
      BY <3>2 DEF AskLimiter, OpenIfGot, Open, Leave, Close, Unregister, Shut, tracker
    <3> QED BY <1>2, <3>1, <3>2
  <2>2. UNCHANGED <<limits, svc, kicks>>
    BY <1>2 DEF Enter, AskLimiter, LookUpBucket, ReadLimit, InsertBucket, Leave, LetGo, speed
  <2> QED BY <1>1, <2>1, <2>2
<1>3. CASE TakeList
  <2>1. svc' = "limits" /\ kicks = {} /\ UNCHANGED kicks
    BY <1>3 DEF TakeList, SetLimits, Idle
  <2> QED BY <2>1 DEF KickInv
<1>4. CASE SyncBuckets
  <2>1. svc = "limits" /\ svc' = "kernel" /\ UNCHANGED kicks
    BY <1>4 DEF SyncBuckets, UpdateBuckets
  <2> QED BY <2>1 DEF KickInv
<1>5. CASE KernelTakes
  <2>1. svc = "kernel" /\ UNCHANGED <<svc, kicks>>
    BY <1>5 DEF KernelTakes, speed
  <2> QED BY <2>1 DEF KickInv
<1>6. CASE KernelHas
  <2>1. svc = "kernel" /\ known = DOMAIN limits /\ UNCHANGED <<known, limits, kicks>>
    BY <1>6 DEF KernelHas, ListDone, tracker
  <2> QED BY <2>1 DEF KickInv
<1>7. CASE Throttle
  <2>1. ASSUME NEW hot \in SUBSET Users, ApplyAutoThrottle(hot), UNCHANGED known PROVE KickInv'
    <3>1. /\ svc = "idle" /\ UNCHANGED <<known, limits, svc>>
          /\ kicks' \subseteq DOMAIN limits
      BY <2>1 DEF ApplyAutoThrottle, Idle
    <3> QED BY <3>1 DEF KickInv
  <2>2. UNCHANGED known
    BY <1>7 DEF Throttle, tracker
  <2>3. ASSUME NEW on \in BOOLEAN, SetPolicy(on) PROVE KickInv'
    BY <1>1, <2>2, <2>3 DEF SetPolicy
  <2> QED BY <1>7, <2>1, <2>2, <2>3 DEF Throttle, Track
<1>8. CASE Devices
  BY <1>1, <1>8 DEF Devices, UpdateGlobalDevices, ForgetGlobalDevices, speed
<1>9. ASSUME NEW u \in Users, KickHot(u) \/ PanelKick(u) PROVE KickInv'
  BY <1>1, <1>9 DEF KickHot, Kick, PanelKick, CloseByUUID, speed
<1>10. CASE UNCHANGED plane
  BY <1>1, <1>10 DEF plane, tracker, speed
<1> QED BY <1>2, <1>3, <1>4, <1>5, <1>6, <1>7, <1>8, <1>9, <1>10 DEF PlaneNext

\* Only a kick takes a user off those to kick, and it closes what it finds of the user.
LEMMA KicksClose ==
    ASSUME [PlaneNext]_plane, KickInv, NEW u \in kicks \ kicks'
    PROVE  Found(u) \subseteq shutting'
<1>1. ASSUME kicks \subseteq kicks' PROVE FALSE
  BY <1>1
<1>2. CASE TakeList \/ SyncBuckets \/ KernelTakes \/ KernelHas \/ Throttle \/ Devices
  BY <1>1, <1>2 DEF TakeList, SetLimits, SyncBuckets, UpdateBuckets, KernelTakes, KernelHas, ListDone,
                    Throttle, Track, ApplyAutoThrottle, SetPolicy, Idle, Devices, speed
<1>3. ASSUME NEW c \in Conns, Enter(c) \/ AskLimiter(c) \/ Leave(c) \/ (Shut(c) /\ UNCHANGED speed)
      PROVE  FALSE
  BY <1>1, <1>3 DEF Enter, AskLimiter, LookUpBucket, ReadLimit, InsertBucket, Leave, LetGo, speed
<1>4. ASSUME NEW v \in Users, PanelKick(v) PROVE FALSE
  BY <1>1, <1>4 DEF PanelKick, speed
<1>5. ASSUME NEW v \in Users, KickHot(v) PROVE Found(u) \subseteq shutting'
  BY <1>5 DEF KickHot, Kick, CloseByUUID
<1>6. CASE UNCHANGED plane
  BY <1>1, <1>6 DEF plane, speed
<1> QED BY <1>2, <1>3, <1>4, <1>5, <1>6 DEF PlaneNext

\* A kick of the engine collects every connection of its user that is up, but for those that
\* came in while a list was being swapped, whatever lists come and connections open and close.
\* The invariant ties the limiter's list, by which the engine kicks, to the kernel's, by which
\* a kick finds, and the register of connections to their users.
THEOREM KicksReachConnections == PlaneSpec => KicksReach
<1> DEFINE KInv == PlaneInv /\ ReachInv /\ KickInv
           Reaches == \A u \in kicks \ kicks' : \A c \in Conns :
                         conn[c].at \in {"registered", "open"} /\ conn[c].user = u /\ ~conn[c].crossed =>
                             c \in shutting'
<1>1. PlaneInit => KInv
  <2> SUFFICES ASSUME PlaneInit PROVE KInv
    OBVIOUS
  <2>1. PlaneInv
    BY TrackerInvInit, SpeedInvInit DEF PlaneInit, PlaneInv
  <2>2. ReachInv
    BY FreeType DEF PlaneInit, TrackerInit, ReachInv, Reached, PastLookUp
  <2>3. KickInv
    BY DEF PlaneInit, TrackerInit, SpeedInit, KickInv
  <2> QED BY <2>1, <2>2, <2>3
<1>2. KInv /\ [PlaneNext]_plane => KInv'
  <2> SUFFICES ASSUME KInv, [PlaneNext]_plane PROVE KInv'
    OBVIOUS
  <2>1. [TrackerNext]_tracker /\ [SpeedNext]_speed
    <3>1. CASE PlaneNext
      BY <3>1, ConnectionsImplement, ServiceImplements DEF PlaneNext
    <3>2. CASE UNCHANGED plane
      BY <3>2 DEF plane
    <3> QED BY <3>1, <3>2
  <2>2. PlaneInv'
    BY <2>1, TrackerInvNext, SpeedInvNext DEF PlaneInv
  <2>3. ReachInv'
    <3>1. CASE TrackerNext
      BY <3>1, ReachNext DEF PlaneInv, TrackerInv
    <3>2. CASE UNCHANGED tracker
      BY <3>2 DEF tracker, ReachInv, Reached
    <3> QED BY <2>1, <3>1, <3>2
  <2> QED BY <2>2, <2>3, KickInvNext
<1>3. KInv /\ [PlaneNext]_plane => Reaches
  <2> SUFFICES ASSUME KInv, [PlaneNext]_plane, NEW u \in kicks \ kicks', NEW c \in Conns,
                      conn[c].at \in {"registered", "open"}, conn[c].user = u, ~conn[c].crossed
               PROVE  c \in shutting'
    OBVIOUS
  <2>1. u \in known
    BY DEF KickInv
  <2>2. refs[c] = u
    BY DEF ReachInv, Reached, PastLookUp
  <2>3. c \in Found(u)
    BY <2>1, <2>2 DEF Found
  <2> QED BY <2>3, KicksClose
<1> QED BY <1>1, <1>2, <1>3, PTL DEF PlaneSpec, KicksReach
=============================================================================
