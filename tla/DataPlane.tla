------------------------------ MODULE DataPlane -------------------------------
(***************************************************************************)
(* The data plane of a node with the sing-box kernel: connections go       *)
(* through the tracker and get their limiter from the speed tracker, while *)
(* the service takes new user lists (the limiter first, then the buckets,  *)
(* then the kernel: prepareUserState and the kernel operation after it in  *)
(* internal/service/service.go), throttles hot users and kicks them, and   *)
(* the panel kicks users too.                                              *)
(***************************************************************************)
EXTENDS ConnTracker, SpeedLimits

plane == <<tracker, speed>>

PlaneInit == TrackerInit /\ SpeedInit

-----------------------------------------------------------------------------
(***************************************************************************)
(* Connections.                                                            *)
(***************************************************************************)
Gate(c) == ReadDeviceLimit(c) \/ EnterGate(c) \/ PassGate(c) \/ Refuse(c)

Enter(c) ==
    /\ \/ \E u \in Users, a \in Addrs : Accept(c, u, a)
       \/ LookUp(c) \/ RejectByACL(c) \/ Gate(c) \/ AddConn(c) \/ Register(c)
    /\ UNCHANGED speed

\* The connection opens when GetLimiter returns.
OpenIfGot(c) == IF getting'[c] = None THEN Open(c) ELSE UNCHANGED tracker

AskLimiter(c) ==
    /\ conn[c].at = "registered"
    /\ \/ LookUpBucket(c, conn[c].user) \/ ReadLimit(c) \/ InsertBucket(c)
    /\ OpenIfGot(c)

Leave(c) ==
    \/ Close(c) /\ (IF held[c] = None THEN UNCHANGED speed ELSE LetGo(c))
    \/ Unregister(c) /\ UNCHANGED speed

-----------------------------------------------------------------------------
(***************************************************************************)
(* The service.                                                            *)
(***************************************************************************)
\* The limiter has nothing to say of users off its list.
TakeList ==
    \E list \in Lists, table \in [Users -> DeviceLimits] :
        /\ \A u \in Users \ DOMAIN list : table[u] = 0
        /\ SetLimits(list) /\ SetDeviceLimits(table)

SyncBuckets == UpdateBuckets /\ UNCHANGED tracker

\* The inbounds are left alone when no identity changes, the map is not.
KernelTakes ==
    /\ svc = "kernel"
    /\ \/ accepts # DOMAIN limits /\ SwapInbounds(DOMAIN limits)
       \/ SetUserMap
    /\ UNCHANGED speed

\* Mutant of KernelHas: the inbounds have the list, the map is not waited for.
KernelHasInbounds == accepts = DOMAIN limits /\ ListDone /\ UNCHANGED tracker

KernelHas == known = DOMAIN limits /\ accepts = DOMAIN limits /\ ListDone /\ UNCHANGED tracker

Throttle == (Track \/ \E on \in BOOLEAN : SetPolicy(on)) /\ UNCHANGED tracker

\* CloseUserConnections, for each user the engine wants kicked.
KickHot(u) == Kick(u) /\ CloseByUUID(u)

\* kick.user events and the answers to access-log pushes.
PanelKick(u) == CloseByUUID(u) /\ UNCHANGED speed

Devices ==
    /\ \/ \E lists \in [Users -> SUBSET Addrs] : UpdateGlobalDevices(lists)
       \/ ForgetGlobalDevices
    /\ UNCHANGED speed

-----------------------------------------------------------------------------
PlaneNext ==
    \/ \E c \in Conns : Enter(c) \/ AskLimiter(c) \/ Leave(c) \/ (Shut(c) /\ UNCHANGED speed)
    \/ TakeList \/ SyncBuckets \/ KernelTakes \/ KernelHas \/ Throttle \/ Devices
    \/ \E u \in Users : KickHot(u) \/ PanelKick(u)

PlaneSpec == PlaneInit /\ [][PlaneNext]_plane

-----------------------------------------------------------------------------
(***************************************************************************)
(* Properties.                                                             *)
(***************************************************************************)
\* Users the engine wants kicked are on the limiter's list, kicks find users of the
\* kernel's: between them whole lists are taken, with connections opening and closing.
\* A kick of the engine collects every connection of its user that is up, but for those
\* that came in while a list was being swapped.
KicksReach ==
    [][\A u \in kicks \ kicks' : \A c \in Conns :
          conn[c].at \in {"registered", "open"} /\ conn[c].user = u /\ ~conn[c].crossed =>
              c \in shutting']_plane
=============================================================================
