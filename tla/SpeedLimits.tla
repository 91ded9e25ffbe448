----------------------------- MODULE SpeedLimits ------------------------------
(***************************************************************************)
(* Per-user bandwidth: the user list of internal/limiter/limiter.go, the   *)
(* buckets of speedtracker.go, the penalties of autothrottle.go and what   *)
(* applyAutoThrottle of internal/service/service.go does with them.        *)
(*                                                                         *)
(* A bucket is a rate.Limiter shared by the user's connections.  A         *)
(* connection keeps the object it was given, so it follows the rate as     *)
(* long as the bucket is in the map, and keeps the last rate once it has   *)
(* been deleted.  GetLimiter runs on the kernel's goroutines in three      *)
(* critical sections; everything else on the service's.  Rates are what    *)
(* matters of a limiter; bursts are left out.                              *)
(***************************************************************************)
EXTENDS KernelBase

CONSTANTS
    Speeds,     \* speed limits, 0 for none
    Penalty,    \* the policy's penalty rate
    Trigger,    \* hot cycles until a user is throttled
    KickAfter,  \* further hot cycles until it is kicked, 0 for never
    Release     \* cycles without heat until it is released

ASSUME SpeedConstants ==
    /\ Speeds \subseteq Nat
    /\ Penalty \in Nat \ Speeds /\ Penalty > 0
    /\ Trigger \in Nat \ {0} /\ KickAfter \in Nat /\ Release \in Nat

VARIABLES
    limits,     \* Limiter.users, the speed limit of each user
    named,      \* users of SpeedTracker.uuidMap
    buckets,    \* SpeedTracker.buckets, the rate of each
    penalized,  \* SpeedTracker.penalized
    engine,     \* AutoThrottle.state
    policy,     \* the configuration has an auto-throttle policy
    kicks,      \* users applyAutoThrottle is about to kick
    svc,        \* where the service is with a new user list
    getting,    \* GetLimiter calls under way
    held,       \* the limiter each connection has
    late        \* history: users whose bucket was made from an old limit

speed == <<limits, named, buckets, penalized, engine, policy, kicks, svc, getting, held, late>>

Rates == Speeds \union {Penalty}
Lists == UNION {[S -> Speeds] : S \in SUBSET Users}

\* One user of the engine.  left is the time to autoState.until in cycles.
Tracked == [streak : 0..Trigger, throttled : BOOLEAN, hotRun : 0..KickAfter, left : 0..Release]

\* missed: no bucket was found; read: the user's limit was.
Call == [at : {"missed", "read"}, user : Users, rate : Speeds \union {None}, old : BOOLEAN]

\* own is None while the limiter is the user's bucket.
Limiter == [user : Users, own : Rates \union {None}]

FunctionsOn(D, R) == UNION {[S -> R] : S \in SUBSET D}

SpeedTypeOK ==
    /\ limits \in FunctionsOn(Users, Speeds)
    /\ named \subseteq Users
    /\ buckets \in FunctionsOn(Users, Rates \ {0})
    /\ penalized \subseteq Users
    /\ engine \in FunctionsOn(Users, Tracked)
    /\ policy \in BOOLEAN /\ kicks \subseteq Users
    /\ svc \in {"idle", "limits", "kernel"}
    /\ getting \in [Conns -> Call \union {None}]
    /\ held \in [Conns -> Limiter \union {None}]
    /\ late \subseteq Users

SpeedInit ==
    /\ limits = [u \in {} |-> 0] /\ named = {}
    /\ buckets = [u \in {} |-> 0] /\ penalized = {}
    /\ engine = [u \in {} |-> 0]
    /\ policy \in BOOLEAN /\ kicks = {}
    /\ svc = "idle"
    /\ getting = [c \in Conns |-> None]
    /\ held = [c \in Conns |-> None]
    /\ late = {}

-----------------------------------------------------------------------------
(***************************************************************************)
(* Buckets that are deleted leave their connections with the last rate.    *)
(***************************************************************************)
Shares(c, u) == held[c] # None /\ held[c].user = u /\ held[c].own = None

Without(f, S) == [u \in DOMAIN f \ S |-> f[u]]

Detached(S) ==
    [c \in Conns |-> IF \E u \in S : Shares(c, u)
                        THEN [held[c] EXCEPT !.own = buckets[held[c].user]] ELSE held[c]]

-----------------------------------------------------------------------------
(***************************************************************************)
(* A new user list.                                                        *)
(***************************************************************************)
Limited(u) == u \in DOMAIN limits /\ limits[u] > 0

Idle == svc = "idle" /\ kicks = {}

\* Limiter.UpdateUsers.  Calls that have read the old list do not know.
SetLimits(list) ==
    /\ Idle
    /\ svc' = "limits"
    /\ limits' = list
    /\ getting' = [c \in Conns |-> IF getting[c] # None /\ getting[c].at = "read"
                                      THEN [getting[c] EXCEPT !.old = TRUE] ELSE getting[c]]
    /\ UNCHANGED <<named, buckets, penalized, engine, policy, kicks, held, late>>

\* The buckets UpdateBuckets deletes: of users that left, and of those without
\* a limit unless they are penalized.
Dropped == {u \in DOMAIN buckets : u \notin DOMAIN limits \/ (u \notin penalized /\ limits[u] = 0)}

\* A penalized user keeps bucket and penalty unless it left.
UpdateBuckets ==
    /\ svc = "limits" /\ svc' = "kernel"
    /\ named' = DOMAIN limits
    /\ buckets' = [u \in DOMAIN buckets \ Dropped |->
                      IF u \in penalized THEN buckets[u] ELSE limits[u]]
    /\ held' = Detached(Dropped)
    /\ penalized' = penalized \ {u \in Dropped : u \notin DOMAIN limits}
    /\ late' = {}
    /\ UNCHANGED <<limits, engine, policy, kicks, getting>>

\* The kernel has the list too.
ListDone ==
    /\ svc = "kernel" /\ svc' = "idle"
    /\ UNCHANGED <<limits, named, buckets, penalized, engine, policy, kicks, getting, held, late>>

SetPolicy(on) ==
    /\ Idle
    /\ policy' = on
    /\ UNCHANGED <<limits, named, buckets, penalized, engine, kicks, svc, getting, held, late>>

-----------------------------------------------------------------------------
(***************************************************************************)
(* GetLimiter, for connection c of user u.                                 *)
(***************************************************************************)
Gets(c, limiter) == held' = [held EXCEPT ![c] = limiter]
Returns(c)       == getting' = [getting EXCEPT ![c] = None]
Bucket(u)        == [user |-> u, own |-> None]

\* There is no limiter for a user the tracker has no name of.
LookUpBucket(c, u) ==
    /\ getting[c] = None /\ held[c] = None
    /\ IF u \in named /\ u \notin DOMAIN buckets
          THEN /\ getting' = [getting EXCEPT ![c] =
                                 [at |-> "missed", user |-> u, rate |-> None, old |-> FALSE]]
               /\ UNCHANGED held
          ELSE /\ Gets(c, IF u \in named THEN Bucket(u) ELSE None)
               /\ UNCHANGED getting
    /\ UNCHANGED <<limits, named, buckets, penalized, engine, policy, kicks, svc, late>>

ReadLimit(c) ==
    /\ getting[c] # None /\ getting[c].at = "missed"
    /\ IF Limited(getting[c].user)
          THEN getting' = [getting EXCEPT ![c].at = "read", ![c].rate = limits[getting[c].user]]
          ELSE Returns(c)
    /\ UNCHANGED <<limits, named, buckets, penalized, engine, policy, kicks, svc, held, late>>

\* Mutant of InsertBucket: no second look once the write lock is held.
OverwriteBucket(c) ==
    /\ getting[c] # None /\ getting[c].at = "read"
    /\ LET u == getting[c].user
       IN  /\ buckets' = [v \in DOMAIN buckets \union {u} |-> IF v = u THEN getting[c].rate ELSE buckets[v]]
           /\ late' = IF getting[c].old THEN late \union {u} ELSE late
           /\ Gets(c, Bucket(u))
    /\ Returns(c)
    /\ UNCHANGED <<limits, named, penalized, engine, policy, kicks, svc>>

\* A bucket that has appeared meanwhile is the one that counts.
InsertBucket(c) ==
    /\ getting[c] # None /\ getting[c].at = "read"
    /\ LET u == getting[c].user
       IN  IF u \in DOMAIN buckets
              THEN UNCHANGED <<buckets, late>>
              ELSE /\ buckets' = [v \in DOMAIN buckets \union {u} |->
                                     IF v = u THEN getting[c].rate ELSE buckets[v]]
                   /\ late' = IF getting[c].old THEN late \union {u} ELSE late
    /\ Gets(c, Bucket(getting[c].user))
    /\ Returns(c)
    /\ UNCHANGED <<limits, named, penalized, engine, policy, kicks, svc>>

\* The connection is over.
LetGo(c) ==
    /\ held[c] # None
    /\ Gets(c, None)
    /\ UNCHANGED <<limits, named, buckets, penalized, engine, policy, kicks, svc, getting, late>>

-----------------------------------------------------------------------------
(***************************************************************************)
(* AutoThrottle.Evaluate, one cycle; hot are the users above the           *)
(* threshold, whether or not they are on the list.                         *)
(***************************************************************************)
NewState == [streak |-> 0, throttled |-> FALSE, hotRun |-> 0, left |-> 0]
State(u) == IF u \in DOMAIN engine THEN engine[u] ELSE NewState

Throttling(st) == ~st.throttled /\ st.streak + 1 >= Trigger
KickDue(st)    == st.throttled /\ KickAfter > 0 /\ st.hotRun + 1 >= KickAfter

Heated(st) ==
    [streak    |-> IF st.throttled THEN st.streak ELSE st.streak + 1,
     throttled |-> st.throttled \/ Throttling(st),
     hotRun    |-> IF ~st.throttled \/ KickDue(st) \/ KickAfter = 0 THEN 0 ELSE st.hotRun + 1,
     left      |-> Release]

Cooled(st) == [st EXCEPT !.streak = 0, !.left = IF @ = 0 THEN 0 ELSE @ - 1]

\* Mutant of Clears: an engine without a policy forgets its users.
ClearsUnderPolicy(hot) ==
    IF policy THEN {u \in DOMAIN engine \ hot : engine[u].throttled /\ Cooled(engine[u]).left = 0}
              ELSE {}

\* Users whose penalty has run out; without a policy, all.
Clears(hot) ==
    IF policy THEN {u \in DOMAIN engine \ hot : engine[u].throttled /\ Cooled(engine[u]).left = 0}
              ELSE DOMAIN engine

Watched(hot) == (IF policy THEN DOMAIN engine \union hot ELSE {}) \ Clears(hot)

Evaluated(hot) ==
    [u \in Watched(hot) |-> IF u \in hot THEN Heated(State(u)) ELSE Cooled(State(u))]

Kicks(hot) == {u \in Watched(hot) \intersect hot : KickDue(State(u))}

Throttles(hot) == {u \in Watched(hot) : Evaluated(hot)[u].throttled}

(***************************************************************************)
(* applyAutoThrottle: SetPenalty for those to throttle, ClearPenalty for   *)
(* those to release, then the kicks of users on the list.                  *)
(***************************************************************************)
Lifted(C)  == C \intersect penalized
Removed(C) == {u \in Lifted(C) : ~Limited(u)}

\* Mutant of Applied: whoever is released keeps a bucket.
AppliedKeeping(T, C) ==
    /\ buckets' = [u \in DOMAIN buckets \union T |->
                      IF u \in T THEN Penalty
                      ELSE IF u \in Lifted(C) /\ Limited(u) THEN limits[u] ELSE buckets[u]]
    /\ held' = held
    /\ penalized' = (penalized \union T) \ C
    /\ late' = late \ Lifted(C)

Applied(T, C) ==
    /\ buckets' = [u \in (DOMAIN buckets \union T \union Lifted(C)) \ Removed(C) |->
                      IF u \in T THEN Penalty ELSE IF u \in Lifted(C) THEN limits[u] ELSE buckets[u]]
    /\ held' = Detached(Removed(C) \intersect DOMAIN buckets)
    /\ penalized' = (penalized \union T) \ C
    /\ late' = late \ Lifted(C)

ApplyAutoThrottle(hot) ==
    /\ Idle
    /\ engine' = Evaluated(hot)
    /\ Applied(Throttles(hot), Clears(hot))
    /\ kicks' = Kicks(hot) \intersect DOMAIN limits
    /\ UNCHANGED <<limits, named, policy, svc, getting>>

Kick(u) ==
    /\ u \in kicks
    /\ kicks' = kicks \ {u}
    /\ UNCHANGED <<limits, named, buckets, penalized, engine, policy, svc, getting, held, late>>

-----------------------------------------------------------------------------
Track == \E hot \in SUBSET Users : ApplyAutoThrottle(hot)

ServiceStep ==
    \/ \E list \in Lists : SetLimits(list)
    \/ UpdateBuckets \/ ListDone \/ Track
    \/ \E on \in BOOLEAN : SetPolicy(on)
    \/ \E u \in Users : Kick(u)

LimiterStep(c) ==
    \/ \E u \in Users : LookUpBucket(c, u)
    \/ ReadLimit(c) \/ InsertBucket(c) \/ LetGo(c)

SpeedNext == ServiceStep \/ \E c \in Conns : LimiterStep(c)

SpeedSpec == SpeedInit /\ [][SpeedNext]_speed

\* A handler ends, and the select loop does not pass the tracking tick over for
\* ever: it picks at random among what is ready.
SpeedFairness ==
    /\ WF_speed(UpdateBuckets) /\ WF_speed(ListDone)
    /\ \A u \in Users : WF_speed(Kick(u))
    /\ SF_speed(Track)

-----------------------------------------------------------------------------
(***************************************************************************)
(* Properties.                                                             *)
(***************************************************************************)
\* A penalty is the engine's doing and ends with it: the bucket of a user is at
\* the penalty rate exactly while the user is penalized, whatever lists come
\* and whatever calls to GetLimiter are under way, and only a user the engine
\* is throttling is.
PenaltyIsEngines ==
    /\ \A u \in DOMAIN buckets : (buckets[u] = Penalty) <=> (u \in penalized)
    /\ \A u \in penalized : /\ u \in DOMAIN buckets
                            /\ u \in DOMAIN engine /\ engine[u].throttled

\* With a list taken, a bucket that is not at the penalty rate is at the rate
\* of its user's limit, unless a call to GetLimiter made it from a limit it had
\* read in an earlier list.
BucketsCurrent ==
    svc # "limits" =>
        \A u \in DOMAIN buckets \ penalized :
            u \in late \/ (u \in DOMAIN limits /\ buckets[u] = limits[u])

\* Nobody is throttled for ever: a user is released again and again, or it is
\* again and again too fast.
PenaltyEnds ==
    \A u \in Users :
        []<>(u \notin penalized) \/ []<>(u \in DOMAIN engine /\ engine[u].left = Release)
=============================================================================
