---------------------------- MODULE NodeHandlers -----------------------------
(***************************************************************************)
(* What the handlers of internal/service/service.go do to the state of one *)
(* node: the configuration and users the service holds, the limiter and    *)
(* the ACL compiled from them, and the kernel that serves them.  Handlers  *)
(* run on the service's one goroutine, so each is an operator from a state *)
(* to the set of states it can end in, one for every outcome of the kernel *)
(* calls it makes.  The kernel is internal/kernel/singbox/singbox.go.      *)
(*                                                                         *)
(* A hash is represented by what it is computed from; the one with no      *)
(* configuration or list behind it is None.  A user list is a function     *)
(* from IDs to the rest of the record.                                     *)
(***************************************************************************)
EXTENDS Naturals, FiniteSets

CONSTANTS
    Ids,       \* user IDs
    Keys,      \* UUIDs
    Limits,    \* what else a user record holds: speed and device limit, ACL groups
    Configs,   \* node configurations
    Invalid,   \* those validateNodeRuntime refuses
    BadACL,    \* those whose ACL does not compile
    Faulty,    \* the kernel operations that may fail
    None       \* nil

User     == [key : Keys, limit : Limits]
UserSets == UNION {[S -> User] : S \in SUBSET Ids}
NoUsers  == [i \in {} |-> None]

ASSUME HandlerConstants ==
    /\ Invalid \subseteq Configs
    /\ BadACL \subseteq Configs
    /\ None \notin Configs
    /\ None \notin UserSets

Overlay(u, d) == [i \in DOMAIN u \union DOMAIN d |-> IF i \in DOMAIN d THEN d[i] ELSE u[i]]
Without(u, S) == [i \in DOMAIN u \ S |-> u[i]]

\* What the inbounds are told of a list: identities, not limits.
Identities(u) == [i \in DOMAIN u |-> u[i].key]

IdentitySets == UNION {[S -> Keys] : S \in SUBSET Ids}

(***************************************************************************)
(* The state of a node.  The kernel runs when it has a box; its config and *)
(* users are what it was last started, reloaded or updated with.           *)
(***************************************************************************)
Kernel == [up : BOOLEAN, config : Configs \union {None}, users : IdentitySets]

Policy == [config : Configs \union {None}, users : UserSets]

Node == [config : Configs \union {None}, configHash : Configs \union {None},
         users : UserSets, userHash : UserSets \union {None},
         limiter : UserSets, acl : Policy,
         startErr : BOOLEAN, kernel : Kernel]

NewNode == [config |-> None, configHash |-> None,
            users |-> NoUsers, userHash |-> None,
            limiter |-> NoUsers, acl |-> [config |-> None, users |-> NoUsers],
            startErr |-> FALSE,
            kernel |-> [up |-> FALSE, config |-> None, users |-> NoUsers]]

-----------------------------------------------------------------------------
(***************************************************************************)
(* Kernel operations.  A call has a set of outcomes [ok, node].  One that  *)
(* fails leaves the kernel with the configuration and the users it had     *)
(* (whether it also left it without an inbound is not modelled).           *)
(***************************************************************************)
Done(n) == [ok |-> TRUE, node |-> n]
Fails(op, n) == IF op \in Faulty THEN {[ok |-> FALSE, node |-> n]} ELSE {}

Serving(n) == [n EXCEPT !.kernel = [up |-> TRUE, config |-> n.config, users |-> Identities(n.users)]]

\* Mutant of StartKernel: the old box is stopped before the new one is up.
StopThenStart(n) ==
    {[Serving(n) EXCEPT !.startErr = FALSE]}
    \union (IF "start" \in Faulty THEN {[n EXCEPT !.startErr = TRUE, !.kernel.up = FALSE]} ELSE {})

\* A new box replaces the old one; if it does not come up the old one stays.
StartKernel(n) ==
    {[Serving(n) EXCEPT !.startErr = FALSE]}
    \union (IF "start" \in Faulty THEN {[n EXCEPT !.startErr = TRUE]} ELSE {})

StopKernel(n) == [n EXCEPT !.kernel.up = FALSE]

Reload(n) == {Done(Serving(n))} \union Fails("reload", n)

\* reloadInboundsLocked, on the way to a box that serves exactly users.
Rebuild(op, n, users) == {Done([n EXCEPT !.kernel.users = users])} \union Fails(op, n)

\* Users whose ID the kernel already has are skipped, whatever their UUID.
AddUsers(n, d) ==
    LET new == DOMAIN d \ DOMAIN n.kernel.users
    IN  IF new = {}
           THEN {Done(n)}
           ELSE Rebuild("add", n, Overlay(Identities(d), n.kernel.users))

RemoveUsers(n, S) ==
    IF S \intersect DOMAIN n.kernel.users = {}
       THEN {Done(n)}
       ELSE Rebuild("remove", n, Without(n.kernel.users, S))

\* With no identity added or removed the inbounds are left alone.
UpdateUsers(n) ==
    IF n.kernel.users = Identities(n.users)
       THEN {Done(n)}
       ELSE Rebuild("update", n, Identities(n.users))

-----------------------------------------------------------------------------
(***************************************************************************)
(* User state.                                                             *)
(***************************************************************************)
\* An ACL that does not compile leaves the policy as it was.
RefreshACL(n) ==
    IF n.config \in BadACL THEN n ELSE [n EXCEPT !.acl = [config |-> n.config, users |-> n.users]]

SetUsers(n, users, hash) ==
    RefreshACL([n EXCEPT !.limiter = users, !.users = users, !.userHash = hash])

PrepareUserState(n, users) == SetUsers(n, users, users)
\* Mutant of RestoreUserState: the hash stays that of the list that failed.
RestoreUsersOnly(n, prev)  == SetUsers(n, prev.users, n.userHash)
RestoreUserState(n, prev)  == SetUsers(n, prev.users, prev.userHash)

\* Starts the kernel if it can; afterwards kernel.up tells the answer.
EnsureRunning(n) ==
    IF ~n.kernel.up /\ n.users # NoUsers /\ n.config # None THEN StartKernel(n) ELSE {n}

-----------------------------------------------------------------------------
(***************************************************************************)
(* Handlers.                                                               *)
(***************************************************************************)
\* UpdateUsers failed on the prepared state p: a full start, or back to prev.
RestartOrRestore(p, prev) ==
    {IF s.startErr THEN RestoreUserState(s, prev) ELSE s : s \in StartKernel(p)}

SwapUsers(n, users) ==
    UNION {IF o.ok THEN {o.node} ELSE RestartOrRestore(o.node, n)
              : o \in UpdateUsers(PrepareUserState(n, users))}

ApplyUserUpdate(n, users) ==
    UNION {IF r.kernel.up THEN SwapUsers(r, users) ELSE {r} : r \in EnsureRunning(n)}

\* AddUsers or RemoveUsers left the outcome o: UpdateUsers, or back to prev.
UpdateOrRestore(o, prev) ==
    IF o.ok
       THEN {o.node}
       ELSE {IF u.ok THEN u.node ELSE RestoreUserState(u.node, prev) : u \in UpdateUsers(o.node)}

\* A user that gets another UUID is removed first, one call for each, and the
\* errors are ignored: F are the users whose call failed.
RemoveRekeyed(n, S) ==
    {[n EXCEPT !.kernel.users = Without(@, S \ F)] : F \in IF "remove" \in Faulty THEN SUBSET S ELSE {{}}}

Rekeyed(n, d) == {i \in DOMAIN d \intersect DOMAIN n.users : n.users[i].key # d[i].key}

MergeDelta(n, d) ==
    UNION {UpdateOrRestore(o, n) : o \in AddUsers(PrepareUserState(n, Overlay(n.users, d)), d)}

\* Mutant of ApplyDeltaAdd: no removal of the users that get another UUID.
MergeWithoutRemoval(n, d) ==
    UNION {IF r.kernel.up THEN MergeDelta(r, d) ELSE {r} : r \in EnsureRunning(n)}

ApplyDeltaAdd(n, d) ==
    UNION {IF r.kernel.up
              THEN UNION {MergeDelta(k, d) : k \in RemoveRekeyed(r, Rekeyed(r, d))}
              ELSE {r}
              : r \in EnsureRunning(n)}

ApplyDeltaRemove(n, S) ==
    IF n.kernel.up
       THEN UNION {UpdateOrRestore(o, n)
                      : o \in RemoveUsers(PrepareUserState(n, Without(n.users, S)), S)}
       ELSE {n}

\* Mutant of ReloadOrStart: only a running kernel is dealt with.
ReloadIfRunning(n) ==
    IF n.kernel.up
       THEN UNION {IF o.ok THEN {o.node} ELSE StartKernel(o.node) : o \in Reload(n)}
       ELSE {n}

\* The outcome of the start that follows a failed reload is not looked at.
ReloadOrStart(n) ==
    IF n.kernel.up
       THEN UNION {IF o.ok THEN {o.node} ELSE StartKernel(o.node) : o \in Reload(n)}
       ELSE StartKernel(n)

\* Mutant of ApplyChanges: the ACL is refreshed with the users only.
ApplyWithoutACL(n) ==
    CASE n.users = NoUsers                     -> {StopKernel(n)}
      [] n.users # NoUsers /\ n.config = None  -> {n}
      [] n.users # NoUsers /\ n.config # None  -> ReloadOrStart(n)

ApplyChanges(n) ==
    LET a == RefreshACL(n)
    IN  CASE a.users = NoUsers                     -> {StopKernel(a)}
          [] a.users # NoUsers /\ a.config = None  -> {a}
          [] a.users # NoUsers /\ a.config # None  -> ReloadOrStart(a)

SetConfig(n, c) == [n EXCEPT !.config = c, !.configHash = c]

OnSyncConfig(n, c) ==
    IF c = n.configHash \/ c \in Invalid THEN {n} ELSE ApplyChanges(SetConfig(n, c))

OnSyncUsers(n, users) ==
    IF users = n.userHash THEN {n} ELSE ApplyUserUpdate(n, users)

\* Mutant of ApplyPullResult: users that come with a configuration are left out.
ApplyConfigOrUsers(n, result) ==
    LET taken == result.config # None /\ result.config \notin Invalid
        c     == IF taken THEN SetConfig(n, result.config) ELSE n
    IN  IF taken \/ result.cert
           THEN ApplyChanges(c)
           ELSE IF result.users # None THEN OnSyncUsers(c, result.users) ELSE {c}

\* A result holds None for what the panel answered with 304.
ApplyPullResult(n, result) ==
    LET taken    == result.config # None /\ result.config \notin Invalid
        changed  == result.cert \/ taken
        c        == IF taken THEN SetConfig(n, result.config) ELSE n
        newUsers == result.users # None /\ result.users # c.userHash
        u        == IF newUsers THEN PrepareUserState(c, result.users) ELSE c
    IN  CASE changed               -> ApplyChanges(u)
          [] ~changed /\ newUsers  -> ApplyUserUpdate(c, result.users)
          [] OTHER                 -> {c}

\* initialSetup's end, once validateNodeRuntime has accepted the configuration.
SetUp(n, c, users) ==
    LET p == PrepareUserState(SetConfig(n, c), users)
    IN  IF users = NoUsers THEN {p} ELSE StartKernel(p)

-----------------------------------------------------------------------------
(***************************************************************************)
(* What a node's state is like between handlers.                           *)
(***************************************************************************)
\* Change detection compares with the hash of what is held, so it never takes
\* an update for one already applied.
HashesCurrent(n) ==
    /\ n.configHash = n.config
    /\ n.userHash \in {n.users, None}
    /\ n.userHash = None => n.users = NoUsers

\* The limiter enforces the limits of the users held, and the policy in force
\* was compiled from them, unless the ACL held does not compile.
LimitsFollowUsers(n) ==
    /\ n.limiter = n.users
    /\ n.config \notin BadACL => n.acl = [config |-> n.config, users |-> n.users]
    /\ n.acl.config \notin BadACL

\* A kernel whose last start succeeded serves the configuration held, and no
\* identity that is not held.
KernelInStep(n) ==
    (n.kernel.up /\ ~n.startErr) =>
        /\ n.kernel.config = n.config
        /\ \A i \in DOMAIN n.kernel.users : /\ i \in DOMAIN n.users
                                            /\ n.kernel.users[i] = n.users[i].key

\* With a configuration and users the kernel runs, unless starting it failed;
\* it never runs without a configuration.
RunsWhenPossible(n) ==
    /\ n.config # None /\ n.users # NoUsers /\ ~n.startErr => n.kernel.up
    /\ n.kernel.up => n.config # None
=============================================================================
