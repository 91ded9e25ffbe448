---------------------------- MODULE BoxLifecycle ------------------------------
(***************************************************************************)
(* Whether the sing-box kernel listens                                     *)
(* (internal/kernel/singbox/singbox.go): a reload and a change of users    *)
(* take the inbound away before they make it anew, a start opens a box     *)
(* before the last one is closed, and the service                          *)
(* (internal/service/service.go) answers a failure with a start.           *)
(* NodeHandlers has what else the handlers do.                             *)
(*                                                                         *)
(* The tracker, rules and limits of a box, and deltas, which are applied   *)
(* like lists, are left out.  A node has one inbound.                      *)
(***************************************************************************)
EXTENDS Naturals, FiniteSets

CONSTANTS
    Settings,     \* node configurations
    PortOf,       \* the port of each
    Unparsable,   \* those sing-box cannot read
    Uncreatable,  \* those it reads and cannot make an inbound for: a cipher, a key
    NodeLists,        \* user lists, none of them empty: that stops the kernel
    Nothing,      \* nil
    MaxMishaps    \* bound of the model: a port that is taken by someone else for a moment

ASSUME BoxConstants ==
    /\ PortOf \in [Settings -> Nat] /\ Unparsable \subseteq Settings
    /\ Uncreatable \subseteq Settings \ Unparsable
    /\ Nothing \notin Settings \union NodeLists \union [config : Settings, users : NodeLists]
    /\ MaxMishaps \in Nat

VARIABLES
    wished,      \* lastConfig and lastUsers
    box,       \* SingBox.box with nodeConfig, users and its inbound
    step,      \* the handler under way: "idle", or the start that answers a failure
    before,    \* the list the handler goes back to
    mishaps,   \* history: how often a port was taken
    spoilt     \* history: the inbound was removed for a configuration that has none

boxes == <<wished, box, step, before, mishaps, spoilt>>

Serves == [config : Settings, users : NodeLists]

BoxTypeOK ==
    /\ wished \in Serves
    /\ box \in {Nothing} \union [config : Settings, users : NodeLists, inbound : Serves \union {Nothing}]
    /\ step \in {"idle", "config", "users"} /\ before \in NodeLists
    /\ mishaps \in 0..MaxMishaps /\ spoilt \in BOOLEAN

BoxInit ==
    /\ wished \in Serves /\ box = Nothing
    /\ step = "idle" /\ before = wished.users /\ mishaps = 0 /\ spoilt = FALSE

In(c, us) == [config |-> c, users |-> us]
BoxOf(c, us) == [config |-> c, users |-> us, inbound |-> In(c, us)]

Listens == box # Nothing /\ box.inbound # Nothing
Deaf    == box # Nothing /\ box.inbound = Nothing

Unusable == Unparsable \union Uncreatable

\* Someone else has the port.
Mishap == mishaps < MaxMishaps /\ mishaps' = mishaps + 1

-----------------------------------------------------------------------------
(***************************************************************************)
(* Starting a box.                                                         *)
(***************************************************************************)
\* The box that is to be replaced has the port.
Contended(c) == Listens /\ PortOf[box.inbound.config] = PortOf[c]

Starts(c, us) ==
    /\ c \notin Unusable /\ ~Contended(c)
    /\ box' = BoxOf(c, us) /\ spoilt' = FALSE
    /\ UNCHANGED mishaps

\* What fails leaves the last box as it is.
StartFails(c) ==
    /\ IF c \in Unusable \/ Contended(c) THEN UNCHANGED mishaps ELSE Mishap
    /\ UNCHANGED <<box, spoilt>>

-----------------------------------------------------------------------------
(***************************************************************************)
(* Making the inbound anew: the last one is removed before, as it has the  *)
(* port.  What is wrong with the new one shows only after that.            *)
(***************************************************************************)
Recreates(c, us) ==
    /\ c \notin Unusable
    /\ box' = BoxOf(c, us) /\ spoilt' = FALSE
    /\ UNCHANGED mishaps

\* Mutant of RecreateFails: the new inbound is made before the last one is removed.
RecreateFailsInPlace(c) ==
    /\ IF c \in Unusable \/ Contended(c) THEN UNCHANGED mishaps ELSE Mishap
    /\ UNCHANGED <<box, spoilt>>

RecreateFails(c) ==
    \/ c \in Unparsable /\ UNCHANGED <<box, mishaps, spoilt>>
    \/ /\ c \notin Unparsable
       /\ box' = [box EXCEPT !.inbound = Nothing]
       /\ IF c \in Uncreatable THEN spoilt' = TRUE /\ UNCHANGED mishaps ELSE Mishap /\ UNCHANGED spoilt

\* UpdateUsers of an inbound that is there; it may refuse, and is made anew then.
UpdatesInPlace(us) ==
    /\ Listens
    /\ box' = [box EXCEPT !.users = us, !.inbound.users = us]
    /\ UNCHANGED <<mishaps, spoilt>>

-----------------------------------------------------------------------------
(***************************************************************************)
(* The service's handlers.                                                 *)
(***************************************************************************)
\* applyChanges: Reload, and a start when it fails.
NewSettings(c) ==
    /\ step = "idle" /\ c # wished.config
    /\ wished' = [wished EXCEPT !.config = c]
    /\ IF box = Nothing
          THEN (Starts(c, wished.users) \/ StartFails(c)) /\ UNCHANGED step
          ELSE \/ Recreates(c, wished.users) /\ UNCHANGED step
               \/ RecreateFails(c) /\ step' = "config"
    /\ UNCHANGED before

\* applyUserUpdate: the kernel keeps its own configuration, and compares with the users
\* it has.
NewUsers(us) ==
    /\ step = "idle" /\ us # wished.users /\ box # Nothing
    /\ wished' = [wished EXCEPT !.users = us]
    /\ before' = wished.users
    /\ IF us = box.users THEN UNCHANGED <<box, mishaps, spoilt, step>>
       ELSE \/ UpdatesInPlace(us) /\ UNCHANGED step
            \/ Recreates(box.config, us) /\ UNCHANGED step
            \/ RecreateFails(box.config) /\ step' = "users"

\* ensureRunning, before a list is applied to a kernel that does not run.
EnsureRunning ==
    /\ step = "idle" /\ box = Nothing
    /\ Starts(wished.config, wished.users) \/ StartFails(wished.config)
    /\ UNCHANGED <<wished, step, before>>

\* startKernel after a failure; when it fails too a list is taken back, a configuration
\* is not.
Restart ==
    /\ step # "idle" /\ step' = "idle"
    /\ \/ Starts(wished.config, wished.users) /\ UNCHANGED wished
       \/ /\ StartFails(wished.config)
          /\ wished' = IF step = "users" THEN [wished EXCEPT !.users = before] ELSE wished
    /\ UNCHANGED before

BoxNext ==
    \/ \E c \in Settings : NewSettings(c)
    \/ \E us \in NodeLists : NewUsers(us)
    \/ EnsureRunning \/ Restart

BoxSpec == BoxInit /\ [][BoxNext]_boxes

-----------------------------------------------------------------------------
(***************************************************************************)
(* Properties.                                                             *)
(***************************************************************************)
\* A box that runs listens, whatever fails once, but for a configuration that sing-box can
\* read and not use, which leaves a node that counts as running without an inbound until a
\* usable one comes.  With a usable one it takes a port that was twice not to be had, and
\* with one sing-box cannot read once, or an unusable one before.  And the start that
\* answers a failure never meets the inbound of the box it replaces on the port it needs.
FailureMended ==
    /\ step = "idle" /\ Deaf =>
          mishaps >= 2 \/ (wished.config \in Unusable /\ (mishaps = 1 \/ spoilt))
    /\ step # "idle" => wished.config \in Unparsable \/ ~Contended(wished.config)
=============================================================================
