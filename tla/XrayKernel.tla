------------------------------ MODULE XrayKernel ------------------------------
(***************************************************************************)
(* The users of the embedded xray (internal/kernel/xray/xray.go): what the *)
(* kernel believes it serves, and what the inbound accepts.  The service   *)
(* makes one call at a time.  The inbound's user manager is xray-core's: it *)
(* knows a user by its email, which is the ID's, refuses a second one, and *)
(* forgets the credential with the user.  Limits and traffic are left out. *)
(***************************************************************************)
EXTENDS Naturals, FiniteSets

CONSTANTS
    Ids,        \* panel IDs
    Creds,      \* UUIDs of a user
    Configs,    \* what Start is given and ComputeHash sees; access control is not in it
    Managed,    \* the configurations whose protocol has a user manager
    Nobody,     \* no user, no instance
    MaxDrains   \* bound of the model on replaced instances that are still open

ASSUME XrayKernelConstants ==
    /\ Managed \subseteq Configs /\ Nobody \notin Creds \union Configs
    /\ MaxDrains \in Nat

VARIABLES
    running,    \* the configuration of x.instance
    users,      \* x.users
    hashed,     \* the users lastKernelHash was computed over, with running
    inbound,    \* the users the inbound of x.instance accepts
    drains,     \* the users of the inbounds of replaced instances that closeOld has not closed
    unremoved,  \* users whose removal failed just now
    behind      \* history: users whose change was refused, skipped by Reload, or made over
                \* a removal that failed

xkernel == <<running, users, hashed, inbound, drains, unremoved, behind>>

UserLists == [Ids -> Creds \union {Nobody}]

XrayTypeOK ==
    /\ running \in Configs \union {Nobody}
    /\ users \in UserLists /\ hashed \in UserLists /\ inbound \in UserLists
    /\ drains \subseteq UserLists
    /\ unremoved \subseteq Ids /\ behind \subseteq Ids

Empty == [i \in Ids |-> Nobody]

XrayInit ==
    /\ running = Nobody /\ users = Empty /\ hashed = Empty /\ inbound = Empty
    /\ drains = {} /\ unremoved = {} /\ behind = {}

Listed(list) == {i \in Ids : list[i] # Nobody}

\* Mutant of ToAdd: a user is its ID.
ToAddById(old, new) == Listed(new) \ Listed(old)

\* UserDiff: a user with another UUID is to be added, and not to be removed.
ToAdd(old, new)    == {i \in Listed(new) : new[i] # old[i]}
ToRemove(old, new) == Listed(old) \ Listed(new)

-----------------------------------------------------------------------------
\* closeOld: the inbound of the instance that is replaced stays open while it has
\* connections, up to five minutes, with the users it has.
CloseOld == drains' = IF running = Nobody THEN drains ELSE drains \union {inbound}

Recycle(old) ==
    /\ old \in drains /\ drains' = drains \ {old}
    /\ UNCHANGED <<running, users, hashed, inbound, unremoved, behind>>

\* Phases 1 to 5.
Swap(config, new) ==
    /\ Cardinality(drains) < MaxDrains
    /\ CloseOld
    /\ running' = config
    /\ users' = new /\ hashed' = new /\ inbound' = new
    /\ behind' = {}

StartInstance(config, new) == Swap(config, new) /\ unremoved' = {}

\* What fails before the swap leaves the old instance and its users.
StartKernel(config, new) ==
    \/ StartInstance(config, new)
    \/ unremoved' = {} /\ UNCHANGED <<running, users, hashed, inbound, drains, behind>>

\* Nothing in the hash or the certificate is new: the list is kept, the instance is not
\* touched.  The users of the hash are those of the last Start.
Reload(config, new, certChanged) ==
    /\ running # Nobody
    /\ IF running = config /\ hashed = new /\ ~certChanged
       THEN /\ users' = new
            /\ behind' = {i \in Ids : inbound[i] # new[i]}
            /\ unremoved' = {}
            /\ UNCHANGED <<running, hashed, inbound, drains>>
       ELSE StartKernel(config, new)

\* The list of the last instance stays.
Stop ==
    /\ running # Nobody
    /\ running' = Nobody /\ inbound' = Empty /\ unremoved' = {}
    /\ UNCHANGED <<users, hashed, drains, behind>>

\* um.RemoveUser and um.AddUser, one user after the other.  An email that is there is
\* refused, and a credential may be.
Manage(toRemove, toAdd, new) ==
    LET left == [i \in Ids |-> IF i \in toRemove THEN Nobody ELSE inbound[i]] IN
    \E refused \in SUBSET toAdd :
        /\ Listed(left) \intersect toAdd \subseteq refused
        /\ inbound' = [i \in Ids |-> IF i \in toAdd \ refused THEN new[i] ELSE left[i]]
        /\ behind' = (behind \ (toRemove \union toAdd)) \union refused
        /\ users' = new
        /\ UNCHANGED <<running, hashed, drains>>

UpdateUsers(new) ==
    /\ running # Nobody
    /\ LET toAdd == ToAdd(users, new)
           toRemove == ToRemove(users, new) IN
       IF toAdd \union toRemove = {}
       THEN unremoved' = {} /\ UNCHANGED <<running, users, hashed, inbound, drains, behind>>
       ELSE IF running \in Managed THEN Manage(toRemove, toAdd, new) /\ unremoved' = {}
       ELSE StartKernel(running, new)

Merged(delta) == [i \in Ids |-> IF delta[i] # Nobody THEN delta[i] ELSE users[i]]
ListWithout(ids)  == [i \in Ids |-> IF i \in ids THEN Nobody ELSE users[i]]

\* Users that are there by their ID are not added again, whatever their UUID.  The service
\* has removed those whose UUID changed, but does not ask whether that failed.
AddUsers(delta) ==
    /\ running # Nobody
    /\ \A i \in Listed(delta) : users[i] \in {Nobody, delta[i]} \/ i \in unremoved
    /\ LET toAdd == Listed(delta) \ Listed(users) IN
       \/ /\ toAdd = {}
          /\ users' = Merged(delta)
          /\ behind' = behind \union {i \in unremoved : Merged(delta)[i] # inbound[i]}
          /\ unremoved' = {} /\ UNCHANGED <<running, hashed, inbound, drains>>
       \/ /\ toAdd # {} /\ running \in Managed
          /\ Manage({}, toAdd, Merged(delta)) /\ unremoved' = {}
       \/ /\ toAdd # {} /\ running \notin Managed
          /\ StartKernel(running, Merged(delta))

\* The last removal stops the kernel and leaves its list.  A protocol without a user
\* manager needs a start, and keeps the users when that fails.
RemoveUsers(ids) ==
    /\ running # Nobody
    /\ ids \intersect Listed(users) # {}
    /\ \/ /\ Listed(users) \subseteq ids
          /\ running' = Nobody /\ inbound' = Empty /\ unremoved' = {}
          /\ UNCHANGED <<users, hashed, drains, behind>>
       \/ /\ ~(Listed(users) \subseteq ids) /\ running \in Managed
          /\ Manage(ids, {}, ListWithout(ids)) /\ unremoved' = unremoved \ ids
       \/ /\ ~(Listed(users) \subseteq ids) /\ running \notin Managed
          /\ \/ Swap(running, ListWithout(ids)) /\ unremoved' = unremoved \ ids
             \/ /\ unremoved' = unremoved \union (ids \intersect Listed(users))
                /\ UNCHANGED <<running, users, hashed, inbound, drains, behind>>

XrayNext ==
    \/ \E config \in Configs, new \in UserLists :
          StartInstance(config, new) \/ \E cert \in BOOLEAN : Reload(config, new, cert)
    \/ \E new \in UserLists : UpdateUsers(new) \/ AddUsers(new)
    \/ \E ids \in SUBSET Ids \ {{}} : RemoveUsers(ids)
    \/ Stop
    \/ \E old \in UserLists : Recycle(old)

XraySpec == XrayInit /\ [][XrayNext]_xkernel

-----------------------------------------------------------------------------
\* What some instance accepts of a user.
Accepted(i) == {list[i] : list \in {inbound} \union drains} \ {Nobody}

\* The newest inbound accepts the users the kernel believes it serves, each with its UUID,
\* and nobody when it is stopped, and nothing else is accepted once the instances it
\* replaced are closed, but for the users whose change the user manager refused, that
\* Reload took for served since the list is that of the last Start, or whose UUID was
\* overwritten after a removal that failed: no other sequence of calls leaves a user behind.
XrayServesUsers ==
    \A i \in Ids \ behind :
        /\ running # Nobody => inbound[i] = users[i]
        /\ drains = {} => Accepted(i) \subseteq (IF running = Nobody THEN {} ELSE {users[i]})
=============================================================================
