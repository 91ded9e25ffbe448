----------------------------- MODULE LatestWins ------------------------------
(***************************************************************************)
(* What NodeMailbox promises: "Events are coalesced (latest-wins) and      *)
(* drained as a single snapshot once the service marks the mailbox as      *)
(* ready".  For each kind of state there is the latest value published and *)
(* the value its consumer has seen; nothing older than the latest value is *)
(* ever handed over, all kinds are handed over together, and none before   *)
(* the mailbox opened.                                                     *)
(***************************************************************************)
CONSTANTS Kinds, Values, None

VARIABLES latest, seen, open

vars == <<latest, seen, open>>

Init == /\ latest = [k \in Kinds |-> None]
        /\ seen = [k \in Kinds |-> None]
        /\ open = FALSE

\* An event replaces the latest value of one kind.
Publish == \E k \in Kinds, v \in Values \union {None} :
              /\ latest' = [latest EXCEPT ![k] = v]
              /\ UNCHANGED <<seen, open>>

\* The consumer starts from a baseline it obtained elsewhere ...
Baseline == \E b \in [Kinds -> Values \union {None}] :
              /\ ~open
              /\ seen' = b
              /\ UNCHANGED <<latest, open>>

\* ... which becomes the latest value of kinds nothing was published for.
Seed == \E S \in SUBSET {k \in Kinds : latest[k] = None} :
              /\ ~open
              /\ latest' = [k \in Kinds |-> IF k \in S THEN seen[k] ELSE latest[k]]
              /\ UNCHANGED <<seen, open>>

Open == open' = TRUE /\ UNCHANGED <<latest, seen>>

\* One snapshot of everything published.
Deliver == /\ open
           /\ seen' = [k \in Kinds |-> IF latest[k] = None THEN seen[k] ELSE latest[k]]
           /\ UNCHANGED <<latest, open>>

Next == Publish \/ Baseline \/ Seed \/ Open \/ Deliver

Spec == Init /\ [][Next]_vars
=============================================================================
