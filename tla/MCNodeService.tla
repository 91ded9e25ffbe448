--------------------------- MODULE MCNodeService -----------------------------
\* Constants for model checking NodeService: configurations are numbers.
EXTENDS NodeService, TLC

U(k) == [key |-> k, limit |-> CHOOSE l \in Limits : TRUE]

\* One user, the same with another UUID, two users, and nobody.
SomeLists == {1 :> U("k1"), 1 :> U("k2"), 1 :> U("k1") @@ 2 :> U("k1")}
AllLists  == SomeLists \union {NoUsers}

\* The panel only ever moves on to configurations it did not have before, or
\* may go back to an earlier one, or send the same again.
Onward   == {<<c, d>> \in Configs \X Configs : c < d}
AnySteps == Configs \X Configs
=============================================================================
