------------------------------ MODULE KernelBase ------------------------------
(***************************************************************************)
(* What the modules about the kernels' data planes have in common.         *)
(***************************************************************************)
EXTENDS Naturals, FiniteSets

CONSTANTS
    Users,        \* a user's UUID and ID are one value
    Addrs,        \* source addresses, in the order in which sort.Strings puts them
    Conns,        \* connections at a time
    DeviceLimits, \* device limits a user may have, 0 for none
    None          \* nil

ASSUME BaseConstants ==
    /\ Addrs \subseteq Nat /\ IsFiniteSet(Addrs)
    /\ IsFiniteSet(Conns)
    /\ DeviceLimits \subseteq Nat /\ 0 \in DeviceLimits
    /\ None \notin Users /\ None \notin Nat

\* The addresses of S that sort before a.
Below(S, a) == {b \in S : b < a}
=============================================================================
