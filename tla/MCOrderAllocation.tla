-------------------------- MODULE MCOrderAllocation --------------------------
(***************************************************************************)
(* Two sales orders and two items of one product: two pieces of the first, *)
(* and another of the same order, of the other, or none yet.               *)
(***************************************************************************)
EXTENDS OrderAllocation, TLC

CONSTANTS o1, o2, first, second

MCItems == {first, second}
MCProduct == [i \in MCItems |-> "box"]

MCInit ==
    /\ Init
    /\ item[first] = [order |-> o1, quantity |-> 2]
    /\ item[second] \in {None, [order |-> o1, quantity |-> 1], [order |-> o2, quantity |-> 1]}

MCSpec == MCInit /\ [][Next]_vars

Symmetry == Permutations(Users) \cup Permutations(Works)
=============================================================================
