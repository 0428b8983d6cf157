-------------------------- MODULE MCDeliveryStock --------------------------
(***************************************************************************)
(* One order of two pieces, deliveries in one line or two, a released      *)
(* batch and one that is not.                                              *)
(***************************************************************************)
EXTENDS DeliveryStock

CONSTANTS b1, b2

TwoBatches == <<b1, b2>>
OneOrTwoLines == {[lines |-> <<2>>, pick |-> None], [lines |-> <<1, 1>>, pick |-> b2]}

(* Users are told apart by their requests, deliveries by their rows.       *)
Symmetry == Permutations(Users) \cup Permutations(Deliveries)
=============================================================================
