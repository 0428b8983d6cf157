-------------------------- MODULE MCMaterialSupply --------------------------
(***************************************************************************)
(* Two plans, a purchase order and two receipts of one material; a buyer   *)
(* and somebody who reviews and keeps the store at work at once.           *)
(***************************************************************************)
EXTENDS MaterialSupply, TLC

(* Nothing tells the members of these sets apart but their rows.           *)
Symmetry == Permutations(Plans) \cup Permutations(Records)
=============================================================================
