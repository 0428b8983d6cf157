----------------------------- MODULE MCPayments -----------------------------
(* Two payments of a customer and one to a supplier, two plans.            *)
EXTENDS Payments, TLC

CONSTANTS deposit, balance, bill

MCPayments == {deposit, balance, bill}
MCOf == deposit :> "sales" @@ balance :> "sales" @@ bill :> "purchase"
MCAmounts == {-1, 0, 1, 3}

(* The orders come to 2 at first, the plans to 1 and 2; all may change.    *)
MCInit ==
    /\ Init
    /\ \A b \in Books : book[b].total = 2
    /\ \A i \in Plans : plans[i].amount = i
MCSpec == MCInit /\ [][Next]_vars

Symmetry == Permutations(Users) \cup Permutations({deposit, balance})
=============================================================================
