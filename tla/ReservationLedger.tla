------------------------- MODULE ReservationLedger -------------------------
(***************************************************************************)
(* What the stock of a material promises its plans, whatever the           *)
(* implementation: a plan that holds nothing may take free stock, a plan   *)
(* gives back all it holds or nothing of it, and goods that arrive are     *)
(* shared among the plans, which keep what they held.  The material's own  *)
(* figure of what is reserved follows in the same step, except that what a *)
(* deleted plan held stays reserved, for nobody.                           *)
(***************************************************************************)
EXTENDS Integers, Functions

CONSTANTS Plans, InitialStock

VARIABLES
    stock,      \* what there is of the material
    reserved,   \* how much of it the material says is reserved
    held,       \* what each plan holds
    stranded    \* what deleted plans held

Init ==
    /\ stock = InitialStock
    /\ reserved = 0
    /\ held = [w \in Plans |-> 0]
    /\ stranded = 0

Take(w, amount) ==
    /\ held[w] = 0
    /\ held' = [held EXCEPT ![w] = amount]
    /\ reserved' = reserved + amount
    /\ UNCHANGED <<stock, stranded>>

GiveBack(w) ==
    /\ held' = [held EXCEPT ![w] = 0]
    /\ reserved' = reserved - held[w]
    /\ UNCHANGED <<stock, stranded>>

Abandon(w) ==
    /\ held' = [held EXCEPT ![w] = 0]
    /\ stranded' = stranded + held[w]
    /\ UNCHANGED <<stock, reserved>>

Total(holdings) == SumFunctionOnSet(holdings, Plans)

Arrive ==
    /\ stock' \in Nat
    /\ held' \in [Plans -> Nat]
    /\ \A w \in Plans : held'[w] >= held[w]
    /\ reserved' - reserved = Total(held') - Total(held)
    /\ reserved' - reserved <= stock' - stock
    /\ UNCHANGED stranded

Next ==
    \/ \E w \in Plans :
         \/ \E amount \in 1..(stock - reserved) : Take(w, amount)
         \/ GiveBack(w)
         \/ Abandon(w)
    \/ Arrive

Spec == Init /\ [][Next]_<<stock, reserved, held, stranded>>
=============================================================================
