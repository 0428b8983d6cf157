------------------------------ MODULE Payments ------------------------------
(***************************************************************************)
(* The money received for one sales order and paid for one purchase order: *)
(* payments, what the two orders show as paid, and the payment plans of    *)
(* the sales order.                                                        *)
(*                                                                         *)
(* A payment is saved first, in a statement of its own; a transaction      *)
(* after it locks the row of the order, sums the payments up, writes the   *)
(* order and fills the plans.  Others save the whole row of the order or   *)
(* of a plan as they have loaded it, at any time the row is not locked.    *)
(*                                                                         *)
(* disturbed counts, for each order, what happened that no request is      *)
(* going to sum up: rows saved from an old copy, amounts set by hand,      *)
(* totals or plans changed, payments deleted, workers that died.  healed   *)
(* is what the last summing up has seen of it: as it starts from scratch,  *)
(* it repairs what went wrong before.                                      *)
(*                                                                         *)
(* Left out: moving a payment to another order, approval switched off      *)
(* (a submission is then an approval), plans with the same date, amounts   *)
(* that are not applied.                                                   *)
(*                                                                         *)
(* Bound: Requests is how many requests there are.                         *)
(***************************************************************************)
EXTENDS Integers, FiniteSets, FiniteSetsExt

CONSTANTS
    Users,        \* each with one request under way at a time
    Payments,     \* possible payments
    Of,           \* the order of each: "sales" or "purchase"
    PlanCount,    \* possible payment plans, in the order of their dates
    Amounts,      \* amounts a request may carry
    Totals,       \* order totals and planned amounts
    Requests,
    None

Books == {"sales", "purchase"}
Plans == 1..PlanCount

ASSUME MoneyAssumption ==
    /\ IsFiniteSet(Payments) /\ Of \in [Payments -> Books]
    /\ PlanCount \in Nat /\ Requests \in Nat
    /\ Amounts \subseteq Int /\ 0 \in Amounts
    /\ Totals \subseteq Nat /\ Totals # {}

VARIABLES book, payments, plans, req, disturbed, healed, begun

vars == <<book, payments, plans, req, disturbed, healed, begun>>

-----------------------------------------------------------------------------
Levels == {"unpaid", "partial", "paid"}
Book == [paid : Int, total : Nat, level : Levels, dated : BOOLEAN]
Payment == [applied : Int, state : {"pending", "approved", "rejected"}]
Plan == [amount : Nat, paid : Int, level : Levels]

ASSUME NoneIsNoPlan == None \notin Plan

PaymentRequests == {"patch", "delete", "approve", "reject"}
BookRequests == {"save", "manual"}
PlanRequests == {"plan", "refresh"}

(* A request: which order it is about, the payment or plan, the row it has *)
(* loaded, the sum it has computed and what it has seen disturbed by then. *)
Request == [op : PaymentRequests \cup BookRequests \cup PlanRequests \cup {"create", "idle"},
            at : {"idle", "begun", "apply", "counted"}, book : Books,
            id : Payments \cup Plans \cup {None},
            copy : Payment \cup Book \cup Plan \cup {None}, sum : Int, seen : Nat]

Idle == [op |-> "idle", at |-> "idle", book |-> "sales", id |-> None, copy |-> None,
         sum |-> 0, seen |-> 0]

Init ==
    /\ book \in [Books -> {[paid |-> 0, total |-> t, level |-> "unpaid", dated |-> FALSE] :
                              t \in Totals}]
    /\ payments = [k \in Payments |-> None]
    /\ plans \in [Plans -> {[amount |-> a, paid |-> 0, level |-> "unpaid"] : a \in Totals}]
    /\ req = [u \in Users |-> Idle]
    /\ disturbed = [b \in Books |-> 0]
    /\ healed = [b \in Books |-> 0]
    /\ begun = 0

-----------------------------------------------------------------------------
(* What the payments of an order come to; a supplier's payment counts once *)
(* it is approved, a customer's at once.                                   *)
Counted(rows, b) ==
    {k \in Payments : Of[k] = b /\ rows[k] # None /\ rows[k].state = "approved"}
Applying(rows) == [k \in Payments |-> IF rows[k] = None THEN 0 ELSE rows[k].applied]
Sum(rows, b) == SumFunctionOnSet(Applying(rows), Counted(rows, b))
Received(b) == Sum(payments, b)

LevelFor(paid, total) ==
    CASE paid >= total /\ paid > 0 -> "paid"
      [] paid > 0 /\ paid < total -> "partial"
      [] paid <= 0 -> "unpaid"

(* The order after summing up.  The date of the payment is set once, and   *)
(* taken away when nothing is paid any more or no longer everything.       *)
Applied(row, sum) ==
    LET level == LevelFor(sum, row.total)
    IN [row EXCEPT !.paid = sum, !.level = level,
            !.dated = \/ level = "paid"
                      \/ level = "partial" /\ row.level # "paid" /\ row.dated]

(* A sales order that is saved as a whole works its level out again.       *)
Saved(b, row) ==
    IF b = "sales" /\ row.total > 0 THEN [row EXCEPT !.level = LevelFor(row.paid, row.total)]
    ELSE row

(* First in, first out: what is left of sum after the first i plans, and   *)
(* the plans filled from it.  The faulty one leaves the rest as it was     *)
(* once nothing is left.                                                   *)
PlanLevel(plan) ==
    CASE plan.paid >= plan.amount -> "paid"
      [] plan.paid < plan.amount /\ plan.paid > 0 -> "partial"
      [] plan.paid < plan.amount /\ plan.paid <= 0 -> "unpaid"
Refreshed(plan) == [plan EXCEPT !.level = PlanLevel(plan)]

Left(sum) ==
    LET left[i \in 0..PlanCount] ==
          IF i = 0 THEN sum
          ELSE IF plans[i] = None \/ left[i - 1] <= 0 THEN left[i - 1]
          ELSE IF left[i - 1] >= plans[i].amount THEN left[i - 1] - plans[i].amount
          ELSE 0
    IN left

FilledFaulty(sum) ==
    [i \in Plans |->
        LET left == Left(sum)[i - 1]
            plan == plans[i]
        IN IF plan = None \/ left <= 0 THEN plan
           ELSE Refreshed([plan EXCEPT !.paid = IF left >= plan.amount THEN plan.amount
                                                ELSE left])]
Fill(plan, left) ==
    CASE plan = None -> None
      [] plan # None /\ left <= 0 ->
             IF plan.paid = 0 THEN plan ELSE Refreshed([plan EXCEPT !.paid = 0])
      [] plan # None /\ left > 0 ->
             Refreshed([plan EXCEPT !.paid = IF left >= plan.amount THEN plan.amount ELSE left])
Filled(sum) == [i \in Plans |-> Fill(plans[i], Left(sum)[i - 1])]

-----------------------------------------------------------------------------
Done(u) == req' = [req EXCEPT ![u] = Idle]
Goto(u, place) == req' = [req EXCEPT ![u].at = place]

(* The lock on the row of an order, held from summing up to the commit.    *)
Locks(v, b) == req[v].at = "counted" /\ req[v].book = b
BookFree(u, b) == \A v \in Users \ {u} : ~Locks(v, b)

Disturb(b, really) ==
    disturbed' = [disturbed EXCEPT ![b] = @ + IF really THEN 1 ELSE 0]

Start(u) == req[u] = Idle /\ begun < Requests /\ begun' = begun + 1

Load(u, op, b, id, row) ==
    /\ Start(u)
    /\ req' = [req EXCEPT ![u] = [op |-> op, at |-> "begun", book |-> b, id |-> id,
                                  copy |-> row, sum |-> 0, seen |-> 0]]
    /\ UNCHANGED <<book, payments, plans, disturbed, healed>>

BeginPayment(u, op, k) ==
    /\ payments[k] # None
    /\ op \in {"approve", "reject"} => Of[k] = "purchase" /\ payments[k].state = "pending"
    /\ Load(u, op, Of[k], k, payments[k])

BeginBook(u, op, b) ==
    /\ op = "manual" => b = "sales"
    /\ Load(u, op, b, None, book[b])

BeginPlan(u, op, i) == plans[i] # None /\ Load(u, op, "sales", i, plans[i])

-----------------------------------------------------------------------------
(* Payments.                                                               *)

Create(u, k, amount) ==
    /\ payments[k] = None /\ amount >= 0
    /\ Start(u)
    /\ payments' = [payments EXCEPT ![k] =
           [applied |-> amount, state |-> IF Of[k] = "sales" THEN "approved" ELSE "pending"]]
    /\ IF Of[k] = "sales"
         THEN req' = [req EXCEPT ![u] = [Idle EXCEPT !.op = "create", !.at = "apply",
                                                     !.id = k]]
         ELSE UNCHANGED req
    /\ UNCHANGED <<book, plans, disturbed, healed>>

(* A change saves the payment as it was loaded, a customer's with any      *)
(* amount; a payment deleted meanwhile is there again.  A supplier's       *)
(* payment is not summed up after it.                                      *)
Patch(u, amount) ==
    LET k == req[u].id
        b == req[u].book
        new == [payments EXCEPT ![k] = [req[u].copy EXCEPT !.applied = amount]]
    IN /\ req[u].op = "patch" /\ req[u].at = "begun"
       /\ b = "purchase" => amount >= 0
       /\ payments' = new
       /\ IF b = "sales"
            THEN Goto(u, "apply") /\ UNCHANGED disturbed
            ELSE Done(u) /\ Disturb(b, Sum(new, b) # Received(b))
       /\ UNCHANGED <<book, plans, healed, begun>>

(* The payment is deleted.  For a customer's payment the summing up that   *)
(* follows is refused: it asks for row locks outside of a transaction.     *)
Delete(u) ==
    LET k == req[u].id
        b == req[u].book
        new == [payments EXCEPT ![k] = None]
    IN /\ req[u].op = "delete" /\ req[u].at = "begun"
       /\ payments' = new
       /\ Disturb(b, Sum(new, b) # Received(b))
       /\ Done(u)
       /\ UNCHANGED <<book, plans, healed, begun>>

(* Review of a supplier's payment: the state alone is written.             *)
Approve(u) ==
    LET k == req[u].id
    IN /\ req[u].op = "approve" /\ req[u].at = "begun"
       /\ payments[k] # None
       /\ payments' = [payments EXCEPT ![k].state = "approved"]
       /\ Goto(u, "apply")
       /\ UNCHANGED <<book, plans, disturbed, healed, begun>>

Reject(u) ==
    LET k == req[u].id
        b == req[u].book
        new == [payments EXCEPT ![k].state = "rejected"]
    IN /\ req[u].op = "reject" /\ req[u].at = "begun"
       /\ payments[k] # None
       /\ payments' = new
       /\ Disturb(b, Sum(new, b) # Received(b))
       /\ Done(u)
       /\ UNCHANGED <<book, plans, healed, begun>>

-----------------------------------------------------------------------------
(* Summing up: locks the order and adds the payments up; then the order is *)
(* written and the plans are filled from a second sum.  The faulty one     *)
(* does not wait for the lock.                                             *)
CountFaulty(u) ==
    /\ req[u].at = "apply"
    /\ req' = [req EXCEPT ![u].at = "counted", ![u].sum = Received(req[u].book),
                          ![u].seen = disturbed[req[u].book]]
    /\ UNCHANGED <<book, payments, plans, disturbed, healed, begun>>
Count(u) ==
    LET b == req[u].book
    IN /\ req[u].at = "apply"
       /\ BookFree(u, b)
       /\ req' = [req EXCEPT ![u].at = "counted", ![u].sum = Received(b),
                             ![u].seen = disturbed[b]]
       /\ UNCHANGED <<book, payments, plans, disturbed, healed, begun>>

Apply(u) ==
    LET b == req[u].book
    IN /\ req[u].at = "counted"
       /\ book' = [book EXCEPT ![b] = Applied(@, req[u].sum)]
       /\ plans' = IF b = "sales" THEN Filled(Received(b)) ELSE plans
       /\ healed' = [healed EXCEPT ![b] = req[u].seen]
       /\ Done(u)
       /\ UNCHANGED <<payments, disturbed, begun>>

-----------------------------------------------------------------------------
(* The rows of the orders and the plans.                                   *)

(* An edit, a cancellation or a review saves the order as loaded.          *)
SaveBook(u) ==
    LET b == req[u].book
    IN /\ req[u].op = "save" /\ req[u].at = "begun"
       /\ BookFree(u, b)
       /\ book' = [book EXCEPT ![b] = Saved(b, req[u].copy)]
       /\ Disturb(b, book[b] # req[u].copy)
       /\ Done(u)
       /\ UNCHANGED <<payments, plans, healed, begun>>

(* update_payment: the amount and the date are set by hand.                *)
SetPaid(u, amount) ==
    /\ req[u].op = "manual" /\ req[u].at = "begun"
    /\ BookFree(u, "sales")
    /\ book' = [book EXCEPT !["sales"] =
           Saved("sales", [req[u].copy EXCEPT !.paid = amount, !.dated = TRUE])]
    /\ Disturb("sales", TRUE)
    /\ Done(u)
    /\ UNCHANGED <<payments, plans, healed, begun>>

(* Changed lines of an order write its new total and nothing else.         *)
ChangeTotal(u, b, total) ==
    /\ Start(u)
    /\ BookFree(u, b)
    /\ book' = [book EXCEPT ![b].total = total]
    /\ Disturb(b, total # book[b].total)
    /\ UNCHANGED <<payments, plans, req, healed>>

(* A change of a plan sets any of its fields, or works its status out      *)
(* again, and saves it as it was loaded.                                   *)
Changed(op, copy) ==
    IF op = "refresh" THEN {Refreshed(copy)}
    ELSE {[copy EXCEPT !.amount = a] : a \in Totals} \cup {[copy EXCEPT !.paid = a] : a \in Amounts}
            \cup {[copy EXCEPT !.level = l] : l \in Levels}

SavePlan(u) ==
    LET i == req[u].id
    IN /\ req[u].op \in PlanRequests /\ req[u].at = "begun"
       /\ \E new \in Changed(req[u].op, req[u].copy) :
             /\ plans' = [plans EXCEPT ![i] = new]
             /\ Disturb("sales", new # plans[i])
       /\ Done(u)
       /\ UNCHANGED <<book, payments, healed, begun>>

CreatePlan(u, i, amount) ==
    /\ plans[i] = None
    /\ Start(u)
    /\ plans' = [plans EXCEPT ![i] = [amount |-> amount, paid |-> 0, level |-> "unpaid"]]
    /\ Disturb("sales", TRUE)
    /\ UNCHANGED <<book, payments, req, healed>>

DeletePlan(u, i) ==
    /\ plans[i] # None
    /\ Start(u)
    /\ plans' = [plans EXCEPT ![i] = None]
    /\ Disturb("sales", TRUE)
    /\ UNCHANGED <<book, payments, req, healed>>

(* A request is refused, or its worker dies: summing up is rolled back,    *)
(* and a saved payment stays without it.                                   *)
Fail(u) ==
    /\ req[u] # Idle
    /\ Disturb(req[u].book, req[u].at # "begun")
    /\ Done(u)
    /\ UNCHANGED <<book, payments, plans, healed, begun>>

-----------------------------------------------------------------------------
Begin(u) ==
    \/ \E op \in PaymentRequests, k \in Payments : BeginPayment(u, op, k)
    \/ \E op \in BookRequests, b \in Books : BeginBook(u, op, b)
    \/ \E op \in PlanRequests, i \in Plans : BeginPlan(u, op, i)

Pay(u) ==
    \/ \E k \in Payments, amount \in Amounts : Create(u, k, amount)
    \/ \E amount \in Amounts : Patch(u, amount)
    \/ Delete(u) \/ Approve(u) \/ Reject(u)
    \/ Count(u) \/ Apply(u)

Edit(u) ==
    \/ SaveBook(u)
    \/ \E amount \in Amounts : SetPaid(u, amount)
    \/ \E b \in Books, total \in Totals : ChangeTotal(u, b, total)
    \/ SavePlan(u)
    \/ \E i \in Plans, amount \in Totals : CreatePlan(u, i, amount)
    \/ \E i \in Plans : DeletePlan(u, i)

Next == \E u \in Users : Begin(u) \/ Pay(u) \/ Edit(u) \/ Fail(u)

Spec == Init /\ [][Next]_vars

-----------------------------------------------------------------------------
(* Types of all variables; one request at most sums an order up, and no    *)
(* summing up has seen more than there was.                                *)
TypeOK ==
    /\ book \in [Books -> Book]
    /\ payments \in [Payments -> Payment \cup {None}]
    /\ plans \in [Plans -> Plan \cup {None}]
    /\ req \in [Users -> Request]
    /\ disturbed \in [Books -> Nat]
    /\ healed \in [Books -> Nat]
    /\ begun \in Nat
    /\ \A b \in Books : healed[b] <= disturbed[b]
    /\ \A u, v \in Users, b \in Books : Locks(u, b) /\ Locks(v, b) => u = v

(* Nobody is going to sum the order up, and nothing has been disturbed     *)
(* since it was summed up last.                                            *)
Settled(b) ==
    /\ healed[b] = disturbed[b]
    /\ \A u \in Users : req[u].at \in {"apply", "counted"} => req[u].book # b

(* Whatever payments come, change and go at once, an order shows what was  *)
(* paid for it in the end, with the right status, and a paid order has the *)
(* date of payment, an unpaid one has none.                                *)
OrderShowsPayments ==
    \A b \in Books : Settled(b) =>
        /\ book[b].paid = Received(b)
        /\ book[b].level = LevelFor(Received(b), book[b].total)
        /\ book[b].level = "paid" => book[b].dated
        /\ book[b].level = "unpaid" => ~book[b].dated

(* The plans are filled one after the other, none beyond its amount: each  *)
(* has what is left of the payments after all earlier ones in full.        *)
Within(n, max) == IF n < 0 THEN 0 ELSE IF n > max THEN max ELSE n
Amount(rows) == [j \in Plans |-> IF rows[j] = None THEN 0 ELSE rows[j].amount]
Earlier(i) == SumFunctionOnSet(Amount(plans), {j \in Plans : j < i})

PlansFillInOrder ==
    Settled("sales") =>
        \A i \in Plans : plans[i] # None =>
            /\ plans[i].paid = Within(Received("sales") - Earlier(i), plans[i].amount)
            /\ plans[i].paid > 0 => plans[i].level = PlanLevel(plans[i])

=============================================================================
