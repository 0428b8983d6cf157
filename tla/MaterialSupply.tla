--------------------------- MODULE MaterialSupply ---------------------------
(***************************************************************************)
(* The supply of one purchased material: the plans of the work orders that *)
(* need it, the reservations they hold on its stock, the purchase orders   *)
(* that bring more of it, and the receipts that are inspected, stocked in  *)
(* and handed out to the plans.                                            *)
(*                                                                         *)
(* Services that lock the rows they change (planning, creation of orders)  *)
(* are single actions.  The views of orders and receipts load an instance, *)
(* check that copy and write it back later: each such request has a        *)
(* loading action, whose guards are the checks, and a committing one.      *)
(* seen[u] is what the request of user u has loaded.                       *)
(*                                                                         *)
(* Two history variables: outdated are the orders whose status some        *)
(* approval has set back to what it was when the approval loaded them, and *)
(* stranded is what deleted plans have left reserved on the material.      *)
(*                                                                         *)
(* Bounds: an order has one item; Demands and Quantities are what requests *)
(* may ask for.                                                            *)
(***************************************************************************)
EXTENDS Integers, SequencesExt

CONSTANTS
    Plans,          \* materials of work orders, all of the material modelled
    Orders,         \* purchase orders
    Records,        \* receive records
    Buyers, Reviewers,  \* users who submit, place and cancel orders, who
                        \* approve and reject them, and who keep the
    Keepers,            \* receipts, each with one request under way at a time
    Demands,        \* quantities a plan may need
    Quantities,     \* quantities ordered and received
    InitialStock,   \* stock of the material at first
    None            \* no plan, no order

ASSUME SupplyAssumption ==
    /\ IsFiniteSet(Plans) /\ IsFiniteSet(Orders) /\ IsFiniteSet(Records)
    /\ None \notin Plans \cup Orders \cup Records
    /\ Demands \subseteq Nat \ {0}
    /\ Quantities \subseteq Nat \ {0}
    /\ InitialStock \in Nat

VARIABLES stock, reserved, plan, queue, order, record, seen, outdated, stranded

vars == <<stock, reserved, plan, queue, order, record, seen, outdated, stranded>>

-----------------------------------------------------------------------------
Users == Buyers \cup Reviewers \cup Keepers

(* Rows.                                                                   *)
Phases == {"draft", "calculated", "confirmed", "invalidated"}
PurchaseStatuses == {"pending", "ordered", "received", "cut"}
PlanRow == [phase : Phases, status : PurchaseStatuses, planned : Nat,
            reserved : Nat, inbound : Nat, purchase : Nat]

OrderStatuses == {"none", "pending", "ordered", "received", "cancelled"}
Approvals == {"draft", "submitted", "approved", "rejected"}
OrderRow == [status : OrderStatuses, approval : Approvals,
             plan : Plans \cup {None}, quantity : Nat, received : Nat]

RecordRow == [order : Orders \cup {None}, quantity : Nat, good : Nat,
              inspected : BOOLEAN, stocked : BOOLEAN, returned : BOOLEAN]

NewPlan == [phase |-> "draft", status |-> "pending", planned |-> 0,
            reserved |-> 0, inbound |-> 0, purchase |-> 0]
NoOrder == [status |-> "none", approval |-> "draft", plan |-> None,
            quantity |-> 0, received |-> 0]
NoRecord == [order |-> None, quantity |-> 0, good |-> 0,
             inspected |-> FALSE, stocked |-> FALSE, returned |-> FALSE]

BuyerRequests == {"submit", "place", "cancel"}
Reviews == {"approve", "reject"}
RecordRequests == {"receive", "inspect", "stock_in", "return"}

(* What a request has loaded and will write back: an approval the status   *)
(* of the order, a stock-in the received quantity of the item and the plan *)
(* it was bought for, the others the whole record.                         *)
Idle == [op |-> "idle", order |-> None, status |-> "none", received |-> 0,
         bought |-> None, record |-> None, receipt |-> NoRecord]

Init ==
    /\ stock = InitialStock
    /\ reserved = 0
    /\ plan = [w \in Plans |-> NewPlan]
    /\ queue = << >>
    /\ order = [o \in Orders |-> NoOrder]
    /\ record = [k \in Records |-> NoRecord]
    /\ seen = [u \in Users |-> Idle]
    /\ outdated = {}
    /\ stranded = 0

-----------------------------------------------------------------------------
(* Quantities the planner computes from the tables.                        *)
Confirmed == {w \in Plans : plan[w].phase = "confirmed"}
LiveFaulty(o) == order[o].status = "pending"
Live(o) == order[o].status \notin {"none", "cancelled"}
OrdersFor(w) == {o \in Orders : order[o].plan = w /\ Live(o)}

AvailableFaulty == stock
Available == Max({0, stock - reserved})

(* Ordered and not yet stocked in, and the part of it promised to no other *)
(* confirmed plan.                                                         *)
InTransit ==
    LET missing == [o \in Orders |-> order[o].quantity - order[o].received]
    IN Max({0, SumFunctionOnSet(missing, {o \in Orders : order[o].status = "ordered"})})

Promised(W) == SumFunctionOnSet([w \in Plans |-> plan[w].inbound], W)

Unallocated(w) == Max({0, InTransit - Promised(Confirmed \ {w})})

-----------------------------------------------------------------------------
(* Planning.                                                               *)
CalculatePlan(w, demand) ==
    /\ plan[w].phase # "confirmed"
    /\ plan' = [plan EXCEPT ![w].phase = "calculated",
                            ![w].planned = demand,
                            ![w].inbound = Unallocated(w),
                            ![w].purchase = Max({0, demand - Available - Unallocated(w)})]
    /\ UNCHANGED <<stock, reserved, queue, order, record, seen, outdated, stranded>>

ConfirmPlan(w) ==
    LET need == plan[w].planned
        reserve == Min({need, Available})
        inbound == Min({need - reserve, Unallocated(w)})
        purchase == need - reserve - inbound
    IN /\ plan[w].phase = "calculated"
       /\ reserved' = reserved + reserve
       /\ plan' = [plan EXCEPT
            ![w] = [phase |-> "confirmed", planned |-> need, reserved |-> reserve,
                    inbound |-> inbound, purchase |-> purchase,
                    status |-> CASE reserve >= need -> "received"
                                 [] reserve < need /\ inbound > 0 /\ purchase = 0 -> "ordered"
                                 [] OTHER -> @.status]]
       /\ queue' = Append(queue, w)
       /\ UNCHANGED <<stock, order, record, seen, outdated, stranded>>

ReleasedFaulty(w) == reserved
Released(w) == Max({0, reserved - plan[w].reserved})

InvalidatePlan(w) ==
    /\ plan[w].phase = "confirmed"
    /\ OrdersFor(w) = {}
    /\ reserved' = Released(w)
    /\ plan' = [plan EXCEPT ![w].phase = "invalidated", ![w].status = "pending",
                            ![w].reserved = 0, ![w].inbound = 0]
    /\ queue' = RemoveFirst(queue, w)
    /\ UNCHANGED <<stock, order, record, seen, outdated, stranded>>

(* An edit of the work order matches the materials it is sent with those   *)
(* it has.  What was calculated or confirmed stays, other plans start      *)
(* again; a material that is not sent is deleted, unless it holds stock,   *)
(* is confirmed or has a live order.  Its row may be made anew.            *)
ResetPlan(w) ==
    /\ plan[w].phase \in {"draft", "invalidated"}
    /\ plan' = [plan EXCEPT ![w] = [NewPlan EXCEPT !.status = plan[w].status,
                                                  !.reserved = plan[w].reserved]]
    /\ UNCHANGED <<stock, reserved, queue, order, record, seen, outdated, stranded>>

RemovableFaulty(w) == OrdersFor(w) = {}
Removable(w) ==
    /\ plan[w].reserved = 0
    /\ plan[w].phase # "confirmed"
    /\ OrdersFor(w) = {}

(* The row is gone; the items of orders made for it are kept.              *)
Forget(w) ==
    /\ plan' = [plan EXCEPT ![w] = NewPlan]
    /\ order' = [o \in Orders |-> IF order[o].plan = w THEN [order[o] EXCEPT !.plan = None]
                                  ELSE order[o]]

DeletePlan(w) ==
    /\ Removable(w)
    /\ Forget(w)
    /\ UNCHANGED <<stock, reserved, queue, record, seen, outdated, stranded>>

(* The endpoint of the rows themselves deletes a plan, and so does the     *)
(* deletion of its work order: neither asks anything, and the material's   *)
(* figure keeps what the plan held.                                        *)
DropPlan(w) ==
    /\ Forget(w)
    /\ queue' = RemoveFirst(queue, w)
    /\ stranded' = stranded + plan[w].reserved
    /\ UNCHANGED <<stock, reserved, record, seen, outdated>>

CutMaterial(w) ==
    /\ plan[w].status = "received"
    /\ plan' = [plan EXCEPT ![w].status = "cut"]
    /\ UNCHANGED <<stock, reserved, queue, order, record, seen, outdated, stranded>>

-----------------------------------------------------------------------------
(* A plan is handed its share of a receipt: the plan the goods were bought *)
(* for what no promise covers yet, any other plan what it was promised.    *)
DueFaulty(row, bought) ==
    IF bought THEN Max({0, row.planned - row.reserved}) ELSE row.inbound
DueFaultyBelow(row, bought) == Max({0, row.planned - row.reserved})
Due(row, bought) ==
    IF bought THEN Max({0, row.planned - row.reserved - row.inbound})
              ELSE row.inbound

(* Goods are shared out: the plan they were bought for is served first,    *)
(* the others in the order of their confirmation.                          *)
SequenceFaulty(for) ==
    IF for \in Confirmed THEN <<for>> \o RemoveFirst(queue, for) ELSE Reverse(queue)
Sequence(for) ==
    IF for \in Confirmed THEN <<for>> \o RemoveFirst(queue, for) ELSE queue

Serve(for, acc, w) ==
    LET row == acc.rows[w]
        share == Min({acc.left, Due(row, w = for)})
        full == share > 0 /\ row.reserved + share >= row.planned
    IN [left |-> acc.left - share,
        rows |-> [acc.rows EXCEPT
            ![w].reserved = @ + share,
            ![w].inbound = IF w = for THEN @ ELSE @ - share,
            ![w].status = IF full THEN "received" ELSE @]]

ShareOut(rows, goods, for) ==
    FoldLeft(LAMBDA acc, w : Serve(for, acc, w), [left |-> goods, rows |-> rows], Sequence(for))

-----------------------------------------------------------------------------
(* Purchase orders.                                                        *)
CreateOrder(o, w, quantity) ==
    /\ order[o].status = "none"
    /\ order' = [order EXCEPT ![o] = [NoOrder EXCEPT !.status = "pending",
                                        !.plan = w, !.quantity = quantity]]
    /\ UNCHANGED <<stock, reserved, plan, queue, record, seen, outdated, stranded>>

CreateFromWorkOrder(o, w, quantity) ==
    /\ plan[w].phase = "confirmed"
    /\ plan[w].status = "pending"
    /\ plan[w].purchase > 0
    /\ OrdersFor(w) = {}
    /\ CreateOrder(o, w, quantity)

CreateForStock(o, quantity) == CreateOrder(o, None, quantity)

(* The checks each view makes on the order it has loaded.                  *)
Allowed(op, row) ==
    CASE op = "submit" -> row.approval \in {"draft", "rejected"}
      [] op \in Reviews -> row.approval = "submitted"
      [] op = "place" -> row.approval = "approved" /\ row.status = "pending"
      [] op = "cancel" -> row.status \notin {"received", "cancelled"}

LoadOrder(u, op, o) ==
    /\ seen[u] = Idle
    /\ order[o].status # "none"
    /\ Allowed(op, order[o])
    /\ seen' = [seen EXCEPT ![u] = [Idle EXCEPT !.op = op, !.order = o,
                  !.status = IF op \in {"place", "cancel"} THEN @ ELSE order[o].status]]
    /\ UNCHANGED <<stock, reserved, plan, queue, order, record, outdated, stranded>>

Finish(u) == seen' = [seen EXCEPT ![u] = Idle]

(* Approval saves the whole row of the order, as it was loaded: its status *)
(* with it.  The item is a row of its own and is not touched.              *)
SaveApproval(u, approval) ==
    LET o == seen[u].order
    IN /\ order' = [order EXCEPT ![o].status = seen[u].status,
                                 ![o].approval = approval]
       /\ outdated' = IF order[o].status = seen[u].status THEN outdated
                      ELSE outdated \cup {o}

Submit(u) ==
    /\ seen[u].op = "submit"
    /\ SaveApproval(u, "submitted")
    /\ \/ Finish(u)
       \/ seen' = [seen EXCEPT ![u].op = "approve"]     \* approved automatically
    /\ UNCHANGED <<stock, reserved, plan, queue, record, stranded>>

Decide(u) ==
    /\ \/ seen[u].op = "approve" /\ SaveApproval(u, "approved")
       \/ seen[u].op = "reject" /\ SaveApproval(u, "rejected")
    /\ Finish(u)
    /\ UNCHANGED <<stock, reserved, plan, queue, record, stranded>>

PlaceOrder(u) ==
    LET o == seen[u].order
        w == order[o].plan
    IN /\ seen[u].op = "place"
       /\ order' = [order EXCEPT ![o].status = "ordered"]
       /\ plan' = IF w # None /\ plan[w].status = "pending"
                    THEN [plan EXCEPT ![w].status = "ordered"] ELSE plan
       /\ Finish(u)
       /\ UNCHANGED <<stock, reserved, queue, record, outdated, stranded>>

CancelOrder(u) ==
    LET o == seen[u].order
        w == order[o].plan
    IN /\ seen[u].op = "cancel"
       /\ order' = [order EXCEPT ![o].status = "cancelled"]
       /\ plan' = IF w # None /\ OrdersFor(w) \subseteq {o}
                    THEN [plan EXCEPT ![w].status = "pending"] ELSE plan
       /\ Finish(u)
       /\ UNCHANGED <<stock, reserved, queue, record, outdated, stranded>>

-----------------------------------------------------------------------------
(* Receipts.                                                               *)
RecordedFor(o) ==
    SumFunctionOnSet([k \in Records |-> record[k].quantity],
                     {k \in Records : record[k].order = o})

(* The sum over the records is read again inside the transaction, without  *)
(* a lock: it only grows, so reading it with the order refuses least.      *)
LoadForReceipt(u, o, quantity) ==
    /\ seen[u] = Idle
    /\ order[o].status = "ordered"
    /\ quantity <= order[o].quantity - RecordedFor(o)
    /\ seen' = [seen EXCEPT ![u] = [Idle EXCEPT !.op = "receive", !.order = o,
                  !.receipt = [NoRecord EXCEPT !.order = o, !.quantity = quantity]]]
    /\ UNCHANGED <<stock, reserved, plan, queue, order, record, outdated, stranded>>

Receive(u, k) ==
    /\ seen[u].op = "receive"
    /\ record[k] = NoRecord
    /\ record' = [record EXCEPT ![k] = seen[u].receipt]
    /\ Finish(u)
    /\ UNCHANGED <<stock, reserved, plan, queue, order, outdated, stranded>>

Bad(row) == row.quantity - row.good

LoadRecord(u, op, k) ==
    LET row == record[k]
    IN /\ seen[u] = Idle
       /\ row # NoRecord
       /\ CASE op = "inspect" -> ~row.inspected
            [] op = "stock_in" -> row.inspected /\ ~row.stocked /\ row.good > 0
            [] op = "return" -> row.inspected /\ ~row.returned /\ Bad(row) > 0
       /\ seen' = [seen EXCEPT ![u] = [Idle EXCEPT !.op = op, !.order = row.order,
                     !.record = k, !.receipt = row,
                     !.received = IF op = "stock_in" THEN order[row.order].received ELSE @,
                     !.bought = IF op = "stock_in" THEN order[row.order].plan ELSE @]]
       /\ UNCHANGED <<stock, reserved, plan, queue, order, record, outdated, stranded>>

(* Inspection and return save the whole record, as it was loaded.          *)
Inspect(u, good) ==
    /\ seen[u].op = "inspect"
    /\ record' = [record EXCEPT ![seen[u].record] =
                    [seen[u].receipt EXCEPT !.inspected = TRUE, !.good = good]]
    /\ Finish(u)
    /\ UNCHANGED <<stock, reserved, plan, queue, order, outdated, stranded>>

Return(u) ==
    /\ seen[u].op = "return"
    /\ record' = [record EXCEPT ![seen[u].record] =
                    [seen[u].receipt EXCEPT !.returned = TRUE]]
    /\ Finish(u)
    /\ UNCHANGED <<stock, reserved, plan, queue, order, outdated, stranded>>

(* The record and the item are written as they were loaded; the material   *)
(* and the plans are locked and read in the transaction.  It fails when    *)
(* the plan the item was bought for has been deleted since.                *)
StockIn(u) ==
    LET o == seen[u].order
        w == order[o].plan
        goods == seen[u].receipt.good
        received == seen[u].received + goods
        complete == received >= order[o].quantity
        noted == IF w = None THEN plan
                 ELSE [plan EXCEPT ![w].status =
                         IF complete THEN "received" ELSE "ordered"]
        shared == ShareOut(noted, goods, w)
    IN /\ seen[u].op = "stock_in"
       /\ seen[u].bought = w
       /\ stock' = stock + goods
       /\ record' = [record EXCEPT ![seen[u].record] =
                       [seen[u].receipt EXCEPT !.stocked = TRUE]]
       /\ order' = [order EXCEPT ![o].received = received,
                                 ![o].status = IF complete THEN "received" ELSE @]
       /\ plan' = shared.rows
       /\ reserved' = reserved + goods - shared.left
       /\ Finish(u)
       /\ UNCHANGED <<queue, outdated, stranded>>

(* A request fails, or its worker dies, before anything is written.        *)
Fail(u) ==
    /\ seen[u] # Idle
    /\ Finish(u)
    /\ UNCHANGED <<stock, reserved, plan, queue, order, record, outdated, stranded>>

-----------------------------------------------------------------------------
Planning ==
    \E w \in Plans :
        \/ \E demand \in Demands : CalculatePlan(w, demand)
        \/ ConfirmPlan(w)
        \/ InvalidatePlan(w)
        \/ ResetPlan(w)
        \/ DeletePlan(w)
        \/ DropPlan(w)
        \/ CutMaterial(w)

Purchasing ==
    \/ \E o \in Orders, quantity \in Quantities :
         \/ CreateForStock(o, quantity)
         \/ \E w \in Plans : CreateFromWorkOrder(o, w, quantity)
    \/ \E u \in Buyers :
         \/ \E op \in BuyerRequests, o \in Orders : LoadOrder(u, op, o)
         \/ Submit(u)
         \/ PlaceOrder(u)
         \/ CancelOrder(u)
    \/ \E u \in Reviewers, op \in Reviews, o \in Orders : LoadOrder(u, op, o)
    \/ \E u \in Buyers \cup Reviewers : Decide(u)

Receiving ==
    \E u \in Keepers :
        \/ \E o \in Orders, quantity \in Quantities : LoadForReceipt(u, o, quantity)
        \/ \E k \in Records : Receive(u, k)
        \/ \E op \in RecordRequests \ {"receive"}, k \in Records : LoadRecord(u, op, k)
        \/ \E good \in 0..seen[u].receipt.quantity : Inspect(u, good)
        \/ Return(u)
        \/ StockIn(u)

Next == Planning \/ Purchasing \/ Receiving \/ \E u \in Users : Fail(u)

Spec == Init /\ [][Next]_vars

-----------------------------------------------------------------------------
(* Rows keep their types; the queue lists the confirmed plans, once each.  *)
(* No quantity of any row, and no reservation, is ever negative.           *)
TypeOK ==
    /\ stock \in Nat
    /\ reserved \in Nat
    /\ plan \in [Plans -> PlanRow]
    /\ queue \in Seq(Plans) /\ IsInjective(queue) /\ ToSet(queue) = Confirmed
    /\ order \in [Orders -> OrderRow]
    /\ record \in [Records -> RecordRow]
    /\ seen \in [Users -> [op : {"idle"} \cup BuyerRequests \cup Reviews \cup RecordRequests,
                           order : Orders \cup {None}, status : OrderStatuses,
                           received : Nat, bought : Plans \cup {None},
                           record : Records \cup {None}, receipt : RecordRow]]
    /\ outdated \subseteq Orders
    /\ stranded \in Nat

(* Material.reserved_quantity is what the plans hold and what plans held   *)
(* that were deleted without being asked: confirming, allocating,          *)
(* invalidating and every edit keep the two ledgers together.              *)
ReservedIsSum ==
    reserved = SumFunctionOnSet([w \in Plans |-> plan[w].reserved], Plans) + stranded

(* The plans never hold more than is in stock, however receipts, orders    *)
(* and planning interleave: no sheet is reserved twice.                    *)
ReservedInStock == reserved <= stock

(* A confirmed plan holds and is promised no more than it needs, and what  *)
(* it neither holds nor is promised is part of what it was to purchase.    *)
PlanIsCovered ==
    \A w \in Confirmed :
        /\ plan[w].reserved + plan[w].inbound <= plan[w].planned
        /\ plan[w].planned <= plan[w].reserved + plan[w].inbound + plan[w].purchase

(* A plan whose purchase order is placed is not shown as waiting to be     *)
(* purchased, whatever became of its other orders, of the plan and of      *)
(* receipts that came late.  Only an approval that writes back an outdated *)
(* status of that very order can break this.                               *)
OrderedIsNotPending ==
    \A o \in Orders \ outdated :
        order[o].status = "ordered" /\ order[o].plan # None
            => plan[order[o].plan].status # "pending"

(* Goods that are stocked in are shared out in turn: the plan they were    *)
(* bought for comes first, the others as they were confirmed, no plan is   *)
(* given any while one before it still waits for some, and none is left    *)
(* over while any plan waits.                                              *)
Before(v, w, bought) ==
    \/ v = bought /\ w # bought
    \/ /\ w # bought
       /\ \E i, j \in DOMAIN queue : i < j /\ queue[i] = v /\ queue[j] = w

SharedInTurn(bought) ==
    \A v \in Confirmed :
        Due(plan'[v], v = bought) > 0 =>
            /\ reserved' - reserved = stock' - stock
            /\ \A w \in Confirmed :
                  Before(v, w, bought) => plan'[w].reserved = plan[w].reserved

ServedInTurn ==
    [][\A u \in Users : StockIn(u) => SharedInTurn(order[seen[u].order].plan)]_vars

Ledger == INSTANCE ReservationLedger WITH held <- [w \in Plans |-> plan[w].reserved]

(* Calculating, confirming, editing and deleting plans, orders, receipts   *)
(* and their failures: whatever the plans hold changes as the ledger       *)
(* allows.  A plan is given free stock or arriving goods only, and loses   *)
(* what it holds only all at once, with the material's own figure or by    *)
(* being deleted.                                                          *)
ImplementsLedger == Ledger!Spec
=============================================================================
