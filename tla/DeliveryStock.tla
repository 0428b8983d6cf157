--------------------------- MODULE DeliveryStock ---------------------------
(***************************************************************************)
(* One sales order of one product: its deliveries, the batches of the      *)
(* product they are taken from and brought back to, stock-out and stock-in *)
(* documents, and the status of the order, which follows deliveries and    *)
(* work orders.                                                            *)
(*                                                                         *)
(* Every request loads a row, checks that copy and writes it back later;   *)
(* there are no version columns.  A request is taken apart where the       *)
(* database may move in between: Begin loads and checks, Look reads inside *)
(* the transaction, Reach waits for row locks and reads the item, Commit   *)
(* actions make everything visible.  ship and reject do not lock the       *)
(* batches they read; a stock-out does.                                    *)
(*                                                                         *)
(* stale is a history variable: the kinds of rows for which some request   *)
(* has committed a write or a decision made on a copy that was out of date *)
(* by then.  Properties name the kinds they depend on.                     *)
(*                                                                         *)
(* Left out: changing or deleting deliveries, their items and documents,   *)
(* and making, changing or deleting batches by their own endpoints; all    *)
(* properties are about orders and batches none of that has happened to.   *)
(*                                                                         *)
(* Bounds: Loads are the lines a delivery may have, Cap the quantity a     *)
(* batch may be adjusted to, Requests how many requests there are.         *)
(***************************************************************************)
EXTENDS Integers, SequencesExt

CONSTANTS
    Deliveries, Outs, Ins,  \* delivery orders, stock-out and stock-in documents
    FirstBatches,           \* batches on the shelf at first, oldest first
    Released,               \* batches whose quality lets them be shipped
    Users,                  \* each with one request under way at a time
    Ordered,                \* quantity of the order's item
    InitialQuantity,        \* of each first batch
    Produced,               \* what a stock-in brings
    Loads,                  \* what a delivery may have: the quantities of its
                            \* lines, and the batch they name, if any
    Cap, Requests,
    None

ASSUME DeliveryAssumption ==
    /\ IsFiniteSet(Deliveries) /\ IsFiniteSet(Ins)
    /\ FirstBatches \in Seq(ToSet(FirstBatches)) /\ IsInjective(FirstBatches)
    /\ Released \subseteq ToSet(FirstBatches)
    /\ Ins \cap ToSet(FirstBatches) = {}
    /\ Deliveries \cap (Ins \cup ToSet(FirstBatches)) = {}
    /\ None \notin Deliveries \cup Outs \cup Ins \cup ToSet(FirstBatches)
    /\ Ordered \in Nat \ {0} /\ Produced \in Nat \ {0}
    /\ InitialQuantity \in Nat /\ Cap \in Nat /\ Requests \in Nat
    /\ Loads \subseteq [lines : Seq(Nat \ {0}) \ {<< >>},
                        pick : ToSet(FirstBatches) \cup {None}]

VARIABLES shelf, batch, delivery, delivered, sales, works, out, intake, req,
          stale, entered, adjusted, begun

vars == <<shelf, batch, delivery, delivered, sales, works, out, intake, req,
          stale, entered, adjusted, begun>>

-----------------------------------------------------------------------------
(* A batch is named by the document that creates it: the stock-in, or the  *)
(* delivery that is rejected when no batch is left on the shelf.           *)
Batches == ToSet(FirstBatches) \cup Ins \cup Deliveries
BatchRow == [status : {"absent", "in_stock", "quality_check"}, quantity : Nat]

NoLoad == [lines |-> << >>, pick |-> None]
DeliveryRow == [status : {"none", "pending", "shipped", "received", "rejected"},
                load : Loads \cup {NoLoad} \cup {[load EXCEPT !.pick = None] : load \in Loads}]

SalesStatuses == {"pending", "approved", "in_production", "ready_to_deliver",
                  "partially_delivered", "completed", "cancelled"}
SalesRow == [status : SalesStatuses, reason : BOOLEAN]

OutRow == [status : {"none", "draft", "submitted", "completed"},
           delivery : Deliveries \cup {None}]
InStatuses == {"none", "draft", "submitted", "completed"}

WorkStates == {"none", "unfinished", "finished"}

Kinds == {"batch", "item", "delivery", "sales", "document"}

NoDelivery == [status |-> "none", load |-> NoLoad]
NoBatch == [status |-> "absent", quantity |-> 0]
NoSales == [status |-> "approved", reason |-> FALSE]
NoBatches == [b \in Batches |-> NoBatch]

(* What a request has read: the row it is about, the order joined to it,   *)
(* the batches and the delivered quantity of the item; and the batches as  *)
(* it has updated them in its transaction.                                 *)
Idle == [op |-> "idle", at |-> "idle", key |-> None, status |-> "none",
         sales |-> NoSales, batches |-> NoBatches, item |-> 0, rows |-> NoBatches]

Init ==
    /\ shelf = FirstBatches
    /\ batch = [b \in Batches |->
                  IF b \in ToSet(FirstBatches)
                    THEN [status |-> "in_stock", quantity |-> InitialQuantity]
                    ELSE NoBatch]
    /\ delivery = [d \in Deliveries |-> NoDelivery]
    /\ delivered = 0
    /\ sales = NoSales
    /\ works = "none"
    /\ out = [o \in Outs |-> [status |-> "none", delivery |-> None]]
    /\ intake = [i \in Ins |-> "none"]
    /\ req = [u \in Users |-> Idle]
    /\ stale = {}
    /\ entered = {}
    /\ adjusted = 0
    /\ begun = 0

documents == <<out, intake>>
history == <<entered, adjusted, begun>>

-----------------------------------------------------------------------------
Total(lines) == SumFunction(lines)
Gone == {d \in Deliveries : delivery[d].status \in {"shipped", "received"}}

(* Take a quantity first in, first out from those of the batches which are *)
(* in stock; left is what could not be had.                                *)
Take(batches, acc, b) ==
    LET row == acc.rows[b]
        taken == IF row.status = "in_stock" /\ b \in batches
                   THEN Min({acc.left, row.quantity}) ELSE 0
    IN [left |-> acc.left - taken,
        rows |-> [acc.rows EXCEPT ![b].quantity = @ - taken]]

TakeOldestFaulty(rows, wanted, batches) ==
    FoldLeft(LAMBDA acc, b : Take(batches, acc, b), [left |-> wanted, rows |-> rows],
             Reverse(shelf))
TakeOldest(rows, wanted, batches) ==
    FoldLeft(LAMBDA acc, b : Take(batches, acc, b), [left |-> wanted, rows |-> rows], shelf)

InStock(rows) == {i \in DOMAIN shelf : rows[shelf[i]].status = "in_stock"}

(* Rejected goods go to the newest batch in stock, whatever its quality,   *)
(* or to a batch of their own.                                             *)
ReturnedTo(d, rows) == IF InStock(rows) = {} THEN d ELSE shelf[Max(InStock(rows))]

PutBack(rows, d, quantity) ==
    LET b == ReturnedTo(d, rows)
    IN [rows EXCEPT ![b] = [status |-> "in_stock", quantity |-> @.quantity + quantity]]

-----------------------------------------------------------------------------
(* The status of the order.                                                *)
StatusFor(seen, quantity, w, keep) ==
    CASE quantity >= Ordered -> "completed"
      [] quantity < Ordered /\ keep /\ seen.status = "completed" /\ seen.reason
           -> "completed"
      [] OTHER -> CASE quantity > 0 -> "partially_delivered"
                    [] quantity = 0 /\ w = "unfinished" -> "in_production"
                    [] quantity = 0 /\ w = "finished" -> "ready_to_deliver"
                    [] OTHER -> "pending"

(* sync_status: seen is the order the request holds, keep whether a manual *)
(* completion is preserved.  Only what differs from seen is written.       *)
SyncedFaulty(seen, quantity, w, keep) ==
    [sales EXCEPT !.status = StatusFor(seen, quantity, w, keep)]
Synced(seen, quantity, w, keep) ==
    LET next == StatusFor(seen, quantity, w, keep)
    IN IF seen.status = "cancelled" THEN sales
       ELSE [sales EXCEPT
              !.status = IF next # seen.status THEN next ELSE @,
              !.reason = IF quantity >= Ordered /\ ~keep /\ seen.reason THEN FALSE ELSE @]

-----------------------------------------------------------------------------
(* Creation of documents: the checks of the serializers, then the row.     *)
CreateDelivery(d, load) ==
    /\ delivery[d] = NoDelivery
    /\ sales.status \notin {"completed", "cancelled"}
    /\ Total(load.lines) <= Ordered - delivered
    /\ delivery' = [delivery EXCEPT ![d] = [status |-> "pending", load |-> load]]
    /\ UNCHANGED <<shelf, batch, delivered, sales, works, documents, req, stale, history>>

CreateOut(o, d) ==
    /\ out[o].status = "none"
    /\ delivery[d] # NoDelivery
    /\ out' = [out EXCEPT ![o] = [status |-> "draft", delivery |-> d]]
    /\ UNCHANGED <<shelf, batch, delivery, delivered, sales, works, intake, req, stale, history>>

CreateIn(i) ==
    /\ intake[i] = "none"
    /\ intake' = [intake EXCEPT ![i] = "draft"]
    /\ UNCHANGED <<shelf, batch, delivery, delivered, sales, works, out, req, stale, history>>

-----------------------------------------------------------------------------
(* Requests begin: the instance is loaded and its copy checked.            *)
DeliveryRequests == {"ship", "receive", "reject", "resolve"}
OutRequests == {"submit_out", "confirm_out"}
InRequests == {"submit_in", "confirm_in"}
SalesRequests == {"complete", "cancel", "sync", "work"}

Begin(u, op, key, status) ==
    /\ req[u] = Idle
    /\ begun < Requests
    /\ begun' = begun + 1
    /\ req' = [req EXCEPT ![u] = [Idle EXCEPT !.op = op, !.at = "loaded", !.key = key,
                 !.status = status,
                 !.sales = IF op \in OutRequests \cup InRequests THEN @ ELSE sales]]
    /\ UNCHANGED <<shelf, batch, delivery, delivered, sales, works, documents, stale, entered, adjusted>>

BeginDelivery(u, op, d) ==
    /\ CASE op = "ship" -> delivery[d].status = "pending"
         [] op \in {"receive", "reject"} -> delivery[d].status = "shipped"
         [] op = "resolve" -> delivery[d].status = "rejected"
    /\ Begin(u, op, d, delivery[d].status)

BeginOut(u, op, o) ==
    /\ CASE op = "submit_out" -> out[o].status = "draft"
         [] op = "confirm_out" -> /\ out[o].status = "submitted"
                                  /\ delivery[out[o].delivery].status = "pending"
    /\ Begin(u, op, o, out[o].status)

BeginIn(u, op, i) ==
    /\ CASE op = "submit_in" -> intake[i] = "draft"
         [] op = "confirm_in" -> intake[i] = "submitted"
    /\ Begin(u, op, i, intake[i])

BeginSales(u, op) ==
    /\ CASE op = "sync" -> works # "none" /\ sales.status \notin {"completed", "cancelled"}
         [] op = "work" -> TRUE
         [] op \in {"complete", "cancel"} -> sales.status \notin {"completed", "cancelled"}
    /\ Begin(u, op, None, sales.status)

(* Adjustments and PATCH of a batch load the row and save all of it.       *)
BeginAdjust(u, b) ==
    /\ req[u] = Idle
    /\ begun < Requests
    /\ begun' = begun + 1
    /\ batch[b].status # "absent"
    /\ req' = [req EXCEPT ![u] = [Idle EXCEPT !.op = "adjust", !.at = "loaded",
                 !.key = b, !.batches = [NoBatches EXCEPT ![b] = batch[b]]]]
    /\ UNCHANGED <<shelf, batch, delivery, delivered, sales, works, documents, stale, entered, adjusted>>

-----------------------------------------------------------------------------
(* Inside the transaction.                                                 *)
Subject(u) == IF req[u].op \in OutRequests THEN out[req[u].key].delivery ELSE req[u].key
Lines(u) == delivery[Subject(u)].load.lines

(* ship and reject read the batches, a stock-out the items with the sales  *)
(* item joined, a completion the delivered quantity: all without a lock.   *)
Look(u) ==
    /\ req[u].at = "loaded"
    /\ req[u].op \in {"ship", "reject", "confirm_out", "complete"}
    /\ req' = [req EXCEPT ![u].at = "looked",
                 ![u].batches = IF req[u].op \in {"ship", "reject"} THEN batch ELSE @,
                 ![u].item = IF req[u].op \in {"confirm_out", "complete"} THEN delivered ELSE @]
    /\ UNCHANGED <<shelf, batch, delivery, delivered, sales, works, documents, stale, history>>

Shipment(u) == TakeOldest(req[u].batches, Total(Lines(u)), Released)

(* The batches as ship and reject update them.                             *)
Planned(u) ==
    IF req[u].op = "ship" THEN Shipment(u).rows
    ELSE PutBack(req[u].batches, Subject(u), Total(Lines(u)))

Changed(rows, after) == {b \in Batches : after[b] # rows[b]}

Touched(u) ==
    IF req[u].op = "adjust" THEN {req[u].key} ELSE Changed(req[u].batches, req[u].rows)

Held == UNION {Touched(v) : v \in {w \in Users : req[w].at = "holding"}}

(* The batches are updated: the rows are locked from here to the commit.   *)
(* Then the sales item is read.                                            *)
Reach(u) ==
    /\ req[u].at = "looked"
    /\ \/ req[u].op = "ship" /\ Shipment(u).left = 0
       \/ req[u].op = "reject"
    /\ Changed(req[u].batches, Planned(u)) \cap Held = {}
    /\ req' = [req EXCEPT ![u].at = "holding", ![u].item = delivered,
                          ![u].rows = Planned(u)]
    /\ UNCHANGED <<shelf, batch, delivery, delivered, sales, works, documents, stale, history>>

-----------------------------------------------------------------------------
(* Commits.                                                                *)
Done(u) == req' = [req EXCEPT ![u] = Idle]

(* The kinds of rows of which the copies a request writes from, or has     *)
(* checked, are no longer the committed ones.  Two lines of a stock-out    *)
(* hold a copy of the sales item each, so the second is out of date.       *)
Outdated(u, kinds) ==
    {k \in kinds :
        CASE k = "batch" -> \E b \in Touched(u) : batch[b] # req[u].batches[b]
          [] k = "item" -> \/ delivered # req[u].item
                           \/ req[u].op = "confirm_out" /\ Len(Lines(u)) > 1
          [] k = "delivery" -> delivery[Subject(u)].status #
                 IF req[u].op = "confirm_out" THEN "pending" ELSE req[u].status
          [] k = "sales" -> sales # req[u].sales
          [] k = "document" -> req[u].status #
                 IF req[u].op \in OutRequests THEN out[req[u].key].status
                                              ELSE intake[req[u].key]}

Note(u, kinds) == stale' = stale \cup Outdated(u, kinds)

(* Adjustments are counted while the counting means something.             *)
Adjusted(change) ==
    adjusted' = IF stale' \cap {"batch", "delivery"} = {} THEN adjusted + change ELSE 0

SaveBatches(u) ==
    /\ batch' = [b \in Batches |-> IF b \in Touched(u) THEN req[u].rows[b] ELSE batch[b]]
    /\ shelf' = shelf \o SetToSeq({b \in Touched(u) : batch[b].status = "absent"})

Mark(d, status) == delivery' = [delivery EXCEPT ![d].status = status]

(* The stock-out ship creates is completed and never looked at again: it   *)
(* is left out.                                                            *)
Ship(u) ==
    /\ req[u].op = "ship" /\ req[u].at = "holding"
    /\ SaveBatches(u)
    /\ delivered' = req[u].item + Total(Lines(u))
    /\ Mark(Subject(u), "shipped")
    /\ sales' = Synced(req[u].sales, delivered', works, FALSE)
    /\ Note(u, {"batch", "item", "delivery", "sales"})
    /\ Adjusted(0)
    /\ Done(u)
    /\ UNCHANGED <<works, documents, entered, begun>>

ReturnedFaulty(u) == req[u].item
ReturnedBelow(u) == req[u].item - Total(Lines(u))
Returned(u) == Max({0, req[u].item - Total(Lines(u))})

Reject(u) ==
    /\ req[u].op = "reject" /\ req[u].at = "holding"
    /\ SaveBatches(u)
    /\ delivered' = Returned(u)
    /\ Mark(Subject(u), "rejected")
    /\ sales' = Synced(req[u].sales, delivered', works, FALSE)
    /\ Note(u, {"batch", "item", "delivery", "sales"})
    /\ Adjusted(0)
    /\ Done(u)
    /\ UNCHANGED <<works, documents, entered, begun>>

Receive(u) ==
    /\ req[u].op = "receive"
    /\ Mark(Subject(u), "received")
    /\ Note(u, {"delivery"})
    /\ Adjusted(0)
    /\ Done(u)
    /\ UNCHANGED <<shelf, batch, delivered, sales, works, documents, entered, begun>>

(* Confirming a stock-out locks the batches it looks for and reads them    *)
(* then, of any quality.  Each line adds itself to the quantity that was   *)
(* read before the first of them: the last one stays.  The status of the   *)
(* order is not synchronised.                                              *)
ConfirmOut(u) ==
    LET d == Subject(u)
        pick == delivery[d].load.pick
        fit == IF pick = None THEN Batches ELSE {pick}
        taken == TakeOldest(batch, Total(Lines(u)), fit)
    IN /\ req[u].op = "confirm_out" /\ req[u].at = "looked"
       /\ \A b \in Held \cap fit : batch[b].status # "in_stock"
       /\ taken.left = 0
       /\ batch' = taken.rows
       /\ delivered' = req[u].item + Last(Lines(u))
       /\ out' = [out EXCEPT ![req[u].key].status = "completed"]
       /\ Mark(d, "shipped")
       /\ Note(u, {"item", "delivery", "document"})
       /\ Adjusted(0)
       /\ Done(u)
       /\ UNCHANGED <<shelf, sales, works, intake, entered, begun>>

(* With approval switched off a submitted document is confirmed at once,   *)
(* under the checks of the confirmation.                                   *)
SubmitOut(u) ==
    LET o == req[u].key
    IN /\ req[u].op = "submit_out"
       /\ out' = [out EXCEPT ![o].status = "submitted"]
       /\ Note(u, {"document"})
       /\ Adjusted(0)
       /\ \/ Done(u)
          \/ /\ delivery[out[o].delivery].status = "pending"
             /\ req' = [req EXCEPT ![u].op = "confirm_out", ![u].status = "submitted"]
       /\ UNCHANGED <<shelf, batch, delivery, delivered, sales, works, intake, entered, begun>>

SubmitIn(u) ==
    LET i == req[u].key
    IN /\ req[u].op = "submit_in"
       /\ intake' = [intake EXCEPT ![i] = "submitted"]
       /\ Note(u, {"document"})
       /\ Adjusted(0)
       /\ \/ Done(u)
          \/ req' = [req EXCEPT ![u].op = "confirm_in", ![u].status = "submitted"]
       /\ UNCHANGED <<shelf, batch, delivery, delivered, sales, works, out, entered, begun>>

(* The number of the batch is unique and get_or_create keeps what is there.*)
StockInFaulty(i) ==
    [batch EXCEPT ![i] = [status |-> "in_stock", quantity |-> @.quantity + Produced]]
StockIn(i) ==
    IF batch[i].status # "absent" THEN batch
    ELSE [batch EXCEPT ![i] = [status |-> "in_stock", quantity |-> Produced]]

ConfirmIn(u) ==
    LET i == req[u].key
    IN /\ req[u].op = "confirm_in"
       /\ intake' = [intake EXCEPT ![i] = "completed"]
       /\ batch' = StockIn(i)
       /\ shelf' = IF i \in ToSet(shelf) THEN shelf ELSE Append(shelf, i)
       /\ entered' = entered \cup {i}
       /\ Note(u, {"document"})
       /\ Adjusted(0)
       /\ Done(u)
       /\ UNCHANGED <<delivery, delivered, sales, works, out, begun>>

Adjust(u, quantity, status) ==
    LET b == req[u].key
    IN /\ req[u].op = "adjust"
       /\ b \notin Held
       /\ batch' = [batch EXCEPT ![b] = [status |-> status, quantity |-> quantity]]
       /\ Note(u, {"batch"})
       /\ Adjusted(quantity - req[u].batches[b].quantity)
       /\ Done(u)
       /\ UNCHANGED <<shelf, delivery, delivered, sales, works, documents, entered, begun>>

-----------------------------------------------------------------------------
(* What follows a rejection.  Registering it is not remembered in the      *)
(* status: it can be done again.                                           *)
Reship(u, d) ==
    /\ req[u].op = "resolve"
    /\ delivery[d] = NoDelivery
    /\ delivery' = [delivery EXCEPT ![d] =
           [status |-> "pending", load |-> [lines |-> Lines(u), pick |-> None]]]
    /\ Note(u, {"delivery"})
    /\ Adjusted(0)
    /\ Done(u)
    /\ UNCHANGED <<shelf, batch, delivered, sales, works, documents, entered, begun>>

(* The order is read anew; a failure to create the work order (nothing     *)
(* left to produce) is swallowed, which is the second alternative.         *)
Rework(u) ==
    /\ req[u].op = "resolve"
    /\ \/ /\ sales.status \notin {"completed", "cancelled"}
          /\ works' = "unfinished"
          /\ sales' = Synced(sales, delivered, works', TRUE)
       \/ UNCHANGED <<works, sales>>
    /\ Note(u, {"delivery"})
    /\ Adjusted(0)
    /\ Done(u)
    /\ UNCHANGED <<shelf, batch, delivery, delivered, documents, entered, begun>>

Terminate(u) ==
    /\ req[u].op = "resolve"
    /\ sales' = IF req[u].sales.status = "cancelled" THEN sales
                ELSE [sales EXCEPT !.status = "cancelled", !.reason = TRUE]
    /\ Note(u, {"delivery", "sales"})
    /\ Adjusted(0)
    /\ Done(u)
    /\ UNCHANGED <<shelf, batch, delivery, delivered, works, documents, entered, begun>>

-----------------------------------------------------------------------------
(* The order itself.                                                       *)
KeepsGoods ==
    /\ Adjusted(0)
    /\ UNCHANGED <<shelf, batch, delivery, delivered, documents, entered, begun>>

(* A save without update_fields writes the order as it was loaded.         *)
SaveLoaded(u, row) == sales' = row /\ Note(u, {"sales"})

(* An order that is not delivered in full is completed with a reason.      *)
Complete(u) ==
    /\ req[u].op = "complete" /\ req[u].at = "looked"
    /\ sales' = [sales EXCEPT !.status = "completed", !.reason = req[u].item < Ordered]
    /\ Note(u, {"sales", "item"})
    /\ Done(u)
    /\ KeepsGoods
    /\ UNCHANGED works

Cancel(u) ==
    /\ req[u].op = "cancel"
    /\ SaveLoaded(u, [req[u].sales EXCEPT !.status = "cancelled"])
    /\ Done(u)
    /\ KeepsGoods
    /\ UNCHANGED works

Synchronise(u) ==
    /\ req[u].op = "sync"
    /\ sales' = Synced(req[u].sales, delivered, works, TRUE)
    /\ Note(u, {"sales"})
    /\ Done(u)
    /\ KeepsGoods
    /\ UNCHANGED works

(* A work order of the sales order is created or changes its status; the   *)
(* signal synchronises the order the work order holds.                     *)
ChangeWorks(u, state) ==
    /\ req[u].op = "work"
    /\ \/ state = "unfinished" /\ req[u].sales.status \notin {"completed", "cancelled"}
       \/ works # "none"
    /\ works' = state
    /\ sales' = Synced(req[u].sales, delivered, state, TRUE)
    /\ Note(u, {"sales"})
    /\ Done(u)
    /\ KeepsGoods

(* A request is refused after all, or its worker dies.                     *)
Fail(u) ==
    /\ req[u] # Idle
    /\ Done(u)
    /\ UNCHANGED <<shelf, batch, delivery, delivered, sales, works, documents, stale, history>>

-----------------------------------------------------------------------------
Creating ==
    \/ \E d \in Deliveries, load \in Loads : CreateDelivery(d, load)
    \/ \E o \in Outs, d \in Deliveries : CreateOut(o, d)
    \/ \E i \in Ins : CreateIn(i)

Beginning ==
    \E u \in Users :
        \/ \E op \in DeliveryRequests, d \in Deliveries : BeginDelivery(u, op, d)
        \/ \E op \in OutRequests, o \in Outs : BeginOut(u, op, o)
        \/ \E op \in InRequests, i \in Ins : BeginIn(u, op, i)
        \/ \E op \in SalesRequests : BeginSales(u, op)
        \/ \E b \in Batches : BeginAdjust(u, b)

MovingGoods ==
    \E u \in Users :
        \/ Look(u) \/ Reach(u)
        \/ Ship(u) \/ Reject(u) \/ Receive(u)
        \/ SubmitOut(u) \/ ConfirmOut(u)
        \/ SubmitIn(u) \/ ConfirmIn(u)
        \/ \E quantity \in 0..Cap, status \in {"in_stock", "quality_check"} :
              Adjust(u, quantity, status)

Following ==
    \E u \in Users :
        \/ \E d \in Deliveries : Reship(u, d)
        \/ Rework(u) \/ Terminate(u)
        \/ Complete(u) \/ Cancel(u) \/ Synchronise(u)
        \/ \E state \in WorkStates \ {"none"} : ChangeWorks(u, state)
        \/ Fail(u)

Next == Creating \/ Beginning \/ MovingGoods \/ Following

Spec == Init /\ [][Next]_vars

-----------------------------------------------------------------------------
(* Types of all variables: no batch and no delivered quantity falls below  *)
(* zero, and the shelf lists every batch once.                             *)
TypeOK ==
    /\ IsInjective(shelf) /\ ToSet(shelf) = {b \in Batches : batch[b].status # "absent"}
    /\ batch \in [Batches -> BatchRow]
    /\ delivery \in [Deliveries -> DeliveryRow]
    /\ delivered \in Nat
    /\ sales \in SalesRow
    /\ works \in WorkStates
    /\ out \in [Outs -> OutRow]
    /\ intake \in [Ins -> InStatuses]
    /\ stale \subseteq Kinds

(* Goods are neither lost nor made: what is on the shelves and what was    *)
(* sent out is what was there, came in and was adjusted.  Of the requests  *)
(* above only those that save a batch or a delivery from an outdated copy  *)
(* can break this; outdated copies of documents, items and orders cannot.  *)
Shelved == SumFunctionOnSet([b \in Batches |-> batch[b].quantity], Batches)
Sent == SumFunctionOnSet([d \in Deliveries |-> Total(delivery[d].load.lines)], Gone)

GoodsConserved ==
    stale \cap {"batch", "delivery"} = {} =>
        Shelved + Sent = Len(FirstBatches) * InitialQuantity
                           + Produced * Cardinality(entered) + adjusted

(* The delivered quantity of the item is what its deliveries sent and the  *)
(* customer did not turn away, whichever way the goods left; of the        *)
(* requests above only those with an outdated copy of an item or delivery  *)
(* can break this.                                                         *)
DeliveredIsSent ==
    stale \cap {"item", "delivery"} = {} => delivered = Sent

(* A cancelled order stays cancelled, whatever its deliveries and work     *)
(* orders do, unless somebody writes an outdated copy of it.               *)
CancelledIsFinal ==
    [][sales.status = "cancelled" /\ "sales" \notin stale'
         => sales'.status = "cancelled"]_vars

(* First in, first out: shipping and stock-out take from a batch only if   *)
(* it may be taken from, and then leave nothing in any such batch that     *)
(* came to the shelf before it; shipping, as it has read the batches.      *)
TakesOldest(old, new, from) ==
    \A j \in DOMAIN shelf :
        new[shelf[j]].quantity < old[shelf[j]].quantity =>
            /\ shelf[j] \in from /\ old[shelf[j]].status = "in_stock"
            /\ \A i \in 1..(j - 1) :
                  shelf[i] \in from /\ old[shelf[i]].status = "in_stock"
                      => new[shelf[i]].quantity = 0

ShipsOldest(u) ==
    Reach(u) /\ req[u].op = "ship" => TakesOldest(req[u].batches, req'[u].rows, Released)

SendsOutOldest(u) ==
    LET pick == delivery[Subject(u)].load.pick
    IN ConfirmOut(u) => TakesOldest(batch, batch', IF pick = None THEN Batches ELSE {pick})

OldestFirst == [][\A u \in Users : ShipsOldest(u) /\ SendsOutOldest(u)]_vars
=============================================================================
