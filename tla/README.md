# Formal model of the work order backend

TLA+ models, TLC runs and TLAPS proofs for the Django / DRF backend of a
printing shop (`src/workorder`): work orders go through approval, production
processes and tasks; tasks book product stock; material is planned, reserved,
bought, inspected and stocked in; finished goods are delivered, sales orders
follow their deliveries, and payments are counted against orders.

`PROJECT.json` is the index: which definition models which lines (`map`), the
runs, one broken variant (`...Faulty`) of a definition per checked property
(`mutants`), the disagreements met between code and documentation
(`findings`), the hazards and the theorems.

## 1. The system

| Part | State it keeps | Operations | Where |
|---|---|---|---|
| Approval and production flow of a work order | `WorkOrder.approval_status`, `.status` | submit (with or without automatic approval), approve, reject, update status, edit by the form, complete when every process is | `services/work_order_flow_service.py`, `work_order_service.py`, `serializers/core.py` 1184-1834 |
| Processes | `WorkOrderProcess.status` | start, batch start, complete, force complete, `check_and_update_status`; add, delete, replace by the form | `models/core.py` 526-697, `services/work_order_process_service.py`, `views/work_order_processes.py` |
| Tasks | `WorkOrderTask`: status, quantity, quantity accounted for, operator, version | report, complete, cancel, split, add, delete, PATCH, bulk updates | `services/task_action_service.py`, `views/work_order_tasks/` |
| Task generation and synchronisation | (task rows) | fill gaps, remove and add by process | `services/task_generation.py`, `task_sync_service.py` |
| Assets and cutting hooks | confirmed flags, `WorkOrderMaterial.purchase_status` | confirm an artwork/die/plate, cut a material | `services/asset_service.py`, `material_task_trigger_service.py`, `signals.py` |
| Packaged goods | `Product.stock_quantity`, `ProductStockLog`, `ProductStock` batches | add, reduce, book on closing a packaging process | `models/products.py`, `services/stock_update_service.py` |
| Task assignment | `assigned_operator`, row locks | claim, assign, capacity limit | `services/task_assignment.py` |
| Material planning | `WorkOrderMaterial` plan columns, `Material.reserved_quantity` | calculate, confirm, invalidate, share out receipts, cut, delete | `services/work_order_material_service.py`, `views/work_order_materials.py` |
| Purchasing and receipts | `PurchaseOrder`, `PurchaseOrderItem`, `PurchaseReceiveRecord`, `Material.stock_quantity` | create, submit, approve, reject, place, cancel, receive, inspect, stock in, return | `services/purchase_order_*.py`, `approval_service.py`, `models/materials.py` |
| Sales order items and their work orders | `SalesOrderItem`, `WorkOrderProduct.sales_order_item` | create work orders from items (selected, by default, in batches), the form of a work order, edit and delete items | `services/work_order_flow_service.py` 185-413 and 785-973, `serializers/core.py`, `serializers/sales.py` |
| Deliveries, stock-out, stock-in, sales orders | `ProductStock`, `DeliveryOrder`, `StockOut`, `StockIn`, `SalesOrder.status`, delivered quantities | ship, receive, reject, resolve, confirm documents, adjust, complete, cancel, synchronise | `services/inventory_service.py`, `sales_order_service.py`, `sales_order_status_service.py` |
| Customer and supplier payments | `Payment`, `PaymentPlan`, `SupplierPayment`, paid amounts and status of the orders | create, change, delete, review, sum up, distribute over plans first in, first out | `services/payment_service.py`, `supplier_payment_service.py`, `views/finance.py` |
| Invoices, statements, costs | finance tables | guarded status changes, sums | `services/finance_service.py` |
| Dispatch, notifications, audit, statistics, permissions, import/export | - | read-only or write-only for the rest | various |

**How they interact.** Everything is synchronous calls inside a request, plus
Django signals: saving a process as completed fires `post_save` (stock and
batches), saving a material as cut fires an `on_commit` hook (cutting tasks,
then the process check), confirming an asset calls the same kind of hook. Every
handler that changes a task ends in `check_and_update_status`, which may close
the process and then the order. Shared state is the database only.

**What is hard.** There is no `ATOMIC_REQUESTS`: outside `@transaction.atomic`
each SQL statement commits on its own, at READ COMMITTED. Handlers load an
instance, check that copy and write it back later. Only claims, assignments,
planning and parts of receiving hold row locks. So (1) long legal sequences of
requests must keep several ledgers together (task quantity, accounted quantity,
stock journal; reservations and plans), (2) concurrent requests overwrite each
other from stale copies, and (3) a transaction's lock helps only against those
who ask for it. `PROJECT.json` lists each hazard at its line.

## 2. Modules

| Module | Models | Atomicity |
|---|---|---|
| `WorkOrderExecution` | one order from draft to completion: flow, processes, tasks, generation, assets, cutting hooks, stock and batches booked | one action per handler, hooks and signals included |
| `WorkOrderExecution_proofs` | its theorems | |
| `TaskWriters` | the writers of task rows: reports, bulk items, department changes, claims, assignments | one action per SQL statement; death of a worker between any two |
| `ClaimRegister` | the abstract register of owners which claims promise | |
| `TaskWriters_proofs` | its theorems and the refinement | |
| `OrderWriters` | the writers of one work order's row, its processes and tasks: submit, review, edit, synchronise, generate, start, report, confirm, complete, check, add and delete rows | one action per statement outside of a transaction, reads and commit inside of one |
| `OrderWriters_proofs` | its theorems | |
| `MaterialSupply` | plans, reservations, purchase orders and receipts of one material | locked services atomic; view requests load first and commit later |
| `ReservationLedger` | the abstract ledger of stock, reservation and holdings which planning and stocking in promise | |
| `MaterialSupply_proofs` | its theorems and the refinement | |
| `OrderAllocation` | what work orders take of the items of sales orders | reading and committing are two actions; the form of a work order commits row by row |
| `OrderAllocation_proofs` | its theorems | |
| `DeliveryStock` | deliveries, batches, stock-out and stock-in documents and the status of one sales order | load and check, read in the transaction, row locks, commit |
| `DeliveryStock_proofs` | its theorems | |
| `Payments` | payments, plans and paid amounts of a sales and a purchase order | saving, counting under the lock, applying |
| `Payments_proofs` | its theorems | |
| `SumTheorems` | lemmas about sums over finite sets, folds and greatest elements, which the last four cite | |
| `MC*` | the instances TLC checks | |

The modules meet where their components do: `WorkOrderExecution` treats a report
as one step and `TaskWriters` takes that step apart; `WorkOrderExecution` knows
of a plan only that it makes a cutting task needed and of cutting only the hook,
`MaterialSupply` has the ledgers behind both. `OrderWriters` takes the handlers of
`WorkOrderExecution` apart as far as they touch the order, its processes and the
question whether a task is open. `OrderAllocation` makes the work orders whose
beginning `DeliveryStock` knows as `works`; `Payments` and `DeliveryStock` share
the row of the sales order, and each leaves the other's columns alone, as the
code does with `update_fields`, except for the saves of a whole row, which are in
both.

### 2.1 WorkOrderExecution

A process is its sequence number (`Procs`), with the kind of task generated for
it (`Kind`: one per asset, per material, per product, or one in general). A task
is named by the key under which generation looks for it, a subtask by its parent
and its place. `task[t]` holds status, `quantity_completed`,
`stock_accounted_quantity` and `production_quantity`; `"absent"` is no row.
`ledger` is what `ProductStockLog` says was booked net for a task, `batch` what
went into `-PKG` batches, `needed` the keys generation yields at present.

Three variables are history for the properties: `deleted` are the tasks somebody
deleted; `outgrown` those a split left with a subtask larger than themselves;
`byHand` says that the form has set the status of an order that is neither approved
nor under review, until the next review.

Handlers follow the code's order of effects. A report computes the new row and
what it books (`UpdateQuantity`, `Moved`), rolls subtasks up into the parent
(`RolledUp`) and ends in `CheckProcess`, which may close the process
(`SaveCompleted` books what is `Due`) and then the order. `AllDone` is the
code's condition; its clause on cut materials compares a process code with a
list that never holds it and is vacuous, so it is left out. The bulk endpoints
do the same things to several tasks, and serially fail on their own version
check; they are in `TaskWriters`. `SplitTask` takes sizes as the request sends
them: the sum is compared first, a negative size lowers it, and the subtask before a
refused size stays (`task_action_service.py` 271-316, no transaction). `EditOrder` is
what the form of an order does to its own row: it writes whatever status it carries,
at creation too (`Init`), and may send an approved order back to review; what it does
to the processes is in `OrderWriters`. The generic PATCH endpoints write any status
and quantity, so they are a step of their own (`PatchSpec`); most theorems are
about `Spec` and say what holds as long as nobody uses them, two are about
`PatchSpec` and say what holds if somebody does.

Left out: taking an asset's confirmation back, reassigning a process, the form's
lists and the endpoints that add and delete processes and tasks (`OrderWriters`),
exceptions of `add_stock` which the signal swallows, `mark_urgent`, the other
fields.

### 2.2 TaskWriters and ClaimRegister

`row` is the committed row, `mine[r]` the instance a request has loaded, `pc[r]`
where it stands. `WorkOrderTask.save` is two statements: `UPDATE ... version =
version + 1 WHERE version = v` (`Bump`), a second look when nothing was hit
(`Recheck`), then the write of the fields (`Write`) - whose row may have changed
in between. A report then writes the product's stock from the instance loaded
with the task (`Book`, `Unbook`) and saves again. Claims and assignments lock
the row, check and commit in one transaction (`Lock`, `Commit`); until then
nobody sees their write. A bulk item raises the version of its instance itself
before saving. The status is derived: a task is in progress while
`0 < qty < Target`. A claim of a task that is one's own already is answered with
success and writes nothing (`Reaffirm`, `task_assignment.py` 572-585), provided it
passes the checks of capacity and status before (`Permitted`). `FOR KEY SHARE` locks
of foreign keys are ignored.

`ClaimRegister` is what claiming promises: an owner per task, a claim granted only
for a task that has no owner or has the claimant, in one step. `TaskWriters`
implements it with `owner` the column and `granted` the requests answered with
success, as long as there are only claims and assignments. With the other writers
around, `ClaimsKeepApart` is what is left of it: claims of one task by two operators
do not both succeed before a writer without a lock has touched that task (`Quiet`),
unless a supervisor has assigned it to one of the two. `TWClaims` has no such
writers, the theorem has any number of them.

### 2.3 OrderWriters

One work order. `order` is its row (production and approval status), `process`
the status of each process, `"absent"` where there is none, `edition` which of the
`rows` made so far it has, or had last; `made[t]` and `open[t]` how many task rows
there are for what generation looks for and how many of them are not completed: two
generations at once make two rows for one `t`. `req[u]` is the request of a user:
where it stands, the order and the editions it has loaded, the tasks it has listed.

Submission and review run in a transaction with a copy of the order that was
read at its beginning (`work_order_flow_service.py` 449-690); the tasks appear
with the approval (`Missing`, `Approve`). A report, a completion and a start
commit every statement: the task, then the question whether all tasks are done
(`Judge`), then the process (`Close`), then the count of other processes
(`Count`), then the order as it was loaded (`Finish`). Saving a process that was
deleted meanwhile inserts it again, unless its place is taken (`Save`). A confirmed
asset does the same in one transaction and holds the rows it has written
(`HoldsTask`, `HoldsProcess`).

An edit saves the order, and when lists are sent it deletes the pending processes
with their tasks and makes those listed again without tasks (`EditLists`,
`serializers/core.py` 1742-1834): the list may be shorter, and nothing is checked
afterwards. A sync takes away the tasks of the processes it is told to drop and
generates what is missing in the others, but never touches a process
(`Synchronise`). The endpoints of the rows are one statement each (`Rows`):
processes and tasks are added and deleted without a look at anything else.

Two variables are history. `removed` are the tasks that were taken away, or belong
to a process made anew, since they were last generated. `stale` has the kinds of
rows of which some request has committed an outdated copy (`"order"`, `"process"`,
`"tasks"`), and three other events: a worker died half way (`"death"`), a finished
order was reviewed again (`"review"`), an edit or a deletion took out the rows that
kept a process or the order open (`"struck"`). Properties name what they depend on, so
each of them says both that nothing else can break it and what can.

Left out: cancelled tasks, quantities, and whatever sets a status by hand (PATCH of
tasks and processes, an edit or a new row that carries one), which are in
`WorkOrderExecution`; the version column (in `TaskWriters`); a task deleted between
the statements of one report; subtasks; changes of what generation wants.

### 2.4 MaterialSupply

One purchased material. `plan[w]` is the planning part of a `WorkOrderMaterial`,
`queue` the confirmed plans in the order of `plan_confirmed_at`; `order[o]` a
purchase order with its one item; `record[k]` a receive record; `seen[u]` what
the request of user `u` has loaded and will write back. Planning
(`CalculatePlan`, which is `resolve_specification` as well, `ConfirmPlan`,
`InvalidatePlan`), creation of orders and the stock-in transaction hold the
locks they need and are atomic. Everything else is two actions: `LoadOrder`,
`LoadForReceipt` and `LoadRecord` carry the checks of the views, and the
committing actions write what the code writes: approvals the whole order row
with the status that was loaded, inspection and return the whole record,
`StockIn` the whole record and the received quantity computed from the loaded
item. `ShareOut` folds `Serve` over the plans in the order `allocate_received_inventory`
serves them (`Sequence`: the plan the goods were bought for first). Users are
buyers, who submit, place and cancel, reviewers and keepers of the store: the
endpoints of each group write different rows.

`outdated` is history: the orders whose status an approval or rejection has
written back although another request had changed it since. So is `stranded`: what
deleted plans have left reserved on the material.

The edit of a work order reaches its plans through `_sync_materials`
(`serializers/core.py` 1915-2086): `NewPlan`, `ResetPlan` (back to draft, which
gives back what is reserved) and `DeletePlan`, which the code refuses as long as
the row is under way (`Removable`). Two other ways to delete a plan ask nothing
(`DropPlan`): the endpoint of the rows (`views/work_order_materials.py` 24) and the
cascade of a deleted work order (`views/work_order_mixins.py` 89). Neither touches the
material's figure, so that what the plan held is reserved for nobody. Items of
purchase orders lose the plan (`SET_NULL`), and a stock-in which has loaded the plan
before fails.

Left out: PATCH and POST of the rows by their own endpoint, DELETE of purchase orders,
items and receive records, PATCH of a material's stock, materials that need no planning,
`quality_hold_quantity` (no service sets it), sheet arithmetic (the demand is
the input), deadlocks between cancelling and stocking in (PostgreSQL aborts one
of the two, which is `Fail`). The stock is never consumed: cutting updates
planned items through a queryset that raises, the exception is swallowed
(`signals.py` 226-231).

`ReservationLedger` is what all of it promises the plans, with `held` what each
plan has reserved: a plan that holds nothing may take free stock (`Take`), gives
back all it holds or nothing (`GiveBack`), and arriving goods (`Arrive`) are
added to what plans hold, never more than arrived; the material's own figure
follows in the same step. A plan may abandon what it holds (`Abandon`), which then
stays reserved for nobody: this is the promise as the code keeps it, since it deletes
confirmed plans. Every other step of `MaterialSupply` leaves the ledger as it is,
edits and guarded deletions of plans included.

### 2.5 OrderAllocation

`item[i]` is a slot for an item of a sales order (its order and quantity),
`work[w]` a slot for a work order: the sales order it belongs to and how much of
each item it was made for. `Remaining` is `get_remaining_quantities` and its two
twins: the item's quantity less what other work orders have taken, and less what
the request has written itself. Requests read (`PlanSelected`, `PlanDefault`,
`BeginForm`) and commit later (`CommitDrafts`, `CommitEdit`; `CreateWork` and then
`CreateRow` for the form, which has no transaction). A batch goes on with further
orders before it commits. `SetRow` is the endpoint of rows, which compares
nothing. An edit of a sales order asks for work orders (`MayReplace`), deletes the
items (`Replace`) and adds them again one by one (`AddItem`); the foreign key of a
row made for a deleted item is set to null (`CutOff`).

`loose` is history: items allocated on an outdated reading, or whose quantity or
rows were changed without a comparison. `raced`: orders to which a work order was
attached while somebody was about to replace their items.

Left out: the status of sales orders, deliveries and the customer as conditions
of creation (the request may be refused, `Fail`), PATCH of an item's product,
deletion of sales orders, two rows of one work order for the same item, order
numbers, the processes and materials generated with a work order.

### 2.6 DeliveryStock

One sales order with one item. `shelf` is the order of the batches, `batch[b]`
status and quantity, `delivery[d]` status and lines, `delivered` the item's
delivered quantity, `sales` the status of the order and whether it has a reason
for completion, `works` the state of its work orders, `out` and `intake` the
documents. `Begin...` loads a row and checks the copy, `Look` reads inside the
transaction, `Reach` waits for the row locks of the first `UPDATE` and reads the
item, the rest commit. `ship` and `reject` read the batches before they lock
them, a stock-out locks them as it reads (`ConfirmOut`). `TakeOldest`, which folds
`Take` over the shelf, is the deduction first in, first out, `PutBack` the return
of rejected goods, `StatusFor` and `Synced` are `sync_status`. A request keeps the
batches it has read (`batches`) and those it has updated from them (`rows`); the
commit writes the rows in which the two differ (`Touched`), nothing else.

`stale` is history as in `OrderWriters`; `entered` are the documents booked in,
`adjusted` the net change of adjustments while counting them means anything.

Left out: PATCH of a delivery or of an item (`delivered_quantity` is writable), DELETE
of delivery orders, their items and stock documents, POST, PATCH and DELETE of product
stocks (the view sets of `views/inventory.py` 110, 253, 345, 442, 462 are full ones),
all of which move goods or figures without the other side; the properties are about
orders and batches none of this has happened to. `Synchronise` reads the present
delivered quantity, where the view may use items prefetched with the order. Also
`reserved_quantity` (no service sets it), the stock-out row `ship` creates, the
approval of documents other than at once, the purchase order a stock-in may
name (a refusal, which is `Fail`).

### 2.7 Payments

`book` has the two orders: what is paid, the total, the status, whether there is
a date of payment; `payments` the payments, `plans` the plans by date. A payment
is saved in a statement of its own (`Create`, `Patch`, `Approve`); then `Count`
locks the order and sums up, `Apply` writes the order and fills the plans
(`Filled`). Whoever saves the whole row of an order, a plan or a payment writes
it as loaded (`SaveBook`, `SetPaid`, `SavePlan`, `Patch`). A deletion is not summed
up: see section 6.

Summing up starts from scratch, so it repairs what went wrong before.
`disturbed[b]` counts what happened to an order that nobody is going to sum up,
`healed[b]` what the last summing up had seen of it; the properties speak of an
order where the two are equal and nobody is about to sum up (`Settled`).

Left out: moving a payment to another order, approval switched off (a submission
is then an approval), plans with the same date, amounts that are not applied.

## 3. Runs

| Run | Question | Instance |
|---|---|---|
| `WOPack` | Do quantities, accounts, stock and subtasks stay together under every sequence of requests? Is a finished process always closed? | one packaging process, one task of two units which may be split in two, the sizes asked for -1, 1 and 3; reports of -1 and +1; deletion of one subtask |
| `WOFlow` | Production only after approval or by the form; chained processes in order; plate, cutting and report completions close the process | plate making, then cutting with a planned and an unplanned material; a form that writes any status |
| `WOPatch` | With PATCH of tasks and processes: does a correction downwards still find its stock? | one packaging task; quantities 0, 1, 3; bookings up to `StockBound` = 3 |
| `TWReports` | Do two reports, a bulk item and a department change, statement by statement and with deaths, keep the row in range and the stock non-negative? | one task of five units, increments 4 and 1 |
| `TWClaims` | Do claims and assignments implement the register, do two operators never both claim a task, and does every request end? | a claim repeated, one by another operator, an assignment of the same task, a claim of another; capacity one |
| `ORRows` | Does an approved order have its tasks, does whoever finishes last close process and order, does the approval move along its table? | two processes in a chain, three tasks, two users, any list in an edit, any selection in a sync, rows added and deleted, `Requests` = 5 |
| `MSStock` | Do reservations add up, stay within the stock and cover the plans, does a live order leave none of its plans pending, are receipts shared out in turn, and does all of it implement the ledger? | two plans of two, stock one, a purchase order of one or two, two receipts with any part of them good, plans deleted at any time, a buyer and a user who reviews and keeps the store |
| `OARows` | Do work orders never take more of an item than was ordered, and keep the items they were made for? | two sales orders, two item slots of one product, two work orders, two users, `Requests` = 3 |
| `DSStock` | Are goods neither lost nor made, is the delivered quantity what was sent, does a cancelled order stay cancelled, do goods leave oldest batch first? | two deliveries of one line or two, a stock-out, a stock-in, two batches of which one is released, two users, `Requests` = 4 |
| `PYBook` | Does an order show the sum of its payments, and are its plans filled in the order of their dates? | two payments of a customer and one to a supplier, two plans of 1 and 2, orders of 2, `Totals` 1 and 2, amounts -1, 0, 1, 3, two users, `Requests` = 4 |
| `WODoubleBooking`, `TWClaimLost` | Two documented promises the code does not keep, see section 6 | the smallest instances that show it |

**Bounds.** Named in the modules: `SplitSizes`, `EditedTo`, `Increments`, `Deletable`
(each identity at most once), one two-way split per task, `StockBound` (only
where PATCH would book for ever), `Demands`, `Quantities`, one item per order, `Requests` (how many requests there are in
all), `Loads`, `Cap`, `Stocks`, `Amounts`, `Totals`. A user has one request at a
time, so `Requests` is what lets a third or fifth one follow; the shortest way
into each of the states which `stale`, `loose` and `disturbed` stand for takes two
or three, creation of documents in `DeliveryStock` counting nothing.
Quantities up to two distinguish nothing, a part, all and too much, which is all
the guards compare; a split adds what is too much alone, and a negative size. One
purchase order, with two receipts of it, is enough in
`MSStock` for every promise to be made, cancelled and overtaken, as plans may be
invalidated and confirmed again; what several of them add up to is the theorems'
part; reviewer and keeper are one user there, so that each overlaps with the buyer, and with
one another only in the theorems. Two writers are enough for every
lost update, and three claims of a task let a refused and a repeated one follow a
granted one. Symmetry is used in `MSStock`,
`ORRows`, `OARows`, `DSStock` and `PYBook`, whose properties are invariants,
properties of single steps and one refinement without fairness, none of which a
permutation of the names changes.

**Deadlock** is not checked: a completed order, a set of answered requests or a
table without free records is the end of an instance, not an error.

**Fairness.** Only `TWClaims` needs it: `WF_vars(Advance(r))`, the server goes on
with a request it has taken and PostgreSQL grants a lock that is free. Dying is
not fair. `EveryRequestEnds` holds because a dead worker's transaction is rolled
back and its lock released; the broken variant which keeps the lock violates it.
All other properties are safety.

## 4. Proofs

`WorkOrderExecution_proofs` (for all processes, tasks, chains and quantities):

* `Inductive`: `IInv` = types, `GoodTable(task)` (each row on its own: quantity
  within target except for cutting and `outgrown` parents, a subtask only under its
  parent, an absent row is zero; parts within the parent, but for a split refused
  half way that made too large a part) and `GoodBooks` (the stock booked is what
  the task accounts for, unless deleted). None of the properties is inductive
  alone: closing a process books `qty - accounted`, which is a stock entry only
  if `accounted` is the ledger's; a roll-up is within the target only because the
  parts of the split are. Nothing is assumed of the sizes a split asks for: it is the
  check of each size that makes a negative one harmless, except for the part created
  before it, which is what `outgrown` records. The invariant is stated for *tables*, since handlers
  build a table (report, then parent) and pass it to the check that may close the
  process; lemmas say what each stage preserves, one lemma per handler combines
  them.
* `TypeCorrect`, `NoOverproduction`, `BooksAgree`, `SplitsFit` follow from it.
* `ChainHolds` has its own small invariant over statuses. `ProductionIsApproved` is
  inductive by itself: whoever takes the approval back takes the order out of
  production, and the form, which does not, is remembered in `byHand`.
* `FinishedIsClosed`, an action property: every handler ends in the check, or
  changes only rows that are not completed. For asset confirmation it needs
  `PlateInv` (a completed plate task has its asset confirmed or its process
  closed).
* `BookedWasReported` needs to know which tasks may book at all: `CoveredTable`
  says that tasks other than packaging ones have booked nothing, and that a
  packaging task without subtasks, present or deleted, has booked no more than it
  reports. A parent is let off as soon as it has a subtask, and deletion remembers
  the subtask, so nothing has to be said about sums. It assumes `PackedInUnits`
  (no product line orders zero pieces), see section 6.
* `LedgerCovers` and `CorrectionsFindGoods` are about `PatchSpec`. PATCH breaks
  almost all of `IInv` - rows then exceed their target, report less than they
  account for, or less than nothing - but it does not write what a row accounts
  for. A booking moves that and the ledger by the same amount, and whatever else
  changes it (deletion, a new row) only lowers it. `PatchInv` is what remains:
  types, a ledger that covers what rows account for (`Covering`), needed keys that
  exist. It assumes that PATCH writes integers (`PatchAssumption`).

`OrderWriters_proofs` (any number of users, processes and tasks, any chain):

* `TypeCorrect` with `TInv`: a confirmation has counted its task as done before it
  commits, so that a task never has fewer than no open rows rests on the row
  locks (`Locks`: who holds a task is alone, and the task is open).
* `ApprovalRuled`, an action property, with `AInv`: a review was admitted for a
  submitted order and holds a copy that says so; then either the copy is current
  or the write is noted as outdated.
* `ApprovedOrdersHaveTasks` with `GInv`: once no task is missing but those in
  `removed` this stays so, since whatever takes a task away puts it there; the tasks of
  processes that do not exist are all in it. Whoever has a copy that says approved
  loaded it when this was so already; the list of missing tasks an approval works off
  has all others that are missing.
* `NothingDoneStandsOpen` with `LInv`: as long as nothing is marked, a process whose
  tasks are done but which is not closed is *owed* by a report between its write and
  its check, or by a forced completion, and an order whose processes are closed by a
  request that counts or finishes. `StepAnswers` reduces the step of a request to what
  that request owes; each handler either pays, hands the debt on to its next place, or
  leaves a mark. Edits, syncs and the endpoints of rows (`ReplaceEases`, `RowsAnswers`)
  may only take debts away or leave one marked. Confirmations owe nothing: what they
  miss shows when they commit (`Missed`). An order without processes is not finished
  (`Closed`).
* One request at a time (`SerialSpec`: a step is of a request while all others are
  idle), `AloneNothingIsOvertaken` shows that no outdated copy is ever written and
  `AloneApprovalFollowsRules` that the approval then follows its table without
  exception. `Knows` says what a request alone knows at each place: its copy is
  the row, what it listed as missing is missing, and its answers to "all done?" and
  "others open?" still hold. So the marks of outdated copies have no other cause than
  overlapping; `"death"`, `"review"` and `"struck"` need only one user.

`TaskWriters_proofs` (any number of requests, tasks, operators): `TypeCorrect`
(with `Lanes`: which requests reach which statements), `RangeHolds` (every
instance a report or bulk item is about to write is within the target),
`ClaimsImplementRegister` (assuming there are only claims and assignments; the
inductive `Held` says that who is at the locked step holds the lock and has read
the committed row; a repeated claim is a grant that changes no owner). `QuietClaimsExclude` holds among all writers: `ApartInv` says
of a quiet task that whoever holds its lock has read its present owner, and that
the owner, once a claim has succeeded, is the claimant or somebody it was assigned to. It shows that a writer without a
lock is what it takes to lose a claim, as `TWClaimLost` does. One request at a time
(`SerialSpec`), `AloneReportsAreCounted` adds up what concurrency may lose: stock
and journal agree, and unless a worker died half way every report that was answered
is counted once in its row, once in what the row accounts for, and once in the
stock, each as a sum over the reports (`Tally`, with the instance of a report under
way in `Reporting`). It also shows that a bulk item alone never gets to write: it
compares the version it has raised itself (section 6). It assumes finitely many
reports.

`SumTheorems`. Reservations, allocations, received payments and goods are sums
over rows, and what matters is how a sum changes when a row does (`SumChange`,
`SumTakeOut`, `SumBoth`). The library's induction theorems cannot be cited, so
each lemma takes the subsets for which it fails: if there is one, there is a
smallest one, and that one does not fail (`SubsetInduction`, from well-founded
induction). The function a fold is defined by is chosen, so it has to be shown to
exist (`SumsExist`, `FoldsExist`) before its steps can be used.

`MaterialSupply_proofs` (any number of plans, orders, receipts and users):
`IInv` = `Reserving` (a plan holds no more than it needs, an unconfirmed one
nothing, the reservation is the sum of what is held and what is `stranded`, and within
the stock),
`Queueing` (the queue lists the confirmed plans once each), `Ordering` and
`Requesting` (whoever is about to write a row has loaded one). That unconfirmed
plans hold nothing is what lets a confirmation overwrite the row. Sharing out is
a fold; `SharesOut` shows that it stays in `Shared`, the tables which hold more by
exactly what was handed out. From it: `Typed`, `LedgersAgree`,
`StockCoversReservations`, `PlansAreCovered`, `PlacedIsShown`.

The action property `ReceiptsServeInTurn` needs a second invariant of the same fold
(`InTurn`): of the plans served so far, those before a hungry one have all they were
due, and nothing has gone to a plan whose turn has not come; `LineIsOrdered` relates
the sequence to the order of confirmation. `SupplyImplementsLedger` goes action by
action: `LedgerAlone` for those that leave holdings, reservation and stock as they
are, `ConfirmTakes`, `InvalidateGivesBack`, `StockInArrives` for the others. The edit's
deletion leaves the ledger alone because only a plan which holds nothing is removed by
it; the unguarded ones abandon what is held. `SeparatePlacedIsShown` drops
the exception of `PlacedIsShown` where no two requests are under way on one order:
then a review finds the status it has loaded (`Current`).

`OrderAllocation_proofs` (any orders, items, work orders): besides types, requests
are `Ready`, what they have drafted fits what they have read (`Promised`), and a
replacement of items goes on only without work orders or as one of `raced`
(`Covered`). A commit either finds what it read or notes the item in `loose`.
From it: `Typed`, `NeverOverAllocated`, and the action property `SourcesAreKept`.
If no request begins while another is under way (`OneByOne`), what each has read is
what it will find (`Fresh`). Then `loose` grows only by `Unchecked` changes and
`raced` only by deleting an item by itself, and `OneByOneFits` and
`OneByOneKeepsSources` hold without the other exceptions.

`Payments_proofs` (any payments, plans, amounts): `Part(b)` says that the lock of an
order has one holder, that whoever has counted holds the sum of the payments
unless somebody is going to count again or has disturbed the order, and that a
settled order shows the sum. Every step is quiet (nothing is counted differently),
disturbing, or enters what will be summed up; three lemmas treat those kinds once.
What is left for a plan after the earlier ones is computed by the code one plan at
a time; `LeftIs` gives its closed form, amount received less the amounts of earlier
plans. From it: `Typed`, `PaidIsShown`, `FirstInFirstOut`.

What overlapping requests add to the disturbances is told apart from what a single
request does by `AlonePaymentsAreShown`. With one request under way at a time, an
order about to be saved is as it was loaded and a payment about to be rejected has
not been approved meanwhile (`Fresh`), so neither disturbs. The disturbances that
remain are those of `Uncounted`, after which the code never sums up: a counted
payment deleted, a supplier's payment changed after its approval, the amount set
by hand, a new total, edited plans, and a summing up that failed. In a behaviour
without these, an order nobody is summing up shows its payments and its plans
are filled in order.

`DeliveryStock_proofs` (any deliveries and lines, documents, batches, users):
`IInv` = `Shelving` (the shelf lists the existing batches once, an absent batch has
nothing, documents booked in are the batches that came in), `Documented`,
`Requesting` and `Balance` (the two properties about goods). The deduction is a
fold that stays in `Taken`: what was taken and what could not be had make up what
was wanted, and only batches in stock have changed. A request that holds rows has
`Updated` them by just the lines of its delivery, from the batches it has read; if
these are still the committed ones, the commit moves that much (`Saved`), else
`Noted` says so. From it: `Typed`, `NothingLostOrMade`, `WhatWasSentIsDelivered` and
the action property `CancelledStays`. `OldestGoesFirst` adds that the fold leaves a
batch untouched as long as one before it that may be used has anything left
(`TakenOldest`); for a shipment this is about the batches it has read.

With one request under way at a time (`OneAtATime`, a condition on the states passed
through), a request knows that what it has read is still there (`Knows`) and every
commit is current, except that the second line of a stock-out is added to an item
read before the first (`Fresh`). So `AloneGoodsAreConserved` and `AloneCancelledStays`
hold without exception, the delivered quantity if deliveries have one line.

Assumptions are the `ASSUME`s of the modules and, for one theorem each,
`PackedInUnits` (`BookedWasReported`), requests that only claim or assign
(`ClaimsImplementRegister`) and finitely many reports (`AloneReportsAreCounted`).
The theorems whose names begin with `Alone`, `Separate` and `OneByOne` are about
behaviours in which requests do not overlap; they say which of the exceptions in the
others have overlapping as their only cause. Every invariant and action property of the passing
runs is stated by a theorem. Only model-checked: the two violations, and
`EveryRequestEnds`, as liveness under fairness is out of the provers' reach.

## 5. Plan

Left: dispatch of new tasks to departments and operators as a pure algorithm
(`models/core.py` 699-833); invoices and statements with the payments. To be
proved: an abstract account of goods which `DeliveryStock` implements.

## 6. Disagreements between code and documentation

With a run:

* `WODoubleBooking` - packed units booked by subtasks are booked again through
  the parent's roll-up when the process closes.
* `TWClaimLost` - a report which loaded the row before a claim erases the claim's
  operator; a second operator then claims too.

Seen while modelling, without a run of their own. Tasks and work orders:

* Two reports can both be accepted and one be overwritten: another writer fits
  between the two statements of `save` (`models/core.py` 1487).
* `handle_approval_passed` and `check_and_update_status` move an order out of
  completed or cancelled, which `ALLOWED_STATUS_TRANSITIONS` calls final.
* Starting a process does not look at the order's approval, and saves the row as
  loaded: a process completed meanwhile is running again. A completion that was
  loaded before a review overwrites the review in the same way.
* `split_task` compares the sum of the sizes with the task and refuses a size that is
  not positive only while it creates the subtasks: parts of 3 and -1 of a task of 2 are
  answered with an error and leave a subtask of 3, whose roll-up takes the parent over
  its target (`services/task_action_service.py` 271-316).
* The form of an order writes any status, at creation too (`serializers/core.py` 1234,
  1732-1741): an order gets into production without an approval, and a completed or
  cancelled one out of its final state, past `ALLOWED_STATUS_TRANSITIONS`.
* A confirmation and a report that complete the last two tasks at once each see
  the other's task open: the process stays unclosed.
* Approval and batch start at once generate tasks twice, despite 避免重复生成
  (`services/task_generation.py` 98).
* The edit of an approved order by a user who may not change protected fields, but
  sends the lists of processes it has, deletes the pending processes with their
  tasks and makes them again without; the order stays approved. Deleting a task and a
  sync that overlaps with the approval leave an approved order without tasks too, and
  a process that is added to an approved order has none. The comparison
  which should notice changed products compares ids of rows with ids of products
  (`serializers/core.py` 1652).
* An edit with a shorter list of processes, or deleting the open processes, leaves an
  order standing open whose remaining processes are all completed; deleting its last
  open task does the same to a process. Nothing asks for completion afterwards.
* A product line that does not come from a sales order may order zero pieces: only
  lines of sales orders are checked (`serializers/core.py` 1399), and generation
  copies the quantity (`services/task_generation.py` 334). Any quantity can then be
  reported on its packaging task and booked, and completing it sets the quantity
  back to zero: what was booked exceeds what is reported.
* Cutting writes the whole usage of the material into each open subtask.
* `ensure_material_cut_ready` finds no material for planned tasks and passes.
* Completing, reporting and confirming assets revive a cancelled task.
* `perform_update` saves before it validates, outside a transaction.
* Bulk items compare the version with one only another writer can have produced.
* The capacity limit counts tasks in progress only when a task is claimed.
* The work order form does not check the status of the sales order.

Material and purchasing:

* Goods bought for one plan count as free, are promised to another, and go to
  the first when they arrive (`services/work_order_material_service.py` 449).
* Deleting a confirmed plan by its own endpoint, or with its work order, leaves its
  reservation on the material for good, although `_sync_materials` refuses to delete
  such a plan (`serializers/core.py` 1946-1964).
* Two stock-ins of one record both pass the check (`views/materials.py` 645).
* A review saves the purchase order as it was loaded, its status included: an order
  placed or cancelled meanwhile is pending again (`services/approval_service.py`
  88-114).
* Cancelling an ordered purchase order keeps the promises made on it, and
  stocking in its receipts makes the cancelled order received.
* Goods received and found bad still count as received: no replacement fits.

Sales orders, deliveries, stock:

* Rows of a merged work order, which belongs to one sales order, lose the item of
  another one when that is edited, despite 避免删除重建导致关联记录断开
  (`serializers/sales.py` 482): the guard asks for the order's own work orders.
* Planning by default counts the same stock for every item and every order of a
  batch, although it says 根据库存缺口计算.
* Two items of one product in an order violate the uniqueness of rows, so that a
  work order can never be made from all of them.
* Quantities of cancelled work orders stay allocated; the rework of an order that
  is allocated in full creates no work order, and the error is swallowed.
* Posting an item through its endpoint always fails: its order is read-only.
* Units booked by reports never get a `-PKG` batch, so deliveries find none.
* `Product.add_stock` writes a stock computed from a stale copy.
* A stock-out of two lines adds the second to the delivered quantity read before
  the first (against `models/sales.py` 253), ignores the quality of batches and
  does not synchronise the sales order; two stock-outs of one delivery both pass
  无法再次扣减库存 (`services/inventory_service.py` 274).
* Pending deliveries are not counted when a new one is created: two of them may
  exceed what was ordered. A rejection can be resolved more than once.
* `StockIn.confirm` requires a purchase order with status `approved`, which no
  purchase order ever has (178-190).
* `SalesOrderService.approve` clears the reason for completion, and the
  synchronisation sets an approved order without work orders back to pending.

Payments:

* A deleted payment stays counted: the recomputation asks for row locks outside
  of a transaction, which PostgreSQL's backend refuses (`views/finance.py`
  502-509); the tests run on SQLite within a transaction
  (`tests/conftest.py` 14).
* Amounts set by `update_payment` are overwritten by the next payment;
  `update_totals` does not work the status out again.
* The amount of a customer's payment is not checked when it is changed; a change
  or deletion of an approved supplier's payment is not written back; a payment
  that is deleted while somebody changes it appears again.
* Approving and rejecting a supplier's payment at once counts a rejected one.
* Invoices are described as written back from payments; nothing does so.

## 7. Not modelled

Each module's section names what it leaves out of its component. Invoices,
statements and costs: guarded status changes of single records and sums.
Dispatch: planned (section 5); it changes a task's department and operator, which
`TaskWriters` lets any assignment do. Permissions: every handler may be called at
any time, which is more than the roles allow. Notifications, audit and task logs,
statistics, consistency reports, import, export and seeding change no state the
modelled parts read. Serializers validate inputs; the inputs enumerated here are
valid ones and the refusals of the services. The admin site can write any column
and is out of scope.
