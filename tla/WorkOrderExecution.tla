------------------------- MODULE WorkOrderExecution -------------------------
(***************************************************************************)
(* One printing work order (施工单) from draft to completion: its approval *)
(* status, its production status, the processes it runs through, the tasks *)
(* generated for each process, and the product stock that packaging tasks  *)
(* book.  One action per request handler; handlers of different requests   *)
(* are atomic here, the statements inside two concurrent task writers      *)
(* interleave in TaskWriters.                                            *)
(*                                                                         *)
(* A process is named by its sequence number within the order.  A task is  *)
(* named by the identity under which task generation looks for it (process *)
(* and artwork / die / material / product), a subtask by its parent and    *)
(* its place in the split.                                                 *)
(*                                                                         *)
(* A definition whose name contains Faulty is a broken variant of the one  *)
(* that follows it.  Nothing uses it; put in the place of the right one it *)
(* makes one of the properties fail.                                       *)
(***************************************************************************)
EXTENDS Integers

CONSTANTS
    Procs,        \* sequence numbers of the order's processes
    Kind,         \* what generation makes for a process: see Kinds
    Free,         \* processes that may start in parallel
    Chain,        \* processes that wait for their predecessor or are waited for
    Tasks,        \* identities of the generated (root) tasks
    ProcOf,       \* the process of a task
    Target,       \* production_quantity of a generated task
    Usage,        \* material_usage of a cutting task's material, parsed
    Planned,      \* cutting tasks that exist only under a confirmed plan
    Splittable,   \* tasks somebody may split (bound: one two-way split each)
    SplitSizes,   \* quantities offered for the two subtasks of a split
    EditedTo,     \* statuses the form of an order carries (bound)
    Increments,   \* quantities reported by one update_quantity call
    Deletable     \* tasks somebody may delete (bound: each at most once)

Kinds == {"plate", "cut", "pack", "general"}
Subs == Splittable \X {1, 2}
AllTasks == Tasks \cup Subs
Root(t) == IF t \in Tasks THEN t ELSE t[1]
ProcessOf(t) == ProcOf[Root(t)]
KindOf(t) == Kind[ProcessOf(t)]

ASSUME ProcessAssumption ==
    /\ Procs \subseteq Nat
    /\ Kind \in [Procs -> Kinds]
    /\ Free \subseteq Procs
    /\ Chain \subseteq Procs

ASSUME TaskAssumption ==
    /\ ProcOf \in [Tasks -> Procs]
    /\ Target \in [Tasks -> Nat]
    /\ Usage \in [Tasks -> Nat]
    /\ Splittable \subseteq Tasks
    /\ Tasks \cap Subs = {}
    /\ Planned \subseteq {t \in Tasks : Kind[ProcOf[t]] = "cut"}
    /\ SplitSizes \subseteq Int
    /\ Increments \subseteq Int
    /\ \A t \in Tasks : Kind[ProcOf[t]] = "plate" => Target[t] = 1

VARIABLES
    approval,     \* WorkOrder.approval_status
    woStatus,     \* WorkOrder.status
    procStatus,   \* WorkOrderProcess.status of each process
    task,         \* each WorkOrderTask row, "absent" when there is none
    confirmed,    \* plate tasks whose artwork, die or plate is confirmed
    cut,          \* cutting tasks whose WorkOrderMaterial is in status "cut"
    needed,       \* identities that task generation yields at present
    ledger,       \* ProductStockLog: net quantity booked for a task
    batch,        \* ProductStock "-PKG" batch quantity booked for a task
    deleted,      \* identities whose row somebody deleted (history)
    outgrown,     \* tasks which a split refused half way left with a subtask
                  \* larger than themselves (history)
    byHand        \* the form has set the status of an order that was neither
                  \* approved nor under review, and no review since (history)

vars == <<approval, woStatus, procStatus, task, confirmed, cut, needed,
          ledger, batch, deleted, outgrown, byHand>>

Approvals == {"draft", "submitted", "approved", "rejected"}
WorkOrderStatuses == {"pending", "in_progress", "paused", "completed", "cancelled"}
Production == {"in_progress", "paused"}
Reviewable == {"approved", "submitted"}
ProcessStatuses == {"pending", "in_progress", "completed"}
TaskStatuses == {"absent", "pending", "in_progress", "completed", "cancelled"}
Open == {"pending", "in_progress"}

ASSUME EditAssumption == EditedTo \subseteq WorkOrderStatuses

TaskRow == [status : TaskStatuses, qty : Nat, accounted : Nat, target : Nat]
Absent == [status |-> "absent", qty |-> 0, accounted |-> 0, target |-> 0]
Fresh(q) == [status |-> "pending", qty |-> 0, accounted |-> 0, target |-> q]

Exists(t) == task[t].status # "absent"
Kids(r) == IF r \in Splittable THEN {<<r, 1>>, <<r, 2>>} ELSE {}
Family(t) == {t} \cup Kids(t)
HasSubtasks(t) == \E u \in Kids(t) : Exists(u)
TasksOf(p, tk) == {t \in AllTasks : ProcessOf(t) = p /\ tk[t].status # "absent"}

Init ==
    /\ approval = "draft"
    /\ woStatus \in {"pending"} \cup EditedTo
    /\ procStatus = [p \in Procs |-> "pending"]
    /\ task = [t \in AllTasks |-> Absent]
    /\ confirmed \in SUBSET {t \in Tasks : KindOf(t) = "plate"}
    /\ cut = {}
    /\ needed = Tasks \ Planned
    /\ ledger = [t \in AllTasks |-> 0]
    /\ batch = [t \in AllTasks |-> 0]
    /\ deleted = {}
    /\ outgrown = {}
    /\ byHand = (woStatus # "pending")

-----------------------------------------------------------------------------
(* Rules shared by the handlers                                            *)

(* Every task of the process is completed in full, and every plate task's  *)
(* asset is confirmed.  The clause on cut material tests a list of codes   *)
(* that never holds the process code a cutting task belongs to.            *)
AllDone(p, tk, conf) ==
    /\ TasksOf(p, tk) # {}
    /\ \A t \in TasksOf(p, tk) :
         /\ tk[t].status = "completed"
         /\ tk[t].qty >= tk[t].target
         /\ KindOf(t) = "plate" => Root(t) \in conf

(* Books the whole quantity instead of the part not booked yet.            *)
DueFaulty(p, tk, t) ==
    IF /\ Kind[p] = "pack"
       /\ procStatus[p] # "completed"
       /\ t \in TasksOf(p, tk)
       /\ tk[t].status = "completed"
    THEN tk[t].qty
    ELSE 0

(* What closing a packaging process still has to book for a task.          *)
Due(p, tk, t) ==
    IF /\ Kind[p] = "pack"
       /\ procStatus[p] # "completed"
       /\ t \in TasksOf(p, tk)
       /\ tk[t].status = "completed"
       /\ tk[t].qty > tk[t].accounted
    THEN tk[t].qty - tk[t].accounted
    ELSE 0

(* Saving a process as completed: the post_save signal books packaged      *)
(* goods as stock and as a batch.                                          *)
SaveCompleted(p, tk, led) ==
    /\ procStatus' = [procStatus EXCEPT ![p] = "completed"]
    /\ task' = [t \in AllTasks |->
                  [tk[t] EXCEPT !.accounted = @ + Due(p, tk, t)]]
    /\ ledger' = [t \in AllTasks |-> led[t] + Due(p, tk, t)]
    /\ batch' = [t \in AllTasks |-> batch[t] + Due(p, tk, t)]

(* The order is completed with its last process, whatever its status was.  *)
CloseProcess(p, tk, led) ==
    /\ SaveCompleted(p, tk, led)
    /\ woStatus' = IF \A q \in Procs \ {p} : procStatus[q] = "completed"
                   THEN "completed" ELSE woStatus

(* WorkOrderProcess.check_and_update_status, run at the end of a handler   *)
(* that left the task table tk, the stock ledger led and the assets conf.  *)
CheckProcess(p, tk, led, conf) ==
    \/ AllDone(p, tk, conf) /\ CloseProcess(p, tk, led)
    \/ /\ ~AllDone(p, tk, conf)
       /\ task' = tk
       /\ ledger' = led
       /\ UNCHANGED <<procStatus, woStatus, batch>>

(* WorkOrderTask.update_from_subtasks after a change of subtask t.         *)
RolledUp(tk, t) ==
    IF t \in Tasks THEN tk
    ELSE LET r == t[1]
             finished == \A u \in Kids(r) : tk[u].status \in {"absent", "completed"}
         IN [tk EXCEPT
               ![r].qty = tk[<<r, 1>>].qty + tk[<<r, 2>>].qty,
               ![r].status = IF finished THEN "completed"
                             ELSE IF @ = "completed" THEN "in_progress" ELSE @]

(* Task generation fills the gaps: needed identities of P without a row.   *)
Generated(P) ==
    [t \in AllTasks |->
       IF t \in needed /\ ProcessOf(t) \in P /\ ~Exists(t)
       THEN Fresh(Target[t]) ELSE task[t]]

(* ensure_assets_confirmed and ensure_material_cut_ready.  A planned task  *)
(* holds the purchase specification and not the order's material, so the   *)
(* second check finds no material to ask about.                            *)
Ready(t) ==
    /\ KindOf(t) = "plate" => Root(t) \in confirmed
    /\ KindOf(t) = "cut" => Root(t) \in cut \cup Planned

(* Product.stock_quantity of the product the root task of t packs.         *)
Stock(t) == LET r == Root(t) IN
    IF r \in Splittable
    THEN ledger[r] + ledger[<<r, 1>>] + ledger[<<r, 2>>]
    ELSE ledger[r]

-----------------------------------------------------------------------------
(* Approval and production status of the order                             *)

OrderOnly == UNCHANGED <<procStatus, confirmed, cut, needed, ledger, batch, deleted,
                         outgrown>>

Submit ==
    /\ approval \in {"draft", "rejected", "approved"}
    /\ approval' = "submitted"
    /\ UNCHANGED <<woStatus, task, byHand>>
    /\ OrderOnly

Release ==
    /\ approval' = "approved"
    /\ woStatus' = "in_progress"
    /\ task' = Generated(Procs)
    /\ byHand' = FALSE
    /\ OrderOnly

Approve == approval = "submitted" /\ Release

(* auto_approve, or the approval module switched off: one transaction.     *)
SubmitAutoApproved == approval \in {"draft", "rejected", "approved"} /\ Release

(* Leaves the order in production.                                         *)
RejectFaulty ==
    /\ approval = "submitted"
    /\ approval' = "rejected"
    /\ byHand' = FALSE
    /\ UNCHANGED <<woStatus, task>>
    /\ OrderOnly

Reject ==
    /\ approval = "submitted"
    /\ approval' = "rejected"
    /\ woStatus' = "pending"
    /\ byHand' = FALSE
    /\ UNCHANGED task
    /\ OrderOnly

AllowedTransitions ==
    {<<"pending", "in_progress">>, <<"in_progress", "paused">>,
     <<"in_progress", "cancelled">>, <<"paused", "in_progress">>,
     <<"paused", "cancelled">>}

UpdateStatus(new) ==
    /\ <<woStatus, new>> \in AllowedTransitions
    /\ new = "in_progress" => approval = "approved"
    /\ woStatus' = new
    /\ UNCHANGED <<approval, task, byHand>>
    /\ OrderOnly

(* The form of the order carries a status, which is written whatever it is *)
(* (its lists are in OrderWriters).  A user who may change approved orders *)
(* sends the order back to review; any edit makes a rejected one a draft.  *)
EditOrder(new) ==
    /\ woStatus' = new
    /\ approval' \in IF approval = "approved" THEN Reviewable
                     ELSE IF approval = "rejected" THEN {"draft"} ELSE {approval}
    /\ byHand' = (byHand \/ (new # woStatus /\ approval' \notin Reviewable))
    /\ UNCHANGED task
    /\ OrderOnly

CheckCompletion ==
    /\ woStatus = "in_progress"
    /\ \E t \in AllTasks : Exists(t)
    /\ \A t \in AllTasks : task[t].status \in {"absent", "completed"}
    /\ woStatus' = "completed"
    /\ UNCHANGED <<approval, task, byHand>>
    /\ OrderOnly

-----------------------------------------------------------------------------
(* Processes                                                               *)

Precedes(q, p) ==
    /\ q \in Chain
    /\ q < p
    /\ \A r \in Chain : ~(q < r /\ r < p)

(* Forgets the predecessor.                                                *)
CanStartFaulty(p) == procStatus[p] = "pending"

CanStart(p) ==
    /\ procStatus[p] = "pending"
    /\ p \in Chain \ Free =>
         \A q \in Chain : Precedes(q, p) => procStatus[q] = "completed"

StartProcess(p) ==
    /\ CanStart(p)
    /\ procStatus' = [procStatus EXCEPT ![p] = "in_progress"]
    /\ UNCHANGED <<approval, woStatus, task, confirmed, cut, needed, ledger,
                   batch, deleted, outgrown, byHand>>

(* batch_start also generates the missing tasks of each process it starts. *)
BatchStart(p) ==
    /\ CanStart(p)
    /\ procStatus' = [procStatus EXCEPT ![p] = "in_progress"]
    /\ task' = Generated({p})
    /\ UNCHANGED <<approval, woStatus, confirmed, cut, needed, ledger, batch,
                   deleted, outgrown, byHand>>

(* All tasks completed (or none at all): no business check is repeated.    *)
CompleteProcess(p) ==
    /\ procStatus[p] = "in_progress"
    /\ \A t \in TasksOf(p, task) : task[t].status = "completed"
    /\ CloseProcess(p, task, ledger)
    /\ UNCHANGED <<approval, confirmed, cut, needed, deleted, outgrown, byHand>>

(* force_complete with a reason: every task left is completed, in full if  *)
(* nothing had been reported for it.                                       *)
ForceCompleteProcess(p) ==
    LET left == {t \in TasksOf(p, task) : task[t].status # "completed"}
        tk == [t \in AllTasks |->
                 IF t \in left
                 THEN [task[t] EXCEPT !.status = "completed",
                                      !.qty = IF @ = 0 THEN task[t].target ELSE @]
                 ELSE task[t]]
    IN /\ procStatus[p] = "in_progress"
       /\ left # {}
       /\ CloseProcess(p, tk, ledger)
       /\ UNCHANGED <<approval, confirmed, cut, needed, deleted, outgrown, byHand>>

-----------------------------------------------------------------------------
(* Tasks                                                                   *)

TaskOnly == UNCHANGED <<approval, confirmed, cut, needed, deleted, outgrown, byHand>>

StatusAfter(row, q) ==
    IF row.target > 0 /\ q >= row.target THEN "completed"
    ELSE IF row.status = "pending" THEN "in_progress"
    ELSE IF row.status = "completed" /\ q < row.target THEN "in_progress"
    ELSE row.status

(* Looks at the quantity before the update; lets it become negative.       *)
FitsFaulty(t, q) == q >= 0 /\ task[t].qty <= task[t].target
FitsFaultyBelow(t, q) == task[t].target > 0 => q <= task[t].target

Fits(t, q) ==
    /\ q >= 0
    /\ task[t].target > 0 => q <= task[t].target

(* Takes nothing back; adds nothing.                                       *)
MovedFaulty(t, owed) == IF owed < 0 THEN 0 ELSE owed
MovedFaultyUp(t, owed) == IF owed > 0 THEN 0 ELSE owed

(* The stock movement for owed units.  A reduction the stock cannot bear   *)
(* is logged and skipped.                                                  *)
Moved(t, owed) == IF owed < 0 /\ Stock(t) < -owed THEN 0 ELSE owed

(* The stock follows the reported quantity of a task that has a product,   *)
(* and the task is marked as accounted whether or not the stock moved.     *)
UpdateQuantity(t, increment) ==
    LET q == task[t].qty + increment
        owed == IF KindOf(t) = "pack" THEN q - task[t].accounted ELSE 0
        row == [task[t] EXCEPT !.qty = q, !.status = StatusAfter(task[t], q),
                               !.accounted = @ + owed]
    IN /\ Exists(t)
       /\ Ready(t)
       /\ Fits(t, q)
       /\ CheckProcess(ProcessOf(t), RolledUp([task EXCEPT ![t] = row], t),
                       [ledger EXCEPT ![t] = @ + Moved(t, owed)], confirmed)
       /\ TaskOnly

(* Completes the task and does not look at the process.                    *)
CompleteTaskFaulty(t) ==
    /\ Exists(t)
    /\ Ready(t)
    /\ task' = RolledUp([task EXCEPT ![t].qty = task[t].target,
                                     ![t].status = "completed"], t)
    /\ UNCHANGED <<woStatus, procStatus, ledger, batch>>
    /\ TaskOnly

CompleteTask(t) ==
    LET q == IF KindOf(t) = "plate" THEN 1 ELSE task[t].target
        row == [task[t] EXCEPT !.qty = q, !.status = "completed"]
    IN /\ Exists(t)
       /\ Ready(t)
       /\ CheckProcess(ProcessOf(t), RolledUp([task EXCEPT ![t] = row], t),
                       ledger, confirmed)
       /\ TaskOnly

CancelTask(t) ==
    /\ task[t].status \in Open
    /\ \/ procStatus[ProcessOf(t)] = "pending"
       \/ TasksOf(ProcessOf(t), task) # {t}
    /\ task' = [task EXCEPT ![t].status = "cancelled"]
    /\ UNCHANGED <<woStatus, procStatus, ledger, batch>>
    /\ TaskOnly

(* Compares a size with the task instead of their sum.                     *)
SplitFitsFaulty(t, q1, q2) == q1 <= task[t].target

SplitFits(t, q1, q2) == q1 + q2 <= task[t].target

(* The sizes are whatever the request says; their sum is checked first, a  *)
(* negative one lowers it.  The subtasks are then created one by one, and  *)
(* the sizes are checked in the same loop: a bad second size leaves the    *)
(* first subtask behind and the parent's status as it was.                 *)
SplitTask(t, q1, q2) ==
    /\ Exists(t)
    /\ ~HasSubtasks(t)
    /\ task[t].status # "completed"
    /\ SplitFits(t, q1, q2)
    /\ q1 > 0
    /\ task' = IF q2 > 0
               THEN [task EXCEPT ![<<t, 1>>] = Fresh(q1), ![<<t, 2>>] = Fresh(q2),
                                 ![t].status = IF @ = "pending" THEN "in_progress" ELSE @]
               ELSE [task EXCEPT ![<<t, 1>>] = Fresh(q1)]
    /\ outgrown' = IF q2 <= 0 /\ q1 > task[t].target THEN outgrown \cup {t}
                   ELSE outgrown
    /\ UNCHANGED <<approval, woStatus, procStatus, confirmed, cut, needed, ledger,
                   batch, deleted, byHand>>

(* Deletion cascades to subtasks and to nothing else: no check, no stock.  *)
DeleteTask(t) ==
    LET gone == {u \in Family(t) : Exists(u)}
    IN /\ Exists(t)
       /\ t \in Deletable \ deleted
       /\ task' = [u \in AllTasks |-> IF u \in gone THEN Absent ELSE task[u]]
       /\ deleted' = deleted \cup gone
       /\ UNCHANGED <<approval, woStatus, procStatus, confirmed, cut, needed,
                      ledger, batch, outgrown, byHand>>

(* execute_sync with the processes in removed struck out: refused as a     *)
(* whole when one of their tasks is no longer pending, else they lose      *)
(* their tasks and the other processes get the ones they miss.             *)
SyncTasks(removed) ==
    /\ approval # "approved"
    /\ \A p \in removed : \A t \in TasksOf(p, task) : task[t].status = "pending"
    /\ task' = [t \in AllTasks |->
                  IF ProcessOf(t) \in removed THEN Absent
                  ELSE Generated(Procs \ removed)[t]]
    /\ UNCHANGED <<approval, woStatus, procStatus, confirmed, cut, needed,
                   ledger, batch, deleted, outgrown, byHand>>

-----------------------------------------------------------------------------
(* Assets and materials: what happens elsewhere and reaches the tasks      *)

(* AssetConfirmationService.confirm on the asset of plate task t, and then *)
(* the on_commit hook.  While the process runs, every task of the asset is *)
(* completed whatever its status; otherwise only open, untouched ones.     *)
ConfirmAsset(t) ==
    LET p == ProcOf[t]
        hit == {u \in Family(t) :
                  /\ Exists(u)
                  /\ \/ procStatus[p] = "in_progress"
                     \/ task[u].status \in Open /\ task[u].qty < 1}
        tk == [u \in AllTasks |->
                 IF u \in hit THEN [task[u] EXCEPT !.status = "completed", !.qty = 1]
                 ELSE task[u]]
    IN /\ Kind[p] = "plate"
       /\ t \notin confirmed
       /\ confirmed' = confirmed \cup {t}
       /\ \/ hit # {} /\ CheckProcess(p, tk, ledger, confirmed')
          \/ hit = {} /\ UNCHANGED <<woStatus, procStatus, task, ledger, batch>>
       /\ UNCHANGED <<approval, cut, needed, deleted, outgrown, byHand>>

(* Cutting gives every open task on the material the whole usage quantity. *)
ReachedByCut(t) == {u \in Family(t) : task[u].status \in Open /\ Usage[t] > 0}
FullWhenCut(t) ==
    {u \in ReachedByCut(t) : task[u].target > 0 /\ Usage[t] >= task[u].target}
AfterCut(t) ==
    [u \in AllTasks |->
       IF u \in ReachedByCut(t)
       THEN [task[u] EXCEPT !.qty = Usage[t],
               !.status = IF u \in FullWhenCut(t) THEN "completed" ELSE "in_progress"]
       ELSE task[u]]

(* Updates the tasks and does not look at the process.                     *)
CutMaterialFaulty(t) ==
    /\ KindOf(t) = "cut"
    /\ t \in needed \ cut
    /\ cut' = cut \cup {t}
    /\ task' = AfterCut(t)
    /\ UNCHANGED <<approval, woStatus, procStatus, confirmed, needed, ledger,
                   batch, deleted, outgrown, byHand>>

(* confirm_cutting on the material of cutting task t and its on_commit     *)
(* hook.                                                                   *)
CutMaterial(t) ==
    /\ KindOf(t) = "cut"
    /\ t \in needed \ cut
    /\ cut' = cut \cup {t}
    /\ \/ /\ FullWhenCut(t) # {}
          /\ CheckProcess(ProcOf[t], AfterCut(t), ledger, confirmed)
       \/ /\ FullWhenCut(t) = {}
          /\ task' = AfterCut(t)
          /\ UNCHANGED <<woStatus, procStatus, ledger, batch>>
    /\ UNCHANGED <<approval, confirmed, needed, deleted, outgrown, byHand>>

(* A confirmed material plan makes generation yield the cutting task; an   *)
(* invalidated one takes it back and resets the material's status.         *)
ConfirmPlan(t) ==
    /\ t \in Planned \ needed
    /\ needed' = needed \cup {t}
    /\ UNCHANGED <<approval, woStatus, procStatus, task, confirmed, cut, ledger,
                   batch, deleted, outgrown, byHand>>

InvalidatePlan(t) ==
    /\ t \in Planned \cap needed
    /\ needed' = needed \ {t}
    /\ cut' = cut \ {t}
    /\ UNCHANGED <<approval, woStatus, procStatus, task, confirmed, ledger,
                   batch, deleted, outgrown, byHand>>

-----------------------------------------------------------------------------
OrderStep ==
    \/ Submit \/ SubmitAutoApproved \/ Approve \/ Reject \/ CheckCompletion
    \/ \E new \in WorkOrderStatuses : UpdateStatus(new)
    \/ \E new \in EditedTo \cup {woStatus} : EditOrder(new)

ProcessStep == \E p \in Procs :
    \/ StartProcess(p) \/ BatchStart(p)
    \/ CompleteProcess(p) \/ ForceCompleteProcess(p)

TaskStep ==
    \/ \E t \in AllTasks :
         \/ \E increment \in Increments : UpdateQuantity(t, increment)
         \/ CompleteTask(t) \/ CancelTask(t) \/ DeleteTask(t)
    \/ \E t \in Splittable, q1, q2 \in SplitSizes : SplitTask(t, q1, q2)
    \/ \E removed \in SUBSET Procs : SyncTasks(removed)

SupplyStep == \E t \in Tasks :
    \/ ConfirmAsset(t) \/ CutMaterial(t) \/ ConfirmPlan(t) \/ InvalidatePlan(t)

Next == OrderStep \/ ProcessStep \/ TaskStep \/ SupplyStep

Spec == Init /\ [][Next]_vars

-----------------------------------------------------------------------------
(* The generic PATCH endpoints, which write the fields they are given.     *)

CONSTANTS
    PatchQuantities,    \* quantities a PATCH may carry
    StockBound          \* bound: nobody patches beyond this much booked stock

ASSUME PatchAssumption == PatchQuantities \subseteq Int

(* PATCH of a task saves first and validates afterwards, outside any       *)
(* transaction: an excessive quantity is reported and stays.               *)
PatchTask(t, q, s) ==
    LET tk == [task EXCEPT ![t].qty = q, ![t].status = s]
        refused == task[t].target > 0 /\ q > task[t].target
    IN /\ Exists(t)
       /\ \/ /\ ~refused /\ s = "completed"
             /\ CheckProcess(ProcessOf(t), tk, ledger, confirmed)
          \/ /\ refused \/ s # "completed"
             /\ task' = tk
             /\ UNCHANGED <<woStatus, procStatus, ledger, batch>>
       /\ TaskOnly

(* PATCH of a process writes its status; only the stock signal follows.    *)
PatchProcess(p, s) ==
    /\ \/ s = "completed" /\ SaveCompleted(p, task, ledger)
       \/ /\ s # "completed"
          /\ procStatus' = [procStatus EXCEPT ![p] = s]
          /\ UNCHANGED <<task, ledger, batch>>
    /\ UNCHANGED <<approval, woStatus, confirmed, cut, needed, deleted, outgrown,
                   byHand>>

PatchStep ==
    /\ \A t \in AllTasks : ledger[t] <= StockBound /\ batch[t] <= StockBound
    /\ \/ \E t \in AllTasks, q \in PatchQuantities, s \in TaskStatuses \ {"absent"} :
            PatchTask(t, q, s)
       \/ \E p \in Procs, s \in ProcessStatuses : PatchProcess(p, s)

PatchSpec == Init /\ [][Next \/ PatchStep]_vars

-----------------------------------------------------------------------------
(* Properties                                                              *)

(* Statuses are the code's, every quantity and every booked stock is a     *)
(* natural number, whatever was reported, taken back, split or deleted.    *)
TypeOK ==
    /\ approval \in Approvals
    /\ woStatus \in WorkOrderStatuses
    /\ procStatus \in [Procs -> ProcessStatuses]
    /\ task \in [AllTasks -> TaskRow]
    /\ confirmed \subseteq Tasks
    /\ cut \subseteq Tasks
    /\ needed \subseteq Tasks
    /\ ledger \in [AllTasks -> Nat]
    /\ batch \in [AllTasks -> Nat]
    /\ deleted \subseteq AllTasks
    /\ outgrown \subseteq Splittable
    /\ byHand \in BOOLEAN

(* No task other than a cutting one ever reports more than it has to make, *)
(* be the quantity reported, forced, or summed up from its subtasks; but   *)
(* for a parent whose split was refused after making too large a subtask.  *)
QuantityWithinTarget ==
    \A t \in AllTasks \ outgrown :
      KindOf(t) # "cut" /\ task[t].target > 0 => task[t].qty <= task[t].target

(* The stock booked for a task covers what the task says has been booked,  *)
(* so that a correction downwards always finds the goods it takes back.    *)
LedgerCoversAccounted == \A t \in AllTasks : ledger[t] >= task[t].accounted

(* It is exactly that, unless the task was deleted, goods and all.         *)
LedgerMatchesAccounted ==
    \A t \in AllTasks \ deleted : ledger[t] = task[t].accounted

(* Goods are never booked for a task that reports fewer, unless its report *)
(* is, or once was, the sum over subtasks.                                 *)
AccountedWithinReported ==
    \A t \in AllTasks \ outgrown :
      ~HasSubtasks(t) /\ Kids(t) \cap deleted = {}
        => task[t].accounted <= task[t].qty

(* An order is in production, or paused, only after an approval that is    *)
(* still standing or is being reviewed again, or because its form said so; *)
(* the next review ends that.                                              *)
InProductionWasApproved ==
    ~byHand /\ woStatus \in Production => approval \in Reviewable

(* A chained process that runs has its predecessor behind it for good:     *)
(* nothing done to tasks, orders or materials reopens the predecessor.     *)
RunsAfterPredecessor ==
    \A p \in Chain \ Free, q \in Chain :
      Precedes(q, p) /\ procStatus[p] = "in_progress" => procStatus[q] = "completed"

(* Whatever request completes the last open task of a process, the process *)
(* is closed by that same request (deletions apart, which check nothing).  *)
FinishedProcessIsClosed ==
    [][\A p \in Procs :
         /\ ~AllDone(p, task, confirmed)
         /\ AllDone(p, task, confirmed)'
         /\ deleted' = deleted
         => procStatus'[p] = "completed"]_vars

(* The subtasks of a split never add up to more than the task that was     *)
(* split: those of a split that succeeded whatever was split before, and   *)
(* what a split refused half way leaves if its first size was not too      *)
(* large by itself.                                                        *)
SubtasksWithinParent ==
    \A t \in Splittable :
      (\A u \in Kids(t) : Exists(u)) \/ t \notin outgrown
        => task[<<t, 1>>].target + task[<<t, 2>>].target <= task[t].target

-----------------------------------------------------------------------------
(* What the repository says of the program and the program does not do.    *)

(* "No quantity already booked is counted again": a product never gets     *)
(* more stock than was to be packed, as long as nobody deletes its tasks.  *)
UnitsBookedOnce ==
    \A t \in Tasks : KindOf(t) = "pack" /\ Family(t) \cap deleted = {}
                       => Stock(t) <= Target[t]
=============================================================================
