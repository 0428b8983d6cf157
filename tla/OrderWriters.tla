---------------------------- MODULE OrderWriters ----------------------------
(***************************************************************************)
(* The writers of one work order: its own row, the rows of its processes   *)
(* and their tasks, when requests overlap.                                 *)
(*                                                                         *)
(* Reports, completions and starts run outside a transaction: every        *)
(* statement commits on its own, and what was loaded at first is written   *)
(* back at the end.  Submitting, reviewing, editing and checking an order  *)
(* and confirming an asset run in a transaction: they read what others     *)
(* have committed, nobody sees their writes before they commit, and the    *)
(* rows they have written are locked until then.                           *)
(*                                                                         *)
(* stale is a history variable: "order", "process" and "tasks" are in it   *)
(* once a request has committed a write or a decision made on a copy of    *)
(* such rows that was out of date by then, "death" once a worker died half *)
(* way, "review" once a review took an order with closed processes back,   *)
(* "struck" once the rows that kept a process or the order open were       *)
(* taken out of it.  removed is another: the tasks that were taken away,   *)
(* or that belong to a process made anew, since they were last generated.  *)
(*                                                                         *)
(* Left out: cancelled tasks, quantities and everything that sets a status *)
(* by hand (the PATCH endpoints, a POST or an edit that sends one), which  *)
(* are in WorkOrderExecution; the version column of tasks, which is in     *)
(* TaskWriters; a task deleted between the statements of one report;       *)
(* subtasks; changes of what generation wants (assets, products, plans).   *)
(*                                                                         *)
(* Bound: Requests is how many requests there are.                         *)
(***************************************************************************)
EXTENDS Integers, FiniteSets

CONSTANTS
    Users,        \* each with one request under way at a time
    Processes,
    Earlier,      \* those in front of each that cannot run in parallel to it
    Tasks,        \* what generation looks for: one task of each is wanted
    Home,         \* the process of each
    Requests,
    None

ASSUME WriterAssumption ==
    /\ Earlier \in [Processes -> SUBSET Processes] /\ None \notin Processes
    /\ Home \in [Tasks -> Processes]
    /\ Requests \in Nat

VARIABLES order, process, edition, rows, made, open, req, stale, removed, begun

vars == <<order, process, edition, rows, made, open, req, stale, removed, begun>>

-----------------------------------------------------------------------------
Approvals == {"draft", "submitted", "approved", "rejected"}
OrderRow == [status : {"pending", "in_progress", "completed"}, approval : Approvals]
ProcessStatuses == {"absent", "pending", "in_progress", "completed"}

OrderRequests == {"submit", "approve", "reject", "check", "edit", "sync"}
ProcessRequests == {"start", "batch", "complete"}
TaskRequests == {"report", "confirm", "correct"}
Places == {"idle", "begun", "held", "generate", "force", "judge", "close", "count",
           "finish", "save", "commit"}
Marks == {"order", "process", "tasks", "death", "review", "struck"}

(* A request: what it is about, the order and the editions of processes it *)
(* has loaded, the tasks it has listed, whether it closes the process.     *)
Request == [op : OrderRequests \cup ProcessRequests \cup TaskRequests \cup {"idle"},
            at : Places, task : Tasks \cup {None}, process : Processes \cup {None},
            order : OrderRow, edition : [Processes -> Nat], todo : SUBSET Tasks, closes : BOOLEAN]

NewOrder == [status |-> "pending", approval |-> "draft"]
Idle == [op |-> "idle", at |-> "idle", task |-> None, process |-> None,
         order |-> NewOrder, edition |-> [p \in Processes |-> 0], todo |-> {}, closes |-> FALSE]

(* edition[p] is the row process p has, or had last, of the rows made so   *)
(* far; made[t] counts the rows of task t, open[t] those not completed.    *)
Init ==
    /\ order = NewOrder
    /\ process = [p \in Processes |-> "pending"]
    /\ edition = [p \in Processes |-> 0]
    /\ rows = 0
    /\ made = [t \in Tasks |-> 0]
    /\ open = [t \in Tasks |-> 0]
    /\ req = [u \in Users |-> Idle]
    /\ stale = {}
    /\ removed = {}
    /\ begun = 0

-----------------------------------------------------------------------------
TasksOf(p) == {t \in Tasks : Home[t] = p}
Existing == {p \in Processes : process[p] # "absent"}

Closed(status) ==
    /\ \E p \in Processes : status[p] # "absent"
    /\ \A p \in Processes : status[p] \in {"absent", "completed"}

(* The process in front of p is the last one there is.                     *)
Previous(p) == {q \in Earlier[p] \cap Existing :
                    Earlier[p] \cap Existing \subseteq Earlier[q] \cup {q}}

CanStart(p) == process[p] = "pending" /\ \A q \in Previous(p) : process[q] = "completed"

(* ALLOWED_STATUS_TRANSITIONS of the approval.  An edit of a rejected      *)
(* order takes it back to draft on its own, and a submission that approves *)
(* at once is seen as one step.                                            *)
Allowed == {<<"draft", "submitted">>, <<"rejected", "submitted">>, <<"approved", "submitted">>,
            <<"submitted", "approved">>, <<"submitted", "rejected">>}
Follows == Allowed \cup {<<"rejected", "draft">>, <<"draft", "approved">>,
                       <<"rejected", "approved">>}

(* Row locks: what a transaction has written and not yet committed.        *)
HoldsTask(v, t) == req[v].op = "confirm" /\ req[v].task = t /\ req[v].at # "begun"
HoldsProcess(v, p) == req[v].op = "confirm" /\ req[v].process = p /\ req[v].closes
HoldsOrder(v) == req[v].at = "held"

FreeOf(u, t) == \A v \in Users \ {u} : ~HoldsTask(v, t)
TaskFree(u) == FreeOf(u, req[u].task)
ProcessFree(u, p) == \A v \in Users \ {u} : ~HoldsProcess(v, p)
OrderFree(u) == \A v \in Users \ {u} : ~HoldsOrder(v)

(* A row that was deleted or replaced since is not found any more.         *)
Current(u, p) == p \in Existing /\ req[u].edition[p] = edition[p]
Found(u) == Current(u, req[u].process)

(* The open tasks of a process as request u sees them: a task it has       *)
(* completed in its transaction is not among them.                         *)
OpenFor(u, p) ==
    {t \in TasksOf(p) : open[t] > IF HoldsTask(u, t) THEN 1 ELSE 0}

AllDone(u, p) == OpenFor(u, p) = {} /\ \E t \in TasksOf(p) : made[t] > 0

Goto(u, place) == req' = [req EXCEPT ![u].at = place]
Done(u) == req' = [req EXCEPT ![u] = Idle]
Mark(marks) == stale' = stale \cup marks
Outdated(u) == IF order # req[u].order THEN {"order"} ELSE {}
Struck(status, row) == IF Closed(status) /\ row.status # "completed" THEN {"struck"} ELSE {}

-----------------------------------------------------------------------------
(* Loading.                                                                *)
Load(u, op, p, t) ==
    /\ req[u] = Idle
    /\ begun < Requests
    /\ begun' = begun + 1
    /\ req' = [req EXCEPT ![u] =
           [op |-> op, at |-> "begun", task |-> t, process |-> p, order |-> order,
            edition |-> edition, todo |-> {}, closes |-> FALSE]]
    /\ UNCHANGED <<order, process, edition, rows, made, open, stale, removed>>

(* Submitting and reviewing load the order anew and check the transition;  *)
(* the check for completion looks at the order the view has loaded.  The   *)
(* faulty one lets any order be rejected.                                  *)
MayBeginFaulty(op) ==
    CASE op = "submit" -> <<order.approval, "submitted">> \in Allowed
      [] op = "approve" -> <<order.approval, "approved">> \in Allowed
      [] op = "check" -> order.status = "in_progress"
      [] op = "sync" -> order.approval # "approved"
      [] op \in {"edit", "reject"} -> TRUE
MayBegin(op) ==
    CASE op = "submit" -> <<order.approval, "submitted">> \in Allowed
      [] op = "approve" -> <<order.approval, "approved">> \in Allowed
      [] op = "reject" -> <<order.approval, "rejected">> \in Allowed
      [] op = "check" -> order.status = "in_progress"
      [] op = "sync" -> order.approval # "approved"
      [] op = "edit" -> TRUE

BeginOrder(u, op) == MayBegin(op) /\ Load(u, op, None, None)

BeginProcess(u, op, p) ==
    /\ IF op = "complete" THEN process[p] = "in_progress" ELSE CanStart(p)
    /\ Load(u, op, p, None)

BeginTask(u, op, t) ==
    /\ IF op = "correct" THEN made[t] > open[t] ELSE open[t] > 0
    /\ Load(u, op, Home[t], t)

-----------------------------------------------------------------------------
(* Review of the order.                                                    *)

(* Submitting writes the fields of the approval only.  With approval       *)
(* switched off, or on request, it goes on to approve in the same          *)
(* transaction, the row locked and read anew.                              *)
Submit(u) ==
    /\ req[u].op = "submit" /\ req[u].at = "begun"
    /\ OrderFree(u)
    /\ \/ /\ order' = [order EXCEPT !.approval = "submitted"]
          /\ Done(u)
       \/ /\ req' = [req EXCEPT ![u].at = "held", ![u].edition = edition,
                                ![u].todo = {t \in Tasks : made[t] = 0 /\ Home[t] \in Existing},
                                ![u].order = [order EXCEPT !.approval = "submitted"]]
          /\ UNCHANGED order
    /\ UNCHANGED <<process, edition, rows, made, open, stale, removed, begun>>

(* Generation looks which tasks are missing and creates those, unless      *)
(* their process is gone by then.                                          *)
Missing(u) ==
    /\ req[u].op \in {"approve", "batch"} /\ req[u].at = "begun"
    /\ req[u].process # None => Found(u)
    /\ req' = [req EXCEPT ![u].at = "generate", ![u].edition = edition, ![u].todo =
           {t \in Tasks : /\ made[t] = 0 /\ Home[t] \in Existing
                          /\ req[u].process \in {None, Home[t]}}]
    /\ UNCHANGED <<order, process, edition, rows, made, open, stale, removed, begun>>

Generated(count, todo) == [t \in Tasks |-> count[t] + IF t \in todo THEN 1 ELSE 0]

TakenBack == IF Closed(process) THEN {"review"} ELSE {}
Listed(u) == IF \E t \in req[u].todo : made[t] > 0 THEN {"tasks"} ELSE {}

(* The tasks appear together with the approval, which saves the order as   *)
(* it was read at the beginning.  The faulty one forgets the tasks.        *)
ApproveFaulty(u) ==
    /\ \/ req[u].op = "approve" /\ req[u].at = "generate"
       \/ req[u].op = "submit" /\ req[u].at = "held"
    /\ OrderFree(u)
    /\ order' = [status |-> "in_progress", approval |-> "approved"]
    /\ removed' = {}
    /\ Mark(TakenBack)
    /\ Done(u)
    /\ UNCHANGED <<process, edition, rows, made, open, begun>>
Approve(u) ==
    /\ \/ /\ req[u].op = "approve" /\ req[u].at = "generate"
          /\ Mark(Outdated(u) \cup TakenBack \cup Listed(u))
       \/ /\ req[u].op = "submit" /\ req[u].at = "held"
          /\ Mark(TakenBack \cup Listed(u))
    /\ OrderFree(u)
    /\ \A t \in req[u].todo : Current(u, Home[t])
    /\ order' = [status |-> "in_progress", approval |-> "approved"]
    /\ made' = Generated(made, req[u].todo)
    /\ open' = Generated(open, req[u].todo)
    /\ removed' = removed \ req[u].todo
    /\ Done(u)
    /\ UNCHANGED <<process, edition, rows, begun>>

Reject(u) ==
    /\ req[u].op = "reject" /\ req[u].at = "begun"
    /\ OrderFree(u)
    /\ order' = [status |-> "pending", approval |-> "rejected"]
    /\ Mark(Outdated(u) \cup TakenBack)
    /\ Done(u)
    /\ UNCHANGED <<process, edition, rows, made, open, removed, begun>>

(* An edit saves the order as loaded; an approved one goes back to review  *)
(* if the user may touch it at all, and stays approved otherwise.          *)
Edited(loaded, privileged) ==
    CASE loaded.approval = "approved" /\ privileged -> [loaded EXCEPT !.approval = "submitted"]
      [] loaded.approval = "rejected" -> [loaded EXCEPT !.approval = "draft"]
      [] OTHER -> loaded

(* Nobody has written to these processes or their tasks and not committed. *)
RowsFree(u, gone) ==
    \A p \in gone : ProcessFree(u, p) /\ \A t \in TasksOf(p) : FreeOf(u, t)

(* Tasks go with their processes.                                          *)
Without(count, gone) == [t \in Tasks |-> IF Home[t] \in gone THEN 0 ELSE count[t]]

(* The processes of some set are made and those of another deleted first.  *)
Replace(u, gone, new) ==
    /\ RowsFree(u, gone)
    /\ process' = [p \in Processes |-> CASE p \in new -> "pending"
                                         [] p \in gone \ new -> "absent"
                                         [] OTHER -> process[p]]
    /\ edition' = [p \in Processes |-> IF p \in new THEN rows + 1 ELSE edition[p]]
    /\ rows' = IF new = {} THEN rows ELSE rows + 1
    /\ made' = Without(made, gone)
    /\ open' = Without(open, gone)
    /\ removed' = removed \cup {t \in Tasks : Home[t] \in gone \cup new}

EditFields(u, privileged) ==
    /\ order' = Edited(req[u].order, privileged)
    /\ Mark(Outdated(u))
    /\ UNCHANGED <<process, edition, rows, made, open, removed>>

(* Whenever lists are sent the pending processes are deleted, with their   *)
(* tasks, and those listed that are not there are made.  Products sent     *)
(* without processes mean the default ones, so that the list may be        *)
(* another one also where the processes of the order must not be changed.  *)
EditLists(u, privileged, listed) ==
    LET gone == {p \in Processes : process[p] = "pending"}
        saved == Edited(req[u].order, privileged)
    IN /\ order' = saved
       /\ Replace(u, gone, {p \in listed : process[p] \in {"pending", "absent"}})
       /\ Mark(Outdated(u) \cup Struck(process', saved))

Edit(u, privileged) ==
    /\ req[u].op = "edit" /\ req[u].at = "begun"
    /\ OrderFree(u)
    /\ \/ EditFields(u, privileged)
       \/ \E listed \in SUBSET Processes : EditLists(u, privileged, listed)
    /\ Done(u)
    /\ UNCHANGED begun

(* A sync takes the tasks of the processes that are not kept away, if none *)
(* of them is done, and generates what is missing in the others.  That the *)
(* order is not approved is checked as it is loaded only.                  *)
Synchronise(u, kept) ==
    LET taken == {t \in Tasks : Home[t] \notin kept /\ Current(u, Home[t])}
        missing == {t \in Tasks : Home[t] \in kept \cap Existing /\ made[t] = 0}
        Synced(count) == [t \in Tasks |-> CASE t \in taken -> 0
                                            [] t \in missing -> 1
                                            [] OTHER -> count[t]]
    IN /\ req[u].op = "sync" /\ req[u].at = "begun"
       /\ OrderFree(u)
       /\ \A t \in taken : FreeOf(u, t) /\ open[t] = made[t]
       /\ made' = Synced(made)
       /\ open' = Synced(open)
       /\ removed' = removed \cup taken
       /\ Mark(Outdated(u))
       /\ Done(u)
       /\ UNCHANGED <<order, process, edition, rows, begun>>

(* check_completion: all tasks done is enough.                             *)
Check(u) ==
    /\ req[u].op = "check" /\ req[u].at = "begun"
    /\ \A t \in Tasks : open[t] = 0
    /\ \E t \in Tasks : made[t] > 0
    /\ Goto(u, "finish")
    /\ UNCHANGED <<order, process, edition, rows, made, open, stale, removed, begun>>

-----------------------------------------------------------------------------
(* Starting a process saves its row as it was loaded.  Starting several    *)
(* generates the tasks that are missing first, in a transaction of its own.*)
Generate(u) ==
    /\ req[u].op = "batch" /\ req[u].at = "generate"
    /\ Found(u)
    /\ made' = Generated(made, req[u].todo)
    /\ open' = Generated(open, req[u].todo)
    /\ Mark(Listed(u))
    /\ Goto(u, "save")
    /\ UNCHANGED <<order, process, edition, rows, removed, begun>>

(* Saving a row that was deleted meanwhile inserts it again, unless it has *)
(* been replaced: there is one row for each place in the sequence.         *)
Save(u, status) ==
    LET p == req[u].process
    IN /\ p \in Existing => Found(u)
       /\ ProcessFree(u, p)
       /\ process' = [process EXCEPT ![p] = status]
       /\ edition' = [edition EXCEPT ![p] = req[u].edition[p]]

Start(u) ==
    /\ \/ req[u].op = "start" /\ req[u].at = "begun"
       \/ req[u].op = "batch" /\ req[u].at = "save"
    /\ Save(u, "in_progress")
    /\ Mark(IF process[req[u].process] # "pending" THEN {"process"} ELSE {})
    /\ Done(u)
    /\ UNCHANGED <<order, rows, made, open, removed, begun>>

-----------------------------------------------------------------------------
(* Tasks and what their completion entails.                                *)

Report(u) ==
    LET t == req[u].task
    IN /\ req[u].op = "report" /\ req[u].at = "begun"
       /\ Found(u) /\ TaskFree(u)
       /\ open[t] > 0
       /\ open' = [open EXCEPT ![t] = @ - 1]
       /\ Goto(u, "judge")
       /\ UNCHANGED <<order, process, edition, rows, made, stale, removed, begun>>

(* A correction downwards opens the task again; its process keeps its      *)
(* status.  The faulty one does not notice that it was opened meanwhile.   *)
Reopened(u, t) ==
    /\ req[u].op = "correct" /\ req[u].at = "begun"
    /\ Found(u) /\ TaskFree(u)
    /\ open' = [open EXCEPT ![t] = @ + 1]
    /\ Done(u)
    /\ UNCHANGED <<order, process, edition, rows, made, stale, removed, begun>>

CorrectFaulty(u) == Reopened(u, req[u].task)
Correct(u) == Reopened(u, req[u].task) /\ made[req[u].task] > open[req[u].task]

(* A confirmed asset or a cut material completes the task in a transaction *)
(* which locks its row; process and order are loaded in it.                *)
Confirm(u) ==
    LET t == req[u].task
    IN /\ req[u].op = "confirm" /\ req[u].at = "begun"
       /\ Found(u) /\ TaskFree(u)
       /\ open[t] > 0
       /\ req' = [req EXCEPT ![u].at = "judge", ![u].order = order]
       /\ UNCHANGED <<order, process, edition, rows, made, open, stale, removed, begun>>

(* A forced completion lists the open tasks and completes one after the    *)
(* other; one that was deleted meanwhile is inserted again.                *)
List(u) ==
    /\ req[u].op = "complete" /\ req[u].at = "begun"
    /\ req' = [req EXCEPT ![u].at = "force", ![u].todo = OpenFor(u, req[u].process)]
    /\ UNCHANGED <<order, process, edition, rows, made, open, stale, removed, begun>>

CompleteTask(u, t) ==
    /\ req[u].op = "complete" /\ req[u].at = "force"
    /\ Found(u)
    /\ t \in req[u].todo
    /\ FreeOf(u, t)
    /\ open' = [open EXCEPT ![t] = 0]
    /\ made' = [made EXCEPT ![t] = IF @ = 0 THEN 1 ELSE @]
    /\ req' = [req EXCEPT ![u].todo = @ \ {t}]
    /\ UNCHANGED <<order, process, edition, rows, stale, removed, begun>>

(* check_and_update_status: are all tasks of the process done?             *)
Judge(u) ==
    LET p == req[u].process
    IN /\ req[u].at = "judge"
       /\ \/ AllDone(u, p) /\ Goto(u, "close")
          \/ /\ ~AllDone(u, p)
             /\ IF req[u].op = "confirm" THEN Goto(u, "commit") ELSE Done(u)
       /\ UNCHANGED <<order, process, edition, rows, made, open, stale, removed, begun>>

(* The process is saved as completed; a confirmation shows it to nobody    *)
(* until it commits.                                                       *)
Close(u) ==
    /\ req[u].at = "close" \/ (req[u].at = "force" /\ req[u].todo = {})
    /\ \/ req[u].op # "confirm" /\ Save(u, "completed")
       \/ /\ req[u].op = "confirm" /\ Found(u) /\ ProcessFree(u, req[u].process)
          /\ UNCHANGED <<process, edition>>
    /\ req' = [req EXCEPT ![u].at = "count", ![u].closes = TRUE]
    /\ UNCHANGED <<order, rows, made, open, stale, removed, begun>>

(* The order is completed when no other process is left, unless it was     *)
(* completed already when it was loaded.  The faulty one completes orders  *)
(* in production only.                                                     *)
OthersClosed(u) ==
    /\ \A p \in Existing \ {req[u].process} : process[p] = "completed"
    /\ req[u].op = "confirm" \/ process[req[u].process] \in {"absent", "completed"}

LastFaulty(u) == OthersClosed(u) /\ req[u].order.status = "in_progress"
Last(u) == OthersClosed(u) /\ req[u].order.status # "completed"

LeftOpen(u) == OthersClosed(u) /\ order.status # "completed"

Count(u) ==
    /\ req[u].at = "count"
    /\ \/ Last(u) /\ Goto(u, "finish") /\ UNCHANGED stale
       \/ /\ ~Last(u)
          /\ IF req[u].op = "confirm" THEN Goto(u, "commit") ELSE Done(u)
          /\ Mark(IF LeftOpen(u) /\ req[u].order.status = "completed" THEN {"order"} ELSE {})
    /\ UNCHANGED <<order, process, edition, rows, made, open, removed, begun>>

(* The order is saved as it was loaded, with the new status.  A            *)
(* confirmation commits all it has written: it has missed something if the *)
(* tasks or processes it saw open have been completed since.               *)
Missed(u) ==
    IF req[u].closes THEN IF LeftOpen(u) THEN {"process"} ELSE {}
    ELSE IF AllDone(u, req[u].process) THEN {"tasks"} ELSE {}

Finish(u) ==
    /\ req[u].at = "finish"
    /\ OrderFree(u)
    /\ order' = [req[u].order EXCEPT !.status = "completed"]
    /\ IF req[u].op = "confirm"
         THEN /\ open' = [open EXCEPT ![req[u].task] = @ - 1]
              /\ process' = [process EXCEPT ![req[u].process] = "completed"]
         ELSE UNCHANGED <<open, process>>
    /\ Mark(Outdated(u))
    /\ Done(u)
    /\ UNCHANGED <<edition, rows, made, removed, begun>>

Commit(u) ==
    /\ req[u].at = "commit"
    /\ open' = [open EXCEPT ![req[u].task] = @ - 1]
    /\ process' = IF req[u].closes THEN [process EXCEPT ![req[u].process] = "completed"]
                  ELSE process
    /\ Mark(Missed(u))
    /\ Done(u)
    /\ UNCHANGED <<order, edition, rows, made, removed, begun>>

-----------------------------------------------------------------------------
(* The endpoints of the rows themselves: one statement each, that looks at *)
(* nothing else.                                                           *)
Direct(u) == req[u] = Idle /\ begun < Requests /\ begun' = begun + 1

AddProcess(u, p) ==
    /\ Direct(u)
    /\ p \notin Existing
    /\ Replace(u, {}, {p})
    /\ UNCHANGED <<order, req, stale>>

DeleteProcess(u, p) ==
    /\ Direct(u)
    /\ p \in Existing
    /\ Replace(u, {p}, {})
    /\ Mark(Struck(process', order))
    /\ UNCHANGED <<order, req>>

AddTask(u, t) ==
    /\ Direct(u)
    /\ Home[t] \in Existing
    /\ made' = Generated(made, {t})
    /\ open' = Generated(open, {t})
    /\ UNCHANGED <<order, process, edition, rows, req, stale, removed>>

(* Whoever deletes the last open task of a process does not close it.      *)
StruckOpen(t) ==
    LET p == Home[t]
    IN IF /\ process[p] # "completed"
          /\ \A s \in TasksOf(p) : open'[s] = 0
          /\ \E s \in TasksOf(p) : made'[s] > 0
       THEN {"struck"} ELSE {}

DeleteTask(u, t) ==
    /\ Direct(u)
    /\ made' = [made EXCEPT ![t] = @ - 1]
    /\ \/ /\ made[t] > open[t]
          /\ UNCHANGED <<open, stale>>
       \/ /\ open[t] > 0 /\ FreeOf(u, t)
          /\ open' = [open EXCEPT ![t] = @ - 1]
          /\ Mark(StruckOpen(t))
    /\ removed' = removed \cup {t}
    /\ UNCHANGED <<order, process, edition, rows, req>>

-----------------------------------------------------------------------------
(* A request is refused after all, or its worker dies: a transaction is    *)
(* rolled back, other requests have done what they have done.              *)
Fail(u) ==
    /\ req[u] # Idle
    /\ Mark(IF req[u].op \in {"report", "complete"} /\ req[u].at # "begun"
              THEN {"death"} ELSE {})
    /\ Done(u)
    /\ UNCHANGED <<order, process, edition, rows, made, open, removed, begun>>

-----------------------------------------------------------------------------
Begin(u) ==
    \/ \E op \in OrderRequests : BeginOrder(u, op)
    \/ \E op \in ProcessRequests, p \in Processes : BeginProcess(u, op, p)
    \/ \E op \in TaskRequests, t \in Tasks : BeginTask(u, op, t)

Review(u) ==
    \/ Submit(u) \/ Missing(u) \/ Approve(u) \/ Reject(u) \/ Check(u)
    \/ \E privileged \in BOOLEAN : Edit(u, privileged)
    \/ \E kept \in SUBSET Processes : Synchronise(u, kept)

Work(u) ==
    \/ Generate(u) \/ Start(u)
    \/ Report(u) \/ Correct(u) \/ Confirm(u)
    \/ List(u) \/ \E t \in Tasks : CompleteTask(u, t)
    \/ Judge(u) \/ Close(u) \/ Count(u) \/ Finish(u) \/ Commit(u)

Rows(u) ==
    \/ \E p \in Processes : AddProcess(u, p) \/ DeleteProcess(u, p)
    \/ \E t \in Tasks : AddTask(u, t) \/ DeleteTask(u, t)

Next == \E u \in Users : Begin(u) \/ Review(u) \/ Work(u) \/ Rows(u) \/ Fail(u)

Spec == Init /\ [][Next]_vars

-----------------------------------------------------------------------------
(* Types of all variables; a task has no more open rows than rows.         *)
TypeOK ==
    /\ order \in OrderRow
    /\ process \in [Processes -> ProcessStatuses]
    /\ edition \in [Processes -> Nat] /\ rows \in Nat
    /\ made \in [Tasks -> Nat] /\ open \in [Tasks -> Nat]
    /\ \A t \in Tasks : open[t] <= made[t]
    /\ req \in [Users -> Request]
    /\ stale \subseteq Marks
    /\ removed \subseteq Tasks
    /\ begun \in Nat

(* Tasks are generated in the transaction that approves: whenever the row  *)
(* says approved, also after it was saved from an old copy, every process  *)
(* has its tasks, unless they were taken away, or the process made anew,   *)
(* since they were last generated.                                         *)
ApprovedHasTasks ==
    order.approval = "approved" =>
        \A t \in Tasks \ removed : Home[t] \in Existing => made[t] > 0

(* Whoever completes the last task closes the process, whoever closes the  *)
(* last process completes the order, also when several do so at once:      *)
(* nothing that is done is left standing open when all requests have been  *)
(* answered.  Only copies out of date, deaths half way, reviews of         *)
(* finished orders and rows that are taken out can break this.             *)
Quiet == \A u \in Users : req[u] = Idle

LastOneCloses ==
    Quiet /\ stale = {} =>
        /\ \A p \in Processes :
              (\A t \in TasksOf(p) : open[t] = 0) /\ (\E t \in TasksOf(p) : made[t] > 0)
                  => process[p] = "completed"
        /\ Closed(process) => order.status = "completed"

(* Six requests save the whole order.  The approval still moves along its  *)
(* table only, unless one of them writes an outdated copy.                 *)
ApprovalFollowsRules ==
    [][order'.approval # order.approval /\ "order" \notin stale'
         => <<order.approval, order'.approval>> \in Follows]_vars
=============================================================================
