------------------------ MODULE OrderWriters_proofs ------------------------
(***************************************************************************)
(* Proofs about OrderWriters, for any users, processes, tasks and number   *)
(* of requests.                                                            *)
(***************************************************************************)
EXTENDS OrderWriters, TLAPS

-----------------------------------------------------------------------------
(* Types need the row locks: a confirmation takes the open row away when   *)
(* it commits, and nobody else may have done so since it locked it.        *)
RowsOK ==
    /\ order \in OrderRow
    /\ process \in [Processes -> ProcessStatuses]
    /\ edition \in [Processes -> Nat] /\ rows \in Nat
    /\ made \in [Tasks -> Nat] /\ open \in [Tasks -> Nat]
    /\ \A t \in Tasks : open[t] <= made[t]
    /\ stale \subseteq Marks
    /\ removed \subseteq Tasks
    /\ begun \in Nat
RequestsOK == req \in [Users -> Request]

Locks ==
    /\ \A u \in Users : req[u].at = "commit" => req[u].op = "confirm"
    /\ \A u \in Users : \A t \in Tasks : HoldsTask(u, t) => open[t] > 0
    /\ \A u, v \in Users : \A t \in Tasks : HoldsTask(u, t) /\ HoldsTask(v, t) => u = v

TInv == RowsOK /\ RequestsOK /\ Locks

(* A request that is let go holds nothing.                                 *)
LEMMA IdleTyped == Idle \in Request
<1>1. [p \in Processes |-> 0] \in [Processes -> Nat]
  OBVIOUS
<1> QED
  BY <1>1 DEF Idle, Request, Places, NewOrder, OrderRow, Approvals

LEMMA TInit == Init => TInv
<1> SUFFICES ASSUME Init PROVE TInv
  OBVIOUS
<1>1. \A u \in Users : req[u] = Idle
  BY DEF Init
<1>2. Locks
  BY <1>1 DEF Locks, HoldsTask, Idle
<1>3. RequestsOK
  BY IdleTyped DEF Init, RequestsOK
<1>4. order \in OrderRow
  BY DEF Init, NewOrder, OrderRow, Approvals
<1> QED
  BY <1>2, <1>3, <1>4 DEF Init, TInv, RowsOK, ProcessStatuses

LEMMA DoneKeeps ==
  ASSUME NEW u \in Users, RequestsOK, Locks, Done(u)
  PROVE  /\ RequestsOK'
         /\ \A v \in Users : req'[v] = IF v = u THEN Idle ELSE req[v]
  BY IdleTyped DEF RequestsOK, Locks, Done

LEMMA GotoKeeps ==
  ASSUME NEW u \in Users, NEW place \in Places, RequestsOK, Goto(u, place)
  PROVE  /\ RequestsOK'
         /\ \A v \in Users \ {u} : req'[v] = req[v]
         /\ req'[u] = [req[u] EXCEPT !.at = place]
  BY ZenonT(30) DEF RequestsOK, Goto, Request

(* The locks are kept by a request that leaves the rows others hold open.  *)
LEMMA LocksKept ==
  ASSUME NEW u \in Users, Locks,
         \A v \in Users \ {u} : req'[v] = req[v],
         req'[u].at = "commit" => req'[u].op = "confirm",
         \A t \in Tasks : HoldsTask(u, t)' =>
             (\A v \in Users \ {u} : ~HoldsTask(v, t)) /\ open'[t] > 0,
         \A t \in Tasks : \A v \in Users \ {u} : HoldsTask(v, t) => open'[t] > 0
  PROVE  Locks'
<1>1. \A v \in Users \ {u} : \A t \in Tasks : HoldsTask(v, t)' = HoldsTask(v, t)
  BY DEF HoldsTask
<1>2. \A v \in Users : req'[v].at = "commit" => req'[v].op = "confirm"
  BY DEF Locks
<1>3. \A v \in Users : \A t \in Tasks : HoldsTask(v, t)' => open'[t] > 0
  BY <1>1
<1>4. ASSUME NEW v \in Users, NEW w \in Users, NEW t \in Tasks,
             HoldsTask(v, t)', HoldsTask(w, t)'
      PROVE  v = w
  BY <1>1, <1>4 DEF Locks
<1> QED
  BY <1>2, <1>3, <1>4 DEF Locks

LEMMA MarkTyped ==
  ASSUME RowsOK, NEW marks \in SUBSET Marks, Mark(marks)
  PROVE  stale' \subseteq Marks
  BY DEF RowsOK, Mark

(* Requests that end, or go on, without closing a task.                    *)
LEMMA EndsQuietly ==
  ASSUME NEW u \in Users, TInv, Done(u), \A t \in Tasks : open'[t] >= open[t],
         \A t \in Tasks : open'[t] \in Nat
  PROVE  RequestsOK' /\ Locks'
<1>1. /\ RequestsOK'
      /\ \A v \in Users : req'[v] = IF v = u THEN Idle ELSE req[v]
  BY DoneKeeps DEF TInv
<1>2. \A t \in Tasks : ~HoldsTask(u, t)'
  BY <1>1 DEF HoldsTask, Idle
<1>3. \A t \in Tasks : \A v \in Users \ {u} : HoldsTask(v, t) => open'[t] > 0
  BY DEF TInv, Locks, RowsOK
<1> QED
  BY <1>1, <1>2, <1>3, LocksKept DEF TInv, Idle

LEMMA MovesQuietly ==
  ASSUME NEW u \in Users, TInv,
         RequestsOK', \A v \in Users \ {u} : req'[v] = req[v],
         req'[u].at = "commit" => req'[u].op = "confirm",
         \A t \in Tasks : HoldsTask(u, t)' => HoldsTask(u, t),
         \A t \in Tasks : open'[t] >= open[t], \A t \in Tasks : open'[t] \in Nat
  PROVE  Locks'
<1>1. \A t \in Tasks : \A v \in Users : HoldsTask(v, t) => open'[t] > 0
  BY DEF TInv, Locks, RowsOK
<1>2. \A t \in Tasks : HoldsTask(u, t)' =>
             (\A v \in Users \ {u} : ~HoldsTask(v, t)) /\ open'[t] > 0
  BY <1>1 DEF TInv, Locks
<1> QED
  BY <1>1, <1>2, LocksKept DEF TInv

-----------------------------------------------------------------------------
(* One lemma per group of actions.                                         *)
LEMMA LoadTyped ==
  ASSUME NEW u \in Users, TInv,
         NEW op \in OrderRequests \cup ProcessRequests \cup TaskRequests,
         NEW p \in Processes \cup {None}, NEW t \in Tasks \cup {None}, Load(u, op, p, t)
  PROVE  TInv'
<1> DEFINE new == [op |-> op, at |-> "begun", task |-> t, process |-> p, order |-> order,
                   edition |-> edition, todo |-> {}, closes |-> FALSE]
<1>1. new \in Request
  BY DEF TInv, RowsOK, Request, Places
<1>2. req' = [req EXCEPT ![u] = new]
  BY DEF Load
<1>3. RequestsOK'
  BY <1>1, <1>2 DEF TInv, RequestsOK
<1>4. /\ req'[u] = new
      /\ \A v \in Users \ {u} : req'[v] = req[v]
  BY <1>2 DEF TInv, RequestsOK
<1>5. RowsOK'
  BY DEF TInv, RowsOK, Load
<1>6. \A x \in Tasks : ~HoldsTask(u, x)'
  BY <1>4 DEF HoldsTask
<1>7. open' = open
  BY DEF Load
<1>8. \A x \in Tasks : open'[x] \in Nat /\ open'[x] >= open[x]
  BY <1>7 DEF TInv, RowsOK
<1> QED
  BY <1>3, <1>4, <1>5, <1>6, <1>8, MovesQuietly DEF TInv

LEMMA BeginTyped ==
  ASSUME NEW u \in Users, TInv, Begin(u)
  PROVE  TInv'
<1>1. ASSUME NEW op \in OrderRequests, BeginOrder(u, op) PROVE TInv'
  BY <1>1, LoadTyped DEF BeginOrder
<1>2. ASSUME NEW op \in ProcessRequests, NEW p \in Processes, BeginProcess(u, op, p)
      PROVE  TInv'
  BY <1>2, LoadTyped DEF BeginProcess
<1>3. ASSUME NEW op \in TaskRequests, NEW t \in Tasks, BeginTask(u, op, t)
      PROVE  TInv'
  <2>1. Home[t] \in Processes
    BY WriterAssumption
  <2> QED
    BY <1>3, <2>1, LoadTyped DEF BeginTask
<1> QED
  BY <1>1, <1>2, <1>3 DEF Begin

LEMMA GeneratedTyped ==
  ASSUME NEW count \in [Tasks -> Nat], NEW todo \in SUBSET Tasks
  PROVE  /\ Generated(count, todo) \in [Tasks -> Nat]
         /\ \A t \in Tasks : Generated(count, todo)[t] = count[t] + (IF t \in todo THEN 1 ELSE 0)
  BY DEF Generated

LEMMA CopyTyped ==
  ASSUME NEW u \in Users, TInv
  PROVE  /\ req[u] \in Request
         /\ req[u].order \in OrderRow /\ req[u].todo \in SUBSET Tasks
         /\ req[u].order.approval \in Approvals /\ order.approval \in Approvals
  BY DEF TInv, RowsOK, RequestsOK, Request, OrderRow

LEMMA SubmitTyped ==
  ASSUME NEW u \in Users, TInv, Submit(u)
  PROVE  TInv'
<1>0. /\ UNCHANGED <<process, edition, rows, made, open, stale, removed, begun>>
      /\ order' = order \/ order' = [order EXCEPT !.approval = "submitted"]
  BY DEF Submit
<1>1. \A x \in Tasks : open'[x] \in Nat /\ open'[x] >= open[x]
  BY <1>0 DEF TInv, RowsOK
<1>2. [order EXCEPT !.approval = "submitted"] \in OrderRow
  BY DEF TInv, RowsOK, OrderRow, Approvals
<1>3. RowsOK'
  BY <1>0, <1>2 DEF TInv, RowsOK
<1>4. CASE Done(u)
  BY <1>1, <1>3, <1>4, EndsQuietly DEF TInv
<1>5. CASE req' = [req EXCEPT ![u].at = "held", ![u].edition = edition,
                              ![u].todo = {t \in Tasks : made[t] = 0 /\ Home[t] \in Existing},
                              ![u].order = [order EXCEPT !.approval = "submitted"]]
  <2> DEFINE new == [req[u] EXCEPT !.at = "held", !.edition = edition,
                                   !.todo = {t \in Tasks : made[t] = 0 /\ Home[t] \in Existing},
                                   !.order = [order EXCEPT !.approval = "submitted"]]
  <2>1. /\ edition \in [Processes -> Nat]
        /\ {t \in Tasks : made[t] = 0 /\ Home[t] \in Existing} \in SUBSET Tasks
    BY DEF TInv, RowsOK
  <2>2. new \in Request
    BY <1>2, <2>1, CopyTyped DEF Request, Places
  <2>3. req' = [req EXCEPT ![u] = new]
    BY <1>5 DEF TInv, RequestsOK
  <2>4. req'[u] = new /\ (\A v \in Users \ {u} : req'[v] = req[v]) /\ RequestsOK'
    BY <2>2, <2>3 DEF TInv, RequestsOK
  <2>5. new.at = "held" /\ new.op = req[u].op
    BY CopyTyped DEF Request
  <2>6. \A x \in Tasks : ~HoldsTask(u, x)'
    BY <2>4, <2>5 DEF HoldsTask, Submit
  <2> QED
    BY <1>1, <1>3, <2>4, <2>5, <2>6, MovesQuietly DEF TInv
<1> QED
  BY <1>4, <1>5 DEF Submit

LEMMA MissingTyped ==
  ASSUME NEW u \in Users, TInv, Missing(u)
  PROVE  TInv'
<1> DEFINE list == {t \in Tasks : /\ made[t] = 0 /\ Home[t] \in Existing
                                 /\ req[u].process \in {None, Home[t]}}
           new == [req[u] EXCEPT !.at = "generate", !.edition = edition, !.todo = list]
<1>1. /\ UNCHANGED <<order, process, edition, rows, made, open, stale, removed, begun>>
      /\ req[u].op \in {"approve", "batch"}
      /\ req' = [req EXCEPT ![u].at = "generate", ![u].edition = edition, ![u].todo = list]
  BY DEF Missing
<1>2. edition \in [Processes -> Nat] /\ list \in SUBSET Tasks
  BY DEF TInv, RowsOK
<1>3. new \in Request
  BY <1>2, CopyTyped DEF Request, Places
<1>4. req' = [req EXCEPT ![u] = new]
  BY <1>1 DEF TInv, RequestsOK
<1>5. req'[u] = new /\ (\A v \in Users \ {u} : req'[v] = req[v]) /\ RequestsOK'
  BY <1>3, <1>4 DEF TInv, RequestsOK
<1>6. new.at = "generate" /\ new.op = req[u].op
  BY CopyTyped DEF Request
<1>7. \A x \in Tasks : ~HoldsTask(u, x)'
  BY <1>1, <1>5, <1>6 DEF HoldsTask
<1>8. \A x \in Tasks : open'[x] \in Nat /\ open'[x] >= open[x]
  BY <1>1 DEF TInv, RowsOK
<1>9. RowsOK'
  BY <1>1 DEF TInv, RowsOK
<1> QED
  BY <1>5, <1>6, <1>7, <1>8, <1>9, MovesQuietly DEF TInv

(* Generating tasks adds an open row to each.                              *)
LEMMA GenerationKeepsRows ==
  ASSUME TInv, NEW todo \in SUBSET Tasks,
         made' = Generated(made, todo), open' = Generated(open, todo)
  PROVE  /\ made' \in [Tasks -> Nat] /\ open' \in [Tasks -> Nat]
         /\ \A t \in Tasks : open'[t] <= made'[t]
         /\ \A t \in Tasks : open'[t] >= open[t] /\ open'[t] \in Nat
<1>1. /\ made' \in [Tasks -> Nat] /\ open' \in [Tasks -> Nat]
      /\ \A t \in Tasks : /\ made'[t] = made[t] + (IF t \in todo THEN 1 ELSE 0)
                          /\ open'[t] = open[t] + (IF t \in todo THEN 1 ELSE 0)
  BY GeneratedTyped DEF TInv, RowsOK
<1>2. \A t \in Tasks : made[t] \in Nat /\ open[t] \in Nat /\ open[t] <= made[t]
  BY DEF TInv, RowsOK
<1> QED
  BY <1>1, <1>2

LEMMA ApproveTyped ==
  ASSUME NEW u \in Users, TInv, Approve(u)
  PROVE  TInv'
<1>1. /\ Done(u)
      /\ made' = Generated(made, req[u].todo) /\ open' = Generated(open, req[u].todo)
      /\ removed' = removed \ req[u].todo
      /\ order' = [status |-> "in_progress", approval |-> "approved"]
      /\ UNCHANGED <<process, edition, rows, begun>>
  BY DEF Approve
<1>2. stale' \subseteq Marks
  <2>1. Outdated(u) \cup TakenBack \cup Listed(u) \in SUBSET Marks
    BY DEF Outdated, TakenBack, Listed, Marks
  <2>2. TakenBack \cup Listed(u) \in SUBSET Marks
    BY DEF TakenBack, Listed, Marks
  <2> QED
    BY <2>1, <2>2, MarkTyped DEF Approve, TInv
<1>3. order' \in OrderRow
  BY <1>1 DEF OrderRow, Approvals
<1>4. /\ made' \in [Tasks -> Nat] /\ open' \in [Tasks -> Nat]
      /\ \A t \in Tasks : open'[t] <= made'[t]
      /\ \A t \in Tasks : open'[t] >= open[t] /\ open'[t] \in Nat
  BY <1>1, CopyTyped, GenerationKeepsRows
<1>5. RowsOK'
  BY <1>1, <1>2, <1>3, <1>4 DEF TInv, RowsOK
<1> QED
  BY <1>1, <1>4, <1>5, EndsQuietly DEF TInv

LEMMA RejectTyped ==
  ASSUME NEW u \in Users, TInv, Reject(u)
  PROVE  TInv'
<1>1. /\ Done(u)
      /\ order' = [status |-> "pending", approval |-> "rejected"]
      /\ Mark(Outdated(u) \cup TakenBack)
      /\ UNCHANGED <<process, edition, rows, made, open, removed, begun>>
  BY DEF Reject
<1>2. stale' \subseteq Marks
  <2>1. Outdated(u) \cup TakenBack \in SUBSET Marks
    BY DEF Outdated, TakenBack, Marks
  <2> QED
    BY <1>1, <2>1, MarkTyped DEF TInv
<1>3. RowsOK'
  BY <1>1, <1>2 DEF TInv, RowsOK, OrderRow, Approvals
<1>4. \A x \in Tasks : open'[x] \in Nat /\ open'[x] >= open[x]
  BY <1>1 DEF TInv, RowsOK
<1> QED
  BY <1>1, <1>3, <1>4, EndsQuietly DEF TInv

LEMMA EditedTyped ==
  ASSUME NEW u \in Users, TInv, NEW privileged \in BOOLEAN
  PROVE  Edited(req[u].order, privileged) \in OrderRow
<1>1. [req[u].order EXCEPT !.approval = "submitted"] \in OrderRow
  BY CopyTyped DEF OrderRow, Approvals
<1>2. [req[u].order EXCEPT !.approval = "draft"] \in OrderRow
  BY CopyTyped DEF OrderRow, Approvals
<1> QED
  BY <1>1, <1>2, CopyTyped DEF Edited

(* Requests that end, or statements of their own, which leave the rows     *)
(* open that others have locked.                                           *)
LEMMA EndsCarefully ==
  ASSUME NEW u \in Users, TInv, Done(u) \/ (req' = req /\ req[u] = Idle),
         \A t \in Tasks : \A v \in Users \ {u} : HoldsTask(v, t) => open'[t] > 0
  PROVE  RequestsOK' /\ Locks'
<1>1. /\ RequestsOK' /\ req'[u] = Idle
      /\ \A v \in Users \ {u} : req'[v] = req[v]
  BY DoneKeeps DEF TInv, RequestsOK
<1>2. \A t \in Tasks : ~HoldsTask(u, t)'
  BY <1>1 DEF HoldsTask, Idle
<1> QED
  BY <1>1, <1>2, LocksKept DEF TInv, Idle

(* What is replaced is not locked by anybody else.                         *)
LEMMA ReplaceTyped ==
  ASSUME NEW u \in Users, TInv, NEW gone \in SUBSET Processes, NEW new \in SUBSET Processes,
         Replace(u, gone, new)
  PROVE  /\ process' \in [Processes -> ProcessStatuses]
         /\ edition' \in [Processes -> Nat] /\ rows' \in Nat
         /\ made' \in [Tasks -> Nat] /\ open' \in [Tasks -> Nat]
         /\ \A t \in Tasks : open'[t] <= made'[t]
         /\ removed' \subseteq Tasks
         /\ \A t \in Tasks : \A v \in Users \ {u} : HoldsTask(v, t) => open'[t] > 0
<1>1. /\ RowsFree(u, gone)
      /\ process' = [p \in Processes |-> CASE p \in new -> "pending"
                                           [] p \in gone \ new -> "absent"
                                           [] OTHER -> process[p]]
      /\ edition' = [p \in Processes |-> IF p \in new THEN rows + 1 ELSE edition[p]]
      /\ rows' = IF new = {} THEN rows ELSE rows + 1
      /\ made' = [t \in Tasks |-> IF Home[t] \in gone THEN 0 ELSE made[t]]
      /\ open' = [t \in Tasks |-> IF Home[t] \in gone THEN 0 ELSE open[t]]
      /\ removed' = removed \cup {t \in Tasks : Home[t] \in gone \cup new}
  BY DEF Replace, Without
<1>2. process' \in [Processes -> ProcessStatuses]
  BY <1>1 DEF TInv, RowsOK, ProcessStatuses
<1>3. edition' \in [Processes -> Nat] /\ rows' \in Nat
  BY <1>1 DEF TInv, RowsOK
<1>4. /\ made' \in [Tasks -> Nat] /\ open' \in [Tasks -> Nat]
      /\ \A t \in Tasks : open'[t] <= made'[t]
  BY <1>1 DEF TInv, RowsOK
<1>5. removed' \subseteq Tasks
  BY <1>1 DEF TInv, RowsOK
<1>6. ASSUME NEW t \in Tasks, NEW v \in Users \ {u}, HoldsTask(v, t) PROVE open'[t] > 0
  <2>1. Home[t] \notin gone
    BY <1>1, <1>6 DEF RowsFree, FreeOf, TasksOf
  <2>2. open'[t] = open[t]
    BY <1>1, <2>1
  <2> QED
    BY <1>6, <2>2 DEF TInv, Locks
<1> QED
  BY <1>2, <1>3, <1>4, <1>5, <1>6

LEMMA EditTyped ==
  ASSUME NEW u \in Users, NEW privileged \in BOOLEAN, TInv, Edit(u, privileged)
  PROVE  TInv'
<1>1. Done(u) /\ UNCHANGED begun
  BY DEF Edit
<1>2. CASE EditFields(u, privileged)
  <2>1. /\ order' = Edited(req[u].order, privileged) /\ Mark(Outdated(u))
        /\ UNCHANGED <<process, edition, rows, made, open, removed>>
    BY <1>2 DEF EditFields
  <2>2. stale' \subseteq Marks
    BY <2>1 DEF Outdated, Marks, Mark, TInv, RowsOK
  <2>3. RowsOK'
    BY <1>1, <2>1, <2>2, EditedTyped DEF TInv, RowsOK
  <2>4. \A x \in Tasks : open'[x] \in Nat /\ open'[x] >= open[x]
    BY <2>1 DEF TInv, RowsOK
  <2> QED
    BY <1>1, <2>3, <2>4, EndsQuietly DEF TInv
<1>3. ASSUME NEW listed \in SUBSET Processes, EditLists(u, privileged, listed) PROVE TInv'
  <2> DEFINE gone == {p \in Processes : process[p] = "pending"}
             new == {p \in listed : process[p] \in {"pending", "absent"}}
             saved == Edited(req[u].order, privileged)
  <2>1. /\ order' = saved /\ Replace(u, gone, new)
        /\ Mark(Outdated(u) \cup Struck(process', saved))
    BY <1>3 DEF EditLists
  <2>2. stale' \subseteq Marks
    BY <2>1 DEF Outdated, Struck, Marks, Mark, TInv, RowsOK
  <2>3. gone \in SUBSET Processes /\ new \in SUBSET Processes
    OBVIOUS
  <2> HIDE DEF gone, new
  <2>4. /\ process' \in [Processes -> ProcessStatuses]
        /\ edition' \in [Processes -> Nat] /\ rows' \in Nat
        /\ made' \in [Tasks -> Nat] /\ open' \in [Tasks -> Nat]
        /\ \A t \in Tasks : open'[t] <= made'[t]
        /\ removed' \subseteq Tasks
        /\ \A t \in Tasks : \A v \in Users \ {u} : HoldsTask(v, t) => open'[t] > 0
    BY <2>1, <2>3, ReplaceTyped
  <2>5. RowsOK'
    BY <1>1, <2>1, <2>2, <2>4, EditedTyped DEF TInv, RowsOK
  <2>6. RequestsOK' /\ Locks'
    BY <1>1, <2>4, EndsCarefully
  <2> QED
    BY <2>5, <2>6 DEF TInv
<1> QED
  BY <1>2, <1>3 DEF Edit

LEMMA SyncTyped ==
  ASSUME NEW u \in Users, NEW kept \in SUBSET Processes, TInv, Synchronise(u, kept)
  PROVE  TInv'
<1> DEFINE taken == {t \in Tasks : Home[t] \notin kept /\ Current(u, Home[t])}
           missing == {t \in Tasks : Home[t] \in kept \cap Existing /\ made[t] = 0}
           Synced(count) == [t \in Tasks |-> CASE t \in taken -> 0
                                               [] t \in missing -> 1
                                               [] OTHER -> count[t]]
<1>1. /\ \A t \in taken : FreeOf(u, t)
      /\ made' = Synced(made) /\ open' = Synced(open)
      /\ removed' = removed \cup taken
      /\ Mark(Outdated(u)) /\ Done(u)
      /\ UNCHANGED <<order, process, edition, rows, begun>>
  BY DEF Synchronise
<1>2. \A t \in Tasks : made[t] \in Nat /\ open[t] \in Nat /\ open[t] <= made[t]
  BY DEF TInv, RowsOK
<1>3. taken \subseteq Tasks
  OBVIOUS
<1> HIDE DEF taken, missing
<1>4. /\ made' \in [Tasks -> Nat] /\ open' \in [Tasks -> Nat]
      /\ \A t \in Tasks : open'[t] <= made'[t]
  BY <1>1, <1>2
<1>5. stale' \subseteq Marks
  BY <1>1 DEF Outdated, Marks, Mark, TInv, RowsOK
<1>6. RowsOK'
  BY <1>1, <1>3, <1>4, <1>5 DEF TInv, RowsOK
<1>7. ASSUME NEW t \in Tasks, NEW v \in Users \ {u}, HoldsTask(v, t) PROVE open'[t] > 0
  <2>1. t \notin taken
    BY <1>1, <1>7 DEF FreeOf
  <2>2. open'[t] = 1 \/ open'[t] = open[t]
    BY <1>1, <2>1
  <2> QED
    BY <1>7, <2>2 DEF TInv, Locks
<1>8. Done(u)
  BY <1>1
<1>9. RequestsOK' /\ Locks'
  BY <1>7, <1>8, EndsCarefully
<1> QED
  BY <1>6, <1>9 DEF TInv

(* Steps that only go on to another place, reading or marking.             *)
LEMMA GoesOn ==
  ASSUME NEW u \in Users, NEW place \in Places, TInv, Goto(u, place),
         req[u].op # "confirm" \/ req[u].at # "begun",
         place = "commit" => req[u].op = "confirm",
         UNCHANGED <<order, process, edition, rows, removed, begun>>,
         stale' \subseteq Marks,
         made' \in [Tasks -> Nat], open' \in [Tasks -> Nat],
         \A t \in Tasks : open'[t] <= made'[t] /\ open'[t] >= open[t]
  PROVE  TInv'
<1>1. /\ RequestsOK'
      /\ \A v \in Users \ {u} : req'[v] = req[v]
      /\ req'[u] = [req[u] EXCEPT !.at = place]
  BY GotoKeeps DEF TInv
<1>2. req'[u].at = place /\ req'[u].op = req[u].op /\ req'[u].task = req[u].task
  BY <1>1, CopyTyped DEF Request
<1>3. \A t \in Tasks : HoldsTask(u, t)' => HoldsTask(u, t)
  BY <1>2 DEF HoldsTask
<1>4. RowsOK'
  BY DEF TInv, RowsOK
<1>5. Locks'
  BY <1>1, <1>2, <1>3, MovesQuietly
<1> QED
  BY <1>1, <1>4, <1>5 DEF TInv

LEMMA CheckTyped ==
  ASSUME NEW u \in Users, TInv, Check(u)
  PROVE  TInv'
<1>1. "finish" \in Places
  BY DEF Places
<1>2. /\ Goto(u, "finish") /\ req[u].op = "check"
      /\ UNCHANGED <<order, process, edition, rows, made, open, stale, removed, begun>>
  BY DEF Check
<1> QED
  BY <1>1, <1>2, GoesOn DEF TInv, RowsOK

LEMMA GenerateTyped ==
  ASSUME NEW u \in Users, TInv, Generate(u)
  PROVE  TInv'
<1>1. /\ req[u].op = "batch" /\ Goto(u, "save") /\ Mark(Listed(u))
      /\ made' = Generated(made, req[u].todo) /\ open' = Generated(open, req[u].todo)
      /\ UNCHANGED <<order, process, edition, rows, removed, begun>>
  BY DEF Generate
<1>2. "save" \in Places /\ Listed(u) \in SUBSET Marks
  BY DEF Places, Listed, Marks
<1>3. stale' \subseteq Marks
  BY <1>1, <1>2, MarkTyped DEF TInv
<1>4. /\ made' \in [Tasks -> Nat] /\ open' \in [Tasks -> Nat]
      /\ \A t \in Tasks : open'[t] <= made'[t] /\ open'[t] >= open[t]
  BY <1>1, CopyTyped, GenerationKeepsRows
<1> QED
  BY <1>1, <1>2, <1>3, <1>4, GoesOn

LEMMA SaveTyped ==
  ASSUME NEW u \in Users, TInv, NEW status \in ProcessStatuses, Save(u, status)
  PROVE  process' \in [Processes -> ProcessStatuses] /\ edition' \in [Processes -> Nat]
<1> DEFINE p == req[u].process
<1>1. /\ process' = [process EXCEPT ![p] = status]
      /\ edition' = [edition EXCEPT ![p] = req[u].edition[p]]
  BY DEF Save
<1>2. req[u].edition \in [Processes -> Nat]
  BY CopyTyped DEF Request
<1> QED
  BY <1>1, <1>2 DEF TInv, RowsOK

LEMMA StartTyped ==
  ASSUME NEW u \in Users, TInv, Start(u)
  PROVE  TInv'
<1>1. /\ Save(u, "in_progress")
      /\ Mark(IF process[req[u].process] # "pending" THEN {"process"} ELSE {})
      /\ Done(u)
      /\ UNCHANGED <<order, rows, made, open, removed, begun>>
  BY DEF Start
<1>2. (IF process[req[u].process] # "pending" THEN {"process"} ELSE {}) \in SUBSET Marks
  BY DEF Marks
<1>3. stale' \subseteq Marks
  BY <1>1, <1>2, MarkTyped DEF TInv
<1>4. process' \in [Processes -> ProcessStatuses] /\ edition' \in [Processes -> Nat]
  BY <1>1, SaveTyped DEF ProcessStatuses
<1>5. RowsOK'
  BY <1>1, <1>3, <1>4 DEF TInv, RowsOK
<1>6. \A x \in Tasks : open'[x] \in Nat /\ open'[x] >= open[x]
  BY <1>1 DEF TInv, RowsOK
<1> QED
  BY <1>1, <1>5, <1>6, EndsQuietly DEF TInv

(* Changing one entry of a function.                                       *)
LEMMA EntryChanged ==
  ASSUME NEW f \in [Tasks -> Nat], NEW t, NEW n, t \in Tasks => n \in Nat
  PROVE  /\ [f EXCEPT ![t] = n] \in [Tasks -> Nat]
         /\ \A x \in Tasks : [f EXCEPT ![t] = n][x] = IF x = t THEN n ELSE f[x]
  OBVIOUS

LEMMA ReportTyped ==
  ASSUME NEW u \in Users, TInv, Report(u)
  PROVE  TInv'
<1> DEFINE t == req[u].task
<1>1. /\ req[u].op = "report" /\ TaskFree(u) /\ open[t] > 0
      /\ open' = [open EXCEPT ![t] = @ - 1] /\ Goto(u, "judge")
      /\ UNCHANGED <<order, process, edition, rows, made, stale, removed, begun>>
  BY DEF Report
<1>2. open' \in [Tasks -> Nat] /\ \A x \in Tasks : open'[x] <= made'[x]
  <2>1. /\ open \in [Tasks -> Nat] /\ made' = made
        /\ \A x \in Tasks : open[x] \in Nat /\ made[x] \in Nat /\ open[x] <= made[x]
    BY <1>1 DEF TInv, RowsOK
  <2>2. t \in Tasks => open[t] - 1 \in Nat /\ open[t] - 1 <= made[t]
    BY <1>1, <2>1
  <2>3. /\ open' \in [Tasks -> Nat]
        /\ \A x \in Tasks : open'[x] = IF x = t THEN open[t] - 1 ELSE open[x]
    BY <1>1, <2>1, <2>2, EntryChanged
  <2> QED
    BY <2>1, <2>2, <2>3
<1>3. RowsOK'
  BY <1>1, <1>2 DEF TInv, RowsOK
<1>4. /\ RequestsOK'
      /\ \A v \in Users \ {u} : req'[v] = req[v]
      /\ req'[u] = [req[u] EXCEPT !.at = "judge"]
  BY <1>1, GotoKeeps DEF TInv, Places
<1>5. req'[u].at = "judge" /\ req'[u].op = "report"
  BY <1>1, <1>4, CopyTyped DEF Request
<1>6. \A x \in Tasks : ~HoldsTask(u, x)'
  BY <1>5 DEF HoldsTask
<1>7. ASSUME NEW x \in Tasks, NEW v \in Users \ {u}, HoldsTask(v, x) PROVE open'[x] > 0
  <2>1. x # t
    BY <1>1, <1>7 DEF TaskFree, FreeOf
  <2>2. open'[x] = open[x]
    BY <1>1, <2>1 DEF TInv, RowsOK
  <2> QED
    BY <1>7, <2>2 DEF TInv, Locks
<1>8. Locks'
  BY <1>4, <1>5, <1>6, <1>7, LocksKept DEF TInv
<1> QED
  BY <1>3, <1>4, <1>8 DEF TInv

LEMMA CorrectTyped ==
  ASSUME NEW u \in Users, TInv, Correct(u)
  PROVE  TInv'
<1> DEFINE t == req[u].task
<1>1. /\ made[t] > open[t]
      /\ open' = [open EXCEPT ![t] = @ + 1] /\ Done(u)
      /\ UNCHANGED <<order, process, edition, rows, made, stale, removed, begun>>
  BY DEF Correct, Reopened
<1>2. /\ open' \in [Tasks -> Nat]
      /\ \A x \in Tasks : open'[x] <= made'[x] /\ open'[x] >= open[x] /\ open'[x] \in Nat
  <2>1. /\ open \in [Tasks -> Nat] /\ made' = made
        /\ \A x \in Tasks : open[x] \in Nat /\ made[x] \in Nat /\ open[x] <= made[x]
    BY <1>1 DEF TInv, RowsOK
  <2>2. t \in Tasks => open[t] + 1 \in Nat /\ open[t] + 1 <= made[t]
    BY <1>1, <2>1
  <2>3. /\ open' \in [Tasks -> Nat]
        /\ \A x \in Tasks : open'[x] = IF x = t THEN open[t] + 1 ELSE open[x]
    BY <1>1, <2>1, <2>2, EntryChanged
  <2> QED
    BY <2>1, <2>2, <2>3
<1>3. RowsOK'
  BY <1>1, <1>2 DEF TInv, RowsOK
<1> QED
  BY <1>1, <1>2, <1>3, EndsQuietly DEF TInv

(* A confirmation takes the lock only when no other request has it.        *)
LEMMA ConfirmTyped ==
  ASSUME NEW u \in Users, TInv, Confirm(u)
  PROVE  TInv'
<1> DEFINE t == req[u].task
           new == [req[u] EXCEPT !.at = "judge", !.order = order]
<1>1. /\ req[u].op = "confirm" /\ TaskFree(u) /\ open[t] > 0
      /\ req' = [req EXCEPT ![u].at = "judge", ![u].order = order]
      /\ UNCHANGED <<order, process, edition, rows, made, open, stale, removed, begun>>
  BY DEF Confirm
<1>2. new \in Request
  BY CopyTyped DEF TInv, RowsOK, Request, Places
<1>3. req' = [req EXCEPT ![u] = new]
  BY <1>1 DEF TInv, RequestsOK
<1>4. req'[u] = new /\ (\A v \in Users \ {u} : req'[v] = req[v]) /\ RequestsOK'
  BY <1>2, <1>3 DEF TInv, RequestsOK
<1>5. new.at = "judge" /\ new.task = t
  BY CopyTyped DEF Request
<1>6. ASSUME NEW x \in Tasks, HoldsTask(u, x)'
      PROVE  (\A v \in Users \ {u} : ~HoldsTask(v, x)) /\ open'[x] > 0
  <2>1. x = t
    BY <1>4, <1>5, <1>6 DEF HoldsTask
  <2> QED
    BY <1>1, <2>1 DEF TaskFree, FreeOf
<1>7. \A x \in Tasks : \A v \in Users \ {u} : HoldsTask(v, x) => open'[x] > 0
  BY <1>1 DEF TInv, Locks
<1>8. Locks'
  BY <1>4, <1>5, <1>6, <1>7, LocksKept DEF TInv
<1>9. RowsOK'
  BY <1>1 DEF TInv, RowsOK
<1> QED
  BY <1>4, <1>8, <1>9 DEF TInv

LEMMA ListTyped ==
  ASSUME NEW u \in Users, TInv, List(u)
  PROVE  TInv'
<1> DEFINE list == OpenFor(u, req[u].process)
           new == [req[u] EXCEPT !.at = "force", !.todo = list]
<1>1. /\ req[u].op = "complete"
      /\ req' = [req EXCEPT ![u].at = "force", ![u].todo = list]
      /\ UNCHANGED <<order, process, edition, rows, made, open, stale, removed, begun>>
  BY DEF List
<1>2. list \in SUBSET Tasks
  BY DEF OpenFor, TasksOf
<1>3. new \in Request
  BY <1>2, CopyTyped DEF Request, Places
<1>4. req' = [req EXCEPT ![u] = new]
  BY <1>1 DEF TInv, RequestsOK
<1>5. req'[u] = new /\ (\A v \in Users \ {u} : req'[v] = req[v]) /\ RequestsOK'
  BY <1>3, <1>4 DEF TInv, RequestsOK
<1>6. new.at = "force" /\ new.op = "complete"
  BY <1>1, CopyTyped DEF Request
<1>7. \A x \in Tasks : ~HoldsTask(u, x)'
  BY <1>5, <1>6 DEF HoldsTask
<1>8. \A x \in Tasks : open'[x] \in Nat /\ open'[x] >= open[x]
  BY <1>1 DEF TInv, RowsOK
<1>9. RowsOK'
  BY <1>1 DEF TInv, RowsOK
<1> QED
  BY <1>5, <1>6, <1>7, <1>8, <1>9, MovesQuietly DEF TInv

LEMMA CompleteTaskTyped ==
  ASSUME NEW u \in Users, NEW t \in Tasks, TInv, CompleteTask(u, t)
  PROVE  TInv'
<1> DEFINE new == [req[u] EXCEPT !.todo = @ \ {t}]
<1>1. /\ req[u].op = "complete" /\ req[u].at = "force"
      /\ FreeOf(u, t)
      /\ open' = [open EXCEPT ![t] = 0]
      /\ made' = [made EXCEPT ![t] = IF @ = 0 THEN 1 ELSE @]
      /\ req' = [req EXCEPT ![u].todo = @ \ {t}]
      /\ UNCHANGED <<order, process, edition, rows, stale, removed, begun>>
  BY DEF CompleteTask
<1>2. new \in Request
  BY CopyTyped DEF Request
<1>3. req' = [req EXCEPT ![u] = new]
  BY <1>1 DEF TInv, RequestsOK
<1>4. req'[u] = new /\ (\A v \in Users \ {u} : req'[v] = req[v]) /\ RequestsOK'
  BY <1>2, <1>3 DEF TInv, RequestsOK
<1>5. new.at = "force" /\ new.op = "complete"
  BY <1>1, CopyTyped DEF Request
<1>6. /\ made' \in [Tasks -> Nat] /\ open' \in [Tasks -> Nat]
      /\ \A x \in Tasks : open'[x] <= made'[x]
  <2>1. \A x \in Tasks : made[x] \in Nat /\ open[x] \in Nat /\ open[x] <= made[x]
    BY DEF TInv, RowsOK
  <2>2. /\ \A x \in Tasks : open'[x] = IF x = t THEN 0 ELSE open[x]
        /\ \A x \in Tasks : made'[x] = IF x = t /\ made[t] = 0 THEN 1 ELSE made[x]
        /\ made' \in [Tasks -> Nat] /\ open' \in [Tasks -> Nat]
    BY <1>1 DEF TInv, RowsOK
  <2> QED
    BY <2>1, <2>2
<1>7. RowsOK'
  BY <1>1, <1>6 DEF TInv, RowsOK
<1>8. \A x \in Tasks : ~HoldsTask(u, x)'
  BY <1>4, <1>5 DEF HoldsTask
<1>9. ASSUME NEW x \in Tasks, NEW v \in Users \ {u}, HoldsTask(v, x) PROVE open'[x] > 0
  <2>1. x # t
    BY <1>1, <1>9 DEF FreeOf
  <2>2. open'[x] = open[x]
    BY <1>1, <2>1 DEF TInv, RowsOK
  <2> QED
    BY <1>9, <2>2 DEF TInv, Locks
<1>10. Locks'
  BY <1>4, <1>5, <1>8, <1>9, LocksKept DEF TInv
<1> QED
  BY <1>4, <1>7, <1>10 DEF TInv

LEMMA JudgeTyped ==
  ASSUME NEW u \in Users, TInv, Judge(u)
  PROVE  TInv'
<1>1. /\ req[u].at = "judge"
      /\ UNCHANGED <<order, process, edition, rows, made, open, stale, removed, begun>>
  BY DEF Judge
<1>2. "close" \in Places /\ "commit" \in Places
  BY DEF Places
<1>3. \A x \in Tasks : open'[x] \in Nat /\ open'[x] >= open[x]
  BY <1>1 DEF TInv, RowsOK
<1>4. RowsOK'
  BY <1>1 DEF TInv, RowsOK
<1>5. CASE Goto(u, "close")
  BY <1>1, <1>2, <1>5, GoesOn DEF TInv, RowsOK
<1>6. CASE req[u].op = "confirm" /\ Goto(u, "commit")
  BY <1>1, <1>2, <1>6, GoesOn DEF TInv, RowsOK
<1>7. CASE Done(u)
  BY <1>3, <1>4, <1>7, EndsQuietly DEF TInv
<1> QED
  BY <1>5, <1>6, <1>7 DEF Judge

LEMMA CloseTyped ==
  ASSUME NEW u \in Users, TInv, Close(u)
  PROVE  TInv'
<1> DEFINE new == [req[u] EXCEPT !.at = "count", !.closes = TRUE]
<1>1. /\ req[u].at \in {"close", "force"}
      /\ req' = [req EXCEPT ![u].at = "count", ![u].closes = TRUE]
      /\ Save(u, "completed") \/ UNCHANGED <<process, edition>>
      /\ UNCHANGED <<order, rows, made, open, stale, removed, begun>>
  BY DEF Close
<1>2. new \in Request
  BY CopyTyped DEF Request, Places
<1>3. req' = [req EXCEPT ![u] = new]
  BY <1>1 DEF TInv, RequestsOK
<1>4. req'[u] = new /\ (\A v \in Users \ {u} : req'[v] = req[v]) /\ RequestsOK'
  BY <1>2, <1>3 DEF TInv, RequestsOK
<1>5. new.at = "count" /\ new.op = req[u].op /\ new.task = req[u].task
  BY CopyTyped DEF Request
<1>6. \A x \in Tasks : HoldsTask(u, x)' => HoldsTask(u, x)
  BY <1>1, <1>4, <1>5 DEF HoldsTask
<1>7. \A x \in Tasks : open'[x] \in Nat /\ open'[x] >= open[x]
  BY <1>1 DEF TInv, RowsOK
<1>8. process' \in [Processes -> ProcessStatuses] /\ edition' \in [Processes -> Nat]
  BY <1>1, SaveTyped DEF TInv, RowsOK, ProcessStatuses
<1>9. RowsOK'
  BY <1>1, <1>8 DEF TInv, RowsOK
<1> QED
  BY <1>4, <1>5, <1>6, <1>7, <1>9, MovesQuietly DEF TInv

LEMMA CountTyped ==
  ASSUME NEW u \in Users, TInv, Count(u)
  PROVE  TInv'
<1>1. /\ req[u].at = "count"
      /\ UNCHANGED <<order, process, edition, rows, made, open, removed, begun>>
  BY DEF Count
<1>2. "finish" \in Places /\ "commit" \in Places
  BY DEF Places
<1>3. \A x \in Tasks : open'[x] \in Nat /\ open'[x] >= open[x]
  BY <1>1 DEF TInv, RowsOK
<1>4. stale' \subseteq Marks
  BY DEF Count, Mark, Marks, TInv, RowsOK
<1>5. RowsOK'
  BY <1>1, <1>4 DEF TInv, RowsOK
<1>6. CASE Goto(u, "finish")
  BY <1>1, <1>2, <1>4, <1>6, GoesOn DEF TInv, RowsOK
<1>7. CASE req[u].op = "confirm" /\ Goto(u, "commit")
  BY <1>1, <1>2, <1>4, <1>7, GoesOn DEF TInv, RowsOK
<1>8. CASE Done(u)
  BY <1>3, <1>5, <1>8, EndsQuietly DEF TInv
<1> QED
  BY <1>6, <1>7, <1>8 DEF Count

(* A confirmation that commits takes away the row it has locked.           *)
LEMMA TakesItsRow ==
  ASSUME NEW u \in Users, TInv, Done(u), req[u].op = "confirm", req[u].at # "begun",
         open' = [open EXCEPT ![req[u].task] = @ - 1], made' = made
  PROVE  /\ RequestsOK' /\ Locks'
         /\ open' \in [Tasks -> Nat] /\ \A x \in Tasks : open'[x] <= made'[x]
<1> DEFINE t == req[u].task
<1>1. \A x \in Tasks : x = t => open[x] > 0
  BY DEF TInv, Locks, HoldsTask
<1>2. open' \in [Tasks -> Nat] /\ \A x \in Tasks : open'[x] <= made'[x]
  <2>1. /\ open \in [Tasks -> Nat] /\ made' = made
        /\ \A x \in Tasks : open[x] \in Nat /\ made[x] \in Nat /\ open[x] <= made[x]
    BY DEF TInv, RowsOK
  <2>2. t \in Tasks => open[t] - 1 \in Nat /\ open[t] - 1 <= made[t]
    BY <1>1, <2>1
  <2>3. /\ open' \in [Tasks -> Nat]
        /\ \A x \in Tasks : open'[x] = IF x = t THEN open[t] - 1 ELSE open[x]
    BY <2>1, <2>2, EntryChanged
  <2> QED
    BY <2>1, <2>2, <2>3
<1>3. /\ RequestsOK'
      /\ \A v \in Users : req'[v] = IF v = u THEN Idle ELSE req[v]
  BY DoneKeeps DEF TInv
<1>4. \A x \in Tasks : ~HoldsTask(u, x)'
  BY <1>3 DEF HoldsTask, Idle
<1>5. ASSUME NEW x \in Tasks, NEW v \in Users \ {u}, HoldsTask(v, x) PROVE open'[x] > 0
  <2>1. x # t
    BY <1>5 DEF TInv, Locks, HoldsTask
  <2>2. open'[x] = open[x]
    BY <2>1 DEF TInv, RowsOK
  <2> QED
    BY <1>5, <2>2 DEF TInv, Locks
<1>6. Locks'
  BY <1>3, <1>4, <1>5, LocksKept DEF TInv, Idle
<1> QED
  BY <1>2, <1>3, <1>6

LEMMA FinishTyped ==
  ASSUME NEW u \in Users, TInv, Finish(u)
  PROVE  TInv'
<1>1. /\ req[u].at = "finish"
      /\ order' = [req[u].order EXCEPT !.status = "completed"]
      /\ Mark(Outdated(u)) /\ Done(u)
      /\ UNCHANGED <<edition, rows, made, removed, begun>>
  BY DEF Finish
<1>2. order' \in OrderRow
  BY <1>1, CopyTyped DEF OrderRow
<1>3. stale' \subseteq Marks
  BY <1>1 DEF Outdated, Mark, Marks, TInv, RowsOK
<1>4. CASE req[u].op = "confirm"
  <2>1. /\ open' = [open EXCEPT ![req[u].task] = @ - 1]
        /\ process' = [process EXCEPT ![req[u].process] = "completed"]
    BY <1>4 DEF Finish
  <2>2. process' \in [Processes -> ProcessStatuses]
    BY <2>1 DEF TInv, RowsOK, ProcessStatuses
  <2>3. /\ RequestsOK' /\ Locks'
        /\ open' \in [Tasks -> Nat] /\ \A x \in Tasks : open'[x] <= made'[x]
    BY <1>1, <1>4, <2>1, TakesItsRow
  <2>4. RowsOK'
    BY <1>1, <1>2, <1>3, <2>2, <2>3 DEF TInv, RowsOK
  <2> QED
    BY <2>3, <2>4 DEF TInv
<1>5. CASE req[u].op # "confirm"
  <2>1. UNCHANGED <<open, process>>
    BY <1>5 DEF Finish
  <2>2. RowsOK'
    BY <1>1, <1>2, <1>3, <2>1 DEF TInv, RowsOK
  <2>3. \A x \in Tasks : open'[x] \in Nat /\ open'[x] >= open[x]
    BY <2>1 DEF TInv, RowsOK
  <2> QED
    BY <1>1, <2>2, <2>3, EndsQuietly DEF TInv
<1> QED
  BY <1>4, <1>5

LEMMA CommitTyped ==
  ASSUME NEW u \in Users, TInv, Commit(u)
  PROVE  TInv'
<1>1. /\ req[u].at = "commit"
      /\ open' = [open EXCEPT ![req[u].task] = @ - 1]
      /\ process' = IF req[u].closes THEN [process EXCEPT ![req[u].process] = "completed"]
                    ELSE process
      /\ Mark(Missed(u)) /\ Done(u)
      /\ UNCHANGED <<order, edition, rows, made, removed, begun>>
  BY DEF Commit
<1>2. req[u].op = "confirm"
  BY <1>1 DEF TInv, Locks
<1>3. stale' \subseteq Marks
  BY <1>1 DEF Missed, Mark, Marks, TInv, RowsOK
<1>4. process' \in [Processes -> ProcessStatuses]
  BY <1>1 DEF TInv, RowsOK, ProcessStatuses
<1>5. /\ RequestsOK' /\ Locks'
      /\ open' \in [Tasks -> Nat] /\ \A x \in Tasks : open'[x] <= made'[x]
  BY <1>1, <1>2, TakesItsRow
<1>6. RowsOK'
  BY <1>1, <1>3, <1>4, <1>5 DEF TInv, RowsOK
<1> QED
  BY <1>5, <1>6 DEF TInv

(* The endpoints of the rows.                                              *)
LEMMA RowsTyped ==
  ASSUME NEW u \in Users, TInv, Rows(u)
  PROVE  TInv'
<1>0. \A t \in Tasks : made[t] \in Nat /\ open[t] \in Nat /\ open[t] <= made[t]
  BY DEF TInv, RowsOK
<1>1. ASSUME req' = req, req[u] = Idle, begun' = begun + 1,
             process' \in [Processes -> ProcessStatuses],
             edition' \in [Processes -> Nat], rows' \in Nat,
             made' \in [Tasks -> Nat], open' \in [Tasks -> Nat],
             \A t \in Tasks : open'[t] <= made'[t],
             removed' \subseteq Tasks, stale' \subseteq Marks, order' = order,
             \A t \in Tasks : \A v \in Users \ {u} : HoldsTask(v, t) => open'[t] > 0
      PROVE  TInv'
  <2>1. RowsOK'
    BY <1>1 DEF TInv, RowsOK
  <2> QED
    BY <1>1, <2>1, EndsCarefully DEF TInv
<1>2. ASSUME NEW p \in Processes, AddProcess(u, p) PROVE TInv'
  <2>1. /\ Direct(u) /\ Replace(u, {}, {p}) /\ UNCHANGED <<order, req, stale>>
    BY <1>2 DEF AddProcess
  <2>2. /\ process' \in [Processes -> ProcessStatuses]
        /\ edition' \in [Processes -> Nat] /\ rows' \in Nat
        /\ made' \in [Tasks -> Nat] /\ open' \in [Tasks -> Nat]
        /\ \A t \in Tasks : open'[t] <= made'[t]
        /\ removed' \subseteq Tasks
        /\ \A t \in Tasks : \A v \in Users \ {u} : HoldsTask(v, t) => open'[t] > 0
    BY <2>1, {p} \in SUBSET Processes, {} \in SUBSET Processes, ReplaceTyped
  <2>3. stale' \subseteq Marks
    BY <2>1 DEF TInv, RowsOK
  <2> QED
    BY <1>1, <2>1, <2>2, <2>3 DEF Direct
<1>3. ASSUME NEW p \in Processes, DeleteProcess(u, p) PROVE TInv'
  <2>1. /\ Direct(u) /\ Replace(u, {p}, {}) /\ UNCHANGED <<order, req>>
        /\ Mark(Struck(process', order))
    BY <1>3 DEF DeleteProcess
  <2>2. stale' \subseteq Marks
    BY <2>1 DEF Struck, Marks, Mark, TInv, RowsOK
  <2>3. /\ process' \in [Processes -> ProcessStatuses]
        /\ edition' \in [Processes -> Nat] /\ rows' \in Nat
        /\ made' \in [Tasks -> Nat] /\ open' \in [Tasks -> Nat]
        /\ \A t \in Tasks : open'[t] <= made'[t]
        /\ removed' \subseteq Tasks
        /\ \A t \in Tasks : \A v \in Users \ {u} : HoldsTask(v, t) => open'[t] > 0
    BY <2>1, ReplaceTyped
  <2> QED
    BY <1>1, <2>1, <2>2, <2>3 DEF Direct
<1>4. ASSUME NEW t \in Tasks, AddTask(u, t) PROVE TInv'
  <2>1. /\ Direct(u) /\ made' = Generated(made, {t}) /\ open' = Generated(open, {t})
        /\ UNCHANGED <<order, process, edition, rows, req, stale, removed>>
    BY <1>4 DEF AddTask
  <2>2. /\ made' \in [Tasks -> Nat] /\ open' \in [Tasks -> Nat]
        /\ \A x \in Tasks : open'[x] <= made'[x]
        /\ \A x \in Tasks : open'[x] >= open[x] /\ open'[x] \in Nat
    BY <2>1, GenerationKeepsRows
  <2>3. \A x \in Tasks : \A v \in Users \ {u} : HoldsTask(v, x) => open'[x] > 0
    BY <1>0, <2>2 DEF TInv, Locks
  <2> QED
    BY <1>1, <2>1, <2>2, <2>3 DEF Direct, TInv, RowsOK
<1>5. ASSUME NEW t \in Tasks, DeleteTask(u, t) PROVE TInv'
  <2>1. /\ Direct(u) /\ made' = [made EXCEPT ![t] = @ - 1]
        /\ removed' = removed \cup {t}
        /\ UNCHANGED <<order, process, edition, rows, req>>
        /\ \/ made[t] > open[t] /\ UNCHANGED <<open, stale>>
           \/ /\ open[t] > 0 /\ FreeOf(u, t)
              /\ open' = [open EXCEPT ![t] = @ - 1]
              /\ Mark(StruckOpen(t))
    BY <1>5 DEF DeleteTask
  <2>2. stale' \subseteq Marks
    BY <2>1 DEF StruckOpen, Marks, Mark, TInv, RowsOK
  <2>3. made[t] - 1 \in Nat
    BY <1>0, <2>1
  <2>4. /\ made' \in [Tasks -> Nat]
        /\ \A x \in Tasks : made'[x] = IF x = t THEN made[t] - 1 ELSE made[x]
    BY <2>1, <2>3 DEF TInv, RowsOK
  <2>5. CASE made[t] > open[t] /\ UNCHANGED <<open, stale>>
    <3>1. \A x \in Tasks : open'[x] <= made'[x]
      BY <1>0, <2>4, <2>5
    <3>2. \A x \in Tasks : \A v \in Users \ {u} : HoldsTask(v, x) => open'[x] > 0
      BY <2>5 DEF TInv, Locks
    <3> QED
      BY <1>1, <2>1, <2>2, <2>4, <2>5, <3>1, <3>2 DEF Direct, TInv, RowsOK
  <2>6. CASE /\ open[t] > 0 /\ FreeOf(u, t)
             /\ open' = [open EXCEPT ![t] = @ - 1]
    <3>1. open[t] - 1 \in Nat
      BY <1>0, <2>6
    <3>2. /\ open' \in [Tasks -> Nat]
          /\ \A x \in Tasks : open'[x] = IF x = t THEN open[t] - 1 ELSE open[x]
      BY <2>6, <3>1 DEF TInv, RowsOK
    <3>3. \A x \in Tasks : open'[x] <= made'[x]
      BY <1>0, <2>4, <3>2
    <3>4. \A x \in Tasks : \A v \in Users \ {u} : HoldsTask(v, x) => open'[x] > 0
      BY <2>6, <3>2 DEF FreeOf, TInv, Locks
    <3> QED
      BY <1>1, <2>1, <2>2, <2>4, <3>2, <3>3, <3>4 DEF Direct, TInv, RowsOK
  <2> QED
    BY <2>1, <2>5, <2>6
<1> QED
  BY <1>2, <1>3, <1>4, <1>5 DEF Rows

LEMMA FailTyped ==
  ASSUME NEW u \in Users, TInv, Fail(u)
  PROVE  TInv'
<1>1. /\ Done(u)
      /\ UNCHANGED <<order, process, edition, rows, made, open, removed, begun>>
  BY DEF Fail
<1>2. stale' \subseteq Marks
  BY DEF Fail, Mark, Marks, TInv, RowsOK
<1>3. RowsOK'
  BY <1>1, <1>2 DEF TInv, RowsOK
<1>4. \A x \in Tasks : open'[x] \in Nat /\ open'[x] >= open[x]
  BY <1>1 DEF TInv, RowsOK
<1> QED
  BY <1>1, <1>3, <1>4, EndsQuietly DEF TInv

LEMMA TNext == TInv /\ [Next]_vars => TInv'
<1> SUFFICES ASSUME TInv, [Next]_vars PROVE TInv'
  OBVIOUS
<1>1. CASE UNCHANGED vars
  BY <1>1 DEF vars, TInv, RowsOK, RequestsOK, Locks, HoldsTask
<1>2. ASSUME NEW u \in Users, Begin(u) PROVE TInv'
  BY <1>2, BeginTyped
<1>3. ASSUME NEW u \in Users, Review(u) PROVE TInv'
  BY <1>3, SubmitTyped, MissingTyped, ApproveTyped, RejectTyped, CheckTyped, EditTyped,
     SyncTyped DEF Review
<1>4. ASSUME NEW u \in Users, Work(u) PROVE TInv'
  BY <1>4, GenerateTyped, StartTyped, ReportTyped, CorrectTyped, ConfirmTyped, ListTyped,
     CompleteTaskTyped, JudgeTyped, CloseTyped, CountTyped, FinishTyped, CommitTyped DEF Work
<1>5. ASSUME NEW u \in Users, Rows(u) PROVE TInv'
  BY <1>5, RowsTyped
<1>6. ASSUME NEW u \in Users, Fail(u) PROVE TInv'
  BY <1>6, FailTyped
<1> QED
  BY <1>1, <1>2, <1>3, <1>4, <1>5, <1>6 DEF Next

LEMMA AlwaysTyped == Spec => []TInv
<1>1. Init => TInv
  BY TInit
<1>2. TInv /\ [Next]_vars => TInv'
  BY TNext
<1> QED
  BY <1>1, <1>2, PTL DEF Spec

(* Every row and every copy of a row has its type, and no task has more    *)
(* open rows than rows, however requests overlap: what a confirmation has  *)
(* locked is still there when it commits.                                  *)
THEOREM TypeCorrect == Spec => []TypeOK
<1>1. TInv => TypeOK
  BY DEF TInv, RowsOK, RequestsOK, TypeOK
<1> QED
  BY <1>1, AlwaysTyped, PTL

-----------------------------------------------------------------------------
(* The table of the approval.  A review was admitted for a submitted order *)
(* and has a submitted order as its copy.                                  *)
Decides(u) == req[u].op \in {"approve", "reject"} => req[u].order.approval = "submitted"
AInv == TInv /\ \A u \in Users : Decides(u)

LEMMA LoadDecides ==
  ASSUME NEW u \in Users, TInv, NEW op \in OrderRequests \cup ProcessRequests \cup TaskRequests,
         NEW p, NEW t, Load(u, op, p, t),
         op \in {"approve", "reject"} => order.approval = "submitted"
  PROVE  Decides(u)' /\ \A v \in Users \ {u} : req'[v] = req[v]
<1> DEFINE new == [op |-> op, at |-> "begun", task |-> t, process |-> p, order |-> order,
                   edition |-> edition, todo |-> {}, closes |-> FALSE]
<1>1. req' = [req EXCEPT ![u] = new]
  BY DEF Load
<1>2. req'[u] = new /\ \A v \in Users \ {u} : req'[v] = req[v]
  BY <1>1 DEF TInv, RequestsOK
<1> QED
  BY <1>2 DEF Decides

LEMMA BeginDecides ==
  ASSUME NEW u \in Users, TInv, Begin(u)
  PROVE  Decides(u)' /\ \A v \in Users \ {u} : req'[v] = req[v]
<1>1. ASSUME NEW op \in OrderRequests, BeginOrder(u, op)
      PROVE  Decides(u)' /\ \A v \in Users \ {u} : req'[v] = req[v]
  <2>1. op \in {"approve", "reject"} => order.approval = "submitted"
    <3>1. CASE op = "approve"
      BY <1>1, <3>1 DEF BeginOrder, MayBegin, Allowed
    <3>2. CASE op = "reject"
      BY <1>1, <3>2 DEF BeginOrder, MayBegin, Allowed
    <3> QED
      BY <3>1, <3>2
  <2> QED
    BY <1>1, <2>1, LoadDecides DEF BeginOrder
<1>2. ASSUME NEW op \in ProcessRequests, NEW p \in Processes, BeginProcess(u, op, p)
      PROVE  Decides(u)' /\ \A v \in Users \ {u} : req'[v] = req[v]
  <2>1. op \notin {"approve", "reject"}
    BY DEF ProcessRequests
  <2> QED
    BY <1>2, <2>1, LoadDecides DEF BeginProcess
<1>3. ASSUME NEW op \in TaskRequests, NEW t \in Tasks, BeginTask(u, op, t)
      PROVE  Decides(u)' /\ \A v \in Users \ {u} : req'[v] = req[v]
  <2>1. op \notin {"approve", "reject"}
    BY DEF TaskRequests
  <2> QED
    BY <1>3, <2>1, LoadDecides DEF BeginTask
<1> QED
  BY <1>1, <1>2, <1>3 DEF Begin

(* After it was admitted a request ends, or keeps what it is and, unless   *)
(* it submits or confirms, its copy of the order.                          *)
Goes(u) ==
    /\ \A v \in Users \ {u} : req'[v] = req[v]
    /\ \/ req'[u] = Idle
       \/ /\ req'[u].op = req[u].op
          /\ \/ req'[u].order = req[u].order
             \/ req[u].op \in {"submit", "confirm"}

LEMMA EndsOrGoes ==
  ASSUME NEW u \in Users, TInv,
         \/ Done(u)
         \/ \E place \in Places : Goto(u, place)
  PROVE  Goes(u)
<1>1. CASE Done(u)
  BY <1>1, DoneKeeps DEF TInv, Goes
<1>2. ASSUME NEW place \in Places, Goto(u, place) PROVE Goes(u)
  <2>1. /\ \A v \in Users \ {u} : req'[v] = req[v]
        /\ req'[u] = [req[u] EXCEPT !.at = place]
    BY <1>2, GotoKeeps DEF TInv
  <2>2. req'[u].op = req[u].op /\ req'[u].order = req[u].order
    BY <2>1, CopyTyped DEF Request
  <2> QED
    BY <2>1, <2>2 DEF Goes
<1> QED
  BY <1>1, <1>2

LEMMA ReviewGoes ==
  ASSUME NEW u \in Users, TInv, Review(u)
  PROVE  Goes(u)
<1> USE DEF Places
<1>1. CASE Submit(u)
  <2>1. CASE Done(u)
    BY <2>1, EndsOrGoes
  <2>2. CASE req' = [req EXCEPT ![u].at = "held", ![u].edition = edition,
                                ![u].todo = {t \in Tasks : made[t] = 0 /\ Home[t] \in Existing},
                                ![u].order = [order EXCEPT !.approval = "submitted"]]
    <3>1. req' = [req EXCEPT ![u] = [req[u] EXCEPT !.at = "held", !.edition = edition,
                                !.todo = {t \in Tasks : made[t] = 0 /\ Home[t] \in Existing},
                                !.order = [order EXCEPT !.approval = "submitted"]]]
      BY <2>2 DEF TInv, RequestsOK
    <3>2. (\A v \in Users \ {u} : req'[v] = req[v]) /\ req'[u].op = req[u].op
      BY <3>1, CopyTyped DEF TInv, RequestsOK, Request
    <3> QED
      BY <1>1, <3>2 DEF Goes, Submit
  <2> QED
    BY <1>1, <2>1, <2>2 DEF Submit
<1>2. CASE Missing(u)
  <2> DEFINE list == {t \in Tasks : /\ made[t] = 0 /\ Home[t] \in Existing
                                 /\ req[u].process \in {None, Home[t]}}
  <2>1. req' = [req EXCEPT ![u].at = "generate", ![u].edition = edition, ![u].todo = list]
    BY <1>2 DEF Missing
  <2>2. req' = [req EXCEPT ![u] = [req[u] EXCEPT !.at = "generate", !.edition = edition,
                                                 !.todo = list]]
    BY <2>1 DEF TInv, RequestsOK
  <2>3. /\ \A v \in Users \ {u} : req'[v] = req[v]
        /\ req'[u].op = req[u].op /\ req'[u].order = req[u].order
    BY <2>2, CopyTyped DEF TInv, RequestsOK, Request
  <2> QED
    BY <2>3 DEF Goes
<1>3. CASE Approve(u) \/ Reject(u)
  BY <1>3, EndsOrGoes DEF Approve, Reject
<1>4. CASE Check(u)
  BY <1>4, EndsOrGoes DEF Check
<1>5. CASE \/ \E privileged \in BOOLEAN : Edit(u, privileged)
           \/ \E kept \in SUBSET Processes : Synchronise(u, kept)
  BY <1>5, EndsOrGoes DEF Edit, Synchronise
<1> QED
  BY <1>1, <1>2, <1>3, <1>4, <1>5 DEF Review

LEMMA WorkGoes ==
  ASSUME NEW u \in Users, TInv, Work(u)
  PROVE  Goes(u)
<1> USE DEF Places
<1>1. CASE Generate(u) \/ Start(u) \/ Report(u) \/ Correct(u)
  BY <1>1, EndsOrGoes DEF Generate, Start, Report, Correct, Reopened
<1>2. CASE Confirm(u)
  <2>1. req' = [req EXCEPT ![u].at = "judge", ![u].order = order] /\ req[u].op = "confirm"
    BY <1>2 DEF Confirm
  <2>2. req' = [req EXCEPT ![u] = [req[u] EXCEPT !.at = "judge", !.order = order]]
    BY <2>1 DEF TInv, RequestsOK
  <2>3. /\ \A v \in Users \ {u} : req'[v] = req[v]
        /\ req'[u].op = req[u].op
    BY <2>2, CopyTyped DEF TInv, RequestsOK, Request
  <2> QED
    BY <2>1, <2>3 DEF Goes
<1>3. CASE List(u)
  <2>1. req' = [req EXCEPT ![u].at = "force", ![u].todo = OpenFor(u, req[u].process)]
    BY <1>3 DEF List
  <2>2. req' = [req EXCEPT ![u] = [req[u] EXCEPT !.at = "force",
                                                 !.todo = OpenFor(u, req[u].process)]]
    BY <2>1 DEF TInv, RequestsOK
  <2>3. /\ \A v \in Users \ {u} : req'[v] = req[v]
        /\ req'[u].op = req[u].op /\ req'[u].order = req[u].order
    BY <2>2, CopyTyped DEF TInv, RequestsOK, Request
  <2> QED
    BY <2>3 DEF Goes
<1>4. ASSUME NEW t \in Tasks, CompleteTask(u, t) PROVE Goes(u)
  <2>1. req' = [req EXCEPT ![u].todo = @ \ {t}]
    BY <1>4 DEF CompleteTask
  <2>2. req' = [req EXCEPT ![u] = [req[u] EXCEPT !.todo = @ \ {t}]]
    BY <2>1 DEF TInv, RequestsOK
  <2>3. /\ \A v \in Users \ {u} : req'[v] = req[v]
        /\ req'[u].op = req[u].op /\ req'[u].order = req[u].order
    BY <2>2, CopyTyped DEF TInv, RequestsOK, Request
  <2> QED
    BY <2>3 DEF Goes
<1>5. CASE Judge(u) \/ Count(u) \/ Finish(u) \/ Commit(u)
  BY <1>5, EndsOrGoes DEF Judge, Count, Finish, Commit
<1>6. CASE Close(u)
  <2>1. req' = [req EXCEPT ![u].at = "count", ![u].closes = TRUE]
    BY <1>6 DEF Close
  <2>2. req' = [req EXCEPT ![u] = [req[u] EXCEPT !.at = "count", !.closes = TRUE]]
    BY <2>1 DEF TInv, RequestsOK
  <2>3. /\ \A v \in Users \ {u} : req'[v] = req[v]
        /\ req'[u].op = req[u].op /\ req'[u].order = req[u].order
    BY <2>2, CopyTyped DEF TInv, RequestsOK, Request
  <2> QED
    BY <2>3 DEF Goes
<1> QED
  BY <1>1, <1>2, <1>3, <1>4, <1>5, <1>6 DEF Work

LEMMA ANext == AInv /\ [Next]_vars => AInv'
<1> SUFFICES ASSUME AInv, [Next]_vars PROVE AInv'
  OBVIOUS
<1>1. TInv'
  BY TNext DEF AInv
<1>2. ASSUME NEW u \in Users, Goes(u) PROVE \A v \in Users : Decides(v)'
  <2>1. \A v \in Users \ {u} : Decides(v)'
    BY <1>2 DEF Goes, AInv, Decides
  <2>2. Decides(u)'
    BY <1>2 DEF Goes, AInv, Decides, Idle
  <2> QED
    BY <2>1, <2>2
<1>3. CASE UNCHANGED vars
  BY <1>1, <1>3 DEF vars, AInv, Decides
<1>4. ASSUME NEW u \in Users, Begin(u) PROVE \A v \in Users : Decides(v)'
  BY <1>4, BeginDecides DEF AInv, Decides
<1>5. ASSUME NEW u \in Users, Review(u) \/ Work(u) \/ Fail(u) PROVE Goes(u)
  BY <1>5, ReviewGoes, WorkGoes, EndsOrGoes DEF AInv, Fail
<1>6. ASSUME NEW u \in Users, Rows(u) PROVE req' = req
  BY <1>6 DEF Rows, AddProcess, DeleteProcess, AddTask, DeleteTask
<1> QED
  BY <1>1, <1>2, <1>3, <1>4, <1>5, <1>6 DEF Next, AInv, Decides

LEMMA AlwaysDecides == Spec => []AInv
<1>1. Init => AInv
  BY TInit DEF AInv, Decides, Init, Idle
<1> QED
  BY <1>1, ANext, PTL DEF Spec

Ruled == order'.approval # order.approval /\ "order" \notin stale'
            => <<order.approval, order'.approval>> \in Follows

LEMMA FollowsTable ==
  ASSUME NEW a, NEW b, <<a, b>> \in {<<"draft", "submitted">>, <<"rejected", "submitted">>,
         <<"approved", "submitted">>, <<"submitted", "approved">>, <<"submitted", "rejected">>,
         <<"rejected", "draft">>, <<"draft", "approved">>, <<"rejected", "approved">>}
  PROVE  <<a, b>> \in Follows
  BY DEF Follows, Allowed

(* One step of a request that saves the order, or leaves it alone.         *)
LEMMA StepRuled ==
  ASSUME AInv, NEW u \in Users, Begin(u) \/ Review(u) \/ Work(u) \/ Rows(u) \/ Fail(u)
  PROVE  Ruled
<1>0. /\ order.approval \in Approvals
      /\ req[u].order.approval \in Approvals
  BY CopyTyped DEF AInv
<1>1. CASE UNCHANGED order
  BY <1>1 DEF Ruled
<1>2. CASE Submit(u)
  <2>1. order' = order \/ order' = [order EXCEPT !.approval = "submitted"]
    BY <1>2 DEF Submit
  <2>2. order'.approval = order.approval \/ order'.approval = "submitted"
    BY <2>1 DEF AInv, TInv, RowsOK, OrderRow
  <2> QED
    BY <1>0, <2>2, FollowsTable DEF Ruled, Approvals
<1>3. CASE Approve(u)
  <2>1. order'.approval = "approved"
    BY <1>3 DEF Approve
  <2>2. CASE req[u].op = "approve" /\ Mark(Outdated(u) \cup TakenBack \cup Listed(u))
    <3>1. "order" \notin stale' => order = req[u].order
      BY <2>2 DEF Mark, Outdated
    <3>2. req[u].order.approval = "submitted"
      BY <2>2 DEF AInv, Decides
    <3> QED
      BY <2>1, <3>1, <3>2, FollowsTable DEF Ruled
  <2>3. CASE req[u].op = "submit"
    BY <1>0, <2>1, FollowsTable DEF Ruled, Approvals
  <2> QED
    BY <1>3, <2>2, <2>3 DEF Approve
<1>4. CASE Reject(u)
  <2>1. /\ order'.approval = "rejected" /\ req[u].op = "reject"
        /\ Mark(Outdated(u) \cup TakenBack)
    BY <1>4 DEF Reject
  <2>2. "order" \notin stale' => order = req[u].order
    BY <2>1 DEF Mark, Outdated
  <2>3. req[u].order.approval = "submitted"
    BY <2>1 DEF AInv, Decides
  <2> QED
    BY <2>1, <2>2, <2>3, FollowsTable DEF Ruled
<1>5. ASSUME NEW privileged \in BOOLEAN, Edit(u, privileged) PROVE Ruled
  <2>1. order' = Edited(req[u].order, privileged) /\ Outdated(u) \subseteq stale'
    BY <1>5 DEF Edit, EditFields, EditLists, Mark
  <2>2. "order" \notin stale' => order = req[u].order
    BY <2>1 DEF Outdated
  <2>3. \/ order'.approval = req[u].order.approval
        \/ req[u].order.approval = "approved" /\ order'.approval = "submitted"
        \/ req[u].order.approval = "rejected" /\ order'.approval = "draft"
    BY <2>1, CopyTyped DEF Edited, OrderRow, AInv
  <2> QED
    BY <2>2, <2>3, FollowsTable DEF Ruled
<1>6. CASE Finish(u)
  <2>1. order' = [req[u].order EXCEPT !.status = "completed"] /\ Mark(Outdated(u))
    BY <1>6 DEF Finish
  <2>2. "order" \notin stale' => order = req[u].order
    BY <2>1 DEF Mark, Outdated
  <2>3. order'.approval = req[u].order.approval
    BY <2>1, CopyTyped DEF OrderRow, AInv
  <2> QED
    BY <2>2, <2>3 DEF Ruled
<1>7. CASE Begin(u) \/ Missing(u) \/ Check(u) \/ Fail(u)
  BY <1>1, <1>7 DEF Begin, BeginOrder, BeginProcess, BeginTask, Load, Missing, Check, Fail
<1>8. CASE Generate(u) \/ Start(u) \/ Report(u) \/ Correct(u) \/ Confirm(u) \/ List(u)
  BY <1>1, <1>8 DEF Generate, Start, Report, Correct, Reopened, Confirm, List
<1>9. CASE Judge(u) \/ Close(u) \/ Count(u) \/ Commit(u)
           \/ \E t \in Tasks : CompleteTask(u, t)
  BY <1>1, <1>9 DEF Judge, Close, Count, Commit, CompleteTask
<1>10. CASE Rows(u) \/ \E kept \in SUBSET Processes : Synchronise(u, kept)
  BY <1>1, <1>10 DEF Rows, AddProcess, DeleteProcess, AddTask, DeleteTask, Synchronise
<1> QED
  BY <1>2, <1>3, <1>4, <1>5, <1>6, <1>7, <1>8, <1>9, <1>10 DEF Review, Work

(* The approval of a work order moves along its table only, although six   *)
(* requests save the whole order, unless one writes an outdated copy.      *)
THEOREM ApprovalRuled == Spec => ApprovalFollowsRules
<1>1. AInv /\ [Next]_vars => [Ruled]_vars
  <2> SUFFICES ASSUME AInv, Next PROVE Ruled
    OBVIOUS
  <2> QED
    BY StepRuled DEF Next
<1>2. Spec => [][Ruled]_vars
  BY <1>1, AlwaysDecides, PTL DEF Spec
<1> QED
  BY <1>2 DEF ApprovalFollowsRules, Ruled

-----------------------------------------------------------------------------
(* The tasks of an approved order.  Once all tasks are there but those     *)
(* taken away this stays so; whoever has a copy of an approved order, or   *)
(* is about to approve, relies on it.                                      *)
AbsentGone == \A t \in Tasks : Home[t] \notin Existing => t \in removed
HaveTasks == \A t \in Tasks \ removed : made[t] > 0

Generating(u) ==
    \/ req[u].op = "approve" /\ req[u].at = "generate"
    \/ req[u].op = "submit" /\ req[u].at = "held"

(* u has listed whatever is missing.                                       *)
Lists(u) == \A t \in Tasks \ removed : t \in req[u].todo \/ made[t] > 0

Informed(u) ==
    /\ req[u].op = "approve" => req[u].process = None
    /\ req[u].order.approval = "approved" => HaveTasks
    /\ Generating(u) => Lists(u)

GInv ==
    /\ TInv
    /\ AbsentGone
    /\ order.approval = "approved" => HaveTasks
    /\ \A u \in Users : Informed(u)

(* What every step keeps for the others.                                   *)
Careful ==
    /\ AbsentGone'
    /\ \A t \in Tasks \ removed' :
          made'[t] > 0 \/ (t \notin removed /\ made'[t] >= made[t])

LEMMA CarefulKeeps ==
  ASSUME TInv, TInv', Careful
  PROVE  HaveTasks => HaveTasks'
<1>1. \A t \in Tasks : made[t] \in Nat /\ made'[t] \in Nat
  BY DEF TInv, RowsOK
<1> QED
  BY <1>1 DEF Careful, HaveTasks

LEMMA OthersInformed ==
  ASSUME NEW v \in Users, TInv, TInv', Informed(v), req'[v] = req[v], Careful
  PROVE  Informed(v)'
<1>1. req'[v].order.approval = "approved" => HaveTasks'
  BY CarefulKeeps DEF Informed
<1>2. ASSUME Generating(v)', NEW t \in Tasks \ removed', t \notin req'[v].todo
      PROVE  made'[t] > 0
  <2>1. Lists(v)
    BY <1>2 DEF Generating, Informed
  <2>2. made[t] \in Nat /\ made'[t] \in Nat
    BY DEF TInv, RowsOK
  <2> QED
    BY <1>2, <2>1, <2>2 DEF Careful, Lists
<1> QED
  BY <1>1, <1>2 DEF Informed, Lists

LEMMA IdleInformed ==
  ASSUME NEW u \in Users, req'[u] = Idle
  PROVE  Informed(u)'
  BY DEF Informed, Idle, Generating, NewOrder

(* A request goes on to where it does not approve.                         *)
LEMMA WorkerInformed ==
  ASSUME NEW u \in Users, GInv, TInv', Careful,
         ~Generating(u)', req'[u].op = req[u].op, req'[u].process = req[u].process,
         req'[u].order \in {req[u].order, order}
  PROVE  Informed(u)'
<1>1. req'[u].order.approval = "approved" => HaveTasks'
  BY CarefulKeeps DEF GInv, Informed
<1> QED
  BY <1>1 DEF GInv, Informed

(* A step that takes no process and no task away.                          *)
LEMMA AddsOnly ==
  ASSUME GInv, UNCHANGED removed, \A t \in Tasks : made'[t] >= made[t],
         \A p \in Processes : process'[p] = "absent" => process[p] = "absent"
  PROVE  Careful
<1>1. \A t \in Tasks : Home[t] \in Processes
  BY WriterAssumption
<1>2. AbsentGone'
  BY <1>1 DEF GInv, AbsentGone, Existing
<1> QED
  BY <1>2 DEF Careful

LEMMA LeavesRows ==
  ASSUME GInv, TInv', UNCHANGED <<process, made, removed>>
  PROVE  Careful
<1>1. \A t \in Tasks : made'[t] >= made[t]
  BY DEF GInv, TInv, RowsOK
<1> QED
  BY <1>1, AddsOnly

LEMMA Together ==
  ASSUME NEW u \in Users, GInv, TInv', Careful, Informed(u)',
         \A v \in Users \ {u} : req'[v] = req[v],
         order'.approval = "approved" => HaveTasks'
  PROVE  GInv'
<1>1. ASSUME NEW v \in Users \ {u} PROVE Informed(v)'
  BY <1>1, OthersInformed DEF GInv
<1> QED
  BY <1>1 DEF GInv, Careful

(* A step that leaves the order alone.                                     *)
LEMMA StaysInformed ==
  ASSUME NEW u \in Users, GInv, TInv', Careful, Informed(u)', UNCHANGED order,
         \A v \in Users \ {u} : req'[v] = req[v]
  PROVE  GInv'
<1>1. order'.approval = "approved" => HaveTasks'
  BY CarefulKeeps DEF GInv
<1> QED
  BY <1>1, Together

LEMMA DoneInformed ==
  ASSUME NEW u \in Users, GInv, TInv', Careful, UNCHANGED order, Done(u)
  PROVE  GInv'
<1>1. req'[u] = Idle /\ \A v \in Users \ {u} : req'[v] = req[v]
  BY DoneKeeps DEF GInv, TInv
<1> QED
  BY <1>1, IdleInformed, StaysInformed

LEMMA GotoInformed ==
  ASSUME NEW u \in Users, NEW place \in Places, GInv, TInv', Careful, UNCHANGED order,
         Goto(u, place), place \notin {"generate", "held"}
  PROVE  GInv'
<1>1. /\ \A v \in Users \ {u} : req'[v] = req[v]
      /\ req'[u] = [req[u] EXCEPT !.at = place]
  BY GotoKeeps DEF GInv, TInv
<1>2. /\ req'[u].op = req[u].op /\ req'[u].process = req[u].process
      /\ req'[u].order = req[u].order /\ req'[u].at = place
  BY <1>1, CopyTyped DEF GInv, Request
<1>3. ~Generating(u)'
  BY <1>2 DEF Generating
<1> QED
  BY <1>1, <1>2, <1>3, WorkerInformed, StaysInformed

LEMMA BeginInformed ==
  ASSUME NEW u \in Users, GInv, TInv', Begin(u)
  PROVE  GInv'
<1> DEFINE New(op, t, p) ==
             [op |-> op, at |-> "begun", task |-> t, process |-> p, order |-> order,
              edition |-> edition, todo |-> {}, closes |-> FALSE]
<1>1. ASSUME NEW op, NEW p, NEW t, Load(u, op, p, t), op = "approve" => p = None
      PROVE  GInv'
  <2>1. /\ req' = [req EXCEPT ![u] = New(op, t, p)]
        /\ UNCHANGED <<order, process, edition, rows, made, open, stale, removed>>
    BY <1>1 DEF Load
  <2>2. req'[u] = New(op, t, p) /\ \A v \in Users \ {u} : req'[v] = req[v]
    BY <2>1 DEF GInv, TInv, RequestsOK
  <2>3. Careful
    BY <2>1, LeavesRows
  <2>5. Informed(u)'
    <3>1. /\ req'[u].op = op /\ req'[u].process = p /\ req'[u].at = "begun"
          /\ req'[u].order = order
      BY <2>2
    <3>2. req'[u].order.approval = "approved" => HaveTasks'
      BY <2>3, <3>1, CarefulKeeps DEF GInv
    <3>3. ~Generating(u)'
      BY <3>1 DEF Generating
    <3> QED
      BY <1>1, <3>1, <3>2, <3>3 DEF Informed
  <2> QED
    BY <2>1, <2>2, <2>3, <2>5, StaysInformed
<1>2. ASSUME NEW op \in OrderRequests, BeginOrder(u, op) PROVE GInv'
  BY <1>1, <1>2 DEF BeginOrder
<1>3. ASSUME NEW op \in ProcessRequests, NEW p \in Processes, BeginProcess(u, op, p)
      PROVE  GInv'
  <2>1. op # "approve" /\ Load(u, op, p, None)
    BY <1>3 DEF ProcessRequests, BeginProcess
  <2> QED
    BY <1>1, <2>1
<1>4. ASSUME NEW op \in TaskRequests, NEW t \in Tasks, BeginTask(u, op, t)
      PROVE  GInv'
  <2>1. op # "approve" /\ Load(u, op, Home[t], t)
    BY <1>4 DEF TaskRequests, BeginTask
  <2> QED
    BY <1>1, <2>1
<1> QED
  BY <1>2, <1>3, <1>4 DEF Begin

(* Whoever lists what is missing in the processes there are lists all.     *)
LEMMA ListerInformed ==
  ASSUME NEW u \in Users, GInv, TInv', UNCHANGED <<process, made, removed>>,
         req'[u].op = "approve" => req'[u].process = None,
         req'[u].order.approval # "approved" \/ req'[u].order = req[u].order,
         Generating(u)' =>
             {t \in Tasks : made[t] = 0 /\ Home[t] \in Existing} \subseteq req'[u].todo
  PROVE  Informed(u)'
<1>1. HaveTasks => HaveTasks'
  BY DEF HaveTasks
<1>2. req'[u].order.approval = "approved" => HaveTasks'
  BY <1>1 DEF GInv, Informed
<1>3. Generating(u)' => Lists(u)'
  BY DEF Lists, GInv, AbsentGone, TInv, RowsOK
<1> QED
  BY <1>2, <1>3 DEF Informed

LEMMA SubmitInformed ==
  ASSUME NEW u \in Users, GInv, TInv', Submit(u)
  PROVE  GInv'
<1>1. /\ UNCHANGED <<process, edition, rows, made, open, stale, removed, begun>>
      /\ req[u].op = "submit"
      /\ \/ order' = [order EXCEPT !.approval = "submitted"] /\ Done(u)
         \/ /\ UNCHANGED order
            /\ req' = [req EXCEPT ![u].at = "held", ![u].edition = edition,
                                ![u].todo = {t \in Tasks : made[t] = 0 /\ Home[t] \in Existing},
                                ![u].order = [order EXCEPT !.approval = "submitted"]]
  BY DEF Submit
<1>2. Careful
  BY <1>1, LeavesRows
<1>3. CASE order' = [order EXCEPT !.approval = "submitted"] /\ Done(u)
  <2>1. order'.approval = "submitted"
    BY <1>3 DEF GInv, TInv, RowsOK, OrderRow
  <2>2. req'[u] = Idle /\ \A v \in Users \ {u} : req'[v] = req[v]
    BY <1>3, DoneKeeps DEF GInv, TInv
  <2> QED
    BY <1>2, <2>1, <2>2, IdleInformed, Together
<1>4. CASE /\ UNCHANGED order
           /\ req' = [req EXCEPT ![u].at = "held", ![u].edition = edition,
                                ![u].todo = {t \in Tasks : made[t] = 0 /\ Home[t] \in Existing},
                                ![u].order = [order EXCEPT !.approval = "submitted"]]
  <2> DEFINE new == [req[u] EXCEPT !.at = "held", !.edition = edition,
                                   !.todo = {t \in Tasks : made[t] = 0 /\ Home[t] \in Existing},
                                   !.order = [order EXCEPT !.approval = "submitted"]]
  <2>1. req' = [req EXCEPT ![u] = new]
    BY <1>4 DEF GInv, TInv, RequestsOK
  <2>2. req'[u] = new /\ \A v \in Users \ {u} : req'[v] = req[v]
    BY <2>1 DEF GInv, TInv, RequestsOK
  <2>3. /\ req'[u].op = "submit"
        /\ req'[u].todo = {t \in Tasks : made[t] = 0 /\ Home[t] \in Existing}
        /\ req'[u].order.approval = "submitted"
    BY <1>1, <2>2, CopyTyped DEF GInv, TInv, RowsOK, Request, OrderRow
  <2>4. Informed(u)'
    BY <1>1, <2>3, ListerInformed
  <2> QED
    BY <1>2, <1>4, <2>2, <2>4, StaysInformed
<1> QED
  BY <1>1, <1>3, <1>4

LEMMA MissingInformed ==
  ASSUME NEW u \in Users, GInv, TInv', Missing(u)
  PROVE  GInv'
<1> DEFINE list == {t \in Tasks : /\ made[t] = 0 /\ Home[t] \in Existing
                                 /\ req[u].process \in {None, Home[t]}}
           new == [req[u] EXCEPT !.at = "generate", !.edition = edition, !.todo = list]
<1>1. /\ UNCHANGED <<order, process, edition, rows, made, open, stale, removed, begun>>
      /\ req[u].op \in {"approve", "batch"}
      /\ req' = [req EXCEPT ![u].at = "generate", ![u].edition = edition, ![u].todo = list]
  BY DEF Missing
<1>2. req' = [req EXCEPT ![u] = new]
  BY <1>1 DEF GInv, TInv, RequestsOK
<1>3. req'[u] = new /\ \A v \in Users \ {u} : req'[v] = req[v]
  BY <1>2 DEF GInv, TInv, RequestsOK
<1>4. /\ req'[u].op = req[u].op /\ req'[u].todo = list
      /\ req'[u].order = req[u].order /\ req'[u].process = req[u].process
  BY <1>3, CopyTyped DEF GInv, Request
<1>5. req[u].op = "approve" => list = {t \in Tasks : made[t] = 0 /\ Home[t] \in Existing}
  BY DEF GInv, Informed
<1>6. Generating(u)' => req[u].op = "approve"
  BY <1>1, <1>4 DEF Generating
<1>7. req'[u].op = "approve" => req'[u].process = None
  BY <1>4 DEF GInv, Informed
<1>8. Generating(u)' =>
        {t \in Tasks : made[t] = 0 /\ Home[t] \in Existing} \subseteq req'[u].todo
  BY <1>4, <1>5, <1>6
<1>9. Informed(u)'
  BY <1>1, <1>4, <1>7, <1>8, ListerInformed
<1> QED
  BY <1>1, <1>3, <1>9, LeavesRows, StaysInformed

(* The approval leaves nothing out that was not taken away meanwhile.      *)
LEMMA ApproveInformed ==
  ASSUME NEW u \in Users, GInv, TInv', Approve(u)
  PROVE  GInv'
<1>1. /\ Done(u) /\ Generating(u)
      /\ \A t \in req[u].todo : Current(u, Home[t])
      /\ made' = Generated(made, req[u].todo)
      /\ removed' = removed \ req[u].todo
      /\ UNCHANGED process
  BY DEF Approve, Generating
<1>2. Lists(u)
  BY <1>1 DEF GInv, Informed
<1>3. \A t \in Tasks : /\ made[t] \in Nat
                       /\ made'[t] = made[t] + (IF t \in req[u].todo THEN 1 ELSE 0)
  BY <1>1, CopyTyped, GeneratedTyped DEF GInv, TInv, RowsOK
<1>4. HaveTasks'
  BY <1>1, <1>2, <1>3 DEF HaveTasks, Lists
<1>5. AbsentGone'
  BY <1>1 DEF GInv, AbsentGone, Existing, Current
<1>6. Careful
  BY <1>4, <1>5 DEF Careful, HaveTasks
<1>7. req'[u] = Idle /\ \A v \in Users \ {u} : req'[v] = req[v]
  BY <1>1, DoneKeeps DEF GInv, TInv
<1> QED
  BY <1>4, <1>6, <1>7, IdleInformed, Together

LEMMA RejectInformed ==
  ASSUME NEW u \in Users, GInv, TInv', Reject(u)
  PROVE  GInv'
<1>1. /\ Done(u) /\ order'.approval = "rejected"
      /\ UNCHANGED <<process, edition, rows, made, open, removed, begun>>
  BY DEF Reject
<1>2. req'[u] = Idle /\ \A v \in Users \ {u} : req'[v] = req[v]
  BY <1>1, DoneKeeps DEF GInv, TInv
<1> QED
  BY <1>1, <1>2, LeavesRows, IdleInformed, Together

(* What is replaced is taken away from whoever has listed it.              *)
LEMMA ReplaceCareful ==
  ASSUME NEW u \in Users, GInv, NEW gone \in SUBSET Processes, NEW new \in SUBSET Processes,
         Replace(u, gone, new)
  PROVE  Careful
<1>1. /\ process' = [p \in Processes |-> CASE p \in new -> "pending"
                                           [] p \in gone \ new -> "absent"
                                           [] OTHER -> process[p]]
      /\ made' = [t \in Tasks |-> IF Home[t] \in gone THEN 0 ELSE made[t]]
      /\ removed' = removed \cup {t \in Tasks : Home[t] \in gone \cup new}
  BY DEF Replace, Without
<1>2. \A t \in Tasks : Home[t] \in Processes
  BY WriterAssumption
<1>3. ASSUME NEW t \in Tasks, Home[t] \notin Existing' PROVE t \in removed'
  BY <1>1, <1>2, <1>3 DEF GInv, AbsentGone, Existing
<1>4. ASSUME NEW t \in Tasks \ removed' PROVE t \notin removed /\ made'[t] >= made[t]
  BY <1>1 DEF GInv, TInv, RowsOK
<1> QED
  BY <1>3, <1>4 DEF Careful, AbsentGone

LEMMA EditInformed ==
  ASSUME NEW u \in Users, NEW privileged \in BOOLEAN, GInv, TInv', Edit(u, privileged)
  PROVE  GInv'
<1>1. Done(u) /\ order' = Edited(req[u].order, privileged)
  BY DEF Edit, EditFields, EditLists
<1>2. Careful
  <2>1. CASE EditFields(u, privileged)
    BY <2>1, LeavesRows DEF EditFields
  <2>2. ASSUME NEW listed \in SUBSET Processes, EditLists(u, privileged, listed)
        PROVE  Careful
    <3> DEFINE gone == {p \in Processes : process[p] = "pending"}
               new == {p \in listed : process[p] \in {"pending", "absent"}}
    <3>1. Replace(u, gone, new) /\ gone \in SUBSET Processes /\ new \in SUBSET Processes
      BY <2>2 DEF EditLists
    <3> QED
      BY <3>1, ReplaceCareful
  <2> QED
    BY <2>1, <2>2 DEF Edit
<1>3. req'[u] = Idle /\ \A v \in Users \ {u} : req'[v] = req[v]
  BY <1>1, DoneKeeps DEF GInv, TInv
<1>4. order'.approval = "approved" => req[u].order.approval = "approved"
  BY <1>1, CopyTyped DEF GInv, Edited, OrderRow
<1>5. order'.approval = "approved" => HaveTasks'
  BY <1>2, <1>4, CarefulKeeps DEF GInv, Informed
<1> QED
  BY <1>2, <1>3, <1>5, IdleInformed, Together

LEMMA SyncInformed ==
  ASSUME NEW u \in Users, NEW kept \in SUBSET Processes, GInv, TInv', Synchronise(u, kept)
  PROVE  GInv'
<1> DEFINE taken == {t \in Tasks : Home[t] \notin kept /\ Current(u, Home[t])}
           missing == {t \in Tasks : Home[t] \in kept \cap Existing /\ made[t] = 0}
<1>1. /\ Done(u) /\ UNCHANGED <<order, process>>
      /\ made' = [t \in Tasks |-> CASE t \in taken -> 0
                                    [] t \in missing -> 1
                                    [] OTHER -> made[t]]
      /\ removed' = removed \cup taken
  BY DEF Synchronise
<1>2. \A t \in missing : made[t] = 0
  OBVIOUS
<1> HIDE DEF taken, missing
<1>3. ASSUME NEW t \in Tasks \ removed' PROVE t \notin removed /\ made'[t] >= made[t]
  BY <1>1, <1>2 DEF GInv, TInv, RowsOK
<1>4. AbsentGone'
  BY <1>1 DEF GInv, AbsentGone, Existing
<1>5. Careful
  BY <1>3, <1>4 DEF Careful
<1> QED
  BY <1>1, <1>5, DoneInformed

LEMMA RowsInformed ==
  ASSUME NEW u \in Users, GInv, TInv', Rows(u)
  PROVE  GInv'
<1>1. req' = req /\ UNCHANGED order
  BY DEF Rows, AddProcess, DeleteProcess, AddTask, DeleteTask
<1>2. Careful
  <2>1. ASSUME NEW p \in Processes, AddProcess(u, p) PROVE Careful
    BY <2>1, {p} \in SUBSET Processes, {} \in SUBSET Processes, ReplaceCareful
       DEF AddProcess
  <2>2. ASSUME NEW p \in Processes, DeleteProcess(u, p) PROVE Careful
    BY <2>2, {p} \in SUBSET Processes, {} \in SUBSET Processes, ReplaceCareful
       DEF DeleteProcess
  <2>3. ASSUME NEW t \in Tasks, AddTask(u, t) PROVE Careful
    <3>1. \A x \in Tasks : /\ made[x] \in Nat
                           /\ made'[x] = made[x] + (IF x \in {t} THEN 1 ELSE 0)
      BY <2>3, GeneratedTyped DEF AddTask, GInv, TInv, RowsOK
    <3>2. \A x \in Tasks : made'[x] >= made[x]
      BY <3>1
    <3> QED
      BY <2>3, <3>2, AddsOnly DEF AddTask
  <2>4. ASSUME NEW t \in Tasks, DeleteTask(u, t) PROVE Careful
    <3>1. /\ made' = [made EXCEPT ![t] = @ - 1] /\ removed' = removed \cup {t}
          /\ UNCHANGED process
      BY <2>4 DEF DeleteTask
    <3>2. \A x \in Tasks \ removed' : x \notin removed /\ made'[x] >= made[x]
      BY <3>1 DEF GInv, TInv, RowsOK
    <3>3. AbsentGone'
      BY <3>1 DEF GInv, AbsentGone, Existing
    <3> QED
      BY <3>2, <3>3 DEF Careful
  <2> QED
    BY <2>1, <2>2, <2>3, <2>4 DEF Rows
<1>3. Informed(u)'
  BY <1>1, <1>2, OthersInformed DEF GInv
<1> QED
  BY <1>1, <1>2, <1>3, StaysInformed

LEMMA SaveKeepsProcesses ==
  ASSUME NEW u \in Users, TInv, NEW status \in ProcessStatuses \ {"absent"}, Save(u, status)
  PROVE  \A p \in Processes : process'[p] = "absent" => process[p] = "absent"
  BY DEF Save, TInv, RowsOK

LEMMA FinishInformed ==
  ASSUME NEW u \in Users, GInv, TInv', Finish(u)
  PROVE  GInv'
<1>1. /\ order' = [req[u].order EXCEPT !.status = "completed"]
      /\ Done(u) /\ UNCHANGED <<edition, rows, made, removed, begun>>
  BY DEF Finish
<1>2. Careful
  <2>1. /\ \A t \in Tasks : made'[t] >= made[t]
        /\ \A p \in Processes : process'[p] = "absent" => process[p] = "absent"
    BY <1>1 DEF Finish, GInv, TInv, RowsOK
  <2> QED
    BY <1>1, <2>1, AddsOnly
<1>3. order'.approval = req[u].order.approval
  BY <1>1, CopyTyped DEF GInv, OrderRow
<1>4. order'.approval = "approved" => HaveTasks'
  BY <1>2, <1>3, CarefulKeeps DEF GInv, Informed
<1>5. req'[u] = Idle /\ \A v \in Users \ {u} : req'[v] = req[v]
  BY <1>1, DoneKeeps DEF GInv, TInv
<1> QED
  BY <1>2, <1>4, <1>5, IdleInformed, Together

LEMMA CheckInformed ==
  ASSUME NEW u \in Users, GInv, TInv', Check(u)
  PROVE  GInv'
<1>1. /\ Goto(u, "finish") /\ req[u].op = "check" /\ "finish" \in Places
      /\ UNCHANGED <<order, process, edition, rows, made, open, stale, removed, begun>>
  BY DEF Check, Places
<1> QED
  BY <1>1, LeavesRows, GotoInformed

(* What requests about processes and tasks do leaves tasks where they are. *)
LEMMA WorkInformed ==
  ASSUME NEW u \in Users, GInv, TInv', Work(u), UNCHANGED <<order, removed>>
  PROVE  GInv'
<1> USE DEF Places
<1>1. Careful
  <2>1. \A t \in Tasks : made[t] \in Nat
    BY DEF GInv, TInv, RowsOK
  <2>2. \A t \in Tasks : made'[t] >= made[t]
    <3>1. CASE UNCHANGED made
      BY <2>1, <3>1
    <3>2. CASE Generate(u)
      <4>1. \A t \in Tasks : made'[t] = made[t] + (IF t \in req[u].todo THEN 1 ELSE 0)
        BY <3>2, CopyTyped, GeneratedTyped DEF Generate, GInv, TInv, RowsOK
      <4> QED
        BY <2>1, <4>1
    <3>3. ASSUME NEW t \in Tasks, CompleteTask(u, t)
          PROVE  \A x \in Tasks : made'[x] >= made[x]
      BY <2>1, <3>3 DEF CompleteTask, GInv, TInv, RowsOK
    <3> QED
      BY <3>1, <3>2, <3>3 DEF Work, Start, Report, Correct, Reopened, Confirm, List, Judge,
         Close, Count, Finish, Commit
  <2>3. \A p \in Processes : process'[p] = "absent" => process[p] = "absent"
    <3>1. CASE UNCHANGED process
      BY <3>1
    <3>2. CASE Start(u) \/ Close(u)
      BY <3>1, <3>2, SaveKeepsProcesses DEF Start, Close, ProcessStatuses, GInv
    <3>3. CASE Finish(u) \/ Commit(u)
      BY <3>3 DEF Finish, Commit, GInv, TInv, RowsOK
    <3> QED
      BY <3>1, <3>2, <3>3 DEF Work, Generate, Report, Correct, Reopened, Confirm, List,
         CompleteTask, Judge, Count
  <2> QED
    BY <2>2, <2>3, AddsOnly
<1>2. CASE Done(u)
  BY <1>1, <1>2, DoneInformed
<1>3. ASSUME NEW place \in Places, place \notin {"generate", "held"}, Goto(u, place)
      PROVE  GInv'
  BY <1>1, <1>3, GotoInformed
<1>4. CASE Generate(u) \/ Start(u) \/ Report(u) \/ Correct(u)
  BY <1>2, <1>3, <1>4 DEF Generate, Start, Report, Correct, Reopened
<1>5. CASE Judge(u) \/ Count(u) \/ Finish(u) \/ Commit(u)
  BY <1>2, <1>3, <1>5 DEF Judge, Count, Finish, Commit
<1>6. ASSUME NEW new, req' = [req EXCEPT ![u] = new], new.op = req[u].op,
             new.process = req[u].process, new.at \notin {"generate", "held"},
             new.order \in {req[u].order, order}
      PROVE  GInv'
  <2>1. req'[u] = new /\ \A v \in Users \ {u} : req'[v] = req[v]
    BY <1>6 DEF GInv, TInv, RequestsOK
  <2>2. ~Generating(u)'
    BY <1>6, <2>1 DEF Generating
  <2> QED
    BY <1>1, <1>6, <2>1, <2>2, WorkerInformed, StaysInformed
<1>7. CASE Confirm(u)
  <2> DEFINE new == [req[u] EXCEPT !.at = "judge", !.order = order]
  <2>1. req' = [req EXCEPT ![u].at = "judge", ![u].order = order]
    BY <1>7 DEF Confirm
  <2>2. req' = [req EXCEPT ![u] = new]
    BY <2>1 DEF GInv, TInv, RequestsOK
  <2>3. /\ new.op = req[u].op /\ new.order = order
        /\ new.process = req[u].process /\ new.at = "judge"
    BY CopyTyped DEF GInv, Request
  <2> QED
    BY <1>6, <2>2, <2>3
<1>8. CASE List(u)
  <2> DEFINE new == [req[u] EXCEPT !.at = "force", !.todo = OpenFor(u, req[u].process)]
  <2>1. req' = [req EXCEPT ![u].at = "force", ![u].todo = OpenFor(u, req[u].process)]
    BY <1>8 DEF List
  <2>2. req' = [req EXCEPT ![u] = new]
    BY <2>1 DEF GInv, TInv, RequestsOK
  <2>3. /\ new.op = req[u].op /\ new.order = req[u].order
        /\ new.process = req[u].process /\ new.at = "force"
    BY CopyTyped DEF GInv, Request
  <2> QED
    BY <1>6, <2>2, <2>3
<1>9. ASSUME NEW t \in Tasks, CompleteTask(u, t) PROVE GInv'
  <2> DEFINE new == [req[u] EXCEPT !.todo = @ \ {t}]
  <2>1. req' = [req EXCEPT ![u].todo = @ \ {t}]
    BY <1>9 DEF CompleteTask
  <2>2. req' = [req EXCEPT ![u] = new]
    BY <2>1 DEF GInv, TInv, RequestsOK
  <2>3. /\ new.op = req[u].op /\ new.order = req[u].order
        /\ new.process = req[u].process /\ new.at = "force"
    BY <1>9, CopyTyped DEF GInv, Request, CompleteTask
  <2> QED
    BY <1>6, <2>2, <2>3
<1>10. CASE Close(u)
  <2> DEFINE new == [req[u] EXCEPT !.at = "count", !.closes = TRUE]
  <2>1. req' = [req EXCEPT ![u].at = "count", ![u].closes = TRUE]
    BY <1>10 DEF Close
  <2>2. req' = [req EXCEPT ![u] = new]
    BY <2>1 DEF GInv, TInv, RequestsOK
  <2>3. /\ new.op = req[u].op /\ new.order = req[u].order
        /\ new.process = req[u].process /\ new.at = "count"
    BY CopyTyped DEF GInv, Request
  <2> QED
    BY <1>6, <2>2, <2>3
<1> QED
  BY <1>4, <1>5, <1>7, <1>8, <1>9, <1>10 DEF Work

LEMMA GNext == GInv /\ [Next]_vars => GInv'
<1> SUFFICES ASSUME GInv, [Next]_vars PROVE GInv'
  OBVIOUS
<1>1. TInv'
  BY TNext DEF GInv
<1>2. CASE UNCHANGED vars
  BY <1>1, <1>2 DEF vars, GInv, AbsentGone, Existing, HaveTasks, Informed, Generating,
     Lists
<1>3. ASSUME NEW u \in Users, Begin(u) PROVE GInv'
  BY <1>1, <1>3, BeginInformed
<1>4. ASSUME NEW u \in Users, Review(u) PROVE GInv'
  BY <1>1, <1>4, SubmitInformed, MissingInformed, ApproveInformed, RejectInformed,
     CheckInformed, EditInformed, SyncInformed DEF Review
<1>5. ASSUME NEW u \in Users, Work(u) PROVE GInv'
  <2>1. CASE Finish(u)
    BY <1>1, <2>1, FinishInformed
  <2>2. CASE ~Finish(u)
    <3>1. UNCHANGED <<order, removed>>
      BY <1>5, <2>2 DEF Work, Generate, Start, Report, Correct, Reopened, Confirm, List,
         CompleteTask, Judge, Close, Count, Commit
    <3> QED
      BY <1>1, <1>5, <3>1, WorkInformed
  <2> QED
    BY <2>1, <2>2
<1>6. ASSUME NEW u \in Users, Rows(u) PROVE GInv'
  BY <1>1, <1>6, RowsInformed
<1>7. ASSUME NEW u \in Users, Fail(u) PROVE GInv'
  <2>1. /\ Done(u)
        /\ UNCHANGED <<order, process, edition, rows, made, open, removed, begun>>
    BY <1>7 DEF Fail
  <2> QED
    BY <1>1, <2>1, LeavesRows, DoneInformed
<1> QED
  BY <1>2, <1>3, <1>4, <1>5, <1>6, <1>7 DEF Next

LEMMA GInit == Init => GInv
<1> SUFFICES ASSUME Init PROVE GInv
  OBVIOUS
<1>1. order.approval # "approved"
  BY DEF Init, NewOrder
<1>2. ASSUME NEW u \in Users PROVE Informed(u)
  <2>1. req[u] = Idle
    BY DEF Init
  <2>2. Idle.op = "idle" /\ Idle.order.approval = "draft"
    BY DEF Idle, NewOrder
  <2> QED
    BY <2>1, <2>2 DEF Informed, Generating
<1>3. AbsentGone
  BY WriterAssumption DEF AbsentGone, Existing, Init
<1> QED
  BY <1>1, <1>2, <1>3, TInit DEF GInv

(* Approval and tasks come together: whenever the row of the order says    *)
(* approved, even when an old copy was saved last, every task that is      *)
(* wanted is there, unless it was taken away since it was last generated,  *)
(* by a delete, a sync or an edit that makes its process anew.             *)
THEOREM ApprovedOrdersHaveTasks == Spec => []ApprovedHasTasks
<1>1. GInv => ApprovedHasTasks
  BY DEF GInv, HaveTasks, ApprovedHasTasks
<1> QED
  BY <1>1, GInit, GNext, PTL DEF Spec

-----------------------------------------------------------------------------
(* Who completes the last one closes.  As long as no copy was out of date, *)
(* a process whose tasks are done and an order whose processes are closed  *)
(* are left open only while some request is on its way to close them.      *)
DoneFor(p) == (\A t \in TasksOf(p) : open[t] = 0) /\ (\E t \in TasksOf(p) : made[t] > 0)
Reporting == {"report", "complete"}
OwesProcess(u, p) ==
    /\ req[u].op \in Reporting /\ req[u].process = p
    /\ req[u].at \in {"judge", "close", "force"}
OwesOrder(u) == req[u].op \in Reporting /\ req[u].at \in {"count", "finish"}

ProcessOpen(p) == DoneFor(p) /\ process[p] # "completed"
OrderOpen == Closed(process) /\ order.status # "completed"
Owing ==
    stale = {} =>
        /\ \A p \in Processes : ProcessOpen(p) => \E u \in Users : OwesProcess(u, p)
        /\ OrderOpen => \E u \in Users : OwesOrder(u)

(* Which requests reach which places, and what they are about.             *)
Walks(u) ==
    /\ req[u].op \in TaskRequests => /\ req[u].task \in Tasks
                                     /\ req[u].process = Home[req[u].task]
    /\ req[u].op \in ProcessRequests => req[u].process \in Processes
    /\ req[u].at \in {"judge", "close"} => req[u].op \in {"report", "confirm"}
    /\ req[u].at = "force" => /\ req[u].op = "complete"
                              /\ req[u].todo \subseteq TasksOf(req[u].process)
    /\ req[u].at = "count" => req[u].op \in {"report", "confirm", "complete"}
LInv == (\A u \in Users : Walks(u)) /\ Owing

(* What request u has to answer for when it takes a step.                  *)
Answers(u) ==
    stale' = {} =>
        /\ \A p \in Processes : ProcessOpen(p)' =>
              OwesProcess(u, p)' \/ (ProcessOpen(p) /\ ~OwesProcess(u, p))
        /\ OrderOpen' => OwesOrder(u)' \/ (OrderOpen /\ ~OwesOrder(u))

LEMMA StepAnswers ==
  ASSUME NEW u \in Users, LInv, \A v \in Users \ {u} : req'[v] = req[v],
         Walks(u)', stale \subseteq stale', Answers(u)
  PROVE  LInv'
<1>1. \A v \in Users : Walks(v)'
  BY DEF LInv, Walks
<1>2. ASSUME stale' = {}, NEW p \in Processes, ProcessOpen(p)'
      PROVE  \E v \in Users : OwesProcess(v, p)'
  <2>1. CASE OwesProcess(u, p)'
    BY <2>1
  <2>2. CASE ProcessOpen(p) /\ ~OwesProcess(u, p)
    <3>1. PICK v \in Users : OwesProcess(v, p)
      BY <1>2, <2>2 DEF LInv, Owing
    <3>2. OwesProcess(v, p)'
      BY <2>2, <3>1 DEF OwesProcess
    <3> QED
      BY <3>2
  <2> QED
    BY <1>2, <2>1, <2>2 DEF Answers
<1>3. ASSUME stale' = {}, OrderOpen'
      PROVE  \E v \in Users : OwesOrder(v)'
  <2>1. CASE OwesOrder(u)'
    BY <2>1
  <2>2. CASE OrderOpen /\ ~OwesOrder(u)
    <3>1. PICK v \in Users : OwesOrder(v)
      BY <1>3, <2>2 DEF LInv, Owing
    <3>2. OwesOrder(v)'
      BY <2>2, <3>1 DEF OwesOrder
    <3> QED
      BY <3>2
  <2> QED
    BY <1>3, <2>1, <2>2 DEF Answers
<1> QED
  BY <1>1, <1>2, <1>3 DEF LInv, Owing

(* A request that owes nothing and leaves nothing more to be closed.       *)
Eases ==
    stale' = {} =>
        /\ \A p \in Processes : ProcessOpen(p)' => ProcessOpen(p)
        /\ OrderOpen' => OrderOpen

LEMMA Bystander ==
  ASSUME NEW u \in Users, LInv, req[u].op \notin Reporting,
         \A v \in Users \ {u} : req'[v] = req[v],
         Walks(u)', stale \subseteq stale', Eases
  PROVE  LInv'
<1>1. Answers(u)
  BY DEF Answers, Eases, OwesProcess, OwesOrder
<1> QED
  BY <1>1, StepAnswers

LEMMA RowsStay ==
  ASSUME UNCHANGED <<order, process, made, open>>
  PROVE  /\ \A p \in Processes : ProcessOpen(p)' = ProcessOpen(p)
         /\ OrderOpen' = OrderOpen
         /\ Eases
  BY DEF ProcessOpen, DoneFor, OrderOpen, Closed, Eases

LEMMA IdleWalks ==
  ASSUME NEW u \in Users, req'[u] = Idle
  PROVE  /\ Walks(u)'
         /\ \A p : ~OwesProcess(u, p)'
         /\ ~OwesOrder(u)'
  BY DEF Walks, Idle, TaskRequests, ProcessRequests, OwesProcess, OwesOrder

(* Going on keeps what the request is about.                               *)
LEMMA GotoWalks ==
  ASSUME NEW u \in Users, NEW place \in Places, TInv, Walks(u), Goto(u, place),
         place \in {"judge", "close"} => req[u].op \in {"report", "confirm"},
         place # "force",
         place = "count" => req[u].op \in {"report", "confirm", "complete"}
  PROVE  /\ Walks(u)'
         /\ \A v \in Users \ {u} : req'[v] = req[v]
         /\ req'[u].op = req[u].op /\ req'[u].process = req[u].process
         /\ req'[u].at = place
<1>1. /\ \A v \in Users \ {u} : req'[v] = req[v]
      /\ req'[u] = [req[u] EXCEPT !.at = place]
  BY GotoKeeps DEF TInv
<1>2. /\ req'[u].op = req[u].op /\ req'[u].process = req[u].process
      /\ req'[u].task = req[u].task /\ req'[u].at = place
  BY <1>1, CopyTyped DEF Request
<1> QED
  BY <1>1, <1>2 DEF Walks

(* Generating tasks leaves no process more complete than it was.           *)
LEMMA GenerationEases ==
  ASSUME TInv, NEW todo \in SUBSET Tasks, NEW p \in Processes,
         made' = Generated(made, todo), open' = Generated(open, todo), DoneFor(p)'
  PROVE  DoneFor(p)
<1>1. ASSUME NEW t \in Tasks
      PROVE  /\ made[t] \in Nat /\ open[t] \in Nat
             /\ made'[t] = made[t] + (IF t \in todo THEN 1 ELSE 0)
             /\ open'[t] = open[t] + (IF t \in todo THEN 1 ELSE 0)
  BY GeneratedTyped DEF TInv, RowsOK
<1>2. ASSUME NEW t \in TasksOf(p)
      PROVE  open[t] = 0 /\ made'[t] = made[t]
  <2>1. t \in Tasks /\ open'[t] = 0
    BY DEF TasksOf, DoneFor
  <2> QED
    BY <1>1, <2>1
<1> QED
  BY <1>2 DEF DoneFor

(* The handlers, in the order of the module.                               *)
LEMMA LoadAnswers ==
  ASSUME NEW u \in Users, TInv, LInv,
         NEW op \in OrderRequests \cup ProcessRequests \cup TaskRequests,
         NEW p, NEW t, Load(u, op, p, t),
         op \in TaskRequests => t \in Tasks /\ p = Home[t],
         op \in ProcessRequests => p \in Processes
  PROVE  LInv'
<1> DEFINE new == [op |-> op, at |-> "begun", task |-> t, process |-> p, order |-> order,
                   edition |-> edition, todo |-> {}, closes |-> FALSE]
<1>1. /\ req' = [req EXCEPT ![u] = new] /\ req[u] = Idle
      /\ UNCHANGED <<order, process, made, open, stale>>
  BY DEF Load
<1>2. req'[u] = new /\ \A v \in Users \ {u} : req'[v] = req[v]
  BY <1>1 DEF TInv, RequestsOK
<1>3. Walks(u)'
  BY <1>2 DEF Walks
<1>4. req[u].op \notin Reporting
  BY <1>1 DEF Idle, Reporting
<1> QED
  BY <1>1, <1>2, <1>3, <1>4, RowsStay, Bystander

LEMMA BeginAnswers ==
  ASSUME NEW u \in Users, TInv, LInv, Begin(u)
  PROVE  LInv'
<1>1. ASSUME NEW op \in OrderRequests, BeginOrder(u, op) PROVE LInv'
  <2>1. op \notin TaskRequests \cup ProcessRequests
    BY DEF OrderRequests, TaskRequests, ProcessRequests
  <2> QED
    BY <1>1, <2>1, LoadAnswers DEF BeginOrder
<1>2. ASSUME NEW op \in ProcessRequests, NEW p \in Processes, BeginProcess(u, op, p)
      PROVE  LInv'
  <2>1. op \notin TaskRequests
    BY DEF TaskRequests, ProcessRequests
  <2> QED
    BY <1>2, <2>1, LoadAnswers DEF BeginProcess
<1>3. ASSUME NEW op \in TaskRequests, NEW t \in Tasks, BeginTask(u, op, t)
      PROVE  LInv'
  <2>1. op \notin ProcessRequests
    BY DEF TaskRequests, ProcessRequests
  <2> QED
    BY <1>3, <2>1, LoadAnswers DEF BeginTask
<1> QED
  BY <1>1, <1>2, <1>3 DEF Begin

(* Submitting changes the approval and nothing that can be left open.      *)
LEMMA SubmitAnswers ==
  ASSUME NEW u \in Users, TInv, LInv, Submit(u)
  PROVE  LInv'
<1>1. /\ req[u].op = "submit" /\ UNCHANGED <<process, made, open, stale>>
      /\ order' = order \/ order' = [order EXCEPT !.approval = "submitted"]
  BY DEF Submit
<1>2. order'.status = order.status
  BY <1>1 DEF TInv, RowsOK, OrderRow
<1>3. Eases
  BY <1>1, <1>2 DEF Eases, ProcessOpen, DoneFor, OrderOpen, Closed
<1>4. req[u].op \notin Reporting
  BY <1>1 DEF Reporting
<1>5. CASE Done(u)
  <2>1. \A v \in Users : req'[v] = IF v = u THEN Idle ELSE req[v]
    BY <1>5, DoneKeeps DEF TInv
  <2> QED
    BY <1>1, <1>3, <1>4, <2>1, IdleWalks, Bystander
<1>6. CASE req' = [req EXCEPT ![u].at = "held", ![u].edition = edition,
                              ![u].todo = {t \in Tasks : made[t] = 0 /\ Home[t] \in Existing},
                              ![u].order = [order EXCEPT !.approval = "submitted"]]
  <2> DEFINE new == [req[u] EXCEPT !.at = "held", !.edition = edition,
                                   !.todo = {t \in Tasks : made[t] = 0 /\ Home[t] \in Existing},
                                   !.order = [order EXCEPT !.approval = "submitted"]]
  <2>1. req' = [req EXCEPT ![u] = new]
    BY <1>6 DEF TInv, RequestsOK
  <2>2. new.at = "held" /\ new.op = "submit"
    BY <1>1, CopyTyped DEF Request
  <2>3. req'[u] = new /\ \A v \in Users \ {u} : req'[v] = req[v]
    BY <2>1 DEF TInv, RequestsOK
  <2> HIDE DEF new
  <2>4. Walks(u)'
    BY <2>2, <2>3 DEF Walks, TaskRequests, ProcessRequests
  <2> QED
    BY <1>1, <1>3, <1>4, <2>3, <2>4, Bystander
<1> QED
  BY <1>5, <1>6 DEF Submit

LEMMA MissingAnswers ==
  ASSUME NEW u \in Users, TInv, LInv, Missing(u)
  PROVE  LInv'
<1> DEFINE list == {t \in Tasks : /\ made[t] = 0 /\ Home[t] \in Existing
                                 /\ req[u].process \in {None, Home[t]}}
           new == [req[u] EXCEPT !.at = "generate", !.edition = edition, !.todo = list]
<1>1. /\ req[u].op \in {"approve", "batch"}
      /\ req' = [req EXCEPT ![u].at = "generate", ![u].edition = edition, ![u].todo = list]
      /\ UNCHANGED <<order, process, made, open, stale>>
  BY DEF Missing
<1>2. req' = [req EXCEPT ![u] = new]
  BY <1>1 DEF TInv, RequestsOK
<1>3. /\ new.at = "generate" /\ new.op = req[u].op /\ new.process = req[u].process
      /\ new.task = req[u].task
  BY CopyTyped DEF Request
<1>4. req'[u] = new /\ \A v \in Users \ {u} : req'[v] = req[v]
  BY <1>2 DEF TInv, RequestsOK
<1> HIDE DEF new
<1>5. Walks(u)'
  BY <1>3, <1>4 DEF Walks, LInv
<1>6. req[u].op \notin Reporting
  BY <1>1 DEF Reporting
<1> QED
  BY <1>1, <1>4, <1>5, <1>6, RowsStay, Bystander

(* A review takes an order out of completed only with a mark, if all its   *)
(* processes are closed.                                                   *)
LEMMA ApproveAnswers ==
  ASSUME NEW u \in Users, TInv, LInv, Approve(u)
  PROVE  LInv'
<1>1. /\ Done(u) /\ req[u].op \in {"approve", "submit"}
      /\ made' = Generated(made, req[u].todo) /\ open' = Generated(open, req[u].todo)
      /\ TakenBack \subseteq stale' /\ stale \subseteq stale' /\ process' = process
  BY DEF Approve, Mark
<1>2. \A v \in Users : req'[v] = IF v = u THEN Idle ELSE req[v]
  BY <1>1, DoneKeeps DEF TInv
<1>3. \A p \in Processes : DoneFor(p)' => DoneFor(p)
  BY <1>1, CopyTyped, GenerationEases
<1>4. stale' = {} => ~Closed(process)
  BY <1>1 DEF TakenBack
<1>5. Eases
  BY <1>1, <1>3, <1>4 DEF Eases, ProcessOpen, OrderOpen, Closed
<1>6. req[u].op \notin Reporting
  BY <1>1 DEF Reporting
<1> QED
  BY <1>1, <1>2, <1>5, <1>6, IdleWalks, Bystander

LEMMA RejectAnswers ==
  ASSUME NEW u \in Users, TInv, LInv, Reject(u)
  PROVE  LInv'
<1>1. /\ Done(u) /\ req[u].op = "reject"
      /\ TakenBack \subseteq stale' /\ stale \subseteq stale'
      /\ UNCHANGED <<process, made, open>>
  BY DEF Reject, Mark
<1>2. \A v \in Users : req'[v] = IF v = u THEN Idle ELSE req[v]
  BY <1>1, DoneKeeps DEF TInv
<1>3. stale' = {} => ~Closed(process)
  BY <1>1 DEF TakenBack
<1>4. Eases
  BY <1>1, <1>3 DEF Eases, ProcessOpen, DoneFor, OrderOpen, Closed
<1>5. req[u].op \notin Reporting
  BY <1>1 DEF Reporting
<1> QED
  BY <1>1, <1>2, <1>4, <1>5, IdleWalks, Bystander

(* A process that is made anew has no tasks, what closes an order by       *)
(* taking rows out of it leaves a mark, and an edit whose copy is current  *)
(* leaves the status of the order as it is.                                *)
LEMMA ReplaceEases ==
  ASSUME TInv, NEW gone \in SUBSET Processes, NEW new \in SUBSET Processes, NEW u,
         Replace(u, gone, new), \A p \in new : process[p] # "completed",
         NEW p \in Processes, ProcessOpen(p)'
  PROVE  ProcessOpen(p)
<1>1. /\ process' = [q \in Processes |-> CASE q \in new -> "pending"
                                           [] q \in gone \ new -> "absent"
                                           [] OTHER -> process[q]]
      /\ made' = [t \in Tasks |-> IF Home[t] \in gone THEN 0 ELSE made[t]]
      /\ open' = [t \in Tasks |-> IF Home[t] \in gone THEN 0 ELSE open[t]]
  BY DEF Replace, Without
<1>2. p \notin gone
  BY <1>1 DEF ProcessOpen, DoneFor, TasksOf
<1>3. \A t \in TasksOf(p) : made'[t] = made[t] /\ open'[t] = open[t]
  BY <1>1, <1>2 DEF TasksOf
<1>4. DoneFor(p)
  BY <1>3 DEF ProcessOpen, DoneFor, TasksOf
<1>5. process[p] # "completed"
  BY <1>1, <1>2 DEF ProcessOpen
<1> QED
  BY <1>4, <1>5 DEF ProcessOpen

LEMMA EditAnswers ==
  ASSUME NEW u \in Users, TInv, LInv, NEW privileged \in BOOLEAN, Edit(u, privileged)
  PROVE  LInv'
<1>1. /\ Done(u) /\ req[u].op = "edit"
      /\ order' = Edited(req[u].order, privileged)
      /\ Outdated(u) \subseteq stale' /\ stale \subseteq stale'
  BY DEF Edit, EditFields, EditLists, Mark
<1>2. \A v \in Users : req'[v] = IF v = u THEN Idle ELSE req[v]
  BY <1>1, DoneKeeps DEF TInv
<1>3. stale' = {} => order'.status = order.status
  <2>1. order'.status = req[u].order.status
    BY <1>1, CopyTyped DEF Edited, OrderRow
  <2> QED
    BY <1>1, <2>1 DEF Outdated
<1>4. ASSUME EditFields(u, privileged) PROVE Eases
  <2>1. UNCHANGED <<process, made, open>>
    BY <1>4 DEF EditFields
  <2> QED
    BY <1>3, <2>1 DEF Eases, ProcessOpen, DoneFor, OrderOpen, Closed
<1>5. ASSUME NEW listed \in SUBSET Processes, EditLists(u, privileged, listed)
      PROVE  Eases
  <2> DEFINE gone == {p \in Processes : process[p] = "pending"}
             new == {p \in listed : process[p] \in {"pending", "absent"}}
  <2>1. /\ Replace(u, gone, new) /\ gone \in SUBSET Processes /\ new \in SUBSET Processes
        /\ Struck(process', order') \subseteq stale'
        /\ \A p \in new : process[p] # "completed"
    BY <1>5 DEF EditLists, Mark
  <2> HIDE DEF gone, new
  <2>2. \A p \in Processes : ProcessOpen(p)' => ProcessOpen(p)
    BY <2>1, ReplaceEases
  <2>3. stale' = {} => ~OrderOpen'
    BY <2>1 DEF Struck, OrderOpen, Closed
  <2> QED
    BY <2>2, <2>3 DEF Eases
<1>6. Eases
  BY <1>4, <1>5 DEF Edit
<1>7. req[u].op \notin Reporting
  BY <1>1 DEF Reporting
<1> QED
  BY <1>1, <1>2, <1>6, <1>7, IdleWalks, Bystander

(* A sync leaves a process all its tasks, takes all of them, or adds one.  *)
LEMMA SyncAnswers ==
  ASSUME NEW u \in Users, TInv, LInv, NEW kept \in SUBSET Processes, Synchronise(u, kept)
  PROVE  LInv'
<1> DEFINE taken == {t \in Tasks : Home[t] \notin kept /\ Current(u, Home[t])}
           missing == {t \in Tasks : Home[t] \in kept \cap Existing /\ made[t] = 0}
           Synced(count) == [t \in Tasks |-> CASE t \in taken -> 0
                                               [] t \in missing -> 1
                                               [] OTHER -> count[t]]
<1>1. /\ Done(u) /\ req[u].op = "sync" /\ stale \subseteq stale'
      /\ made' = Synced(made) /\ open' = Synced(open)
      /\ UNCHANGED <<order, process>>
  BY DEF Synchronise, Mark
<1>2. \A v \in Users : req'[v] = IF v = u THEN Idle ELSE req[v]
  BY <1>1, DoneKeeps DEF TInv
<1>3. ASSUME NEW p \in Processes, DoneFor(p)' PROVE DoneFor(p)
  <2>1. PICK t \in TasksOf(p) : t \in Tasks /\ Home[t] = p /\ made'[t] > 0
    BY <1>3 DEF DoneFor, TasksOf
  <2>2. t \notin taken
    BY <1>1, <2>1
  <2>3. \A x \in TasksOf(p) : x \in Tasks /\ x \notin taken
    BY <2>1, <2>2 DEF TasksOf
  <2>4. \A x \in TasksOf(p) : x \notin missing
    <3> HIDE DEF taken, missing
    <3>1. ASSUME NEW x \in TasksOf(p), x \in missing PROVE FALSE
      BY <1>1, <1>3, <2>3, <3>1 DEF DoneFor, TasksOf
    <3> QED
      BY <3>1
  <2> HIDE DEF taken, missing
  <2>5. \A x \in TasksOf(p) : made'[x] = made[x] /\ open'[x] = open[x]
    BY <1>1, <2>3, <2>4
  <2> QED
    BY <1>3, <2>5 DEF DoneFor, TasksOf
<1>4. Eases
  BY <1>1, <1>3 DEF Eases, ProcessOpen, OrderOpen, Closed
<1>5. req[u].op \notin Reporting
  BY <1>1 DEF Reporting
<1> QED
  BY <1>1, <1>2, <1>4, <1>5, IdleWalks, Bystander

LEMMA CheckAnswers ==
  ASSUME NEW u \in Users, TInv, LInv, Check(u)
  PROVE  LInv'
<1>1. /\ req[u].op = "check" /\ Goto(u, "finish") /\ Walks(u)
      /\ UNCHANGED <<order, process, made, open, stale>>
  BY DEF Check, LInv
<1>2. "finish" \in Places
  BY DEF Places
<1>3. Walks(u)' /\ \A v \in Users \ {u} : req'[v] = req[v]
  BY <1>1, <1>2, GotoWalks
<1>4. req[u].op \notin Reporting
  BY <1>1 DEF Reporting
<1> QED
  BY <1>1, <1>3, <1>4, RowsStay, Bystander

LEMMA ReviewAnswers ==
  ASSUME NEW u \in Users, TInv, LInv, Review(u)
  PROVE  LInv'
  BY SubmitAnswers, MissingAnswers, ApproveAnswers, RejectAnswers, EditAnswers,
     SyncAnswers, CheckAnswers DEF Review

LEMMA GenerateAnswers ==
  ASSUME NEW u \in Users, TInv, LInv, Generate(u)
  PROVE  LInv'
<1>1. /\ req[u].op = "batch" /\ Goto(u, "save") /\ Walks(u)
      /\ made' = Generated(made, req[u].todo) /\ open' = Generated(open, req[u].todo)
      /\ stale \subseteq stale' /\ UNCHANGED <<order, process>>
  BY DEF Generate, LInv, Mark
<1>2. "save" \in Places
  BY DEF Places
<1>3. Walks(u)' /\ \A v \in Users \ {u} : req'[v] = req[v]
  BY <1>1, <1>2, GotoWalks
<1>4. \A p \in Processes : DoneFor(p)' => DoneFor(p)
  BY <1>1, CopyTyped, GenerationEases
<1>5. Eases
  BY <1>1, <1>4 DEF Eases, ProcessOpen, OrderOpen, Closed
<1>6. req[u].op \notin Reporting
  BY <1>1 DEF Reporting
<1> QED
  BY <1>1, <1>3, <1>5, <1>6, Bystander

(* A closed process is opened again only with a mark.                      *)
LEMMA StartAnswers ==
  ASSUME NEW u \in Users, TInv, LInv, Start(u)
  PROVE  LInv'
<1> DEFINE p == req[u].process
<1>1. /\ req[u].op \in {"start", "batch"} /\ Done(u)
      /\ process' = [process EXCEPT ![p] = "in_progress"]
      /\ stale' = stale \cup (IF process[p] # "pending" THEN {"process"} ELSE {})
      /\ UNCHANGED <<order, made, open>>
  BY DEF Start, Save, Mark
<1>2. \A v \in Users : req'[v] = IF v = u THEN Idle ELSE req[v]
  BY <1>1, DoneKeeps DEF TInv
<1>3. p \in Processes /\ process \in [Processes -> ProcessStatuses]
  BY <1>1 DEF LInv, Walks, ProcessRequests, TInv, RowsOK
<1>4. stale' = {} => process[p] = "pending"
  BY <1>1
<1> HIDE DEF p
<1>5. Eases
  <2>1. ~Closed(process)'
    BY <1>1, <1>3 DEF Closed
  <2>2. ASSUME stale' = {}, NEW q \in Processes, process'[q] # "completed"
        PROVE  process[q] # "completed"
    BY <1>1, <1>3, <1>4, <2>2
  <2> QED
    BY <1>1, <2>1, <2>2 DEF Eases, ProcessOpen, DoneFor, OrderOpen
<1>6. req[u].op \notin Reporting
  BY <1>1 DEF Reporting
<1> QED
  BY <1>1, <1>2, <1>5, <1>6, IdleWalks, Bystander

(* A task that changes decides about its own process only.                 *)
LEMMA DoneElsewhere ==
  ASSUME NEW t, NEW p \in Processes, p # Home[t],
         \A x \in Tasks \ {t} : made'[x] = made[x] /\ open'[x] = open[x]
  PROVE  DoneFor(p)' = DoneFor(p)
<1>1. \A x \in TasksOf(p) : made'[x] = made[x] /\ open'[x] = open[x]
  BY DEF TasksOf
<1> QED
  BY <1>1 DEF DoneFor, TasksOf

LEMMA ReportAnswers ==
  ASSUME NEW u \in Users, TInv, LInv, Report(u)
  PROVE  LInv'
<1>1. /\ req[u].op = "report" /\ req[u].at = "begun" /\ Goto(u, "judge") /\ Walks(u)
      /\ open' = [open EXCEPT ![req[u].task] = @ - 1]
      /\ UNCHANGED <<order, process, made, stale>>
  BY DEF Report, LInv
<1>2. "judge" \in Places
  BY DEF Places
<1>3. /\ Walks(u)' /\ \A v \in Users \ {u} : req'[v] = req[v]
      /\ req'[u].op = "report" /\ req'[u].process = req[u].process /\ req'[u].at = "judge"
  BY <1>1, <1>2, GotoWalks
<1>4. PICK t \in Tasks : t = req[u].task /\ req[u].process = Home[t]
  BY <1>1 DEF Walks, TaskRequests
<1>5. \A x \in Tasks \ {t} : open'[x] = open[x]
  BY <1>1, <1>4 DEF TInv, RowsOK
<1>6. \A p \in Processes : p # Home[t] => ProcessOpen(p)' = ProcessOpen(p)
  BY <1>1, <1>5, DoneElsewhere DEF ProcessOpen
<1>7. OwesProcess(u, Home[t])'
  BY <1>3, <1>4 DEF OwesProcess, Reporting
<1>8. (\A p \in Processes : ~OwesProcess(u, p)) /\ ~OwesOrder(u)
  BY <1>1 DEF OwesProcess, OwesOrder
<1>9. OrderOpen' = OrderOpen
  BY <1>1 DEF OrderOpen, Closed
<1>10. Answers(u)
  BY <1>6, <1>7, <1>8, <1>9 DEF Answers
<1> QED
  BY <1>1, <1>3, <1>10, StepAnswers

LEMMA CorrectAnswers ==
  ASSUME NEW u \in Users, TInv, LInv, Correct(u)
  PROVE  LInv'
<1>1. /\ req[u].op = "correct" /\ Done(u) /\ Walks(u)
      /\ open' = [open EXCEPT ![req[u].task] = @ + 1]
      /\ UNCHANGED <<order, process, made, stale>>
  BY DEF Correct, Reopened, LInv
<1>2. \A v \in Users : req'[v] = IF v = u THEN Idle ELSE req[v]
  BY <1>1, DoneKeeps DEF TInv
<1>3. PICK t \in Tasks : /\ \A x \in Tasks \ {t} : open'[x] = open[x]
                        /\ open[t] \in Nat /\ open'[t] = open[t] + 1
  BY <1>1 DEF TInv, RowsOK, Walks, TaskRequests
<1>4. open'[t] # 0
  BY <1>3
<1>5. ~DoneFor(Home[t])'
  BY <1>3, <1>4 DEF DoneFor, TasksOf
<1>6. \A p \in Processes : DoneFor(p)' => DoneFor(p)
  BY <1>1, <1>3, <1>5, DoneElsewhere
<1>7. Eases
  BY <1>1, <1>6 DEF Eases, ProcessOpen, OrderOpen, Closed
<1>8. req[u].op \notin Reporting
  BY <1>1 DEF Reporting
<1> QED
  BY <1>1, <1>2, <1>7, <1>8, IdleWalks, Bystander

LEMMA ConfirmAnswers ==
  ASSUME NEW u \in Users, TInv, LInv, Confirm(u)
  PROVE  LInv'
<1> DEFINE new == [req[u] EXCEPT !.at = "judge", !.order = order]
<1>1. /\ req[u].op = "confirm"
      /\ req' = [req EXCEPT ![u].at = "judge", ![u].order = order]
      /\ UNCHANGED <<order, process, made, open, stale>>
  BY DEF Confirm
<1>2. req' = [req EXCEPT ![u] = new]
  BY <1>1 DEF TInv, RequestsOK
<1>3. /\ new.at = "judge" /\ new.op = "confirm" /\ new.process = req[u].process
      /\ new.task = req[u].task
  BY <1>1, CopyTyped DEF Request
<1>4. req'[u] = new /\ \A v \in Users \ {u} : req'[v] = req[v]
  BY <1>2 DEF TInv, RequestsOK
<1> HIDE DEF new
<1>5. Walks(u)'
  BY <1>1, <1>3, <1>4 DEF Walks, LInv, ProcessRequests, TaskRequests
<1>6. req[u].op \notin Reporting
  BY <1>1 DEF Reporting
<1> QED
  BY <1>1, <1>4, <1>5, <1>6, RowsStay, Bystander

LEMMA ListAnswers ==
  ASSUME NEW u \in Users, TInv, LInv, List(u)
  PROVE  LInv'
<1> DEFINE list == OpenFor(u, req[u].process)
           new == [req[u] EXCEPT !.at = "force", !.todo = list]
<1>1. /\ req[u].op = "complete" /\ req[u].at = "begun"
      /\ req' = [req EXCEPT ![u].at = "force", ![u].todo = list]
      /\ UNCHANGED <<order, process, made, open, stale>>
  BY DEF List
<1>2. req' = [req EXCEPT ![u] = new]
  BY <1>1 DEF TInv, RequestsOK
<1>3. /\ new.at = "force" /\ new.op = "complete" /\ new.process = req[u].process
      /\ new.todo = list
  BY <1>1, CopyTyped DEF Request
<1>4. req'[u] = new /\ \A v \in Users \ {u} : req'[v] = req[v]
  BY <1>2 DEF TInv, RequestsOK
<1>5. list \subseteq TasksOf(req[u].process)
  BY DEF OpenFor
<1> HIDE DEF new, list
<1>6. PICK p \in Processes : p = req[u].process
  BY <1>1 DEF LInv, Walks, ProcessRequests
<1>7. Walks(u)'
  <2>1. TasksOf(p)' = TasksOf(p)
    BY DEF TasksOf
  <2> QED
    BY <1>3, <1>4, <1>5, <1>6, <2>1 DEF Walks, ProcessRequests, TaskRequests
<1>8. (\A q \in Processes : ~OwesProcess(u, q)) /\ ~OwesOrder(u)
  BY <1>1 DEF OwesProcess, OwesOrder
<1>9. Answers(u)
  BY <1>1, <1>8, RowsStay DEF Answers
<1> QED
  BY <1>1, <1>4, <1>7, <1>9, StepAnswers

LEMMA CompleteTaskAnswers ==
  ASSUME NEW u \in Users, TInv, LInv, NEW t \in Tasks, CompleteTask(u, t)
  PROVE  LInv'
<1> DEFINE new == [req[u] EXCEPT !.todo = @ \ {t}]
<1>1. /\ req[u].op = "complete" /\ req[u].at = "force" /\ t \in req[u].todo /\ Walks(u)
      /\ open' = [open EXCEPT ![t] = 0]
      /\ made' = [made EXCEPT ![t] = IF @ = 0 THEN 1 ELSE @]
      /\ req' = [req EXCEPT ![u].todo = @ \ {t}]
      /\ UNCHANGED <<order, process, stale>>
  BY DEF CompleteTask, LInv
<1>2. req' = [req EXCEPT ![u] = new]
  BY <1>1 DEF TInv, RequestsOK
<1>3. /\ new.at = "force" /\ new.op = "complete" /\ new.process = req[u].process
      /\ new.todo = req[u].todo \ {t}
  BY <1>1, CopyTyped DEF Request
<1>4. req'[u] = new /\ \A v \in Users \ {u} : req'[v] = req[v]
  BY <1>2 DEF TInv, RequestsOK
<1> HIDE DEF new
<1>5. Home[t] = req[u].process
  BY <1>1 DEF Walks, TasksOf
<1>6. Walks(u)'
  BY <1>1, <1>3, <1>4 DEF Walks, ProcessRequests, TaskRequests, TasksOf
<1>7. \A x \in Tasks \ {t} : made'[x] = made[x] /\ open'[x] = open[x]
  BY <1>1 DEF TInv, RowsOK
<1>8. \A p \in Processes : p # Home[t] => ProcessOpen(p)' = ProcessOpen(p)
  BY <1>1, <1>7, DoneElsewhere DEF ProcessOpen
<1>9. OwesProcess(u, Home[t])'
  BY <1>3, <1>4, <1>5 DEF OwesProcess, Reporting
<1>10. (\A p \in Processes : p # Home[t] => ~OwesProcess(u, p)) /\ ~OwesOrder(u)
  BY <1>1, <1>5 DEF OwesProcess, OwesOrder
<1>11. OrderOpen' = OrderOpen
  BY <1>1 DEF OrderOpen, Closed
<1>12. Answers(u)
  BY <1>8, <1>9, <1>10, <1>11 DEF Answers
<1> QED
  BY <1>1, <1>4, <1>6, <1>12, StepAnswers

(* A report finds its process done whenever it is, for it holds no lock.   *)
LEMMA JudgeAnswers ==
  ASSUME NEW u \in Users, TInv, LInv, Judge(u)
  PROVE  LInv'
<1>1. /\ req[u].at = "judge" /\ Walks(u) /\ req[u].op \in {"report", "confirm"}
      /\ UNCHANGED <<order, process, made, open, stale>>
  BY DEF Judge, LInv, Walks
<1>2. "close" \in Places /\ "commit" \in Places
  BY DEF Places
<1>3. CASE Goto(u, "close")
  <2>1. /\ Walks(u)' /\ \A v \in Users \ {u} : req'[v] = req[v]
        /\ req'[u].op = req[u].op /\ req'[u].process = req[u].process
        /\ req'[u].at = "close"
    BY <1>1, <1>2, <1>3, GotoWalks
  <2>2. \A p \in Processes : OwesProcess(u, p) => OwesProcess(u, p)'
    BY <2>1 DEF OwesProcess
  <2>3. ~OwesOrder(u)
    BY <1>1 DEF OwesOrder
  <2>4. Answers(u)
    BY <1>1, <2>2, <2>3, RowsStay DEF Answers
  <2> QED
    BY <1>1, <2>1, <2>4, StepAnswers
<1>4. CASE req[u].op = "confirm" /\ Goto(u, "commit")
  <2>1. Walks(u)' /\ \A v \in Users \ {u} : req'[v] = req[v]
    BY <1>1, <1>2, <1>4, GotoWalks
  <2>2. req[u].op \notin Reporting
    BY <1>4 DEF Reporting
  <2> QED
    BY <1>1, <2>1, <2>2, RowsStay, Bystander
<1>5. CASE req[u].op = "report" /\ ~AllDone(u, req[u].process) /\ Done(u)
  <2>1. \A v \in Users : req'[v] = IF v = u THEN Idle ELSE req[v]
    BY <1>5, DoneKeeps DEF TInv
  <2>2. ASSUME NEW p \in Processes, ProcessOpen(p) PROVE ~OwesProcess(u, p)
    <3>1. \A t \in TasksOf(p) : open[t] = 0 /\ ~HoldsTask(u, t)
      BY <1>5, <2>2 DEF ProcessOpen, DoneFor, HoldsTask
    <3>2. OpenFor(u, p) = {}
      BY <3>1 DEF OpenFor
    <3>3. AllDone(u, p)
      BY <2>2, <3>2 DEF AllDone, ProcessOpen, DoneFor
    <3> QED
      BY <1>5, <3>3 DEF OwesProcess
  <2>3. ~OwesOrder(u)
    BY <1>1 DEF OwesOrder
  <2>4. Answers(u)
    BY <1>1, <2>2, <2>3, RowsStay DEF Answers
  <2> QED
    BY <1>1, <2>1, <2>4, IdleWalks, StepAnswers
<1> QED
  BY <1>1, <1>3, <1>4, <1>5 DEF Judge

LEMMA CloseAnswers ==
  ASSUME NEW u \in Users, TInv, LInv, Close(u)
  PROVE  LInv'
<1> DEFINE new == [req[u] EXCEPT !.at = "count", !.closes = TRUE]
<1>1. /\ req[u].at \in {"close", "force"} /\ Walks(u)
      /\ req[u].op \in {"report", "confirm", "complete"}
      /\ req' = [req EXCEPT ![u].at = "count", ![u].closes = TRUE]
      /\ IF req[u].op = "confirm" THEN process' = process
           ELSE process' = [process EXCEPT ![req[u].process] = "completed"]
      /\ UNCHANGED <<order, made, open, stale>>
  BY DEF Close, Save, LInv, Walks
<1>2. req' = [req EXCEPT ![u] = new]
  BY <1>1 DEF TInv, RequestsOK
<1>3. /\ new.at = "count" /\ new.op = req[u].op /\ new.process = req[u].process
      /\ new.task = req[u].task
  BY CopyTyped DEF Request
<1>4. req'[u] = new /\ \A v \in Users \ {u} : req'[v] = req[v]
  BY <1>2 DEF TInv, RequestsOK
<1> HIDE DEF new
<1>5. Walks(u)'
  BY <1>1, <1>3, <1>4 DEF Walks
<1>6. CASE req[u].op = "confirm"
  <2>1. req[u].op \notin Reporting
    BY <1>6 DEF Reporting
  <2> QED
    BY <1>1, <1>4, <1>5, <1>6, <2>1, RowsStay, Bystander
<1>7. CASE req[u].op # "confirm"
  <2>1. OwesOrder(u)'
    BY <1>1, <1>3, <1>4, <1>7 DEF OwesOrder, Reporting
  <2>2. process' = [process EXCEPT ![req[u].process] = "completed"]
    BY <1>1, <1>7
  <2>3. ASSUME NEW p \in Processes, ProcessOpen(p)'
        PROVE  ProcessOpen(p) /\ ~OwesProcess(u, p)
    <3>1. process \in [Processes -> ProcessStatuses]
      BY DEF TInv, RowsOK
    <3>2. p # req[u].process /\ process'[p] = process[p]
      BY <2>2, <2>3, <3>1 DEF ProcessOpen
    <3> QED
      BY <1>1, <2>3, <3>2 DEF ProcessOpen, DoneFor, OwesProcess
  <2>4. Answers(u)
    BY <2>1, <2>3 DEF Answers
  <2> QED
    BY <1>1, <1>4, <1>5, <2>4, StepAnswers
<1> QED
  BY <1>6, <1>7

(* Whoever finds all processes closed completes the order, or has loaded   *)
(* it as completed and leaves a mark.                                      *)
LEMMA CountAnswers ==
  ASSUME NEW u \in Users, TInv, LInv, Count(u)
  PROVE  LInv'
<1>1. /\ req[u].at = "count" /\ Walks(u)
      /\ req[u].op \in {"report", "confirm", "complete"}
      /\ UNCHANGED <<order, process, made, open>> /\ stale \subseteq stale'
  BY DEF Count, LInv, Walks, Mark
<1>2. "finish" \in Places /\ "commit" \in Places
  BY DEF Places
<1>3. \A p \in Processes : ~OwesProcess(u, p)
  BY <1>1 DEF OwesProcess
<1>4. CASE Goto(u, "finish")
  <2>1. /\ Walks(u)' /\ \A v \in Users \ {u} : req'[v] = req[v]
        /\ req'[u].op = req[u].op /\ req'[u].at = "finish"
    BY <1>1, <1>2, <1>4, GotoWalks
  <2>2. OwesOrder(u) => OwesOrder(u)'
    BY <2>1 DEF OwesOrder
  <2>3. Answers(u)
    BY <1>1, <1>3, <2>2, RowsStay DEF Answers
  <2> QED
    BY <1>1, <2>1, <2>3, StepAnswers
<1>5. CASE req[u].op = "confirm" /\ Goto(u, "commit")
  <2>1. Walks(u)' /\ \A v \in Users \ {u} : req'[v] = req[v]
    BY <1>1, <1>2, <1>5, GotoWalks
  <2>2. req[u].op \notin Reporting
    BY <1>5 DEF Reporting
  <2> QED
    BY <1>1, <2>1, <2>2, RowsStay, Bystander
<1>6. CASE /\ req[u].op # "confirm" /\ ~Last(u) /\ Done(u)
           /\ Mark(IF LeftOpen(u) /\ req[u].order.status = "completed"
                     THEN {"order"} ELSE {})
  <2>1. \A v \in Users : req'[v] = IF v = u THEN Idle ELSE req[v]
    BY <1>6, DoneKeeps DEF TInv
  <2>2. ASSUME OrderOpen PROVE stale' # {}
    <3>1. req[u].process \in Processes
      BY <1>1, <1>6, WriterAssumption DEF Walks, TaskRequests, ProcessRequests
    <3>2. OthersClosed(u)
      BY <2>2, <3>1 DEF OrderOpen, Closed, OthersClosed, Existing
    <3>3. LeftOpen(u) /\ req[u].order.status = "completed"
      BY <1>6, <2>2, <3>2 DEF OrderOpen, LeftOpen, Last
    <3> QED
      BY <1>6, <3>3 DEF Mark
  <2>3. Answers(u)
    BY <1>1, <1>3, <2>2, RowsStay DEF Answers
  <2> QED
    BY <1>1, <2>1, <2>3, IdleWalks, StepAnswers
<1> QED
  BY <1>4, <1>5, <1>6 DEF Count

(* A confirmation that ends takes a row of its own process only.           *)
LEMMA OwnTask ==
  ASSUME NEW u \in Users, TInv, LInv, req[u].op = "confirm", made' = made,
         open' = [open EXCEPT ![req[u].task] = @ - 1]
  PROVE  /\ req[u].task \in Tasks /\ req[u].process = Home[req[u].task]
         /\ req[u].process \in Processes
         /\ \A p \in Processes : p # req[u].process => DoneFor(p)' = DoneFor(p)
<1>1. PICK t \in Tasks : t = req[u].task /\ req[u].process = Home[t]
  BY DEF LInv, Walks, TaskRequests
<1>2. \A x \in Tasks \ {t} : open'[x] = open[x]
  BY <1>1 DEF TInv, RowsOK
<1> QED
  BY <1>1, <1>2, DoneElsewhere, WriterAssumption

LEMMA FinishAnswers ==
  ASSUME NEW u \in Users, TInv, LInv, Finish(u)
  PROVE  LInv'
<1>1. /\ req[u].at = "finish" /\ Done(u) /\ stale \subseteq stale' /\ made' = made
      /\ order' = [req[u].order EXCEPT !.status = "completed"]
  BY DEF Finish, Mark
<1>2. \A v \in Users : req'[v] = IF v = u THEN Idle ELSE req[v]
  BY <1>1, DoneKeeps DEF TInv
<1>3. ~OrderOpen'
  <2>1. order'.status = "completed"
    BY <1>1, CopyTyped DEF OrderRow
  <2> QED
    BY <2>1 DEF OrderOpen
<1>4. \A p \in Processes : ~OwesProcess(u, p)
  BY <1>1 DEF OwesProcess
<1>5. ASSUME NEW p \in Processes, ProcessOpen(p)' PROVE ProcessOpen(p)
  <2>1. CASE req[u].op = "confirm"
    <3>1. /\ open' = [open EXCEPT ![req[u].task] = @ - 1]
          /\ process' = [process EXCEPT ![req[u].process] = "completed"]
      BY <2>1 DEF Finish
    <3>2. process \in [Processes -> ProcessStatuses]
      BY DEF TInv, RowsOK
    <3>3. p # req[u].process /\ process'[p] = process[p]
      BY <1>5, <3>1, <3>2 DEF ProcessOpen
    <3>4. DoneFor(p)' = DoneFor(p)
      BY <1>1, <2>1, <3>1, <3>3, OwnTask
    <3> QED
      BY <1>5, <3>3, <3>4 DEF ProcessOpen
  <2>2. CASE req[u].op # "confirm"
    <3>1. UNCHANGED <<open, process>>
      BY <2>2 DEF Finish
    <3> QED
      BY <1>1, <1>5, <3>1 DEF ProcessOpen, DoneFor
  <2> QED
    BY <2>1, <2>2
<1>6. Answers(u)
  BY <1>3, <1>4, <1>5 DEF Answers
<1> QED
  BY <1>1, <1>2, <1>6, IdleWalks, StepAnswers

(* A confirmation that leaves its process or the order open has judged by  *)
(* rows that were completed since, and says so.                            *)
LEMMA CommitAnswers ==
  ASSUME NEW u \in Users, TInv, LInv, Commit(u)
  PROVE  LInv'
<1>1. /\ req[u].at = "commit" /\ req[u].op = "confirm" /\ Done(u)
      /\ open' = [open EXCEPT ![req[u].task] = @ - 1]
      /\ process' = IF req[u].closes THEN [process EXCEPT ![req[u].process] = "completed"]
                    ELSE process
      /\ stale \subseteq stale' /\ Missed(u) \subseteq stale' /\ UNCHANGED <<order, made>>
  BY DEF Commit, Mark, TInv, Locks
<1>2. \A v \in Users : req'[v] = IF v = u THEN Idle ELSE req[v]
  BY <1>1, DoneKeeps DEF TInv
<1>3. req[u].op \notin Reporting
  BY <1>1 DEF Reporting
<1>4. /\ req[u].task \in Tasks /\ req[u].process = Home[req[u].task]
      /\ req[u].process \in Processes
      /\ \A p \in Processes : p # req[u].process => DoneFor(p)' = DoneFor(p)
  BY <1>1, OwnTask
<1>5. process \in [Processes -> ProcessStatuses]
  BY DEF TInv, RowsOK
<1>6. CASE req[u].closes
  <2>1. /\ \A p \in Processes \ {req[u].process} : process'[p] = process[p]
        /\ process'[req[u].process] = "completed"
    BY <1>1, <1>4, <1>5, <1>6
  <2>2. ASSUME NEW p \in Processes, ProcessOpen(p)' PROVE ProcessOpen(p)
    <3>1. p # req[u].process
      BY <2>1, <2>2 DEF ProcessOpen
    <3> QED
      BY <1>4, <2>1, <2>2, <3>1 DEF ProcessOpen
  <2>3. ASSUME OrderOpen' PROVE stale' # {}
    <3>1. LeftOpen(u)
      BY <1>1, <2>1, <2>3 DEF OrderOpen, Closed, LeftOpen, OthersClosed, Existing
    <3> QED
      BY <1>1, <1>6, <3>1 DEF Missed
  <2>4. Eases
    BY <2>2, <2>3 DEF Eases
  <2> QED
    BY <1>1, <1>2, <1>3, <2>4, IdleWalks, Bystander
<1>7. CASE ~req[u].closes
  <2>1. process' = process
    BY <1>1, <1>7
  <2>2. ASSUME NEW p \in Processes, p = req[u].process, DoneFor(p)' PROVE stale' # {}
    <3>1. ASSUME NEW t \in TasksOf(p)
          PROVE  ~(open[t] > IF HoldsTask(u, t) THEN 1 ELSE 0)
      <4>1. t \in Tasks /\ open \in [Tasks -> Nat] /\ open'[t] = 0
        BY <2>2 DEF TInv, RowsOK, TasksOf, DoneFor
      <4>2. CASE t = req[u].task
        <5>1. HoldsTask(u, t)
          BY <1>1, <4>2 DEF HoldsTask
        <5>2. open'[t] = open[t] - 1
          BY <1>1, <4>1, <4>2
        <5> QED
          BY <4>1, <5>1, <5>2
      <4>3. CASE t # req[u].task
        BY <1>1, <4>1, <4>3
      <4> QED
        BY <4>2, <4>3
    <3>2. OpenFor(u, p) = {}
      BY <3>1 DEF OpenFor
    <3>3. AllDone(u, p)
      <4>1. \E t \in TasksOf(p) : made[t] > 0
        BY <1>1, <2>2 DEF DoneFor, TasksOf
      <4> QED
        BY <3>2, <4>1 DEF AllDone
    <3> QED
      BY <1>1, <1>7, <2>2, <3>3 DEF Missed
  <2>3. Eases
    BY <1>1, <1>4, <2>1, <2>2 DEF Eases, ProcessOpen, OrderOpen, Closed
  <2> QED
    BY <1>1, <1>2, <1>3, <2>3, IdleWalks, Bystander
<1> QED
  BY <1>6, <1>7

(* Deleting a row that kept the process or the order open leaves a mark.   *)
LEMMA RowsAnswers ==
  ASSUME NEW u \in Users, TInv, LInv, Rows(u)
  PROVE  LInv'
<1>1. req[u] = Idle /\ req' = req /\ order' = order /\ stale \subseteq stale'
  BY DEF Rows, AddProcess, DeleteProcess, AddTask, DeleteTask, Direct, Mark
<1>2. ASSUME NEW p \in Processes, AddProcess(u, p) PROVE Eases
  <2>1. Replace(u, {}, {p}) /\ process[p] = "absent"
    BY <1>2 DEF AddProcess, Existing
  <2>2. \A q \in Processes : ProcessOpen(q)' => ProcessOpen(q)
    BY <2>1, {p} \in SUBSET Processes, {} \in SUBSET Processes, ReplaceEases
  <2>3. process'[p] = "pending"
    BY <2>1 DEF Replace
  <2>4. ~OrderOpen'
    BY <2>3 DEF OrderOpen, Closed
  <2> QED
    BY <2>2, <2>4 DEF Eases
<1>3. ASSUME NEW p \in Processes, DeleteProcess(u, p) PROVE Eases
  <2>1. Replace(u, {p}, {}) /\ Struck(process', order) \subseteq stale'
    BY <1>3 DEF DeleteProcess, Mark
  <2>2. \A q \in Processes : ProcessOpen(q)' => ProcessOpen(q)
    BY <2>1, {p} \in SUBSET Processes, {} \in SUBSET Processes, ReplaceEases
  <2>3. stale' = {} => ~OrderOpen'
    BY <1>1, <2>1 DEF Struck, OrderOpen, Closed
  <2> QED
    BY <2>2, <2>3 DEF Eases
<1>4. ASSUME NEW t \in Tasks, AddTask(u, t) PROVE Eases
  <2>1. /\ made' = Generated(made, {t}) /\ open' = Generated(open, {t})
        /\ process' = process
    BY <1>4 DEF AddTask
  <2>2. \A p \in Processes : DoneFor(p)' => DoneFor(p)
    BY <2>1, {t} \in SUBSET Tasks, GenerationEases
  <2> QED
    BY <1>1, <2>1, <2>2 DEF Eases, ProcessOpen, OrderOpen, Closed
<1>5. ASSUME NEW t \in Tasks, DeleteTask(u, t) PROVE Eases
  <2>1. /\ made' = [made EXCEPT ![t] = @ - 1] /\ process' = process
        /\ \/ UNCHANGED open
           \/ open' = [open EXCEPT ![t] = @ - 1] /\ StruckOpen(t) \subseteq stale'
    BY <1>5 DEF DeleteTask, Mark
  <2>2. /\ \A x \in Tasks \ {t} : made'[x] = made[x] /\ open'[x] = open[x]
        /\ \A x \in Tasks : made[x] \in Nat /\ made'[x] \in Int /\ made'[x] <= made[x]
    BY <2>1 DEF TInv, RowsOK
  <2>3. \A p \in Processes : p # Home[t] => ProcessOpen(p)' = ProcessOpen(p)
    BY <2>1, <2>2, DoneElsewhere DEF ProcessOpen
  <2>4. ASSUME stale' = {}, ProcessOpen(Home[t])' PROVE ProcessOpen(Home[t])
    <3>1. CASE UNCHANGED open
      <4>1. \E x \in TasksOf(Home[t]) : made[x] > 0
        <5>1. PICK x \in TasksOf(Home[t]) : x \in Tasks /\ made'[x] > 0
          BY <2>4 DEF ProcessOpen, DoneFor, TasksOf
        <5>2. made'[x] \in Int /\ made[x] > 0
          BY <2>2, <5>1
        <5> QED
          BY <5>1, <5>2
      <4> QED
        BY <2>1, <2>4, <3>1, <4>1 DEF ProcessOpen, DoneFor, TasksOf
    <3>2. CASE StruckOpen(t) \subseteq stale'
      BY <2>1, <2>4, <3>2 DEF StruckOpen, ProcessOpen, DoneFor, TasksOf
    <3> QED
      BY <2>1, <3>1, <3>2
  <2> QED
    BY <1>1, <2>1, <2>3, <2>4 DEF Eases, OrderOpen, Closed
<1>6. Eases
  BY <1>2, <1>3, <1>4, <1>5 DEF Rows
<1>7. req[u].op \notin Reporting
  BY <1>1 DEF Reporting, Idle
<1>8. Walks(u)'
  BY <1>1 DEF LInv, Walks, TasksOf
<1> QED
  BY <1>1, <1>6, <1>7, <1>8, Bystander

(* A death half way leaves a mark, any other request that fails has not    *)
(* begun to owe anything.                                                  *)
LEMMA FailAnswers ==
  ASSUME NEW u \in Users, TInv, LInv, Fail(u)
  PROVE  LInv'
<1>1. /\ Done(u) /\ UNCHANGED <<order, process, made, open>>
      /\ stale' = stale \cup (IF req[u].op \in {"report", "complete"} /\ req[u].at # "begun"
                                THEN {"death"} ELSE {})
  BY DEF Fail, Mark
<1>2. \A v \in Users : req'[v] = IF v = u THEN Idle ELSE req[v]
  BY <1>1, DoneKeeps DEF TInv
<1>3. ASSUME stale' = {}
      PROVE  (\A p \in Processes : ~OwesProcess(u, p)) /\ ~OwesOrder(u)
  <2>1. req[u].op \notin Reporting \/ req[u].at = "begun"
    BY <1>1, <1>3 DEF Reporting
  <2> QED
    BY <2>1 DEF OwesProcess, OwesOrder
<1>4. Answers(u)
  BY <1>1, <1>3, RowsStay DEF Answers
<1> QED
  BY <1>1, <1>2, <1>4, IdleWalks, StepAnswers

LEMMA WorkAnswers ==
  ASSUME NEW u \in Users, TInv, LInv, Work(u)
  PROVE  LInv'
  BY GenerateAnswers, StartAnswers, ReportAnswers, CorrectAnswers, ConfirmAnswers,
     ListAnswers, CompleteTaskAnswers, JudgeAnswers, CloseAnswers, CountAnswers,
     FinishAnswers, CommitAnswers DEF Work

LEMMA LNext == TInv /\ LInv /\ [Next]_vars => LInv'
<1> SUFFICES ASSUME TInv, LInv, [Next]_vars PROVE LInv'
  OBVIOUS
<1>1. CASE UNCHANGED vars
  <2>1. UNCHANGED <<order, process, made, open, req, stale>>
    BY <1>1 DEF vars
  <2>2. \A u \in Users : Walks(u)' = Walks(u)
    BY <2>1 DEF Walks, TasksOf
  <2>3. \A u \in Users : /\ \A p \in Processes : OwesProcess(u, p)' = OwesProcess(u, p)
                         /\ OwesOrder(u)' = OwesOrder(u)
    BY <2>1 DEF OwesProcess, OwesOrder
  <2> QED
    BY <2>1, <2>2, <2>3, RowsStay DEF LInv, Owing
<1>2. CASE Next
  BY <1>2, BeginAnswers, ReviewAnswers, WorkAnswers, RowsAnswers, FailAnswers DEF Next
<1> QED
  BY <1>1, <1>2

LEMMA LInit == Init => LInv
<1> SUFFICES ASSUME Init PROVE LInv
  OBVIOUS
<1>1. ASSUME NEW u \in Users PROVE Walks(u)
  <2>1. req[u] = Idle
    BY DEF Init
  <2> QED
    BY <2>1 DEF Walks, Idle, TaskRequests, ProcessRequests
<1>2. \A p \in Processes : ~ProcessOpen(p)
  BY DEF Init, ProcessOpen, DoneFor, TasksOf
<1>3. ~OrderOpen
  BY DEF Init, OrderOpen, Closed
<1> QED
  BY <1>1, <1>2, <1>3 DEF LInv, Owing

(* Whoever completes the last task closes the process, whoever closes the  *)
(* last process completes the order: when all requests have been answered, *)
(* nothing that is done stands open, unless a copy was out of date, a      *)
(* worker died half way, a finished order was reviewed again or the rows   *)
(* that kept it open were taken out.  Only the last of its processes       *)
(* completes an order: one without any stays as it is.                     *)
THEOREM NothingDoneStandsOpen == Spec => []LastOneCloses
<1>1. Init => LInv
  BY LInit
<1>2. LInv => LastOneCloses
  <2> SUFFICES ASSUME LInv, Quiet, stale = {}
               PROVE  /\ \A p \in Processes : DoneFor(p) => process[p] = "completed"
                      /\ Closed(process) => order.status = "completed"
    BY DEF LastOneCloses, DoneFor
  <2>1. \A u \in Users : (\A p \in Processes : ~OwesProcess(u, p)) /\ ~OwesOrder(u)
    BY DEF Quiet, Idle, OwesProcess, OwesOrder, Reporting
  <2> QED
    BY <2>1 DEF LInv, Owing, ProcessOpen, OrderOpen
<1> QED
  BY <1>1, <1>2, AlwaysTyped, LNext, PTL DEF Spec

-----------------------------------------------------------------------------
(* One request at a time                                                   *)
(*                                                                         *)
(* What the history stale excuses is owed to overlapping requests only: a  *)
(* request that runs alone knows the rows it judges by.                    *)
Overtaken == {"order", "process", "tasks"}

Alone(u) == \A v \in Users \ {u} : req[v] = Idle
SerialNext ==
    \E u \in Users :
        Alone(u) /\ (Begin(u) \/ Review(u) \/ Work(u) \/ Rows(u) \/ Fail(u))
SerialSpec == Init /\ [][SerialNext]_vars

(* A submission that goes on holds the order as it is going to be, any     *)
(* other request the order as it is; the tasks listed as missing are, the  *)
(* process to be started is pending, and a confirmation that is about to   *)
(* commit leaves nothing to be closed.                                     *)
Knows(u) ==
    /\ req[u].op \notin {"idle", "submit"} => req[u].order = order
    /\ req[u].at \in {"generate", "held"} => \A t \in req[u].todo : made[t] = 0
    /\ req[u].op \in {"start", "batch"} => process[req[u].process] = "pending"
    /\ req[u].at \in {"judge", "close", "force", "count", "finish", "commit"} =>
           req[u].op \notin {"idle", "submit", "start", "batch"}
    /\ req[u].at \in {"begun", "judge", "close"} => ~req[u].closes
    /\ req[u].at = "count" => req[u].closes
    /\ req[u].at = "commit" =>
           IF req[u].closes THEN ~LeftOpen(u) ELSE ~AllDone(u, req[u].process)

SInv == (\A u \in Users : Knows(u)) /\ stale \cap Overtaken = {}

LEMMA IdleKnows ==
  ASSUME NEW u \in Users
  PROVE  /\ req[u] = Idle => Knows(u)
         /\ req'[u] = Idle => Knows(u)'
<1>1. Idle.op = "idle" /\ Idle.at = "idle" /\ Idle.closes = FALSE
  BY DEF Idle
<1>2. req[u] = Idle => Knows(u)
  BY <1>1 DEF Knows
<1>3. req'[u] = Idle => Knows(u)'
  BY <1>1 DEF Knows
<1> QED
  BY <1>2, <1>3

LEMMA SerialStep ==
  ASSUME NEW u \in Users, Alone(u), \A v \in Users \ {u} : req'[v] = req[v],
         Knows(u)', stale \cap Overtaken = {}, NEW marks, Mark(marks),
         marks \cap Overtaken = {}
  PROVE  SInv'
<1>1. \A v \in Users \ {u} : Knows(v)'
  BY IdleKnows DEF Alone
<1>2. stale' \cap Overtaken = {}
  BY DEF Mark
<1> QED
  BY <1>1, <1>2 DEF SInv, Overtaken

(* A request that ends without having been overtaken.                      *)
LEMMA SerialEnd ==
  ASSUME NEW u \in Users, Alone(u), TInv, SInv, Done(u),
         NEW marks, Mark(marks), marks \cap Overtaken = {}
  PROVE  SInv'
<1>1. \A v \in Users : req'[v] = IF v = u THEN Idle ELSE req[v]
  BY DoneKeeps DEF TInv
<1>2. Knows(u)'
  BY <1>1, IdleKnows
<1> QED
  BY <1>1, <1>2, SerialStep DEF SInv

(* A request that goes on to another place.                                *)
LEMMA GotoFields ==
  ASSUME NEW u \in Users, NEW place \in Places, TInv, Goto(u, place)
  PROVE  /\ \A v \in Users \ {u} : req'[v] = req[v]
         /\ req'[u].at = place /\ req'[u].op = req[u].op
         /\ req'[u].process = req[u].process /\ req'[u].task = req[u].task
         /\ req'[u].order = req[u].order /\ req'[u].todo = req[u].todo
         /\ req'[u].closes = req[u].closes
<1>1. /\ \A v \in Users \ {u} : req'[v] = req[v]
      /\ req'[u] = [req[u] EXCEPT !.at = place]
  BY GotoKeeps DEF TInv
<1> QED
  BY <1>1, CopyTyped DEF Request

LEMMA SerialGoto ==
  ASSUME NEW u \in Users, NEW place \in Places, Alone(u), TInv, SInv, Goto(u, place),
         order' = order, process' = process,
         place \notin {"generate", "held", "begun", "count"}, req[u].op # "submit",
         place # "save" => req[u].op \notin {"idle", "start", "batch"},
         place \in {"judge", "close"} => ~req[u].closes,
         place = "commit" => (IF req[u].closes THEN ~LeftOpen(u)
                                               ELSE ~AllDone(u, req[u].process))',
         NEW marks, Mark(marks), marks \cap Overtaken = {}
  PROVE  SInv'
<1>1. /\ \A v \in Users \ {u} : req'[v] = req[v]
      /\ req'[u].at = place /\ req'[u].op = req[u].op
      /\ req'[u].process = req[u].process /\ req'[u].order = req[u].order
      /\ req'[u].closes = req[u].closes
  BY GotoFields
<1>2. /\ req[u].op \notin {"idle", "submit"} => req[u].order = order
      /\ req[u].op \in {"start", "batch"} => process[req[u].process] = "pending"
  BY DEF SInv, Knows
<1>3. Knows(u)'
  BY <1>1, <1>2 DEF Knows
<1> QED
  BY <1>1, <1>3, SerialStep DEF SInv

LEMMA SerialLoad ==
  ASSUME NEW u \in Users, Alone(u), TInv, SInv, NEW op, NEW p, NEW t, Load(u, op, p, t),
         op \in {"start", "batch"} => process[p] = "pending"
  PROVE  SInv'
<1> DEFINE new == [op |-> op, at |-> "begun", task |-> t, process |-> p, order |-> order,
                   edition |-> edition, todo |-> {}, closes |-> FALSE]
<1>1. /\ req' = [req EXCEPT ![u] = new]
      /\ UNCHANGED <<order, process, made, stale>>
  BY DEF Load
<1>2. req'[u] = new /\ \A v \in Users \ {u} : req'[v] = req[v]
  BY <1>1 DEF TInv, RequestsOK
<1>3. Knows(u)'
  BY <1>1, <1>2 DEF Knows
<1>4. Mark({})
  BY <1>1 DEF Mark
<1> QED
  BY <1>2, <1>3, <1>4, SerialStep DEF SInv

LEMMA SerialBegin ==
  ASSUME NEW u \in Users, Alone(u), TInv, SInv, Begin(u)
  PROVE  SInv'
<1>1. ASSUME NEW op \in OrderRequests, BeginOrder(u, op) PROVE SInv'
  <2>1. op \notin {"start", "batch"}
    BY DEF OrderRequests
  <2> QED
    BY <1>1, <2>1, SerialLoad DEF BeginOrder
<1>2. ASSUME NEW op \in ProcessRequests, NEW p \in Processes, BeginProcess(u, op, p)
      PROVE  SInv'
  <2>1. op \in {"start", "batch"} => process[p] = "pending"
    BY <1>2 DEF BeginProcess, CanStart
  <2> QED
    BY <1>2, <2>1, SerialLoad DEF BeginProcess
<1>3. ASSUME NEW op \in TaskRequests, NEW t \in Tasks, BeginTask(u, op, t) PROVE SInv'
  <2>1. op \notin {"start", "batch"}
    BY DEF TaskRequests
  <2> QED
    BY <1>3, <2>1, SerialLoad DEF BeginTask
<1> QED
  BY <1>1, <1>2, <1>3 DEF Begin

LEMMA CurrentCopy ==
  ASSUME NEW u \in Users, SInv, req[u].op \notin {"idle", "submit"}
  PROVE  Outdated(u) = {}
  BY DEF SInv, Knows, Outdated

LEMMA SerialSubmit ==
  ASSUME NEW u \in Users, Alone(u), TInv, SInv, Submit(u)
  PROVE  SInv'
<1>1. /\ req[u].op = "submit" /\ UNCHANGED <<made, process, stale>>
  BY DEF Submit
<1>2. Mark({})
  BY <1>1 DEF Mark
<1>3. CASE Done(u)
  BY <1>2, <1>3, SerialEnd
<1>4. CASE req' = [req EXCEPT ![u].at = "held", ![u].edition = edition,
                              ![u].todo = {t \in Tasks : made[t] = 0 /\ Home[t] \in Existing},
                              ![u].order = [order EXCEPT !.approval = "submitted"]]
  <2> DEFINE new == [req[u] EXCEPT !.at = "held", !.edition = edition,
                                   !.todo = {t \in Tasks : made[t] = 0 /\ Home[t] \in Existing},
                                   !.order = [order EXCEPT !.approval = "submitted"]]
  <2>1. req' = [req EXCEPT ![u] = new]
    BY <1>4 DEF TInv, RequestsOK
  <2>2. /\ new.at = "held" /\ new.op = "submit"
        /\ new.todo = {t \in Tasks : made[t] = 0 /\ Home[t] \in Existing}
    BY <1>1, CopyTyped DEF Request
  <2>3. req'[u] = new /\ \A v \in Users \ {u} : req'[v] = req[v]
    BY <2>1 DEF TInv, RequestsOK
  <2> HIDE DEF new
  <2>4. Knows(u)'
    BY <1>1, <2>2, <2>3 DEF Knows
  <2> QED
    BY <1>2, <2>3, <2>4, SerialStep DEF SInv
<1> QED
  BY <1>3, <1>4 DEF Submit

LEMMA SerialMissing ==
  ASSUME NEW u \in Users, Alone(u), TInv, SInv, Missing(u)
  PROVE  SInv'
<1> DEFINE list == {t \in Tasks : /\ made[t] = 0 /\ Home[t] \in Existing
                                 /\ req[u].process \in {None, Home[t]}}
           new == [req[u] EXCEPT !.at = "generate", !.edition = edition, !.todo = list]
<1>1. /\ req[u].op \in {"approve", "batch"} /\ Knows(u)
      /\ req' = [req EXCEPT ![u].at = "generate", ![u].edition = edition, ![u].todo = list]
      /\ UNCHANGED <<order, process, made, open, stale>>
  BY DEF Missing, SInv
<1>2. req' = [req EXCEPT ![u] = new]
  BY <1>1 DEF TInv, RequestsOK
<1>3. /\ new.at = "generate" /\ new.op = req[u].op /\ new.process = req[u].process
      /\ new.todo = list /\ new.order = req[u].order
  BY CopyTyped DEF Request
<1>4. req'[u] = new /\ \A v \in Users \ {u} : req'[v] = req[v]
  BY <1>2 DEF TInv, RequestsOK
<1>5. \A t \in list : made[t] = 0
  OBVIOUS
<1> HIDE DEF new, list
<1>6. Knows(u)'
  BY <1>1, <1>3, <1>4, <1>5 DEF Knows
<1>7. Mark({})
  BY <1>1 DEF Mark
<1> QED
  BY <1>4, <1>6, <1>7, SerialStep DEF SInv

LEMMA SerialReview ==
  ASSUME NEW u \in Users, Alone(u), TInv, SInv, Review(u)
  PROVE  SInv'
<1>1. TakenBack \cap Overtaken = {}
  BY DEF TakenBack, Overtaken
<1>2. CASE Approve(u)
  <2>1. Done(u)
    BY <1>2 DEF Approve
  <2>2. Listed(u) = {}
    BY <1>2 DEF Approve, SInv, Knows, Listed
  <2>3. CASE req[u].op = "approve" /\ Mark(Outdated(u) \cup TakenBack \cup Listed(u))
    <3>1. (Outdated(u) \cup TakenBack \cup Listed(u)) \cap Overtaken = {}
      BY <1>1, <2>2, <2>3, CurrentCopy
    <3> QED
      BY <2>1, <2>3, <3>1, SerialEnd
  <2>4. CASE Mark(TakenBack \cup Listed(u))
    <3>1. (TakenBack \cup Listed(u)) \cap Overtaken = {}
      BY <1>1, <2>2
    <3> QED
      BY <2>1, <2>4, <3>1, SerialEnd
  <2> QED
    BY <1>2, <2>3, <2>4 DEF Approve
<1>3. CASE Reject(u)
  <2>1. Done(u) /\ Mark(Outdated(u) \cup TakenBack) /\ req[u].op = "reject"
    BY <1>3 DEF Reject
  <2>2. (Outdated(u) \cup TakenBack) \cap Overtaken = {}
    BY <1>1, <2>1, CurrentCopy
  <2> QED
    BY <2>1, <2>2, SerialEnd
<1>4. ASSUME NEW privileged \in BOOLEAN, Edit(u, privileged) PROVE SInv'
  <2>1. Done(u) /\ req[u].op = "edit"
    BY <1>4 DEF Edit
  <2>2. Outdated(u) = {}
    BY <2>1, CurrentCopy
  <2>3. PICK marks : Mark(marks) /\ marks \subseteq {"struck"}
    BY <1>4, <2>2 DEF Edit, EditFields, EditLists, Struck
  <2>4. marks \cap Overtaken = {}
    BY <2>3 DEF Overtaken
  <2> QED
    BY <2>1, <2>3, <2>4, SerialEnd
<1>5. CASE Check(u)
  <2>1. /\ Goto(u, "finish") /\ req[u].op = "check" /\ order' = order /\ process' = process
        /\ stale' = stale
    BY <1>5 DEF Check
  <2>2. Mark({}) /\ "finish" \in Places
    BY <2>1 DEF Mark, Places
  <2> QED
    BY <2>1, <2>2, SerialGoto
<1>6. ASSUME NEW kept \in SUBSET Processes, Synchronise(u, kept) PROVE SInv'
  <2>1. Done(u) /\ Mark(Outdated(u)) /\ req[u].op = "sync"
    BY <1>6 DEF Synchronise
  <2>2. Outdated(u) \cap Overtaken = {}
    BY <2>1, CurrentCopy
  <2> QED
    BY <2>1, <2>2, SerialEnd
<1> QED
  BY <1>2, <1>3, <1>4, <1>5, <1>6, SerialSubmit, SerialMissing DEF Review

LEMMA SerialGenerate ==
  ASSUME NEW u \in Users, Alone(u), TInv, SInv, Generate(u)
  PROVE  SInv'
<1>1. /\ req[u].op = "batch" /\ req[u].at = "generate" /\ Goto(u, "save")
      /\ Mark(Listed(u)) /\ order' = order /\ process' = process
  BY DEF Generate
<1>2. Listed(u) = {}
  BY <1>1 DEF SInv, Knows, Listed
<1>3. Listed(u) \cap Overtaken = {} /\ "save" \in Places
  BY <1>2 DEF Places
<1> QED
  BY <1>1, <1>3, SerialGoto

LEMMA SerialStart ==
  ASSUME NEW u \in Users, Alone(u), TInv, SInv, Start(u)
  PROVE  SInv'
<1>1. /\ req[u].op \in {"start", "batch"} /\ Done(u)
      /\ Mark(IF process[req[u].process] # "pending" THEN {"process"} ELSE {})
  BY DEF Start
<1>2. process[req[u].process] = "pending"
  BY <1>1 DEF SInv, Knows
<1>3. Mark({})
  BY <1>1, <1>2
<1> QED
  BY <1>1, <1>3, SerialEnd

LEMMA SerialConfirm ==
  ASSUME NEW u \in Users, Alone(u), TInv, SInv, Confirm(u)
  PROVE  SInv'
<1> DEFINE new == [req[u] EXCEPT !.at = "judge", !.order = order]
<1>1. /\ req[u].op = "confirm" /\ req[u].at = "begun" /\ ~req[u].closes
      /\ req' = [req EXCEPT ![u].at = "judge", ![u].order = order]
      /\ UNCHANGED <<order, process, made, open, stale>>
  BY DEF Confirm, SInv, Knows
<1>2. req' = [req EXCEPT ![u] = new]
  BY <1>1 DEF TInv, RequestsOK
<1>3. /\ new.at = "judge" /\ new.op = "confirm" /\ new.order = order /\ ~new.closes
  BY <1>1, CopyTyped DEF Request
<1>4. req'[u] = new /\ \A v \in Users \ {u} : req'[v] = req[v]
  BY <1>2 DEF TInv, RequestsOK
<1> HIDE DEF new
<1>5. Knows(u)'
  BY <1>1, <1>3, <1>4 DEF Knows
<1>6. Mark({})
  BY <1>1 DEF Mark
<1> QED
  BY <1>4, <1>5, <1>6, SerialStep DEF SInv

(* A forced completion that has listed the tasks, or completed one of them.*)
LEMMA SerialForce ==
  ASSUME NEW u \in Users, Alone(u), TInv, SInv, NEW todo,
         req[u].op = "complete", order' = order, stale' = stale,
         req' = [req EXCEPT ![u] = [req[u] EXCEPT !.at = "force", !.todo = todo]]
  PROVE  SInv'
<1> DEFINE new == [req[u] EXCEPT !.at = "force", !.todo = todo]
<1>1. new.at = "force" /\ new.op = "complete" /\ new.order = req[u].order
  BY CopyTyped DEF Request
<1>2. req'[u] = new /\ \A v \in Users \ {u} : req'[v] = req[v]
  BY DEF TInv, RequestsOK
<1> HIDE DEF new
<1>3. req[u].order = order
  BY DEF SInv, Knows
<1>4. Knows(u)'
  BY <1>1, <1>2, <1>3 DEF Knows
<1>5. Mark({})
  BY DEF Mark
<1> QED
  BY <1>2, <1>4, <1>5, SerialStep DEF SInv

(* What a request sees of a process does not depend on where it stands.    *)
LEMMA SameView ==
  ASSUME NEW u \in Users, NEW p, UNCHANGED <<made, open>>,
         req'[u].op = req[u].op, req'[u].task = req[u].task,
         req[u].at # "begun", req'[u].at # "begun"
  PROVE  AllDone(u, p)' = AllDone(u, p)
<1>1. \A t : HoldsTask(u, t)' = HoldsTask(u, t)
  BY DEF HoldsTask
<1> QED
  BY <1>1 DEF AllDone, OpenFor, TasksOf

LEMMA SerialJudge ==
  ASSUME NEW u \in Users, Alone(u), TInv, SInv, Judge(u)
  PROVE  SInv'
<1>1. /\ req[u].at = "judge" /\ req[u].op \notin {"idle", "submit", "start", "batch"}
      /\ ~req[u].closes
      /\ UNCHANGED <<order, process, made, open, stale>>
  BY DEF Judge, SInv, Knows
<1>2. Mark({}) /\ "close" \in Places /\ "commit" \in Places
  BY <1>1 DEF Mark, Places
<1>3. CASE Goto(u, "close")
  BY <1>1, <1>2, <1>3, SerialGoto
<1>4. CASE ~AllDone(u, req[u].process) /\ Goto(u, "commit")
  <2>1. /\ req'[u].at = "commit" /\ req'[u].op = req[u].op
        /\ req'[u].process = req[u].process /\ req'[u].task = req[u].task
        /\ req'[u].closes = req[u].closes
    BY <1>2, <1>4, GotoFields
  <2>2. PICK p : p = req[u].process
    OBVIOUS
  <2>3. AllDone(u, p)' = AllDone(u, p)
    BY <1>1, <2>1, SameView
  <2>4. ~AllDone(u, req[u].process)'
    BY <1>4, <2>1, <2>2, <2>3 DEF AllDone, OpenFor, TasksOf
  <2>5. ~req'[u].closes
    BY <1>1, <2>1
  <2> QED
    BY <1>1, <1>2, <1>4, <2>4, <2>5, SerialGoto
<1>5. CASE Done(u)
  BY <1>2, <1>5, SerialEnd
<1> QED
  BY <1>3, <1>4, <1>5 DEF Judge

LEMMA SerialClose ==
  ASSUME NEW u \in Users, Alone(u), TInv, SInv, Close(u)
  PROVE  SInv'
<1> DEFINE new == [req[u] EXCEPT !.at = "count", !.closes = TRUE]
<1>1. /\ req[u].op \notin {"idle", "submit", "start", "batch"}
      /\ req[u].at \in {"close", "force"} /\ Knows(u)
      /\ req' = [req EXCEPT ![u].at = "count", ![u].closes = TRUE]
      /\ UNCHANGED <<order, made, open, stale>>
  BY DEF Close, SInv, Knows
<1>2. req' = [req EXCEPT ![u] = new]
  BY <1>1 DEF TInv, RequestsOK
<1>3. /\ new.at = "count" /\ new.op = req[u].op /\ new.order = req[u].order
      /\ new.closes
  BY CopyTyped DEF Request
<1>4. req'[u] = new /\ \A v \in Users \ {u} : req'[v] = req[v]
  BY <1>2 DEF TInv, RequestsOK
<1> HIDE DEF new
<1>5. Knows(u)'
  BY <1>1, <1>3, <1>4 DEF Knows
<1>6. Mark({})
  BY <1>1 DEF Mark
<1> QED
  BY <1>4, <1>5, <1>6, SerialStep DEF SInv

LEMMA SerialCount ==
  ASSUME NEW u \in Users, Alone(u), TInv, SInv, Count(u)
  PROVE  SInv'
<1>1. /\ req[u].at = "count" /\ req[u].op \notin {"idle", "submit", "start", "batch"}
      /\ req[u].closes /\ req[u].order = order
      /\ UNCHANGED <<order, process, made, open>>
  BY DEF Count, SInv, Knows
<1>2. "finish" \in Places /\ "commit" \in Places
  BY DEF Places
<1>3. CASE Goto(u, "finish") /\ stale' = stale
  <2>1. Mark({})
    BY <1>3 DEF Mark
  <2> QED
    BY <1>1, <1>2, <1>3, <2>1, SerialGoto
<1>4. CASE /\ ~Last(u)
           /\ IF req[u].op = "confirm" THEN Goto(u, "commit") ELSE Done(u)
           /\ Mark(IF LeftOpen(u) /\ req[u].order.status = "completed" THEN {"order"} ELSE {})
  <2>1. ~LeftOpen(u)
    BY <1>1, <1>4 DEF Last, LeftOpen
  <2>2. Mark({})
    BY <1>4, <2>1
  <2>3. CASE Goto(u, "commit")
    <3>1. /\ req'[u].op = req[u].op /\ req'[u].process = req[u].process
          /\ req'[u].closes = req[u].closes
      BY <1>2, <2>3, GotoFields
    <3>2. ~LeftOpen(u)'
      BY <1>1, <2>1, <3>1 DEF LeftOpen, OthersClosed, Existing
    <3> QED
      BY <1>1, <1>2, <2>2, <2>3, <3>1, <3>2, SerialGoto
  <2>4. CASE Done(u)
    BY <2>2, <2>4, SerialEnd
  <2> QED
    BY <1>4, <2>3, <2>4
<1> QED
  BY <1>3, <1>4 DEF Count

LEMMA SerialWork ==
  ASSUME NEW u \in Users, Alone(u), TInv, SInv, Work(u)
  PROVE  SInv'
<1>1. CASE Report(u)
  <2>1. /\ req[u].op = "report" /\ req[u].at = "begun" /\ Goto(u, "judge")
        /\ order' = order /\ process' = process /\ stale' = stale
    BY <1>1 DEF Report
  <2>2. ~req[u].closes
    BY <2>1 DEF SInv, Knows
  <2>3. Mark({}) /\ "judge" \in Places
    BY <2>1 DEF Mark, Places
  <2> QED
    BY <2>1, <2>2, <2>3, SerialGoto
<1>2. CASE Correct(u)
  <2>1. Done(u) /\ Mark({})
    BY <1>2 DEF Correct, Reopened, Mark
  <2> QED
    BY <2>1, SerialEnd
<1>3. CASE List(u)
  <2>1. /\ req[u].op = "complete" /\ order' = order /\ stale' = stale
        /\ req' = [req EXCEPT ![u] = [req[u] EXCEPT !.at = "force",
                                        !.todo = OpenFor(u, req[u].process)]]
    BY <1>3 DEF List, TInv, RequestsOK
  <2> QED
    BY <2>1, SerialForce
<1>4. ASSUME NEW t \in Tasks, CompleteTask(u, t) PROVE SInv'
  <2>1. /\ req[u].op = "complete" /\ req[u].at = "force" /\ order' = order /\ stale' = stale
        /\ req' = [req EXCEPT ![u] = [req[u] EXCEPT !.todo = @ \ {t}]]
    BY <1>4 DEF CompleteTask, TInv, RequestsOK
  <2>2. [req[u] EXCEPT !.todo = @ \ {t}] =
           [req[u] EXCEPT !.at = "force", !.todo = req[u].todo \ {t}]
    BY <2>1, CopyTyped DEF Request
  <2> QED
    BY <2>1, <2>2, SerialForce
<1>5. CASE Finish(u)
  <2>1. Done(u) /\ Mark(Outdated(u)) /\ req[u].at = "finish"
    BY <1>5 DEF Finish
  <2>2. Outdated(u) \cap Overtaken = {}
    BY <2>1, CurrentCopy DEF SInv, Knows
  <2> QED
    BY <2>1, <2>2, SerialEnd
<1>6. CASE Commit(u)
  <2>1. Done(u) /\ Mark(Missed(u)) /\ req[u].at = "commit"
    BY <1>6 DEF Commit
  <2>2. Missed(u) \cap Overtaken = {}
    BY <2>1 DEF SInv, Knows, Missed
  <2> QED
    BY <2>1, <2>2, SerialEnd
<1> QED
  BY <1>1, <1>2, <1>3, <1>4, <1>5, <1>6, SerialGenerate, SerialStart, SerialConfirm,
     SerialJudge, SerialClose, SerialCount DEF Work

(* The endpoints of the rows find nobody at work.                          *)
LEMMA SerialRows ==
  ASSUME NEW u \in Users, Alone(u), SInv, Rows(u)
  PROVE  SInv'
<1>1. req' = req /\ req[u] = Idle
  BY DEF Rows, AddProcess, DeleteProcess, AddTask, DeleteTask, Direct
<1>2. \A v \in Users : req'[v] = Idle
  BY <1>1 DEF Alone
<1>3. \A v \in Users : Knows(v)'
  BY <1>2, IdleKnows
<1>4. stale' \subseteq stale \cup {"struck"}
  BY DEF Rows, AddProcess, DeleteProcess, AddTask, DeleteTask, Mark, Struck, StruckOpen
<1> QED
  BY <1>3, <1>4 DEF SInv, Overtaken

LEMMA SerialFail ==
  ASSUME NEW u \in Users, Alone(u), TInv, SInv, Fail(u)
  PROVE  SInv'
<1> DEFINE marks == IF req[u].op \in {"report", "complete"} /\ req[u].at # "begun"
                      THEN {"death"} ELSE {}
<1>1. Done(u) /\ Mark(marks) /\ marks \cap Overtaken = {}
  BY DEF Fail, Overtaken
<1> QED
  BY <1>1, SerialEnd

LEMMA SerialNextKept == TInv /\ SInv /\ [SerialNext]_vars => SInv'
<1> SUFFICES ASSUME TInv, SInv, [SerialNext]_vars PROVE SInv'
  OBVIOUS
<1>1. CASE UNCHANGED vars
  <2>1. \A u \in Users : Knows(u)' = Knows(u)
    BY <1>1 DEF vars, Knows, LeftOpen, OthersClosed, Existing, AllDone, OpenFor,
       HoldsTask, TasksOf
  <2> QED
    BY <1>1, <2>1 DEF vars, SInv
<1>2. CASE SerialNext
  BY <1>2, SerialBegin, SerialReview, SerialWork, SerialRows, SerialFail DEF SerialNext
<1> QED
  BY <1>1, <1>2

LEMMA SerialIsSpec == SerialSpec => Spec
<1>1. [SerialNext]_vars => [Next]_vars
  BY DEF SerialNext, Next
<1> QED
  BY <1>1, PTL DEF SerialSpec, Spec

LEMMA SerialInit == Init => SInv
<1> SUFFICES ASSUME Init PROVE SInv
  OBVIOUS
<1>1. \A u \in Users : Knows(u)
  BY IdleKnows DEF Init
<1> QED
  BY <1>1 DEF Init, SInv

(* As long as one request is answered before the next begins, no request   *)
(* ever writes or decides by rows that were changed since it read them,    *)
(* whatever is submitted, reviewed, edited, synchronised, generated,       *)
(* reported, confirmed, completed, added or deleted in whatever order:     *)
(* what the other theorems about this module excuse by "order", "process"  *)
(* and "tasks" needs two requests at once.                                 *)
NothingOvertaken == stale \subseteq {"death", "review", "struck"}

THEOREM AloneNothingIsOvertaken == SerialSpec => []NothingOvertaken
<1>1. TInv /\ SInv => NothingOvertaken
  BY DEF TInv, RowsOK, SInv, Marks, Overtaken, NothingOvertaken
<1> QED
  BY <1>1, SerialInit, SerialNextKept, SerialIsSpec, AlwaysTyped, PTL DEF SerialSpec

(* One request at a time, the approval moves along its table and nowhere   *)
(* else, without exception.                                                *)
THEOREM AloneApprovalFollowsRules ==
  SerialSpec => [][order'.approval # order.approval
                      => <<order.approval, order'.approval>> \in Follows]_vars
<1>1. SInv' => "order" \notin stale'
  BY DEF SInv, Overtaken
<1>2. /\ SInv'
      /\ [order'.approval # order.approval /\ "order" \notin stale'
            => <<order.approval, order'.approval>> \in Follows]_vars
      => [order'.approval # order.approval
            => <<order.approval, order'.approval>> \in Follows]_vars
  BY <1>1
<1> QED
  BY <1>2, SerialInit, SerialNextKept, SerialIsSpec, AlwaysTyped, ApprovalRuled, PTL
     DEF SerialSpec, ApprovalFollowsRules

=============================================================================
