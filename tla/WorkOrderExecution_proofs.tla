---------------------- MODULE WorkOrderExecution_proofs ----------------------
(***************************************************************************)
(* Proofs about WorkOrderExecution.  The inductive invariant speaks of     *)
(* task tables rather than of the variable task, because every handler     *)
(* first builds a table (report, roll-up to the parent) and then hands it  *)
(* to the check that may close the process.                                *)
(***************************************************************************)
EXTENDS WorkOrderExecution, TLAPS

(* What holds of each row on its own, out being the tasks outgrown by a    *)
(* subtask.                                                                *)
GoodRow(t, row, out) ==
    /\ row \in TaskRow
    /\ row.status = "absent" => row = Absent
    /\ row.status = "pending" => row.accounted = 0
    /\ t \in Tasks /\ row.status # "absent" => row.target = Target[t]
    /\ t \in Subs /\ row.status # "absent" => row.target > 0
    /\ (t \in Subs \/ t \notin out) /\ KindOf(t) # "cut" /\ row.target > 0
         => row.qty <= row.target

(* What holds between a task and its two subtasks.                         *)
GoodSplit(t, parent, left, right, out) ==
    /\ left.status # "absent" \/ right.status # "absent" => parent.status # "absent"
    /\ t \notin out => left.target + right.target <= parent.target
    /\ left.status # "absent" /\ right.status # "absent"
         => left.target + right.target <= parent.target

GoodTable(tk, out) ==
    /\ tk \in [AllTasks -> TaskRow]
    /\ \A t \in AllTasks : GoodRow(t, tk[t], out)
    /\ \A t \in Splittable : GoodSplit(t, tk[t], tk[<<t, 1>>], tk[<<t, 2>>], out)

GoodBooks(tk, led, del) ==
    /\ led \in [AllTasks -> Nat]
    /\ \A t \in AllTasks : led[t] >= tk[t].accounted
    /\ \A t \in AllTasks \ del : led[t] = tk[t].accounted

IInv ==
    /\ TypeOK
    /\ GoodTable(task, outgrown)
    /\ GoodBooks(task, ledger, deleted)

-----------------------------------------------------------------------------
(* Tasks and subtasks                                                      *)

(* The two subtasks of a task are tasks of the same process.               *)
LEMMA KidFacts ==
    ASSUME NEW t \in Splittable, NEW i \in {1, 2}
    PROVE  /\ t \in Tasks
           /\ <<t, i>> \in Subs
           /\ <<t, i>> \in AllTasks
           /\ <<t, i>> \notin Tasks
           /\ Root(<<t, i>>) = t
           /\ ProcessOf(<<t, i>>) = ProcessOf(t)
           /\ KindOf(<<t, i>>) = KindOf(t)
  <1>1. t \in Tasks /\ <<t, i>> \in Subs /\ <<t, i>> \notin Tasks
    BY TaskAssumption DEF Subs
  <1>2. Root(<<t, i>>) = t /\ Root(t) = t
    BY <1>1 DEF Root
  <1> QED
    BY <1>1, <1>2 DEF AllTasks, ProcessOf, KindOf

(* Every task is a generated one or one of two subtasks of one.            *)
LEMMA TaskFacts ==
    ASSUME NEW t \in AllTasks
    PROVE  /\ Root(t) \in Tasks
           /\ ProcessOf(t) \in Procs
           /\ KindOf(t) \in Kinds
           /\ t \notin Tasks => /\ t[1] \in Splittable
                                /\ t = <<t[1], 1>> \/ t = <<t[1], 2>>
                                /\ t \in Subs
  <1>1. CASE t \in Tasks
    BY <1>1, TaskAssumption, ProcessAssumption DEF Root, ProcessOf, KindOf
  <1>2. CASE t \notin Tasks
    <2>1. PICK s \in Splittable, i \in {1, 2} : t = <<s, i>>
      BY <1>2 DEF AllTasks, Subs
    <2>2. Root(t) = s /\ s \in Tasks /\ t[1] = s
      BY <2>1, KidFacts
    <2>3. ProcOf[s] \in Procs
      BY <2>2, TaskAssumption
    <2> QED
      BY <1>2, <2>1, <2>2, <2>3, ProcessAssumption DEF ProcessOf, KindOf, AllTasks
  <1> QED
    BY <1>1, <1>2

(* A row that does not exist yet or any more is a good row, and so is a    *)
(* new one of the right size.                                              *)
LEMMA NewRows ==
    ASSUME NEW t \in AllTasks
    PROVE  /\ GoodRow(t, Absent, outgrown)
           /\ \A q \in Nat : /\ t \in Tasks => q = Target[t]
                             /\ t \in Subs => q > 0
                             => GoodRow(t, Fresh(q), outgrown)
  BY DEF GoodRow, Absent, Fresh, TaskRow, TaskStatuses

LEMMA InitGood == Init => IInv
  <1> SUFFICES ASSUME Init PROVE IInv
    OBVIOUS
  <1> USE DEF Init
  <1>1. Absent \in TaskRow
    BY DEF Absent, TaskRow, TaskStatuses
  <1>2. TypeOK
    BY <1>1, TaskAssumption, EditAssumption
       DEF TypeOK, Approvals, WorkOrderStatuses, ProcessStatuses
  <1>3. GoodTable(task, outgrown)
    <2>1. ASSUME NEW t \in AllTasks PROVE GoodRow(t, task[t], outgrown)
      BY NewRows
    <2>2. ASSUME NEW t \in Splittable
          PROVE GoodSplit(t, task[t], task[<<t, 1>>], task[<<t, 2>>], outgrown)
      <3>1. task[t] = Absent /\ task[<<t, 1>>] = Absent /\ task[<<t, 2>>] = Absent
        BY KidFacts DEF AllTasks
      <3> QED
        BY <3>1 DEF GoodSplit, Absent
    <2> QED
      BY <1>1, <2>1, <2>2 DEF GoodTable
  <1>4. GoodBooks(task, ledger, deleted)
    BY DEF GoodBooks, Absent
  <1> QED
    BY <1>2, <1>3, <1>4 DEF IInv

-----------------------------------------------------------------------------
(* Tables                                                                  *)

(* Changing rows without creating, deleting or resizing one.               *)
LEMMA SameShape ==
    ASSUME NEW tk, GoodTable(tk, outgrown),
           NEW new \in [AllTasks -> TaskRow],
           \A t \in AllTasks :
             /\ GoodRow(t, new[t], outgrown)
             /\ new[t].target = tk[t].target
             /\ new[t].status = "absent" <=> tk[t].status = "absent"
    PROVE  GoodTable(new, outgrown)
  <1>1. ASSUME NEW t \in Splittable
        PROVE GoodSplit(t, new[t], new[<<t, 1>>], new[<<t, 2>>], outgrown)
    <2>1. t \in AllTasks /\ <<t, 1>> \in AllTasks /\ <<t, 2>> \in AllTasks
      BY KidFacts DEF AllTasks
    <2>2. GoodSplit(t, tk[t], tk[<<t, 1>>], tk[<<t, 2>>], outgrown)
      BY DEF GoodTable
    <2> QED
      BY <2>1, <2>2 DEF GoodSplit
  <1> QED
    BY <1>1 DEF GoodTable

(* Closing a process books exactly what the tasks then say is booked.      *)
LEMMA SaveGood ==
    ASSUME NEW p \in Procs, NEW tk, NEW led, TypeOK,
           GoodTable(tk, outgrown), GoodBooks(tk, led, deleted), SaveCompleted(p, tk, led)
    PROVE  /\ GoodTable(task', outgrown)
           /\ GoodBooks(task', ledger', deleted)
           /\ batch' \in [AllTasks -> Nat]
           /\ procStatus' \in [Procs -> ProcessStatuses]
  <1>1. ASSUME NEW t \in AllTasks
        PROVE  /\ Due(p, tk, t) \in Nat
               /\ Due(p, tk, t) > 0 => tk[t].status = "completed"
    BY DEF Due, GoodTable, TaskRow
  <1>2. ASSUME NEW t \in AllTasks
        PROVE  /\ GoodRow(t, task'[t], outgrown)
               /\ task'[t].target = tk[t].target
               /\ task'[t].status = tk[t].status
               /\ task'[t].accounted = tk[t].accounted + Due(p, tk, t)
    <2>1. tk[t] \in TaskRow /\ GoodRow(t, tk[t], outgrown)
      BY DEF GoodTable
    <2>2. task'[t] = [tk[t] EXCEPT !.accounted = @ + Due(p, tk, t)]
      BY DEF SaveCompleted
    <2> QED
      BY <1>1, <2>1, <2>2 DEF GoodRow, TaskRow, Absent
  <1>3. GoodTable(task', outgrown)
    <2>1. task' \in [AllTasks -> TaskRow]
      <3>1. \A t \in AllTasks : task'[t] \in TaskRow
        BY <1>2 DEF GoodRow
      <3> QED
        BY <3>1 DEF SaveCompleted
    <2> QED
      BY <1>2, <2>1, SameShape
  <1>4. GoodBooks(task', ledger', deleted)
    <2>1. ASSUME NEW t \in AllTasks
          PROVE ledger'[t] = led[t] + Due(p, tk, t)
      BY DEF SaveCompleted
    <2>2. ledger' \in [AllTasks -> Nat]
      BY <1>1 DEF SaveCompleted, GoodBooks
    <2>3. ASSUME NEW t \in AllTasks
          PROVE tk[t].accounted \in Nat /\ led[t] \in Nat
      BY DEF GoodBooks, GoodTable, TaskRow
    <2> QED
      BY <1>1, <1>2, <2>1, <2>2, <2>3 DEF GoodBooks
  <1>5. batch' \in [AllTasks -> Nat]
    BY <1>1 DEF SaveCompleted, TypeOK
  <1>6. procStatus' \in [Procs -> ProcessStatuses]
    BY DEF SaveCompleted, TypeOK, ProcessStatuses
  <1> QED
    BY <1>3, <1>4, <1>5, <1>6

(* So does the check at the end of a handler, whether or not it closes.    *)
LEMMA CheckGood ==
    ASSUME NEW p \in Procs, NEW tk, NEW led, NEW conf, TypeOK,
           GoodTable(tk, outgrown), GoodBooks(tk, led, deleted),
           CheckProcess(p, tk, led, conf)
    PROVE  /\ GoodTable(task', outgrown)
           /\ GoodBooks(task', ledger', deleted)
           /\ batch' \in [AllTasks -> Nat]
           /\ procStatus' \in [Procs -> ProcessStatuses]
           /\ woStatus' \in {woStatus, "completed"}
  <1>1. CASE SaveCompleted(p, tk, led) /\ CloseProcess(p, tk, led)
    BY <1>1, SaveGood DEF CloseProcess
  <1>2. CASE task' = tk /\ ledger' = led /\ UNCHANGED <<procStatus, woStatus, batch>>
    BY <1>2 DEF TypeOK
  <1> QED
    BY <1>1, <1>2 DEF CheckProcess, CloseProcess

(* Summing up the subtasks keeps the parent within its target.             *)
LEMMA RolledGood ==
    ASSUME NEW tk, GoodTable(tk, outgrown), NEW t \in AllTasks, tk[t].status # "absent"
    PROVE  /\ GoodTable(RolledUp(tk, t), outgrown)
           /\ \A u \in AllTasks : RolledUp(tk, t)[u].accounted = tk[u].accounted
  <1>1. CASE t \in Tasks
    BY <1>1 DEF RolledUp
  <1>2. CASE t \notin Tasks
    <2> DEFINE r == t[1]
               new == RolledUp(tk, t)
    <2>1. r \in Splittable /\ t \in {<<r, 1>>, <<r, 2>>}
      BY <1>2, TaskFacts
    <2>2. r \in AllTasks /\ <<r, 1>> \in AllTasks /\ <<r, 2>> \in AllTasks
      BY <2>1, KidFacts DEF AllTasks
    <2>3. KindOf(<<r, 1>>) = KindOf(r) /\ KindOf(<<r, 2>>) = KindOf(r)
      BY <2>1, KidFacts
    <2>4. PICK s \in {"completed", "in_progress", tk[r].status} :
            /\ new = [tk EXCEPT ![r].qty = tk[<<r, 1>>].qty + tk[<<r, 2>>].qty,
                                ![r].status = s]
      <3> DEFINE finished == \A u \in Kids(r) : tk[u].status \in {"absent", "completed"}
                 s == IF finished THEN "completed"
                      ELSE IF tk[r].status = "completed" THEN "in_progress"
                      ELSE tk[r].status
      <3>1. tk \in [AllTasks -> TaskRow]
        BY DEF GoodTable
      <3>2. new = [tk EXCEPT ![r].qty = tk[<<r, 1>>].qty + tk[<<r, 2>>].qty,
                             ![r].status = s]
        BY <1>2, <2>2, <3>1 DEF RolledUp, TaskRow
      <3>3. s \in {"completed", "in_progress", tk[r].status}
        OBVIOUS
      <3> QED
        BY <3>2, <3>3
    <2>5. /\ tk \in [AllTasks -> TaskRow]
          /\ GoodRow(r, tk[r], outgrown)
          /\ GoodRow(<<r, 1>>, tk[<<r, 1>>], outgrown)
          /\ GoodRow(<<r, 2>>, tk[<<r, 2>>], outgrown)
          /\ GoodSplit(r, tk[r], tk[<<r, 1>>], tk[<<r, 2>>], outgrown)
      BY <2>1, <2>2 DEF GoodTable
    <2>6. tk[r].status # "absent"
      BY <2>1, <2>5 DEF GoodSplit
    <2> HIDE DEF new
    <2>7. /\ new \in [AllTasks -> TaskRow]
          /\ \A u \in AllTasks \ {r} : new[u] = tk[u]
          /\ new[r].qty = tk[<<r, 1>>].qty + tk[<<r, 2>>].qty
          /\ new[r].target = tk[r].target
          /\ new[r].accounted = tk[r].accounted
          /\ new[r].status \in {"completed", "in_progress", tk[r].status}
      <3> DEFINE q == tk[<<r, 1>>].qty + tk[<<r, 2>>].qty
                 mid == [tk EXCEPT ![r] = [tk[r] EXCEPT !.qty = q]]
      <3>1. q \in Nat /\ tk[r] \in TaskRow /\ s \in TaskStatuses
        BY <2>2, <2>5 DEF TaskRow, TaskStatuses
      <3>2. new = [mid EXCEPT ![r] = [mid[r] EXCEPT !.status = s]]
        BY <2>4
      <3>3. /\ mid \in [AllTasks -> TaskRow]
            /\ mid[r] = [tk[r] EXCEPT !.qty = q]
            /\ \A u \in AllTasks \ {r} : mid[u] = tk[u]
        BY <2>2, <2>5, <3>1 DEF TaskRow
      <3> HIDE DEF mid, q
      <3>4. /\ new \in [AllTasks -> TaskRow]
            /\ new[r] = [mid[r] EXCEPT !.status = s]
            /\ \A u \in AllTasks \ {r} : new[u] = mid[u]
        BY <2>2, <3>1, <3>2, <3>3 DEF TaskRow
      <3>5. s \in {"completed", "in_progress", tk[r].status}
        BY <2>4
      <3>6. /\ mid[r].qty = q /\ mid[r].target = tk[r].target
            /\ mid[r].accounted = tk[r].accounted /\ mid[r] \in TaskRow
        BY <3>1, <3>3 DEF TaskRow
      <3>7. /\ new[r].qty = q /\ new[r].target = tk[r].target
            /\ new[r].accounted = tk[r].accounted /\ new[r].status = s
        BY <3>4, <3>6 DEF TaskRow
      <3>8. \A u \in AllTasks \ {r} : new[u] = tk[u]
        BY <3>3, <3>4
      <3>9. new \in [AllTasks -> TaskRow]
        BY <3>4
      <3> QED
        BY <3>5, <3>7, <3>8, <3>9 DEF q
    <2>8. ASSUME r \notin outgrown, KindOf(r) # "cut", tk[r].target > 0
          PROVE  new[r].qty <= new[r].target
      <3>1. tk[<<r, 1>>].qty <= tk[<<r, 1>>].target
        BY <2>1, <2>3, <2>5, <2>8, KidFacts DEF GoodRow, Absent, TaskRow
      <3>2. tk[<<r, 2>>].qty <= tk[<<r, 2>>].target
        BY <2>1, <2>3, <2>5, <2>8, KidFacts DEF GoodRow, Absent, TaskRow
      <3> QED
        BY <2>2, <2>5, <2>7, <2>8, <3>1, <3>2 DEF GoodSplit, TaskRow
    <2>9. GoodRow(r, new[r], outgrown) /\ new[r].status # "absent"
      <3>1. r \in Tasks /\ r \notin Subs
        BY <2>1, KidFacts, TaskAssumption
      <3> QED
        BY <2>5, <2>6, <2>7, <2>8, <3>1 DEF GoodRow
    <2>10. \A u \in AllTasks : GoodRow(u, tk[u], outgrown)
      BY DEF GoodTable
    <2>11. GoodTable(new, outgrown)
      BY <2>6, <2>7, <2>9, <2>10, SameShape
    <2> QED
      BY <2>7, <2>11 DEF new
  <1> QED
    BY <1>1, <1>2

(* Filling the gaps touches only rows that do not exist, and a task that   *)
(* does not exist has no subtasks.                                         *)
LEMMA GeneratedGood ==
    ASSUME IInv, NEW P
    PROVE  /\ GoodTable(Generated(P), outgrown)
           /\ GoodBooks(Generated(P), ledger, deleted)
  <1> DEFINE new == Generated(P)
  <1>1. ASSUME NEW t \in AllTasks
        PROVE  /\ GoodRow(t, task[t], outgrown)
               /\ new[t] = task[t] \/ /\ t \in Tasks
                                      /\ task[t] = Absent
                                      /\ new[t] = Fresh(Target[t])
    BY DEF Generated, IInv, TypeOK, GoodTable, GoodRow, Exists
  <1>2. ASSUME NEW t \in AllTasks
        PROVE  /\ GoodRow(t, new[t], outgrown)
               /\ new[t] \in TaskRow
               /\ new[t].accounted = task[t].accounted
    <2>1. CASE new[t] = task[t]
      BY <1>1, <2>1 DEF GoodRow
    <2>2. CASE t \in Tasks /\ task[t] = Absent /\ new[t] = Fresh(Target[t])
      <3>1. Target[t] \in Nat /\ t \notin Subs
        BY <2>2, TaskAssumption
      <3>2. GoodRow(t, Fresh(Target[t]), outgrown)
        BY <2>2, <3>1, NewRows
      <3> QED
        BY <2>2, <3>2 DEF GoodRow, Fresh, Absent
    <2> QED
      BY <1>1, <2>1, <2>2
  <1>3. ASSUME NEW t \in Splittable
        PROVE GoodSplit(t, new[t], new[<<t, 1>>], new[<<t, 2>>], outgrown)
    <2>1. /\ t \in AllTasks /\ <<t, 1>> \in AllTasks /\ <<t, 2>> \in AllTasks
          /\ <<t, 1>> \notin Tasks /\ <<t, 2>> \notin Tasks
      BY KidFacts DEF AllTasks
    <2>2. new[<<t, 1>>] = task[<<t, 1>>] /\ new[<<t, 2>>] = task[<<t, 2>>]
      BY <1>1, <2>1
    <2>3. GoodSplit(t, task[t], task[<<t, 1>>], task[<<t, 2>>], outgrown)
      BY DEF IInv, GoodTable
    <2>4. CASE new[t] = task[t]
      BY <2>2, <2>3, <2>4
    <2>5. CASE task[t] = Absent /\ new[t] = Fresh(Target[t])
      <3>1. task[<<t, 1>>] = Absent /\ task[<<t, 2>>] = Absent
        BY <1>1, <2>1, <2>3, <2>5 DEF GoodSplit, GoodRow, Absent
      <3> QED
        BY <2>1, <2>2, <2>5, <3>1, TaskAssumption, KidFacts DEF GoodSplit, Absent, Fresh
    <2> QED
      BY <1>1, <2>1, <2>4, <2>5
  <1>4. new \in [AllTasks -> TaskRow]
    BY <1>2 DEF Generated
  <1> QED
    BY <1>2, <1>3, <1>4 DEF GoodTable, GoodBooks, IInv

(* A report changes one existing row, the stock by as much, and then the   *)
(* parent; closing the process comes on top.                               *)
LEMMA ReportGood ==
    ASSUME IInv, NEW t \in AllTasks, Exists(t),
           NEW row \in TaskRow, GoodRow(t, row, outgrown),
           row.target = task[t].target, row.status # "absent",
           NEW led, GoodBooks([task EXCEPT ![t] = row], led, deleted)
    PROVE  /\ GoodTable(RolledUp([task EXCEPT ![t] = row], t), outgrown)
           /\ GoodBooks(RolledUp([task EXCEPT ![t] = row], t), led, deleted)
  <1> DEFINE tk == [task EXCEPT ![t] = row]
  <1>1. GoodTable(task, outgrown) /\ task \in [AllTasks -> TaskRow]
    BY DEF IInv, GoodTable
  <1>2. tk \in [AllTasks -> TaskRow]
    BY <1>1
  <1>3. ASSUME NEW u \in AllTasks
        PROVE  /\ GoodRow(u, tk[u], outgrown)
               /\ tk[u].target = task[u].target
               /\ tk[u].status = "absent" <=> task[u].status = "absent"
    BY <1>1 DEF GoodTable, Exists
  <1>4. GoodTable(tk, outgrown)
    BY <1>1, <1>2, <1>3, SameShape
  <1>5. tk[t].status # "absent"
    BY <1>1
  <1> HIDE DEF tk
  <1>6. /\ GoodTable(RolledUp(tk, t), outgrown)
        /\ \A u \in AllTasks : RolledUp(tk, t)[u].accounted = tk[u].accounted
    BY <1>4, <1>5, RolledGood
  <1>7. GoodBooks(tk, led, deleted)
    BY DEF tk
  <1>8. GoodBooks(RolledUp(tk, t), led, deleted)
    BY <1>6, <1>7 DEF GoodBooks
  <1> QED
    BY <1>6, <1>8 DEF tk

(* What is left of a step once the tables are known to be good.            *)
LEMMA Concluded ==
    ASSUME GoodTable(task', outgrown'), GoodBooks(task', ledger', deleted'),
           outgrown' \subseteq Splittable, byHand' \in BOOLEAN,
           approval' \in Approvals, woStatus' \in WorkOrderStatuses,
           procStatus' \in [Procs -> ProcessStatuses],
           confirmed' \subseteq Tasks, cut' \subseteq Tasks, needed' \subseteq Tasks,
           batch' \in [AllTasks -> Nat], deleted' \subseteq AllTasks
    PROVE  IInv'
  BY DEF IInv, TypeOK, GoodTable, GoodBooks

LEMMA CheckConcluded ==
    ASSUME IInv, NEW p \in Procs, NEW tk, NEW led, NEW conf,
           GoodTable(tk, outgrown), GoodBooks(tk, led, deleted),
           CheckProcess(p, tk, led, conf),
           UNCHANGED <<approval, needed, deleted, outgrown, byHand>>,
           confirmed' \subseteq Tasks, cut' \subseteq Tasks
    PROVE  IInv'
  <1>1. TypeOK
    BY DEF IInv
  <1>2. /\ GoodTable(task', outgrown)
        /\ GoodBooks(task', ledger', deleted)
        /\ batch' \in [AllTasks -> Nat]
        /\ procStatus' \in [Procs -> ProcessStatuses]
        /\ woStatus' \in {woStatus, "completed"}
    BY <1>1, CheckGood
  <1> QED
    BY <1>1, <1>2, Concluded DEF TypeOK, WorkOrderStatuses

-----------------------------------------------------------------------------
(* The handlers                                                            *)

(* A row with all but its target written anew.                             *)
Rewritten(row, q, s, a) == [row EXCEPT !.qty = q, !.status = s, !.accounted = a]

LEMMA RewrittenRow ==
    ASSUME NEW row \in TaskRow, NEW q \in Nat, NEW s \in TaskStatuses, NEW a \in Nat
    PROVE  /\ Rewritten(row, q, s, a) \in TaskRow
           /\ Rewritten(row, q, s, a).qty = q
           /\ Rewritten(row, q, s, a).status = s
           /\ Rewritten(row, q, s, a).accounted = a
           /\ Rewritten(row, q, s, a).target = row.target
  BY DEF TaskRow, Rewritten

(* What update_quantity writes into the row, and books.                    *)
Owed(t, q) == IF KindOf(t) = "pack" THEN q - task[t].accounted ELSE 0
ReportedRow(t, q) ==
    [task[t] EXCEPT !.qty = q, !.status = StatusAfter(task[t], q),
                    !.accounted = @ + Owed(t, q)]
ReportedBooks(t, q) == [ledger EXCEPT ![t] = @ + Moved(t, Owed(t, q))]

LEMMA UpdateQuantityReport ==
    ASSUME IInv, NEW t \in AllTasks, NEW increment \in Increments,
           UpdateQuantity(t, increment), NEW q, q = task[t].qty + increment
    PROVE  /\ ReportedRow(t, q) \in TaskRow
           /\ GoodTable(RolledUp([task EXCEPT ![t] = ReportedRow(t, q)], t), outgrown)
           /\ GoodBooks(RolledUp([task EXCEPT ![t] = ReportedRow(t, q)], t),
                        ReportedBooks(t, q), deleted)
           /\ CheckProcess(ProcessOf(t),
                RolledUp([task EXCEPT ![t] = ReportedRow(t, q)], t),
                ReportedBooks(t, q), confirmed)
  <1> DEFINE owed == Owed(t, q)
             row == ReportedRow(t, q)
             led == ReportedBooks(t, q)
  <1>1. /\ task[t] \in TaskRow /\ GoodRow(t, task[t], outgrown) /\ task \in [AllTasks -> TaskRow]
        /\ ledger \in [AllTasks -> Nat] /\ ledger[t] >= task[t].accounted
        /\ increment \in Int
    BY TaskAssumption DEF IInv, GoodTable, GoodBooks
  <1>2. /\ Exists(t)
        /\ Fits(t, q)
        /\ CheckProcess(ProcessOf(t),
             RolledUp([task EXCEPT ![t] = row], t), led, confirmed)
    BY DEF UpdateQuantity, ReportedRow, ReportedBooks, Owed
  <1>4. q \in Nat /\ owed \in Int /\ task[t].accounted + owed \in Nat
    BY <1>1, <1>2 DEF Fits, TaskRow, Owed
  <1>5. /\ StatusAfter(task[t], q) \in TaskStatuses \ {"absent", "pending"}
        /\ task[t].status # "absent"
    BY <1>1, <1>2 DEF StatusAfter, TaskRow, TaskStatuses, Exists
  <1>3. /\ row \in TaskRow
        /\ row.qty = q /\ row.status = StatusAfter(task[t], q)
        /\ row.accounted = task[t].accounted + owed /\ row.target = task[t].target
    <2> DEFINE a == task[t].accounted + owed
               s == StatusAfter(task[t], q)
               n == task[t].qty + increment
    <2>1. row = Rewritten(task[t], n, s, a)
      BY DEF Rewritten, ReportedRow
    <2>2. a \in Nat /\ s \in TaskStatuses /\ n \in Nat /\ n = q /\ task[t] \in TaskRow
      BY <1>1, <1>4, <1>5
    <2> HIDE DEF row, a, s, n
    <2>3. row \in TaskRow /\ row.qty = q /\ row.status = s /\ row.accounted = a
          /\ row.target = task[t].target
      BY <2>1, <2>2, RewrittenRow
    <2> QED
      BY <2>3 DEF a, s
  <1>6. row \in TaskRow /\ GoodRow(t, row, outgrown)
    <2> HIDE DEF row, owed
    <2> QED
      BY <1>1, <1>2, <1>3, <1>4, <1>5 DEF GoodRow, TaskRow, Fits
  <1>7. Moved(t, owed) \in {0, owed}
        /\ (Moved(t, owed) = 0 => owed = 0 \/ (owed < 0 /\ Stock(t) < -owed))
    BY DEF Moved
  <1>8. ledger[t] + Moved(t, owed) \in Nat
        /\ ledger[t] + Moved(t, owed) >= task[t].accounted + owed
    BY <1>1, <1>4, <1>7 DEF TaskRow
  <1>9. owed < 0 => ~(Stock(t) < -owed)
    <2> SUFFICES ASSUME owed < 0 PROVE ~(Stock(t) < -owed)
      OBVIOUS
    <2>1. ledger[t] >= -owed
      BY <1>1, <1>4 DEF TaskRow
    <2>2. CASE t \in Splittable
      <3>1. Root(t) = t /\ <<t, 1>> \in AllTasks /\ <<t, 2>> \in AllTasks
        BY <2>2, KidFacts DEF Root
      <3>2. Stock(t) = ledger[t] + ledger[<<t, 1>>] + ledger[<<t, 2>>]
        BY <2>2, <3>1 DEF Stock
      <3>3. ledger[t] \in Nat /\ ledger[<<t, 1>>] \in Nat /\ ledger[<<t, 2>>] \in Nat
        BY <1>1, <3>1
      <3> HIDE DEF owed
      <3> QED
        BY <1>4, <2>1, <3>2, <3>3
    <2>3. CASE t \in Tasks \ Splittable
      <3>1. Stock(t) = ledger[t] /\ ledger[t] \in Nat
        BY <1>1, <2>3 DEF Stock, Root
      <3> HIDE DEF owed
      <3> QED
        BY <1>4, <2>1, <3>1
    <2>4. CASE t \notin Tasks
      <3>1. /\ t[1] \in Splittable /\ t[1] \in AllTasks
            /\ <<t[1], 1>> \in AllTasks /\ <<t[1], 2>> \in AllTasks
            /\ t = <<t[1], 1>> \/ t = <<t[1], 2>>
            /\ Root(t) = t[1]
        BY <2>4, TaskFacts, KidFacts DEF Root, AllTasks
      <3> DEFINE r == t[1]
      <3>2. Stock(t) = ledger[r] + ledger[<<r, 1>>] + ledger[<<r, 2>>]
        BY <3>1 DEF Stock
      <3>3. ledger[r] \in Nat /\ ledger[<<r, 1>>] \in Nat /\ ledger[<<r, 2>>] \in Nat
        BY <1>1, <3>1
      <3>4. ledger[t] = ledger[<<r, 1>>] \/ ledger[t] = ledger[<<r, 2>>]
        BY <3>1
      <3> HIDE DEF r, owed
      <3> QED
        BY <1>1, <1>4, <2>1, <3>2, <3>3, <3>4
    <2> QED
      BY <2>2, <2>3, <2>4, TaskAssumption
  <1>10. Moved(t, owed) = owed
    BY <1>4, <1>9 DEF Moved
  <1>11. GoodBooks([task EXCEPT ![t] = row], led, deleted)
    BY <1>1, <1>3, <1>8, <1>10 DEF GoodBooks, IInv, ReportedBooks
  <1> HIDE DEF row, led, owed
  <1>12. row.target = task[t].target /\ row.status # "absent"
    BY <1>3, <1>5
  <1>13. /\ GoodTable(RolledUp([task EXCEPT ![t] = row], t), outgrown)
         /\ GoodBooks(RolledUp([task EXCEPT ![t] = row], t), led, deleted)
    BY <1>2, <1>6, <1>11, <1>12, ReportGood
  <1> QED
    BY <1>2, <1>6, <1>13 DEF row, led

LEMMA UpdateQuantityGood ==
    ASSUME IInv, NEW t \in AllTasks, NEW increment \in Increments,
           UpdateQuantity(t, increment)
    PROVE  IInv'
  <1> DEFINE q == task[t].qty + increment
             tk == RolledUp([task EXCEPT ![t] = ReportedRow(t, q)], t)
             led == ReportedBooks(t, q)
  <1>1. GoodTable(tk, outgrown) /\ GoodBooks(tk, led, deleted)
        /\ CheckProcess(ProcessOf(t), tk, led, confirmed)
    BY UpdateQuantityReport
  <1> HIDE DEF tk, led
  <1>2. ProcessOf(t) \in Procs
    BY TaskFacts
  <1>3. UNCHANGED <<approval, needed, deleted, outgrown, byHand>> /\ confirmed' \subseteq Tasks
        /\ cut' \subseteq Tasks
    BY DEF UpdateQuantity, TaskOnly, IInv, TypeOK
  <1> QED
    BY <1>1, <1>2, <1>3, CheckConcluded

(* What complete_task writes into the row.                                 *)
CompletedRow(t) ==
    [task[t] EXCEPT !.qty = IF KindOf(t) = "plate" THEN 1 ELSE task[t].target,
                    !.status = "completed"]

LEMMA CompleteTaskReport ==
    ASSUME IInv, NEW t \in AllTasks, CompleteTask(t)
    PROVE  /\ CompletedRow(t) \in TaskRow
           /\ GoodTable(RolledUp([task EXCEPT ![t] = CompletedRow(t)], t), outgrown)
           /\ GoodBooks(RolledUp([task EXCEPT ![t] = CompletedRow(t)], t), ledger, deleted)
           /\ CheckProcess(ProcessOf(t),
                RolledUp([task EXCEPT ![t] = CompletedRow(t)], t), ledger, confirmed)
  <1> DEFINE q == IF KindOf(t) = "plate" THEN 1 ELSE task[t].target
             row == CompletedRow(t)
  <1>1. /\ task[t] \in TaskRow /\ GoodRow(t, task[t], outgrown) /\ task \in [AllTasks -> TaskRow]
        /\ GoodBooks(task, ledger, deleted)
    BY DEF IInv, GoodTable
  <1>2. /\ Exists(t)
        /\ CheckProcess(ProcessOf(t),
             RolledUp([task EXCEPT ![t] = row], t), ledger, confirmed)
    BY DEF CompleteTask, CompletedRow
  <1>4. row \in TaskRow /\ row.target = task[t].target /\ row.status = "completed"
        /\ row.qty = q /\ row.accounted = task[t].accounted
    BY <1>1 DEF TaskRow, TaskStatuses, CompletedRow
  <1>5. GoodRow(t, row, outgrown)
    <2>1. task[t].status # "absent"
      BY <1>2 DEF Exists
    <2>2. task[t].target > 0 => q <= task[t].target
      BY <1>1 DEF TaskRow
    <2> QED
      BY <1>1, <1>4, <2>1, <2>2 DEF GoodRow
  <1>6. GoodBooks([task EXCEPT ![t] = row], ledger, deleted)
    BY <1>1, <1>4 DEF GoodBooks
  <1> HIDE DEF row, q
  <1>7. /\ GoodTable(RolledUp([task EXCEPT ![t] = row], t), outgrown)
        /\ GoodBooks(RolledUp([task EXCEPT ![t] = row], t), ledger, deleted)
    BY <1>2, <1>4, <1>5, <1>6, ReportGood
  <1> QED
    BY <1>2, <1>4, <1>7 DEF row

LEMMA CompleteTaskGood ==
    ASSUME IInv, NEW t \in AllTasks, CompleteTask(t)
    PROVE  IInv'
  <1> DEFINE tk == RolledUp([task EXCEPT ![t] = CompletedRow(t)], t)
  <1>1. GoodTable(tk, outgrown) /\ GoodBooks(tk, ledger, deleted)
        /\ CheckProcess(ProcessOf(t), tk, ledger, confirmed)
    BY CompleteTaskReport
  <1> HIDE DEF tk
  <1>2. ProcessOf(t) \in Procs
    BY TaskFacts
  <1>3. UNCHANGED <<approval, needed, deleted, outgrown, byHand>> /\ confirmed' \subseteq Tasks
        /\ cut' \subseteq Tasks
    BY DEF CompleteTask, TaskOnly, IInv, TypeOK
  <1> QED
    BY <1>1, <1>2, <1>3, CheckConcluded

(* What happens to the order itself leaves the rows alone or fills gaps.   *)
LEMMA OrderGood == IInv /\ OrderStep => IInv'
  <1> SUFFICES ASSUME IInv, OrderStep PROVE IInv'
    OBVIOUS
  <1>1. GoodTable(task, outgrown) /\ GoodBooks(task, ledger, deleted) /\ TypeOK
    BY DEF IInv
  <1>2. CASE Submit
    BY <1>1, <1>2, Concluded DEF Submit, OrderOnly, TypeOK, Approvals
  <1>3. ASSUME Release PROVE IInv'
    <2>1. GoodTable(task', outgrown) /\ GoodBooks(task', ledger', deleted')
      BY <1>3, GeneratedGood DEF Release, OrderOnly
    <2> QED
      BY <1>1, <1>3, <2>1, Concluded
         DEF Release, OrderOnly, TypeOK, Approvals, WorkOrderStatuses
  <1>4. CASE SubmitAutoApproved \/ Approve
    BY <1>3, <1>4 DEF SubmitAutoApproved, Approve
  <1>5. CASE Reject
    BY <1>1, <1>5, Concluded DEF Reject, OrderOnly, TypeOK, Approvals, WorkOrderStatuses
  <1>6. CASE CheckCompletion
    BY <1>1, <1>6, Concluded DEF CheckCompletion, OrderOnly, TypeOK, WorkOrderStatuses
  <1>7. ASSUME NEW new \in WorkOrderStatuses, UpdateStatus(new) PROVE IInv'
    BY <1>1, <1>7, Concluded DEF UpdateStatus, OrderOnly, TypeOK
  <1>8. ASSUME NEW new \in EditedTo \cup {woStatus}, EditOrder(new) PROVE IInv'
    <2>1. new \in WorkOrderStatuses
      BY <1>1, EditAssumption DEF TypeOK
    <2> QED
      BY <1>1, <1>8, <2>1, Concluded
         DEF EditOrder, OrderOnly, TypeOK, Approvals, Reviewable
  <1> QED
    BY <1>2, <1>4, <1>5, <1>6, <1>7, <1>8 DEF OrderStep

(* Closing a process books, starting one may fill gaps.                    *)
LEMMA ProcessGood == IInv /\ ProcessStep => IInv'
  <1> SUFFICES ASSUME IInv, NEW p \in Procs,
                      \/ StartProcess(p) \/ BatchStart(p)
                      \/ CompleteProcess(p) \/ ForceCompleteProcess(p)
               PROVE  IInv'
    BY DEF ProcessStep
  <1>1. GoodTable(task, outgrown) /\ GoodBooks(task, ledger, deleted) /\ TypeOK
        /\ task \in [AllTasks -> TaskRow]
    BY DEF IInv, GoodTable
  <1>2. [procStatus EXCEPT ![p] = "in_progress"] \in [Procs -> ProcessStatuses]
    BY <1>1 DEF TypeOK, ProcessStatuses
  <1>3. CASE StartProcess(p)
    BY <1>1, <1>2, <1>3, Concluded DEF StartProcess, TypeOK
  <1>4. CASE BatchStart(p)
    <2>1. GoodTable(task', outgrown) /\ GoodBooks(task', ledger', deleted')
      BY <1>4, GeneratedGood DEF BatchStart
    <2> QED
      BY <1>1, <1>2, <1>4, <2>1, Concluded DEF BatchStart, TypeOK
  <1>5. ASSUME NEW tk, GoodTable(tk, outgrown), GoodBooks(tk, ledger, deleted),
               CloseProcess(p, tk, ledger),
               UNCHANGED <<approval, confirmed, cut, needed, deleted, outgrown, byHand>>
        PROVE  IInv'
    <2>1. /\ GoodTable(task', outgrown)
          /\ GoodBooks(task', ledger', deleted)
          /\ batch' \in [AllTasks -> Nat]
          /\ procStatus' \in [Procs -> ProcessStatuses]
      BY <1>1, <1>5, SaveGood DEF CloseProcess
    <2>2. woStatus' \in WorkOrderStatuses
      BY <1>1, <1>5 DEF CloseProcess, TypeOK, WorkOrderStatuses
    <2> QED
      BY <1>1, <1>5, <2>1, <2>2, Concluded DEF TypeOK
  <1>6. CASE CompleteProcess(p)
    BY <1>1, <1>5, <1>6 DEF CompleteProcess
  <1>7. CASE ForceCompleteProcess(p)
    <2> DEFINE left == {t \in TasksOf(p, task) : task[t].status # "completed"}
               full(t) == IF task[t].qty = 0 THEN task[t].target ELSE task[t].qty
               tk == [t \in AllTasks |->
                        IF t \in left
                        THEN [task[t] EXCEPT !.status = "completed",
                                             !.qty = IF @ = 0 THEN task[t].target ELSE @]
                        ELSE task[t]]
    <2>1. CloseProcess(p, tk, ledger)
          /\ UNCHANGED <<approval, confirmed, cut, needed, deleted, outgrown, byHand>>
      BY <1>7 DEF ForceCompleteProcess
    <2>2. ASSUME NEW t \in AllTasks
          PROVE  /\ GoodRow(t, tk[t], outgrown)
                 /\ tk[t].target = task[t].target
                 /\ tk[t].accounted = task[t].accounted
                 /\ tk[t].status = "absent" <=> task[t].status = "absent"
      <3>1. task[t] \in TaskRow /\ GoodRow(t, task[t], outgrown)
        BY <1>1 DEF GoodTable
      <3>2. CASE t \in left
        <4>1. task[t].status # "absent"
          BY <3>2 DEF TasksOf
        <4>2. full(t) \in Nat /\ "completed" \in TaskStatuses /\ task[t].accounted \in Nat
          BY <3>1 DEF TaskRow, TaskStatuses
        <4>3. tk[t] = Rewritten(task[t], full(t), "completed", task[t].accounted)
          BY <3>1, <3>2 DEF Rewritten, TaskRow
        <4>4. (t \in Subs \/ t \notin outgrown) /\ KindOf(t) # "cut" /\ task[t].target > 0
                => full(t) <= task[t].target
          BY <3>1 DEF GoodRow, TaskRow
        <4> HIDE DEF tk, full
        <4>5. /\ tk[t] \in TaskRow /\ tk[t].qty = full(t) /\ tk[t].status = "completed"
              /\ tk[t].accounted = task[t].accounted /\ tk[t].target = task[t].target
          BY SMTT(30), <3>1, <4>2, <4>3, RewrittenRow
        <4> QED
          BY <3>1, <4>1, <4>4, <4>5 DEF GoodRow
      <3>3. CASE t \notin left
        BY <3>1, <3>3
      <3> QED
        BY <3>2, <3>3
    <2>3. tk \in [AllTasks -> TaskRow]
      BY <2>2 DEF GoodRow
    <2>4. GoodBooks(tk, ledger, deleted)
      BY <1>1, <2>2 DEF GoodBooks
    <2> HIDE DEF tk
    <2>5. GoodTable(tk, outgrown)
      BY <1>1, <2>2, <2>3, SameShape
    <2> QED
      BY <1>5, <2>1, <2>4, <2>5
  <1> QED
    BY <1>3, <1>4, <1>6, <1>7

LEMMA CancelTaskGood ==
    ASSUME IInv, NEW t \in AllTasks, CancelTask(t)
    PROVE  IInv'
  <1> DEFINE row == [task[t] EXCEPT !.status = "cancelled"]
  <1>1. GoodTable(task, outgrown) /\ GoodBooks(task, ledger, deleted) /\ TypeOK
        /\ task \in [AllTasks -> TaskRow] /\ task[t] \in TaskRow /\ GoodRow(t, task[t], outgrown)
    BY DEF IInv, GoodTable
  <1>2. /\ row \in TaskRow /\ row.status = "cancelled" /\ row.target = task[t].target
        /\ row.qty = task[t].qty /\ row.accounted = task[t].accounted
    BY <1>1 DEF TaskRow, TaskStatuses
  <1>3. task' = [task EXCEPT ![t] = row]
    BY DEF CancelTask
  <1>4. task[t].status # "absent"
    BY DEF CancelTask, Open
  <1>5. GoodRow(t, row, outgrown)
    BY <1>1, <1>2, <1>4 DEF GoodRow
  <1> HIDE DEF row
  <1>6. task' \in [AllTasks -> TaskRow] /\ task'[t] = row
        /\ \A u \in AllTasks \ {t} : task'[u] = task[u]
    BY <1>1, <1>2, <1>3
  <1>7. ASSUME NEW u \in AllTasks
        PROVE  /\ GoodRow(u, task'[u], outgrown)
               /\ task'[u].target = task[u].target
               /\ task'[u].accounted = task[u].accounted
               /\ task'[u].status = "absent" <=> task[u].status = "absent"
    BY <1>1, <1>2, <1>4, <1>5, <1>6 DEF GoodTable
  <1>8. GoodTable(task', outgrown)
    BY <1>1, <1>6, <1>7, SameShape
  <1>9. GoodBooks(task', ledger', deleted')
    BY <1>1, <1>7 DEF GoodBooks, CancelTask, TaskOnly
  <1> QED
    BY <1>1, <1>8, <1>9, Concluded DEF CancelTask, TaskOnly, TypeOK

LEMMA SplitTaskGood ==
    ASSUME IInv, NEW t \in Splittable, NEW q1 \in SplitSizes, NEW q2 \in SplitSizes,
           SplitTask(t, q1, q2)
    PROVE  IInv'
  <1> DEFINE left == <<t, 1>>
             right == <<t, 2>>
             s == IF task[t].status = "pending" THEN "in_progress" ELSE task[t].status
             row == [task[t] EXCEPT !.status = s]
  <1>1. GoodTable(task, outgrown) /\ GoodBooks(task, ledger, deleted) /\ TypeOK
        /\ task \in [AllTasks -> TaskRow]
    BY DEF IInv, GoodTable
  <1>2. /\ t \in Tasks /\ t \in AllTasks /\ t \notin Subs
        /\ left \in AllTasks /\ right \in AllTasks
        /\ left \in Subs /\ right \in Subs /\ left # right
        /\ t # left /\ t # right /\ left \notin Tasks /\ right \notin Tasks
    BY KidFacts, TaskAssumption DEF AllTasks
  <1>3. /\ GoodRow(t, task[t], outgrown) /\ GoodRow(left, task[left], outgrown) /\ GoodRow(right, task[right], outgrown)
        /\ task[t] \in TaskRow
    BY <1>1, <1>2 DEF GoodTable
  <1>4. task[left] = Absent /\ task[right] = Absent /\ task[t].status # "absent"
    BY <1>3 DEF SplitTask, HasSubtasks, Kids, Exists, GoodRow
  <1>5. /\ q1 \in Nat /\ q2 \in Int /\ q1 > 0 /\ q1 + q2 <= task[t].target
        /\ outgrown \subseteq outgrown'
        /\ outgrown' \subseteq outgrown \cup {t}
        /\ q2 <= 0 /\ q1 > task[t].target => t \in outgrown'
    BY TaskAssumption DEF SplitTask, SplitFits
  <1>6. /\ row \in TaskRow /\ row.status = s /\ row.target = task[t].target
        /\ row.qty = task[t].qty /\ row.accounted = task[t].accounted
    BY <1>3 DEF TaskRow, TaskStatuses
  <1>7. GoodRow(t, row, outgrown') /\ s # "absent"
    BY <1>3, <1>4, <1>5, <1>6 DEF GoodRow
  <1>8. /\ Fresh(q1) \in TaskRow /\ GoodRow(left, Fresh(q1), outgrown')
        /\ q2 > 0 => q2 \in Nat /\ Fresh(q2) \in TaskRow /\ GoodRow(right, Fresh(q2), outgrown')
    BY <1>2, <1>5, NewRows DEF GoodRow
  <1>9. /\ task' \in [AllTasks -> TaskRow]
        /\ task'[left] = Fresh(q1)
        /\ \/ q2 > 0 /\ task'[right] = Fresh(q2) /\ task'[t] = row
           \/ q2 <= 0 /\ task'[right] = Absent /\ task'[t] = task[t]
        /\ \A u \in AllTasks \ {t, left, right} : task'[u] = task[u]
    <2>1. CASE q2 > 0
      <3>1. task' = [task EXCEPT ![left] = Fresh(q1), ![right] = Fresh(q2), ![t] = row]
        BY <1>1, <1>2, <2>1 DEF SplitTask
      <3> HIDE DEF left, right, row, s
      <3> QED
        BY <1>1, <1>2, <1>6, <1>8, <2>1, <3>1
    <2>2. CASE q2 <= 0
      <3>1. ~(q2 > 0)
        BY <1>5, <2>2
      <3>2. task' = [task EXCEPT ![left] = Fresh(q1)]
        BY <3>1 DEF SplitTask
      <3> HIDE DEF left, right, row, s
      <3> QED
        BY <1>1, <1>2, <1>4, <1>8, <2>2, <3>2
    <2> QED
      BY <1>5, <2>1, <2>2
  <1> HIDE DEF left, right, row, s
  <1>10. ASSUME NEW u \in AllTasks
         PROVE  GoodRow(u, task'[u], outgrown') /\ task'[u].accounted = task[u].accounted
    <2>1. GoodRow(u, task[u], outgrown')
      <3>1. GoodRow(u, task[u], outgrown)
        BY <1>1 DEF GoodTable
      <3> QED
        BY <1>5, <3>1 DEF GoodRow
    <2> QED
      BY <1>3, <1>4, <1>6, <1>7, <1>8, <1>9, <2>1 DEF Fresh, Absent
  <1>11. ASSUME NEW v \in Splittable
         PROVE GoodSplit(v, task'[v], task'[<<v, 1>>], task'[<<v, 2>>], outgrown')
    <2>1. CASE v = t
      <3>1. task'[t].target = task[t].target /\ task'[t].status # "absent"
        BY <1>4, <1>6, <1>7, <1>9
      <3>2. task'[left].target = q1 /\ task'[left].status # "absent"
        BY <1>9 DEF Fresh
      <3>3. CASE q2 > 0 /\ task'[right] = Fresh(q2)
        BY <1>5, <2>1, <3>1, <3>2, <3>3 DEF GoodSplit, Fresh, left, right
      <3>4. CASE q2 <= 0 /\ task'[right] = Absent
        <4>1. task[t].target \in Nat
          BY <1>3 DEF TaskRow
        <4> QED
          BY <1>5, <2>1, <3>1, <3>2, <3>4, <4>1 DEF GoodSplit, Absent, left, right
      <3> QED
        BY <1>9, <3>3, <3>4
    <2>2. CASE v # t
      <3>1. /\ v \in AllTasks \ {t, left, right}
            /\ <<v, 1>> \in AllTasks \ {t, left, right}
            /\ <<v, 2>> \in AllTasks \ {t, left, right}
        BY <1>2, <2>2, KidFacts DEF AllTasks, left, right
      <3> QED
        <4>1. GoodSplit(v, task[v], task[<<v, 1>>], task[<<v, 2>>], outgrown)
          BY <1>1 DEF GoodTable
        <4> QED
          BY <1>5, <1>9, <3>1, <4>1 DEF GoodSplit
    <2> QED
      BY <2>1, <2>2
  <1>12. GoodTable(task', outgrown')
    BY <1>9, <1>10, <1>11 DEF GoodTable
  <1>13. GoodBooks(task', ledger', deleted')
    BY <1>1, <1>10 DEF GoodBooks, SplitTask
  <1> QED
    BY <1>1, <1>12, <1>13, Concluded DEF SplitTask, TypeOK

(* Deleting a task takes its subtasks along, so no subtask is left alone.  *)
LEMMA DeleteTaskGood ==
    ASSUME IInv, NEW t \in AllTasks, DeleteTask(t)
    PROVE  IInv'
  <1> DEFINE gone == {u \in Family(t) : Exists(u)}
  <1>1. GoodTable(task, outgrown) /\ GoodBooks(task, ledger, deleted) /\ TypeOK
        /\ task \in [AllTasks -> TaskRow]
    BY DEF IInv, GoodTable
  <1>2. \A u \in AllTasks : task'[u] = IF u \in gone THEN Absent ELSE task[u]
    BY DEF DeleteTask
  <1>3. gone \subseteq AllTasks
    BY KidFacts DEF Family, Kids
  <1>4. ASSUME NEW u \in AllTasks
        PROVE  GoodRow(u, task'[u], outgrown) /\ task'[u] \in TaskRow
    BY <1>1, <1>2, NewRows DEF GoodTable, GoodRow
  <1>5. task' \in [AllTasks -> TaskRow]
    <2>1. task' = [u \in AllTasks |-> IF u \in gone THEN Absent ELSE task[u]]
      BY DEF DeleteTask
    <2> QED
      BY <1>2, <1>4, <2>1
  <1>6. ASSUME NEW v \in Splittable
        PROVE GoodSplit(v, task'[v], task'[<<v, 1>>], task'[<<v, 2>>], outgrown)
    <2> DEFINE left == <<v, 1>>
               right == <<v, 2>>
    <2>1. v \in AllTasks /\ left \in AllTasks /\ right \in AllTasks
      BY KidFacts DEF AllTasks
    <2>2. /\ GoodSplit(v, task[v], task[left], task[right], outgrown)
          /\ GoodRow(left, task[left], outgrown) /\ GoodRow(right, task[right], outgrown) /\ GoodRow(v, task[v], outgrown)
      BY <1>1, <2>1 DEF GoodTable
    <2>3. v \in gone => task'[v] = Absent /\ task'[left] = Absent /\ task'[right] = Absent
      <3>1. ASSUME v \in gone PROVE v = t
        BY <3>1, KidFacts DEF Family, Kids
      <3>2. ASSUME v \in gone
            PROVE  /\ left \in gone \/ task[left].status = "absent"
                   /\ right \in gone \/ task[right].status = "absent"
        BY <3>1, <3>2 DEF Family, Kids, Exists
      <3> QED
        BY <1>2, <2>1, <2>2, <3>2 DEF GoodRow
    <2>4. /\ task'[left] \in {Absent, task[left]} /\ task'[right] \in {Absent, task[right]}
          /\ v \notin gone => task'[v] = task[v]
      BY <1>2, <2>1
    <2> HIDE DEF left, right, gone
    <2>5. CASE v \in gone
      BY <2>3, <2>5 DEF GoodSplit, Absent, left, right
    <2>6. CASE v \notin gone
      <3>1. /\ task[v].target \in Nat /\ task[left].target \in Nat
            /\ task[right].target \in Nat
        BY <2>2 DEF GoodRow, TaskRow
      <3>2. /\ task'[left].target <= task[left].target
            /\ task'[right].target <= task[right].target
            /\ task'[left].target \in Nat /\ task'[right].target \in Nat
        BY <2>4, <3>1 DEF Absent
      <3>3. /\ task'[left].status \in {"absent", task[left].status}
            /\ task'[right].status \in {"absent", task[right].status}
        BY <2>4 DEF Absent
      <3> QED
        BY <2>2, <2>4, <2>6, <3>1, <3>2, <3>3 DEF GoodSplit, left, right
    <2> QED
      BY <2>5, <2>6 DEF left, right
  <1>7. GoodTable(task', outgrown)
    BY <1>4, <1>5, <1>6 DEF GoodTable
  <1>8. GoodBooks(task', ledger', deleted')
    <2>1. ledger' = ledger /\ deleted' = deleted \cup gone
      BY DEF DeleteTask
    <2> HIDE DEF gone
    <2>2. \A u \in AllTasks : ledger[u] \in Nat /\ ledger[u] >= task[u].accounted
      BY <1>1 DEF GoodBooks
    <2> QED
      BY <1>1, <1>2, <2>1, <2>2 DEF GoodBooks, Absent
  <1>9. deleted' \subseteq AllTasks
    BY <1>1, <1>3 DEF DeleteTask, TypeOK
  <1> QED
    BY <1>1, <1>7, <1>8, <1>9, Concluded DEF DeleteTask, TypeOK

(* A removed process loses only rows for which nothing was booked.         *)
LEMMA SyncTasksGood ==
    ASSUME IInv, NEW removed \in SUBSET Procs, SyncTasks(removed)
    PROVE  IInv'
  <1> DEFINE kept == Generated(Procs \ removed)
  <1>1. GoodTable(task, outgrown) /\ GoodBooks(task, ledger, deleted) /\ TypeOK
    BY DEF IInv
  <1>2. GoodTable(kept, outgrown) /\ GoodBooks(kept, ledger, deleted)
    BY GeneratedGood
  <1>3. task' = [t \in AllTasks |-> IF ProcessOf(t) \in removed THEN Absent ELSE kept[t]]
    BY DEF SyncTasks
  <1> HIDE DEF kept
  <1>4. ASSUME NEW t \in AllTasks
        PROVE  /\ GoodRow(t, task'[t], outgrown) /\ task'[t] \in TaskRow
               /\ task'[t] = IF ProcessOf(t) \in removed THEN Absent ELSE kept[t]
    BY <1>2, <1>3, NewRows DEF GoodTable, GoodRow
  <1>5. task' \in [AllTasks -> TaskRow]
    BY <1>3, <1>4
  <1>6. ASSUME NEW v \in Splittable
        PROVE GoodSplit(v, task'[v], task'[<<v, 1>>], task'[<<v, 2>>], outgrown)
    <2>1. /\ v \in AllTasks /\ <<v, 1>> \in AllTasks /\ <<v, 2>> \in AllTasks
          /\ ProcessOf(<<v, 1>>) = ProcessOf(v) /\ ProcessOf(<<v, 2>>) = ProcessOf(v)
      BY KidFacts DEF AllTasks
    <2>2. CASE ProcessOf(v) \in removed
      <3>1. task'[v] = Absent /\ task'[<<v, 1>>] = Absent /\ task'[<<v, 2>>] = Absent
        BY <1>4, <2>1, <2>2
      <3> QED
        BY <3>1 DEF GoodSplit, Absent
    <2>3. CASE ProcessOf(v) \notin removed
      <3>1. /\ task'[v] = kept[v]
            /\ task'[<<v, 1>>] = kept[<<v, 1>>] /\ task'[<<v, 2>>] = kept[<<v, 2>>]
        BY <1>4, <2>1, <2>3
      <3>2. GoodSplit(v, kept[v], kept[<<v, 1>>], kept[<<v, 2>>], outgrown)
        BY <1>2 DEF GoodTable
      <3> QED
        BY <3>1, <3>2
    <2> QED
      BY <2>2, <2>3
  <1>7. GoodTable(task', outgrown)
    BY <1>4, <1>5, <1>6 DEF GoodTable
  <1>8. ASSUME NEW t \in AllTasks, ProcessOf(t) \in removed
        PROVE  task[t].accounted = 0
    <2>1. task[t].status \in {"absent", "pending"}
      BY <1>8 DEF SyncTasks, TasksOf
    <2>2. GoodRow(t, task[t], outgrown)
      BY <1>1 DEF GoodTable
    <2> QED
      BY <2>1, <2>2 DEF GoodRow, Absent
  <1>9. GoodBooks(task', ledger', deleted')
    <2>1. ledger' = ledger /\ deleted' = deleted
      BY DEF SyncTasks
    <2>2. ASSUME NEW t \in AllTasks
          PROVE  /\ ledger[t] \in Nat
                 /\ ledger[t] >= task'[t].accounted
                 /\ t \notin deleted => ledger[t] = task'[t].accounted
      <3>1. CASE ProcessOf(t) \in removed
        BY <1>1, <1>4, <1>8, <3>1 DEF GoodBooks, Absent
      <3>2. CASE ProcessOf(t) \notin removed
        BY <1>2, <1>4, <3>2 DEF GoodBooks
      <3> QED
        BY <3>1, <3>2
    <2> QED
      BY <1>1, <2>1, <2>2 DEF GoodBooks
  <1> QED
    BY <1>1, <1>7, <1>9, Concluded DEF SyncTasks, TypeOK

LEMMA TaskGood == IInv /\ TaskStep => IInv'
  BY UpdateQuantityGood, CompleteTaskGood, CancelTaskGood, DeleteTaskGood,
     SplitTaskGood, SyncTasksGood DEF TaskStep

(* An asset completes plate tasks with quantity one, which is their whole  *)
(* target.                                                                 *)
LEMMA ConfirmAssetGood ==
    ASSUME IInv, NEW t \in Tasks, ConfirmAsset(t)
    PROVE  IInv'
  <1> DEFINE p == ProcOf[t]
             hit == {u \in Family(t) :
                       /\ Exists(u)
                       /\ \/ procStatus[p] = "in_progress"
                          \/ task[u].status \in Open /\ task[u].qty < 1}
             tk == [u \in AllTasks |->
                      IF u \in hit
                      THEN [task[u] EXCEPT !.status = "completed", !.qty = 1]
                      ELSE task[u]]
  <1>1. GoodTable(task, outgrown) /\ GoodBooks(task, ledger, deleted) /\ TypeOK
    BY DEF IInv
  <1>2. /\ Kind[p] = "plate"
        /\ confirmed' = confirmed \cup {t}
        /\ \/ hit # {} /\ CheckProcess(p, tk, ledger, confirmed')
           \/ hit = {} /\ UNCHANGED <<woStatus, procStatus, task, ledger, batch>>
        /\ UNCHANGED <<approval, cut, needed, deleted, outgrown, byHand>>
    BY DEF ConfirmAsset
  <1>3. confirmed' \subseteq Tasks /\ cut' \subseteq Tasks
    BY <1>1, <1>2 DEF TypeOK
  <1>4. p \in Procs
    BY TaskAssumption
  <1>5. ASSUME NEW u \in AllTasks
        PROVE  /\ GoodRow(u, tk[u], outgrown)
               /\ tk[u].target = task[u].target
               /\ tk[u].accounted = task[u].accounted
               /\ tk[u].status = "absent" <=> task[u].status = "absent"
    <2>1. task[u] \in TaskRow /\ GoodRow(u, task[u], outgrown)
      BY <1>1 DEF GoodTable
    <2>2. CASE u \in hit
      <3>1. task[u].status # "absent"
        BY <2>2 DEF Exists
      <3> DEFINE row == [task[u] EXCEPT !.status = "completed", !.qty = 1]
      <3>2. /\ row \in TaskRow /\ row.qty = 1 /\ row.status = "completed"
            /\ row.accounted = task[u].accounted /\ row.target = task[u].target
        BY <2>1 DEF TaskRow, TaskStatuses
      <3>3. tk[u] = row
        BY <2>2
      <3> HIDE DEF tk, row
      <3>4. /\ tk[u] \in TaskRow /\ tk[u].qty = 1 /\ tk[u].status = "completed"
            /\ tk[u].accounted = task[u].accounted /\ tk[u].target = task[u].target
        BY <3>2, <3>3
      <3>5. task[u].target > 0 => 1 <= task[u].target
        BY <2>1 DEF TaskRow
      <3> QED
        BY <2>1, <3>1, <3>4, <3>5 DEF GoodRow
    <2>3. CASE u \notin hit
      BY <2>1, <2>3
    <2> QED
      BY <2>2, <2>3
  <1>6. tk \in [AllTasks -> TaskRow]
    BY <1>5 DEF GoodRow
  <1>7. GoodBooks(tk, ledger, deleted)
    BY <1>1, <1>5 DEF GoodBooks
  <1> HIDE DEF tk, hit, p
  <1>8. GoodTable(tk, outgrown)
    BY <1>1, <1>5, <1>6, SameShape
  <1>9. CASE CheckProcess(p, tk, ledger, confirmed')
    BY <1>2, <1>3, <1>4, <1>7, <1>8, <1>9, CheckConcluded
  <1>10. CASE UNCHANGED <<woStatus, procStatus, task, ledger, batch>>
    BY <1>1, <1>2, <1>3, <1>10, Concluded DEF TypeOK
  <1> QED
    BY <1>2, <1>9, <1>10

(* Cutting may overfill a task, but only a cutting task.                   *)
LEMMA CutMaterialGood ==
    ASSUME IInv, NEW t \in Tasks, CutMaterial(t)
    PROVE  IInv'
  <1> DEFINE tk == AfterCut(t)
  <1>1. GoodTable(task, outgrown) /\ GoodBooks(task, ledger, deleted) /\ TypeOK
    BY DEF IInv
  <1>2. confirmed' \subseteq Tasks /\ cut' \subseteq Tasks
        /\ UNCHANGED <<approval, needed, deleted, outgrown, byHand>>
    BY <1>1 DEF CutMaterial, TypeOK
  <1>3. ProcOf[t] \in Procs /\ Usage[t] \in Nat
    BY TaskAssumption
  <1>4. ASSUME NEW u \in AllTasks
        PROVE  /\ GoodRow(u, tk[u], outgrown)
               /\ tk[u].target = task[u].target
               /\ tk[u].accounted = task[u].accounted
               /\ tk[u].status = "absent" <=> task[u].status = "absent"
    <2>1. task[u] \in TaskRow /\ GoodRow(u, task[u], outgrown)
      BY <1>1 DEF GoodTable
    <2>2. CASE u \in ReachedByCut(t)
      <3>1. task[u].status # "absent"
        BY <2>2 DEF ReachedByCut, Open
      <3>2. KindOf(u) = "cut"
        BY <2>2, KidFacts DEF ReachedByCut, Family, Kids, CutMaterial
      <3> DEFINE s == IF u \in FullWhenCut(t) THEN "completed" ELSE "in_progress"
      <3>3. s \in TaskStatuses /\ task[u].accounted \in Nat /\ s \notin {"absent", "pending"}
        BY <2>1 DEF TaskRow, TaskStatuses
      <3>4. tk[u] = Rewritten(task[u], Usage[t], s, task[u].accounted)
        BY <2>1, <2>2 DEF Rewritten, TaskRow, AfterCut
      <3> HIDE DEF tk, s
      <3>5. /\ tk[u] \in TaskRow /\ tk[u].status = s
            /\ tk[u].accounted = task[u].accounted /\ tk[u].target = task[u].target
        BY SMTT(30), <1>3, <2>1, <3>3, <3>4, RewrittenRow
      <3> QED
        BY <2>1, <3>1, <3>2, <3>3, <3>5 DEF GoodRow
    <2>3. CASE u \notin ReachedByCut(t)
      BY <2>1, <2>3 DEF AfterCut
    <2> QED
      BY <2>2, <2>3
  <1>5. tk \in [AllTasks -> TaskRow]
    <2>1. \A u \in AllTasks : tk[u] \in TaskRow
      BY <1>4 DEF GoodRow
    <2> QED
      BY <2>1 DEF AfterCut
  <1>6. GoodBooks(tk, ledger, deleted)
    BY <1>1, <1>4 DEF GoodBooks
  <1> HIDE DEF tk
  <1>7. GoodTable(tk, outgrown)
    BY <1>1, <1>4, <1>5, SameShape
  <1>8. CASE CheckProcess(ProcOf[t], tk, ledger, confirmed)
    BY <1>2, <1>3, <1>6, <1>7, <1>8, CheckConcluded
  <1>9. CASE task' = tk /\ UNCHANGED <<woStatus, procStatus, ledger, batch>>
    BY <1>1, <1>2, <1>6, <1>7, <1>9, Concluded DEF TypeOK
  <1> QED
    BY <1>8, <1>9 DEF CutMaterial, tk

LEMMA SupplyGood == IInv /\ SupplyStep => IInv'
  <1> SUFFICES ASSUME IInv, NEW t \in Tasks,
                      \/ ConfirmAsset(t) \/ CutMaterial(t)
                      \/ ConfirmPlan(t) \/ InvalidatePlan(t)
               PROVE  IInv'
    BY DEF SupplyStep
  <1>1. GoodTable(task, outgrown) /\ GoodBooks(task, ledger, deleted) /\ TypeOK
    BY DEF IInv
  <1>2. CASE ConfirmPlan(t)
    BY <1>1, <1>2, Concluded DEF ConfirmPlan, TypeOK
  <1>3. CASE InvalidatePlan(t)
    BY <1>1, <1>3, Concluded DEF InvalidatePlan, TypeOK
  <1> QED
    BY <1>2, <1>3, ConfirmAssetGood, CutMaterialGood

-----------------------------------------------------------------------------
(* Theorems                                                                *)

LEMMA StepGood == IInv /\ [Next]_vars => IInv'
  <1> SUFFICES ASSUME IInv, [Next]_vars PROVE IInv'
    OBVIOUS
  <1>1. CASE Next
    BY <1>1, OrderGood, ProcessGood, TaskGood, SupplyGood DEF Next
  <1>2. CASE UNCHANGED vars
    BY <1>2 DEF vars, IInv, TypeOK, GoodTable, GoodBooks
  <1> QED
    BY <1>1, <1>2

(* The invariant on rows, splits and books holds throughout.               *)
THEOREM Inductive == Spec => []IInv
  BY InitGood, StepGood, PTL DEF Spec

(* No handler leaves a quantity, a target, a stock entry or a status that  *)
(* is not one: in particular nothing reported, booked or taken back makes  *)
(* a quantity or the stock of a task negative.                             *)
THEOREM TypeCorrect == Spec => []TypeOK
  <1>1. IInv => TypeOK
    BY DEF IInv
  <1> QED
    BY <1>1, Inductive, PTL

(* Reports, forced completions, confirmed assets and sums over subtasks    *)
(* never exceed what a task has to make; only cutting does, and the parent *)
(* of a subtask which a split refused half way has made larger than it.    *)
THEOREM NoOverproduction == Spec => []QuantityWithinTarget
  <1>1. IInv => QuantityWithinTarget
    BY DEF IInv, GoodTable, GoodRow, QuantityWithinTarget
  <1> QED
    BY <1>1, Inductive, PTL

(* The stock journal and the tasks' own accounts never drift apart.        *)
THEOREM BooksAgree == Spec => []LedgerMatchesAccounted
  <1>1. IInv => LedgerMatchesAccounted
    BY DEF IInv, GoodBooks, LedgerMatchesAccounted
  <1> QED
    BY <1>1, Inductive, PTL

(* Split, deleted, regenerated and split again: the parts of a split that  *)
(* succeeded always fit, and so does what is left of one refused half way, *)
(* unless its first size alone was larger than the task.                   *)
THEOREM SplitsFit == Spec => []SubtasksWithinParent
  <1>1. IInv => SubtasksWithinParent
    <2> SUFFICES ASSUME IInv, NEW t \in Splittable,
                        (\A u \in Kids(t) : Exists(u)) \/ t \notin outgrown
                 PROVE  task[<<t, 1>>].target + task[<<t, 2>>].target <= task[t].target
      BY DEF SubtasksWithinParent
    <2> QED
      BY DEF IInv, GoodTable, GoodSplit, Kids, Exists
  <1> QED
    BY <1>1, Inductive, PTL


-----------------------------------------------------------------------------
(* Statuses of processes and of the order                                  *)

(* A process is started when it may be, closed, or left alone.             *)
LEMMA ProcessMoves ==
    ASSUME [Next]_vars
    PROVE  \/ procStatus' = procStatus
           \/ \E p \in Procs :
                \/ procStatus' = [procStatus EXCEPT ![p] = "completed"]
                \/ CanStart(p) /\ procStatus' = [procStatus EXCEPT ![p] = "in_progress"]
  <1> DEFINE Goal == \/ procStatus' = procStatus
                     \/ \E p \in Procs :
                          \/ procStatus' = [procStatus EXCEPT ![p] = "completed"]
                          \/ /\ CanStart(p)
                             /\ procStatus' = [procStatus EXCEPT ![p] = "in_progress"]
  <1>1. ASSUME NEW p \in Procs, NEW tk, NEW led, NEW conf, CheckProcess(p, tk, led, conf)
        PROVE  Goal
    BY <1>1 DEF CheckProcess, CloseProcess, SaveCompleted
  <1>2. CASE OrderStep
    BY <1>2 DEF OrderStep, Submit, SubmitAutoApproved, Approve, Release, Reject,
                CheckCompletion, UpdateStatus, EditOrder, OrderOnly
  <1>3. CASE ProcessStep
    BY <1>3 DEF ProcessStep, StartProcess, BatchStart, CompleteProcess,
                ForceCompleteProcess, CloseProcess, SaveCompleted
  <1>4. CASE TaskStep
    <2>1. ASSUME NEW t \in AllTasks, NEW increment \in Increments,
                 UpdateQuantity(t, increment)
          PROVE  Goal
      <3>1. ProcessOf(t) \in Procs
        BY TaskFacts
      <3> QED
        BY <1>1, <2>1, <3>1 DEF UpdateQuantity
    <2>2. ASSUME NEW t \in AllTasks, CompleteTask(t) PROVE Goal
      <3>1. ProcessOf(t) \in Procs
        BY TaskFacts
      <3> QED
        BY <1>1, <2>2, <3>1 DEF CompleteTask
    <2> QED
      BY <1>4, <2>1, <2>2 DEF TaskStep, CancelTask, DeleteTask, SplitTask, SyncTasks
  <1>5. CASE SupplyStep
    <2> SUFFICES ASSUME NEW t \in Tasks,
                        \/ ConfirmAsset(t) \/ CutMaterial(t)
                        \/ ConfirmPlan(t) \/ InvalidatePlan(t)
                 PROVE  Goal
      BY <1>5 DEF SupplyStep
    <2>1. ProcOf[t] \in Procs
      BY TaskAssumption
    <2>2. CASE ConfirmAsset(t)
      BY <1>1, <2>1, <2>2 DEF ConfirmAsset
    <2>3. CASE CutMaterial(t)
      BY <1>1, <2>1, <2>3 DEF CutMaterial
    <2> QED
      BY <2>2, <2>3 DEF ConfirmPlan, InvalidatePlan
  <1>6. CASE UNCHANGED vars
    BY <1>6 DEF vars
  <1> QED
    BY <1>2, <1>3, <1>4, <1>5, <1>6 DEF Next

(* Nothing reopens a predecessor once its successor runs.                  *)
THEOREM ChainHolds == Spec => []RunsAfterPredecessor
  <1>1. Init => RunsAfterPredecessor
    BY ProcessAssumption DEF Init, RunsAfterPredecessor
  <1>2. IInv /\ RunsAfterPredecessor /\ [Next]_vars => RunsAfterPredecessor'
    <2> SUFFICES ASSUME IInv, RunsAfterPredecessor, [Next]_vars,
                        NEW p \in Chain \ Free, NEW q \in Chain, Precedes(q, p),
                        procStatus'[p] = "in_progress"
                 PROVE  procStatus'[q] = "completed"
      BY DEF RunsAfterPredecessor, Precedes
    <2>1. procStatus \in [Procs -> ProcessStatuses] /\ p \in Procs /\ q \in Procs /\ q # p
      BY ProcessAssumption DEF IInv, TypeOK, Precedes
    <2>2. CASE procStatus' = procStatus
      BY <2>2 DEF RunsAfterPredecessor
    <2>3. ASSUME NEW r \in Procs, procStatus' = [procStatus EXCEPT ![r] = "completed"]
          PROVE  procStatus'[q] = "completed"
      BY <2>1, <2>3 DEF RunsAfterPredecessor
    <2>4. ASSUME NEW r \in Procs, CanStart(r),
                 procStatus' = [procStatus EXCEPT ![r] = "in_progress"]
          PROVE  procStatus'[q] = "completed"
      <3>1. procStatus[q] = "completed"
        BY <2>1, <2>4 DEF RunsAfterPredecessor, CanStart
      <3>2. q # r
        BY <2>4, <3>1 DEF CanStart
      <3> QED
        BY <2>1, <2>4, <3>1, <3>2
    <2> QED
      BY <2>2, <2>3, <2>4, ProcessMoves
  <1> QED
    BY <1>1, <1>2, Inductive, PTL DEF Spec

(* Whoever puts an order into production finds it approved, and whoever    *)
(* takes the approval back takes the order out of production; the form of  *)
(* the order alone asks nobody, until the next review.                     *)
THEOREM ProductionIsApproved == Spec => []InProductionWasApproved
  <1>1. Init => InProductionWasApproved
    BY DEF Init, InProductionWasApproved, Production
  <1>2. InProductionWasApproved /\ [Next]_vars => InProductionWasApproved'
    <2> SUFFICES ASSUME InProductionWasApproved, [Next]_vars
                 PROVE  InProductionWasApproved'
      OBVIOUS
    <2>1. ASSUME approval' = approval, byHand' = byHand,
                 woStatus' \in {woStatus, "completed"}
          PROVE  InProductionWasApproved'
      BY <2>1 DEF InProductionWasApproved, Production
    <2>2. ASSUME NEW p, NEW tk, NEW led, NEW conf, CheckProcess(p, tk, led, conf)
          PROVE  woStatus' \in {woStatus, "completed"}
      BY <2>2 DEF CheckProcess, CloseProcess
    <2>3. CASE OrderStep
      <3>1. CASE Submit \/ SubmitAutoApproved \/ Approve \/ Reject \/ CheckCompletion
        BY <3>1 DEF Submit, SubmitAutoApproved, Approve, Release, Reject,
                    CheckCompletion, InProductionWasApproved, Production, Reviewable
      <3>2. ASSUME NEW new \in WorkOrderStatuses, UpdateStatus(new)
            PROVE  InProductionWasApproved'
        BY <3>2 DEF UpdateStatus, AllowedTransitions, InProductionWasApproved,
                    Production, Reviewable
      <3>3. ASSUME NEW new \in EditedTo \cup {woStatus}, EditOrder(new)
            PROVE  InProductionWasApproved'
        BY <3>3 DEF EditOrder, InProductionWasApproved, Reviewable
      <3> QED
        BY <2>3, <3>1, <3>2, <3>3 DEF OrderStep
    <2>4. CASE ProcessStep
      BY <2>1, <2>4 DEF ProcessStep, StartProcess, BatchStart, CompleteProcess,
                        ForceCompleteProcess, CloseProcess
    <2>5. CASE TaskStep
      <3>1. ASSUME NEW t \in AllTasks, NEW increment \in Increments,
                   UpdateQuantity(t, increment)
            PROVE  InProductionWasApproved'
        BY <2>1, <2>2, <3>1 DEF UpdateQuantity, TaskOnly
      <3>2. ASSUME NEW t \in AllTasks, CompleteTask(t) PROVE InProductionWasApproved'
        BY <2>1, <2>2, <3>2 DEF CompleteTask, TaskOnly
      <3> QED
        BY <2>1, <2>5, <3>1, <3>2
           DEF TaskStep, CancelTask, DeleteTask, SplitTask, SyncTasks, TaskOnly
    <2>6. CASE SupplyStep
      <3>1. ASSUME NEW t \in Tasks, ConfirmAsset(t) PROVE InProductionWasApproved'
        BY <2>1, <2>2, <3>1 DEF ConfirmAsset
      <3>2. ASSUME NEW t \in Tasks, CutMaterial(t) PROVE InProductionWasApproved'
        BY <2>1, <2>2, <3>2 DEF CutMaterial
      <3> QED
        BY <2>1, <2>6, <3>1, <3>2 DEF SupplyStep, ConfirmPlan, InvalidatePlan
    <2>7. CASE UNCHANGED vars
      BY <2>1, <2>7 DEF vars
    <2> QED
      BY <2>3, <2>4, <2>5, <2>6, <2>7 DEF Next
  <1> QED
    BY <1>1, <1>2, PTL DEF Spec


-----------------------------------------------------------------------------
(* Whoever completes the last task of a process closes the process.        *)

(* A plate task is completed only under a confirmed asset, or by force,    *)
(* which closes its process: so confirming an asset cannot be the step     *)
(* that finishes a process without being noticed.                          *)
PlateInv ==
    \A t \in AllTasks :
      KindOf(t) = "plate" /\ task[t].status = "completed"
        => Root(t) \in confirmed \/ procStatus[ProcessOf(t)] = "completed"

(* The tables tk and new read the same to a check of process q.            *)
Alike(q, tk, new) ==
    \A u \in AllTasks : ProcessOf(u) = q =>
      /\ new[u].status = tk[u].status
      /\ new[u].qty = tk[u].qty
      /\ new[u].target = tk[u].target

LEMMA AlikeDone ==
    ASSUME NEW q \in Procs, NEW tk, NEW new, NEW conf, NEW newconf, Alike(q, tk, new),
           \A u \in AllTasks : ProcessOf(u) = q /\ KindOf(u) = "plate"
             /\ tk[u].status = "completed" /\ Root(u) \in newconf => Root(u) \in conf,
           AllDone(q, new, newconf)
    PROVE  AllDone(q, tk, conf)
  <1>1. \A u \in AllTasks : u \in TasksOf(q, new) <=> u \in TasksOf(q, tk)
    BY DEF Alike, TasksOf
  <1>2. TasksOf(q, new) \subseteq AllTasks /\ TasksOf(q, tk) \subseteq AllTasks
    BY DEF TasksOf
  <1>3. TasksOf(q, new) = TasksOf(q, tk)
    BY <1>1, <1>2
  <1>4. ASSUME NEW u \in TasksOf(q, tk)
        PROVE  /\ tk[u].status = "completed"
               /\ tk[u].qty >= tk[u].target
               /\ KindOf(u) = "plate" => Root(u) \in conf
    <2>1. u \in AllTasks /\ ProcessOf(u) = q
      BY DEF TasksOf
    <2>2. /\ new[u].status = "completed" /\ new[u].qty >= new[u].target
          /\ KindOf(u) = "plate" => Root(u) \in newconf
      BY <1>3 DEF AllDone
    <2> QED
      BY <2>1, <2>2 DEF Alike
  <1> QED
    BY <1>3, <1>4 DEF AllDone

(* Booking what is due changes nothing the check looks at.                 *)
LEMMA SaveAlike ==
    ASSUME NEW p, NEW tk \in [AllTasks -> TaskRow], NEW led, SaveCompleted(p, tk, led), NEW q
    PROVE  Alike(q, tk, task')
  <1>1. ASSUME NEW u \in AllTasks
        PROVE  /\ task'[u].status = tk[u].status
               /\ task'[u].qty = tk[u].qty
               /\ task'[u].target = tk[u].target
    <2>1. task'[u] = [tk[u] EXCEPT !.accounted = @ + Due(p, tk, u)]
      BY DEF SaveCompleted
    <2>2. tk[u] \in TaskRow
      OBVIOUS
    <2> QED
      BY <2>1, <2>2 DEF TaskRow
  <1> QED
    BY <1>1 DEF Alike

LEMMA CheckCloses ==
    ASSUME NEW p \in Procs, NEW tk \in [AllTasks -> TaskRow], NEW led,
           procStatus \in [Procs -> ProcessStatuses],
           CheckProcess(p, tk, led, confirmed'),
           NEW q \in Procs,
           q # p => Alike(q, task, tk) /\ \A u \in AllTasks :
             ProcessOf(u) = q /\ Root(u) \in confirmed' => Root(u) \in confirmed,
           AllDone(q, task', confirmed')
    PROVE  AllDone(q, task, confirmed) \/ procStatus'[q] = "completed"
  <1>1. CASE AllDone(p, tk, confirmed') /\ CloseProcess(p, tk, led)
    <2>1. SaveCompleted(p, tk, led) /\ procStatus' = [procStatus EXCEPT ![p] = "completed"]
      BY <1>1 DEF CloseProcess, SaveCompleted
    <2>2. CASE q = p
      BY <2>1, <2>2
    <2>3. CASE q # p
      <3>1. Alike(q, tk, task')
        BY <2>1, SaveAlike
      <3>2. Alike(q, task, task')
        BY <2>3, <3>1 DEF Alike
      <3> QED
        BY <2>3, <3>2, AlikeDone
    <2> QED
      BY <2>2, <2>3
  <1>2. CASE ~AllDone(p, tk, confirmed') /\ task' = tk
    <2>1. q # p
      BY <1>2
    <2> QED
      BY <1>2, <2>1, AlikeDone
  <1> QED
    BY <1>1, <1>2 DEF CheckProcess

(* A report touches no task of another process.                            *)
LEMMA ReportAlike ==
    ASSUME NEW t \in AllTasks, NEW row, task \in [AllTasks -> TaskRow], row \in TaskRow,
           NEW q, q # ProcessOf(t)
    PROVE  Alike(q, task, RolledUp([task EXCEPT ![t] = row], t))
  <1> DEFINE tk == [task EXCEPT ![t] = row]
             new == RolledUp(tk, t)
  <1>1. ASSUME NEW u \in AllTasks, ProcessOf(u) = q
        PROVE  new[u] = task[u]
    <2>1. u # t /\ tk[u] = task[u]
      BY <1>1
    <2>2. CASE t \in Tasks
      BY <2>1, <2>2 DEF RolledUp
    <2>3. CASE t \notin Tasks
      <3>1. t[1] \in Splittable /\ ProcessOf(t) = ProcessOf(t[1])
        BY <2>3, TaskFacts, KidFacts
      <3>2. u # t[1]
        BY <1>1, <3>1
      <3>3. tk \in [AllTasks -> TaskRow]
        OBVIOUS
      <3> HIDE DEF tk
      <3> QED
        BY <2>1, <2>3, <3>2, <3>3 DEF RolledUp
    <2> QED
      BY <2>2, <2>3
  <1> QED
    BY <1>1 DEF Alike


(* The two facts each handler is shown to respect: a process it finishes   *)
(* is closed, and a plate task it completes has its asset confirmed.       *)
Closes == \A q \in Procs :
    AllDone(q, task', confirmed') /\ deleted' = deleted
      => AllDone(q, task, confirmed) \/ procStatus'[q] = "completed"

PlateKept == \A u \in AllTasks :
    KindOf(u) = "plate" /\ task'[u].status = "completed"
      => \/ task[u].status = "completed"
         \/ Root(u) \in confirmed'
         \/ procStatus'[ProcessOf(u)] = "completed"

(* Handlers that neither complete a task nor confirm an asset: whatever    *)
(* row they change becomes one that is not completed.                      *)
LEMMA HarmlessCloses ==
    ASSUME confirmed' = confirmed,
           \A u \in AllTasks :
             \/ /\ task'[u].status = task[u].status
                /\ task'[u].qty = task[u].qty
                /\ task'[u].target = task[u].target
             \/ task'[u].status \notin {"completed", "absent"}
    PROVE  Closes /\ PlateKept
  <1>1. ASSUME NEW q \in Procs, AllDone(q, task', confirmed')
        PROVE  AllDone(q, task, confirmed)
    <2>1. ASSUME NEW u \in AllTasks, ProcessOf(u) = q, task'[u].status # "absent"
          PROVE  task'[u].status = "completed"
      BY <1>1, <2>1 DEF AllDone, TasksOf
    <2>2. Alike(q, task, task')
      BY <2>1 DEF Alike
    <2> QED
      BY <1>1, <2>2, AlikeDone
  <1> QED
    BY <1>1 DEF Closes, PlateKept

LEMMA GeneratedHarmless ==
    ASSUME NEW P, NEW u \in AllTasks
    PROVE  Generated(P)[u] = task[u] \/ Generated(P)[u].status = "pending"
  BY DEF Generated, Fresh

LEMMA OrderCloses == OrderStep => Closes /\ PlateKept
  <1> SUFFICES ASSUME OrderStep PROVE Closes /\ PlateKept
    OBVIOUS
  <1>1. CASE task' = task /\ confirmed' = confirmed
    BY <1>1, HarmlessCloses
  <1>2. CASE task' = Generated(Procs) /\ confirmed' = confirmed
    BY <1>2, HarmlessCloses, GeneratedHarmless
  <1> QED
    BY <1>1, <1>2 DEF OrderStep, Submit, SubmitAutoApproved, Approve, Release, Reject,
                      CheckCompletion, UpdateStatus, EditOrder, OrderOnly

LEMMA ProcessCloses == IInv /\ ProcessStep => Closes /\ PlateKept
  <1> SUFFICES ASSUME IInv, NEW p \in Procs,
                      \/ StartProcess(p) \/ BatchStart(p)
                      \/ CompleteProcess(p) \/ ForceCompleteProcess(p)
               PROVE  Closes /\ PlateKept
    BY DEF ProcessStep
  <1>1. GoodTable(task, outgrown) /\ procStatus \in [Procs -> ProcessStatuses]
        /\ task \in [AllTasks -> TaskRow]
    BY DEF IInv, TypeOK
  <1>2. CASE StartProcess(p)
    BY <1>2, HarmlessCloses DEF StartProcess
  <1>3. CASE BatchStart(p)
    BY <1>3, HarmlessCloses, GeneratedHarmless DEF BatchStart
  <1>4. ASSUME NEW tk \in [AllTasks -> TaskRow], SaveCompleted(p, tk, ledger),
               confirmed' = confirmed,
               \A u \in AllTasks : ProcessOf(u) # p => tk[u] = task[u]
        PROVE  Closes /\ PlateKept
    <2>1. procStatus'[p] = "completed"
      BY <1>1, <1>4 DEF SaveCompleted
    <2>2. ASSUME NEW q \in Procs \ {p} PROVE Alike(q, task, task')
      <3>1. Alike(q, tk, task')
        BY <1>4, SaveAlike
      <3> QED
        BY <1>4, <3>1 DEF Alike
    <2>3. Closes
      BY <1>4, <2>1, <2>2, AlikeDone DEF Closes
    <2>4. PlateKept
      <3> SUFFICES ASSUME NEW u \in AllTasks, KindOf(u) = "plate",
                          task'[u].status = "completed", ProcessOf(u) # p
                   PROVE  task[u].status = "completed"
        BY <2>1 DEF PlateKept
      <3>1. ProcessOf(u) \in Procs \ {p}
        BY TaskFacts
      <3> QED
        BY <2>2, <3>1 DEF Alike
    <2> QED
      BY <2>3, <2>4
  <1>5. CASE CompleteProcess(p)
    BY <1>1, <1>4, <1>5 DEF CompleteProcess, CloseProcess
  <1>6. CASE ForceCompleteProcess(p)
    <2> DEFINE left == {t \in TasksOf(p, task) : task[t].status # "completed"}
               tk == [t \in AllTasks |->
                        IF t \in left
                        THEN [task[t] EXCEPT !.status = "completed",
                                             !.qty = IF @ = 0 THEN task[t].target ELSE @]
                        ELSE task[t]]
    <2>1. SaveCompleted(p, tk, ledger) /\ confirmed' = confirmed
      BY <1>6 DEF ForceCompleteProcess, CloseProcess
    <2>2. \A u \in AllTasks : ProcessOf(u) # p => tk[u] = task[u]
      BY DEF TasksOf
    <2>3. ASSUME NEW u \in AllTasks PROVE tk[u] \in TaskRow
      <3>1. task[u] \in TaskRow
        BY <1>1
      <3>2. (IF task[u].qty = 0 THEN task[u].target ELSE task[u].qty) \in Nat
        BY <3>1 DEF TaskRow
      <3> QED
        BY <3>1, <3>2 DEF TaskRow, TaskStatuses
    <2>4. tk \in [AllTasks -> TaskRow]
      BY <2>3
    <2> HIDE DEF tk
    <2> QED
      BY <1>4, <2>1, <2>2, <2>4
  <1> QED
    BY <1>2, <1>3, <1>5, <1>6

(* Reports on a plate task need its asset; all of them end in the check.   *)
LEMMA ReportCloses ==
    ASSUME IInv, NEW t \in AllTasks, NEW row \in TaskRow, Ready(t), NEW led,
           confirmed' = confirmed,
           CheckProcess(ProcessOf(t), RolledUp([task EXCEPT ![t] = row], t), led, confirmed),
           GoodTable(RolledUp([task EXCEPT ![t] = row], t), outgrown)
    PROVE  Closes /\ PlateKept
  <1> DEFINE p == ProcessOf(t)
             tk == RolledUp([task EXCEPT ![t] = row], t)
  <1>1. /\ procStatus \in [Procs -> ProcessStatuses] /\ p \in Procs
        /\ task \in [AllTasks -> TaskRow] /\ tk \in [AllTasks -> TaskRow]
    BY TaskFacts DEF IInv, TypeOK, GoodTable
  <1>2. \A q \in Procs : q # p => Alike(q, task, tk)
    BY <1>1, ReportAlike
  <1>3. CheckProcess(p, tk, led, confirmed')
    OBVIOUS
  <1> HIDE DEF tk
  <1>4. Closes
    <2> SUFFICES ASSUME NEW q \in Procs, AllDone(q, task', confirmed')
                 PROVE  AllDone(q, task, confirmed) \/ procStatus'[q] = "completed"
      BY DEF Closes
    <2> QED
      BY <1>1, <1>2, <1>3, CheckCloses
  <1>5. ASSUME NEW u \in AllTasks PROVE task'[u].status = tk[u].status
    <2>1. CASE SaveCompleted(p, tk, led)
      <3>1. Alike(ProcessOf(u), tk, task')
        BY <1>1, <2>1, SaveAlike
      <3> QED
        BY <3>1 DEF Alike
    <2>2. CASE task' = tk
      BY <2>2
    <2> QED
      BY <1>3, <2>1, <2>2 DEF CheckProcess, CloseProcess
  <1>6. ASSUME NEW u \in AllTasks, KindOf(u) = "plate", task'[u].status = "completed",
               task[u].status # "completed"
        PROVE  Root(u) \in confirmed'
    <2>1. u = t \/ (t \notin Tasks /\ u = t[1])
      <3>1. SUFFICES ASSUME u # t, t \in Tasks \/ u # t[1]
                     PROVE  tk[u] = task[u]
        BY <1>5, <1>6
      <3> QED
        BY <1>1, <3>1 DEF tk, RolledUp
    <2>2. Root(u) = Root(t)
      BY <2>1, TaskFacts, KidFacts DEF Root
    <2>3. KindOf(t) = "plate"
      BY <1>6, <2>2 DEF KindOf, ProcessOf
    <2> QED
      BY <2>2, <2>3 DEF Ready
  <1> QED
    BY <1>4, <1>6 DEF PlateKept


LEMMA TaskCloses == IInv /\ TaskStep => Closes /\ PlateKept
  <1> SUFFICES ASSUME IInv, TaskStep PROVE Closes /\ PlateKept
    OBVIOUS
  <1>0. task \in [AllTasks -> TaskRow]
    BY DEF IInv, TypeOK
  <1>1. ASSUME NEW t \in AllTasks, NEW increment \in Increments, UpdateQuantity(t, increment)
        PROVE  Closes /\ PlateKept
    <2> DEFINE row == ReportedRow(t, task[t].qty + increment)
               led == ReportedBooks(t, task[t].qty + increment)
    <2>1. /\ row \in TaskRow
          /\ GoodTable(RolledUp([task EXCEPT ![t] = row], t), outgrown)
          /\ CheckProcess(ProcessOf(t), RolledUp([task EXCEPT ![t] = row], t), led, confirmed)
      BY <1>1, UpdateQuantityReport
    <2>2. Ready(t) /\ confirmed' = confirmed
      BY <1>1 DEF UpdateQuantity, TaskOnly
    <2> HIDE DEF row, led
    <2> QED
      BY <2>1, <2>2, ReportCloses
  <1>2. ASSUME NEW t \in AllTasks, CompleteTask(t) PROVE Closes /\ PlateKept
    <2> DEFINE row == CompletedRow(t)
    <2>1. /\ row \in TaskRow
          /\ GoodTable(RolledUp([task EXCEPT ![t] = row], t), outgrown)
          /\ CheckProcess(ProcessOf(t), RolledUp([task EXCEPT ![t] = row], t),
                          ledger, confirmed)
      BY <1>2, CompleteTaskReport
    <2>2. Ready(t) /\ confirmed' = confirmed
      BY <1>2 DEF CompleteTask, TaskOnly
    <2> HIDE DEF row
    <2> QED
      BY <2>1, <2>2, ReportCloses
  <1>3. ASSUME NEW t \in AllTasks, CancelTask(t) PROVE Closes /\ PlateKept
    <2>1. ASSUME NEW u \in AllTasks
          PROVE  task'[u] = task[u] \/ task'[u].status = "cancelled"
      <3>1. task[t] \in TaskRow
        BY <1>0, <1>3
      <3> QED
        BY <1>0, <1>3, <3>1 DEF CancelTask, TaskRow
    <2> QED
      BY <1>3, <2>1, HarmlessCloses DEF CancelTask, TaskOnly
  <1>4. ASSUME NEW t \in AllTasks, DeleteTask(t) PROVE Closes /\ PlateKept
    <2>1. t \in deleted' /\ t \notin deleted /\ confirmed' = confirmed
      BY <1>4 DEF DeleteTask, Family
    <2>2. Closes
      BY <2>1 DEF Closes
    <2>3. \A u \in AllTasks : task'[u] = task[u] \/ task'[u].status = "absent"
      BY <1>4 DEF DeleteTask, Absent
    <2> QED
      BY <2>2, <2>3 DEF PlateKept
  <1>5. ASSUME NEW t \in Splittable, NEW q1 \in SplitSizes, NEW q2 \in SplitSizes,
               SplitTask(t, q1, q2)
        PROVE  Closes /\ PlateKept
    <2> DEFINE left == <<t, 1>>
               right == <<t, 2>>
    <2>1. /\ left \in AllTasks /\ right \in AllTasks /\ t \in AllTasks
          /\ left # right /\ t # left /\ t # right
      BY KidFacts DEF AllTasks
    <2>2. task[t] \in TaskRow /\ task[t].status \notin {"absent", "completed"}
      BY <1>0, <1>5, <2>1 DEF SplitTask, Exists
    <2>3. confirmed' = confirmed
      BY <1>5 DEF SplitTask
    <2> DEFINE s == IF task[t].status = "pending" THEN "in_progress" ELSE task[t].status
               row == [task[t] EXCEPT !.status = s]
    <2>4. row.status = s /\ s \notin {"absent", "completed"}
      BY <2>2 DEF TaskRow
    <2>5. Fresh(q1).status = "pending" /\ Fresh(q2).status = "pending"
      BY DEF Fresh
    <2>6. \/ task' = [task EXCEPT ![left] = Fresh(q1), ![right] = Fresh(q2), ![t] = row]
          \/ task' = [task EXCEPT ![left] = Fresh(q1)]
      BY <1>0, <1>5, <2>1 DEF SplitTask
    <2> HIDE DEF left, right, row, s
    <2>7. ASSUME NEW u \in AllTasks
          PROVE  task'[u] = task[u] \/ task'[u].status \notin {"completed", "absent"}
      BY <1>0, <2>1, <2>4, <2>5, <2>6
    <2> QED
      BY <2>3, <2>7, HarmlessCloses
  <1>6. ASSUME NEW removed \in SUBSET Procs, SyncTasks(removed)
        PROVE  Closes /\ PlateKept
    <2>1. /\ confirmed' = confirmed
          /\ \A u \in AllTasks :
               task'[u] = IF ProcessOf(u) \in removed THEN Absent
                          ELSE Generated(Procs \ removed)[u]
      BY <1>6 DEF SyncTasks
    <2>2. ASSUME NEW u \in AllTasks, ProcessOf(u) \notin removed
          PROVE  task'[u] = task[u] \/ task'[u].status = "pending"
      BY <2>1, <2>2, GeneratedHarmless
    <2>3. ASSUME NEW q \in Procs, AllDone(q, task', confirmed')
          PROVE  AllDone(q, task, confirmed)
      <3>1. \A u \in AllTasks : ProcessOf(u) = q /\ task'[u].status # "absent"
              => task'[u].status = "completed"
        BY <2>3 DEF AllDone, TasksOf
      <3>2. q \notin removed
        BY <2>1, <2>3 DEF AllDone, TasksOf, Absent
      <3>3. Alike(q, task, task')
        BY <2>2, <3>1, <3>2 DEF Alike
      <3> QED
        BY <2>1, <2>3, <3>3, AlikeDone
    <2>4. PlateKept
      BY <2>1, <2>2 DEF PlateKept, Absent
    <2> QED
      BY <2>3, <2>4 DEF Closes
  <1> QED
    BY <1>1, <1>2, <1>3, <1>4, <1>5, <1>6 DEF TaskStep

LEMMA ConfirmAssetCloses ==
    ASSUME IInv, PlateInv, NEW t \in Tasks, ConfirmAsset(t)
    PROVE  Closes /\ PlateKept
  <1> DEFINE p == ProcOf[t]
             hit == {u \in Family(t) :
                       /\ Exists(u)
                       /\ \/ procStatus[p] = "in_progress"
                          \/ task[u].status \in Open /\ task[u].qty < 1}
             tk == [u \in AllTasks |->
                      IF u \in hit
                      THEN [task[u] EXCEPT !.status = "completed", !.qty = 1]
                      ELSE task[u]]
  <1>1. /\ task \in [AllTasks -> TaskRow] /\ procStatus \in [Procs -> ProcessStatuses]
        /\ p \in Procs
    BY TaskAssumption DEF IInv, TypeOK
  <1>2. /\ Kind[p] = "plate" /\ t \notin confirmed
        /\ confirmed' = confirmed \cup {t}
        /\ \/ hit # {} /\ CheckProcess(p, tk, ledger, confirmed')
           \/ hit = {} /\ UNCHANGED <<woStatus, procStatus, task, ledger, batch>>
    BY DEF ConfirmAsset
  <1>3. ASSUME NEW u \in AllTasks, Root(u) = t
        PROVE  u \in Family(t) /\ ProcessOf(u) = p
    BY <1>3, TaskFacts DEF Root, Family, Kids, ProcessOf
  <1>4. \A u \in Family(t) : Root(u) = t /\ ProcessOf(u) = p
    BY KidFacts DEF Family, Kids, Root, ProcessOf
  <1>5. tk \in [AllTasks -> TaskRow]
    <2>1. ASSUME NEW u \in AllTasks PROVE tk[u] \in TaskRow
      <3>1. task[u] \in TaskRow
        BY <1>1
      <3>2. [task[u] EXCEPT !.status = "completed", !.qty = 1] \in TaskRow
        BY <3>1 DEF TaskRow, TaskStatuses
      <3> QED
        BY <3>1, <3>2
    <2> QED
      BY <2>1
  <1>6. CASE CheckProcess(p, tk, ledger, confirmed')
    <2>1. ASSUME NEW q \in Procs, q # p
          PROVE  /\ Alike(q, task, tk)
                 /\ \A u \in AllTasks :
                      ProcessOf(u) = q /\ Root(u) \in confirmed' => Root(u) \in confirmed
      <3>1. \A u \in AllTasks : ProcessOf(u) = q => u \notin hit
        BY <1>4, <2>1
      <3>2. \A u \in AllTasks : ProcessOf(u) = q => tk[u] = task[u]
        BY <3>1
      <3>3. \A u \in AllTasks : ProcessOf(u) = q => Root(u) # t
        BY <1>3, <2>1
      <3> HIDE DEF tk, hit
      <3> QED
        BY <1>2, <3>2, <3>3 DEF Alike
    <2>2. ASSUME NEW u \in AllTasks, u \notin hit PROVE tk[u] = task[u]
      BY <2>2
    <2>3. \A u \in hit : Root(u) = t
      BY <1>4
    <2> HIDE DEF tk, hit
    <2>4. Closes
      <3> SUFFICES ASSUME NEW q \in Procs, AllDone(q, task', confirmed')
                   PROVE  AllDone(q, task, confirmed) \/ procStatus'[q] = "completed"
        BY DEF Closes
      <3> QED
        BY <1>1, <1>5, <1>6, <2>1, CheckCloses
    <2>5. ASSUME NEW u \in AllTasks PROVE task'[u].status = tk[u].status
      <3>1. CASE SaveCompleted(p, tk, ledger)
        <4>1. Alike(ProcessOf(u), tk, task')
          BY <1>5, <3>1, SaveAlike
        <4> QED
          BY <4>1 DEF Alike
      <3> QED
        BY <1>6, <3>1 DEF CheckProcess, CloseProcess
    <2> QED
      BY <1>2, <2>2, <2>3, <2>4, <2>5 DEF PlateKept
  <1>7. CASE hit = {} /\ UNCHANGED <<woStatus, procStatus, task, ledger, batch>>
    <2>1. ASSUME NEW q \in Procs, AllDone(q, task', confirmed')
          PROVE  AllDone(q, task, confirmed) \/ procStatus'[q] = "completed"
      <3>1. CASE \E u \in Family(t) : u \in TasksOf(q, task)
        <4>1. PICK u \in Family(t) : u \in TasksOf(q, task)
          BY <3>1
        <4>2. u \in AllTasks /\ task[u].status = "completed" /\ KindOf(u) = "plate"
              /\ ProcessOf(u) = q /\ Root(u) = t
          BY <1>2, <1>4, <1>7, <2>1, <4>1 DEF AllDone, TasksOf, KindOf
        <4>3. procStatus[q] = "completed"
          BY <1>2, <4>2 DEF PlateInv
        <4> QED
          BY <1>7, <4>3
      <3>2. CASE ~ \E u \in Family(t) : u \in TasksOf(q, task)
        <4>1. \A u \in TasksOf(q, task) : Root(u) # t
          BY <1>3, <3>2 DEF TasksOf
        <4>2. \A u \in TasksOf(q, task) : Root(u) \in confirmed' => Root(u) \in confirmed
          BY <1>2, <4>1
        <4>3. AllDone(q, task, confirmed')
          BY <1>7, <2>1
        <4> QED
          BY <4>2, <4>3 DEF AllDone
      <3> QED
        BY <3>1, <3>2
    <2> QED
      BY <1>7, <2>1 DEF Closes, PlateKept
  <1> QED
    BY <1>2, <1>6, <1>7


LEMMA CutMaterialCloses ==
    ASSUME IInv, NEW t \in Tasks, CutMaterial(t)
    PROVE  Closes /\ PlateKept
  <1> DEFINE p == ProcOf[t]
             tk == AfterCut(t)
  <1>1. /\ task \in [AllTasks -> TaskRow] /\ procStatus \in [Procs -> ProcessStatuses]
        /\ p \in Procs /\ Usage[t] \in Nat /\ KindOf(t) = "cut" /\ confirmed' = confirmed
    BY TaskAssumption DEF IInv, TypeOK, CutMaterial
  <1>2. ASSUME NEW u \in AllTasks
        PROVE  /\ tk[u] \in TaskRow
               /\ \/ tk[u] = task[u]
                  \/ /\ u \in ReachedByCut(t)
                     /\ tk[u].status = IF u \in FullWhenCut(t) THEN "completed"
                                       ELSE "in_progress"
    <2>1. task[u] \in TaskRow
      BY <1>1
    <2>2. CASE u \in ReachedByCut(t)
      <3> DEFINE s == IF u \in FullWhenCut(t) THEN "completed" ELSE "in_progress"
      <3>1. tk[u] = [task[u] EXCEPT !.qty = Usage[t], !.status = s]
        BY <2>2 DEF AfterCut
      <3>2. s \in TaskStatuses
        BY DEF TaskStatuses
      <3> HIDE DEF tk, s
      <3>3. tk[u] \in TaskRow /\ tk[u].status = s
        BY <1>1, <2>1, <3>1, <3>2 DEF TaskRow
      <3> QED
        BY <2>2, <3>3 DEF s
    <2>3. CASE u \notin ReachedByCut(t)
      BY <2>1, <2>3 DEF AfterCut
    <2> QED
      BY <2>2, <2>3
  <1>3. tk \in [AllTasks -> TaskRow]
    BY <1>2 DEF AfterCut
  <1>4. \A u \in ReachedByCut(t) : ProcessOf(u) = p /\ KindOf(u) = "cut"
    BY ZenonT(30), <1>1, KidFacts DEF ReachedByCut, Family, Kids, Root, ProcessOf, KindOf
  <1> HIDE DEF tk
  <1>5. CASE CheckProcess(p, tk, ledger, confirmed)
    <2>1. \A q \in Procs : q # p => Alike(q, task, tk)
      BY <1>2, <1>4 DEF Alike
    <2>2. Closes
      <3> SUFFICES ASSUME NEW q \in Procs, AllDone(q, task', confirmed')
                   PROVE  AllDone(q, task, confirmed) \/ procStatus'[q] = "completed"
        BY DEF Closes
      <3> QED
        BY <1>1, <1>3, <1>5, <2>1, CheckCloses
    <2>3. ASSUME NEW u \in AllTasks PROVE task'[u].status = tk[u].status
      <3>1. CASE SaveCompleted(p, tk, ledger)
        <4>1. Alike(ProcessOf(u), tk, task')
          BY <1>3, <3>1, SaveAlike
        <4> QED
          BY <4>1 DEF Alike
      <3> QED
        BY <1>5, <3>1 DEF CheckProcess, CloseProcess
    <2>4. PlateKept
      BY <1>2, <1>4, <2>3 DEF PlateKept
    <2> QED
      BY <2>2, <2>4
  <1>6. CASE FullWhenCut(t) = {} /\ task' = tk
    <2>1. ASSUME NEW u \in AllTasks
          PROVE  task'[u] = task[u] \/ task'[u].status = "in_progress"
      BY <1>2, <1>6
    <2> QED
      BY <1>1, <2>1, HarmlessCloses
  <1> QED
    BY <1>5, <1>6 DEF CutMaterial, tk

LEMMA SupplyCloses == IInv /\ PlateInv /\ SupplyStep => Closes /\ PlateKept
  <1> SUFFICES ASSUME IInv, PlateInv, NEW t \in Tasks,
                      \/ ConfirmAsset(t) \/ CutMaterial(t)
                      \/ ConfirmPlan(t) \/ InvalidatePlan(t)
               PROVE  Closes /\ PlateKept
    BY DEF SupplyStep
  <1>1. CASE ConfirmPlan(t) \/ InvalidatePlan(t)
    BY <1>1, HarmlessCloses DEF ConfirmPlan, InvalidatePlan
  <1> QED
    BY <1>1, ConfirmAssetCloses, CutMaterialCloses

LEMMA StepCloses == IInv /\ PlateInv /\ [Next]_vars => Closes /\ PlateKept
  <1> SUFFICES ASSUME IInv, PlateInv, [Next]_vars PROVE Closes /\ PlateKept
    OBVIOUS
  <1>1. CASE Next
    BY <1>1, OrderCloses, ProcessCloses, TaskCloses, SupplyCloses DEF Next
  <1>2. CASE UNCHANGED vars
    BY <1>2, HarmlessCloses DEF vars
  <1> QED
    BY <1>1, <1>2

(* Confirmations are never withdrawn.                                      *)
LEMMA ConfirmedGrows == [Next]_vars => confirmed \subseteq confirmed'
  <1> SUFFICES ASSUME [Next]_vars PROVE confirmed \subseteq confirmed'
    OBVIOUS
  <1>1. CASE OrderStep
    BY <1>1 DEF OrderStep, Submit, SubmitAutoApproved, Approve, Release, Reject,
                CheckCompletion, UpdateStatus, EditOrder, OrderOnly
  <1>2. CASE ProcessStep
    BY <1>2 DEF ProcessStep, StartProcess, BatchStart, CompleteProcess,
                ForceCompleteProcess
  <1>3. CASE TaskStep
    BY <1>3 DEF TaskStep, UpdateQuantity, CompleteTask, CancelTask, DeleteTask,
                SplitTask, SyncTasks, TaskOnly
  <1>4. CASE SupplyStep
    BY <1>4 DEF SupplyStep, ConfirmAsset, CutMaterial, ConfirmPlan, InvalidatePlan
  <1>5. CASE UNCHANGED vars
    BY <1>5 DEF vars
  <1> QED
    BY <1>1, <1>2, <1>3, <1>4, <1>5 DEF Next

LEMMA PlateStep == IInv /\ PlateInv /\ [Next]_vars => PlateInv'
  <1> SUFFICES ASSUME IInv, PlateInv, [Next]_vars, NEW u \in AllTasks,
                      KindOf(u) = "plate", task'[u].status = "completed"
               PROVE  Root(u) \in confirmed' \/ procStatus'[ProcessOf(u)] = "completed"
    BY DEF PlateInv
  <1>1. /\ task[u].status = "completed" \/ Root(u) \in confirmed'
             \/ procStatus'[ProcessOf(u)] = "completed"
    BY StepCloses DEF PlateKept
  <1>2. confirmed \subseteq confirmed'
    BY ConfirmedGrows
  <1>3. procStatus[ProcessOf(u)] = "completed" => procStatus'[ProcessOf(u)] = "completed"
    BY ProcessMoves, TaskFacts DEF IInv, TypeOK, CanStart
  <1> QED
    BY <1>1, <1>2, <1>3 DEF PlateInv

(* No request completes the last open task of a process and leaves the     *)
(* process open, whichever of the seven ways it took.                      *)
THEOREM FinishedIsClosed == Spec => FinishedProcessIsClosed
  <1>1. Init => PlateInv
    BY DEF Init, PlateInv, Absent
  <1>2. Spec => []PlateInv
    BY <1>1, PlateStep, Inductive, PTL DEF Spec
  <1>3. IInv /\ PlateInv /\ [Next]_vars
          => [\A p \in Procs :
                /\ ~AllDone(p, task, confirmed)
                /\ AllDone(p, task, confirmed)'
                /\ deleted' = deleted
                => procStatus'[p] = "completed"]_vars
    BY StepCloses DEF Closes, AllDone, TasksOf
  <1> QED
    BY <1>2, <1>3, Inductive, PTL DEF Spec, FinishedProcessIsClosed

-----------------------------------------------------------------------------
(* Nothing is booked that was not reported.                                *)

(* Every product line orders at least one piece.  Of a task with target 0, *)
(* any quantity can be reported and booked, and completing the task then   *)
(* sets the quantity back to 0.                                            *)
PackedInUnits == \A t \in Tasks : Kind[ProcOf[t]] = "pack" => Target[t] > 0

(* No subtask of t exists, or was deleted: the quantity of t is its own    *)
(* report.  Only packaging tasks have a product, and book it.              *)
Exempt == deleted \cup {<<r, 1>> : r \in outgrown}
Unsplit(t, tk, del) == \A u \in Kids(t) : tk[u].status = "absent" /\ u \notin del
Covered(t, tk, del) ==
    IF KindOf(t) = "pack"
    THEN Unsplit(t, tk, del) => tk[t].accounted <= tk[t].qty
    ELSE tk[t].accounted = 0
CoveredTable(tk, del) == \A t \in AllTasks : Covered(t, tk, del)

LEMMA KidsAreTasks ==
    ASSUME NEW t \in AllTasks, NEW u \in Kids(t)
    PROVE  u \in AllTasks /\ u \notin Tasks /\ KindOf(u) = KindOf(t)
  BY KidFacts DEF Kids

(* Rows are rewritten, none is created or deleted.                         *)
LEMMA RewrittenCovered ==
    ASSUME NEW tk, NEW new, NEW del, CoveredTable(tk, del),
           \A t \in AllTasks :
             /\ new[t].status = "absent" <=> tk[t].status = "absent"
             /\ KindOf(t) # "pack" => new[t].accounted = tk[t].accounted
             /\ /\ KindOf(t) = "pack" /\ Unsplit(t, tk, del)
                /\ tk[t].accounted <= tk[t].qty
                => new[t].accounted <= new[t].qty
    PROVE  CoveredTable(new, del)
  <1>1. ASSUME NEW t \in AllTasks, Unsplit(t, new, del)
        PROVE  Unsplit(t, tk, del)
    BY <1>1, KidsAreTasks DEF Unsplit
  <1> QED
    BY <1>1 DEF CoveredTable, Covered

(* Closing a process books up to the reported quantity.                    *)
LEMMA SaveCovered ==
    ASSUME NEW p, NEW tk \in [AllTasks -> TaskRow], NEW led,
           CoveredTable(tk, Exempt), SaveCompleted(p, tk, led)
    PROVE  CoveredTable(task', Exempt)
  <1>1. ASSUME NEW t \in AllTasks
        PROVE  /\ task'[t].status = tk[t].status
               /\ task'[t].qty = tk[t].qty
               /\ task'[t].accounted = tk[t].accounted + Due(p, tk, t)
    <2>1. task'[t] = [tk[t] EXCEPT !.accounted = @ + Due(p, tk, t)]
      BY DEF SaveCompleted
    <2>2. tk[t] \in TaskRow
      OBVIOUS
    <2> QED
      BY <2>1, <2>2 DEF TaskRow
  <1>2. ASSUME NEW t \in AllTasks
        PROVE  /\ tk[t].accounted \in Nat /\ tk[t].qty \in Nat
               /\ KindOf(t) # "pack" => Due(p, tk, t) = 0
               /\ tk[t].accounted <= tk[t].qty =>
                    tk[t].accounted + Due(p, tk, t) <= tk[t].qty
    <2>1. tk[t] \in TaskRow
      OBVIOUS
    <2>2. tk[t].accounted \in Nat /\ tk[t].qty \in Nat
      BY <2>1 DEF TaskRow
    <2>3. Due(p, tk, t) \in {0, tk[t].qty - tk[t].accounted}
      BY DEF Due
    <2>4. KindOf(t) # "pack" => Due(p, tk, t) = 0
      BY DEF Due, TasksOf, KindOf
    <2> QED
      BY <2>2, <2>3, <2>4
  <1> QED
    BY <1>1, <1>2, RewrittenCovered

LEMMA CheckCovered ==
    ASSUME NEW p, NEW tk \in [AllTasks -> TaskRow], NEW led, NEW conf,
           CoveredTable(tk, Exempt), CheckProcess(p, tk, led, conf)
    PROVE  CoveredTable(task', Exempt)
  BY SaveCovered DEF CheckProcess, CloseProcess

(* Summing up touches a parent whose quantity is no longer its own.        *)
LEMMA RolledCovered ==
    ASSUME NEW tk \in [AllTasks -> TaskRow], NEW t \in AllTasks, NEW del,
           tk[t].status # "absent", CoveredTable(tk, del)
    PROVE  CoveredTable(RolledUp(tk, t), del)
  <1>1. CASE t \in Tasks
    BY <1>1 DEF RolledUp
  <1>2. CASE t \notin Tasks
    <2> DEFINE r == t[1]
               new == RolledUp(tk, t)
               q == tk[<<r, 1>>].qty + tk[<<r, 2>>].qty
               s == IF \A u \in Kids(r) : tk[u].status \in {"absent", "completed"}
                    THEN "completed"
                    ELSE IF tk[r].status = "completed" THEN "in_progress"
                    ELSE tk[r].status
    <2>1. r \in Splittable /\ r \in Tasks /\ r \in AllTasks /\ t \in Kids(r)
      BY <1>2, TaskFacts, KidFacts DEF Kids, AllTasks
    <2>2. new = [tk EXCEPT ![r].qty = q, ![r].status = s]
      BY <1>2, <2>1 DEF RolledUp, TaskRow
    <2> HIDE DEF new, q, s
    <2>3. /\ \A u \in AllTasks \ {r} : new[u] = tk[u]
          /\ new[r].accounted = tk[r].accounted
      BY <2>1, <2>2 DEF TaskRow
    <2>4. ASSUME NEW u \in AllTasks PROVE Covered(u, new, del)
      <3>1. \A v \in Kids(u) : new[v] = tk[v]
        BY <2>1, <2>3, KidsAreTasks
      <3>2. CASE u = r
        <4>1. new[t].status # "absent"
          BY <1>2, <2>1, <2>3
        <4>2. ~Unsplit(u, new, del)
          BY <2>1, <3>2, <4>1 DEF Unsplit
        <4> QED
          BY <2>3, <3>2, <4>2 DEF CoveredTable, Covered
      <3>3. CASE u # r
        BY <2>3, <3>1, <3>3 DEF CoveredTable, Covered, Unsplit
      <3> QED
        BY <3>2, <3>3
    <2> QED
      BY <2>4 DEF CoveredTable, new
  <1> QED
    BY <1>1, <1>2

(* A report writes one existing row; then the parent, then the process.    *)
LEMMA ReportCovered ==
    ASSUME NEW t \in AllTasks, task \in [AllTasks -> TaskRow], Exists(t),
           CoveredTable(task, Exempt),
           NEW row \in TaskRow, row.status # "absent",
           KindOf(t) # "pack" => row.accounted = task[t].accounted,
           /\ KindOf(t) = "pack" /\ Unsplit(t, task, Exempt)
              /\ task[t].accounted <= task[t].qty
              => row.accounted <= row.qty,
           NEW led, NEW conf,
           CheckProcess(ProcessOf(t), RolledUp([task EXCEPT ![t] = row], t), led, conf),
           RolledUp([task EXCEPT ![t] = row], t) \in [AllTasks -> TaskRow]
    PROVE  CoveredTable(task', Exempt)
  <1> DEFINE tk == [task EXCEPT ![t] = row]
  <1>1. /\ tk \in [AllTasks -> TaskRow] /\ tk[t] = row
        /\ \A u \in AllTasks \ {t} : tk[u] = task[u]
    OBVIOUS
  <1> HIDE DEF tk
  <1>2. CoveredTable(tk, Exempt)
    BY <1>1, RewrittenCovered DEF Exists
  <1>3. CoveredTable(RolledUp(tk, t), Exempt)
    BY <1>1, <1>2, RolledCovered
  <1> QED
    BY <1>3, CheckCovered DEF tk

LEMMA UpdateQuantityCovered ==
    ASSUME IInv, CoveredTable(task, Exempt), NEW t \in AllTasks,
           NEW increment \in Increments, UpdateQuantity(t, increment)
    PROVE  CoveredTable(task', Exempt')
  <1> DEFINE q == task[t].qty + increment
             row == ReportedRow(t, q)
             tk == RolledUp([task EXCEPT ![t] = row], t)
  <1>1. /\ row \in TaskRow /\ tk \in [AllTasks -> TaskRow]
        /\ CheckProcess(ProcessOf(t), tk, ReportedBooks(t, q), confirmed)
    BY UpdateQuantityReport DEF GoodTable
  <1>2. /\ task \in [AllTasks -> TaskRow] /\ task[t] \in TaskRow
        /\ Exists(t) /\ Exempt' = Exempt
    BY DEF IInv, GoodTable, UpdateQuantity, TaskOnly, Exempt
  <1>3. /\ row.qty = q
        /\ row.accounted = task[t].accounted + Owed(t, q)
        /\ row.status = StatusAfter(task[t], q)
    BY <1>2 DEF ReportedRow, TaskRow
  <1>4. StatusAfter(task[t], q) # "absent"
    BY <1>2 DEF StatusAfter, Exists
  <1>5. /\ KindOf(t) # "pack" => row.accounted = task[t].accounted
        /\ KindOf(t) = "pack" => row.accounted <= row.qty
    <2>1. q \in Int /\ task[t].accounted \in Nat
      BY <1>2, TaskAssumption DEF TaskRow
    <2> HIDE DEF q, row
    <2> QED
      BY <1>3, <2>1 DEF Owed
  <1> HIDE DEF row, q
  <1> QED
    BY <1>1, <1>2, <1>3, <1>4, <1>5, ReportCovered

(* Completing a task reports its whole target, which is not less than what *)
(* was reported before.                                                    *)
LEMMA CompleteTaskCovered ==
    ASSUME PackedInUnits, IInv, CoveredTable(task, Exempt), NEW t \in AllTasks,
           CompleteTask(t)
    PROVE  CoveredTable(task', Exempt')
  <1> DEFINE row == CompletedRow(t)
             tk == RolledUp([task EXCEPT ![t] = row], t)
  <1>1. /\ row \in TaskRow /\ tk \in [AllTasks -> TaskRow]
        /\ CheckProcess(ProcessOf(t), tk, ledger, confirmed)
    BY CompleteTaskReport DEF GoodTable
  <1>2. /\ task \in [AllTasks -> TaskRow] /\ task[t] \in TaskRow /\ GoodRow(t, task[t], outgrown)
        /\ Exists(t) /\ Exempt' = Exempt
    BY DEF IInv, GoodTable, CompleteTask, TaskOnly, Exempt
  <1>3. /\ row.accounted = task[t].accounted
        /\ row.status = "completed"
        /\ KindOf(t) = "pack" => row.qty = task[t].target
    BY <1>2 DEF CompletedRow, TaskRow
  <1>4. KindOf(t) = "pack" /\ Unsplit(t, task, Exempt) => task[t].qty <= task[t].target
    <2> SUFFICES ASSUME KindOf(t) = "pack", Unsplit(t, task, Exempt)
                 PROVE  task[t].qty <= task[t].target
      OBVIOUS
    <2>3. t \in Subs \/ t \notin outgrown
      <3> SUFFICES ASSUME t \in outgrown PROVE FALSE
        OBVIOUS
      <3>1. <<t, 1>> \in Exempt /\ t \in Splittable
        BY DEF Exempt, IInv, TypeOK
      <3> QED
        BY <3>1 DEF Unsplit, Kids
    <2> SUFFICES task[t].target > 0
      BY <1>2, <2>3 DEF GoodRow
    <2>1. CASE t \in Tasks
      BY <1>2, <2>1 DEF GoodRow, Exists, PackedInUnits, KindOf, ProcessOf, Root
    <2>2. CASE t \in Subs
      BY <1>2, <2>2 DEF GoodRow, Exists
    <2> QED
      BY <2>1, <2>2 DEF AllTasks
  <1>5. KindOf(t) = "pack" /\ Unsplit(t, task, Exempt)
          /\ task[t].accounted <= task[t].qty => row.accounted <= row.qty
    BY <1>2, <1>3, <1>4 DEF TaskRow
  <1> HIDE DEF row
  <1> QED
    BY <1>1, <1>2, <1>3, <1>5, ReportCovered

(* A generated task starts with nothing booked.                            *)
LEMMA GeneratedCovered ==
    ASSUME IInv, CoveredTable(task, Exempt), NEW P
    PROVE  CoveredTable(Generated(P), Exempt)
  <1> DEFINE new == Generated(P)
  <1>1. ASSUME NEW t \in AllTasks
        PROVE  \/ new[t] = task[t]
               \/ t \in Tasks /\ new[t].accounted = 0 /\ new[t].qty = 0
    BY DEF Generated, Fresh, IInv, TypeOK
  <1>2. ASSUME NEW t \in AllTasks PROVE Covered(t, new, Exempt)
    <2>1. \A u \in Kids(t) : new[u] = task[u]
      BY <1>1, KidsAreTasks
    <2> HIDE DEF new
    <2> QED
      BY <1>1, <2>1 DEF CoveredTable, Covered, Unsplit
  <1> QED
    BY <1>2 DEF CoveredTable

LEMMA CancelTaskCovered ==
    ASSUME IInv, CoveredTable(task, Exempt), NEW t \in AllTasks, CancelTask(t)
    PROVE  CoveredTable(task', Exempt')
  <1>1. task \in [AllTasks -> TaskRow] /\ Exempt' = Exempt
        /\ task[t].status # "absent"
    BY DEF IInv, GoodTable, CancelTask, TaskOnly, Open, Exempt
  <1>2. task' = [task EXCEPT ![t].status = "cancelled"]
    BY DEF CancelTask
  <1>3. ASSUME NEW u \in AllTasks
        PROVE  /\ task'[u].status = "absent" <=> task[u].status = "absent"
               /\ task'[u].accounted = task[u].accounted
               /\ task'[u].qty = task[u].qty
    BY <1>1, <1>2 DEF TaskRow
  <1> QED
    BY <1>1, <1>3, RewrittenCovered

LEMMA SplitTaskCovered ==
    ASSUME IInv, CoveredTable(task, Exempt), NEW t \in Splittable,
           NEW q1 \in SplitSizes, NEW q2 \in SplitSizes, SplitTask(t, q1, q2)
    PROVE  CoveredTable(task', Exempt')
  <1> DEFINE left == <<t, 1>>
             right == <<t, 2>>
  <1>1. /\ t \in AllTasks /\ left \in AllTasks /\ right \in AllTasks
        /\ left \in Kids(t) /\ left # t /\ right # t /\ left # right
        /\ left \notin Tasks /\ right \notin Tasks
    BY KidFacts DEF AllTasks, Kids
  <1>2. task \in [AllTasks -> TaskRow] /\ Exempt \subseteq Exempt'
    BY DEF IInv, GoodTable, SplitTask, Exempt
  <1>3. \/ task' = [task EXCEPT ![left] = Fresh(q1), ![right] = Fresh(q2),
                       ![t].status = IF @ = "pending" THEN "in_progress" ELSE @]
        \/ task' = [task EXCEPT ![left] = Fresh(q1)]
    BY DEF SplitTask
  <1> HIDE DEF left, right
  <1>4. /\ task'[left] = Fresh(q1)
        /\ task'[right] \in {Fresh(q2), task[right]}
        /\ task'[t].accounted = task[t].accounted
        /\ \A u \in AllTasks \ {t, left, right} : task'[u] = task[u]
    BY <1>1, <1>2, <1>3 DEF TaskRow
  <1>5. ASSUME NEW u \in AllTasks PROVE Covered(u, task', Exempt')
    <2>1. CASE u = t
      <3>1. ~Unsplit(u, task', Exempt')
        BY <1>1, <1>4, <2>1 DEF Unsplit, Fresh
      <3> QED
        BY <1>4, <2>1, <3>1 DEF Covered, CoveredTable
    <2>2. CASE u \in {left, right}
      <3>1. Kids(u) = {}
        <4>1. Splittable \subseteq Tasks
          BY TaskAssumption
        <4>2. u \notin Splittable
          BY <1>1, <2>2, <4>1
        <4> QED
          BY <4>2 DEF Kids
      <3>2. \/ task'[u] = task[u]
            \/ task'[u].accounted = 0 /\ task'[u].qty = 0
        BY <1>4, <2>2 DEF Fresh
      <3> QED
        BY <3>1, <3>2 DEF Covered, CoveredTable, Unsplit
    <2>3. CASE u \notin {t, left, right}
      <3>1. ASSUME NEW v \in Kids(u) PROVE task'[v] = task[v]
        <4>1. v \in {<<u, 1>>, <<u, 2>>} /\ v \notin Tasks /\ u # t
          BY <2>3, KidsAreTasks DEF Kids
        <4>2. v # left /\ v # right
          BY <4>1 DEF left, right
        <4>3. v # t
          BY <4>1, KidFacts
        <4> QED
          BY <1>4, <4>2, <4>3, KidsAreTasks
      <3> QED
        BY <1>2, <1>4, <2>3, <3>1 DEF Covered, CoveredTable, Unsplit
    <2> QED
      BY <2>1, <2>2, <2>3
  <1> QED
    BY <1>2, <1>5 DEF CoveredTable

(* A deleted subtask is remembered, so that its parent is exempt.          *)
LEMMA DeleteTaskCovered ==
    ASSUME IInv, CoveredTable(task, Exempt), NEW t \in AllTasks, DeleteTask(t)
    PROVE  CoveredTable(task', Exempt')
  <1> DEFINE gone == {u \in Family(t) : Exists(u)}
  <1>1. /\ \A u \in AllTasks : task'[u] = IF u \in gone THEN Absent ELSE task[u]
        /\ Exempt' = Exempt \cup gone
    BY DEF DeleteTask, Exempt
  <1> HIDE DEF gone
  <1>2. ASSUME NEW u \in AllTasks, Unsplit(u, task', Exempt')
        PROVE  Unsplit(u, task, Exempt)
    BY <1>1, <1>2, KidsAreTasks DEF Unsplit
  <1>3. ASSUME NEW u \in AllTasks PROVE Covered(u, task', Exempt')
    BY <1>1, <1>2 DEF CoveredTable, Covered, Absent
  <1> QED
    BY <1>3 DEF CoveredTable

LEMMA SyncTasksCovered ==
    ASSUME IInv, CoveredTable(task, Exempt), NEW removed \in SUBSET Procs,
           SyncTasks(removed)
    PROVE  CoveredTable(task', Exempt')
  <1> DEFINE kept == Generated(Procs \ removed)
  <1>1. CoveredTable(kept, Exempt)
    BY GeneratedCovered
  <1> HIDE DEF kept
  <1>2. /\ \A t \in AllTasks : task'[t] = IF ProcessOf(t) \in removed
                                          THEN Absent ELSE kept[t]
        /\ Exempt' = Exempt
    BY DEF SyncTasks, kept, Exempt
  <1>3. ASSUME NEW t \in AllTasks PROVE Covered(t, task', Exempt)
    <2>1. CASE ProcessOf(t) \in removed
      BY <1>2, <2>1 DEF Covered, Absent
    <2>2. CASE ProcessOf(t) \notin removed
      <3>1. ASSUME NEW u \in Kids(t) PROVE ProcessOf(u) = ProcessOf(t)
        BY KidFacts DEF Kids
      <3>2. \A u \in Kids(t) : task'[u] = kept[u]
        BY <1>2, <2>2, <3>1, KidsAreTasks
      <3> QED
        BY <1>1, <1>2, <2>2, <3>2 DEF CoveredTable, Covered, Unsplit
    <2> QED
      BY <2>1, <2>2
  <1> QED
    BY <1>2, <1>3 DEF CoveredTable

LEMMA TaskCovered ==
    PackedInUnits /\ IInv /\ CoveredTable(task, Exempt) /\ TaskStep
      => CoveredTable(task', Exempt')
  BY UpdateQuantityCovered, CompleteTaskCovered, CancelTaskCovered,
     DeleteTaskCovered, SplitTaskCovered, SyncTasksCovered DEF TaskStep

LEMMA OrderCovered ==
    IInv /\ CoveredTable(task, Exempt) /\ OrderStep => CoveredTable(task', Exempt')
  BY GeneratedCovered DEF OrderStep, Submit, SubmitAutoApproved, Approve, Reject,
     CheckCompletion, UpdateStatus, EditOrder, OrderOnly, Release, Exempt

(* Force completes an untouched task in full, and any other as reported.   *)
LEMMA ProcessCovered ==
    IInv /\ CoveredTable(task, Exempt) /\ ProcessStep => CoveredTable(task', Exempt')
  <1> SUFFICES ASSUME IInv, CoveredTable(task, Exempt), NEW p \in Procs,
                      \/ StartProcess(p) \/ BatchStart(p)
                      \/ CompleteProcess(p) \/ ForceCompleteProcess(p)
               PROVE  CoveredTable(task', Exempt')
    BY DEF ProcessStep
  <1>1. task \in [AllTasks -> TaskRow]
    BY DEF IInv, GoodTable
  <1>2. CASE StartProcess(p) \/ BatchStart(p)
    BY <1>2, GeneratedCovered DEF StartProcess, BatchStart, Exempt
  <1>3. CASE CompleteProcess(p)
    BY <1>1, <1>3, SaveCovered DEF CompleteProcess, CloseProcess, Exempt
  <1>4. CASE ForceCompleteProcess(p)
    <2> DEFINE left == {t \in TasksOf(p, task) : task[t].status # "completed"}
               tk == [t \in AllTasks |->
                        IF t \in left
                        THEN [task[t] EXCEPT !.status = "completed",
                                             !.qty = IF @ = 0 THEN task[t].target ELSE @]
                        ELSE task[t]]
    <2>1. SaveCompleted(p, tk, ledger) /\ Exempt' = Exempt
      BY <1>4 DEF ForceCompleteProcess, CloseProcess, Exempt
    <2>2. ASSUME NEW t \in AllTasks
          PROVE  /\ tk[t] \in TaskRow
                 /\ tk[t].status = "absent" <=> task[t].status = "absent"
                 /\ tk[t].accounted = task[t].accounted
                 /\ tk[t].accounted <= task[t].qty => tk[t].accounted <= tk[t].qty
      <3>1. task[t] \in TaskRow
        BY <1>1
      <3>2. CASE t \in left
        <4> DEFINE n == IF task[t].qty = 0 THEN task[t].target ELSE task[t].qty
        <4>1. task[t].status # "absent" /\ tk[t] = Rewritten(task[t], n, "completed", task[t].accounted)
          BY <3>1, <3>2 DEF TasksOf, Rewritten, TaskRow
        <4>2. n \in Nat /\ "completed" \in TaskStatuses /\ task[t].accounted \in Nat
              /\ task[t].qty <= n
          BY <3>1 DEF TaskRow, TaskStatuses
        <4> HIDE DEF n, tk
        <4>3. /\ tk[t] \in TaskRow /\ tk[t].qty = n /\ tk[t].status = "completed"
              /\ tk[t].accounted = task[t].accounted
          BY <3>1, <4>1, <4>2, RewrittenRow
        <4>4. task[t].qty \in Nat
          BY <3>1 DEF TaskRow
        <4> QED
          BY <4>1, <4>2, <4>3, <4>4
      <3>3. CASE t \notin left
        BY <3>1, <3>3
      <3> QED
        BY <3>2, <3>3
    <2>3. tk \in [AllTasks -> TaskRow]
      BY <2>2
    <2> HIDE DEF tk
    <2>4. CoveredTable(tk, Exempt)
      BY <2>2, RewrittenCovered
    <2> QED
      BY <2>1, <2>3, <2>4, SaveCovered
  <1> QED
    BY <1>2, <1>3, <1>4

(* Assets and cut material reach no packaging task.                        *)
LEMMA ConfirmAssetCovered ==
    ASSUME IInv, CoveredTable(task, Exempt), NEW t \in Tasks, ConfirmAsset(t)
    PROVE  CoveredTable(task', Exempt')
  <1> DEFINE p == ProcOf[t]
             hit == {u \in Family(t) :
                       /\ Exists(u)
                       /\ \/ procStatus[p] = "in_progress"
                          \/ task[u].status \in Open /\ task[u].qty < 1}
             tk == [u \in AllTasks |->
                      IF u \in hit
                      THEN [task[u] EXCEPT !.status = "completed", !.qty = 1]
                      ELSE task[u]]
  <1>1. /\ Kind[p] = "plate" /\ Exempt' = Exempt
        /\ CheckProcess(p, tk, ledger, confirmed') \/ task' = task
    BY DEF ConfirmAsset, Exempt
  <1>2. task \in [AllTasks -> TaskRow]
    BY DEF IInv, GoodTable
  <1>3. ASSUME NEW u \in AllTasks
        PROVE  /\ tk[u] \in TaskRow
               /\ tk[u].status = "absent" <=> task[u].status = "absent"
               /\ tk[u].accounted = task[u].accounted
               /\ KindOf(u) = "pack" => tk[u] = task[u]
    <2>1. task[u] \in TaskRow
      BY <1>2
    <2>2. CASE u \in hit
      <3>1. tk[u] = [task[u] EXCEPT !.status = "completed", !.qty = 1]
        BY <2>2
      <3>2. task[u].status # "absent" /\ u \in Family(t)
        BY <2>2 DEF Exists
      <3>3. KindOf(u) = KindOf(t)
        BY <3>2, KidFacts DEF Family, Kids
      <3>4. KindOf(t) = "plate"
        BY <1>1 DEF KindOf, ProcessOf, Root
      <3> DEFINE row == [task[u] EXCEPT !.status = "completed", !.qty = 1]
      <3>5. /\ row \in TaskRow /\ row.status = "completed"
            /\ row.accounted = task[u].accounted
        BY <2>1 DEF TaskRow, TaskStatuses
      <3> HIDE DEF tk, row
      <3> QED
        BY <3>1, <3>2, <3>3, <3>4, <3>5 DEF row
    <2>3. CASE u \notin hit
      BY <2>1, <2>3
    <2> QED
      BY <2>2, <2>3
  <1>4. tk \in [AllTasks -> TaskRow]
    BY <1>3
  <1> HIDE DEF tk, hit, p
  <1>5. CoveredTable(tk, Exempt)
    BY <1>3, RewrittenCovered
  <1> QED
    BY <1>1, <1>4, <1>5, CheckCovered

LEMMA CutMaterialCovered ==
    ASSUME IInv, CoveredTable(task, Exempt), NEW t \in Tasks, CutMaterial(t)
    PROVE  CoveredTable(task', Exempt')
  <1> DEFINE tk == AfterCut(t)
  <1>1. /\ KindOf(t) = "cut" /\ Exempt' = Exempt
        /\ CheckProcess(ProcOf[t], tk, ledger, confirmed) \/ task' = tk
    BY DEF CutMaterial, Exempt
  <1>2. task \in [AllTasks -> TaskRow] /\ Usage[t] \in Nat
    BY TaskAssumption DEF IInv, GoodTable
  <1>3. ASSUME NEW u \in AllTasks
        PROVE  /\ tk[u] \in TaskRow
               /\ tk[u].status = "absent" <=> task[u].status = "absent"
               /\ tk[u].accounted = task[u].accounted
               /\ KindOf(u) = "pack" => tk[u] = task[u]
    <2>1. task[u] \in TaskRow
      BY <1>2
    <2>2. CASE u \in ReachedByCut(t)
      <3> DEFINE s == IF u \in FullWhenCut(t) THEN "completed" ELSE "in_progress"
      <3>1. tk[u] = Rewritten(task[u], Usage[t], s, task[u].accounted)
        BY <2>1, <2>2 DEF AfterCut, Rewritten, TaskRow
      <3>2. task[u].status # "absent" /\ KindOf(u) = "cut"
        <4>1. u \in Family(t) /\ task[u].status \in Open
          BY <2>2 DEF ReachedByCut
        <4>2. KindOf(u) = KindOf(t)
          BY <4>1, KidFacts DEF Family, Kids
        <4> QED
          BY <1>1, <4>1, <4>2 DEF Open
      <3>3. s \in TaskStatuses \ {"absent"} /\ task[u].accounted \in Nat
        BY <2>1 DEF TaskRow, TaskStatuses
      <3> HIDE DEF tk, s
      <3>4. /\ tk[u] \in TaskRow /\ tk[u].status = s
            /\ tk[u].accounted = task[u].accounted
        BY <1>2, <2>1, <3>1, <3>3, RewrittenRow
      <3> QED
        BY <3>2, <3>3, <3>4
    <2>3. CASE u \notin ReachedByCut(t)
      BY <2>1, <2>3 DEF AfterCut
    <2> QED
      BY <2>2, <2>3
  <1>4. tk \in [AllTasks -> TaskRow]
    <2>1. \A u \in AllTasks : tk[u] \in TaskRow
      BY <1>3
    <2> QED
      BY <2>1 DEF AfterCut
  <1> HIDE DEF tk
  <1>5. CoveredTable(tk, Exempt)
    BY <1>3, RewrittenCovered
  <1> QED
    BY <1>1, <1>4, <1>5, CheckCovered

LEMMA SupplyCovered ==
    IInv /\ CoveredTable(task, Exempt) /\ SupplyStep => CoveredTable(task', Exempt')
  BY ConfirmAssetCovered, CutMaterialCovered
     DEF SupplyStep, ConfirmPlan, InvalidatePlan, Exempt

(* The stock booked for an unsplit task never exceeds what is reported for *)
(* it, whatever is reported, corrected, completed, forced or synchronised, *)
(* provided no product line orders zero pieces.                            *)
THEOREM BookedWasReported ==
    ASSUME PackedInUnits
    PROVE  Spec => []AccountedWithinReported
  <1> DEFINE Cov == CoveredTable(task, Exempt)
  <1>1. Init => Cov
    BY DEF Init, CoveredTable, Covered, Absent
  <1>2. IInv /\ Cov /\ [Next]_vars => Cov'
    <2>1. IInv /\ Cov /\ Next => Cov'
      BY OrderCovered, ProcessCovered, TaskCovered, SupplyCovered DEF Next
    <2>2. Cov /\ UNCHANGED vars => Cov'
      BY DEF vars, CoveredTable, Covered, Unsplit, Exempt
    <2> QED
      BY <2>1, <2>2
  <1>3. IInv /\ Cov => AccountedWithinReported
    <2> SUFFICES ASSUME IInv, Cov, NEW t \in AllTasks, ~HasSubtasks(t),
                        Kids(t) \cap deleted = {}, t \notin outgrown
                 PROVE  task[t].accounted <= task[t].qty
      BY DEF AccountedWithinReported
    <2>1. Unsplit(t, task, Exempt)
      BY DEF Unsplit, HasSubtasks, Exists, Exempt, Kids
    <2>2. task[t].accounted \in Nat /\ task[t].qty \in Nat
      BY DEF IInv, GoodTable, TaskRow
    <2> QED
      BY <2>1, <2>2 DEF CoveredTable, Covered
  <1> HIDE DEF Cov
  <1> QED
    BY <1>1, <1>2, <1>3, Inductive, PTL DEF Spec

-----------------------------------------------------------------------------
(* With PATCH                                                              *)
(*                                                                         *)
(* The generic endpoints write any quantity, so that little of IInv is     *)
(* left: quantities are integers, a task accounts for a natural number of  *)
(* goods, and the journal holds at least as many.  That is enough.         *)

PatchedRow == [status : TaskStatuses, qty : Int, accounted : Nat, target : Nat]
PatchedTable(tk) == tk \in [AllTasks -> PatchedRow]
Covering(tk, led) ==
    /\ led \in [AllTasks -> Int]
    /\ \A t \in AllTasks : led[t] >= tk[t].accounted

PatchInv ==
    /\ PatchedTable(task)
    /\ Covering(task, ledger)
    /\ needed \subseteq Tasks

(* A table with other rows than the present one covers what it accounts    *)
(* for as well if no row accounts for more.                                *)
LEMMA AccountsForNoMore ==
    ASSUME NEW tk, NEW led, PatchedTable(tk), Covering(tk, led),
           NEW new, PatchedTable(new),
           \A t \in AllTasks : new[t].accounted <= tk[t].accounted
    PROVE  Covering(new, led)
  <1> SUFFICES ASSUME NEW t \in AllTasks PROVE led[t] >= new[t].accounted
    BY DEF Covering
  <1>1. /\ led[t] \in Int /\ led[t] >= tk[t].accounted
        /\ tk[t].accounted \in Nat /\ new[t].accounted \in Nat
        /\ new[t].accounted <= tk[t].accounted
    BY DEF PatchedTable, PatchedRow, Covering
  <1> QED
    BY <1>1

(* What closing a process books is added on both sides.                    *)
LEMMA SaveCovering ==
    ASSUME NEW p, NEW tk, NEW led, PatchedTable(tk), Covering(tk, led),
           SaveCompleted(p, tk, led)
    PROVE  PatchedTable(task') /\ Covering(task', ledger')
  <1>1. ASSUME NEW t \in AllTasks
        PROVE  /\ Due(p, tk, t) \in Nat
               /\ task'[t] = [tk[t] EXCEPT !.accounted = @ + Due(p, tk, t)]
               /\ ledger'[t] = led[t] + Due(p, tk, t)
    <2>1. tk[t].qty \in Int /\ tk[t].accounted \in Nat
      BY DEF PatchedTable, PatchedRow
    <2>2. Due(p, tk, t) \in Nat
      BY <2>1 DEF Due
    <2> QED
      BY <2>2 DEF SaveCompleted
  <1>2. ASSUME NEW t \in AllTasks
        PROVE  /\ task'[t] \in PatchedRow
               /\ ledger'[t] \in Int
               /\ ledger'[t] >= task'[t].accounted
    <2> DEFINE due == Due(p, tk, t)
    <2>1. /\ tk[t] \in PatchedRow /\ tk[t].accounted \in Nat
          /\ led[t] \in Int /\ led[t] >= tk[t].accounted
      BY DEF PatchedTable, PatchedRow, Covering
    <2>2. due \in Nat /\ task'[t] = [tk[t] EXCEPT !.accounted = @ + due]
          /\ ledger'[t] = led[t] + due
      BY <1>1
    <2> HIDE DEF due
    <2>3. task'[t] \in PatchedRow /\ task'[t].accounted = tk[t].accounted + due
      BY <2>1, <2>2 DEF PatchedRow
    <2> QED
      BY <2>1, <2>2, <2>3
  <1>3. /\ task' = [t \in AllTasks |-> task'[t]]
        /\ ledger' = [t \in AllTasks |-> ledger'[t]]
    BY DEF SaveCompleted
  <1>4. PatchedTable(task')
    BY <1>2, <1>3 DEF PatchedTable
  <1> QED
    BY <1>2, <1>3, <1>4 DEF Covering

LEMMA CheckCovering ==
    ASSUME NEW p, NEW tk, NEW led, NEW conf, PatchedTable(tk), Covering(tk, led),
           CheckProcess(p, tk, led, conf)
    PROVE  PatchedTable(task') /\ Covering(task', ledger')
  BY SaveCovering DEF CheckProcess, CloseProcess

(* Rolling a subtask up changes status and quantity of its parent.         *)
LEMMA RolledCovering ==
    ASSUME NEW tk, NEW t \in AllTasks, PatchedTable(tk)
    PROVE  /\ PatchedTable(RolledUp(tk, t))
           /\ \A u \in AllTasks : RolledUp(tk, t)[u].accounted = tk[u].accounted
  <1>1. CASE t \in Tasks
    BY <1>1 DEF RolledUp
  <1>2. CASE t \notin Tasks
    <2> DEFINE r == t[1]
    <2>1. r \in Splittable /\ r \in AllTasks /\ <<r, 1>> \in AllTasks /\ <<r, 2>> \in AllTasks
      BY <1>2, TaskFacts, KidFacts DEF AllTasks
    <2>2. /\ tk[r] \in PatchedRow
          /\ tk[<<r, 1>>].qty \in Int /\ tk[<<r, 2>>].qty \in Int
      BY <2>1 DEF PatchedTable, PatchedRow
    <2> HIDE DEF r
    <2>3. PICK s \in TaskStatuses : RolledUp(tk, t) =
            [tk EXCEPT ![r].qty = tk[<<r, 1>>].qty + tk[<<r, 2>>].qty, ![r].status = s]
      <3> DEFINE finished == \A u \in Kids(r) : tk[u].status \in {"absent", "completed"}
                 s == IF finished THEN "completed"
                      ELSE IF tk[r].status = "completed" THEN "in_progress"
                      ELSE tk[r].status
      <3>1. s \in TaskStatuses
        BY <2>2 DEF PatchedRow, TaskStatuses
      <3>2. RolledUp(tk, t) =
            [tk EXCEPT ![r].qty = tk[<<r, 1>>].qty + tk[<<r, 2>>].qty, ![r].status = s]
        BY <1>2, <2>1 DEF RolledUp, PatchedTable, r
      <3> QED
        BY <3>1, <3>2
    <2> DEFINE q == tk[<<r, 1>>].qty + tk[<<r, 2>>].qty
    <2>4. q \in Int
      BY <2>2
    <2> HIDE DEF q
    <2>5. RolledUp(tk, t) = [tk EXCEPT ![r] = [tk[r] EXCEPT !.qty = q, !.status = s]]
      BY <2>1, <2>3 DEF PatchedTable, q
    <2>6. /\ [tk[r] EXCEPT !.qty = q, !.status = s] \in PatchedRow
          /\ [tk[r] EXCEPT !.qty = q, !.status = s].accounted = tk[r].accounted
      BY <2>2, <2>4 DEF PatchedRow
    <2> QED
      BY <2>1, <2>5, <2>6 DEF PatchedTable
  <1> QED
    BY <1>1, <1>2

LEMMA NewPatchedRows ==
    /\ Absent \in PatchedRow /\ Absent.accounted = 0
    /\ \A q \in Nat : Fresh(q) \in PatchedRow /\ Fresh(q).accounted = 0
  BY DEF Absent, Fresh, PatchedRow, TaskStatuses

LEMMA GeneratedCovering ==
    ASSUME PatchInv, NEW P
    PROVE  /\ PatchedTable(Generated(P))
           /\ \A t \in AllTasks : Generated(P)[t].accounted <= task[t].accounted
  <1>1. ASSUME NEW t \in AllTasks
        PROVE  Generated(P)[t] \in PatchedRow /\ Generated(P)[t].accounted <= task[t].accounted
    <2>1. task[t] \in PatchedRow /\ task[t].accounted \in Nat
      BY DEF PatchInv, PatchedTable, PatchedRow
    <2>2. t \in needed => Target[t] \in Nat
      BY TaskAssumption DEF PatchInv
    <2>3. \/ t \in needed /\ Generated(P)[t] = Fresh(Target[t])
          \/ Generated(P)[t] = task[t]
      BY DEF Generated
    <2> QED
      BY <2>1, <2>2, <2>3, NewPatchedRows
  <1>2. Generated(P) = [t \in AllTasks |-> Generated(P)[t]]
    BY DEF Generated
  <1> QED
    BY <1>1, <1>2 DEF PatchedTable

(* The stock of a product is at least what was booked for any one task.    *)
LEMMA StockIsThere ==
    ASSUME PatchInv, NEW t \in AllTasks
    PROVE  Stock(t) \in Int /\ Stock(t) >= ledger[t] /\ ledger[t] >= 0
  <1>1. \A u \in AllTasks : ledger[u] \in Int /\ ledger[u] >= 0
    <2> SUFFICES ASSUME NEW u \in AllTasks PROVE ledger[u] \in Int /\ ledger[u] >= 0
      OBVIOUS
    <2>1. task[u].accounted \in Nat /\ ledger[u] \in Int /\ ledger[u] >= task[u].accounted
      BY DEF PatchInv, PatchedTable, PatchedRow, Covering
    <2> QED
      BY <2>1
  <1>2. Root(t) \in Tasks /\ Root(t) \in AllTasks
    BY TaskFacts DEF AllTasks
  <1>3. CASE Root(t) \in Splittable
    <2> DEFINE r == Root(t)
    <2>1. <<r, 1>> \in AllTasks /\ <<r, 2>> \in AllTasks
      BY <1>3, KidFacts
    <2>2. t \in {r, <<r, 1>>, <<r, 2>>}
      BY <1>2, TaskFacts, KidFacts DEF Root
    <2>3. Stock(t) = ledger[r] + ledger[<<r, 1>>] + ledger[<<r, 2>>]
      BY <1>3 DEF Stock
    <2>4. /\ ledger[r] \in Int /\ ledger[r] >= 0
          /\ ledger[<<r, 1>>] \in Int /\ ledger[<<r, 1>>] >= 0
          /\ ledger[<<r, 2>>] \in Int /\ ledger[<<r, 2>>] >= 0
      BY <1>1, <1>2, <2>1
    <2> HIDE DEF r
    <2> QED
      BY <2>2, <2>3, <2>4
  <1>4. CASE Root(t) \notin Splittable
    <2>1. Root(t) = t
      BY <1>4, TaskFacts DEF Root
    <2> QED
      BY <1>1, <1>4, <2>1 DEF Stock
  <1> QED
    BY <1>3, <1>4

(* A report that takes goods back never asks for more than the stock has.  *)
LEMMA MovedInFull ==
    ASSUME PatchInv, NEW t \in AllTasks, NEW q \in Nat
    PROVE  Moved(t, q - task[t].accounted) = q - task[t].accounted
  <1>1. /\ task[t].accounted \in Nat
        /\ ledger[t] \in Int /\ ledger[t] >= task[t].accounted
    BY DEF PatchInv, PatchedTable, PatchedRow, Covering
  <1>2. Stock(t) \in Int /\ Stock(t) >= ledger[t]
    BY StockIsThere
  <1> QED
    BY <1>1, <1>2 DEF Moved

LEMMA UpdateQuantityCovering ==
    ASSUME PatchInv, NEW t \in AllTasks, NEW increment \in Increments,
           UpdateQuantity(t, increment)
    PROVE  PatchInv'
  <1> DEFINE q == task[t].qty + increment
             owed == IF KindOf(t) = "pack" THEN q - task[t].accounted ELSE 0
             row == [task[t] EXCEPT !.qty = q, !.status = StatusAfter(task[t], q),
                                    !.accounted = @ + owed]
             tk == [task EXCEPT ![t] = row]
             led == [ledger EXCEPT ![t] = @ + Moved(t, owed)]
  <1>1. /\ task[t] \in PatchedRow /\ task[t].accounted \in Nat
        /\ task[t].status \in TaskStatuses /\ task[t].target \in Nat
        /\ ledger[t] \in Int /\ ledger[t] >= task[t].accounted
    BY DEF PatchInv, PatchedTable, PatchedRow, Covering
  <1>2. q \in Nat /\ CheckProcess(ProcessOf(t), RolledUp(tk, t), led, confirmed)
        /\ needed' = needed
    <2>1. task[t].qty \in Int /\ increment \in Int
      BY TaskAssumption DEF PatchInv, PatchedTable, PatchedRow
    <2> QED
      BY <2>1 DEF UpdateQuantity, Fits, TaskOnly
  <1>3. /\ owed \in Int /\ Moved(t, owed) = owed
        /\ task[t].accounted + owed \in Nat
    <2>1. CASE KindOf(t) = "pack"
      <3>1. owed = q - task[t].accounted
        BY <2>1
      <3>2. Moved(t, owed) = owed
        BY <1>2, <3>1, MovedInFull
      <3> HIDE DEF owed, q
      <3> QED
        BY <1>1, <1>2, <3>1, <3>2
    <2>2. CASE KindOf(t) # "pack"
      BY <1>1, <2>2 DEF Moved
    <2> QED
      BY <2>1, <2>2
  <1>4. StatusAfter(task[t], q) \in TaskStatuses
    BY <1>1 DEF StatusAfter, TaskStatuses
  <1>5. /\ row \in PatchedRow
        /\ row.accounted = task[t].accounted + owed
    <2> DEFINE s == StatusAfter(task[t], q)
               a == task[t].accounted + owed
    <2>1. row = [task[t] EXCEPT !.qty = q, !.status = s, !.accounted = a]
      OBVIOUS
    <2>2. s \in TaskStatuses /\ a \in Nat /\ q \in Int
      BY <1>2, <1>3, <1>4
    <2> HIDE DEF q, owed, row, s, a
    <2>3. row \in PatchedRow /\ row.accounted = a
      BY <1>1, <2>1, <2>2 DEF PatchedRow
    <2> QED
      BY <2>3 DEF a
  <1> HIDE DEF q, owed, row
  <1>6. PatchedTable(tk)
    BY <1>5 DEF PatchInv, PatchedTable
  <1>7. Covering(tk, led)
    <2>1. led \in [AllTasks -> Int]
      BY <1>1, <1>3 DEF PatchInv, Covering
    <2>2. led[t] = ledger[t] + owed /\ tk[t] = row
      BY <1>3 DEF PatchInv, PatchedTable, Covering
    <2>3. \A u \in AllTasks \ {t} : led[u] = ledger[u] /\ tk[u] = task[u]
      BY DEF PatchInv, PatchedTable, Covering
    <2>4. led[t] >= tk[t].accounted
      BY <1>1, <1>3, <1>5, <2>2
    <2> QED
      BY <2>1, <2>3, <2>4 DEF PatchInv, Covering
  <1> HIDE DEF tk, led
  <1>8. PatchedTable(RolledUp(tk, t)) /\ Covering(RolledUp(tk, t), led)
    <2>1. /\ PatchedTable(RolledUp(tk, t))
          /\ \A u \in AllTasks : RolledUp(tk, t)[u].accounted = tk[u].accounted
      BY <1>6, RolledCovering
    <2> QED
      BY <1>7, <2>1 DEF Covering
  <1> QED
    BY <1>2, <1>8, CheckCovering DEF PatchInv

(* A table made from the present one by writing status and quantity.       *)
Rewrites(tk) ==
    /\ tk = [t \in AllTasks |-> tk[t]]
    /\ \A t \in AllTasks : \E q \in Int, s \in TaskStatuses :
          tk[t] = [task[t] EXCEPT !.qty = q, !.status = s]

LEMMA RewritesCovering ==
    ASSUME PatchInv, NEW tk, Rewrites(tk)
    PROVE  PatchedTable(tk) /\ Covering(tk, ledger)
  <1>1. ASSUME NEW t \in AllTasks
        PROVE  tk[t] \in PatchedRow /\ tk[t].accounted = task[t].accounted
    <2>1. PICK q \in Int, s \in TaskStatuses : tk[t] = [task[t] EXCEPT !.qty = q, !.status = s]
      BY DEF Rewrites
    <2>2. task[t] \in PatchedRow
      BY DEF PatchInv, PatchedTable
    <2> QED
      BY <2>1, <2>2 DEF PatchedRow
  <1>2. PatchedTable(tk)
    BY <1>1 DEF Rewrites, PatchedTable
  <1> QED
    BY <1>1, <1>2 DEF PatchInv, Covering

LEMMA PatchedRowTypes ==
    ASSUME PatchInv, NEW t \in AllTasks
    PROVE  /\ task[t].qty \in Int /\ task[t].status \in TaskStatuses
           /\ task[t].accounted \in Nat /\ task[t].target \in Nat
  <1>1. task[t] \in PatchedRow
    BY DEF PatchInv, PatchedTable
  <1> QED
    BY <1>1 DEF PatchedRow

(* A row that is left alone is rewritten as it is.                         *)
LEMMA LeftAlone ==
    ASSUME PatchInv, NEW t \in AllTasks
    PROVE  \E q \in Int, s \in TaskStatuses :
              task[t] = [task[t] EXCEPT !.qty = q, !.status = s]
  <1>1. task[t] = [task[t] EXCEPT !.qty = task[t].qty, !.status = task[t].status]
    BY DEF PatchInv, PatchedTable, PatchedRow
  <1> QED
    BY <1>1, PatchedRowTypes

LEMMA OrderCovering == PatchInv /\ OrderStep => PatchInv'
  <1> SUFFICES ASSUME PatchInv, OrderStep PROVE PatchInv'
    OBVIOUS
  <1>1. ledger' = ledger /\ needed' = needed /\ (task' = task \/ task' = Generated(Procs))
    BY DEF OrderStep, Submit, SubmitAutoApproved, Approve, Release, Reject,
           CheckCompletion, UpdateStatus, EditOrder, OrderOnly
  <1>2. PatchedTable(task') /\ Covering(task', ledger)
    BY <1>1, GeneratedCovering, AccountsForNoMore DEF PatchInv
  <1> QED
    BY <1>1, <1>2 DEF PatchInv

LEMMA ForceCovering ==
    ASSUME PatchInv, NEW p \in Procs, ForceCompleteProcess(p)
    PROVE  PatchInv'
  <1> DEFINE left == {t \in TasksOf(p, task) : task[t].status # "completed"}
             tk == [t \in AllTasks |->
                      IF t \in left
                      THEN [task[t] EXCEPT !.status = "completed",
                                           !.qty = IF @ = 0 THEN task[t].target ELSE @]
                      ELSE task[t]]
  <1>1. SaveCompleted(p, tk, ledger) /\ needed' = needed
    BY DEF ForceCompleteProcess, CloseProcess
  <1>2. Rewrites(tk)
    <2> SUFFICES ASSUME NEW t \in AllTasks
                 PROVE  \E q \in Int, s \in TaskStatuses :
                           tk[t] = [task[t] EXCEPT !.qty = q, !.status = s]
      BY DEF Rewrites
    <2> HIDE DEF left
    <2>1. CASE t \in left
      <3> DEFINE q == IF task[t].qty = 0 THEN task[t].target ELSE task[t].qty
      <3>1. q \in Int
        BY PatchedRowTypes
      <3>2. tk[t] = [task[t] EXCEPT !.qty = q, !.status = "completed"]
        BY <2>1 DEF PatchInv, PatchedTable, PatchedRow
      <3> QED
        BY <3>1, <3>2 DEF TaskStatuses
    <2>2. CASE t \notin left
      BY <2>2, LeftAlone
    <2> QED
      BY <2>1, <2>2
  <1> HIDE DEF tk
  <1> QED
    BY <1>1, <1>2, RewritesCovering, SaveCovering DEF PatchInv

LEMMA ProcessCovering == PatchInv /\ ProcessStep => PatchInv'
  <1> SUFFICES ASSUME PatchInv, NEW p \in Procs,
                      \/ StartProcess(p) \/ BatchStart(p)
                      \/ CompleteProcess(p) \/ ForceCompleteProcess(p)
               PROVE  PatchInv'
    BY DEF ProcessStep
  <1>1. CASE StartProcess(p)
    BY <1>1 DEF StartProcess, PatchInv
  <1>2. CASE BatchStart(p)
    <2>1. task' = Generated({p}) /\ ledger' = ledger /\ needed' = needed
      BY <1>2 DEF BatchStart
    <2>2. PatchedTable(task') /\ Covering(task', ledger)
      BY <2>1, GeneratedCovering, AccountsForNoMore DEF PatchInv
    <2> QED
      BY <2>1, <2>2 DEF PatchInv
  <1>3. CASE CompleteProcess(p)
    <2>1. SaveCompleted(p, task, ledger) /\ needed' = needed
      BY <1>3 DEF CompleteProcess, CloseProcess
    <2> QED
      BY <2>1, SaveCovering DEF PatchInv
  <1>4. CASE ForceCompleteProcess(p)
    BY <1>4, ForceCovering
  <1> QED
    BY <1>1, <1>2, <1>3, <1>4

(* Writing quantity and status of one row.                                 *)
LEMMA OneRowRewrites ==
    ASSUME PatchInv, NEW t \in AllTasks, NEW q \in Int, NEW s \in TaskStatuses
    PROVE  /\ Rewrites([task EXCEPT ![t] = [task[t] EXCEPT !.qty = q, !.status = s]])
           /\ [task EXCEPT ![t].qty = q, ![t].status = s] =
                [task EXCEPT ![t] = [task[t] EXCEPT !.qty = q, !.status = s]]
  <1> DEFINE row == [task[t] EXCEPT !.qty = q, !.status = s]
             tk == [task EXCEPT ![t] = row]
  <1>1. task = [u \in AllTasks |-> task[u]]
    BY DEF PatchInv, PatchedTable
  <1>2. tk = [u \in AllTasks |-> tk[u]]
    BY <1>1
  <1>3. ASSUME NEW u \in AllTasks
        PROVE  \E i \in Int, a \in TaskStatuses :
                 tk[u] = [task[u] EXCEPT !.qty = i, !.status = a]
    <2>1. CASE u = t
      BY <1>1, <2>1
    <2>2. CASE u # t
      <3>1. tk[u] = task[u]
        BY <1>1, <2>2
      <3> HIDE DEF tk
      <3> QED
        BY <3>1, LeftAlone
    <2> QED
      BY <2>1, <2>2
  <1>4. [task EXCEPT ![t].qty = q, ![t].status = s] = tk
    BY <1>1
  <1> HIDE DEF tk
  <1> QED
    BY <1>2, <1>3, <1>4 DEF Rewrites, tk

LEMMA CompleteTaskCovering ==
    ASSUME PatchInv, NEW t \in AllTasks, CompleteTask(t)
    PROVE  PatchInv'
  <1> DEFINE q == IF KindOf(t) = "plate" THEN 1 ELSE task[t].target
             tk == [task EXCEPT ![t] = [task[t] EXCEPT !.qty = q, !.status = "completed"]]
  <1>1. /\ CheckProcess(ProcessOf(t), RolledUp(tk, t), ledger, confirmed)
        /\ needed' = needed
    BY DEF CompleteTask, TaskOnly
  <1>2. q \in Int /\ "completed" \in TaskStatuses
    BY PatchedRowTypes DEF TaskStatuses
  <1> HIDE DEF q
  <1>3. PatchedTable(tk) /\ Covering(tk, ledger)
    BY <1>2, OneRowRewrites, RewritesCovering
  <1> HIDE DEF tk
  <1>4. PatchedTable(RolledUp(tk, t)) /\ Covering(RolledUp(tk, t), ledger)
    <2>1. /\ PatchedTable(RolledUp(tk, t))
          /\ \A u \in AllTasks : RolledUp(tk, t)[u].accounted = tk[u].accounted
      BY <1>3, RolledCovering
    <2> QED
      BY <1>3, <2>1 DEF Covering
  <1> QED
    BY <1>1, <1>4, CheckCovering DEF PatchInv

LEMMA SplitTaskCovering ==
    ASSUME PatchInv, NEW t \in Splittable, NEW q1 \in SplitSizes, NEW q2 \in SplitSizes,
           SplitTask(t, q1, q2)
    PROVE  PatchInv'
  <1>1. q1 \in Nat /\ (q2 > 0 => q2 \in Nat) /\ t \in AllTasks
    BY TaskAssumption DEF AllTasks, SplitTask
  <1>2. ledger' = ledger /\ needed' = needed
    BY DEF SplitTask
  <1>3. task' = [u \in AllTasks |-> task'[u]]
    BY DEF SplitTask, PatchInv, PatchedTable
  <1>4. ASSUME NEW u \in AllTasks
        PROVE  task'[u] \in PatchedRow /\ task'[u].accounted <= task[u].accounted
    <2>1. /\ task[u] \in PatchedRow /\ task[u].accounted \in Nat
          /\ [task[u] EXCEPT !.status = "in_progress"] \in PatchedRow
          /\ [task[u] EXCEPT !.status = "in_progress"].accounted = task[u].accounted
          /\ [task[u] EXCEPT !.status = task[u].status] = task[u]
      BY DEF PatchInv, PatchedTable, PatchedRow, TaskStatuses
    <2>2. \/ task'[u] = task[u]
          \/ task'[u] = [task[u] EXCEPT !.status = "in_progress"]
          \/ task'[u] = [task[u] EXCEPT !.status = task[u].status]
          \/ task'[u] = Fresh(q1)
          \/ q2 > 0 /\ task'[u] = Fresh(q2)
      BY <1>1, KidFacts DEF SplitTask, PatchInv, PatchedTable
    <2>3. /\ Fresh(q1) \in PatchedRow /\ Fresh(q1).accounted = 0
          /\ q2 > 0 => Fresh(q2) \in PatchedRow /\ Fresh(q2).accounted = 0
      BY <1>1, NewPatchedRows
    <2>4. 0 <= task[u].accounted /\ task[u].accounted <= task[u].accounted
      BY <2>1
    <2> QED
      BY <2>1, <2>2, <2>3, <2>4
  <1>5. PatchedTable(task')
    BY <1>3, <1>4 DEF PatchedTable
  <1>6. Covering(task', ledger)
    BY <1>4, <1>5, AccountsForNoMore DEF PatchInv
  <1> QED
    BY <1>2, <1>5, <1>6 DEF PatchInv

(* Rows that vanish account for nothing.                                   *)
LEMMA VanishedCovering ==
    ASSUME PatchInv, NEW tk, tk = [t \in AllTasks |-> tk[t]],
           NEW P,
           \A t \in AllTasks : tk[t] \in {Absent, task[t], Generated(P)[t]}
    PROVE  PatchedTable(tk) /\ Covering(tk, ledger)
  <1>1. ASSUME NEW t \in AllTasks
        PROVE  tk[t] \in PatchedRow /\ tk[t].accounted <= task[t].accounted
    <2>1. /\ task[t] \in PatchedRow /\ task[t].accounted \in Nat
          /\ Generated(P)[t] \in PatchedRow
          /\ Generated(P)[t].accounted <= task[t].accounted
      BY GeneratedCovering DEF PatchInv, PatchedTable, PatchedRow
    <2> QED
      BY <2>1, NewPatchedRows
  <1>2. PatchedTable(tk)
    BY <1>1 DEF PatchedTable
  <1> QED
    BY <1>1, <1>2, AccountsForNoMore DEF PatchInv

LEMMA TaskCovering == PatchInv /\ TaskStep => PatchInv'
  <1> SUFFICES ASSUME PatchInv, TaskStep PROVE PatchInv'
    OBVIOUS
  <1>1. ASSUME NEW t \in AllTasks, NEW increment \in Increments, UpdateQuantity(t, increment)
        PROVE  PatchInv'
    BY <1>1, UpdateQuantityCovering
  <1>2. ASSUME NEW t \in AllTasks, CompleteTask(t) PROVE PatchInv'
    BY <1>2, CompleteTaskCovering
  <1>3. ASSUME NEW t \in AllTasks, CancelTask(t) PROVE PatchInv'
    <2>1. task' = [task EXCEPT ![t].status = "cancelled"] /\ ledger' = ledger /\ needed' = needed
      BY <1>3 DEF CancelTask, TaskOnly
    <2>2. task' = [task EXCEPT ![t] = [task[t] EXCEPT !.status = "cancelled"]]
      BY <2>1 DEF PatchInv, PatchedTable
    <2>3. task' = [task EXCEPT ![t] = [task[t] EXCEPT !.qty = task[t].qty, !.status = "cancelled"]]
      BY <2>2 DEF PatchInv, PatchedTable, PatchedRow
    <2>4. task[t].qty \in Int /\ "cancelled" \in TaskStatuses
      BY PatchedRowTypes DEF TaskStatuses
    <2>5. PatchedTable(task') /\ Covering(task', ledger)
      BY <2>3, <2>4, OneRowRewrites, RewritesCovering
    <2> QED
      BY <2>1, <2>5 DEF PatchInv
  <1>4. ASSUME NEW t \in AllTasks, DeleteTask(t) PROVE PatchInv'
    <2>1. /\ ledger' = ledger /\ needed' = needed
          /\ task' = [u \in AllTasks |-> task'[u]]
          /\ \A u \in AllTasks : task'[u] \in {Absent, task[u], Generated({})[u]}
      BY <1>4 DEF DeleteTask
    <2>2. PatchedTable(task') /\ Covering(task', ledger)
      BY <2>1, VanishedCovering
    <2> QED
      BY <2>1, <2>2 DEF PatchInv
  <1>5. ASSUME NEW t \in Splittable, NEW q1 \in SplitSizes, NEW q2 \in SplitSizes,
               SplitTask(t, q1, q2)
        PROVE  PatchInv'
    BY <1>5, SplitTaskCovering
  <1>6. ASSUME NEW removed \in SUBSET Procs, SyncTasks(removed) PROVE PatchInv'
    <2>1. /\ ledger' = ledger /\ needed' = needed
          /\ task' = [u \in AllTasks |-> task'[u]]
          /\ \A u \in AllTasks : task'[u] \in {Absent, task[u], Generated(Procs \ removed)[u]}
      BY <1>6 DEF SyncTasks
    <2>2. PatchedTable(task') /\ Covering(task', ledger)
      BY <2>1, VanishedCovering
    <2> QED
      BY <2>1, <2>2 DEF PatchInv
  <1> QED
    BY <1>1, <1>2, <1>3, <1>4, <1>5, <1>6 DEF TaskStep

LEMMA ConfirmAssetCovering ==
    ASSUME PatchInv, NEW t \in Tasks, ConfirmAsset(t)
    PROVE  PatchInv'
  <1> DEFINE p == ProcOf[t]
             hit == {u \in Family(t) :
                       /\ Exists(u)
                       /\ \/ procStatus[p] = "in_progress"
                          \/ task[u].status \in Open /\ task[u].qty < 1}
             tk == [u \in AllTasks |->
                      IF u \in hit THEN [task[u] EXCEPT !.status = "completed", !.qty = 1]
                      ELSE task[u]]
  <1>1. /\ needed' = needed
        /\ \/ CheckProcess(p, tk, ledger, confirmed')
           \/ task' = task /\ ledger' = ledger
    BY DEF ConfirmAsset
  <1>2. Rewrites(tk)
    <2> SUFFICES ASSUME NEW u \in AllTasks
                 PROVE  \E q \in Int, s \in TaskStatuses :
                           tk[u] = [task[u] EXCEPT !.qty = q, !.status = s]
      BY DEF Rewrites
    <2> HIDE DEF hit
    <2>1. CASE u \in hit
      <3>1. tk[u] = [task[u] EXCEPT !.status = "completed", !.qty = 1]
        BY <2>1
      <3> HIDE DEF tk
      <3>2. tk[u] = [task[u] EXCEPT !.qty = 1, !.status = "completed"]
        BY <3>1 DEF PatchInv, PatchedTable, PatchedRow
      <3>3. 1 \in Int /\ "completed" \in TaskStatuses
        BY DEF TaskStatuses
      <3> QED
        BY <3>2, <3>3, Zenon
    <2>2. CASE u \notin hit
      BY <2>2, LeftAlone
    <2> QED
      BY <2>1, <2>2
  <1> HIDE DEF tk, hit, p
  <1> QED
    BY <1>1, <1>2, RewritesCovering, CheckCovering DEF PatchInv

LEMMA CutMaterialCovering ==
    ASSUME PatchInv, NEW t \in Tasks, CutMaterial(t)
    PROVE  PatchInv'
  <1> DEFINE tk == AfterCut(t)
  <1>1. /\ needed' = needed
        /\ \/ CheckProcess(ProcOf[t], tk, ledger, confirmed)
           \/ task' = tk /\ ledger' = ledger
    BY DEF CutMaterial
  <1>2. Rewrites(tk)
    <2>1. ASSUME NEW u \in AllTasks
          PROVE  \E q \in Int, s \in TaskStatuses :
                    tk[u] = [task[u] EXCEPT !.qty = q, !.status = s]
      <3>1. CASE u \in ReachedByCut(t)
        <4> DEFINE s == IF u \in FullWhenCut(t) THEN "completed" ELSE "in_progress"
        <4>1. tk[u] = [task[u] EXCEPT !.qty = Usage[t], !.status = s]
          BY <3>1 DEF AfterCut
        <4>2. s \in TaskStatuses /\ Usage[t] \in Int
          BY TaskAssumption DEF TaskStatuses
        <4> HIDE DEF s
        <4> QED
          BY <4>1, <4>2
      <3>2. CASE u \notin ReachedByCut(t)
        BY <3>2, LeftAlone DEF AfterCut
      <3> QED
        BY <3>1, <3>2
    <2> QED
      BY <2>1 DEF Rewrites, AfterCut
  <1> HIDE DEF tk
  <1> QED
    BY <1>1, <1>2, RewritesCovering, CheckCovering DEF PatchInv

LEMMA SupplyCovering == PatchInv /\ SupplyStep => PatchInv'
  BY ConfirmAssetCovering, CutMaterialCovering, TaskAssumption
     DEF SupplyStep, ConfirmPlan, InvalidatePlan, PatchInv

LEMMA PatchCovering == PatchInv /\ PatchStep => PatchInv'
  <1>1. ASSUME PatchInv, NEW t \in AllTasks, NEW q \in PatchQuantities,
               NEW s \in TaskStatuses, PatchTask(t, q, s)
        PROVE  PatchInv'
    <2> DEFINE tk == [task EXCEPT ![t].qty = q, ![t].status = s]
    <2>1. /\ needed' = needed
          /\ \/ CheckProcess(ProcessOf(t), tk, ledger, confirmed)
             \/ task' = tk /\ ledger' = ledger
      BY <1>1 DEF PatchTask, TaskOnly
    <2>2. q \in Int
      BY PatchAssumption
    <2>3. PatchedTable(tk) /\ Covering(tk, ledger)
      BY <1>1, <2>2, OneRowRewrites, RewritesCovering
    <2> HIDE DEF tk
    <2> QED
      BY <1>1, <2>1, <2>3, CheckCovering DEF PatchInv
  <1>2. ASSUME PatchInv, NEW p \in Procs, NEW s \in ProcessStatuses, PatchProcess(p, s)
        PROVE  PatchInv'
    BY <1>2, SaveCovering DEF PatchProcess, PatchInv
  <1> QED
    BY <1>1, <1>2 DEF PatchStep

LEMMA PatchedStep == PatchInv /\ [Next \/ PatchStep]_vars => PatchInv'
  <1>1. PatchInv /\ UNCHANGED vars => PatchInv'
    BY DEF vars, PatchInv
  <1> QED
    BY <1>1, OrderCovering, ProcessCovering, TaskCovering, SupplyCovering, PatchCovering
       DEF Next

LEMMA PatchedInit == Init => PatchInv
  <1> SUFFICES ASSUME Init PROVE PatchInv
    OBVIOUS
  <1>1. /\ task = [t \in AllTasks |-> Absent] /\ ledger = [t \in AllTasks |-> 0]
        /\ needed \subseteq Tasks
    BY DEF Init
  <1>2. PatchedTable(task)
    BY <1>1, NewPatchedRows DEF PatchedTable
  <1>3. Covering(task, ledger)
    BY <1>1, NewPatchedRows DEF Covering
  <1> QED
    BY <1>1, <1>2, <1>3 DEF PatchInv

LEMMA PatchInductive == PatchSpec => []PatchInv
  BY PatchedInit, PatchedStep, PTL DEF PatchSpec

(* Whatever quantities and statuses are patched in, in whatever order with *)
(* reports, closings and deletions, the journal holds at least the goods a *)
(* task accounts for.                                                      *)
THEOREM LedgerCovers == PatchSpec => []LedgerCoversAccounted
  <1>1. PatchInv => LedgerCoversAccounted
    BY DEF PatchInv, Covering, LedgerCoversAccounted
  <1> QED
    BY <1>1, PatchInductive, PTL

(* The branch of update_quantity that logs a reduction and skips it because*)
(* the stock is short is never taken for want of goods of the task itself: *)
(* a correction downwards always moves the stock by all it takes back.     *)
CorrectionsMoveStock ==
    \A t \in AllTasks, q \in Nat :
        Moved(t, q - task[t].accounted) = q - task[t].accounted

THEOREM CorrectionsFindGoods == PatchSpec => []CorrectionsMoveStock
  <1>1. PatchInv => CorrectionsMoveStock
    BY MovedInFull DEF CorrectionsMoveStock
  <1> QED
    BY <1>1, PatchInductive, PTL

=============================================================================
