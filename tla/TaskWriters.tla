---------------------------- MODULE TaskWriters ----------------------------
(***************************************************************************)
(* The writers of WorkOrderTask rows, statement by statement.              *)
(*                                                                         *)
(* Outside a transaction every SQL statement commits on its own, so        *)
(* requests interleave between any two statements.  Saving a task takes    *)
(* two of them: one moves the version column forward if it is still the    *)
(* one that was read, the next writes the fields.  Claiming and assigning  *)
(* run in a transaction and hold the row lock from their read to their     *)
(* commit: until then no statement of another request writes the row, and  *)
(* nobody sees what they wrote.                                            *)
(*                                                                         *)
(* A request may also die between two statements: the worker is killed,    *)
(* and an open transaction is rolled back.                                 *)
(*                                                                         *)
(* A definition whose name contains Faulty is a broken variant of the one  *)
(* that follows it.  Nothing uses it; put in the place of the right one it *)
(* makes one of the properties fail.                                       *)
(***************************************************************************)
EXTENDS Integers, FiniteSets

CONSTANTS
    Tasks,        \* packaging tasks of one product
    Reports,      \* update_quantity requests
    Bulks,        \* items of batch_update_quantity requests
    Moves,        \* assign requests that only change the department
    Claims,       \* claim requests
    Assigns,      \* assignments to an operator by a supervisor
    Subject,      \* the task of each request
    Increment,    \* the quantity a report or a bulk item adds
    Person,       \* the operator of a claim or an assignment
    Operators,
    Nobody,       \* no operator, no lock holder
    Target,       \* production_quantity of the tasks
    Capacity      \* DEFAULT_MAX_TASKS_PER_OPERATOR

Unlocked == Reports \cup Bulks \cup Moves
Locked == Claims \cup Assigns
Requests == Unlocked \cup Locked

ASSUME RequestAssumption ==
    /\ Subject \in [Requests -> Tasks]
    /\ Increment \in [Reports \cup Bulks -> Nat]
    /\ Person \in [Locked -> Operators]
    /\ Nobody \notin Operators /\ Nobody \notin Requests
    /\ Unlocked \cap Locked = {}
    /\ Reports \cap Moves = {} /\ Bulks \cap Moves = {} /\ Reports \cap Bulks = {}
    /\ Claims \cap Assigns = {}
    /\ Target \in Nat
    /\ Capacity \in Nat

VARIABLES
    row,        \* the committed row of each task
    stock,      \* Product.stock_quantity
    journal,    \* sum over ProductStockLog
    holder,     \* the request that holds the lock on a task's row
    pc,         \* where each request stands
    mine        \* the instance each request has loaded: a row, and the stock

vars == <<row, stock, journal, holder, pc, mine>>

Row == [version : Int, qty : Nat, accounted : Nat, operator : Operators \cup {Nobody}]
Instance == [version : Int, qty : Nat, accounted : Nat,
             operator : Operators \cup {Nobody}, stock : Nat]
Steps == {"idle", "bump", "recheck", "write", "book", "bump again", "recheck again",
          "write again", "locked", "done", "refused", "failed", "dead"}
Ended == {"done", "refused", "failed", "dead"}

NewRow == [version |-> 1, qty |-> 0, accounted |-> 0, operator |-> Nobody]
NoInstance == [version |-> 0, qty |-> 0, accounted |-> 0, operator |-> Nobody, stock |-> 0]

Init ==
    /\ row = [t \in Tasks |-> NewRow]
    /\ stock = 0
    /\ journal = 0
    /\ holder = [t \in Tasks |-> Nobody]
    /\ pc = [r \in Requests |-> "idle"]
    /\ mine = [r \in Requests |-> NoInstance]

Free(r) == holder[Subject[r]] \in {Nobody, r}
Goto(r, step) == pc' = [pc EXCEPT ![r] = step]

-----------------------------------------------------------------------------
(* Requests outside a transaction                                          *)

(* Loads the row (with its product) and refuses on what it sees: the       *)
(* report must fit the target.  A bulk item raises the version of its      *)
(* instance before it saves it; a department change may drop the operator, *)
(* who may not belong to the new department.                               *)
Loaded(r, o) ==
    LET seen == row[Subject[r]]
    IN [version |-> IF r \in Bulks THEN seen.version + 1 ELSE seen.version,
        qty |-> IF r \in Moves THEN seen.qty ELSE seen.qty + Increment[r],
        accounted |-> seen.accounted, operator |-> o, stock |-> stock]

Load(r) ==
    /\ pc[r] = "idle"
    /\ r \in Unlocked
    /\ \E o \in {row[Subject[r]].operator, Nobody} :
         /\ r \notin Moves => o = row[Subject[r]].operator
         /\ mine' = [mine EXCEPT ![r] = Loaded(r, o)]
         /\ Goto(r, IF Loaded(r, o).qty <= Target \/ r \in Moves
                    THEN "bump" ELSE "refused")
    /\ UNCHANGED <<row, stock, journal, holder>>

(* First half of save: UPDATE .. SET version = v + 1 WHERE version = v.    *)
Bump(r, from, next, otherwise) ==
    LET t == Subject[r]
        hit == row[t].version = mine[r].version
    IN /\ pc[r] = from
       /\ Free(r)
       /\ row' = IF hit THEN [row EXCEPT ![t].version = @ + 1] ELSE row
       /\ mine' = IF hit THEN [mine EXCEPT ![r].version = @ + 1] ELSE mine
       /\ Goto(r, IF hit THEN next ELSE otherwise)
       /\ UNCHANGED <<stock, journal, holder>>

(* Nothing was updated: save looks at the row again, and carries on as if  *)
(* it had been when the version it finds is by now the expected one.       *)
Recheck(r, from, next) ==
    LET hit == row[Subject[r]].version = mine[r].version
    IN /\ pc[r] = from
       /\ mine' = IF hit THEN [mine EXCEPT ![r].version = @ + 1] ELSE mine
       /\ Goto(r, IF hit THEN next ELSE "failed")
       /\ UNCHANGED <<row, stock, journal, holder>>

(* What the second half of save leaves in the row.  A department change    *)
(* names its fields; the others write the whole instance, version too.     *)
(* The faulty one adds to the column instead of writing the value that was *)
(* checked.                                                                *)
WrittenFaulty(r) ==
    IF r \in Moves THEN [row[Subject[r]] EXCEPT !.operator = mine[r].operator]
    ELSE [version |-> mine[r].version, qty |-> row[Subject[r]].qty + Increment[r],
          accounted |-> mine[r].accounted, operator |-> mine[r].operator]

Written(r) ==
    IF r \in Moves THEN [row[Subject[r]] EXCEPT !.operator = mine[r].operator]
    ELSE [version |-> mine[r].version, qty |-> mine[r].qty,
          accounted |-> mine[r].accounted, operator |-> mine[r].operator]

Write(r) ==
    /\ pc[r] = "write"
    /\ Free(r)
    /\ row' = [row EXCEPT ![Subject[r]] = Written(r)]
    /\ Goto(r, IF r \in Reports /\ mine[r].qty # mine[r].accounted
               THEN "book" ELSE "done")
    /\ UNCHANGED <<stock, journal, holder, mine>>

(* Product.add_stock: the stock that was loaded with the task, plus the    *)
(* part of the report not accounted for; the journal gets the difference.  *)
Owed(r) == mine[r].qty - mine[r].accounted

Book(r) ==
    /\ pc[r] = "book"
    /\ Owed(r) > 0
    /\ stock' = mine[r].stock + Owed(r)
    /\ journal' = journal + Owed(r)
    /\ mine' = [mine EXCEPT ![r].accounted = mine[r].qty]
    /\ Goto(r, "bump again")
    /\ UNCHANGED <<row, holder>>

(* Has a sign wrong: takes out the report as well.                         *)
UnbookFaulty(r) ==
    /\ pc[r] = "book"
    /\ Owed(r) < 0
    /\ mine[r].stock >= -Owed(r)
    /\ stock' = mine[r].stock - mine[r].accounted - mine[r].qty
    /\ journal' = journal + Owed(r)
    /\ mine' = [mine EXCEPT ![r].accounted = mine[r].qty]
    /\ Goto(r, "bump again")
    /\ UNCHANGED <<row, holder>>

(* Product.reduce_stock, when the row says more is accounted for than the  *)
(* instance reports.  Too little stock is logged and skipped.              *)
Unbook(r) ==
    LET some == mine[r].stock >= -Owed(r)
    IN /\ pc[r] = "book"
       /\ Owed(r) < 0
       /\ stock' = IF some THEN mine[r].stock + Owed(r) ELSE stock
       /\ journal' = IF some THEN journal + Owed(r) ELSE journal
       /\ mine' = [mine EXCEPT ![r].accounted = mine[r].qty]
       /\ Goto(r, "bump again")
       /\ UNCHANGED <<row, holder>>

(* The second save of a report names one field.                            *)
WriteAgain(r) ==
    /\ pc[r] = "write again"
    /\ Free(r)
    /\ row' = [row EXCEPT ![Subject[r]].accounted = mine[r].accounted]
    /\ Goto(r, "done")
    /\ UNCHANGED <<stock, journal, holder, mine>>

-----------------------------------------------------------------------------
(* Claims and assignments                                                  *)

(* select_for_update: waits for the lock, then reads the committed row.    *)
Lock(r) ==
    LET t == Subject[r]
    IN /\ pc[r] = "idle"
       /\ r \in Locked
       /\ holder[t] = Nobody
       /\ holder' = [holder EXCEPT ![t] = r]
       /\ mine' = [mine EXCEPT ![r] =
                     [version |-> row[t].version, qty |-> row[t].qty,
                      accounted |-> row[t].accounted, operator |-> row[t].operator,
                      stock |-> stock]]
       /\ Goto(r, "locked")
       /\ UNCHANGED <<row, stock, journal>>

Unlock(r) ==
    holder' = [holder EXCEPT ![Subject[r]] = IF @ = r THEN Nobody ELSE @]

(* Tasks in progress that an operator has.                                 *)
Busy(o) == {t \in Tasks : row[t].operator = o /\ row[t].qty \in 1 .. Target - 1}

(* The operator has room for one more; a finished task takes no operator.  *)
Permitted(r) ==
    /\ Cardinality(Busy(Person[r])) < Capacity
    /\ mine[r].qty < Target

(* Takes a task from its operator.                                         *)
ClaimableFaulty(r) == Permitted(r)

(* A claim wants a task that has no operator, an assignment does not ask.  *)
Claimable(r) ==
    /\ Permitted(r)
    /\ r \in Claims => mine[r].operator = Nobody

(* The task already has the operator who claims it.                        *)
AlreadyClaimed(r) ==
    /\ Permitted(r)
    /\ r \in Claims
    /\ mine[r].operator = Person[r]

Taken(r) ==
    LET seen == row[Subject[r]]
    IN [version |-> seen.version + 1, qty |-> seen.qty,
        accounted |-> seen.accounted, operator |-> Person[r]]

(* The save inside the transaction, both statements, and its commit.       *)
Commit(r) ==
    /\ pc[r] = "locked"
    /\ Claimable(r)
    /\ row[Subject[r]].version = mine[r].version
    /\ row' = [row EXCEPT ![Subject[r]] = Taken(r)]
    /\ Unlock(r)
    /\ Goto(r, "done")
    /\ UNCHANGED <<stock, journal, mine>>

(* A claim of one's own task is answered with success and changes nothing. *)
Reaffirm(r) ==
    /\ pc[r] = "locked"
    /\ AlreadyClaimed(r)
    /\ Unlock(r)
    /\ Goto(r, "done")
    /\ UNCHANGED <<row, stock, journal, mine>>

Refuse(r) ==
    /\ pc[r] = "locked"
    /\ ~AlreadyClaimed(r)
    /\ ~(Claimable(r) /\ row[Subject[r]].version = mine[r].version)
    /\ Unlock(r)
    /\ Goto(r, "refused")
    /\ UNCHANGED <<row, stock, journal, mine>>

-----------------------------------------------------------------------------
(* The transaction of a dead worker stays open.                            *)
DieFaulty(r) ==
    /\ pc[r] \notin Ended \cup {"idle"}
    /\ Goto(r, "dead")
    /\ UNCHANGED <<row, stock, journal, holder, mine>>

Die(r) ==
    /\ pc[r] \notin Ended \cup {"idle"}
    /\ Unlock(r)
    /\ Goto(r, "dead")
    /\ UNCHANGED <<row, stock, journal, mine>>

Advance(r) ==
    \/ Load(r)
    \/ Bump(r, "bump", "write", "recheck")
    \/ Recheck(r, "recheck", "write")
    \/ Write(r)
    \/ Book(r) \/ Unbook(r)
    \/ Bump(r, "bump again", "write again", "recheck again")
    \/ Recheck(r, "recheck again", "write again")
    \/ WriteAgain(r)
    \/ Lock(r) \/ Commit(r) \/ Reaffirm(r) \/ Refuse(r)

Next == \E r \in Requests : Advance(r) \/ Die(r)

Spec == Init /\ [][Next]_vars

(* The server goes on with a request it has taken, and the database grants *)
(* a free row lock.                                                        *)
FairSpec == Spec /\ \A r \in Requests : WF_vars(Advance(r))

-----------------------------------------------------------------------------
(* Properties                                                              *)

(* Rows, locks and instances keep their types; the stock is never taken    *)
(* below zero, although it is written from stale copies.                   *)
TypeOK ==
    /\ row \in [Tasks -> Row]
    /\ stock \in Nat
    /\ journal \in Int
    /\ holder \in [Tasks -> Requests \cup {Nobody}]
    /\ pc \in [Requests -> Steps]
    /\ mine \in [Requests -> Instance]

(* However the writers of a task interleave, die or overwrite one another, *)
(* the row never reports more than the task has to make.                   *)
QuantityInRange == \A t \in Tasks : row[t].qty <= Target

(* Claims and assignments alone implement the register of owners.          *)
Register == INSTANCE ClaimRegister
    WITH owner <- [t \in Tasks |-> row[t].operator],
         granted <- {r \in Locked : pc[r] = "done"}
ImplementsRegister == Register!Spec

(* The promise below, where the program keeps it: as long as no request    *)
(* that takes no lock has touched the task, two operators never both claim *)
(* it with success, unless a supervisor has assigned it to one of them.    *)
Quiet(t) == \A x \in Unlocked : Subject[x] = t => pc[x] = "idle"

AssignedTo(t) == {Person[x] : x \in {x \in Assigns : Subject[x] = t /\ pc[x] = "done"}}

ClaimsKeepApart ==
    \A r, s \in Claims :
        /\ Subject[r] = Subject[s] /\ Person[r] # Person[s] /\ Quiet(Subject[r])
        /\ pc[r] = "done" /\ pc[s] = "done"
        => {Person[r], Person[s]} \cap AssignedTo(Subject[r]) # {}

(* No request waits for ever, not even for the lock of a request that has  *)
(* died: every one is answered, or its worker dies.                        *)
EveryRequestEnds == \A r \in Requests : <>(pc[r] \in Ended)

-----------------------------------------------------------------------------
(* What the repository says of the program and the program does not do.    *)

(* "Keeps two operators from claiming the same task at the same time."     *)
ClaimsExclude ==
    \A r, s \in Claims :
      /\ Person[r] # Person[s] /\ Subject[r] = Subject[s]
      /\ \A a \in Assigns \cup Moves : Subject[a] = Subject[r] => pc[a] = "idle"
      => ~(pc[r] = "done" /\ pc[s] = "done")
=============================================================================
