--------------------------- MODULE OrderAllocation ---------------------------
(***************************************************************************)
(* How the items of sales orders are shared out to the work orders made    *)
(* from them.                                                              *)
(*                                                                         *)
(* Every request reads what is allocated already, compares, and writes     *)
(* later; nothing is locked in between.  Creation from sales orders and    *)
(* edits of a work order commit in one transaction, creation of a work     *)
(* order through its form commits row by row.                              *)
(*                                                                         *)
(* Items and work orders are slots: a deleted one may be taken again.      *)
(*                                                                         *)
(* loose is a history variable: the items for which an allocation was      *)
(* committed on a reading that was out of date by then, and those of which *)
(* a user has lowered the quantity, or raised a row, without any check.    *)
(* raced are the orders to which a work order was attached while somebody  *)
(* was about to replace their items, and those whose items were deleted    *)
(* one by one.                                                             *)
(*                                                                         *)
(* Left out: the status of sales orders, deliveries and the customer are   *)
(* conditions of a request; a PATCH that changes the product of an item or *)
(* brings a deleted one back; two rows of one work order for one item are  *)
(* one.                                                                    *)
(*                                                                         *)
(* Bound: Requests is how many requests there are.                         *)
(***************************************************************************)
EXTENDS Integers, FiniteSetsExt

CONSTANTS
    Users,        \* each with one request under way at a time
    Orders,       \* sales orders
    Items,        \* slots of their items
    Product,      \* the product of each
    Works,        \* slots of work orders
    Quantities,   \* of items and of rows
    Stocks,       \* what may be available of a product
    Requests,
    None

ASSUME AllocationAssumption ==
    /\ IsFiniteSet(Items) /\ IsFiniteSet(Works)
    /\ DOMAIN Product = Items
    /\ Quantities \subseteq Nat \ {0} /\ Stocks \subseteq Nat
    /\ Requests \in Nat

VARIABLES item, work, req, loose, raced, begun

vars == <<item, work, req, loose, raced, begun>>

-----------------------------------------------------------------------------
(* The rows of a work order that come from items of sales orders.          *)
Rows == [Items -> Nat]
NoRows == [i \in Items |-> 0]

Item == [order : Orders, quantity : Nat]
Work == [order : Orders \cup {None}, rows : Rows]

ASSUME NoneIsNoRow == None \notin Item \cup Work

(* A request: what it is about, the rows it is going to write, the work    *)
(* orders it has created and not committed, and what it has read of each   *)
(* item: what others have taken, and the quantity.                         *)
Request == [op : {"idle", "select", "default", "form", "rows", "edit", "replace", "refill"},
            order : Orders \cup {None}, work : Works \cup {None}, rows : Rows,
            drafts : [Works -> Work \cup {None}], seen : [Items -> [taken : Nat, quantity : Nat]]]

NoDrafts == [w \in Works |-> None]
Idle == [op |-> "idle", order |-> None, work |-> None, rows |-> NoRows, drafts |-> NoDrafts,
         seen |-> [i \in Items |-> [taken |-> 0, quantity |-> 0]]]

Init ==
    /\ item \in [Items -> {None} \cup [order : Orders, quantity : Quantities]]
    /\ work = [w \in Works |-> None]
    /\ req = [u \in Users |-> Idle]
    /\ loose = {}
    /\ raced = {}
    /\ begun = 0

-----------------------------------------------------------------------------
ItemsOf(s) == {i \in Items : item[i] # None /\ item[i].order = s}
AllExist(rows) == \A i \in Items : rows[i] > 0 => item[i] # None

(* What committed work orders other than own have taken of an item, and    *)
(* what a request has drafted itself.                                      *)
Amounts(rows, i) == [w \in Works |-> IF rows[w] = None THEN 0 ELSE rows[w].rows[i]]
Taken(i, own) == SumFunctionOnSet(Amounts(work, i), Works \ own)
Drafted(u, i) == SumFunctionOnSet(Amounts(req[u].drafts, i), Works)

(* The quantity a work order may still be made for, as a request sees it:  *)
(* it sees the rows it has written.  The faulty one does not.              *)
RemainingFaulty(u, i, own) == Max({0, item[i].quantity - Taken(i, own)})
Remaining(u, i, own) == Max({0, item[i].quantity - Taken(i, own) - Drafted(u, i)})

Fits(u, rows, own) == \A i \in Items : rows[i] > 0 => rows[i] <= Remaining(u, i, own)

Read(i, own) == [taken |-> Taken(i, own), quantity |-> item[i].quantity]
Noted(u, rows, own) ==
    [i \in Items |-> IF rows[i] > 0 THEN Read(i, own) ELSE req[u].seen[i]]
Outdated(u, rows, own) ==
    {i \in Items : rows[i] > 0 /\ Read(i, own) # req[u].seen[i]}

(* A slot no work order has and no request is going to use.                *)
FreeWork(w) ==
    /\ work[w] = None
    /\ \A v \in Users : req[v].work # w /\ req[v].drafts[w] = None
FreeItem(i) ==
    /\ item[i] = None
    /\ \A v \in Users : req[v].rows[i] = 0 /\ Drafted(v, i) = 0

Done(u) == req' = [req EXCEPT ![u] = Idle]
Start(u) == req[u] = Idle /\ begun < Requests /\ begun' = begun + 1

Attach(orders) ==
    raced' = raced \cup
        {s \in orders : \E v \in Users : req[v].op = "replace" /\ req[v].order = s}

-----------------------------------------------------------------------------
(* Work orders from sales orders.                                          *)

(* Each row is of a product of its own: rows are unique by product and     *)
(* place, and all get the same place.                                      *)
OnePerProduct(rows) ==
    \A i, j \in Items : rows[i] > 0 /\ rows[j] > 0 /\ Product[i] = Product[j] => i = j

Draft(u, op, s, w, rows) ==
    /\ rows # NoRows
    /\ OnePerProduct(rows)
    /\ FreeWork(w)
    /\ req' = [req EXCEPT ![u] = [@ EXCEPT !.op = op, !.seen = Noted(u, rows, {}),
                                  !.drafts[w] = [order |-> s, rows |-> rows]]]
    /\ UNCHANGED <<item, work, loose, raced>>

(* The user says how much to produce of which items.                       *)
PlanSelected(u, s, w, rows) ==
    /\ Start(u)
    /\ \A i \in Items : rows[i] > 0 => i \in ItemsOf(s)
    /\ Fits(u, rows, {})
    /\ Draft(u, "select", s, w, rows)

(* What is neither allocated nor available in stock is produced.  A batch  *)
(* goes on with further orders in the same transaction, also with the same *)
(* one.                                                                    *)
Missing(u, s, available) ==
    [i \in Items |-> IF i \in ItemsOf(s)
                       THEN Max({0, Remaining(u, i, {}) - available[Product[i]]}) ELSE 0]

PlanDefault(u, s, w, available) ==
    /\ Start(u) \/ (req[u].op = "default" /\ UNCHANGED begun)
    /\ Draft(u, "default", s, w, Missing(u, s, available))

CommitDrafts(u) ==
    LET drafts == req[u].drafts
        Written == {w \in Works : drafts[w] # None}
    IN /\ req[u].op \in {"select", "default"}
       /\ \A w \in Written : AllExist(drafts[w].rows)
       /\ work' = [w \in Works |-> IF w \in Written THEN drafts[w] ELSE work[w]]
       /\ loose' = loose \cup UNION {Outdated(u, drafts[w].rows, {}) : w \in Written}
       /\ Attach({drafts[w].order : w \in Written})
       /\ Done(u)
       /\ UNCHANGED <<item, begun>>

-----------------------------------------------------------------------------
(* The form of a work order.  Its rows may come from items of any sales    *)
(* order, whichever it belongs to itself.                                  *)
BeginForm(u, op, w, s, rows, own) ==
    /\ Start(u)
    /\ AllExist(rows)
    /\ Fits(u, rows, own)
    /\ req' = [req EXCEPT ![u] = [Idle EXCEPT !.op = op, !.work = w, !.order = s,
                                  !.rows = rows, !.seen = Noted(u, rows, own)]]
    /\ UNCHANGED <<item, work, loose, raced>>

BeginCreate(u, w, s, rows) == FreeWork(w) /\ BeginForm(u, "form", w, s, rows, {})
BeginEdit(u, w, s, rows) == work[w] # None /\ BeginForm(u, "edit", w, s, rows, {w})

CreateWork(u) ==
    /\ req[u].op = "form"
    /\ work' = [work EXCEPT ![req[u].work] = [order |-> req[u].order, rows |-> NoRows]]
    /\ IF req[u].rows = NoRows THEN Done(u) ELSE req' = [req EXCEPT ![u].op = "rows"]
    /\ Attach({req[u].order})
    /\ UNCHANGED <<item, loose, begun>>

CreateRow(u, i) ==
    LET w == req[u].work
        row == [k \in Items |-> IF k = i THEN req[u].rows[i] ELSE 0]
        left == [req[u].rows EXCEPT ![i] = 0]
    IN /\ req[u].op = "rows"
       /\ req[u].rows[i] > 0
       /\ work[w] # None /\ item[i] # None
       /\ work' = [work EXCEPT ![w].rows[i] = @ + req[u].rows[i]]
       /\ loose' = loose \cup Outdated(u, row, {})
       /\ IF left = NoRows THEN Done(u) ELSE req' = [req EXCEPT ![u].rows = left]
       /\ UNCHANGED <<item, raced, begun>>

(* An edit deletes the rows and creates those it was sent.                 *)
CommitEdit(u) ==
    LET w == req[u].work
    IN /\ req[u].op = "edit"
       /\ work[w] # None
       /\ AllExist(req[u].rows)
       /\ work' = [work EXCEPT ![w] = [order |-> req[u].order, rows |-> req[u].rows]]
       /\ loose' = loose \cup Outdated(u, req[u].rows, {w})
       /\ Attach({req[u].order})
       /\ Done(u)
       /\ UNCHANGED <<item, begun>>

(* An edit without rows may still give the work order to another order.    *)
EditHeader(u, w, s) ==
    /\ Start(u)
    /\ work[w] # None
    /\ work' = [work EXCEPT ![w].order = s]
    /\ Attach({s})
    /\ UNCHANGED <<item, req, loose>>

(* The endpoint of rows compares nothing.                                  *)
SetRow(u, w, i, quantity) ==
    /\ Start(u)
    /\ work[w] # None /\ item[i] # None
    /\ work' = [work EXCEPT ![w].rows[i] = quantity]
    /\ loose' = IF quantity > work[w].rows[i] THEN loose \cup {i} ELSE loose
    /\ UNCHANGED <<item, req, raced>>

DeleteWork(u, w) ==
    /\ Start(u)
    /\ work[w] # None
    /\ work' = [work EXCEPT ![w] = None]
    /\ UNCHANGED <<item, req, loose, raced>>

-----------------------------------------------------------------------------
(* The items of a sales order.                                             *)

(* A row outlives the item it was made for, as one of no order's.  The     *)
(* faulty one leaves it as it is.                                          *)
CutOffFaulty(gone) == work
CutOff(gone) ==
    [w \in Works |->
        IF work[w] = None THEN None
        ELSE [work[w] EXCEPT !.rows = [i \in Items |-> IF i \in gone THEN 0 ELSE @[i]]]]

DeleteItems(gone) ==
    /\ item' = [i \in Items |-> IF i \in gone THEN None ELSE item[i]]
    /\ work' = CutOff(gone)
    /\ loose' = loose \ gone

(* An edit which sends items replaces them, unless the order has work      *)
(* orders.  The faulty one does not ask.                                   *)
MayReplaceFaulty(s) == TRUE
MayReplace(s) == \A w \in Works : work[w] # None => work[w].order # s

BeginReplace(u, s) ==
    /\ Start(u)
    /\ MayReplace(s)
    /\ req' = [req EXCEPT ![u] = [Idle EXCEPT !.op = "replace", !.order = s]]
    /\ UNCHANGED <<item, work, loose, raced>>

Replace(u) ==
    /\ req[u].op = "replace"
    /\ DeleteItems(ItemsOf(req[u].order))
    /\ req' = [req EXCEPT ![u].op = "refill"]
    /\ UNCHANGED <<raced, begun>>

AddItem(u, i, quantity) ==
    /\ req[u].op = "refill"
    /\ FreeItem(i)
    /\ item' = [item EXCEPT ![i] = [order |-> req[u].order, quantity |-> quantity]]
    /\ Done(u) \/ UNCHANGED req
    /\ UNCHANGED <<work, loose, raced, begun>>

SetQuantity(u, i, quantity) ==
    /\ Start(u)
    /\ item[i] # None
    /\ item' = [item EXCEPT ![i].quantity = quantity]
    /\ loose' = IF quantity < item[i].quantity THEN loose \cup {i} ELSE loose
    /\ UNCHANGED <<work, req, raced>>

DeleteItem(u, i) ==
    /\ Start(u)
    /\ item[i] # None
    /\ DeleteItems({i})
    /\ raced' = raced \cup {item[i].order}
    /\ UNCHANGED req

(* A request is refused, or its worker dies: a transaction is rolled back, *)
(* rows committed one by one stay.                                         *)
Fail(u) ==
    /\ req[u] # Idle
    /\ Done(u)
    /\ UNCHANGED <<item, work, loose, raced, begun>>

-----------------------------------------------------------------------------
Products == {Product[i] : i \in Items}
SomeRows == [Items -> Quantities \cup {0}]

Creating(u) ==
    \/ \E s \in Orders, w \in Works :
          \/ \E rows \in SomeRows : PlanSelected(u, s, w, rows)
          \/ \E available \in [Products -> Stocks] : PlanDefault(u, s, w, available)
    \/ CommitDrafts(u)

Editing(u) ==
    \/ \E w \in Works, s \in Orders \cup {None} :
          \/ \E rows \in SomeRows : BeginCreate(u, w, s, rows) \/ BeginEdit(u, w, s, rows)
          \/ EditHeader(u, w, s)
    \/ CreateWork(u) \/ CommitEdit(u)
    \/ \E i \in Items : CreateRow(u, i)
    \/ \E w \in Works, i \in Items, q \in Quantities \cup {0} : SetRow(u, w, i, q)
    \/ \E w \in Works : DeleteWork(u, w)

Ordering(u) ==
    \/ \E s \in Orders : BeginReplace(u, s)
    \/ Replace(u)
    \/ \E i \in Items, q \in Quantities : AddItem(u, i, q) \/ SetQuantity(u, i, q)
    \/ \E i \in Items : DeleteItem(u, i)

Next == \E u \in Users : Creating(u) \/ Editing(u) \/ Ordering(u) \/ Fail(u)

Spec == Init /\ [][Next]_vars

-----------------------------------------------------------------------------
(* Types of all variables; a row names an item that exists.                *)
TypeOK ==
    /\ item \in [Items -> {None} \cup Item]
    /\ work \in [Works -> {None} \cup Work]
    /\ \A w \in Works : work[w] # None => AllExist(work[w].rows)
    /\ req \in [Users -> Request]
    /\ loose \subseteq Items
    /\ raced \subseteq Orders
    /\ begun \in Nat

(* Work orders never produce more of an item than was ordered, whichever   *)
(* of the three ways creates their rows and however the rows are edited,   *)
(* merged and batched: only readings out of date and changes that compare  *)
(* nothing can exceed it.                                                  *)
AllocatedWithinOrdered ==
    \A i \in Items \ loose : item[i] # None => Taken(i, {}) <= item[i].quantity

(* The work orders of a sales order keep the items they were made for: an  *)
(* edit of the order does not cut them off.                                *)
SourcesKeepItems ==
    [][\A w \in Works, i \in Items :
          /\ work[w] # None /\ work[w].rows[i] > 0
          /\ item[i] # None /\ item[i].order = work[w].order
          /\ item'[i] = None
          => work[w].order \in raced']_vars
=============================================================================
