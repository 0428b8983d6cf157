----------------------- MODULE OrderAllocation_proofs -----------------------
(***************************************************************************)
(* Proofs about OrderAllocation, for any users, sales orders, items, work  *)
(* orders and quantities.                                                  *)
(***************************************************************************)
EXTENDS OrderAllocation, SumTheorems

-----------------------------------------------------------------------------
(* Tables of work orders, committed or drafted, and what they take.        *)
Tables == [Works -> {None} \cup Work]
Amount(rows, w, i) == IF rows[w] = None THEN 0 ELSE rows[w].rows[i]
TakenBy(rows, i) == SumFunctionOnSet(Amounts(rows, i), Works)

LEMMA AmountIsNat ==
  ASSUME NEW rows \in Tables, NEW i \in Items, NEW w \in Works
  PROVE  Amounts(rows, i)[w] = Amount(rows, w, i) /\ Amount(rows, w, i) \in Nat
  BY DEF Amounts, Amount, Tables, Work, Rows

LEMMA TakenIsNat ==
  ASSUME NEW rows \in Tables, NEW i \in Items
  PROVE  TakenBy(rows, i) \in Nat
  BY AmountIsNat, SumIsNat, AllocationAssumption DEF TakenBy

LEMMA TakenChanges ==
  ASSUME NEW old \in Tables, NEW new \in Tables, NEW i \in Items, NEW w \in Works,
         \A x \in Works \ {w} : new[x] = old[x]
  PROVE  TakenBy(new, i) = TakenBy(old, i) + (Amount(new, w, i) - Amount(old, w, i))
<1>1. \A x \in Works : /\ Amounts(old, i)[x] = Amount(old, x, i) /\ Amount(old, x, i) \in Nat
                       /\ Amounts(new, i)[x] = Amount(new, x, i) /\ Amount(new, x, i) \in Nat
  BY AmountIsNat
<1>2. \A x \in Works \ {w} : Amount(new, x, i) = Amount(old, x, i)
  BY DEF Amount
<1> QED
  BY <1>1, <1>2, SumChange, AllocationAssumption DEF TakenBy

LEMMA TakenShrinks ==
  ASSUME NEW old \in Tables, NEW new \in Tables, NEW i \in Items,
         \A x \in Works : Amount(new, x, i) <= Amount(old, x, i)
  PROVE  TakenBy(new, i) <= TakenBy(old, i)
<1>1. \A x \in Works : /\ Amounts(old, i)[x] = Amount(old, x, i) /\ Amount(old, x, i) \in Nat
                       /\ Amounts(new, i)[x] = Amount(new, x, i) /\ Amount(new, x, i) \in Nat
  BY AmountIsNat
<1> QED
  BY <1>1, SumMonotone, AllocationAssumption DEF TakenBy

LEMMA TakenTogether ==
  ASSUME NEW old \in Tables, NEW drafts \in Tables, NEW new \in Tables, NEW i \in Items,
         \A x \in Works : Amount(new, x, i) = Amount(old, x, i) + Amount(drafts, x, i)
  PROVE  TakenBy(new, i) = TakenBy(old, i) + TakenBy(drafts, i)
<1>1. \A x \in Works : /\ Amounts(old, i)[x] = Amount(old, x, i) /\ Amount(old, x, i) \in Nat
                       /\ Amounts(drafts, i)[x] = Amount(drafts, x, i) /\ Amount(drafts, x, i) \in Nat
                       /\ Amounts(new, i)[x] = Amount(new, x, i)
  BY AmountIsNat
<1> QED
  BY <1>1, SumBoth, AllocationAssumption DEF TakenBy

LEMMA TakenOfNothing ==
  ASSUME NEW rows \in Tables, NEW i \in Items, \A x \in Works : Amount(rows, x, i) = 0
  PROVE  TakenBy(rows, i) = 0
<1> DEFINE double == TakenBy(rows, i) + TakenBy(rows, i)
<1>1. TakenBy(rows, i) = double
  BY TakenTogether
<1> QED
  BY <1>1, TakenIsNat

(* What is taken besides one work order.                                   *)
LEMMA TakenBesides ==
  ASSUME NEW rows \in Tables, NEW i \in Items, NEW w \in Works
  PROVE  /\ TakenBy(rows, i) = Amount(rows, w, i) + SumFunctionOnSet(Amounts(rows, i), Works \ {w})
         /\ SumFunctionOnSet(Amounts(rows, i), Works \ {w}) \in Nat
<1>1. \A x \in Works : Amounts(rows, i)[x] = Amount(rows, x, i) /\ Amount(rows, x, i) \in Nat
  BY AmountIsNat
<1>2. IsFiniteSet(Works) /\ IsFiniteSet(Works \ {w})
  BY AllocationAssumption, FS_RemoveElement
<1>3. SumFunctionOnSet(Amounts(rows, i), Works \ {w}) \in Nat
  BY <1>1, <1>2, SumIsNat
<1> QED
  BY <1>1, <1>2, <1>3, SumTakeOut DEF TakenBy

LEMMA TakenIs ==
  /\ \A i \in Items : Taken(i, {}) = TakenBy(work, i)
  /\ \A u \in Users, i \in Items : Drafted(u, i) = TakenBy(req[u].drafts, i)
<1>1. Works \ {} = Works
  OBVIOUS
<1> QED
  BY <1>1 DEF Taken, TakenBy, Drafted

LEMMA MaxOfZero == \A n \in Int : Max({0, n}) = IF n > 0 THEN n ELSE 0
  BY DEF Max

-----------------------------------------------------------------------------
(* What a request keeps besides its type: a form knows its work order, a   *)
(* replacement its sales order, and a request that is under way holds rows *)
(* or drafts that fitted what it read.                                     *)
Ready(r) ==
    /\ r.op \in {"form", "rows", "edit"} => r.work \in Works
    /\ r.op \in {"replace", "refill"} => r.order \in Orders

Promised(r) == \A i \in Items :
    /\ r.op \in {"select", "default"} /\ TakenBy(r.drafts, i) > 0 =>
          r.seen[i].taken + TakenBy(r.drafts, i) <= r.seen[i].quantity
    /\ r.op \in {"form", "rows", "edit"} /\ r.rows[i] > 0 =>
          r.seen[i].taken + r.rows[i] <= r.seen[i].quantity

Covered(r) == r.op = "replace" => r.order \in raced \/ MayReplace(r.order)

Inv ==
    /\ TypeOK
    /\ \A u \in Users : Ready(req[u]) /\ Promised(req[u]) /\ Covered(req[u])
    /\ AllocatedWithinOrdered

LEMMA RowsAreRows == SomeRows \subseteq Rows /\ NoRows \in Rows
<1>1. Quantities \cup {0} \subseteq Nat
  BY AllocationAssumption
<1> QED
  BY <1>1 DEF SomeRows, Rows, NoRows

LEMMA IdleIsRequest == Idle \in Request /\ NoDrafts \in Tables
  BY RowsAreRows DEF Idle, Request, NoDrafts, Tables

LEMMA NoneIsNothing == \A x \in Item \cup Work : x # None
  BY NoneIsNoRow

(* Nothing is read of an item that does not exist.                         *)
LEMMA NotedIsSeen ==
  ASSUME TypeOK, NEW u \in Users, NEW rows \in Rows, AllExist(rows),
         NEW own \in {{}} \cup {{w} : w \in Works}
  PROVE  /\ Noted(u, rows, own) \in [Items -> [taken : Nat, quantity : Nat]]
         /\ \A i \in Items : Taken(i, own) \in Nat
<1>1. ASSUME NEW i \in Items PROVE Taken(i, own) \in Nat
  <2>1. work \in Tables
    BY DEF TypeOK, Tables
  <2>2. CASE own = {}
    BY <2>1, <2>2, TakenIsNat, TakenIs
  <2>3. CASE own # {}
    <3>1. PICK w \in Works : own = {w}
      BY <2>3
    <3> QED
      BY <2>1, <3>1, TakenBesides DEF Taken
  <2> QED
    BY <2>2, <2>3
<1>2. ASSUME NEW i \in Items, rows[i] > 0
      PROVE  Read(i, own) \in [taken : Nat, quantity : Nat]
  <2>1. item[i] \in Item
    BY <1>2 DEF AllExist, TypeOK
  <2> QED
    BY <1>1, <2>1 DEF Read, Item
<1>3. req[u].seen \in [Items -> [taken : Nat, quantity : Nat]]
  BY DEF TypeOK, Request
<1> QED
  BY <1>1, <1>2, <1>3 DEF Noted

(* What fits an item is at most what has not been taken or drafted.        *)
LEMMA FitsIs ==
  ASSUME TypeOK, NEW u \in Users, NEW i \in Items, item[i] # None,
         NEW own \in {{}} \cup {{w} : w \in Works}
  PROVE  /\ item[i].quantity \in Nat /\ Taken(i, own) \in Nat /\ Drafted(u, i) \in Nat
         /\ Remaining(u, i, own) \in Nat
         /\ \A n \in Nat : n > 0 /\ n <= Remaining(u, i, own) =>
               (Taken(i, own) + Drafted(u, i)) + n <= item[i].quantity
<1>1. item[i].quantity \in Nat
  BY DEF TypeOK, Item
<1>2. Taken(i, own) \in Nat
  BY NotedIsSeen, RowsAreRows DEF AllExist, NoRows
<1>3. Drafted(u, i) \in Nat
  <2>1. req[u].drafts \in Tables
    BY DEF TypeOK, Request, Tables
  <2> QED
    BY <2>1, TakenIsNat, TakenIs
<1> QED
  BY <1>1, <1>2, <1>3, MaxOfZero DEF Remaining

LEMMA IdlePromisesNothing == Ready(Idle) /\ Promised(Idle) /\ Idle.op # "replace"
  BY DEF Idle, Ready, Promised

(* A step of one request leaves the others their promises; a replacement   *)
(* learns of work orders attached meanwhile.                               *)
LEMMA Bystanders ==
  ASSUME Inv, NEW u \in Users, NEW r \in Request,
         req' = [req EXCEPT ![u] = r],
         Ready(r), Promised(r), r.op = "replace" => r = req[u] \/ MayReplace(r.order)',
         raced \subseteq raced',
         \A w \in Works : work'[w] # None =>
            \/ work[w] # None /\ work'[w].order = work[w].order
            \/ work'[w].order \in raced'
            \/ ~ \E v \in Users : req[v].op = "replace" /\ req[v].order = work'[w].order
  PROVE  /\ req' \in [Users -> Request]
         /\ (\A v \in Users : Ready(req[v]) /\ Promised(req[v]) /\ Covered(req[v]))'
<1>1. req \in [Users -> Request]
  BY DEF Inv, TypeOK
<1>2. ASSUME NEW v \in Users PROVE Covered(req[v])'
  <2>1. Covered(req[v])
    BY DEF Inv
  <2>2. CASE req'[v] = req[v]
    BY <2>1, <2>2 DEF Covered, MayReplace
  <2>3. CASE req'[v] # req[v]
    BY <1>1, <2>3 DEF Covered
  <2> QED
    BY <2>2, <2>3
<1>3. ASSUME NEW v \in Users PROVE Ready(req'[v]) /\ Promised(req'[v])
  <2>1. CASE v = u
    BY <1>1, <2>1
  <2>2. CASE v # u
    BY <1>1, <2>2 DEF Inv
  <2> QED
    BY <2>1, <2>2
<1> QED
  BY <1>1, <1>2, <1>3

(* A step that only reads.                                                 *)
LEMMA Reading ==
  ASSUME Inv, NEW u \in Users, NEW r \in Request,
         req' = [req EXCEPT ![u] = r],
         Ready(r), Promised(r), r.op = "replace" => r = req[u] \/ MayReplace(r.order),
         UNCHANGED <<item, work, loose, raced>>, begun' \in Nat
  PROVE  Inv'
<1>1. MayReplace(r.order) => MayReplace(r.order)'
  BY DEF MayReplace
<1>2. /\ req' \in [Users -> Request]
      /\ (\A v \in Users : Ready(req[v]) /\ Promised(req[v]) /\ Covered(req[v]))'
  BY <1>1, Bystanders
<1>3. TypeOK'
  BY <1>2 DEF Inv, TypeOK, AllExist
<1>4. AllocatedWithinOrdered'
  BY DEF Inv, AllocatedWithinOrdered, Taken
<1> QED
  BY <1>2, <1>3, <1>4 DEF Inv

(* A step that changes one work order.                                     *)
Value(x, i) == IF x = None THEN 0 ELSE x.rows[i]

LEMMA OneWork ==
  ASSUME Inv, NEW w \in Works, NEW x \in {None} \cup Work,
         work' = [work EXCEPT ![w] = x], item' = item, loose \subseteq loose',
         x # None => AllExist(x.rows),
         \A i \in Items \ loose' : item[i] # None /\ Value(x, i) > Value(work[w], i) =>
            Taken(i, {w}) + Value(x, i) <= item[i].quantity
  PROVE  /\ work' \in [Works -> {None} \cup Work]
         /\ (\A v \in Works : work[v] # None => AllExist(work[v].rows))'
         /\ AllocatedWithinOrdered'
<1>1. work \in Tables /\ work' \in Tables
  BY DEF Inv, TypeOK, Tables
<1>2. (\A v \in Works : work[v] # None => AllExist(work[v].rows))'
  BY <1>1 DEF Inv, TypeOK, Tables, AllExist
<1>3. ASSUME NEW i \in Items \ loose', item[i] # None
      PROVE  TakenBy(work', i) <= item[i].quantity
  <2>1. TakenBy(work, i) <= item[i].quantity /\ item[i].quantity \in Nat
    BY <1>3, TakenIs DEF Inv, AllocatedWithinOrdered, TypeOK, Item
  <2>2. /\ Amount(work, w, i) = Value(work[w], i) /\ Amount(work, w, i) \in Nat
        /\ Amount(work', w, i) = Value(x, i) /\ Amount(work', w, i) \in Nat
    <3>1. Amount(work, w, i) \in Nat /\ Amount(work', w, i) \in Nat
      BY <1>1, AmountIsNat
    <3>2. work'[w] = x
      BY <1>1 DEF Tables
    <3> QED
      BY <3>1, <3>2 DEF Amount, Value
  <2>3. /\ TakenBy(work, i) = Value(work[w], i) + Taken(i, {w})
        /\ Taken(i, {w}) \in Nat
    BY <1>1, <2>2, TakenBesides DEF Taken
  <2>4. TakenBy(work', i) = TakenBy(work, i) + (Value(x, i) - Value(work[w], i))
    <3>1. \A y \in Works \ {w} : work'[y] = work[y]
      BY <1>1 DEF Tables
    <3>2. TakenBy(work', i) = TakenBy(work, i) + (Amount(work', w, i) - Amount(work, w, i))
      BY <1>1, <3>1, TakenChanges
    <3> QED
      BY <2>2, <3>2
  <2> QED
    BY <1>3, <2>1, <2>2, <2>3, <2>4
<1>4. AllocatedWithinOrdered'
  <2>1. \A i \in Items : Taken(i, {})' = TakenBy(work', i)
    BY TakenIs DEF Taken, TakenBy
  <2> QED
    BY <1>3, <2>1 DEF AllocatedWithinOrdered
<1> QED
  BY <1>1, <1>2, <1>4 DEF Tables

-----------------------------------------------------------------------------
(* One lemma per kind of step.                                             *)

LEMMA Drafting ==
  ASSUME Inv, NEW u \in Users, NEW s \in Orders, NEW w \in Works, NEW rows \in Rows,
         NEW op \in {"select", "default"},
         req[u] = Idle \/ req[u].op = "default",
         \A i \in Items : rows[i] > 0 => item[i] # None /\ rows[i] <= Remaining(u, i, {}),
         Draft(u, op, s, w, rows), begun' \in Nat
  PROVE  Inv'
<1> DEFINE d == [order |-> s, rows |-> rows]
           drafts == [req[u].drafts EXCEPT ![w] = d]
           seen == Noted(u, rows, {})
           r == [req[u] EXCEPT !.op = op, !.seen = seen, !.drafts[w] = d]
<1>1. req[u] \in Request /\ req[u].drafts \in Tables /\ req[u].drafts[w] = None
  BY DEF Inv, TypeOK, Request, Tables, Draft, FreeWork
<1>2. d \in Work
  BY DEF Work
<1>3. drafts \in Tables
  BY <1>1, <1>2 DEF Tables
<1>4. seen \in [Items -> [taken : Nat, quantity : Nat]]
  BY NotedIsSeen DEF Inv, AllExist
<1>5. /\ r = [req[u] EXCEPT !.op = op, !.seen = seen, !.drafts = drafts]
      /\ r.op = op /\ r.seen = seen /\ r.drafts = drafts
      /\ r.work = req[u].work /\ r.order = req[u].order /\ r.rows = req[u].rows
  BY <1>1 DEF Request
<1>6. r \in Request
  BY <1>1, <1>3, <1>4, <1>5 DEF Request, Tables
<1>7. ASSUME NEW i \in Items, TakenBy(drafts, i) > 0
      PROVE  seen[i].taken + TakenBy(drafts, i) <= seen[i].quantity
  <2>1. TakenBy(drafts, i) = TakenBy(req[u].drafts, i) + rows[i]
    <3>1. \A x \in Works \ {w} : drafts[x] = req[u].drafts[x]
      BY <1>1 DEF Tables
    <3>2. drafts[w] = d /\ d # None
      BY <1>1, <1>2, NoneIsNothing, NoneIsNoRow DEF Tables
    <3>3. Amount(drafts, w, i) = rows[i] /\ Amount(req[u].drafts, w, i) = 0
      BY <1>1, <3>2 DEF Amount
    <3>4. rows[i] \in Nat /\ TakenBy(req[u].drafts, i) \in Nat
      BY <1>1, TakenIsNat DEF Rows
    <3>5. TakenBy(drafts, i) = TakenBy(req[u].drafts, i)
                                 + (Amount(drafts, w, i) - Amount(req[u].drafts, w, i))
      <4> HIDE DEF drafts
      <4> QED
        BY <1>1, <1>3, <3>1, TakenChanges
    <3> QED
      BY <3>3, <3>4, <3>5
  <2>2. CASE rows[i] > 0
    <3>1. seen[i] = [taken |-> Taken(i, {}), quantity |-> item[i].quantity]
      BY <2>2 DEF Noted, Read
    <3>2. (Taken(i, {}) + Drafted(u, i)) + rows[i] <= item[i].quantity
      BY <2>2, FitsIs DEF Inv, Rows
    <3>3. /\ Taken(i, {}) \in Nat /\ item[i].quantity \in Nat /\ rows[i] \in Nat
          /\ Drafted(u, i) = TakenBy(req[u].drafts, i) /\ Drafted(u, i) \in Nat
      BY <2>2, FitsIs, TakenIs DEF Inv, Rows
    <3> QED
      BY <2>1, <3>1, <3>2, <3>3
  <2>3. CASE ~ rows[i] > 0
    <3>1. seen[i] = req[u].seen[i]
      BY <2>3 DEF Noted
    <3>2. rows[i] = 0 /\ TakenBy(req[u].drafts, i) \in Nat
      BY <1>1, <2>3, TakenIsNat DEF Rows
    <3>3. req[u].op = "default"
      <4>1. SUFFICES ASSUME req[u] = Idle PROVE FALSE
        OBVIOUS
      <4>2. \A x \in Works : Amount(req[u].drafts, x, i) = 0
        BY <4>1 DEF Idle, NoDrafts, Amount
      <4> QED
        BY <1>1, <1>7, <2>1, <3>2, <4>2, TakenOfNothing
    <3>4. Promised(req[u])
      BY DEF Inv
    <3> QED
      BY <1>7, <2>1, <3>1, <3>2, <3>3, <3>4 DEF Promised
  <2> QED
    BY <2>2, <2>3
<1>8. Ready(r) /\ Promised(r) /\ r.op # "replace"
  BY <1>5, <1>7 DEF Ready, Promised
<1>9. req' = [req EXCEPT ![u] = r] /\ UNCHANGED <<item, work, loose, raced>>
  BY DEF Draft
<1> HIDE DEF r
<1> QED
  BY <1>6, <1>8, <1>9, Reading

(* What is missing fits.                                                   *)
LEMMA MissingIs ==
  ASSUME TypeOK, NEW u \in Users, NEW s \in Orders, NEW available \in [Products -> Stocks]
  PROVE  /\ Missing(u, s, available) \in Rows
         /\ \A i \in Items : Missing(u, s, available)[i] > 0 =>
               item[i] # None /\ Missing(u, s, available)[i] <= Remaining(u, i, {})
<1>1. SUFFICES ASSUME NEW i \in Items
               PROVE  /\ Missing(u, s, available)[i] \in Nat
                      /\ Missing(u, s, available)[i] > 0 =>
                            /\ item[i] # None
                            /\ Missing(u, s, available)[i] <= Remaining(u, i, {})
  BY DEF Missing, Rows
<1>2. CASE i \in ItemsOf(s)
  <2>1. item[i] # None /\ Remaining(u, i, {}) \in Nat
    BY <1>2, FitsIs DEF ItemsOf
  <2>2. available[Product[i]] \in Nat
    BY AllocationAssumption DEF Products
  <2>3. Missing(u, s, available)[i] = Max({0, Remaining(u, i, {}) - available[Product[i]]})
    BY <1>2 DEF Missing
  <2> QED
    BY <2>1, <2>2, <2>3, MaxOfZero
<1>3. CASE i \notin ItemsOf(s)
  BY <1>3 DEF Missing
<1> QED
  BY <1>2, <1>3

LEMMA Planning ==
  ASSUME Inv, NEW u \in Users, NEW s \in Orders, NEW w \in Works
  PROVE  /\ \A rows \in SomeRows : PlanSelected(u, s, w, rows) => Inv'
         /\ \A available \in [Products -> Stocks] : PlanDefault(u, s, w, available) => Inv'
<1>1. TypeOK /\ begun \in Nat
  BY DEF Inv, TypeOK
<1>2. ASSUME NEW rows \in SomeRows, PlanSelected(u, s, w, rows) PROVE Inv'
  <2>1. \A i \in Items : rows[i] > 0 => item[i] # None /\ rows[i] <= Remaining(u, i, {})
    BY <1>2 DEF PlanSelected, ItemsOf, Fits
  <2> QED
    BY <1>1, <1>2, <2>1, RowsAreRows, Drafting DEF PlanSelected, Start
<1>3. ASSUME NEW available \in [Products -> Stocks], PlanDefault(u, s, w, available)
      PROVE  Inv'
  <2>1. begun' \in Nat
    BY <1>1, <1>3 DEF PlanDefault, Start
  <2> QED
    BY <1>1, <1>3, <2>1, MissingIs, Drafting DEF PlanDefault, Start
<1> QED
  BY <1>2, <1>3

LEMMA BeginningForm ==
  ASSUME Inv, NEW u \in Users, NEW op \in {"form", "edit"}, NEW w \in Works,
         NEW s \in Orders \cup {None}, NEW rows \in SomeRows,
         NEW own \in {{}} \cup {{x} : x \in Works},
         BeginForm(u, op, w, s, rows, own)
  PROVE  Inv'
<1> DEFINE seen == Noted(u, rows, own)
           r == [Idle EXCEPT !.op = op, !.work = w, !.order = s, !.rows = rows, !.seen = seen]
<1>1. TypeOK /\ begun \in Nat /\ rows \in Rows
  BY RowsAreRows DEF Inv, TypeOK
<1>2. seen \in [Items -> [taken : Nat, quantity : Nat]]
  BY <1>1, NotedIsSeen DEF BeginForm
<1>3. r.op = op /\ r.work = w /\ r.order = s /\ r.rows = rows /\ r.seen = seen
  BY DEF Idle
<1>4. r \in Request
  BY <1>1, <1>2, IdleIsRequest DEF Request
<1>5. ASSUME NEW i \in Items, rows[i] > 0
      PROVE  seen[i].taken + rows[i] <= seen[i].quantity
  <2>1. seen[i] = [taken |-> Taken(i, own), quantity |-> item[i].quantity]
    BY <1>5 DEF Noted, Read
  <2>2. item[i] # None /\ rows[i] <= Remaining(u, i, own) /\ rows[i] \in Nat
    BY <1>1, <1>5 DEF BeginForm, AllExist, Fits, Rows
  <2>3. /\ (Taken(i, own) + Drafted(u, i)) + rows[i] <= item[i].quantity
        /\ Taken(i, own) \in Nat /\ Drafted(u, i) \in Nat /\ item[i].quantity \in Nat
    BY <1>1, <1>5, <2>2, FitsIs
  <2> QED
    BY <2>1, <2>2, <2>3
<1>6. Ready(r) /\ Promised(r) /\ r.op # "replace"
  BY <1>3, <1>5 DEF Ready, Promised
<1>7. req' = [req EXCEPT ![u] = r] /\ UNCHANGED <<item, work, loose, raced>> /\ begun' \in Nat
  BY <1>1 DEF BeginForm, Start
<1> HIDE DEF r
<1> QED
  BY <1>4, <1>6, <1>7, Reading

(* A batch is committed: what it drafted comes on top of what was taken.   *)
LEMMA Committing == ASSUME Inv, NEW u \in Users, CommitDrafts(u) PROVE Inv'
<1> DEFINE drafts == req[u].drafts
           Written == {w \in Works : drafts[w] # None}
<1>1. work \in Tables /\ drafts \in Tables
  BY DEF Inv, TypeOK, Tables, Request
<1>2. /\ \A w \in Written : AllExist(drafts[w].rows)
      /\ work' = [w \in Works |-> IF w \in Written THEN drafts[w] ELSE work[w]]
      /\ loose' = loose \cup UNION {Outdated(u, drafts[w].rows, {}) : w \in Written}
      /\ UNCHANGED <<item, begun>>
  BY DEF CommitDrafts
<1>3. work' \in Tables
  BY <1>1, <1>2 DEF Tables
<1>4. (\A v \in Users : Ready(req[v]) /\ Promised(req[v]) /\ Covered(req[v]))'
      /\ req' \in [Users -> Request]
  <2>1. req' = [req EXCEPT ![u] = Idle] /\ raced \subseteq raced'
    BY DEF CommitDrafts, Done, Attach
  <2>2. ASSUME NEW w \in Works, work'[w] # None
        PROVE  \/ work[w] # None /\ work'[w].order = work[w].order
               \/ work'[w].order \in raced'
               \/ ~ \E v \in Users : req[v].op = "replace" /\ req[v].order = work'[w].order
    <3>1. CASE w \notin Written
      BY <1>2, <2>2, <3>1
    <3>2. CASE w \in Written
      <4>1. work'[w].order \in {drafts[x].order : x \in Written}
        BY <1>2, <3>2
      <4> QED
        BY <4>1 DEF CommitDrafts, Attach
    <3> QED
      BY <3>1, <3>2
  <2> QED
    BY <2>1, <2>2, Bystanders, IdleIsRequest, IdlePromisesNothing
<1>5. ASSUME NEW i \in Items \ loose', item[i] # None
      PROVE  TakenBy(work', i) <= item[i].quantity
  <2> DEFINE both == [w \in Works |-> Amount(work, w, i) + Amount(drafts, w, i)]
  <2>1. TakenBy(work, i) <= item[i].quantity /\ item[i].quantity \in Nat
    BY <1>2, <1>5, TakenIs DEF Inv, AllocatedWithinOrdered, TypeOK, Item
  <2>2. TakenBy(work', i) <= TakenBy(work, i) + TakenBy(drafts, i)
    <3>1. \A w \in Works : /\ Amounts(work, i)[w] = Amount(work, w, i)
                           /\ Amount(work, w, i) \in Nat
                           /\ Amounts(drafts, i)[w] = Amount(drafts, w, i)
                           /\ Amount(drafts, w, i) \in Nat
                           /\ Amounts(work', i)[w] = Amount(work', w, i)
                           /\ Amount(work', w, i) \in Nat
      BY <1>1, <1>3, AmountIsNat
    <3>2. SumFunctionOnSet(both, Works) = TakenBy(work, i) + TakenBy(drafts, i)
      BY <3>1, SumBoth, AllocationAssumption DEF TakenBy
    <3>3. \A w \in Works : Amounts(work', i)[w] <= both[w]
      <4>1. \A w \in Works : Amount(work', w, i) \in {Amount(drafts, w, i), Amount(work, w, i)}
        BY <1>2 DEF Amount
      <4> QED
        BY <3>1, <4>1
    <3>4. SumFunctionOnSet(Amounts(work', i), Works) <= SumFunctionOnSet(both, Works)
      BY <3>1, <3>3, SumMonotone, AllocationAssumption
    <3> QED
      BY <3>2, <3>4 DEF TakenBy
  <2>3. CASE TakenBy(drafts, i) = 0
    BY <1>1, <1>3, <2>1, <2>2, <2>3, TakenIsNat
  <2>4. CASE TakenBy(drafts, i) # 0
    <3>1. TakenBy(drafts, i) \in Nat /\ TakenBy(drafts, i) > 0
      BY <1>1, <2>4, TakenIsNat
    <3>2. PICK w \in Works : Amount(drafts, w, i) # 0
      BY <1>1, <2>4, TakenOfNothing
    <3>3. w \in Written /\ drafts[w].rows[i] > 0
      BY <1>1, <3>2, AmountIsNat DEF Amount
    <3>4. Read(i, {}) = req[u].seen[i]
      BY <1>2, <1>5, <3>3 DEF Outdated
    <3>5. req[u].seen[i].taken = TakenBy(work, i) /\ req[u].seen[i].quantity = item[i].quantity
      BY <3>4, TakenIs DEF Read
    <3>6. req[u].seen[i].taken + TakenBy(drafts, i) <= req[u].seen[i].quantity
      BY <3>1 DEF Inv, Promised, CommitDrafts
    <3> QED
      BY <1>1, <1>3, <2>1, <2>2, <3>1, <3>5, <3>6, TakenIsNat
  <2> QED
    BY <2>3, <2>4
<1>6. AllocatedWithinOrdered'
  <2>1. \A i \in Items : Taken(i, {})' = TakenBy(work', i)
    BY TakenIs DEF Taken, TakenBy
  <2> QED
    BY <1>2, <1>5, <2>1 DEF AllocatedWithinOrdered
<1>7. TypeOK'
  <2>1. (\A w \in Works : work[w] # None => AllExist(work[w].rows))'
    BY <1>2 DEF Inv, TypeOK, AllExist
  <2>2. loose' \subseteq Items /\ raced' \subseteq Orders
    <3>1. loose' \subseteq Items
      BY <1>2 DEF Inv, TypeOK, Outdated
    <3>2. raced' \subseteq Orders
      BY DEF Inv, TypeOK, Ready, CommitDrafts, Attach
    <3> QED
      BY <3>1, <3>2
  <2> QED
    BY <1>2, <1>3, <1>4, <2>1, <2>2 DEF Inv, TypeOK, Tables
<1> QED
  BY <1>4, <1>6, <1>7 DEF Inv

(* A step that writes one work order, x, in the slot w.                    *)
LEMMA Writing ==
  ASSUME Inv, NEW u \in Users, NEW r \in Request,
         req' = [req EXCEPT ![u] = r],
         Ready(r), Promised(r), r.op = "replace" => r = req[u],
         NEW w \in Works, NEW x \in {None} \cup Work,
         work' = [work EXCEPT ![w] = x], UNCHANGED item, begun' \in Nat,
         loose \subseteq loose', loose' \subseteq Items,
         x # None => AllExist(x.rows),
         \A i \in Items \ loose' : item[i] # None /\ Value(x, i) > Value(work[w], i) =>
            Taken(i, {w}) + Value(x, i) <= item[i].quantity,
         \/ raced' = raced /\ (x # None => work[w] # None /\ x.order = work[w].order)
         \/ Attach({x.order})
  PROVE  Inv'
<1>1. work \in Tables
  BY DEF Inv, TypeOK, Tables
<1>2. /\ work' \in [Works -> {None} \cup Work]
      /\ (\A v \in Works : work[v] # None => AllExist(work[v].rows))'
      /\ AllocatedWithinOrdered'
  BY OneWork
<1>3. raced \subseteq raced'
  BY DEF Attach
<1>4. raced' \subseteq Orders
  BY DEF Inv, TypeOK, Ready, Attach
<1>5. ASSUME NEW y \in Works, work'[y] # None
      PROVE  \/ work[y] # None /\ work'[y].order = work[y].order
             \/ work'[y].order \in raced'
             \/ ~ \E v \in Users : req[v].op = "replace" /\ req[v].order = work'[y].order
  <2>1. CASE y = w
    <3>1. work'[y] = x
      BY <1>1, <2>1 DEF Tables
    <3> QED
      BY <1>5, <2>1, <3>1 DEF Attach
  <2>2. CASE y # w
    BY <1>1, <1>5, <2>2 DEF Tables
  <2> QED
    BY <2>1, <2>2
<1>6. /\ req' \in [Users -> Request]
      /\ (\A v \in Users : Ready(req[v]) /\ Promised(req[v]) /\ Covered(req[v]))'
  BY <1>3, <1>5, Bystanders
<1> QED
  BY <1>2, <1>4, <1>6 DEF Inv, TypeOK

LEMMA NothingExists == AllExist(NoRows) /\ (\A i \in Items : NoRows[i] = 0)
  BY DEF AllExist, NoRows

LEMMA CreatingWork == ASSUME Inv, NEW u \in Users, CreateWork(u) PROVE Inv'
<1> DEFINE x == [order |-> req[u].order, rows |-> NoRows]
           w == req[u].work
           r == IF req[u].rows = NoRows THEN Idle ELSE [req[u] EXCEPT !.op = "rows"]
<1>1. req[u] \in Request /\ Ready(req[u]) /\ Promised(req[u]) /\ begun \in Nat
  BY DEF Inv, TypeOK
<1>2. w \in Works /\ x \in Work
  BY <1>1, RowsAreRows DEF CreateWork, Ready, Request, Work
<1>3. r \in Request /\ Ready(r) /\ Promised(r) /\ r.op # "replace"
  <2>1. CASE req[u].rows = NoRows
    BY <2>1, IdleIsRequest, IdlePromisesNothing
  <2>2. CASE req[u].rows # NoRows
    <3> DEFINE q == [req[u] EXCEPT !.op = "rows"]
    <3>1. q \in Request
      BY <1>1 DEF Request
    <3>2. /\ q.op = "rows" /\ q.work = req[u].work /\ q.rows = req[u].rows
          /\ q.seen = req[u].seen
      BY <1>1 DEF Request
    <3>3. Ready(q) /\ Promised(q)
      BY <1>1, <1>2, <3>2 DEF Ready, Promised, CreateWork
    <3> QED
      BY <2>2, <3>1, <3>2, <3>3
  <2> QED
    BY <2>1, <2>2
<1>4. /\ req' = [req EXCEPT ![u] = r]
      /\ work' = [work EXCEPT ![w] = x] /\ Attach({x.order})
      /\ UNCHANGED <<item, loose, begun>>
  BY DEF CreateWork, Done
<1>5. ASSUME NEW i \in Items PROVE ~ Value(x, i) > Value(work[w], i)
  <2>1. Value(x, i) = 0
    BY <1>2, NoneIsNothing, NoneIsNoRow, NothingExists DEF Value
  <2>2. Value(work[w], i) \in Nat
    BY <1>2 DEF Value, Inv, TypeOK, Work, Rows
  <2> QED
    BY <2>1, <2>2
<1>6. AllExist(x.rows) /\ loose' \subseteq Items
  BY <1>4, NothingExists DEF Inv, TypeOK
<1> HIDE DEF r, x, w
<1> QED
  BY <1>1, <1>2, <1>3, <1>4, <1>5, <1>6, Writing

LEMMA EditingHeader ==
  ASSUME Inv, NEW u \in Users, NEW w \in Works, NEW s \in Orders \cup {None}, EditHeader(u, w, s)
  PROVE  Inv'
<1> DEFINE x == [work[w] EXCEPT !.order = s]
<1>1. work[w] \in Work /\ work[w] # None /\ AllExist(work[w].rows) /\ begun \in Nat
      /\ req \in [Users -> Request] /\ Ready(req[u]) /\ Promised(req[u]) /\ loose \subseteq Items
  BY DEF Inv, TypeOK, EditHeader
<1>2. x \in Work /\ x.rows = work[w].rows /\ x.order = s
  BY <1>1 DEF Work
<1>3. x # None
  BY <1>2, NoneIsNothing, NoneIsNoRow
<1>4. ASSUME NEW i \in Items PROVE ~ Value(x, i) > Value(work[w], i)
  <2>1. Value(x, i) = Value(work[w], i) /\ Value(work[w], i) \in Nat
    BY <1>1, <1>2, <1>3 DEF Value, Work, Rows
  <2> QED
    BY <2>1
<1>5. /\ work' = [work EXCEPT ![w] = x] /\ Attach({x.order})
      /\ UNCHANGED <<item, req, loose>> /\ begun' \in Nat
  BY <1>1, <1>2 DEF EditHeader, Start
<1>6. req' = [req EXCEPT ![u] = req[u]]
  BY <1>1, <1>5
<1> HIDE DEF x
<1> QED
  BY <1>1, <1>2, <1>4, <1>5, <1>6, Writing

LEMMA DeletingWork ==
  ASSUME Inv, NEW u \in Users, NEW w \in Works, DeleteWork(u, w)
  PROVE  Inv'
<1>1. begun \in Nat /\ req \in [Users -> Request] /\ Ready(req[u]) /\ Promised(req[u])
      /\ loose \subseteq Items
  BY DEF Inv, TypeOK
<1>2. ASSUME NEW i \in Items PROVE ~ Value(None, i) > Value(work[w], i)
  <2>1. Value(None, i) = 0
    BY DEF Value
  <2>2. Value(work[w], i) \in Nat
    BY DEF Value, Inv, TypeOK, Work, Rows
  <2> QED
    BY <2>1, <2>2
<1>3. /\ work' = [work EXCEPT ![w] = None] /\ UNCHANGED <<item, req, loose, raced>>
      /\ begun' \in Nat
  BY <1>1 DEF DeleteWork, Start
<1>4. req' = [req EXCEPT ![u] = req[u]]
  BY <1>1, <1>3
<1> QED
  BY <1>1, <1>2, <1>3, <1>4, Writing

LEMMA CreatingRow ==
  ASSUME Inv, NEW u \in Users, NEW i \in Items, CreateRow(u, i)
  PROVE  Inv'
<1> DEFINE w == req[u].work
           n == req[u].rows[i]
           rows == [work[w].rows EXCEPT ![i] = @ + n]
           x == [work[w] EXCEPT !.rows = rows]
           left == [req[u].rows EXCEPT ![i] = 0]
           r == IF left = NoRows THEN Idle ELSE [req[u] EXCEPT !.rows = left]
           row == [k \in Items |-> IF k = i THEN req[u].rows[i] ELSE 0]
<1>1. /\ req[u] \in Request /\ Ready(req[u]) /\ Promised(req[u]) /\ begun \in Nat
      /\ loose \subseteq Items /\ work \in Tables
  BY DEF Inv, TypeOK, Tables
<1>2. /\ req[u].op = "rows" /\ n > 0 /\ work[w] # None /\ item[i] # None
      /\ work' = [work EXCEPT ![w].rows[i] = @ + n]
      /\ loose' = loose \cup Outdated(u, row, {})
      /\ IF left = NoRows THEN Done(u) ELSE req' = [req EXCEPT ![u].rows = left]
      /\ UNCHANGED <<item, raced, begun>>
  BY DEF CreateRow
<1>3. w \in Works /\ work[w] \in Work /\ n \in Nat /\ AllExist(work[w].rows)
  <2>1. w \in Works
    BY <1>1, <1>2 DEF Ready
  <2>2. n \in Nat
    BY <1>1 DEF Request, Rows
  <2>3. work[w] \in Work
    BY <1>1, <1>2, <2>1 DEF Tables
  <2>4. AllExist(work[w].rows)
    <3> HIDE DEF w
    <3> QED
      BY <1>2, <2>1 DEF Inv, TypeOK
  <2> QED
    BY <2>1, <2>2, <2>3, <2>4
<1>4. rows \in Rows /\ x \in Work /\ x.rows = rows /\ x.order = work[w].order
  BY <1>3 DEF Work, Rows
<1>5. x # None
  BY <1>4, NoneIsNothing, NoneIsNoRow
<1>6. AllExist(x.rows)
  BY <1>2, <1>3, <1>4 DEF AllExist, Work, Rows
<1>7. r \in Request /\ Ready(r) /\ Promised(r) /\ r.op # "replace"
  <2>1. CASE left = NoRows
    BY <2>1, IdleIsRequest, IdlePromisesNothing
  <2>2. CASE left # NoRows
    <3> DEFINE q == [req[u] EXCEPT !.rows = left]
    <3>1. left \in Rows /\ (\A k \in Items : left[k] \in {0, req[u].rows[k]})
      BY <1>1 DEF Request, Rows
    <3>2. /\ q \in Request
          /\ q.op = "rows" /\ q.work = w /\ q.rows = left /\ q.seen = req[u].seen
      BY <1>1, <1>2, <3>1 DEF Request
    <3>3. Ready(q) /\ Promised(q)
      BY <1>1, <1>2, <1>3, <3>1, <3>2 DEF Ready, Promised
    <3> QED
      BY <2>2, <3>2, <3>3
  <2> QED
    BY <2>1, <2>2
<1>8. req' = [req EXCEPT ![u] = r] /\ work' = [work EXCEPT ![w] = x]
  BY <1>2 DEF Done
<1>9. ASSUME NEW k \in Items \ loose', item[k] # None, Value(x, k) > Value(work[w], k)
      PROVE  Taken(k, {w}) + Value(x, k) <= item[k].quantity
  <2>1. Value(x, k) = rows[k] /\ Value(work[w], k) = work[w].rows[k] /\ work[w].rows[k] \in Nat
    BY <1>2, <1>3, <1>4, <1>5 DEF Value, Work, Rows
  <2>2. k = i /\ rows[k] = work[w].rows[i] + n
    BY <1>3, <1>9, <2>1 DEF Work, Rows
  <2>3. Read(i, {}) = req[u].seen[i]
    BY <1>2, <1>9, <2>2 DEF Outdated
  <2>4. req[u].seen[i].taken + n <= req[u].seen[i].quantity
    BY <1>1, <1>2 DEF Promised
  <2>5. /\ TakenBy(work, i) = work[w].rows[i] + Taken(i, {w})
        /\ Taken(i, {w}) \in Nat
    BY <1>1, <1>2, <1>3, TakenBesides DEF Amount, Taken
  <2>6. TakenBy(work, i) + n <= item[i].quantity
    BY <2>3, <2>4, TakenIs DEF Read
  <2> QED
    BY <1>3, <2>1, <2>2, <2>5, <2>6
<1>10. loose \subseteq loose' /\ loose' \subseteq Items /\ begun' \in Nat
  BY <1>1, <1>2 DEF Outdated
<1> HIDE DEF r, x, w, left, row, n, rows
<1> QED
  BY <1>2, <1>3, <1>4, <1>6, <1>7, <1>8, <1>9, <1>10, Writing

LEMMA CommittingEdit == ASSUME Inv, NEW u \in Users, CommitEdit(u) PROVE Inv'
<1> DEFINE w == req[u].work
           rows == req[u].rows
           x == [order |-> req[u].order, rows |-> rows]
<1>1. /\ req[u] \in Request /\ Ready(req[u]) /\ Promised(req[u]) /\ begun \in Nat
      /\ loose \subseteq Items
  BY DEF Inv, TypeOK
<1>2. /\ req[u].op = "edit" /\ AllExist(rows)
      /\ work' = [work EXCEPT ![w] = x] /\ Attach({x.order})
      /\ loose' = loose \cup Outdated(u, rows, {w})
      /\ req' = [req EXCEPT ![u] = Idle] /\ UNCHANGED <<item, begun>>
  BY DEF CommitEdit, Done
<1>3. w \in Works /\ rows \in Rows /\ x \in Work /\ x.rows = rows
  BY <1>1, <1>2 DEF Ready, Request, Work
<1>4. x # None
  BY <1>3, NoneIsNothing, NoneIsNoRow
<1>5. ASSUME NEW k \in Items \ loose', item[k] # None, Value(x, k) > Value(work[w], k)
      PROVE  Taken(k, {w}) + Value(x, k) <= item[k].quantity
  <2>1. Value(x, k) = rows[k] /\ rows[k] \in Nat
    BY <1>3, <1>4 DEF Value, Rows
  <2>2. Value(work[w], k) \in Nat
    BY <1>3 DEF Value, Inv, TypeOK, Work, Rows
  <2>3. rows[k] > 0
    BY <1>5, <2>1, <2>2
  <2>4. Read(k, {w}) = req[u].seen[k]
    <3>1. k \notin Outdated(u, rows, {w}) /\ k \in Items
      BY <1>2, <1>5
    <3> HIDE DEF w, rows
    <3> QED
      BY <2>3, <3>1 DEF Outdated
  <2>5. req[u].seen[k].taken + rows[k] <= req[u].seen[k].quantity
    BY <1>1, <1>2, <2>3 DEF Promised
  <2>6. req[u].seen[k].taken = Taken(k, {w}) /\ req[u].seen[k].quantity = item[k].quantity
    BY <2>4 DEF Read
  <2> QED
    BY <2>1, <2>5, <2>6
<1>6. loose \subseteq loose' /\ loose' \subseteq Items /\ begun' \in Nat
  BY <1>1, <1>2 DEF Outdated
<1> HIDE DEF x, w, rows
<1> QED
  BY <1>2, <1>3, <1>5, <1>6, Writing, IdleIsRequest, IdlePromisesNothing

LEMMA SettingRow ==
  ASSUME Inv, NEW u \in Users, NEW w \in Works, NEW i \in Items,
         NEW quantity \in Quantities \cup {0}, SetRow(u, w, i, quantity)
  PROVE  Inv'
<1> DEFINE rows == [work[w].rows EXCEPT ![i] = quantity]
           x == [work[w] EXCEPT !.rows = rows]
<1>1. work[w] \in Work /\ work[w] # None /\ AllExist(work[w].rows) /\ begun \in Nat
      /\ req \in [Users -> Request] /\ Ready(req[u]) /\ Promised(req[u]) /\ loose \subseteq Items
  BY DEF Inv, TypeOK, SetRow
<1>2. quantity \in Nat
  BY AllocationAssumption
<1>3. rows \in Rows /\ x \in Work /\ x.rows = rows /\ x.order = work[w].order
  BY <1>1, <1>2 DEF Work, Rows
<1>4. x # None
  BY <1>3, NoneIsNothing, NoneIsNoRow
<1>5. AllExist(x.rows)
  BY <1>1, <1>3 DEF AllExist, Work, Rows, SetRow
<1>6. /\ work' = [work EXCEPT ![w] = x] /\ UNCHANGED <<item, req, raced>> /\ begun' \in Nat
      /\ loose' = IF quantity > work[w].rows[i] THEN loose \cup {i} ELSE loose
  BY <1>1 DEF SetRow, Start
<1>7. ASSUME NEW k \in Items \ loose' PROVE ~ Value(x, k) > Value(work[w], k)
  <2>1. Value(x, k) = rows[k] /\ Value(work[w], k) = work[w].rows[k] /\ work[w].rows[k] \in Nat
    BY <1>1, <1>3, <1>4 DEF Value, Work, Rows
  <2>2. CASE k = i
    <3>1. rows[k] = quantity
      BY <1>1, <2>2 DEF Work, Rows
    <3>2. ~ quantity > work[w].rows[i]
      BY <1>6, <1>7, <2>2
    <3> QED
      BY <2>1, <2>2, <3>1, <3>2
  <2>3. CASE k # i
    BY <1>1, <2>1, <2>3 DEF Work, Rows
  <2> QED
    BY <2>2, <2>3
<1>8. req' = [req EXCEPT ![u] = req[u]] /\ req[u] \in Request
  BY <1>1, <1>6
<1>9. loose \subseteq loose' /\ loose' \subseteq Items
  BY <1>1, <1>6
<1> HIDE DEF x, rows
<1> QED
  BY <1>1, <1>3, <1>5, <1>6, <1>7, <1>8, <1>9, Writing

-----------------------------------------------------------------------------
(* The items.                                                              *)

LEMMA Deleting ==
  ASSUME Inv, NEW u \in Users, NEW r \in Request,
         req' = [req EXCEPT ![u] = r],
         Ready(r), Promised(r), r.op = "replace" => r = req[u],
         NEW gone \in SUBSET Items, DeleteItems(gone),
         raced \subseteq raced', raced' \subseteq Orders, begun' \in Nat
  PROVE  Inv'
<1>1. /\ item' = [i \in Items |-> IF i \in gone THEN None ELSE item[i]]
      /\ work' = CutOff(gone) /\ loose' = loose \ gone
  BY DEF DeleteItems
<1>2. ASSUME NEW w \in Works
      PROVE  /\ work[w] = None => work'[w] = None
             /\ work[w] # None =>
                   /\ work[w] \in Work /\ work'[w] \in Work /\ work'[w] # None
                   /\ work'[w].order = work[w].order
                   /\ work'[w].rows = [i \in Items |-> IF i \in gone THEN 0 ELSE work[w].rows[i]]
  <2>1. CASE work[w] = None
    BY <1>1, <2>1 DEF CutOff
  <2>2. CASE work[w] # None
    <3> DEFINE rows == [i \in Items |-> IF i \in gone THEN 0 ELSE work[w].rows[i]]
    <3>1. work[w] \in Work
      BY <2>2 DEF Inv, TypeOK
    <3>2. rows \in Rows
      BY <3>1 DEF Work, Rows
    <3>3. work'[w] = [work[w] EXCEPT !.rows = rows]
      BY <1>1, <2>2 DEF CutOff
    <3>4. work'[w] \in Work /\ work'[w].order = work[w].order /\ work'[w].rows = rows
      BY <3>1, <3>2, <3>3 DEF Work
    <3>5. work'[w] # None
      BY <3>4, NoneIsNothing, NoneIsNoRow
    <3> QED
      BY <2>2, <3>1, <3>4, <3>5
  <2> QED
    BY <2>1, <2>2
<1>3. work \in Tables /\ work' \in Tables
  <2>1. DOMAIN work' = Works /\ work' = [w \in Works |-> work'[w]]
    BY <1>1 DEF CutOff
  <2>2. work \in Tables
    BY DEF Inv, TypeOK, Tables
  <2>3. ASSUME NEW w \in Works PROVE work'[w] \in {None} \cup Work
    BY <1>2
  <2>4. [w \in Works |-> work'[w]] \in Tables
    BY <2>3 DEF Tables
  <2> QED
    BY <2>1, <2>2, <2>4
<1>4. (\A w \in Works : work[w] # None => AllExist(work[w].rows))'
  <2>1. ASSUME NEW w \in Works, work'[w] # None, NEW i \in Items, work'[w].rows[i] > 0
        PROVE  item'[i] # None
    <3>1. work[w] # None
      BY <1>2, <2>1
    <3>2. work'[w].rows[i] = IF i \in gone THEN 0 ELSE work[w].rows[i]
      BY <1>2, <2>1, <3>1
    <3>3. i \notin gone /\ work[w].rows[i] > 0
      BY <2>1, <3>2
    <3>4. item[i] # None
      BY <3>1, <3>3 DEF Inv, TypeOK, AllExist
    <3> QED
      BY <1>1, <3>3, <3>4
  <2> QED
    BY <2>1 DEF AllExist
<1>5. item' \in [Items -> {None} \cup Item] /\ loose' \subseteq Items
  <2>1. item \in [Items -> {None} \cup Item] /\ loose \subseteq Items
    BY DEF Inv, TypeOK
  <2> QED
    BY <1>1, <2>1
<1>6. /\ req' \in [Users -> Request]
      /\ (\A v \in Users : Ready(req[v]) /\ Promised(req[v]) /\ Covered(req[v]))'
  BY <1>2, Bystanders
<1>7. ASSUME NEW i \in Items \ loose', item'[i] # None
      PROVE  TakenBy(work', i) <= item'[i].quantity
  <2>1. i \notin gone /\ item'[i] = item[i] /\ i \notin loose
    BY <1>1, <1>7
  <2>2. TakenBy(work, i) <= item[i].quantity /\ item[i].quantity \in Nat
    BY <1>7, <2>1, TakenIs DEF Inv, AllocatedWithinOrdered, TypeOK, Item
  <2>3. \A w \in Works : Amount(work', w, i) <= Amount(work, w, i)
    <3>1. SUFFICES ASSUME NEW w \in Works
                   PROVE  Amount(work', w, i) <= Amount(work, w, i)
      OBVIOUS
    <3>2. Amount(work', w, i) = Amount(work, w, i)
      BY <1>2, <2>1 DEF Amount
    <3>3. Amount(work, w, i) \in Nat
      BY <1>3, AmountIsNat
    <3> QED
      BY <3>2, <3>3
  <2>4. TakenBy(work', i) <= TakenBy(work, i)
    BY <1>3, <2>3, TakenShrinks
  <2> QED
    BY <1>3, <2>1, <2>2, <2>4, TakenIsNat
<1>8. AllocatedWithinOrdered'
  <2>1. \A i \in Items : Taken(i, {})' = TakenBy(work', i)
    BY TakenIs DEF Taken, TakenBy
  <2> QED
    BY <1>7, <2>1 DEF AllocatedWithinOrdered
<1> QED
  BY <1>3, <1>4, <1>5, <1>6, <1>8 DEF Inv, TypeOK, Tables

LEMMA BeginningReplace ==
  ASSUME Inv, NEW u \in Users, NEW s \in Orders, BeginReplace(u, s)
  PROVE  Inv'
<1> DEFINE r == [Idle EXCEPT !.op = "replace", !.order = s]
<1>1. r.op = "replace" /\ r.order = s /\ r \in Request
  BY IdleIsRequest DEF Idle, Request
<1>2. Ready(r) /\ Promised(r) /\ MayReplace(r.order)
  BY <1>1 DEF Ready, Promised, BeginReplace
<1>3. req' = [req EXCEPT ![u] = r] /\ UNCHANGED <<item, work, loose, raced>> /\ begun' \in Nat
  BY DEF BeginReplace, Start, Inv, TypeOK
<1> HIDE DEF r
<1> QED
  BY <1>1, <1>2, <1>3, Reading

LEMMA Replacing == ASSUME Inv, NEW u \in Users, Replace(u) PROVE Inv'
<1> DEFINE r == [req[u] EXCEPT !.op = "refill"]
<1>1. req[u] \in Request /\ Ready(req[u]) /\ begun \in Nat /\ raced \subseteq Orders
  BY DEF Inv, TypeOK
<1>2. r \in Request /\ r.op = "refill" /\ r.order = req[u].order
  BY <1>1 DEF Request
<1>3. Ready(r) /\ Promised(r)
  BY <1>1, <1>2 DEF Ready, Promised, Replace
<1>4. /\ req' = [req EXCEPT ![u] = r] /\ UNCHANGED <<raced, begun>>
      /\ DeleteItems(ItemsOf(req[u].order))
  BY DEF Replace
<1>5. ItemsOf(req[u].order) \in SUBSET Items
  BY DEF ItemsOf
<1> HIDE DEF r
<1> QED
  BY <1>1, <1>2, <1>3, <1>4, <1>5, Deleting

LEMMA DeletingItem ==
  ASSUME Inv, NEW u \in Users, NEW i \in Items, DeleteItem(u, i)
  PROVE  Inv'
<1>1. /\ req \in [Users -> Request] /\ Ready(req[u]) /\ Promised(req[u]) /\ begun \in Nat
      /\ raced \subseteq Orders /\ item[i] \in Item
  BY DEF Inv, TypeOK, DeleteItem
<1>2. req' = [req EXCEPT ![u] = req[u]] /\ begun' \in Nat /\ DeleteItems({i})
  BY <1>1 DEF DeleteItem, Start
<1>3. raced \subseteq raced' /\ raced' \subseteq Orders
  BY <1>1 DEF DeleteItem, Item
<1> QED
  BY <1>1, <1>2, <1>3, Deleting

(* Nothing has been taken of an item that is new.                          *)
LEMMA AddingItem ==
  ASSUME Inv, NEW u \in Users, NEW i \in Items, NEW quantity \in Quantities,
         AddItem(u, i, quantity)
  PROVE  Inv'
<1>1. /\ req \in [Users -> Request] /\ Ready(req[u]) /\ Promised(req[u])
      /\ item \in [Items -> {None} \cup Item] /\ work \in Tables
  BY DEF Inv, TypeOK, Tables
<1>2. quantity \in Nat /\ req[u].order \in Orders /\ item[i] = None /\ req[u].op # "replace"
  BY <1>1, AllocationAssumption DEF AddItem, Ready, FreeItem
<1>3. PICK r \in {Idle, req[u]} : req' = [req EXCEPT ![u] = r]
  BY <1>1 DEF AddItem, Done
<1>4. r \in Request /\ Ready(r) /\ Promised(r) /\ r.op # "replace"
  BY <1>1, <1>2, IdleIsRequest, IdlePromisesNothing
<1>5. /\ req' \in [Users -> Request]
      /\ (\A v \in Users : Ready(req[v]) /\ Promised(req[v]) /\ Covered(req[v]))'
  <2>1. UNCHANGED <<work, raced>>
    BY DEF AddItem
  <2> QED
    BY <1>3, <1>4, <2>1, Bystanders
<1>6. UNCHANGED <<work, loose, raced, begun>>
      /\ item' = [item EXCEPT ![i] = [order |-> req[u].order, quantity |-> quantity]]
  BY DEF AddItem
<1>7. item' \in [Items -> {None} \cup Item] /\ item'[i].quantity = quantity
      /\ (\A k \in Items \ {i} : item'[k] = item[k]) /\ item'[i] # None
  <2> DEFINE new == [order |-> req[u].order, quantity |-> quantity]
  <2>1. new \in Item
    BY <1>2 DEF Item
  <2>2. new # None
    BY <2>1, NoneIsNothing, NoneIsNoRow
  <2> QED
    BY <1>1, <1>6, <2>1, <2>2
<1>8. TypeOK'
  <2>1. (\A w \in Works : work[w] # None => AllExist(work[w].rows))'
    BY <1>6, <1>7 DEF Inv, TypeOK, AllExist
  <2> QED
    BY <1>5, <1>6, <1>7, <2>1 DEF Inv, TypeOK
<1>9. TakenBy(work, i) = 0
  <2>1. \A w \in Works : Amount(work, w, i) = 0
    BY <1>1, <1>2, AmountIsNat DEF Amount, Inv, TypeOK, AllExist
  <2> QED
    BY <1>1, <2>1, TakenOfNothing
<1>10. AllocatedWithinOrdered'
  <2>1. ASSUME NEW k \in Items \ loose', item'[k] # None
        PROVE  TakenBy(work, k) <= item'[k].quantity
    <3>1. CASE k = i
      BY <1>2, <1>7, <1>9, <3>1
    <3>2. CASE k # i
      BY <1>6, <1>7, <2>1, <3>2, TakenIs DEF Inv, AllocatedWithinOrdered
    <3> QED
      BY <3>1, <3>2
  <2>2. \A k \in Items : Taken(k, {})' = TakenBy(work', k)
    BY TakenIs DEF Taken, TakenBy
  <2> QED
    BY <1>6, <2>1, <2>2 DEF AllocatedWithinOrdered
<1> QED
  BY <1>5, <1>8, <1>10 DEF Inv

LEMMA SettingQuantity ==
  ASSUME Inv, NEW u \in Users, NEW i \in Items, NEW quantity \in Quantities,
         SetQuantity(u, i, quantity)
  PROVE  Inv'
<1>1. /\ item \in [Items -> {None} \cup Item] /\ item[i] \in Item /\ work \in Tables
      /\ begun \in Nat /\ loose \subseteq Items /\ req \in [Users -> Request]
  BY DEF Inv, TypeOK, Tables, SetQuantity
<1>2. quantity \in Nat
  BY AllocationAssumption
<1>3. /\ item' = [item EXCEPT ![i].quantity = quantity]
      /\ loose' = IF quantity < item[i].quantity THEN loose \cup {i} ELSE loose
      /\ UNCHANGED <<work, req, raced>> /\ begun' \in Nat
  BY <1>1 DEF SetQuantity, Start
<1>4. /\ item' \in [Items -> {None} \cup Item] /\ item'[i].quantity = quantity
      /\ (\A k \in Items \ {i} : item'[k] = item[k]) /\ item'[i] # None
  <2> DEFINE new == [item[i] EXCEPT !.quantity = quantity]
  <2>1. new \in Item /\ new.quantity = quantity
    BY <1>1, <1>2 DEF Item
  <2>2. new # None
    BY <2>1, NoneIsNothing, NoneIsNoRow
  <2>3. item' = [item EXCEPT ![i] = new]
    BY <1>3
  <2> HIDE DEF new
  <2> QED
    BY <1>1, <2>1, <2>2, <2>3
<1>5. TypeOK'
  <2>1. (\A w \in Works : work[w] # None => AllExist(work[w].rows))'
    BY <1>3, <1>4 DEF Inv, TypeOK, AllExist
  <2>2. loose' \subseteq Items
    BY <1>1, <1>3
  <2> QED
    BY <1>3, <1>4, <2>1, <2>2 DEF Inv, TypeOK
<1>6. (\A v \in Users : Ready(req[v]) /\ Promised(req[v]) /\ Covered(req[v]))'
  BY <1>3 DEF Inv, Covered, MayReplace
<1>7. AllocatedWithinOrdered'
  <2>1. ASSUME NEW k \in Items \ loose', item'[k] # None
        PROVE  TakenBy(work, k) <= item'[k].quantity
    <3>1. k \notin loose
      BY <1>3, <2>1
    <3>2. CASE k = i
      <4>1. TakenBy(work, i) <= item[i].quantity /\ item[i].quantity \in Nat
            /\ TakenBy(work, i) \in Nat
        BY <1>1, <3>1, <3>2, TakenIs, TakenIsNat, NoneIsNothing
           DEF Inv, AllocatedWithinOrdered, Item, SetQuantity
      <4>2. ~ quantity < item[i].quantity
        BY <1>3, <2>1, <3>2
      <4> QED
        BY <1>2, <1>4, <3>2, <4>1, <4>2
    <3>3. CASE k # i
      BY <1>4, <2>1, <3>1, <3>3, TakenIs DEF Inv, AllocatedWithinOrdered
    <3> QED
      BY <3>2, <3>3
  <2>2. \A k \in Items : Taken(k, {})' = TakenBy(work', k)
    BY TakenIs DEF Taken, TakenBy
  <2> QED
    BY <1>3, <2>1, <2>2 DEF AllocatedWithinOrdered
<1> QED
  BY <1>5, <1>6, <1>7 DEF Inv

LEMMA Failing == ASSUME Inv, NEW u \in Users, Fail(u) PROVE Inv'
  BY Reading, IdleIsRequest, IdlePromisesNothing DEF Fail, Done, Inv, TypeOK

-----------------------------------------------------------------------------
LEMMA Initially == Init => Inv
<1> SUFFICES ASSUME Init PROVE Inv
  OBVIOUS
<1>1. work \in Tables /\ req \in [Users -> Request]
  BY IdleIsRequest DEF Init, Tables
<1>2. item \in [Items -> {None} \cup Item]
  <2>1. [order : Orders, quantity : Quantities] \subseteq Item
    BY AllocationAssumption DEF Item
  <2> QED
    BY <2>1 DEF Init
<1>3. TypeOK
  BY <1>1, <1>2 DEF Init, TypeOK, Tables
<1>4. \A u \in Users : Ready(req[u]) /\ Promised(req[u]) /\ Covered(req[u])
  BY IdlePromisesNothing DEF Init, Covered
<1>5. ASSUME NEW i \in Items, item[i] # None PROVE Taken(i, {}) <= item[i].quantity
  <2>1. \A w \in Works : Amount(work, w, i) = 0
    BY DEF Init, Amount
  <2>2. Taken(i, {}) = 0
    BY <1>1, <2>1, TakenOfNothing, TakenIs
  <2>3. item[i].quantity \in Nat
    BY <1>2, <1>5 DEF Item
  <2> QED
    BY <2>2, <2>3
<1> QED
  BY <1>3, <1>4, <1>5 DEF Inv, AllocatedWithinOrdered

LEMMA Preserved == Inv /\ [Next]_vars => Inv'
<1> SUFFICES ASSUME Inv, [Next]_vars PROVE Inv'
  OBVIOUS
<1>1. CASE UNCHANGED vars
  BY <1>1 DEF vars, Inv, TypeOK, AllExist, Covered, MayReplace, AllocatedWithinOrdered, Taken
<1>2. ASSUME NEW u \in Users, Creating(u) PROVE Inv'
  BY <1>2, Planning, Committing DEF Creating
<1>3. ASSUME NEW u \in Users, Editing(u) PROVE Inv'
  <2>1. ASSUME NEW w \in Works, NEW s \in Orders \cup {None}, NEW rows \in SomeRows,
               BeginCreate(u, w, s, rows) \/ BeginEdit(u, w, s, rows)
        PROVE  Inv'
    BY <2>1, BeginningForm DEF BeginCreate, BeginEdit
  <2> QED
    BY <1>3, <2>1, EditingHeader, CreatingWork, CommittingEdit, CreatingRow, SettingRow,
       DeletingWork DEF Editing
<1>4. ASSUME NEW u \in Users, Ordering(u) PROVE Inv'
  BY <1>4, BeginningReplace, Replacing, AddingItem, SettingQuantity, DeletingItem DEF Ordering
<1> QED
  BY <1>1, <1>2, <1>3, <1>4, Failing DEF Next

-----------------------------------------------------------------------------
(* Every reachable state satisfies the inductive invariant.                *)
THEOREM Inductive == Spec => []Inv
  BY Initially, Preserved, PTL DEF Spec

(* All variables keep their types, and no row of a work order names an     *)
(* item that was deleted: deleting one cuts the rows off.                  *)
THEOREM Typed == Spec => []TypeOK
<1>1. Inv => TypeOK
  BY DEF Inv
<1> QED
  BY <1>1, Inductive, PTL

(* Work orders never produce more of an item than was ordered, unless an   *)
(* allocation was committed on a reading out of date or a user changed a   *)
(* quantity or a row without a check, for any number of users and rows.    *)
THEOREM NeverOverAllocated == Spec => []AllocatedWithinOrdered
<1>1. Inv => AllocatedWithinOrdered
  BY DEF Inv
<1> QED
  BY <1>1, Inductive, PTL

(* What a step that keeps the sources does.                                *)
KeepSources ==
    \A w \in Works, i \in Items :
        /\ work[w] # None /\ work[w].rows[i] > 0
        /\ item[i] # None /\ item[i].order = work[w].order
        /\ item'[i] = None
        => work[w].order \in raced'

(* Editing the items of a sales order never cuts off its work orders,      *)
(* unless one was attached between the check and the replacement.          *)
THEOREM SourcesAreKept == Spec => SourcesKeepItems
<1>1. ASSUME Inv, [Next]_vars PROVE [KeepSources]_vars
  <2>1. SUFFICES ASSUME NEW w \in Works, NEW i \in Items,
                        work[w] # None, item[i] # None,
                        item[i].order = work[w].order, item'[i] = None, Next
                 PROVE  work[w].order \in raced'
    BY <1>1 DEF KeepSources
  <2>2. PICK u \in Users : Creating(u) \/ Editing(u) \/ Ordering(u) \/ Fail(u)
    BY <2>1 DEF Next
  <2>3. item' # item
    BY <2>1
  <2>4. Ordering(u)
    BY <2>2, <2>3 DEF Creating, PlanSelected, PlanDefault, Draft, CommitDrafts, Editing,
       BeginCreate, BeginEdit, BeginForm, EditHeader, CreateWork, CommitEdit, CreateRow,
       SetRow, DeleteWork, Fail
  <2>5. CASE Replace(u)
    <3>1. item[i].order = req[u].order
      BY <2>1, <2>5 DEF Replace, DeleteItems, ItemsOf
    <3>2. req[u].order \in raced \/ MayReplace(req[u].order)
      BY <1>1, <2>5 DEF Inv, Covered, Replace
    <3> QED
      BY <2>1, <2>5, <3>1, <3>2 DEF MayReplace, Replace
  <2>6. ASSUME NEW k \in Items, DeleteItem(u, k) PROVE work[w].order \in raced'
    <3>1. k = i
      BY <2>1, <2>6 DEF DeleteItem, DeleteItems
    <3> QED
      BY <2>1, <2>6, <3>1 DEF DeleteItem
  <2>7. ASSUME NEW k \in Items, NEW q \in Quantities, AddItem(u, k, q) \/ SetQuantity(u, k, q)
        PROVE  FALSE
    <3>1. item'[i] = item[i] \/ k = i
      BY <1>1, <2>7 DEF AddItem, SetQuantity, Inv, TypeOK
    <3>2. k = i /\ SetQuantity(u, k, q)
      BY <2>1, <2>7, <3>1 DEF AddItem, FreeItem
    <3>3. item'[i] \in Item
      BY <1>1, <2>1, <3>2, AllocationAssumption DEF SetQuantity, Inv, TypeOK, Item
    <3> QED
      BY <2>1, <3>3, NoneIsNothing, NoneIsNoRow
  <2>8. ASSUME NEW s \in Orders, BeginReplace(u, s) PROVE FALSE
    BY <2>3, <2>8 DEF BeginReplace
  <2> QED
    BY <2>4, <2>5, <2>6, <2>7, <2>8 DEF Ordering
<1>2. Inv /\ [Next]_vars => [KeepSources]_vars
  BY <1>1
<1> QED
  BY <1>2, Inductive, PTL DEF Spec, SourcesKeepItems, KeepSources

-----------------------------------------------------------------------------
(* One request at a time: none begins while another is under way.  What a  *)
(* request has read is then what it finds when it commits.                 *)
OneByOne == begun' # begun => \A u \in Users : req[u] = Idle

Alone == \A u, v \in Users : u # v => req[u] = Idle \/ req[v] = Idle

UpToDate(u) ==
  /\ req[u].op \in {"select", "default"} =>
       \A i \in Items, w \in Works :
          req[u].drafts[w] # None /\ req[u].drafts[w].rows[i] > 0
            => req[u].seen[i] = Read(i, {})
  /\ req[u].op \in {"form", "rows"} =>
       \A i \in Items : req[u].rows[i] > 0 => req[u].seen[i] = Read(i, {})
  /\ req[u].op = "edit" =>
       \A i \in Items : req[u].rows[i] > 0 => req[u].seen[i] = Read(i, {req[u].work})
  /\ req[u].op = "form" => work[req[u].work] = None

Fresh == Alone /\ \A u \in Users : UpToDate(u)

LEMMA BegunAlone ==
  ASSUME Inv, OneByOne, NEW u \in Users, Start(u)
  PROVE  \A v \in Users : req[v] = Idle
<1>1. begun \in Nat /\ begun' = begun + 1
  BY DEF Inv, TypeOK, Start
<1>2. begun' # begun
  BY <1>1
<1> QED
  BY <1>2 DEF OneByOne

LEMMA IdleUpToDate == ASSUME NEW u \in Users, req'[u] = Idle PROVE UpToDate(u)'
  BY DEF UpToDate, Idle

(* Only one request ever has anything to keep up to date.                  *)
LEMMA OthersIdle ==
  ASSUME NEW u \in Users, \A v \in Users \ {u} : req'[v] = Idle, UpToDate(u)'
  PROVE  Fresh'
<1>1. \A v \in Users \ {u} : UpToDate(v)'
  BY IdleUpToDate
<1> QED
  BY <1>1 DEF Fresh, Alone

LEMMA UnderWay ==
  ASSUME Fresh, NEW u \in Users, req[u] # Idle
  PROVE  \A v \in Users \ {u} : req[v] = Idle
  BY DEF Fresh, Alone

LEMMA ReadAgain ==
  ASSUME NEW i \in Items, NEW own, item'[i] = item[i], Amounts(work', i) = Amounts(work, i)
  PROVE  Read(i, own)' = Read(i, own)
  BY DEF Read, Taken

LEMMA DraftFresh ==
  ASSUME Inv, Fresh, NEW u \in Users, NEW op \in {"select", "default"}, NEW s, NEW w \in Works,
         NEW rows, req[u] = Idle \/ req[u].op = "default",
         \A v \in Users \ {u} : req[v] = Idle, Draft(u, op, s, w, rows)
  PROVE  Fresh'
<1> DEFINE d == [order |-> s, rows |-> rows]
           drafts == [req[u].drafts EXCEPT ![w] = d]
           seen == Noted(u, rows, {})
           r == [req[u] EXCEPT !.op = op, !.seen = seen, !.drafts[w] = d]
<1>1. req[u] \in Request /\ req \in [Users -> Request]
  BY DEF Inv, TypeOK
<1>2. r.op = op /\ r.seen = seen /\ r.drafts = drafts
  BY <1>1 DEF Request
<1>3. req' = [req EXCEPT ![u] = r] /\ item' = item /\ work' = work
  BY DEF Draft
<1>4. ASSUME NEW i \in Items, NEW x \in Works, drafts[x] # None, drafts[x].rows[i] > 0
      PROVE  seen[i] = Read(i, {})
  <2>1. CASE rows[i] > 0
    BY <2>1 DEF Noted
  <2>2. CASE ~ rows[i] > 0
    <3>1. x # w
      BY <1>1, <1>4, <2>2 DEF Request
    <3>2. drafts[x] = req[u].drafts[x]
      BY <1>1, <3>1 DEF Request
    <3>3. req[u].op = "default"
      BY <1>4, <3>2 DEF Idle, NoDrafts
    <3>4. req[u].seen[i] = Read(i, {})
      BY <1>4, <3>2, <3>3 DEF Fresh, UpToDate
    <3> QED
      BY <2>2, <3>4 DEF Noted
  <2> QED
    BY <2>1, <2>2
<1> HIDE DEF r
<1>5. req'[u] = r /\ \A v \in Users \ {u} : req'[v] = Idle
  BY <1>1, <1>3
<1>6. \A i \in Items : Read(i, {})' = Read(i, {})
  BY <1>3, ReadAgain
<1> HIDE DEF drafts, seen
<1>7. UpToDate(u)'
  BY <1>2, <1>4, <1>5, <1>6 DEF UpToDate
<1> QED
  BY <1>5, <1>7, OthersIdle

LEMMA FormFresh ==
  ASSUME Inv, Fresh, OneByOne, NEW u \in Users, NEW w \in Works, NEW s, NEW rows,
         BeginCreate(u, w, s, rows) \/ BeginEdit(u, w, s, rows)
  PROVE  Fresh'
<1>1. ASSUME NEW op \in {"form", "edit"}, NEW own, BeginForm(u, op, w, s, rows, own),
             op = "form" => own = {} /\ work[w] = None,
             op = "edit" => own = {w}
      PROVE  Fresh'
  <2> DEFINE seen == Noted(u, rows, own)
             r == [Idle EXCEPT !.op = op, !.work = w, !.order = s, !.rows = rows, !.seen = seen]
  <2>1. r.op = op /\ r.work = w /\ r.rows = rows /\ r.seen = seen
    BY DEF Idle
  <2>2. req' = [req EXCEPT ![u] = r] /\ item' = item /\ work' = work
    BY <1>1 DEF BeginForm
  <2> HIDE DEF r
  <2>3. req'[u] = r /\ \A v \in Users \ {u} : req'[v] = Idle
    BY <1>1, <2>2, BegunAlone DEF BeginForm, Inv, TypeOK
  <2>4. \A i \in Items : rows[i] > 0 => seen[i] = Read(i, own)
    BY DEF Noted
  <2>5. \A i \in Items : Read(i, own)' = Read(i, own)
    BY <2>2, ReadAgain
  <2> HIDE DEF seen
  <2>6. UpToDate(u)'
    BY <1>1, <2>1, <2>2, <2>3, <2>4, <2>5 DEF UpToDate
  <2> QED
    BY <2>3, <2>6, OthersIdle
<1> QED
  BY <1>1 DEF BeginCreate, BeginEdit, FreeWork

LEMMA CreatingWorkFresh ==
  ASSUME Inv, Fresh, NEW u \in Users, CreateWork(u)
  PROVE  Fresh'
<1>1. \A v \in Users \ {u} : req[v] = Idle
  BY UnderWay DEF CreateWork, Idle
<1>2. /\ req \in [Users -> Request] /\ req[u] \in Request
      /\ work \in [Works -> {None} \cup Work] /\ req[u].work \in Works
  BY DEF Inv, TypeOK, Ready, CreateWork
<1>3. work[req[u].work] = None
  BY DEF Fresh, UpToDate, CreateWork
<1>4. CASE Done(u)
  BY <1>1, <1>2, <1>4, IdleUpToDate, OthersIdle DEF Done
<1>5. CASE req' = [req EXCEPT ![u].op = "rows"]
  <2>1. /\ req'[u].op = "rows" /\ req'[u].rows = req[u].rows /\ req'[u].seen = req[u].seen
        /\ \A v \in Users \ {u} : req'[v] = Idle
    BY <1>1, <1>2, <1>5 DEF Request
  <2>2. ASSUME NEW i \in Items PROVE Read(i, {})' = Read(i, {})
    <3> DEFINE new == [order |-> req[u].order, rows |-> NoRows]
    <3>1. new \in Work
      BY <1>2, RowsAreRows DEF Work, Request
    <3>2. new # None /\ new.rows[i] = 0
      BY <3>1, NoneIsNothing DEF NoRows
    <3>3. work' = [work EXCEPT ![req[u].work] = new]
      BY DEF CreateWork
    <3> HIDE DEF new
    <3>4. \A x \in Works : (IF work'[x] = None THEN 0 ELSE work'[x].rows[i])
                             = IF work[x] = None THEN 0 ELSE work[x].rows[i]
      BY <1>2, <1>3, <3>2, <3>3
    <3>5. Amounts(work', i) = Amounts(work, i)
      BY <3>4 DEF Amounts
    <3> QED
      BY <3>5, ReadAgain DEF CreateWork
  <2>3. \A i \in Items : req[u].rows[i] > 0 => req[u].seen[i] = Read(i, {})
    BY DEF Fresh, UpToDate, CreateWork
  <2>4. UpToDate(u)'
    BY <2>1, <2>2, <2>3 DEF UpToDate
  <2> QED
    BY <2>1, <2>4, OthersIdle
<1> QED
  BY <1>4, <1>5 DEF CreateWork

LEMMA CreatingRowFresh ==
  ASSUME Inv, Fresh, NEW u \in Users, NEW i \in Items, CreateRow(u, i)
  PROVE  Fresh'
<1> DEFINE left == [req[u].rows EXCEPT ![i] = 0]
<1>1. \A v \in Users \ {u} : req[v] = Idle
  BY UnderWay DEF CreateRow, Idle
<1>2. /\ req \in [Users -> Request] /\ req[u] \in Request
      /\ work \in [Works -> {None} \cup Work] /\ req[u].work \in Works
      /\ work[req[u].work] \in Work
  BY DEF Inv, TypeOK, Ready, CreateRow
<1>3. CASE Done(u)
  BY <1>1, <1>2, <1>3, IdleUpToDate, OthersIdle DEF Done
<1>4. CASE req' = [req EXCEPT ![u].rows = left]
  <2>1. /\ req'[u].op = "rows" /\ req'[u].rows = left /\ req'[u].seen = req[u].seen
        /\ \A v \in Users \ {u} : req'[v] = Idle
    BY <1>1, <1>2, <1>4 DEF Request, CreateRow
  <2>2. left[i] = 0 /\ \A k \in Items \ {i} : left[k] = req[u].rows[k]
    BY <1>2 DEF Request, Rows
  <2>3. ASSUME NEW k \in Items \ {i} PROVE Read(k, {})' = Read(k, {})
    <3> DEFINE w == req[u].work
               filled == [work[w].rows EXCEPT ![i] = @ + req[u].rows[i]]
               new == [work[w] EXCEPT !.rows = filled]
    <3>1. work' = [work EXCEPT ![w] = new]
      BY <1>2 DEF CreateRow, Work
    <3>2. filled \in Rows /\ filled[k] = work[w].rows[k]
      BY <1>2 DEF Work, Rows, Request
    <3>3. new \in Work /\ new.rows[k] = work[w].rows[k]
      BY <1>2, <3>2 DEF Work
    <3>4. new # None /\ work[w] # None
      BY <1>2, <3>3, NoneIsNothing
    <3> HIDE DEF new, w
    <3>5. \A x \in Works : (IF work'[x] = None THEN 0 ELSE work'[x].rows[k])
                             = IF work[x] = None THEN 0 ELSE work[x].rows[k]
      BY <1>2, <3>1, <3>3, <3>4
    <3>6. Amounts(work', k) = Amounts(work, k)
      BY <3>5 DEF Amounts
    <3> QED
      BY <3>6, ReadAgain DEF CreateRow
  <2>4. \A k \in Items : req[u].rows[k] > 0 => req[u].seen[k] = Read(k, {})
    BY DEF Fresh, UpToDate, CreateRow
  <2> HIDE DEF left
  <2>5. UpToDate(u)'
    <3>1. ASSUME NEW k \in Items, left[k] > 0 PROVE req[u].seen[k] = Read(k, {})'
      <4>1. k # i
        BY <2>2, <3>1
      <4> QED
        BY <2>2, <2>3, <2>4, <3>1, <4>1
    <3> QED
      BY <2>1, <3>1 DEF UpToDate
  <2> QED
    BY <2>1, <2>5, OthersIdle
<1> QED
  BY <1>3, <1>4 DEF CreateRow

(* Steps that end a request, or leave nothing to be kept up to date.       *)
LEMMA EndFresh ==
  ASSUME Inv, Fresh, NEW u \in Users, req[u] # Idle, Done(u)
  PROVE  Fresh'
<1>1. req'[u] = Idle /\ \A v \in Users \ {u} : req'[v] = Idle
  BY UnderWay DEF Done, Inv, TypeOK
<1> QED
  BY <1>1, IdleUpToDate, OthersIdle

LEMMA AtOnceFresh ==
  ASSUME Inv, Fresh, OneByOne, NEW u \in Users, Start(u), req' = req
  PROVE  Fresh'
<1>1. \A v \in Users : req'[v] = Idle
  BY BegunAlone
<1> QED
  BY <1>1, IdleUpToDate, OthersIdle

LEMMA ReplacingFresh ==
  ASSUME Inv, Fresh, OneByOne, NEW u \in Users,
         \/ \E s \in Orders : BeginReplace(u, s)
         \/ Replace(u)
         \/ \E i \in Items, q \in Quantities : AddItem(u, i, q)
  PROVE  Fresh'
<1>1. \A v \in Users \ {u} : req[v] = Idle
  <2>1. ASSUME NEW s \in Orders, BeginReplace(u, s) PROVE \A v \in Users : req[v] = Idle
    BY <2>1, BegunAlone DEF BeginReplace
  <2>2. CASE req[u] # Idle
    BY <2>2, UnderWay
  <2> QED
    BY <2>1, <2>2 DEF Replace, AddItem, Idle
<1>2. CASE Done(u)
  BY <1>1, <1>2, IdleUpToDate, OthersIdle DEF Done, Inv, TypeOK
<1>3. ASSUME req'[u].op \in {"replace", "refill"}, \A v \in Users \ {u} : req'[v] = req[v]
      PROVE  Fresh'
  BY <1>1, <1>3, OthersIdle DEF UpToDate
<1>4. ASSUME NEW s \in Orders, BeginReplace(u, s) PROVE Fresh'
  <2> DEFINE r == [Idle EXCEPT !.op = "replace", !.order = s]
  <2>1. r.op = "replace" /\ req' = [req EXCEPT ![u] = r]
    BY <1>4 DEF BeginReplace, Idle
  <2> HIDE DEF r
  <2> QED
    BY <1>3, <2>1 DEF Inv, TypeOK
<1>5. CASE Replace(u)
  BY <1>3, <1>5 DEF Replace, Inv, TypeOK, Request
<1>6. ASSUME NEW i \in Items, NEW q \in Quantities, AddItem(u, i, q) PROVE Fresh'
  BY <1>2, <1>3, <1>6 DEF AddItem
<1> QED
  BY <1>4, <1>5, <1>6

LEMMA StepFresh ==
  ASSUME Inv, Fresh, [Next]_vars, [OneByOne]_vars
  PROVE  Fresh'
<1>1. CASE UNCHANGED vars
  <2>1. \A i \in Items : Amounts(work', i) = Amounts(work, i) /\ item'[i] = item[i]
    BY <1>1 DEF vars
  <2>2. \A u \in Users : UpToDate(u)'
    <3>1. SUFFICES ASSUME NEW u \in Users PROVE UpToDate(u)'
      OBVIOUS
    <3>2. \A i \in Items : Read(i, {})' = Read(i, {})
      BY <2>1, ReadAgain
    <3>3. \A i \in Items : Read(i, {req[u].work})' = Read(i, {req[u].work})
      BY <1>1 DEF Read, Taken, vars
    <3>4. req' = req /\ work' = work
      BY <1>1 DEF vars
    <3> QED
      BY <3>2, <3>3, <3>4 DEF UpToDate, Fresh
  <2> QED
    BY <1>1, <2>2 DEF Fresh, Alone, vars
<1>2. ASSUME OneByOne, NEW u \in Users, Creating(u) PROVE Fresh'
  <2>1. ASSUME NEW s \in Orders, NEW w \in Works, NEW rows \in SomeRows, PlanSelected(u, s, w, rows)
        PROVE  Fresh'
    BY <1>2, <2>1, BegunAlone, DraftFresh DEF PlanSelected, Start
  <2>2. ASSUME NEW s \in Orders, NEW w \in Works, NEW available \in [Products -> Stocks],
               PlanDefault(u, s, w, available)
        PROVE  Fresh'
    <3>1. \A v \in Users \ {u} : req[v] = Idle
      BY <1>2, <2>2, BegunAlone, UnderWay DEF PlanDefault, Idle
    <3>2. req[u] = Idle \/ req[u].op = "default"
      BY <2>2 DEF PlanDefault, Start
    <3> QED
      BY <2>2, <3>1, <3>2, DraftFresh DEF PlanDefault
  <2> QED
    BY <1>2, <2>1, <2>2, EndFresh DEF Creating, CommitDrafts, Idle
<1>3. ASSUME OneByOne, NEW u \in Users, Editing(u) PROVE Fresh'
  <2>1. CASE CommitEdit(u)
    BY <2>1, EndFresh DEF CommitEdit, Idle
  <2>2. ASSUME NEW w \in Works, NEW s \in Orders \cup {None}, EditHeader(u, w, s) PROVE Fresh'
    BY <1>3, <2>2, AtOnceFresh DEF EditHeader
  <2>3. ASSUME NEW w \in Works, NEW i \in Items, NEW q \in Quantities \cup {0}, SetRow(u, w, i, q)
        PROVE  Fresh'
    BY <1>3, <2>3, AtOnceFresh DEF SetRow
  <2>4. ASSUME NEW w \in Works, DeleteWork(u, w) PROVE Fresh'
    BY <1>3, <2>4, AtOnceFresh DEF DeleteWork
  <2> QED
    BY <1>3, <2>1, <2>2, <2>3, <2>4, FormFresh, CreatingWorkFresh, CreatingRowFresh DEF Editing
<1>4. ASSUME OneByOne, NEW u \in Users, Ordering(u) PROVE Fresh'
  <2>1. ASSUME NEW i \in Items, NEW q \in Quantities, SetQuantity(u, i, q) PROVE Fresh'
    BY <1>4, <2>1, AtOnceFresh DEF SetQuantity
  <2>2. ASSUME NEW i \in Items, DeleteItem(u, i) PROVE Fresh'
    BY <1>4, <2>2, AtOnceFresh DEF DeleteItem
  <2> QED
    BY <1>4, <2>1, <2>2, ReplacingFresh DEF Ordering
<1>5. ASSUME NEW u \in Users, Fail(u) PROVE Fresh'
  BY <1>5, EndFresh DEF Fail
<1> QED
  BY <1>1, <1>2, <1>3, <1>4, <1>5 DEF Next

LEMMA AlwaysFresh == Spec /\ [][OneByOne]_vars => []Fresh
<1>1. Init => Fresh
  BY DEF Init, Fresh, Alone, UpToDate, Idle
<1>2. Inv /\ Fresh /\ [Next]_vars /\ [OneByOne]_vars => Fresh'
  BY StepFresh
<1> QED
  BY <1>1, <1>2, Inductive, PTL DEF Spec

(* The changes that compare nothing: the endpoint of rows raises one, or a *)
(* user lowers the quantity of an item.                                    *)
Unchecked ==
  \E u \in Users, i \in Items :
     \/ \E q \in Quantities : SetQuantity(u, i, q) /\ q < item[i].quantity
     \/ \E w \in Works, q \in Quantities \cup {0} : SetRow(u, w, i, q) /\ q > work[w].rows[i]

LEMMA NothingLoose ==
  ASSUME Inv, Fresh, loose = {}, [Next]_vars, [~Unchecked]_vars
  PROVE  loose' = {}
<1>1. CASE loose' = loose
  BY <1>1
<1>2. ASSUME NEW u \in Users, CommitDrafts(u) PROVE loose' = {}
  <2>1. ASSUME NEW w \in Works, req[u].drafts[w] # None
        PROVE  Outdated(u, req[u].drafts[w].rows, {}) = {}
    BY <1>2, <2>1 DEF Outdated, Fresh, UpToDate, CommitDrafts
  <2> QED
    BY <1>2, <2>1 DEF CommitDrafts
<1>3. ASSUME NEW u \in Users, NEW i \in Items, CreateRow(u, i) PROVE loose' = {}
  <2> DEFINE row == [k \in Items |-> IF k = i THEN req[u].rows[i] ELSE 0]
  <2>1. req[u].seen[i] = Read(i, {})
    BY <1>3 DEF Fresh, UpToDate, CreateRow
  <2>2. \A k \in Items : row[k] > 0 => k = i
    OBVIOUS
  <2>3. Outdated(u, row, {}) = {}
    BY <2>1, <2>2 DEF Outdated
  <2> QED
    BY <1>3, <2>3 DEF CreateRow
<1>4. ASSUME NEW u \in Users, CommitEdit(u) PROVE loose' = {}
  <2>1. Outdated(u, req[u].rows, {req[u].work}) = {}
    BY <1>4 DEF Outdated, Fresh, UpToDate, CommitEdit
  <2> QED
    BY <1>4, <2>1 DEF CommitEdit
<1>5. ASSUME NEW u \in Users, NEW w \in Works, NEW i \in Items, NEW q \in Quantities \cup {0},
             SetRow(u, w, i, q), ~Unchecked
      PROVE  loose' = {}
  BY <1>5 DEF Unchecked, SetRow
<1>6. ASSUME NEW u \in Users, NEW i \in Items, NEW q \in Quantities, SetQuantity(u, i, q),
             ~Unchecked
      PROVE  loose' = {}
  BY <1>6 DEF Unchecked, SetQuantity
<1>7. ASSUME NEW gone, DeleteItems(gone) PROVE loose' = {}
  BY <1>7 DEF DeleteItems
<1>8. CASE UNCHANGED vars
  BY <1>8 DEF vars
<1>9. ASSUME Next, ~Unchecked PROVE loose' = {}
  <2>1. PICK u \in Users : Creating(u) \/ Editing(u) \/ Ordering(u) \/ Fail(u)
    BY <1>9 DEF Next
  <2>2. CASE Creating(u)
    BY <1>1, <1>2, <2>2 DEF Creating, PlanSelected, PlanDefault, Draft
  <2>3. CASE Editing(u)
    <3>1. ASSUME NEW w \in Works, NEW i \in Items, NEW q \in Quantities \cup {0}, SetRow(u, w, i, q)
          PROVE  loose' = {}
      BY <1>5, <1>9, <3>1
    <3>2. ASSUME NEW w \in Works, NEW s \in Orders \cup {None}, NEW rows \in SomeRows,
                 BeginCreate(u, w, s, rows) \/ BeginEdit(u, w, s, rows)
          PROVE  loose' = {}
      BY <1>1, <3>2 DEF BeginCreate, BeginEdit, BeginForm
    <3> QED
      BY <1>1, <1>3, <1>4, <2>3, <3>1, <3>2 DEF Editing, EditHeader, CreateWork, DeleteWork
  <2>4. CASE Ordering(u)
    <3>1. ASSUME NEW i \in Items, NEW q \in Quantities, SetQuantity(u, i, q) PROVE loose' = {}
      BY <1>6, <1>9, <3>1
    <3> QED
      BY <1>1, <1>7, <2>4, <3>1 DEF Ordering, BeginReplace, Replace, AddItem, DeleteItem
  <2>5. CASE Fail(u)
    BY <1>1, <2>5 DEF Fail
  <2> QED
    BY <2>1, <2>2, <2>3, <2>4, <2>5
<1> QED
  BY <1>8, <1>9

(* One request at a time, work orders never take more of an item than was  *)
(* ordered, whichever way they are made and edited, as long as nobody      *)
(* raises a row or lowers a quantity where the code compares nothing.      *)
THEOREM OneByOneFits ==
  Spec /\ [][OneByOne]_vars /\ [][~Unchecked]_vars =>
    [](\A i \in Items : item[i] # None => Taken(i, {}) <= item[i].quantity)
<1>1. Init => loose = {}
  BY DEF Init
<1>2. Inv /\ Fresh /\ loose = {} /\ [Next]_vars /\ [~Unchecked]_vars => (loose = {})'
  BY NothingLoose
<1>3. Spec /\ [][OneByOne]_vars /\ [][~Unchecked]_vars => [](loose = {})
  BY <1>1, <1>2, Inductive, AlwaysFresh, PTL DEF Spec
<1>4. loose = {} /\ AllocatedWithinOrdered =>
        \A i \in Items : item[i] # None => Taken(i, {}) <= item[i].quantity
  BY DEF AllocatedWithinOrdered
<1> QED
  BY <1>3, <1>4, NeverOverAllocated, PTL

Dropped == \E u \in Users, i \in Items : DeleteItem(u, i)

LEMMA NobodyRaces ==
  ASSUME Inv, Fresh, raced = {}, [Next]_vars, [OneByOne]_vars, [~Dropped]_vars
  PROVE  raced' = {}
<1>1. CASE raced' = raced
  BY <1>1
<1>2. ASSUME NEW orders, Attach(orders), \A v \in Users : req[v].op # "replace"
      PROVE  raced' = {}
  BY <1>2 DEF Attach
<1>3. ASSUME NEW u \in Users, CommitDrafts(u) \/ CreateWork(u) \/ CommitEdit(u)
      PROVE  \A v \in Users : req[v].op # "replace"
  <2>1. req[u] # Idle /\ req[u].op # "replace"
    BY <1>3 DEF CommitDrafts, CreateWork, CommitEdit, Idle
  <2> QED
    BY <2>1, UnderWay DEF Idle
<1>4. ASSUME OneByOne, NEW u \in Users, NEW w \in Works, NEW s, EditHeader(u, w, s)
      PROVE  \A v \in Users : req[v].op # "replace"
  BY <1>4, BegunAlone DEF EditHeader, Idle
<1>5. CASE UNCHANGED vars
  BY <1>5 DEF vars
<1>6. ASSUME Next, OneByOne, ~Dropped PROVE raced' = {}
  <2>1. PICK u \in Users : Creating(u) \/ Editing(u) \/ Ordering(u) \/ Fail(u)
    BY <1>6 DEF Next
  <2>2. CASE Creating(u)
    <3>1. CASE CommitDrafts(u)
      BY <1>2, <1>3, <3>1 DEF CommitDrafts
    <3> QED
      BY <1>1, <2>2, <3>1 DEF Creating, PlanSelected, PlanDefault, Draft
  <2>3. CASE Editing(u)
    <3>1. CASE CreateWork(u) \/ CommitEdit(u)
      BY <1>2, <1>3, <3>1 DEF CreateWork, CommitEdit
    <3>2. ASSUME NEW w \in Works, NEW s \in Orders \cup {None}, EditHeader(u, w, s)
          PROVE  raced' = {}
      BY <1>2, <1>4, <1>6, <3>2 DEF EditHeader
    <3>3. ASSUME NEW w \in Works, NEW s \in Orders \cup {None}, NEW rows \in SomeRows,
                 BeginCreate(u, w, s, rows) \/ BeginEdit(u, w, s, rows)
          PROVE  raced' = {}
      BY <1>1, <3>3 DEF BeginCreate, BeginEdit, BeginForm
    <3> QED
      BY <1>1, <2>3, <3>1, <3>2, <3>3 DEF Editing, CreateRow, SetRow, DeleteWork
  <2>4. CASE Ordering(u)
    BY <1>1, <1>6, <2>4 DEF Ordering, BeginReplace, Replace, AddItem, SetQuantity, Dropped
  <2>5. CASE Fail(u)
    BY <1>1, <2>5 DEF Fail
  <2> QED
    BY <2>1, <2>2, <2>3, <2>4, <2>5
<1> QED
  BY <1>5, <1>6

(* One request at a time, an item of which a work order of its own sales   *)
(* order was made stays, unless it is deleted by itself, which asks for    *)
(* nothing.                                                                *)
THEOREM OneByOneKeepsSources ==
  Spec /\ [][OneByOne]_vars /\ [][~Dropped]_vars =>
    [][\A w \in Works, i \in Items :
          /\ work[w] # None /\ work[w].rows[i] > 0
          /\ item[i] # None /\ item[i].order = work[w].order
          => item'[i] # None]_vars
<1>1. Init => raced = {}
  BY DEF Init
<1>2. Inv /\ Fresh /\ raced = {} /\ [Next]_vars /\ [OneByOne]_vars /\ [~Dropped]_vars
        => (raced = {})'
  BY NobodyRaces
<1>3. Spec /\ [][OneByOne]_vars /\ [][~Dropped]_vars => [](raced = {})
  BY <1>1, <1>2, Inductive, AlwaysFresh, PTL DEF Spec
<1>4. (raced = {})' /\ [KeepSources]_vars =>
        [\A w \in Works, i \in Items :
            /\ work[w] # None /\ work[w].rows[i] > 0
            /\ item[i] # None /\ item[i].order = work[w].order
            => item'[i] # None]_vars
  BY DEF KeepSources
<1> QED
  BY <1>3, <1>4, SourcesAreKept, PTL DEF SourcesKeepItems, KeepSources

=============================================================================
