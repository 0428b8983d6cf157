--------------------------- MODULE Payments_proofs ---------------------------
(***************************************************************************)
(* Proofs about Payments, for any users, payments, plans and amounts.      *)
(***************************************************************************)
EXTENDS Payments, SumTheorems

-----------------------------------------------------------------------------
(* What an order has received.                                             *)
Rows == [Payments -> Payment \cup {None}]

LEMMA CountedIsFinite == \A rows, b : IsFiniteSet(Counted(rows, b))
<1>1. \A rows, b : Counted(rows, b) \subseteq Payments
  BY DEF Counted
<1> QED
  BY <1>1, FS_Subset, MoneyAssumption

LEMMA AppliedIsInt ==
  ASSUME NEW rows \in Rows, NEW b, NEW k \in Counted(rows, b)
  PROVE  Applying(rows)[k] = rows[k].applied /\ rows[k].applied \in Int
  BY DEF Applying, Rows, Counted, Payment

LEMMA SumIsMoney ==
  ASSUME NEW rows \in Rows, NEW b
  PROVE  Sum(rows, b) \in Int
<1>1. IsFiniteSet(Counted(rows, b))
  BY CountedIsFinite
<1>2. \A k \in Counted(rows, b) : Applying(rows)[k] \in Int
  BY AppliedIsInt
<1> QED
  BY <1>1, <1>2, SumIsInt DEF Sum

(* Payments that do not count, or of another order, do not matter.         *)
Counts(rows, k) == rows[k] # None /\ rows[k].state = "approved"

LEMMA SumIsKept ==
  ASSUME NEW old \in Rows, NEW new \in Rows, NEW b,
         \A k \in Payments : Of[k] = b =>
            new[k] = old[k] \/ (~Counts(new, k) /\ ~Counts(old, k))
  PROVE  Sum(new, b) = Sum(old, b)
<1>1. Counted(new, b) = Counted(old, b)
  BY DEF Counted, Counts
<1>2. \A k \in Counted(new, b) : Applying(new)[k] = Applying(old)[k]
  BY <1>1 DEF Counted, Counts, Applying
<1>3. IsFiniteSet(Counted(new, b))
  BY CountedIsFinite
<1>4. SumFunctionOnSet(Applying(new), Counted(new, b)) =
          SumFunctionOnSet(Applying(old), Counted(new, b))
  BY <1>2, <1>3, SumSame
<1> QED
  BY <1>1, <1>4 DEF Sum

LEMMA NothingReceived ==
  ASSUME NEW b, payments = [k \in Payments |-> None]
  PROVE  Received(b) = 0
<1>1. Counted(payments, b) = {}
  BY DEF Counted
<1> QED
  BY <1>1, SumEmpty DEF Received, Sum

-----------------------------------------------------------------------------
(* How the plans are filled.                                               *)
PlanRows == [Plans -> Plan \cup {None}]
Ahead(i) == SumFunctionOnSet(Amount(plans), {j \in Plans : j <= i})

LEMMA AmountIsNat ==
  ASSUME plans \in PlanRows, NEW j \in Plans
  PROVE  Amount(plans)[j] = (IF plans[j] = None THEN 0 ELSE plans[j].amount)
         /\ Amount(plans)[j] \in Nat
  BY DEF Amount, PlanRows, Plan

LEMMA AheadGrows ==
  ASSUME plans \in PlanRows
  PROVE  /\ Ahead(0) = 0
         /\ \A i \in 0..PlanCount : Ahead(i) \in Nat
         /\ \A i \in Plans : Ahead(i) = Ahead(i - 1) + Amount(plans)[i]
         /\ \A i \in Plans : Earlier(i) = Ahead(i - 1)
<1>1. PlanCount \in Nat
  BY MoneyAssumption
<1>2. \A i : IsFiniteSet({j \in Plans : j <= i}) /\ {j \in Plans : j <= i} \subseteq Plans
  <2>1. IsFiniteSet(Plans)
    BY <1>1, FS_Interval DEF Plans
  <2>2. \A i : {j \in Plans : j <= i} \subseteq Plans
    OBVIOUS
  <2> QED
    BY <2>1, <2>2, FS_Subset
<1>3. \A j \in Plans : Amount(plans)[j] \in Nat
  BY AmountIsNat
<1>4. Ahead(0) = 0
  <2>1. {j \in Plans : j <= 0} = {}
    BY DEF Plans
  <2> QED
    BY <2>1, SumEmpty DEF Ahead
<1>5. \A i : Ahead(i) \in Nat
  BY <1>2, <1>3, SumIsNat DEF Ahead
<1>6. ASSUME NEW i \in Plans PROVE Ahead(i) = Ahead(i - 1) + Amount(plans)[i]
  <2> DEFINE S == {j \in Plans : j <= i}
  <2>1. i \in S /\ S \ {i} = {j \in Plans : j <= i - 1}
    BY <1>1 DEF Plans
  <2>2. SumFunctionOnSet(Amount(plans), S) =
            Amount(plans)[i] + SumFunctionOnSet(Amount(plans), S \ {i})
    <3>1. IsFiniteSet(S) /\ (\A j \in S : Amount(plans)[j] \in Int)
      BY <1>2, <1>3
    <3> HIDE DEF S
    <3> QED
      BY <2>1, <3>1, SumTakeOut
  <2>3. Ahead(i) = Amount(plans)[i] + Ahead(i - 1)
    BY <2>1, <2>2 DEF Ahead
  <2> QED
    BY <1>3, <1>5, <2>3
<1>7. ASSUME NEW i \in Plans PROVE Earlier(i) = Ahead(i - 1)
  <2>1. {j \in Plans : j < i} = {j \in Plans : j <= i - 1}
    BY <1>1 DEF Plans
  <2> QED
    BY <2>1 DEF Earlier, Ahead
<1> QED
  BY <1>4, <1>5, <1>6, <1>7

(* What is left, step by step and at once.                                 *)
Next1(left, sum, i) ==
    IF i = 0 THEN sum
    ELSE IF plans[i] = None \/ left[i - 1] <= 0 THEN left[i - 1]
    ELSE IF left[i - 1] >= plans[i].amount THEN left[i - 1] - plans[i].amount
    ELSE 0
Steps(left, sum) == left = [i \in 0..PlanCount |-> Next1(left, sum, i)]
AtOnce(sum, i) == IF sum <= 0 THEN sum ELSE IF sum > Ahead(i) THEN sum - Ahead(i) ELSE 0

LEMMA LeftUnfolded ==
  ASSUME NEW sum
  PROVE  Left(sum) = CHOOSE left : Steps(left, sum)
  BY DEF Left, Steps, Next1

LEMMA OneStep ==
  ASSUME plans \in PlanRows, NEW sum \in Int, NEW i \in 0..PlanCount, NEW left,
         i > 0 => left[i - 1] = AtOnce(sum, i - 1)
  PROVE  Next1(left, sum, i) = AtOnce(sum, i)
<1>1. PlanCount \in Nat
  BY MoneyAssumption
<1>2. CASE i = 0
  BY <1>2, AheadGrows DEF Next1, AtOnce
<1>3. CASE i > 0
  <2>1. i \in Plans /\ i - 1 \in 0..PlanCount
    BY <1>1, <1>3 DEF Plans
  <2>2. /\ Ahead(i) = Ahead(i - 1) + Amount(plans)[i]
        /\ Ahead(i) \in Nat /\ Ahead(i - 1) \in Nat
    BY <2>1, AheadGrows
  <2>3. /\ Amount(plans)[i] = (IF plans[i] = None THEN 0 ELSE plans[i].amount)
        /\ Amount(plans)[i] \in Nat
    BY <2>1, AmountIsNat
  <2>4. Next1(left, sum, i) =
            IF plans[i] = None \/ AtOnce(sum, i - 1) <= 0 THEN AtOnce(sum, i - 1)
            ELSE IF AtOnce(sum, i - 1) >= plans[i].amount
                   THEN AtOnce(sum, i - 1) - plans[i].amount
            ELSE 0
    BY <1>1, <1>3 DEF Next1
  <2> QED
    BY <2>2, <2>3, <2>4 DEF AtOnce
<1> QED
  BY <1>1, <1>2, <1>3

LEMMA LeftIs ==
  ASSUME plans \in PlanRows, NEW sum \in Int
  PROVE  \A i \in 0..PlanCount : Left(sum)[i] = AtOnce(sum, i)
<1> DEFINE g == [i \in 0..PlanCount |-> AtOnce(sum, i)]
           left == Left(sum)
           Bad == {i \in 0..PlanCount : left[i] # AtOnce(sum, i)}
<1>1. PlanCount \in Nat
  BY MoneyAssumption
<1>2. Steps(g, sum)
  <2>1. ASSUME NEW i \in 0..PlanCount PROVE Next1(g, sum, i) = AtOnce(sum, i)
    <3>1. i > 0 => i - 1 \in 0..PlanCount
      BY <1>1
    <3>2. i > 0 => g[i - 1] = AtOnce(sum, i - 1)
      BY <3>1
    <3> HIDE DEF g
    <3> QED
      BY <3>2, OneStep
  <2> QED
    BY <2>1 DEF Steps
<1>3. Steps(left, sum)
  <2> HIDE DEF g
  <2> QED
    BY <1>2, LeftUnfolded
<1>4. SUFFICES ASSUME Bad # {} PROVE FALSE
  OBVIOUS
<1>5. PICK m \in Bad : \A k \in Bad : m <= k
  <2> DEFINE S == 0..PlanCount
             Upto == {0..k : k \in Bad}
  <2>1. IsWellFoundedOn(StrictSubsetOrdering(S), SUBSET S)
    <3>1. IsFiniteSet(S)
      BY <1>1, FS_Interval
    <3> HIDE DEF S
    <3> QED
      BY <3>1, FS_StrictSubsetOrderingWellFounded, FS_FiniteSubsetsOfFinite
  <2>2. Upto \subseteq SUBSET S /\ Upto # {}
    BY <1>1, <1>4
  <2>3. PICK T \in Upto : \A U \in Upto : <<U, T>> \notin StrictSubsetOrdering(S)
    <3> HIDE DEF S, Upto
    <3> QED
      BY <2>1, <2>2, WFMin
  <2>4. PICK m \in Bad : T = 0..m
    OBVIOUS
  <2>5. ASSUME NEW k \in Bad, ~ m <= k PROVE FALSE
    <3>1. k \in Nat /\ m \in Nat /\ k < m
      BY <1>1, <2>5
    <3>2. 0..k \in SUBSET (0..m) /\ m \in 0..m /\ m \notin 0..k
      BY <3>1
    <3>3. 0..k \in Upto /\ 0..m \in SUBSET S
      BY <1>1
    <3>4. <<0..k, T>> \in StrictSubsetOrdering(S)
      <4> HIDE DEF S, Upto, Bad
      <4> QED
        BY <2>4, <3>2, <3>3 DEF StrictSubsetOrdering
    <3> QED
      BY <2>3, <3>3, <3>4
  <2> QED
    BY <2>5
<1>6. m > 0 => left[m - 1] = AtOnce(sum, m - 1)
  <2>1. m \in 0..PlanCount /\ m \in Nat
    OBVIOUS
  <2>2. m > 0 => m - 1 \in 0..PlanCount /\ m - 1 \notin Bad
    BY <1>1, <1>5, <2>1
  <2> QED
    BY <2>2
<1>7. left[m] = Next1(left, sum, m)
  <2> HIDE DEF left
  <2> QED
    BY <1>3 DEF Steps
<1>8. Next1(left, sum, m) = AtOnce(sum, m)
  <2> HIDE DEF left
  <2> QED
    BY <1>6, OneStep
<1> QED
  BY <1>7, <1>8

LEMMA RefreshedIs ==
  ASSUME NEW plan \in Plan
  PROVE  /\ Refreshed(plan) \in Plan /\ Refreshed(plan) # None
         /\ Refreshed(plan).amount = plan.amount /\ Refreshed(plan).paid = plan.paid
         /\ Refreshed(plan).level = PlanLevel(Refreshed(plan))
<1>1. PlanLevel(plan) \in Levels
  BY DEF PlanLevel, Levels, Plan
<1>2. /\ Refreshed(plan) \in Plan
      /\ Refreshed(plan).amount = plan.amount /\ Refreshed(plan).paid = plan.paid
      /\ Refreshed(plan).level = PlanLevel(plan)
  BY <1>1 DEF Refreshed, Plan
<1>3. PlanLevel(Refreshed(plan)) = PlanLevel(plan)
  BY <1>2 DEF PlanLevel
<1> QED
  BY <1>2, <1>3, NoneIsNoPlan

LEMMA FilledIs ==
  ASSUME plans \in PlanRows, NEW sum \in Int, NEW i \in Plans
  PROVE  LET new == Filled(sum)[i]
         IN  /\ plans[i] = None => new = None
             /\ plans[i] # None =>
                   /\ new \in Plan /\ new # None /\ new.amount = plans[i].amount
                   /\ new.paid = Within(sum - Earlier(i), plans[i].amount)
                   /\ new.paid > 0 => new.level = PlanLevel(new)
<1> DEFINE new == Filled(sum)[i]
           left == Left(sum)[i - 1]
           rest == sum - Earlier(i)
<1>1. CASE plans[i] = None
  BY <1>1 DEF Filled, Fill
<1>2. CASE plans[i] # None
  <2> DEFINE plan == plans[i]
             paid == IF left >= plan.amount THEN plan.amount ELSE left
             full == [plan EXCEPT !.paid = paid]
             none == [plan EXCEPT !.paid = 0]
  <2>1. plan \in Plan /\ plan.amount \in Nat /\ plan.paid \in Int
    BY <1>2 DEF PlanRows, Plan
  <2>2. left = AtOnce(sum, i - 1) /\ Earlier(i) = Ahead(i - 1) /\ Ahead(i - 1) \in Nat
    <3>1. i - 1 \in 0..PlanCount
      BY MoneyAssumption DEF Plans
    <3> QED
      BY <3>1, LeftIs, AheadGrows
  <2>3. left \in Int /\ (left > 0 => left = rest) /\ (left <= 0 => rest <= 0) /\ rest \in Int
    <3> HIDE DEF left
    <3> QED
      BY <2>2 DEF AtOnce
  <2>4. new = IF left <= 0 THEN IF plan.paid = 0 THEN plan ELSE Refreshed(none)
              ELSE Refreshed(full)
    <3> HIDE DEF left
    <3>1. left <= 0 \/ left > 0
      BY <2>3
    <3> QED
      BY <1>2, <2>3, <3>1 DEF Filled, Fill, left
  <2>5. CASE left <= 0
    <3>1. none \in Plan /\ none.amount = plan.amount /\ none.paid = 0
      BY <2>1 DEF Plan
    <3>2. Within(rest, plan.amount) = 0
      BY <2>1, <2>3, <2>5 DEF Within
    <3>3. CASE plan.paid = 0
      BY <1>2, <2>1, <2>4, <2>5, <3>2, <3>3
    <3>4. CASE plan.paid # 0
      <4>1. new = Refreshed(none)
        BY <2>4, <2>5, <3>4
      <4> HIDE DEF none, new, left, rest
      <4> QED
        BY <1>2, <3>1, <3>2, <4>1, RefreshedIs DEF new, rest
    <3> QED
      BY <3>3, <3>4
  <2>6. CASE ~ left <= 0
    <3>1. paid \in Int /\ paid = Within(rest, plan.amount)
      BY <2>1, <2>3, <2>6 DEF Within
    <3>2. full \in Plan /\ full.amount = plan.amount /\ full.paid = paid
      BY <2>1, <3>1 DEF Plan
    <3>3. new = Refreshed(full)
      BY <2>4, <2>6
    <3> HIDE DEF full, new, left, rest, paid
    <3> QED
      BY <1>2, <3>1, <3>2, <3>3, RefreshedIs DEF new, rest
  <2> QED
    BY <2>5, <2>6
<1> QED
  BY <1>1, <1>2

-----------------------------------------------------------------------------
(* The inductive invariant: types, what a request has loaded, and for each *)
(* order that whoever holds its lock has summed up what is received now,   *)
(* unless somebody is still going to sum up or has disturbed the order.    *)
Types ==
    /\ book \in [Books -> Book]
    /\ payments \in Rows
    /\ plans \in PlanRows
    /\ req \in [Users -> Request]
    /\ disturbed \in [Books -> Nat]
    /\ healed \in [Books -> Nat]
    /\ begun \in Nat

Ready(r) == r.at = "begun" =>
    /\ r.op \in PaymentRequests => r.id \in Payments /\ r.copy \in Payment /\ Of[r.id] = r.book
    /\ r.op \in BookRequests => r.copy \in Book
    /\ r.op \in PlanRequests => r.id \in Plans /\ r.copy \in Plan

Summing(r, b) == r.at \in {"apply", "counted"} /\ r.book = b

Shows(b) ==
    /\ book[b].paid = Received(b)
    /\ book[b].level = LevelFor(Received(b), book[b].total)
    /\ book[b].level = "paid" => book[b].dated
    /\ book[b].level = "unpaid" => ~book[b].dated

InOrder == \A i \in Plans : plans[i] # None =>
    /\ plans[i].paid = Within(Received("sales") - Earlier(i), plans[i].amount)
    /\ plans[i].paid > 0 => plans[i].level = PlanLevel(plans[i])

Part(b) ==
    /\ healed[b] <= disturbed[b]
    /\ \A u, v \in Users : Locks(u, b) /\ Locks(v, b) => u = v
    /\ \A u \in Users : Locks(u, b) =>
          /\ req[u].seen <= disturbed[b]
          /\ \/ req[u].seen # disturbed[b]
             \/ \E v \in Users : req[v].at = "apply" /\ req[v].book = b
             \/ req[u].sum = Received(b)
    /\ Settled(b) => Shows(b) /\ (b = "sales" => InOrder)

Inv == Types /\ (\A u \in Users : Ready(req[u])) /\ (\A b \in Books : Part(b))

(* For any order, a step of a request is of one of three kinds: it leaves  *)
(* the order as it is, it disturbs the order, or it is going to sum up.    *)
LEMMA Quiet ==
  ASSUME Inv, NEW u \in Users, NEW r \in Request, NEW b \in Books,
         req' = [req EXCEPT ![u] = r], ~Summing(req[u], b), ~Summing(r, b),
         disturbed'[b] = disturbed[b], healed'[b] = healed[b],
         Received(b)' = Received(b), Shows(b) => Shows(b)', b = "sales" /\ InOrder => InOrder'
  PROVE  Part(b)'
<1>1. req \in [Users -> Request] /\ Part(b)
  BY DEF Inv, Types
<1>2. \A v \in Users : v = u \/ req'[v] = req[v]
  BY <1>1
<1>3. req'[u] = r
  BY <1>1
<1>4. \A v \in Users : Locks(v, b)' => req'[v] = req[v] /\ Locks(v, b)
  BY <1>2, <1>3 DEF Locks, Summing
<1>5. \A v \in Users : Summing(req[v], b) => req'[v] = req[v]
  BY <1>2
<1>6. Settled(b)' => Settled(b)
  BY <1>5 DEF Settled, Summing
<1>7. ASSUME NEW v \in Users, Locks(v, b)'
      PROVE  /\ req'[v].seen <= disturbed'[b]
             /\ \/ req'[v].seen # disturbed'[b]
                \/ \E x \in Users : req'[x].at = "apply" /\ req'[x].book = b
                \/ req'[v].sum = Received(b)'
  <2>1. \A x \in Users : req[x].at = "apply" /\ req[x].book = b => req'[x] = req[x]
    BY <1>5 DEF Summing
  <2> QED
    BY <1>1, <1>4, <1>7, <2>1 DEF Part
<1> QED
  BY <1>1, <1>4, <1>6, <1>7 DEF Part

LEMMA Disturbing ==
  ASSUME Inv, NEW u \in Users, NEW r \in Request, NEW b \in Books,
         req' = [req EXCEPT ![u] = r], r.at # "counted" \/ r = req[u],
         disturbed'[b] = disturbed[b] + 1, healed'[b] = healed[b]
  PROVE  Part(b)'
<1>1. req \in [Users -> Request] /\ Part(b) /\ disturbed[b] \in Nat /\ healed[b] \in Nat
  BY DEF Inv, Types
<1>2. \A v \in Users : Locks(v, b)' => Locks(v, b) /\ req'[v] = req[v]
  BY <1>1 DEF Locks
<1>3. \A v \in Users : req[v].seen \in Nat
  BY <1>1 DEF Request
<1>4. ~Settled(b)'
  BY <1>1 DEF Settled, Part
<1>5. \A v \in Users : Locks(v, b)' =>
         req'[v].seen <= disturbed'[b] /\ req'[v].seen # disturbed'[b]
  BY <1>1, <1>2, <1>3 DEF Part
<1>6. healed'[b] <= disturbed'[b]
  BY <1>1 DEF Part
<1>7. \A v, x \in Users : Locks(v, b)' /\ Locks(x, b)' => v = x
  BY <1>1, <1>2 DEF Part
<1> QED
  BY <1>4, <1>5, <1>6, <1>7 DEF Part

LEMMA Entering ==
  ASSUME Inv, NEW u \in Users, NEW r \in Request, NEW b \in Books,
         req' = [req EXCEPT ![u] = r], r.at = "apply", r.book = b,
         disturbed'[b] = disturbed[b], healed'[b] = healed[b]
  PROVE  Part(b)'
<1>1. req \in [Users -> Request] /\ Part(b)
  BY DEF Inv, Types
<1>2. req'[u] = r /\ (\A v \in Users : v = u \/ req'[v] = req[v])
  BY <1>1
<1>3. \A v \in Users : Locks(v, b)' => Locks(v, b) /\ req'[v] = req[v]
  BY <1>2 DEF Locks
<1>4. ~Settled(b)' /\ (\E v \in Users : req'[v].at = "apply" /\ req'[v].book = b)
  BY <1>2 DEF Settled
<1> QED
  BY <1>1, <1>3, <1>4 DEF Part

(* What a step that does not concern an order leaves alone.                *)
LEMMA Aside ==
  ASSUME Inv, NEW u \in Users, NEW r \in Request, NEW b \in Books,
         req' = [req EXCEPT ![u] = r], ~Summing(req[u], b), ~Summing(r, b),
         disturbed'[b] = disturbed[b], healed'[b] = healed[b],
         book'[b] = book[b], Received(b)' = Received(b), b = "sales" => plans' = plans
  PROVE  Part(b)'
<1>1. Shows(b) => Shows(b)'
  BY DEF Shows
<1>2. b = "sales" /\ InOrder => InOrder'
  <2>1. b = "sales" => \A i \in Plans : Earlier(i)' = Earlier(i)
    BY DEF Earlier
  <2> QED
    BY <2>1 DEF InOrder
<1> QED
  BY <1>1, <1>2, Quiet

LEMMA DisturbIs ==
  ASSUME Inv, NEW b \in Books, NEW really \in BOOLEAN, Disturb(b, really)
  PROVE  /\ disturbed' \in [Books -> Nat]
         /\ \A c \in Books \ {b} : disturbed'[c] = disturbed[c]
         /\ disturbed'[b] = IF really THEN disturbed[b] + 1 ELSE disturbed[b]
  BY DEF Disturb, Inv, Types

LEMMA IdleIs ==
  /\ Idle \in Request /\ Ready(Idle) /\ Idle.at = "idle"
  /\ \A b : ~Summing(Idle, b)
  BY DEF Idle, Request, Ready, Books, Summing

(* A step keeps the types of requests.                                     *)
LEMMA Requested ==
  ASSUME Inv, NEW u \in Users, NEW r \in Request, Ready(r), req' = [req EXCEPT ![u] = r]
  PROVE  req' \in [Users -> Request] /\ (\A v \in Users : Ready(req[v]))'
  BY DEF Inv, Types

LEMMA GoingIs ==
  ASSUME NEW r \in Request
  PROVE  LET q == [r EXCEPT !.at = "apply"]
         IN  q \in Request /\ Ready(q) /\ q.at = "apply" /\ q.book = r.book
  BY DEF Request, Ready

-----------------------------------------------------------------------------
(* One lemma per step.                                                     *)

LEMMA Loading ==
  ASSUME Inv, NEW u \in Users, NEW op, NEW b \in Books, NEW id \in Payments \cup Plans \cup {None},
         NEW row,
         \/ op \in PaymentRequests /\ id \in Payments /\ row \in Payment /\ Of[id] = b
         \/ op \in BookRequests /\ row \in Book
         \/ op \in PlanRequests /\ id \in Plans /\ row \in Plan,
         Load(u, op, b, id, row)
  PROVE  Inv'
<1> DEFINE r == [op |-> op, at |-> "begun", book |-> b, id |-> id,
                 copy |-> row, sum |-> 0, seen |-> 0]
<1>1. r \in Request
  BY DEF Request
<1>2. Ready(r)
  BY DEF Ready, PaymentRequests, BookRequests, PlanRequests
<1>3. /\ req' = [req EXCEPT ![u] = r] /\ req[u] = Idle /\ begun' = begun + 1
      /\ UNCHANGED <<book, payments, plans, disturbed, healed>>
  BY DEF Load, Start
<1>4. \A c : ~Summing(r, c) /\ ~Summing(req[u], c)
  BY <1>3, IdleIs DEF Summing
<1>5. \A c \in Books : Received(c)' = Received(c)
  BY <1>3 DEF Received
<1> HIDE DEF r
<1>6. \A c \in Books : Part(c)'
  BY <1>1, <1>3, <1>4, <1>5, Aside
<1>7. Types' /\ (\A v \in Users : Ready(req[v]))'
  BY <1>1, <1>2, <1>3, Requested DEF Inv, Types
<1> QED
  BY <1>6, <1>7 DEF Inv

LEMMA Beginning == ASSUME Inv, NEW u \in Users, Begin(u) PROVE Inv'
<1>1. ASSUME NEW op \in PaymentRequests, NEW k \in Payments, BeginPayment(u, op, k) PROVE Inv'
  <2>1. payments[k] \in Payment /\ Of[k] \in Books
    BY <1>1, MoneyAssumption DEF BeginPayment, Inv, Types, Rows
  <2> QED
    BY <1>1, <2>1, Loading DEF BeginPayment
<1>2. ASSUME NEW op \in BookRequests, NEW b \in Books, BeginBook(u, op, b) PROVE Inv'
  <2>1. book[b] \in Book
    BY DEF Inv, Types
  <2> QED
    BY <1>2, <2>1, Loading DEF BeginBook
<1>3. ASSUME NEW op \in PlanRequests, NEW i \in Plans, BeginPlan(u, op, i) PROVE Inv'
  <2>1. plans[i] \in Plan /\ "sales" \in Books
    BY <1>3 DEF BeginPlan, Inv, Types, PlanRows, Books
  <2> QED
    BY <1>3, <2>1, Loading DEF BeginPlan
<1> QED
  BY <1>1, <1>2, <1>3 DEF Begin

(* A payment that a request of its order writes: the order is summed up    *)
(* after it, or disturbed if the sum has changed.                          *)
LEMMA PaymentWritten ==
  ASSUME Inv, NEW u \in Users, NEW r \in Request, Ready(r), req' = [req EXCEPT ![u] = r],
         NEW k \in Payments, NEW b \in Books, Of[k] = b, NEW row \in Payment \cup {None},
         payments' = [payments EXCEPT ![k] = row],
         UNCHANGED <<book, plans, healed>>, begun' \in Nat,
         \A c : ~Summing(req[u], c),
         \/ r.at = "apply" /\ r.book = b /\ UNCHANGED disturbed
         \/ r.at \notin {"apply", "counted"} /\ Disturb(b, Sum(payments', b) # Received(b))
  PROVE  Inv'
<1>1. payments \in Rows /\ payments' \in Rows
  BY DEF Inv, Types, Rows
<1>2. \A c \in Books \ {b} : Received(c)' = Received(c)
  <2>1. ASSUME NEW c \in Books \ {b} PROVE Sum(payments', c) = Sum(payments, c)
    <3>1. \A x \in Payments : Of[x] = c => payments'[x] = payments[x]
      BY <1>1 DEF Rows
    <3> QED
      BY <1>1, <3>1, SumIsKept
  <2> QED
    BY <2>1 DEF Received
<1>3. /\ disturbed' \in [Books -> Nat]
      /\ \A c \in Books \ {b} : disturbed'[c] = disturbed[c]
  BY DisturbIs DEF Inv, Types
<1>4. \A c \in Books \ {b} : ~Summing(r, c)
  BY DEF Summing
<1>5. \A c \in Books \ {b} : Part(c)'
  BY <1>2, <1>3, <1>4, Aside
<1>6. Part(b)'
  <2>1. CASE r.at = "apply" /\ r.book = b /\ UNCHANGED disturbed
    BY <2>1, Entering
  <2>2. CASE r.at \notin {"apply", "counted"} /\ Disturb(b, Sum(payments', b) # Received(b))
    <3>1. ~Summing(r, b) /\ r.at # "counted"
      BY <2>2 DEF Summing
    <3>2. CASE Sum(payments', b) = Received(b)
      <4>1. disturbed'[b] = disturbed[b]
        BY <2>2, <3>2, DisturbIs
      <4> QED
        BY <3>1, <3>2, <4>1, Aside DEF Received
    <3>3. CASE Sum(payments', b) # Received(b)
      <4>1. disturbed'[b] = disturbed[b] + 1
        BY <2>2, <3>3, DisturbIs
      <4> QED
        BY <3>1, <4>1, Disturbing
    <3> QED
      BY <3>2, <3>3
  <2> QED
    BY <2>1, <2>2
<1>7. Types' /\ (\A v \in Users : Ready(req[v]))'
  BY <1>1, <1>3, Requested DEF Inv, Types
<1> QED
  BY <1>5, <1>6, <1>7 DEF Inv

LEMMA Creating ==
  ASSUME Inv, NEW u \in Users, NEW k \in Payments, NEW amount \in Amounts, Create(u, k, amount)
  PROVE  Inv'
<1> DEFINE row == [applied |-> amount,
                   state |-> IF Of[k] = "sales" THEN "approved" ELSE "pending"]
           r == IF Of[k] = "sales" THEN [Idle EXCEPT !.op = "create", !.at = "apply", !.id = k]
                ELSE req[u]
<1>1. /\ req \in [Users -> Request] /\ begun \in Nat /\ payments \in Rows
      /\ disturbed \in [Books -> Nat]
  BY DEF Inv, Types
<1>2. row \in Payment
  BY MoneyAssumption DEF Payment
<1>3. /\ r \in Request /\ Ready(r)
      /\ Of[k] = "sales" => r.at = "apply" /\ r.book = "sales"
      /\ Of[k] # "sales" => r = Idle
  <2>1. req[u] = Idle
    BY DEF Create, Start
  <2> QED
    BY <2>1, IdleIs DEF Idle, Request, Ready
<1>4. /\ req' = [req EXCEPT ![u] = r]
      /\ payments' = [payments EXCEPT ![k] = row]
      /\ UNCHANGED <<book, plans, disturbed, healed>> /\ begun' \in Nat
      /\ req[u] = Idle /\ payments[k] = None
  BY <1>1 DEF Create, Start
<1>5. Of[k] # "sales" => Sum(payments', Of[k]) = Received(Of[k])
  <2>1. payments' \in Rows
    BY <1>1, <1>2, <1>4 DEF Rows
  <2>2. ASSUME Of[k] # "sales" PROVE Sum(payments', Of[k]) = Sum(payments, Of[k])
    <3>1. row.state # "approved"
      BY <2>2
    <3>2. \A x \in Payments : payments'[x] = payments[x]
                               \/ (~Counts(payments', x) /\ ~Counts(payments, x))
      <4> HIDE DEF row
      <4> QED
        BY <1>1, <1>4, <3>1 DEF Counts, Rows
    <3> QED
      BY <1>1, <2>1, <3>2, SumIsKept
  <2> QED
    BY <2>2 DEF Received
<1>6. Of[k] # "sales" => Disturb(Of[k], Sum(payments', Of[k]) # Received(Of[k]))
  BY <1>1, <1>4, <1>5 DEF Disturb
<1>7. Of[k] \in Books /\ (Of[k] # "sales" => r.at \notin {"apply", "counted"})
  BY <1>3, IdleIs, MoneyAssumption
<1> HIDE DEF r, row
<1> QED
  BY <1>2, <1>3, <1>4, <1>6, <1>7, IdleIs, PaymentWritten

LEMMA Patching ==
  ASSUME Inv, NEW u \in Users, NEW amount \in Amounts, Patch(u, amount)
  PROVE  Inv'
<1> DEFINE k == req[u].id
           b == req[u].book
           row == [req[u].copy EXCEPT !.applied = amount]
           r == IF b = "sales" THEN [req[u] EXCEPT !.at = "apply"] ELSE Idle
<1>1. req[u] \in Request /\ Ready(req[u]) /\ begun \in Nat
  BY DEF Inv, Types
<1>2. k \in Payments /\ req[u].copy \in Payment /\ Of[k] = b /\ b \in Books
  BY <1>1 DEF Patch, Ready, Request, PaymentRequests
<1>3. row \in Payment
  BY <1>2, MoneyAssumption DEF Payment
<1>4. /\ r \in Request /\ Ready(r)
      /\ b = "sales" => r.at = "apply" /\ r.book = b
      /\ b # "sales" => r.at = "idle"
  BY <1>1, GoingIs, IdleIs
<1>5. /\ req' = [req EXCEPT ![u] = r]
      /\ payments' = [payments EXCEPT ![k] = row]
      /\ UNCHANGED <<book, plans, healed>> /\ begun' \in Nat
      /\ \A c : ~Summing(req[u], c)
      /\ b = "sales" => UNCHANGED disturbed
      /\ b # "sales" => Disturb(b, Sum(payments', b) # Received(b))
  BY <1>1 DEF Patch, Goto, Done, Summing, Received
<1> HIDE DEF r, row, k, b
<1> QED
  BY <1>2, <1>3, <1>4, <1>5, PaymentWritten

LEMMA DeletingPayment == ASSUME Inv, NEW u \in Users, Delete(u) PROVE Inv'
<1> DEFINE k == req[u].id
           b == req[u].book
<1>1. req[u] \in Request /\ Ready(req[u]) /\ begun \in Nat
  BY DEF Inv, Types
<1>2. k \in Payments /\ Of[k] = b /\ b \in Books
  BY <1>1 DEF Delete, Ready, Request, PaymentRequests
<1>3. /\ req' = [req EXCEPT ![u] = Idle]
      /\ payments' = [payments EXCEPT ![k] = None]
      /\ UNCHANGED <<book, plans, healed>> /\ begun' \in Nat
      /\ \A c : ~Summing(req[u], c)
      /\ Disturb(b, Sum(payments', b) # Received(b))
  BY <1>1 DEF Delete, Done, Summing, Received
<1> HIDE DEF k, b
<1> QED
  BY <1>2, <1>3, IdleIs, PaymentWritten

LEMMA Reviewing == ASSUME Inv, NEW u \in Users, Approve(u) \/ Reject(u) PROVE Inv'
<1> DEFINE k == req[u].id
           b == req[u].book
           yes == [payments[k] EXCEPT !.state = "approved"]
           no == [payments[k] EXCEPT !.state = "rejected"]
           r == [req[u] EXCEPT !.at = "apply"]
<1>1. req[u] \in Request /\ Ready(req[u]) /\ begun \in Nat /\ payments \in Rows
  BY DEF Inv, Types
<1>2. k \in Payments /\ Of[k] = b /\ b \in Books
  BY <1>1 DEF Approve, Reject, Ready, Request, PaymentRequests
<1>3. payments[k] \in Payment
  BY <1>1, <1>2 DEF Approve, Reject, Rows
<1>4. yes \in Payment /\ no \in Payment
  BY <1>3 DEF Payment
<1>5. r \in Request /\ Ready(r) /\ r.at = "apply" /\ r.book = b
  BY <1>1, GoingIs
<1>6. UNCHANGED <<book, plans, healed>> /\ begun' \in Nat /\ (\A c : ~Summing(req[u], c))
  BY <1>1 DEF Approve, Reject, Summing
<1>7. CASE Approve(u)
  <2>1. /\ req' = [req EXCEPT ![u] = r] /\ payments' = [payments EXCEPT ![k] = yes]
        /\ UNCHANGED disturbed
    BY <1>7 DEF Approve, Goto
  <2> HIDE DEF r, yes, no, k, b
  <2> QED
    BY <1>2, <1>4, <1>5, <1>6, <2>1, PaymentWritten
<1>8. CASE Reject(u)
  <2>1. /\ req' = [req EXCEPT ![u] = Idle] /\ payments' = [payments EXCEPT ![k] = no]
        /\ Disturb(b, Sum(payments', b) # Received(b))
    BY <1>8 DEF Reject, Done, Received
  <2> HIDE DEF r, yes, no, k, b
  <2> QED
    BY <1>2, <1>4, <1>6, <2>1, IdleIs, PaymentWritten
<1> QED
  BY <1>7, <1>8

LEMMA LevelIs ==
  ASSUME NEW paid \in Int, NEW total \in Nat
  PROVE  /\ LevelFor(paid, total) \in Levels
         /\ LevelFor(paid, total) = "unpaid" <=> paid <= 0
  BY DEF LevelFor, Levels

LEMMA SavedIs ==
  ASSUME NEW b, NEW row \in Book
  PROVE  /\ Saved(b, row) \in Book
         /\ Saved(b, row).paid = row.paid /\ Saved(b, row).total = row.total
         /\ Saved(b, row).dated = row.dated
         /\ Saved(b, row).level \in {row.level, LevelFor(row.paid, row.total)}
<1>1. LevelFor(row.paid, row.total) \in Levels
  BY LevelIs DEF Book
<1> QED
  BY <1>1 DEF Saved, Book

(* Summing up one order at a time: only the holder of the lock has counted.*)
LEMMA Counting == ASSUME Inv, NEW u \in Users, Count(u) PROVE Inv'
<1>1. req \in [Users -> Request] /\ req[u] \in Request /\ disturbed \in [Books -> Nat]
      /\ payments \in Rows /\ Ready(req[u])
  BY DEF Inv, Types
<1>2. PICK b \in Books : b = req[u].book
  BY <1>1 DEF Request
<1> DEFINE r == [req[u] EXCEPT !.at = "counted", !.sum = Received(b), !.seen = disturbed[b]]
<1>3. /\ req[u].at = "apply" /\ BookFree(u, b) /\ req' = [req EXCEPT ![u] = r]
      /\ UNCHANGED <<book, payments, plans, disturbed, healed, begun>>
  BY <1>2 DEF Count
<1>4. /\ r \in Request /\ r.at = "counted" /\ r.book = b
      /\ r.sum = Received(b) /\ r.seen = disturbed[b] /\ Ready(r)
  <2>1. Received(b) \in Int /\ disturbed[b] \in Nat
    BY <1>1, SumIsMoney DEF Received
  <2> QED
    BY <1>1, <1>2, <2>1 DEF Request, Ready
<1> HIDE DEF r
<1>5. ASSUME NEW c \in Books \ {b} PROVE Part(c)'
  <2>1. ~Summing(req[u], c) /\ ~Summing(r, c)
    BY <1>2, <1>4, <1>5 DEF Summing
  <2>2. Received(c)' = Received(c)
    BY <1>3 DEF Received
  <2> QED
    BY <1>3, <1>4, <2>1, <2>2, Aside
<1>6. Part(b)'
  <2>1. req'[u] = r /\ (\A v \in Users : v = u \/ req'[v] = req[v])
    BY <1>1, <1>3
  <2>2. \A v \in Users : Locks(v, b)' => v = u
    BY <1>3, <2>1 DEF BookFree, Locks
  <2>3. Received(b)' = Received(b)
    BY <1>3 DEF Received
  <2>4. ~Settled(b)'
    BY <1>4, <2>1 DEF Settled
  <2>5. healed'[b] <= disturbed'[b] /\ disturbed'[b] \in Nat /\ disturbed'[b] = disturbed[b]
    BY <1>1, <1>3 DEF Inv, Part
  <2>6. req'[u].seen <= disturbed'[b] /\ req'[u].sum = Received(b)'
    BY <1>4, <2>1, <2>3, <2>5
  <2> QED
    BY <2>2, <2>4, <2>5, <2>6 DEF Part
<1>7. Types' /\ (\A v \in Users : Ready(req[v]))'
  BY <1>3, <1>4, Requested DEF Inv, Types
<1> QED
  BY <1>5, <1>6, <1>7 DEF Inv

LEMMA AppliedIs ==
  ASSUME NEW row \in Book, NEW sum \in Int
  PROVE  LET new == Applied(row, sum)
         IN  /\ new \in Book
             /\ new.paid = sum /\ new.total = row.total
             /\ new.level = LevelFor(sum, row.total)
             /\ new.level = "paid" => new.dated
             /\ new.level = "unpaid" => ~new.dated
<1>1. LevelFor(sum, row.total) \in Levels
  BY LevelIs DEF Book
<1> QED
  BY <1>1 DEF Applied, Book, Levels

LEMMA PlansFilled ==
  ASSUME Inv, plans' = Filled(Received("sales")), payments' = payments
  PROVE  plans' \in PlanRows /\ InOrder'
<1>1. plans \in PlanRows /\ payments \in Rows
  BY DEF Inv, Types
<1>2. Received("sales") \in Int /\ Received("sales")' = Received("sales")
  BY <1>1, SumIsMoney DEF Received
<1> DEFINE sum == Received("sales")
<1>3. ASSUME NEW i \in Plans
      PROVE  /\ plans[i] = None => plans'[i] = None
             /\ plans[i] # None =>
                   /\ plans'[i] \in Plan /\ plans'[i] # None /\ plans'[i].amount = plans[i].amount
                   /\ plans'[i].paid = Within(sum - Earlier(i), plans[i].amount)
                   /\ plans'[i].paid > 0 => plans'[i].level = PlanLevel(plans'[i])
  BY <1>1, <1>2, FilledIs
<1>4. plans' \in PlanRows
  <2>1. plans' = [i \in Plans |-> plans'[i]]
    BY DEF Filled
  <2>2. ASSUME NEW i \in Plans PROVE plans'[i] \in Plan \cup {None}
    BY <1>3
  <2>3. [i \in Plans |-> plans'[i]] \in PlanRows
    BY <2>2 DEF PlanRows
  <2> QED
    BY <2>1, <2>3
<1>5. ASSUME NEW i \in Plans PROVE Earlier(i)' = Earlier(i)
  <2>1. \A j \in Plans : IF plans'[j] = None THEN plans[j] = None
                         ELSE plans[j] # None /\ plans'[j].amount = plans[j].amount
    BY <1>3
  <2>2. Amount(plans') = Amount(plans)
    BY <2>1 DEF Amount
  <2> QED
    BY <2>2 DEF Earlier
<1>6. ASSUME NEW i \in Plans, plans'[i] # None
      PROVE  /\ plans'[i].paid = Within(sum - Earlier(i), plans'[i].amount)
             /\ plans'[i].paid > 0 => plans'[i].level = PlanLevel(plans'[i])
  BY <1>3, <1>6
<1>7. InOrder'
  BY <1>2, <1>5, <1>6 DEF InOrder
<1> QED
  BY <1>4, <1>7

LEMMA SummingUp == ASSUME Inv, NEW u \in Users, Apply(u) PROVE Inv'
<1>1. /\ req \in [Users -> Request] /\ req[u] \in Request /\ disturbed \in [Books -> Nat]
      /\ healed \in [Books -> Nat] /\ book \in [Books -> Book] /\ plans \in PlanRows
  BY DEF Inv, Types
<1>2. PICK b \in Books : b = req[u].book
  BY <1>1 DEF Request
<1>3. PICK row \in Book :
         /\ row = Applied(book[b], req[u].sum)
         /\ row.paid = req[u].sum /\ row.total = book[b].total
         /\ row.level = LevelFor(req[u].sum, row.total)
         /\ row.level = "paid" => row.dated
         /\ row.level = "unpaid" => ~row.dated
  <2>1. book[b] \in Book /\ req[u].sum \in Int
    BY <1>1 DEF Request
  <2> DEFINE row == Applied(book[b], req[u].sum)
  <2>2. /\ row \in Book /\ row.paid = req[u].sum /\ row.total = book[b].total
        /\ row.level = LevelFor(req[u].sum, book[b].total)
        /\ row.level = "paid" => row.dated
        /\ row.level = "unpaid" => ~row.dated
    BY <2>1, AppliedIs
  <2> HIDE DEF row
  <2> QED
    BY <2>2 DEF row
<1>4. /\ req[u].at = "counted" /\ req' = [req EXCEPT ![u] = Idle]
      /\ book' = [book EXCEPT ![b] = row]
      /\ plans' = IF b = "sales" THEN Filled(Received(b)) ELSE plans
      /\ healed' = [healed EXCEPT ![b] = req[u].seen]
      /\ UNCHANGED <<payments, disturbed, begun>>
  BY <1>2, <1>3 DEF Apply, Done
<1>6. \A c : Received(c)' = Received(c)
  BY <1>4 DEF Received
<1>7. ASSUME NEW c \in Books \ {b} PROVE Part(c)'
  <2>1. ~Summing(req[u], c) /\ ~Summing(Idle, c)
    BY <1>2, <1>7, IdleIs DEF Summing
  <2>2. /\ book'[c] = book[c] /\ healed'[c] = healed[c] /\ disturbed'[c] = disturbed[c]
        /\ c = "sales" => plans' = plans
    BY <1>1, <1>4, <1>7
  <2> QED
    BY <1>4, <1>6, <2>1, <2>2, IdleIs, Aside
<1>8. b = "sales" => plans' \in PlanRows /\ InOrder'
  BY <1>4, PlansFilled
<1>9. Part(b)'
  <2>1. req'[u] = Idle /\ (\A v \in Users : v = u \/ req'[v] = req[v])
    BY <1>1, <1>4
  <2>2. Locks(u, b) /\ Part(b)
    BY <1>2, <1>4 DEF Locks, Inv
  <2>3. \A v \in Users : ~Locks(v, b)'
    BY <2>1, <2>2, IdleIs DEF Locks, Part
  <2>4. healed'[b] = req[u].seen /\ disturbed'[b] = disturbed[b] /\ book'[b] = row
    BY <1>1, <1>4
  <2>5. healed'[b] <= disturbed'[b]
    BY <2>2, <2>4 DEF Part
  <2>6. ASSUME Settled(b)' PROVE Shows(b)'
    <3>1. req[u].seen = disturbed[b]
      BY <2>4, <2>6 DEF Settled
    <3>2. ~ \E v \in Users : req[v].at = "apply" /\ req[v].book = b
      BY <1>4, <2>1, <2>6 DEF Settled
    <3>3. req[u].sum = Received(b)
      BY <2>2, <3>1, <3>2 DEF Part
    <3> QED
      BY <1>3, <1>6, <2>4, <3>3 DEF Shows
  <2> QED
    BY <1>8, <2>3, <2>5, <2>6 DEF Part
<1>10. healed' \in [Books -> Nat] /\ book' \in [Books -> Book] /\ plans' \in PlanRows
  BY <1>1, <1>4, <1>8 DEF Request
<1>11. Types' /\ (\A v \in Users : Ready(req[v]))'
  BY <1>4, <1>10, IdleIs, Requested DEF Inv, Types
<1> QED
  BY <1>7, <1>9, <1>11 DEF Inv

(* An order that a request writes: it is disturbed, or shows what it did.  *)
LEMMA BookWritten ==
  ASSUME Inv, NEW u \in Users, NEW b \in Books, NEW row \in Book, NEW really \in BOOLEAN,
         \A c : ~Summing(req[u], c),
         req' = [req EXCEPT ![u] = Idle], book' = [book EXCEPT ![b] = row],
         Disturb(b, really), ~really => row \in {book[b], Saved(b, book[b])},
         UNCHANGED <<payments, plans, healed>>, begun' \in Nat
  PROVE  Inv'
<1>1. book \in [Books -> Book] /\ payments \in Rows
  BY DEF Inv, Types
<1>2. \A c : Received(c)' = Received(c)
  BY DEF Received
<1>3. \A c \in Books \ {b} : book'[c] = book[c] /\ disturbed'[c] = disturbed[c]
  BY <1>1, DisturbIs
<1>4. \A c \in Books \ {b} : Part(c)'
  BY <1>2, <1>3, IdleIs, Aside
<1>5. Part(b)'
  <2>1. CASE really
    <3>1. disturbed'[b] = disturbed[b] + 1
      BY <2>1, DisturbIs
    <3> QED
      BY <3>1, IdleIs, Disturbing
  <2>2. CASE ~really
    <3>1. disturbed'[b] = disturbed[b]
      BY <2>2, DisturbIs
    <3>2. Shows(b) => Shows(b)'
      <4>1. book'[b] = row /\ book[b] \in Book
        BY <1>1
      <4>2. Shows(b) => /\ row.paid = book[b].paid /\ row.total = book[b].total
                        /\ row.dated = book[b].dated /\ row.level = book[b].level
        BY <2>2, <4>1, SavedIs DEF Shows
      <4> QED
        BY <1>2, <4>1, <4>2 DEF Shows
    <3>3. InOrder => InOrder'
      <4>1. \A i \in Plans : Earlier(i)' = Earlier(i)
        BY DEF Earlier
      <4> QED
        BY <1>2, <4>1 DEF InOrder
    <3> QED
      BY <1>2, <3>1, <3>2, <3>3, IdleIs, Quiet
  <2> QED
    BY <2>1, <2>2
<1>6. Types' /\ (\A v \in Users : Ready(req[v]))'
  BY <1>1, DisturbIs, IdleIs, Requested DEF Inv, Types
<1> QED
  BY <1>4, <1>5, <1>6 DEF Inv

LEMMA SavingBook == ASSUME Inv, NEW u \in Users, SaveBook(u) PROVE Inv'
<1>1. req[u] \in Request /\ Ready(req[u]) /\ begun \in Nat
  BY DEF Inv, Types
<1>2. req[u].copy \in Book
  BY <1>1 DEF SaveBook, Ready, BookRequests
<1>3. PICK b \in Books : b = req[u].book
  BY <1>1 DEF Request
<1>4. PICK row \in Book : row = Saved(b, req[u].copy)
  BY <1>2, SavedIs
<1> DEFINE really == book[b] # req[u].copy
<1>5. /\ req' = [req EXCEPT ![u] = Idle] /\ book' = [book EXCEPT ![b] = row]
      /\ Disturb(b, really) /\ UNCHANGED <<payments, plans, healed>> /\ begun' \in Nat
      /\ \A c : ~Summing(req[u], c)
  BY <1>1, <1>3, <1>4 DEF SaveBook, Done, Summing
<1>6. ~really => row = Saved(b, book[b])
  BY <1>4
<1>7. really \in BOOLEAN
  OBVIOUS
<1> HIDE DEF really
<1> QED
  BY <1>5, <1>6, <1>7, BookWritten

LEMMA SettingPaid ==
  ASSUME Inv, NEW u \in Users, NEW amount \in Amounts, SetPaid(u, amount)
  PROVE  Inv'
<1>1. req[u] \in Request /\ Ready(req[u]) /\ begun \in Nat
  BY DEF Inv, Types
<1>2. req[u].copy \in Book
  BY <1>1 DEF SetPaid, Ready, BookRequests
<1>3. [req[u].copy EXCEPT !.paid = amount, !.dated = TRUE] \in Book
  BY <1>2, MoneyAssumption DEF Book
<1>4. PICK row \in Book : row = Saved("sales", [req[u].copy EXCEPT !.paid = amount, !.dated = TRUE])
  BY <1>3, SavedIs
<1>5. /\ req' = [req EXCEPT ![u] = Idle] /\ book' = [book EXCEPT !["sales"] = row]
      /\ Disturb("sales", TRUE) /\ UNCHANGED <<payments, plans, healed>> /\ begun' \in Nat
      /\ \A c : ~Summing(req[u], c)
  BY <1>1, <1>4 DEF SetPaid, Done, Summing
<1>6. "sales" \in Books
  BY DEF Books
<1> QED
  BY <1>5, <1>6, BookWritten

LEMMA ChangingTotal ==
  ASSUME Inv, NEW u \in Users, NEW b \in Books, NEW total \in Totals, ChangeTotal(u, b, total)
  PROVE  Inv'
<1>1. req \in [Users -> Request] /\ begun \in Nat /\ book[b] \in Book
  BY DEF Inv, Types
<1> DEFINE row == [book[b] EXCEPT !.total = total]
           really == total # book[b].total
<1>2. row \in Book /\ (~really => row = book[b]) /\ really \in BOOLEAN
  BY <1>1, MoneyAssumption DEF Book
<1>3. /\ req[u] = Idle /\ req' = req /\ book' = [book EXCEPT ![b] = row]
      /\ Disturb(b, really) /\ UNCHANGED <<payments, plans, healed>> /\ begun' \in Nat
  BY <1>1 DEF ChangeTotal, Start
<1>4. req' = [req EXCEPT ![u] = Idle] /\ (\A c : ~Summing(req[u], c))
  BY <1>1, <1>3, IdleIs
<1> HIDE DEF row, really
<1> QED
  BY <1>2, <1>3, <1>4, BookWritten

LEMMA PlanWritten ==
  ASSUME Inv, NEW u \in Users, NEW i \in Plans, NEW row \in Plan \cup {None}, NEW really \in BOOLEAN,
         \A c : ~Summing(req[u], c),
         req' = [req EXCEPT ![u] = Idle], plans' = [plans EXCEPT ![i] = row],
         Disturb("sales", really), ~really => row = plans[i],
         UNCHANGED <<payments, book, healed>>, begun' \in Nat
  PROVE  Inv'
<1>1. plans \in PlanRows /\ "sales" \in Books
  BY DEF Inv, Types, Books
<1>2. \A c : Received(c)' = Received(c)
  BY DEF Received
<1>3. \A c \in Books \ {"sales"} : disturbed'[c] = disturbed[c]
  BY <1>1, DisturbIs
<1>4. \A c \in Books \ {"sales"} : Part(c)'
  BY <1>2, <1>3, IdleIs, Aside
<1>5. Part("sales")'
  <2>1. CASE really
    <3>1. disturbed'["sales"] = disturbed["sales"] + 1
      BY <1>1, <2>1, DisturbIs
    <3> QED
      BY <1>1, <3>1, IdleIs, Disturbing
  <2>2. CASE ~really
    <3>1. disturbed'["sales"] = disturbed["sales"] /\ plans' = plans
      BY <1>1, <2>2, DisturbIs DEF PlanRows
    <3> QED
      BY <1>1, <1>2, <3>1, IdleIs, Aside
  <2> QED
    BY <2>1, <2>2
<1>6. Types' /\ (\A v \in Users : Ready(req[v]))'
  <2>1. plans' \in PlanRows
    BY <1>1 DEF PlanRows
  <2> QED
    BY <1>1, <2>1, DisturbIs, IdleIs, Requested DEF Inv, Types
<1> QED
  BY <1>4, <1>5, <1>6 DEF Inv

LEMMA SavingPlan == ASSUME Inv, NEW u \in Users, SavePlan(u) PROVE Inv'
<1>1. req[u] \in Request /\ Ready(req[u]) /\ begun \in Nat
  BY DEF Inv, Types
<1>2. req[u].id \in Plans /\ req[u].copy \in Plan
  BY <1>1 DEF SavePlan, Ready
<1>3. PICK new \in Changed(req[u].op, req[u].copy) :
         plans' = [plans EXCEPT ![req[u].id] = new] /\ Disturb("sales", new # plans[req[u].id])
  BY DEF SavePlan
<1>4. new \in Plan
  <2>1. CASE req[u].op = "refresh"
    BY <1>2, <1>3, <2>1, RefreshedIs DEF Changed
  <2>2. CASE req[u].op # "refresh"
    BY <1>2, <1>3, <2>2, MoneyAssumption DEF Changed, Plan
  <2> QED
    BY <2>1, <2>2
<1>5. /\ req' = [req EXCEPT ![u] = Idle] /\ begun' \in Nat
      /\ UNCHANGED <<payments, book, healed>> /\ (\A c : ~Summing(req[u], c))
  BY <1>1 DEF SavePlan, Done, Summing
<1> DEFINE really == new # plans[req[u].id]
<1>6. really \in BOOLEAN /\ (~really => new = plans[req[u].id]) /\ Disturb("sales", really)
  BY <1>3
<1> HIDE DEF really
<1> QED
  BY <1>2, <1>3, <1>4, <1>5, <1>6, PlanWritten

LEMMA CreatingPlan ==
  ASSUME Inv, NEW u \in Users, NEW i \in Plans,
         DeletePlan(u, i) \/ \E amount \in Totals : CreatePlan(u, i, amount)
  PROVE  Inv'
<1>1. req \in [Users -> Request] /\ begun \in Nat
  BY DEF Inv, Types
<1>2. PICK row \in Plan \cup {None} : plans' = [plans EXCEPT ![i] = row]
  <2>1. ASSUME NEW amount \in Totals
        PROVE  [amount |-> amount, paid |-> 0, level |-> "unpaid"] \in Plan
    BY MoneyAssumption DEF Plan, Levels
  <2> QED
    BY <2>1 DEF DeletePlan, CreatePlan
<1>3. Disturb("sales", TRUE)
  BY DEF DeletePlan, CreatePlan
<1>4. /\ req[u] = Idle /\ req' = req /\ begun' = begun + 1
      /\ UNCHANGED <<payments, book, healed>>
  BY DEF DeletePlan, CreatePlan, Start
<1>5. req' = [req EXCEPT ![u] = Idle] /\ (\A c : ~Summing(req[u], c)) /\ begun' \in Nat
  BY <1>1, <1>4, IdleIs
<1> QED
  BY <1>2, <1>3, <1>4, <1>5, PlanWritten

LEMMA Failing == ASSUME Inv, NEW u \in Users, Fail(u) PROVE Inv'
<1>1. req[u] \in Request
  BY DEF Inv, Types
<1>2. PICK b \in Books : b = req[u].book
  BY <1>1 DEF Request
<1> DEFINE really == req[u].at # "begun"
<1>3. /\ req' = [req EXCEPT ![u] = Idle] /\ Disturb(b, really)
      /\ UNCHANGED <<book, payments, plans, healed, begun>>
  BY <1>2 DEF Fail, Done
<1>4. \A c : Received(c)' = Received(c)
  BY <1>3 DEF Received
<1>5. ASSUME NEW c \in Books \ {b} PROVE Part(c)'
  <2>1. ~Summing(req[u], c) /\ ~Summing(Idle, c)
    BY <1>2, <1>5, IdleIs DEF Summing
  <2>2. disturbed'[c] = disturbed[c]
    BY <1>3, DisturbIs
  <2> QED
    BY <1>3, <1>4, <2>1, <2>2, IdleIs, Aside
<1>6. Part(b)'
  <2>1. CASE really
    <3>1. disturbed'[b] = disturbed[b] + 1
      BY <1>3, <2>1, DisturbIs
    <3> QED
      BY <1>3, <3>1, IdleIs, Disturbing
  <2>2. CASE ~really
    <3>1. disturbed'[b] = disturbed[b] /\ ~Summing(req[u], b) /\ ~Summing(Idle, b)
      BY <1>3, <2>2, DisturbIs, IdleIs DEF Summing
    <3> QED
      BY <1>3, <1>4, <3>1, IdleIs, Aside
  <2> QED
    BY <2>1, <2>2
<1>7. Types' /\ (\A v \in Users : Ready(req[v]))'
  BY <1>3, DisturbIs, IdleIs, Requested DEF Inv, Types
<1> QED
  BY <1>5, <1>6, <1>7 DEF Inv

-----------------------------------------------------------------------------
LEMMA Initially == Init => Inv
<1> SUFFICES ASSUME Init PROVE Inv
  OBVIOUS
<1>1. book \in [Books -> Book]
  <2>1. ASSUME NEW t \in Totals
        PROVE  [paid |-> 0, total |-> t, level |-> "unpaid", dated |-> FALSE] \in Book
    BY MoneyAssumption DEF Book, Levels
  <2> QED
    BY <2>1 DEF Init
<1>2. plans \in PlanRows
  <2>1. ASSUME NEW a \in Totals PROVE [amount |-> a, paid |-> 0, level |-> "unpaid"] \in Plan
    BY MoneyAssumption DEF Plan, Levels
  <2> QED
    BY <2>1 DEF Init, PlanRows
<1>3. Types
  BY <1>1, <1>2, IdleIs DEF Init, Types, Rows
<1>4. \A u \in Users : req[u] = Idle
  BY DEF Init
<1>5. \A b : Received(b) = 0
  BY NothingReceived DEF Init
<1>6. ASSUME NEW b \in Books PROVE Shows(b)
  <2>1. PICK t \in Totals :
           book[b] = [paid |-> 0, total |-> t, level |-> "unpaid", dated |-> FALSE]
    BY DEF Init
  <2>2. t \in Nat
    BY MoneyAssumption
  <2>3. LevelFor(0, t) = "unpaid"
    BY <2>2, LevelIs
  <2> QED
    BY <1>5, <2>1, <2>3 DEF Shows
<1>7. InOrder
  <2>1. ASSUME NEW i \in Plans PROVE plans[i].paid = 0 /\ plans[i] \in Plan
    <3>1. plans[i] \in {[amount |-> a, paid |-> 0, level |-> "unpaid"] : a \in Totals}
      BY DEF Init
    <3> QED
      BY <3>1, MoneyAssumption DEF Plan, Levels
  <2>2. ASSUME NEW i \in Plans PROVE Earlier(i) \in Nat
    <3>1. i - 1 \in 0..PlanCount
      BY MoneyAssumption DEF Plans
    <3> QED
      BY <1>2, <3>1, AheadGrows
  <2>3. ASSUME NEW i \in Plans PROVE Within(0 - Earlier(i), plans[i].amount) = 0
    <3>1. plans[i].amount \in Nat
      BY <2>1 DEF Plan
    <3> QED
      BY <2>2, <3>1 DEF Within
  <2> QED
    BY <1>5, <2>1, <2>3 DEF InOrder
<1>8. \A b \in Books : Part(b)
  BY <1>4, <1>6, <1>7, IdleIs DEF Init, Part, Locks
<1> QED
  BY <1>3, <1>4, <1>8, IdleIs DEF Inv

LEMMA Preserved == Inv /\ [Next]_vars => Inv'
<1> SUFFICES ASSUME Inv, [Next]_vars PROVE Inv'
  OBVIOUS
<1>1. CASE UNCHANGED vars
  <2>1. Types' /\ (\A u \in Users : Ready(req[u]))'
    BY <1>1 DEF vars, Inv, Types
  <2>2. ASSUME NEW b \in Books PROVE Part(b)'
    BY <1>1 DEF vars, Inv, Part, Locks, Settled, Shows, InOrder, Received, Earlier
  <2> QED
    BY <2>1, <2>2 DEF Inv
<1>2. ASSUME NEW u \in Users, Pay(u) PROVE Inv'
  BY <1>2, Creating, Patching, DeletingPayment, Reviewing, Counting, SummingUp DEF Pay
<1>3. ASSUME NEW u \in Users, Edit(u) PROVE Inv'
  BY <1>3, SavingBook, SettingPaid, ChangingTotal, SavingPlan, CreatingPlan DEF Edit
<1> QED
  BY <1>1, <1>2, <1>3, Beginning, Failing DEF Next

-----------------------------------------------------------------------------
(* Every reachable state satisfies the inductive invariant.                *)
THEOREM Inductive == Spec => []Inv
  BY Initially, Preserved, PTL DEF Spec

(* All variables keep their types, one request at most holds the lock of   *)
(* an order, and no summing up has seen more than was disturbed.           *)
THEOREM Typed == Spec => []TypeOK
<1>1. Inv => TypeOK
  BY DEF Inv, Types, Part, TypeOK, Rows, PlanRows
<1> QED
  BY <1>1, Inductive, PTL

(* An order that nobody has disturbed since it was summed up last shows    *)
(* what its payments come to, with the status and the date that go with    *)
(* it, however many requests create, change and review payments at once.   *)
THEOREM PaidIsShown == Spec => []OrderShowsPayments
<1>1. Inv => OrderShowsPayments
  BY DEF Inv, Part, Shows, OrderShowsPayments
<1> QED
  BY <1>1, Inductive, PTL

(* The plans of such an order are filled first in, first out, for any      *)
(* number of plans and any amounts.                                        *)
THEOREM FirstInFirstOut == Spec => []PlansFillInOrder
<1>1. Inv => PlansFillInOrder
  BY DEF Inv, Part, InOrder, PlansFillInOrder, Books
<1> QED
  BY <1>1, Inductive, PTL

-----------------------------------------------------------------------------
(* Requests one at a time.  Nothing is overtaken then: a row that is about *)
(* to be saved is as it was loaded, and a payment about to be rejected has *)
(* not been approved meanwhile.  What still leaves an order showing a sum  *)
(* its payments do not come to is what the code never sums up, whoever     *)
(* waits: a counted payment deleted, a supplier's payment changed after    *)
(* its approval, the amount set by hand, another total, the plans edited,  *)
(* and a summing up that failed.                                           *)
OneAtATime == \A u, v \in Users : u # v => req[u] = Idle \/ req[v] = Idle

Uncounted == \E u \in Users :
    \/ Delete(u) /\ (\E b \in Books : Received(b)' # Received(b))
    \/ \E amount \in Amounts :
          /\ req[u].book = "purchase" /\ Patch(u, amount)
          /\ Received("purchase")' # Received("purchase")
    \/ \E amount \in Amounts : SetPaid(u, amount)
    \/ \E b \in Books, total \in Totals : ChangeTotal(u, b, total) /\ book' # book
    \/ SavePlan(u) /\ plans' # plans
    \/ \E i \in Plans, amount \in Totals : CreatePlan(u, i, amount)
    \/ \E i \in Plans : DeletePlan(u, i)
    \/ Fail(u) /\ req[u].at # "begun"

UpToDate(u) == req[u].at = "begun" =>
    /\ req[u].op = "save" => req[u].copy = book[req[u].book]
    /\ req[u].op = "reject" =>
          payments[req[u].id] # None /\ payments[req[u].id].state = "pending"

Fresh == \A u \in Users : UpToDate(u)
Undisturbed == \A b \in Books : disturbed[b] = 0

ShownWhenDone == \A b \in Books :
    (\A u \in Users : ~Summing(req[u], b)) => Shows(b) /\ (b = "sales" => InOrder)

LEMMA OthersWait ==
  ASSUME Inv, OneAtATime, OneAtATime', NEW u \in Users, NEW r \in Request,
         req' = [req EXCEPT ![u] = r], req[u] # Idle \/ r # Idle, UpToDate(u)'
  PROVE  Fresh'
<1>1. req'[u] = r /\ (\A v \in Users \ {u} : req'[v] = req[v])
  BY DEF Inv, Types
<1>2. \A v \in Users \ {u} : req'[v] = Idle
  BY <1>1 DEF OneAtATime
<1>3. \A v \in Users \ {u} : UpToDate(v)'
  BY <1>2, IdleIs DEF UpToDate
<1> QED
  BY <1>3 DEF Fresh

LEMMA PastBegun ==
  ASSUME Inv, OneAtATime, OneAtATime', NEW u \in Users, NEW r \in Request,
         req' = [req EXCEPT ![u] = r], req[u] # Idle \/ r # Idle, r.at # "begun"
  PROVE  Fresh'
<1>1. req'[u] = r
  BY DEF Inv, Types
<1>2. UpToDate(u)'
  BY <1>1 DEF UpToDate
<1> QED
  BY <1>2, OthersWait

LEMMA NotDisturbed ==
  ASSUME Inv, NEW b \in Books, Disturb(b, FALSE)
  PROVE  UNCHANGED disturbed
  BY DEF Disturb, Inv, Types

LEMMA BeginningFresh ==
  ASSUME Inv, OneAtATime, OneAtATime', NEW u \in Users, Begin(u)
  PROVE  Fresh' /\ UNCHANGED disturbed
<1>1. ASSUME NEW op, NEW b \in Books, NEW id \in Payments \cup Plans \cup {None},
             NEW row, Load(u, op, b, id, row),
             op \in PaymentRequests \cup BookRequests \cup PlanRequests,
             row \in Payment \cup Book \cup Plan,
             op = "save" => row = book[b],
             op = "reject" => payments[id] # None /\ payments[id].state = "pending"
      PROVE  Fresh' /\ UNCHANGED disturbed
  <2> DEFINE r == [op |-> op, at |-> "begun", book |-> b, id |-> id,
                   copy |-> row, sum |-> 0, seen |-> 0]
  <2>1. r \in Request
    BY <1>1 DEF Request
  <2>2. /\ req' = [req EXCEPT ![u] = r]
        /\ UNCHANGED <<book, payments, disturbed>>
    BY <1>1 DEF Load
  <2>3. r # Idle
    BY IdleIs
  <2>4. req'[u] = r
    BY <2>2 DEF Inv, Types
  <2>5. UpToDate(u)'
    BY <1>1, <2>2, <2>4 DEF UpToDate
  <2> HIDE DEF r
  <2> QED
    BY <2>1, <2>2, <2>3, <2>5, OthersWait
<1>2. ASSUME NEW op \in PaymentRequests, NEW k \in Payments, BeginPayment(u, op, k)
      PROVE  Fresh' /\ UNCHANGED disturbed
  <2>1. payments[k] \in Payment /\ Of[k] \in Books
    BY <1>2, MoneyAssumption DEF BeginPayment, Inv, Types, Rows
  <2>2. op # "save" /\ (op = "reject" => payments[k] # None /\ payments[k].state = "pending")
    BY <1>2 DEF BeginPayment, PaymentRequests
  <2> QED
    BY <1>1, <1>2, <2>1, <2>2 DEF BeginPayment
<1>3. ASSUME NEW op \in BookRequests, NEW b \in Books, BeginBook(u, op, b)
      PROVE  Fresh' /\ UNCHANGED disturbed
  <2>1. book[b] \in Book /\ op # "reject"
    BY DEF Inv, Types, BookRequests
  <2> QED
    BY <1>1, <1>3, <2>1 DEF BeginBook
<1>4. ASSUME NEW op \in PlanRequests, NEW i \in Plans, BeginPlan(u, op, i)
      PROVE  Fresh' /\ UNCHANGED disturbed
  <2>1. plans[i] \in Plan /\ "sales" \in Books /\ op # "save" /\ op # "reject"
    BY <1>4 DEF BeginPlan, Inv, Types, PlanRows, Books, PlanRequests
  <2> QED
    BY <1>1, <1>4, <2>1 DEF BeginPlan
<1> QED
  BY <1>2, <1>3, <1>4 DEF Begin

LEMMA PaymentsFresh ==
  ASSUME Inv, Fresh, OneAtATime, OneAtATime', ~Uncounted, NEW u \in Users, Pay(u)
  PROVE  Fresh' /\ UNCHANGED disturbed
<1> DEFINE k == req[u].id
<1>0. PICK b \in Books : b = req[u].book
  BY DEF Inv, Types, Request
<1>1. /\ req \in [Users -> Request] /\ req[u] \in Request /\ Ready(req[u])
      /\ payments \in Rows
  BY DEF Inv, Types
<1>2. ASSUME NEW x \in Payments, NEW amount \in Amounts, Create(u, x, amount)
      PROVE  Fresh' /\ UNCHANGED disturbed
  <2>1. UNCHANGED <<book, disturbed>> /\ payments[x] = None
    BY <1>2 DEF Create
  <2>2. CASE Of[x] = "sales"
    <3> DEFINE r == [Idle EXCEPT !.op = "create", !.at = "apply", !.id = x]
    <3>1. r \in Request /\ r.at = "apply"
      BY IdleIs DEF Request
    <3>2. req' = [req EXCEPT ![u] = r]
      BY <1>2, <2>2 DEF Create
    <3>3. r # Idle
      BY <3>1, IdleIs
    <3> HIDE DEF r
    <3> QED
      BY <2>1, <3>1, <3>2, <3>3, PastBegun
  <2>3. CASE Of[x] # "sales"
    <3>1. UNCHANGED req /\ (\A y \in Payments \ {x} : payments'[y] = payments[y])
      BY <1>1, <1>2, <2>3 DEF Create, Rows
    <3>2. ASSUME NEW v \in Users PROVE UpToDate(v)'
      <4>1. req[v].at = "begun" /\ req[v].op = "reject" =>
               /\ req[v].id \in Payments \ {x}
               /\ payments[req[v].id] # None /\ payments[req[v].id].state = "pending"
        BY <2>1 DEF Fresh, UpToDate, Inv, Ready, PaymentRequests
      <4> QED
        BY <2>1, <3>1, <4>1 DEF Fresh, UpToDate
    <3> QED
      BY <2>1, <3>2 DEF Fresh
  <2> QED
    BY <2>2, <2>3
<1>3. ASSUME NEW r \in {Idle, [req[u] EXCEPT !.at = "apply"]},
             req' = [req EXCEPT ![u] = r], req[u].at # "idle"
      PROVE  Fresh'
  <2>1. r \in Request /\ r.at # "begun" /\ req[u] # Idle
    BY <1>1, <1>3, GoingIs, IdleIs
  <2> QED
    BY <1>3, <2>1, PastBegun
<1>4. ASSUME NEW amount \in Amounts, Patch(u, amount) PROVE Fresh' /\ UNCHANGED disturbed
  <2>1. Fresh'
    BY <1>3, <1>4 DEF Patch, Goto, Done
  <2>2. CASE b = "sales"
    BY <1>0, <1>4, <2>1, <2>2 DEF Patch
  <2>3. CASE b = "purchase"
    <3>1. Received("purchase")' = Received("purchase")
      BY <1>0, <1>4, <2>3 DEF Uncounted
    <3>2. Disturb(b, Received("purchase")' # Received("purchase"))
      BY <1>0, <1>4, <2>3 DEF Patch, Received
    <3>3. Disturb(b, FALSE)
      BY <3>1, <3>2
    <3> QED
      BY <1>1, <2>1, <3>3, NotDisturbed
  <2> QED
    BY <2>2, <2>3 DEF Books
<1>5. ASSUME Delete(u) PROVE Fresh' /\ UNCHANGED disturbed
  <2>1. Fresh'
    BY <1>3, <1>5 DEF Delete, Done
  <2>2. Received(b)' = Received(b)
    BY <1>5 DEF Uncounted
  <2>3. Disturb(b, Sum(payments', b) # Received(b))
    BY <1>0, <1>5 DEF Delete
  <2>4. Disturb(b, FALSE)
    BY <2>2, <2>3 DEF Received
  <2> QED
    BY <1>1, <2>1, <2>4, NotDisturbed
<1>6. ASSUME Reject(u) PROVE Fresh' /\ UNCHANGED disturbed
  <2>1. Fresh'
    BY <1>3, <1>6 DEF Reject, Done
  <2>2. k \in Payments /\ payments[k] # None /\ payments[k].state = "pending"
    BY <1>1, <1>6 DEF Reject, Ready, PaymentRequests, Fresh, UpToDate
  <2> DEFINE row == [payments[k] EXCEPT !.state = "rejected"]
  <2>3. row \in Payment /\ row.state = "rejected"
    BY <1>1, <2>2 DEF Rows, Payment
  <2>4. payments' = [payments EXCEPT ![k] = row] /\ Disturb(b, Sum(payments', b) # Received(b))
    BY <1>0, <1>6 DEF Reject
  <2> HIDE DEF row
  <2>5. payments' \in Rows
    BY <1>1, <2>3, <2>4 DEF Rows
  <2>6. \A x \in Payments : payments'[x] = payments[x]
                             \/ (~Counts(payments', x) /\ ~Counts(payments, x))
    BY <1>1, <2>2, <2>3, <2>4 DEF Rows, Counts
  <2>7. Sum(payments', b) = Received(b)
    BY <1>1, <2>5, <2>6, SumIsKept DEF Received
  <2>8. Disturb(b, FALSE)
    BY <2>4, <2>7
  <2> QED
    BY <1>1, <2>1, <2>8, NotDisturbed
<1>7. ASSUME Approve(u) PROVE Fresh' /\ UNCHANGED disturbed
  BY <1>3, <1>7 DEF Approve, Goto
<1>8. ASSUME Apply(u) PROVE Fresh' /\ UNCHANGED disturbed
  BY <1>3, <1>8 DEF Apply, Done
<1>9. ASSUME Count(u) PROVE Fresh' /\ UNCHANGED disturbed
  <2> DEFINE r == [req[u] EXCEPT !.at = "counted", !.sum = Received(b), !.seen = disturbed[b]]
  <2>1. Received(b) \in Int /\ disturbed[b] \in Nat
    BY <1>1, SumIsMoney DEF Received, Inv, Types
  <2>2. r \in Request /\ r.at = "counted"
    BY <1>1, <2>1 DEF Request
  <2>3. req' = [req EXCEPT ![u] = r] /\ req[u] # Idle /\ UNCHANGED disturbed
    BY <1>0, <1>9, IdleIs DEF Count
  <2> HIDE DEF r
  <2> QED
    BY <2>2, <2>3, PastBegun
<1> QED
  BY <1>2, <1>4, <1>5, <1>6, <1>7, <1>8, <1>9 DEF Pay

LEMMA EditsFresh ==
  ASSUME Inv, Fresh, OneAtATime, OneAtATime', ~Uncounted, NEW u \in Users, Edit(u)
  PROVE  Fresh' /\ UNCHANGED disturbed
<1>1. req[u] \in Request /\ Idle \in Request /\ req[u].book \in Books
  BY IdleIs DEF Inv, Types, Request
<1>2. ASSUME req' = [req EXCEPT ![u] = Idle], req[u].at # "idle" PROVE Fresh'
  <2>1. Idle.at # "begun" /\ req[u] # Idle
    BY <1>2, IdleIs
  <2> QED
    BY <1>1, <1>2, <2>1, PastBegun
<1>3. ASSUME SaveBook(u) PROVE Fresh' /\ UNCHANGED disturbed
  <2>1. book[req[u].book] = req[u].copy
    BY <1>3 DEF SaveBook, Fresh, UpToDate
  <2>2. Disturb(req[u].book, FALSE)
    BY <1>3, <2>1 DEF SaveBook
  <2>3. Fresh'
    BY <1>2, <1>3 DEF SaveBook, Done
  <2> QED
    BY <1>1, <2>2, <2>3, NotDisturbed
<1>4. ASSUME NEW b \in Books, NEW total \in Totals, ChangeTotal(u, b, total)
      PROVE  Fresh' /\ UNCHANGED disturbed
  <2>1. book' = book
    BY <1>4 DEF Uncounted
  <2>2. book'[b].total = total
    BY <1>4 DEF ChangeTotal, Inv, Types, Book
  <2>3. Disturb(b, FALSE)
    BY <1>4, <2>1, <2>2 DEF ChangeTotal
  <2>4. Fresh'
    BY <1>4, <2>1 DEF ChangeTotal, Fresh, UpToDate
  <2> QED
    BY <2>3, <2>4, NotDisturbed
<1>5. ASSUME SavePlan(u) PROVE Fresh' /\ UNCHANGED disturbed
  <2>1. plans' = plans
    BY <1>5 DEF Uncounted
  <2>2. req[u].id \in Plans
    BY <1>5 DEF SavePlan, Inv, Ready
  <2>3. PICK new \in Changed(req[u].op, req[u].copy) :
           plans' = [plans EXCEPT ![req[u].id] = new] /\ Disturb("sales", new # plans[req[u].id])
    BY <1>5 DEF SavePlan
  <2>4. new = plans[req[u].id]
    BY <2>1, <2>2, <2>3 DEF Inv, Types, PlanRows
  <2>5. Disturb("sales", FALSE)
    BY <2>3, <2>4
  <2>6. Fresh'
    BY <1>2, <1>5 DEF SavePlan, Done
  <2> QED
    BY <2>5, <2>6, NotDisturbed DEF Books
<1> QED
  BY <1>3, <1>4, <1>5 DEF Edit, Uncounted

LEMMA FailingFresh ==
  ASSUME Inv, OneAtATime, OneAtATime', ~Uncounted, NEW u \in Users, Fail(u)
  PROVE  Fresh' /\ UNCHANGED disturbed
<1>1. Idle \in Request /\ Idle.at # "begun" /\ req[u].book \in Books
  BY IdleIs DEF Inv, Types, Request
<1>2. Disturb(req[u].book, FALSE) /\ req[u] # Idle /\ req' = [req EXCEPT ![u] = Idle]
  BY DEF Fail, Uncounted, Done
<1> QED
  BY <1>1, <1>2, PastBegun, NotDisturbed

(* With requests one at a time that do none of the uncounted, an order     *)
(* nobody is summing up always shows what its payments come to, and the    *)
(* plans are filled first in, first out: everything else that goes wrong   *)
(* with them takes two requests at once.                                   *)
THEOREM AlonePaymentsAreShown ==
  Spec /\ []OneAtATime /\ [][~Uncounted]_vars => []ShownWhenDone
<1>1. Init => Fresh /\ Undisturbed
  BY IdleIs DEF Init, Fresh, UpToDate, Undisturbed
<1>2. ASSUME Inv, Fresh, Undisturbed, OneAtATime, OneAtATime', [Next]_vars, [~Uncounted]_vars
      PROVE  Fresh' /\ Undisturbed'
  <2>1. CASE UNCHANGED vars
    BY <1>2, <2>1 DEF vars, Fresh, UpToDate, Undisturbed
  <2>2. CASE Next /\ ~Uncounted
    <3>1. Fresh' /\ UNCHANGED disturbed
      BY <1>2, <2>2, BeginningFresh, PaymentsFresh, EditsFresh, FailingFresh DEF Next
    <3> QED
      BY <1>2, <3>1 DEF Undisturbed
  <2> QED
    BY <1>2, <2>1, <2>2
<1>3. ASSUME Inv, Undisturbed PROVE ShownWhenDone
  <2>1. ASSUME NEW b \in Books, \A u \in Users : ~Summing(req[u], b) PROVE Settled(b)
    BY <1>3, <2>1 DEF Settled, Summing, Undisturbed, Inv, Types, Part
  <2> QED
    BY <1>3, <2>1 DEF ShownWhenDone, Inv, Part
<1> QED
  BY <1>1, <1>2, <1>3, Inductive, PTL DEF Spec

=============================================================================
