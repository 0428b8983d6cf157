------------------------ MODULE MaterialSupply_proofs ------------------------
(***************************************************************************)
(* Proofs about MaterialSupply, for any plans, orders, records and users.  *)
(***************************************************************************)
EXTENDS MaterialSupply, SumTheorems, SequenceTheorems

-----------------------------------------------------------------------------
(* The queue.                                                              *)
Queues == {q \in Seq(Plans) : IsInjective(q)}

LEMMA Appended ==
  ASSUME NEW q \in Queues, NEW w \in Plans, w \notin ToSet(q)
  PROVE  Append(q, w) \in Queues /\ ToSet(Append(q, w)) = ToSet(q) \cup {w}
<1>1. /\ Append(q, w) \in Seq(Plans)
      /\ Len(Append(q, w)) = Len(q) + 1
      /\ \A i \in 1..Len(q) : Append(q, w)[i] = q[i]
      /\ Append(q, w)[Len(q) + 1] = w
      /\ Len(q) \in Nat /\ DOMAIN q = 1..Len(q)
      /\ DOMAIN Append(q, w) = 1..(Len(q) + 1)
  BY DEF Queues
<1>2. \A i \in DOMAIN q : q[i] # w
  BY DEF ToSet
<1>3. IsInjective(Append(q, w))
  BY <1>1, <1>2 DEF IsInjective, Queues
<1>4. ToSet(Append(q, w)) = ToSet(q) \cup {w}
  BY <1>1 DEF ToSet
<1> QED
  BY <1>1, <1>3, <1>4 DEF Queues

LEMMA Removed ==
  ASSUME NEW q \in Queues, NEW w \in ToSet(q)
  PROVE  /\ RemoveFirst(q, w) \in Queues /\ ToSet(RemoveFirst(q, w)) = ToSet(q) \ {w}
         /\ Len(RemoveFirst(q, w)) = Len(q) - 1
         /\ \E k \in 1..Len(q) :
               /\ q[k] = w
               /\ \A i \in 1..(Len(q) - 1) :
                     RemoveFirst(q, w)[i] = IF i < k THEN q[i] ELSE q[i + 1]
<1> DEFINE n == Len(q)
<1>1. n \in Nat /\ DOMAIN q = 1..n /\ q \in Seq(Plans) /\ IsInjective(q)
  BY DEF Queues
<1>2. PICK k \in 1..n : q[k] = w
  BY <1>1 DEF ToSet
<1>3. {i \in 1..n : q[i] = w} = {k}
  BY <1>1, <1>2 DEF IsInjective
<1>4. SelectInSeq(q, LAMBDA v : v = w) = k
  <2>1. Min({k}) = k
    BY <1>1, <1>2 DEF Min
  <2> QED
    BY <1>3, <2>1 DEF SelectInSeq
<1> DEFINE r == SubSeq(q, 1, k - 1) \o SubSeq(q, k + 1, n)
<1>5. RemoveFirst(q, w) = r
  BY <1>2, <1>4 DEF RemoveFirst, RemoveAt
<1>6. /\ r \in Seq(Plans) /\ Len(r) = n - 1 /\ DOMAIN r = 1..(n - 1)
      /\ \A i \in 1..(n - 1) : r[i] = IF i < k THEN q[i] ELSE q[i + 1]
  <2> DEFINE s == SubSeq(q, 1, k - 1)
             t == SubSeq(q, k + 1, n)
  <2>1. /\ s \in Seq(Plans) /\ Len(s) = k - 1
        /\ \A i \in 1..(k - 1) : s[i] = q[i]
    BY <1>1, <1>2
  <2>2. /\ t \in Seq(Plans) /\ Len(t) = n - k
        /\ \A i \in 1..(n - k) : t[i] = q[k + i]
    <3>1. k + 1 \in Int /\ n \in Int /\ \A i \in (k + 1)..n : q[i] \in Plans
      BY <1>1, <1>2
    <3>2. /\ t \in Seq(Plans)
          /\ Len(t) = IF k + 1 <= n THEN n - (k + 1) + 1 ELSE 0
          /\ \A i \in 1..(n - (k + 1) + 1) : t[i] = q[(k + 1) + i - 1]
      <4> HIDE DEF n
      <4> QED
        BY <3>1, SubSeqProperties
    <3>3. ASSUME NEW i \in 1..(n - k) PROVE t[i] = q[k + i]
      <4>1. i \in 1..(n - (k + 1) + 1) /\ (k + 1) + i - 1 = k + i
        BY <1>1, <1>2
      <4> HIDE DEF t
      <4> QED
        BY <3>2, <4>1
    <3>4. Len(t) = n - k
      <4> HIDE DEF t, n
      <4> QED
        BY <1>1, <1>2, <3>2
    <3> HIDE DEF t, n
    <3> QED
      BY <3>2, <3>3, <3>4
  <2> HIDE DEF s, t, n
  <2>3. s \o t \in Seq(Plans) /\ Len(s \o t) = n - 1
    BY <1>1, <1>2, <2>1, <2>2
  <2>4. \A i \in 1..(n - 1) : (s \o t)[i] = IF i < k THEN q[i] ELSE q[i + 1]
    <3>1. \A i \in 1..(Len(s) + Len(t)) :
             (s \o t)[i] = IF i <= Len(s) THEN s[i] ELSE t[i - Len(s)]
      BY <2>1, <2>2, ConcatProperties
    <3>2. ASSUME NEW i \in 1..(n - 1)
          PROVE  (s \o t)[i] = IF i < k THEN q[i] ELSE q[i + 1]
      <4>1. i \in 1..(Len(s) + Len(t)) /\ (i <= Len(s) <=> i < k)
        BY <1>1, <1>2, <2>1, <2>2
      <4>2. CASE i < k
        BY <1>2, <2>1, <3>1, <4>1, <4>2
      <4>3. CASE ~(i < k)
        <5>1. i - Len(s) \in 1..(n - k) /\ k + (i - Len(s)) = i + 1
          BY <1>1, <1>2, <2>1, <4>3
        <5>2. t[i - Len(s)] = q[i + 1]
          BY <2>2, <5>1
        <5> QED
          BY <3>1, <4>1, <4>3, <5>2
      <4> QED
        BY <4>2, <4>3
    <3> QED
      BY <3>2
  <2>5. DOMAIN (s \o t) = 1..(n - 1)
    BY <2>3
  <2> QED
    BY <2>3, <2>4, <2>5 DEF s, t
<1> HIDE DEF r
<1>7. IsInjective(r)
  <2>1. ASSUME NEW i \in 1..(n - 1), NEW j \in 1..(n - 1), i # j
        PROVE  r[i] # r[j]
    <3> DEFINE a == IF i < k THEN i ELSE i + 1
               b == IF j < k THEN j ELSE j + 1
    <3>1. a \in 1..n /\ b \in 1..n /\ a # b
      BY <1>1, <2>1
    <3>2. r[i] = q[a] /\ r[j] = q[b]
      BY <1>6
    <3> HIDE DEF a, b
    <3>3. q[a] # q[b]
      BY <1>1, <3>1 DEF IsInjective
    <3> QED
      BY <3>2, <3>3
  <2>2. DOMAIN r = 1..(n - 1)
    BY <1>6
  <2> QED
    BY <2>1, <2>2 DEF IsInjective
<1>8. ASSUME NEW v \in ToSet(q) \ {w} PROVE v \in ToSet(r)
  <2>1. PICK i \in 1..n : q[i] = v /\ i # k
    BY <1>1, <1>2, <1>8 DEF ToSet
  <2>2. CASE i < k
    BY <1>1, <1>2, <1>6, <2>1, <2>2 DEF ToSet
  <2>3. CASE i > k
    <3>1. i - 1 \in 1..(n - 1) /\ ~(i - 1 < k) /\ (i - 1) + 1 = i
      BY <1>1, <1>2, <2>1, <2>3
    <3> QED
      BY <1>6, <2>1, <3>1 DEF ToSet
  <2> QED
    BY <1>1, <1>2, <2>1, <2>2, <2>3
<1>9. ASSUME NEW i \in 1..(n - 1) PROVE r[i] \in ToSet(q) \ {w}
  <2>1. /\ i \in 1..n /\ i + 1 \in 1..n
        /\ (IF i < k THEN i ELSE i + 1) # k
    BY <1>1, <1>2
  <2> DEFINE j == IF i < k THEN i ELSE i + 1
  <2>2. j \in 1..n /\ j # k /\ r[i] = q[j]
    BY <1>6, <2>1
  <2> HIDE DEF j
  <2> QED
    BY <1>1, <1>2, <2>2 DEF ToSet, IsInjective
<1>10. ToSet(r) = ToSet(q) \ {w}
  BY <1>6, <1>8, <1>9 DEF ToSet
<1>11. r \in Queues
  BY <1>6, <1>7 DEF Queues
<1> QED
  BY <1>2, <1>5, <1>6, <1>10, <1>11

-----------------------------------------------------------------------------
(* What the plans hold.                                                    *)
Rows == [Plans -> PlanRow]
Reserve(rows) == [w \in Plans |-> rows[w].reserved]
Hold(rows) == SumFunctionOnSet(Reserve(rows), Plans)

LEMMA ReserveIsNat ==
  ASSUME NEW rows \in Rows, NEW w \in Plans
  PROVE  Reserve(rows)[w] = rows[w].reserved /\ rows[w].reserved \in Nat
  BY DEF Reserve, Rows, PlanRow

LEMMA HoldIsNat == \A rows \in Rows : Hold(rows) \in Nat
<1>1. SUFFICES ASSUME NEW rows \in Rows PROVE Hold(rows) \in Nat
  OBVIOUS
<1>2. \A w \in Plans : Reserve(rows)[w] \in Nat
  BY ReserveIsNat
<1> QED
  BY <1>2, SumIsNat, SupplyAssumption DEF Hold

LEMMA HoldChange ==
  ASSUME NEW old \in Rows, NEW new \in Rows, NEW w \in Plans,
         \A v \in Plans \ {w} : new[v].reserved = old[v].reserved
  PROVE  Hold(new) = Hold(old) + (new[w].reserved - old[w].reserved)
<1>1. \A v \in Plans : /\ Reserve(old)[v] = old[v].reserved /\ Reserve(old)[v] \in Int
                       /\ Reserve(new)[v] = new[v].reserved /\ Reserve(new)[v] \in Int
  BY ReserveIsNat
<1>2. \A v \in Plans \ {w} : Reserve(old)[v] = Reserve(new)[v]
  BY <1>1
<1>3. SumFunctionOnSet(Reserve(new), Plans) =
          SumFunctionOnSet(Reserve(old), Plans) + (Reserve(new)[w] - Reserve(old)[w])
  BY <1>1, <1>2, SumChange, SupplyAssumption
<1> QED
  BY <1>1, <1>3 DEF Hold

LEMMA HoldSame ==
  ASSUME NEW old \in Rows, NEW new \in Rows,
         \A v \in Plans : new[v].reserved = old[v].reserved
  PROVE  Hold(new) = Hold(old)
<1>1. Reserve(new) = Reserve(old)
  BY DEF Reserve
<1> QED
  BY <1>1 DEF Hold

LEMMA HoldAtLeast ==
  ASSUME NEW rows \in Rows, NEW w \in Plans
  PROVE  rows[w].reserved <= Hold(rows)
<1>1. \A v \in Plans : Reserve(rows)[v] = rows[v].reserved /\ rows[v].reserved \in Nat
  BY ReserveIsNat
<1>2. /\ Hold(rows) = rows[w].reserved + SumFunctionOnSet(Reserve(rows), Plans \ {w})
      /\ SumFunctionOnSet(Reserve(rows), Plans \ {w}) \in Int
  BY <1>1, SumTakeOut, SupplyAssumption DEF Hold
<1>3. SumFunctionOnSet(Reserve(rows), Plans \ {w}) \in Nat
  BY <1>1, SumIsNat, FS_RemoveElement, SupplyAssumption
<1> QED
  BY <1>1, <1>2, <1>3

-----------------------------------------------------------------------------
(* Goods shared out are held by the plans or left; a plan keeps its phase, *)
(* and what it holds and is promised stays covered.                        *)
Covers(row) ==
    /\ row.reserved + row.inbound <= row.planned
    /\ row.planned <= row.reserved + row.inbound + row.purchase

Sound(row) == IF row.phase = "confirmed" THEN Covers(row) ELSE row.reserved = 0

Kept(old, new) ==
    /\ new.phase = old.phase
    /\ new.status \in {old.status, "received"}
    /\ new.reserved >= old.reserved
    /\ Sound(new)

Shared(rows, goods) ==
    {acc \in [left : 0..goods, rows : Rows] :
        /\ Hold(acc.rows) + acc.left = Hold(rows) + goods
        /\ \A v \in Plans : Kept(rows[v], acc.rows[v])}

LEMMA ServedWell ==
  ASSUME NEW rows \in Rows, NEW goods \in Nat, NEW acc \in Shared(rows, goods),
         NEW w \in Plans, rows[w].phase = "confirmed", NEW for
  PROVE  Serve(for, acc, w) \in Shared(rows, goods)
<1> DEFINE row == acc.rows[w]
           due == Due(row, w = for)
           share == Min({acc.left, due})
           full == share > 0 /\ row.reserved + share >= row.planned
           served == [row EXCEPT !.reserved = @ + share,
                                 !.inbound = IF w = for THEN @ ELSE @ - share,
                                 !.status = IF full THEN "received" ELSE @]
           after == [acc.rows EXCEPT ![w] = served]
<1>1. /\ acc.left \in 0..goods /\ acc.rows \in Rows /\ row \in PlanRow
      /\ Hold(acc.rows) + acc.left = Hold(rows) + goods
      /\ \A v \in Plans : Kept(rows[v], acc.rows[v])
  BY DEF Shared, Rows
<1>2. /\ row.reserved \in Nat /\ row.inbound \in Nat /\ row.planned \in Nat
      /\ row.purchase \in Nat /\ acc.left \in Nat
  BY <1>1 DEF PlanRow
<1>3. row.phase = "confirmed" /\ Covers(row)
  BY <1>1 DEF Kept, Sound
<1>4. /\ due \in Nat
      /\ w = for => due + row.reserved + row.inbound <= row.planned
      /\ w # for => due = row.inbound
  <2>1. Max({0, row.planned - row.reserved - row.inbound})
          = IF 0 >= row.planned - row.reserved - row.inbound THEN 0
            ELSE row.planned - row.reserved - row.inbound
    BY <1>2, MaxOfTwo
  <2> HIDE DEF row
  <2> QED
    BY <1>2, <1>3, <2>1 DEF Due, Covers
<1>5. share \in Nat /\ share <= acc.left /\ share <= due
  <2>1. share = IF acc.left <= due THEN acc.left ELSE due
    BY <1>2, <1>4, MinOfTwo
  <2> HIDE DEF share, due
  <2> QED
    BY <1>2, <1>4, <2>1
<1>6. Serve(for, acc, w) = [left |-> acc.left - share, rows |-> after]
  <2>1. after = [acc.rows EXCEPT ![w].reserved = @ + share,
                                 ![w].inbound = IF w = for THEN @ ELSE @ - share,
                                 ![w].status = IF full THEN "received" ELSE @]
    BY <1>1 DEF Rows
  <2> HIDE DEF after
  <2> QED
    BY <2>1 DEF Serve
<1> HIDE DEF share, due
<1>7. /\ served \in PlanRow /\ served.phase = "confirmed"
      /\ served.status \in {row.status, "received"}
      /\ served.reserved = row.reserved + share
      /\ served.planned = row.planned /\ served.purchase = row.purchase
      /\ served.inbound = IF w = for THEN row.inbound ELSE row.inbound - share
  <2> DEFINE held == row.reserved + share
             inbound == IF w = for THEN row.inbound ELSE row.inbound - share
             status == IF full THEN "received" ELSE row.status
  <2>1. held \in Nat /\ inbound \in Nat
    BY <1>2, <1>4, <1>5
  <2>2. status \in {row.status, "received"} /\ status \in PurchaseStatuses
    BY <1>1 DEF PlanRow, PurchaseStatuses
  <2>3. served = [row EXCEPT !.reserved = held, !.inbound = inbound, !.status = status]
    OBVIOUS
  <2> HIDE DEF row, full, held, inbound, status, served
  <2>4. /\ served \in PlanRow /\ served.phase = row.phase
        /\ served.reserved = held /\ served.planned = row.planned
        /\ served.purchase = row.purchase
        /\ served.inbound = inbound /\ served.status = status
    BY <1>1, <2>1, <2>2, <2>3 DEF PlanRow
  <2> QED
    BY <1>3, <2>2, <2>4 DEF held, inbound
<1> HIDE DEF served
<1>8. Covers(served)
  BY <1>2, <1>3, <1>4, <1>5, <1>7 DEF Covers
<1>9. after \in Rows /\ after[w] = served /\ \A v \in Plans \ {w} : after[v] = acc.rows[v]
  BY <1>1, <1>7 DEF Rows
<1> HIDE DEF after
<1>10. Hold(after) = Hold(acc.rows) + share
  <2>1. Hold(after) = Hold(acc.rows) + (after[w].reserved - acc.rows[w].reserved)
    BY <1>1, <1>9, HoldChange
  <2>2. after[w].reserved = acc.rows[w].reserved + share
    BY <1>7, <1>9
  <2>3. Hold(acc.rows) \in Nat
    BY <1>1, HoldIsNat
  <2> QED
    BY <1>2, <1>5, <2>1, <2>2, <2>3
<1>11. \A v \in Plans : Kept(rows[v], after[v])
  <2>1. Kept(rows[w], after[w])
    <3>1. rows[w].reserved \in Nat /\ row.reserved >= rows[w].reserved
      BY <1>1 DEF Kept, Rows, PlanRow
    <3>2. served.reserved >= rows[w].reserved
      BY <1>2, <1>5, <1>7, <3>1
    <3> QED
      BY <1>1, <1>7, <1>8, <1>9, <3>2 DEF Kept, Sound
  <2> QED
    BY <1>1, <1>9, <2>1
<1>12. Hold(after) + (acc.left - share) = Hold(rows) + goods
  <2>1. Hold(acc.rows) \in Nat
    BY <1>1, HoldIsNat
  <2> QED
    BY <1>1, <1>2, <1>5, <1>10, <2>1
<1>13. acc.left - share \in 0..goods
  BY <1>1, <1>2, <1>5
<1> QED
  BY <1>6, <1>9, <1>11, <1>12, <1>13 DEF Shared

(* The tables the loop goes through: fold[s] is the one it leaves when it  *)
(* has served the plans at the positions s.                                *)
Serves(rows, goods, for, queued, fold) ==
    \A s \in SUBSET (1..Len(queued)) :
        fold[s] = IF s = {} THEN [left |-> goods, rows |-> rows]
                  ELSE Serve(for, fold[s \ {Max(s)}], queued[Max(s)])

LEMMA ShareOutServes ==
  ASSUME NEW rows \in Rows, NEW goods \in Nat, NEW for,
         \A v \in Plans : Sound(rows[v]),
         Sequence(for) \in Seq({w \in Plans : rows[w].phase = "confirmed"})
  PROVE  \E fold : /\ ShareOut(rows, goods, for) = fold[1..Len(Sequence(for))]
                   /\ Serves(rows, goods, for, Sequence(for), fold)
                   /\ \A s \in SUBSET (1..Len(Sequence(for))) :
                         fold[s] \in Shared(rows, goods)
<1> DEFINE queued == Sequence(for)
           n == Len(queued)
           D == 1..n
           A == Shared(rows, goods)
           base == [left |-> goods, rows |-> rows]
           pick == [s \in SUBSET D |-> Max(s)]
           next == [p \in A \X D |-> Serve(for, p[1], queued[p[2]])]
           Is(g) == g = [s \in SUBSET D |->
                           IF s = {} THEN base
                           ELSE Serve(for, g[s \ {Max(s)}], queued[Max(s)])]
<1>1. n \in Nat /\ DOMAIN queued = D /\ IsFiniteSet(D)
  BY FS_Interval
<1>2. \A i \in D : queued[i] \in Plans /\ rows[queued[i]].phase = "confirmed"
  BY <1>1
<1> HIDE DEF queued
<1>3. base \in A
  <2>1. \A v \in Plans : Kept(rows[v], rows[v])
    BY DEF Kept, Rows, PlanRow
  <2>2. goods \in 0..goods
    OBVIOUS
  <2> QED
    BY <2>1, <2>2 DEF Shared
<1>4. \A s \in SUBSET D : s # {} => Max(s) \in s
  BY <1>1, Greatest DEF Max
<1>5. \A a \in A, i \in D : Serve(for, a, queued[i]) \in A
  BY <1>2, ServedWell
<1>6. \E g : Is(g)
  <2>1. \A s \in SUBSET D : s # {} => pick[s] \in s
    BY <1>4
  <2> HIDE DEF pick, next, base
  <2>2. PICK g : Folds(base, pick, next, D, g)
    <3>1. D \in SUBSET D
      OBVIOUS
    <3> HIDE DEF D
    <3> QED
      BY <1>1, <2>1, <3>1, FoldsExist
  <2> DEFINE Q == {s \in SUBSET D : g[s] \in A}
  <2>3. \A s \in SUBSET D : g[s] = IF s = {} THEN base
                                   ELSE next[<<g[s \ {pick[s]}], pick[s]>>]
    BY <2>2 DEF Folds, FoldStep
  <2>4. ASSUME NEW s \in SUBSET D, s # {}, g[s \ {pick[s]}] \in A
        PROVE  g[s] = Serve(for, g[s \ {Max(s)}], queued[Max(s)]) /\ g[s] \in A
    <3>1. pick[s] = Max(s) /\ Max(s) \in D
      BY <1>4, <2>4 DEF pick
    <3>2. next[<<g[s \ {Max(s)}], Max(s)>>] = Serve(for, g[s \ {Max(s)}], queued[Max(s)])
      <4> HIDE DEF A, D
      <4> QED
        BY <2>4, <3>1 DEF next
    <3> QED
      BY <1>5, <2>3, <2>4, <3>1, <3>2
  <2>5. ASSUME NEW s \in SUBSET D, \A u \in SUBSET s : u # s => u \in Q
        PROVE  s \in Q
    <3>1. CASE s = {}
      BY <1>3, <2>3, <3>1
    <3>2. CASE s # {}
      <4>1. s \ {pick[s]} \in Q
        BY <2>1, <2>5, <3>2
      <4> QED
        BY <2>4, <3>2, <4>1
    <3> QED
      BY <3>1, <3>2
  <2>6. \A s \in SUBSET D : s \in Q
    <3> HIDE DEF Q, D
    <3> QED
      BY <1>1, <2>5, SubsetInduction
  <2>7. \A s \in SUBSET D : g[s] = IF s = {} THEN base
                   ELSE Serve(for, g[s \ {Max(s)}], queued[Max(s)])
    <3>1. ASSUME NEW s \in SUBSET D, s # {}
          PROVE  g[s] = Serve(for, g[s \ {Max(s)}], queued[Max(s)])
      <4>1. s \ {pick[s]} \in SUBSET D
        OBVIOUS
      <4>2. g[s \ {pick[s]}] \in A
        BY <2>6, <4>1
      <4> QED
        BY <2>4, <3>1, <4>2
    <3>2. g[{}] = base
      BY <2>3
    <3> HIDE DEF D
    <3> QED
      BY <3>1, <3>2
  <2>8. g = [s \in SUBSET D |-> g[s]]
    BY <2>2 DEF Folds
  <2>9. Is(g)
    <3> HIDE DEF D
    <3> QED
      BY <2>7, <2>8
  <2> HIDE DEF Is
  <2> QED
    BY <2>9
<1> DEFINE fold == CHOOSE g : Is(g)
<1>7. Is(fold)
  <2> HIDE DEF Is
  <2> QED
    BY <1>6
<1>8. FoldLeft(LAMBDA acc, w : Serve(for, acc, w), base, queued) = fold[D]
  <2> HIDE DEF base
  <2> QED
    BY <1>1 DEF FoldLeft, MapThenFoldSet
<1>9. ShareOut(rows, goods, for) = fold[D]
  BY <1>8 DEF ShareOut, queued
<1>10. \A s \in SUBSET D : fold[s] \in A
  <2> DEFINE Q == {s \in SUBSET D : fold[s] \in A}
  <2> HIDE DEF fold, base
  <2>1. \A s \in SUBSET D : fold[s] = IF s = {} THEN base
                   ELSE Serve(for, fold[s \ {Max(s)}], queued[Max(s)])
    BY <1>7
  <2>2. ASSUME NEW s \in SUBSET D, \A u \in SUBSET s : u # s => u \in Q
        PROVE  s \in Q
    <3>1. CASE s = {}
      BY <1>3, <2>1, <3>1
    <3>2. CASE s # {}
      <4>1. Max(s) \in s /\ s \ {Max(s)} \in Q
        BY <1>4, <2>2, <3>2
      <4> QED
        BY <1>5, <2>1, <3>2, <4>1
    <3> QED
      BY <3>1, <3>2
  <2>3. \A s \in SUBSET D : s \in Q
    <3> HIDE DEF Q, D
    <3> QED
      BY <1>1, <2>2, SubsetInduction
  <2> QED
    BY <2>3
<1>11. Serves(rows, goods, for, Sequence(for), fold)
  <2> HIDE DEF fold
  <2>1. \A s \in SUBSET D : fold[s] = IF s = {} THEN base
                   ELSE Serve(for, fold[s \ {Max(s)}], queued[Max(s)])
    BY <1>7
  <2> QED
    BY <2>1 DEF Serves, queued
<1> HIDE DEF fold
<1> QED
  BY <1>9, <1>10, <1>11 DEF queued

LEMMA SharesOut ==
  ASSUME NEW rows \in Rows, NEW goods \in Nat, NEW for,
         \A v \in Plans : Sound(rows[v]),
         Sequence(for) \in Seq({w \in Plans : rows[w].phase = "confirmed"})
  PROVE  ShareOut(rows, goods, for) \in Shared(rows, goods)
<1> DEFINE D == 1..Len(Sequence(for))
<1>1. PICK fold : /\ ShareOut(rows, goods, for) = fold[D]
                  /\ \A s \in SUBSET D : fold[s] \in Shared(rows, goods)
  BY ShareOutServes
<1>2. D \in SUBSET D
  OBVIOUS
<1> HIDE DEF D
<1> QED
  BY <1>1, <1>2

-----------------------------------------------------------------------------
(* Goods are shared out in turn.  A plan is given goods only while there   *)
(* are some left; it then has no claim to them any more, or none is left.  *)
LEMMA ServedOne ==
  ASSUME NEW rows \in Rows, NEW goods \in Nat, NEW acc \in Shared(rows, goods),
         NEW w \in Plans, rows[w].phase = "confirmed", NEW for
  PROVE  LET after == Serve(for, acc, w)
         IN /\ \A v \in Plans \ {w} : after.rows[v] = acc.rows[v]
            /\ after.left \in Nat /\ after.left <= acc.left
            /\ after.left > 0 => Due(after.rows[w], w = for) = 0
            /\ after.rows[w].reserved # acc.rows[w].reserved => acc.left > 0
<1> DEFINE row == acc.rows[w]
           due == Due(row, w = for)
           share == Min({acc.left, due})
           full == share > 0 /\ row.reserved + share >= row.planned
           served == [row EXCEPT !.reserved = @ + share,
                                 !.inbound = IF w = for THEN @ ELSE @ - share,
                                 !.status = IF full THEN "received" ELSE @]
           after == Serve(for, acc, w)
<1>1. /\ acc.left \in Nat /\ acc.rows \in Rows /\ row \in PlanRow
      /\ row.reserved \in Nat /\ row.inbound \in Nat /\ row.planned \in Nat
  BY DEF Shared, Rows, PlanRow
<1>2. row.reserved + row.inbound <= row.planned
  BY DEF Shared, Kept, Sound, Covers
<1>3. /\ due \in Nat
      /\ w = for => due = row.planned - row.reserved - row.inbound
      /\ w # for => due = row.inbound
  <2>1. Max({0, row.planned - row.reserved - row.inbound})
          = IF 0 >= row.planned - row.reserved - row.inbound THEN 0
            ELSE row.planned - row.reserved - row.inbound
    BY <1>1, MaxOfTwo
  <2> HIDE DEF row
  <2> QED
    BY <1>1, <1>2, <2>1 DEF Due
<1>4. share = IF acc.left <= due THEN acc.left ELSE due
  BY <1>1, <1>3, MinOfTwo
<1>5. share \in Nat /\ share <= acc.left /\ share <= due
  <2> HIDE DEF share, due
  <2> QED
    BY <1>1, <1>3, <1>4
<1>6. /\ after.left = acc.left - share
      /\ \A v \in Plans \ {w} : after.rows[v] = acc.rows[v]
      /\ after.rows[w] = served
  <2>1. after.rows = [acc.rows EXCEPT ![w].reserved = @ + share,
                                      ![w].inbound = IF w = for THEN @ ELSE @ - share,
                                      ![w].status = IF full THEN "received" ELSE @]
    BY DEF Serve
  <2>2. after.rows = [acc.rows EXCEPT ![w] = served]
    <3> HIDE DEF share, full
    <3> QED
      BY <1>1, <2>1 DEF Rows
  <2>3. after.left = acc.left - share
    BY DEF Serve
  <2> HIDE DEF after, served
  <2> QED
    BY <1>1, <2>2, <2>3 DEF Rows
<1>7. /\ served.reserved = row.reserved + share
      /\ served.planned = row.planned
      /\ served.inbound = IF w = for THEN row.inbound ELSE row.inbound - share
  <2> HIDE DEF share, full, row
  <2> QED
    BY <1>1 DEF PlanRow
<1>8. after.left > 0 => Due(served, w = for) = 0
  <2>1. ASSUME after.left > 0 PROVE share = due
    <3> HIDE DEF after, share, due
    <3> QED
      BY <1>1, <1>3, <1>4, <1>5, <1>6, <2>1
  <2>2. CASE w = for /\ share = due
    <3>1. served.planned - served.reserved - served.inbound = 0
      <4> HIDE DEF served, share, due, row
      <4> QED
        BY <1>1, <1>3, <1>5, <1>7, <2>2
    <3>2. Max({0, 0}) = 0
      BY MaxOfTwo
    <3> HIDE DEF served
    <3> QED
      BY <2>2, <3>1, <3>2 DEF Due
  <2>3. CASE w # for /\ share = due
    <3>1. served.inbound = 0
      <4> HIDE DEF served, share, due, row
      <4> QED
        BY <1>1, <1>3, <1>5, <1>7, <2>3
    <3> HIDE DEF served
    <3> QED
      BY <2>3, <3>1 DEF Due
  <2> HIDE DEF after, served, share, due
  <2> QED
    BY <2>1, <2>2, <2>3
<1>9. served.reserved # row.reserved => acc.left > 0
  <2> HIDE DEF served, share, row
  <2> QED
    BY <1>1, <1>5, <1>7
<1>10. after.left \in Nat /\ after.left <= acc.left
  <2> HIDE DEF after, share
  <2> QED
    BY <1>1, <1>5, <1>6
<1> HIDE DEF after, served, row
<1> QED
  BY <1>6, <1>8, <1>9, <1>10 DEF row, after

(* Who stands before whom in the sequence is served before.                *)
InTurn(rows, for, line, acc) ==
    \A i \in DOMAIN line :
        Due(acc.rows[line[i]], line[i] = for) > 0 =>
            /\ acc.left = 0
            /\ \A j \in DOMAIN line :
                  i < j => acc.rows[line[j]].reserved = rows[line[j]].reserved

LEMMA SharesInTurn ==
  ASSUME NEW rows \in Rows, NEW goods \in Nat, NEW for,
         \A v \in Plans : Sound(rows[v]),
         Sequence(for) \in Seq({w \in Plans : rows[w].phase = "confirmed"}),
         IsInjective(Sequence(for))
  PROVE  InTurn(rows, for, Sequence(for), ShareOut(rows, goods, for))
<1> DEFINE line == Sequence(for)
           D == 1..Len(line)
<1>1. PICK fold : /\ ShareOut(rows, goods, for) = fold[D]
                  /\ Serves(rows, goods, for, line, fold)
                  /\ \A s \in SUBSET D : fold[s] \in Shared(rows, goods)
  BY ShareOutServes
<1>2. /\ DOMAIN line = D /\ IsFiniteSet(D)
      /\ \A i \in D : line[i] \in Plans /\ rows[line[i]].phase = "confirmed"
      /\ \A i, j \in D : line[i] = line[j] => i = j
      /\ \A s \in SUBSET D : s # {} => Max(s) \in s /\ \A i \in s : i <= Max(s)
  <2>1. Len(line) \in Nat /\ DOMAIN line = D /\ IsFiniteSet(D)
    BY FS_Interval
  <2>2. \A i \in D : line[i] \in Plans /\ rows[line[i]].phase = "confirmed"
    BY <2>1
  <2>3. \A i, j \in D : line[i] = line[j] => i = j
    BY <2>1 DEF IsInjective
  <2> HIDE DEF line
  <2>4. \A s \in SUBSET D : s # {} => Max(s) \in s /\ \A i \in s : i <= Max(s)
    BY <2>1, Greatest DEF Max
  <2> QED
    BY <2>1, <2>2, <2>3, <2>4
<1> HIDE DEF line
<1> DEFINE Owed(s, i) == Due(fold[s].rows[line[i]], line[i] = for)
           Given(s, i) == fold[s].rows[line[i]].reserved # rows[line[i]].reserved
           Fair(s) == /\ \A i \in D \ s : fold[s].rows[line[i]] = rows[line[i]]
                      /\ \A i \in s : fold[s].left > 0 => Owed(s, i) = 0
                      /\ \A i, j \in s : i < j /\ Given(s, j) => Owed(s, i) = 0
           Q == {s \in SUBSET D : Fair(s)}
<1>3. Fair({})
  <2>1. fold[{}] = [left |-> goods, rows |-> rows]
    BY <1>1 DEF Serves
  <2>2. fold[{}].rows = rows
    BY <2>1
  <2> QED
    BY <2>2
<1>4. ASSUME NEW s \in SUBSET D, s # {}, Fair(s \ {Max(s)})
      PROVE  Fair(s)
  <2> DEFINE m == Max(s)
             t == s \ {m}
             w == line[m]
  <2>1. m \in s /\ \A i \in s : i <= m
    BY <1>2, <1>4
  <2>2. t \in SUBSET D /\ m \in D /\ m \notin t /\ w \in Plans /\ rows[w].phase = "confirmed"
    BY <1>2, <2>1
  <2>3. fold[s] = Serve(for, fold[t], w) /\ fold[t] \in Shared(rows, goods)
    BY <1>1, <1>4, <2>2 DEF Serves
  <2> HIDE DEF m, t, w, Fair, D
  <2>4. /\ \A v \in Plans \ {w} : fold[s].rows[v] = fold[t].rows[v]
        /\ fold[s].left \in Nat /\ fold[t].left \in Nat /\ fold[s].left <= fold[t].left
        /\ fold[s].left > 0 => Due(fold[s].rows[w], w = for) = 0
        /\ fold[s].rows[w].reserved # fold[t].rows[w].reserved => fold[t].left > 0
    <3>1. fold[t].left \in Nat
      BY <2>3 DEF Shared
    <3> QED
      BY <2>2, <2>3, <3>1, ServedOne
  <2>5. \A i \in D \ {m} : fold[s].rows[line[i]] = fold[t].rows[line[i]]
    <3>1. \A i \in D \ {m} : line[i] \in Plans \ {w}
      BY <1>2, <2>2 DEF w
    <3> QED
      BY <2>4, <3>1
  <2>6. \A i \in D \ {m} : Owed(s, i) = Owed(t, i) /\ (Given(s, i) <=> Given(t, i))
    BY <2>5
  <2>7. /\ fold[s].left > 0 => Owed(s, m) = 0
        /\ Given(s, m) => fold[t].left > 0
    <3>1. fold[t].rows[w] = rows[w]
      BY <1>4, <2>2 DEF Fair, m, t, w
    <3> QED
      BY <2>4, <3>1 DEF w
  <2>8. s = t \cup {m} /\ s \subseteq D
    BY <2>1 DEF t
  <2> HIDE DEF Owed, Given
  <2>9. Fair(t)
    BY <1>4 DEF t, m
  <2>10. \A i \in D \ s : fold[s].rows[line[i]] = rows[line[i]]
    BY <2>5, <2>8, <2>9 DEF Fair
  <2>11. ASSUME NEW i \in s, fold[s].left > 0 PROVE Owed(s, i) = 0
    <3>1. fold[t].left > 0
      BY <2>4, <2>11
    <3>2. ASSUME i # m PROVE Owed(s, i) = 0
      <4>1. i \in t /\ i \in D \ {m}
        BY <2>8, <3>2
      <4> QED
        BY <2>6, <2>9, <3>1, <4>1 DEF Fair
    <3> QED
      BY <2>7, <2>11, <3>2
  <2>12. ASSUME NEW i \in s, NEW j \in s, i < j, Given(s, j)
         PROVE  Owed(s, i) = 0
    <3>1. i \in t
      <4>1. s \subseteq Int
        BY <2>8 DEF D
      <4> QED
        BY <2>1, <2>8, <2>12, <4>1
    <3>2. CASE j = m
      BY <2>2, <2>6, <2>7, <2>9, <2>12, <3>1, <3>2 DEF Fair
    <3>3. CASE j # m
      BY <2>2, <2>6, <2>8, <2>9, <2>12, <3>1, <3>3 DEF Fair
    <3> QED
      BY <3>2, <3>3
  <2> QED
    BY <2>10, <2>11, <2>12 DEF Fair
<1> HIDE DEF Fair
<1>5. ASSUME NEW s \in SUBSET D, \A u \in SUBSET s : u # s => u \in Q
      PROVE  s \in Q
  <2>1. CASE s = {}
    BY <1>3, <2>1
  <2>2. CASE s # {}
    <3>1. Max(s) \in s
      BY <1>2, <2>2
    <3>2. s \ {Max(s)} \in Q
      BY <1>5, <3>1
    <3> QED
      BY <1>4, <2>2, <3>2
  <2> QED
    BY <2>1, <2>2
<1>6. \A s \in SUBSET D : s \in Q
  <2> HIDE DEF Q, D
  <2> QED
    BY <1>2, <1>5, SubsetInduction
<1>7. Fair(D)
  BY <1>6
<1>8. fold[D].left \in Nat
  BY <1>1 DEF Shared
<1>9. ASSUME NEW i \in D, Due(fold[D].rows[line[i]], line[i] = for) > 0
      PROVE  /\ fold[D].left = 0
             /\ \A j \in D : i < j => fold[D].rows[line[j]].reserved = rows[line[j]].reserved
  <2>1. Owed(D, i) # 0
    BY <1>9
  <2> HIDE DEF Owed
  <2> QED
    BY <1>7, <1>8, <2>1 DEF Fair
<1> QED
  BY <1>1, <1>2, <1>9 DEF InTurn, line

-----------------------------------------------------------------------------
(* The inductive invariant, in four parts.  Reservations: a plan that is   *)
(* not confirmed holds nothing, so that confirming it may overwrite what   *)
(* it holds.  Requests: whoever is about to write a row has one.           *)
Reserving ==
    /\ stock \in Nat /\ reserved \in Nat /\ stranded \in Nat
    /\ plan \in Rows
    /\ \A w \in Plans : Sound(plan[w])
    /\ reserved = Hold(plan) + stranded
    /\ reserved <= stock

Queueing == queue \in Queues /\ ToSet(queue) = Confirmed

Ordering ==
    /\ order \in [Orders -> OrderRow]
    /\ outdated \subseteq Orders
    /\ OrderedIsNotPending

SeenRow == [op : {"idle"} \cup BuyerRequests \cup Reviews \cup RecordRequests,
            order : Orders \cup {None}, status : OrderStatuses, received : Nat,
            bought : Plans \cup {None}, record : Records \cup {None}, receipt : RecordRow]

Proper(s) ==
    /\ s.op # "idle" => s.order \in Orders
    /\ s.op \in RecordRequests => s.receipt.order \in Orders
    /\ s.op \in RecordRequests \ {"receive"} => s.record \in Records

Requesting ==
    /\ record \in [Records -> RecordRow]
    /\ \A k \in Records : record[k] # NoRecord => record[k].order \in Orders
    /\ seen \in [Users -> SeenRow]
    /\ \A u \in Users : Proper(seen[u])

IInv == Reserving /\ Queueing /\ Ordering /\ Requesting

-----------------------------------------------------------------------------
(* What the planner computes.                                              *)
LEMMA StockIsFree ==
  ASSUME Reserving
  PROVE  Available = stock - reserved /\ Available \in Nat
<1>1. stock \in Nat /\ reserved \in Nat /\ reserved <= stock
  BY DEF Reserving
<1>2. stock - reserved \in Int
  BY <1>1
<1>3. Max({0, stock - reserved}) = IF 0 >= stock - reserved THEN 0 ELSE stock - reserved
  BY <1>2, MaxOfTwo
<1> QED
  BY <1>1, <1>3 DEF Available

LEMMA UnallocatedIsNat ==
  ASSUME Reserving, Ordering, NEW w
  PROVE  Unallocated(w) \in Nat
<1> DEFINE missing == [o \in Orders |-> order[o].quantity - order[o].received]
           placed == {o \in Orders : order[o].status = "ordered"}
           inbound == [v \in Plans |-> plan[v].inbound]
<1>1. InTransit \in Nat
  <2>1. IsFiniteSet(placed)
    BY FS_Subset, SupplyAssumption
  <2>2. \A o \in placed : missing[o] \in Int
    BY DEF Ordering, OrderRow
  <2>3. SumFunctionOnSet(missing, placed) \in Int
    <3> HIDE DEF missing, placed
    <3> QED
      BY <2>1, <2>2, SumIsInt
  <2>4. InTransit = Max({0, SumFunctionOnSet(missing, placed)})
    BY DEF InTransit
  <2> QED
    BY <2>3, <2>4, MaxOfTwo
<1>2. Promised(Confirmed \ {w}) \in Int
  <2>1. IsFiniteSet(Confirmed \ {w})
    <3>1. Confirmed \ {w} \subseteq Plans
      BY DEF Confirmed
    <3> QED
      BY <3>1, FS_Subset, SupplyAssumption
  <2>2. \A v \in Confirmed \ {w} : inbound[v] \in Int
    BY DEF Confirmed, Reserving, Rows, PlanRow
  <2>3. SumFunctionOnSet(inbound, Confirmed \ {w}) \in Int
    <3> HIDE DEF inbound
    <3> QED
      BY <2>1, <2>2, SumIsInt
  <2> QED
    BY <2>3 DEF Promised
<1>3. InTransit - Promised(Confirmed \ {w}) \in Int
  BY <1>1, <1>2
<1> QED
  BY <1>3, MaxOfTwo DEF Unallocated

-----------------------------------------------------------------------------
(* One row of the plans is written.                                        *)
LEMMA RowWritten ==
  ASSUME Reserving, NEW w \in Plans, NEW row \in PlanRow, Sound(row),
         plan' = [plan EXCEPT ![w] = row], stock' = stock, stranded' = stranded,
         reserved' = reserved + (row.reserved - plan[w].reserved),
         row.reserved <= plan[w].reserved + (stock - reserved)
  PROVE  Reserving'
<1>1. /\ stock \in Nat /\ reserved \in Nat /\ reserved <= stock /\ plan \in Rows
      /\ reserved = Hold(plan) + stranded /\ stranded \in Nat
      /\ \A v \in Plans : Sound(plan[v])
  BY DEF Reserving
<1>2. plan' \in Rows /\ plan'[w] = row /\ \A v \in Plans \ {w} : plan'[v] = plan[v]
  BY <1>1 DEF Rows
<1>3. Hold(plan') = Hold(plan) + (plan'[w].reserved - plan[w].reserved)
  BY <1>1, <1>2, HoldChange
<1>4. /\ row.reserved \in Nat /\ plan[w].reserved \in Nat
      /\ plan[w].reserved <= Hold(plan)
  BY <1>1, HoldAtLeast DEF Rows, PlanRow
<1>5. reserved' \in Nat /\ reserved' = Hold(plan') + stranded /\ reserved' <= stock'
  <2>1. Hold(plan) \in Nat
    BY <1>1, HoldIsNat
  <2> QED
    BY <1>1, <1>2, <1>3, <1>4, <2>1
<1>6. \A v \in Plans : Sound(plan'[v])
  BY <1>1, <1>2
<1> QED
  BY <1>1, <1>2, <1>5, <1>6 DEF Reserving

(* Statuses and whatever else is not reserved change.                      *)
LEMMA HoldsKept ==
  ASSUME Reserving, stock' = stock, reserved' = reserved, stranded' = stranded,
         plan' \in Rows,
         \A v \in Plans : /\ plan'[v].phase = plan[v].phase
                          /\ plan'[v].reserved = plan[v].reserved
                          /\ plan'[v].inbound = plan[v].inbound
                          /\ plan'[v].planned = plan[v].planned
                          /\ plan'[v].purchase = plan[v].purchase
  PROVE  Reserving'
<1>1. Hold(plan') = Hold(plan)
  BY HoldSame DEF Reserving
<1>2. \A v \in Plans : Sound(plan'[v])
  BY DEF Reserving, Sound, Covers
<1> QED
  BY <1>1, <1>2 DEF Reserving

LEMMA QueueKept ==
  ASSUME Queueing, queue' = queue,
         \A v \in Plans : plan'[v].phase = "confirmed" <=> plan[v].phase = "confirmed"
  PROVE  Queueing'
<1>1. Confirmed' = Confirmed
  BY DEF Confirmed
<1> QED
  BY <1>1 DEF Queueing

(* A plan that becomes pending has no order that is placed.                *)
LEMMA OrdersKept ==
  ASSUME Ordering, order' = order, outdated' = outdated,
         \A v \in Plans : \/ plan'[v].status = plan[v].status
                          \/ plan'[v].status # "pending"
                          \/ OrdersFor(v) = {}
  PROVE  Ordering'
<1>1. ASSUME NEW o \in Orders \ outdated, order[o].status = "ordered", order[o].plan # None
      PROVE  plan'[order[o].plan].status # "pending"
  <2>1. order[o].plan \in Plans /\ plan[order[o].plan].status # "pending"
    BY <1>1 DEF Ordering, OrderedIsNotPending, OrderRow
  <2>2. o \in OrdersFor(order[o].plan)
    BY <1>1 DEF OrdersFor, Live
  <2> QED
    BY <2>1, <2>2
<1> QED
  BY <1>1 DEF Ordering, OrderedIsNotPending

LEMMA RequestsKept ==
  ASSUME Requesting, record' = record, seen' = seen
  PROVE  Requesting'
  BY DEF Requesting

-----------------------------------------------------------------------------
(* Planning.                                                               *)
LEMMA PlanKnown ==
  ASSUME Reserving, NEW w \in Plans
  PROVE  /\ plan \in Rows /\ plan[w] \in PlanRow /\ Sound(plan[w])
         /\ plan[w].reserved \in Nat /\ plan[w].planned \in Nat
         /\ stock \in Nat /\ reserved \in Nat /\ reserved <= stock
  BY DEF Reserving, Rows, PlanRow

LEMMA CalculateStep ==
  ASSUME IInv, NEW w \in Plans, NEW demand \in Demands, CalculatePlan(w, demand)
  PROVE  IInv'
<1> DEFINE row == [plan[w] EXCEPT !.phase = "calculated", !.planned = demand,
                                  !.inbound = Unallocated(w),
                                  !.purchase = Max({0, demand - Available - Unallocated(w)})]
<1>1. /\ plan \in Rows /\ plan[w] \in PlanRow /\ Sound(plan[w])
      /\ plan[w].reserved \in Nat /\ reserved <= stock /\ stock \in Nat /\ reserved \in Nat
  BY PlanKnown DEF IInv
<1>2. demand \in Nat /\ Unallocated(w) \in Nat /\ Available \in Nat
  BY StockIsFree, UnallocatedIsNat, SupplyAssumption DEF IInv
<1>3. Max({0, demand - Available - Unallocated(w)}) \in Nat
  <2>1. demand - Available - Unallocated(w) \in Int
    BY <1>2
  <2> QED
    BY <2>1, MaxOfTwo
<1>4. plan' = [plan EXCEPT ![w] = row]
  BY <1>1 DEF CalculatePlan, Rows
<1>5. /\ row \in PlanRow /\ row.reserved = plan[w].reserved
      /\ row.phase = "calculated" /\ row.status = plan[w].status
  BY <1>1, <1>2, <1>3 DEF PlanRow, Phases
<1> HIDE DEF row
<1>6. plan[w].phase # "confirmed" /\ plan[w].reserved = 0
  BY <1>1 DEF CalculatePlan, Sound
<1>7. Reserving'
  <2>1. Sound(row)
    BY <1>5, <1>6 DEF Sound
  <2>2. stock' = stock /\ reserved' = reserved /\ stranded' = stranded
    BY DEF CalculatePlan
  <2>3. /\ reserved' = reserved + (row.reserved - plan[w].reserved)
        /\ row.reserved <= plan[w].reserved + (stock - reserved)
    BY <1>1, <1>5, <2>2
  <2> QED
    BY <1>4, <1>5, <2>1, <2>2, <2>3, RowWritten DEF IInv
<1>8. \A v \in Plans : /\ plan'[v].status = plan[v].status
                       /\ plan'[v].phase = "confirmed" <=> plan[v].phase = "confirmed"
  BY <1>1, <1>4, <1>5, <1>6 DEF Rows
<1>9. Queueing' /\ Ordering' /\ Requesting'
  BY <1>8, QueueKept, OrdersKept, RequestsKept DEF IInv, CalculatePlan
<1> QED
  BY <1>7, <1>9 DEF IInv

LEMMA ConfirmStep ==
  ASSUME IInv, NEW w \in Plans, ConfirmPlan(w)
  PROVE  IInv'
<1> DEFINE need == plan[w].planned
           reserve == Min({need, Available})
           inbound == Min({need - reserve, Unallocated(w)})
           purchase == need - reserve - inbound
           status == CASE reserve >= need -> "received"
                       [] reserve < need /\ inbound > 0 /\ purchase = 0 -> "ordered"
                       [] OTHER -> plan[w].status
           row == [phase |-> "confirmed", planned |-> need, reserved |-> reserve,
                   inbound |-> inbound, purchase |-> purchase, status |-> status]
<1>1. /\ plan \in Rows /\ plan[w] \in PlanRow /\ Sound(plan[w])
      /\ plan[w].reserved \in Nat /\ need \in Nat
      /\ reserved <= stock /\ stock \in Nat /\ reserved \in Nat
  BY PlanKnown DEF IInv
<1>2. /\ Unallocated(w) \in Nat /\ Available \in Nat /\ Available = stock - reserved
  BY StockIsFree, UnallocatedIsNat DEF IInv
<1>3. reserve \in Nat /\ reserve <= need /\ reserve <= Available
  <2>1. reserve = IF need <= Available THEN need ELSE Available
    BY <1>1, <1>2, MinOfTwo
  <2> HIDE DEF reserve, need
  <2> QED
    BY <1>1, <1>2, <2>1
<1>4. inbound \in Nat /\ inbound <= need - reserve
  <2>1. need - reserve \in Nat
    <3> HIDE DEF reserve, need
    <3> QED
      BY <1>1, <1>3
  <2>2. inbound = IF need - reserve <= Unallocated(w) THEN need - reserve ELSE Unallocated(w)
    BY <1>2, <2>1, MinOfTwo
  <2> HIDE DEF reserve, need, inbound
  <2> QED
    BY <1>2, <2>1, <2>2
<1>5. purchase \in Nat /\ need = reserve + inbound + purchase
  <2> HIDE DEF reserve, need, inbound
  <2> QED
    BY <1>1, <1>3, <1>4
<1>6. status \in PurchaseStatuses /\ (status = plan[w].status \/ status # "pending")
  <2>1. plan[w].status \in PurchaseStatuses
    BY <1>1 DEF PlanRow
  <2> HIDE DEF reserve, need, inbound, purchase
  <2> QED
    BY <2>1 DEF PurchaseStatuses
<1>7. plan' = [plan EXCEPT ![w] = row]
  BY <1>1 DEF ConfirmPlan, Rows
<1> HIDE DEF reserve, need, inbound, purchase, status
<1>8. row \in PlanRow /\ Sound(row)
  <2>1. row \in PlanRow
    BY <1>1, <1>3, <1>4, <1>5, <1>6 DEF PlanRow, Phases
  <2>2. Covers(row)
    BY <1>1, <1>3, <1>4, <1>5 DEF Covers
  <2> QED
    BY <2>1, <2>2 DEF Sound
<1>9. plan[w].phase = "calculated" /\ plan[w].reserved = 0
  BY <1>1 DEF ConfirmPlan, Sound
<1>10. reserved' = reserved + reserve
  BY DEF ConfirmPlan, reserve, need
<1>11. /\ row.reserved = reserve /\ row.phase = "confirmed" /\ row.status = status
  OBVIOUS
<1> HIDE DEF row
<1>12. Reserving'
  <2>1. stock' = stock /\ stranded' = stranded
    BY DEF ConfirmPlan
  <2>2. /\ reserved' = reserved + (row.reserved - plan[w].reserved)
        /\ row.reserved <= plan[w].reserved + (stock - reserved)
    BY <1>1, <1>2, <1>3, <1>9, <1>10, <1>11
  <2> QED
    BY <1>7, <1>8, <2>1, <2>2, RowWritten DEF IInv
<1>13. Queueing'
  <2>1. w \notin ToSet(queue) /\ queue \in Queues /\ ToSet(queue) = Confirmed
    BY <1>9 DEF IInv, Queueing, Confirmed
  <2>2. Confirmed' = Confirmed \cup {w}
    BY <1>1, <1>7, <1>11 DEF Confirmed, Rows
  <2>3. queue' = Append(queue, w)
    BY DEF ConfirmPlan
  <2> QED
    BY <2>1, <2>2, <2>3, Appended DEF Queueing
<1>14. \A v \in Plans : plan'[v].status = plan[v].status \/ plan'[v].status # "pending"
  BY <1>1, <1>6, <1>7, <1>11 DEF Rows
<1>15. Ordering' /\ Requesting'
  BY <1>14, OrdersKept, RequestsKept DEF IInv, ConfirmPlan
<1> QED
  BY <1>12, <1>13, <1>15 DEF IInv

LEMMA InvalidateStep ==
  ASSUME IInv, NEW w \in Plans, InvalidatePlan(w)
  PROVE  IInv'
<1> DEFINE row == [plan[w] EXCEPT !.phase = "invalidated", !.status = "pending",
                                  !.reserved = 0, !.inbound = 0]
<1>1. /\ plan \in Rows /\ plan[w] \in PlanRow
      /\ plan[w].reserved \in Nat /\ reserved <= stock /\ stock \in Nat /\ reserved \in Nat
      /\ reserved = Hold(plan) + stranded /\ stranded \in Nat
  BY PlanKnown DEF IInv, Reserving
<1>2. plan' = [plan EXCEPT ![w] = row]
  BY <1>1 DEF InvalidatePlan, Rows
<1>3. row \in PlanRow /\ row.reserved = 0 /\ row.phase = "invalidated"
  BY <1>1 DEF PlanRow, Phases, PurchaseStatuses
<1> HIDE DEF row
<1>4. reserved' = reserved - plan[w].reserved
  <2>1. plan[w].reserved <= reserved
    BY <1>1, HoldAtLeast, HoldIsNat
  <2>2. reserved - plan[w].reserved \in Int
    BY <1>1
  <2>3. Released(w) = IF 0 >= reserved - plan[w].reserved THEN 0
                      ELSE reserved - plan[w].reserved
    BY <2>2, MaxOfTwo DEF Released
  <2> QED
    BY <1>1, <2>1, <2>3 DEF InvalidatePlan
<1>5. Reserving'
  <2>1. Sound(row)
    BY <1>3 DEF Sound
  <2>2. /\ stock' = stock /\ stranded' = stranded
        /\ reserved' = reserved + (row.reserved - plan[w].reserved)
        /\ row.reserved <= plan[w].reserved + (stock - reserved)
    BY <1>1, <1>3, <1>4 DEF InvalidatePlan
  <2> QED
    BY <1>2, <1>3, <2>1, <2>2, RowWritten DEF IInv
<1>6. Queueing'
  <2>1. w \in ToSet(queue) /\ queue \in Queues /\ ToSet(queue) = Confirmed
    BY DEF IInv, Queueing, Confirmed, InvalidatePlan
  <2>2. Confirmed' = Confirmed \ {w}
    BY <1>1, <1>2, <1>3 DEF Confirmed, Rows
  <2>3. queue' = RemoveFirst(queue, w)
    BY DEF InvalidatePlan
  <2> QED
    BY <2>1, <2>2, <2>3, Removed DEF Queueing
<1>7. \A v \in Plans : plan'[v].status = plan[v].status \/ OrdersFor(v) = {}
  BY <1>1, <1>2 DEF Rows, InvalidatePlan
<1>8. Ordering' /\ Requesting'
  BY <1>7, OrdersKept, RequestsKept DEF IInv, InvalidatePlan
<1> QED
  BY <1>5, <1>6, <1>8 DEF IInv

LEMMA ResetStep ==
  ASSUME IInv, NEW w \in Plans, ResetPlan(w)
  PROVE  IInv'
<1> DEFINE row == [NewPlan EXCEPT !.status = plan[w].status, !.reserved = plan[w].reserved]
<1>1. /\ plan \in Rows /\ plan[w] \in PlanRow /\ Sound(plan[w])
      /\ plan[w].reserved \in Nat /\ reserved <= stock /\ stock \in Nat /\ reserved \in Nat
  BY PlanKnown DEF IInv
<1>2. plan' = [plan EXCEPT ![w] = row] /\ plan[w].phase # "confirmed"
  BY DEF ResetPlan
<1>3. /\ row \in PlanRow /\ row.reserved = plan[w].reserved
      /\ row.phase = "draft" /\ row.status = plan[w].status
  BY <1>1 DEF PlanRow, Phases, NewPlan
<1> HIDE DEF row
<1>4. Reserving'
  <2>1. Sound(row)
    BY <1>1, <1>2, <1>3 DEF Sound
  <2>2. stock' = stock /\ reserved' = reserved /\ stranded' = stranded
    BY DEF ResetPlan
  <2>3. /\ reserved' = reserved + (row.reserved - plan[w].reserved)
        /\ row.reserved <= plan[w].reserved + (stock - reserved)
    BY <1>1, <1>3, <2>2
  <2> QED
    BY <1>2, <1>3, <2>1, <2>2, <2>3, RowWritten DEF IInv
<1>5. \A v \in Plans : /\ plan'[v].status = plan[v].status
                       /\ plan'[v].phase = "confirmed" <=> plan[v].phase = "confirmed"
  BY <1>1, <1>2, <1>3 DEF Rows
<1>6. Queueing' /\ Ordering' /\ Requesting'
  BY <1>5, QueueKept, OrdersKept, RequestsKept DEF IInv, ResetPlan
<1> QED
  BY <1>4, <1>6 DEF IInv

(* Once its row is gone, no order was made for the plan.                   *)
LEMMA Forgotten ==
  ASSUME IInv, NEW w \in Plans, Forget(w), outdated' = outdated
  PROVE  /\ plan' \in Rows /\ plan'[w] = NewPlan
         /\ \A v \in Plans \ {w} : plan'[v] = plan[v]
         /\ NewPlan \in PlanRow /\ NewPlan.reserved = 0 /\ NewPlan.phase = "draft"
         /\ Sound(NewPlan)
         /\ Ordering'
<1>1. plan \in Rows /\ plan' = [plan EXCEPT ![w] = NewPlan]
  BY DEF Forget, IInv, Reserving
<1>2. /\ NewPlan \in PlanRow /\ NewPlan.reserved = 0 /\ NewPlan.phase = "draft"
  BY DEF PlanRow, Phases, NewPlan, PurchaseStatuses
<1>3. Sound(NewPlan)
  BY <1>2 DEF Sound
<1>4. /\ plan' \in Rows /\ plan'[w] = NewPlan
      /\ \A v \in Plans \ {w} : plan'[v] = plan[v]
  BY <1>1, <1>2 DEF Rows
<1>5. Ordering'
  <2>1. order \in [Orders -> OrderRow] /\ outdated \subseteq Orders /\ OrderedIsNotPending
    BY DEF IInv, Ordering
  <2>2. \A o \in Orders : order'[o] = IF order[o].plan = w THEN [order[o] EXCEPT !.plan = None]
                                     ELSE order[o]
    BY DEF Forget
  <2>3. order' \in [Orders -> OrderRow]
    BY <2>1 DEF Forget, OrderRow
  <2>4. ASSUME NEW o \in Orders \ outdated, order'[o].status = "ordered", order'[o].plan # None
        PROVE  plan'[order'[o].plan].status # "pending"
    <3>1. order[o] \in OrderRow
      BY <2>1
    <3>2. order[o].plan # w
      BY <2>2, <2>4, <3>1 DEF OrderRow
    <3>3. order'[o] = order[o]
      BY <2>2, <3>2
    <3>4. order[o].plan \in Plans \ {w}
      BY <2>4, <3>1, <3>2, <3>3 DEF OrderRow
    <3> QED
      BY <1>4, <2>1, <2>4, <3>3, <3>4 DEF OrderedIsNotPending
  <2> QED
    BY <2>1, <2>3, <2>4 DEF Ordering, OrderedIsNotPending
<1> QED
  BY <1>2, <1>3, <1>4, <1>5

LEMMA DeleteStep ==
  ASSUME IInv, NEW w \in Plans, DeletePlan(w)
  PROVE  IInv'
<1>1. /\ plan \in Rows /\ plan[w] \in PlanRow
      /\ plan[w].reserved = 0 /\ reserved <= stock /\ stock \in Nat /\ reserved \in Nat
      /\ plan[w].phase # "confirmed"
  BY PlanKnown DEF IInv, DeletePlan, Removable
<1>2. plan' = [plan EXCEPT ![w] = NewPlan] /\ Forget(w) /\ outdated' = outdated
  BY DEF DeletePlan, Forget
<1>3. Reserving'
  <2>1. stock' = stock /\ reserved' = reserved /\ stranded' = stranded
    BY DEF DeletePlan
  <2>2. /\ reserved' = reserved + (NewPlan.reserved - plan[w].reserved)
        /\ NewPlan.reserved <= plan[w].reserved + (stock - reserved)
    BY <1>1, <1>2, <2>1, Forgotten
  <2> QED
    BY <1>2, <2>1, <2>2, RowWritten, Forgotten DEF IInv
<1>4. \A v \in Plans : plan'[v].phase = "confirmed" <=> plan[v].phase = "confirmed"
  BY <1>1, <1>2, Forgotten
<1>5. Ordering'
  BY <1>2, Forgotten
<1>6. Queueing' /\ Requesting'
  BY <1>4, QueueKept, RequestsKept DEF IInv, DeletePlan
<1> QED
  BY <1>3, <1>5, <1>6 DEF IInv

(* What the dropped plan held goes over to what is held for nobody.        *)
LEMMA DropStep ==
  ASSUME IInv, NEW w \in Plans, DropPlan(w)
  PROVE  IInv'
<1>1. /\ plan \in Rows /\ plan[w].reserved \in Nat
      /\ reserved <= stock /\ stock \in Nat /\ reserved \in Nat /\ stranded \in Nat
      /\ reserved = Hold(plan) + stranded /\ \A v \in Plans : Sound(plan[v])
  BY PlanKnown DEF IInv, Reserving
<1>2. /\ Forget(w) /\ outdated' = outdated /\ queue' = RemoveFirst(queue, w)
      /\ stock' = stock /\ reserved' = reserved /\ stranded' = stranded + plan[w].reserved
  BY DEF DropPlan
<1>3. /\ plan' \in Rows /\ plan'[w] = NewPlan
      /\ \A v \in Plans \ {w} : plan'[v] = plan[v]
      /\ NewPlan.reserved = 0 /\ NewPlan.phase = "draft" /\ Sound(NewPlan)
      /\ Ordering'
  BY <1>2, Forgotten
<1>4. Reserving'
  <2>1. Hold(plan') = Hold(plan) + (plan'[w].reserved - plan[w].reserved)
    BY <1>1, <1>3, HoldChange
  <2>2. Hold(plan) \in Nat
    BY <1>1, HoldIsNat
  <2>3. reserved' = Hold(plan') + stranded' /\ stranded' \in Nat
    BY <1>1, <1>2, <1>3, <2>1, <2>2
  <2>4. \A v \in Plans : Sound(plan'[v])
    BY <1>1, <1>3
  <2> QED
    BY <1>1, <1>2, <1>3, <2>3, <2>4 DEF Reserving
<1>5. Queueing'
  <2>1. queue \in Queues /\ ToSet(queue) = Confirmed
    BY DEF IInv, Queueing
  <2>2. Confirmed' = Confirmed \ {w}
    BY <1>3 DEF Confirmed
  <2>3. CASE w \in Confirmed
    BY <1>2, <2>1, <2>2, <2>3, Removed DEF Queueing
  <2>4. CASE w \notin Confirmed
    <3>1. RemoveFirst(queue, w) = queue
      <4>1. ~\E i \in 1..Len(queue) : queue[i] = w
        BY <2>1, <2>4 DEF ToSet, Queues
      <4> QED
        BY <4>1 DEF RemoveFirst
    <3> QED
      BY <1>2, <2>1, <2>2, <2>4, <3>1 DEF Queueing
  <2> QED
    BY <2>3, <2>4
<1>6. Requesting'
  BY RequestsKept DEF IInv, DropPlan
<1> QED
  BY <1>3, <1>4, <1>5, <1>6 DEF IInv

(* Only statuses of plans are written.                                     *)
LEMMA StatusWritten ==
  ASSUME Reserving, Queueing, NEW w \in Plans, NEW status \in PurchaseStatuses,
         plan' = [plan EXCEPT ![w].status = status],
         stock' = stock, reserved' = reserved, stranded' = stranded, queue' = queue
  PROVE  /\ Reserving' /\ Queueing'
         /\ plan'[w].status = status
         /\ \A v \in Plans \ {w} : plan'[v] = plan[v]
<1>1. plan \in Rows
  BY DEF Reserving
<1>2. /\ plan' \in Rows /\ plan'[w] = [plan[w] EXCEPT !.status = status]
      /\ \A v \in Plans \ {w} : plan'[v] = plan[v]
  BY <1>1 DEF Rows, PlanRow
<1>3. /\ plan'[w].phase = plan[w].phase /\ plan'[w].reserved = plan[w].reserved
      /\ plan'[w].inbound = plan[w].inbound /\ plan'[w].planned = plan[w].planned
      /\ plan'[w].purchase = plan[w].purchase /\ plan'[w].status = status
  BY <1>1, <1>2 DEF Rows, PlanRow
<1>4. Reserving'
  BY <1>2, <1>3, HoldsKept
<1>5. Queueing'
  BY <1>2, <1>3, QueueKept
<1> QED
  BY <1>2, <1>3, <1>4, <1>5

LEMMA CutStep ==
  ASSUME IInv, NEW w \in Plans, CutMaterial(w)
  PROVE  IInv'
<1>1. /\ Reserving' /\ Queueing' /\ plan'[w].status = "cut"
      /\ \A v \in Plans \ {w} : plan'[v] = plan[v]
  BY StatusWritten DEF IInv, CutMaterial, PurchaseStatuses
<1>2. Ordering' /\ Requesting'
  BY <1>1, OrdersKept, RequestsKept DEF IInv, CutMaterial
<1> QED
  BY <1>1, <1>2 DEF IInv

-----------------------------------------------------------------------------
(* Requests.                                                               *)
LEMMA SeenWritten ==
  ASSUME Requesting, NEW u \in Users, NEW row \in SeenRow, Proper(row),
         seen' = [seen EXCEPT ![u] = row], record' = record
  PROVE  Requesting'
<1>1. /\ record \in [Records -> RecordRow] /\ seen \in [Users -> SeenRow]
      /\ \A k \in Records : record[k] # NoRecord => record[k].order \in Orders
      /\ \A v \in Users : Proper(seen[v])
  BY DEF Requesting
<1>2. seen' \in [Users -> SeenRow]
  BY <1>1
<1>3. \A v \in Users : Proper(seen'[v])
  BY <1>1
<1> QED
  BY <1>1, <1>2, <1>3 DEF Requesting

LEMMA IdleIsProper == Idle \in SeenRow /\ Proper(Idle)
<1>1. NoRecord \in RecordRow
  BY DEF NoRecord, RecordRow
<1>2. Idle \in SeenRow
  BY <1>1 DEF Idle, SeenRow, OrderStatuses
<1>3. Proper(Idle)
  BY DEF Idle, Proper, RecordRequests
<1> QED
  BY <1>2, <1>3

LEMMA Finished ==
  ASSUME Requesting, NEW u \in Users, Finish(u), record' = record
  PROVE  Requesting'
  BY IdleIsProper, SeenWritten DEF Finish

(* A record is written with a row that belongs to an order.                *)
LEMMA RecordWritten ==
  ASSUME Requesting, NEW u \in Users, Finish(u), NEW k \in Records,
         NEW row \in RecordRow, row.order \in Orders,
         record' = [record EXCEPT ![k] = row]
  PROVE  Requesting'
<1>1. /\ record \in [Records -> RecordRow] /\ seen \in [Users -> SeenRow]
      /\ \A j \in Records : record[j] # NoRecord => record[j].order \in Orders
      /\ \A v \in Users : Proper(seen[v])
  BY DEF Requesting
<1>2. record' \in [Records -> RecordRow]
  BY <1>1
<1>3. \A j \in Records : record'[j] # NoRecord => record'[j].order \in Orders
  BY <1>1
<1>4. seen' \in [Users -> SeenRow] /\ \A v \in Users : Proper(seen'[v])
  BY <1>1, IdleIsProper DEF Finish
<1> QED
  BY <1>2, <1>3, <1>4 DEF Requesting

LEMMA RequestKnown ==
  ASSUME Requesting, NEW u \in Users
  PROVE  seen[u] \in SeenRow /\ Proper(seen[u])
  BY DEF Requesting

-----------------------------------------------------------------------------
(* Purchase orders.                                                        *)
LEMMA GoodsKept ==
  ASSUME Reserving, Queueing, UNCHANGED <<stock, reserved, plan, queue, stranded>>
  PROVE  Reserving' /\ Queueing'
<1>1. Reserving'
  BY HoldsKept DEF Reserving
<1>2. Queueing'
  BY QueueKept
<1> QED
  BY <1>1, <1>2

LEMMA CreateStep ==
  ASSUME IInv, NEW o \in Orders, NEW w \in Plans \cup {None}, NEW quantity \in Quantities,
         CreateOrder(o, w, quantity)
  PROVE  IInv'
<1> DEFINE row == [NoOrder EXCEPT !.status = "pending", !.plan = w, !.quantity = quantity]
<1>1. order' = [order EXCEPT ![o] = row] /\ plan' = plan /\ outdated' = outdated
  BY DEF CreateOrder
<1>2. row \in OrderRow /\ row.status = "pending"
  BY SupplyAssumption DEF OrderRow, NoOrder, OrderStatuses, Approvals
<1> HIDE DEF row
<1>3. order \in [Orders -> OrderRow] /\ outdated \subseteq Orders /\ OrderedIsNotPending
  BY DEF IInv, Ordering
<1>4. order' \in [Orders -> OrderRow]
  BY <1>1, <1>2, <1>3
<1>5. OrderedIsNotPending'
  BY <1>1, <1>2, <1>3 DEF OrderedIsNotPending
<1>6. Ordering'
  BY <1>1, <1>3, <1>4, <1>5 DEF Ordering
<1>7. Reserving' /\ Queueing' /\ Requesting'
  BY GoodsKept, RequestsKept DEF IInv, CreateOrder
<1> QED
  BY <1>6, <1>7 DEF IInv

LEMMA LoadOrderStep ==
  ASSUME IInv, NEW u \in Users, NEW op \in BuyerRequests \cup Reviews, NEW o \in Orders,
         LoadOrder(u, op, o)
  PROVE  IInv'
<1> DEFINE status == IF op \in {"place", "cancel"} THEN "none" ELSE order[o].status
           row == [Idle EXCEPT !.op = op, !.order = o, !.status = status]
<1>1. order[o] \in OrderRow /\ order[o].status \in OrderStatuses
  BY DEF IInv, Ordering, OrderRow
<1>2. status \in OrderStatuses
  BY <1>1 DEF OrderStatuses
<1>3. seen' = [seen EXCEPT ![u] = row]
  BY DEF LoadOrder, Idle
<1> HIDE DEF status
<1>4. row \in SeenRow /\ row.op = op /\ row.order = o
  BY <1>2, IdleIsProper DEF SeenRow, Idle
<1>5. Proper(row)
  BY <1>4 DEF Proper, BuyerRequests, Reviews, RecordRequests
<1> HIDE DEF row
<1>6. Requesting'
  BY <1>3, <1>4, <1>5, SeenWritten DEF IInv, LoadOrder
<1>7. Reserving' /\ Queueing' /\ Ordering'
  BY GoodsKept, OrdersKept DEF IInv, LoadOrder
<1> QED
  BY <1>6, <1>7 DEF IInv

(* An approval writes a status: the committed one, or it is outdated.      *)
LEMMA ApprovalSaved ==
  ASSUME IInv, NEW u \in Users, seen[u].op \in BuyerRequests \cup Reviews,
         NEW approval \in Approvals, SaveApproval(u, approval),
         UNCHANGED <<stock, reserved, plan, queue, stranded>>
  PROVE  Reserving' /\ Queueing' /\ Ordering'
<1> DEFINE o == seen[u].order
           row == [order[o] EXCEPT !.status = seen[u].status, !.approval = approval]
<1>1. o \in Orders /\ seen[u].status \in OrderStatuses
  BY RequestKnown DEF IInv, Proper, SeenRow, BuyerRequests, Reviews
<1>2. order \in [Orders -> OrderRow] /\ outdated \subseteq Orders /\ OrderedIsNotPending
  BY DEF IInv, Ordering
<1>3. order' = [order EXCEPT ![o] = row]
  BY <1>1, <1>2 DEF SaveApproval
<1>4. row \in OrderRow /\ row.status = seen[u].status /\ row.plan = order[o].plan
  BY <1>1, <1>2 DEF OrderRow
<1>5. outdated' = IF order[o].status = seen[u].status THEN outdated ELSE outdated \cup {o}
  BY DEF SaveApproval
<1> HIDE DEF o, row
<1>6. order' \in [Orders -> OrderRow] /\ outdated' \subseteq Orders
  BY <1>1, <1>2, <1>3, <1>4, <1>5
<1>7. ASSUME NEW p \in Orders \ outdated', order'[p].status = "ordered", order'[p].plan # None
      PROVE  plan'[order'[p].plan].status # "pending"
  <2>1. p \notin outdated /\ order'[p].status = order[p].status /\ order'[p].plan = order[p].plan
    BY <1>1, <1>2, <1>3, <1>4, <1>5, <1>7
  <2> QED
    BY <1>2, <1>7, <2>1 DEF OrderedIsNotPending
<1>8. Ordering'
  BY <1>6, <1>7 DEF Ordering, OrderedIsNotPending
<1>9. Reserving' /\ Queueing'
  BY GoodsKept DEF IInv
<1> QED
  BY <1>8, <1>9

LEMMA SubmitStep ==
  ASSUME IInv, NEW u \in Users, Submit(u)
  PROVE  IInv'
<1>1. Reserving' /\ Queueing' /\ Ordering'
  <2>1. seen[u].op \in BuyerRequests \cup Reviews /\ "submitted" \in Approvals
    BY DEF Submit, BuyerRequests, Approvals
  <2> QED
    BY <2>1, ApprovalSaved DEF Submit
<1>2. Requesting'
  <2>1. CASE Finish(u)
    BY <2>1, Finished DEF IInv, Submit
  <2>2. CASE seen' = [seen EXCEPT ![u].op = "approve"]
    <3> DEFINE row == [seen[u] EXCEPT !.op = "approve"]
    <3>1. seen[u] \in SeenRow /\ Proper(seen[u]) /\ seen[u].op = "submit"
      BY RequestKnown DEF IInv, Submit
    <3>2. row \in SeenRow /\ row.op = "approve" /\ row.order = seen[u].order
      BY <3>1 DEF SeenRow, Reviews
    <3>3. Proper(row)
      BY <3>1, <3>2 DEF Proper, RecordRequests
    <3>4. seen' = [seen EXCEPT ![u] = row]
      BY <2>2 DEF IInv, Requesting
    <3> HIDE DEF row
    <3> QED
      BY <3>2, <3>3, <3>4, SeenWritten DEF IInv, Submit
  <2> QED
    BY <2>1, <2>2 DEF Submit
<1> QED
  BY <1>1, <1>2 DEF IInv

LEMMA DecideStep ==
  ASSUME IInv, NEW u \in Users, Decide(u)
  PROVE  IInv'
<1>1. Reserving' /\ Queueing' /\ Ordering'
  <2>1. seen[u].op \in BuyerRequests \cup Reviews
    BY DEF Decide, Reviews
  <2>2. "approved" \in Approvals /\ "rejected" \in Approvals
    BY DEF Approvals
  <2> QED
    BY <2>1, <2>2, ApprovalSaved DEF Decide
<1>2. Requesting'
  BY Finished DEF IInv, Decide
<1> QED
  BY <1>1, <1>2 DEF IInv

LEMMA PlaceStep ==
  ASSUME IInv, NEW u \in Users, PlaceOrder(u)
  PROVE  IInv'
<1> DEFINE o == seen[u].order
           w == order[o].plan
<1>1. o \in Orders
  BY RequestKnown DEF IInv, Proper, PlaceOrder
<1>2. order \in [Orders -> OrderRow] /\ outdated \subseteq Orders /\ OrderedIsNotPending
  BY DEF IInv, Ordering
<1>3. w \in Plans \cup {None}
  BY <1>1, <1>2 DEF OrderRow
<1>4. /\ order' = [order EXCEPT ![o].status = "ordered"] /\ outdated' = outdated
      /\ plan' = IF w # None /\ plan[w].status = "pending"
                   THEN [plan EXCEPT ![w].status = "ordered"] ELSE plan
      /\ UNCHANGED <<stock, reserved, queue, stranded>>
  BY DEF PlaceOrder
<1> HIDE DEF o
<1>5. /\ order' \in [Orders -> OrderRow]
      /\ \A p \in Orders : order'[p].plan = order[p].plan
      /\ \A p \in Orders \ {o} : order'[p] = order[p]
  BY <1>1, <1>2, <1>4 DEF OrderRow, OrderStatuses
<1>6. /\ Reserving' /\ Queueing'
      /\ w # None => plan'[w].status # "pending"
      /\ \A v \in Plans : plan'[v].status = plan[v].status \/ plan'[v].status # "pending"
  <2>1. CASE w # None /\ plan[w].status = "pending"
    <3>1. w \in Plans /\ plan' = [plan EXCEPT ![w].status = "ordered"]
      BY <1>3, <1>4, <2>1
    <3>2. "ordered" \in PurchaseStatuses
      BY DEF PurchaseStatuses
    <3> HIDE DEF w
    <3>3. /\ Reserving' /\ Queueing' /\ plan'[w].status = "ordered"
          /\ \A v \in Plans \ {w} : plan'[v] = plan[v]
      BY <1>4, <3>1, <3>2, StatusWritten DEF IInv
    <3> QED
      BY <3>3
  <2>2. CASE ~(w # None /\ plan[w].status = "pending")
    <3>1. plan' = plan
      BY <1>4, <2>2
    <3>2. Reserving' /\ Queueing'
      BY <1>4, <3>1, GoodsKept DEF IInv
    <3> QED
      BY <2>2, <3>1, <3>2
  <2> QED
    BY <2>1, <2>2
<1>7. ASSUME NEW p \in Orders \ outdated', order'[p].status = "ordered", order'[p].plan # None
      PROVE  plan'[order'[p].plan].status # "pending"
  <2>1. CASE p = o
    BY <1>1, <1>5, <1>6, <1>7, <2>1
  <2>2. CASE p # o
    <3>1. order'[p] = order[p] /\ p \in Orders \ outdated /\ order[p].plan \in Plans
      BY <1>2, <1>4, <1>5, <1>7, <2>2 DEF OrderRow
    <3>2. plan[order[p].plan].status # "pending"
      BY <1>2, <1>7, <3>1 DEF OrderedIsNotPending
    <3> QED
      BY <1>6, <3>1, <3>2
  <2> QED
    BY <2>1, <2>2
<1>8. Ordering'
  BY <1>2, <1>4, <1>5, <1>7 DEF Ordering, OrderedIsNotPending
<1>9. Requesting'
  BY Finished DEF IInv, PlaceOrder
<1> QED
  BY <1>6, <1>8, <1>9 DEF IInv

LEMMA CancelStep ==
  ASSUME IInv, NEW u \in Users, CancelOrder(u)
  PROVE  IInv'
<1> DEFINE o == seen[u].order
           w == order[o].plan
<1>1. o \in Orders
  BY RequestKnown DEF IInv, Proper, CancelOrder
<1>2. order \in [Orders -> OrderRow] /\ outdated \subseteq Orders /\ OrderedIsNotPending
  BY DEF IInv, Ordering
<1>3. w \in Plans \cup {None}
  BY <1>1, <1>2 DEF OrderRow
<1>4. /\ order' = [order EXCEPT ![o].status = "cancelled"] /\ outdated' = outdated
      /\ plan' = IF w # None /\ OrdersFor(w) \subseteq {o}
                   THEN [plan EXCEPT ![w].status = "pending"] ELSE plan
      /\ UNCHANGED <<stock, reserved, queue, stranded>>
  BY DEF CancelOrder
<1> HIDE DEF o
<1>5. /\ order' \in [Orders -> OrderRow]
      /\ order'[o].status = "cancelled"
      /\ \A p \in Orders \ {o} : order'[p] = order[p]
  BY <1>1, <1>2, <1>4 DEF OrderRow, OrderStatuses
<1>6. /\ Reserving' /\ Queueing'
      /\ \A v \in Plans : plan'[v] = plan[v] \/ (v = w /\ OrdersFor(v) \subseteq {o})
  <2>1. CASE w # None /\ OrdersFor(w) \subseteq {o}
    <3>1. w \in Plans /\ plan' = [plan EXCEPT ![w].status = "pending"]
      BY <1>3, <1>4, <2>1
    <3>2. "pending" \in PurchaseStatuses
      BY DEF PurchaseStatuses
    <3> HIDE DEF w
    <3>3. /\ Reserving' /\ Queueing'
          /\ \A v \in Plans \ {w} : plan'[v] = plan[v]
      BY <1>4, <3>1, <3>2, StatusWritten DEF IInv
    <3> QED
      BY <2>1, <3>3
  <2>2. CASE ~(w # None /\ OrdersFor(w) \subseteq {o})
    <3>1. plan' = plan
      BY <1>4, <2>2
    <3>2. Reserving' /\ Queueing'
      BY <1>4, <3>1, GoodsKept DEF IInv
    <3> QED
      BY <3>1, <3>2
  <2> QED
    BY <2>1, <2>2
<1>7. ASSUME NEW p \in Orders \ outdated', order'[p].status = "ordered", order'[p].plan # None
      PROVE  plan'[order'[p].plan].status # "pending"
  <2>1. p # o /\ order'[p] = order[p] /\ p \in Orders \ outdated
    BY <1>4, <1>5, <1>7
  <2>2. order[p].plan \in Plans /\ plan[order[p].plan].status # "pending"
    BY <1>2, <1>7, <2>1 DEF OrderedIsNotPending, OrderRow
  <2>3. p \in OrdersFor(order[p].plan)
    BY <1>7, <2>1 DEF OrdersFor, Live
  <2> QED
    BY <1>6, <2>1, <2>2, <2>3
<1>8. Ordering'
  BY <1>2, <1>4, <1>5, <1>7 DEF Ordering, OrderedIsNotPending
<1>9. Requesting'
  BY Finished DEF IInv, CancelOrder
<1> QED
  BY <1>6, <1>8, <1>9 DEF IInv

-----------------------------------------------------------------------------
(* Receipts.                                                               *)
LEMMA LoadForReceiptStep ==
  ASSUME IInv, NEW u \in Users, NEW o \in Orders, NEW quantity \in Quantities,
         LoadForReceipt(u, o, quantity)
  PROVE  IInv'
<1> DEFINE receipt == [NoRecord EXCEPT !.order = o, !.quantity = quantity]
           row == [Idle EXCEPT !.op = "receive", !.order = o, !.receipt = receipt]
<1>1. receipt \in RecordRow /\ receipt.order = o
  BY SupplyAssumption DEF RecordRow, NoRecord
<1>2. seen' = [seen EXCEPT ![u] = row]
  BY DEF LoadForReceipt
<1> HIDE DEF receipt
<1>3. row \in SeenRow /\ row.op = "receive" /\ row.order = o /\ row.receipt = receipt
  BY <1>1, IdleIsProper DEF SeenRow, Idle, RecordRequests
<1>4. Proper(row)
  BY <1>1, <1>3 DEF Proper
<1> HIDE DEF row
<1>5. Requesting'
  BY <1>2, <1>3, <1>4, SeenWritten DEF IInv, LoadForReceipt
<1>6. Reserving' /\ Queueing' /\ Ordering'
  BY GoodsKept, OrdersKept DEF IInv, LoadForReceipt
<1> QED
  BY <1>5, <1>6 DEF IInv

LEMMA LoadRecordStep ==
  ASSUME IInv, NEW u \in Users, NEW op \in RecordRequests \ {"receive"}, NEW k \in Records,
         LoadRecord(u, op, k)
  PROVE  IInv'
<1> DEFINE received == IF op = "stock_in" THEN order[record[k].order].received ELSE 0
           bought == IF op = "stock_in" THEN order[record[k].order].plan ELSE None
           row == [Idle EXCEPT !.op = op, !.order = record[k].order, !.record = k,
                               !.receipt = record[k], !.received = received,
                               !.bought = bought]
<1>1. record[k] \in RecordRow /\ record[k].order \in Orders
  BY DEF IInv, Requesting, LoadRecord
<1>2. received \in Nat /\ bought \in Plans \cup {None}
  BY <1>1 DEF IInv, Ordering, OrderRow
<1>3. seen' = [seen EXCEPT ![u] = row]
  BY DEF LoadRecord, Idle
<1> HIDE DEF received, bought
<1>4. /\ row \in SeenRow /\ row.op = op /\ row.order = record[k].order
      /\ row.record = k /\ row.receipt = record[k]
  BY <1>1, <1>2, IdleIsProper DEF SeenRow, Idle
<1>5. Proper(row)
  BY <1>1, <1>4 DEF Proper
<1> HIDE DEF row
<1>6. Requesting'
  BY <1>3, <1>4, <1>5, SeenWritten DEF IInv, LoadRecord
<1>7. Reserving' /\ Queueing' /\ Ordering'
  BY GoodsKept, OrdersKept DEF IInv, LoadRecord
<1> QED
  BY <1>6, <1>7 DEF IInv

LEMMA ReceiptKnown ==
  ASSUME Requesting, NEW u \in Users, seen[u].op \in RecordRequests
  PROVE  /\ seen[u].order \in Orders /\ seen[u].received \in Nat
         /\ seen[u].receipt \in RecordRow /\ seen[u].receipt.order \in Orders
         /\ seen[u].receipt.good \in Nat /\ seen[u].receipt.quantity \in Nat
         /\ seen[u].op # "receive" => seen[u].record \in Records
<1>1. seen[u] \in SeenRow /\ Proper(seen[u])
  BY RequestKnown
<1>2. seen[u].op # "idle"
  BY DEF RecordRequests
<1> QED
  BY <1>1, <1>2 DEF SeenRow, Proper, RecordRow

LEMMA ReceiveStep ==
  ASSUME IInv, NEW u \in Users, NEW k \in Records, Receive(u, k)
  PROVE  IInv'
<1>1. seen[u].receipt \in RecordRow /\ seen[u].receipt.order \in Orders
  BY ReceiptKnown DEF IInv, Receive, RecordRequests
<1>2. Requesting'
  BY <1>1, RecordWritten DEF IInv, Receive
<1>3. Reserving' /\ Queueing' /\ Ordering'
  BY GoodsKept, OrdersKept DEF IInv, Receive
<1> QED
  BY <1>2, <1>3 DEF IInv

LEMMA InspectStep ==
  ASSUME IInv, NEW u \in Users, NEW good \in 0..seen[u].receipt.quantity, Inspect(u, good)
  PROVE  IInv'
<1> DEFINE row == [seen[u].receipt EXCEPT !.inspected = TRUE, !.good = good]
<1>1. /\ seen[u].receipt \in RecordRow /\ seen[u].receipt.order \in Orders
      /\ seen[u].receipt.quantity \in Nat /\ seen[u].record \in Records
  BY ReceiptKnown DEF IInv, Inspect, RecordRequests
<1>2. row \in RecordRow /\ row.order \in Orders
  <2>1. good \in Nat
    BY <1>1
  <2> QED
    BY <1>1, <2>1 DEF RecordRow
<1>3. record' = [record EXCEPT ![seen[u].record] = row]
  BY DEF Inspect
<1> HIDE DEF row
<1>4. Requesting'
  BY <1>1, <1>2, <1>3, RecordWritten DEF IInv, Inspect
<1>5. Reserving' /\ Queueing' /\ Ordering'
  BY GoodsKept, OrdersKept DEF IInv, Inspect
<1> QED
  BY <1>4, <1>5 DEF IInv

LEMMA ReturnStep ==
  ASSUME IInv, NEW u \in Users, Return(u)
  PROVE  IInv'
<1> DEFINE row == [seen[u].receipt EXCEPT !.returned = TRUE]
<1>1. /\ seen[u].receipt \in RecordRow /\ seen[u].receipt.order \in Orders
      /\ seen[u].record \in Records
  BY ReceiptKnown DEF IInv, Return, RecordRequests
<1>2. row \in RecordRow /\ row.order \in Orders
  BY <1>1 DEF RecordRow
<1>3. record' = [record EXCEPT ![seen[u].record] = row]
  BY DEF Return
<1> HIDE DEF row
<1>4. Requesting'
  BY <1>1, <1>2, <1>3, RecordWritten DEF IInv, Return
<1>5. Reserving' /\ Queueing' /\ Ordering'
  BY GoodsKept, OrdersKept DEF IInv, Return
<1> QED
  BY <1>4, <1>5 DEF IInv

(* Goods are shared out among confirmed plans only.                        *)
LEMMA SequenceIsConfirmed ==
  ASSUME Queueing, NEW for
  PROVE  Sequence(for) \in Seq(Confirmed)
<1>1. queue \in Queues /\ ToSet(queue) = Confirmed
  BY DEF Queueing
<1>2. ASSUME NEW q \in Queues, ToSet(q) \subseteq Confirmed PROVE q \in Seq(Confirmed)
  <2>1. \A i \in 1..Len(q) : q[i] \in Confirmed
    BY <1>2 DEF Queues, ToSet
  <2>2. q \in Seq(Plans)
    BY DEF Queues
  <2> QED
    BY <2>1, <2>2
<1>3. CASE for \in Confirmed
  <2>1. RemoveFirst(queue, for) \in Seq(Confirmed)
    <3>1. /\ RemoveFirst(queue, for) \in Queues
          /\ ToSet(RemoveFirst(queue, for)) \subseteq Confirmed
      BY <1>1, <1>3, Removed
    <3> QED
      BY <1>2, <3>1
  <2>2. <<for>> \in Seq(Confirmed)
    BY <1>3
  <2>3. <<for>> \o RemoveFirst(queue, for) \in Seq(Confirmed)
    BY <2>1, <2>2, ConcatProperties
  <2> QED
    BY <1>3, <2>3 DEF Sequence
<1>4. CASE for \notin Confirmed
  BY <1>1, <1>2, <1>4 DEF Sequence
<1> QED
  BY <1>3, <1>4

(* What a stock-in does to stock, reservations and plans: the plan the     *)
(* goods were bought for is noted, then the goods are shared out.          *)
Noted(rows) ==
    \A v \in Plans : /\ rows[v].phase = plan[v].phase
                     /\ rows[v].reserved = plan[v].reserved
                     /\ rows[v].inbound = plan[v].inbound
                     /\ rows[v].planned = plan[v].planned
                     /\ rows[v].purchase = plan[v].purchase
                     /\ rows[v].status \in {plan[v].status, "received", "ordered"}

LEMMA StockedIn ==
  ASSUME IInv, NEW u \in Users, StockIn(u)
  PROVE  \E rows \in Rows, goods \in Nat :
           LET bought == order[seen[u].order].plan
               shared == ShareOut(rows, goods, bought)
           IN /\ Noted(rows) /\ Hold(rows) = Hold(plan)
              /\ \A v \in Plans : Sound(rows[v])
              /\ Sequence(bought) \in Seq({v \in Plans : rows[v].phase = "confirmed"})
              /\ shared \in Shared(rows, goods)
              /\ stock' = stock + goods /\ stranded' = stranded
              /\ reserved' = reserved + goods - shared.left
              /\ plan' = shared.rows
<1> DEFINE o == seen[u].order
           w == order[o].plan
           goods == seen[u].receipt.good
           received == seen[u].received + goods
           complete == received >= order[o].quantity
           noted == IF w = None THEN plan
                    ELSE [plan EXCEPT ![w].status =
                            IF complete THEN "received" ELSE "ordered"]
           shared == ShareOut(noted, goods, w)
<1>1. o \in Orders /\ goods \in Nat
  BY ReceiptKnown DEF IInv, StockIn, RecordRequests
<1>2. w \in Plans \cup {None}
  BY <1>1 DEF IInv, Ordering, OrderRow
<1>3. /\ stock' = stock + goods /\ stranded' = stranded
      /\ plan' = shared.rows
      /\ reserved' = reserved + goods - shared.left
  BY DEF StockIn
<1>4. plan \in Rows /\ \A v \in Plans : Sound(plan[v])
  BY DEF IInv, Reserving
<1>5. noted \in Rows /\ Noted(noted)
  <2> DEFINE status == IF complete THEN "received" ELSE "ordered"
  <2>1. status \in PurchaseStatuses /\ status \in {"received", "ordered"}
    BY DEF PurchaseStatuses
  <2> HIDE DEF w, complete, status
  <2>2. noted = IF w = None THEN plan ELSE [plan EXCEPT ![w].status = status]
    BY DEF status
  <2> HIDE DEF noted
  <2>3. CASE w = None
    BY <1>4, <2>2, <2>3 DEF Noted
  <2>4. CASE w # None
    BY <1>2, <1>4, <2>1, <2>2, <2>4 DEF Rows, PlanRow, Noted
  <2> QED
    BY <2>3, <2>4
<1> HIDE DEF noted, goods, received, complete
<1>6. Hold(noted) = Hold(plan) /\ \A v \in Plans : Sound(noted[v])
  <2>1. Hold(noted) = Hold(plan)
    BY <1>4, <1>5, HoldSame DEF Noted
  <2> QED
    BY <1>4, <1>5, <2>1 DEF Sound, Covers, Noted
<1>7. Sequence(w) \in Seq({v \in Plans : noted[v].phase = "confirmed"})
  <2>1. Confirmed = {v \in Plans : noted[v].phase = "confirmed"}
    BY <1>5 DEF Confirmed, Noted
  <2> QED
    BY <2>1, SequenceIsConfirmed DEF IInv
<1>8. shared \in Shared(noted, goods)
  BY <1>1, <1>5, <1>6, <1>7, SharesOut
<1> QED
  BY <1>1, <1>3, <1>5, <1>6, <1>7, <1>8

LEMMA StockInStep ==
  ASSUME IInv, NEW u \in Users, StockIn(u)
  PROVE  IInv'
<1> DEFINE o == seen[u].order
           w == order[o].plan
           received == seen[u].received + seen[u].receipt.good
           complete == received >= order[o].quantity
           receipt == [seen[u].receipt EXCEPT !.stocked = TRUE]
<1>1. /\ o \in Orders /\ received \in Nat
      /\ seen[u].receipt \in RecordRow /\ seen[u].receipt.order \in Orders
      /\ seen[u].record \in Records
  <2>1. /\ o \in Orders /\ seen[u].received \in Nat /\ seen[u].receipt.good \in Nat
        /\ seen[u].receipt \in RecordRow /\ seen[u].receipt.order \in Orders
        /\ seen[u].record \in Records
    BY ReceiptKnown DEF IInv, StockIn, RecordRequests
  <2> QED
    BY <2>1
<1>2. order \in [Orders -> OrderRow] /\ outdated \subseteq Orders /\ OrderedIsNotPending
  BY DEF IInv, Ordering
<1>3. w \in Plans \cup {None}
  BY <1>1, <1>2 DEF OrderRow
<1>4. /\ record' = [record EXCEPT ![seen[u].record] = receipt]
      /\ order' = [order EXCEPT ![o].received = received,
                                ![o].status = IF complete THEN "received" ELSE @]
      /\ Finish(u) /\ queue' = queue /\ outdated' = outdated
  BY DEF StockIn
<1>5. Requesting'
  <2>1. receipt \in RecordRow /\ receipt.order \in Orders
    BY <1>1 DEF RecordRow
  <2> HIDE DEF receipt
  <2> QED
    BY <1>1, <1>4, <2>1, RecordWritten DEF IInv
<1>6. /\ stock \in Nat /\ reserved \in Nat /\ reserved <= stock /\ plan \in Rows
      /\ reserved = Hold(plan) + stranded /\ stranded \in Nat
  BY DEF IInv, Reserving
<1>7. PICK rows \in Rows, goods \in Nat :
         /\ Noted(rows) /\ Hold(rows) = Hold(plan)
         /\ ShareOut(rows, goods, w) \in Shared(rows, goods)
         /\ stock' = stock + goods /\ stranded' = stranded
         /\ reserved' = reserved + goods - ShareOut(rows, goods, w).left
         /\ plan' = ShareOut(rows, goods, w).rows
  BY StockedIn
<1> DEFINE shared == ShareOut(rows, goods, w)
<1> HIDE DEF shared, w, received, complete, o
<1>8. /\ shared.left \in 0..goods /\ shared.rows \in Rows
      /\ Hold(shared.rows) + shared.left = Hold(rows) + goods
      /\ \A v \in Plans : Kept(rows[v], shared.rows[v])
      /\ stock' = stock + goods /\ stranded' = stranded
      /\ reserved' = reserved + goods - shared.left
      /\ plan' = shared.rows
  BY <1>7 DEF Shared, shared
<1>9. Reserving'
  <2>1. Hold(shared.rows) \in Nat /\ Hold(rows) = Hold(plan)
    BY <1>7, <1>8, HoldIsNat
  <2>2. stock' \in Nat /\ reserved' \in Nat /\ reserved' <= stock'
    BY <1>6, <1>8, <2>1
  <2>3. reserved' = Hold(shared.rows) + stranded' /\ stranded' \in Nat
    <3> DEFINE held == Hold(shared.rows)
               left == shared.left
    <3>1. /\ held \in Nat /\ left \in Nat /\ stranded \in Nat
          /\ reserved \in Nat /\ stranded' = stranded
      BY <1>6, <1>8, <2>1
    <3>2. reserved = Hold(rows) + stranded
      BY <1>6, <2>1
    <3>3. held + left = Hold(rows) + goods /\ Hold(rows) \in Nat
      BY <1>7, <1>8, HoldIsNat
    <3>4. reserved' = reserved + goods - left
      BY <1>8
    <3> HIDE DEF held, left
    <3>5. reserved' = held + stranded
      BY <3>1, <3>2, <3>3, <3>4
    <3> QED
      BY <3>1, <3>5 DEF held
  <2>4. \A v \in Plans : Sound(shared.rows[v])
    BY <1>8 DEF Kept
  <2> QED
    BY <1>8, <2>2, <2>3, <2>4 DEF Reserving
<1>10. \A v \in Plans : /\ plan'[v].phase = plan[v].phase
                        /\ plan'[v].status \in {plan[v].status, "received", "ordered"}
  BY <1>7, <1>8 DEF Kept, Noted
<1>11. Queueing'
  BY <1>4, <1>10, QueueKept DEF IInv
<1>12. Ordering'
  <2> DEFINE status == IF complete THEN "received" ELSE order[o].status
  <2>1. order' = [order EXCEPT ![o].received = received, ![o].status = status]
    BY <1>1, <1>2, <1>4
  <2>2. status \in OrderStatuses /\ (status = "ordered" => order[o].status = "ordered")
    BY <1>1, <1>2 DEF OrderRow, OrderStatuses
  <2> HIDE DEF status
  <2>3. /\ order' \in [Orders -> OrderRow]
        /\ \A p \in Orders : /\ order'[p].plan = order[p].plan
                              /\ order'[p].status = "ordered" => order[p].status = "ordered"
    BY <1>1, <1>2, <1>3, <2>1, <2>2 DEF OrderRow
  <2>4. ASSUME NEW p \in Orders \ outdated', order'[p].status = "ordered", order'[p].plan # None
        PROVE  plan'[order'[p].plan].status # "pending"
    <3>1. /\ p \in Orders \ outdated /\ order[p].status = "ordered"
          /\ order'[p].plan = order[p].plan /\ order[p].plan \in Plans
      BY <1>2, <1>4, <2>3, <2>4 DEF OrderRow
    <3>2. plan[order[p].plan].status # "pending"
      BY <1>2, <2>4, <3>1 DEF OrderedIsNotPending
    <3> QED
      BY <1>10, <3>1, <3>2
  <2> QED
    BY <1>2, <1>4, <2>3, <2>4 DEF Ordering, OrderedIsNotPending
<1> QED
  BY <1>5, <1>9, <1>11, <1>12 DEF IInv

-----------------------------------------------------------------------------
LEMMA InitHolds == Init => IInv
<1> SUFFICES ASSUME Init PROVE IInv
  OBVIOUS
<1>1. plan \in Rows /\ \A w \in Plans : plan[w] = NewPlan
  BY DEF Init, Rows, PlanRow, NewPlan, Phases, PurchaseStatuses
<1>2. Hold(plan) = 0
  <2>1. \A w \in Plans : Reserve(plan)[w] = 0
    BY <1>1 DEF Reserve, NewPlan
  <2> DEFINE Q == {T \in SUBSET Plans : SumFunctionOnSet(Reserve(plan), T) = 0}
  <2>2. ASSUME NEW T \in SUBSET Plans, \A U \in SUBSET T : U # T => U \in Q
        PROVE  T \in Q
    <3>1. CASE T = {}
      BY <3>1, SumEmpty
    <3>2. CASE T # {}
      <4>1. PICK w \in T : TRUE
        BY <3>2
      <4>2. IsFiniteSet(T) /\ \A v \in T : Reserve(plan)[v] = 0
        BY <2>1, FS_Subset, SupplyAssumption
      <4>3. SumFunctionOnSet(Reserve(plan), T) =
              Reserve(plan)[w] + SumFunctionOnSet(Reserve(plan), T \ {w})
        <5>1. \A v \in T : Reserve(plan)[v] \in Int
          BY <4>2
        <5> QED
          BY <4>1, <4>2, <5>1, SumTakeOut
      <4>4. T \ {w} \in Q
        BY <2>2, <4>1
      <4> QED
        BY <4>2, <4>3, <4>4
    <3> QED
      BY <3>1, <3>2
  <2>3. \A T \in SUBSET Plans : T \in Q
    <3> HIDE DEF Q
    <3> QED
      BY <2>2, SubsetInduction, SupplyAssumption
  <2> QED
    BY <2>3 DEF Hold
<1>3. Reserving
  BY <1>1, <1>2, SupplyAssumption DEF Init, Reserving, Sound, NewPlan
<1>4. Queueing
  <2>1. Confirmed = {}
    BY <1>1 DEF Confirmed, NewPlan
  <2>2. queue \in Seq(Plans) /\ DOMAIN queue = {}
    BY DEF Init
  <2> QED
    BY <2>1, <2>2 DEF Queueing, Queues, IsInjective, ToSet
<1>5. Ordering
  BY DEF Init, Ordering, OrderedIsNotPending, OrderRow, NoOrder, OrderStatuses, Approvals
<1>6. Requesting
  <2>1. NoRecord \in RecordRow
    BY DEF NoRecord, RecordRow
  <2> QED
    BY <2>1, IdleIsProper DEF Init, Requesting
<1> QED
  BY <1>3, <1>4, <1>5, <1>6 DEF IInv

LEMMA NextHolds ==
  ASSUME IInv, [Next]_vars
  PROVE  IInv'
<1>1. ASSUME Planning PROVE IInv'
  <2>1. PICK w \in Plans : \/ \E demand \in Demands : CalculatePlan(w, demand)
                           \/ ConfirmPlan(w) \/ InvalidatePlan(w) \/ ResetPlan(w)
                           \/ DeletePlan(w) \/ DropPlan(w) \/ CutMaterial(w)
    BY <1>1 DEF Planning
  <2> QED
    BY <2>1, CalculateStep, ConfirmStep, InvalidateStep, ResetStep, DeleteStep,
       DropStep, CutStep
<1>2. ASSUME Purchasing PROVE IInv'
  <2>1. ASSUME NEW o \in Orders, NEW quantity \in Quantities,
               \/ CreateForStock(o, quantity)
               \/ \E w \in Plans : CreateFromWorkOrder(o, w, quantity)
        PROVE  IInv'
    BY <2>1, CreateStep DEF CreateForStock, CreateFromWorkOrder
  <2>2. ASSUME NEW u \in Buyers,
               \/ \E op \in BuyerRequests, o \in Orders : LoadOrder(u, op, o)
               \/ Submit(u) \/ PlaceOrder(u) \/ CancelOrder(u)
        PROVE  IInv'
    BY <2>2, LoadOrderStep, SubmitStep, PlaceStep, CancelStep DEF Users
  <2>3. ASSUME NEW u \in Reviewers, NEW op \in Reviews, NEW o \in Orders, LoadOrder(u, op, o)
        PROVE  IInv'
    BY <2>3, LoadOrderStep DEF Users
  <2>4. ASSUME NEW u \in Buyers \cup Reviewers, Decide(u) PROVE IInv'
    BY <2>4, DecideStep DEF Users
  <2> QED
    BY <1>2, <2>1, <2>2, <2>3, <2>4 DEF Purchasing
<1>3. ASSUME Receiving PROVE IInv'
  <2>1. PICK u \in Users :
          \/ \E o \in Orders, quantity \in Quantities : LoadForReceipt(u, o, quantity)
          \/ \E k \in Records : Receive(u, k)
          \/ \E op \in RecordRequests \ {"receive"}, k \in Records : LoadRecord(u, op, k)
          \/ \E good \in 0..seen[u].receipt.quantity : Inspect(u, good)
          \/ Return(u)
          \/ StockIn(u)
    BY <1>3 DEF Receiving, Users
  <2> QED
    BY <2>1, LoadForReceiptStep, ReceiveStep, LoadRecordStep, InspectStep, ReturnStep, StockInStep
<1>4. ASSUME NEW u \in Users, Fail(u) PROVE IInv'
  <2>1. Reserving' /\ Queueing' /\ Ordering' /\ Requesting'
    BY <1>4, GoodsKept, OrdersKept, Finished DEF IInv, Fail
  <2> QED
    BY <2>1 DEF IInv
<1>5. ASSUME UNCHANGED vars PROVE IInv'
  <2>1. Reserving' /\ Queueing' /\ Ordering' /\ Requesting'
    BY <1>5, GoodsKept, OrdersKept, RequestsKept DEF IInv, vars
  <2> QED
    BY <2>1 DEF IInv
<1> QED
  BY <1>1, <1>2, <1>3, <1>4, <1>5 DEF Next

(* Reservations, queue, orders and requests stay consistent, whoever is at *)
(* work on the plans, the purchase orders and the receipts of a material.  *)
THEOREM Inductive == Spec => []IInv
<1>1. IInv /\ [Next]_vars => IInv'
  BY NextHolds
<1> QED
  BY <1>1, InitHolds, PTL DEF Spec

(* No row, reservation or stock of material is ever negative or malformed, *)
(* and the queue of allocate_received_inventory lists the confirmed plans. *)
THEOREM Typed == Spec => []TypeOK
<1>1. IInv => TypeOK
  BY DEF IInv, Reserving, Queueing, Queues, Ordering, Requesting, Rows, SeenRow, TypeOK
<1> QED
  BY <1>1, Inductive, PTL

(* Material.reserved_quantity is what the plans hold and what plans held   *)
(* that were deleted without being asked (views/work_order_materials.py    *)
(* 24): planning, invalidating, editing and sharing out lose nothing.      *)
THEOREM LedgersAgree == Spec => []ReservedIsSum
<1>1. IInv => ReservedIsSum
  BY DEF IInv, Reserving, Hold, Reserve, ReservedIsSum
<1> QED
  BY <1>1, Inductive, PTL

(* No stock is reserved twice: confirm_plan and allocate_received_inventory*)
(* together never hand out more than there is.                             *)
THEOREM StockCoversReservations == Spec => []ReservedInStock
<1>1. IInv => ReservedInStock
  BY DEF IInv, Reserving, ReservedInStock
<1> QED
  BY <1>1, Inductive, PTL

(* A confirmed plan holds, waits for and purchases what it needs, and is   *)
(* never handed more, in whichever order receipts arrive.                  *)
THEOREM PlansAreCovered == Spec => []PlanIsCovered
<1>1. IInv => PlanIsCovered
  BY DEF IInv, Reserving, Sound, Covers, PlanIsCovered, Confirmed
<1> QED
  BY <1>1, Inductive, PTL

(* Placing, cancelling, receiving and invalidating leave no placed order   *)
(* with a plan that still waits to be purchased, unless an approval wrote  *)
(* that order's status back (approval_service.py).                         *)
THEOREM PlacedIsShown == Spec => []OrderedIsNotPending
<1>1. IInv => OrderedIsNotPending
  BY DEF IInv, Ordering
<1> QED
  BY <1>1, Inductive, PTL

-----------------------------------------------------------------------------
(* The sequence of a receipt puts the plans in the order Before states.    *)
LEMMA LineIsOrdered ==
  ASSUME Queueing, NEW b
  PROVE  /\ IsInjective(Sequence(b))
         /\ \A v \in Confirmed : \E i \in DOMAIN Sequence(b) : Sequence(b)[i] = v
         /\ \A v, w \in Confirmed : Before(v, w, b) =>
              \E i, j \in DOMAIN Sequence(b) :
                 i < j /\ Sequence(b)[i] = v /\ Sequence(b)[j] = w
<1> DEFINE n == Len(queue)
           line == Sequence(b)
<1>1. /\ queue \in Queues /\ ToSet(queue) = Confirmed
      /\ n \in Nat /\ DOMAIN queue = 1..n
      /\ \A i, j \in 1..n : queue[i] = queue[j] => i = j
      /\ \A v \in Confirmed : \E i \in 1..n : queue[i] = v
  BY DEF Queueing, Queues, IsInjective, ToSet
<1>2. CASE b \notin Confirmed
  <2>1. line = queue
    BY <1>2 DEF Sequence
  <2> HIDE DEF line
  <2>2. ASSUME NEW v \in Confirmed, NEW w \in Confirmed, Before(v, w, b)
        PROVE  \E i, j \in 1..n : i < j /\ queue[i] = v /\ queue[j] = w
    BY <1>1, <1>2, <2>2 DEF Before
  <2>3. IsInjective(queue)
    BY <1>1 DEF IsInjective
  <2>4. /\ IsInjective(line)
        /\ \A v \in Confirmed : \E i \in DOMAIN line : line[i] = v
        /\ \A v, w \in Confirmed : Before(v, w, b) =>
             \E i, j \in DOMAIN line : i < j /\ line[i] = v /\ line[j] = w
    BY <1>1, <2>1, <2>2, <2>3
  <2> QED
    BY <2>4 DEF line
<1>3. CASE b \in Confirmed
  <2> DEFINE r == RemoveFirst(queue, b)
  <2>1. /\ r \in Queues /\ ToSet(r) = ToSet(queue) \ {b} /\ Len(r) = n - 1
        /\ \E k \in 1..n : /\ queue[k] = b
                           /\ \A i \in 1..(n - 1) :
                                 r[i] = IF i < k THEN queue[i] ELSE queue[i + 1]
    BY <1>1, <1>3, Removed
  <2>2. line = <<b>> \o r
    BY <1>3 DEF Sequence
  <2> HIDE DEF r
  <2>3. r \in Seq(Plans) /\ DOMAIN r = 1..(n - 1) /\ n >= 1
    BY <1>1, <2>1 DEF Queues
  <2>4. /\ DOMAIN line = 1..n /\ line[1] = b
        /\ \A i \in 1..(n - 1) : line[i + 1] = r[i]
    <3>1. <<b>> \in Seq({b}) /\ Len(<<b>>) = 1 /\ <<b>>[1] = b
      OBVIOUS
    <3>2. /\ Len(<<b>> \o r) = 1 + (n - 1)
          /\ \A i \in 1..(1 + (n - 1)) :
               (<<b>> \o r)[i] = IF i <= 1 THEN <<b>>[i] ELSE r[i - 1]
          /\ <<b>> \o r \in Seq(Plans \cup {b})
      <4>1. <<b>> \in Seq(Plans \cup {b}) /\ r \in Seq(Plans \cup {b})
        BY <2>3
      <4> QED
        BY <2>1, <3>1, <4>1, ConcatProperties
    <3> HIDE DEF line, n
    <3>3. line \in Seq(Plans \cup {b}) /\ Len(line) = n
      BY <1>1, <2>2, <3>2
    <3>4. \A i \in 1..n : line[i] = IF i <= 1 THEN b ELSE r[i - 1]
      BY <1>1, <2>2, <3>1, <3>2
    <3> QED
      BY <1>1, <2>3, <3>3, <3>4
  <2> HIDE DEF line
  <2>5. \A i, j \in 1..(n - 1) : r[i] = r[j] => i = j
    BY <2>1, <2>3 DEF Queues, IsInjective
  <2>6. \A i \in 1..(n - 1) : r[i] # b
    BY <2>1, <2>3 DEF ToSet
  <2>7. \A v \in Confirmed \ {b} : \E i \in 1..(n - 1) : r[i] = v
    BY <1>1, <2>1, <2>3 DEF ToSet
  <2>8. IsInjective(line)
    <3>1. ASSUME NEW i \in 1..n, NEW j \in 1..n, line[i] = line[j] PROVE i = j
      <4>1. CASE i = 1 /\ j = 1
        BY <4>1
      <4>2. CASE i = 1 /\ j # 1
        <5>1. j - 1 \in 1..(n - 1) /\ (j - 1) + 1 = j
          BY <1>1, <4>2
        <5> QED
          BY <2>4, <2>6, <3>1, <4>2, <5>1
      <4>3. CASE i # 1 /\ j = 1
        <5>1. i - 1 \in 1..(n - 1) /\ (i - 1) + 1 = i
          BY <1>1, <4>3
        <5> QED
          BY <2>4, <2>6, <3>1, <4>3, <5>1
      <4>4. CASE i # 1 /\ j # 1
        <5>1. /\ i - 1 \in 1..(n - 1) /\ (i - 1) + 1 = i
              /\ j - 1 \in 1..(n - 1) /\ (j - 1) + 1 = j
          BY <1>1, <4>4
        <5>2. r[i - 1] = r[j - 1]
          BY <2>4, <3>1, <5>1
        <5>3. i - 1 = j - 1
          BY <2>5, <5>1, <5>2
        <5> QED
          BY <5>1, <5>3
      <4> QED
        BY <4>1, <4>2, <4>3, <4>4
    <3> QED
      BY <2>4, <3>1 DEF IsInjective
  <2>9. ASSUME NEW v \in Confirmed PROVE \E i \in DOMAIN line : line[i] = v
    <3>1. CASE v = b
      BY <1>1, <2>3, <2>4, <3>1
    <3>2. CASE v # b
      <4>1. PICK i \in 1..(n - 1) : r[i] = v
        BY <2>7, <3>2
      <4>2. i + 1 \in 1..n /\ line[i + 1] = v
        BY <1>1, <2>4, <4>1
      <4> QED
        BY <2>4, <4>2
    <3> QED
      BY <3>1, <3>2
  <2>10. ASSUME NEW v \in Confirmed, NEW w \in Confirmed, Before(v, w, b)
         PROVE  \E i, j \in DOMAIN line : i < j /\ line[i] = v /\ line[j] = w
    <3>1. w # b
      BY <2>10 DEF Before
    <3>2. CASE v = b
      <4>1. PICK j \in 1..(n - 1) : r[j] = w
        BY <2>7, <3>1
      <4>2. j + 1 \in 1..n /\ line[j + 1] = w /\ 1 \in 1..n /\ 1 < j + 1 /\ line[1] = v
        BY <1>1, <2>4, <3>2, <4>1
      <4> QED
        BY <2>4, <4>2
    <3>3. CASE v # b
      <4>1. PICK i \in 1..n, j \in 1..n : i < j /\ queue[i] = v /\ queue[j] = w
        BY <1>1, <2>10, <3>3 DEF Before
      <4>2. PICK k \in 1..n : /\ queue[k] = b
                              /\ \A e \in 1..(n - 1) :
                                    r[e] = IF e < k THEN queue[e] ELSE queue[e + 1]
        BY <2>1
      <4>3. i # k /\ j # k
        BY <3>1, <3>3, <4>1, <4>2
      <4>4. ASSUME NEW x \in 1..n, x # k
            PROVE  LET y == IF x < k THEN x + 1 ELSE x
                   IN y \in 1..n /\ line[y] = queue[x]
        <5>1. CASE x < k
          <6>1. x \in 1..(n - 1) /\ x + 1 \in 1..n
            BY <1>1, <5>1
          <6>2. line[x + 1] = r[x] /\ r[x] = queue[x]
            BY <2>4, <4>2, <5>1, <6>1
          <6> QED
            BY <5>1, <6>1, <6>2
        <5>2. CASE ~(x < k)
          <6>1. x - 1 \in 1..(n - 1) /\ (x - 1) + 1 = x /\ ~(x - 1 < k)
            BY <1>1, <4>4, <5>2
          <6>2. line[x] = r[x - 1] /\ r[x - 1] = queue[x]
            BY <2>4, <4>2, <6>1
          <6> QED
            BY <5>2, <6>2
        <5> QED
          BY <5>1, <5>2
      <4> DEFINE a == IF i < k THEN i + 1 ELSE i
                 c == IF j < k THEN j + 1 ELSE j
      <4>5. a \in 1..n /\ line[a] = v /\ c \in 1..n /\ line[c] = w
        BY <4>1, <4>3, <4>4
      <4>6. a < c
        BY <1>1, <4>1, <4>2, <4>3
      <4> HIDE DEF a, c
      <4> QED
        BY <2>4, <4>5, <4>6
    <3> QED
      BY <3>2, <3>3
  <2> QED
    BY <2>8, <2>9, <2>10 DEF line
<1> QED
  BY <1>2, <1>3

LEMMA StockInServes ==
  ASSUME IInv, NEW u \in Users, StockIn(u)
  PROVE  SharedInTurn(order[seen[u].order].plan)
<1> DEFINE b == order[seen[u].order].plan
           line == Sequence(b)
<1>1. PICK rows \in Rows, goods \in Nat :
         /\ Noted(rows)
         /\ \A v \in Plans : Sound(rows[v])
         /\ line \in Seq({v \in Plans : rows[v].phase = "confirmed"})
         /\ ShareOut(rows, goods, b) \in Shared(rows, goods)
         /\ stock' = stock + goods /\ stranded' = stranded
         /\ reserved' = reserved + goods - ShareOut(rows, goods, b).left
         /\ plan' = ShareOut(rows, goods, b).rows
  BY StockedIn
<1>2. /\ IsInjective(line)
      /\ \A v \in Confirmed : \E i \in DOMAIN line : line[i] = v
      /\ \A v, w \in Confirmed : Before(v, w, b) =>
           \E i, j \in DOMAIN line : i < j /\ line[i] = v /\ line[j] = w
  BY LineIsOrdered DEF IInv
<1> HIDE DEF b
<1>3. InTurn(rows, b, line, ShareOut(rows, goods, b))
  BY <1>1, <1>2, SharesInTurn
<1> DEFINE shared == ShareOut(rows, goods, b)
<1> HIDE DEF line, shared
<1>4. ASSUME NEW v \in Confirmed, Due(plan'[v], v = b) > 0
      PROVE  /\ reserved' - reserved = stock' - stock
             /\ \A w \in Confirmed : Before(v, w, b) => plan'[w].reserved = plan[w].reserved
  <2>1. \A i \in DOMAIN line : line[i] = v =>
           /\ shared.left = 0
           /\ \A j \in DOMAIN line : i < j => plan'[line[j]].reserved = rows[line[j]].reserved
    BY <1>1, <1>3, <1>4 DEF InTurn, shared
  <2>2. shared.left = 0
    BY <1>2, <2>1
  <2>3. reserved' - reserved = stock' - stock
    <3>1. stock \in Nat /\ reserved \in Nat
      BY DEF IInv, Reserving
    <3> QED
      BY <1>1, <2>2, <3>1 DEF shared
  <2>4. ASSUME NEW w \in Confirmed, Before(v, w, b) PROVE plan'[w].reserved = plan[w].reserved
    <3>1. PICK i \in DOMAIN line, j \in DOMAIN line : i < j /\ line[i] = v /\ line[j] = w
      BY <1>2, <2>4
    <3>2. plan'[w].reserved = rows[w].reserved
      BY <2>1, <3>1
    <3>3. rows[w].reserved = plan[w].reserved
      BY <1>1 DEF Noted, Confirmed
    <3> QED
      BY <3>2, <3>3
  <2> QED
    BY <2>3, <2>4
<1> QED
  BY <1>4 DEF SharedInTurn, b

(* allocate_received_inventory serves the plan the goods were bought for,  *)
(* then the others as they were confirmed, and leaves nobody waiting that  *)
(* the receipt could serve: whatever happened between the confirmations    *)
(* and the receipt.                                                        *)
THEOREM ReceiptsServeInTurn == Spec => ServedInTurn
<1>1. IInv => \A u \in Users : StockIn(u) => SharedInTurn(order[seen[u].order].plan)
  BY StockInServes
<1> QED
  BY <1>1, Inductive, PTL DEF Spec, ServedInTurn

-----------------------------------------------------------------------------
(* Every step is a step of the ledger, or leaves it alone.                 *)
held == Reserve(plan)

LEMMA TotalIsHold == \A rows : Ledger!Total(Reserve(rows)) = Hold(rows)
  BY DEF Hold, Ledger!Total, Ledger!SumFunctionOnSet, Ledger!FoldFunctionOnSet,
         Ledger!MapThenFoldSet, SumFunctionOnSet, FoldFunctionOnSet, MapThenFoldSet

LEMMA LedgerAlone ==
  ASSUME plan \in Rows, plan' \in Rows, stock' = stock, reserved' = reserved,
         stranded' = stranded,
         \A v \in Plans : plan'[v].reserved = plan[v].reserved
  PROVE  UNCHANGED <<stock, reserved, held, stranded>>
  BY DEF held, Reserve

LEMMA PlanningKeepsLedger ==
  ASSUME IInv, IInv', NEW w \in Plans,
         \/ \E demand \in Demands : CalculatePlan(w, demand)
         \/ ResetPlan(w) \/ DeletePlan(w) \/ CutMaterial(w)
  PROVE  UNCHANGED <<stock, reserved, held, stranded>>
<1>1. /\ plan \in Rows /\ plan' \in Rows /\ plan[w] \in PlanRow
      /\ stock' = stock /\ reserved' = reserved /\ stranded' = stranded
  BY DEF IInv, Reserving, Rows, CalculatePlan, ResetPlan, DeletePlan, CutMaterial
<1>2. \A v \in Plans \ {w} : plan'[v] = plan[v]
  BY <1>1 DEF CalculatePlan, ResetPlan, DeletePlan, Forget, CutMaterial, Rows
<1>3. plan'[w].reserved = plan[w].reserved
  <2>1. CASE \E demand \in Demands : CalculatePlan(w, demand)
    <3>1. PICK demand \in Demands : CalculatePlan(w, demand)
      BY <2>1
    <3>2. plan' = [plan EXCEPT ![w] = [@ EXCEPT !.phase = "calculated",
                     !.planned = demand, !.inbound = Unallocated(w),
                     !.purchase = Max({0, demand - Available - Unallocated(w)})]]
      BY <1>1, <3>1 DEF CalculatePlan, Rows
    <3> QED
      BY <1>1, <3>2 DEF Rows, PlanRow
  <2>2. CASE ResetPlan(w)
    BY <1>1, <2>2 DEF ResetPlan, Rows, NewPlan
  <2>3. CASE DeletePlan(w)
    BY <1>1, <2>3 DEF DeletePlan, Forget, Removable, Rows, NewPlan
  <2>4. CASE CutMaterial(w)
    BY <1>1, <2>4 DEF CutMaterial, Rows, PlanRow
  <2> QED
    BY <2>1, <2>2, <2>3, <2>4
<1> QED
  BY <1>1, <1>2, <1>3, LedgerAlone

LEMMA ConfirmTakes ==
  ASSUME IInv, IInv', NEW w \in Plans, ConfirmPlan(w)
  PROVE  [Ledger!Next]_<<stock, reserved, held, stranded>>
<1> DEFINE need == plan[w].planned
           amount == Min({need, Available})
<1>1. /\ plan \in Rows /\ plan' \in Rows /\ Sound(plan[w]) /\ need \in Nat
      /\ stock \in Nat /\ reserved \in Nat
  BY PlanKnown DEF IInv, Reserving
<1>2. Available \in Nat /\ Available = stock - reserved
  BY StockIsFree DEF IInv
<1>3. amount \in Nat /\ amount <= stock - reserved
  <2>1. amount = IF need <= Available THEN need ELSE Available
    BY <1>1, <1>2, MinOfTwo
  <2> HIDE DEF amount, need
  <2> QED
    BY <1>1, <1>2, <2>1
<1>4. plan[w].phase = "calculated" /\ plan[w].reserved = 0
  BY <1>1 DEF ConfirmPlan, Sound
<1>5. /\ stock' = stock /\ reserved' = reserved + amount /\ stranded' = stranded
      /\ plan'[w].reserved = amount
      /\ \A v \in Plans \ {w} : plan'[v] = plan[v]
  <2> HIDE DEF amount
  <2>1. /\ plan'[w].reserved = amount
        /\ \A v \in Plans \ {w} : plan'[v] = plan[v]
    BY <1>1 DEF ConfirmPlan, Rows, amount
  <2> QED
    BY <2>1 DEF ConfirmPlan, amount
<1> HIDE DEF amount
<1>6. held[w] = 0 /\ held' = [held EXCEPT ![w] = amount]
  BY <1>4, <1>5 DEF held, Reserve
<1>7. CASE amount = 0
  <2>1. held' = held
    BY <1>6, <1>7 DEF held, Reserve
  <2> QED
    BY <1>1, <1>5, <1>7, <2>1
<1>8. CASE amount # 0
  <2>1. PICK n \in 1..(stock - reserved) : n = amount
    BY <1>1, <1>3, <1>8
  <2>2. Ledger!Take(w, n)
    BY <1>5, <1>6, <2>1 DEF Ledger!Take, held, Reserve
  <2>3. Ledger!Next
    BY <2>2 DEF Ledger!Next
  <2> QED
    BY <2>3
<1> QED
  BY <1>7, <1>8

LEMMA InvalidateGivesBack ==
  ASSUME IInv, IInv', NEW w \in Plans, InvalidatePlan(w)
  PROVE  Ledger!Next
<1>1. /\ plan \in Rows /\ plan' \in Rows /\ plan[w].reserved \in Nat
      /\ reserved = Hold(plan) + stranded /\ reserved' = Hold(plan') + stranded'
      /\ reserved \in Nat /\ stranded \in Nat /\ Hold(plan) \in Nat
  BY HoldIsNat DEF IInv, Reserving, Rows, PlanRow
<1>2. /\ plan'[w].reserved = 0 /\ \A v \in Plans \ {w} : plan'[v] = plan[v]
      /\ stock' = stock /\ stranded' = stranded
  BY <1>1 DEF InvalidatePlan, Rows, PlanRow
<1>3. reserved' = reserved - plan[w].reserved
  <2>1. Hold(plan') = Hold(plan) + (plan'[w].reserved - plan[w].reserved)
    BY <1>1, <1>2, HoldChange
  <2> QED
    BY <1>1, <1>2, <2>1
<1>4. held' = [held EXCEPT ![w] = 0] /\ held[w] = plan[w].reserved
  BY <1>2 DEF held, Reserve
<1>5. Ledger!GiveBack(w)
  BY <1>2, <1>3, <1>4 DEF Ledger!GiveBack, held, Reserve
<1> QED
  BY <1>5 DEF Ledger!Next

LEMMA DropAbandons ==
  ASSUME IInv, NEW w \in Plans, DropPlan(w)
  PROVE  Ledger!Next
<1>1. /\ plan'[w].reserved = 0 /\ \A v \in Plans \ {w} : plan'[v] = plan[v]
      /\ stock' = stock /\ reserved' = reserved /\ stranded' = stranded + plan[w].reserved
  BY Forgotten DEF DropPlan
<1>2. held' = [held EXCEPT ![w] = 0] /\ held[w] = plan[w].reserved
  BY <1>1 DEF held, Reserve
<1>3. Ledger!Abandon(w)
  BY <1>1, <1>2 DEF Ledger!Abandon, held, Reserve
<1> QED
  BY <1>3 DEF Ledger!Next

LEMMA StockInArrives ==
  ASSUME IInv, IInv', NEW u \in Users, StockIn(u)
  PROVE  Ledger!Next
<1> DEFINE b == order[seen[u].order].plan
<1>1. PICK rows \in Rows, goods \in Nat :
         /\ Noted(rows)
         /\ ShareOut(rows, goods, b) \in Shared(rows, goods)
         /\ stock' = stock + goods /\ stranded' = stranded
         /\ reserved' = reserved + goods - ShareOut(rows, goods, b).left
         /\ plan' = ShareOut(rows, goods, b).rows
  BY StockedIn
<1> DEFINE left == ShareOut(rows, goods, b).left
<1>2. /\ left \in 0..goods
      /\ \A v \in Plans : Kept(rows[v], plan'[v])
  BY <1>1 DEF Shared
<1> HIDE DEF b, left
<1>3. /\ stock \in Nat /\ reserved \in Nat /\ plan \in Rows /\ plan' \in Rows
      /\ reserved = Hold(plan) + stranded /\ reserved' = Hold(plan') + stranded'
      /\ Hold(plan) \in Nat /\ Hold(plan') \in Nat /\ stranded \in Nat
  BY HoldIsNat DEF IInv, Reserving
<1>4. stock' \in Nat /\ reserved' - reserved <= stock' - stock
  <2>1. reserved' = reserved + goods - left /\ stock' = stock + goods
    BY <1>1 DEF left
  <2> QED
    BY <1>2, <1>3, <2>1
<1>5. held' \in [Plans -> Nat] /\ \A v \in Plans : held'[v] >= held[v]
  <2>1. \A v \in Plans : plan'[v].reserved \in Nat /\ plan'[v].reserved >= plan[v].reserved
    BY <1>1, <1>2, <1>3 DEF Kept, Noted, Rows, PlanRow
  <2> QED
    BY <2>1 DEF held, Reserve
<1>6. reserved' - reserved = Ledger!Total(held') - Ledger!Total(held)
  <2>1. Ledger!Total(held) = Hold(plan)
    BY TotalIsHold DEF held
  <2>2. Ledger!Total(held') = Hold(plan')
    BY TotalIsHold DEF held
  <2> QED
    BY <1>1, <1>3, <2>1, <2>2
<1>7. Ledger!Arrive
  BY <1>1, <1>4, <1>5, <1>6 DEF Ledger!Arrive, held, Reserve
<1> QED
  BY <1>7 DEF Ledger!Next

LEMMA LedgerStep ==
  ASSUME IInv, IInv', [Next]_vars
  PROVE  [Ledger!Next]_<<stock, reserved, held, stranded>>
<1>1. plan \in Rows
  BY DEF IInv, Reserving
<1>2. ASSUME Planning PROVE [Ledger!Next]_<<stock, reserved, held, stranded>>
  <2>1. PICK w \in Plans : \/ \E demand \in Demands : CalculatePlan(w, demand)
                           \/ ConfirmPlan(w) \/ InvalidatePlan(w) \/ ResetPlan(w)
                           \/ DeletePlan(w) \/ DropPlan(w) \/ CutMaterial(w)
    BY <1>2 DEF Planning
  <2> QED
    BY <2>1, PlanningKeepsLedger, ConfirmTakes, InvalidateGivesBack, DropAbandons
<1>3. ASSUME stock' = stock, reserved' = reserved, stranded' = stranded,
             \A v \in Plans : plan'[v].reserved = plan[v].reserved
      PROVE  UNCHANGED <<stock, reserved, held, stranded>>
  BY <1>1, <1>3, LedgerAlone DEF IInv, Reserving
<1>4. ASSUME Purchasing PROVE UNCHANGED <<stock, reserved, held, stranded>>
  <2>1. /\ stock' = stock /\ reserved' = reserved /\ stranded' = stranded
        /\ \/ plan' = plan
           \/ \E w \in Plans, status \in PurchaseStatuses :
                plan' = [plan EXCEPT ![w].status = status]
    <3>1. ASSUME NEW u \in Buyers, PlaceOrder(u) \/ CancelOrder(u)
          PROVE  /\ stock' = stock /\ reserved' = reserved /\ stranded' = stranded
                 /\ \/ plan' = plan
                    \/ \E w \in Plans, status \in PurchaseStatuses :
                         plan' = [plan EXCEPT ![w].status = status]
      <4>1. order[seen[u].order].plan \in Plans \cup {None}
        <5>1. u \in Users /\ seen[u].op # "idle"
          BY <3>1 DEF Users, PlaceOrder, CancelOrder
        <5>2. seen[u].order \in Orders
          BY <5>1, RequestKnown DEF IInv, Proper
        <5> QED
          BY <5>2 DEF IInv, Ordering, OrderRow
      <4> QED
        BY <3>1, <4>1 DEF PlaceOrder, CancelOrder, PurchaseStatuses
    <3>2. ASSUME \/ \E o \in Orders, quantity \in Quantities :
                      \/ CreateForStock(o, quantity)
                      \/ \E w \in Plans : CreateFromWorkOrder(o, w, quantity)
                 \/ \E u, op, o : LoadOrder(u, op, o)
                 \/ \E u : Submit(u) \/ Decide(u)
          PROVE  /\ stock' = stock /\ reserved' = reserved /\ plan' = plan
                 /\ stranded' = stranded
      BY <3>2 DEF CreateForStock, CreateFromWorkOrder, CreateOrder, LoadOrder, Submit, Decide
    <3> QED
      BY <1>4, <3>1, <3>2 DEF Purchasing
  <2> QED
    BY <1>1, <1>3, <2>1 DEF Rows, PlanRow
<1>5. ASSUME Receiving PROVE [Ledger!Next]_<<stock, reserved, held, stranded>>
  <2>1. PICK u \in Users :
          \/ \E o \in Orders, quantity \in Quantities : LoadForReceipt(u, o, quantity)
          \/ \E k \in Records : Receive(u, k)
          \/ \E op \in RecordRequests \ {"receive"}, k \in Records : LoadRecord(u, op, k)
          \/ \E good \in 0..seen[u].receipt.quantity : Inspect(u, good)
          \/ Return(u)
          \/ StockIn(u)
    BY <1>5 DEF Receiving, Users
  <2>2. CASE StockIn(u)
    BY <2>2, StockInArrives
  <2>3. CASE ~StockIn(u)
    <3>1. /\ stock' = stock /\ reserved' = reserved /\ plan' = plan
          /\ stranded' = stranded
      BY <2>1, <2>3 DEF LoadForReceipt, Receive, LoadRecord, Inspect, Return
    <3> QED
      BY <1>3, <3>1
  <2> QED
    BY <2>2, <2>3
<1>6. ASSUME NEW u \in Users, Fail(u) PROVE UNCHANGED <<stock, reserved, held, stranded>>
  BY <1>3, <1>6 DEF Fail
<1>7. CASE UNCHANGED vars
  BY <1>3, <1>7 DEF vars
<1> QED
  BY <1>2, <1>4, <1>5, <1>6, <1>7 DEF Next

(* calculate_plan to invalidate_plan, edits of the work order and          *)
(* allocate_received_inventory implement ReservationLedger, whatever       *)
(* purchase orders, receipts and failures come between them; a deletion    *)
(* that asks nothing abandons what the plan held.                          *)
THEOREM SupplyImplementsLedger == Spec => ImplementsLedger
<1>1. Init => Ledger!Init
  BY DEF Init, Ledger!Init, NewPlan
<1>2. IInv /\ IInv' /\ [Next]_vars => [Ledger!Next]_<<stock, reserved, held, stranded>>
  BY LedgerStep
<1> QED
  BY <1>1, <1>2, Inductive, PTL DEF Spec, ImplementsLedger, Ledger!Spec, held, Reserve

-----------------------------------------------------------------------------
(* Requests that overlap, but never on one purchase order: what a review   *)
(* has loaded is then what it finds.                                       *)
Separate ==
  \A u, v \in Users : u # v /\ seen[u].order # None => seen[u].order # seen[v].order

UpToDate(s) ==
  s.op \in {"submit"} \cup Reviews => s.status # "none" /\ order[s.order].status = s.status

Current == outdated = {} /\ \A u \in Users : UpToDate(seen[u])

(* A step that writes no order but one that is new, or its own.            *)
LEMMA OthersCurrent ==
  ASSUME IInv, Current, Separate, NEW u \in Users, UpToDate(seen[u])',
         \A v \in Users \ {u} : seen'[v] = seen[v],
         \A p \in Orders : \/ order'[p].status = order[p].status
                           \/ order[p].status = "none"
                           \/ p = seen[u].order,
         outdated' = outdated
  PROVE  Current'
<1>1. ASSUME NEW v \in Users \ {u} PROVE UpToDate(seen[v])'
  <2>1. SUFFICES ASSUME seen[v].op \in {"submit"} \cup Reviews
                 PROVE  seen[v].status # "none" /\ order'[seen[v].order].status = seen[v].status
    BY <1>1 DEF UpToDate
  <2>2. seen[v].status # "none" /\ order[seen[v].order].status = seen[v].status
    BY <2>1 DEF Current, UpToDate
  <2>3. seen[v].order \in Orders
    BY <2>1, RequestKnown DEF IInv, Proper, Reviews
  <2>4. seen[v].order # seen[u].order
    BY <2>3, SupplyAssumption DEF Separate
  <2> QED
    BY <2>2, <2>3, <2>4
<1> QED
  BY <1>1 DEF Current

LEMMA PlanningCurrent ==
  ASSUME IInv, Current, seen' = seen, outdated' = outdated,
         \A p \in Orders : order'[p].status = order[p].status \/ order[p].status = "none"
  PROVE  Current'
<1>1. ASSUME NEW v \in Users PROVE UpToDate(seen[v])'
  <2>1. SUFFICES ASSUME seen[v].op \in {"submit"} \cup Reviews
                 PROVE  seen[v].status # "none" /\ order'[seen[v].order].status = seen[v].status
    BY DEF UpToDate
  <2>2. seen[v].status # "none" /\ order[seen[v].order].status = seen[v].status
    BY <2>1 DEF Current, UpToDate
  <2>3. seen[v].order \in Orders
    BY <2>1, RequestKnown DEF IInv, Proper, Reviews
  <2> QED
    BY <2>2, <2>3
<1> QED
  BY <1>1 DEF Current

LEMMA IdleIsCurrent ==
  ASSUME IInv, NEW u \in Users, Finish(u)
  PROVE  UpToDate(seen[u])' /\ \A v \in Users \ {u} : seen'[v] = seen[v]
<1>1. seen' = [seen EXCEPT ![u] = Idle] /\ seen \in [Users -> SeenRow]
  BY DEF Finish, IInv, Requesting
<1>2. seen'[u] = Idle
  BY <1>1
<1> QED
  BY <1>1, <1>2 DEF UpToDate, Idle, Reviews

LEMMA LoadCurrent ==
  ASSUME IInv, Current, Separate, NEW u \in Users, NEW op \in BuyerRequests \cup Reviews,
         NEW o \in Orders, LoadOrder(u, op, o)
  PROVE  Current'
<1> DEFINE status == IF op \in {"place", "cancel"} THEN "none" ELSE order[o].status
           row == [Idle EXCEPT !.op = op, !.order = o, !.status = status]
<1>1. seen' = [seen EXCEPT ![u] = row] /\ seen \in [Users -> SeenRow]
  BY DEF LoadOrder, Idle, IInv, Requesting
<1>2. row.op = op /\ row.order = o /\ row.status = status
  BY DEF Idle
<1>3. order' = order /\ outdated' = outdated /\ order[o].status # "none"
  BY DEF LoadOrder
<1>4. op \in {"submit"} \cup Reviews => status = order[o].status
  BY DEF Reviews
<1> HIDE DEF status, row
<1>5. seen'[u] = row /\ \A v \in Users \ {u} : seen'[v] = seen[v]
  BY <1>1
<1>6. UpToDate(seen[u])'
  BY <1>2, <1>3, <1>4, <1>5 DEF UpToDate
<1> QED
  BY <1>3, <1>5, <1>6, OthersCurrent

LEMMA ReviewCurrent ==
  ASSUME IInv, Current, Separate, NEW u \in Users, Submit(u) \/ Decide(u)
  PROVE  Current'
<1>1. seen[u].op \in {"submit"} \cup Reviews
  BY DEF Submit, Decide, Reviews
<1>2. /\ seen[u].status # "none" /\ order[seen[u].order].status = seen[u].status
      /\ seen[u].order \in Orders
  BY <1>1, RequestKnown DEF Current, UpToDate, IInv, Proper, Reviews
<1>3. PICK approval : SaveApproval(u, approval)
  BY DEF Submit, Decide
<1>4. /\ outdated' = outdated
      /\ \A p \in Orders : order'[p].status = order[p].status
  <2>1. order \in [Orders -> OrderRow]
    BY DEF IInv, Ordering
  <2>2. \A p \in Orders : order'[p].status = IF p = seen[u].order THEN seen[u].status
                                             ELSE order[p].status
    BY <1>2, <1>3, <2>1 DEF SaveApproval, OrderRow
  <2>3. outdated' = outdated
    BY <1>2, <1>3 DEF SaveApproval
  <2> QED
    BY <1>2, <2>2, <2>3
<1>5. CASE Finish(u)
  BY <1>4, <1>5, IdleIsCurrent, OthersCurrent
<1>6. CASE seen' = [seen EXCEPT ![u].op = "approve"]
  <2>1. seen \in [Users -> SeenRow]
    BY DEF IInv, Requesting
  <2>2. /\ seen'[u].order = seen[u].order /\ seen'[u].status = seen[u].status
        /\ \A v \in Users \ {u} : seen'[v] = seen[v]
    BY <1>6, <2>1 DEF SeenRow
  <2>3. UpToDate(seen[u])'
    BY <1>2, <1>4, <2>2 DEF UpToDate
  <2> QED
    BY <1>4, <2>2, <2>3, OthersCurrent
<1> QED
  BY <1>5, <1>6 DEF Submit, Decide

(* Whoever writes an order otherwise is done with it.                      *)
LEMMA WriteCurrent ==
  ASSUME IInv, Current, Separate, NEW u \in Users,
         PlaceOrder(u) \/ CancelOrder(u) \/ StockIn(u)
  PROVE  Current'
<1>1. Finish(u) /\ outdated' = outdated
  BY DEF PlaceOrder, CancelOrder, StockIn
<1>2. ASSUME NEW p \in Orders \ {seen[u].order} PROVE order'[p] = order[p]
  <2>1. order \in [Orders -> OrderRow]
    BY DEF IInv, Ordering
  <2> QED
    BY <2>1 DEF PlaceOrder, CancelOrder, StockIn
<1> QED
  BY <1>1, <1>2, IdleIsCurrent, OthersCurrent

LEMMA ReceiptCurrent ==
  ASSUME IInv, Current, Separate, NEW u \in Users,
         \/ \E o \in Orders, quantity \in Quantities : LoadForReceipt(u, o, quantity)
         \/ \E op \in RecordRequests \ {"receive"}, k \in Records : LoadRecord(u, op, k)
         \/ \E k \in Records : Receive(u, k)
         \/ \E good \in 0..seen[u].receipt.quantity : Inspect(u, good)
         \/ Return(u) \/ Fail(u)
  PROVE  Current'
<1>1. order' = order /\ outdated' = outdated
  BY DEF LoadForReceipt, LoadRecord, Receive, Inspect, Return, Fail
<1>2. CASE Finish(u)
  BY <1>1, <1>2, IdleIsCurrent, OthersCurrent
<1>3. ASSUME NEW row, row.op \in RecordRequests, seen' = [seen EXCEPT ![u] = row]
      PROVE  Current'
  <2>1. seen'[u] = row /\ \A v \in Users \ {u} : seen'[v] = seen[v]
    BY <1>3 DEF IInv, Requesting
  <2>2. UpToDate(seen[u])'
    BY <1>3, <2>1 DEF UpToDate, RecordRequests, Reviews
  <2> QED
    BY <1>1, <2>1, <2>2, OthersCurrent
<1>4. ASSUME NEW o \in Orders, NEW quantity \in Quantities, LoadForReceipt(u, o, quantity)
      PROVE  Current'
  <2> DEFINE row == [Idle EXCEPT !.op = "receive", !.order = o,
                       !.receipt = [NoRecord EXCEPT !.order = o, !.quantity = quantity]]
  <2>1. row.op = "receive" /\ "receive" \in RecordRequests
    BY DEF Idle, RecordRequests
  <2>2. seen' = [seen EXCEPT ![u] = row]
    BY <1>4 DEF LoadForReceipt
  <2> HIDE DEF row
  <2> QED
    BY <1>3, <2>1, <2>2
<1>5. ASSUME NEW op \in RecordRequests \ {"receive"}, NEW k \in Records, LoadRecord(u, op, k)
      PROVE  Current'
  <2> DEFINE goods == IF op = "stock_in" THEN order[record[k].order].received ELSE Idle.received
             bought == IF op = "stock_in" THEN order[record[k].order].plan ELSE Idle.bought
             row == [Idle EXCEPT !.op = op, !.order = record[k].order, !.record = k,
                                 !.receipt = record[k], !.received = goods,
                                 !.bought = bought]
  <2>1. row.op = op
    BY DEF Idle
  <2>2. seen' = [seen EXCEPT ![u] = row]
    BY <1>5 DEF LoadRecord
  <2> HIDE DEF row
  <2> QED
    BY <1>3, <2>1, <2>2
<1> QED
  BY <1>2, <1>4, <1>5 DEF Receive, Inspect, Return, Fail

LEMMA NextCurrent ==
  ASSUME IInv, Current, Separate, [Next]_vars
  PROVE  Current'
<1>1. CASE UNCHANGED vars
  BY <1>1, PlanningCurrent DEF vars
<1>2. CASE Planning
  <2>1. order \in [Orders -> OrderRow] /\ seen' = seen /\ outdated' = outdated
    BY <1>2 DEF IInv, Ordering, Planning, CalculatePlan, ConfirmPlan, InvalidatePlan, ResetPlan,
       DeletePlan, DropPlan, Forget, CutMaterial
  <2>2. ASSUME NEW p \in Orders PROVE order'[p].status = order[p].status
    <3>1. CASE order' = order
      BY <3>1
    <3>2. ASSUME NEW w \in Plans, Forget(w) PROVE order'[p].status = order[p].status
      <4>1. order'[p] = IF order[p].plan = w THEN [order[p] EXCEPT !.plan = None] ELSE order[p]
        BY <3>2 DEF Forget
      <4> QED
        BY <2>1, <4>1 DEF OrderRow
    <3> QED
      BY <1>2, <3>1, <3>2 DEF Planning, CalculatePlan, ConfirmPlan, InvalidatePlan, ResetPlan,
         DeletePlan, DropPlan, CutMaterial
  <2> QED
    BY <2>1, <2>2, PlanningCurrent
<1>3. CASE Purchasing
  <2>1. ASSUME NEW o \in Orders, NEW quantity, NEW w, CreateOrder(o, w, quantity)
        PROVE  Current'
    <3>1. seen' = seen /\ outdated' = outdated /\ order[o].status = "none"
      BY <2>1 DEF CreateOrder
    <3>2. \A p \in Orders \ {o} : order'[p] = order[p]
      BY <2>1 DEF CreateOrder, IInv, Ordering
    <3> QED
      BY <3>1, <3>2, PlanningCurrent
  <2>2. ASSUME NEW u \in Buyers PROVE u \in Users
    BY DEF Users
  <2>3. ASSUME NEW u \in Reviewers PROVE u \in Users
    BY DEF Users
  <2> QED
    BY <1>3, <2>1, <2>2, <2>3, LoadCurrent, ReviewCurrent, WriteCurrent
       DEF Purchasing, CreateForStock, CreateFromWorkOrder
<1>4. CASE Receiving
  <2>1. PICK u \in Users :
          \/ \E o \in Orders, quantity \in Quantities : LoadForReceipt(u, o, quantity)
          \/ \E k \in Records : Receive(u, k)
          \/ \E op \in RecordRequests \ {"receive"}, k \in Records : LoadRecord(u, op, k)
          \/ \E good \in 0..seen[u].receipt.quantity : Inspect(u, good)
          \/ Return(u)
          \/ StockIn(u)
    BY <1>4 DEF Receiving, Users
  <2> QED
    BY <2>1, ReceiptCurrent, WriteCurrent
<1>5. ASSUME NEW u \in Users, Fail(u) PROVE Current'
  BY <1>5, ReceiptCurrent
<1> QED
  BY <1>1, <1>2, <1>3, <1>4, <1>5 DEF Next

LEMMA AlwaysCurrent == Spec /\ []Separate => []Current
<1>1. Init => Current
  BY DEF Init, Current, UpToDate, Idle, Reviews
<1>2. IInv /\ Current /\ Separate /\ [Next]_vars => Current'
  BY NextCurrent
<1> QED
  BY <1>1, <1>2, Inductive, PTL DEF Spec

(* As long as no two requests are under way on one purchase order, a plan  *)
(* whose order is placed is not shown as waiting for one, without          *)
(* exception: a review that overlaps with placing or cancelling the order  *)
(* it reviews (approval_service.py) is all that can break this.            *)
THEOREM SeparatePlacedIsShown ==
  Spec /\ []Separate =>
    [](\A o \in Orders : order[o].status = "ordered" /\ order[o].plan # None
                           => plan[order[o].plan].status # "pending")
<1>1. Current /\ OrderedIsNotPending =>
        \A o \in Orders : order[o].status = "ordered" /\ order[o].plan # None
                            => plan[order[o].plan].status # "pending"
  BY DEF Current, OrderedIsNotPending
<1> QED
  BY <1>1, AlwaysCurrent, PlacedIsShown, PTL

=============================================================================
