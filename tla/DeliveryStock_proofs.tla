------------------------ MODULE DeliveryStock_proofs ------------------------
(***************************************************************************)
(* Proofs about DeliveryStock, for any deliveries, documents, batches,     *)
(* lines of a delivery and users.                                          *)
(***************************************************************************)
EXTENDS DeliveryStock, SumTheorems, SequenceTheorems

-----------------------------------------------------------------------------
(* Lines and what they add up to.                                          *)
SomeLines == Seq(Nat \ {0}) \ {<< >>}

LEMMA TotalOfLines ==
  ASSUME NEW lines \in SomeLines
  PROVE  /\ Total(lines) \in Nat
         /\ Last(lines) \in Nat
         /\ ~ (Len(lines) > 1) => Total(lines) = Last(lines)
<1>1. /\ Len(lines) \in Nat \ {0} /\ DOMAIN lines = 1..Len(lines)
      /\ \A i \in 1..Len(lines) : lines[i] \in Nat
  BY EmptySeq DEF SomeLines
<1>2. IsFiniteSet(1..Len(lines))
  BY <1>1, FS_Interval
<1>3. Total(lines) = SumFunctionOnSet(lines, 1..Len(lines))
  BY <1>1 DEF Total, SumFunction
<1>4. Total(lines) \in Nat
  BY <1>1, <1>2, <1>3, SumIsNat
<1>5. ASSUME Len(lines) = 1 PROVE Total(lines) = lines[Len(lines)]
  <2>1. 1..Len(lines) = {1} /\ {1} \ {1} = {}
    BY <1>5
  <2>2. SumFunctionOnSet(lines, {1}) = lines[1] + SumFunctionOnSet(lines, {1} \ {1})
    <3>1. \A x \in {1} : lines[x] \in Int
      BY <1>1, <1>5
    <3>2. IsFiniteSet({1})
      BY FS_Singleton
    <3> QED
      BY <3>1, <3>2, SumTakeOut
  <2>3. SumFunctionOnSet(lines, {}) = 0
    BY SumEmpty
  <2>4. lines[1] \in Nat
    BY <1>1, <1>5
  <2>5. SumFunctionOnSet(lines, {1} \ {1}) = 0
    BY <2>1, <2>3, Zenon
  <2>6. Total(lines) = SumFunctionOnSet(lines, {1})
    BY <1>3, <2>1, Zenon
  <2> QED
    BY <1>5, <2>2, <2>4, <2>5, <2>6
<1>6. ~ (Len(lines) > 1) => Len(lines) = 1
  BY <1>1
<1>7. Last(lines) = lines[Len(lines)] /\ lines[Len(lines)] \in Nat
  BY <1>1 DEF Last
<1> QED
  BY <1>4, <1>5, <1>6, <1>7

-----------------------------------------------------------------------------
(* The shelf.                                                              *)
Shelves == [Batches -> BatchRow]
Quantity(rows) == [b \in Batches |-> rows[b].quantity]
Stock(rows) == SumFunctionOnSet(Quantity(rows), Batches)

LEMMA FirstCounted ==
  /\ IsFiniteSet(ToSet(FirstBatches))
  /\ Cardinality(ToSet(FirstBatches)) = Len(FirstBatches)
<1> DEFINE S == ToSet(FirstBatches)
           n == Len(FirstBatches)
<1>1. n \in Nat /\ FirstBatches \in [1..n -> S] /\ IsInjective(FirstBatches)
  BY DeliveryAssumption, LenProperties
<1>2. \A b \in S : \E i \in 1..n : FirstBatches[i] = b
  BY <1>1 DEF ToSet
<1>3. FirstBatches \in Bijection(1..n, S)
  BY <1>1, <1>2 DEF Bijection, Injection, Surjection
<1>4. ExistsBijection(1..n, S)
  BY <1>3 DEF ExistsBijection
<1> QED
  BY <1>1, <1>4, FS_NatBijection, FS_CountingElements

LEMMA BatchesFinite == IsFiniteSet(Batches)
<1>1. IsFiniteSet(ToSet(FirstBatches) \cup Ins)
  BY FirstCounted, FS_Union, DeliveryAssumption
<1> QED
  BY <1>1, FS_Union, DeliveryAssumption DEF Batches

LEMMA RowKnown ==
  ASSUME NEW rows \in Shelves, NEW b \in Batches
  PROVE  /\ rows[b].status \in {"absent", "in_stock", "quality_check"}
         /\ rows[b].quantity \in Nat /\ Quantity(rows)[b] = rows[b].quantity
  BY DEF Shelves, BatchRow, Quantity

LEMMA RowIs ==
  ASSUME NEW rows \in Shelves, NEW b \in Batches
  PROVE  rows[b] = [status |-> rows[b].status, quantity |-> rows[b].quantity]
  BY DEF Shelves, BatchRow

LEMMA StockIsNat == \A rows \in Shelves : Stock(rows) \in Nat
<1>1. SUFFICES ASSUME NEW rows \in Shelves PROVE Stock(rows) \in Nat
  OBVIOUS
<1>2. \A b \in Batches : Quantity(rows)[b] \in Nat
  BY RowKnown
<1> QED
  BY <1>2, BatchesFinite, SumIsNat DEF Stock

LEMMA StockChange ==
  ASSUME NEW rows \in Shelves, NEW after \in Shelves, NEW b \in Batches,
         \A c \in Batches \ {b} : after[c].quantity = rows[c].quantity
  PROVE  Stock(after) = Stock(rows) + (after[b].quantity - rows[b].quantity)
<1>1. ASSUME NEW c \in Batches
      PROVE  /\ Quantity(rows)[c] \in Int /\ Quantity(after)[c] \in Int
             /\ Quantity(rows)[c] = rows[c].quantity
             /\ Quantity(after)[c] = after[c].quantity
  BY RowKnown
<1>2. \A c \in Batches \ {b} : Quantity(rows)[c] = Quantity(after)[c]
  BY <1>1
<1>3. Stock(after) = Stock(rows) + (Quantity(after)[b] - Quantity(rows)[b])
  BY <1>1, <1>2, BatchesFinite, SumChange DEF Stock
<1> QED
  BY <1>1, <1>3

LEMMA StockSame ==
  ASSUME NEW rows, NEW after, \A c \in Batches : after[c].quantity = rows[c].quantity
  PROVE  Stock(after) = Stock(rows)
<1>1. \A c \in Batches : Quantity(rows)[c] = Quantity(after)[c]
  BY DEF Quantity
<1> QED
  BY <1>1, BatchesFinite, SumSame DEF Stock

-----------------------------------------------------------------------------
(* What was taken from the batches and what could not be had make up what  *)
(* was wanted; only batches in stock have changed.                         *)
Taken(rows, wanted) ==
    {acc \in [left : 0..wanted, rows : Shelves] :
        /\ Stock(acc.rows) + wanted = Stock(rows) + acc.left
        /\ \A b \in Batches :
             /\ acc.rows[b].status = rows[b].status
             /\ acc.rows[b] # rows[b] => rows[b].status = "in_stock"}

LEMMA TakesWell ==
  ASSUME NEW rows \in Shelves, NEW wanted \in Nat, NEW acc \in Taken(rows, wanted),
         NEW b \in Batches, NEW batches
  PROVE  Take(batches, acc, b) \in Taken(rows, wanted)
<1> DEFINE row == acc.rows[b]
           taken == IF row.status = "in_stock" /\ b \in batches
                      THEN Min({acc.left, row.quantity}) ELSE 0
           after == [acc.rows EXCEPT ![b].quantity = @ - taken]
<1>1. /\ acc.left \in 0..wanted /\ acc.rows \in Shelves
      /\ Stock(acc.rows) + wanted = Stock(rows) + acc.left
      /\ \A c \in Batches : /\ acc.rows[c].status = rows[c].status
                            /\ acc.rows[c] # rows[c] => rows[c].status = "in_stock"
  BY DEF Taken
<1>2. acc.left \in Nat /\ row.quantity \in Nat
  <2> HIDE DEF taken, after
  <2>1. row.quantity \in Nat
    BY <1>1, RowKnown
  <2> QED
    BY <1>1, <2>1
<1>3. taken \in Nat /\ taken <= acc.left /\ taken <= row.quantity
  <2>1. Min({acc.left, row.quantity}) = IF acc.left <= row.quantity THEN acc.left ELSE row.quantity
    BY <1>2, MinOfTwo
  <2> QED
    BY <1>2, <2>1
<1>4. taken # 0 => row.status = "in_stock"
  OBVIOUS
<1>5. Take(batches, acc, b) = [left |-> acc.left - taken, rows |-> after]
  BY DEF Take
<1> HIDE DEF taken
<1>6. /\ after \in Shelves
      /\ after[b].quantity = row.quantity - taken /\ after[b].status = row.status
      /\ \A c \in Batches \ {b} : after[c] = acc.rows[c]
  BY <1>1, <1>2, <1>3 DEF Shelves, BatchRow
<1>7. taken = 0 => after[b] = acc.rows[b]
  <2> HIDE DEF after
  <2>1. acc.rows[b] = [status |-> row.status, quantity |-> row.quantity]
    BY <1>1, RowIs
  <2>2. after[b] = [status |-> after[b].status, quantity |-> after[b].quantity]
    BY <1>6, RowIs
  <2> QED
    BY <1>2, <1>6, <2>1, <2>2
<1> HIDE DEF after
<1>8. Stock(after) = Stock(acc.rows) + (after[b].quantity - row.quantity)
  BY <1>1, <1>6, StockChange
<1>9. Stock(after) + wanted = Stock(rows) + (acc.left - taken)
  <2>1. Stock(after) \in Nat /\ Stock(acc.rows) \in Nat /\ Stock(rows) \in Nat
    BY <1>1, <1>6, StockIsNat
  <2> QED
    BY <1>1, <1>2, <1>3, <1>6, <1>8, <2>1
<1>10. acc.left - taken \in 0..wanted
  BY <1>1, <1>3
<1>11. \A c \in Batches : /\ after[c].status = rows[c].status
                         /\ after[c] # rows[c] => rows[c].status = "in_stock"
  BY <1>1, <1>4, <1>6, <1>7
<1> QED
  BY <1>5, <1>6, <1>9, <1>10, <1>11 DEF Taken

(* The tables the loop goes through: fold[s] is the one it leaves when it  *)
(* has been at the positions s of the shelf.                               *)
Takes(rows, wanted, batches, queued, fold) ==
    \A s \in SUBSET (1..Len(queued)) :
        fold[s] = IF s = {} THEN [left |-> wanted, rows |-> rows]
                  ELSE Take(batches, fold[s \ {Max(s)}], queued[Max(s)])

LEMMA TakenSteps ==
  ASSUME NEW rows \in Shelves, NEW wanted \in Nat, NEW batches, shelf \in Seq(Batches)
  PROVE  \E fold : /\ TakeOldest(rows, wanted, batches) = fold[1..Len(shelf)]
                   /\ Takes(rows, wanted, batches, shelf, fold)
                   /\ \A s \in SUBSET (1..Len(shelf)) : fold[s] \in Taken(rows, wanted)
<1> DEFINE queued == shelf
           n == Len(queued)
           D == 1..n
           A == Taken(rows, wanted)
           base == [left |-> wanted, rows |-> rows]
           pick == [s \in SUBSET D |-> Max(s)]
           next == [p \in A \X D |-> Take(batches, p[1], queued[p[2]])]
           Is(g) == g = [s \in SUBSET D |->
                           IF s = {} THEN base
                           ELSE Take(batches, g[s \ {Max(s)}], queued[Max(s)])]
<1>1. n \in Nat /\ DOMAIN queued = D /\ IsFiniteSet(D)
  BY FS_Interval
<1>2. \A i \in D : queued[i] \in Batches
  BY <1>1
<1> HIDE DEF queued
<1>3. base \in A
  <2>1. wanted \in 0..wanted
    OBVIOUS
  <2> QED
    BY <2>1 DEF Taken
<1>4. \A s \in SUBSET D : s # {} => Max(s) \in s
  BY <1>1, Greatest DEF Max
<1>5. \A a \in A, i \in D : Take(batches, a, queued[i]) \in A
  BY <1>2, TakesWell
<1>6. \E g : Is(g)
  <2>1. \A s \in SUBSET D : s # {} => pick[s] \in s
    BY <1>4
  <2> HIDE DEF pick, next, base
  <2>2. PICK g : Folds(base, pick, next, D, g)
    <3>1. D \in SUBSET D
      OBVIOUS
    <3> HIDE DEF D
    <3> QED
      BY <1>1, <2>1, <3>1, FoldsExist
  <2> DEFINE Q == {s \in SUBSET D : g[s] \in A}
  <2>3. \A s \in SUBSET D : g[s] = IF s = {} THEN base
                                   ELSE next[<<g[s \ {pick[s]}], pick[s]>>]
    BY <2>2 DEF Folds, FoldStep
  <2>4. ASSUME NEW s \in SUBSET D, s # {}, g[s \ {pick[s]}] \in A
        PROVE  g[s] = Take(batches, g[s \ {Max(s)}], queued[Max(s)]) /\ g[s] \in A
    <3>1. pick[s] = Max(s) /\ Max(s) \in D
      BY <1>4, <2>4 DEF pick
    <3>2. next[<<g[s \ {Max(s)}], Max(s)>>] = Take(batches, g[s \ {Max(s)}], queued[Max(s)])
      <4> HIDE DEF A, D
      <4> QED
        BY <2>4, <3>1 DEF next
    <3> QED
      BY <1>5, <2>3, <2>4, <3>1, <3>2
  <2>5. ASSUME NEW s \in SUBSET D, \A u \in SUBSET s : u # s => u \in Q
        PROVE  s \in Q
    <3>1. CASE s = {}
      BY <1>3, <2>3, <3>1
    <3>2. CASE s # {}
      <4>1. s \ {pick[s]} \in Q
        BY <2>1, <2>5, <3>2
      <4> QED
        BY <2>4, <3>2, <4>1
    <3> QED
      BY <3>1, <3>2
  <2>6. \A s \in SUBSET D : s \in Q
    <3> HIDE DEF Q, D
    <3> QED
      BY <1>1, <2>5, SubsetInduction
  <2>7. \A s \in SUBSET D : g[s] = IF s = {} THEN base
                   ELSE Take(batches, g[s \ {Max(s)}], queued[Max(s)])
    <3>1. ASSUME NEW s \in SUBSET D, s # {}
          PROVE  g[s] = Take(batches, g[s \ {Max(s)}], queued[Max(s)])
      <4>1. s \ {pick[s]} \in SUBSET D
        OBVIOUS
      <4>2. g[s \ {pick[s]}] \in A
        BY <2>6, <4>1
      <4> QED
        BY <2>4, <3>1, <4>2
    <3>2. g[{}] = base
      BY <2>3
    <3> HIDE DEF D
    <3> QED
      BY <3>1, <3>2
  <2>8. g = [s \in SUBSET D |-> g[s]]
    BY <2>2 DEF Folds
  <2>9. Is(g)
    <3> HIDE DEF D
    <3> QED
      BY <2>7, <2>8
  <2> HIDE DEF Is
  <2> QED
    BY <2>9
<1> DEFINE fold == CHOOSE g : Is(g)
<1>7. Is(fold)
  <2> HIDE DEF Is
  <2> QED
    BY <1>6
<1>8. FoldLeft(LAMBDA acc, b : Take(batches, acc, b), base, queued) = fold[D]
  <2> HIDE DEF base
  <2> QED
    BY <1>1 DEF FoldLeft, MapThenFoldSet
<1>9. TakeOldest(rows, wanted, batches) = fold[D]
  BY <1>8 DEF TakeOldest, queued
<1>10. \A s \in SUBSET D : fold[s] \in A
  <2> DEFINE Q == {s \in SUBSET D : fold[s] \in A}
  <2> HIDE DEF fold, base
  <2>1. \A s \in SUBSET D : fold[s] = IF s = {} THEN base
                   ELSE Take(batches, fold[s \ {Max(s)}], queued[Max(s)])
    BY <1>7
  <2>2. ASSUME NEW s \in SUBSET D, \A u \in SUBSET s : u # s => u \in Q
        PROVE  s \in Q
    <3>1. CASE s = {}
      BY <1>3, <2>1, <3>1
    <3>2. CASE s # {}
      <4>1. Max(s) \in s /\ s \ {Max(s)} \in Q
        BY <1>4, <2>2, <3>2
      <4> QED
        BY <1>5, <2>1, <3>2, <4>1
    <3> QED
      BY <3>1, <3>2
  <2>3. \A s \in SUBSET D : s \in Q
    <3> HIDE DEF Q, D
    <3> QED
      BY <1>1, <2>2, SubsetInduction
  <2> QED
    BY <2>3
<1>11. Takes(rows, wanted, batches, shelf, fold)
  <2> HIDE DEF fold
  <2>1. \A s \in SUBSET D : fold[s] = IF s = {} THEN base
                   ELSE Take(batches, fold[s \ {Max(s)}], queued[Max(s)])
    BY <1>7
  <2> QED
    BY <2>1 DEF Takes, queued
<1> HIDE DEF fold
<1> QED
  BY <1>9, <1>10, <1>11 DEF queued

LEMMA TakenWell ==
  ASSUME NEW rows \in Shelves, NEW wanted \in Nat, NEW batches, shelf \in Seq(Batches)
  PROVE  TakeOldest(rows, wanted, batches) \in Taken(rows, wanted)
<1> DEFINE D == 1..Len(shelf)
<1>1. PICK fold : /\ TakeOldest(rows, wanted, batches) = fold[D]
                  /\ \A s \in SUBSET D : fold[s] \in Taken(rows, wanted)
  BY TakenSteps
<1>2. D \in SUBSET D
  OBVIOUS
<1> HIDE DEF D
<1> QED
  BY <1>1, <1>2

(* A batch that may be taken from is emptied while something is missing.   *)
LEMMA TakenOne ==
  ASSUME NEW rows \in Shelves, NEW wanted \in Nat, NEW acc \in Taken(rows, wanted),
         NEW b \in Batches, NEW batches
  PROVE  LET after == Take(batches, acc, b)
             open == b \in batches /\ rows[b].status = "in_stock"
         IN /\ \A c \in Batches \ {b} : after.rows[c] = acc.rows[c]
            /\ after.left \in Nat /\ after.left <= acc.left
            /\ after.left > 0 /\ open => after.rows[b].quantity = 0
            /\ after.rows[b].quantity # acc.rows[b].quantity => acc.left > 0 /\ open
<1> DEFINE row == acc.rows[b]
           open == b \in batches /\ rows[b].status = "in_stock"
           taken == IF row.status = "in_stock" /\ b \in batches
                      THEN Min({acc.left, row.quantity}) ELSE 0
           after == Take(batches, acc, b)
<1>1. /\ acc.left \in Nat /\ acc.rows \in Shelves /\ row.quantity \in Nat
      /\ row.status = rows[b].status
  <2>1. acc.left \in Nat /\ acc.rows \in Shelves /\ acc.rows[b].status = rows[b].status
    BY DEF Taken
  <2> QED
    BY <2>1, RowKnown
<1>2. taken = IF open THEN IF acc.left <= row.quantity THEN acc.left ELSE row.quantity
              ELSE 0
  <2>1. Min({acc.left, row.quantity}) = IF acc.left <= row.quantity THEN acc.left ELSE row.quantity
    BY <1>1, MinOfTwo
  <2> QED
    BY <1>1, <2>1
<1>3. /\ after.left = acc.left - taken
      /\ after.rows[b].quantity = row.quantity - taken
      /\ \A c \in Batches \ {b} : after.rows[c] = acc.rows[c]
  <2>1. after.left = acc.left - taken
    BY DEF Take
  <2>2. after.rows = [acc.rows EXCEPT ![b].quantity = @ - taken]
    BY DEF Take
  <2> HIDE DEF after, taken
  <2> QED
    BY <1>1, <2>1, <2>2 DEF Shelves, BatchRow
<1> HIDE DEF after, taken, open, row
<1>4. /\ after.left \in Nat /\ after.left <= acc.left
      /\ after.left > 0 /\ open => after.rows[b].quantity = 0
      /\ after.rows[b].quantity # row.quantity => acc.left > 0 /\ open
  BY <1>1, <1>2, <1>3
<1> QED
  BY <1>3, <1>4 DEF open, after, row

LEMMA TakenOldest ==
  ASSUME NEW rows \in Shelves, NEW wanted \in Nat, NEW batches,
         shelf \in Seq(Batches), IsInjective(shelf)
  PROVE  TakesOldest(rows, TakeOldest(rows, wanted, batches).rows, batches)
<1> DEFINE D == 1..Len(shelf)
<1>1. PICK fold : /\ TakeOldest(rows, wanted, batches) = fold[D]
                  /\ Takes(rows, wanted, batches, shelf, fold)
                  /\ \A s \in SUBSET D : fold[s] \in Taken(rows, wanted)
  BY TakenSteps
<1>2. /\ DOMAIN shelf = D /\ IsFiniteSet(D)
      /\ \A i \in D : shelf[i] \in Batches
      /\ \A i, j \in D : shelf[i] = shelf[j] => i = j
      /\ \A s \in SUBSET D : s # {} => Max(s) \in s /\ \A i \in s : i <= Max(s)
  <2>1. Len(shelf) \in Nat /\ DOMAIN shelf = D /\ IsFiniteSet(D)
    BY FS_Interval
  <2>2. \A i \in D : shelf[i] \in Batches
    BY <2>1
  <2>3. \A i, j \in D : shelf[i] = shelf[j] => i = j
    BY <2>1 DEF IsInjective
  <2>4. \A s \in SUBSET D : s # {} => Max(s) \in s /\ \A i \in s : i <= Max(s)
    BY <2>1, Greatest DEF Max
  <2> QED
    BY <2>1, <2>2, <2>3, <2>4
<1> DEFINE Open(i) == shelf[i] \in batches /\ rows[shelf[i]].status = "in_stock"
           Empty(s, i) == Open(i) => fold[s].rows[shelf[i]].quantity = 0
           Less(s, i) == fold[s].rows[shelf[i]].quantity # rows[shelf[i]].quantity
           Fair(s) == /\ \A i \in D \ s : fold[s].rows[shelf[i]] = rows[shelf[i]]
                      /\ \A i \in s : fold[s].left > 0 => Empty(s, i)
                      /\ \A j \in s : Less(s, j) =>
                           Open(j) /\ \A i \in s : i < j => Empty(s, i)
           Q == {s \in SUBSET D : Fair(s)}
<1>3. Fair({})
  <2>1. fold[{}] = [left |-> wanted, rows |-> rows]
    BY <1>1 DEF Takes
  <2>2. fold[{}].rows = rows
    BY <2>1
  <2> QED
    BY <2>2
<1>4. ASSUME NEW s \in SUBSET D, s # {}, Fair(s \ {Max(s)})
      PROVE  Fair(s)
  <2> DEFINE m == Max(s)
             t == s \ {m}
             b == shelf[m]
  <2>1. m \in s /\ \A i \in s : i <= m
    BY <1>2, <1>4
  <2>2. t \in SUBSET D /\ m \in D /\ m \notin t /\ b \in Batches
    BY <1>2, <2>1
  <2>3. fold[s] = Take(batches, fold[t], b) /\ fold[t] \in Taken(rows, wanted)
    BY <1>1, <1>4, <2>2 DEF Takes
  <2> HIDE DEF m, t, b, Fair, D
  <2>4. /\ \A c \in Batches \ {b} : fold[s].rows[c] = fold[t].rows[c]
        /\ fold[s].left \in Nat /\ fold[t].left \in Nat /\ fold[s].left <= fold[t].left
        /\ fold[s].left > 0 /\ b \in batches /\ rows[b].status = "in_stock"
             => fold[s].rows[b].quantity = 0
        /\ fold[s].rows[b].quantity # fold[t].rows[b].quantity =>
             fold[t].left > 0 /\ b \in batches /\ rows[b].status = "in_stock"
    <3>1. fold[t].left \in Nat
      BY <2>3 DEF Taken
    <3> QED
      BY <2>2, <2>3, <3>1, TakenOne
  <2>5. \A i \in D \ {m} : fold[s].rows[shelf[i]] = fold[t].rows[shelf[i]]
    <3>1. \A i \in D \ {m} : shelf[i] \in Batches \ {b}
      BY <1>2, <2>2 DEF b
    <3> QED
      BY <2>4, <3>1
  <2>6. \A i \in D \ {m} : (Empty(s, i) <=> Empty(t, i)) /\ (Less(s, i) <=> Less(t, i))
    BY <2>5
  <2>7. /\ fold[s].left > 0 => Empty(s, m)
        /\ Less(s, m) => fold[t].left > 0 /\ Open(m)
    <3>1. fold[t].rows[b] = rows[b]
      BY <1>4, <2>2 DEF Fair, m, t, b
    <3> QED
      BY <2>4, <3>1 DEF b
  <2>8. s = t \cup {m} /\ s \subseteq D
    BY <2>1 DEF t
  <2> HIDE DEF Empty, Less, Open
  <2>9. Fair(t)
    BY <1>4 DEF t, m
  <2>10. \A i \in D \ s : fold[s].rows[shelf[i]] = rows[shelf[i]]
    BY <2>5, <2>8, <2>9 DEF Fair
  <2>11. ASSUME NEW i \in s, fold[s].left > 0 PROVE Empty(s, i)
    <3>1. fold[t].left > 0
      BY <2>4, <2>11
    <3>2. ASSUME i # m PROVE Empty(s, i)
      <4>1. i \in t /\ i \in D \ {m}
        BY <2>8, <3>2
      <4> QED
        BY <2>6, <2>9, <3>1, <4>1 DEF Fair
    <3> QED
      BY <2>7, <2>11, <3>2
  <2>12. ASSUME NEW j \in s, Less(s, j)
         PROVE  Open(j) /\ \A i \in s : i < j => Empty(s, i)
    <3>1. ASSUME NEW i \in s, i < j PROVE i \in t /\ i \in D \ {m}
      <4>1. s \subseteq Int
        BY <2>8 DEF D
      <4>2. i # m
        BY <2>1, <3>1, <4>1
      <4> QED
        BY <2>8, <4>2
    <3>2. CASE j = m
      <4>1. Open(j) /\ fold[t].left > 0
        BY <2>7, <2>12, <3>2
      <4>2. ASSUME NEW i \in s, i < j PROVE Empty(s, i)
        BY <2>6, <2>9, <3>1, <4>1, <4>2 DEF Fair
      <4> QED
        BY <4>1, <4>2
    <3>3. CASE j # m
      <4>1. j \in t /\ j \in D \ {m} /\ Less(t, j)
        BY <2>6, <2>8, <2>12, <3>3
      <4>2. Open(j) /\ \A i \in t : i < j => Empty(t, i)
        BY <2>9, <4>1 DEF Fair
      <4>3. ASSUME NEW i \in s, i < j PROVE Empty(s, i)
        BY <2>6, <3>1, <4>2, <4>3
      <4> QED
        BY <4>2, <4>3
    <3> QED
      BY <3>2, <3>3
  <2> QED
    BY <2>10, <2>11, <2>12 DEF Fair
<1> HIDE DEF Fair
<1>5. ASSUME NEW s \in SUBSET D, \A u \in SUBSET s : u # s => u \in Q
      PROVE  s \in Q
  <2>1. CASE s = {}
    BY <1>3, <2>1
  <2>2. CASE s # {}
    <3>1. Max(s) \in s
      BY <1>2, <2>2
    <3>2. s \ {Max(s)} \in Q
      BY <1>5, <3>1
    <3> QED
      BY <1>4, <2>2, <3>2
  <2> QED
    BY <2>1, <2>2
<1>6. \A s \in SUBSET D : s \in Q
  <2> HIDE DEF Q, D
  <2> QED
    BY <1>2, <1>5, SubsetInduction
<1>7. Fair(D)
  BY <1>6
<1>8. fold[D].rows \in Shelves
  BY <1>1 DEF Taken
<1>9. ASSUME NEW j \in D, fold[D].rows[shelf[j]].quantity < rows[shelf[j]].quantity
      PROVE  Open(j) /\ \A i \in 1..(j - 1) : Open(i) => fold[D].rows[shelf[i]].quantity = 0
  <2>1. Less(D, j)
    <3>1. fold[D].rows[shelf[j]].quantity \in Nat /\ rows[shelf[j]].quantity \in Nat
      BY <1>2, <1>8, RowKnown
    <3> QED
      BY <1>9, <3>1
  <2>2. Open(j) /\ \A i \in D : i < j => Empty(D, i)
    <3> HIDE DEF Empty, Less, Open
    <3> QED
      BY <1>7, <2>1 DEF Fair
  <2>3. \A i \in 1..(j - 1) : i \in D /\ i < j
    OBVIOUS
  <2> QED
    BY <2>2, <2>3
<1> QED
  BY <1>1, <1>2, <1>9 DEF TakesOldest

-----------------------------------------------------------------------------
(* What was sent: a delivery counts with the sum of its lines while it is  *)
(* with the customer.                                                      *)
With == {"shipped", "received"}
Sendings == {rows \in [Deliveries -> DeliveryRow] :
               \A d \in Deliveries :
                  \/ rows[d] = NoDelivery
                  \/ rows[d].status # "none" /\ rows[d].load.lines \in SomeLines}

Load(rows) == [d \in Deliveries |-> Total(rows[d].load.lines)]
WithCustomer(rows) == {d \in Deliveries : rows[d].status \in With}
SentOf(rows) == SumFunctionOnSet(Load(rows), WithCustomer(rows))
Part(rows, d) == IF rows[d].status \in With THEN Total(rows[d].load.lines) ELSE 0

LEMMA LoadKnown ==
  ASSUME NEW rows \in Sendings, NEW d \in Deliveries, rows[d].status # "none"
  PROVE  /\ rows[d].load.lines \in SomeLines /\ Load(rows)[d] = Total(rows[d].load.lines)
         /\ Total(rows[d].load.lines) \in Nat
<1>1. rows[d].load.lines \in SomeLines
  BY DEF Sendings, NoDelivery
<1> QED
  BY <1>1, TotalOfLines DEF Load

LEMMA SentIsNat == \A rows \in Sendings : SentOf(rows) \in Nat
<1>1. SUFFICES ASSUME NEW rows \in Sendings PROVE SentOf(rows) \in Nat
  OBVIOUS
<1> DEFINE S == WithCustomer(rows)
<1>2. IsFiniteSet(S)
  <2>1. S \subseteq Deliveries
    BY DEF WithCustomer
  <2> QED
    BY <2>1, FS_Subset, DeliveryAssumption
<1>3. \A d \in S : Load(rows)[d] \in Nat
  <2>1. \A d \in S : d \in Deliveries /\ rows[d].status # "none"
    BY DEF WithCustomer, With
  <2> QED
    BY <2>1, LoadKnown
<1> QED
  BY <1>2, <1>3, SumIsNat DEF SentOf

LEMMA SentSplit ==
  ASSUME NEW rows \in Sendings, NEW d \in Deliveries
  PROVE  LET rest == SumFunctionOnSet(Load(rows), WithCustomer(rows) \ {d})
         IN /\ SentOf(rows) = Part(rows, d) + rest
            /\ rest \in Nat /\ Part(rows, d) \in Nat /\ SentOf(rows) \in Nat
<1> DEFINE S == WithCustomer(rows)
           rest == SumFunctionOnSet(Load(rows), S \ {d})
<1>1. IsFiniteSet(S) /\ IsFiniteSet(S \ {d})
  <2>1. S \subseteq Deliveries /\ S \ {d} \subseteq Deliveries
    BY DEF WithCustomer
  <2> QED
    BY <2>1, FS_Subset, DeliveryAssumption
<1>2. ASSUME NEW e \in S PROVE Load(rows)[e] \in Nat /\ Load(rows)[e] \in Int
  <2>1. e \in Deliveries /\ rows[e].status # "none"
    BY DEF WithCustomer, With
  <2>2. Load(rows)[e] \in Nat
    BY <2>1, LoadKnown
  <2> QED
    BY <2>2
<1>3. rest \in Nat
  BY <1>1, <1>2, SumIsNat
<1>4. CASE d \in S
  <2>1. Part(rows, d) = Load(rows)[d]
    BY <1>4 DEF Part, Load, WithCustomer
  <2>2. SumFunctionOnSet(Load(rows), S) = Load(rows)[d] + rest
    BY <1>1, <1>2, <1>4, SumTakeOut
  <2>3. Load(rows)[d] \in Nat
    BY <1>2, <1>4
  <2> HIDE DEF rest, S
  <2>4. SentOf(rows) = SumFunctionOnSet(Load(rows), S)
    BY DEF SentOf, S
  <2>5. SentOf(rows) = Part(rows, d) + rest /\ SentOf(rows) \in Nat /\ Part(rows, d) \in Nat
    BY <1>3, <2>1, <2>2, <2>3, <2>4
  <2> QED
    BY <1>3, <2>5 DEF rest, S
<1>5. CASE d \notin S
  <2>1. Part(rows, d) = 0
    BY <1>5 DEF Part, WithCustomer
  <2>2. S \ {d} = S
    BY <1>5
  <2>3. SentOf(rows) = rest
    BY <2>2 DEF SentOf
  <2> HIDE DEF rest
  <2>4. SentOf(rows) = Part(rows, d) + rest /\ SentOf(rows) \in Nat /\ Part(rows, d) \in Nat
    BY <1>3, <2>1, <2>3
  <2> QED
    BY <1>3, <2>4 DEF rest
<1> QED
  BY <1>4, <1>5

(* One delivery changes.                                                   *)
LEMMA SentChange ==
  ASSUME NEW rows \in Sendings, NEW after \in Sendings, NEW d \in Deliveries,
         \A e \in Deliveries \ {d} : after[e] = rows[e]
  PROVE  /\ SentOf(after) + Part(rows, d) = SentOf(rows) + Part(after, d)
         /\ SentOf(rows) \in Nat /\ SentOf(after) \in Nat
         /\ Part(rows, d) \in Nat /\ Part(after, d) \in Nat
         /\ Part(rows, d) <= SentOf(rows)
<1> DEFINE S == WithCustomer(rows) \ {d}
           T == WithCustomer(after) \ {d}
           rest == SumFunctionOnSet(Load(rows), S)
           left == SumFunctionOnSet(Load(after), T)
<1>1. S = T
  BY DEF WithCustomer
<1>2. IsFiniteSet(S)
  <2>1. S \subseteq Deliveries
    BY DEF WithCustomer
  <2> QED
    BY <2>1, FS_Subset, DeliveryAssumption
<1>3. \A e \in S : Load(rows)[e] = Load(after)[e]
  BY DEF WithCustomer, Load
<1>4. rest = left
  <2>1. SumFunctionOnSet(Load(rows), S) = SumFunctionOnSet(Load(after), S)
    BY <1>2, <1>3, SumSame
  <2> QED
    BY <1>1, <2>1
<1>5. SentOf(rows) = Part(rows, d) + rest /\ rest \in Nat /\ Part(rows, d) \in Nat
  BY SentSplit
<1>6. SentOf(after) = Part(after, d) + left /\ left \in Nat /\ Part(after, d) \in Nat
  BY SentSplit
<1> HIDE DEF rest, left
<1> QED
  BY <1>4, <1>5, <1>6

-----------------------------------------------------------------------------
(* The inductive invariant, in four parts.                                 *)
Shelving ==
    /\ shelf \in Seq(Batches) /\ IsInjective(shelf)
    /\ ToSet(shelf) = {b \in Batches : batch[b].status # "absent"}
    /\ batch \in Shelves
    /\ \A b \in Batches : batch[b].status = "absent" => batch[b].quantity = 0
    /\ entered = {i \in Ins : batch[i].status # "absent"}

Documented ==
    /\ delivery \in Sendings
    /\ delivered \in Nat
    /\ sales \in SalesRow /\ works \in WorkStates
    /\ out \in [Outs -> OutRow] /\ intake \in [Ins -> InStatuses]
    /\ \A o \in Outs : out[o].status # "none" =>
          out[o].delivery \in Deliveries /\ delivery[out[o].delivery].status # "none"
    /\ stale \subseteq Kinds /\ adjusted \in Int

(* A request has a row which exists, and has seen no batch that does not.  *)
(* What it is about to write was computed from what it has read: only      *)
(* batches in stock give goods, only one batch receives them.              *)
Statuses == {"none", "pending", "shipped", "received", "rejected", "draft", "submitted",
             "completed"} \cup SalesStatuses
RequestRow == [op : {"idle", "adjust"} \cup DeliveryRequests \cup OutRequests
                      \cup InRequests \cup SalesRequests,
               at : {"idle", "loaded", "looked", "holding"},
               key : Deliveries \cup Outs \cup Ins \cup Batches \cup {None},
               status : Statuses, sales : SalesRow, batches : Shelves, item : Nat,
               rows : Shelves]

Admitted(r) ==
    /\ r.op = "ship" => r.status = "pending"
    /\ r.op \in {"receive", "reject"} => r.status = "shipped"
    /\ r.op = "resolve" => r.status = "rejected"
    /\ r.op = "complete" => r.sales.status # "cancelled"
    /\ r.op \in DeliveryRequests => r.key \in Deliveries
    /\ r.op \in OutRequests => r.key \in Outs
    /\ r.op \in InRequests => r.key \in Ins
    /\ r.op = "adjust" => r.key \in Batches /\ r.batches[r.key].status # "absent"

Updated(r, total) ==
    /\ r.op = "ship" => Stock(r.rows) + total = Stock(r.batches)
    /\ r.op = "reject" => Stock(r.rows) = Stock(r.batches) + total
    /\ \A b \in Changed(r.batches, r.rows) :
          /\ r.rows[b].status # "absent"
          /\ r.batches[b].status # "absent" \/ (r.op = "reject" /\ b = r.key)

Proper(r, sent, written, rows) ==
    /\ Admitted(r)
    /\ r.op \in DeliveryRequests => sent[r.key].status # "none"
    /\ r.op \in OutRequests => written[r.key].status # "none"
    /\ r.at = "holding" => /\ r.op \in {"ship", "reject"}
                           /\ Updated(r, Total(sent[r.key].load.lines))
    /\ \A b \in Batches : r.batches[b].status # "absent" => rows[b].status # "absent"

Requesting ==
    /\ req \in [Users -> RequestRow]
    /\ \A u \in Users : Proper(req[u], delivery, out, batch)

Balance ==
    /\ stale \cap {"batch", "delivery"} = {} =>
          Stock(batch) + SentOf(delivery) =
            Len(FirstBatches) * InitialQuantity + Produced * Cardinality(entered) + adjusted
    /\ stale \cap {"item", "delivery"} = {} => delivered = SentOf(delivery)

IInv == Shelving /\ Documented /\ Requesting /\ Balance

-----------------------------------------------------------------------------
(* Nothing that exists disappears, and no delivery gets other lines.       *)
Onward ==
    /\ \A d \in Deliveries : delivery[d].status # "none" =>
          delivery'[d].status # "none" /\ delivery'[d].load.lines = delivery[d].load.lines
    /\ \A o \in Outs : out[o].status # "none" => out'[o].status # "none"
    /\ \A b \in Batches : batch[b].status # "absent" => batch'[b].status # "absent"

LEMMA StaysProper ==
  ASSUME Onward, NEW r, Proper(r, delivery, out, batch)
  PROVE  Proper(r, delivery', out', batch')
<1>1. Admitted(r) => /\ r.op \in DeliveryRequests => r.key \in Deliveries
                     /\ r.op \in OutRequests => r.key \in Outs
  BY DEF Admitted
<1>2. r.op \in {"ship", "reject"} => r.op \in DeliveryRequests
  BY DEF DeliveryRequests
<1> QED
  BY <1>1, <1>2 DEF Onward, Proper

LEMMA RequestWritten ==
  ASSUME Requesting, Onward, NEW u \in Users, NEW r \in RequestRow,
         Proper(r, delivery, out, batch), req' = [req EXCEPT ![u] = r]
  PROVE  Requesting'
<1>1. req' \in [Users -> RequestRow]
  BY DEF Requesting
<1>2. ASSUME NEW v \in Users PROVE Proper(req'[v], delivery, out, batch)
  BY DEF Requesting
<1>3. ASSUME NEW v \in Users PROVE Proper(req'[v], delivery', out', batch')
  BY <1>2, StaysProper
<1> QED
  BY <1>1, <1>3 DEF Requesting

LEMMA RequestsKept ==
  ASSUME Requesting, Onward, req' = req
  PROVE  Requesting'
<1>1. ASSUME NEW v \in Users PROVE Proper(req'[v], delivery', out', batch')
  BY StaysProper DEF Requesting
<1> QED
  BY <1>1 DEF Requesting

LEMMA IdleIsProper ==
  /\ Idle \in RequestRow
  /\ \A sent, written, rows : Proper(Idle, sent, written, rows)
<1>1. NoBatches \in Shelves /\ \A b \in Batches : NoBatches[b].status = "absent"
  BY DEF NoBatches, NoBatch, Shelves, BatchRow
<1>2. Idle \in RequestRow
  BY <1>1 DEF Idle, RequestRow, Statuses, NoSales, SalesRow, SalesStatuses
<1>3. Admitted(Idle)
  BY DEF Admitted, Idle, DeliveryRequests, OutRequests, InRequests
<1> QED
  BY <1>1, <1>2, <1>3 DEF Proper, Idle, DeliveryRequests, OutRequests

LEMMA Finished ==
  ASSUME Requesting, Onward, NEW u \in Users, Done(u)
  PROVE  Requesting'
  BY IdleIsProper, RequestWritten DEF Done

LEMMA RequestKnown ==
  ASSUME Requesting, NEW u \in Users
  PROVE  req[u] \in RequestRow /\ Proper(req[u], delivery, out, batch)
  BY DEF Requesting

-----------------------------------------------------------------------------
(* What the history says of a commit.                                      *)
LEMMA Noted ==
  ASSUME Documented, NEW u \in Users, NEW kinds \in SUBSET Kinds, Note(u, kinds)
  PROVE  /\ stale \subseteq stale' /\ stale' \subseteq Kinds
         /\ "batch" \in kinds \ stale' =>
               \A b \in Touched(u) : batch[b] = req[u].batches[b]
         /\ "item" \in kinds \ stale' =>
               /\ delivered = req[u].item
               /\ req[u].op = "confirm_out" => ~ (Len(Lines(u)) > 1)
         /\ "delivery" \in kinds \ stale' =>
               delivery[Subject(u)].status =
                 IF req[u].op = "confirm_out" THEN "pending" ELSE req[u].status
         /\ "sales" \in kinds \ stale' => sales = req[u].sales
<1>1. stale' = stale \cup Outdated(u, kinds) /\ Outdated(u, kinds) \subseteq kinds
  BY DEF Note, Outdated
<1>2. \A k \in kinds \ stale' : k \notin Outdated(u, kinds)
  BY <1>1
<1>3. "batch" \in kinds \ stale' => \A b \in Touched(u) : batch[b] = req[u].batches[b]
  BY <1>2 DEF Outdated
<1>4. "item" \in kinds \ stale' =>
        /\ delivered = req[u].item
        /\ req[u].op = "confirm_out" => ~ (Len(Lines(u)) > 1)
  BY <1>2 DEF Outdated
<1>5. "delivery" \in kinds \ stale' =>
        delivery[Subject(u)].status =
          IF req[u].op = "confirm_out" THEN "pending" ELSE req[u].status
  BY <1>2 DEF Outdated
<1>6. "sales" \in kinds \ stale' => sales = req[u].sales
  BY <1>2 DEF Outdated
<1> QED
  BY <1>1, <1>3, <1>4, <1>5, <1>6 DEF Documented

LEMMA Unadjusted ==
  ASSUME Documented, Adjusted(0)
  PROVE  adjusted' \in Int /\ (stale' \cap {"batch", "delivery"} = {} => adjusted' = adjusted)
  BY DEF Documented, Adjusted

LEMMA BalanceKept ==
  ASSUME Balance, Stock(batch') = Stock(batch), SentOf(delivery') = SentOf(delivery),
         delivered' = delivered, entered' = entered, stale \subseteq stale',
         stale' \cap {"batch", "delivery"} = {} => adjusted' = adjusted
  PROVE  Balance'
<1>1. ASSUME stale' \cap {"batch", "delivery"} = {}
      PROVE  Stock(batch') + SentOf(delivery') =
               Len(FirstBatches) * InitialQuantity + Produced * Cardinality(entered')
                 + adjusted'
  <2>1. stale \cap {"batch", "delivery"} = {}
    BY <1>1
  <2>2. Stock(batch) + SentOf(delivery) =
          Len(FirstBatches) * InitialQuantity + Produced * Cardinality(entered) + adjusted
    BY <2>1 DEF Balance
  <2> QED
    BY <1>1, <2>2
<1>2. ASSUME stale' \cap {"item", "delivery"} = {} PROVE delivered' = SentOf(delivery')
  <2>1. stale \cap {"item", "delivery"} = {}
    BY <1>2
  <2> QED
    BY <2>1 DEF Balance
<1> QED
  BY <1>1, <1>2 DEF Balance

-----------------------------------------------------------------------------
(* What stays as it is.                                                    *)
LEMMA ShelvingKept ==
  ASSUME Shelving, shelf' = shelf, entered' = entered, batch' \in Shelves,
         \A b \in Batches : batch'[b].status = "absent" <=> batch[b].status = "absent",
         \A b \in Batches : batch[b].status = "absent" => batch'[b] = batch[b]
  PROVE  Shelving'
<1>1. {b \in Batches : batch'[b].status # "absent"} = {b \in Batches : batch[b].status # "absent"}
  OBVIOUS
<1>2. {i \in Ins : batch'[i].status # "absent"} = {i \in Ins : batch[i].status # "absent"}
  BY DEF Batches
<1> QED
  BY <1>1, <1>2 DEF Shelving

LEMMA OutsKept ==
  ASSUME Documented, Onward, out' = out
  PROVE  \A o \in Outs : out'[o].status # "none" =>
            out'[o].delivery \in Deliveries /\ delivery'[out'[o].delivery].status # "none"
  BY DEF Documented, Onward

LEMMA Marked ==
  ASSUME delivery \in Sendings, NEW d \in Deliveries, delivery[d].status # "none",
         NEW status \in {"shipped", "received", "rejected"}, Mark(d, status)
  PROVE  /\ delivery' \in Sendings
         /\ \A e \in Deliveries : delivery[e].status # "none" =>
              delivery'[e].status # "none" /\ delivery'[e].load.lines = delivery[e].load.lines
         /\ SentOf(delivery') + Part(delivery, d) = SentOf(delivery) + Part(delivery', d)
         /\ SentOf(delivery) \in Nat /\ SentOf(delivery') \in Nat
         /\ Part(delivery, d) \in Nat /\ Part(delivery, d) <= SentOf(delivery)
         /\ Part(delivery', d) =
               IF status \in With THEN Total(delivery[d].load.lines) ELSE 0
         /\ Total(delivery[d].load.lines) \in Nat
<1>1. delivery \in [Deliveries -> DeliveryRow]
  BY DEF Sendings
<1>2. /\ delivery' \in [Deliveries -> DeliveryRow]
      /\ delivery'[d].status = status /\ delivery'[d].load = delivery[d].load
      /\ \A e \in Deliveries \ {d} : delivery'[e] = delivery[e]
  BY <1>1 DEF Mark, DeliveryRow
<1>3. delivery[d].load.lines \in SomeLines /\ Total(delivery[d].load.lines) \in Nat
  BY LoadKnown
<1>4. delivery' \in Sendings
  <2>1. delivery'[d].status # "none" /\ delivery'[d].load.lines \in SomeLines
    BY <1>2, <1>3
  <2>2. \A e \in Deliveries \ {d} :
           \/ delivery'[e] = NoDelivery
           \/ delivery'[e].status # "none" /\ delivery'[e].load.lines \in SomeLines
    BY <1>2 DEF Sendings
  <2>3. \A e \in Deliveries :
           \/ delivery'[e] = NoDelivery
           \/ delivery'[e].status # "none" /\ delivery'[e].load.lines \in SomeLines
    BY <2>1, <2>2
  <2> QED
    BY <1>2, <2>3 DEF Sendings
<1>5. /\ SentOf(delivery') + Part(delivery, d) = SentOf(delivery) + Part(delivery', d)
      /\ SentOf(delivery) \in Nat /\ SentOf(delivery') \in Nat
      /\ Part(delivery, d) \in Nat /\ Part(delivery, d) <= SentOf(delivery)
  BY <1>2, <1>4, SentChange
<1>6. Part(delivery', d) = IF status \in With THEN Total(delivery[d].load.lines) ELSE 0
  BY <1>2 DEF Part
<1> QED
  BY <1>2, <1>3, <1>4, <1>5, <1>6

LEMMA Followed ==
  ASSUME sales \in SalesRow, NEW seen \in SalesRow, NEW quantity \in Nat,
         NEW w \in WorkStates, NEW keep \in BOOLEAN
  PROVE  Synced(seen, quantity, w, keep) \in SalesRow
<1>1. StatusFor(seen, quantity, w, keep) \in SalesStatuses
  BY DEF StatusFor, SalesStatuses
<1> QED
  BY <1>1 DEF Synced, SalesRow

-----------------------------------------------------------------------------
(* Creation of documents.                                                  *)
LEMMA Unsent ==
  ASSUME delivery \in Sendings, NEW d \in Deliveries, delivery[d] = NoDelivery,
         NEW load, load.lines \in SomeLines,
         [status |-> "pending", load |-> load] \in DeliveryRow,
         delivery' = [delivery EXCEPT ![d] = [status |-> "pending", load |-> load]]
  PROVE  /\ delivery' \in Sendings /\ SentOf(delivery') = SentOf(delivery)
         /\ \A e \in Deliveries : delivery[e].status # "none" =>
              delivery'[e].status # "none" /\ delivery'[e].load.lines = delivery[e].load.lines
<1> DEFINE row == [status |-> "pending", load |-> load]
<1>1. row.status = "pending" /\ row.load = load
  OBVIOUS
<1> HIDE DEF row
<1>2. /\ delivery' \in [Deliveries -> DeliveryRow] /\ delivery'[d] = row
      /\ \A e \in Deliveries \ {d} : delivery'[e] = delivery[e]
  BY DEF Sendings, row
<1>3. delivery' \in Sendings
  BY <1>1, <1>2 DEF Sendings
<1>4. delivery[d].status = "none"
  BY DEF NoDelivery
<1>5. Part(delivery, d) = 0 /\ Part(delivery', d) = 0
  BY <1>1, <1>2, <1>4 DEF Part, With
<1>6. /\ SentOf(delivery') + Part(delivery, d) = SentOf(delivery) + Part(delivery', d)
      /\ SentOf(delivery) \in Nat /\ SentOf(delivery') \in Nat
  BY <1>2, <1>3, SentChange
<1>7. SentOf(delivery') = SentOf(delivery)
  BY <1>5, <1>6
<1> QED
  BY <1>2, <1>3, <1>4, <1>7

LEMMA CreateDeliveryStep ==
  ASSUME IInv, NEW d \in Deliveries, NEW load \in Loads, CreateDelivery(d, load)
  PROVE  IInv'
<1>1. load.lines \in SomeLines /\ [status |-> "pending", load |-> load] \in DeliveryRow
  BY DeliveryAssumption DEF SomeLines, DeliveryRow
<1>2. /\ delivery' \in Sendings /\ SentOf(delivery') = SentOf(delivery)
      /\ \A e \in Deliveries : delivery[e].status # "none" =>
           delivery'[e].status # "none" /\ delivery'[e].load.lines = delivery[e].load.lines
  BY <1>1, Unsent DEF IInv, Documented, CreateDelivery
<1>3. Onward
  BY <1>2 DEF Onward, CreateDelivery, documents
<1>4. Shelving'
  BY DEF IInv, Shelving, CreateDelivery, history
<1>5. Documented'
  BY <1>2, <1>3, OutsKept DEF IInv, Documented, CreateDelivery, documents, history
<1>6. Requesting'
  BY <1>3, RequestsKept DEF IInv, CreateDelivery
<1>7. Balance'
  BY <1>2, BalanceKept DEF IInv, CreateDelivery, history
<1> QED
  BY <1>4, <1>5, <1>6, <1>7 DEF IInv

LEMMA CreateOutStep ==
  ASSUME IInv, NEW o \in Outs, NEW d \in Deliveries, CreateOut(o, d)
  PROVE  IInv'
<1>1. delivery[d].status # "none"
  BY DEF IInv, Documented, Sendings, CreateOut
<1>2. /\ out' \in [Outs -> OutRow] /\ out'[o] = [status |-> "draft", delivery |-> d]
      /\ \A p \in Outs \ {o} : out'[p] = out[p]
  BY DEF IInv, Documented, CreateOut, OutRow
<1>3. Onward
  BY <1>2 DEF Onward, CreateOut
<1>4. Shelving' /\ Balance'
  BY DEF IInv, Shelving, Balance, CreateOut, history
<1>5. Documented'
  BY <1>1, <1>2 DEF IInv, Documented, CreateOut, history
<1>6. Requesting'
  BY <1>3, RequestsKept DEF IInv, CreateOut
<1> QED
  BY <1>4, <1>5, <1>6 DEF IInv

LEMMA CreateInStep ==
  ASSUME IInv, NEW i \in Ins, CreateIn(i)
  PROVE  IInv'
<1>1. intake' \in [Ins -> InStatuses]
  BY DEF IInv, Documented, CreateIn, InStatuses
<1>2. Onward
  BY DEF Onward, CreateIn
<1>3. Shelving' /\ Balance'
  BY DEF IInv, Shelving, Balance, CreateIn, history
<1>4. Documented'
  BY <1>1 DEF IInv, Documented, CreateIn, history
<1>5. Requesting'
  BY <1>2, RequestsKept DEF IInv, CreateIn
<1> QED
  BY <1>3, <1>4, <1>5 DEF IInv

-----------------------------------------------------------------------------
(* Requests begin and look.                                                *)
LEMMA NothingKept ==
  ASSUME IInv, UNCHANGED <<shelf, batch, delivery, delivered, sales, works, documents, stale,
                           entered, adjusted>>
  PROVE  Shelving' /\ Documented' /\ Balance' /\ Onward
<1>1. Onward
  BY DEF Onward, documents
<1> QED
  BY <1>1 DEF IInv, Shelving, Documented, Balance, documents

Operations == {"idle", "adjust"} \cup DeliveryRequests \cup OutRequests
                \cup InRequests \cup SalesRequests
Keys == Deliveries \cup Outs \cup Ins \cup Batches \cup {None}

LEMMA Begun ==
  ASSUME IInv, NEW u \in Users, NEW op \in Operations, NEW key \in Keys,
         NEW status \in Statuses, Begin(u, op, key, status),
         op # "adjust",
         op = "ship" => status = "pending",
         op \in {"receive", "reject"} => status = "shipped",
         op = "resolve" => status = "rejected",
         op = "complete" => sales.status # "cancelled",
         op \in DeliveryRequests => key \in Deliveries /\ delivery[key].status # "none",
         op \in OutRequests => key \in Outs /\ out[key].status # "none",
         op \in InRequests => key \in Ins
  PROVE  IInv'
<1> DEFINE order == IF op \in OutRequests \cup InRequests THEN Idle.sales ELSE sales
           r == [Idle EXCEPT !.op = op, !.at = "loaded", !.key = key, !.status = status,
                             !.sales = order]
<1>1. Idle \in RequestRow /\ Proper(Idle, delivery, out, batch)
  BY IdleIsProper
<1>2. order \in SalesRow /\ (op = "complete" => order = sales)
  <2>1. Idle.sales \in SalesRow /\ sales \in SalesRow
    BY <1>1 DEF RequestRow, IInv, Documented
  <2> QED
    BY <2>1 DEF OutRequests, InRequests
<1>3. req' = [req EXCEPT ![u] = r]
  BY DEF Begin
<1> HIDE DEF order
<1>4. /\ r.op = op /\ r.at = "loaded" /\ r.key = key /\ r.status = status
      /\ r.sales = order /\ r.batches = Idle.batches /\ r \in RequestRow
  BY ZenonT(30), <1>1, <1>2 DEF RequestRow, Operations, Keys
<1> HIDE DEF r
<1>5. Admitted(r)
  BY <1>2, <1>4 DEF Admitted
<1>6. Proper(r, delivery, out, batch)
  BY <1>1, <1>4, <1>5 DEF Proper
<1>7. Shelving' /\ Documented' /\ Balance' /\ Onward
  BY NothingKept DEF Begin
<1>8. Requesting'
  BY <1>3, <1>4, <1>6, <1>7, RequestWritten DEF IInv
<1> QED
  BY <1>7, <1>8 DEF IInv

LEMMA BeginDeliveryStep ==
  ASSUME IInv, NEW u \in Users, NEW op \in DeliveryRequests, NEW d \in Deliveries,
         BeginDelivery(u, op, d)
  PROVE  IInv'
<1>1. /\ op = "ship" => delivery[d].status = "pending"
      /\ op \in {"receive", "reject"} => delivery[d].status = "shipped"
      /\ op = "resolve" => delivery[d].status = "rejected"
  BY DEF BeginDelivery
<1>2. delivery[d].status # "none" /\ delivery[d].status \in Statuses
  BY <1>1 DEF DeliveryRequests, Statuses
<1>3. /\ op \in Operations /\ op # "adjust" /\ op # "complete"
      /\ op \notin OutRequests /\ op \notin InRequests /\ d \in Keys
  BY DEF Operations, DeliveryRequests, OutRequests, InRequests, Keys
<1>4. Begin(u, op, d, delivery[d].status)
  BY DEF BeginDelivery
<1> QED
  BY <1>1, <1>2, <1>3, <1>4, Begun

LEMMA BeginOutStep ==
  ASSUME IInv, NEW u \in Users, NEW op \in OutRequests, NEW o \in Outs, BeginOut(u, op, o)
  PROVE  IInv'
<1>1. out[o].status \in {"draft", "submitted"}
  BY DEF BeginOut, OutRequests
<1>2. /\ op \in Operations /\ op # "adjust" /\ op # "complete" /\ op # "ship"
      /\ op \notin {"receive", "reject"} /\ op # "resolve"
      /\ op \notin DeliveryRequests /\ op \notin InRequests /\ o \in Keys
  BY DEF Operations, DeliveryRequests, OutRequests, InRequests, Keys
<1>3. out[o].status \in Statuses /\ out[o].status # "none"
  BY <1>1 DEF Statuses
<1>4. Begin(u, op, o, out[o].status)
  BY DEF BeginOut
<1> QED
  BY <1>2, <1>3, <1>4, Begun

LEMMA BeginInStep ==
  ASSUME IInv, NEW u \in Users, NEW op \in InRequests, NEW i \in Ins, BeginIn(u, op, i)
  PROVE  IInv'
<1>1. intake[i] \in {"draft", "submitted"}
  BY DEF BeginIn, InRequests
<1>2. /\ op \in Operations /\ op # "adjust" /\ op # "complete" /\ op # "ship"
      /\ op \notin {"receive", "reject"} /\ op # "resolve"
      /\ op \notin DeliveryRequests /\ op \notin OutRequests /\ i \in Keys
  BY DEF Operations, DeliveryRequests, OutRequests, InRequests, Keys
<1>3. intake[i] \in Statuses
  BY <1>1 DEF Statuses
<1>4. Begin(u, op, i, intake[i])
  BY DEF BeginIn
<1> QED
  BY <1>2, <1>3, <1>4, Begun

LEMMA BeginSalesStep ==
  ASSUME IInv, NEW u \in Users, NEW op \in SalesRequests, BeginSales(u, op)
  PROVE  IInv'
<1>1. op = "complete" => sales.status # "cancelled"
  BY DEF BeginSales
<1>2. /\ op \in Operations /\ op # "adjust" /\ op # "ship"
      /\ op \notin {"receive", "reject"} /\ op # "resolve"
      /\ op \notin DeliveryRequests /\ op \notin OutRequests /\ op \notin InRequests
      /\ None \in Keys
  BY DEF Operations, DeliveryRequests, OutRequests, InRequests, SalesRequests, Keys
<1>3. sales.status \in Statuses
  BY DEF IInv, Documented, SalesRow, Statuses
<1>4. Begin(u, op, None, sales.status)
  BY DEF BeginSales
<1> QED
  BY <1>1, <1>2, <1>3, <1>4, Begun

LEMMA BeginAdjustStep ==
  ASSUME IInv, NEW u \in Users, NEW b \in Batches, BeginAdjust(u, b)
  PROVE  IInv'
<1> DEFINE seen == [NoBatches EXCEPT ![b] = batch[b]]
           r == [Idle EXCEPT !.op = "adjust", !.at = "loaded", !.key = b, !.batches = seen]
<1>1. Idle \in RequestRow /\ Proper(Idle, delivery, out, batch)
  BY IdleIsProper
<1>2. batch \in Shelves /\ batch[b].status # "absent"
  BY DEF IInv, Shelving, BeginAdjust
<1>3. /\ seen \in Shelves /\ seen[b] = batch[b]
      /\ \A c \in Batches \ {b} : seen[c].status = "absent"
  BY <1>2 DEF Shelves, BatchRow, NoBatches, NoBatch
<1>4. req' = [req EXCEPT ![u] = r]
  BY DEF BeginAdjust
<1> HIDE DEF seen
<1>5. /\ r.op = "adjust" /\ r.at = "loaded" /\ r.key = b /\ r.batches = seen
      /\ r \in RequestRow
  BY <1>1, <1>3 DEF RequestRow
<1> HIDE DEF r
<1>6. Admitted(r)
  BY <1>2, <1>3, <1>5 DEF Admitted, DeliveryRequests, OutRequests, InRequests
<1>7. Proper(r, delivery, out, batch)
  BY <1>2, <1>3, <1>5, <1>6 DEF Proper, DeliveryRequests, OutRequests
<1>8. Shelving' /\ Documented' /\ Balance' /\ Onward
  BY NothingKept DEF BeginAdjust
<1>9. Requesting'
  BY <1>4, <1>5, <1>7, <1>8, RequestWritten DEF IInv
<1> QED
  BY <1>8, <1>9 DEF IInv

LEMMA LookStep ==
  ASSUME IInv, NEW u \in Users, Look(u)
  PROVE  IInv'
<1> DEFINE old == req[u]
           seen == IF old.op \in {"ship", "reject"} THEN batch ELSE old.batches
           item == IF old.op \in {"confirm_out", "complete"} THEN delivered ELSE old.item
           r == [old EXCEPT !.at = "looked", !.batches = seen, !.item = item]
<1>1. old \in RequestRow /\ Proper(old, delivery, out, batch)
  BY RequestKnown DEF IInv
<1>2. /\ req' = [req EXCEPT ![u] = r]
      /\ old.op \in {"ship", "reject", "confirm_out", "complete"}
  BY DEF Look
<1>3. seen \in Shelves /\ item \in Nat
  BY <1>1 DEF IInv, Shelving, Documented, RequestRow
<1>4. \A b \in Batches : seen[b].status # "absent" => batch[b].status # "absent"
  BY <1>1 DEF Proper
<1> HIDE DEF old, seen, item
<1>5. /\ r.op = old.op /\ r.at = "looked" /\ r.key = old.key /\ r.status = old.status
      /\ r.sales = old.sales /\ r.batches = seen /\ r \in RequestRow
  BY <1>1, <1>3 DEF RequestRow
<1> HIDE DEF r
<1>6. Proper(r, delivery, out, batch)
  BY <1>1, <1>2, <1>4, <1>5 DEF Proper, Admitted
<1>7. Shelving' /\ Documented' /\ Balance' /\ Onward
  BY NothingKept DEF Look, history
<1>8. Requesting'
  BY <1>2, <1>5, <1>6, <1>7, RequestWritten DEF IInv
<1> QED
  BY <1>7, <1>8 DEF IInv

-----------------------------------------------------------------------------
(* ship and reject update the batches.                                     *)
LEMMA BroughtBack ==
  ASSUME shelf \in Seq(Batches), NEW rows \in Shelves, NEW d \in Deliveries, NEW total \in Nat
  PROVE  LET after == PutBack(rows, d, total)
         IN /\ after \in Shelves
            /\ Stock(after) = Stock(rows) + total
            /\ \A b \in Changed(rows, after) :
                  after[b].status # "absent" /\ (rows[b].status # "absent" \/ b = d)
<1> DEFINE at == ReturnedTo(d, rows)
           row == [status |-> "in_stock", quantity |-> rows[at].quantity + total]
           after == [rows EXCEPT ![at] = row]
<1>1. at \in Batches /\ (at # d => rows[at].status # "absent")
  <2>1. CASE InStock(rows) = {}
    BY <2>1 DEF ReturnedTo, Batches
  <2>2. CASE InStock(rows) # {}
    <3>1. DOMAIN shelf = 1..Len(shelf) /\ Len(shelf) \in Nat
      OBVIOUS
    <3>2. InStock(rows) \subseteq 1..Len(shelf)
      BY <3>1 DEF InStock
    <3>3. \E i \in InStock(rows) : \A j \in InStock(rows) : i >= j
      BY <2>2, <3>1, <3>2, Greatest
    <3>4. Max(InStock(rows)) \in InStock(rows)
      BY <3>3 DEF Max
    <3>5. at = shelf[Max(InStock(rows))] /\ rows[at].status = "in_stock"
      BY <2>2, <3>4 DEF ReturnedTo, InStock
    <3> QED
      BY <3>2, <3>4, <3>5
  <2> QED
    BY <2>1, <2>2
<1>2. PutBack(rows, d, total) = after
  BY DEF PutBack
<1> HIDE DEF at
<1>3. rows[at].quantity \in Nat
  BY <1>1, RowKnown
<1>4. /\ row \in BatchRow /\ row.status = "in_stock"
      /\ row.quantity = rows[at].quantity + total
  BY <1>3 DEF BatchRow
<1> HIDE DEF row
<1>5. /\ after \in Shelves /\ after[at] = row
      /\ \A b \in Batches \ {at} : after[b] = rows[b]
  BY <1>1, <1>4 DEF Shelves
<1> HIDE DEF after
<1>6. Stock(after) = Stock(rows) + (after[at].quantity - rows[at].quantity)
  BY <1>1, <1>5, StockChange
<1>7. Stock(after) = Stock(rows) + total
  <2>1. Stock(rows) \in Nat
    BY StockIsNat
  <2> QED
    BY <1>3, <1>4, <1>5, <1>6, <2>1
<1>8. \A b \in Changed(rows, after) :
        after[b].status # "absent" /\ (rows[b].status # "absent" \/ b = d)
  BY <1>1, <1>4, <1>5 DEF Changed
<1> QED
  BY <1>2, <1>5, <1>7, <1>8

LEMMA ReachStep ==
  ASSUME IInv, NEW u \in Users, Reach(u)
  PROVE  IInv'
<1> DEFINE old == req[u]
           d == old.key
           total == Total(delivery[d].load.lines)
           after == Planned(u)
           s == [old EXCEPT !.rows = after]
           r == [old EXCEPT !.at = "holding", !.item = delivered, !.rows = after]
<1>1. old \in RequestRow /\ Proper(old, delivery, out, batch)
  BY RequestKnown DEF IInv
<1>2. /\ req' = [req EXCEPT ![u] = r]
      /\ \/ old.op = "ship" /\ Shipment(u).left = 0
         \/ old.op = "reject"
  BY DEF Reach
<1>3. /\ old.op \in DeliveryRequests /\ d \in Deliveries /\ delivery[d].status # "none"
      /\ Subject(u) = d /\ Lines(u) = delivery[d].load.lines
  BY <1>1, <1>2 DEF Proper, Admitted, DeliveryRequests, OutRequests, Subject, Lines
<1>4. total \in Nat
  BY <1>3, LoadKnown DEF IInv, Documented
<1>5. old.batches \in Shelves
  BY <1>1 DEF RequestRow
<1>6. after \in Shelves /\ Updated(s, total)
  <2>1. s.op = old.op /\ s.key = d /\ s.batches = old.batches /\ s.rows = after
    BY <1>1 DEF RequestRow
  <2>2. CASE old.op = "ship"
    <3>1. Shipment(u) = TakeOldest(old.batches, total, Released) /\ after = Shipment(u).rows
      BY <1>3, <2>2 DEF Shipment, Planned
    <3>2. Shipment(u) \in Taken(old.batches, total)
      BY <1>4, <1>5, <3>1, TakenWell DEF IInv, Shelving
    <3>3. Shipment(u).left = 0
      BY <1>2, <2>2
    <3> HIDE DEF old, after, total, s, d
    <3>4. /\ after \in Shelves
          /\ Stock(after) + total = Stock(old.batches) + 0
          /\ \A b \in Batches : /\ after[b].status = old.batches[b].status
                                /\ after[b] # old.batches[b] =>
                                     old.batches[b].status = "in_stock"
      BY <3>1, <3>2, <3>3 DEF Taken
    <3>5. Stock(after) + total = Stock(old.batches)
      BY <1>5, <3>4, StockIsNat
    <3>6. \A b \in Changed(old.batches, after) :
             after[b].status # "absent" /\ old.batches[b].status # "absent"
      BY <3>4 DEF Changed
    <3> QED
      BY <2>1, <2>2, <3>4, <3>5, <3>6 DEF Updated
  <2>3. CASE old.op = "reject"
    <3>1. after = PutBack(old.batches, d, total)
      BY <1>3, <2>3 DEF Planned
    <3> HIDE DEF old, after, total, s, d
    <3>2. /\ after \in Shelves
          /\ Stock(after) = Stock(old.batches) + total
          /\ \A b \in Changed(old.batches, after) :
               after[b].status # "absent" /\ (old.batches[b].status # "absent" \/ b = d)
      BY <1>3, <1>4, <1>5, <3>1, BroughtBack DEF IInv, Shelving
    <3> QED
      BY <2>1, <2>3, <3>2 DEF Updated
  <2> QED
    BY <1>2, <2>2, <2>3
<1>7. delivered \in Nat
  BY DEF IInv, Documented
<1> HIDE DEF after, total
<1>8. /\ r.op = old.op /\ r.at = "holding" /\ r.key = d /\ r.status = old.status
      /\ r.sales = old.sales /\ r.batches = old.batches /\ r.rows = after
      /\ r \in RequestRow
  BY <1>1, <1>6, <1>7 DEF RequestRow
<1>9. Updated(r, total)
  <2>1. s.op = old.op /\ s.key = d /\ s.batches = old.batches /\ s.rows = after
    BY <1>1 DEF RequestRow
  <2> HIDE DEF s, r
  <2> QED
    BY <1>6, <1>8, <2>1 DEF Updated
<1> HIDE DEF r
<1>10. Proper(r, delivery, out, batch)
  BY <1>1, <1>2, <1>8, <1>9 DEF Proper, Admitted, total
<1>11. Shelving' /\ Documented' /\ Balance' /\ Onward
  BY NothingKept DEF Reach, history
<1>12. Requesting'
  BY <1>2, <1>8, <1>10, <1>11, RequestWritten DEF IInv
<1> QED
  BY <1>11, <1>12 DEF IInv

-----------------------------------------------------------------------------
(* A batch is put on the shelf.                                            *)
LEMMA Shelved1 ==
  ASSUME shelf \in Seq(Batches), IsInjective(shelf), NEW b \in Batches, b \notin ToSet(shelf),
         NEW longer \in Seq(Batches), Len(longer) = Len(shelf) + 1,
         \A i \in 1..Len(shelf) : longer[i] = shelf[i], longer[Len(shelf) + 1] = b
  PROVE  IsInjective(longer) /\ ToSet(longer) = ToSet(shelf) \cup {b}
<1>1. /\ Len(shelf) \in Nat /\ DOMAIN shelf = 1..Len(shelf)
      /\ DOMAIN longer = 1..(Len(shelf) + 1)
  OBVIOUS
<1>2. \A i \in DOMAIN shelf : shelf[i] # b
  BY DEF ToSet
<1>3. IsInjective(longer)
  BY <1>1, <1>2 DEF IsInjective
<1>4. ToSet(longer) = ToSet(shelf) \cup {b}
  BY <1>1 DEF ToSet
<1> QED
  BY <1>3, <1>4

LEMMA NoneInSequence == SetToSeq({}) = << >>
<1> DEFINE F == [1..Cardinality({}) -> {}]
<1>1. F = [1..0 -> {}] /\ 1..0 = {}
  BY FS_EmptySet
<1>2. << >> \in F /\ IsInjective(<< >>)
  <2>1. << >> \in [{} -> {}]
    OBVIOUS
  <2>2. IsInjective(<< >>)
    BY DEF IsInjective
  <2> QED
    BY <1>1, <2>1, <2>2
<1>3. SetToSeq({}) \in F
  BY <1>2 DEF SetToSeq
<1>4. \A g \in [{} -> {}] : g = << >>
  OBVIOUS
<1> QED
  BY <1>1, <1>3, <1>4

LEMMA OneInSequence ==
  ASSUME NEW x
  PROVE  SetToSeq({x}) = <<x>>
<1> DEFINE F == [1..Cardinality({x}) -> {x}]
<1>1. F = [1..1 -> {x}]
  BY FS_Singleton
<1>2. <<x>> \in F /\ IsInjective(<<x>>)
  <2>1. <<x>> \in [1..1 -> {x}]
    OBVIOUS
  <2>2. IsInjective(<<x>>)
    BY <2>1 DEF IsInjective
  <2> QED
    BY <1>1, <2>1, <2>2
<1>3. SetToSeq({x}) \in F
  BY <1>2 DEF SetToSeq
<1>4. SetToSeq({x}) = [i \in 1..1 |-> x]
  BY <1>1, <1>3
<1>5. <<x>> = [i \in 1..1 |-> x]
  BY <1>1, <1>2
<1> QED
  BY <1>4, <1>5

LEMMA Saved ==
  ASSUME IInv, NEW u \in Users, req[u].at = "holding", SaveBatches(u), entered' = entered
  PROVE  /\ Shelving'
         /\ \A b \in Batches : batch[b].status # "absent" => batch'[b].status # "absent"
         /\ (\A b \in Touched(u) : batch[b] = req[u].batches[b]) =>
               Stock(batch') + Stock(req[u].batches) = Stock(batch) + Stock(req[u].rows)
         /\ Stock(batch') \in Nat /\ Stock(batch) \in Nat
         /\ Stock(req[u].batches) \in Nat /\ Stock(req[u].rows) \in Nat
<1> DEFINE r == req[u]
           new == {b \in Touched(u) : batch[b].status = "absent"}
<1>1. /\ r \in RequestRow /\ r.op \in {"ship", "reject"} /\ r.key \in Deliveries
      /\ \A b \in Batches : r.batches[b].status # "absent" => batch[b].status # "absent"
      /\ \A b \in Changed(r.batches, r.rows) :
           /\ r.rows[b].status # "absent"
           /\ r.batches[b].status # "absent" \/ b = r.key
  <2>1. r \in RequestRow /\ Proper(r, delivery, out, batch)
    BY RequestKnown DEF IInv
  <2> QED
    BY <2>1 DEF Proper, Admitted, Updated, DeliveryRequests
<1>2. Touched(u) = Changed(r.batches, r.rows) /\ Touched(u) \subseteq Batches
  BY <1>1 DEF Touched, Changed
<1>3. r.batches \in Shelves /\ r.rows \in Shelves /\ batch \in Shelves
  BY <1>1 DEF RequestRow, IInv, Shelving
<1>4. batch' = [b \in Batches |-> IF b \in Touched(u) THEN r.rows[b] ELSE batch[b]]
  BY DEF SaveBatches
<1>5. shelf' = shelf \o SetToSeq(new)
  BY DEF SaveBatches
<1> HIDE DEF r
<1>6. new = {} \/ new = {r.key}
  BY <1>1, <1>2
<1>7. batch' \in Shelves
  BY <1>3, <1>4 DEF Shelves
<1>8. \A b \in Batches : batch'[b].status # "absent" <=> batch[b].status # "absent" \/ b \in new
  BY <1>1, <1>2, <1>4
<1>9. /\ shelf \in Seq(Batches) /\ IsInjective(shelf)
      /\ ToSet(shelf) = {b \in Batches : batch[b].status # "absent"}
  BY DEF IInv, Shelving
<1>10. /\ shelf' \in Seq(Batches) /\ IsInjective(shelf')
       /\ ToSet(shelf') = ToSet(shelf) \cup new
  <2>1. CASE new = {}
    <3>1. shelf' = shelf \o << >>
      BY <1>5, <2>1, NoneInSequence
    <3>2. shelf' = shelf
      BY <1>9, <3>1, ConcatEmptySeq
    <3> QED
      BY <1>9, <2>1, <3>2
  <2>2. CASE new = {r.key}
    <3>1. r.key \in Batches /\ r.key \notin ToSet(shelf)
      BY <1>1, <1>9, <2>2 DEF Batches
    <3>2. shelf' = shelf \o <<r.key>>
      BY <1>5, <2>2, OneInSequence
    <3>3. /\ shelf' \in Seq(Batches) /\ Len(shelf') = Len(shelf) + 1
          /\ \A i \in 1..Len(shelf) : shelf'[i] = shelf[i]
          /\ shelf'[Len(shelf) + 1] = r.key
      <4>1. <<r.key>> \in Seq(Batches) /\ Len(<<r.key>>) = 1 /\ <<r.key>>[1] = r.key
        BY <3>1
      <4>2. Len(shelf) \in Nat
        BY <1>9
      <4> HIDE DEF new
      <4> QED
        BY <1>9, <3>2, <4>1, <4>2, ConcatProperties
    <3> HIDE DEF new
    <3> QED
      BY <1>9, <2>2, <3>1, <3>3, Shelved1
  <2> QED
    BY <1>6, <2>1, <2>2
<1>11. ToSet(shelf') = {b \in Batches : batch'[b].status # "absent"}
  BY <1>2, <1>8, <1>9, <1>10
<1>12. entered' = {i \in Ins : batch'[i].status # "absent"}
  <2>1. \A i \in Ins : i \in Batches /\ i \notin new
    BY <1>1, <1>6, DeliveryAssumption DEF Batches
  <2>2. entered = {i \in Ins : batch[i].status # "absent"}
    BY DEF IInv, Shelving
  <2> QED
    BY <1>8, <2>1, <2>2
<1>13. Shelving'
  <2>1. \A b \in Batches : batch'[b].status = "absent" => batch'[b].quantity = 0
    BY <1>1, <1>2, <1>4 DEF IInv, Shelving
  <2> QED
    BY <1>7, <1>10, <1>11, <1>12, <2>1 DEF Shelving
<1>14. ASSUME \A b \in Touched(u) : batch[b] = r.batches[b]
       PROVE  Stock(batch') + Stock(r.batches) = Stock(batch) + Stock(r.rows)
  <2> DEFINE both == [b \in Batches |-> batch[b].quantity + r.rows[b].quantity]
  <2>1. ASSUME NEW b \in Batches
        PROVE  /\ Quantity(batch)[b] \in Int /\ Quantity(r.rows)[b] \in Int
               /\ Quantity(batch')[b] \in Int /\ Quantity(r.batches)[b] \in Int
               /\ both[b] = Quantity(batch)[b] + Quantity(r.rows)[b]
               /\ both[b] = Quantity(batch')[b] + Quantity(r.batches)[b]
    <3>1. /\ Quantity(batch)[b] = batch[b].quantity /\ Quantity(r.rows)[b] = r.rows[b].quantity
          /\ Quantity(batch')[b] = batch'[b].quantity
          /\ Quantity(r.batches)[b] = r.batches[b].quantity
          /\ batch[b].quantity \in Nat /\ r.rows[b].quantity \in Nat
          /\ batch'[b].quantity \in Nat /\ r.batches[b].quantity \in Nat
      BY <1>3, <1>7, RowKnown
    <3>2. CASE b \in Touched(u)
      <4>1. batch'[b] = r.rows[b] /\ batch[b] = r.batches[b]
        BY <1>4, <1>14, <3>2
      <4> QED
        BY <3>1, <4>1
    <3>3. CASE b \notin Touched(u)
      <4>1. batch'[b] = batch[b] /\ r.rows[b] = r.batches[b]
        BY <1>2, <1>4, <3>3 DEF Changed
      <4> QED
        BY <3>1, <4>1
    <3> QED
      BY <3>2, <3>3
  <2> HIDE DEF both
  <2>2. /\ SumFunctionOnSet(both, Batches) =
              SumFunctionOnSet(Quantity(batch), Batches)
                + SumFunctionOnSet(Quantity(r.rows), Batches)
        /\ SumFunctionOnSet(both, Batches) =
              SumFunctionOnSet(Quantity(batch'), Batches)
                + SumFunctionOnSet(Quantity(r.batches), Batches)
    BY <2>1, BatchesFinite, SumBoth
  <2> QED
    BY <2>2 DEF Stock
<1>15. /\ Stock(batch') \in Nat /\ Stock(batch) \in Nat
       /\ Stock(r.batches) \in Nat /\ Stock(r.rows) \in Nat
  BY <1>3, <1>7, StockIsNat
<1> QED
  BY <1>8, <1>13, <1>14, <1>15 DEF r

-----------------------------------------------------------------------------
(* Goods leave and come back.                                              *)
LEMMA ShipStep ==
  ASSUME IInv, NEW u \in Users, Ship(u)
  PROVE  IInv'
<1> DEFINE r == req[u]
           d == r.key
           total == Total(delivery[d].load.lines)
<1>1. /\ r.op = "ship" /\ r.at = "holding" /\ r.status = "pending" /\ d \in Deliveries
      /\ delivery[d].status # "none" /\ Subject(u) = d
      /\ Lines(u) = delivery[d].load.lines /\ Updated(r, total) /\ r \in RequestRow
  <2>1. r \in RequestRow /\ Proper(r, delivery, out, batch)
    BY RequestKnown DEF IInv
  <2>2. r.op = "ship" /\ r.at = "holding"
    BY DEF Ship
  <2> QED
    BY <2>1, <2>2 DEF Proper, Admitted, DeliveryRequests, OutRequests, Subject, Lines
<1>2. /\ SaveBatches(u) /\ Mark(d, "shipped") /\ Adjusted(0) /\ Done(u)
      /\ delivered' = r.item + total
      /\ sales' = Synced(r.sales, delivered', works, FALSE)
      /\ Note(u, {"batch", "item", "delivery", "sales"})
      /\ works' = works /\ out' = out /\ intake' = intake /\ entered' = entered
  BY <1>1 DEF Ship, documents
<1>3. /\ delivery \in Sendings /\ delivered \in Nat /\ sales \in SalesRow
      /\ works \in WorkStates /\ adjusted \in Int
  BY DEF IInv, Documented
<1>4. /\ delivery' \in Sendings
      /\ \A e \in Deliveries : delivery[e].status # "none" =>
           delivery'[e].status # "none" /\ delivery'[e].load.lines = delivery[e].load.lines
      /\ SentOf(delivery') + Part(delivery, d) = SentOf(delivery) + Part(delivery', d)
      /\ SentOf(delivery) \in Nat /\ SentOf(delivery') \in Nat
      /\ Part(delivery, d) \in Nat /\ Part(delivery, d) <= SentOf(delivery)
      /\ Part(delivery', d) = IF "shipped" \in With THEN total ELSE 0
      /\ total \in Nat
  BY <1>1, <1>2, <1>3, Marked
<1>5. /\ Shelving'
      /\ \A b \in Batches : batch[b].status # "absent" => batch'[b].status # "absent"
      /\ (\A b \in Touched(u) : batch[b] = r.batches[b]) =>
            Stock(batch') + Stock(r.batches) = Stock(batch) + Stock(r.rows)
      /\ Stock(batch') \in Nat /\ Stock(batch) \in Nat
      /\ Stock(r.batches) \in Nat /\ Stock(r.rows) \in Nat
  BY <1>1, <1>2, Saved
<1>6. Onward
  BY <1>2, <1>4, <1>5 DEF Onward
<1>7. Requesting'
  BY <1>2, <1>6, Finished DEF IInv
<1>8. /\ stale \subseteq stale' /\ stale' \subseteq Kinds
      /\ "batch" \notin stale' => \A b \in Touched(u) : batch[b] = r.batches[b]
      /\ "item" \notin stale' => delivered = r.item
      /\ "delivery" \notin stale' => delivery[d].status = "pending"
  <2> DEFINE kinds == {"batch", "item", "delivery", "sales"}
  <2>1. kinds \in SUBSET Kinds /\ "batch" \in kinds /\ "item" \in kinds /\ "delivery" \in kinds
    BY DEF Kinds
  <2>2. Note(u, kinds)
    BY <1>2
  <2> HIDE DEF kinds
  <2> QED
    BY <1>1, <2>1, <2>2, Noted DEF IInv
<1>9. adjusted' \in Int /\ (stale' \cap {"batch", "delivery"} = {} => adjusted' = adjusted)
  BY <1>2, Unadjusted DEF IInv
<1>10. r.item \in Nat /\ r.sales \in SalesRow
  BY <1>1 DEF RequestRow
<1> HIDE DEF r, d, total
<1>11. delivered' \in Nat
  BY <1>2, <1>4, <1>10
<1>12. sales' \in SalesRow
  BY <1>2, <1>3, <1>10, <1>11, Followed
<1>13. Documented'
  BY <1>2, <1>3, <1>4, <1>6, <1>8, <1>9, <1>11, <1>12, OutsKept DEF IInv, Documented
<1>14. Part(delivery', d) = total
  BY <1>4 DEF With
<1>15. "delivery" \notin stale' => Part(delivery, d) = 0
  BY <1>8 DEF Part, With
<1>16. Balance'
  <2>1. ASSUME stale' \cap {"batch", "delivery"} = {}
        PROVE  Stock(batch') + SentOf(delivery') =
                 Len(FirstBatches) * InitialQuantity + Produced * Cardinality(entered')
                   + adjusted'
    <3>1. Stock(batch) + SentOf(delivery) =
            Len(FirstBatches) * InitialQuantity + Produced * Cardinality(entered) + adjusted
      BY <1>8, <2>1 DEF IInv, Balance
    <3>2. Stock(batch') + Stock(r.batches) = Stock(batch) + Stock(r.rows)
      BY <1>5, <1>8, <2>1
    <3>3. Stock(r.rows) + total = Stock(r.batches)
      BY <1>1 DEF Updated
    <3>4. SentOf(delivery') = SentOf(delivery) + total
      BY <1>4, <1>14, <1>15, <2>1
    <3>5. Stock(batch') + SentOf(delivery') = Stock(batch) + SentOf(delivery)
      BY <1>4, <1>5, <3>2, <3>3, <3>4
    <3> QED
      BY <1>2, <1>9, <2>1, <3>1, <3>5
  <2>2. ASSUME stale' \cap {"item", "delivery"} = {} PROVE delivered' = SentOf(delivery')
    <3>1. delivered = SentOf(delivery)
      BY <1>8, <2>2 DEF IInv, Balance
    <3>2. delivered = r.item /\ Part(delivery, d) = 0
      BY <1>8, <1>15, <2>2
    <3> QED
      BY <1>2, <1>4, <1>14, <3>1, <3>2
  <2> QED
    BY <2>1, <2>2 DEF Balance
<1> QED
  BY <1>5, <1>7, <1>13, <1>16 DEF IInv

LEMMA RejectStep ==
  ASSUME IInv, NEW u \in Users, Reject(u)
  PROVE  IInv'
<1> DEFINE r == req[u]
           d == r.key
           total == Total(delivery[d].load.lines)
<1>1. /\ r.op = "reject" /\ r.at = "holding" /\ r.status = "shipped" /\ d \in Deliveries
      /\ delivery[d].status # "none" /\ Subject(u) = d
      /\ Lines(u) = delivery[d].load.lines /\ Updated(r, total) /\ r \in RequestRow
  <2>1. r \in RequestRow /\ Proper(r, delivery, out, batch)
    BY RequestKnown DEF IInv
  <2>2. r.op = "reject" /\ r.at = "holding"
    BY DEF Reject
  <2> QED
    BY <2>1, <2>2 DEF Proper, Admitted, DeliveryRequests, OutRequests, Subject, Lines
<1>2. /\ SaveBatches(u) /\ Mark(d, "rejected") /\ Adjusted(0) /\ Done(u)
      /\ delivered' = Max({0, r.item - total})
      /\ sales' = Synced(r.sales, delivered', works, FALSE)
      /\ Note(u, {"batch", "item", "delivery", "sales"})
      /\ works' = works /\ out' = out /\ intake' = intake /\ entered' = entered
  BY <1>1 DEF Reject, documents, Returned
<1>3. /\ delivery \in Sendings /\ delivered \in Nat /\ sales \in SalesRow
      /\ works \in WorkStates /\ adjusted \in Int
  BY DEF IInv, Documented
<1>4. /\ delivery' \in Sendings
      /\ \A e \in Deliveries : delivery[e].status # "none" =>
           delivery'[e].status # "none" /\ delivery'[e].load.lines = delivery[e].load.lines
      /\ SentOf(delivery') + Part(delivery, d) = SentOf(delivery) + Part(delivery', d)
      /\ SentOf(delivery) \in Nat /\ SentOf(delivery') \in Nat
      /\ Part(delivery, d) \in Nat /\ Part(delivery, d) <= SentOf(delivery)
      /\ Part(delivery', d) = IF "rejected" \in With THEN total ELSE 0
      /\ total \in Nat
  BY <1>1, <1>2, <1>3, Marked
<1>5. /\ Shelving'
      /\ \A b \in Batches : batch[b].status # "absent" => batch'[b].status # "absent"
      /\ (\A b \in Touched(u) : batch[b] = r.batches[b]) =>
            Stock(batch') + Stock(r.batches) = Stock(batch) + Stock(r.rows)
      /\ Stock(batch') \in Nat /\ Stock(batch) \in Nat
      /\ Stock(r.batches) \in Nat /\ Stock(r.rows) \in Nat
  BY <1>1, <1>2, Saved
<1>6. Onward
  BY <1>2, <1>4, <1>5 DEF Onward
<1>7. Requesting'
  BY <1>2, <1>6, Finished DEF IInv
<1>8. /\ stale \subseteq stale' /\ stale' \subseteq Kinds
      /\ "batch" \notin stale' => \A b \in Touched(u) : batch[b] = r.batches[b]
      /\ "item" \notin stale' => delivered = r.item
      /\ "delivery" \notin stale' => delivery[d].status = "shipped"
  <2> DEFINE kinds == {"batch", "item", "delivery", "sales"}
  <2>1. kinds \in SUBSET Kinds /\ "batch" \in kinds /\ "item" \in kinds /\ "delivery" \in kinds
    BY DEF Kinds
  <2>2. Note(u, kinds)
    BY <1>2
  <2> HIDE DEF kinds
  <2> QED
    BY <1>1, <2>1, <2>2, Noted DEF IInv
<1>9. adjusted' \in Int /\ (stale' \cap {"batch", "delivery"} = {} => adjusted' = adjusted)
  BY <1>2, Unadjusted DEF IInv
<1>10. r.item \in Nat /\ r.sales \in SalesRow
  BY <1>1 DEF RequestRow
<1> HIDE DEF r, d, total
<1>11. Max({0, r.item - total}) = IF 0 >= r.item - total THEN 0 ELSE r.item - total
  BY <1>4, <1>10, MaxOfTwo
<1>12. delivered' \in Nat
  BY <1>2, <1>4, <1>10, <1>11
<1>13. sales' \in SalesRow
  BY <1>2, <1>3, <1>10, <1>12, Followed
<1>14. Documented'
  BY <1>2, <1>3, <1>4, <1>6, <1>8, <1>9, <1>12, <1>13, OutsKept DEF IInv, Documented
<1>15. Part(delivery', d) = 0
  BY <1>4 DEF With
<1>16. "delivery" \notin stale' => Part(delivery, d) = total
  BY <1>8 DEF Part, With, total
<1>17. Balance'
  <2>1. ASSUME stale' \cap {"batch", "delivery"} = {}
        PROVE  Stock(batch') + SentOf(delivery') =
                 Len(FirstBatches) * InitialQuantity + Produced * Cardinality(entered')
                   + adjusted'
    <3>1. Stock(batch) + SentOf(delivery) =
            Len(FirstBatches) * InitialQuantity + Produced * Cardinality(entered) + adjusted
      BY <1>8, <2>1 DEF IInv, Balance
    <3>2. Stock(batch') + Stock(r.batches) = Stock(batch) + Stock(r.rows)
      BY <1>5, <1>8, <2>1
    <3>3. Stock(r.rows) = Stock(r.batches) + total
      BY <1>1 DEF Updated
    <3>4. SentOf(delivery') + total = SentOf(delivery)
      BY <1>4, <1>15, <1>16, <2>1
    <3>5. Stock(batch') + SentOf(delivery') = Stock(batch) + SentOf(delivery)
      BY <1>4, <1>5, <3>2, <3>3, <3>4
    <3> QED
      BY <1>2, <1>9, <2>1, <3>1, <3>5
  <2>2. ASSUME stale' \cap {"item", "delivery"} = {} PROVE delivered' = SentOf(delivery')
    <3>1. delivered = SentOf(delivery)
      BY <1>8, <2>2 DEF IInv, Balance
    <3>2. delivered = r.item /\ Part(delivery, d) = total
      BY <1>8, <1>16, <2>2
    <3> QED
      BY <1>2, <1>4, <1>11, <1>15, <3>1, <3>2
  <2> QED
    BY <2>1, <2>2 DEF Balance
<1> QED
  BY <1>5, <1>7, <1>14, <1>17 DEF IInv

LEMMA ReceiveStep ==
  ASSUME IInv, NEW u \in Users, Receive(u)
  PROVE  IInv'
<1> DEFINE r == req[u]
           d == r.key
<1>1. /\ r.op = "receive" /\ r.status = "shipped" /\ d \in Deliveries
      /\ delivery[d].status # "none" /\ Subject(u) = d
  <2>1. r \in RequestRow /\ Proper(r, delivery, out, batch)
    BY RequestKnown DEF IInv
  <2>2. r.op = "receive"
    BY DEF Receive
  <2> QED
    BY <2>1, <2>2 DEF Proper, Admitted, DeliveryRequests, OutRequests, Subject
<1>2. /\ Mark(d, "received") /\ Adjusted(0) /\ Done(u) /\ Note(u, {"delivery"})
      /\ UNCHANGED <<shelf, batch, delivered, sales, works, out, intake, entered>>
  BY <1>1 DEF Receive, documents
<1>3. delivery \in Sendings
  BY DEF IInv, Documented
<1>4. /\ delivery' \in Sendings
      /\ \A e \in Deliveries : delivery[e].status # "none" =>
           delivery'[e].status # "none" /\ delivery'[e].load.lines = delivery[e].load.lines
      /\ SentOf(delivery') + Part(delivery, d) = SentOf(delivery) + Part(delivery', d)
      /\ SentOf(delivery) \in Nat /\ SentOf(delivery') \in Nat
      /\ Part(delivery, d) \in Nat
      /\ Part(delivery', d) =
            IF "received" \in With THEN Total(delivery[d].load.lines) ELSE 0
  BY <1>1, <1>2, <1>3, Marked
<1>5. Onward
  BY <1>2, <1>4 DEF Onward
<1>6. Requesting'
  BY <1>2, <1>5, Finished DEF IInv
<1>7. /\ stale \subseteq stale' /\ stale' \subseteq Kinds
      /\ "delivery" \notin stale' => delivery[d].status = "shipped"
  <2> DEFINE kinds == {"delivery"}
  <2>1. kinds \in SUBSET Kinds /\ "delivery" \in kinds
    BY DEF Kinds
  <2>2. Note(u, kinds)
    BY <1>2
  <2> HIDE DEF kinds
  <2> QED
    BY <1>1, <2>1, <2>2, Noted DEF IInv
<1>8. adjusted' \in Int /\ (stale' \cap {"batch", "delivery"} = {} => adjusted' = adjusted)
  BY <1>2, Unadjusted DEF IInv
<1>9. Shelving'
  BY <1>2 DEF IInv, Shelving
<1>10. Documented'
  BY <1>2, <1>4, <1>5, <1>7, <1>8, OutsKept DEF IInv, Documented
<1>11. Balance'
  <2>1. "delivery" \notin stale' => Part(delivery, d) = Part(delivery', d)
    BY <1>4, <1>7 DEF Part, With
  <2>2. CASE "delivery" \notin stale'
    <3>1. SentOf(delivery') = SentOf(delivery)
      BY <1>4, <2>1, <2>2
    <3> QED
      BY <1>2, <1>7, <1>8, <3>1, BalanceKept DEF IInv
  <2>3. CASE "delivery" \in stale'
    BY <2>3 DEF Balance
  <2> QED
    BY <2>2, <2>3
<1> QED
  BY <1>6, <1>9, <1>10, <1>11 DEF IInv

LEMMA ConfirmOutStep ==
  ASSUME IInv, NEW u \in Users, ConfirmOut(u)
  PROVE  IInv'
<1> DEFINE r == req[u]
           o == r.key
           d == out[o].delivery
           lines == delivery[d].load.lines
           total == Total(lines)
           pick == delivery[d].load.pick
           fit == IF pick = None THEN Batches ELSE {pick}
           taken == TakeOldest(batch, total, fit)
<1>1. /\ r.op = "confirm_out" /\ r \in RequestRow /\ o \in Outs /\ out[o].status # "none"
      /\ d \in Deliveries /\ delivery[d].status # "none" /\ Subject(u) = d /\ Lines(u) = lines
  <2>1. r \in RequestRow /\ Proper(r, delivery, out, batch)
    BY RequestKnown DEF IInv
  <2>2. r.op = "confirm_out"
    BY DEF ConfirmOut
  <2>3. o \in Outs /\ out[o].status # "none" /\ Subject(u) = d /\ Lines(u) = lines
    BY <2>1, <2>2 DEF Proper, Admitted, OutRequests, Subject, Lines
  <2>4. d \in Deliveries /\ delivery[d].status # "none"
    BY <2>3 DEF IInv, Documented
  <2> QED
    BY <2>1, <2>2, <2>3, <2>4
<1>2. /\ taken.left = 0 /\ batch' = taken.rows
      /\ delivered' = r.item + Last(lines)
      /\ out' = [out EXCEPT ![o].status = "completed"]
      /\ Mark(d, "shipped") /\ Note(u, {"item", "delivery", "document"})
      /\ Adjusted(0) /\ Done(u)
      /\ UNCHANGED <<shelf, sales, works, intake, entered>>
  BY <1>1 DEF ConfirmOut
<1>3. /\ delivery \in Sendings /\ shelf \in Seq(Batches) /\ batch \in Shelves
      /\ out \in [Outs -> OutRow]
  BY DEF IInv, Documented, Shelving
<1>4. /\ delivery' \in Sendings
      /\ \A e \in Deliveries : delivery[e].status # "none" =>
           delivery'[e].status # "none" /\ delivery'[e].load.lines = delivery[e].load.lines
      /\ SentOf(delivery') + Part(delivery, d) = SentOf(delivery) + Part(delivery', d)
      /\ SentOf(delivery) \in Nat /\ SentOf(delivery') \in Nat
      /\ Part(delivery, d) \in Nat
      /\ Part(delivery', d) = IF "shipped" \in With THEN total ELSE 0
      /\ total \in Nat
  BY <1>1, <1>2, <1>3, Marked
<1>5. Last(lines) \in Nat /\ (~ (Len(lines) > 1) => total = Last(lines))
  BY <1>1, <1>3, LoadKnown, TotalOfLines
<1>6. /\ \A p \in Outs : out'[p].delivery = out[p].delivery
      /\ \A p \in Outs : out[p].status # "none" <=> out'[p].status # "none"
      /\ out' \in [Outs -> OutRow]
  BY <1>1, <1>2, <1>3 DEF OutRow
<1>7. /\ stale \subseteq stale' /\ stale' \subseteq Kinds
      /\ "item" \notin stale' => delivered = r.item /\ ~ (Len(lines) > 1)
      /\ "delivery" \notin stale' => delivery[d].status = "pending"
  <2> DEFINE kinds == {"item", "delivery", "document"}
  <2>1. kinds \in SUBSET Kinds /\ "item" \in kinds /\ "delivery" \in kinds
    BY DEF Kinds
  <2>2. Note(u, kinds)
    BY <1>2
  <2> HIDE DEF kinds
  <2> QED
    BY <1>1, <2>1, <2>2, Noted DEF IInv
<1>8. adjusted' \in Int /\ (stale' \cap {"batch", "delivery"} = {} => adjusted' = adjusted)
  BY <1>2, Unadjusted DEF IInv
<1>9. r.item \in Nat
  BY <1>1 DEF RequestRow
<1>10. taken \in Taken(batch, total)
  BY <1>3, <1>4, TakenWell
<1> HIDE DEF r, o, d, lines, total, pick, fit, taken
<1>11. /\ batch' \in Shelves /\ Stock(batch') + total = Stock(batch) + 0
       /\ \A b \in Batches : /\ batch'[b].status = batch[b].status
                             /\ batch'[b] # batch[b] => batch[b].status = "in_stock"
  BY <1>2, <1>10 DEF Taken
<1>12. Shelving'
  BY <1>2, <1>11, ShelvingKept DEF IInv
<1>13. Onward
  BY <1>4, <1>6, <1>11 DEF Onward
<1>14. Requesting'
  BY <1>2, <1>13, Finished DEF IInv
<1>15. Documented'
  <2>1. delivered' \in Nat
    BY <1>2, <1>5, <1>9
  <2>2. \A p \in Outs : out'[p].status # "none" =>
           out'[p].delivery \in Deliveries /\ delivery'[out'[p].delivery].status # "none"
    BY <1>4, <1>6 DEF IInv, Documented
  <2> QED
    BY <1>2, <1>4, <1>6, <1>7, <1>8, <2>1, <2>2 DEF IInv, Documented
<1>16. Part(delivery', d) = total
  BY <1>4 DEF With
<1>17. "delivery" \notin stale' => Part(delivery, d) = 0
  BY <1>7 DEF Part, With
<1>18. Balance'
  <2>1. ASSUME stale' \cap {"batch", "delivery"} = {}
        PROVE  Stock(batch') + SentOf(delivery') =
                 Len(FirstBatches) * InitialQuantity + Produced * Cardinality(entered')
                   + adjusted'
    <3>1. Stock(batch) + SentOf(delivery) =
            Len(FirstBatches) * InitialQuantity + Produced * Cardinality(entered) + adjusted
      BY <1>7, <2>1 DEF IInv, Balance
    <3>2. SentOf(delivery') = SentOf(delivery) + total
      BY <1>4, <1>16, <1>17, <2>1
    <3>3. Stock(batch') \in Nat /\ Stock(batch) \in Nat
      BY <1>3, <1>11, StockIsNat
    <3>4. Stock(batch') + SentOf(delivery') = Stock(batch) + SentOf(delivery)
      BY <1>4, <1>11, <3>2, <3>3
    <3> QED
      BY <1>2, <1>8, <2>1, <3>1, <3>4
  <2>2. ASSUME stale' \cap {"item", "delivery"} = {} PROVE delivered' = SentOf(delivery')
    <3>1. delivered = SentOf(delivery)
      BY <1>7, <2>2 DEF IInv, Balance
    <3>2. delivered = r.item /\ Part(delivery, d) = 0 /\ Last(lines) = total
      BY <1>5, <1>7, <1>17, <2>2
    <3> QED
      BY <1>2, <1>4, <1>16, <3>1, <3>2
  <2> QED
    BY <2>1, <2>2 DEF Balance
<1> QED
  BY <1>12, <1>14, <1>15, <1>18 DEF IInv

-----------------------------------------------------------------------------
(* Documents are submitted; goods come in; a batch is adjusted.            *)
LEMMA DocumentsWritten ==
  ASSUME IInv, UNCHANGED <<shelf, batch, delivery, delivered, sales, works, entered>>,
         out' \in [Outs -> OutRow], intake' \in [Ins -> InStatuses],
         \A p \in Outs : out'[p].delivery = out[p].delivery,
         \A p \in Outs : out[p].status # "none" <=> out'[p].status # "none",
         stale \subseteq stale', stale' \subseteq Kinds, Adjusted(0)
  PROVE  Shelving' /\ Documented' /\ Balance' /\ Onward
<1>1. adjusted' \in Int /\ (stale' \cap {"batch", "delivery"} = {} => adjusted' = adjusted)
  BY Unadjusted DEF IInv
<1>2. Onward
  BY DEF Onward
<1>3. Shelving'
  BY DEF IInv, Shelving
<1>4. Documented'
  BY <1>1 DEF IInv, Documented
<1>5. Balance'
  BY <1>1, BalanceKept DEF IInv
<1> QED
  BY <1>2, <1>3, <1>4, <1>5

LEMMA SubmitOutStep ==
  ASSUME IInv, NEW u \in Users, SubmitOut(u)
  PROVE  IInv'
<1> DEFINE old == req[u]
           o == old.key
           r == [old EXCEPT !.op = "confirm_out", !.status = "submitted"]
<1>1. /\ old.op = "submit_out" /\ old \in RequestRow /\ Proper(old, delivery, out, batch)
      /\ o \in Outs /\ out[o].status # "none" /\ old.at # "holding"
  <2>1. old \in RequestRow /\ Proper(old, delivery, out, batch)
    BY RequestKnown DEF IInv
  <2>2. old.op = "submit_out"
    BY DEF SubmitOut
  <2> QED
    BY <2>1, <2>2 DEF Proper, Admitted, OutRequests
<1>2. /\ out' = [out EXCEPT ![o].status = "submitted"] /\ intake' = intake
      /\ Note(u, {"document"}) /\ Adjusted(0)
      /\ UNCHANGED <<shelf, batch, delivery, delivered, sales, works, entered>>
      /\ Done(u) \/ req' = [req EXCEPT ![u] = r]
  <2>1. [req EXCEPT ![u].op = "confirm_out", ![u].status = "submitted"] = [req EXCEPT ![u] = r]
    BY DEF IInv, Requesting
  <2> QED
    BY <2>1 DEF SubmitOut
<1>3. stale \subseteq stale' /\ stale' \subseteq Kinds
  <2>1. {"document"} \in SUBSET Kinds
    BY DEF Kinds
  <2> QED
    BY <1>2, <2>1, Noted DEF IInv
<1>4. /\ out' \in [Outs -> OutRow]
      /\ \A p \in Outs : out'[p].delivery = out[p].delivery
      /\ \A p \in Outs : out[p].status # "none" <=> out'[p].status # "none"
  <2>1. out \in [Outs -> OutRow]
    BY DEF IInv, Documented
  <2> QED
    BY <1>1, <1>2, <2>1 DEF OutRow
<1>5. intake' \in [Ins -> InStatuses]
  BY <1>2 DEF IInv, Documented
<1>6. Shelving' /\ Documented' /\ Balance' /\ Onward
  BY <1>2, <1>3, <1>4, <1>5, DocumentsWritten
<1> HIDE DEF old, o
<1>7. /\ r.op = "confirm_out" /\ r.at = old.at /\ r.key = old.key /\ r.status = "submitted"
      /\ r.batches = old.batches /\ r \in RequestRow
  BY <1>1 DEF RequestRow, OutRequests, Statuses
<1> HIDE DEF r
<1>8. Proper(r, delivery, out, batch)
  <2>1. old.op \in OutRequests /\ r.op \in OutRequests /\ r.op \notin InRequests
        /\ r.op \notin DeliveryRequests
    BY <1>1, <1>7 DEF OutRequests, InRequests, DeliveryRequests
  <2>2. Admitted(r)
    BY <1>1, <1>7, <2>1 DEF Admitted, o
  <2> QED
    BY <1>1, <1>7, <2>1, <2>2 DEF Proper, o
<1>9. Requesting'
  <2>1. CASE Done(u)
    BY <1>6, <2>1, Finished DEF IInv
  <2>2. CASE req' = [req EXCEPT ![u] = r]
    BY <1>6, <1>7, <1>8, <2>2, RequestWritten DEF IInv
  <2> QED
    BY <1>2, <2>1, <2>2
<1> QED
  BY <1>6, <1>9 DEF IInv

LEMMA SubmitInStep ==
  ASSUME IInv, NEW u \in Users, SubmitIn(u)
  PROVE  IInv'
<1> DEFINE old == req[u]
           i == old.key
           r == [old EXCEPT !.op = "confirm_in", !.status = "submitted"]
<1>1. /\ old.op = "submit_in" /\ old \in RequestRow /\ Proper(old, delivery, out, batch)
      /\ i \in Ins /\ old.at # "holding"
  <2>1. old \in RequestRow /\ Proper(old, delivery, out, batch)
    BY RequestKnown DEF IInv
  <2>2. old.op = "submit_in"
    BY DEF SubmitIn
  <2> QED
    BY <2>1, <2>2 DEF Proper, Admitted, InRequests
<1>2. /\ intake' = [intake EXCEPT ![i] = "submitted"] /\ out' = out
      /\ Note(u, {"document"}) /\ Adjusted(0)
      /\ UNCHANGED <<shelf, batch, delivery, delivered, sales, works, entered>>
      /\ Done(u) \/ req' = [req EXCEPT ![u] = r]
  <2>1. [req EXCEPT ![u].op = "confirm_in", ![u].status = "submitted"] = [req EXCEPT ![u] = r]
    BY DEF IInv, Requesting
  <2> QED
    BY <2>1 DEF SubmitIn
<1>3. stale \subseteq stale' /\ stale' \subseteq Kinds
  <2>1. {"document"} \in SUBSET Kinds
    BY DEF Kinds
  <2> QED
    BY <1>2, <2>1, Noted DEF IInv
<1>4. out' \in [Outs -> OutRow] /\ intake' \in [Ins -> InStatuses]
  BY <1>2 DEF IInv, Documented, InStatuses
<1>5. Shelving' /\ Documented' /\ Balance' /\ Onward
  BY <1>2, <1>3, <1>4, DocumentsWritten
<1> HIDE DEF old, i
<1>6. /\ r.op = "confirm_in" /\ r.at = old.at /\ r.key = old.key /\ r.status = "submitted"
      /\ r.batches = old.batches /\ r \in RequestRow
  BY <1>1 DEF RequestRow, InRequests, Statuses
<1> HIDE DEF r
<1>7. Proper(r, delivery, out, batch)
  <2>1. r.op \notin OutRequests /\ r.op \notin DeliveryRequests
    BY <1>6 DEF OutRequests, DeliveryRequests
  <2>2. Admitted(r)
    BY <1>1, <1>6, <2>1 DEF Admitted, i
  <2> QED
    BY <1>1, <1>6, <2>1, <2>2 DEF Proper
<1>8. Requesting'
  <2>1. CASE Done(u)
    BY <1>5, <2>1, Finished DEF IInv
  <2>2. CASE req' = [req EXCEPT ![u] = r]
    BY <1>5, <1>6, <1>7, <2>2, RequestWritten DEF IInv
  <2> QED
    BY <1>2, <2>1, <2>2
<1> QED
  BY <1>5, <1>8 DEF IInv

LEMMA ConfirmInStep ==
  ASSUME IInv, NEW u \in Users, ConfirmIn(u)
  PROVE  IInv'
<1> DEFINE i == req[u].key
           n == Cardinality(entered)
<1>1. i \in Ins /\ i \in Batches
  <2>1. req[u] \in RequestRow /\ Proper(req[u], delivery, out, batch)
    BY RequestKnown DEF IInv
  <2>2. req[u].op = "confirm_in"
    BY DEF ConfirmIn
  <2> QED
    BY <2>1, <2>2 DEF Proper, Admitted, InRequests, Batches
<1>2. /\ intake' = [intake EXCEPT ![i] = "completed"]
      /\ batch' = StockIn(i)
      /\ shelf' = IF i \in ToSet(shelf) THEN shelf ELSE Append(shelf, i)
      /\ entered' = entered \cup {i}
      /\ Note(u, {"document"}) /\ Adjusted(0) /\ Done(u)
      /\ UNCHANGED <<delivery, delivered, sales, works, out>>
  BY DEF ConfirmIn
<1>3. /\ shelf \in Seq(Batches) /\ IsInjective(shelf) /\ batch \in Shelves
      /\ ToSet(shelf) = {b \in Batches : batch[b].status # "absent"}
      /\ entered = {k \in Ins : batch[k].status # "absent"}
      /\ \A b \in Batches : batch[b].status = "absent" => batch[b].quantity = 0
  BY DEF IInv, Shelving
<1>4. stale \subseteq stale' /\ stale' \subseteq Kinds
  <2>1. {"document"} \in SUBSET Kinds
    BY DEF Kinds
  <2> QED
    BY <1>2, <2>1, Noted DEF IInv
<1>5. adjusted' \in Int /\ (stale' \cap {"batch", "delivery"} = {} => adjusted' = adjusted)
  BY <1>2, Unadjusted DEF IInv
<1>6. intake' \in [Ins -> InStatuses]
  BY <1>2 DEF IInv, Documented, InStatuses
<1> HIDE DEF i
<1>7. /\ Shelving'
      /\ \A b \in Batches : batch[b].status # "absent" => batch'[b].status # "absent"
      /\ \/ batch' = batch /\ entered' = entered
         \/ /\ Stock(batch') = Stock(batch) + Produced
            /\ Cardinality(entered') = n + 1 /\ n \in Nat
  <2>1. CASE batch[i].status # "absent"
    <3>1. batch' = batch /\ entered' = entered /\ shelf' = shelf
      BY <1>1, <1>2, <1>3, <2>1 DEF StockIn
    <3> QED
      BY <3>1 DEF IInv, Shelving
  <2>2. CASE batch[i].status = "absent"
    <3> DEFINE row == [status |-> "in_stock", quantity |-> Produced]
    <3>1. row \in BatchRow /\ row.status = "in_stock" /\ row.quantity = Produced
      BY DeliveryAssumption DEF BatchRow
    <3>2. /\ batch' \in Shelves /\ batch'[i] = row
          /\ \A b \in Batches \ {i} : batch'[b] = batch[b]
      BY <1>1, <1>2, <1>3, <2>2, <3>1 DEF StockIn, Shelves
    <3> HIDE DEF row
    <3>3. Stock(batch') = Stock(batch) + Produced
      <4>1. Stock(batch') = Stock(batch) + (batch'[i].quantity - batch[i].quantity)
        BY <1>1, <1>3, <3>2, StockChange
      <4>2. batch[i].quantity = 0 /\ batch'[i].quantity = Produced
        BY <1>1, <1>3, <2>2, <3>1, <3>2
      <4> QED
        BY <4>1, <4>2, DeliveryAssumption
    <3>4. i \notin ToSet(shelf) /\ i \notin entered
      BY <1>3, <2>2
    <3>5. shelf' = Append(shelf, i)
      BY <1>2, <3>4
    <3>6. /\ shelf' \in Seq(Batches) /\ Len(shelf') = Len(shelf) + 1
          /\ \A k \in 1..Len(shelf) : shelf'[k] = shelf[k]
          /\ shelf'[Len(shelf) + 1] = i
      BY <1>1, <1>3, <3>5, AppendProperties
    <3>7. IsInjective(shelf') /\ ToSet(shelf') = ToSet(shelf) \cup {i}
      BY <1>1, <1>3, <3>4, <3>6, Shelved1
    <3>8. /\ ToSet(shelf') = {b \in Batches : batch'[b].status # "absent"}
          /\ entered' = {k \in Ins : batch'[k].status # "absent"}
          /\ \A b \in Batches : batch'[b].status = "absent" => batch'[b].quantity = 0
      <4>1. ASSUME NEW b \in Batches
            PROVE  /\ batch'[b].status # "absent" <=> batch[b].status # "absent" \/ b = i
                   /\ batch'[b].status = "absent" => batch'[b].quantity = 0
        BY <1>1, <1>3, <2>2, <3>1, <3>2
      <4>2. ToSet(shelf') = {b \in Batches : batch'[b].status # "absent"}
        BY <1>1, <1>3, <3>7, <4>1
      <4>3. \A k \in Ins : k \in Batches
        BY DEF Batches
      <4>4. entered' = {k \in Ins : batch'[k].status # "absent"}
        BY <1>1, <1>2, <1>3, <4>1, <4>3
      <4> QED
        BY <4>1, <4>2, <4>4
    <3>9. Shelving'
      BY <3>2, <3>6, <3>7, <3>8 DEF Shelving
    <3>10. Cardinality(entered') = n + 1 /\ n \in Nat
      <4>1. IsFiniteSet(entered)
        BY <1>3, FS_Subset, DeliveryAssumption
      <4> QED
        BY <1>2, <3>4, <4>1, FS_AddElement, FS_CardinalityType
    <3>11. \A b \in Batches : batch[b].status # "absent" => batch'[b].status # "absent"
      BY <3>1, <3>2
    <3> QED
      BY <3>3, <3>9, <3>10, <3>11
  <2> QED
    BY <2>1, <2>2
<1>8. Onward
  BY <1>2, <1>7 DEF Onward
<1>9. Requesting'
  BY <1>2, <1>8, Finished DEF IInv
<1>10. Documented'
  BY <1>2, <1>4, <1>5, <1>6 DEF IInv, Documented
<1>11. Balance'
  <2>1. CASE batch' = batch /\ entered' = entered
    BY <1>2, <1>4, <1>5, <2>1, BalanceKept DEF IInv
  <2>2. CASE /\ Stock(batch') = Stock(batch) + Produced
             /\ Cardinality(entered') = n + 1 /\ n \in Nat
    <3>1. ASSUME stale' \cap {"batch", "delivery"} = {}
          PROVE  Stock(batch') + SentOf(delivery') =
                   Len(FirstBatches) * InitialQuantity + Produced * Cardinality(entered')
                     + adjusted'
      <4>1. Stock(batch) + SentOf(delivery) =
              Len(FirstBatches) * InitialQuantity + Produced * n + adjusted
        BY <1>4, <3>1 DEF IInv, Balance
      <4>2. Produced * Cardinality(entered') = Produced * n + Produced
        BY <2>2, DeliveryAssumption
      <4>3. /\ SentOf(delivery') = SentOf(delivery) /\ adjusted' = adjusted
            /\ adjusted \in Int
        BY <1>2, <1>5, <3>1 DEF IInv, Documented
      <4>4. Stock(batch) \in Nat /\ SentOf(delivery) \in Nat
        <5>1. SentOf(delivery) \in Nat
          BY SentIsNat DEF IInv, Documented
        <5> QED
          BY <1>3, <5>1, StockIsNat
      <4>5. Len(FirstBatches) * InitialQuantity \in Nat /\ Produced * n \in Nat /\ Produced \in Nat
        <5>1. Len(FirstBatches) \in Nat
          BY DeliveryAssumption
        <5> QED
          BY <2>2, <5>1, DeliveryAssumption
      <4> HIDE DEF n
      <4> DEFINE first == Len(FirstBatches) * InitialQuantity
                 came == Produced * n
                 comes == Produced * Cardinality(entered')
      <4>6. first \in Nat /\ came \in Nat
        BY <4>5
      <4>7. comes = came + Produced /\ Stock(batch) + SentOf(delivery) = first + came + adjusted
        BY <4>1, <4>2
      <4> HIDE DEF first, came, comes
      <4>8. Stock(batch') + SentOf(delivery') = first + comes + adjusted'
        BY <2>2, <4>3, <4>4, <4>5, <4>6, <4>7
      <4> QED
        BY <4>8 DEF first, comes
    <3>2. ASSUME stale' \cap {"item", "delivery"} = {} PROVE delivered' = SentOf(delivery')
      BY <1>2, <1>4, <3>2 DEF IInv, Balance
    <3> QED
      BY <3>1, <3>2 DEF Balance
  <2> QED
    BY <1>7, <2>1, <2>2
<1> QED
  BY <1>7, <1>9, <1>10, <1>11 DEF IInv

LEMMA AdjustStep ==
  ASSUME IInv, NEW u \in Users, NEW quantity \in 0..Cap,
         NEW status \in {"in_stock", "quality_check"}, Adjust(u, quantity, status)
  PROVE  IInv'
<1> DEFINE r == req[u]
           b == r.key
           row == [status |-> status, quantity |-> quantity]
           change == quantity - r.batches[b].quantity
<1>1. /\ r.op = "adjust" /\ r \in RequestRow /\ b \in Batches
      /\ batch[b].status # "absent" /\ r.batches \in Shelves
  <2>1. r \in RequestRow /\ Proper(r, delivery, out, batch)
    BY RequestKnown DEF IInv
  <2>2. r.op = "adjust"
    BY DEF Adjust
  <2>3. r.batches \in Shelves
    BY <2>1 DEF RequestRow
  <2> QED
    BY <2>1, <2>2, <2>3 DEF Proper, Admitted
<1>2. /\ batch' = [batch EXCEPT ![b] = row]
      /\ Note(u, {"batch"}) /\ Adjusted(change) /\ Done(u)
      /\ UNCHANGED <<shelf, delivery, delivered, sales, works, out, intake, entered>>
  BY DEF Adjust, documents
<1>3. /\ stale \subseteq stale' /\ stale' \subseteq Kinds
      /\ "batch" \notin stale' => batch[b] = r.batches[b]
  <2> DEFINE kinds == {"batch"}
  <2>1. kinds \in SUBSET Kinds /\ "batch" \in kinds /\ Note(u, kinds) /\ b \in Touched(u)
    BY <1>1, <1>2 DEF Kinds, Touched
  <2> HIDE DEF kinds
  <2> QED
    BY <2>1, Noted DEF IInv
<1>4. batch \in Shelves /\ adjusted \in Int /\ quantity \in Nat /\ Cap \in Nat
  BY DeliveryAssumption DEF IInv, Shelving, Documented
<1>5. row \in BatchRow /\ row.status # "absent" /\ row.quantity = quantity
  BY <1>4 DEF BatchRow
<1>6. change \in Int
  BY <1>1, <1>4, RowKnown
<1>7. adjusted' \in Int /\ (stale' \cap {"batch", "delivery"} = {} => adjusted' = adjusted + change)
  BY <1>2, <1>4, <1>6 DEF Adjusted
<1> HIDE DEF row
<1>8. /\ batch' \in Shelves /\ batch'[b] = row
      /\ \A c \in Batches \ {b} : batch'[c] = batch[c]
  BY <1>1, <1>2, <1>4, <1>5 DEF Shelves
<1>9. Stock(batch') = Stock(batch) + (quantity - batch[b].quantity)
  <2>1. Stock(batch') = Stock(batch) + (batch'[b].quantity - batch[b].quantity)
    BY <1>1, <1>4, <1>8, StockChange
  <2> QED
    BY <1>5, <1>8, <2>1
<1>10. \A c \in Batches : batch'[c].status = "absent" <=> batch[c].status = "absent"
  BY <1>1, <1>5, <1>8
<1>11. \A c \in Batches : batch[c].status = "absent" => batch'[c] = batch[c]
  BY <1>1, <1>8
<1>12. Shelving'
  BY <1>2, <1>8, <1>10, <1>11, ShelvingKept DEF IInv
<1>13. Onward
  BY <1>2, <1>10 DEF Onward
<1>14. Requesting'
  BY <1>2, <1>13, Finished DEF IInv
<1>15. Documented'
  BY <1>2, <1>3, <1>7 DEF IInv, Documented
<1>16. Balance'
  <2>1. ASSUME stale' \cap {"batch", "delivery"} = {}
        PROVE  Stock(batch') + SentOf(delivery') =
                 Len(FirstBatches) * InitialQuantity + Produced * Cardinality(entered')
                   + adjusted'
    <3>1. Stock(batch) + SentOf(delivery) =
            Len(FirstBatches) * InitialQuantity + Produced * Cardinality(entered) + adjusted
      BY <1>3, <2>1 DEF IInv, Balance
    <3>2. SentOf(delivery') = SentOf(delivery) /\ entered' = entered /\ SentOf(delivery) \in Nat
      BY <1>2, SentIsNat DEF IInv, Documented
    <3>3. adjusted' = adjusted + (quantity - batch[b].quantity)
      BY <1>3, <1>7, <2>1
    <3>4. Stock(batch) \in Nat /\ batch[b].quantity \in Nat
      BY <1>1, <1>4, StockIsNat, RowKnown
    <3>5. Len(FirstBatches) * InitialQuantity + Produced * Cardinality(entered) \in Int
      <4>1. entered \subseteq Ins
        BY DEF IInv, Shelving
      <4>2. Cardinality(entered) \in Nat /\ Len(FirstBatches) \in Nat
        BY <4>1, FS_Subset, FS_CardinalityType, DeliveryAssumption
      <4> QED
        BY <4>2, DeliveryAssumption
    <3> DEFINE due == Len(FirstBatches) * InitialQuantity + Produced * Cardinality(entered)
    <3>6. due \in Int /\ Stock(batch) + SentOf(delivery) = due + adjusted
      BY <3>1, <3>5
    <3> DEFINE has == batch[b].quantity
    <3>7. /\ has \in Nat /\ Stock(batch') = Stock(batch) + (quantity - has)
          /\ adjusted' = adjusted + (quantity - has)
      BY <1>9, <3>3, <3>4
    <3> HIDE DEF due, has, r, b, change
    <3>8. Stock(batch') + SentOf(delivery') = due + adjusted'
      <4>1. adjusted \in Int /\ quantity \in Nat /\ Stock(batch) \in Nat
        BY <1>4, <3>4
      <4> QED
        BY <3>2, <3>6, <3>7, <4>1
    <3> QED
      BY <3>2, <3>8 DEF due
  <2>2. ASSUME stale' \cap {"item", "delivery"} = {} PROVE delivered' = SentOf(delivery')
    BY <1>2, <1>3, <2>2 DEF IInv, Balance
  <2> QED
    BY <2>1, <2>2 DEF Balance
<1> QED
  BY <1>12, <1>14, <1>15, <1>16 DEF IInv

-----------------------------------------------------------------------------
(* What follows.                                                           *)
LEMMA ReshipStep ==
  ASSUME IInv, NEW u \in Users, NEW d \in Deliveries, Reship(u, d)
  PROVE  IInv'
<1> DEFINE k == req[u].key
           old == delivery[k].load
           load == [lines |-> old.lines, pick |-> None]
<1>1. /\ k \in Deliveries /\ delivery[k].status # "none" /\ Lines(u) = old.lines
  <2>1. req[u] \in RequestRow /\ Proper(req[u], delivery, out, batch)
    BY RequestKnown DEF IInv
  <2>2. req[u].op = "resolve"
    BY DEF Reship
  <2> QED
    BY <2>1, <2>2 DEF Proper, Admitted, DeliveryRequests, OutRequests, Subject, Lines
<1>2. /\ delivery[d] = NoDelivery
      /\ delivery' = [delivery EXCEPT ![d] = [status |-> "pending", load |-> load]]
      /\ Note(u, {"delivery"}) /\ Adjusted(0) /\ Done(u)
      /\ UNCHANGED <<shelf, batch, delivered, sales, works, out, intake, entered>>
  BY <1>1 DEF Reship, documents
<1>3. delivery \in Sendings
  BY DEF IInv, Documented
<1>4. load.lines \in SomeLines
  BY <1>1, <1>3, LoadKnown
<1>5. [status |-> "pending", load |-> load] \in DeliveryRow
  <2>1. delivery[k] \in DeliveryRow
    BY <1>1, <1>3 DEF Sendings
  <2>2. /\ old \in Loads \cup {NoLoad} \cup {[l EXCEPT !.pick = None] : l \in Loads}
        /\ old # NoLoad
    BY <1>4, <2>1 DEF DeliveryRow, NoLoad, SomeLines
  <2> HIDE DEF old
  <2>3. CASE old \in Loads
    <3>1. old \in [lines : Seq(Nat \ {0}) \ {<< >>}, pick : ToSet(FirstBatches) \cup {None}]
      BY <2>3, DeliveryAssumption
    <3>2. load = [old EXCEPT !.pick = None]
      BY <3>1
    <3>3. load \in {[l EXCEPT !.pick = None] : l \in Loads}
      BY <2>3, <3>2
    <3> QED
      BY <3>3 DEF DeliveryRow
  <2>4. CASE old \in {[l EXCEPT !.pick = None] : l \in Loads}
    <3>1. PICK l \in Loads : old = [l EXCEPT !.pick = None]
      BY <2>4
    <3>2. l \in [lines : Seq(Nat \ {0}) \ {<< >>}, pick : ToSet(FirstBatches) \cup {None}]
      BY DeliveryAssumption
    <3>3. load = [l EXCEPT !.pick = None]
      BY <3>1, <3>2
    <3>4. load \in {[m EXCEPT !.pick = None] : m \in Loads}
      BY <3>3
    <3> QED
      BY <3>4 DEF DeliveryRow
  <2> QED
    BY <2>2, <2>3, <2>4
<1> HIDE DEF load, old
<1>6. /\ delivery' \in Sendings /\ SentOf(delivery') = SentOf(delivery)
      /\ \A e \in Deliveries : delivery[e].status # "none" =>
           delivery'[e].status # "none" /\ delivery'[e].load.lines = delivery[e].load.lines
  BY <1>2, <1>3, <1>4, <1>5, Unsent
<1>7. stale \subseteq stale' /\ stale' \subseteq Kinds
  <2>1. {"delivery"} \in SUBSET Kinds
    BY DEF Kinds
  <2> QED
    BY <1>2, <2>1, Noted DEF IInv
<1>8. adjusted' \in Int /\ (stale' \cap {"batch", "delivery"} = {} => adjusted' = adjusted)
  BY <1>2, Unadjusted DEF IInv
<1>9. Onward
  BY <1>2, <1>6 DEF Onward
<1>10. Shelving'
  BY <1>2 DEF IInv, Shelving
<1>11. Documented'
  BY <1>2, <1>6, <1>7, <1>8, <1>9, OutsKept DEF IInv, Documented
<1>12. Requesting'
  BY <1>2, <1>9, Finished DEF IInv
<1>13. Balance'
  BY <1>2, <1>6, <1>7, <1>8, BalanceKept DEF IInv
<1> QED
  BY <1>10, <1>11, <1>12, <1>13 DEF IInv

(* Steps which change the order and the state of its work orders only.     *)
LEMMA OrderStep ==
  ASSUME IInv, NEW u \in Users, NEW kinds \in SUBSET Kinds, Note(u, kinds), Adjusted(0),
         Done(u), UNCHANGED <<shelf, batch, delivery, delivered, out, intake, entered>>,
         sales' \in SalesRow, works' \in WorkStates
  PROVE  IInv'
<1>1. stale \subseteq stale' /\ stale' \subseteq Kinds
  BY Noted DEF IInv
<1>2. adjusted' \in Int /\ (stale' \cap {"batch", "delivery"} = {} => adjusted' = adjusted)
  BY Unadjusted DEF IInv
<1>3. Onward
  BY DEF Onward
<1>4. Shelving'
  BY DEF IInv, Shelving
<1>5. Documented'
  BY <1>1, <1>2 DEF IInv, Documented
<1>6. Requesting'
  BY <1>3, Finished DEF IInv
<1>7. Balance'
  BY <1>1, <1>2, BalanceKept DEF IInv
<1> QED
  BY <1>4, <1>5, <1>6, <1>7 DEF IInv

LEMMA OrderSeen ==
  ASSUME IInv, NEW u \in Users
  PROVE  /\ req[u].sales \in SalesRow /\ sales \in SalesRow /\ works \in WorkStates
         /\ delivered \in Nat
         /\ req[u].op = "complete" => req[u].sales.status # "cancelled"
<1>1. req[u] \in RequestRow /\ Proper(req[u], delivery, out, batch)
  BY RequestKnown DEF IInv
<1> QED
  BY <1>1 DEF RequestRow, Proper, Admitted, IInv, Documented

LEMMA ReworkStep ==
  ASSUME IInv, NEW u \in Users, Rework(u)
  PROVE  IInv'
<1>1. sales' \in SalesRow /\ works' \in WorkStates
  <2>1. CASE works' = "unfinished" /\ sales' = Synced(sales, delivered, works', TRUE)
    <3>1. works' \in WorkStates /\ TRUE \in BOOLEAN
      BY <2>1 DEF WorkStates
    <3> QED
      BY <2>1, <3>1, OrderSeen, Followed
  <2>2. CASE UNCHANGED <<works, sales>>
    BY <2>2, OrderSeen
  <2> QED
    BY <2>1, <2>2 DEF Rework
<1> DEFINE kinds == {"delivery"}
<1>2. /\ kinds \in SUBSET Kinds /\ Note(u, kinds) /\ Adjusted(0) /\ Done(u)
      /\ UNCHANGED <<shelf, batch, delivery, delivered, out, intake, entered>>
  BY DEF Rework, Kinds, documents
<1> HIDE DEF kinds
<1> QED
  BY <1>1, <1>2, OrderStep

LEMMA TerminateStep ==
  ASSUME IInv, NEW u \in Users, Terminate(u)
  PROVE  IInv'
<1>1. sales' \in SalesRow /\ works' \in WorkStates
  BY OrderSeen DEF Terminate, SalesRow, SalesStatuses
<1> DEFINE kinds == {"delivery", "sales"}
<1>2. /\ kinds \in SUBSET Kinds /\ Note(u, kinds) /\ Adjusted(0) /\ Done(u)
      /\ UNCHANGED <<shelf, batch, delivery, delivered, out, intake, entered>>
  BY DEF Terminate, Kinds, documents
<1> HIDE DEF kinds
<1> QED
  BY <1>1, <1>2, OrderStep

LEMMA CompleteStep ==
  ASSUME IInv, NEW u \in Users, Complete(u)
  PROVE  IInv'
<1>1. sales' \in SalesRow /\ works' \in WorkStates
  <2> DEFINE short == req[u].item < Ordered
  <2>1. short \in BOOLEAN
    <3>1. req[u] \in RequestRow
      BY RequestKnown DEF IInv
    <3>2. req[u].item \in Nat /\ Ordered \in Nat
      BY <3>1, DeliveryAssumption DEF RequestRow
    <3> QED
      BY <3>2, SMT
  <2>2. sales' = [sales EXCEPT !.status = "completed", !.reason = short] /\ works' = works
    BY DEF Complete
  <2> HIDE DEF short
  <2> QED
    BY <2>1, <2>2, OrderSeen DEF SalesRow, SalesStatuses
<1> DEFINE kinds == {"sales", "item"}
<1>2. /\ kinds \in SUBSET Kinds /\ Note(u, kinds) /\ Adjusted(0) /\ Done(u)
      /\ UNCHANGED <<shelf, batch, delivery, delivered, out, intake, entered>>
  BY DEF Complete, KeepsGoods, Kinds, documents
<1> HIDE DEF kinds
<1> QED
  BY <1>1, <1>2, OrderStep

LEMMA CancelStep ==
  ASSUME IInv, NEW u \in Users, Cancel(u)
  PROVE  IInv'
<1>1. sales' \in SalesRow /\ works' \in WorkStates
  BY OrderSeen DEF Cancel, SaveLoaded, SalesRow, SalesStatuses
<1> DEFINE kinds == {"sales"}
<1>2. /\ kinds \in SUBSET Kinds /\ Note(u, kinds) /\ Adjusted(0) /\ Done(u)
      /\ UNCHANGED <<shelf, batch, delivery, delivered, out, intake, entered>>
  BY DEF Cancel, SaveLoaded, KeepsGoods, Kinds, documents
<1> HIDE DEF kinds
<1> QED
  BY <1>1, <1>2, OrderStep

LEMMA SynchroniseStep ==
  ASSUME IInv, NEW u \in Users, Synchronise(u)
  PROVE  IInv'
<1>1. sales' \in SalesRow /\ works' \in WorkStates
  BY OrderSeen, Followed DEF Synchronise
<1> DEFINE kinds == {"sales"}
<1>2. /\ kinds \in SUBSET Kinds /\ Note(u, kinds) /\ Adjusted(0) /\ Done(u)
      /\ UNCHANGED <<shelf, batch, delivery, delivered, out, intake, entered>>
  BY DEF Synchronise, KeepsGoods, Kinds, documents
<1> HIDE DEF kinds
<1> QED
  BY <1>1, <1>2, OrderStep

LEMMA ChangeWorksStep ==
  ASSUME IInv, NEW u \in Users, NEW state \in WorkStates \ {"none"}, ChangeWorks(u, state)
  PROVE  IInv'
<1>1. sales' \in SalesRow /\ works' \in WorkStates
  BY OrderSeen, Followed DEF ChangeWorks
<1> DEFINE kinds == {"sales"}
<1>2. /\ kinds \in SUBSET Kinds /\ Note(u, kinds) /\ Adjusted(0) /\ Done(u)
      /\ UNCHANGED <<shelf, batch, delivery, delivered, out, intake, entered>>
  BY DEF ChangeWorks, KeepsGoods, Kinds, documents
<1> HIDE DEF kinds
<1> QED
  BY <1>1, <1>2, OrderStep

LEMMA FailStep ==
  ASSUME IInv, NEW u \in Users, Fail(u)
  PROVE  IInv'
<1>1. Shelving' /\ Documented' /\ Balance' /\ Onward
  BY NothingKept DEF Fail, history
<1>2. Requesting'
  BY <1>1, Finished DEF IInv, Fail
<1> QED
  BY <1>1, <1>2 DEF IInv

-----------------------------------------------------------------------------
(* The beginning: as much on every first batch, nothing on the others.     *)
LEMMA UniformSum ==
  ASSUME NEW S, IsFiniteSet(S), NEW F \in SUBSET S, NEW c \in Nat, NEW f,
         \A x \in S : (x \in F => f[x] = c) /\ (x \notin F => f[x] = 0)
  PROVE  SumFunctionOnSet(f, S) = Cardinality(F) * c
<1> DEFINE Q == {T \in SUBSET S : SumFunctionOnSet(f, T) = Cardinality(T \cap F) * c}
<1>1. ASSUME NEW T \in SUBSET S, \A U \in SUBSET T : U # T => U \in Q
      PROVE  T \in Q
  <2>1. CASE T = {}
    <3>1. SumFunctionOnSet(f, T) = 0
      BY <2>1, SumEmpty
    <3>2. T \cap F = {} /\ Cardinality({}) = 0
      BY <2>1, FS_EmptySet
    <3>3. Cardinality(T \cap F) = 0
      BY <3>2
    <3>4. 0 * c = 0
      OBVIOUS
    <3>5. SumFunctionOnSet(f, T) = Cardinality(T \cap F) * c
      BY <3>1, <3>3, <3>4
    <3> QED
      BY <3>5
  <2>2. CASE T # {}
    <3>1. PICK x \in T : TRUE
      BY <2>2
    <3> DEFINE U == T \ {x}
               m == Cardinality(U \cap F)
    <3>2. SumFunctionOnSet(f, U) = m * c
      BY <1>1
    <3>3. SumFunctionOnSet(f, T) = f[x] + SumFunctionOnSet(f, U)
      <4>1. IsFiniteSet(T)
        BY FS_Subset
      <4>2. \A y \in T : f[y] \in Int
        OBVIOUS
      <4> QED
        BY <4>1, <4>2, SumTakeOut
    <3>4. IsFiniteSet(U \cap F) /\ m \in Nat
      BY FS_Subset, FS_CardinalityType
    <3>5. CASE x \in F
      <4>1. T \cap F = (U \cap F) \cup {x} /\ x \notin U \cap F
        BY <3>5
      <4>2. Cardinality(T \cap F) = m + 1
        BY <3>4, <4>1, FS_AddElement
      <4>3. f[x] = c
        BY <3>5
      <4>4. (m + 1) * c = c + m * c
        <5> HIDE DEF m
        <5> QED
          BY <3>4
      <4>5. SumFunctionOnSet(f, T) = Cardinality(T \cap F) * c
        BY <3>2, <3>3, <4>2, <4>3, <4>4
      <4> QED
        BY <4>5
    <3>6. CASE x \notin F
      <4>1. T \cap F = U \cap F /\ f[x] = 0
        BY <3>6
      <4>2. m * c \in Int /\ m = Cardinality(T \cap F)
        <5>1. m = Cardinality(T \cap F)
          BY <4>1
        <5> HIDE DEF m
        <5> QED
          BY <3>4, <5>1
      <4>3. SumFunctionOnSet(f, T) = m * c
        <5> DEFINE k == m * c
                   rest == SumFunctionOnSet(f, U)
                   x0 == f[x]
                   sum == SumFunctionOnSet(f, T)
        <5>1. k \in Int /\ rest = k
          BY <3>2, <4>2
        <5>2. sum = x0 + rest /\ x0 = 0
          BY <3>3, <4>1
        <5> HIDE DEF k, rest, x0, sum
        <5>3. sum = k
          BY <5>1, <5>2
        <5> HIDE DEF U, m
        <5> QED
          BY <5>3 DEF k, sum
      <4>4. SumFunctionOnSet(f, T) = Cardinality(T \cap F) * c
        BY <4>2, <4>3
      <4> QED
        BY <4>4
    <3> QED
      BY <3>5, <3>6
  <2> QED
    BY <2>1, <2>2
<1>2. \A T \in SUBSET S : T \in Q
  <2> HIDE DEF Q
  <2> QED
    BY <1>1, SubsetInduction
<1>3. S \in Q
  <2>1. S \in SUBSET S
    OBVIOUS
  <2> HIDE DEF Q
  <2> QED
    BY <1>2, <2>1
<1>4. S \cap F = F
  OBVIOUS
<1> QED
  BY <1>3, <1>4

LEMMA InitHolds == Init => IInv
<1> SUFFICES ASSUME Init PROVE IInv
  OBVIOUS
<1> DEFINE First == ToSet(FirstBatches)
<1>1. /\ batch \in Shelves /\ shelf \in Seq(Batches) /\ IsInjective(shelf)
      /\ ToSet(shelf) = {b \in Batches : batch[b].status # "absent"}
      /\ \A b \in Batches : batch[b].status = "absent" => batch[b].quantity = 0
      /\ \A b \in Batches : batch[b].quantity = IF b \in First THEN InitialQuantity ELSE 0
      /\ {i \in Ins : batch[i].status # "absent"} = {}
  <2>1. shelf = FirstBatches /\ First \subseteq Batches
    BY DEF Init, Batches
  <2>2. \A b \in Batches : batch[b] = IF b \in First
            THEN [status |-> "in_stock", quantity |-> InitialQuantity] ELSE NoBatch
    BY DEF Init
  <2>3. batch = [b \in Batches |-> batch[b]]
    BY DEF Init
  <2>4. InitialQuantity \in Nat
    BY DeliveryAssumption
  <2>5. \A i \in Ins : i \in Batches /\ i \notin First
    BY DeliveryAssumption DEF Batches
  <2>6. FirstBatches \in Seq(First) /\ IsInjective(FirstBatches)
    BY DeliveryAssumption
  <2> HIDE DEF First
  <2>7. \A b \in Batches : batch[b] \in BatchRow
    BY <2>2, <2>4 DEF BatchRow, NoBatch
  <2>8. batch \in Shelves
    BY <2>3, <2>7 DEF Shelves
  <2>9. ToSet(shelf) = First
    BY <2>1 DEF First
  <2>10. \A b \in Batches : /\ batch[b].status # "absent" <=> b \in First
                            /\ batch[b].quantity = IF b \in First THEN InitialQuantity ELSE 0
    BY <2>2 DEF NoBatch
  <2>11. shelf \in Seq(Batches) /\ IsInjective(shelf)
    BY <2>1, <2>6
  <2> QED
    BY <2>1, <2>5, <2>8, <2>9, <2>10, <2>11
<1>2. Shelving
  BY <1>1 DEF Shelving, Init
<1>3. /\ delivery \in Sendings /\ \A d \in Deliveries : delivery[d] = NoDelivery
  <2>1. \A d \in Deliveries : delivery[d] = NoDelivery
    BY DEF Init
  <2>2. NoDelivery \in DeliveryRow
    BY DEF NoDelivery, DeliveryRow
  <2>3. delivery \in [Deliveries -> DeliveryRow]
    BY <2>2 DEF Init
  <2> QED
    BY <2>1, <2>3 DEF Sendings
<1>4. Documented
  <2>1. sales \in SalesRow /\ works \in WorkStates /\ delivered \in Nat
    BY DEF Init, NoSales, SalesRow, SalesStatuses, WorkStates
  <2>2. out \in [Outs -> OutRow] /\ \A o \in Outs : out[o].status = "none"
    BY DEF Init, OutRow
  <2>3. intake \in [Ins -> InStatuses] /\ stale \subseteq Kinds /\ adjusted \in Int
    BY DEF Init, InStatuses
  <2> QED
    BY <1>3, <2>1, <2>2, <2>3 DEF Documented
<1>5. Requesting
  <2>1. req = [u \in Users |-> Idle]
    BY DEF Init
  <2> QED
    BY <2>1, IdleIsProper DEF Requesting
<1>6. Balance
  <2>1. Stock(batch) = Len(FirstBatches) * InitialQuantity
    <3>1. \A b \in Batches : Quantity(batch)[b] = IF b \in First THEN InitialQuantity ELSE 0
      BY <1>1 DEF Quantity
    <3>2. InitialQuantity \in Nat
      BY DeliveryAssumption
    <3> HIDE DEF First
    <3>3. Stock(batch) = Cardinality(First) * InitialQuantity
      <4> DEFINE f == Quantity(batch)
      <4>1. \A b \in Batches : /\ b \in First => f[b] = InitialQuantity
                               /\ b \notin First => f[b] = 0
        BY <3>1
      <4> HIDE DEF f
      <4>2. First \in SUBSET Batches
        BY DEF Batches, First
      <4>3. SumFunctionOnSet(f, Batches) = Cardinality(First) * InitialQuantity
        BY <3>2, <4>2, <4>1, BatchesFinite, UniformSum
      <4> QED
        BY <4>3 DEF Stock, f
    <3> QED
      BY <3>3, FirstCounted DEF First
  <2>2. SentOf(delivery) = 0
    <3>1. WithCustomer(delivery) = {}
      BY <1>3 DEF WithCustomer, With, NoDelivery
    <3> QED
      BY <3>1, SumEmpty DEF SentOf
  <2>3. delivered = 0 /\ adjusted = 0 /\ entered = {}
    BY DEF Init
  <2>4. Cardinality(entered) = 0
    BY <2>3, FS_EmptySet
  <2>5. Len(FirstBatches) \in Nat /\ InitialQuantity \in Nat /\ Produced \in Nat
    BY DeliveryAssumption
  <2> DEFINE first == Len(FirstBatches) * InitialQuantity
  <2>6. first \in Nat
    BY <2>5
  <2>7. Stock(batch) = first
    BY <2>1
  <2> HIDE DEF first
  <2>8. Stock(batch) + SentOf(delivery) = first + Produced * Cardinality(entered) + adjusted
    BY <2>2, <2>3, <2>4, <2>5, <2>6, <2>7
  <2> QED
    BY <2>2, <2>3, <2>8 DEF Balance, first
<1> QED
  BY <1>2, <1>4, <1>5, <1>6 DEF IInv

LEMMA NextHolds == IInv /\ [Next]_vars => IInv'
<1> SUFFICES ASSUME IInv, [Next]_vars PROVE IInv'
  OBVIOUS
<1>1. CASE Creating
  BY <1>1, CreateDeliveryStep, CreateOutStep, CreateInStep DEF Creating
<1>2. CASE Beginning
  BY <1>2, BeginDeliveryStep, BeginOutStep, BeginInStep, BeginSalesStep, BeginAdjustStep
     DEF Beginning
<1>3. CASE MovingGoods
  BY <1>3, LookStep, ReachStep, ShipStep, RejectStep, ReceiveStep, SubmitOutStep,
     ConfirmOutStep, SubmitInStep, ConfirmInStep, AdjustStep DEF MovingGoods
<1>4. CASE Following
  BY <1>4, ReshipStep, ReworkStep, TerminateStep, CompleteStep, CancelStep,
     SynchroniseStep, ChangeWorksStep, FailStep DEF Following
<1>5. CASE UNCHANGED vars
  <2>1. Onward /\ req' = req
    BY <1>5 DEF vars, Onward
  <2>2. Requesting'
    BY <2>1, RequestsKept DEF IInv
  <2> QED
    BY <1>5, <2>2 DEF vars, IInv, Shelving, Documented, Balance
<1> QED
  BY <1>1, <1>2, <1>3, <1>4, <1>5 DEF Next

-----------------------------------------------------------------------------
(* The inductive invariant holds throughout: rows, documents and requests  *)
(* keep together, and goods balance, however requests interleave.          *)
THEOREM Inductive == Spec => []IInv
  BY InitHolds, NextHolds, PTL DEF Spec

(* No batch and no delivered quantity falls below zero, and the shelf      *)
(* lists every batch once, for any number of requests and batches.         *)
THEOREM Typed == Spec => []TypeOK
<1>1. IInv => TypeOK
  BY DEF IInv, Shelving, Shelves, Documented, Sendings, TypeOK
<1> QED
  BY <1>1, Inductive, PTL

(* Goods are neither lost nor made by shipping, rejecting, stock-outs and  *)
(* stock-ins, unless a batch or a delivery is saved from an outdated copy. *)
THEOREM NothingLostOrMade == Spec => []GoodsConserved
<1>1. IInv => GoodsConserved
  <2>1. Shelved = Stock(batch) /\ Sent = SentOf(delivery)
    BY DEF Shelved, Stock, Quantity, Sent, SentOf, Load, WithCustomer, With, Gone
  <2> QED
    BY <2>1 DEF IInv, Balance, GoodsConserved
<1> QED
  BY <1>1, Inductive, PTL

(* The delivered quantity of the item is the sum of the lines of the       *)
(* deliveries the customer holds, whether they left by shipping or by a    *)
(* stock-out, unless an item or a delivery is saved from an outdated copy. *)
THEOREM WhatWasSentIsDelivered == Spec => []DeliveredIsSent
<1>1. IInv => DeliveredIsSent
  <2>1. Sent = SentOf(delivery)
    BY DEF Sent, SentOf, Load, WithCustomer, With, Gone
  <2> QED
    BY <2>1 DEF IInv, Balance, DeliveredIsSent
<1> QED
  BY <1>1, Inductive, PTL

-----------------------------------------------------------------------------
(* A step that writes an order it has not seen out of date leaves it       *)
(* cancelled.                                                              *)
LEMMA SeenAsIs ==
  ASSUME IInv, NEW u \in Users, NEW kinds \in SUBSET Kinds, Note(u, kinds), "sales" \in kinds,
         "sales" \notin stale'
  PROVE  req[u].sales = sales
  BY Noted DEF IInv

LEMMA StaysCancelled ==
  ASSUME sales.status = "cancelled", NEW seen, seen = sales, NEW quantity, NEW w, NEW keep,
         sales' = Synced(seen, quantity, w, keep)
  PROVE  sales'.status = "cancelled"
  BY DEF Synced

LEMMA CancelledKept ==
  ASSUME IInv, [Next]_vars, sales.status = "cancelled", "sales" \notin stale'
  PROVE  sales'.status = "cancelled"
<1> DEFINE moved == {"batch", "item", "delivery", "sales"}
           ended == {"delivery", "sales"}
           completed == {"sales", "item"}
           alone == {"sales"}
<1>1. /\ moved \in SUBSET Kinds /\ "sales" \in moved /\ ended \in SUBSET Kinds /\ "sales" \in ended
      /\ completed \in SUBSET Kinds /\ "sales" \in completed
      /\ alone \in SUBSET Kinds /\ "sales" \in alone
  BY DEF Kinds
<1>2. ASSUME NEW u \in Users, Ship(u) \/ Reject(u) PROVE sales'.status = "cancelled"
  <2>1. Note(u, moved) /\ sales' = Synced(req[u].sales, delivered', works, FALSE)
    BY <1>2 DEF Ship, Reject
  <2> HIDE DEF moved
  <2> QED
    BY <1>1, <2>1, SeenAsIs, StaysCancelled
<1>3. ASSUME NEW u \in Users, Complete(u) PROVE FALSE
  <2>1. Note(u, completed) /\ req[u].op = "complete"
    BY <1>3 DEF Complete
  <2> HIDE DEF completed
  <2> QED
    BY <1>1, <2>1, SeenAsIs, OrderSeen
<1>4. ASSUME NEW u \in Users, Cancel(u) PROVE sales'.status = "cancelled"
  <2>1. req[u].sales \in SalesRow
    BY OrderSeen
  <2> QED
    BY <1>4, <2>1 DEF Cancel, SaveLoaded, SalesRow
<1>5. ASSUME NEW u \in Users, Synchronise(u) PROVE sales'.status = "cancelled"
  <2>1. Note(u, alone) /\ sales' = Synced(req[u].sales, delivered, works, TRUE)
    BY <1>5 DEF Synchronise
  <2> HIDE DEF alone
  <2> QED
    BY <1>1, <2>1, SeenAsIs, StaysCancelled
<1>6. ASSUME NEW u \in Users, NEW state, ChangeWorks(u, state) PROVE sales'.status = "cancelled"
  <2>1. Note(u, alone) /\ sales' = Synced(req[u].sales, delivered, state, TRUE)
    BY <1>6 DEF ChangeWorks
  <2> HIDE DEF alone
  <2> QED
    BY <1>1, <2>1, SeenAsIs, StaysCancelled
<1>7. ASSUME NEW u \in Users, Rework(u) PROVE sales' = sales
  BY <1>7 DEF Rework
<1>8. ASSUME NEW u \in Users, Terminate(u) PROVE sales'.status = "cancelled"
  BY <1>8, OrderSeen DEF Terminate, SalesRow
<1>9. CASE Creating
  BY <1>9 DEF Creating, CreateDelivery, CreateOut, CreateIn
<1>10. CASE Beginning
  BY <1>10 DEF Beginning, BeginDelivery, BeginOut, BeginIn, BeginSales, BeginAdjust, Begin
<1>11. CASE MovingGoods
  <2>1. PICK u \in Users :
          \/ Ship(u) \/ Reject(u)
          \/ Look(u) \/ Reach(u) \/ Receive(u)
          \/ SubmitOut(u) \/ ConfirmOut(u) \/ SubmitIn(u) \/ ConfirmIn(u)
          \/ \E quantity \in 0..Cap, status \in {"in_stock", "quality_check"} :
                Adjust(u, quantity, status)
    BY <1>11 DEF MovingGoods
  <2>2. CASE Ship(u) \/ Reject(u)
    BY <1>2, <2>2
  <2>3. CASE ~ (Ship(u) \/ Reject(u))
    BY <2>1, <2>3 DEF Look, Reach, Receive, SubmitOut, ConfirmOut, SubmitIn, ConfirmIn, Adjust
  <2> QED
    BY <2>2, <2>3
<1>12. CASE Following
  <2>1. PICK u \in Users :
          \/ \E d \in Deliveries : Reship(u, d)
          \/ Fail(u)
          \/ Rework(u) \/ Terminate(u) \/ Complete(u) \/ Cancel(u) \/ Synchronise(u)
          \/ \E state \in WorkStates \ {"none"} : ChangeWorks(u, state)
    BY <1>12 DEF Following
  <2>2. (\E d \in Deliveries : Reship(u, d)) \/ Fail(u) => sales' = sales
    BY DEF Reship, Fail
  <2> QED
    BY <1>3, <1>4, <1>5, <1>6, <1>7, <1>8, <2>1, <2>2
<1>13. CASE UNCHANGED vars
  BY <1>13 DEF vars
<1> QED
  BY <1>9, <1>10, <1>11, <1>12, <1>13 DEF Next

(* A cancelled order stays cancelled whatever its deliveries, rejections   *)
(* and work orders do, unless an outdated copy of it is written.           *)
THEOREM CancelledStays == Spec => CancelledIsFinal
<1>1. IInv /\ [Next]_vars =>
        [sales.status = "cancelled" /\ "sales" \notin stale' => sales'.status = "cancelled"]_vars
  BY CancelledKept
<1> QED
  BY <1>1, Inductive, PTL DEF Spec, CancelledIsFinal

-----------------------------------------------------------------------------
(* Shipping and stock-out take from the shelf in order, as each sees it.   *)
LEMMA ShippingOldest ==
  ASSUME IInv, NEW u \in Users
  PROVE  ShipsOldest(u)
<1> DEFINE old == req[u]
           d == old.key
           total == Total(delivery[d].load.lines)
<1> SUFFICES ASSUME Reach(u), old.op = "ship"
             PROVE  TakesOldest(old.batches, req'[u].rows, Released)
  BY DEF ShipsOldest
<1>1. old \in RequestRow /\ Proper(old, delivery, out, batch)
  BY RequestKnown DEF IInv
<1>2. d \in Deliveries /\ delivery[d].status # "none" /\ Lines(u) = delivery[d].load.lines
  BY <1>1 DEF Proper, Admitted, DeliveryRequests, OutRequests, Subject, Lines
<1>3. total \in Nat
  BY <1>2, LoadKnown DEF IInv, Documented
<1>4. old.batches \in Shelves
  BY <1>1 DEF RequestRow
<1>5. req'[u].rows = TakeOldest(old.batches, total, Released).rows
  <2>1. req \in [Users -> RequestRow]
    BY DEF IInv, Requesting
  <2>2. req'[u].rows = Planned(u)
    BY <2>1 DEF Reach, RequestRow
  <2> QED
    BY <1>2, <2>2 DEF Planned, Shipment
<1>6. shelf \in Seq(Batches) /\ IsInjective(shelf)
  BY DEF IInv, Shelving
<1> HIDE DEF old, total
<1> QED
  BY <1>3, <1>4, <1>5, <1>6, TakenOldest

LEMMA SendingOutOldest ==
  ASSUME IInv, NEW u \in Users
  PROVE  SendsOutOldest(u)
<1> DEFINE d == Subject(u)
           total == Total(delivery[d].load.lines)
           pick == delivery[d].load.pick
           fit == IF pick = None THEN Batches ELSE {pick}
<1> SUFFICES ASSUME ConfirmOut(u)
             PROVE  TakesOldest(batch, batch', fit)
  BY DEF SendsOutOldest
<1>1. req[u] \in RequestRow /\ Proper(req[u], delivery, out, batch) /\ req[u].op = "confirm_out"
  BY RequestKnown DEF IInv, ConfirmOut
<1>2. d \in Deliveries /\ delivery[d].status # "none"
  BY <1>1 DEF Proper, Admitted, OutRequests, Subject, IInv, Documented
<1>3. total \in Nat
  BY <1>2, LoadKnown DEF IInv, Documented
<1>4. batch' = TakeOldest(batch, total, fit).rows
  BY DEF ConfirmOut, Lines
<1>5. shelf \in Seq(Batches) /\ IsInjective(shelf) /\ batch \in Shelves
  BY DEF IInv, Shelving
<1> HIDE DEF d, total, pick, fit
<1> QED
  BY <1>3, <1>4, <1>5, TakenOldest

(* Goods leave first in, first out: whatever ships or is sent out, no      *)
(* batch is touched while an earlier one it may be taken from has goods.   *)
THEOREM OldestGoesFirst == Spec => OldestFirst
<1>1. IInv /\ [Next]_vars =>
        [\A u \in Users : ShipsOldest(u) /\ SendsOutOldest(u)]_vars
  BY ShippingOldest, SendingOutOldest
<1> QED
  BY <1>1, Inductive, PTL DEF Spec, OldestFirst

-----------------------------------------------------------------------------
(* One request at a time.  What it has read and checked is then what the   *)
(* rows say, until it writes them.                                         *)
OneAtATime == \A u, v \in Users : u # v => req[u] = Idle \/ req[v] = Idle

Knows(u) ==
    LET r == req[u]
    IN /\ r.op \in DeliveryRequests => delivery[r.key].status = r.status
       /\ r.op \in OutRequests => out[r.key].status = r.status
       /\ r.op = "confirm_out" => delivery[out[r.key].delivery].status = "pending"
       /\ r.op \in InRequests => intake[r.key] = r.status /\ r.status # "none"
       /\ r.op \in DeliveryRequests \cup SalesRequests => sales = r.sales
       /\ r.op \in {"ship", "reject"} /\ r.at \in {"looked", "holding"} => batch = r.batches
       /\ r.at = "holding" \/ (r.op \in {"confirm_out", "complete"} /\ r.at = "looked") =>
            r.item = delivered
       /\ r.op = "adjust" => r.batches[r.key] = batch[r.key]
       /\ r.op = "submit_out" => r.at = "loaded"

(* The one exception is the second line of a stock-out, which adds itself  *)
(* to what the first has read.                                             *)
Fresh ==
    /\ stale \subseteq {"item"}
    /\ "item" \in stale => \E load \in Loads : Len(load.lines) > 1
    /\ \A u \in Users : Knows(u)

LEMMA OpsApart ==
  /\ \A op \in DeliveryRequests : op # "idle" /\ op # "adjust" /\ op # "confirm_out"
        /\ op \notin OutRequests /\ op \notin InRequests /\ op \notin SalesRequests
  /\ \A op \in OutRequests : op # "idle" /\ op # "adjust" /\ op # "ship" /\ op # "reject"
        /\ op # "complete" /\ op \notin InRequests /\ op \notin SalesRequests
  /\ \A op \in InRequests : op # "idle" /\ op # "adjust" /\ op # "ship" /\ op # "reject"
        /\ op # "complete" /\ op # "confirm_out" /\ op \notin SalesRequests
  /\ \A op \in SalesRequests : op # "idle" /\ op # "adjust" /\ op # "ship" /\ op # "reject"
        /\ op # "confirm_out"
  /\ Idle.op = "idle" /\ Idle.at = "idle"
  BY DEF DeliveryRequests, OutRequests, InRequests, SalesRequests, Idle

LEMMA IdleKnows ==
  ASSUME NEW u \in Users, req'[u] = Idle
  PROVE  Knows(u)'
<1>1. req'[u].op = "idle" /\ req'[u].at = "idle"
  BY OpsApart
<1> QED
  BY <1>1 DEF Knows, DeliveryRequests, OutRequests, InRequests, SalesRequests

(* The others are idle before and after a step of a request under way.     *)
LEMMA OthersIdle ==
  ASSUME NEW u \in Users, \A v \in Users \ {u} : req'[v] = req[v],
         \/ OneAtATime /\ req[u] # Idle
         \/ OneAtATime' /\ req'[u] # Idle,
         Knows(u)'
  PROVE  \A v \in Users : Knows(v)'
<1>1. \A v \in Users \ {u} : req'[v] = Idle
  BY DEF OneAtATime
<1>2. ASSUME NEW v \in Users \ {u} PROVE Knows(v)'
  BY <1>1, IdleKnows
<1> QED
  BY <1>2

LEMMA EndKnows ==
  ASSUME IInv, NEW u \in Users, OneAtATime, req[u].op # "idle", Done(u)
  PROVE  \A v \in Users : Knows(v)'
<1>1. req[u] # Idle
  BY OpsApart
<1>2. req'[u] = Idle /\ \A v \in Users \ {u} : req'[v] = req[v]
  BY DEF Done, IInv, Requesting
<1>3. Knows(u)'
  BY <1>2, IdleKnows
<1> QED
  BY <1>1, <1>2, <1>3, OthersIdle

(* What a commit notes.                                                    *)
LEMMA UpToDate ==
  ASSUME IInv, Fresh, NEW u \in Users, NEW kinds \in SUBSET Kinds, Note(u, kinds),
         "batch" \in kinds => \/ req[u].op \in {"ship", "reject"} /\ req[u].at = "holding"
                              \/ req[u].op = "adjust",
         "item" \in kinds => \/ req[u].at = "holding"
                             \/ req[u].op \in {"confirm_out", "complete"} /\ req[u].at = "looked",
         "delivery" \in kinds => req[u].op \in DeliveryRequests \cup {"confirm_out"},
         "sales" \in kinds => req[u].op \in DeliveryRequests \cup SalesRequests,
         "document" \in kinds => req[u].op \in OutRequests \cup InRequests
  PROVE  /\ stale' \subseteq {"item"}
         /\ "item" \in stale' => \E load \in Loads : Len(load.lines) > 1
<1> DEFINE r == req[u]
<1>1. Knows(u) /\ r \in RequestRow /\ Proper(r, delivery, out, batch)
  BY RequestKnown DEF Fresh, IInv
<1>2. stale' = stale \cup Outdated(u, kinds) /\ Outdated(u, kinds) \subseteq kinds
  BY DEF Note, Outdated
<1>3. "batch" \notin Outdated(u, kinds)
  <2>1. ASSUME "batch" \in kinds, NEW b \in Touched(u) PROVE batch[b] = r.batches[b]
    <3>1. r.op = "adjust" => Touched(u) = {r.key} /\ r.batches[r.key] = batch[r.key]
      BY <1>1 DEF Touched, Knows
    <3>2. r.op \in {"ship", "reject"} /\ r.at = "holding" => batch = r.batches
      BY <1>1 DEF Knows
    <3> QED
      BY <2>1, <3>1, <3>2
  <2> QED
    BY <2>1 DEF Outdated
<1>4. "delivery" \notin Outdated(u, kinds)
  <2>1. CASE r.op = "confirm_out"
    <3>1. delivery[Subject(u)].status = "pending"
      BY <1>1, <2>1 DEF Knows, Subject, OutRequests
    <3> QED
      BY <2>1, <3>1 DEF Outdated
  <2>2. CASE r.op \in DeliveryRequests
    <3>1. delivery[Subject(u)].status = r.status /\ r.op # "confirm_out"
      BY <1>1, <2>2, OpsApart DEF Knows, Subject
    <3> QED
      BY <2>2, <3>1 DEF Outdated
  <2>3. CASE "delivery" \notin kinds
    BY <1>2, <2>3
  <2> QED
    BY <2>1, <2>2, <2>3
<1>5. "sales" \notin Outdated(u, kinds)
  BY <1>1 DEF Knows, Outdated
<1>6. "document" \notin Outdated(u, kinds)
  <2>1. "document" \in kinds =>
          r.status = IF r.op \in OutRequests THEN out[r.key].status ELSE intake[r.key]
    BY <1>1 DEF Knows
  <2> QED
    BY <2>1 DEF Outdated
<1>7. "item" \in Outdated(u, kinds) => \E load \in Loads : Len(load.lines) > 1
  <2> SUFFICES ASSUME "item" \in Outdated(u, kinds) PROVE \E load \in Loads : Len(load.lines) > 1
    OBVIOUS
  <2>1. "item" \in kinds
    BY <1>2
  <2>2. r.item = delivered
    BY <1>1, <2>1 DEF Knows
  <2>3. r.op = "confirm_out" /\ Len(Lines(u)) > 1
    BY <2>2 DEF Outdated
  <2>4. Subject(u) \in Deliveries /\ delivery[Subject(u)].status # "none"
    <3>1. r.key \in Outs /\ out[r.key].status # "none"
      BY <1>1, <2>3 DEF Proper, Admitted, OutRequests
    <3> QED
      BY <2>3, <3>1 DEF Subject, OutRequests, IInv, Documented
  <2>5. Lines(u) \in SomeLines
    BY <2>4, LoadKnown DEF Lines, IInv, Documented
  <2>6. \E load \in Loads : Lines(u) = load.lines
    <3>1. delivery[Subject(u)] \in DeliveryRow
      BY <2>4 DEF IInv, Documented, Sendings
    <3>2. Lines(u) # << >>
      BY <2>5 DEF SomeLines
    <3>3. NoLoad.lines = << >>
      BY DEF NoLoad
    <3>4. delivery[Subject(u)].load \in
             Loads \cup {NoLoad} \cup {[load EXCEPT !.pick = None] : load \in Loads}
      BY <3>1 DEF DeliveryRow
    <3>5. CASE delivery[Subject(u)].load \in Loads \cup {NoLoad}
      BY <3>2, <3>3, <3>5 DEF Lines
    <3>6. CASE \E load \in Loads : delivery[Subject(u)].load = [load EXCEPT !.pick = None]
      <4>1. PICK load \in Loads : delivery[Subject(u)].load = [load EXCEPT !.pick = None]
        BY <3>6
      <4>2. [load EXCEPT !.pick = None].lines = load.lines
        BY DeliveryAssumption
      <4> QED
        BY <4>1, <4>2 DEF Lines
    <3> QED
      BY <3>4, <3>5, <3>6
  <2> QED
    BY <2>3, <2>6
<1>8. Outdated(u, kinds) \subseteq {"item"}
  BY <1>2, <1>3, <1>4, <1>5, <1>6 DEF Kinds
<1> QED
  BY <1>2, <1>7, <1>8 DEF Fresh

LEMMA Committed ==
  ASSUME IInv, Fresh, OneAtATime, NEW u \in Users, NEW kinds \in SUBSET Kinds,
         Note(u, kinds), Done(u),
         req[u].op # "idle",
         "batch" \in kinds => \/ req[u].op \in {"ship", "reject"} /\ req[u].at = "holding"
                              \/ req[u].op = "adjust",
         "item" \in kinds => \/ req[u].at = "holding"
                             \/ req[u].op \in {"confirm_out", "complete"} /\ req[u].at = "looked",
         "delivery" \in kinds => req[u].op \in DeliveryRequests \cup {"confirm_out"},
         "sales" \in kinds => req[u].op \in DeliveryRequests \cup SalesRequests,
         "document" \in kinds => req[u].op \in OutRequests \cup InRequests
  PROVE  Fresh'
<1>1. /\ stale' \subseteq {"item"}
      /\ "item" \in stale' => \E load \in Loads : Len(load.lines) > 1
  BY UpToDate
<1>2. \A v \in Users : Knows(v)'
  BY EndKnows
<1> QED
  BY <1>1, <1>2 DEF Fresh

LEMMA DeliveriesFresh ==
  ASSUME IInv, Fresh, OneAtATime, NEW u \in Users,
         Ship(u) \/ Reject(u) \/ Receive(u) \/ (\E d \in Deliveries : Reship(u, d))
           \/ Rework(u) \/ Terminate(u)
  PROVE  Fresh'
<1> DEFINE moved == {"batch", "item", "delivery", "sales"}
           alone == {"delivery"}
           ended == {"delivery", "sales"}
<1>1. /\ moved \in SUBSET Kinds /\ alone \in SUBSET Kinds /\ ended \in SUBSET Kinds
      /\ "document" \notin moved /\ "document" \notin ended
      /\ alone \cap {"batch", "item", "sales", "document"} = {}
      /\ "batch" \notin ended /\ "item" \notin ended
  BY DEF Kinds
<1>2. CASE Ship(u) \/ Reject(u)
  <2>1. /\ req[u].op \in {"ship", "reject"} /\ req[u].at = "holding"
        /\ Note(u, moved) /\ Done(u)
    BY <1>2 DEF Ship, Reject
  <2>2. req[u].op \in DeliveryRequests /\ req[u].op # "idle"
    BY <2>1 DEF DeliveryRequests
  <2> HIDE DEF moved
  <2> QED
    BY <1>1, <2>1, <2>2, Committed
<1>3. CASE Receive(u) \/ (\E d \in Deliveries : Reship(u, d)) \/ Rework(u)
  <2>1. req[u].op \in {"receive", "resolve"} /\ Note(u, alone) /\ Done(u)
    BY <1>3 DEF Receive, Reship, Rework
  <2>2. req[u].op \in DeliveryRequests /\ req[u].op # "idle"
    BY <2>1 DEF DeliveryRequests
  <2> HIDE DEF alone
  <2> QED
    BY <1>1, <2>1, <2>2, Committed
<1>4. CASE Terminate(u)
  <2>1. req[u].op = "resolve" /\ Note(u, ended) /\ Done(u)
    BY <1>4 DEF Terminate
  <2>2. req[u].op \in DeliveryRequests /\ req[u].op # "idle"
    BY <2>1 DEF DeliveryRequests
  <2> HIDE DEF ended
  <2> QED
    BY <1>1, <2>1, <2>2, Committed
<1> QED
  BY <1>2, <1>3, <1>4

LEMMA OrderFresh ==
  ASSUME IInv, Fresh, OneAtATime, NEW u \in Users,
         Complete(u) \/ Cancel(u) \/ Synchronise(u)
           \/ (\E state \in WorkStates \ {"none"} : ChangeWorks(u, state))
  PROVE  Fresh'
<1> DEFINE completed == {"sales", "item"}
           alone == {"sales"}
<1>1. /\ completed \in SUBSET Kinds /\ alone \in SUBSET Kinds
      /\ completed \cap {"batch", "delivery", "document"} = {}
      /\ alone \cap {"batch", "item", "delivery", "document"} = {}
  BY DEF Kinds
<1>2. CASE Complete(u)
  <2>1. req[u].op = "complete" /\ req[u].at = "looked" /\ Note(u, completed) /\ Done(u)
    BY <1>2 DEF Complete
  <2>2. req[u].op \in SalesRequests /\ req[u].op # "idle"
    BY <2>1 DEF SalesRequests
  <2> HIDE DEF completed
  <2> QED
    BY <1>1, <2>1, <2>2, Committed
<1>3. CASE ~Complete(u)
  <2>1. req[u].op \in {"cancel", "sync", "work"} /\ Note(u, alone) /\ Done(u)
    BY <1>3 DEF Cancel, SaveLoaded, Synchronise, ChangeWorks
  <2>2. req[u].op \in SalesRequests /\ req[u].op # "idle"
    BY <2>1 DEF SalesRequests
  <2> HIDE DEF alone
  <2> QED
    BY <1>1, <2>1, <2>2, Committed
<1> QED
  BY <1>2, <1>3

LEMMA DocumentsFresh ==
  ASSUME IInv, Fresh, OneAtATime, NEW u \in Users,
         SubmitOut(u) \/ SubmitIn(u) \/ ConfirmOut(u) \/ ConfirmIn(u)
  PROVE  Fresh'
<1> DEFINE sent == {"item", "delivery", "document"}
           alone == {"document"}
           r == req[u]
<1>1. /\ sent \in SUBSET Kinds /\ alone \in SUBSET Kinds
      /\ "batch" \notin sent /\ "sales" \notin sent
      /\ alone \cap {"batch", "item", "delivery", "sales"} = {}
  BY DEF Kinds
<1>2. req \in [Users -> RequestRow] /\ r \in RequestRow /\ Proper(r, delivery, out, batch)
  BY RequestKnown DEF IInv, Requesting
<1>3. CASE ConfirmOut(u)
  <2>1. r.op = "confirm_out" /\ r.at = "looked" /\ Note(u, sent) /\ Done(u)
    BY <1>3 DEF ConfirmOut
  <2>2. r.op \in OutRequests /\ r.op # "idle"
    BY <2>1 DEF OutRequests
  <2> HIDE DEF sent
  <2> QED
    BY <1>1, <2>1, <2>2, Committed
<1>4. CASE ConfirmIn(u)
  <2>1. r.op = "confirm_in" /\ Note(u, alone) /\ Done(u)
    BY <1>4 DEF ConfirmIn
  <2>2. r.op \in InRequests /\ r.op # "idle"
    BY <2>1 DEF InRequests
  <2> HIDE DEF alone
  <2> QED
    BY <1>1, <2>1, <2>2, Committed
<1>5. CASE SubmitOut(u) \/ SubmitIn(u)
  <2>1. r.op \in {"submit_out", "submit_in"} /\ Note(u, alone)
    BY <1>5 DEF SubmitOut, SubmitIn
  <2>2. /\ r.op \in OutRequests \cup InRequests /\ r.op # "idle"
        /\ r.op = "submit_out" => r.op \in OutRequests
        /\ r.op = "submit_in" => r.op \in InRequests
    BY <2>1 DEF OutRequests, InRequests
  <2>3. CASE Done(u)
    <3> HIDE DEF alone
    <3> QED
      BY <1>1, <2>1, <2>2, <2>3, Committed
  <2>4. /\ stale' \subseteq {"item"}
        /\ "item" \in stale' => \E load \in Loads : Len(load.lines) > 1
    <3> HIDE DEF alone
    <3> QED
      BY <1>1, <2>1, <2>2, UpToDate
  <2>5. CASE SubmitOut(u) /\ ~Done(u)
    <3>1. /\ r.op = "submit_out"
          /\ out' = [out EXCEPT ![r.key].status = "submitted"]
          /\ delivery[out[r.key].delivery].status = "pending"
          /\ req' = [req EXCEPT ![u].op = "confirm_out", ![u].status = "submitted"]
          /\ UNCHANGED <<delivery, delivered, batch, sales, intake>>
      BY <2>5 DEF SubmitOut
    <3>2. r.key \in Outs /\ out \in [Outs -> OutRow]
      BY <1>2, <2>2, <3>1 DEF Proper, Admitted, IInv, Documented
    <3>3. out'[r.key].status = "submitted" /\ out'[r.key].delivery = out[r.key].delivery
      BY <3>1, <3>2 DEF OutRow
    <3>4. r.at = "loaded"
      BY <3>1 DEF Fresh, Knows
    <3>5. /\ req'[u].op = "confirm_out" /\ req'[u].status = "submitted"
          /\ req'[u].key = r.key /\ req'[u].at = r.at
          /\ \A v \in Users \ {u} : req'[v] = req[v]
      BY <1>2, <3>1 DEF RequestRow
    <3>6. req'[u].op \notin DeliveryRequests /\ req'[u].op \notin InRequests
          /\ req'[u].op \notin SalesRequests
      BY <3>5 DEF DeliveryRequests, InRequests, SalesRequests
    <3>7. delivery' = delivery
      BY <3>1
    <3> HIDE DEF r
    <3>8. Knows(u)'
      BY <3>1, <3>3, <3>4, <3>5, <3>6, <3>7 DEF Knows
    <3>9. req[u] # Idle
      BY <2>2, OpsApart DEF r
    <3> QED
      BY <2>4, <3>5, <3>8, <3>9, OthersIdle DEF Fresh
  <2>6. CASE SubmitIn(u) /\ ~Done(u)
    <3>1. /\ r.op = "submit_in"
          /\ intake' = [intake EXCEPT ![r.key] = "submitted"]
          /\ req' = [req EXCEPT ![u].op = "confirm_in", ![u].status = "submitted"]
          /\ UNCHANGED <<delivery, delivered, batch, sales, out>>
      BY <2>6 DEF SubmitIn
    <3>2. r.key \in Ins /\ intake \in [Ins -> InStatuses]
      BY <1>2, <2>2, <3>1 DEF Proper, Admitted, IInv, Documented
    <3>3. intake'[r.key] = "submitted"
      BY <3>1, <3>2
    <3>4. r.at # "holding"
      BY <1>2, <3>1 DEF Proper
    <3>5. /\ req'[u].op = "confirm_in" /\ req'[u].status = "submitted"
          /\ req'[u].key = r.key /\ req'[u].at = r.at
          /\ \A v \in Users \ {u} : req'[v] = req[v]
      BY <1>2, <3>1 DEF RequestRow
    <3>6. req'[u].op \notin DeliveryRequests /\ req'[u].op \notin OutRequests
          /\ req'[u].op \notin SalesRequests
      BY <3>5 DEF DeliveryRequests, OutRequests, SalesRequests
    <3> HIDE DEF r
    <3>7. Knows(u)'
      BY <3>3, <3>4, <3>5, <3>6 DEF Knows
    <3>8. req[u] # Idle
      BY <2>2, OpsApart DEF r
    <3> QED
      BY <2>4, <3>5, <3>7, <3>8, OthersIdle DEF Fresh
  <2> QED
    BY <1>5, <2>3, <2>5, <2>6
<1> QED
  BY <1>3, <1>4, <1>5

LEMMA StockFresh ==
  ASSUME IInv, Fresh, OneAtATime, NEW u \in Users,
         NEW quantity \in 0..Cap, NEW status \in {"in_stock", "quality_check"},
         Adjust(u, quantity, status)
  PROVE  Fresh'
<1> DEFINE alone == {"batch"}
<1>1. alone \in SUBSET Kinds /\ alone \cap {"item", "delivery", "sales", "document"} = {}
  BY DEF Kinds
<1>2. req[u].op = "adjust" /\ Note(u, alone) /\ Done(u)
  BY DEF Adjust
<1> HIDE DEF alone
<1> QED
  BY <1>1, <1>2, Committed

(* A request that reads copies what the rows say.                          *)
LEMMA ReadingFresh ==
  ASSUME IInv, Fresh, OneAtATime, NEW u \in Users, Look(u) \/ Reach(u) \/ Fail(u)
  PROVE  Fresh'
<1> DEFINE r == req[u]
<1>1. /\ req \in [Users -> RequestRow] /\ r \in RequestRow /\ Proper(r, delivery, out, batch)
      /\ Knows(u)
  BY RequestKnown DEF IInv, Requesting, Fresh
<1>2. /\ UNCHANGED <<batch, delivery, delivered, sales, out, intake, stale>>
      /\ stale \subseteq {"item"}
      /\ "item" \in stale => \E load \in Loads : Len(load.lines) > 1
  BY DEF Look, Reach, Fail, documents, Fresh
<1>3. CASE Fail(u)
  <2>1. req[u] # Idle /\ req'[u] = Idle /\ \A v \in Users \ {u} : req'[v] = req[v]
    BY <1>1, <1>3 DEF Fail, Done
  <2>2. Knows(u)'
    BY <2>1, IdleKnows
  <2> QED
    BY <1>2, <2>1, <2>2, OthersIdle DEF Fresh
<1>4. CASE Look(u) \/ Reach(u)
  <2>1. /\ r.op \in {"ship", "reject", "confirm_out", "complete"}
        /\ \A v \in Users \ {u} : req'[v] = req[v]
        /\ req'[u].op = r.op /\ req'[u].key = r.key /\ req'[u].status = r.status
        /\ req'[u].sales = r.sales
        /\ req'[u].at = IF r.at = "loaded" THEN "looked" ELSE "holding"
    BY <1>1, <1>4 DEF Look, Reach, RequestRow
  <2>2. r.op \in {"ship", "reject"} => req'[u].batches = batch
    <3>1. CASE Look(u)
      BY <1>1, <3>1 DEF Look, RequestRow
    <3>2. CASE Reach(u)
      <4>1. r.at = "looked" /\ req'[u].batches = r.batches
        BY <1>1, <3>2 DEF Reach, RequestRow
      <4> QED
        BY <1>1, <4>1 DEF Knows
    <3> QED
      BY <1>4, <3>1, <3>2
  <2>3. \/ req'[u].at = "holding"
        \/ r.op \in {"confirm_out", "complete"}
        => req'[u].item = delivered
    <3>1. CASE Look(u)
      BY <1>1, <3>1 DEF Look, RequestRow
    <3>2. CASE Reach(u)
      BY <1>1, <3>2 DEF Reach, RequestRow
    <3> QED
      BY <1>4, <3>1, <3>2
  <2>4. r.op \notin InRequests /\ r.op # "adjust" /\ r.op # "submit_out"
    BY <2>1 DEF InRequests
  <2> HIDE DEF r
  <2>5. Knows(u)'
    BY <1>1, <1>2, <2>1, <2>2, <2>3, <2>4 DEF Knows, r
  <2>6. req[u] # Idle
    BY <2>1, OpsApart DEF r
  <2> QED
    BY <1>2, <2>1, <2>5, <2>6, OthersIdle DEF Fresh
<1> QED
  BY <1>3, <1>4

LEMMA BeginningFresh ==
  ASSUME IInv, Fresh, OneAtATime', Beginning
  PROVE  Fresh'
<1>1. ASSUME NEW u \in Users, NEW op, NEW key, NEW status, Begin(u, op, key, status),
             op \notin {"idle", "adjust"},
             op \in DeliveryRequests => delivery[key].status = status,
             op \in OutRequests => out[key].status = status,
             op = "confirm_out" => delivery[out[key].delivery].status = "pending",
             op \in InRequests => intake[key] = status /\ status # "none"
      PROVE  Fresh'
  <2>1. /\ req \in [Users -> RequestRow] /\ req[u] = Idle
        /\ UNCHANGED <<batch, delivery, delivered, sales, out, intake, stale>>
    BY <1>1 DEF Begin, IInv, Requesting, documents
  <2>2. /\ req'[u].op = op /\ req'[u].key = key /\ req'[u].status = status
        /\ req'[u].at = "loaded"
        /\ req'[u].sales = IF op \in OutRequests \cup InRequests THEN Idle.sales ELSE sales
        /\ \A v \in Users \ {u} : req'[v] = req[v]
    BY <1>1, <2>1 DEF Begin, Idle
  <2>3. Knows(u)'
    <3>1. op \in DeliveryRequests \cup SalesRequests => req'[u].sales = sales
      BY <2>2, OpsApart
    <3> QED
      BY <1>1, <2>1, <2>2, <3>1 DEF Knows
  <2>4. req'[u] # Idle
    BY <1>1, <2>2, OpsApart
  <2> QED
    BY <1>1, <2>1, <2>2, <2>3, <2>4, OthersIdle DEF Fresh
<1>2. PICK u \in Users :
        \/ \E op \in DeliveryRequests, d \in Deliveries : BeginDelivery(u, op, d)
        \/ \E op \in OutRequests, o \in Outs : BeginOut(u, op, o)
        \/ \E op \in InRequests, i \in Ins : BeginIn(u, op, i)
        \/ \E op \in SalesRequests : BeginSales(u, op)
        \/ \E b \in Batches : BeginAdjust(u, b)
  BY DEF Beginning
<1>3. ASSUME NEW op \in DeliveryRequests, NEW d \in Deliveries, BeginDelivery(u, op, d)
      PROVE  Fresh'
  <2>1. Begin(u, op, d, delivery[d].status)
    BY <1>3 DEF BeginDelivery
  <2> QED
    BY <1>1, <2>1, OpsApart
<1>4. ASSUME NEW op \in OutRequests, NEW o \in Outs, BeginOut(u, op, o)
      PROVE  Fresh'
  <2>1. /\ Begin(u, op, o, out[o].status)
        /\ op = "confirm_out" => delivery[out[o].delivery].status = "pending"
    BY <1>4 DEF BeginOut
  <2>2. op \notin DeliveryRequests /\ op \notin InRequests /\ op \notin {"idle", "adjust"}
    BY DEF DeliveryRequests, OutRequests, InRequests
  <2> QED
    BY <1>1, <2>1, <2>2
<1>5. ASSUME NEW op \in InRequests, NEW i \in Ins, BeginIn(u, op, i)
      PROVE  Fresh'
  <2>1. Begin(u, op, i, intake[i]) /\ intake[i] # "none"
    BY <1>5 DEF BeginIn, InRequests
  <2>2. op \notin DeliveryRequests /\ op \notin OutRequests /\ op \notin {"idle", "adjust"}
    BY DEF DeliveryRequests, OutRequests, InRequests
  <2>3. op # "confirm_out"
    BY OpsApart
  <2> QED
    BY <1>1, <2>1, <2>2, <2>3
<1>6. ASSUME NEW op \in SalesRequests, BeginSales(u, op)
      PROVE  Fresh'
  <2>1. Begin(u, op, None, sales.status)
    BY <1>6 DEF BeginSales
  <2>2. op \notin DeliveryRequests /\ op \notin OutRequests /\ op \notin InRequests
        /\ op \notin {"idle", "adjust"} /\ op # "confirm_out"
    BY DEF DeliveryRequests, OutRequests, InRequests, SalesRequests
  <2> QED
    BY <1>1, <2>1, <2>2
<1>7. ASSUME NEW b \in Batches, BeginAdjust(u, b)
      PROVE  Fresh'
  <2>1. /\ req \in [Users -> RequestRow] /\ batch \in Shelves
        /\ UNCHANGED <<batch, delivery, delivered, sales, out, intake, stale>>
    BY <1>7 DEF BeginAdjust, IInv, Requesting, Shelving, documents
  <2>2. /\ req'[u].op = "adjust" /\ req'[u].at = "loaded" /\ req'[u].key = b
        /\ req'[u].batches = [NoBatches EXCEPT ![b] = batch[b]]
        /\ \A v \in Users \ {u} : req'[v] = req[v]
    BY <1>7, <2>1 DEF BeginAdjust, Idle
  <2>3. req'[u].batches[b] = batch[b]
    BY <2>2 DEF NoBatches
  <2>4. /\ req'[u].op \notin DeliveryRequests /\ req'[u].op \notin OutRequests
        /\ req'[u].op \notin InRequests /\ req'[u].op \notin SalesRequests
    BY <2>2 DEF DeliveryRequests, OutRequests, InRequests, SalesRequests
  <2>5. req'[u].op = "adjust" /\ req'[u].at = "loaded" /\ req'[u].key = b
    BY <2>2
  <2>6. Knows(u)'
    BY <2>1, <2>3, <2>4, <2>5 DEF Knows
  <2>7. req'[u] # Idle
    BY <2>5, OpsApart
  <2> QED
    BY <2>1, <2>2, <2>6, <2>7, OthersIdle DEF Fresh
<1> QED
  BY <1>2, <1>3, <1>4, <1>5, <1>6, <1>7

(* New documents are nobody's subject yet.                                 *)
LEMMA CreatingFresh ==
  ASSUME IInv, Fresh, Creating
  PROVE  Fresh'
<1>1. /\ UNCHANGED <<batch, delivered, sales, req, stale>>
      /\ \A d \in Deliveries : delivery[d].status # "none" => delivery'[d] = delivery[d]
      /\ \A o \in Outs : out[o].status # "none" => out'[o] = out[o]
      /\ \A i \in Ins : intake[i] # "none" => intake'[i] = intake[i]
  <2>1. delivery \in [Deliveries -> DeliveryRow] /\ out \in [Outs -> OutRow]
        /\ intake \in [Ins -> InStatuses] /\ NoDelivery.status = "none"
    BY DEF IInv, Documented, Sendings, NoDelivery
  <2>2. CASE \E d \in Deliveries, load \in Loads : CreateDelivery(d, load)
    BY <2>1, <2>2 DEF CreateDelivery, documents
  <2>3. CASE \E o \in Outs, d \in Deliveries : CreateOut(o, d)
    BY <2>1, <2>3 DEF CreateOut
  <2>4. CASE \E i \in Ins : CreateIn(i)
    BY <2>1, <2>4 DEF CreateIn
  <2> QED
    BY <2>2, <2>3, <2>4 DEF Creating
<1>2. ASSUME NEW u \in Users PROVE Knows(u)'
  <2> DEFINE r == req[u]
  <2>1. Knows(u) /\ Proper(r, delivery, out, batch)
    BY RequestKnown DEF Fresh, IInv
  <2>2. r.op \in DeliveryRequests => r.key \in Deliveries /\ delivery[r.key].status # "none"
    BY <2>1 DEF Proper, Admitted
  <2>3. r.op \in OutRequests =>
          /\ r.key \in Outs /\ out[r.key].status # "none"
          /\ out[r.key].delivery \in Deliveries
    BY <2>1 DEF Proper, Admitted, IInv, Documented
  <2>4. r.op \in InRequests => r.key \in Ins /\ intake[r.key] # "none"
    BY <2>1 DEF Proper, Admitted, Knows
  <2>5. r.op = "confirm_out" => r.op \in OutRequests
    BY DEF OutRequests
  <2>6. req' = req
    BY <1>1
  <2> HIDE DEF r
  <2> QED
    BY <1>1, <2>1, <2>2, <2>3, <2>4, <2>5, <2>6 DEF Knows, r
<1> QED
  BY <1>1, <1>2 DEF Fresh

LEMMA FreshStep ==
  ASSUME IInv, Fresh, OneAtATime, OneAtATime', [Next]_vars
  PROVE  Fresh'
<1>1. CASE UNCHANGED vars
  BY <1>1 DEF vars, documents, Fresh, Knows
<1>2. CASE MovingGoods
  BY <1>2, ReadingFresh, DeliveriesFresh, DocumentsFresh, StockFresh DEF MovingGoods
<1>3. CASE Following
  BY <1>3, ReadingFresh, DeliveriesFresh, OrderFresh DEF Following
<1> QED
  BY <1>1, <1>2, <1>3, BeginningFresh, CreatingFresh DEF Next

LEMMA FreshInit == Init => Fresh
<1> SUFFICES ASSUME Init PROVE Fresh
  OBVIOUS
<1>1. \A u \in Users : req[u].op = "idle" /\ req[u].at = "idle"
  BY OpsApart DEF Init
<1>2. \A u \in Users : Knows(u)
  BY <1>1 DEF Knows, DeliveryRequests, OutRequests, InRequests, SalesRequests
<1> QED
  BY <1>2 DEF Init, Fresh

LEMMA AlwaysFresh == Spec /\ []OneAtATime => []Fresh
  BY FreshInit, FreshStep, Inductive, PTL DEF Spec

(* One request at a time, goods are neither lost nor made, whatever is     *)
(* created, shipped, sent out, rejected, resolved, stocked in, adjusted,   *)
(* completed or cancelled in whatever order; and the delivered quantity is *)
(* what was sent and kept, if deliveries have one line each.               *)
AllAccountedFor ==
  /\ Shelved + Sent = Len(FirstBatches) * InitialQuantity + Produced * Cardinality(entered)
                        + adjusted
  /\ (\A load \in Loads : Len(load.lines) = 1) => delivered = Sent

THEOREM AloneGoodsAreConserved == Spec /\ []OneAtATime => []AllAccountedFor
<1>1. Fresh /\ GoodsConserved /\ DeliveredIsSent => AllAccountedFor
  <2> SUFFICES ASSUME Fresh, GoodsConserved, DeliveredIsSent PROVE AllAccountedFor
    OBVIOUS
  <2>1. stale \cap {"batch", "delivery"} = {}
    BY DEF Fresh
  <2>2. (\A load \in Loads : Len(load.lines) = 1) => stale \cap {"item", "delivery"} = {}
    <3>1. SUFFICES ASSUME \A load \in Loads : Len(load.lines) = 1, "item" \in stale
                   PROVE  FALSE
      BY DEF Fresh
    <3>2. PICK load \in Loads : Len(load.lines) > 1
      BY <3>1, Zenon DEF Fresh
    <3>3. Len(load.lines) = 1
      BY <3>1, Zenon
    <3> QED
      BY <3>2, <3>3
  <2> QED
    BY <2>1, <2>2 DEF GoodsConserved, DeliveredIsSent, AllAccountedFor
<1> QED
  BY <1>1, AlwaysFresh, NothingLostOrMade, WhatWasSentIsDelivered, PTL

(* One request at a time, nothing reopens a cancelled order.               *)
THEOREM AloneCancelledStays ==
  Spec /\ []OneAtATime =>
    [][sales.status = "cancelled" => sales'.status = "cancelled"]_vars
<1>1. /\ Fresh'
      /\ [sales.status = "cancelled" /\ "sales" \notin stale'
            => sales'.status = "cancelled"]_vars
      => [sales.status = "cancelled" => sales'.status = "cancelled"]_vars
  BY DEF Fresh
<1> QED
  BY <1>1, AlwaysFresh, CancelledStays, PTL DEF CancelledIsFinal

=============================================================================
