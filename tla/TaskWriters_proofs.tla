------------------------ MODULE TaskWriters_proofs ------------------------
(***************************************************************************)
(* Proofs about TaskWriters: the bounds that survive any interleaving of   *)
(* the writers, and that claims and assignments implement ClaimRegister.   *)
(***************************************************************************)
EXTENDS TaskWriters, SumTheorems, TLAPS

(* What a request is about to write has passed the check of its report.    *)
InstanceInRange == \A r \in Unlocked \ Moves :
    pc[r] \notin {"idle", "refused", "dead"} => mine[r].qty <= Target

(* Which steps a request takes: locking ones and unlocked ones keep apart. *)
Lanes == \A r \in Requests :
    /\ r \in Locked => pc[r] \in {"idle", "locked", "done", "refused", "dead"}
    /\ r \in Unlocked => pc[r] # "locked"

LEMMA RequestFacts ==
    ASSUME NEW r \in Requests
    PROVE  /\ Subject[r] \in Tasks
           /\ r \in Locked => Person[r] \in Operators /\ r \notin Unlocked
           /\ r \in Unlocked \ Moves => Increment[r] \in Nat
           /\ r \in Unlocked => r \notin Locked
  BY RequestAssumption DEF Requests, Unlocked, Locked

LEMMA TypeInit == Init => TypeOK
  BY DEF Init, TypeOK, Row, Instance, Steps, NewRow, NoInstance

(* Every statement keeps the shape of the rows; the stock is kept from     *)
(* going below zero by the check before a reduction.                       *)
LEMMA TypeStep == TypeOK /\ Lanes /\ [Next]_vars => TypeOK'
  <1> SUFFICES ASSUME TypeOK, Lanes, NEW r \in Requests, Advance(r) \/ Die(r)
               PROVE  TypeOK'
    BY DEF Next, vars, TypeOK
  <1> DEFINE t == Subject[r]
  <1>1. /\ row \in [Tasks -> Row] /\ mine \in [Requests -> Instance] /\ t \in Tasks
        /\ pc \in [Requests -> Steps] /\ stock \in Nat /\ journal \in Int
        /\ holder \in [Tasks -> Requests \cup {Nobody}]
        /\ row[t] \in Row /\ mine[r] \in Instance
    BY RequestFacts DEF TypeOK
  <1>2. ASSUME NEW step \in Steps, Goto(r, step) PROVE pc' \in [Requests -> Steps]
    BY <1>1, <1>2 DEF Goto
  <1>3. Unlock(r) => holder' \in [Tasks -> Requests \cup {Nobody}]
    BY <1>1 DEF Unlock
  <1>4. ASSUME NEW new \in Row, row' = [row EXCEPT ![t] = new]
        PROVE  row' \in [Tasks -> Row]
    BY <1>1, <1>4
  <1>5. ASSUME NEW new \in Instance, mine' = [mine EXCEPT ![r] = new]
        PROVE  mine' \in [Requests -> Instance]
    BY <1>1, <1>5
  <1>6. CASE Load(r)
    <2>1. PICK o \in {row[t].operator, Nobody} :
            /\ mine' = [mine EXCEPT ![r] = Loaded(r, o)]
            /\ Goto(r, IF Loaded(r, o).qty <= Target \/ r \in Moves
                       THEN "bump" ELSE "refused")
      BY <1>6 DEF Load
    <2>2. Loaded(r, o) \in Instance
      BY <1>1, <1>6, RequestFacts DEF Loaded, Instance, Row, Load
    <2>3. pc' \in [Requests -> Steps]
      BY <1>2, <2>1 DEF Steps
    <2> QED
      BY <1>1, <1>5, <1>6, <2>1, <2>2, <2>3 DEF Load, TypeOK
  <1>7. ASSUME NEW from, NEW next \in Steps, NEW otherwise \in Steps,
               Bump(r, from, next, otherwise)
        PROVE  TypeOK'
    <2>1. row' \in [Tasks -> Row]
      <3>1. [row[t] EXCEPT !.version = @ + 1] \in Row
        BY <1>1 DEF Row
      <3> QED
        BY <1>1, <1>7, <3>1 DEF Bump
    <2>2. mine' \in [Requests -> Instance]
      <3>1. [mine[r] EXCEPT !.version = @ + 1] \in Instance
        BY <1>1 DEF Instance
      <3> QED
        BY <1>1, <1>7, <3>1 DEF Bump
    <2>3. pc' \in [Requests -> Steps]
      BY <1>2, <1>7 DEF Bump
    <2> QED
      BY <1>1, <1>7, <2>1, <2>2, <2>3 DEF Bump, TypeOK
  <1>8. ASSUME NEW from, NEW next \in Steps, Recheck(r, from, next)
        PROVE  TypeOK'
    <2>1. mine' \in [Requests -> Instance]
      <3>1. [mine[r] EXCEPT !.version = @ + 1] \in Instance
        BY <1>1 DEF Instance
      <3> QED
        BY <1>1, <1>8, <3>1 DEF Recheck
    <2>2. "failed" \in Steps
      BY DEF Steps
    <2>3. pc' \in [Requests -> Steps]
      BY <1>2, <1>8, <2>2 DEF Recheck
    <2> QED
      BY <1>1, <1>8, <2>1, <2>3 DEF Recheck, TypeOK
  <1>9. CASE Write(r)
    <2>1. Written(r) \in Row
      BY <1>1 DEF Written, Row, Instance
    <2>2. row' \in [Tasks -> Row]
      BY <1>4, <1>9, <2>1 DEF Write
    <2>3. pc' \in [Requests -> Steps]
      BY <1>2, <1>9 DEF Write, Steps
    <2> QED
      BY <1>1, <1>9, <2>2, <2>3 DEF Write, TypeOK
  <1>10. CASE Book(r) \/ Unbook(r)
    <2>1. [mine[r] EXCEPT !.accounted = mine[r].qty] \in Instance
      BY <1>1 DEF Instance
    <2>2. mine' \in [Requests -> Instance]
      BY <1>1, <1>10, <2>1 DEF Book, Unbook
    <2>3. mine[r].stock \in Nat /\ mine[r].qty \in Nat /\ mine[r].accounted \in Nat
      BY <1>1 DEF Instance
    <2>4. stock' \in Nat /\ journal' \in Int
      <3>1. Owed(r) \in Int
        BY <2>3 DEF Owed
      <3>2. ASSUME NEW n \in Nat, NEW d \in Int, n >= -d PROVE n + d \in Nat
        BY <3>2
      <3>3. ASSUME NEW n \in Int, NEW d \in Int PROVE n + d \in Int
        BY <3>3
      <3>4. CASE Book(r)
        <4>1. mine[r].stock >= -Owed(r)
          <5>1. Owed(r) > 0
            BY <3>4 DEF Book
          <5> QED
            BY <2>3, <3>1, <5>1
        <4>2. mine[r].stock + Owed(r) \in Nat /\ journal + Owed(r) \in Int
          BY <1>1, <2>3, <3>1, <3>2, <3>3, <4>1
        <4> QED
          BY <3>4, <4>2 DEF Book
      <3>5. CASE Unbook(r)
        <4>1. CASE mine[r].stock >= -Owed(r)
          <5>1. mine[r].stock + Owed(r) \in Nat /\ journal + Owed(r) \in Int
            BY <1>1, <2>3, <3>1, <3>2, <3>3, <4>1
          <5> QED
            BY <3>5, <4>1, <5>1 DEF Unbook
        <4>2. CASE ~(mine[r].stock >= -Owed(r))
          BY <1>1, <3>5, <4>2 DEF Unbook
        <4> QED
          BY <4>1, <4>2
      <3> QED
        BY <1>10, <3>4, <3>5
    <2>5. pc' \in [Requests -> Steps]
      BY <1>2, <1>10 DEF Book, Unbook, Steps
    <2> QED
      BY <1>1, <1>10, <2>2, <2>4, <2>5 DEF Book, Unbook, TypeOK
  <1>11. CASE WriteAgain(r)
    <2>1. [row[t] EXCEPT !.accounted = mine[r].accounted] \in Row
      BY <1>1 DEF Row, Instance
    <2>2. row' \in [Tasks -> Row]
      BY <1>1, <1>11, <2>1 DEF WriteAgain
    <2>3. pc' \in [Requests -> Steps]
      BY <1>2, <1>11 DEF WriteAgain, Steps
    <2> QED
      BY <1>1, <1>11, <2>2, <2>3 DEF WriteAgain, TypeOK
  <1>12. CASE Lock(r)
    <2> DEFINE new == [version |-> row[t].version, qty |-> row[t].qty,
                       accounted |-> row[t].accounted, operator |-> row[t].operator,
                       stock |-> stock]
    <2>1. new \in Instance
      BY <1>1 DEF Row, Instance
    <2>2. mine' \in [Requests -> Instance]
      BY <1>5, <1>12, <2>1 DEF Lock
    <2>3. pc' \in [Requests -> Steps]
      BY <1>2, <1>12 DEF Lock, Steps
    <2> QED
      BY <1>1, <1>12, <2>2, <2>3 DEF Lock, TypeOK
  <1>13. CASE Commit(r)
    <2>1. Person[r] \in Operators
      BY <1>13, RequestFacts DEF Commit, Requests, Lanes
    <2>2. Taken(r) \in Row
      BY <1>1, <2>1 DEF Taken, Row
    <2>3. row' \in [Tasks -> Row]
      BY <1>4, <1>13, <2>2 DEF Commit
    <2> QED
      BY <1>1, <1>2, <1>3, <1>13, <2>3 DEF Commit, TypeOK, Steps
  <1>14. CASE Reaffirm(r) \/ Refuse(r) \/ Die(r)
    BY <1>1, <1>2, <1>3, <1>14 DEF Reaffirm, Refuse, Die, TypeOK, Steps
  <1> QED
    BY <1>6, <1>7, <1>8, <1>9, <1>10, <1>11, <1>12, <1>13, <1>14 DEF Advance, Steps

LEMMA LanesStep == TypeOK /\ Lanes /\ [Next]_vars => Lanes'
  <1> SUFFICES ASSUME TypeOK, Lanes, NEW r \in Requests, Advance(r) \/ Die(r)
               PROVE  Lanes'
    BY DEF Next, vars, Lanes
  <1>1. pc \in [Requests -> Steps] /\ (r \in Locked <=> r \notin Unlocked)
    BY RequestAssumption DEF TypeOK, Requests
  <1>2. ASSUME NEW step, Goto(r, step),
               r \in Locked => step \in {"locked", "done", "refused", "dead"},
               r \in Unlocked => step # "locked"
        PROVE  Lanes'
    BY <1>1, <1>2 DEF Goto, Lanes
  <1>3. /\ pc[r] = "locked" => r \in Locked
        /\ r \in Locked => pc[r] \in {"idle", "locked", "done", "refused", "dead"}
    BY <1>1 DEF Lanes
  <1>4. CASE Load(r)
    <2>1. PICK step \in {"bump", "refused"} : Goto(r, step)
      BY <1>4 DEF Load
    <2> QED
      BY <1>1, <1>2, <1>4, <2>1 DEF Load
  <1>5. CASE Write(r) \/ WriteAgain(r) \/ Book(r) \/ Unbook(r)
    <2>1. PICK step \in {"book", "bump again", "done"} : Goto(r, step)
      BY <1>5 DEF Write, WriteAgain, Book, Unbook
    <2> QED
      BY <1>1, <1>2, <1>3, <1>5, <2>1 DEF Write, WriteAgain, Book, Unbook
  <1>6. ASSUME NEW from \in {"bump", "bump again"}, NEW next \in {"write", "write again"},
               NEW otherwise \in {"recheck", "recheck again"}, Bump(r, from, next, otherwise)
        PROVE  Lanes'
    <2>1. PICK step \in {"write", "write again", "recheck", "recheck again"} : Goto(r, step)
      BY <1>6 DEF Bump
    <2> QED
      BY <1>1, <1>2, <1>3, <1>6, <2>1 DEF Bump
  <1>7. ASSUME NEW from \in {"recheck", "recheck again"}, NEW next \in {"write", "write again"},
               Recheck(r, from, next)
        PROVE  Lanes'
    <2>1. PICK step \in {"write", "write again", "failed"} : Goto(r, step)
      BY <1>7 DEF Recheck
    <2> QED
      BY <1>1, <1>2, <1>3, <1>7, <2>1 DEF Recheck
  <1>8. CASE Lock(r)
    BY <1>1, <1>2, <1>8 DEF Lock
  <1>9. CASE Commit(r) \/ Reaffirm(r) \/ Refuse(r) \/ Die(r)
    BY <1>1, <1>2, <1>3, <1>9 DEF Commit, Reaffirm, Refuse, Die
  <1> QED
    BY <1>4, <1>5, <1>6, <1>7, <1>8, <1>9 DEF Advance

(* Requests never leave the steps of their kind, and no statement leaves a *)
(* row, a lock or the stock that is not one: the stock is never negative.  *)
THEOREM TypeCorrect == Spec => [](TypeOK /\ Lanes)
  <1>1. Init => Lanes
    BY DEF Init, Lanes
  <1> QED
    BY <1>1, TypeInit, TypeStep, LanesStep, PTL DEF Spec

(* Only the write of a checked instance changes a quantity, so the rows    *)
(* and the instances stay in range together.                               *)
LEMMA RangeStep ==
    TypeOK /\ Lanes /\ QuantityInRange /\ InstanceInRange /\ [Next]_vars
      => (QuantityInRange /\ InstanceInRange)'
  <1> SUFFICES ASSUME TypeOK, Lanes, QuantityInRange, InstanceInRange,
                      NEW r \in Requests, Advance(r) \/ Die(r)
               PROVE  (QuantityInRange /\ InstanceInRange)'
    BY DEF Next, vars, QuantityInRange, InstanceInRange
  <1> DEFINE t == Subject[r]
             Kept == /\ \A k \in Tasks : row'[k].qty = row[k].qty
                     /\ \A q \in Requests : mine'[q].qty = mine[q].qty
                     /\ \A q \in Requests \ {r} : pc'[q] = pc[q]
                     /\ pc[r] \notin {"idle", "refused", "dead"} \/ r \in Locked
                        \/ pc'[r] \in {"refused", "dead"}
  <1>1. /\ row \in [Tasks -> Row] /\ mine \in [Requests -> Instance] /\ t \in Tasks
        /\ pc \in [Requests -> Steps] /\ row[t] \in Row /\ mine[r] \in Instance
    BY RequestFacts DEF TypeOK
  <1>2. Kept => (QuantityInRange /\ InstanceInRange)'
    BY RequestAssumption DEF QuantityInRange, InstanceInRange, Requests
  <1>3. CASE Load(r)
    <2>1. PICK o \in {row[t].operator, Nobody} :
            /\ mine' = [mine EXCEPT ![r] = Loaded(r, o)]
            /\ Goto(r, IF Loaded(r, o).qty <= Target \/ r \in Moves
                       THEN "bump" ELSE "refused")
      BY <1>3 DEF Load
    <2>2. pc'[r] = "bump" /\ r \notin Moves => mine'[r].qty <= Target
      BY <1>1, <2>1 DEF Goto
    <2>3. pc'[r] # "bump" => pc'[r] = "refused"
      BY <1>1, <2>1 DEF Goto
    <2>4. \A q \in Requests \ {r} : pc'[q] = pc[q] /\ mine'[q] = mine[q]
      BY <1>1, <2>1 DEF Goto
    <2> QED
      BY <1>3, <2>2, <2>3, <2>4 DEF Load, QuantityInRange, InstanceInRange, Requests
  <1>4. ASSUME NEW from \in {"bump", "bump again"}, NEW next \in Steps,
               NEW otherwise \in Steps, Bump(r, from, next, otherwise)
        PROVE  Kept
    <2>1. \A k \in Tasks : row'[k].qty = row[k].qty
      <3>1. [row[t] EXCEPT !.version = @ + 1].qty = row[t].qty
        BY <1>1 DEF Row
      <3>2. \A k \in Tasks : row'[k] = row[k] \/ (row'[k] = [row[t] EXCEPT !.version = @ + 1] /\ k = t)
        BY <1>1, <1>4 DEF Bump
      <3> QED
        BY <3>1, <3>2
    <2>2. \A q \in Requests : mine'[q].qty = mine[q].qty
      <3>1. [mine[r] EXCEPT !.version = @ + 1].qty = mine[r].qty
        BY <1>1 DEF Instance
      <3>2. \A q \in Requests :
              mine'[q] = mine[q] \/ (mine'[q] = [mine[r] EXCEPT !.version = @ + 1] /\ q = r)
        BY <1>1, <1>4 DEF Bump
      <3> QED
        BY <3>1, <3>2
    <2>3. pc[r] = from /\ \A q \in Requests \ {r} : pc'[q] = pc[q]
      BY <1>1, <1>4 DEF Bump, Goto
    <2> QED
      BY <1>4, <2>1, <2>2, <2>3
  <1>5. ASSUME NEW from \in {"recheck", "recheck again"}, NEW next \in Steps,
               Recheck(r, from, next)
        PROVE  Kept
    <2>1. \A q \in Requests : mine'[q].qty = mine[q].qty
      <3>1. [mine[r] EXCEPT !.version = @ + 1].qty = mine[r].qty
        BY <1>1 DEF Instance
      <3>2. \A q \in Requests :
              mine'[q] = mine[q] \/ (mine'[q] = [mine[r] EXCEPT !.version = @ + 1] /\ q = r)
        BY <1>1, <1>5 DEF Recheck
      <3> QED
        BY <3>1, <3>2
    <2>2. pc[r] = from /\ row' = row /\ \A q \in Requests \ {r} : pc'[q] = pc[q]
      BY <1>1, <1>5 DEF Recheck, Goto
    <2> QED
      BY <1>5, <2>1, <2>2
  <1>6. CASE Write(r)
    <2>1. pc[r] = "write" /\ mine' = mine /\ \A q \in Requests \ {r} : pc'[q] = pc[q]
      BY <1>1, <1>6 DEF Write, Goto
    <2>2. r \in Unlocked
      BY <2>1 DEF Lanes, Requests
    <2>3. Written(r).qty <= Target
      <3>1. CASE r \in Moves
        <4>1. [row[t] EXCEPT !.operator = mine[r].operator].qty = row[t].qty
          BY <1>1 DEF Row
        <4> QED
          BY <1>1, <3>1, <4>1 DEF Written, QuantityInRange
      <3>2. CASE r \notin Moves
        BY <2>1, <2>2, <3>2 DEF Written, InstanceInRange
      <3> QED
        BY <3>1, <3>2
    <2>4. \A k \in Tasks : row'[k] = IF k = t THEN Written(r) ELSE row[k]
      BY <1>1, <1>6 DEF Write
    <2>5. QuantityInRange'
      BY <2>3, <2>4 DEF QuantityInRange
    <2>6. InstanceInRange'
      BY <2>1 DEF InstanceInRange, Requests
    <2> QED
      BY <2>5, <2>6
  <1>7. CASE Book(r) \/ Unbook(r)
    <2>1. \A q \in Requests : mine'[q].qty = mine[q].qty
      <3>1. [mine[r] EXCEPT !.accounted = mine[r].qty].qty = mine[r].qty
        BY <1>1 DEF Instance
      <3>2. \A q \in Requests :
              mine'[q] = mine[q] \/ (mine'[q] = [mine[r] EXCEPT !.accounted = mine[r].qty] /\ q = r)
        BY <1>1, <1>7 DEF Book, Unbook
      <3> QED
        BY <3>1, <3>2
    <2>2. pc[r] = "book" /\ row' = row /\ \A q \in Requests \ {r} : pc'[q] = pc[q]
      BY <1>1, <1>7 DEF Book, Unbook, Goto
    <2> QED
      BY <1>2, <2>1, <2>2
  <1>8. CASE WriteAgain(r)
    <2>1. \A k \in Tasks : row'[k].qty = row[k].qty
      <3>1. [row[t] EXCEPT !.accounted = mine[r].accounted].qty = row[t].qty
        BY <1>1 DEF Row
      <3>2. \A k \in Tasks : row'[k] = row[k]
              \/ (row'[k] = [row[t] EXCEPT !.accounted = mine[r].accounted] /\ k = t)
        BY <1>1, <1>8 DEF WriteAgain
      <3> QED
        BY <3>1, <3>2
    <2>2. pc[r] = "write again" /\ mine' = mine /\ \A q \in Requests \ {r} : pc'[q] = pc[q]
      BY <1>1, <1>8 DEF WriteAgain, Goto
    <2> QED
      BY <1>2, <2>1, <2>2
  <1>9. CASE Lock(r)
    <2>1. r \in Locked /\ r \notin Unlocked /\ row' = row
      BY <1>9, RequestFacts DEF Lock
    <2>2. \A q \in Requests \ {r} : pc'[q] = pc[q] /\ mine'[q] = mine[q]
      BY <1>1, <1>9 DEF Lock, Goto
    <2> QED
      BY <2>1, <2>2 DEF QuantityInRange, InstanceInRange, Requests
  <1>10. CASE Commit(r)
    <2>1. \A k \in Tasks : row'[k].qty = row[k].qty
      <3>1. Taken(r).qty = row[t].qty
        BY DEF Taken
      <3>2. \A k \in Tasks : row'[k] = row[k] \/ (row'[k] = Taken(r) /\ k = t)
        BY <1>1, <1>10 DEF Commit
      <3> QED
        BY <3>1, <3>2
    <2>2. pc[r] = "locked" /\ mine' = mine /\ \A q \in Requests \ {r} : pc'[q] = pc[q]
      BY <1>1, <1>10 DEF Commit, Goto
    <2> QED
      BY <1>2, <2>1, <2>2
  <1>11. CASE Reaffirm(r) \/ Refuse(r) \/ Die(r)
    <2>1. pc[r] \notin {"idle", "refused", "dead"} /\ mine' = mine /\ row' = row
          /\ \A q \in Requests \ {r} : pc'[q] = pc[q]
      BY <1>1, <1>11 DEF Reaffirm, Refuse, Die, Goto, Ended
    <2> QED
      BY <1>2, <2>1
  <1> QED
    BY <1>2, <1>3, <1>4, <1>5, <1>6, <1>7, <1>8, <1>9, <1>10, <1>11 DEF Advance, Steps

(* However many reports, bulk updates, department changes, claims and      *)
(* assignments write the rows, in any order of their statements and with   *)
(* any of them dying, no row reports more than its task has to make.       *)
THEOREM RangeHolds == Spec => []QuantityInRange
  <1>1. Init => QuantityInRange /\ InstanceInRange
    BY RequestAssumption DEF Init, QuantityInRange, InstanceInRange, NewRow, Requests
  <1> QED
    BY <1>1, RangeStep, TypeCorrect, PTL DEF Spec

(* A request that stands between its read and its commit holds the lock of *)
(* the row, so what it has read is still what the row says.                *)
Held == \A r \in Requests : pc[r] = "locked" =>
    /\ holder[Subject[r]] = r
    /\ mine[r].operator = row[Subject[r]].operator

(* Without the requests that take no lock, what is left of Next.           *)
LEMMA LockedNext ==
    ASSUME Unlocked = {}, Lanes, NEW r \in Requests, Advance(r) \/ Die(r)
    PROVE  /\ r \in Locked
           /\ Lock(r) \/ Commit(r) \/ Reaffirm(r) \/ Refuse(r) \/ Die(r)
  <1>1. r \in Locked /\ pc[r] \in {"idle", "locked", "done", "refused", "dead"}
    BY DEF Requests, Lanes
  <1> QED
    BY <1>1 DEF Advance, Load, Bump, Recheck, Write, Book, Unbook, WriteAgain

LEMMA HeldStep ==
    ASSUME Unlocked = {}, TypeOK, Lanes, Held, [Next]_vars
    PROVE  Held'
  <1> SUFFICES ASSUME NEW r \in Requests, Advance(r) \/ Die(r) PROVE Held'
    BY DEF Next, vars, Held
  <1> DEFINE t == Subject[r]
  <1>1. /\ row \in [Tasks -> Row] /\ mine \in [Requests -> Instance] /\ t \in Tasks
        /\ pc \in [Requests -> Steps] /\ holder \in [Tasks -> Requests \cup {Nobody}]
        /\ \A q \in Requests : Subject[q] \in Tasks /\ q # Nobody
    BY RequestFacts, RequestAssumption DEF TypeOK
  <1>2. CASE Lock(r)
    <2>1. holder[t] = Nobody /\ holder' = [holder EXCEPT ![t] = r] /\ row' = row
      BY <1>2 DEF Lock
    <2>2. mine'[r].operator = row[t].operator
          /\ \A q \in Requests \ {r} : mine'[q] = mine[q] /\ pc'[q] = pc[q]
      BY <1>1, <1>2 DEF Lock, Goto
    <2> QED
      BY <1>1, <2>1, <2>2 DEF Held
  <1>3. ASSUME pc[r] = "locked", Unlock(r), mine' = mine, pc'[r] # "locked",
               \A q \in Requests \ {r} : pc'[q] = pc[q],
               \A k \in Tasks \ {t} : row'[k] = row[k]
        PROVE  Held'
    <2>1. holder[t] = r
      BY <1>3 DEF Held
    <2>2. \A k \in Tasks \ {t} : holder'[k] = holder[k]
      BY <1>1, <1>3 DEF Unlock
    <2>3. ASSUME NEW q \in Requests, pc'[q] = "locked"
          PROVE  holder'[Subject[q]] = q /\ mine'[q].operator = row'[Subject[q]].operator
      <3>1. q # r /\ pc[q] = "locked"
        BY <1>3, <2>3
      <3>2. Subject[q] # t /\ Subject[q] \in Tasks
        BY <1>1, <2>1, <3>1 DEF Held
      <3> QED
        BY <1>3, <2>2, <3>1, <3>2 DEF Held
    <2> QED
      BY <2>3 DEF Held
  <1>4. CASE Commit(r) \/ Reaffirm(r) \/ Refuse(r)
    BY <1>1, <1>3, <1>4 DEF Commit, Reaffirm, Refuse, Goto
  <1>5. CASE Die(r)
    <2>1. pc[r] = "locked"
      BY <1>5, LockedNext DEF Die, Lanes, Ended
    <2> QED
      BY <1>1, <1>3, <1>5, <2>1 DEF Die, Goto
  <1> QED
    BY <1>2, <1>4, <1>5, LockedNext

(* A commit is a grant of the register, and so is the success a claimant   *)
(* is answered who has the task already; taking a lock, a refusal and a    *)
(* death change neither the owners nor who was answered with success.      *)
LEMMA RegisterStep ==
    ASSUME Unlocked = {}, TypeOK, Lanes, Held, [Next]_vars
    PROVE  [Register!Next]_<<[t \in Tasks |-> row[t].operator],
                             {r \in Locked : pc[r] = "done"}>>
  <1> DEFINE owner == [k \in Tasks |-> row[k].operator]
             granted == {q \in Locked : pc[q] = "done"}
  <1>1. CASE UNCHANGED vars
    BY <1>1 DEF vars
  <1>2. ASSUME NEW r \in Requests, Advance(r) \/ Die(r)
        PROVE  [Register!Next]_<<owner, granted>>
    <2> DEFINE t == Subject[r]
    <2>1. /\ row \in [Tasks -> Row] /\ t \in Tasks /\ pc \in [Requests -> Steps]
          /\ r \in Locked /\ Locked \subseteq Requests
      BY <1>2, LockedNext, RequestFacts DEF TypeOK, Requests
    <2>2. ASSUME row' = row, pc[r] # "done", pc'[r] # "done",
                 \A q \in Requests \ {r} : pc'[q] = pc[q]
          PROVE  UNCHANGED <<owner, granted>>
      BY <2>1, <2>2
    <2>3. CASE Lock(r)
      BY <2>1, <2>2, <2>3 DEF Lock, Goto
    <2>4. CASE Refuse(r) \/ Die(r)
      BY <2>1, <2>2, <2>4 DEF Refuse, Die, Goto, Ended
    <2>5. CASE Commit(r)
      <3>1. pc[r] = "locked" /\ row' = [row EXCEPT ![t] = Taken(r)]
            /\ pc' = [pc EXCEPT ![r] = "done"]
        BY <2>5 DEF Commit, Goto
      <3>2. r \in Claims => owner[t] \in {Nobody, Person[r]}
        BY <2>1, <2>5, <3>1 DEF Commit, Claimable, Held
      <3>3. Taken(r).operator = Person[r]
        BY DEF Taken
      <3>4. owner' = [owner EXCEPT ![t] = Person[r]]
        BY <2>1, <3>1, <3>3
      <3>5. r \notin granted /\ granted' = granted \cup {r}
        BY <2>1, <3>1
      <3>6. Register!Grant(r)
        BY <3>2, <3>4, <3>5 DEF Register!Grant
      <3> QED
        BY <2>1, <3>6 DEF Register!Next, Locked
    <2>6. CASE Reaffirm(r)
      <3>1. /\ pc[r] = "locked" /\ row' = row /\ pc' = [pc EXCEPT ![r] = "done"]
            /\ mine[r].operator = Person[r]
        BY <2>6 DEF Reaffirm, AlreadyClaimed, Goto
      <3>2. owner[t] = Person[r] /\ owner' = owner
        BY <2>1, <3>1 DEF Held
      <3>3. owner' = [owner EXCEPT ![t] = Person[r]]
        BY <2>1, <3>2
      <3>4. r \notin granted /\ granted' = granted \cup {r}
        BY <2>1, <3>1
      <3>5. Register!Grant(r)
        BY <3>2, <3>3, <3>4 DEF Register!Grant
      <3> QED
        BY <2>1, <3>5 DEF Register!Next, Locked
    <2> QED
      BY <1>2, <2>3, <2>4, <2>5, <2>6, LockedNext
  <1> QED
    BY <1>1, <1>2 DEF Next

(* Claims and assignments, whatever their number and however they          *)
(* interleave and die, hand tasks over one at a time and never grant a     *)
(* claim of a task that somebody else owns: they implement ClaimRegister.  *)
THEOREM ClaimsImplementRegister ==
    ASSUME Unlocked = {}
    PROVE  Spec => ImplementsRegister
  <1>1. Init => Register!Init
    BY DEF Init, Register!Init, NewRow, Locked, Requests
  <1>2. Init => Held
    BY DEF Init, Held
  <1>3. TypeOK /\ Lanes /\ Held /\ [Next]_vars => Held'
    BY HeldStep
  <1>4. TypeOK /\ Lanes /\ Held /\ [Next]_vars
        => [Register!Next]_<<[t \in Tasks |-> row[t].operator],
                             {r \in Locked : pc[r] = "done"}>>
    BY RegisterStep
  <1> QED
    BY <1>1, <1>2, <1>3, <1>4, TypeCorrect, PTL DEF Spec, ImplementsRegister, Register!Spec

-----------------------------------------------------------------------------
(* What a step leaves alone: the other requests, the rows and locks of the *)
(* other tasks and, unless it is the holder's, the lock of its own.        *)
LEMMA Footprint ==
    ASSUME TypeOK, NEW r \in Requests, Advance(r) \/ Die(r)
    PROVE  /\ pc'[r] # "idle"
           /\ \A q \in Requests \ {r} : pc'[q] = pc[q] /\ mine'[q] = mine[q]
           /\ \A k \in Tasks \ {Subject[r]} : row'[k] = row[k] /\ holder'[k] = holder[k]
           /\ r \in Unlocked =>
                \A k \in Tasks : holder[k] # r => holder'[k] = holder[k]
  <1> DEFINE t == Subject[r]
  <1>1. /\ row \in [Tasks -> Row] /\ mine \in [Requests -> Instance] /\ t \in Tasks
        /\ pc \in [Requests -> Steps] /\ holder \in [Tasks -> Requests \cup {Nobody}]
        /\ r \in Unlocked => r \notin Locked
    BY RequestFacts DEF TypeOK
  <1>2. CASE Load(r)
    <2>1. PICK step \in {"bump", "refused"} : Goto(r, step)
      BY <1>2 DEF Load
    <2> QED
      BY <1>1, <1>2, <2>1 DEF Load, Goto
  <1>3. ASSUME NEW from, NEW next \in {"write", "write again"},
               NEW otherwise \in {"recheck", "recheck again"}, Bump(r, from, next, otherwise)
        PROVE  /\ pc'[r] # "idle" /\ UNCHANGED holder
               /\ \A q \in Requests \ {r} : pc'[q] = pc[q] /\ mine'[q] = mine[q]
               /\ \A k \in Tasks \ {t} : row'[k] = row[k]
    <2>1. PICK step \in {"write", "write again", "recheck", "recheck again"} : Goto(r, step)
      BY <1>3 DEF Bump
    <2> QED
      BY <1>1, <1>3, <2>1 DEF Bump, Goto
  <1>4. ASSUME NEW from, NEW next \in {"write", "write again"}, Recheck(r, from, next)
        PROVE  /\ pc'[r] # "idle" /\ UNCHANGED <<row, holder>>
               /\ \A q \in Requests \ {r} : pc'[q] = pc[q] /\ mine'[q] = mine[q]
    <2>1. PICK step \in {"write", "write again", "failed"} : Goto(r, step)
      BY <1>4 DEF Recheck
    <2> QED
      BY <1>1, <1>4, <2>1 DEF Recheck, Goto
  <1>5. CASE Write(r)
    <2>1. PICK step \in {"book", "done"} : Goto(r, step)
      BY <1>5 DEF Write
    <2> QED
      BY <1>1, <1>5, <2>1 DEF Write, Goto
  <1>6. CASE Book(r) \/ Unbook(r) \/ WriteAgain(r)
    BY <1>1, <1>6 DEF Book, Unbook, WriteAgain, Goto
  <1>7. CASE Lock(r)
    BY <1>1, <1>7 DEF Lock, Goto
  <1>8. CASE Commit(r) \/ Reaffirm(r) \/ Refuse(r) \/ Die(r)
    BY <1>1, <1>8 DEF Commit, Reaffirm, Refuse, Die, Unlock, Goto
  <1>9. CASE \/ Bump(r, "bump", "write", "recheck")
             \/ Bump(r, "bump again", "write again", "recheck again")
    BY <1>3, <1>9
  <1>10. CASE Recheck(r, "recheck", "write") \/ Recheck(r, "recheck again", "write again")
    BY <1>4, <1>10
  <1> QED
    BY <1>2, <1>5, <1>6, <1>7, <1>8, <1>9, <1>10 DEF Advance

(* On a quiet task, what a lock holder has read is what the row says, and  *)
(* a claim that succeeded has left the claimant in the row, unless someone *)
(* whom a supervisor has given the task to is there instead.               *)
Reading == \A r \in Requests : pc[r] = "locked" =>
    /\ holder[Subject[r]] = r
    /\ Quiet(Subject[r]) => mine[r].operator = row[Subject[r]].operator

Owned == \A r \in Claims :
    pc[r] = "done" /\ Quiet(Subject[r]) /\ Person[r] \notin AssignedTo(Subject[r])
      => row[Subject[r]].operator \in {Person[r]} \cup AssignedTo(Subject[r])

ApartInv == Reading /\ Owned /\ ClaimsKeepApart

(* A step of a request on a task leaves the claims on all other tasks as   *)
(* they are; one that takes no lock ends the quiet of its own.             *)
LEMMA ApartStep ==
    TypeOK /\ Lanes /\ ApartInv /\ [Next]_vars => ApartInv'
  <1>1. ASSUME UNCHANGED vars, ApartInv PROVE ApartInv'
    BY <1>1 DEF vars, ApartInv, Reading, Owned, ClaimsKeepApart, Quiet, AssignedTo
  <1>2. ASSUME TypeOK, Lanes, ApartInv, NEW r \in Requests, Advance(r) \/ Die(r)
        PROVE  ApartInv'
    <2> DEFINE t == Subject[r]
    <2>1. /\ pc'[r] # "idle"
          /\ \A q \in Requests \ {r} : pc'[q] = pc[q] /\ mine'[q] = mine[q]
          /\ \A k \in Tasks \ {t} : row'[k] = row[k] /\ holder'[k] = holder[k]
          /\ r \in Unlocked => \A k \in Tasks : holder[k] # r => holder'[k] = holder[k]
      BY <1>2, Footprint
    <2>2. /\ row \in [Tasks -> Row] /\ mine \in [Requests -> Instance] /\ t \in Tasks
          /\ pc \in [Requests -> Steps] /\ holder \in [Tasks -> Requests \cup {Nobody}]
          /\ \A q \in Requests : Subject[q] \in Tasks /\ q # Nobody
          /\ Claims \subseteq Locked /\ Locked \subseteq Requests /\ Unlocked \subseteq Requests
          /\ Assigns \subseteq Locked /\ Claims \cap Assigns = {}
          /\ \A q \in Requests : q \in Locked <=> q \notin Unlocked
          /\ \A q \in Locked : Person[q] # Nobody
      BY <1>2, RequestFacts, RequestAssumption DEF TypeOK, Locked, Requests
    <2>3. \A k \in Tasks : Quiet(k)' => Quiet(k) /\ (r \in Unlocked => k # t)
      BY <2>1, <2>2 DEF Quiet
    <2>4. \A k \in Tasks : Nobody \notin AssignedTo(k)
      BY <2>2 DEF AssignedTo
    <2>5. ASSUME \/ r \notin Assigns
                 \/ pc[r] # "done" /\ pc'[r] # "done"
          PROVE  \A k \in Tasks : AssignedTo(k)' = AssignedTo(k)
      BY <2>1, <2>2, <2>5 DEF AssignedTo
    <2>6. \A k \in Tasks \ {t} : AssignedTo(k)' = AssignedTo(k)
      BY <2>1, <2>2 DEF AssignedTo
    <2>7. ASSUME r \in Unlocked \/ pc'[r] # "done",
                 r \in Locked => row' = row /\ pc[r] # "done"
          PROVE  Owned' /\ ClaimsKeepApart'
      <3>1. \A k \in Tasks : AssignedTo(k)' = AssignedTo(k)
        BY <2>2, <2>5, <2>7
      <3>2. Owned'
        BY <1>2, <2>1, <2>2, <2>3, <2>7, <3>1 DEF ApartInv, Owned
      <3>3. ClaimsKeepApart'
        BY <1>2, <2>1, <2>2, <2>3, <2>7, <3>1 DEF ApartInv, ClaimsKeepApart
      <3> QED
        BY <3>2, <3>3
    <2>8. CASE r \in Unlocked
      <3>1. pc'[r] # "locked"
        BY <1>2, <2>2, <2>8, LanesStep DEF Next, Lanes
      <3>2. Reading'
        BY <1>2, <2>1, <2>2, <2>3, <2>8, <3>1 DEF ApartInv, Reading
      <3> QED
        BY <2>2, <2>7, <2>8, <3>2 DEF ApartInv
    <2>9. CASE Lock(r)
      <3>1. /\ r \in Locked /\ holder[t] = Nobody /\ holder' = [holder EXCEPT ![t] = r]
            /\ row' = row /\ pc' = [pc EXCEPT ![r] = "locked"] /\ pc[r] = "idle"
            /\ mine'[r].operator = row[t].operator
        BY <2>2, <2>9 DEF Lock, Goto
      <3>2. Reading'
        BY <1>2, <2>1, <2>2, <2>3, <3>1 DEF ApartInv, Reading
      <3>3. pc'[r] # "done" /\ pc[r] # "done"
        BY <2>2, <3>1
      <3> QED
        BY <2>7, <3>1, <3>2, <3>3 DEF ApartInv
    <2>10. CASE r \in Locked /\ pc[r] = "locked"
                /\ (Commit(r) \/ Reaffirm(r) \/ Refuse(r) \/ Die(r))
      <3>1. holder[t] = r /\ (Quiet(t) => mine[r].operator = row[t].operator)
        BY <1>2, <2>10 DEF ApartInv, Reading
      <3>2. pc'[r] # "locked"
        BY <2>2, <2>10 DEF Commit, Reaffirm, Refuse, Die, Goto
      <3>3. \A q \in Requests : pc'[q] = "locked" => q # r /\ pc[q] = "locked" /\ Subject[q] # t
        BY <1>2, <2>1, <3>1, <3>2 DEF ApartInv, Reading
      <3>4. Reading'
        BY <1>2, <2>1, <2>2, <2>3, <3>3 DEF ApartInv, Reading
      <3>5. CASE Commit(r)
        <4>1. /\ row'[t].operator = Person[r] /\ pc'[r] = "done"
              /\ r \in Claims => mine[r].operator = Nobody
          <5>1. row' = [row EXCEPT ![t] = Taken(r)] /\ Claimable(r)
            BY <3>5 DEF Commit
          <5>2. Taken(r).operator = Person[r]
            BY DEF Taken
          <5>3. r \in Claims => mine[r].operator = Nobody
            BY <5>1 DEF Claimable
          <5> QED
            BY <2>2, <3>5, <5>1, <5>2, <5>3 DEF Commit, Goto
        <4>2. CASE r \in Claims
          <5>1. \A k \in Tasks : AssignedTo(k)' = AssignedTo(k)
            BY <2>2, <2>5, <4>2
          <5>2. ASSUME Quiet(t), NEW s \in Claims, Subject[s] = t, pc[s] = "done"
                PROVE  Person[s] \in AssignedTo(t)
            <6>1. row[t].operator = Nobody
              BY <3>1, <4>1, <4>2, <5>2
            <6>2. Nobody \notin {Person[s]} \cup AssignedTo(t)
              BY <2>2, <2>4
            <6> QED
              BY <1>2, <5>2, <6>1, <6>2 DEF ApartInv, Owned
          <5>3. Owned'
            BY <1>2, <2>1, <2>2, <2>3, <4>1, <5>1, <5>2 DEF ApartInv, Owned
          <5>4. ClaimsKeepApart'
            BY <1>2, <2>1, <2>2, <2>3, <5>1, <5>2 DEF ApartInv, ClaimsKeepApart
          <5> QED
            BY <3>4, <5>3, <5>4 DEF ApartInv
        <4>3. CASE r \notin Claims
          <5>1. r \in Assigns
            BY <2>10, <4>3 DEF Locked
          <5>2. Person[r] \in AssignedTo(t)' /\ AssignedTo(t) \subseteq AssignedTo(t)'
            BY <2>1, <2>2, <4>1, <5>1 DEF AssignedTo
          <5>3. Owned'
            BY <1>2, <2>1, <2>2, <2>3, <2>6, <4>1, <4>3, <5>2 DEF ApartInv, Owned
          <5>4. ClaimsKeepApart'
            BY <1>2, <2>1, <2>2, <2>3, <2>6, <4>3, <5>2 DEF ApartInv, ClaimsKeepApart
          <5> QED
            BY <3>4, <5>3, <5>4 DEF ApartInv
        <4> QED
          BY <4>2, <4>3
      <3>6. CASE Reaffirm(r)
        <4>1. r \in Claims /\ row' = row /\ mine[r].operator = Person[r] /\ pc'[r] = "done"
          BY <2>2, <3>6 DEF Reaffirm, AlreadyClaimed, Goto
        <4>2. \A k \in Tasks : AssignedTo(k)' = AssignedTo(k)
          BY <2>2, <2>5, <4>1
        <4>3. Quiet(t) => row[t].operator = Person[r]
          BY <3>1, <4>1
        <4>4. ASSUME Quiet(t), NEW s \in Claims, Subject[s] = t, pc[s] = "done",
                     Person[s] # Person[r]
              PROVE  {Person[r], Person[s]} \cap AssignedTo(t) # {}
          BY <1>2, <4>3, <4>4 DEF ApartInv, Owned
        <4>5. Owned'
          BY <1>2, <2>1, <2>2, <2>3, <4>1, <4>2, <4>3 DEF ApartInv, Owned
        <4>6. ClaimsKeepApart'
          BY <1>2, <2>1, <2>2, <2>3, <4>1, <4>2, <4>4 DEF ApartInv, ClaimsKeepApart
        <4> QED
          BY <3>4, <4>5, <4>6 DEF ApartInv
      <3>7. CASE Refuse(r) \/ Die(r)
        <4>1. row' = row /\ pc'[r] # "done" /\ pc[r] # "done"
          BY <2>2, <2>10, <3>7 DEF Refuse, Die, Goto
        <4> QED
          BY <2>7, <3>4, <4>1 DEF ApartInv
      <3> QED
        BY <2>10, <3>5, <3>6, <3>7
    <2>11. r \in Locked => \/ Lock(r)
                           \/ /\ pc[r] = "locked"
                              /\ Commit(r) \/ Reaffirm(r) \/ Refuse(r) \/ Die(r)
      <3>1. r \in Locked => r \in Requests /\ pc[r] \in {"idle", "locked", "done", "refused", "dead"}
        BY <1>2 DEF Lanes
      <3>2. r \in Locked => ~Load(r)
        BY <2>2 DEF Load
      <3> QED
        BY <1>2, <3>1, <3>2 DEF Advance, Bump, Recheck, Write, Book, Unbook, WriteAgain,
             Commit, Reaffirm, Refuse, Die, Ended
    <2> QED
      BY <2>2, <2>8, <2>9, <2>10, <2>11
  <1> QED
    BY <1>1, <1>2 DEF Next

(* Two operators never both claim the same task with success while no      *)
(* report, bulk item or department change touches it, whoever dies, unless *)
(* a supervisor has given it to one of them: it takes a request that locks *)
(* no row to lose a claim.                                                 *)
THEOREM QuietClaimsExclude == Spec => []ClaimsKeepApart
  <1>1. Init => ApartInv
    BY RequestAssumption DEF Init, ApartInv, Reading, Owned, ClaimsKeepApart, Locked, Requests
  <1>2. ApartInv => ClaimsKeepApart
    BY DEF ApartInv
  <1> QED
    BY <1>1, <1>2, ApartStep, TypeCorrect, PTL DEF Spec

-----------------------------------------------------------------------------
(* One request at a time: each is answered, refused or dead before the     *)
(* next begins.                                                            *)
Working(r) == pc[r] \notin Ended \cup {"idle"}
Alone(r) == \A s \in Requests \ {r} : ~Working(s)
SerialNext == \E r \in Requests : Alone(r) /\ (Advance(r) \/ Die(r))
SerialSpec == Init /\ [][SerialNext]_vars

(* What came of the reports: which ones the row of a task shows, which     *)
(* ones it says are on stock, and which ones are.                          *)
Reported(t) == {x \in Reports : Subject[x] = t
                   /\ pc[x] \in {"book", "bump again", "write again", "done"}}
Credited(t) == {x \in Reports : Subject[x] = t /\ pc[x] = "done"}
Stocked == {x \in Reports : pc[x] \in {"bump again", "write again", "done"}}
Units(S) == SumFunctionOnSet(Increment, S)

Tally ==
    /\ \A t \in Tasks : row[t].qty = Units(Reported(t)) /\ row[t].accounted = Units(Credited(t))
    /\ stock = Units(Stocked)

NobodyDied == \A r \in Requests : pc[r] # "dead"

(* A bulk item expects a version nobody will write; the others are never   *)
(* disappointed.                                                           *)
Expecting(r) ==
    /\ r \in Bulks => /\ pc[r] \in {"idle", "bump", "recheck", "refused", "failed", "dead"}
                      /\ pc[r] \in {"bump", "recheck"} =>
                           mine[r].version = row[Subject[r]].version + 1
    /\ r \in Moves => pc[r] \in {"idle", "bump", "write", "done", "dead"}
    /\ r \in Reports => pc[r] \notin {"recheck", "recheck again", "locked"}
    /\ r \in Reports \cup Moves /\ pc[r] \in {"bump", "book", "bump again"} =>
         mine[r].version = row[Subject[r]].version

(* What a report holds, by how far it is.                                  *)
Reporting(r) ==
    /\ pc[r] \in {"bump", "write"} =>
         /\ mine[r].accounted = row[Subject[r]].accounted
         /\ mine[r].qty = row[Subject[r]].qty + Increment[r]
         /\ row[Subject[r]].qty = row[Subject[r]].accounted
    /\ pc[r] = "book" =>
         /\ mine[r].accounted = row[Subject[r]].accounted
         /\ mine[r].qty = mine[r].accounted + Increment[r]
    /\ pc[r] \in {"bump again", "write again"} =>
         mine[r].accounted = row[Subject[r]].accounted + Increment[r]

AloneInv ==
    /\ \A r, s \in Requests : Working(r) /\ Working(s) => r = s
    /\ stock = journal
    /\ \A r \in Unlocked : pc[r] \in {"bump", "recheck", "write", "book"} => mine[r].stock = stock
    /\ \A r \in Unlocked : Expecting(r)
    /\ NobodyDied => Tally /\ \A r \in Reports : Reporting(r)

LEMMA UnitsGrow ==
    ASSUME IsFiniteSet(Reports), NEW S \in SUBSET Reports, NEW r \in Reports \ S
    PROVE  Units(S \cup {r}) = Increment[r] + Units(S)
  <1>1. \A x \in Reports : Increment[x] \in Int
    BY RequestAssumption
  <1> QED
    BY <1>1, SumAdd DEF Units

(* The books after a step of one request.                                  *)
LEMMA Counted ==
    ASSUME IsFiniteSet(Reports), NEW r \in Requests,
           \A q \in Requests \ {r} : pc'[q] = pc[q]
    PROVE  LET late == {"book", "bump again", "write again", "done"}
               stored == {"bump again", "write again", "done"}
               t == Subject[r]
           IN /\ \A k : (r \in Reports /\ k = t => (pc[r] \in late <=> pc'[r] \in late))
                          => Units(Reported(k))' = Units(Reported(k))
              /\ \A k : (r \in Reports /\ k = t => (pc[r] = "done" <=> pc'[r] = "done"))
                          => Units(Credited(k))' = Units(Credited(k))
              /\ (r \in Reports => (pc[r] \in stored <=> pc'[r] \in stored))
                   => Units(Stocked)' = Units(Stocked)
              /\ r \in Reports /\ pc[r] \notin late /\ pc'[r] \in late =>
                   Units(Reported(t))' = Increment[r] + Units(Reported(t))
              /\ r \in Reports /\ pc[r] # "done" /\ pc'[r] = "done" =>
                   Units(Credited(t))' = Increment[r] + Units(Credited(t))
              /\ r \in Reports /\ pc[r] \notin stored /\ pc'[r] \in stored =>
                   Units(Stocked)' = Increment[r] + Units(Stocked)
  <1> DEFINE late == {"book", "bump again", "write again", "done"}
             stored == {"bump again", "write again", "done"}
             t == Subject[r]
  <1>1. Reports \subseteq Requests
    BY DEF Requests, Unlocked
  <1>2. ASSUME NEW k, r \in Reports /\ k = t => (pc[r] \in late <=> pc'[r] \in late)
        PROVE  Units(Reported(k))' = Units(Reported(k))
    <2>1. Reported(k)' = Reported(k)
      BY <1>1, <1>2 DEF Reported
    <2> QED
      BY <2>1 DEF Units
  <1>3. ASSUME NEW k, r \in Reports /\ k = t => (pc[r] = "done" <=> pc'[r] = "done")
        PROVE  Units(Credited(k))' = Units(Credited(k))
    <2>1. Credited(k)' = Credited(k)
      BY <1>1, <1>3 DEF Credited
    <2> QED
      BY <2>1 DEF Units
  <1>4. ASSUME r \in Reports => (pc[r] \in stored <=> pc'[r] \in stored)
        PROVE  Units(Stocked)' = Units(Stocked)
    <2>1. Stocked' = Stocked
      BY <1>1, <1>4 DEF Stocked
    <2> QED
      BY <2>1 DEF Units
  <1>5. ASSUME r \in Reports, pc[r] \notin late, pc'[r] \in late
        PROVE  Units(Reported(t))' = Increment[r] + Units(Reported(t))
    <2>1. Reported(t)' = Reported(t) \cup {r} /\ Reported(t) \in SUBSET (Reports \ {r})
      BY <1>1, <1>5 DEF Reported
    <2>2. Units(Reported(t) \cup {r}) = Increment[r] + Units(Reported(t))
      BY <1>5, <2>1, UnitsGrow
    <2> QED
      BY <2>1, <2>2 DEF Units
  <1>6. ASSUME r \in Reports, pc[r] # "done", pc'[r] = "done"
        PROVE  Units(Credited(t))' = Increment[r] + Units(Credited(t))
    <2>1. Credited(t)' = Credited(t) \cup {r} /\ Credited(t) \in SUBSET (Reports \ {r})
      BY <1>1, <1>6 DEF Credited
    <2>2. Units(Credited(t) \cup {r}) = Increment[r] + Units(Credited(t))
      BY <1>6, <2>1, UnitsGrow
    <2> QED
      BY <2>1, <2>2 DEF Units
  <1>7. ASSUME r \in Reports, pc[r] \notin stored, pc'[r] \in stored
        PROVE  Units(Stocked)' = Increment[r] + Units(Stocked)
    <2>1. Stocked' = Stocked \cup {r} /\ Stocked \in SUBSET (Reports \ {r})
      BY <1>1, <1>7 DEF Stocked
    <2>2. Units(Stocked \cup {r}) = Increment[r] + Units(Stocked)
      BY <1>7, <2>1, UnitsGrow
    <2> QED
      BY <2>1, <2>2 DEF Units
  <1> QED
    BY <1>2, <1>3, <1>4, <1>5, <1>6, <1>7

(* With everybody else at rest, what a step says about its own request is  *)
(* all there is to show.                                                   *)
LEMMA AloneFrame ==
    ASSUME TypeOK, AloneInv, NEW r \in Requests, Alone(r),
           \A q \in Requests \ {r} : pc'[q] = pc[q] /\ mine'[q] = mine[q],
           stock' = journal',
           r \in Unlocked =>
               /\ Expecting(r)'
               /\ pc'[r] \in {"bump", "recheck", "write", "book"} => mine'[r].stock = stock',
           NobodyDied /\ NobodyDied' => Tally' /\ (r \in Reports => Reporting(r)'),
           pc[r] # "dead"
    PROVE  AloneInv'
  <1>1. \A q \in Requests \ {r} : ~Working(q) /\ ~Working(q)'
    BY DEF Alone, Working
  <1>2. \A q \in Requests \ {r} : q \in Unlocked => Expecting(q)'
    BY <1>1 DEF AloneInv, Expecting, Working, Ended
  <1>3. \A q \in Unlocked : Expecting(q)'
    BY <1>2 DEF Requests
  <1>4. \A q \in Unlocked : pc'[q] \in {"bump", "recheck", "write", "book"} =>
                               mine'[q].stock = stock'
    BY <1>1 DEF Working, Ended, Requests
  <1>5. ASSUME NobodyDied' PROVE Tally' /\ \A q \in Reports : Reporting(q)'
    <2>1. NobodyDied
      BY <1>5 DEF NobodyDied
    <2>2. \A q \in Requests \ {r} : Reporting(q)'
      BY <1>1 DEF Reporting, Working, Ended
    <2> QED
      BY <1>5, <2>1, <2>2 DEF Requests, Unlocked
  <1> QED
    BY <1>1, <1>3, <1>4, <1>5 DEF AloneInv

(* A step that moves no quantity, and nobody to where quantities count.    *)
LEMMA TallyKept ==
    ASSUME IsFiniteSet(Reports), Tally, NEW r \in Requests,
           \A q \in Requests \ {r} : pc'[q] = pc[q],
           \A k \in Tasks : row'[k].qty = row[k].qty /\ row'[k].accounted = row[k].accounted,
           stock' = stock,
           r \in Reports => \/ {pc[r], pc'[r]} \subseteq {"idle", "bump", "write", "refused"}
                            \/ {pc[r], pc'[r]} \subseteq {"bump again", "write again"}
    PROVE  Tally'
  <1>1. \A k \in Tasks : /\ Units(Reported(k))' = Units(Reported(k))
                         /\ Units(Credited(k))' = Units(Credited(k))
    BY Counted
  <1>2. Units(Stocked)' = Units(Stocked)
    BY Counted
  <1> QED
    BY <1>1, <1>2 DEF Tally

LEMMA AloneUnlocked ==
    ASSUME IsFiniteSet(Reports), TypeOK, Lanes, AloneInv, NEW r \in Requests, Alone(r),
           \/ Load(r) \/ Write(r) \/ Book(r) \/ Unbook(r) \/ WriteAgain(r)
    PROVE  AloneInv'
  <1> DEFINE t == Subject[r]
  <1>1. /\ row \in [Tasks -> Row] /\ mine \in [Requests -> Instance] /\ t \in Tasks
        /\ pc \in [Requests -> Steps] /\ row[t] \in Row /\ mine[r] \in Instance
        /\ stock \in Nat /\ journal \in Int
        /\ r \in Unlocked \ Moves => Increment[r] \in Nat
    BY RequestFacts DEF TypeOK
  <1>2. \A q \in Requests \ {r} : pc'[q] = pc[q] /\ mine'[q] = mine[q]
    BY Footprint DEF Advance
  <1>3. /\ r \in Reports => r \in Unlocked /\ r \notin Moves /\ r \notin Bulks
        /\ r \in Moves => r \in Unlocked /\ r \notin Bulks
        /\ r \in Unlocked => r \in Reports \/ r \in Bulks \/ r \in Moves
    BY RequestAssumption DEF Unlocked
  <1>4. stock = journal /\ (r \in Unlocked => Expecting(r))
        /\ (NobodyDied => Tally /\ (r \in Reports => Reporting(r)))
        /\ (r \in Unlocked /\ pc[r] \in {"bump", "recheck", "write", "book"} =>
              mine[r].stock = stock)
    BY DEF AloneInv
  <1>5. CASE Load(r)
    <2>1. PICK o \in {row[t].operator, Nobody} :
            /\ mine' = [mine EXCEPT ![r] = Loaded(r, o)]
            /\ Goto(r, IF Loaded(r, o).qty <= Target \/ r \in Moves
                       THEN "bump" ELSE "refused")
      BY <1>5 DEF Load
    <2>2. /\ r \in Unlocked /\ pc[r] = "idle" /\ UNCHANGED <<row, stock, journal, holder>>
          /\ pc'[r] \in {"bump", "refused"} /\ (r \in Moves => pc'[r] = "bump")
      BY <1>1, <1>5, <2>1 DEF Load, Goto
    <2>3. /\ mine'[r].stock = stock /\ mine'[r].accounted = row[t].accounted
          /\ r \notin Moves => mine'[r].qty = row[t].qty + Increment[r]
          /\ mine'[r].version = IF r \in Bulks THEN row[t].version + 1 ELSE row[t].version
      BY <1>1, <2>1 DEF Loaded
    <2>4. NobodyDied => row[t].qty = row[t].accounted
      <3>1. Reported(t) = Credited(t)
        BY <2>2 DEF Reported, Credited, Alone, Working, Ended, Requests, Unlocked
      <3> QED
        BY <1>1, <1>4, <3>1 DEF Tally
    <2>5. Expecting(r)'
      BY <1>3, <2>2, <2>3 DEF Expecting
    <2>6. r \in Reports /\ NobodyDied => Reporting(r)'
      BY <1>3, <2>2, <2>3, <2>4 DEF Reporting
    <2>7. NobodyDied => Tally'
      BY <1>2, <1>4, <2>2, TallyKept
    <2> QED
      BY <1>2, <1>4, <2>2, <2>3, <2>5, <2>6, <2>7, AloneFrame
  <1>6. CASE Write(r) /\ r \in Moves
    <2>1. /\ pc[r] = "write" /\ pc'[r] = "done" /\ UNCHANGED <<stock, journal, holder, mine>>
          /\ row' = [row EXCEPT ![t] = [row[t] EXCEPT !.operator = mine[r].operator]]
      BY <1>1, <1>3, <1>6 DEF Write, Written, Goto
    <2>2. \A k \in Tasks : row'[k].qty = row[k].qty /\ row'[k].accounted = row[k].accounted
      <3>1. /\ [row[t] EXCEPT !.operator = mine[r].operator].qty = row[t].qty
            /\ [row[t] EXCEPT !.operator = mine[r].operator].accounted = row[t].accounted
        BY <1>1 DEF Row
      <3> QED
        BY <1>1, <2>1, <3>1
    <2>3. NobodyDied => Tally'
      BY <1>2, <1>3, <1>4, <1>6, <2>1, <2>2, TallyKept
    <2>4. Expecting(r)'
      BY <1>3, <1>6, <2>1 DEF Expecting
    <2> QED
      BY <1>2, <1>3, <1>4, <1>6, <2>1, <2>3, <2>4, AloneFrame
  <1>7. CASE Write(r) /\ r \notin Moves
    <2>1. /\ pc[r] = "write" /\ UNCHANGED <<stock, journal, holder, mine>>
          /\ row' = [row EXCEPT ![t] = Written(r)]
          /\ pc'[r] = IF r \in Reports /\ mine[r].qty # mine[r].accounted
                      THEN "book" ELSE "done"
      BY <1>1, <1>7 DEF Write, Goto
    <2>2. r \in Reports
      BY <1>3, <1>4, <1>7, <2>1 DEF Expecting, Lanes, Requests
    <2>3. /\ row'[t].qty = mine[r].qty /\ row'[t].accounted = mine[r].accounted
          /\ row'[t].version = mine[r].version
      BY <1>1, <1>7, <2>1 DEF Written
    <2>4. Expecting(r)'
      BY <1>3, <2>1, <2>2, <2>3 DEF Expecting
    <2>5. ASSUME NobodyDied PROVE Tally' /\ Reporting(r)'
      <3>1. /\ mine[r].accounted = row[t].accounted /\ row[t].qty = row[t].accounted
            /\ mine[r].qty = row[t].qty + Increment[r] /\ Tally
        BY <1>4, <2>1, <2>2, <2>5 DEF Reporting
      <3>2. Reporting(r)'
        BY <2>1, <2>2, <2>3, <3>1 DEF Reporting
      <3>3. \A k \in Tasks \ {t} : /\ Units(Reported(k))' = Units(Reported(k))
                                   /\ Units(Credited(k))' = Units(Credited(k))
                                   /\ row'[k] = row[k]
        BY <1>1, <1>2, <2>1, Counted
      <3>4. Units(Reported(t))' = Increment[r] + Units(Reported(t))
        BY <1>2, <2>1, <2>2, Counted
      <3>5. Increment[r] \in Nat /\ row[t].qty \in Nat /\ row[t].accounted \in Nat
        BY <1>1, <1>3, <2>2 DEF Row
      <3>6. CASE pc'[r] = "book"
        <4>1. Units(Credited(t))' = Units(Credited(t)) /\ Units(Stocked)' = Units(Stocked)
          BY <1>2, <2>1, <3>6, Counted
        <4> QED
          BY <1>1, <2>1, <2>3, <3>1, <3>2, <3>3, <3>4, <3>5, <4>1 DEF Tally
      <3>7. CASE pc'[r] = "done"
        <4>1. Increment[r] = 0
          BY <2>1, <2>2, <3>1, <3>5, <3>7
        <4>2. /\ Units(Credited(t))' = Increment[r] + Units(Credited(t))
              /\ Units(Stocked)' = Increment[r] + Units(Stocked)
          BY <1>2, <2>1, <2>2, <3>7, Counted
        <4> QED
          BY <1>1, <2>1, <2>3, <3>1, <3>2, <3>3, <3>4, <3>5, <4>1, <4>2 DEF Tally
      <3> QED
        BY <2>1, <3>6, <3>7
    <2> QED
      BY <1>2, <1>3, <1>4, <2>1, <2>2, <2>4, <2>5, AloneFrame
  <1>8. CASE Book(r) \/ Unbook(r)
    <2>1. /\ pc[r] = "book" /\ pc'[r] = "bump again" /\ UNCHANGED <<row, holder>>
          /\ mine' = [mine EXCEPT ![r].accounted = mine[r].qty]
      BY <1>1, <1>8 DEF Book, Unbook, Goto
    <2>2. r \in Reports
      BY <1>3, <1>4, <2>1 DEF Expecting, Lanes, Requests
    <2>3. mine'[r].accounted = mine[r].qty /\ mine'[r].version = mine[r].version
      <3>1. /\ [mine[r] EXCEPT !.accounted = mine[r].qty].accounted = mine[r].qty
            /\ [mine[r] EXCEPT !.accounted = mine[r].qty].version = mine[r].version
        BY <1>1 DEF Instance
      <3> QED
        BY <1>1, <2>1, <3>1
    <2>4. mine[r].stock = stock /\ mine[r].qty \in Nat /\ mine[r].accounted \in Nat
      BY <1>1, <1>3, <1>4, <2>1, <2>2 DEF Instance
    <2>5. stock' = journal'
      BY <1>1, <1>4, <1>8, <2>4 DEF Book, Unbook, Owed
    <2>6. Expecting(r)'
      BY <1>3, <1>4, <2>1, <2>2, <2>3 DEF Expecting
    <2>7. ASSUME NobodyDied PROVE Tally' /\ Reporting(r)'
      <3>1. mine[r].accounted = row[t].accounted /\ mine[r].qty = mine[r].accounted + Increment[r]
        BY <1>4, <2>1, <2>2, <2>7 DEF Reporting
      <3>2. Reporting(r)'
        <4>1. pc'[r] = "bump again" /\ row' = row
          BY <2>1
        <4> QED
          BY <2>3, <3>1, <4>1 DEF Reporting
      <3>3. Increment[r] \in Nat /\ Owed(r) = Increment[r]
        BY <1>1, <1>3, <2>2, <2>4, <3>1 DEF Owed
      <3>4. stock' = stock + Increment[r]
        <4>1. /\ Book(r) => stock' = mine[r].stock + Owed(r)
              /\ Unbook(r) => Owed(r) < 0
          BY DEF Book, Unbook
        <4> QED
          BY <1>8, <2>4, <3>3, <4>1
      <3>5. \A k \in Tasks : /\ Units(Reported(k))' = Units(Reported(k))
                             /\ Units(Credited(k))' = Units(Credited(k))
        BY <1>2, <2>1, Counted
      <3>6. Units(Stocked)' = Increment[r] + Units(Stocked)
        BY <1>2, <2>1, <2>2, Counted
      <3>7. Tally /\ row' = row /\ stock \in Nat
        BY <1>1, <1>4, <2>1, <2>7
      <3> QED
        BY <3>2, <3>3, <3>4, <3>5, <3>6, <3>7 DEF Tally
    <2> QED
      BY <1>2, <1>3, <1>4, <2>1, <2>2, <2>5, <2>6, <2>7, AloneFrame
  <1>9. CASE WriteAgain(r)
    <2>1. /\ pc[r] = "write again" /\ pc'[r] = "done" /\ UNCHANGED <<stock, journal, holder, mine>>
          /\ row' = [row EXCEPT ![t] = [row[t] EXCEPT !.accounted = mine[r].accounted]]
      BY <1>1, <1>9 DEF WriteAgain, Goto
    <2>2. r \in Reports
      BY <1>3, <1>4, <2>1 DEF Expecting, Lanes, Requests
    <2>3. row'[t].qty = row[t].qty /\ row'[t].accounted = mine[r].accounted
      <3>1. /\ [row[t] EXCEPT !.accounted = mine[r].accounted].qty = row[t].qty
            /\ [row[t] EXCEPT !.accounted = mine[r].accounted].accounted = mine[r].accounted
        BY <1>1 DEF Row
      <3> QED
        BY <1>1, <2>1, <3>1
    <2>4. Expecting(r)'
      BY <1>3, <2>1, <2>2 DEF Expecting
    <2>5. ASSUME NobodyDied PROVE Tally' /\ Reporting(r)'
      <3>1. mine[r].accounted = row[t].accounted + Increment[r] /\ Tally
        BY <1>4, <2>1, <2>2, <2>5 DEF Reporting
      <3>2. Reporting(r)'
        <4>1. pc'[r] = "done"
          BY <2>1
        <4> QED
          BY <4>1 DEF Reporting
      <3>3. \A k \in Tasks \ {t} : /\ Units(Credited(k))' = Units(Credited(k))
                                   /\ row'[k] = row[k]
        BY <1>1, <1>2, <2>1, Counted
      <3>4. Units(Credited(t))' = Increment[r] + Units(Credited(t))
        BY <1>2, <2>1, <2>2, Counted
      <3>5. \A k \in Tasks : Units(Reported(k))' = Units(Reported(k))
        BY <1>2, <2>1, Counted
      <3>6. Units(Stocked)' = Units(Stocked)
        BY <1>2, <2>1, Counted
      <3>7. Increment[r] \in Nat /\ row[t].accounted \in Nat
        BY <1>1, <1>3, <2>2 DEF Row
      <3>8. stock' = stock /\ t \in Tasks
        BY <1>1, <2>1
      <3> QED
        BY <2>3, <3>1, <3>2, <3>3, <3>4, <3>5, <3>6, <3>7, <3>8 DEF Tally
    <2> QED
      BY <1>2, <1>3, <1>4, <2>1, <2>2, <2>4, <2>5, AloneFrame
  <1> QED
    BY <1>5, <1>6, <1>7, <1>8, <1>9

(* The version a bulk item expects is never the one there is.              *)
LEMMA NextDiffers == \A v, w : v \in Int /\ w = v + 1 => v # w
  <1> SUFFICES ASSUME NEW v \in Int, v = v + 1 PROVE FALSE
    OBVIOUS
  <1> QED
    BY SMT

LEMMA AloneVersions ==
    ASSUME IsFiniteSet(Reports), TypeOK, Lanes, AloneInv, NEW r \in Requests, Alone(r),
           \/ Bump(r, "bump", "write", "recheck")
           \/ Bump(r, "bump again", "write again", "recheck again")
           \/ Recheck(r, "recheck", "write") \/ Recheck(r, "recheck again", "write again")
    PROVE  AloneInv'
  <1> DEFINE t == Subject[r]
  <1>1. /\ row \in [Tasks -> Row] /\ mine \in [Requests -> Instance] /\ t \in Tasks
        /\ pc \in [Requests -> Steps] /\ row[t] \in Row /\ mine[r] \in Instance
    BY RequestFacts DEF TypeOK
  <1>2. /\ \A q \in Requests \ {r} : pc'[q] = pc[q] /\ mine'[q] = mine[q]
        /\ \A k \in Tasks \ {t} : row'[k] = row[k]
    BY Footprint DEF Advance
  <1>3. /\ r \in Reports => r \in Unlocked /\ r \notin Moves /\ r \notin Bulks
        /\ r \in Moves => r \in Unlocked /\ r \notin Bulks
        /\ r \in Unlocked => r \in Reports \/ r \in Bulks \/ r \in Moves
    BY RequestAssumption DEF Unlocked
  <1>4. stock = journal /\ (r \in Unlocked => Expecting(r))
        /\ (NobodyDied => Tally /\ (r \in Reports => Reporting(r)))
        /\ (r \in Unlocked /\ pc[r] \in {"bump", "recheck", "write", "book"} =>
              mine[r].stock = stock)
    BY DEF AloneInv
  <1>5. r \in Unlocked
    BY DEF Bump, Recheck, Lanes, Requests
  <1>6. CASE r \in Bulks
    <2>1. /\ pc[r] \in {"bump", "recheck"} /\ mine[r].version = row[t].version + 1
          /\ row[t].version \in Int
      <3>1. pc[r] \in {"bump", "recheck"}
        BY <1>4, <1>5, <1>6 DEF Expecting, Bump, Recheck
      <3> QED
        BY <1>1, <1>4, <1>5, <1>6, <3>1 DEF Expecting, Row
    <2>2. row[t].version # mine[r].version
      BY <2>1, NextDiffers
    <2>3. /\ pc'[r] = IF pc[r] = "bump" THEN "recheck" ELSE "failed"
          /\ UNCHANGED <<row, stock, journal, holder, mine>>
      BY <1>1, <2>1, <2>2 DEF Bump, Recheck, Goto
    <2>4. Expecting(r)'
      BY <1>3, <1>6, <2>1, <2>3 DEF Expecting
    <2>5. NobodyDied => Tally'
      BY <1>2, <1>3, <1>4, <1>6, <2>3, TallyKept
    <2>6. pc[r] # "dead" /\ r \notin Reports /\ stock' = journal' /\ mine'[r].stock = mine[r].stock
      BY <1>3, <1>4, <1>6, <2>1, <2>3
    <2>7. pc'[r] \in {"bump", "recheck", "write", "book"} => mine'[r].stock = stock'
      BY <1>4, <1>5, <2>1, <2>3, <2>6
    <2> QED
      BY <1>2, <2>4, <2>5, <2>6, <2>7, AloneFrame
  <1>7. CASE r \in Reports \cup Moves
    <2>1. /\ pc[r] \in {"bump", "bump again"}
          /\ pc[r] = "bump again" => r \in Reports
          /\ mine[r].version = row[t].version
      <3>1. pc[r] \in {"bump", "bump again"} /\ (pc[r] = "bump again" => r \in Reports)
        BY <1>3, <1>4, <1>5, <1>7 DEF Expecting, Bump, Recheck
      <3> QED
        BY <1>4, <1>5, <1>7, <3>1 DEF Expecting
    <2>2. /\ pc'[r] = IF pc[r] = "bump" THEN "write" ELSE "write again"
          /\ row' = [row EXCEPT ![t].version = @ + 1]
          /\ mine' = [mine EXCEPT ![r].version = @ + 1]
          /\ UNCHANGED <<stock, journal, holder>>
      BY <1>1, <2>1 DEF Bump, Recheck, Goto
    <2>3. /\ mine'[r].qty = mine[r].qty /\ mine'[r].accounted = mine[r].accounted
          /\ mine'[r].stock = mine[r].stock
      <3>1. mine'[r] = [mine[r] EXCEPT !.version = @ + 1]
        BY <1>1, <2>2
      <3> QED
        BY <1>1, <3>1 DEF Instance
    <2>4. \A k \in Tasks : row'[k].qty = row[k].qty /\ row'[k].accounted = row[k].accounted
      <3>1. row'[t] = [row[t] EXCEPT !.version = @ + 1]
        BY <1>1, <2>2
      <3>2. row'[t].qty = row[t].qty /\ row'[t].accounted = row[t].accounted
        BY <1>1, <3>1 DEF Row
      <3> QED
        BY <1>2, <3>2
    <2>5. /\ pc'[r] = IF pc[r] = "bump" THEN "write" ELSE "write again"
          /\ stock' = stock /\ journal' = journal
      BY <2>2
    <2>6. NobodyDied => Tally'
      BY <1>2, <1>4, <2>1, <2>4, <2>5, TallyKept
    <2>7. Expecting(r)'
      BY <1>3, <1>7, <2>1, <2>5 DEF Expecting
    <2>8. r \in Reports /\ NobodyDied => Reporting(r)'
      BY <1>1, <1>4, <2>1, <2>3, <2>4, <2>5 DEF Reporting
    <2>9. pc'[r] \in {"bump", "recheck", "write", "book"} => mine'[r].stock = stock'
      BY <1>4, <1>5, <2>1, <2>3, <2>5
    <2>10. stock' = journal' /\ pc[r] # "dead"
      BY <1>4, <2>1, <2>5
    <2> QED
      BY <1>2, <2>6, <2>7, <2>8, <2>9, <2>10, AloneFrame
  <1> QED
    BY <1>3, <1>5, <1>6, <1>7

LEMMA AloneOthers ==
    ASSUME IsFiniteSet(Reports), TypeOK, Lanes, AloneInv, NEW r \in Requests, Alone(r),
           \/ Lock(r) \/ Commit(r) \/ Reaffirm(r) \/ Refuse(r) \/ Die(r)
    PROVE  AloneInv'
  <1> DEFINE t == Subject[r]
  <1>1. /\ row \in [Tasks -> Row] /\ t \in Tasks /\ pc \in [Requests -> Steps]
        /\ row[t] \in Row /\ stock = journal
        /\ NobodyDied => Tally
    BY RequestFacts DEF TypeOK, AloneInv
  <1>2. \A q \in Requests \ {r} : pc'[q] = pc[q] /\ mine'[q] = mine[q]
    BY Footprint DEF Advance
  <1>3. UNCHANGED <<stock, journal>>
    BY DEF Lock, Commit, Reaffirm, Refuse, Die
  <1>4. r \in Reports => r \in Unlocked
    BY DEF Unlocked
  <1>5. CASE Die(r)
    <2>1. pc[r] # "dead" /\ pc'[r] = "dead"
      BY <1>1, <1>5 DEF Die, Goto, Ended
    <2>2. r \in Unlocked => Expecting(r)'
      BY <2>1 DEF Expecting
    <2>3. ~NobodyDied'
      BY <2>1 DEF NobodyDied
    <2> QED
      BY <1>1, <1>2, <1>3, <2>1, <2>2, <2>3, AloneFrame
  <1>6. CASE Lock(r) \/ Commit(r) \/ Reaffirm(r) \/ Refuse(r)
    <2>1. r \notin Unlocked /\ pc[r] # "dead"
      BY <1>6, RequestFacts DEF Lock, Commit, Reaffirm, Refuse, Lanes
    <2>2. \A k \in Tasks : row'[k].qty = row[k].qty /\ row'[k].accounted = row[k].accounted
      <3>1. Taken(r).qty = row[t].qty /\ Taken(r).accounted = row[t].accounted
        BY DEF Taken
      <3>2. row' = row \/ row' = [row EXCEPT ![t] = Taken(r)]
        BY <1>6 DEF Lock, Commit, Reaffirm, Refuse
      <3> QED
        BY <1>1, <3>1, <3>2
    <2>3. NobodyDied => Tally'
      BY <1>1, <1>2, <1>3, <1>4, <2>1, <2>2, TallyKept
    <2> QED
      BY <1>1, <1>2, <1>3, <1>4, <2>1, <2>3, AloneFrame
  <1> QED
    BY <1>5, <1>6

LEMMA AloneStep ==
    ASSUME IsFiniteSet(Reports), TypeOK, Lanes, AloneInv, [SerialNext]_vars
    PROVE  AloneInv'
  <1>1. CASE UNCHANGED vars
    <2>1. Tally' = Tally
      BY <1>1 DEF vars, Tally, Reported, Credited, Stocked, Units
    <2>2. NobodyDied' = NobodyDied /\ \A r : Working(r)' = Working(r)
      BY <1>1 DEF vars, NobodyDied, Working
    <2>3. \A r : Expecting(r)' = Expecting(r) /\ Reporting(r)' = Reporting(r)
      BY <1>1 DEF vars, Expecting, Reporting
    <2> QED
      BY <1>1, <2>1, <2>2, <2>3 DEF vars, AloneInv
  <1>2. ASSUME NEW r \in Requests, Alone(r), Advance(r) \/ Die(r) PROVE AloneInv'
    BY <1>2, AloneUnlocked, AloneVersions, AloneOthers DEF Advance
  <1> QED
    BY <1>1, <1>2 DEF SerialNext

LEMMA AloneInit ==
    ASSUME IsFiniteSet(Reports), Init
    PROVE  AloneInv
  <1>1. \A r \in Requests : pc[r] = "idle"
    BY DEF Init
  <1>2. Reports \subseteq Requests /\ Unlocked \subseteq Requests
    BY DEF Requests, Unlocked
  <1>3. (\A t : Reported(t) = {} /\ Credited(t) = {}) /\ Stocked = {}
    BY <1>1, <1>2 DEF Reported, Credited, Stocked
  <1>4. Units({}) = 0
    BY SumEmpty DEF Units
  <1>5. Tally
    BY <1>3, <1>4 DEF Tally, Init, NewRow
  <1>6. \A r \in Unlocked : Expecting(r)
    BY <1>1, <1>2 DEF Expecting
  <1>7. \A r \in Reports : Reporting(r)
    BY <1>1, <1>2 DEF Reporting
  <1>8. stock = journal /\ \A r \in Requests : ~Working(r)
    BY <1>1 DEF Init, Working
  <1> QED
    BY <1>1, <1>2, <1>5, <1>6, <1>7, <1>8 DEF AloneInv

(* As long as one request is answered before the next begins, the stock is *)
(* what its journal says; and unless a worker died, once all requests are  *)
(* answered, every row has exactly the quantities of its accepted reports, *)
(* says that all of them are on stock, and the stock has all of them: no   *)
(* report is lost, booked twice or forgotten.                              *)
ReportsAreCounted ==
    /\ stock = journal
    /\ NobodyDied /\ (\A r \in Requests : ~Working(r)) =>
         /\ \A t \in Tasks : row[t].qty = Units(Credited(t)) /\ row[t].accounted = row[t].qty
         /\ stock = Units({x \in Reports : pc[x] = "done"})

(* A bulk item alone never gets to write.                                  *)
BulksFail == \A b \in Bulks : pc[b] \notin {"write", "done"}

THEOREM AloneReportsAreCounted ==
    ASSUME IsFiniteSet(Reports)
    PROVE  SerialSpec => [](ReportsAreCounted /\ BulksFail)
  <1>1. AloneInv => ReportsAreCounted
    <2> SUFFICES ASSUME AloneInv PROVE ReportsAreCounted
      OBVIOUS
    <2>1. stock = journal
      BY DEF AloneInv
    <2>2. ASSUME NobodyDied, \A r \in Requests : ~Working(r)
          PROVE  /\ \A t \in Tasks : /\ row[t].qty = Units(Credited(t))
                                     /\ row[t].accounted = row[t].qty
                 /\ stock = Units({x \in Reports : pc[x] = "done"})
      <3>1. \A x \in Reports : pc[x] \in Ended \cup {"idle"}
        BY <2>2 DEF Working, Requests, Unlocked
      <3>2. /\ \A t : Reported(t) = Credited(t)
            /\ Stocked = {x \in Reports : pc[x] = "done"}
        BY <3>1 DEF Reported, Credited, Stocked, Ended
      <3>3. Tally
        BY <2>2 DEF AloneInv
      <3> QED
        BY <3>2, <3>3 DEF Tally
    <2> QED
      BY <2>1, <2>2 DEF ReportsAreCounted
  <1>2. AloneInv => BulksFail
    BY DEF AloneInv, BulksFail, Expecting, Unlocked
  <1>3. [SerialNext]_vars => [Next]_vars
    BY DEF SerialNext, Next
  <1>4. TypeOK /\ Lanes /\ AloneInv /\ [SerialNext]_vars => AloneInv'
    BY AloneStep
  <1>5. Init => AloneInv
    BY AloneInit
  <1>6. SerialSpec => Spec
    BY <1>3, PTL DEF SerialSpec, Spec
  <1> QED
    BY <1>1, <1>2, <1>4, <1>5, <1>6, TypeCorrect, PTL DEF SerialSpec

=============================================================================
