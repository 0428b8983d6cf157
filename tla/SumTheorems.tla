---------------------------- MODULE SumTheorems ----------------------------
(***************************************************************************)
(* What SumFunctionOnSet of the community modules computes, and how        *)
(* FoldLeft is unfolded.                                                   *)
(*                                                                         *)
(* Reservations, allocations, payments and goods are sums over finite sets *)
(* of rows; the invariants about them need to know what happens to a sum   *)
(* when a row changes, comes or goes.  The proofs go by induction on finite*)
(* sets, in the form that a set of counterexamples has a smallest element. *)
(* A fold over a sequence is a function on sets of indices: what keeps a   *)
(* set A closed at each step holds for the result, once that function is   *)
(* known to exist.                                                         *)
(***************************************************************************)
EXTENDS Integers, FiniteSetsExt, Functions, FiniteSetTheorems, WellFoundedInduction, TLAPS

(* A set of subsets of S which contains a set whenever it contains all     *)
(* smaller ones contains them all.                                         *)
LEMMA SubsetInduction ==
  ASSUME NEW S, IsFiniteSet(S), NEW Q,
         \A T \in SUBSET S : (\A U \in SUBSET T : U # T => U \in Q) => T \in Q
  PROVE  \A T \in SUBSET S : T \in Q
<1> DEFINE C == {T \in SUBSET S : T \notin Q}
<1>1. SUFFICES ASSUME C # {} PROVE FALSE
  OBVIOUS
<1>2. IsWellFoundedOn(StrictSubsetOrdering(S), SUBSET S)
  BY FS_StrictSubsetOrderingWellFounded, FS_FiniteSubsetsOfFinite
<1>3. C \subseteq SUBSET S
  OBVIOUS
<1>4. PICK T \in C : \A U \in C : <<U, T>> \notin StrictSubsetOrdering(S)
  <2> HIDE DEF C
  <2> QED
    BY <1>1, <1>2, <1>3, WFMin
<1>5. ASSUME NEW U \in SUBSET T, U # T PROVE U \in Q
  BY <1>4, <1>5 DEF StrictSubsetOrdering
<1> QED
  BY <1>4, <1>5

-----------------------------------------------------------------------------
(* The function which the sum is computed by.                              *)
Pick(s) == CHOOSE x \in s : TRUE
Step(f, g, s) == IF s = {} THEN 0 ELSE f[Pick(s)] + g[s \ {Pick(s)}]
Sums(f, S, g) == g = [s \in SUBSET S |-> Step(f, g, s)]

LEMMA PickIn == \A s : s # {} => Pick(s) \in s
  BY DEF Pick

LEMMA SumUnfolded ==
  ASSUME NEW f, NEW S
  PROVE  SumFunctionOnSet(f, S) = (CHOOSE g : Sums(f, S, g))[S]
  BY DEF SumFunctionOnSet, FoldFunctionOnSet, MapThenFoldSet, Sums, Step, Pick

(* Functions for two sets agree where both are defined.                    *)
LEMMA SumsAgree ==
  ASSUME NEW S, IsFiniteSet(S), NEW T \in SUBSET S, NEW f, NEW g, NEW h,
         Sums(f, S, g), Sums(f, T, h)
  PROVE  g[T] = h[T]
<1> DEFINE Q == {U \in SUBSET T : g[U] = h[U]}
<1>1. IsFiniteSet(T)
  BY FS_Subset
<1>2. ASSUME NEW U \in SUBSET T, \A V \in SUBSET U : V # U => V \in Q
      PROVE  U \in Q
  <2>1. U \in SUBSET S
    OBVIOUS
  <2>2. g[U] = Step(f, g, U) /\ h[U] = Step(f, h, U)
    BY <2>1 DEF Sums
  <2>3. CASE U = {}
    BY <2>2, <2>3 DEF Step
  <2>4. CASE U # {}
    <3>1. U \ {Pick(U)} \in Q
      BY <1>2, <2>4, PickIn
    <3> QED
      BY <2>2, <2>4, <3>1 DEF Step
  <2> QED
    BY <2>3, <2>4
<1>3. \A U \in SUBSET T : U \in Q
  <2> HIDE DEF Q
  <2> QED
    BY <1>1, <1>2, SubsetInduction
<1> QED
  BY <1>3

LEMMA SumsExist ==
  ASSUME NEW S, IsFiniteSet(S), NEW f
  PROVE  \A T \in SUBSET S : \E g : Sums(f, T, g)
<1> DEFINE Q == {U \in SUBSET S : \E g : Sums(f, U, g)}
           Fn(U) == CHOOSE g : Sums(f, U, g)
<1>1. \A U \in Q : Sums(f, U, Fn(U))
  OBVIOUS
<1>2. ASSUME NEW T \in SUBSET S, \A U \in SUBSET T : U # T => U \in Q
      PROVE  T \in Q
  <2> DEFINE Rest(s) == s \ {Pick(s)}
             F == [s \in SUBSET T |->
                     IF s = {} THEN 0 ELSE f[Pick(s)] + Fn(Rest(s))[Rest(s)]]
  <2>1. ASSUME NEW s \in SUBSET T, s # {}
        PROVE  F[Rest(s)] = Fn(Rest(s))[Rest(s)]
    <3> DEFINE u == Rest(s)
    <3>1. u \in SUBSET T /\ u \in Q
      BY <1>2, <2>1, PickIn
    <3>2. Sums(f, u, Fn(u))
      BY <1>1, <3>1
    <3>3. Fn(u)[u] = Step(f, Fn(u), u)
      <4> HIDE DEF u, Fn
      <4> QED
        BY <3>2 DEF Sums
    <3>4. CASE u = {}
      BY <3>1, <3>3, <3>4 DEF Step
    <3>5. CASE u # {}
      <4>1. Rest(u) \in SUBSET u /\ Rest(u) \in Q
        BY <1>2, <3>1, <3>5, PickIn
      <4>2. Sums(f, Rest(u), Fn(Rest(u)))
        BY <1>1, <4>1
      <4>3. IsFiniteSet(u)
        BY <3>1, FS_Subset
      <4>4. Fn(u)[Rest(u)] = Fn(Rest(u))[Rest(u)]
        <5> HIDE DEF u, Fn, Rest
        <5> QED
          BY <3>2, <4>1, <4>2, <4>3, SumsAgree
      <4>5. F[u] = f[Pick(u)] + Fn(Rest(u))[Rest(u)]
        BY <3>1, <3>5
      <4> QED
        BY <3>3, <3>5, <4>4, <4>5 DEF Step
    <3> QED
      BY <3>4, <3>5
  <2>2. ASSUME NEW s \in SUBSET T PROVE F[s] = Step(f, F, s)
    <3>1. F[s] = IF s = {} THEN 0 ELSE f[Pick(s)] + Fn(Rest(s))[Rest(s)]
      <4> HIDE DEF Fn, Rest
      <4> QED
        OBVIOUS
    <3>2. CASE s = {}
      BY <3>1, <3>2 DEF Step
    <3>3. CASE s # {}
      <4>1. F[Rest(s)] = Fn(Rest(s))[Rest(s)]
        BY <2>1, <3>3
      <4> HIDE DEF Fn, F
      <4> QED
        BY <3>1, <3>3, <4>1 DEF Step
    <3> QED
      BY <3>2, <3>3
  <2>3. Sums(f, T, F)
    BY <2>2 DEF Sums
  <2> QED
    BY <2>3
<1>3. \A T \in SUBSET S : T \in Q
  <2> HIDE DEF Q
  <2> QED
    BY <1>2, SubsetInduction
<1> QED
  BY <1>3

-----------------------------------------------------------------------------
LEMMA SumEmpty ==
  ASSUME NEW f
  PROVE  SumFunctionOnSet(f, {}) = 0
<1> DEFINE g == CHOOSE g : Sums(f, {}, g)
<1>1. Sums(f, {}, g)
  BY FS_EmptySet, SumsExist
<1>2. g[{}] = Step(f, g, {})
  BY <1>1 DEF Sums
<1> QED
  BY <1>2, SumUnfolded DEF Step

LEMMA SumPick ==
  ASSUME NEW f, NEW S, IsFiniteSet(S), S # {}
  PROVE  SumFunctionOnSet(f, S) = f[Pick(S)] + SumFunctionOnSet(f, S \ {Pick(S)})
<1> DEFINE Fn(U) == CHOOSE g : Sums(f, U, g)
           R == S \ {Pick(S)}
<1>1. \A U \in SUBSET S : Sums(f, U, Fn(U))
  BY SumsExist
<1>2. Fn(S)[S] = f[Pick(S)] + Fn(S)[R]
  <2>1. Sums(f, S, Fn(S))
    BY <1>1
  <2> HIDE DEF Fn
  <2> QED
    BY <2>1 DEF Sums, Step
<1>3. Fn(S)[R] = Fn(R)[R]
  <2>1. Sums(f, S, Fn(S)) /\ Sums(f, R, Fn(R))
    BY <1>1
  <2> HIDE DEF Fn
  <2> QED
    BY <2>1, SumsAgree
<1> QED
  BY <1>2, <1>3, SumUnfolded

(* Sums of integers are integers.                                          *)
LEMMA SumIsInt ==
  ASSUME NEW f, NEW S, IsFiniteSet(S), \A x \in S : f[x] \in Int
  PROVE  SumFunctionOnSet(f, S) \in Int
<1> DEFINE Q == {T \in SUBSET S : SumFunctionOnSet(f, T) \in Int}
<1>1. ASSUME NEW T \in SUBSET S, \A U \in SUBSET T : U # T => U \in Q
      PROVE  T \in Q
  <2>1. CASE T = {}
    BY <2>1, SumEmpty
  <2>2. CASE T # {}
    <3>1. Pick(T) \in T
      BY <2>2, PickIn
    <3>2. T \ {Pick(T)} \in Q
      BY <1>1, <3>1
    <3>3. IsFiniteSet(T)
      BY FS_Subset
    <3>4. SumFunctionOnSet(f, T) = f[Pick(T)] + SumFunctionOnSet(f, T \ {Pick(T)})
      BY <2>2, <3>3, SumPick
    <3> QED
      BY <3>1, <3>2, <3>4
  <2> QED
    BY <2>1, <2>2
<1>2. \A T \in SUBSET S : T \in Q
  <2> HIDE DEF Q
  <2> QED
    BY <1>1, SubsetInduction
<1> QED
  BY <1>2

(* A sum is determined by the values on its set.                           *)
LEMMA SumSame ==
  ASSUME NEW f, NEW g, NEW S, IsFiniteSet(S), \A x \in S : f[x] = g[x]
  PROVE  SumFunctionOnSet(f, S) = SumFunctionOnSet(g, S)
<1> DEFINE Q == {T \in SUBSET S : SumFunctionOnSet(f, T) = SumFunctionOnSet(g, T)}
<1>1. ASSUME NEW T \in SUBSET S, \A U \in SUBSET T : U # T => U \in Q
      PROVE  T \in Q
  <2>1. CASE T = {}
    BY <2>1, SumEmpty
  <2>2. CASE T # {}
    <3>1. Pick(T) \in T
      BY <2>2, PickIn
    <3>2. T \ {Pick(T)} \in Q
      BY <1>1, <3>1
    <3>3. IsFiniteSet(T)
      BY FS_Subset
    <3> QED
      BY <2>2, <3>1, <3>2, <3>3, SumPick
  <2> QED
    BY <2>1, <2>2
<1>2. \A T \in SUBSET S : T \in Q
  <2> HIDE DEF Q
  <2> QED
    BY <1>1, SubsetInduction
<1> QED
  BY <1>2

(* One more element adds its value, whichever the sum picks first.         *)
LEMMA SumAdd ==
  ASSUME NEW f, NEW S, IsFiniteSet(S), \A x \in S : f[x] \in Int
  PROVE  \A T \in SUBSET S : \A x \in S \ T :
            SumFunctionOnSet(f, T \cup {x}) = f[x] + SumFunctionOnSet(f, T)
<1> DEFINE Sum(T) == SumFunctionOnSet(f, T)
           Q == {T \in SUBSET S : \A x \in S \ T : Sum(T \cup {x}) = f[x] + Sum(T)}
<1>1. \A T \in SUBSET S : IsFiniteSet(T) /\ Sum(T) \in Int
  BY FS_Subset, SumIsInt
<1>2. ASSUME NEW T \in SUBSET S, \A U \in SUBSET T : U # T => U \in Q
      PROVE  T \in Q
  <2>1. SUFFICES ASSUME NEW x \in S \ T PROVE Sum(T \cup {x}) = f[x] + Sum(T)
    OBVIOUS
  <2> DEFINE A == T \cup {x}
             y == Pick(A)
             R == T \ {y}
  <2>2. y \in A /\ A \in SUBSET S /\ R \in SUBSET S
    BY PickIn
  <2>3. Sum(A) = f[y] + Sum(A \ {y})
    BY <1>1, <2>2, SumPick
  <2>4. CASE y = x
    BY <2>1, <2>3, <2>4
  <2>5. CASE y # x
    <3>1. y \in T /\ R \in Q /\ A \ {y} = R \cup {x} /\ T = R \cup {y}
      BY <1>2, <2>1, <2>2, <2>5
    <3>2. Sum(R \cup {x}) = f[x] + Sum(R) /\ Sum(R \cup {y}) = f[y] + Sum(R)
      BY <2>1, <3>1
    <3>3. f[x] \in Int /\ f[y] \in Int /\ Sum(R) \in Int
      BY <1>1, <2>1, <2>2, <3>1
    <3>4. Sum(A) = f[y] + (f[x] + Sum(R)) /\ Sum(T) = f[y] + Sum(R)
      BY <2>3, <3>1, <3>2
    <3> HIDE DEF Sum, y, R
    <3> QED
      BY <3>3, <3>4
  <2> QED
    BY <2>4, <2>5
<1>3. \A T \in SUBSET S : T \in Q
  <2> HIDE DEF Q
  <2> QED
    BY <1>2, SubsetInduction
<1> QED
  BY <1>3

(* Any element may be taken out of a sum.                                  *)
LEMMA SumTakeOut ==
  ASSUME NEW f, NEW S, IsFiniteSet(S), \A y \in S : f[y] \in Int, NEW x \in S
  PROVE  /\ SumFunctionOnSet(f, S) = f[x] + SumFunctionOnSet(f, S \ {x})
         /\ SumFunctionOnSet(f, S \ {x}) \in Int
<1>1. S = (S \ {x}) \cup {x} /\ S \ {x} \in SUBSET S /\ x \in S \ (S \ {x})
  OBVIOUS
<1>2. SumFunctionOnSet(f, (S \ {x}) \cup {x}) = f[x] + SumFunctionOnSet(f, S \ {x})
  BY <1>1, SumAdd
<1>3. IsFiniteSet(S \ {x})
  BY FS_RemoveElement
<1> QED
  BY <1>1, <1>2, <1>3, SumIsInt

(* A change of one value changes the sum by the difference.                *)
LEMMA SumChange ==
  ASSUME NEW f, NEW g, NEW S, IsFiniteSet(S), NEW x \in S,
         \A y \in S : f[y] \in Int /\ g[y] \in Int,
         \A y \in S \ {x} : f[y] = g[y]
  PROVE  SumFunctionOnSet(g, S) = SumFunctionOnSet(f, S) + (g[x] - f[x])
<1>1. IsFiniteSet(S \ {x})
  BY FS_RemoveElement
<1>2. SumFunctionOnSet(f, S \ {x}) = SumFunctionOnSet(g, S \ {x})
  BY <1>1, SumSame
<1>3. /\ SumFunctionOnSet(f, S) = f[x] + SumFunctionOnSet(f, S \ {x})
      /\ SumFunctionOnSet(f, S \ {x}) \in Int
  BY SumTakeOut
<1>4. SumFunctionOnSet(g, S) = g[x] + SumFunctionOnSet(g, S \ {x})
  BY SumTakeOut
<1> QED
  BY <1>2, <1>3, <1>4

(* The sum of sums is the sum of both.                                     *)
LEMMA SumBoth ==
  ASSUME NEW f, NEW g, NEW h, NEW S, IsFiniteSet(S),
         \A x \in S : f[x] \in Int /\ g[x] \in Int /\ h[x] = f[x] + g[x]
  PROVE  SumFunctionOnSet(h, S) = SumFunctionOnSet(f, S) + SumFunctionOnSet(g, S)
<1> DEFINE Q == {T \in SUBSET S : SumFunctionOnSet(h, T) =
                                      SumFunctionOnSet(f, T) + SumFunctionOnSet(g, T)}
<1>1. ASSUME NEW T \in SUBSET S, \A U \in SUBSET T : U # T => U \in Q
      PROVE  T \in Q
  <2>1. CASE T = {}
    BY <2>1, SumEmpty
  <2>2. CASE T # {}
    <3> DEFINE x == Pick(T)
    <3>1. x \in T
      BY <2>2, PickIn
    <3>2. T \ {x} \in Q
      BY <1>1, <3>1
    <3>3. IsFiniteSet(T) /\ IsFiniteSet(T \ {x})
      BY FS_Subset, FS_RemoveElement
    <3>4. /\ SumFunctionOnSet(f, T) = f[x] + SumFunctionOnSet(f, T \ {x})
          /\ SumFunctionOnSet(g, T) = g[x] + SumFunctionOnSet(g, T \ {x})
          /\ SumFunctionOnSet(h, T) = h[x] + SumFunctionOnSet(h, T \ {x})
      BY <2>2, <3>3, SumPick
    <3>5. /\ SumFunctionOnSet(f, T \ {x}) \in Int
          /\ SumFunctionOnSet(g, T \ {x}) \in Int
      BY <3>3, SumIsInt
    <3>6. f[x] \in Int /\ g[x] \in Int /\ h[x] = f[x] + g[x]
      BY <3>1
    <3>7. SumFunctionOnSet(h, T \ {x}) =
              SumFunctionOnSet(f, T \ {x}) + SumFunctionOnSet(g, T \ {x})
      BY <3>2
    <3> HIDE DEF x
    <3>8. SumFunctionOnSet(h, T) = SumFunctionOnSet(f, T) + SumFunctionOnSet(g, T)
      BY <3>4, <3>5, <3>6, <3>7
    <3> QED
      BY <3>8
  <2> QED
    BY <2>1, <2>2
<1>2. \A T \in SUBSET S : T \in Q
  <2> HIDE DEF Q
  <2> QED
    BY <1>1, SubsetInduction
<1> QED
  BY <1>2

(* Sums respect the order of their values.                                 *)
LEMMA SumMonotone ==
  ASSUME NEW f, NEW g, NEW S, IsFiniteSet(S),
         \A x \in S : f[x] \in Int /\ g[x] \in Int /\ f[x] <= g[x]
  PROVE  SumFunctionOnSet(f, S) <= SumFunctionOnSet(g, S)
<1> DEFINE Q == {T \in SUBSET S : SumFunctionOnSet(f, T) <= SumFunctionOnSet(g, T)}
<1>1. ASSUME NEW T \in SUBSET S, \A U \in SUBSET T : U # T => U \in Q
      PROVE  T \in Q
  <2>1. CASE T = {}
    BY <2>1, SumEmpty
  <2>2. CASE T # {}
    <3> DEFINE x == Pick(T)
    <3>1. x \in T
      BY <2>2, PickIn
    <3>2. T \ {x} \in Q
      BY <1>1, <3>1
    <3>3. IsFiniteSet(T) /\ IsFiniteSet(T \ {x})
      BY FS_Subset, FS_RemoveElement
    <3>4. /\ SumFunctionOnSet(f, T) = f[x] + SumFunctionOnSet(f, T \ {x})
          /\ SumFunctionOnSet(g, T) = g[x] + SumFunctionOnSet(g, T \ {x})
      BY <2>2, <3>3, SumPick
    <3>5. /\ SumFunctionOnSet(f, T \ {x}) \in Int
          /\ SumFunctionOnSet(g, T \ {x}) \in Int
      BY <3>3, SumIsInt
    <3>6. f[x] \in Int /\ g[x] \in Int /\ f[x] <= g[x]
      BY <3>1
    <3>7. SumFunctionOnSet(f, T \ {x}) <= SumFunctionOnSet(g, T \ {x})
      BY <3>2
    <3> HIDE DEF x
    <3>8. SumFunctionOnSet(f, T) <= SumFunctionOnSet(g, T)
      BY <3>4, <3>5, <3>6, <3>7
    <3> QED
      BY <3>8
  <2> QED
    BY <2>1, <2>2
<1>2. \A T \in SUBSET S : T \in Q
  <2> HIDE DEF Q
  <2> QED
    BY <1>1, SubsetInduction
<1> QED
  BY <1>2

(* Sums of natural numbers are natural numbers.                            *)
LEMMA SumIsNat ==
  ASSUME NEW f, NEW S, IsFiniteSet(S), \A x \in S : f[x] \in Nat
  PROVE  SumFunctionOnSet(f, S) \in Nat
<1> DEFINE Q == {T \in SUBSET S : SumFunctionOnSet(f, T) \in Nat}
<1>1. ASSUME NEW T \in SUBSET S, \A U \in SUBSET T : U # T => U \in Q
      PROVE  T \in Q
  <2>1. CASE T = {}
    BY <2>1, SumEmpty
  <2>2. CASE T # {}
    <3>1. Pick(T) \in T
      BY <2>2, PickIn
    <3>2. T \ {Pick(T)} \in Q
      BY <1>1, <3>1
    <3>3. IsFiniteSet(T)
      BY FS_Subset
    <3>4. SumFunctionOnSet(f, T) = f[Pick(T)] + SumFunctionOnSet(f, T \ {Pick(T)})
      BY <2>2, <3>3, SumPick
    <3> QED
      BY <3>1, <3>2, <3>4
  <2> QED
    BY <2>1, <2>2
<1>2. \A T \in SUBSET S : T \in Q
  <2> HIDE DEF Q
  <2> QED
    BY <1>1, SubsetInduction
<1> QED
  BY <1>2

-----------------------------------------------------------------------------
(* Folds.  pick[s] is the index a fold treats last among those in s, and   *)
(* next[a, x] what it makes of a at index x.                               *)
FoldStep(base, pick, next, g, s) ==
    IF s = {} THEN base ELSE next[<<g[s \ {pick[s]}], pick[s]>>]
Folds(base, pick, next, S, g) ==
    g = [s \in SUBSET S |-> FoldStep(base, pick, next, g, s)]

LEMMA FoldsAgree ==
  ASSUME NEW S, IsFiniteSet(S), NEW T \in SUBSET S, NEW base, NEW pick, NEW next,
         \A s \in SUBSET S : s # {} => pick[s] \in s,
         NEW g, NEW h, Folds(base, pick, next, S, g), Folds(base, pick, next, T, h)
  PROVE  g[T] = h[T]
<1> DEFINE Q == {U \in SUBSET T : g[U] = h[U]}
<1>1. IsFiniteSet(T)
  BY FS_Subset
<1>2. ASSUME NEW U \in SUBSET T, \A V \in SUBSET U : V # U => V \in Q
      PROVE  U \in Q
  <2>1. U \in SUBSET S
    OBVIOUS
  <2>2. /\ g[U] = FoldStep(base, pick, next, g, U)
        /\ h[U] = FoldStep(base, pick, next, h, U)
    BY <2>1 DEF Folds
  <2>3. CASE U = {}
    BY <2>2, <2>3 DEF FoldStep
  <2>4. CASE U # {}
    <3>1. U \ {pick[U]} \in Q
      BY <1>2, <2>1, <2>4
    <3> QED
      BY <2>2, <2>4, <3>1 DEF FoldStep
  <2> QED
    BY <2>3, <2>4
<1>3. \A U \in SUBSET T : U \in Q
  <2> HIDE DEF Q
  <2> QED
    BY <1>1, <1>2, SubsetInduction
<1> QED
  BY <1>3

LEMMA FoldsExist ==
  ASSUME NEW S, IsFiniteSet(S), NEW base, NEW pick, NEW next,
         \A s \in SUBSET S : s # {} => pick[s] \in s
  PROVE  \A T \in SUBSET S : \E g : Folds(base, pick, next, T, g)
<1> DEFINE Is(U, g) == Folds(base, pick, next, U, g)
           Q == {U \in SUBSET S : \E g : Is(U, g)}
           Fn(U) == CHOOSE g : Is(U, g)
<1>1. \A U \in Q : Is(U, Fn(U))
  <2> HIDE DEF Is
  <2> QED
    OBVIOUS
<1>2. ASSUME NEW T \in SUBSET S, \A U \in SUBSET T : U # T => U \in Q
      PROVE  T \in Q
  <2> DEFINE Rest(s) == s \ {pick[s]}
             F == [s \in SUBSET T |->
                     IF s = {} THEN base ELSE next[<<Fn(Rest(s))[Rest(s)], pick[s]>>]]
  <2>1. ASSUME NEW s \in SUBSET T, s # {}
        PROVE  F[Rest(s)] = Fn(Rest(s))[Rest(s)]
    <3> DEFINE u == Rest(s)
    <3>1. u \in SUBSET T /\ u \in Q
      BY <1>2, <2>1
    <3>2. Is(u, Fn(u))
      BY <1>1, <3>1
    <3>3. Fn(u)[u] = FoldStep(base, pick, next, Fn(u), u)
      <4> HIDE DEF u, Fn
      <4> QED
        BY <3>2 DEF Folds
    <3>4. CASE u = {}
      BY <3>1, <3>3, <3>4 DEF FoldStep
    <3>5. CASE u # {}
      <4>1. Rest(u) \in SUBSET u /\ Rest(u) \in Q
        BY <1>2, <3>1, <3>5
      <4>2. Is(Rest(u), Fn(Rest(u)))
        BY <1>1, <4>1
      <4>3. IsFiniteSet(u) /\ \A x \in SUBSET u : x # {} => pick[x] \in x
        BY <3>1, FS_Subset
      <4>4. Fn(u)[Rest(u)] = Fn(Rest(u))[Rest(u)]
        <5> HIDE DEF u, Fn, Rest
        <5> QED
          BY <3>2, <4>1, <4>2, <4>3, FoldsAgree
      <4>5. F[u] = next[<<Fn(Rest(u))[Rest(u)], pick[u]>>]
        <5> HIDE DEF Fn, Rest, u
        <5> QED
          BY <3>1, <3>5
      <4> HIDE DEF Fn, F
      <4> QED
        BY <3>3, <3>5, <4>4, <4>5 DEF FoldStep
    <3> QED
      BY <3>4, <3>5
  <2>2. ASSUME NEW s \in SUBSET T PROVE F[s] = FoldStep(base, pick, next, F, s)
    <3>1. F[s] = IF s = {} THEN base ELSE next[<<Fn(Rest(s))[Rest(s)], pick[s]>>]
      <4> HIDE DEF Fn, Rest
      <4> QED
        OBVIOUS
    <3>2. CASE s = {}
      BY <3>1, <3>2 DEF FoldStep
    <3>3. CASE s # {}
      <4>1. F[Rest(s)] = Fn(Rest(s))[Rest(s)]
        BY <2>1, <3>3
      <4> HIDE DEF Fn, F
      <4> QED
        BY <3>1, <3>3, <4>1 DEF FoldStep
    <3> QED
      BY <3>2, <3>3
  <2>3. Is(T, F)
    <3>1. F = [s \in SUBSET T |-> F[s]]
      <4> HIDE DEF Fn, Rest
      <4> QED
        OBVIOUS
    <3> HIDE DEF F
    <3> QED
      BY <2>2, <3>1 DEF Folds
  <2> QED
    BY <2>3
<1>3. \A T \in SUBSET S : T \in Q
  <2> HIDE DEF Q
  <2> QED
    BY <1>2, SubsetInduction
<1> QED
  BY <1>3

(* Sets of indices have a greatest element.                                *)
LEMMA Greatest ==
  ASSUME NEW n \in Nat
  PROVE  \A T \in SUBSET (1..n) : T # {} => \E x \in T : \A y \in T : x >= y
<1> DEFINE S == 1..n
           Q == {T \in SUBSET S : T # {} => \E x \in T : \A y \in T : x >= y}
<1>1. IsFiniteSet(S)
  BY FS_Interval
<1>2. ASSUME NEW T \in SUBSET S, \A U \in SUBSET T : U # T => U \in Q
      PROVE  T \in Q
  <2>1. SUFFICES ASSUME NEW x \in T PROVE \E z \in T : \A y \in T : z >= y
    OBVIOUS
  <2>2. CASE T = {x}
    BY <2>2
  <2>3. CASE T # {x}
    <3>1. T \ {x} \in Q /\ T \ {x} # {}
      BY <1>2, <2>1, <2>3
    <3>2. PICK m \in T \ {x} : \A y \in T \ {x} : m >= y
      BY <3>1
    <3> QED
      BY <3>2
  <2> QED
    BY <2>2, <2>3
<1>3. \A T \in SUBSET S : T \in Q
  <2> HIDE DEF Q, S
  <2> QED
    BY <1>1, <1>2, SubsetInduction
<1> QED
  BY <1>3

(* The larger and the smaller of two.                                      *)
LEMMA MaxOfTwo ==
  ASSUME NEW a \in Int, NEW b \in Int
  PROVE  Max({a, b}) = IF a >= b THEN a ELSE b
<1>1. \E x \in {a, b} : \A y \in {a, b} : x >= y
  OBVIOUS
<1>2. Max({a, b}) \in {a, b} /\ \A y \in {a, b} : Max({a, b}) >= y
  BY <1>1 DEF Max
<1> QED
  BY <1>2

LEMMA MinOfTwo ==
  ASSUME NEW a \in Int, NEW b \in Int
  PROVE  Min({a, b}) = IF a <= b THEN a ELSE b
<1>1. \E x \in {a, b} : \A y \in {a, b} : x =< y
  OBVIOUS
<1>2. Min({a, b}) \in {a, b} /\ \A y \in {a, b} : Min({a, b}) =< y
  BY <1>1 DEF Min
<1> QED
  BY <1>2
=============================================================================
