----------------------------- MODULE Sums_proofs -----------------------------
(***************************************************************************)
(* What SumFunction of the community modules computes, for any finite set: *)
(* the sum of nothing is 0, a value may be taken out of a sum, and a sum   *)
(* changes by as much as one of its values does.  Module Shop adds up the  *)
(* lines of a basket and the pieces in orders with it.                     *)
(*                                                                         *)
(* SumFunction folds over a set by a function that is defined by recursion *)
(* on its subsets.  An induction over finite sets is made here by taking a *)
(* smallest counterexample.                                                *)
(***************************************************************************)
EXTENDS Integers, Functions, FiniteSetTheorems, TLAPS

\* A set of subsets of a finite set has a smallest element.
LEMMA SmallestSubset ==
    ASSUME NEW S, IsFiniteSet(S), NEW B \in SUBSET SUBSET S, B # {}
    PROVE  \E T \in B : \A U \in SUBSET T : U # T => U \notin B
  <1>1. FiniteSubsetsOf(S) = SUBSET S
    BY FS_FiniteSubsetsOfFinite
  <1>2. IsWellFoundedOn(StrictSubsetOrdering(S), SUBSET S)
    BY <1>1, FS_StrictSubsetOrderingWellFounded
  <1>3. PICK T \in B : \A U \in B : ~ (<<U, T>> \in StrictSubsetOrdering(S))
    BY <1>2, WFMin
  <1>4. ASSUME NEW U \in SUBSET T, U # T, U \in B
        PROVE  FALSE
    <2>1. <<U, T>> \in StrictSubsetOrdering(S)
      BY <1>4 DEF StrictSubsetOrdering
    <2> QED
      BY <1>3, <1>4, <2>1
  <1> QED
    BY <1>4

-----------------------------------------------------------------------------
(* The function that the fold is made of. *)

Some(s) == CHOOSE x \in s : TRUE

\* g is the sum of f over each subset of S.
IsSum(g, f, S) ==
    g = [s \in SUBSET S |-> IF s = {} THEN 0 ELSE f[Some(s)] + g[s \ {Some(s)}]]

\* Two such functions agree wherever both are defined.
LEMMA SumUnique ==
    ASSUME NEW f, NEW S, NEW T, NEW g, NEW h, IsFiniteSet(S),
           IsSum(g, f, S), IsSum(h, f, T)
    PROVE  \A s \in SUBSET S : s \in SUBSET T => g[s] = h[s]
  <1> DEFINE B == {s \in SUBSET S : s \in SUBSET T /\ g[s] # h[s]}
  <1>1. SUFFICES ASSUME B # {}
                 PROVE  FALSE
    OBVIOUS
  <1>2. PICK s \in B : \A U \in SUBSET s : U # s => U \notin B
    <2> HIDE DEF B
    <2>1. B \in SUBSET SUBSET S
      BY DEF B
    <2> QED
      BY <1>1, <2>1, SmallestSubset
  <1>3. s # {}
    BY DEF IsSum
  <1>4. Some(s) \in s
    BY <1>3 DEF Some
  <1>5. g[s \ {Some(s)}] = h[s \ {Some(s)}]
    BY <1>2, <1>4
  <1>6. /\ g[s] = f[Some(s)] + g[s \ {Some(s)}]
        /\ h[s] = f[Some(s)] + h[s \ {Some(s)}]
    BY <1>3 DEF IsSum
  <1> QED
    BY <1>5, <1>6

\* There is one for every finite set.
LEMMA SumExists ==
    ASSUME NEW f, NEW S, IsFiniteSet(S)
    PROVE  \E g : IsSum(g, f, S)
  <1> DEFINE B == {T \in SUBSET S : ~ \E g : IsSum(g, f, T)}
  <1>1. SUFFICES ASSUME B # {}
                 PROVE  FALSE
    BY DEF B
  <1>2. PICK T \in B : \A U \in SUBSET T : U # T => U \notin B
    <2> HIDE DEF B
    <2>1. B \in SUBSET SUBSET S
      BY DEF B
    <2> QED
      BY <1>1, <2>1, SmallestSubset
  <1> DEFINE sum(U) == CHOOSE g : IsSum(g, f, U)
             part(s) == IF s = {} THEN 0
                        ELSE f[Some(s)] + sum(s \ {Some(s)})[s \ {Some(s)}]
             g == [s \in SUBSET T |-> part(s)]
  <1>3. \A U \in SUBSET T : U # T => IsSum(sum(U), f, U)
    <2> SUFFICES ASSUME NEW U \in SUBSET T, U # T
                 PROVE  IsSum(sum(U), f, U)
      OBVIOUS
    <2>1. \E h : IsSum(h, f, U)
      BY <1>2
    <2> QED
      BY <2>1
  <1>4. ASSUME NEW s \in SUBSET T, s # {}
        PROVE  g[s] = f[Some(s)] + g[s \ {Some(s)}]
    <2> DEFINE rest == s \ {Some(s)}
    <2>1. rest \in SUBSET T /\ rest # T /\ Some(s) \in s
      BY <1>4 DEF Some
    <2>2. g[s] = f[Some(s)] + sum(rest)[rest]
      BY <1>4
    <2>3. IsSum(sum(rest), f, rest)
      BY <1>3, <2>1
    <2>4. CASE rest = {}
      <3>1. sum(rest)[rest] = 0
        BY <2>3, <2>4 DEF IsSum
      <3>2. g[rest] = 0
        BY <2>1, <2>4
      <3> QED
        BY <2>2, <3>1, <3>2
    <2>5. CASE rest # {}
      <3> DEFINE less == rest \ {Some(rest)}
      <3>1. Some(rest) \in rest
        BY <2>5 DEF Some
      <3>2. less \in SUBSET T /\ less # T /\ less \in SUBSET rest /\ IsFiniteSet(rest)
        BY <2>1, <3>1, FS_Subset
      <3>3. IsSum(sum(less), f, less)
        BY <1>3, <3>2
      <3>4. sum(rest)[less] = sum(less)[less]
        <4> HIDE DEF sum, rest, less
        <4> QED
          BY <2>3, <3>2, <3>3, SumUnique
      <3>5. sum(rest)[rest] = f[Some(rest)] + sum(rest)[less]
        <4> HIDE DEF sum
        <4> QED
          BY <2>3, <2>5 DEF IsSum
      <3>6. g[rest] = f[Some(rest)] + sum(less)[less]
        <4> HIDE DEF sum
        <4> QED
          BY <2>1, <2>5
      <3> QED
        BY <2>2, <3>4, <3>5, <3>6
    <2> QED
      BY <2>4, <2>5
  <1>5. g[{}] = 0
    OBVIOUS
  <1>6. IsSum(g, f, T)
    <2>1. \A s \in SUBSET T : g[s] = IF s = {} THEN 0 ELSE f[Some(s)] + g[s \ {Some(s)}]
      <3> HIDE DEF g
      <3> QED
        BY <1>4, <1>5
    <2> DEFINE rhs == [s \in SUBSET T |-> IF s = {} THEN 0 ELSE f[Some(s)] + g[s \ {Some(s)}]]
    <2>2. \A s \in SUBSET T : g[s] = rhs[s]
      <3> HIDE DEF g
      <3> QED
        BY <2>1
    <2>3. g = rhs
      <3>1. g = [s \in SUBSET T |-> g[s]]
        OBVIOUS
      <3>2. rhs = [s \in SUBSET T |-> rhs[s]]
        OBVIOUS
      <3> HIDE DEF g, rhs
      <3> QED
        BY <2>2, <3>1, <3>2
    <2> HIDE DEF g
    <2> QED
      BY <2>3 DEF IsSum
  <1> QED
    BY <1>2, <1>6

\* The sum over S is what any of these functions has at S.
LEMMA SumIs ==
    ASSUME NEW f, NEW S, IsFiniteSet(S), NEW g, IsSum(g, f, S)
    PROVE  SumFunctionOnSet(f, S) = g[S]
  <1>1. ASSUME NEW h, IsSum(h, f, S)
        PROVE  h = g
    <2>1. \A s \in SUBSET S : h[s] = g[s]
      BY <1>1, SumUnique
    <2>2. h = [s \in SUBSET S |-> h[s]] /\ g = [s \in SUBSET S |-> g[s]]
      BY <1>1 DEF IsSum
    <2> QED
      BY <2>1, <2>2
  <1>2. IsSum(CHOOSE h : IsSum(h, f, S), f, S)
    OBVIOUS
  <1> QED
    BY <1>1, <1>2 DEF SumFunctionOnSet, FoldFunctionOnSet, MapThenFoldSet, IsSum, Some

\* A sum is made of one of its values and the sum of the others.
LEMMA SumUnfold ==
    ASSUME NEW f, NEW S, IsFiniteSet(S)
    PROVE  SumFunctionOnSet(f, S) =
               IF S = {} THEN 0 ELSE f[Some(S)] + SumFunctionOnSet(f, S \ {Some(S)})
  <1>1. PICK g : IsSum(g, f, S)
    BY SumExists
  <1>2. SumFunctionOnSet(f, S) = g[S]
    BY <1>1, SumIs
  <1>3. CASE S = {}
    BY <1>1, <1>2, <1>3 DEF IsSum
  <1>4. CASE S # {}
    <2> DEFINE rest == S \ {Some(S)}
    <2>1. rest \in SUBSET S /\ IsFiniteSet(rest)
      BY FS_Subset
    <2>2. PICK h : IsSum(h, f, rest)
      BY <2>1, SumExists
    <2>3. SumFunctionOnSet(f, rest) = h[rest]
      BY <2>1, <2>2, SumIs
    <2>4. h[rest] = g[rest]
      BY <1>1, <2>1, <2>2, SumUnique
    <2>5. g[S] = f[Some(S)] + g[rest]
      BY <1>1, <1>4 DEF IsSum
    <2> QED
      BY <1>2, <1>4, <2>3, <2>4, <2>5
  <1> QED
    BY <1>3, <1>4

-----------------------------------------------------------------------------
(* Sums of integers. *)

LEMMA SumType ==
    ASSUME NEW D, NEW f \in [D -> Int], NEW S \in SUBSET D, IsFiniteSet(S)
    PROVE  SumFunctionOnSet(f, S) \in Int
  <1> DEFINE B == {T \in SUBSET S : SumFunctionOnSet(f, T) \notin Int}
  <1>1. SUFFICES ASSUME B # {}
                 PROVE  FALSE
    OBVIOUS
  <1>2. PICK T \in B : \A U \in SUBSET T : U # T => U \notin B
    <2> HIDE DEF B
    <2>1. B \in SUBSET SUBSET S
      BY DEF B
    <2> QED
      BY <1>1, <2>1, SmallestSubset
  <1>3. IsFiniteSet(T)
    BY FS_Subset
  <1>4. T # {}
    BY <1>3, SumUnfold
  <1>5. Some(T) \in T
    BY <1>4 DEF Some
  <1>6. SumFunctionOnSet(f, T \ {Some(T)}) \in Int
    BY <1>2, <1>5
  <1>7. SumFunctionOnSet(f, T) = f[Some(T)] + SumFunctionOnSet(f, T \ {Some(T)})
    BY <1>3, <1>4, SumUnfold
  <1> QED
    BY <1>2, <1>5, <1>6, <1>7

\* Any value may be taken out first.
LEMMA SumRemove ==
    ASSUME NEW D, NEW f \in [D -> Int], NEW S \in SUBSET D, IsFiniteSet(S), NEW z \in S
    PROVE  SumFunctionOnSet(f, S) = f[z] + SumFunctionOnSet(f, S \ {z})
  <1> DEFINE Sum(T) == SumFunctionOnSet(f, T)
             B == {T \in SUBSET S : \E x \in T : Sum(T) # f[x] + Sum(T \ {x})}
  <1>1. SUFFICES ASSUME B # {}
                 PROVE  FALSE
    BY DEF B
  <1>2. PICK T \in B : \A U \in SUBSET T : U # T => U \notin B
    <2> HIDE DEF B
    <2>1. B \in SUBSET SUBSET S
      BY DEF B
    <2> QED
      BY <1>1, <2>1, SmallestSubset
  <1>3. PICK x \in T : Sum(T) # f[x] + Sum(T \ {x})
    BY <1>2
  <1> DEFINE y == Some(T)
  <1>4. y \in T /\ y # x /\ Sum(T) = f[y] + Sum(T \ {y})
    <2>1. IsFiniteSet(T) /\ T # {}
      BY <1>3, FS_Subset
    <2>2. y \in T
      BY <2>1 DEF Some
    <2>3. Sum(T) = f[y] + Sum(T \ {y})
      BY <2>1, SumUnfold
    <2> HIDE DEF Sum, y
    <2> QED
      BY <1>3, <2>2, <2>3
  <1>5. Sum(T \ {y}) = f[x] + Sum(T \ {x, y})
    <2>1. T \ {y} \in SUBSET T /\ T \ {y} # T /\ x \in T \ {y}
          /\ (T \ {y}) \ {x} = T \ {x, y}
      BY <1>3, <1>4
    <2> HIDE DEF Sum, y
    <2> QED
      BY <1>2, <2>1
  <1>6. Sum(T \ {x}) = f[y] + Sum(T \ {x, y})
    <2>1. T \ {x} \in SUBSET T /\ T \ {x} # T /\ y \in T \ {x}
          /\ (T \ {x}) \ {y} = T \ {x, y}
      BY <1>3, <1>4
    <2> HIDE DEF Sum, y
    <2> QED
      BY <1>2, <2>1
  <1>7. Sum(T \ {x, y}) \in Int /\ f[x] \in Int /\ f[y] \in Int
    <2>1. T \ {x, y} \in SUBSET D /\ IsFiniteSet(T \ {x, y})
      BY FS_Subset
    <2>2. SumFunctionOnSet(f, T \ {x, y}) \in Int
      BY <2>1, SumType
    <2> QED
      BY <1>3, <1>4, <2>2
  <1> HIDE DEF Sum, y
  <1> QED
    BY <1>3, <1>4, <1>5, <1>6, <1>7

\* Only the values that are added up count.
LEMMA SumAgree ==
    ASSUME NEW f, NEW g, NEW S, IsFiniteSet(S), \A x \in S : f[x] = g[x]
    PROVE  SumFunctionOnSet(f, S) = SumFunctionOnSet(g, S)
  <1> DEFINE B == {T \in SUBSET S : SumFunctionOnSet(f, T) # SumFunctionOnSet(g, T)}
  <1>1. SUFFICES ASSUME B # {}
                 PROVE  FALSE
    OBVIOUS
  <1>2. PICK T \in B : \A U \in SUBSET T : U # T => U \notin B
    <2> HIDE DEF B
    <2>1. B \in SUBSET SUBSET S
      BY DEF B
    <2> QED
      BY <1>1, <2>1, SmallestSubset
  <1>3. IsFiniteSet(T)
    BY FS_Subset
  <1>4. T # {}
    BY <1>2, <1>3, SumUnfold
  <1>5. Some(T) \in T
    BY <1>4 DEF Some
  <1>6. SumFunctionOnSet(f, T \ {Some(T)}) = SumFunctionOnSet(g, T \ {Some(T)})
    BY <1>2, <1>5
  <1>7. /\ SumFunctionOnSet(f, T) = f[Some(T)] + SumFunctionOnSet(f, T \ {Some(T)})
        /\ SumFunctionOnSet(g, T) = g[Some(T)] + SumFunctionOnSet(g, T \ {Some(T)})
    BY <1>3, <1>4, SumUnfold
  <1> QED
    BY <1>2, <1>5, <1>6, <1>7

\* A sum changes by as much as one of its values does.
LEMMA SumChange ==
    ASSUME NEW S, IsFiniteSet(S), NEW f \in [S -> Int], NEW g \in [S -> Int],
           NEW x \in S, \A y \in S : y # x => f[y] = g[y]
    PROVE  SumFunctionOnSet(g, S) = SumFunctionOnSet(f, S) + g[x] - f[x]
  <1>1. IsFiniteSet(S \ {x})
    BY FS_Subset
  <1>2. SumFunctionOnSet(f, S \ {x}) = SumFunctionOnSet(g, S \ {x})
    BY <1>1, SumAgree
  <1>3. /\ SumFunctionOnSet(f, S) = f[x] + SumFunctionOnSet(f, S \ {x})
        /\ SumFunctionOnSet(g, S) = g[x] + SumFunctionOnSet(g, S \ {x})
    BY SumRemove
  <1>4. SumFunctionOnSet(f, S \ {x}) \in Int
    BY <1>1, SumType
  <1> QED
    BY <1>2, <1>3, <1>4

\* The sum of a sequence with one more value.
LEMMA SumAppend ==
    ASSUME NEW n \in Nat, NEW f \in [1..n -> Int], NEW g \in [1..(n + 1) -> Int],
           \A i \in 1..n : f[i] = g[i]
    PROVE  SumFunction(g) = SumFunction(f) + g[n + 1]
  <1>1. IsFiniteSet(1..n) /\ IsFiniteSet(1..(n + 1))
    BY FS_Interval
  <1>2. SumFunctionOnSet(g, 1..(n + 1)) = g[n + 1] + SumFunctionOnSet(g, (1..(n + 1)) \ {n + 1})
    BY <1>1, SumRemove
  <1>3. (1..(n + 1)) \ {n + 1} = 1..n
    OBVIOUS
  <1>4. SumFunctionOnSet(f, 1..n) = SumFunctionOnSet(g, 1..n)
    BY <1>1, SumAgree
  <1>5. SumFunctionOnSet(f, 1..n) \in Int
    BY <1>1, SumType
  <1>6. SumFunction(f) = SumFunctionOnSet(f, 1..n)
    BY DEF SumFunction
  <1>7. SumFunction(g) = SumFunctionOnSet(g, 1..(n + 1))
    BY DEF SumFunction
  <1>8. SumFunction(g) = g[n + 1] + SumFunctionOnSet(g, 1..n)
    BY <1>2, <1>3, <1>7
  <1>9. SumFunction(g) = g[n + 1] + SumFunction(f)
    BY <1>4, <1>6, <1>8
  <1>10. SumFunction(f) \in Int /\ g[n + 1] \in Int
    BY <1>5, <1>6
  <1> QED
    BY <1>9, <1>10
=============================================================================
