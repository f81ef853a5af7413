--------------------------- MODULE Listings_proofs ---------------------------
(***************************************************************************)
(* A client who walks through the pages of an order listing misses none of *)
(* the orders that it held when the walk began, for any sets of orders,    *)
(* buyers and hashes, any listing and any page size.                       *)
(***************************************************************************)
EXTENDS Listings, OrderStore_proofs, Sums_proofs, SequenceTheorems

(* Induction, with sets in place of predicates. *)

LEMMA LeastNumber ==
    ASSUME NEW B \in SUBSET Nat, B # {}
    PROVE  \E n \in B : \A m \in B : n <= m
<1>1. PICK b \in B : TRUE
  OBVIOUS
<1> DEFINE Below == {1..n : n \in {m \in B : m <= b}}
<1>2. Below \in SUBSET SUBSET (1..b) /\ 1..b \in Below
  BY <1>1
<1>3. PICK T \in Below : \A U \in SUBSET T : U # T => U \notin Below
  <2> DEFINE Most == 1..b
  <2>1. IsFiniteSet(Most)
    BY <1>1, FS_Interval
  <2>2. Below \in SUBSET SUBSET Most /\ Below # {}
    <3> HIDE DEF Below
    <3> QED
      BY <1>2
  <2> HIDE DEF Below, Most
  <2> QED
    BY <2>1, <2>2, SmallestSubset
<1>4. PICK n \in B : n <= b /\ T = 1..n
  BY <1>3
<1>5. ASSUME NEW m \in B, m < n
      PROVE  FALSE
  <2>1. m \in Nat /\ n \in Nat /\ b \in Nat
    BY <1>1
  <2>2. 1..m \in Below
    BY <1>4, <1>5, <2>1
  <2>3. 1..m \in SUBSET T /\ n \in T /\ n \notin 1..m
    BY <1>4, <1>5, <2>1
  <2> QED
    BY <1>3, <2>2, <2>3
<1> QED
  BY <1>5

LEMMA Induction ==
    ASSUME NEW G \in SUBSET Nat, 0 \in G, \A n \in G : n + 1 \in G
    PROVE  G = Nat
<1> SUFFICES ASSUME Nat \ G # {}
             PROVE  FALSE
  OBVIOUS
<1>1. PICK n \in Nat \ G : \A m \in Nat \ G : n <= m
  BY LeastNumber
<1>2. n # 0 /\ n - 1 \in Nat /\ n - 1 \notin Nat \ G
  BY <1>1
<1> QED
  BY <1>2

\* Every sequence is made by appending.
LEMMA SeqInduction ==
    ASSUME NEW S, NEW G \in SUBSET Seq(S), <<>> \in G,
           \A q \in G, x \in S : Append(q, x) \in G
    PROVE  G = Seq(S)
<1> DEFINE N == {n \in Nat : \A q \in Seq(S) : Len(q) = n => q \in G}
<1>1. 0 \in N
  <2> SUFFICES ASSUME NEW q \in Seq(S), Len(q) = 0
               PROVE  q \in G
    OBVIOUS
  <2>1. q = <<>>
    BY EmptySeq
  <2> QED
    BY <2>1
<1>2. ASSUME NEW n \in N
      PROVE  n + 1 \in N
  <2> SUFFICES ASSUME NEW q \in Seq(S), Len(q) = n + 1
               PROVE  q \in G
    OBVIOUS
  <2>1. q # <<>>
    BY EmptySeq
  <2>2. PICK s \in Seq(S), x \in S : q = Append(s, x)
    BY <2>1, SequenceEmptyOrAppend
  <2>3. Len(s) = n
    BY <2>2, AppendProperties, LenProperties
  <2> QED
    BY <2>2, <2>3
<1>3. N = Nat
  <2> HIDE DEF N
  <2>1. N \in SUBSET Nat
    BY DEF N
  <2> QED
    BY <1>1, <1>2, <2>1, Induction
<1> QED
  BY <1>3, LenProperties

-----------------------------------------------------------------------------
(* What Select computes. *)

IsPrefixes(f, ids, kept) ==
    f = [n \in 0..Len(ids) |->
            IF n = 0 THEN <<>>
            ELSE IF ids[n] \in kept THEN Append(f[n - 1], ids[n]) ELSE f[n - 1]]

\* How the selection of each prefix is made of that of the one before.
Steps(f, ids, kept, m) ==
    /\ f[0] = <<>>
    /\ \A n \in 1..m : f[n] = IF ids[n] \in kept THEN Append(f[n - 1], ids[n]) ELSE f[n - 1]

LEMMA PrefixesExist ==
    ASSUME NEW S, NEW ids \in Seq(S), NEW kept
    PROVE  \E f : IsPrefixes(f, ids, kept)
<1> DEFINE N == {m \in Nat : \E f : Steps(f, ids, kept, m)}
<1>1. 0 \in N
  <2>1. Steps([n \in 0..0 |-> <<>>], ids, kept, 0)
    BY DEF Steps
  <2> QED
    BY <2>1
<1>2. ASSUME NEW m \in N
      PROVE  m + 1 \in N
  <2>1. PICK f : Steps(f, ids, kept, m)
    OBVIOUS
  <2> DEFINE last == IF ids[m + 1] \in kept THEN Append(f[m], ids[m + 1]) ELSE f[m]
             g == [n \in 0..(m + 1) |-> IF n = m + 1 THEN last ELSE f[n]]
  <2>2. m \in Nat /\ g[0] = f[0] /\ g[m + 1] = last /\ \A n \in 0..m : g[n] = f[n]
    OBVIOUS
  <2>3. ASSUME NEW n \in 1..(m + 1)
        PROVE  g[n] = IF ids[n] \in kept THEN Append(g[n - 1], ids[n]) ELSE g[n - 1]
    <3> HIDE DEF g
    <3>1. CASE n = m + 1
      BY <2>2, <3>1
    <3>2. CASE n \in 1..m
      BY <2>1, <2>2, <3>2 DEF Steps
    <3> QED
      BY <2>2, <3>1, <3>2
  <2>4. Steps(g, ids, kept, m + 1)
    <3> HIDE DEF g
    <3> QED
      BY <2>1, <2>2, <2>3 DEF Steps
  <2> QED
    BY <2>2, <2>4
<1>3. Len(ids) \in N
  <2> HIDE DEF N
  <2>1. N \in SUBSET Nat
    BY DEF N
  <2> QED
    BY <1>1, <1>2, <2>1, Induction, LenProperties
<1>4. PICK f : Steps(f, ids, kept, Len(ids))
  BY <1>3
<1> DEFINE g == [n \in 0..Len(ids) |-> f[n]]
<1>5. \A n \in 0..Len(ids) : g[n] = IF n = 0 THEN <<>>
                                    ELSE IF ids[n] \in kept THEN Append(g[n - 1], ids[n]) ELSE g[n - 1]
  BY <1>4, LenProperties DEF Steps
<1>6. IsPrefixes(g, ids, kept)
  <2>1. g = [n \in 0..Len(ids) |-> g[n]]
    OBVIOUS
  <2> HIDE DEF g
  <2> QED
    BY <1>5, <2>1 DEF IsPrefixes
<1> QED
  BY <1>6

\* So there is one that Select takes.
LEMMA SelectPrefixes ==
    ASSUME NEW S, NEW ids \in Seq(S), NEW kept
    PROVE  \E f : Steps(f, ids, kept, Len(ids)) /\ Select(ids, kept) = f[Len(ids)]
<1> DEFINE f == CHOOSE f : IsPrefixes(f, ids, kept)
<1>1. IsPrefixes(f, ids, kept)
  BY PrefixesExist
<1>2. Select(ids, kept) = f[Len(ids)]
  BY DEF Select, IsPrefixes
<1>3. Steps(f, ids, kept, Len(ids))
  <2> HIDE DEF f
  <2>1. Len(ids) \in Nat
    BY LenProperties
  <2>2. \A n \in 0..Len(ids) :
            f[n] = IF n = 0 THEN <<>>
                   ELSE IF ids[n] \in kept THEN Append(f[n - 1], ids[n]) ELSE f[n - 1]
    BY <1>1 DEF IsPrefixes
  <2> QED
    BY <2>1, <2>2 DEF Steps
<1> HIDE DEF f
<1> QED
  BY <1>2, <1>3

LEMMA SelectEmpty ==
    ASSUME NEW kept
    PROVE  Select(<<>>, kept) = <<>>
<1>1. <<>> \in Seq({}) /\ Len(<<>>) = 0
  BY EmptySeq
<1>2. PICK f : Steps(f, <<>>, kept, Len(<<>>)) /\ Select(<<>>, kept) = f[Len(<<>>)]
  BY <1>1, SelectPrefixes
<1> QED
  BY <1>1, <1>2 DEF Steps

LEMMA SelectAppend ==
    ASSUME NEW S, NEW ids \in Seq(S), NEW x \in S, NEW kept
    PROVE  Select(Append(ids, x), kept) =
               IF x \in kept THEN Append(Select(ids, kept), x) ELSE Select(ids, kept)
<1> DEFINE longer == Append(ids, x)
           n == Len(ids)
<1>1. /\ longer \in Seq(S) /\ Len(longer) = n + 1 /\ n \in Nat
      /\ longer[n + 1] = x /\ \A i \in 1..n : longer[i] = ids[i]
  BY AppendProperties, LenProperties
<1> HIDE DEF longer, n
<1>2. PICK f : Steps(f, longer, kept, n + 1) /\ Select(longer, kept) = f[n + 1]
  BY <1>1, SelectPrefixes
<1>3. PICK g : Steps(g, ids, kept, n) /\ Select(ids, kept) = g[n]
  BY SelectPrefixes DEF n
<1> DEFINE N == {m \in Nat : m <= n => f[m] = g[m]}
<1>4. 0 \in N
  BY <1>2, <1>3 DEF Steps
<1>5. ASSUME NEW m \in N
      PROVE  m + 1 \in N
  <2> SUFFICES ASSUME m + 1 <= n
               PROVE  f[m + 1] = g[m + 1]
    OBVIOUS
  <2>1. m \in Nat /\ m + 1 \in 1..n /\ m + 1 \in 1..(n + 1) /\ (m + 1) - 1 = m /\ f[m] = g[m]
    BY <1>1
  <2>2. f[m + 1] = IF longer[m + 1] \in kept THEN Append(f[m], longer[m + 1]) ELSE f[m]
    BY <1>2, <2>1 DEF Steps
  <2>3. g[m + 1] = IF ids[m + 1] \in kept THEN Append(g[m], ids[m + 1]) ELSE g[m]
    BY <1>3, <2>1 DEF Steps
  <2> QED
    BY <1>1, <2>1, <2>2, <2>3
<1>6. f[n] = g[n]
  <2> HIDE DEF N
  <2>1. N = Nat
    <3>1. N \in SUBSET Nat
      BY DEF N
    <3> QED
      BY <1>4, <1>5, <3>1, Induction
  <2> QED
    BY <1>1, <2>1 DEF N
<1>7. f[n + 1] = IF longer[n + 1] \in kept THEN Append(f[n], longer[n + 1]) ELSE f[n]
  <2>1. n + 1 \in 1..(n + 1) /\ (n + 1) - 1 = n
    BY <1>1
  <2> QED
    BY <1>2, <2>1 DEF Steps
<1> QED
  BY <1>1, <1>2, <1>3, <1>6, <1>7 DEF longer

-----------------------------------------------------------------------------
(* The elements of a sequence, and those beyond a position. *)

\* Those behind the first k.
Beyond(ids, k) == {ids[i] : i \in (k + 1)..Len(ids)}

LEMMA ToSetIs ==
    ASSUME NEW S, NEW ids \in Seq(S)
    PROVE  ToSet(ids) = {ids[i] : i \in 1..Len(ids)} /\ ToSet(ids) \subseteq S
BY LenProperties DEF ToSet

LEMMA ToSetAppend ==
    ASSUME NEW S, NEW ids \in Seq(S), NEW x \in S
    PROVE  ToSet(Append(ids, x)) = ToSet(ids) \cup {x}
<1> DEFINE longer == Append(ids, x)
           n == Len(ids)
<1>1. /\ longer \in Seq(S) /\ Len(longer) = n + 1 /\ n \in Nat
      /\ longer[n + 1] = x /\ \A i \in 1..n : longer[i] = ids[i]
  BY AppendProperties, LenProperties
<1>2. ToSet(ids) = {ids[i] : i \in 1..n} /\ ToSet(longer) = {longer[i] : i \in 1..(n + 1)}
  BY <1>1, ToSetIs
<1> HIDE DEF longer, n
<1>3. 1..(n + 1) = 1..n \cup {n + 1}
  BY <1>1
<1> QED
  BY <1>1, <1>2, <1>3 DEF longer

LEMMA ToSetConcat ==
    ASSUME NEW S, NEW s \in Seq(S), NEW t \in Seq(S)
    PROVE  ToSet(s \o t) = ToSet(s) \cup ToSet(t)
<1>1. ToSet(s \o t) = Range(s \o t) /\ ToSet(s) = Range(s) /\ ToSet(t) = Range(t)
  BY DEF ToSet, Range
<1> QED
  BY <1>1, RangeConcatenation

LEMMA AppendOfConcat ==
    ASSUME NEW S, NEW s \in Seq(S), NEW t \in Seq(S), NEW x \in S
    PROVE  s \o Append(t, x) = Append(s \o t, x)
<1>1. <<x>> \in Seq(S) /\ s \o t \in Seq(S)
  BY ConcatProperties
<1>2. Append(t, x) = t \o <<x>> /\ Append(s \o t, x) = (s \o t) \o <<x>>
  BY <1>1, AppendIsConcat
<1> QED
  BY <1>1, <1>2, ConcatAssociative

LEMMA InjectiveAppend ==
    ASSUME NEW S, NEW ids \in Seq(S), NEW x \in S
    PROVE  IsInjective(Append(ids, x)) <=> IsInjective(ids) /\ x \notin ToSet(ids)
<1> DEFINE longer == Append(ids, x)
           n == Len(ids)
<1>1. /\ longer \in Seq(S) /\ Len(longer) = n + 1 /\ n \in Nat
      /\ longer[n + 1] = x /\ \A i \in 1..n : longer[i] = ids[i]
  BY AppendProperties, LenProperties
<1>2. DOMAIN longer = 1..(n + 1) /\ DOMAIN ids = 1..n /\ ToSet(ids) = {ids[i] : i \in 1..n}
  BY <1>1, LenProperties, ToSetIs
<1> HIDE DEF longer, n
<1>3. IsInjective(longer) <=> IsInjective(ids) /\ x \notin ToSet(ids)
  BY <1>1, <1>2 DEF IsInjective
<1> QED
  BY <1>3 DEF longer

LEMMA InjectiveConcat ==
    ASSUME NEW S, NEW s \in Seq(S), NEW t \in Seq(S), IsInjective(s \o t)
    PROVE  IsInjective(s) /\ IsInjective(t) /\ ToSet(s) \cap ToSet(t) = {}
<1> DEFINE both == s \o t
           m == Len(s)
           n == Len(t)
<1>1. /\ m \in Nat /\ n \in Nat /\ DOMAIN both = 1..(m + n)
      /\ \A i \in 1..(m + n) : both[i] = IF i <= m THEN s[i] ELSE t[i - m]
  BY ConcatProperties, LenProperties
<1>2. /\ ToSet(s) = {s[i] : i \in 1..m} /\ ToSet(t) = {t[i] : i \in 1..n}
      /\ DOMAIN s = 1..m /\ DOMAIN t = 1..n
  BY ToSetIs, LenProperties
<1>3. \A i, j \in 1..(m + n) : both[i] = both[j] => i = j
  BY <1>1 DEF IsInjective
<1> HIDE DEF both, m, n
<1>4. \A i \in 1..m : i \in 1..(m + n) /\ both[i] = s[i]
  BY <1>1
<1>5. \A i \in 1..n : i + m \in 1..(m + n) /\ both[i + m] = t[i] /\ i + m > m
  BY <1>1
<1>6. ToSet(s) \cap ToSet(t) = {}
  BY <1>1, <1>2, <1>3, <1>4, <1>5
<1>7. \A i, j \in 1..n : t[i] = t[j] => i = j
  <2> SUFFICES ASSUME NEW i \in 1..n, NEW j \in 1..n, t[i] = t[j]
               PROVE  i = j
    OBVIOUS
  <2>1. i + m = j + m
    BY <1>3, <1>5
  <2> QED
    BY <1>1, <2>1
<1>8. \A i, j \in 1..m : s[i] = s[j] => i = j
  BY <1>3, <1>4
<1> QED
  BY <1>2, <1>6, <1>7, <1>8 DEF IsInjective

-----------------------------------------------------------------------------
(* What a selection holds. *)

\* What is selected is of the sequence, and in the set.
LEMMA SelectType ==
    ASSUME NEW S, NEW ids \in Seq(S), NEW kept
    PROVE  /\ Select(ids, kept) \in Seq(S)
           /\ ToSet(Select(ids, kept)) = ToSet(ids) \cap kept
<1> DEFINE Good(q) == /\ Select(q, kept) \in Seq(S)
                      /\ ToSet(Select(q, kept)) = ToSet(q) \cap kept
           G == {q \in Seq(S) : Good(q)}
<1>1. <<>> \in G
  <2>1. ToSet(<<>>) = {}
    BY DEF ToSet
  <2> QED
    BY <2>1, SelectEmpty, EmptySeq
<1>2. ASSUME NEW q \in G, NEW x \in S
      PROVE  Append(q, x) \in G
  <2>1. q \in Seq(S) /\ Good(q) /\ Append(q, x) \in Seq(S)
    BY AppendProperties
  <2>2. ToSet(Append(q, x)) = ToSet(q) \cup {x}
    BY <2>1, ToSetAppend
  <2>3. /\ Append(Select(q, kept), x) \in Seq(S)
        /\ ToSet(Append(Select(q, kept), x)) = ToSet(Select(q, kept)) \cup {x}
    BY <2>1, ToSetAppend, AppendProperties
  <2>4. Select(Append(q, x), kept) =
            IF x \in kept THEN Append(Select(q, kept), x) ELSE Select(q, kept)
    BY <2>1, SelectAppend
  <2>5. Good(Append(q, x))
    BY <2>1, <2>2, <2>3, <2>4
  <2> QED
    BY <2>1, <2>5
<1> QED
  <2> HIDE DEF Good
  <2>1. G = Seq(S)
    BY <1>1, <1>2, SeqInduction
  <2> QED
    BY <2>1 DEF Good

LEMMA SelectConcat ==
    ASSUME NEW S, NEW s \in Seq(S), NEW t \in Seq(S), NEW kept
    PROVE  Select(s \o t, kept) = Select(s, kept) \o Select(t, kept)
<1> DEFINE G == {q \in Seq(S) : Select(s \o q, kept) = Select(s, kept) \o Select(q, kept)}
<1>1. <<>> \in G
  <2>1. s \o <<>> = s /\ Select(s, kept) \o <<>> = Select(s, kept)
    BY ConcatEmptySeq, SelectType
  <2> QED
    BY <2>1, SelectEmpty, EmptySeq
<1>2. ASSUME NEW q \in G, NEW x \in S
      PROVE  Append(q, x) \in G
  <2>1. q \in Seq(S) /\ Append(q, x) \in Seq(S) /\ s \o q \in Seq(S)
        /\ Select(s, kept) \in Seq(S) /\ Select(q, kept) \in Seq(S)
    BY AppendProperties, ConcatProperties, SelectType
  <2>2. s \o Append(q, x) = Append(s \o q, x)
    BY <2>1, AppendOfConcat
  <2>3. Select(s, kept) \o Append(Select(q, kept), x) = Append(Select(s, kept) \o Select(q, kept), x)
    BY <2>1, AppendOfConcat
  <2>4. Select(Append(s \o q, x), kept) =
            IF x \in kept THEN Append(Select(s \o q, kept), x) ELSE Select(s \o q, kept)
    <3> DEFINE both == s \o q
    <3>1. both \in Seq(S)
      BY <2>1
    <3> HIDE DEF both
    <3>2. Select(Append(both, x), kept) =
              IF x \in kept THEN Append(Select(both, kept), x) ELSE Select(both, kept)
      BY <3>1, SelectAppend
    <3> QED
      BY <3>2 DEF both
  <2>5. Select(Append(q, x), kept) =
            IF x \in kept THEN Append(Select(q, kept), x) ELSE Select(q, kept)
    BY <2>1, SelectAppend
  <2> QED
    BY <2>1, <2>2, <2>3, <2>4, <2>5
<1>3. G = Seq(S)
  <2> HIDE DEF G
  <2>1. G \in SUBSET Seq(S)
    BY DEF G
  <2> QED
    BY <1>1, <1>2, <2>1, SeqInduction
<1> QED
  BY <1>3

LEMMA SelectOfParts ==
    ASSUME NEW S, NEW kept
    PROVE  \A s, u \in Seq(S) : Select(s \o u, kept) = Select(s, kept) \o Select(u, kept)
BY SelectConcat

LEMMA SelectHead ==
    ASSUME NEW S, NEW x \in S, NEW t \in Seq(S), NEW kept
    PROVE  Select(<<x>> \o t, kept) = IF x \in kept THEN <<x>> \o Select(t, kept) ELSE Select(t, kept)
<1> DEFINE none == <<>>
           one == <<x>>
<1>1. none \in Seq(S) /\ one \in Seq(S) /\ Append(none, x) = one
  OBVIOUS
<1>2. Select(none, kept) = none
  BY SelectEmpty
<1>3. Select(t, kept) \in Seq(S) /\ none \o Select(t, kept) = Select(t, kept)
  BY SelectType, ConcatEmptySeq
<1> HIDE DEF one, none
<1>4. Select(Append(none, x), kept) = IF x \in kept THEN Append(Select(none, kept), x) ELSE Select(none, kept)
  BY <1>1, SelectAppend
<1>5. Select(one, kept) = IF x \in kept THEN one ELSE none
  BY <1>1, <1>2, <1>4
<1>6. Select(one \o t, kept) = Select(one, kept) \o Select(t, kept)
  BY <1>1, SelectConcat
<1>7. Select(one \o t, kept) = IF x \in kept THEN one \o Select(t, kept) ELSE Select(t, kept)
  BY <1>3, <1>5, <1>6
<1> QED
  BY <1>7 DEF one

\* A selection of what was selected already.
LEMMA SelectTwice ==
    ASSUME NEW S, NEW ids \in Seq(S), NEW kept, NEW of
    PROVE  Select(Select(ids, of), kept) = Select(ids, of \cap kept)
<1> DEFINE G == {q \in Seq(S) : Select(Select(q, of), kept) = Select(q, of \cap kept)}
<1>1. <<>> \in G
  BY SelectEmpty, EmptySeq
<1>2. ASSUME NEW q \in G, NEW x \in S
      PROVE  Append(q, x) \in G
  <2>1. q \in Seq(S) /\ Append(q, x) \in Seq(S) /\ Select(q, of) \in Seq(S)
    BY AppendProperties, SelectType
  <2>6. \A these : \A s \in Seq(S) :
            Select(Append(s, x), these) = IF x \in these THEN Append(Select(s, these), x)
                                                         ELSE Select(s, these)
    BY SelectAppend
  <2>2. Select(Append(q, x), of) = IF x \in of THEN Append(Select(q, of), x) ELSE Select(q, of)
    BY <2>1, <2>6
  <2>3. Select(Append(Select(q, of), x), kept) =
            IF x \in kept THEN Append(Select(Select(q, of), kept), x) ELSE Select(Select(q, of), kept)
    BY <2>1, <2>6
  <2>4. Select(Append(q, x), of \cap kept) =
            IF x \in of \cap kept THEN Append(Select(q, of \cap kept), x) ELSE Select(q, of \cap kept)
    BY <2>1, <2>6
  <2>5. Select(Select(Append(q, x), of), kept) = Select(Append(q, x), of \cap kept)
    <3>1. Select(Select(q, of), kept) = Select(q, of \cap kept)
      OBVIOUS
    <3> HIDE DEF G
    <3>2. CASE x \in of
      <4>1. Select(Append(q, x), of) = Append(Select(q, of), x)
        BY <2>2, <3>2
      <4>2. Select(Append(q, x), of \cap kept) =
                IF x \in kept THEN Append(Select(q, of \cap kept), x) ELSE Select(q, of \cap kept)
        BY <2>4, <3>2
      <4> QED
        BY <2>3, <3>1, <4>1, <4>2, Zenon
    <3>3. CASE x \notin of
      BY <2>2, <2>4, <3>1, <3>3
    <3> QED
      BY <3>2, <3>3
  <2> QED
    BY <2>1, <2>5
<1>3. G = Seq(S)
  <2> HIDE DEF G
  <2>1. G \in SUBSET Seq(S)
    BY DEF G
  <2> QED
    BY <1>1, <1>2, <2>1, SeqInduction
<1> QED
  BY <1>3

\* A selection of everything, and one of nothing.
LEMMA SelectAll ==
    ASSUME NEW S, NEW ids \in Seq(S), NEW kept, ToSet(ids) \subseteq kept
    PROVE  Select(ids, kept) = ids
<1> DEFINE G == {q \in Seq(S) : ToSet(q) \subseteq kept => Select(q, kept) = q}
<1>1. <<>> \in G
  BY SelectEmpty, EmptySeq
<1>2. ASSUME NEW q \in G, NEW x \in S
      PROVE  Append(q, x) \in G
  <2>1. q \in Seq(S) /\ Append(q, x) \in Seq(S)
    BY AppendProperties
  <2>2. Select(Append(q, x), kept) = IF x \in kept THEN Append(Select(q, kept), x) ELSE Select(q, kept)
    BY <2>1, SelectAppend
  <2>3. ToSet(Append(q, x)) = ToSet(q) \cup {x}
    BY <2>1, ToSetAppend
  <2> QED
    BY <2>1, <2>2, <2>3
<1>3. G = Seq(S)
  <2> HIDE DEF G
  <2>1. G \in SUBSET Seq(S)
    BY DEF G
  <2> QED
    BY <1>1, <1>2, <2>1, SeqInduction
<1> QED
  BY <1>3

LEMMA SelectNone ==
    ASSUME NEW S, NEW ids \in Seq(S), NEW kept, ToSet(ids) \cap kept = {}
    PROVE  Select(ids, kept) = <<>>
<1> DEFINE q == Select(ids, kept)
<1>1. q \in Seq(S) /\ ToSet(q) = {}
  BY SelectType
<1> HIDE DEF q
<1>2. Len(q) = 0
  <2>1. Len(q) \in Nat
    BY <1>1
  <2>2. \A i \in 1..Len(q) : q[i] \in ToSet(q)
    BY <1>1 DEF ToSet
  <2>3. 1 \notin 1..Len(q)
    BY <1>1, <2>2, Zenon
  <2> QED
    BY <2>1, <2>3
<1> QED
  BY <1>1, <1>2, EmptySeq DEF q

\* Nothing that occurs once occurs twice in a selection.
LEMMA SelectInjective ==
    ASSUME NEW S, NEW ids \in Seq(S), IsInjective(ids), NEW kept
    PROVE  IsInjective(Select(ids, kept))
<1> DEFINE G == {q \in Seq(S) : IsInjective(q) => IsInjective(Select(q, kept))}
<1>1. <<>> \in G
  BY SelectEmpty, EmptySeq
<1>2. ASSUME NEW q \in G, NEW x \in S
      PROVE  Append(q, x) \in G
  <2>1. q \in Seq(S) /\ Append(q, x) \in Seq(S) /\ Select(q, kept) \in Seq(S)
        /\ ToSet(Select(q, kept)) = ToSet(q) \cap kept
    BY AppendProperties, SelectType
  <2>2. Select(Append(q, x), kept) = IF x \in kept THEN Append(Select(q, kept), x) ELSE Select(q, kept)
    BY <2>1, SelectAppend
  <2>3. /\ IsInjective(Append(q, x)) <=> IsInjective(q) /\ x \notin ToSet(q)
        /\ IsInjective(Append(Select(q, kept), x))
              <=> IsInjective(Select(q, kept)) /\ x \notin ToSet(Select(q, kept))
    BY <2>1, InjectiveAppend
  <2> QED
    BY <2>1, <2>2, <2>3
<1>3. G = Seq(S)
  <2> HIDE DEF G
  <2>1. G \in SUBSET Seq(S)
    BY DEF G
  <2> QED
    BY <1>1, <1>2, <2>1, SeqInduction
<1> QED
  BY <1>3

\* The next id of the index goes with those found, or is left out.
LEMMA TakenFirst ==
    ASSUME NEW S, NEW f \in Seq(S), NEW x \in S, NEW t \in Seq(S)
    PROVE  Append(f, x) \o t = f \o (<<x>> \o t)
<1> DEFINE one == <<x>>
<1>1. one \in Seq(S)
  OBVIOUS
<1>2. Append(f, x) = f \o one
  BY AppendIsConcat
<1> HIDE DEF one
<1>3. Append(f, x) \o t = f \o (one \o t)
  BY <1>1, <1>2, ConcatAssociative
<1> QED
  BY <1>3 DEF one

\* What is found in the end, if nothing changes meanwhile.
Coming(f, ids, kept) == f \o Select(ids, kept)

LEMMA TakenOrNot ==
    ASSUME NEW S, NEW f \in Seq(S), NEW x \in S, NEW t \in Seq(S), NEW kept
    PROVE  Coming(IF x \in kept THEN Append(f, x) ELSE f, t, kept) = Coming(f, <<x>> \o t, kept)
<1> DEFINE rest == Select(t, kept)
           both == Select(<<x>> \o t, kept)
<1>1. rest \in Seq(S)
  BY SelectType
<1>2. both = IF x \in kept THEN <<x>> \o rest ELSE rest
  BY SelectHead
<1> HIDE DEF rest, both
<1>3. Append(f, x) \o rest = f \o (<<x>> \o rest)
  BY <1>1, TakenFirst
<1>4. (IF x \in kept THEN Append(f, x) ELSE f) \o rest = f \o both
  BY <1>2, <1>3, Zenon
<1> QED
  BY <1>4, Zenon DEF rest, both, Coming

\* Nothing of the part gone is selected.
Without(f, gone, t, kept) == Select(f \o (gone \o t), kept) = Select(f \o t, kept)

LEMMA SelectWithout ==
    ASSUME NEW S, NEW f \in Seq(S), NEW gone \in Seq(S), NEW t \in Seq(S), NEW kept,
           ToSet(gone) \cap kept = {}
    PROVE  Without(f, gone, t, kept)
<1>8. \A s, u \in Seq(S) : Select(s \o u, kept) = Select(s, kept) \o Select(u, kept)
  BY SelectOfParts
<1> DEFINE end == gone \o t
           rest == Select(t, kept)
<1>1. end \in Seq(S)
  BY ConcatProperties
<1>2. Select(end, kept) = Select(gone, kept) \o rest
  BY <1>8
<1>3. Select(f \o t, kept) = Select(f, kept) \o rest
  BY <1>8
<1>4. rest \in Seq(S)
  BY SelectType
<1> HIDE DEF end, rest
<1>5. Select(f \o end, kept) = Select(f, kept) \o Select(end, kept)
  BY <1>1, <1>8
<1>6. Select(gone, kept) = <<>>
  BY SelectNone
<1>7. Select(end, kept) = rest
  BY <1>2, <1>4, <1>6, ConcatEmptySeq
<1> QED
  BY <1>3, <1>5, <1>7 DEF end, Without

\* What is in the sequence q comes in the order it has in ids.
InOrder(q, ids) == q = Select(ids, ToSet(q))

\* A part may be left out of a selection.
LEMMA LeftOut ==
    ASSUME NEW S, NEW all \in Seq(S), IsInjective(all),
           NEW f \in Seq(S), NEW gone \in Seq(S), NEW t \in Seq(S), InOrder(f \o (gone \o t), all)
    PROVE  InOrder(f \o t, all) /\ ToSet(f \o t) \subseteq ToSet(f \o (gone \o t))
<1> DEFINE end == gone \o t
           both == f \o end
           these == ToSet(both)
           others == ToSet(f \o t)
<1>1. f \o t \in Seq(S) /\ others = ToSet(f) \cup ToSet(t)
  BY ToSetConcat, ConcatProperties
<1>2. end \in Seq(S) /\ ToSet(end) = ToSet(gone) \cup ToSet(t)
  BY ToSetConcat, ConcatProperties
<1>3. both = Select(all, these)
  BY DEF InOrder
<1> HIDE DEF end, others
<1>4. both \in Seq(S) /\ these = ToSet(f) \cup ToSet(end)
  BY <1>2, ToSetConcat, ConcatProperties
<1> HIDE DEF both, these
<1>5. IsInjective(both)
  <2>1. IsInjective(Select(all, these))
    BY SelectInjective
  <2> QED
    BY <1>3, <2>1
<1>6. ToSet(f) \cap ToSet(end) = {} /\ IsInjective(end)
  BY <1>2, <1>5, InjectiveConcat DEF both
<1>7. ToSet(gone) \cap ToSet(t) = {}
  BY <1>6, InjectiveConcat DEF end
<1>8. ToSet(gone) \cap others = {}
  BY <1>1, <1>2, <1>6, <1>7
<1>9. Select(f \o t, others) = f \o t
  BY <1>1, SelectAll DEF others
<1>10. Select(both, others) = f \o t
  <2>1. Without(f, gone, t, others)
    BY <1>8, SelectWithout
  <2> QED
    BY <1>9, <2>1 DEF both, end, Without
<1>11. these \cap others = others
  BY <1>1, <1>2, <1>4
<1>12. Select(Select(all, these), others) = Select(all, these \cap others)
  BY SelectTwice
<1>13. f \o t = Select(all, others) /\ others \subseteq these
  BY <1>3, <1>10, <1>11, <1>12
<1> QED
  BY <1>13 DEF others, these, both, end, InOrder

-----------------------------------------------------------------------------
(* How far an element is from the beginning. *)

LEMMA BeyondIn ==
    ASSUME NEW S, NEW ids \in Seq(S)
    PROVE  /\ Beyond(ids, 0) = ToSet(ids)
           /\ \A k \in Nat : Beyond(ids, k) \subseteq ToSet(ids)
           /\ \A k \in Nat : Len(ids) <= k => Beyond(ids, k) = {}
BY ToSetIs, LenProperties DEF Beyond

LEMMA BeyondConcat ==
    ASSUME NEW S, NEW s \in Seq(S), NEW t \in Seq(S), NEW k \in Nat
    PROVE  Beyond(s \o t, k) =
               Beyond(s, k) \cup Beyond(t, IF k <= Len(s) THEN 0 ELSE k - Len(s))
<1> DEFINE both == s \o t
           m == Len(s)
           n == Len(t)
           rest == IF k <= m THEN 0 ELSE k - m
<1>1. /\ m \in Nat /\ n \in Nat /\ Len(both) = m + n
      /\ \A i \in 1..(m + n) : both[i] = IF i <= m THEN s[i] ELSE t[i - m]
  BY ConcatProperties, LenProperties
<1> HIDE DEF both, m, n
<1>2. ASSUME NEW x \in Beyond(both, k)
      PROVE  x \in Beyond(s, k) \cup Beyond(t, rest)
  <2>1. PICK i \in (k + 1)..(m + n) : x = both[i]
    BY <1>1 DEF Beyond
  <2>2. CASE i <= m
    <3>1. i \in (k + 1)..m /\ x = s[i]
      BY <1>1, <2>1, <2>2
    <3> QED
      BY <3>1 DEF Beyond, m
  <2>3. CASE i > m
    <3>1. i - m \in (rest + 1)..n /\ x = t[i - m]
      BY <1>1, <2>1, <2>3
    <3> QED
      BY <3>1 DEF Beyond, n
  <2> QED
    BY <1>1, <2>1, <2>2, <2>3
<1>3. ASSUME NEW x \in Beyond(s, k)
      PROVE  x \in Beyond(both, k)
  <2>1. PICK i \in (k + 1)..m : x = s[i]
    BY DEF Beyond, m
  <2>2. i \in (k + 1)..(m + n) /\ x = both[i]
    BY <1>1, <2>1
  <2> QED
    BY <1>1, <2>2 DEF Beyond
<1>4. ASSUME NEW x \in Beyond(t, rest)
      PROVE  x \in Beyond(both, k)
  <2>1. PICK i \in (rest + 1)..n : x = t[i]
    BY DEF Beyond, n
  <2>2. i + m \in (k + 1)..(m + n) /\ x = both[i + m]
    BY <1>1, <2>1
  <2> QED
    BY <1>1, <2>2 DEF Beyond
<1> QED
  BY <1>2, <1>3, <1>4 DEF both, m

LEMMA BeyondAppend ==
    ASSUME NEW S, NEW ids \in Seq(S), NEW x \in S, NEW k \in Nat
    PROVE  Beyond(Append(ids, x), k) = Beyond(ids, k) \cup (IF k <= Len(ids) THEN {x} ELSE {})
<1> DEFINE longer == Append(ids, x)
           n == Len(ids)
<1>1. /\ Len(longer) = n + 1 /\ n \in Nat
      /\ longer[n + 1] = x /\ \A i \in 1..n : longer[i] = ids[i]
  BY AppendProperties, LenProperties
<1> HIDE DEF longer, n
<1>2. /\ \A i \in (k + 1)..(n + 1) : i \in (k + 1)..n \/ i = n + 1
      /\ (n + 1 \in (k + 1)..(n + 1)) <=> k <= n
  BY <1>1
<1>3. Beyond(longer, k) = {longer[i] : i \in (k + 1)..(n + 1)} /\ Beyond(ids, k) = {ids[i] : i \in (k + 1)..n}
  BY <1>1 DEF Beyond, n
<1>4. Beyond(longer, k) = Beyond(ids, k) \cup (IF k <= n THEN {x} ELSE {})
  BY <1>1, <1>2, <1>3
<1> QED
  BY <1>4 DEF longer, n

\* Each element of s is at least as far from the beginning in t.
NoNearer(s, t) == Len(s) <= Len(t) /\ \A k \in Nat : Beyond(s, k) \subseteq Beyond(t, k)

\* The end of a sequence may be replaced by one where nothing is nearer.
LEMMA ConcatNoNearer ==
    ASSUME NEW S, NEW s \in Seq(S), NEW t \in Seq(S), NEW u \in Seq(S), NoNearer(t, u)
    PROVE  NoNearer(s \o t, s \o u)
<1>1. Len(s) \in Nat /\ Len(t) \in Nat /\ Len(u) \in Nat
  BY LenProperties
<1>2. Len(s \o t) = Len(s) + Len(t) /\ Len(s \o u) = Len(s) + Len(u)
  BY ConcatProperties
<1>3. ASSUME NEW k \in Nat
      PROVE  Beyond(s \o t, k) \subseteq Beyond(s \o u, k)
  <2> DEFINE m == IF k <= Len(s) THEN 0 ELSE k - Len(s)
  <2>1. m \in Nat
    BY <1>1
  <2>2. Beyond(s \o t, k) = Beyond(s, k) \cup Beyond(t, m)
        /\ Beyond(s \o u, k) = Beyond(s, k) \cup Beyond(u, m)
    BY BeyondConcat
  <2> QED
    BY <2>1, <2>2 DEF NoNearer
<1> QED
  BY <1>1, <1>2, <1>3 DEF NoNearer

\* More may be selected.
LEMMA SelectNoNearer ==
    ASSUME NEW S, NEW ids \in Seq(S), NEW kept, NEW more, ToSet(ids) \cap kept \subseteq more
    PROVE  NoNearer(Select(ids, kept), Select(ids, more))
<1> DEFINE Good(q) == ToSet(q) \cap kept \subseteq more => NoNearer(Select(q, kept), Select(q, more))
           G == {q \in Seq(S) : Good(q)}
<1>1. <<>> \in G
  <2>1. NoNearer(<<>>, <<>>)
    BY EmptySeq DEF NoNearer
  <2> QED
    BY <2>1, SelectEmpty, EmptySeq
<1>2. ASSUME NEW q \in G, NEW x \in S
      PROVE  Append(q, x) \in G
  <2> DEFINE few == Select(q, kept)
             many == Select(q, more)
  <2>1. q \in Seq(S) /\ Append(q, x) \in Seq(S) /\ few \in Seq(S) /\ many \in Seq(S)
        /\ ToSet(Append(q, x)) = ToSet(q) \cup {x}
    BY AppendProperties, SelectType, ToSetAppend
  <2>2. Select(Append(q, x), kept) = IF x \in kept THEN Append(few, x) ELSE few
    BY <2>1, SelectAppend
  <2>3. Select(Append(q, x), more) = IF x \in more THEN Append(many, x) ELSE many
    BY <2>1, SelectAppend
  <2>4. ASSUME ToSet(Append(q, x)) \cap kept \subseteq more
        PROVE  NoNearer(Select(Append(q, x), kept), Select(Append(q, x), more))
    <3>1. NoNearer(few, many) /\ (x \in kept => x \in more)
      BY <2>1, <2>4
    <3> HIDE DEF few, many, G
    <3>2. /\ Len(few) \in Nat /\ Len(many) \in Nat
          /\ Len(Append(few, x)) = Len(few) + 1 /\ Len(Append(many, x)) = Len(many) + 1
      BY <2>1, AppendProperties, LenProperties
    <3>3. \A k \in Nat : /\ Beyond(Append(few, x), k) = Beyond(few, k) \cup (IF k <= Len(few) THEN {x} ELSE {})
                         /\ Beyond(Append(many, x), k) = Beyond(many, k) \cup (IF k <= Len(many) THEN {x} ELSE {})
      BY <2>1, BeyondAppend
    <3>4. NoNearer(Append(few, x), Append(many, x)) /\ NoNearer(few, Append(many, x))
      BY <3>1, <3>2, <3>3 DEF NoNearer
    <3> QED
      BY <2>2, <2>3, <3>1, <3>4
  <2> QED
    BY <2>1, <2>4
<1>3. G = Seq(S)
  <2> HIDE DEF G
  <2>1. G \in SUBSET Seq(S)
    BY DEF G
  <2> QED
    BY <1>1, <1>2, <2>1, SeqInduction
<1> QED
  BY <1>3

-----------------------------------------------------------------------------
(* Pages. *)

\* A page holds the next Limit ids, and is short only where the listing ends.
LEMMA PageHolds ==
    ASSUME NEW S, NEW ids \in Seq(S), NEW page \in Nat \ {0}
    PROVE  LET skip == (page - 1) * Limit
               items == PageOf(ids, page)
           IN  /\ skip \in Nat /\ page * Limit = skip + Limit
               /\ items \in Seq(S) /\ ToSet(items) \subseteq ToSet(ids)
               /\ Beyond(ids, skip) \subseteq ToSet(items) \cup Beyond(ids, skip + Limit)
               /\ Len(items) < Limit => Beyond(ids, skip + Limit) = {}
<1> DEFINE skip == (page - 1) * Limit
           last == IF page * Limit < Len(ids) THEN page * Limit ELSE Len(ids)
           items == PageOf(ids, page)
<1>1. Limit \in Nat \ {0} /\ Len(ids) \in Nat
  BY ListingsAssumption, LenProperties
<1>2. skip \in Nat /\ page * Limit = skip + Limit
  BY <1>1
<1>3. last = (IF skip + Limit < Len(ids) THEN skip + Limit ELSE Len(ids)) /\ last \in Nat
  BY <1>1, <1>2
<1>4. items = SubSeq(ids, skip + 1, last)
  BY DEF PageOf
<1> HIDE DEF skip, last, items
<1>5. \A i \in (skip + 1)..last : ids[i] \in S /\ i \in 1..Len(ids)
  BY <1>1, <1>2, <1>3, ElementOfSeq
<1>6. /\ items \in Seq(S)
      /\ Len(items) = IF skip + 1 <= last THEN last - skip ELSE 0
      /\ \A i \in 1..(last - skip) : items[i] = ids[skip + i]
  <2>1. skip + 1 \in Int /\ last \in Int
    BY <1>2, <1>3
  <2>2. /\ items \in Seq(S)
        /\ Len(items) = IF skip + 1 <= last THEN last - (skip + 1) + 1 ELSE 0
        /\ \A i \in 1..(last - (skip + 1) + 1) : items[i] = ids[(skip + 1) + i - 1]
    BY <1>4, <1>5, <2>1, SubSeqProperties
  <2> QED
    BY <1>2, <1>3, <2>2
<1>7. ToSet(items) = {items[i] : i \in 1..Len(items)}
  BY <1>6, ToSetIs
<1>8. ToSet(items) \subseteq ToSet(ids)
  <2>1. ASSUME NEW i \in 1..Len(items)
        PROVE  items[i] \in ToSet(ids)
    <3>1. i \in 1..(last - skip) /\ skip + i \in (skip + 1)..last
      BY <1>2, <1>3, <1>6
    <3>2. items[i] = ids[skip + i] /\ skip + i \in 1..Len(ids)
      BY <1>5, <1>6, <3>1
    <3>3. ToSet(ids) = {ids[j] : j \in 1..Len(ids)}
      BY ToSetIs
    <3> QED
      BY <3>2, <3>3
  <2> QED
    BY <1>7, <2>1
<1>9. ASSUME NEW x \in Beyond(ids, skip), x \notin Beyond(ids, skip + Limit)
      PROVE  x \in ToSet(items)
  <2>1. PICK i \in (skip + 1)..Len(ids) : x = ids[i]
    BY DEF Beyond
  <2>2. i \notin (skip + Limit + 1)..Len(ids)
    BY <1>9, <2>1 DEF Beyond
  <2>3. i \in (skip + 1)..last
    BY <1>1, <1>2, <1>3, <2>1, <2>2
  <2>4. i - skip \in 1..(last - skip) /\ skip + (i - skip) = i /\ Len(items) = last - skip
    BY <1>1, <1>2, <1>3, <1>6, <2>3
  <2>5. items[i - skip] = x
    BY <1>6, <2>1, <2>4
  <2> QED
    BY <1>7, <2>4, <2>5
<1>10. ASSUME Len(items) < Limit
       PROVE  Beyond(ids, skip + Limit) = {}
  <2>1. Len(ids) <= skip + Limit
    BY <1>1, <1>2, <1>3, <1>6, <1>10
  <2> QED
    BY <1>1, <1>2, <2>1, BeyondIn
<1> QED
  BY <1>2, <1>6, <1>8, <1>9, <1>10 DEF skip, items

\* There is nothing behind the last page of a listing of so many orders.
LEMMA LastPage ==
    ASSUME NEW page \in Nat \ {0}, NEW total \in Nat, page >= TotalPages(total)
    PROVE  total <= (page - 1) * Limit + Limit
<1> DEFINE q == (total + Limit - 1) \div Limit
<1>1. Limit \in Nat \ {0}
  BY ListingsAssumption
<1>2. q \in Nat /\ total + Limit - 1 < Limit * q + Limit
  BY <1>1
<1>3. q <= page
  BY DEF TotalPages
<1> HIDE DEF q
<1>4. Limit * q <= Limit * page
  BY <1>1, <1>2, <1>3
<1>5. Limit * page = (page - 1) * Limit + Limit
  BY <1>1
<1> QED
  BY <1>1, <1>2, <1>4, <1>5

-----------------------------------------------------------------------------
(* The invariant of a walk. *)

Stores == {"redis", "postgres"}

Reading == [at : {"page", "range", "load", "ids", "rows"}, store : Stores, filter : Filter,
            page : Nat \ {0}, unseen : SUBSET OrderId, ids : Seq(OrderId), found : Seq(OrderId),
            total : Nat]

Done == [at : {"done"}, store : Stores, filter : Filter, unseen : SUBSET OrderId,
         stop : {"short page", "totalPages"}]

WalkType == walk \in {NoWalk} \cup Reading \cup Done

\* The index has the placed orders, each once.
RecencySound ==
    /\ recency \in Seq(OrderId)
    /\ IsInjective(recency)
    /\ ToSet(recency) = {o \in OrderId : orders[o] # NoOrder}

\* Orders never leave the listing that is walked.
Growing == walk.filter.status # "PENDING"

\* The orders on the pages before this one.
Skip == (walk.page - 1) * Limit

Listed == Matching(walk.filter)

\* What the client has not seen is not on an earlier page.
PageSound ==
    /\ walk.at = "page" => walk.found = <<>>
    /\ walk.at = "range" => walk.store = "redis" /\ walk.filter.status = Null
    /\ walk.at \in {"page", "range"} /\ Growing => walk.unseen \subseteq Beyond(Listed, Skip)

\* What is loaded and what is left of the index is in the order of the index, and
\* would still make the pages before this one.
LoadSound ==
    walk.at = "load" =>
        LET read == walk.found \o walk.ids
        IN  /\ ToSet(read) \subseteq OfBuyer(walk.filter)
            /\ InOrder(read, recency)
            /\ Growing =>
                  /\ ToSet(walk.found) \subseteq InStatus(walk.filter)
                  /\ walk.unseen \subseteq
                        Beyond(Coming(walk.found, walk.ids, InStatus(walk.filter)), Skip)

\* These are the orders of the page; what is not among them is on a later one.
Covers(items) ==
    /\ walk.unseen \subseteq ToSet(items) \cup Beyond(Listed, Skip + Limit)
    /\ Len(items) < Limit => walk.unseen \subseteq ToSet(items)

RowsSound ==
    /\ walk.at = "ids" /\ Growing =>
          ToSet(walk.ids) \subseteq InStatus(walk.filter) /\ Covers(walk.ids)
    /\ walk.at = "rows" /\ Growing => Covers(walk.found)

WalkSound == PageSound /\ LoadSound /\ RowsSound /\ NothingSkipped

WalkInv == WalkType /\ RecencySound /\ WalkSound

\* At which point of a page the client is.
LEMMA WalkAt ==
    ASSUME WalkType
    PROVE  /\ walk.at \in {"page", "range", "load", "ids", "rows"} => walk \in Reading
           /\ walk.at = "done" => walk \in Done
           /\ walk.at = "none" => walk = NoWalk
<1>1. \A w \in Reading : w.at \in {"page", "range", "load", "ids", "rows"}
  BY DEF Reading
<1>2. \A w \in Done : w.at = "done"
  BY DEF Done
<1>3. NoWalk.at = "none"
  BY DEF NoWalk
<1> QED
  BY <1>1, <1>2, <1>3 DEF WalkType

LEMMA ListedType ==
    ASSUME RecencySound, NEW filter
    PROVE  /\ Index(filter) \in Seq(OrderId)
           /\ ToSet(Index(filter)) = OfBuyer(filter)
           /\ Matching(filter) \in Seq(OrderId)
           /\ ToSet(Matching(filter)) = OfBuyer(filter) \cap InStatus(filter)
<1>1. recency \in Seq(OrderId) /\ OfBuyer(filter) \subseteq ToSet(recency)
  BY DEF RecencySound, OfBuyer
<1> DEFINE both == OfBuyer(filter) \cap InStatus(filter)
<1>2. /\ Select(recency, OfBuyer(filter)) \in Seq(OrderId)
      /\ ToSet(Select(recency, OfBuyer(filter))) = ToSet(recency) \cap OfBuyer(filter)
  BY <1>1, SelectType
<1>3. /\ Select(recency, both) \in Seq(OrderId)
      /\ ToSet(Select(recency, both)) = ToSet(recency) \cap both
  BY <1>1, SelectType
<1> QED
  BY <1>1, <1>2, <1>3 DEF Index, Matching

\* A page is answered: what the client has not seen then is on later pages, or there
\* are none.
LEMMA AnswerSound ==
    ASSUME WalkType, walk \in Reading, RecencySound, NEW items, NEW total,
           items \in Seq(OrderId), total \in Nat,
           Answer(items, total), UNCHANGED <<vars, recency>>,
           Growing =>
              /\ Covers(items)
              /\ walk.page >= TotalPages(total) /\ ~ (walk.store = "redis" /\ walk.filter.status = Null)
                    => walk.unseen \subseteq ToSet(items)
    PROVE  WalkInv'
<1> DEFINE unseen == walk.unseen \ ToSet(items)
           Stopped(reason) == [at |-> "done", store |-> walk.store, filter |-> walk.filter,
                               unseen |-> unseen, stop |-> reason]
<1>1. RecencySound'
  BY DEF RecencySound, vars
<1>2. /\ walk.store \in Stores /\ walk.filter \in Filter /\ walk.page \in Nat \ {0}
      /\ walk.unseen \in SUBSET OrderId
  BY DEF Reading
<1>3. ASSUME NEW reason \in {"short page", "totalPages"}, walk' = Stopped(reason),
             \/ reason = "short page" /\ Len(items) < Limit
             \/ reason = "totalPages" /\ walk.page >= TotalPages(total)
      PROVE  WalkType' /\ WalkSound'
  <2>1. Stopped(reason) \in Done
    BY <1>2 DEF Done
  <2>2. walk'.at = "done" /\ walk'.filter = walk.filter /\ walk'.store = walk.store
        /\ walk'.stop = reason /\ walk'.unseen = unseen
    BY <1>3
  <2>3. NothingSkipped'
    BY <1>3, <2>2 DEF NothingSkipped, Growing, Covers
  <2> QED
    BY <1>3, <2>1, <2>2, <2>3 DEF WalkType, WalkSound, PageSound, LoadSound, RowsSound
<1>4. ASSUME walk' = [walk EXCEPT !.at = "page", !.page = @ + 1, !.unseen = unseen,
                                  !.ids = <<>>, !.found = <<>>, !.total = 0]
      PROVE  WalkType' /\ WalkSound'
  <2>1. <<>> \in Seq(OrderId) /\ walk.page + 1 \in Nat \ {0} /\ unseen \in SUBSET OrderId
    BY <1>2, EmptySeq
  <2>2. walk' \in Reading
    <3> DEFINE next == walk.page + 1
    <3>1. next \in Nat \ {0} /\ unseen \in SUBSET OrderId /\ <<>> \in Seq(OrderId)
      BY <2>1
    <3> HIDE DEF next, unseen
    <3>2. walk' = [walk EXCEPT !.at = "page", !.page = next, !.unseen = unseen,
                               !.ids = <<>>, !.found = <<>>, !.total = 0]
      BY <1>4 DEF next
    <3> QED
      BY <3>1, <3>2 DEF Reading
  <2>3. /\ walk'.at = "page" /\ walk'.filter = walk.filter /\ walk'.found = <<>>
        /\ walk'.page = walk.page + 1 /\ walk'.unseen = unseen
    BY <1>4 DEF Reading
  <2>4. Listed' = Listed
    BY <2>3 DEF Listed, Matching, OfBuyer, InStatus, vars
  <2>5. Skip' = Skip + Limit
    BY <1>2, <2>3, ListingsAssumption DEF Skip
  <2>6. Growing => walk'.unseen \subseteq Beyond(Listed, Skip + Limit)
    BY <2>3 DEF Covers
  <2>7. PageSound'
    BY <2>3, <2>4, <2>5, <2>6 DEF PageSound, Growing
  <2> QED
    BY <2>2, <2>3, <2>7 DEF WalkType, WalkSound, LoadSound, RowsSound, NothingSkipped
<1> QED
  BY <1>1, <1>3, <1>4 DEF Answer, WalkInv

-----------------------------------------------------------------------------
(* The steps of the client. *)

\* The listing does not change in a step of the client.
LEMMA SameListing ==
    ASSUME UNCHANGED <<vars, recency>>, RecencySound
    PROVE  /\ RecencySound'
           /\ \A filter : /\ Index(filter)' = Index(filter) /\ Matching(filter)' = Matching(filter)
                          /\ OfBuyer(filter)' = OfBuyer(filter) /\ InStatus(filter)' = InStatus(filter)
BY DEF RecencySound, Index, Matching, OfBuyer, InStatus, vars

LEMMA StartSound ==
    ASSUME WalkInv, StartWalk
    PROVE  WalkInv'
<1>1. PICK store \in Stores, filter \in Filters :
          walk' = [at |-> "page", store |-> store, filter |-> filter, page |-> 1,
                   unseen |-> ToSet(Matching(filter)), ids |-> <<>>, found |-> <<>>, total |-> 0]
  BY DEF StartWalk, Stores
<1>2. RecencySound' /\ Matching(filter)' = Matching(filter)
  BY SameListing DEF StartWalk, WalkInv
<1>3. /\ Matching(filter) \in Seq(OrderId)
      /\ ToSet(Matching(filter)) = Beyond(Matching(filter), 0)
      /\ ToSet(Matching(filter)) \subseteq OrderId
  BY ListedType, BeyondIn, ToSetIs DEF WalkInv
<1>4. filter \in Filter /\ <<>> \in Seq(OrderId)
  BY ListingsAssumption, EmptySeq
<1>5. walk' \in Reading
  BY <1>1, <1>3, <1>4 DEF Reading
<1>6. Skip' = 0
  BY <1>1, ListingsAssumption DEF Skip
<1>7. walk'.unseen \subseteq Beyond(Listed', Skip')
  BY <1>1, <1>2, <1>3, <1>6 DEF Listed
<1>8. PageSound'
  BY <1>1, <1>7 DEF PageSound
<1> QED
  BY <1>1, <1>2, <1>5, <1>8 DEF WalkInv, WalkType, WalkSound, LoadSound, RowsSound, NothingSkipped

\* ZCARD: the page is still to be read.
LEMMA CountIndexSound ==
    ASSUME WalkInv, CountIndex
    PROVE  WalkInv'
<1>1. walk \in Reading /\ walk.at = "page" /\ walk.store = "redis" /\ walk.filter.status = Null
  BY WalkAt DEF CountIndex, WalkInv
<1>2. walk' = [walk EXCEPT !.at = "range", !.total = Len(Index(walk.filter))]
  BY DEF CountIndex
<1>3. Len(Index(walk.filter)) \in Nat
  BY ListedType, LenProperties DEF WalkInv
<1>4. walk' \in Reading
  BY <1>1, <1>2, <1>3 DEF Reading
<1>5. /\ walk'.at = "range" /\ walk'.store = walk.store /\ walk'.filter = walk.filter
      /\ walk'.page = walk.page /\ walk'.unseen = walk.unseen
  BY <1>1, <1>2 DEF Reading
<1>6. RecencySound' /\ Listed' = Listed /\ Skip' = Skip
  BY <1>5, SameListing DEF CountIndex, WalkInv, Listed, Skip
<1>7. PageSound'
  BY <1>1, <1>5, <1>6 DEF WalkInv, WalkSound, PageSound, Growing
<1> QED
  BY <1>4, <1>5, <1>6, <1>7 DEF WalkInv, WalkType, WalkSound, LoadSound, RowsSound, NothingSkipped

\* ZREVRANGE: the page, of a listing that may have grown since it was counted.
LEMMA ReadRangeSound ==
    ASSUME WalkInv, ReadRange
    PROVE  WalkInv'
<1> DEFINE items == PageOf(Index(walk.filter), walk.page)
<1>1. /\ walk \in Reading /\ walk.at = "range" /\ walk.store = "redis"
      /\ walk.filter.status = Null /\ walk.page \in Nat \ {0} /\ walk.total \in Nat
  BY WalkAt DEF ReadRange, WalkInv, WalkSound, PageSound, Reading
<1>2. Index(walk.filter) = Listed
  <2>1. OfBuyer(walk.filter) = OfBuyer(walk.filter) \cap InStatus(walk.filter)
    BY <1>1 DEF OfBuyer, InStatus
  <2> QED
    BY <2>1 DEF Index, Listed, Matching
<1>3. Listed \in Seq(OrderId)
  BY ListedType DEF WalkInv, Listed
<1>4. /\ items \in Seq(OrderId)
      /\ Beyond(Listed, Skip) \subseteq ToSet(items) \cup Beyond(Listed, Skip + Limit)
      /\ Len(items) < Limit => Beyond(Listed, Skip + Limit) = {}
  BY <1>1, <1>2, <1>3, PageHolds DEF Skip
<1>5. Growing => Covers(items)
  BY <1>1, <1>4 DEF WalkInv, WalkSound, PageSound, Covers
<1> HIDE DEF items
<1> QED
  BY <1>1, <1>4, <1>5, AnswerSound DEF ReadRange, WalkInv, items

\* ZREVRANGE of the whole index: the listing is what is left of it in that status.
LEMMA ReadIndexSound ==
    ASSUME WalkInv, ReadIndex
    PROVE  WalkInv'
<1> DEFINE ids == Index(walk.filter)
<1>1. walk \in Reading /\ walk.at = "page" /\ walk.found = <<>>
  BY WalkAt DEF ReadIndex, WalkInv, WalkSound, PageSound
<1>2. walk' = [walk EXCEPT !.at = "load", !.ids = ids]
  BY DEF ReadIndex
<1>3. ids \in Seq(OrderId) /\ ToSet(ids) = OfBuyer(walk.filter)
  BY ListedType DEF WalkInv
<1>4. walk' \in Reading
  BY <1>1, <1>2, <1>3 DEF Reading
<1>5. /\ walk'.at = "load" /\ walk'.filter = walk.filter /\ walk'.found = <<>> /\ walk'.ids = ids
      /\ walk'.page = walk.page /\ walk'.unseen = walk.unseen
  BY <1>1, <1>2 DEF Reading
<1>6. RecencySound' /\ Listed' = Listed /\ Skip' = Skip /\ Growing' = Growing
      /\ recency' = recency /\ OfBuyer(walk.filter)' = OfBuyer(walk.filter)
      /\ InStatus(walk.filter)' = InStatus(walk.filter)
  BY <1>5, SameListing DEF ReadIndex, WalkInv, Listed, Skip, Growing
<1>7. <<>> \o ids = ids /\ InOrder(ids, recency)
  BY <1>3, ConcatEmptySeq DEF Index, InOrder
<1>8. Select(ids, InStatus(walk.filter)) = Listed
  BY SelectTwice DEF WalkInv, RecencySound, Index, Listed, Matching
<1>9. Coming(<<>>, ids, InStatus(walk.filter)) = Listed /\ ToSet(<<>>) = {}
  BY <1>8, ListedType, ConcatEmptySeq DEF WalkInv, Listed, ToSet, Coming
<1>10. LoadSound'
  <2>1. Growing => walk.unseen \subseteq Beyond(Listed, Skip)
    BY <1>1 DEF WalkInv, WalkSound, PageSound
  <2> HIDE DEF ids
  <2> QED
    BY <1>3, <1>5, <1>6, <1>7, <1>9, <2>1 DEF LoadSound
<1> QED
  BY <1>4, <1>5, <1>6, <1>10 DEF WalkInv, WalkType, WalkSound, PageSound, RowsSound, NothingSkipped

\* The next order of the index is loaded: it goes with those found, or is left out.
LEMMA LoadNext ==
    ASSUME NEW S, NEW all \in Seq(S), IsInjective(all), NEW kept,
           NEW f \in Seq(S), NEW ids \in Seq(S), ids # <<>>, InOrder(f \o ids, all)
    PROVE  LET rest == Tail(ids)
               found == IF Head(ids) \in kept THEN Append(f, Head(ids)) ELSE f
           IN  /\ rest \in Seq(S) /\ found \in Seq(S)
               /\ Coming(found, rest, kept) = Coming(f, ids, kept)
               /\ ToSet(found) \subseteq ToSet(f) \cup kept
               /\ ToSet(found \o rest) \subseteq ToSet(f \o ids)
               /\ InOrder(found \o rest, all)
<1> DEFINE x == Head(ids)
           rest == Tail(ids)
           one == <<x>>
           found == IF x \in kept THEN Append(f, x) ELSE f
<1>1. x \in S /\ rest \in Seq(S)
  BY HeadTailProperties
<1>2. ids = one \o rest
  BY SubSeqFull, TailIsSubSeq, SubSeqRecursiveFirst, HeadTailProperties, LenProperties, EmptySeq
<1> HIDE DEF x, rest
<1>3. one \in Seq(S) /\ Append(f, x) \in Seq(S) /\ ToSet(Append(f, x)) = ToSet(f) \cup {x}
  BY <1>1, ToSetAppend, AppendProperties
<1>4. found \in Seq(S) /\ ToSet(found) \subseteq ToSet(f) \cup kept
  BY <1>3
<1>5. Coming(found, rest, kept) = Coming(f, ids, kept)
  BY <1>1, <1>2, TakenOrNot
<1> HIDE DEF one
<1>6. Append(f, x) \o rest = f \o ids
  BY <1>1, <1>2, TakenFirst DEF one
<1>7. InOrder(f \o rest, all) /\ ToSet(f \o rest) \subseteq ToSet(f \o ids)
  <2>1. InOrder(f \o (one \o rest), all)
    BY <1>2
  <2>2. InOrder(f \o rest, all) /\ ToSet(f \o rest) \subseteq ToSet(f \o (one \o rest))
    BY <1>1, <1>3, <2>1, LeftOut
  <2> QED
    BY <1>2, <2>2
<1>8. InOrder(found \o rest, all) /\ ToSet(found \o rest) \subseteq ToSet(f \o ids)
  BY <1>6, <1>7, Zenon
<1> QED
  BY <1>1, <1>4, <1>5, <1>8 DEF x, rest

\* HGETALL of the next order.
LEMMA LoadOrderSound ==
    ASSUME WalkInv, LoadOrder
    PROVE  WalkInv'
<1> DEFINE kept == InStatus(walk.filter)
           f == walk.found
           ids == walk.ids
           rest == Tail(ids)
           found == IF Head(ids) \in kept THEN Append(f, Head(ids)) ELSE f
<1>1. /\ walk \in Reading /\ walk.at = "load" /\ ids # <<>>
      /\ f \in Seq(OrderId) /\ ids \in Seq(OrderId)
  BY WalkAt DEF LoadOrder, WalkInv, Reading
<1>2. walk' = [walk EXCEPT !.ids = rest, !.found = found]
  BY DEF LoadOrder
<1>3. /\ ToSet(f \o ids) \subseteq OfBuyer(walk.filter) /\ InOrder(f \o ids, recency)
      /\ Growing => ToSet(f) \subseteq kept /\ walk.unseen \subseteq Beyond(Coming(f, ids, kept), Skip)
  BY <1>1 DEF WalkInv, WalkSound, LoadSound
<1>4. recency \in Seq(OrderId) /\ IsInjective(recency)
  BY DEF WalkInv, RecencySound
<1> HIDE DEF kept, f, ids
<1>5. /\ rest \in Seq(OrderId) /\ found \in Seq(OrderId)
      /\ Coming(found, rest, kept) = Coming(f, ids, kept)
      /\ ToSet(found) \subseteq ToSet(f) \cup kept
      /\ ToSet(found \o rest) \subseteq ToSet(f \o ids)
      /\ InOrder(found \o rest, recency)
  BY <1>1, <1>3, <1>4, LoadNext
<1> HIDE DEF rest, found
<1>6. walk' \in Reading
  BY <1>1, <1>2, <1>5 DEF Reading
<1>7. /\ walk'.at = "load" /\ walk'.filter = walk.filter /\ walk'.found = found /\ walk'.ids = rest
      /\ walk'.page = walk.page /\ walk'.unseen = walk.unseen
  BY <1>1, <1>2 DEF Reading
<1>8. /\ RecencySound' /\ Skip' = Skip /\ Growing' = Growing /\ recency' = recency
      /\ OfBuyer(walk.filter)' = OfBuyer(walk.filter) /\ InStatus(walk.filter)' = kept
  BY <1>7, SameListing DEF LoadOrder, WalkInv, Skip, Growing, kept
<1>9. LoadSound'
  BY <1>3, <1>5, <1>7, <1>8 DEF LoadSound
<1> QED
  BY <1>6, <1>7, <1>8, <1>9 DEF WalkInv, WalkType, WalkSound, PageSound, RowsSound, NothingSkipped

\* All are loaded: none of those found is nearer in the listing as it is now.
LEMMA FilterLoadedSound ==
    ASSUME WalkInv, FilterLoaded
    PROVE  WalkInv'
<1> DEFINE f == walk.found
           kept == InStatus(walk.filter)
           items == PageOf(f, walk.page)
           total == Len(f)
<1>1. /\ walk \in Reading /\ walk.at = "load" /\ walk.ids = <<>>
      /\ f \in Seq(OrderId) /\ walk.page \in Nat \ {0}
  BY WalkAt DEF FilterLoaded, WalkInv, Reading
<1>2. recency \in Seq(OrderId)
  BY DEF WalkInv, RecencySound
<1>3. f \o <<>> = f /\ Coming(f, <<>>, kept) = f
  BY <1>1, ConcatEmptySeq, SelectEmpty DEF Coming
<1>4. /\ ToSet(f) \subseteq OfBuyer(walk.filter) /\ InOrder(f, recency)
      /\ Growing => ToSet(f) \subseteq kept /\ walk.unseen \subseteq Beyond(f, Skip)
  BY <1>1, <1>3 DEF WalkInv, WalkSound, LoadSound
<1>5. ASSUME Growing
      PROVE  NoNearer(f, Listed)
  <2> DEFINE these == ToSet(f)
             match == OfBuyer(walk.filter) \cap kept
  <2>1. these \subseteq match
    BY <1>4, <1>5
  <2>2. f = Select(recency, these)
    BY <1>4 DEF InOrder
  <2> HIDE DEF these, match
  <2>3. NoNearer(Select(recency, these), Select(recency, match))
    BY <1>2, <2>1, SelectNoNearer
  <2> QED
    BY <2>2, <2>3 DEF match, Listed, Matching
<1> HIDE DEF f
<1>6. /\ Skip \in Nat /\ Skip + Limit \in Nat /\ walk.page * Limit = Skip + Limit
      /\ items \in Seq(OrderId)
      /\ Beyond(f, Skip) \subseteq ToSet(items) \cup Beyond(f, Skip + Limit)
      /\ Len(items) < Limit => Beyond(f, Skip + Limit) = {}
  BY <1>1, PageHolds, ListingsAssumption DEF Skip
<1>7. total \in Nat
  BY <1>1, LenProperties
<1> HIDE DEF items
<1>8. Growing => Covers(items)
  BY <1>4, <1>5, <1>6 DEF Covers, NoNearer
<1>9. ASSUME Growing, walk.page >= TotalPages(total)
      PROVE  walk.unseen \subseteq ToSet(items)
  <2>1. total <= Skip + Limit
    BY <1>1, <1>7, <1>9, LastPage DEF Skip
  <2>2. Beyond(f, Skip + Limit) = {}
    BY <1>1, <1>6, <2>1, BeyondIn
  <2> QED
    BY <1>4, <1>6, <1>9, <2>2
<1>10. Answer(items, total) /\ UNCHANGED <<vars, recency>>
  BY DEF FilterLoaded, items, f
<1> HIDE DEF total
<1> QED
  BY <1>1, <1>6, <1>7, <1>8, <1>9, <1>10, AnswerSound DEF WalkInv

\* The ids of the page, as the listing is now.
LEMMA SelectIdsSound ==
    ASSUME WalkInv, SelectIds
    PROVE  WalkInv'
<1> DEFINE items == PageOf(Listed, walk.page)
<1>1. walk \in Reading /\ walk.at = "page" /\ walk.page \in Nat \ {0}
  BY WalkAt DEF SelectIds, WalkInv, Reading
<1>2. walk' = [walk EXCEPT !.at = "ids", !.ids = items]
  BY DEF SelectIds, Listed
<1>3. Listed \in Seq(OrderId) /\ ToSet(Listed) \subseteq InStatus(walk.filter)
  BY ListedType DEF WalkInv, Listed
<1>4. /\ items \in Seq(OrderId) /\ ToSet(items) \subseteq ToSet(Listed)
      /\ Beyond(Listed, Skip) \subseteq ToSet(items) \cup Beyond(Listed, Skip + Limit)
      /\ Len(items) < Limit => Beyond(Listed, Skip + Limit) = {}
  BY <1>1, <1>3, PageHolds DEF Skip
<1> HIDE DEF items
<1>5. Growing => Covers(items)
  BY <1>1, <1>4 DEF WalkInv, WalkSound, PageSound, Covers
<1>6. walk' \in Reading
  BY <1>1, <1>2, <1>4 DEF Reading
<1>7. /\ walk'.at = "ids" /\ walk'.filter = walk.filter /\ walk'.ids = items
      /\ walk'.page = walk.page /\ walk'.unseen = walk.unseen
  BY <1>1, <1>2 DEF Reading
<1>8. /\ RecencySound' /\ Skip' = Skip /\ Growing' = Growing /\ Listed' = Listed
      /\ InStatus(walk.filter)' = InStatus(walk.filter)
  BY <1>7, SameListing DEF SelectIds, WalkInv, Skip, Growing, Listed
<1>9. RowsSound'
  BY <1>3, <1>4, <1>5, <1>7, <1>8 DEF RowsSound, Covers
<1> QED
  BY <1>6, <1>7, <1>8, <1>9 DEF WalkInv, WalkType, WalkSound, PageSound, LoadSound, NothingSkipped

\* The rows of these ids still match.
LEMMA SelectRowsSound ==
    ASSUME WalkInv, SelectRows
    PROVE  WalkInv'
<1> DEFINE found == Select(walk.ids, InStatus(walk.filter))
<1>1. walk \in Reading /\ walk.at = "ids" /\ walk.ids \in Seq(OrderId)
  BY WalkAt DEF SelectRows, WalkInv, Reading
<1>2. walk' = [walk EXCEPT !.at = "rows", !.ids = <<>>, !.found = found]
  BY DEF SelectRows
<1>3. found \in Seq(OrderId) /\ <<>> \in Seq(OrderId)
  BY <1>1, SelectType, EmptySeq
<1>4. Growing => found = walk.ids /\ Covers(walk.ids)
  BY <1>1, SelectAll DEF WalkInv, WalkSound, RowsSound
<1> HIDE DEF found
<1>5. walk' \in Reading
  BY <1>1, <1>2, <1>3 DEF Reading
<1>6. /\ walk'.at = "rows" /\ walk'.filter = walk.filter /\ walk'.found = found
      /\ walk'.page = walk.page /\ walk'.unseen = walk.unseen
  BY <1>1, <1>2 DEF Reading
<1>7. RecencySound' /\ Skip' = Skip /\ Growing' = Growing /\ Listed' = Listed
  BY <1>6, SameListing DEF SelectRows, WalkInv, Skip, Growing, Listed
<1>8. RowsSound'
  BY <1>4, <1>6, <1>7 DEF RowsSound, Covers
<1> QED
  BY <1>5, <1>6, <1>7, <1>8 DEF WalkInv, WalkType, WalkSound, PageSound, LoadSound, NothingSkipped

\* The count is newer than the page, so it does not fall short of it.
LEMMA CountRowsSound ==
    ASSUME WalkInv, CountRows
    PROVE  WalkInv'
<1> DEFINE total == Len(Listed)
<1>1. /\ walk \in Reading /\ walk.at = "rows" /\ walk.found \in Seq(OrderId)
      /\ walk.page \in Nat \ {0}
  BY WalkAt DEF CountRows, WalkInv, Reading
<1>2. Growing => Covers(walk.found)
  BY <1>1 DEF WalkInv, WalkSound, RowsSound
<1>3. Listed \in Seq(OrderId) /\ total \in Nat
  BY ListedType, LenProperties DEF WalkInv, Listed
<1>4. ASSUME Growing, walk.page >= TotalPages(total)
      PROVE  walk.unseen \subseteq ToSet(walk.found)
  <2>1. total <= Skip + Limit /\ Skip + Limit \in Nat
    BY <1>1, <1>3, <1>4, LastPage, ListingsAssumption DEF Skip
  <2>2. Beyond(Listed, Skip + Limit) = {}
    BY <1>3, <2>1, BeyondIn
  <2> QED
    BY <1>2, <1>4, <2>2 DEF Covers
<1>5. Answer(walk.found, total) /\ UNCHANGED <<vars, recency>>
  BY DEF CountRows, Listed
<1> HIDE DEF total
<1> QED
  BY <1>1, <1>2, <1>3, <1>4, <1>5, AnswerSound DEF WalkInv

-----------------------------------------------------------------------------
(* The steps of the store. *)

\* What is in the sequence old keeps its order in new.
Keeps(new, old) ==
    /\ ToSet(old) \subseteq ToSet(new)
    /\ \A kept \in SUBSET ToSet(old) : Select(new, kept) = Select(old, kept)

LEMMA ConcatInjective ==
    ASSUME NEW S, NEW s \in Seq(S), NEW t \in Seq(S),
           IsInjective(s), IsInjective(t), ToSet(s) \cap ToSet(t) = {}
    PROVE  IsInjective(s \o t)
<1> DEFINE both == s \o t
           m == Len(s)
           n == Len(t)
<1>1. /\ m \in Nat /\ n \in Nat /\ DOMAIN both = 1..(m + n)
      /\ \A i \in 1..(m + n) : both[i] = IF i <= m THEN s[i] ELSE t[i - m]
  BY ConcatProperties, LenProperties
<1>2. /\ ToSet(s) = {s[i] : i \in 1..m} /\ ToSet(t) = {t[i] : i \in 1..n}
      /\ DOMAIN s = 1..m /\ DOMAIN t = 1..n
  BY ToSetIs, LenProperties
<1>3. /\ \A i, j \in 1..m : s[i] = s[j] => i = j
      /\ \A i, j \in 1..n : t[i] = t[j] => i = j
      /\ \A i \in 1..m, j \in 1..n : s[i] # t[j]
  <2>1. \A i \in 1..m, j \in 1..n : s[i] # t[j]
    <3>1. \A i \in 1..m : s[i] \in ToSet(s)
      BY <1>2
    <3>2. \A j \in 1..n : t[j] \in ToSet(t)
      BY <1>2
    <3> QED
      BY <3>1, <3>2
  <2>2. \A i, j \in 1..m : s[i] = s[j] => i = j
    BY <1>2 DEF IsInjective
  <2>3. \A i, j \in 1..n : t[i] = t[j] => i = j
    BY <1>2 DEF IsInjective
  <2> QED
    BY <2>1, <2>2, <2>3
<1> HIDE DEF both, m, n
<1>4. ASSUME NEW i \in 1..(m + n), NEW j \in 1..(m + n), both[i] = both[j]
      PROVE  i = j
  <2>1. CASE i <= m /\ j <= m
    BY <1>1, <1>3, <1>4, <2>1
  <2>2. CASE i > m /\ j > m
    <3>1. i - m \in 1..n /\ j - m \in 1..n /\ t[i - m] = t[j - m]
      BY <1>1, <1>4, <2>2
    <3>2. i - m = j - m
      BY <1>3, <3>1
    <3> QED
      BY <1>1, <3>2
  <2>3. CASE i <= m /\ j > m
    <3>1. j - m \in 1..n /\ i \in 1..m /\ s[i] = t[j - m]
      BY <1>1, <1>4, <2>3
    <3> QED
      BY <1>3, <3>1
  <2>4. CASE i > m /\ j <= m
    <3>1. i - m \in 1..n /\ j \in 1..m /\ s[j] = t[i - m]
      BY <1>1, <1>4, <2>4
    <3> QED
      BY <1>3, <3>1
  <2> QED
    BY <1>1, <2>1, <2>2, <2>3, <2>4
<1> QED
  BY <1>1, <1>4 DEF IsInjective, both

\* A sequence that grows by a part in the middle.
LEMMA GrownKeeps ==
    ASSUME NEW S, NEW s \in Seq(S), NEW one \in Seq(S), NEW t \in Seq(S),
           IsInjective(s \o t), IsInjective(one), ToSet(one) \cap ToSet(s \o t) = {}
    PROVE  /\ Keeps(s \o (one \o t), s \o t) /\ IsInjective(s \o (one \o t))
           /\ s \o (one \o t) \in Seq(S)
           /\ ToSet(s \o (one \o t)) = ToSet(one) \cup ToSet(s \o t)
<1> DEFINE end == one \o t
           old == s \o t
           new == s \o end
<1>1. /\ old \in Seq(S) /\ ToSet(old) = ToSet(s) \cup ToSet(t)
      /\ ToSet(s) \cap ToSet(t) = {} /\ IsInjective(t)
  BY ToSetConcat, ConcatProperties, InjectiveConcat
<1>2. /\ end \in Seq(S) /\ ToSet(end) = ToSet(one) \cup ToSet(t) /\ IsInjective(s)
      /\ ToSet(one) \cap ToSet(t) = {}
  BY <1>1, ToSetConcat, ConcatProperties, InjectiveConcat
<1>3. IsInjective(end)
  BY <1>1, <1>2, ConcatInjective
<1> HIDE DEF end
<1>4. /\ new \in Seq(S) /\ ToSet(new) = ToSet(one) \cup ToSet(old)
      /\ ToSet(s) \cap ToSet(end) = {}
  BY <1>1, <1>2, ToSetConcat, ConcatProperties
<1>5. IsInjective(new)
  BY <1>2, <1>3, <1>4, ConcatInjective
<1> HIDE DEF old, new
<1>6. ASSUME NEW kept \in SUBSET ToSet(old)
      PROVE  Select(new, kept) = Select(old, kept)
  <2>1. ToSet(one) \cap kept = {}
    BY DEF old
  <2>2. Without(s, one, t, kept)
    BY <2>1, SelectWithout
  <2> QED
    BY <2>2 DEF old, new, end, Without
<1>7. Keeps(new, old)
  BY <1>4, <1>6 DEF Keeps
<1> QED
  BY <1>4, <1>5, <1>7 DEF old, new, end

LEMMA InsertKeeps ==
    ASSUME NEW S, NEW ids \in Seq(S), IsInjective(ids), NEW x \in S, x \notin ToSet(ids),
           NEW k \in 1..(Len(ids) + 1)
    PROVE  /\ Keeps(InsertAt(ids, k, x), ids) /\ IsInjective(InsertAt(ids, k, x))
           /\ InsertAt(ids, k, x) \in Seq(S)
           /\ ToSet(InsertAt(ids, k, x)) = {x} \cup ToSet(ids)
<1> DEFINE front == SubSeq(ids, 1, k - 1)
           back == SubSeq(ids, k, Len(ids))
           one == <<x>>
           new == InsertAt(ids, k, x)
<1>1. Len(ids) \in Nat /\ \A i \in 1..Len(ids) : ids[i] \in S
  BY LenProperties, ElementOfSeq
<1>2. front \in Seq(S) /\ back \in Seq(S)
  <2>1. \A i \in 1..(k - 1) : ids[i] \in S
    BY <1>1
  <2>2. \A i \in k..Len(ids) : ids[i] \in S
    BY <1>1
  <2> QED
    BY <1>1, <2>1, <2>2, SubSeqProperties
<1>3. ids = front \o back
  <2> DEFINE n == Len(ids)
             m == k - 1
             first == 1
  <2>1. /\ n \in Nat /\ k = m + 1 /\ first = 1
        /\ first \in 1..(n + 1) /\ m \in (first - 1)..n /\ n \in m..n
    BY <1>1
  <2> HIDE DEF m, first
  <2>2. SubSeq(ids, first, m) \o SubSeq(ids, m + 1, n) = SubSeq(ids, first, n)
    BY <2>1, ConcatAdjacentSubSeq
  <2> QED
    BY <2>1, <2>2, SubSeqFull DEF m
<1>4. one \in Seq(S) /\ ToSet(one) = {x} /\ IsInjective(one)
  BY DEF ToSet, IsInjective
<1>5. new = front \o one \o back
  BY DEF InsertAt
<1> HIDE DEF front, back, one, new
<1>6. new = front \o (one \o back)
  <2>1. (front \o one) \o back = front \o (one \o back)
    BY <1>2, <1>4, ConcatAssociative, SMTT(20)
  <2> QED
    BY <1>5, <2>1
<1>7. IsInjective(front \o back) /\ ToSet(one) \cap ToSet(front \o back) = {}
  BY <1>3, <1>4
<1>8. /\ Keeps(front \o (one \o back), front \o back) /\ IsInjective(front \o (one \o back))
      /\ front \o (one \o back) \in Seq(S)
      /\ ToSet(front \o (one \o back)) = ToSet(one) \cup ToSet(front \o back)
  BY <1>2, <1>4, <1>7, GrownKeeps
<1> QED
  BY <1>3, <1>4, <1>6, <1>8 DEF new

\* What a step of the store does to the listings: the orders keep their places, and
\* what is listed of them stays listed.
StoreStep ==
    /\ RecencySound'
    /\ Keeps(recency', recency)
    /\ \A o \in ToSet(recency) :
          /\ orders'[o].buyerId = orders[o].buyerId
          /\ orders[o].status = "PENDING" \/ orders'[o].status = orders[o].status
    /\ UNCHANGED walk

LEMMA PlaceStep ==
    ASSUME Inv, RecencySound, NEW o \in OrderId, Place(o)
    PROVE  StoreStep
<1>1. PICK draft \in OrderDraft : PlaceOrder(o, draft)
  BY DEF Place
<1>2. PICK k \in 1..(Len(recency) + 1) : recency' = InsertAt(recency, k, o)
  BY DEF Place
<1>3. orders \in [OrderId -> Order \cup {NoOrder}]
  BY DEF Inv, TypeOK
<1>4. /\ orders[o] = NoOrder /\ orders'[o] = Pending(draft)
      /\ \A p \in OrderId \ {o} : orders'[p] = orders[p]
  BY <1>1, <1>3 DEF PlaceOrder
<1>5. Pending(draft) # NoOrder
  BY DEF Pending, NoOrder
<1>6. recency \in Seq(OrderId) /\ IsInjective(recency) /\ o \notin ToSet(recency)
  BY <1>4 DEF RecencySound
<1>7. /\ Keeps(recency', recency) /\ IsInjective(recency') /\ recency' \in Seq(OrderId)
      /\ ToSet(recency') = {o} \cup ToSet(recency)
  BY <1>2, <1>6, InsertKeeps
<1>8. RecencySound'
  BY <1>4, <1>5, <1>7 DEF RecencySound
<1>9. \A p \in ToSet(recency) : orders'[p] = orders[p]
  BY <1>4, <1>6, ToSetIs
<1> QED
  BY <1>7, <1>8, <1>9 DEF StoreStep, Place

LEMMA OtherStep ==
    ASSUME Inv, RecencySound, OtherThanPlace, UNCHANGED <<recency, walk>>
    PROVE  StoreStep
<1>1. orders \in [OrderId -> Order \cup {NoOrder}]
  BY DEF Inv, TypeOK
<1>2. \A o \in OrderId : orders'[o] = orders[o]
         \/ /\ orders[o].status = "PENDING" /\ orders'[o].buyerId = orders[o].buyerId
            /\ orders'[o] # NoOrder
  <2>1. ASSUME NEW o \in OrderId, FailPayment(o)
        PROVE  orders'[o].buyerId = orders[o].buyerId /\ orders'[o] # NoOrder
    <3>1. orders[o] \in Order
      BY <2>1, PresentOrder DEF Inv, FailPayment, OrderStatus
    <3>2. orders'[o] = [orders[o] EXCEPT !.status = "FAILED"]
      BY <1>1, <2>1 DEF FailPayment
    <3> QED
      BY <3>1, <3>2 DEF Order, NoOrder
  <2>2. ASSUME NEW o \in OrderId, NEW h \in Hash, ConfirmPayment(o, h)
        PROVE  orders'[o].buyerId = orders[o].buyerId /\ orders'[o] # NoOrder
    <3>1. /\ orders'[o] \in Order /\ Terms(orders'[o]) = Terms(orders[o]) 
          /\ orders'[o].status = "PAID"
      BY <2>2, ConfirmStep DEF Inv
    <3> QED
      BY <3>1 DEF Terms, NoOrder
  <2>3. ASSUME NEW o \in OrderId, FailPayment(o) \/ \E h \in Hash : ConfirmPayment(o, h)
        PROVE  orders[o].status = "PENDING" /\ \A p \in OrderId \ {o} : orders'[p] = orders[p]
    BY <1>1, <2>3 DEF FailPayment, ConfirmPayment
  <2>4. ASSUME NEW a \in Article, DeleteArticle(a) \/ \E quantity \in Quantity : SaveArticle(a, quantity)
        PROVE  orders' = orders
    BY <2>4 DEF DeleteArticle, SaveArticle
  <2> QED
    BY <2>1, <2>2, <2>3, <2>4 DEF OtherThanPlace
<1>3. \A o \in OrderId : orders[o] # NoOrder <=> orders'[o] # NoOrder
  BY <1>2 DEF NoOrder
<1>4. RecencySound'
  BY <1>3 DEF RecencySound
<1>5. Keeps(recency', recency)
  BY DEF Keeps
<1>6. ToSet(recency) \subseteq OrderId
  BY DEF RecencySound
<1> QED
  BY <1>2, <1>4, <1>5, <1>6 DEF StoreStep

\* None of the orders of a growing listing moves to an earlier page.
LEMMA ListedGrows ==
    ASSUME RecencySound, StoreStep, Growing, walk.filter \in Filter
    PROVE  /\ \A o \in InStatus(walk.filter) : o \in InStatus(walk.filter)'
           /\ NoNearer(Listed, Listed')
<1> DEFINE f == walk.filter
           few == OfBuyer(f) \cap InStatus(f)
           many == OfBuyer(f)' \cap InStatus(f)'
<1>1. f.status # "PENDING" /\ f' = f
  BY DEF Growing, StoreStep
<1>2. ToSet(recency) \subseteq ToSet(recency')
  BY DEF StoreStep, Keeps
<1>3. \A o \in InStatus(f) : o \in InStatus(f)'
  BY <1>1, <1>2 DEF InStatus, StoreStep
<1>4. \A o \in OfBuyer(f) : o \in OfBuyer(f)'
  BY <1>1, <1>2 DEF OfBuyer, StoreStep
<1>5. few \subseteq many /\ few \in SUBSET ToSet(recency)
  BY <1>3, <1>4 DEF OfBuyer
<1>6. Listed = Select(recency, few) /\ Listed' = Select(recency', many)
  BY DEF Listed, Matching
<1>7. recency' \in Seq(OrderId)
  BY DEF StoreStep, RecencySound
<1> HIDE DEF few, many, f
<1>8. Select(recency', few) = Select(recency, few)
  BY <1>5 DEF StoreStep, Keeps
<1>9. NoNearer(Select(recency', few), Select(recency', many))
  BY <1>5, <1>7, SelectNoNearer
<1> QED
  BY <1>3, <1>6, <1>8, <1>9 DEF f

\* Neither do those that are being loaded.
LEMMA LoadingSound ==
    ASSUME WalkInv, StoreStep, walk \in Reading, walk.at = "load"
    PROVE  LoadSound'
<1> DEFINE f == walk.filter
           found == walk.found
           ids == walk.ids
           few == InStatus(f)
           many == InStatus(f)'
           read == found \o ids
           these == ToSet(read)
<1>1. walk' = walk /\ Growing' = Growing /\ Skip' = Skip /\ f' = f
  BY DEF StoreStep, Growing, Skip
<1>2. /\ f \in Filter /\ walk.page \in Nat \ {0} /\ ids \in Seq(OrderId) /\ found \in Seq(OrderId)
      /\ Skip \in Nat
  BY ListingsAssumption DEF Reading, Skip
<1>3. /\ these \subseteq OfBuyer(f) /\ InOrder(read, recency)
      /\ Growing => ToSet(found) \subseteq few /\ walk.unseen \subseteq Beyond(Coming(found, ids, few), Skip)
  BY DEF WalkInv, WalkSound, LoadSound
<1> HIDE DEF read
<1>4. these \in SUBSET ToSet(recency) /\ ToSet(recency) \subseteq ToSet(recency')
  BY <1>3 DEF OfBuyer, StoreStep, Keeps
<1>5. these \subseteq OfBuyer(f)'
  BY <1>1, <1>3, <1>4 DEF OfBuyer, StoreStep
<1> HIDE DEF these
<1>6. Select(recency', these) = Select(recency, these)
  BY <1>4 DEF StoreStep, Keeps
<1>7. InOrder(read, recency')
  BY <1>3, <1>6 DEF InOrder, these
<1>8. ASSUME Growing
      PROVE  /\ ToSet(found) \subseteq many
             /\ walk.unseen \subseteq Beyond(Coming(found, ids, many), Skip)
  <2>1. few \subseteq many
    BY <1>2, <1>8, ListedGrows DEF WalkInv
  <2> HIDE DEF few, many, found, ids
  <2>2. NoNearer(Select(ids, few), Select(ids, many))
    BY <1>2, <2>1, SelectNoNearer
  <2>3. Select(ids, few) \in Seq(OrderId) /\ Select(ids, many) \in Seq(OrderId)
    BY <1>2, SelectType
  <2>4. NoNearer(Coming(found, ids, few), Coming(found, ids, many))
    BY <1>2, <2>2, <2>3, ConcatNoNearer DEF Coming
  <2> QED
    BY <1>2, <1>3, <1>8, <2>1, <2>4 DEF NoNearer
<1> HIDE DEF found, ids, many, f
<1>9. LoadSound' <=>
          (walk'.at = "load" =>
              /\ ToSet(walk'.found \o walk'.ids) \subseteq OfBuyer(walk.filter)'
              /\ InOrder(walk'.found \o walk'.ids, recency')
              /\ Growing' =>
                    /\ ToSet(walk'.found) \subseteq InStatus(walk.filter)'
                    /\ walk'.unseen \subseteq
                          Beyond(Coming(walk'.found, walk'.ids, InStatus(walk.filter)'), Skip'))
  BY DEF LoadSound
<1> QED
  BY <1>1, <1>5, <1>7, <1>8, <1>9 DEF found, ids, many, f, read, these

LEMMA StoreSound ==
    ASSUME WalkInv, StoreStep
    PROVE  WalkInv'
<1>1. walk' = walk /\ RecencySound' /\ Growing' = Growing /\ Skip' = Skip
  BY DEF StoreStep, Growing, Skip
<1>2. CASE walk \notin Reading
  BY <1>1, <1>2, WalkAt DEF WalkInv, WalkType, WalkSound, PageSound, LoadSound, RowsSound, NothingSkipped,
                            NoWalk, Done
<1>3. CASE walk \in Reading
  <2> DEFINE f == walk.filter
  <2>1. /\ f \in Filter /\ walk.page \in Nat \ {0} /\ walk.at # "done"
        /\ walk.ids \in Seq(OrderId) /\ walk.found \in Seq(OrderId)
    BY <1>3 DEF Reading
  <2>2. Skip \in Nat /\ Skip + Limit \in Nat
    BY <2>1, ListingsAssumption DEF Skip
  <2>3. Growing => /\ \A k \in Nat : Beyond(Listed, k) \subseteq Beyond(Listed, k)'
                   /\ InStatus(f) \subseteq InStatus(f)'
    BY <2>1, ListedGrows DEF WalkInv, NoNearer
  <2>4. PageSound'
    BY <1>1, <2>2, <2>3 DEF WalkInv, WalkSound, PageSound
  <2>5. RowsSound'
    BY <1>1, <2>2, <2>3 DEF WalkInv, WalkSound, RowsSound, Covers
  <2>6. LoadSound'
    BY <1>1, <1>3, LoadingSound DEF LoadSound
  <2> QED
    BY <1>1, <2>1, <2>4, <2>5, <2>6 DEF WalkInv, WalkType, WalkSound, NothingSkipped
<1> QED
  BY <1>2, <1>3

-----------------------------------------------------------------------------

LEMMA ListingsInitInv == ListingsInit => Inv /\ WalkInv
<1> SUFFICES ASSUME ListingsInit
             PROVE  Inv /\ WalkInv
  OBVIOUS
<1>1. Inv
  BY InitInv DEF ListingsInit
<1>2. RecencySound
  BY EmptySeq DEF ListingsInit, Init, RecencySound, IsInjective, ToSet
<1>3. WalkType /\ WalkSound
  BY DEF ListingsInit, NoWalk, WalkType, WalkSound, PageSound, LoadSound, RowsSound, NothingSkipped
<1> QED
  BY <1>1, <1>2, <1>3 DEF WalkInv

\* Seen from the store, a step of the client changes nothing.
LEMMA ListingsStep == [ListingsNext]_listingVars => [Next]_vars
<1> SUFFICES ASSUME [ListingsNext]_listingVars
             PROVE  [Next]_vars
  OBVIOUS
<1>1. ASSUME NEW o \in OrderId, Place(o)
      PROVE  Next
  BY <1>1 DEF Place, Next
<1>2. CASE OtherThanPlace
  BY <1>2 DEF OtherThanPlace, Next
<1>3. CASE StartWalk \/ Read \/ UNCHANGED listingVars
  BY <1>3 DEF StartWalk, Read, CountIndex, ReadRange, ReadIndex, LoadOrder, FilterLoaded,
              SelectIds, SelectRows, CountRows, listingVars
<1> QED
  BY <1>1, <1>2, <1>3 DEF ListingsNext

LEMMA ListingsNextInv == Inv /\ WalkInv /\ [ListingsNext]_listingVars => WalkInv'
<1> SUFFICES ASSUME Inv, WalkInv, [ListingsNext]_listingVars
             PROVE  WalkInv'
  OBVIOUS
<1>1. ASSUME NEW o \in OrderId, Place(o)
      PROVE  WalkInv'
  BY <1>1, PlaceStep, StoreSound DEF WalkInv
<1>2. CASE OtherThanPlace /\ UNCHANGED <<recency, walk>>
  BY <1>2, OtherStep, StoreSound DEF WalkInv
<1>3. CASE StartWalk
  BY <1>3, StartSound
<1>4. CASE Read
  BY <1>4, CountIndexSound, ReadRangeSound, ReadIndexSound, LoadOrderSound, FilterLoadedSound,
     SelectIdsSound, SelectRowsSound, CountRowsSound DEF Read
<1>5. CASE UNCHANGED listingVars
  <2>1. UNCHANGED <<vars, recency, walk>> /\ stock' = stock /\ orders' = orders
    BY <1>5 DEF listingVars, vars
  <2>2. StoreStep
    BY <2>1 DEF StoreStep, WalkInv, RecencySound, Keeps
  <2> QED
    BY <2>2, StoreSound
<1> QED
  BY <1>1, <1>2, <1>3, <1>4, <1>5 DEF ListingsNext

LEMMA ListingsInvariance == ListingsSpec => [](Inv /\ WalkInv)
<1>1. Inv /\ WalkInv /\ [ListingsNext]_listingVars => (Inv /\ WalkInv)'
  BY ListingsStep, NextInv, ListingsNextInv
<1> QED
  BY <1>1, ListingsInitInv, PTL DEF ListingsSpec

\* A client who walks through a listing to its end has seen every order that it
\* held when the walk began, however many orders there are, and on pages of any
\* size, although each page is a request of its own and is read in several
\* commands; not if the listing is that of the unpaid orders, nor if the client
\* stops at the totalPages of a Redis index.
THEOREM NothingIsSkipped == ListingsSpec => []NothingSkipped
<1>1. WalkInv => NothingSkipped
  BY DEF WalkInv, WalkSound
<1> QED
  BY <1>1, ListingsInvariance, PTL

==============================================================================
