---------------------------- MODULE SortingProofs ----------------------------
(***************************************************************************)
(* What the proofs about several components need of orders: a set of       *)
(* numbers has a least one; and sorting, for any finite set and any strict *)
(* total order, gives each element once, at the place after all that come  *)
(* before it.                                                              *)
(***************************************************************************)
EXTENDS Sorting, FiniteSetTheorems, WellFoundedInduction, TLAPS

\* A non-empty set of natural numbers has a least element.
LEMMA LeastNatural ==
  ASSUME NEW T \in SUBSET Nat, T # {}
  PROVE  \E x \in T : \A y \in T : x <= y
<1> DEFINE Less == {pair \in Nat \X Nat : pair[1] < pair[2]}
<1>1. IsWellFoundedOn(Less, Nat)
  BY NatLessThanWellFounded DEF OpToRel
<1>2. PICK x \in T : \A y \in T : <<y, x>> \notin Less
  BY <1>1, WFMin
<1>3. ASSUME NEW a \in Nat, NEW b \in Nat, a < b  PROVE <<a, b>> \in Less
  <2> DEFINE pair == <<a, b>>
  <2>1. pair \in Nat \X Nat /\ pair[1] = a /\ pair[2] = b  OBVIOUS
  <2>2. pair[1] < pair[2]  BY <2>1, <1>3
  <2> HIDE DEF pair
  <2>3. pair \in Less  BY <2>1, <2>2
  <2> QED BY <2>3 DEF pair
<1> HIDE DEF Less
<1>4. ASSUME NEW y \in T  PROVE x <= y
  <2>1. x \in Nat /\ y \in Nat  OBVIOUS
  <2>2. y < x => <<y, x>> \in Less  BY <2>1, <1>3
  <2>3. <<y, x>> \notin Less  BY <1>2
  <2> QED BY <2>1, <2>2, <2>3
<1> QED BY <1>4

\* Whoever comes before y has fewer ahead than y has.
LEMMA FewerAhead ==
  ASSUME NEW ahead, IsOrder(ahead), NEW y \in DOMAIN ahead, NEW x \in ahead[y]
  PROVE  /\ Cardinality(ahead[x]) \in Nat /\ Cardinality(ahead[y]) \in Nat
         /\ Cardinality(ahead[x]) < Cardinality(ahead[y])
<1>1. /\ x \in DOMAIN ahead /\ x \notin ahead[x]
      /\ ahead[x] \subseteq ahead[y] /\ ahead[y] \subseteq DOMAIN ahead
  BY DEF IsOrder
<1>2. IsFiniteSet(ahead[y]) /\ IsFiniteSet(ahead[x])
  <2>1. IsFiniteSet(ahead[y])
    BY <1>1, FS_Subset DEF IsOrder
  <2>2. QED
    BY <1>1, <2>1, FS_Subset
<1>3. Cardinality(ahead[x]) \in Nat /\ Cardinality(ahead[y]) \in Nat
  BY <1>2, FS_CardinalityType
<1>4. /\ Cardinality(ahead[x]) <= Cardinality(ahead[y])
      /\ Cardinality(ahead[x]) # Cardinality(ahead[y])
  <2>1. ahead[x] # ahead[y]
    BY <1>1
  <2>2. QED
    BY <1>1, <1>2, <2>1, FS_Subset
<1>5. QED
  BY <1>3, <1>4

\* Every place is taken by exactly one element.
LEMMA PlacesAreTaken ==
  ASSUME NEW ahead, IsOrder(ahead)
  PROVE  /\ Cardinality(DOMAIN ahead) \in Nat
         /\ \A x \in DOMAIN ahead : Cardinality(ahead[x]) + 1 \in 1..Cardinality(DOMAIN ahead)
         /\ \A x, y \in DOMAIN ahead : Cardinality(ahead[x]) = Cardinality(ahead[y]) => x = y
         /\ \A i \in 1..Cardinality(DOMAIN ahead) :
              \E x \in DOMAIN ahead : Cardinality(ahead[x]) = i - 1
<1> DEFINE S == DOMAIN ahead
           n == Cardinality(S)
           f == [x \in S |-> Cardinality(ahead[x]) + 1]
<1>1. IsFiniteSet(S) /\ n \in Nat
  BY FS_CardinalityType DEF IsOrder
<1>2. \A x \in S : Cardinality(ahead[x]) \in Nat /\ Cardinality(ahead[x]) < n
  <2> SUFFICES ASSUME NEW x \in S PROVE Cardinality(ahead[x]) \in Nat /\ Cardinality(ahead[x]) < n
    OBVIOUS
  <2>1. ahead[x] \subseteq S /\ ahead[x] # S
    BY DEF IsOrder
  <2>2. Cardinality(ahead[x]) <= n /\ n # Cardinality(ahead[x]) /\ IsFiniteSet(ahead[x])
    BY <1>1, <2>1, FS_Subset
  <2>3. Cardinality(ahead[x]) \in Nat
    BY <2>2, FS_CardinalityType
  <2>4. QED
    BY <1>1, <2>2, <2>3
<1>3. \A x \in S : Cardinality(ahead[x]) + 1 \in 1..n
  BY <1>1, <1>2
<1>4. \A x, y \in S : Cardinality(ahead[x]) = Cardinality(ahead[y]) => x = y
  <2> SUFFICES ASSUME NEW x \in S, NEW y \in S, Cardinality(ahead[x]) = Cardinality(ahead[y])
               PROVE  x = y
    OBVIOUS
  <2>1. x \in ahead[y] => FALSE
    BY <1>2, FewerAhead
  <2>2. y \in ahead[x] => FALSE
    BY <1>2, FewerAhead
  <2>3. QED
    BY <2>1, <2>2 DEF IsOrder
<1>5. f \in Injection(S, 1..n)
  BY <1>2, <1>3, <1>4 DEF Injection, IsInjective
<1>6. IsFiniteSet(1..n) /\ Cardinality(1..n) = n
  BY <1>1, FS_Interval
<1>7. f \in Surjection(S, 1..n)
  BY <1>5, <1>6, FS_Injection
<1>8. \A i \in 1..n : \E x \in S : Cardinality(ahead[x]) = i - 1
  <2> SUFFICES ASSUME NEW i \in 1..n PROVE \E x \in S : Cardinality(ahead[x]) = i - 1
    OBVIOUS
  <2>1. PICK x \in S : f[x] = i
    BY <1>7 DEF Surjection
  <2>2. QED
    BY <1>2, <2>1
<1>9. QED
  BY <1>1, <1>3, <1>4, <1>8

\* Sorting keeps every element once, at the place after those before it: ORDER BY
\* and sort_by do what their name says for every order and every set of rows.
LEMMA InOrderSorts ==
  ASSUME NEW ahead, IsOrder(ahead)
  PROVE  /\ InOrder(ahead) \in [1..Cardinality(DOMAIN ahead) -> DOMAIN ahead]
         /\ \A x \in DOMAIN ahead : /\ Cardinality(ahead[x]) + 1 \in 1..Cardinality(DOMAIN ahead)
                                    /\ InOrder(ahead)[Cardinality(ahead[x]) + 1] = x
         /\ \A i \in 1..Cardinality(DOMAIN ahead) : Cardinality(ahead[InOrder(ahead)[i]]) = i - 1
         /\ \A i, j \in 1..Cardinality(DOMAIN ahead) :
              i < j <=> InOrder(ahead)[i] \in ahead[InOrder(ahead)[j]]
<1> DEFINE S == DOMAIN ahead
           n == Cardinality(S)
           s == InOrder(ahead)
<1>1. /\ n \in Nat
      /\ \A x \in S : Cardinality(ahead[x]) + 1 \in 1..n
      /\ \A x, y \in S : Cardinality(ahead[x]) = Cardinality(ahead[y]) => x = y
      /\ \A i \in 1..n : \E x \in S : Cardinality(ahead[x]) = i - 1
  BY PlacesAreTaken
<1>2. \A x \in S : ahead[x] \subseteq S /\ Cardinality(ahead[x]) \in Nat
  <2>1. \A x \in S : ahead[x] \subseteq S /\ IsFiniteSet(ahead[x])
    BY FS_Subset DEF IsOrder
  <2>2. QED
    BY <2>1, FS_CardinalityType
<1>3. \A i \in 1..n : s[i] \in S /\ Cardinality(ahead[s[i]]) = i - 1
  BY <1>1 DEF InOrder
<1>4. s \in [1..n -> S]
  BY <1>3 DEF InOrder
<1>5. \A x \in S : s[Cardinality(ahead[x]) + 1] = x
  BY <1>1, <1>2, <1>3
<1>6. ASSUME NEW i \in 1..n, NEW j \in 1..n
      PROVE  i < j <=> s[i] \in ahead[s[j]]
  <2>1. s[i] \in ahead[s[j]] => i < j
    <3>1. s[i] \in ahead[s[j]] => Cardinality(ahead[s[i]]) < Cardinality(ahead[s[j]])
      BY <1>3, FewerAhead
    <3>2. QED
      BY <1>1, <1>3, <3>1
  <2>2. i < j => s[i] \in ahead[s[j]]
    <3>1. s[j] \in ahead[s[i]] => j < i
      <4>1. s[j] \in ahead[s[i]] => Cardinality(ahead[s[j]]) < Cardinality(ahead[s[i]])
        BY <1>3, FewerAhead
      <4>2. QED
        BY <1>1, <1>3, <4>1
    <3>2. s[i] = s[j] => i = j
      BY <1>1, <1>3
    <3>3. QED
      BY <1>1, <1>3, <3>1, <3>2 DEF IsOrder
  <2>3. QED
    BY <2>1, <2>2
<1>7. QED
  BY <1>1, <1>3, <1>4, <1>5, <1>6
=============================================================================
