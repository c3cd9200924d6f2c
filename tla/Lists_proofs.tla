----------------------------- MODULE Lists_proofs -----------------------------
(***************************************************************************)
(* What the operators on lists keep: proofs without induction, from the    *)
(* places that the items of a list have.                                   *)
(***************************************************************************)
EXTENDS Lists, FiniteSetTheorems, WellFoundedInduction, TLAPS

-----------------------------------------------------------------------------
(* Numbers *)

\* A set of naturals has a least element.
LEMMA LeastNatural ==
  ASSUME NEW S, S \subseteq Nat, S # {}
  PROVE  \E x \in S : \A y \in S : x <= y
<1>1. PICK x \in S : \A y \in S : ~(<<y, x>> \in OpToRel(<, Nat))
  BY NatLessThanWellFounded, WFMin
<1> SUFFICES ASSUME NEW y \in S, ~(x <= y) PROVE FALSE
  OBVIOUS
<1>2. y \in Nat /\ x \in Nat /\ y < x
  OBVIOUS
<1>3. <<y, x>> \in Nat \X Nat /\ <<y, x>>[1] = y /\ <<y, x>>[2] = x
  BY <1>2
<1>4. <<y, x>> \in OpToRel(<, Nat)
  BY <1>2, <1>3 DEF OpToRel
<1> QED
  BY <1>1, <1>4

\* A bounded one has a greatest.
LEMMA GreatestNatural ==
  ASSUME NEW n \in Nat, NEW S \in SUBSET (0 .. n), S # {}
  PROVE  \E x \in S : \A y \in S : y <= x
<1> DEFINE T == {n - x : x \in S}
<1>0. \A x \in S : x \in Nat /\ n - x \in Nat
  OBVIOUS
<1>1. T \subseteq Nat /\ T # {}
  BY <1>0
<1>2. PICK z \in T : \A y \in T : z <= y
  BY <1>1, LeastNatural
<1>3. PICK x \in S : z = n - x
  OBVIOUS
<1>4. \A y \in S : n - x <= n - y
  BY <1>2, <1>3
<1>5. ASSUME NEW y \in S PROVE y <= x
  <2>1. n - x <= n - y /\ x \in Nat /\ y \in Nat
    BY <1>0, <1>4
  <2> QED
    BY <2>1
<1> QED
  BY <1>5

-----------------------------------------------------------------------------
(* The places that stay *)

\* The rank of a number in a finite set A of positions
Rank(A, i) == Cardinality({j \in A : j <= i})

\* The rank of an element of a finite set of positions is between 1 and the size of the
\* set.
LEMMA RankType ==
  ASSUME NEW A, IsFiniteSet(A), NEW i \in A, A \subseteq Nat
  PROVE  Rank(A, i) \in 1 .. Cardinality(A)
<1> DEFINE B == {j \in A : j <= i}
<1>1. B \subseteq A /\ i \in B
  OBVIOUS
<1>2. IsFiniteSet(B) /\ Cardinality(B) <= Cardinality(A)
  BY <1>1, FS_Subset
<1>3. Cardinality(B) \in Nat /\ Cardinality(A) \in Nat
  BY <1>2, FS_CardinalityType
<1>4. Cardinality(B) # 0
  BY <1>1, <1>2, FS_EmptySet
<1> QED
  BY <1>2, <1>3, <1>4 DEF Rank

\* A later position has a greater rank.
LEMMA RankGrows ==
  ASSUME NEW A, IsFiniteSet(A), A \subseteq Nat, NEW i \in A, NEW k \in A, i < k
  PROVE  Rank(A, i) < Rank(A, k)
<1> DEFINE B == {j \in A : j <= i}
           C == {j \in A : j <= k}
<1>1. C \subseteq A /\ k \in C /\ k \notin B
  OBVIOUS
<1>2. B \subseteq C
  <2> SUFFICES ASSUME NEW j \in A, j <= i PROVE j <= k
    OBVIOUS
  <2>1. j \in Nat /\ i \in Nat /\ k \in Nat
    OBVIOUS
  <2> QED
    BY <2>1
<1>3. IsFiniteSet(C)
  BY <1>1, FS_Subset
<1> HIDE DEF B, C
<1>4. IsFiniteSet(B) /\ Cardinality(B) <= Cardinality(C) /\ Cardinality(B) # Cardinality(C)
  BY <1>1, <1>2, <1>3, FS_Subset
<1>5. Cardinality(B) \in Nat /\ Cardinality(C) \in Nat
  BY <1>3, <1>4, FS_CardinalityType
<1>6. Cardinality(B) < Cardinality(C)
  BY <1>4, <1>5
<1> QED
  BY <1>6 DEF Rank, B, C

\* For each k there is a place that is the k-th.
LEMMA RankReached ==
  ASSUME NEW A, IsFiniteSet(A), A \subseteq Nat, NEW k \in 1 .. Cardinality(A)
  PROVE  \E i \in A : Rank(A, i) = k
<1> DEFINE f == [i \in A |-> Rank(A, i)]
           N == 1 .. Cardinality(A)
<1>1. Cardinality(A) \in Nat
  BY FS_CardinalityType
<1>2. IsFiniteSet(N) /\ Cardinality(N) = Cardinality(A)
  BY <1>1, FS_Interval
<1>3. f \in [A -> N]
  BY RankType
<1>4. \A i, j \in A : f[i] = f[j] => i = j
  <2> SUFFICES ASSUME NEW i \in A, NEW j \in A, f[i] = f[j], i # j PROVE FALSE
    OBVIOUS
  <2>1. i < j \/ j < i
    OBVIOUS
  <2>2. Rank(A, i) \in Nat /\ Rank(A, j) \in Nat
    <3>1. Rank(A, i) \in 1 .. Cardinality(A) /\ Rank(A, j) \in 1 .. Cardinality(A)
      BY RankType
    <3> QED
      BY <1>1, <3>1
  <2>3. Rank(A, i) = Rank(A, j)
    OBVIOUS
  <2>4. Rank(A, i) < Rank(A, j) \/ Rank(A, j) < Rank(A, i)
    BY <2>1, RankGrows
  <2> QED
    BY <2>2, <2>3, <2>4
<1> HIDE DEF f, N
<1>5. f \in Injection(A, N)
  BY <1>3, <1>4 DEF Injection, IsInjective
<1>6. f \in Surjection(A, N)
  BY <1>2, <1>5, FS_Injection
<1>7. PICK i \in A : f[i] = k
  BY <1>6 DEF Surjection, N
<1> QED
  BY <1>7 DEF f

-----------------------------------------------------------------------------
(* Without *)

\* The places that stay, and their number
Stay(seq, S) == {i \in DOMAIN seq : seq[i] \notin S}
Staying(seq, S) == Cardinality(Stay(seq, S))

\* The list without S has the items of the places that stay, each once.
LEMMA WithoutPlaces ==
  ASSUME NEW T, NEW seq \in Seq(T), NEW S
  PROVE  /\ Staying(seq, S) \in 0 .. Len(seq)
         /\ Without(seq, S) = [k \in 1 .. Staying(seq, S) |-> Without(seq, S)[k]]
         /\ \E h \in [1 .. Staying(seq, S) -> Stay(seq, S)] :
              /\ \A k \in 1 .. Staying(seq, S) : Without(seq, S)[k] = seq[h[k]]
              /\ \A j, k \in 1 .. Staying(seq, S) : h[j] = h[k] => j = k
              /\ \A i \in Stay(seq, S) : \E k \in 1 .. Staying(seq, S) : h[k] = i
<1> DEFINE stay == Stay(seq, S)
           n == Cardinality(stay)
           at(k) == CHOOSE i \in stay : Cardinality({j \in stay : j <= i}) = k
           h == [k \in 1 .. n |-> at(k)]
<1>1. DOMAIN seq = 1 .. Len(seq) /\ Len(seq) \in Nat
  OBVIOUS
<1>2. IsFiniteSet(1 .. Len(seq)) /\ Cardinality(1 .. Len(seq)) = Len(seq)
  BY <1>1, FS_Interval
<1>3. stay \subseteq 1 .. Len(seq) /\ stay \subseteq Nat
  BY <1>1 DEF Stay
<1>4. IsFiniteSet(stay) /\ n <= Len(seq) /\ n \in Nat
  BY <1>2, <1>3, FS_Subset, FS_CardinalityType
<1>5. Without(seq, S) = [k \in 1 .. n |-> seq[at(k)]]
  BY DEF Without, Stay
<1> HIDE DEF stay
<1>6. \A k \in 1 .. n : at(k) \in stay /\ Rank(stay, at(k)) = k
  <2> SUFFICES ASSUME NEW k \in 1 .. n PROVE at(k) \in stay /\ Rank(stay, at(k)) = k
    OBVIOUS
  <2>1. \E i \in stay : Cardinality({j \in stay : j <= i}) = k
    BY <1>3, <1>4, RankReached DEF Rank
  <2> QED
    BY <2>1 DEF Rank
<1> HIDE DEF at
<1>7. h \in [1 .. n -> stay] /\ \A k \in 1 .. n : h[k] = at(k)
  BY <1>6
<1>8. \A j, k \in 1 .. n : h[j] = h[k] => j = k
  BY <1>6, <1>7
<1>9. \A i \in stay : \E k \in 1 .. n : h[k] = i
  <2> SUFFICES ASSUME NEW i \in stay PROVE \E k \in 1 .. n : h[k] = i
    OBVIOUS
  <2> DEFINE k == Rank(stay, i)
  <2>1. k \in 1 .. n
    BY <1>3, <1>4, RankType
  <2>2. at(k) \in stay /\ Rank(stay, at(k)) = k
    BY <1>6, <2>1
  <2>3. at(k) = i
    <3> SUFFICES ASSUME at(k) # i PROVE FALSE
      OBVIOUS
    <3>1. at(k) \in Nat /\ i \in Nat
      BY <1>3, <2>2
    <3>2. at(k) < i \/ i < at(k)
      BY <3>1
    <3>3. Rank(stay, at(k)) < Rank(stay, i) \/ Rank(stay, i) < Rank(stay, at(k))
      BY <1>3, <1>4, <2>2, <3>2, RankGrows
    <3> QED
      BY <2>1, <2>2, <3>3
  <2> QED
    BY <1>7, <2>1, <2>3
<1>10. \A k \in 1 .. n : Without(seq, S)[k] = seq[h[k]]
  BY <1>5, <1>7
<1>11. Without(seq, S) = [k \in 1 .. n |-> Without(seq, S)[k]] /\ n \in 0 .. Len(seq)
  BY <1>1, <1>4, <1>5
<1> HIDE DEF h
<1>12. \E g \in [1 .. n -> stay] :
         /\ \A k \in 1 .. n : Without(seq, S)[k] = seq[g[k]]
         /\ \A j, k \in 1 .. n : g[j] = g[k] => j = k
         /\ \A i \in stay : \E k \in 1 .. n : g[k] = i
  BY <1>7, <1>8, <1>9, <1>10
<1> QED
  BY <1>11, <1>12 DEF stay, Staying

\* list_remove leaves the other items, each as often as before, and no more.
LEMMA WithoutFacts ==
  ASSUME NEW T, NEW seq \in Seq(T), NEW S
  PROVE  /\ Without(seq, S) \in Seq(T)
         /\ Elements(Without(seq, S)) = Elements(seq) \ S
         /\ Len(Without(seq, S)) <= Len(seq)
         /\ Distinct(seq) => Distinct(Without(seq, S))
<1> DEFINE stay == Stay(seq, S)
           n == Staying(seq, S)
           W == Without(seq, S)
<1>3. W = [k \in 1 .. n |-> W[k]]
  BY WithoutPlaces
<1>1. DOMAIN W = 1 .. n /\ n \in 0 .. Len(seq) /\ Len(seq) \in Nat
  <2>1. n \in 0 .. Len(seq)
    BY WithoutPlaces
  <2> HIDE DEF n, W
  <2> QED
    BY <1>3, <2>1
<1>2. PICK h \in [1 .. n -> stay] : /\ \A k \in 1 .. n : W[k] = seq[h[k]]
                                    /\ \A j, k \in 1 .. n : h[j] = h[k] => j = k
                                    /\ \A i \in stay : \E k \in 1 .. n : h[k] = i
  BY WithoutPlaces
<1>4. \A i \in stay : i \in DOMAIN seq /\ seq[i] \in T /\ seq[i] \notin S
  BY DEF Stay
<1>5. \A i \in DOMAIN seq : seq[i] \notin S => i \in stay
  BY DEF Stay
<1> HIDE DEF stay, n, W
<1>6. n \in Nat
  BY <1>1
<1>7. \A k \in 1 .. n : h[k] \in stay /\ W[k] \in T
  BY <1>2, <1>4
<1>8. W \in Seq(T)
  <2>1. [k \in 1 .. n |-> W[k]] \in Seq(T)
    BY <1>6, <1>7
  <2> QED
    BY <1>3, <2>1
<1>9. Len(W) = n
  BY <1>1, <1>6, <1>8
<1>10. Elements(W) = Elements(seq) \ S
  <2>1. ASSUME NEW x \in Elements(W) PROVE x \in Elements(seq) \ S
    <3>1. PICK k \in 1 .. n : x = W[k]
      BY <1>1 DEF Elements
    <3>2. h[k] \in stay /\ x = seq[h[k]]
      BY <1>2, <1>7, <3>1
    <3> QED
      BY <1>4, <3>2 DEF Elements
  <2>2. ASSUME NEW x \in Elements(seq) \ S PROVE x \in Elements(W)
    <3>1. PICK i \in DOMAIN seq : x = seq[i]
      BY DEF Elements
    <3>2. i \in stay
      BY <1>5, <3>1
    <3>3. PICK k \in 1 .. n : h[k] = i
      BY <1>2, <3>2
    <3>4. x = W[k]
      BY <1>2, <3>1, <3>3
    <3> QED
      BY <1>1, <3>4 DEF Elements
  <2> QED
    BY <2>1, <2>2
<1>11. ASSUME Distinct(seq) PROVE Distinct(W)
  <2> SUFFICES ASSUME NEW j \in 1 .. n, NEW k \in 1 .. n, W[j] = W[k] PROVE j = k
    BY <1>1 DEF Distinct
  <2>1. h[j] \in DOMAIN seq /\ h[k] \in DOMAIN seq /\ seq[h[j]] = seq[h[k]]
    BY <1>2, <1>4, <1>7
  <2>2. h[j] = h[k]
    BY <1>11, <2>1 DEF Distinct
  <2> QED
    BY <1>2, <2>2
<1>12. Len(W) <= Len(seq)
  BY <1>1, <1>9
<1> QED
  BY <1>8, <1>10, <1>11, <1>12 DEF W

-----------------------------------------------------------------------------
(* Distinct items *)

\* A list of distinct items is as long as it has items.
LEMMA DistinctLen ==
  ASSUME NEW T, NEW seq \in Seq(T), Distinct(seq)
  PROVE  IsFiniteSet(Elements(seq)) /\ Cardinality(Elements(seq)) = Len(seq)
<1> DEFINE N == 1 .. Len(seq)
           E == Elements(seq)
<1>1. Len(seq) \in Nat /\ DOMAIN seq = N
  OBVIOUS
<1>2. IsFiniteSet(N) /\ Cardinality(N) = Len(seq)
  BY <1>1, FS_Interval
<1>3. seq = [i \in N |-> seq[i]]
  BY <1>1
<1>4. E = {seq[i] : i \in N}
  BY <1>1 DEF Elements
<1>5. \A i, j \in N : seq[i] = seq[j] => i = j
  BY <1>1 DEF Distinct
<1> DEFINE f == [i \in N |-> seq[i]]
<1> HIDE DEF N, E
<1>6. f \in [N -> E] /\ \A e \in E : \E i \in N : f[i] = e
  BY <1>4
<1>7. f \in Surjection(N, E)
  BY <1>6 DEF Surjection
<1>8. \A i, j \in N : f[i] = f[j] => i = j
  BY <1>5
<1> HIDE DEF f
<1>9. f \in Injection(N, E)
  BY <1>6, <1>8 DEF Injection, IsInjective
<1>10. IsFiniteSet(E) /\ Cardinality(E) = Cardinality(N)
  BY <1>2, <1>7, <1>9, FS_Surjection
<1> QED
  BY <1>2, <1>10 DEF E

\* An item put in front of a list that does not have it
LEMMA ConsFacts ==
  ASSUME NEW T, NEW seq \in Seq(T), NEW x \in T
  PROVE  /\ <<x>> \o seq \in Seq(T)
         /\ Len(<<x>> \o seq) = Len(seq) + 1
         /\ Elements(<<x>> \o seq) = Elements(seq) \cup {x}
         /\ Distinct(seq) /\ x \notin Elements(seq) => Distinct(<<x>> \o seq)
<1> DEFINE C == <<x>> \o seq
<1>1. /\ C \in Seq(T) /\ Len(C) = Len(seq) + 1 /\ Len(seq) \in Nat
      /\ C[1] = x /\ \A i \in 1 .. Len(seq) : C[i + 1] = seq[i]
  OBVIOUS
<1>2. DOMAIN C = 1 .. Len(seq) + 1 /\ DOMAIN seq = 1 .. Len(seq)
  BY <1>1
<1> HIDE DEF C
<1>3. \A i \in 2 .. Len(seq) + 1 : i - 1 \in DOMAIN seq /\ C[i] = seq[i - 1]
  <2> SUFFICES ASSUME NEW i \in 2 .. Len(seq) + 1
               PROVE  i - 1 \in DOMAIN seq /\ C[i] = seq[i - 1]
    OBVIOUS
  <2>1. i - 1 \in 1 .. Len(seq) /\ (i - 1) + 1 = i
    BY <1>1
  <2> QED
    BY <1>1, <1>2, <2>1
<1>4. Elements(C) = Elements(seq) \cup {x}
  <2>1. ASSUME NEW y \in Elements(C) PROVE y \in Elements(seq) \cup {x}
    <3>1. PICK i \in DOMAIN C : y = C[i]
      BY DEF Elements
    <3>2. CASE i = 1
      BY <1>1, <3>1, <3>2
    <3>3. CASE i # 1
      <4>1. i \in 2 .. Len(seq) + 1
        BY <1>1, <1>2, <3>3
      <4> QED
        BY <1>3, <3>1, <4>1 DEF Elements
    <3> QED
      BY <3>2, <3>3
  <2>2. x \in Elements(C)
    <3>1. 1 \in DOMAIN C
      BY <1>1, <1>2
    <3> QED
      BY <1>1, <3>1 DEF Elements
  <2>3. ASSUME NEW y \in Elements(seq) PROVE y \in Elements(C)
    <3>1. PICK i \in 1 .. Len(seq) : y = seq[i]
      BY <1>2 DEF Elements
    <3>2. i + 1 \in DOMAIN C /\ y = C[i + 1]
      BY <1>1, <1>2, <3>1
    <3> QED
      BY <3>2 DEF Elements
  <2> QED
    BY <2>1, <2>2, <2>3
<1>5. ASSUME Distinct(seq), x \notin Elements(seq) PROVE Distinct(C)
  <2>1. \A i \in 2 .. Len(seq) + 1 : C[i] # x
    BY <1>3, <1>5 DEF Elements
  <2>2. ASSUME NEW i \in 2 .. Len(seq) + 1, NEW j \in 2 .. Len(seq) + 1, C[i] = C[j]
        PROVE  i = j
    <3>1. i - 1 = j - 1
      BY <1>3, <1>5, <2>2 DEF Distinct
    <3> QED
      BY <1>1, <3>1
  <2> SUFFICES ASSUME NEW i \in 1 .. Len(seq) + 1, NEW j \in 1 .. Len(seq) + 1, C[i] = C[j]
               PROVE  i = j
    BY <1>2 DEF Distinct
  <2>3. /\ i = 1 \/ i \in 2 .. Len(seq) + 1
        /\ j = 1 \/ j \in 2 .. Len(seq) + 1
    BY <1>1
  <2> QED
    BY <1>1, <2>1, <2>2, <2>3
<1> QED
  BY <1>1, <1>4, <1>5 DEF C

\* list_push adds an item without repeating it.
LEMMA PushFacts ==
  ASSUME NEW T, NEW seq \in Seq(T), NEW x \in T
  PROVE  /\ Push(seq, x) \in Seq(T)
         /\ Len(Push(seq, x)) <= Len(seq) + 1
         /\ Elements(Push(seq, x)) = Elements(seq) \cup {x}
         /\ Distinct(seq) => Distinct(Push(seq, x))
<1> DEFINE W == Without(seq, {x})
<1>1. /\ W \in Seq(T) /\ Elements(W) = Elements(seq) \ {x} /\ Len(W) <= Len(seq)
      /\ Distinct(seq) => Distinct(W)
  BY WithoutFacts
<1> HIDE DEF W
<1>2. /\ <<x>> \o W \in Seq(T) /\ Len(<<x>> \o W) = Len(W) + 1
      /\ Elements(<<x>> \o W) = Elements(W) \cup {x}
      /\ Distinct(W) /\ x \notin Elements(W) => Distinct(<<x>> \o W)
  BY <1>1, ConsFacts
<1>3. Push(seq, x) = <<x>> \o W
  BY DEF Push, W
<1>4. Len(W) \in Nat /\ Len(seq) \in Nat
  BY <1>1
<1>5. Elements(W) \cup {x} = Elements(seq) \cup {x} /\ x \notin Elements(W)
  <2>1. x \in Elements(seq) \/ x \notin Elements(seq)
    OBVIOUS
  <2> QED
    BY <1>1, <2>1
<1>6. Len(W) + 1 <= Len(seq) + 1
  BY <1>1, <1>4
<1> QED
  BY <1>1, <1>2, <1>3, <1>5, <1>6

\* list_add of an item that the list does not have
LEMMA AppendFacts ==
  ASSUME NEW T, NEW seq \in Seq(T), NEW x \in T
  PROVE  /\ Append(seq, x) \in Seq(T)
         /\ Elements(Append(seq, x)) = Elements(seq) \cup {x}
         /\ Distinct(seq) /\ x \notin Elements(seq) => Distinct(Append(seq, x))
<1> DEFINE A == Append(seq, x)
           n == Len(seq)
<1>1. /\ A \in Seq(T) /\ Len(A) = n + 1 /\ n \in Nat
      /\ A[n + 1] = x /\ \A i \in 1 .. n : A[i] = seq[i]
  OBVIOUS
<1>2. DOMAIN A = 1 .. n + 1 /\ DOMAIN seq = 1 .. n
  BY <1>1
<1> HIDE DEF A, n
<1>3. \A i \in 1 .. n + 1 : i = n + 1 \/ i \in 1 .. n
  BY <1>1
<1>4. 1 .. n \subseteq 1 .. n + 1 /\ n + 1 \in 1 .. n + 1
  BY <1>1
<1>5. Elements(A) = Elements(seq) \cup {x}
  BY <1>1, <1>2, <1>3, <1>4 DEF Elements
<1>6. ASSUME Distinct(seq), x \notin Elements(seq) PROVE Distinct(A)
  <2> SUFFICES ASSUME NEW i \in 1 .. n + 1, NEW j \in 1 .. n + 1, A[i] = A[j] PROVE i = j
    BY <1>2 DEF Distinct
  <2>1. \A k \in 1 .. n : A[k] # x
    BY <1>1, <1>2, <1>6 DEF Elements
  <2> QED
    BY <1>1, <1>2, <1>3, <1>6, <2>1 DEF Distinct
<1> QED
  BY <1>1, <1>5, <1>6 DEF A
=============================================================================
