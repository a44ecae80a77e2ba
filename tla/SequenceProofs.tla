--------------------------- MODULE SequenceProofs ---------------------------
(***************************************************************************)
(* Lemmas about the operators on sequences that the models are built from: *)
(* what they return, keep and bound, for any sequence.                     *)
(***************************************************************************)
EXTENDS Subsequences, Integers, Sequences, SequencesExt, SequenceTheorems,
        FiniteSetTheorems, FunctionTheorems, WellFoundedInduction, TLAPS

-----------------------------------------------------------------------------
(* Induction over the natural numbers, for a set of numbers: the library's *)
(* theorem is for an operator, which no installed prover instantiates.     *)

\* A nonempty set of natural numbers has a least member.
LEMMA LeastNat ==
  ASSUME NEW T, T \subseteq Nat, T # {}
  PROVE  \E n \in T : \A m \in T : n <= m
<1> DEFINE R == {ss \in Nat \X Nat : ss[1] < ss[2]}
<1>1. IsWellFoundedOn(R, Nat)
  BY NatLessThanWellFounded DEF OpToRel
<1>2. \A x, y \in Nat : <<y, x>> \in R <=> y < x
  OBVIOUS
<1> HIDE DEF R
<1>3. PICK n \in T : \A m \in T : ~ (<<m, n>> \in R)
  BY <1>1, WFMin
<1>4. ASSUME NEW m \in T PROVE n <= m
  <2>1. n \in Nat /\ m \in Nat /\ ~(m < n)
    BY <1>2, <1>3
  <2> QED
    BY <2>1
<1> QED
  BY <1>4

\* The Min of the community modules.
LEMMA MinProperties ==
  ASSUME NEW T, T \subseteq Nat, T # {}
  PROVE  Min(T) \in T /\ \A m \in T : Min(T) <= m
BY LeastNat DEF Min

\* A set with 0 that is closed under successor has every natural number.
LEMMA SetInduction ==
  ASSUME NEW T, 0 \in T, \A n \in Nat : n \in T => n + 1 \in T
  PROVE  \A n \in Nat : n \in T
<1> SUFFICES ASSUME Nat \ T # {} PROVE FALSE
  OBVIOUS
<1>1. PICK n \in Nat \ T : \A m \in Nat \ T : n <= m
  BY LeastNat
<1>2. n # 0 /\ n - 1 \in Nat /\ (n - 1) + 1 = n /\ ~(n <= n - 1)
  BY <1>1
<1>3. n - 1 \in T
  BY <1>1, <1>2
<1> QED
  BY <1>2, <1>3

\* The Max of the community modules, of numbers that are at most n.
LEMMA MaxOfInterval ==
  ASSUME NEW n \in Nat, NEW T \in SUBSET (1 .. n), T # {}
  PROVE  Max(T) \in T /\ \A i \in T : Max(T) >= i
<1> DEFINE U == {u \in Nat : \A i \in T : u >= i}
<1>1. \A i \in T : i \in Nat /\ n >= i
  OBVIOUS
<1>2. U \subseteq Nat /\ n \in U
  BY <1>1
<1>3. PICK u \in U : \A w \in U : u <= w
  BY <1>2, LeastNat
<1>4. u \in T
  <2>1. SUFFICES ASSUME u \notin T PROVE FALSE
    OBVIOUS
  <2>2. PICK i \in T : TRUE
    OBVIOUS
  <2>3. u \in Nat /\ u # 0 /\ u - 1 \in Nat /\ ~(u <= u - 1)
    BY <1>1, <1>3, <2>1, <2>2
  <2>4. \A j \in T : u - 1 >= j
    BY <1>1, <1>3, <2>1, <2>3
  <2> QED
    BY <1>3, <2>3, <2>4
<1> QED
  BY <1>3, <1>4 DEF Max

\* The Max of a set with its bound is the bound.
LEMMA MaxIsBound ==
  ASSUME NEW n \in Nat, NEW T \in SUBSET (1 .. n), n \in T
  PROVE  Max(T) = n
<1>1. Max(T) \in T /\ Max(T) >= n
  BY MaxOfInterval
<1>2. Max(T) \in 1 .. n
  BY <1>1
<1> QED
  BY <1>1, <1>2

\* The recursion of the folds of the community modules.
FoldSolves(g, n, base, W) ==
  g = [s \in SUBSET (1 .. n) |->
         IF s = {} THEN base ELSE W[<<g[s \ {Max(s)}], Max(s)>>]]

\* It has a solution, whose values are in V if base is and the operation W stays
\* in V.
LEMMA FoldExists ==
  ASSUME NEW n \in Nat, NEW V, NEW base \in V, NEW W,
         \A x \in V, i \in 1 .. n : W[<<x, i>>] \in V
  PROVE  \E g \in [SUBSET (1 .. n) -> V] : FoldSolves(g, n, base, W)
<1> DEFINE Solves(g, k) ==
             g = [s \in SUBSET (1 .. k) |->
                    IF s = {} THEN base ELSE W[<<g[s \ {Max(s)}], Max(s)>>]]
           Solved(k) == k <= n => \E g \in [SUBSET (1 .. k) -> V] : Solves(g, k)
           T == {k \in Nat : Solved(k)}
<1>1. 0 \in T
  <2> DEFINE g == [s \in SUBSET (1 .. 0) |-> base]
  <2>1. \A s \in SUBSET (1 .. 0) : s = {}
    OBVIOUS
  <2>2. Solves(g, 0) /\ g \in [SUBSET (1 .. 0) -> V]
    BY <2>1
  <2> QED
    BY <2>2
<1>2. ASSUME NEW k \in Nat, k \in T PROVE k + 1 \in T
  <2>1. SUFFICES ASSUME k + 1 <= n
                 PROVE  \E g \in [SUBSET (1 .. (k + 1)) -> V] : Solves(g, k + 1)
    <3>1. Solved(k + 1)
      <4> HIDE DEF Solves
      <4> QED
        BY Zenon, <2>1
    <3>2. k + 1 \in Nat
      OBVIOUS
    <3> HIDE DEF Solved
    <3> QED
      BY <3>1, <3>2
  <2>2. Solved(k)
    <3> HIDE DEF Solved
    <3> QED
      BY <1>2
  <2>3. k <= n /\ k + 1 \in 1 .. n
    BY <2>1
  <2>4. PICK g \in [SUBSET (1 .. k) -> V] : Solves(g, k)
    <3> HIDE DEF Solves
    <3> QED
      BY <2>2, <2>3
  <2> DEFINE h == [s \in SUBSET (1 .. (k + 1)) |->
                     IF k + 1 \in s THEN W[<<g[s \ {k + 1}], k + 1>>] ELSE g[s]]
  <2>5. \A s \in SUBSET (1 .. (k + 1)) :
          /\ s \ {k + 1} \in SUBSET (1 .. k)
          /\ k + 1 \notin s => s \in SUBSET (1 .. k)
          /\ k + 1 \in s => Max(s) = k + 1
    <3>1. k + 1 \in Nat /\ \A i \in 1 .. (k + 1) : i # k + 1 => i \in 1 .. k
      OBVIOUS
    <3>2. \A s \in SUBSET (1 .. (k + 1)) : k + 1 \in s => Max(s) = k + 1
      BY <3>1, MaxIsBound
    <3> QED
      BY <3>1, <3>2
  <2>6. \A s \in SUBSET (1 .. k) :
          g[s] = IF s = {} THEN base ELSE W[<<g[s \ {Max(s)}], Max(s)>>]
    BY <2>4
  <2>7. \A s \in SUBSET (1 .. k) : s \in SUBSET (1 .. (k + 1)) /\ k + 1 \notin s
    OBVIOUS
  <2>8. \A s \in SUBSET (1 .. k) : h[s] = g[s]
    BY <2>7
  <2>9. ASSUME NEW s \in SUBSET (1 .. (k + 1))
        PROVE  /\ h[s] = IF s = {} THEN base ELSE W[<<h[s \ {Max(s)}], Max(s)>>]
               /\ h[s] \in V
    <3>1. CASE k + 1 \in s
      <4>1. h[s] = W[<<g[s \ {k + 1}], k + 1>>]
        BY <3>1
      <4>2. h[s \ {k + 1}] = g[s \ {k + 1}] /\ Max(s) = k + 1 /\ s # {}
        BY <2>5, <2>8, <3>1
      <4>3. g[s \ {k + 1}] \in V
        BY <2>4, <2>5
      <4>4. k + 1 \in 1 .. n
        BY <2>3
      <4> HIDE DEF h
      <4> QED
        BY <4>1, <4>2, <4>3, <4>4
    <3>2. CASE k + 1 \notin s
      <4>1. s \in SUBSET (1 .. k) /\ s \ {Max(s)} \in SUBSET (1 .. k)
        BY <2>5, <3>2
      <4>2. h[s] = g[s] /\ h[s \ {Max(s)}] = g[s \ {Max(s)}] /\ g[s] \in V
        BY <2>4, <2>8, <4>1
      <4> HIDE DEF h
      <4> QED
        BY <2>6, <4>1, <4>2
    <3> QED
      BY <3>1, <3>2
  <2>10. h = [s \in SUBSET (1 .. (k + 1)) |-> h[s]]
    OBVIOUS
  <2> HIDE DEF h
  <2>11. Solves(h, k + 1)
    BY <2>9, <2>10
  <2>12. h \in [SUBSET (1 .. (k + 1)) -> V]
    BY <2>9, <2>10
  <2> HIDE DEF Solves
  <2> QED
    BY <2>11, <2>12
<1> HIDE DEF T
<1>3. n \in T
  BY <1>1, <1>2, SetInduction
<1>4. n <= n
  OBVIOUS
<1> HIDE DEF Solves
<1>5. \E g \in [SUBSET (1 .. n) -> V] : Solves(g, n)
  BY <1>3, <1>4 DEF T
<1> QED
  BY <1>5 DEF Solves, FoldSolves

-----------------------------------------------------------------------------
(* Subsequences.                                                           *)

\* How many members of I are smaller is an order isomorphism from I to the
\* numbers below its cardinality: Nth is its inverse.
LEMMA NthProperties ==
  ASSUME NEW n \in Nat, NEW I \in SUBSET (1 .. n)
  PROVE  /\ Cardinality(I) \in Nat
         /\ \A k \in 1 .. Cardinality(I) : Nth(I, k) \in I
         /\ \A a, b \in 1 .. Cardinality(I) : a < b => Nth(I, a) < Nth(I, b)
         /\ \A i \in I : \E k \in 1 .. Cardinality(I) : Nth(I, k) = i
<1> DEFINE Below(i) == {j \in I : j < i}
           r == [i \in I |-> Cardinality(Below(i))]
           N == Cardinality(I)
<1>1. IsFiniteSet(I) /\ N \in Nat
  <2>1. IsFiniteSet(1 .. n)
    BY FS_Interval
  <2> QED
    BY <2>1, FS_Subset, FS_CardinalityType
<1>0. \A i \in I : i \in Nat
  OBVIOUS
<1>2. \A i \in I : IsFiniteSet(Below(i)) /\ Cardinality(Below(i)) \in Nat
  BY <1>1, FS_Subset, FS_CardinalityType
<1>3. \A i, k \in I : i < k => Cardinality(Below(i)) < Cardinality(Below(k))
  <2>1. SUFFICES ASSUME NEW i \in I, NEW k \in I, i < k
                 PROVE  Cardinality(Below(i)) < Cardinality(Below(k))
    OBVIOUS
  <2>2. Below(i) \in SUBSET Below(k) /\ i \in Below(k) /\ i \notin Below(i)
    <3>1. i \in Nat /\ k \in Nat /\ ~(i < i)
      BY <1>0, <2>1
    <3>2. ASSUME NEW j \in I, j < i PROVE j < k
      <4>1. j \in Nat
        BY <1>0
      <4> QED
        BY <2>1, <3>1, <3>2, <4>1
    <3> QED
      BY <2>1, <3>1, <3>2
  <2>3. /\ Cardinality(Below(i)) <= Cardinality(Below(k))
        /\ Cardinality(Below(i)) # Cardinality(Below(k))
    BY <1>2, <2>2, FS_Subset
  <2> QED
    BY <1>2, <2>3
<1>4. \A i \in I : Cardinality(Below(i)) < N
  <2>1. SUFFICES ASSUME NEW i \in I PROVE Cardinality(Below(i)) < N
    OBVIOUS
  <2>2. Below(i) \in SUBSET I /\ Below(i) # I
    BY <2>1
  <2>3. Cardinality(Below(i)) <= N /\ Cardinality(Below(i)) # N
    BY <1>1, <2>2, FS_Subset
  <2> QED
    BY <1>1, <1>2, <2>3
<1>5. r \in [I -> 0 .. (N - 1)]
  BY <1>1, <1>2, <1>4
<1>6. \A i, k \in I : r[i] = r[k] => i = k
  BY <1>2, <1>3
<1>7. r \in Injection(I, 0 .. (N - 1))
  BY <1>5, <1>6, Fun_IsInj
<1>8. IsFiniteSet(0 .. (N - 1)) /\ Cardinality(0 .. (N - 1)) = N
  <2>1. 0 \in Int /\ N - 1 \in Int /\ (0 > N - 1 <=> N = 0) /\ (N - 1) - 0 + 1 = N
    BY <1>1
  <2> HIDE DEF N, r
  <2>2. /\ IsFiniteSet(0 .. (N - 1))
        /\ Cardinality(0 .. (N - 1)) = IF 0 > N - 1 THEN 0 ELSE (N - 1) - 0 + 1
    BY ONLY <2>1, FS_Interval
  <2> QED
    BY ONLY <2>1, <2>2
<1>9. \A k \in 0 .. (N - 1) : \E i \in I : r[i] = k
  <2>1. r \in Surjection(I, 0 .. (N - 1))
    BY <1>7, <1>8, FS_Injection
  <2> HIDE DEF r, N
  <2> QED
    BY <2>1 DEF Surjection
<1>10. \A k \in 1 .. N : Nth(I, k) \in I /\ r[Nth(I, k)] = k - 1
  <2>1. SUFFICES ASSUME NEW k \in 1 .. N
                 PROVE  Nth(I, k) \in I /\ r[Nth(I, k)] = k - 1
    OBVIOUS
  <2>2. k - 1 \in 0 .. (N - 1)
    BY <1>1
  <2>3. \E i \in I : Cardinality({j \in I : j < i}) = k - 1
    BY <2>2, <1>9
  <2> QED
    BY <2>3 DEF Nth
<1>11. \A a, b \in 1 .. N : a < b => Nth(I, a) < Nth(I, b)
  <2>1. SUFFICES ASSUME NEW a \in 1 .. N, NEW b \in 1 .. N, a < b
                 PROVE  Nth(I, a) < Nth(I, b)
    OBVIOUS
  <2>2. /\ Nth(I, a) \in I /\ r[Nth(I, a)] = a - 1
        /\ Nth(I, b) \in I /\ r[Nth(I, b)] = b - 1
    BY <1>10
  <2>3. ~(r[Nth(I, b)] < r[Nth(I, a)]) /\ r[Nth(I, a)] # r[Nth(I, b)]
    BY <1>1, <2>1, <2>2
  <2>4. ~(Nth(I, b) < Nth(I, a)) /\ Nth(I, a) # Nth(I, b)
    BY <2>2, <2>3, <1>3
  <2>5. Nth(I, a) \in Nat /\ Nth(I, b) \in Nat
    BY <2>2, <1>0
  <2> QED
    BY <2>4, <2>5
<1>12. \A i \in I : \E k \in 1 .. N : Nth(I, k) = i
  <2>1. SUFFICES ASSUME NEW i \in I PROVE \E k \in 1 .. N : Nth(I, k) = i
    OBVIOUS
  <2>2. r[i] \in 0 .. (N - 1)
    BY <1>5
  <2>3. PICK k \in 1 .. N : k - 1 = r[i]
    <3>1. r[i] + 1 \in 1 .. N /\ (r[i] + 1) - 1 = r[i]
      BY <1>1, <2>2
    <3> QED
      BY <3>1
  <2>4. Nth(I, k) \in I /\ r[Nth(I, k)] = r[i]
    BY <1>10, <2>3
  <2> QED
    BY <2>4, <1>6
<1> QED
  BY <1>1, <1>10, <1>11, <1>12

\* SubSeqAt keeps the elements at the positions I, all of them, in their order.
LEMMA SubSeqAtProperties ==
  ASSUME NEW S, NEW s \in Seq(S), NEW I \in SUBSET DOMAIN s
  PROVE  /\ SubSeqAt(s, I) \in Seq(S)
         /\ DOMAIN SubSeqAt(s, I) = 1 .. Cardinality(I)
         /\ Cardinality(I) \in Nat
         /\ \A k \in DOMAIN SubSeqAt(s, I) :
              Nth(I, k) \in I /\ SubSeqAt(s, I)[k] = s[Nth(I, k)]
         /\ \A a, b \in DOMAIN SubSeqAt(s, I) : a < b => Nth(I, a) < Nth(I, b)
         /\ \A i \in I : \E k \in DOMAIN SubSeqAt(s, I) : Nth(I, k) = i
<1> DEFINE r == SubSeqAt(s, I)
           N == Cardinality(I)
<1>1. Len(s) \in Nat /\ DOMAIN s = 1 .. Len(s) /\ I \in SUBSET (1 .. Len(s))
  OBVIOUS
<1>2. /\ N \in Nat
      /\ \A k \in 1 .. N : Nth(I, k) \in I
      /\ \A a, b \in 1 .. N : a < b => Nth(I, a) < Nth(I, b)
      /\ \A i \in I : \E k \in 1 .. N : Nth(I, k) = i
  BY <1>1, NthProperties
<1>3. \A k \in 1 .. N : s[Nth(I, k)] \in S
  BY <1>1, <1>2
<1>4. DOMAIN r = 1 .. N /\ \A k \in 1 .. N : r[k] = s[Nth(I, k)]
  BY DEF SubSeqAt
<1>5. r \in [1 .. N -> S]
  BY <1>3 DEF SubSeqAt
<1>6. r \in Seq(S)
  BY <1>2, <1>5, SeqDef
<1> HIDE DEF r, N
<1> QED
  BY <1>2, <1>4, <1>6 DEF r, N

\* A sequence over a set is one over a larger set.
LEMMA SeqMonotone ==
  ASSUME NEW S, NEW T, S \subseteq T, NEW s \in Seq(S)
  PROVE  s \in Seq(T)
<1>1. Len(s) \in Nat /\ s \in [1 .. Len(s) -> S]
  OBVIOUS
<1>2. s \in [1 .. Len(s) -> T]
  BY <1>1
<1> QED
  BY <1>1, <1>2, SeqDef

-----------------------------------------------------------------------------
(* Ends of a list.                                                         *)

\* back() and pop_back().
LEMMA FrontLastProperties ==
  ASSUME NEW S, NEW s \in Seq(S), s # <<>>
  PROVE  /\ Len(s) \in Nat \ {0} /\ DOMAIN s = 1 .. Len(s)
         /\ Last(s) \in S /\ Last(s) = s[Len(s)]
         /\ Front(s) \in Seq(S) /\ Len(Front(s)) = Len(s) - 1
         /\ DOMAIN Front(s) = 1 .. (Len(s) - 1)
         /\ \A i \in 1 .. (Len(s) - 1) : Front(s)[i] = s[i]
<1>1. Len(s) \in Nat \ {0} /\ DOMAIN s = 1 .. Len(s)
  BY EmptySeq
<1>2. 1 \in Int /\ Len(s) - 1 \in Int /\ \A i \in 1 .. (Len(s) - 1) : s[i] \in S
  BY <1>1
<1>3. /\ Front(s) \in Seq(S)
      /\ Len(Front(s)) = IF 1 <= Len(s) - 1 THEN (Len(s) - 1) - 1 + 1 ELSE 0
      /\ \A i \in 1 .. (Len(s) - 1) - 1 + 1 : Front(s)[i] = s[1 + i - 1]
  BY <1>2, SubSeqProperties DEF Front
<1>0. \A n \in Nat \ {0} :
        /\ (IF 1 <= n - 1 THEN (n - 1) - 1 + 1 ELSE 0) = n - 1
        /\ (n - 1) - 1 + 1 = n - 1
  OBVIOUS
<1>4. Len(Front(s)) = Len(s) - 1
  BY <1>0, <1>1, <1>3
<1>5. \A i \in 1 .. (Len(s) - 1) : Front(s)[i] = s[i]
  <2>1. \A i \in 1 .. (Len(s) - 1) : Front(s)[i] = s[1 + i - 1]
    BY <1>0, <1>1, <1>3
  <2>2. \A i \in 1 .. (Len(s) - 1) : 1 + i - 1 = i
    OBVIOUS
  <2> QED
    BY <2>1, <2>2
<1>6. Last(s) = s[Len(s)] /\ Last(s) \in S
  BY <1>1 DEF Last
<1>7. DOMAIN Front(s) = 1 .. (Len(s) - 1)
  BY <1>3, <1>4, LenProperties
<1> QED
  BY <1>1, <1>3, <1>4, <1>5, <1>6, <1>7

\* push_back().
LEMMA AppendElements ==
  ASSUME NEW S, NEW s \in Seq(S), NEW e \in S
  PROVE  /\ Append(s, e) \in Seq(S) /\ Len(s) \in Nat /\ DOMAIN s = 1 .. Len(s)
         /\ DOMAIN Append(s, e) = 1 .. (Len(s) + 1) /\ Append(s, e)[Len(s) + 1] = e
         /\ \A i \in DOMAIN Append(s, e) :
              i = Len(s) + 1 \/ (i \in DOMAIN s /\ Append(s, e)[i] = s[i])
<1>1. /\ Append(s, e) \in Seq(S) /\ Len(s) \in Nat /\ DOMAIN s = 1 .. Len(s)
      /\ DOMAIN Append(s, e) = 1 .. (Len(s) + 1) /\ Append(s, e)[Len(s) + 1] = e
      /\ \A i \in 1 .. Len(s) : Append(s, e)[i] = s[i]
  OBVIOUS
<1>2. \A n \in Nat : \A i \in 1 .. (n + 1) : i = n + 1 \/ i \in 1 .. n
  OBVIOUS
<1> QED
  BY <1>1, <1>2

\* front() and pop_front().
LEMMA HeadTailElements ==
  ASSUME NEW S, NEW s \in Seq(S), s # <<>>
  PROVE  /\ Len(s) \in Nat \ {0} /\ DOMAIN s = 1 .. Len(s) /\ 1 \in DOMAIN s
         /\ Head(s) \in S /\ Head(s) = s[1]
         /\ Tail(s) \in Seq(S) /\ DOMAIN Tail(s) = 1 .. (Len(s) - 1)
         /\ \A i \in DOMAIN Tail(s) : i + 1 \in DOMAIN s /\ i + 1 # 1 /\ Tail(s)[i] = s[i + 1]
<1>1. Len(s) \in Nat \ {0} /\ DOMAIN s = 1 .. Len(s)
  BY EmptySeq
<1>2. 1 \in 1 .. Len(s) /\ \A i \in 1 .. (Len(s) - 1) : i + 1 \in 1 .. Len(s) /\ i + 1 # 1
  BY <1>1
<1>3. Head(s) = s[1] /\ Head(s) \in S
  BY <1>1, <1>2
<1>4. Tail(s) \in Seq(S) /\ Len(Tail(s)) = Len(s) - 1
      /\ \A i \in 1 .. (Len(s) - 1) : Tail(s)[i] = s[i + 1]
  BY <1>1
<1>5. DOMAIN Tail(s) = 1 .. (Len(s) - 1)
  BY <1>4, LenProperties
<1> QED
  BY <1>1, <1>2, <1>3, <1>4, <1>5

\* The assignment to back().
LEMMA ReplaceLast ==
  ASSUME NEW S, NEW s \in Seq(S), s # <<>>, NEW e \in S
  PROVE  /\ Append(Front(s), e) \in Seq(S) /\ Len(Append(Front(s), e)) = Len(s)
         /\ DOMAIN Append(Front(s), e) = DOMAIN s
         /\ Len(s) \in DOMAIN s /\ Last(s) = s[Len(s)]
         /\ Append(Front(s), e)[Len(s)] = e
         /\ \A i \in DOMAIN s : i # Len(s) => Append(Front(s), e)[i] = s[i]
<1> DEFINE n == Len(s) - 1
           f == Front(s)
<1>1. /\ Len(s) \in Nat \ {0} /\ DOMAIN s = 1 .. Len(s) /\ Last(s) = s[Len(s)]
      /\ f \in Seq(S) /\ Len(f) = n /\ DOMAIN f = 1 .. n
      /\ \A i \in 1 .. n : f[i] = s[i]
  BY FrontLastProperties
<1>2. n \in Nat /\ Len(s) = n + 1 /\ n + 1 \in 1 .. (n + 1)
  BY <1>1
<1> HIDE DEF f, n
<1>3. /\ Append(f, e) \in Seq(S) /\ DOMAIN Append(f, e) = 1 .. (n + 1)
      /\ Len(Append(f, e)) = n + 1
      /\ Append(f, e)[n + 1] = e
      /\ \A i \in 1 .. n : Append(f, e)[i] = f[i]
  BY <1>1, <1>2
<1>4. \A i \in 1 .. (n + 1) : i # n + 1 => i \in 1 .. n
  BY <1>2
<1> QED
  BY <1>1, <1>2, <1>3, <1>4 DEF f

\* insert() before position i, or at the end.
LEMMA InsertAtProperties ==
  ASSUME NEW S, NEW s \in Seq(S), NEW i \in 1 .. (Len(s) + 1), NEW e \in S
  PROVE  /\ InsertAt(s, i, e) \in Seq(S)
         /\ DOMAIN InsertAt(s, i, e) = 1 .. (Len(s) + 1)
         /\ InsertAt(s, i, e)[i] = e
         /\ \A k \in 1 .. (i - 1) : k \in DOMAIN s /\ InsertAt(s, i, e)[k] = s[k]
         /\ \A k \in (i + 1) .. (Len(s) + 1) :
              k - 1 \in DOMAIN s /\ InsertAt(s, i, e)[k] = s[k - 1]
<1> DEFINE a == SubSeq(s, 1, i - 1)
           b == SubSeq(s, i, Len(s))
           n == Len(s)
<1>1. n \in Nat /\ i \in Nat \ {0} /\ DOMAIN s = 1 .. n /\ i <= n + 1
  OBVIOUS
<1>2. /\ a \in Seq(S) /\ Len(a) = i - 1
      /\ \A k \in 1 .. (i - 1) : a[k] = s[k]
  <2>1. 1 \in Int /\ i - 1 \in Int /\ \A k \in 1 .. (i - 1) : s[k] \in S
    BY <1>1
  <2>2. /\ a \in Seq(S) /\ Len(a) = IF 1 <= i - 1 THEN (i - 1) - 1 + 1 ELSE 0
        /\ \A k \in 1 .. (i - 1) - 1 + 1 : a[k] = s[1 + k - 1]
    BY <2>1, SubSeqProperties
  <2> QED
    BY <1>1, <2>2
<1>3. /\ b \in Seq(S) /\ Len(b) = n - i + 1
      /\ \A k \in 1 .. (n - i + 1) : b[k] = s[i + k - 1]
  <2>1. i \in Int /\ n \in Int /\ \A k \in i .. n : s[k] \in S
    BY <1>1
  <2>2. /\ b \in Seq(S) /\ Len(b) = IF i <= n THEN n - i + 1 ELSE 0
        /\ \A k \in 1 .. (n - i + 1) : b[k] = s[i + k - 1]
    BY <2>1, SubSeqProperties
  <2> QED
    BY <1>1, <2>2
<1>4. <<e>> \in Seq(S) /\ Len(<<e>>) = 1 /\ <<e>>[1] = e
  OBVIOUS
<1> HIDE DEF a, b, n
<1>5. /\ a \o <<e>> \in Seq(S) /\ Len(a \o <<e>>) = i
      /\ \A k \in 1 .. i : (a \o <<e>>)[k] = IF k <= i - 1 THEN s[k] ELSE e
  <2>1. /\ a \o <<e>> \in Seq(S) /\ Len(a \o <<e>>) = Len(a) + 1
        /\ \A k \in 1 .. (Len(a) + 1) :
             (a \o <<e>>)[k] = IF k <= Len(a) THEN a[k] ELSE <<e>>[k - Len(a)]
    BY <1>2, <1>4, ConcatProperties
  <2>2. Len(a) + 1 = i
    BY <1>1, <1>2
  <2>3. \A k \in 1 .. i : ~(k <= i - 1) => k - (i - 1) = 1
    BY <1>1
  <2> QED
    BY <1>1, <1>2, <1>4, <2>1, <2>2, <2>3
<1>6. /\ InsertAt(s, i, e) \in Seq(S) /\ Len(InsertAt(s, i, e)) = n + 1
      /\ \A k \in 1 .. (n + 1) :
           InsertAt(s, i, e)[k] = IF k <= i THEN (a \o <<e>>)[k] ELSE b[k - i]
  <2>1. InsertAt(s, i, e) = (a \o <<e>>) \o b
    BY DEF InsertAt, a, b
  <2>2. i + Len(b) = n + 1
    BY <1>1, <1>3
  <2> DEFINE c == a \o <<e>>
  <2>3. c \in Seq(S) /\ Len(c) = i
    BY <1>5
  <2> HIDE DEF c
  <2>4. /\ c \o b \in Seq(S) /\ Len(c \o b) = Len(c) + Len(b)
        /\ \A k \in 1 .. (Len(c) + Len(b)) :
             (c \o b)[k] = IF k <= Len(c) THEN c[k] ELSE b[k - Len(c)]
    BY <1>3, <2>3, ConcatProperties
  <2> QED
    BY <2>1, <2>2, <2>3, <2>4 DEF c
<1>7. ASSUME NEW k \in (i + 1) .. (n + 1)
      PROVE  k - 1 \in 1 .. n /\ InsertAt(s, i, e)[k] = s[k - 1]
  <2>1. k \in 1 .. (n + 1) /\ ~(k <= i) /\ k - i \in 1 .. (n - i + 1)
        /\ i + (k - i) - 1 = k - 1 /\ k - 1 \in 1 .. n
    BY <1>1, <1>7
  <2> QED
    BY <2>1, <1>3, <1>6
<1>8. \A k \in 1 .. i : InsertAt(s, i, e)[k] = IF k <= i - 1 THEN s[k] ELSE e
  <2>1. \A k \in 1 .. i : k \in 1 .. (n + 1) /\ k <= i
    BY <1>1
  <2>2. \A k \in 1 .. i : InsertAt(s, i, e)[k] = (a \o <<e>>)[k]
    BY ONLY <1>6, <2>1
  <2> QED
    BY ONLY <1>5, <2>2
<1>9. DOMAIN InsertAt(s, i, e) = 1 .. (n + 1)
  BY <1>6, LenProperties
<1>10. /\ InsertAt(s, i, e)[i] = e
       /\ \A k \in 1 .. (i - 1) : k \in DOMAIN s /\ InsertAt(s, i, e)[k] = s[k]
  BY <1>1, <1>8 DEF n
<1> QED
  BY <1>1, <1>6, <1>7, <1>9, <1>10 DEF n

-----------------------------------------------------------------------------
(* Lists without repetition and the sets of their elements.                *)

\* The elements of a list are of its type, and only the empty list has none.
LEMMA ToSetProperties ==
  ASSUME NEW S, NEW s \in Seq(S)
  PROVE  /\ ToSet(s) \subseteq S /\ (s = <<>> <=> ToSet(s) = {})
         /\ ToSet(s) = {s[i] : i \in DOMAIN s}
<1>1. ToSet(s) = {s[i] : i \in DOMAIN s}
  BY DEF ToSet
<1>2. ToSet(s) \subseteq S
  BY <1>1
<1>3. s # <<>> => s[1] \in ToSet(s)
  BY <1>1, HeadTailElements
<1>4. s = <<>> => ToSet(s) = {}
  BY <1>1
<1> QED
  BY <1>1, <1>2, <1>3, <1>4

\* push_back of what is not in the list.
LEMMA InjectiveAppend ==
  ASSUME NEW S, NEW s \in Seq(S), IsInjective(s), NEW e \in S
  PROVE  /\ Append(s, e) \in Seq(S) /\ ToSet(Append(s, e)) = ToSet(s) \cup {e}
         /\ e \notin ToSet(s) => IsInjective(Append(s, e))
<1>1. /\ Append(s, e) \in Seq(S) /\ Len(s) \in Nat /\ DOMAIN s = 1 .. Len(s)
      /\ DOMAIN Append(s, e) = 1 .. (Len(s) + 1) /\ Append(s, e)[Len(s) + 1] = e
      /\ \A i \in DOMAIN Append(s, e) :
           i = Len(s) + 1 \/ (i \in DOMAIN s /\ Append(s, e)[i] = s[i])
  BY AppendElements
<1>2. Len(s) + 1 \in DOMAIN Append(s, e)
  BY <1>1
<1>3. \A i \in DOMAIN s : i \in DOMAIN Append(s, e) /\ i # Len(s) + 1
                          /\ Append(s, e)[i] = s[i]
  BY <1>1
<1>4. /\ ToSet(Append(s, e)) = {Append(s, e)[i] : i \in DOMAIN Append(s, e)}
      /\ ToSet(s) = {s[i] : i \in DOMAIN s}
  BY <1>1, ToSetProperties
<1> DEFINE t == Append(s, e)
<1> HIDE DEF t
<1>5. ToSet(t) = ToSet(s) \cup {e}
  <2>1. ToSet(t) \subseteq ToSet(s) \cup {e}
    BY <1>1, <1>4 DEF t
  <2>2. ToSet(s) \cup {e} \subseteq ToSet(t)
    BY <1>1, <1>2, <1>3, <1>4 DEF t
  <2> QED
    BY <2>1, <2>2
<1>6. ASSUME e \notin ToSet(s), NEW i \in DOMAIN t, NEW j \in DOMAIN t, t[i] = t[j]
      PROVE  i = j
  <2>1. \A k \in DOMAIN s : s[k] # e
    BY <1>4, <1>6
  <2>2. \A k \in DOMAIN t : k = Len(s) + 1 \/ (k \in DOMAIN s /\ t[k] = s[k] /\ t[k] # e)
    BY <1>1, <2>1 DEF t
  <2>3. t[Len(s) + 1] = e
    BY <1>1 DEF t
  <2>4. CASE i \in DOMAIN s /\ j \in DOMAIN s /\ t[i] = s[i] /\ t[j] = s[j]
    BY <1>6, <2>4 DEF IsInjective
  <2> QED
    BY <1>6, <2>2, <2>3, <2>4
<1> QED
  BY <1>1, <1>5, <1>6 DEF IsInjective, t

\* pop_front.
LEMMA InjectiveTail ==
  ASSUME NEW S, NEW s \in Seq(S), IsInjective(s), s # <<>>
  PROVE  /\ Tail(s) \in Seq(S) /\ IsInjective(Tail(s))
         /\ Head(s) \in ToSet(s) /\ Head(s) \in S
         /\ ToSet(Tail(s)) = ToSet(s) \ {Head(s)}
<1>1. /\ Len(s) \in Nat /\ DOMAIN s = 1 .. Len(s) /\ 1 \in DOMAIN s
      /\ Head(s) \in S /\ Head(s) = s[1]
      /\ Tail(s) \in Seq(S) /\ DOMAIN Tail(s) = 1 .. (Len(s) - 1)
      /\ \A i \in DOMAIN Tail(s) : i + 1 \in DOMAIN s /\ i + 1 # 1 /\ Tail(s)[i] = s[i + 1]
  BY HeadTailElements
<1>2. /\ ToSet(Tail(s)) = {Tail(s)[i] : i \in DOMAIN Tail(s)}
      /\ ToSet(s) = {s[i] : i \in DOMAIN s}
  BY <1>1, ToSetProperties
<1>3. IsInjective(Tail(s))
  <2> SUFFICES ASSUME NEW i \in DOMAIN Tail(s), NEW j \in DOMAIN Tail(s),
                      Tail(s)[i] = Tail(s)[j]
               PROVE  i = j
    BY DEF IsInjective
  <2>1. i + 1 = j + 1
    BY <1>1 DEF IsInjective
  <2>2. i \in Nat /\ j \in Nat
    BY <1>1
  <2> QED
    BY <2>1, <2>2
<1>4. ToSet(Tail(s)) \subseteq ToSet(s) \ {Head(s)}
  <2> SUFFICES ASSUME NEW i \in DOMAIN Tail(s)
               PROVE  Tail(s)[i] \in ToSet(s) /\ Tail(s)[i] # Head(s)
    BY <1>2
  <2> QED
    BY <1>1, <1>2 DEF IsInjective
<1>5. ToSet(s) \ {Head(s)} \subseteq ToSet(Tail(s))
  <2> SUFFICES ASSUME NEW i \in DOMAIN s, s[i] # Head(s)
               PROVE  s[i] \in ToSet(Tail(s))
    BY <1>2
  <2>1. i - 1 \in DOMAIN Tail(s) /\ (i - 1) + 1 = i
    BY <1>1
  <2>2. Tail(s)[i - 1] = s[i]
    BY <1>1, <2>1
  <2> QED
    BY <1>2, <2>1, <2>2
<1> QED
  BY <1>1, <1>2, <1>3, <1>4, <1>5

\* What is erased leaves the rest without repetition.
LEMMA InjectiveSubSeqAt ==
  ASSUME NEW S, NEW s \in Seq(S), IsInjective(s), NEW I \in SUBSET DOMAIN s
  PROVE  /\ SubSeqAt(s, I) \in Seq(S) /\ IsInjective(SubSeqAt(s, I))
         /\ ToSet(SubSeqAt(s, I)) = {s[i] : i \in I}
<1> DEFINE t == SubSeqAt(s, I)
<1>1. /\ t \in Seq(S) /\ DOMAIN t = 1 .. Cardinality(I) /\ Cardinality(I) \in Nat
      /\ \A k \in DOMAIN t : Nth(I, k) \in I /\ t[k] = s[Nth(I, k)]
      /\ \A a, b \in DOMAIN t : a < b => Nth(I, a) < Nth(I, b)
      /\ \A i \in I : \E k \in DOMAIN t : Nth(I, k) = i
  BY SubSeqAtProperties
<1>2. ToSet(t) = {t[k] : k \in DOMAIN t}
  BY <1>1, ToSetProperties
<1> HIDE DEF t
<1>3. ToSet(t) = {s[i] : i \in I}
  <2>1. ToSet(t) \subseteq {s[i] : i \in I}
    BY <1>1, <1>2
  <2>2. {s[i] : i \in I} \subseteq ToSet(t)
    <3> SUFFICES ASSUME NEW i \in I PROVE s[i] \in ToSet(t)
      OBVIOUS
    <3>1. PICK k \in DOMAIN t : Nth(I, k) = i
      BY <1>1
    <3> QED
      BY <1>1, <1>2, <3>1
  <2> QED
    BY <2>1, <2>2
<1>4. IsInjective(t)
  <2> SUFFICES ASSUME NEW a \in DOMAIN t, NEW b \in DOMAIN t, t[a] = t[b]
               PROVE  a = b
    BY DEF IsInjective
  <2>1. Nth(I, a) = Nth(I, b)
    <3>1. Nth(I, a) \in DOMAIN s /\ Nth(I, b) \in DOMAIN s
      BY <1>1
    <3> QED
      BY <1>1, <3>1 DEF IsInjective
  <2>2. Nth(I, a) \in Nat /\ a \in Nat /\ b \in Nat
    BY <1>1
  <2>3. ~(a < b) /\ ~(b < a)
    BY <1>1, <2>1, <2>2
  <2> QED
    BY <2>2, <2>3
<1> QED
  BY <1>1, <1>3, <1>4 DEF t

\* Two lists that share nothing, one after the other.
LEMMA InjectiveConcat ==
  ASSUME NEW S, NEW s \in Seq(S), NEW t \in Seq(S), IsInjective(s), IsInjective(t),
         ToSet(s) \cap ToSet(t) = {}
  PROVE  /\ s \o t \in Seq(S) /\ IsInjective(s \o t)
         /\ ToSet(s \o t) = ToSet(s) \cup ToSet(t)
<1> DEFINE c == s \o t
           n == Len(s)
           k == Len(t)
<1>1. /\ n \in Nat /\ k \in Nat /\ DOMAIN s = 1 .. n /\ DOMAIN t = 1 .. k
  OBVIOUS
<1>2. /\ c \in Seq(S) /\ Len(c) = n + k
      /\ \A i \in 1 .. (n + k) : c[i] = IF i <= n THEN s[i] ELSE t[i - n]
  BY ConcatProperties
<1>3. DOMAIN c = 1 .. (n + k)
  BY <1>2, LenProperties
<1>4. /\ ToSet(s) = {s[i] : i \in DOMAIN s} /\ ToSet(t) = {t[i] : i \in DOMAIN t}
      /\ ToSet(c) = {c[i] : i \in DOMAIN c}
  BY <1>2, ToSetProperties
<1> HIDE DEF c, n, k
<1>5. \A i \in DOMAIN c : \/ i \in DOMAIN s /\ c[i] = s[i]
                          \/ i - n \in DOMAIN t /\ c[i] = t[i - n] /\ i \notin DOMAIN s
  BY <1>1, <1>2, <1>3
<1>6. /\ \A i \in DOMAIN s : i \in DOMAIN c /\ c[i] = s[i]
      /\ \A i \in DOMAIN t : i + n \in DOMAIN c /\ c[i + n] = t[i]
  BY <1>1, <1>2, <1>3
<1>7. \A i \in DOMAIN s, j \in DOMAIN t : s[i] # t[j]
  BY <1>4
<1>8. IsInjective(c)
  <2> SUFFICES ASSUME NEW i \in DOMAIN c, NEW j \in DOMAIN c, c[i] = c[j]
               PROVE  i = j
    BY DEF IsInjective
  <2>1. i \in Nat /\ j \in Nat
    BY <1>1, <1>3
  <2>2. CASE i \in DOMAIN s /\ c[i] = s[i]
    BY <1>5, <1>7, <2>2 DEF IsInjective
  <2>3. CASE i - n \in DOMAIN t /\ c[i] = t[i - n]
    <3>1. j - n \in DOMAIN t /\ c[j] = t[j - n]
      BY <1>5, <1>7, <2>3
    <3>2. i - n = j - n
      BY <2>3, <3>1 DEF IsInjective
    <3> QED
      BY <1>1, <2>1, <3>2
  <2> QED
    BY <1>5, <2>2, <2>3
<1>9. ToSet(c) = ToSet(s) \cup ToSet(t)
  <2>1. ToSet(c) \subseteq ToSet(s) \cup ToSet(t)
    BY <1>4, <1>5
  <2>2. ToSet(s) \cup ToSet(t) \subseteq ToSet(c)
    BY <1>4, <1>6
  <2> QED
    BY <2>1, <2>2
<1> QED
  BY <1>2, <1>8, <1>9 DEF c

\* A segment of a list; from m to m - 1 it is empty.
LEMMA InjectiveSubSeq ==
  ASSUME NEW S, NEW s \in Seq(S), IsInjective(s),
         NEW m \in Nat \ {0}, NEW n \in 0 .. Len(s), m <= n + 1
  PROVE  /\ SubSeq(s, m, n) \in Seq(S) /\ IsInjective(SubSeq(s, m, n))
         /\ DOMAIN SubSeq(s, m, n) = 1 .. (n - m + 1)
         /\ \A i \in DOMAIN SubSeq(s, m, n) :
              m + i - 1 \in DOMAIN s /\ SubSeq(s, m, n)[i] = s[m + i - 1]
         /\ ToSet(SubSeq(s, m, n)) = {s[k] : k \in m .. n}
<1> DEFINE t == SubSeq(s, m, n)
<1>1. DOMAIN s = 1 .. Len(s) /\ Len(s) \in Nat
  OBVIOUS
<1>2. \A i \in m .. n : i \in DOMAIN s /\ s[i] \in S
  BY <1>1
<1>3. /\ t \in Seq(S) /\ Len(t) = n - m + 1 /\ \A i \in 1 .. (n - m + 1) : t[i] = s[m + i - 1]
  <2>1. /\ t \in Seq(S) /\ Len(t) = IF m <= n THEN n - m + 1 ELSE 0
        /\ \A i \in 1 .. n - m + 1 : t[i] = s[m + i - 1]
    BY <1>2, SubSeqProperties
  <2> QED
    BY <2>1
<1> HIDE DEF t
<1>4. DOMAIN t = 1 .. (n - m + 1)
  BY <1>3
<1>5. \A i \in DOMAIN t : m + i - 1 \in m .. n /\ m + i - 1 \in DOMAIN s /\ t[i] = s[m + i - 1]
  BY <1>1, <1>3, <1>4
<1>6. IsInjective(t)
  <2> SUFFICES ASSUME NEW i \in DOMAIN t, NEW j \in DOMAIN t, t[i] = t[j]
               PROVE  i = j
    BY DEF IsInjective
  <2>1. m + i - 1 = m + j - 1
    BY <1>5 DEF IsInjective
  <2> QED
    BY <1>4, <2>1
<1>7. ToSet(t) = {s[k] : k \in m .. n}
  <2>1. ToSet(t) = {t[i] : i \in DOMAIN t}
    BY <1>3, ToSetProperties
  <2>2. ToSet(t) \subseteq {s[k] : k \in m .. n}
    BY <1>5, <2>1
  <2>3. ASSUME NEW k \in m .. n PROVE s[k] \in ToSet(t)
    <3>1. k - m + 1 \in DOMAIN t /\ m + (k - m + 1) - 1 = k
      BY <1>4
    <3>2. t[k - m + 1] = s[k]
      BY <1>5, <3>1
    <3> QED
      BY <2>1, <3>1, <3>2
  <2> QED
    BY <2>2, <2>3
<1> QED
  BY <1>3, <1>4, <1>5, <1>6, <1>7 DEF t
=============================================================================
