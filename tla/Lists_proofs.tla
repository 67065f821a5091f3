----------------------------- MODULE Lists_proofs ------------------------------
(***************************************************************************)
(* What sorting and filtering return, for any finite set of numbers and    *)
(* any sequence, and induction over the naturals without an operator for   *)
(* a parameter.                                                            *)
(***************************************************************************)
EXTENDS Lists, Functions, FiniteSetTheorems, SequenceTheorems, TLAPS

\* The ranks of the elements of a finite set are its numbers from 1 on, and follow their
\* order.
LEMMA Ranks ==
  ASSUME NEW I \in SUBSET Nat, IsFiniteSet(I)
  PROVE  /\ Cardinality(I) \in Nat
         /\ \A i \in I : Rank(I, i) \in 1..Cardinality(I)
         /\ \A i, j \in I : i < j => Rank(I, i) < Rank(I, j)
         /\ \A k \in 1..Cardinality(I) : \E i \in I : Rank(I, i) = k
<1> DEFINE Upto(i) == {j \in I : j =< i}
           n == Cardinality(I)
<1>1. n \in Nat
  BY FS_CardinalityType
<1>2. ASSUME NEW i \in I
      PROVE  IsFiniteSet(Upto(i)) /\ Rank(I, i) \in 1..n /\ i \in Upto(i)
  <2>1. Upto(i) \in SUBSET I /\ i \in Upto(i)
    OBVIOUS
  <2>2. IsFiniteSet(Upto(i)) /\ Cardinality(Upto(i)) =< n
    BY <2>1, FS_Subset
  <2>3. Cardinality(Upto(i)) \in Nat /\ Cardinality(Upto(i)) # 0
    BY <2>1, <2>2, FS_CardinalityType, FS_EmptySet
  <2> QED BY <1>1, <2>1, <2>2, <2>3 DEF Rank
<1>3. ASSUME NEW i \in I, NEW j \in I, i < j PROVE Rank(I, i) < Rank(I, j)
  <2>0. \A m \in I : m \in Nat
    OBVIOUS
  <2>1. Upto(i) \in SUBSET Upto(j) /\ j \notin Upto(i) /\ j \in Upto(j)
    <3>1. \A m \in I : m =< i => m =< j
      BY <1>3, <2>0
    <3>2. ~(j =< i) /\ j =< j
      BY <1>3, <2>0
    <3> QED BY <3>1, <3>2
  <2>2. IsFiniteSet(Upto(j)) /\ Rank(I, i) \in 1..n /\ Rank(I, j) \in 1..n
    BY <1>2
  <2>3. Cardinality(Upto(i)) =< Cardinality(Upto(j))
        /\ Cardinality(Upto(j)) # Cardinality(Upto(i))
    BY <2>1, <2>2, FS_Subset
  <2> QED BY <1>1, <2>2, <2>3 DEF Rank
<1>4. ASSUME NEW k \in 1..n PROVE \E i \in I : Rank(I, i) = k
  <2> DEFINE r == [i \in I |-> Rank(I, i)]
  <2>1. r \in [I -> 1..n]
    BY <1>2
  <2>2. \A i, j \in I : r[i] = r[j] => i = j
    <3> SUFFICES ASSUME NEW i \in I, NEW j \in I, r[i] = r[j], i # j PROVE FALSE
      OBVIOUS
    <3>1. i < j \/ j < i
      OBVIOUS
    <3>2. r[i] \in Nat /\ (r[i] < r[j] \/ r[j] < r[i])
      BY <1>3, <2>1, <3>1
    <3> QED BY <2>1, <3>2
  <2>3. r \in Injection(I, 1..n)
    BY <2>1, <2>2 DEF Injection, IsInjective
  <2>4. IsFiniteSet(1..n) /\ Cardinality(1..n) = n
    BY <1>1, FS_Interval
  <2>5. r \in Surjection(I, 1..n)
    BY <2>3, <2>4, FS_Injection
  <2> QED BY <2>5 DEF Surjection
<1> QED BY <1>1, <1>2, <1>3, <1>4

\* Sorting lists each element once, in its order.
LEMMA AscendingLists ==
  ASSUME NEW I \in SUBSET Nat, IsFiniteSet(I)
  PROVE  /\ Ascending(I) \in Seq(I) /\ Len(Ascending(I)) = Cardinality(I)
         /\ \A k, l \in 1..Cardinality(I) : k < l => Ascending(I)[k] < Ascending(I)[l]
         /\ \A i \in I : \E k \in 1..Cardinality(I) : Ascending(I)[k] = i
<1> DEFINE n == Cardinality(I)
           a == Ascending(I)
<1>1. n \in Nat
  BY Ranks
<1>2. ASSUME NEW k \in 1..n PROVE a[k] \in I /\ Rank(I, a[k]) = k
  <2>1. \E i \in I : Rank(I, i) = k
    BY Ranks
  <2> QED BY <2>1 DEF Ascending
<1>3. a \in Seq(I) /\ Len(a) = n
  BY <1>1, <1>2 DEF Ascending
<1>4. ASSUME NEW k \in 1..n, NEW l \in 1..n, k < l PROVE a[k] < a[l]
  <2>1. a[k] \in Nat /\ a[l] \in Nat /\ Rank(I, a[k]) = k /\ Rank(I, a[l]) = l
    BY <1>2
  <2>2. a[l] < a[k] => Rank(I, a[l]) < Rank(I, a[k])
    BY <1>2, Ranks
  <2> QED BY <1>1, <1>4, <2>1, <2>2
<1>5. ASSUME NEW i \in I PROVE \E k \in 1..n : a[k] = i
  <2>1. Rank(I, i) \in 1..n
    BY Ranks
  <2>2. a[Rank(I, i)] \in I /\ Rank(I, a[Rank(I, i)]) = Rank(I, i)
    BY <1>2, <2>1
  <2>3. \A j \in I : j # i => Rank(I, j) # Rank(I, i)
    <3> SUFFICES ASSUME NEW j \in I, j # i PROVE Rank(I, j) # Rank(I, i)
      OBVIOUS
    <3>1. j < i \/ i < j
      OBVIOUS
    <3>2. Rank(I, j) < Rank(I, i) \/ Rank(I, i) < Rank(I, j)
      BY <3>1, Ranks
    <3>3. Rank(I, i) \in Nat /\ Rank(I, j) \in Nat
      BY <1>1, Ranks
    <3> QED BY <3>2, <3>3
  <2> QED BY <2>1, <2>2, <2>3
<1> QED BY <1>3, <1>4, <1>5

\* The same in descending order.
LEMMA DescendingLists ==
  ASSUME NEW I \in SUBSET Nat, IsFiniteSet(I)
  PROVE  /\ Descending(I) \in Seq(I) /\ Len(Descending(I)) = Cardinality(I)
         /\ Cardinality(I) \in Nat
         /\ \A k, l \in 1..Cardinality(I) : k < l => Descending(I)[k] > Descending(I)[l]
         /\ \A i \in I : \E k \in 1..Cardinality(I) : Descending(I)[k] = i
<1> DEFINE n == Cardinality(I)
           a == Ascending(I)
           d == Descending(I)
<1>1. n \in Nat
  BY Ranks
<1>2. /\ a \in Seq(I) /\ Len(a) = n
      /\ \A k, l \in 1..n : k < l => a[k] < a[l]
      /\ \A i \in I : \E k \in 1..n : a[k] = i
  BY AscendingLists
<1> HIDE DEF a
<1>3. \A k \in 1..n : n + 1 - k \in 1..n
  BY <1>1
<1>4. \A k \in 1..n : d[k] = a[n + 1 - k] /\ d[k] \in I
  BY <1>2, <1>3 DEF Descending, a
<1>5. d \in Seq(I) /\ Len(d) = n
  BY <1>1, <1>4 DEF Descending
<1>6. ASSUME NEW k \in 1..n, NEW l \in 1..n, k < l PROVE d[k] > d[l]
  <2>1. n + 1 - l < n + 1 - k
    BY <1>1, <1>6
  <2>2. a[n + 1 - l] < a[n + 1 - k]
    BY <1>2, <1>3, <2>1
  <2>3. d[k] \in Nat /\ d[l] \in Nat
    BY <1>4
  <2> QED BY <1>4, <2>2, <2>3
<1>7. ASSUME NEW i \in I PROVE \E k \in 1..n : d[k] = i
  <2>1. PICK k \in 1..n : a[k] = i
    BY <1>2
  <2>2. n + 1 - (n + 1 - k) = k
    BY <1>1
  <2> QED BY <1>3, <1>4, <2>1, <2>2
<1> QED BY <1>1, <1>5, <1>6, <1>7

\* A descending list of the greatest elements of a set: the k-th of it has k elements of the
\* set from it upwards.
LEMMA Heights ==
  ASSUME NEW A \in SUBSET Nat, IsFiniteSet(A), NEW W \in SUBSET A,
         \A i \in W : \A j \in A : j >= i => j \in W,
         NEW d \in Seq(W), \A k, l \in 1..Len(d) : k < l => d[k] > d[l],
         \A i \in W : \E k \in 1..Len(d) : d[k] = i
  PROVE  /\ Len(d) = Cardinality(W) /\ IsFiniteSet(W)
         /\ \A k \in 1..Len(d) : Cardinality({j \in A : j >= d[k]}) = k
<1>1. Len(d) \in Nat /\ \A k \in 1..Len(d) : d[k] \in W /\ d[k] \in Nat
  <2>1. Len(d) \in Nat /\ \A k \in 1..Len(d) : d[k] \in W
    OBVIOUS
  <2>2. \A i \in W : i \in Nat
    OBVIOUS
  <2> QED BY <2>1, <2>2
<1>2. \A k, l \in 1..Len(d) : (d[k] = d[l] => k = l) /\ (d[l] >= d[k] <=> l =< k)
  <2> SUFFICES ASSUME NEW k \in 1..Len(d), NEW l \in 1..Len(d)
               PROVE  (d[k] = d[l] => k = l) /\ (d[l] >= d[k] <=> l =< k)
    OBVIOUS
  <2>1. k < l => d[k] > d[l]
    OBVIOUS
  <2>2. l < k => d[l] > d[k]
    OBVIOUS
  <2>3. d[k] \in Nat /\ d[l] \in Nat /\ (k = l => d[k] = d[l])
    BY <1>1
  <2> QED BY <1>1, <2>1, <2>2, <2>3
<1>3. ASSUME NEW n \in 0..Len(d), NEW T, T = {d[l] : l \in 1..n}
      PROVE  IsFiniteSet(T) /\ Cardinality(T) = n
  <2> DEFINE f == [l \in 1..n |-> d[l]]
  <2>1. f \in Injection(1..n, T) /\ f \in Surjection(1..n, T)
    BY <1>1, <1>2, <1>3 DEF Injection, Surjection, IsInjective
  <2>2. IsFiniteSet(1..n) /\ Cardinality(1..n) = n
    BY FS_Interval
  <2> QED BY <2>1, <2>2, FS_Surjection
<1>4. W = {d[l] : l \in 1..Len(d)}
  BY <1>1
<1>5. ASSUME NEW k \in 1..Len(d) PROVE Cardinality({j \in A : j >= d[k]}) = k
  <2>1. {j \in A : j >= d[k]} = {d[l] : l \in 1..k}
    <3>1. ASSUME NEW j \in A, j >= d[k] PROVE j \in {d[l] : l \in 1..k}
      <4>1. j \in W
        BY <1>1, <3>1
      <4>2. PICK l \in 1..Len(d) : d[l] = j
        BY <4>1
      <4>3. l =< k
        BY <1>2, <3>1, <4>2
      <4> QED BY <4>2, <4>3
    <3>2. ASSUME NEW l \in 1..k PROVE d[l] \in A /\ d[l] >= d[k]
      BY <1>1, <1>2
    <3> QED BY <3>1, <3>2
  <2> QED BY <1>1, <1>3, <2>1
<1>6. Len(d) \in 0..Len(d)
  BY <1>1
<1>7. IsFiniteSet(W) /\ Cardinality(W) = Len(d)
  BY <1>3, <1>4, <1>6
<1> QED BY <1>5, <1>7

\* Such a list begins the descending list of the set.
LEMMA Greatest ==
  ASSUME NEW A \in SUBSET Nat, IsFiniteSet(A), NEW W \in SUBSET A,
         \A i \in W : \A j \in A : j >= i => j \in W,
         NEW d \in Seq(W), \A k, l \in 1..Len(d) : k < l => d[k] > d[l],
         \A i \in W : \E k \in 1..Len(d) : d[k] = i
  PROVE  /\ Len(d) =< Cardinality(A) /\ Cardinality(A) \in Nat /\ Len(d) = Cardinality(W)
         /\ d = SubSeq(Descending(A), 1, Len(d))
         /\ (Len(d) = Cardinality(A) => W = A)
<1> DEFINE D == Descending(A)
           n == Cardinality(A)
           Height(i) == Cardinality({j \in A : j >= i})
<1>1. /\ Len(d) = Cardinality(W)
      /\ \A k \in 1..Len(d) : Height(d[k]) = k
  BY Heights
<1>2. n \in Nat /\ Len(d) =< n /\ (Len(d) = n => W = A) /\ Len(d) \in Nat
  <2>1. n \in Nat
    BY FS_CardinalityType
  <2>2. Cardinality(W) =< n /\ (n = Cardinality(W) => A = W)
    BY FS_Subset
  <2> QED BY <1>1, <2>1, <2>2
<1>3. /\ D \in Seq(A) /\ Len(D) = n
      /\ \A k, l \in 1..Len(D) : k < l => D[k] > D[l]
      /\ \A i \in A : \E k \in 1..Len(D) : D[k] = i
  BY DescendingLists
<1>4. \A k \in 1..n : Height(D[k]) = k
  <2> HIDE DEF D
  <2> QED BY <1>3, Heights
<1>5. ASSUME NEW k \in 1..Len(d) PROVE d[k] = D[k]
  <2>1. d[k] \in A /\ k \in 1..n
    <3>1. d[k] \in W
      OBVIOUS
    <3>2. d[k] \in A
      BY <3>1
    <3> HIDE DEF n
    <3>3. k \in 1..n
      BY <1>2
    <3> QED BY <3>2, <3>3
  <2>2. PICK l \in 1..n : D[l] = d[k]
    BY <1>3, <2>1
  <2>3. Height(D[l]) = l /\ Height(d[k]) = k
    BY <1>1, <1>4
  <2>4. l = k
    BY <2>2, <2>3
  <2> QED BY <2>2, <2>4
<1> HIDE DEF D, n
<1>6. /\ Len(SubSeq(D, 1, Len(d))) = Len(d) /\ SubSeq(D, 1, Len(d)) \in Seq(A)
      /\ \A k \in 1..Len(d) : SubSeq(D, 1, Len(d))[k] = D[k]
  <2>1. \A k \in 1..Len(d) : D[k] \in A
    BY <1>2, <1>3
  <2>2. Len(d) \in Int /\ 1 \in Int /\ Len(d) - 1 + 1 = Len(d)
        /\ \A k \in 1..Len(d) : 1 + k - 1 = k
    BY <1>2
  <2>3. /\ SubSeq(D, 1, Len(d)) \in Seq(A)
        /\ Len(SubSeq(D, 1, Len(d))) = IF 1 =< Len(d) THEN Len(d) - 1 + 1 ELSE 0
        /\ \A k \in 1..Len(d) - 1 + 1 : SubSeq(D, 1, Len(d))[k] = D[1 + k - 1]
    BY <2>1, <2>2, SubSeqProperties
  <2> QED BY <2>2, <2>3
<1> DEFINE e == SubSeq(D, 1, Len(d))
<1>7. d = e
  <2>1. d \in Seq(A)
    <3>1. \A k \in 1..Len(d) : d[k] \in W
      OBVIOUS
    <3>2. d = [k \in 1..Len(d) |-> d[k]] /\ \A k \in 1..Len(d) : d[k] \in A
      BY <3>1
    <3> QED BY <1>2, <3>2
  <2>2. \A k \in 1..Len(d) : d[k] = e[k]
    BY <1>5, <1>6
  <2> HIDE DEF e
  <2> QED BY <1>6, <2>1, <2>2 DEF e
<1> QED BY <1>1, <1>2, <1>7 DEF D, n

\* A set of numbers that is not empty has a greatest one.
LEMMA HasGreatest ==
  ASSUME NEW I \in SUBSET Nat, IsFiniteSet(I), I # {}
  PROVE  \E m \in I : \A i \in I : i =< m
<1> DEFINE n == Cardinality(I)
           a == Ascending(I)
<1>1. n \in Nat \ {0}
  BY FS_CardinalityType, FS_EmptySet
<1>2. /\ a \in Seq(I) /\ Len(a) = n
      /\ \A k, l \in 1..n : k < l => a[k] < a[l]
      /\ \A i \in I : \E k \in 1..n : a[k] = i
  BY AscendingLists
<1> HIDE DEF a, n
<1>3. \A k \in 1..n : a[k] \in Nat /\ (k = n \/ k < n)
  <2>1. \A k \in 1..n : a[k] \in I
    BY <1>2
  <2>2. \A k \in 1..n : k = n \/ k < n
    BY <1>1
  <2> QED BY <2>1, <2>2
<1>4. n \in 1..n /\ a[n] \in I
  <2>1. n \in 1..n
    BY <1>1
  <2>2. \A k \in 1..n : a[k] \in I
    BY <1>2
  <2> QED BY <2>1, <2>2
<1>5. ASSUME NEW i \in I PROVE i =< a[n]
  <2>1. PICK k \in 1..n : a[k] = i
    BY <1>2
  <2> QED BY <1>2, <1>3, <1>4, <2>1
<1> QED BY <1>4, <1>5

\* The elements of a list that is taken from in front, or added to.
LEMMA TailListed ==
  ASSUME NEW S, NEW s \in Seq(S), s # <<>>
  PROVE  /\ Head(s) \in Range(s) /\ Head(s) \in S /\ Tail(s) \in Seq(S)
         /\ Range(s) = {Head(s)} \union Range(Tail(s))
         /\ IsInjective(s) => IsInjective(Tail(s)) /\ Head(s) \notin Range(Tail(s))
<1>1. /\ Tail(s) \in Seq(S) /\ Len(Tail(s)) = Len(s) - 1 /\ Head(s) = s[1]
      /\ \A k \in 1..Len(s) - 1 : Tail(s)[k] = s[k + 1]
      /\ Len(s) \in Nat \ {0}
  OBVIOUS
<1> DEFINE t == Tail(s)
<1> HIDE DEF t
<1>2. Head(s) \in Range(s) /\ Head(s) \in S
  BY <1>1 DEF Range
<1>3. Range(s) = {Head(s)} \union Range(t)
  <2>1. \A k \in 1..Len(s) : k = 1 \/ (k - 1 \in 1..Len(s) - 1 /\ k - 1 + 1 = k)
    BY <1>1
  <2>2. \A k \in 1..Len(s) - 1 : k + 1 \in 1..Len(s)
    BY <1>1
  <2>3. DOMAIN t = 1..Len(s) - 1 /\ DOMAIN s = 1..Len(s)
    BY <1>1 DEF t
  <2>4. \A k \in 1..Len(s) - 1 : t[k] = s[k + 1]
    BY <1>1 DEF t
  <2>5. ASSUME NEW k \in 1..Len(s) PROVE s[k] = Head(s) \/ \E j \in 1..Len(s) - 1 : t[j] = s[k]
    <3>1. CASE k = 1
      BY <1>1, <3>1
    <3>2. CASE k # 1
      BY <2>1, <2>4, <3>2
    <3> QED BY <3>1, <3>2
  <2>6. ASSUME NEW j \in 1..Len(s) - 1 PROVE \E k \in 1..Len(s) : s[k] = t[j]
    BY <2>2, <2>4
  <2>8. Range(s) \subseteq {Head(s)} \union Range(t)
    BY <2>3, <2>5 DEF Range
  <2>9. Range(t) \subseteq Range(s)
    BY <2>3, <2>6 DEF Range
  <2>10. Head(s) \in Range(s)
    BY <1>2
  <2> QED BY <2>8, <2>9, <2>10
<1>4. ASSUME IsInjective(s) PROVE IsInjective(t) /\ Head(s) \notin Range(t)
  <2>1. DOMAIN t = 1..Len(s) - 1 /\ DOMAIN s = 1..Len(s)
    BY <1>1 DEF t
  <2>2. \A k \in 1..Len(s) - 1 : t[k] = s[k + 1] /\ k + 1 \in 1..Len(s) /\ k + 1 # 1
    BY <1>1 DEF t
  <2>3. \A k, l \in 1..Len(s) : s[k] = s[l] => k = l
    BY <1>4, <2>1 DEF IsInjective
  <2>4. \A k, l \in 1..Len(s) - 1 : k + 1 = l + 1 => k = l
    BY <1>1
  <2>5. 1 \in 1..Len(s)
    BY <1>1
  <2>6. \A k, l \in 1..Len(s) - 1 : t[k] = t[l] => k = l
    BY <2>2, <2>3, <2>4
  <2>7. \A k \in 1..Len(s) - 1 : t[k] # Head(s)
    BY <1>1, <2>2, <2>3, <2>5
  <2>8. IsInjective(t)
    BY <2>1, <2>6 DEF IsInjective
  <2>9. Head(s) \notin Range(t)
    BY <2>1, <2>7 DEF Range
  <2> QED BY <2>8, <2>9
<1> QED BY <1>1, <1>2, <1>3, <1>4 DEF t

\* The elements of a list that is added to.
LEMMA AppendListed ==
  ASSUME NEW S, NEW s \in Seq(S), NEW x \in S
  PROVE  /\ Append(s, x) \in Seq(S) /\ Range(Append(s, x)) = Range(s) \union {x}
         /\ IsInjective(s) /\ x \notin Range(s) => IsInjective(Append(s, x))
<1> DEFINE t == Append(s, x)
           n == Len(s)
<1>1. /\ t \in Seq(S) /\ Len(t) = n + 1 /\ n \in Nat /\ t[n + 1] = x
      /\ \A k \in 1..n : t[k] = s[k]
      /\ DOMAIN t = 1..n + 1 /\ DOMAIN s = 1..n
  OBVIOUS
<1> HIDE DEF t, n
<1>2. \A k \in 1..n + 1 : k \in 1..n \/ k = n + 1
  BY <1>1
<1>3. \A k \in 1..n : k \in 1..n + 1
  BY <1>1
<1>4. n + 1 \in 1..n + 1
  BY <1>1
<1>5. Range(t) = Range(s) \union {x}
  BY <1>1, <1>2, <1>3, <1>4 DEF Range
<1>6. ASSUME IsInjective(s), x \notin Range(s) PROVE IsInjective(t)
  <2> SUFFICES ASSUME NEW k \in 1..n + 1, NEW l \in 1..n + 1, t[k] = t[l] PROVE k = l
    BY <1>1 DEF IsInjective
  <2>1. \A j \in 1..n : s[j] # x
    BY <1>1, <1>6 DEF Range
  <2> QED BY <1>1, <1>2, <1>6, <2>1 DEF IsInjective
<1> QED BY <1>1, <1>5, <1>6 DEF t

\* The elements of two lists, one behind the other.
LEMMA ConcatListed ==
  ASSUME NEW S, NEW s \in Seq(S), NEW t \in Seq(S)
  PROVE  /\ s \o t \in Seq(S) /\ Range(s \o t) = Range(s) \union Range(t)
         /\ DOMAIN (s \o t) = 1..Len(s) + Len(t)
         /\ \A k \in 1..Len(s) : (s \o t)[k] = s[k]
         /\ \A k \in 1..Len(s) + Len(t) :
              k \in 1..Len(s) \/ (k - Len(s) \in 1..Len(t) /\ (s \o t)[k] = t[k - Len(s)])
<1> DEFINE u == s \o t
<1>1. /\ u \in Seq(S) /\ Len(u) = Len(s) + Len(t)
      /\ \A k \in 1..Len(s) + Len(t) : u[k] = IF k =< Len(s) THEN s[k] ELSE t[k - Len(s)]
  BY ConcatProperties
<1>2. /\ DOMAIN s = 1..Len(s) /\ Len(s) \in Nat /\ DOMAIN t = 1..Len(t) /\ Len(t) \in Nat
      /\ DOMAIN u = 1..Len(s) + Len(t)
  BY <1>1
<1> HIDE DEF u
<1>3. \A k \in 1..Len(s) : k \in 1..Len(s) + Len(t) /\ k =< Len(s)
  BY <1>2
<1>4. \A k \in 1..Len(t) : /\ Len(s) + k \in 1..Len(s) + Len(t) /\ ~(Len(s) + k =< Len(s))
                           /\ Len(s) + k - Len(s) = k
  BY <1>2
<1>5. \A k \in 1..Len(s) + Len(t) :
        k \in 1..Len(s) \/ (~(k =< Len(s)) /\ k - Len(s) \in 1..Len(t))
  BY <1>2
<1>6. Range(u) = Range(s) \union Range(t)
  <2>1. ASSUME NEW k \in DOMAIN u PROVE u[k] \in Range(s) \union Range(t)
    BY <1>1, <1>2, <1>3, <1>5 DEF Range
  <2>2. ASSUME NEW k \in DOMAIN s PROVE s[k] \in Range(u)
    BY <1>1, <1>2, <1>3 DEF Range
  <2>3. ASSUME NEW k \in DOMAIN t PROVE t[k] \in Range(u)
    BY <1>1, <1>2, <1>4 DEF Range
  <2> QED BY <2>1, <2>2, <2>3 DEF Range
<1> QED BY <1>1, <1>2, <1>3, <1>5, <1>6 DEF u

\* Filtering keeps exactly the elements at the indices given, in their order.
LEMMA OnlyKeeps ==
  ASSUME NEW S, NEW s \in Seq(S), NEW I \in SUBSET (DOMAIN s)
  PROVE  /\ IsFiniteSet(I) /\ Cardinality(I) \in Nat
         /\ Only(s, I) \in Seq(S) /\ Len(Only(s, I)) = Cardinality(I)
         /\ \A k \in 1..Cardinality(I) : Ascending(I)[k] \in I /\ Only(s, I)[k] = s[Ascending(I)[k]]
         /\ \A k, l \in 1..Cardinality(I) : k < l => Ascending(I)[k] < Ascending(I)[l]
         /\ \A i \in I : \E k \in 1..Cardinality(I) : Ascending(I)[k] = i
<1>1. IsFiniteSet(DOMAIN s)
  BY FS_Interval
<1>2. IsFiniteSet(I) /\ I \in SUBSET Nat
  BY <1>1, FS_Subset
<1>3. Cardinality(I) \in Nat
  BY <1>2, FS_CardinalityType
<1>4. /\ Ascending(I) \in Seq(I) /\ Len(Ascending(I)) = Cardinality(I)
      /\ \A k, l \in 1..Cardinality(I) : k < l => Ascending(I)[k] < Ascending(I)[l]
      /\ \A i \in I : \E k \in 1..Cardinality(I) : Ascending(I)[k] = i
  BY <1>2, AscendingLists
<1>5. \A k \in 1..Cardinality(I) : Ascending(I)[k] \in I /\ s[Ascending(I)[k]] \in S
  BY <1>4
<1>6. Only(s, I) \in Seq(S) /\ Len(Only(s, I)) = Cardinality(I)
  BY <1>3, <1>5 DEF Only
<1> QED BY <1>2, <1>3, <1>4, <1>5, <1>6 DEF Only

\* Induction, for a set in place of a predicate.
LEMMA NatSetInduction ==
  ASSUME NEW S, 0 \in S, \A n \in Nat : n \in S => n + 1 \in S
  PROVE  Nat \subseteq S
<1> SUFFICES ASSUME NEW n \in Nat, n \notin S PROVE FALSE
  OBVIOUS
<1> DEFINE T == S \intersect 0..n
           f == [k \in T |-> k + 1]
<1>1. IsFiniteSet(T)
  <2>1. IsFiniteSet(0..n)
    BY FS_Interval
  <2> QED BY <2>1, FS_Subset
<1>2. IsFiniteSet(T \ {0}) /\ Cardinality(T \ {0}) = Cardinality(T) - 1
  <2>1. 0 \in T
    OBVIOUS
  <2> QED BY <1>1, <2>1, FS_RemoveElement
<1>3. f \in Injection(T, T \ {0})
  BY DEF Injection, IsInjective
<1>4. Cardinality(T) =< Cardinality(T \ {0})
  BY <1>2, <1>3, FS_Injection
<1>5. Cardinality(T) \in Nat
  BY <1>1, FS_CardinalityType
<1> QED BY <1>2, <1>4, <1>5
===============================================================================
