--------------------------- MODULE AclPolicyProofs ----------------------------
(***************************************************************************)
(* The access control for every configuration, every user list and every   *)
(* destination: what is compiled, merged, searched and narrowed decides    *)
(* like the configuration told as it is written.  From the bottom up: the  *)
(* sorts, the folds and the binary search; port lists; the order of rules  *)
(* and groups; a policy's first match; a decision; a connection.           *)
(***************************************************************************)
EXTENDS AclPolicy, FiniteSetTheorems, WellFoundedInduction, TLAPS

-----------------------------------------------------------------------------
(***************************************************************************)
(* Induction up to a number, and the least and the last of a set.          *)
(***************************************************************************)
\* What holds of 0, and of the next number with each, holds of all up to N.
LEMMA UpTo ==
    ASSUME NEW N \in Nat, NEW F, 0 \in F, \A n \in 0..N : n \in F /\ n < N => n + 1 \in F
    PROVE  \A n \in 0..N : n \in F
<1> DEFINE Less   == OpToRel(<, Nat)
           Missed == (0..N) \ F
<1>1. ASSUME Missed # {} PROVE FALSE
  <2>1. Missed \subseteq Nat
    OBVIOUS
  <2>2. PICK n \in Missed : \A m \in Missed : ~(<<m, n>> \in Less)
    <3> HIDE DEF Less, Missed
    <3> QED BY <1>1, <2>1, NatLessThanWellFounded, WFMin DEF Less
  <2>3. n \in 1..N /\ n - 1 \notin F
    <3>1. n \in 0..N /\ n \notin F /\ n # 0
      BY <2>2
    <3>2. n - 1 \in 0..N /\ n - 1 < N /\ n = (n - 1) + 1
      BY <3>1
    <3> QED BY <3>1, <3>2
  <2>4. n - 1 \in Missed /\ <<n - 1, n>> \in Less
    BY <2>3 DEF OpToRel
  <2> QED BY <2>2, <2>4
<1> QED BY <1>1

\* A strict order in which any two elements of S are comparable.
Orders(R, S) ==
    /\ \A x, y \in S : x # y => <<x, y>> \in R \/ <<y, x>> \in R
    /\ \A x, y, z \in S : <<x, y>> \in R /\ <<y, z>> \in R => <<x, z>> \in R

\* A finite ordered set has an element after all the others.
LEMMA HasLast ==
    ASSUME NEW S, IsFiniteSet(S), S # {}, NEW R, Orders(R, S)
    PROVE  \E m \in S : \A y \in S \ {m} : <<y, m>> \in R
<1> DEFINE HasOne(T) == \E m \in T : \A y \in T \ {m} : <<y, m>> \in R
           F == {n \in Nat : \A T \in SUBSET S : Cardinality(T) = n /\ T # {} => HasOne(T)}
<1>1. 0 \in F
  <2>1. ASSUME NEW T \in SUBSET S, Cardinality(T) = 0 PROVE T = {}
    BY <2>1, FS_Subset, FS_EmptySet
  <2> QED BY <2>1
<1>2. ASSUME NEW n \in Nat, n \in F PROVE n + 1 \in F
  <2>1. ASSUME NEW T \in SUBSET S, Cardinality(T) = n + 1 PROVE HasOne(T)
    <3>1. PICK x \in T : TRUE
      BY <2>1, FS_EmptySet
    <3>2. IsFiniteSet(T) /\ Cardinality(T \ {x}) = n
      <4>1. IsFiniteSet(T)
        BY FS_Subset
      <4>2. Cardinality(T \ {x}) = Cardinality(T) - 1
        BY <3>1, <4>1, FS_RemoveElement
      <4> QED BY <2>1, <4>1, <4>2
    <3>3. CASE T \ {x} = {}
      BY <3>1, <3>3
    <3>4. CASE T \ {x} # {}
      <4>1. PICK m \in T \ {x} : \A y \in (T \ {x}) \ {m} : <<y, m>> \in R
        BY <1>2, <3>2, <3>4
      <4>2. CASE <<m, x>> \in R
        BY <4>1, <4>2 DEF Orders
      <4>3. CASE <<x, m>> \in R
        BY <4>1, <4>3
      <4> QED BY <4>1, <4>2, <4>3 DEF Orders
    <3> QED BY <3>3, <3>4
  <2> QED BY <2>1
<1>3. Cardinality(S) \in Nat
  BY FS_CardinalityType
<1> HIDE DEF F
<1>4. Cardinality(S) \in F
  <2>1. \A n \in 0..Cardinality(S) : n \in F
    BY <1>1, <1>2, <1>3, UpTo
  <2> QED BY <1>3, <2>1
<1> QED BY <1>4 DEF F

\* The largest number of a finite set.
LEMMA MaxIs ==
    ASSUME NEW S \in SUBSET Int, IsFiniteSet(S), S # {}
    PROVE  Max(S) \in S /\ \A y \in S : Max(S) >= y
<1> DEFINE R == {p \in Int \X Int : p[1] < p[2]}
<1>1. Orders(R, S)
  BY DEF Orders
<1>2. PICK m \in S : \A y \in S \ {m} : <<y, m>> \in R
  <2> HIDE DEF R
  <2> QED BY <1>1, HasLast
<1>3. ASSUME NEW y \in S PROVE m >= y
  <2>1. CASE y = m
    BY <2>1
  <2>2. CASE y # m
    <3>1. <<y, m>> \in R
      BY <1>2, <2>2
    <3> QED BY <3>1
  <2> QED BY <2>1, <2>2
<1> QED BY <1>3 DEF Max

\* The smallest number of a finite set.
LEMMA MinIs ==
    ASSUME NEW S \in SUBSET Int, IsFiniteSet(S), S # {}
    PROVE  Min(S) \in S /\ \A y \in S : Min(S) <= y
<1> DEFINE R == {p \in Int \X Int : p[1] > p[2]}
<1>1. Orders(R, S)
  BY DEF Orders
<1>2. PICK m \in S : \A y \in S \ {m} : <<y, m>> \in R
  <2> HIDE DEF R
  <2> QED BY <1>1, HasLast
<1>3. ASSUME NEW y \in S PROVE m <= y
  <2>1. CASE y = m
    BY <2>1
  <2>2. CASE y # m
    <3>1. <<y, m>> \in R
      BY <1>2, <2>2
    <3> QED BY <3>1
  <2> QED BY <2>1, <2>2
<1> QED BY <1>3 DEF Min

-----------------------------------------------------------------------------
(***************************************************************************)
(* A finite set can be arranged, and an arrangement has every element once.*)
(***************************************************************************)
InOrder(s, n, R) == \A i, j \in 1..n : i < j => <<s[i], s[j]>> \in R

\* A finite ordered set can be written down in order.
LEMMA CanBeArranged ==
    ASSUME NEW S, IsFiniteSet(S), NEW R, Orders(R, S)
    PROVE  \E s \in [1..Cardinality(S) -> S] : InOrder(s, Cardinality(S), R)
<1> DEFINE F == {n \in Nat : \A T \in SUBSET S : Cardinality(T) = n => \E s \in [1..n -> T] : InOrder(s, n, R)}
<1>1. 0 \in F
  <2>1. ASSUME NEW T \in SUBSET S PROVE [i \in 1..0 |-> i] \in [1..0 -> T] /\ InOrder([i \in 1..0 |-> i], 0, R)
    BY DEF InOrder
  <2> QED BY <2>1
<1>2. ASSUME NEW n \in Nat, n \in F PROVE n + 1 \in F
  <2>1. ASSUME NEW T \in SUBSET S, Cardinality(T) = n + 1
        PROVE  \E s \in [1..(n + 1) -> T] : InOrder(s, n + 1, R)
    <3>1. IsFiniteSet(T) /\ T # {} /\ Orders(R, T)
      BY <2>1, FS_Subset, FS_EmptySet DEF Orders
    <3>2. PICK m \in T : \A y \in T \ {m} : <<y, m>> \in R
      BY <3>1, HasLast
    <3>3. Cardinality(T \ {m}) = n /\ T \ {m} \in SUBSET S
      <4>1. Cardinality(T \ {m}) = Cardinality(T) - 1
        BY <3>1, FS_RemoveElement
      <4>2. T \ {m} \in SUBSET S
        OBVIOUS
      <4> HIDE DEF F
      <4> QED BY <2>1, <4>1, <4>2
    <3>4. PICK s \in [1..n -> T \ {m}] : InOrder(s, n, R)
      BY <1>2, <3>3
    <3> DEFINE t == [i \in 1..(n + 1) |-> IF i = n + 1 THEN m ELSE s[i]]
    <3>5. t \in [1..(n + 1) -> T]
      OBVIOUS
    <3>6. ASSUME NEW i \in 1..(n + 1), NEW j \in 1..(n + 1), i < j PROVE <<t[i], t[j]>> \in R
      <4>1. i \in 1..n /\ t[i] = s[i] /\ s[i] \in T \ {m}
        BY <3>6
      <4>2. CASE j = n + 1
        BY <3>2, <4>1, <4>2
      <4>3. CASE j # n + 1
        BY <3>4, <3>6, <4>1, <4>3 DEF InOrder
      <4> QED BY <4>2, <4>3
    <3> HIDE DEF t
    <3> QED BY <3>5, <3>6 DEF InOrder
  <2> QED BY <2>1
<1>3. Cardinality(S) \in Nat
  BY FS_CardinalityType
<1> HIDE DEF F
<1>4. Cardinality(S) \in F
  <2>1. \A n \in 0..Cardinality(S) : n \in F
    BY <1>1, <1>2, <1>3, UpTo
  <2> QED BY <1>3, <2>1
<1> QED BY <1>4 DEF F

\* What is as long as the set and never repeats itself leaves nothing out.
LEMMA ArrangedHasAll ==
    ASSUME NEW S, IsFiniteSet(S), NEW R, \A x \in S : <<x, x>> \notin R,
           NEW s \in [1..Cardinality(S) -> S], InOrder(s, Cardinality(S), R)
    PROVE  \A x \in S : \E i \in 1..Cardinality(S) : s[i] = x
<1>1. Cardinality(S) \in Nat
  BY FS_CardinalityType
<1>2. \A i, j \in 1..Cardinality(S) : s[i] = s[j] => i = j
  <2>1. ASSUME NEW i \in 1..Cardinality(S), NEW j \in 1..Cardinality(S), s[i] = s[j], i < j PROVE FALSE
    <3>1. <<s[i], s[j]>> \in R /\ s[i] \in S
      BY <2>1 DEF InOrder
    <3> QED BY <2>1, <3>1
  <2> QED BY <1>1, <2>1
<1>3. s \in Injection(1..Cardinality(S), S)
  BY <1>2 DEF Injection, IsInjective
<1>4. IsFiniteSet(1..Cardinality(S)) /\ Cardinality(1..Cardinality(S)) = Cardinality(S)
  BY <1>1, FS_Interval
<1>5. s \in Surjection(1..Cardinality(S), S)
  BY <1>3, <1>4, FS_Injection
<1> QED BY <1>5 DEF Surjection

-----------------------------------------------------------------------------
(***************************************************************************)
(* A fold from the left: that there is a function that computes it.        *)
(***************************************************************************)
\* The first N numbers are finite, and N.
LEMMA Numbers ==
    ASSUME NEW N \in Nat
    PROVE  IsFiniteSet(1..N) /\ Cardinality(1..N) = N
<1>1. 1 \in Int /\ N \in Int
  OBVIOUS
<1>2. IsFiniteSet(1..N) /\ Cardinality(1..N) = IF 1 > N THEN 0 ELSE N - 1 + 1
  BY <1>1, FS_Interval
<1> QED BY <1>2

\* Some of the first N numbers are at most N.
LEMMA SizeOfSome ==
    ASSUME NEW N \in Nat, NEW s \in SUBSET (1..N)
    PROVE  Cardinality(s) <= N
<1>1. IsFiniteSet(1..N) /\ Cardinality(1..N) = N
  BY Numbers
<1>2. Cardinality(s) <= Cardinality(1..N)
  BY <1>1, FS_Subset
<1> QED BY <1>1, <1>2

\* The largest of some of the first N numbers.
LEMMA MaxOfSome ==
    ASSUME NEW N \in Nat, NEW s \in SUBSET (1..N), s # {}
    PROVE  Max(s) \in s /\ Max(s) \in 1..N /\ IsFiniteSet(s)
<1>1. IsFiniteSet(s)
  BY Numbers, FS_Subset
<1>2. s \in SUBSET Int
  OBVIOUS
<1> QED BY <1>1, <1>2, MaxIs

Folds(h, N, base, step) == \A s \in SUBSET (1..N) :
    h[s] = IF s = {} THEN base ELSE step[<<h[s \ {Max(s)}], Max(s)>>]

\* The recursive function by which the folds of the library are defined exists.
LEMMA FoldDefined ==
    ASSUME NEW N \in Nat, NEW X, NEW base \in X, NEW step \in [X \X (1..N) -> X]
    PROVE  \E h \in [SUBSET (1..N) -> X] : Folds(h, N, base, step)
<1> DEFINE Right(h, s) == h[s] = IF s = {} THEN base ELSE step[<<h[s \ {Max(s)}], Max(s)>>]
           F == {n \in Nat : \E h \in [SUBSET (1..N) -> X] : \A s \in SUBSET (1..N) : Cardinality(s) <= n => Right(h, s)}
<1>1. ASSUME NEW s \in SUBSET (1..N), s # {}
      PROVE  /\ Max(s) \in s /\ Max(s) \in 1..N /\ Cardinality(s) \in Nat /\ Cardinality(s) # 0
             /\ s \ {Max(s)} \in SUBSET (1..N) /\ Cardinality(s \ {Max(s)}) = Cardinality(s) - 1
  <2>1. Max(s) \in s /\ Max(s) \in 1..N /\ IsFiniteSet(s)
    BY <1>1, MaxOfSome
  <2>2. Cardinality(s) \in Nat /\ Cardinality(s) # 0
    BY <1>1, <2>1, FS_CardinalityType, FS_EmptySet
  <2>3. Cardinality(s \ {Max(s)}) = Cardinality(s) - 1
    BY <2>1, FS_RemoveElement
  <2> QED BY <2>1, <2>2, <2>3
<1>2. 0 \in F
  <2>1. Cardinality({}) = 0
    BY FS_EmptySet
  <2> DEFINE h == [s \in SUBSET (1..N) |-> base]
  <2>2. h \in [SUBSET (1..N) -> X]
    OBVIOUS
  <2>3. ASSUME NEW s \in SUBSET (1..N), Cardinality(s) <= 0 PROVE Right(h, s)
    <3>1. s = {}
      <4>1. CASE s # {}
        <5>1. Cardinality(s) \in Nat /\ Cardinality(s) # 0
          BY <1>1, <4>1
        <5> HIDE DEF h, Right, F
        <5> QED BY <2>3, <5>1
      <4> QED BY <4>1
    <3> QED BY <3>1
  <2> HIDE DEF h, Right
  <2> QED BY <2>2, <2>3
<1>3. ASSUME NEW n \in Nat, n \in F PROVE n + 1 \in F
  <2>1. PICK g \in [SUBSET (1..N) -> X] : \A s \in SUBSET (1..N) : Cardinality(s) <= n => Right(g, s)
    BY <1>3
  <2> DEFINE h == [s \in SUBSET (1..N) |->
                      IF Cardinality(s) = n + 1 /\ s # {} THEN step[<<g[s \ {Max(s)}], Max(s)>>] ELSE g[s]]
  <2>2. ASSUME NEW s \in SUBSET (1..N), s # {} PROVE step[<<g[s \ {Max(s)}], Max(s)>>] \in X
    BY <1>1, <2>2
  <2>3. h \in [SUBSET (1..N) -> X]
    BY <2>2
  <2>4. ASSUME NEW s \in SUBSET (1..N), Cardinality(s) <= n + 1 PROVE Right(h, s)
    <3>1. CASE s = {}
      <4>0. Cardinality(s) = 0
        BY <3>1, FS_EmptySet
      <4>1. h[s] = g[s]
        BY <3>1
      <4>2. Right(g, s)
        <5> HIDE DEF h, Right, F
        <5> QED BY <2>1, <4>0
      <4> HIDE DEF h
      <4> QED BY <3>1, <4>1, <4>2
    <3>2. CASE s # {}
      <4> DEFINE r == s \ {Max(s)}
      <4>1. r \in SUBSET (1..N) /\ Cardinality(r) = Cardinality(s) - 1 /\ Cardinality(s) \in Nat
        BY <1>1, <3>2
      <4>2. h[r] = g[r]
        <5> HIDE DEF r
        <5> QED BY <2>4, <4>1
      <4>3. CASE Cardinality(s) = n + 1
        <5>1. h[s] = step[<<g[r], Max(s)>>]
          BY <3>2, <4>3
        <5> HIDE DEF h
        <5> QED BY <3>2, <4>2, <5>1
      <4>4. CASE Cardinality(s) <= n
        <5>1. h[s] = g[s] /\ Right(g, s)
          BY <2>1, <4>1, <4>4
        <5> HIDE DEF h
        <5> QED BY <3>2, <4>2, <5>1
      <4> QED BY <2>4, <4>1, <4>3, <4>4
    <3> QED BY <3>1, <3>2
  <2> HIDE DEF h, Right
  <2> QED BY <2>3, <2>4
<1> HIDE DEF Right
<1>4. N \in F
  <2> HIDE DEF F
  <2>1. \A n \in 0..N : n \in F
    BY <1>2, <1>3, UpTo
  <2> QED BY <2>1
<1>5. \A s \in SUBSET (1..N) : Cardinality(s) <= N
  BY SizeOfSome
<1> QED BY <1>4, <1>5 DEF Right, Folds

\* The sets it is computed for: the first numbers.
LEMMA FirstNumbers ==
    ASSUME NEW N \in Nat, NEW n \in 1..N
    PROVE  /\ 1..n \in SUBSET (1..N) /\ 1..n # {} /\ Max(1..n) = n /\ (1..n) \ {Max(1..n)} = 1..(n - 1)
<1>1. Max(1..n) = n
  <2>1. IsFiniteSet(1..n)
    BY Numbers
  <2>2. 1..n \in SUBSET Int /\ 1..n # {} /\ n \in 1..n
    OBVIOUS
  <2>3. Max(1..n) \in 1..n /\ Max(1..n) >= n
    BY <2>1, <2>2, MaxIs
  <2> QED BY <2>3
<1> QED BY <1>1

-----------------------------------------------------------------------------
(***************************************************************************)
(* Merging sorted ranges.                                                  *)
(***************************************************************************)
IsMergeFold(s, g) ==
    g = [T \in SUBSET DOMAIN s |-> IF T = {} THEN <<>> ELSE Merge(g[T \ {Max(T)}], s[Max(T)])]

\* The fold of a merge is a function of the places merged so far.
LEMMA MergeUnfolded ==
    ASSUME NEW s, NEW g, IsMergeFold(s, g)
    PROVE  \E h : IsMergeFold(s, h) /\ FoldLeft(Merge, <<>>, s) = h[DOMAIN s]
BY DEF IsMergeFold, FoldLeft, MapThenFoldSet

\* A merge leaves a list that is not empty.
LEMMA MergeType ==
    ASSUME NEW m \in Seq(PortRanges), NEW r \in PortRanges
    PROVE  Merge(m, r) \in Seq(PortRanges) /\ Merge(m, r) # <<>>
<1>1. CASE m # <<>> /\ Joins(Last(m), r)
  <2>1. Len(m) \in 1..Len(m) /\ m[Len(m)] \in PortRanges
    BY <1>1
  <2> DEFINE hi == IF r.hi > m[Len(m)].hi THEN r.hi ELSE m[Len(m)].hi
  <2>2. Merge(m, r) = [m EXCEPT ![Len(m)] = [m[Len(m)] EXCEPT !.hi = hi]]
    BY <1>1 DEF Merge
  <2>3. hi \in 0..MaxPort
    BY <2>1 DEF PortRanges
  <2> HIDE DEF hi
  <2>4. [m[Len(m)] EXCEPT !.hi = hi] \in PortRanges
    BY <2>1, <2>3 DEF PortRanges
  <2>5. [m EXCEPT ![Len(m)] = [m[Len(m)] EXCEPT !.hi = hi]] \in Seq(PortRanges)
    <3> DEFINE v == [m[Len(m)] EXCEPT !.hi = hi]
    <3> HIDE DEF v
    <3> QED BY <2>1, <2>4 DEF v
  <2>6. Len([m EXCEPT ![Len(m)] = [m[Len(m)] EXCEPT !.hi = hi]]) = Len(m)
    OBVIOUS
  <2> QED BY <1>1, <2>1, <2>2, <2>5, <2>6
<1>2. CASE ~(m # <<>> /\ Joins(Last(m), r))
  <2>1. Merge(m, r) = Append(m, r)
    BY <1>2, Zenon DEF Merge
  <2>2. Append(m, r) \in Seq(PortRanges) /\ Len(Append(m, r)) = Len(m) + 1 /\ Len(m) \in Nat
    OBVIOUS
  <2>3. Append(m, r) # <<>>
    BY <2>2
  <2> QED BY <2>1, <2>2, <2>3
<1> QED BY <1>1, <1>2

\* CompilePorts merges one range after the other.
LEMMA MergeIsFold ==
    ASSUME NEW s \in Seq(PortRanges)
    PROVE  \E f \in [0..Len(s) -> Seq(PortRanges)] :
               /\ f[0] = <<>> /\ \A n \in 1..Len(s) : f[n] = Merge(f[n - 1], s[n])
               /\ FoldLeft(Merge, <<>>, s) = f[Len(s)]
<1>0. PICK N \in Nat : N = Len(s) /\ DOMAIN s = 1..N
  OBVIOUS
<1> DEFINE step == [p \in Seq(PortRanges) \X (1..N) |-> Merge(p[1], s[p[2]])]
<1>1. step \in [Seq(PortRanges) \X (1..N) -> Seq(PortRanges)] /\ <<>> \in Seq(PortRanges)
  <2>1. ASSUME NEW p \in Seq(PortRanges) \X (1..N) PROVE Merge(p[1], s[p[2]]) \in Seq(PortRanges)
    <3>1. p[1] \in Seq(PortRanges) /\ s[p[2]] \in PortRanges
      BY <1>0
    <3> QED BY <3>1, MergeType
  <2> QED BY <2>1
<1>2. PICK g \in [SUBSET (1..N) -> Seq(PortRanges)] : Folds(g, N, <<>>, step)
  <2> HIDE DEF step
  <2> QED BY <1>1, FoldDefined
<1>3. IsMergeFold(s, g)
  <2>1. ASSUME NEW T \in SUBSET (1..N)
        PROVE  g[T] = IF T = {} THEN <<>> ELSE Merge(g[T \ {Max(T)}], s[Max(T)])
    <3>1. CASE T = {}
      BY <1>2, <3>1 DEF Folds
    <3>2. CASE T # {}
      <4>1. Max(T) \in 1..N /\ g[T \ {Max(T)}] \in Seq(PortRanges)
        BY <1>0, <3>2, MaxOfSome
      <4>2. g[T] = step[<<g[T \ {Max(T)}], Max(T)>>]
        BY <1>2, <3>2 DEF Folds
      <4> QED BY <3>2, <4>1, <4>2
    <3> QED BY <3>1, <3>2
  <2> HIDE DEF step
  <2>2. g = [T \in SUBSET (1..N) |-> g[T]]
    BY <1>2
  <2> QED BY <1>0, <2>1, <2>2 DEF IsMergeFold
<1>4. PICK h : IsMergeFold(s, h) /\ FoldLeft(Merge, <<>>, s) = h[DOMAIN s]
  BY <1>3, MergeUnfolded
<1> DEFINE f == [n \in 0..N |-> h[1..n]]
<1>5. h[1..0] = <<>>
  BY <1>0, <1>4 DEF IsMergeFold
<1>6. ASSUME NEW n \in 1..N PROVE h[1..n] = Merge(h[1..(n - 1)], s[n])
  <2>1. 1..n \in SUBSET (1..N) /\ 1..n # {} /\ Max(1..n) = n /\ (1..n) \ {Max(1..n)} = 1..(n - 1)
    BY <1>0, FirstNumbers
  <2>2. h[1..n] = Merge(h[(1..n) \ {Max(1..n)}], s[Max(1..n)])
    BY <1>0, <1>4, <2>1 DEF IsMergeFold
  <2> QED BY <2>1, <2>2
<1>7. \A n \in 0..N : n \in {k \in 0..N : h[1..k] \in Seq(PortRanges)}
  <2> DEFINE F == {k \in 0..N : h[1..k] \in Seq(PortRanges)}
  <2>1. 0 \in F
    <3>1. <<>> \in Seq(PortRanges) /\ 0 \in 0..N
      OBVIOUS
    <3> QED BY <1>5, <3>1
  <2>2. ASSUME NEW n \in 0..N, n \in F, n < N PROVE n + 1 \in F
    <3>1. n + 1 \in 1..N /\ s[n + 1] \in PortRanges /\ (n + 1) - 1 = n
      BY <1>0, <2>2
    <3>2. h[1..(n + 1)] = Merge(h[1..n], s[n + 1])
      BY <1>6, <3>1
    <3>3. h[1..(n + 1)] \in Seq(PortRanges)
      BY <2>2, <3>1, <3>2, MergeType
    <3> QED BY <3>1, <3>3
  <2> HIDE DEF F
  <2>3. \A n \in 0..N : n \in F
    BY <1>0, <2>1, <2>2, UpTo
  <2> QED BY <2>3 DEF F
<1>8. f \in [0..N -> Seq(PortRanges)]
  BY <1>7
<1>9. f[0] = <<>> /\ \A n \in 1..N : f[n] = Merge(f[n - 1], s[n])
  BY <1>5, <1>6
<1>10. FoldLeft(Merge, <<>>, s) = f[N]
  BY <1>0, <1>4
<1> HIDE DEF f
<1> QED BY <1>0, <1>8, <1>9, <1>10

-----------------------------------------------------------------------------
(*****************************************************************************)
(* Searching a list of ranges by their upper ends.                           *)
(*****************************************************************************)
HalfStep(ranges, port, h, part) ==
    LET lo  == part[1]
        hi  == part[2]
        mid == (lo + hi) \div 2
    IN  IF lo >= hi THEN lo ELSE IF ranges[mid + 1].hi >= port THEN h[<<lo, mid>>] ELSE h[<<mid + 1, hi>>]

IsHalf(ranges, port, h) ==
    h = [part \in (0..Len(ranges)) \X (0..Len(ranges)) |-> HalfStep(ranges, port, h, part)]

\* Search is a function that goes from a part of the list to one of its halves.
LEMMA HalfUnfolded ==
    ASSUME NEW ranges, NEW port, NEW h, IsHalf(ranges, port, h)
    PROVE  \E g : IsHalf(ranges, port, g) /\ Search(ranges, port) = g[<<0, Len(ranges)>>] + 1
BY DEF IsHalf, HalfStep, Search

\* The places of a part of a list are closer together after a step.
LEMMA Halves ==
    ASSUME NEW N \in Nat, NEW lo \in 0..N, NEW hi \in 0..N, lo < hi
    PROVE  /\ (lo + hi) \div 2 \in 0..N /\ (lo + hi) \div 2 + 1 \in 0..N
           /\ lo <= (lo + hi) \div 2 /\ (lo + hi) \div 2 < hi
<1>1. lo \in Nat /\ hi \in Nat
  OBVIOUS
<1>2. (lo + hi) \div 2 \in Nat /\ lo <= (lo + hi) \div 2 /\ (lo + hi) \div 2 < hi
  BY <1>1
<1> QED BY <1>1, <1>2

\* That function exists: each half is smaller than the part.
LEMMA HalfDefined ==
    ASSUME NEW ranges \in Seq(PortRanges), NEW port \in Nat
    PROVE  \E h : IsHalf(ranges, port, h)
<1>0. PICK N \in Nat : N = Len(ranges)
  OBVIOUS
<1> DEFINE Parts == (0..N) \X (0..N)
           Step(h, p) == h[p] = HalfStep(ranges, port, h, p)
           F == {n \in Nat : \E h \in [Parts -> Int] : \A p \in Parts : p[2] - p[1] <= n => Step(h, p)}
<1>1. 0 \in F
  <2> DEFINE h == [p \in Parts |-> p[1]]
  <2>1. h \in [Parts -> Int]
    OBVIOUS
  <2>2. ASSUME NEW p \in Parts, p[2] - p[1] <= 0 PROVE Step(h, p)
    BY <2>2 DEF HalfStep
  <2> HIDE DEF h, Step
  <2> QED BY <2>1, <2>2
<1>2. ASSUME NEW n \in Nat, n \in F PROVE n + 1 \in F
  <2>1. PICK g \in [Parts -> Int] : \A p \in Parts : p[2] - p[1] <= n => Step(g, p)
    BY <1>2
  <2> DEFINE h == [p \in Parts |-> IF p[2] - p[1] = n + 1 THEN HalfStep(ranges, port, g, p) ELSE g[p]]
  <2>2. ASSUME NEW p \in Parts, p[1] < p[2]
        PROVE  LET mid == (p[1] + p[2]) \div 2
               IN  /\ <<p[1], mid>> \in Parts /\ mid - p[1] < p[2] - p[1] /\ mid - p[1] \in Int
                   /\ <<mid + 1, p[2]>> \in Parts /\ p[2] - (mid + 1) < p[2] - p[1] /\ p[2] - (mid + 1) \in Int
    <3>1. p[1] \in 0..N /\ p[2] \in 0..N
      OBVIOUS
    <3>2. /\ (p[1] + p[2]) \div 2 \in 0..N /\ (p[1] + p[2]) \div 2 + 1 \in 0..N
          /\ p[1] <= (p[1] + p[2]) \div 2 /\ (p[1] + p[2]) \div 2 < p[2]
      BY <2>2, <3>1, Halves
    <3> DEFINE mid == (p[1] + p[2]) \div 2
    <3> HIDE DEF mid
    <3> QED BY <3>1, <3>2, SMTT(30) DEF mid
  <2>3a. \A q \in Parts : q[2] - q[1] # n + 1 => h[q] = g[q]
    <3> HIDE DEF Parts
    <3> QED OBVIOUS
  <2>3. ASSUME NEW p \in Parts, p[2] - p[1] = n + 1
        PROVE  HalfStep(ranges, port, g, p) \in Int /\ HalfStep(ranges, port, h, p) = HalfStep(ranges, port, g, p)
    <3> DEFINE mid == (p[1] + p[2]) \div 2
    <3>1. /\ p[1] < p[2] /\ <<p[1], mid>> \in Parts /\ mid - p[1] < n + 1 /\ mid - p[1] \in Int
          /\ <<mid + 1, p[2]>> \in Parts /\ p[2] - (mid + 1) < n + 1 /\ p[2] - (mid + 1) \in Int
          /\ p[1] \in Int /\ p[2] \in Int
      <4>1. p[1] \in Int /\ p[2] \in Int /\ p[1] < p[2]
        BY <2>3
      <4> HIDE DEF Parts
      <4> QED BY <2>2, <2>3, <4>1
    <3>2. h[<<p[1], mid>>] = g[<<p[1], mid>>] /\ h[<<mid + 1, p[2]>>] = g[<<mid + 1, p[2]>>]
      <4> HIDE DEF mid
      <4>1. mid - p[1] # n + 1 /\ p[2] - (mid + 1) # n + 1
        <5> HIDE DEF h, Parts
        <5> QED BY <3>1
      <4> HIDE DEF h, Parts
      <4> QED BY <2>3a, <3>1, <4>1
    <3>3. g[<<p[1], mid>>] \in Int /\ g[<<mid + 1, p[2]>>] \in Int
      BY <3>1
    <3> HIDE DEF h, Parts
    <3> QED BY <3>1, <3>2, <3>3 DEF HalfStep
  <2>4. h \in [Parts -> Int]
    BY <2>3
  <2>5. ASSUME NEW p \in Parts, p[2] - p[1] <= n + 1 PROVE Step(h, p)
    <3>1. CASE p[2] - p[1] = n + 1
      <4>1. h[p] = HalfStep(ranges, port, g, p)
        BY <3>1
      <4> HIDE DEF h
      <4> QED BY <2>3, <3>1, <4>1
    <3>2. CASE p[2] - p[1] <= n
      <4>0. p[1] \in Int /\ p[2] \in Int
        OBVIOUS
      <4>1. h[p] = g[p] /\ g[p] = HalfStep(ranges, port, g, p)
        BY <2>1, <3>2, <4>0
      <4>2. HalfStep(ranges, port, h, p) = HalfStep(ranges, port, g, p)
        <5>1. CASE p[1] >= p[2]
          BY <5>1 DEF HalfStep
        <5>2. CASE p[1] < p[2]
          <6> DEFINE mid == (p[1] + p[2]) \div 2
          <6>1. /\ <<p[1], mid>> \in Parts /\ mid - p[1] < p[2] - p[1] /\ mid - p[1] \in Int
                /\ <<mid + 1, p[2]>> \in Parts /\ p[2] - (mid + 1) < p[2] - p[1] /\ p[2] - (mid + 1) \in Int
            BY <2>2, <5>2
          <6>2. h[<<p[1], mid>>] = g[<<p[1], mid>>] /\ h[<<mid + 1, p[2]>>] = g[<<mid + 1, p[2]>>]
            <7> HIDE DEF mid, h, Parts
            <7>1. mid - p[1] # n + 1 /\ p[2] - (mid + 1) # n + 1
              BY <3>2, <4>0, <6>1
            <7> QED BY <2>3a, <6>1, <7>1
          <6> HIDE DEF h, Parts
          <6> QED BY <4>0, <5>2, <6>2 DEF HalfStep
        <5> QED BY <4>0, <5>1, <5>2
      <4> HIDE DEF h
      <4> QED BY <4>1, <4>2
    <3> QED BY <2>5, <3>1, <3>2
  <2> HIDE DEF h, Step
  <2> QED BY <2>4, <2>5
<1>3. N \in F
  <2> HIDE DEF F
  <2>1. \A n \in 0..N : n \in F
    BY <1>1, <1>2, UpTo
  <2> QED BY <2>1
<1>4. PICK h \in [Parts -> Int] : \A p \in Parts : p[2] - p[1] <= N => Step(h, p)
  BY <1>3
<1>5. \A p \in Parts : h[p] = HalfStep(ranges, port, h, p)
  BY <1>4
<1> HIDE DEF Parts
<1>6. h = [p \in Parts |-> HalfStep(ranges, port, h, p)]
  BY <1>5
<1> QED BY <1>0, <1>6 DEF IsHalf, Parts

RangeTyped(r) == r.lo \in Nat /\ r.hi \in Nat /\ r.hi <= MaxPort

\* The ends of a range.
LEMMA RangeType ==
    ASSUME NEW r \in PortRanges
    PROVE  MaxPort \in Nat /\ RangeTyped(r)
<1>1. MaxPort \in Nat
  BY AclConstants
<1> QED BY <1>1 DEF PortRanges, RangeTyped

\* The ends of the ranges of a list.
LEMMA RangesType ==
    ASSUME NEW m \in Seq(PortRanges)
    PROVE  MaxPort \in Nat /\ \A k \in DOMAIN m : m[k] \in PortRanges /\ RangeTyped(m[k])
<1>1. MaxPort \in Nat
  BY AclConstants
<1>2. \A k \in DOMAIN m : m[k] \in PortRanges
  OBVIOUS
<1> QED BY <1>1, <1>2, RangeType

RisingEnds(m) == \A i, j \in DOMAIN m : i < j => m[i].hi <= m[j].hi

\* What the search has found between two places.
LEMMA SearchFinds ==
    ASSUME NEW m \in Seq(PortRanges), NEW port \in Nat
    PROVE  /\ Search(m, port) \in 1..(Len(m) + 1)
           /\ Search(m, port) <= Len(m) => m[Search(m, port)].hi >= port
           /\ RisingEnds(m) => \A k \in 1..Len(m) : k < Search(m, port) => m[k].hi < port
<1>0. PICK N \in Nat : N = Len(m) /\ DOMAIN m = 1..N
  OBVIOUS
<1>1. PICK h : IsHalf(m, port, h) /\ Search(m, port) = h[<<0, N>>] + 1
  BY <1>0, HalfDefined, HalfUnfolded
<1> DEFINE Parts == (0..N) \X (0..N)
           Good(p) == /\ h[p] \in p[1]..p[2]
                      /\ h[p] < p[2] => m[h[p] + 1].hi >= port
                      /\ RisingEnds(m) => \A k \in (p[1] + 1)..h[p] : m[k].hi < port
           F == {n \in Nat : \A p \in Parts : p[1] <= p[2] /\ p[2] - p[1] <= n => Good(p)}
<1>2. ASSUME NEW p \in Parts PROVE h[p] = HalfStep(m, port, h, p)
  BY <1>0, <1>1 DEF IsHalf
<1>3. 0 \in F
  <2>1. ASSUME NEW p \in Parts, p[1] <= p[2], p[2] - p[1] <= 0 PROVE Good(p)
    <3>1. p[1] = p[2] /\ p[1] \in Nat
      BY <2>1
    <3>2. h[p] = p[1]
      <4>1. h[p] = HalfStep(m, port, h, p) /\ p[1] >= p[2]
        BY <1>2, <3>1
      <4> QED BY <4>1 DEF HalfStep
    <3> QED BY <3>1, <3>2
  <2> HIDE DEF Good
  <2> QED BY <2>1
<1>4. ASSUME NEW n \in Nat, n \in F PROVE n + 1 \in F
  <2>1. ASSUME NEW p \in Parts, p[1] <= p[2], p[2] - p[1] <= n + 1 PROVE Good(p)
    <3> DEFINE lo  == p[1]
               hi  == p[2]
               mid == (lo + hi) \div 2
    <3>1. lo \in 0..N /\ hi \in 0..N
      OBVIOUS
    <3>2. CASE lo >= hi
      <4>1. h[p] = lo
        BY <1>2, <3>2 DEF HalfStep
      <4> QED BY <2>1, <3>1, <3>2, <4>1
    <3>3. CASE lo < hi
      <4>1. mid \in 0..N /\ mid + 1 \in 0..N /\ lo <= mid /\ mid < hi
        BY <3>1, <3>3, Halves
      <4>2. h[p] = IF m[mid + 1].hi >= port THEN h[<<lo, mid>>] ELSE h[<<mid + 1, hi>>]
        BY <1>2, <3>1, <3>3, SMTT(30) DEF HalfStep
      <4>3. p = <<lo, hi>>
        OBVIOUS
      <4>4. \A k \in 1..N : m[k].hi \in Nat
        BY <1>0, RangesType DEF RangeTyped
      <4>5. CASE m[mid + 1].hi >= port
        <5> DEFINE q == <<lo, mid>>
        <5>1. q \in Parts /\ q[1] = lo /\ q[2] = mid
          BY <3>1, <4>1
        <5>2. Good(q)
          <6> HIDE DEF Good, q, lo, mid
          <6>1. lo <= mid /\ mid - lo <= n
            BY <2>1, <3>1, <4>1 DEF lo
          <6> QED BY <1>4, <5>1, <6>1
        <5>3. h[p] = h[q]
          BY <4>2, <4>5
        <5>4. h[q] \in lo..mid /\ (h[q] < mid => m[h[q] + 1].hi >= port)
              /\ (RisingEnds(m) => \A k \in (lo + 1)..h[q] : m[k].hi < port)
          BY <5>1, <5>2
        <5>5. h[q] = mid \/ h[q] < mid
          BY <3>1, <4>1, <5>4
        <5> HIDE DEF q, mid
        <5> QED BY <3>1, <4>1, <4>5, <5>3, <5>4, <5>5
      <4>6. CASE ~(m[mid + 1].hi >= port)
        <5> DEFINE q == <<mid + 1, hi>>
        <5>1. q \in Parts /\ q[1] = mid + 1 /\ q[2] = hi
          BY <3>1, <4>1
        <5>2. Good(q)
          <6> HIDE DEF Good, q, hi, mid
          <6>1. mid + 1 <= hi /\ hi - (mid + 1) <= n
            BY <2>1, <3>1, <4>1 DEF hi
          <6> QED BY <1>4, <5>1, <6>1
        <5>3. h[p] = h[q]
          BY <4>2, <4>6
        <5>4. h[q] \in (mid + 1)..hi /\ (h[q] < hi => m[h[q] + 1].hi >= port)
              /\ (RisingEnds(m) => \A k \in (mid + 2)..h[q] : m[k].hi < port)
          <6>1. (mid + 1) + 1 = mid + 2
            BY <4>1
          <6>2. h[q] \in q[1]..q[2] /\ (h[q] < q[2] => m[h[q] + 1].hi >= port)
                /\ (RisingEnds(m) => \A k \in (q[1] + 1)..h[q] : m[k].hi < port)
            BY <5>2
          <6> HIDE DEF q, mid, hi, Good, F
          <6> QED BY <5>1, <6>1, <6>2
        <5>5. RisingEnds(m) => \A k \in (lo + 1)..h[q] : m[k].hi < port
          <6> HIDE DEF q, mid
          <6>1. ASSUME RisingEnds(m), NEW k \in (lo + 1)..h[q] PROVE m[k].hi < port
            <7>1. k \in 1..N /\ mid + 1 \in 1..N
              BY <3>1, <4>1, <5>4
            <7>2. CASE k <= mid + 1
              <8>1. m[k].hi <= m[mid + 1].hi
                <9>1. k = mid + 1 \/ k < mid + 1
                  BY <7>1, <7>2
                <9>2. k < mid + 1 => m[k].hi <= m[mid + 1].hi
                  BY <1>0, <6>1, <7>1 DEF RisingEnds
                <9> QED BY <4>4, <7>1, <9>1, <9>2
              <8> QED BY <4>4, <4>6, <7>1, <8>1, SMTT(30)
            <7>3. CASE k > mid + 1
              BY <3>1, <4>1, <5>4, <6>1, <7>1, <7>3
            <7> QED BY <4>1, <7>1, <7>2, <7>3
          <6> QED BY <6>1
        <5> HIDE DEF q, mid
        <5> QED BY <3>1, <4>1, <5>3, <5>4, <5>5
      <4> QED BY <4>5, <4>6
    <3> QED BY <3>1, <3>2, <3>3
  <2> HIDE DEF Good
  <2> QED BY <2>1
<1>5. N \in F
  <2> HIDE DEF F
  <2>1. \A n \in 0..N : n \in F
    BY <1>3, <1>4, UpTo
  <2> QED BY <2>1
<1>6. Good(<<0, N>>)
  <2> DEFINE p == <<0, N>>
  <2>1. p \in Parts /\ p[1] <= p[2] /\ p[2] - p[1] <= N
    OBVIOUS
  <2> HIDE DEF Good, p
  <2>2. Good(p)
    BY <1>5, <2>1
  <2> QED BY <2>2 DEF p
<1>7. /\ h[<<0, N>>] \in 0..N
      /\ h[<<0, N>>] < N => m[h[<<0, N>>] + 1].hi >= port
      /\ RisingEnds(m) => \A k \in 1..h[<<0, N>>] : m[k].hi < port
  BY <1>6
<1> QED BY <1>0, <1>1, <1>7, SMTT(30)

-----------------------------------------------------------------------------
(*****************************************************************************)
(* Merging ranges: what is covered.                                          *)
(*****************************************************************************)
JoinsIs == \A last, r \in PortRanges : r.lo > 0 => (Joins(last, r) <=> last.hi < MaxPort /\ r.lo <= last.hi + 1)

\* Touching ranges join, but the sum of the largest port and one wraps to zero.
LEMMA JoinsUnlessLast == JoinsIs
<1> SUFFICES ASSUME NEW last \in PortRanges, NEW r \in PortRanges, r.lo > 0
             PROVE  Joins(last, r) <=> last.hi < MaxPort /\ r.lo <= last.hi + 1
  BY DEF JoinsIs
<1>1. MaxPort \in Nat
  BY AclConstants
<1>2. last.hi \in 0..MaxPort /\ r.lo \in 1..MaxPort
  BY DEF PortRanges
<1>3. CASE last.hi = MaxPort
  <2>1. (MaxPort + 1) % (MaxPort + 1) = 0
    BY <1>1
  <2> QED BY <1>1, <1>2, <1>3, <2>1 DEF Joins
<1>4. CASE last.hi < MaxPort
  <2>1. (last.hi + 1) % (MaxPort + 1) = last.hi + 1
    BY <1>1, <1>2, <1>4
  <2> QED BY <1>2, <1>4, <2>1 DEF Joins
<1> QED BY <1>1, <1>2, <1>3, <1>4

Sane(r)   == 0 < r.lo /\ r.lo <= r.hi
Rising(m) == \A i, j \in DOMAIN m : i < j => m[i].lo <= m[j].lo

\* Ranges so far, none of which starts later than the one to come.
Before(m, lo) == \A k \in DOMAIN m : Sane(m[k]) /\ m[k].lo <= lo

\* A merge extends the last range or adds one.
LEMMA MergeIs ==
    ASSUME NEW m \in Seq(PortRanges), NEW r \in PortRanges
    PROVE  \/ /\ m # <<>> /\ Joins(m[Len(m)], r) /\ Len(m) \in 1..Len(m)
              /\ DOMAIN Merge(m, r) = DOMAIN m /\ DOMAIN m = 1..Len(m)
              /\ \A k \in DOMAIN m : Merge(m, r)[k].lo = m[k].lo
              /\ \A k \in DOMAIN m : k # Len(m) => Merge(m, r)[k].hi = m[k].hi
              /\ Merge(m, r)[Len(m)].hi = IF r.hi > m[Len(m)].hi THEN r.hi ELSE m[Len(m)].hi
           \/ /\ m = <<>> \/ ~Joins(m[Len(m)], r)
              /\ DOMAIN m = 1..Len(m) /\ Len(m) \in Nat
              /\ DOMAIN Merge(m, r) = 1..(Len(m) + 1)
              /\ \A k \in DOMAIN m : Merge(m, r)[k] = m[k]
              /\ Merge(m, r)[Len(m) + 1] = r
<1>1. CASE m # <<>> /\ Joins(m[Len(m)], r)
  <2> DEFINE hi == IF r.hi > m[Len(m)].hi THEN r.hi ELSE m[Len(m)].hi
  <2>1. Len(m) \in 1..Len(m) /\ m[Len(m)] \in PortRanges /\ DOMAIN m = 1..Len(m)
    BY <1>1
  <2>2. Merge(m, r) = [m EXCEPT ![Len(m)] = [m[Len(m)] EXCEPT !.hi = hi]]
    BY <1>1 DEF Merge, Last
  <2> HIDE DEF hi
  <2>3. [m[Len(m)] EXCEPT !.hi = hi].lo = m[Len(m)].lo /\ [m[Len(m)] EXCEPT !.hi = hi].hi = hi
    BY <2>1 DEF PortRanges
  <2> DEFINE v == [m[Len(m)] EXCEPT !.hi = hi]
  <2> HIDE DEF v
  <2>4. Merge(m, r) = [m EXCEPT ![Len(m)] = v] /\ v.lo = m[Len(m)].lo /\ v.hi = hi
    BY <2>2, <2>3 DEF v
  <2>5. /\ DOMAIN Merge(m, r) = DOMAIN m /\ Merge(m, r)[Len(m)] = v
        /\ \A k \in DOMAIN m : k # Len(m) => Merge(m, r)[k] = m[k]
    BY <2>1, <2>4
  <2>6. \A k \in DOMAIN m : Merge(m, r)[k].lo = m[k].lo
    BY <2>4, <2>5
  <2> QED BY <1>1, <2>1, <2>4, <2>5, <2>6 DEF hi
<1>2. CASE ~(m # <<>> /\ Joins(m[Len(m)], r))
  <2>1. Merge(m, r) = Append(m, r)
    BY <1>2, Zenon DEF Merge, Last
  <2> QED BY <1>2, <2>1
<1> QED BY <1>1, <1>2

\* Merging a range that starts no earlier covers its ports too, and adds no others.
LEMMA MergeKeeps ==
    ASSUME NEW m \in Seq(PortRanges), NEW r \in PortRanges, Sane(r), Before(m, r.lo), Rising(m)
    PROVE  /\ Before(Merge(m, r), r.lo) /\ Rising(Merge(m, r))
           /\ \A port \in Nat : Covered(Merge(m, r), port) <=> Covered(m, port) \/ port \in r.lo..r.hi
           /\ RisingEnds(m) /\ (\A k \in DOMAIN m : m[k].hi = MaxPort => r.hi = MaxPort)
                  => RisingEnds(Merge(m, r))
<1> DEFINE n == Merge(m, r)
           L == Len(m)
<1>1. /\ n \in Seq(PortRanges) /\ \A k \in DOMAIN n : n[k].lo \in Nat /\ n[k].hi \in Nat
      /\ \A k \in DOMAIN m : m[k].lo \in Nat /\ m[k].hi \in Nat /\ m[k].hi <= MaxPort
      /\ r.lo \in Nat /\ r.hi \in Nat /\ r.hi <= MaxPort /\ MaxPort \in Nat
  <2>1. n \in Seq(PortRanges)
    BY MergeType
  <2> HIDE DEF n
  <2> QED BY <2>1, RangeType, RangesType DEF RangeTyped
<1>2. CASE /\ m # <<>> /\ Joins(m[L], r) /\ L \in 1..L
           /\ DOMAIN n = DOMAIN m /\ DOMAIN m = 1..L
           /\ \A k \in DOMAIN m : n[k].lo = m[k].lo
           /\ \A k \in DOMAIN m : k # L => n[k].hi = m[k].hi
           /\ n[L].hi = IF r.hi > m[L].hi THEN r.hi ELSE m[L].hi
  <2> HIDE DEF n, L
  <2>1. m[L].hi < MaxPort /\ r.lo <= m[L].hi + 1 /\ m[L].lo <= r.lo /\ m[L].lo <= m[L].hi
    <3>1. m[L] \in PortRanges /\ r.lo > 0
      BY <1>2 DEF Sane
    <3> QED BY <1>2, <3>1, JoinsUnlessLast DEF JoinsIs, Before, Sane
  <2>2. \A k \in DOMAIN n : n[k].hi >= m[k].hi
    BY <1>1, <1>2
  <2>3. Before(n, r.lo)
    BY <1>1, <1>2, <2>2 DEF Before, Sane
  <2>4. Rising(n)
    BY <1>2 DEF Rising
  <2>5. ASSUME NEW port \in Nat PROVE Covered(n, port) <=> Covered(m, port) \/ port \in r.lo..r.hi
    <3>1. \A k \in DOMAIN m : k # L => (port \in n[k].lo..n[k].hi <=> port \in m[k].lo..m[k].hi)
      BY <1>2
    <3>2. port \in n[L].lo..n[L].hi <=> port \in m[L].lo..m[L].hi \/ port \in r.lo..r.hi
      BY <1>1, <1>2, <2>1 DEF Sane
    <3> QED BY <1>2, <3>1, <3>2 DEF Covered
  <2>6. ASSUME RisingEnds(m) PROVE RisingEnds(n)
    <3> SUFFICES ASSUME NEW i \in DOMAIN n, NEW j \in DOMAIN n, i < j PROVE n[i].hi <= n[j].hi
      BY DEF RisingEnds
    <3>1. i # L /\ n[i].hi = m[i].hi /\ m[i].hi <= m[j].hi
      BY <1>2, <2>6 DEF RisingEnds
    <3> QED BY <1>1, <1>2, <2>2, <3>1
  <2> QED BY <2>3, <2>4, <2>5, <2>6 DEF n
<1>3. CASE /\ m = <<>> \/ ~Joins(m[L], r)
           /\ DOMAIN m = 1..L /\ L \in Nat
           /\ DOMAIN n = 1..(L + 1)
           /\ \A k \in DOMAIN m : n[k] = m[k]
           /\ n[L + 1] = r
  <2>0. m = <<>> => L = 0
    OBVIOUS
  <2> HIDE DEF n, L
  <2>1. \A k \in DOMAIN n : k \in DOMAIN m \/ k = L + 1
    BY <1>3
  <2>3. Before(n, r.lo)
    BY <1>1, <1>3, <2>1 DEF Before, Sane
  <2>4. Rising(n)
    BY <1>1, <1>3, <2>1 DEF Rising, Before
  <2>5. ASSUME NEW port \in Nat PROVE Covered(n, port) <=> Covered(m, port) \/ port \in r.lo..r.hi
    <3>1. L + 1 \in DOMAIN n /\ \A k \in DOMAIN m : k \in DOMAIN n
      BY <1>3
    <3> QED BY <1>3, <2>1, <3>1 DEF Covered
  <2>6. ASSUME RisingEnds(m), \A k \in DOMAIN m : m[k].hi = MaxPort => r.hi = MaxPort PROVE RisingEnds(n)
    <3> SUFFICES ASSUME NEW i \in DOMAIN n, NEW j \in DOMAIN n, i < j PROVE n[i].hi <= n[j].hi
      BY DEF RisingEnds
    <3>1. i \in DOMAIN m
      BY <1>3
    <3>2. CASE j \in DOMAIN m
      BY <1>3, <2>6, <3>1, <3>2 DEF RisingEnds
    <3>3. CASE j = L + 1
      <4>1. L \in DOMAIN m /\ m # <<>> /\ m[L] \in PortRanges
        BY <1>3, <2>0, <3>1
      <4>2. m[i].hi <= m[L].hi
        BY <1>1, <1>3, <2>6, <3>1, <4>1, SMTT(30) DEF RisingEnds
      <4>3. m[L].hi = MaxPort \/ m[L].hi < MaxPort
        BY <1>1, <4>1
      <4>4. CASE m[L].hi = MaxPort
        BY <1>1, <1>3, <2>6, <3>1, <3>3, <4>1, <4>2, <4>4
      <4>5. CASE m[L].hi < MaxPort
        <5>1. r.lo > m[L].hi + 1
          <6>1. ~Joins(m[L], r) /\ r.lo > 0 /\ m[L].hi \in Nat
            BY <1>1, <1>3, <4>1 DEF Sane
          <6>2. ~(r.lo <= m[L].hi + 1)
            BY <4>1, <4>5, <6>1, JoinsUnlessLast DEF JoinsIs
          <6> QED BY <1>1, <6>1, <6>2, SMTT(30)
        <5> QED BY <1>1, <1>3, <3>1, <3>3, <4>1, <4>2, <5>1 DEF Sane
      <4> QED BY <4>3, <4>4, <4>5
    <3> QED BY <2>1, <3>2, <3>3
  <2> QED BY <2>3, <2>4, <2>5, <2>6 DEF n
<1> HIDE DEF n
<1> QED BY <1>2, <1>3, MergeIs DEF n

\* The elements of a list are finitely many.
LEMMA ToSetFinite ==
    ASSUME NEW X, NEW s \in Seq(X)
    PROVE  IsFiniteSet(ToSet(s)) /\ ToSet(s) \subseteq X
<1>1. s \in Surjection(1..Len(s), ToSet(s))
  BY DEF Surjection, ToSet
<1>2. IsFiniteSet(1..Len(s))
  BY Numbers
<1> QED BY <1>1, <1>2, FS_Surjection DEF ToSet

\* Sorted, a list of ranges has the same ranges and no later one starts earlier.
LEMMA PortsArranged ==
    ASSUME NEW ports \in Seq(PortRanges)
    PROVE  LET s == Arranged(ToSet(ports), RangeBefore)
           IN  /\ s \in Seq(PortRanges)
               /\ \A i, j \in DOMAIN s : i < j => RangeBefore(s[i], s[j])
               /\ \A r : r \in ToSet(ports) <=> \E i \in DOMAIN s : s[i] = r
<1> DEFINE S == ToSet(ports)
           N == Cardinality(S)
           R == {p \in PortRanges \X PortRanges : RangeBefore(p[1], p[2])}
           s == Arranged(S, RangeBefore)
<1>1. IsFiniteSet(S) /\ S \subseteq PortRanges /\ N \in Nat
  BY ToSetFinite, FS_CardinalityType
<1>2. \A x, y \in PortRanges : <<x, y>> \in R <=> RangeBefore(x, y)
  OBVIOUS
<1>3. Orders(R, S) /\ \A x \in S : <<x, x>> \notin R
  <2>1. \A x, y \in PortRanges : x # y => RangeBefore(x, y) \/ RangeBefore(y, x)
    <3>1. ASSUME NEW x \in PortRanges, NEW y \in PortRanges, x # y PROVE x.lo # y.lo \/ x.hi # y.hi
      BY <3>1, SMTT(30) DEF PortRanges
    <3> QED BY <3>1, RangeType DEF RangeBefore, RangeTyped
  <2>2. \A x, y, z \in PortRanges : RangeBefore(x, y) /\ RangeBefore(y, z) => RangeBefore(x, z)
    BY RangeType DEF RangeBefore, RangeTyped
  <2>3. \A x \in PortRanges : ~RangeBefore(x, x)
    BY RangeType DEF RangeBefore, RangeTyped
  <2> HIDE DEF R, S
  <2> QED BY <1>1, <1>2, <2>1, <2>2, <2>3 DEF Orders
<1>4. PICK t \in [1..N -> S] : InOrder(t, N, R)
  <2> HIDE DEF R, S
  <2> QED BY <1>1, <1>3, CanBeArranged
<1> HIDE DEF R, S, N
<1>5. \A i, j \in 1..N : i < j => RangeBefore(t[i], t[j])
  BY <1>1, <1>2, <1>4 DEF InOrder
<1>6. s \in [1..N -> S] /\ \A i, j \in 1..N : i < j => RangeBefore(s[i], s[j])
  BY <1>4, <1>5 DEF Arranged, N
<1> HIDE DEF s
<1>7. InOrder(s, N, R)
  BY <1>1, <1>2, <1>6 DEF InOrder
<1>8. \A x \in S : \E i \in 1..N : s[i] = x
  BY <1>1, <1>3, <1>6, <1>7, ArrangedHasAll DEF N
<1>9. s \in Seq(PortRanges) /\ DOMAIN s = 1..N
  BY <1>1, <1>6
<1> QED BY <1>6, <1>8, <1>9 DEF s, S

\* A compiled list covers the ports that were listed, in rising ranges whose ends rise too
\* unless the sum wraps.
LEMMA PortsCompiled ==
    ASSUME NEW ports \in Seq(PortRanges), \A k \in DOMAIN ports : Sane(ports[k])
    PROVE  /\ CompilePorts(ports) \in Seq(PortRanges) /\ Rising(CompilePorts(ports))
           /\ \A port \in Nat : Covered(CompilePorts(ports), port) <=> Covered(ports, port)
           /\ ~Wraps(ports) => RisingEnds(CompilePorts(ports))
           /\ CompilePorts(ports) = <<>> <=> ports = <<>>
<1>1. PICK s \in Seq(PortRanges) :
          /\ s = Arranged(ToSet(ports), RangeBefore)
          /\ \A i, j \in DOMAIN s : i < j => RangeBefore(s[i], s[j])
          /\ \A r : r \in ToSet(ports) <=> \E i \in DOMAIN s : s[i] = r
  BY PortsArranged
<1>2. PICK N \in Nat : N = Len(s) /\ DOMAIN s = 1..N
  OBVIOUS
<1>3. PICK f \in [0..N -> Seq(PortRanges)] :
          /\ f[0] = <<>> /\ \A n \in 1..N : f[n] = Merge(f[n - 1], s[n])
          /\ CompilePorts(ports) = f[N]
  BY <1>1, <1>2, MergeIsFold DEF CompilePorts
<1>4. ASSUME NEW k \in 1..N PROVE Sane(s[k]) /\ s[k] \in PortRanges /\ RangeTyped(s[k]) /\ s[k] \in ToSet(ports)
  <2>1. s[k] \in ToSet(ports)
    BY <1>1, <1>2
  <2>2. s[k] \in PortRanges
    BY <1>2
  <2> QED BY <2>1, <2>2, RangeType DEF ToSet
<1> DEFINE Good(n) ==
        /\ \A k \in DOMAIN f[n] : Sane(f[n][k])
        /\ n > 0 => Before(f[n], s[n].lo) /\ f[n] # <<>>
        /\ Rising(f[n])
        /\ \A port \in Nat : Covered(f[n], port) <=> \E k \in 1..n : port \in s[k].lo..s[k].hi
        /\ ~Wraps(ports) => RisingEnds(f[n])
           F == {n \in 0..N : Good(n)}
<1>5. 0 \in F
  <2>1. DOMAIN f[0] = {}
    BY <1>3
  <2> HIDE DEF Before
  <2> QED BY <2>1 DEF Rising, RisingEnds, Covered
<1>6. ASSUME NEW n \in 0..N, n \in F, n < N PROVE n + 1 \in F
  <2> DEFINE r == s[n + 1]
             m == f[n]
  <2>1. n + 1 \in 1..N /\ (n + 1) - 1 = n
    BY <1>6
  <2>2. f[n + 1] = Merge(m, r) /\ m \in Seq(PortRanges)
    BY <1>3, <2>1
  <2>3. Sane(r) /\ r \in PortRanges /\ RangeTyped(r)
    BY <1>4, <2>1
  <2>4. \A k \in 1..n : RangeBefore(s[k], r) /\ s[k].lo <= r.lo
    <3>1. ASSUME NEW k \in 1..n PROVE RangeBefore(s[k], r) /\ s[k].lo <= r.lo
      <4>1. k \in 1..N /\ k < n + 1
        BY <2>1
      <4>2. RangeBefore(s[k], r) /\ RangeTyped(s[k])
        BY <1>1, <1>2, <1>4, <2>1, <4>1
      <4> QED BY <2>3, <4>2, SMTT(30) DEF RangeBefore, RangeTyped
    <3> QED BY <3>1
  <2>5. \A k \in DOMAIN m : m[k] \in PortRanges /\ RangeTyped(m[k])
    BY <2>2, RangesType
  <2> HIDE DEF r, m
  <2>6. Good(n)
    BY <1>6
  <2>7. Before(m, r.lo)
    <3>1. CASE n = 0
      BY <1>3, <3>1 DEF Before, m
    <3>2. CASE n > 0
      <4>1. s[n].lo <= r.lo /\ RangeTyped(s[n]) /\ n \in 1..n
        BY <1>4, <2>1, <2>4, <3>2
      <4>2. Before(m, s[n].lo)
        BY <2>6, <3>2 DEF m
      <4> QED BY <2>3, <2>5, <4>1, <4>2, SMTT(30) DEF Before, RangeTyped
    <3> QED BY <1>6, <3>1, <3>2
  <2>8. ~Wraps(ports) => \A k \in DOMAIN m : m[k].hi = MaxPort => r.hi = MaxPort
    <3>1. ASSUME ~Wraps(ports), NEW k \in DOMAIN m, m[k].hi = MaxPort PROVE r.hi = MaxPort
      <4>1. MaxPort \in Nat /\ m[k].lo \in Nat /\ m[k].lo <= MaxPort
        BY <2>3, <2>5, <2>7, <3>1, RangeType DEF Before, Sane, RangeTyped
      <4>2. Covered(m, MaxPort)
        BY <3>1, <4>1 DEF Covered
      <4>3. PICK j \in 1..n : MaxPort \in s[j].lo..s[j].hi
        BY <2>6, <4>1, <4>2 DEF m
      <4>4. s[j] \in ToSet(ports) /\ RangeTyped(s[j]) /\ r \in ToSet(ports) /\ RangeBefore(s[j], r)
        BY <1>4, <2>1, <2>4 DEF r
      <4>5. s[j].hi = MaxPort
        BY <4>1, <4>3, <4>4, SMTT(30) DEF RangeTyped
      <4>6. ~(r.hi < MaxPort)
        BY <3>1, <4>4, <4>5 DEF Wraps
      <4> QED BY <2>3, <4>1, <4>6 DEF RangeTyped
    <3> QED BY <3>1
  <2>9. /\ Before(Merge(m, r), r.lo) /\ Rising(Merge(m, r))
        /\ \A port \in Nat : Covered(Merge(m, r), port) <=> Covered(m, port) \/ port \in r.lo..r.hi
        /\ ~Wraps(ports) => RisingEnds(Merge(m, r))
    <3>1. Rising(m) /\ (~Wraps(ports) => RisingEnds(m))
      BY <2>6 DEF m
    <3> QED BY <2>2, <2>3, <2>7, <2>8, <3>1, MergeKeeps
  <2>10. Merge(m, r) # <<>>
    BY <2>2, <2>3, MergeType
  <2>11. ASSUME NEW port \in Nat
         PROVE  Covered(Merge(m, r), port) <=> \E k \in 1..(n + 1) : port \in s[k].lo..s[k].hi
    <3>1. Covered(m, port) <=> \E k \in 1..n : port \in s[k].lo..s[k].hi
      BY <2>6 DEF m
    <3>2. \A k : k \in 1..(n + 1) <=> k \in 1..n \/ k = n + 1
      BY <1>6
    <3>3. (\E k \in 1..(n + 1) : port \in s[k].lo..s[k].hi)
             <=> (\E k \in 1..n : port \in s[k].lo..s[k].hi) \/ port \in r.lo..r.hi
      BY <3>2 DEF r
    <3> QED BY <2>9, <3>1, <3>3
  <2>12. Good(n + 1)
    <3>1. \A k \in DOMAIN Merge(m, r) : Sane(Merge(m, r)[k])
      BY <2>9 DEF Before
    <3> QED BY <2>2, <2>9, <2>10, <2>11, <3>1 DEF r
  <2> HIDE DEF Good
  <2> QED BY <2>1, <2>12
<1>7. Good(N)
  <2> HIDE DEF F, Good
  <2>1. \A n \in 0..N : n \in F
    BY <1>5, <1>6, UpTo
  <2> QED BY <2>1 DEF F
<1>8. ASSUME NEW port \in Nat
      PROVE  (\E k \in 1..N : port \in s[k].lo..s[k].hi) <=> Covered(ports, port)
  <2>1. Covered(ports, port) <=> \E r \in ToSet(ports) : port \in r.lo..r.hi
    BY DEF Covered, ToSet
  <2> QED BY <1>1, <1>2, <2>1
<1>9. CompilePorts(ports) = <<>> <=> ports = <<>>
  <2>1. CASE ports = <<>>
    <3>1. ToSet(ports) = {}
      BY <2>1 DEF ToSet
    <3>2. N = 0
      <4>1. N > 0 => 1 \in 1..N /\ s[1] \in ToSet(ports)
        BY <1>4
      <4> QED BY <3>1, <4>1
    <3> QED BY <1>3, <2>1, <3>2
  <2>2. CASE ports # <<>>
    <3>1. 1 \in DOMAIN ports
      BY <2>2
    <3>2. ports[1] \in ToSet(ports)
      BY <3>1 DEF ToSet
    <3>3. N > 0
      BY <1>1, <1>2, <3>2
    <3> QED BY <1>3, <1>7, <2>2, <3>3
  <2> QED BY <2>1, <2>2
<1>10. f[N] \in Seq(PortRanges)
  BY <1>3
<1> QED BY <1>3, <1>7, <1>8, <1>9, <1>10

\* The search finds no range that was not listed, and the one that was unless the sum wraps.
LEMMA PortsMatch ==
    ASSUME NEW ports \in Seq(PortRanges), \A k \in DOMAIN ports : Sane(ports[k]), NEW port \in Nat
    PROVE  /\ MatchPort(CompilePorts(ports), port) => Covered(ports, port)
           /\ Covered(ports, port) /\ ~Wraps(ports) => MatchPort(CompilePorts(ports), port)
<1>1. PICK m \in Seq(PortRanges) :
          /\ m = CompilePorts(ports) /\ Rising(m) /\ (Covered(m, port) <=> Covered(ports, port))
          /\ ~Wraps(ports) => RisingEnds(m)
  BY PortsCompiled
<1>2. PICK i \in 1..(Len(m) + 1) :
          /\ i = Search(m, port) /\ (i <= Len(m) => m[i].hi >= port)
          /\ RisingEnds(m) => \A k \in 1..Len(m) : k < i => m[k].hi < port
  BY SearchFinds
<1>3. DOMAIN m = 1..Len(m) /\ Len(m) \in Nat /\ \A k \in DOMAIN m : RangeTyped(m[k])
  BY RangesType
<1>4. MatchPort(m, port) <=> i <= Len(m) /\ m[i].lo <= port
  BY <1>2 DEF MatchPort
<1>5. ASSUME i <= Len(m), m[i].lo <= port PROVE Covered(m, port)
  BY <1>2, <1>3, <1>5 DEF Covered, RangeTyped
<1>6. ASSUME Covered(m, port), RisingEnds(m) PROVE i <= Len(m) /\ m[i].lo <= port
  <2>1. PICK k \in DOMAIN m : port \in m[k].lo..m[k].hi
    BY <1>6 DEF Covered
  <2>2. ~(k < i)
    BY <1>2, <1>3, <1>6, <2>1 DEF RangeTyped
  <2>3. i <= k /\ i \in DOMAIN m
    BY <1>3, <2>2
  <2>4. m[i].lo <= m[k].lo
    <3>1. i = k \/ i < k
      BY <1>3, <2>3
    <3>2. i < k => m[i].lo <= m[k].lo
      BY <1>1, <2>3 DEF Rising
    <3> QED BY <1>3, <2>3, <3>1, <3>2 DEF RangeTyped
  <2> QED BY <1>3, <2>1, <2>3, <2>4 DEF RangeTyped
<1> QED BY <1>1, <1>4, <1>5, <1>6

-----------------------------------------------------------------------------
(*****************************************************************************)
(* Rules and groups in order.                                                *)
(*****************************************************************************)
RuleTyped(r) == r.priority \in Int /\ r.ports \in Seq(PortRanges) /\ r.action \in {"allow", "deny"}

\* The fields of the rules of a list that matter here.
LEMMA RulesType ==
    ASSUME NEW s \in Seq(Rules)
    PROVE  DOMAIN s = 1..Len(s) /\ Len(s) \in Nat /\ \A k \in 1..Len(s) : s[k] \in Rules /\ RuleTyped(s[k])
<1>1. \A r \in Rules : RuleTyped(r)
  BY DEF Rules, RuleTyped
<1> QED BY <1>1

\* A group's rules are taken by priority, those of one priority as they stand, each once.
LEMMA ByPriorityIs ==
    ASSUME NEW s \in Seq(Rules)
    PROVE  /\ ByPriority(s) \in [1..Len(s) -> 1..Len(s)]
           /\ \A i, j \in 1..Len(s) : i < j =>
                  \/ s[ByPriority(s)[i]].priority < s[ByPriority(s)[j]].priority
                  \/ /\ s[ByPriority(s)[i]].priority = s[ByPriority(s)[j]].priority
                     /\ ByPriority(s)[i] < ByPriority(s)[j]
           /\ \A k \in 1..Len(s) : \E i \in 1..Len(s) : ByPriority(s)[i] = k
<1>0. PICK N \in Nat : N = Len(s) /\ DOMAIN s = 1..N
  OBVIOUS
<1> DEFINE S == 1..N
           Earlier(i, j) == s[i].priority < s[j].priority \/ (s[i].priority = s[j].priority /\ i < j)
           R == {p \in S \X S : Earlier(p[1], p[2])}
           b == ByPriority(s)
<1>1. IsFiniteSet(S) /\ Cardinality(S) = N
  BY Numbers
<1>2. \A x, y \in S : <<x, y>> \in R <=> Earlier(x, y)
  OBVIOUS
<1>3. \A i \in S : s[i].priority \in Int /\ i \in Nat
  <2>1. \A i \in 1..N : s[i].priority \in Int
    BY <1>0, RulesType DEF RuleTyped
  <2> QED BY <2>1
<1>4. Orders(R, S) /\ \A x \in S : <<x, x>> \notin R
  <2>1. \A x, y \in S : x # y => Earlier(x, y) \/ Earlier(y, x)
    BY <1>3
  <2>2. \A x, y, z \in S : Earlier(x, y) /\ Earlier(y, z) => Earlier(x, z)
    BY <1>3
  <2>3. \A x \in S : ~Earlier(x, x)
    BY <1>3
  <2> HIDE DEF R, S, Earlier
  <2> QED BY <1>2, <2>1, <2>2, <2>3 DEF Orders
<1>5. PICK t \in [1..N -> S] : InOrder(t, N, R)
  <2> HIDE DEF R, S
  <2> QED BY <1>1, <1>4, CanBeArranged
<1> HIDE DEF R, S
<1>6. \A i, j \in 1..N : i < j => Earlier(t[i], t[j])
  BY <1>2, <1>5 DEF InOrder
<1>7. b \in [1..N -> S] /\ \A i, j \in 1..N : i < j => Earlier(b[i], b[j])
  <2>1. DOMAIN s = S /\ Cardinality(DOMAIN s) = N
    BY <1>0, <1>1 DEF S
  <2>2. /\ t \in [1..Cardinality(DOMAIN s) -> DOMAIN s]
        /\ \A i, j \in 1..Cardinality(DOMAIN s) : i < j => Earlier(t[i], t[j])
    BY <1>5, <1>6, <2>1
  <2>3. /\ b \in [1..Cardinality(DOMAIN s) -> DOMAIN s]
        /\ \A i, j \in 1..Cardinality(DOMAIN s) : i < j => Earlier(b[i], b[j])
    BY <2>2, ZenonT(60) DEF ByPriority, Arranged
  <2> HIDE DEF b, Earlier
  <2> QED BY <2>1, <2>3
<1> HIDE DEF b, Earlier
<1>8. InOrder(b, N, R)
  BY <1>2, <1>7 DEF InOrder
<1>9. \A x \in S : \E i \in 1..N : b[i] = x
  BY <1>1, <1>4, <1>7, <1>8, ArrangedHasAll
<1> QED BY <1>0, <1>7, <1>9 DEF b, S, Earlier

\* Distinct IDs, which ValidConfig asks for.
Distinct(cfg) == \A i, j \in DOMAIN cfg.groups : i # j => cfg.groups[i].id # cfg.groups[j].id

GroupBefore(cfg, i, j) ==
    \/ cfg.groups[i].priority < cfg.groups[j].priority
    \/ cfg.groups[i].priority = cfg.groups[j].priority /\ cfg.groups[i].id < cfg.groups[j].id

\* The fields of the groups of a configuration.
LEMMA GroupsType ==
    ASSUME NEW cfg \in Configurations
    PROVE  /\ \A i \in DOMAIN cfg.groups : cfg.groups[i] \in Groups /\ cfg.groups[i].priority \in Int /\ cfg.groups[i].id \in Int
                                           /\ cfg.groups[i].rules \in Seq(Rules)
           /\ IsFiniteSet(DOMAIN cfg.groups)
<1>1. cfg.groups \in Seq(Groups)
  BY DEF Configurations
<1>2. \A g \in Groups : g.priority \in Int /\ g.id \in Int /\ g.rules \in Seq(Rules)
  BY DEF Groups
<1>3. DOMAIN cfg.groups = 1..Len(cfg.groups) /\ Len(cfg.groups) \in Nat
  BY <1>1
<1>4. IsFiniteSet(DOMAIN cfg.groups)
  BY <1>3, Numbers
<1> QED BY <1>1, <1>2, <1>4

\* A user's groups are taken by priority and ID, each once.
LEMMA GroupsInOrderIs ==
    ASSUME NEW cfg \in Configurations, Distinct(cfg), NEW ids
    PROVE  LET G == KnownGroups(ids, cfg)
               N == Cardinality(G)
               o == GroupsInOrder(ids, cfg)
           IN  /\ N \in Nat /\ G \subseteq DOMAIN cfg.groups /\ o \in [1..N -> G]
               /\ \A i, j \in 1..N : i < j => GroupBefore(cfg, o[i], o[j])
               /\ \A k \in G : \E i \in 1..N : o[i] = k
<1> DEFINE G == KnownGroups(ids, cfg)
           N == Cardinality(G)
           R == {p \in G \X G : GroupBefore(cfg, p[1], p[2])}
           o == GroupsInOrder(ids, cfg)
<1>1. IsFiniteSet(G) /\ N \in Nat /\ G \subseteq DOMAIN cfg.groups
  <2>1. G \subseteq DOMAIN cfg.groups
    BY DEF KnownGroups
  <2> QED BY <2>1, GroupsType, FS_Subset, FS_CardinalityType
<1> HIDE DEF G, N
<1>2. \A x, y \in G : <<x, y>> \in R <=> GroupBefore(cfg, x, y)
  OBVIOUS
<1>3. \A i \in G : cfg.groups[i].priority \in Int /\ cfg.groups[i].id \in Int
  BY <1>1, GroupsType
<1>4. Orders(R, G) /\ \A x \in G : <<x, x>> \notin R
  <2>1. \A x, y \in G : x # y => GroupBefore(cfg, x, y) \/ GroupBefore(cfg, y, x)
    BY <1>1, <1>3 DEF GroupBefore, Distinct
  <2>2. \A x, y, z \in G : GroupBefore(cfg, x, y) /\ GroupBefore(cfg, y, z) => GroupBefore(cfg, x, z)
    BY <1>3 DEF GroupBefore
  <2>3. \A x \in G : ~GroupBefore(cfg, x, x)
    BY <1>3 DEF GroupBefore
  <2> HIDE DEF R
  <2> QED BY <1>2, <2>1, <2>2, <2>3 DEF Orders
<1>5. PICK t \in [1..N -> G] : InOrder(t, N, R)
  <2> HIDE DEF R
  <2> QED BY <1>1, <1>4, CanBeArranged DEF N
<1> HIDE DEF R
<1>6. \A i, j \in 1..N : i < j => GroupBefore(cfg, t[i], t[j])
  BY <1>2, <1>5 DEF InOrder
<1>7. o \in [1..N -> G] /\ \A i, j \in 1..N : i < j => GroupBefore(cfg, o[i], o[j])
  <2>1. o = CHOOSE q \in [1..N -> G] : \A i, j \in 1..N : i < j => GroupBefore(cfg, q[i], q[j])
    BY DEF GroupsInOrder, Arranged, GroupBefore, N, G
  <2> HIDE DEF o
  <2> QED BY <1>5, <1>6, <2>1
<1> HIDE DEF o
<1>8. InOrder(o, N, R)
  BY <1>2, <1>7 DEF InOrder
<1>9. \A x \in G : \E i \in 1..N : o[i] = x
  BY <1>1, <1>4, <1>7, <1>8, ArrangedHasAll DEF N
<1> QED BY <1>1, <1>7, <1>9 DEF o, G, N

-----------------------------------------------------------------------------
(***************************************************************************)
(* One list after the other.                                               *)
(***************************************************************************)
Together(base, gs) == FoldLeft(LAMBDA s, g : s \o g.rules, base, gs)

Joined(s, g) == s \o g.rules

IsRulesFold(gs, base, g) ==
    g = [T \in SUBSET DOMAIN gs |-> IF T = {} THEN base ELSE Joined(g[T \ {Max(T)}], gs[Max(T)])]

\* The fold of a concatenation is a function of the lists concatenated so far.
LEMMA RulesUnfolded ==
    ASSUME NEW gs, NEW base, NEW g, IsRulesFold(gs, base, g)
    PROVE  \E h : IsRulesFold(gs, base, h) /\ Together(base, gs) = h[DOMAIN gs]
BY DEF IsRulesFold, Joined, Together, FoldLeft, MapThenFoldSet

JoinedInTurn(f, base, gs, N) == f[0] = base /\ \A n \in 1..N : f[n] = Joined(f[n - 1], gs[n])

\* BuildPolicy appends the rules of one group after the other.
LEMMA RulesInTurn ==
    ASSUME NEW base \in Seq(Rules), NEW N \in Nat, NEW gs, DOMAIN gs = 1..N, \A k \in 1..N : gs[k].rules \in Seq(Rules)
    PROVE  \E f \in [0..N -> Seq(Rules)] : JoinedInTurn(f, base, gs, N) /\ Together(base, gs) = f[N]
<1> DEFINE step == [p \in Seq(Rules) \X (1..N) |-> Joined(p[1], gs[p[2]])]
<1>0. \A a \in Seq(Rules), k \in 1..N : Joined(a, gs[k]) \in Seq(Rules)
  BY DEF Joined
<1>1. step \in [Seq(Rules) \X (1..N) -> Seq(Rules)]
  BY <1>0
<1>2. PICK g \in [SUBSET (1..N) -> Seq(Rules)] : Folds(g, N, base, step)
  <2> HIDE DEF step
  <2> QED BY <1>1, FoldDefined
<1>3. IsRulesFold(gs, base, g)
  <2>1. ASSUME NEW T \in SUBSET (1..N)
        PROVE  g[T] = IF T = {} THEN base ELSE Joined(g[T \ {Max(T)}], gs[Max(T)])
    <3>1. CASE T = {}
      BY <1>2, <3>1 DEF Folds
    <3>2. CASE T # {}
      <4>1. Max(T) \in 1..N /\ g[T \ {Max(T)}] \in Seq(Rules)
        BY <3>2, MaxOfSome
      <4>2. g[T] = step[<<g[T \ {Max(T)}], Max(T)>>]
        BY <1>2, <3>2 DEF Folds
      <4> QED BY <3>2, <4>1, <4>2
    <3> QED BY <3>1, <3>2
  <2> HIDE DEF step
  <2>2. g = [T \in SUBSET (1..N) |-> g[T]]
    BY <1>2
  <2> QED BY <2>1, <2>2 DEF IsRulesFold
<1>4. PICK h : IsRulesFold(gs, base, h) /\ Together(base, gs) = h[DOMAIN gs]
  BY <1>3, RulesUnfolded
<1> DEFINE f == [n \in 0..N |-> h[1..n]]
<1>5. h[1..0] = base
  BY <1>4 DEF IsRulesFold
<1>6. ASSUME NEW n \in 1..N PROVE h[1..n] = Joined(h[1..(n - 1)], gs[n])
  <2>1. 1..n \in SUBSET (1..N) /\ 1..n # {} /\ Max(1..n) = n /\ (1..n) \ {Max(1..n)} = 1..(n - 1)
    BY FirstNumbers
  <2>2. h[1..n] = Joined(h[(1..n) \ {Max(1..n)}], gs[Max(1..n)])
    BY <1>4, <2>1 DEF IsRulesFold
  <2> QED BY <2>1, <2>2
<1>7. \A n \in 0..N : n \in {k \in 0..N : h[1..k] \in Seq(Rules)}
  <2> DEFINE F == {k \in 0..N : h[1..k] \in Seq(Rules)}
  <2>1. 0 \in F
    BY <1>5
  <2>2. ASSUME NEW n \in 0..N, n \in F, n < N PROVE n + 1 \in F
    <3>1. n + 1 \in 1..N /\ (n + 1) - 1 = n
      BY <2>2
    <3>2. h[1..(n + 1)] = Joined(h[1..n], gs[n + 1])
      BY <1>6, <3>1
    <3>3. h[1..(n + 1)] \in Seq(Rules)
      <4>1. h[1..n] \in Seq(Rules)
        BY <2>2
      <4>2. Joined(h[1..n], gs[n + 1]) \in Seq(Rules)
        BY <1>0, <3>1, <4>1
      <4> QED BY <3>2, <4>2
    <3> QED BY <3>1, <3>3
  <2> HIDE DEF F
  <2>3. \A n \in 0..N : n \in F
    BY <2>1, <2>2, UpTo
  <2> QED BY <2>3 DEF F
<1>8. f \in [0..N -> Seq(Rules)]
  BY <1>7
<1>9. f[0] = base /\ \A n \in 1..N : f[n] = Joined(f[n - 1], gs[n])
  BY <1>5, <1>6
<1>10. Together(base, gs) = f[N]
  BY <1>4
<1> HIDE DEF f
<1>11. JoinedInTurn(f, base, gs, N)
  BY <1>9 DEF JoinedInTurn
<1> QED BY <1>8, <1>10, <1>11

-----------------------------------------------------------------------------
(***************************************************************************)
(* The order in which rules are written.                                   *)
(***************************************************************************)
\* Keys compare like words.
LEMMA KeysCompare ==
    ASSUME NEW a \in Int, NEW b \in Int, NEW c \in Int, NEW d \in Int,
           NEW e \in Int, NEW f \in Int, NEW g \in Int, NEW h \in Int
    PROVE  KeyBefore(<<a, b, c, d>>, <<e, f, g, h>>) <=>
               a < e \/ (a = e /\ b < f) \/ (a = e /\ b = f /\ c < g) \/ (a = e /\ b = f /\ c = g /\ d < h)
<1> DEFINE x == <<a, b, c, d>>
           y == <<e, f, g, h>>
           At(n) == x[n] < y[n] /\ \A m \in 1..(n - 1) : x[m] = y[m]
<1>1. x[1] = a /\ x[2] = b /\ x[3] = c /\ x[4] = d /\ y[1] = e /\ y[2] = f /\ y[3] = g /\ y[4] = h
  OBVIOUS
<1> HIDE DEF x, y
<1>2. KeyBefore(x, y) <=> At(1) \/ At(2) \/ At(3) \/ At(4)
  <2>1. \A n : n \in 1..4 <=> n = 1 \/ n = 2 \/ n = 3 \/ n = 4
    OBVIOUS
  <2>2. KeyBefore(x, y) <=> \E n \in 1..4 : At(n)
    BY DEF KeyBefore
  <2> HIDE DEF At
  <2> QED BY <2>1, <2>2
<1>3. \A n \in 2..4 : (\A m \in 1..(n - 1) : x[m] = y[m]) <=> (x[1] = y[1] /\ (n > 2 => x[2] = y[2]) /\ (n > 3 => x[3] = y[3]))
  OBVIOUS
<1>4. /\ At(1) <=> a < e
      /\ At(2) <=> a = e /\ b < f
      /\ At(3) <=> a = e /\ b = f /\ c < g
      /\ At(4) <=> a = e /\ b = f /\ c = g /\ d < h
  BY <1>1, <1>3
<1> HIDE DEF At
<1> QED BY <1>2, <1>4 DEF x, y

\* A written rule is a place in a group.
LEMMA WrittenRulesAre ==
    ASSUME NEW cfg, NEW G
    PROVE  \A ik : ik \in WrittenRules(cfg, G) <=> \E i \in G : \E k \in DOMAIN cfg.groups[i].rules : ik = <<i, k>>
<1>1. ASSUME NEW i \in G, NEW ik
      PROVE  ik \in {i} \X DOMAIN cfg.groups[i].rules <=> \E k \in DOMAIN cfg.groups[i].rules : ik = <<i, k>>
  OBVIOUS
<1>2. \A ik : ik \in WrittenRules(cfg, G) <=> \E i \in G : ik \in {i} \X DOMAIN cfg.groups[i].rules
  BY DEF WrittenRules
<1> QED BY <1>1, <1>2

SameGroup(cfg, i, j) ==
    cfg.groups[i].priority = cfg.groups[j].priority /\ cfg.groups[i].id = cfg.groups[j].id

KeysOrdered(cfg, ik, jk) ==
    \/ GroupBefore(cfg, ik[1], jk[1])
    \/ /\ SameGroup(cfg, ik[1], jk[1])
       /\ \/ Rule(cfg, ik).priority < Rule(cfg, jk).priority
          \/ Rule(cfg, ik).priority = Rule(cfg, jk).priority /\ ik[2] < jk[2]

\* The rule at a written place.
LEMMA RuleIs ==
    ASSUME NEW cfg \in Configurations, NEW ik \in WrittenRules(cfg, DOMAIN cfg.groups)
    PROVE  /\ ik[1] \in DOMAIN cfg.groups /\ ik[2] \in DOMAIN cfg.groups[ik[1]].rules /\ ik = <<ik[1], ik[2]>>
           /\ ik[2] \in Nat /\ Rule(cfg, ik) \in Rules /\ RuleTyped(Rule(cfg, ik))
<1>1. PICK i \in DOMAIN cfg.groups : \E k \in DOMAIN cfg.groups[i].rules : ik = <<i, k>>
  BY WrittenRulesAre
<1>2. PICK k \in DOMAIN cfg.groups[i].rules : ik = <<i, k>>
  BY <1>1
<1>3. cfg.groups[i].rules \in Seq(Rules)
  BY GroupsType
<1>4. k \in Nat /\ cfg.groups[i].rules[k] \in Rules /\ RuleTyped(cfg.groups[i].rules[k])
  <2>1. PICK t \in Seq(Rules) : t = cfg.groups[i].rules
    BY <1>3
  <2>2. DOMAIN t = 1..Len(t) /\ Len(t) \in Nat /\ \A n \in 1..Len(t) : t[n] \in Rules /\ RuleTyped(t[n])
    BY RulesType
  <2> QED BY <1>2, <2>1, <2>2
<1> QED BY <1>2, <1>4 DEF Rule

\* The keys of two rules: their groups, their priorities, their places.
LEMMA KeysAre ==
    ASSUME NEW cfg \in Configurations,
           NEW ik \in WrittenRules(cfg, DOMAIN cfg.groups), NEW jk \in WrittenRules(cfg, DOMAIN cfg.groups)
    PROVE  KeyBefore(Key(cfg, ik), Key(cfg, jk)) <=> KeysOrdered(cfg, ik, jk)
<1>1. /\ ik[1] \in DOMAIN cfg.groups /\ ik[2] \in Nat /\ RuleTyped(Rule(cfg, ik))
      /\ jk[1] \in DOMAIN cfg.groups /\ jk[2] \in Nat /\ RuleTyped(Rule(cfg, jk))
  BY RuleIs
<1>2. /\ cfg.groups[ik[1]].priority \in Int /\ cfg.groups[ik[1]].id \in Int
      /\ cfg.groups[jk[1]].priority \in Int /\ cfg.groups[jk[1]].id \in Int
  BY <1>1, GroupsType
<1>3. /\ Key(cfg, ik) = <<cfg.groups[ik[1]].priority, cfg.groups[ik[1]].id, Rule(cfg, ik).priority, ik[2]>>
      /\ Key(cfg, jk) = <<cfg.groups[jk[1]].priority, cfg.groups[jk[1]].id, Rule(cfg, jk).priority, jk[2]>>
  BY DEF Key, Rule
<1>4. Rule(cfg, ik).priority \in Int /\ Rule(cfg, jk).priority \in Int /\ ik[2] \in Int /\ jk[2] \in Int
  BY <1>1 DEF RuleTyped
<1> DEFINE Before4(a, b, c, d, e, f, g, h) ==
               a < e \/ (a = e /\ b < f) \/ (a = e /\ b = f /\ c < g) \/ (a = e /\ b = f /\ c = g /\ d < h)
<1>5. \A a, b, c, d, e, f, g, h \in Int : KeyBefore(<<a, b, c, d>>, <<e, f, g, h>>) <=> Before4(a, b, c, d, e, f, g, h)
  BY KeysCompare
<1> HIDE DEF Before4
<1>6. KeyBefore(Key(cfg, ik), Key(cfg, jk)) <=>
          Before4(cfg.groups[ik[1]].priority, cfg.groups[ik[1]].id, Rule(cfg, ik).priority, ik[2],
                  cfg.groups[jk[1]].priority, cfg.groups[jk[1]].id, Rule(cfg, jk).priority, jk[2])
  <2>1. KeyBefore(<<cfg.groups[ik[1]].priority, cfg.groups[ik[1]].id, Rule(cfg, ik).priority, ik[2]>>,
                  <<cfg.groups[jk[1]].priority, cfg.groups[jk[1]].id, Rule(cfg, jk).priority, jk[2]>>) <=>
            Before4(cfg.groups[ik[1]].priority, cfg.groups[ik[1]].id, Rule(cfg, ik).priority, ik[2],
                    cfg.groups[jk[1]].priority, cfg.groups[jk[1]].id, Rule(cfg, jk).priority, jk[2])
    BY <1>2, <1>4, <1>5, Zenon
  <2> QED BY <1>3, <2>1, Zenon
<1> QED BY <1>6 DEF Before4, KeysOrdered, GroupBefore, SameGroup

\* Of two rules only one comes first.
LEMMA KeysDiffer ==
    ASSUME NEW cfg \in Configurations,
           NEW ik \in WrittenRules(cfg, DOMAIN cfg.groups), NEW jk \in WrittenRules(cfg, DOMAIN cfg.groups),
           KeyBefore(Key(cfg, ik), Key(cfg, jk))
    PROVE  ~KeyBefore(Key(cfg, jk), Key(cfg, ik))
<1>1. /\ ik[1] \in DOMAIN cfg.groups /\ ik[2] \in Nat /\ RuleTyped(Rule(cfg, ik))
      /\ jk[1] \in DOMAIN cfg.groups /\ jk[2] \in Nat /\ RuleTyped(Rule(cfg, jk))
  BY RuleIs
<1>2. /\ cfg.groups[ik[1]].priority \in Int /\ cfg.groups[ik[1]].id \in Int
      /\ cfg.groups[jk[1]].priority \in Int /\ cfg.groups[jk[1]].id \in Int
  BY <1>1, GroupsType
<1>3. KeysOrdered(cfg, ik, jk)
  BY KeysAre
<1>4. ~KeysOrdered(cfg, jk, ik)
  BY <1>1, <1>2, <1>3, SMTT(30) DEF KeysOrdered, GroupBefore, SameGroup, RuleTyped
<1> QED BY <1>4, KeysAre

-----------------------------------------------------------------------------
(***************************************************************************)
(* Compiled rules, of a group and of several.                              *)
(***************************************************************************)
SanePorts(r) == \A k \in DOMAIN r.ports : Sane(r.ports[k])

\* Compiling a rule changes its ports only.
LEMMA CompileRuleIs ==
    ASSUME NEW r \in Rules, SanePorts(r)
    PROVE  /\ CompileRule(r) \in Rules
           /\ CompileRule(r).action = r.action /\ CompileRule(r).cidrs = r.cidrs /\ CompileRule(r).names = r.names
           /\ CompileRule(r).resolved = r.resolved /\ CompileRule(r).protos = r.protos
           /\ CompileRule(r).ports = CompilePorts(r.ports)
<1>1. r.ports \in Seq(PortRanges)
  BY DEF Rules
<1>2. CompilePorts(r.ports) \in Seq(PortRanges)
  BY <1>1, PortsCompiled DEF SanePorts
<1> DEFINE ports == CompilePorts(r.ports)
<1>3. CompileRule(r) = [r EXCEPT !.ports = ports]
  BY DEF CompileRule
<1> HIDE DEF ports
<1>4. [r EXCEPT !.ports = ports] \in Rules
  BY <1>2 DEF Rules, ports
<1> QED BY <1>3, <1>4 DEF Rules, ports

\* Compiling a group compiles its rules and puts them in order.
LEMMA CompileGroupIs ==
    ASSUME NEW g \in Groups, \A k \in DOMAIN g.rules : SanePorts(g.rules[k])
    PROVE  /\ CompileGroup(g).def = g.def /\ CompileGroup(g).rules \in Seq(Rules)
           /\ Len(CompileGroup(g).rules) = Len(g.rules)
           /\ \A k \in 1..Len(g.rules) : CompileGroup(g).rules[k] = CompileRule(g.rules[ByPriority(g.rules)[k]])
<1>0. g.rules \in Seq(Rules)
  BY DEF Groups
<1>1. PICK N \in Nat : N = Len(g.rules) /\ DOMAIN g.rules = 1..N
  BY <1>0
<1>2. ByPriority(g.rules) \in [1..N -> 1..N]
  BY <1>0, <1>1, ByPriorityIs
<1> DEFINE rules == [k \in 1..N |-> CompileRule(g.rules[ByPriority(g.rules)[k]])]
<1>3. \A k \in 1..N : CompileRule(g.rules[ByPriority(g.rules)[k]]) \in Rules
  <2>1. ASSUME NEW k \in 1..N PROVE CompileRule(g.rules[ByPriority(g.rules)[k]]) \in Rules
    <3>1. ByPriority(g.rules)[k] \in 1..N
      BY <1>2
    <3>2. g.rules[ByPriority(g.rules)[k]] \in Rules /\ SanePorts(g.rules[ByPriority(g.rules)[k]])
      BY <1>0, <1>1, <3>1
    <3> QED BY <3>2, CompileRuleIs
  <2> QED BY <2>1
<1>4. rules \in Seq(Rules) /\ Len(rules) = N
  <2>1. rules \in [1..N -> Rules]
    BY <1>3
  <2> HIDE DEF rules
  <2> QED BY <2>1
<1>5. CompileGroup(g) = [g EXCEPT !.rules = rules]
  BY <1>1 DEF CompileGroup
<1>6. \A k \in 1..N : rules[k] = CompileRule(g.rules[ByPriority(g.rules)[k]])
  OBVIOUS
<1> HIDE DEF rules
<1>7. CompileGroup(g).def = g.def /\ CompileGroup(g).rules = rules
  BY <1>5 DEF Groups
<1> QED BY <1>1, <1>4, <1>6, <1>7

\* The first L of a list of rules are others; then come those of some groups in order.
Lists(cfg, G, L, s, K, w) ==
    /\ K \in Nat /\ w \in [1..K -> WrittenRules(cfg, G)]
    /\ Len(s) = L + K
    /\ \A j \in 1..K : s[L + j] = CompileRule(Rule(cfg, w[j]))
    /\ \A i, j \in 1..K : i < j => KeysOrdered(cfg, w[i], w[j])
    /\ \A ik \in WrittenRules(cfg, G) : \E j \in 1..K : w[j] = ik

SaneRules(cfg) == \A i \in DOMAIN cfg.groups : \A k \in DOMAIN cfg.groups[i].rules : SanePorts(cfg.groups[i].rules[k])

\* Appending the rules of a later group keeps the list in the order written.
LEMMA OneGroupMore ==
    ASSUME NEW cfg \in Configurations, SaneRules(cfg), NEW G \in SUBSET DOMAIN cfg.groups,
           NEW i \in DOMAIN cfg.groups, \A g \in G : GroupBefore(cfg, g, i),
           NEW L \in Nat, NEW s \in Seq(Rules), NEW K, NEW w, Lists(cfg, G, L, s, K, w)
    PROVE  /\ \E K2, w2 : Lists(cfg, G \union {i}, L, Joined(s, CompileGroup(cfg.groups[i])), K2, w2)
           /\ \A j \in 1..L : Joined(s, CompileGroup(cfg.groups[i]))[j] = s[j]
           /\ Joined(s, CompileGroup(cfg.groups[i])) \in Seq(Rules)
<1> DEFINE t == cfg.groups[i].rules
           c == CompileGroup(cfg.groups[i]).rules
           b == ByPriority(t)
           M == Len(t)
           n == Joined(s, CompileGroup(cfg.groups[i]))
           v == [j \in 1..(K + M) |-> IF j <= K THEN w[j] ELSE <<i, b[j - K]>>]
           W == WrittenRules(cfg, G)
           W2 == WrittenRules(cfg, G \union {i})
<1>1. /\ cfg.groups[i] \in Groups /\ t \in Seq(Rules) /\ M \in Nat /\ DOMAIN t = 1..M
      /\ \A k \in 1..M : RuleTyped(t[k])
  <2>1. cfg.groups[i] \in Groups /\ t \in Seq(Rules)
    BY GroupsType
  <2> HIDE DEF t
  <2> QED BY <2>1, RulesType
<1>2. /\ c \in Seq(Rules) /\ Len(c) = M
      /\ \A k \in 1..M : c[k] = CompileRule(t[b[k]])
  <2>1. \A k \in DOMAIN cfg.groups[i].rules : SanePorts(cfg.groups[i].rules[k])
    BY DEF SaneRules
  <2> QED BY <1>1, <2>1, CompileGroupIs
<1>3. /\ b \in [1..M -> 1..M]
      /\ \A j, k \in 1..M : j < k => t[b[j]].priority < t[b[k]].priority \/ (t[b[j]].priority = t[b[k]].priority /\ b[j] < b[k])
      /\ \A k \in 1..M : \E j \in 1..M : b[j] = k
  <2> HIDE DEF t
  <2> QED BY <1>1, ByPriorityIs
<1>4. n = s \o c
  BY DEF Joined
<1> HIDE DEF t, c, b, M, n
<1>5. /\ K \in Nat /\ w \in [1..K -> W] /\ Len(s) = L + K
      /\ \A j \in 1..K : s[L + j] = CompileRule(Rule(cfg, w[j]))
      /\ \A x, y \in 1..K : x < y => KeysOrdered(cfg, w[x], w[y])
      /\ \A ik \in W : \E j \in 1..K : w[j] = ik
  BY DEF Lists
<1>6. /\ n \in Seq(Rules) /\ Len(n) = L + (K + M)
      /\ \A j \in 1..(L + K) : n[j] = s[j]
      /\ \A k \in 1..M : n[L + K + k] = c[k]
  <2>1. \A a, x \in Seq(Rules) : /\ a \o x \in Seq(Rules) /\ Len(a \o x) = Len(a) + Len(x)
                                 /\ \A j \in 1..Len(a) : (a \o x)[j] = a[j]
                                 /\ \A k \in 1..Len(x) : (a \o x)[Len(a) + k] = x[k]
    OBVIOUS
  <2>2. /\ n \in Seq(Rules) /\ Len(n) = Len(s) + Len(c)
        /\ \A j \in 1..Len(s) : n[j] = s[j]
        /\ \A k \in 1..Len(c) : n[Len(s) + k] = c[k]
    BY <1>2, <1>4, <2>1
  <2>3. L + K + M = L + (K + M)
    BY <1>1, <1>5
  <2> QED BY <1>2, <1>5, <2>2, <2>3
<1>7. \A ik : ik \in W2 <=> ik \in W \/ \E k \in 1..M : ik = <<i, k>>
  BY <1>1, WrittenRulesAre DEF t
<1>8. /\ v \in [1..(K + M) -> W2]
      /\ \A j \in 1..K : v[j] = w[j]
      /\ \A k \in 1..M : v[K + k] = <<i, b[k]>>
  <2>1. ASSUME NEW j \in 1..(K + M) PROVE (IF j <= K THEN w[j] ELSE <<i, b[j - K]>>) \in W2
    <3>1. CASE j <= K
      <4>1. w[j] \in W
        BY <1>5, <3>1
      <4> QED BY <1>7, <3>1, <4>1
    <3>2. CASE j > K
      <4>1. j - K \in 1..M
        BY <1>1, <1>5, <3>2
      <4>2. b[j - K] \in 1..M
        BY <1>3, <4>1
      <4>3. <<i, b[j - K]>> \in W2
        BY <1>7, <4>2
      <4>4. ~(j <= K)
        BY <1>5, <3>2
      <4> QED BY <4>3, <4>4
    <3> QED BY <1>5, <3>1, <3>2
  <2> HIDE DEF W2
  <2>2. v \in [1..(K + M) -> W2]
    BY <2>1
  <2>3. \A j \in 1..K : v[j] = w[j]
    BY <1>1, <1>5
  <2>4. \A k \in 1..M : v[K + k] = <<i, b[k]>>
    BY <1>1, <1>5
  <2> QED BY <2>2, <2>3, <2>4
<1> HIDE DEF v
<1>9. \A j \in 1..(K + M) : j \in 1..K \/ \E k \in 1..M : j = K + k
  <2>1. ASSUME NEW j \in 1..(K + M), j \notin 1..K PROVE j - K \in 1..M /\ j = K + (j - K)
    BY <1>1, <1>5, <2>1
  <2> QED BY <2>1
<1>10. ASSUME NEW j \in 1..(K + M) PROVE n[L + j] = CompileRule(Rule(cfg, v[j]))
  <2>1. CASE j \in 1..K
    <3>1. L + j \in 1..(L + K)
      BY <1>5, <2>1
    <3> QED BY <1>5, <1>6, <1>8, <2>1, <3>1
  <2>2. ASSUME NEW k \in 1..M, j = K + k PROVE n[L + j] = CompileRule(Rule(cfg, v[j]))
    <3>1. L + j = L + K + k
      BY <1>5, <2>2
    <3>2. Rule(cfg, <<i, b[k]>>) = t[b[k]]
      BY DEF Rule, t
    <3>3. v[j] = <<i, b[k]>>
      BY <1>8, <2>2
    <3>4. n[L + j] = CompileRule(t[b[k]])
      BY <1>2, <1>6, <2>2, <3>1
    <3> QED BY <3>2, <3>3, <3>4
  <2> QED BY <1>9, <2>1, <2>2
<1>11. ASSUME NEW x \in 1..(K + M), NEW y \in 1..(K + M), x < y PROVE KeysOrdered(cfg, v[x], v[y])
  <2>1. CASE x \in 1..K /\ y \in 1..K
    BY <1>5, <1>8, <1>11, <2>1
  <2>2. ASSUME x \in 1..K, NEW k \in 1..M, y = K + k PROVE KeysOrdered(cfg, v[x], v[y])
    <3>1. w[x] \in W
      BY <1>5, <2>2
    <3>2. w[x][1] \in G
      BY <3>1, WrittenRulesAre
    <3>3. v[x] = w[x] /\ v[y] = <<i, b[k]>>
      BY <1>8, <2>2
    <3>4. v[y][1] = i
      BY <3>3
    <3> QED BY <3>2, <3>3, <3>4 DEF KeysOrdered
  <2>3. ASSUME NEW j \in 1..M, x = K + j, NEW k \in 1..M, y = K + k PROVE KeysOrdered(cfg, v[x], v[y])
    <3>1. v[x] = <<i, b[j]>> /\ v[y] = <<i, b[k]>> /\ j < k
      BY <1>5, <1>8, <1>11, <2>3
    <3>2. v[x][1] = i /\ v[y][1] = i /\ v[x][2] = b[j] /\ v[y][2] = b[k]
      BY <3>1
    <3>3. Rule(cfg, v[x]) = t[b[j]] /\ Rule(cfg, v[y]) = t[b[k]]
      BY <3>2 DEF Rule, t
    <3>4. SameGroup(cfg, v[x][1], v[y][1])
      BY <3>2 DEF SameGroup
    <3>5. t[b[j]].priority < t[b[k]].priority \/ (t[b[j]].priority = t[b[k]].priority /\ b[j] < b[k])
      BY <1>3, <3>1
    <3> QED BY <3>2, <3>3, <3>4, <3>5 DEF KeysOrdered
  <2>4. ASSUME NEW k \in 1..M, x = K + k, y \in 1..K PROVE FALSE
    BY <1>5, <1>11, <2>4
  <2> QED BY <1>9, <2>1, <2>2, <2>3, <2>4
<1>12. ASSUME NEW ik \in W2 PROVE \E j \in 1..(K + M) : v[j] = ik
  <2>1. CASE ik \in W
    <3>1. PICK j \in 1..K : w[j] = ik
      BY <1>5, <2>1
    <3>2. j \in 1..(K + M)
      BY <1>1, <1>5
    <3> QED BY <1>8, <3>1, <3>2
  <2>2. ASSUME NEW k \in 1..M, ik = <<i, k>> PROVE \E j \in 1..(K + M) : v[j] = ik
    <3>1. PICK j \in 1..M : b[j] = k
      BY <1>3
    <3>2. K + j \in 1..(K + M)
      BY <1>1, <1>5
    <3> QED BY <1>8, <2>2, <3>1, <3>2
  <2> QED BY <1>7, <2>1, <2>2
<1>13. Lists(cfg, G \union {i}, L, n, K + M, v)
  <2>1. K + M \in Nat
    BY <1>1, <1>5
  <2> QED BY <1>6, <1>8, <1>10, <1>11, <1>12, <2>1 DEF Lists
<1>14. \A j \in 1..L : n[j] = s[j]
  <2>1. \A j \in 1..L : j \in 1..(L + K)
    BY <1>5
  <2> QED BY <1>6, <2>1
<1> QED BY <1>6, <1>13, <1>14 DEF n

-----------------------------------------------------------------------------
(***************************************************************************)
(* A policy: the name service, then the rules of the groups in order.      *)
(***************************************************************************)
OrderedGroups(ids, cfg) ==
    [k \in 1..Cardinality(KnownGroups(ids, cfg)) |-> CompileGroup(cfg.groups[GroupsInOrder(ids, cfg)[k]])]

DNSFirst(cfg, def) == IF def = "deny" /\ cfg.dns THEN <<DNSRule>> ELSE <<>>

SpeakingPlaces(gs) == {i \in 1..Len(gs) : gs[i].def # ""}

DefaultOf(cfg, gs) == IF SpeakingPlaces(gs) = {} THEN cfg.def ELSE gs[Min(SpeakingPlaces(gs))].def

\* The first group that has a default.
LEMMA SpeakingIs ==
    ASSUME NEW gs
    PROVE  SelectInSeq(gs, LAMBDA g : g.def # "") = IF SpeakingPlaces(gs) # {} THEN Min(SpeakingPlaces(gs)) ELSE 0
BY DEF SelectInSeq, SpeakingPlaces

\* The three fields of a policy.
LEMMA PolicyIs ==
    ASSUME NEW ids, NEW cfg
    PROVE  LET gs       == OrderedGroups(ids, cfg)
               speaking == SelectInSeq(gs, LAMBDA g : g.def # "")
               def      == IF speaking = 0 THEN cfg.def ELSE gs[speaking].def
           IN  BuildPolicy(ids, cfg) =
                   [rules |-> Together(DNSFirst(cfg, def), gs), def |-> def, dry |-> cfg.mode = "dryrun"]
BY DEF BuildPolicy, Together, OrderedGroups, DNSFirst

\* The rule for the name service is a rule.
LEMMA DNSRuleIs == DNSRule \in Rules /\ DNSPort \in 0..MaxPort /\ DNSPort \in Nat
<1>1. DNSPort \in 0..MaxPort /\ DNSPort \in Nat
  BY AclConstants
<1> DEFINE r == [lo |-> DNSPort, hi |-> DNSPort]
<1>2. r \in PortRanges
  BY <1>1 DEF PortRanges
<1> HIDE DEF r
<1>3. <<r>> \in Seq(PortRanges)
  BY <1>2
<1> DEFINE ports == <<r>>
<1> HIDE DEF ports
<1>4. [action |-> "allow", priority |-> 0, cidrs |-> {}, names |-> {}, resolved |-> FALSE,
       ports |-> ports, protos |-> {}] \in Rules
  BY <1>3 DEF Rules, ports
<1> QED BY <1>1, <1>4 DEF DNSRule, ports, r

\* Before the rules of the groups there is at most that of the name service.
LEMMA DNSFirstIs ==
    ASSUME NEW cfg, NEW def
    PROVE  /\ DNSFirst(cfg, def) \in Seq(Rules)
           /\ Len(DNSFirst(cfg, def)) = IF def = "deny" /\ cfg.dns THEN 1 ELSE 0
           /\ \A j \in 1..Len(DNSFirst(cfg, def)) : DNSFirst(cfg, def)[j] = DNSRule
<1>1. <<DNSRule>> \in Seq(Rules) /\ <<>> \in Seq(Rules)
  BY DNSRuleIs
<1> QED BY <1>1 DEF DNSFirst

\* The groups of a policy are the compiled groups of the user in order.
LEMMA OrderedGroupsAre ==
    ASSUME NEW cfg \in Configurations, Distinct(cfg), SaneRules(cfg), NEW ids
    PROVE  LET N  == Cardinality(KnownGroups(ids, cfg))
               gs == OrderedGroups(ids, cfg)
               o  == GroupsInOrder(ids, cfg)
           IN  /\ N \in Nat /\ DOMAIN gs = 1..N /\ Len(gs) = N
               /\ \A k \in 1..N : /\ gs[k] = CompileGroup(cfg.groups[o[k]]) /\ o[k] \in DOMAIN cfg.groups
                                  /\ gs[k].rules \in Seq(Rules) /\ gs[k].def = cfg.groups[o[k]].def
<1>0. PICK N \in Nat : N = Cardinality(KnownGroups(ids, cfg))
  BY GroupsInOrderIs
<1>1. PICK o : N = Cardinality(KnownGroups(ids, cfg)) /\ o = GroupsInOrder(ids, cfg) /\ o \in [1..N -> DOMAIN cfg.groups]
  <2>1. \A G \in SUBSET DOMAIN cfg.groups, n \in Nat : \A q \in [1..n -> G] : q \in [1..n -> DOMAIN cfg.groups]
    OBVIOUS
  <2> QED BY <1>0, <2>1, GroupsInOrderIs
<1> DEFINE gs == [k \in 1..N |-> CompileGroup(cfg.groups[o[k]])]
<1>2. OrderedGroups(ids, cfg) = gs
  BY <1>1 DEF OrderedGroups
<1>3. DOMAIN gs = 1..N /\ Len(gs) = N /\ \A k \in 1..N : gs[k] = CompileGroup(cfg.groups[o[k]])
  OBVIOUS
<1> HIDE DEF gs
<1>4. ASSUME NEW k \in 1..N
      PROVE  /\ o[k] \in DOMAIN cfg.groups
             /\ CompileGroup(cfg.groups[o[k]]).rules \in Seq(Rules)
             /\ CompileGroup(cfg.groups[o[k]]).def = cfg.groups[o[k]].def
  <2>1. o[k] \in DOMAIN cfg.groups
    BY <1>1
  <2>2. cfg.groups[o[k]] \in Groups
    BY <2>1, GroupsType
  <2>3. \A n \in DOMAIN cfg.groups[o[k]].rules : SanePorts(cfg.groups[o[k]].rules[n])
    BY <2>1 DEF SaneRules
  <2> QED BY <2>1, <2>2, <2>3, CompileGroupIs
<1> QED BY <1>1, <1>2, <1>3, <1>4

\* A policy lists the rules of all groups of the user in the order written.
LEMMA PolicyLists ==
    ASSUME NEW cfg \in Configurations, Distinct(cfg), SaneRules(cfg), NEW ids, NEW base \in Seq(Rules)
    PROVE  LET s == Together(base, OrderedGroups(ids, cfg))
           IN  /\ s \in Seq(Rules)
               /\ \E K, w : Lists(cfg, KnownGroups(ids, cfg), Len(base), s, K, w)
               /\ \A j \in 1..Len(base) : s[j] = base[j]
<1> DEFINE L  == Len(base)
<1>0. PICK gs : gs = OrderedGroups(ids, cfg)
  OBVIOUS
<1>1. PICK N \in Nat : N = Cardinality(KnownGroups(ids, cfg))
  BY GroupsInOrderIs
<1>2. PICK o : N = Cardinality(KnownGroups(ids, cfg)) /\ o = GroupsInOrder(ids, cfg) /\ N \in Nat
  BY <1>1
<1>3. /\ o \in [1..N -> KnownGroups(ids, cfg)] /\ KnownGroups(ids, cfg) \subseteq DOMAIN cfg.groups
      /\ \A i, j \in 1..N : i < j => GroupBefore(cfg, o[i], o[j])
      /\ \A k \in KnownGroups(ids, cfg) : \E i \in 1..N : o[i] = k
  BY <1>2, GroupsInOrderIs
<1>4. /\ DOMAIN gs = 1..N
      /\ \A k \in 1..N : gs[k] = CompileGroup(cfg.groups[o[k]]) /\ o[k] \in DOMAIN cfg.groups /\ gs[k].rules \in Seq(Rules)
  BY <1>0, <1>2, OrderedGroupsAre
<1>5. PICK f \in [0..N -> Seq(Rules)] : JoinedInTurn(f, base, gs, N) /\ Together(base, gs) = f[N]
  <2>1. N \in Nat
    BY <1>2
  <2>2. DOMAIN gs = 1..N /\ \A k \in 1..N : gs[k].rules \in Seq(Rules)
    BY <1>4
  <2> QED BY <2>1, <2>2, RulesInTurn
<1>6. f[0] = base /\ \A n \in 1..N : f[n] = Joined(f[n - 1], gs[n])
  BY <1>5 DEF JoinedInTurn
<1> DEFINE Some(n) == {o[k] : k \in 1..n}
           Good(n) == /\ \E K, w : Lists(cfg, Some(n), L, f[n], K, w)
                      /\ \A j \in 1..L : f[n][j] = base[j]
           F == {n \in 0..N : Good(n)}
<1>7. L \in Nat
  OBVIOUS
<1> HIDE DEF L
<1>8. 0 \in F
  <2>1. Some(0) = {}
    OBVIOUS
  <2>2. WrittenRules(cfg, {}) = {}
    BY DEF WrittenRules
  <2>3. [j \in 1..0 |-> 0] \in [1..0 -> {}]
    OBVIOUS
  <2>4. Lists(cfg, {}, L, base, 0, [j \in 1..0 |-> 0])
    BY <2>2, <2>3, <1>7 DEF Lists, L
  <2>5. Good(0)
    <3>1. Some(0) = {} /\ f[0] = base
      BY <1>6, <2>1
    <3> HIDE DEF Some
    <3> QED BY <2>4, <3>1
  <2> HIDE DEF Good
  <2> QED BY <1>2, <2>5
<1>9. ASSUME NEW n \in 0..N, n \in F, n < N PROVE n + 1 \in F
  <2>1. n + 1 \in 1..N /\ (n + 1) - 1 = n
    BY <1>9
  <2>2. f[n] \in Seq(Rules) /\ f[n + 1] = Joined(f[n], CompileGroup(cfg.groups[o[n + 1]])) /\ o[n + 1] \in DOMAIN cfg.groups
    BY <1>4, <1>5, <1>6, <2>1
  <2>3. Some(n) \in SUBSET DOMAIN cfg.groups /\ \A g \in Some(n) : GroupBefore(cfg, g, o[n + 1])
    BY <1>3, <1>4, <2>1, SMTT(30)
  <2>4. Some(n + 1) = Some(n) \union {o[n + 1]}
    <3>1. \A k : k \in 1..(n + 1) <=> k \in 1..n \/ k = n + 1
      BY <1>2
    <3> QED BY <3>1
  <2> HIDE DEF Some
  <2>5. PICK K, w : Lists(cfg, Some(n), L, f[n], K, w)
    BY <1>9
  <2>6. PICK i \in DOMAIN cfg.groups, s \in Seq(Rules), G \in SUBSET DOMAIN cfg.groups :
            i = o[n + 1] /\ s = f[n] /\ G = Some(n)
    BY <2>2, <2>3
  <2>7. /\ \E K2, w2 : Lists(cfg, G \union {i}, L, Joined(s, CompileGroup(cfg.groups[i])), K2, w2)
        /\ \A j \in 1..L : Joined(s, CompileGroup(cfg.groups[i]))[j] = s[j]
    BY <1>7, <2>3, <2>5, <2>6, OneGroupMore, ZenonT(60)
  <2>8. \A j \in 1..L : f[n][j] = base[j]
    BY <1>9
  <2>9. \E K2, w2 : Lists(cfg, Some(n + 1), L, f[n + 1], K2, w2)
    BY <2>2, <2>4, <2>6, <2>7
  <2>10. \A j \in 1..L : f[n + 1][j] = base[j]
    BY <2>2, <2>6, <2>7, <2>8
  <2>11. n + 1 \in 0..N
    BY <2>1
  <2> QED BY <2>9, <2>10, <2>11
<1>10. N \in F
  <2> HIDE DEF F
  <2>1. N \in Nat
    BY <1>2
  <2>2. \A n \in 0..N : n \in F
    BY <1>8, <1>9, <2>1, UpTo
  <2> QED BY <2>1, <2>2
<1>11. Some(N) = KnownGroups(ids, cfg)
  BY <1>3
<1> HIDE DEF Some
<1> QED BY <1>0, <1>5, <1>10, <1>11 DEF L

\* Groups compare by priority and ID.
LEMMA GroupKeys ==
    ASSUME NEW cfg \in Configurations, NEW i \in DOMAIN cfg.groups, NEW j \in DOMAIN cfg.groups
    PROVE  KeyBefore(<<cfg.groups[i].priority, cfg.groups[i].id, 0, 0>>,
                     <<cfg.groups[j].priority, cfg.groups[j].id, 0, 0>>) <=> GroupBefore(cfg, i, j)
<1>1. PICK a \in Int, b \in Int, c \in Int, d \in Int :
          a = cfg.groups[i].priority /\ b = cfg.groups[i].id /\ c = cfg.groups[j].priority /\ d = cfg.groups[j].id
  BY GroupsType
<1>2. KeyBefore(<<a, b, 0, 0>>, <<c, d, 0, 0>>) <=> a < c \/ (a = c /\ b < d)
  <2>1. PICK z \in Int : z = 0
    OBVIOUS
  <2>2. KeyBefore(<<a, b, z, z>>, <<c, d, z, z>>) <=>
            a < c \/ (a = c /\ b < d) \/ (a = c /\ b = d /\ z < z) \/ (a = c /\ b = d /\ z = z /\ z < z)
    BY KeysCompare, SMTT(30)
  <2> QED BY <2>1, <2>2
<1> QED BY <1>1, <1>2 DEF GroupBefore

WrittenFirst(cfg, G) ==
    LET speaking == {i \in G : cfg.groups[i].def # ""}
    IN  {i \in speaking : \A j \in speaking \ {i} : KeyBefore(<<cfg.groups[i].priority, cfg.groups[i].id, 0, 0>>,
                                                            <<cfg.groups[j].priority, cfg.groups[j].id, 0, 0>>)}

\* The written default by the set of the groups that come first.
LEMMA WrittenDefaultIs ==
    ASSUME NEW cfg, NEW G
    PROVE  WrittenDefault(cfg, G) =
               IF WrittenFirst(cfg, G) = {} THEN cfg.def ELSE cfg.groups[CHOOSE i \in WrittenFirst(cfg, G) : TRUE].def
BY DEF WrittenDefault, WrittenFirst

\* The first group in order that has a default is the first one written to have one.
LEMMA DefaultIs ==
    ASSUME NEW cfg \in Configurations, Distinct(cfg), SaneRules(cfg), NEW ids
    PROVE  /\ DefaultOf(cfg, OrderedGroups(ids, cfg)) = WrittenDefault(cfg, KnownGroups(ids, cfg))
           /\ DefaultOf(cfg, OrderedGroups(ids, cfg)) \in {"allow", "deny"}
<1>0. PICK N \in Nat : N = Cardinality(KnownGroups(ids, cfg))
  BY GroupsInOrderIs
<1>1. PICK gs, o, G : /\ N = Cardinality(KnownGroups(ids, cfg)) /\ o = GroupsInOrder(ids, cfg)
                      /\ gs = OrderedGroups(ids, cfg) /\ G = KnownGroups(ids, cfg)
  BY <1>0
<1>2. /\ o \in [1..N -> G] /\ G \subseteq DOMAIN cfg.groups
      /\ \A i, j \in 1..N : i < j => GroupBefore(cfg, o[i], o[j])
      /\ \A k \in G : \E i \in 1..N : o[i] = k
  BY <1>1, GroupsInOrderIs
<1>3. Len(gs) = N /\ \A k \in 1..N : gs[k].def = cfg.groups[o[k]].def
  BY <1>1, OrderedGroupsAre
<1> DEFINE places   == SpeakingPlaces(gs)
           speaking == {i \in G : cfg.groups[i].def # ""}
           first    == {i \in speaking : \A j \in speaking \ {i} : GroupBefore(cfg, i, j)}
<1>4. \A k : k \in places <=> k \in 1..N /\ gs[k].def # ""
  BY <1>1, <1>3 DEF SpeakingPlaces
<1>5. WrittenDefault(cfg, G) = IF first = {} THEN cfg.def ELSE cfg.groups[CHOOSE i \in first : TRUE].def
  <2>1. \A i, j \in DOMAIN cfg.groups :
            KeyBefore(<<cfg.groups[i].priority, cfg.groups[i].id, 0, 0>>,
                      <<cfg.groups[j].priority, cfg.groups[j].id, 0, 0>>) <=> GroupBefore(cfg, i, j)
    BY GroupKeys
  <2>2. first = WrittenFirst(cfg, G)
    BY <1>2, <2>1 DEF WrittenFirst
  <2> HIDE DEF first
  <2> QED BY <2>2, WrittenDefaultIs
<1>6. \A i \in G : cfg.groups[i].priority \in Int /\ cfg.groups[i].id \in Int
  BY <1>2, GroupsType
<1> HIDE DEF places
<1>7. CASE places = {}
  <2>1. speaking = {}
    BY <1>2, <1>3, <1>4, <1>7, ZenonT(60)
  <2>2. first = {}
    BY <2>1
  <2>3. cfg.def \in {"allow", "deny"}
    BY DEF Configurations
  <2> HIDE DEF first
  <2> QED BY <1>1, <1>5, <1>7, <2>2, <2>3 DEF DefaultOf, places
<1>8. CASE places # {}
  <2>1. PICK m : m = Min(places)
    OBVIOUS
  <2>2. m \in places /\ \A k \in places : m <= k
    <3>1. places \in SUBSET (1..N)
      BY <1>0, <1>4
    <3>2. IsFiniteSet(places)
      BY <1>0, <3>1, Numbers, FS_Subset
    <3>3. places \in SUBSET Int
      BY <1>0, <3>1
    <3> QED BY <1>8, <2>1, <3>2, <3>3, MinIs
  <2>3. m \in 1..N /\ o[m] \in speaking
    BY <1>2, <1>3, <1>4, <2>2, ZenonT(60)
  <2>4. \A j \in speaking \ {o[m]} : GroupBefore(cfg, o[m], j)
    <3>1. ASSUME NEW j \in speaking \ {o[m]} PROVE GroupBefore(cfg, o[m], j)
      <4>1. PICK k \in 1..N : o[k] = j
        BY <1>2
      <4>2. k \in places /\ k # m
        BY <1>3, <1>4, <4>1
      <4>3. m < k
        <5>1. m <= k /\ k # m
          BY <2>2, <4>2
        <5>2. m \in 1..N
          BY <2>3
        <5>3. k \in 1..N
          BY <4>1
        <5> HIDE DEF speaking, first
        <5> QED BY <1>0, <5>1, <5>2, <5>3
      <4> QED BY <1>2, <2>3, <4>1, <4>3
    <3> QED BY <3>1
  <2>5. \A i \in first : i = o[m]
    <3>1. ASSUME NEW i \in first, i # o[m] PROVE FALSE
      <4>1. GroupBefore(cfg, i, o[m]) /\ GroupBefore(cfg, o[m], i)
        BY <2>3, <2>4, <3>1
      <4>2. i \in G /\ o[m] \in G
        BY <2>3, <3>1
      <4> HIDE DEF speaking, first
      <4> QED BY <1>6, <4>1, <4>2 DEF GroupBefore
    <3> QED BY <3>1
  <2>6. o[m] \in first
    BY <2>3, <2>4
  <2>7. WrittenDefault(cfg, G) = cfg.groups[o[m]].def
    <3> HIDE DEF first
    <3> QED BY <1>5, <2>5, <2>6
  <2>8. DefaultOf(cfg, gs) = cfg.groups[o[m]].def
    BY <1>3, <1>8, <2>1, <2>3 DEF DefaultOf, places
  <2>9. cfg.groups[o[m]].def \in {"allow", "deny"}
    <3>1. cfg.groups[o[m]] \in Groups /\ cfg.groups[o[m]].def # ""
      BY <1>2, <2>3, GroupsType
    <3> QED BY <3>1 DEF Groups
  <2> QED BY <1>1, <2>7, <2>8, <2>9
<1> QED BY <1>7, <1>8

\* A policy is the name service, if that applies, then the written rules in order, then
\* the written default.
LEMMA PolicyRules ==
    ASSUME NEW cfg \in Configurations, Distinct(cfg), SaneRules(cfg), NEW ids
    PROVE  LET p == BuildPolicy(ids, cfg)
               L == IF p.def = "deny" /\ cfg.dns THEN 1 ELSE 0
           IN  /\ p.rules \in Seq(Rules) /\ p.def \in {"allow", "deny"}
               /\ p.def = WrittenDefault(cfg, KnownGroups(ids, cfg))
               /\ p.dry = (cfg.mode = "dryrun")
               /\ \E K, w : Lists(cfg, KnownGroups(ids, cfg), L, p.rules, K, w)
               /\ \A j \in 1..L : p.rules[j] = DNSRule
<1> DEFINE p == BuildPolicy(ids, cfg)
<1>0. PICK N \in Nat : N = Len(OrderedGroups(ids, cfg))
  BY OrderedGroupsAre
<1>1. PICK gs : gs = OrderedGroups(ids, cfg) /\ N = Len(gs)
  BY <1>0
<1>2. SpeakingPlaces(gs) # {} => Min(SpeakingPlaces(gs)) \in 1..N
  <2>1. ASSUME SpeakingPlaces(gs) # {} PROVE Min(SpeakingPlaces(gs)) \in SpeakingPlaces(gs)
    <3>1. SpeakingPlaces(gs) \in SUBSET (1..N)
      BY <1>1 DEF SpeakingPlaces
    <3>2. IsFiniteSet(SpeakingPlaces(gs))
      BY <1>0, <3>1, Numbers, FS_Subset
    <3>3. SpeakingPlaces(gs) \in SUBSET Int
      BY <3>1
    <3> QED BY <2>1, <3>2, <3>3, MinIs
  <2> QED BY <1>1, <2>1 DEF SpeakingPlaces
<1>3. PICK n : n = SelectInSeq(gs, LAMBDA g : g.def # "")
  OBVIOUS
<1>4. n = IF SpeakingPlaces(gs) # {} THEN Min(SpeakingPlaces(gs)) ELSE 0
  BY <1>3, SpeakingIs
<1>5. /\ p.def = IF n = 0 THEN cfg.def ELSE gs[n].def
      /\ p.rules = Together(DNSFirst(cfg, IF n = 0 THEN cfg.def ELSE gs[n].def), gs)
      /\ p.dry = (cfg.mode = "dryrun")
  BY <1>1, <1>3, PolicyIs
<1> HIDE DEF p
<1>6. (IF n = 0 THEN cfg.def ELSE gs[n].def) = DefaultOf(cfg, gs)
  <2>1. CASE SpeakingPlaces(gs) = {}
    BY <1>4, <2>1 DEF DefaultOf
  <2>2. CASE SpeakingPlaces(gs) # {}
    <3>1. n = Min(SpeakingPlaces(gs)) /\ n # 0
      BY <1>0, <1>2, <1>4, <2>2
    <3> QED BY <2>2, <3>1 DEF DefaultOf
  <2> QED BY <2>1, <2>2
<1>7. p.def = DefaultOf(cfg, gs) /\ p.rules = Together(DNSFirst(cfg, p.def), gs)
  BY <1>5, <1>6
<1>8. p.def \in {"allow", "deny"} /\ p.def = WrittenDefault(cfg, KnownGroups(ids, cfg))
  BY <1>1, <1>7, DefaultIs
<1>9. PICK base \in Seq(Rules) : base = DNSFirst(cfg, p.def) /\ Len(base) = (IF p.def = "deny" /\ cfg.dns THEN 1 ELSE 0)
                                 /\ \A j \in 1..Len(base) : base[j] = DNSRule
  BY DNSFirstIs
<1>10. /\ p.rules \in Seq(Rules)
      /\ \E K, w : Lists(cfg, KnownGroups(ids, cfg), Len(base), p.rules, K, w)
      /\ \A j \in 1..Len(base) : p.rules[j] = base[j]
  BY <1>1, <1>7, <1>9, PolicyLists
<1> QED BY <1>5, <1>8, <1>9, <1>10 DEF p

-----------------------------------------------------------------------------
(***************************************************************************)
(* A policy's first match is the earliest written rule that matches.       *)
(***************************************************************************)
\* A compiled rule matches what it was written to match, unless its ports wrap.
LEMMA RuleMatches ==
    ASSUME NEW r \in Rules, SanePorts(r), ~Wraps(r.ports), NEW d, d.port \in Nat, NEW name, NEW ip
    PROVE  Matches(CompileRule(r), d, name, ip) <=> WrittenMatch(r, d, name, ip)
<1> DEFINE c == CompileRule(r)
<1>1. /\ c.cidrs = r.cidrs /\ c.names = r.names /\ c.resolved = r.resolved /\ c.protos = r.protos
      /\ c.ports = CompilePorts(r.ports)
  BY CompileRuleIs
<1>2. r.ports \in Seq(PortRanges) /\ \A k \in DOMAIN r.ports : Sane(r.ports[k])
  BY DEF Rules, SanePorts
<1>3. c.ports = <<>> <=> r.ports = <<>>
  BY <1>1, <1>2, PortsCompiled
<1>4. MatchPort(c.ports, d.port) <=> Covered(r.ports, d.port)
  BY <1>1, <1>2, PortsMatch
<1> HIDE DEF c
<1>5. (HasDest(c) => MatchDest(c, name, ip)) <=> (HasDest(r) => MatchDest(r, name, ip))
  BY <1>1 DEF HasDest, MatchDest, InCIDRs
<1>6. Matches(c, d, name, ip) <=> WrittenMatch(r, d, name, ip)
  BY <1>1, <1>3, <1>4, <1>5 DEF Matches, WrittenMatch
<1> QED BY <1>6 DEF c

\* The rule for the name service matches its port.
LEMMA DNSRuleMatches ==
    ASSUME NEW d, d.port \in Nat, NEW name, NEW ip
    PROVE  Matches(DNSRule, d, name, ip) <=> d.port = DNSPort
<1>1. PICK m \in Seq(PortRanges) : m = DNSRule.ports
  BY DNSRuleIs DEF Rules
<1>2. Len(m) = 1 /\ m[1].lo = DNSPort /\ m[1].hi = DNSPort /\ DOMAIN m = {1}
  BY <1>1 DEF DNSRule
<1>3. RisingEnds(m)
  BY <1>2 DEF RisingEnds
<1>4. PICK i \in 1..2 :
          /\ i = Search(m, d.port) /\ (i <= 1 => m[i].hi >= d.port)
          /\ \A k \in 1..1 : k < i => m[k].hi < d.port
  <2>1. PICK i \in 1..(Len(m) + 1) :
            /\ i = Search(m, d.port) /\ (i <= Len(m) => m[i].hi >= d.port)
            /\ RisingEnds(m) => \A k \in 1..Len(m) : k < i => m[k].hi < d.port
    BY SearchFinds
  <2>2. i \in 1..2 /\ (i <= 1 => m[i].hi >= d.port) /\ \A k \in 1..1 : k < i => m[k].hi < d.port
    BY <1>2, <1>3, <2>1
  <2> QED BY <2>1, <2>2
<1>5. MatchPort(m, d.port) <=> i <= 1 /\ m[i].lo <= d.port
  BY <1>2, <1>4 DEF MatchPort
<1>6. MatchPort(m, d.port) <=> d.port = DNSPort
  BY <1>2, <1>4, <1>5, DNSRuleIs
<1>7. DNSRule.protos = {} /\ ~HasDest(DNSRule) /\ DNSRule.ports # <<>>
  BY DEF DNSRule, HasDest
<1> QED BY <1>1, <1>6, <1>7 DEF Matches

MatchingPlaces(s, d, name, ip) == {i \in 1..Len(s) : Matches(s[i], d, name, ip)}

\* The first match is the smallest of the places that match.
LEMMA FirstMatchIs ==
    ASSUME NEW p, NEW d, NEW name, NEW ip
    PROVE  FirstMatch(p, d, name, ip) =
               IF MatchingPlaces(p.rules, d, name, ip) # {} THEN Min(MatchingPlaces(p.rules, d, name, ip)) ELSE 0
BY DEF FirstMatch, SelectInSeq, MatchingPlaces

WrittenMatches(cfg, G, d, name, ip) == {ik \in WrittenRules(cfg, G) : WrittenMatch(Rule(cfg, ik), d, name, ip)}

Earliest(cfg, M) == CHOOSE ik \in M : \A jk \in M \ {ik} : KeyBefore(Key(cfg, ik), Key(cfg, jk))

\* The written verdict by the set of the rules that match.
LEMMA WrittenRuleIs ==
    ASSUME NEW cfg, NEW G, NEW d, NEW name, NEW ip
    PROVE  LET M == WrittenMatches(cfg, G, d, name, ip)
           IN  WrittenRule(cfg, G, d, name, ip) =
                   IF WrittenDefault(cfg, G) = "deny" /\ cfg.dns /\ d.port = DNSPort THEN "allow"
                   ELSE IF M = {} THEN "" ELSE Rule(cfg, Earliest(cfg, M)).action
BY DEF WrittenRule, WrittenMatches, Earliest

\* A rule that comes before all others is the earliest.
LEMMA EarliestIs ==
    ASSUME NEW cfg \in Configurations, NEW M \in SUBSET WrittenRules(cfg, DOMAIN cfg.groups), NEW ik \in M,
           \A jk \in M \ {ik} : KeysOrdered(cfg, ik, jk)
    PROVE  Earliest(cfg, M) = ik
<1>1. \A x, y \in M : KeyBefore(Key(cfg, x), Key(cfg, y)) => ~KeyBefore(Key(cfg, y), Key(cfg, x))
  BY KeysDiffer
<1>2. \A jk \in M \ {ik} : KeyBefore(Key(cfg, ik), Key(cfg, jk))
  BY KeysAre
<1>3. ASSUME NEW x \in M, \A jk \in M \ {x} : KeyBefore(Key(cfg, x), Key(cfg, jk)) PROVE x = ik
  BY <1>1, <1>2, <1>3
<1> QED BY <1>2, <1>3 DEF Earliest

\* The first match in a policy is the earliest written rule that matches, if there is one.
LEMMA Decides ==
    ASSUME NEW cfg \in Configurations, Distinct(cfg), SaneRules(cfg), NoWraps(cfg), NEW ids,
           NEW d, d.port \in Nat, NEW name, NEW ip
    PROVE  LET p == BuildPolicy(ids, cfg)
               i == FirstMatch(p, d, name, ip)
               r == WrittenRule(cfg, KnownGroups(ids, cfg), d, name, ip)
           IN  IF i = 0 THEN r = "" ELSE r = p.rules[i].action /\ r \in {"allow", "deny"}
<1>1. PICK p, G : p = BuildPolicy(ids, cfg) /\ G = KnownGroups(ids, cfg)
  OBVIOUS
<1>2. PICK s \in Seq(Rules), N \in Nat : s = p.rules /\ N = Len(s)
  BY <1>1, PolicyRules
<1>3. PICK L \in {0, 1} : /\ L = (IF p.def = "deny" /\ cfg.dns THEN 1 ELSE 0) /\ p.def = WrittenDefault(cfg, G)
                          /\ \E K, w : Lists(cfg, G, L, s, K, w)
                          /\ \A j \in 1..L : s[j] = DNSRule
  BY <1>1, <1>2, PolicyRules
<1>4. PICK K, w : Lists(cfg, G, L, s, K, w)
  BY <1>3
<1>5. /\ K \in Nat /\ w \in [1..K -> WrittenRules(cfg, G)] /\ N = L + K
      /\ \A j \in 1..K : s[L + j] = CompileRule(Rule(cfg, w[j]))
      /\ \A i, j \in 1..K : i < j => KeysOrdered(cfg, w[i], w[j])
      /\ \A ik \in WrittenRules(cfg, G) : \E j \in 1..K : w[j] = ik
  BY <1>2, <1>4 DEF Lists
<1>6. G \subseteq DOMAIN cfg.groups /\ WrittenRules(cfg, G) \subseteq WrittenRules(cfg, DOMAIN cfg.groups)
  <2>1. G \subseteq DOMAIN cfg.groups
    BY <1>1 DEF KnownGroups
  <2> QED BY <2>1, WrittenRulesAre
<1> DEFINE I == MatchingPlaces(s, d, name, ip)
           M == WrittenMatches(cfg, G, d, name, ip)
           C == p.def = "deny" /\ cfg.dns /\ d.port = DNSPort
           f == FirstMatch(p, d, name, ip)
<1>7. \A j : j \in I <=> j \in 1..N /\ Matches(s[j], d, name, ip)
  BY <1>2 DEF MatchingPlaces
<1>8. f = IF I # {} THEN Min(I) ELSE 0
  BY <1>2, FirstMatchIs
<1>9. WrittenRule(cfg, G, d, name, ip) = IF C THEN "allow" ELSE IF M = {} THEN "" ELSE Rule(cfg, Earliest(cfg, M)).action
  BY <1>3, WrittenRuleIs
<1>10. \A ik : ik \in M <=> ik \in WrittenRules(cfg, G) /\ WrittenMatch(Rule(cfg, ik), d, name, ip)
  BY DEF WrittenMatches
<1> HIDE DEF I, M, f
<1>11. I # {} => Min(I) \in I /\ \A j \in I : Min(I) <= j
  <2>1. I \in SUBSET (1..N)
    BY <1>7
  <2>2. IsFiniteSet(I)
    BY <1>2, <2>1, Numbers, FS_Subset
  <2>3. I \in SUBSET Int
    BY <1>2, <2>1
  <2> QED BY <2>2, <2>3, MinIs
<1>12. L = 1 => (1 \in I <=> d.port = DNSPort)
  <2>1. ASSUME L = 1 PROVE s[1] = DNSRule /\ 1 \in 1..N
    BY <1>3, <1>5, <2>1
  <2> QED BY <1>7, <2>1, DNSRuleMatches
<1>13. ASSUME NEW j \in 1..K
       PROVE  /\ L + j \in I <=> w[j] \in M
              /\ w[j] \in WrittenRules(cfg, DOMAIN cfg.groups) /\ RuleTyped(Rule(cfg, w[j]))
              /\ s[L + j].action = Rule(cfg, w[j]).action
  <2>1. w[j] \in WrittenRules(cfg, G) /\ w[j] \in WrittenRules(cfg, DOMAIN cfg.groups)
    BY <1>5, <1>6
  <2>2. PICK r \in Rules : r = Rule(cfg, w[j]) /\ RuleTyped(r)
    BY <2>1, RuleIs
  <2>3. w[j][1] \in DOMAIN cfg.groups /\ w[j][2] \in DOMAIN cfg.groups[w[j][1]].rules
    BY <2>1, RuleIs
  <2>4. SanePorts(r) /\ ~Wraps(r.ports)
    BY <2>2, <2>3 DEF SaneRules, NoWraps, Rule
  <2>5. Matches(CompileRule(r), d, name, ip) <=> WrittenMatch(r, d, name, ip)
    BY <2>4, RuleMatches
  <2>6. s[L + j] = CompileRule(r) /\ CompileRule(r).action = r.action
    BY <1>5, <2>2, <2>4, CompileRuleIs
  <2>7. L + j \in 1..N
    BY <1>3, <1>5
  <2> QED BY <1>7, <1>10, <2>1, <2>2, <2>5, <2>6, <2>7
<1>14. CASE C
  <2>1. L = 1 /\ 1 \in I
    BY <1>3, <1>12, <1>14
  <2>2. f = 1
    <3>1. Min(I) <= 1 /\ Min(I) \in 1..N
      BY <1>7, <1>11, <2>1
    <3>2. Min(I) = 1
      BY <1>2, <3>1
    <3> QED BY <1>8, <2>1, <3>2
  <2>3. s[1] = DNSRule
    BY <1>3, <2>1
  <2>4. DNSRule.action = "allow"
    BY DEF DNSRule
  <2> QED BY <1>1, <1>2, <1>9, <1>14, <2>2, <2>3, <2>4 DEF f
<1>15. CASE ~C
  <2>1. \A n \in I : \E j \in 1..K : n = L + j
    <3>1. ASSUME NEW n \in I PROVE n - L \in 1..K /\ n = L + (n - L)
      <4>1. n \in 1..N
        BY <1>7
      <4>2. L = 1 => n # 1
        BY <1>3, <1>12, <1>15
      <4> QED BY <1>2, <1>3, <1>5, <4>1, <4>2
    <3> QED BY <3>1
  <2>2. CASE I = {}
    <3>1. M = {}
      BY <1>5, <1>10, <1>13, <2>2
    <3> QED BY <1>1, <1>8, <1>9, <1>15, <2>2, <3>1 DEF f
  <2>3. CASE I # {}
    <3>1. PICK j \in 1..K : Min(I) = L + j
      BY <1>11, <2>1, <2>3
    <3>2. w[j] \in M
      BY <1>11, <1>13, <2>3, <3>1
    <3>3. ASSUME NEW jk \in M, jk # w[j] PROVE KeysOrdered(cfg, w[j], jk)
      <4>1. PICK k \in 1..K : w[k] = jk
        BY <1>5, <1>10
      <4>2. L + k \in I
        BY <1>13, <4>1
      <4>3. L + j <= L + k /\ j # k
        BY <1>11, <3>1, <3>3, <4>1, <4>2
      <4>4. j < k
        BY <1>3, <4>3
      <4> QED BY <1>5, <4>1, <4>4
    <3>4. M \in SUBSET WrittenRules(cfg, DOMAIN cfg.groups)
      BY <1>6, <1>10
    <3>5. Earliest(cfg, M) = w[j]
      BY <3>2, <3>3, <3>4, EarliestIs
    <3>6. f = L + j /\ f # 0
      BY <1>3, <1>8, <2>3, <3>1
    <3>7. WrittenRule(cfg, G, d, name, ip) = Rule(cfg, w[j]).action
      BY <1>9, <1>15, <3>2, <3>5
    <3> QED BY <1>1, <1>2, <1>13, <3>6, <3>7 DEF f, RuleTyped
  <2> QED BY <2>2, <2>3
<1> QED BY <1>14, <1>15

-----------------------------------------------------------------------------
(***************************************************************************)
(* A decision on a destination.                                            *)
(***************************************************************************)
InternalFirst(s) == \A i, j \in DOMAIN s : i < j => ~(s[i] \in Public /\ s[j] \notin Public)

\* Internal addresses first, and no address gained or lost.
LEMMA PreferInternalIs ==
    ASSUME NEW ips \in Seq(IPs), NEW places \in SUBSET DOMAIN ips
    PROVE  LET s == PreferInternal(ips, places)
           IN  /\ \A i \in DOMAIN s : \E k \in places : s[i] = ips[k]
               /\ \A k \in places : \E i \in DOMAIN s : s[i] = ips[k]
               /\ InternalFirst(s)
<1> DEFINE First(i, j) == \/ ips[i] \notin Public /\ ips[j] \in Public
                          \/ (ips[i] \in Public <=> ips[j] \in Public) /\ i < j
           R == {p \in places \X places : First(p[1], p[2])}
           s == PreferInternal(ips, places)
<1>1. IsFiniteSet(places) /\ Cardinality(places) \in Nat /\ \A k \in places : k \in Int
  <2>1. DOMAIN ips = 1..Len(ips) /\ Len(ips) \in Nat
    OBVIOUS
  <2>2. IsFiniteSet(places) /\ Cardinality(places) \in Nat
    BY <2>1, Numbers, FS_Subset, FS_CardinalityType
  <2> QED BY <2>1, <2>2
<1>2. \A x, y \in places : <<x, y>> \in R <=> First(x, y)
  OBVIOUS
<1>3. PICK N \in Nat : N = Cardinality(places)
  BY <1>1
<1>4. Orders(R, places) /\ \A x \in places : <<x, x>> \notin R
  <2>1. \A x, y \in places : x # y => First(x, y) \/ First(y, x)
    BY <1>1
  <2>2. \A x, y, z \in places : First(x, y) /\ First(y, z) => First(x, z)
    BY <1>1
  <2>3. \A x \in places : ~First(x, x)
    BY <1>1
  <2> HIDE DEF R, First
  <2> QED BY <1>2, <2>1, <2>2, <2>3 DEF Orders
<1>5. PICK t \in [1..N -> places] : InOrder(t, N, R)
  <2> HIDE DEF R
  <2> QED BY <1>1, <1>3, <1>4, CanBeArranged
<1> HIDE DEF R
<1>6. \A i, j \in 1..N : i < j => First(t[i], t[j])
  BY <1>2, <1>5 DEF InOrder
<1>7. PICK o : /\ o \in [1..N -> places] /\ \A i, j \in 1..N : i < j => First(o[i], o[j])
               /\ s = [k \in DOMAIN o |-> ips[o[k]]]
  <2> DEFINE c == CHOOSE q \in [1..N -> places] : \A i, j \in 1..N : i < j => First(q[i], q[j])
  <2>1. c \in [1..N -> places] /\ \A i, j \in 1..N : i < j => First(c[i], c[j])
    BY <1>5, <1>6
  <2>2. s = [k \in DOMAIN c |-> ips[c[k]]]
    BY <1>3 DEF PreferInternal, Arranged
  <2> HIDE DEF c, s
  <2> QED BY <2>1, <2>2
<1>8. InOrder(o, N, R)
  BY <1>2, <1>7 DEF InOrder
<1>9. \A x \in places : \E i \in 1..N : o[i] = x
  BY <1>1, <1>3, <1>4, <1>7, <1>8, ArrangedHasAll
<1> HIDE DEF s
<1>10. DOMAIN s = 1..N /\ \A i \in 1..N : s[i] = ips[o[i]] /\ o[i] \in places
  BY <1>7
<1>11. InternalFirst(s)
  <2>1. ASSUME NEW i \in 1..N, NEW j \in 1..N, i < j PROVE ~(s[i] \in Public /\ s[j] \notin Public)
    BY <1>7, <1>10, <2>1
  <2> QED BY <1>10, <2>1 DEF InternalFirst
<1>12. \A k \in places : \E i \in DOMAIN s : s[i] = ips[k]
  BY <1>9, <1>10
<1> QED BY <1>10, <1>11, <1>12 DEF s

WrittenFor(cfg, G, d, ip) ==
    LET named  == WrittenRule(cfg, G, d, d.name, ip)
        direct == WrittenRule(cfg, G, d, Nil, ip)
    IN  IF named # "" THEN named
        ELSE IF ip # Nil /\ direct # "" THEN direct
        ELSE WrittenDefault(cfg, G)

\* The written verdict depends on the groups of the user.
LEMMA WrittenIs ==
    ASSUME NEW cfg, NEW roster, NEW u, NEW d, NEW ip
    PROVE  Written(cfg, roster, u, d, ip) =
               WrittenFor(cfg, IF u \in DOMAIN roster THEN KnownGroups(roster[u], cfg) ELSE {}, d, ip)
BY DEF Written, WrittenFor

\* Match and JudgeAddr say what is written, of a name, an address or both.
LEMMA Judged ==
    ASSUME NEW cfg \in Configurations, Distinct(cfg), SaneRules(cfg), NoWraps(cfg), NEW ids,
           NEW d, d.port \in Nat, NEW name, NEW ip
    PROVE  LET p == BuildPolicy(ids, cfg)
               G == KnownGroups(ids, cfg)
           IN  /\ Match(p, d, name, ip) = IF WrittenRule(cfg, G, d, name, ip) # "" THEN WrittenRule(cfg, G, d, name, ip)
                                                                                   ELSE WrittenDefault(cfg, G)
               /\ ip # Nil => JudgeAddr(p, d, ip) = WrittenFor(cfg, G, d, ip)
               /\ WrittenFor(cfg, G, d, ip) \in {"allow", "deny"}
<1>1. PICK p, G : p = BuildPolicy(ids, cfg) /\ G = KnownGroups(ids, cfg)
  OBVIOUS
<1>2. p.def = WrittenDefault(cfg, G) /\ p.def \in {"allow", "deny"}
  BY <1>1, PolicyRules
<1>3. ASSUME NEW n
      PROVE  IF FirstMatch(p, d, n, ip) = 0 THEN WrittenRule(cfg, G, d, n, ip) = ""
             ELSE /\ WrittenRule(cfg, G, d, n, ip) = p.rules[FirstMatch(p, d, n, ip)].action
                  /\ WrittenRule(cfg, G, d, n, ip) \in {"allow", "deny"}
  BY <1>1, Decides
<1>4. ASSUME NEW n
      PROVE  Match(p, d, n, ip) = IF WrittenRule(cfg, G, d, n, ip) # "" THEN WrittenRule(cfg, G, d, n, ip) ELSE p.def
  BY <1>3 DEF Match
<1>5. ASSUME ip # Nil PROVE JudgeAddr(p, d, ip) = WrittenFor(cfg, G, d, ip)
  <2>1. CASE WrittenRule(cfg, G, d, d.name, ip) # ""
    BY <1>3, <2>1 DEF JudgeAddr, WrittenFor
  <2>2. CASE WrittenRule(cfg, G, d, d.name, ip) = ""
    <3>1. FirstMatch(p, d, d.name, ip) = 0
      BY <1>3, <2>2
    <3>2. JudgeAddr(p, d, ip) = Match(p, d, Nil, ip)
      BY <3>1 DEF JudgeAddr
    <3> QED BY <1>2, <1>4, <1>5, <2>2, <3>2 DEF WrittenFor
  <2> QED BY <2>1, <2>2
<1>6. WrittenFor(cfg, G, d, ip) \in {"allow", "deny"}
  <2>1. \A n : WrittenRule(cfg, G, d, n, ip) \in {"", "allow", "deny"}
    BY <1>3
  <2> QED BY <1>2, <2>1 DEF WrittenFor
<1> QED BY <1>1, <1>2, <1>4, <1>5, <1>6

ToDial(d, dial) == IF d.name = Nil THEN <<d.ip>> ELSE IF dial # <<>> THEN dial ELSE d.ips

Allowed(cfg, G, d) == {ip \in Addresses(d) : WrittenFor(cfg, G, d, ip) = "allow"}

\* What clients ask for.
LEMMA DestIs ==
    ASSUME NEW d \in Dests
    PROVE  /\ d.port \in Nat /\ d.ips \in Seq(IPs) /\ (d.ip = Nil <=> d.name # Nil)
           /\ \A k \in DOMAIN d.ips : d.ips[k] # Nil
<1>1. /\ d \in [name : Names \union {Nil}, ip : IPs \union {Nil}, ips : Seq(IPs), port : 0..MaxPort, proto : Protocols]
      /\ MaxPort \in Nat /\ Nil \notin IPs /\ (d.ip = Nil <=> d.name # Nil)
  BY AclConstants
<1>2. d.ips \in Seq(IPs) /\ d.port \in 0..MaxPort
  BY <1>1
<1> QED BY <1>1, <1>2

\* Refused is what no address of is allowed, and what is dialled is allowed.
LEMMA DecidedAsWritten ==
    ASSUME NEW cfg \in Configurations, Distinct(cfg), SaneRules(cfg), NoWraps(cfg), NEW ids, NEW d \in Dests
    PROVE  LET c == Decide(BuildPolicy(ids, cfg), d)
               A == Allowed(cfg, KnownGroups(ids, cfg), d)
           IN  /\ c.action = "deny" <=> A = {}
               /\ c.action # "deny" => ToSet(ToDial(d, c.dial)) \subseteq A
               /\ InternalFirst(c.dial)
<1>1. PICK p, G, c : p = BuildPolicy(ids, cfg) /\ G = KnownGroups(ids, cfg) /\ c = Decide(p, d)
  OBVIOUS
<1>2. /\ d.port \in Nat /\ d.ips \in Seq(IPs) /\ (d.ip = Nil <=> d.name # Nil)
      /\ \A k \in DOMAIN d.ips : d.ips[k] # Nil
  BY DestIs
<1>3. ASSUME NEW name, NEW ip
      PROVE  /\ Match(p, d, name, ip) = IF WrittenRule(cfg, G, d, name, ip) # "" THEN WrittenRule(cfg, G, d, name, ip)
                                                                               ELSE WrittenDefault(cfg, G)
             /\ ip # Nil => JudgeAddr(p, d, ip) = WrittenFor(cfg, G, d, ip)
             /\ WrittenFor(cfg, G, d, ip) \in {"allow", "deny"}
  BY <1>1, <1>2, Judged, ZenonT(60)
<1> DEFINE A == Allowed(cfg, G, d)
<1>4. \A ip : ip \in A <=> ip \in Addresses(d) /\ WrittenFor(cfg, G, d, ip) = "allow"
  BY DEF Allowed
<1> HIDE DEF A
<1>5. InternalFirst(<<>>)
  BY DEF InternalFirst
<1>6. CASE d.name = Nil \/ d.ips = <<>>
  <2>1. c.action = Match(p, d, d.name, d.ip) /\ c.dial = <<>>
    BY <1>1, <1>6 DEF Decide
  <2>2. Match(p, d, d.name, d.ip) = WrittenFor(cfg, G, d, d.ip)
    BY <1>2, <1>3 DEF WrittenFor
  <2>3. Addresses(d) = {d.ip}
    BY <1>2, <1>6 DEF Addresses
  <2>4. ToSet(ToDial(d, <<>>)) \subseteq {d.ip} /\ (d.name # Nil => ToSet(ToDial(d, <<>>)) = {})
    BY <1>6 DEF ToDial, ToSet
  <2> QED BY <1>1, <1>3, <1>4, <1>5, <2>1, <2>2, <2>3, <2>4 DEF A
<1>7. CASE d.name # Nil /\ d.ips # <<>>
  <2>1. PICK N \in Nat : N = Len(d.ips) /\ DOMAIN d.ips = 1..N /\ N # 0
    BY <1>2, <1>7
  <2>2. \A k \in DOMAIN d.ips : JudgeAddr(p, d, d.ips[k]) = WrittenFor(cfg, G, d, d.ips[k])
    BY <1>2, <1>3
  <2>3. \A ip : ip \in Addresses(d) <=> \E k \in DOMAIN d.ips : ip = d.ips[k]
    BY <1>7 DEF Addresses, ToSet
  <2>4. \A k \in DOMAIN d.ips : JudgeAddr(p, d, d.ips[k]) \in {"allow", "deny"}
    BY <1>3, <2>2
  <2>5. (\A k \in DOMAIN d.ips : JudgeAddr(p, d, d.ips[k]) = "deny") <=> A = {}
    BY <1>4, <2>2, <2>3, <2>4
  <2>6. CASE A = {}
    <3>1. c = [action |-> "deny", dial |-> <<>>]
      BY <1>1, <1>7, <2>5, <2>6 DEF Decide
    <3> QED BY <1>1, <1>5, <2>6, <3>1 DEF A
  <2>7. CASE A # {}
    <3> DEFINE places == {k \in DOMAIN d.ips : JudgeAddr(p, d, d.ips[k]) = "allow"}
    <3>1. PICK s : s = Narrowed(p, d)
      OBVIOUS
    <3>2. /\ \A i \in DOMAIN s : \E k \in places : s[i] = d.ips[k]
          /\ \A k \in places : \E i \in DOMAIN s : s[i] = d.ips[k]
          /\ InternalFirst(s)
      <4>1. s = PreferInternal(d.ips, places)
        BY <3>1 DEF Narrowed
      <4>2. places \in SUBSET DOMAIN d.ips
        OBVIOUS
      <4> HIDE DEF places
      <4> QED BY <1>2, <4>1, <4>2, PreferInternalIs
    <3>3. c.action = "allow" /\ c.dial = IF s = d.ips THEN <<>> ELSE s
      <4>1. ~(\A k \in DOMAIN d.ips : JudgeAddr(p, d, d.ips[k]) = "deny")
        BY <2>5, <2>7
      <4>2. c = [action |-> "allow", dial |-> IF s = d.ips THEN <<>> ELSE s]
        BY <1>1, <1>7, <3>1, <4>1 DEF Decide
      <4> QED BY <4>2
    <3>4. ToDial(d, c.dial) = s
      <4>1. s # <<>>
        <5>1. PICK k \in places : TRUE
          BY <2>4, <2>5, <2>7
        <5>2. DOMAIN s # {}
          BY <3>2
        <5> QED BY <5>2
      <4> QED BY <1>7, <3>3, <4>1 DEF ToDial
    <3>5. ToSet(s) \subseteq A
      <4>1. ASSUME NEW x \in ToSet(s) PROVE x \in A
        <5>1. PICK i \in DOMAIN s : x = s[i]
          BY DEF ToSet
        <5>2. PICK k \in DOMAIN d.ips : x = d.ips[k] /\ JudgeAddr(p, d, d.ips[k]) = "allow"
          BY <3>2, <5>1
        <5> QED BY <1>4, <2>2, <2>3, <5>2
      <4> QED BY <4>1
    <3>6. InternalFirst(c.dial)
      BY <1>5, <3>2, <3>3
    <3> QED BY <1>1, <2>7, <3>3, <3>4, <3>5, <3>6 DEF A
  <2> QED BY <2>6, <2>7
<1> QED BY <1>6, <1>7

\* The validation lets only distinct IDs and sane ranges through.
LEMMA ValidIsSane ==
    ASSUME NEW cfg \in Configurations, ValidConfig(cfg)
    PROVE  Distinct(cfg) /\ SaneRules(cfg)
<1>1. ASSUME NEW i \in DOMAIN cfg.groups, NEW k \in DOMAIN cfg.groups[i].rules
      PROVE  SanePorts(cfg.groups[i].rules[k])
  <2>1. PICK r : r = cfg.groups[i].rules[k] /\ ValidRule(r)
    BY DEF ValidConfig
  <2>2. \A n \in DOMAIN r.ports : r.ports[n].lo \in 1..MaxPort /\ r.ports[n].hi \in r.ports[n].lo..MaxPort
    BY <2>1 DEF ValidRule
  <2>3. \A n \in DOMAIN r.ports : Sane(r.ports[n])
    <3>1. MaxPort \in Nat
      BY AclConstants
    <3>2. ASSUME NEW n \in DOMAIN r.ports PROVE 0 < r.ports[n].lo /\ r.ports[n].lo <= r.ports[n].hi
      <4>1. r.ports[n].lo \in 1..MaxPort /\ r.ports[n].hi \in r.ports[n].lo..MaxPort
        BY <2>2
      <4> QED BY <3>1, <4>1
    <3> QED BY <3>2 DEF Sane
  <2> QED BY <2>1, <2>3 DEF SanePorts
<1>2. SaneRules(cfg)
  BY <1>1 DEF SaneRules
<1> QED BY <1>2 DEF ValidConfig, Distinct

\* A policy is one, and not nil.
LEMMA PolicyType ==
    ASSUME NEW cfg \in Configurations, ValidConfig(cfg), NEW ids
    PROVE  BuildPolicy(ids, cfg) \in Policies /\ BuildPolicy(ids, cfg) # Nil
<1>1. Distinct(cfg) /\ SaneRules(cfg)
  BY ValidIsSane
<1> DEFINE p == BuildPolicy(ids, cfg)
<1>2. p.rules \in Seq(Rules) /\ p.def \in {"allow", "deny"} /\ p.dry \in BOOLEAN
  BY <1>1, PolicyRules
<1>3. p = [rules |-> p.rules, def |-> p.def, dry |-> p.dry]
  <2>1. \E a, b, e : p = [rules |-> a, def |-> b, dry |-> e]
    BY PolicyIs
  <2> HIDE DEF p
  <2> QED BY <2>1
<1> HIDE DEF p
<1>4. p \in Policies
  BY <1>2, <1>3 DEF Policies
<1> QED BY <1>4, AclConstants DEF p

-----------------------------------------------------------------------------
(***************************************************************************)
(* A verdict is what was written when it was passed.                       *)
(***************************************************************************)
InForce(s, under) ==
    IF under.config = Nil THEN s = Off
    ELSE /\ under.config \in ACLConfigs
         /\ IF under.config.mode = "off" THEN s = Off
            ELSE ValidConfig(under.config) /\ s = Compiled(under.config, under.roster)

PolicyFor(s, u) == IF u \in DOMAIN s.by THEN s.by[u] ELSE s.fallback

Decision(p, d) == IF Restricted(p) THEN Decide(p, d) ELSE [action |-> "allow", dial |-> <<>>]

AllowedOf(under, u, d) == {ip \in Addresses(d) : Written(under.config, under.roster, u, d, ip) = "allow"}

\* What is decided by the policies compiled from a configuration is what it says.
LEMMA DecisionAsWritten ==
    ASSUME NEW under, NEW s, InForce(s, under), Enforced(under), NoWraps(under.config), NEW u, NEW d \in Dests
    PROVE  LET p == PolicyFor(s, u)
               c == Decision(p, d)
               A == AllowedOf(under, u, d)
           IN  /\ ~(p # Nil /\ p.dry)
               /\ c.action = "deny" <=> A = {}
               /\ c.action # "deny" => ToSet(ToDial(d, c.dial)) \subseteq A
               /\ InternalFirst(c.dial)
<1>0. PICK cfg \in Configurations : cfg = under.config
  BY AclConstants DEF InForce, Enforced
<1>1. PICK roster : cfg = under.config /\ roster = under.roster
  BY <1>0
<1>2. cfg.mode = "enforce" /\ ValidConfig(cfg) /\ s = Compiled(cfg, roster) /\ NoWraps(cfg)
  BY <1>1 DEF InForce, Enforced
<1>3. Distinct(cfg) /\ SaneRules(cfg)
  BY <1>2, ValidIsSane
<1>4. /\ s.by = [x \in DOMAIN roster |-> BuildPolicy(roster[x], cfg)]
      /\ s.fallback = IF cfg.def = "deny" THEN BuildPolicy(<<>>, cfg) ELSE Nil
  BY <1>2 DEF Compiled
<1> DEFINE G == IF u \in DOMAIN roster THEN KnownGroups(roster[u], cfg) ELSE {}
           A == Allowed(cfg, G, d)
           p == PolicyFor(s, u)
           c == Decision(p, d)
<1>5. AllowedOf(under, u, d) = A
  <2>1. \A ip : Written(cfg, roster, u, d, ip) = WrittenFor(cfg, G, d, ip)
    BY WrittenIs
  <2> HIDE DEF G
  <2> QED BY <1>1, <2>1 DEF AllowedOf, Allowed
<1>6. \/ \E ids : p = BuildPolicy(ids, cfg) /\ G = KnownGroups(ids, cfg)
      \/ p = Nil /\ G = {} /\ cfg.def # "deny"
  <2>1. CASE u \in DOMAIN roster
    BY <1>4, <2>1 DEF PolicyFor
  <2>2. CASE u \notin DOMAIN roster
    <3>1. KnownGroups(<<>>, cfg) = {} /\ G = {}
      BY <2>2 DEF KnownGroups, ToSet
    <3>2. p = s.fallback
      BY <1>4, <2>2 DEF PolicyFor
    <3> QED BY <1>4, <3>1, <3>2
  <2> QED BY <2>1, <2>2
<1>7. d.port \in Nat /\ d.ips \in Seq(IPs) /\ (d.ip = Nil <=> d.name # Nil)
  BY DestIs
<1>8. ASSUME ~Restricted(p), \A ip : WrittenFor(cfg, G, d, ip) = "allow"
      PROVE  /\ c.action # "deny" /\ A # {} /\ ToSet(ToDial(d, c.dial)) \subseteq A /\ InternalFirst(c.dial)
  <2>1. c.action = "allow" /\ c.dial = <<>>
    BY <1>8 DEF Decision
  <2>2. A = Addresses(d)
    BY <1>8 DEF Allowed
  <2>3. Addresses(d) # {} /\ ToSet(ToDial(d, <<>>)) \subseteq Addresses(d)
    <3>1. CASE d.name = Nil
      BY <3>1 DEF Addresses, ToDial, ToSet
    <3>2. CASE d.name # Nil /\ d.ips = <<>>
      BY <3>2 DEF Addresses, ToDial, ToSet
    <3>3. CASE d.name # Nil /\ d.ips # <<>>
      <4>1. d.ips[1] \in ToSet(d.ips)
        BY <1>7, <3>3 DEF ToSet
      <4> QED BY <3>3, <4>1 DEF Addresses, ToDial
    <3> QED BY <3>1, <3>2, <3>3
  <2>4. InternalFirst(<<>>)
    BY DEF InternalFirst
  <2> HIDE DEF A, c
  <2> QED BY <2>1, <2>2, <2>3, <2>4
<1> HIDE DEF A, G, p, c
<1>9. ASSUME NEW ids, p = BuildPolicy(ids, cfg), G = KnownGroups(ids, cfg)
      PROVE  /\ ~p.dry
             /\ c.action = "deny" <=> A = {}
             /\ c.action # "deny" => ToSet(ToDial(d, c.dial)) \subseteq A
             /\ InternalFirst(c.dial)
  <2>1. p # Nil /\ ~p.dry /\ p.def \in {"allow", "deny"} /\ p.def = WrittenDefault(cfg, G) /\ p.rules \in Seq(Rules)
    BY <1>2, <1>3, <1>9, PolicyRules, PolicyType
  <2>2. CASE Restricted(p)
    <3>1. c = Decide(p, d)
      BY <2>2 DEF c, Decision
    <3> QED BY <1>2, <1>3, <1>9, <2>1, <3>1, DecidedAsWritten DEF A
  <2>3. CASE ~Restricted(p)
    <3>1. p.def = "allow" /\ p.rules = <<>>
      BY <2>1, <2>3 DEF Restricted
    <3>2. ASSUME NEW name, NEW ip PROVE WrittenRule(cfg, G, d, name, ip) = ""
      <4>1. FirstMatch(p, d, name, ip) = 0
        <5>1. MatchingPlaces(p.rules, d, name, ip) = {}
          BY <3>1 DEF MatchingPlaces
        <5> QED BY <5>1, FirstMatchIs
      <4> QED BY <1>2, <1>3, <1>7, <1>9, <4>1, Decides
    <3>3. \A ip : WrittenFor(cfg, G, d, ip) = "allow"
      BY <2>1, <3>1, <3>2 DEF WrittenFor
    <3> QED BY <1>8, <2>1, <2>3, <3>3
  <2> QED BY <2>2, <2>3
<1>10. ASSUME p = Nil, G = {}, cfg.def # "deny"
       PROVE  /\ c.action = "deny" <=> A = {}
              /\ c.action # "deny" => ToSet(ToDial(d, c.dial)) \subseteq A
              /\ InternalFirst(c.dial)
  <2>1. cfg.def = "allow"
    BY <1>10 DEF Configurations
  <2>2. WrittenDefault(cfg, {}) = "allow"
    <3>1. WrittenFirst(cfg, {}) = {}
      BY DEF WrittenFirst
    <3> QED BY <2>1, <3>1, WrittenDefaultIs
  <2>3. ASSUME NEW name, NEW ip PROVE WrittenRule(cfg, {}, d, name, ip) = ""
    <3>1. WrittenMatches(cfg, {}, d, name, ip) = {}
      <4>1. \A ik : ik \notin WrittenRules(cfg, {})
        BY WrittenRulesAre
      <4> QED BY <4>1 DEF WrittenMatches
    <3> QED BY <2>2, <3>1, WrittenRuleIs
  <2>4. \A ip : WrittenFor(cfg, {}, d, ip) = "allow"
    BY <2>2, <2>3 DEF WrittenFor
  <2>5. ~Restricted(p)
    BY <1>10 DEF Restricted
  <2> QED BY <1>8, <1>10, <2>4, <2>5
<1>11. CASE p = Nil /\ G = {} /\ cfg.def # "deny"
  BY <1>5, <1>10, <1>11 DEF p, c
<1>12. CASE \E ids : p = BuildPolicy(ids, cfg) /\ G = KnownGroups(ids, cfg)
  BY <1>5, <1>9, <1>12 DEF p, c
<1> QED BY <1>6, <1>11, <1>12

\* Without enforcement there is no policy, or one that only watches.
LEMMA WavedUnlessEnforced ==
    ASSUME NEW under, NEW s, InForce(s, under), ~Enforced(under), NEW u
    PROVE  PolicyFor(s, u) = Nil \/ (PolicyFor(s, u) # Nil /\ PolicyFor(s, u).dry)
<1>1. CASE s = Off
  BY <1>1 DEF PolicyFor, Off
<1>2. CASE s # Off
  <2>0. PICK cfg \in Configurations : cfg = under.config
    BY <1>2, AclConstants DEF InForce
  <2>1. PICK roster : cfg = under.config /\ roster = under.roster
    BY <2>0
  <2>2. ValidConfig(cfg) /\ s = Compiled(cfg, roster) /\ cfg.mode = "dryrun"
    BY <1>2, <2>1 DEF InForce, Enforced, Configurations
  <2>3. \A ids : BuildPolicy(ids, cfg) # Nil /\ BuildPolicy(ids, cfg).dry
    BY <2>2, ValidIsSane, PolicyRules, PolicyType
  <2>4. /\ s.by = [x \in DOMAIN roster |-> BuildPolicy(roster[x], cfg)]
        /\ s.fallback = IF cfg.def = "deny" THEN BuildPolicy(<<>>, cfg) ELSE Nil
    BY <2>2 DEF Compiled
  <2> QED BY <2>3, <2>4 DEF PolicyFor
<1> QED BY <1>1, <1>2

\* A connection's verdict, and what is left to dial.
FlowAsWritten(fl) ==
    /\ DOMAIN fl = {"at", "user", "dest", "dial", "addr", "under"}
    /\ fl.at \in {"free", "refused", "passed", "dialed"}
    /\ fl.at # "free" =>
           IF ~Enforced(fl.under) THEN fl.at # "refused" /\ fl.dial = <<>>
           ELSE NoWraps(fl.under.config) =>
                    /\ fl.at = "refused" <=> AllowedOf(fl.under, fl.user, fl.dest) = {}
                    /\ fl.at # "refused" => ToSet(ToDial(fl.dest, fl.dial)) \subseteq AllowedOf(fl.under, fl.user, fl.dest)
                    /\ fl.at = "dialed" => fl.addr \in AllowedOf(fl.under, fl.user, fl.dest)
                    /\ InternalFirst(fl.dial)

\* The inductive invariant: the policies in force are the ones compiled, and each
\* connection has the verdict of the configuration it was judged under.
AclInv ==
    /\ DOMAIN flow = Flows
    /\ InForce(snap, applied)
    /\ \A f \in Flows : FlowAsWritten(flow[f])

\* The invariant at the start, when nobody is restricted.
LEMMA AclStarts == AclInit => AclInv
<1> SUFFICES ASSUME AclInit PROVE AclInv
  OBVIOUS
<1>1. FlowAsWritten(NoFlow)
  BY DEF FlowAsWritten, NoFlow
<1>2. InForce(snap, applied)
  BY DEF AclInit, InForce
<1> QED BY <1>1, <1>2 DEF AclInit, AclInv

\* The flows of which only f changes.
LEMMA OneFlow ==
    ASSUME AclInv, NEW f \in Flows, NEW x, flow' = [flow EXCEPT ![f] = x], FlowAsWritten(x), UNCHANGED <<snap, applied>>
    PROVE  AclInv'
<1>1. DOMAIN flow' = Flows /\ \A g \in Flows : flow'[g] = IF g = f THEN x ELSE flow[g]
  BY DEF AclInv
<1>2. \A g \in Flows : FlowAsWritten(flow[g])
  BY DEF AclInv
<1>3. \A g \in Flows : FlowAsWritten(flow'[g])
  BY <1>1, <1>2
<1>4. InForce(snap', applied')
  BY DEF AclInv
<1> QED BY <1>1, <1>3, <1>4 DEF AclInv

\* Store.Update: the flows keep the verdicts passed before.
LEMMA AclUpdates ==
    ASSUME AclInv, NEW cfg \in ACLConfigs, NEW roster \in Rosters, Update(cfg, roster)
    PROVE  AclInv'
<1>1. InForce(snap', applied')
  <2>1. CASE cfg.mode # "off" /\ ~ValidConfig(cfg)
    BY <2>1 DEF Update, AclInv
  <2>2. CASE ~(cfg.mode # "off" /\ ~ValidConfig(cfg))
    <3>1. applied' = [config |-> cfg, roster |-> roster] /\ cfg # Nil
      BY <2>2, AclConstants DEF Update
    <3>2. applied'.config = cfg /\ applied'.roster = roster
      BY <3>1
    <3>3. snap' = IF cfg.mode = "off" THEN Off ELSE Compiled(cfg, roster)
      BY <2>2 DEF Update
    <3> QED BY <2>2, <3>1, <3>2, <3>3 DEF InForce
  <2> QED BY <2>1, <2>2
<1>2. flow' = flow
  BY DEF Update
<1> QED BY <1>1, <1>2 DEF AclInv

\* A connection is judged by the policies in force.
LEMMA AclJudges ==
    ASSUME AclInv, NEW f \in Flows, NEW u \in Members, NEW d \in Dests, Judge(f, u, d)
    PROVE  AclInv'
<1>1. PICK p, c, waved : /\ p = PolicyFor(snap, u) /\ c = Decision(p, d) /\ waved = (p # Nil /\ p.dry)
  OBVIOUS
<1> DEFINE x == [at    |-> IF c.action = "deny" /\ ~waved THEN "refused" ELSE "passed",
                 user  |-> u, dest |-> d, addr |-> Nil, under |-> applied,
                 dial  |-> IF c.action = "deny" \/ waved THEN <<>> ELSE c.dial]
<1>2. flow' = [flow EXCEPT ![f] = x] /\ UNCHANGED <<snap, applied>>
  BY <1>1 DEF Judge, Lookup, PolicyFor, Decision
<1>3. /\ DOMAIN x = {"at", "user", "dest", "dial", "addr", "under"}
      /\ x.at = (IF c.action = "deny" /\ ~waved THEN "refused" ELSE "passed")
      /\ x.user = u /\ x.dest = d /\ x.under = applied
      /\ x.dial = (IF c.action = "deny" \/ waved THEN <<>> ELSE c.dial)
  OBVIOUS
<1> HIDE DEF x
<1>4. InForce(snap, applied)
  BY DEF AclInv
<1>5. ASSUME ~Enforced(applied) PROVE x.at # "refused" /\ x.dial = <<>>
  <2>1. CASE p = Nil
    <3>1. c = [action |-> "allow", dial |-> <<>>]
      BY <1>1, <2>1 DEF Decision, Restricted
    <3> QED BY <1>3, <3>1
  <2>2. CASE p # Nil
    <3>1. waved
      BY <1>1, <1>4, <1>5, <2>2, WavedUnlessEnforced
    <3> QED BY <1>3, <3>1
  <2> QED BY <2>1, <2>2
<1>6. ASSUME Enforced(applied), NoWraps(applied.config)
      PROVE  /\ x.at = "refused" <=> AllowedOf(applied, u, d) = {}
             /\ x.at # "refused" => ToSet(ToDial(d, x.dial)) \subseteq AllowedOf(applied, u, d)
             /\ InternalFirst(x.dial)
  <2>1. /\ ~waved
        /\ c.action = "deny" <=> AllowedOf(applied, u, d) = {}
        /\ c.action # "deny" => ToSet(ToDial(d, c.dial)) \subseteq AllowedOf(applied, u, d)
        /\ InternalFirst(c.dial)
    BY <1>1, <1>4, <1>6, DecisionAsWritten
  <2>2. InternalFirst(<<>>)
    BY DEF InternalFirst
  <2> QED BY <1>3, <2>1, <2>2
<1>7. FlowAsWritten(x)
  BY <1>3, <1>5, <1>6 DEF FlowAsWritten
<1> QED BY <1>2, <1>7, OneFlow

\* What is dialled is one of the addresses left.
LEMMA AclDials ==
    ASSUME AclInv, NEW f \in Flows, Dial(f)
    PROVE  AclInv'
<1>1. PICK a \in ToSet(Candidates(f)) : flow' = [flow EXCEPT ![f].at = "dialed", ![f].addr = a]
  BY DEF Dial
<1>2. PICK fl : fl = flow[f]
  OBVIOUS
<1>3. fl.at = "passed" /\ FlowAsWritten(fl) /\ a \in ToSet(ToDial(fl.dest, fl.dial))
  BY <1>1, <1>2 DEF Dial, AclInv, Candidates, ToDial
<1> DEFINE x == [fl EXCEPT !.at = "dialed", !.addr = a]
<1>4. flow' = [flow EXCEPT ![f] = x] /\ UNCHANGED <<snap, applied>>
  BY <1>1, <1>2 DEF AclInv, Dial
<1>5. /\ DOMAIN x = {"at", "user", "dest", "dial", "addr", "under"} /\ x.at = "dialed" /\ x.addr = a
      /\ x.user = fl.user /\ x.dest = fl.dest /\ x.dial = fl.dial /\ x.under = fl.under
  BY <1>3 DEF FlowAsWritten
<1> HIDE DEF x
<1>6. FlowAsWritten(x)
  BY <1>3, <1>5 DEF FlowAsWritten
<1> QED BY <1>4, <1>6, OneFlow

\* A connection ends.
LEMMA AclFinishes ==
    ASSUME AclInv, NEW f \in Flows, Finish(f)
    PROVE  AclInv'
<1>1. flow' = [flow EXCEPT ![f] = NoFlow] /\ UNCHANGED <<snap, applied>>
  BY DEF Finish
<1>2. FlowAsWritten(NoFlow)
  BY DEF FlowAsWritten, NoFlow
<1> QED BY <1>1, <1>2, OneFlow

\* The invariant is inductive.
LEMMA AclKeeps == AclInv /\ [AclNext]_aclvars => AclInv'
<1> SUFFICES ASSUME AclInv, [AclNext]_aclvars PROVE AclInv'
  OBVIOUS
<1>1. CASE \E cfg \in ACLConfigs, roster \in Rosters : Update(cfg, roster)
  BY <1>1, AclUpdates
<1>2. CASE \E f \in Flows : \E u \in Members, d \in Dests : Judge(f, u, d)
  BY <1>2, AclJudges
<1>3. CASE \E f \in Flows : Dial(f)
  BY <1>3, AclDials
<1>4. CASE \E f \in Flows : Finish(f)
  BY <1>4, AclFinishes
<1>5. CASE UNCHANGED aclvars
  BY <1>5 DEF aclvars, AclInv
<1> QED BY <1>1, <1>2, <1>3, <1>4, <1>5 DEF AclNext

\* What the invariant says of verdicts and of port lists.
LEMMA AclInvSays == AclInv => PolicyAsWritten
<1> SUFFICES ASSUME AclInv PROVE VerdictsAsWritten /\ PortsAsListed
  BY DEF PolicyAsWritten
<1>1. VerdictsAsWritten
  <2>1. ASSUME NEW f \in Flows PROVE FlowAsWritten(flow[f])
    BY DEF AclInv
  <2> QED BY <2>1 DEF VerdictsAsWritten, FlowAsWritten, AllowedOf, InternalFirst
<1>2. PortsAsListed
  <2> SUFFICES ASSUME applied.config # Nil, applied.config.mode # "off",
                      NEW i \in DOMAIN applied.config.groups, NEW k \in DOMAIN applied.config.groups[i].rules,
                      NEW port \in 1..MaxPort
               PROVE  LET ports == applied.config.groups[i].rules[k].ports
                      IN  /\ MatchPort(CompilePorts(ports), port) => Covered(ports, port)
                          /\ Covered(ports, port) /\ ~Wraps(ports) => MatchPort(CompilePorts(ports), port)
    BY DEF PortsAsListed
  <2>1. PICK cfg \in Configurations : cfg = applied.config /\ ValidConfig(cfg)
    BY AclConstants DEF AclInv, InForce
  <2>2. PICK ports : ports = cfg.groups[i].rules[k].ports
    OBVIOUS
  <2>3. ports \in Seq(PortRanges)
    <3>1. <<i, k>> \in WrittenRules(cfg, DOMAIN cfg.groups)
      BY <2>1, WrittenRulesAre
    <3>2. Rule(cfg, <<i, k>>) \in Rules
      BY <3>1, RuleIs
    <3> QED BY <2>2, <3>2 DEF Rule, Rules
  <2>4. \A n \in DOMAIN ports : Sane(ports[n])
    BY <2>1, <2>2, ValidIsSane DEF SaneRules, SanePorts
  <2>5. port \in Nat
    BY AclConstants
  <2> QED BY <2>1, <2>2, <2>3, <2>4, <2>5, PortsMatch
<1> QED BY <1>1, <1>2

\* Whatever configurations and users are pushed and in whatever order connections are
\* judged and dialled: an enforced policy refuses and dials what was written when the
\* connection was judged, and a compiled port list is the listed one.
THEOREM PoliciesAreAsWritten == AclSpec => []PolicyAsWritten
<1> QED BY AclStarts, AclKeeps, AclInvSays, PTL DEF AclSpec
=============================================================================
