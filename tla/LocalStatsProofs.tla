--------------------------- MODULE LocalStatsProofs ----------------------------
(***************************************************************************)
(* The local stats engine tells the truth, for every number of nodes, every*)
(* window and every threshold.  Its totals are sums over the nodes and the *)
(* samples, so what sums are comes first.                                  *)
(***************************************************************************)
EXTENDS LocalStats, FiniteSetTheorems, WellFoundedInduction, TLAPS

-----------------------------------------------------------------------------
(***************************************************************************)
(* Induction over the subsets of a finite set, by their number of elements *)
(* and one element at a time: a set of smallest number that F has not.     *)
(***************************************************************************)
LEMMA BySize ==
    ASSUME NEW S, IsFiniteSet(S), NEW F \in SUBSET SUBSET S,
           \A T \in SUBSET S : (\A R \in SUBSET S : Cardinality(R) < Cardinality(T) => R \in F) => T \in F
    PROVE  F = SUBSET S
<1> DEFINE Less   == OpToRel(<, Nat)
           Missed == {n \in Nat : \E T \in SUBSET S : Cardinality(T) = n /\ T \notin F}
<1>1. \A T \in SUBSET S : Cardinality(T) \in Nat
  BY FS_Subset, FS_CardinalityType
<1>2. ASSUME Missed # {} PROVE FALSE
  <2>1. IsWellFoundedOn(Less, Nat)
    BY NatLessThanWellFounded
  <2>2. Missed \subseteq Nat
    OBVIOUS
  <2>3. PICK n \in Missed : \A m \in Missed : ~(<<m, n>> \in Less)
    <3> HIDE DEF Less, Missed
    <3> QED BY <1>2, <2>1, <2>2, WFMin
  <2>4. PICK T \in SUBSET S : Cardinality(T) = n /\ T \notin F
    OBVIOUS
  <2>5. PICK R \in SUBSET S : Cardinality(R) < Cardinality(T) /\ R \notin F
    BY <2>4
  <2>6. Cardinality(R) \in Missed
    BY <1>1, <2>5
  <2>7. <<Cardinality(R), n>> \in Less
    BY <1>1, <2>2, <2>4, <2>5 DEF OpToRel
  <2> QED BY <2>3, <2>6, <2>7
<1> QED BY <1>1, <1>2

LEMMA OneByOne ==
    ASSUME NEW S, IsFiniteSet(S), NEW F \in SUBSET SUBSET S, {} \in F,
           \A T \in F : \A x \in S \ T : T \union {x} \in F
    PROVE  F = SUBSET S
<1>1. ASSUME NEW T \in SUBSET S, \A R \in SUBSET S : Cardinality(R) < Cardinality(T) => R \in F
      PROVE  T \in F
  <2>1. CASE T = {}
    BY <2>1
  <2>2. CASE T # {}
    <3>1. PICK x \in T : TRUE
      BY <2>2
    <3> DEFINE R == T \ {x}
    <3>2. R \in SUBSET S /\ x \in S \ R /\ R \union {x} = T
      OBVIOUS
    <3>3. IsFiniteSet(T) /\ Cardinality(T) \in Nat /\ Cardinality(R) = Cardinality(T) - 1
      BY FS_Subset, FS_CardinalityType, FS_RemoveElement
    <3>4. Cardinality(R) < Cardinality(T)
      <4> HIDE DEF R
      <4> QED BY <3>3
    <3>5. R \in F
      BY <1>1, <3>2, <3>4
    <3> HIDE DEF R
    <3> QED BY <3>2, <3>5
  <2> QED BY <2>1, <2>2
<1> QED BY <1>1, BySize

-----------------------------------------------------------------------------
(***************************************************************************)
(* Sums: the fold that defines one, and that there is one.                 *)
(***************************************************************************)
First(s)   == CHOOSE x \in s : TRUE
Rest(s)    == s \ {First(s)}
FoldStep(f, g, s) == IF s = {} THEN 0 ELSE f[First(s)] + g[Rest(s)]
IsSumFold(f, S, g) == g = [s \in SUBSET S |-> FoldStep(f, g, s)]

LEMMA FoldUnfolded ==
    ASSUME NEW f, NEW S, NEW g, IsSumFold(f, S, g)
    PROVE  \E h : IsSumFold(f, S, h) /\ SumFunctionOnSet(f, S) = h[S]
BY DEF IsSumFold, FoldStep, First, Rest, SumFunctionOnSet, FoldFunctionOnSet, MapThenFoldSet

LEMMA RestIs ==
    ASSUME NEW S, IsFiniteSet(S), NEW s \in SUBSET S, s # {}
    PROVE  /\ First(s) \in s /\ Rest(s) \in SUBSET S /\ Rest(s) \subseteq s
           /\ Cardinality(Rest(s)) < Cardinality(s)
<1>1. First(s) \in s
  BY DEF First
<1>2. IsFiniteSet(s) /\ Cardinality(s) \in Nat
  BY FS_Subset, FS_CardinalityType
<1>3. Cardinality(s \ {First(s)}) = Cardinality(s) - 1
  BY <1>1, <1>2, FS_RemoveElement
<1>4. Cardinality(Rest(s)) < Cardinality(s)
  BY <1>2, <1>3 DEF Rest
<1> QED BY <1>1, <1>4 DEF Rest

LEMMA FoldsAgree ==
    ASSUME NEW f, NEW S, NEW g, NEW T \in SUBSET S, NEW h,
           IsFiniteSet(S), IsSumFold(f, S, g), IsSumFold(f, T, h)
    PROVE  g[T] = h[T]
<1> DEFINE F == {s \in SUBSET T : g[s] = h[s]}
<1>1. IsFiniteSet(T)
  BY FS_Subset
<1>2. ASSUME NEW s \in SUBSET T, \A r \in SUBSET T : Cardinality(r) < Cardinality(s) => r \in F
      PROVE  s \in F
  <2>1. g[s] = FoldStep(f, g, s) /\ h[s] = FoldStep(f, h, s)
    BY DEF IsSumFold
  <2>2. s # {} => g[Rest(s)] = h[Rest(s)]
    BY <1>1, <1>2, RestIs
  <2> QED BY <2>1, <2>2 DEF FoldStep
<1> HIDE DEF F
<1>3. F = SUBSET T
  <2>1. F \in SUBSET SUBSET T
    BY DEF F
  <2> QED BY <1>1, <1>2, <2>1, BySize
<1>4. T \in F
  BY <1>3
<1> QED BY <1>4 DEF F

LEMMA FoldExists ==
    ASSUME NEW f, NEW S, IsFiniteSet(S)
    PROVE  \E g : IsSumFold(f, S, g)
<1> DEFINE F == {T \in SUBSET S : \E g : IsSumFold(f, T, g)}
           Fold(T) == CHOOSE g : IsSumFold(f, T, g)
<1>1. ASSUME NEW T \in SUBSET S, \A R \in SUBSET S : Cardinality(R) < Cardinality(T) => R \in F
      PROVE  T \in F
  <2> DEFINE g == [s \in SUBSET T |-> IF s = {} THEN 0 ELSE f[First(s)] + Fold(Rest(s))[Rest(s)]]
  <2>0. IsFiniteSet(T) /\ Cardinality(T) \in Nat
    BY FS_Subset, FS_CardinalityType
  <2>1. \A s \in SUBSET T : s # {} => IsSumFold(f, Rest(s), Fold(Rest(s)))
    <3> SUFFICES ASSUME NEW s \in SUBSET T, s # {} PROVE IsSumFold(f, Rest(s), Fold(Rest(s)))
      OBVIOUS
    <3>1. /\ Rest(s) \in SUBSET S /\ Cardinality(Rest(s)) < Cardinality(s)
          /\ Cardinality(s) <= Cardinality(T) /\ Cardinality(s) \in Nat /\ Cardinality(Rest(s)) \in Nat
      BY <2>0, RestIs, FS_Subset, FS_CardinalityType
    <3>2. Rest(s) \in F
      BY <1>1, <2>0, <3>1
    <3>3. \E h : IsSumFold(f, Rest(s), h)
      BY <3>2
    <3> QED BY <3>3
  <2>2. ASSUME NEW s \in SUBSET T PROVE g[s] = FoldStep(f, g, s)
    <3>1. CASE s = {}
      BY <3>1 DEF FoldStep
    <3>2. CASE s # {}
      <4> DEFINE r == Rest(s)
      <4>1. r \in SUBSET T /\ IsFiniteSet(r)
        BY <2>0, <3>2, RestIs, FS_Subset
      <4>2. Fold(r)[r] = FoldStep(f, Fold(r), r)
        BY <2>1, <3>2 DEF IsSumFold
      <4>3. r # {} => Fold(r)[Rest(r)] = Fold(Rest(r))[Rest(r)]
        <5> HIDE DEF r, Fold
        <5>1. r # {} => IsSumFold(f, Rest(r), Fold(Rest(r))) /\ Rest(r) \in SUBSET r
          BY <2>1, <4>1, RestIs
        <5>2. IsSumFold(f, r, Fold(r))
          BY <2>1, <3>2 DEF r
        <5> QED BY <4>1, <5>1, <5>2, FoldsAgree, SMTT(30)
      <4>4. g[r] = Fold(r)[r]
        <5> HIDE DEF r, Fold
        <5> QED BY <4>1, <4>2, <4>3 DEF FoldStep
      <4> HIDE DEF Fold
      <4> QED BY <3>2, <4>4 DEF FoldStep
    <3> QED BY <3>1, <3>2
  <2>3. g = [s \in SUBSET T |-> g[s]]
    OBVIOUS
  <2> HIDE DEF g
  <2>4. IsSumFold(f, T, g)
    BY <2>2, <2>3 DEF IsSumFold
  <2> QED BY <2>4
<1> HIDE DEF F
<1>2. F = SUBSET S
  <2>1. F \in SUBSET SUBSET S
    BY DEF F
  <2> QED BY <1>1, <2>1, BySize
<1>3. S \in F
  BY <1>2
<1> QED BY <1>3 DEF F

LEMMA SumIsFold ==
    ASSUME NEW f, NEW S, IsFiniteSet(S)
    PROVE  \E h : IsSumFold(f, S, h) /\ SumFunctionOnSet(f, S) = h[S]
BY FoldExists, FoldUnfolded

-----------------------------------------------------------------------------
(***************************************************************************)
(* What a sum is: of nothing, of one element more, and of others.          *)
(***************************************************************************)
LEMMA SumOfNone ==
    ASSUME NEW f
    PROVE  SumFunctionOnSet(f, {}) = 0
<1>1. PICK h : IsSumFold(f, {}, h) /\ SumFunctionOnSet(f, {}) = h[{}]
  BY SumIsFold, FS_EmptySet
<1> QED BY <1>1 DEF IsSumFold, FoldStep

LEMMA SumOfSome ==
    ASSUME NEW f, NEW S, IsFiniteSet(S), S # {}
    PROVE  SumFunctionOnSet(f, S) = f[First(S)] + SumFunctionOnSet(f, Rest(S))
<1>1. PICK h : IsSumFold(f, S, h) /\ SumFunctionOnSet(f, S) = h[S]
  BY SumIsFold
<1> DEFINE R == Rest(S)
<1>2. R \in SUBSET S /\ IsFiniteSet(R)
  BY FS_Subset DEF Rest
<1> HIDE DEF R
<1>3. PICK g : IsSumFold(f, R, g) /\ SumFunctionOnSet(f, R) = g[R]
  BY <1>2, SumIsFold
<1>4. IsSumFold(f, S, h)
  BY <1>1
<1>5. h[R] = g[R]
  BY <1>2, <1>3, <1>4, FoldsAgree
<1>6. h[S] = f[First(S)] + h[Rest(S)]
  BY <1>4 DEF IsSumFold, FoldStep
<1> QED BY <1>1, <1>3, <1>5, <1>6 DEF R

LEMMA SumType ==
    ASSUME NEW f, NEW S, IsFiniteSet(S), \A x \in S : f[x] \in Nat
    PROVE  SumFunctionOnSet(f, S) \in Nat
<1> DEFINE F == {T \in SUBSET S : SumFunctionOnSet(f, T) \in Nat}
<1>1. ASSUME NEW T \in SUBSET S, \A R \in SUBSET S : Cardinality(R) < Cardinality(T) => R \in F
      PROVE  T \in F
  <2>1. CASE T = {}
    BY <2>1, SumOfNone
  <2>2. CASE T # {}
    <3>1. First(T) \in T /\ Rest(T) \in F
      BY <1>1, <2>2, RestIs
    <3>2. SumFunctionOnSet(f, T) = f[First(T)] + SumFunctionOnSet(f, Rest(T))
      BY <2>2, SumOfSome, FS_Subset
    <3>3. f[First(T)] \in Nat /\ SumFunctionOnSet(f, Rest(T)) \in Nat
      BY <3>1
    <3> QED BY <3>2, <3>3
  <2> QED BY <2>1, <2>2
<1> HIDE DEF F
<1>2. F = SUBSET S
  <2>1. F \in SUBSET SUBSET S
    BY DEF F
  <2> QED BY <1>1, <2>1, BySize
<1>3. S \in F
  BY <1>2
<1> QED BY <1>3 DEF F

\* Any element can be the one that is added.
LEMMA SumWithout ==
    ASSUME NEW f, NEW S, IsFiniteSet(S), \A y \in S : f[y] \in Nat, NEW x \in S
    PROVE  SumFunctionOnSet(f, S) = f[x] + SumFunctionOnSet(f, S \ {x})
<1> DEFINE Sum(T) == SumFunctionOnSet(f, T)
           F == {T \in SUBSET S : \A y \in T : Sum(T) = f[y] + Sum(T \ {y})}
<1>0. \A T \in SUBSET S : IsFiniteSet(T) /\ Cardinality(T) \in Nat /\ Sum(T) \in Nat
  BY FS_Subset, FS_CardinalityType, SumType
<1>1. ASSUME NEW T \in SUBSET S, \A R \in SUBSET S : Cardinality(R) < Cardinality(T) => R \in F
      PROVE  T \in F
  <2> SUFFICES ASSUME NEW y \in T PROVE Sum(T) = f[y] + Sum(T \ {y})
    OBVIOUS
  <2> DEFINE z == First(T)
             Y == T \ {y}
             Z == T \ {z}
             U == T \ {y, z}
  <2>1. /\ z \in T /\ Rest(T) = Z
        /\ Y \in SUBSET S /\ Z \in SUBSET S /\ U \in SUBSET S
        /\ f[y] \in Nat /\ f[z] \in Nat
    BY RestIs DEF Rest
  <2>2. Sum(T) = f[z] + Sum(Z)
    BY <1>0, <2>1, SumOfSome
  <2>3. CASE y = z
    BY <2>2, <2>3
  <2>4. CASE y # z
    <3>1. Y \in F /\ Z \in F
      <4>1. Cardinality(T \ {y}) = Cardinality(T) - 1 /\ Cardinality(T \ {z}) = Cardinality(T) - 1
        <5> HIDE DEF z
        <5> QED BY <1>0, <2>1, FS_RemoveElement
      <4>2. Cardinality(Y) < Cardinality(T) /\ Cardinality(Z) < Cardinality(T)
        BY <1>0, <4>1
      <4> QED BY <1>1, <2>1, <4>2
    <3>2. y \in Z /\ z \in Y /\ Z \ {y} = U /\ Y \ {z} = U
      BY <2>1, <2>4
    <3>3. (\A a \in Y : Sum(Y) = f[a] + Sum(Y \ {a})) /\ (\A a \in Z : Sum(Z) = f[a] + Sum(Z \ {a}))
      BY <3>1
    <3> HIDE DEF Y, Z, U, z, Sum
    <3>4. Sum(Z) = f[y] + Sum(U) /\ Sum(Y) = f[z] + Sum(U)
      BY <3>2, <3>3
    <3>5. Sum(U) \in Nat
      BY <1>0, <2>1
    <3>6. Sum(T) = f[y] + Sum(Y)
      BY <2>1, <2>2, <3>4, <3>5
    <3> QED BY <3>6 DEF Y
  <2> QED BY <2>3, <2>4
<1> HIDE DEF F
<1>2. F = SUBSET S
  <2>1. F \in SUBSET SUBSET S
    BY DEF F
  <2> QED BY <1>1, <2>1, BySize
<1>3. S \in F
  BY <1>2
<1> QED BY <1>3 DEF F

LEMMA SumWith ==
    ASSUME NEW f, NEW T, IsFiniteSet(T), NEW x, x \notin T, \A y \in T \union {x} : f[y] \in Nat
    PROVE  SumFunctionOnSet(f, T \union {x}) = f[x] + SumFunctionOnSet(f, T)
<1> DEFINE S == T \union {x}
<1>1. x \in S /\ S \ {x} = T /\ IsFiniteSet(S) /\ \A y \in S : f[y] \in Nat
  BY FS_AddElement
<1> HIDE DEF S
<1>2. SumFunctionOnSet(f, S) = f[x] + SumFunctionOnSet(f, T)
  BY <1>1, SumWithout
<1> QED BY <1>2 DEF S

LEMMA SumBelow ==
    ASSUME NEW f, NEW g, NEW S, IsFiniteSet(S),
           \A x \in S : f[x] \in Nat /\ g[x] \in Nat /\ f[x] <= g[x]
    PROVE  SumFunctionOnSet(f, S) <= SumFunctionOnSet(g, S)
<1> DEFINE F == {T \in SUBSET S : SumFunctionOnSet(f, T) <= SumFunctionOnSet(g, T)}
<1>1. {} \in F
  BY SumOfNone
<1>2. ASSUME NEW T \in F, NEW x \in S \ T PROVE T \union {x} \in F
  <2>1. T \in SUBSET S /\ IsFiniteSet(T) /\ x \in S \ T /\ T \union {x} \in SUBSET S
    BY FS_Subset
  <2>2. /\ SumFunctionOnSet(f, T \union {x}) = f[x] + SumFunctionOnSet(f, T)
        /\ SumFunctionOnSet(g, T \union {x}) = g[x] + SumFunctionOnSet(g, T)
    BY <2>1, SumWith
  <2>3. SumFunctionOnSet(f, T) \in Nat /\ SumFunctionOnSet(g, T) \in Nat
    BY <2>1, SumType
  <2>4. f[x] \in Nat /\ g[x] \in Nat /\ f[x] <= g[x] /\ SumFunctionOnSet(f, T) <= SumFunctionOnSet(g, T)
    OBVIOUS
  <2>5. f[x] + SumFunctionOnSet(f, T) <= g[x] + SumFunctionOnSet(g, T)
    BY <2>3, <2>4
  <2> QED BY <2>1, <2>2, <2>5
<1> HIDE DEF F
<1>3. F = SUBSET S
  <2>1. F \in SUBSET SUBSET S
    BY DEF F
  <2> QED BY <1>1, <1>2, <2>1, OneByOne
<1>4. S \in F
  BY <1>3
<1> QED BY <1>4 DEF F

LEMMA SumSame ==
    ASSUME NEW f, NEW g, NEW S, IsFiniteSet(S),
           \A x \in S : f[x] \in Nat /\ f[x] = g[x]
    PROVE  SumFunctionOnSet(f, S) = SumFunctionOnSet(g, S)
<1>1. \A x \in S : f[x] \in Nat /\ g[x] \in Nat /\ f[x] <= g[x] /\ g[x] <= f[x]
  OBVIOUS
<1>2. SumFunctionOnSet(f, S) <= SumFunctionOnSet(g, S) /\ SumFunctionOnSet(g, S) <= SumFunctionOnSet(f, S)
  BY <1>1, SumBelow
<1>3. SumFunctionOnSet(f, S) \in Nat /\ SumFunctionOnSet(g, S) \in Nat
  BY <1>1, SumType
<1> QED BY <1>2, <1>3

\* What is zero adds nothing.
LEMMA SumOfPart ==
    ASSUME NEW f, NEW S, IsFiniteSet(S), \A x \in S : f[x] \in Nat,
           NEW P \in SUBSET S, \A x \in S \ P : f[x] = 0
    PROVE  SumFunctionOnSet(f, S) = SumFunctionOnSet(f, P)
<1> DEFINE F == {T \in SUBSET (S \ P) : SumFunctionOnSet(f, P \union T) = SumFunctionOnSet(f, P)}
<1>0. IsFiniteSet(S \ P)
  BY FS_Subset
<1>1. {} \in F
  BY Zenon
<1>2. ASSUME NEW T \in F, NEW x \in (S \ P) \ T PROVE T \union {x} \in F
  <2> DEFINE Q == P \union T
  <2>1. Q \in SUBSET S /\ IsFiniteSet(Q) /\ x \in S \ Q /\ T \union {x} \in SUBSET (S \ P)
    <3>1. Q \in SUBSET S
      OBVIOUS
    <3> QED BY <3>1, FS_Subset
  <2>2. P \union (T \union {x}) = Q \union {x} /\ SumFunctionOnSet(f, Q) = SumFunctionOnSet(f, P)
    OBVIOUS
  <2> HIDE DEF Q
  <2>3. SumFunctionOnSet(f, Q \union {x}) = f[x] + SumFunctionOnSet(f, Q)
    BY <2>1, SumWith
  <2>4. SumFunctionOnSet(f, Q) \in Nat
    BY <2>1, SumType
  <2>5. SumFunctionOnSet(f, Q \union {x}) = SumFunctionOnSet(f, P)
    BY <2>2, <2>3, <2>4
  <2> QED BY <2>1, <2>2, <2>5
<1> HIDE DEF F
<1>3. F = SUBSET (S \ P)
  <2>1. F \in SUBSET SUBSET (S \ P)
    BY DEF F
  <2> QED BY <1>0, <1>1, <1>2, <2>1, OneByOne
<1>4. S \ P \in F /\ P \union (S \ P) = S
  BY <1>3
<1> QED BY <1>4 DEF F

LEMMA SumOfSums ==
    ASSUME NEW f, NEW g, NEW h, NEW S, IsFiniteSet(S),
           \A x \in S : f[x] \in Nat /\ g[x] \in Nat /\ h[x] = f[x] + g[x]
    PROVE  SumFunctionOnSet(h, S) = SumFunctionOnSet(f, S) + SumFunctionOnSet(g, S)
<1> DEFINE F == {T \in SUBSET S : SumFunctionOnSet(h, T) = SumFunctionOnSet(f, T) + SumFunctionOnSet(g, T)}
<1>1. {} \in F
  BY SumOfNone
<1>2. ASSUME NEW T \in F, NEW x \in S \ T PROVE T \union {x} \in F
  <2>1. T \in SUBSET S /\ IsFiniteSet(T) /\ x \in S \ T /\ T \union {x} \in SUBSET S
    BY FS_Subset
  <2>2. /\ SumFunctionOnSet(f, T \union {x}) = f[x] + SumFunctionOnSet(f, T)
        /\ SumFunctionOnSet(g, T \union {x}) = g[x] + SumFunctionOnSet(g, T)
        /\ SumFunctionOnSet(h, T \union {x}) = h[x] + SumFunctionOnSet(h, T)
    BY <2>1, SumWith
  <2>3. SumFunctionOnSet(f, T) \in Nat /\ SumFunctionOnSet(g, T) \in Nat
    BY <2>1, SumType
  <2>4. /\ f[x] \in Nat /\ g[x] \in Nat /\ h[x] = f[x] + g[x]
        /\ SumFunctionOnSet(h, T) = SumFunctionOnSet(f, T) + SumFunctionOnSet(g, T)
    OBVIOUS
  <2>5. SumFunctionOnSet(h, T \union {x}) = SumFunctionOnSet(f, T \union {x}) + SumFunctionOnSet(g, T \union {x})
    BY <2>2, <2>3, <2>4
  <2> QED BY <2>1, <2>5
<1> HIDE DEF F
<1>3. F = SUBSET S
  <2>1. F \in SUBSET SUBSET S
    BY DEF F
  <2> QED BY <1>1, <1>2, <2>1, OneByOne
<1>4. S \in F
  BY <1>3
<1> QED BY <1>4 DEF F

\* Rows and columns of a table have the same sum.
LEMMA SumSwapped ==
    ASSUME NEW A, NEW B, IsFiniteSet(A), IsFiniteSet(B), NEW m, \A a \in A, b \in B : m[a][b] \in Nat
    PROVE  SumFunctionOnSet([a \in A |-> SumFunctionOnSet([b \in B |-> m[a][b]], B)], A)
             = SumFunctionOnSet([b \in B |-> SumFunctionOnSet([a \in A |-> m[a][b]], A)], B)
<1> DEFINE Row(a)   == SumFunctionOnSet([b \in B |-> m[a][b]], B)
           rows     == [a \in A |-> Row(a)]
           col(b)   == [a \in A |-> m[a][b]]
           Col(b, T) == SumFunctionOnSet(col(b), T)
           cols(T)  == [b \in B |-> Col(b, T)]
           F == {T \in SUBSET A : SumFunctionOnSet(rows, T) = SumFunctionOnSet(cols(T), B)}
<1>0. \A T \in SUBSET A : IsFiniteSet(T)
  BY FS_Subset
<1>1. \A a \in A : Row(a) \in Nat
  <2> SUFFICES ASSUME NEW a \in A PROVE Row(a) \in Nat
    OBVIOUS
  <2> DEFINE row == [b \in B |-> m[a][b]]
  <2>1. row \in [B -> Nat]
    OBVIOUS
  <2> HIDE DEF row
  <2>2. SumFunctionOnSet(row, B) \in Nat
    BY <2>1, SumType
  <2> QED BY <2>2 DEF row
<1>2. \A b \in B : col(b) \in [A -> Nat]
  OBVIOUS
<1>3. \A b \in B, T \in SUBSET A : Col(b, T) \in Nat
  <2> HIDE DEF col
  <2> QED BY <1>0, <1>2, SumType
<1>4. rows \in [A -> Nat] /\ \A T \in SUBSET A : cols(T) \in [B -> Nat]
  <2> HIDE DEF Row, Col
  <2> QED BY <1>1, <1>3
<1>5. {} \in F
  <2>1. SumFunctionOnSet(rows, {}) = 0
    BY SumOfNone
  <2> DEFINE none == cols({})
  <2>2. none \in [B -> Nat] /\ \A b \in B : none[b] = 0
    <3>1. \A b \in B : Col(b, {}) = 0
      BY SumOfNone
    <3> HIDE DEF Col
    <3> QED BY <3>1
  <2> HIDE DEF none
  <2>3. SumFunctionOnSet(none, B) = SumFunctionOnSet(none, {})
    BY <2>2, SumOfPart
  <2>4. SumFunctionOnSet(none, {}) = 0
    BY SumOfNone
  <2> HIDE DEF rows
  <2>5. SumFunctionOnSet(rows, {}) = SumFunctionOnSet(cols({}), B)
    BY <2>1, <2>3, <2>4 DEF none
  <2> HIDE DEF cols
  <2> QED BY <2>5
<1>6. ASSUME NEW T \in F, NEW a \in A \ T PROVE T \union {a} \in F
  <2> DEFINE U == T \union {a}
             row == [b \in B |-> m[a][b]]
             before == cols(T)
             after  == cols(U)
  <2>1. T \in SUBSET A /\ U \in SUBSET A /\ IsFiniteSet(T)
    BY <1>0
  <2>2. SumFunctionOnSet(rows, U) = Row(a) + SumFunctionOnSet(rows, T)
    <3>1. rows[a] = Row(a)
      OBVIOUS
    <3>2. SumFunctionOnSet(rows, U) = rows[a] + SumFunctionOnSet(rows, T)
      <4> HIDE DEF rows
      <4> QED BY <1>4, <2>1, SumWith
    <3> QED BY <3>1, <3>2
  <2>3. row \in [B -> Nat] /\ before \in [B -> Nat] /\ after \in [B -> Nat]
    <3>1. row \in [B -> Nat]
      OBVIOUS
    <3> HIDE DEF cols, row
    <3> QED BY <1>4, <2>1, <3>1
  <2>4. \A b \in B : after[b] = row[b] + before[b]
    <3> SUFFICES ASSUME NEW b \in B PROVE after[b] = row[b] + before[b]
      OBVIOUS
    <3>1. after[b] = Col(b, U) /\ before[b] = Col(b, T) /\ row[b] = m[a][b] /\ col(b)[a] = m[a][b]
      <4>1. row[b] = m[a][b] /\ col(b)[a] = m[a][b]
        OBVIOUS
      <4> HIDE DEF Col, col, row
      <4> QED BY <4>1
    <3>2. SumFunctionOnSet(col(b), U) = col(b)[a] + SumFunctionOnSet(col(b), T)
      <4> DEFINE c == col(b)
      <4>1. c \in [A -> Nat]
        BY <1>2
      <4> HIDE DEF c
      <4>2. SumFunctionOnSet(c, U) = c[a] + SumFunctionOnSet(c, T)
        BY <2>1, <4>1, SumWith
      <4> QED BY <4>2 DEF c
    <3> HIDE DEF after, before, row, col
    <3> QED BY <3>1, <3>2
  <2>5. SumFunctionOnSet(after, B) = SumFunctionOnSet(row, B) + SumFunctionOnSet(before, B)
    <3> HIDE DEF after, before, row
    <3> QED BY <2>3, <2>4, SumOfSums
  <2>6. SumFunctionOnSet(rows, T) = SumFunctionOnSet(before, B)
    OBVIOUS
  <2>7. SumFunctionOnSet(rows, U) = SumFunctionOnSet(after, B)
    BY <2>2, <2>5, <2>6
  <2> HIDE DEF rows, cols
  <2> QED BY <2>1, <2>7
<1> HIDE DEF F
<1>7. F = SUBSET A
  <2>1. F \in SUBSET SUBSET A
    BY DEF F
  <2> QED BY <1>5, <1>6, <2>1, OneByOne
<1>8. A \in F
  BY <1>7
<1>9. SumFunctionOnSet(rows, A) = SumFunctionOnSet(cols(A), B)
  <2> HIDE DEF rows, cols
  <2> QED BY <1>8 DEF F
<1> QED BY <1>9

-----------------------------------------------------------------------------
(***************************************************************************)
(* Why the windows tell the truth.  A counter that was seen is not smaller *)
(* than what it was seen at, or its kernel was started again since and all *)
(* it has counted is new: whichever the engine takes it for, it finds no   *)
(* more than happened, sample by sample.                                   *)
(***************************************************************************)
StatsType ==
    /\ counters \in [StatNodes -> Counters \union {Unseen}]
    /\ live \in SUBSET StatNodes /\ round \in (SUBSET StatNodes) \union {Unseen}
    /\ views \in [StatNodes -> Views \union {Unseen}]
    /\ rejPrev \in [StatIds -> Nat \union {Unseen}]
    /\ rejEv \in [Ages -> Counters]
    /\ dialled \in [StatIds -> DialStates \union {Unseen}]
    /\ shared \in Nat \union {Unseen}
    /\ alerts \in [shared : BOOLEAN, dial : SUBSET StatIds]
    /\ fresh \in [StatNodes -> Counters]
    /\ truth \in [StatNodes -> [Ages -> Counters]]
    /\ crowded \in Nat /\ exact \in BOOLEAN /\ recounted \in BOOLEAN

\* A node is looked at once in a sample; it has counters then, and while it is registered.
Rounds ==
    /\ \A n \in live : counters[n] # Unseen
    /\ IF round = Unseen THEN \A n \in StatNodes : views[n] = Unseen
       ELSE \A n \in round : counters[n] # Unseen /\ views[n] = Unseen

\* now is a count since, or the count of a kernel started since, what was last seen.
RefusedSince(now, last, new) == now <= new \/ (last # Unseen /\ last <= now /\ now <= last + new)

DialledSince(now, last, new) ==
    \/ now.tried <= new.tried /\ now.failed <= new.failed
    \/ /\ last.tried <= now.tried /\ now.tried <= last.tried + new.tried
       /\ last.failed <= now.failed /\ now.failed <= last.failed + new.failed

LastRefused(n) == IF views[n] # Unseen /\ views[n].saw.refused > 0 THEN views[n].saw.refused ELSE rejPrev[IdOf[n]]

RefusalsFollowed ==
    ~recounted => \A n \in StatNodes :
        /\ counters[n] # Unseen => RefusedSince(counters[n].refused, LastRefused(n), fresh[n].refused)
        /\ views[n] # Unseen => RefusedSince(views[n].saw.refused, rejPrev[IdOf[n]], views[n].happened.refused)

DialsFollowed ==
    \A n \in StatNodes :
        /\ counters[n] # Unseen /\ views[n] # Unseen => DialledSince(counters[n], views[n].saw, fresh[n])
        /\ counters[n] # Unseen /\ views[n] = Unseen /\ dialled[IdOf[n]] # Unseen =>
              DialledSince(counters[n], dialled[IdOf[n]].last, fresh[n])
        /\ views[n] # Unseen /\ dialled[IdOf[n]] # Unseen =>
              DialledSince(views[n].saw, dialled[IdOf[n]].last, views[n].happened)

OrZero(count) == IF count = Unseen THEN 0 ELSE count

\* Nothing was started again: every count goes on from the last one.
ExactlyFollowed ==
    exact =>
        /\ ~recounted
        /\ \A n \in StatNodes :
              /\ counters[n] = Unseen => rejPrev[IdOf[n]] = Unseen /\ fresh[n].refused = 0 /\ views[n] = Unseen
              /\ counters[n] # Unseen => counters[n].refused = OrZero(LastRefused(n)) + fresh[n].refused
              /\ views[n] # Unseen =>
                    views[n].saw.refused = OrZero(rejPrev[IdOf[n]]) + views[n].happened.refused

\* What was refused on all nodes in the interval before a sample.
RefusedAt(a) == SumFunction([n \in StatNodes |-> truth[n][a].refused])

\* The windows hold no more than that, sample by sample.
SamplesHold ==
    \A a \in Ages :
        /\ ~recounted => rejEv[a].refused <= RefusedAt(a)
        /\ exact => rejEv[a].refused = RefusedAt(a)
        /\ \A n \in StatNodes : dialled[IdOf[n]] # Unseen =>
              /\ dialled[IdOf[n]].events[a].tried <= truth[n][a].tried
              /\ dialled[IdOf[n]].events[a].failed <= truth[n][a].failed

SharedCounted == shared # Unseen => shared <= crowded

SamplesInv ==
    /\ StatsType /\ Rounds /\ RefusalsFollowed /\ DialsFollowed /\ ExactlyFollowed
    /\ SamplesHold /\ SharedCounted /\ AlertsJustified

\* The current generation is younger than what it still holds by less than a span; the one
\* before it is older than the current one, and all it holds is; a record in neither is
\* older than a span.
GenType ==
    /\ generation.cur \in Generations \union {Unseen}
    /\ generation.prev \in Generations \union {Unseen}
    /\ generation = [cur |-> generation.cur, prev |-> generation.prev]
    /\ recorded \subseteq 0..MaxAge

Kept == (IF generation.cur = Unseen THEN {} ELSE generation.cur.ages)
          \union (IF generation.prev = Unseen THEN {} ELSE generation.prev.ages)

Spans ==
    /\ generation.cur # Unseen =>
          /\ generation.cur.age <= MaxAge
          /\ \A a \in generation.cur.ages : a <= generation.cur.age /\ a + GenSpan > generation.cur.age
    /\ generation.prev # Unseen =>
          /\ generation.cur # Unseen
          /\ generation.prev.age <= MaxAge /\ generation.prev.age < 2 * GenSpan + generation.cur.age
          /\ \A a \in generation.prev.ages : a <= generation.prev.age /\ a > generation.cur.age
    /\ \A a \in recorded : a \in Kept \/ a > GenSpan

SpansInv == GenType /\ Spans /\ SpansCovered

-----------------------------------------------------------------------------
(***************************************************************************)
(* Types.                                                                  *)
(***************************************************************************)
LEMMA Constants ==
    /\ IsFiniteSet(StatNodes) /\ Window \in Nat /\ SharedSamples \in Nat /\ SharedRejects \in Nat
    /\ DialMinFails \in Nat /\ GenSpan \in Nat /\ GenSpan > 0 /\ MaxAge \in Nat
    /\ Unseen \notin Nat /\ Unseen \notin Counters /\ Unseen \notin Views
    /\ Unseen \notin DialStates /\ Unseen \notin Generations
    /\ \A nodes \in SUBSET StatNodes : nodes # Unseen
    /\ NoCount \in Counters /\ NoCount.refused = 0 /\ NoCount.tried = 0 /\ NoCount.failed = 0
    /\ 0 \in Ages /\ \A a \in Ages : a \in Nat /\ (a # 0 => a - 1 \in Ages)
BY LocalStatsConstants DEF NoCount, Counters, Ages

LEMMA StatsTypeInit == StatsInit => StatsType
<1> SUFFICES ASSUME StatsInit PROVE StatsType
  OBVIOUS
<1>1. NoCount \in Counters
  BY Constants
<1>2. /\ counters \in [StatNodes -> Counters \union {Unseen}] /\ views \in [StatNodes -> Views \union {Unseen}]
      /\ rejPrev \in [StatIds -> Nat \union {Unseen}] /\ dialled \in [StatIds -> DialStates \union {Unseen}]
  BY DEF StatsInit
<1>5. live \in SUBSET StatNodes /\ round \in (SUBSET StatNodes) \union {Unseen} /\ shared \in Nat \union {Unseen}
  BY DEF StatsInit
<1>3. rejEv \in [Ages -> Counters] /\ fresh \in [StatNodes -> Counters] /\ truth \in [StatNodes -> [Ages -> Counters]]
  <2> HIDE DEF NoCount, Ages, Counters
  <2> QED BY <1>1 DEF StatsInit
<1>4. alerts \in [shared : BOOLEAN, dial : SUBSET StatIds] /\ crowded \in Nat /\ exact \in BOOLEAN /\ recounted \in BOOLEAN
  BY DEF StatsInit
<1> QED BY <1>2, <1>3, <1>4, <1>5 DEF StatsType

\* A count goes up by one, with what has happened since it was looked at.
LEMMA CountsUp ==
    ASSUME StatsType, Rounds, NEW n \in StatNodes, NEW what \in DOMAIN NoCount, Counts(n, what)
    PROVE  /\ counters \in [StatNodes -> Counters \union {Unseen}] /\ counters' \in [StatNodes -> Counters \union {Unseen}]
           /\ fresh \in [StatNodes -> Counters] /\ fresh' \in [StatNodes -> Counters]
           /\ counters[n] \in Counters /\ counters'[n] \in Counters
           /\ \A m \in StatNodes \ {n} : counters'[m] = counters[m] /\ fresh'[m] = fresh[m]
           /\ \E r \in {0, 1}, t \in {0, 1}, f \in {0, 1} :
                 /\ counters'[n].refused = counters[n].refused + r /\ fresh'[n].refused = fresh[n].refused + r
                 /\ counters'[n].tried = counters[n].tried + t /\ fresh'[n].tried = fresh[n].tried + t
                 /\ counters'[n].failed = counters[n].failed + f /\ fresh'[n].failed = fresh[n].failed + f
<1>1. /\ counters \in [StatNodes -> Counters \union {Unseen}] /\ fresh \in [StatNodes -> Counters]
      /\ counters[n] \in Counters /\ fresh[n] \in Counters
  <2>1. n \in live \/ (round # Unseen /\ n \in round)
    BY DEF Counts, Awaited
  <2>2. counters[n] # Unseen
    BY <2>1 DEF Rounds
  <2> QED BY <2>2 DEF StatsType
<1>2. /\ counters' = [counters EXCEPT ![n] = [counters[n] EXCEPT ![what] = counters[n][what] + 1]]
      /\ fresh' = [fresh EXCEPT ![n] = [fresh[n] EXCEPT ![what] = fresh[n][what] + 1]]
  BY DEF Counts
<1>3. what \in {"refused", "tried", "failed"}
  BY DEF NoCount
<1>4. CASE what = "refused"
  BY <1>1, <1>2, <1>4 DEF Counters
<1>5. CASE what = "tried"
  BY <1>1, <1>2, <1>5 DEF Counters
<1>6. CASE what = "failed"
  BY <1>1, <1>2, <1>6 DEF Counters
<1> QED BY <1>3, <1>4, <1>5, <1>6

LEMMA ShiftType ==
    ASSUME NEW window \in [Ages -> Counters], NEW new \in Counters
    PROVE  /\ Shift(window, new) \in [Ages -> Counters]
           /\ Shift(window, new)[0] = new
           /\ \A a \in Ages : a # 0 => Shift(window, new)[a] = window[a - 1]
<1>1. 0 \in Ages /\ \A a \in Ages : a # 0 => a - 1 \in Ages
  BY Constants
<1> HIDE DEF Ages
<1> QED BY <1>1 DEF Shift

\* With an ID of its own a node is compared with what was last seen of it.
LEMMA OwnViews ==
    ASSUME StatsType, OwnIds, NEW n \in StatNodes, NEW order \in Orders
    PROVE  /\ IdOf[n] \in StatIds
           /\ OfId(IdOf[n]) = IF n \in Viewed THEN {n} ELSE {}
           /\ Earlier(n, order) = {}
           /\ LastRefusals({}, IdOf[n], order) = rejPrev[IdOf[n]]
           /\ LastRefusals(OfId(IdOf[n]), IdOf[n], order) = LastRefused(n)
           /\ LastDials({}, IdOf[n], order) = IF dialled[IdOf[n]] = Unseen THEN Unseen ELSE dialled[IdOf[n]].last
           /\ n \in Viewed => LastDials(OfId(IdOf[n]), IdOf[n], order) = views[n].saw
<1>1. IdOf[n] \in StatIds
  BY DEF StatIds
<1>2. OfId(IdOf[n]) = IF n \in Viewed THEN {n} ELSE {}
  <2>1. \A m \in OfId(IdOf[n]) : m = n
    BY DEF OfId, Viewed, OwnIds
  <2>2. n \in OfId(IdOf[n]) <=> n \in Viewed
    BY DEF OfId
  <2> QED BY <2>1, <2>2
<1>3. order[n] \in Nat
  BY DEF Orders, Injection
<1>4. Earlier(n, order) = {}
  <2>1. \A m \in Earlier(n, order) : m = n /\ order[m] < order[n]
    BY <1>2 DEF Earlier
  <2> QED BY <1>3, <2>1
<1>5. LastRefusals({}, IdOf[n], order) = rejPrev[IdOf[n]]
  BY DEF LastRefusals
<1>6. Latest({n}, order) = n
  BY DEF Latest
<1>7. LastRefusals(OfId(IdOf[n]), IdOf[n], order) = LastRefused(n)
  <2>1. CASE n \notin Viewed
    BY <1>2, <1>5, <2>1 DEF LastRefused, Viewed
  <2>2. CASE n \in Viewed /\ views[n].saw.refused > 0
    <3>1. {m \in {n} : views[m].saw.refused > 0} = {n}
      BY <2>2
    <3>2. LastRefusals({n}, IdOf[n], order) = views[n].saw.refused
      BY <1>6, <3>1 DEF LastRefusals
    <3> QED BY <1>2, <2>2, <3>2 DEF LastRefused, Viewed
  <2>3. CASE n \in Viewed /\ ~(views[n].saw.refused > 0)
    <3>1. {m \in {n} : views[m].saw.refused > 0} = {}
      BY <2>3
    <3>2. LastRefusals({n}, IdOf[n], order) = rejPrev[IdOf[n]]
      BY <3>1 DEF LastRefusals
    <3> QED BY <1>2, <2>3, <3>2 DEF LastRefused
  <2> QED BY <2>1, <2>2, <2>3
<1>8. LastDials({}, IdOf[n], order) = IF dialled[IdOf[n]] = Unseen THEN Unseen ELSE dialled[IdOf[n]].last
  BY DEF LastDials
<1>9. n \in Viewed => LastDials(OfId(IdOf[n]), IdOf[n], order) = views[n].saw
  BY <1>2, <1>6 DEF LastDials
<1> QED BY <1>1, <1>2, <1>4, <1>5, <1>7, <1>8, <1>9

LEMMA NewDialsType ==
    ASSUME StatsType, OwnIds, NEW n \in Viewed, NEW order \in Orders
    PROVE  /\ NewDials(n, order) \in Counters /\ NewDials(n, order).refused = 0
           /\ dialled[IdOf[n]] = Unseen => NewDials(n, order) = NoCount
<1> DEFINE now  == views[n].saw
           last == LastDials(Earlier(n, order), IdOf[n], order)
<1>0. n \in StatNodes /\ views[n] # Unseen /\ now \in Counters
  BY DEF Viewed, StatsType, Views
<1>1. last = IF dialled[IdOf[n]] = Unseen THEN Unseen ELSE dialled[IdOf[n]].last
  BY <1>0, OwnViews
<1>2. dialled[IdOf[n]] # Unseen => last \in Counters /\ last # Unseen
  <2>1. dialled[IdOf[n]] # Unseen => dialled[IdOf[n]] \in DialStates
    BY <1>0 DEF StatsType, StatIds
  <2>2. dialled[IdOf[n]] # Unseen => dialled[IdOf[n]].last \in Counters
    BY <2>1 DEF DialStates
  <2> QED BY <1>1, <2>2, Constants
<1>3. CASE dialled[IdOf[n]] = Unseen
  <2>1. NewDials(n, order) = NoCount
    BY <1>1, <1>3 DEF NewDials
  <2> QED BY <2>1, Constants
<1>4. CASE dialled[IdOf[n]] # Unseen
  <2>0. NewDials(n, order) = IF now.tried >= last.tried /\ now.failed >= last.failed
            THEN [NoCount EXCEPT !.tried = now.tried - last.tried, !.failed = now.failed - last.failed]
            ELSE [now EXCEPT !.refused = 0]
    BY <1>2, <1>4 DEF NewDials
  <2> HIDE DEF now, last
  <2>1. /\ now.tried \in Nat /\ now.failed \in Nat /\ last.tried \in Nat /\ last.failed \in Nat
        /\ now.tried >= last.tried => now.tried - last.tried \in Nat
        /\ now.failed >= last.failed => now.failed - last.failed \in Nat
    BY <1>0, <1>2, <1>4 DEF Counters
  <2>2. [now EXCEPT !.refused = 0] \in Counters /\ [now EXCEPT !.refused = 0].refused = 0
    BY <1>0 DEF Counters
  <2>3. ASSUME now.tried >= last.tried, now.failed >= last.failed
        PROVE  LET d == [NoCount EXCEPT !.tried = now.tried - last.tried, !.failed = now.failed - last.failed]
               IN  d \in Counters /\ d.refused = 0
    BY <2>1, <2>3 DEF NoCount, Counters
  <2> QED BY <1>4, <2>0, <2>2, <2>3
<1> QED BY <1>3, <1>4

\* And what was dialled at its ID is what it dialled.
LEMMA OwnDials ==
    ASSUME StatsType, OwnIds, NEW n \in Viewed, NEW order \in Orders, NEW what \in {"tried", "failed"}
    PROVE  DialsOf(OfId(IdOf[n]), what, order) = NewDials(n, order)[what]
<1>0. n \in StatNodes
  BY DEF Viewed
<1> DEFINE f == [m \in {n} |-> NewDials(m, order)[what]]
<1>1. f[n] = NewDials(n, order)[what] /\ f[n] \in Nat
  BY NewDialsType DEF Counters
<1>2. OfId(IdOf[n]) = {n}
  BY <1>0, OwnViews
<1>3. DialsOf({n}, what, order) = SumFunctionOnSet(f, {n})
  BY DEF DialsOf, SumFunction
<1> HIDE DEF f
<1>4. SumFunctionOnSet(f, {n}) = f[n]
  <2>1. {} \union {n} = {n} /\ \A m \in {} \union {n} : f[m] \in Nat
    BY <1>1
  <2>2. SumFunctionOnSet(f, {} \union {n}) = f[n] + SumFunctionOnSet(f, {})
    BY <2>1, FS_EmptySet, SumWith
  <2> QED BY <1>1, <2>1, <2>2, SumOfNone
<1> QED BY <1>1, <1>2, <1>3, <1>4

LEMMA StepDialIs ==
    ASSUME StatsType, OwnIds, NEW n \in StatNodes, NEW order \in Orders
    PROVE  /\ n \notin Viewed => StepDial(IdOf[n], order) = Unseen
           /\ n \in Viewed =>
                 /\ StepDial(IdOf[n], order) \in DialStates
                 /\ StepDial(IdOf[n], order).last = views[n].saw
                 /\ StepDial(IdOf[n], order).events[0] = NewDials(n, order)
                 /\ \A a \in Ages : a # 0 =>
                       StepDial(IdOf[n], order).events[a] =
                           IF dialled[IdOf[n]] = Unseen THEN NoCount ELSE dialled[IdOf[n]].events[a - 1]
<1>1. CASE n \notin Viewed
  BY <1>1, OwnViews DEF StepDial
<1>2. CASE n \in Viewed
  <2> DEFINE was  == IF dialled[IdOf[n]] = Unseen THEN [a \in Ages |-> NoCount] ELSE dialled[IdOf[n]].events
             news == [NoCount EXCEPT !.tried = DialsOf(OfId(IdOf[n]), "tried", order),
                                     !.failed = DialsOf(OfId(IdOf[n]), "failed", order)]
  <2>1. views[n].saw \in Counters /\ OfId(IdOf[n]) # {} /\ LastDials(OfId(IdOf[n]), IdOf[n], order) = views[n].saw
    BY <1>2, OwnViews DEF Viewed, StatsType, Views
  <2>2. was \in [Ages -> Counters]
    <3>1. CASE dialled[IdOf[n]] = Unseen
      BY <3>1, Constants
    <3>2. CASE dialled[IdOf[n]] # Unseen
      BY <3>2, OwnViews DEF StatsType, DialStates
    <3> QED BY <3>1, <3>2
  <2>3. news = NewDials(n, order) /\ news \in Counters
    <3>1. news = [NoCount EXCEPT !.tried = NewDials(n, order).tried, !.failed = NewDials(n, order).failed]
      BY <1>2, OwnDials
    <3>2. NewDials(n, order) \in Counters /\ NewDials(n, order).refused = 0
      BY <1>2, NewDialsType
    <3> QED BY <3>1, <3>2 DEF NoCount, Counters
  <2>4. StepDial(IdOf[n], order) = [last |-> views[n].saw, events |-> Shift(was, news)]
    BY <2>1 DEF StepDial
  <2>5. \A a \in Ages : a # 0 => was[a - 1] = IF dialled[IdOf[n]] = Unseen THEN NoCount ELSE dialled[IdOf[n]].events[a - 1]
    BY Constants
  <2> HIDE DEF was, news
  <2>6. /\ Shift(was, news) \in [Ages -> Counters] /\ Shift(was, news)[0] = news
        /\ \A a \in Ages : a # 0 => Shift(was, news)[a] = was[a - 1]
    BY <2>2, <2>3, ShiftType
  <2>7. StepDial(IdOf[n], order).last = views[n].saw /\ StepDial(IdOf[n], order).events = Shift(was, news)
    BY <2>4
  <2>8. StepDial(IdOf[n], order) \in DialStates
    BY <2>1, <2>4, <2>6 DEF DialStates
  <2> QED BY <1>2, <2>3, <2>5, <2>6, <2>7, <2>8
<1> QED BY <1>1, <1>2

\* What the engine finds on the nodes it has looked at.
Found(order) == SumFunction([n \in Viewed |-> NewRefusals(n, order)])

LEMMA FoundType ==
    ASSUME StatsType, OwnIds, NEW order \in Orders
    PROVE  /\ IsFiniteSet(Viewed) /\ (\A n \in Viewed : NewRefusals(n, order) \in Nat)
           /\ Found(order) \in Nat
           /\ \A n \in Viewed : NewRefusals(n, order) =
                 IF rejPrev[IdOf[n]] # Unseen /\ views[n].saw.refused >= rejPrev[IdOf[n]]
                 THEN views[n].saw.refused - rejPrev[IdOf[n]] ELSE views[n].saw.refused
<1>1. IsFiniteSet(Viewed)
  BY Constants, FS_Subset DEF Viewed
<1>2. ASSUME NEW n \in Viewed
      PROVE  /\ NewRefusals(n, order) \in Nat
             /\ NewRefusals(n, order) = IF rejPrev[IdOf[n]] # Unseen /\ views[n].saw.refused >= rejPrev[IdOf[n]]
                                        THEN views[n].saw.refused - rejPrev[IdOf[n]] ELSE views[n].saw.refused
  <2>1. n \in StatNodes /\ IdOf[n] \in StatIds /\ views[n] # Unseen /\ views[n].saw.refused \in Nat
    BY DEF Viewed, StatsType, Views, Counters, StatIds
  <2>2. rejPrev[IdOf[n]] # Unseen => rejPrev[IdOf[n]] \in Nat
    BY <2>1 DEF StatsType
  <2>3. LastRefusals(Earlier(n, order), IdOf[n], order) = rejPrev[IdOf[n]]
    BY <2>1, OwnViews
  <2> QED BY <2>1, <2>2, <2>3 DEF NewRefusals
<1> DEFINE f == [n \in Viewed |-> NewRefusals(n, order)]
<1>3. f \in [Viewed -> Nat] /\ DOMAIN f = Viewed
  BY <1>2
<1> HIDE DEF f
<1>4. SumFunctionOnSet(f, Viewed) \in Nat
  BY <1>1, <1>3, SumType
<1>5. Found(order) = SumFunctionOnSet(f, Viewed)
  BY <1>3 DEF Found, f, SumFunction
<1> QED BY <1>1, <1>2, <1>4, <1>5

\* The engine's state after a sample.
LEMMA StepIs ==
    ASSUME StatsType, OwnIds, NEW order \in Orders, NEW known \in BOOLEAN, NEW over \in BOOLEAN, NEW full \in BOOLEAN, Step(order, known, over, full)
    PROVE  /\ rejEv' \in [Ages -> Counters]
           /\ rejEv'[0].refused = Found(order) /\ \A a \in Ages : a # 0 => rejEv'[a] = rejEv[a - 1]
           /\ rejPrev' \in [StatIds -> Nat \union {Unseen}]
           /\ \A n \in StatNodes : rejPrev'[IdOf[n]] = IF full THEN Unseen ELSE LastRefused(n)
           /\ dialled' \in [StatIds -> DialStates \union {Unseen}] /\ \A n \in StatNodes : dialled'[IdOf[n]] = StepDial(IdOf[n], order)
           /\ truth' \in [StatNodes -> [Ages -> Counters]]
           /\ \A n \in StatNodes :
                 /\ truth'[n][0] = IF n \in Viewed THEN views[n].happened ELSE NoCount
                 /\ \A a \in Ages : a # 0 => truth'[n][a] = truth[n][a - 1]
<1>1. [NoCount EXCEPT !.refused = Found(order)] \in Counters /\ [NoCount EXCEPT !.refused = Found(order)].refused = Found(order)
  BY FoundType DEF NoCount, Counters
<1>2. rejEv' = Shift(rejEv, [NoCount EXCEPT !.refused = Found(order)])
  BY DEF Step, Found
<1>3. rejEv \in [Ages -> Counters]
  BY DEF StatsType
<1>4. /\ rejPrev' \in [StatIds -> Nat \union {Unseen}]
      /\ \A n \in StatNodes : rejPrev'[IdOf[n]] = IF full THEN Unseen ELSE LastRefused(n)
  <2>1. rejPrev' = [i \in StatIds |-> IF full THEN Unseen ELSE LastRefusals(OfId(i), i, order)]
    BY DEF Step
  <2>2. \A n \in StatNodes : LastRefusals(OfId(IdOf[n]), IdOf[n], order) = LastRefused(n) /\ IdOf[n] \in StatIds
    BY OwnViews
  <2>3. ASSUME NEW i \in StatIds PROVE (IF full THEN Unseen ELSE LastRefusals(OfId(i), i, order)) \in Nat \union {Unseen}
    <3>1. PICK n \in StatNodes : i = IdOf[n]
      BY DEF StatIds
    <3>2. LastRefused(n) \in Nat \union {Unseen}
      BY <3>1 DEF LastRefused, StatsType, Views, Counters
    <3> QED BY <2>2, <3>1, <3>2
  <2>4. \A n \in StatNodes : rejPrev'[IdOf[n]] = IF full THEN Unseen ELSE LastRefused(n)
    <3> SUFFICES ASSUME NEW n \in StatNodes PROVE rejPrev'[IdOf[n]] = IF full THEN Unseen ELSE LastRefused(n)
      OBVIOUS
    <3>1. rejPrev'[IdOf[n]] = IF full THEN Unseen ELSE LastRefusals(OfId(IdOf[n]), IdOf[n], order)
      BY <2>1, <2>2
    <3> QED BY <2>2, <3>1
  <2> QED BY <2>1, <2>3, <2>4
<1>5. dialled' \in [StatIds -> DialStates \union {Unseen}] /\ \A n \in StatNodes : dialled'[IdOf[n]] = StepDial(IdOf[n], order)
  <2>1. dialled' = [i \in StatIds |-> StepDial(i, order)]
    BY DEF Step
  <2>2. ASSUME NEW i \in StatIds PROVE StepDial(i, order) \in DialStates \union {Unseen}
    <3>1. PICK n \in StatNodes : i = IdOf[n]
      BY DEF StatIds
    <3> QED BY <3>1, StepDialIs
  <2>3. \A n \in StatNodes : IdOf[n] \in StatIds
    BY DEF StatIds
  <2> QED BY <2>1, <2>2, <2>3
<1>6. ASSUME NEW n \in StatNodes
      PROVE  /\ truth'[n] \in [Ages -> Counters]
             /\ truth'[n][0] = IF n \in Viewed THEN views[n].happened ELSE NoCount
             /\ \A a \in Ages : a # 0 => truth'[n][a] = truth[n][a - 1]
  <2> DEFINE new == IF n \in Viewed THEN views[n].happened ELSE NoCount
  <2>1. new \in Counters
    BY Constants DEF StatsType, Viewed, Views
  <2>2. truth'[n] = Shift(truth[n], new)
    BY DEF Step
  <2>3. truth[n] \in [Ages -> Counters]
    BY DEF StatsType
  <2> HIDE DEF new
  <2>4. /\ truth'[n] \in [Ages -> Counters] /\ truth'[n][0] = new
        /\ \A a \in Ages : a # 0 => truth'[n][a] = truth[n][a - 1]
    BY <2>1, <2>2, <2>3, ShiftType
  <2> QED BY <2>4 DEF new
<1>7. truth' \in [StatNodes -> [Ages -> Counters]]
  <2>1. truth' = [n \in StatNodes |-> truth'[n]]
    BY DEF Step
  <2> HIDE DEF Ages, Counters
  <2> QED BY <1>6, <2>1
<1>8. /\ rejEv' \in [Ages -> Counters]
      /\ rejEv'[0] = [NoCount EXCEPT !.refused = Found(order)] /\ \A a \in Ages : a # 0 => rejEv'[a] = rejEv[a - 1]
  BY <1>1, <1>2, <1>3, ShiftType
<1> QED BY <1>1, <1>4, <1>5, <1>6, <1>7, <1>8

LEMMA StatsTypeStep == OwnIds /\ StatsType /\ Rounds /\ SampleNext => StatsType'
<1> SUFFICES ASSUME OwnIds, StatsType, Rounds, SampleNext PROVE StatsType'
  OBVIOUS
<1>0. NoCount \in Counters
  BY Constants
<1>1. ASSUME NEW n \in StatNodes, RegisterNode(n) \/ NewTracker(n) \/ Deregister(n) PROVE StatsType'
  <2>1. counters' \in [StatNodes -> Counters \union {Unseen}] /\ live' \in SUBSET StatNodes /\ exact' \in BOOLEAN
    BY <1>0, <1>1 DEF StatsType, RegisterNode, NewTracker, Deregister
  <2> QED BY <1>1, <2>1 DEF StatsType, RegisterNode, NewTracker, Deregister
<1>2. ASSUME NEW n \in StatNodes, NEW what \in DOMAIN NoCount, Counts(n, what) PROVE StatsType'
  BY <1>2, CountsUp DEF StatsType, Counts
<1>3. CASE BeginSample
  BY <1>3 DEF StatsType, BeginSample
<1>4. ASSUME NEW n \in StatNodes, View(n) PROVE StatsType'
  <2>1. round' \in SUBSET StatNodes
    BY <1>4 DEF StatsType, View, Awaited
  <2>2. counters[n] \in Counters /\ fresh[n] \in Counters
    BY <1>4 DEF StatsType, View, Awaited, Rounds
  <2> DEFINE new == [saw |-> counters[n], happened |-> fresh[n]]
  <2>3. new \in Views
    BY <2>2 DEF Views
  <2>4. views' = [views EXCEPT ![n] = new]
    BY <1>4 DEF View
  <2> HIDE DEF new
  <2> QED BY <1>0, <1>4, <2>1, <2>3, <2>4 DEF StatsType, View
<1>5. ASSUME NEW order \in Orders, NEW known \in BOOLEAN, NEW over \in BOOLEAN, NEW full \in BOOLEAN, Step(order, known, over, full)
      PROVE  StatsType'
  <2>1. rejEv' \in [Ages -> Counters] /\ rejPrev' \in [StatIds -> Nat \union {Unseen}]
    BY <1>5, StepIs
  <2>2. dialled' \in [StatIds -> DialStates \union {Unseen}] /\ truth' \in [StatNodes -> [Ages -> Counters]]
    BY <1>5, StepIs
  <2>3. views' \in [StatNodes -> Views \union {Unseen}] /\ round' = Unseen
    BY <1>5 DEF Step
  <2>4. shared' \in Nat \union {Unseen} /\ crowded' \in Nat
    BY <1>5, Constants DEF Step, StatsType
  <2>5. alerts' \in [shared : BOOLEAN, dial : SUBSET StatIds]
    BY <1>5 DEF Step
  <2>6. exact' \in BOOLEAN /\ recounted' \in BOOLEAN /\ counters' = counters /\ fresh' = fresh /\ live' = live
    BY <1>5 DEF Step, StatsType
  <2> QED BY <2>1, <2>2, <2>3, <2>4, <2>5, <2>6 DEF StatsType
<1> QED BY <1>1, <1>2, <1>3, <1>4, <1>5 DEF SampleNext, StatNode, Sample

-----------------------------------------------------------------------------
(***************************************************************************)
(* The counters are followed.                                              *)
(***************************************************************************)
Followed == Rounds /\ RefusalsFollowed /\ DialsFollowed /\ ExactlyFollowed

\* What the types say of one node.
LEMMA NodeTypes ==
    ASSUME StatsType, NEW n \in StatNodes
    PROVE  /\ counters[n] # Unseen => counters[n] \in Counters
           /\ views[n] # Unseen => views[n].saw \in Counters /\ views[n].happened \in Counters
           /\ rejPrev[IdOf[n]] # Unseen => rejPrev[IdOf[n]] \in Nat
           /\ dialled[IdOf[n]] # Unseen => dialled[IdOf[n]].last \in Counters /\ dialled[IdOf[n]].events \in [Ages -> Counters]
           /\ fresh[n] \in Counters
<1>1. IdOf[n] \in StatIds
  BY DEF StatIds
<1> QED BY <1>1 DEF StatsType, Views, DialStates

LEMMA FollowedInit == StatsInit => Followed
<1> SUFFICES ASSUME StatsInit PROVE Followed
  OBVIOUS
<1>1. /\ live = {} /\ round = Unseen /\ ~recounted
      /\ \A n \in StatNodes : /\ counters[n] = Unseen /\ views[n] = Unseen /\ rejPrev[IdOf[n]] = Unseen
                               /\ dialled[IdOf[n]] = Unseen /\ fresh[n].refused = 0
  <2>1. \A n \in StatNodes : IdOf[n] \in StatIds
    BY DEF StatIds
  <2> QED BY <2>1, Constants DEF StatsInit
<1> QED BY <1>1 DEF Followed, Rounds, RefusalsFollowed, DialsFollowed, ExactlyFollowed

LEMMA FollowedNewCounters ==
    ASSUME StatsType, Followed, NEW n \in StatNodes, RegisterNode(n) \/ NewTracker(n)
    PROVE  Followed'
<1>0. /\ counters' = [counters EXCEPT ![n] = NoCount] /\ counters'[n] = NoCount /\ NoCount # Unseen
      /\ NoCount.refused = 0 /\ NoCount.tried = 0 /\ NoCount.failed = 0
      /\ \A m \in StatNodes \ {n} : counters'[m] = counters[m]
      /\ live' \subseteq live \union {n}
      /\ UNCHANGED <<round, views, rejPrev, dialled, fresh, recounted>>
  BY Constants DEF RegisterNode, NewTracker, StatsType
<1>1. Rounds'
  BY <1>0 DEF Followed, Rounds, StatsType
<1>2. RefusalsFollowed'
  <2>1. RefusedSince(0, LastRefused(n), fresh[n].refused)
    BY NodeTypes DEF RefusedSince, Counters
  <2>2. \A m \in StatNodes : LastRefused(m)' = LastRefused(m)
    BY <1>0 DEF LastRefused
  <2> QED BY <1>0, <2>1, <2>2 DEF Followed, RefusalsFollowed
<1>3. DialsFollowed'
  <2>1. /\ DialledSince(NoCount, views[n].saw, fresh[n])
        /\ DialledSince(NoCount, dialled[IdOf[n]].last, fresh[n])
    BY <1>0, NodeTypes DEF DialledSince, Counters
  <2> QED BY <1>0, <2>1 DEF Followed, DialsFollowed
<1>4. ExactlyFollowed'
  <2> SUFFICES ASSUME exact' PROVE ExactlyFollowed'
    BY DEF ExactlyFollowed
  <2>1. exact /\ counters[n] = Unseen
    BY DEF RegisterNode, NewTracker
  <2>2. fresh[n].refused = 0 /\ views[n] = Unseen /\ rejPrev[IdOf[n]] = Unseen
    BY <2>1 DEF Followed, ExactlyFollowed
  <2>3. \A m \in StatNodes : LastRefused(m)' = LastRefused(m)
    BY <1>0 DEF LastRefused
  <2>4. OrZero(LastRefused(n)) = 0
    BY <2>2 DEF LastRefused, OrZero
  <2> QED BY <1>0, <2>1, <2>2, <2>3, <2>4 DEF Followed, ExactlyFollowed
<1> QED BY <1>1, <1>2, <1>3, <1>4 DEF Followed

LEMMA FollowedDeregister ==
    ASSUME StatsType, Followed, NEW n \in StatNodes, Deregister(n)
    PROVE  Followed'
<1>0. /\ ~exact' /\ live' \subseteq live
      /\ UNCHANGED <<counters, round, views, rejPrev, dialled, fresh, recounted>>
  BY DEF Deregister, StatsType
<1>1. \A m \in StatNodes : LastRefused(m)' = LastRefused(m)
  BY <1>0 DEF LastRefused
<1>2. Rounds'
  BY <1>0 DEF Followed, Rounds
<1>3. RefusalsFollowed'
  BY <1>0, <1>1 DEF Followed, RefusalsFollowed
<1>4. DialsFollowed'
  BY <1>0 DEF Followed, DialsFollowed
<1> QED BY <1>0, <1>2, <1>3, <1>4 DEF Followed, ExactlyFollowed

LEMMA FollowedCounts ==
    ASSUME StatsType, Followed, NEW n \in StatNodes, NEW what \in DOMAIN NoCount, Counts(n, what)
    PROVE  Followed'
<1>0. /\ UNCHANGED <<live, round, views, rejPrev, dialled, exact, recounted>>
      /\ counters[n] # Unseen /\ counters'[n] # Unseen
      /\ counters[n] \in Counters /\ counters'[n] \in Counters /\ fresh[n] \in Counters /\ fresh'[n] \in Counters
      /\ \A m \in StatNodes \ {n} : counters'[m] = counters[m] /\ fresh'[m] = fresh[m]
  <2>1. UNCHANGED <<live, round, views, rejPrev, dialled, exact, recounted>> /\ Rounds
    BY DEF Counts, Followed
  <2>2. counters[n] \in Counters /\ counters'[n] \in Counters /\ fresh[n] \in Counters /\ fresh'[n] \in Counters
    BY <2>1, CountsUp
  <2> QED BY <2>1, <2>2, Constants, CountsUp
<1>9. Rounds
  BY DEF Followed
<1>1. PICK r \in {0, 1}, t \in {0, 1}, f \in {0, 1} :
        /\ counters'[n].refused = counters[n].refused + r /\ fresh'[n].refused = fresh[n].refused + r
        /\ counters'[n].tried = counters[n].tried + t /\ fresh'[n].tried = fresh[n].tried + t
        /\ counters'[n].failed = counters[n].failed + f /\ fresh'[n].failed = fresh[n].failed + f
  BY <1>9, CountsUp
<1>2. /\ counters[n].refused \in Nat /\ counters[n].tried \in Nat /\ counters[n].failed \in Nat
      /\ fresh[n].refused \in Nat /\ fresh[n].tried \in Nat /\ fresh[n].failed \in Nat
  BY <1>0 DEF Counters
<1>3. \A m \in StatNodes : LastRefused(m)' = LastRefused(m)
  BY <1>0 DEF LastRefused
<1>4. LastRefused(n) # Unseen => LastRefused(n) \in Nat
  BY NodeTypes DEF LastRefused, Counters
<1>5. Rounds'
  BY <1>0 DEF Followed, Rounds, StatsType
<1>6. RefusalsFollowed'
  <2> SUFFICES ASSUME ~recounted PROVE RefusalsFollowed'
    BY <1>0 DEF RefusalsFollowed
  <2>1. RefusedSince(counters[n].refused, LastRefused(n), fresh[n].refused)
    BY <1>0 DEF Followed, RefusalsFollowed
  <2>2. RefusedSince(counters'[n].refused, LastRefused(n), fresh'[n].refused)
    BY <1>1, <1>2, <1>4, <2>1 DEF RefusedSince
  <2> QED BY <1>0, <1>3, <2>2 DEF Followed, RefusalsFollowed
<1>7. DialsFollowed'
  <2>1. ASSUME NEW last \in Counters, DialledSince(counters[n], last, fresh[n])
        PROVE  DialledSince(counters'[n], last, fresh'[n])
    <3>1. last.tried \in Nat /\ last.failed \in Nat
      BY DEF Counters
    <3> QED BY <1>1, <1>2, <2>1, <3>1 DEF DialledSince
  <2>2. views[n] # Unseen => DialledSince(counters'[n], views[n].saw, fresh'[n])
    BY <1>0, <2>1, NodeTypes DEF Followed, DialsFollowed
  <2>3. views[n] = Unseen /\ dialled[IdOf[n]] # Unseen => DialledSince(counters'[n], dialled[IdOf[n]].last, fresh'[n])
    BY <1>0, <2>1, NodeTypes DEF Followed, DialsFollowed
  <2> QED BY <1>0, <2>2, <2>3 DEF Followed, DialsFollowed
<1>8. ExactlyFollowed'
  <2> SUFFICES ASSUME exact PROVE ExactlyFollowed'
    BY <1>0 DEF ExactlyFollowed
  <2>1. counters[n].refused = OrZero(LastRefused(n)) + fresh[n].refused /\ OrZero(LastRefused(n)) \in Nat
    BY <1>0, <1>4 DEF Followed, ExactlyFollowed, OrZero
  <2>2. counters'[n].refused = OrZero(LastRefused(n)) + fresh'[n].refused
    BY <1>1, <1>2, <2>1
  <2> QED BY <1>0, <1>3, <2>2 DEF Followed, ExactlyFollowed
<1> QED BY <1>5, <1>6, <1>7, <1>8 DEF Followed

LEMMA FollowedBeginSample ==
    ASSUME StatsType, Followed, BeginSample
    PROVE  Followed'
<1>0. /\ round = Unseen /\ round' = live /\ round' # Unseen
      /\ UNCHANGED <<counters, live, views, rejPrev, dialled, fresh, exact, recounted>>
  <2>1. round' \in SUBSET StatNodes
    BY DEF BeginSample, StatsType
  <2> QED BY <2>1, Constants DEF BeginSample
<1>1. \A m \in StatNodes : LastRefused(m)' = LastRefused(m)
  BY <1>0 DEF LastRefused
<1>2. Rounds'
  <2>1. \A m \in live : m \in StatNodes
    BY DEF StatsType
  <2> QED BY <1>0, <2>1 DEF Followed, Rounds
<1>3. RefusalsFollowed' /\ ExactlyFollowed'
  BY <1>0, <1>1 DEF Followed, RefusalsFollowed, ExactlyFollowed
<1>4. DialsFollowed'
  BY <1>0 DEF Followed, DialsFollowed
<1> QED BY <1>2, <1>3, <1>4 DEF Followed

LEMMA FollowedView ==
    ASSUME StatsType, Followed, NEW n \in StatNodes, View(n)
    PROVE  Followed'
<1>0. /\ counters[n] # Unseen /\ views[n] = Unseen
      /\ counters[n] \in Counters /\ fresh[n] \in Counters /\ fresh'[n] = NoCount
      /\ \A m \in StatNodes \ {n} : views'[m] = views[m] /\ fresh'[m] = fresh[m]
      /\ UNCHANGED <<counters, live, rejPrev, dialled, exact, recounted>>
  BY NodeTypes DEF View, Awaited, Followed, Rounds, StatsType
<1>1. views'[n] # Unseen /\ views'[n].saw = counters[n] /\ views'[n].happened = fresh[n]
  <2> DEFINE new == [saw |-> counters[n], happened |-> fresh[n]]
  <2>1. new \in Views /\ new.saw = counters[n] /\ new.happened = fresh[n]
    BY <1>0 DEF Views
  <2>2. views'[n] = new
    BY DEF View, StatsType
  <2> QED BY <2>1, <2>2, Constants
<1>2. /\ counters[n].refused \in Nat /\ counters[n].tried \in Nat /\ counters[n].failed \in Nat
      /\ fresh'[n].refused = 0 /\ fresh'[n].tried = 0 /\ fresh'[n].failed = 0
  BY <1>0, Constants DEF Counters
<1>3. \A m \in StatNodes \ {n} : LastRefused(m)' = LastRefused(m)
  BY <1>0 DEF LastRefused
<1>4. /\ LastRefused(n)' = IF counters[n].refused > 0 THEN counters[n].refused ELSE rejPrev[IdOf[n]]
      /\ LastRefused(n) = rejPrev[IdOf[n]]
  BY <1>0, <1>1 DEF LastRefused
<1>5. Rounds'
  <2>1. round # Unseen /\ round' = round \ {n} /\ round' \in SUBSET StatNodes
    BY DEF View, Awaited, StatsType
  <2>2. round' # Unseen
    BY <2>1, Constants
  <2> QED BY <1>0, <2>1, <2>2 DEF Followed, Rounds, StatsType
<1>6. RefusalsFollowed'
  <2> SUFFICES ASSUME ~recounted PROVE RefusalsFollowed'
    BY <1>0 DEF RefusalsFollowed
  <2>1. RefusedSince(counters[n].refused, rejPrev[IdOf[n]], fresh[n].refused)
    BY <1>0, <1>4 DEF Followed, RefusalsFollowed
  <2>2. RefusedSince(counters[n].refused, LastRefused(n)', 0)
    BY <1>2, <1>4, Constants DEF RefusedSince
  <2> QED BY <1>0, <1>1, <1>2, <1>3, <2>1, <2>2 DEF Followed, RefusalsFollowed
<1>7. DialsFollowed'
  <2>1. dialled[IdOf[n]] # Unseen => DialledSince(counters[n], dialled[IdOf[n]].last, fresh[n])
    BY <1>0 DEF Followed, DialsFollowed
  <2>2. DialledSince(counters[n], counters[n], fresh'[n])
    BY <1>2 DEF DialledSince
  <2> QED BY <1>0, <1>1, <2>1, <2>2 DEF Followed, DialsFollowed
<1>8. ExactlyFollowed'
  <2> SUFFICES ASSUME exact PROVE ExactlyFollowed'
    BY <1>0 DEF ExactlyFollowed
  <2>1. counters[n].refused = OrZero(rejPrev[IdOf[n]]) + fresh[n].refused
    BY <1>0, <1>4 DEF Followed, ExactlyFollowed
  <2>2. counters[n].refused = OrZero(LastRefused(n)') + 0
    <3>1. CASE counters[n].refused > 0
      BY <1>2, <1>4, <3>1, Constants DEF OrZero
    <3>2. CASE ~(counters[n].refused > 0)
      <4>1. counters[n].refused = 0 /\ LastRefused(n)' = rejPrev[IdOf[n]]
        BY <1>2, <1>4, <3>2
      <4>2. OrZero(rejPrev[IdOf[n]]) \in Nat /\ fresh[n].refused \in Nat
        BY <1>0, NodeTypes DEF OrZero, Counters
      <4> QED BY <2>1, <4>1, <4>2
    <3> QED BY <3>1, <3>2
  <2> QED BY <1>0, <1>1, <1>2, <1>3, <2>1, <2>2 DEF Followed, ExactlyFollowed
<1> QED BY <1>5, <1>6, <1>7, <1>8 DEF Followed

\* After a sample the engine's last counts are those it has just seen.
LEMMA FollowedStep ==
    ASSUME StatsType, OwnIds, Followed, NEW order \in Orders, NEW known \in BOOLEAN, NEW over \in BOOLEAN, NEW full \in BOOLEAN,
           Step(order, known, over, full)
    PROVE  Followed'
<1>0. /\ round' = Unseen /\ \A n \in StatNodes : views'[n] = Unseen
      /\ UNCHANGED <<counters, live, fresh>>
      /\ recounted' = (recounted \/ full) /\ exact' = (exact /\ ~full)
      /\ \A n \in StatNodes : rejPrev'[IdOf[n]] = IF full THEN Unseen ELSE LastRefused(n)
  BY StepIs DEF Step
<1>1. Rounds'
  BY <1>0 DEF Followed, Rounds
<1>2. ~full => \A n \in StatNodes : LastRefused(n)' = LastRefused(n)
  BY <1>0 DEF LastRefused
<1>3. RefusalsFollowed'
  BY <1>0, <1>2 DEF Followed, RefusalsFollowed
<1>4. DialsFollowed'
  <2> SUFFICES ASSUME NEW n \in StatNodes, counters[n] # Unseen, dialled'[IdOf[n]] # Unseen
               PROVE  DialledSince(counters[n], dialled'[IdOf[n]].last, fresh[n])
    BY <1>0 DEF DialsFollowed
  <2>1. dialled'[IdOf[n]] = StepDial(IdOf[n], order)
    BY StepIs
  <2>2. views[n] # Unseen /\ dialled'[IdOf[n]].last = views[n].saw
    BY <2>1, StepDialIs DEF Viewed
  <2> QED BY <2>2 DEF Followed, DialsFollowed
<1>5. ExactlyFollowed'
  <2> SUFFICES ASSUME exact, ~full PROVE ExactlyFollowed'
    BY <1>0 DEF ExactlyFollowed
  <2> QED BY <1>0, <1>2 DEF Followed, ExactlyFollowed, LastRefused
<1> QED BY <1>1, <1>3, <1>4, <1>5 DEF Followed

-----------------------------------------------------------------------------
(***************************************************************************)
(* So each sample finds no more than happened before it.                   *)
(***************************************************************************)
LEMMA NodeFinds ==
    ASSUME StatsType, OwnIds, Followed, NEW n \in Viewed, NEW order \in Orders
    PROVE  /\ ~recounted => NewRefusals(n, order) <= views[n].happened.refused
           /\ exact => NewRefusals(n, order) = views[n].happened.refused
           /\ dialled[IdOf[n]] # Unseen =>
                 /\ NewDials(n, order).tried <= views[n].happened.tried
                 /\ NewDials(n, order).failed <= views[n].happened.failed
<1> DEFINE now == views[n].saw
           new == views[n].happened
<1>0. n \in StatNodes /\ views[n] # Unseen
  BY DEF Viewed
<1>1. /\ now.refused \in Nat /\ now.tried \in Nat /\ now.failed \in Nat
      /\ new.refused \in Nat /\ new.tried \in Nat /\ new.failed \in Nat
      /\ (rejPrev[IdOf[n]] # Unseen => rejPrev[IdOf[n]] \in Nat)
  BY <1>0, NodeTypes DEF Counters
<1>2. ~recounted => RefusedSince(now.refused, rejPrev[IdOf[n]], new.refused)
  BY <1>0 DEF Followed, RefusalsFollowed
<1>3. exact => now.refused = OrZero(rejPrev[IdOf[n]]) + new.refused
  BY <1>0 DEF Followed, ExactlyFollowed
<1>4. ~recounted => NewRefusals(n, order) <= new.refused
  <2> HIDE DEF new
  <2> QED BY <1>1, <1>2, FoundType DEF RefusedSince
<1>5. exact => NewRefusals(n, order) = new.refused
  <2> HIDE DEF new
  <2> QED BY <1>1, <1>3, FoundType DEF OrZero
<1>6. ASSUME dialled[IdOf[n]] # Unseen
      PROVE  NewDials(n, order).tried <= new.tried /\ NewDials(n, order).failed <= new.failed
  <2> DEFINE last == dialled[IdOf[n]].last
  <2>1. now \in Counters /\ last \in Counters
    BY <1>0, <1>6, NodeTypes
  <2>2. last.tried \in Nat /\ last.failed \in Nat
    BY <2>1 DEF Counters
  <2>3. DialledSince(now, last, new)
    BY <1>0, <1>6 DEF Followed, DialsFollowed
  <2>6. NewDials(n, order) = IF now.tried >= last.tried /\ now.failed >= last.failed
            THEN [NoCount EXCEPT !.tried = now.tried - last.tried, !.failed = now.failed - last.failed]
            ELSE [now EXCEPT !.refused = 0]
    <3>1. LastDials(Earlier(n, order), IdOf[n], order) = last /\ last # Unseen
      BY <1>0, <1>6, <2>1, OwnViews, Constants
    <3> QED BY <3>1 DEF NewDials
  <2>4. CASE now.tried >= last.tried /\ now.failed >= last.failed
    <3>1. NewDials(n, order).tried = now.tried - last.tried /\ NewDials(n, order).failed = now.failed - last.failed
      BY <2>4, <2>6 DEF NoCount
    <3> HIDE DEF now, new, last
    <3> QED BY <1>1, <2>2, <2>3, <2>4, <3>1 DEF DialledSince
  <2>5. CASE ~(now.tried >= last.tried /\ now.failed >= last.failed)
    <3>1. NewDials(n, order) = [now EXCEPT !.refused = 0]
      BY <2>5, <2>6
    <3>2. NewDials(n, order).tried = now.tried /\ NewDials(n, order).failed = now.failed
      BY <2>1, <3>1 DEF Counters
    <3> HIDE DEF now, new, last
    <3> QED BY <1>1, <2>2, <2>3, <2>5, <3>2 DEF DialledSince
  <2> QED BY <2>4, <2>5
<1> QED BY <1>4, <1>5, <1>6

LEMMA RefusedAtIs ==
    ASSUME StatsType, NEW a \in Ages
    PROVE  /\ RefusedAt(a) \in Nat
           /\ RefusedAt(a) = SumFunctionOnSet([n \in StatNodes |-> truth[n][a].refused], StatNodes)
           /\ \A n \in StatNodes : truth[n][a].refused \in Nat
<1> DEFINE f == [n \in StatNodes |-> truth[n][a].refused]
<1>1. \A n \in StatNodes : truth[n][a].refused \in Nat
  BY DEF StatsType, Counters
<1>2. f \in [StatNodes -> Nat] /\ DOMAIN f = StatNodes
  BY <1>1
<1>3. RefusedAt(a) = SumFunctionOnSet(f, StatNodes)
  BY <1>2 DEF RefusedAt, SumFunction
<1> HIDE DEF f
<1>4. SumFunctionOnSet(f, StatNodes) \in Nat
  BY <1>2, Constants, SumType
<1> QED BY <1>1, <1>3, <1>4 DEF f

LEMMA FoundHappened ==
    ASSUME StatsType, StatsType', OwnIds, Followed, NEW order \in Orders, NEW known \in BOOLEAN, NEW over \in BOOLEAN, NEW full \in BOOLEAN,
           Step(order, known, over, full)
    PROVE  /\ ~recounted => Found(order) <= RefusedAt(0)'
           /\ exact => Found(order) = RefusedAt(0)'
<1> DEFINE found == [n \in Viewed |-> NewRefusals(n, order)]
           was   == [n \in StatNodes |-> truth'[n][0].refused]
<1>1. 0 \in Ages /\ IsFiniteSet(StatNodes) /\ NoCount.refused = 0
  BY Constants
<1>2. was \in [StatNodes -> Nat] /\ \A n \in StatNodes : was[n] = truth'[n][0].refused
  BY <1>1 DEF StatsType, Counters
<1>3. RefusedAt(0)' = SumFunctionOnSet(was, StatNodes)
  BY <1>2 DEF RefusedAt, SumFunction
<1>4. found \in [Viewed -> Nat] /\ DOMAIN found = Viewed /\ IsFiniteSet(Viewed)
  BY FoundType
<1>5. Found(order) = SumFunctionOnSet(found, Viewed)
  BY <1>4 DEF Found, SumFunction
<1>6. \A n \in Viewed : found[n] = NewRefusals(n, order) /\ was[n] = views[n].happened.refused /\ n \in StatNodes
  <2>1. \A n \in Viewed : n \in StatNodes /\ truth'[n][0] = views[n].happened
    BY StepIs DEF Viewed
  <2> QED BY <2>1
<1>7. \A n \in StatNodes \ Viewed : was[n] = 0
  <2>1. \A n \in StatNodes \ Viewed : truth'[n][0] = NoCount
    BY StepIs
  <2> QED BY <1>1, <2>1
<1> HIDE DEF found, was
<1>8. SumFunctionOnSet(was, StatNodes) = SumFunctionOnSet(was, Viewed)
  <2>1. Viewed \in SUBSET StatNodes
    BY DEF Viewed
  <2> QED BY <1>1, <1>2, <1>7, <2>1, SumOfPart
<1>9. ASSUME ~recounted PROVE Found(order) <= RefusedAt(0)'
  <2>1. \A n \in Viewed : found[n] \in Nat /\ was[n] \in Nat /\ found[n] <= was[n]
    BY <1>2, <1>4, <1>6, <1>9, NodeFinds
  <2>2. SumFunctionOnSet(found, Viewed) <= SumFunctionOnSet(was, Viewed)
    BY <1>4, <2>1, SumBelow
  <2> QED BY <1>3, <1>5, <1>8, <2>2
<1>10. ASSUME exact PROVE Found(order) = RefusedAt(0)'
  <2>1. \A n \in Viewed : found[n] \in Nat /\ found[n] = was[n]
    BY <1>4, <1>6, <1>10, NodeFinds
  <2>2. SumFunctionOnSet(found, Viewed) = SumFunctionOnSet(was, Viewed)
    BY <1>4, <2>1, SumSame
  <2> QED BY <1>3, <1>5, <1>8, <2>2
<1> QED BY <1>9, <1>10

LEMMA SamplesInit == StatsInit => SamplesHold
<1> SUFFICES ASSUME StatsInit PROVE SamplesHold
  OBVIOUS
<1>1. StatsType /\ IsFiniteSet(StatNodes) /\ \A n \in StatNodes : dialled[IdOf[n]] = Unseen
  BY StatsTypeInit, Constants DEF StatsInit, StatIds
<1>2. ASSUME NEW a \in Ages PROVE rejEv[a].refused = RefusedAt(a) /\ RefusedAt(a) \in Nat
  <2> DEFINE f == [n \in StatNodes |-> truth[n][a].refused]
  <2>1. rejEv[a].refused = 0 /\ \A n \in StatNodes : truth[n][a].refused = 0
    BY Constants DEF StatsInit
  <2>2. RefusedAt(a) = SumFunctionOnSet(f, StatNodes)
    BY <1>1, RefusedAtIs
  <2>3. f \in [StatNodes -> Nat] /\ (\A n \in StatNodes \ {} : f[n] = 0) /\ {} \in SUBSET StatNodes
    BY <2>1
  <2> HIDE DEF f
  <2>4. SumFunctionOnSet(f, StatNodes) = SumFunctionOnSet(f, {})
    BY <1>1, <2>3, SumOfPart
  <2> QED BY <2>1, <2>2, <2>4, SumOfNone
<1> QED BY <1>1, <1>2 DEF SamplesHold

LEMMA SamplesStep ==
    ASSUME StatsType, StatsType', OwnIds, Followed, SamplesHold,
           NEW order \in Orders, NEW known \in BOOLEAN, NEW over \in BOOLEAN, NEW full \in BOOLEAN, Step(order, known, over, full)
    PROVE  SamplesHold'
<1>0. /\ 0 \in Ages /\ \A a \in Ages : a # 0 => a - 1 \in Ages
      /\ recounted' = (recounted \/ full) /\ exact' = (exact /\ ~full)
  BY Constants DEF Step
<1>1. ASSUME NEW a \in Ages, a # 0 PROVE RefusedAt(a)' = RefusedAt(a - 1)
  <2>1. \A n \in StatNodes : truth'[n][a] = truth[n][a - 1]
    BY <1>1, StepIs
  <2> QED BY <2>1 DEF RefusedAt
<1>2. ASSUME NEW a \in Ages
      PROVE  (~recounted' => rejEv'[a].refused <= RefusedAt(a)') /\ (exact' => rejEv'[a].refused = RefusedAt(a)')
  <2>1. CASE a = 0
    BY <1>0, <2>1, FoundHappened, StepIs
  <2>2. CASE a # 0
    <3>1. rejEv'[a] = rejEv[a - 1] /\ RefusedAt(a)' = RefusedAt(a - 1) /\ a - 1 \in Ages
      BY <1>0, <1>1, <2>2, StepIs
    <3> QED BY <1>0, <3>1 DEF SamplesHold
  <2> QED BY <2>1, <2>2
<1>3. ASSUME NEW a \in Ages, NEW n \in StatNodes, dialled'[IdOf[n]] # Unseen
      PROVE  /\ dialled'[IdOf[n]].events[a].tried <= truth'[n][a].tried
             /\ dialled'[IdOf[n]].events[a].failed <= truth'[n][a].failed
  <2>1. /\ n \in Viewed /\ dialled'[IdOf[n]].events[0] = NewDials(n, order)
        /\ \A b \in Ages : b # 0 => dialled'[IdOf[n]].events[b] =
              IF dialled[IdOf[n]] = Unseen THEN NoCount ELSE dialled[IdOf[n]].events[b - 1]
    <3>1. dialled'[IdOf[n]] = StepDial(IdOf[n], order)
      BY StepIs
    <3>2. n \in Viewed
      BY <1>3, <3>1, StepDialIs
    <3> QED BY <3>1, <3>2, StepDialIs
  <2>2. truth'[n][a].tried \in Nat /\ truth'[n][a].failed \in Nat
    BY DEF StatsType, Counters
  <2>3. CASE dialled[IdOf[n]] = Unseen
    <3>1. NewDials(n, order) = NoCount
      BY <2>1, <2>3, NewDialsType
    <3>2. dialled'[IdOf[n]].events[a] = NoCount
      BY <2>1, <2>3, <3>1
    <3> QED BY <2>2, <3>2, Constants
  <2>4. CASE dialled[IdOf[n]] # Unseen
    <3>1. CASE a = 0
      <4>1. truth'[n][0] = views[n].happened
        BY <2>1, StepIs
      <4> QED BY <2>1, <2>4, <3>1, <4>1, NodeFinds
    <3>2. CASE a # 0
      <4>1. dialled'[IdOf[n]].events[a] = dialled[IdOf[n]].events[a - 1]
        BY <2>1, <2>4, <3>2
      <4>2. truth'[n][a] = truth[n][a - 1] /\ a - 1 \in Ages
        BY <1>0, <3>2, StepIs
      <4> QED BY <2>4, <4>1, <4>2 DEF SamplesHold
    <3> QED BY <3>1, <3>2
  <2> QED BY <2>3, <2>4
<1> QED BY <1>2, <1>3 DEF SamplesHold

\* No other step touches the windows.
LEMMA SamplesOtherwise ==
    ASSUME StatsType, SamplesHold, UNCHANGED <<rejEv, truth, dialled>>, exact' => exact, recounted => recounted'
    PROVE  SamplesHold'
<1>1. \A a \in Ages : RefusedAt(a)' = RefusedAt(a)
  BY DEF RefusedAt
<1> QED BY <1>1 DEF SamplesHold

-----------------------------------------------------------------------------
(***************************************************************************)
(* And what holds sample by sample holds of the whole window.              *)
(***************************************************************************)
LEMMA AgesFinite == IsFiniteSet(Ages)
BY LocalStatsConstants, FS_Interval DEF Ages

LEMMA TotalIs ==
    ASSUME NEW window \in [Ages -> Counters], NEW what \in {"refused", "tried", "failed"}
    PROVE  /\ Total(window, what) = SumFunctionOnSet([a \in Ages |-> window[a][what]], Ages)
           /\ \A a \in Ages : window[a][what] \in Nat
           /\ Total(window, what) \in Nat
<1> DEFINE f == [a \in Ages |-> window[a][what]]
<1>1. \A a \in Ages : window[a][what] \in Nat
  <2>1. \A a \in Ages : window[a] \in Counters
    OBVIOUS
  <2> QED BY <2>1 DEF Counters
<1>2. f \in [Ages -> Nat] /\ DOMAIN f = Ages
  BY <1>1
<1>3. Total(window, what) = SumFunctionOnSet(f, Ages)
  BY <1>2 DEF Total, SumFunction
<1> HIDE DEF f
<1>4. SumFunctionOnSet(f, Ages) \in Nat
  BY <1>2, AgesFinite, SumType
<1> QED BY <1>1, <1>3, <1>4 DEF f

LEMMA TotalBelow ==
    ASSUME NEW w1 \in [Ages -> Counters], NEW w2 \in [Ages -> Counters], NEW what \in {"refused", "tried", "failed"},
           \A a \in Ages : w1[a][what] <= w2[a][what]
    PROVE  Total(w1, what) <= Total(w2, what)
<1> DEFINE f == [a \in Ages |-> w1[a][what]]
           g == [a \in Ages |-> w2[a][what]]
<1>1. \A a \in Ages : f[a] \in Nat /\ g[a] \in Nat /\ f[a] <= g[a]
  BY TotalIs
<1>2. Total(w1, what) = SumFunctionOnSet(f, Ages) /\ Total(w2, what) = SumFunctionOnSet(g, Ages)
  BY TotalIs
<1> HIDE DEF f, g
<1>3. SumFunctionOnSet(f, Ages) <= SumFunctionOnSet(g, Ages)
  BY <1>1, AgesFinite, SumBelow
<1> QED BY <1>2, <1>3

\* All refusals, node by node as sample by sample.
LEMMA AllRefusedIs ==
    ASSUME StatsType
    PROVE  AllRefused = SumFunctionOnSet([a \in Ages |-> RefusedAt(a)], Ages)
<1> DEFINE m == [a \in Ages |-> [n \in StatNodes |-> truth[n][a].refused]]
           byAge  == [a \in Ages |-> SumFunctionOnSet([n \in StatNodes |-> m[a][n]], StatNodes)]
           byNode == [n \in StatNodes |-> SumFunctionOnSet([a \in Ages |-> m[a][n]], Ages)]
<1>1. \A a \in Ages, n \in StatNodes : m[a][n] = truth[n][a].refused /\ m[a][n] \in Nat
  BY RefusedAtIs
<1>2. SumFunctionOnSet(byAge, Ages) = SumFunctionOnSet(byNode, StatNodes)
  <2> HIDE DEF m
  <2> QED BY <1>1, AgesFinite, Constants, SumSwapped, ZenonT(60)
<1>3. byAge = [a \in Ages |-> RefusedAt(a)]
  <2> SUFFICES ASSUME NEW a \in Ages PROVE byAge[a] = RefusedAt(a)
    OBVIOUS
  <2>1. [n \in StatNodes |-> m[a][n]] = [n \in StatNodes |-> truth[n][a].refused]
    OBVIOUS
  <2>2. byAge[a] = SumFunctionOnSet([n \in StatNodes |-> m[a][n]], StatNodes)
    OBVIOUS
  <2> HIDE DEF byAge, m
  <2> QED BY <2>1, <2>2, RefusedAtIs
<1>4. byNode = [n \in StatNodes |-> Happened(n, "refused")]
  <2> SUFFICES ASSUME NEW n \in StatNodes PROVE byNode[n] = Happened(n, "refused")
    OBVIOUS
  <2>1. [a \in Ages |-> m[a][n]] = [a \in Ages |-> truth[n][a]["refused"]]
    OBVIOUS
  <2>2. byNode[n] = SumFunctionOnSet([a \in Ages |-> m[a][n]], Ages)
    OBVIOUS
  <2> HIDE DEF byNode, m
  <2>3. truth[n] \in [Ages -> Counters]
    BY DEF StatsType
  <2> QED BY <2>1, <2>2, <2>3, TotalIs DEF Happened
<1> DEFINE h == [n \in StatNodes |-> Happened(n, "refused")]
<1>5. DOMAIN h = StatNodes /\ AllRefused = SumFunction(h)
  BY DEF AllRefused
<1>6. AllRefused = SumFunctionOnSet(h, StatNodes)
  <2> HIDE DEF h
  <2> QED BY <1>5 DEF SumFunction
<1> HIDE DEF byAge, byNode, m
<1> QED BY <1>2, <1>3, <1>4, <1>6

WindowsFollow == StatsType /\ SamplesHold => WindowsHold /\ Refusals \in Nat /\ AllRefused \in Nat

LEMMA TheyFollow == WindowsFollow
<1> SUFFICES ASSUME StatsType, SamplesHold
             PROVE  WindowsHold /\ Refusals \in Nat /\ AllRefused \in Nat
  BY DEF WindowsFollow
<1> DEFINE f == [a \in Ages |-> rejEv[a]["refused"]]
           g == [a \in Ages |-> RefusedAt(a)]
<1>1. rejEv \in [Ages -> Counters]
  BY DEF StatsType
<1>2. f \in [Ages -> Nat] /\ g \in [Ages -> Nat]
  BY <1>1, TotalIs, RefusedAtIs
<1>3. \A a \in Ages : f[a] = rejEv[a].refused /\ g[a] = RefusedAt(a)
  OBVIOUS
<1>4. Refusals = SumFunctionOnSet(f, Ages) /\ AllRefused = SumFunctionOnSet(g, Ages)
  BY <1>1, TotalIs, AllRefusedIs DEF Refusals
<1> HIDE DEF f, g
<1>5. Refusals \in Nat /\ AllRefused \in Nat
  BY <1>2, <1>4, AgesFinite, SumType
<1>6. ASSUME ~recounted PROVE Refusals <= AllRefused
  <2>1. \A a \in Ages : f[a] \in Nat /\ g[a] \in Nat /\ f[a] <= g[a]
    BY <1>2, <1>3, <1>6 DEF SamplesHold
  <2> QED BY <1>4, <2>1, AgesFinite, SumBelow
<1>7. ASSUME exact PROVE Refusals = AllRefused
  <2>1. \A a \in Ages : f[a] \in Nat /\ f[a] = g[a]
    BY <1>2, <1>3, <1>7 DEF SamplesHold
  <2> QED BY <1>4, <2>1, AgesFinite, SumSame
<1>8. ASSUME NEW n \in StatNodes, dialled[IdOf[n]] # Unseen, NEW what \in {"tried", "failed"}
      PROVE  Total(dialled[IdOf[n]].events, what) <= Happened(n, what)
  <2> DEFINE w == dialled[IdOf[n]].events
  <2>1. w \in [Ages -> Counters] /\ truth[n] \in [Ages -> Counters]
    BY <1>8, NodeTypes DEF StatsType
  <2>2. \A a \in Ages : w[a].tried <= truth[n][a].tried /\ w[a].failed <= truth[n][a].failed
    BY <1>8 DEF SamplesHold
  <2> HIDE DEF w
  <2>3. \A a \in Ages : w[a][what] <= truth[n][a][what]
    BY <2>2
  <2>4. Total(w, what) <= Total(truth[n], what)
    BY <2>1, <2>3, TotalBelow
  <2> QED BY <2>4 DEF w, Happened
<1> QED BY <1>5, <1>6, <1>7, <1>8 DEF WindowsHold

LEMMA AlertsStep ==
    ASSUME StatsType, StatsType', OwnIds, SharedCounted, SamplesHold',
           NEW order \in Orders, NEW known \in BOOLEAN, NEW over \in BOOLEAN, NEW full \in BOOLEAN, Step(order, known, over, full)
    PROVE  SharedCounted' /\ AlertsJustified'
<1> DEFINE window == Refusals'
           keep   == known /\ (over \/ window >= SharedRejects)
           times  == IF ~over THEN 0 ELSE IF shared = Unseen THEN 1 ELSE shared + 1
<1>1. WindowsHold' /\ Refusals' \in Nat /\ AllRefused' \in Nat
  <2>1. WindowsFollow'
    BY TheyFollow, PTL
  <2> QED BY <2>1 DEF WindowsFollow
<1>2. /\ shared' = IF ~keep THEN Unseen ELSE IF times > SharedSamples THEN SharedSamples ELSE times
      /\ alerts'.shared = (keep /\ (times >= SharedSamples \/ window >= SharedRejects))
      /\ alerts'.dial = {i \in StatIds : OfId(i) # {} /\ DialAlert(dialled'[i])}
      /\ crowded' = IF ~over THEN 0 ELSE IF crowded < SharedSamples THEN crowded + 1 ELSE crowded
  BY DEF Step, Refusals
<1>3. SharedSamples \in Nat /\ SharedRejects \in Nat /\ DialMinFails \in Nat /\ crowded \in Nat /\ (shared # Unseen => shared \in Nat)
  BY Constants DEF StatsType
<1>4. times \in Nat /\ (times <= crowded' \/ crowded' >= SharedSamples)
  BY <1>2, <1>3 DEF SharedCounted
<1>5. crowded' \in Nat
  BY DEF StatsType
<1> HIDE DEF window, times, keep
<1>6. SharedCounted'
  BY <1>2, <1>3, <1>4, <1>5 DEF SharedCounted
<1>7. alerts'.shared => crowded' >= SharedSamples \/ AllRefused' >= SharedRejects \/ recounted'
  <2>1. window >= SharedRejects => AllRefused' >= SharedRejects \/ recounted'
    BY <1>1, <1>3 DEF window, WindowsHold
  <2>2. times >= SharedSamples => crowded' >= SharedSamples
    BY <1>3, <1>4, <1>5
  <2> QED BY <1>2, <2>1, <2>2
<1>8. ASSUME NEW n \in StatNodes, IdOf[n] \in alerts'.dial PROVE Happened(n, "failed")' >= DialMinFails
  <2>1. n \in Viewed /\ DialAlert(dialled'[IdOf[n]])
    BY <1>2, <1>8, OwnViews
  <2>2. dialled'[IdOf[n]] \in DialStates /\ dialled'[IdOf[n]] # Unseen
    BY <2>1, StepIs, StepDialIs, Constants
  <2>5. dialled'[IdOf[n]].events \in [Ages -> Counters] /\ truth'[n] \in [Ages -> Counters]
    BY <2>1, <2>2 DEF DialStates, StatsType
  <2>6. Total(dialled'[IdOf[n]].events, "failed") \in Nat /\ Happened(n, "failed")' \in Nat
    BY <2>5, TotalIs DEF Happened
  <2>3. Total(dialled'[IdOf[n]].events, "failed") >= DialMinFails
    BY <2>1 DEF DialAlert
  <2>4. Total(dialled'[IdOf[n]].events, "failed") <= Happened(n, "failed")'
    BY <1>1, <2>1, <2>2 DEF WindowsHold
  <2> QED BY <1>3, <2>3, <2>4, <2>6
<1> QED BY <1>6, <1>7, <1>8 DEF AlertsJustified

LEMMA SamplesInvInit == StatsInit => SamplesInv
<1> SUFFICES ASSUME StatsInit PROVE SamplesInv
  OBVIOUS
<1>1. SharedCounted /\ AlertsJustified
  BY DEF StatsInit, SharedCounted, AlertsJustified
<1> QED BY <1>1, StatsTypeInit, FollowedInit, SamplesInit DEF SamplesInv, Followed

LEMMA SamplesInvNext == OwnIds /\ SamplesInv /\ (SampleNext \/ UNCHANGED samples) => SamplesInv'
<1> SUFFICES ASSUME OwnIds, SamplesInv, SampleNext \/ UNCHANGED samples PROVE SamplesInv'
  OBVIOUS
<1>0. StatsType /\ Followed /\ SamplesHold /\ SharedCounted /\ AlertsJustified
  BY DEF SamplesInv, Followed
\* The steps that are not the engine's leave its verdicts, and what they are about, be.
<1> DEFINE Elsewhere == /\ UNCHANGED <<rejEv, truth, dialled, shared, crowded, alerts, recounted>>
                        /\ exact' => exact
<1>1. ASSUME Elsewhere PROVE SamplesHold' /\ SharedCounted' /\ AlertsJustified'
  <2>1. SamplesHold' /\ SharedCounted'
    BY <1>0, <1>1, SamplesOtherwise DEF SharedCounted
  <2>2. AllRefused' = AllRefused /\ \A n \in StatNodes : Happened(n, "failed")' = Happened(n, "failed")
    BY <1>1 DEF AllRefused, Happened
  <2> QED BY <1>0, <1>1, <2>1, <2>2 DEF AlertsJustified
<1>2. SampleNext => StatsType'
  BY <1>0, StatsTypeStep DEF Followed
<1>3. ASSUME NEW n \in StatNodes, RegisterNode(n) \/ NewTracker(n) PROVE Followed' /\ Elsewhere
  BY <1>0, <1>3, FollowedNewCounters DEF RegisterNode, NewTracker
<1>4. ASSUME NEW n \in StatNodes, Deregister(n) PROVE Followed' /\ Elsewhere
  BY <1>0, <1>4, FollowedDeregister DEF Deregister
<1>5. ASSUME NEW n \in StatNodes, NEW what \in DOMAIN NoCount, Counts(n, what) PROVE Followed' /\ Elsewhere
  BY <1>0, <1>5, FollowedCounts DEF Counts
<1>6. ASSUME BeginSample PROVE Followed' /\ Elsewhere
  BY <1>0, <1>6, FollowedBeginSample DEF BeginSample
<1>7. ASSUME NEW n \in StatNodes, View(n) PROVE Followed' /\ Elsewhere
  BY <1>0, <1>7, FollowedView DEF View
<1>8. ASSUME NEW order \in Orders, NEW known \in BOOLEAN, NEW over \in BOOLEAN, NEW full \in BOOLEAN, Step(order, known, over, full)
      PROVE  Followed' /\ SamplesHold' /\ SharedCounted' /\ AlertsJustified'
  <2>1. StatsType'
    BY <1>2, <1>8 DEF SampleNext
  <2>2. Followed' /\ SamplesHold'
    BY <1>0, <1>8, <2>1, FollowedStep, SamplesStep
  <2> QED BY <1>0, <1>8, <2>1, <2>2, AlertsStep
<1>9. CASE SampleNext
  <2>1. Followed' /\ SamplesHold' /\ SharedCounted' /\ AlertsJustified'
    <3> HIDE DEF Elsewhere
    <3> QED BY <1>1, <1>3, <1>4, <1>5, <1>6, <1>7, <1>8, <1>9 DEF SampleNext, StatNode, Sample
  <2> QED BY <1>2, <1>9, <2>1 DEF SamplesInv, Followed
<1>10. CASE UNCHANGED samples
  <2>1. Elsewhere
    BY <1>10 DEF samples
  <2>2. StatsType'
    BY <1>0, <1>10 DEF samples, StatsType
  <2>3. \A n \in StatNodes : LastRefused(n)' = LastRefused(n)
    BY <1>10 DEF samples, LastRefused
  <2>4. Rounds' /\ DialsFollowed'
    BY <1>0, <1>10 DEF samples, Followed, Rounds, DialsFollowed
  <2>5. RefusalsFollowed' /\ ExactlyFollowed'
    BY <1>0, <1>10, <2>3 DEF samples, Followed, RefusalsFollowed, ExactlyFollowed
  <2> HIDE DEF Elsewhere
  <2> QED BY <1>1, <2>1, <2>2, <2>4, <2>5 DEF SamplesInv
<1> QED BY <1>9, <1>10

-----------------------------------------------------------------------------
(***************************************************************************)
(* The generations.                                                        *)
(***************************************************************************)
LEMMA SpansInit == StatsInit => SpansInv
<1> SUFFICES ASSUME StatsInit PROVE SpansInv
  OBVIOUS
<1>1. generation.cur = Unseen /\ generation.prev = Unseen /\ recorded = {} /\ shown = Unseen
      /\ generation = [cur |-> generation.cur, prev |-> generation.prev]
  BY DEF StatsInit
<1> QED BY <1>1 DEF SpansInv, GenType, Spans, SpansCovered

LEMMA OlderIs ==
    ASSUME NEW ages \in SUBSET Nat
    PROVE  Older(ages) \subseteq 0..MaxAge /\ Older(ages) \subseteq Nat
           /\ \A b \in Older(ages) : b - 1 \in ages
<1>1. MaxAge \in Nat
  BY Constants
<1> QED BY <1>1 DEF Older

LEMMA AgedIs ==
    ASSUME NEW g \in Generations
    PROVE  /\ Aged(g) \in Generations /\ Aged(g) # Unseen
           /\ Aged(g).age = IF g.age < MaxAge THEN g.age + 1 ELSE g.age
           /\ Aged(g).ages = Older(g.ages)
<1>1. g # Unseen /\ g.age \in Nat /\ g.ages \in SUBSET Nat
  BY Constants DEF Generations
<1>2. Aged(g) = [age |-> IF g.age < MaxAge THEN g.age + 1 ELSE g.age, ages |-> Older(g.ages)]
  BY <1>1 DEF Aged
<1>3. (IF g.age < MaxAge THEN g.age + 1 ELSE g.age) \in Nat /\ Older(g.ages) \in SUBSET Nat
  BY <1>1, OlderIs
<1>4. Aged(g) \in Generations
  BY <1>2, <1>3 DEF Generations
<1> QED BY <1>2, <1>4, Constants

LEMMA SpansPass == SpansInv /\ TimePasses => SpansInv'
<1> SUFFICES ASSUME SpansInv, TimePasses PROVE SpansInv'
  OBVIOUS
<1> DEFINE cur  == generation.cur
           prev == generation.prev
<1>0. /\ GenSpan \in Nat /\ GenSpan > 0 /\ MaxAge \in Nat
      /\ cur \in Generations \union {Unseen} /\ prev \in Generations \union {Unseen}
      /\ recorded \in SUBSET Nat
  BY Constants DEF SpansInv, GenType
<1>1. /\ generation'.cur = Aged(cur) /\ generation'.prev = Aged(prev)
      /\ generation' = [cur |-> generation'.cur, prev |-> generation'.prev]
      /\ recorded' = Older(recorded) /\ shown' = Unseen
  BY DEF TimePasses
<1>2. Aged(Unseen) = Unseen
  BY DEF Aged
<1>3. GenType'
  BY <1>0, <1>1, <1>2, AgedIs, OlderIs DEF GenType
<1>4. ASSUME cur # Unseen
      PROVE  /\ generation'.cur # Unseen /\ generation'.cur.age <= MaxAge
             /\ \A b \in generation'.cur.ages : b <= generation'.cur.age /\ b + GenSpan > generation'.cur.age
  <2>1. cur \in Generations /\ cur.age \in Nat /\ cur.ages \in SUBSET Nat /\ cur.age <= MaxAge
    BY <1>0, <1>4 DEF SpansInv, Spans, Generations
  <2>2. /\ Aged(cur) # Unseen /\ Aged(cur).age = IF cur.age < MaxAge THEN cur.age + 1 ELSE cur.age
        /\ Aged(cur).ages = Older(cur.ages)
    BY <2>1, AgedIs
  <2>3. \A a \in cur.ages : a <= cur.age /\ a + GenSpan > cur.age
    BY <1>4 DEF SpansInv, Spans
  <2>4. \A b \in Older(cur.ages) : b \in 0..MaxAge /\ b - 1 \in cur.ages
    BY <2>1, OlderIs
  <2> HIDE DEF cur
  <2>5. ASSUME NEW b \in Older(cur.ages) PROVE b <= Aged(cur).age /\ b + GenSpan > Aged(cur).age
    <3>1. b \in Nat /\ b <= MaxAge /\ b - 1 <= cur.age /\ (b - 1) + GenSpan > cur.age
      BY <1>0, <2>3, <2>4
    <3> QED BY <1>0, <2>1, <2>2, <3>1
  <2>6. Aged(cur).age <= MaxAge
    BY <1>0, <2>1, <2>2
  <2> QED BY <1>1, <2>2, <2>5, <2>6
<1>5. ASSUME prev # Unseen
      PROVE  /\ generation'.prev # Unseen /\ generation'.cur # Unseen
             /\ generation'.prev.age <= MaxAge /\ generation'.prev.age < 2 * GenSpan + generation'.cur.age
             /\ \A b \in generation'.prev.ages : b <= generation'.prev.age /\ b > generation'.cur.age
  <2>1. /\ prev \in Generations /\ prev.age \in Nat /\ prev.ages \in SUBSET Nat /\ prev.age <= MaxAge
        /\ cur \in Generations /\ cur.age \in Nat /\ cur.age <= MaxAge /\ prev.age < 2 * GenSpan + cur.age
    BY <1>0, <1>5 DEF SpansInv, Spans, Generations
  <2>2. /\ Aged(prev) # Unseen /\ Aged(prev).age = IF prev.age < MaxAge THEN prev.age + 1 ELSE prev.age
        /\ Aged(prev).ages = Older(prev.ages)
        /\ Aged(cur) # Unseen /\ Aged(cur).age = IF cur.age < MaxAge THEN cur.age + 1 ELSE cur.age
    BY <2>1, AgedIs
  <2>3. \A a \in prev.ages : a <= prev.age /\ a > cur.age
    BY <1>5 DEF SpansInv, Spans
  <2>4. \A b \in Older(prev.ages) : b \in 0..MaxAge /\ b - 1 \in prev.ages
    BY <2>1, OlderIs
  <2> HIDE DEF cur, prev
  <2>5. ASSUME NEW b \in Older(prev.ages) PROVE b <= Aged(prev).age /\ b > Aged(cur).age
    <3>1. b \in Nat /\ b <= MaxAge /\ b - 1 <= prev.age /\ b - 1 > cur.age
      BY <1>0, <2>3, <2>4
    <3> QED BY <1>0, <2>1, <2>2, <3>1
  <2>6. Aged(prev).age <= MaxAge /\ Aged(prev).age < 2 * GenSpan + Aged(cur).age
    BY <1>0, <2>1, <2>2
  <2> QED BY <1>1, <2>2, <2>5, <2>6
<1>6. ASSUME NEW b \in recorded' PROVE b \in Kept' \/ b > GenSpan
  <2>1. b - 1 \in recorded /\ b \in 0..MaxAge
    BY <1>0, <1>1, OlderIs
  <2>2. b - 1 \in Kept \/ b - 1 > GenSpan
    BY <2>1 DEF SpansInv, Spans
  <2>3. CASE b - 1 > GenSpan
    BY <1>0, <2>1, <2>3
  <2>4. ASSUME NEW g \in Generations, b - 1 \in g.ages PROVE b \in Aged(g).ages
    <3>1. g.ages \in SUBSET Nat /\ Aged(g).ages = Older(g.ages) /\ (b - 1) + 1 = b /\ b <= MaxAge
      BY <1>0, <2>1, AgedIs DEF Generations
    <3>2. b \in {a + 1 : a \in g.ages}
      BY <2>4, <3>1
    <3> QED BY <2>1, <3>1, <3>2 DEF Older
  <2>5. CASE cur # Unseen /\ b - 1 \in cur.ages
    BY <1>0, <1>1, <1>4, <2>4, <2>5 DEF Kept
  <2>6. CASE prev # Unseen /\ b - 1 \in prev.ages
    BY <1>0, <1>1, <1>5, <2>4, <2>6 DEF Kept
  <2>7. b - 1 \in Kept => (cur # Unseen /\ b - 1 \in cur.ages) \/ (prev # Unseen /\ b - 1 \in prev.ages)
    BY DEF Kept
  <2> QED BY <2>2, <2>3, <2>5, <2>6, <2>7
<1>7. (generation'.cur # Unseen => cur # Unseen) /\ (generation'.prev # Unseen => prev # Unseen)
  BY <1>1, <1>2
<1>8. Spans'
  <2> HIDE DEF cur, prev
  <2> QED BY <1>4, <1>5, <1>6, <1>7 DEF Spans
<1> QED BY <1>1, <1>3, <1>8 DEF SpansInv, SpansCovered

\* rotate keeps both generations in bounds, and the current one young.
LEMMA RotatedIs ==
    ASSUME GenType, Spans
    PROVE  /\ Rotated.cur \in Generations /\ Rotated.prev \in Generations \union {Unseen}
           /\ Rotated = [cur |-> Rotated.cur, prev |-> Rotated.prev]
           /\ Rotated.cur.age < GenSpan /\ Rotated.cur.age <= MaxAge
           /\ \A a \in Rotated.cur.ages : a <= Rotated.cur.age
           /\ Rotated.prev # Unseen =>
                 /\ Rotated.prev.age <= MaxAge /\ Rotated.prev.age < 2 * GenSpan + Rotated.cur.age
                 /\ \A a \in Rotated.prev.ages : a <= Rotated.prev.age /\ a > Rotated.cur.age
           /\ \A a \in recorded : a \in Merged(Rotated) \/ a > GenSpan
<1> DEFINE cur  == generation.cur
           prev == generation.prev
<1>0. /\ GenSpan \in Nat /\ GenSpan > 0 /\ MaxAge \in Nat
      /\ cur \in Generations \union {Unseen} /\ prev \in Generations \union {Unseen}
      /\ recorded \in SUBSET Nat /\ generation = [cur |-> cur, prev |-> prev]
  BY Constants DEF GenType
<1>1. NewGen \in Generations /\ NewGen.age = 0 /\ NewGen.ages = {}
  BY DEF NewGen, Generations
<1>2. CASE cur = Unseen
  <2>1. prev = Unseen
    BY <1>2 DEF Spans
  <2>2. Rotated = [cur |-> NewGen, prev |-> Unseen]
    BY <1>0, <1>2, <2>1 DEF Rotated
  <2>3. \A a \in recorded : a > GenSpan
    BY <1>2, <2>1 DEF Spans, Kept
  <2> HIDE DEF NewGen
  <2> QED BY <1>0, <1>1, <2>2, <2>3
<1>3. ASSUME cur # Unseen
      PROVE  /\ cur \in Generations /\ cur.age \in Nat /\ cur.age <= MaxAge /\ cur.ages \in SUBSET Nat
             /\ \A a \in cur.ages : a <= cur.age /\ a + GenSpan > cur.age
  BY <1>0, <1>3 DEF Spans, Generations
<1>4. ASSUME prev # Unseen
      PROVE  /\ prev \in Generations /\ prev.age <= MaxAge /\ prev.age < 2 * GenSpan + cur.age /\ prev.ages \in SUBSET Nat
             /\ \A a \in prev.ages : a <= prev.age /\ a > cur.age
  BY <1>0, <1>4 DEF Spans, Generations
<1>5. \A a \in recorded : (cur # Unseen /\ a \in cur.ages) \/ (prev # Unseen /\ a \in prev.ages) \/ a > GenSpan
  BY DEF Spans, Kept
<1>6. CASE cur # Unseen /\ cur.age < GenSpan
  <2>1. Rotated = generation /\ Rotated.cur = cur /\ Rotated.prev = prev
    BY <1>0, <1>3, <1>6 DEF Rotated
  <2>2. \A a \in recorded : a \in Merged(Rotated) \/ a > GenSpan
    BY <1>5, <2>1 DEF Merged
  <2> HIDE DEF cur, prev
  <2> QED BY <1>0, <1>3, <1>4, <1>6, <2>1, <2>2
<1>7. CASE cur # Unseen /\ ~(cur.age < GenSpan) /\ cur.age >= 2 * GenSpan
  <2>1. Rotated = [cur |-> NewGen, prev |-> Unseen]
    BY <1>7 DEF Rotated
  <2>2. ASSUME NEW a \in recorded PROVE a > GenSpan
    <3>1. a \in Nat /\ cur.age \in Nat
      BY <1>0, <1>3, <1>7
    <3>2. CASE a \in cur.ages
      <4>1. a + GenSpan > cur.age
        BY <1>3, <1>7, <3>2
      <4> HIDE DEF cur
      <4> QED BY <1>0, <1>7, <3>1, <4>1
    <3>3. CASE prev # Unseen /\ a \in prev.ages
      <4>1. a > cur.age
        BY <1>4, <3>3
      <4> HIDE DEF cur
      <4> QED BY <1>0, <1>7, <3>1, <4>1
    <3> QED BY <1>5, <3>2, <3>3
  <2> HIDE DEF NewGen
  <2> QED BY <1>0, <1>1, <2>1, <2>2
<1>8. CASE cur # Unseen /\ ~(cur.age < GenSpan) /\ ~(cur.age >= 2 * GenSpan)
  <2>1. Rotated = [cur |-> NewGen, prev |-> cur]
    BY <1>8 DEF Rotated
  <2>2. cur.age \in Nat /\ cur.age < 2 * GenSpan + 0
    BY <1>0, <1>3, <1>8
  <2>3. ASSUME NEW a \in cur.ages PROVE a <= cur.age /\ a > 0
    <3>1. a \in Nat /\ a <= cur.age /\ a + GenSpan > cur.age
      BY <1>3, <1>8
    <3> HIDE DEF cur
    <3> QED BY <1>0, <1>8, <2>2, <3>1
  <2>4. ASSUME NEW a \in recorded PROVE a \in cur.ages \/ a > GenSpan
    <3>1. CASE prev # Unseen /\ a \in prev.ages
      <4>1. a > cur.age /\ a \in Nat
        BY <1>0, <1>4, <3>1
      <4> HIDE DEF cur
      <4> QED BY <1>0, <1>8, <2>2, <4>1
    <3> QED BY <1>5, <3>1
  <2>5. Merged(Rotated) = cur.ages
    BY <1>1, <1>8, <2>1 DEF Merged
  <2>6. Rotated.cur = NewGen /\ Rotated.prev = cur
    BY <2>1
  <2>7. cur \in Generations /\ cur.age <= MaxAge
    BY <1>3, <1>8
  <2> HIDE DEF NewGen, cur
  <2> QED BY <1>0, <1>1, <2>1, <2>2, <2>3, <2>4, <2>5, <2>6, <2>7
<1> QED BY <1>2, <1>6, <1>7, <1>8

LEMMA SpansReport == SpansInv /\ Report => SpansInv'
<1> SUFFICES ASSUME SpansInv, Report PROVE SpansInv'
  OBVIOUS
<1> DEFINE g == Rotated
<1>0. /\ GenSpan \in Nat /\ GenSpan > 0 /\ MaxAge \in Nat /\ recorded \in SUBSET Nat
      /\ generation' = g /\ recorded' = recorded /\ shown' = Merged(g)
  BY Constants DEF SpansInv, GenType, Report
<1>1. /\ g.cur \in Generations /\ g.prev \in Generations \union {Unseen}
      /\ g = [cur |-> g.cur, prev |-> g.prev]
      /\ g.cur.age < GenSpan /\ g.cur.age <= MaxAge
      /\ \A a \in g.cur.ages : a <= g.cur.age
      /\ g.prev # Unseen =>
            /\ g.prev.age <= MaxAge /\ g.prev.age < 2 * GenSpan + g.cur.age
            /\ \A a \in g.prev.ages : a <= g.prev.age /\ a > g.cur.age
      /\ \A a \in recorded : a \in Merged(g) \/ a > GenSpan
  BY RotatedIs DEF SpansInv
<1> HIDE DEF g
<1>2. g.cur # Unseen /\ g.cur.age \in Nat /\ g.cur.ages \in SUBSET Nat
  BY <1>1, Constants DEF Generations
<1>3. g.prev # Unseen => g.prev.age \in Nat /\ g.prev.ages \in SUBSET Nat
  BY <1>1 DEF Generations
<1>4. GenType'
  BY <1>0, <1>1 DEF SpansInv, GenType
<1>5. Kept' = Merged(g)
  BY <1>0, <1>2 DEF Kept, Merged
<1>6. \A a \in g.cur.ages : a + GenSpan > g.cur.age /\ a < 3 * GenSpan
  <2> SUFFICES ASSUME NEW a \in g.cur.ages PROVE a + GenSpan > g.cur.age /\ a < 3 * GenSpan
    OBVIOUS
  <2>1. a \in Nat /\ a <= g.cur.age /\ g.cur.age < GenSpan
    BY <1>1, <1>2
  <2> QED BY <1>0, <1>2, <2>1
<1>7. ASSUME g.prev # Unseen, NEW a \in g.prev.ages PROVE a < 3 * GenSpan
  <2>1. a \in Nat /\ a <= g.prev.age /\ g.prev.age < 2 * GenSpan + g.cur.age /\ g.cur.age < GenSpan /\ g.prev.age \in Nat
    BY <1>1, <1>3, <1>7
  <2> QED BY <1>0, <1>2, <2>1
<1>8. Spans'
  BY <1>0, <1>1, <1>2, <1>5, <1>6 DEF Spans
<1>9. SpansCovered'
  <2>1. \A a \in Merged(g) : a < 3 * GenSpan
    BY <1>6, <1>7 DEF Merged
  <2>2. \A a \in recorded : a <= GenSpan => a \in Merged(g)
    <3>1. \A a \in recorded : a \in Nat
      BY <1>0
    <3> QED BY <1>0, <1>1, <3>1
  <2> QED BY <1>0, <2>1, <2>2 DEF SpansCovered
<1> QED BY <1>4, <1>8, <1>9 DEF SpansInv

LEMMA SpansAdd == SpansInv /\ AddAccess => SpansInv'
<1> SUFFICES ASSUME SpansInv, AddAccess PROVE SpansInv'
  OBVIOUS
<1> DEFINE g == Rotated
<1>0. /\ GenSpan \in Nat /\ GenSpan > 0 /\ MaxAge \in Nat /\ recorded \in SUBSET Nat
      /\ generation' = [g EXCEPT !.cur.ages = @ \union {0}] /\ recorded' = recorded \union {0} /\ shown' = Unseen
  BY Constants DEF SpansInv, GenType, AddAccess
<1>1. /\ g.cur \in Generations /\ g.prev \in Generations \union {Unseen}
      /\ g = [cur |-> g.cur, prev |-> g.prev]
      /\ g.cur.age < GenSpan /\ g.cur.age <= MaxAge
      /\ \A a \in g.cur.ages : a <= g.cur.age
      /\ g.prev # Unseen =>
            /\ g.prev.age <= MaxAge /\ g.prev.age < 2 * GenSpan + g.cur.age
            /\ \A a \in g.prev.ages : a <= g.prev.age /\ a > g.cur.age
      /\ \A a \in recorded : a \in Merged(g) \/ a > GenSpan
  BY RotatedIs DEF SpansInv
<1> HIDE DEF g
<1> DEFINE new == [age |-> g.cur.age, ages |-> g.cur.ages \union {0}]
<1>2. g.cur # Unseen /\ g.cur.age \in Nat /\ g.cur.ages \in SUBSET Nat /\ g.cur = [age |-> g.cur.age, ages |-> g.cur.ages]
  BY <1>1, Constants DEF Generations
<1>3. new \in Generations /\ new # Unseen /\ new.age = g.cur.age /\ new.ages = g.cur.ages \union {0}
  BY <1>2, Constants DEF Generations
<1>4. generation' = [cur |-> new, prev |-> g.prev]
  BY <1>0, <1>1, <1>2
<1> HIDE DEF new
<1>5. generation'.cur = new /\ generation'.prev = g.prev
  BY <1>4
<1>6. GenType'
  <2>1. recorded' \subseteq 0..MaxAge
    BY <1>0 DEF SpansInv, GenType
  <2> QED BY <1>1, <1>3, <1>4, <1>5, <2>1 DEF GenType
<1>7. \A a \in new.ages : a <= new.age /\ a + GenSpan > new.age
  <2> SUFFICES ASSUME NEW a \in new.ages PROVE a <= new.age /\ a + GenSpan > new.age
    OBVIOUS
  <2>1. a \in Nat /\ a <= new.age /\ new.age < GenSpan /\ new.age \in Nat
    BY <1>1, <1>2, <1>3
  <2> QED BY <1>0, <2>1
<1>8. \A a \in recorded' : a \in Kept' \/ a > GenSpan
  <2>1. Kept' = new.ages \union (IF g.prev = Unseen THEN {} ELSE g.prev.ages)
    BY <1>3, <1>5 DEF Kept
  <2>2. Merged(g) \subseteq Kept' /\ 0 \in Kept'
    BY <1>3, <2>1 DEF Merged
  <2> QED BY <1>0, <1>1, <2>2
<1>9. Spans'
  BY <1>1, <1>3, <1>5, <1>7, <1>8 DEF Spans
<1> QED BY <1>0, <1>6, <1>9 DEF SpansInv, SpansCovered

LEMMA SpansNext == SpansInv /\ (GenNext \/ UNCHANGED generations) => SpansInv'
<1>1. SpansInv /\ UNCHANGED generations => SpansInv'
  BY DEF generations, SpansInv, GenType, Spans, Kept, SpansCovered
<1> QED BY <1>1, SpansPass, SpansReport, SpansAdd DEF GenNext

-----------------------------------------------------------------------------
(***************************************************************************)
(* Whatever the nodes do and in whatever order they are looked at, the     *)
(* engine counts no refusal and no failed dial that did not happen, misses *)
(* no refusal unless a kernel was started again or a node left, alerts for *)
(* a reason, as long as no two nodes have one ID, and reports each access  *)
(* record of the last span: for all nodes, windows and thresholds.         *)
(***************************************************************************)
THEOREM StatsAreHonest == StatsSpec => []StatsHonest
<1>1. StatsInit => (OwnIds => SamplesInv) /\ SpansInv
  BY SamplesInvInit, SpansInit
<1>2. (OwnIds => SamplesInv) /\ SpansInv /\ [StatsNext]_stats => ((OwnIds => SamplesInv) /\ SpansInv)'
  <2> SUFFICES ASSUME OwnIds => SamplesInv, SpansInv, [StatsNext]_stats
               PROVE  (OwnIds => SamplesInv') /\ SpansInv'
    BY DEF OwnIds
  <2>1. (SampleNext \/ UNCHANGED samples) /\ (GenNext \/ UNCHANGED generations)
    BY DEF StatsNext, stats
  <2> QED BY <2>1, SamplesInvNext, SpansNext
<1>3. (OwnIds => SamplesInv) /\ SpansInv => StatsHonest
  BY TheyFollow DEF SamplesInv, SpansInv, WindowsFollow, StatsHonest
<1> QED BY <1>1, <1>2, <1>3, PTL DEF StatsSpec
==============================================================================
