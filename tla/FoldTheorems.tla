---------------------------- MODULE FoldTheorems ----------------------------
(***************************************************************************)
(* Facts about the folds the modules are built from: the spending of a     *)
(* wallet, the weighted sums of a term and the head count of a bus are all *)
(* recursive functions on the subsets of a finite set.  What holds of a    *)
(* set because it holds of the set without one element holds of every      *)
(* subset (SubsetInduction), and a function defined by recursion on the    *)
(* subsets exists (FoldExists): both follow from the well-foundedness of   *)
(* strict inclusion, and neither takes an operator as a parameter.         *)
(***************************************************************************)
EXTENDS Integers, FiniteSets, Functions, FiniteSetTheorems, TLAPS

\* A set G of subsets of S that contains a set as soon as it contains that set
\* without any one of its elements contains every subset.
LEMMA SubsetInduction ==
  ASSUME NEW S, IsFiniteSet(S), NEW G,
         \A X \in SUBSET S : (\A x \in X : X \ {x} \in G) => X \in G
  PROVE  \A X \in SUBSET S : X \in G
<1> DEFINE T == {X \in SUBSET S : X \notin G}
<1> SUFFICES ASSUME T # {} PROVE FALSE
  OBVIOUS
<1>1. IsWellFoundedOn(StrictSubsetOrdering(S), SUBSET S)
  <2>1. IsWellFoundedOn(StrictSubsetOrdering(S), FiniteSubsetsOf(S))
    BY FS_StrictSubsetOrderingWellFounded
  <2>2. FiniteSubsetsOf(S) = SUBSET S
    BY FS_FiniteSubsetsOfFinite
  <2> QED BY <2>1, <2>2
<1>2. T \subseteq SUBSET S
  OBVIOUS
<1> HIDE DEF T
<1>3. PICK X \in T : \A Y \in T : ~(<<Y, X>> \in StrictSubsetOrdering(S))
  BY <1>1, <1>2, WFMin
<1>4. \A x \in X : X \ {x} \in G
  <2> SUFFICES ASSUME NEW x \in X, X \ {x} \notin G PROVE FALSE
    OBVIOUS
  <2>1. X \ {x} \in T
    BY <1>2 DEF T
  <2>2. <<X \ {x}, X>> \in StrictSubsetOrdering(S)
    BY <1>2, <2>1 DEF StrictSubsetOrdering
  <2> QED BY <1>3, <2>1, <2>2
<1> QED BY <1>3, <1>4 DEF T

\* The same, for the whole set.
COROLLARY SetInduction ==
  ASSUME NEW S, IsFiniteSet(S), NEW G,
         \A X \in SUBSET S : (\A x \in X : X \ {x} \in G) => X \in G
  PROVE  S \in G
<1>1. S \in SUBSET S
  OBVIOUS
<1> QED BY <1>1, SubsetInduction

\* g is the function on the subsets of S that is defined by recursion from base
\* with the step st, taking the element ch[X] of X first.
FoldOf(g, S, base, st, ch) ==
  \A X \in SUBSET S :
     g[X] = IF X = {} THEN base ELSE st[<<ch[X], g[X \ {ch[X]}]>>]

\* A function defined by recursion on the subsets of S exists: the least
\* relation closed under the recursion is total and functional.
LEMMA FoldExists ==
  ASSUME NEW S, IsFiniteSet(S), NEW V, NEW base \in V,
         NEW st, \A x \in S, v \in V : st[<<x, v>>] \in V,
         NEW ch, \A X \in SUBSET S : X # {} => ch[X] \in X
  PROVE  \E g \in [SUBSET S -> V] : FoldOf(g, S, base, st, ch)
<1> DEFINE P == (SUBSET S) \X V
           Closed(Q) == /\ <<{}, base>> \in Q
                        /\ \A X \in SUBSET S, v \in V :
                              X # {} /\ <<X \ {ch[X]}, v>> \in Q
                              => <<X, st[<<ch[X], v>>]>> \in Q
           R == {p \in P : \A Q \in SUBSET P : Closed(Q) => p \in Q}
           G == {X \in SUBSET S :
                   \E v \in V : /\ <<X, v>> \in R
                                /\ \A w \in V : <<X, w>> \in R => w = v}
<1>0. \A X \in SUBSET S : X # {} => ch[X] \in S /\ X \ {ch[X]} \in SUBSET S
  OBVIOUS
<1>1. Closed(R)
  <2>1. <<{}, base>> \in R
    OBVIOUS
  <2>2. ASSUME NEW X \in SUBSET S, NEW v \in V, X # {}, <<X \ {ch[X]}, v>> \in R
        PROVE  <<X, st[<<ch[X], v>>]>> \in R
    <3>1. st[<<ch[X], v>>] \in V
      BY <1>0, <2>2
    <3>2. ASSUME NEW Q \in SUBSET P, Closed(Q)
          PROVE  <<X, st[<<ch[X], v>>]>> \in Q
      BY <2>2, <3>2
    <3> QED BY <3>1, <3>2
  <2> QED BY <2>1, <2>2
<1>2. ASSUME NEW p \in R, Closed(R \ {p})
      PROVE  FALSE
  BY <1>2
<1>3. ASSUME NEW X \in SUBSET S, \A x \in X : X \ {x} \in G
      PROVE  X \in G
  <2>1. CASE X = {}
    <3>1. <<{}, base>> \in R
      BY <1>1
    <3>2. ASSUME NEW w \in V, <<{}, w>> \in R, w # base
          PROVE  FALSE
      <4>1. Closed(R \ {<<{}, w>>})
        BY <1>1, <3>2
      <4> HIDE DEF Closed, R
      <4> QED BY <1>2, <3>2, <4>1
    <3> QED BY <2>1, <3>1, <3>2
  <2>2. CASE X # {}
    <3>1. PICK v \in V : /\ <<X \ {ch[X]}, v>> \in R
                         /\ \A w \in V : <<X \ {ch[X]}, w>> \in R => w = v
      BY <1>3, <2>2
    <3> DEFINE u == st[<<ch[X], v>>]
    <3>2. u \in V /\ <<X, u>> \in R
      BY <1>0, <1>1, <2>2, <3>1
    <3>3. ASSUME NEW w \in V, <<X, w>> \in R, w # u
          PROVE  FALSE
      <4> HIDE DEF R
      <4>1. <<{}, base>> \in R \ {<<X, w>>}
        BY <1>1, <2>2
      <4>2. ASSUME NEW Y \in SUBSET S, NEW z \in V, Y # {},
                   <<Y \ {ch[Y]}, z>> \in R \ {<<X, w>>}
            PROVE  <<Y, st[<<ch[Y], z>>]>> \in R \ {<<X, w>>}
        <5>1. <<Y, st[<<ch[Y], z>>]>> \in R
          BY <1>1, <4>2
        <5>2. CASE Y = X
          <6>1. z = v
            BY <3>1, <4>2, <5>2
          <6> QED BY <3>3, <5>1, <5>2, <6>1
        <5>3. CASE Y # X
          BY <5>1, <5>3
        <5> QED BY <5>2, <5>3
      <4>3. Closed(R \ {<<X, w>>})
        BY <4>1, <4>2
      <4> HIDE DEF Closed
      <4> QED BY <1>2, <3>3, <4>3
    <3> QED BY <3>2, <3>3
  <2> QED BY <2>1, <2>2
<1> HIDE DEF G
<1>4. \A X \in SUBSET S : X \in G
  BY <1>3, SubsetInduction
<1> USE DEF G
<1> HIDE DEF R
<1> DEFINE g == [X \in SUBSET S |-> CHOOSE v \in V : <<X, v>> \in R]
<1>5. ASSUME NEW X \in SUBSET S
      PROVE  /\ g[X] \in V /\ <<X, g[X]>> \in R
             /\ \A w \in V : <<X, w>> \in R => w = g[X]
  BY <1>4
<1> HIDE DEF g, G
<1>6. g \in [SUBSET S -> V]
  BY <1>5 DEF g
<1>7. ASSUME NEW X \in SUBSET S
      PROVE  g[X] = IF X = {} THEN base ELSE st[<<ch[X], g[X \ {ch[X]}]>>]
  <2>1. CASE X = {}
    BY <1>1, <1>5, <2>1
  <2>2. CASE X # {}
    <3>1. /\ X \ {ch[X]} \in SUBSET S /\ ch[X] \in S
          /\ g[X \ {ch[X]}] \in V /\ <<X \ {ch[X]}, g[X \ {ch[X]}]>> \in R
      BY <1>0, <1>5, <2>2
    <3>2. <<X, st[<<ch[X], g[X \ {ch[X]}]>>]>> \in R
      BY <1>1, <2>2, <3>1
    <3>3. st[<<ch[X], g[X \ {ch[X]}]>>] \in V
      BY <3>1
    <3> QED BY <1>5, <2>2, <3>2, <3>3
  <2> QED BY <2>1, <2>2
<1> QED BY <1>6, <1>7 DEF FoldOf

\* A nonempty set of positions has a last one.
LEMMA LastExists ==
  ASSUME NEW n \in Nat, NEW X \in SUBSET (1..n), X # {}
  PROVE  \E m \in X : \A y \in X : m >= y
<1> DEFINE G == {Y \in SUBSET (1..n) : Y # {} => \E m \in Y : \A y \in Y : m >= y}
<1>1. IsFiniteSet(1..n)
  BY FS_Interval
<1>2. ASSUME NEW Y \in SUBSET (1..n), \A x \in Y : Y \ {x} \in G
      PROVE  Y \in G
  <2> SUFFICES ASSUME NEW x \in Y PROVE \E m \in Y : \A y \in Y : m >= y
    OBVIOUS
  <2>1. CASE Y \ {x} = {}
    BY <2>1
  <2>2. CASE Y \ {x} # {}
    <3>1. PICK m \in Y \ {x} : \A y \in Y \ {x} : m >= y
      BY <1>2, <2>2
    <3>2. CASE x >= m
      BY <3>1, <3>2
    <3>3. CASE ~(x >= m)
      BY <3>1, <3>3
    <3> QED BY <3>2, <3>3
  <2> QED BY <2>1, <2>2
<1>3. \A Y \in SUBSET (1..n) : (\A x \in Y : Y \ {x} \in G) => Y \in G
  BY <1>2
<1>4. X \in G
  <2> HIDE DEF G
  <2> QED BY <1>1, <1>3, SubsetInduction
<1> QED BY <1>4
-----------------------------------------------------------------------------
(* Sums: SumFunctionOnSet(f, X) adds f[x] for the members x of X. *)

\* g gives the sums of f over the subsets of S.
SumsOf(g, S, f) ==
  /\ \A X \in SUBSET S :
        g[X] = IF X = {} THEN 0
               ELSE f[CHOOSE x \in X : TRUE] + g[X \ {CHOOSE x \in X : TRUE}]
  /\ \A X \in SUBSET S : SumFunctionOnSet(f, X) = g[X]

\* One function gives the sums over all subsets of a finite set.
LEMMA SumFunctionExists ==
  ASSUME NEW S, IsFiniteSet(S), NEW f, \A x \in S : f[x] \in Nat
  PROVE  \E g \in [SUBSET S -> Nat] : SumsOf(g, S, f)
<1> DEFINE ch == [X \in SUBSET S |-> CHOOSE x \in X : TRUE]
           st == [p \in S \X Nat |-> f[p[1]] + p[2]]
<1>1. \A x \in S, v \in Nat : st[<<x, v>>] \in Nat /\ st[<<x, v>>] = f[x] + v
  OBVIOUS
<1>2. \A X \in SUBSET S : ch[X] = CHOOSE x \in X : TRUE
  OBVIOUS
<1>3. \A X \in SUBSET S : X # {} => ch[X] \in X
  OBVIOUS
<1> HIDE DEF ch, st
<1>4. PICK g \in [SUBSET S -> Nat] : FoldOf(g, S, 0, st, ch)
  <2>1. 0 \in Nat /\ \A x \in S, v \in Nat : st[<<x, v>>] \in Nat
    BY <1>1
  <2> QED BY <2>1, <1>3, FoldExists
<1>5. ASSUME NEW X \in SUBSET S
      PROVE  g[X] = IF X = {} THEN 0
                    ELSE f[CHOOSE x \in X : TRUE] + g[X \ {CHOOSE x \in X : TRUE}]
  <2> DEFINE c == CHOOSE x \in X : TRUE
  <2>1. ch[X] = c /\ (X # {} => c \in S /\ g[X \ {c}] \in Nat)
    BY <1>2, <1>3
  <2> HIDE DEF c
  <2>2. g[X] = IF X = {} THEN 0 ELSE st[<<c, g[X \ {c}]>>]
    BY <1>4, <2>1 DEF FoldOf
  <2>3. g[X] = IF X = {} THEN 0 ELSE f[c] + g[X \ {c}]
    BY <1>1, <2>1, <2>2
  <2> QED BY <2>3 DEF c
<1>6. ASSUME NEW X \in SUBSET S
      PROVE  SumFunctionOnSet(f, X) = g[X]
  <2> DEFINE Step(h) ==
               [Y \in SUBSET X |->
                  IF Y = {} THEN 0
                  ELSE f[CHOOSE x \in Y : TRUE] + h[Y \ {CHOOSE x \in Y : TRUE}]]
             it == CHOOSE h : h = Step(h)
             r == [Y \in SUBSET X |-> g[Y]]
  <2>1. SumFunctionOnSet(f, X) = it[X]
    BY DEF SumFunctionOnSet, FoldFunctionOnSet, MapThenFoldSet
  <2>2. r = Step(r)
    <3>1. ASSUME NEW Y \in SUBSET X
          PROVE  r[Y] = IF Y = {} THEN 0
                        ELSE f[CHOOSE x \in Y : TRUE] + r[Y \ {CHOOSE x \in Y : TRUE}]
      BY <1>5
    <3> HIDE DEF r
    <3>2. r = [Y \in SUBSET X |-> r[Y]]
      BY DEF r
    <3> QED BY <3>1, <3>2
  <2>3. it = Step(it)
    <3> HIDE DEF r, Step
    <3> QED BY <2>2
  <2>4. ASSUME NEW Y \in SUBSET X
        PROVE  it[Y] = IF Y = {} THEN 0
                       ELSE f[CHOOSE x \in Y : TRUE] + it[Y \ {CHOOSE x \in Y : TRUE}]
    <3> HIDE DEF it
    <3> QED BY <2>3
  <2> HIDE DEF it, Step
  <2> DEFINE G == {Y \in SUBSET X : it[Y] = g[Y]}
  <2>5. IsFiniteSet(X)
    BY FS_Subset
  <2>6. ASSUME NEW Y \in SUBSET X, \A x \in Y : Y \ {x} \in G
        PROVE  Y \in G
    BY <1>5, <2>4, <2>6
  <2>7. X \in G
    <3> HIDE DEF G
    <3> QED BY <2>5, <2>6, SubsetInduction
  <2> QED BY <2>1, <2>7
<1> QED BY <1>5, <1>6 DEF SumsOf

\* The sum over no element is 0.
LEMMA SumEmpty == ASSUME NEW f PROVE SumFunctionOnSet(f, {}) = 0
<1>1. IsFiniteSet({})
  BY FS_EmptySet
<1>2. \A x \in {} : f[x] \in Nat
  OBVIOUS
<1>3. PICK g \in [SUBSET {} -> Nat] : SumsOf(g, {}, f)
  BY <1>1, <1>2, SumFunctionExists
<1> QED BY <1>3 DEF SumsOf

\* The sum is a natural number, and any element may be added last: addition
\* commutes, whatever the order CHOOSE takes.
LEMMA SumFacts ==
  ASSUME NEW S, IsFiniteSet(S), NEW f, \A x \in S : f[x] \in Nat
  PROVE  /\ SumFunctionOnSet(f, S) \in Nat
         /\ \A x \in S : SumFunctionOnSet(f, S) = f[x] + SumFunctionOnSet(f, S \ {x})
<1>1. PICK g \in [SUBSET S -> Nat] : SumsOf(g, S, f)
  BY SumFunctionExists
<1> DEFINE G == {X \in SUBSET S : \A x \in X : g[X] = f[x] + g[X \ {x}]}
<1>2. ASSUME NEW X \in SUBSET S, \A x \in X : X \ {x} \in G
      PROVE  X \in G
  <2> SUFFICES ASSUME NEW x \in X PROVE g[X] = f[x] + g[X \ {x}]
    OBVIOUS
  <2> DEFINE c == CHOOSE y \in X : TRUE
  <2>1. c \in X /\ g[X] = f[c] + g[X \ {c}]
    BY <1>1 DEF SumsOf
  <2> HIDE DEF c
  <2>2. CASE x = c
    BY <2>1, <2>2
  <2>3. CASE x # c
    <3>1. x \in X \ {c} /\ c \in X \ {x}
      BY <2>1, <2>3
    <3>2. g[X \ {c}] = f[x] + g[(X \ {c}) \ {x}]
      BY <1>2, <2>1, <3>1
    <3>3. g[X \ {x}] = f[c] + g[(X \ {x}) \ {c}]
      BY <1>2, <3>1
    <3>4. g[(X \ {c}) \ {x}] = g[(X \ {x}) \ {c}]
      <4>1. (X \ {c}) \ {x} = (X \ {x}) \ {c}
        OBVIOUS
      <4> QED BY ONLY <4>1, Zenon
    <3>5. /\ f[x] \in Nat /\ f[c] \in Nat
          /\ g[(X \ {c}) \ {x}] \in Nat
      BY <2>1
    <3>6. \A a, b, d \in Nat : a + (b + d) = b + (a + d)
      OBVIOUS
    <3> QED BY <2>1, <3>2, <3>3, <3>4, <3>5, <3>6
  <2> QED BY <2>2, <2>3
<1>3. S \in G
  <2> HIDE DEF G
  <2> QED BY <1>2, SubsetInduction
<1> QED BY <1>1, <1>3 DEF SumsOf

\* A sum is at most another one whose terms are not smaller.
LEMMA SumMonotone ==
  ASSUME NEW S, IsFiniteSet(S), NEW f, NEW h,
         \A x \in S : f[x] \in Nat /\ h[x] \in Nat /\ f[x] <= h[x]
  PROVE  SumFunctionOnSet(f, S) <= SumFunctionOnSet(h, S)
<1> DEFINE G == {X \in SUBSET S : SumFunctionOnSet(f, X) <= SumFunctionOnSet(h, X)}
<1>1. ASSUME NEW X \in SUBSET S, \A x \in X : X \ {x} \in G
      PROVE  X \in G
  <2>1. CASE X = {}
    BY <2>1, SumEmpty
  <2>2. CASE X # {}
    <3>1. PICK x \in X : TRUE
      BY <2>2
    <3>2. IsFiniteSet(X) /\ IsFiniteSet(X \ {x})
      BY FS_Subset
    <3>3. /\ SumFunctionOnSet(f, X) = f[x] + SumFunctionOnSet(f, X \ {x})
          /\ SumFunctionOnSet(f, X \ {x}) \in Nat
      BY <3>2, SumFacts
    <3>4. /\ SumFunctionOnSet(h, X) = h[x] + SumFunctionOnSet(h, X \ {x})
          /\ SumFunctionOnSet(h, X \ {x}) \in Nat
      BY <3>2, SumFacts
    <3>5. SumFunctionOnSet(f, X \ {x}) <= SumFunctionOnSet(h, X \ {x})
      BY <1>1
    <3> QED BY <3>3, <3>4, <3>5
  <2> QED BY <2>1, <2>2
<1>2. \A X \in SUBSET S : (\A x \in X : X \ {x} \in G) => X \in G
  BY <1>1
<1>3. S \in G
  <2> HIDE DEF G
  <2> QED BY <1>2, SetInduction
<1> QED BY <1>3

\* A sum depends only on the terms.
LEMMA SumSame ==
  ASSUME NEW S, IsFiniteSet(S), NEW f, NEW h,
         \A x \in S : f[x] \in Nat /\ f[x] = h[x]
  PROVE  SumFunctionOnSet(f, S) = SumFunctionOnSet(h, S)
<1>1. /\ SumFunctionOnSet(f, S) \in Nat /\ SumFunctionOnSet(h, S) \in Nat
  BY SumFacts
<1>2. SumFunctionOnSet(f, S) <= SumFunctionOnSet(h, S)
  BY SumMonotone
<1>3. SumFunctionOnSet(h, S) <= SumFunctionOnSet(f, S)
  BY SumMonotone
<1> QED BY <1>1, <1>2, <1>3

\* A common factor may be taken out.
LEMMA SumScaled ==
  ASSUME NEW S, IsFiniteSet(S), NEW f, NEW h, NEW k \in Nat,
         \A x \in S : f[x] \in Nat /\ h[x] = k * f[x]
  PROVE  SumFunctionOnSet(h, S) = k * SumFunctionOnSet(f, S)
<1> DEFINE G == {X \in SUBSET S :
                   SumFunctionOnSet(h, X) = k * SumFunctionOnSet(f, X)}
<1>1. ASSUME NEW X \in SUBSET S, \A x \in X : X \ {x} \in G
      PROVE  X \in G
  <2>1. CASE X = {}
    BY <2>1, SumEmpty
  <2>2. CASE X # {}
    <3>1. PICK x \in X : TRUE
      BY <2>2
    <3>2. IsFiniteSet(X) /\ IsFiniteSet(X \ {x}) /\ \A y \in S : h[y] \in Nat
      BY FS_Subset
    <3>3. /\ SumFunctionOnSet(f, X) = f[x] + SumFunctionOnSet(f, X \ {x})
          /\ SumFunctionOnSet(f, X \ {x}) \in Nat
      BY <3>2, SumFacts
    <3>4. SumFunctionOnSet(h, X) = h[x] + SumFunctionOnSet(h, X \ {x})
      BY <3>2, SumFacts
    <3>5. SumFunctionOnSet(h, X \ {x}) = k * SumFunctionOnSet(f, X \ {x})
      BY <1>1
    <3>6. f[x] \in Nat /\ h[x] = k * f[x]
      OBVIOUS
    <3>7. \A a, b \in Nat : k * a + k * b = k * (a + b)
      OBVIOUS
    <3> QED BY <3>3, <3>4, <3>5, <3>6, <3>7
  <2> QED BY <2>1, <2>2
<1>2. \A X \in SUBSET S : (\A x \in X : X \ {x} \in G) => X \in G
  BY <1>1
<1>3. S \in G
  <2> HIDE DEF G
  <2> QED BY <1>2, SetInduction
<1> QED BY <1>3

\* The sum of a constant is the constant times the number of elements.
LEMMA SumConstant ==
  ASSUME NEW S, IsFiniteSet(S), NEW f, NEW k \in Nat, \A x \in S : f[x] = k
  PROVE  SumFunctionOnSet(f, S) = k * Cardinality(S)
<1> DEFINE G == {X \in SUBSET S : SumFunctionOnSet(f, X) = k * Cardinality(X)}
<1>1. ASSUME NEW X \in SUBSET S, \A x \in X : X \ {x} \in G
      PROVE  X \in G
  <2>1. CASE X = {}
    BY <2>1, SumEmpty, FS_EmptySet
  <2>2. CASE X # {}
    <3>1. PICK x \in X : TRUE
      BY <2>2
    <3>2. IsFiniteSet(X)
      BY FS_Subset
    <3>3. SumFunctionOnSet(f, X) = k + SumFunctionOnSet(f, X \ {x})
      BY <3>2, SumFacts
    <3>4. SumFunctionOnSet(f, X \ {x}) = k * Cardinality(X \ {x})
      BY <1>1
    <3>5. Cardinality(X \ {x}) = Cardinality(X) - 1 /\ Cardinality(X) \in Nat
      BY <3>2, FS_RemoveElement, FS_CardinalityType
    <3>6. \A n \in Nat : k + k * (n - 1) = k * n
      OBVIOUS
    <3> QED BY <3>3, <3>4, <3>5, <3>6
  <2> QED BY <2>1, <2>2
<1>2. \A X \in SUBSET S : (\A x \in X : X \ {x} \in G) => X \in G
  BY <1>1
<1>3. S \in G
  <2> HIDE DEF G
  <2> QED BY <1>2, SetInduction
<1> QED BY <1>3

\* Natural numbers that are attached to a finite set have a least and a
\* greatest one.
LEMMA ExtremesExist ==
  ASSUME NEW S, IsFiniteSet(S), S # {}, NEW f, \A x \in S : f[x] \in Nat
  PROVE  \E lo, hi \in S : \A x \in S : f[lo] <= f[x] /\ f[x] <= f[hi]
<1> DEFINE G == {X \in SUBSET S : X # {} =>
                   \E lo, hi \in X : \A x \in X : f[lo] <= f[x] /\ f[x] <= f[hi]}
<1>1. ASSUME NEW X \in SUBSET S, \A x \in X : X \ {x} \in G
      PROVE  X \in G
  <2> SUFFICES ASSUME NEW y \in X
               PROVE  \E lo, hi \in X : \A x \in X : f[lo] <= f[x] /\ f[x] <= f[hi]
    OBVIOUS
  <2>1. CASE X \ {y} = {}
    <3>1. \A x \in X : x = y /\ f[x] \in Nat
      BY <2>1
    <3>2. \A x \in X : f[y] <= f[x] /\ f[x] <= f[y]
      BY <3>1
    <3> QED BY <3>2
  <2>2. CASE X \ {y} # {}
    <3>1. PICK lo \in X \ {y}, hi \in X \ {y} :
            \A x \in X \ {y} : f[lo] <= f[x] /\ f[x] <= f[hi]
      BY <1>1, <2>2
    <3>2. f[lo] \in Nat /\ f[hi] \in Nat /\ f[y] \in Nat
      OBVIOUS
    <3>3. \E l \in X : f[l] <= f[y] /\ f[l] <= f[lo]
      BY <3>2
    <3>4. \E h \in X : f[y] <= f[h] /\ f[hi] <= f[h]
      BY <3>2
    <3>5. PICK l \in X, h \in X : /\ f[l] <= f[y] /\ f[l] <= f[lo]
                               /\ f[y] <= f[h] /\ f[hi] <= f[h]
      BY <3>3, <3>4
    <3>6. \A x \in X : f[x] \in Nat
      OBVIOUS
    <3>7. \A x \in X : f[l] <= f[x] /\ f[x] <= f[h]
      BY <3>1, <3>5, <3>6
    <3> QED BY <3>7
  <2> QED BY <2>1, <2>2
<1>2. \A X \in SUBSET S : (\A x \in X : X \ {x} \in G) => X \in G
  BY <1>1
<1> HIDE DEF G
<1>3. S \in G
  BY <1>2, SetInduction
<1> QED BY <1>3 DEF G
=============================================================================
