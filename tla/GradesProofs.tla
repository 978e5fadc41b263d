---------------------------- MODULE GradesProofs ----------------------------
(***************************************************************************)
(* Proofs about the gradebook, for every set of assessments, every total,  *)
(* weight and mark: whatever the order of recordings and calculations.     *)
(***************************************************************************)
EXTENDS Grades, FoldTheorems

-----------------------------------------------------------------------------
(* Products, and Math.round *)

\* A product of natural numbers is one, and grows with its factors.
LEMMA ProductGrows ==
  ASSUME NEW a \in Nat, NEW b \in Nat, NEW k \in Nat
  PROVE  /\ k * a \in Nat /\ k * a = a * k
         /\ a <= b => k * a <= k * b
         /\ a < b /\ k > 0 => k * a < k * b
OBVIOUS

\* Round(n, d) is the integer within a half of n / d, halves going up.
LEMMA RoundFacts ==
  ASSUME NEW n \in Nat, NEW d \in Nat \ {0}
  PROVE  /\ Round(n, d) \in Nat
         /\ 2 * (d * Round(n, d)) <= 2 * n + d
         /\ 2 * n + d < 2 * (d * Round(n, d)) + 2 * d
BY DEF Round

\* Rounding to at least r, and to at most r.
LEMMA RoundBounds ==
  ASSUME NEW n \in Nat, NEW d \in Nat \ {0}, NEW r \in Nat
  PROVE  /\ r <= Round(n, d) <=> 2 * (d * r) <= 2 * n + d
         /\ Round(n, d) <= r <=> 2 * n + d < 2 * (d * r) + 2 * d
<1> DEFINE q == Round(n, d)
           x == d * q
           y == d * r
<1>1. q \in Nat /\ x \in Nat /\ y \in Nat
  BY RoundFacts, ProductGrows
<1>2. 2 * x <= 2 * n + d /\ 2 * n + d < 2 * x + 2 * d
  BY RoundFacts
<1>3. r < q => y + d <= x
  <2>1. r < q => d * (r + 1) <= d * q
    BY <1>1, ProductGrows
  <2>2. d * (r + 1) = d * r + d
    OBVIOUS
  <2> QED BY <2>1, <2>2
<1>4. q < r => x + d <= y
  <2>1. q < r => d * (q + 1) <= d * r
    BY <1>1, ProductGrows
  <2>2. d * (q + 1) = d * q + d
    BY <1>1
  <2> QED BY <2>1, <2>2
<1>5. q = r => x = y
  OBVIOUS
<1> HIDE DEF q, x, y
<1>6. /\ r <= q <=> 2 * y <= 2 * n + d
      /\ q <= r <=> 2 * n + d < 2 * y + 2 * d
  BY <1>1, <1>2, <1>3, <1>4, <1>5
<1> QED BY <1>6 DEF q, y

\* A whole number of d's rounds to that number.
LEMMA RoundExact ==
  ASSUME NEW k \in Nat, NEW d \in Nat \ {0}
  PROVE  Round(d * k, d) = k
<1>1. d * k \in Nat
  BY ProductGrows
<1>2. k <= Round(d * k, d) /\ Round(d * k, d) <= k
  BY <1>1, RoundBounds
<1>3. Round(d * k, d) \in Nat
  BY <1>1, RoundFacts
<1> QED BY <1>2, <1>3

\* The larger quotient rounds to the larger number, whatever the divisors.
LEMMA RoundMonotone ==
  ASSUME NEW m \in Nat, NEW c \in Nat \ {0}, NEW n \in Nat, NEW d \in Nat \ {0},
         m * d <= n * c
  PROVE  Round(m, c) <= Round(n, d)
<1> DEFINE q == Round(m, c)
<1>1. q \in Nat /\ 2 * (c * q) <= 2 * m + c
  BY RoundFacts
<1> HIDE DEF q
<1>2. /\ c * q \in Nat /\ m * d \in Nat /\ n * c \in Nat /\ c * d \in Nat
      /\ d * q \in Nat
  BY <1>1, ProductGrows
<1>3. d * (2 * (c * q)) <= d * (2 * m + c)
  BY <1>1, <1>2, ProductGrows
<1>4. d * (2 * (c * q)) = c * (2 * (d * q))
  BY <1>1, <1>2
<1>5. d * (2 * m + c) = 2 * (m * d) + c * d
  BY <1>2
<1>6. c * (2 * n + d) = 2 * (n * c) + c * d
  BY <1>2
<1>7. c * (2 * (d * q)) <= c * (2 * n + d)
  BY <1>2, <1>3, <1>4, <1>5, <1>6
<1>8. 2 * (d * q) <= 2 * n + d
  <2>1. 2 * (d * q) \in Nat /\ 2 * n + d \in Nat
    BY <1>2
  <2>2. ~(2 * n + d < 2 * (d * q))
    BY <1>7, <2>1, ProductGrows
  <2>3. QED BY <2>1, <2>2
<1> QED BY <1>1, <1>8, RoundBounds DEF q

-----------------------------------------------------------------------------
(* The scales *)

\* A scale falls from rung to rung, and its last rung is reached by everybody.
IsScale(s) ==
  /\ Len(s) \in Nat \ {0} /\ DOMAIN s = 1..Len(s)
  /\ \A i \in 1..Len(s) : s[i][1] \in Nat
  /\ s[Len(s)][1] = 0
  /\ \A i \in 1..(Len(s) - 1) : s[i][1] > s[i + 1][1]

\* The three scales of the service are scales.
LEMMA ScalesAreScales ==
  IsScale(AmericanScale) /\ IsScale(IGCSEScale) /\ IsScale(MoeScale)
<1>1. IsScale(AmericanScale)
  <2>1. /\ Len(AmericanScale) = 11 /\ DOMAIN AmericanScale = 1..11
        /\ AmericanScale[1][1] = 93 /\ AmericanScale[2][1] = 90
        /\ AmericanScale[3][1] = 87 /\ AmericanScale[4][1] = 83
        /\ AmericanScale[5][1] = 80 /\ AmericanScale[6][1] = 77
        /\ AmericanScale[7][1] = 73 /\ AmericanScale[8][1] = 70
        /\ AmericanScale[9][1] = 67 /\ AmericanScale[10][1] = 65
        /\ AmericanScale[11][1] = 0
    BY DEF AmericanScale
  <2>2. \A i \in 1..11 : i \in {1, 2, 3, 4, 5, 6, 7, 8, 9, 10, 11}
    OBVIOUS
  <2>3. \A i \in 1..11 : AmericanScale[i][1] \in Nat
    BY <2>1, <2>2
  <2>4. \A i \in 1..10 : AmericanScale[i][1] > AmericanScale[i + 1][1]
    BY <2>1, <2>2
  <2>5. QED BY <2>1, <2>3, <2>4 DEF IsScale
<1>2. IsScale(IGCSEScale)
  <2>1. /\ Len(IGCSEScale) = 7 /\ DOMAIN IGCSEScale = 1..7
        /\ IGCSEScale[1][1] = 90 /\ IGCSEScale[2][1] = 80
        /\ IGCSEScale[3][1] = 70 /\ IGCSEScale[4][1] = 60
        /\ IGCSEScale[5][1] = 50 /\ IGCSEScale[6][1] = 40
        /\ IGCSEScale[7][1] = 0
    BY DEF IGCSEScale
  <2>2. \A i \in 1..7 : i \in {1, 2, 3, 4, 5, 6, 7}
    OBVIOUS
  <2>3. \A i \in 1..7 : IGCSEScale[i][1] \in Nat
    BY <2>1, <2>2
  <2>4. \A i \in 1..6 : IGCSEScale[i][1] > IGCSEScale[i + 1][1]
    BY <2>1, <2>2
  <2>5. QED BY <2>1, <2>3, <2>4 DEF IsScale
<1>3. IsScale(MoeScale)
  <2>1. /\ Len(MoeScale) = 5 /\ DOMAIN MoeScale = 1..5
        /\ MoeScale[1][1] = 85 /\ MoeScale[2][1] = 75 /\ MoeScale[3][1] = 65
        /\ MoeScale[4][1] = 50 /\ MoeScale[5][1] = 0
    BY DEF MoeScale
  <2>2. \A i \in 1..5 : i \in {1, 2, 3, 4, 5}
    OBVIOUS
  <2>3. \A i \in 1..5 : MoeScale[i][1] \in Nat
    BY <2>1, <2>2
  <2>4. \A i \in 1..4 : MoeScale[i][1] > MoeScale[i + 1][1]
    BY <2>1, <2>2
  <2>5. QED BY <2>1, <2>3, <2>4 DEF IsScale
<1> QED BY <1>1, <1>2, <1>3

\* What recordGrade repeats are the scales of the calculations.
LEMMA RecordedIsTermScale ==
  RecordedScale = TermScale /\ IsScale(TermScale)
BY ScalesAreScales
   DEF RecordedScale, TermScale, RecordedAmericanScale, RecordedIGCSEScale,
       AmericanScale, IGCSEScale

\* num / den percent reaches the rung s[i].
Reaches(s, num, den, i) == num >= s[i][1] * den

\* A percentage has one rung: the first one it reaches.
LEMMA RungFacts ==
  ASSUME NEW s, IsScale(s), NEW num \in Nat, NEW den \in Nat
  PROVE  /\ Rung(s, num, den) \in 1..Len(s)
         /\ Reaches(s, num, den, Rung(s, num, den))
         /\ \A j \in 1..Len(s) :
              Reaches(s, num, den, j) => Rung(s, num, den) <= j
<1> DEFINE R == {i \in 1..Len(s) : Reaches(s, num, den, i)}
           X == {Len(s) + 1 - i : i \in R}
<1>1. Len(s) \in R
  BY DEF IsScale, Reaches
<1>2. X \in SUBSET (1..Len(s)) /\ X # {}
  BY <1>1 DEF IsScale
<1>3. PICK m \in X : \A y \in X : m >= y
  <2> HIDE DEF X
  <2> QED BY <1>2, LastExists DEF IsScale
<1>4. PICK i \in R : m = Len(s) + 1 - i
  BY <1>3
<1>5. \A j \in R : i <= j
  <2> TAKE j \in R
  <2>1. Len(s) + 1 - j \in X
    OBVIOUS
  <2>2. Len(s) + 1 - i >= Len(s) + 1 - j
    BY <1>3, <1>4, <2>1
  <2> QED BY <1>4, <2>2 DEF IsScale
<1>6. \A j \in 1..Len(s) : s[j][1] * den \in Nat
  BY DEF IsScale
<1>7. /\ i \in DOMAIN s /\ num >= s[i][1] * den
      /\ \A j \in 1..(i - 1) : num < s[j][1] * den
  <2>1. i \in DOMAIN s /\ num >= s[i][1] * den
    BY <1>4 DEF IsScale, Reaches
  <2>2. ASSUME NEW j \in 1..(i - 1) PROVE num < s[j][1] * den
    <3>1. j \in 1..Len(s) /\ ~(i <= j)
      BY <1>4 DEF IsScale
    <3>2. ~(num >= s[j][1] * den)
      BY <1>5, <3>1 DEF Reaches
    <3> QED BY <1>6, <3>1, <3>2
  <2> QED BY <2>1, <2>2
<1>8. /\ Rung(s, num, den) \in DOMAIN s
      /\ num >= s[Rung(s, num, den)][1] * den
      /\ \A j \in 1..(Rung(s, num, den) - 1) : num < s[j][1] * den
  BY <1>7 DEF Rung
<1>9. ASSUME NEW j \in 1..Len(s), Reaches(s, num, den, j)
      PROVE  Rung(s, num, den) <= j
  <2>1. ~(num < s[j][1] * den)
    BY <1>6, <1>9 DEF Reaches
  <2>2. j \notin 1..(Rung(s, num, den) - 1)
    BY <1>8, <2>1
  <2> QED BY <1>8, <2>2 DEF IsScale
<1> QED BY <1>8, <1>9 DEF IsScale, Reaches

-----------------------------------------------------------------------------
(* Percentages *)

MarksTyped == marks \in [Assessments -> Nat \cup {None}]

\* The assessments of a term are finitely many, and those with a grade have
\* natural marks.
LEMMA GradedFacts ==
  ASSUME MarksTyped, NEW t
  PROVE  /\ IsFiniteSet(Graded(t)) /\ IsFiniteSet(Weighing(t))
         /\ Weighing(t) \subseteq Graded(t) /\ Graded(t) \subseteq Assessments
         /\ \A a \in Graded(t) : /\ marks[a] \in Nat /\ marks[a] # None
                                 /\ TotalOf[a] \in Nat /\ WeightOf[a] \in Nat
         /\ \A a \in Weighing(t) : TotalOf[a] > 0 /\ WeightOf[a] > 0
<1>1. Weighing(t) \subseteq Graded(t) /\ Graded(t) \subseteq Assessments
  BY DEF Weighing, Graded
<1>2. IsFiniteSet(Graded(t)) /\ IsFiniteSet(Weighing(t))
  BY <1>1, GradebookAssumption, FS_Subset
<1>3. \A a \in Graded(t) : /\ marks[a] \in Nat /\ marks[a] # None
                           /\ TotalOf[a] \in Nat /\ WeightOf[a] \in Nat
  BY GradebookAssumption DEF MarksTyped, Graded
<1>4. \A a \in Weighing(t) : TotalOf[a] > 0 /\ WeightOf[a] > 0
  BY DEF Weighing
<1> QED BY <1>1, <1>2, <1>3, <1>4

\* Share(a) is marks / total in units of 1 / Unit, without a remainder.
LEMMA ShareFacts ==
  ASSUME MarksTyped, NEW a \in Assessments, marks[a] # None, TotalOf[a] > 0
  PROVE  /\ Share(a) \in Nat
         /\ Share(a) * TotalOf[a] = marks[a] * Unit
<1> DEFINE u == Unit \div TotalOf[a]
<1>1. /\ TotalOf[a] \in Nat \ {0} /\ Unit \in Nat /\ marks[a] \in Nat
      /\ Unit % TotalOf[a] = 0
  BY GradebookAssumption DEF MarksTyped
<1>2. u \in Nat /\ TotalOf[a] * u = Unit
  BY <1>1
<1> HIDE DEF u
<1>3. marks[a] * u \in Nat
  BY <1>1, <1>2, ProductGrows
<1>4. (marks[a] * u) * TotalOf[a] = marks[a] * (TotalOf[a] * u)
  BY <1>1, <1>2
<1> QED BY <1>2, <1>3, <1>4 DEF Share, u

\* The percentage of an assessment is the quotient of its marks, rounded.
LEMMA SingleFacts ==
  ASSUME MarksTyped, NEW a \in Assessments, marks[a] # None
  PROVE  /\ Single(a) \in Nat
         /\ TotalOf[a] > 0 => Single(a) = Round(10000 * marks[a], TotalOf[a])
<1>1. CASE TotalOf[a] > 0
  <2> DEFINE sh == Share(a)
             m == marks[a]
             d == TotalOf[a]
  <2>1. sh \in Nat /\ sh * d = m * Unit
    BY <1>1, ShareFacts
  <2>2. m \in Nat /\ d \in Nat \ {0} /\ Unit \in Nat \ {0}
    BY <1>1, GradebookAssumption DEF MarksTyped
  <2>3. Single(a) = Round(10000 * sh, Unit)
    BY <1>1 DEF Single
  <2> HIDE DEF sh, m, d
  <2>4. (10000 * sh) * d = (10000 * m) * Unit
    <3>1. (10000 * sh) * d = 10000 * (sh * d) /\ (10000 * m) * Unit = 10000 * (m * Unit)
      BY <2>1, <2>2
    <3> QED BY <2>1, <3>1
  <2>5. 10000 * sh \in Nat /\ 10000 * m \in Nat
    BY <2>1, <2>2
  <2>6. (10000 * sh) * d \in Nat
    BY <2>2, <2>5, ProductGrows
  <2>7. /\ Round(10000 * sh, Unit) <= Round(10000 * m, d)
        /\ Round(10000 * m, d) <= Round(10000 * sh, Unit)
    BY <2>2, <2>4, <2>5, <2>6, RoundMonotone
  <2>8. Round(10000 * sh, Unit) \in Nat /\ Round(10000 * m, d) \in Nat
    <3>1. \A x \in Nat : Round(x, Unit) \in Nat /\ Round(x, d) \in Nat
      BY <2>2, RoundFacts
    <3> QED BY <2>5, <3>1
  <2>9. Round(10000 * sh, Unit) = Round(10000 * m, d)
    BY <2>7, <2>8
  <2> QED BY <2>3, <2>8, <2>9 DEF m, d
<1>2. CASE ~(TotalOf[a] > 0)
  BY <1>2 DEF Single
<1> QED BY <1>1, <1>2

\* The weights of a term that has one add up to more than nothing.
LEMMA WeightFacts ==
  ASSUME MarksTyped, NEW t, Weighing(t) # {}
  PROVE  TotalWeight(t) \in Nat \ {0}
<1> DEFINE W == Weighing(t)
<1>1. IsFiniteSet(W) /\ \A a \in W : WeightOf[a] \in Nat /\ WeightOf[a] > 0
  BY GradedFacts
<1>2. PICK a \in W : TRUE
  OBVIOUS
<1>3. IsFiniteSet(W \ {a}) /\ \A b \in W \ {a} : WeightOf[b] \in Nat
  BY <1>1, FS_Subset
<1> HIDE DEF W
<1>4. /\ SumFunctionOnSet(WeightOf, W) = WeightOf[a] + SumFunctionOnSet(WeightOf, W \ {a})
      /\ SumFunctionOnSet(WeightOf, W \ {a}) \in Nat
  BY <1>1, <1>3, SumFacts
<1> QED BY <1>1, <1>4 DEF TotalWeight, W

\* The weighted sum lies between the sums that weigh the worst share, and the
\* best, with all the weights.
LEMMA WeightedSumFacts ==
  ASSUME MarksTyped, NEW t, Weighing(t) # {}
  PROVE  /\ WeightedSum(t) \in Nat
         /\ \E worst, best \in Weighing(t) :
              /\ (10000 * Share(worst)) * TotalWeight(t) <= WeightedSum(t)
              /\ WeightedSum(t) <= (10000 * Share(best)) * TotalWeight(t)
<1> DEFINE W == Weighing(t)
           sh == [a \in W |-> 10000 * Share(a)]
           f == [a \in W |-> 10000 * Share(a) * WeightOf[a]]
<1>1. IsFiniteSet(W) /\ \A a \in W : WeightOf[a] \in Nat
  BY GradedFacts
<1>2. \A a \in W : sh[a] \in Nat /\ sh[a] = 10000 * Share(a)
  BY GradedFacts, ShareFacts
<1>3. \A a \in W : f[a] = sh[a] * WeightOf[a]
  OBVIOUS
<1>4. WeightedSum(t) = SumFunctionOnSet(f, W)
  BY DEF WeightedSum
<1>5. TotalWeight(t) = SumFunctionOnSet(WeightOf, W)
  BY DEF TotalWeight
<1> HIDE DEF W, sh, f
<1>6. PICK lo \in W, hi \in W : \A x \in W : sh[lo] <= sh[x] /\ sh[x] <= sh[hi]
  <2>1. W # {} /\ \A x \in W : sh[x] \in Nat
    BY <1>2 DEF W
  <2> QED BY <1>1, <2>1, ExtremesExist
<1>7. \A a \in W : f[a] \in Nat
  BY <1>1, <1>2, <1>3, ProductGrows
<1>8. SumFunctionOnSet(f, W) \in Nat
  BY <1>1, <1>7, SumFacts
<1> DEFINE least == [a \in W |-> sh[lo] * WeightOf[a]]
           most == [a \in W |-> sh[hi] * WeightOf[a]]
<1>9. \A a \in W : /\ least[a] \in Nat /\ least[a] <= f[a]
                   /\ most[a] \in Nat /\ f[a] <= most[a]
  <2> TAKE a \in W
  <2>1. /\ sh[lo] \in Nat /\ sh[a] \in Nat /\ sh[hi] \in Nat /\ WeightOf[a] \in Nat
        /\ sh[lo] <= sh[a] /\ sh[a] <= sh[hi]
    BY <1>1, <1>2, <1>6
  <2>2. /\ WeightOf[a] * sh[lo] <= WeightOf[a] * sh[a]
        /\ WeightOf[a] * sh[a] <= WeightOf[a] * sh[hi]
    BY <2>1, ProductGrows
  <2>3. /\ WeightOf[a] * sh[lo] = least[a] /\ WeightOf[a] * sh[hi] = most[a]
        /\ WeightOf[a] * sh[a] = f[a]
        /\ least[a] \in Nat /\ most[a] \in Nat
    BY <1>3, <2>1, ProductGrows
  <2> QED BY <2>2, <2>3
<1>10. \A a \in W : least[a] = sh[lo] * WeightOf[a] /\ most[a] = sh[hi] * WeightOf[a]
  OBVIOUS
<1> HIDE DEF least, most
<1>11. /\ SumFunctionOnSet(least, W) <= SumFunctionOnSet(f, W)
       /\ SumFunctionOnSet(f, W) <= SumFunctionOnSet(most, W)
  BY <1>1, <1>7, <1>9, SumMonotone
<1>12. /\ SumFunctionOnSet(least, W) = sh[lo] * SumFunctionOnSet(WeightOf, W)
       /\ SumFunctionOnSet(most, W) = sh[hi] * SumFunctionOnSet(WeightOf, W)
  BY <1>1, <1>2, <1>6, <1>10, SumScaled
<1>13. sh[lo] = 10000 * Share(lo) /\ sh[hi] = 10000 * Share(hi)
  BY <1>2, <1>6
<1>14. /\ (10000 * Share(lo)) * TotalWeight(t) <= WeightedSum(t)
       /\ WeightedSum(t) <= (10000 * Share(hi)) * TotalWeight(t)
  BY <1>4, <1>5, <1>11, <1>12, <1>13
<1> QED BY <1>4, <1>6, <1>8, <1>14 DEF W

\* The weighted percentage of a term lies between those of two assessments.
LEMMA WeightedBetween ==
  ASSUME MarksTyped, NEW t, Weighing(t) # {}
  PROVE  /\ Weighted(t) \in Nat
         /\ \E worst, best \in Graded(t) :
              Single(worst) <= Weighted(t) /\ Weighted(t) <= Single(best)
<1> DEFINE tw == TotalWeight(t)
           ws == WeightedSum(t)
<1>1. tw \in Nat \ {0} /\ ws \in Nat /\ Unit \in Nat \ {0}
  BY WeightFacts, WeightedSumFacts, GradebookAssumption
<1>2. PICK worst \in Weighing(t), best \in Weighing(t) :
        /\ (10000 * Share(worst)) * tw <= ws
        /\ ws <= (10000 * Share(best)) * tw
  BY WeightedSumFacts
<1>3. /\ worst \in Graded(t) /\ best \in Graded(t)
      /\ Single(worst) = Round(10000 * Share(worst), Unit)
      /\ Single(best) = Round(10000 * Share(best), Unit)
      /\ 10000 * Share(worst) \in Nat /\ 10000 * Share(best) \in Nat
  BY GradedFacts, ShareFacts DEF Single
<1>4. Weighted(t) = Round(ws, Unit * tw)
  BY DEF Weighted
<1>5. Unit * tw \in Nat \ {0}
  BY <1>1
<1> DEFINE lo == 10000 * Share(worst)
           hi == 10000 * Share(best)
<1>6. lo \in Nat /\ hi \in Nat /\ lo * tw <= ws /\ ws <= hi * tw
  BY <1>2, <1>3
<1> HIDE DEF tw, ws, lo, hi
<1>7. lo * (Unit * tw) <= ws * Unit
  <2>1. Unit * (lo * tw) <= Unit * ws
    BY <1>1, <1>6, ProductGrows
  <2>2. Unit * (lo * tw) = lo * (Unit * tw) /\ Unit * ws = ws * Unit
    BY <1>1, <1>6
  <2> QED BY <2>1, <2>2
<1>8. ws * Unit <= hi * (Unit * tw)
  <2>1. Unit * ws <= Unit * (hi * tw)
    BY <1>1, <1>6, ProductGrows
  <2>2. Unit * (hi * tw) = hi * (Unit * tw) /\ Unit * ws = ws * Unit
    BY <1>1, <1>6
  <2> QED BY <2>1, <2>2
<1>9. /\ Round(lo, Unit) <= Round(ws, Unit * tw)
      /\ Round(ws, Unit * tw) <= Round(hi, Unit)
  BY <1>1, <1>5, <1>6, <1>7, <1>8, RoundMonotone
<1>10. Round(ws, Unit * tw) \in Nat
  BY <1>1, <1>5, RoundFacts
<1> QED BY <1>3, <1>4, <1>9, <1>10 DEF lo, hi

\* So does the unweighted one.
LEMMA UnweightedBetween ==
  ASSUME MarksTyped, NEW t, Graded(t) # {}
  PROVE  /\ Unweighted(t) \in Nat
         /\ \E worst, best \in Graded(t) :
              Single(worst) <= Unweighted(t) /\ Unweighted(t) <= Single(best)
<1> DEFINE A == Graded(t)
           f == [a \in A |-> Single(a)]
           n == Cardinality(A)
<1>1. IsFiniteSet(A) /\ A # {} /\ n \in Nat \ {0}
  BY GradedFacts, FS_CardinalityType, FS_EmptySet
<1>2. \A a \in A : f[a] \in Nat /\ f[a] = Single(a)
  BY GradedFacts, SingleFacts
<1>3. Unweighted(t) = Round(SumFunctionOnSet(f, A), n)
  BY DEF Unweighted, SumPercentages
<1> HIDE DEF A, f, n
<1>4. PICK lo \in A, hi \in A : \A x \in A : f[lo] <= f[x] /\ f[x] <= f[hi]
  BY <1>1, <1>2, ExtremesExist
<1>5. SumFunctionOnSet(f, A) \in Nat
  BY <1>1, <1>2, SumFacts
<1> DEFINE least == [a \in A |-> f[lo]]
           most == [a \in A |-> f[hi]]
<1>6. /\ f[lo] \in Nat /\ f[hi] \in Nat
      /\ \A a \in A : /\ f[a] \in Nat /\ least[a] = f[lo] /\ most[a] = f[hi]
                      /\ least[a] \in Nat /\ most[a] \in Nat
                      /\ least[a] <= f[a] /\ f[a] <= most[a]
  BY <1>2, <1>4
<1> HIDE DEF least, most
<1>7. /\ SumFunctionOnSet(least, A) <= SumFunctionOnSet(f, A)
      /\ SumFunctionOnSet(f, A) <= SumFunctionOnSet(most, A)
  BY <1>1, <1>6, SumMonotone
<1>8. /\ SumFunctionOnSet(least, A) = f[lo] * n
      /\ SumFunctionOnSet(most, A) = f[hi] * n
  BY <1>1, <1>6, SumConstant DEF n
<1> DEFINE sum == SumFunctionOnSet(f, A)
<1>9. /\ f[lo] * n = n * f[lo] /\ n * f[lo] \in Nat
      /\ f[hi] * n = n * f[hi] /\ n * f[hi] \in Nat
  BY <1>1, <1>6, ProductGrows
<1>10. n * f[lo] <= sum /\ sum <= n * f[hi] /\ sum \in Nat
  BY <1>5, <1>7, <1>8, <1>9
<1> HIDE DEF sum
<1>11. f[lo] <= Round(sum, n) /\ Round(sum, n) <= f[hi]
  BY <1>1, <1>6, <1>9, <1>10, RoundBounds
<1>12. Round(sum, n) \in Nat
  BY <1>1, <1>10, RoundFacts
<1> QED BY <1>2, <1>3, <1>4, <1>11, <1>12 DEF sum, A

\* The percentages of the service are natural numbers, or missing.
LEMMA PercentType ==
  ASSUME MarksTyped, NEW t
  PROVE  /\ Percent(t) \in Nat
         /\ SiblingPercent(t) # None => SiblingPercent(t) \in Nat
<1>1. Graded(t) # {} => Unweighted(t) \in Nat
  BY UnweightedBetween
<1>2. Weighing(t) # {} => Weighted(t) \in Nat
  BY WeightedBetween
<1> QED BY <1>1, <1>2 DEF Percent, SiblingPercent

-----------------------------------------------------------------------------
(* Type correctness *)

\* The band of a percentage is a band of its scale.
LEMMA BandType ==
  ASSUME NEW s \in {AmericanScale, IGCSEScale, MoeScale}, NEW num \in Nat,
         NEW den \in Nat
  PROVE  Band(s, num, den) \in Bands
<1>1. Rung(s, num, den) \in DOMAIN s
  BY ScalesAreScales, RungFacts DEF IsScale
<1> DEFINE r == Rung(s, num, den)
<1> HIDE DEF r
<1>2. s[r][2] \in Bands
  <2>1. CASE s = AmericanScale
    BY <1>1, <2>1 DEF Bands, r
  <2>2. CASE s = IGCSEScale
    BY <1>1, <2>2 DEF Bands, r
  <2>3. CASE s = MoeScale
    BY <1>1, <2>3 DEF Bands, r
  <2> QED BY <2>1, <2>2, <2>3
<1> QED BY <1>2 DEF Band, r

\* So is the band that is stored, and the one that is answered.
LEMMA TermBandType ==
  ASSUME NEW num \in Nat, NEW den \in Nat
  PROVE  /\ Band(RecordedScale, num, den) \in Bands
         /\ Band(TermScale, num, den) \in Bands
         /\ Band(MoeScale, num, den) \in Bands
<1>1. TermScale \in {AmericanScale, IGCSEScale, MoeScale}
  BY DEF TermScale
<1>2. RecordedScale = TermScale
  BY RecordedIsTermScale
<1> HIDE DEF TermScale
<1> QED BY <1>1, <1>2, BandType

\* The letter that recordGrade stores with marks m.
LetterFor(a, m) ==
  IF TotalOf[a] > 0 THEN Band(RecordedScale, 100 * m, TotalOf[a])
  ELSE Band(RecordedScale, 0, 1)

\* It is a band of one of the scales.
LEMMA LetterType ==
  ASSUME NEW a \in Assessments, NEW m \in Nat
  PROVE  LetterFor(a, m) \in Bands
<1>1. TotalOf[a] \in Nat /\ 100 * m \in Nat
  BY GradebookAssumption
<1> QED BY <1>1, TermBandType DEF LetterFor

Answers == [percentage: Nat \cup {None}, band: Bands \cup {None},
            passed: BOOLEAN, first: Nat \cup {None},
            second: Nat \cup {None}, year: Nat \cup {None},
            rating: Bands \cup {None}]

\* A National answer: the year is a mean, rated like the term.
LEMMA AnswerType ==
  ASSUME TypeOK, AnswerNational
  PROVE  answer' \in Answers
<1> DEFINE sib == SiblingPercent(Other(asked))
           year == IF sib = None THEN None ELSE Round(local + sib, 2)
           rating == IF year = None THEN None ELSE Band(MoeScale, year, 100)
           band == Band(MoeScale, local, 100)
           passed == local >= 5000
           first == IF asked = "SEMESTER_1" THEN local ELSE sib
           second == IF asked = "SEMESTER_2" THEN local ELSE sib
<1>1. MarksTyped /\ local \in Nat
  BY DEF TypeOK, MarksTyped
<1>2. sib \in Nat \cup {None}
  BY <1>1, PercentType
<1>3. year \in Nat \cup {None}
  <2> HIDE DEF sib
  <2>1. sib # None => local + sib \in Nat
    BY <1>1, <1>2
  <2> QED BY <2>1, RoundFacts
<1>4. rating \in Bands \cup {None} /\ band \in Bands
  <2> HIDE DEF year
  <2> QED BY <1>1, <1>3, TermBandType
<1>5. answer' = [percentage |-> local, band |-> band, passed |-> passed,
                 first |-> first, second |-> second, year |-> year,
                 rating |-> rating]
  BY DEF AnswerNational
<1>6. passed \in BOOLEAN /\ first \in Nat \cup {None} /\ second \in Nat \cup {None}
  BY <1>1, <1>2
<1> HIDE DEF sib, year, rating, band, passed, first, second
<1> QED BY <1>1, <1>3, <1>4, <1>5, <1>6 DEF Answers

\* Every step keeps the types.
LEMMA TypeStep == TypeOK /\ [Next]_vars => TypeOK'
<1> SUFFICES ASSUME TypeOK, [Next]_vars PROVE TypeOK'
  OBVIOUS
<1>0. MarksTyped /\ local \in Nat
  BY DEF TypeOK, MarksTyped
<1>1. ASSUME NEW a \in Assessments, NEW m \in MarksOf[a], RecordGrade(a, m)
      PROVE  TypeOK'
  <2>1. m \in Nat
    BY GradebookAssumption
  <2>2. letter' = [letter EXCEPT ![a] = LetterFor(a, m)]
    BY <1>1 DEF RecordGrade, LetterFor
  <2>3. LetterFor(a, m) \in Bands
    BY <2>1, LetterType
  <2> QED BY <1>1, <2>1, <2>2, <2>3 DEF RecordGrade, TypeOK
<1>2. ASSUME NEW t \in Terms, Ask(t)
      PROVE  TypeOK'
  <2>1. Percent(t) \in Nat
    BY <1>0, PercentType
  <2>2. NoAnswer \in Answers
    BY DEF NoAnswer, Answers
  <2> QED BY <1>2, <2>1, <2>2 DEF Ask, TypeOK, Answers
<1>3. CASE Answer
  <2> DEFINE b == Band(TermScale, local, 100)
  <2>1. b \in Bands
    BY <1>0, TermBandType
  <2>2. answer' = [NoAnswer EXCEPT !.percentage = local, !.band = b]
    BY <1>3 DEF Answer
  <2> HIDE DEF b
  <2>3. answer' \in Answers
    BY <1>0, <2>1, <2>2 DEF NoAnswer, Answers
  <2> QED BY <1>3, <2>3 DEF Answer, TypeOK, Answers
<1>4. CASE AnswerNational
  BY <1>4, AnswerType DEF AnswerNational, TypeOK, Answers
<1>5. CASE UNCHANGED vars
  BY <1>5 DEF vars, TypeOK
<1> QED BY <1>1, <1>2, <1>3, <1>4, <1>5 DEF Next

\* Rows, locals and answers keep their types, TypeOK: every percentage has a
\* band, and every quotient is taken by a divisor that is not 0.
THEOREM TypeCorrect == Spec => []TypeOK
<1>1. Init => TypeOK
  BY DEF Init, TypeOK, NoAnswer
<1> QED BY <1>1, TypeStep, PTL DEF Spec

\* A term's percentage lies between those of its worst and of its best
\* assessment, MeanIsBetween, in every reachable state: whatever the weights
\* add up to, whatever lacks a weight or a total.
THEOREM PercentIsAMean == Spec => []MeanIsBetween
<1>1. TypeOK => MeanIsBetween
  <2> SUFFICES ASSUME TypeOK, NEW t \in Terms, Graded(t) # {}
               PROVE  \E worst, best \in Graded(t) :
                        Single(worst) <= Percent(t) /\ Percent(t) <= Single(best)
    BY DEF MeanIsBetween
  <2>1. MarksTyped
    BY DEF TypeOK, MarksTyped
  <2>2. CASE Weighing(t) # {}
    <3>1. Percent(t) = Weighted(t)
      BY <2>2 DEF Percent
    <3> QED BY <2>1, <2>2, <3>1, WeightedBetween
  <2>3. CASE Weighing(t) = {}
    <3>1. Percent(t) = Unweighted(t)
      BY <2>3 DEF Percent
    <3> QED BY <2>1, <3>1, UnweightedBetween
  <2> QED BY <2>2, <2>3
<1> QED BY <1>1, TypeCorrect, PTL

\* The year total does not depend on the semester that was asked for,
\* YearAgrees, once both have an assessment that weighs.
THEOREM SemestersAgree == Spec => []YearAgrees
<1>1. YearAgrees
  BY DEF YearAgrees, Percent, SiblingPercent, Weighing
<1> QED BY <1>1, PTL

-----------------------------------------------------------------------------
(* The stored letter *)

\* A row holds the letter of its marks.
Stored == \A a \in Assessments :
            marks[a] # None => letter[a] = LetterFor(a, marks[a])

\* On a rung, rounding matters at the edge only: marks that do not reach a rung
\* which their rounded percentage reaches round to its least percentage, and
\* reach the rung below.
LEMMA RoundedRung ==
  ASSUME NEW s, IsScale(s), NEW m \in Nat, NEW d \in Nat \ {0}
  PROVE  LET p == Round(10000 * m, d)
             i == Rung(s, p, 100)
             k == Rung(s, 100 * m, d)
         IN  \/ k = i
             \/ /\ i < Len(s) /\ k = i + 1
                /\ p = 100 * s[i][1] /\ 10000 * m < p * d
<1> DEFINE p == Round(10000 * m, d)
           i == Rung(s, p, 100)
           k == Rung(s, 100 * m, d)
           v == s[i][1]
<1>1. p \in Nat /\ 10000 * m \in Nat /\ 100 * m \in Nat
  <2>1. 10000 * m \in Nat /\ 100 * m \in Nat
    OBVIOUS
  <2> QED BY <2>1, RoundFacts
<1>2. \A r \in Nat : /\ r <= p <=> 2 * (d * r) <= 2 * (10000 * m) + d
                     /\ p <= r <=> 2 * (10000 * m) + d < 2 * (d * r) + 2 * d
  BY <1>1, RoundBounds
<1> HIDE DEF p
<1>3. /\ i \in 1..Len(s) /\ Reaches(s, p, 100, i)
      /\ \A j \in 1..Len(s) : Reaches(s, p, 100, j) => i <= j
  BY <1>1, RungFacts
<1>4. /\ k \in 1..Len(s) /\ Reaches(s, 100 * m, d, k)
      /\ \A j \in 1..Len(s) : Reaches(s, 100 * m, d, j) => k <= j
  BY <1>1, RungFacts
<1> HIDE DEF i, k
<1>5. Len(s) \in Nat /\ v \in Nat
  BY <1>3 DEF IsScale
<1>6. i <= k
  <2> DEFINE x == s[k][1]
  <2>1. x \in Nat /\ 100 * m >= x * d
    BY <1>4 DEF IsScale, Reaches
  <2> HIDE DEF x
  <2>2. x * d \in Nat /\ d * (100 * x) = 100 * (x * d)
    BY <2>1, ProductGrows
  <2>3. 2 * (d * (100 * x)) <= 2 * (10000 * m) + d
    BY <2>1, <2>2
  <2>4. 100 * x <= p
    BY <1>2, <2>1, <2>3
  <2>5. Reaches(s, p, 100, k)
    BY <1>1, <2>1, <2>4 DEF Reaches, x
  <2> QED BY <1>3, <1>4, <2>5
<1>7. ASSUME i < k
      PROVE  /\ i < Len(s) /\ k = i + 1
             /\ p = 100 * v /\ 10000 * m < p * d
  <2>1. i < Len(s) /\ i + 1 \in 1..Len(s)
    BY <1>3, <1>4, <1>5, <1>7
  <2>2. ~(100 * m >= v * d)
    BY <1>3, <1>4, <1>5, <1>7 DEF Reaches
  <2>3. p >= v * 100
    BY <1>3 DEF Reaches
  <2> DEFINE w == s[i + 1][1]
  <2>4. w \in Nat /\ v > w
    BY <1>3, <2>1 DEF IsScale
  <2> HIDE DEF v, w
  <2>5. /\ v * d \in Nat /\ d * (100 * v) = 100 * (v * d)
        /\ w * d \in Nat /\ w * d + d <= v * d
    <3>1. v * d \in Nat /\ w * d \in Nat
      BY <1>5, <2>4, ProductGrows
    <3>2. d * (w + 1) <= d * v
      BY <1>5, <2>4, ProductGrows
    <3>3. d * (w + 1) = w * d + d /\ d * v = v * d /\ d * (100 * v) = 100 * (v * d)
      BY <1>5, <2>4
    <3> QED BY <3>1, <3>2, <3>3
  <2>6. p <= 100 * v
    <3>1. 2 * (10000 * m) + d < 2 * (d * (100 * v)) + 2 * d
      BY <2>2, <2>5
    <3> QED BY <1>2, <1>5, <3>1
  <2>7. p = 100 * v
    BY <1>1, <1>5, <2>3, <2>6
  <2>8. 10000 * m < p * d
    <3>1. p * d = 100 * (v * d)
      BY <1>5, <2>7
    <3> QED BY <2>2, <2>5, <3>1
  <2>9. 100 * m >= w * d
    <3>1. 2 * (d * (100 * v)) <= 2 * (10000 * m) + d
      BY <1>2, <1>5, <2>7
    <3> QED BY <2>5, <3>1
  <2>10. Reaches(s, 100 * m, d, i + 1)
    BY <2>9 DEF Reaches, w
  <2>11. k <= i + 1
    BY <1>4, <2>1, <2>10
  <2> QED BY <1>3, <1>4, <1>7, <2>1, <2>7, <2>8, <2>11
<1>8. i \in Int /\ k \in Int
  BY <1>3, <1>4
<1>9. \/ k = i
      \/ /\ i < Len(s) /\ k = i + 1
         /\ p = 100 * v /\ 10000 * m < p * d
  BY <1>6, <1>7, <1>8
<1> QED BY <1>9 DEF p, i, k

\* What rounding can do to a letter.
LEMMA LetterAtEdge ==
  ASSUME MarksTyped, NEW a \in Assessments, marks[a] # None
  PROVE  LET p == Single(a)
         IN  \/ LetterFor(a, marks[a]) = Band(TermScale, p, 100)
             \/ \E i \in DOMAIN TermScale :
                   /\ p = 100 * TermScale[i][1]
                   /\ 10000 * marks[a] < p * TotalOf[a]
                   /\ i < Len(TermScale)
                   /\ LetterFor(a, marks[a]) = TermScale[i + 1][2]
<1> DEFINE s == TermScale
           m == marks[a]
           d == TotalOf[a]
           p == Single(a)
<1>0. /\ IsScale(s) /\ RecordedScale = s /\ m \in Nat /\ d \in Nat
      /\ p \in Nat
  BY RecordedIsTermScale, GradebookAssumption, SingleFacts DEF MarksTyped
<1>1. CASE d > 0
  <2>1. /\ p = Round(10000 * m, d)
        /\ LetterFor(a, m) = s[Rung(s, 100 * m, d)][2]
        /\ Band(s, p, 100) = s[Rung(s, p, 100)][2]
    BY <1>0, <1>1, SingleFacts DEF LetterFor, Band
  <2> DEFINE i == Rung(s, p, 100)
             k == Rung(s, 100 * m, d)
  <2>2. i \in DOMAIN s
    BY <1>0, RungFacts DEF IsScale
  <2> HIDE DEF s, m, d, p
  <2>3. \/ k = i
        \/ /\ i < Len(s) /\ k = i + 1
           /\ p = 100 * s[i][1] /\ 10000 * m < p * d
    BY <1>0, <1>1, <2>1, RoundedRung
  <2> HIDE DEF i, k
  <2>4. \/ s[k][2] = s[i][2]
        \/ \E j \in DOMAIN s :
              /\ p = 100 * s[j][1] /\ 10000 * m < p * d
              /\ j < Len(s) /\ s[k][2] = s[j + 1][2]
    BY <2>2, <2>3
  <2> QED BY <2>1, <2>4 DEF i, k, s, m, d, p
<1>2. CASE ~(d > 0)
  <2>1. p = 0 /\ LetterFor(a, m) = Band(s, 0, 1)
    BY <1>0, <1>2 DEF Single, LetterFor
  <2> HIDE DEF s, m, d, p
  <2>2. \A j \in 1..Len(s) : Reaches(s, 0, 1, j) <=> Reaches(s, 0, 100, j)
    <3>1. \A j \in 1..Len(s) : s[j][1] \in Nat
      BY <1>0 DEF IsScale
    <3> QED BY <3>1 DEF Reaches
  <2>3. Rung(s, 0, 1) = Rung(s, 0, 100)
    <3>1. /\ Rung(s, 0, 1) \in 1..Len(s) /\ Reaches(s, 0, 1, Rung(s, 0, 1))
          /\ \A j \in 1..Len(s) : Reaches(s, 0, 1, j) => Rung(s, 0, 1) <= j
      BY <1>0, RungFacts
    <3>2. /\ Rung(s, 0, 100) \in 1..Len(s) /\ Reaches(s, 0, 100, Rung(s, 0, 100))
          /\ \A j \in 1..Len(s) : Reaches(s, 0, 100, j) => Rung(s, 0, 100) <= j
      BY <1>0, RungFacts
    <3> QED BY <2>2, <3>1, <3>2
  <2>4. LetterFor(a, m) = Band(s, p, 100)
    BY <2>1, <2>3 DEF Band
  <2> QED BY <2>4 DEF s, m, p
<1> QED BY <1>0, <1>1, <1>2

\* Every step keeps the letters of the rows.
LEMMA StoredStep == TypeOK /\ Stored /\ [Next]_vars => Stored'
<1> SUFFICES ASSUME TypeOK, Stored, [Next]_vars PROVE Stored'
  OBVIOUS
<1>1. UNCHANGED track
  BY DEF Next, RecordGrade, Ask, Answer, AnswerNational, vars
<1>2. \A a, m : LetterFor(a, m)' = LetterFor(a, m)
  BY <1>1 DEF LetterFor, RecordedScale
<1>3. ASSUME NEW a \in Assessments, NEW m \in MarksOf[a], RecordGrade(a, m)
      PROVE  Stored'
  <2>1. /\ marks' = [marks EXCEPT ![a] = m]
        /\ letter' = [letter EXCEPT ![a] = LetterFor(a, m)]
    BY <1>3 DEF RecordGrade, LetterFor
  <2>2. \A b \in Assessments : /\ marks'[b] = IF b = a THEN m ELSE marks[b]
                              /\ letter'[b] = IF b = a THEN LetterFor(a, m)
                                              ELSE letter[b]
    BY <2>1 DEF TypeOK
  <2>3. \A b \in Assessments :
          marks'[b] # None => letter'[b] = LetterFor(b, marks'[b])
    BY <2>2 DEF Stored
  <2> QED BY <1>1, <2>3 DEF Stored, LetterFor, RecordedScale
<1>4. CASE UNCHANGED <<marks, letter>>
  BY <1>1, <1>4 DEF Stored, LetterFor, RecordedScale
<1> QED BY <1>3, <1>4 DEF Next, Ask, Answer, AnswerNational, vars

\* The letter stored with the marks is the one the term gets when it is its only
\* assessment, but for rounding up to a rung's edge, StoredLetterIsTermLetter:
\* for every mark and total, and although recordGrade repeats the scales.
THEOREM StoredLettersAgree == Spec => []StoredLetterIsTermLetter
<1>1. Init => Stored
  BY DEF Init, Stored
<1>2. TypeOK /\ Stored => StoredLetterIsTermLetter
  <2> SUFFICES ASSUME TypeOK, Stored, NEW t \in Terms, NEW a \in Graded(t)
               PROVE  LET p == Single(a)
                      IN  \/ letter[a] = Band(TermScale, p, 100)
                          \/ \E i \in DOMAIN TermScale :
                                /\ p = 100 * TermScale[i][1]
                                /\ 10000 * marks[a] < p * TotalOf[a]
                                /\ i < Len(TermScale)
                                /\ letter[a] = TermScale[i + 1][2]
    BY DEF StoredLetterIsTermLetter
  <2>1. /\ MarksTyped /\ a \in Assessments /\ marks[a] # None
        /\ letter[a] = LetterFor(a, marks[a])
    BY DEF TypeOK, MarksTyped, Graded, Stored
  <2> QED BY <2>1, LetterAtEdge
<1> QED BY <1>1, <1>2, StoredStep, TypeCorrect, PTL DEF Spec

-----------------------------------------------------------------------------
(* The National answer *)

\* The rounded mean of two numbers lies between them.
LEMMA MeanOfTwo ==
  ASSUME NEW x \in Nat, NEW y \in Nat
  PROVE  /\ Round(x + y, 2) \in Nat
         /\ x <= y => x <= Round(x + y, 2) /\ Round(x + y, 2) <= y
         /\ y <= x => y <= Round(x + y, 2) /\ Round(x + y, 2) <= x
<1> DEFINE r == Round(x + y, 2)
<1>1. r \in Nat /\ 2 * (2 * r) <= 2 * (x + y) + 2 /\ 2 * (x + y) + 2 < 2 * (2 * r) + 4
  <2>1. \A n \in Nat : /\ Round(n, 2) \in Nat /\ 2 * (2 * Round(n, 2)) <= 2 * n + 2
                       /\ 2 * n + 2 < 2 * (2 * Round(n, 2)) + 4
    BY RoundFacts
  <2>2. x + y \in Nat
    OBVIOUS
  <2> QED BY <2>1, <2>2
<1> HIDE DEF r
<1>2. /\ x <= y => x <= r /\ r <= y
      /\ y <= x => y <= r /\ r <= x
  BY <1>1
<1> QED BY <1>1, <1>2 DEF r

Enough(p) == p >= 5000

\* Whoever has 50 percent passes on the scale of ratings.
LEMMA PassedIsRated ==
  ASSUME NEW p \in Nat
  PROVE  /\ Enough(p) => Band(MoeScale, p, 100) # "Below Standard"
         /\ ~Enough(p) => Band(MoeScale, p, 100) = "Below Standard"
<1> DEFINE i == Rung(MoeScale, p, 100)
<1>1. /\ Len(MoeScale) = 5
      /\ MoeScale[1][1] = 85 /\ MoeScale[2][1] = 75 /\ MoeScale[3][1] = 65
      /\ MoeScale[4][1] = 50
  BY DEF MoeScale
<1>2. /\ MoeScale[1][2] # "Below Standard" /\ MoeScale[2][2] # "Below Standard"
      /\ MoeScale[3][2] # "Below Standard" /\ MoeScale[4][2] # "Below Standard"
      /\ MoeScale[5][2] = "Below Standard"
  BY Zenon DEF MoeScale
<1>3. /\ i \in 1..Len(MoeScale) /\ Reaches(MoeScale, p, 100, i)
      /\ \A j \in 1..Len(MoeScale) : Reaches(MoeScale, p, 100, j) => i <= j
  <2>1. IsScale(MoeScale) /\ 100 \in Nat
    BY ScalesAreScales
  <2> QED BY <2>1, RungFacts
<1> HIDE DEF i
<1>4. /\ i \in {1, 2, 3, 4, 5} /\ p >= MoeScale[i][1] * 100
      /\ p >= 5000 => i <= 4
  BY <1>1, <1>3 DEF Reaches
<1>5. /\ Enough(p) => i \in {1, 2, 3, 4}
      /\ ~Enough(p) => i = 5
  BY <1>1, <1>4 DEF Enough
<1>6. Band(MoeScale, p, 100) = MoeScale[i][2]
  BY DEF Band, i
<1>7. i \in {1, 2, 3, 4} => MoeScale[i][2] # "Below Standard"
  BY <1>2, Zenon
<1>8. i = 5 => MoeScale[i][2] = "Below Standard"
  BY <1>2, Zenon
<1> QED BY <1>5, <1>6, <1>7, <1>8, Zenon

\* Only the other tracks are answered without reading the other semester.
Tracked == pc = "answer" => track # "NATIONAL"

\* A National calculation ends with a coherent answer.
LEMMA AnswerCoherent ==
  ASSUME TypeOK, AnswerNational
  PROVE  NationalIsCoherent'
<1> DEFINE sib == SiblingPercent(Other(asked))
           year == IF sib = None THEN None ELSE Round(local + sib, 2)
           first == IF asked = "SEMESTER_1" THEN local ELSE sib
           second == IF asked = "SEMESTER_2" THEN local ELSE sib
           passed == local >= 5000
<1>1. /\ answer'.passed = passed
      /\ answer'.band = Band(MoeScale, local, 100)
      /\ answer'.first = first /\ answer'.second = second
      /\ answer'.year = year
      /\ answer'.rating = IF year = None THEN None ELSE Band(MoeScale, year, 100)
  BY DEF AnswerNational
<1>2. local \in Nat /\ asked \in Terms /\ (sib # None => sib \in Nat)
  BY PercentType DEF TypeOK, MarksTyped
<1>3. answer'.passed <=> answer'.band # "Below Standard"
  <2>1. passed <=> Enough(local)
    BY DEF Enough
  <2>2. /\ Enough(local) => Band(MoeScale, local, 100) # "Below Standard"
        /\ ~Enough(local) => Band(MoeScale, local, 100) = "Below Standard"
    BY <1>2, PassedIsRated, Zenon
  <2> HIDE DEF passed
  <2> QED BY <1>1, <2>1, <2>2, Zenon
<1> HIDE DEF sib
<1>4. ASSUME answer'.year # None
      PROVE  /\ \/ first <= year /\ year <= second
                \/ second <= year /\ year <= first
             /\ first = second => answer'.rating = answer'.band
  <2>1. sib \in Nat /\ year = Round(local + sib, 2) /\ year # None
    BY <1>1, <1>2, <1>4
  <2>2. \/ first = local /\ second = sib
        \/ first = sib /\ second = local
    BY <1>2 DEF Terms
  <2>3. /\ year \in Nat
        /\ local <= sib => local <= year /\ year <= sib
        /\ sib <= local => sib <= year /\ year <= local
    BY <1>2, <2>1, MeanOfTwo
  <2>4. local = sib => year = local
    BY <1>2, <2>1, <2>3
  <2> HIDE DEF year, first, second
  <2>5. first = second => answer'.rating = answer'.band
    BY <1>1, <2>1, <2>2, <2>4
  <2>6. \/ first <= year /\ year <= second
        \/ second <= year /\ year <= first
    BY <1>2, <2>1, <2>2, <2>3
  <2> QED BY <2>5, <2>6
<1> HIDE DEF year, first, second, passed
<1>5. answer'.year # None =>
        /\ \/ answer'.first <= answer'.year /\ answer'.year <= answer'.second
           \/ answer'.second <= answer'.year /\ answer'.year <= answer'.first
        /\ (answer'.first = answer'.second => answer'.rating = answer'.band)
  BY <1>1, <1>4
<1> QED BY <1>3, <1>5, Zenon DEF NationalIsCoherent

\* A National answer is coherent, NationalIsCoherent, in every reachable state:
\* whatever is recorded between the reads of its two semesters.
THEOREM NationalAnswersAreCoherent == Spec => []NationalIsCoherent
<1>1. Init => Tracked /\ NationalIsCoherent
  BY DEF Init, Tracked, NationalIsCoherent, NoAnswer
<1>2. TypeOK /\ Tracked /\ NationalIsCoherent /\ [Next]_vars
        => Tracked' /\ NationalIsCoherent'
  <2> SUFFICES ASSUME TypeOK, Tracked, NationalIsCoherent, [Next]_vars
               PROVE  Tracked' /\ NationalIsCoherent'
    OBVIOUS
  <2>1. CASE UNCHANGED <<track, pc, answer>>
    BY <2>1 DEF Tracked, NationalIsCoherent
  <2>2. ASSUME NEW t \in Terms, Ask(t)
        PROVE  Tracked' /\ NationalIsCoherent'
    BY <2>2 DEF Ask, Tracked, NationalIsCoherent, NoAnswer
  <2>3. CASE Answer
    <3>1. pc' = "idle" /\ track' = track /\ track # "NATIONAL"
      BY <2>3 DEF Answer, Tracked
    <3>2. answer'.year = None
      BY <2>3 DEF Answer, NoAnswer
    <3> QED BY <3>1, <3>2 DEF Tracked, NationalIsCoherent
  <2>4. CASE AnswerNational
    BY <2>4, AnswerCoherent DEF AnswerNational, Tracked
  <2> QED BY <2>1, <2>2, <2>3, <2>4 DEF Next, RecordGrade, vars
<1> QED BY <1>1, <1>2, TypeCorrect, PTL DEF Spec
=============================================================================
