------------------------------- MODULE Grades -------------------------------
(***************************************************************************)
(* The gradebook of one student in one subject over the two semesters of a *)
(* year: GradeService                                                      *)
(* (src/backend/src/academic/services/grade.service.ts).                   *)
(*                                                                         *)
(* Marks are counted in hundredths, as the columns Decimal(6,2) hold them, *)
(* percentages in hundredths of a percent, as the service rounds them; the *)
(* arithmetic is exact where the code's is floating point.  A band is known*)
(* by its letter (American, IGCSE) or its rating (National).  One          *)
(* calculation runs at a time: it only reads, so calculations do not       *)
(* disturb each other, but marks may be recorded between its reads.        *)
(***************************************************************************)
EXTENDS Naturals, Sequences, FiniteSets, Functions

CONSTANTS
    Assessments,
    TermOf,      \* assessment -> its term
    TotalOf,     \* assessment -> total marks, in hundredths
    WeightOf,    \* assessment -> weight
    MarksOf,     \* assessment -> the marks a teacher may record for it
    Unit,        \* a common multiple of the totals
    Tracks,      \* the departments' tracks
    None

Terms == {"SEMESTER_1", "SEMESTER_2"}

ASSUME GradebookAssumption ==
    /\ TermOf \in [Assessments -> Terms]
    /\ TotalOf \in [Assessments -> Nat]
    /\ WeightOf \in [Assessments -> Nat]
    /\ MarksOf \in [Assessments -> SUBSET Nat]
    /\ Unit \in Nat \ {0} /\ IsFiniteSet(Assessments)
    /\ Tracks \subseteq {"AMERICAN", "IGCSE", "NATIONAL"}
    /\ \A a \in Assessments : TotalOf[a] > 0 => Unit % TotalOf[a] = 0

VARIABLES
    track,    \* the department of the subject
    marks,    \* assessment -> marksObtained, or None without a row
    letter,   \* assessment -> letterGrade of the row, or None
    pc,       \* where the calculation stands
    asked,    \* the term it is for
    local,    \* the percentage read for that term
    answer    \* the last answer: [percentage, band, passed, first, second,
              \* year, rating]

vars == <<track, marks, letter, pc, asked, local, answer>>

Other(t) == IF t = "SEMESTER_1" THEN "SEMESTER_2" ELSE "SEMESTER_1"

\* Math.round of num / den
Round(num, den) == (2 * num + den) \div (2 * den)
-----------------------------------------------------------------------------
(* The scales, from the best band to the worst: <<least percent, band>> *)

AmericanScale == <<<<93, "A">>, <<90, "A-">>, <<87, "B+">>, <<83, "B">>,
                   <<80, "B-">>, <<77, "C+">>, <<73, "C">>, <<70, "C-">>,
                   <<67, "D+">>, <<65, "D">>, <<0, "F">>>>

IGCSEScale == <<<<90, "A*">>, <<80, "A">>, <<70, "B">>, <<60, "C">>,
                <<50, "D">>, <<40, "E">>, <<0, "U">>>>

\* Mutant of MoeScale: the pass mark is exclusive.
MoeScaleAbove == <<<<85, "Excellent">>, <<75, "Very Good">>, <<65, "Good">>,
                   <<51, "Pass">>, <<0, "Below Standard">>>>

MoeScale == <<<<85, "Excellent">>, <<75, "Very Good">>, <<65, "Good">>,
              <<50, "Pass">>, <<0, "Below Standard">>>>

\* recordGrade repeats two of the scales.
RecordedAmericanScale ==
    <<<<93, "A">>, <<90, "A-">>, <<87, "B+">>, <<83, "B">>, <<80, "B-">>,
      <<77, "C+">>, <<73, "C">>, <<70, "C-">>, <<67, "D+">>, <<65, "D">>,
      <<0, "F">>>>

RecordedIGCSEScale == <<<<90, "A*">>, <<80, "A">>, <<70, "B">>, <<60, "C">>,
                        <<50, "D">>, <<40, "E">>, <<0, "U">>>>

\* The first rung that num / den percent reaches.
Rung(scale, num, den) ==
    CHOOSE i \in DOMAIN scale : /\ num >= scale[i][1] * den
                                /\ \A j \in 1..(i - 1) : num < scale[j][1] * den

Band(scale, num, den) == scale[Rung(scale, num, den)][2]

TermScale == IF track = "AMERICAN" THEN AmericanScale
             ELSE IF track = "IGCSE" THEN IGCSEScale ELSE MoeScale

\* Mutant of RecordedScale: the default 'N/A' stands for the other tracks.
RecordedScaleDefault ==
    IF track = "AMERICAN" THEN RecordedAmericanScale
    ELSE IF track = "IGCSE" THEN RecordedIGCSEScale ELSE <<<<0, "N/A">>>>

RecordedScale == IF track = "AMERICAN" THEN RecordedAmericanScale
                 ELSE IF track = "IGCSE" THEN RecordedIGCSEScale ELSE MoeScale
-----------------------------------------------------------------------------
(* Percentages *)

Graded(t) == {a \in Assessments : TermOf[a] = t /\ marks[a] # None}
Weighing(t) == {a \in Graded(t) : WeightOf[a] > 0 /\ TotalOf[a] > 0}

TotalWeight(t) == SumFunctionOnSet(WeightOf, Weighing(t))

\* marks / total of an assessment, in units of 1 / Unit
Share(a) == marks[a] * (Unit \div TotalOf[a])

\* The percentage of one assessment, as the breakdown shows it.
Single(a) == IF TotalOf[a] > 0 THEN Round(10000 * Share(a), Unit) ELSE 0

\* weightedSum, and sumPercentages of the fall-back.
WeightedSum(t) ==
    SumFunctionOnSet([a \in Weighing(t) |-> 10000 * Share(a) * WeightOf[a]],
                     Weighing(t))
SumPercentages(t) ==
    SumFunctionOnSet([a \in Graded(t) |-> Single(a)], Graded(t))

\* The weights that are there are normalised.
Weighted(t) == Round(WeightedSum(t), Unit * TotalWeight(t))

Unweighted(t) == Round(SumPercentages(t), Cardinality(Graded(t)))

\* Mutant of Percent: the weights are taken for percents of the final grade.
PercentOfHundred(t) == Round(WeightedSum(t), Unit * 100)

\* The term that is asked for: unweighted when nothing weighs, 0 without grades.
Percent(t) ==
    IF Graded(t) = {} THEN 0
    ELSE IF Weighing(t) # {} THEN Weighted(t) ELSE Unweighted(t)

\* Mutant of SiblingPercent: the other term is not weighted.
SiblingUnweighted(t) == IF Graded(t) = {} THEN None ELSE Unweighted(t)

\* The other term: None without grades, 0 when nothing weighs.
SiblingPercent(t) ==
    IF Graded(t) = {} THEN None
    ELSE IF Weighing(t) # {} THEN Weighted(t) ELSE 0
-----------------------------------------------------------------------------
(* The service *)

NoAnswer == [percentage |-> None, band |-> None, passed |-> FALSE,
             first |-> None, second |-> None, year |-> None, rating |-> None]

Init ==
    /\ track \in Tracks
    /\ marks = [a \in Assessments |-> None]
    /\ letter = [a \in Assessments |-> None]
    /\ pc = "idle"
    /\ asked \in Terms
    /\ local = 0
    /\ answer = NoAnswer

\* Mutant of RecordGrade: the update leaves the letter of the row alone.
RecordGradeKeepsLetter(a, m) ==
    /\ marks' = [marks EXCEPT ![a] = m]
    /\ letter' = [letter EXCEPT ![a] =
          IF @ # None THEN @
          ELSE IF TotalOf[a] > 0 THEN Band(RecordedScale, 100 * m, TotalOf[a])
               ELSE Band(RecordedScale, 0, 1)]
    /\ UNCHANGED <<track, pc, asked, local, answer>>

\* The upsert on (assessment, student) writes the marks and the letter of the
\* percentage before rounding.  Marks above the total are accepted.
RecordGrade(a, m) ==
    /\ marks' = [marks EXCEPT ![a] = m]
    /\ letter' = [letter EXCEPT ![a] =
          IF TotalOf[a] > 0 THEN Band(RecordedScale, 100 * m, TotalOf[a])
          ELSE Band(RecordedScale, 0, 1)]
    /\ UNCHANGED <<track, pc, asked, local, answer>>

\* calculateTermGrade as far as the read of the term's grades.
Ask(t) ==
    /\ pc = "idle"
    /\ asked' = t
    /\ local' = Percent(t)
    /\ pc' = IF track = "NATIONAL" THEN "sibling" ELSE "answer"
    /\ answer' = NoAnswer
    /\ UNCHANGED <<track, marks, letter>>

\* calculateAmericanGrade and calculateIGCSEGrade.
Answer ==
    /\ pc = "answer"
    /\ answer' = [NoAnswer EXCEPT !.percentage = local,
                                  !.band = Band(TermScale, local, 100)]
    /\ pc' = "idle"
    /\ UNCHANGED <<track, marks, letter, asked, local>>

\* calculateNationalGrade: reads the other semester, and totals the year when
\* both have a percentage.
AnswerNational ==
    LET sib  == SiblingPercent(Other(asked))
        year == IF sib = None THEN None ELSE Round(local + sib, 2)
    IN  /\ pc = "sibling"
        /\ answer' =
              [percentage |-> local,
               band   |-> Band(MoeScale, local, 100),
               passed |-> local >= 5000,
               first  |-> IF asked = "SEMESTER_1" THEN local ELSE sib,
               second |-> IF asked = "SEMESTER_2" THEN local ELSE sib,
               year   |-> year,
               rating |-> IF year = None THEN None ELSE Band(MoeScale, year, 100)]
        /\ pc' = "idle"
        /\ UNCHANGED <<track, marks, letter, asked, local>>

Next == \/ \E a \in Assessments : \E m \in MarksOf[a] : RecordGrade(a, m)
        \/ \E t \in Terms : Ask(t)
        \/ Answer \/ AnswerNational

Spec == Init /\ [][Next]_vars
-----------------------------------------------------------------------------
(* Properties *)

Bands == {AmericanScale[i][2] : i \in DOMAIN AmericanScale}
    \cup {IGCSEScale[i][2] : i \in DOMAIN IGCSEScale}
    \cup {MoeScale[i][2] : i \in DOMAIN MoeScale}

\* Rows, locals and answers keep their types.
TypeOK ==
    /\ track \in Tracks
    /\ marks \in [Assessments -> Nat \cup {None}]
    /\ letter \in [Assessments -> Bands \cup {None}]
    /\ pc \in {"idle", "sibling", "answer"}
    /\ asked \in Terms /\ local \in Nat
    /\ answer \in [percentage: Nat \cup {None}, band: Bands \cup {None},
                   passed: BOOLEAN, first: Nat \cup {None},
                   second: Nat \cup {None}, year: Nat \cup {None},
                   rating: Bands \cup {None}]

\* A term's percentage is a mean: it lies between the worst and the best of its
\* assessments, whatever weights are missing or add up to.
MeanIsBetween ==
    \A t \in Terms : Graded(t) # {} =>
        \E worst, best \in Graded(t) :
            Single(worst) <= Percent(t) /\ Percent(t) <= Single(best)

\* The letter stored with the marks is the letter the term gets when it is its
\* only assessment; only rounding up to a rung's edge makes the term better.
StoredLetterIsTermLetter ==
    \A t \in Terms : \A a \in Graded(t) :
        LET p == Single(a)
        IN  Graded(t) = {a} =>
              \/ letter[a] = Band(TermScale, p, 100)
              \/ \E i \in DOMAIN TermScale :
                    /\ p = 100 * TermScale[i][1]
                    /\ 10000 * marks[a] < p * TotalOf[a]
                    /\ i < Len(TermScale) /\ letter[a] = TermScale[i + 1][2]

\* The year total does not depend on the semester a report was asked for, once
\* both have an assessment that weighs.
YearAgrees ==
    (\A t \in Terms : Weighing(t) # {}) =>
        \A t \in Terms : Percent(t) = SiblingPercent(t)

\* A National answer is coherent: passed means a rating above Below Standard,
\* and the year lies between its two terms and is rated on the same scale.
NationalIsCoherent ==
    /\ track = "NATIONAL" /\ answer.percentage # None =>
         (answer.passed <=> answer.band # "Below Standard")
    /\ answer.year # None =>
         /\ \/ answer.first <= answer.year /\ answer.year <= answer.second
            \/ answer.second <= answer.year /\ answer.year <= answer.first
         /\ (answer.first = answer.second => answer.rating = answer.band)
=============================================================================
