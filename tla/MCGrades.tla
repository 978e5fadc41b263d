------------------------------ MODULE MCGrades ------------------------------
(***************************************************************************)
(* A first semester with a quiz out of 3, an exam out of 300 and a piece   *)
(* of practice that does not weigh; a second semester with one exam.  The  *)
(* marks lie on, and a hundredth below, the edges of rungs.                *)
(***************************************************************************)
EXTENDS Grades

CONSTANTS quiz, exam, practice, final

MCTermOf == [a \in Assessments |->
                IF a = final THEN "SEMESTER_2" ELSE "SEMESTER_1"]
MCTotalOf == [a \in Assessments |-> IF a = quiz THEN 300
                                    ELSE IF a = practice THEN 1000 ELSE 30000]
MCWeightOf == [a \in Assessments |-> IF a = practice THEN 0
                                     ELSE IF a = quiz THEN 1 ELSE 2]
MCMarksOf == [a \in Assessments |->
                 IF a = quiz THEN {0, 200}
                 ELSE IF a = practice THEN {500, 1100}
                 ELSE IF a = exam THEN {14999, 27899, 30000}
                 ELSE {14998, 15000, 27000}]
=============================================================================
