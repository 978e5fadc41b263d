----------------------------- MODULE MCBoarding -----------------------------
(***************************************************************************)
(* Two children on one bus over two days: two taps of ali's card and one   *)
(* of mai's, and an absence of ali that is reported twice.  Redis takes the *)
(* first report and refuses the second, which may overlap or come first.   *)
(***************************************************************************)
EXTENDS Boarding

CONSTANTS ali, mai, t1, t2, t3, a1, a2

MCTapOf == [t \in Taps |-> [student |-> IF t = t3 THEN mai ELSE ali,
                            status |-> AutoDetect, allowed |-> TRUE]]

MCAbsenceOf == [a \in Absences |-> [student |-> ali, date |-> 0, allowed |-> TRUE,
                                    heard |-> a # a2]]

\* The two taps of ali are alike.
Alike == Permutations({t1, t2})
=============================================================================
