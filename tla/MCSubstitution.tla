--------------------------- MODULE MCSubstitution ---------------------------
(***************************************************************************)
(* Two absent teachers with classes in the same two periods, two           *)
(* substitutes: sameh is qualified by subject, hany by specialisation and  *)
(* teaches in the second period himself, so one class there finds nobody.  *)
(* The absence of tarek can be reported twice.                             *)
(***************************************************************************)
EXTENDS Substitution

CONSTANTS tarek, nadia, sameh, hany, h1, h2, h3, math, american,
          m1, m2, n1, n2, own

Class(t, p) == [teacher |-> t, period |-> p, dept |-> american, subject |-> math]

MCSlotOf == [x \in Slots |-> CASE x = m1 -> Class(tarek, 1)
                               [] x = m2 -> Class(tarek, 2)
                               [] x = n1 -> Class(nadia, 1)
                               [] x = n2 -> Class(nadia, 2)
                               [] OTHER  -> Class(hany, 2)]

MCRoleDepts     == [t \in Teachers |-> IF t = sameh THEN {AnyDept} ELSE {}]
MCTeachesIn     == [t \in Teachers |-> IF t = sameh THEN {} ELSE {american}]
MCQualifiedFor  == [t \in Teachers |-> IF t = sameh THEN {math} ELSE {}]
MCSpecialisedIn == [t \in Teachers |-> IF t = hany THEN {math} ELSE {}]

MCAbsentOf == [h \in Reports |-> IF h = h2 THEN nadia ELSE tarek]
=============================================================================
