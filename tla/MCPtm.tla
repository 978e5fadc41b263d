------------------------------- MODULE MCPtm -------------------------------
(***************************************************************************)
(* Three requests race for one slot, one of them the retry of another.     *)
(* The other two may not book: the teacher does not teach the child, the   *)
(* cycle is closed.                                                        *)
(***************************************************************************)
EXTENDS Ptm

CONSTANTS early, late, spring, autumn, tarek, room, hall,
          mona, omar, zein, laila, r1, r2, r3, r4, r5

MCCycleOf   == [s \in Slots |-> IF s = late THEN autumn ELSE spring]
MCTeacherOf == [s \in Slots |-> tarek]

MCLinks   == {<<mona, zein>>, <<omar, zein>>, <<omar, laila>>}
MCClassOf == [s \in Students |-> IF s = zein THEN room ELSE hall]
MCTeaches == {<<tarek, room>>}

Ask(p, s, slot) == [parent |-> p, student |-> s, slot |-> slot]

MCRequestOf == [r \in Requests |->
    CASE r \in {r1, r2} -> Ask(mona, zein, early)
      [] r = r3         -> Ask(omar, zein, early)
      [] r = r4         -> Ask(omar, laila, early)
      [] OTHER          -> Ask(mona, zein, late)]
=============================================================================
