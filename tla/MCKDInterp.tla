---- MODULE MCKDInterp ----
(* One axis, three values: the tree grows to level 2, nine points, of which  *)
(* the outermost two start at the largest value and those of the last        *)
(* halving at an extreme one.                                                *)
EXTENDS KDInterp

MCTol2 == [ix \in 0 .. 0 |-> 1]
MCLevelDepths == [ix \in 0 .. 0 |-> 0]
MCFuncVals(p) ==
  IF p[0] \in {-Unit, Unit} THEN {V} ELSE IF p[0] % 2 = 0 THEN 0 .. V ELSE {0, V}
====
