---- MODULE MCKDPlane ----
(* Two axes, two values, tolerances that stop at one halving per axis (25    *)
(* points): the function is 0 but at six points, where it may be 0 or 1,   *)
(* so that either axis, the corners or nothing asks for the next split.      *)
EXTENDS KDLines

MCTol2 == [ix \in 0 .. 1 |-> 1]
MCLevelDepths == [ix \in 0 .. 1 |-> 1 - ix]
At(a, b) == [ix \in 0 .. 1 |-> IF ix = 0 THEN a ELSE b]
MCBumps == {At(0, 0), At(0, Unit), At(Unit, Unit), At(Unit \div 2, 0), At(Unit \div 2, Unit),
            At(Unit \div 2, Unit \div 2)}
MCFuncVals(p) == IF p \in MCBumps THEN 0 .. V ELSE {0}
====
