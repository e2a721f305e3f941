---- MODULE MCCorrection ----
(* Five points: 4, 0, 1 along the first axis, and a square of 0, 1, 3, 2     *)
(* through both axes; 0 is new, and 1 is on the other side of the sheet.     *)
(* There are three feet, ever closer by more than points are apart, but for  *)
(* 2 and 3, to which they are nearly as close.                               *)
EXTENDS Correction, TLC

Nexts == <<4, 0, 1>> :> 0 @@ <<0, 0, 1>> :> 1 @@ <<2, 0, 1>> :> 3     \* upwards
         @@ <<0, 1, 1>> :> 2 @@ <<1, 1, 1>> :> 3
Prevs == <<0, 0, 0>> :> 4 @@ <<1, 0, 0>> :> 0 @@ <<3, 0, 0>> :> 2     \* downwards
         @@ <<2, 1, 0>> :> 0 @@ <<3, 1, 0>> :> 1
MCNb  == Nexts @@ Prevs @@ [t \in Points \X {0, 1} \X {0, 1} |-> NoPoint]

Steep == <<7, 4, 1>>
Flat  == <<5, 4, 4>>
MCDists == {[t \in Points \X Feet |-> IF t[1] \in {2, 3} THEN Flat[t[2]] ELSE Steep[t[2]]]}
MCSides == {[p \in Points |-> IF p = 1 THEN -1 ELSE 1]}
MCApart(p, q) == IF p = q THEN 0 ELSE 2
====
