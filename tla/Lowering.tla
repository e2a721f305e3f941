------------------------------- MODULE Lowering -------------------------------
(***************************************************************************)
(* What the construction of the table takes a correction to be (see        *)
(* Corrections and Affected in KDInterp): at once, it brings some points   *)
(* closer to the sheet that are linked to the new point by each other, and *)
(* returns exactly these, whose blocks are then refreshed.                 *)
(***************************************************************************)
EXTENDS Integers

CONSTANTS Points, New, Linked(_, _)

VARIABLES val,       \* the values of the points
          fresh,     \* the points returned
          over       \* the correction is over

Size(n) == IF n < 0 THEN -n ELSE n

(* Every part of F is linked to the rest of F or to the new point. *)
Connected(F) ==
  \A S \in (SUBSET F) \ {{}} : \E q \in S, r \in (F \cup {New}) \ S : Linked(q, r)

Init == val \in [Points -> Int] /\ fresh = {} /\ over = FALSE

Lower ==
  /\ ~over /\ over' = TRUE
  /\ fresh' \subseteq Points /\ Connected(fresh' \ {New})
  /\ \A p \in Points :
       IF p \in fresh' THEN Size(val'[p]) < Size(val[p]) /\ val[p] * val'[p] >= 0
       ELSE val'[p] = val[p]

Spec == Init /\ [][Lower]_<<val, fresh, over>>
=============================================================================
