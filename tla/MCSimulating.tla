---- MODULE MCSimulating ----
(* Two bins of three particles; serial and two threads; with and without --seed; *)
(* one run with an angle outside the axis and one with a missing table file.           *)
(* Particles leave below, at, between and above the points of the axes, and on bounds; *)
(* every particle may leave outside.                                                   *)
EXTENDS Modulation

Args(n, fix, axis, file) == [th_num |-> n, fix_seed |-> fix, in_axis |-> axis, file_ok |-> file]

MCConfigs ==
  {Args(1, TRUE, TRUE, TRUE), Args(1, FALSE, TRUE, TRUE),
   Args(2, TRUE, TRUE, TRUE), Args(2, FALSE, TRUE, TRUE),
   Args(2, TRUE, FALSE, TRUE), Args(2, TRUE, TRUE, FALSE)}

MCDraws == {7, 8}

MCExit(ek, seed) == IF seed = 7 THEN 40 ELSE 1 + ((ek + seed) % 8)
MCGrids  == {<<2, 4>>, <<2, 4, 6>>, <<1, 4, 6>>}
MCFluxes == {<<5, 1>>, <<1, 3, 2>>, <<0, 0, 7>>}
====
