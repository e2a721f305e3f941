---- MODULE MCParticleStep ----
(* Increments that cross the reflecting sphere, both poles and the origin of *)
(* phi, more than once around; no limit, and limits of one and two steps.    *)
EXTENDS ParticleStep

MCDr == {-9, -1, 4}
MCDtheta == {-17, -2, 3, 9}
MCDphi == {-13, 4}
MCMaxSteps == {-1, 0, 1, 2}
====
