----------------------------- MODULE ParticleStep -----------------------------
(***************************************************************************)
(* particle::step: the walk of one particle through the heliosphere, from  *)
(* its start to the boundary (particle.cc).                                *)
(*                                                                         *)
(* Lengths and angles are integers: HalfAU is 0.5 AU, Pi is pi, Eps the    *)
(* distance kept from the poles (1e-3).  The increments of one step, which *)
(* the code computes from the fields and random numbers, are any of the    *)
(* sets Dr, Dtheta and Dphi.  Energies and the log are left out.  The      *)
(* outward mode is left out as well: force_outward starts FALSE and the    *)
(* only assignment of TRUE is under if (false).                            *)
(***************************************************************************)
EXTENDS Integers

CONSTANTS HalfAU, Pi, Eps,
          Start,              \* r when step() is called
          Boundary,
          Dr, Dtheta, Dphi,   \* the increments considered
          MaxSteps            \* the values of max_step considered

ASSUME ConstantsAssumption ==
  /\ HalfAU \in Nat \ {0} /\ Pi \in Nat /\ Eps \in Nat \ {0} /\ 2 * Eps <= Pi
  /\ Boundary \in Nat /\ Start \in Nat /\ Start >= HalfAU
  /\ Dr \subseteq Int /\ Dtheta \subseteq Int /\ Dphi \subseteq Int
  /\ MaxSteps \subseteq Int

VARIABLES r, theta, phi, rmax,
          max_step, iter,
          steps,      \* history: bodies of the loop executed under a limit
          running     \* is step() in its loop

vars == <<r, theta, phi, rmax, max_step, iter, steps, running>>

Abs(n) == IF n < 0 THEN -n ELSE n
Least(a, b) == IF a <= b THEN a ELSE b
Most(a, b)  == IF a >= b THEN a ELSE b

Init ==
  /\ r = Start /\ rmax = Start
  /\ theta \in Eps .. Pi - Eps /\ phi \in 0 .. 2 * Pi
  /\ max_step \in MaxSteps /\ iter = 0 /\ steps = 0
  /\ running = TRUE

(* iter++ > max_step: the value before the increment is compared. *)
MutLimited == max_step < 0     \* the sign of the test reversed
Limited == max_step > 0
MutLimitHit == Limited /\ iter > max_step + 1     \* one more
LimitHit == Limited /\ iter > max_step

MutReflect(x) == IF x < HalfAU THEN HalfAU - x ELSE x     \* 0.5 AU - r
Reflect(x) == IF x < HalfAU THEN 2 * HalfAU - x ELSE x

(* theta - floor(theta / (2 pi) + 0.5) * 2 pi, beyond [-pi, pi] only *)
Unwind(t) == IF t < -Pi \/ Pi < t THEN ((t + Pi) % (2 * Pi)) - Pi ELSE t

Pole(t) == Least(Most(t, Eps), Pi - Eps)

(* A negative theta is the same direction on the other side of the axis. *)
MutTurned(t, p) == p     \* phi += pi forgotten
Turned(t, p) == IF Unwind(t) < 0 THEN p + Pi ELSE p

Around(p) == IF p < 0 \/ 2 * Pi < p THEN p % (2 * Pi) ELSE p

Step ==
  /\ running /\ r < Boundary /\ ~LimitHit
  /\ iter' = IF Limited THEN iter + 1 ELSE iter
  /\ steps' = IF Limited THEN steps + 1 ELSE steps
  /\ rmax' = Most(r, rmax)
  /\ \E dr \in Dr : r' = Reflect(r + dr)
  /\ \E dtheta \in Dtheta, dphi \in Dphi :
       /\ theta' = Pole(Abs(Unwind(theta + dtheta)))
       /\ phi' = Around(Turned(theta + dtheta, phi + dphi))
  /\ UNCHANGED <<max_step, running>>

Outside ==
  /\ running /\ r >= Boundary
  /\ running' = FALSE
  /\ UNCHANGED <<r, theta, phi, rmax, max_step, iter, steps>>

MutBreak ==     \* the test max_step > 0 dropped
  /\ running /\ iter > max_step
  /\ running' = FALSE
  /\ UNCHANGED <<r, theta, phi, rmax, max_step, iter, steps>>

Break ==
  /\ running /\ r < Boundary /\ LimitHit
  /\ iter' = iter + 1
  /\ running' = FALSE
  /\ UNCHANGED <<r, theta, phi, rmax, max_step, steps>>

Returned == ~running /\ UNCHANGED vars

Next == Step \/ Outside \/ Break \/ Returned

Spec == Init /\ [][Next]_vars

(* A loop without waiting. *)
FairSpec == Spec /\ WF_vars(Next)
-----------------------------------------------------------------------------
(* Every step starts where the coefficients are defined: off the axis, where *)
(* sin(theta) and tan(theta) are divided by, and away from r = 0.  Wind()    *)
(* leaves its value uninitialised for any theta outside [0, pi].             *)
InDomain ==
  /\ r \in Nat /\ r >= HalfAU
  /\ theta \in Eps .. Pi - Eps
  /\ phi \in 0 .. 2 * Pi

TypeOK ==
  /\ InDomain
  /\ rmax \in Nat /\ max_step \in MaxSteps /\ iter \in Nat /\ steps \in Nat
  /\ running \in BOOLEAN

(* The branches that bring the angles back into range never change the       *)
(* direction: it is the one reached by the increments, but for the distance  *)
(* kept from a pole.                                                         *)
SameDirection(t1, p1, t2, p2) ==
  \/ Abs(t1 - t2) % (2 * Pi) = 0 /\ (p1 - p2) % (2 * Pi) = 0
  \/ (t1 + t2) % (2 * Pi) = 0 /\ (p1 - p2 - Pi) % (2 * Pi) = 0

DirectionKept ==
  [][iter' # iter \/ r' # r \/ theta' # theta \/ phi' # phi =>
       \E dtheta \in Dtheta \cup {0}, dphi \in Dphi \cup {0}, t \in 0 .. Pi :
         /\ SameDirection(theta + dtheta, phi + dphi, t, phi')
         /\ Abs(t - theta') <= Eps /\ (t # theta' => theta' \in {Eps, Pi - Eps})]_vars

(* step() returns for one of its two reasons: the particle is outside, or a  *)
(* limit was given and more steps than it were made.                         *)
ReasonToReturn == ~running => r >= Boundary \/ (max_step > 0 /\ steps > max_step)

(* A limit bounds the work: no more than max_step + 1 steps are ever made,   *)
(* and step() returns although the particle may walk inside for ever.        *)
LimitedWork == max_step > 0 => steps <= max_step + 1

LimitEnds == (max_step > 0) ~> ~running

(* "The maximum allowed steps" of ParticleTest's --max-step.                 *)
AllowedSteps == max_step > 0 => steps <= max_step
=============================================================================
