-------------------------- MODULE ParticleStepProofs --------------------------
(***************************************************************************)
(* What holds of the walk of a particle for every size of the inner        *)
(* sphere, every distance kept from the poles and every set of increments. *)
(***************************************************************************)
EXTENDS ParticleStep, TLAPS

(* The angle arithmetic takes remainders modulo 2 * Pi, and Pi is positive.  *)
LEMMA PiPositive == Pi \in Nat /\ Pi > 0 /\ 2 * Pi \in Nat /\ 2 * Pi > 0
BY ConstantsAssumption

(* A remainder is between zero and the divisor.                              *)
LEMMA RemainderRange ==
  ASSUME NEW n \in Int
  PROVE  n % (2 * Pi) \in Int /\ 0 <= n % (2 * Pi) /\ n % (2 * Pi) < 2 * Pi
<1> DEFINE m == 2 * Pi
<1>1. m \in Int /\ m > 0
  BY PiPositive
<1> HIDE DEF m
<1>2. n % m \in Int /\ 0 <= n % m /\ n % m < m
  BY <1>1
<1> QED
  BY <1>2 DEF m

(* Unwinding brings any angle into [-Pi, Pi].                                *)
LEMMA UnwindRange ==
  ASSUME NEW t \in Int
  PROVE  Unwind(t) \in -Pi .. Pi
<1>1. t + Pi \in Int
  BY PiPositive
<1>2. CASE t < -Pi \/ Pi < t
  <2> DEFINE q == (t + Pi) % (2 * Pi)
  <2>1. q \in Int /\ 0 <= q /\ q < 2 * Pi
    BY <1>1, RemainderRange
  <2>2. Unwind(t) = q - Pi
    BY <1>2 DEF Unwind
  <2> HIDE DEF q
  <2> QED
    BY <2>1, <2>2, PiPositive
<1>3. CASE ~(t < -Pi \/ Pi < t)
  BY <1>3, PiPositive DEF Unwind
<1> QED
  BY <1>2, <1>3

(* theta_reflecting leaves theta off the axis.                               *)
LEMMA ThetaRange ==
  ASSUME NEW t \in Int
  PROVE  Pole(Abs(Unwind(t))) \in Eps .. Pi - Eps
<1> DEFINE u == Unwind(t)
<1>1. u \in -Pi .. Pi
  BY UnwindRange
<1> HIDE DEF u
<1>2. Abs(u) \in 0 .. Pi
  BY <1>1, PiPositive DEF Abs
<1>3. Pole(Abs(u)) \in Eps .. Pi - Eps
  BY <1>2, ConstantsAssumption DEF Pole, Least, Most
<1> QED
  BY <1>3 DEF u

(* phi is brought back into [0, 2 Pi].                                       *)
LEMMA PhiRange ==
  ASSUME NEW t \in Int, NEW p \in Int
  PROVE  Around(Turned(t, p)) \in 0 .. 2 * Pi
<1> DEFINE q == Turned(t, p)
<1>1. q \in Int
  BY UnwindRange, PiPositive DEF Turned
<1> HIDE DEF q
<1>2. CASE q < 0 \/ 2 * Pi < q
  <2> DEFINE d == q % (2 * Pi)
  <2>1. d \in Int /\ 0 <= d /\ d < 2 * Pi
    BY <1>1, RemainderRange
  <2>2. Around(q) = d
    BY <1>2 DEF Around
  <2> HIDE DEF d
  <2>3. Around(q) \in 0 .. 2 * Pi
    BY <2>1, <2>2, PiPositive
  <2> QED
    BY <2>3 DEF q
<1>3. CASE ~(q < 0 \/ 2 * Pi < q)
  <2>1. Around(q) \in 0 .. 2 * Pi
    BY <1>1, <1>3, PiPositive DEF Around
  <2> QED
    BY <2>1 DEF q
<1> QED
  BY <1>2, <1>3

(* r_reflecting keeps the particle outside the inner sphere, on either side  *)
(* of the reflection.                                                        *)
LEMMA RadiusRange ==
  ASSUME NEW x \in Int
  PROVE  Reflect(x) \in Nat /\ Reflect(x) >= HalfAU
BY ConstantsAssumption DEF Reflect
-----------------------------------------------------------------------------
(* Under a limit the counter and the steps made are one number while step()  *)
(* is in its loop.                                                           *)
Counted == running /\ max_step > 0 => iter = steps

WalkInv == TypeOK /\ Counted /\ LimitedWork /\ ReasonToReturn

(* A particle starts on or outside the inner sphere and off the axis.        *)
LEMMA InitWalk == Init => WalkInv
BY ConstantsAssumption DEF Init, WalkInv, TypeOK, InDomain, Counted, LimitedWork, ReasonToReturn

(* One body of the loop.                                                     *)
LEMMA StepWalk == WalkInv /\ Step => WalkInv'
<1> SUFFICES ASSUME WalkInv, Step
             PROVE  WalkInv'
  OBVIOUS
<1>1. PICK dr \in Dr : r' = Reflect(r + dr)
  BY DEF Step
<1>2. PICK dtheta \in Dtheta, dphi \in Dphi :
        /\ theta' = Pole(Abs(Unwind(theta + dtheta)))
        /\ phi' = Around(Turned(theta + dtheta, phi + dphi))
  BY DEF Step
<1>3. /\ r \in Nat /\ theta \in Int /\ phi \in Int /\ rmax \in Nat
      /\ max_step \in MaxSteps /\ max_step \in Int /\ iter \in Nat /\ steps \in Nat
  BY ConstantsAssumption DEF WalkInv, TypeOK, InDomain
<1>4. r' \in Nat /\ r' >= HalfAU
  <2>1. r + dr \in Int
    BY <1>3, ConstantsAssumption
  <2> QED
    BY <1>1, <2>1, RadiusRange
<1>5. theta' \in Eps .. Pi - Eps /\ phi' \in 0 .. 2 * Pi
  <2>1. theta + dtheta \in Int /\ phi + dphi \in Int
    BY <1>3, ConstantsAssumption
  <2> QED
    BY <1>2, <2>1, ThetaRange, PhiRange
<1>6. rmax' \in Nat
  BY <1>3 DEF Step, Most
<1>7. /\ max_step' = max_step /\ running /\ running'
      /\ iter' = (IF Limited THEN iter + 1 ELSE iter)
      /\ steps' = (IF Limited THEN steps + 1 ELSE steps)
      /\ Limited => iter <= max_step
  BY <1>3 DEF Step, LimitHit
<1>8. TypeOK'
  BY <1>3, <1>4, <1>5, <1>6, <1>7 DEF TypeOK, InDomain, WalkInv
<1>9. Counted' /\ LimitedWork' /\ ReasonToReturn'
  BY <1>3, <1>7 DEF WalkInv, Counted, LimitedWork, ReasonToReturn, Limited
<1> QED
  BY <1>8, <1>9 DEF WalkInv

(* The two ways out of the loop.                                             *)
LEMMA ReturnWalk == WalkInv /\ (Outside \/ Break) => WalkInv'
<1> SUFFICES ASSUME WalkInv, Outside \/ Break
             PROVE  WalkInv'
  OBVIOUS
<1>1. max_step \in Int /\ iter \in Nat /\ steps \in Nat
  BY ConstantsAssumption DEF WalkInv, TypeOK
<1>2. CASE Outside
  BY <1>1, <1>2 DEF Outside, WalkInv, TypeOK, InDomain, Counted, LimitedWork, ReasonToReturn
<1>3. CASE Break
  <2>1. /\ running /\ running' = FALSE /\ max_step > 0 /\ iter > max_step
        /\ iter' = iter + 1 /\ UNCHANGED <<r, theta, phi, rmax, max_step, steps>>
    BY <1>3 DEF Break, LimitHit, Limited
  <2>2. steps > max_step /\ steps <= max_step + 1
    BY <1>1, <2>1 DEF WalkInv, Counted, LimitedWork
  <2>3. TypeOK'
    <3>1. InDomain'
      BY <2>1 DEF WalkInv, TypeOK, InDomain
    <3>2. running' \in BOOLEAN
      BY <2>1
    <3>3. /\ rmax' \in Nat /\ max_step' \in MaxSteps
          /\ iter' \in Nat /\ steps' \in Nat
      BY <1>1, <2>1 DEF WalkInv, TypeOK
    <3> QED
      BY <3>1, <3>2, <3>3 DEF TypeOK
  <2> QED
    BY <2>1, <2>2, <2>3 DEF WalkInv, Counted, LimitedWork, ReasonToReturn
<1> QED
  BY <1>2, <1>3

(* The invariant of particle::step holds throughout the walk.                *)
THEOREM WalkInvariance == Spec => []WalkInv
<1>1. ASSUME WalkInv, [Next]_vars
      PROVE  WalkInv'
  <2>1. CASE Step
    BY <1>1, <2>1, StepWalk
  <2>2. CASE Outside \/ Break
    BY <1>1, <2>2, ReturnWalk
  <2>3. CASE Returned \/ UNCHANGED vars
    BY <1>1, <2>3 DEF Returned, vars, WalkInv, TypeOK, InDomain, Counted, LimitedWork,
                      ReasonToReturn
  <2> QED
    BY <1>1, <2>1, <2>2, <2>3 DEF Next
<1> QED
  BY <1>1, InitWalk, PTL DEF Spec

(* Every step starts where the coefficients are defined, whatever the        *)
(* increments of the steps before it.                                        *)
THEOREM WalkInDomain == Spec => []TypeOK
<1>1. WalkInv => TypeOK
  BY DEF WalkInv
<1> QED
  BY <1>1, WalkInvariance, PTL

(* Under a limit at most max_step + 1 steps are made.                        *)
THEOREM WorkIsLimited == Spec => []LimitedWork
<1>1. WalkInv => LimitedWork
  BY DEF WalkInv
<1> QED
  BY <1>1, WalkInvariance, PTL

(* step() returns only outside the boundary or beyond its limit.             *)
THEOREM ReturnsForAReason == Spec => []ReasonToReturn
<1>1. WalkInv => ReasonToReturn
  BY DEF WalkInv
<1> QED
  BY <1>1, WalkInvariance, PTL
-----------------------------------------------------------------------------
(* Whole turns: what is left of them is zero, and whatever is not left is    *)
(* whole turns.                                                              *)
LEMMA WholeTurns ==
  ASSUME NEW k \in Int
  PROVE  (k * (2 * Pi)) % (2 * Pi) = 0
<1>1. PICK m, n : m = 2 * Pi /\ n = k * m OBVIOUS
<1>2. m \in Nat /\ m > 0 /\ n \in Int BY <1>1, PiPositive
<1>3. PICK q, s : q = n \div m /\ s = n % m OBVIOUS
<1>4. q \in Int /\ s \in Int /\ n = m * q + s /\ 0 <= s /\ s < m BY <1>2, <1>3
<1>5. PICK j : j = k - q OBVIOUS
<1>6. j \in Int /\ s = j * m
  <2>1. \A a, b, c \in Int : (a - b) * c = a * c - c * b OBVIOUS
  <2>2. j * m = k * m - m * q BY <2>1, <1>2, <1>4, <1>5
  <2>3. s = n - m * q
    <3>1. PICK u : u = m * q OBVIOUS
    <3>2. u \in Int BY <3>1, <1>2, <1>4
    <3> QED BY <3>1, <3>2, <1>2, <1>4
  <2> QED BY <2>2, <2>3, <1>1, <1>4, <1>5
<1>7. CASE j >= 1
  <2>1. j * m >= m BY <1>2, <1>6, <1>7
  <2> QED BY <2>1, <1>2, <1>4, <1>6
<1>8. CASE j <= -1
  <2>1. j * m <= -m BY <1>2, <1>6, <1>8
  <2> QED BY <2>1, <1>2, <1>4, <1>6
<1>9. CASE j = 0 BY <1>1, <1>2, <1>3, <1>6, <1>9
<1> QED BY <1>6, <1>7, <1>8, <1>9

LEMMA Turns ==
  ASSUME NEW n \in Int, NEW s, s = n % (2 * Pi)
  PROVE  \E k \in Int : n - s = k * (2 * Pi)
<1>1. PICK m : m = 2 * Pi OBVIOUS
<1>2. m \in Nat /\ m > 0 BY <1>1, PiPositive
<1>3. PICK q, v : q = n \div m /\ v = n % m OBVIOUS
<1>4. q \in Int /\ v \in Int /\ n = m * q + v BY <1>2, <1>3
<1>5. v = s BY <1>1, <1>3
<1>6. n - s = q * m
  <2>1. PICK u : u = m * q OBVIOUS
  <2>2. u \in Int /\ u = q * m BY <2>1, <1>2, <1>4
  <2> QED BY <2>1, <2>2, <1>2, <1>4, <1>5
<1> QED BY <1>1, <1>4, <1>6

(* theta_reflecting takes whole turns off theta; so does the return of phi.  *)
LEMMA UnwindTurns ==
  ASSUME NEW t \in Int, NEW u, u = Unwind(t)
  PROVE  u \in -Pi .. Pi /\ \E k \in Int : t - u = k * (2 * Pi)
<1>1. PICK m : m = 2 * Pi OBVIOUS
<1>2. m \in Nat /\ m > 0 /\ Pi \in Nat BY <1>1, PiPositive
<1>3. u \in -Pi .. Pi BY UnwindRange
<1>4. CASE t < -Pi \/ Pi < t
  <2>1. PICK n, s : n = t + Pi /\ s = n % (2 * Pi) OBVIOUS
  <2>2. u = s - Pi BY <1>4, <2>1 DEF Unwind
  <2>3. n \in Int BY <1>2, <2>1
  <2>4. PICK k \in Int : n - s = k * (2 * Pi) BY <2>1, <2>3, Turns
  <2>5. t - u = n - s
    <3>1. s \in Int BY <2>1, <2>3, RemainderRange
    <3> QED BY <3>1, <1>2, <2>1, <2>2
  <2> QED BY <1>3, <2>4, <2>5
<1>5. CASE ~(t < -Pi \/ Pi < t)
  <2>1. u = t BY <1>5 DEF Unwind
  <2>2. t - u = 0 * (2 * Pi) BY <2>1, PiPositive
  <2> QED BY <1>3, <2>2
<1> QED BY <1>4, <1>5

LEMMA AroundTurns ==
  ASSUME NEW p \in Int, NEW a, a = Around(p)
  PROVE  a \in Int /\ \E k \in Int : p - a = k * (2 * Pi)
<1>1. CASE p < 0 \/ 2 * Pi < p
  <2>1. a = p % (2 * Pi) BY <1>1 DEF Around
  <2>2. a \in Int BY <2>1, RemainderRange
  <2> QED BY <2>1, <2>2, Turns
<1>2. CASE ~(p < 0 \/ 2 * Pi < p)
  <2>1. a = p BY <1>2 DEF Around
  <2>2. p - a = 0 * (2 * Pi) BY <2>1, PiPositive
  <2> QED BY <2>1, <2>2
<1> QED BY <1>1, <1>2

LEMMA NearPole ==
  ASSUME NEW t \in 0 .. Pi
  PROVE  Abs(t - Pole(t)) <= Eps /\ (t # Pole(t) => Pole(t) \in {Eps, Pi - Eps})
BY ConstantsAssumption DEF Pole, Least, Most, Abs

(* What one step makes of the angles the increments lead to is the same      *)
(* direction.                                                                *)
LEMMA StepDirection ==
  ASSUME NEW t \in Int, NEW p \in Int, NEW u, u = Unwind(t), NEW a, a = Around(Turned(t, p))
  PROVE  Abs(u) \in 0 .. Pi /\ SameDirection(t, p, Abs(u), a)
<1>1. PICK m : m = 2 * Pi OBVIOUS
<1>2. m \in Nat /\ m > 0 /\ Pi \in Nat BY <1>1, PiPositive
<1>3. PICK k \in Int : t - u = k * m BY <1>1, UnwindTurns
<1>4. u \in -Pi .. Pi BY UnwindTurns
<1>5. PICK q : q = Turned(t, p) OBVIOUS
<1>6. q = IF u < 0 THEN p + Pi ELSE p BY <1>5 DEF Turned
<1>7. q \in Int BY <1>2, <1>6
<1>8. PICK j \in Int : q - a = j * m BY <1>1, <1>5, <1>7, AroundTurns
<1>9. a \in Int BY <1>5, <1>7, AroundTurns
<1>10. Abs(u) \in 0 .. Pi BY <1>2, <1>4 DEF Abs
<1>11. \A i \in Int : (i * m) % m = 0 BY <1>1, WholeTurns
<1>12. CASE u < 0
  <2>1. Abs(u) = -u BY <1>12 DEF Abs
  <2>2. t + Abs(u) = k * m BY <2>1, <1>3, <1>4
  <2>3. p - a - Pi = (j - 1) * m
    <3>1. \A i \in Int : (i - 1) * m = i * m - m BY <1>2
    <3>2. PICK n : n = j * m OBVIOUS
    <3>3. n \in Int /\ q - a = n /\ (j - 1) * m = n - m BY <3>1, <3>2, <1>2, <1>8
    <3>4. q = p + Pi BY <1>6, <1>12
    <3> QED BY <3>3, <3>4, <1>1, <1>2, <1>9
  <2>4. j - 1 \in Int OBVIOUS
  <2>5. (t + Abs(u)) % m = 0 /\ (p - a - Pi) % m = 0 BY <2>2, <2>3, <2>4, <1>11
  <2> QED BY <2>5, <1>1, <1>10 DEF SameDirection
<1>13. CASE ~(u < 0)
  <2>1. Abs(u) = u BY <1>13 DEF Abs
  <2>2. t - Abs(u) = k * m BY <2>1, <1>3
  <2>3. PICK d : d = t - Abs(u) OBVIOUS
  <2>4. d \in Int /\ d = k * m BY <2>2, <2>3, <1>10
  <2>5. Abs(d) = k * m \/ Abs(d) = (-k) * m
    <3>1. \A i \in Int : (-i) * m = -(i * m) BY <1>2
    <3> QED BY <3>1, <2>4 DEF Abs
  <2>6. Abs(d) % m = 0
    <3>1. -k \in Int OBVIOUS
    <3> QED BY <3>1, <2>5, <1>11
  <2>7. p - a = j * m BY <1>6, <1>8, <1>13
  <2>8. (p - a) % m = 0 BY <2>7, <1>11
  <2> QED BY <2>3, <2>6, <2>8, <1>1, <1>10 DEF SameDirection
<1> QED BY <1>12, <1>13, <1>4, <1>2

(* The branches of step() that bring the angles back into range leave the    *)
(* direction the increments lead to, whatever they are, but for the distance *)
(* kept from a pole.                                                         *)
THEOREM KeepsDirection == Spec => DirectionKept
<1>1. WalkInv /\ [Next]_vars =>
        [iter' # iter \/ r' # r \/ theta' # theta \/ phi' # phi =>
           \E dtheta \in Dtheta \cup {0}, dphi \in Dphi \cup {0}, t \in 0 .. Pi :
             /\ SameDirection(theta + dtheta, phi + dphi, t, phi')
             /\ Abs(t - theta') <= Eps /\ (t # theta' => theta' \in {Eps, Pi - Eps})]_vars
  <2> SUFFICES ASSUME WalkInv, [Next]_vars,
                      iter' # iter \/ r' # r \/ theta' # theta \/ phi' # phi
               PROVE  \E dtheta \in Dtheta \cup {0}, dphi \in Dphi \cup {0}, t \in 0 .. Pi :
                        /\ SameDirection(theta + dtheta, phi + dphi, t, phi')
                        /\ Abs(t - theta') <= Eps /\ (t # theta' => theta' \in {Eps, Pi - Eps})
    OBVIOUS
  <2>1. theta \in Eps .. Pi - Eps /\ phi \in 0 .. 2 * Pi BY DEF WalkInv, TypeOK, InDomain
  <2>2. theta \in Int /\ phi \in Int /\ theta \in 0 .. Pi BY <2>1, ConstantsAssumption
  <2>3. CASE Step
    <3>1. PICK dtheta \in Dtheta, dphi \in Dphi :
            /\ theta' = Pole(Abs(Unwind(theta + dtheta)))
            /\ phi' = Around(Turned(theta + dtheta, phi + dphi))
      BY <2>3 DEF Step
    <3>2. PICK t, p, u : t = theta + dtheta /\ p = phi + dphi /\ u = Unwind(t) OBVIOUS
    <3>3. t \in Int /\ p \in Int BY <3>2, <2>2, ConstantsAssumption
    <3>4. Abs(u) \in 0 .. Pi /\ SameDirection(t, p, Abs(u), phi') BY <3>1, <3>2, <3>3, StepDirection
    <3>5. theta' = Pole(Abs(u)) BY <3>1, <3>2
    <3>6. Abs(Abs(u) - theta') <= Eps /\ (Abs(u) # theta' => theta' \in {Eps, Pi - Eps})
      BY <3>4, <3>5, NearPole
    <3> QED BY <3>2, <3>4, <3>6
  <2>4. CASE Break
    <3>1. theta' = theta /\ phi' = phi BY <2>4 DEF Break
    <3>2. theta + 0 = theta /\ phi + 0 = phi /\ theta - theta = 0 /\ phi - phi = 0 BY <2>2
    <3>3. 0 % (2 * Pi) = 0
      <4>1. 0 * (2 * Pi) = 0 BY PiPositive
      <4> QED BY <4>1, WholeTurns
    <3>4. Abs(0) = 0 /\ 0 <= Eps BY ConstantsAssumption DEF Abs
    <3>5. SameDirection(theta + 0, phi + 0, theta, phi') BY <3>1, <3>2, <3>3, <3>4 DEF SameDirection
    <3>6. Abs(theta - theta') <= Eps /\ theta = theta' BY <3>1, <3>2, <3>4
    <3> QED BY <3>5, <3>6, <2>2
  <2>5. CASE Outside \/ Returned \/ UNCHANGED vars BY <2>5 DEF Outside, Returned, vars
  <2> QED BY <2>3, <2>4, <2>5 DEF Next
<1> QED BY <1>1, WalkInvariance, PTL DEF Spec, DirectionKept
=============================================================================
