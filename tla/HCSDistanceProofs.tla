-------------------------- MODULE HCSDistanceProofs --------------------------
(***************************************************************************)
(* Proofs about HCSDistance, for every grid, every set of surfaces, every  *)
(* resolution and every stride.                                            *)
(***************************************************************************)
EXTENDS HCSDistance, TLAPS

(* What holds between the steps beyond the properties themselves: a search   *)
(* that was wanted has been made once it is passed, and until one was made   *)
(* there is no best distance.                                                *)
Considered ==
  /\ todo \in {"mid", "up", "none"} /\ Over(above, below) => done # {}
  /\ todo \in {"up", "none"} /\ inBand => done # {}
  /\ todo = "none" /\ Over(below, above) => done # {}
  /\ done = {} => best.d = Far
  /\ pc = "returned" => todo = "none"

IInv == TypeOK /\ Considered /\ AnswerIsAFoot /\ EndNearDiter
-----------------------------------------------------------------------------
(* r_bound and the floor keep rlow and rup a period apart around r: one of   *)
(* the two outer searches is wanted unless r is below the raised rlow.       *)
LEMMA OneSideWanted ==
  ASSUME NEW a \in Int, NEW b \in Int, b >= 0, a >= 1
  PROVE  Over(a, b) \/ Over(b, a)
BY DEF Over

LEMMA BoundsType ==
  ASSUME NEW r \in Nat, NEW k \in 0 .. Tr - 1
  PROVE  /\ Bounds(r, k)[1] \in -Floor .. Tr - 1
         /\ Bounds(r, k)[2] \in 1 .. Tr
BY SheetAssumption DEF Bounds

(* A stationary point lies on the line, so a step along it stays on the      *)
(* grid.                                                                     *)
LEMMA RootsOnLine ==
  ASSUME NEW f, NEW i
  PROVE  Roots(f, i) \subseteq DOMAIN f
BY DEF Roots

LEMMA CellType ==
  ASSUME dist \in [Cells -> 1 .. Far - 1], NEW c \in Cells
  PROVE  /\ dist[c] \in 1 .. Far - 1
         /\ c[1] \in Phases /\ c[2] \in Lons
         /\ \A w \in Roots(SpiralLine(c), c[2]) : <<c[1], w>> \in Cells
         /\ \A u \in Roots(WaveLine(c), c[1]) : <<u, c[2]>> \in Cells
BY RootsOnLine DEF Cells, SpiralLine, WaveLine
-----------------------------------------------------------------------------
LEMMA InitInv == Init => IInv
<1> SUFFICES ASSUME Init PROVE IInv
  OBVIOUS
<1>1. TypeOK
  <2>1. PICK r \in Radii, k \in Offsets : below = Bounds(r, k)[1] /\ above = Bounds(r, k)[2]
    BY DEF Init
  <2>2. below \in -Floor .. Tr - 1 /\ above \in 1 .. Tr
    BY <2>1, BoundsType, SheetAssumption
  <2>3. dist \in [Cells -> 1 .. Far - 1] /\ Far \in 1 .. Far
    BY SheetAssumption DEF Init
  <2> QED BY <2>2, <2>3 DEF Init, TypeOK
<1>2. Considered
  BY DEF Init, Considered
<1>3. AnswerIsAFoot
  BY DEF Init, AnswerIsAFoot
<1>4. EndNearDiter
  BY DEF Init, EndNearDiter
<1> QED BY <1>1, <1>2, <1>3, <1>4 DEF IInv

LEMMA StepInv == IInv /\ [Next]_vars => IInv'
<1> SUFFICES ASSUME IInv, [Next]_vars PROVE IInv'
  OBVIOUS
<1> USE DEF IInv
<1>d. dist \in [Cells -> 1 .. Far - 1] /\ Far \in Nat \ {0}
  BY SheetAssumption DEF TypeOK
<1>1. CASE Begin
  <2>1. point' \in Cells /\ Far \in 1 .. Far
    BY <1>1, <1>d, SheetAssumption DEF Begin
  <2>2. todo # "none"
    BY <1>1 DEF Begin, Wanted
  <2>3. TypeOK'
    BY <1>1, <2>1, <2>2 DEF TypeOK, Begin, target
  <2>4. Considered' /\ AnswerIsAFoot'
    BY <1>1, <2>2 DEF Considered, AnswerIsAFoot, Begin, target, Over
  <2>5. EndNearDiter'
    BY <1>1, <1>d DEF EndNearDiter, Begin
  <2> QED BY <2>3, <2>4, <2>5
<1>2. CASE Skip
  <2>1. After[todo] \in {"low", "mid", "up", "none"}
    BY <1>2 DEF Skip, TypeOK, After
  <2>2. TypeOK'
    BY <1>2, <2>1 DEF TypeOK, Skip, target, search
  <2>3. Considered'
    BY <1>2 DEF Considered, TypeOK, Skip, target, search, Wanted, After, Over
  <2> QED BY <1>2, <2>2, <2>3 DEF AnswerIsAFoot, EndNearDiter, Skip, target, search
<1>3. CASE Spiral
  <2>p. point \in Cells /\ pc = "loop"
    BY <1>3 DEF Spiral, TypeOK
  <2>1. point' \in Cells /\ diter' \in 1 .. Far /\ spiral_available' \in BOOLEAN
        /\ (diter' < Far => dist[point'] = diter')
    <3>1. CASE Slope(SpiralLine(point), point[2]) = 0
      BY <1>3, <2>p, <3>1 DEF Spiral, TypeOK, EndNearDiter
    <3>2. CASE Slope(SpiralLine(point), point[2]) # 0
      <4>1. PICK w \in Roots(SpiralLine(point), point[2]) :
              point' = <<point[1], w>> /\ diter' = dist[<<point[1], w>>]
              /\ spiral_available' = (<<point[1], w>> \notin Inner)
        BY <1>3, <3>2 DEF Spiral
      <4>2. <<point[1], w>> \in Cells
        BY <1>d, <2>p, CellType
      <4> QED BY <1>d, <4>1, <4>2
    <3> QED BY <3>1, <3>2
  <2>2. TypeOK'
    BY <1>3, <2>1 DEF TypeOK, Spiral, target
  <2>3. EndNearDiter'
    BY <1>3, <2>1 DEF EndNearDiter, Spiral, target
  <2> QED BY <1>3, <2>2, <2>3 DEF Considered, AnswerIsAFoot, Spiral, target
<1>4. CASE Wave
  <2>p. point \in Cells /\ pc = "wave"
    BY <1>4 DEF Wave, TypeOK
  <2>1. /\ point' \in Cells /\ diter' \in 1 .. Far /\ normal' \in BOOLEAN /\ pc' \in {"loop", "answer"}
        /\ pc' = "loop" => dist[point'] = diter'
        /\ pc' = "answer" => LET grown == dist[point'] - diter'
                             IN grown <= 0 \/ 2 * grown < Res2 \/ grown * WaveRel < diter'
    <3>1. CASE Slope(WaveLine(point), point[1]) = 0
      <4>1. dist[point] <= diter
        BY <1>d, <2>p DEF TypeOK, EndNearDiter
      <4>2. point' = point /\ diter' = diter /\ normal' = normal /\ pc' = "answer"
        BY <1>4, <3>1 DEF Wave
      <4>3. dist[point'] - diter' <= 0
        BY <1>d, <2>p, <4>1, <4>2 DEF TypeOK
      <4> QED BY <2>p, <4>2, <4>3 DEF TypeOK
    <3>2. CASE Slope(WaveLine(point), point[1]) # 0
      <4>1. PICK u \in Roots(WaveLine(point), point[1]) :
              LET c == <<u, point[2]>>
              IN /\ point' = c
                 /\ IF Slack(dist[c])
                      THEN pc' = "answer" /\ UNCHANGED <<diter, normal>>
                      ELSE pc' = "loop" /\ diter' = dist[c] /\ normal' = TRUE
        BY <1>4, <3>2 DEF Wave
      <4>2. <<u, point[2]>> \in Cells
        BY <1>d, <2>p, CellType
      <4>3. CASE Slack(dist[<<u, point[2]>>])
        BY <1>d, <4>1, <4>2, <4>3 DEF Slack, TypeOK
      <4>4. CASE ~Slack(dist[<<u, point[2]>>])
        BY <1>d, <4>1, <4>2, <4>4
      <4> QED BY <4>3, <4>4
    <3> QED BY <3>1, <3>2
  <2>2. TypeOK'
    BY <1>4, <2>1, <2>p DEF TypeOK, Wave, target
  <2>3. EndNearDiter'
    BY <1>4, <2>1 DEF EndNearDiter, Wave, target
  <2> QED BY <1>4, <2>1, <2>2, <2>3 DEF Considered, AnswerIsAFoot, Wave, target
<1>5. CASE PointStep
  <2>1. point' \in Cells /\ normal' \in BOOLEAN
    BY <1>5 DEF PointStep, Near, TypeOK
  <2>2. diter' = dist[point'] /\ diter' \in 1 .. Far
    BY <1>5, <1>d, <2>1 DEF PointStep
  <2>3. TypeOK'
    BY <1>5, <2>1, <2>2 DEF TypeOK, PointStep, target
  <2>4. EndNearDiter'
    BY <1>5, <2>2 DEF EndNearDiter, PointStep, target
  <2> QED BY <1>5, <2>3, <2>4 DEF Considered, AnswerIsAFoot, PointStep, target
<1>6. CASE Answer
  <2>p. point \in Cells /\ todo \in {"low", "mid", "up"} /\ Found \in 1 .. Far - 1
    BY <1>6, <1>d DEF Answer, TypeOK, Found
  <2>1. best' = IF Found < best.d THEN [d |-> Found, p_cs |-> point] ELSE best
    BY <1>6 DEF Answer
  <2>2. best' \in [d : 1 .. Far, p_cs : Cells \cup {NoFoot}]
    BY <1>d, <2>p, <2>1 DEF TypeOK
  <2>3. best'.d <= Found /\ best'.d <= best.d
    BY <1>d, <2>p, <2>1 DEF TypeOK
  <2>4. best'.p_cs \in Cells /\ best'.d = dist[best'.p_cs]
    <3>1. CASE Found < best.d
      BY <2>p, <2>1, <3>1 DEF Found
    <3>2. CASE ~(Found < best.d)
      <4>1. done # {}
        BY <1>d, <2>p, <3>2 DEF Considered, TypeOK
      <4> QED BY <2>1, <3>2, <4>1 DEF AnswerIsAFoot
    <3> QED BY <3>1, <3>2
  <2>a. After[todo] \in {"mid", "up", "none"}
    BY <2>p DEF After
  <2>5. TypeOK'
    <3>1. done' \subseteq 1 .. Far - 1
      BY <1>6, <2>p DEF Answer, TypeOK
    <3>2. todo' \in {"mid", "up", "none"} /\ pc' = "next" /\ UNCHANGED <<target, search, point>>
      BY <1>6, <2>a DEF Answer
    <3> QED BY <2>2, <3>1, <3>2 DEF TypeOK, target, search
  <2>6. Considered'
    BY <1>6, <2>p DEF Answer, Considered, After
  <2>7. AnswerIsAFoot'
    <3>1. \A s \in done' : best'.d <= s
      <4>1. \A s \in done : best'.d <= s
        BY <1>d, <2>2, <2>3 DEF AnswerIsAFoot, TypeOK
      <4> QED BY <1>6, <2>3, <4>1 DEF Answer
    <3> QED BY <1>6, <2>4, <3>1 DEF Answer, AnswerIsAFoot, target
  <2> QED BY <1>6, <2>5, <2>6, <2>7 DEF Answer, EndNearDiter
<1>7. CASE Return
  <2>1. todo = "none" /\ pc' = "returned" /\ UNCHANGED <<target, search, todo, point, best, done>>
    BY <1>7 DEF Return
  <2>2. below >= 0 \/ inBand => done # {}
    BY <2>1, OneSideWanted, SheetAssumption DEF Considered, TypeOK
  <2> QED BY <2>1, <2>2 DEF TypeOK, Considered, AnswerIsAFoot, EndNearDiter, target, search
<1>8. CASE SpiralFails \/ WaveFails
  <2>1. Fail
    BY <1>8 DEF SpiralFails, WaveFails
  <2> QED BY <2>1 DEF Fail, TypeOK, Considered, AnswerIsAFoot, EndNearDiter, target, search
<1>9. CASE Ended \/ UNCHANGED vars
  <2>1. UNCHANGED <<target, search, todo, pc, point, best, done>>
    BY <1>9 DEF Ended, vars
  <2>2. TypeOK'
    BY <2>1 DEF TypeOK, target, search
  <2>3. Considered'
    BY <2>1 DEF Considered, target, search, Over
  <2>4. AnswerIsAFoot'
    BY <2>1 DEF AnswerIsAFoot, target, search
  <2>5. EndNearDiter'
    BY <2>1 DEF EndNearDiter, target, search
  <2> QED BY <2>2, <2>3, <2>4, <2>5
<1> QED BY <1>1, <1>2, <1>3, <1>4, <1>5, <1>6, <1>7, <1>8, <1>9 DEF Next

(* Type correctness: every variable of a search keeps its type, and every    *)
(* point a search stands at is a cell of the sheet.                          *)
THEOREM TypeCorrect == Spec => []TypeOK
<1>1. IInv => TypeOK
  BY DEF IInv
<1> QED BY InitInv, StepInv, <1>1, PTL DEF Spec

(* get_distance returns the least of its searches with the foot that has     *)
(* this distance, and makes a search unless r is below the raised rlow.      *)
THEOREM AnswerSafe == Spec => []AnswerIsAFoot
<1>1. IInv => AnswerIsAFoot
  BY DEF IInv
<1> QED BY InitInv, StepInv, <1>1, PTL DEF Spec

(* A search ends at a point whose distance is the last one recorded, but for *)
(* the slack of wave_iterate.                                                *)
THEOREM EndsNearDiter == Spec => []EndNearDiter
<1>1. IInv => EndNearDiter
  BY DEF IInv
<1> QED BY InitInv, StepInv, <1>1, PTL DEF Spec

(* Within a search the recorded distance never grows.                        *)
THEOREM NeverUp == Spec => Descent
<1>1. IInv /\ [Next]_vars => [pc # "next" => diter' <= diter]_vars
  <2> SUFFICES ASSUME IInv, Next, pc # "next" PROVE diter' <= diter
    BY DEF vars
  <2>d. dist \in [Cells -> 1 .. Far - 1] /\ Far \in Nat /\ diter \in 1 .. Far
    BY SheetAssumption DEF IInv, TypeOK
  <2>1. CASE Spiral
    <3>1. CASE Slope(SpiralLine(point), point[2]) = 0
      BY <2>d, <2>1, <3>1 DEF Spiral
    <3>2. CASE Slope(SpiralLine(point), point[2]) # 0
      BY <2>1, <3>2 DEF Spiral, Falls
    <3> QED BY <3>1, <3>2
  <2>2. CASE Wave
    <3>p. point \in Cells
      BY <2>2 DEF Wave, IInv, TypeOK
    <3>1. CASE Slope(WaveLine(point), point[1]) = 0
      BY <2>d, <2>2, <3>1 DEF Wave
    <3>2. CASE Slope(WaveLine(point), point[1]) # 0
      <4>1. PICK u \in Roots(WaveLine(point), point[1]) :
              LET c == <<u, point[2]>>
              IN /\ dist[c] <= diter \/ Slack(dist[c])
                 /\ IF Slack(dist[c]) THEN UNCHANGED diter ELSE diter' = dist[c]
        BY <2>2, <3>2 DEF Wave
      <4> QED BY <2>d, <4>1
    <3> QED BY <3>1, <3>2
  <2>3. CASE PointStep
    <3>1. point \in Cells /\ point' \in Cells /\ pc = "loop"
      BY <2>3 DEF PointStep, Near, IInv, TypeOK
    <3>2. dist[point'] <= dist[point]
      BY <2>d, <2>3, <3>1 DEF PointStep, Closer
    <3>3. dist[point] <= diter
      BY <2>d, <3>1 DEF IInv, EndNearDiter
    <3>4. diter' = dist[point']
      BY <2>3 DEF PointStep
    <3> QED BY <2>d, <3>1, <3>2, <3>3, <3>4
  <2>4. CASE SpiralFails \/ WaveFails \/ Answer \/ Return \/ Ended
    BY <2>d, <2>4 DEF SpiralFails, WaveFails, Fail, Answer, Return, Ended, vars, search
  <2> QED BY <2>1, <2>2, <2>3, <2>4 DEF Next, Begin, Skip
<1> QED BY InitInv, StepInv, <1>1, PTL DEF Spec, Descent
-----------------------------------------------------------------------------
(* A stationary point of a line with one least value is that least value.    *)
LEMMA StationaryIsLeast ==
  ASSUME NEW n \in Nat, NEW f \in [0 .. n - 1 -> Int], Unimodal(f),
         NEW j \in 0 .. n - 1, Slope(f, j) = 0
  PROVE  \A i \in 0 .. n - 1 : f[j] <= f[i]
<1>1. PICK m \in 0 .. n - 1 : \A i, k \in 0 .. n - 1 :
        i < k => /\ (k <= m => f[k] < f[i]) /\ (m <= i => f[i] < f[k])
  BY DEF Unimodal
<1>2. ~(j < m)
  <2> SUFFICES ASSUME j < m PROVE FALSE
    OBVIOUS
  <2>1. j + 1 \in 0 .. n - 1 /\ f[j + 1] < f[j]
    BY <1>1
  <2>2. ~Lower(f, j, j - 1)
    BY <1>1 DEF Lower
  <2> QED BY <2>1, <2>2 DEF Slope, Lower
<1>3. ~(m < j)
  <2> SUFFICES ASSUME m < j PROVE FALSE
    OBVIOUS
  <2>1. j - 1 \in 0 .. n - 1 /\ f[j - 1] < f[j]
    BY <1>1
  <2>2. ~Lower(f, j, j + 1)
    BY <1>1 DEF Lower
  <2> QED BY <2>1, <2>2 DEF Slope, Lower
<1> QED BY <1>1, <1>2, <1>3

(* On a sheet along whose lines the distance has one least value no          *)
(* assertion of spiral_iterate and wave_iterate fails.                       *)
THEOREM ConvexSafe == Spec => []ConvexNeverFails
<1>1. Init => ConvexNeverFails
  BY DEF Init, ConvexNeverFails
<1>2. IInv /\ ConvexNeverFails /\ [Next]_vars => ConvexNeverFails'
  <2> SUFFICES ASSUME IInv, ConvexNeverFails, [Next]_vars, Convex', pc' = "aborted"
               PROVE  FALSE
    BY DEF ConvexNeverFails
  <2>0. Convex
    <3>1. dist' = dist
      BY DEF Next, vars, target, Begin, Skip, Spiral, SpiralFails, Wave, WaveFails, Fail,
             PointStep, Answer, Return, Ended
    <3> QED BY <3>1 DEF Convex, SpiralLine, WaveLine
  <2>1. pc # "aborted"
    BY <2>0 DEF ConvexNeverFails
  <2>d. dist \in [Cells -> 1 .. Far - 1] /\ Far \in Nat /\ diter \in 1 .. Far
    BY SheetAssumption DEF IInv, TypeOK
  <2>2. SpiralFails \/ WaveFails
    BY <2>1 DEF Next, vars, Begin, Skip, Spiral, Wave, PointStep, Answer, Return, Ended
  <2>3. point \in Cells /\ pc \in {"loop", "wave"} /\ point = <<point[1], point[2]>>
    BY <2>2 DEF SpiralFails, WaveFails, IInv, TypeOK, Cells
  <2>4. dist[point] <= diter /\ point[1] \in Phases /\ point[2] \in Lons
    BY <2>d, <2>3 DEF IInv, EndNearDiter, Cells
  <2>5. CASE SpiralFails
    <3> DEFINE f == SpiralLine(point)
    <3>1. PICK w \in Roots(f, point[2]) : ~Falls(dist[<<point[1], w>>])
      BY <2>5 DEF SpiralFails
    <3>2. f \in [0 .. NLons - 1 -> Int] /\ w \in Lons /\ Slope(f, w) = 0 /\ Unimodal(f)
      BY <2>0, <2>d, <2>3, <2>4 DEF Roots, SpiralLine, Convex, Cells, Lons
    <3>3. f[w] <= f[point[2]]
      BY <2>4, <3>2, StationaryIsLeast, SheetAssumption DEF Lons
    <3>4. f[w] = dist[<<point[1], w>>] /\ f[point[2]] = dist[point]
      BY <2>3, <2>4, <3>2 DEF SpiralLine
    <3> QED BY <2>d, <2>3, <2>4, <3>1, <3>2, <3>3, <3>4 DEF Falls, Cells
  <2>6. CASE WaveFails
    <3> DEFINE f == WaveLine(point)
    <3>1. PICK u \in Roots(f, point[1]) : dist[<<u, point[2]>>] > diter
      BY <2>6 DEF WaveFails
    <3>2. f \in [0 .. NPhases - 1 -> Int] /\ u \in Phases /\ Slope(f, u) = 0 /\ Unimodal(f)
      BY <2>0, <2>d, <2>3, <2>4 DEF Roots, WaveLine, Convex, Cells, Phases
    <3>3. f[u] <= f[point[1]]
      BY <2>4, <3>2, StationaryIsLeast, SheetAssumption DEF Phases
    <3>4. f[u] = dist[<<u, point[2]>>] /\ f[point[1]] = dist[point]
      BY <2>3, <2>4, <3>2 DEF WaveLine
    <3> QED BY <2>d, <2>3, <2>4, <3>1, <3>2, <3>3, <3>4 DEF Cells
  <2> QED BY <2>2, <2>5, <2>6
<1> QED BY InitInv, StepInv, <1>1, <1>2, PTL DEF Spec
=============================================================================
