----------------------------- MODULE HCSDistance -----------------------------
(***************************************************************************)
(* The distance of a point to the heliospheric current sheet as HCS.cc     *)
(* finds it by iteration: get_distance starts up to three searches, below, *)
(* at and above the radius of the target, and keeps the shortest; each is  *)
(* get_distance_from_point, which moves a point of the sheet by            *)
(* spiral_iterate, wave_iterate and point_iterate until the distance       *)
(* changes by no more than the resolution.                                 *)
(*                                                                         *)
(* Abstractions.  The sheet is a grid of cells <<phase, longitude>>: along *)
(* a spiral the phase of the wave stays, along a wave the longitude.  A    *)
(* spiral or a wave through a point is then a line of the grid, and the    *)
(* distance of the target to the cells, dist, is arbitrary.  The           *)
(* derivative vdot along a line is the side of the lower neighbour, zero   *)
(* in a cell that is the lowest or the highest of its three.  Distances    *)
(* and radii are integers; 1e-8 and 1e-9, which guard against rounding,    *)
(* are no difference at all.                                               *)
(***************************************************************************)
EXTENDS Integers, FiniteSets

CONSTANTS NPhases, NLons,   \* the size of the grid
          Surfaces,         \* the functions dist may be
          Far,              \* 1e5 AU, beyond every distance
          Crest,            \* phases whose latitude exceeds angle - 0.5 deg
          Inner,            \* cells of negative radius
          Starts,           \* cells a search may start at: the longitude of the target
          Res2,             \* twice the resolution
          WaveRel,          \* 1e4: relative slack of wave_iterate
          MaxStride,        \* cells one stride of a bracket walk spans
          MaxStep,          \* cells a point_iterate of at most 1 AU spans
          Radii, Offsets,   \* radii of targets, and how far below them rlow may be
          Tr, Floor         \* 2 pi Vs / Omega, 1e-2 AU

Phases == 0 .. NPhases - 1
Lons   == 0 .. NLons - 1
Cells  == Phases \X Lons

ASSUME SheetAssumption ==
  /\ NPhases \in Nat /\ NLons \in Nat /\ Far \in Nat \ {0}
  /\ Surfaces \subseteq [Cells -> 1 .. Far - 1]
  /\ Crest \subseteq Phases /\ Inner \subseteq Cells /\ Starts \subseteq Cells \ Inner
  /\ Res2 \in Nat /\ WaveRel \in Nat /\ MaxStride \in Nat \ {0}
  /\ MaxStep \in Nat /\ Radii \subseteq Nat /\ Offsets \subseteq 0 .. Tr - 1 /\ Tr \in Nat \ {0} /\ Floor \in Nat \ {0}

VARIABLES dist,      \* distance of the target to every cell
          inBand,    \* |pi/2 - theta| < angle
          polar,     \* |pi/2 - theta| > angle - 0.5 deg
          below,     \* r - rlow
          above,     \* rup - r
          todo,      \* the search get_distance considers next
          pc,        \* where get_distance is
          point,     \* p_cs of the search under way
          diter, diter_last, spiral_available,
          normal,    \* dh is a normal of the sheet, not the zero vector
          best,      \* d and p_cs of get_distance
          done       \* history: the distances the searches returned

target == <<dist, inBand, polar, below, above>>
search == <<diter, diter_last, spiral_available, normal>>
vars   == <<target, search, todo, pc, point, best, done>>
-----------------------------------------------------------------------------
(* Lines through a cell, and the walk along them *)

SpiralLine(c) == [w \in Lons |-> dist[<<c[1], w>>]]
WaveLine(c)   == [u \in Phases |-> dist[<<u, c[2]>>]]

Lower(f, i, j) == j \in DOMAIN f /\ f[j] < f[i]

(* vdot at i: the direction in which the distance falls *)
Slope(f, i) ==
  IF Lower(f, i, i + 1) /\ ~Lower(f, i, i - 1) THEN 1
  ELSE IF Lower(f, i, i - 1) /\ ~Lower(f, i, i + 1) THEN -1 ELSE 0

(* The walk goes on in strides while vdot keeps its sign; off the grid the   *)
(* line leads away from the target.  Ridders' method then finds any          *)
(* stationary point of the bracket.                                          *)
Keeps(f, i, k) == k \in DOMAIN f /\ Slope(f, k) = Slope(f, i)

MutRoots(f, i) ==     \* the end of the bracket, whatever the stride
  {j \in DOMAIN f : \E stride \in 1 .. MaxStride :
     j = i + Slope(f, i) * stride /\ ~Keeps(f, i, j)}
Roots(f, i) ==
  {j \in DOMAIN f :
     \E stride \in 1 .. MaxStride, k \in 1 .. NPhases + NLons :
       LET step == Slope(f, i) * stride
       IN /\ \A n \in 1 .. k - 1 : Keeps(f, i, i + n * step)
          /\ ~Keeps(f, i, i + k * step)
          /\ Slope(f, j) = 0
          /\ 0 < (j - i) * Slope(f, i) /\ (j - i) * Slope(f, i) <= k * stride}
-----------------------------------------------------------------------------
(* get_distance_from_point *)

(* The latitude of the sheet is a function of the phase alone (Theta_S).     *)
High(u) == u \in Crest

Polar(c) == polar /\ High(c[1])

MutGoes == diter = Far \/ diter_last = Far \/ diter_last >= diter     \* no resolution
Goes == diter = Far \/ diter_last = Far
        \/ 2 * (diter_last - diter) > Res2 \/ 2 * (diter - diter_last) > Res2

MutFalls(d) == TRUE     \* the assertion of spiral_iterate removed
Falls(d) == d <= diter

Fail == pc' = "aborted" /\ UNCHANGED <<target, search, todo, point, best, done>>

Spiral ==
  /\ pc = "loop" /\ Goes /\ Polar(point) /\ spiral_available
  /\ diter_last' = diter
  /\ pc' = "wave"
  /\ IF Slope(SpiralLine(point), point[2]) = 0
       THEN spiral_available' = FALSE /\ UNCHANGED <<point, diter>>
       ELSE \E w \in Roots(SpiralLine(point), point[2]) :
              LET c == <<point[1], w>>
              IN /\ Falls(dist[c])
                 /\ point' = c /\ diter' = dist[c] /\ spiral_available' = (c \notin Inner)
  /\ UNCHANGED <<target, todo, normal, best, done>>

SpiralFails ==
  /\ pc = "loop" /\ Goes /\ Polar(point) /\ spiral_available
  /\ Slope(SpiralLine(point), point[2]) # 0
  /\ \E w \in Roots(SpiralLine(point), point[2]) : ~Falls(dist[<<point[1], w>>])
  /\ Fail

(* diter < d that wave_iterate lets pass: it returns false, the point moved. *)
MutSlack(d) == diter < d     \* any increase ends the search
Slack(d) == /\ diter < d
            /\ 2 * (d - diter) < Res2 \/ (d - diter) * WaveRel < diter

Wave ==
  /\ pc = "wave"
  /\ IF Slope(WaveLine(point), point[1]) = 0
       THEN pc' = "answer" /\ UNCHANGED <<point, diter, normal>>
       ELSE \E u \in Roots(WaveLine(point), point[1]) :
              LET c == <<u, point[2]>>
              IN /\ dist[c] <= diter \/ Slack(dist[c])
                 /\ point' = c
                 /\ IF Slack(dist[c])
                      THEN pc' = "answer" /\ UNCHANGED <<diter, normal>>
                      ELSE pc' = "loop" /\ diter' = dist[c] /\ normal' = TRUE
  /\ UNCHANGED <<target, diter_last, spiral_available, todo, best, done>>

WaveFails ==
  /\ pc = "wave" /\ Slope(WaveLine(point), point[1]) # 0
  /\ \E u \in Roots(WaveLine(point), point[1]) :
       LET d == dist[<<u, point[2]>>] IN d > diter /\ ~Slack(d)
  /\ Fail

(* point_iterate halves its step until the distance falls, or until the step *)
(* is below a metre: then the point stays.  dh is zero if that was so in the *)
(* first pass, and no step is good enough when dh is zero.                   *)
Near == {c \in Cells : \A k \in 1 .. 2 : c[k] - point[k] \in -MaxStep .. MaxStep}

Closer(c) == dist[c] < dist[point]

PointStep ==
  /\ pc = "loop" /\ Goes /\ ~(Polar(point) /\ spiral_available)
  /\ diter_last' = diter
  /\ \/ \E c \in Near : normal /\ Closer(c) /\ point' = c /\ normal' = TRUE
     \/ point' = point /\ normal' \in BOOLEAN
  /\ diter' = dist[point']
  /\ UNCHANGED <<target, spiral_available, todo, pc, best, done>>
-----------------------------------------------------------------------------
(* get_distance *)

Over(a, b) == IF b > 0 THEN 10 * a > b ELSE b = 0        \* a / b > 0.1

After == [low |-> "mid", mid |-> "up", up |-> "none"]

Wanted(s) == \/ s = "low" /\ Over(above, below)
             \/ s = "mid" /\ inBand
             \/ s = "up" /\ Over(below, above)

Begin ==
  /\ pc = "next" /\ Wanted(todo)
  /\ point' \in Starts
  /\ diter' = Far /\ diter_last' = Far /\ spiral_available' = TRUE /\ normal' = TRUE
  /\ pc' = "loop"
  /\ UNCHANGED <<target, todo, best, done>>

Skip ==
  /\ pc = "next" /\ todo # "none" /\ ~Wanted(todo)
  /\ todo' = After[todo]
  /\ UNCHANGED <<target, search, pc, point, best, done>>

MutFound == diter     \* what the loop has, not the distance of the point
Found == dist[point]

Answer ==
  /\ pc = "answer" \/ (pc = "loop" /\ ~Goes)
  /\ done' = done \cup {Found}
  /\ best' = IF Found < best.d THEN [d |-> Found, p_cs |-> point] ELSE best
  /\ todo' = After[todo]
  /\ pc' = "next"
  /\ UNCHANGED <<target, search, point>>

Return == pc = "next" /\ todo = "none" /\ pc' = "returned"
          /\ UNCHANGED <<target, search, todo, point, best, done>>

Ended == pc \in {"returned", "aborted"} /\ UNCHANGED vars
-----------------------------------------------------------------------------
(* r_bound puts rlow and rup a period apart around r; the edge of the band   *)
(* is within 0.5 deg of its outside.                                         *)
Bounds(r, k) == IF r - k < 0 THEN <<r - Floor, Tr - k>> ELSE <<k, Tr - k>>

NoFoot == <<Far, Far>>      \* the zero vector

Init ==
  /\ dist \in Surfaces
  /\ inBand \in BOOLEAN /\ polar \in BOOLEAN /\ (inBand \/ polar)
  /\ \E r \in Radii, k \in Offsets : below = Bounds(r, k)[1] /\ above = Bounds(r, k)[2]
  /\ todo = "low" /\ pc = "next"
  /\ point = NoFoot /\ diter = Far /\ diter_last = Far
  /\ spiral_available = TRUE /\ normal = TRUE
  /\ best = [d |-> Far, p_cs |-> NoFoot] /\ done = {}

Next == \/ Begin \/ Skip \/ Spiral \/ SpiralFails \/ Wave \/ WaveFails
        \/ PointStep \/ Answer \/ Return \/ Ended

Spec == Init /\ [][Next]_vars

FairSpec == Spec /\ WF_vars(Next)     \* one thread, no waiting
-----------------------------------------------------------------------------
TypeOK ==
  /\ dist \in [Cells -> 1 .. Far - 1] /\ inBand \in BOOLEAN /\ polar \in BOOLEAN
  /\ below \in -Floor .. Tr - 1 /\ above \in 1 .. Tr
  /\ todo \in {"low", "mid", "up", "none"}
  /\ pc \in {"next", "loop", "wave", "answer", "returned", "aborted"}
  /\ pc \in {"loop", "wave", "answer"} => todo # "none" /\ point \in Cells
  /\ diter \in 1 .. Far /\ diter_last \in 1 .. Far
  /\ spiral_available \in BOOLEAN /\ normal \in BOOLEAN
  /\ best \in [d : 1 .. Far, p_cs : Cells \cup {NoFoot}]
  /\ done \subseteq 1 .. Far - 1

(* get_distance returns the least of the distances its searches returned,    *)
(* with the foot point that has this distance; and there is one unless the   *)
(* target is below rlow, which is raised to 1e-2 AU, and outside the band.   *)
AnswerIsAFoot ==
  /\ \A s \in done : best.d <= s
  /\ done # {} => best.p_cs \in Cells /\ best.d = dist[best.p_cs]
  /\ pc = "returned" /\ (below >= 0 \/ inBand) => done # {}

(* Whatever the sheet is like, a search returns what it recorded last, but   *)
(* for the slack of wave_iterate, which moves the point before it gives up:  *)
(* the distance of the point where a search ends exceeds diter by less than  *)
(* the resolution or by the relative slack.                                  *)
EndNearDiter ==
  /\ pc \in {"loop", "wave"} /\ diter < Far => dist[point] = diter
  /\ pc = "answer" => LET grown == dist[point] - diter
                      IN grown <= 0 \/ 2 * grown < Res2 \/ grown * WaveRel < diter

(* Within a search the recorded distance never grows, the comparison with    *)
(* the resolution on which the loop ends relies on that.                     *)
Descent == [][pc # "next" => diter' <= diter]_vars

(* Every search comes to an end, and get_distance returns or aborts. *)
SearchEnds == <>(pc \in {"returned", "aborted"})

(* Along every line the distance falls to a least value and rises from it.   *)
Unimodal(f) == \E m \in DOMAIN f : \A i, j \in DOMAIN f :
                 i < j => /\ (j <= m => f[j] < f[i]) /\ (m <= i => f[i] < f[j])

Convex == \A c \in Cells : Unimodal(SpiralLine(c)) /\ Unimodal(WaveLine(c))

(* Where the spirals and the waves have one least distance each, no          *)
(* assertion of the iterations fails, however far the strides of the bracket *)
(* walks lead.                                                               *)
ConvexNeverFails == Convex => pc # "aborted"
=============================================================================
