------------------------------- MODULE KDLines -------------------------------
(***************************************************************************)
(* The points of a table under construction as KDInterp.cc links them:     *)
(* every point has a neighbour on either side along every axis, and        *)
(* ref_tab keeps one point of every line of the table, from which a new    *)
(* point finds its place on the line.  KDInterp says which points a        *)
(* correction can reach by their coordinates (Adjacent); here those        *)
(* coordinates are followed by the pointers the code keeps, linked from    *)
(* the points init_corners and init_sides pass to get_val.                 *)
(***************************************************************************)
EXTENDS KDInterp

VARIABLES nb,     \* KDPoint::neighbors: point -> axis and direction -> point
          ref     \* ref_tab: axis -> line -> a point of the line

lineVars == <<nb, ref>>

NoPoint == [ix \in Axes |-> 2 * Unit]     \* NULL
Dirs    == {0, 1}                          \* 1: the neighbour above

Line(p, ix) == [j \in Axes \ {ix} |-> p[j]]     \* list_x of update_tab
-----------------------------------------------------------------------------
(* connect: from a point of the line towards p, past every point before p. *)

Onward(n, p, t, ix, d) ==
  LET bound == n[t][<<ix, d>>]
  IN IF bound # NoPoint /\ (p[ix] - bound[ix]) * (p[ix] - t[ix]) > 0 THEN bound ELSE t

(* A line has no more than 2 * Unit + 1 points, so the loop has ended.       *)
Walk(n, p, t, ix, d) ==
  LET target[k \in Nat] == IF k = 0 THEN t ELSE Onward(n, p, target[k - 1], ix, d)
  IN target[2 * Unit]

Connect(n, p, t, ix) ==
  LET d      == IF p[ix] > t[ix] THEN 1 ELSE 0
      target == Walk(n, p, t, ix, d)
      bound  == n[target][<<ix, d>>]
      linked == [n EXCEPT ![target][<<ix, d>>] = p,
                          ![p][<<ix, 1 - d>>] = target, ![p][<<ix, d>>] = bound]
  IN IF ~SameLine(p, t, ix) THEN n
     ELSE IF bound = NoPoint THEN linked
     ELSE [linked EXCEPT ![bound][<<ix, 1 - d>>] = p]

Alone(n, p, ix) == \A d \in Dirs : n[p][<<ix, d>>] = NoPoint
-----------------------------------------------------------------------------
(* The points get_val is given for a new point of block b. *)

Flip(i, ix) == i + (1 - 2 * Bit(i, ix)) * Pow2[ix]     \* slice_anti[ix][i]

(* corners[j] is set when corner i is asked for: the earlier ones, those of  *)
(* the parent's face, and, for the second child, those of its brother.       *)
HasCorner(b, i, j) ==
  \/ j < i
  \/ Bit(j, Last(b.path)[1]) = Side(b.path)
  \/ Side(b.path) = 1

RefsOf(b, p) ==
  LET k == SelectInSeq(PointSeq(b), LAMBDA q : q = p) - 2     \* -1 is the centre
      corner(ix) == IF b.path # << >> /\ HasCorner(b, k, Flip(k, ix))
                      THEN Corner(b, Flip(k, ix)) ELSE NoPoint
      side(ix)   == IF (k - Pow2[Dim]) \div 2 = ix THEN b.x ELSE NoPoint
  IN [ix \in Axes |-> IF k < 0 THEN NoPoint ELSE IF k < Pow2[Dim] THEN corner(ix) ELSE side(ix)]

(* get_val: p is connected to what it was given, then, by update_tab, along  *)
(* the axes where it is still alone, to the line's point in ref_tab.         *)
GivenAlong(n, p, refs, ix) == IF refs[ix] = NoPoint THEN n ELSE Connect(n, p, refs[ix], ix)

Given(n, p, refs) ==
  LET given[k \in 0 .. Dim] == IF k = 0 THEN n ELSE GivenAlong(given[k - 1], p, refs, k - 1)
  IN given[Dim]

Known(p, ix) == Line(p, ix) \in DOMAIN ref[ix]

MutUpdateAlong(n, p, ix) == n     \* a point that was given nothing stays alone
UpdateAlong(n, p, ix) ==
  IF Alone(n, p, ix) /\ Known(p, ix) THEN Connect(n, p, ref[ix][Line(p, ix)], ix) ELSE n

UpdateTab(n, p) ==
  LET updated[k \in 0 .. Dim] == IF k = 0 THEN n ELSE UpdateAlong(updated[k - 1], p, k - 1)
  IN updated[Dim]

Fresh0(p) == Extend(nb, p, [s \in Axes \X Dirs |-> NoPoint])

Link ==
  /\ cur # NoBox /\ Missing(cur) # {}
  /\ LET p     == NewPoint
         given == Given(Fresh0(p), p, RefsOf(cur, p))
     IN
     /\ nb' = UpdateTab(given, p)
     /\ ref' = [ix \in Axes |-> IF Alone(given, p, ix) /\ ~Known(p, ix)
                                  THEN Extend(ref[ix], Line(p, ix), p) ELSE ref[ix]]
-----------------------------------------------------------------------------
(* getkd: the block whose fit answers a query at x *)

MutDescend(path, x) == IF cells[path].split = None THEN path     \* an upper face goes down
                       ELSE Append(path, <<cells[path].split, 0>>)
Descend(path, x) ==
  LET ix == cells[path].split
  IN IF ix = None THEN path ELSE Append(path, <<ix, IF x[ix] < cells[path].x[ix] THEN 0 ELSE 1>>)

(* A block is halved at most MaxHalv times along an axis, so the loop has    *)
(* ended.                                                                    *)
GetKd(x) ==
  LET down[k \in Nat] == IF k = 0 THEN << >> ELSE Descend(down[k - 1], x)
  IN down[Dim * MaxHalv]
-----------------------------------------------------------------------------
LInit == Init /\ nb = << >> /\ ref = [ix \in Axes |-> << >>]

LAddPoint == Link /\ AddPoint

LNext ==
  \/ LAddPoint
  \/ /\ \/ Complete \/ NoChange \/ Breed \/ EndPass
        \/ (\E b \in refresh : Refresh(b) \/ Revive(b)) \/ Resume
        \/ StoreBlock \/ Stored \/ ReadBlock \/ Loaded \/ Finished
     /\ UNCHANGED lineVars

LSpec == LInit /\ [][LNext]_<<vars, lineVars>>
-----------------------------------------------------------------------------
(* Nobody of the line lies between p and its pointer q, or beyond p when the *)
(* pointer is NULL.  The code never compares with the other points: it only  *)
(* follows pointers.                                                         *)
IsNearest(p, q, ix, d, line) ==
  IF q = NoPoint THEN \A r \in line : (2 * d - 1) * (r[ix] - p[ix]) <= 0
  ELSE /\ q \in line /\ (2 * d - 1) * (q[ix] - p[ix]) > 0
       /\ \A r \in line : ~Between(r, p, q, ix)

(* However the points come and whatever they are linked from, each pointer   *)
(* leads to the nearest point on that side, so the lists are sorted,         *)
(* symmetric and leave nobody out, and corrections spread along the lines    *)
(* as KDInterp's Adjacent has it; and ref_tab knows every line by one of its *)
(* points.                                                                   *)
LinesSound ==
  /\ DOMAIN nb = DOMAIN val
  /\ \A ix \in Axes :
       /\ \A p \in DOMAIN val : Known(p, ix)
       /\ \A l \in DOMAIN ref[ix] :
            LET line == {p \in DOMAIN val : Line(p, ix) = l}
            IN /\ ref[ix][l] \in line
               /\ \A p \in line : \A d \in Dirs : IsNearest(p, nb[p][<<ix, d>>], ix, d, line)

Clamp(x) == [ix \in Axes |-> IF x[ix] > Unit THEN Unit ELSE IF x[ix] < -Unit THEN -Unit ELSE x[ix]]
InBox(b, x) == \A ix \in Axes : Abs(x[ix] - cells[b].x[ix]) <= cells[b].w[ix]

(* Every query is answered by a block that is not split and that holds the   *)
(* point asked for, and a query outside the table by the nearest block at    *)
(* its border, after all the killing and reviving.                           *)
QueryInBlock ==
  phase = "store" /\ file = << >> =>
    \A x \in [Axes -> {(k * Unit) \div 4 : k \in -5 .. 5}] :
      LET b == GetKd(x) IN b \in DOMAIN cells /\ cells[b].split = None /\ InBox(b, Clamp(x))
=============================================================================
