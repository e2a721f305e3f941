------------------------------ MODULE Correction ------------------------------
(***************************************************************************)
(* The correction a new point of the table runs: KDPoint::correction of    *)
(* KDInterp.cc, a depth-first walk over the neighbours, and tab_corr of    *)
(* hcs_interp.cc, which it calls on the new point and its neighbours along *)
(* every axis.  Where the values jump, tab_corr searches the distance of   *)
(* the larger ones again from the foot on the sheet of the smallest one,   *)
(* and points that came closer are corrected in turn.                      *)
(*                                                                         *)
(* Abstractions.  Values are integers, signed by the side of the sheet the *)
(* point is on.  The feet of the sheet are a set, and the search from any  *)
(* foot may end at any foot.  The neighbours do not change meanwhile.      *)
(***************************************************************************)
EXTENDS Integers, Sequences, FiniteSets

CONSTANTS Points, NoPoint,
          New,          \* the point just made
          NAxes,        \* x.size()
          Nb,           \* KDPoint::neighbors: <<point, axis, direction>> -> point
          Feet,         \* points of the sheet searches end at
          Dists,        \* the distances of points to feet there may be
          Sides,        \* the sides of the sheet the points may be on
          Apart(_, _),  \* the distance of two points
          Tiny          \* 1e-5 AU

Axes == 0 .. NAxes - 1
Dirs == {0, 1}

ASSUME CorrectionAssumption ==
  /\ NoPoint \notin Points /\ New \in Points
  /\ NAxes \in Nat /\ Tiny \in Nat
  /\ Nb \in [Points \X Axes \X Dirs -> Points \cup {NoPoint}]
  /\ \A p \in Points, ix \in Axes, d \in Dirs : Nb[<<p, ix, d>>] # p
  /\ Dists \subseteq [Points \X Feet -> Nat \ {0}]
  /\ Sides \subseteq [Points -> {-1, 1}]

VARIABLES dist, side,   \* of the table at hand
          val,          \* tab: the value of every point
          foot,         \* p_cs_tab: the foot of every point
          start,        \* history: the values the correction found
          stack,        \* frames of KDPoint::correction, the last one running
          pc,           \* "frames", "line": inside tab_corr, or "done"
          line, i,      \* points and i of tab_corr
          avg2,         \* its 2 avg
          res           \* its res

sheet    == <<dist, side, start>>
lineVars == <<line, i, avg2, res>>
vars     == <<sheet, val, foot, stack, pc, lineVars>>
-----------------------------------------------------------------------------
Size(n) == IF n < 0 THEN -n ELSE n

(* The line tab_corr is given: the point between the neighbours it has. *)
LineOf(p, ix) ==
  LET a == Nb[<<p, ix, 0>>]  b == Nb[<<p, ix, 1>>]
  IN IF a = NoPoint THEN IF b = NoPoint THEN <<p>> ELSE <<p, b>>
     ELSE IF b = NoPoint THEN <<a, p>> ELSE <<a, p, b>>

(* The first point of ps whose size is extreme. *)
AbsMin(ps) ==
  ps[CHOOSE k \in DOMAIN ps : \A j \in DOMAIN ps :
       Size(val[ps[k]]) < Size(val[ps[j]]) \/ (Size(val[ps[k]]) = Size(val[ps[j]]) /\ k <= j)]
AbsMax(ps) ==
  ps[CHOOSE k \in DOMAIN ps : \A j \in DOMAIN ps :
       Size(val[ps[k]]) > Size(val[ps[j]]) \/ (Size(val[ps[k]]) = Size(val[ps[j]]) /\ k <= j)]

(* distance_jump_d4: the values differ by more than the points do *)
Jump(ps) == LET a == AbsMin(ps)  b == AbsMax(ps) IN Apart(a, b) < Size(val[b] - val[a])

(* step_shape_p3: of three points on one side, two have nearly one value *)
Step(ps) ==
  /\ Len(ps) = 3
  /\ \A k \in 2 .. 3 : val[ps[k]] * val[ps[1]] >= 0
  /\ LET l1 == val[ps[2]] - val[ps[1]]
         l2 == val[ps[3]] - val[ps[2]]
         sizes == {Size(l1 + l2), Size(l1), Size(l2)}
         w == IF l1 * l2 > 0 THEN Size(l1 + l2) ELSE IF Size(l1) > Size(l2) THEN Size(l1) ELSE Size(l2)
     IN \E s \in sizes : 20 * s < w

Frame(p) == [pt |-> p, ix |-> 0, kids |-> {}, fresh |-> {}]
Top      == stack[Len(stack)]
Put(fr)  == [stack EXCEPT ![Len(stack)] = fr]
-----------------------------------------------------------------------------
(* KDPoint::correction takes the next axis; tab_corr looks at its line.      *)
Suspect(ps) == Len(ps) > 1 /\ (Jump(ps) \/ Step(ps))

NextLine ==
  /\ pc = "frames" /\ Top.kids = {} /\ Top.ix < NAxes
  /\ LET ps == LineOf(Top.pt, Top.ix)
     IN IF Suspect(ps)
          THEN /\ pc' = "line" /\ line' = ps /\ i' = 1 /\ res' = {}
               /\ avg2' = Size(val[AbsMin(ps)] + val[AbsMax(ps)])
               /\ UNCHANGED stack
          ELSE /\ stack' = Put([Top EXCEPT !.ix = @ + 1])
               /\ UNCHANGED <<pc, lineVars>>
  /\ UNCHANGED <<sheet, val, foot>>

(* One point of the line is searched again, from the foot of the smallest    *)
(* one, so it may end anywhere; what it finds is kept if that is closer by   *)
(* more than Tiny.                                                           *)
Searched(p, f) == side[p] * dist[<<p, f>>]     \* vcorr, if the search ends at f

Closer(p, f) == Size(val[p]) - Size(Searched(p, f)) > Tiny

MutStore(p, f) == foot     \* ipcs->second = p_cs forgotten
Store(p, f) == [foot EXCEPT ![p] = f]

Search ==
  /\ pc = "line" /\ i <= Len(line)
  /\ LET p == line[i]
     IN \/ 2 * Size(val[p]) < avg2 /\ UNCHANGED <<val, foot, res>>
        \/ /\ 2 * Size(val[p]) >= avg2
           /\ \E f \in Feet :
                IF Closer(p, f)
                  THEN /\ val' = [val EXCEPT ![p] = Searched(p, f)]
                       /\ foot' = Store(p, f)
                       /\ res' = res \cup {p}
                  ELSE UNCHANGED <<val, foot, res>>
  /\ i' = i + 1
  /\ UNCHANGED <<sheet, stack, pc, line, avg2>>

(* The points that came closer are fresh, and corrected before the next axis *)
(* of this frame, but for the point of the frame itself.                     *)
MutEndLine ==     \* the same axis again
  /\ pc = "line" /\ i > Len(line)
  /\ stack' = Put([Top EXCEPT !.fresh = @ \cup res, !.kids = res \ {Top.pt}])
  /\ pc' = "frames"
  /\ UNCHANGED <<sheet, val, foot, lineVars>>

EndLine ==
  /\ pc = "line" /\ i > Len(line)
  /\ stack' = Put([Top EXCEPT !.ix = @ + 1, !.fresh = @ \cup res, !.kids = res \ {Top.pt}])
  /\ pc' = "frames"
  /\ UNCHANGED <<sheet, val, foot, lineVars>>

Recurse ==
  /\ pc = "frames"
  /\ \E q \in Top.kids :
       stack' = Append(Put([Top EXCEPT !.kids = @ \ {q}]), Frame(q))
  /\ UNCHANGED <<sheet, val, foot, pc, lineVars>>

MutMerge(below, sub) == below     \* subfresh is not inserted
Merge(below, sub) == [below EXCEPT !.fresh = @ \cup sub.fresh]

Return ==
  /\ pc = "frames" /\ Top.kids = {} /\ Top.ix = NAxes
  /\ LET n == Len(stack)
     IN IF n = 1 THEN pc' = "done" /\ UNCHANGED stack
        ELSE /\ stack' = [k \in 1 .. n - 1 |-> IF k < n - 1 THEN stack[k] ELSE Merge(stack[k], Top)]
             /\ UNCHANGED pc
  /\ UNCHANGED <<sheet, val, foot, lineVars>>

Done == pc = "done" /\ UNCHANGED vars
-----------------------------------------------------------------------------
(* get_val: the new point has its value, its foot and its neighbours. *)
Init ==
  /\ dist \in Dists /\ side \in Sides
  /\ foot \in [Points -> Feet]
  /\ val = [p \in Points |-> side[p] * dist[<<p, foot[p]>>]]
  /\ start = val
  /\ stack = <<Frame(New)>> /\ pc = "frames"
  /\ line = << >> /\ i = 1 /\ avg2 = 0 /\ res = {}

Next == NextLine \/ Search \/ EndLine \/ Recurse \/ Return \/ Done

Spec == Init /\ [][Next]_vars

FairSpec == Spec /\ WF_vars(Next)     \* one thread, no waiting
-----------------------------------------------------------------------------
FrameType == [pt : Points, ix : 0 .. NAxes, kids : SUBSET Points, fresh : SUBSET Points]

TypeOK ==
  /\ dist \in [Points \X Feet -> Nat \ {0}] /\ side \in [Points -> {-1, 1}]
  /\ val \in [Points -> Int] /\ start \in [Points -> Int] /\ foot \in [Points -> Feet]
  /\ stack \in Seq(FrameType) /\ stack # << >>
  /\ pc \in {"frames", "line", "done"}
  /\ line \in Seq(Points) /\ i \in Nat \ {0} /\ avg2 \in Nat
  /\ res \subseteq Points

(* The value of a point is its distance to the foot that is stored for it,   *)
(* on its side: the next correction starts from that foot, and one that      *)
(* belongs to another value would spread a wrong branch of the sheet.        *)
FootOfValue == \A p \in Points : val[p] = side[p] * dist[<<p, foot[p]>>]

(* When the walk is over, it has done at once what the construction of the   *)
(* table takes a correction to do: the points it returns, whose blocks are   *)
(* refreshed, are exactly those that changed, they only came closer, and     *)
(* they are linked to the new point.                                         *)
Linked(p, q) == \E ix \in Axes, d \in Dirs : Nb[<<p, ix, d>>] = q \/ Nb[<<q, ix, d>>] = p

L == INSTANCE Lowering WITH
       val   <- IF pc = "done" THEN val ELSE start,
       fresh <- IF pc = "done" THEN Top.fresh ELSE {},
       over  <- pc = "done"

ImplementsLowering == L!Spec

(* The recursion comes to an end, although a point may be corrected again    *)
(* and again from different neighbours.                                      *)
CorrectionEnds == <>(pc = "done")
=============================================================================
