-------------------------- MODULE CorrectionProofs --------------------------
(***************************************************************************)
(* Proofs about Correction, for every set of points and neighbours, every  *)
(* number of axes, and every distance there may be to any feet.            *)
(***************************************************************************)
EXTENDS Correction, TLAPS

(* The points that changed so far, and what the walk knows of them. *)
Changed == {p \in Points : val[p] # start[p]}

(* Values only shrink, on their side. *)
Shrunk == \A p \in Points : val[p] # start[p] => Size(val[p]) < Size(start[p])

OnSide == \A p \in Points : /\ side[p] = 1 => start[p] >= 0
                            /\ side[p] = -1 => start[p] <= 0

(* The changed points are those that some frame will return or tab_corr has  *)
(* at hand.                                                                  *)
Kept ==
  /\ \A k \in 1 .. Len(stack) : stack[k].fresh \subseteq Changed /\ stack[k].kids \subseteq Changed
  /\ pc = "line" => res \subseteq Changed
  /\ \A p \in Changed : \/ \E k \in 1 .. Len(stack) : p \in stack[k].fresh
                        \/ pc = "line" /\ p \in res

(* Every frame stands at a changed point or at the new one, and every part   *)
(* of what changed is linked to the rest or to the new point.                *)
Reached ==
  /\ \A k \in 1 .. Len(stack) : stack[k].pt \in Changed \cup {New}
  /\ L!Connected(Changed \ {New})

(* The line at hand is the frame's point and its neighbours. *)
LineOfTop ==
  pc = "line" => /\ Top.kids = {} /\ Top.ix < NAxes
                 /\ \A k \in 1 .. Len(line) : line[k] = Top.pt \/ Linked(line[k], Top.pt)

AtEnd == pc = "done" => Len(stack) = 1 /\ Top.kids = {}

IInv == TypeOK /\ FootOfValue /\ Shrunk /\ OnSide /\ Kept /\ Reached /\ LineOfTop /\ AtEnd
-----------------------------------------------------------------------------
(* A point linked to a connected part may join it. *)
LEMMA Joins ==
  ASSUME NEW F, L!Connected(F), New \notin F,
         NEW p, p \in F \cup {New}, NEW q, q # New, Linked(q, p)
  PROVE  L!Connected(F \cup {q})
<1>1. CASE q \in F
  <2>1. F \cup {q} = F BY <1>1
  <2> QED BY <2>1
<1>2. CASE q \notin F
  <2> SUFFICES ASSUME NEW S \in SUBSET (F \cup {q}), S # {}
               PROVE  \E x \in S, r \in (F \cup {q} \cup {New}) \ S : Linked(x, r)
    BY DEF L!Connected
  <2>1. CASE S = {q}
    BY <1>2, <2>1
  <2>2. CASE S # {q}
    <3>0. S \ {q} \subseteq F /\ S \ {q} # {}
      BY <2>2
    <3>1. S \ {q} \in (SUBSET F) \ {{}}
      BY <3>0
    <3>2. PICK x \in S \ {q}, r \in (F \cup {New}) \ (S \ {q}) : Linked(x, r)
      BY <3>1 DEF L!Connected
    <3> QED BY <1>2, <3>2
  <2> QED BY <2>1, <2>2
<1> QED BY <1>1, <1>2

LEMMA LineOfType ==
  ASSUME NEW p \in Points, NEW ix \in Axes
  PROVE  /\ LineOf(p, ix) \in Seq(Points)
         /\ \A k \in 1 .. Len(LineOf(p, ix)) :
              LineOf(p, ix)[k] = p \/ Linked(LineOf(p, ix)[k], p)
<1> DEFINE a == Nb[<<p, ix, 0>>]
           b == Nb[<<p, ix, 1>>]
<1>1. a \in Points \cup {NoPoint} /\ b \in Points \cup {NoPoint}
  BY CorrectionAssumption DEF Dirs
<1>2. (a # NoPoint => a \in Points /\ Linked(a, p)) /\ (b # NoPoint => b \in Points /\ Linked(b, p))
  BY <1>1 DEF Linked, Dirs
<1>3. CASE a = NoPoint /\ b = NoPoint
  BY <1>3 DEF LineOf
<1>4. CASE a = NoPoint /\ b # NoPoint
  BY <1>2, <1>4 DEF LineOf
<1>5. CASE a # NoPoint /\ b = NoPoint
  BY <1>2, <1>5 DEF LineOf
<1>6. CASE a # NoPoint /\ b # NoPoint
  BY <1>2, <1>6 DEF LineOf
<1> QED BY <1>3, <1>4, <1>5, <1>6

LEMMA SizeType ==
  ASSUME NEW n \in Int PROVE Size(n) \in Nat
BY DEF Size

(* A line has a first point of least and one of greatest size. *)
LEMMA Extremes ==
  ASSUME val \in [Points -> Int], NEW p \in Points, NEW ix \in Axes
  PROVE  AbsMin(LineOf(p, ix)) \in Points /\ AbsMax(LineOf(p, ix)) \in Points
<1> DEFINE ps == LineOf(p, ix)
           s  == [k \in DOMAIN ps |-> Size(val[ps[k]])]
<1>1. Len(ps) \in 1 .. 3
  BY DEF LineOf
<1>0. ps \in Seq(Points)
  BY LineOfType
<1> HIDE DEF ps
<1>a. DOMAIN ps = 1 .. Len(ps) /\ \A k \in 1 .. Len(ps) : ps[k] \in Points
  BY <1>0
<1>b. \A k \in 1 .. Len(ps) : Size(val[ps[k]]) \in Nat
  BY <1>a, SizeType
<1>2. s \in [1 .. Len(ps) -> Nat] /\ DOMAIN ps = 1 .. Len(ps)
  BY <1>a, <1>b
<1>3. \E k \in 1 .. Len(ps) : \A j \in 1 .. Len(ps) : s[k] < s[j] \/ (s[k] = s[j] /\ k <= j)
  <2> HIDE DEF s
  <2>1. CASE Len(ps) = 1 BY <1>2, <2>1
  <2>2. CASE Len(ps) = 2 BY <1>2, <2>2
  <2>3. CASE Len(ps) = 3
    <3>1. CASE s[1] <= s[2] /\ s[1] <= s[3] BY <1>2, <2>3, <3>1
    <3>2. CASE s[2] < s[1] /\ s[2] <= s[3] BY <1>2, <2>3, <3>2
    <3>3. CASE s[3] < s[1] /\ s[3] < s[2] BY <1>2, <2>3, <3>3
    <3> QED BY <1>2, <2>3, <3>1, <3>2, <3>3
  <2> QED BY <1>1, <2>1, <2>2, <2>3
<1>4. \E k \in 1 .. Len(ps) : \A j \in 1 .. Len(ps) : s[k] > s[j] \/ (s[k] = s[j] /\ k <= j)
  <2> HIDE DEF s
  <2>1. CASE Len(ps) = 1 BY <1>2, <2>1
  <2>2. CASE Len(ps) = 2 BY <1>2, <2>2
  <2>3. CASE Len(ps) = 3
    <3>1. CASE s[1] >= s[2] /\ s[1] >= s[3] BY <1>2, <2>3, <3>1
    <3>2. CASE s[2] > s[1] /\ s[2] >= s[3] BY <1>2, <2>3, <3>2
    <3>3. CASE s[3] > s[1] /\ s[3] > s[2] BY <1>2, <2>3, <3>3
    <3> QED BY <1>2, <2>3, <3>1, <3>2, <3>3
  <2> QED BY <1>1, <2>1, <2>2, <2>3
<1>5. AbsMin(ps) \in Points
  <2>1. \E k \in DOMAIN ps : \A j \in DOMAIN ps :
          Size(val[ps[k]]) < Size(val[ps[j]]) \/ (Size(val[ps[k]]) = Size(val[ps[j]]) /\ k <= j)
    BY <1>2, <1>3
  <2> QED BY <1>a, <2>1 DEF AbsMin
<1>6. AbsMax(ps) \in Points
  <2>1. \E k \in DOMAIN ps : \A j \in DOMAIN ps :
          Size(val[ps[k]]) > Size(val[ps[j]]) \/ (Size(val[ps[k]]) = Size(val[ps[j]]) /\ k <= j)
    BY <1>2, <1>4
  <2> QED BY <1>a, <2>1 DEF AbsMax
<1> QED BY <1>5, <1>6 DEF ps
-----------------------------------------------------------------------------
LEMMA ProductSign ==
  ASSUME NEW a \in Int, NEW b \in Int, (a >= 0 /\ b >= 0) \/ (a <= 0 /\ b <= 0)
  PROVE  a * b >= 0
OBVIOUS

LEMMA SearchedType ==
  ASSUME TypeOK, NEW p \in Points, NEW f \in Feet
  PROVE  /\ Searched(p, f) \in Int
         /\ side[p] = 1 => Searched(p, f) >= 0
         /\ side[p] = -1 => Searched(p, f) <= 0
<1>1. side[p] \in {-1, 1} /\ dist[<<p, f>>] \in Nat
  BY DEF TypeOK
<1>2. CASE side[p] = 1
  BY <1>1, <1>2 DEF Searched
<1>3. CASE side[p] = -1
  BY <1>1, <1>3 DEF Searched
<1> QED BY <1>1, <1>2, <1>3

LEMMA InitInv == Init => IInv
<1> SUFFICES ASSUME Init PROVE IInv
  OBVIOUS
<1>1. dist \in [Points \X Feet -> Nat \ {0}] /\ side \in [Points -> {-1, 1}] /\ foot \in [Points -> Feet]
  BY CorrectionAssumption DEF Init
<1>2. \A p \in Points : /\ val[p] \in Int
                        /\ side[p] = 1 => val[p] >= 0
                        /\ side[p] = -1 => val[p] <= 0
  <2> SUFFICES ASSUME NEW p \in Points
               PROVE  val[p] \in Int /\ (side[p] = 1 => val[p] >= 0) /\ (side[p] = -1 => val[p] <= 0)
    OBVIOUS
  <2>1. dist[<<p, foot[p]>>] \in Nat /\ side[p] \in {-1, 1} /\ val[p] = side[p] * dist[<<p, foot[p]>>]
    BY <1>1 DEF Init
  <2>2. CASE side[p] = 1 BY <2>1, <2>2
  <2>3. CASE side[p] = -1 BY <2>1, <2>3
  <2> QED BY <2>1, <2>2, <2>3
<1>3. val \in [Points -> Int] /\ start = val
  BY <1>2 DEF Init
<1>4. Frame(New) \in FrameType
  BY CorrectionAssumption DEF Frame, FrameType
<1>5. TypeOK
  BY <1>1, <1>3, <1>4 DEF TypeOK, Init
<1>6. Changed = {}
  BY <1>3 DEF Changed
<1>7. L!Connected(Changed \ {New})
  BY <1>6 DEF L!Connected
<1>8. FootOfValue /\ Shrunk /\ OnSide
  BY <1>2, <1>3 DEF FootOfValue, Shrunk, OnSide, Init
<1>9. Kept
  BY <1>6 DEF Kept, Init, Frame
<1>10. Reached /\ LineOfTop /\ AtEnd
  BY <1>7 DEF Reached, LineOfTop, AtEnd, Init, Frame
<1> QED BY <1>5, <1>8, <1>9, <1>10 DEF IInv

(* What the actions that leave the values alone keep. *)
LEMMA SameValues ==
  ASSUME IInv, UNCHANGED <<sheet, val, foot>>
  PROVE  /\ FootOfValue' /\ Shrunk' /\ OnSide' /\ Changed' = Changed
         /\ L!Connected(Changed \ {New})'
BY DEF IInv, sheet, FootOfValue, Shrunk, OnSide, Changed, Reached, L!Connected

(* What is put in place of the last frame. *)
LEMMA PutType ==
  ASSUME stack \in Seq(FrameType), stack # << >>, NEW fr \in FrameType
  PROVE  /\ Put(fr) \in Seq(FrameType) /\ Put(fr) # << >> /\ Len(Put(fr)) = Len(stack)
         /\ Put(fr)[Len(stack)] = fr
         /\ \A k \in 1 .. Len(stack) : k # Len(stack) => Put(fr)[k] = stack[k]
BY DEF Put

LEMMA AppendType ==
  ASSUME NEW s \in Seq(FrameType), NEW fr \in FrameType
  PROVE  /\ Append(s, fr) \in Seq(FrameType) /\ Append(s, fr) # << >>
         /\ Len(Append(s, fr)) = Len(s) + 1 /\ Append(s, fr)[Len(s) + 1] = fr
         /\ \A k \in 1 .. Len(s) : Append(s, fr)[k] = s[k]
OBVIOUS

LEMMA SequenceOf ==
  ASSUME NEW S, NEW m \in Nat \ {0}, NEW s \in [1 .. m -> S]
  PROVE  s \in Seq(S) /\ Len(s) = m /\ s # << >>
OBVIOUS

(* The frames the actions make. *)
LEMMA FrameTypes ==
  ASSUME NEW fr \in FrameType
  PROVE  /\ fr.pt \in Points /\ fr.ix \in 0 .. NAxes
         /\ fr.kids \subseteq Points /\ fr.fresh \subseteq Points
BY DEF FrameType

LEMMA NextAxisType ==
  ASSUME NEW fr \in FrameType, fr.ix < NAxes, NEW nx, nx = [fr EXCEPT !.ix = @ + 1]
  PROVE  nx \in FrameType /\ nx.pt = fr.pt /\ nx.kids = fr.kids /\ nx.fresh = fr.fresh
BY CorrectionAssumption DEF FrameType

LEMMA LineDoneType ==
  ASSUME NEW fr \in FrameType, fr.ix < NAxes, NEW R \in SUBSET Points, NEW nx,
         nx = [pt |-> fr.pt, ix |-> fr.ix + 1, kids |-> R \ {fr.pt}, fresh |-> fr.fresh \cup R]
  PROVE  /\ nx \in FrameType /\ nx.pt = fr.pt
         /\ nx.kids = R \ {fr.pt} /\ nx.fresh = fr.fresh \cup R
<1>1. /\ fr.pt \in Points /\ fr.ix + 1 \in 0 .. NAxes
      /\ fr.fresh \cup R \subseteq Points /\ R \ {fr.pt} \subseteq Points
  BY FrameTypes, CorrectionAssumption
<1> QED BY <1>1 DEF FrameType

LEMMA KidLessType ==
  ASSUME NEW fr \in FrameType, NEW q, NEW nx, nx = [fr EXCEPT !.kids = @ \ {q}]
  PROVE  nx \in FrameType /\ nx.pt = fr.pt /\ nx.kids = fr.kids \ {q} /\ nx.fresh = fr.fresh
BY DEF FrameType

LEMMA MergeType ==
  ASSUME NEW fr \in FrameType, NEW sub \in FrameType, NEW nx, nx = Merge(fr, sub)
  PROVE  /\ nx \in FrameType /\ nx.pt = fr.pt /\ nx.kids = fr.kids
         /\ nx.fresh = fr.fresh \cup sub.fresh
BY DEF FrameType, Merge

LEMMA NewFrameType ==
  ASSUME NEW q \in Points, NEW fr, fr = Frame(q)
  PROVE  fr \in FrameType /\ fr.pt = q /\ fr.kids = {} /\ fr.fresh = {}
BY CorrectionAssumption DEF FrameType, Frame

LEMMA TopType ==
  ASSUME TypeOK
  PROVE  /\ Len(stack) \in Nat \ {0} /\ Top = stack[Len(stack)] /\ Top \in FrameType
         /\ \A k \in 1 .. Len(stack) : stack[k] \in FrameType
BY DEF TypeOK, Top

(* What the walk's own actions, which leave the values alone, keep. *)
LEMMA NextLineInv == IInv /\ NextLine => IInv'
<1> SUFFICES ASSUME IInv, NextLine PROVE IInv'
  OBVIOUS
<1>1. UNCHANGED <<sheet, val, foot>> /\ pc = "frames" /\ Top.kids = {} /\ Top.ix < NAxes
  BY DEF NextLine
<1>2. TypeOK /\ Kept /\ Reached
  BY DEF IInv
<1>3. Top \in FrameType /\ Top.pt \in Points /\ Top.ix \in Axes
  BY <1>1, <1>2, TopType, FrameTypes, CorrectionAssumption DEF Axes
<1> DEFINE ps == LineOf(Top.pt, Top.ix)
<1>4. CASE Suspect(ps)
  <2>1. /\ pc' = "line" /\ line' = ps /\ i' = 1 /\ res' = {} /\ stack' = stack
        /\ avg2' = Size(val[AbsMin(ps)] + val[AbsMax(ps)])
    BY <1>4 DEF NextLine
  <2>2. val[AbsMin(ps)] \in Int /\ val[AbsMax(ps)] \in Int
    BY <1>2, <1>3, Extremes DEF TypeOK
  <2>3. avg2' \in Nat
    <3> DEFINE x == val[AbsMin(ps)]
               y == val[AbsMax(ps)]
    <3>1. x + y \in Int
      BY <2>2
    <3> QED BY <2>1, <3>1, SizeType
  <2>4. ps \in Seq(Points) /\ \A k \in 1 .. Len(ps) : ps[k] = Top.pt \/ Linked(ps[k], Top.pt)
    BY <1>3, LineOfType
  <2> HIDE DEF ps
  <2>5. TypeOK'
    BY <1>1, <1>2, <2>1, <2>3, <2>4 DEF TypeOK, sheet
  <2>6. LineOfTop'
    BY <1>1, <2>1, <2>4 DEF LineOfTop, Top, Linked
  <2>7. Kept' /\ Reached' /\ AtEnd'
    BY <1>1, <1>2, <2>1, SameValues DEF Kept, Reached, AtEnd
  <2> QED BY <1>1, <2>5, <2>6, <2>7, SameValues DEF IInv
<1>5. CASE ~Suspect(ps)
  <2>1. PICK nx : nx = [Top EXCEPT !.ix = @ + 1]
    OBVIOUS
  <2>2. stack' = Put(nx) /\ UNCHANGED <<pc, lineVars>>
    BY <1>5, <2>1 DEF NextLine
  <2>3. nx \in FrameType /\ nx.pt = Top.pt /\ nx.kids = Top.kids /\ nx.fresh = Top.fresh
    BY <1>1, <1>3, <2>1, NextAxisType
  <2>4. /\ stack' \in Seq(FrameType) /\ stack' # << >> /\ Len(stack') = Len(stack)
        /\ stack'[Len(stack)] = nx
        /\ \A k \in 1 .. Len(stack) : k # Len(stack) => stack'[k] = stack[k]
    BY <1>2, <2>2, <2>3, PutType DEF TypeOK
  <2>5. \A k \in 1 .. Len(stack) : /\ stack'[k].pt = stack[k].pt /\ stack'[k].kids = stack[k].kids
                                   /\ stack'[k].fresh = stack[k].fresh
    BY <2>3, <2>4 DEF Top
  <2>6. TypeOK'
    BY <1>1, <1>2, <2>2, <2>4 DEF TypeOK, sheet, lineVars
  <2>7. Kept' /\ Reached'
    BY <1>1, <1>2, <2>2, <2>4, <2>5, SameValues DEF Kept, Reached
  <2>8. LineOfTop' /\ AtEnd'
    BY <1>1, <2>2 DEF LineOfTop, AtEnd, lineVars
  <2> QED BY <1>1, <2>6, <2>7, <2>8, SameValues DEF IInv
<1> QED BY <1>4, <1>5

LEMMA EndLineInv == IInv /\ EndLine => IInv'
<1> SUFFICES ASSUME IInv, EndLine PROVE IInv'
  OBVIOUS
<1>1. pc = "line" /\ pc' = "frames" /\ UNCHANGED <<sheet, val, foot, lineVars>>
  BY DEF EndLine
<1>2. TypeOK /\ Kept /\ Reached
  BY DEF IInv
<1>3. Top \in FrameType /\ Top.ix < NAxes /\ res \subseteq Changed /\ res \in SUBSET Points
  BY <1>1, <1>2, TopType DEF IInv, LineOfTop, Kept, TypeOK
<1>4. PICK nx : nx = [Top EXCEPT !.ix = @ + 1, !.fresh = @ \cup res, !.kids = res \ {Top.pt}]
  OBVIOUS
<1>5. stack' = Put(nx)
  BY <1>4 DEF EndLine
<1>6. nx \in FrameType /\ nx.pt = Top.pt /\ nx.kids = res \ {Top.pt} /\ nx.fresh = Top.fresh \cup res
  <2>1. PICK fr : fr = Top
    OBVIOUS
  <2>2. nx = [pt |-> fr.pt, ix |-> fr.ix + 1, kids |-> res \ {fr.pt}, fresh |-> fr.fresh \cup res]
    BY <1>3, <1>4, <2>1 DEF FrameType
  <2>3. fr \in FrameType /\ fr.ix < NAxes /\ res \in SUBSET Points
    BY <1>3, <2>1
  <2>4. /\ nx \in FrameType /\ nx.pt = fr.pt
        /\ nx.kids = res \ {fr.pt} /\ nx.fresh = fr.fresh \cup res
    BY <2>2, <2>3, LineDoneType
  <2> QED BY <2>1, <2>4
<1>7. /\ stack' \in Seq(FrameType) /\ stack' # << >> /\ Len(stack') = Len(stack)
      /\ stack'[Len(stack)] = nx
      /\ \A k \in 1 .. Len(stack) : k # Len(stack) => stack'[k] = stack[k]
  BY <1>2, <1>5, <1>6, PutType DEF TypeOK
<1>8. \A k \in 1 .. Len(stack) :
        /\ stack'[k].pt = stack[k].pt
        /\ stack'[k].kids \subseteq stack[k].kids \cup res
        /\ stack[k].fresh \subseteq stack'[k].fresh /\ stack'[k].fresh \subseteq stack[k].fresh \cup res
  BY <1>6, <1>7 DEF Top
<1>9. TypeOK'
  BY <1>1, <1>2, <1>7 DEF TypeOK, sheet, lineVars
<1>10. Kept'
  <2>1. \A k \in 1 .. Len(stack) : stack'[k].fresh \subseteq Changed /\ stack'[k].kids \subseteq Changed
    BY <1>2, <1>3, <1>8 DEF Kept
  <2>2. \A p \in Changed : \E k \in 1 .. Len(stack) : p \in stack'[k].fresh
    <3> SUFFICES ASSUME NEW p \in Changed PROVE \E k \in 1 .. Len(stack) : p \in stack'[k].fresh
      OBVIOUS
    <3>1. CASE p \in res
      BY <1>2, <1>6, <1>7, <3>1, TopType
    <3>2. CASE p \notin res
      BY <1>2, <1>8, <3>2 DEF Kept
    <3> QED BY <3>1, <3>2
  <2> QED BY <1>1, <1>7, <2>1, <2>2, SameValues DEF Kept
<1>11. Reached' /\ LineOfTop' /\ AtEnd'
  BY <1>1, <1>2, <1>7, <1>8, SameValues DEF Reached, LineOfTop, AtEnd
<1> QED BY <1>1, <1>9, <1>10, <1>11, SameValues DEF IInv

LEMMA RecurseInv == IInv /\ Recurse => IInv'
<1> SUFFICES ASSUME IInv, Recurse PROVE IInv'
  OBVIOUS
<1>1. pc = "frames" /\ UNCHANGED <<sheet, val, foot, pc, lineVars>>
  BY DEF Recurse
<1>2. TypeOK /\ Kept /\ Reached
  BY DEF IInv
<1>3. PICK q \in Top.kids : stack' = Append(Put([Top EXCEPT !.kids = @ \ {q}]), Frame(q))
  BY DEF Recurse
<1>4. PICK nx : nx = [Top EXCEPT !.kids = @ \ {q}]
  OBVIOUS
<1>5. PICK sub : sub = Frame(q)
  OBVIOUS
<1>6. PICK mid : mid = Put(nx)
  OBVIOUS
<1>7. Top \in FrameType /\ q \in Points /\ q \in Changed
  BY <1>2, <1>3, TopType, FrameTypes DEF Kept
<1>8. nx \in FrameType /\ nx.pt = Top.pt /\ nx.kids = Top.kids \ {q} /\ nx.fresh = Top.fresh
  BY <1>4, <1>7, KidLessType
<1>9. sub \in FrameType /\ sub.pt = q /\ sub.kids = {} /\ sub.fresh = {}
  BY <1>5, <1>7, NewFrameType
<1>10. /\ mid \in Seq(FrameType) /\ Len(mid) = Len(stack) /\ mid[Len(stack)] = nx
       /\ \A k \in 1 .. Len(stack) : k # Len(stack) => mid[k] = stack[k]
  BY <1>2, <1>6, <1>8, PutType DEF TypeOK
<1>11. /\ stack' \in Seq(FrameType) /\ stack' # << >> /\ Len(stack') = Len(stack) + 1
       /\ stack'[Len(stack) + 1] = sub /\ \A k \in 1 .. Len(stack) : stack'[k] = mid[k]
  <2>1. stack' = Append(mid, sub)
    BY <1>3, <1>4, <1>5, <1>6
  <2>2. /\ Append(mid, sub) \in Seq(FrameType) /\ Append(mid, sub) # << >>
        /\ Len(Append(mid, sub)) = Len(mid) + 1 /\ Append(mid, sub)[Len(mid) + 1] = sub
        /\ \A k \in 1 .. Len(mid) : Append(mid, sub)[k] = mid[k]
    BY <1>9, <1>10, AppendType
  <2> QED BY <1>10, <2>1, <2>2
<1>12. \A k \in 1 .. Len(stack) : /\ stack'[k].pt = stack[k].pt /\ stack'[k].fresh = stack[k].fresh
                                  /\ stack'[k].kids \subseteq stack[k].kids
  BY <1>8, <1>10, <1>11 DEF Top
<1>13. Len(stack) \in Nat /\ \A k \in 1 .. Len(stack) + 1 : k = Len(stack) + 1 \/ k \in 1 .. Len(stack)
  BY <1>2, TopType
<1>14. TypeOK'
  BY <1>1, <1>2, <1>11 DEF TypeOK, sheet, lineVars
<1>15. \A k \in 1 .. Len(stack) + 1 : /\ stack'[k].fresh \subseteq Changed /\ stack'[k].kids \subseteq Changed
                                      /\ stack'[k].pt \in Changed \cup {New}
  <2> SUFFICES ASSUME NEW k \in 1 .. Len(stack) + 1
               PROVE  /\ stack'[k].fresh \subseteq Changed /\ stack'[k].kids \subseteq Changed
                      /\ stack'[k].pt \in Changed \cup {New}
    OBVIOUS
  <2>1. CASE k = Len(stack) + 1
    BY <1>7, <1>9, <1>11, <2>1
  <2>2. CASE k \in 1 .. Len(stack)
    BY <1>2, <1>12, <2>2 DEF Kept, Reached
  <2> QED BY <1>13, <2>1, <2>2
<1>16. \A r \in Changed : \E k \in 1 .. Len(stack) + 1 : r \in stack'[k].fresh
  <2> SUFFICES ASSUME NEW r \in Changed PROVE \E k \in 1 .. Len(stack) + 1 : r \in stack'[k].fresh
    OBVIOUS
  <2>1. PICK k \in 1 .. Len(stack) : r \in stack[k].fresh
    BY <1>1, <1>2 DEF Kept
  <2> QED BY <1>12, <1>13, <2>1
<1>17. Kept' /\ Reached'
  BY <1>1, <1>11, <1>15, <1>16, SameValues DEF Kept, Reached
<1> QED BY <1>1, <1>14, <1>17, SameValues DEF IInv, LineOfTop, AtEnd

LEMMA ReturnInv == IInv /\ Return => IInv'
<1> SUFFICES ASSUME IInv, Return PROVE IInv'
  OBVIOUS
<1>1. pc = "frames" /\ Top.kids = {} /\ UNCHANGED <<sheet, val, foot, lineVars>>
  BY DEF Return
<1>2. TypeOK /\ Kept /\ Reached
  BY DEF IInv
<1>3. CASE Len(stack) = 1
  <2>1. pc' = "done" /\ stack' = stack
    BY <1>3 DEF Return
  <2>2. TypeOK'
    BY <1>1, <1>2, <2>1 DEF TypeOK, sheet, lineVars
  <2>3. Kept' /\ Reached'
    BY <1>1, <1>2, <2>1, SameValues DEF Kept, Reached
  <2>4. LineOfTop' /\ AtEnd'
    BY <1>1, <1>3, <2>1 DEF LineOfTop, AtEnd, Top
  <2> QED BY <1>1, <2>2, <2>3, <2>4, SameValues DEF IInv
<1>4. CASE Len(stack) # 1
  <2>1. PICK m : m = Len(stack) - 1
    OBVIOUS
  <2>2. PICK nx : nx = Merge(stack[m], Top)
    OBVIOUS
  <2>3. m \in Nat \ {0} /\ Len(stack) = m + 1 /\ m \in 1 .. Len(stack)
    BY <1>2, <1>4, <2>1, TopType
  <2>4. stack[m] \in FrameType /\ Top \in FrameType /\ Top = stack[m + 1]
    BY <1>2, <2>3, TopType
  <2>5. /\ nx \in FrameType /\ nx.pt = stack[m].pt /\ nx.kids = stack[m].kids
        /\ nx.fresh = stack[m].fresh \cup Top.fresh
    BY <2>2, <2>4, MergeType
  <2>6. stack' = [k \in 1 .. m |-> IF k < m THEN stack[k] ELSE Merge(stack[k], Top)] /\ pc' = pc
    BY <1>4, <2>1 DEF Return
  <2>7. stack' = [k \in 1 .. m |-> IF k < m THEN stack[k] ELSE nx]
    <3>1. \A k \in 1 .. m : k < m \/ k = m
      BY <2>3
    <3> QED BY <2>2, <2>6, <3>1
  <2>8. stack' \in [1 .. m -> FrameType]
    BY <1>2, <2>3, <2>5, <2>7, TopType
  <2>9. stack' \in Seq(FrameType) /\ Len(stack') = m /\ stack' # << >>
    BY <2>3, <2>8, SequenceOf
  <2>10. stack'[m] = nx /\ \A k \in 1 .. m : k # m => stack'[k] = stack[k]
    BY <2>3, <2>7
  <2>11. TypeOK'
    BY <1>1, <1>2, <2>6, <2>9 DEF TypeOK, sheet, lineVars
  <2>12. \A k \in 1 .. m : k \in 1 .. Len(stack)
    BY <2>3
  <2>13. m + 1 \in 1 .. Len(stack) /\ \A k \in 1 .. Len(stack) : k = m + 1 \/ k \in 1 .. m
    BY <2>3
  <2>14. \A k \in 1 .. m : /\ stack'[k].fresh \subseteq Changed /\ stack'[k].kids \subseteq Changed
                           /\ stack'[k].pt \in Changed \cup {New}
    <3> SUFFICES ASSUME NEW k \in 1 .. m
                 PROVE  /\ stack'[k].fresh \subseteq Changed /\ stack'[k].kids \subseteq Changed
                        /\ stack'[k].pt \in Changed \cup {New}
      OBVIOUS
    <3>1. /\ stack[k].fresh \subseteq Changed /\ stack[k].kids \subseteq Changed
          /\ stack[k].pt \in Changed \cup {New} /\ Top.fresh \subseteq Changed
      BY <1>2, <2>4, <2>12, <2>13 DEF Kept, Reached
    <3> QED BY <2>5, <2>10, <3>1
  <2>15. \A r \in Changed : \E k \in 1 .. m : r \in stack'[k].fresh
    <3> SUFFICES ASSUME NEW r \in Changed PROVE \E k \in 1 .. m : r \in stack'[k].fresh
      OBVIOUS
    <3>1. PICK k \in 1 .. Len(stack) : r \in stack[k].fresh
      BY <1>1, <1>2 DEF Kept
    <3>2. CASE k = m + 1 \/ k = m
      <4>1. r \in nx.fresh
        BY <2>4, <2>5, <3>1, <3>2
      <4>2. m \in 1 .. m
        BY <2>3
      <4> QED BY <2>10, <4>1, <4>2
    <3>3. CASE k \in 1 .. m /\ k # m
      BY <2>10, <3>1, <3>3
    <3> QED BY <2>13, <3>2, <3>3
  <2>16. Kept' /\ Reached'
    BY <1>1, <2>6, <2>9, <2>14, <2>15, SameValues DEF Kept, Reached
  <2>17. LineOfTop' /\ AtEnd'
    BY <1>1, <2>6 DEF LineOfTop, AtEnd
  <2> QED BY <1>1, <2>11, <2>16, <2>17, SameValues DEF IInv
<1> QED BY <1>3, <1>4

(* A point searched again joins what changed. *)
LEMMA SearchInv == IInv /\ Search => IInv'
<1> SUFFICES ASSUME IInv, Search PROVE IInv'
  OBVIOUS
<1>1. TypeOK /\ Kept /\ Reached
  BY DEF IInv
<1>2. /\ pc = "line" /\ i \in 1 .. Len(line) /\ i' = i + 1
      /\ UNCHANGED <<sheet, stack, pc, line, avg2>>
  BY <1>1 DEF Search, TypeOK
<1>3. PICK p : p = line[i]
  OBVIOUS
<1>4. p \in Points /\ (p = Top.pt \/ Linked(p, Top.pt))
  <2>1. line[i] \in Points
    BY <1>1, <1>2 DEF TypeOK
  <2>2. line[i] = Top.pt \/ Linked(line[i], Top.pt)
    BY <1>2 DEF IInv, LineOfTop
  <2> QED BY <1>3, <2>1, <2>2
<1>5. LineOfTop' /\ AtEnd' /\ i' \in Nat \ {0}
  <2>1. Top' = Top
    BY <1>2 DEF Top
  <2>2. \A q, r : Linked(q, r)' = Linked(q, r)
    BY DEF Linked
  <2>3. LineOfTop'
    BY <1>2, <2>1, <2>2 DEF IInv, LineOfTop
  <2>4. AtEnd'
    BY <1>2 DEF AtEnd
  <2> QED BY <1>1, <1>2, <2>3, <2>4 DEF TypeOK
<1>6. CASE UNCHANGED <<val, foot, res>>
  <2>1. TypeOK'
    BY <1>1, <1>2, <1>5, <1>6 DEF TypeOK, sheet
  <2>2. Kept' /\ Reached'
    BY <1>1, <1>2, <1>6, SameValues DEF Kept, Reached
  <2> QED BY <1>2, <1>5, <1>6, <2>1, <2>2, SameValues DEF IInv
<1>7. CASE ~UNCHANGED <<val, foot, res>>
  <2>1. PICK f \in Feet : /\ Closer(p, f)
                          /\ val' = [val EXCEPT ![p] = Searched(p, f)]
                          /\ foot' = Store(p, f) /\ res' = res \cup {p}
    BY <1>3, <1>7 DEF Search
  <2>2. PICK v : v = Searched(p, f)
    OBVIOUS
  <2>3. v \in Int /\ (side[p] = 1 => v >= 0) /\ (side[p] = -1 => v <= 0)
    BY <1>1, <1>4, <2>2, SearchedType
  <2>4. val[p] \in Int /\ start[p] \in Int
    BY <1>1, <1>4 DEF TypeOK
  <2>5. Size(v) \in Nat /\ Size(val[p]) \in Nat /\ Size(start[p]) \in Nat
    BY <2>3, <2>4, SizeType
  <2>6. Size(v) < Size(val[p])
    BY <2>1, <2>2, <2>5, CorrectionAssumption DEF Closer
  <2>7. Size(val[p]) <= Size(start[p])
    BY <1>4, <2>5 DEF IInv, Shrunk
  <2>8. Size(v) < Size(start[p])
    BY <2>5, <2>6, <2>7
  <2>9. v # start[p]
    BY <2>5, <2>8
  <2>10. /\ val' \in [Points -> Int] /\ val'[p] = v
         /\ \A q \in Points : q # p => val'[q] = val[q]
    BY <1>1, <1>4, <2>1, <2>2, <2>3 DEF TypeOK
  <2>11. /\ foot' \in [Points -> Feet] /\ foot'[p] = f
         /\ \A q \in Points : q # p => foot'[q] = foot[q]
    BY <1>1, <1>4, <2>1 DEF TypeOK, Store
  <2>12. Changed' = Changed \cup {p}
    BY <1>2, <1>4, <2>9, <2>10 DEF Changed, sheet
  <2>13. TypeOK'
    BY <1>1, <1>2, <1>4, <1>5, <2>1, <2>10, <2>11 DEF TypeOK, sheet
  <2>14. FootOfValue'
    <3> SUFFICES ASSUME NEW q \in Points PROVE val'[q] = side[q] * dist[<<q, foot'[q]>>]
      BY <1>2 DEF FootOfValue, sheet
    <3>1. CASE q = p
      BY <2>2, <2>10, <2>11, <3>1 DEF Searched
    <3>2. CASE q # p
      BY <2>10, <2>11, <3>2 DEF IInv, FootOfValue
    <3> QED BY <3>1, <3>2
  <2>15. Shrunk' /\ OnSide'
    <3>1. side' = side /\ start' = start
      BY <1>2 DEF sheet
    <3>2. Shrunk'
      BY <2>8, <2>10, <3>1 DEF IInv, Shrunk, Size
    <3> QED BY <3>1, <3>2 DEF IInv, OnSide
  <2>16. Kept'
    BY <1>1, <1>2, <2>1, <2>12 DEF Kept
  <2>17. L!Connected(Changed' \ {New})
    <3>1. Top.pt \in Changed \cup {New}
      BY <1>1, TopType DEF Reached
    <3>2. CASE p = New \/ p \in Changed \/ p = Top.pt
      <4>1. Changed' \ {New} = Changed \ {New}
        BY <2>12, <3>1, <3>2
      <4> QED BY <1>1, <4>1 DEF Reached
    <3>3. CASE p # New /\ Linked(p, Top.pt)
      <4>1. L!Connected((Changed \ {New}) \cup {p})
        BY <1>1, <3>1, <3>3, Joins DEF Reached
      <4>2. Changed' \ {New} = (Changed \ {New}) \cup {p}
        BY <2>12, <3>3
      <4> QED BY <4>1, <4>2
    <3> QED BY <1>4, <3>2, <3>3
  <2>18. Reached'
    <3>1. L!Connected(Changed \ {New})'
      BY <2>17 DEF L!Connected
    <3>2. \A k \in 1 .. Len(stack) : stack[k].pt \in Changed' \cup {New}
      BY <1>1, <2>12 DEF Reached
    <3> QED BY <1>2, <3>1, <3>2 DEF Reached
  <2> QED BY <1>5, <2>13, <2>14, <2>15, <2>16, <2>18 DEF IInv
<1> QED BY <1>6, <1>7

LEMMA StepInv == IInv /\ [Next]_vars => IInv'
<1> SUFFICES ASSUME IInv, [Next]_vars PROVE IInv'
  OBVIOUS
<1>1. CASE Done \/ UNCHANGED vars
  <2>1. UNCHANGED <<sheet, val, foot, stack, pc, lineVars>>
    BY <1>1 DEF Done, vars
  <2>2. TypeOK'
    BY <2>1 DEF IInv, TypeOK, sheet, lineVars
  <2>3. Kept' /\ Reached'
    BY <2>1, SameValues DEF IInv, Kept, Reached, lineVars
  <2>4. LineOfTop' /\ AtEnd'
    BY <2>1 DEF IInv, LineOfTop, AtEnd, Top, Linked, lineVars
  <2> QED BY <2>1, <2>2, <2>3, <2>4, SameValues DEF IInv
<1> QED BY <1>1, NextLineInv, SearchInv, EndLineInv, RecurseInv, ReturnInv DEF Next

LEMMA Invariance == Spec => []IInv
BY InitInv, StepInv, PTL DEF Spec
-----------------------------------------------------------------------------
(* The types of the walk's state, as the run checks them. *)
THEOREM TypeCorrect == Spec => []TypeOK
<1>1. IInv => TypeOK
  BY DEF IInv
<1> QED BY <1>1, Invariance, PTL

(* hcs_interp.cc:386: the foot stored for a point is the foot of its value,  *)
(* whatever lines the walk corrects and wherever the searches end.           *)
THEOREM FootStored == Spec => []FootOfValue
<1>1. IInv => FootOfValue
  BY DEF IInv
<1> QED BY <1>1, Invariance, PTL

LEMMA InitLowering == Init => L!Init
BY CorrectionAssumption, InitInv DEF L!Init, Init, IInv, TypeOK

(* The last return is the one step of the abstract correction. *)
LEMMA ReturnLowers ==
  ASSUME IInv, Return, pc' = "done" PROVE L!Lower
<1>1. /\ pc = "frames" /\ Len(stack) = 1 /\ stack' = stack
      /\ Top' = Top /\ val' = val /\ start' = start
  <2>1. pc = "frames" /\ Len(stack) = 1 /\ stack' = stack
    BY DEF Return
  <2> QED BY <2>1 DEF Return, sheet, Top
<1>2. Top.fresh = Changed
  <2>1. Top = stack[1] /\ Kept /\ pc # "line" /\ \A k \in 1 .. Len(stack) : k = 1
    BY <1>1 DEF IInv, Top
  <2>2. stack[1].fresh \subseteq Changed
    BY <1>1, <2>1 DEF Kept
  <2>3. Changed \subseteq stack[1].fresh
    BY <2>1 DEF Kept
  <2> QED BY <2>1, <2>2, <2>3
<1>3. L!Connected(Changed \ {New})
  BY DEF IInv, Reached
<1>4. Changed \subseteq Points
  BY DEF Changed
<1>5. \A p \in Points : IF p \in Changed THEN L!Size(val[p]) < L!Size(start[p]) /\ start[p] * val[p] >= 0
                        ELSE val[p] = start[p]
  <2> SUFFICES ASSUME NEW p \in Changed
               PROVE  L!Size(val[p]) < L!Size(start[p]) /\ start[p] * val[p] >= 0
    BY DEF Changed
  <2>1. p \in Points /\ val[p] # start[p] /\ TypeOK
    BY DEF Changed, IInv
  <2>2. L!Size(val[p]) < L!Size(start[p])
    BY <2>1 DEF IInv, Shrunk, Size, L!Size
  <2>3. val[p] \in Int /\ start[p] \in Int /\ foot[p] \in Feet /\ side[p] \in {-1, 1}
    BY <2>1 DEF TypeOK
  <2>4. val[p] = Searched(p, foot[p])
    BY <2>1 DEF IInv, FootOfValue, Searched
  <2>5. (side[p] = 1 => val[p] >= 0) /\ (side[p] = -1 => val[p] <= 0)
    BY <2>1, <2>3, <2>4, SearchedType
  <2>6. (side[p] = 1 => start[p] >= 0) /\ (side[p] = -1 => start[p] <= 0)
    BY <2>1 DEF IInv, OnSide
  <2>7. start[p] * val[p] >= 0
    BY <2>3, <2>5, <2>6, ProductSign
  <2> QED BY <2>2, <2>7
<1> QED BY <1>1, <1>2, <1>3, <1>4, <1>5 DEF L!Lower

LEMMA StepLowering ==
  IInv /\ [Next]_vars => [L!Lower]_<<IF pc = "done" THEN val ELSE start,
                                      IF pc = "done" THEN Top.fresh ELSE {}, pc = "done">>
<1> SUFFICES ASSUME IInv, [Next]_vars
             PROVE  [L!Lower]_<<IF pc = "done" THEN val ELSE start,
                                IF pc = "done" THEN Top.fresh ELSE {}, pc = "done">>
  OBVIOUS
<1>1. CASE pc = "done"
  <2>1. UNCHANGED <<val, start, stack, pc>>
    BY <1>1 DEF Next, NextLine, Search, EndLine, Recurse, Return, Done, vars, sheet
  <2> QED BY <2>1 DEF Top
<1>2. CASE pc # "done" /\ pc' # "done"
  <2>1. start' = start
    BY DEF Next, NextLine, Search, EndLine, Recurse, Return, Done, vars, sheet
  <2> QED BY <1>2, <2>1
<1>3. CASE pc # "done" /\ pc' = "done"
  <2>1. Return
    BY <1>3 DEF Next, NextLine, Search, EndLine, Recurse, Done, vars
  <2> QED BY <1>3, <2>1, ReturnLowers
<1> QED BY <1>1, <1>2, <1>3

(* KDInterp.cc:87: the depth-first walk, its returns and its merged sets of  *)
(* fresh points are one step that only brings closer points linked to the    *)
(* new one, and that returns exactly those.                                  *)
THEOREM Implements == Spec => ImplementsLowering
BY InitLowering, StepLowering, Invariance, PTL DEF Spec, ImplementsLowering, L!Spec
=============================================================================
