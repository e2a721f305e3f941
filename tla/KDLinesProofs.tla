----------------------------- MODULE KDLinesProofs -----------------------------
(***************************************************************************)
(* Proofs about KDLines, for every dimension, tolerance, function and      *)
(* correction: a query is answered by the block that holds it, and the     *)
(* pointers of the points lead along their lines to the nearest point.     *)
(***************************************************************************)
EXTENDS KDLines, KDInterpProofs

(* The depth of a block: its halvings along all the axes. *)
LEMMA DepthIsHalvings ==
  ASSUME NEW p \in Path, NEW K \in Nat, \A ix \in Axes : Halvings(p, ix) <= K
  PROVE  Len(p) <= Dim * K
<1>1. PICK n, d : n = Len(p) /\ d = Dim OBVIOUS
<1>2. n \in Nat /\ d \in Nat /\ p \in Seq(Axes \X {0, 1}) BY <1>1, ConstantsAssumption DEF Path
<1> DEFINE U(k) == {i \in 1 .. n : p[i][1] < k}
           A == {k \in Nat : k <= d => IsFiniteSet(U(k)) /\ Cardinality(U(k)) <= k * K}
<1>3. \A i \in 1 .. n : p[i][1] \in 0 .. d - 1 BY <1>1, <1>2 DEF Axes
<1>10. U(0) = {} BY <1>3
<1>7. U(d) = 1 .. n
  <2>1. \A i \in 1 .. n : p[i][1] < d BY <1>2, <1>3
  <2> QED BY <2>1
<1>11. ASSUME NEW k \in Nat, NEW t, t = {i \in 1 .. n : p[i][1] = k}
       PROVE  U(k + 1) = U(k) \cup t /\ U(k) \cap t = {}
  <2>1. \A i \in 1 .. n : p[i][1] < k + 1 <=> p[i][1] < k \/ p[i][1] = k BY <1>2, <1>3
  <2>2. \A i \in 1 .. n : ~(p[i][1] < k /\ p[i][1] = k) BY <1>2, <1>3
  <2> QED BY <2>1, <2>2, <1>11
<1> HIDE DEF U
<1>4. 0 \in A
  <2>2. IsFiniteSet(U(0)) /\ Cardinality(U(0)) = 0 BY <1>10, FS_EmptySet
  <2>3. 0 * K = 0 OBVIOUS
  <2> QED BY <2>2, <2>3
<1>5. ASSUME NEW k \in Nat, k \in A PROVE k + 1 \in A
  <2> SUFFICES ASSUME k + 1 <= d
               PROVE  IsFiniteSet(U(k + 1)) /\ Cardinality(U(k + 1)) <= (k + 1) * K
    OBVIOUS
  <2>1. k \in Axes /\ k <= d BY <1>1, <1>2 DEF Axes
  <2>2. PICK s, t : s = U(k) /\ t = {i \in 1 .. n : p[i][1] = k} OBVIOUS
  <2>3. IsFiniteSet(t) /\ Cardinality(t) = Halvings(p, k)
    BY <1>1, <2>1, <2>2, HalvingsFacts DEF Halvings
  <2>4. IsFiniteSet(s) /\ Cardinality(s) <= k * K BY <1>5, <2>1, <2>2
  <2>5. U(k + 1) = s \cup t /\ s \cap t = {} BY <1>11, <2>2
  <2>6. IsFiniteSet(s \cap t) /\ Cardinality(s \cap t) = 0 BY <2>5, FS_EmptySet
  <2>7. IsFiniteSet(s \cup t) /\ Cardinality(s \cup t) = Cardinality(s) + Cardinality(t) - 0
    BY <2>3, <2>4, <2>6, FS_Union
  <2>8. Cardinality(s) \in Nat /\ Cardinality(t) \in Nat /\ Cardinality(t) <= K
    BY <2>1, <2>3, <2>4, FS_CardinalityType
  <2>9. (k + 1) * K = k * K + K /\ k * K \in Nat OBVIOUS
  <2>10. IsFiniteSet(U(k + 1)) /\ Cardinality(U(k + 1)) = Cardinality(s) + Cardinality(t)
    <3>1. U(k + 1) = s \cup t BY <2>5
    <3>2. Cardinality(s) + Cardinality(t) - 0 = Cardinality(s) + Cardinality(t) BY <2>8
    <3> QED BY <2>7, <3>1, <3>2
  <2> QED BY <2>4, <2>8, <2>9, <2>10
<1>6. Nat \subseteq A
  <2> HIDE DEF A
  <2> QED BY <1>4, <1>5, SetInduction
<1>8. Cardinality(1 .. n) = n BY <1>2, FS_Interval
<1>9. Cardinality(U(d)) <= d * K BY <1>2, <1>6
<1> QED BY <1>1, <1>7, <1>8, <1>9
-----------------------------------------------------------------------------
(* The descent of a query *)

Goes(f, x) ==
  /\ f \in [Nat -> DOMAIN cells] /\ f[0] = << >>
  /\ \A k \in Nat : f[k + 1] = Descend(f[k], x)

LEMMA DescendIn ==
  ASSUME Closed(cells), NEW p \in DOMAIN cells, NEW x
  PROVE  Descend(p, x) \in DOMAIN cells
<1>1. PICK s : s = cells[p].split OBVIOUS
<1>2. CASE s = None BY <1>1, <1>2 DEF Descend
<1>3. CASE s # None
  <2>1. PICK o \in {0, 1} : o = IF x[s] < cells[p].x[s] THEN 0 ELSE 1 OBVIOUS
  <2>2. Descend(p, x) = Child(p, s, o) BY <1>1, <1>3, <2>1 DEF Descend, Child
  <2> QED BY <1>1, <1>3, <2>2 DEF Closed
<1> QED BY <1>2, <1>3

LEMMA GetKdFacts ==
  ASSUME Closed(cells), NEW x
  PROVE  \E f : Goes(f, x) /\ GetKd(x) = f[Dim * MaxHalv]
<1>1. PICK S, g, r : /\ S = DOMAIN cells /\ r = << >>
                     /\ g = [k \in Nat |-> [p \in S |-> Descend(p, x)]] OBVIOUS
<1>2. r \in S BY <1>1 DEF Closed
<1>3. g \in [Nat -> [S -> S]]
  <2>1. \A p \in S : Descend(p, x) \in S BY <1>1, DescendIn
  <2> QED BY <2>1, <1>1
<1>4. PICK h : Computes(h, S, r, g) BY <1>2, <1>3, Iteration
<1>5. h \in [Nat -> S] /\ h[0] = << >> /\ \A k \in Nat : h[k + 1] = Descend(h[k], x)
  BY <1>1, <1>4 DEF Computes
<1>6. ASSUME NEW k \in Nat PROVE h[k] = IF k = 0 THEN << >> ELSE Descend(h[k - 1], x)
  <2>1. CASE k = 0 BY <2>1, <1>5
  <2>2. CASE k # 0
    <3>1. k - 1 \in Nat /\ (k - 1) + 1 = k BY <2>2
    <3> QED BY <2>2, <3>1, <1>5
  <2> QED BY <2>1, <2>2
<1>7. h = [k \in Nat |-> IF k = 0 THEN << >> ELSE Descend(h[k - 1], x)] BY <1>5, <1>6
<1>8. PICK f : f = CHOOSE e : e = [k \in Nat |-> IF k = 0 THEN << >> ELSE Descend(e[k - 1], x)] OBVIOUS
<1>9. f = [k \in Nat |-> IF k = 0 THEN << >> ELSE Descend(f[k - 1], x)] BY <1>7, <1>8
<1>10. f[0] = << >> BY <1>9
<1>11. ASSUME NEW k \in Nat PROVE f[k + 1] = Descend(f[k], x)
  <2>1. k + 1 \in Nat /\ k + 1 # 0 /\ (k + 1) - 1 = k OBVIOUS
  <2> QED BY <2>1, <1>9
<1>12. Nat \subseteq {k \in Nat : f[k] \in S}
  <2> DEFINE A == {k \in Nat : f[k] \in S}
  <2>1. 0 \in A BY <1>1, <1>2, <1>10
  <2>2. \A k \in Nat : k \in A => k + 1 \in A BY <1>1, <1>11, DescendIn
  <2> HIDE DEF A
  <2>3. Nat \subseteq A BY <2>1, <2>2, SetInduction
  <2> QED BY <2>3 DEF A
<1>13. f \in [Nat -> DOMAIN cells]
  <2>1. DOMAIN f = Nat /\ f = [k \in Nat |-> f[k]] BY <1>9
  <2> QED BY <2>1, <1>1, <1>12
<1>14. GetKd(x) = f[Dim * MaxHalv] BY <1>8 DEF GetKd
<1> QED BY <1>10, <1>11, <1>13, <1>14 DEF Goes

(* Halving is exact. *)
LEMMA HalfExact ==
  ASSUME NEW b, NEW h, GoodBox(b), GoodBox(h), NEW s \in Axes, NEW o \in {0, 1}, h = Half(b, s, o)
  PROVE  /\ b.w[s] = 2 * h.w[s] /\ h.w[s] \in Nat
         /\ h.x[s] = b.x[s] + (2 * o - 1) * h.w[s]
         /\ \A jx \in Axes \ {s} : h.w[jx] = b.w[jx] /\ h.x[jx] = b.x[jx]
<1>1. b \in Box /\ b.path \in Path BY GoodFacts
<1>2. IsHalf(h, b, s, o) BY <1>1, HalfFacts
<1>3. PICK n, p : p = b.path /\ n = Halvings(p, s) OBVIOUS
<1>4. n \in Nat /\ Halvings(h.path, s) = n + 1
  <2>1. h.path = Append(p, <<s, o>>) BY <1>2, <1>3 DEF IsHalf
  <2>2. n \in Nat BY <1>1, <1>3, HalvingsFacts
  <2>3. Halvings(Append(p, <<s, o>>), s) = Halvings(p, s) + (IF s = s THEN 1 ELSE 0)
    BY <1>1, <1>3, HalvingsAppend
  <2> QED BY <2>1, <2>2, <2>3, <1>3
<1>5. Sized(b, s) /\ Sized(h, s) BY DEF GoodBox
<1>6. /\ b.w[s] = Pow2[MaxHalv - n] /\ h.w[s] = Pow2[MaxHalv - (n + 1)] /\ n + 1 <= MaxHalv
  BY <1>3, <1>4, <1>5 DEF Sized
<1>7. PICK m : m = MaxHalv - (n + 1) OBVIOUS
<1>8. m \in Nat /\ MaxHalv - n = m + 1 BY <1>4, <1>6, <1>7, ConstantsAssumption
<1>9. b.w[s] = 2 * h.w[s] /\ h.w[s] \in Nat BY <1>6, <1>7, <1>8, Pow2Def
<1>10. b.w[s] \div 2 = h.w[s] BY <1>9
<1>11. h.x[s] = b.x[s] + (2 * o - 1) * h.w[s] BY <1>2, <1>10 DEF IsHalf
<1>12. \A jx \in Axes \ {s} : h.w[jx] = b.w[jx] /\ h.x[jx] = b.x[jx] BY <1>2 DEF IsHalf
<1> QED BY <1>9, <1>11, <1>12

(* The halves of a block leave nothing of it out. *)
LEMMA HalfWidth ==
  ASSUME Closed(cells), NEW p \in DOMAIN cells, NEW s, s = cells[p].split, s # None,
         NEW o \in {0, 1}, NEW q, q = Child(p, s, o)
  PROVE  /\ s \in Axes /\ q \in DOMAIN cells
         /\ cells[p].w[s] = 2 * cells[q].w[s]
         /\ cells[q].x[s] = cells[p].x[s] + (2 * o - 1) * cells[q].w[s]
         /\ \A jx \in Axes \ {s} : cells[q].w[jx] = cells[p].w[jx] /\ cells[q].x[jx] = cells[p].x[jx]
<1>1. PICK b, h : b = BoxIn(cells, p) /\ h = Half(b, s, o) OBVIOUS
<1>2. s \in Axes /\ Tree(cells) BY DEF Closed
<1>3. h = BoxIn(cells, q) /\ q \in DOMAIN cells
  <2>1. HalfAt(cells, p, h, q) BY <1>1, HalfIn
  <2> QED BY <2>1 DEF HalfAt
<1>4. GoodBox(b) /\ GoodBox(h) BY <1>1, <1>2, <1>3 DEF Tree
<1>5. /\ b.w[s] = 2 * h.w[s] /\ h.x[s] = b.x[s] + (2 * o - 1) * h.w[s]
      /\ \A jx \in Axes \ {s} : h.w[jx] = b.w[jx] /\ h.x[jx] = b.x[jx]
  BY <1>1, <1>2, <1>4, HalfExact
<1>6. b.x = cells[p].x /\ b.w = cells[p].w /\ h.x = cells[q].x /\ h.w = cells[q].w
  BY <1>1, <1>3 DEF BoxIn
<1> QED BY <1>2, <1>3, <1>5, <1>6

LEMMA InBoxFacts ==
  ASSUME Tree(cells), NEW p \in DOMAIN cells, NEW y \in [Axes -> Int]
  PROVE  InBox(p, y) <=> \A ix \in Axes : /\ cells[p].x[ix] - cells[p].w[ix] <= y[ix]
                                          /\ y[ix] <= cells[p].x[ix] + cells[p].w[ix]
<1>1. ASSUME NEW ix \in Axes
      PROVE  Abs(y[ix] - cells[p].x[ix]) <= cells[p].w[ix] <=>
               /\ cells[p].x[ix] - cells[p].w[ix] <= y[ix]
               /\ y[ix] <= cells[p].x[ix] + cells[p].w[ix]
  <2>1. PICK a, w, u : a = cells[p].x[ix] /\ w = cells[p].w[ix] /\ u = y[ix] OBVIOUS
  <2>2. a \in Int /\ w \in Nat /\ u \in Int BY <2>1, TreeFacts
  <2>3. Abs(u - a) <= w <=> a - w <= u /\ u <= a + w BY <2>2 DEF Abs
  <2> QED BY <2>1, <2>3
<1> QED BY <1>1 DEF InBox

LEMMA ClampFacts ==
  ASSUME NEW x \in [Axes -> Int]
  PROVE  /\ Clamp(x) \in [Axes -> Int]
         /\ \A ix \in Axes : /\ -Unit <= Clamp(x)[ix] /\ Clamp(x)[ix] <= Unit
                             /\ \A a \in -Unit .. Unit : /\ x[ix] < a => Clamp(x)[ix] <= a
                                                         /\ ~(x[ix] < a) => a <= Clamp(x)[ix]
<1>1. Unit \in Nat BY Pow2Def, ConstantsAssumption DEF Unit
<1>2. ASSUME NEW ix \in Axes
      PROVE  /\ Clamp(x)[ix] \in Int /\ -Unit <= Clamp(x)[ix] /\ Clamp(x)[ix] <= Unit
             /\ \A a \in -Unit .. Unit : /\ x[ix] < a => Clamp(x)[ix] <= a
                                         /\ ~(x[ix] < a) => a <= Clamp(x)[ix]
  <2>1. PICK u, e : u = Unit /\ e = x[ix] OBVIOUS
  <2>2. u \in Nat /\ e \in Int BY <1>1, <2>1
  <2>3. Clamp(x)[ix] = IF e > u THEN u ELSE IF e < -u THEN -u ELSE e BY <2>1 DEF Clamp
  <2> QED BY <2>1, <2>2, <2>3
<1>3. DOMAIN Clamp(x) = Axes /\ Clamp(x) = [ix \in Axes |-> Clamp(x)[ix]] BY DEF Clamp
<1> QED BY <1>2, <1>3

LEMMA DescendHolds ==
  ASSUME Closed(cells), NEW p \in DOMAIN cells, cells[p].split # None, NEW x \in [Axes -> Int],
         InBox(p, Clamp(x))
  PROVE  InBox(Descend(p, x), Clamp(x)) /\ Len(Descend(p, x)) = Len(p) + 1
<1>1. PICK s, y : s = cells[p].split /\ y = Clamp(x) OBVIOUS
<1>2. PICK o \in {0, 1} : o = IF x[s] < cells[p].x[s] THEN 0 ELSE 1 OBVIOUS
<1>3. PICK q : q = Child(p, s, o) OBVIOUS
<1>4. Descend(p, x) = q BY <1>1, <1>2, <1>3 DEF Descend, Child
<1>5. /\ s \in Axes /\ q \in DOMAIN cells
      /\ cells[p].w[s] = 2 * cells[q].w[s]
      /\ cells[q].x[s] = cells[p].x[s] + (2 * o - 1) * cells[q].w[s]
      /\ \A jx \in Axes \ {s} : cells[q].w[jx] = cells[p].w[jx] /\ cells[q].x[jx] = cells[p].x[jx]
  BY <1>1, <1>3, HalfWidth
<1>6. Tree(cells) /\ p \in Path BY TreeFacts DEF Closed
<1>7. Len(q) = Len(p) + 1 BY <1>3, <1>5, <1>6, PathAppend DEF Child
<1>8. y \in [Axes -> Int] BY <1>1, ClampFacts
<1>9. \A ix \in Axes : cells[p].x[ix] - cells[p].w[ix] <= y[ix] /\ y[ix] <= cells[p].x[ix] + cells[p].w[ix]
  BY <1>1, <1>6, <1>8, InBoxFacts
<1>10. PICK a, w, v, t : a = cells[p].x[s] /\ w = cells[q].w[s] /\ v = cells[q].x[s] /\ t = y[s] OBVIOUS
<1>11. a \in Int /\ w \in Nat /\ v \in Int /\ t \in Int BY <1>5, <1>6, <1>8, <1>10, TreeFacts
<1>12. a - 2 * w <= t /\ t <= a + 2 * w BY <1>5, <1>9, <1>10
<1>13. v = a + (2 * o - 1) * w BY <1>5, <1>10
<1>14. a \in -Unit .. Unit
  <2>1. PICK b, u : b = BoxIn(cells, p) /\ u = Unit OBVIOUS
  <2>2. GoodBox(b) /\ b.x = cells[p].x /\ b.w = cells[p].w BY <2>1, <1>6 DEF Tree, BoxIn
  <2>3. -u <= a - b.w[s] /\ a + b.w[s] <= u BY <2>1, <2>2, <1>5, <1>10 DEF GoodBox, Sized
  <2>4. b.w[s] \in Nat BY <2>2, <1>5, <1>6, TreeFacts
  <2>5. u \in Nat BY <2>1, Pow2Def, ConstantsAssumption DEF Unit
  <2> QED BY <2>1, <2>3, <2>4, <2>5, <1>11
<1>15. v - w <= t /\ t <= v + w
  <2>1. CASE x[s] < a
    <3>1. o = 0 /\ t <= a BY <2>1, <1>1, <1>2, <1>5, <1>10, <1>14, ClampFacts
    <3>2. v = a - w BY <3>1, <1>11, <1>13
    <3> QED BY <3>1, <3>2, <1>11, <1>12
  <2>2. CASE ~(x[s] < a)
    <3>1. o = 1 /\ a <= t BY <2>2, <1>1, <1>2, <1>5, <1>10, <1>14, ClampFacts
    <3>2. v = a + w BY <3>1, <1>11, <1>13
    <3> QED BY <3>1, <3>2, <1>11, <1>12
  <2> QED BY <2>1, <2>2
<1>16. ASSUME NEW ix \in Axes
       PROVE  cells[q].x[ix] - cells[q].w[ix] <= y[ix] /\ y[ix] <= cells[q].x[ix] + cells[q].w[ix]
  <2>1. CASE ix = s BY <2>1, <1>10, <1>15
  <2>2. CASE ix # s BY <2>2, <1>5, <1>9
  <2> QED BY <2>1, <2>2
<1>17. InBox(q, y) BY <1>5, <1>6, <1>8, <1>16, InBoxFacts
<1> QED BY <1>1, <1>4, <1>7, <1>17

LEMMA DepthLimit ==
  ASSUME Closed(cells), NEW p \in DOMAIN cells
  PROVE  Len(p) <= Dim * MaxHalv
<1>1. Tree(cells) BY DEF Closed
<1>2. p \in Path BY <1>1, TreeFacts
<1>3. \A ix \in Axes : Halvings(p, ix) <= MaxHalv
  <2>1. GoodBox(BoxIn(cells, p)) /\ BoxIn(cells, p).path = p BY <1>1 DEF Tree, BoxIn
  <2> QED BY <2>1 DEF GoodBox, Sized
<1>4. MaxHalv \in Nat BY ConstantsAssumption
<1> QED BY <1>2, <1>3, <1>4, DepthIsHalvings

(* Where a query at x ends. *)
Answers(p, x) == p \in DOMAIN cells /\ cells[p].split = None /\ InBox(p, Clamp(x))

LEMMA QueryAnswered ==
  ASSUME Closed(cells), NEW x \in [Axes -> Int]
  PROVE  Answers(GetKd(x), x)
<1>1. PICK f : Goes(f, x) /\ GetKd(x) = f[Dim * MaxHalv] BY GetKdFacts
<1>2. f \in [Nat -> DOMAIN cells] /\ f[0] = << >> /\ \A k \in Nat : f[k + 1] = Descend(f[k], x)
  BY <1>1 DEF Goes
<1>3. Tree(cells) /\ << >> \in DOMAIN cells BY DEF Closed
<1> DEFINE A == {k \in Nat : InBox(f[k], Clamp(x)) /\ (cells[f[k]].split = None \/ Len(f[k]) = k)}
<1>4. 0 \in A
  <2>1. BoxIn(cells, << >>) = RootBox BY <1>3 DEF Tree
  <2>2. cells[<< >>].x = RootBox.x /\ cells[<< >>].w = RootBox.w BY <2>1 DEF BoxIn, RootBox
  <2>3. Unit \in Nat BY Pow2Def, ConstantsAssumption DEF Unit
  <2>4. \A ix \in Axes : cells[<< >>].x[ix] = 0 /\ cells[<< >>].w[ix] = Unit BY <2>2 DEF RootBox
  <2>5. \A ix \in Axes : 0 - Unit <= Clamp(x)[ix] /\ Clamp(x)[ix] <= 0 + Unit
    <3>1. \A ix \in Axes : -Unit <= Clamp(x)[ix] /\ Clamp(x)[ix] <= Unit BY ClampFacts
    <3> QED BY <2>3, <3>1
  <2>6. InBox(<< >>, Clamp(x)) BY <2>4, <2>5, <1>3, ClampFacts, InBoxFacts
  <2> QED BY <2>6, <1>2
<1>5. ASSUME NEW k \in Nat, k \in A PROVE k + 1 \in A
  <2>1. PICK p : p = f[k] OBVIOUS
  <2>2. p \in DOMAIN cells /\ f[k + 1] = Descend(p, x) /\ InBox(p, Clamp(x)) BY <2>1, <1>2, <1>5
  <2>3. CASE cells[p].split = None
    <3>1. f[k + 1] = p BY <2>2, <2>3 DEF Descend
    <3> QED BY <3>1, <2>2, <2>3
  <2>4. CASE cells[p].split # None
    <3>1. InBox(f[k + 1], Clamp(x)) /\ Len(f[k + 1]) = Len(p) + 1 BY <2>2, <2>4, DescendHolds
    <3>2. Len(p) = k BY <2>1, <2>4, <1>5
    <3> QED BY <3>1, <3>2
  <2> QED BY <2>3, <2>4
<1>6. Nat \subseteq A
  <2> HIDE DEF A
  <2> QED BY <1>4, <1>5, SetInduction
<1>7. PICK n, p : n = Dim * MaxHalv /\ p = f[n] OBVIOUS
<1>8. n \in Nat /\ n \in A BY <1>6, <1>7, ConstantsAssumption
<1>9. p \in DOMAIN cells /\ InBox(p, Clamp(x)) BY <1>2, <1>7, <1>8
<1>10. cells[p].split = None
  <2> SUFFICES ASSUME cells[p].split # None PROVE FALSE
    OBVIOUS
  <2>1. Len(p) = n BY <1>7, <1>8
  <2>2. Len(Descend(p, x)) = Len(p) + 1 BY <1>9, DescendHolds
  <2>3. Descend(p, x) \in DOMAIN cells BY <1>9, DescendIn
  <2>4. Len(Descend(p, x)) <= n BY <2>3, <1>7, DepthLimit
  <2> QED BY <2>1, <2>2, <2>4, <1>8
<1> QED BY <1>1, <1>7, <1>9, <1>10 DEF Answers
-----------------------------------------------------------------------------
(* The table of KDLines is that of KDInterp. *)
LEMMA TableOfLines == LSpec => []IInv
<1>1. LInit => IInv BY InitTable, InitFile DEF IInv, LInit
<1>2. [LNext]_<<vars, lineVars>> => [Next]_vars BY DEF LNext, LAddPoint, Next
<1>3. IInv /\ [Next]_vars => IInv' BY TableStep, RootStep, FileStep DEF IInv
<1> QED BY <1>1, <1>2, <1>3, PTL DEF LSpec

(* A query of a finished table, inside it or out, is answered by the block   *)
(* that holds its point or the point of the border next to it: getkd never   *)
(* leaves the tree and never ends in a block that is still split.            *)
THEOREM QueriesAnswered == LSpec => []QueryInBlock
<1>1. ASSUME IInv PROVE QueryInBlock
  <2> SUFFICES ASSUME phase = "store", NEW x \in [Axes -> {(k * Unit) \div 4 : k \in -5 .. 5}]
               PROVE  Answers(GetKd(x), x)
    BY DEF QueryInBlock, Answers
  <2>1. Closed(cells) BY <1>1, SettledNow DEF IInv, Settled
  <2>2. Unit \in Int BY Pow2Def, ConstantsAssumption DEF Unit
  <2>3. {(k * Unit) \div 4 : k \in -5 .. 5} \subseteq Int BY <2>2
  <2>4. x \in [Axes -> Int] BY <2>3
  <2> QED BY <2>1, <2>4, QueryAnswered
<1> QED BY <1>1, TableOfLines, PTL
-----------------------------------------------------------------------------
(* Division, and the bits of a corner's index *)

LEMMA DivMod ==
  ASSUME NEW A \in Nat \ {0}, NEW i \in Nat
  PROVE  \E q \in Nat, r \in 0 .. A - 1 : i = A * q + r /\ q = i \div A
OBVIOUS

LEMMA SmallMultiple ==
  ASSUME NEW A \in Nat \ {0}, NEW d \in Int, NEW e \in Int, e = A * d, -A < e, e < A
  PROVE  d = 0
<1>1. CASE d >= 1
  <2>1. A * d >= A BY <1>1
  <2> QED BY <2>1
<1>2. CASE d <= -1
  <2>1. A * (-d) >= A BY <1>2
  <2>2. A * (-d) = -e OBVIOUS
  <2> QED BY <2>1, <2>2
<1> QED BY <1>1, <1>2

LEMMA DivUnique ==
  ASSUME NEW A \in Nat \ {0}, NEW i \in Nat, NEW q \in Int, NEW r \in 0 .. A - 1, i = A * q + r
  PROVE  i \div A = q
<1>1. PICK p \in Nat, s \in 0 .. A - 1 : i = A * p + s /\ p = i \div A BY DivMod
<1>2. A * (p - q) = A * p - A * q OBVIOUS
<1>3. PICK e : e = A * (p - q) OBVIOUS
<1>4. e = r - s BY <1>1, <1>2, <1>3
<1>5. e \in Int /\ -A < e /\ e < A BY <1>4
<1>6. p - q = 0 BY <1>3, <1>5, SmallMultiple
<1> QED BY <1>1, <1>6

LEMMA DivDiv ==
  ASSUME NEW A \in Nat \ {0}, NEW B \in Nat \ {0}, NEW i \in Nat
  PROVE  (i \div A) \div B = i \div (A * B)
<1>1. PICK q \in Nat, r \in 0 .. A - 1 : i = A * q + r /\ q = i \div A BY DivMod
<1>2. PICK p \in Nat, s \in 0 .. B - 1 : q = B * p + s /\ p = q \div B BY DivMod
<1>3. i = (A * B) * p + (A * s + r)
  <2>1. A * q = A * (B * p) + A * s BY <1>2
  <2>2. A * (B * p) = (A * B) * p OBVIOUS
  <2> QED BY <1>1, <2>1, <2>2
<1>4. A * s + r \in 0 .. A * B - 1
  <2>1. A * s <= A * (B - 1) /\ A * s \in Nat OBVIOUS
  <2>2. A * (B - 1) = A * B - A OBVIOUS
  <2> QED BY <2>1, <2>2
<1>5. A * B \in Nat \ {0} OBVIOUS
<1>6. PICK C, t : C = A * B /\ t = A * s + r OBVIOUS
<1>7. C \in Nat \ {0} /\ t \in 0 .. C - 1 /\ i = C * p + t BY <1>3, <1>4, <1>5, <1>6
<1>8. i \div C = p BY <1>7, DivUnique
<1> QED BY <1>1, <1>2, <1>6, <1>8

LEMMA Pow2Sum ==
  ASSUME NEW a \in Nat, NEW b \in Nat
  PROVE  Pow2[a + b] = Pow2[a] * Pow2[b]
<1> DEFINE A == {k \in Nat : Pow2[a + k] = Pow2[a] * Pow2[k]}
<1>1. 0 \in A
  <2>1. a + 0 = a /\ Pow2[0] = 1 /\ Pow2[a] \in Nat BY Pow2Def
  <2> QED BY <2>1
<1>2. ASSUME NEW k \in Nat, k \in A PROVE k + 1 \in A
  <2>1. a + (k + 1) = (a + k) + 1 /\ a + k \in Nat OBVIOUS
  <2>2. PICK u, v, w : u = Pow2[a] /\ v = Pow2[k] /\ w = Pow2[a + k] OBVIOUS
  <2>3. u \in Nat /\ v \in Nat /\ w \in Nat BY <2>1, <2>2, Pow2Def
  <2>4. Pow2[(a + k) + 1] = 2 * w /\ Pow2[k + 1] = 2 * v BY <2>1, <2>2, Pow2Def
  <2>5. w = u * v BY <2>2, <1>2
  <2>6. 2 * w = u * (2 * v) BY <2>3, <2>5
  <2> QED BY <2>1, <2>2, <2>4, <2>6
<1>3. Nat \subseteq A
  <2> HIDE DEF A
  <2> QED BY <1>1, <1>2, SetInduction
<1> QED BY <1>3

(* Flip names the corner at the other end of the edge along ix. *)
LEMMA FlipFacts ==
  ASSUME NEW i \in 0 .. Pow2[Dim] - 1, NEW ix \in Axes
  PROVE  /\ Flip(i, ix) \in 0 .. Pow2[Dim] - 1
         /\ Bit(Flip(i, ix), ix) = 1 - Bit(i, ix)
         /\ \A jx \in Axes \ {ix} : Bit(Flip(i, ix), jx) = Bit(i, jx)
<1>1. ix \in Nat /\ Dim \in Nat /\ ix <= Dim - 1 BY AxisFacts DEF Axes
<1>2. PICK P, f : P = Pow2[ix] /\ f = Flip(i, ix) OBVIOUS
<1>3. P \in Nat \ {0} /\ Pow2[Dim] \in Nat \ {0} BY <1>1, <1>2, Pow2Def
<1>4. i \in Nat BY <1>3
<1>5. PICK q \in Nat, r \in 0 .. P - 1 : i = P * q + r /\ q = i \div P BY <1>3, <1>4, DivMod
<1>6. PICK c, e : c = q % 2 /\ e = 1 - 2 * c OBVIOUS
<1>7. c \in {0, 1} /\ (c = 0 => e = 1) /\ (c = 1 => e = -1) /\ e \in {-1, 1} BY <1>6
<1>8. Bit(i, ix) = c BY <1>2, <1>5, <1>6 DEF Bit
<1>9. f = i + e * P BY <1>2, <1>6, <1>8 DEF Flip
<1>10. PICK h : h = q + e OBVIOUS
<1>11. h \in Nat /\ h % 2 = 1 - c /\ h \div 2 = q \div 2
  <2>1. CASE c = 0 BY <2>1, <1>6, <1>7, <1>10
  <2>2. CASE c = 1 BY <2>2, <1>6, <1>7, <1>10
  <2> QED BY <2>1, <2>2, <1>7
<1>12. f = P * h + r
  <2>1. P * h = P * q + P * e BY <1>3, <1>7, <1>10
  <2>2. P * e = e * P BY <1>3, <1>7
  <2>3. P * q \in Nat /\ P * e \in Int BY <1>3, <1>7
  <2>4. f = (P * q + r) + P * e BY <2>2, <1>5, <1>9
  <2> QED BY <2>1, <2>3, <2>4
<1>13. f \in Nat
  <2>1. P * h \in Nat BY <1>3, <1>11
  <2> QED BY <2>1, <1>12
<1>14. f \div P = h BY <1>3, <1>11, <1>12, <1>13, DivUnique
<1>15. Bit(f, ix) = 1 - Bit(i, ix) BY <1>2, <1>8, <1>11, <1>14 DEF Bit
<1>16. ASSUME NEW n \in Nat, n > ix PROVE f \div Pow2[n] = i \div Pow2[n]
  <2>1. PICK k : k = n - (ix + 1) OBVIOUS
  <2>2. k \in Nat /\ n = (ix + 1) + k /\ ix + 1 \in Nat BY <1>1, <1>16, <2>1
  <2>3. PICK R, Q : R = Pow2[k] /\ Q = 2 * P OBVIOUS
  <2>4. R \in Nat \ {0} /\ Q \in Nat \ {0} /\ Q = P * 2 BY <1>3, <2>2, <2>3, Pow2Def
  <2>5. Pow2[ix + 1] = Q BY <1>1, <1>2, <2>3, Pow2Def
  <2>6. Pow2[n] = Q * R BY <2>2, <2>3, <2>5, Pow2Sum
  <2>7. f \div (P * 2) = h \div 2 BY <1>3, <1>13, <1>14, DivDiv
  <2>8. i \div (P * 2) = q \div 2 BY <1>3, <1>4, <1>5, DivDiv
  <2>9. f \div Q = i \div Q BY <1>11, <2>4, <2>7, <2>8
  <2>10. f \div (Q * R) = (f \div Q) \div R BY <1>13, <2>4, DivDiv
  <2>11. i \div (Q * R) = (i \div Q) \div R BY <1>4, <2>4, DivDiv
  <2> QED BY <2>6, <2>9, <2>10, <2>11
<1>17. f \in 0 .. Pow2[Dim] - 1
  <2>1. PICK C : C = Pow2[Dim] OBVIOUS
  <2>2. C \in Nat \ {0} /\ i \in 0 .. C - 1 BY <1>3, <2>1
  <2>3. i = C * 0 + i BY <1>4, <2>2
  <2>4. i \div C = 0 BY <1>4, <2>2, <2>3, DivUnique
  <2>5. f \div C = 0 BY <1>1, <1>16, <2>1, <2>4
  <2>6. PICK a \in Nat, s \in 0 .. C - 1 : f = C * a + s /\ a = f \div C BY <1>13, <2>2, DivMod
  <2>7. f = s
    <3>1. a = 0 /\ C * 0 = 0 BY <2>2, <2>5, <2>6
    <3> QED BY <3>1, <2>2, <2>6
  <2> QED BY <2>1, <2>2, <2>7
<1>18. ASSUME NEW jx \in Axes, jx # ix PROVE Bit(f, jx) = Bit(i, jx)
  <2>1. jx \in Nat BY <1>18 DEF Axes
  <2>2. CASE jx > ix BY <2>1, <2>2, <1>16 DEF Bit
  <2>3. CASE jx < ix
    <3>1. PICK J, k : J = Pow2[jx] /\ k = ix - (jx + 1) OBVIOUS
    <3>2. J \in Nat \ {0} /\ k \in Nat /\ ix = jx + (k + 1) /\ k + 1 \in Nat
      BY <1>1, <2>1, <2>3, <3>1, Pow2Def
    <3>3. PICK R : R = Pow2[k] OBVIOUS
    <3>4. R \in Nat /\ Pow2[k + 1] = 2 * R BY <3>2, <3>3, Pow2Def
    <3>5. P = J * (2 * R) BY <1>2, <2>1, <3>1, <3>2, <3>4, Pow2Sum
    <3>6. PICK a \in Nat, s \in 0 .. J - 1 : i = J * a + s /\ a = i \div J BY <1>4, <3>2, DivMod
    <3>7. PICK b : b = a + e * (2 * R) OBVIOUS
    <3>8. b \in Int BY <1>7, <3>4, <3>7
    <3>9. f = J * b + s
      <4>1. e * P = J * (e * (2 * R)) BY <1>7, <3>2, <3>4, <3>5
      <4>2. PICK g : g = e * (2 * R) OBVIOUS
      <4>3. g \in Int BY <1>7, <3>4, <4>2
      <4>4. J * b = J * a + J * g BY <3>2, <3>7, <4>2, <4>3
      <4>5. J * g \in Int /\ J * a \in Int BY <3>2, <4>3
      <4> QED BY <1>9, <3>6, <4>1, <4>2, <4>4, <4>5
    <3>10. f \div J = b BY <1>13, <3>2, <3>8, <3>9, DivUnique
    <3>11. b % 2 = a % 2
      <4>1. CASE e = 1 BY <4>1, <3>4, <3>7
      <4>2. CASE e = -1 BY <4>2, <3>4, <3>7
      <4> QED BY <4>1, <4>2, <1>7
    <3> QED BY <3>1, <3>6, <3>10, <3>11 DEF Bit
  <2> QED BY <2>1, <2>2, <2>3, <1>1, <1>18
<1> QED BY <1>2, <1>15, <1>17, <1>18
-----------------------------------------------------------------------------
(* Points of one line, in the order of their coordinates *)

(* r lies on side d of q. *)
Ahead(q, r, ix, d) == (2 * d - 1) * (r[ix] - q[ix]) > 0

NearestAhead(p, q, ix, d, line) ==
  IF q = NoPoint THEN \A r \in line : ~Ahead(p, r, ix, d)
  ELSE q \in line /\ Ahead(p, q, ix, d) /\ \A r \in line : ~(Ahead(p, r, ix, d) /\ Ahead(r, q, ix, d))

LEMMA NoPointFacts ==
  NoPoint \notin Point /\ Unit \in Nat \ {0}
<1>1. Unit \in Nat \ {0} BY Pow2Def, ConstantsAssumption DEF Unit
<1>2. 0 \in Axes BY AxisFacts
<1>3. NoPoint[0] = 2 * Unit BY <1>2 DEF NoPoint
<1>4. ASSUME NoPoint \in Point PROVE FALSE
  <2>1. NoPoint[0] \in -Unit .. Unit BY <1>2, <1>4 DEF Point, Coord
  <2> QED BY <2>1, <1>1, <1>3
<1> QED BY <1>1, <1>4

LEMMA PointFacts ==
  ASSUME NEW p \in Point, NEW ix \in Axes
  PROVE  p[ix] \in Int /\ -Unit <= p[ix] /\ p[ix] <= Unit
BY NoPointFacts DEF Point, Coord

LEMMA SamePoint ==
  ASSUME NEW p \in Point, NEW q \in Point, NEW ix \in Axes, SameLine(p, q, ix), p[ix] = q[ix]
  PROVE  p = q
<1>1. \A j \in Axes : p[j] = q[j] BY DEF SameLine
<1> QED BY <1>1 DEF Point

LEMMA LineEqual ==
  ASSUME NEW p \in Point, NEW q \in Point, NEW ix \in Axes
  PROVE  Line(p, ix) = Line(q, ix) <=> SameLine(p, q, ix)
<1>1. ASSUME Line(p, ix) = Line(q, ix), NEW j \in Axes \ {ix} PROVE p[j] = q[j]
  <2>1. Line(p, ix)[j] = p[j] /\ Line(q, ix)[j] = q[j] BY DEF Line
  <2> QED BY <1>1, <2>1
<1>2. ASSUME SameLine(p, q, ix) PROVE Line(p, ix) = Line(q, ix)
  BY <1>2 DEF SameLine, Line
<1> QED BY <1>1, <1>2 DEF SameLine

LEMMA AheadIs ==
  ASSUME NEW q \in Point, NEW r \in Point, NEW ix \in Axes, NEW d \in Dirs
  PROVE  Ahead(q, r, ix, d) <=> IF d = 1 THEN r[ix] > q[ix] ELSE r[ix] < q[ix]
<1>1. PICK a, b : a = q[ix] /\ b = r[ix] OBVIOUS
<1>2. a \in Int /\ b \in Int BY <1>1, PointFacts
<1>3. CASE d = 1
  <2>1. (2 * d - 1) * (b - a) = b - a BY <1>2, <1>3
  <2> QED BY <2>1, <1>1, <1>2, <1>3 DEF Ahead
<1>4. CASE d = 0
  <2>1. (2 * d - 1) * (b - a) = a - b BY <1>2, <1>4
  <2> QED BY <2>1, <1>1, <1>2, <1>4 DEF Ahead
<1> QED BY <1>3, <1>4 DEF Dirs

LEMMA NearestIs ==
  ASSUME NEW line, line \subseteq Point, NEW p \in Point, NEW q, NEW ix \in Axes, NEW d \in Dirs
  PROVE  IsNearest(p, q, ix, d, line) <=> NearestAhead(p, q, ix, d, line)
<1>1. CASE q = NoPoint
  <2>1. ASSUME NEW r \in line
        PROVE  (2 * d - 1) * (r[ix] - p[ix]) <= 0 <=> ~Ahead(p, r, ix, d)
    <3>1. PICK e : e = (2 * d - 1) * (r[ix] - p[ix]) OBVIOUS
    <3>2. r[ix] - p[ix] \in Int
      <4>1. r[ix] \in Int /\ p[ix] \in Int BY PointFacts
      <4> QED BY <4>1
    <3>3. e \in Int BY <3>1, <3>2 DEF Dirs
    <3> QED BY <3>1, <3>3 DEF Ahead
  <2> QED BY <2>1, <1>1 DEF IsNearest, NearestAhead
<1>2. CASE q # NoPoint
  <2> SUFFICES ASSUME q \in line, Ahead(p, q, ix, d)
               PROVE  (\A r \in line : ~Between(r, p, q, ix))
                        <=> \A r \in line : ~(Ahead(p, r, ix, d) /\ Ahead(r, q, ix, d))
    BY <1>2 DEF IsNearest, NearestAhead, Ahead
  <2>1. ASSUME NEW r \in line
        PROVE  Between(r, p, q, ix) <=> Ahead(p, r, ix, d) /\ Ahead(r, q, ix, d)
    <3>1. /\ Ahead(p, q, ix, d) <=> IF d = 1 THEN q[ix] > p[ix] ELSE q[ix] < p[ix]
          /\ Ahead(p, r, ix, d) <=> IF d = 1 THEN r[ix] > p[ix] ELSE r[ix] < p[ix]
          /\ Ahead(r, q, ix, d) <=> IF d = 1 THEN q[ix] > r[ix] ELSE q[ix] < r[ix]
      BY AheadIs
    <3>2. p[ix] \in Int /\ q[ix] \in Int /\ r[ix] \in Int BY PointFacts
    <3> QED BY <3>1, <3>2 DEF Between
  <2> QED BY <2>1
<1> QED BY <1>1, <1>2

Ordered(line, ix) ==
  \A q, r \in line, d \in Dirs :
    /\ ~Ahead(q, q, ix, d)
    /\ Ahead(q, r, ix, 1 - d) <=> Ahead(r, q, ix, d)
    /\ q # r => Ahead(q, r, ix, d) \/ Ahead(r, q, ix, d)
    /\ \A s \in line : Ahead(q, r, ix, d) /\ Ahead(r, s, ix, d) => Ahead(q, s, ix, d)

LEMMA LineOrdered ==
  ASSUME NEW line, line \subseteq Point, NEW ix \in Axes, \A q, r \in line : SameLine(q, r, ix)
  PROVE  Ordered(line, ix)
<1> SUFFICES ASSUME NEW q \in line, NEW r \in line, NEW d \in Dirs
             PROVE  /\ ~Ahead(q, q, ix, d)
                    /\ Ahead(q, r, ix, 1 - d) <=> Ahead(r, q, ix, d)
                    /\ q # r => Ahead(q, r, ix, d) \/ Ahead(r, q, ix, d)
                    /\ \A s \in line : Ahead(q, r, ix, d) /\ Ahead(r, s, ix, d) => Ahead(q, s, ix, d)
  BY DEF Ordered
<1>1. 1 - d \in Dirs /\ (1 - d = 1 <=> d # 1) BY DEF Dirs
<1>2. q[ix] \in Int /\ r[ix] \in Int BY PointFacts
<1>3. /\ Ahead(q, q, ix, d) <=> IF d = 1 THEN q[ix] > q[ix] ELSE q[ix] < q[ix]
      /\ Ahead(q, r, ix, d) <=> IF d = 1 THEN r[ix] > q[ix] ELSE r[ix] < q[ix]
      /\ Ahead(r, q, ix, d) <=> IF d = 1 THEN q[ix] > r[ix] ELSE q[ix] < r[ix]
      /\ Ahead(q, r, ix, 1 - d) <=> IF 1 - d = 1 THEN r[ix] > q[ix] ELSE r[ix] < q[ix]
  BY <1>1, AheadIs
<1>4. q # r => q[ix] # r[ix] BY SamePoint
<1>5. ASSUME NEW s \in line, Ahead(q, r, ix, d), Ahead(r, s, ix, d) PROVE Ahead(q, s, ix, d)
  <2>1. /\ Ahead(r, s, ix, d) <=> IF d = 1 THEN s[ix] > r[ix] ELSE s[ix] < r[ix]
        /\ Ahead(q, s, ix, d) <=> IF d = 1 THEN s[ix] > q[ix] ELSE s[ix] < q[ix]
    BY AheadIs
  <2>2. s[ix] \in Int BY PointFacts
  <2> QED BY <2>1, <2>2, <1>2, <1>3, <1>5
<1> QED BY <1>1, <1>2, <1>3, <1>4, <1>5
-----------------------------------------------------------------------------
(* A point p is put between T, before it, and B, beyond it. *)

Inserted(m, n, line, p, ix, d, T, B) ==
  /\ m[T][<<ix, d>>] = p /\ m[p][<<ix, 1 - d>>] = T /\ m[p][<<ix, d>>] = B
  /\ B # NoPoint => m[B][<<ix, 1 - d>>] = p
  /\ \A q \in line, e \in Dirs :
       ~(q = T /\ e = d) /\ ~(q = B /\ e = 1 - d) => m[q][<<ix, e>>] = n[q][<<ix, e>>]

AllNearest(n, line, ix) == \A q \in line, e \in Dirs : NearestAhead(q, n[q][<<ix, e>>], ix, e, line)

LEMMA InsertionKeeps ==
  ASSUME NEW ix \in Axes, NEW d \in Dirs, NEW line, NEW p, p \notin line,
         Ordered(line \cup {p}, ix), NoPoint \notin line, NoPoint # p,
         NEW n, NEW m, AllNearest(n, line, ix),
         NEW T \in line, Ahead(T, p, ix, d), NEW B, B = n[T][<<ix, d>>],
         B = NoPoint \/ Ahead(p, B, ix, d),
         Inserted(m, n, line, p, ix, d, T, B)
  PROVE  AllNearest(m, line \cup {p}, ix)
<1>1. PICK L : L = line \cup {p} OBVIOUS
<1>2. d \in {0, 1} /\ 1 - d \in Dirs /\ 1 - d # d /\ \A e \in Dirs : e = d \/ e = 1 - d BY DEF Dirs
<1>3. \A q, r \in L : /\ ~Ahead(q, q, ix, d)
                      /\ Ahead(q, r, ix, 1 - d) <=> Ahead(r, q, ix, d)
                      /\ q # r => Ahead(q, r, ix, d) \/ Ahead(r, q, ix, d)
  BY <1>1 DEF Ordered
<1>4. \A q, r, s \in L : Ahead(q, r, ix, d) /\ Ahead(r, s, ix, d) => Ahead(q, s, ix, d)
  BY <1>1 DEF Ordered
<1>5. line \subseteq L /\ p \in L /\ L \subseteq line \cup {p} /\ T \in L BY <1>1
<1>6. NearestAhead(T, B, ix, d, line) BY DEF AllNearest
<1>7. B # NoPoint => B \in line /\ Ahead(T, B, ix, d) BY <1>6 DEF NearestAhead
<1>8. ASSUME NEW r \in line, Ahead(T, r, ix, d)
      PROVE  B # NoPoint /\ (r = B \/ Ahead(B, r, ix, d)) /\ Ahead(p, r, ix, d)
  <2>1. B # NoPoint BY <1>6, <1>8 DEF NearestAhead
  <2>2. ~Ahead(r, B, ix, d) BY <1>6, <1>8, <2>1 DEF NearestAhead
  <2>3. r = B \/ Ahead(B, r, ix, d) BY <1>3, <1>5, <1>7, <2>1, <2>2
  <2>4. Ahead(p, r, ix, d) BY <1>4, <1>5, <1>7, <2>1, <2>3
  <2> QED BY <2>1, <2>3, <2>4
<1>9. ASSUME NEW r \in line, Ahead(p, r, ix, d)
      PROVE  B # NoPoint /\ (r = B \/ Ahead(B, r, ix, d))
  <2>1. Ahead(T, r, ix, d) BY <1>4, <1>5, <1>9
  <2> QED BY <2>1, <1>8
<1>10. ASSUME NEW q \in line, Ahead(q, p, ix, d), q # T PROVE Ahead(q, T, ix, d)
  <2>1. ~Ahead(T, q, ix, d)
    <3> SUFFICES ASSUME Ahead(T, q, ix, d) PROVE FALSE
      OBVIOUS
    <3>1. Ahead(p, q, ix, d) BY <1>8
    <3>2. Ahead(p, p, ix, d) BY <3>1, <1>4, <1>5, <1>10
    <3> QED BY <3>2, <1>3, <1>5
  <2> QED BY <2>1, <1>3, <1>5, <1>10
<1>11. NearestAhead(p, B, ix, d, L)
  <2>1. CASE B = NoPoint
    <3>1. \A r \in L : ~Ahead(p, r, ix, d) BY <1>3, <1>5, <1>9, <2>1
    <3> QED BY <3>1, <2>1 DEF NearestAhead
  <2>2. CASE B # NoPoint
    <3>1. ASSUME NEW r \in L, Ahead(p, r, ix, d), Ahead(r, B, ix, d) PROVE FALSE
      <4>1. r # p BY <1>3, <1>5, <3>1
      <4>2. r = B \/ Ahead(B, r, ix, d) BY <1>5, <1>9, <3>1, <4>1
      <4>3. Ahead(B, B, ix, d) BY <1>4, <1>5, <1>7, <2>2, <3>1, <4>2
      <4> QED BY <4>3, <1>3, <1>5, <1>7, <2>2
    <3> QED BY <3>1, <2>2, <1>5, <1>7 DEF NearestAhead
  <2> QED BY <2>1, <2>2
<1>12. NearestAhead(p, T, ix, 1 - d, L)
  <2>1. T # NoPoint OBVIOUS
  <2>2. Ahead(p, T, ix, 1 - d) BY <1>3, <1>5
  <2>3. ASSUME NEW r \in L, Ahead(p, r, ix, 1 - d), Ahead(r, T, ix, 1 - d) PROVE FALSE
    <3>1. Ahead(r, p, ix, d) /\ Ahead(T, r, ix, d) BY <1>3, <1>5, <2>3
    <3>2. r # p BY <1>3, <1>5, <3>1
    <3>3. Ahead(p, r, ix, d) BY <1>5, <1>8, <3>1, <3>2
    <3>4. Ahead(p, p, ix, d) BY <1>4, <1>5, <3>1, <3>3
    <3> QED BY <3>4, <1>3, <1>5
  <2> QED BY <2>1, <2>2, <2>3, <1>5 DEF NearestAhead
<1>13. NearestAhead(T, p, ix, d, L)
  <2>1. ASSUME NEW r \in L, Ahead(T, r, ix, d), Ahead(r, p, ix, d) PROVE FALSE
    <3>1. r # p BY <1>3, <1>5, <2>1
    <3>2. Ahead(p, r, ix, d) BY <1>5, <1>8, <2>1, <3>1
    <3>3. Ahead(p, p, ix, d) BY <1>4, <1>5, <2>1, <3>2
    <3> QED BY <3>3, <1>3, <1>5
  <2> QED BY <2>1, <1>5 DEF NearestAhead
<1>14. ASSUME B # NoPoint PROVE NearestAhead(B, p, ix, 1 - d, L)
  <2>1. Ahead(B, p, ix, 1 - d) BY <1>3, <1>5, <1>7, <1>14
  <2>2. ASSUME NEW r \in L, Ahead(B, r, ix, 1 - d), Ahead(r, p, ix, 1 - d) PROVE FALSE
    <3>1. Ahead(r, B, ix, d) /\ Ahead(p, r, ix, d) BY <1>3, <1>5, <1>7, <1>14, <2>2
    <3>2. r # p BY <1>3, <1>5, <3>1
    <3>3. r = B \/ Ahead(B, r, ix, d) BY <1>5, <1>9, <3>1, <3>2
    <3>4. Ahead(B, B, ix, d) BY <1>4, <1>5, <1>7, <1>14, <3>1, <3>3
    <3> QED BY <3>4, <1>3, <1>5, <1>7, <1>14
  <2> QED BY <2>1, <2>2, <1>5 DEF NearestAhead
<1>15. ASSUME NEW q \in line, q # T, NEW Q, Q = n[q][<<ix, d>>] PROVE NearestAhead(q, Q, ix, d, L)
  <2>1. NearestAhead(q, Q, ix, d, line) BY <1>15 DEF AllNearest
  <2>2. CASE Q = NoPoint
    <3>1. ~Ahead(q, p, ix, d) BY <1>10, <1>15, <2>1, <2>2 DEF NearestAhead
    <3> QED BY <3>1, <1>5, <2>1, <2>2 DEF NearestAhead
  <2>3. CASE Q # NoPoint
    <3>1. Q \in line BY <2>1, <2>3 DEF NearestAhead
    <3>2. ~(Ahead(q, p, ix, d) /\ Ahead(p, Q, ix, d))
      <4> SUFFICES ASSUME Ahead(q, p, ix, d), Ahead(p, Q, ix, d) PROVE FALSE
        OBVIOUS
      <4>1. Ahead(q, T, ix, d) BY <1>10, <1>15
      <4>2. Ahead(T, Q, ix, d) BY <1>4, <1>5, <3>1
      <4> QED BY <4>1, <4>2, <2>1, <2>3 DEF NearestAhead
    <3> QED BY <3>2, <1>5, <2>1, <2>3 DEF NearestAhead
  <2> QED BY <2>2, <2>3
<1>16. ASSUME NEW q \in line, q # B, NEW Q, Q = n[q][<<ix, 1 - d>>]
       PROVE  NearestAhead(q, Q, ix, 1 - d, L)
  <2>1. NearestAhead(q, Q, ix, 1 - d, line) BY <1>2, <1>16 DEF AllNearest
  <2>2. ASSUME Ahead(q, p, ix, 1 - d)
        PROVE  B # NoPoint /\ B \in line /\ Ahead(q, B, ix, 1 - d)
    <3>1. Ahead(p, q, ix, d) BY <1>3, <1>5, <2>2
    <3>2. B # NoPoint /\ Ahead(B, q, ix, d) BY <1>9, <1>16, <3>1
    <3> QED BY <3>2, <1>3, <1>5, <1>7
  <2>3. CASE Q = NoPoint
    <3>1. ~Ahead(q, p, ix, 1 - d) BY <2>1, <2>2, <2>3 DEF NearestAhead
    <3> QED BY <3>1, <1>5, <2>1, <2>3 DEF NearestAhead
  <2>4. CASE Q # NoPoint
    <3>1. Q \in line BY <2>1, <2>4 DEF NearestAhead
    <3>2. ~(Ahead(q, p, ix, 1 - d) /\ Ahead(p, Q, ix, 1 - d))
      <4> SUFFICES ASSUME Ahead(q, p, ix, 1 - d), Ahead(p, Q, ix, 1 - d) PROVE FALSE
        OBVIOUS
      <4>1. B # NoPoint /\ B \in line /\ Ahead(q, B, ix, 1 - d) BY <2>2
      <4>2. Ahead(Q, p, ix, d) /\ Ahead(p, B, ix, d) BY <1>3, <1>5, <3>1, <4>1
      <4>3. Ahead(Q, B, ix, d) BY <1>4, <1>5, <3>1, <4>1, <4>2
      <4>4. Ahead(B, Q, ix, 1 - d) BY <1>3, <1>5, <3>1, <4>1, <4>3
      <4> QED BY <4>1, <4>4, <2>1, <2>4 DEF NearestAhead
    <3> QED BY <3>2, <1>5, <2>1, <2>4 DEF NearestAhead
  <2> QED BY <2>3, <2>4
<1>17. ASSUME NEW q \in L PROVE NearestAhead(q, m[q][<<ix, d>>], ix, d, L)
  <2>1. CASE q = p BY <2>1, <1>11 DEF Inserted
  <2>2. CASE q = T BY <2>2, <1>13 DEF Inserted
  <2>3. CASE q # p /\ q # T
    <3>1. q \in line BY <2>3, <1>5
    <3>2. m[q][<<ix, d>>] = n[q][<<ix, d>>] BY <2>3, <3>1, <1>2 DEF Inserted
    <3> QED BY <2>3, <3>1, <3>2, <1>15
  <2> QED BY <2>1, <2>2, <2>3
<1>18. ASSUME NEW q \in L PROVE NearestAhead(q, m[q][<<ix, 1 - d>>], ix, 1 - d, L)
  <2>1. CASE q = p BY <2>1, <1>12 DEF Inserted
  <2>2. CASE q = B /\ q # p
    <3>1. B # NoPoint BY <2>2, <1>5
    <3> QED BY <3>1, <2>2, <1>14 DEF Inserted
  <2>3. CASE q # p /\ q # B
    <3>1. q \in line BY <2>3, <1>5
    <3>2. m[q][<<ix, 1 - d>>] = n[q][<<ix, 1 - d>>] BY <2>3, <3>1, <1>2 DEF Inserted
    <3> QED BY <2>3, <3>1, <3>2, <1>16
  <2> QED BY <2>1, <2>2, <2>3
<1>19. ASSUME NEW q \in L, NEW e \in Dirs PROVE NearestAhead(q, m[q][<<ix, e>>], ix, e, L)
  <2>1. CASE e = d BY <2>1, <1>17, <1>19
  <2>2. CASE e = 1 - d BY <2>2, <1>18, <1>19
  <2> QED BY <2>1, <2>2, <1>2
<1> QED BY <1>1, <1>19 DEF AllNearest
-----------------------------------------------------------------------------
(* connect *)

LineOf(D, p, ix) == {r \in D : SameLine(p, r, ix)}
Ptrs(E) == [E -> [Axes \X Dirs -> E \cup {NoPoint}]]

Sorted(n, D, ix) ==
  \A q \in D, e \in Dirs : NearestAhead(q, n[q][<<ix, e>>], ix, e, LineOf(D, q, ix))

(* p is among the points of E, those of D and p: it is on no list of axis ix *)
(* yet, or in its place.                                                     *)
AxisOpen(n, D, p, ix) == Sorted(n, D, ix) /\ Alone(n, p, ix)
AxisDone(n, D, p, ix) == Sorted(n, D \cup {p}, ix) /\ ~Alone(n, p, ix)

SameAlong(m, n, E, ix) == \A q \in E, e \in Dirs : m[q][<<ix, e>>] = n[q][<<ix, e>>]

LEMMA LineOfFacts ==
  ASSUME NEW D, D \subseteq Point, NEW p \in Point, NEW ix \in Axes
  PROVE  /\ LineOf(D, p, ix) \subseteq D
         /\ \A q \in LineOf(D, p, ix) : LineOf(D, q, ix) = LineOf(D, p, ix)
         /\ \A q, r \in LineOf(D, p, ix) : SameLine(q, r, ix)
         /\ \A q \in LineOf(D, p, ix) : SameLine(p, q, ix) /\ SameLine(q, p, ix)
         /\ SameLine(p, p, ix)
BY DEF LineOf, SameLine

LEMMA SortedAlong ==
  ASSUME NEW D, D \subseteq Point, NEW p \in Point, NEW ix \in Axes, NEW n, Sorted(n, D, ix)
  PROVE  AllNearest(n, LineOf(D, p, ix), ix)
<1>1. PICK L : L = LineOf(D, p, ix) OBVIOUS
<1>2. L \subseteq D /\ \A q \in L : LineOf(D, q, ix) = L BY <1>1, LineOfFacts
<1>3. \A q \in L, e \in Dirs : NearestAhead(q, n[q][<<ix, e>>], ix, e, L) BY <1>2 DEF Sorted
<1> QED BY <1>1, <1>3 DEF AllNearest

(* What the walk from t ends at: the last point before p. *)
Found1(n, p, L, T, ix, d) ==
  /\ T \in L /\ Ahead(T, p, ix, d)
  /\ n[T][<<ix, d>>] = NoPoint \/ Ahead(p, n[T][<<ix, d>>], ix, d)

LEMMA ProductSign ==
  ASSUME NEW u \in Int, NEW v \in Int, v # 0
  PROVE  u * v > 0 <=> IF v > 0 THEN u > 0 ELSE u < 0
<1>1. CASE u = 0 BY <1>1
<1>2. CASE u > 0 /\ v > 0
  <2>1. u * v > 0 BY <1>2
  <2> QED BY <2>1, <1>2
<1>3. CASE u > 0 /\ v < 0
  <2>1. u * (-v) > 0 BY <1>3
  <2>2. u * v = -(u * (-v)) OBVIOUS
  <2>3. u * (-v) \in Int OBVIOUS
  <2> QED BY <2>1, <2>2, <2>3, <1>3
<1>4. CASE u < 0 /\ v > 0
  <2>1. (-u) * v > 0 BY <1>4
  <2>2. u * v = -((-u) * v) OBVIOUS
  <2>3. (-u) * v \in Int OBVIOUS
  <2> QED BY <2>1, <2>2, <2>3, <1>4
<1>5. CASE u < 0 /\ v < 0
  <2>1. (-u) * (-v) > 0 BY <1>5
  <2>2. u * v = (-u) * (-v) OBVIOUS
  <2> QED BY <2>1, <2>2, <1>5
<1> QED BY <1>1, <1>2, <1>3, <1>4, <1>5

(* One step of the walk: on to the next point, if that is before p too. *)
LEMMA OnwardFacts ==
  ASSUME NEW L, L \subseteq Point, NEW p \in Point, p \notin L, NEW ix \in Axes, NEW d \in Dirs,
         \A q \in L : SameLine(p, q, ix),
         NEW n, AllNearest(n, L, ix),
         NEW t \in L, Ahead(t, p, ix, d)
  PROVE  \/ Onward(n, p, t, ix, d) = t /\ Found1(n, p, L, t, ix, d)
         \/ /\ Onward(n, p, t, ix, d) \in L
            /\ Ahead(t, Onward(n, p, t, ix, d), ix, d) /\ Ahead(Onward(n, p, t, ix, d), p, ix, d)
<1>1. PICK B : B = n[t][<<ix, d>>] OBVIOUS
<1>2. NearestAhead(t, B, ix, d, L) BY <1>1 DEF AllNearest
<1>3. CASE B = NoPoint
  <2>1. Onward(n, p, t, ix, d) = t BY <1>1, <1>3 DEF Onward
  <2> QED BY <2>1, <1>1, <1>3 DEF Found1
<1>4. CASE B # NoPoint
  <2>1. B \in L /\ Ahead(t, B, ix, d) BY <1>2, <1>4 DEF NearestAhead
  <2>2. p[ix] # B[ix] /\ p[ix] # t[ix] BY <2>1, SamePoint
  <2>3. p[ix] \in Int /\ B[ix] \in Int /\ t[ix] \in Int BY <2>1, PointFacts
  <2>4. PICK u, v : u = p[ix] - B[ix] /\ v = p[ix] - t[ix] OBVIOUS
  <2>5. u \in Int /\ v \in Int /\ u # 0 /\ v # 0 BY <2>2, <2>3, <2>4
  <2>6. u * v > 0 <=> IF v > 0 THEN u > 0 ELSE u < 0 BY <2>5, ProductSign
  <2>7. /\ Ahead(t, p, ix, d) <=> IF d = 1 THEN p[ix] > t[ix] ELSE p[ix] < t[ix]
        /\ Ahead(B, p, ix, d) <=> IF d = 1 THEN p[ix] > B[ix] ELSE p[ix] < B[ix]
        /\ Ahead(p, B, ix, d) <=> IF d = 1 THEN B[ix] > p[ix] ELSE B[ix] < p[ix]
    BY <2>1, AheadIs
  <2>8. u * v > 0 <=> Ahead(B, p, ix, d)
    <3>1. CASE d = 1 BY <3>1, <2>2, <2>3, <2>4, <2>6, <2>7
    <3>2. CASE d # 1 BY <3>2, <2>2, <2>3, <2>4, <2>6, <2>7
    <3> QED BY <3>1, <3>2
  <2>9. Ahead(B, p, ix, d) \/ Ahead(p, B, ix, d) BY <2>2, <2>3, <2>7
  <2>10. CASE Ahead(B, p, ix, d)
    <3>1. Onward(n, p, t, ix, d) = B BY <1>1, <1>4, <2>4, <2>8, <2>10 DEF Onward
    <3> QED BY <3>1, <2>1, <2>10
  <2>11. CASE ~Ahead(B, p, ix, d)
    <3>1. Onward(n, p, t, ix, d) = t BY <1>1, <2>4, <2>8, <2>11 DEF Onward
    <3> QED BY <3>1, <1>1, <2>9, <2>11 DEF Found1
  <2> QED BY <2>10, <2>11
<1> QED BY <1>3, <1>4

WalkBy(f, n, p, t, ix, d, L) ==
  f \in [Nat -> L] /\ f[0] = t /\ \A k \in Nat : f[k + 1] = Onward(n, p, f[k], ix, d)

LEMMA WalkDef ==
  ASSUME NEW L, NEW p, NEW ix, NEW d, NEW n, NEW t \in L,
         \A q \in L : Onward(n, p, q, ix, d) \in L
  PROVE  \E f : WalkBy(f, n, p, t, ix, d, L) /\ Walk(n, p, t, ix, d) = f[2 * Unit]
<1>1. PICK g : g = [k \in Nat |-> [q \in L |-> Onward(n, p, q, ix, d)]] OBVIOUS
<1>2. g \in [Nat -> [L -> L]] BY <1>1
<1>3. PICK h : Computes(h, L, t, g) BY <1>2, Iteration
<1>4. h \in [Nat -> L] /\ h[0] = t /\ \A k \in Nat : h[k + 1] = Onward(n, p, h[k], ix, d)
  BY <1>1, <1>3 DEF Computes
<1>5. ASSUME NEW k \in Nat PROVE h[k] = IF k = 0 THEN t ELSE Onward(n, p, h[k - 1], ix, d)
  <2>1. CASE k = 0 BY <2>1, <1>4
  <2>2. CASE k # 0
    <3>1. k - 1 \in Nat /\ (k - 1) + 1 = k BY <2>2
    <3> QED BY <2>2, <3>1, <1>4
  <2> QED BY <2>1, <2>2
<1>6. h = [k \in Nat |-> IF k = 0 THEN t ELSE Onward(n, p, h[k - 1], ix, d)] BY <1>4, <1>5
<1>7. PICK f : f = CHOOSE e : e = [k \in Nat |-> IF k = 0 THEN t ELSE Onward(n, p, e[k - 1], ix, d)]
  OBVIOUS
<1>8. f = [k \in Nat |-> IF k = 0 THEN t ELSE Onward(n, p, f[k - 1], ix, d)] BY <1>6, <1>7
<1>9. f[0] = t BY <1>8
<1>10. ASSUME NEW k \in Nat PROVE f[k + 1] = Onward(n, p, f[k], ix, d)
  <2>1. k + 1 \in Nat /\ k + 1 # 0 /\ (k + 1) - 1 = k OBVIOUS
  <2> QED BY <2>1, <1>8
<1>11. Nat \subseteq {k \in Nat : f[k] \in L}
  <2> DEFINE A == {k \in Nat : f[k] \in L}
  <2>1. 0 \in A BY <1>9
  <2>2. \A k \in Nat : k \in A => k + 1 \in A BY <1>10
  <2> HIDE DEF A
  <2>3. Nat \subseteq A BY <2>1, <2>2, SetInduction
  <2> QED BY <2>3 DEF A
<1>12. f \in [Nat -> L]
  <2>1. DOMAIN f = Nat /\ f = [k \in Nat |-> f[k]] BY <1>8
  <2> QED BY <2>1, <1>11
<1>13. Walk(n, p, t, ix, d) = f[2 * Unit] BY <1>7 DEF Walk
<1> QED BY <1>9, <1>10, <1>12, <1>13 DEF WalkBy

LEMMA WalkFacts ==
  ASSUME NEW L, L \subseteq Point, NEW p \in Point, p \notin L, NEW ix \in Axes, NEW d \in Dirs,
         \A q \in L : SameLine(p, q, ix),
         NEW n, AllNearest(n, L, ix),
         NEW t \in L, Ahead(t, p, ix, d)
  PROVE  Found1(n, p, L, Walk(n, p, t, ix, d), ix, d)
<1>1. PICK M : M = {q \in L : Ahead(q, p, ix, d)} OBVIOUS
<1>2. t \in M /\ M \subseteq L BY <1>1
<1>3. ASSUME NEW q \in M
      PROVE  \/ Onward(n, p, q, ix, d) = q /\ Found1(n, p, L, q, ix, d)
             \/ Onward(n, p, q, ix, d) \in M /\ Ahead(q, Onward(n, p, q, ix, d), ix, d)
  <2>1. q \in L /\ Ahead(q, p, ix, d) BY <1>1
  <2> QED BY <2>1, <1>1, OnwardFacts
<1>4. \A q \in M : Onward(n, p, q, ix, d) \in M BY <1>3
<1>5. PICK f : WalkBy(f, n, p, t, ix, d, M) /\ Walk(n, p, t, ix, d) = f[2 * Unit]
  BY <1>2, <1>4, WalkDef
<1>6. f \in [Nat -> M] /\ f[0] = t /\ \A k \in Nat : f[k + 1] = Onward(n, p, f[k], ix, d)
  BY <1>5 DEF WalkBy
<1> DEFINE Far(k) == IF d = 1 THEN f[k][ix] >= t[ix] + k ELSE f[k][ix] <= t[ix] - k
           A == {k \in Nat : Found1(n, p, L, f[k], ix, d) \/ Far(k)}
<1>7. t[ix] \in Int BY PointFacts
<1>8. \A k \in Nat : f[k] \in M /\ f[k][ix] \in Int
  <2>1. \A k \in Nat : f[k] \in M BY <1>6
  <2> QED BY <2>1, <1>2, PointFacts
<1>9. 0 \in A BY <1>6, <1>7
<1>10. ASSUME NEW k \in Nat, k \in A PROVE k + 1 \in A
  <2>1. PICK q, r : q = f[k] /\ r = f[k + 1] OBVIOUS
  <2>2. q \in M /\ r \in M /\ r = Onward(n, p, q, ix, d) /\ q[ix] \in Int /\ r[ix] \in Int
    BY <2>1, <1>6, <1>8
  <2>3. CASE r = q /\ Found1(n, p, L, q, ix, d)
    <3>1. Found1(n, p, L, f[k + 1], ix, d) BY <2>1, <2>3
    <3> QED BY <3>1
  <2>4. CASE Ahead(q, r, ix, d) /\ ~Found1(n, p, L, q, ix, d)
    <3>1. Far(k) BY <2>1, <2>4, <1>10
    <3>2. q \in Point /\ r \in Point BY <2>2, <1>2
    <3>3. IF d = 1 THEN r[ix] > q[ix] ELSE r[ix] < q[ix] BY <2>4, <3>2, AheadIs
    <3>4. Far(k + 1) BY <3>1, <3>3, <2>1, <2>2, <1>7
    <3> QED BY <3>4
  <2>5. CASE Ahead(q, r, ix, d) /\ Found1(n, p, L, q, ix, d)
    <3>1. r = q
      <4> SUFFICES ASSUME Ahead(q, r, ix, d) PROVE FALSE
        BY <2>5
      <4>1. q \in L /\ r \in L /\ Ahead(r, p, ix, d) BY <2>2, <1>1
      <4>2. PICK B : B = n[q][<<ix, d>>] OBVIOUS
      <4>3. NearestAhead(q, B, ix, d, L) BY <4>1, <4>2 DEF AllNearest
      <4>4. B # NoPoint BY <4>1, <4>3 DEF NearestAhead
      <4>5. B \in L /\ ~Ahead(r, B, ix, d) BY <4>1, <4>3, <4>4 DEF NearestAhead
      <4>6. Ahead(p, B, ix, d) BY <4>2, <4>4, <2>5 DEF Found1
      <4>7. /\ IF d = 1 THEN p[ix] > r[ix] ELSE p[ix] < r[ix]
            /\ IF d = 1 THEN B[ix] > p[ix] ELSE B[ix] < p[ix]
            /\ ~(IF d = 1 THEN B[ix] > r[ix] ELSE B[ix] < r[ix])
        BY <4>1, <4>5, <4>6, AheadIs
      <4>8. p[ix] \in Int /\ B[ix] \in Int /\ r[ix] \in Int BY <4>1, <4>5, PointFacts
      <4> QED BY <4>7, <4>8
    <3> QED BY <3>1, <2>1, <2>5
  <2> QED BY <2>2, <2>3, <2>4, <2>5, <1>3
<1>11. Nat \subseteq A
  <2> HIDE DEF A
  <2> QED BY <1>9, <1>10, SetInduction
<1>12. PICK k : k = 2 * Unit OBVIOUS
<1>13. k \in Nat /\ k \in A /\ k + 1 \in A BY <1>11, <1>12, NoPointFacts
<1>14. ~Far(k)
  <2>1. f[k] \in L /\ Ahead(f[k], p, ix, d) BY <1>1, <1>8, <1>13
  <2>2. IF d = 1 THEN p[ix] > f[k][ix] ELSE p[ix] < f[k][ix] BY <2>1, AheadIs
  <2>3. /\ p[ix] \in Int /\ -Unit <= p[ix] /\ p[ix] <= Unit
        /\ -Unit <= t[ix] /\ t[ix] <= Unit /\ f[k][ix] \in Int
    BY <2>1, PointFacts
  <2>4. Unit \in Nat BY NoPointFacts
  <2> QED BY <2>2, <2>3, <2>4, <1>7, <1>12
<1> QED BY <1>5, <1>12, <1>13, <1>14
Elsewhere(m, n, E, ix) == \A jx \in Axes \ {ix} : SameAlong(m, n, E, jx)

(* One pointer is set. *)
IsSet(m, n, E, a, e, v) ==
  /\ m \in Ptrs(E) /\ m[a][e] = v
  /\ \A q \in E, f \in Axes \X Dirs : q # a \/ f # e => m[q][f] = n[q][f]

LEMMA SetPointer ==
  ASSUME NEW E, NEW n \in Ptrs(E), NEW a \in E, NEW e \in Axes \X Dirs, NEW v \in E \cup {NoPoint},
         NEW m, m = [n EXCEPT ![a][e] = v]
  PROVE  IsSet(m, n, E, a, e, v)
<1>1. PICK F, W : F = Axes \X Dirs /\ W = E \cup {NoPoint} OBVIOUS
<1>2. n \in [E -> [F -> W]] BY <1>1 DEF Ptrs
<1>3. PICK u : u = [n[a] EXCEPT ![e] = v] OBVIOUS
<1>4. n[a] \in [F -> W] BY <1>2
<1>5. u \in [F -> W] /\ u[e] = v /\ \A f \in F : f # e => u[f] = n[a][f] BY <1>1, <1>3, <1>4
<1>6. m = [n EXCEPT ![a] = u] BY <1>3
<1>7. m \in [E -> [F -> W]] /\ m[a] = u /\ \A q \in E : q # a => m[q] = n[q] BY <1>2, <1>5, <1>6
<1>8. ASSUME NEW q \in E, NEW f \in F, q # a \/ f # e PROVE m[q][f] = n[q][f]
  <2>1. CASE q = a BY <2>1, <1>5, <1>7, <1>8
  <2>2. CASE q # a BY <2>2, <1>7
  <2> QED BY <2>1, <2>2
<1> QED BY <1>1, <1>5, <1>7, <1>8 DEF IsSet, Ptrs

(* The pointers connect sets. *)
Linked(m, n, E, p, ix, d, T, B) ==
  /\ m \in Ptrs(E) /\ Elsewhere(m, n, E, ix)
  /\ m[T][<<ix, d>>] = p /\ m[p][<<ix, 1 - d>>] = T /\ m[p][<<ix, d>>] = B
  /\ B # NoPoint => m[B][<<ix, 1 - d>>] = p
  /\ \A q \in E \ {p}, e \in Dirs :
       ~(q = T /\ e = d) /\ ~(q = B /\ e = 1 - d) => m[q][<<ix, e>>] = n[q][<<ix, e>>]

LEMMA LinkPointers ==
  ASSUME NEW E, NEW n \in Ptrs(E), NEW p \in E, NEW T \in E, T # p, NEW ix \in Axes, NEW d \in Dirs,
         NEW B, B = NoPoint \/ B \in E \ {p}, NoPoint \notin E,
         NEW m, m = LET linked == [n EXCEPT ![T][<<ix, d>>] = p,
                                            ![p][<<ix, 1 - d>>] = T, ![p][<<ix, d>>] = B]
                    IN IF B = NoPoint THEN linked ELSE [linked EXCEPT ![B][<<ix, 1 - d>>] = p]
  PROVE  Linked(m, n, E, p, ix, d, T, B)
<1>1. PICK u, w : u = <<ix, d>> /\ w = <<ix, 1 - d>> OBVIOUS
<1>2. u \in Axes \X Dirs /\ w \in Axes \X Dirs /\ u # w /\ 1 - d # d BY <1>1 DEF Dirs
<1>3. PICK a : a = [n EXCEPT ![T][u] = p] OBVIOUS
<1>4. IsSet(a, n, E, T, u, p) BY <1>2, <1>3, SetPointer
<1>5. PICK b : b = [a EXCEPT ![p][w] = T] OBVIOUS
<1>6. IsSet(b, a, E, p, w, T)
  <2>1. a \in Ptrs(E) BY <1>4 DEF IsSet
  <2> QED BY <2>1, <1>2, <1>5, SetPointer
<1>7. PICK c : c = [b EXCEPT ![p][u] = B] OBVIOUS
<1>8. IsSet(c, b, E, p, u, B)
  <2>1. b \in Ptrs(E) BY <1>6 DEF IsSet
  <2> QED BY <2>1, <1>2, <1>7, SetPointer
<1>9. c = [n EXCEPT ![T][u] = p, ![p][w] = T, ![p][u] = B] BY <1>3, <1>5, <1>7
<1>10. /\ c \in Ptrs(E) /\ c[T][u] = p /\ c[p][w] = T /\ c[p][u] = B
       /\ \A q \in E, f \in Axes \X Dirs :
            ~(q = T /\ f = u) /\ ~(q = p /\ f = w) /\ ~(q = p /\ f = u) => c[q][f] = n[q][f]
  BY <1>2, <1>4, <1>6, <1>8 DEF IsSet
<1>11. ASSUME NEW q \in E, NEW jx \in Axes, NEW e \in Dirs, jx # ix \/ e # d
       PROVE  <<jx, e>> # u
  BY <1>1, <1>11
<1>12. ASSUME NEW q \in E, NEW jx \in Axes, NEW e \in Dirs, jx # ix \/ e # 1 - d
       PROVE  <<jx, e>> # w
  BY <1>1, <1>12
<1>15. ASSUME NEW jx \in Axes \ {ix}, NEW q \in E, NEW e \in Dirs
       PROVE  c[q][<<jx, e>>] = n[q][<<jx, e>>]
  <2>1. PICK f : f = <<jx, e>> OBVIOUS
  <2>2. f \in Axes \X Dirs /\ f # u /\ f # w BY <2>1, <1>11, <1>12
  <2> QED BY <2>1, <2>2, <1>10
<1>16. ASSUME NEW q \in E \ {p}, NEW e \in Dirs, ~(q = T /\ e = d)
       PROVE  c[q][<<ix, e>>] = n[q][<<ix, e>>]
  <2>1. PICK f : f = <<ix, e>> OBVIOUS
  <2>2. f \in Axes \X Dirs /\ q # p /\ (q = T => f # u) BY <2>1, <1>11, <1>16
  <2> QED BY <2>1, <2>2, <1>10
<1>13. CASE B = NoPoint
  <2>1. m = c BY <1>1, <1>9, <1>13
  <2>4. ASSUME NEW jx \in Axes \ {ix}, NEW q \in E, NEW e \in Dirs
        PROVE  m[q][<<jx, e>>] = n[q][<<jx, e>>]
    <3>1. c[q][<<jx, e>>] = n[q][<<jx, e>>] BY <1>15
    <3> QED BY <3>1, <2>1
  <2>2. Elsewhere(m, n, E, ix) BY <2>4 DEF Elsewhere, SameAlong
  <2>3. ASSUME NEW q \in E \ {p}, NEW e \in Dirs, ~(q = T /\ e = d)
        PROVE  m[q][<<ix, e>>] = n[q][<<ix, e>>]
    BY <2>1, <2>3, <1>16
  <2> QED BY <2>1, <2>2, <2>3, <1>1, <1>10, <1>13 DEF Linked
<1>14. CASE B # NoPoint
  <2>1. m = [c EXCEPT ![B][w] = p] BY <1>1, <1>9, <1>14
  <2>2. B \in E /\ B # p BY <1>14
  <2>3. IsSet(m, c, E, B, w, p) BY <2>1, <2>2, <1>2, <1>10, SetPointer
  <2>4. /\ m \in Ptrs(E) /\ m[B][w] = p
        /\ \A q \in E, f \in Axes \X Dirs : q # B \/ f # w => m[q][f] = c[q][f]
    BY <2>3 DEF IsSet
  <2>5. m[T][u] = p /\ m[p][w] = T /\ m[p][u] = B
    <3>1. m[T][u] = c[T][u] BY <2>4, <1>2
    <3>2. m[p][w] = c[p][w] /\ m[p][u] = c[p][u] BY <2>2, <2>4, <1>2
    <3> QED BY <3>1, <3>2, <1>10
  <2>6. ASSUME NEW jx \in Axes \ {ix}, NEW q \in E, NEW e \in Dirs
        PROVE  m[q][<<jx, e>>] = n[q][<<jx, e>>]
    <3>1. PICK f : f = <<jx, e>> OBVIOUS
    <3>2. f \in Axes \X Dirs /\ f # w BY <3>1, <1>12
    <3>3. m[q][f] = c[q][f] BY <2>4, <3>2
    <3> QED BY <3>1, <3>3, <1>15
  <2>7. ASSUME NEW q \in E \ {p}, NEW e \in Dirs, ~(q = T /\ e = d), ~(q = B /\ e = 1 - d)
        PROVE  m[q][<<ix, e>>] = n[q][<<ix, e>>]
    <3>1. PICK f : f = <<ix, e>> OBVIOUS
    <3>2. f \in Axes \X Dirs /\ (q = B => f # w) BY <3>1, <2>7, <1>12
    <3>3. m[q][f] = c[q][f] BY <2>4, <3>2
    <3> QED BY <3>1, <3>3, <2>7, <1>16
  <2> QED BY <2>2, <2>4, <2>5, <2>6, <2>7, <1>1, <1>14 DEF Linked, Elsewhere, SameAlong
<1> QED BY <1>13, <1>14

(* connect puts p in its place on the line of t, and nothing else changes. *)
Connected1(m, n, D, p, ix) ==
  /\ m \in Ptrs(D \cup {p}) /\ AxisDone(m, D, p, ix) /\ Elsewhere(m, n, D \cup {p}, ix)

LEMMA ConnectKeeps ==
  ASSUME NEW D, D \subseteq Point, NEW p \in Point, p \notin D, NEW n \in Ptrs(D \cup {p}),
         NEW ix \in Axes, AxisOpen(n, D, p, ix), NEW t \in LineOf(D, p, ix)
  PROVE  Connected1(Connect(n, p, t, ix), n, D, p, ix)
<1>1. PICK E, L, d : /\ E = D \cup {p} /\ L = LineOf(D, p, ix)
                     /\ d = IF p[ix] > t[ix] THEN 1 ELSE 0 OBVIOUS
<1>2. d \in Dirs BY <1>1 DEF Dirs
<1>3. NoPoint \notin E /\ NoPoint \notin L /\ p \notin L /\ L \subseteq D /\ L \subseteq Point
  BY <1>1, NoPointFacts, LineOfFacts
<1>4. /\ \A q \in L : LineOf(D, q, ix) = L /\ SameLine(p, q, ix) /\ SameLine(q, p, ix)
      /\ \A q, r \in L : SameLine(q, r, ix)
      /\ SameLine(p, p, ix)
  BY <1>1, LineOfFacts
<1>5. AllNearest(n, L, ix) BY <1>1, SortedAlong DEF AxisOpen
<1>6. Ahead(t, p, ix, d)
  <2>1. p # t /\ SameLine(p, t, ix) /\ t \in Point BY <1>1, <1>3, <1>4
  <2>2. p[ix] # t[ix] BY <2>1, SamePoint
  <2>3. p[ix] \in Int /\ t[ix] \in Int BY <2>1, PointFacts
  <2>4. Ahead(t, p, ix, d) <=> IF d = 1 THEN p[ix] > t[ix] ELSE p[ix] < t[ix] BY <2>1, <1>2, AheadIs
  <2>5. CASE p[ix] > t[ix] BY <2>4, <2>5, <1>1
  <2>6. CASE ~(p[ix] > t[ix])
    <3>1. d = 0 /\ p[ix] < t[ix] BY <2>2, <2>3, <2>6, <1>1
    <3> QED BY <3>1, <2>4
  <2> QED BY <2>5, <2>6
<1>7. PICK T, B : T = Walk(n, p, t, ix, d) /\ B = n[T][<<ix, d>>] OBVIOUS
<1>8. Found1(n, p, L, T, ix, d) BY <1>1, <1>2, <1>3, <1>4, <1>5, <1>6, <1>7, WalkFacts
<1>9. T \in L /\ Ahead(T, p, ix, d) /\ (B = NoPoint \/ Ahead(p, B, ix, d)) BY <1>7, <1>8 DEF Found1
<1>10. B = NoPoint \/ B \in L
  <2>1. NearestAhead(T, B, ix, d, L) BY <1>2, <1>5, <1>7, <1>9 DEF AllNearest
  <2> QED BY <2>1 DEF NearestAhead
<1>11. PICK m : m = Connect(n, p, t, ix) OBVIOUS
<1>12. m = LET linked == [n EXCEPT ![T][<<ix, d>>] = p,
                                   ![p][<<ix, 1 - d>>] = T, ![p][<<ix, d>>] = B]
           IN IF B = NoPoint THEN linked ELSE [linked EXCEPT ![B][<<ix, 1 - d>>] = p]
  <2>1. SameLine(p, t, ix) BY <1>1, <1>4
  <2> QED BY <2>1, <1>1, <1>7, <1>11 DEF Connect
<1>13. Linked(m, n, E, p, ix, d, T, B)
  <2>1. n \in Ptrs(E) /\ p \in E /\ T \in E /\ T # p /\ (B = NoPoint \/ B \in E \ {p})
    BY <1>1, <1>3, <1>9, <1>10
  <2> HIDE DEF Linked
  <2> QED BY <2>1, <1>2, <1>3, <1>12, LinkPointers
<1>14. L \subseteq E \ {p} /\ p \in E BY <1>1, <1>3
<1>15. Inserted(m, n, L, p, ix, d, T, B) BY <1>13, <1>14 DEF Linked, Inserted
<1>16. Ordered(L \cup {p}, ix)
  <2>1. L \cup {p} \subseteq Point /\ \A q, r \in L \cup {p} : SameLine(q, r, ix) BY <1>3, <1>4
  <2> QED BY <2>1, LineOrdered
<1>17. AllNearest(m, L \cup {p}, ix)
  BY <1>2, <1>3, <1>5, <1>7, <1>9, <1>14, <1>15, <1>16, InsertionKeeps
<1>18. ASSUME NEW q \in E, NEW e \in Dirs
       PROVE  NearestAhead(q, m[q][<<ix, e>>], ix, e, LineOf(E, q, ix))
  <2>1. CASE q \in L \cup {p}
    <3>1. LineOf(E, q, ix) = L \cup {p} BY <2>1, <1>1, <1>4 DEF LineOf, SameLine
    <3> QED BY <2>1, <3>1, <1>17 DEF AllNearest
  <2>2. CASE q \notin L \cup {p}
    <3>1. q \in D /\ q # T /\ q # p /\ (q = B => B \in D /\ FALSE) BY <2>2, <1>1, <1>3, <1>9, <1>10, <1>18
    <3>2. ~SameLine(p, q, ix) /\ ~SameLine(q, p, ix) BY <2>2, <3>1, <1>1 DEF LineOf, SameLine
    <3>3. LineOf(E, q, ix) = LineOf(D, q, ix) BY <3>2, <1>1 DEF LineOf
    <3>4. m[q][<<ix, e>>] = n[q][<<ix, e>>] BY <3>1, <1>13, <1>18 DEF Linked
    <3>5. NearestAhead(q, n[q][<<ix, e>>], ix, e, LineOf(D, q, ix)) BY <3>1 DEF AxisOpen, Sorted
    <3> QED BY <3>3, <3>4, <3>5
  <2> QED BY <2>1, <2>2
<1>19. Sorted(m, E, ix) BY <1>18 DEF Sorted
<1>20. ~Alone(m, p, ix)
  <2>1. m[p][<<ix, 1 - d>>] = T /\ 1 - d \in Dirs /\ T # NoPoint BY <1>2, <1>3, <1>9, <1>13 DEF Linked, Dirs
  <2> QED BY <2>1 DEF Alone
<1>21. m \in Ptrs(E) /\ Elsewhere(m, n, E, ix) BY <1>13 DEF Linked
<1> QED BY <1>1, <1>11, <1>19, <1>20, <1>21 DEF Connected1, AxisDone
-----------------------------------------------------------------------------
(* get_val connects a new point along one axis after the other *)

Loops(h, S, s0, N, g) ==
  h \in [0 .. N -> S] /\ h[0] = s0 /\ \A k \in 0 .. N - 1 : h[k + 1] = g[k][h[k]]

LEMMA FiniteLoop ==
  ASSUME NEW S, NEW s0 \in S, NEW N \in Nat, NEW g \in [0 .. N - 1 -> [S -> S]]
  PROVE  \E h : Loops(h, S, s0, N, g)
<1>1. PICK G : G = [k \in Nat |-> IF k \in 0 .. N - 1 THEN g[k] ELSE [s \in S |-> s]] OBVIOUS
<1>2. G \in [Nat -> [S -> S]]
  <2>1. [s \in S |-> s] \in [S -> S] OBVIOUS
  <2> QED BY <2>1, <1>1
<1>3. PICK H : Computes(H, S, s0, G) BY <1>2, Iteration
<1>4. H \in [Nat -> S] /\ H[0] = s0 /\ \A k \in Nat : H[k + 1] = G[k][H[k]] BY <1>3 DEF Computes
<1>5. PICK h : h = [k \in 0 .. N |-> H[k]] OBVIOUS
<1>6. h \in [0 .. N -> S] /\ h[0] = s0 BY <1>4, <1>5
<1>7. ASSUME NEW k \in 0 .. N - 1 PROVE h[k + 1] = g[k][h[k]]
  <2>1. k \in Nat /\ k \in 0 .. N /\ k + 1 \in 0 .. N OBVIOUS
  <2>2. h[k] = H[k] /\ h[k + 1] = H[k + 1] /\ G[k] = g[k] BY <2>1, <1>1, <1>5
  <2> QED BY <2>1, <2>2, <1>4
<1> QED BY <1>6, <1>7 DEF Loops

LEMMA ConnectType ==
  ASSUME NEW E, NoPoint \notin E, NEW n \in Ptrs(E), NEW p \in E, NEW t \in E, NEW ix \in Axes
  PROVE  Connect(n, p, t, ix) \in Ptrs(E)
<1>1. PICK d : d = IF p[ix] > t[ix] THEN 1 ELSE 0 OBVIOUS
<1>2. d \in Dirs /\ 1 - d \in Dirs BY <1>1 DEF Dirs
<1>3. PICK u, w : u = <<ix, d>> /\ w = <<ix, 1 - d>> OBVIOUS
<1>4. u \in Axes \X Dirs /\ w \in Axes \X Dirs BY <1>2, <1>3
<1>5. \A q \in E : n[q][u] \in E \cup {NoPoint} BY <1>4 DEF Ptrs
<1>6. \A q \in E : Onward(n, p, q, ix, d) \in E BY <1>3, <1>5 DEF Onward
<1>7. PICK T : T = Walk(n, p, t, ix, d) OBVIOUS
<1>8. T \in E
  <2>1. PICK f : WalkBy(f, n, p, t, ix, d, E) /\ T = f[2 * Unit] BY <1>6, <1>7, WalkDef
  <2>2. 2 * Unit \in Nat BY NoPointFacts
  <2> QED BY <2>1, <2>2 DEF WalkBy
<1>9. PICK B : B = n[T][u] OBVIOUS
<1>10. B \in E \cup {NoPoint} BY <1>5, <1>8, <1>9
<1>11. PICK a : a = [n EXCEPT ![T][u] = p] OBVIOUS
<1>12. a \in Ptrs(E)
  <2>1. IsSet(a, n, E, T, u, p) BY <1>4, <1>8, <1>11, SetPointer
  <2> QED BY <2>1 DEF IsSet
<1>13. PICK b : b = [a EXCEPT ![p][w] = T] OBVIOUS
<1>14. b \in Ptrs(E)
  <2>1. IsSet(b, a, E, p, w, T) BY <1>4, <1>8, <1>12, <1>13, SetPointer
  <2> QED BY <2>1 DEF IsSet
<1>15. PICK c : c = [b EXCEPT ![p][u] = B] OBVIOUS
<1>16. c \in Ptrs(E)
  <2>1. IsSet(c, b, E, p, u, B) BY <1>4, <1>10, <1>14, <1>15, SetPointer
  <2> QED BY <2>1 DEF IsSet
<1>17. c = [n EXCEPT ![T][u] = p, ![p][w] = T, ![p][u] = B] BY <1>11, <1>13, <1>15
<1>18. Connect(n, p, t, ix) = IF ~SameLine(p, t, ix) THEN n
                              ELSE IF B = NoPoint THEN c ELSE [c EXCEPT ![B][w] = p]
  BY <1>1, <1>3, <1>7, <1>9, <1>17 DEF Connect
<1>19. ASSUME B # NoPoint PROVE [c EXCEPT ![B][w] = p] \in Ptrs(E)
  <2>1. PICK m : m = [c EXCEPT ![B][w] = p] OBVIOUS
  <2>2. B \in E BY <1>10, <1>19
  <2>3. IsSet(m, c, E, B, w, p) BY <1>4, <1>16, <2>1, <2>2, SetPointer
  <2> QED BY <2>1, <2>3 DEF IsSet
<1> QED BY <1>16, <1>18, <1>19

(* f: n as it is before axis k. *)
GivenBy(f, n, p, refs, E) ==
  /\ f \in [0 .. Dim -> Ptrs(E)] /\ f[0] = n
  /\ \A k \in Axes : f[k + 1] = GivenAlong(f[k], p, refs, k)

LEMMA GivenDef ==
  ASSUME NEW E, NoPoint \notin E, NEW n \in Ptrs(E), NEW p \in E, NEW refs,
         \A ix \in Axes : refs[ix] = NoPoint \/ refs[ix] \in E
  PROVE  \E f : GivenBy(f, n, p, refs, E) /\ Given(n, p, refs) = f[Dim]
<1>1. PICK S, N : S = Ptrs(E) /\ N = Dim OBVIOUS
<1>2. N \in Nat /\ Axes = 0 .. N - 1 BY <1>1, AxisFacts DEF Axes
<1>3. PICK g : g = [k \in 0 .. N - 1 |-> [m \in S |-> GivenAlong(m, p, refs, k)]] OBVIOUS
<1>4. g \in [0 .. N - 1 -> [S -> S]]
  <2>1. ASSUME NEW k \in 0 .. N - 1, NEW m \in S PROVE GivenAlong(m, p, refs, k) \in S
    BY <1>1, <1>2, ConnectType DEF GivenAlong
  <2> QED BY <2>1, <1>3
<1>5. PICK h \in [0 .. N -> S] : h[0] = n /\ \A k \in 0 .. N - 1 : h[k + 1] = g[k][h[k]]
  <2>1. n \in S BY <1>1
  <2>2. PICK h : Loops(h, S, n, N, g) BY <2>1, <1>2, <1>4, FiniteLoop
  <2> QED BY <2>2 DEF Loops
<1>6. \A k \in 0 .. N - 1 : h[k + 1] = GivenAlong(h[k], p, refs, k)
  <2>1. ASSUME NEW k \in 0 .. N - 1 PROVE h[k + 1] = GivenAlong(h[k], p, refs, k)
    <3>1. h[k] \in S BY <1>2
    <3> QED BY <3>1, <1>3, <1>5
  <2> QED BY <2>1
<1>7. ASSUME NEW k \in 0 .. N
      PROVE  h[k] = IF k = 0 THEN n ELSE GivenAlong(h[k - 1], p, refs, k - 1)
  <2>1. CASE k = 0 BY <2>1, <1>5
  <2>2. CASE k # 0
    <3>1. k - 1 \in 0 .. N - 1 /\ (k - 1) + 1 = k BY <2>2, <1>2
    <3> QED BY <2>2, <3>1, <1>6
  <2> QED BY <2>1, <2>2
<1>8. h = [k \in 0 .. N |-> IF k = 0 THEN n ELSE GivenAlong(h[k - 1], p, refs, k - 1)] BY <1>7
<1>9. PICK f : f = CHOOSE e : e = [k \in 0 .. N |-> IF k = 0 THEN n
                                                    ELSE GivenAlong(e[k - 1], p, refs, k - 1)]
  OBVIOUS
<1>10. f = [k \in 0 .. N |-> IF k = 0 THEN n ELSE GivenAlong(f[k - 1], p, refs, k - 1)]
  BY <1>8, <1>9
<1>11. f[0] = n BY <1>2, <1>10
<1>12. ASSUME NEW k \in 0 .. N - 1 PROVE f[k + 1] = GivenAlong(f[k], p, refs, k)
  <2>1. k + 1 \in 0 .. N /\ k + 1 # 0 /\ (k + 1) - 1 = k BY <1>2
  <2> QED BY <2>1, <1>10
<1>13. Nat \subseteq {k \in Nat : k <= N => f[k] \in S}
  <2> DEFINE A == {k \in Nat : k <= N => f[k] \in S}
  <2>1. 0 \in A BY <1>1, <1>11
  <2>2. ASSUME NEW k \in Nat, k \in A PROVE k + 1 \in A
    <3> SUFFICES ASSUME k + 1 <= N PROVE f[k + 1] \in S OBVIOUS
    <3>1. k \in 0 .. N - 1 /\ f[k] \in S BY <1>2, <2>2
    <3>2. GivenAlong(f[k], p, refs, k) \in S BY <3>1, <1>1, <1>2, ConnectType DEF GivenAlong
    <3> QED BY <3>1, <3>2, <1>12
  <2> HIDE DEF A
  <2>3. Nat \subseteq A BY <2>1, <2>2, SetInduction
  <2> QED BY <2>3 DEF A
<1>14. f \in [0 .. N -> S]
  <2>1. DOMAIN f = 0 .. N /\ f = [k \in 0 .. N |-> f[k]] BY <1>10
  <2>2. \A k \in 0 .. N : f[k] \in S BY <1>2, <1>13
  <2> QED BY <2>1, <2>2
<1>15. Given(n, p, refs) = f[Dim] BY <1>1, <1>9 DEF Given
<1> QED BY <1>1, <1>2, <1>11, <1>12, <1>14, <1>15 DEF GivenBy

UpdatedBy(f, n, p, E) ==
  /\ f \in [0 .. Dim -> Ptrs(E)] /\ f[0] = n
  /\ \A k \in Axes : f[k + 1] = UpdateAlong(f[k], p, k)

LEMMA UpdateDef ==
  ASSUME NEW E, NoPoint \notin E, NEW n \in Ptrs(E), NEW p \in E,
         \A ix \in Axes : Known(p, ix) => ref[ix][Line(p, ix)] \in E
  PROVE  \E f : UpdatedBy(f, n, p, E) /\ UpdateTab(n, p) = f[Dim]
<1>1. PICK S, N : S = Ptrs(E) /\ N = Dim OBVIOUS
<1>2. N \in Nat /\ Axes = 0 .. N - 1 BY <1>1, AxisFacts DEF Axes
<1>3. PICK g : g = [k \in 0 .. N - 1 |-> [m \in S |-> UpdateAlong(m, p, k)]] OBVIOUS
<1>4. g \in [0 .. N - 1 -> [S -> S]]
  <2>1. ASSUME NEW k \in 0 .. N - 1, NEW m \in S PROVE UpdateAlong(m, p, k) \in S
    BY <1>1, <1>2, ConnectType DEF UpdateAlong
  <2> QED BY <2>1, <1>3
<1>5. PICK h \in [0 .. N -> S] : h[0] = n /\ \A k \in 0 .. N - 1 : h[k + 1] = g[k][h[k]]
  <2>1. n \in S BY <1>1
  <2>2. PICK h : Loops(h, S, n, N, g) BY <2>1, <1>2, <1>4, FiniteLoop
  <2> QED BY <2>2 DEF Loops
<1>6. \A k \in 0 .. N - 1 : h[k + 1] = UpdateAlong(h[k], p, k)
  <2>1. ASSUME NEW k \in 0 .. N - 1 PROVE h[k + 1] = UpdateAlong(h[k], p, k)
    <3>1. h[k] \in S BY <1>2
    <3> QED BY <3>1, <1>3, <1>5
  <2> QED BY <2>1
<1>7. ASSUME NEW k \in 0 .. N
      PROVE  h[k] = IF k = 0 THEN n ELSE UpdateAlong(h[k - 1], p, k - 1)
  <2>1. CASE k = 0 BY <2>1, <1>5
  <2>2. CASE k # 0
    <3>1. k - 1 \in 0 .. N - 1 /\ (k - 1) + 1 = k BY <2>2, <1>2
    <3> QED BY <2>2, <3>1, <1>6
  <2> QED BY <2>1, <2>2
<1>8. h = [k \in 0 .. N |-> IF k = 0 THEN n ELSE UpdateAlong(h[k - 1], p, k - 1)] BY <1>7
<1>9. PICK f : f = CHOOSE e : e = [k \in 0 .. N |-> IF k = 0 THEN n
                                                    ELSE UpdateAlong(e[k - 1], p, k - 1)]
  OBVIOUS
<1>10. f = [k \in 0 .. N |-> IF k = 0 THEN n ELSE UpdateAlong(f[k - 1], p, k - 1)]
  BY <1>8, <1>9
<1>11. f[0] = n BY <1>2, <1>10
<1>12. ASSUME NEW k \in 0 .. N - 1 PROVE f[k + 1] = UpdateAlong(f[k], p, k)
  <2>1. k + 1 \in 0 .. N /\ k + 1 # 0 /\ (k + 1) - 1 = k BY <1>2
  <2> QED BY <2>1, <1>10
<1>13. Nat \subseteq {k \in Nat : k <= N => f[k] \in S}
  <2> DEFINE A == {k \in Nat : k <= N => f[k] \in S}
  <2>1. 0 \in A BY <1>1, <1>11
  <2>2. ASSUME NEW k \in Nat, k \in A PROVE k + 1 \in A
    <3> SUFFICES ASSUME k + 1 <= N PROVE f[k + 1] \in S OBVIOUS
    <3>1. k \in 0 .. N - 1 /\ f[k] \in S BY <1>2, <2>2
    <3>2. UpdateAlong(f[k], p, k) \in S BY <3>1, <1>1, <1>2, ConnectType DEF UpdateAlong
    <3> QED BY <3>1, <3>2, <1>12
  <2> HIDE DEF A
  <2>3. Nat \subseteq A BY <2>1, <2>2, SetInduction
  <2> QED BY <2>3 DEF A
<1>14. f \in [0 .. N -> S]
  <2>1. DOMAIN f = 0 .. N /\ f = [k \in 0 .. N |-> f[k]] BY <1>10
  <2>2. \A k \in 0 .. N : f[k] \in S BY <1>2, <1>13
  <2> QED BY <2>1, <2>2
<1>15. UpdateTab(n, p) = f[Dim] BY <1>1, <1>9 DEF UpdateTab
<1> QED BY <1>1, <1>2, <1>11, <1>12, <1>14, <1>15 DEF UpdatedBy

LEMMA SameAlongKeeps ==
  ASSUME NEW D, NEW p, NEW n, NEW m, NEW ix \in Axes, SameAlong(m, n, D \cup {p}, ix)
  PROVE  /\ AxisOpen(n, D, p, ix) => AxisOpen(m, D, p, ix)
         /\ AxisDone(n, D, p, ix) => AxisDone(m, D, p, ix)
BY DEF SameAlong, AxisOpen, AxisDone, Sorted, Alone

LEMMA GivenKeeps ==
  ASSUME NEW D, D \subseteq Point, NEW p \in Point, p \notin D, NEW n \in Ptrs(D \cup {p}),
         \A ix \in Axes : AxisOpen(n, D, p, ix), NEW refs,
         \A ix \in Axes : refs[ix] = NoPoint \/ refs[ix] \in LineOf(D, p, ix)
  PROVE  /\ Given(n, p, refs) \in Ptrs(D \cup {p})
         /\ \A ix \in Axes : IF refs[ix] = NoPoint THEN AxisOpen(Given(n, p, refs), D, p, ix)
                             ELSE AxisDone(Given(n, p, refs), D, p, ix)
<1>1. PICK E, N : E = D \cup {p} /\ N = Dim OBVIOUS
<1>2. N \in Nat /\ Axes = 0 .. N - 1 BY <1>1, AxisFacts DEF Axes
<1>3. NoPoint \notin E /\ p \in E /\ \A ix \in Axes : LineOf(D, p, ix) \subseteq E
  BY <1>1, NoPointFacts, LineOfFacts
<1>4. PICK f : GivenBy(f, n, p, refs, E) /\ Given(n, p, refs) = f[N] BY <1>1, <1>3, GivenDef
<1>5. f \in [0 .. N -> Ptrs(E)] /\ f[0] = n /\ \A k \in Axes : f[k + 1] = GivenAlong(f[k], p, refs, k)
  BY <1>1, <1>4 DEF GivenBy
<1> DEFINE State(m, ix, k) == IF ix < k /\ refs[ix] # NoPoint THEN AxisDone(m, D, p, ix)
                              ELSE AxisOpen(m, D, p, ix)
           A == {k \in Nat : k <= N => \A ix \in Axes : State(f[k], ix, k)}
<1>6. 0 \in A
  <2>1. \A ix \in Axes : ~(ix < 0) BY <1>2
  <2> QED BY <2>1, <1>5
<1>7. ASSUME NEW k \in Nat, k \in A PROVE k + 1 \in A
  <2> SUFFICES ASSUME k + 1 <= N, NEW ix \in Axes PROVE State(f[k + 1], ix, k + 1)
    OBVIOUS
  <2>1. k \in Axes /\ k \in 0 .. N /\ k <= N BY <1>2
  <2>2. PICK a, b : a = f[k] /\ b = f[k + 1] OBVIOUS
  <2>3. a \in Ptrs(E) /\ b = GivenAlong(a, p, refs, k) /\ \A jx \in Axes : State(a, jx, k)
    BY <2>1, <2>2, <1>5, <1>7
  <2>4. AxisOpen(a, D, p, k) BY <2>1, <2>3
  <2>5. CASE refs[k] = NoPoint
    <3>1. b = a BY <2>3, <2>5 DEF GivenAlong
    <3>2. ix < k + 1 /\ refs[ix] # NoPoint <=> ix < k /\ refs[ix] # NoPoint
      BY <2>1, <2>5, <1>2
    <3> QED BY <3>1, <3>2, <2>2, <2>3
  <2>6. CASE refs[k] # NoPoint
    <3>1. b = Connect(a, p, refs[k], k) BY <2>3, <2>6 DEF GivenAlong
    <3>2. Connected1(b, a, D, p, k) BY <3>1, <2>1, <2>3, <2>4, <2>6, <1>1, ConnectKeeps
    <3>3. CASE ix = k
      <4>1. AxisDone(b, D, p, ix) BY <3>2, <3>3 DEF Connected1
      <4>2. ix < k + 1 /\ refs[ix] # NoPoint BY <3>3, <2>6
      <4> QED BY <4>1, <4>2, <2>2
    <3>4. CASE ix # k
      <4>1. SameAlong(b, a, E, ix) BY <3>2, <3>4, <1>1 DEF Connected1, Elsewhere
      <4>2. ix < k + 1 <=> ix < k BY <3>4, <2>1, <1>2
      <4>3. State(a, ix, k) BY <2>3
      <4> QED BY <4>1, <4>2, <4>3, <2>2, <1>1, SameAlongKeeps
    <3> QED BY <3>3, <3>4
  <2> QED BY <2>5, <2>6
<1>8. Nat \subseteq A
  <2> HIDE DEF A
  <2> QED BY <1>6, <1>7, SetInduction
<1>9. N \in A /\ N <= N /\ f[N] \in Ptrs(E) BY <1>2, <1>5, <1>8
<1>10. ASSUME NEW ix \in Axes PROVE State(f[N], ix, N) /\ ix < N BY <1>2, <1>9
<1> QED BY <1>1, <1>4, <1>9, <1>10

(* p is in its place or on no list, axis by axis, and in the end it is on no *)
(* list only where ref_tab has none.                                         *)
Underway(n, D, p) == /\ n \in Ptrs(D \cup {p})
                     /\ \A ix \in Axes : AxisOpen(n, D, p, ix) \/ AxisDone(n, D, p, ix)
Ending(u, D, p)   == /\ u \in Ptrs(D \cup {p})
                     /\ \A ix \in Axes : \/ AxisDone(u, D, p, ix)
                                         \/ AxisOpen(u, D, p, ix) /\ ~Known(p, ix)
RefRight(D, p) == \A ix \in Axes : Known(p, ix) => ref[ix][Line(p, ix)] \in LineOf(D, p, ix)

LEMMA UpdateKeeps ==
  ASSUME NEW D, D \subseteq Point, NEW p \in Point, p \notin D, NEW n, Underway(n, D, p), RefRight(D, p)
  PROVE  Ending(UpdateTab(n, p), D, p)
<1>0. /\ n \in Ptrs(D \cup {p})
      /\ \A ix \in Axes : AxisOpen(n, D, p, ix) \/ AxisDone(n, D, p, ix)
      /\ \A ix \in Axes : Known(p, ix) => ref[ix][Line(p, ix)] \in LineOf(D, p, ix)
  BY DEF Underway, RefRight
<1>1. PICK E, N : E = D \cup {p} /\ N = Dim OBVIOUS
<1>2. N \in Nat /\ Axes = 0 .. N - 1 BY <1>1, AxisFacts DEF Axes
<1>3. NoPoint \notin E /\ p \in E /\ \A ix \in Axes : LineOf(D, p, ix) \subseteq E
  BY <1>1, NoPointFacts, LineOfFacts
<1>4. PICK f : UpdatedBy(f, n, p, E) /\ UpdateTab(n, p) = f[N] BY <1>0, <1>1, <1>3, UpdateDef
<1>5. f \in [0 .. N -> Ptrs(E)] /\ f[0] = n /\ \A k \in Axes : f[k + 1] = UpdateAlong(f[k], p, k)
  BY <1>1, <1>4 DEF UpdatedBy
<1> DEFINE State(m, ix, k) == \/ AxisDone(m, D, p, ix)
                              \/ AxisOpen(m, D, p, ix) /\ (ix < k => ~Known(p, ix))
           A == {k \in Nat : k <= N => \A ix \in Axes : State(f[k], ix, k)}
<1>6. 0 \in A
  <2>1. \A ix \in Axes : ~(ix < 0) BY <1>2
  <2> QED BY <2>1, <1>0, <1>5
<1>7. ASSUME NEW k \in Nat, k \in A PROVE k + 1 \in A
  <2> SUFFICES ASSUME k + 1 <= N, NEW ix \in Axes PROVE State(f[k + 1], ix, k + 1)
    OBVIOUS
  <2>1. k \in Axes /\ k \in 0 .. N /\ k <= N BY <1>2
  <2>2. PICK a, b : a = f[k] /\ b = f[k + 1] OBVIOUS
  <2>3. a \in Ptrs(E) /\ b = UpdateAlong(a, p, k) /\ \A jx \in Axes : State(a, jx, k)
    BY <2>1, <2>2, <1>5, <1>7
  <2>4. AxisOpen(a, D, p, k) \/ AxisDone(a, D, p, k) BY <2>1, <2>3
  <2>5. CASE ~(Alone(a, p, k) /\ Known(p, k))
    <3>1. b = a BY <2>3, <2>5 DEF UpdateAlong
    <3>2. State(b, k, k + 1) BY <3>1, <2>4, <2>5 DEF AxisOpen, AxisDone
    <3>3. ix # k => (ix < k + 1 <=> ix < k) BY <2>1, <1>2
    <3>4. State(a, ix, k) BY <2>3
    <3> QED BY <3>1, <3>2, <3>3, <3>4, <2>2
  <2>6. CASE Alone(a, p, k) /\ Known(p, k)
    <3>1. b = Connect(a, p, ref[k][Line(p, k)], k) BY <2>3, <2>6 DEF UpdateAlong
    <3>2. AxisOpen(a, D, p, k) BY <2>4, <2>6 DEF AxisDone
    <3>3. Connected1(b, a, D, p, k) BY <3>1, <3>2, <2>1, <2>3, <2>6, <1>0, <1>1, ConnectKeeps
    <3>4. CASE ix = k
      <4>1. AxisDone(b, D, p, ix) BY <3>3, <3>4 DEF Connected1
      <4> QED BY <4>1, <2>2
    <3>5. CASE ix # k
      <4>1. SameAlong(b, a, E, ix) BY <3>3, <3>5, <1>1 DEF Connected1, Elsewhere
      <4>2. ix < k + 1 <=> ix < k BY <3>5, <2>1, <1>2
      <4>3. State(a, ix, k) BY <2>3
      <4> QED BY <4>1, <4>2, <4>3, <2>2, <1>1, SameAlongKeeps
    <3> QED BY <3>4, <3>5
  <2> QED BY <2>5, <2>6
<1>8. Nat \subseteq A
  <2> HIDE DEF A
  <2> QED BY <1>6, <1>7, SetInduction
<1>9. N \in A /\ N <= N /\ f[N] \in Ptrs(E) BY <1>2, <1>5, <1>8
<1>10. ASSUME NEW ix \in Axes PROVE State(f[N], ix, N) /\ ix < N BY <1>2, <1>9
<1> QED BY <1>1, <1>4, <1>9, <1>10 DEF Ending
-----------------------------------------------------------------------------
(* What get_val is given for a new point is on its lines, and made already. *)

(* The first index of a point of the block that is not made yet. *)
NextIndex(m) ==
  /\ m \in 1 .. Len(PointSeq(cur)) /\ NewPoint = PointSeq(cur)[m]
  /\ \A j \in 1 .. m - 1 : PointSeq(cur)[j] \in DOMAIN val
  /\ SelectInSeq(PointSeq(cur), LAMBDA q : q = NewPoint) = m

LEMMA IndexFacts ==
  ASSUME GoodBox(cur), Missing(cur) # {}
  PROVE  \E m : NextIndex(m)
<1>1. PICK m, s : m = Min(Missing(cur)) /\ s = PointSeq(cur) OBVIOUS
<1>2. Missing(cur) \subseteq Nat /\ Missing(cur) = {i \in 1 .. Len(s) : s[i] \notin DOMAIN val}
  BY <1>1 DEF Missing
<1>3. m \in Missing(cur) /\ \A i \in Missing(cur) : m <= i BY <1>1, <1>2, MinFacts
<1>4. m \in Nat /\ m \in 1 .. Len(s) /\ s[m] \notin DOMAIN val /\ NewPoint = s[m]
  BY <1>1, <1>2, <1>3 DEF NewPoint
<1>5. Len(s) \in Nat
  <2>1. s \in Seq([Axes -> Int]) BY <1>1, GoodFacts, PointSeqFacts
  <2> QED BY <2>1
<1>6. ASSUME NEW j \in 1 .. m - 1 PROVE s[j] \in DOMAIN val
  <2>1. j \in 1 .. Len(s) /\ ~(m <= j) BY <1>4, <1>5
  <2> QED BY <2>1, <1>2, <1>3
<1>7. PICK I : I = {i \in 1 .. Len(s) : s[i] = s[m]} OBVIOUS
<1>8. I \subseteq Nat /\ m \in I /\ I \subseteq Missing(cur) BY <1>2, <1>4, <1>7
<1>9. Min(I) \in I /\ \A i \in I : Min(I) <= i BY <1>8, MinFacts
<1>10. Min(I) = m
  <2>1. Min(I) <= m /\ m <= Min(I) /\ Min(I) \in Nat BY <1>3, <1>8, <1>9
  <2> QED BY <2>1, <1>4
<1>11. SelectInSeq(s, LAMBDA q : q = NewPoint) = IF I # {} THEN Min(I) ELSE 0
  BY <1>4, <1>7 DEF SelectInSeq
<1> QED BY <1>1, <1>4, <1>6, <1>8, <1>10, <1>11 DEF NextIndex

LEMMA CornerAt ==
  ASSUME NEW b, NEW i, NEW ix \in Axes
  PROVE  Corner(b, i)[ix] = b.x[ix] + (2 * Bit(i, ix) - 1) * b.w[ix]
BY DEF Corner

LEMMA SameCorner ==
  ASSUME NEW b, NEW c, NEW i, NEW j,
         \A ix \in Axes : Corner(b, i)[ix] = Corner(c, j)[ix]
  PROVE  Corner(b, i) = Corner(c, j)
BY DEF Corner

(* A corner of the half on its own side of the split axis is a corner of the  *)
(* whole.                                                                    *)
LEMMA CornerOfWhole ==
  ASSUME NEW b, NEW h, GoodBox(b), GoodBox(h), NEW s \in Axes, NEW o \in {0, 1}, h = Half(b, s, o),
         NEW i, Bit(i, s) = o
  PROVE  Corner(h, i) = Corner(b, i)
<1>1. /\ b.w[s] = 2 * h.w[s] /\ h.w[s] \in Nat
      /\ h.x[s] = b.x[s] + (2 * o - 1) * h.w[s]
      /\ \A jx \in Axes \ {s} : h.w[jx] = b.w[jx] /\ h.x[jx] = b.x[jx]
  BY HalfExact
<1>2. b.x[s] \in Int BY GoodFacts
<1>3. ASSUME NEW ix \in Axes PROVE Corner(h, i)[ix] = Corner(b, i)[ix]
  <2>1. CASE ix = s
    <3>1. PICK u, v, x : u = h.w[s] /\ v = h.x[s] /\ x = b.x[s] OBVIOUS
    <3>2. u \in Nat /\ x \in Int /\ v = x + (2 * o - 1) * u BY <3>1, <1>1, <1>2
    <3>3. v + (2 * o - 1) * u = x + (2 * o - 1) * (2 * u)
      <4>1. CASE o = 0 BY <4>1, <3>2
      <4>2. CASE o = 1 BY <4>2, <3>2
      <4> QED BY <4>1, <4>2
    <3>4. Corner(h, i)[s] = v + (2 * o - 1) * u BY <3>1, CornerAt
    <3>5. Corner(b, i)[s] = x + (2 * o - 1) * (2 * u) BY <3>1, <1>1, CornerAt
    <3> QED BY <2>1, <3>3, <3>4, <3>5
  <2>2. CASE ix # s BY <2>2, <1>1, CornerAt
  <2> QED BY <2>1, <2>2
<1> QED BY <1>3, SameCorner

(* The face between two brothers has its corners in both. *)
LEMMA CornerOfBrother ==
  ASSUME NEW b \in Box, NEW s \in Axes, NEW h, NEW t, h = Half(b, s, 1), t = Half(b, s, 0),
         NEW i \in 0 .. Pow2[Dim] - 1, Bit(i, s) = 0
  PROVE  Corner(h, i) = Corner(t, Flip(i, s))
<1>1. IsHalf(h, b, s, 1) /\ IsHalf(t, b, s, 0) BY HalfFacts
<1>2. PICK w, x : w = b.w[s] \div 2 /\ x = b.x[s] OBVIOUS
<1>3. w \in Int /\ x \in Int
  <2>1. b.w[s] \in Int /\ b.x[s] \in Int BY DEF Box
  <2> QED BY <2>1, <1>2
<1>4. h.w[s] = w /\ h.x[s] = x + w /\ t.w[s] = w /\ t.x[s] = x - w
  <2>1. h.w[s] = w /\ h.x[s] = x + (2 * 1 - 1) * w /\ t.w[s] = w /\ t.x[s] = x + (2 * 0 - 1) * w
    BY <1>1, <1>2 DEF IsHalf
  <2> QED BY <2>1, <1>3
<1>5. \A jx \in Axes \ {s} : h.w[jx] = t.w[jx] /\ h.x[jx] = t.x[jx] BY <1>1 DEF IsHalf
<1>6. Bit(Flip(i, s), s) = 1 /\ \A jx \in Axes \ {s} : Bit(Flip(i, s), jx) = Bit(i, jx)
  <2>1. Bit(Flip(i, s), s) = 1 - Bit(i, s) BY FlipFacts
  <2> QED BY <2>1, FlipFacts
<1>7. ASSUME NEW ix \in Axes PROVE Corner(h, i)[ix] = Corner(t, Flip(i, s))[ix]
  <2>1. CASE ix = s
    <3>1. Corner(h, i)[s] = (x + w) + (2 * 0 - 1) * w BY <1>4, CornerAt
    <3>2. Corner(t, Flip(i, s))[s] = (x - w) + (2 * 1 - 1) * w BY <1>4, <1>6, CornerAt
    <3> QED BY <2>1, <3>1, <3>2, <1>3
  <2>2. CASE ix # s BY <2>2, <1>5, <1>6, CornerAt
  <2> QED BY <2>1, <2>2
<1> QED BY <1>7, SameCorner

(* The corner at the other end of an edge, when the code has it to give. *)
LEMMA CornerMade ==
  ASSUME TableInv, cur # NoBox, cur.path # << >>,
         NEW k \in 0 .. Pow2[Dim] - 1, \A j \in 1 .. k + 1 : PointSeq(cur)[j] \in DOMAIN val,
         NEW f \in 0 .. Pow2[Dim] - 1, HasCorner(cur, k, f)
  PROVE  Corner(cur, f) \in DOMAIN val
<1>1. GoodBox(cur) /\ Placed(cells, cur) /\ cur \in Box /\ cur.path \in Path
  BY GoodFacts DEF TableInv, BuildInv
<1>2. PICK up, s, o : up = Parent(cur.path) /\ s = Last(cur.path)[1] /\ o = Last(cur.path)[2] OBVIOUS
<1>3. s \in Axes /\ o \in {0, 1} /\ Side(cur.path) = o BY <1>1, <1>2, PathParent DEF Step
<1>4. up \in DOMAIN cells /\ cells[up].split = s /\ cur = Half(BoxIn(cells, up), s, o)
  BY <1>1, <1>2 DEF Placed
<1>5. CellsOK(cells, val) BY DEF TableInv
<1>6. PICK b : b = BoxIn(cells, up) OBVIOUS
<1>7. GoodBox(b) /\ b \in Box /\ PointSet(b) \subseteq DOMAIN val /\ Tree(cells) /\ up \in Path
  BY <1>4, <1>5, <1>6, CellFacts DEF CellOK
<1>8. f \in Nat /\ Bit(f, s) \in {0, 1}
  <2>1. f \in Nat BY Pow2Def, AxisFacts
  <2> QED BY <2>1, <1>3, BitFacts
<1>9. CASE f < k
  <2>1. PICK n : n = Pow2[Dim] OBVIOUS
  <2>2. n \in Nat /\ k \in 0 .. n - 1 /\ f \in 0 .. n - 1 BY <2>1, Pow2Def, AxisFacts
  <2>3. f + 1 \in 1 .. n /\ (f + 1) - 1 = f /\ 1 + (f + 1) \in 1 .. k + 1 BY <1>9, <2>2
  <2>4. PointSeq(cur)[1 + (f + 1)] = Corner(cur, f) BY <2>1, <2>3, <1>1, PointSeqFacts
  <2> QED BY <2>3, <2>4
<1>10. CASE Bit(f, s) = o
  <2>1. Corner(cur, f) = Corner(b, f) BY <1>10, <1>1, <1>3, <1>4, <1>6, <1>7, CornerOfWhole
  <2>2. Corner(b, f) \in PointSet(b) BY <1>7, PointSetFacts
  <2> QED BY <2>1, <2>2, <1>7
<1>11. CASE o = 1 /\ Bit(f, s) = 0
  <2>1. PICK t : t = Child(up, s, 0) OBVIOUS
  <2>2. t \in DOMAIN cells
    <3>1. Twin(cur.path, 0) \in DOMAIN cells BY <1>3, <1>11 DEF TableInv, BuildInv
    <3> QED BY <3>1, <2>1, <1>2 DEF Twin
  <2>3. t # << >> /\ Parent(t) = up /\ Last(t)[1] = s /\ Last(t)[2] = 0 BY <2>1, <1>3, <1>7, ChildFacts
  <2>4. BoxIn(cells, t) = Half(b, s, 0) BY <2>2, <2>3, <1>6, <1>7, ParentIn
  <2>5. Corner(cur, f) = Corner(BoxIn(cells, t), Flip(f, s))
    BY <2>4, <1>3, <1>4, <1>6, <1>7, <1>11, CornerOfBrother
  <2>6. BoxIn(cells, t) \in Box /\ PointSet(BoxIn(cells, t)) \subseteq DOMAIN val
    BY <2>2, <1>5, CellFacts DEF CellOK
  <2>7. Flip(f, s) \in 0 .. Pow2[Dim] - 1 BY <1>3, FlipFacts
  <2>8. Corner(BoxIn(cells, t), Flip(f, s)) \in PointSet(BoxIn(cells, t)) BY <2>6, <2>7, PointSetFacts
  <2> QED BY <2>5, <2>6, <2>8
<1> QED BY <1>2, <1>3, <1>8, <1>9, <1>10, <1>11 DEF HasCorner

LEMMA RefsFacts ==
  ASSUME TableInv, cur # NoBox, Missing(cur) # {}, NEW ix \in Axes
  PROVE  \/ RefsOf(cur, NewPoint)[ix] = NoPoint
         \/ RefsOf(cur, NewPoint)[ix] \in LineOf(DOMAIN val, NewPoint, ix)
<1>1. GoodBox(cur) BY DEF TableInv, BuildInv
<1>2. cur \in Box BY <1>1, GoodFacts
<1>3. PICK m : NextIndex(m) BY <1>1, IndexFacts
<1>4. /\ m \in 1 .. Len(PointSeq(cur)) /\ NewPoint = PointSeq(cur)[m]
      /\ \A j \in 1 .. m - 1 : PointSeq(cur)[j] \in DOMAIN val
      /\ SelectInSeq(PointSeq(cur), LAMBDA q : q = NewPoint) = m
  BY <1>3 DEF NextIndex
<1>5. PICK n, k, p : n = Pow2[Dim] /\ k = m - 2 /\ p = NewPoint OBVIOUS
<1>6. n \in Nat \ {0} /\ Dim \in Nat \ {0} BY <1>5, Pow2Def, AxisFacts
<1>7. m \in 1 .. 1 + n + 2 * Dim /\ m \in Nat /\ k \in Int /\ m - 1 = k + 1
  <2>1. Len(PointSeq(cur)) = 1 + n + 2 * Dim BY <1>2, <1>5, PointSeqFacts
  <2>2. m \in 1 .. 1 + n + 2 * Dim BY <2>1, <1>4
  <2> QED BY <2>2, <1>5, <1>6
<1>8. PICK r : r = RefsOf(cur, p)[ix] OBVIOUS
<1>9. r = IF k < 0 THEN NoPoint
          ELSE IF k < n THEN IF cur.path # << >> /\ HasCorner(cur, k, Flip(k, ix))
                               THEN Corner(cur, Flip(k, ix)) ELSE NoPoint
          ELSE IF (k - n) \div 2 = ix THEN cur.x ELSE NoPoint
  BY <1>4, <1>5, <1>8 DEF RefsOf
<1>10. CASE k < 0 BY <1>5, <1>8, <1>9, <1>10
<1>11. CASE 0 <= k /\ k < n
  <2>1. CASE ~(cur.path # << >> /\ HasCorner(cur, k, Flip(k, ix)))
    <3>1. r = NoPoint BY <2>1, <1>7, <1>9, <1>11
    <3> QED BY <3>1, <1>5, <1>8
  <2>2. CASE cur.path # << >> /\ HasCorner(cur, k, Flip(k, ix))
    <3>1. k \in 0 .. Pow2[Dim] - 1 BY <1>5, <1>6, <1>7, <1>11
    <3>2. PICK f : f = Flip(k, ix) OBVIOUS
    <3>3. f \in 0 .. Pow2[Dim] - 1 /\ \A jx \in Axes \ {ix} : Bit(f, jx) = Bit(k, jx)
      BY <3>1, <3>2, FlipFacts
    <3>4. r = Corner(cur, f) BY <2>2, <3>2, <1>7, <1>9, <1>11
    <3>5. \A j \in 1 .. k + 1 : PointSeq(cur)[j] \in DOMAIN val BY <1>4, <1>7
    <3>6. r \in DOMAIN val BY <2>2, <3>1, <3>2, <3>3, <3>4, <3>5, CornerMade
    <3>7. p = Corner(cur, k)
      <4>1. k + 1 \in 1 .. n /\ (k + 1) - 1 = k /\ 1 + (k + 1) = m BY <1>5, <1>6, <1>7, <1>11
      <4> QED BY <4>1, <1>2, <1>4, <1>5, PointSeqFacts
    <3>8. SameLine(p, r, ix) BY <3>3, <3>4, <3>7, CornerAt DEF SameLine
    <3> QED BY <3>6, <3>8, <1>5, <1>8 DEF LineOf
  <2> QED BY <2>1, <2>2
<1>12. CASE k >= n
  <2>1. CASE (k - n) \div 2 # ix
    <3>1. r = NoPoint BY <2>1, <1>6, <1>7, <1>9, <1>12
    <3> QED BY <3>1, <1>5, <1>8
  <2>2. CASE (k - n) \div 2 = ix
    <3>1. r = cur.x BY <2>2, <1>6, <1>7, <1>9, <1>12
    <3>2. r \in DOMAIN val
      <4>1. 1 \in 1 .. m - 1 /\ PointSeq(cur)[1] = cur.x BY <1>2, <1>5, <1>6, <1>7, <1>12, PointSeqFacts
      <4> QED BY <4>1, <3>1, <1>4
    <3>3. PICK i, o : i = m - 1 - n /\ o = (i - 1) % 2 OBVIOUS
    <3>4. i \in 1 .. 2 * Dim /\ i - 1 = k - n /\ 1 + n + i = m BY <3>3, <1>5, <1>6, <1>7, <1>12
    <3>5. p = SideOf(cur, ix, o)
      <4>1. PointSeq(cur)[1 + n + i] = SideOf(cur, (i - 1) \div 2, (i - 1) % 2)
        BY <3>4, <1>2, <1>5, PointSeqFacts
      <4> QED BY <4>1, <3>3, <3>4, <2>2, <1>4, <1>5
    <3>6. SameLine(p, r, ix)
      <4>1. cur.x \in [Axes -> Int] BY <1>2 DEF Box
      <4> QED BY <4>1, <3>1, <3>5 DEF SameLine, SideOf
    <3> QED BY <3>2, <3>6, <1>5, <1>8 DEF LineOf
  <2> QED BY <2>1, <2>2
<1> QED BY <1>6, <1>7, <1>10, <1>11, <1>12
-----------------------------------------------------------------------------
(* The lines of the table, and what ref_tab has of them. *)
LineInv ==
  /\ nb \in Ptrs(DOMAIN val)
  /\ \A ix \in Axes :
       /\ Sorted(nb, DOMAIN val, ix)
       /\ \A q \in DOMAIN val : Known(q, ix)
       /\ \A l \in DOMAIN ref[ix] : ref[ix][l] \in DOMAIN val /\ Line(ref[ix][l], ix) = l

LEMMA FreshFacts ==
  ASSUME NEW D, D \subseteq Point, NEW p \in Point, p \notin D,
         nb \in Ptrs(D), \A ix \in Axes : Sorted(nb, D, ix)
  PROVE  Fresh0(p) \in Ptrs(D \cup {p}) /\ \A ix \in Axes : AxisOpen(Fresh0(p), D, p, ix)
<1>1. PICK F, S, z : F = Fresh0(p) /\ S = Axes \X Dirs /\ z = [s \in S |-> NoPoint] OBVIOUS
<1>2. nb \in [D -> [S -> D \cup {NoPoint}]] BY <1>1 DEF Ptrs
<1>3. F = [q \in D \cup {p} |-> IF q = p THEN z ELSE nb[q]] BY <1>1, <1>2 DEF Fresh0, Extend
<1>4. F[p] = z /\ \A q \in D : F[q] = nb[q] BY <1>3
<1>5. F \in Ptrs(D \cup {p})
  <2>1. z \in [S -> (D \cup {p}) \cup {NoPoint}] BY <1>1
  <2>2. \A q \in D : nb[q] \in [S -> (D \cup {p}) \cup {NoPoint}] BY <1>2
  <2>3. F \in [D \cup {p} -> [S -> (D \cup {p}) \cup {NoPoint}]] BY <2>1, <2>2, <1>3
  <2> QED BY <2>3, <1>1 DEF Ptrs
<1>6. ASSUME NEW ix \in Axes PROVE AxisOpen(F, D, p, ix)
  <2>1. Sorted(F, D, ix) BY <1>4 DEF Sorted
  <2>2. ASSUME NEW d \in Dirs PROVE F[p][<<ix, d>>] = NoPoint
    <3>1. PICK s : s = <<ix, d>> OBVIOUS
    <3>2. s \in S BY <3>1, <1>1
    <3> QED BY <3>1, <3>2, <1>1, <1>4
  <2> QED BY <2>1, <2>2 DEF AxisOpen, Alone
<1> QED BY <1>1, <1>5, <1>6

(* A point alone on its line is sorted. *)
LEMMA NewLine ==
  ASSUME NEW D, D \subseteq Point, NEW p \in Point, p \notin D, NEW ix \in Axes, NEW n,
         AxisOpen(n, D, p, ix), LineOf(D, p, ix) = {}
  PROVE  Sorted(n, D \cup {p}, ix)
<1>1. PICK E : E = D \cup {p} OBVIOUS
<1>2. \A q \in D : ~SameLine(p, q, ix) /\ ~SameLine(q, p, ix) BY DEF LineOf, SameLine
<1>3. ASSUME NEW q \in E, NEW e \in Dirs PROVE NearestAhead(q, n[q][<<ix, e>>], ix, e, LineOf(E, q, ix))
  <2>1. CASE q \in D
    <3>1. LineOf(E, q, ix) = LineOf(D, q, ix) BY <2>1, <1>1, <1>2 DEF LineOf
    <3> QED BY <2>1, <3>1 DEF AxisOpen, Sorted
  <2>2. CASE q = p
    <3>1. LineOf(E, p, ix) = {p} BY <1>1, <1>2 DEF LineOf, SameLine
    <3>2. n[p][<<ix, e>>] = NoPoint BY <1>3 DEF AxisOpen, Alone
    <3>3. ~Ahead(p, p, ix, e)
      <4>1. Ahead(p, p, ix, e) <=> IF e = 1 THEN p[ix] > p[ix] ELSE p[ix] < p[ix] BY <1>3, AheadIs
      <4>2. p[ix] \in Int BY PointFacts
      <4> QED BY <4>1, <4>2
    <3> QED BY <2>2, <3>1, <3>2, <3>3 DEF NearestAhead
  <2> QED BY <2>1, <2>2, <1>1
<1> QED BY <1>1, <1>3 DEF Sorted

(* The whole of get_val for one new point *)
LEMMA LinkKeeps ==
  ASSUME TableInv, LineInv, LAddPoint
  PROVE  LineInv'
<1>1. PICK D, p, refs : D = DOMAIN val /\ p = NewPoint /\ refs = RefsOf(cur, p) OBVIOUS
<1>2. cur # NoBox /\ Missing(cur) # {} /\ Link /\ AddPoint BY DEF LAddPoint, AddPoint
<1>3. GoodBox(cur) /\ D \subseteq Point BY <1>1, <1>2 DEF TableInv, BuildInv, TypeInv, ValOK
<1>4. p \in Point /\ p \notin D BY <1>1, <1>2, <1>3, NewPointFacts
<1>5. DOMAIN val' = D \cup {p}
  <2>1. PICK v, c : val' = Extend([q \in DOMAIN val |-> IF q \in DOMAIN c THEN c[q] ELSE val[q]], p, v)
    BY <1>1, <1>2 DEF AddPoint
  <2> QED BY <2>1, <1>1 DEF Extend
<1>6. /\ nb \in Ptrs(D)
      /\ \A ix \in Axes : /\ Sorted(nb, D, ix)
                          /\ \A q \in D : Known(q, ix)
                          /\ \A l \in DOMAIN ref[ix] : ref[ix][l] \in D /\ Line(ref[ix][l], ix) = l
  BY <1>1 DEF LineInv
<1>7. PICK F, g, u : F = Fresh0(p) /\ g = Given(F, p, refs) /\ u = UpdateTab(g, p) OBVIOUS
<1>8. /\ nb' = u
      /\ ref' = [ix \in Axes |-> IF Alone(g, p, ix) /\ ~Known(p, ix)
                                   THEN Extend(ref[ix], Line(p, ix), p) ELSE ref[ix]]
  BY <1>1, <1>2, <1>7 DEF Link
<1>9. F \in Ptrs(D \cup {p}) /\ \A ix \in Axes : AxisOpen(F, D, p, ix) BY <1>3, <1>4, <1>6, <1>7, FreshFacts
<1>10. \A ix \in Axes : refs[ix] = NoPoint \/ refs[ix] \in LineOf(D, p, ix) BY <1>1, <1>2, RefsFacts
<1>11. /\ g \in Ptrs(D \cup {p})
       /\ \A ix \in Axes : IF refs[ix] = NoPoint THEN AxisOpen(g, D, p, ix) ELSE AxisDone(g, D, p, ix)
  BY <1>3, <1>4, <1>7, <1>9, <1>10, GivenKeeps
<1>12. ASSUME NEW ix \in Axes, Known(p, ix) PROVE ref[ix][Line(p, ix)] \in LineOf(D, p, ix)
  <2>1. PICK r : r = ref[ix][Line(p, ix)] OBVIOUS
  <2>2. r \in D /\ Line(r, ix) = Line(p, ix) BY <2>1, <1>6, <1>12 DEF Known
  <2>3. SameLine(p, r, ix) BY <2>2, <1>3, <1>4, LineEqual
  <2> QED BY <2>1, <2>2, <2>3 DEF LineOf
<1>13. /\ u \in Ptrs(D \cup {p})
       /\ \A ix \in Axes : \/ AxisDone(u, D, p, ix)
                           \/ AxisOpen(u, D, p, ix) /\ ~Known(p, ix)
  <2>1. \A ix \in Axes : AxisOpen(g, D, p, ix) \/ AxisDone(g, D, p, ix) BY <1>11
  <2>2. RefRight(D, p) BY <1>12 DEF RefRight
  <2>3. Underway(g, D, p) BY <2>1, <1>11 DEF Underway
  <2>4. Ending(u, D, p) BY <2>2, <2>3, <1>3, <1>4, <1>7, UpdateKeeps
  <2> QED BY <2>4 DEF Ending
<1>14. ASSUME NEW ix \in Axes, NEW r \in LineOf(D, p, ix) PROVE Known(p, ix)
  <2>1. r \in D /\ r \in Point /\ SameLine(p, r, ix) BY <1>3, <1>14 DEF LineOf
  <2>2. Line(p, ix) = Line(r, ix) BY <2>1, <1>4, LineEqual
  <2>3. Known(r, ix) BY <2>1, <1>6
  <2> QED BY <2>2, <2>3 DEF Known
<1>15. ASSUME NEW ix \in Axes PROVE Sorted(u, D \cup {p}, ix)
  <2>1. CASE AxisDone(u, D, p, ix) BY <2>1 DEF AxisDone
  <2>2. CASE AxisOpen(u, D, p, ix) /\ ~Known(p, ix)
    <3>1. LineOf(D, p, ix) = {} BY <2>2, <1>14
    <3> QED BY <2>2, <3>1, <1>3, <1>4, NewLine
  <2> QED BY <2>1, <2>2, <1>13
<1>16. ASSUME NEW ix \in Axes, Alone(g, p, ix), ~Known(p, ix)
       PROVE  /\ \A q \in D \cup {p} : Line(q, ix) \in DOMAIN ref'[ix]
              /\ \A l \in DOMAIN ref'[ix] : ref'[ix][l] \in D \cup {p} /\ Line(ref'[ix][l], ix) = l
  <2>1. PICK k : k = Line(p, ix) OBVIOUS
  <2>2. ref'[ix] = [l \in DOMAIN ref[ix] \cup {k} |-> IF l = k THEN p ELSE ref[ix][l]]
    BY <2>1, <1>8, <1>16 DEF Extend
  <2>3. \A q \in D : Line(q, ix) \in DOMAIN ref[ix] BY <1>6 DEF Known
  <2>4. DOMAIN ref'[ix] = DOMAIN ref[ix] \cup {k} BY <2>2
  <2>5. ASSUME NEW l \in DOMAIN ref'[ix] PROVE ref'[ix][l] \in D \cup {p} /\ Line(ref'[ix][l], ix) = l
    <3>1. CASE l = k
      <4>1. ref'[ix][l] = p BY <2>2, <2>4, <3>1
      <4> QED BY <4>1, <3>1, <2>1
    <3>2. CASE l # k
      <4>1. l \in DOMAIN ref[ix] /\ ref'[ix][l] = ref[ix][l] BY <2>2, <2>4, <2>5, <3>2
      <4> QED BY <4>1, <1>6
    <3> QED BY <3>1, <3>2
  <2> QED BY <2>1, <2>3, <2>4, <2>5
<1>17. ASSUME NEW ix \in Axes, ~(Alone(g, p, ix) /\ ~Known(p, ix))
       PROVE  /\ \A q \in D \cup {p} : Line(q, ix) \in DOMAIN ref'[ix]
              /\ \A l \in DOMAIN ref'[ix] : ref'[ix][l] \in D \cup {p} /\ Line(ref'[ix][l], ix) = l
  <2>1. ref'[ix] = ref[ix] BY <1>8, <1>17
  <2>2. Known(p, ix)
    <3>1. CASE Known(p, ix) BY <3>1
    <3>2. CASE ~Alone(g, p, ix)
      <4>1. refs[ix] # NoPoint BY <3>2, <1>11 DEF AxisOpen
      <4>2. refs[ix] \in LineOf(D, p, ix) BY <4>1, <1>10
      <4> QED BY <4>2, <1>14
    <3> QED BY <3>1, <3>2, <1>17
  <2> QED BY <2>1, <2>2, <1>6 DEF Known
<1>18. ASSUME NEW ix \in Axes
       PROVE  /\ Sorted(nb', D \cup {p}, ix)
              /\ \A q \in D \cup {p} : Line(q, ix) \in DOMAIN ref'[ix]
              /\ \A l \in DOMAIN ref'[ix] : ref'[ix][l] \in D \cup {p} /\ Line(ref'[ix][l], ix) = l
  BY <1>8, <1>15, <1>16, <1>17
<1>19. PICK E : E = D \cup {p} OBVIOUS
<1>20. nb' \in Ptrs(E) /\ DOMAIN val' = E BY <1>5, <1>8, <1>13, <1>19
<1>21. \A ix \in Axes : /\ Sorted(nb', E, ix)
                        /\ \A q \in E : Known(q, ix)'
                        /\ \A l \in DOMAIN ref'[ix] : ref'[ix][l] \in E /\ Line(ref'[ix][l], ix) = l
  BY <1>18, <1>19 DEF Known
<1> QED BY <1>20, <1>21 DEF LineInv

LEMMA InitLines == ASSUME LInit PROVE LineInv
<1>1. DOMAIN val = {} /\ nb = << >> /\ \A ix \in Axes : ref[ix] = << >> BY DEF LInit, Init
<1>2. nb \in Ptrs({})
  <2>1. << >> \in [{} -> [Axes \X Dirs -> {} \cup {NoPoint}]] OBVIOUS
  <2> QED BY <2>1, <1>1 DEF Ptrs
<1>3. \A ix \in Axes : DOMAIN ref[ix] = {} BY <1>1
<1> QED BY <1>1, <1>2, <1>3 DEF LineInv, Sorted

LEMMA LineStep == ASSUME TableInv, LineInv, [LNext]_<<vars, lineVars>> PROVE LineInv'
<1>1. CASE LAddPoint BY <1>1, LinkKeeps
<1>2. ASSUME UNCHANGED lineVars, val' = val PROVE LineInv'
  <2>1. nb' = nb /\ ref' = ref BY <1>2 DEF lineVars
  <2> QED BY <2>1, <1>2 DEF LineInv, Known
<1>3. CASE Complete /\ UNCHANGED lineVars BY <1>2, <1>3 DEF Complete
<1>4. CASE NoChange /\ UNCHANGED lineVars BY <1>2, <1>4 DEF NoChange
<1>5. CASE Breed /\ UNCHANGED lineVars BY <1>2, <1>5 DEF Breed
<1>6. CASE EndPass /\ UNCHANGED lineVars BY <1>2, <1>6 DEF EndPass
<1>7. CASE (\E b \in refresh : Refresh(b) \/ Revive(b)) /\ UNCHANGED lineVars
  BY <1>2, <1>7 DEF Refresh, Revive
<1>8. CASE Resume /\ UNCHANGED lineVars BY <1>2, <1>8 DEF Resume
<1>9. CASE (StoreBlock \/ Stored \/ ReadBlock \/ Loaded) /\ UNCHANGED lineVars
  BY <1>2, <1>9 DEF StoreBlock, Stored, ReadBlock, Loaded, treeVars
<1>10. CASE (Finished \/ UNCHANGED vars) /\ UNCHANGED lineVars
  <2>1. UNCHANGED vars BY <1>10 DEF Finished
  <2> QED BY <2>1, <1>2, <1>10 DEF vars
<1> QED BY <1>1, <1>3, <1>4, <1>5, <1>6, <1>7, <1>8, <1>9, <1>10 DEF LNext

LEMMA LinesHold == ASSUME TypeInv, LineInv PROVE LinesSound
<1>1. DOMAIN nb = DOMAIN val BY DEF LineInv, Ptrs
<1>2. PICK D : D = DOMAIN val OBVIOUS
<1>3. D \subseteq Point BY <1>2 DEF TypeInv, ValOK
<1>4. ASSUME NEW ix \in Axes, NEW l \in DOMAIN ref[ix], NEW line, line = {q \in D : Line(q, ix) = l},
             NEW q \in line, NEW d \in Dirs
      PROVE  IsNearest(q, nb[q][<<ix, d>>], ix, d, line)
  <2>1. q \in D /\ q \in Point /\ Line(q, ix) = l /\ line \subseteq Point BY <1>3, <1>4
  <2>2. \A r \in D : Line(r, ix) = l <=> SameLine(q, r, ix)
    <3>1. ASSUME NEW r \in D PROVE Line(q, ix) = Line(r, ix) <=> SameLine(q, r, ix)
      BY <2>1, <3>1, <1>3, LineEqual
    <3> QED BY <2>1, <3>1
  <2>3. line = LineOf(D, q, ix) BY <2>2, <1>4 DEF LineOf
  <2>4. NearestAhead(q, nb[q][<<ix, d>>], ix, d, line) BY <2>1, <2>3, <1>2, <1>4 DEF LineInv, Sorted
  <2> QED BY <2>1, <2>4, NearestIs
<1>5. \A ix \in Axes : /\ \A q \in D : Known(q, ix)
                       /\ \A l \in DOMAIN ref[ix] : ref[ix][l] \in {q \in D : Line(q, ix) = l}
  BY <1>2 DEF LineInv
<1> QED BY <1>1, <1>2, <1>4, <1>5 DEF LinesSound

(* However the points come and whatever get_val is given for them, every     *)
(* pointer leads to the nearest point of its line on that side, the lists    *)
(* leave nobody out, and ref_tab has a point of every line of the table.     *)
THEOREM LinesAreSound == LSpec => []LinesSound
<1>1. LInit => LineInv BY InitLines
<1>2. IInv /\ LineInv /\ [LNext]_<<vars, lineVars>> => LineInv' BY LineStep DEF IInv
<1>3. LSpec => []LineInv BY <1>1, <1>2, TableOfLines, PTL DEF LSpec
<1>4. IInv /\ LineInv => LinesSound BY LinesHold DEF IInv, TableInv
<1> QED BY <1>3, <1>4, TableOfLines, PTL
=============================================================================
