----------------------------- MODULE KDInterpProofs -----------------------------
(***************************************************************************)
(* Proofs about KDInterp, for every dimension, range of values, tolerance, *)
(* function and correction: the table keeps its shape while blocks are     *)
(* killed and revived, no two live blocks have the same centre, and the    *)
(* file is read back as it was stored.                                     *)
(*                                                                         *)
(* First come facts about one block and its values: powers of two, the     *)
(* points of a block, the axis get_ix_split chooses, and how deep it can   *)
(* lead.                                                                   *)
(***************************************************************************)
EXTENDS KDInterp, TLAPS, NaturalsInduction, WellFoundedInduction, FiniteSetTheorems, SequenceTheorems

(* Induction in the form of sets of numbers. *)
LEMMA Least ==
  ASSUME NEW A, A \subseteq Nat, A # {}
  PROVE  \E m \in A : \A k \in A : m <= k
<1>1. PICK m \in A : \A k \in A : ~(<<k, m>> \in OpToRel(<, Nat))
  <2>1. IsWellFoundedOn(OpToRel(<, Nat), Nat) BY NatLessThanWellFounded
  <2> QED BY <2>1, WFMin
<1>2. ASSUME NEW k \in A, k < m PROVE FALSE
  <2>1. <<k, m>> \in OpToRel(<, Nat) BY <1>2 DEF OpToRel
  <2> QED BY <2>1, <1>1
<1> QED BY <1>2

LEMMA SetInduction ==
  ASSUME NEW A, 0 \in A, \A n \in Nat : n \in A => n + 1 \in A
  PROVE  Nat \subseteq A
<1> SUFFICES ASSUME Nat \ A # {} PROVE FALSE
  OBVIOUS
<1>1. PICK m \in Nat \ A : \A k \in Nat \ A : m <= k
  <2>1. Nat \ A \subseteq Nat OBVIOUS
  <2> QED BY <2>1, Least
<1>2. m # 0 /\ m - 1 \in Nat /\ m - 1 \in A
  BY <1>1
<1>3. (m - 1) + 1 \in A BY <1>2
<1> QED BY <1>2, <1>3

(* What a loop computes, step by step: h, from s0 by the steps of g. *)
Computes(h, S, s0, g) ==
  /\ h \in [Nat -> S] /\ h[0] = s0
  /\ \A k \in Nat : h[k + 1] = g[k][h[k]]

LEMMA Iteration ==
  ASSUME NEW S, NEW s0, s0 \in S, NEW g, g \in [Nat -> [S -> S]]
  PROVE  \E h : Computes(h, S, s0, g)
<1> DEFINE Upto(n, h) == /\ h \in [0 .. n -> S] /\ h[0] = s0
                         /\ \A k \in 0 .. n - 1 : h[k + 1] = g[k][h[k]]
           A == {n \in Nat : \E h : Upto(n, h)}
<1>1. 0 \in A
  <2>1. Upto(0, [k \in 0 .. 0 |-> s0]) OBVIOUS
  <2> QED BY <2>1
<1>2. ASSUME NEW n \in Nat, n \in A PROVE n + 1 \in A
  <2>1. PICK h : Upto(n, h) BY <1>2
  <2>2. PICK e : e = [k \in 0 .. n + 1 |-> IF k = n + 1 THEN g[n][h[n]] ELSE h[k]] OBVIOUS
  <2>3. g[n][h[n]] \in S BY <2>1
  <2>4. e \in [0 .. n + 1 -> S] BY <2>1, <2>2, <2>3
  <2>5. e[0] = s0 BY <2>1, <2>2
  <2>6. ASSUME NEW k \in 0 .. n PROVE e[k + 1] = g[k][e[k]]
    <3>0. k + 1 \in 0 .. n + 1 /\ k \in 0 .. n + 1 /\ k # n + 1 OBVIOUS
    <3>1. CASE k = n
      <4>1. e[k + 1] = g[n][h[n]] BY <3>0, <3>1, <2>2
      <4>2. e[k] = h[n] BY <3>0, <3>1, <2>2
      <4> QED BY <3>1, <4>1, <4>2
    <3>2. CASE k # n BY <3>0, <3>2, <2>1, <2>2
    <3> QED BY <3>1, <3>2
  <2>7. Upto(n + 1, e) BY <2>4, <2>5, <2>6
  <2> QED BY <2>7
<1>3. Nat \subseteq A
  <2> HIDE DEF A
  <2> QED BY <1>1, <1>2, SetInduction
<1>4. ASSUME NEW n \in Nat, NEW m \in Nat, NEW f, NEW h, Upto(n, f), Upto(m, h)
      PROVE  \A k \in Nat : k <= n /\ k <= m => f[k] = h[k]
  <2> DEFINE E == {k \in Nat : k <= n /\ k <= m => f[k] = h[k]}
  <2>1. 0 \in E BY <1>4
  <2>2. ASSUME NEW k \in Nat, k \in E PROVE k + 1 \in E
    <3> SUFFICES ASSUME k + 1 <= n, k + 1 <= m PROVE f[k + 1] = h[k + 1] OBVIOUS
    <3>1. k \in 0 .. n - 1 /\ k \in 0 .. m - 1 OBVIOUS
    <3>2. f[k] = h[k] BY <2>2, <3>1
    <3> QED BY <1>4, <3>1, <3>2
  <2>3. Nat \subseteq E
    <3> HIDE DEF E
    <3> QED BY <2>1, <2>2, SetInduction
  <2> QED BY <2>3
<1> DEFINE H(n) == CHOOSE h : Upto(n, h)
<1>5. ASSUME NEW n \in Nat PROVE Upto(n, H(n))
  <2>1. \E h : Upto(n, h) BY <1>3
  <2> HIDE DEF Upto
  <2> QED BY <2>1
<1>6. PICK e : e = [n \in Nat |-> H(n)[n]] OBVIOUS
<1> HIDE DEF H
<1>7. e \in [Nat -> S]
  <2>1. ASSUME NEW n \in Nat PROVE H(n)[n] \in S BY <1>5
  <2> QED BY <1>6, <2>1
<1>8. e[0] = s0 BY <1>5, <1>6
<1>9. ASSUME NEW k \in Nat PROVE e[k + 1] = g[k][e[k]]
  <2>1. e[k] = H(k)[k] /\ e[k + 1] = H(k + 1)[k + 1] BY <1>6
  <2>2. Upto(k, H(k)) /\ Upto(k + 1, H(k + 1)) BY <1>5
  <2>3. H(k)[k] = H(k + 1)[k]
    <3> HIDE DEF Upto
    <3> QED BY <2>2, <1>4
  <2>4. H(k + 1)[k + 1] = g[k][H(k + 1)[k]]
    BY <2>2
  <2> QED BY <2>1, <2>3, <2>4
<1> QED BY <1>7, <1>8, <1>9 DEF Computes
-----------------------------------------------------------------------------
(* Powers of two *)

LEMMA Pow2Def ==
  /\ Pow2[0] = 1
  /\ \A n \in Nat : Pow2[n] \in Nat \ {0} /\ Pow2[n + 1] = 2 * Pow2[n]
<1>1. PICK g : g = [k \in Nat |-> [s \in Nat |-> 2 * s]] OBVIOUS
<1>2. \A k \in Nat, s \in Nat : g[k][s] = 2 * s
  BY <1>1
<1>3. PICK h \in [Nat -> Nat] : h[0] = 1 /\ \A k \in Nat : h[k + 1] = g[k][h[k]]
  <2>1. g \in [Nat -> [Nat -> Nat]] BY <1>1
  <2>2. PICK S, one : S = Nat /\ one = 1 OBVIOUS
  <2>3. one \in S /\ g \in [Nat -> [S -> S]] BY <2>1, <2>2
  <2>4. \E h : Computes(h, S, one, g) BY <2>3, Iteration
  <2> QED BY <2>2, <2>4 DEF Computes
<1>4. \A k \in Nat : h[k + 1] = 2 * h[k]
  BY <1>2, <1>3
<1>5. h = [n \in Nat |-> IF n = 0 THEN 1 ELSE 2 * h[n - 1]]
  <2>1. ASSUME NEW n \in Nat PROVE h[n] = IF n = 0 THEN 1 ELSE 2 * h[n - 1]
    <3>1. CASE n = 0 BY <3>1, <1>3
    <3>2. CASE n # 0
      <4>1. n - 1 \in Nat /\ (n - 1) + 1 = n BY <3>2
      <4> QED BY <4>1, <3>2, <1>4
    <3> QED BY <3>1, <3>2
  <2> QED BY <2>1, <1>3
<1>6. Pow2 = [n \in Nat |-> IF n = 0 THEN 1 ELSE 2 * Pow2[n - 1]]
  BY <1>5 DEF Pow2
<1>7. Pow2[0] = 1 BY <1>6
<1>8. ASSUME NEW n \in Nat PROVE Pow2[n + 1] = 2 * Pow2[n]
  <2>1. n + 1 \in Nat /\ n + 1 # 0 /\ (n + 1) - 1 = n OBVIOUS
  <2> QED BY <2>1, <1>6
<1>9. Nat \subseteq {n \in Nat : Pow2[n] \in Nat \ {0}}
  <2> DEFINE A == {n \in Nat : Pow2[n] \in Nat \ {0}}
  <2>1. 0 \in A BY <1>7
  <2>2. \A n \in Nat : n \in A => n + 1 \in A BY <1>8
  <2> HIDE DEF A
  <2>3. Nat \subseteq A BY <2>1, <2>2, SetInduction
  <2> QED BY <2>3 DEF A
<1> QED BY <1>7, <1>8, <1>9

LEMMA Pow2Monotone ==
  ASSUME NEW m \in Nat, NEW n \in Nat, m <= n
  PROVE  Pow2[m] <= Pow2[n]
<1> DEFINE A == {k \in Nat : Pow2[m] <= Pow2[m + k]}
<1>1. 0 \in A BY Pow2Def
<1>2. ASSUME NEW k \in Nat, k \in A PROVE k + 1 \in A
  <2>1. m + k \in Nat /\ m + (k + 1) = (m + k) + 1 OBVIOUS
  <2>2. Pow2[m] \in Nat /\ Pow2[m + k] \in Nat /\ Pow2[(m + k) + 1] = 2 * Pow2[m + k]
    BY <2>1, Pow2Def
  <2> QED BY <1>2, <2>1, <2>2
<1>3. Nat \subseteq A
  <2> HIDE DEF A
  <2> QED BY <1>1, <1>2, SetInduction
<1>4. n - m \in Nat /\ m + (n - m) = n OBVIOUS
<1> QED BY <1>3, <1>4
-----------------------------------------------------------------------------
(* Sequences *)

Joined(u, s, t) ==
  /\ Len(u) = Len(s) + Len(t)
  /\ \A i \in 1 .. Len(s) : u[i] = s[i]
  /\ \A i \in 1 .. Len(t) : u[Len(s) + i] = t[i]

LEMMA Concat ==
  ASSUME NEW S, NEW s \in Seq(S), NEW t \in Seq(S)
  PROVE  s \o t \in Seq(S) /\ Joined(s \o t, s, t)
<1>1. Len(s) \in Nat /\ Len(t) \in Nat OBVIOUS
<1>2. \A i \in 1 .. Len(s) + Len(t) : (s \o t)[i] = IF i <= Len(s) THEN s[i] ELSE t[i - Len(s)]
  BY ConcatProperties
<1>3. ASSUME NEW i \in 1 .. Len(t) PROVE (s \o t)[Len(s) + i] = t[i]
  <2>1. /\ Len(s) + i \in 1 .. Len(s) + Len(t) /\ ~(Len(s) + i <= Len(s))
        /\ (Len(s) + i) - Len(s) = i
    BY <1>1
  <2> QED BY <2>1, <1>2
<1>4. ASSUME NEW i \in 1 .. Len(s) PROVE (s \o t)[i] = s[i]
  <2>1. i \in 1 .. Len(s) + Len(t) /\ i <= Len(s) BY <1>1
  <2> QED BY <2>1, <1>2
<1> QED BY <1>3, <1>4, ConcatProperties DEF Joined
-----------------------------------------------------------------------------
(* Blocks, and the points they have *)

Path == Seq(Axes \X {0, 1})
Box  == [path : Path, x : [Axes -> Int], w : [Axes -> Int]]

LEMMA AxisFacts ==
  /\ Dim \in Nat \ {0} /\ 0 \in Axes /\ None \notin Axes
  /\ \A n \in Nat : n % Dim \in Axes
<1>1. Dim \in Nat \ {0} BY ConstantsAssumption
<1>2. \A n \in Nat : n % Dim \in 0 .. Dim - 1 BY <1>1
<1> QED BY <1>1, <1>2 DEF Axes, None

LEMMA BitFacts ==
  ASSUME NEW i \in Nat, NEW ix \in Axes
  PROVE  Bit(i, ix) \in {0, 1}
<1>1. ix \in Nat BY AxisFacts DEF Axes
<1>2. Pow2[ix] \in Nat \ {0} BY <1>1, Pow2Def
<1>3. i \div Pow2[ix] \in Int BY <1>2
<1> QED BY <1>3 DEF Bit

LEMMA PointSeqFacts ==
  ASSUME NEW b \in Box
  PROVE  /\ Len(PointSeq(b)) = 1 + Pow2[Dim] + 2 * Dim
         /\ PointSeq(b) \in Seq([Axes -> Int])
         /\ PointSeq(b)[1] = b.x
         /\ \A i \in 1 .. Pow2[Dim] : PointSeq(b)[1 + i] = Corner(b, i - 1)
         /\ \A i \in 1 .. 2 * Dim :
              PointSeq(b)[1 + Pow2[Dim] + i] = SideOf(b, (i - 1) \div 2, (i - 1) % 2)
<1> DEFINE PP == [Axes -> Int]
<1>1. b.x \in PP /\ b.w \in PP BY DEF Box
<1>2. PICK n : n = Pow2[Dim] OBVIOUS
<1>3. n \in Nat \ {0} /\ Dim \in Nat \ {0} BY <1>2, Pow2Def, AxisFacts
<1>4. ASSUME NEW i \in 1 .. n PROVE Corner(b, i - 1) \in PP
  <2>1. ASSUME NEW ix \in Axes PROVE b.x[ix] + (2 * Bit(i - 1, ix) - 1) * b.w[ix] \in Int
    <3>1. i - 1 \in Nat BY <1>3
    <3>2. 2 * Bit(i - 1, ix) - 1 = 1 \/ 2 * Bit(i - 1, ix) - 1 = -1 BY <3>1, BitFacts
    <3>3. b.x[ix] \in Int /\ b.w[ix] \in Int BY <1>1
    <3> QED BY <3>2, <3>3
  <2> QED BY <2>1 DEF Corner
<1>5. ASSUME NEW i \in 1 .. 2 * Dim PROVE SideOf(b, (i - 1) \div 2, (i - 1) % 2) \in PP
  <2>1. PICK ix, o : ix = (i - 1) \div 2 /\ o = (i - 1) % 2 OBVIOUS
  <2>2. ix \in Axes /\ o \in {0, 1} BY <1>3, <2>1 DEF Axes
  <2>3. b.x[ix] \in Int /\ b.w[ix] \in Int BY <1>1, <2>2
  <2>4. b.x[ix] + (2 * o - 1) * b.w[ix] \in Int BY <2>2, <2>3
  <2>5. SideOf(b, ix, o) \in PP BY <1>1, <2>2, <2>4 DEF SideOf
  <2> QED BY <2>1, <2>5
<1>6. Corners(b) \in Seq(PP) /\ Len(Corners(b)) = n /\ \A i \in 1 .. n : Corners(b)[i] = Corner(b, i - 1)
  <2>1. Corners(b) = [i \in 1 .. n |-> Corner(b, i - 1)] BY <1>2 DEF Corners
  <2>2. Corners(b) \in [1 .. n -> PP] BY <2>1, <1>4
  <2> QED BY <2>1, <2>2, <1>3
<1>7. /\ Sides(b) \in Seq(PP) /\ Len(Sides(b)) = 2 * Dim
      /\ \A i \in 1 .. 2 * Dim : Sides(b)[i] = SideOf(b, (i - 1) \div 2, (i - 1) % 2)
  <2>1. PICK m : m = 2 * Dim OBVIOUS
  <2>2. Sides(b) = [i \in 1 .. m |-> SideOf(b, (i - 1) \div 2, (i - 1) % 2)] BY <2>1 DEF Sides
  <2>3. Sides(b) \in [1 .. m -> PP] BY <2>1, <2>2, <1>5
  <2> QED BY <2>1, <2>2, <2>3, <1>3
<1> HIDE DEF PP
<1>8. PICK c, d : c = Corners(b) /\ d = Sides(b) OBVIOUS
<1>9. c \in Seq(PP) /\ d \in Seq(PP) /\ Len(c) = n /\ Len(d) = 2 * Dim BY <1>6, <1>7, <1>8
<1>10. PICK a : a = <<b.x>> OBVIOUS
<1>11. a \in Seq(PP) /\ Len(a) = 1 /\ a[1] = b.x BY <1>1, <1>10
<1>12. PICK ac : ac = a \o c OBVIOUS
<1>13. ac \in Seq(PP) /\ Len(ac) = 1 + n /\ ac[1] = b.x /\ \A i \in 1 .. n : ac[1 + i] = c[i]
  <2>1. ac \in Seq(PP) /\ Joined(ac, a, c)
    BY <1>9, <1>11, <1>12, Concat
  <2>2. 1 \in 1 .. Len(a) BY <1>11
  <2> QED BY <2>1, <2>2, <1>9, <1>11 DEF Joined
<1>14. PointSeq(b) = ac \o d BY <1>8, <1>10, <1>12 DEF PointSeq
<1>15. /\ ac \o d \in Seq(PP) /\ Len(ac \o d) = 1 + n + 2 * Dim /\ (ac \o d)[1] = ac[1]
       /\ \A i \in 1 .. n : (ac \o d)[1 + i] = ac[1 + i]
       /\ \A i \in 1 .. 2 * Dim : (ac \o d)[1 + n + i] = d[i]
  <2>1. ac \o d \in Seq(PP) /\ Joined(ac \o d, ac, d)
    BY <1>9, <1>13, Concat
  <2>2. 1 \in 1 .. Len(ac) /\ \A i \in 1 .. n : 1 + i \in 1 .. Len(ac) BY <1>3, <1>13
  <2> QED BY <2>1, <2>2, <1>9, <1>13 DEF Joined
<1>16. \A i \in 1 .. n : c[i] = Corner(b, i - 1) BY <1>6, <1>8
<1>17. \A i \in 1 .. 2 * Dim : d[i] = SideOf(b, (i - 1) \div 2, (i - 1) % 2) BY <1>7, <1>8
<1> QED BY <1>2, <1>13, <1>14, <1>15, <1>16, <1>17 DEF PP

LEMMA PointSetFacts ==
  ASSUME NEW b \in Box
  PROVE  /\ PointSet(b) = {PointSeq(b)[i] : i \in 1 .. Len(PointSeq(b))}
         /\ PointSet(b) \subseteq [Axes -> Int]
         /\ b.x \in PointSet(b)
         /\ \A i \in 0 .. Pow2[Dim] - 1 : Corner(b, i) \in PointSet(b)
         /\ \A ix \in Axes, o \in {0, 1} : SideOf(b, ix, o) \in PointSet(b)
<1> DEFINE PP == [Axes -> Int]
<1>1. PICK n, q, m : n = Pow2[Dim] /\ q = PointSeq(b) /\ m = 2 * Dim OBVIOUS
<1>2. n \in Nat \ {0} /\ m \in Nat /\ Dim \in Nat \ {0} /\ m = 2 * Dim BY <1>1, Pow2Def, AxisFacts
<1>3. /\ Len(q) = 1 + n + m /\ q \in Seq(PP) /\ q[1] = b.x
      /\ \A i \in 1 .. n : q[1 + i] = Corner(b, i - 1)
      /\ \A i \in 1 .. m : q[1 + n + i] = SideOf(b, (i - 1) \div 2, (i - 1) % 2)
  BY <1>1, PointSeqFacts
<1> HIDE DEF PP
<1>4. DOMAIN q = 1 .. Len(q) /\ \A i \in 1 .. Len(q) : q[i] \in PP
  BY <1>3
<1>5. PointSet(b) = {q[i] : i \in 1 .. Len(q)} BY <1>1, <1>4 DEF PointSet, ToSet
<1>6. b.x \in PointSet(b)
  <2>1. 1 \in 1 .. Len(q) BY <1>2, <1>3
  <2> QED BY <2>1, <1>3, <1>5
<1>7. ASSUME NEW i \in 0 .. n - 1 PROVE Corner(b, i) \in PointSet(b)
  <2>1. i + 1 \in 1 .. n /\ (i + 1) - 1 = i /\ 1 + (i + 1) \in 1 .. Len(q) BY <1>2, <1>3
  <2>2. q[1 + (i + 1)] = Corner(b, i) BY <2>1, <1>3
  <2> QED BY <2>1, <2>2, <1>5
<1>8. ASSUME NEW ix \in Axes, NEW o \in {0, 1} PROVE SideOf(b, ix, o) \in PointSet(b)
  <2>1. PICK i : i = 2 * ix + o + 1 OBVIOUS
  <2>2. ix \in Int /\ 0 <= ix /\ ix <= Dim - 1 BY <1>2 DEF Axes
  <2>3. i \in 1 .. m /\ (i - 1) \div 2 = ix /\ (i - 1) % 2 = o BY <2>1, <2>2, <1>2
  <2>4. 1 + n + i \in 1 .. Len(q) BY <2>3, <1>2, <1>3
  <2>5. q[1 + n + i] = SideOf(b, ix, o) BY <2>3, <1>3
  <2> QED BY <2>4, <2>5, <1>5
<1> QED BY <1>1, <1>4, <1>5, <1>6, <1>7, <1>8 DEF PP

(* The points of a block lie in the block. *)
LEMMA PointsInside ==
  ASSUME NEW b \in Box, NEW u \in Nat,
         \A ix \in Axes : b.w[ix] >= 0 /\ -u <= b.x[ix] - b.w[ix] /\ b.x[ix] + b.w[ix] <= u
  PROVE  PointSet(b) \subseteq [Axes -> -u .. u]
<1> DEFINE Q == [Axes -> -u .. u]
<1>0. ASSUME NEW ix \in Axes
      PROVE  b.x[ix] \in -u .. u /\ b.x[ix] - b.w[ix] \in -u .. u /\ b.x[ix] + b.w[ix] \in -u .. u
  <2>1. b.x[ix] \in Int /\ b.w[ix] \in Int BY DEF Box
  <2> QED BY <2>1
<1>1. b.x \in [Axes -> Int] /\ b.w \in [Axes -> Int] BY DEF Box
<1>2. b.x \in Q BY <1>0, <1>1
<1>3. ASSUME NEW i \in Nat PROVE Corner(b, i) \in Q
  <2>1. ASSUME NEW ix \in Axes PROVE b.x[ix] + (2 * Bit(i, ix) - 1) * b.w[ix] \in -u .. u
    <3>1. 2 * Bit(i, ix) - 1 = 1 \/ 2 * Bit(i, ix) - 1 = -1 BY BitFacts
    <3>2. b.x[ix] \in Int /\ b.w[ix] \in Int BY <1>1
    <3> QED BY <3>1, <3>2, <1>0
  <2> QED BY <2>1 DEF Corner
<1>4. ASSUME NEW ix \in Axes, NEW o \in {0, 1} PROVE SideOf(b, ix, o) \in Q
  <2>1. b.x[ix] \in Int /\ b.w[ix] \in Int BY <1>1
  <2>2. b.x[ix] + (2 * o - 1) * b.w[ix] \in -u .. u
    <3>1. CASE o = 0 BY <3>1, <2>1, <1>0
    <3>2. CASE o = 1 BY <3>2, <2>1, <1>0
    <3> QED BY <3>1, <3>2
  <2> QED BY <2>2, <1>2 DEF SideOf
<1> HIDE DEF Q
<1>5. PICK n, q, m : n = Pow2[Dim] /\ q = PointSeq(b) /\ m = 2 * Dim OBVIOUS
<1>6. n \in Nat \ {0} /\ m \in Nat /\ Dim \in Nat \ {0} /\ m = 2 * Dim BY <1>5, Pow2Def, AxisFacts
<1>7. /\ Len(q) = 1 + n + m /\ q[1] = b.x
      /\ \A i \in 1 .. n : q[1 + i] = Corner(b, i - 1)
      /\ \A i \in 1 .. m : q[1 + n + i] = SideOf(b, (i - 1) \div 2, (i - 1) % 2)
  BY <1>5, PointSeqFacts
<1>8. ASSUME NEW i \in 1 .. Len(q) PROVE q[i] \in Q
  <2>1. CASE i = 1 BY <2>1, <1>2, <1>7
  <2>2. CASE i \in 2 .. 1 + n
    <3>1. i - 1 \in 1 .. n /\ 1 + (i - 1) = i /\ (i - 1) - 1 \in Nat BY <2>2, <1>6
    <3> QED BY <3>1, <1>7, <1>3
  <2>3. CASE i > 1 + n
    <3>1. PICK j : j = i - (1 + n) OBVIOUS
    <3>0. i \in Int /\ i <= 1 + n + m /\ n \in Int /\ m \in Int BY <1>6, <1>7
    <3>2. j \in 1 .. m /\ 1 + n + j = i BY ONLY <3>0, <3>1, <2>3
    <3>3. PICK ix, o : ix = (j - 1) \div 2 /\ o = (j - 1) % 2 OBVIOUS
    <3>4. j \in 1 .. 2 * Dim BY <3>2, <1>6
    <3>5. ix \in Axes /\ o \in {0, 1} BY <3>3, <3>4, <1>6 DEF Axes
    <3> QED BY <3>2, <3>3, <3>5, <1>7, <1>4
  <2> QED BY <2>1, <2>2, <2>3, <1>6, <1>7
<1>9. PointSet(b) = {q[i] : i \in 1 .. Len(q)} BY <1>5, PointSetFacts
<1> QED BY <1>8, <1>9 DEF Q
-----------------------------------------------------------------------------
(* Halvings of a path *)

LEMMA HalvingsFacts ==
  ASSUME NEW p \in Path, NEW ix \in Axes
  PROVE  /\ IsFiniteSet({k \in 1 .. Len(p) : p[k][1] = ix})
         /\ Halvings(p, ix) \in Nat
<1>1. Len(p) \in Nat BY DEF Path
<1>2. IsFiniteSet(1 .. Len(p)) BY <1>1, FS_Interval
<1>3. IsFiniteSet({k \in 1 .. Len(p) : p[k][1] = ix}) BY <1>2, FS_Subset
<1> QED BY <1>3, FS_CardinalityType DEF Halvings

LEMMA HalvingsRoot ==
  ASSUME NEW ix \in Axes PROVE Halvings(<< >>, ix) = 0
<1>1. {k \in 1 .. Len(<< >>) : << >>[k][1] = ix} = {} OBVIOUS
<1> QED BY <1>1, FS_EmptySet DEF Halvings

LEMMA HalvingsAppend ==
  ASSUME NEW p \in Path, NEW ix \in Axes, NEW jx \in Axes, NEW o \in {0, 1}
  PROVE  Halvings(Append(p, <<ix, o>>), jx) = Halvings(p, jx) + (IF jx = ix THEN 1 ELSE 0)
<1> DEFINE e == <<ix, o>>
<1>1. PICK n, q : n = Len(p) /\ q = Append(p, e) OBVIOUS
<1>2. n \in Nat /\ p \in Seq(Axes \X {0, 1}) BY <1>1 DEF Path
<1>3. e \in Axes \X {0, 1} /\ e[1] = ix OBVIOUS
<1> HIDE DEF e
<1>4. Len(q) = n + 1 /\ q[n + 1] = e /\ \A k \in 1 .. n : q[k] = p[k]
  BY <1>1, <1>2, <1>3, AppendProperties
<1>5. PICK A, B : A = {k \in 1 .. n : p[k][1] = jx} /\ B = {k \in 1 .. n + 1 : q[k][1] = jx} OBVIOUS
<1>6. IsFiniteSet(A) /\ Halvings(p, jx) = Cardinality(A) BY <1>1, <1>5, HalvingsFacts DEF Halvings
<1>7. Halvings(q, jx) = Cardinality(B) BY <1>4, <1>5 DEF Halvings
<1>8. CASE jx = ix
  <2>1. B = A \cup {n + 1} /\ n + 1 \notin A
    BY <1>2, <1>3, <1>4, <1>5, <1>8
  <2>2. Cardinality(B) = Cardinality(A) + 1 BY <2>1, <1>6, FS_AddElement
  <2> QED BY <2>2, <1>1, <1>6, <1>7, <1>8 DEF e
<1>9. CASE jx # ix
  <2>1. B = A BY <1>2, <1>3, <1>4, <1>5, <1>9
  <2>2. Cardinality(A) \in Nat BY <1>6, FS_CardinalityType
  <2> QED BY <2>1, <2>2, <1>1, <1>6, <1>7, <1>9 DEF e
<1> QED BY <1>8, <1>9
-----------------------------------------------------------------------------
(* The error at the corners: a sum over the axes. *)

LEMMA SumExists ==
  ASSUME NEW h, h \in [Axes -> Int]
  PROVE  \E e : e = [k \in 0 .. Dim |-> IF k = 0 THEN 0 ELSE e[k - 1] + h[k - 1]]
<1>1. PICK g : g = [k \in Nat |-> [s \in Int |-> s + (IF k \in Axes THEN h[k] ELSE 0)]] OBVIOUS
<1>2. PICK S, zero : S = Int /\ zero = 0 OBVIOUS
<1>3. zero \in S /\ g \in [Nat -> [S -> S]]
  <2>1. ASSUME NEW k \in Nat, NEW s \in Int PROVE s + (IF k \in Axes THEN h[k] ELSE 0) \in Int
    OBVIOUS
  <2> QED BY <1>1, <1>2, <2>1
<1>4. PICK f : Computes(f, S, zero, g) BY <1>3, Iteration
<1>5. f \in [Nat -> Int] /\ f[0] = 0 /\ \A k \in Nat : f[k + 1] = g[k][f[k]]
  BY <1>2, <1>4 DEF Computes
<1>6. \A k \in Axes : f[k + 1] = f[k] + h[k]
  <2>1. ASSUME NEW k \in Axes PROVE f[k + 1] = f[k] + h[k]
    <3>1. k \in Nat BY AxisFacts DEF Axes
    <3>2. f[k] \in Int BY <3>1, <1>5
    <3>3. g[k][f[k]] = f[k] + h[k] BY <3>1, <3>2, <1>1
    <3> QED BY <3>1, <3>3, <1>5
  <2> QED BY <2>1
<1>7. PICK e : e = [k \in 0 .. Dim |-> f[k]] OBVIOUS
<1>8. ASSUME NEW k \in 0 .. Dim PROVE e[k] = IF k = 0 THEN 0 ELSE e[k - 1] + h[k - 1]
  <2>1. CASE k = 0 BY <2>1, <1>5, <1>7
  <2>2. CASE k # 0
    <3>1. k - 1 \in Axes /\ (k - 1) + 1 = k /\ k - 1 \in 0 .. Dim BY <2>2, AxisFacts DEF Axes
    <3>2. f[k] = f[k - 1] + h[k - 1] BY <3>1, <1>6
    <3> QED BY <2>2, <3>1, <3>2, <1>7
  <2> QED BY <2>1, <2>2
<1>9. e = [k \in 0 .. Dim |-> IF k = 0 THEN 0 ELSE e[k - 1] + h[k - 1]]
  BY <1>7, <1>8
<1> QED BY <1>9

LEMMA SumBound ==
  ASSUME NEW h, h \in [Axes -> Int], NEW lo \in Int, NEW hi \in Int,
         \A ix \in Axes : lo <= h[ix] /\ h[ix] <= hi,
         NEW e, e = [k \in 0 .. Dim |-> IF k = 0 THEN 0 ELSE e[k - 1] + h[k - 1]]
  PROVE  e[Dim] \in Int /\ Dim * lo <= e[Dim] /\ e[Dim] <= Dim * hi
<1> DEFINE A == {k \in Nat : k <= Dim => e[k] \in Int /\ k * lo <= e[k] /\ e[k] <= k * hi}
<1>0. Dim \in Nat BY AxisFacts
<1>1. 0 \in A
  <2>1. e[0] = 0 BY <1>0
  <2> QED BY <2>1
<1>2. ASSUME NEW k \in Nat, k \in A PROVE k + 1 \in A
  <2> SUFFICES ASSUME k + 1 <= Dim
               PROVE  e[k + 1] \in Int /\ (k + 1) * lo <= e[k + 1] /\ e[k + 1] <= (k + 1) * hi
    OBVIOUS
  <2>1. e[k] \in Int /\ k * lo <= e[k] /\ e[k] <= k * hi BY <1>0, <1>2
  <2>2. k \in Axes /\ k + 1 \in 0 .. Dim /\ k + 1 # 0 /\ (k + 1) - 1 = k BY <1>0 DEF Axes
  <2>3. e[k + 1] = e[k] + h[k] BY <2>2
  <2>4. h[k] \in Int /\ lo <= h[k] /\ h[k] <= hi BY <2>2
  <2>5. (k + 1) * lo = k * lo + lo /\ (k + 1) * hi = k * hi + hi OBVIOUS
  <2> QED BY <2>1, <2>3, <2>4, <2>5
<1>3. Nat \subseteq A
  <2> HIDE DEF A
  <2> QED BY <1>1, <1>2, SetInduction
<1>4. Dim \in A
  <2> HIDE DEF A
  <2> QED BY <1>0, <1>3
<1> QED BY <1>0, <1>4

LEMMA Scaled ==
  ASSUME NEW d \in Nat \ {0}, NEW v \in Nat, NEW a \in 0 .. v, NEW c \in 0 .. v
  PROVE  /\ v - d * v <= a + c + d * (c - a) /\ a + c + d * (c - a) <= v + d * v
         /\ v - d * v <= a + c + d * (a - c) /\ a + c + d * (a - c) <= v + d * v
<1>1. d - 1 \in Nat OBVIOUS
<1>2. ASSUME NEW x \in Nat, x <= v PROVE (d - 1) * x <= (d - 1) * v
  BY <1>1, <1>2
<1>3. \A x \in Int : (d - 1) * x = d * x - x OBVIOUS
<1>4. CASE a <= c
  <2>1. PICK x : x = c - a OBVIOUS
  <2>2. x \in Nat /\ x <= v /\ x <= c /\ c = a + x /\ a - c = -x BY <1>4, <2>1
  <2>3. (d - 1) * x <= (d - 1) * v BY <2>2, <1>2
  <2>4. d * x - x <= d * v - v BY <2>2, <2>3, <1>3
  <2>5. d * (-x) = -(d * x) BY <2>2
  <2>6. d * x \in Int /\ d * v \in Int BY <2>2
  <2> QED BY <2>1, <2>2, <2>4, <2>5, <2>6
<1>5. CASE c < a
  <2>1. PICK x : x = a - c OBVIOUS
  <2>2. x \in Nat /\ x <= v /\ x <= a /\ a = c + x /\ c - a = -x BY <1>5, <2>1
  <2>3. (d - 1) * x <= (d - 1) * v BY <2>2, <1>2
  <2>4. d * x - x <= d * v - v BY <2>2, <2>3, <1>3
  <2>5. d * (-x) = -(d * x) BY <2>2
  <2>6. d * x \in Int /\ d * v \in Int BY <2>2
  <2> QED BY <2>1, <2>2, <2>4, <2>5, <2>6
<1> QED BY <1>4, <1>5

LEMMA CornerErrBound ==
  ASSUME NEW b \in Box, NEW s \in [PointSet(b) -> 0 .. V], NEW i \in 0 .. Pow2[Dim] - 1
  PROVE  CornerErr(b, s, i) \in Nat /\ CornerErr(b, s, i) <= Dim * ((Dim + 1) * V)
<1> DEFINE Fit(ix) == s[SideOf(b, ix, 0)] + s[SideOf(b, ix, 1)]
                      + Dim * (2 * Bit(i, ix) - 1) * (s[SideOf(b, ix, 1)] - s[SideOf(b, ix, 0)])
<1>1. PICK h : h = [ix \in Axes |-> Fit(ix)] OBVIOUS
<1>2. Dim \in Nat \ {0} /\ V \in Nat /\ i \in Nat BY AxisFacts, ConstantsAssumption
<1>3. PICK lo, hi : lo = V - Dim * V /\ hi = V + Dim * V OBVIOUS
<1>4. lo \in Int /\ hi \in Int BY <1>2, <1>3
<1>5. ASSUME NEW ix \in Axes PROVE Fit(ix) \in Int /\ lo <= Fit(ix) /\ Fit(ix) <= hi
  <2>1. PICK a, c, d : a = s[SideOf(b, ix, 0)] /\ c = s[SideOf(b, ix, 1)] /\ d = 2 * Bit(i, ix) - 1 OBVIOUS
  <2>2. a \in 0 .. V /\ c \in 0 .. V BY <2>1, PointSetFacts
  <2>3. d = 1 \/ d = -1 BY <2>1, <1>2, BitFacts
  <2>4. Fit(ix) = a + c + Dim * d * (c - a) BY <2>1
  <2>5. lo <= a + c + Dim * (c - a) /\ a + c + Dim * (c - a) <= hi BY <2>2, <1>2, <1>3, Scaled
  <2>6. lo <= a + c + Dim * (a - c) /\ a + c + Dim * (a - c) <= hi BY <2>2, <1>2, <1>3, Scaled
  <2>7. CASE d = 1
    <3>1. Dim * d * (c - a) = Dim * (c - a) BY <2>2, <2>7, <1>2
    <3>2. Dim * (c - a) \in Int BY <2>2, <1>2
    <3> QED BY <2>2, <2>4, <2>5, <3>1, <3>2
  <2>8. CASE d = -1
    <3>1. Dim * d * (c - a) = Dim * (a - c) BY <2>2, <2>8, <1>2
    <3>2. Dim * (a - c) \in Int BY <2>2, <1>2
    <3> QED BY <2>2, <2>4, <2>6, <3>1, <3>2
  <2> QED BY <2>3, <2>7, <2>8
<1>6. h \in [Axes -> Int] /\ \A ix \in Axes : lo <= h[ix] /\ h[ix] <= hi
  <2> HIDE DEF Fit
  <2> QED BY <1>1, <1>5
<1>7. PICK e : e = CHOOSE sum : sum = [k \in 0 .. Dim |-> IF k = 0 THEN 0 ELSE sum[k - 1] + Fit(k - 1)]
  OBVIOUS
<1>8. CornerErr(b, s, i) = Abs(2 * Dim * s[Corner(b, i)] - e[Dim])
  BY <1>7 DEF CornerErr
<1> HIDE DEF Fit
<1>9. e = [k \in 0 .. Dim |-> IF k = 0 THEN 0 ELSE e[k - 1] + h[k - 1]]
  <2>1. ASSUME NEW f PROVE [k \in 0 .. Dim |-> IF k = 0 THEN 0 ELSE f[k - 1] + Fit(k - 1)]
                           = [k \in 0 .. Dim |-> IF k = 0 THEN 0 ELSE f[k - 1] + h[k - 1]]
    <3>1. ASSUME NEW k \in 0 .. Dim, k # 0 PROVE h[k - 1] = Fit(k - 1)
      <4>1. k - 1 \in Axes BY <1>2, <3>1 DEF Axes
      <4> QED BY <4>1, <1>1
    <3> QED BY <3>1
  <2>2. PICK f : f = [k \in 0 .. Dim |-> IF k = 0 THEN 0 ELSE f[k - 1] + h[k - 1]]
    BY <1>6, SumExists
  <2>3. f = [k \in 0 .. Dim |-> IF k = 0 THEN 0 ELSE f[k - 1] + Fit(k - 1)] BY <2>1, <2>2
  <2>4. e = [k \in 0 .. Dim |-> IF k = 0 THEN 0 ELSE e[k - 1] + Fit(k - 1)] BY <2>3, <1>7
  <2> QED BY <2>1, <2>4
<1>10. e[Dim] \in Int /\ Dim * lo <= e[Dim] /\ e[Dim] <= Dim * hi
  BY <1>4, <1>6, <1>9, SumBound
<1>11. s[Corner(b, i)] \in 0 .. V BY PointSetFacts
<1>12. PICK c : c = s[Corner(b, i)] OBVIOUS
<1>13. c \in 0 .. V BY <1>11, <1>12
<1>14. PICK dv, dc, ddv : dv = Dim * V /\ dc = Dim * c /\ ddv = Dim * dv OBVIOUS
<1>15. dv \in Nat /\ dc \in Nat /\ ddv \in Nat BY <1>2, <1>13, <1>14
<1>16. dc <= dv BY <1>2, <1>13, <1>14
<1>17. Dim * lo = dv - ddv /\ Dim * hi = dv + ddv BY <1>2, <1>3, <1>14, <1>15
<1>18. 2 * Dim * c = 2 * dc BY <1>2, <1>13, <1>14
<1>19. Dim * ((Dim + 1) * V) = ddv + dv
  <2>1. (Dim + 1) * V = dv + V BY <1>2, <1>14
  <2>2. Dim * (dv + V) = Dim * dv + Dim * V BY <1>2, <1>15
  <2> QED BY <2>1, <2>2, <1>14
<1>20. CornerErr(b, s, i) = Abs(2 * dc - e[Dim]) BY <1>8, <1>12, <1>18
<1> QED BY <1>10, <1>15, <1>16, <1>17, <1>19, <1>20 DEF Abs
-----------------------------------------------------------------------------
(* The split axis *)

LEMMA MinFacts ==
  ASSUME NEW A, A \subseteq Nat, A # {}
  PROVE  Min(A) \in A /\ \A k \in A : Min(A) <= k
<1>1. \E m \in A : \A k \in A : m <= k BY Least
<1> QED BY <1>1 DEF Min

LEMMA TolFacts ==
  ASSUME NEW b \in Box, NEW ix \in Axes
  PROVE  TolLocal(b, ix) \in Nat \ {0} /\ Halvings(b.path, ix) \in Nat
<1>1. PICK n, m, t : n = Halvings(b.path, ix) /\ m = Pow2[n] /\ t = Tol2[ix] OBVIOUS
<1>2. n \in Nat BY <1>1, HalvingsFacts DEF Box
<1>3. m \in Nat \ {0} /\ t \in Nat \ {0} BY <1>1, <1>2, Pow2Def, ConstantsAssumption
<1>4. t * m \in Nat \ {0} BY <1>3
<1> QED BY <1>1, <1>2, <1>4 DEF TolLocal

LEMMA FirstAxisFacts ==
  ASSUME NEW b \in Box
  PROVE  FirstAxis(b) \in Nat
<1>1. CASE b.path = << >>
  BY <1>1, ConstantsAssumption, AxisFacts DEF FirstAxis, Axes
<1>2. CASE b.path # << >>
  <2>1. b.path \in Seq(Axes \X {0, 1}) BY DEF Box, Path
  <2>2. b.path[Len(b.path)] \in Axes \X {0, 1} BY <1>2, <2>1
  <2>3. PICK l : l = Last(b.path)[1] OBVIOUS
  <2>4. l \in Axes BY <2>2, <2>3 DEF Last
  <2>5. l + 1 \in Nat BY <2>4, AxisFacts DEF Axes
  <2> QED BY <1>2, <2>3, <2>5 DEF FirstAxis
<1> QED BY <1>1, <1>2

(* get_ix_split returns an axis or none.  The axis it returns is halved too  *)
(* little for the values to be near the fit, or it is the next axis in turn  *)
(* and some axis is.                                                         *)
Shallow(path, ix, M) == Halvings(path, ix) < M

LEMMA SplitFacts ==
  ASSUME NEW b \in Box, NEW s \in [PointSet(b) -> 0 .. V], NEW M \in Nat, Enough(M)
  PROVE  \/ SplitOf(b, s) = None
         \/ SplitOf(b, s) \in Axes /\ Shallow(b.path, SplitOf(b, s), M)
         \/ /\ SplitOf(b, s) \in Axes /\ SplitOf(b, s) = FirstAxis(b) % Dim
            /\ \E jx \in Axes : Shallow(b.path, jx, M)
<1>1. PICK ix0, wants : /\ ix0 = FirstAxis(b)
                        /\ wants = {ix \in ix0 .. ix0 + Dim - 1 : WantsAxis(b, s, ix % Dim)}
  OBVIOUS
<1>2. ix0 \in Nat /\ Dim \in Nat \ {0} /\ V \in Nat BY <1>1, FirstAxisFacts, ConstantsAssumption
<1>3. SplitOf(b, s) = IF wants # {} THEN Min(wants) % Dim
                      ELSE IF CornersOff(b, s) THEN ix0 % Dim ELSE None
  BY <1>1 DEF SplitOf
<1>4. ASSUME NEW ix \in Axes, ~Shallow(b.path, ix, M)
      PROVE  LevelDepths[ix] <= Halvings(b.path, ix) /\ (Dim + 1) * V <= TolLocal(b, ix)
  <2>1. PICK n : n = Halvings(b.path, ix) OBVIOUS
  <2>2. n \in Nat /\ M <= n BY <2>1, <1>4, TolFacts DEF Shallow
  <2>3. Pow2[M] <= Pow2[n] BY <2>2, Pow2Monotone
  <2>4. LevelDepths[ix] <= M /\ (Dim + 1) * V <= Tol2[ix] * Pow2[M] BY <1>4 DEF Enough
  <2>5. Tol2[ix] \in Nat \ {0} /\ LevelDepths[ix] \in Nat BY ConstantsAssumption
  <2>6. PICK t, x, y : t = Tol2[ix] /\ x = Pow2[M] /\ y = Pow2[n] OBVIOUS
  <2>7. t \in Nat \ {0} /\ x \in Nat /\ y \in Nat /\ x <= y BY <2>2, <2>3, <2>5, <2>6, Pow2Def
  <2>8. t * x <= t * y BY <2>7
  <2>9. PICK z : z = (Dim + 1) * V OBVIOUS
  <2>10. z \in Nat BY <1>2, <2>9
  <2>11. t * x \in Nat /\ t * y \in Nat BY <2>7
  <2>12. z <= t * x BY <2>4, <2>6, <2>9
  <2>13. z <= t * y BY <2>8, <2>10, <2>11, <2>12
  <2>14. TolLocal(b, ix) = t * y BY <2>1, <2>6 DEF TolLocal
  <2> QED BY <2>1, <2>2, <2>4, <2>5, <2>9, <2>13, <2>14
<1>5. ASSUME NEW ix \in Axes, WantsAxis(b, s, ix) PROVE Shallow(b.path, ix, M)
  <2> SUFFICES ASSUME ~Shallow(b.path, ix, M) PROVE FALSE
    OBVIOUS
  <2>1. LevelDepths[ix] <= Halvings(b.path, ix) /\ (Dim + 1) * V <= TolLocal(b, ix) BY <1>4
  <2>2. LevelDepths[ix] \in Nat /\ Halvings(b.path, ix) \in Nat /\ TolLocal(b, ix) \in Nat
    BY ConstantsAssumption, TolFacts
  <2>3. Err2(b, s, ix) > TolLocal(b, ix) BY <1>5, <2>1, <2>2 DEF WantsAxis, Coarse
  <2>4. PICK x, a, c : x = s[b.x] /\ a = s[SideOf(b, ix, 0)] /\ c = s[SideOf(b, ix, 1)] OBVIOUS
  <2>5. x \in 0 .. V /\ a \in 0 .. V /\ c \in 0 .. V BY <2>4, PointSetFacts
  <2>6. Err2(b, s, ix) = Abs(2 * x - a - c) BY <2>4 DEF Err2
  <2>7. Abs(2 * x - a - c) <= 2 * V /\ Abs(2 * x - a - c) \in Nat BY <1>2, <2>5 DEF Abs
  <2>8. 2 * V <= (Dim + 1) * V
    <3>1. PICK d : d = Dim - 1 OBVIOUS
    <3>2. d \in Nat /\ Dim + 1 = d + 2 BY <1>2, <3>1
    <3>3. d * V \in Nat BY <1>2, <3>2
    <3>4. (d + 2) * V = d * V + 2 * V BY <1>2, <3>2
    <3> QED BY <1>2, <3>2, <3>3, <3>4
  <2>9. (Dim + 1) * V \in Nat BY <1>2
  <2> QED BY <1>2, <2>1, <2>2, <2>3, <2>6, <2>7, <2>8, <2>9
<1>6. CASE wants # {}
  <2>1. wants \subseteq Nat BY <1>1, <1>2
  <2>2. Min(wants) \in wants BY <1>6, <2>1, MinFacts
  <2>3. PICK m : m = Min(wants) OBVIOUS
  <2>4. m \in Nat /\ WantsAxis(b, s, m % Dim) BY <1>1, <2>1, <2>2, <2>3
  <2>5. m % Dim \in Axes BY <2>4, AxisFacts
  <2>6. Shallow(b.path, m % Dim, M) BY <2>4, <2>5, <1>5
  <2>7. SplitOf(b, s) = m % Dim BY <1>3, <1>6, <2>3
  <2> QED BY <2>5, <2>6, <2>7
<1>7. CASE wants = {} /\ CornersOff(b, s)
  <2>1. SplitOf(b, s) = ix0 % Dim BY <1>3, <1>7
  <2>2. ix0 % Dim \in Axes BY <1>2, AxisFacts
  <2>3. PICK i \in 0 .. Pow2[Dim] - 1 : CornerErr(b, s, i) > Dim * Min({TolLocal(b, ix) : ix \in Axes})
    BY <1>7 DEF CornersOff
  <2>4. PICK T : T = {TolLocal(b, ix) : ix \in Axes} OBVIOUS
  <2>5. T \subseteq Nat /\ T # {} BY <2>4, TolFacts, AxisFacts
  <2>6. Min(T) \in T BY <2>5, MinFacts
  <2>7. PICK jx \in Axes : Min(T) = TolLocal(b, jx) BY <2>4, <2>6
  <2>8. Shallow(b.path, jx, M)
    <3> SUFFICES ASSUME ~Shallow(b.path, jx, M) PROVE FALSE
      OBVIOUS
    <3>1. PICK z, t, c : z = (Dim + 1) * V /\ t = TolLocal(b, jx) /\ c = CornerErr(b, s, i) OBVIOUS
    <3>2. z <= t BY <1>4, <3>1
    <3>3. z \in Nat /\ t \in Nat /\ c \in Nat BY <1>2, <3>1, TolFacts, CornerErrBound
    <3>4. c <= Dim * z BY <3>1, CornerErrBound
    <3>5. c > Dim * t BY <2>3, <2>4, <2>7, <3>1
    <3>6. Dim * z <= Dim * t BY <1>2, <3>2, <3>3
    <3>7. Dim * z \in Nat /\ Dim * t \in Nat BY <1>2, <3>3
    <3> QED BY <3>3, <3>4, <3>5, <3>6, <3>7
  <2> QED BY <1>1, <2>1, <2>2, <2>8
<1>8. CASE wants = {} /\ ~CornersOff(b, s)
  BY <1>3, <1>8
<1> QED BY <1>6, <1>7, <1>8
-----------------------------------------------------------------------------
(* How deep halving goes.  Beyond Turns halvings an axis is only halved in   *)
(* its turn, right after the axis before it.                                 *)

Turns == CHOOSE M \in 1 .. MaxHalv : Dim * M <= MaxHalv /\ Enough(M)

After(ix) == (ix + 1) % Dim

JustHalved(path, ix) == path # << >> /\ Last(path)[1] = ix

InTurn(path) ==
  \A ix \in Axes : Halvings(path, After(ix)) + (IF JustHalved(path, ix) THEN 1 ELSE 0)
                     <= Turns + Halvings(path, ix)

LEMMA TurnsFacts ==
  Turns \in Nat \ {0} /\ Dim * Turns <= MaxHalv /\ Enough(Turns)
<1>1. /\ Turns \in 1 .. MaxHalv /\ Dim * Turns <= MaxHalv /\ Enough(Turns)
  BY RoomAssumption DEF Turns
<1> QED BY <1>1, ConstantsAssumption

LEMMA AfterFacts ==
  \A ix \in Axes : /\ After(ix) \in Axes
                    /\ After(ix) = IF ix = Dim - 1 THEN 0 ELSE ix + 1
<1> SUFFICES ASSUME NEW ix \in Axes
             PROVE  After(ix) \in Axes /\ After(ix) = IF ix = Dim - 1 THEN 0 ELSE ix + 1
  OBVIOUS
<1>1. Dim \in Nat \ {0} /\ ix \in Nat /\ ix <= Dim - 1 BY AxisFacts DEF Axes
<1>2. CASE ix = Dim - 1
  <2>1. (ix + 1) % Dim = 0 BY <1>1, <1>2
  <2> QED BY <1>2, <2>1, AxisFacts DEF After
<1>3. CASE ix # Dim - 1
  <2>1. ix + 1 \in 0 .. Dim - 1 BY <1>1, <1>3
  <2>2. (ix + 1) % Dim = ix + 1 BY <1>1, <2>1
  <2> QED BY <1>3, <2>1, <2>2 DEF After, Axes
<1> QED BY <1>2, <1>3

LEMMA AfterInjective ==
  ASSUME NEW ix \in Axes, NEW jx \in Axes, After(ix) = After(jx)
  PROVE  ix = jx
<1>1. Dim \in Nat \ {0} /\ ix \in 0 .. Dim - 1 /\ jx \in 0 .. Dim - 1 BY AxisFacts DEF Axes
<1>2. After(ix) = IF ix = Dim - 1 THEN 0 ELSE ix + 1 BY AfterFacts
<1>3. After(jx) = IF jx = Dim - 1 THEN 0 ELSE jx + 1 BY AfterFacts
<1>4. CASE ix = Dim - 1
  <2>1. After(jx) = 0 BY <1>2, <1>4
  <2>2. CASE jx = Dim - 1 BY <2>2, <1>4
  <2>3. CASE jx # Dim - 1
    <3>1. jx + 1 = 0 BY <1>3, <2>1, <2>3
    <3> QED BY <3>1, <1>1
  <2> QED BY <2>2, <2>3
<1>5. CASE ix # Dim - 1
  <2>1. After(ix) = ix + 1 /\ ix + 1 > 0 BY <1>1, <1>2, <1>5
  <2>2. jx # Dim - 1 BY <1>3, <2>1
  <2>3. jx + 1 = ix + 1 BY <1>3, <2>1, <2>2
  <2> QED BY <1>1, <2>3
<1> QED BY <1>4, <1>5

LEMMA DepthBound ==
  ASSUME NEW p \in Path, InTurn(p), NEW jx \in Axes, Shallow(p, jx, Turns)
  PROVE  \A ix \in Axes : Halvings(p, ix) + 1 <= MaxHalv
<1>1. PICK M, d : M = Turns /\ d = Dim OBVIOUS
<1>2. M \in Nat \ {0} /\ d \in Nat \ {0} /\ jx \in 0 .. d - 1 BY <1>1, TurnsFacts, AxisFacts DEF Axes
<1> DEFINE At(j) == IF jx + j < d THEN jx + j ELSE jx + j - d
           A == {j \in Nat : j < d => Halvings(p, At(j)) + 1 <= j * M + M}
<1>3. 0 \in A
  <2>1. At(0) = jx BY <1>2
  <2>2. Halvings(p, jx) \in Nat /\ Halvings(p, jx) < M BY <1>1, HalvingsFacts DEF Shallow
  <2> QED BY <2>1, <2>2, <1>2
<1>4. ASSUME NEW j \in Nat, j \in A PROVE j + 1 \in A
  <2> SUFFICES ASSUME j + 1 < d PROVE Halvings(p, At(j + 1)) + 1 <= (j + 1) * M + M
    OBVIOUS
  <2>1. PICK a, c : a = At(j) /\ c = At(j + 1) OBVIOUS
  <2>2. a \in 0 .. d - 1 /\ c \in 0 .. d - 1 /\ c = IF a = d - 1 THEN 0 ELSE a + 1
    BY <1>2, <2>1
  <2>3. a \in Axes /\ c \in Axes /\ c = After(a) BY <1>1, <2>2, AfterFacts DEF Axes
  <2>4. PICK ha, hc : ha = Halvings(p, a) /\ hc = Halvings(p, c) OBVIOUS
  <2>5. ha \in Nat /\ hc \in Nat BY <2>3, <2>4, HalvingsFacts
  <2>6. hc + (IF JustHalved(p, a) THEN 1 ELSE 0) <= M + ha BY <1>1, <2>3, <2>4 DEF InTurn
  <2>7. hc <= M + ha BY <2>5, <2>6, <1>2
  <2>0. j < d BY <1>2
  <2>8. ha + 1 <= j * M + M BY <2>0, <1>4, <2>1, <2>4
  <2>9. (j + 1) * M = j * M + M BY <1>2
  <2>10. j * M \in Nat BY <1>2
  <2>11. hc + 1 <= (j + 1) * M + M BY <1>2, <2>5, <2>7, <2>8, <2>9, <2>10
  <2> QED BY <2>1, <2>4, <2>11
<1>5. Nat \subseteq A
  <2> HIDE DEF A
  <2> QED BY <1>3, <1>4, SetInduction
<1>6. ASSUME NEW ix \in Axes PROVE Halvings(p, ix) + 1 <= MaxHalv
  <2>1. PICK j : j = IF ix >= jx THEN ix - jx ELSE ix + d - jx OBVIOUS
  <2>2. ix \in 0 .. d - 1 BY <1>1 DEF Axes
  <2>3. j \in Nat /\ j < d /\ At(j) = ix BY <1>2, <2>1, <2>2
  <2>4. j \in A BY <1>5, <2>3
  <2>5. Halvings(p, ix) + 1 <= j * M + M BY <2>3, <2>4
  <2>6. j + 1 <= d BY <1>2, <2>3
  <2>7. (j + 1) * M <= d * M BY <1>2, <2>3, <2>6
  <2>8. (j + 1) * M = j * M + M BY <1>2, <2>3
  <2>9. d * M <= MaxHalv BY <1>1, TurnsFacts
  <2>10. MaxHalv \in Nat /\ Halvings(p, ix) \in Nat BY ConstantsAssumption, HalvingsFacts
  <2>11. d * M \in Nat /\ j * M \in Nat BY <1>2, <2>3
  <2> QED BY <2>5, <2>7, <2>8, <2>9, <2>10, <2>11, <1>2
<1> QED BY <1>6

LEMMA PathAppend ==
  ASSUME NEW p \in Path, NEW ix \in Axes, NEW o \in {0, 1}
  PROVE  /\ Append(p, <<ix, o>>) \in Path /\ Append(p, <<ix, o>>) # << >>
         /\ Len(Append(p, <<ix, o>>)) = Len(p) + 1
         /\ Last(Append(p, <<ix, o>>)) = <<ix, o>>
         /\ Parent(Append(p, <<ix, o>>)) = p
<1>1. PICK e, q : e = <<ix, o>> /\ q = Append(p, e) OBVIOUS
<1>2. e \in Axes \X {0, 1} /\ p \in Seq(Axes \X {0, 1}) BY <1>1 DEF Path
<1>3. /\ q \in Seq(Axes \X {0, 1}) /\ q # << >> /\ Len(q) = Len(p) + 1
      /\ \A i \in 1 .. Len(p) : q[i] = p[i]
      /\ q[Len(p) + 1] = e
  BY <1>1, <1>2, AppendProperties
<1>4. Front(q) = p
  <2>1. Front(q) = SubSeq(q, 1, Len(p)) BY <1>2, <1>3 DEF Front
  <2> QED BY <1>2, <1>3, <2>1
<1> QED BY <1>1, <1>3, <1>4 DEF Path, Last, Parent

(* The axis a path may be prolonged by. *)
MayHalve(p, ix) ==
  \/ Shallow(p, ix, Turns)
  \/ /\ ix = (IF p = << >> THEN IxSplit0 ELSE Last(p)[1] + 1) % Dim
     /\ \E jx \in Axes : Shallow(p, jx, Turns)

LEMMA InTurnRoot ==
  InTurn(<< >>)
<1>1. \A ix \in Axes : Halvings(<< >>, ix) = 0 BY HalvingsRoot
<1>2. ASSUME NEW ix \in Axes PROVE After(ix) \in Axes /\ ~JustHalved(<< >>, ix)
  BY AfterFacts DEF JustHalved
<1> QED BY <1>1, <1>2, TurnsFacts DEF InTurn

LEMMA InTurnAppend ==
  ASSUME NEW p \in Path, InTurn(p), NEW ix \in Axes, NEW o \in {0, 1}, MayHalve(p, ix)
  PROVE  /\ InTurn(Append(p, <<ix, o>>))
         /\ \A jx \in Axes : Halvings(p, jx) + 1 <= MaxHalv
<1>1. PICK q, M : q = Append(p, <<ix, o>>) /\ M = Turns OBVIOUS
<1>2. M \in Nat \ {0} BY <1>1, TurnsFacts
<1>3. q \in Path /\ q # << >> /\ Last(q) = <<ix, o>> BY <1>1, PathAppend
<1>4. \A jx \in Axes : JustHalved(q, jx) <=> jx = ix
  <2>1. Last(q)[1] = ix BY <1>3
  <2> QED BY <1>3, <2>1 DEF JustHalved
<1>5. \A jx \in Axes : Halvings(q, jx) = Halvings(p, jx) + (IF jx = ix THEN 1 ELSE 0)
  BY <1>1, HalvingsAppend
<1>6. ASSUME NEW jx \in Axes
      PROVE  Halvings(q, After(jx)) + (IF JustHalved(q, jx) THEN 1 ELSE 0) <= M + Halvings(q, jx)
  <2>1. PICK t : t = After(jx) OBVIOUS
  <2>2. t \in Axes BY <2>1, AfterFacts
  <2>3. PICK h, ht, k, kt : /\ h = Halvings(p, jx) /\ ht = Halvings(p, t)
                            /\ k = Halvings(q, jx) /\ kt = Halvings(q, t) OBVIOUS
  <2>4. h \in Nat /\ ht \in Nat BY <2>2, <2>3, HalvingsFacts
  <2>5. k = h + (IF jx = ix THEN 1 ELSE 0) /\ kt = ht + (IF t = ix THEN 1 ELSE 0)
    BY <2>2, <2>3, <1>5
  <2>6. ht + (IF JustHalved(p, jx) THEN 1 ELSE 0) <= M + h BY <1>1, <2>1, <2>3 DEF InTurn
  <2>7. ht <= M + h BY <1>2, <2>4, <2>6
  <2>8. CASE t # ix
    <3>1. kt = ht BY <2>4, <2>5, <2>8
    <3>2. CASE jx = ix BY <3>1, <3>2, <1>2, <1>4, <2>1, <2>3, <2>4, <2>5, <2>7
    <3>3. CASE jx # ix BY <3>1, <3>3, <1>2, <1>4, <2>1, <2>3, <2>4, <2>5, <2>7
    <3> QED BY <3>2, <3>3
  <2>9. CASE t = ix
    <3>0. kt = ht + 1 BY <2>5, <2>9
    <3>1. ASSUME ht + 1 <= M + h
          PROVE  kt + (IF JustHalved(q, jx) THEN 1 ELSE 0) <= M + k
      <4>1. CASE jx = ix BY <4>1, <3>0, <3>1, <1>2, <1>4, <2>4, <2>5
      <4>2. CASE jx # ix BY <4>2, <3>0, <3>1, <1>2, <1>4, <2>4, <2>5
      <4> QED BY <4>1, <4>2
    <3>2. CASE Shallow(p, ix, Turns)
      <4>1. ht < M BY <3>2, <2>3, <2>9, <1>1 DEF Shallow
      <4>2. ht + 1 <= M + h BY <4>1, <2>4, <1>2
      <4> QED BY <4>2, <3>1, <2>1, <2>3
    <3>3. CASE p = << >>
      <4>1. ht = 0 BY <3>3, <2>2, <2>3, HalvingsRoot
      <4>2. ht + 1 <= M + h BY <4>1, <2>4, <1>2
      <4> QED BY <4>2, <3>1, <2>1, <2>3
    <3>4. CASE p # << >> /\ ix = (Last(p)[1] + 1) % Dim
      <4>1. PICK l : l = Last(p)[1] OBVIOUS
      <4>2. l \in Axes
        <5>1. p \in Seq(Axes \X {0, 1}) BY DEF Path
        <5>2. p[Len(p)] \in Axes \X {0, 1} BY <5>1, <3>4
        <5> QED BY <5>2, <4>1 DEF Last
      <4>3. After(l) = ix BY <4>1, <3>4 DEF After
      <4>4. l = jx BY <4>2, <4>3, <2>1, <2>9, AfterInjective
      <4>5. JustHalved(p, jx) BY <4>1, <4>4, <3>4 DEF JustHalved
      <4>6. ht + 1 <= M + h BY <4>5, <2>6
      <4> QED BY <4>6, <3>1, <2>1, <2>3
    <3> QED BY <3>2, <3>3, <3>4 DEF MayHalve
  <2> QED BY <2>8, <2>9
<1>7. InTurn(q) BY <1>1, <1>6 DEF InTurn
<1>8. PICK jx \in Axes : Shallow(p, jx, Turns) BY DEF MayHalve
<1>9. \A kx \in Axes : Halvings(p, kx) + 1 <= MaxHalv BY <1>8, DepthBound
<1> QED BY <1>1, <1>7, <1>9
-----------------------------------------------------------------------------
(* Boxes that halving leads to: as wide as their halvings leave them, and    *)
(* inside the table.                                                         *)

Sized(b, ix) ==
  /\ Halvings(b.path, ix) <= MaxHalv
  /\ b.w[ix] = Pow2[MaxHalv - Halvings(b.path, ix)]
  /\ -Unit <= b.x[ix] - b.w[ix] /\ b.x[ix] + b.w[ix] <= Unit

GoodBox(b) == b \in Box /\ InTurn(b.path) /\ \A ix \in Axes : Sized(b, ix)

LEMMA GoodFacts ==
  ASSUME NEW b, GoodBox(b)
  PROVE  /\ b \in Box /\ b.path \in Path
         /\ \A ix \in Axes : b.w[ix] \in Nat \ {0} /\ b.x[ix] \in Int
         /\ PointSet(b) \subseteq Point
<1>1. b \in Box BY DEF GoodBox
<1>2. Unit \in Nat BY Pow2Def, ConstantsAssumption DEF Unit
<1>3. ASSUME NEW ix \in Axes
      PROVE  /\ b.w[ix] \in Nat \ {0} /\ b.x[ix] \in Int
             /\ -Unit <= b.x[ix] - b.w[ix] /\ b.x[ix] + b.w[ix] <= Unit
  <2>1. Halvings(b.path, ix) \in Nat BY <1>1, HalvingsFacts DEF Box
  <2>2. Sized(b, ix) BY DEF GoodBox
  <2>3. MaxHalv - Halvings(b.path, ix) \in Nat BY <2>1, <2>2, ConstantsAssumption DEF Sized
  <2>4. b.w[ix] \in Nat \ {0} BY <2>2, <2>3, Pow2Def DEF Sized
  <2>5. b.x[ix] \in Int BY <1>1 DEF Box
  <2> QED BY <2>2, <2>4, <2>5 DEF Sized
<1>4. PointSet(b) \subseteq [Axes -> -Unit .. Unit]
  <2>1. \A ix \in Axes : b.w[ix] >= 0 /\ -Unit <= b.x[ix] - b.w[ix] /\ b.x[ix] + b.w[ix] <= Unit
    <3>1. ASSUME NEW ix \in Axes PROVE b.w[ix] >= 0
      <4>1. b.w[ix] \in Nat BY <1>3
      <4> QED BY <4>1
    <3> QED BY <1>3, <3>1
  <2> QED BY <1>1, <1>2, <2>1, PointsInside
<1> QED BY <1>1, <1>3, <1>4 DEF Box, Point, Coord

IsHalf(h, b, ix, o) ==
  /\ h \in Box /\ h.path = Append(b.path, <<ix, o>>)
  /\ h.w[ix] = b.w[ix] \div 2 /\ h.x[ix] = b.x[ix] + (2 * o - 1) * (b.w[ix] \div 2)
  /\ \A jx \in Axes \ {ix} : h.w[jx] = b.w[jx] /\ h.x[jx] = b.x[jx]

LEMMA HalfFacts ==
  ASSUME NEW b \in Box, NEW ix \in Axes, NEW o \in {0, 1}, NEW h, h = Half(b, ix, o)
  PROVE  IsHalf(h, b, ix, o)
<1>1. PICK w, x : w = b.w[ix] \div 2 /\ x = b.x[ix] + (2 * o - 1) * w OBVIOUS
<1>2. b.path \in Path /\ b.x \in [Axes -> Int] /\ b.w \in [Axes -> Int] BY DEF Box
<1>3. w \in Int /\ x \in Int
  <2>1. b.w[ix] \in Int /\ b.x[ix] \in Int BY <1>2
  <2>2. w \in Int BY <1>1, <2>1
  <2> QED BY <1>1, <2>1, <2>2
<1>4. PICK q : q = Append(b.path, <<ix, o>>) OBVIOUS
<1>5. q \in Path BY <1>2, <1>4, PathAppend
<1>6. h = [path |-> q, x |-> [b.x EXCEPT ![ix] = x], w |-> [b.w EXCEPT ![ix] = w]]
  BY <1>1, <1>4 DEF Half
<1>7. [b.x EXCEPT ![ix] = x] \in [Axes -> Int] /\ [b.w EXCEPT ![ix] = w] \in [Axes -> Int]
  BY <1>2, <1>3
<1>8. h \in Box BY <1>5, <1>6, <1>7 DEF Box
<1>9. h.path = q /\ h.x = [b.x EXCEPT ![ix] = x] /\ h.w = [b.w EXCEPT ![ix] = w] BY <1>6
<1>10. h.w[ix] = w /\ h.x[ix] = x BY <1>2, <1>9
<1>11. \A jx \in Axes \ {ix} : h.w[jx] = b.w[jx] /\ h.x[jx] = b.x[jx] BY <1>2, <1>9
<1> QED BY <1>1, <1>4, <1>8, <1>9, <1>10, <1>11 DEF IsHalf

(* A half lies in its block, on its side of the centre. *)
LEMMA HalfInside ==
  ASSUME NEW b \in Box, \A jx \in Axes : b.w[jx] \in Nat,
         NEW ix \in Axes, NEW o \in {0, 1}, NEW h, h = Half(b, ix, o)
  PROVE  /\ \A jx \in Axes : /\ b.x[jx] - b.w[jx] <= h.x[jx] - h.w[jx]
                             /\ h.x[jx] + h.w[jx] <= b.x[jx] + b.w[jx]
         /\ o = 0 => h.x[ix] + h.w[ix] <= b.x[ix]
         /\ o = 1 => b.x[ix] <= h.x[ix] - h.w[ix]
<1>1. /\ h.w[ix] = b.w[ix] \div 2 /\ h.x[ix] = b.x[ix] + (2 * o - 1) * (b.w[ix] \div 2)
      /\ \A jx \in Axes \ {ix} : h.w[jx] = b.w[jx] /\ h.x[jx] = b.x[jx]
  <2>1. IsHalf(h, b, ix, o) BY HalfFacts
  <2> QED BY <2>1 DEF IsHalf
<1>2. \A jx \in Axes : b.x[jx] \in Int /\ b.w[jx] \in Nat BY DEF Box
<1>3. PICK w, x, v : w = b.w[ix] /\ x = b.x[ix] /\ v = w \div 2 OBVIOUS
<1>4. w \in Nat /\ x \in Int /\ v \in Nat /\ 2 * v <= w BY <1>2, <1>3
<1>5. h.w[ix] = v /\ h.x[ix] = x + (2 * o - 1) * v BY <1>1, <1>3
<1>6. h.x[ix] = IF o = 0 THEN x - v ELSE x + v
  <2>1. CASE o = 0 BY <2>1, <1>4, <1>5
  <2>2. CASE o = 1 BY <2>2, <1>4, <1>5
  <2> QED BY <2>1, <2>2
<1>7. /\ x - w <= h.x[ix] - h.w[ix] /\ h.x[ix] + h.w[ix] <= x + w
      /\ o = 0 => h.x[ix] + h.w[ix] <= x
      /\ o = 1 => x <= h.x[ix] - h.w[ix]
  BY <1>4, <1>5, <1>6
<1>8. ASSUME NEW jx \in Axes
      PROVE  b.x[jx] - b.w[jx] <= h.x[jx] - h.w[jx] /\ h.x[jx] + h.w[jx] <= b.x[jx] + b.w[jx]
  <2>1. CASE jx = ix BY <2>1, <1>3, <1>7
  <2>2. CASE jx # ix
    <3>1. h.w[jx] = b.w[jx] /\ h.x[jx] = b.x[jx] BY <2>2, <1>1
    <3> QED BY <3>1, <1>2
  <2> QED BY <2>1, <2>2
<1> QED BY <1>3, <1>7, <1>8

LEMMA GoodRoot ==
  GoodBox(RootBox)
<1>1. Unit \in Nat BY Pow2Def, ConstantsAssumption DEF Unit
<1>2. << >> \in Path BY DEF Path
<1>3. /\ RootBox.path = << >> /\ RootBox.x = [ix \in Axes |-> 0]
      /\ RootBox.w = [ix \in Axes |-> Unit] /\ RootBox \in Box
  BY <1>1, <1>2 DEF RootBox, Box
<1>4. ASSUME NEW ix \in Axes PROVE Sized(RootBox, ix)
  <2>1. Halvings(RootBox.path, ix) = 0 BY <1>3, HalvingsRoot
  <2>2. MaxHalv - 0 = MaxHalv /\ 0 <= MaxHalv BY ConstantsAssumption
  <2>3. RootBox.w[ix] = Unit /\ RootBox.x[ix] = 0 BY <1>3
  <2>4. RootBox.w[ix] = Pow2[MaxHalv - Halvings(RootBox.path, ix)] BY <2>1, <2>2, <2>3 DEF Unit
  <2> QED BY <1>1, <2>1, <2>2, <2>3, <2>4 DEF Sized
<1>5. InTurn(RootBox.path) BY <1>3, InTurnRoot
<1> QED BY <1>3, <1>4, <1>5 DEF GoodBox

LEMMA GoodHalf ==
  ASSUME NEW b, GoodBox(b), NEW ix \in Axes, MayHalve(b.path, ix), NEW o \in {0, 1}
  PROVE  GoodBox(Half(b, ix, o))
<1>1. PICK h : h = Half(b, ix, o) OBVIOUS
<1>2. b \in Box /\ b.path \in Path /\ InTurn(b.path) BY DEF GoodBox, Box
<1>3. \A jx \in Axes : b.w[jx] \in Nat \ {0} /\ b.x[jx] \in Int BY GoodFacts
<1>4. /\ h \in Box /\ h.path = Append(b.path, <<ix, o>>) /\ h.w[ix] = b.w[ix] \div 2
      /\ \A jx \in Axes \ {ix} : h.w[jx] = b.w[jx]
  <2>1. IsHalf(h, b, ix, o) BY <1>1, <1>2, HalfFacts
  <2> QED BY <2>1 DEF IsHalf
<1>5. /\ InTurn(h.path)
      /\ \A jx \in Axes : Halvings(b.path, jx) + 1 <= MaxHalv
  BY <1>2, <1>4, InTurnAppend
<1>6. ASSUME NEW jx \in Axes
      PROVE  Halvings(h.path, jx) = Halvings(b.path, jx) + (IF jx = ix THEN 1 ELSE 0)
  <2>1. PICK p, q : p = b.path /\ q = h.path OBVIOUS
  <2>2. p \in Path /\ q = Append(p, <<ix, o>>) BY <2>1, <1>2, <1>4
  <2>3. Halvings(q, jx) = Halvings(p, jx) + (IF jx = ix THEN 1 ELSE 0) BY <2>2, HalvingsAppend
  <2> QED BY <2>1, <2>3
<1>7. \A jx \in Axes : /\ b.x[jx] - b.w[jx] <= h.x[jx] - h.w[jx]
                       /\ h.x[jx] + h.w[jx] <= b.x[jx] + b.w[jx]
  <2>1. \A jx \in Axes : b.w[jx] \in Nat BY <1>3
  <2> QED BY <1>1, <1>2, <2>1, HalfInside
<1>8. ASSUME NEW jx \in Axes PROVE Sized(h, jx)
  <2>1. Sized(b, jx) BY DEF GoodBox
  <2>2. PICK n : n = Halvings(b.path, jx) OBVIOUS
  <2>3. n \in Nat /\ n + 1 <= MaxHalv /\ MaxHalv \in Nat
    BY <1>2, <1>5, <2>2, HalvingsFacts, ConstantsAssumption
  <2>4. b.w[jx] = Pow2[MaxHalv - n] BY <2>1, <2>2 DEF Sized
  <2>5. Halvings(h.path, jx) <= MaxHalv /\ h.w[jx] = Pow2[MaxHalv - Halvings(h.path, jx)]
    <3>1. CASE jx = ix
      <4>1. Halvings(h.path, jx) = n + 1 BY <3>1, <1>6, <2>2
      <4>2. PICK m : m = MaxHalv - (n + 1) OBVIOUS
      <4>3. m \in Nat /\ MaxHalv - n = m + 1 BY <4>2, <2>3
      <4>4. Pow2[m] \in Nat /\ Pow2[m + 1] = 2 * Pow2[m] BY <4>3, Pow2Def
      <4>5. h.w[jx] = (2 * Pow2[m]) \div 2 BY <3>1, <1>4, <2>4, <4>3, <4>4
      <4>6. h.w[jx] = Pow2[m] BY <4>4, <4>5
      <4> QED BY <4>1, <4>2, <4>6, <2>3
    <3>2. CASE jx # ix
      <4>1. Halvings(h.path, jx) = n BY <3>2, <1>6, <2>2, <2>3
      <4>2. h.w[jx] = b.w[jx] BY <3>2, <1>4
      <4> QED BY <4>1, <4>2, <2>3, <2>4
    <3> QED BY <3>1, <3>2
  <2>6. -Unit <= h.x[jx] - h.w[jx] /\ h.x[jx] + h.w[jx] <= Unit
    <3>1. Unit \in Nat BY Pow2Def, ConstantsAssumption DEF Unit
    <3>2. b.x[jx] \in Int /\ b.w[jx] \in Int BY <1>3
    <3>3. h.x[jx] \in Int /\ h.w[jx] \in Int BY <1>4 DEF Box
    <3>4. -Unit <= b.x[jx] - b.w[jx] /\ b.x[jx] + b.w[jx] <= Unit BY <2>1 DEF Sized
    <3>5. b.x[jx] - b.w[jx] <= h.x[jx] - h.w[jx] /\ h.x[jx] + h.w[jx] <= b.x[jx] + b.w[jx] BY <1>7
    <3> QED BY <3>1, <3>2, <3>3, <3>4, <3>5
  <2> QED BY <2>5, <2>6 DEF Sized
<1> QED BY <1>1, <1>4, <1>5, <1>8 DEF GoodBox

(* The axis get_ix_split asks for leaves room. *)
LEMMA SplitMayHalve ==
  ASSUME NEW b \in Box, NEW s \in [PointSet(b) -> 0 .. V], SplitOf(b, s) # None
  PROVE  SplitOf(b, s) \in Axes /\ MayHalve(b.path, SplitOf(b, s))
<1>1. Turns \in Nat /\ Enough(Turns) BY TurnsFacts
<1>2. PICK ix : ix = SplitOf(b, s) OBVIOUS
<1>3. \/ ix \in Axes /\ Shallow(b.path, ix, Turns)
      \/ ix \in Axes /\ ix = FirstAxis(b) % Dim /\ \E jx \in Axes : Shallow(b.path, jx, Turns)
  BY <1>1, <1>2, SplitFacts
<1> QED BY <1>2, <1>3 DEF MayHalve, FirstAxis
-----------------------------------------------------------------------------
(* Paths *)

Step(e) == e[1] \in Axes /\ e[2] \in {0, 1} /\ e = <<e[1], e[2]>>

LEMMA PathParent ==
  ASSUME NEW q \in Path, q # << >>
  PROVE  /\ Parent(q) \in Path /\ Step(Last(q)) /\ Side(q) = Last(q)[2]
         /\ Len(Parent(q)) + 1 = Len(q) /\ q = Append(Parent(q), Last(q))
         /\ \A i \in 1 .. Len(Parent(q)) : Parent(q)[i] = q[i]
<1>1. PICK n, f, e : n = Len(q) /\ f = Front(q) /\ e = q[n] OBVIOUS
<1>2. q \in Seq(Axes \X {0, 1}) /\ n \in Nat \ {0} BY <1>1 DEF Path
<1>3. e \in Axes \X {0, 1} BY <1>1, <1>2
<1>4. Step(e) BY <1>3 DEF Step
<1>5. f = SubSeq(q, 1, n - 1) BY <1>1 DEF Front
<1>6. /\ f \in Seq(Axes \X {0, 1}) /\ Len(f) = n - 1
      /\ \A i \in 1 .. n - 1 : f[i] = q[i]
  BY <1>1, <1>2, <1>5
<1>7. /\ Append(f, e) \in Seq(Axes \X {0, 1}) /\ Len(Append(f, e)) = n
      /\ \A i \in 1 .. n - 1 : Append(f, e)[i] = f[i]
      /\ Append(f, e)[n] = e
  BY <1>2, <1>3, <1>6, AppendProperties
<1>8. q = Append(f, e)
  <2>1. \A i \in 1 .. n : Append(f, e)[i] = q[i] BY <1>1, <1>2, <1>6, <1>7
  <2> QED BY <1>1, <1>2, <1>7, <2>1, SeqEqual
<1> QED BY <1>1, <1>2, <1>4, <1>6, <1>8 DEF Parent, Last, Side, Path

IsPrefix1(r, q, k) == r \in Path /\ Len(r) = k /\ \A i \in 1 .. k : r[i] = q[i]

LEMMA PathPrefix ==
  ASSUME NEW q \in Path, NEW k \in 0 .. Len(q)
  PROVE  IsPrefix1(SubSeq(q, 1, k), q, k)
<1>1. q \in Seq(Axes \X {0, 1}) /\ Len(q) \in Nat BY DEF Path
<1>2. /\ SubSeq(q, 1, k) \in Seq(Axes \X {0, 1}) /\ Len(SubSeq(q, 1, k)) = k
      /\ \A i \in 1 .. k : SubSeq(q, 1, k)[i] = q[i]
  BY <1>1
<1> QED BY <1>2 DEF IsPrefix1, Path

LEMMA PathEqual ==
  ASSUME NEW p \in Path, NEW q \in Path, Len(p) = Len(q), \A i \in 1 .. Len(p) : p[i] = q[i]
  PROVE  p = q
BY SeqEqual DEF Path

LEMMA PrefixUnique ==
  ASSUME NEW q, NEW k \in Nat, NEW r, NEW s, IsPrefix1(r, q, k), IsPrefix1(s, q, k)
  PROVE  r = s
BY PathEqual DEF IsPrefix1

LEMMA BelowFacts ==
  ASSUME NEW p \in Path, NEW q \in Path
  PROVE  Below(q, p) <=> (Len(q) > Len(p) /\ \A i \in 1 .. Len(p) : q[i] = p[i])
<1>1. Len(p) \in Nat /\ Len(q) \in Nat BY DEF Path
<1>2. ASSUME Len(q) > Len(p) PROVE SubSeq(q, 1, Len(p)) = p <=> \A i \in 1 .. Len(p) : q[i] = p[i]
  <2>1. Len(p) \in 0 .. Len(q) BY <1>1, <1>2
  <2>2. IsPrefix1(SubSeq(q, 1, Len(p)), q, Len(p)) BY <2>1, PathPrefix
  <2>3. IsPrefix1(p, q, Len(p)) <=> \A i \in 1 .. Len(p) : q[i] = p[i] BY DEF IsPrefix1
  <2>4. IsPrefix1(p, q, Len(p)) <=> SubSeq(q, 1, Len(p)) = p BY <2>2, <1>1, PrefixUnique
  <2> QED BY <2>3, <2>4
<1> QED BY <1>2 DEF Below

(* A path below another one leads through a child of it. *)
LEMMA BelowParent ==
  ASSUME NEW p \in Path, NEW q \in Path, Below(q, p)
  PROVE  /\ q # << >>
         /\ \/ Parent(q) = p
            \/ Below(Parent(q), p) /\ Parent(q)[Len(p) + 1] = q[Len(p) + 1]
         /\ Parent(q) = p => q[Len(p) + 1] = Last(q)
<1>1. Len(p) \in Nat /\ Len(q) \in Nat BY DEF Path
<1>2. Len(q) > Len(p) /\ \A i \in 1 .. Len(p) : q[i] = p[i] BY BelowFacts
<1>3. q # << >> BY <1>1, <1>2
<1>4. PICK f : f = Parent(q) OBVIOUS
<1>5. f \in Path /\ Len(f) = Len(q) - 1 /\ \A i \in 1 .. Len(f) : f[i] = q[i]
  BY <1>1, <1>3, <1>4, PathParent
<1>6. \A i \in 1 .. Len(p) : f[i] = p[i] BY <1>1, <1>2, <1>5
<1>7. CASE Len(f) = Len(p)
  <2>1. f = p BY <1>5, <1>6, <1>7, PathEqual
  <2>2. Len(q) = Len(p) + 1 BY <1>1, <1>5, <1>7
  <2>3. q[Len(p) + 1] = Last(q) BY <2>2 DEF Last
  <2> QED BY <2>1, <2>3, <1>3, <1>4
<1>8. CASE Len(f) # Len(p)
  <2>1. Len(f) > Len(p) BY <1>1, <1>2, <1>5, <1>8
  <2>2. Below(f, p) BY <2>1, <1>5, <1>6, BelowFacts
  <2>3. f[Len(p) + 1] = q[Len(p) + 1] BY <1>1, <1>5, <2>1
  <2>4. f # p BY <1>8
  <2> QED BY <2>2, <2>3, <2>4, <1>3, <1>4
<1> QED BY <1>7, <1>8
-----------------------------------------------------------------------------
(* A tree of blocks: every block but the root is the half of its parent, on  *)
(* the parent's split axis.                                                  *)

BoxIn(c, p) == [path |-> p, x |-> c[p].x, w |-> c[p].w]

Placed(c, b) ==
  LET up == Parent(b.path)
  IN /\ up \in DOMAIN c /\ c[up].split = Last(b.path)[1]
     /\ b = Half(BoxIn(c, up), Last(b.path)[1], Last(b.path)[2])

Tree(c) ==
  \A p \in DOMAIN c : /\ GoodBox(BoxIn(c, p))
                      /\ IF p = << >> THEN BoxIn(c, p) = RootBox ELSE Placed(c, BoxIn(c, p))

LEMMA TreeFacts ==
  ASSUME NEW c, Tree(c), NEW p \in DOMAIN c
  PROVE  /\ p \in Path /\ BoxIn(c, p) \in Box
         /\ \A ix \in Axes : c[p].x[ix] \in Int /\ c[p].w[ix] \in Nat \ {0}
<1>1. PICK b : b = BoxIn(c, p) OBVIOUS
<1>2. b.path = p /\ b.x = c[p].x /\ b.w = c[p].w BY <1>1 DEF BoxIn
<1>3. GoodBox(b) BY <1>1 DEF Tree
<1>4. /\ b \in Box /\ b.path \in Path
      /\ \A ix \in Axes : b.w[ix] \in Nat \ {0} /\ b.x[ix] \in Int
  BY <1>3, GoodFacts
<1> QED BY <1>1, <1>2, <1>4

LEMMA PrefixIn ==
  ASSUME NEW c, Tree(c), NEW q \in DOMAIN c, NEW k \in 0 .. Len(q),
         NEW r, IsPrefix1(r, q, k)
  PROVE  r \in DOMAIN c
<1>1. q \in Path /\ Len(q) \in Nat BY TreeFacts DEF Path
<1> DEFINE A == {n \in Nat : n <= Len(q) => SubSeq(q, 1, Len(q) - n) \in DOMAIN c}
<1>2. 0 \in A
  <2>1. Len(q) \in 0 .. Len(q) /\ Len(q) - 0 = Len(q) BY <1>1
  <2>2. IsPrefix1(SubSeq(q, 1, Len(q)), q, Len(q)) BY <1>1, <2>1, PathPrefix
  <2>3. IsPrefix1(q, q, Len(q)) BY <1>1 DEF IsPrefix1
  <2>4. SubSeq(q, 1, Len(q)) = q BY <1>1, <2>2, <2>3, PrefixUnique
  <2> QED BY <2>1, <2>4
<1>3. ASSUME NEW n \in Nat, n \in A PROVE n + 1 \in A
  <2> SUFFICES ASSUME n + 1 <= Len(q) PROVE SubSeq(q, 1, Len(q) - (n + 1)) \in DOMAIN c
    OBVIOUS
  <2>1. PICK m, s, t : /\ m = Len(q) - (n + 1)
                       /\ s = SubSeq(q, 1, m + 1) /\ t = SubSeq(q, 1, m) OBVIOUS
  <2>2. m \in Nat /\ m \in 0 .. Len(q) /\ m + 1 \in 0 .. Len(q) /\ m + 1 = Len(q) - n
    BY <1>1, <2>1
  <2>3. s \in DOMAIN c BY <1>1, <1>3, <2>1, <2>2
  <2>4. IsPrefix1(s, q, m + 1) /\ IsPrefix1(t, q, m) BY <1>1, <2>1, <2>2, PathPrefix
  <2>5. s \in Path /\ Len(s) = m + 1 /\ \A i \in 1 .. m + 1 : s[i] = q[i] BY <2>4 DEF IsPrefix1
  <2>6. s # << >> BY <2>2, <2>5
  <2>7. Parent(s) \in DOMAIN c
    <3>1. Placed(c, BoxIn(c, s)) BY <2>3, <2>6 DEF Tree
    <3>2. BoxIn(c, s).path = s BY DEF BoxIn
    <3> QED BY <3>1, <3>2 DEF Placed
  <2>8. Parent(s) \in Path /\ Len(Parent(s)) + 1 = Len(s) /\ \A i \in 1 .. Len(Parent(s)) : Parent(s)[i] = s[i]
    BY <2>5, <2>6, PathParent
  <2>9. Len(Parent(s)) = m BY <2>2, <2>5, <2>8 DEF Path
  <2>10. \A i \in 1 .. m : Parent(s)[i] = q[i] BY <2>2, <2>5, <2>8, <2>9
  <2>11. IsPrefix1(Parent(s), q, m) BY <2>8, <2>9, <2>10 DEF IsPrefix1
  <2>12. Parent(s) = t BY <2>2, <2>4, <2>11, PrefixUnique
  <2> QED BY <2>1, <2>7, <2>12
<1>4. Nat \subseteq A
  <2> HIDE DEF A
  <2> QED BY <1>2, <1>3, SetInduction
<1>5. PICK n : n = Len(q) - k OBVIOUS
<1>6. n \in Nat /\ n <= Len(q) /\ Len(q) - n = k /\ k \in Nat BY <1>1, <1>5
<1>7. SubSeq(q, 1, k) \in DOMAIN c BY <1>4, <1>6
<1>8. SubSeq(q, 1, k) = r BY <1>1, <1>6, PathPrefix, PrefixUnique
<1> QED BY <1>7, <1>8

(* Whatever lies below a block lies in one of its halves. *)
OnSideOf(c, p, q, e) ==
  /\ e[1] = c[p].split /\ e[1] \in Axes /\ e[2] \in {0, 1} /\ e = <<e[1], e[2]>>
  /\ e[2] = 0 => c[q].x[e[1]] + c[q].w[e[1]] <= c[p].x[e[1]]
  /\ e[2] = 1 => c[p].x[e[1]] <= c[q].x[e[1]] - c[q].w[e[1]]

LEMMA Nested ==
  ASSUME NEW c, Tree(c), NEW p \in DOMAIN c
  PROVE  \A q \in DOMAIN c : Below(q, p) => OnSideOf(c, p, q, q[Len(p) + 1])
<1>1. p \in Path BY TreeFacts
<1> DEFINE A == {n \in Nat : \A q \in DOMAIN c : Len(q) <= n /\ Below(q, p) => OnSideOf(c, p, q, q[Len(p) + 1])}
<1>2. 0 \in A
  <2>1. ASSUME NEW q \in DOMAIN c, Len(q) <= 0, Below(q, p) PROVE FALSE
    <3>1. q \in Path BY TreeFacts
    <3>2. Len(q) \in Nat /\ Len(p) \in Nat BY <1>1, <3>1 DEF Path
    <3>3. Len(q) > Len(p) BY <1>1, <2>1, <3>1, BelowFacts
    <3> QED BY <2>1, <3>2, <3>3
  <2> QED BY <2>1
<1>3. ASSUME NEW n \in Nat, n \in A PROVE n + 1 \in A
  <2> SUFFICES ASSUME NEW q \in DOMAIN c, Len(q) <= n + 1, Below(q, p)
               PROVE  OnSideOf(c, p, q, q[Len(p) + 1])
    OBVIOUS
  <2>1. q \in Path BY TreeFacts
  <2>2. /\ q # << >>
        /\ \/ Parent(q) = p
           \/ Below(Parent(q), p) /\ Parent(q)[Len(p) + 1] = q[Len(p) + 1]
        /\ Parent(q) = p => q[Len(p) + 1] = Last(q)
    BY <1>1, <2>1, BelowParent
  <2>3. PICK r, e : r = Parent(q) /\ e = Last(q) OBVIOUS
  <2>4. Step(e) /\ Len(r) + 1 = Len(q) /\ r \in Path BY <2>1, <2>2, <2>3, PathParent
  <2>5. PICK h : h = BoxIn(c, q) OBVIOUS
  <2>6. h.path = q /\ h.x = c[q].x /\ h.w = c[q].w BY <2>5 DEF BoxIn
  <2>7. Placed(c, h) BY <2>2, <2>5 DEF Tree
  <2>8. r \in DOMAIN c /\ c[r].split = e[1] /\ h = Half(BoxIn(c, r), e[1], e[2])
    BY <2>3, <2>6, <2>7 DEF Placed
  <2>9. PICK b : b = BoxIn(c, r) OBVIOUS
  <2>10. b \in Box /\ b.x = c[r].x /\ b.w = c[r].w /\ \A ix \in Axes : b.w[ix] \in Nat /\ b.x[ix] \in Int
    <3>1. b \in Box /\ \A ix \in Axes : c[r].x[ix] \in Int /\ c[r].w[ix] \in Nat \ {0}
      BY <2>8, <2>9, TreeFacts
    <3> QED BY <3>1, <2>9 DEF BoxIn
  <2>11. e[1] \in Axes /\ e[2] \in {0, 1} BY <2>4 DEF Step
  <2>12. /\ \A jx \in Axes : /\ b.x[jx] - b.w[jx] <= h.x[jx] - h.w[jx]
                             /\ h.x[jx] + h.w[jx] <= b.x[jx] + b.w[jx]
         /\ e[2] = 0 => h.x[e[1]] + h.w[e[1]] <= b.x[e[1]]
         /\ e[2] = 1 => b.x[e[1]] <= h.x[e[1]] - h.w[e[1]]
    BY <2>8, <2>9, <2>10, <2>11, HalfInside
  <2>13. CASE r = p
    <3>1. q[Len(p) + 1] = e BY <2>2, <2>3, <2>13
    <3>2. OnSideOf(c, p, q, e) BY <2>4, <2>6, <2>8, <2>10, <2>12, <2>13 DEF OnSideOf, Step
    <3> QED BY <3>1, <3>2
  <2>14. CASE Below(r, p) /\ r[Len(p) + 1] = q[Len(p) + 1]
    <3>1. Len(r) <= n BY <2>1, <2>4 DEF Path
    <3>2. PICK d : d = r[Len(p) + 1] OBVIOUS
    <3>3. OnSideOf(c, p, r, d) BY <1>3, <2>8, <2>14, <3>1, <3>2
    <3>4. d[1] \in Axes BY <3>3 DEF OnSideOf
    <3>5. /\ c[q].x[d[1]] \in Int /\ c[q].w[d[1]] \in Int /\ c[p].x[d[1]] \in Int
          /\ b.x[d[1]] \in Int /\ b.w[d[1]] \in Int
      BY <3>4, <2>10, TreeFacts
    <3>6. /\ b.x[d[1]] - b.w[d[1]] <= c[q].x[d[1]] - c[q].w[d[1]]
          /\ c[q].x[d[1]] + c[q].w[d[1]] <= b.x[d[1]] + b.w[d[1]]
      BY <3>4, <2>6, <2>12
    <3>7. /\ d[2] = 0 => b.x[d[1]] + b.w[d[1]] <= c[p].x[d[1]]
          /\ d[2] = 1 => c[p].x[d[1]] <= b.x[d[1]] - b.w[d[1]]
      BY <3>3, <2>10 DEF OnSideOf
    <3>8. /\ d[2] = 0 => c[q].x[d[1]] + c[q].w[d[1]] <= c[p].x[d[1]]
          /\ d[2] = 1 => c[p].x[d[1]] <= c[q].x[d[1]] - c[q].w[d[1]]
      <4>1. PICK qx, qw, px, bx, bw : /\ qx = c[q].x[d[1]] /\ qw = c[q].w[d[1]] /\ px = c[p].x[d[1]]
                                      /\ bx = b.x[d[1]] /\ bw = b.w[d[1]] OBVIOUS
      <4>2. qx \in Int /\ qw \in Int /\ px \in Int /\ bx \in Int /\ bw \in Int BY <3>5, <4>1
      <4>3. bx - bw <= qx - qw /\ qx + qw <= bx + bw BY <3>6, <4>1
      <4>4. (d[2] = 0 => bx + bw <= px) /\ (d[2] = 1 => px <= bx - bw) BY <3>7, <4>1
      <4>5. (d[2] = 0 => qx + qw <= px) /\ (d[2] = 1 => px <= qx - qw) BY <4>2, <4>3, <4>4
      <4> QED BY <4>1, <4>5
    <3>9. OnSideOf(c, p, q, d) BY <3>3, <3>8 DEF OnSideOf
    <3> QED BY <3>2, <3>9, <2>14
  <2> QED BY <2>2, <2>3, <2>13, <2>14
<1>4. Nat \subseteq A
  <2> HIDE DEF A
  <2> QED BY <1>2, <1>3, SetInduction
<1>5. ASSUME NEW q \in DOMAIN c, Below(q, p) PROVE OnSideOf(c, p, q, q[Len(p) + 1])
  <2>1. Len(q) \in Nat BY TreeFacts DEF Path
  <2>2. Len(q) \in A /\ Len(q) <= Len(q) BY <2>1, <1>4
  <2> QED BY <2>2, <1>5
<1> QED BY <1>5

(* No two blocks of a tree have the same centre: what the code stores with a *)
(* point, its ix_split, belongs to one block.                                *)
LEMMA CentresDiffer ==
  ASSUME NEW c, Tree(c), NEW p \in DOMAIN c, NEW q \in DOMAIN c, p # q
  PROVE  c[p].x # c[q].x
<1>1. p \in Path /\ q \in Path /\ Len(p) \in Nat /\ Len(q) \in Nat BY TreeFacts DEF Path
<1>2. ASSUME NEW a \in DOMAIN c, NEW b \in DOMAIN c, Below(b, a) PROVE c[a].x # c[b].x
  <2>1. PICK e : e = b[Len(a) + 1] OBVIOUS
  <2>2. OnSideOf(c, a, b, e) BY <1>2, <2>1, Nested
  <2>3. e[1] \in Axes /\ e[2] \in {0, 1} BY <2>2 DEF OnSideOf
  <2>4. c[b].x[e[1]] \in Int /\ c[b].w[e[1]] \in Nat \ {0} /\ c[a].x[e[1]] \in Int BY <2>3, TreeFacts
  <2>5. c[a].x[e[1]] # c[b].x[e[1]] BY <2>2, <2>3, <2>4 DEF OnSideOf
  <2> QED BY <2>5
<1>3. CASE Below(p, q) \/ Below(q, p) BY <1>2, <1>3
<1>4. CASE ~Below(p, q) /\ ~Below(q, p)
  <2>1. PICK D : D = {i \in Nat : i # 0 /\ i <= Len(p) /\ i <= Len(q) /\ p[i] # q[i]} OBVIOUS
  <2>2. D # {}
    <3> SUFFICES ASSUME D = {} PROVE FALSE
      OBVIOUS
    <3>1. \A i \in Nat : i # 0 /\ i <= Len(p) /\ i <= Len(q) => p[i] = q[i] BY <2>1
    <3>2. CASE Len(p) = Len(q)
      <4>1. \A i \in 1 .. Len(p) : p[i] = q[i] BY <1>1, <3>1, <3>2
      <4> QED BY <4>1, <1>1, <3>2, PathEqual
    <3>3. CASE Len(p) > Len(q)
      <4>1. \A i \in 1 .. Len(q) : p[i] = q[i] BY <1>1, <3>1, <3>3
      <4> QED BY <4>1, <1>1, <1>4, <3>3, BelowFacts
    <3>4. CASE Len(q) > Len(p)
      <4>1. \A i \in 1 .. Len(p) : q[i] = p[i] BY <1>1, <3>1, <3>4
      <4> QED BY <4>1, <1>1, <1>4, <3>4, BelowFacts
    <3> QED BY <1>1, <3>2, <3>3, <3>4
  <2>3. PICK i \in D : \A j \in D : i <= j
    <3>1. D \subseteq Nat BY <2>1
    <3> QED BY <2>2, <3>1, Least
  <2>4. PICK k : k = i - 1 OBVIOUS
  <2>5. /\ k \in Nat /\ i = k + 1 /\ k \in 0 .. Len(p) /\ k \in 0 .. Len(q)
        /\ k < Len(p) /\ k < Len(q) /\ p[i] # q[i]
    BY <1>1, <2>1, <2>3, <2>4
  <2>6. \A j \in 1 .. k : p[j] = q[j]
    <3>1. ASSUME NEW j \in 1 .. k, p[j] # q[j] PROVE FALSE
      <4>1. j \in D BY <1>1, <2>1, <2>5, <3>1
      <4> QED BY <4>1, <2>3, <2>5
    <3> QED BY <3>1
  <2>7. PICK r : r = SubSeq(p, 1, k) OBVIOUS
  <2>8. IsPrefix1(r, p, k) BY <1>1, <2>5, <2>7, PathPrefix
  <2>9. r \in DOMAIN c BY <1>1, <2>5, <2>8, PrefixIn
  <2>10. r \in Path /\ Len(r) = k /\ \A j \in 1 .. k : r[j] = p[j] BY <2>8 DEF IsPrefix1
  <2>11. Below(p, r) /\ Below(q, r)
    <3>1. \A j \in 1 .. Len(r) : p[j] = r[j] /\ q[j] = r[j] BY <2>6, <2>10
    <3> QED BY <1>1, <2>5, <2>10, <3>1, BelowFacts
  <2>12. PICK d, e : d = p[i] /\ e = q[i] OBVIOUS
  <2>13. OnSideOf(c, r, p, d) /\ OnSideOf(c, r, q, e) BY <2>5, <2>9, <2>10, <2>11, <2>12, Nested
  <2>14. d[1] \in Axes /\ e[1] = d[1] /\ d[2] \in {0, 1} /\ e[2] \in {0, 1} /\ d[2] # e[2]
    BY <2>5, <2>12, <2>13 DEF OnSideOf
  <2>15. PICK ix : ix = d[1] OBVIOUS
  <2>16. /\ c[p].x[ix] \in Int /\ c[p].w[ix] \in Nat \ {0} /\ c[q].x[ix] \in Int
         /\ c[q].w[ix] \in Nat \ {0} /\ c[r].x[ix] \in Int
    BY <2>9, <2>14, <2>15, TreeFacts
  <2>17. /\ d[2] = 0 => c[p].x[ix] + c[p].w[ix] <= c[r].x[ix]
         /\ d[2] = 1 => c[r].x[ix] <= c[p].x[ix] - c[p].w[ix]
         /\ e[2] = 0 => c[q].x[ix] + c[q].w[ix] <= c[r].x[ix]
         /\ e[2] = 1 => c[r].x[ix] <= c[q].x[ix] - c[q].w[ix]
    BY <2>13, <2>14, <2>15 DEF OnSideOf
  <2>18. c[p].x[ix] # c[q].x[ix] BY <2>14, <2>16, <2>17
  <2> QED BY <2>18
<1> QED BY <1>3, <1>4
-----------------------------------------------------------------------------
(* The inductive invariant, part by part. *)

Whole(r) == r = [x |-> r.x, w |-> r.w, split |-> r.split, seen |-> r.seen]

CellOK(c, p, v) ==
  /\ Whole(c[p])
  /\ PointSet(BoxIn(c, p)) \subseteq DOMAIN v
  /\ c[p].seen \in [PointSet(BoxIn(c, p)) -> 0 .. V]
  /\ c[p].split \in Axes \cup {None}
  /\ c[p].split # None => MayHalve(p, c[p].split)

CellsOK(c, v) == c = [p \in DOMAIN c |-> c[p]] /\ Tree(c) /\ \A p \in DOMAIN c : CellOK(c, p, v)

ValOK(v) == DOMAIN v \subseteq Point /\ v \in [DOMAIN v -> 0 .. V]

TypeInv ==
  /\ ValOK(val) /\ psplit \in [DOMAIN val -> Axes \cup {None}]
  /\ active \in Seq(Path) /\ newborn \in Seq(Path) /\ lmin \in Nat
  /\ refresh \cup skipped \subseteq DOMAIN cells
  /\ phase \in {"pass", "refresh", "store", "read", "done", "aborted"}

(* The two children of the parent of a block to come. *)
Child(p, ix, o) == Append(p, <<ix, o>>)
Twin(path, o)   == Child(Parent(path), Last(path)[1], o)

BuildInv ==
  cur # NoBox =>
    /\ phase = "pass" /\ GoodBox(cur) /\ cur.path \notin DOMAIN cells
    /\ IF cur.path = << >>
         THEN cur = RootBox /\ DOMAIN cells = {} /\ active = << >> /\ newborn = << >>
         ELSE /\ Placed(cells, cur) /\ Parent(cur.path) \notin ToSet(active)
              /\ Side(cur.path) = 0 => Twin(cur.path, 1) \notin DOMAIN cells
              /\ Side(cur.path) = 1 =>
                   /\ Twin(cur.path, 0) \in DOMAIN cells /\ cells[Twin(cur.path, 0)].split = None
                   /\ Twin(cur.path, 0) \notin ToSet(active) \cup ToSet(newborn)

(* ix_split of a point is that of the block it is the centre of. *)
CentresOK(c, ps, D) ==
  /\ \A p \in DOMAIN c : ps[c[p].x] = c[p].split
  /\ \A q \in D : (\A p \in DOMAIN c : c[p].x # q) => ps[q] = None

NoRepeat(s) == \A i, j \in 1 .. Len(s) : s[i] = s[j] => i = j

ListInv ==
  /\ NoRepeat(active) /\ NoRepeat(newborn) /\ ToSet(active) \cap ToSet(newborn) = {}
  /\ \A p \in ToSet(newborn) : p \in DOMAIN cells /\ cells[p].split = None
  /\ phase # "refresh" => ToSet(active) \subseteq DOMAIN cells
  /\ phase = "refresh" => refresh \cap ToSet(active) = {}
  /\ phase # "pass" => newborn = << >> /\ cur = NoBox
  /\ phase \notin {"pass", "refresh"} => active = << >> /\ refresh = {}

BredIn(c, p) == \E q \in DOMAIN c : Below(q, p)
Asked(c, p)  == SplitOf(BoxIn(c, p), c[p].seen)
BuildingFor(p) == cur # NoBox /\ cur.path # << >> /\ Parent(cur.path) = p

ShapeAt(c, p) ==
  IF Waiting(p) THEN ~BredIn(c, p) /\ (c[p].split # None => Asked(c, p) # c[p].split)
  ELSE /\ c[p].split = None => ~BredIn(c, p)
       /\ c[p].split # None /\ ~BuildingFor(p) =>
            \A o \in {0, 1} : Child(p, c[p].split, o) \in DOMAIN c

ShapeInv == \A p \in DOMAIN cells : ShapeAt(cells, p)

(* The first child of the two under construction: complete, on no list yet. *)
Fledgling(p) == cur # NoBox /\ cur.path # << >> /\ p = Twin(cur.path, 0)

FreshIn(c, p, v) == c[p].seen = Values(BoxIn(c, p), v)

FreshInv ==
  \A p \in DOMAIN cells :
    /\ p \in refresh \cup skipped \/ FreshIn(cells, p, val)
    /\ Waiting(p) \/ p \in ToSet(newborn) \/ Fledgling(p) \/ cells[p].split = Asked(cells, p)

TableInv == TypeInv /\ CellsOK(cells, val) /\ BuildInv /\ CentresOK(cells, psplit, DOMAIN val)
            /\ ListInv /\ ShapeInv /\ FreshInv

(* The blocks of the finished tree as store_table finds them: after m blocks *)
(* the list holds their children in the order they were found.               *)
Kids(c, b) == IF b.path \in DOMAIN c THEN Children(b, c[b.path].split) ELSE << >>

Found(c) ==
  LET found[m \in Nat] ==
        IF m = 0 THEN <<RootBox>>
        ELSE IF m <= Len(found[m - 1]) THEN found[m - 1] \o Kids(c, found[m - 1][m])
        ELSE found[m - 1]
  IN found

Pending(c, m) == SubSeq(Found(c)[m], m + 1, Len(Found(c)[m]))

Written(c, f) ==
  /\ f \in Seq(Seq([Axes -> Int])) /\ Len(f) <= Len(Found(c)[Len(f)])
  /\ \A i \in 1 .. Len(f) : f[i] = PointSeq(Found(c)[Len(f)][i])

Rebuilt(c, v, r, m) ==
  /\ m <= Len(Found(c)[m])
  /\ DOMAIN r = {Found(c)[m][i].path : i \in 1 .. m}
  /\ IsFiniteSet(DOMAIN r) /\ Cardinality(DOMAIN r) = m
  /\ \A p \in DOMAIN r : p \in DOMAIN c /\ r[p].split = c[p].split
                         /\ r[p].seen = Values(BoxIn(c, p), v)

FileInv ==
  /\ phase \in {"pass", "refresh"} => file = << >> /\ read = << >>
  /\ phase = "store" => /\ Written(cells, file) /\ queue = Pending(cells, Len(file)) /\ read = << >>
  /\ phase \in {"read", "done"} => Written(cells, file) /\ Pending(cells, Len(file)) = << >>
  /\ phase = "read" => /\ Rebuilt(cells, val, read, Cardinality(DOMAIN read))
                       /\ queue = Pending(cells, Cardinality(DOMAIN read))
  /\ ReadBack

RootInv == cur = NoBox => << >> \in DOMAIN cells

IInv == TableInv /\ RootInv /\ FileInv
-----------------------------------------------------------------------------
(* Paths again: children, twins and what lies below them. *)

LEMMA ChildFacts ==
  ASSUME NEW p \in Path, NEW ix \in Axes, NEW o \in {0, 1}, NEW q, q = Child(p, ix, o)
  PROVE  /\ q \in Path /\ q # << >> /\ Parent(q) = p
         /\ Last(q)[1] = ix /\ Last(q)[2] = o /\ Side(q) = o
         /\ q # p
<1>1. /\ q \in Path /\ q # << >> /\ Len(q) = Len(p) + 1 /\ Last(q) = <<ix, o>> /\ Parent(q) = p
  BY PathAppend DEF Child
<1>2. Len(p) \in Nat BY DEF Path
<1> QED BY <1>1, <1>2 DEF Side

LEMMA ChildrenDiffer ==
  ASSUME NEW p \in Path, NEW r \in Path, NEW ix \in Axes, NEW jx \in Axes,
         NEW o \in {0, 1}, NEW k \in {0, 1}, Child(p, ix, o) = Child(r, jx, k)
  PROVE  p = r /\ ix = jx /\ o = k
<1>1. ASSUME NEW a \in Path, NEW mx \in Axes, NEW b \in {0, 1}, NEW q, q = Child(a, mx, b)
      PROVE  Parent(q) = a /\ Last(q)[1] = mx /\ Side(q) = b
  <2>1. q = Append(a, <<mx, b>>) BY <1>1 DEF Child
  <2>2. Parent(q) = a /\ Last(q) = <<mx, b>> BY <2>1, PathAppend
  <2> QED BY <2>2 DEF Side
<1>2. PICK q : q = Child(p, ix, o) OBVIOUS
<1>3. Parent(q) = p /\ Last(q)[1] = ix /\ Side(q) = o BY <1>1, <1>2
<1>4. q = Child(r, jx, k) BY <1>2
<1>5. Parent(q) = r /\ Last(q)[1] = jx /\ Side(q) = k BY <1>1, <1>4
<1> QED BY <1>3, <1>5

LEMMA TwinFacts ==
  ASSUME NEW q \in Path, q # << >>, NEW o \in {0, 1}
  PROVE  /\ Twin(q, o) \in Path /\ Twin(q, o) # << >> /\ Parent(Twin(q, o)) = Parent(q)
         /\ Last(Twin(q, o))[1] = Last(q)[1] /\ Side(Twin(q, o)) = o
         /\ Twin(q, Side(q)) = q /\ (Twin(q, o) = q => Side(q) = o)
         /\ Parent(q) \in Path /\ Last(q)[1] \in Axes /\ Side(q) \in {0, 1}
<1>1. PICK p, e : p = Parent(q) /\ e = Last(q) OBVIOUS
<1>2. p \in Path /\ Step(e) /\ Side(q) = e[2] /\ q = Append(p, e) BY <1>1, PathParent
<1>3. e[1] \in Axes /\ e[2] \in {0, 1} /\ e = <<e[1], e[2]>> BY <1>2 DEF Step
<1>4. q = Child(p, e[1], e[2]) BY <1>2, <1>3 DEF Child
<1>5. Twin(q, o) = Child(p, e[1], o) /\ Twin(q, Side(q)) = q BY <1>1, <1>2, <1>4 DEF Twin
<1>6. PICK t : t = Twin(q, o) OBVIOUS
<1>7. t \in Path /\ t # << >> /\ Parent(t) = p /\ Last(t)[1] = e[1] /\ Side(t) = o
  BY <1>2, <1>3, <1>5, <1>6, ChildFacts
<1> QED BY <1>1, <1>2, <1>3, <1>5, <1>6, <1>7

LEMMA BelowItsParent ==
  ASSUME NEW q \in Path, q # << >>
  PROVE  Below(q, Parent(q))
<1>1. PICK p : p = Parent(q) OBVIOUS
<1>2. p \in Path /\ Len(p) + 1 = Len(q) /\ \A i \in 1 .. Len(p) : p[i] = q[i] BY <1>1, PathParent
<1>3. Len(p) \in Nat BY <1>2 DEF Path
<1>4. Len(q) > Len(p) /\ \A i \in 1 .. Len(p) : q[i] = p[i] BY <1>2, <1>3
<1> QED BY <1>1, <1>2, <1>4, BelowFacts

LEMMA BelowTransitive ==
  ASSUME NEW p \in Path, NEW q \in Path, NEW r \in Path, Below(q, p), Below(r, q)
  PROVE  Below(r, p)
<1>1. Len(p) \in Nat /\ Len(q) \in Nat /\ Len(r) \in Nat BY DEF Path
<1>2. Len(q) > Len(p) /\ \A i \in 1 .. Len(p) : q[i] = p[i] BY BelowFacts
<1>3. Len(r) > Len(q) /\ \A i \in 1 .. Len(q) : r[i] = q[i] BY BelowFacts
<1>4. Len(r) > Len(p) /\ \A i \in 1 .. Len(p) : r[i] = p[i] BY <1>1, <1>2, <1>3
<1> QED BY <1>4, BelowFacts

LEMMA BelowIrreflexive ==
  ASSUME NEW p \in Path PROVE ~Below(p, p)
<1>1. Len(p) \in Nat BY DEF Path
<1> QED BY <1>1, BelowFacts

LEMMA BelowIn ==
  ASSUME NEW c, Tree(c), NEW q \in DOMAIN c, NEW p \in Path, Below(q, p)
  PROVE  p \in DOMAIN c
<1>1. q \in Path /\ Len(q) \in Nat /\ Len(p) \in Nat BY TreeFacts DEF Path
<1>2. Len(q) > Len(p) /\ \A i \in 1 .. Len(p) : q[i] = p[i] BY <1>1, BelowFacts
<1>3. IsPrefix1(p, q, Len(p)) /\ Len(p) \in 0 .. Len(q) BY <1>1, <1>2 DEF IsPrefix1
<1> QED BY <1>3, PrefixIn

(* A block with anything below it has a child, on the axis it is split on.   *)
LEMMA BredSplit ==
  ASSUME NEW c, Tree(c), NEW p \in DOMAIN c
  PROVE  BredIn(c, p) => c[p].split \in Axes
<1>1. ASSUME NEW q \in DOMAIN c, Below(q, p) PROVE c[p].split \in Axes
  BY <1>1, Nested DEF OnSideOf
<1> QED BY <1>1 DEF BredIn

LEMMA ParentIn ==
  ASSUME NEW c, Tree(c), NEW q \in DOMAIN c, q # << >>
  PROVE  /\ Parent(q) \in DOMAIN c /\ c[Parent(q)].split = Last(q)[1]
         /\ BoxIn(c, q) = Half(BoxIn(c, Parent(q)), Last(q)[1], Last(q)[2])
         /\ Below(q, Parent(q))
<1>1. q \in Path BY TreeFacts
<1>2. Placed(c, BoxIn(c, q)) /\ BoxIn(c, q).path = q BY DEF Tree, BoxIn
<1> QED BY <1>1, <1>2, BelowItsParent DEF Placed
-----------------------------------------------------------------------------
(* Lists of blocks *)

IsList(s, A) == s \in Seq(Path) /\ NoRepeat(s) /\ ToSet(s) = A

LEMMA ToSetFacts ==
  ASSUME NEW S, NEW s \in Seq(S)
  PROVE  ToSet(s) = {s[i] : i \in 1 .. Len(s)} /\ ToSet(s) \subseteq S
BY DEF ToSet

LEMMA ListEmpty == IsList(<< >>, {})
BY DEF IsList, NoRepeat, ToSet

LEMMA ListIn ==
  ASSUME NEW s, NEW A, IsList(s, A)
  PROVE  /\ A \subseteq Path /\ (s = << >> <=> A = {})
         /\ \A i \in 1 .. Len(s) : s[i] \in A
<1>1. s \in Seq(Path) /\ ToSet(s) = A BY DEF IsList
<1>2. A = {s[i] : i \in 1 .. Len(s)} /\ A \subseteq Path BY <1>1, ToSetFacts
<1>3. ASSUME s # << >> PROVE A # {}
  <2>1. 1 \in 1 .. Len(s) BY <1>1, <1>3
  <2> QED BY <2>1, <1>2
<1>4. s = << >> => A = {} BY <1>1 DEF ToSet
<1>5. \A i \in 1 .. Len(s) : s[i] \in A BY <1>2
<1> QED BY <1>2, <1>3, <1>4, <1>5

LEMMA ListConcat ==
  ASSUME NEW s, NEW A, IsList(s, A), NEW t, NEW B, IsList(t, B), A \cap B = {}
  PROVE  IsList(s \o t, A \cup B)
<1>1. s \in Seq(Path) /\ t \in Seq(Path) BY DEF IsList
<1>2. PICK u : u = s \o t OBVIOUS
<1>3. u \in Seq(Path) /\ Joined(u, s, t) BY <1>1, <1>2, Concat
<1>4. PICK m, n : m = Len(s) /\ n = Len(t) OBVIOUS
<1>5. m \in Nat /\ n \in Nat BY <1>1, <1>4
<1>6. /\ Len(u) = m + n /\ \A i \in 1 .. m : u[i] = s[i] /\ u[i] \in A
      /\ \A i \in 1 .. n : u[m + i] = t[i] /\ u[m + i] \in B
  BY <1>3, <1>4, ListIn DEF Joined
<1>7. ASSUME NEW k \in 1 .. Len(u) PROVE k \in 1 .. m \/ (k - m \in 1 .. n /\ k = m + (k - m))
  BY <1>5, <1>6
<1>8. ToSet(u) = A \cup B
  <2>1. ToSet(u) = {u[k] : k \in 1 .. Len(u)} /\ A = {s[i] : i \in 1 .. m} /\ B = {t[i] : i \in 1 .. n}
    BY <1>1, <1>3, <1>4, ToSetFacts DEF IsList
  <2>2. ASSUME NEW k \in 1 .. Len(u) PROVE u[k] \in A \cup B
    BY <1>6, <1>7
  <2>3. ASSUME NEW i \in 1 .. m PROVE s[i] \in ToSet(u)
    <3>1. i \in 1 .. Len(u) /\ u[i] = s[i] BY <1>5, <1>6
    <3> QED BY <3>1, <2>1
  <2>4. ASSUME NEW i \in 1 .. n PROVE t[i] \in ToSet(u)
    <3>1. m + i \in 1 .. Len(u) /\ u[m + i] = t[i] BY <1>5, <1>6
    <3> QED BY <3>1, <2>1
  <2> QED BY <2>1, <2>2, <2>3, <2>4
<1>9. NoRepeat(u)
  <2> SUFFICES ASSUME NEW i \in 1 .. Len(u), NEW j \in 1 .. Len(u), u[i] = u[j] PROVE i = j
    BY DEF NoRepeat
  <2>1. CASE i \in 1 .. m /\ j \in 1 .. m
    <3>1. s[i] = s[j] BY <1>6, <2>1
    <3> QED BY <3>1, <2>1, <1>4 DEF IsList, NoRepeat
  <2>2. CASE i - m \in 1 .. n /\ i = m + (i - m) /\ j - m \in 1 .. n /\ j = m + (j - m)
    <3>1. PICK a, b : a = i - m /\ b = j - m OBVIOUS
    <3>2. a \in 1 .. n /\ b \in 1 .. n /\ i = m + a /\ j = m + b BY <2>2, <3>1
    <3>3. t[a] = t[b] BY <1>6, <3>2
    <3>4. a = b BY <3>2, <3>3, <1>4 DEF IsList, NoRepeat
    <3> QED BY <3>2, <3>4
  <2>3. CASE i \in 1 .. m /\ j - m \in 1 .. n /\ j = m + (j - m)
    <3>1. u[i] \in A /\ u[j] \in B BY <1>6, <2>3
    <3> QED BY <3>1
  <2>4. CASE j \in 1 .. m /\ i - m \in 1 .. n /\ i = m + (i - m)
    <3>1. u[j] \in A /\ u[i] \in B BY <1>6, <2>4
    <3> QED BY <3>1
  <2> QED BY <1>7, <2>1, <2>2, <2>3, <2>4
<1> QED BY <1>2, <1>3, <1>8, <1>9 DEF IsList

LEMMA ListOne ==
  ASSUME NEW p \in Path PROVE IsList(<<p>>, {p})
<1>1. <<p>> \in Seq(Path) /\ Len(<<p>>) = 1 OBVIOUS
<1>2. ToSet(<<p>>) = {<<p>>[i] : i \in 1 .. 1} BY <1>1, ToSetFacts
<1>3. ToSet(<<p>>) = {p} BY <1>2
<1> QED BY <1>1, <1>3 DEF IsList, NoRepeat

LEMMA ListTwo ==
  ASSUME NEW p \in Path, NEW q \in Path, p # q
  PROVE  IsList(<<p, q>>, {p, q})
<1>1. <<p, q>> \in Seq(Path) /\ Len(<<p, q>>) = 2 OBVIOUS
<1>2. ToSet(<<p, q>>) = {<<p, q>>[i] : i \in 1 .. 2} BY <1>1, ToSetFacts
<1>3. \A i \in 1 .. 2 : i = 1 \/ i = 2 OBVIOUS
<1>4. ToSet(<<p, q>>) = {p, q} BY <1>2, <1>3
<1>5. NoRepeat(<<p, q>>) BY <1>1, <1>3 DEF NoRepeat
<1> QED BY <1>1, <1>4, <1>5 DEF IsList

LEMMA ListAppend ==
  ASSUME NEW s, NEW A, IsList(s, A), NEW p \in Path, p \notin A
  PROVE  IsList(Append(s, p), A \cup {p})
<1>1. Append(s, p) = s \o <<p>> BY DEF IsList
<1>2. IsList(s \o <<p>>, A \cup {p}) BY ListOne, ListConcat
<1> QED BY <1>1, <1>2

LEMMA ListPart ==
  ASSUME NEW s, NEW A, IsList(s, A), NEW i \in Nat \ {0}, NEW j \in Nat, j <= Len(s)
  PROVE  IsList(SubSeq(s, i, j), {s[k] : k \in i .. j})
<1>1. s \in Seq(Path) /\ Len(s) \in Nat BY DEF IsList
<1>2. PICK u : u = SubSeq(s, i, j) OBVIOUS
<1>3. CASE i > j
  <2>1. u = << >> BY <1>2, <1>3, <1>1
  <2>2. {s[k] : k \in i .. j} = {} BY <1>3
  <2> QED BY <2>1, <2>2, <1>2, ListEmpty
<1>4. CASE i <= j
  <2>1. u \in Seq(Path) /\ Len(u) = j - i + 1 /\ \A k \in 1 .. j - i + 1 : u[k] = s[i + k - 1]
    BY <1>1, <1>2, <1>4
  <2>2. ToSet(u) = {u[k] : k \in 1 .. Len(u)} BY <2>1, ToSetFacts
  <2>3. ASSUME NEW k \in 1 .. Len(u) PROVE u[k] \in {s[n] : n \in i .. j}
    <3>1. i + k - 1 \in i .. j /\ u[k] = s[i + k - 1] BY <1>4, <2>1
    <3> QED BY <3>1
  <2>4. ASSUME NEW n \in i .. j PROVE s[n] \in ToSet(u)
    <3>1. PICK k : k = n - i + 1 OBVIOUS
    <3>2. k \in 1 .. Len(u) /\ i + k - 1 = n BY <1>4, <2>1, <3>1
    <3>3. u[k] = s[n] BY <2>1, <3>2
    <3> QED BY <2>2, <3>2, <3>3
  <2>5. NoRepeat(u)
    <3> SUFFICES ASSUME NEW a \in 1 .. Len(u), NEW b \in 1 .. Len(u), u[a] = u[b] PROVE a = b
      BY DEF NoRepeat
    <3>1. PICK m, n : m = i + a - 1 /\ n = i + b - 1 OBVIOUS
    <3>2. m \in 1 .. Len(s) /\ n \in 1 .. Len(s) BY <1>1, <1>4, <2>1, <3>1
    <3>3. s[m] = s[n] BY <2>1, <3>1
    <3>4. m = n BY <3>2, <3>3 DEF IsList, NoRepeat
    <3> QED BY <3>1, <3>4
  <2>6. ToSet(u) = {s[n] : n \in i .. j} BY <2>2, <2>3, <2>4
  <2> QED BY <1>2, <2>1, <2>5, <2>6 DEF IsList
<1> QED BY <1>3, <1>4

LEMMA ListRemove ==
  ASSUME NEW s, NEW A, IsList(s, A), NEW i \in 1 .. Len(s)
  PROVE  s[i] \in A /\ IsList(RemoveAt(s, i), A \ {s[i]})
<1>1. s \in Seq(Path) /\ Len(s) \in Nat /\ i \in Nat BY DEF IsList
<1>2. A = {s[k] : k \in 1 .. Len(s)} BY <1>1, ToSetFacts DEF IsList
<1>3. \A m, n \in 1 .. Len(s) : s[m] = s[n] => m = n BY DEF IsList, NoRepeat
<1>4. PICK B, C : B = {s[k] : k \in 1 .. i - 1} /\ C = {s[k] : k \in i + 1 .. Len(s)} OBVIOUS
<1>5. IsList(SubSeq(s, 1, i - 1), B)
  <2>1. 1 \in Nat \ {0} /\ i - 1 \in Nat /\ i - 1 <= Len(s) BY <1>1
  <2> QED BY <2>1, <1>4, ListPart
<1>6. IsList(SubSeq(s, i + 1, Len(s)), C)
  <2>1. i + 1 \in Nat \ {0} /\ Len(s) \in Nat /\ Len(s) <= Len(s) BY <1>1
  <2> QED BY <2>1, <1>4, ListPart
<1>7. B \cap C = {}
  <2>1. ASSUME NEW m \in 1 .. i - 1, NEW n \in i + 1 .. Len(s) PROVE s[m] # s[n]
    <3>1. m \in 1 .. Len(s) /\ n \in 1 .. Len(s) /\ m # n BY <1>1
    <3> QED BY <3>1, <1>3
  <2> QED BY <2>1, <1>4
<1>8. B \cup C = A \ {s[i]}
  <2>1. ASSUME NEW k \in 1 .. Len(s), s[k] # s[i] PROVE s[k] \in B \cup C
    <3>1. k # i BY <2>1
    <3>2. k \in 1 .. i - 1 \/ k \in i + 1 .. Len(s) BY <1>1, <3>1
    <3> QED BY <3>2, <1>4
  <2>2. ASSUME NEW k \in 1 .. i - 1 PROVE s[k] \in A \ {s[i]}
    <3>1. k \in 1 .. Len(s) /\ k # i BY <1>1
    <3> QED BY <3>1, <1>2, <1>3
  <2>3. ASSUME NEW k \in i + 1 .. Len(s) PROVE s[k] \in A \ {s[i]}
    <3>1. k \in 1 .. Len(s) /\ k # i BY <1>1
    <3> QED BY <3>1, <1>2, <1>3
  <2> QED BY <2>1, <2>2, <2>3, <1>2, <1>4
<1>9. IsList(SubSeq(s, 1, i - 1) \o SubSeq(s, i + 1, Len(s)), B \cup C) BY <1>5, <1>6, <1>7, ListConcat
<1> QED BY <1>2, <1>8, <1>9 DEF RemoveAt
LEMMA ListAlive ==
  ASSUME NEW s, NEW A, IsList(s, A)
  PROVE  IsList(Alive(s), A \cap DOMAIN cells)
<1>1. PICK n, D : n = Len(s) /\ D = DOMAIN cells OBVIOUS
<1>2. s \in Seq(Path) /\ n \in Nat BY <1>1 DEF IsList
<1>3. PICK g : g = [k \in Nat |-> [q \in Seq(Path) |->
                     IF k + 1 \in 1 .. n /\ s[k + 1] \in D THEN Append(q, s[k + 1]) ELSE q]] OBVIOUS
<1>4. PICK S, none : S = Seq(Path) /\ none = << >> OBVIOUS
<1>5. none \in S /\ g \in [Nat -> [S -> S]]
  <2>1. ASSUME NEW k \in Nat, NEW q \in Seq(Path)
        PROVE  (IF k + 1 \in 1 .. n /\ s[k + 1] \in D THEN Append(q, s[k + 1]) ELSE q) \in Seq(Path)
    <3>1. k + 1 \in 1 .. n => s[k + 1] \in Path BY <1>1, <1>2
    <3> QED BY <3>1
  <2> QED BY <1>3, <1>4, <2>1
<1>6. PICK h : Computes(h, S, none, g) BY <1>5, Iteration
<1>7. h \in [Nat -> Seq(Path)] /\ h[0] = << >> /\ \A k \in Nat : h[k + 1] = g[k][h[k]]
  BY <1>4, <1>6 DEF Computes
<1>8. ASSUME NEW k \in 1 .. n
      PROVE  /\ k - 1 \in Nat /\ h[k - 1] \in Seq(Path)
             /\ h[k] = IF s[k] \in D THEN Append(h[k - 1], s[k]) ELSE h[k - 1]
  <2>1. PICK j : j = k - 1 OBVIOUS
  <2>2. j \in Nat /\ k = j + 1 /\ j + 1 \in 1 .. n BY <1>2, <2>1
  <2>3. h[j] \in Seq(Path) /\ h[j + 1] = g[j][h[j]] BY <1>7, <2>2
  <2>4. g[j][h[j]] = IF s[j + 1] \in D THEN Append(h[j], s[j + 1]) ELSE h[j] BY <1>3, <2>2, <2>3
  <2> QED BY <2>1, <2>2, <2>3, <2>4
<1>9. PICK a : a = [k \in 0 .. n |-> h[k]] OBVIOUS
<1>10. ASSUME NEW k \in 0 .. n
       PROVE  a[k] = IF k = 0 THEN << >> ELSE IF s[k] \in D THEN Append(a[k - 1], s[k]) ELSE a[k - 1]
  <2>1. CASE k = 0 BY <1>7, <1>9, <2>1
  <2>2. CASE k # 0
    <3>1. k \in 1 .. n /\ k - 1 \in 0 .. n BY <1>2, <2>2
    <3>2. a[k] = h[k] /\ a[k - 1] = h[k - 1] BY <1>9, <3>1
    <3> QED BY <2>2, <3>1, <3>2, <1>8
  <2> QED BY <2>1, <2>2
<1>11. a = [k \in 0 .. n |-> IF k = 0 THEN << >>
                             ELSE IF s[k] \in D THEN Append(a[k - 1], s[k]) ELSE a[k - 1]]
  BY <1>9, <1>10
<1>12. PICK b : b = CHOOSE alive : alive = [k \in 0 .. n |-> IF k = 0 THEN << >>
                  ELSE IF s[k] \in D THEN Append(alive[k - 1], s[k]) ELSE alive[k - 1]]
  OBVIOUS
<1>13. b = [k \in 0 .. n |-> IF k = 0 THEN << >>
                             ELSE IF s[k] \in D THEN Append(b[k - 1], s[k]) ELSE b[k - 1]]
  BY <1>11, <1>12
<1>14. Alive(s) = b[n] BY <1>1, <1>12 DEF Alive
<1> DEFINE C == {k \in Nat : k <= n => IsList(b[k], {s[i] : i \in 1 .. k} \cap D)}
<1>15. 0 \in C
  <2>1. b[0] = << >> BY <1>2, <1>13
  <2>2. {s[i] : i \in 1 .. 0} \cap D = {} OBVIOUS
  <2> QED BY <2>1, <2>2, ListEmpty
<1>16. ASSUME NEW k \in Nat, k \in C PROVE k + 1 \in C
  <2> SUFFICES ASSUME k + 1 <= n PROVE IsList(b[k + 1], {s[i] : i \in 1 .. k + 1} \cap D)
    OBVIOUS
  <2>1. PICK B, e : B = {s[i] : i \in 1 .. k} \cap D /\ e = s[k + 1] OBVIOUS
  <2>2. IsList(b[k], B) BY <1>2, <1>16, <2>1
  <2>3. k + 1 \in 1 .. n /\ k + 1 \in 0 .. n /\ k + 1 # 0 /\ (k + 1) - 1 = k BY <1>2
  <2>4. b[k + 1] = IF e \in D THEN Append(b[k], e) ELSE b[k] BY <1>13, <2>1, <2>3
  <2>5. e \in Path BY <1>1, <1>2, <2>1, <2>3
  <2>6. e \notin B
    <3>1. ASSUME NEW i \in 1 .. k, s[i] = e PROVE FALSE
      <4>1. i \in 1 .. n /\ i # k + 1 BY <1>2, <2>3
      <4> QED BY <4>1, <2>1, <2>3, <3>1, <1>1 DEF IsList, NoRepeat
    <3> QED BY <3>1, <2>1
  <2>7. {s[i] : i \in 1 .. k + 1} = {s[i] : i \in 1 .. k} \cup {e}
    <3>1. \A i \in 1 .. k + 1 : i \in 1 .. k \/ i = k + 1 OBVIOUS
    <3>2. \A i \in 1 .. k : i \in 1 .. k + 1 OBVIOUS
    <3>3. k + 1 \in 1 .. k + 1 OBVIOUS
    <3> QED BY <3>1, <3>2, <3>3, <2>1
  <2>8. CASE e \in D
    <3>1. {s[i] : i \in 1 .. k + 1} \cap D = B \cup {e} BY <2>1, <2>7, <2>8
    <3>2. IsList(Append(b[k], e), B \cup {e}) BY <2>2, <2>5, <2>6, ListAppend
    <3> QED BY <2>4, <2>8, <3>1, <3>2
  <2>9. CASE e \notin D
    <3>1. {s[i] : i \in 1 .. k + 1} \cap D = B BY <2>1, <2>7, <2>9
    <3> QED BY <2>2, <2>4, <2>9, <3>1
  <2> QED BY <2>8, <2>9
<1>17. Nat \subseteq C
  <2> HIDE DEF C
  <2> QED BY <1>15, <1>16, SetInduction
<1>18. IsList(b[n], {s[i] : i \in 1 .. n} \cap D)
  <2>1. n \in C
    <3> HIDE DEF C
    <3> QED BY <1>2, <1>17
  <2> QED BY <1>2, <2>1
<1>19. A = {s[i] : i \in 1 .. n} BY <1>1, <1>2, ToSetFacts DEF IsList
<1> QED BY <1>1, <1>14, <1>18, <1>19

(* The block pass_through takes next stands in the list. *)
LEMMA DueFacts ==
  ASSUME active \in Seq(Path), Due # 0
  PROVE  Due \in 1 .. Len(active)
<1>1. PICK I : I = {i \in 1 .. Len(active) : Level(active[i]) = lmin} OBVIOUS
<1>2. Due = IF I # {} THEN Min(I) ELSE 0 BY <1>1 DEF Due, SelectInSeq
<1>3. I # {} /\ I \subseteq Nat BY <1>1, <1>2
<1>4. Min(I) \in I BY <1>3, MinFacts
<1> QED BY <1>1, <1>2, <1>3, <1>4
-----------------------------------------------------------------------------
(* What a step may do to the blocks. *)

LEMMA CellFacts ==
  ASSUME NEW c, NEW v, CellsOK(c, v), NEW p \in DOMAIN c
  PROVE  /\ Tree(c) /\ p \in Path /\ GoodBox(BoxIn(c, p)) /\ BoxIn(c, p) \in Box
         /\ BoxIn(c, p).path = p /\ BoxIn(c, p).x = c[p].x
         /\ CellOK(c, p, v) /\ c[p].x \in PointSet(BoxIn(c, p)) /\ c[p].x \in DOMAIN v
<1>1. Tree(c) /\ CellOK(c, p, v) BY DEF CellsOK
<1>2. PICK b : b = BoxIn(c, p) OBVIOUS
<1>3. b.path = p /\ b.x = c[p].x BY <1>2 DEF BoxIn
<1>4. GoodBox(b) /\ b \in Box BY <1>1, <1>2, GoodFacts DEF Tree
<1>5. p \in Path BY <1>1, TreeFacts
<1>6. b.x \in PointSet(b) BY <1>4, PointSetFacts
<1>7. PointSet(b) \subseteq DOMAIN v BY <1>1, <1>2 DEF CellOK
<1> QED BY <1>1, <1>2, <1>3, <1>4, <1>5, <1>6, <1>7

LEMMA ValuesFacts ==
  ASSUME NEW v, ValOK(v), NEW b, PointSet(b) \subseteq DOMAIN v
  PROVE  Values(b, v) \in [PointSet(b) -> 0 .. V]
BY DEF ValOK, Values

LEMMA OtherValues ==
  ASSUME NEW c, NEW v, CellsOK(c, v), NEW w, DOMAIN v \subseteq DOMAIN w
  PROVE  CellsOK(c, w)
<1>1. ASSUME NEW p \in DOMAIN c PROVE CellOK(c, p, w)
  <2>1. CellOK(c, p, v) BY DEF CellsOK
  <2> QED BY <2>1 DEF CellOK
<1> QED BY <1>1 DEF CellsOK

(* d is c with another block at p; the others, and the box at p, are as they were *)
SameBut(d, c, p) ==
  /\ DOMAIN d = DOMAIN c /\ d = [q \in DOMAIN d |-> d[q]]
  /\ \A q \in DOMAIN c : BoxIn(d, q) = BoxIn(c, q) /\ (q # p => d[q] = c[q])

SplitSet(d, c, p, s) == d = [c EXCEPT ![p].split = s]
SeenSet(d, c, p, v)  == d = [c EXCEPT ![p].seen = Values(BoxIn(c, p), v)]
Cut(d, c, p)         == d = Restrict(c, DOMAIN c \ {q \in DOMAIN c : Below(q, p)})

LEMMA SetSplit ==
  ASSUME NEW c, NEW v, CellsOK(c, v), NEW p \in DOMAIN c, ~BredIn(c, p),
         NEW s, s \in Axes \cup {None}, s # None => MayHalve(p, s),
         NEW d, SplitSet(d, c, p, s)
  PROVE  /\ CellsOK(d, v) /\ SameBut(d, c, p)
         /\ d[p].x = c[p].x /\ d[p].split = s /\ d[p].seen = c[p].seen
<1>1. Whole(c[p]) BY DEF CellsOK, CellOK
<1>2. d = [q \in DOMAIN c |-> IF q = p THEN [c[p] EXCEPT !.split = s] ELSE c[q]] BY DEF CellsOK, SplitSet
<1>3. PICK r : r = c[p] OBVIOUS
<1>4. d[p] = [r EXCEPT !.split = s] BY <1>2, <1>3
<1>5. r = [x |-> r.x, w |-> r.w, split |-> r.split, seen |-> r.seen] BY <1>1, <1>3 DEF Whole
<1>6. d[p] = [x |-> r.x, w |-> r.w, split |-> s, seen |-> r.seen] BY <1>4, <1>5
<1>7. d[p].x = r.x /\ d[p].w = r.w /\ d[p].split = s /\ d[p].seen = r.seen /\ Whole(d[p])
  BY <1>6 DEF Whole
<1>8. \A q \in DOMAIN c : q # p => d[q] = c[q] BY <1>2
<1>9. DOMAIN d = DOMAIN c /\ d = [q \in DOMAIN d |-> d[q]] BY <1>2
<1>10. \A q \in DOMAIN c : BoxIn(d, q) = BoxIn(c, q) BY <1>3, <1>7, <1>8 DEF BoxIn
<1>11. Tree(c) BY DEF CellsOK
<1>12. ASSUME NEW q \in DOMAIN d, q # << >> PROVE Placed(d, BoxIn(d, q))
  <2>1. q \in DOMAIN c BY <1>9
  <2>2. /\ Parent(q) \in DOMAIN c /\ c[Parent(q)].split = Last(q)[1] /\ Below(q, Parent(q))
        /\ BoxIn(c, q) = Half(BoxIn(c, Parent(q)), Last(q)[1], Last(q)[2])
    BY <1>11, <1>12, <2>1, ParentIn
  <2>3. Parent(q) # p BY <2>1, <2>2 DEF BredIn
  <2>4. d[Parent(q)].split = Last(q)[1] BY <1>8, <2>2, <2>3
  <2>5. BoxIn(d, q) = Half(BoxIn(d, Parent(q)), Last(q)[1], Last(q)[2]) BY <1>10, <2>1, <2>2
  <2>6. BoxIn(d, q).path = q BY DEF BoxIn
  <2> QED BY <1>9, <2>2, <2>4, <2>5, <2>6 DEF Placed
<1>13. Tree(d)
  <2>1. ASSUME NEW q \in DOMAIN d
        PROVE  /\ GoodBox(BoxIn(d, q))
               /\ IF q = << >> THEN BoxIn(d, q) = RootBox ELSE Placed(d, BoxIn(d, q))
    BY <1>9, <1>10, <1>11, <1>12 DEF Tree
  <2> QED BY <2>1 DEF Tree
<1>14. ASSUME NEW q \in DOMAIN d PROVE CellOK(d, q, v)
  <2>1. CellOK(c, q, v) /\ BoxIn(d, q) = BoxIn(c, q) BY <1>9, <1>10 DEF CellsOK
  <2>2. CASE q = p BY <2>1, <2>2, <1>3, <1>7 DEF CellOK
  <2>3. CASE q # p BY <2>1, <2>3, <1>8, <1>9 DEF CellOK
  <2> QED BY <2>2, <2>3
<1> QED BY <1>3, <1>7, <1>8, <1>9, <1>10, <1>13, <1>14 DEF CellsOK, SameBut

LEMMA SetSeen ==
  ASSUME NEW c, NEW v, CellsOK(c, v), ValOK(v), NEW p \in DOMAIN c,
         NEW d, SeenSet(d, c, p, v)
  PROVE  /\ CellsOK(d, v) /\ SameBut(d, c, p)
         /\ d[p].x = c[p].x /\ d[p].split = c[p].split /\ d[p].seen = Values(BoxIn(c, p), v)
<1>1. CellOK(c, p, v) BY DEF CellsOK
<1>2. PICK s : s = Values(BoxIn(c, p), v) OBVIOUS
<1>3. s \in [PointSet(BoxIn(c, p)) -> 0 .. V] BY <1>1, <1>2, ValuesFacts DEF CellOK
<1>4. d = [q \in DOMAIN c |-> IF q = p THEN [c[p] EXCEPT !.seen = s] ELSE c[q]] BY <1>2 DEF CellsOK, SeenSet
<1>5. PICK r : r = c[p] OBVIOUS
<1>6. d[p] = [r EXCEPT !.seen = s] BY <1>4, <1>5
<1>7. r = [x |-> r.x, w |-> r.w, split |-> r.split, seen |-> r.seen] BY <1>1, <1>5 DEF CellOK, Whole
<1>8. d[p] = [x |-> r.x, w |-> r.w, split |-> r.split, seen |-> s] BY <1>6, <1>7
<1>9. d[p].x = r.x /\ d[p].w = r.w /\ d[p].split = r.split /\ d[p].seen = s /\ Whole(d[p])
  BY <1>8 DEF Whole
<1>10. \A q \in DOMAIN c : q # p => d[q] = c[q] BY <1>4
<1>11. DOMAIN d = DOMAIN c /\ d = [q \in DOMAIN d |-> d[q]] BY <1>4
<1>12. \A q \in DOMAIN c : BoxIn(d, q) = BoxIn(c, q) /\ d[q].split = c[q].split
  BY <1>5, <1>9, <1>10 DEF BoxIn
<1>13. Tree(c) BY DEF CellsOK
<1>14. ASSUME NEW q \in DOMAIN d, q # << >> PROVE Placed(d, BoxIn(d, q))
  <2>1. q \in DOMAIN c BY <1>11
  <2>2. /\ Parent(q) \in DOMAIN c /\ c[Parent(q)].split = Last(q)[1]
        /\ BoxIn(c, q) = Half(BoxIn(c, Parent(q)), Last(q)[1], Last(q)[2])
    BY <1>13, <1>14, <2>1, ParentIn
  <2>3. d[Parent(q)].split = Last(q)[1] BY <1>12, <2>2
  <2>4. BoxIn(d, q) = Half(BoxIn(d, Parent(q)), Last(q)[1], Last(q)[2]) BY <1>12, <2>1, <2>2
  <2>5. BoxIn(d, q).path = q BY DEF BoxIn
  <2> QED BY <1>11, <2>2, <2>3, <2>4, <2>5 DEF Placed
<1>15. Tree(d)
  <2>1. ASSUME NEW q \in DOMAIN d
        PROVE  /\ GoodBox(BoxIn(d, q))
               /\ IF q = << >> THEN BoxIn(d, q) = RootBox ELSE Placed(d, BoxIn(d, q))
    BY <1>11, <1>12, <1>13, <1>14 DEF Tree
  <2> QED BY <2>1 DEF Tree
<1>16. ASSUME NEW q \in DOMAIN d PROVE CellOK(d, q, v)
  <2>1. CellOK(c, q, v) /\ BoxIn(d, q) = BoxIn(c, q) BY <1>11, <1>12 DEF CellsOK
  <2>2. CASE q = p BY <2>1, <2>2, <1>3, <1>5, <1>9 DEF CellOK
  <2>3. CASE q # p BY <2>1, <2>3, <1>10, <1>11 DEF CellOK
  <2> QED BY <2>2, <2>3
<1>17. SameBut(d, c, p) BY <1>10, <1>11, <1>12 DEF SameBut
<1>18. CellsOK(d, v) BY <1>11, <1>15, <1>16 DEF CellsOK
<1> QED BY <1>2, <1>5, <1>9, <1>17, <1>18
Grown(d, c, b, v) ==
  /\ DOMAIN d = DOMAIN c \cup {b.path}
  /\ \A q \in DOMAIN c : d[q] = c[q] /\ BoxIn(d, q) = BoxIn(c, q)
  /\ BoxIn(d, b.path) = b /\ d[b.path].x = b.x
  /\ d[b.path].split = None /\ d[b.path].seen = Values(b, v)

LEMMA NewCell ==
  ASSUME NEW c, NEW v, CellsOK(c, v), ValOK(v),
         NEW b, GoodBox(b), b.path \notin DOMAIN c, PointSet(b) \subseteq DOMAIN v,
         IF b.path = << >> THEN b = RootBox /\ DOMAIN c = {} ELSE Placed(c, b),
         NEW d, d = [p \in DOMAIN c \cup {b.path} |->
                       IF p = b.path THEN [x |-> b.x, w |-> b.w, split |-> None, seen |-> Values(b, v)]
                       ELSE c[p]]
  PROVE  CellsOK(d, v) /\ Grown(d, c, b, v) /\ ~BredIn(d, b.path)
<1>1. PICK n : n = b.path OBVIOUS
<1>2. /\ d[n] = [x |-> b.x, w |-> b.w, split |-> None, seen |-> Values(b, v)]
      /\ \A q \in DOMAIN c : d[q] = c[q]
      /\ DOMAIN d = DOMAIN c \cup {n} /\ d = [q \in DOMAIN d |-> d[q]]
  BY <1>1
<1>3. d[n].x = b.x /\ d[n].w = b.w /\ d[n].split = None /\ d[n].seen = Values(b, v) /\ Whole(d[n])
  BY <1>2 DEF Whole
<1>4. b \in Box /\ n \in Path BY <1>1, GoodFacts
<1>5. b = [path |-> b.path, x |-> b.x, w |-> b.w] BY <1>4 DEF Box
<1>6. BoxIn(d, n) = b BY <1>1, <1>3, <1>5 DEF BoxIn
<1>7. \A q \in DOMAIN c : BoxIn(d, q) = BoxIn(c, q) BY <1>2 DEF BoxIn
<1>8. Grown(d, c, b, v) BY <1>1, <1>2, <1>3, <1>6, <1>7 DEF Grown
<1>9. Tree(c) BY DEF CellsOK
<1>10. ASSUME NEW q \in DOMAIN c, q # << >> PROVE Placed(d, BoxIn(d, q))
  <2>1. /\ Parent(q) \in DOMAIN c /\ c[Parent(q)].split = Last(q)[1]
        /\ BoxIn(c, q) = Half(BoxIn(c, Parent(q)), Last(q)[1], Last(q)[2])
    BY <1>9, <1>10, ParentIn
  <2>2. Parent(q) \in DOMAIN d /\ d[Parent(q)].split = Last(q)[1] BY <1>2, <2>1
  <2>3. BoxIn(d, q) = Half(BoxIn(d, Parent(q)), Last(q)[1], Last(q)[2]) BY <1>7, <2>1
  <2>4. BoxIn(d, q).path = q BY DEF BoxIn
  <2> QED BY <2>2, <2>3, <2>4 DEF Placed
<1>11. ASSUME NEW q \in DOMAIN c
       PROVE  /\ GoodBox(BoxIn(d, q))
              /\ IF q = << >> THEN BoxIn(d, q) = RootBox ELSE Placed(d, BoxIn(d, q))
  BY <1>7, <1>9, <1>10 DEF Tree
<1>12. /\ GoodBox(BoxIn(d, n))
       /\ IF n = << >> THEN BoxIn(d, n) = RootBox ELSE Placed(d, BoxIn(d, n))
  <2>1. CASE n = << >> BY <2>1, <1>1, <1>6
  <2>2. CASE n # << >>
    <3>1. Placed(c, b) BY <2>2, <1>1
    <3>2. /\ Parent(n) \in DOMAIN c /\ c[Parent(n)].split = Last(n)[1]
          /\ b = Half(BoxIn(c, Parent(n)), Last(n)[1], Last(n)[2])
      BY <3>1, <1>1 DEF Placed
    <3>3. Parent(n) \in DOMAIN d /\ d[Parent(n)].split = Last(n)[1] BY <1>2, <3>2
    <3>4. b = Half(BoxIn(d, Parent(n)), Last(n)[1], Last(n)[2]) BY <1>7, <3>2
    <3>5. Placed(d, b) BY <3>3, <3>4, <1>1 DEF Placed
    <3> QED BY <2>2, <3>5, <1>6
  <2> QED BY <2>1, <2>2
<1>13. Tree(d) BY <1>2, <1>11, <1>12 DEF Tree
<1>14. ASSUME NEW q \in DOMAIN d PROVE CellOK(d, q, v)
  <2>1. CASE q \in DOMAIN c
    <3>1. CellOK(c, q, v) BY <2>1 DEF CellsOK
    <3> QED BY <3>1, <2>1, <1>2, <1>7 DEF CellOK
  <2>2. CASE q = n
    <3>1. Values(b, v) \in [PointSet(b) -> 0 .. V] BY ValuesFacts
    <3>2. CellOK(d, n, v) BY <3>1, <1>1, <1>3, <1>6 DEF CellOK
    <3> QED BY <2>2, <3>2
  <2> QED BY <2>1, <2>2, <1>2
<1>15. CellsOK(d, v) BY <1>2, <1>13, <1>14 DEF CellsOK
<1>16. ASSUME NEW q \in DOMAIN d, Below(q, n) PROVE FALSE
  <2>1. q # n BY <1>4, <1>16, BelowIrreflexive
  <2>2. q \in DOMAIN c BY <2>1, <1>2
  <2>3. n \in DOMAIN c BY <2>2, <1>4, <1>9, <1>16, BelowIn
  <2> QED BY <2>3, <1>1
<1> QED BY <1>1, <1>8, <1>15, <1>16 DEF BredIn

Without(d, c, p) ==
  /\ DOMAIN d = DOMAIN c \ {q \in DOMAIN c : Below(q, p)}
  /\ \A q \in DOMAIN d : d[q] = c[q] /\ BoxIn(d, q) = BoxIn(c, q)

LEMMA Pruned ==
  ASSUME NEW c, NEW v, CellsOK(c, v), NEW p \in DOMAIN c, NEW d, Cut(d, c, p)
  PROVE  CellsOK(d, v) /\ Without(d, c, p) /\ p \in DOMAIN d /\ ~BredIn(d, p)
<1>0. PICK K : K = {q \in DOMAIN c : Below(q, p)} OBVIOUS
<1>1. d = [q \in DOMAIN c \ K |-> c[q]] BY <1>0 DEF Restrict, Cut
<1>2. DOMAIN d = DOMAIN c \ K /\ d = [q \in DOMAIN d |-> d[q]] BY <1>1
<1>3. \A q \in DOMAIN d : d[q] = c[q] /\ BoxIn(d, q) = BoxIn(c, q) BY <1>1 DEF BoxIn
<1>4. Tree(c) BY DEF CellsOK
<1>5. p \in Path BY <1>4, TreeFacts
<1>6. p \in DOMAIN d BY <1>0, <1>2, <1>5, BelowIrreflexive
<1>7. ~BredIn(d, p) BY <1>0, <1>2 DEF BredIn
<1>8. ASSUME NEW q \in DOMAIN d, q # << >> PROVE Placed(d, BoxIn(d, q))
  <2>1. q \in DOMAIN c /\ ~Below(q, p) BY <1>0, <1>2
  <2>2. /\ Parent(q) \in DOMAIN c /\ c[Parent(q)].split = Last(q)[1] /\ Below(q, Parent(q))
        /\ BoxIn(c, q) = Half(BoxIn(c, Parent(q)), Last(q)[1], Last(q)[2])
    BY <1>4, <1>8, <2>1, ParentIn
  <2>3. q \in Path /\ Parent(q) \in Path BY <1>4, <2>1, <2>2, TreeFacts
  <2>4. ~Below(Parent(q), p) BY <1>5, <2>1, <2>2, <2>3, BelowTransitive
  <2>5. Parent(q) \in DOMAIN d BY <1>0, <1>2, <2>2, <2>4
  <2>6. d[Parent(q)].split = Last(q)[1] BY <1>3, <2>2, <2>5
  <2>7. BoxIn(d, q) = Half(BoxIn(d, Parent(q)), Last(q)[1], Last(q)[2]) BY <1>3, <2>2, <2>5
  <2>8. BoxIn(d, q).path = q BY DEF BoxIn
  <2> QED BY <2>5, <2>6, <2>7, <2>8 DEF Placed
<1>9. Tree(d)
  <2>1. ASSUME NEW q \in DOMAIN d
        PROVE  /\ GoodBox(BoxIn(d, q))
               /\ IF q = << >> THEN BoxIn(d, q) = RootBox ELSE Placed(d, BoxIn(d, q))
    BY <1>2, <1>3, <1>4, <1>8 DEF Tree
  <2> QED BY <2>1 DEF Tree
<1>10. ASSUME NEW q \in DOMAIN d PROVE CellOK(d, q, v)
  <2>1. CellOK(c, q, v) /\ BoxIn(d, q) = BoxIn(c, q) /\ d[q] = c[q] BY <1>2, <1>3 DEF CellsOK
  <2> QED BY <2>1 DEF CellOK
<1>11. CellsOK(d, v) BY <1>2, <1>9, <1>10 DEF CellsOK
<1> QED BY <1>0, <1>2, <1>3, <1>6, <1>7, <1>11 DEF Without

LEMMA NewPointFacts ==
  ASSUME cur # NoBox, GoodBox(cur), Missing(cur) # {}
  PROVE  NewPoint \in PointSet(cur) /\ NewPoint \in Point /\ NewPoint \notin DOMAIN val
<1>1. PICK m : m = Min(Missing(cur)) OBVIOUS
<1>2. Missing(cur) \subseteq Nat BY DEF Missing
<1>3. m \in Missing(cur) BY <1>1, <1>2, MinFacts
<1>4. m \in 1 .. Len(PointSeq(cur)) /\ PointSeq(cur)[m] \notin DOMAIN val BY <1>3 DEF Missing
<1>5. cur \in Box /\ PointSet(cur) \subseteq Point BY GoodFacts
<1>6. PointSet(cur) = {PointSeq(cur)[i] : i \in 1 .. Len(PointSeq(cur))} BY <1>5, PointSetFacts
<1>7. NewPoint = PointSeq(cur)[m] BY <1>1 DEF NewPoint
<1> QED BY <1>4, <1>5, <1>6, <1>7

LEMMA NothingMissing ==
  ASSUME GoodBox(cur), Missing(cur) = {}
  PROVE  PointSet(cur) \subseteq DOMAIN val
<1>1. cur \in Box BY GoodFacts
<1>2. PointSet(cur) = {PointSeq(cur)[i] : i \in 1 .. Len(PointSeq(cur))} BY <1>1, PointSetFacts
<1> QED BY <1>2 DEF Missing

LEMMA NotNoBox ==
  ASSUME NEW b, GoodBox(b) PROVE b # NoBox
<1>1. b.path \in Seq(Axes \X {0, 1}) BY GoodFacts DEF Path
<1>2. b.path = <<<<None, None>>>> => b.path[1] = <<None, None>> /\ Len(b.path) = 1 OBVIOUS
<1>3. <<None, None>> \notin Axes \X {0, 1} BY AxisFacts
<1>4. b.path # <<<<None, None>>>>
  <2>1. ASSUME b.path = <<<<None, None>>>> PROVE FALSE
    <3>1. 1 \in 1 .. Len(b.path) /\ b.path[1] = <<None, None>> BY <1>2, <2>1
    <3>2. b.path[1] \in Axes \X {0, 1} BY <1>1, <3>1
    <3> QED BY <3>1, <3>2, <1>3
  <2> QED BY <2>1
<1> QED BY <1>4 DEF NoBox
-----------------------------------------------------------------------------
(* AddPoint: a new point, its correction, and the blocks to refresh *)

LEMMA CorrectionFacts ==
  ASSUME NEW p, NEW c \in Corrections(p)
  PROVE  DOMAIN c \subseteq DOMAIN val /\ \A q \in DOMAIN c : c[q] \in 0 .. V
<1>1. PICK F : /\ F \in UNION {kSubset(k, {q \in DOMAIN val : val[q] > 0}) : k \in 0 .. MaxCorr}
               /\ c \in {f \in [F -> 0 .. V] : \A q \in F : f[q] < val[q]}
  BY DEF Corrections
<1>2. F \subseteq DOMAIN val BY <1>1 DEF kSubset
<1>3. c \in [F -> 0 .. V] BY <1>1
<1> QED BY <1>2, <1>3

LEMMA ValuesUnchanged ==
  ASSUME NEW v, NEW w, NEW b, \A q \in PointSet(b) : w[q] = v[q]
  PROVE  Values(b, w) = Values(b, v)
BY DEF Values

LEMMA AddPointKeeps ==
  ASSUME TableInv, AddPoint
  PROVE  TableInv'
<1>1. /\ TypeInv /\ CellsOK(cells, val) /\ BuildInv /\ CentresOK(cells, psplit, DOMAIN val)
      /\ ListInv /\ ShapeInv /\ FreshInv
  BY DEF TableInv
<1>2. cur # NoBox /\ Missing(cur) # {} BY DEF AddPoint
<1>3. UNCHANGED <<cells, cur, active, newborn, lmin, skipped, phase>> BY DEF AddPoint
<1>4. phase = "pass" /\ GoodBox(cur) BY <1>1, <1>2 DEF BuildInv
<1>5. PICK p : p = NewPoint OBVIOUS
<1>6. p \in Point /\ p \notin DOMAIN val BY <1>2, <1>4, <1>5, NewPointFacts
<1>7. PICK a \in FuncVals(p), c \in Corrections(p) :
        /\ val' = Extend([q \in DOMAIN val |-> IF q \in DOMAIN c THEN c[q] ELSE val[q]], p, a)
        /\ psplit' = Extend(psplit, p, None)
        /\ refresh' = refresh \cup Affected(DOMAIN c)
  BY <1>5 DEF AddPoint
<1>8. a \in 0 .. V BY <1>6, FuncAssumption
<1>9. DOMAIN c \subseteq DOMAIN val /\ \A q \in DOMAIN c : c[q] \in 0 .. V BY CorrectionFacts
<1>10. ValOK(val) /\ psplit \in [DOMAIN val -> Axes \cup {None}] BY <1>1 DEF TypeInv
<1>11. val' = [q \in DOMAIN val \cup {p} |-> IF q = p THEN a ELSE IF q \in DOMAIN c THEN c[q] ELSE val[q]]
  BY <1>6, <1>7 DEF Extend
<1>12. ValOK(val') /\ DOMAIN val' = DOMAIN val \cup {p}
  <2>1. DOMAIN val \subseteq Point /\ val \in [DOMAIN val -> 0 .. V] BY <1>10 DEF ValOK
  <2>2. DOMAIN val' = DOMAIN val \cup {p} BY <1>11
  <2>3. ASSUME NEW q \in DOMAIN val' PROVE val'[q] \in 0 .. V
    BY <1>8, <1>9, <1>11, <2>1, <2>2
  <2>4. val' \in [DOMAIN val' -> 0 .. V] BY <2>3, <1>11, <2>2
  <2> QED BY <1>6, <2>1, <2>2, <2>4 DEF ValOK
<1>13. /\ psplit' \in [DOMAIN val' -> Axes \cup {None}] /\ psplit'[p] = None
       /\ \A q \in DOMAIN val : psplit'[q] = psplit[q]
  <2>1. psplit' = [q \in DOMAIN val \cup {p} |-> IF q = p THEN None ELSE psplit[q]]
    BY <1>7, <1>10 DEF Extend
  <2> QED BY <2>1, <1>6, <1>10, <1>12
<1>14. TypeInv'
  <2>1. Affected(DOMAIN c) \subseteq DOMAIN cells BY DEF Affected
  <2>2. refresh' \cup skipped' \subseteq DOMAIN cells' BY <2>1, <1>1, <1>3, <1>7 DEF TypeInv
  <2> QED BY <2>2, <1>1, <1>3, <1>12, <1>13 DEF TypeInv
<1>15. CellsOK(cells', val')
  <2>1. CellsOK(cells, val') BY <1>1, <1>12, OtherValues
  <2> QED BY <2>1, <1>3
<1>16. BuildInv' BY <1>1, <1>3 DEF BuildInv
<1>17. CentresOK(cells', psplit', DOMAIN val')
  <2>1. ASSUME NEW q \in DOMAIN cells PROVE psplit'[cells[q].x] = cells[q].split
    <3>1. cells[q].x \in DOMAIN val BY <1>1, CellFacts
    <3> QED BY <3>1, <1>1, <1>13 DEF CentresOK
  <2>2. ASSUME NEW q \in DOMAIN val', \A r \in DOMAIN cells : cells[r].x # q PROVE psplit'[q] = None
    BY <2>2, <1>1, <1>12, <1>13 DEF CentresOK
  <2>3. CentresOK(cells, psplit', DOMAIN val') BY <2>1, <2>2 DEF CentresOK
  <2> QED BY <2>3, <1>3
<1>18. ListInv' BY <1>1, <1>3, <1>4 DEF ListInv
<1>19. ShapeInv' BY <1>1, <1>3 DEF ShapeInv, ShapeAt, Waiting, BuildingFor
<1>20. FreshInv'
  <2>1. ASSUME NEW q \in DOMAIN cells, q \notin refresh' \cup skipped PROVE FreshIn(cells, q, val')
    <3>1. FreshIn(cells, q, val) BY <1>1, <1>7, <2>1 DEF FreshInv
    <3>2. BoxOf(q) = BoxIn(cells, q) BY DEF BoxOf, BoxIn
    <3>3. PointSet(BoxIn(cells, q)) \cap DOMAIN c = {} BY <1>7, <2>1, <3>2 DEF Affected
    <3>4. PointSet(BoxIn(cells, q)) \subseteq DOMAIN val BY <1>1, CellFacts DEF CellOK
    <3>5. \A r \in PointSet(BoxIn(cells, q)) : val'[r] = val[r] BY <3>3, <3>4, <1>6, <1>11
    <3>6. Values(BoxIn(cells, q), val') = Values(BoxIn(cells, q), val) BY <3>5, ValuesUnchanged
    <3> QED BY <3>1, <3>6 DEF FreshIn
  <2>2. ASSUME NEW q \in DOMAIN cells'
        PROVE  /\ q \in refresh' \cup skipped' \/ FreshIn(cells', q, val')
               /\ (Waiting(q) \/ q \in ToSet(newborn) \/ Fledgling(q) \/ cells[q].split = Asked(cells, q))'
    <3>1. q \in DOMAIN cells BY <1>3
    <3>2. Waiting(q) \/ q \in ToSet(newborn) \/ Fledgling(q) \/ cells[q].split = Asked(cells, q)
      BY <1>1, <3>1 DEF FreshInv
    <3>3. q \in refresh' \cup skipped' \/ FreshIn(cells', q, val') BY <2>1, <3>1, <1>3
    <3> QED BY <3>2, <3>3, <1>3 DEF Waiting, Fledgling
  <2> QED BY <2>2 DEF FreshInv
<1> QED BY <1>14, <1>15, <1>16, <1>17, <1>18, <1>19, <1>20 DEF TableInv
-----------------------------------------------------------------------------
(* Complete: the block under construction joins the tree *)

LEMMA Completed ==
  ASSUME TableInv, Complete
  PROVE  /\ phase = "pass" /\ GoodBox(cur) /\ cur # NoBox /\ cur.path \in Path /\ cur.path \notin DOMAIN cells
         /\ UNCHANGED <<val, psplit, refresh, skipped, phase>>
         /\ CellsOK(cells', val) /\ Grown(cells', cells, cur, val) /\ ~BredIn(cells', cur.path)
         /\ CentresOK(cells', psplit, DOMAIN val)
<1>1. TypeInv /\ CellsOK(cells, val) /\ BuildInv /\ CentresOK(cells, psplit, DOMAIN val) BY DEF TableInv
<1>2. cur # NoBox /\ Missing(cur) = {} /\ cells' = AddCell(cur)
      /\ UNCHANGED <<val, psplit, refresh, skipped, phase>>
  BY DEF Complete
<1>3. /\ phase = "pass" /\ GoodBox(cur) /\ cur.path \notin DOMAIN cells
      /\ IF cur.path = << >> THEN cur = RootBox /\ DOMAIN cells = {} ELSE Placed(cells, cur)
  BY <1>1, <1>2 DEF BuildInv
<1>4. PointSet(cur) \subseteq DOMAIN val BY <1>2, <1>3, NothingMissing
<1>5. ValOK(val) BY <1>1 DEF TypeInv
<1>6. PICK b, d, v : b = cur /\ d = cells' /\ v = val OBVIOUS
<1>7. d = [p \in DOMAIN cells \cup {b.path} |->
             IF p = b.path THEN [x |-> b.x, w |-> b.w, split |-> None, seen |-> Values(b, v)] ELSE cells[p]]
  BY <1>2, <1>6 DEF AddCell
<1>8. CellsOK(d, v) /\ Grown(d, cells, b, v) /\ ~BredIn(d, b.path)
  <2>1. /\ CellsOK(cells, v) /\ ValOK(v) /\ GoodBox(b) /\ b.path \notin DOMAIN cells
        /\ PointSet(b) \subseteq DOMAIN v
        /\ IF b.path = << >> THEN b = RootBox /\ DOMAIN cells = {} ELSE Placed(cells, b)
    BY <1>1, <1>3, <1>4, <1>5, <1>6
  <2> QED BY <2>1, <1>7, NewCell
<1>9. b.path \in Path /\ b \in Box BY <1>3, <1>6, GoodFacts
<1>10. PICK n : n = b.path OBVIOUS
<1>11. /\ DOMAIN d = DOMAIN cells \cup {n} /\ n \notin DOMAIN cells
       /\ d[n].x = b.x /\ d[n].split = None /\ \A q \in DOMAIN cells : d[q] = cells[q]
  BY <1>3, <1>6, <1>8, <1>10 DEF Grown
<1>12. b.x \in DOMAIN v BY <1>4, <1>6, <1>9, PointSetFacts
<1>13. Tree(d) BY <1>8 DEF CellsOK
<1>14. psplit[b.x] = None
  <2>1. ASSUME NEW q \in DOMAIN cells PROVE cells[q].x # b.x
    <3>1. q \in DOMAIN d /\ n \in DOMAIN d /\ q # n BY <1>11
    <3>2. d[q].x # d[n].x BY <3>1, <1>13, CentresDiffer
    <3> QED BY <3>2, <1>11
  <2> QED BY <2>1, <1>1, <1>6, <1>12 DEF CentresOK
<1>15. CentresOK(d, psplit, DOMAIN v)
  <2>1. ASSUME NEW q \in DOMAIN d PROVE psplit[d[q].x] = d[q].split
    BY <1>1, <1>11, <1>14 DEF CentresOK
  <2>2. ASSUME NEW q \in DOMAIN v, \A r \in DOMAIN d : d[r].x # q PROVE psplit[q] = None
    <3>1. \A r \in DOMAIN cells : cells[r].x # q BY <1>11, <2>2
    <3> QED BY <3>1, <2>2, <1>1, <1>6 DEF CentresOK
  <2> QED BY <2>1, <2>2 DEF CentresOK
<1> QED BY <1>2, <1>3, <1>6, <1>8, <1>9, <1>15

(* What lies below a block of the tree, with the new block. *)
LEMMA GrownBred ==
  ASSUME NEW c, NEW v, CellsOK(c, v), NEW b, NEW d, Grown(d, c, b, v), b.path \in Path, b.path # << >>,
         Placed(c, b), NEW q \in DOMAIN c, BredIn(d, q)
  PROVE  BredIn(c, q) \/ q = Parent(b.path)
<1>1. PICK n : n = b.path OBVIOUS
<1>2. PICK r \in DOMAIN d : Below(r, q) BY DEF BredIn
<1>3. CASE r \in DOMAIN c BY <1>2, <1>3 DEF BredIn
<1>4. CASE r = n
  <2>1. q \in Path BY CellFacts
  <2>2. Parent(n) = q \/ Below(Parent(n), q) BY <2>1, <1>1, <1>2, <1>4, BelowParent
  <2>3. Parent(n) \in DOMAIN c BY <1>1 DEF Placed
  <2> QED BY <2>2, <2>3, <1>1 DEF BredIn
<1> QED BY <1>1, <1>2, <1>3, <1>4 DEF Grown

LEMMA GrownSame ==
  ASSUME NEW c, NEW b, NEW d, NEW v, Grown(d, c, b, v), NEW q \in DOMAIN c
  PROVE  /\ q \in DOMAIN d /\ d[q] = c[q] /\ Asked(d, q) = Asked(c, q)
         /\ FreshIn(c, q, v) => FreshIn(d, q, v)
BY DEF Grown, Asked, FreshIn

LEMMA CompleteRoot ==
  ASSUME TableInv, Complete, cur.path = << >>
  PROVE  TableInv'
<1>1. TypeInv /\ BuildInv /\ ListInv BY DEF TableInv
<1>2. /\ phase = "pass" /\ GoodBox(cur) /\ cur # NoBox /\ cur.path \in Path /\ cur.path \notin DOMAIN cells
      /\ UNCHANGED <<val, psplit, refresh, skipped, phase>>
      /\ CellsOK(cells', val) /\ Grown(cells', cells, cur, val) /\ ~BredIn(cells', cur.path)
      /\ CentresOK(cells', psplit, DOMAIN val)
  BY Completed
<1>3. cur' = NoBox /\ active' = <<cur.path>> /\ lmin' = 0 /\ UNCHANGED newborn BY DEF Complete
<1>4. DOMAIN cells = {} /\ newborn = << >> BY <1>1, <1>2 DEF BuildInv
<1>5. PICK n : n = cur.path OBVIOUS
<1>6. DOMAIN cells' = {n} /\ cells'[n].split = None /\ FreshIn(cells', n, val)
  BY <1>2, <1>4, <1>5 DEF Grown, FreshIn
<1>7. active' \in Seq(Path) /\ NoRepeat(active') /\ ToSet(active') = {n}
  BY <1>2, <1>3, <1>5, ListOne DEF IsList
<1>8. TypeInv' BY <1>1, <1>2, <1>3, <1>4, <1>6, <1>7 DEF TypeInv
<1>9. BuildInv' BY <1>3 DEF BuildInv
<1>10. ToSet(newborn') = {} /\ NoRepeat(newborn') BY <1>3, <1>4, ListEmpty DEF IsList
<1>11. ListInv' BY <1>2, <1>3, <1>6, <1>7, <1>10 DEF ListInv
<1>12. ShapeInv' BY <1>2, <1>5, <1>6, <1>7 DEF ShapeInv, ShapeAt, Waiting
<1>13. FreshInv' BY <1>2, <1>6, <1>7 DEF FreshInv, Waiting
<1> QED BY <1>2, <1>8, <1>9, <1>11, <1>12, <1>13 DEF TableInv

(* The first of the two children: the other one is built next. *)
LEMMA CompleteFirst ==
  ASSUME TableInv, Complete, cur.path # << >>, Side(cur.path) = 0
  PROVE  TableInv'
<1>1. /\ TypeInv /\ CellsOK(cells, val) /\ BuildInv /\ ListInv /\ ShapeInv /\ FreshInv
  BY DEF TableInv
<1>2. /\ phase = "pass" /\ GoodBox(cur) /\ cur # NoBox /\ cur.path \in Path /\ cur.path \notin DOMAIN cells
      /\ UNCHANGED <<val, psplit, refresh, skipped, phase>>
      /\ CellsOK(cells', val) /\ Grown(cells', cells, cur, val) /\ ~BredIn(cells', cur.path)
      /\ CentresOK(cells', psplit, DOMAIN val)
  BY Completed
<1>3. PICK n, up, ix : n = cur.path /\ up = Parent(n) /\ ix = Last(n)[1] OBVIOUS
<1>4. /\ cur' = Half(BoxOf(up), cells[up].split, 1) /\ UNCHANGED <<active, newborn, lmin>>
  BY <1>3 DEF Complete
<1>5. /\ Placed(cells, cur) /\ up \notin ToSet(active) /\ Twin(n, 1) \notin DOMAIN cells
  BY <1>1, <1>2, <1>3 DEF BuildInv
<1>6. up \in DOMAIN cells /\ cells[up].split = ix BY <1>3, <1>5 DEF Placed
<1>7. /\ up \in Path /\ ix \in Axes /\ Twin(n, 1) \in Path /\ Twin(n, 1) # n /\ Twin(n, 0) = n
      /\ Twin(n, 1) # << >> /\ Parent(Twin(n, 1)) = up /\ Last(Twin(n, 1))[1] = ix /\ Side(Twin(n, 1)) = 1
  <2>1. 0 \in {0, 1} /\ 1 \in {0, 1} /\ 0 # 1 OBVIOUS
  <2> QED BY <2>1, <1>2, <1>3, TwinFacts
<1>8. BoxOf(up) = BoxIn(cells, up) BY DEF BoxOf, BoxIn
<1>9. cur' = Half(BoxIn(cells, up), ix, 1) BY <1>4, <1>6, <1>8
<1>10. GoodBox(cur')
  <2>1. GoodBox(BoxIn(cells, up)) /\ BoxIn(cells, up).path = up /\ CellOK(cells, up, val) BY <1>1, <1>6, CellFacts
  <2>2. MayHalve(up, ix) BY <2>1, <1>6, <1>7, AxisFacts DEF CellOK
  <2> QED BY <2>1, <2>2, <1>7, <1>9, GoodHalf
<1>11. cur'.path = Twin(n, 1) /\ cur' # NoBox
  <2>1. cur'.path = Append(up, <<ix, 1>>) BY <1>9 DEF Half, BoxIn
  <2> QED BY <2>1, <1>3, <1>10, NotNoBox DEF Twin, Child
<1>12. PICK m : m = cur'.path OBVIOUS
<1>13. /\ m # << >> /\ Parent(m) = up /\ Side(m) = 1 /\ Twin(m, 0) = n /\ m \notin DOMAIN cells /\ m # n
  <2>1. Twin(m, 0) = Twin(n, 0) BY <1>3, <1>7, <1>11, <1>12 DEF Twin
  <2> QED BY <2>1, <1>5, <1>7, <1>11, <1>12
<1>14. /\ DOMAIN cells' = DOMAIN cells \cup {n} /\ cells'[n].split = None /\ FreshIn(cells', n, val)
       /\ \A q \in DOMAIN cells : cells'[q] = cells[q]
  BY <1>2, <1>3 DEF Grown, FreshIn
<1>15. TypeInv' BY <1>1, <1>2, <1>4, <1>14 DEF TypeInv
<1>16. ToSet(active) \cup ToSet(newborn) \subseteq DOMAIN cells BY <1>1, <1>2 DEF ListInv
<1>17. Placed(cells', cur')
  <2>1. BoxIn(cells', up) = BoxIn(cells, up) /\ cells'[up].split = ix /\ up \in DOMAIN cells'
    BY <1>2, <1>6, <1>14 DEF Grown
  <2>2. Last(m) = <<ix, 1>>
    <3>1. m = Append(up, <<ix, 1>>) BY <1>3, <1>11, <1>12 DEF Twin, Child
    <3> QED BY <3>1, <1>7, PathAppend
  <2>3. Last(m)[1] = ix /\ Last(m)[2] = 1 BY <2>2
  <2> QED BY <2>1, <2>3, <1>9, <1>12, <1>13 DEF Placed
<1>18. BuildInv'
  <2>1. m \notin DOMAIN cells' BY <1>13, <1>14
  <2>2. n \in DOMAIN cells' /\ cells'[n].split = None /\ n \notin ToSet(active) \cup ToSet(newborn)
    BY <1>2, <1>3, <1>14, <1>16
  <2>3. phase' = "pass" /\ ToSet(active') = ToSet(active) /\ ToSet(newborn') = ToSet(newborn)
    BY <1>2, <1>4
  <2> QED BY <1>5, <1>10, <1>12, <1>13, <1>17, <2>1, <2>2, <2>3 DEF BuildInv
<1>19. ListInv' BY <1>1, <1>2, <1>4, <1>14 DEF ListInv
<1>20. ASSUME NEW q \in DOMAIN cells, BredIn(cells', q) PROVE BredIn(cells, q) \/ q = up
  BY <1>1, <1>2, <1>3, <1>5, <1>20, GrownBred
<1>21. ASSUME NEW q \in DOMAIN cells' PROVE ShapeAt(cells, q)'
  <2>1. BuildingFor(q)' <=> q = up BY <1>11, <1>12, <1>13 DEF BuildingFor
  <2>2. BuildingFor(q) <=> q = up BY <1>2, <1>3 DEF BuildingFor
  <2>3. Waiting(q)' <=> Waiting(q) BY <1>4 DEF Waiting
  <2>4. CASE q = n
    <3>1. ~Waiting(q) BY <1>2, <1>3, <1>16, <2>4 DEF Waiting
    <3> QED BY <3>1, <2>3, <2>4, <1>2, <1>3, <1>14 DEF ShapeAt
  <2>5. CASE q \in DOMAIN cells
    <3>1. cells'[q] = cells[q] /\ Asked(cells', q) = Asked(cells, q) BY <2>5, <1>2, GrownSame
    <3>2. ShapeAt(cells, q) BY <2>5, <1>1 DEF ShapeInv
    <3>3. CASE Waiting(q)
      <4>1. ~BredIn(cells, q) /\ (cells[q].split # None => Asked(cells, q) # cells[q].split)
        BY <3>2, <3>3 DEF ShapeAt
      <4>2. q # up BY <3>3, <1>5 DEF Waiting
      <4>3. ~BredIn(cells', q) BY <4>1, <4>2, <2>5, <1>20
      <4> QED BY <4>1, <4>3, <3>1, <3>3, <2>3 DEF ShapeAt
    <3>4. CASE ~Waiting(q)
      <4>1. cells[q].split = None => q # up BY <1>6, <1>7, AxisFacts
      <4>2. cells[q].split = None => ~BredIn(cells', q) BY <4>1, <3>2, <3>4, <2>5, <1>20 DEF ShapeAt
      <4>3. cells[q].split # None /\ q # up => \A o \in {0, 1} : Child(q, cells[q].split, o) \in DOMAIN cells'
        BY <3>2, <3>4, <2>2, <1>14 DEF ShapeAt
      <4> QED BY <4>2, <4>3, <3>1, <3>4, <2>1, <2>3 DEF ShapeAt
    <3> QED BY <3>3, <3>4
  <2> QED BY <2>4, <2>5, <1>14
<1>22. ShapeInv' BY <1>21 DEF ShapeInv
<1>23. ASSUME NEW q \in DOMAIN cells'
       PROVE  /\ q \in refresh' \cup skipped' \/ FreshIn(cells', q, val')
              /\ (Waiting(q) \/ q \in ToSet(newborn) \/ Fledgling(q) \/ cells[q].split = Asked(cells, q))'
  <2>1. CASE q = n
    <3>1. Fledgling(q)' BY <2>1, <1>11, <1>12, <1>13 DEF Fledgling
    <3> QED BY <3>1, <2>1, <1>2, <1>14
  <2>2. CASE q \in DOMAIN cells
    <3>1. /\ cells'[q] = cells[q] /\ Asked(cells', q) = Asked(cells, q)
          /\ FreshIn(cells, q, val) => FreshIn(cells', q, val)
      BY <2>2, <1>2, GrownSame
    <3>2. ~Fledgling(q) BY <2>2, <1>2, <1>3, <1>7 DEF Fledgling
    <3>3. /\ q \in refresh \cup skipped \/ FreshIn(cells, q, val)
          /\ Waiting(q) \/ q \in ToSet(newborn) \/ cells[q].split = Asked(cells, q)
      BY <3>2, <2>2, <1>1 DEF FreshInv
    <3> QED BY <3>1, <3>3, <1>2, <1>4 DEF Waiting
  <2> QED BY <2>1, <2>2, <1>14
<1>24. FreshInv' BY <1>23 DEF FreshInv
<1> QED BY <1>2, <1>15, <1>18, <1>19, <1>22, <1>24 DEF TableInv
(* The second one: both children go to the list of new blocks. *)
LEMMA CompleteSecond ==
  ASSUME TableInv, Complete, cur.path # << >>, Side(cur.path) = 1
  PROVE  TableInv'
<1>1. /\ TypeInv /\ CellsOK(cells, val) /\ BuildInv /\ ListInv /\ ShapeInv /\ FreshInv
  BY DEF TableInv
<1>2. /\ phase = "pass" /\ GoodBox(cur) /\ cur # NoBox /\ cur.path \in Path /\ cur.path \notin DOMAIN cells
      /\ UNCHANGED <<val, psplit, refresh, skipped, phase>>
      /\ CellsOK(cells', val) /\ Grown(cells', cells, cur, val) /\ ~BredIn(cells', cur.path)
      /\ CentresOK(cells', psplit, DOMAIN val)
  BY Completed
<1>3. PICK n, up, ix, t : n = cur.path /\ up = Parent(n) /\ ix = Last(n)[1] /\ t = Twin(n, 0) OBVIOUS
<1>4. cur' = NoBox /\ newborn' = newborn \o <<t, n>> /\ UNCHANGED <<active, lmin>>
  <2>1. Side(cur.path) # 0 OBVIOUS
  <2>2. /\ cur' = NoBox /\ UNCHANGED <<active, lmin>>
        /\ newborn' = newborn \o <<Append(Parent(cur.path), <<Last(cur.path)[1], 0>>), cur.path>>
    BY <2>1 DEF Complete
  <2>3. t = Append(Parent(cur.path), <<Last(cur.path)[1], 0>>) BY <1>3 DEF Twin, Child
  <2> QED BY <2>2, <2>3, <1>3
<1>5. /\ Placed(cells, cur) /\ up \notin ToSet(active)
      /\ t \in DOMAIN cells /\ cells[t].split = None /\ t \notin ToSet(active) \cup ToSet(newborn)
  BY <1>1, <1>2, <1>3 DEF BuildInv
<1>6. up \in DOMAIN cells /\ cells[up].split = ix BY <1>3, <1>5 DEF Placed
<1>7. up \in Path /\ ix \in Axes /\ t \in Path /\ t # n /\ Twin(n, 1) = n
  <2>1. 0 \in {0, 1} /\ 1 \in {0, 1} /\ 0 # 1 OBVIOUS
  <2> QED BY <2>1, <1>2, <1>3, TwinFacts
<1>8. t = Child(up, ix, 0) /\ n = Child(up, ix, 1) BY <1>3, <1>7 DEF Twin
<1>9. /\ DOMAIN cells' = DOMAIN cells \cup {n} /\ cells'[n].split = None /\ FreshIn(cells', n, val)
      /\ \A q \in DOMAIN cells : cells'[q] = cells[q]
  BY <1>2, <1>3 DEF Grown, FreshIn
<1>10. ToSet(active) \cup ToSet(newborn) \subseteq DOMAIN cells BY <1>1, <1>2 DEF ListInv
<1>11. IsList(newborn', ToSet(newborn) \cup {t, n})
  <2>1. IsList(newborn, ToSet(newborn)) BY <1>1 DEF IsList, TypeInv, ListInv
  <2>2. IsList(<<t, n>>, {t, n}) BY <1>2, <1>3, <1>7, ListTwo
  <2>3. ToSet(newborn) \cap {t, n} = {} BY <1>2, <1>3, <1>5, <1>10
  <2> QED BY <2>1, <2>2, <2>3, <1>4, ListConcat
<1>12. newborn' \in Seq(Path) /\ NoRepeat(newborn') /\ ToSet(newborn') = ToSet(newborn) \cup {t, n}
  BY <1>11 DEF IsList
<1>13. TypeInv' BY <1>1, <1>2, <1>4, <1>9, <1>12 DEF TypeInv
<1>14. BuildInv' BY <1>4 DEF BuildInv
<1>15. ListInv'
  <2>1. ToSet(active) \cap ToSet(newborn') = {} BY <1>1, <1>2, <1>3, <1>5, <1>10, <1>12 DEF ListInv
  <2>2. \A q \in ToSet(newborn') : q \in DOMAIN cells' /\ cells'[q].split = None
    BY <1>1, <1>5, <1>9, <1>12 DEF ListInv
  <2>3. ToSet(active') \subseteq DOMAIN cells' BY <1>4, <1>9, <1>10
  <2> QED BY <2>1, <2>2, <2>3, <1>1, <1>2, <1>4, <1>12 DEF ListInv
<1>16. ASSUME NEW q \in DOMAIN cells, BredIn(cells', q) PROVE BredIn(cells, q) \/ q = up
  BY <1>1, <1>2, <1>3, <1>5, <1>16, GrownBred
<1>17. ASSUME NEW q \in DOMAIN cells' PROVE ShapeAt(cells, q)'
  <2>1. ~BuildingFor(q)' BY <1>4 DEF BuildingFor
  <2>2. BuildingFor(q) <=> q = up BY <1>2, <1>3 DEF BuildingFor
  <2>3. Waiting(q)' <=> Waiting(q) BY <1>4 DEF Waiting
  <2>4. CASE q = n
    <3>1. ~Waiting(q) BY <1>2, <1>3, <1>10, <2>4 DEF Waiting
    <3> QED BY <3>1, <2>3, <2>4, <1>2, <1>3, <1>9 DEF ShapeAt
  <2>5. CASE q \in DOMAIN cells
    <3>1. cells'[q] = cells[q] /\ Asked(cells', q) = Asked(cells, q) BY <2>5, <1>2, GrownSame
    <3>2. ShapeAt(cells, q) BY <2>5, <1>1 DEF ShapeInv
    <3>3. CASE Waiting(q)
      <4>1. ~BredIn(cells, q) /\ (cells[q].split # None => Asked(cells, q) # cells[q].split)
        BY <3>2, <3>3 DEF ShapeAt
      <4>2. q # up BY <3>3, <1>5 DEF Waiting
      <4>3. ~BredIn(cells', q) BY <4>1, <4>2, <2>5, <1>16
      <4> QED BY <4>1, <4>3, <3>1, <3>3, <2>3 DEF ShapeAt
    <3>4. CASE ~Waiting(q)
      <4>1. cells[q].split = None => q # up BY <1>6, <1>7, AxisFacts
      <4>2. cells[q].split = None => ~BredIn(cells', q) BY <4>1, <3>2, <3>4, <2>5, <1>16 DEF ShapeAt
      <4>3. CASE q = up
        <5>1. Child(q, cells[q].split, 0) = t /\ Child(q, cells[q].split, 1) = n BY <4>3, <1>6, <1>8
        <5>2. \A o \in {0, 1} : Child(q, cells[q].split, o) \in DOMAIN cells' BY <5>1, <1>5, <1>9
        <5> QED BY <5>2, <4>2, <3>1, <3>4, <2>3 DEF ShapeAt
      <4>4. CASE q # up
        <5>1. cells[q].split # None => \A o \in {0, 1} : Child(q, cells[q].split, o) \in DOMAIN cells'
          BY <3>2, <3>4, <4>4, <2>2, <1>9 DEF ShapeAt
        <5> QED BY <5>1, <4>2, <3>1, <3>4, <2>3 DEF ShapeAt
      <4> QED BY <4>3, <4>4
    <3> QED BY <3>3, <3>4
  <2> QED BY <2>4, <2>5, <1>9
<1>18. ShapeInv' BY <1>17 DEF ShapeInv
<1>19. ASSUME NEW q \in DOMAIN cells'
       PROVE  /\ q \in refresh' \cup skipped' \/ FreshIn(cells', q, val')
              /\ (Waiting(q) \/ q \in ToSet(newborn) \/ Fledgling(q) \/ cells[q].split = Asked(cells, q))'
  <2>1. CASE q = n BY <2>1, <1>2, <1>9, <1>12
  <2>2. CASE q \in DOMAIN cells
    <3>1. /\ cells'[q] = cells[q] /\ Asked(cells', q) = Asked(cells, q)
          /\ FreshIn(cells, q, val) => FreshIn(cells', q, val)
      BY <2>2, <1>2, GrownSame
    <3>2. Fledgling(q) => q = t BY <1>3 DEF Fledgling
    <3>3. /\ q \in refresh \cup skipped \/ FreshIn(cells, q, val)
          /\ Waiting(q) \/ q \in ToSet(newborn') \/ cells[q].split = Asked(cells, q)
      BY <3>2, <2>2, <1>1, <1>12 DEF FreshInv
    <3> QED BY <3>1, <3>3, <1>2, <1>4 DEF Waiting
  <2> QED BY <2>1, <2>2, <1>9
<1>20. FreshInv' BY <1>19 DEF FreshInv
<1> QED BY <1>2, <1>13, <1>14, <1>15, <1>18, <1>20 DEF TableInv

LEMMA CompleteKeeps ==
  ASSUME TableInv, Complete
  PROVE  TableInv'
<1>1. cur.path \in Path BY Completed
<1>2. cur.path # << >> => Side(cur.path) \in {0, 1}
  <2>1. 0 \in {0, 1} OBVIOUS
  <2> QED BY <2>1, <1>1, TwinFacts
<1> QED BY <1>2, CompleteRoot, CompleteFirst, CompleteSecond
-----------------------------------------------------------------------------
(* The passes: blocks leave the list, breed, and new ones join it *)

LEMMA DropFacts ==
  ASSUME TableInv, phase = "pass", Due # 0, Drop
  PROVE  /\ Next0 \in ToSet(active) /\ Next0 \in DOMAIN cells /\ Next0 \notin ToSet(newborn)
         /\ active' \in Seq(Path) /\ NoRepeat(active') /\ ToSet(active') = ToSet(active) \ {Next0}
<1>1. IsList(active, ToSet(active)) BY DEF TableInv, TypeInv, ListInv, IsList
<1>2. Due \in 1 .. Len(active) BY DueFacts DEF TableInv, TypeInv
<1>3. Next0 \in ToSet(active) /\ IsList(active', ToSet(active) \ {Next0})
  BY <1>1, <1>2, ListRemove DEF Next0, Drop
<1> QED BY <1>3 DEF IsList, TableInv, ListInv

LEMMA NoChangeKeeps ==
  ASSUME TableInv, NoChange
  PROVE  TableInv'
<1>1. /\ TypeInv /\ CellsOK(cells, val) /\ CentresOK(cells, psplit, DOMAIN val)
      /\ ListInv /\ ShapeInv /\ FreshInv
  BY DEF TableInv
<1>2. /\ phase = "pass" /\ cur = NoBox /\ NewSplit(Next0) = cells[Next0].split
      /\ UNCHANGED <<val, psplit, cells, cur, newborn, lmin, refresh, skipped, phase>>
  BY DEF NoChange
<1>3. PICK p : p = Next0 OBVIOUS
<1>4. /\ p \in ToSet(active) /\ p \in DOMAIN cells /\ p \notin ToSet(newborn)
      /\ active' \in Seq(Path) /\ NoRepeat(active') /\ ToSet(active') = ToSet(active) \ {p}
  BY <1>3, DropFacts DEF NoChange
<1>5. Asked(cells, p) = cells[p].split BY <1>2, <1>3 DEF NewSplit, Asked, BoxOf, BoxIn
<1>6. TypeInv' BY <1>1, <1>2, <1>4 DEF TypeInv
<1>7. CellsOK(cells', val') /\ CentresOK(cells', psplit', DOMAIN val') BY <1>1, <1>2
<1>8. BuildInv' BY <1>2 DEF BuildInv
<1>9. ListInv' BY <1>1, <1>2, <1>4 DEF ListInv
<1>10. ASSUME NEW q \in DOMAIN cells PROVE ShapeAt(cells, q)'
  <2>1. ShapeAt(cells, q) BY <1>1 DEF ShapeInv
  <2>2. ~BuildingFor(q) /\ ~BuildingFor(q)' BY <1>2 DEF BuildingFor
  <2>3. CASE q = p
    <3>1. Waiting(q) /\ ~Waiting(q)' BY <2>3, <1>4 DEF Waiting
    <3>2. ~BredIn(cells, q) /\ cells[q].split = None BY <2>1, <2>3, <3>1, <1>5 DEF ShapeAt
    <3> QED BY <3>1, <3>2, <1>2 DEF ShapeAt
  <2>4. CASE q # p
    <3>1. Waiting(q)' <=> Waiting(q) BY <2>4, <1>4 DEF Waiting
    <3> QED BY <3>1, <2>1, <2>2, <1>2 DEF ShapeAt
  <2> QED BY <2>3, <2>4
<1>11. ShapeInv' BY <1>2, <1>10 DEF ShapeInv
<1>12. ASSUME NEW q \in DOMAIN cells
       PROVE  /\ q \in refresh' \cup skipped' \/ FreshIn(cells', q, val')
              /\ (Waiting(q) \/ q \in ToSet(newborn) \/ Fledgling(q) \/ cells[q].split = Asked(cells, q))'
  <2>1. q \in refresh \cup skipped \/ FreshIn(cells, q, val) BY <1>1 DEF FreshInv
  <2>2. Waiting(q) \/ q \in ToSet(newborn) \/ Fledgling(q) \/ cells[q].split = Asked(cells, q)
    BY <1>1 DEF FreshInv
  <2>3. ~Fledgling(q) BY <1>2 DEF Fledgling
  <2>4. CASE q = p BY <2>1, <2>4, <1>2, <1>5
  <2>5. CASE q # p
    <3>1. Waiting(q)' <=> Waiting(q) BY <2>5, <1>4 DEF Waiting
    <3> QED BY <3>1, <2>1, <2>2, <2>3, <1>2
  <2> QED BY <2>4, <2>5
<1>13. FreshInv' BY <1>2, <1>12 DEF FreshInv
<1> QED BY <1>6, <1>7, <1>8, <1>9, <1>11, <1>13 DEF TableInv
LEMMA BreedKeeps ==
  ASSUME TableInv, Breed
  PROVE  TableInv'
<1>1. /\ TypeInv /\ CellsOK(cells, val) /\ CentresOK(cells, psplit, DOMAIN val)
      /\ ListInv /\ ShapeInv /\ FreshInv
  BY DEF TableInv
<1>2. PICK p, s : p = Next0 /\ s = NewSplit(p) OBVIOUS
<1>3. /\ phase = "pass" /\ cur = NoBox /\ s # cells[p].split
      /\ cells' = [cells EXCEPT ![p].split = s]
      /\ psplit' = [psplit EXCEPT ![cells[p].x] = s]
      /\ cur' = IF s = None THEN NoBox ELSE Half(BoxOf(p), s, 0)
      /\ UNCHANGED <<val, newborn, lmin, refresh, skipped, phase>>
  BY <1>2 DEF Breed
<1>4. /\ p \in ToSet(active) /\ p \in DOMAIN cells /\ p \notin ToSet(newborn)
      /\ active' \in Seq(Path) /\ NoRepeat(active') /\ ToSet(active') = ToSet(active) \ {p}
  BY <1>2, DropFacts DEF Breed
<1>5. BoxOf(p) = BoxIn(cells, p) /\ s = Asked(cells, p) BY <1>2 DEF NewSplit, Asked, BoxOf, BoxIn
<1>6. /\ Tree(cells) /\ p \in Path /\ GoodBox(BoxIn(cells, p)) /\ BoxIn(cells, p) \in Box
      /\ BoxIn(cells, p).path = p /\ CellOK(cells, p, val) /\ cells[p].x \in DOMAIN val
  BY <1>1, <1>4, CellFacts
<1>7. s \in Axes \cup {None} /\ (s # None => s \in Axes /\ MayHalve(p, s))
  <2>1. cells[p].seen \in [PointSet(BoxIn(cells, p)) -> 0 .. V] BY <1>6 DEF CellOK
  <2>2. CASE s = None BY <2>2, AxisFacts
  <2>3. CASE s # None
    <3>1. SplitOf(BoxIn(cells, p), cells[p].seen) # None BY <2>3, <1>5 DEF Asked
    <3>2. s \in Axes /\ MayHalve(BoxIn(cells, p).path, s)
      BY <3>1, <2>1, <1>5, <1>6, SplitMayHalve DEF Asked
    <3> QED BY <3>2, <1>6
  <2> QED BY <2>2, <2>3
<1>8. ~BredIn(cells, p) BY <1>1, <1>4 DEF ShapeInv, ShapeAt, Waiting
<1>9. PICK d : d = cells' OBVIOUS
<1>10. /\ CellsOK(d, val) /\ SameBut(d, cells, p)
       /\ d[p].x = cells[p].x /\ d[p].split = s /\ d[p].seen = cells[p].seen
  <2>1. SplitSet(d, cells, p, s) BY <1>3, <1>9 DEF SplitSet
  <2>2. CellsOK(cells, val) /\ p \in DOMAIN cells /\ s \in Axes \cup {None} /\ (s # None => MayHalve(p, s))
    BY <1>1, <1>4, <1>7
  <2> QED BY <2>1, <2>2, <1>8, SetSplit
<1>11. /\ DOMAIN d = DOMAIN cells
       /\ \A q \in DOMAIN cells : BoxIn(d, q) = BoxIn(cells, q) /\ (q # p => d[q] = cells[q])
  BY <1>10 DEF SameBut
<1>12. \A q \in DOMAIN cells : /\ d[q].x = cells[q].x /\ d[q].seen = cells[q].seen
                               /\ Asked(d, q) = Asked(cells, q)
                               /\ (FreshIn(d, q, val) <=> FreshIn(cells, q, val))
                               /\ (BredIn(d, q) <=> BredIn(cells, q))
  BY <1>10, <1>11 DEF Asked, FreshIn, BredIn
<1>13. psplit \in [DOMAIN val -> Axes \cup {None}] BY <1>1 DEF TypeInv
<1>14. /\ psplit' \in [DOMAIN val -> Axes \cup {None}] /\ psplit'[cells[p].x] = s
       /\ \A q \in DOMAIN val : q # cells[p].x => psplit'[q] = psplit[q]
  BY <1>3, <1>6, <1>7, <1>13
<1>15. TypeInv' BY <1>1, <1>3, <1>4, <1>9, <1>11, <1>14 DEF TypeInv
<1>16. CentresOK(d, psplit', DOMAIN val)
  <2>1. ASSUME NEW q \in DOMAIN cells PROVE psplit'[d[q].x] = d[q].split
    <3>1. CASE q = p BY <3>1, <1>10, <1>14
    <3>2. CASE q # p
      <4>1. cells[q].x # cells[p].x /\ cells[q].x \in DOMAIN val
        BY <3>2, <1>1, <1>4, <1>6, CentresDiffer, CellFacts
      <4>2. psplit[cells[q].x] = cells[q].split BY <1>1 DEF CentresOK
      <4>3. d[q] = cells[q] BY <3>2, <1>11
      <4> QED BY <4>1, <4>2, <4>3, <1>14
    <3> QED BY <3>1, <3>2
  <2>2. ASSUME NEW q \in DOMAIN val, \A r \in DOMAIN d : d[r].x # q PROVE psplit'[q] = None
    <3>1. \A r \in DOMAIN cells : cells[r].x # q BY <2>2, <1>11, <1>12
    <3>2. psplit[q] = None BY <3>1, <2>2, <1>1 DEF CentresOK
    <3>3. q # cells[p].x BY <3>1, <1>4
    <3> QED BY <3>2, <3>3, <1>14
  <2> QED BY <2>1, <2>2, <1>11 DEF CentresOK
<1>17. ToSet(newborn) \subseteq DOMAIN cells /\ ToSet(active) \subseteq DOMAIN cells BY <1>1, <1>3 DEF ListInv
<1>18. ListInv'
  <2>1. \A q \in ToSet(newborn) : q \in DOMAIN d /\ d[q].split = None
    BY <1>1, <1>4, <1>11 DEF ListInv
  <2> QED BY <2>1, <1>1, <1>3, <1>4, <1>9, <1>11, <1>17 DEF ListInv
<1>19. ASSUME s # None
       PROVE  /\ GoodBox(cur') /\ cur' # NoBox /\ cur'.path = Child(p, s, 0) /\ Placed(d, cur')
              /\ cur'.path # << >> /\ Parent(cur'.path) = p /\ Side(cur'.path) = 0
              /\ cur'.path \notin DOMAIN d /\ Twin(cur'.path, 1) \notin DOMAIN d
              /\ Twin(cur'.path, 0) \notin DOMAIN d
  <2>1. s \in Axes /\ MayHalve(p, s) BY <1>7, <1>19
  <2>2. cur' = Half(BoxIn(cells, p), s, 0) BY <1>3, <1>5, <1>19
  <2>3. GoodBox(cur') BY <2>1, <2>2, <1>6, GoodHalf
  <2>4. PICK m : m = cur'.path OBVIOUS
  <2>5. m = Child(p, s, 0) BY <2>2, <2>4, <1>6 DEF Half, Child
  <2>6. m = Append(p, <<s, 0>>) BY <2>5 DEF Child
  <2>7. m \in Path /\ m # << >> /\ Parent(m) = p /\ Last(m) = <<s, 0>> BY <2>1, <2>6, <1>6, PathAppend
  <2>8. Last(m)[1] = s /\ Last(m)[2] = 0 /\ Side(m) = 0 BY <2>7 DEF Side
  <2>9. Placed(d, cur')
    <3>1. p \in DOMAIN d /\ d[p].split = s /\ BoxIn(d, p) = BoxIn(cells, p) BY <1>4, <1>10, <1>11
    <3> QED BY <3>1, <2>2, <2>4, <2>7, <2>8 DEF Placed
  <2>10. ASSUME NEW o \in {0, 1} PROVE Child(p, s, o) \notin DOMAIN d
    <3>1. PICK h : h = Child(p, s, o) OBVIOUS
    <3>2. h \in Path /\ h # << >> /\ Parent(h) = p BY <3>1, <2>1, <1>6, ChildFacts
    <3>3. Below(h, p) BY <3>2, BelowItsParent
    <3> QED BY <3>1, <3>3, <1>8, <1>11 DEF BredIn
  <2>11. \A o \in {0, 1} : Twin(m, o) = Child(p, s, o) BY <2>7, <2>8 DEF Twin
  <2>12. m \notin DOMAIN d /\ Twin(m, 1) \notin DOMAIN d /\ Twin(m, 0) \notin DOMAIN d
    BY <2>5, <2>10, <2>11
  <2> QED BY <2>3, <2>4, <2>5, <2>7, <2>8, <2>9, <2>12, NotNoBox
<1>20. s = None => cur' = NoBox BY <1>3
<1>21. BuildInv'
  <2>1. CASE s = None BY <2>1, <1>20 DEF BuildInv
  <2>2. CASE s # None
    <3>1. Side(cur'.path) # 1 BY <2>2, <1>19
    <3>2. Parent(cur'.path) \notin ToSet(active') BY <2>2, <1>4, <1>19
    <3> QED BY <2>2, <3>1, <3>2, <1>3, <1>9, <1>19 DEF BuildInv
  <2> QED BY <2>1, <2>2
<1>22. ASSUME NEW q \in DOMAIN cells PROVE ShapeAt(cells, q)'
  <2>1. ShapeAt(cells, q) BY <1>1 DEF ShapeInv
  <2>2. ~BuildingFor(q) BY <1>3 DEF BuildingFor
  <2>3. (BredIn(d, q) <=> BredIn(cells, q)) /\ Asked(d, q) = Asked(cells, q) BY <1>12
  <2>4. CASE q = p
    <3>1. ~Waiting(q)' BY <2>4, <1>4 DEF Waiting
    <3>2. s # None => BuildingFor(q)' BY <2>4, <1>19 DEF BuildingFor
    <3> QED BY <3>1, <3>2, <2>3, <2>4, <1>8, <1>9, <1>10 DEF ShapeAt
  <2>5. CASE q # p
    <3>1. Waiting(q)' <=> Waiting(q) BY <2>5, <1>4 DEF Waiting
    <3>2. ~BuildingFor(q)' BY <2>5, <1>19, <1>20 DEF BuildingFor
    <3>3. d[q] = cells[q] BY <2>5, <1>11
    <3>4. CASE Waiting(q) BY <3>1, <3>3, <3>4, <2>1, <2>3, <1>9 DEF ShapeAt
    <3>5. CASE ~Waiting(q) BY <3>1, <3>2, <3>3, <3>5, <2>1, <2>2, <2>3, <1>9, <1>11 DEF ShapeAt
    <3> QED BY <3>4, <3>5
  <2> QED BY <2>4, <2>5
<1>23. ShapeInv' BY <1>9, <1>11, <1>22 DEF ShapeInv
<1>24. ASSUME NEW q \in DOMAIN cells
       PROVE  /\ q \in refresh' \cup skipped' \/ FreshIn(cells', q, val')
              /\ (Waiting(q) \/ q \in ToSet(newborn) \/ Fledgling(q) \/ cells[q].split = Asked(cells, q))'
  <2>1. q \in refresh \cup skipped \/ FreshIn(cells, q, val) BY <1>1 DEF FreshInv
  <2>2. Waiting(q) \/ q \in ToSet(newborn) \/ Fledgling(q) \/ cells[q].split = Asked(cells, q)
    BY <1>1 DEF FreshInv
  <2>3. ~Fledgling(q) BY <1>3 DEF Fledgling
  <2>4. q \in refresh' \cup skipped' \/ FreshIn(cells', q, val') BY <2>1, <1>3, <1>9, <1>12
  <2>5. Asked(d, q) = Asked(cells, q) BY <1>12
  <2>6. CASE q = p BY <2>4, <2>5, <2>6, <1>5, <1>9, <1>10
  <2>7. CASE q # p
    <3>1. Waiting(q)' <=> Waiting(q) BY <2>7, <1>4 DEF Waiting
    <3>2. d[q] = cells[q] BY <2>7, <1>11
    <3> QED BY <3>1, <3>2, <2>2, <2>3, <2>4, <2>5, <1>3, <1>9
  <2> QED BY <2>6, <2>7
<1>25. FreshInv' BY <1>9, <1>11, <1>24 DEF FreshInv
<1> QED BY <1>3, <1>9, <1>10, <1>15, <1>16, <1>18, <1>21, <1>23, <1>25 DEF TableInv

LEMMA EndPassKeeps ==
  ASSUME TableInv, EndPass
  PROVE  TableInv'
<1>1. /\ TypeInv /\ CellsOK(cells, val) /\ CentresOK(cells, psplit, DOMAIN val)
      /\ ListInv /\ ShapeInv /\ FreshInv
  BY DEF TableInv
<1>2. PICK list : list = active \o newborn OBVIOUS
<1>3. /\ phase = "pass" /\ cur = NoBox /\ active' = list /\ refresh' = refresh \ ToSet(list)
      /\ skipped' = skipped \cup (refresh \cap ToSet(list)) /\ newborn' = << >> /\ phase' = "refresh"
      /\ UNCHANGED <<val, psplit, cells, cur, lmin>>
  BY <1>2 DEF EndPass, ToRefresh
<1>4. IsList(list, ToSet(active) \cup ToSet(newborn))
  <2>1. IsList(active, ToSet(active)) /\ IsList(newborn, ToSet(newborn))
    BY <1>1 DEF TypeInv, ListInv, IsList
  <2>2. ToSet(active) \cap ToSet(newborn) = {} BY <1>1 DEF ListInv
  <2> QED BY <2>1, <2>2, <1>2, ListConcat
<1>5. /\ active' \in Seq(Path) /\ NoRepeat(active')
      /\ ToSet(active') = ToSet(active) \cup ToSet(newborn)
  BY <1>3, <1>4 DEF IsList
<1>6. newborn' \in Seq(Path) /\ NoRepeat(newborn') /\ ToSet(newborn') = {}
  BY <1>3, ListEmpty DEF IsList
<1>7. TypeInv' BY <1>1, <1>3, <1>5, <1>6 DEF TypeInv
<1>8. CellsOK(cells', val') /\ CentresOK(cells', psplit', DOMAIN val') BY <1>1, <1>3
<1>9. BuildInv' BY <1>3 DEF BuildInv
<1>10. ListInv' BY <1>3, <1>5, <1>6 DEF ListInv
<1>11. ASSUME NEW q \in DOMAIN cells PROVE ShapeAt(cells, q)'
  <2>1. ShapeAt(cells, q) BY <1>1 DEF ShapeInv
  <2>2. ~BuildingFor(q) /\ ~BuildingFor(q)' BY <1>3 DEF BuildingFor
  <2>3. CASE q \in ToSet(newborn)
    <3>1. cells[q].split = None /\ q \notin ToSet(active) BY <2>3, <1>1 DEF ListInv
    <3>2. Waiting(q)' /\ ~Waiting(q) BY <2>3, <3>1, <1>5 DEF Waiting
    <3> QED BY <3>1, <3>2, <2>1, <1>3 DEF ShapeAt
  <2>4. CASE q \notin ToSet(newborn)
    <3>1. Waiting(q)' <=> Waiting(q) BY <2>4, <1>5 DEF Waiting
    <3> QED BY <3>1, <2>1, <2>2, <1>3 DEF ShapeAt
  <2> QED BY <2>3, <2>4
<1>12. ShapeInv' BY <1>3, <1>11 DEF ShapeInv
<1>13. ASSUME NEW q \in DOMAIN cells
       PROVE  /\ q \in refresh' \cup skipped' \/ FreshIn(cells', q, val')
              /\ (Waiting(q) \/ q \in ToSet(newborn) \/ Fledgling(q) \/ cells[q].split = Asked(cells, q))'
  <2>1. q \in refresh \cup skipped \/ FreshIn(cells, q, val) BY <1>1 DEF FreshInv
  <2>2. Waiting(q) \/ q \in ToSet(newborn) \/ Fledgling(q) \/ cells[q].split = Asked(cells, q)
    BY <1>1 DEF FreshInv
  <2>3. ~Fledgling(q) BY <1>3 DEF Fledgling
  <2>4. refresh' \cup skipped' = refresh \cup skipped BY <1>3
  <2>5. Waiting(q) \/ q \in ToSet(newborn) => Waiting(q)' BY <1>5 DEF Waiting
  <2> QED BY <2>1, <2>2, <2>3, <2>4, <2>5, <1>3
<1>14. FreshInv' BY <1>3, <1>13 DEF FreshInv
<1> QED BY <1>7, <1>8, <1>9, <1>10, <1>12, <1>14 DEF TableInv
-----------------------------------------------------------------------------
(* The loop over refresh_blocks *)

LEMMA RefreshKeeps ==
  ASSUME TableInv, NEW b \in refresh, Refresh(b)
  PROVE  TableInv'
<1>1. /\ TypeInv /\ CellsOK(cells, val) /\ CentresOK(cells, psplit, DOMAIN val)
      /\ ListInv /\ ShapeInv /\ FreshInv
  BY DEF TableInv
<1>2. BoxOf(b) = BoxIn(cells, b) BY DEF BoxOf, BoxIn
<1>3. /\ phase = "refresh" /\ SplitOf(BoxIn(cells, b), Values(BoxIn(cells, b), val)) = cells[b].split
      /\ cells' = [cells EXCEPT ![b].seen = Values(BoxIn(cells, b), val)]
      /\ refresh' = refresh \ {b} /\ skipped' = skipped \ {b}
      /\ UNCHANGED <<val, psplit, cur, active, newborn, lmin, phase>>
  BY <1>2 DEF Refresh, Refreshed, StillSplit
<1>4. b \in DOMAIN cells BY <1>1 DEF TypeInv
<1>5. b \notin ToSet(active) /\ newborn = << >> /\ cur = NoBox BY <1>1, <1>3 DEF ListInv
<1>6. PICK d : d = cells' OBVIOUS
<1>7. /\ CellsOK(d, val) /\ SameBut(d, cells, b)
      /\ d[b].x = cells[b].x /\ d[b].split = cells[b].split /\ d[b].seen = Values(BoxIn(cells, b), val)
  <2>1. SeenSet(d, cells, b, val) BY <1>3, <1>6 DEF SeenSet
  <2>2. CellsOK(cells, val) /\ ValOK(val) BY <1>1 DEF TypeInv
  <2> QED BY <2>1, <2>2, <1>4, SetSeen
<1>8. /\ DOMAIN d = DOMAIN cells
      /\ \A q \in DOMAIN cells : BoxIn(d, q) = BoxIn(cells, q) /\ (q # b => d[q] = cells[q])
  BY <1>7 DEF SameBut
<1>9. \A q \in DOMAIN cells : /\ d[q].x = cells[q].x /\ d[q].split = cells[q].split
                              /\ (BredIn(d, q) <=> BredIn(cells, q))
  BY <1>7, <1>8 DEF BredIn
<1>10. \A q \in DOMAIN cells : q # b => Asked(d, q) = Asked(cells, q) /\ (FreshIn(d, q, val) <=> FreshIn(cells, q, val))
  BY <1>8 DEF Asked, FreshIn
<1>11. Asked(d, b) = d[b].split /\ FreshIn(d, b, val) BY <1>3, <1>4, <1>7, <1>8 DEF Asked, FreshIn
<1>12. TypeInv' BY <1>1, <1>3, <1>6, <1>8 DEF TypeInv
<1>13. CentresOK(d, psplit, DOMAIN val)
  <2>1. ASSUME NEW q \in DOMAIN cells PROVE psplit[d[q].x] = d[q].split
    BY <1>1, <1>9 DEF CentresOK
  <2>2. ASSUME NEW q \in DOMAIN val, \A r \in DOMAIN d : d[r].x # q PROVE psplit[q] = None
    <3>1. \A r \in DOMAIN cells : cells[r].x # q BY <2>2, <1>8, <1>9
    <3> QED BY <3>1, <2>2, <1>1 DEF CentresOK
  <2> QED BY <2>1, <2>2, <1>8 DEF CentresOK
<1>14. BuildInv' BY <1>3, <1>5 DEF BuildInv
<1>15. ListInv'
  <2>1. newborn' = << >> /\ ToSet(newborn') = {} BY <1>3, <1>5, ListEmpty DEF IsList
  <2> QED BY <2>1, <1>1, <1>3, <1>5 DEF ListInv
<1>16. ASSUME NEW q \in DOMAIN cells PROVE ShapeAt(cells, q)'
  <2>1. ShapeAt(cells, q) BY <1>1 DEF ShapeInv
  <2>2. ~BuildingFor(q) /\ ~BuildingFor(q)' BY <1>3, <1>5 DEF BuildingFor
  <2>3. Waiting(q)' <=> Waiting(q) BY <1>3 DEF Waiting
  <2>4. Waiting(q) => q # b BY <1>5 DEF Waiting
  <2>5. d[q].split = cells[q].split /\ (BredIn(d, q) <=> BredIn(cells, q)) BY <1>9
  <2>6. CASE Waiting(q) BY <2>1, <2>3, <2>4, <2>5, <2>6, <1>6, <1>10 DEF ShapeAt
  <2>7. CASE ~Waiting(q) BY <2>1, <2>2, <2>3, <2>5, <2>7, <1>6, <1>8 DEF ShapeAt
  <2> QED BY <2>6, <2>7
<1>17. ShapeInv' BY <1>6, <1>8, <1>16 DEF ShapeInv
<1>18. ASSUME NEW q \in DOMAIN cells
       PROVE  /\ q \in refresh' \cup skipped' \/ FreshIn(cells', q, val')
              /\ (Waiting(q) \/ q \in ToSet(newborn) \/ Fledgling(q) \/ cells[q].split = Asked(cells, q))'
  <2>1. q \in refresh \cup skipped \/ FreshIn(cells, q, val) BY <1>1 DEF FreshInv
  <2>2. Waiting(q) \/ q \in ToSet(newborn) \/ Fledgling(q) \/ cells[q].split = Asked(cells, q)
    BY <1>1 DEF FreshInv
  <2>3. ~Fledgling(q) /\ q \notin ToSet(newborn) BY <1>5, ListEmpty DEF Fledgling, IsList
  <2>4. CASE q = b BY <2>4, <1>3, <1>6, <1>11
  <2>5. CASE q # b
    <3>1. d[q] = cells[q] /\ Asked(d, q) = Asked(cells, q) /\ (FreshIn(d, q, val) <=> FreshIn(cells, q, val))
      BY <2>5, <1>8, <1>10
    <3>2. q \in refresh' \cup skipped' \/ FreshIn(cells', q, val') BY <3>1, <2>1, <2>5, <1>3, <1>6
    <3>3. Waiting(q)' \/ cells'[q].split = Asked(cells', q) BY <3>1, <2>2, <2>3, <1>3, <1>6 DEF Waiting
    <3> QED BY <3>2, <3>3
  <2> QED BY <2>4, <2>5
<1>19. FreshInv' BY <1>6, <1>8, <1>18 DEF FreshInv
<1> QED BY <1>3, <1>6, <1>7, <1>12, <1>13, <1>14, <1>15, <1>17, <1>19 DEF TableInv

LEMMA ReviveKeeps ==
  ASSUME TableInv, NEW b \in refresh, Revive(b)
  PROVE  TableInv'
<1>1. /\ TypeInv /\ CellsOK(cells, val) /\ CentresOK(cells, psplit, DOMAIN val)
      /\ ListInv /\ ShapeInv /\ FreshInv
  BY DEF TableInv
<1>2. BoxOf(b) = BoxIn(cells, b) BY DEF BoxOf, BoxIn
<1>3. PICK K, c : /\ K = {q \in DOMAIN cells : Below(q, b)}
                  /\ c = [cells EXCEPT ![b].seen = Values(BoxIn(cells, b), val)] OBVIOUS
<1>4. /\ phase = "refresh" /\ SplitOf(BoxIn(cells, b), Values(BoxIn(cells, b), val)) # cells[b].split
      /\ active' = Append(active, b)
      /\ cells' = Restrict(c, DOMAIN cells \ K) /\ psplit' = Reset(K)
      /\ refresh' = refresh \ (K \cup {b}) /\ skipped' = skipped \ (K \cup {b})
      /\ UNCHANGED <<val, cur, newborn, lmin, phase>>
  BY <1>2, <1>3 DEF Revive, Refreshed, StillSplit, Killed
<1>5. b \in DOMAIN cells BY <1>1 DEF TypeInv
<1>6. b \notin ToSet(active) /\ newborn = << >> /\ cur = NoBox BY <1>1, <1>4 DEF ListInv
<1>7. /\ CellsOK(c, val) /\ SameBut(c, cells, b)
      /\ c[b].x = cells[b].x /\ c[b].split = cells[b].split /\ c[b].seen = Values(BoxIn(cells, b), val)
  <2>1. CellsOK(cells, val) /\ ValOK(val) BY <1>1 DEF TypeInv
  <2>2. SeenSet(c, cells, b, val) BY <1>3 DEF SeenSet
  <2> QED BY <2>1, <2>2, <1>5, SetSeen
<1>8. /\ DOMAIN c = DOMAIN cells
      /\ \A q \in DOMAIN cells : BoxIn(c, q) = BoxIn(cells, q) /\ (q # b => c[q] = cells[q])
  BY <1>7 DEF SameBut
<1>9. PICK d : d = cells' OBVIOUS
<1>10. /\ CellsOK(d, val) /\ DOMAIN d = DOMAIN cells \ K /\ b \in DOMAIN d /\ ~BredIn(d, b)
       /\ \A q \in DOMAIN d : d[q] = c[q] /\ BoxIn(d, q) = BoxIn(c, q)
  <2>1. K = {q \in DOMAIN c : Below(q, b)} /\ b \in DOMAIN c BY <1>3, <1>5, <1>8
  <2>2. Cut(d, c, b) BY <2>1, <1>4, <1>8, <1>9 DEF Cut
  <2>3. CellsOK(d, val) /\ Without(d, c, b) /\ b \in DOMAIN d /\ ~BredIn(d, b)
    BY <2>1, <2>2, <1>7, Pruned
  <2> QED BY <2>1, <2>3, <1>8 DEF Without
<1>11. \A q \in DOMAIN d : /\ q \in DOMAIN cells /\ q \notin K
                           /\ BoxIn(d, q) = BoxIn(cells, q) /\ d[q].x = cells[q].x /\ d[q].split = cells[q].split
                           /\ (q # b => d[q] = cells[q])
                           /\ (BredIn(d, q) => BredIn(cells, q))
  BY <1>7, <1>8, <1>10 DEF BredIn
<1>12. \A q \in DOMAIN d : q # b => Asked(d, q) = Asked(cells, q) /\ (FreshIn(d, q, val) <=> FreshIn(cells, q, val))
  BY <1>11 DEF Asked, FreshIn
<1>13. Asked(d, b) # d[b].split /\ FreshIn(d, b, val) BY <1>4, <1>7, <1>10, <1>11 DEF Asked, FreshIn
<1>14. IsList(active', ToSet(active) \cup {b})
  <2>1. IsList(active, ToSet(active)) /\ b \in Path
    BY <1>1, <1>5, CellFacts DEF TypeInv, ListInv, IsList
  <2> QED BY <2>1, <1>4, <1>6, ListAppend
<1>15. active' \in Seq(Path) /\ NoRepeat(active') /\ ToSet(active') = ToSet(active) \cup {b}
  BY <1>14 DEF IsList
<1>16. psplit \in [DOMAIN val -> Axes \cup {None}] BY <1>1 DEF TypeInv
<1>17. psplit' = [q \in DOMAIN val |-> IF q \in {cells[k].x : k \in K} THEN None ELSE psplit[q]]
  BY <1>4, <1>16 DEF Reset, Centres
<1>18. TypeInv'
  <2>1. psplit' \in [DOMAIN val -> Axes \cup {None}] BY <1>16, <1>17
  <2>2. refresh' \cup skipped' \subseteq DOMAIN d BY <1>1, <1>4, <1>10 DEF TypeInv
  <2> QED BY <2>1, <2>2, <1>1, <1>4, <1>9, <1>15 DEF TypeInv
<1>19. CentresOK(d, psplit', DOMAIN val)
  <2>1. ASSUME NEW q \in DOMAIN d PROVE psplit'[d[q].x] = d[q].split
    <3>1. q \in DOMAIN cells /\ q \notin K /\ d[q].x = cells[q].x /\ d[q].split = cells[q].split
      BY <1>11
    <3>2. Tree(cells) /\ cells[q].x \in DOMAIN val BY <3>1, <1>1, CellFacts
    <3>3. ASSUME NEW k \in K PROVE cells[k].x # cells[q].x
      <4>1. k \in DOMAIN cells /\ k # q BY <3>1, <1>3
      <4> QED BY <4>1, <3>1, <3>2, CentresDiffer
    <3>4. psplit'[cells[q].x] = psplit[cells[q].x] BY <3>2, <3>3, <1>17
    <3> QED BY <3>1, <3>4, <1>1 DEF CentresOK
  <2>2. ASSUME NEW q \in DOMAIN val, \A r \in DOMAIN d : d[r].x # q PROVE psplit'[q] = None
    <3>1. CASE q \in {cells[k].x : k \in K} BY <3>1, <1>17
    <3>2. CASE q \notin {cells[k].x : k \in K}
      <4>1. ASSUME NEW r \in DOMAIN cells PROVE cells[r].x # q
        <5>1. CASE r \in K BY <5>1, <3>2
        <5>2. CASE r \notin K BY <5>2, <2>2, <1>10, <1>11
        <5> QED BY <5>1, <5>2
      <4>2. psplit[q] = None BY <4>1, <1>1 DEF CentresOK
      <4> QED BY <4>2, <3>2, <1>17
    <3> QED BY <3>1, <3>2
  <2> QED BY <2>1, <2>2 DEF CentresOK
<1>20. BuildInv' BY <1>4, <1>6 DEF BuildInv
<1>21. ListInv'
  <2>1. newborn' = << >> /\ ToSet(newborn') = {} BY <1>4, <1>6, ListEmpty DEF IsList
  <2>2. refresh' \cap ToSet(active') = {} BY <1>1, <1>4, <1>15 DEF ListInv
  <2> QED BY <2>1, <2>2, <1>1, <1>4, <1>6, <1>15 DEF ListInv
<1>22. ASSUME NEW q \in DOMAIN d PROVE ShapeAt(cells, q)'
  <2>1. ShapeAt(cells, q) BY <1>1, <1>11 DEF ShapeInv
  <2>2. ~BuildingFor(q) /\ ~BuildingFor(q)' BY <1>4, <1>6 DEF BuildingFor
  <2>3. CASE q = b
    <3>1. Waiting(q)' BY <2>3, <1>15 DEF Waiting
    <3> QED BY <3>1, <2>3, <1>9, <1>10, <1>13 DEF ShapeAt
  <2>4. CASE q # b
    <3>1. Waiting(q)' <=> Waiting(q) BY <2>4, <1>15 DEF Waiting
    <3>2. d[q] = cells[q] /\ Asked(d, q) = Asked(cells, q) /\ (BredIn(d, q) => BredIn(cells, q))
      BY <2>4, <1>11, <1>12
    <3>3. CASE Waiting(q) BY <3>1, <3>2, <3>3, <2>1, <1>9 DEF ShapeAt
    <3>4. CASE ~Waiting(q)
      <4>1. cells[q].split = None => ~BredIn(d, q) BY <3>2, <3>4, <2>1 DEF ShapeAt
      <4>2. ASSUME cells[q].split # None, NEW o \in {0, 1} PROVE Child(q, cells[q].split, o) \in DOMAIN d
        <5>1. PICK h, s : s = cells[q].split /\ h = Child(q, s, o) OBVIOUS
        <5>2. h \in DOMAIN cells BY <2>1, <2>2, <3>4, <4>2, <5>1 DEF ShapeAt
        <5>3. q \in DOMAIN cells /\ ~Below(q, b) BY <1>3, <1>11
        <5>4. q \in Path /\ b \in Path /\ CellOK(cells, q, val) BY <5>3, <1>1, <1>5, CellFacts
        <5>5. s \in Axes BY <4>2, <5>1, <5>4 DEF CellOK
        <5>6. h \in Path /\ h # << >> /\ Parent(h) = q BY <5>1, <5>4, <5>5, ChildFacts
        <5>7. ~Below(h, b) BY <5>3, <5>4, <5>6, <2>4, BelowParent
        <5> QED BY <5>1, <5>2, <5>7, <1>3, <1>10
      <4> QED BY <4>1, <4>2, <3>1, <3>2, <3>4, <1>9 DEF ShapeAt
    <3> QED BY <3>3, <3>4
  <2> QED BY <2>3, <2>4
<1>23. ShapeInv' BY <1>9, <1>22 DEF ShapeInv
<1>24. ASSUME NEW q \in DOMAIN d
       PROVE  /\ q \in refresh' \cup skipped' \/ FreshIn(cells', q, val')
              /\ (Waiting(q) \/ q \in ToSet(newborn) \/ Fledgling(q) \/ cells[q].split = Asked(cells, q))'
  <2>1. q \in DOMAIN cells /\ q \notin K BY <1>11
  <2>2. q \in refresh \cup skipped \/ FreshIn(cells, q, val) BY <2>1, <1>1 DEF FreshInv
  <2>3. Waiting(q) \/ q \in ToSet(newborn) \/ Fledgling(q) \/ cells[q].split = Asked(cells, q)
    BY <2>1, <1>1 DEF FreshInv
  <2>4. ~Fledgling(q) /\ q \notin ToSet(newborn) BY <1>6, ListEmpty DEF Fledgling, IsList
  <2>5. CASE q = b BY <2>5, <1>4, <1>9, <1>13, <1>15 DEF Waiting
  <2>6. CASE q # b
    <3>1. d[q] = cells[q] /\ Asked(d, q) = Asked(cells, q) /\ (FreshIn(d, q, val) <=> FreshIn(cells, q, val))
      BY <2>6, <1>11, <1>12
    <3>2. q \in refresh' \cup skipped' \/ FreshIn(cells', q, val') BY <3>1, <2>1, <2>2, <2>6, <1>4, <1>9
    <3>3. Waiting(q)' \/ cells'[q].split = Asked(cells', q) BY <3>1, <2>3, <2>4, <1>9, <1>15 DEF Waiting
    <3> QED BY <3>2, <3>3
  <2> QED BY <2>5, <2>6
<1>25. FreshInv' BY <1>9, <1>24 DEF FreshInv
<1> QED BY <1>4, <1>9, <1>10, <1>18, <1>19, <1>20, <1>21, <1>23, <1>25 DEF TableInv
LEMMA ResumeKeeps ==
  ASSUME TableInv, Resume
  PROVE  TableInv'
<1>1. /\ TypeInv /\ CellsOK(cells, val) /\ CentresOK(cells, psplit, DOMAIN val)
      /\ ListInv /\ ShapeInv /\ FreshInv
  BY DEF TableInv
<1>2. /\ phase = "refresh" /\ refresh = {} /\ active' = Alive(active)
      /\ UNCHANGED <<val, psplit, cells, cur, newborn, refresh, skipped>>
  BY DEF Resume
<1>3. \/ active' = << >> /\ phase' = "store" /\ UNCHANGED lmin
      \/ active' # << >> /\ phase' = "pass" /\ lmin' = Min({Level(p) : p \in ToSet(active')})
  BY DEF Resume
<1>4. newborn = << >> /\ cur = NoBox BY <1>1, <1>2 DEF ListInv
<1>5. IsList(active', ToSet(active) \cap DOMAIN cells)
  <2>1. IsList(active, ToSet(active)) BY <1>1 DEF TypeInv, ListInv, IsList
  <2> QED BY <2>1, <1>2, ListAlive
<1>6. /\ active' \in Seq(Path) /\ NoRepeat(active')
      /\ ToSet(active') = ToSet(active) \cap DOMAIN cells
  BY <1>5 DEF IsList
<1>7. lmin' \in Nat
  <2>1. CASE active' = << >> BY <2>1, <1>1, <1>3 DEF TypeInv
  <2>2. CASE active' # << >>
    <3>1. PICK L : L = {Level(p) : p \in ToSet(active')} OBVIOUS
    <3>2. ToSet(active') \subseteq Path /\ ToSet(active') # {} BY <2>2, <1>5, <1>6, ListIn
    <3>3. \A p \in Path : Level(p) \in Nat BY DEF Level, Path
    <3>4. L \subseteq Nat /\ L # {} BY <3>1, <3>2, <3>3
    <3>5. Min(L) \in L BY <3>4, MinFacts
    <3> QED BY <2>2, <3>1, <3>4, <3>5, <1>3
  <2> QED BY <2>1, <2>2
<1>8. TypeInv' BY <1>1, <1>2, <1>3, <1>6, <1>7 DEF TypeInv
<1>9. CellsOK(cells', val') /\ CentresOK(cells', psplit', DOMAIN val') BY <1>1, <1>2
<1>10. BuildInv' BY <1>2, <1>4 DEF BuildInv
<1>11. ListInv'
  <2>1. ToSet(newborn') = {} BY <1>2, <1>4, ListEmpty DEF IsList
  <2> QED BY <2>1, <1>1, <1>2, <1>3, <1>4, <1>6 DEF ListInv
<1>12. ASSUME NEW q \in DOMAIN cells PROVE Waiting(q)' <=> Waiting(q)
  BY <1>6 DEF Waiting
<1>13. ASSUME NEW q \in DOMAIN cells PROVE ShapeAt(cells, q)'
  <2>1. ShapeAt(cells, q) BY <1>1 DEF ShapeInv
  <2>2. ~BuildingFor(q) /\ ~BuildingFor(q)' BY <1>2, <1>4 DEF BuildingFor
  <2> QED BY <2>1, <2>2, <1>2, <1>12 DEF ShapeAt
<1>14. ShapeInv' BY <1>2, <1>13 DEF ShapeInv
<1>15. FreshInv'
  <2>1. ASSUME NEW q \in DOMAIN cells
        PROVE  /\ q \in refresh' \cup skipped' \/ FreshIn(cells', q, val')
               /\ (Waiting(q) \/ q \in ToSet(newborn) \/ Fledgling(q) \/ cells[q].split = Asked(cells, q))'
    <3>1. q \in refresh \cup skipped \/ FreshIn(cells, q, val) BY <1>1 DEF FreshInv
    <3>2. Waiting(q) \/ q \in ToSet(newborn) \/ Fledgling(q) \/ cells[q].split = Asked(cells, q)
      BY <1>1 DEF FreshInv
    <3>3. ~Fledgling(q) BY <1>4 DEF Fledgling
    <3> QED BY <3>1, <3>2, <3>3, <1>2, <1>12
  <2> QED BY <2>1, <1>2 DEF FreshInv
<1> QED BY <1>8, <1>9, <1>10, <1>11, <1>14, <1>15 DEF TableInv

(* store_table and the reader leave the table alone. *)
LEMMA FileStepKeeps ==
  ASSUME TableInv, UNCHANGED treeVars, phase \notin {"pass", "refresh"},
         phase' \in {"store", "read", "done", "aborted"}
  PROVE  TableInv'
<1>1. UNCHANGED <<val, psplit, cells, cur, active, newborn, lmin, refresh, skipped>> BY DEF treeVars
<1>2. cur = NoBox /\ newborn = << >> /\ active = << >> /\ refresh = {} BY DEF TableInv, ListInv
<1>3. TypeInv' BY <1>1 DEF TableInv, TypeInv
<1>4. CellsOK(cells', val') /\ CentresOK(cells', psplit', DOMAIN val') BY <1>1 DEF TableInv
<1>5. BuildInv' BY <1>1, <1>2 DEF BuildInv
<1>6. ListInv' BY <1>1, <1>2 DEF TableInv, ListInv
<1>7. ShapeInv' BY <1>1 DEF TableInv, ShapeInv, ShapeAt, Waiting, BuildingFor
<1>8. FreshInv' BY <1>1 DEF TableInv, FreshInv, Waiting, Fledgling
<1> QED BY <1>3, <1>4, <1>5, <1>6, <1>7, <1>8 DEF TableInv

LEMMA InitTable ==
  ASSUME Init PROVE TableInv /\ RootInv
<1>1. TypeInv
  <2>1. ValOK(val) /\ psplit \in [DOMAIN val -> Axes \cup {None}] BY DEF Init, ValOK
  <2> QED BY <2>1 DEF Init, TypeInv
<1>2. DOMAIN cells = {} /\ cells = [p \in DOMAIN cells |-> cells[p]] BY DEF Init
<1>3. CellsOK(cells, val) BY <1>2 DEF CellsOK, Tree
<1>4. BuildInv BY <1>2, GoodRoot DEF Init, BuildInv, RootBox
<1>5. CentresOK(cells, psplit, DOMAIN val) BY <1>2 DEF Init, CentresOK
<1>6. ListInv
  <2>1. NoRepeat(<< >>) /\ ToSet(<< >>) = {} BY ListEmpty DEF IsList
  <2> QED BY <2>1 DEF Init, ListInv
<1>7. ShapeInv /\ FreshInv BY <1>2 DEF ShapeInv, FreshInv
<1>8. cur # NoBox BY GoodRoot, NotNoBox DEF Init
<1> QED BY <1>1, <1>3, <1>4, <1>5, <1>6, <1>7, <1>8 DEF TableInv, RootInv

LEMMA TableStep ==
  ASSUME TableInv, [Next]_vars
  PROVE  TableInv'
<1>1. CASE AddPoint BY <1>1, AddPointKeeps
<1>2. CASE Complete BY <1>2, CompleteKeeps
<1>3. CASE NoChange BY <1>3, NoChangeKeeps
<1>4. CASE Breed BY <1>4, BreedKeeps
<1>5. CASE EndPass BY <1>5, EndPassKeeps
<1>6. CASE \E b \in refresh : Refresh(b) \/ Revive(b) BY <1>6, RefreshKeeps, ReviveKeeps
<1>7. CASE Resume BY <1>7, ResumeKeeps
<1>8. CASE StoreBlock BY <1>8, FileStepKeeps DEF StoreBlock
<1>9. CASE Stored BY <1>9, FileStepKeeps DEF Stored
<1>10. CASE ReadBlock
  <2>1. phase = "read" /\ UNCHANGED treeVars /\ (phase' = phase \/ phase' = "aborted")
    BY <1>10 DEF ReadBlock
  <2> QED BY <2>1, FileStepKeeps
<1>11. CASE Loaded BY <1>11, FileStepKeeps DEF Loaded
<1>12. CASE Finished \/ UNCHANGED vars
  <2>1. UNCHANGED <<val, psplit, cells, cur, active, newborn, lmin, refresh, skipped, phase>>
    BY <1>12 DEF Finished, vars
  <2>2. TypeInv' /\ CellsOK(cells', val') /\ CentresOK(cells', psplit', DOMAIN val')
    BY <2>1 DEF TableInv, TypeInv
  <2>3. BuildInv' /\ ListInv' BY <2>1 DEF TableInv, BuildInv, ListInv
  <2>4. ShapeInv' BY <2>1 DEF TableInv, ShapeInv, ShapeAt, Waiting, BuildingFor
  <2>5. FreshInv' BY <2>1 DEF TableInv, FreshInv, Waiting, Fledgling
  <2> QED BY <2>2, <2>3, <2>4, <2>5 DEF TableInv
<1> QED BY <1>1, <1>2, <1>3, <1>4, <1>5, <1>6, <1>7, <1>8, <1>9, <1>10, <1>11, <1>12 DEF Next
LEMMA RootIn ==
  ASSUME NEW c, Tree(c), NEW p \in DOMAIN c PROVE << >> \in DOMAIN c
<1>1. p \in Path /\ Len(p) \in Nat BY TreeFacts DEF Path
<1>2. 0 \in 0 .. Len(p) /\ IsPrefix1(<< >>, p, 0) BY <1>1 DEF IsPrefix1, Path
<1> QED BY <1>2, PrefixIn

LEMMA RootStep ==
  ASSUME TableInv, RootInv, [Next]_vars
  PROVE  RootInv'
<1>1. TypeInv /\ CellsOK(cells, val) /\ BuildInv BY DEF TableInv
<1>2. CASE AddPoint BY <1>2 DEF AddPoint, RootInv
<1>3. CASE Complete
  <2>1. Grown(cells', cells, cur, val) /\ cur # NoBox BY <1>3, Completed
  <2>2. DOMAIN cells' = DOMAIN cells \cup {cur.path} BY <2>1 DEF Grown
  <2>3. CASE cur.path = << >> BY <2>2, <2>3 DEF RootInv
  <2>4. CASE cur.path # << >>
    <3>1. Parent(cur.path) \in DOMAIN cells BY <2>1, <2>4, <1>1 DEF BuildInv, Placed
    <3>2. << >> \in DOMAIN cells BY <3>1, <1>1, RootIn DEF CellsOK
    <3> QED BY <3>2, <2>2 DEF RootInv
  <2> QED BY <2>3, <2>4
<1>4. CASE Breed
  <2>1. cur = NoBox BY <1>4 DEF Breed
  <2>2. << >> \in DOMAIN cells BY <2>1 DEF RootInv
  <2>3. PICK p, s : cells' = [cells EXCEPT ![p].split = s] BY <1>4 DEF Breed
  <2>4. cells = [p1 \in DOMAIN cells |-> cells[p1]] BY <1>1 DEF CellsOK
  <2>5. DOMAIN cells' = DOMAIN cells BY <2>3, <2>4
  <2> QED BY <2>2, <2>5 DEF RootInv
<1>5. CASE \E b \in refresh : Refresh(b) \/ Revive(b)
  <2>1. PICK b \in refresh : Refresh(b) \/ Revive(b) BY <1>5
  <2>2. b \in DOMAIN cells BY <1>1 DEF TypeInv
  <2>3. b \in Path /\ << >> \in DOMAIN cells /\ << >> \in Path
    BY <2>2, <1>1, CellFacts, RootIn DEF CellsOK, Path
  <2>4. PICK s : Refreshed(b) = [cells EXCEPT ![b].seen = s] BY DEF Refreshed
  <2>5. cells = [p \in DOMAIN cells |-> cells[p]] BY <1>1 DEF CellsOK
  <2>6. DOMAIN Refreshed(b) = DOMAIN cells BY <2>4, <2>5
  <2>7. CASE Refresh(b) BY <2>3, <2>6, <2>7 DEF Refresh, RootInv
  <2>8. CASE Revive(b)
    <3>1. cells' = Restrict(Refreshed(b), DOMAIN cells \ Killed(b)) BY <2>8 DEF Revive
    <3>2. DOMAIN cells' = DOMAIN cells \ Killed(b) BY <3>1 DEF Restrict
    <3>3. ~Below(<< >>, b)
      <4>1. Len(b) \in Nat /\ Len(<< >>) = 0 BY <2>3 DEF Path
      <4> QED BY <4>1, <2>3, BelowFacts
    <3> QED BY <3>2, <3>3, <2>3 DEF RootInv, Killed
  <2> QED BY <2>1, <2>7, <2>8
<1>6. CASE NoChange \/ EndPass \/ Resume BY <1>6 DEF NoChange, EndPass, Resume, RootInv
<1>7. CASE StoreBlock \/ Stored \/ ReadBlock \/ Loaded
  <2>1. UNCHANGED <<cells, cur>> BY <1>7 DEF StoreBlock, Stored, ReadBlock, Loaded, treeVars
  <2> QED BY <2>1 DEF RootInv
<1>8. CASE Finished \/ UNCHANGED vars
  <2>1. UNCHANGED <<cells, cur>> BY <1>8 DEF Finished, vars
  <2> QED BY <2>1 DEF RootInv
<1> QED BY <1>2, <1>3, <1>4, <1>5, <1>6, <1>7, <1>8 DEF Next
-----------------------------------------------------------------------------
(* The finished tree, in the order store_table finds its blocks *)

Closed(c) ==
  /\ Tree(c) /\ << >> \in DOMAIN c
  /\ \A p \in DOMAIN c : /\ c[p].split \in Axes \cup {None}
                         /\ c[p].split # None => \A o \in {0, 1} : Child(p, c[p].split, o) \in DOMAIN c

Extends(t, s) == Len(s) <= Len(t) /\ \A i \in 1 .. Len(s) : t[i] = s[i]

NextFound(c, s, m) == IF m <= Len(s) THEN s \o Kids(c, s[m]) ELSE s

LEMMA KidsFacts ==
  ASSUME NEW c, Closed(c), NEW b \in Box
  PROVE  Kids(c, b) \in Seq(Box)
<1>1. CASE b.path \in DOMAIN c /\ c[b.path].split # None
  <2>1. PICK s : s = c[b.path].split OBVIOUS
  <2>2. s \in Axes /\ s # None BY <1>1, <2>1 DEF Closed
  <2>3. Half(b, s, 0) \in Box /\ Half(b, s, 1) \in Box BY <2>2, HalfFacts DEF IsHalf
  <2>4. Kids(c, b) = <<Half(b, s, 0), Half(b, s, 1)>> BY <1>1, <2>1 DEF Kids, Children
  <2> QED BY <2>3, <2>4
<1>2. CASE ~(b.path \in DOMAIN c /\ c[b.path].split # None)
  <2>1. Kids(c, b) = << >> BY <1>2 DEF Kids, Children
  <2> QED BY <2>1
<1> QED BY <1>1, <1>2

FoundBy(h, c) ==
  /\ h[0] = <<RootBox>>
  /\ \A m \in Nat : h[m] \in Seq(Box) /\ h[m + 1] = NextFound(c, h[m], m + 1)

LEMMA FoundDef ==
  ASSUME NEW c, Closed(c)
  PROVE  FoundBy(Found(c), c)
<1>1. PICK g : g = [k \in Nat |-> [q \in Seq(Box) |-> NextFound(c, q, k + 1)]] OBVIOUS
<1>2. PICK S, one : S = Seq(Box) /\ one = <<RootBox>> OBVIOUS
<1>3. one \in S /\ g \in [Nat -> [S -> S]]
  <2>1. RootBox \in Box BY GoodRoot, GoodFacts
  <2>2. ASSUME NEW k \in Nat, NEW q \in Seq(Box) PROVE NextFound(c, q, k + 1) \in Seq(Box)
    <3>1. CASE k + 1 <= Len(q)
      <4>1. q[k + 1] \in Box BY <3>1
      <4>2. PICK u : u = Kids(c, q[k + 1]) OBVIOUS
      <4>3. u \in Seq(Box) BY <4>1, <4>2, KidsFacts
      <4>4. q \o u \in Seq(Box) BY <4>3, Concat
      <4> QED BY <3>1, <4>2, <4>4 DEF NextFound
    <3>2. CASE ~(k + 1 <= Len(q)) BY <3>2 DEF NextFound
    <3> QED BY <3>1, <3>2
  <2> QED BY <2>1, <2>2, <1>1, <1>2
<1>4. PICK h : Computes(h, S, one, g) BY <1>3, Iteration
<1>5. h \in [Nat -> Seq(Box)] /\ h[0] = <<RootBox>> /\ \A k \in Nat : h[k + 1] = g[k][h[k]]
  BY <1>2, <1>4 DEF Computes
<1>6. ASSUME NEW k \in Nat PROVE h[k + 1] = NextFound(c, h[k], k + 1)
  <2>1. h[k] \in Seq(Box) BY <1>5
  <2>2. g[k][h[k]] = NextFound(c, h[k], k + 1) BY <2>1, <1>1
  <2> QED BY <2>2, <1>5
<1>7. ASSUME NEW m \in Nat
      PROVE  h[m] = IF m = 0 THEN <<RootBox>>
                    ELSE IF m <= Len(h[m - 1]) THEN h[m - 1] \o Kids(c, h[m - 1][m]) ELSE h[m - 1]
  <2>1. CASE m = 0 BY <2>1, <1>5
  <2>2. CASE m # 0
    <3>1. m - 1 \in Nat /\ (m - 1) + 1 = m BY <2>2
    <3>2. h[m] = NextFound(c, h[m - 1], m) BY <3>1, <1>6
    <3> QED BY <2>2, <3>2 DEF NextFound
  <2> QED BY <2>1, <2>2
<1>8. h = [m \in Nat |-> IF m = 0 THEN <<RootBox>>
                         ELSE IF m <= Len(h[m - 1]) THEN h[m - 1] \o Kids(c, h[m - 1][m]) ELSE h[m - 1]]
  BY <1>5, <1>7
<1>9. PICK f : f = Found(c) OBVIOUS
<1>10. f = [m \in Nat |-> IF m = 0 THEN <<RootBox>>
                          ELSE IF m <= Len(f[m - 1]) THEN f[m - 1] \o Kids(c, f[m - 1][m]) ELSE f[m - 1]]
  BY <1>8, <1>9 DEF Found
<1>11. f[0] = <<RootBox>> BY <1>10
<1>12. ASSUME NEW m \in Nat PROVE f[m + 1] = NextFound(c, f[m], m + 1)
  <2>1. m + 1 \in Nat /\ m + 1 # 0 /\ (m + 1) - 1 = m OBVIOUS
  <2> QED BY <2>1, <1>10 DEF NextFound
<1>13. Nat \subseteq {m \in Nat : f[m] = h[m]}
  <2> DEFINE A == {m \in Nat : f[m] = h[m]}
  <2>1. 0 \in A BY <1>5, <1>11
  <2>2. \A m \in Nat : m \in A => m + 1 \in A BY <1>6, <1>12
  <2> HIDE DEF A
  <2>3. Nat \subseteq A BY <2>1, <2>2, SetInduction
  <2> QED BY <2>3 DEF A
<1>14. \A m \in Nat : f[m] \in Seq(Box) BY <1>5, <1>13
<1> QED BY <1>9, <1>11, <1>12, <1>14 DEF FoundBy

LEMMA FoundGrows ==
  ASSUME NEW c, NEW h, FoundBy(h, c), Closed(c), NEW m \in Nat
  PROVE  /\ Extends(h[m + 1], h[m])
         /\ Len(h[m]) < m + 1 => h[m + 1] = h[m]
<1>1. h[m] \in Seq(Box) /\ h[m + 1] = NextFound(c, h[m], m + 1) BY DEF FoundBy
<1>2. PICK s : s = h[m] OBVIOUS
<1>3. s \in Seq(Box) /\ Len(s) \in Nat BY <1>1, <1>2
<1>4. CASE m + 1 <= Len(s)
  <2>1. PICK u : u = Kids(c, s[m + 1]) OBVIOUS
  <2>2. s[m + 1] \in Box BY <1>3, <1>4
  <2>3. u \in Seq(Box) /\ Len(u) \in Nat BY <2>1, <2>2, KidsFacts
  <2>4. h[m + 1] = s \o u BY <1>1, <1>2, <1>4, <2>1 DEF NextFound
  <2>5. Joined(h[m + 1], s, u) BY <2>3, <2>4, <1>3, Concat
  <2> QED BY <2>3, <2>5, <1>2, <1>3, <1>4 DEF Joined, Extends
<1>5. CASE ~(m + 1 <= Len(s))
  <2>1. h[m + 1] = s BY <1>1, <1>2, <1>5 DEF NextFound
  <2> QED BY <2>1, <1>2, <1>3, <1>5 DEF Extends
<1> QED BY <1>4, <1>5

LEMMA FoundExtends ==
  ASSUME NEW c, NEW h, FoundBy(h, c), Closed(c), NEW m \in Nat, NEW n \in Nat, m <= n
  PROVE  /\ Extends(h[n], h[m])
         /\ Len(h[m]) <= m => h[n] = h[m]
<1>1. \A k \in Nat : h[k] \in Seq(Box) /\ Len(h[k]) \in Nat BY DEF FoundBy
<1> DEFINE A == {k \in Nat : Extends(h[m + k], h[m]) /\ (Len(h[m]) <= m => h[m + k] = h[m])}
<1>2. 0 \in A
  <2>1. m + 0 = m OBVIOUS
  <2> QED BY <2>1, <1>1 DEF Extends
<1>3. ASSUME NEW k \in Nat, k \in A PROVE k + 1 \in A
  <2>1. PICK j : j = m + k OBVIOUS
  <2>2. j \in Nat /\ m + (k + 1) = j + 1 BY <2>1
  <2>3. Extends(h[j + 1], h[j]) /\ (Len(h[j]) < j + 1 => h[j + 1] = h[j]) BY <2>2, FoundGrows
  <2>4. Extends(h[j], h[m]) /\ (Len(h[m]) <= m => h[j] = h[m]) BY <1>3, <2>1
  <2>5. Extends(h[j + 1], h[m])
    <3>1. Len(h[j]) \in Nat /\ Len(h[m]) \in Nat /\ Len(h[j + 1]) \in Nat BY <1>1, <2>2
    <3>2. Len(h[m]) <= Len(h[j]) /\ Len(h[j]) <= Len(h[j + 1]) BY <2>3, <2>4 DEF Extends
    <3>3. ASSUME NEW i \in 1 .. Len(h[m]) PROVE h[j + 1][i] = h[m][i]
      <4>1. i \in 1 .. Len(h[j]) BY <3>1, <3>2
      <4> QED BY <4>1, <2>3, <2>4 DEF Extends
    <3> QED BY <3>1, <3>2, <3>3 DEF Extends
  <2>6. Len(h[m]) <= m => h[j + 1] = h[m]
    <3>1. ASSUME Len(h[m]) <= m PROVE h[j + 1] = h[m]
      <4>1. h[j] = h[m] BY <2>4, <3>1
      <4>2. Len(h[j]) < j + 1 BY <4>1, <3>1, <1>1, <2>1
      <4> QED BY <4>1, <4>2, <2>3
    <3> QED BY <3>1
  <2> QED BY <2>2, <2>5, <2>6
<1>4. Nat \subseteq A
  <2> HIDE DEF A
  <2> QED BY <1>2, <1>3, SetInduction
<1>5. n - m \in Nat /\ m + (n - m) = n OBVIOUS
<1>6. n - m \in A
  <2> HIDE DEF A
  <2> QED BY <1>4, <1>5
<1> QED BY <1>5, <1>6
(* What the list holds after m blocks: blocks of the tree, none twice, the   *)
(* parent of each among the first m, the children of those m all there.      *)
Listing(s, c, m) ==
  /\ s \in Seq(Box) /\ Len(s) \in Nat \ {0} /\ s[1] = RootBox
  /\ \A i \in 1 .. Len(s) : s[i].path \in DOMAIN c /\ s[i] = BoxIn(c, s[i].path)
  /\ \A i, j \in 1 .. Len(s) : s[i].path = s[j].path => i = j
  /\ \A i \in 1 .. Len(s) :
       s[i].path # << >> => \E j \in 1 .. m : j <= Len(s) /\ s[j].path = Parent(s[i].path)
  /\ \A j \in 1 .. m, o \in {0, 1} :
       j <= Len(s) /\ c[s[j].path].split # None =>
         \E i \in 1 .. Len(s) : s[i].path = Child(s[j].path, c[s[j].path].split, o)

HalfAt(c, p, h, q) ==
  /\ h = BoxIn(c, q) /\ h.path = q /\ h \in Box
  /\ q \in DOMAIN c /\ q # << >> /\ Parent(q) = p

LEMMA HalfIn ==
  ASSUME NEW c, Closed(c), NEW p \in DOMAIN c, NEW b, b = BoxIn(c, p), NEW s, s = c[p].split, s # None,
         NEW o \in {0, 1}, NEW h, h = Half(b, s, o), NEW q, q = Child(p, s, o)
  PROVE  HalfAt(c, p, h, q)
<1>1. s \in Axes /\ q \in DOMAIN c /\ Tree(c) BY DEF Closed
<1>2. p \in Path /\ b \in Box BY <1>1, TreeFacts
<1>3. q # << >> /\ Last(q)[1] = s /\ Last(q)[2] = o /\ Parent(q) = p BY <1>1, <1>2, ChildFacts
<1>4. BoxIn(c, q) = Half(BoxIn(c, p), Last(q)[1], Last(q)[2]) BY <1>1, <1>3, ParentIn
<1>5. BoxIn(c, q) = h BY <1>3, <1>4
<1>6. BoxIn(c, q).path = q BY DEF BoxIn
<1>7. BoxIn(c, q) \in Box BY <1>1, TreeFacts
<1> QED BY <1>1, <1>3, <1>5, <1>6, <1>7 DEF HalfAt

LEMMA ListingGrows ==
  ASSUME NEW c, Closed(c), NEW m \in Nat, NEW s, Listing(s, c, m), NEW t, t = NextFound(c, s, m + 1)
  PROVE  Listing(t, c, m + 1)
<1>1. s \in Seq(Box) /\ Len(s) \in Nat \ {0} /\ s[1] = RootBox BY DEF Listing
<1>2. \A i \in 1 .. Len(s) : s[i].path \in DOMAIN c /\ s[i] = BoxIn(c, s[i].path) BY DEF Listing
<1>3. \A i, j \in 1 .. Len(s) : s[i].path = s[j].path => i = j BY DEF Listing
<1>4. \A i \in 1 .. Len(s) :
        s[i].path # << >> => \E j \in 1 .. m : j <= Len(s) /\ s[j].path = Parent(s[i].path)
  BY DEF Listing
<1>5. \A j \in 1 .. m, o \in {0, 1} :
        j <= Len(s) /\ c[s[j].path].split # None =>
          \E i \in 1 .. Len(s) : s[i].path = Child(s[j].path, c[s[j].path].split, o)
  BY DEF Listing
<1>6. \A j \in 1 .. m + 1 : j \in 1 .. m \/ j = m + 1 OBVIOUS
<1>7. \A j \in 1 .. m : j \in 1 .. m + 1 OBVIOUS
<1>8. CASE m + 1 > Len(s)
  <2>1. t = s BY <1>1, <1>8 DEF NextFound
  <2>2. ASSUME NEW i \in 1 .. Len(s), s[i].path # << >>
        PROVE  \E j \in 1 .. m + 1 : j <= Len(s) /\ s[j].path = Parent(s[i].path)
    <3>1. PICK j \in 1 .. m : j <= Len(s) /\ s[j].path = Parent(s[i].path) BY <2>2, <1>4
    <3> QED BY <3>1, <1>7
  <2>3. ASSUME NEW j \in 1 .. m + 1, NEW o \in {0, 1}, j <= Len(s), c[s[j].path].split # None
        PROVE  \E i \in 1 .. Len(s) : s[i].path = Child(s[j].path, c[s[j].path].split, o)
    <3>1. j # m + 1 BY <2>3, <1>1, <1>8
    <3> QED BY <3>1, <2>3, <1>5, <1>6
  <2>4. Listing(s, c, m + 1) BY <1>1, <1>2, <1>3, <2>2, <2>3 DEF Listing
  <2> QED BY <2>1, <2>4
<1>9. CASE m + 1 <= Len(s) /\ c[s[m + 1].path].split = None
  <2>1. m + 1 \in 1 .. Len(s) BY <1>1, <1>9
  <2>2. Kids(c, s[m + 1]) = << >> BY <2>1, <1>2, <1>9 DEF Kids, Children
  <2>3. t = s \o << >> BY <2>2, <1>9 DEF NextFound
  <2>4. t = s BY <2>3, <1>1
  <2>5. ASSUME NEW i \in 1 .. Len(s), s[i].path # << >>
        PROVE  \E j \in 1 .. m + 1 : j <= Len(s) /\ s[j].path = Parent(s[i].path)
    <3>1. PICK j \in 1 .. m : j <= Len(s) /\ s[j].path = Parent(s[i].path) BY <2>5, <1>4
    <3> QED BY <3>1, <1>7
  <2>6. ASSUME NEW j \in 1 .. m + 1, NEW o \in {0, 1}, j <= Len(s), c[s[j].path].split # None
        PROVE  \E i \in 1 .. Len(s) : s[i].path = Child(s[j].path, c[s[j].path].split, o)
    <3>1. j # m + 1 BY <2>6, <1>9
    <3> QED BY <3>1, <2>6, <1>5, <1>6
  <2>7. Listing(s, c, m + 1) BY <1>1, <1>2, <1>3, <2>5, <2>6 DEF Listing
  <2> QED BY <2>4, <2>7
<1>10. CASE m + 1 <= Len(s) /\ c[s[m + 1].path].split # None
  <2>1. PICK b, p, x, n : b = s[m + 1] /\ p = b.path /\ x = c[p].split /\ n = Len(s) OBVIOUS
  <2>2. m + 1 \in 1 .. n /\ n \in Nat \ {0} BY <1>1, <1>10, <2>1
  <2>3. p \in DOMAIN c /\ b = BoxIn(c, p) /\ x # None BY <1>2, <1>10, <2>1, <2>2
  <2>4. PICK q0, q1 : q0 = Child(p, x, 0) /\ q1 = Child(p, x, 1) OBVIOUS
  <2>5. PICK h0, h1 : h0 = Half(b, x, 0) /\ h1 = Half(b, x, 1) OBVIOUS
  <2>6. h0 = BoxIn(c, q0) /\ h0.path = q0 /\ q0 \in DOMAIN c /\ q0 # << >> /\ Parent(q0) = p /\ h0 \in Box
    <3>1. 0 \in {0, 1} OBVIOUS
    <3>2. HalfAt(c, p, h0, q0) BY <3>1, <2>1, <2>3, <2>4, <2>5, HalfIn
    <3> QED BY <3>2 DEF HalfAt
  <2>7. h1 = BoxIn(c, q1) /\ h1.path = q1 /\ q1 \in DOMAIN c /\ q1 # << >> /\ Parent(q1) = p /\ h1 \in Box
    <3>1. 1 \in {0, 1} OBVIOUS
    <3>2. HalfAt(c, p, h1, q1) BY <3>1, <2>1, <2>3, <2>4, <2>5, HalfIn
    <3> QED BY <3>2 DEF HalfAt
  <2>8. q0 # q1
    <3>1. p \in Path /\ x \in Axes BY <2>1, <2>3, TreeFacts DEF Closed
    <3>2. 0 \in {0, 1} /\ 1 \in {0, 1} /\ 0 # 1 OBVIOUS
    <3> QED BY <3>1, <3>2, <2>4, ChildrenDiffer
  <2>9. Kids(c, b) = <<h0, h1>> BY <2>1, <2>3, <2>5 DEF Kids, Children
  <2>10. t = s \o <<h0, h1>> BY <2>1, <2>9, <1>10 DEF NextFound
  <2>11. /\ <<h0, h1>> \in Seq(Box) /\ Len(<<h0, h1>>) = 2 /\ <<h0, h1>>[1] = h0 /\ <<h0, h1>>[2] = h1
    BY <2>6, <2>7
  <2>12. t \in Seq(Box) /\ Joined(t, s, <<h0, h1>>) BY <1>1, <2>10, <2>11, Concat
  <2>13. /\ Len(t) = n + 2 /\ t[n + 1] = h0 /\ t[n + 2] = h1
         /\ \A i \in 1 .. n : t[i] = s[i]
    BY <2>1, <2>11, <2>12 DEF Joined
  <2>14. \A i \in 1 .. Len(t) : i \in 1 .. n \/ i = n + 1 \/ i = n + 2 BY <2>2, <2>13
  <2>15. 1 \in 1 .. n /\ n + 1 \in 1 .. Len(t) /\ n + 2 \in 1 .. Len(t) /\ \A i \in 1 .. n : i \in 1 .. Len(t)
    BY <2>2, <2>13
  <2>16. t[1] = RootBox BY <1>1, <2>13, <2>15
  <2>17. ASSUME NEW i \in 1 .. Len(t) PROVE t[i].path \in DOMAIN c /\ t[i] = BoxIn(c, t[i].path)
    <3>1. CASE i \in 1 .. n BY <3>1, <1>2, <2>1, <2>13
    <3>2. CASE i = n + 1 BY <3>2, <2>6, <2>13
    <3>3. CASE i = n + 2 BY <3>3, <2>7, <2>13
    <3> QED BY <2>14, <3>1, <3>2, <3>3
  <2>18. ASSUME NEW i \in 1 .. n PROVE s[i].path # q0 /\ s[i].path # q1
    <3>1. ASSUME s[i].path # << >>, Parent(s[i].path) = p PROVE FALSE
      <4>1. PICK j \in 1 .. m : j <= Len(s) /\ s[j].path = p BY <3>1, <1>4, <2>1
      <4>2. j \in 1 .. Len(s) /\ m + 1 \in 1 .. Len(s) /\ j # m + 1 BY <4>1, <1>1, <2>1, <2>2
      <4> QED BY <4>1, <4>2, <1>3, <2>1
    <3> QED BY <3>1, <2>6, <2>7
  <2>19. ASSUME NEW i \in 1 .. Len(t), NEW j \in 1 .. Len(t), t[i].path = t[j].path PROVE i = j
    <3>1. CASE i \in 1 .. n /\ j \in 1 .. n
      <4>1. s[i].path = s[j].path BY <2>13, <2>19, <3>1
      <4> QED BY <4>1, <3>1, <1>3, <2>1
    <3>2. CASE i \in 1 .. n /\ j \in {n + 1, n + 2}
      <4>1. t[i].path # q0 /\ t[i].path # q1 BY <2>13, <2>18, <3>2
      <4>2. t[j].path = q0 \/ t[j].path = q1 BY <2>6, <2>7, <2>13, <3>2
      <4> QED BY <4>1, <4>2, <2>19
    <3>3. CASE j \in 1 .. n /\ i \in {n + 1, n + 2}
      <4>1. t[j].path # q0 /\ t[j].path # q1 BY <2>13, <2>18, <3>3
      <4>2. t[i].path = q0 \/ t[i].path = q1 BY <2>6, <2>7, <2>13, <3>3
      <4> QED BY <4>1, <4>2, <2>19
    <3>4. CASE i \in {n + 1, n + 2} /\ j \in {n + 1, n + 2} BY <2>6, <2>7, <2>8, <2>13, <2>19, <3>4
    <3> QED BY <2>14, <3>1, <3>2, <3>3, <3>4
  <2>20. ASSUME NEW i \in 1 .. Len(t), t[i].path # << >>
         PROVE  \E j \in 1 .. m + 1 : j <= Len(t) /\ t[j].path = Parent(t[i].path)
    <3>1. CASE i \in 1 .. n
      <4>1. t[i] = s[i] BY <2>13, <3>1
      <4>2. PICK j \in 1 .. m : j <= Len(s) /\ s[j].path = Parent(s[i].path) BY <4>1, <3>1, <2>1, <2>20, <1>4
      <4>3. j \in 1 .. n /\ j \in 1 .. m + 1 /\ j <= Len(t) BY <4>2, <2>1, <2>2, <2>13
      <4>4. t[j] = s[j] BY <4>3, <2>13
      <4> QED BY <4>1, <4>2, <4>3, <4>4
    <3>2. CASE i \in {n + 1, n + 2}
      <4>1. Parent(t[i].path) = p BY <3>2, <2>6, <2>7, <2>13
      <4>2. m + 1 \in 1 .. m + 1 /\ m + 1 <= Len(t) /\ t[m + 1] = b BY <2>1, <2>2, <2>13
      <4>3. t[m + 1].path = Parent(t[i].path) BY <4>1, <4>2, <2>1
      <4> QED BY <4>2, <4>3
    <3> QED BY <2>14, <3>1, <3>2
  <2>21. ASSUME NEW j \in 1 .. m + 1, NEW o \in {0, 1}, j <= Len(t), c[t[j].path].split # None
         PROVE  \E i \in 1 .. Len(t) : t[i].path = Child(t[j].path, c[t[j].path].split, o)
    <3>1. j \in 1 .. n /\ t[j] = s[j] BY <2>2, <2>13
    <3>2. CASE j \in 1 .. m
      <4>1. PICK i \in 1 .. Len(s) : s[i].path = Child(s[j].path, c[s[j].path].split, o)
        BY <3>1, <3>2, <2>1, <2>21, <1>5
      <4>2. i \in 1 .. Len(t) /\ t[i] = s[i] BY <2>1, <2>13, <2>15
      <4> QED BY <4>1, <4>2, <3>1
    <3>3. CASE j = m + 1
      <4>1. t[j].path = p /\ c[t[j].path].split = x BY <3>1, <3>3, <2>1
      <4>2. CASE o = 0
        <5>1. t[n + 1].path = Child(p, x, o) BY <4>2, <2>4, <2>6, <2>13
        <5> QED BY <5>1, <4>1, <2>15
      <4>3. CASE o = 1
        <5>1. t[n + 2].path = Child(p, x, o) BY <4>3, <2>4, <2>7, <2>13
        <5> QED BY <5>1, <4>1, <2>15
      <4> QED BY <4>2, <4>3
    <3> QED BY <3>2, <3>3, <1>6
  <2>22. Len(t) \in Nat \ {0} BY <2>2, <2>13
  <2> QED BY <2>12, <2>16, <2>17, <2>19, <2>20, <2>21, <2>22 DEF Listing
<1> QED BY <1>1, <1>8, <1>9, <1>10

LEMMA FoundLists ==
  ASSUME NEW c, NEW h, FoundBy(h, c), Closed(c), NEW m \in Nat
  PROVE  Listing(h[m], c, m)
<1> DEFINE A == {k \in Nat : Listing(h[k], c, k)}
<1>1. 0 \in A
  <2>1. PICK s : s = <<RootBox>> OBVIOUS
  <2>2. RootBox \in Box BY GoodRoot, GoodFacts
  <2>3. s \in Seq(Box) /\ Len(s) = 1 /\ s[1] = RootBox BY <2>1, <2>2
  <2>4. RootBox.path = << >> /\ BoxIn(c, << >>) = RootBox /\ << >> \in DOMAIN c
    BY DEF Closed, Tree, RootBox
  <2>5. \A i \in 1 .. Len(s) : i = 1 BY <2>3
  <2>6. Listing(s, c, 0) BY <2>3, <2>4, <2>5 DEF Listing
  <2>7. h[0] = s BY <2>1 DEF FoundBy
  <2> QED BY <2>6, <2>7
<1>2. ASSUME NEW k \in Nat, k \in A PROVE k + 1 \in A
  <2>1. h[k + 1] = NextFound(c, h[k], k + 1) BY DEF FoundBy
  <2>2. Listing(h[k + 1], c, k + 1) BY <1>2, <2>1, ListingGrows
  <2> QED BY <2>2
<1>3. Nat \subseteq A
  <2> HIDE DEF A
  <2> QED BY <1>1, <1>2, SetInduction
<1> QED BY <1>3

(* When the list is worked off, every block of the tree has been on it. *)
Lists(s, c) == DOMAIN c = {s[i].path : i \in 1 .. Len(s)}

LEMMA AllListed ==
  ASSUME NEW c, Closed(c), NEW m \in Nat, NEW s, Listing(s, c, m), Len(s) <= m
  PROVE  Lists(s, c)
<1>1. PICK F : F = {s[i].path : i \in 1 .. Len(s)} OBVIOUS
<1>2. F \subseteq DOMAIN c BY <1>1 DEF Listing
<1>3. << >> \in F
  <2>1. 1 \in 1 .. Len(s) /\ s[1].path = << >> BY DEF Listing, RootBox
  <2> QED BY <2>1, <1>1
<1>4. ASSUME NEW p \in F, c[p].split # None, NEW o \in {0, 1} PROVE Child(p, c[p].split, o) \in F
  <2>1. PICK j \in 1 .. Len(s) : s[j].path = p BY <1>1
  <2>2. j \in 1 .. m /\ j <= Len(s)
    <3>1. Len(s) \in Nat BY DEF Listing
    <3> QED BY <3>1
  <2>3. PICK i \in 1 .. Len(s) : s[i].path = Child(s[j].path, c[s[j].path].split, o)
    BY <1>4, <2>1, <2>2 DEF Listing
  <2> QED BY <2>1, <2>3, <1>1
<1>5. Tree(c) BY DEF Closed
<1> DEFINE A == {n \in Nat : \A q \in DOMAIN c : Len(q) <= n => q \in F}
<1>6. 0 \in A
  <2>1. ASSUME NEW q \in DOMAIN c, Len(q) <= 0 PROVE q = << >>
    <3>1. q \in Seq(Axes \X {0, 1}) BY <1>5, TreeFacts DEF Path
    <3> QED BY <3>1, <2>1
  <2> QED BY <2>1, <1>3
<1>7. ASSUME NEW n \in Nat, n \in A PROVE n + 1 \in A
  <2> SUFFICES ASSUME NEW q \in DOMAIN c, Len(q) <= n + 1 PROVE q \in F
    OBVIOUS
  <2>1. CASE q = << >> BY <2>1, <1>3
  <2>2. CASE q # << >>
    <3>1. PICK p, e : p = Parent(q) /\ e = Last(q) OBVIOUS
    <3>2. q \in Path BY <1>5, TreeFacts
    <3>3. p \in Path /\ Step(e) /\ Len(p) + 1 = Len(q) /\ q = Append(p, e) BY <3>1, <3>2, <2>2, PathParent
    <3>4. p \in DOMAIN c /\ c[p].split = e[1] BY <3>1, <2>2, <1>5, ParentIn
    <3>5. Len(p) <= n BY <3>2, <3>3 DEF Path
    <3>6. p \in F BY <3>4, <3>5, <1>7
    <3>7. e[1] \in Axes /\ e[2] \in {0, 1} /\ e = <<e[1], e[2]>> BY <3>3 DEF Step
    <3>8. c[p].split # None BY <3>4, <3>7, AxisFacts
    <3>9. Child(p, c[p].split, e[2]) \in F BY <3>6, <3>7, <3>8, <1>4
    <3>10. q = Child(p, c[p].split, e[2]) BY <3>3, <3>4, <3>7 DEF Child
    <3> QED BY <3>9, <3>10
  <2> QED BY <2>1, <2>2
<1>8. Nat \subseteq A
  <2> HIDE DEF A
  <2> QED BY <1>6, <1>7, SetInduction
<1>9. ASSUME NEW q \in DOMAIN c PROVE q \in F
  <2>1. Len(q) \in Nat /\ Len(q) <= Len(q) BY <1>5, TreeFacts DEF Path
  <2>2. Len(q) \in A
    <3> HIDE DEF A
    <3> QED BY <2>1, <1>8
  <2> QED BY <2>1, <2>2
<1> QED BY <1>1, <1>2, <1>9 DEF Lists
-----------------------------------------------------------------------------
(* The list that store_table and the reader walk along. *)

Rest(s, m) == SubSeq(s, m + 1, Len(s))

LEMMA RestFacts ==
  ASSUME NEW S, NEW s \in Seq(S), NEW t \in Seq(S), NEW m \in Nat, m <= Len(s)
  PROVE  /\ Rest(s, m) = << >> <=> Len(s) = m
         /\ m < Len(s) => Head(Rest(s, m)) = s[m + 1] /\ Tail(Rest(s, m)) \o t = Rest(s \o t, m + 1)
<1>1. PICK n, k, r : n = Len(s) /\ k = Len(t) /\ r = Rest(s, m) OBVIOUS
<1>2. n \in Nat /\ k \in Nat /\ m <= n BY <1>1
<1>3. r \in Seq(S) /\ Len(r) = n - m /\ \A i \in 1 .. n - m : r[i] = s[m + i] BY <1>1, <1>2 DEF Rest
<1>4. r = << >> <=> n = m BY <1>2, <1>3
<1>5. ASSUME m < n PROVE Head(r) = s[m + 1] /\ Tail(r) \o t = Rest(s \o t, m + 1)
  <2>1. 1 \in 1 .. n - m /\ m + 1 \in 1 .. n BY <1>2, <1>5
  <2>2. Head(r) = s[m + 1] BY <2>1, <1>3
  <2>3. PICK a, b, u : a = Tail(r) /\ b = a \o t /\ u = s \o t OBVIOUS
  <2>4. a \in Seq(S) /\ Len(a) = n - m - 1 BY <2>3, <1>2, <1>3, <1>5
  <2>5. \A i \in 1 .. n - m - 1 : a[i] = r[i + 1] BY <2>3, <1>2, <1>3, <1>5
  <2>6. b \in Seq(S) /\ Joined(b, a, t) /\ u \in Seq(S) /\ Joined(u, s, t) BY <2>3, <2>4, Concat
  <2>7. Len(b) = n - m - 1 + k /\ Len(u) = n + k BY <1>1, <2>4, <2>6 DEF Joined
  <2>8. PICK v : v = Rest(u, m + 1) OBVIOUS
  <2>9. /\ v \in Seq(S) /\ Len(v) = n + k - m - 1
        /\ \A i \in 1 .. n + k - m - 1 : v[i] = u[m + 1 + i]
    <3>1. PICK a1 : a1 = m + 1 OBVIOUS
    <3>2. a1 \in Nat /\ a1 <= n + k /\ Len(u) = n + k BY <3>1, <2>7, <1>2, <1>5
    <3>3. v = SubSeq(u, a1 + 1, n + k) BY <3>1, <3>2, <2>8 DEF Rest
    <3>4. v \in Seq(S) /\ Len(v) = n + k - a1 /\ \A i \in 1 .. n + k - a1 : v[i] = u[a1 + i]
      BY <3>2, <3>3, <2>6, <1>2
    <3> QED BY <3>1, <3>4, <1>2
  <2>10. ASSUME NEW i \in 1 .. n - m - 1 + k PROVE b[i] = v[i]
    <3>1. v[i] = u[m + 1 + i] BY <2>9, <1>2, <1>5
    <3>2. CASE i <= n - m - 1
      <4>1. i \in 1 .. n - m - 1 /\ i + 1 \in 1 .. n - m /\ m + 1 + i \in 1 .. n /\ m + (i + 1) = m + 1 + i
        BY <3>2, <1>2, <1>5
      <4>2. b[i] = a[i] BY <4>1, <2>4, <2>6 DEF Joined
      <4>3. a[i] = s[m + (i + 1)] BY <4>1, <2>5, <1>3
      <4>4. u[m + 1 + i] = s[m + 1 + i] BY <4>1, <2>6, <1>1 DEF Joined
      <4> QED BY <3>1, <4>1, <4>2, <4>3, <4>4
    <3>3. CASE ~(i <= n - m - 1)
      <4>1. PICK j : j = i - (n - m - 1) OBVIOUS
      <4>2. j \in 1 .. k /\ i = (n - m - 1) + j /\ m + 1 + i = n + j BY <4>1, <3>3, <1>2, <1>5
      <4>3. b[i] = t[j] BY <4>2, <2>4, <2>6, <1>1 DEF Joined
      <4>4. u[n + j] = t[j] BY <4>2, <2>6, <1>1 DEF Joined
      <4> QED BY <3>1, <4>2, <4>3, <4>4
    <3> QED BY <3>2, <3>3
  <2>11. Len(b) \in Nat /\ Len(b) = Len(v) BY <2>7, <2>9, <1>2, <1>5
  <2>12. b = v BY <2>6, <2>7, <2>9, <2>10, <2>11, SeqEqual
  <2> QED BY <2>2, <2>3, <2>8, <2>12
<1> QED BY <1>1, <1>4, <1>5

(* Where the walk is after m blocks, and the block it takes next. *)
AtBlock(c, m, b, s) ==
  /\ b \in Box /\ b.path \in DOMAIN c /\ b = BoxIn(c, b.path)
  /\ m < Len(Found(c)[m]) /\ b = Found(c)[m][m + 1]
  /\ m + 1 <= Len(Found(c)[m + 1]) /\ b = Found(c)[m + 1][m + 1]
  /\ Extends(Found(c)[m + 1], Found(c)[m])
  /\ Tail(s) \o Kids(c, b) = Pending(c, m + 1)

LEMMA PendingFacts ==
  ASSUME NEW c, Closed(c), NEW m \in Nat, m <= Len(Found(c)[m]), NEW s, s = Pending(c, m)
  PROVE  /\ s = << >> <=> Len(Found(c)[m]) = m
         /\ s # << >> => AtBlock(c, m, Head(s), s)
<1>1. PICK h, f, g : h = Found(c) /\ f = h[m] /\ g = h[m + 1] OBVIOUS
<1>2. FoundBy(h, c) BY <1>1, FoundDef
<1>3. f \in Seq(Box) /\ g \in Seq(Box) /\ g = NextFound(c, f, m + 1) /\ Extends(g, f)
  <2>1. f \in Seq(Box) /\ g = NextFound(c, f, m + 1) BY <1>1, <1>2 DEF FoundBy
  <2>2. \A k \in Nat : h[k] \in Seq(Box) BY <1>2 DEF FoundBy
  <2>3. g \in Seq(Box) BY <1>1, <2>2
  <2>4. Extends(h[m + 1], h[m]) BY <1>2, FoundGrows
  <2> QED BY <1>1, <2>1, <2>3, <2>4
<1>4. s = Rest(f, m) /\ m <= Len(f) /\ Len(f) \in Nat BY <1>1, <1>3 DEF Pending, Rest
<1>5. s = << >> <=> Len(f) = m BY <1>3, <1>4, RestFacts
<1>6. ASSUME s # << >> PROVE AtBlock(c, m, Head(s), s)
  <2>1. m < Len(f) /\ m + 1 \in 1 .. Len(f) BY <1>4, <1>5, <1>6
  <2>2. PICK b, u : b = f[m + 1] /\ u = Kids(c, b) OBVIOUS
  <2>3. b \in Box BY <1>3, <2>1, <2>2
  <2>4. u \in Seq(Box) BY <2>2, <2>3, KidsFacts
  <2>5. g = f \o u BY <1>3, <2>1, <2>2 DEF NextFound
  <2>6. Head(s) = b /\ Tail(s) \o u = Rest(g, m + 1)
    <3>1. /\ Head(Rest(f, m)) = f[m + 1]
          /\ Tail(Rest(f, m)) \o u = Rest(f \o u, m + 1)
      BY <1>3, <1>4, <2>1, <2>4, RestFacts
    <3> QED BY <3>1, <1>4, <2>2, <2>5
  <2>7. Listing(f, c, m) BY <1>1, <1>2, FoundLists
  <2>8. b.path \in DOMAIN c /\ b = BoxIn(c, b.path) BY <2>1, <2>2, <2>7 DEF Listing
  <2>9. Len(f) <= Len(g) /\ g[m + 1] = b BY <1>3, <2>1, <2>2 DEF Extends
  <2>10. m + 1 <= Len(g)
    <3>1. Len(g) \in Nat BY <1>3
    <3> QED BY <3>1, <2>1, <2>9, <1>4
  <2>11. Tail(s) \o u = Pending(c, m + 1) BY <1>1, <2>6 DEF Pending, Rest
  <2> QED BY <1>1, <1>3, <2>1, <2>2, <2>3, <2>6, <2>8, <2>9, <2>10, <2>11 DEF AtBlock
<1> QED BY <1>1, <1>5, <1>6

LEMMA FirstPending ==
  ASSUME NEW c, Closed(c)
  PROVE  Pending(c, 0) = <<RootBox>> /\ 0 <= Len(Found(c)[0])
<1>1. FoundBy(Found(c), c) BY FoundDef
<1>2. PICK s : s = <<RootBox>> OBVIOUS
<1>3. PICK f : f = Found(c)[0] OBVIOUS
<1>4. f = s BY <1>1, <1>2, <1>3 DEF FoundBy
<1>5. Len(s) = 1 /\ SubSeq(s, 1, 1) = s
  <2>1. s \in Seq({RootBox}) /\ Len(s) = 1 BY <1>2
  <2>2. PICK t : t = SubSeq(s, 1, 1) OBVIOUS
  <2>3. t \in Seq({RootBox}) /\ Len(t) = 1 /\ t[1] = s[1] BY <2>1, <2>2
  <2>4. \A i \in 1 .. Len(t) : t[i] = s[i]
    <3>1. \A i \in 1 .. Len(t) : i = 1 BY <2>3
    <3> QED BY <2>3, <3>1
  <2>5. t = s BY <2>1, <2>3, <2>4, SeqEqual
  <2> QED BY <2>1, <2>2, <2>5
<1>6. Pending(c, 0) = SubSeq(f, 0 + 1, Len(f)) BY <1>3 DEF Pending
<1>7. 0 <= Len(f) BY <1>4, <1>5
<1> QED BY <1>2, <1>3, <1>4, <1>5, <1>6, <1>7

(* Two walks that have come to their end have come equally far. *)
LEMMA SameEnd ==
  ASSUME NEW c, Closed(c), NEW m \in Nat, NEW n \in Nat, Len(Found(c)[m]) = m,
         n <= Len(Found(c)[n])
  PROVE  /\ n <= m
         /\ Len(Found(c)[n]) = n => n = m
         /\ Extends(Found(c)[m], Found(c)[n])
<1>1. PICK h : h = Found(c) OBVIOUS
<1>2. FoundBy(h, c) BY <1>1, FoundDef
<1>3. Len(h[m]) = m /\ n <= Len(h[n]) BY <1>1
<1>4. ASSUME m < n PROVE FALSE
  <2>1. h[n] = h[m] BY <1>2, <1>3, <1>4, FoundExtends
  <2> QED BY <2>1, <1>3, <1>4
<1>5. n <= m BY <1>4
<1>6. Extends(h[m], h[n]) /\ (Len(h[n]) <= n => h[m] = h[n]) BY <1>2, <1>5, FoundExtends
<1>7. Len(h[n]) = n => n = m BY <1>3, <1>6
<1> QED BY <1>1, <1>5, <1>6, <1>7
-----------------------------------------------------------------------------
(* Storing and reading, step by step. *)

BothHalves(c) ==
  \A p \in DOMAIN c : c[p].split # None => \A o \in {0, 1} : Child(p, c[p].split, o) \in DOMAIN c

Settled(c, ps, v) == Closed(c) /\ CellsOK(c, v) /\ \A p \in DOMAIN c : ps[c[p].x] = c[p].split

LEMMA ClosedTree ==
  ASSUME NEW c, NEW v, CellsOK(c, v), << >> \in DOMAIN c, BothHalves(c)
  PROVE  Closed(c)
BY DEF CellsOK, CellOK, BothHalves, Closed

LEMMA SettledNow ==
  ASSUME TableInv, RootInv, phase \notin {"pass", "refresh"}
  PROVE  Settled(cells, psplit, val)
<1>1. CellsOK(cells, val) /\ CentresOK(cells, psplit, DOMAIN val) /\ ShapeInv /\ ListInv BY DEF TableInv
<1>2. TypeInv BY DEF TableInv
<1>3. active = << >> /\ cur = NoBox BY <1>1, <1>2 DEF ListInv, TypeInv
<1>4. \A p \in DOMAIN cells : ~Waiting(p) /\ ~BuildingFor(p)
  <2>1. ToSet(active) = {} BY <1>3, ListEmpty DEF IsList
  <2> QED BY <2>1, <1>3 DEF Waiting, BuildingFor
<1>5. BothHalves(cells) BY <1>1, <1>4 DEF ShapeInv, ShapeAt, BothHalves
<1>6. << >> \in DOMAIN cells BY <1>3 DEF RootInv
<1>7. Closed(cells) BY <1>1, <1>5, <1>6, ClosedTree
<1> QED BY <1>1, <1>7 DEF Settled, CentresOK

LEMMA SettledThen ==
  ASSUME TableInv, RootInv, Resume, phase' = "store"
  PROVE  Settled(cells, psplit, val)
<1>1. TableInv' BY TableStep DEF Next
<1>2. UNCHANGED <<cells, cur, psplit, val>> /\ phase = "refresh" BY DEF Resume
<1>3. active' = << >> /\ cur = NoBox
  <2>1. cur = NoBox BY <1>2 DEF TableInv, ListInv
  <2>2. active' = << >> BY DEF Resume
  <2> QED BY <2>1, <2>2
<1>4. ShapeInv' BY <1>1 DEF TableInv
<1>5. ToSet(active') = {} BY <1>3, ListEmpty DEF IsList
<1>6. \A p \in DOMAIN cells : cells[p].split # None => \A o \in {0, 1} : Child(p, cells[p].split, o) \in DOMAIN cells
  BY <1>2, <1>3, <1>4, <1>5 DEF ShapeInv, ShapeAt, Waiting, BuildingFor
<1>7. CellsOK(cells, val) /\ CentresOK(cells, psplit, DOMAIN val) BY DEF TableInv
<1>8. << >> \in DOMAIN cells BY <1>3 DEF RootInv
<1>9. Closed(cells) BY <1>6, <1>7, <1>8, ClosedTree DEF BothHalves
<1> QED BY <1>7, <1>9 DEF Settled, CentresOK

(* Both children of a block of the finished tree are there, and ix_split of  *)
(* its centre names them.                                                    *)
LEMMA SameChildren ==
  ASSUME Settled(cells, psplit, val), NEW b, b.path \in DOMAIN cells, b = BoxIn(cells, b.path)
  PROVE  BredOf(b) = Kids(cells, b) /\ Children(b, psplit[b.x]) = Kids(cells, b)
<1>1. PICK c, p, s : c = cells /\ p = b.path /\ s = c[p].split OBVIOUS
<1>2. Closed(c) /\ p \in DOMAIN c /\ b = BoxIn(c, p) BY <1>1 DEF Settled
<1>3. b.x = c[p].x BY <1>2 DEF BoxIn
<1>4. psplit[b.x] = s BY <1>1, <1>2, <1>3 DEF Settled
<1>5. Kids(c, b) = Children(b, s) BY <1>1, <1>2 DEF Kids
<1>6. CASE s = None BY <1>1, <1>4, <1>5, <1>6 DEF BredOf, Children
<1>7. CASE s # None
  <2>1. PICK h, k, q, r : /\ h = Half(b, s, 0) /\ k = Half(b, s, 1)
                          /\ q = Child(p, s, 0) /\ r = Child(p, s, 1) OBVIOUS
  <2>2. 0 \in {0, 1} /\ 1 \in {0, 1} OBVIOUS
  <2>3. HalfAt(c, p, h, q) BY <1>1, <1>2, <1>7, <2>1, <2>2, HalfIn
  <2>4. HalfAt(c, p, k, r) BY <1>1, <1>2, <1>7, <2>1, <2>2, HalfIn
  <2>5. InTree(h) = <<h>> /\ InTree(k) = <<k>> BY <1>1, <2>3, <2>4 DEF InTree, HalfAt
  <2>6. BredOf(b) = <<h>> \o <<k>> BY <1>1, <1>7, <2>1, <2>5 DEF BredOf
  <2>7. <<h>> \o <<k>> = <<h, k>>
    <3>1. PICK t, u, a : t = <<h>> /\ u = <<k>> /\ a = t \o u OBVIOUS
    <3>2. t \in Seq({h, k}) /\ u \in Seq({h, k}) /\ Len(t) = 1 /\ Len(u) = 1 BY <3>1
    <3>3. a \in Seq({h, k}) /\ Joined(a, t, u) BY <3>1, <3>2, Concat
    <3>4. Len(a) = 2 /\ a[1] = h /\ a[2] = k
      <4>1. 1 \in 1 .. Len(t) /\ 1 \in 1 .. Len(u) BY <3>2
      <4>2. a[1] = t[1] /\ a[Len(t) + 1] = u[1] /\ Len(a) = Len(t) + Len(u) BY <3>3, <4>1 DEF Joined
      <4> QED BY <4>2, <3>1, <3>2
    <3>5. <<h, k>> \in Seq({h, k}) /\ Len(<<h, k>>) = 2 /\ <<h, k>>[1] = h /\ <<h, k>>[2] = k
      OBVIOUS
    <3>6. \A i \in 1 .. Len(a) : a[i] = <<h, k>>[i]
      <4>1. \A i \in 1 .. Len(a) : i = 1 \/ i = 2 BY <3>4
      <4> QED BY <4>1, <3>4, <3>5
    <3>7. a = <<h, k>> BY <3>3, <3>4, <3>5, <3>6, SeqEqual
    <3> QED BY <3>1, <3>7
  <2>8. Children(b, s) = <<h, k>> BY <1>7, <2>1 DEF Children
  <2> QED BY <1>1, <1>4, <1>5, <2>6, <2>7, <2>8
<1> QED BY <1>6, <1>7

LEMMA StoreKeeps ==
  ASSUME TableInv, RootInv, FileInv, StoreBlock
  PROVE  FileInv'
<1>1. PICK c, f, q, n : c = cells /\ f = file /\ q = queue /\ n = Len(file) OBVIOUS
<1>2. phase = "store" /\ phase' = "store" /\ q # << >> /\ cells' = c /\ read' = read
  BY <1>1 DEF StoreBlock, treeVars
<1>3. Settled(cells, psplit, val) BY <1>2, SettledNow
<1>4. Closed(c) BY <1>1, <1>3 DEF Settled
<1>5. Written(c, f) /\ q = Pending(c, n) /\ read = << >> BY <1>1, <1>2 DEF FileInv
<1>6. /\ f \in Seq(Seq([Axes -> Int])) /\ n \in Nat /\ n <= Len(Found(c)[n])
      /\ \A i \in 1 .. n : f[i] = PointSeq(Found(c)[n][i])
  BY <1>1, <1>5 DEF Written
<1>7. PICK b : b = Head(q) OBVIOUS
<1>8. AtBlock(c, n, b, q) BY <1>2, <1>4, <1>5, <1>6, <1>7, PendingFacts
<1>9. PICK g, h, e : g = Found(c)[n + 1] /\ h = Found(c)[n] /\ e = PointSeq(b) OBVIOUS
<1>10. /\ b \in Box /\ b.path \in DOMAIN c /\ b = BoxIn(c, b.path)
       /\ n < Len(h) /\ n + 1 <= Len(g) /\ b = g[n + 1] /\ Extends(g, h)
       /\ Tail(q) \o Kids(c, b) = Pending(c, n + 1)
  BY <1>8, <1>9 DEF AtBlock
<1>11. BredOf(b) = Kids(c, b) BY <1>1, <1>3, <1>10, SameChildren
<1>12. queue' = Pending(c, n + 1) BY <1>1, <1>7, <1>10, <1>11 DEF StoreBlock
<1>13. file' = Append(f, e) BY <1>1, <1>7, <1>9 DEF StoreBlock
<1>14. e \in Seq([Axes -> Int]) BY <1>9, <1>10, PointSeqFacts
<1>15. PICK k : k = Append(f, e) OBVIOUS
<1>16. /\ k \in Seq(Seq([Axes -> Int])) /\ Len(k) = n + 1 /\ k[n + 1] = e
       /\ \A i \in 1 .. n : k[i] = f[i]
  BY <1>1, <1>6, <1>14, <1>15, AppendProperties
<1>17. ASSUME NEW i \in 1 .. n + 1 PROVE k[i] = PointSeq(g[i])
  <2>1. CASE i = n + 1 BY <2>1, <1>9, <1>10, <1>16
  <2>2. CASE i # n + 1
    <3>1. i \in 1 .. n BY <2>2, <1>6
    <3>2. i \in 1 .. Len(h) /\ g[i] = h[i]
      <4>1. Len(h) \in Nat
        <5>1. PICK F : F = Found(c) OBVIOUS
        <5>2. FoundBy(F, c) BY <5>1, <1>4, FoundDef
        <5>3. F[n] \in Seq(Box) BY <5>2, <1>6 DEF FoundBy
        <5> QED BY <5>1, <5>3, <1>9
      <4>2. i \in 1 .. Len(h) BY <3>1, <4>1, <1>6, <1>10
      <4> QED BY <4>2, <1>10 DEF Extends
    <3> QED BY <3>1, <3>2, <1>6, <1>9, <1>16
  <2> QED BY <2>1, <2>2
<1>18. Written(c, k) BY <1>9, <1>10, <1>16, <1>17 DEF Written
<1>19. Written(cells', file') /\ queue' = Pending(cells', Len(file')) BY <1>2, <1>12, <1>13, <1>15, <1>16, <1>18
<1> QED BY <1>2, <1>5, <1>19 DEF FileInv, ReadBack

LEMMA StoredKeeps ==
  ASSUME TableInv, RootInv, FileInv, Stored
  PROVE  FileInv'
<1>1. PICK c, f, n : c = cells /\ f = file /\ n = Len(file) OBVIOUS
<1>2. phase = "store" /\ phase' = "read" /\ queue = << >> /\ queue' = <<RootBox>>
  BY DEF Stored
<1>3. cells' = c /\ val' = val /\ file' = f /\ read' = read BY <1>1 DEF Stored, treeVars
<1>4. Settled(cells, psplit, val) BY <1>2, SettledNow
<1>5. Closed(c) BY <1>1, <1>4 DEF Settled
<1>6. Written(c, f) /\ Pending(c, n) = << >> /\ read = << >> BY <1>1, <1>2 DEF FileInv
<1>7. Written(cells', file') /\ Pending(cells', Len(file')) = << >> BY <1>1, <1>3, <1>6
<1>8. Pending(c, 0) = <<RootBox>> /\ 0 <= Len(Found(c)[0]) BY <1>5, FirstPending
<1>9. DOMAIN << >> = {} /\ IsFiniteSet({}) /\ Cardinality({}) = 0 BY FS_EmptySet
<1>10. {Found(c)[0][i].path : i \in 1 .. 0} = {} OBVIOUS
<1>11. Rebuilt(c, val, << >>, 0) BY <1>8, <1>9, <1>10 DEF Rebuilt
<1>12. Rebuilt(cells', val', read', Cardinality(DOMAIN read')) /\ queue' = Pending(cells', Cardinality(DOMAIN read'))
  BY <1>2, <1>3, <1>6, <1>8, <1>9, <1>11
<1> QED BY <1>2, <1>7, <1>12 DEF FileInv, ReadBack
(* The reader never finds another point than the one it asks for. *)
LEMMA ReadKeeps ==
  ASSUME TableInv, RootInv, FileInv, ReadBlock
  PROVE  FileInv'
<1>1. PICK c, f, q, n, r, k, v :
        /\ c = cells /\ f = file /\ q = queue /\ n = Len(file)
        /\ r = read /\ k = Cardinality(DOMAIN read) /\ v = val
  OBVIOUS
<1>2. phase = "read" /\ q # << >> /\ cells' = c /\ val' = v /\ file' = f
  BY <1>1 DEF ReadBlock, treeVars
<1>3. Settled(cells, psplit, val) BY <1>2, SettledNow
<1>4. Closed(c) BY <1>1, <1>3 DEF Settled
<1>5. Written(c, f) /\ Pending(c, n) = << >> /\ Rebuilt(c, v, r, k) /\ q = Pending(c, k)
  BY <1>1, <1>2 DEF FileInv
<1>6. /\ n \in Nat /\ n <= Len(Found(c)[n]) /\ f \in Seq(Seq([Axes -> Int]))
      /\ \A i \in 1 .. n : f[i] = PointSeq(Found(c)[n][i])
  BY <1>1, <1>5 DEF Written
<1>7. /\ k <= Len(Found(c)[k]) /\ DOMAIN r = {Found(c)[k][i].path : i \in 1 .. k}
      /\ IsFiniteSet(DOMAIN r) /\ Cardinality(DOMAIN r) = k
      /\ \A p \in DOMAIN r : /\ p \in DOMAIN c /\ r[p].split = c[p].split
                             /\ r[p].seen = Values(BoxIn(c, p), v)
  BY <1>5 DEF Rebuilt
<1>8. k \in Nat BY <1>7, FS_CardinalityType
<1>9. PICK b, p : b = Head(q) /\ p = b.path OBVIOUS
<1>10. AtBlock(c, k, b, q) BY <1>2, <1>4, <1>5, <1>7, <1>8, <1>9, PendingFacts
<1>11. PICK g, h, e : g = Found(c)[k + 1] /\ h = Found(c)[k] /\ e = Found(c)[n] OBVIOUS
<1>12. /\ b \in Box /\ p \in DOMAIN c /\ b = BoxIn(c, p)
       /\ k < Len(h) /\ b = h[k + 1] /\ k + 1 <= Len(g) /\ b = g[k + 1] /\ Extends(g, h)
       /\ Tail(q) \o Kids(c, b) = Pending(c, k + 1)
  BY <1>9, <1>10, <1>11 DEF AtBlock
<1>13. Len(e) = n BY <1>4, <1>5, <1>6, <1>11, PendingFacts
<1>14. k <= n /\ (Len(h) = k => k = n) /\ Extends(e, h) BY <1>4, <1>6, <1>7, <1>8, <1>11, <1>13, SameEnd
<1>15. Len(h) \in Nat /\ Len(h) <= n
  <2>1. PICK F : F = Found(c) OBVIOUS
  <2>2. FoundBy(F, c) BY <2>1, <1>4, FoundDef
  <2>3. F[k] \in Seq(Box) BY <2>2, <1>8 DEF FoundBy
  <2> QED BY <2>1, <2>3, <1>11, <1>13, <1>14 DEF Extends
<1>16. k + 1 \in 1 .. n /\ k + 1 \in 1 .. Len(h) BY <1>6, <1>8, <1>12, <1>15
<1>17. e[k + 1] = b BY <1>12, <1>14, <1>16 DEF Extends
<1>18. f[k + 1] = PointSeq(b) BY <1>6, <1>11, <1>16, <1>17
<1>19. PICK one : one = [split |-> psplit[b.x], seen |-> Values(b, v)] OBVIOUS
<1>20. /\ phase' = phase
       /\ read' = [p1 \in DOMAIN r \cup {p} |-> IF p1 = p THEN one ELSE r[p1]]
       /\ queue' = Tail(q) \o Children(b, psplit[b.x])
  <2>1. k + 1 <= Len(file) /\ file[k + 1] = PointSeq(b) BY <1>1, <1>16, <1>18
  <2> QED BY <2>1, <1>1, <1>9, <1>19 DEF ReadBlock
<1>21. Children(b, psplit[b.x]) = Kids(c, b) BY <1>1, <1>3, <1>9, <1>12, SameChildren
<1>22. queue' = Pending(c, k + 1) BY <1>12, <1>20, <1>21
<1>23. one.split = c[p].split
  <2>1. b.x = c[p].x BY <1>12 DEF BoxIn
  <2>2. psplit[b.x] = c[p].split BY <2>1, <1>1, <1>3, <1>12 DEF Settled
  <2> QED BY <2>2, <1>19
<1>24. Listing(h, c, k)
  <2>1. PICK F : F = Found(c) OBVIOUS
  <2>2. FoundBy(F, c) BY <2>1, <1>4, FoundDef
  <2> QED BY <2>1, <2>2, <1>4, <1>8, <1>11, FoundLists
<1>25. p \notin DOMAIN r
  <2> SUFFICES ASSUME p \in DOMAIN r PROVE FALSE
    OBVIOUS
  <2>1. PICK i \in 1 .. k : h[i].path = p BY <1>7, <1>11
  <2>2. i \in 1 .. Len(h) /\ k + 1 \in 1 .. Len(h) /\ i # k + 1 BY <1>8, <1>15, <1>16
  <2>3. h[i].path = h[k + 1].path BY <2>1, <1>9, <1>12
  <2> QED BY <2>2, <2>3, <1>24 DEF Listing
<1>26. PICK d : d = DOMAIN r \cup {p} OBVIOUS
<1>27. DOMAIN read' = d BY <1>20, <1>26
<1>28. IsFiniteSet(d) /\ Cardinality(d) = k + 1 BY <1>7, <1>25, <1>26, FS_AddElement
<1>29. d = {g[i].path : i \in 1 .. k + 1}
  <2>1. \A i \in 1 .. k : i \in 1 .. Len(h) /\ g[i] = h[i] BY <1>8, <1>12, <1>15 DEF Extends
  <2>2. DOMAIN r = {g[i].path : i \in 1 .. k} BY <2>1, <1>7, <1>11
  <2>3. 1 .. k + 1 = (1 .. k) \cup {k + 1} BY <1>8
  <2>4. g[k + 1].path = p BY <1>9, <1>12
  <2> QED BY <2>2, <2>3, <2>4, <1>26
<1>30. ASSUME NEW p1 \in d
       PROVE  /\ p1 \in DOMAIN c /\ read'[p1].split = c[p1].split
              /\ read'[p1].seen = Values(BoxIn(c, p1), v)
  <2>1. CASE p1 = p
    <3>1. read'[p1] = one BY <2>1, <1>20, <1>26
    <3> QED BY <2>1, <3>1, <1>12, <1>19, <1>23
  <2>2. CASE p1 # p
    <3>1. p1 \in DOMAIN r /\ read'[p1] = r[p1] BY <2>2, <1>20, <1>26
    <3> QED BY <3>1, <1>7
  <2> QED BY <2>1, <2>2
<1>31. PICK s : s = read' OBVIOUS
<1>32. Rebuilt(c, v, s, k + 1)
  <2>1. DOMAIN s = d /\ IsFiniteSet(DOMAIN s) /\ Cardinality(DOMAIN s) = k + 1 BY <1>27, <1>28, <1>31
  <2>2. DOMAIN s = {Found(c)[k + 1][i].path : i \in 1 .. k + 1} BY <2>1, <1>11, <1>29
  <2> QED BY <2>1, <2>2, <1>11, <1>12, <1>30, <1>31 DEF Rebuilt
<1>33. Cardinality(DOMAIN read') = k + 1 BY <1>27, <1>28
<1>34. Written(cells', file') /\ Pending(cells', Len(file')) = << >> BY <1>1, <1>2, <1>5
<1>35. Rebuilt(cells', val', read', Cardinality(DOMAIN read')) /\ queue' = Pending(cells', Cardinality(DOMAIN read'))
  BY <1>2, <1>22, <1>31, <1>32, <1>33
<1>36. phase' = "read" BY <1>2, <1>20
<1> QED BY <1>34, <1>35, <1>36 DEF FileInv, ReadBack

LEMMA LoadedKeeps ==
  ASSUME TableInv, RootInv, FileInv, Loaded
  PROVE  FileInv'
<1>1. PICK c, f, n, r, k, v :
        /\ c = cells /\ f = file /\ n = Len(file)
        /\ r = read /\ k = Cardinality(DOMAIN read) /\ v = val
  OBVIOUS
<1>2. phase = "read" /\ queue = << >> /\ phase' = "done" BY DEF Loaded
<1>3. cells' = c /\ val' = v /\ file' = f /\ read' = r /\ skipped' = skipped
  BY <1>1 DEF Loaded, treeVars, fileVars
<1>4. Settled(cells, psplit, val) BY <1>2, SettledNow
<1>5. Closed(c) BY <1>1, <1>4 DEF Settled
<1>6. Written(c, f) /\ Pending(c, n) = << >> /\ Rebuilt(c, v, r, k) /\ Pending(c, k) = << >>
  BY <1>1, <1>2 DEF FileInv
<1>7. n \in Nat /\ n <= Len(Found(c)[n]) BY <1>1, <1>6 DEF Written
<1>8. /\ k <= Len(Found(c)[k]) /\ DOMAIN r = {Found(c)[k][i].path : i \in 1 .. k}
      /\ IsFiniteSet(DOMAIN r) /\ Cardinality(DOMAIN r) = k
      /\ \A p \in DOMAIN r : /\ r[p].split = c[p].split /\ r[p].seen = Values(BoxIn(c, p), v)
  BY <1>6 DEF Rebuilt
<1>9. k \in Nat BY <1>8, FS_CardinalityType
<1>10. Len(Found(c)[n]) = n BY <1>5, <1>6, <1>7, PendingFacts
<1>11. Len(Found(c)[k]) = k BY <1>5, <1>6, <1>8, <1>9, PendingFacts
<1>12. k = n BY <1>5, <1>7, <1>8, <1>9, <1>10, <1>11, SameEnd
<1>13. DOMAIN c = DOMAIN r
  <2>1. PICK F, s : F = Found(c) /\ s = F[k] OBVIOUS
  <2>2. FoundBy(F, c) BY <2>1, <1>5, FoundDef
  <2>3. Listing(s, c, k) BY <2>1, <2>2, <1>5, <1>9, FoundLists
  <2>4. Len(s) = k /\ Len(s) <= k BY <2>1, <1>9, <1>11
  <2>5. Lists(s, c) BY <2>3, <2>4, <1>5, <1>9, AllListed
  <2> QED BY <2>1, <2>4, <2>5, <1>8 DEF Lists
<1>14. \A p \in DOMAIN c : p \notin skipped => c[p].seen = Values(BoxIn(c, p), v)
  <2>1. refresh = {} /\ FreshInv BY <1>2 DEF TableInv, ListInv
  <2> QED BY <2>1, <1>1 DEF FreshInv, FreshIn
<1>15. \A p \in DOMAIN c : r[p].split = c[p].split /\ (p \notin skipped => r[p].seen = c[p].seen)
  BY <1>8, <1>13, <1>14
<1>16. ReadBack' BY <1>1, <1>2, <1>3, <1>8, <1>12, <1>13, <1>15 DEF ReadBack
<1>17. Written(cells', file') /\ Pending(cells', Len(file')) = << >> BY <1>1, <1>3, <1>6
<1> QED BY <1>2, <1>16, <1>17 DEF FileInv
LEMMA InitFile ==
  ASSUME Init PROVE FileInv
BY DEF Init, FileInv, ReadBack

LEMMA FileStep ==
  ASSUME TableInv, RootInv, FileInv, [Next]_vars
  PROVE  FileInv'
<1>1. ASSUME UNCHANGED fileVars, phase \in {"pass", "refresh"}, phase' \in {"pass", "refresh"}
      PROVE  FileInv'
  <2>1. file' = << >> /\ read' = << >> BY <1>1 DEF FileInv, fileVars
  <2> QED BY <2>1, <1>1 DEF FileInv, ReadBack
<1>2. TypeInv /\ ListInv /\ BuildInv BY DEF TableInv
<1>3. CASE AddPoint \/ Complete
  <2>1. UNCHANGED fileVars /\ UNCHANGED phase /\ cur # NoBox BY <1>3 DEF AddPoint, Complete
  <2>2. phase = "pass" BY <2>1, <1>2 DEF BuildInv
  <2> QED BY <2>1, <2>2, <1>1
<1>4. CASE NoChange BY <1>4, <1>1 DEF NoChange
<1>5. CASE Breed BY <1>5, <1>1 DEF Breed
<1>6. CASE EndPass BY <1>6, <1>1 DEF EndPass
<1>7. CASE \E b \in refresh : Refresh(b) \/ Revive(b) BY <1>7, <1>1 DEF Refresh, Revive
<1>8. CASE Resume
  <2>1. CASE phase' = "store"
    <3>1. PICK c : c = cells OBVIOUS
    <3>2. Settled(cells, psplit, val) BY <1>8, <2>1, SettledThen
    <3>3. Closed(c) BY <3>1, <3>2 DEF Settled
    <3>4. Pending(c, 0) = <<RootBox>> /\ 0 <= Len(Found(c)[0]) BY <3>3, FirstPending
    <3>5. phase = "refresh" /\ cells' = c /\ file' = file /\ read' = read BY <3>1, <1>8 DEF Resume
    <3>6. file' = << >> /\ read' = << >> BY <3>5 DEF FileInv
    <3>7. queue' = <<RootBox>> BY <1>8, <2>1 DEF Resume
    <3>8. << >> \in Seq(Seq([Axes -> Int])) /\ Len(<< >>) = 0 /\ 1 .. 0 = {} OBVIOUS
    <3>9. Written(c, << >>) BY <3>4, <3>8 DEF Written
    <3>10. Written(cells', file') /\ queue' = Pending(cells', Len(file')) BY <3>4, <3>5, <3>6, <3>7, <3>8, <3>9
    <3> QED BY <2>1, <3>6, <3>10 DEF FileInv, ReadBack
  <2>2. CASE phase' # "store"
    <3>1. phase = "refresh" /\ phase' = "pass" /\ UNCHANGED fileVars
      BY <1>8, <2>2 DEF Resume, fileVars
    <3> QED BY <3>1, <1>1
  <2> QED BY <2>1, <2>2
<1>9. CASE StoreBlock BY <1>9, StoreKeeps
<1>10. CASE Stored BY <1>10, StoredKeeps
<1>11. CASE ReadBlock BY <1>11, ReadKeeps
<1>12. CASE Loaded BY <1>12, LoadedKeeps
<1>13. CASE Finished \/ UNCHANGED vars
  <2>1. UNCHANGED <<val, cells, skipped, phase, queue, file, read>> BY <1>13 DEF Finished, vars
  <2> QED BY <2>1 DEF FileInv, ReadBack
<1> QED BY <1>3, <1>4, <1>5, <1>6, <1>7, <1>8, <1>9, <1>10, <1>11, <1>12, <1>13 DEF Next
-----------------------------------------------------------------------------
LEMMA Invariant == Spec => []IInv
<1>1. Init => IInv BY InitTable, InitFile DEF IInv
<1>2. IInv /\ [Next]_vars => IInv' BY TableStep, RootStep, FileStep DEF IInv
<1> QED BY <1>1, <1>2, PTL DEF Spec

LEMMA BoxOfIs ==
  ASSUME NEW p PROVE BoxOf(p) = BoxIn(cells, p)
BY DEF BoxOf, BoxIn

LEMMA TypesHold == ASSUME IInv PROVE TypeOK
<1>1. TypeInv /\ CellsOK(cells, val) /\ ListInv BY DEF IInv, TableInv
<1>2. DOMAIN val \subseteq Point /\ \A p \in DOMAIN val : val[p] \in 0 .. V BY <1>1 DEF TypeInv, ValOK
<1>3. DOMAIN psplit = DOMAIN val /\ \A p \in DOMAIN psplit : psplit[p] \in Axes \cup {None}
  BY <1>1 DEF TypeInv
<1>4. ASSUME NEW p \in DOMAIN cells
      PROVE  /\ IsPath(p) /\ (\A ix \in Axes : cells[p].w[ix] > 0) /\ cells[p].split \in Axes \cup {None}
             /\ PointSet(BoxOf(p)) \subseteq DOMAIN val
             /\ DOMAIN cells[p].seen = PointSet(BoxOf(p))
  <2>1. Tree(cells) /\ p \in Path /\ CellOK(cells, p, val) BY <1>1, CellFacts
  <2>2. IsPath(p) BY <2>1 DEF IsPath, Path
  <2>3. \A ix \in Axes : cells[p].w[ix] > 0 BY <2>1, TreeFacts
  <2> QED BY <2>1, <2>2, <2>3, BoxOfIs DEF CellOK
<1>5. ToSet(newborn) \cup refresh \cup skipped \subseteq DOMAIN cells BY <1>1 DEF TypeInv, ListInv
<1>6. phase # "refresh" => ToSet(active) \subseteq DOMAIN cells BY <1>1 DEF ListInv
<1> QED BY <1>1, <1>2, <1>3, <1>4, <1>5, <1>6 DEF TypeOK, TypeInv

LEMMA ShapeHolds == ASSUME IInv PROVE TreeInv
<1>1. ShapeInv /\ CellsOK(cells, val) /\ BuildInv /\ CentresOK(cells, psplit, DOMAIN val)
  BY DEF IInv, TableInv
<1>2. ASSUME NEW p \in DOMAIN cells, Waiting(p) PROVE ~Bred(p)
  BY <1>1, <1>2 DEF ShapeInv, ShapeAt, BredIn, Bred
<1>3. ASSUME NEW p \in DOMAIN cells, ~Waiting(p)
      PROVE  /\ psplit[cells[p].x] = cells[p].split
             /\ cells[p].split = None => ~Bred(p)
             /\ cells[p].split # None /\ ~CurBelow(p) =>
                  \A o \in {0, 1} : Append(p, <<cells[p].split, o>>) \in DOMAIN cells
  <2>1. psplit[cells[p].x] = cells[p].split BY <1>1 DEF CentresOK
  <2>2. cells[p].split = None => ~Bred(p) BY <1>1, <1>3 DEF ShapeInv, ShapeAt, BredIn, Bred
  <2>3. ASSUME BuildingFor(p) PROVE CurBelow(p)
    <3>1. cur # NoBox /\ cur.path # << >> /\ Parent(cur.path) = p BY <2>3 DEF BuildingFor
    <3>2. cur.path \in Path BY <3>1, <1>1, GoodFacts DEF BuildInv
    <3>3. Below(cur.path, p) BY <3>1, <3>2, BelowItsParent
    <3> QED BY <3>1, <3>3 DEF CurBelow
  <2>4. ASSUME cells[p].split # None, ~CurBelow(p)
        PROVE  \A o \in {0, 1} : Append(p, <<cells[p].split, o>>) \in DOMAIN cells
    BY <1>1, <1>3, <2>3, <2>4 DEF ShapeInv, ShapeAt, Child
  <2> QED BY <2>1, <2>2, <2>4
<1> QED BY <1>2, <1>3 DEF TreeInv

LEMMA FreshHolds == ASSUME IInv PROVE UpToDate
<1> SUFFICES ASSUME phase = "store", NEW p \in DOMAIN cells \ skipped
             PROVE  Fresh(p) /\ cells[p].split = NewSplit(p)
  BY DEF UpToDate
<1>1. ListInv /\ FreshInv BY DEF IInv, TableInv
<1>2. active = << >> /\ newborn = << >> /\ refresh = {} /\ cur = NoBox BY <1>1 DEF ListInv
<1>3. ToSet(active) = {} /\ ToSet(newborn) = {} BY <1>2, ListEmpty DEF IsList
<1>4. FreshIn(cells, p, val) BY <1>1, <1>2 DEF FreshInv
<1>5. cells[p].split = Asked(cells, p) BY <1>1, <1>2, <1>3 DEF FreshInv, Waiting, Fledgling
<1> QED BY <1>4, <1>5, BoxOfIs DEF Fresh, FreshIn, NewSplit, Asked

(* The points, their values and split axes, the blocks and the lists of      *)
(* spring() stay what they are declared to be: every point lies in the box   *)
(* of the table and has room for the next halving, a live block has all its  *)
(* points, and no list keeps a block that was killed, except active_blocks   *)
(* while refresh_blocks is worked off.                                       *)
THEOREM TypeCorrect == Spec => []TypeOK
BY Invariant, TypesHold, PTL

(* Whatever corrections do while the table grows, the tree, the split axes   *)
(* of its blocks and those kept with the centre points agree: a block that   *)
(* waits for breed() has no children (the assertion of breed), any other has *)
(* two on its own axis or none.                                              *)
THEOREM TreeKept == Spec => []TreeInv
BY Invariant, ShapeHolds, PTL

(* When spring() is over, every block that was not erased from refresh_blocks *)
(* as an active one has its error from the values as they are, and the split *)
(* this error asks for.                                                      *)
THEOREM SpringDone == Spec => []UpToDate
BY Invariant, FreshHolds, PTL

(* The constructor that reads a stored table finds every point where it asks *)
(* for it, so its assertion never fires, and has in the end rebuilt the      *)
(* stored tree from the whole of the file.                                   *)
THEOREM FileReadBack == Spec => []ReadBack
<1>1. IInv => ReadBack BY DEF IInv, FileInv
<1> QED BY <1>1, Invariant, PTL
=================================================================================
