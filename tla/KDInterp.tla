------------------------------ MODULE KDInterp ------------------------------
(***************************************************************************)
(* The adaptive k-d table of KDInterp.cc: the constructor that samples a   *)
(* function (spring and what it calls), store_table, and the constructor   *)
(* that rebuilds the same tree from the file.                              *)
(*                                                                         *)
(* A block (KDValueSide) halves itself along one axis when the linear fit  *)
(* through its side points is not good enough.  Every new point runs a     *)
(* correction that may lower the values of neighbouring points, so blocks  *)
(* that are already complete must be looked at again: they go to           *)
(* refresh_blocks, and spring() revives those whose split changes, killing *)
(* the subtree they had.                                                   *)
(*                                                                         *)
(* Abstractions.  Relative coordinates are integers, Unit = 2^MaxHalv to   *)
(* the half width of the root (they are dyadic in the code, so exact).     *)
(* Values are small naturals, the magnitude of the sampled distance.  A    *)
(* block is named by the halvings that lead to it; killed blocks, which    *)
(* the code keeps in dead_children and never uses again, are dropped.      *)
(* What linear_eval and count_err cache (k, c, err, errmax) is a function  *)
(* of the values of the block's points, so the cache is those values, as   *)
(* refresh_err last saw them.                                              *)
(***************************************************************************)
EXTENDS Integers, Sequences, FiniteSets, SequencesExt, FiniteSetsExt

CONSTANTS Dim,           \* index.dim
          MaxHalv,       \* halvings per axis the coordinates have room for
          V,             \* values are 0 .. V
          Tol2,          \* twice norm_tol, per axis
          LevelDepths,   \* level_depths, per axis
          IxSplit0,      \* ix_split0
          FuncVals(_),   \* the values the function may have at a point
          MaxCorr        \* points one correction may change

Pow2[n \in Nat] == IF n = 0 THEN 1 ELSE 2 * Pow2[n - 1]

Axes == 0 .. Dim - 1
None == -1
Unit == Pow2[MaxHalv]
Coord == -Unit .. Unit
Point == [Axes -> Coord]

ASSUME ConstantsAssumption ==
  /\ Dim \in Nat \ {0} /\ MaxHalv \in Nat /\ V \in Nat /\ MaxCorr \in Nat
  /\ Tol2 \in [Axes -> Nat \ {0}] /\ LevelDepths \in [Axes -> Nat]
  /\ IxSplit0 \in Axes

ASSUME FuncAssumption == \A p \in Point : FuncVals(p) \subseteq 0 .. V

(* The coordinates have room for as many halvings as the splitting rule can  *)
(* ask for: after M halvings an axis is neither coarse nor, by what values   *)
(* up to V can differ, off by more than its tolerance, which doubles with    *)
(* every halving.                                                            *)
Enough(M) == \A ix \in Axes : LevelDepths[ix] <= M /\ (Dim + 1) * V <= Tol2[ix] * Pow2[M]

ASSUME RoomAssumption == \E M \in 1 .. MaxHalv : Dim * M <= MaxHalv /\ Enough(M)

VARIABLES val,       \* tab: the value of every point made so far
          psplit,    \* KDPoint::ix_split of every point
          cells,     \* the live, complete blocks: [x, w, split, seen]
          cur,       \* the block under construction, or NoBox
          active,    \* active_blocks of spring()
          newborn,   \* new_active_blocks of pass_through()
          lmin,      \* level_min of pass_through()
          refresh,   \* refresh_blocks
          skipped,   \* history: blocks taken off refresh_blocks unrefreshed
          phase,     \* where the program is
          queue,     \* the breadth first list of store_table and of the reader
          file,      \* orders of the table file, block by block
          read       \* the tree the reader has rebuilt

vars == <<val, psplit, cells, cur, active, newborn, lmin, refresh, skipped,
          phase, queue, file, read>>
treeVars == <<val, psplit, cells, cur, active, newborn, lmin, refresh, skipped>>
fileVars == <<queue, file, read>>
-----------------------------------------------------------------------------
(* Geometry.  A box is a block to be built: its name, centre and width. *)

RootBox == [path |-> << >>, x |-> [ix \in Axes |-> 0], w |-> [ix \in Axes |-> Unit]]
NoBox   == [path |-> <<<<None, None>>>>, x |-> RootBox.x, w |-> RootBox.w]

Half(b, ix, order) ==
  LET w == b.w[ix] \div 2
  IN [path |-> Append(b.path, <<ix, order>>),
      x |-> [b.x EXCEPT ![ix] = @ + (2 * order - 1) * w],
      w |-> [b.w EXCEPT ![ix] = w]]

Level(path)  == Len(path)
Below(p, q)  == Len(p) > Len(q) /\ SubSeq(p, 1, Len(q)) = q     \* is_ancestor_of(q, p)
Parent(path) == Front(path)
Side(path)   == Last(path)[2]

(* index i of a corner is its bit vector: bit ix chooses xmin or xmax. *)
Bit(i, ix)   == (i \div Pow2[ix]) % 2
Corner(b, i) == [ix \in Axes |-> b.x[ix] + (2 * Bit(i, ix) - 1) * b.w[ix]]
SideOf(b, ix, o) == [b.x EXCEPT ![ix] = @ + (2 * o - 1) * b.w[ix]]

Corners(b) == [i \in 1 .. Pow2[Dim] |-> Corner(b, i - 1)]
Sides(b)   == [i \in 1 .. 2 * Dim |-> SideOf(b, (i - 1) \div 2, (i - 1) % 2)]

(* init_points asks for the centre, the corners and the sides in this order. *)
PointSeq(b) == <<b.x>> \o Corners(b) \o Sides(b)
PointSet(b) == ToSet(PointSeq(b))
-----------------------------------------------------------------------------
(* get_ix_split, from the cached values s of the points of block b *)

Abs(n) == IF n < 0 THEN -n ELSE n

Halvings(path, ix) == Cardinality({k \in 1 .. Len(path) : path[k][1] = ix})
TolLocal(b, ix)    == Tol2[ix] * Pow2[Halvings(b.path, ix)]

Err2(b, s, ix) == Abs(2 * s[b.x] - s[SideOf(b, ix, 0)] - s[SideOf(b, ix, 1)])

(* 2 * Dim * |val - eval(x)| at corner i of the linear fit through the sides *)
CornerErr(b, s, i) ==
  LET fit(ix) == s[SideOf(b, ix, 0)] + s[SideOf(b, ix, 1)]
                 + Dim * (2 * Bit(i, ix) - 1) * (s[SideOf(b, ix, 1)] - s[SideOf(b, ix, 0)])
      sum[k \in 0 .. Dim] == IF k = 0 THEN 0 ELSE sum[k - 1] + fit(k - 1)
  IN Abs(2 * Dim * s[Corner(b, i)] - sum[Dim])

Coarse(b, ix) == LevelDepths[ix] > Halvings(b.path, ix)

FirstAxis(b) == IF b.path = << >> THEN IxSplit0 ELSE Last(b.path)[1] + 1

WantsAxis(b, s, ix) == Coarse(b, ix) \/ Err2(b, s, ix) > TolLocal(b, ix)

CornersOff(b, s) ==
  \E i \in 0 .. Pow2[Dim] - 1 : CornerErr(b, s, i) > Dim * Min({TolLocal(b, ix) : ix \in Axes})

MutSplitOf(b, s) ==     \* the axis is not taken modulo the dimension
  LET ix0   == FirstAxis(b)
      wants == {ix \in ix0 .. ix0 + Dim - 1 : WantsAxis(b, s, ix % Dim)}
  IN IF wants # {} THEN Min(wants)
     ELSE IF CornersOff(b, s) THEN ix0 ELSE None

SplitOf(b, s) ==
  LET ix0   == FirstAxis(b)
      wants == {ix \in ix0 .. ix0 + Dim - 1 : WantsAxis(b, s, ix % Dim)}
  IN IF wants # {} THEN Min(wants) % Dim
     ELSE IF CornersOff(b, s) THEN ix0 % Dim ELSE None

BoxOf(path) == [path |-> path, x |-> cells[path].x, w |-> cells[path].w]
NewSplit(path) == SplitOf(BoxOf(path), cells[path].seen)

(* refresh_err: the values of the block's points as they are now *)
Values(b, v) == [p \in PointSet(b) |-> v[p]]
-----------------------------------------------------------------------------
(* get_val: the point, its correction, and the blocks to refresh *)

(* Nearest neighbours of p along an axis, among the points made. *)
Between(q, p, r, ix) ==
  \/ p[ix] < q[ix] /\ q[ix] < r[ix]
  \/ r[ix] < q[ix] /\ q[ix] < p[ix]

SameLine(p, q, ix) == \A j \in Axes \ {ix} : p[j] = q[j]

Adjacent(p, q, pts) ==
  \E ix \in Axes :
    /\ p # q /\ SameLine(p, q, ix)
    /\ \A r \in pts : SameLine(p, r, ix) => ~Between(r, p, q, ix)

Connected(F, p, pts) ==
  \A S \in (SUBSET F) \ {{}} : \E q \in S, r \in (F \cup {p}) \ S : Adjacent(q, r, pts)

(* A correction started at p may lower points reached from p over changed    *)
(* neighbours.  (Lowering p itself is another choice of its value.)          *)
Corrections(p) ==
  LET pts == DOMAIN val \cup {p}
      Fs  == {F \in UNION {kSubset(k, {q \in DOMAIN val : val[q] > 0}) : k \in 0 .. MaxCorr} :
                Connected(F, p, pts)}
  IN UNION {{f \in [F -> 0 .. V] : \A q \in F : f[q] < val[q]} : F \in Fs}

MutAffected(changed) == {}     \* refresh_blocks.insert forgotten
Affected(changed) == {path \in DOMAIN cells : PointSet(BoxOf(path)) \cap changed # {}}

Extend(f, p, v) == [q \in DOMAIN f \cup {p} |-> IF q = p THEN v ELSE f[q]]
Missing(b) == {i \in 1 .. Len(PointSeq(b)) : PointSeq(b)[i] \notin DOMAIN val}
NewPoint == PointSeq(cur)[Min(Missing(cur))]

AddPoint ==
  /\ cur # NoBox /\ Missing(cur) # {}
  /\ LET p == NewPoint
     IN \E v \in FuncVals(p), c \in Corrections(p) :
          /\ val' = Extend([q \in DOMAIN val |-> IF q \in DOMAIN c THEN c[q] ELSE val[q]], p, v)
          /\ psplit' = Extend(psplit, p, None)
          /\ refresh' = refresh \cup Affected(DOMAIN c)
  /\ UNCHANGED <<cells, cur, active, newborn, lmin, skipped, phase, fileVars>>

(* The end of the constructor of a block; breed() builds child 1 after child *)
(* 0 and returns, the root is built before spring() starts.                  *)
AddCell(b) ==
  LET c == [x |-> b.x, w |-> b.w, split |-> None, seen |-> Values(b, val)]
  IN [p \in DOMAIN cells \cup {b.path} |-> IF p = b.path THEN c ELSE cells[p]]

Complete ==
  /\ cur # NoBox /\ Missing(cur) = {}
  /\ cells' = AddCell(cur)
  /\ CASE cur.path = << >> ->
            cur' = NoBox /\ active' = <<cur.path>> /\ lmin' = 0 /\ UNCHANGED newborn
       [] cur.path # << >> /\ Side(cur.path) = 0 ->
            /\ LET up == Parent(cur.path) IN cur' = Half(BoxOf(up), cells[up].split, 1)
            /\ UNCHANGED <<active, newborn, lmin>>
       [] cur.path # << >> /\ Side(cur.path) = 1 ->
            /\ cur' = NoBox
            /\ newborn' = newborn \o <<Append(Parent(cur.path), <<Last(cur.path)[1], 0>>), cur.path>>
            /\ UNCHANGED <<active, lmin>>
  /\ UNCHANGED <<val, psplit, refresh, skipped, phase, fileVars>>
-----------------------------------------------------------------------------
(* spring() *)

Due == SelectInSeq(active, LAMBDA p : Level(p) = lmin)

(* pass_through: the next block of the lowest level breeds and is erased. *)
Next0 == active[Due]

Drop == active' = RemoveAt(active, Due)

MutNoChange ==     \* the block is not erased from the list
  /\ phase = "pass" /\ cur = NoBox /\ Due # 0
  /\ NewSplit(Next0) = cells[Next0].split
  /\ UNCHANGED vars

NoChange ==
  /\ phase = "pass" /\ cur = NoBox /\ Due # 0
  /\ NewSplit(Next0) = cells[Next0].split
  /\ Drop
  /\ UNCHANGED <<val, psplit, cells, cur, newborn, lmin, refresh, skipped, phase, fileVars>>

Breed ==
  /\ phase = "pass" /\ cur = NoBox /\ Due # 0
  /\ NewSplit(Next0) # cells[Next0].split
  /\ Drop
  /\ LET s == NewSplit(Next0)
     IN /\ cells' = [cells EXCEPT ![Next0].split = s]
        /\ psplit' = [psplit EXCEPT ![cells[Next0].x] = s]
        /\ cur' = IF s = None THEN NoBox ELSE Half(BoxOf(Next0), s, 0)
  /\ UNCHANGED <<val, newborn, lmin, refresh, skipped, phase, fileVars>>

(* The list is worked off: the new blocks join the active ones, and active   *)
(* blocks are taken off refresh_blocks.                                      *)
MutToRefresh(list) == refresh     \* active blocks are refreshed as well
ToRefresh(list) == refresh \ ToSet(list)

EndPass ==
  /\ phase = "pass" /\ cur = NoBox /\ Due = 0
  /\ LET list == active \o newborn
     IN active' = list /\ refresh' = ToRefresh(list)
        /\ skipped' = skipped \cup (refresh \cap ToSet(list))
  /\ newborn' = << >>
  /\ phase' = "refresh"
  /\ UNCHANGED <<val, psplit, cells, cur, lmin, fileVars>>

(* One iteration of the loop over refresh_blocks, a set of addresses, so in  *)
(* any order.  A block whose split changes is revived and what its children  *)
(* lead to is killed; killed blocks still to come change nothing.            *)
Killed(b) == {d \in DOMAIN cells : Below(d, b)}

Centres(dead) == {cells[d].x : d \in dead}

MutReset(dead) == psplit     \* kill() leaves ix_split of the centre
Reset(dead) ==
  LET mids == Centres(dead) IN [p \in DOMAIN psplit |-> IF p \in mids THEN None ELSE psplit[p]]

Refreshed(b) == [cells EXCEPT ![b].seen = Values(BoxOf(b), val)]

StillSplit(b) == SplitOf(BoxOf(b), Values(BoxOf(b), val)) = cells[b].split

Refresh(b) ==
  /\ phase = "refresh" /\ b \in refresh
  /\ StillSplit(b)
  /\ cells' = Refreshed(b)
  /\ refresh' = refresh \ {b} /\ skipped' = skipped \ {b}
  /\ UNCHANGED <<val, psplit, cur, active, newborn, lmin, phase, fileVars>>

Revive(b) ==
  /\ phase = "refresh" /\ b \in refresh
  /\ ~StillSplit(b)
  /\ active' = Append(active, b)
  /\ LET dead == Killed(b)
     IN /\ cells' = Restrict(Refreshed(b), DOMAIN cells \ dead)
        /\ psplit' = Reset(dead)
        /\ refresh' = refresh \ (dead \cup {b}) /\ skipped' = skipped \ (dead \cup {b})
  /\ UNCHANGED <<val, cur, newborn, lmin, phase, fileVars>>

(* Killed blocks leave the list; the next pass, or the end of spring(). *)
Alive(list) ==
  LET alive[k \in 0 .. Len(list)] ==
        IF k = 0 THEN << >>
        ELSE IF list[k] \in DOMAIN cells THEN Append(alive[k - 1], list[k]) ELSE alive[k - 1]
  IN alive[Len(list)]

Resume ==
  /\ phase = "refresh" /\ refresh = {}
  /\ active' = Alive(active)
  /\ IF active' = << >>
       THEN phase' = "store" /\ queue' = <<RootBox>> /\ UNCHANGED lmin
       ELSE phase' = "pass" /\ lmin' = Min({Level(p) : p \in ToSet(active')}) /\ UNCHANGED queue
  /\ UNCHANGED <<val, psplit, cells, cur, newborn, refresh, skipped, file, read>>
-----------------------------------------------------------------------------
(* store_table, then the constructor that reads the table *)

Children(b, s) == IF s = None THEN << >> ELSE <<Half(b, s, 0), Half(b, s, 1)>>

(* b->children: those in the tree *)
InTree(c) == IF c.path \in DOMAIN cells THEN <<c>> ELSE << >>
BredOf(b) ==
  LET s == cells[b.path].split
  IN IF s = None THEN << >> ELSE InTree(Half(b, s, 0)) \o InTree(Half(b, s, 1))

MutStoreBlock ==     \* the children before the rest of the level
  /\ phase = "store" /\ queue # << >>
  /\ file' = Append(file, PointSeq(Head(queue)))
  /\ queue' = BredOf(Head(queue)) \o Tail(queue)
  /\ UNCHANGED <<treeVars, phase, read>>

StoreBlock ==
  /\ phase = "store" /\ queue # << >>
  /\ file' = Append(file, PointSeq(Head(queue)))
  /\ queue' = Tail(queue) \o BredOf(Head(queue))
  /\ UNCHANGED <<treeVars, phase, read>>

Stored ==
  /\ phase = "store" /\ queue = << >>
  /\ phase' = "read" /\ queue' = <<RootBox>>
  /\ UNCHANGED <<treeVars, file, read>>

(* get_val in read_mode takes the next points of the file and asserts that   *)
(* they are where the block expects them; breed() takes ix_split of the      *)
(* centre.  Values and ix_split of a point are stored with the point.        *)
ReadBlock ==
  /\ phase = "read" /\ queue # << >>
  /\ LET b == Head(queue)
         n == Cardinality(DOMAIN read) + 1
     IN IF n <= Len(file) /\ file[n] = PointSeq(b)
          THEN /\ read' = [p \in DOMAIN read \cup {b.path} |->
                             IF p = b.path THEN [split |-> psplit[b.x], seen |-> Values(b, val)]
                             ELSE read[p]]
               /\ queue' = Tail(queue) \o Children(b, psplit[b.x])
               /\ UNCHANGED phase
          ELSE phase' = "aborted" /\ UNCHANGED <<queue, read>>
  /\ UNCHANGED <<treeVars, file>>

Loaded ==
  /\ phase = "read" /\ queue = << >>
  /\ phase' = "done"
  /\ UNCHANGED <<treeVars, fileVars>>

Finished == phase \in {"done", "aborted"} /\ UNCHANGED vars
-----------------------------------------------------------------------------
Init ==
  /\ val = << >> /\ psplit = << >> /\ cells = << >>
  /\ cur = RootBox
  /\ active = << >> /\ newborn = << >> /\ lmin = 0
  /\ refresh = {} /\ skipped = {}
  /\ phase = "pass"
  /\ queue = << >> /\ file = << >> /\ read = << >>

Next == \/ AddPoint \/ Complete \/ NoChange \/ Breed \/ EndPass
        \/ (\E b \in refresh : Refresh(b) \/ Revive(b)) \/ Resume
        \/ StoreBlock \/ Stored \/ ReadBlock \/ Loaded \/ Finished

Spec == Init /\ [][Next]_vars

(* One thread, no waiting: the program runs on. *)
FairSpec == Spec /\ WF_vars(Next)
-----------------------------------------------------------------------------
IsPath(p) == \A k \in 1 .. Len(p) : p[k] \in Axes \X {0, 1}

TypeOK ==
  /\ DOMAIN val \subseteq Point /\ \A p \in DOMAIN val : val[p] \in 0 .. V
  /\ DOMAIN psplit = DOMAIN val /\ \A p \in DOMAIN psplit : psplit[p] \in Axes \cup {None}
  /\ \A p \in DOMAIN cells :
       /\ IsPath(p) /\ (\A ix \in Axes : cells[p].w[ix] > 0) /\ cells[p].split \in Axes \cup {None}
       /\ PointSet(BoxOf(p)) \subseteq DOMAIN val
       /\ DOMAIN cells[p].seen = PointSet(BoxOf(p))
  /\ ToSet(newborn) \cup refresh \cup skipped \subseteq DOMAIN cells
  /\ phase # "refresh" => ToSet(active) \subseteq DOMAIN cells
  /\ phase \in {"pass", "refresh", "store", "read", "done", "aborted"}

Waiting(p) == p \in ToSet(active)
Bred(p) == \E q \in DOMAIN cells : Below(q, p)
CurBelow(p) == cur # NoBox /\ Below(cur.path, p)

(* The tree, the split axes of its blocks and those of their centre points,  *)
(* which is all that is stored, say the same: a block that waits for         *)
(* breed() has no children (the assertion of breed), any other has two       *)
(* children along its own axis or none, and its centre carries that axis.    *)
(* However often corrections kill and revive blocks around it.               *)
TreeInv ==
  \A p \in DOMAIN cells :
    IF Waiting(p) THEN ~Bred(p)
    ELSE /\ psplit[cells[p].x] = cells[p].split
         /\ cells[p].split = None => ~Bred(p)
         /\ cells[p].split # None /\ ~CurBelow(p) =>
              \A o \in {0, 1} : Append(p, <<cells[p].split, o>>) \in DOMAIN cells

(* When spring() is over, every block that was not taken off refresh_blocks  *)
(* unrefreshed has its error from the values as they are and the split that  *)
(* this error asks for, although corrections lowered values all over the     *)
(* table after it was built.                                                 *)
Fresh(p) == cells[p].seen = Values(BoxOf(p), val)

UpToDate ==
  phase = "store" =>
    \A p \in DOMAIN cells \ skipped : Fresh(p) /\ cells[p].split = NewSplit(p)

(* Reading the stored table never trips over its assertion and rebuilds the  *)
(* tree that was stored, block by block with the same splits, using every    *)
(* block of the file; blocks that were not skipped interpolate alike.        *)
ReadBack ==
  /\ phase # "aborted"
  /\ phase = "done" =>
       /\ DOMAIN read = DOMAIN cells /\ Len(file) = Cardinality(DOMAIN cells)
       /\ \A p \in DOMAIN cells : /\ read[p].split = cells[p].split
                                  /\ p \notin skipped => read[p].seen = cells[p].seen

(* A correction terminates: spring() comes to an end whatever the function   *)
(* and the corrections are, and the table is stored and read.                *)
Termination == <>(phase = "done")

(* What erasing the active blocks relies on ("to avoid the multiple dealing  *)
(* of the active blocks"): they are dealt with anyway, so that in the end    *)
(* every block is up to date.                                                *)
ActiveDealtWith == phase = "store" => \A p \in DOMAIN cells : Fresh(p)
=============================================================================
