----------------------------- MODULE Modulation -----------------------------
(***************************************************************************)
(* What main() of HelProp makes of the results of simulating(): the rows   *)
(* of the Green function (get_bound, count_GreenFunction) and the boundary *)
(* flux between the points of its file (LogInterp).                        *)
(*                                                                         *)
(* Abstractions.  Energies and fluxes are their logarithms, integers; the  *)
(* geometric mean of two energies is their mean, so bounds are doubled.  A *)
(* weight is a fraction.  Where a particle leaves the heliosphere follows  *)
(* from its seed and the energy it starts from.  Energies increase, as     *)
(* get_ekin makes them.                                                    *)
(***************************************************************************)
EXTENDS Simulating, FiniteSets

CONSTANTS Exit(_, _),   \* the energy a particle of a bin and a seed leaves with
          Grids,        \* ELIS: the energy axes considered
          Fluxes        \* the flux of the boundary spectrum at such energies

(* The seeds a particle of bin b may have.  An axis has two points at least,  *)
(* which get_bound and LogInterp take from it; count_GreenFunction asserts it.*)
SeedsOf(b) == Draws \cup {SeedBase(b) + i : i \in Index}

ASSUME AxesAssumption ==
  /\ \A b \in 0 .. NBins - 1 : \A s \in SeedsOf(b) : Exit(b, s) \in Int
  /\ \A x \in Grids : /\ x \in Seq(Int) /\ Len(x) > 1
                       /\ \A j \in 1 .. Len(x) - 1 : x[j] < x[j + 1]
  /\ Fluxes \subseteq Seq(Int)

NaN == <<0, 0>>

(* std::upper_bound of an increasing sequence, as an index counted from 0 *)
MutUpperBound(s, v) == Cardinality({k \in DOMAIN s : s[k] < v})     \* lower_bound
UpperBound(s, v) == Cardinality({k \in DOMAIN s : s[k] <= v})

(* get_bound: the mean of neighbours, and as far again beyond the ends *)
Bounds(x) ==
  LET n == Len(x)
  IN [k \in 1 .. n + 1 |-> CASE k = 1     -> 3 * x[1] - x[2]
                             [] k = n + 1 -> 3 * x[n] - x[n - 1]
                             [] OTHER     -> x[k - 1] + x[k]]

(* bin[ibin - 1] += 1, and nothing for the particles that end outside *)
Counts(x, particles) ==
  [j \in 1 .. Len(x) |->
     Cardinality({i \in DOMAIN particles :
                    UpperBound(Bounds(x), 2 * Exit(particles[i].ek, particles[i].seed)) = j})]

Total(c) == LET sum[k \in 0 .. Len(c)] == IF k = 0 THEN 0 ELSE sum[k - 1] + c[k] IN sum[Len(c)]

(* v /= sum, whatever the sum *)
GreenRow(x, particles) ==
  LET c == Counts(x, particles)
  IN [j \in 1 .. Len(x) |-> IF Total(c) = 0 THEN NaN ELSE <<c[j], Total(c)>>]

(* LogInterp::operator(): the interval, the first or last one outside them,  *)
(* and the line through its ends, as a fraction.                             *)
Upper(x, e) ==
  LET u == UpperBound(x, e)
      v == IF u = Len(x) THEN u - 1 ELSE u
  IN IF v = 0 THEN v + 1 ELSE v

LogInterp(x, y, e) ==
  LET up == Upper(x, e) + 1
      low == up - 1
  IN <<y[low] * (x[up] - x[low]) + (e - x[low]) * (y[up] - y[low]), x[up] - x[low]>>
-----------------------------------------------------------------------------
Nearest(x, j, e) ==
  /\ \A k \in 1 .. Len(x) : (e - x[j]) * (e - x[j]) <= (e - x[k]) * (e - x[k])
  /\ 2 * e >= 3 * x[1] - x[2] /\ 2 * e < 3 * x[Len(x)] - x[Len(x) - 1]

(* Every row of the Green function is the distribution of the particles of   *)
(* its bin: each that leaves within half a step of the axis counts at one of *)
(* its nearest energies, once, none counts elsewhere, and the weights add up *)
(* to one.  Only where no particle left there is the row not a number.       *)
RowIsShare(x, particles, row) ==
  LET Exits(i) == Exit(particles[i].ek, particles[i].seed)
      Near(i)  == {j \in 1 .. Len(x) : Nearest(x, j, Exits(i))}
      inside   == {i \in DOMAIN particles : Near(i) # {}}
  IN IF inside = {} THEN \A j \in DOMAIN row : row[j] = NaN
     ELSE \E at \in [inside -> 1 .. Len(x)] :
            /\ \A i \in inside : at[i] \in Near(i)
            /\ \A j \in 1 .. Len(x) :
                 row[j] = <<Cardinality({i \in inside : at[i] = j}), Cardinality(inside)>>

GreenIsShare ==
  main = "bin" /\ bin > 0 =>     \* simulating() has just returned
    \A x \in Grids : RowIsShare(x, weight[bin], GreenRow(x, weight[bin]))

(* The flux at an energy of the axis is the one given there, and between two *)
(* of them it is between theirs: main() may take it at the axis it read.     *)
FluxKept ==
  \A x \in Grids, y \in Fluxes : Len(y) = Len(x) =>
    \A j \in 1 .. Len(x) - 1 : \A e \in x[j] .. x[j + 1] :
      LET f == LogInterp(x, y, e)
      IN /\ e = x[j] => f[1] = y[j] * f[2]
         /\ e = x[j + 1] => f[1] = y[j + 1] * f[2]
         /\ \/ y[j] * f[2] <= f[1] /\ f[1] <= y[j + 1] * f[2]
            \/ y[j + 1] * f[2] <= f[1] /\ f[1] <= y[j] * f[2]

ModulationSound == GreenIsShare /\ FluxKept
=============================================================================
