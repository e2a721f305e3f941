# HelProp in TLA+

HelProp computes how the heliosphere modulates cosmic rays: it follows many
pseudo-particles backwards in time from the Earth to the boundary of the
heliosphere, once per energy bin, and turns where they come from into a Green
function, a matrix or a spectrum. This directory holds TLA+ models of the parts
of that program whose behaviour depends on order, on threads, on kills and
restarts or on long sequences of calls; TLC runs that check them on small
instances; and proofs, checked by TLAPS, that hold for every instance.

The upstream repository has no README; its documentation is the option text in
the programs, the comments, the assertions and the three test programs. All
paths below are relative to the root of the repository.

## 1. Inventory

| Component | Code | State | Operations |
|---|---|---|---|
| Simulation driver | `src/HelProp.cc` `main`, `simulating` | `Particle`, the shared index `ip`, the threads, a global mutex, `weight` | start threads, claim an index under the mutex, copy the template particle, seed it, `step()`, join, collect a bin |
| Lazy table load | `src/HCS.cc` `init_tables`, `get_distance_intp` | `tables`, `angle_axis`, another global mutex of the same name | pick the interval of the angle, load its table on first use |
| Particle walk | `src/particle.cc` `step`, `r_reflecting`, `theta_reflecting` | `r`, `theta`, `phi`, the step counter | one stochastic step, reflection, return for one of two reasons |
| Adaptive k-d table | `src/KDInterp.cc`, `src/NDIndex.cc` | points, blocks, active list, refresh set | grow, correct, refresh, revive, kill, store, read back |
| HCS correction | `src/hcs_interp.cc` `tab_corr`, `KDPoint::correction` | values of the points, their feet (`p_cs_tab`) | search again from a neighbour's foot, depth first over the neighbours |
| Neighbour lists | `KDPoint::connect`, `KDInterp::update_tab` | two links per point and axis | place a new point in the lists of its lines |
| Table generator | `src/gen_HCS_distance_map.cc` | `namelist.txt`, one file per interval | list, skip or store, verify |
| Distance by iteration | `src/HCS.cc` `get_distance` and what it calls | a point of the sheet, the last two distances | spiral, wave and point iterations, the choice of up to three searches |
| Spectrum and matrix files | `src/IO.cc` | one file, its entries | append or recreate, read entry k; TXT, CSV, BSON |
| Green function, interpolation | `src/HelProp.cc` `count_GreenFunction`, `src/loginterp.cc` | none | pure |
| Root finding, caches | `src/root_finding.cc`, `src/newton_solver.cc`, `src/fcache.cc` | none that is used | `ridders_method`; the others have no caller |
| Test programs | `IOTest.cc`, `ParticleTest.cc`, `get_HCS_distance_test.cc` | none | print |
| Option parser, vendored libraries | `docopt/`, `extern/` | | third party |

How they interact. `main` runs `simulating` once per TOA bin. `simulating` starts
`--nthread` threads (or loops itself when that is at most 1) that share the
index `ip`. `particle::step`, called by every thread, asks `HCS` for distances
to the current sheet; `HCS` loads a k-d table on first use and reads it without
a lock afterwards. The tables are k-d trees: `KDInterp` samples `hcs_interp`'s
`dist`, which calls `HCS::get_distance` for a new point, and then corrects the
point and its neighbours through `tab_corr` and `get_distance_from_point`. The tables and the list of their names come through a
directory from another program, `gen_HCS_distance_map`, which takes hours, may
be killed and may still be running. `main` reads a boundary spectrum from a file
and appends its result to another, which other runs of HelProp share.

What is hard, and makes each component correct:

* driver: interleavings of threads over `ip` and `Particle`. Each index once,
  seeds never shared, the result independent of the threads, no thread waits
  for ever, although two locks with one name may be one lock.
* table load: a value tested under a lock and read after it. Set once and for
  all before anyone reads it; the table is the one of the angle.
* k-d table: long sequences of corrections that change finished blocks. The
  tree, the split of its blocks and what the file keeps of them agree.
* generator and reader: kills, restarts and a reader at any moment. The list is
  a prefix of the tables in order; a normal end means that all are whole.
* distance: three iterations move one point in turn, and the loop stops on a
  difference of distances. The recorded distance never grows, the answer is a point of the
  sheet, the loop ends.
* correction: a walk that changes values while it recurses over the points it
  changes. Values and feet belong together, no changed point is lost, it ends.
* neighbour lists: kept up from the few points a block knows. They are those of
  the coordinates.
* Green function: every particle counts once, and the row is a distribution.
* walk: angles and radius stay where the coefficients are defined; a limit ends it.
* files: torn entries followed by whole ones. A reader gets the rows of the
  entry it asked for and no others.

`PROJECT.json` lists the hazards one by one, with the line where each bites and
the property that covers it.

## 2. Modules

| Module | Models | Role |
|---|---|---|
| `SerialSim` | the promise of `main`'s loop | abstract specification |
| `Simulating` | driver and lazy table load, one action per critical step of a thread | implements `SerialSim` |
| `SimulatingProofs` | | invariants and refinement of `Simulating`, soundness of `Modulation` |
| `Modulation` | the Green function and the interpolated flux, over the results of `Simulating` | extends it |
| `KDInterp` | construction, storing and reading of a k-d table | |
| `KDInterpProofs` | | how deep blocks can be halved; invariants of the table and its file |
| `KDLines` | the neighbour lists and the query, with every step of `KDInterp` | extends it |
| `KDLinesProofs` | | the lists are sorted and complete, queries end in the right block |
| `HCSDistance` | the distance to the current sheet by iteration | |
| `HCSDistanceProofs` | | invariants and descent of the search |
| `Lowering` | what a correction does | abstract specification |
| `Correction` | `KDPoint::correction` with `tab_corr` | implements `Lowering` |
| `CorrectionProofs` | | invariants and refinement of the correction |
| `TableGen` | generator and its directory | |
| `HCSTables` | extends `TableGen` with the program that reads the directory | composition of the two |
| `HCSTablesProofs` | | invariants of both |
| `ParticleStep` | the loop of `particle::step` | |
| `ParticleStepProofs` | | invariants of the walk |
| `SpecFiles` | the files of `IO.cc` | |
| `SpecFilesProofs` | | layout of a file, what a reader gets of it |
| `MC*` | small constants for TLC | |

**Simulating.** `main`, `bin`, `nth` are where `main()` and `simulating()` are;
`pc[a]` is where thread `a` is (`pc[0]` is the serial loop). `LockIp, Take, Bump`
are the three parts of the critical section of line 66-71, separate because
another thread may run between them; `Copy, Seed, Stepped` follow it.
`Distance .. Eval` is `get_distance_intp`: the assertion on the axis, the lock,
the test of `tables[i]`, the construction, the unlock, the read. Numerics of a
particle are left out: a particle is its bin, its seed and how far it got.
`SharedMtx` says whether the two global `std::mutex mtx` (in `HelProp.cc` and
`HCS.cc`) are one object. The build makes `libhelprop` a shared library and HelProp
defines the same external name, so at run time they are one; the run uses TRUE
and the proofs cover both.

**KDInterp.** A block is named by the halvings that lead to it; the block under
construction is `cur`; `active, newborn, refresh, lmin` are the variables of
`spring` and `pass_through`. One action per loop iteration: `AddPoint` (with its
correction), `Complete`, `NoChange`/`Breed`, `EndPass`, `Refresh`/`Revive`,
`Resume`, then `StoreBlock`, `ReadBlock`. A correction is any lowering of at most
`MaxCorr` points connected to the new one by neighbour links: more than
`tab_corr` can do, so that the invariants do not lean on its numerics.
Coordinates are dyadic, hence exact as integers; values are small integers. What
a block caches of its points (`k, c, err, errmax`) is a function of the values
as `refresh_err` last saw them, so the cache is those values (`seen`). Doubles have room
for halving after halving; integers do not, so `MaxHalv` bounds them, and `RoomAssumption` asks that it
is never reached: the tolerance of an axis doubles with every halving (`TolLocal`), so after
`M` halvings no values up to `V` can differ by more, and `Dim * M` halvings in all must have room.

**KDLines.** `nb` holds `KDPoint::neighbors`. `UpdateTab` is `update_tab`: for every
axis `Connect` walks from a point of the line that the block under construction
knows (`Known`) to the place of the new one. The new points of a block are linked
in the order `get_val` makes them. `GetKd` is the descent of `operator()`. Its
invariants are checked at every state of `KDInterp`'s behaviour, which the lists do
not influence. The loop of `connect` and the recursion of `getkd` are recursive functions
of the number of steps, `2 * Unit` along a line and `Dim * MaxHalv` down the tree: both
have ended by then (a step that is over repeats its result), which the proofs show.

**HCSDistance.** The sheet is a grid of cells (phase, longitude): a spiral is a row, a
wave a column, and the distance to the cells is any of a set of functions. `Spiral`,
`Wave` and `PointStep` are the three iterations, with the failing assertions
(`SpiralFails`, `WaveFails`) as actions that end the program; `Roots` is where a
bracket walk with equal strides and Ridders' method may end: at any stationary cell of the
bracket. `Begin`, `Skip`, `Answer`, `Return` are `get_distance`, which chooses its
searches by the ratios of the radii `r_bound` returns.

**Correction, Lowering.** `stack` holds the frames of the recursion; `NextLine` takes
the next axis of the last one and asks `tab_corr` whether its line jumps
(`distance_jump_d4`) or has a step (`step_shape_p3`); `Search` is one pass of
`tab_corr`'s loop; `EndLine, Recurse, Return` hand the fresh points on. `Lowering` says
the same as one step: points connected to the new one come closer, on their side,
and exactly these are returned. That is the assumption `KDInterp` makes of a
correction (`Corrections`, `Connected`), up to its bound on their number.

**Modulation.** `GreenRow` is `count_GreenFunction` on the particles of a bin;
energies are logarithms, so that geometric means are halves, and `Exit` gives the
energy a particle leaves with, a function of its bin and seed as the walk is.
Weights are fractions, `NaN` is 0/0. The axes have at least two points and increase
(`AxesAssumption`: `count_GreenFunction` asserts the first, `get_ekin` makes an axis of the second kind from
`min,max,nbin`, and `upper_bound` requires it of a spectrum's).

**TableGen, HCSTables.** A file is absent, torn or whole; the list is rewritten
by every start and flushed name by name. The reader takes the list once and the
tables later, so everything may have changed in between. Every generator action
interleaves with every reader action, and `Crash` may happen at any point.

**ParticleStep.** Radius and angles are integers in units that keep the
comparisons; the increments of a step are any of small sets that cross the inner
sphere, both poles and the origin of phi, more than once around. The outward
mode is dead code (its only assignment is under `if (false)`) and is left out.

**SpecFiles.** A text file is a sequence of lines, a BSON file a sequence of
documents, whole or torn. `Open`, `WriteLine`, `Crash` are a writer (every line is
flushed by `endl`), `Refuse` a call with sizes that differ, `Read(k)` a reader.
The mistakes of the conversions are modelled as they are: the TXT matrix header
whose first conversion fails, the CSV header that converts to (0, 0), the
characters `erase(0, 3)` leaves, the uninitialised number `split` returns for an
empty line, the ETOA axis written with the length of the other axis. A line is
taken to reach the file whole, and one writer is at work at a time. `FilesAssumption` gives the datasets
the types the vectors of `IO.h` have; their sizes are not assumed to agree.

## 3. Runs

| Run | Instance | States | Shows |
|---|---|---|---|
| `simulating` | 2 bins of 3 particles, 1 or 2 threads, with and without `--seed`, an angle outside the axis, a missing file, 3 energy axes | 229551 | mutual exclusion, claims, unique seeds, rows of the Green function, finished particles kept, table built once, the serial specification, the end |
| `kd_line` | 1 dimension, 9 points, values 0..2, one corrected point per new one | 40563 | tree, freshness, the construction ends |
| `kd_plane` | 2 dimensions, at most 25 points, two corrected points | 76159 | tree with shared corners and sides, reading back, neighbour lists, queries |
| `hcs` | 4 phases, 5 longitudes, 14 surfaces | 133098 | descent, answer, slack, assertions on convex sides, the end |
| `correction` | 5 points, 2 axes, 3 feet | 44140 | values and feet, the abstract correction, the end |
| `tables` | 3 tables, 3 starts, 2 queries | 25340 | list, files, reader |
| `step` | pi = 6 units, four limits | 10140 | domain, direction, limit |
| `files` | 3 writer calls, 3 formats, 2 kinds | 91505 | which entries are read back, the rows of a matrix with their energies, the axes of a CSV matrix |
| `kd_stale`, `tables_range`, `step_limit`, `files_csv` | | | four disagreements, section 5 |

Why the bounds are enough. Three particles and two threads let a thread claim
twice while the other still holds an index, and two bins let the counter, the
threads and the blank vector be set up again; a second mutex user is reached by
`MaxCalls = 1`. In `kd_line` the tree has two levels below the root, so that a block is revived
while its subtree is two deep, killed, bred again and revived again; `kd_plane`
is the smallest in which a killed block's centre is a corner or side point of a
living one and two axes compete for a split (`IxSplit0 = 1` wraps the axis); its lines
hold up to five points, so that a point is placed between, before and after others.
In `hcs` every action fires: rows with one least value, two of different depth and a flat stretch lie side by side, so
a stride steps over a low, a spiral and a wave disagree, and both assertions fail on
such sheets; the two bowls have one least value along every line. The offsets reach a target
below the raised `rlow`. In `correction` four of the points form a square through both axes, the fifth makes a line of
three, and a value may fall twice, so that a point is corrected again from another neighbour
and the walk comes back to where it was; the point on the other side of the sheet is one that a jump finds. The axes of `simulating` put particles below,
at, between and above their points and on a bound, and a draw sends every particle of a bin outside.
Three tables and three starts give a torn file in the middle of a list, one at
its end, and a run that finds both. Three writes give a torn entry between two
whole ones. The two axes of one matrix agree in length, those of another do not. An energy axis
that does not fit the rows never comes from `main`; such datasets are in `files` because `IO` is an
interface of its own that checks for them.

Fairness. `simulating` assumes weak fairness of the main step and of each
thread: the system scheduler runs every runnable thread, and no mutex is held
for ever by a thread that can run. Because locks are tried as a step that is
enabled only while the mutex is free, the bounded work of the others makes weak
fairness enough. A particle's walk is taken to end (`Stepped`); the code does
not guarantee that without `--max-step`, which `ParticleStep` treats by itself:
there termination is stated only under a limit. `kd_line`, `hcs`, `correction` and `step` assume that a
single thread without waiting goes on. The generator and the files have no liveness property: their loops
are counted or run over an array, and a kill may end them at any point.

Every property has a mutant of the code in its module (`Mut...`, next to the
definition it replaces) under which TLC finds it violated.

## 4. Proofs

`SimulatingProofs`, for every number of threads, bins and particles, any set of
configurations and either value of `SharedMtx`; assumptions: `ConstantsAssumption`.
`ClaimInv`, the property of interest, is not inductive: that two threads never
hold one index needs that the index between `Take` and `Bump` is the counter itself,
that only one thread is there, and that threads work only while a bin is being
simulated. The inductive invariant is

    IInv == TypeOK /\ MutexInv /\ PhaseInv /\ ClaimInv /\ HandOverInv /\ ParticleInv /\ WeightInv

`MutexInv` ties the places in a critical section to the owner of its mutex (and
so holds for one mutex as for two); `PhaseInv` says which threads exist in each
phase of `simulating` and that an exited thread leaves a used up counter;
`HandOverInv` what a thread may find in its particle; `ParticleInv` what the
vector holds up to the counter; `WeightInv` what the finished bins hold. There is
one lemma per conjunct, with a step per action. From it follow type correctness,
mutual exclusion, claims, `FinishedKept`, unique seeds (by a lemma on
multiples of `Number`) and the refinement of `SerialSim`: only `Collect` and the two
failing assertions change what `SerialSim` sees. `TableInv`, with `IInv`, gives that
the table is built once.

`HCSTablesProofs`, for every number of tables, starts and queries. `GenInv` adds to
the properties of the directory how far the list has got in each phase
(`Progress`); it is inductive, and every step of the whole system is a step or a stutter of the
generator. `HcsInv` says that the names read are those of the first tables, in
order, that their files exist up to the last name, and that loaded tables are
whole; a file never gets worse for it (`FilesStay`), so the generator's steps
keep it. `AxisBounds` and `IntervalHolds` show that the search in the axis gives the
interval of the angle.

`ParticleStepProofs`, for every inner sphere, distance from the poles, set of
increments and set of limits. `KeepsDirection` (`DirectionKept`) says that however far the
increments lead, theta and phi after a step name the direction they lead to, a reflection at a pole
turning phi half around: the proof carries the whole turns that were taken off as a witness.
`UnwindRange`, `ThetaRange`, `PhiRange` and `RadiusRange` are the
lemmas about the reflections; they need only `ConstantsAssumption` (the start is outside
the inner sphere, `2 * Eps <= Pi`) and the range of a remainder. `LimitedWork` and
`ReasonToReturn` are not inductive alone: `Counted` adds that the loop's counter is the
number of steps made.

`HCSDistanceProofs`, for every grid, distance function, resolution and target, from
`SheetAssumption`. `EndNearDiter` needs that the recorded distance is that of the point
throughout the loop; `OneSideWanted` is the arithmetic of the ratios: unless `rlow` was raised above the radius,
one of the outer searches runs or the target is in the band. `StationaryIsLeast` says that a stationary
cell of a line with one least value is that value, hence below where the walk began:
`ConvexSafe`.

`CorrectionProofs`, for every set of points, neighbours, axes and distances, from
`CorrectionAssumption`. The refinement needs to know, in the middle of the walk, what
the walk will return:

    IInv == TypeOK /\ FootOfValue /\ Shrunk /\ OnSide /\ Kept /\ Reached /\ LineOfTop /\ AtEnd

`Kept`: a changed point is in the fresh set of some frame or in `tab_corr`'s result, and only
changed points are; `Reached`: the changed points are connected to the new one, because
every frame stands at a changed point (`Joins`: a point linked to a connected part
may join it); `Shrunk` and `OnSide`: values come closer and keep their sign. One lemma
per action; then every step but the last return is a stutter of `Lowering`, and the
last one is `Lower`.

`ModulationIsSound` (in `SimulatingProofs`), for every number of particles, every axes and every place
the particles leave at, needs only `WeightInv` and `ParticleInv` of the loop: the bin's vector holds its own
particles, each with the seed `SeedsOf` gives. `UpperBound` counts a beginning of an increasing axis, so `Bounds`
increases too and every energy lies in exactly one interval between bounds, that of the nearest point; the counts of
disjoint sets of particles add up to the number of particles in range.

`KDInterpProofs`, for every dimension, tolerance, range of values, function and
correction, from `ConstantsAssumption`, `FuncAssumption` and `RoomAssumption`. `SplitMayHalve`
bounds the depth: an axis that `get_ix_split` asks for has been halved fewer than `M` times, because the error
of values up to `V` is below a tolerance that doubles, so a block's width is never zero. The invariant is

    TableInv == TypeInv /\ CellsOK /\ BuildInv /\ CentresOK /\ ListInv /\ ShapeInv /\ FreshInv
    IInv     == TableInv /\ RootInv /\ FileInv

`CellsOK`: the live blocks are a tree, each with the centre and width its name gives; then blocks are nested
or apart, and no two live ones have the same centre (`CentresDiffer`). Without this `TreeInv`
could not be kept, since `kill` resets `ix_split` by the centre *point*. `CentresOK`: a point's `ix_split` is that of the block
it is the centre of, and -1 where there is none. `BuildInv`: what `breed` is in the middle of; its block is split,
the first child alone exists. `ListInv`: no block is on the lists twice. `ShapeInv` is `TreeInv` with what it needs of
blocks that wait: their error asks for another axis than the one they have, since otherwise `NoChange` would leave them split and without children.
`FreshInv`: blocks off `refresh_blocks` have their values, and those on no list the split they ask for. For the
file, `Found(c)[m]` is the breadth first list after `m` blocks, a recursive function; `Written` and
`Pending` say that `store_table` and then the reader are at the same place of it, and
`Rebuilt` that the reader's tree is the part already passed. Hence `ReadBack`: the assertion never
fails, and the list of blocks is exactly that of the live ones.

`KDLinesProofs`, from the same assumptions and with `TableInv` at hand. A query (`QueriesAnswered`) needs
no more: every step of the descent keeps the clamped point in the block, because a block's two halves cover
it exactly (`HalfExact`: its width is even while it may be halved), and `DepthLimit` bounds the
depth by `SplitMayHalve`. The lists (`LinesAreSound`) have an invariant of their own:

    LineInv == pointers lead to points or NULL /\ every line of every axis is Sorted
               /\ ref_tab knows every line, by one of its points

`Sorted` says each pointer leads to the nearest point ahead. It is kept by three facts. What `get_val` is given lies on the line
of the new point and is already made (`RefsFacts`: an earlier corner, a corner of the parent or of the brother, or
the centre). From any point of the line the walk ends just before the place of the new one, because every
step comes closer (`WalkFacts`), and the two or four pointers `connect` writes there put it
between its neighbours (`ConnectKeeps`, `InsertionKeeps`). And along an axis where nothing was given `update_tab` finds a point
of the line, or the line is new (`UpdateKeeps`, `NewLine`). Between the axes the new point is linked along some
and alone along the others (`AxisDone`, `AxisOpen`), which the loops of `get_val` and `update_tab` go through in turn.

`SpecFilesProofs`, for every set of datasets and formats, any number of writes and entries, from `FilesAssumption`.
`NothingInvented`, `FinishedRead` and `AxesRead` speak of one read; they follow from a description of the file that is inductive:

    IInv == TypeInv /\ TextInv /\ BsonInv

`TextInv` lays the file out (`Layout`): entry `k` of the log begins in line `s[k]` and is a beginning of `o[k]`, one of
the texts the writer may make of its data, all of it if the entry is done; a writer that is open has
the rest of the last entry in hand, or a new one (`Pending`). `AppendHead` and `AppendRow` keep it through a written line; a
kill leaves it as it is. Since every text has one header and begins with it
(`TextOutput`), header number `k` is `s[k]` (`HeadsCount`, by a bijection) and the rows after it end
where the entry does (`EntryRows`); in a TXT matrix their first column is the ETOA axis (`TxtMatrixRead`). `AxesRead` needs
only that a finished matrix has its three header lines before the rows (`AxesWritten`), and what the loop over ETOA makes of an
axis as long as ELIS (`EtoaWritten`). `BsonInv` lays a file of documents out, one per entry, torn unless done.

Only model-checked: `Termination`, `LimitEnds`, `SearchEnds`, `CorrectionEnds` and the loop's end
(liveness is beyond TLAPS here). Every safety invariant a run checks is also proved. The type
invariants of `HCSTables`, `HCSDistance` and `Correction`, and `GenInv`, are proved and not checked again by
a run; the inductive invariants of `KDInterp` and `SpecFiles` were checked by TLC on the instances of section 3 before they were proved.

## 5. Where code and text disagree

* `KDInterp.cc:554` takes active blocks off `refresh_blocks` because they are
  dealt with anyway; `breed` uses the error computed before the correction
  (`kd_stale`). Refreshing them naively is no remedy: a block that waits would be
  revived while it is on the list, and `TreeInv` fails (`MutToRefresh`).
* `HCS.cc:723` refuses the last listed interval (`tables_range`). That off-by-one
  also hides that a name is listed before its file exists: `ListedExists` holds only
  thanks to it (`MutInAxis`), so the two need to be changed together.
* `particle.cc:179` makes one step more than `--max-step` (`step_limit`).
* `IO.cc:254`: the CSV reader of one spectrum runs over the next header to the
  end of the file (`files_csv`).

The assertions of `spiral_iterate` and `wave_iterate` (`HCS.cc:321`, `453`) fail on
sheets with several lows along a line (`SpiralFails` and `WaveFails` fire); they are proved to hold where
there is one. The code states no such condition and whether the real sheet meets it near the
crest is a question of its formulas, so this is no finding.

Modelled, and not contradicted by any text: the CSV writer of a matrix writes as many values of the ETOA axis as the
ELIS axis has (`IO.cc:347`), so with `--elis` and `--etoa` of different lengths, which `main` passes on as they are given, the
line is cut or has numbers from beyond the vector, and `AxesRead` holds only where the lengths agree; both axes come back
from CSV after a number that `erase(0, 3)` leaves; a missing entry of a text file is
reported as read, without rows; the LIS axis of a TXT matrix is never read
back; a refused TXT spectrum has already emptied the file.

## 6. Not modelled

Floating-point numerics: the field, drift and diffusion formulas of the walk, the formulas of
the sheet and its derivatives, tolerances of the root search, unit
conversion, eight-digit formatting. Random draws beyond "one of a set". The log
and the progress output, the run parameters and sample lists kept in a BSON
document. `brent`, Newton's method and `fcache`, which no program calls; the sum over the LIS axis at the end of `main`, which is
a formula; the test programs, which print; the option parser and the vendored libraries. Two programs appending
to one file at once: nothing in the code addresses it.

## 7. Plan

Done, in this order: `SerialSim`, `Simulating` and its proofs; `KDInterp`; `TableGen` with
`HCSTables` and their proofs; `ParticleStep` and its proofs; `SpecFiles`; `KDLines`;
`HCSDistance` and its proofs; `Lowering`, `Correction` and their proofs; `Modulation`; the proofs
of `KDInterp`, `KDLines`, `SpecFiles`, `Modulation` and of `DirectionKept`. Left, the most important first:

1. That the corrections of `KDInterp` (`Corrections`) are what `Correction` does, as a refinement between the two.
