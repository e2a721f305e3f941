----------------------------- MODULE Simulating -----------------------------
(***************************************************************************)
(* The simulation loop of HelProp: main() runs simulating() once per       *)
(* energy bin (HelProp.cc), simulating() shares its particles among        *)
(* threads through a counter under a mutex or runs them itself when        *)
(* --nthread is at most 1, and every particle's step() may ask the heliospheric *)
(* current sheet for distances, which loads the interpolation table on     *)
(* first use under a mutex (HCS.cc).                                       *)
(*                                                                         *)
(* Both files define a global std::mutex mtx with external linkage.  When  *)
(* the HCS library is linked dynamically the two names are one object:     *)
(* SharedMtx says whether they are.                                        *)
(*                                                                         *)
(* Abstractions: a particle is its template energy (the bin), its seed and *)
(* how far its simulation got; the numerics of step() are left to other    *)
(* modules, here it only makes up to MaxCalls distance queries.            *)
(***************************************************************************)
EXTENDS Integers, Sequences

CONSTANTS Number,      \* --number, particles per bin
          NBins,       \* ETOA.size()
          MaxThreads,  \* bound on --nthread
          BaseSeed,    \* --seed
          Draws,       \* what random_device may return
          MaxCalls,    \* bound on the distance queries of one particle
          SharedMtx,   \* are the two global mutexes one object
          Configs      \* the command lines and table directories considered

(* A configuration: the number of threads, whether --seed is given, whether  *)
(* HCS::angle passes the range assertion of the table axis, and whether the  *)
(* table file it selects exists.                                             *)
Config == [th_num : 0 .. MaxThreads, fix_seed : BOOLEAN, in_axis : BOOLEAN, file_ok : BOOLEAN]

ASSUME ConstantsAssumption ==
  /\ Number \in Nat /\ NBins \in Nat /\ MaxThreads \in Nat /\ MaxCalls \in Nat
  /\ BaseSeed \in Int /\ Draws \subseteq Int
  /\ SharedMtx \in BOOLEAN
  /\ Configs \subseteq Config

Index   == 0 .. Number - 1
Main    == 0
Workers == 1 .. MaxThreads
Actors  == 0 .. MaxThreads

Mutexes == {"ip", "tab"}
NoOne   == -1
NULL    == 0

VARIABLES conf,       \* the configuration of this run
          main,       \* where main() and simulating() are
          bin,        \* i of main()
          nth,        \* ith / j of simulating(): threads started or joined
          pc,         \* where each thread is; pc[Main] is used by the serial loop
          ip,         \* the shared counter (the loop variable in serial mode)
          ip_local,   \* the particle each thread works on
          Particle,   \* the vector simulating() fills
          owner,      \* owner of each mutex
          table,      \* tables[i]: NULL or the identity of a KDInterp
          built,      \* KDInterp objects constructed so far
          calls,      \* distance queries each thread's particle has made
          weight      \* the result of every bin

vars == <<conf, main, bin, nth, pc, ip, ip_local, Particle, owner, table, built, calls, weight>>
mainVars  == <<main, bin, nth, weight>>
tableVars == <<table, built>>

(* The mutex object a name denotes. *)
Mtx(name) == IF SharedMtx THEN "ip" ELSE name

Running  == main # "aborted"
Parallel == conf.th_num > 1

(* one.seed of main() for bin b; the template carries it into the bin. *)
MutSeedBase(b) == BaseSeed + b     \* the factor Number forgotten
SeedBase(b) == BaseSeed + b * Number
TemplateSeed == SeedBase(bin)

Blank == [ek |-> 0, seed |-> 0, state |-> "default"]

Init ==
  /\ conf \in Configs
  /\ main = "bin" /\ bin = 0 /\ nth = 0
  /\ pc = [a \in Actors |-> "none"]
  /\ ip = 0
  /\ ip_local = [a \in Actors |-> 0]
  /\ Particle = [i \in Index |-> Blank]
  /\ owner = [m \in Mutexes |-> NoOne]
  /\ table = NULL /\ built = 0
  /\ calls = [a \in Actors |-> 0]
  /\ weight = << >>
-----------------------------------------------------------------------------
(* main() and the frame of simulating() *)

MutBeginBin ==     \* i <= ETOA.size()
  /\ main = "bin" /\ bin <= NBins
  /\ Particle' = [i \in Index |-> Blank]
  /\ ip' = 0
  /\ nth' = 0
  /\ IF Parallel
       THEN main' = "spawn" /\ UNCHANGED pc
       ELSE main' = "serial" /\ pc' = [pc EXCEPT ![Main] = "loop"]
  /\ UNCHANGED <<conf, bin, weight, ip_local, owner, tableVars, calls>>

BeginBin ==
  /\ main = "bin" /\ bin < NBins
  /\ Particle' = [i \in Index |-> Blank]
  /\ ip' = 0
  /\ nth' = 0
  /\ IF Parallel
       THEN main' = "spawn" /\ UNCHANGED pc
       ELSE main' = "serial" /\ pc' = [pc EXCEPT ![Main] = "loop"]
  /\ UNCHANGED <<conf, bin, weight, ip_local, owner, tableVars, calls>>

Spawn ==
  /\ main = "spawn" /\ nth < conf.th_num
  /\ nth' = nth + 1
  /\ pc' = [pc EXCEPT ![nth + 1] = "lock"]
  /\ UNCHANGED <<conf, main, bin, weight, ip, ip_local, Particle, owner, tableVars, calls>>

AllSpawned ==
  /\ main = "spawn" /\ nth = conf.th_num
  /\ main' = "join" /\ nth' = 0
  /\ UNCHANGED <<conf, bin, weight, pc, ip, ip_local, Particle, owner, tableVars, calls>>

Join ==
  /\ main = "join" /\ nth < conf.th_num
  /\ pc[nth + 1] = "exit"
  /\ nth' = nth + 1
  /\ pc' = [pc EXCEPT ![nth + 1] = "none"]
  /\ UNCHANGED <<conf, main, bin, weight, ip, ip_local, Particle, owner, tableVars, calls>>

(* When simulating() returns: every thread joined, or the serial loop over. *)
MutReturnReady ==     \* returns before the last thread is joined
  \/ main = "join" /\ nth = conf.th_num - 1
  \/ main = "serial" /\ pc[Main] = "loop" /\ ip >= Number

ReturnReady ==
  \/ main = "join" /\ nth = conf.th_num
  \/ main = "serial" /\ pc[Main] = "loop" /\ ip >= Number

Outcome == [i \in Index |-> [ek |-> Particle[i].ek, seed |-> Particle[i].seed]]

Collect ==
  /\ ReturnReady
  /\ weight' = Append(weight, Outcome)
  /\ bin' = bin + 1
  /\ main' = "bin"
  /\ pc' = [pc EXCEPT ![Main] = "none"]
  /\ UNCHANGED <<conf, nth, ip, ip_local, Particle, owner, tableVars, calls>>

Finish ==
  /\ main = "bin" /\ bin >= NBins
  /\ main' = "done"
  /\ UNCHANGED <<conf, bin, nth, pc, ip, ip_local, Particle, owner, tableVars, calls, weight>>
-----------------------------------------------------------------------------
(* The claim of a particle *)

MutAcquire(a, name) == owner' = [owner EXCEPT ![Mtx(name)] = a]     \* does not wait

Acquire(a, name) ==
  /\ owner[Mtx(name)] = NoOne
  /\ owner' = [owner EXCEPT ![Mtx(name)] = a]

Release(name) == owner' = [owner EXCEPT ![Mtx(name)] = NoOne]

Goto(a, place) == pc' = [pc EXCEPT ![a] = place]

LockIp(a) ==
  /\ pc[a] = "lock"
  /\ Acquire(a, "ip")
  /\ Goto(a, "take")
  /\ UNCHANGED <<conf, mainVars, ip, ip_local, Particle, tableVars, calls>>

(* break leaves the scope of the lock_guard, so the mutex is released. *)
MutDrained(a) ==     \* leaves without unlocking
  /\ pc[a] = "take" /\ ip >= Number
  /\ Goto(a, "exit")
  /\ UNCHANGED <<conf, mainVars, ip, ip_local, Particle, owner, tableVars, calls>>

Drained(a) ==
  /\ pc[a] = "take" /\ ip >= Number
  /\ Release("ip")
  /\ Goto(a, "exit")
  /\ UNCHANGED <<conf, mainVars, ip, ip_local, Particle, tableVars, calls>>

MutTake(a) ==     \* unlocks between the read and the increment
  /\ pc[a] = "take" /\ ip < Number
  /\ ip_local' = [ip_local EXCEPT ![a] = ip]
  /\ Release("ip")
  /\ Goto(a, "bump")
  /\ UNCHANGED <<conf, mainVars, ip, Particle, tableVars, calls>>

Take(a) ==
  /\ pc[a] = "take" /\ ip < Number
  /\ ip_local' = [ip_local EXCEPT ![a] = ip]
  /\ Goto(a, "bump")
  /\ UNCHANGED <<conf, mainVars, ip, Particle, owner, tableVars, calls>>

MutBump(a) ==     \* forgets the increment
  /\ pc[a] = "bump"
  /\ Release("ip")
  /\ Goto(a, "copy")
  /\ UNCHANGED <<conf, mainVars, ip, ip_local, Particle, tableVars, calls>>

Bump(a) ==
  /\ pc[a] = "bump"
  /\ ip' = ip + 1
  /\ Release("ip")
  /\ Goto(a, "copy")
  /\ UNCHANGED <<conf, mainVars, ip_local, Particle, tableVars, calls>>

(* The serial loop takes the indices in order, with no lock. *)
SerialNext ==
  /\ main = "serial" /\ pc[Main] = "loop" /\ ip < Number
  /\ ip_local' = [ip_local EXCEPT ![Main] = ip]
  /\ ip' = ip + 1
  /\ Goto(Main, "copy")
  /\ UNCHANGED <<conf, mainVars, Particle, owner, tableVars, calls>>
-----------------------------------------------------------------------------
(* One particle *)

Mine(a) == Particle[ip_local[a]]

SetMine(a, p) == Particle' = [Particle EXCEPT ![ip_local[a]] = p]

Copy(a) ==
  /\ pc[a] = "copy"
  /\ SetMine(a, [ek |-> bin, seed |-> TemplateSeed, state |-> "copied"])
  /\ Goto(a, "seed")
  /\ UNCHANGED <<conf, mainVars, ip, ip_local, owner, tableVars, calls>>

(* With --seed the index is added before step(); otherwise step() draws. *)
SeedsFor(a) == IF conf.fix_seed THEN {Mine(a).seed + ip_local[a]} ELSE Draws

Seed(a) ==
  /\ pc[a] = "seed"
  /\ \E s \in SeedsFor(a) : SetMine(a, [Mine(a) EXCEPT !.seed = s, !.state = "seeded"])
  /\ calls' = [calls EXCEPT ![a] = 0]
  /\ Goto(a, "step")
  /\ UNCHANGED <<conf, mainVars, ip, ip_local, owner, tableVars>>

(* The loop of step() ends outside the boundary; a worker goes for the next *)
(* particle, the serial loop to its next iteration.                         *)
Stepped(a) ==
  /\ pc[a] = "step"
  /\ SetMine(a, [Mine(a) EXCEPT !.state = "done"])
  /\ Goto(a, IF a = Main THEN "loop" ELSE "lock")
  /\ UNCHANGED <<conf, mainVars, ip, ip_local, owner, tableVars, calls>>
-----------------------------------------------------------------------------
(* HCS::get_distance_intp *)

Distance(a) ==
  /\ pc[a] = "step" /\ calls[a] < MaxCalls
  /\ conf.in_axis
  /\ calls' = [calls EXCEPT ![a] = calls[a] + 1]
  /\ Goto(a, "tlock")
  /\ UNCHANGED <<conf, mainVars, ip, ip_local, Particle, owner, tableVars>>

AxisAssertFails(a) ==
  /\ pc[a] = "step" /\ calls[a] < MaxCalls
  /\ ~conf.in_axis
  /\ main' = "aborted"
  /\ UNCHANGED <<conf, bin, nth, pc, ip, ip_local, Particle, owner, tableVars, calls, weight>>

MutLockTable(a) ==     \* tests tables[i] before the lock only
  /\ pc[a] = "tlock"
  /\ Acquire(a, "tab")
  /\ Goto(a, "tbuild")
  /\ UNCHANGED <<conf, mainVars, ip, ip_local, Particle, tableVars, calls>>

LockTable(a) ==
  /\ pc[a] = "tlock"
  /\ Acquire(a, "tab")
  /\ Goto(a, IF table = NULL THEN "tbuild" ELSE "tunlock")
  /\ UNCHANGED <<conf, mainVars, ip, ip_local, Particle, tableVars, calls>>

(* new KDInterp(...), then the store to tables[i]. *)
BuildTable(a) ==
  /\ pc[a] = "tbuild" /\ conf.file_ok
  /\ built' = built + 1
  /\ table' = built + 1
  /\ Goto(a, "tunlock")
  /\ UNCHANGED <<conf, mainVars, ip, ip_local, Particle, owner, calls>>

FileAssertFails(a) ==
  /\ pc[a] = "tbuild" /\ ~conf.file_ok
  /\ main' = "aborted"
  /\ UNCHANGED <<conf, bin, nth, pc, ip, ip_local, Particle, owner, tableVars, calls, weight>>

UnlockTable(a) ==
  /\ pc[a] = "tunlock"
  /\ Release("tab")
  /\ Goto(a, "eval")
  /\ UNCHANGED <<conf, mainVars, ip, ip_local, Particle, tableVars, calls>>

(* hcs_interp_eval reads tables[i] after the unlock. *)
Eval(a) ==
  /\ pc[a] = "eval"
  /\ Goto(a, "step")
  /\ UNCHANGED <<conf, mainVars, ip, ip_local, Particle, owner, tableVars, calls>>
-----------------------------------------------------------------------------
MainStep == BeginBin \/ Spawn \/ AllSpawned \/ Join \/ Collect \/ Finish \/ SerialNext

Claim(a)    == LockIp(a) \/ Drained(a) \/ Take(a) \/ Bump(a)
Simulate(a) == Copy(a) \/ Seed(a) \/ Stepped(a)
GetDistance(a) ==
  Distance(a) \/ AxisAssertFails(a) \/ LockTable(a) \/ BuildTable(a)
  \/ FileAssertFails(a) \/ UnlockTable(a) \/ Eval(a)

Thread(a) == Claim(a) \/ Simulate(a) \/ GetDistance(a)

Terminated == main \in {"done", "aborted"} /\ UNCHANGED vars

Next ==
  \/ Running /\ MainStep
  \/ Running /\ \E a \in Actors : Thread(a)
  \/ Terminated

Spec == Init /\ [][Next]_vars

(* The scheduler runs every thread that can run; a mutex that is free is     *)
(* eventually given to a waiting thread.                                     *)
Fairness ==
  /\ WF_vars(Running /\ MainStep)
  /\ \A a \in Actors : WF_vars(Running /\ Thread(a))

FairSpec == Spec /\ Fairness
-----------------------------------------------------------------------------
Working(a) == pc[a] \in {"copy", "seed", "step", "tlock", "tbuild", "tunlock", "eval"}
InIp(a)    == pc[a] \in {"take", "bump"}
InTab(a)   == pc[a] \in {"tbuild", "tunlock"}

Place == {"none", "loop", "lock", "take", "bump", "copy", "seed", "step",
          "tlock", "tbuild", "tunlock", "eval", "exit"}

ParticleRec == [ek : Int, seed : Int, state : {"default", "copied", "seeded", "done"}]
BinResult   == [Index -> [ek : Int, seed : Int]]

TypeOK ==
  /\ conf \in Config
  /\ main \in {"bin", "spawn", "join", "serial", "done", "aborted"}
  /\ bin \in 0 .. NBins /\ nth \in Nat /\ ip \in Nat
  /\ pc \in [Actors -> Place]
  /\ ip_local \in [Actors -> Int]
  /\ Particle \in [Index -> ParticleRec]
  /\ owner \in [Mutexes -> Actors \cup {NoOne}]
  /\ table \in Nat /\ built \in Nat
  /\ calls \in [Actors -> 0 .. MaxCalls]
  /\ weight \in Seq(BinResult)

(* At most one thread is between reading and advancing the shared counter,   *)
(* and at most one between testing and filling tables[i], although the two   *)
(* critical sections may be guarded by one and the same mutex.               *)
MutualExclusion ==
  \A a, b \in Actors : a # b => ~(InIp(a) /\ InIp(b)) /\ ~(InTab(a) /\ InTab(b))

(* Every particle whose index was handed out is finished or in the hands of  *)
(* exactly one thread, and no thread works on an index beyond the counter:   *)
(* none is lost between ip++ and step(), none is simulated by two threads.   *)
ClaimInv ==
  Running =>
    /\ \A a \in Actors : Working(a) => ip_local[a] \in Index /\ ip_local[a] < ip
    /\ \A a, b \in Actors : a # b /\ Working(a) /\ Working(b) => ip_local[a] # ip_local[b]
    /\ \A i \in Index : i < ip =>
         \/ Particle[i].state = "done"
         \/ \E a \in Actors : Working(a) /\ ip_local[a] = i

(* With --seed no two particles of the whole program use the same seed, over *)
(* all bins and threads, so no two write the log file "s<seed>_<logname>".   *)
SeedOf(p) == IF p[1] < Len(weight) THEN weight[p[1] + 1][p[2]].seed ELSE Particle[p[2]].seed

Simulated ==
  (0 .. Len(weight) - 1) \X Index
  \cup {Len(weight)} \X {i \in Index : main # "bin" /\ Particle[i].state \in {"seeded", "done"}}

SeedsUnique ==
  conf.fix_seed /\ main \in {"spawn", "join", "serial"} =>
    \A p, q \in Simulated : p # q => SeedOf(p) # SeedOf(q)

(* While a bin is being simulated a finished particle is never touched again.*)
FinishedKept ==
  [][main # "bin" => \A i \in Index : Particle[i].state = "done" => Particle'[i] = Particle[i]]_vars

(* The table is constructed once: tables[i] never changes once set, which is *)
(* what allows get_distance_intp to read it after the unlock.                *)
TableStable == [][table # NULL => table' = table]_vars

(* The inductive invariant behind these properties and the refinement below. *)
MutexInv ==
  \A a \in Actors : /\ InIp(a) => owner["ip"] = a
                    /\ InTab(a) => owner[Mtx("tab")] = a

Simulating == main \in {"spawn", "join", "serial"}

IdleInv == main \in {"bin", "done"} => \A a \in Actors : pc[a] = "none"

SerialInv ==
  main = "serial" => /\ ~Parallel
                     /\ pc[Main] = "loop" \/ Working(Main)
                     /\ \A w \in Workers : pc[w] = "none"

ParallelInv == main \in {"spawn", "join"} => Parallel /\ nth <= conf.th_num /\ pc[Main] = "none"

SpawnInv == main = "spawn" => \A w \in Workers : pc[w] = "none" <=> w > nth

JoinInv ==
  main = "join" => /\ \A w \in Workers : pc[w] = "none" <=> w <= nth \/ w > conf.th_num
                   /\ nth > 0 => ip >= Number

ExitInv == \A w \in Workers : pc[w] # "loop" /\ (pc[w] = "exit" => ip >= Number)

BinInv == bin <= NBins /\ (Simulating => bin < NBins)

PhaseInv ==
  Running => IdleInv /\ SerialInv /\ ParallelInv /\ SpawnInv /\ JoinInv /\ ExitInv /\ BinInv

HandOverInv ==
  Running =>
    /\ \A a \in Actors : pc[a] = "bump" => ip_local[a] = ip /\ ip < Number
    /\ \A a \in Actors : /\ pc[a] = "copy" => Mine(a).state = "default"
                         /\ pc[a] = "seed" => Mine(a).state = "copied"
                         /\ Working(a) /\ pc[a] \notin {"copy", "seed"} => Mine(a).state = "seeded"

SeedFits(b, i, s) == IF conf.fix_seed THEN s = SeedBase(b) + i ELSE s \in Draws

ParticleInv ==
  Running /\ Simulating =>
    \A i \in Index :
      /\ i >= ip => Particle[i].state = "default"
      /\ Particle[i].state # "default" => Particle[i].ek = bin
      /\ Particle[i].state = "copied" => Particle[i].seed = TemplateSeed
      /\ Particle[i].state \in {"seeded", "done"} => SeedFits(bin, i, Particle[i].seed)

WeightInv ==
  /\ Len(weight) = bin
  /\ \A k \in 1 .. Len(weight) : \A i \in Index :
       weight[k][i].ek = k - 1 /\ SeedFits(k - 1, i, weight[k][i].seed)

(* Who builds finds no table, who is past the test finds one. *)
TableInv ==
  \A a \in Actors : /\ pc[a] = "tbuild" => table = NULL
                    /\ pc[a] \in {"tunlock", "eval"} => table # NULL

IInv == TypeOK /\ MutexInv /\ PhaseInv /\ ClaimInv /\ HandOverInv /\ ParticleInv /\ WeightInv

(* Whatever the threads do, the program reports what the one-threaded loop   *)
(* would: the bins in order, each particle with its own energy and seed.     *)
Serial == INSTANCE SerialSim WITH fixed <- conf.fix_seed, aborted <- (main = "aborted")

ImplementsSerial == Serial!Spec

(* The program ends: no thread waits for ever for a mutex or for a join.     *)
Termination == <>(main \in {"done", "aborted"})
=============================================================================
