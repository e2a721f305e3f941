-------------------------- MODULE SimulatingProofs --------------------------
(***************************************************************************)
(* Proofs about Simulating, and at the end about Modulation, whose         *)
(* property is one of its states.  IInv, the conjunction of the type invariant *)
(* with the mutex, phase, claim, hand-over, particle and weight            *)
(* invariants, is inductive: each conjunct is preserved by every action    *)
(* given all of them, by the lemmas XStep below, one step per action.      *)
(* Frame lemmas say when a conjunct is left alone.  The properties, the    *)
(* refinement of SerialSim and the distribution of the particles over the  *)
(* Green function follow from IInv.                                        *)
(***************************************************************************)
EXTENDS Modulation, TLAPS, FiniteSetTheorems, WellFoundedInduction, NaturalsInduction

(* A bin's seed base is an integer: --seed and --number are.                 *)
LEMMA SeedBaseType == \A b \in Int : SeedBase(b) \in Int
  BY ConstantsAssumption DEF SeedBase

(* The main thread is an actor, and no worker.                               *)
LEMMA MainIsActor ==
  Main \in Actors /\ (\A w \in Workers : w \in Actors /\ w # Main) /\ Actors = {Main} \cup Workers
  BY ConstantsAssumption DEF Main, Actors, Workers

(* A working thread owns a particle of the vector. *)
LEMMA MineType ==
  ASSUME IInv, Running, NEW a \in Actors, Working(a)
  PROVE  /\ ip_local[a] \in Index /\ ip_local[a] < ip
         /\ Mine(a) \in ParticleRec
  BY DEF IInv, TypeOK, ClaimInv, Mine

(* Storing a particle record at the claimed index keeps the vector well typed. *)
LEMMA SetMineType ==
  ASSUME TypeOK, NEW a \in Actors, NEW p \in ParticleRec, SetMine(a, p)
  PROVE  Particle' \in [Index -> ParticleRec]
  BY DEF TypeOK, SetMine

(* Seeding and finishing a particle yield particle records.                  *)
LEMMA RecordUpdate ==
  ASSUME NEW p \in ParticleRec
  PROVE  /\ [p EXCEPT !.state = "done"] \in ParticleRec
         /\ \A s \in Int : [p EXCEPT !.seed = s, !.state = "seeded"] \in ParticleRec
  BY DEF ParticleRec

(* Every step keeps the type of every variable.                              *)
LEMMA TypeStep == IInv /\ [Next]_vars => TypeOK'
  <1> SUFFICES ASSUME IInv, [Next]_vars PROVE TypeOK'
    OBVIOUS
  <1> USE DEF IInv, TypeOK, mainVars, tableVars, Place, Goto, Acquire, Release
  <1>1. CASE BeginBin
    <2>1. Particle' \in [Index -> ParticleRec]
      BY <1>1 DEF BeginBin, Blank, ParticleRec
    <2>2. pc' \in [Actors -> Place]
      BY <1>1, MainIsActor DEF BeginBin
    <2> QED
      BY <1>1, <2>1, <2>2 DEF BeginBin
  <1>2. CASE Spawn
    <2>1. PICK k : k = nth + 1
      OBVIOUS
    <2>2. pc' = [pc EXCEPT ![k] = "lock"]
      BY <1>2, <2>1 DEF Spawn
    <2>3. pc' \in [Actors -> Place]
      BY <2>2
    <2> QED
      BY <1>2, <2>3 DEF Spawn
  <1>3. CASE AllSpawned
    BY <1>3 DEF AllSpawned
  <1>4. CASE Join
    <2>1. PICK k : k = nth + 1
      OBVIOUS
    <2>2. pc' = [pc EXCEPT ![k] = "none"]
      BY <1>4, <2>1 DEF Join
    <2>3. pc' \in [Actors -> Place]
      BY <2>2
    <2> QED
      BY <1>4, <2>3 DEF Join
  <1>5. CASE Collect
    <2>1. Outcome \in BinResult
      BY DEF Outcome, BinResult, ParticleRec
    <2>2. weight' \in Seq(BinResult)
      BY <1>5, <2>1 DEF Collect
    <2>3. pc' \in [Actors -> Place]
      BY <1>5, MainIsActor DEF Collect
    <2>4. bin' \in 0 .. NBins
      BY <1>5, ConstantsAssumption DEF Collect, ReturnReady, PhaseInv, BinInv, Running, Simulating
    <2> QED
      BY <1>5, <2>2, <2>3, <2>4 DEF Collect
  <1>6. CASE Finish
    BY <1>6 DEF Finish
  <1>7. CASE SerialNext
    <2>1. ip_local' \in [Actors -> Int] /\ pc' \in [Actors -> Place]
      BY <1>7, MainIsActor DEF SerialNext
    <2> QED
      BY <1>7, <2>1 DEF SerialNext
  <1>8. ASSUME NEW a \in Actors, Running, LockIp(a) PROVE TypeOK'
    BY <1>8 DEF LockIp
  <1>9. ASSUME NEW a \in Actors, Running, Drained(a) PROVE TypeOK'
    BY <1>9 DEF Drained
  <1>10. ASSUME NEW a \in Actors, Running, Take(a) PROVE TypeOK'
    BY <1>10 DEF Take
  <1>11. ASSUME NEW a \in Actors, Running, Bump(a) PROVE TypeOK'
    <2>1. ip' \in Nat
      BY <1>11 DEF Bump
    <2>2. owner' \in [Mutexes -> Actors \cup {NoOne}]
      BY <1>11 DEF Bump
    <2> QED
      BY <1>11, <2>1, <2>2 DEF Bump
  <1>12. ASSUME NEW a \in Actors, Running, Copy(a) PROVE TypeOK'
    <2>1. [ek |-> bin, seed |-> TemplateSeed, state |-> "copied"] \in ParticleRec
      BY SeedBaseType DEF TemplateSeed, ParticleRec
    <2>2. Particle' \in [Index -> ParticleRec]
      BY <1>12, <2>1, SetMineType DEF Copy
    <2> QED
      BY <1>12, <2>2 DEF Copy
  <1>13. ASSUME NEW a \in Actors, Running, Seed(a) PROVE TypeOK'
    <2>1. ip_local[a] \in Index /\ Mine(a) \in ParticleRec
      BY <1>13, MineType DEF Seed, Working
    <2>2. SeedsFor(a) \subseteq Int
      <3>1. Mine(a).seed + ip_local[a] \in Int
        BY <2>1 DEF Index, ParticleRec
      <3> QED
        BY <3>1, ConstantsAssumption DEF SeedsFor
    <2>3. PICK s \in SeedsFor(a) : SetMine(a, [Mine(a) EXCEPT !.seed = s, !.state = "seeded"])
      BY <1>13 DEF Seed
    <2>4. Particle' \in [Index -> ParticleRec]
      BY <2>1, <2>2, <2>3, RecordUpdate, SetMineType
    <2>5. calls' \in [Actors -> 0 .. MaxCalls]
      BY <1>13, ConstantsAssumption DEF Seed
    <2> QED
      BY <1>13, <2>4, <2>5 DEF Seed
  <1>14. ASSUME NEW a \in Actors, Running, Stepped(a) PROVE TypeOK'
    <2>1. Particle' \in [Index -> ParticleRec]
      BY <1>14, MineType, RecordUpdate, SetMineType DEF Stepped, Working
    <2> QED
      BY <1>14, <2>1 DEF Stepped
  <1>15. ASSUME NEW a \in Actors, Running, Distance(a) PROVE TypeOK'
    BY <1>15, ConstantsAssumption DEF Distance
  <1>16. ASSUME NEW a \in Actors, Running, AxisAssertFails(a) PROVE TypeOK'
    BY <1>16 DEF AxisAssertFails
  <1>17. ASSUME NEW a \in Actors, Running, LockTable(a) PROVE TypeOK'
    BY <1>17 DEF LockTable
  <1>18. ASSUME NEW a \in Actors, Running, BuildTable(a) PROVE TypeOK'
    BY <1>18 DEF BuildTable
  <1>19. ASSUME NEW a \in Actors, Running, FileAssertFails(a) PROVE TypeOK'
    BY <1>19 DEF FileAssertFails
  <1>20. ASSUME NEW a \in Actors, Running, UnlockTable(a) PROVE TypeOK'
    BY <1>20 DEF UnlockTable
  <1>21. ASSUME NEW a \in Actors, Running, Eval(a) PROVE TypeOK'
    BY <1>21 DEF Eval
  <1>22. CASE UNCHANGED vars
    BY <1>22 DEF vars
  <1> QED
    BY <1>1, <1>2, <1>3, <1>4, <1>5, <1>6, <1>7, <1>8, <1>9, <1>10, <1>11, <1>12, <1>13, <1>14, <1>15, <1>16, <1>17, <1>18, <1>19, <1>20, <1>21, <1>22 DEF Next, MainStep, Thread, Claim, Simulate, GetDistance, Terminated

(* What Goto and the two mutex operations do, actor by actor. *)
LEMMA GotoEffect ==
  ASSUME TypeOK, NEW a \in Actors, NEW place, Goto(a, place)
  PROVE  pc'[a] = place /\ \A b \in Actors : b # a => pc'[b] = pc[b]
  BY DEF TypeOK, Goto

(* The two mutex names denote mutexes, and nobody is not a thread.           *)
LEMMA MtxType == Mtx("ip") = "ip" /\ Mtx("tab") \in Mutexes /\ "ip" \in Mutexes /\ NoOne \notin Actors
  BY ConstantsAssumption DEF Mtx, Mutexes, NoOne, Actors

(* Starting thread nth + 1 changes the place of that thread only.            *)
LEMMA SpawnEffect ==
  ASSUME TypeOK, Spawn
  PROVE  /\ nth + 1 \in Workers /\ pc'[nth + 1] = "lock"
         /\ \A b \in Actors : b # nth + 1 => pc'[b] = pc[b]
  BY ConstantsAssumption DEF TypeOK, Spawn, Workers, Actors, Config

(* Joining thread nth + 1 changes the place of that thread only.             *)
LEMMA JoinEffect ==
  ASSUME TypeOK, Join
  PROVE  /\ nth + 1 \in Workers /\ pc[nth + 1] = "exit" /\ pc'[nth + 1] = "none"
         /\ \A b \in Actors : b # nth + 1 => pc'[b] = pc[b]
  BY ConstantsAssumption DEF TypeOK, Join, Workers, Actors, Config

(* Whoever is in a critical section owns its mutex, after every step too.    *)
LEMMA MutexStep == IInv /\ [Next]_vars => MutexInv'
  <1> SUFFICES ASSUME IInv, [Next]_vars PROVE MutexInv'
    OBVIOUS
  <1> USE MtxType DEF IInv, TypeOK, MutexInv, InIp, InTab, mainVars, Acquire, Release
  <1>1. CASE BeginBin
    BY <1>1, MainIsActor DEF BeginBin
  <1>2. CASE Spawn
    BY <1>2, SpawnEffect DEF Spawn
  <1>3. CASE AllSpawned
    BY <1>3 DEF AllSpawned
  <1>4. CASE Join
    BY <1>4, JoinEffect DEF Join
  <1>5. CASE Collect
    BY <1>5, MainIsActor DEF Collect
  <1>6. CASE Finish
    BY <1>6 DEF Finish
  <1>7. CASE SerialNext
    <2>1. pc'[Main] = "copy" /\ \A b \in Actors : b # Main => pc'[b] = pc[b]
      BY <1>7, GotoEffect, MainIsActor DEF SerialNext
    <2> QED
      BY <1>7, <2>1 DEF SerialNext
  <1>8. ASSUME NEW a \in Actors, Running, LockIp(a) PROVE MutexInv'
    BY <1>8, GotoEffect DEF LockIp
  <1>9. ASSUME NEW a \in Actors, Running, Drained(a) PROVE MutexInv'
    <2>1. owner[Mtx("ip")] = a
      BY <1>9 DEF Drained
    <2>2. /\ \A b \in Actors : b # a => pc'[b] = pc[b] /\ owner[Mtx("ip")] # b
          /\ pc'[a] \notin {"take", "bump", "tbuild", "tunlock"}
      BY <1>9, <2>1, GotoEffect DEF Drained
    <2>3. \A n \in Mutexes : n # Mtx("ip") => owner'[n] = owner[n]
      BY <1>9 DEF Drained
    <2> QED
      BY <2>2, <2>3
  <1>10. ASSUME NEW a \in Actors, Running, Take(a) PROVE MutexInv'
    BY <1>10, GotoEffect DEF Take
  <1>11. ASSUME NEW a \in Actors, Running, Bump(a) PROVE MutexInv'
    <2>1. owner[Mtx("ip")] = a
      BY <1>11 DEF Bump
    <2>2. /\ \A b \in Actors : b # a => pc'[b] = pc[b] /\ owner[Mtx("ip")] # b
          /\ pc'[a] \notin {"take", "bump", "tbuild", "tunlock"}
      BY <1>11, <2>1, GotoEffect DEF Bump
    <2>3. \A n \in Mutexes : n # Mtx("ip") => owner'[n] = owner[n]
      BY <1>11 DEF Bump
    <2> QED
      BY <2>2, <2>3
  <1>12. ASSUME NEW a \in Actors, Running, Copy(a) PROVE MutexInv'
    BY <1>12, GotoEffect DEF Copy
  <1>13. ASSUME NEW a \in Actors, Running, Seed(a) PROVE MutexInv'
    BY <1>13, GotoEffect DEF Seed
  <1>14. ASSUME NEW a \in Actors, Running, Stepped(a) PROVE MutexInv'
    BY <1>14, GotoEffect DEF Stepped
  <1>15. ASSUME NEW a \in Actors, Running, Distance(a) PROVE MutexInv'
    BY <1>15, GotoEffect DEF Distance
  <1>16. ASSUME NEW a \in Actors, Running, AxisAssertFails(a) PROVE MutexInv'
    BY <1>16 DEF AxisAssertFails
  <1>17. ASSUME NEW a \in Actors, Running, LockTable(a) PROVE MutexInv'
    BY <1>17, GotoEffect DEF LockTable
  <1>18. ASSUME NEW a \in Actors, Running, BuildTable(a) PROVE MutexInv'
    BY <1>18, GotoEffect DEF BuildTable
  <1>19. ASSUME NEW a \in Actors, Running, FileAssertFails(a) PROVE MutexInv'
    BY <1>19 DEF FileAssertFails
  <1>20. ASSUME NEW a \in Actors, Running, UnlockTable(a) PROVE MutexInv'
    <2>1. owner[Mtx("tab")] = a
      BY <1>20 DEF UnlockTable
    <2>2. /\ \A b \in Actors : b # a => pc'[b] = pc[b] /\ owner[Mtx("tab")] # b
          /\ pc'[a] \notin {"take", "bump", "tbuild", "tunlock"}
      BY <1>20, <2>1, GotoEffect DEF UnlockTable
    <2>3. \A n \in Mutexes : n # Mtx("tab") => owner'[n] = owner[n]
      BY <1>20 DEF UnlockTable
    <2> QED
      BY <2>2, <2>3
  <1>21. ASSUME NEW a \in Actors, Running, Eval(a) PROVE MutexInv'
    BY <1>21, GotoEffect DEF Eval
  <1>22. CASE UNCHANGED vars
    BY <1>22 DEF vars
  <1> QED
    BY <1>1, <1>2, <1>3, <1>4, <1>5, <1>6, <1>7, <1>8, <1>9, <1>10, <1>11, <1>12, <1>13, <1>14, <1>15, <1>16, <1>17, <1>18, <1>19, <1>20, <1>21, <1>22 DEF Next, MainStep, Thread, Claim, Simulate, GetDistance, Terminated

(* Owning a mutex excludes the others: the invariant gives mutual exclusion  *)
(* (simulating's lock_guard on ip, get_distance_intp's lock on tables[i]).   *)
THEOREM MutexExcludes == IInv => MutualExclusion
  BY DEF IInv, MutexInv, MutualExclusion, InIp, InTab

(* The number of threads is within its bound.                                *)
LEMMA ThNumType == TypeOK => conf.th_num \in 0 .. MaxThreads
  BY DEF TypeOK, Config

(* The assumptions on the constants, as typed facts.                         *)
LEMMA BoundsType == Number \in Nat /\ NBins \in Nat /\ MaxThreads \in Nat /\ MaxCalls \in Nat
  BY ConstantsAssumption

(* A step of a thread that neither starts nor joins one. *)
LEMMA PhaseFrame ==
  ASSUME TypeOK, PhaseInv, Running, UNCHANGED <<conf, mainVars>>,
         ip' \in Nat, ip' >= ip,
         NEW a \in Actors, pc[a] # "none", pc'[a] # "none",
         \A b \in Actors : b # a => pc'[b] = pc[b],
         a = Main => pc'[a] = "loop" \/ Working(a)',
         a # Main => pc'[a] # "loop" /\ (pc'[a] = "exit" => ip' >= Number)
  PROVE  PhaseInv'
  <1> USE MainIsActor DEF PhaseInv, Running, mainVars
  <1>1. IdleInv'
    BY DEF IdleInv
  <1>2. SerialInv'
    BY DEF SerialInv, Parallel, Working
  <1>3. ParallelInv'
    BY DEF ParallelInv, Parallel
  <1>4. SpawnInv'
    BY DEF SpawnInv
  <1>5. JoinInv'
    BY BoundsType DEF JoinInv, TypeOK
  <1>6. ExitInv'
    BY BoundsType DEF ExitInv, TypeOK
  <1>7. BinInv'
    BY DEF BinInv, Simulating
  <1> QED
    BY <1>1, <1>2, <1>3, <1>4, <1>5, <1>6, <1>7


(* The main thread never runs the claiming loop of the workers. *)
LEMMA MainIsClaimless ==
  IInv /\ Running => pc[Main] \notin {"lock", "take", "bump", "exit"}
  <1> SUFFICES ASSUME IInv, Running PROVE pc[Main] \notin {"lock", "take", "bump", "exit"}
    OBVIOUS
  <1>1. main \in {"bin", "done", "serial", "spawn", "join"}
    BY DEF IInv, TypeOK, Running
  <1>2. pc[Main] = "none" \/ pc[Main] = "loop" \/ Working(Main)
    BY <1>1, MainIsActor DEF IInv, PhaseInv, IdleInv, SerialInv, ParallelInv
  <1> QED
    BY <1>2 DEF Working

(* The phases of main() and the places of the threads stay in agreement.     *)
LEMMA PhaseStep == IInv /\ [Next]_vars => PhaseInv'
  <1> SUFFICES ASSUME IInv, [Next]_vars PROVE PhaseInv'
    OBVIOUS
  <1> USE ThNumType, BoundsType DEF IInv, TypeOK, PhaseInv, Running, mainVars, tableVars
  <1>1. CASE BeginBin
    <2>1. IdleInv'
      BY <1>1, MainIsActor DEF BeginBin, IdleInv, Workers
    <2>2. SerialInv'
      BY <1>1, MainIsActor DEF BeginBin, SerialInv, Parallel, Working, IdleInv, Workers
    <2>3. ParallelInv'
      BY <1>1, MainIsActor DEF BeginBin, ParallelInv, Parallel, IdleInv, Workers
    <2>4. SpawnInv'
      <3> SUFFICES ASSUME main' = "spawn", NEW w \in Workers PROVE pc'[w] = "none" /\ w > nth'
        BY DEF SpawnInv
      <3>1. pc' = pc /\ nth' = 0
        BY <1>1 DEF BeginBin
      <3>2. pc[w] = "none"
        BY <1>1, MainIsActor DEF BeginBin, IdleInv
      <3>3. w > 0
        BY DEF Workers
      <3> QED
        BY <3>1, <3>2, <3>3
    <2>5. JoinInv'
      BY <1>1, MainIsActor DEF BeginBin, JoinInv, IdleInv, Workers
    <2>6. ExitInv'
      BY <1>1, MainIsActor DEF BeginBin, ExitInv, IdleInv, Workers
    <2>7. BinInv'
      BY <1>1, MainIsActor DEF BeginBin, BinInv, Simulating, IdleInv, Workers
    <2> QED
      BY <2>1, <2>2, <2>3, <2>4, <2>5, <2>6, <2>7
  <1>2. CASE Spawn
    <2>1. IdleInv'
      BY <1>2, SpawnEffect, MainIsActor DEF Spawn, IdleInv, SpawnInv, Workers
    <2>2. SerialInv'
      BY <1>2, SpawnEffect, MainIsActor DEF Spawn, SerialInv, Parallel, Working, SpawnInv, Workers
    <2>3. ParallelInv'
      BY <1>2, SpawnEffect, MainIsActor DEF Spawn, ParallelInv, Parallel, SpawnInv, Workers
    <2>4. SpawnInv'
      BY <1>2, SpawnEffect, MainIsActor DEF Spawn, SpawnInv, Workers
    <2>5. JoinInv'
      BY <1>2, SpawnEffect, MainIsActor DEF Spawn, JoinInv, SpawnInv, Workers
    <2>6. ExitInv'
      BY <1>2, SpawnEffect, MainIsActor DEF Spawn, ExitInv, SpawnInv, Workers
    <2>7. BinInv'
      BY <1>2, SpawnEffect, MainIsActor DEF Spawn, BinInv, Simulating, SpawnInv, Workers
    <2> QED
      BY <2>1, <2>2, <2>3, <2>4, <2>5, <2>6, <2>7
  <1>3. CASE AllSpawned
    <2>1. IdleInv'
      BY <1>3 DEF AllSpawned, IdleInv, Workers, SpawnInv, ParallelInv, Parallel
    <2>2. SerialInv'
      BY <1>3 DEF AllSpawned, SerialInv, Parallel, Working, Workers, SpawnInv, ParallelInv
    <2>3. ParallelInv'
      BY <1>3 DEF AllSpawned, ParallelInv, Parallel, Workers, SpawnInv
    <2>4. SpawnInv'
      BY <1>3 DEF AllSpawned, SpawnInv, Workers, ParallelInv, Parallel
    <2>5. JoinInv'
      BY <1>3 DEF AllSpawned, JoinInv, Workers, SpawnInv, ParallelInv, Parallel
    <2>6. ExitInv'
      BY <1>3 DEF AllSpawned, ExitInv, Workers, SpawnInv, ParallelInv, Parallel
    <2>7. BinInv'
      BY <1>3 DEF AllSpawned, BinInv, Simulating, Workers, SpawnInv, ParallelInv, Parallel
    <2> QED
      BY <2>1, <2>2, <2>3, <2>4, <2>5, <2>6, <2>7
  <1>4. CASE Join
    <2>1. IdleInv'
      BY <1>4, JoinEffect, MainIsActor DEF Join, IdleInv, Workers, ParallelInv, JoinInv, ExitInv
    <2>2. SerialInv'
      BY <1>4, JoinEffect, MainIsActor DEF Join, SerialInv, Parallel, Working, Workers, ParallelInv, JoinInv, ExitInv
    <2>3. ParallelInv'
      BY <1>4, JoinEffect, MainIsActor DEF Join, ParallelInv, Parallel, Workers, JoinInv, ExitInv
    <2>4. SpawnInv'
      BY <1>4, JoinEffect, MainIsActor DEF Join, SpawnInv, Workers, ParallelInv, JoinInv, ExitInv
    <2>5. JoinInv'
      BY <1>4, JoinEffect, MainIsActor DEF Join, JoinInv, Workers, ParallelInv, ExitInv
    <2>6. ExitInv'
      BY <1>4, JoinEffect, MainIsActor DEF Join, ExitInv, Workers, ParallelInv, JoinInv
    <2>7. BinInv'
      BY <1>4, JoinEffect, MainIsActor DEF Join, BinInv, Simulating, Workers, ParallelInv, JoinInv, ExitInv
    <2> QED
      BY <2>1, <2>2, <2>3, <2>4, <2>5, <2>6, <2>7
  <1>5. CASE Collect
    <2>1. IdleInv'
      BY <1>5, MainIsActor DEF Collect, IdleInv, Workers, ReturnReady, JoinInv, SerialInv, ParallelInv, Parallel, BinInv, Simulating
    <2>2. SerialInv'
      BY <1>5, MainIsActor DEF Collect, SerialInv, Parallel, Working, Workers, ReturnReady, JoinInv, ParallelInv, BinInv, Simulating
    <2>3. ParallelInv'
      BY <1>5, MainIsActor DEF Collect, ParallelInv, Parallel, Workers, ReturnReady, JoinInv, SerialInv, BinInv, Simulating
    <2>4. SpawnInv'
      BY <1>5, MainIsActor DEF Collect, SpawnInv, Workers, ReturnReady, JoinInv, SerialInv, ParallelInv, Parallel, BinInv, Simulating
    <2>5. JoinInv'
      BY <1>5, MainIsActor DEF Collect, JoinInv, Workers, ReturnReady, SerialInv, ParallelInv, Parallel, BinInv, Simulating
    <2>6. ExitInv'
      BY <1>5, MainIsActor DEF Collect, ExitInv, Workers, ReturnReady, JoinInv, SerialInv, ParallelInv, Parallel, BinInv, Simulating
    <2>7. BinInv'
      BY <1>5, MainIsActor DEF Collect, BinInv, Simulating, Workers, ReturnReady, JoinInv, SerialInv, ParallelInv, Parallel
    <2> QED
      BY <2>1, <2>2, <2>3, <2>4, <2>5, <2>6, <2>7
  <1>6. CASE Finish
    <2>1. IdleInv'
      BY <1>6 DEF Finish, IdleInv
    <2>2. SerialInv'
      BY <1>6 DEF Finish, SerialInv, Parallel, Working, IdleInv
    <2>3. ParallelInv'
      BY <1>6 DEF Finish, ParallelInv, Parallel, IdleInv
    <2>4. SpawnInv'
      BY <1>6 DEF Finish, SpawnInv, IdleInv
    <2>5. JoinInv'
      BY <1>6 DEF Finish, JoinInv, IdleInv
    <2>6. ExitInv'
      BY <1>6 DEF Finish, ExitInv, IdleInv
    <2>7. BinInv'
      BY <1>6 DEF Finish, BinInv, Simulating, IdleInv
    <2> QED
      BY <2>1, <2>2, <2>3, <2>4, <2>5, <2>6, <2>7
  <1>7. CASE SerialNext
    <2>1. /\ pc'[Main] = "copy" /\ ip' \in Nat /\ ip' >= ip
          /\ \A b \in Actors : b # Main => pc'[b] = pc[b]
      BY <1>7, GotoEffect, MainIsActor DEF SerialNext
    <2> QED
      BY <1>7, <2>1, MainIsActor, PhaseFrame DEF SerialNext, Working
  <1>8. ASSUME NEW a \in Actors, Running, LockIp(a) PROVE PhaseInv'
    <2>1. /\ pc[a] # "none" /\ pc'[a] # "none" /\ ip' \in Nat /\ ip' >= ip
          /\ \A b \in Actors : b # a => pc'[b] = pc[b]
      BY <1>8, GotoEffect DEF LockIp
    <2>2. a = Main => pc'[a] = "loop" \/ Working(a)'
      BY <1>8, GotoEffect, MainIsClaimless DEF LockIp, Working
    <2>3. a # Main => pc'[a] # "loop" /\ (pc'[a] = "exit" => ip' >= Number)
      BY <1>8, GotoEffect DEF LockIp
    <2> QED
      BY <1>8, <2>1, <2>2, <2>3, PhaseFrame DEF LockIp
  <1>9. ASSUME NEW a \in Actors, Running, Drained(a) PROVE PhaseInv'
    <2>1. /\ pc[a] # "none" /\ pc'[a] # "none" /\ ip' \in Nat /\ ip' >= ip
          /\ \A b \in Actors : b # a => pc'[b] = pc[b]
      BY <1>9, GotoEffect DEF Drained
    <2>2. a = Main => pc'[a] = "loop" \/ Working(a)'
      BY <1>9, GotoEffect, MainIsClaimless DEF Drained, Working
    <2>3. a # Main => pc'[a] # "loop" /\ (pc'[a] = "exit" => ip' >= Number)
      BY <1>9, GotoEffect DEF Drained
    <2> QED
      BY <1>9, <2>1, <2>2, <2>3, PhaseFrame DEF Drained
  <1>10. ASSUME NEW a \in Actors, Running, Take(a) PROVE PhaseInv'
    <2>1. /\ pc[a] # "none" /\ pc'[a] # "none" /\ ip' \in Nat /\ ip' >= ip
          /\ \A b \in Actors : b # a => pc'[b] = pc[b]
      BY <1>10, GotoEffect DEF Take
    <2>2. a = Main => pc'[a] = "loop" \/ Working(a)'
      BY <1>10, GotoEffect, MainIsClaimless DEF Take, Working
    <2>3. a # Main => pc'[a] # "loop" /\ (pc'[a] = "exit" => ip' >= Number)
      BY <1>10, GotoEffect DEF Take
    <2> QED
      BY <1>10, <2>1, <2>2, <2>3, PhaseFrame DEF Take
  <1>11. ASSUME NEW a \in Actors, Running, Bump(a) PROVE PhaseInv'
    <2>1. /\ pc[a] # "none" /\ pc'[a] # "none" /\ ip' \in Nat /\ ip' >= ip
          /\ \A b \in Actors : b # a => pc'[b] = pc[b]
      BY <1>11, GotoEffect DEF Bump
    <2>2. a = Main => pc'[a] = "loop" \/ Working(a)'
      BY <1>11, GotoEffect, MainIsClaimless DEF Bump, Working
    <2>3. a # Main => pc'[a] # "loop" /\ (pc'[a] = "exit" => ip' >= Number)
      BY <1>11, GotoEffect DEF Bump
    <2> QED
      BY <1>11, <2>1, <2>2, <2>3, PhaseFrame DEF Bump
  <1>12. ASSUME NEW a \in Actors, Running, Copy(a) PROVE PhaseInv'
    <2>1. /\ pc[a] # "none" /\ pc'[a] # "none" /\ ip' \in Nat /\ ip' >= ip
          /\ \A b \in Actors : b # a => pc'[b] = pc[b]
      BY <1>12, GotoEffect DEF Copy
    <2>2. a = Main => pc'[a] = "loop" \/ Working(a)'
      BY <1>12, GotoEffect, MainIsClaimless DEF Copy, Working
    <2>3. a # Main => pc'[a] # "loop" /\ (pc'[a] = "exit" => ip' >= Number)
      BY <1>12, GotoEffect DEF Copy
    <2> QED
      BY <1>12, <2>1, <2>2, <2>3, PhaseFrame DEF Copy
  <1>13. ASSUME NEW a \in Actors, Running, Seed(a) PROVE PhaseInv'
    <2>1. /\ pc[a] # "none" /\ pc'[a] # "none" /\ ip' \in Nat /\ ip' >= ip
          /\ \A b \in Actors : b # a => pc'[b] = pc[b]
      BY <1>13, GotoEffect DEF Seed
    <2>2. a = Main => pc'[a] = "loop" \/ Working(a)'
      BY <1>13, GotoEffect, MainIsClaimless DEF Seed, Working
    <2>3. a # Main => pc'[a] # "loop" /\ (pc'[a] = "exit" => ip' >= Number)
      BY <1>13, GotoEffect DEF Seed
    <2> QED
      BY <1>13, <2>1, <2>2, <2>3, PhaseFrame DEF Seed
  <1>14. ASSUME NEW a \in Actors, Running, Stepped(a) PROVE PhaseInv'
    <2>1. /\ pc[a] # "none" /\ pc'[a] # "none" /\ ip' \in Nat /\ ip' >= ip
          /\ \A b \in Actors : b # a => pc'[b] = pc[b]
      BY <1>14, GotoEffect DEF Stepped
    <2>2. a = Main => pc'[a] = "loop" \/ Working(a)'
      BY <1>14, GotoEffect, MainIsClaimless DEF Stepped, Working
    <2>3. a # Main => pc'[a] # "loop" /\ (pc'[a] = "exit" => ip' >= Number)
      BY <1>14, GotoEffect DEF Stepped
    <2> QED
      BY <1>14, <2>1, <2>2, <2>3, PhaseFrame DEF Stepped
  <1>15. ASSUME NEW a \in Actors, Running, Distance(a) PROVE PhaseInv'
    <2>1. /\ pc[a] # "none" /\ pc'[a] # "none" /\ ip' \in Nat /\ ip' >= ip
          /\ \A b \in Actors : b # a => pc'[b] = pc[b]
      BY <1>15, GotoEffect DEF Distance
    <2>2. a = Main => pc'[a] = "loop" \/ Working(a)'
      BY <1>15, GotoEffect, MainIsClaimless DEF Distance, Working
    <2>3. a # Main => pc'[a] # "loop" /\ (pc'[a] = "exit" => ip' >= Number)
      BY <1>15, GotoEffect DEF Distance
    <2> QED
      BY <1>15, <2>1, <2>2, <2>3, PhaseFrame DEF Distance
  <1>16. ASSUME NEW a \in Actors, Running, AxisAssertFails(a) PROVE PhaseInv'
    BY <1>16 DEF AxisAssertFails
  <1>17. ASSUME NEW a \in Actors, Running, LockTable(a) PROVE PhaseInv'
    <2>1. /\ pc[a] # "none" /\ pc'[a] # "none" /\ ip' \in Nat /\ ip' >= ip
          /\ \A b \in Actors : b # a => pc'[b] = pc[b]
      BY <1>17, GotoEffect DEF LockTable
    <2>2. a = Main => pc'[a] = "loop" \/ Working(a)'
      BY <1>17, GotoEffect, MainIsClaimless DEF LockTable, Working
    <2>3. a # Main => pc'[a] # "loop" /\ (pc'[a] = "exit" => ip' >= Number)
      BY <1>17, GotoEffect DEF LockTable
    <2> QED
      BY <1>17, <2>1, <2>2, <2>3, PhaseFrame DEF LockTable
  <1>18. ASSUME NEW a \in Actors, Running, BuildTable(a) PROVE PhaseInv'
    <2>1. /\ pc[a] # "none" /\ pc'[a] # "none" /\ ip' \in Nat /\ ip' >= ip
          /\ \A b \in Actors : b # a => pc'[b] = pc[b]
      BY <1>18, GotoEffect DEF BuildTable
    <2>2. a = Main => pc'[a] = "loop" \/ Working(a)'
      BY <1>18, GotoEffect, MainIsClaimless DEF BuildTable, Working
    <2>3. a # Main => pc'[a] # "loop" /\ (pc'[a] = "exit" => ip' >= Number)
      BY <1>18, GotoEffect DEF BuildTable
    <2> QED
      BY <1>18, <2>1, <2>2, <2>3, PhaseFrame DEF BuildTable
  <1>19. ASSUME NEW a \in Actors, Running, FileAssertFails(a) PROVE PhaseInv'
    BY <1>19 DEF FileAssertFails
  <1>20. ASSUME NEW a \in Actors, Running, UnlockTable(a) PROVE PhaseInv'
    <2>1. /\ pc[a] # "none" /\ pc'[a] # "none" /\ ip' \in Nat /\ ip' >= ip
          /\ \A b \in Actors : b # a => pc'[b] = pc[b]
      BY <1>20, GotoEffect DEF UnlockTable
    <2>2. a = Main => pc'[a] = "loop" \/ Working(a)'
      BY <1>20, GotoEffect, MainIsClaimless DEF UnlockTable, Working
    <2>3. a # Main => pc'[a] # "loop" /\ (pc'[a] = "exit" => ip' >= Number)
      BY <1>20, GotoEffect DEF UnlockTable
    <2> QED
      BY <1>20, <2>1, <2>2, <2>3, PhaseFrame DEF UnlockTable
  <1>21. ASSUME NEW a \in Actors, Running, Eval(a) PROVE PhaseInv'
    <2>1. /\ pc[a] # "none" /\ pc'[a] # "none" /\ ip' \in Nat /\ ip' >= ip
          /\ \A b \in Actors : b # a => pc'[b] = pc[b]
      BY <1>21, GotoEffect DEF Eval
    <2>2. a = Main => pc'[a] = "loop" \/ Working(a)'
      BY <1>21, GotoEffect, MainIsClaimless DEF Eval, Working
    <2>3. a # Main => pc'[a] # "loop" /\ (pc'[a] = "exit" => ip' >= Number)
      BY <1>21, GotoEffect DEF Eval
    <2> QED
      BY <1>21, <2>1, <2>2, <2>3, PhaseFrame DEF Eval
  <1>22. CASE UNCHANGED vars
    BY <1>22 DEF vars, IdleInv, SerialInv, ParallelInv, SpawnInv, JoinInv, ExitInv, BinInv, Parallel, Working, Simulating
  <1> QED
    BY <1>1, <1>2, <1>3, <1>4, <1>5, <1>6, <1>7, <1>8, <1>9, <1>10, <1>11, <1>12, <1>13, <1>14, <1>15, <1>16, <1>17, <1>18, <1>19, <1>20, <1>21, <1>22 DEF Next, MainStep, Thread, Claim, Simulate, GetDistance, Terminated

(* Storing at the claimed index leaves every other particle alone.           *)
LEMMA SetMineEffect ==
  ASSUME IInv, Running, NEW a \in Actors, Working(a), NEW p, SetMine(a, p)
  PROVE  /\ Particle'[ip_local[a]] = p
         /\ \A i \in Index : i # ip_local[a] => Particle'[i] = Particle[i]
  BY MineType DEF IInv, TypeOK, SetMine

(* A step that starts and ends no particle leaves the claims as they are. *)
LEMMA ClaimFrame ==
  ASSUME IInv, Running, ip' = ip,
         \A b \in Actors : Working(b) => ip_local'[b] = ip_local[b],
         \A b \in Actors : Working(b)' <=> Working(b),
         \A i \in Index : Particle[i].state = "done" => Particle'[i].state = "done"
  PROVE  ClaimInv'
  <1>1. ASSUME NEW i \in Index, i < ip', Particle'[i].state # "done"
        PROVE  \E a \in Actors : Working(a)' /\ ip_local'[a] = i
    BY <1>1 DEF IInv, ClaimInv
  <1>2. \A a \in Actors : Working(a)' => ip_local'[a] \in Index /\ ip_local'[a] < ip'
    BY DEF IInv, ClaimInv
  <1>3. \A a, b \in Actors : a # b /\ Working(a)' /\ Working(b)' => ip_local'[a] # ip_local'[b]
    BY DEF IInv, ClaimInv
  <1> QED
    BY <1>1, <1>2, <1>3 DEF ClaimInv

(* Indices stay handed out once each, and none is lost.                      *)
LEMMA ClaimStep == IInv /\ [Next]_vars => ClaimInv'
  <1> SUFFICES ASSUME IInv, [Next]_vars PROVE ClaimInv'
    OBVIOUS
  <1>0. TypeOK /\ MutexInv /\ PhaseInv /\ ClaimInv /\ HandOverInv /\ ParticleInv /\ WeightInv
    BY DEF IInv
  <1> USE DEF Running, mainVars, tableVars
  <1>1. CASE BeginBin
    <2>1. \A b \in Actors : ~Working(b)'
      BY <1>1, <1>0, MainIsActor DEF BeginBin, TypeOK, PhaseInv, IdleInv, Working
    <2> QED
      BY <1>1, <1>0, <2>1, BoundsType DEF BeginBin, ClaimInv, Index
  <1>2. CASE Spawn
    <2>1. \A b \in Actors : Working(b)' <=> Working(b)
      BY <1>2, <1>0, SpawnEffect, MainIsActor DEF Spawn, TypeOK, Workers, Working, PhaseInv, SpawnInv
    <2> QED
      BY <1>2, <1>0, <2>1, ClaimFrame DEF Spawn
  <1>3. CASE AllSpawned
    BY <1>3, <1>0, ClaimFrame DEF AllSpawned, Working
  <1>4. CASE Join
    <2>1. \A b \in Actors : Working(b)' <=> Working(b)
      BY <1>4, <1>0, JoinEffect, MainIsActor DEF Join, TypeOK, Workers, Working
    <2> QED
      BY <1>4, <1>0, <2>1, ClaimFrame DEF Join
  <1>5. CASE Collect
    <2>1. \A b \in Actors : Working(b)' <=> Working(b)
      BY <1>5, <1>0, MainIsActor DEF Collect, TypeOK, ReturnReady, Working, PhaseInv, ParallelInv
    <2> QED
      BY <1>5, <1>0, <2>1, ClaimFrame DEF Collect, ReturnReady
  <1>6. CASE Finish
    BY <1>6, <1>0, ClaimFrame DEF Finish, Working
  <1>7. CASE SerialNext
    <2>1. ip \in Index /\ ip' = ip + 1 /\ Particle' = Particle
      BY <1>7, <1>0, BoundsType DEF SerialNext, Index, TypeOK
    <2>2. Working(Main)' /\ ip_local'[Main] = ip /\ \A b \in Actors : b # Main => ~Working(b)'
      BY <1>7, <1>0, GotoEffect, MainIsActor DEF SerialNext, TypeOK, Working, PhaseInv, SerialInv
    <2>3. \A b \in Actors : ~Working(b)
      BY <1>7, <1>0, MainIsActor DEF SerialNext, TypeOK, Working, PhaseInv, SerialInv
    <2>4. ASSUME NEW i \in Index, i < ip'
          PROVE  Particle'[i].state = "done" \/ \E b \in Actors : Working(b)' /\ ip_local'[b] = i
      <3>1. CASE i = ip
        BY <3>1, <2>2, MainIsActor
      <3>2. CASE i < ip
        BY <1>7, <1>0, <3>2, <2>1, <2>3 DEF ClaimInv, SerialNext
      <3> QED
        BY <1>7, <1>0, <2>4, <2>1, <3>1, <3>2 DEF Index, TypeOK
    <2> QED
      BY <1>7, <1>0, <2>1, <2>2, <2>4 DEF ClaimInv, Index, TypeOK
  <1>8. ASSUME NEW a \in Actors, Running, LockIp(a) PROVE ClaimInv'
    <2>1. \A b \in Actors : Working(b)' <=> Working(b)
      BY <1>8, <1>0, GotoEffect DEF LockIp, Working
    <2> QED
      BY <1>8, <1>0, <2>1, ClaimFrame DEF LockIp
  <1>9. ASSUME NEW a \in Actors, Running, Drained(a) PROVE ClaimInv'
    <2>1. \A b \in Actors : Working(b)' <=> Working(b)
      BY <1>9, <1>0, GotoEffect DEF Drained, Working
    <2> QED
      BY <1>9, <1>0, <2>1, ClaimFrame DEF Drained
  <1>10. ASSUME NEW a \in Actors, Running, Take(a) PROVE ClaimInv'
    <2>1. \A b \in Actors : Working(b)' <=> Working(b)
      BY <1>10, <1>0, GotoEffect DEF Take, Working
    <2>2. \A b \in Actors : Working(b) => ip_local'[b] = ip_local[b]
      BY <1>10, <1>0 DEF Take, Working
    <2> QED
      BY <1>10, <1>0, <2>1, <2>2, ClaimFrame DEF Take
  <1>11. ASSUME NEW a \in Actors, Running, Bump(a) PROVE ClaimInv'
    <2>1. ip_local[a] = ip /\ ip \in Index /\ ~Working(a) /\ ip' = ip + 1
      BY <1>11, <1>0, BoundsType DEF Bump, HandOverInv, Working, Index, TypeOK
    <2>2. Working(a)' /\ \A b \in Actors : b # a => (Working(b)' <=> Working(b))
      BY <1>11, <1>0, GotoEffect DEF Bump, Working
    <2>3. UNCHANGED <<ip_local, Particle>>
      BY <1>11, <1>0 DEF Bump
    <2>4. \A b \in Actors : Working(b)' => ip_local'[b] \in Index /\ ip_local'[b] < ip'
      BY <1>11, <1>0, <2>1, <2>2, <2>3 DEF ClaimInv, Index, TypeOK
    <2>5. \A b, c \in Actors : b # c /\ Working(b)' /\ Working(c)' => ip_local'[b] # ip_local'[c]
      BY <1>11, <1>0, <2>1, <2>2, <2>3 DEF ClaimInv, Index, TypeOK
    <2>6. ASSUME NEW i \in Index, i < ip'
          PROVE  Particle'[i].state = "done" \/ \E b \in Actors : Working(b)' /\ ip_local'[b] = i
      <3>1. CASE i = ip
        BY <3>1, <2>1, <2>2, <2>3
      <3>2. CASE i < ip
        BY <1>11, <1>0, <3>2, <2>1, <2>2, <2>3 DEF ClaimInv
      <3> QED
        BY <1>11, <1>0, <2>6, <2>1, <3>1, <3>2 DEF Index, TypeOK
    <2> QED
      BY <2>4, <2>5, <2>6 DEF ClaimInv
  <1>12. ASSUME NEW a \in Actors, Running, Copy(a) PROVE ClaimInv'
    <2>1. \A b \in Actors : Working(b)' <=> Working(b)
      BY <1>12, <1>0, GotoEffect DEF Copy, Working
    <2>2. Working(a) /\ Mine(a).state # "done"
      BY <1>12, <1>0 DEF Copy, Working, HandOverInv
    <2>3. \A i \in Index : i # ip_local[a] => Particle'[i] = Particle[i]
      BY <1>12, <1>0, <2>2, SetMineEffect DEF Copy
    <2> QED
      BY <1>12, <1>0, <2>1, <2>2, <2>3, ClaimFrame DEF Copy, Mine
  <1>13. ASSUME NEW a \in Actors, Running, Seed(a) PROVE ClaimInv'
    <2>1. \A b \in Actors : Working(b)' <=> Working(b)
      BY <1>13, <1>0, GotoEffect DEF Seed, Working
    <2>2. Working(a) /\ Mine(a).state # "done"
      BY <1>13, <1>0 DEF Seed, Working, HandOverInv
    <2>3. \A i \in Index : i # ip_local[a] => Particle'[i] = Particle[i]
      BY <1>13, <1>0, <2>2, SetMineEffect DEF Seed
    <2> QED
      BY <1>13, <1>0, <2>1, <2>2, <2>3, ClaimFrame DEF Seed, Mine
  <1>14. ASSUME NEW a \in Actors, Running, Stepped(a) PROVE ClaimInv'
    <2>1. Working(a) /\ ~Working(a)' /\ \A b \in Actors : b # a => (Working(b)' <=> Working(b))
      BY <1>14, <1>0, GotoEffect DEF Stepped, Working
    <2>2. UNCHANGED <<ip, ip_local>>
      BY <1>14, <1>0 DEF Stepped
    <2>3. ip_local[a] \in Index /\ Mine(a) \in ParticleRec
      BY <1>14, <1>0, <2>1, MineType
    <2>4. [Mine(a) EXCEPT !.state = "done"].state = "done"
      BY <2>3 DEF ParticleRec
    <2>5. /\ Particle'[ip_local[a]].state = "done"
          /\ \A i \in Index : i # ip_local[a] => Particle'[i] = Particle[i]
      BY <1>14, <1>0, <2>1, <2>4, SetMineEffect DEF Stepped
    <2>6. ASSUME NEW i \in Index, i < ip'
          PROVE  Particle'[i].state = "done" \/ \E b \in Actors : Working(b)' /\ ip_local'[b] = i
      BY <1>14, <1>0, <2>6, <2>1, <2>2, <2>5 DEF ClaimInv
    <2>7. \A b \in Actors : Working(b)' => Working(b)
      BY <2>1
    <2> QED
      BY <1>14, <1>0, <2>2, <2>6, <2>7 DEF ClaimInv
  <1>15. ASSUME NEW a \in Actors, Running, Distance(a) PROVE ClaimInv'
    <2>1. \A b \in Actors : Working(b)' <=> Working(b)
      BY <1>15, <1>0, GotoEffect DEF Distance, Working
    <2> QED
      BY <1>15, <1>0, <2>1, ClaimFrame DEF Distance
  <1>16. ASSUME NEW a \in Actors, Running, AxisAssertFails(a) PROVE ClaimInv'
    BY <1>16, <1>0 DEF AxisAssertFails, ClaimInv, Running
  <1>17. ASSUME NEW a \in Actors, Running, LockTable(a) PROVE ClaimInv'
    <2>1. \A b \in Actors : Working(b)' <=> Working(b)
      BY <1>17, <1>0, GotoEffect DEF LockTable, Working
    <2> QED
      BY <1>17, <1>0, <2>1, ClaimFrame DEF LockTable
  <1>18. ASSUME NEW a \in Actors, Running, BuildTable(a) PROVE ClaimInv'
    <2>1. \A b \in Actors : Working(b)' <=> Working(b)
      BY <1>18, <1>0, GotoEffect DEF BuildTable, Working
    <2> QED
      BY <1>18, <1>0, <2>1, ClaimFrame DEF BuildTable
  <1>19. ASSUME NEW a \in Actors, Running, FileAssertFails(a) PROVE ClaimInv'
    BY <1>19, <1>0 DEF FileAssertFails, ClaimInv, Running
  <1>20. ASSUME NEW a \in Actors, Running, UnlockTable(a) PROVE ClaimInv'
    <2>1. \A b \in Actors : Working(b)' <=> Working(b)
      BY <1>20, <1>0, GotoEffect DEF UnlockTable, Working
    <2> QED
      BY <1>20, <1>0, <2>1, ClaimFrame DEF UnlockTable
  <1>21. ASSUME NEW a \in Actors, Running, Eval(a) PROVE ClaimInv'
    <2>1. \A b \in Actors : Working(b)' <=> Working(b)
      BY <1>21, <1>0, GotoEffect DEF Eval, Working
    <2> QED
      BY <1>21, <1>0, <2>1, ClaimFrame DEF Eval
  <1>22. CASE UNCHANGED vars
    BY <1>22, <1>0 DEF vars, ClaimInv, Working
  <1> QED
    BY <1>1, <1>2, <1>3, <1>4, <1>5, <1>6, <1>7, <1>8, <1>9, <1>10, <1>11, <1>12, <1>13, <1>14, <1>15, <1>16, <1>17, <1>18, <1>19, <1>20, <1>21, <1>22 DEF Next, MainStep, Thread, Claim, Simulate, GetDistance, Terminated

(* A step that touches no particle and hands none over. *)
LEMMA HandOverFrame ==
  ASSUME IInv, Running, UNCHANGED <<ip, Particle>>,
         \A b \in Actors : pc'[b] = pc[b] \/ ~(pc'[b] \in {"bump", "copy", "seed"} \/ Working(b)')
                           \/ (Working(b) /\ Working(b)' /\ pc[b] \notin {"copy", "seed"}
                                          /\ pc'[b] \notin {"copy", "seed"}),
         \A b \in Actors : pc[b] # "lock" => ip_local'[b] = ip_local[b]
  PROVE  HandOverInv'
  <1>1. HandOverInv
    BY DEF IInv
  <1>2. ASSUME NEW b \in Actors PROVE pc'[b] = "bump" => ip_local'[b] = ip' /\ ip' < Number
    BY <1>1 DEF HandOverInv, Working
  <1>3. ASSUME NEW b \in Actors
        PROVE  /\ pc'[b] = "copy" => Mine(b)'.state = "default"
               /\ pc'[b] = "seed" => Mine(b)'.state = "copied"
               /\ Working(b)' /\ pc'[b] \notin {"copy", "seed"} => Mine(b)'.state = "seeded"
    BY <1>1 DEF HandOverInv, Working, Mine
  <1> QED
    BY <1>2, <1>3 DEF HandOverInv

(* Only the owner of a particle changes it, so the others keep theirs. *)
LEMMA OthersKeepTheirs ==
  ASSUME IInv, Running, NEW a \in Actors, Working(a), NEW p, SetMine(a, p), UNCHANGED ip_local
  PROVE  /\ Mine(a)' = p
         /\ \A b \in Actors : b # a /\ Working(b) => Mine(b)' = Mine(b)
  <1>1. \A b \in Actors : b # a /\ Working(b) => ip_local[b] \in Index /\ ip_local[b] # ip_local[a]
    BY DEF IInv, ClaimInv
  <1> QED
    BY <1>1, SetMineEffect DEF Mine

(* The fields of an updated particle record.                                 *)
LEMMA RecordFields ==
  ASSUME NEW p \in ParticleRec
  PROVE  /\ LET q == [p EXCEPT !.state = "done"] IN q.state = "done" /\ q.seed = p.seed /\ q.ek = p.ek
         /\ \A s : LET q == [p EXCEPT !.seed = s, !.state = "seeded"]
                   IN  q.state = "seeded" /\ q.seed = s /\ q.ek = p.ek
  BY DEF ParticleRec

(* A thread finds its particle in the state its place in the code expects.   *)
LEMMA HandOverStep == IInv /\ [Next]_vars => HandOverInv'
  <1> SUFFICES ASSUME IInv, [Next]_vars PROVE HandOverInv'
    OBVIOUS
  <1>0. TypeOK /\ MutexInv /\ PhaseInv /\ ClaimInv /\ HandOverInv /\ ParticleInv /\ WeightInv
    BY DEF IInv
  <1> USE DEF Running, mainVars, tableVars
  <1>1. CASE BeginBin
    <2>1. \A b \in Actors : pc'[b] \in {"none", "loop"}
      BY <1>1, <1>0, MainIsActor DEF BeginBin, TypeOK, PhaseInv, IdleInv
    <2> QED
      BY <1>1, <2>1 DEF HandOverInv, Working
  <1>2. CASE Spawn
    BY <1>2, <1>0, SpawnEffect, MainIsActor, HandOverFrame DEF Spawn, Working
  <1>3. CASE AllSpawned
    BY <1>3, HandOverFrame DEF AllSpawned, Working
  <1>4. CASE Join
    BY <1>4, <1>0, JoinEffect, MainIsActor, HandOverFrame DEF Join, Working
  <1>5. CASE Collect
    <2>1. \A b \in Actors : pc'[b] = pc[b] \/ pc'[b] = "none"
      BY <1>5, <1>0, MainIsActor DEF Collect, TypeOK
    <2> QED
      BY <1>5, <2>1, HandOverFrame DEF Collect, ReturnReady, Working
  <1>6. CASE Finish
    BY <1>6, HandOverFrame DEF Finish, Working
  <1>7. CASE SerialNext
    <2>1. /\ pc'[Main] = "copy" /\ ip_local'[Main] = ip /\ ip \in Index /\ UNCHANGED Particle
          /\ \A b \in Actors : b # Main => pc'[b] = "none"
      BY <1>7, <1>0, GotoEffect, MainIsActor, BoundsType DEF SerialNext, TypeOK, PhaseInv, SerialInv, Index
    <2>2. Mine(Main)'.state = "default"
      BY <1>7, <1>0, <2>1 DEF SerialNext, ParticleInv, Simulating, Mine, TypeOK
    <2> QED
      BY <2>1, <2>2, MainIsActor DEF HandOverInv, Working
  <1>8. ASSUME NEW a \in Actors, Running, LockIp(a) PROVE HandOverInv'
    <2>1. \A b \in Actors : b # a => pc'[b] = pc[b]
      BY <1>8, <1>0, GotoEffect DEF LockIp
    <2> QED
      BY <1>8, <1>0, <2>1, GotoEffect, HandOverFrame DEF LockIp, Working
  <1>9. ASSUME NEW a \in Actors, Running, Drained(a) PROVE HandOverInv'
    <2>1. \A b \in Actors : b # a => pc'[b] = pc[b]
      BY <1>9, <1>0, GotoEffect DEF Drained
    <2> QED
      BY <1>9, <1>0, <2>1, GotoEffect, HandOverFrame DEF Drained, Working
  <1>10. ASSUME NEW a \in Actors, Running, Take(a) PROVE HandOverInv'
    <2>1. /\ pc'[a] = "bump" /\ ip_local'[a] = ip' /\ ip' < Number
          /\ \A b \in Actors : b # a => pc'[b] = pc[b] /\ ip_local'[b] = ip_local[b]
          /\ UNCHANGED <<ip, Particle>>
      BY <1>10, <1>0, GotoEffect DEF Take, TypeOK
    <2>2. \A b \in Actors : b # a => Mine(b)' = Mine(b)
      BY <2>1 DEF Mine
    <2> QED
      BY <1>10, <1>0, <2>1, <2>2 DEF HandOverInv, Working
  <1>11. ASSUME NEW a \in Actors, Running, Bump(a) PROVE HandOverInv'
    <2>1. /\ pc[a] = "bump" /\ pc'[a] = "copy" /\ \A b \in Actors : b # a => pc'[b] = pc[b]
          /\ UNCHANGED <<ip_local, Particle>>
      BY <1>11, <1>0, GotoEffect DEF Bump
    <2>2. \A b \in Actors : b # a => pc'[b] # "bump"
      BY <1>0, <2>1 DEF MutexInv, InIp
    <2>3. ip_local[a] = ip /\ ip \in Index
      BY <1>11, <1>0, <2>1, BoundsType DEF HandOverInv, TypeOK, Index
    <2>4. Simulating
      BY <1>11, <1>0, <2>1 DEF PhaseInv, IdleInv, Simulating, TypeOK
    <2>5. Mine(a).state = "default"
      BY <1>11, <1>0, <2>3, <2>4 DEF ParticleInv, Mine, TypeOK
    <2>6. \A b \in Actors : Mine(b)' = Mine(b)
      BY <2>1 DEF Mine
    <2> QED
      BY <1>11, <1>0, <2>1, <2>2, <2>5, <2>6 DEF HandOverInv, Working
  <1>12. ASSUME NEW a \in Actors, Running, Copy(a) PROVE HandOverInv'
    <2>1. Working(a) /\ UNCHANGED <<ip, ip_local>>
      BY <1>12 DEF Copy, Working
    <2>2. Mine(a)'.state = "copied" /\ \A b \in Actors : b # a /\ Working(b) => Mine(b)' = Mine(b)
      BY <1>12, <2>1, OthersKeepTheirs DEF Copy
    <2>3. pc'[a] = "seed" /\ \A b \in Actors : b # a => pc'[b] = pc[b]
      BY <1>12, <1>0, GotoEffect DEF Copy
    <2> QED
      BY <1>12, <1>0, <2>1, <2>2, <2>3 DEF HandOverInv, Working
  <1>13. ASSUME NEW a \in Actors, Running, Seed(a) PROVE HandOverInv'
    <2>1. Working(a) /\ UNCHANGED <<ip, ip_local>>
      BY <1>13 DEF Seed, Working
    <2>4. PICK s \in SeedsFor(a) : SetMine(a, [Mine(a) EXCEPT !.seed = s, !.state = "seeded"])
      BY <1>13 DEF Seed
    <2>5. Mine(a) \in ParticleRec
      BY <1>13, <2>1, MineType
    <2>6. [Mine(a) EXCEPT !.seed = s, !.state = "seeded"].state = "seeded"
      BY <2>5, RecordFields
    <2>2. Mine(a)'.state = "seeded" /\ \A b \in Actors : b # a /\ Working(b) => Mine(b)' = Mine(b)
      BY <1>13, <2>1, <2>4, <2>6, OthersKeepTheirs
    <2>3. pc'[a] = "step" /\ \A b \in Actors : b # a => pc'[b] = pc[b]
      BY <1>13, <1>0, GotoEffect DEF Seed
    <2> QED
      BY <1>13, <1>0, <2>1, <2>2, <2>3 DEF HandOverInv, Working
  <1>14. ASSUME NEW a \in Actors, Running, Stepped(a) PROVE HandOverInv'
    <2>1. Working(a) /\ UNCHANGED <<ip, ip_local>>
      BY <1>14 DEF Stepped, Working
    <2>2. \A b \in Actors : b # a /\ Working(b) => Mine(b)' = Mine(b)
      BY <1>14, <2>1, OthersKeepTheirs DEF Stepped
    <2>3. pc'[a] \in {"loop", "lock"} /\ \A b \in Actors : b # a => pc'[b] = pc[b]
      BY <1>14, <1>0, GotoEffect DEF Stepped
    <2> QED
      BY <1>14, <1>0, <2>1, <2>2, <2>3 DEF HandOverInv, Working
  <1>15. ASSUME NEW a \in Actors, Running, Distance(a) PROVE HandOverInv'
    <2>1. \A b \in Actors : b # a => pc'[b] = pc[b]
      BY <1>15, <1>0, GotoEffect DEF Distance
    <2> QED
      BY <1>15, <1>0, <2>1, GotoEffect, HandOverFrame DEF Distance, Working
  <1>16. ASSUME NEW a \in Actors, Running, AxisAssertFails(a) PROVE HandOverInv'
    BY <1>16 DEF AxisAssertFails, HandOverInv
  <1>17. ASSUME NEW a \in Actors, Running, LockTable(a) PROVE HandOverInv'
    <2>1. \A b \in Actors : b # a => pc'[b] = pc[b]
      BY <1>17, <1>0, GotoEffect DEF LockTable
    <2> QED
      BY <1>17, <1>0, <2>1, GotoEffect, HandOverFrame DEF LockTable, Working
  <1>18. ASSUME NEW a \in Actors, Running, BuildTable(a) PROVE HandOverInv'
    <2>1. \A b \in Actors : b # a => pc'[b] = pc[b]
      BY <1>18, <1>0, GotoEffect DEF BuildTable
    <2> QED
      BY <1>18, <1>0, <2>1, GotoEffect, HandOverFrame DEF BuildTable, Working
  <1>19. ASSUME NEW a \in Actors, Running, FileAssertFails(a) PROVE HandOverInv'
    BY <1>19 DEF FileAssertFails, HandOverInv
  <1>20. ASSUME NEW a \in Actors, Running, UnlockTable(a) PROVE HandOverInv'
    <2>1. \A b \in Actors : b # a => pc'[b] = pc[b]
      BY <1>20, <1>0, GotoEffect DEF UnlockTable
    <2> QED
      BY <1>20, <1>0, <2>1, GotoEffect, HandOverFrame DEF UnlockTable, Working
  <1>21. ASSUME NEW a \in Actors, Running, Eval(a) PROVE HandOverInv'
    <2>1. \A b \in Actors : b # a => pc'[b] = pc[b]
      BY <1>21, <1>0, GotoEffect DEF Eval
    <2> QED
      BY <1>21, <1>0, <2>1, GotoEffect, HandOverFrame DEF Eval, Working
  <1>22. CASE UNCHANGED vars
    BY <1>22, <1>0 DEF vars, HandOverInv, Working, Mine
  <1> QED
    BY <1>1, <1>2, <1>3, <1>4, <1>5, <1>6, <1>7, <1>8, <1>9, <1>10, <1>11, <1>12, <1>13, <1>14, <1>15, <1>16, <1>17, <1>18, <1>19, <1>20, <1>21, <1>22 DEF Next, MainStep, Thread, Claim, Simulate, GetDistance, Terminated

(* What ParticleInv says is kept by a step that leaves its state alone.      *)
LEMMA ParticleFrame ==
  ASSUME IInv, UNCHANGED <<conf, bin, Particle>>, ip' \in Nat, ip' >= ip,
         Running' /\ Simulating' => Running /\ Simulating
  PROVE  ParticleInv'
  <1> SUFFICES ASSUME Running', Simulating', NEW i \in Index
               PROVE  /\ i >= ip' => Particle[i].state = "default"
                      /\ Particle[i].state # "default" => Particle[i].ek = bin
                      /\ Particle[i].state = "copied" => Particle[i].seed = TemplateSeed
                      /\ Particle[i].state \in {"seeded", "done"} => SeedFits(bin, i, Particle[i].seed)
    BY DEF ParticleInv, SeedFits, TemplateSeed, SeedBase
  <1>1. i >= ip' => i >= ip
    BY DEF IInv, TypeOK, Index
  <1> QED
    BY <1>1 DEF IInv, ParticleInv

(* A working thread writes back a particle that fits its index. *)
LEMMA ParticleWrite ==
  ASSUME IInv, Running, Simulating, NEW a \in Actors, Working(a), NEW p, SetMine(a, p),
         UNCHANGED <<conf, bin, ip>>,
         p.ek = bin, p.state = "copied" => p.seed = TemplateSeed,
         p.state \in {"seeded", "done"} => SeedFits(bin, ip_local[a], p.seed)
  PROVE  ParticleInv'
  <1> SUFFICES ASSUME NEW i \in Index
               PROVE  /\ i >= ip => Particle'[i].state = "default"
                      /\ Particle'[i].state # "default" => Particle'[i].ek = bin
                      /\ Particle'[i].state = "copied" => Particle'[i].seed = TemplateSeed
                      /\ Particle'[i].state \in {"seeded", "done"} => SeedFits(bin, i, Particle'[i].seed)
    BY DEF ParticleInv, SeedFits, TemplateSeed, SeedBase
  <1>1. CASE i = ip_local[a]
    <2>1. Particle'[i] = p /\ ~(i >= ip)
      BY <1>1, SetMineEffect, MineType DEF IInv, TypeOK, Index
    <2> QED
      BY <1>1, <2>1
  <1>2. CASE i # ip_local[a]
    BY <1>2, SetMineEffect DEF IInv, ParticleInv
  <1> QED
    BY <1>1, <1>2

(* Someone has left "none": a bin is being simulated. *)
LEMMA WorkIsSimulating ==
  ASSUME IInv, Running, NEW a \in Actors, pc[a] # "none" PROVE Simulating
  BY DEF IInv, PhaseInv, IdleInv, TypeOK, Simulating, Running

(* Seeds and energies stay those of the bin and the index.                   *)
LEMMA ParticleStep == IInv /\ [Next]_vars => ParticleInv'
  <1> SUFFICES ASSUME IInv, [Next]_vars PROVE ParticleInv'
    OBVIOUS
  <1>0. TypeOK /\ MutexInv /\ PhaseInv /\ ClaimInv /\ HandOverInv /\ ParticleInv /\ WeightInv
    BY DEF IInv
  <1> USE DEF Running, mainVars, tableVars
  <1>1. CASE BeginBin
    <2>1. \A i \in Index : Particle'[i].state = "default"
      BY <1>1 DEF BeginBin, Blank
    <2> QED
      BY <2>1 DEF ParticleInv
  <1>2. CASE Spawn
    BY <1>2, <1>0, ParticleFrame DEF Spawn, Simulating, TypeOK
  <1>3. CASE AllSpawned
    BY <1>3, <1>0, ParticleFrame DEF AllSpawned, Simulating, TypeOK
  <1>4. CASE Join
    BY <1>4, <1>0, ParticleFrame DEF Join, Simulating, TypeOK
  <1>5. CASE Collect
    BY <1>5 DEF Collect, ParticleInv, Simulating
  <1>6. CASE Finish
    BY <1>6, <1>0, ParticleFrame DEF Finish, Simulating, TypeOK
  <1>7. CASE SerialNext
    BY <1>7, <1>0, ParticleFrame DEF SerialNext, Simulating, TypeOK
  <1>8. ASSUME NEW a \in Actors, Running, LockIp(a) PROVE ParticleInv'
    BY <1>8, <1>0, ParticleFrame DEF LockIp, Simulating, TypeOK
  <1>9. ASSUME NEW a \in Actors, Running, Drained(a) PROVE ParticleInv'
    BY <1>9, <1>0, ParticleFrame DEF Drained, Simulating, TypeOK
  <1>10. ASSUME NEW a \in Actors, Running, Take(a) PROVE ParticleInv'
    BY <1>10, <1>0, ParticleFrame DEF Take, Simulating, TypeOK
  <1>11. ASSUME NEW a \in Actors, Running, Bump(a) PROVE ParticleInv'
    BY <1>11, <1>0, ParticleFrame DEF Bump, Simulating, TypeOK
  <1>12. ASSUME NEW a \in Actors, Running, Copy(a) PROVE ParticleInv'
    <2>1. Working(a) /\ Simulating /\ UNCHANGED <<conf, bin, ip>>
      BY <1>12, WorkIsSimulating DEF Copy, Working
    <2> DEFINE p == [ek |-> bin, seed |-> TemplateSeed, state |-> "copied"]
    <2>2. p.ek = bin /\ p.seed = TemplateSeed /\ p.state = "copied" /\ SetMine(a, p)
      BY <1>12 DEF Copy
    <2> HIDE DEF p
    <2> QED
      BY <1>12, <2>1, <2>2, ParticleWrite
  <1>13. ASSUME NEW a \in Actors, Running, Seed(a) PROVE ParticleInv'
    <2>1. Working(a) /\ Simulating /\ UNCHANGED <<conf, bin, ip>>
      BY <1>13, WorkIsSimulating DEF Seed, Working
    <2>2. PICK s \in SeedsFor(a) : SetMine(a, [Mine(a) EXCEPT !.seed = s, !.state = "seeded"])
      BY <1>13 DEF Seed
    <2>3. Mine(a) \in ParticleRec /\ ip_local[a] \in Index
      BY <1>13, <2>1, MineType
    <2>4. Mine(a).ek = bin /\ Mine(a).seed = TemplateSeed
      BY <1>13, <1>0, <2>1, <2>3 DEF Seed, HandOverInv, ParticleInv, Mine
    <2>5. SeedFits(bin, ip_local[a], s)
      BY <2>2, <2>4 DEF SeedFits, SeedsFor, TemplateSeed
    <2> DEFINE p == [Mine(a) EXCEPT !.seed = s, !.state = "seeded"]
    <2>6. p.ek = bin /\ p.seed = s /\ p.state = "seeded" /\ SetMine(a, p)
      BY <2>2, <2>3, <2>4, RecordFields
    <2> HIDE DEF p
    <2> QED
      BY <1>13, <2>1, <2>5, <2>6, ParticleWrite
  <1>14. ASSUME NEW a \in Actors, Running, Stepped(a) PROVE ParticleInv'
    <2>1. Working(a) /\ Simulating /\ UNCHANGED <<conf, bin, ip>>
      BY <1>14, WorkIsSimulating DEF Stepped, Working
    <2>3. Mine(a) \in ParticleRec /\ ip_local[a] \in Index
      BY <1>14, <2>1, MineType
    <2>4. Mine(a).ek = bin /\ SeedFits(bin, ip_local[a], Mine(a).seed)
      BY <1>14, <1>0, <2>1, <2>3 DEF Stepped, HandOverInv, ParticleInv, Mine
    <2> DEFINE p == [Mine(a) EXCEPT !.state = "done"]
    <2>5. p.ek = bin /\ p.seed = Mine(a).seed /\ p.state = "done" /\ SetMine(a, p)
      BY <1>14, <2>3, <2>4, RecordFields DEF Stepped
    <2> HIDE DEF p
    <2> QED
      BY <1>14, <2>1, <2>4, <2>5, ParticleWrite
  <1>15. ASSUME NEW a \in Actors, Running, Distance(a) PROVE ParticleInv'
    BY <1>15, <1>0, ParticleFrame DEF Distance, Simulating, TypeOK
  <1>16. ASSUME NEW a \in Actors, Running, AxisAssertFails(a) PROVE ParticleInv'
    BY <1>16 DEF AxisAssertFails, ParticleInv
  <1>17. ASSUME NEW a \in Actors, Running, LockTable(a) PROVE ParticleInv'
    BY <1>17, <1>0, ParticleFrame DEF LockTable, Simulating, TypeOK
  <1>18. ASSUME NEW a \in Actors, Running, BuildTable(a) PROVE ParticleInv'
    BY <1>18, <1>0, ParticleFrame DEF BuildTable, Simulating, TypeOK
  <1>19. ASSUME NEW a \in Actors, Running, FileAssertFails(a) PROVE ParticleInv'
    BY <1>19 DEF FileAssertFails, ParticleInv
  <1>20. ASSUME NEW a \in Actors, Running, UnlockTable(a) PROVE ParticleInv'
    BY <1>20, <1>0, ParticleFrame DEF UnlockTable, Simulating, TypeOK
  <1>21. ASSUME NEW a \in Actors, Running, Eval(a) PROVE ParticleInv'
    BY <1>21, <1>0, ParticleFrame DEF Eval, Simulating, TypeOK
  <1>22. CASE UNCHANGED vars
    BY <1>22, <1>0, ParticleFrame DEF vars, Simulating, TypeOK
  <1> QED
    BY <1>1, <1>2, <1>3, <1>4, <1>5, <1>6, <1>7, <1>8, <1>9, <1>10, <1>11, <1>12, <1>13, <1>14, <1>15, <1>16, <1>17, <1>18, <1>19, <1>20, <1>21, <1>22 DEF Next, MainStep, Thread, Claim, Simulate, GetDistance, Terminated

(* When simulating() returns, every particle of its vector has been stepped. *)
LEMMA AllDone ==
  ASSUME IInv, ReturnReady
  PROVE  Running /\ Simulating /\ \A i \in Index : Particle[i].state = "done"
  <1>1. Running /\ Simulating
    BY DEF ReturnReady, Running, Simulating
  <1>2. CASE main = "join" /\ nth = conf.th_num
    <2>1. ip >= Number /\ \A w \in Workers : pc[w] = "none"
      BY <1>1, <1>2, ThNumType DEF IInv, PhaseInv, JoinInv, ParallelInv, Parallel, Workers
    <2>2. \A a \in Actors : ~Working(a)
      BY <1>1, <1>2, <2>1, MainIsActor DEF IInv, PhaseInv, ParallelInv, Working
    <2>3. \A i \in Index : i < ip
      BY <2>1, BoundsType DEF Index, IInv, TypeOK
    <2> QED
      BY <1>1, <2>2, <2>3 DEF IInv, ClaimInv
  <1>3. CASE main = "serial" /\ pc[Main] = "loop" /\ ip >= Number
    <2>1. \A a \in Actors : ~Working(a)
      BY <1>1, <1>3, MainIsActor DEF IInv, PhaseInv, SerialInv, Working
    <2>2. \A i \in Index : i < ip
      BY <1>3, BoundsType DEF Index, IInv, TypeOK
    <2> QED
      BY <1>1, <2>1, <2>2 DEF IInv, ClaimInv
  <1> QED
    BY <1>2, <1>3 DEF ReturnReady

(* What Collect appends has the energies and seeds the bin should have.      *)
LEMMA OutcomeFits ==
  ASSUME IInv, ReturnReady
  PROVE  \A i \in Index : Outcome[i].ek = bin /\ SeedFits(bin, i, Outcome[i].seed)
  BY AllDone DEF Outcome, IInv, ParticleInv

(* What WeightInv says is kept by a step that leaves the results alone.      *)
LEMMA WeightFrame ==
  ASSUME WeightInv, UNCHANGED <<conf, bin, weight>> PROVE WeightInv'
  BY DEF WeightInv, SeedFits, SeedBase

(* The collected results stay those of their bins.                           *)
LEMMA WeightStep == IInv /\ [Next]_vars => WeightInv'
  <1> SUFFICES ASSUME IInv, [Next]_vars PROVE WeightInv'
    OBVIOUS
  <1>0. TypeOK /\ MutexInv /\ PhaseInv /\ ClaimInv /\ HandOverInv /\ ParticleInv /\ WeightInv
    BY DEF IInv
  <1> USE DEF Running, mainVars, tableVars
  <1>1. CASE BeginBin
    BY <1>1, <1>0, WeightFrame DEF BeginBin
  <1>2. CASE Spawn
    BY <1>2, <1>0, WeightFrame DEF Spawn
  <1>3. CASE AllSpawned
    BY <1>3, <1>0, WeightFrame DEF AllSpawned
  <1>4. CASE Join
    BY <1>4, <1>0, WeightFrame DEF Join
  <1>5. CASE Collect
    <2>1. Outcome \in BinResult
      BY <1>0 DEF Outcome, BinResult, TypeOK, ParticleRec
    <2>2. weight' = Append(weight, Outcome) /\ weight \in Seq(BinResult) /\ Len(weight) = bin /\ bin' = bin + 1
      BY <1>5, <1>0 DEF Collect, TypeOK, WeightInv
    <2>3. Len(weight') = bin'
      BY <2>1, <2>2
    <2>4. ASSUME NEW k \in 1 .. Len(weight'), NEW i \in Index
          PROVE  weight'[k][i].ek = k - 1 /\ SeedFits(k - 1, i, weight'[k][i].seed)
      <3>1. CASE k \in 1 .. Len(weight)
        <4>1. weight'[k] = weight[k]
          BY <2>1, <2>2, <3>1
        <4> QED
          BY <1>0, <3>1, <4>1 DEF WeightInv
      <3>2. CASE k = Len(weight) + 1
        <4>1. weight'[k] = Outcome /\ k - 1 = bin
          BY <2>1, <2>2, <3>2 
        <4> QED
          BY <1>5, <4>1, OutcomeFits DEF Collect
      <3> QED
        BY <2>1, <2>2, <3>1, <3>2
    <2>5. \A k, i, s : SeedFits(k, i, s)' <=> SeedFits(k, i, s)
      BY <1>5 DEF Collect, SeedFits, SeedBase
    <2> QED
      BY <2>3, <2>4, <2>5 DEF WeightInv
  <1>6. CASE Finish
    BY <1>6, <1>0, WeightFrame DEF Finish
  <1>7. CASE SerialNext
    BY <1>7, <1>0, WeightFrame DEF SerialNext
  <1>8. ASSUME NEW a \in Actors, Running, LockIp(a) PROVE WeightInv'
    BY <1>8, <1>0, WeightFrame DEF LockIp
  <1>9. ASSUME NEW a \in Actors, Running, Drained(a) PROVE WeightInv'
    BY <1>9, <1>0, WeightFrame DEF Drained
  <1>10. ASSUME NEW a \in Actors, Running, Take(a) PROVE WeightInv'
    BY <1>10, <1>0, WeightFrame DEF Take
  <1>11. ASSUME NEW a \in Actors, Running, Bump(a) PROVE WeightInv'
    BY <1>11, <1>0, WeightFrame DEF Bump
  <1>12. ASSUME NEW a \in Actors, Running, Copy(a) PROVE WeightInv'
    BY <1>12, <1>0, WeightFrame DEF Copy
  <1>13. ASSUME NEW a \in Actors, Running, Seed(a) PROVE WeightInv'
    BY <1>13, <1>0, WeightFrame DEF Seed
  <1>14. ASSUME NEW a \in Actors, Running, Stepped(a) PROVE WeightInv'
    BY <1>14, <1>0, WeightFrame DEF Stepped
  <1>15. ASSUME NEW a \in Actors, Running, Distance(a) PROVE WeightInv'
    BY <1>15, <1>0, WeightFrame DEF Distance
  <1>16. ASSUME NEW a \in Actors, Running, AxisAssertFails(a) PROVE WeightInv'
    BY <1>16, <1>0, WeightFrame DEF AxisAssertFails
  <1>17. ASSUME NEW a \in Actors, Running, LockTable(a) PROVE WeightInv'
    BY <1>17, <1>0, WeightFrame DEF LockTable
  <1>18. ASSUME NEW a \in Actors, Running, BuildTable(a) PROVE WeightInv'
    BY <1>18, <1>0, WeightFrame DEF BuildTable
  <1>19. ASSUME NEW a \in Actors, Running, FileAssertFails(a) PROVE WeightInv'
    BY <1>19, <1>0, WeightFrame DEF FileAssertFails
  <1>20. ASSUME NEW a \in Actors, Running, UnlockTable(a) PROVE WeightInv'
    BY <1>20, <1>0, WeightFrame DEF UnlockTable
  <1>21. ASSUME NEW a \in Actors, Running, Eval(a) PROVE WeightInv'
    BY <1>21, <1>0, WeightFrame DEF Eval
  <1>22. CASE UNCHANGED vars
    BY <1>22, <1>0, WeightFrame DEF vars
  <1> QED
    BY <1>1, <1>2, <1>3, <1>4, <1>5, <1>6, <1>7, <1>8, <1>9, <1>10, <1>11, <1>12, <1>13, <1>14, <1>15, <1>16, <1>17, <1>18, <1>19, <1>20, <1>21, <1>22 DEF Next, MainStep, Thread, Claim, Simulate, GetDistance, Terminated

(* The inductive invariant holds as main() enters the loop over the bins.    *)
LEMMA InitIInv == Init => IInv
  <1> SUFFICES ASSUME Init PROVE IInv
    OBVIOUS
  <1> USE ConstantsAssumption DEF Init
  <1>1. TypeOK
    <2>1. /\ conf \in Config /\ pc \in [Actors -> Place] /\ ip_local \in [Actors -> Int]
          /\ calls \in [Actors -> 0 .. MaxCalls]
      BY DEF Place
    <2>2. Particle \in [Index -> ParticleRec]
      BY DEF Blank, ParticleRec
    <2>3. owner \in [Mutexes -> Actors \cup {NoOne}]
      OBVIOUS
    <2> QED
      BY <2>1, <2>2, <2>3 DEF TypeOK, NULL
  <1>2. MutexInv
    BY DEF MutexInv, InIp, InTab
  <1>3. PhaseInv
    BY MainIsActor DEF PhaseInv, IdleInv, SerialInv, ParallelInv, SpawnInv, JoinInv, ExitInv, BinInv, Simulating
  <1>4. ClaimInv
    BY DEF ClaimInv, Working, Index
  <1>5. HandOverInv
    BY DEF HandOverInv, Working
  <1>6. ParticleInv
    BY DEF ParticleInv, Simulating
  <1>7. WeightInv
    BY DEF WeightInv
  <1> QED
    BY <1>1, <1>2, <1>3, <1>4, <1>5, <1>6, <1>7 DEF IInv

(* The inductive invariant: every conjunct is preserved given all of them. *)
THEOREM Invariance == Spec => []IInv
  <1>1. IInv /\ [Next]_vars => IInv'
    BY TypeStep, MutexStep, PhaseStep, ClaimStep, HandOverStep, ParticleStep, WeightStep DEF IInv
  <1> QED
    BY InitIInv, <1>1, PTL DEF Spec

(* Every variable keeps its type. *)
THEOREM TypeCorrect == Spec => []TypeOK
  <1>1. IInv => TypeOK
    BY DEF IInv
  <1> QED
    BY <1>1, Invariance, PTL

(* The counter and the table are each touched by one thread at a time, whether *)
(* the two files' mutexes are one object or two.                               *)
THEOREM MutexSafety == Spec => []MutualExclusion
  BY MutexExcludes, Invariance, PTL

(* No particle is lost or worked on by two threads. *)
THEOREM ClaimSafety == Spec => []ClaimInv
  <1>1. IInv => ClaimInv
    BY DEF IInv
  <1> QED
    BY <1>1, Invariance, PTL

-----------------------------------------------------------------------------
(* The table is built once *)

(* The table is there for whoever is past the test of tables[i].             *)
LEMMA TableStep == IInv /\ TableInv /\ [Next]_vars => TableInv'
  <1> SUFFICES ASSUME IInv, TableInv, [Next]_vars PROVE TableInv'
    OBVIOUS
  <1> USE DEF TableInv, IInv, TypeOK, InTab, MutexInv, mainVars, tableVars, NULL
  <1>1. CASE BeginBin
    BY <1>1, MainIsActor DEF BeginBin
  <1>2. CASE Spawn
    BY <1>2, SpawnEffect DEF Spawn
  <1>3. CASE AllSpawned
    BY <1>3 DEF AllSpawned
  <1>4. CASE Join
    BY <1>4, JoinEffect DEF Join
  <1>5. CASE Collect
    BY <1>5, MainIsActor DEF Collect
  <1>6. CASE Finish
    BY <1>6 DEF Finish
  <1>7. CASE SerialNext
    <2>1. pc'[Main] = "copy" /\ \A b \in Actors : b # Main => pc'[b] = pc[b]
      BY <1>7, GotoEffect, MainIsActor DEF SerialNext
    <2> QED
      BY <1>7, <2>1 DEF SerialNext
  <1>8. ASSUME NEW a \in Actors, Running, LockIp(a) PROVE TableInv'
    BY <1>8, GotoEffect DEF LockIp
  <1>9. ASSUME NEW a \in Actors, Running, Drained(a) PROVE TableInv'
    BY <1>9, GotoEffect DEF Drained
  <1>10. ASSUME NEW a \in Actors, Running, Take(a) PROVE TableInv'
    BY <1>10, GotoEffect DEF Take
  <1>11. ASSUME NEW a \in Actors, Running, Bump(a) PROVE TableInv'
    BY <1>11, GotoEffect DEF Bump
  <1>12. ASSUME NEW a \in Actors, Running, Copy(a) PROVE TableInv'
    BY <1>12, GotoEffect DEF Copy
  <1>13. ASSUME NEW a \in Actors, Running, Seed(a) PROVE TableInv'
    BY <1>13, GotoEffect DEF Seed
  <1>14. ASSUME NEW a \in Actors, Running, Stepped(a) PROVE TableInv'
    BY <1>14, GotoEffect DEF Stepped
  <1>15. ASSUME NEW a \in Actors, Running, Distance(a) PROVE TableInv'
    BY <1>15, GotoEffect DEF Distance
  <1>16. ASSUME NEW a \in Actors, Running, AxisAssertFails(a) PROVE TableInv'
    BY <1>16 DEF AxisAssertFails
  <1>17. ASSUME NEW a \in Actors, Running, LockTable(a) PROVE TableInv'
    BY <1>17, GotoEffect DEF LockTable
  <1>18. ASSUME NEW a \in Actors, Running, BuildTable(a) PROVE TableInv'
    <2>1. \A b \in Actors : b # a => pc[b] # "tbuild"
      BY <1>18 DEF BuildTable
    <2>2. pc'[a] = "tunlock" /\ \A b \in Actors : b # a => pc'[b] = pc[b]
      BY <1>18, GotoEffect DEF BuildTable
    <2> QED
      BY <1>18, <2>1, <2>2 DEF BuildTable
  <1>19. ASSUME NEW a \in Actors, Running, FileAssertFails(a) PROVE TableInv'
    BY <1>19 DEF FileAssertFails
  <1>20. ASSUME NEW a \in Actors, Running, UnlockTable(a) PROVE TableInv'
    BY <1>20, GotoEffect DEF UnlockTable
  <1>21. ASSUME NEW a \in Actors, Running, Eval(a) PROVE TableInv'
    BY <1>21, GotoEffect DEF Eval
  <1>22. CASE UNCHANGED vars
    BY <1>22 DEF vars
  <1> QED
    BY <1>1, <1>2, <1>3, <1>4, <1>5, <1>6, <1>7, <1>8, <1>9, <1>10, <1>11, <1>12, <1>13, <1>14, <1>15, <1>16, <1>17, <1>18, <1>19, <1>20, <1>21, <1>22 DEF Next, MainStep, Thread, Claim, Simulate, GetDistance, Terminated

(* A thread that builds finds no table and one past the test finds one. *)
THEOREM TableReady == Spec => []TableInv
  <1>1. Init => TableInv
    BY DEF Init, TableInv
  <1> QED
    BY <1>1, TableStep, Invariance, PTL DEF Spec

(* tables[i] never changes once set. *)
THEOREM TableBuiltOnce == Spec => TableStable
  <1>1. TypeOK /\ TableInv /\ [Next]_vars => [table # NULL => table' = table]_vars
    <2> SUFFICES ASSUME TypeOK, TableInv, [Next]_vars, table # NULL PROVE table' = table
      OBVIOUS
    <2>1. CASE MainStep
      BY <2>1 DEF MainStep, BeginBin, Spawn, AllSpawned, Join, Collect, Finish, SerialNext, tableVars
    <2>2. ASSUME NEW a \in Actors, Thread(a) PROVE table' = table
      <3>1. ~BuildTable(a)
        BY DEF BuildTable, TableInv
      <3>2. CASE Claim(a) \/ Simulate(a)
        BY <3>2 DEF Claim, Simulate, LockIp, Drained, Take, Bump, Copy, Seed, Stepped, tableVars
      <3>3. CASE GetDistance(a)
        BY <3>1, <3>3 DEF GetDistance, Distance, AxisAssertFails, LockTable, FileAssertFails,
                          UnlockTable, Eval, tableVars
      <3> QED
        BY <2>2, <3>2, <3>3 DEF Thread
    <2>3. CASE UNCHANGED vars
      BY <2>3 DEF vars
    <2> QED
      BY <2>1, <2>2, <2>3 DEF Next, Terminated
  <1> QED
    BY <1>1, TableReady, TypeCorrect, PTL DEF Spec, TableStable
-----------------------------------------------------------------------------
(* A particle is stepped once *)

(* A finished particle is never touched again while its bin is simulated. *)
THEOREM SteppedOnce == Spec => FinishedKept
  <1>1. IInv /\ [Next]_vars =>
          [main # "bin" => \A i \in Index : Particle[i].state = "done" => Particle'[i] = Particle[i]]_vars
    <2> SUFFICES ASSUME IInv, [Next]_vars, main # "bin", NEW i \in Index, Particle[i].state = "done"
                 PROVE  Particle'[i] = Particle[i]
      OBVIOUS
    <2>1. CASE MainStep
      BY <2>1 DEF MainStep, BeginBin, Spawn, AllSpawned, Join, Collect, Finish, SerialNext
    <2>2. ASSUME NEW a \in Actors, Running, Thread(a) PROVE Particle'[i] = Particle[i]
      <3>1. CASE Copy(a) \/ Seed(a) \/ Stepped(a)
        <4>1. Working(a) /\ ip_local[a] # i
          BY <2>2, <3>1 DEF Copy, Seed, Stepped, Working, IInv, HandOverInv, Mine
        <4>2. PICK p : SetMine(a, p)
          BY <3>1 DEF Copy, Seed, Stepped
        <4> QED
          BY <2>2, <4>1, <4>2, SetMineEffect
      <3>2. CASE Claim(a) \/ GetDistance(a)
        BY <3>2 DEF Claim, LockIp, Drained, Take, Bump, GetDistance, Distance, AxisAssertFails,
                    LockTable, BuildTable, FileAssertFails, UnlockTable, Eval
      <3> QED
        BY <2>2, <3>1, <3>2 DEF Thread, Simulate
    <2>3. CASE UNCHANGED vars
      BY <2>3 DEF vars
    <2> QED
      BY <2>1, <2>2, <2>3 DEF Next, Terminated
  <1> QED
    BY <1>1, Invariance, PTL DEF Spec, FinishedKept
-----------------------------------------------------------------------------
(* Seeds are unique *)

(* Seeds b * n + i of different bins or indices differ: i stays below n.     *)
LEMMA MultiplesApart ==
  ASSUME NEW b \in Nat, NEW c \in Nat, NEW n \in Nat, b < c
  PROVE  c * n >= b * n + n
  <1>1. PICK d \in Nat : c = b + 1 + d
    <2>1. c - b - 1 \in Nat /\ c = b + 1 + (c - b - 1)
      OBVIOUS
    <2> QED BY <2>1
  <1>2. c * n = b * n + n + d * n
    BY <1>1
  <1>3. d * n >= 0 /\ b * n \in Int
    BY <1>1
  <1> QED
    BY <1>2, <1>3

(* Different bins, or different particles of a bin, get different seeds. *)
LEMMA SeedsApart ==
  ASSUME NEW b \in Nat, NEW c \in Nat, NEW i \in Index, NEW j \in Index,
         SeedBase(b) + i = SeedBase(c) + j
  PROVE  b = c /\ i = j
  <1>1. b * Number \in Int /\ c * Number \in Int /\ b * Number + i = c * Number + j
    BY ConstantsAssumption DEF SeedBase, Index
  <1>2. ~(b < c)
    BY <1>1, MultiplesApart, BoundsType DEF Index
  <1>3. ~(c < b)
    BY <1>1, MultiplesApart, BoundsType DEF Index
  <1>4. b = c
    BY <1>2, <1>3
  <1> QED
    BY <1>1, <1>4 DEF Index

(* With --seed no two particles of the program have the same seed. *)
THEOREM UniqueSeeds == Spec => []SeedsUnique
  <1>1. IInv => SeedsUnique
    <2> SUFFICES ASSUME IInv, conf.fix_seed, Simulating,
                        NEW p \in Simulated, NEW q \in Simulated, SeedOf(p) = SeedOf(q)
                 PROVE  p = q
      BY DEF SeedsUnique, Simulating
    <2>1. Running /\ Len(weight) = bin /\ bin \in Nat
      BY DEF IInv, TypeOK, WeightInv, Running, Simulating
    <2>2. ASSUME NEW r \in Simulated
          PROVE  /\ r = <<r[1], r[2]>> /\ r[1] \in Nat /\ r[2] \in Index
                 /\ SeedOf(r) = SeedBase(r[1]) + r[2]
      <3>1. CASE r \in (0 .. Len(weight) - 1) \X Index
        <4>1. r = <<r[1], r[2]>> /\ r[1] \in Nat /\ r[1] < Len(weight) /\ r[2] \in Index
          BY <3>1, <2>1
        <4>2. r[1] + 1 \in 1 .. Len(weight) /\ (r[1] + 1) - 1 = r[1]
          BY <2>1, <4>1
        <4>3. SeedFits(r[1], r[2], weight[r[1] + 1][r[2]].seed)
          BY <4>1, <4>2 DEF IInv, WeightInv
        <4> QED
          BY <4>1, <4>3 DEF SeedOf, SeedFits
      <3>2. CASE r \in {Len(weight)} \X {i \in Index : main # "bin" /\ Particle[i].state \in {"seeded", "done"}}
        <4>1. /\ r = <<r[1], r[2]>> /\ r[1] = bin /\ r[2] \in Index
              /\ Particle[r[2]].state \in {"seeded", "done"}
          BY <3>2, <2>1
        <4>2. SeedFits(bin, r[2], Particle[r[2]].seed)
          BY <4>1, <2>1 DEF IInv, ParticleInv
        <4> QED
          BY <2>1, <4>1, <4>2 DEF SeedOf, SeedFits
      <3> QED
        BY <2>2, <3>1, <3>2 DEF Simulated
    <2>3. p[1] = q[1] /\ p[2] = q[2]
      BY <2>2, SeedsApart
    <2> QED
      BY <2>2, <2>3
  <1> QED
    BY <1>1, Invariance, PTL
-----------------------------------------------------------------------------
(* The program reports what the serial loop would *)

(* The program starts as the one-threaded loop does.                         *)
LEMMA SerialInit == Init => Serial!Init
  BY ConstantsAssumption DEF Init, Serial!Init, Config

(* The step that returns from simulating() is one bin of the serial loop. *)
LEMMA CollectIsSimulateBin ==
  ASSUME IInv, Collect PROVE Serial!SimulateBin
  <1>1. /\ ReturnReady /\ Running /\ Simulating /\ Len(weight) = bin /\ bin < NBins /\ bin \in Nat
        /\ conf.fix_seed \in BOOLEAN
    BY AllDone DEF Collect, IInv, WeightInv, PhaseInv, BinInv, TypeOK, Config
  <1> DEFINE s == [i \in Index |-> Particle[i].seed]
  <1>2. Outcome = Serial!Result(bin, s)
    <2>1. \A i \in Index : Outcome[i] = [ek |-> bin, seed |-> s[i]]
      BY <1>1, AllDone DEF Outcome, IInv, ParticleInv
    <2> QED
      BY <2>1 DEF Outcome, Serial!Result, Serial!Index, Index
  <1>3. s \in Serial!SeedVectors(bin)
    <2>1. \A i \in Index : SeedFits(bin, i, Particle[i].seed)
      BY <1>1, AllDone DEF IInv, ParticleInv
    <2>2. CASE conf.fix_seed
      <3>1. s = [i \in Index |-> BaseSeed + bin * Number + i]
        BY <2>1, <2>2 DEF SeedFits, SeedBase
      <3> QED
        BY <2>2, <3>1 DEF Serial!SeedVectors, Serial!Index, Index
    <2>3. CASE ~conf.fix_seed
      BY <2>1, <2>3 DEF SeedFits, Serial!SeedVectors, Serial!Index, Index
    <2> QED
      BY <2>2, <2>3
  <1> HIDE DEF s
  <1> QED
    BY <1>1, <1>2, <1>3 DEF Collect, Serial!SimulateBin, Running

(* A failed assertion is the abstract abort.                                 *)
LEMMA AbortIsAbort ==
  ASSUME Running, UNCHANGED <<conf, weight>>, main' = "aborted" PROVE Serial!Abort
  BY DEF Serial!Abort, Running

(* Every step is a step of the one-threaded loop or changes nothing of it.   *)
LEMMA StepImplements ==
  IInv /\ [Next]_vars => [Serial!Next]_<<conf.fix_seed, weight, main = "aborted">>
  <1> SUFFICES ASSUME IInv, [Next]_vars,
                      ~UNCHANGED <<conf.fix_seed, weight, main = "aborted">>
               PROVE  Serial!Next
    OBVIOUS
  <1> USE DEF mainVars, Serial!Next
  <1>1. CASE Running /\ MainStep
    <2>1. CASE Collect
      BY <2>1, CollectIsSimulateBin
    <2>2. CASE ~Collect
      BY <1>1, <2>2 DEF MainStep, BeginBin, Spawn, AllSpawned, Join, Finish, SerialNext
    <2> QED
      BY <2>1, <2>2
  <1>2. ASSUME NEW a \in Actors, Running, Thread(a) PROVE Serial!Next
    <2>1. CASE AxisAssertFails(a) \/ FileAssertFails(a)
      BY <1>2, <2>1, AbortIsAbort DEF AxisAssertFails, FileAssertFails
    <2>2. CASE Claim(a) \/ Simulate(a)
      BY <2>2 DEF Claim, Simulate, LockIp, Drained, Take, Bump, Copy, Seed, Stepped
    <2>3. CASE Distance(a) \/ LockTable(a) \/ BuildTable(a) \/ UnlockTable(a) \/ Eval(a)
      BY <2>3 DEF Distance, LockTable, BuildTable, UnlockTable, Eval
    <2> QED
      BY <1>2, <2>1, <2>2, <2>3 DEF Thread, GetDistance
  <1>3. CASE UNCHANGED vars
    BY <1>3 DEF vars
  <1> QED
    BY <1>1, <1>2, <1>3 DEF Next, Terminated

(* For every number of threads the simulation implements the serial loop. *)
THEOREM Refinement == Spec => ImplementsSerial
  BY SerialInit, StepImplements, Invariance, PTL DEF Spec, ImplementsSerial, Serial!Spec
-----------------------------------------------------------------------------
(* Modulation: the rows of the Green function and the boundary flux *)

(* Induction over the numbers, in the form of sets of them. *)
LEMMA Least ==
  ASSUME NEW A, A \subseteq Nat, A # {}
  PROVE  \E m \in A : \A k \in A : m <= k
<1>1. PICK m \in A : \A k \in A : ~(<<k, m>> \in OpToRel(<, Nat))
  <2>1. IsWellFoundedOn(OpToRel(<, Nat), Nat) BY NatLessThanWellFounded
  <2> QED BY <2>1, WFMin
<1>2. ASSUME NEW k \in A, k < m PROVE FALSE
  <2>1. <<k, m>> \in OpToRel(<, Nat) BY <1>2 DEF OpToRel
  <2> QED BY <2>1, <1>1
<1> QED BY <1>2

LEMMA SetInduction ==
  ASSUME NEW A, 0 \in A, \A n \in Nat : n \in A => n + 1 \in A
  PROVE  Nat \subseteq A
<1> SUFFICES ASSUME Nat \ A # {} PROVE FALSE
  OBVIOUS
<1>1. PICK m \in Nat \ A : \A k \in Nat \ A : m <= k
  <2>1. Nat \ A \subseteq Nat OBVIOUS
  <2> QED BY <2>1, Least
<1>2. m # 0 /\ m - 1 \in Nat /\ m - 1 \in A
  BY <1>1
<1>3. (m - 1) + 1 \in A BY <1>2
<1> QED BY <1>2, <1>3

(* An axis: increasing integers. *)
IsAxis(s) == s \in Seq(Int) /\ \A j \in 1 .. Len(s) - 1 : s[j] < s[j + 1]

(* Along an axis the values increase, whatever the distance. *)
LEMMA AxisIncreases ==
  ASSUME NEW s, IsAxis(s), NEW j \in 1 .. Len(s), NEW k \in 1 .. Len(s), j < k
  PROVE  s[j] < s[k]
<1> DEFINE A == {d \in Nat : \A i \in 1 .. Len(s) : i + d + 1 <= Len(s) => s[i] < s[i + d + 1]}
<1>0. Len(s) \in Nat /\ \A i \in 1 .. Len(s) : s[i] \in Int
  BY DEF IsAxis
<1>1. 0 \in A
  <2>1. ASSUME NEW i \in 1 .. Len(s), i + 0 + 1 <= Len(s) PROVE s[i] < s[i + 0 + 1]
    <3>1. i \in 1 .. Len(s) - 1 /\ i + 0 + 1 = i + 1 BY <1>0, <2>1
    <3> QED BY <3>1 DEF IsAxis
  <2> QED BY <2>1
<1>2. ASSUME NEW d \in Nat, d \in A PROVE d + 1 \in A
  <2>1. ASSUME NEW i \in 1 .. Len(s), i + (d + 1) + 1 <= Len(s) PROVE s[i] < s[i + (d + 1) + 1]
    <3>1. PICK m : m = i + d + 1 OBVIOUS
    <3>2. m \in 1 .. Len(s) - 1 /\ m \in 1 .. Len(s) /\ m + 1 \in 1 .. Len(s) BY <1>0, <2>1, <3>1
    <3>3. s[i] < s[m] BY <1>2, <3>1, <3>2
    <3>4. s[m] < s[m + 1] BY <3>2 DEF IsAxis
    <3>5. i + (d + 1) + 1 = m + 1 BY <3>1
    <3> QED BY <1>0, <3>2, <3>3, <3>4, <3>5
  <2> QED BY <2>1
<1>3. Nat \subseteq A
  <2> HIDE DEF A
  <2> QED BY <1>1, <1>2, SetInduction
<1>4. PICK d : d = k - j - 1 OBVIOUS
<1>5. d \in Nat /\ j + d + 1 = k /\ k <= Len(s) BY <1>0, <1>4
<1>6. \A i \in 1 .. Len(s) : i + d + 1 <= Len(s) => s[i] < s[i + d + 1]
  BY <1>3, <1>5
<1> QED BY <1>5, <1>6

(* upper_bound finds how many values are not above v: they come first. *)
LEMMA UpperBoundFacts ==
  ASSUME NEW s, IsAxis(s), NEW v \in Int
  PROVE  /\ UpperBound(s, v) \in 0 .. Len(s)
         /\ \A k \in 1 .. Len(s) : s[k] <= v <=> k <= UpperBound(s, v)
<1>0. Len(s) \in Nat /\ DOMAIN s = 1 .. Len(s) /\ \A i \in 1 .. Len(s) : s[i] \in Int
  BY DEF IsAxis
<1> DEFINE Upto(m, u) == \A k \in 1 .. m : s[k] <= v <=> k <= u
           A == {m \in Nat : m <= Len(s) => \E u \in 0 .. m : Upto(m, u)}
<1>1. 0 \in A
  OBVIOUS
<1>2. ASSUME NEW m \in Nat, m \in A PROVE m + 1 \in A
  <2>1. ASSUME m + 1 <= Len(s) PROVE \E u \in 0 .. m + 1 : Upto(m + 1, u)
    <3>1. PICK u \in 0 .. m : Upto(m, u) BY <1>0, <1>2, <2>1
    <3>2. m + 1 \in 1 .. Len(s) /\ s[m + 1] \in Int BY <1>0, <2>1
    <3>3. \A k \in 1 .. m : s[k] < s[m + 1]
      <4>1. ASSUME NEW k \in 1 .. m PROVE s[k] < s[m + 1]
        <5>1. k \in 1 .. Len(s) /\ k < m + 1 BY <1>0, <2>1
        <5> QED BY <3>2, <5>1, AxisIncreases
      <4> QED BY <4>1
    <3>4. CASE s[m + 1] <= v
      <4>1. ASSUME NEW k \in 1 .. m + 1 PROVE s[k] <= v
        <5>1. CASE k = m + 1 BY <3>4, <5>1
        <5>2. CASE k # m + 1
          <6>1. k \in 1 .. m /\ s[k] \in Int BY <1>0, <2>1, <5>2
          <6> QED BY <3>2, <3>3, <3>4, <6>1
        <5> QED BY <5>1, <5>2
      <4>2. Upto(m + 1, m + 1) BY <4>1
      <4> QED BY <4>2
    <3>5. CASE ~(s[m + 1] <= v)
      <4>1. ASSUME NEW k \in 1 .. m + 1 PROVE s[k] <= v <=> k <= u
        <5>1. CASE k = m + 1 BY <3>5, <5>1
        <5>2. CASE k # m + 1
          <6>1. k \in 1 .. m BY <5>2
          <6> QED BY <3>1, <6>1
        <5> QED BY <5>1, <5>2
      <4>2. Upto(m + 1, u) BY <4>1
      <4>3. u \in 0 .. m + 1 OBVIOUS
      <4> QED BY <4>2, <4>3
    <3> QED BY <3>4, <3>5
  <2> QED BY <2>1
<1>3. Nat \subseteq A
  <2> HIDE DEF A
  <2> QED BY <1>1, <1>2, SetInduction
<1>4. PICK u \in 0 .. Len(s) : Upto(Len(s), u)
  <2>1. Len(s) \in A BY <1>0, <1>3
  <2> QED BY <1>0, <2>1
<1>5. {k \in DOMAIN s : s[k] <= v} = 1 .. u
  BY <1>0, <1>4
<1>6. UpperBound(s, v) = u
  <2>1. Cardinality(1 .. u) = u BY FS_Interval
  <2> QED BY <1>5, <2>1 DEF UpperBound
<1> QED BY <1>4, <1>6

(* The bounds of an axis are an axis: between its points, and half a step    *)
(* beyond either end.                                                        *)
LEMMA BoundsFacts ==
  ASSUME NEW x, IsAxis(x), Len(x) > 1
  PROVE  /\ IsAxis(Bounds(x)) /\ Len(Bounds(x)) = Len(x) + 1
         /\ Bounds(x)[1] = 3 * x[1] - x[2]
         /\ Bounds(x)[Len(x) + 1] = 3 * x[Len(x)] - x[Len(x) - 1]
         /\ \A k \in 2 .. Len(x) : Bounds(x)[k] = x[k - 1] + x[k]
<1>0. Len(x) \in Nat /\ \A i \in 1 .. Len(x) : x[i] \in Int
  BY DEF IsAxis
<1>1. PICK n : n = Len(x) OBVIOUS
<1>2. PICK B : B = Bounds(x) OBVIOUS
<1>3. B = [k \in 1 .. n + 1 |-> CASE k = 1     -> 3 * x[1] - x[2]
                             [] k = n + 1 -> 3 * x[n] - x[n - 1]
                             [] OTHER     -> x[k - 1] + x[k]]
  BY <1>1, <1>2 DEF Bounds
<1>4. n \in Nat /\ n > 1 /\ 1 \in 1 .. n + 1 /\ n + 1 \in 1 .. n + 1 /\ n + 1 # 1
  BY <1>0, <1>1
<1>5. B[1] = 3 * x[1] - x[2] BY <1>3, <1>4
<1>6. B[n + 1] = 3 * x[n] - x[n - 1] BY <1>3, <1>4
<1>7. ASSUME NEW k \in 2 .. n PROVE B[k] = x[k - 1] + x[k]
  <2>1. k \in 1 .. n + 1 /\ k # 1 /\ k # n + 1 BY <1>4
  <2> QED BY <1>3, <2>1
<1>8. ASSUME NEW j \in 1 .. n PROVE B[j] \in Int /\ B[j + 1] \in Int /\ B[j] < B[j + 1]
  <2>0. x[1] \in Int /\ x[2] \in Int /\ x[n] \in Int /\ x[n - 1] \in Int
    BY <1>0, <1>1, <1>4
  <2>1. x[1] < x[2] /\ x[n - 1] < x[n]
    <3>1. 1 \in 1 .. n - 1 /\ n - 1 \in 1 .. n - 1 /\ (n - 1) + 1 = n /\ 1 + 1 = 2 BY <1>4
    <3> QED BY <1>1, <3>1 DEF IsAxis
  <2>2. CASE j = 1
    <3>1. 2 \in 2 .. n BY <1>4
    <3>2. B[2] = x[1] + x[2]
      <4>1. B[2] = x[2 - 1] + x[2] BY <1>7, <3>1
      <4> QED BY <4>1
    <3> QED BY <1>5, <2>0, <2>1, <2>2, <3>2
  <2>3. CASE j = n
    <3>1. n \in 2 .. n BY <1>4
    <3>2. B[n] = x[n - 1] + x[n] BY <1>7, <3>1
    <3> QED BY <1>6, <2>0, <2>1, <2>3, <3>2
  <2>4. CASE j # 1 /\ j # n
    <3>1. j \in 2 .. n /\ j + 1 \in 2 .. n /\ (j + 1) - 1 = j BY <1>4, <2>4
    <3>2. B[j] = x[j - 1] + x[j] /\ B[j + 1] = x[j] + x[j + 1] BY <1>7, <3>1
    <3>3. j - 1 \in 1 .. Len(x) - 1 /\ j \in 1 .. Len(x) - 1 /\ (j - 1) + 1 = j BY <1>1, <1>4, <2>4
    <3>4. x[j - 1] < x[j] /\ x[j] < x[j + 1] BY <3>3 DEF IsAxis
    <3>5. j - 1 \in 1 .. Len(x) /\ j + 1 \in 1 .. Len(x) /\ j \in 1 .. Len(x) BY <1>0, <3>3
    <3>6. x[j - 1] \in Int /\ x[j] \in Int /\ x[j + 1] \in Int BY <1>0, <3>5
    <3> QED BY <3>2, <3>4, <3>6
  <2> QED BY <2>2, <2>3, <2>4
<1>9. \A k \in 1 .. n + 1 : B[k] \in Int
  <2>1. ASSUME NEW k \in 1 .. n + 1 PROVE B[k] \in Int
    <3>1. CASE k = n + 1
      <4>1. n \in 1 .. n BY <1>4
      <4> QED BY <1>8, <3>1, <4>1
    <3>2. CASE k # n + 1
      <4>1. k \in 1 .. n BY <1>4, <3>2
      <4> QED BY <1>8, <4>1
    <3> QED BY <3>1, <3>2
  <2> QED BY <2>1
<1>10. B \in [1 .. n + 1 -> Int]
  BY <1>3, <1>9
<1>11. B \in Seq(Int) /\ Len(B) = n + 1
  BY <1>4, <1>10
<1>12. IsAxis(B)
  <2>1. \A j \in 1 .. Len(B) - 1 : B[j] < B[j + 1] BY <1>4, <1>8, <1>11
  <2> QED BY <1>11, <2>1 DEF IsAxis
<1> QED BY <1>1, <1>2, <1>5, <1>6, <1>7, <1>11, <1>12

(* Of two points the one on the same side of their middle is nearer.         *)
LEMMA NearerSquare ==
  ASSUME NEW a \in Int, NEW b \in Int, NEW e \in Int,
         (a <= b /\ 2 * e <= a + b) \/ (b <= a /\ a + b <= 2 * e)
  PROVE  (e - a) * (e - a) <= (e - b) * (e - b)
<1>1. PICK p \in Int, q \in Int : p = b - a /\ q = a + b - 2 * e OBVIOUS
<1>2. p * q >= 0
  BY <1>1
<1>3. (e - b) * (e - b) = (e - a) * (e - a) + (b - a) * (a + b - 2 * e)
  OBVIOUS
<1>4. (b - a) * (a + b - 2 * e) = p * q BY <1>1
<1>5. (e - a) * (e - a) \in Int /\ p * q \in Int OBVIOUS
<1> QED BY <1>2, <1>3, <1>4, <1>5

(* The bin upper_bound finds is the one of a nearest energy, and it finds    *)
(* one exactly for the energies within half a step of the axis.              *)
LEMMA NearestFacts ==
  ASSUME NEW x, IsAxis(x), Len(x) > 1, NEW e \in Int
  PROVE  /\ UpperBound(Bounds(x), 2 * e) \in 1 .. Len(x) => Nearest(x, UpperBound(Bounds(x), 2 * e), e)
         /\ \A j : Nearest(x, j, e) => UpperBound(Bounds(x), 2 * e) \in 1 .. Len(x)
<1>0. Len(x) \in Nat /\ \A i \in 1 .. Len(x) : x[i] \in Int
  BY DEF IsAxis
<1>1. PICK n : n = Len(x) OBVIOUS
<1>2. PICK B : B = Bounds(x) OBVIOUS
<1>3. PICK u : u = UpperBound(B, 2 * e) OBVIOUS
<1>4. /\ IsAxis(B) /\ Len(B) = n + 1 /\ B[1] = 3 * x[1] - x[2] /\ B[n + 1] = 3 * x[n] - x[n - 1]
      /\ \A k \in 2 .. n : B[k] = x[k - 1] + x[k]
  BY <1>1, <1>2, BoundsFacts
<1>5. u \in 0 .. n + 1 /\ \A k \in 1 .. n + 1 : B[k] <= 2 * e <=> k <= u
  <2>1. 2 * e \in Int OBVIOUS
  <2> QED BY <1>3, <1>4, <2>1, UpperBoundFacts
<1>6. n \in Nat /\ n > 1 /\ 1 \in 1 .. n + 1 /\ n + 1 \in 1 .. n + 1
  BY <1>0, <1>1
<1>7. B[1] \in Int /\ B[n + 1] \in Int
  <2>1. {1, 2, n, n - 1} \subseteq 1 .. n BY <1>6
  <2>2. x[1] \in Int /\ x[2] \in Int /\ x[n] \in Int /\ x[n - 1] \in Int BY <1>0, <1>1, <2>1
  <2>3. 3 * x[1] - x[2] \in Int /\ 3 * x[n] - x[n - 1] \in Int BY <2>2
  <2>4. B[1] = 3 * x[1] - x[2] /\ B[n + 1] = 3 * x[n] - x[n - 1] BY <1>4
  <2> QED BY <2>3, <2>4
<1>8. ASSUME u \in 1 .. n PROVE Nearest(x, u, e)
  <2>1. B[1] <= 2 * e /\ ~(B[n + 1] <= 2 * e) BY <1>5, <1>6, <1>8
  <2>2. ASSUME NEW k \in 1 .. n PROVE (e - x[u]) * (e - x[u]) <= (e - x[k]) * (e - x[k])
    <3>0. x[u] \in Int /\ x[k] \in Int BY <1>0, <1>1, <1>8
    <3>1. CASE k = u BY <3>0, <3>1
    <3>2. CASE k < u
      <4>1. u \in 2 .. n /\ u - 1 \in 1 .. n /\ k <= u - 1 /\ u \in 1 .. n + 1 BY <1>6, <1>8, <3>2
      <4>2. x[u - 1] + x[u] <= 2 * e BY <1>4, <1>5, <4>1
      <4>3. x[k] <= x[u - 1] /\ x[u - 1] \in Int
        <5>1. CASE k = u - 1 BY <1>0, <1>1, <4>1, <5>1
        <5>2. CASE k # u - 1
          <6>1. k < u - 1 BY <1>6, <1>8, <4>1, <5>2
          <6> QED BY <1>0, <1>1, <3>0, <4>1, <6>1, AxisIncreases
        <5> QED BY <5>1, <5>2
      <4>4. x[k] < x[u] BY <1>1, <3>2, <1>8, AxisIncreases
      <4>5. x[k] <= x[u] /\ x[u] + x[k] <= 2 * e BY <3>0, <4>2, <4>3, <4>4
      <4> QED BY <3>0, <4>5, NearerSquare
    <3>3. CASE k > u
      <4>1. u + 1 \in 2 .. n /\ u + 1 \in 1 .. n /\ u + 1 <= k /\ u + 1 \in 1 .. n + 1 /\ (u + 1) - 1 = u
        BY <1>6, <1>8, <3>3
      <4>2. ~(x[u] + x[u + 1] <= 2 * e)
        <5>1. B[u + 1] = x[u] + x[u + 1] BY <1>4, <4>1
        <5>2. ~(B[u + 1] <= 2 * e) BY <1>5, <1>8, <4>1
        <5> QED BY <5>1, <5>2
      <4>3. x[u + 1] <= x[k] /\ x[u + 1] \in Int
        <5>1. CASE k = u + 1 BY <1>0, <1>1, <4>1, <5>1
        <5>2. CASE k # u + 1
          <6>1. u + 1 < k BY <1>6, <1>8, <4>1, <5>2
          <6> QED BY <1>0, <1>1, <3>0, <4>1, <6>1, AxisIncreases
        <5> QED BY <5>1, <5>2
      <4>4. x[u] < x[k] BY <1>1, <3>3, <1>8, AxisIncreases
      <4>5. x[u] <= x[k] /\ 2 * e <= x[u] + x[k] BY <3>0, <4>2, <4>3, <4>4
      <4> QED BY <3>0, <4>5, NearerSquare
    <3> QED BY <1>6, <1>8, <3>1, <3>2, <3>3
  <2>3. 2 * e >= 3 * x[1] - x[2] /\ 2 * e < 3 * x[n] - x[n - 1] BY <1>4, <1>7, <2>1
  <2> QED BY <1>1, <2>2, <2>3 DEF Nearest
<1>9. ASSUME NEW j, Nearest(x, j, e) PROVE u \in 1 .. n
  <2>1. B[1] <= 2 * e /\ ~(B[n + 1] <= 2 * e) BY <1>1, <1>4, <1>7, <1>9 DEF Nearest
  <2>2. 1 <= u /\ ~(n + 1 <= u) BY <1>5, <1>6, <2>1
  <2> QED BY <1>5, <1>6, <2>2
<1> QED BY <1>1, <1>2, <1>3, <1>8, <1>9

(* c counts, for every j, the members of S that at sends to j. *)
CountedBy(c, n, S, at) == c = [j \in 1 .. n |-> Cardinality({i \in S : at[i] = j})]

(* The sum of a row is the number of those that are counted in it.           *)
LEMMA TotalFacts ==
  ASSUME NEW S, IsFiniteSet(S), NEW n \in Nat, NEW c, NEW at, at \in [S -> Int],
         CountedBy(c, n, S, at)
  PROVE  Len(c) = n /\ Total(c) = Cardinality({i \in S : at[i] \in 1 .. n})
<1> DEFINE N(k) == {i \in S : at[i] \in 1 .. k}
           E(j) == {i \in S : at[i] = j}
<1>1. \A k : IsFiniteSet(N(k)) /\ IsFiniteSet(E(k)) /\ Cardinality(N(k)) \in Nat /\ Cardinality(E(k)) \in Nat
  <2>1. \A k : N(k) \in SUBSET S /\ E(k) \in SUBSET S OBVIOUS
  <2>2. \A k : IsFiniteSet(N(k)) /\ IsFiniteSet(E(k)) BY <2>1, FS_Subset
  <2> QED BY <2>2, FS_CardinalityType
<1>2. Cardinality(N(0)) = 0
  <2>1. N(0) = {} OBVIOUS
  <2> QED BY <2>1, FS_EmptySet
<1>3. ASSUME NEW k \in Nat PROVE Cardinality(N(k + 1)) = Cardinality(N(k)) + Cardinality(E(k + 1))
  <2>1. N(k + 1) = N(k) \cup E(k + 1) /\ N(k) \cap E(k + 1) = {}
    <3>1. ASSUME NEW i \in S PROVE at[i] \in 1 .. k + 1 <=> (at[i] \in 1 .. k \/ at[i] = k + 1)
      <4>1. at[i] \in Int OBVIOUS
      <4> QED BY <4>1
    <3>2. k + 1 \notin 1 .. k OBVIOUS
    <3> QED BY <3>1, <3>2
  <2>2. PICK A, B : A = N(k) /\ B = E(k + 1) OBVIOUS
  <2>3. IsFiniteSet(A) /\ IsFiniteSet(B) /\ Cardinality(A) \in Nat /\ Cardinality(B) \in Nat BY <1>1, <2>2
  <2>4. A \cap B = {} /\ N(k + 1) = A \cup B BY <2>1, <2>2
  <2>5. Cardinality(A \cup B) = Cardinality(A) + Cardinality(B) - Cardinality(A \cap B) BY <2>3, FS_Union
  <2>6. Cardinality(A \cap B) = 0 BY <2>4, FS_EmptySet
  <2>7. Cardinality(A \cup B) = Cardinality(A) + Cardinality(B) BY <2>3, <2>5, <2>6
  <2> QED BY <2>2, <2>4, <2>7
<1>4. c = [j \in 1 .. n |-> Cardinality(E(j))] BY DEF CountedBy
<1> HIDE DEF N, E
<1>5. c \in [1 .. n -> Nat] /\ c \in Seq(Nat) /\ Len(c) = n
  <2>1. c \in [1 .. n -> Nat] BY <1>1, <1>4
  <2> QED BY <2>1
<1>6. PICK f : f = [k \in 0 .. n |-> Cardinality(N(k))] OBVIOUS
<1>7. f = [k \in 0 .. Len(c) |-> IF k = 0 THEN 0 ELSE f[k - 1] + c[k]]
  <2>1. ASSUME NEW k \in 0 .. n PROVE f[k] = IF k = 0 THEN 0 ELSE f[k - 1] + c[k]
    <3>1. CASE k = 0 BY <1>2, <1>6, <3>1
    <3>2. CASE k # 0
      <4>1. PICK l \in Nat : k = l + 1
        <5>1. k - 1 \in Nat /\ k = (k - 1) + 1 BY <3>2
        <5> QED BY <5>1
      <4>2. l \in 0 .. n /\ k \in 1 .. n /\ k - 1 = l BY <3>2, <4>1
      <4>3. f[k] = Cardinality(N(l + 1)) BY <1>6, <4>1
      <4>4. f[k - 1] = Cardinality(N(l)) BY <1>6, <4>2
      <4>5. c[k] = Cardinality(E(l + 1)) BY <1>4, <4>1, <4>2
      <4>6. f[k] = f[k - 1] + c[k] BY <1>3, <4>3, <4>4, <4>5
      <4> QED BY <3>2, <4>6
    <3> QED BY <3>1, <3>2
  <2>2. DOMAIN f = 0 .. Len(c) BY <1>5, <1>6
  <2>3. f = [k \in 0 .. n |-> f[k]] BY <1>6
  <2>4. f = [k \in 0 .. n |-> IF k = 0 THEN 0 ELSE f[k - 1] + c[k]] BY <2>1, <2>3
  <2> QED BY <1>5, <2>4
<1> DEFINE sum == CHOOSE s : s = [k \in 0 .. Len(c) |-> IF k = 0 THEN 0 ELSE s[k - 1] + c[k]]
<1>8. sum = [k \in 0 .. Len(c) |-> IF k = 0 THEN 0 ELSE sum[k - 1] + c[k]]
  BY <1>7
<1>9. Total(c) = sum[Len(c)]
  BY DEF Total
<1> HIDE DEF sum
<1>10. sum[n] = f[n]
  <2> DEFINE A == {k \in Nat : k <= n => sum[k] = f[k]}
  <2>1. 0 \in A
    <3>1. 0 \in 0 .. Len(c) BY <1>5
    <3>2. sum[0] = 0 BY <1>8, <3>1
    <3>3. f[0] = 0 BY <1>7, <3>1
    <3> QED BY <3>2, <3>3
  <2>2. ASSUME NEW k \in Nat, k \in A PROVE k + 1 \in A
    <3>1. ASSUME k + 1 <= n PROVE sum[k + 1] = f[k + 1]
      <4>1. k + 1 \in 0 .. Len(c) /\ k + 1 # 0 /\ (k + 1) - 1 = k BY <1>5, <3>1
      <4>2. sum[k + 1] = sum[k] + c[k + 1] BY <1>8, <4>1
      <4>3. f[k + 1] = f[k] + c[k + 1] BY <1>7, <4>1
      <4>4. sum[k] = f[k] BY <2>2, <3>1
      <4> QED BY <4>2, <4>3, <4>4
    <3> QED BY <3>1
  <2>3. Nat \subseteq A
    <3> HIDE DEF A
    <3> QED BY <2>1, <2>2, SetInduction
  <2> QED BY <2>3
<1>11. f[n] = Cardinality(N(n)) BY <1>6
<1> QED BY <1>5, <1>9, <1>10, <1>11 DEF N

(* A row of the Green function is the distribution of its particles.         *)
LEMMA RowFacts ==
  ASSUME NEW x, IsAxis(x), Len(x) > 1, NEW particles, IsFiniteSet(DOMAIN particles),
         \A i \in DOMAIN particles : Exit(particles[i].ek, particles[i].seed) \in Int
  PROVE  RowIsShare(x, particles, GreenRow(x, particles))
<1>0. PICK n : n = Len(x) OBVIOUS
<1>1. n \in Nat BY <1>0 DEF IsAxis
<1>2. PICK P : P = DOMAIN particles OBVIOUS
<1> DEFINE Exits(i) == Exit(particles[i].ek, particles[i].seed)
           Near(i)  == {j \in 1 .. Len(x) : Nearest(x, j, Exits(i))}
           inside   == {i \in DOMAIN particles : Near(i) # {}}
<1>3. PICK at : at = [i \in P |-> UpperBound(Bounds(x), 2 * Exits(i))] OBVIOUS
<1>4. at \in [P -> Int]
  <2>1. ASSUME NEW i \in P PROVE UpperBound(Bounds(x), 2 * Exits(i)) \in Int
    <3>1. 2 * Exits(i) \in Int BY <1>2
    <3>2. IsAxis(Bounds(x)) /\ Len(Bounds(x)) = n + 1 BY <1>0, BoundsFacts
    <3>3. UpperBound(Bounds(x), 2 * Exits(i)) \in 0 .. n + 1 BY <3>1, <3>2, UpperBoundFacts
    <3> QED BY <1>1, <3>3
  <2> QED BY <1>3, <2>1
<1>5. PICK c : c = Counts(x, particles) OBVIOUS
<1>6. c = [j \in 1 .. n |-> Cardinality({i \in P : at[i] = j})]
  <2>1. \A j : {i \in DOMAIN particles : UpperBound(Bounds(x), 2 * Exits(i)) = j} = {i \in P : at[i] = j}
    BY <1>2, <1>3
  <2> QED BY <1>0, <1>5, <2>1 DEF Counts
<1>7. Len(c) = n /\ Total(c) = Cardinality({i \in P : at[i] \in 1 .. n})
  <2>1. IsFiniteSet(P) BY <1>2
  <2>2. CountedBy(c, n, P, at) BY <1>6 DEF CountedBy
  <2> QED BY <1>1, <1>4, <2>1, <2>2, TotalFacts
<1>8. ASSUME NEW i \in P
      PROVE  /\ at[i] \in 1 .. n => at[i] \in Near(i)
             /\ Near(i) # {} => at[i] \in 1 .. n
  <2>1. PICK e : e = Exits(i) OBVIOUS
  <2>2. e \in Int BY <1>2, <2>1
  <2>3. at[i] = UpperBound(Bounds(x), 2 * e) BY <1>3, <2>1
  <2>4. /\ at[i] \in 1 .. Len(x) => Nearest(x, at[i], e)
        /\ \A j : Nearest(x, j, e) => at[i] \in 1 .. Len(x)
    BY <2>2, <2>3, NearestFacts
  <2> QED BY <1>0, <2>1, <2>4
<1>9. PICK I : I = inside OBVIOUS
<1>10. I = {i \in P : at[i] \in 1 .. n}
  BY <1>2, <1>8, <1>9
<1>11. PICK row : row = GreenRow(x, particles) OBVIOUS
<1>12. row = [j \in 1 .. n |-> IF Total(c) = 0 THEN NaN ELSE <<c[j], Total(c)>>]
  BY <1>0, <1>5, <1>11 DEF GreenRow
<1>13. IsFiniteSet(I) /\ Total(c) = Cardinality(I)
  <2>1. I \in SUBSET P BY <1>10
  <2> QED BY <1>2, <1>7, <1>10, <2>1, FS_Subset
<1>14. CASE I = {}
  <2>1. Total(c) = 0 BY <1>13, <1>14, FS_EmptySet
  <2>2. \A j \in DOMAIN row : row[j] = NaN BY <1>12, <2>1
  <2> QED BY <1>9, <1>11, <1>14, <2>2 DEF RowIsShare
<1>15. CASE I # {}
  <2>1. Total(c) # 0 BY <1>13, <1>15, FS_EmptySet
  <2>2. PICK a : a = [i \in I |-> at[i]] OBVIOUS
  <2>3. a \in [I -> 1 .. n] BY <1>10, <2>2
  <2>4. \A i \in I : a[i] \in Near(i) BY <1>8, <1>10, <2>2
  <2>5. ASSUME NEW j \in 1 .. n
        PROVE  row[j] = <<Cardinality({i \in I : a[i] = j}), Cardinality(I)>>
    <3>1. {i \in I : a[i] = j} = {i \in P : at[i] = j} BY <1>10, <2>2
    <3>2. c[j] = Cardinality({i \in I : a[i] = j}) BY <1>6, <3>1
    <3> QED BY <1>12, <1>13, <2>1, <3>2
  <2>6. \E b \in [inside -> 1 .. Len(x)] :
            /\ \A i \in inside : b[i] \in Near(i)
            /\ \A j \in 1 .. Len(x) :
                 row[j] = <<Cardinality({i \in inside : b[i] = j}), Cardinality(inside)>>
    BY <1>0, <1>9, <2>3, <2>4, <2>5
  <2> QED BY <1>9, <1>11, <1>15, <2>6 DEF RowIsShare
<1> QED BY <1>14, <1>15

(* Between two points of an axis LogInterp takes them, or, at the second,    *)
(* the two that begin with it.                                               *)
LEMMA UpperFacts ==
  ASSUME NEW x, IsAxis(x), NEW j \in 1 .. Len(x) - 1, NEW e \in x[j] .. x[j + 1]
  PROVE  \/ Upper(x, e) = j
         \/ e = x[j + 1] /\ j + 1 \in 1 .. Len(x) - 1 /\ Upper(x, e) = j + 1
<1>0. Len(x) \in Nat /\ \A i \in 1 .. Len(x) : x[i] \in Int
  BY DEF IsAxis
<1>1. PICK n, u : n = Len(x) /\ u = UpperBound(x, e) OBVIOUS
<1>2. n \in Nat /\ j \in 1 .. n /\ j + 1 \in 1 .. n /\ n > 1 BY <1>0, <1>1
<1>3. x[j] \in Int /\ x[j + 1] \in Int /\ e \in Int /\ x[j] <= e /\ e <= x[j + 1] BY <1>0, <1>1, <1>2
<1>4. u \in 0 .. n /\ \A k \in 1 .. n : x[k] <= e <=> k <= u
  BY <1>1, <1>3, UpperBoundFacts
<1>5. j <= u BY <1>2, <1>3, <1>4
<1>6. Upper(x, e) = IF u = n THEN n - 1 ELSE u
  <2>1. (IF u = n THEN u - 1 ELSE u) # 0 BY <1>2, <1>4, <1>5
  <2> QED BY <1>1, <2>1 DEF Upper
<1>7. CASE e < x[j + 1]
  <2>1. ~(j + 1 <= u) BY <1>2, <1>3, <1>4, <1>7
  <2>2. u = j /\ u # n BY <1>2, <1>4, <1>5, <2>1
  <2> QED BY <1>6, <2>2
<1>8. CASE e = x[j + 1]
  <2>1. j + 1 <= u BY <1>2, <1>3, <1>4, <1>8
  <2>2. CASE j + 1 = n
    <3>1. u = n /\ n - 1 = j BY <1>2, <1>4, <2>1, <2>2
    <3> QED BY <1>6, <3>1
  <2>3. CASE j + 1 # n
    <3>1. j + 1 + 1 \in 1 .. n /\ j + 1 \in 1 .. n - 1 BY <1>2, <2>3
    <3>2. x[j + 1] < x[j + 1 + 1] /\ x[j + 1 + 1] \in Int BY <1>0, <1>1, <3>1 DEF IsAxis
    <3>3. ~(x[j + 1 + 1] <= e) BY <1>3, <1>8, <3>2
    <3>4. ~(j + 1 + 1 <= u) BY <1>4, <3>1, <3>3
    <3>5. u = j + 1 /\ u # n BY <1>2, <1>4, <2>1, <2>3, <3>4
    <3> QED BY <1>1, <1>6, <1>8, <3>1, <3>5
  <2> QED BY <2>2, <2>3
<1> QED BY <1>3, <1>7, <1>8

(* Through two points of an axis the line meets the flux at both, and        *)
(* between them stays between their fluxes.                                  *)
LEMMA LineFacts ==
  ASSUME NEW a \in Int, NEW b \in Int, a < b, NEW p \in Int, NEW q \in Int,
         NEW e \in Int, a <= e, e <= b, NEW f, f = p * (b - a) + (e - a) * (q - p)
  PROVE  /\ e = a => f = p * (b - a)
         /\ e = b => f = q * (b - a)
         /\ \/ p * (b - a) <= f /\ f <= q * (b - a)
            \/ q * (b - a) <= f /\ f <= p * (b - a)
<1>1. e = a => f = p * (b - a)
  <2>1. ASSUME e = a PROVE e - a = 0 BY <2>1
  <2>2. 0 * (q - p) = 0 OBVIOUS
  <2> QED BY <2>1, <2>2
<1>2. e = b => f = q * (b - a)
  <2>1. p * (b - a) + (b - a) * (q - p) = q * (b - a) OBVIOUS
  <2> QED BY <2>1
<1>3. PICK s \in Nat, t \in Nat : s = e - a /\ t = b - e OBVIOUS
<1>4. PICK d \in Int : d = q - p OBVIOUS
<1>5. f = p * (b - a) + s * d BY <1>3, <1>4
<1>6. q * (b - a) = f + t * d
  <2>1. b - a = s + t /\ q = p + d BY <1>3, <1>4
  <2>2. (p + d) * (s + t) = p * (s + t) + s * d + t * d OBVIOUS
  <2> QED BY <1>5, <2>1, <2>2
<1>7. (d >= 0 => s * d >= 0 /\ t * d >= 0) /\ (d < 0 => s * d <= 0 /\ t * d <= 0)
  OBVIOUS
<1>8. s * d \in Int /\ t * d \in Int /\ p * (b - a) \in Int /\ q * (b - a) \in Int OBVIOUS
<1> QED BY <1>1, <1>2, <1>5, <1>6, <1>7, <1>8

(* The assumptions on the axes in the form the lemmas use.                   *)
LEMMA GridFacts == \A x \in Grids : IsAxis(x) /\ Len(x) > 1
  BY AxesAssumption DEF IsAxis

LEMMA FluxIsKept == FluxKept
<1> SUFFICES ASSUME NEW x \in Grids, NEW y \in Fluxes, Len(y) = Len(x),
                    NEW j \in 1 .. Len(x) - 1, NEW e \in x[j] .. x[j + 1], NEW f, f = LogInterp(x, y, e)
             PROVE  /\ e = x[j] => f[1] = y[j] * f[2]
                    /\ e = x[j + 1] => f[1] = y[j + 1] * f[2]
                    /\ \/ y[j] * f[2] <= f[1] /\ f[1] <= y[j + 1] * f[2]
                       \/ y[j + 1] * f[2] <= f[1] /\ f[1] <= y[j] * f[2]
  BY DEF FluxKept
<1>1. IsAxis(x) /\ Len(x) \in Nat /\ \A i \in 1 .. Len(x) : x[i] \in Int /\ y[i] \in Int
  <2>1. IsAxis(x) BY GridFacts
  <2>2. y \in Seq(Int) BY AxesAssumption
  <2> QED BY <2>1, <2>2 DEF IsAxis
<1>2. j \in 1 .. Len(x) /\ j + 1 \in 1 .. Len(x) BY <1>1
<1>3. PICK a, b, p, q : a = x[j] /\ b = x[j + 1] /\ p = y[j] /\ q = y[j + 1] OBVIOUS
<1>4. a \in Int /\ b \in Int /\ p \in Int /\ q \in Int /\ e \in Int /\ a <= e /\ e <= b /\ a < b
  BY <1>1, <1>2, <1>3 DEF IsAxis
<1>5. ASSUME Upper(x, e) = j
      PROVE  f[1] = p * (b - a) + (e - a) * (q - p) /\ f[2] = b - a
  <2>1. (j + 1) - 1 = j OBVIOUS
  <2>2. f = <<y[j] * (x[j + 1] - x[j]) + (e - x[j]) * (y[j + 1] - y[j]), x[j + 1] - x[j]>>
    BY <1>5, <2>1 DEF LogInterp
  <2> QED BY <1>3, <2>2
<1>6. CASE Upper(x, e) = j
  <2>1. PICK g, w : g = f[1] /\ w = f[2] OBVIOUS
  <2>2. g = p * (b - a) + (e - a) * (q - p) /\ w = b - a BY <1>5, <1>6, <2>1
  <2>3. /\ e = a => g = p * (b - a)
        /\ e = b => g = q * (b - a)
        /\ \/ p * (b - a) <= g /\ g <= q * (b - a)
           \/ q * (b - a) <= g /\ g <= p * (b - a)
    BY <1>4, <2>2, LineFacts
  <2> QED BY <1>3, <2>1, <2>2, <2>3
<1>7. CASE e = x[j + 1] /\ j + 1 \in 1 .. Len(x) - 1 /\ Upper(x, e) = j + 1
  <2>1. PICK w : w = x[j + 1 + 1] - x[j + 1] OBVIOUS
  <2>2. w \in Nat /\ w > 0
    <3>1. j + 1 + 1 \in 1 .. Len(x) BY <1>1, <1>7
    <3>2. x[j + 1] < x[j + 1 + 1] BY <1>1, <1>7 DEF IsAxis
    <3> QED BY <1>1, <1>2, <2>1, <3>1, <3>2
  <2>3. f = <<y[j + 1] * w + (e - x[j + 1]) * (y[j + 1 + 1] - y[j + 1]), w>>
    <3>1. (j + 1 + 1) - 1 = j + 1 OBVIOUS
    <3> QED BY <1>7, <2>1, <3>1 DEF LogInterp
  <2>4. f[2] = w /\ f[1] = q * w
    <3>1. e - x[j + 1] = 0 BY <1>3, <1>4, <1>7
    <3>2. y[j + 1 + 1] - y[j + 1] \in Int
      <4>1. j + 1 + 1 \in 1 .. Len(x) BY <1>1, <1>7
      <4> QED BY <1>1, <1>2, <4>1
    <3>3. 0 * (y[j + 1 + 1] - y[j + 1]) = 0 BY <3>2
    <3>4. q * w \in Int BY <1>4, <2>2
    <3>5. f[1] = q * w + 0 BY <1>3, <2>3, <3>1, <3>3
    <3> QED BY <2>3, <3>4, <3>5
  <2>5. p * w <= q * w \/ q * w <= p * w
    <3>1. p * w \in Int /\ q * w \in Int BY <1>4, <2>2
    <3> QED BY <3>1
  <2>6. e # a BY <1>3, <1>4, <1>7
  <2>7. q * w <= q * w
    <3>1. q * w \in Int BY <1>4, <2>2
    <3> QED BY <3>1
  <2> QED BY <1>3, <2>4, <2>5, <2>6, <2>7
<1>8. Upper(x, e) = j \/ (e = x[j + 1] /\ j + 1 \in 1 .. Len(x) - 1 /\ Upper(x, e) = j + 1)
  BY <1>1, UpperFacts
<1> QED BY <1>6, <1>7, <1>8

(* In every state of a run the rows of the Green function main() makes of    *)
(* the bin that has just returned are the distributions of its particles:    *)
(* the bin's particles are all there, each with the bin's energy and a seed  *)
(* of its own, whatever the threads did (WeightInv).                         *)
LEMMA GreenShares == IInv => GreenIsShare
<1> SUFFICES ASSUME IInv, main = "bin", bin > 0, NEW x \in Grids
             PROVE  RowIsShare(x, weight[bin], GreenRow(x, weight[bin]))
  BY DEF GreenIsShare
<1>1. PICK particles : particles = weight[bin] OBVIOUS
<1>2. bin \in 0 .. NBins /\ NBins \in Nat /\ bin \in 1 .. Len(weight) /\ weight \in Seq(BinResult)
  BY ConstantsAssumption DEF IInv, TypeOK, WeightInv
<1>3. particles \in BinResult BY <1>1, <1>2
<1>4. DOMAIN particles = Index BY <1>3 DEF BinResult
<1>5. IsFiniteSet(DOMAIN particles)
  <2>1. 0 \in Int /\ Number - 1 \in Int BY ConstantsAssumption
  <2>2. IsFiniteSet(0 .. Number - 1) BY <2>1, FS_Interval
  <2> QED BY <1>4, <2>2 DEF Index
<1>6. ASSUME NEW i \in DOMAIN particles
      PROVE  Exit(particles[i].ek, particles[i].seed) \in Int
  <2>1. i \in Index BY <1>4
  <2>2. particles[i].ek = bin - 1 /\ SeedFits(bin - 1, i, particles[i].seed)
    BY <1>1, <1>2, <2>1 DEF IInv, WeightInv
  <2>3. bin - 1 \in 0 .. NBins - 1 BY <1>2
  <2>4. particles[i].seed \in SeedsOf(bin - 1) BY <2>1, <2>2 DEF SeedFits, SeedsOf
  <2>5. Exit(bin - 1, particles[i].seed) \in Int BY <2>3, <2>4, AxesAssumption
  <2> QED BY <2>2, <2>5
<1> QED BY <1>1, <1>5, <1>6, GridFacts, RowFacts

(* Of every run: what main() makes of the particles simulating() returned is *)
(* their distribution, and the boundary flux keeps to the points of its file.*)
THEOREM ModulationIsSound == Spec => []ModulationSound
<1>1. IInv => ModulationSound
  BY GreenShares, FluxIsKept DEF ModulationSound
<1> QED BY <1>1, Invariance, PTL
=============================================================================
