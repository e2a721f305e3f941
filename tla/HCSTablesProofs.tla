--------------------------- MODULE HCSTablesProofs ---------------------------
(***************************************************************************)
(* Proofs about the table directory: what the generator keeps true of it   *)
(* through every crash and restart, and what the program that reads it may *)
(* rely on, for any number of tables, starts and queries.                  *)
(***************************************************************************)
EXTENDS HCSTables, TLAPS

(* A step of the composed system is a step of the generator, or leaves the   *)
(* generator and the directory alone.                                        *)
LEMMA StepsOfGenerator == [Next]_vars => [GenNext]_genVars
BY DEF Next, vars, genVars, InitTables, GetDistance, Restart

(* gen_HCS_distance_map starts with an empty list and no table. *)
LEMMA GenInitInv == GenInit => GenInv
<1> SUFFICES ASSUME GenInit PROVE GenInv
  OBVIOUS
<1> USE ConstantsAssumption DEF GenInit, Tables
<1>1. GenTypeOK
  BY DEF GenTypeOK
<1>2. ListedInOrder /\ DoneIsComplete /\ Progress
  BY DEF ListedInOrder, DoneIsComplete, Progress
<1> QED
  BY <1>1, <1>2 DEF GenInv

(* Appending the next name keeps the list in order. *)
LEMMA AppendInOrder ==
  ASSUME NEW l \in Seq(Tables), NEW n \in Tables, Len(l) = n,
         \A k \in 1 .. Len(l) : l[k] = k - 1
  PROVE  /\ Append(l, n) \in Seq(Tables) /\ Len(Append(l, n)) = n + 1
         /\ \A k \in 1 .. Len(Append(l, n)) : Append(l, n)[k] = k - 1
BY DEF Tables

(* Every step of the generator, its crashes and restarts included, keeps the *)
(* invariant: what it knows of the files it has passed stays true.           *)
LEMMA GenStepInv == GenInv /\ [GenNext]_genVars => GenInv'
<1> SUFFICES ASSUME GenInv, [GenNext]_genVars PROVE GenInv'
  OBVIOUS
<1> USE ConstantsAssumption DEF GenInv
<1>1. CASE Start
  <2>1. GenTypeOK'
    BY <1>1 DEF Start, GenTypeOK, Tables
  <2>2. namelist' = << >> /\ gen' = "list" /\ i' = 0 /\ file' = file
    BY <1>1 DEF Start
  <2>3. ListedInOrder' /\ DoneIsComplete'
    BY <2>2 DEF ListedInOrder, DoneIsComplete
  <2>4. Progress'
    BY <2>2 DEF Progress, Tables
  <2> QED
    BY <2>1, <2>3, <2>4
<1>2. CASE List
  <2>1. i \in Tables /\ Len(namelist) = i /\ namelist \in Seq(Tables)
    BY <1>2 DEF List, GenTypeOK, Progress, Tables
  <2>2. /\ namelist' \in Seq(Tables) /\ Len(namelist') = i + 1
        /\ \A k \in 1 .. Len(namelist') : namelist'[k] = k - 1
    BY <1>2, <2>1, AppendInOrder DEF List, ListedInOrder
  <2>3. GenTypeOK'
    BY <1>2, <2>2 DEF List, GenTypeOK
  <2>4. ListedInOrder' /\ DoneIsComplete'
    BY <1>2, <2>2 DEF List, ListedInOrder, DoneIsComplete
  <2>5. /\ gen = "list" /\ gen' = "exists" /\ i' = i /\ file' = file /\ i < NTables
        /\ \A k \in 0 .. i - 1 : file[k] # "absent"
    BY <1>2 DEF List, Progress
  <2>6. Progress'
    BY <2>1, <2>2, <2>5 DEF Progress, Tables
  <2> QED
    BY <2>3, <2>4, <2>6
<1>3. CASE SkipExisting
  BY <1>3 DEF SkipExisting, GenTypeOK, ListedInOrder, DoneIsComplete, Progress, Tables
<1>4. CASE Open
  <2>1. i \in Tables
    BY <1>4 DEF Open, GenTypeOK, Progress, Tables
  <2> QED
    BY <1>4, <2>1 DEF Open, GenTypeOK, ListedInOrder, DoneIsComplete, Progress
<1>5. CASE Close
  <2>1. i \in Tables /\ i + 1 \in 0 .. NTables
    BY <1>5 DEF Close, GenTypeOK, Progress, Tables
  <2>2. /\ gen = "store" /\ file' = [file EXCEPT ![i] = "whole"] /\ i' = i + 1 /\ gen' = "list"
        /\ UNCHANGED <<namelist, starts>>
    BY <1>5 DEF Close
  <2>3. GenTypeOK' /\ ListedInOrder' /\ DoneIsComplete'
    BY <2>1, <2>2 DEF GenTypeOK, ListedInOrder, DoneIsComplete
  <2>4. Len(namelist) = i + 1 /\ \A k \in Tables : k + 1 < Len(namelist) => file[k] # "absent"
    BY <2>2 DEF Progress
  <2>5. \A k \in Tables : file'[k] = IF k = i THEN "whole" ELSE file[k]
    BY <2>1, <2>2 DEF GenTypeOK
  <2>6. \A k \in 0 .. i : k \in Tables /\ (k # i => k + 1 < Len(namelist))
    BY <2>1, <2>4 DEF Tables
  <2>7. \A k \in 0 .. i' - 1 : file'[k] # "absent"
    BY <2>1, <2>2, <2>4, <2>5, <2>6 DEF Tables
  <2>8. Progress'
    BY <2>2, <2>4, <2>5, <2>7 DEF Progress
  <2> QED
    BY <2>3, <2>8
<1>6. CASE AllListed
  BY <1>6 DEF AllListed, GenTypeOK, ListedInOrder, DoneIsComplete, Progress
<1>7. CASE Verify
  BY <1>7 DEF Verify, GenTypeOK, ListedInOrder, DoneIsComplete, Progress
<1>8. CASE Verified
  BY <1>8 DEF Verified, GenTypeOK, ListedInOrder, DoneIsComplete, Progress, Tables
<1>9. CASE Crash
  BY <1>9 DEF Crash, GenTypeOK, ListedInOrder, DoneIsComplete, Progress
<1>10. CASE UNCHANGED genVars
  BY <1>10 DEF genVars, GenTypeOK, ListedInOrder, DoneIsComplete, Progress
<1> QED
  BY <1>1, <1>2, <1>3, <1>4, <1>5, <1>6, <1>7, <1>8, <1>9, <1>10 DEF GenNext, GenStep

(* The invariant of the directory holds throughout, whatever the generator   *)
(* and the programs that read its tables do.                                 *)
THEOREM DirectoryInvariant == Spec => []GenInv
<1>1. Init => GenInv
  BY GenInitInv DEF Init
<1>2. GenInv /\ [Next]_vars => GenInv'
  BY StepsOfGenerator, GenStepInv
<1> QED
  BY <1>1, <1>2, PTL DEF Spec

(* The names on disk are the first tables in order, each once, at any time.  *)
THEOREM NamesInOrder == Spec => []ListedInOrder
<1>1. GenInv => ListedInOrder
  BY DEF GenInv
<1> QED
  BY <1>1, DirectoryInvariant, PTL

(* A generator that ends normally leaves a complete set of whole tables.     *)
THEOREM DoneComplete == Spec => []DoneIsComplete
<1>1. GenInv => DoneIsComplete
  BY DEF GenInv
<1> QED
  BY <1>1, DirectoryInvariant, PTL

(* No step of the generator touches a file that is whole.                    *)
LEMMA WholeStays ==
  GenInv /\ [GenNext]_genVars => \A k \in Tables : file[k] = "whole" => file'[k] = "whole"
<1> SUFFICES ASSUME GenInv, [GenNext]_genVars, NEW k \in Tables, file[k] = "whole"
             PROVE  file'[k] = "whole"
  OBVIOUS
<1>1. CASE Open
  BY <1>1 DEF Open, GenInv, GenTypeOK
<1>2. CASE Close
  BY <1>2 DEF Close, GenInv, GenTypeOK
<1>3. CASE UNCHANGED file
  BY <1>3
<1> QED
  BY <1>1, <1>2, <1>3
     DEF GenNext, GenStep, genVars, Start, List, SkipExisting, AllListed, Verify, Verified, Crash

(* A whole table is kept for ever.                                           *)
THEOREM TablesKept == Spec => WholeKept
<1>1. GenInv /\ [Next]_vars => [\A k \in Tables : file[k] = "whole" => file'[k] = "whole"]_genVars
  BY StepsOfGenerator, WholeStays
<1> QED
  BY <1>1, DirectoryInvariant, PTL DEF Spec, WholeKept
-----------------------------------------------------------------------------
(* What a program has read of the directory: its names are a beginning of    *)
(* the tables, in order, and all but the last have a file.                   *)
NamesInv ==
  /\ hcs \in {"none", "ready", "bad_axis", "refused", "undefined", "missing", "unreadable"}
  /\ names \in Seq(Tables)
  /\ \A k \in 1 .. Len(names) : names[k] = k - 1
  /\ \A k \in Tables : k + 1 < Len(names) => file[k] # "absent"
  /\ angle \in Int

LoadedInv ==
  /\ \A k \in loaded : k \in Tables /\ k < Len(names) /\ file[k] = "whole"
  /\ used \in Tables \cup {-1}
  /\ hcs = "none" => loaded = {} /\ used = -1

HcsInv == NamesInv /\ LoadedInv /\ RightTable /\ AxisSound /\ ListedExists

(* The bounds of the axis: the k-th is the lower bound of the k-th interval. *)
LEMMA AxisBounds ==
  ASSUME NamesInv, names # << >>
  PROVE  /\ Axis \in Seq(Int) /\ Len(Axis) = Len(names) + 1
         /\ \A k \in 1 .. Len(names) + 1 : Axis[k] = 2 * k - 1
<1>1. PICK n \in Nat \ {0} : Len(names) = n
  BY DEF NamesInv
<1> DEFINE low == [k \in 1 .. n |-> Low(names[k])]
<1>2. Axis = Append(low, Low(names[n] + 1))
  BY <1>1 DEF Axis
<1>3. low \in Seq(Int) /\ Len(low) = n /\ \A k \in 1 .. n : low[k] = 2 * k - 1
  BY <1>1 DEF NamesInv, Low
<1>4. Low(names[n] + 1) = 2 * n + 1
  BY <1>1 DEF NamesInv, Low
<1> QED
  BY <1>1, <1>2, <1>3, <1>4

(* upper_bound finds the interval that holds the angle: its lower bound is   *)
(* the greatest of the axis that does not exceed the angle.                  *)
LEMMA IntervalHolds ==
  ASSUME NamesInv
  PROVE  /\ Interval \in -1 .. Len(names)
         /\ names # << >> /\ Interval >= 0 => 2 * Interval + 1 <= angle
         /\ names # << >> /\ Interval < Len(names) => angle < 2 * Interval + 3
         /\ names = << >> => Interval <= 0
<1>1. CASE names = << >>
  <2>1. Axis = <<-1>>
    BY <1>1 DEF Axis
  <2> DEFINE le == {k \in DOMAIN Axis : Axis[k] <= angle}
  <2>2. le = {} \/ le = {1}
    BY <2>1
  <2>3. Interval = IF le = {} THEN -1 ELSE (CHOOSE k \in le : \A j \in le : j <= k) - 1
    BY DEF Interval
  <2>4. CASE le = {1}
    <3>1. (CHOOSE k \in le : \A j \in le : j <= k) = 1
      BY <2>4
    <3> QED
      BY <1>1, <2>3, <2>4, <3>1
  <2> QED
    BY <1>1, <2>2, <2>3, <2>4
<1>2. CASE names # << >>
  <2>1. PICK n \in Nat \ {0} : Len(names) = n
    BY <1>2 DEF NamesInv
  <2> DEFINE le == {k \in DOMAIN Axis : Axis[k] <= angle}
  <2>2. le = {k \in 1 .. n + 1 : 2 * k - 1 <= angle}
    BY <1>2, <2>1, AxisBounds
  <2>3. angle \in Int
    BY DEF NamesInv
  <2>4. Interval = IF le = {} THEN -1 ELSE (CHOOSE k \in le : \A j \in le : j <= k) - 1
    BY DEF Interval
  <2>5. CASE angle < 1
    <3>1. le = {}
      BY <2>2, <2>3, <2>5
    <3> QED
      BY <1>2, <2>1, <2>3, <2>4, <2>5, <3>1
  <2>6. CASE angle >= 1
    <3> DEFINE top == IF 2 * n + 1 <= angle THEN n + 1 ELSE (angle + 1) \div 2
    <3>1. top \in le /\ \A j \in le : j <= top
      BY <2>2, <2>3, <2>6
    <3>2. (CHOOSE k \in le : \A j \in le : j <= k) = top
      <4> DEFINE m == CHOOSE k \in le : \A j \in le : j <= k
      <4>1. m \in le /\ \A j \in le : j <= m
        BY <3>1
      <4>2. m <= top /\ top <= m
        BY <3>1, <4>1
      <4> QED
        BY <2>2, <3>1, <4>1, <4>2
    <3>3. Interval = top - 1
      BY <2>4, <3>1, <3>2
    <3>4. top \in 1 .. n + 1 /\ 2 * top - 1 <= angle /\ (top < n + 1 => angle < 2 * top + 1)
      BY <2>3, <2>6, <2>1
    <3> QED
      BY <1>2, <2>1, <2>3, <3>3, <3>4
  <2> QED
    BY <2>3, <2>5, <2>6
<1> QED
  BY <1>1, <1>2
-----------------------------------------------------------------------------
(* Files are never removed, and a whole one stays whole.                     *)
LEMMA FilesStay ==
  GenInv /\ [Next]_vars =>
    \A k \in Tables : /\ file[k] # "absent" => file'[k] # "absent"
                      /\ file[k] = "whole" => file'[k] = "whole"
<1> SUFFICES ASSUME GenInv, [Next]_vars, NEW k \in Tables
             PROVE  /\ file[k] # "absent" => file'[k] # "absent"
                    /\ file[k] = "whole" => file'[k] = "whole"
  OBVIOUS
<1>1. [GenNext]_genVars
  BY StepsOfGenerator
<1>2. CASE Open
  BY <1>2 DEF Open, GenInv, GenTypeOK
<1>3. CASE Close
  BY <1>3 DEF Close, GenInv, GenTypeOK
<1>4. CASE UNCHANGED file
  BY <1>4
<1> QED
  BY <1>1, <1>2, <1>3, <1>4
     DEF GenNext, GenStep, genVars, Start, List, SkipExisting, AllListed, Verify, Verified, Crash

(* The program begins with nothing read.                                     *)
LEMMA InitHcsInv == Init => HcsInv
BY ConstantsAssumption
   DEF Init, HcsInv, NamesInv, LoadedInv, RightTable, AxisSound, ListedExists, Angles, Low, Tables

(* The generator changes nothing of what the program holds, and what the     *)
(* program knows of the files stays true.                                    *)
LEMMA HcsFrame ==
  ASSUME GenInv, HcsInv, [Next]_vars, UNCHANGED hcsVars
  PROVE  HcsInv'
<1>1. NamesInv'
  BY FilesStay DEF HcsInv, NamesInv, hcsVars
<1>2. LoadedInv'
  BY FilesStay DEF HcsInv, LoadedInv, hcsVars
<1>3. RightTable'
  BY FilesStay DEF HcsInv, RightTable, LoadedInv, hcsVars
<1>4. AxisSound' /\ ListedExists'
  BY DEF HcsInv, AxisSound, ListedExists, hcsVars
<1> QED
  BY <1>1, <1>2, <1>3, <1>4 DEF HcsInv

(* init_tables: the list is in order, so its assertion holds.                *)
LEMMA InitTablesStep ==
  ASSUME GenInv, HcsInv, InitTables
  PROVE  HcsInv'
<1>1. names' = namelist /\ UNCHANGED <<loaded, angle, used, queries, genVars>> /\ hcs = "none"
  BY DEF InitTables
<1>2. namelist \in Seq(Tables) /\ (\A k \in 1 .. Len(namelist) : namelist[k] = k - 1)
      /\ \A k \in Tables : k + 1 < Len(namelist) => file[k] # "absent"
  BY DEF GenInv, GenTypeOK, ListedInOrder, Progress
<1>3. Contiguous(namelist)
  BY <1>2 DEF Contiguous
<1>4. hcs' = "ready"
  BY <1>3 DEF InitTables
<1>5. NamesInv'
  BY <1>1, <1>2, <1>4 DEF HcsInv, NamesInv, genVars
<1>6. loaded = {} /\ used = -1
  BY <1>1 DEF HcsInv, LoadedInv
<1> QED
  BY <1>1, <1>4, <1>5, <1>6 DEF HcsInv, LoadedInv, RightTable, AxisSound, ListedExists

(* The table of the interval get_distance_intp picks: it exists, because the *)
(* interval is not the last of the list, and it covers the angle.            *)
LEMMA PickedTable ==
  ASSUME GenInv, HcsInv, InAxis, ~Outside
  PROVE  /\ Interval \in Tables /\ Interval < Len(names) /\ names[Interval + 1] = Interval
         /\ file[Interval] # "absent"
         /\ Low(Interval) <= angle /\ angle < Low(Interval + 1)
<1>1. NamesInv
  BY DEF HcsInv
<1>2. names # << >> /\ Interval \in Nat /\ Interval < Len(names)
  BY <1>1, IntervalHolds DEF InAxis, Outside, NamesInv
<1>3. Len(Axis) = Len(names) + 1 /\ Len(names) \in Nat
  BY <1>1, <1>2, AxisBounds DEF NamesInv
<1>4. Interval + 1 < Len(names)
  BY <1>2, <1>3 DEF InAxis
<1>5. names[Interval + 1] = Interval /\ names[Interval + 1] \in Tables
  BY <1>1, <1>2 DEF NamesInv
<1>6. file[Interval] # "absent"
  BY <1>1, <1>4, <1>5 DEF NamesInv
<1>7. 2 * Interval + 1 <= angle /\ angle < 2 * Interval + 3
  BY <1>1, <1>2, IntervalHolds
<1> QED
  BY <1>2, <1>5, <1>6, <1>7 DEF Low

(* A query: every way it can end.                                            *)
LEMMA GetDistanceStep ==
  ASSUME GenInv, HcsInv, GetDistance
  PROVE  HcsInv'
<1>1. names' = names /\ angle' = angle /\ UNCHANGED genVars /\ hcs = "ready"
  BY DEF GetDistance
<1>2. file' = file
  BY <1>1 DEF genVars
<1>3. CASE ~InAxis
  BY <1>1, <1>2, <1>3
     DEF GetDistance, HcsInv, NamesInv, LoadedInv, RightTable, AxisSound, ListedExists
<1>4. CASE InAxis /\ Outside
  <2>1. hcs' = "undefined" /\ UNCHANGED <<loaded, used>>
    BY <1>4 DEF GetDistance
  <2>2. names = << >>
    <3> SUFFICES ASSUME names # << >> PROVE FALSE
      OBVIOUS
    <3>1. NamesInv
      BY DEF HcsInv
    <3>2. Len(Axis) = Len(names) + 1 /\ Len(names) \in Nat /\ Len(names) > 0 /\ Interval \in Int
      BY <3>1, AxisBounds, IntervalHolds DEF NamesInv
    <3> QED
      BY <1>4, <3>2 DEF InAxis, Outside
  <2> QED
    BY <1>1, <1>2, <2>1, <2>2
       DEF HcsInv, NamesInv, LoadedInv, RightTable, AxisSound, ListedExists
<1>5. CASE InAxis /\ ~Outside
  <2>1. /\ Interval \in Tables /\ Interval < Len(names) /\ names[Interval + 1] = Interval
        /\ file[Interval] # "absent"
        /\ Low(Interval) <= angle /\ angle < Low(Interval + 1)
    BY <1>5, PickedTable
  <2>2. CASE Interval \in loaded
    <3>1. used' = Interval /\ UNCHANGED <<hcs, loaded>>
      BY <1>5, <2>1, <2>2 DEF GetDistance
    <3>2. file[Interval] = "whole"
      BY <2>2 DEF HcsInv, LoadedInv
    <3> QED
      BY <1>1, <1>2, <2>1, <3>1, <3>2
         DEF HcsInv, NamesInv, LoadedInv, RightTable, AxisSound, ListedExists
  <2>3. CASE Interval \notin loaded
    <3>1. Load
      BY <1>5, <2>3 DEF GetDistance
    <3>2. file[Interval] \in {"torn", "whole"}
      BY <2>1 DEF GenInv, GenTypeOK
    <3>3. CASE file[Interval] = "torn"
      <4>1. hcs' = "unreadable" /\ UNCHANGED <<loaded, used>>
        BY <2>1, <3>1, <3>3 DEF Load
      <4> QED
        BY <1>1, <1>2, <4>1
           DEF HcsInv, NamesInv, LoadedInv, RightTable, AxisSound, ListedExists
    <3>4. CASE file[Interval] = "whole"
      <4>1. loaded' = loaded \cup {Interval} /\ used' = Interval /\ UNCHANGED hcs
        BY <2>1, <3>1, <3>4 DEF Load
      <4> QED
        BY <1>1, <1>2, <2>1, <3>4, <4>1
           DEF HcsInv, NamesInv, LoadedInv, RightTable, AxisSound, ListedExists
    <3> QED
      BY <3>2, <3>3, <3>4
  <2> QED
    BY <2>2, <2>3
<1> QED
  BY <1>3, <1>4, <1>5

(* The next program begins with nothing read.                                *)
LEMMA RestartStep ==
  ASSUME GenInv, HcsInv, Restart
  PROVE  HcsInv'
<1>1. /\ hcs' = "none" /\ names' = << >> /\ loaded' = {} /\ used' = -1
      /\ angle' \in Angles /\ UNCHANGED genVars
  BY DEF Restart
<1>2. angle' \in Int
  BY <1>1, ConstantsAssumption DEF Angles, Low
<1>3. file' = file
  BY <1>1 DEF genVars
<1>4. NamesInv'
  <2>1. << >> \in Seq(Tables) /\ Len(<< >>) = 0
    OBVIOUS
  <2>2. \A k \in Tables : ~ (k + 1 < 0)
    BY ConstantsAssumption DEF Tables
  <2>3. \A k \in 1 .. 0 : FALSE
    OBVIOUS
  <2>4. names' \in Seq(Tables) /\ Len(names') = 0
    BY <1>1, <2>1
  <2>5. Tables' = Tables
    BY DEF Tables
  <2> QED
    BY <1>1, <1>2, <1>3, <2>2, <2>3, <2>4, <2>5 DEF NamesInv
<1>5. LoadedInv' /\ RightTable' /\ AxisSound' /\ ListedExists'
  BY <1>1, <1>2, <1>3 DEF LoadedInv, RightTable, AxisSound, ListedExists
<1> QED
  BY <1>1, <1>2, <1>3, <1>4, <1>5 DEF HcsInv

(* What the programs rely on holds throughout.                               *)
THEOREM ReaderInvariant == Spec => []HcsInv
<1>1. GenInv /\ HcsInv /\ [Next]_vars => HcsInv'
  <2> SUFFICES ASSUME GenInv, HcsInv, [Next]_vars PROVE HcsInv'
    OBVIOUS
  <2>1. CASE InitTables
    BY <2>1, InitTablesStep
  <2>2. CASE GetDistance
    BY <2>2, GetDistanceStep
  <2>3. CASE Restart
    BY <2>3, RestartStep
  <2>4. CASE UNCHANGED hcsVars
    BY <2>4, HcsFrame
  <2> QED
    BY <2>1, <2>2, <2>3, <2>4 DEF Next, vars
<1> QED
  BY <1>1, InitHcsInv, DirectoryInvariant, PTL DEF Spec

(* A distance is only ever interpolated in a whole table whose interval of   *)
(* tilt angles holds HCS::angle.                                             *)
THEOREM RightTableUsed == Spec => []RightTable
<1>1. HcsInv => RightTable
  BY DEF HcsInv
<1> QED
  BY <1>1, ReaderInvariant, PTL

(* The axis assertion never fails; only an empty list leads outside tables.  *)
THEOREM AxisIsSound == Spec => []AxisSound
<1>1. HcsInv => AxisSound
  BY DEF HcsInv
<1> QED
  BY <1>1, ReaderInvariant, PTL

(* No program ever asks for a listed table that does not exist.              *)
THEOREM ListedFilesExist == Spec => []ListedExists
<1>1. HcsInv => ListedExists
  BY DEF HcsInv
<1> QED
  BY <1>1, ReaderInvariant, PTL

(* Every variable keeps its type, for any number of tables and queries.      *)
THEOREM TypeCorrect == Spec => []TypeOK
<1> DEFINE Own == angle \in Angles /\ queries \in 0 .. MaxQueries
<1>1. Init => Own
  BY QueriesAssumption DEF Init
<1>2. Own /\ [Next]_vars => Own'
  <2> SUFFICES ASSUME Own, [Next]_vars PROVE Own'
    OBVIOUS
  <2>1. Angles' = Angles
    BY DEF Angles
  <2>2. CASE InitTables
    BY <2>1, <2>2 DEF InitTables
  <2>3. CASE GetDistance
    <3>1. queries' = queries + 1 /\ queries < MaxQueries /\ angle' = angle
      BY <2>3 DEF GetDistance
    <3> QED
      BY <2>1, <3>1, QueriesAssumption
  <2>4. CASE Restart
    BY <2>1, <2>4, QueriesAssumption DEF Restart
  <2>5. CASE UNCHANGED hcsVars
    BY <2>1, <2>5 DEF hcsVars
  <2> QED
    BY <2>2, <2>3, <2>4, <2>5 DEF Next, vars
<1>3. GenInv /\ HcsInv /\ Own => TypeOK
  <2> SUFFICES ASSUME GenInv, HcsInv, Own PROVE TypeOK
    OBVIOUS
  <2>1. loaded \subseteq Tables /\ used \in Tables \cup {-1}
    BY DEF HcsInv, LoadedInv
  <2> QED
    BY <2>1 DEF TypeOK, GenInv, HcsInv, NamesInv
<1> HIDE DEF Own
<1> QED
  BY <1>1, <1>2, <1>3, DirectoryInvariant, ReaderInvariant, PTL DEF Spec
=============================================================================
