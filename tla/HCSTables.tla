------------------------------ MODULE HCSTables ------------------------------
(***************************************************************************)
(* The user of the tables (HCS.cc): init_tables reads the list once, when  *)
(* the first HCS is constructed, and get_distance_intp picks the interval  *)
(* of HCS::angle and loads its table when it is first needed.  The program *)
(* may start while gen_HCS_distance_map is running or after it was killed. *)
(*                                                                         *)
(* Angles are integers: table k covers Low(k) .. Low(k + 1) - 1, angles    *)
(* below Low(0) and above the last bound exist as well.                    *)
(***************************************************************************)
EXTENDS TableGen

CONSTANT MaxQueries   \* bound on the queries of one program

ASSUME QueriesAssumption == MaxQueries \in Nat

VARIABLES hcs,        \* "none", "ready", or how the program ended
          names,      \* table_names
          loaded,     \* the tables that are not NULL
          angle,      \* HCS::angle
          used,       \* the table the last query used, or -1
          queries

hcsVars == <<hcs, names, loaded, angle, used, queries>>
vars == <<genVars, hcsVars>>

Low(k) == 2 * k + 1
Angles == 0 .. Low(NTables) + 1

(* angle_axis: the lower bounds of the listed tables and the upper bound of  *)
(* the last; without any name the initial value of aup, -1 degree.           *)
Axis ==
  IF names = << >> THEN <<-1>>
  ELSE Append([k \in 1 .. Len(names) |-> Low(names[k])], Low(names[Len(names)] + 1))

Init ==
  /\ GenInit
  /\ hcs = "none" /\ names = << >> /\ loaded = {}
  /\ angle \in Angles /\ used = -1 /\ queries = 0

(* The assertion last_up == alow of init_tables. *)
Contiguous(list) == \A k \in 1 .. Len(list) - 1 : list[k + 1] = list[k] + 1

InitTables ==
  /\ hcs = "none" /\ starts > 0
  /\ names' = namelist
  /\ hcs' = IF Contiguous(namelist) THEN "ready" ELSE "bad_axis"
  /\ UNCHANGED <<loaded, angle, used, queries, genVars>>

(* upper_bound(...) - begin() - 1 *)
MutInterval == LET le == {k \in DOMAIN Axis : Axis[k] < angle} IN
               IF le = {} THEN -1 ELSE CHOOSE k \in le : \A j \in le : j <= k     \* no - 1
Interval == LET le == {k \in DOMAIN Axis : Axis[k] <= angle} IN
            IF le = {} THEN -1 ELSE (CHOOSE k \in le : \A j \in le : j <= k) - 1

(* i < angle_axis.size() - 2, where the right side is unsigned: with a one   *)
(* element axis it is the largest size_t.                                    *)
MutInAxis == Interval >= 0 /\ Interval < Len(Axis) - 1     \* size() - 1
InAxis == Interval >= 0 /\ (Len(Axis) < 2 \/ Interval < Len(Axis) - 2)

(* tables[i] beyond the end: whatever the program does then. *)
Outside == Interval >= Len(names)

(* A table file that is missing fails the assertion of KDInterp(tabfile), an *)
(* unreadable one throws.                                                    *)
Load ==
  LET f == file[names[Interval + 1]] IN
  \/ f = "absent" /\ hcs' = "missing" /\ UNCHANGED <<loaded, used>>
  \/ f = "torn" /\ hcs' = "unreadable" /\ UNCHANGED <<loaded, used>>
  \/ /\ f = "whole"
     /\ loaded' = loaded \cup {Interval} /\ used' = names[Interval + 1] /\ UNCHANGED hcs

GetDistance ==
  /\ hcs = "ready" /\ queries < MaxQueries
  /\ queries' = queries + 1
  /\ \/ ~InAxis /\ hcs' = "refused" /\ UNCHANGED <<loaded, used>>
     \/ InAxis /\ Outside /\ hcs' = "undefined" /\ UNCHANGED <<loaded, used>>
     \/ /\ InAxis /\ ~Outside /\ Interval \in loaded
        /\ used' = names[Interval + 1] /\ UNCHANGED <<hcs, loaded>>
     \/ InAxis /\ ~Outside /\ Interval \notin loaded /\ Load
  /\ UNCHANGED <<names, angle, genVars>>

(* The next program, with its own --angle. *)
Restart ==
  /\ hcs \notin {"none", "ready"} \/ queries = MaxQueries
  /\ hcs' = "none" /\ names' = << >> /\ loaded' = {} /\ used' = -1 /\ queries' = 0
  /\ angle' \in Angles
  /\ UNCHANGED genVars

Next == \/ GenNext /\ UNCHANGED hcsVars
        \/ InitTables \/ GetDistance \/ Restart

Spec == Init /\ [][Next]_vars
-----------------------------------------------------------------------------
TypeOK ==
  /\ GenTypeOK
  /\ hcs \in {"none", "ready", "bad_axis", "refused", "undefined", "missing", "unreadable"}
  /\ names \in Seq(Tables) /\ loaded \subseteq Tables
  /\ angle \in Angles /\ used \in Tables \cup {-1} /\ queries \in 0 .. MaxQueries

(* A query that is answered was answered by the table whose interval holds   *)
(* the angle, and that table is whole on disk, although the list was read    *)
(* before and the generator may have been killed and restarted since.        *)
RightTable ==
  used # -1 => /\ Low(used) <= angle /\ angle < Low(used + 1)
               /\ file[used] = "whole"

(* The axis assertion never fails, and tables[i] is outside the vector only  *)
(* when the list was empty as it was read.                                   *)
AxisSound == hcs # "bad_axis" /\ (hcs = "undefined" => names = << >>)

(* KDInterp(tabfile) asserts that the file exists.  A name is listed before   *)
(* its file is made, so the assertion could fail for the last name of the    *)
(* list; it never does, because the axis assertion refuses that interval.    *)
ListedExists == hcs # "missing"

(* What the axis assertion says ("The HCS::angle should be in the range of   *)
(* angle_axis."): with a complete list it refuses no angle within the range. *)
RefusedOutsideOnly ==
  hcs = "refused" /\ Len(names) = NTables => angle < Axis[1] \/ angle >= Axis[Len(Axis)]
=============================================================================
