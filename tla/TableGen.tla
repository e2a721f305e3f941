------------------------------ MODULE TableGen ------------------------------
(***************************************************************************)
(* gen_HCS_distance_map: the program that writes one table file per        *)
(* interval of the tilt angle and the list of their names (namelist.txt),  *)
(* which KDInterp::store_table and HCS::init_tables share with it through  *)
(* the directory.  It runs for hours, may be killed at any point, and is   *)
(* then started again in the same directory.                               *)
(*                                                                         *)
(* Abstractions: table k covers the k-th interval of the array angs; a     *)
(* file is absent, torn (opened, not yet closed) or whole.                 *)
(***************************************************************************)
EXTENDS Integers, Sequences

CONSTANTS NTables,    \* angs.size() - 1
          MaxStarts   \* bound on the starts of the program

ASSUME ConstantsAssumption == NTables \in Nat /\ MaxStarts \in Nat

Tables == 0 .. NTables - 1

VARIABLES namelist,   \* namelist.txt: the tables listed so far
          file,       \* the table files
          gen,        \* where the generator is
          i,          \* its loop variable
          starts

genVars == <<namelist, file, gen, i, starts>>

GenInit ==
  /\ namelist = << >>
  /\ file = [k \in Tables |-> "absent"]
  /\ gen = "down" /\ i = 0 /\ starts = 0

(* ofstream namelist(...) truncates the list of an earlier run. *)
MutStart ==     \* opened for appending
  /\ gen \in {"down", "done"} /\ starts < MaxStarts
  /\ gen' = "list" /\ i' = 0 /\ starts' = starts + 1
  /\ UNCHANGED <<namelist, file>>

Start ==
  /\ gen \in {"down", "done"} /\ starts < MaxStarts
  /\ namelist' = << >>
  /\ gen' = "list" /\ i' = 0 /\ starts' = starts + 1
  /\ UNCHANGED file

(* gen_kd lists the name, flushed by endl, before there is a file. *)
List ==
  /\ gen = "list" /\ i < NTables
  /\ namelist' = Append(namelist, i)
  /\ gen' = "exists"
  /\ UNCHANGED <<file, i, starts>>

SkipExisting ==
  /\ gen = "exists" /\ file[i] # "absent"
  /\ i' = i + 1 /\ gen' = "list"
  /\ UNCHANGED <<namelist, file, starts>>

(* hcs_interp(...) computes the table; store_table opens the file. *)
MutOpen ==     \* existing files are not skipped
  /\ gen = "exists"
  /\ file' = [file EXCEPT ![i] = "torn"]
  /\ gen' = "store"
  /\ UNCHANGED <<namelist, i, starts>>

Open ==
  /\ gen = "exists" /\ file[i] = "absent"
  /\ file' = [file EXCEPT ![i] = "torn"]
  /\ gen' = "store"
  /\ UNCHANGED <<namelist, i, starts>>

Close ==
  /\ gen = "store"
  /\ file' = [file EXCEPT ![i] = "whole"]
  /\ i' = i + 1 /\ gen' = "list"
  /\ UNCHANGED <<namelist, starts>>

(* The second loop reads every table back; an unreadable one ends the        *)
(* program through the exception of rfl's value().                           *)
AllListed ==
  /\ gen = "list" /\ i = NTables
  /\ gen' = "verify" /\ i' = 0
  /\ UNCHANGED <<namelist, file, starts>>

MutVerify ==     \* the exception swallowed
  /\ gen = "verify" /\ i < NTables
  /\ i' = i + 1
  /\ UNCHANGED <<namelist, file, gen, starts>>

Verify ==
  /\ gen = "verify" /\ i < NTables
  /\ IF file[i] = "whole" THEN i' = i + 1 /\ UNCHANGED gen
                          ELSE gen' = "down" /\ UNCHANGED i
  /\ UNCHANGED <<namelist, file, starts>>

Verified ==
  /\ gen = "verify" /\ i = NTables
  /\ gen' = "done"
  /\ UNCHANGED <<namelist, file, i, starts>>

GenStep == List \/ SkipExisting \/ Open \/ Close \/ AllListed \/ Verify \/ Verified

Crash ==
  /\ gen \notin {"down", "done"}
  /\ gen' = "down"
  /\ UNCHANGED <<namelist, file, i, starts>>

GenNext == Start \/ GenStep \/ Crash

GenSpec == GenInit /\ [][GenNext]_genVars
-----------------------------------------------------------------------------
GenTypeOK ==
  /\ namelist \in Seq(Tables)
  /\ file \in [Tables -> {"absent", "torn", "whole"}]
  /\ gen \in {"down", "list", "exists", "store", "verify", "done"}
  /\ i \in 0 .. NTables
  /\ starts \in 0 .. MaxStarts

(* Whatever crashes and restarts happened, the list on disk names the first  *)
(* tables in the order of their intervals, each once: the axis HCS builds    *)
(* from it is increasing and has no gap (its assertion last_up == alow).     *)
ListedInOrder == \A k \in 1 .. Len(namelist) : namelist[k] = k - 1

(* A program that ends normally leaves every table listed and readable, even *)
(* if earlier runs were killed while they stored one.                        *)
DoneIsComplete == gen = "done" => Len(namelist) = NTables /\ \A k \in Tables : file[k] = "whole"

(* Hours of work are kept: no later run damages a table that is whole.       *)
WholeKept == [][\A k \in Tables : file[k] = "whole" => file'[k] = "whole"]_genVars

(* The inductive invariant: how far the list and the checks have got.        *)
Progress ==
  /\ \A k \in Tables : k + 1 < Len(namelist) => file[k] # "absent"
  /\ gen = "list" => Len(namelist) = i /\ \A k \in 0 .. i - 1 : file[k] # "absent"
  /\ gen \in {"exists", "store"} => Len(namelist) = i + 1 /\ i < NTables
  /\ gen = "store" => file[i] = "torn"
  /\ gen \in {"verify", "done"} => Len(namelist) = NTables
  /\ gen = "verify" => \A k \in 0 .. i - 1 : file[k] = "whole"

GenInv == GenTypeOK /\ ListedInOrder /\ DoneIsComplete /\ Progress
=============================================================================
