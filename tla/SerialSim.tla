------------------------------ MODULE SerialSim ------------------------------
(***************************************************************************)
(* What main() of HelProp promises of its simulation loop (HelProp.cc,     *)
(* 236-255): one result per energy bin, in the order of the bins.  The     *)
(* result of bin b holds the particles 0..Number-1, each simulated from    *)
(* the energy of that bin and from its own seed: with --seed the seed      *)
(* BaseSeed + b * Number + i, whatever the number of threads; without, one *)
(* of the draws of the random device.  The process may abort on an         *)
(* assertion and then reports nothing more.                                *)
(***************************************************************************)
EXTENDS Integers, Sequences

CONSTANTS Number,     \* --number, particles per bin
          NBins,      \* ETOA.size()
          BaseSeed,   \* --seed
          Draws       \* what random_device may return

VARIABLES fixed,      \* is --seed given
          weight,     \* the results of the bins so far
          aborted

Index == 0 .. Number - 1

SeedVectors(b) ==
  IF fixed THEN {[i \in Index |-> BaseSeed + b * Number + i]} ELSE [Index -> Draws]

Result(b, s) == [i \in Index |-> [ek |-> b, seed |-> s[i]]]

Init == fixed \in BOOLEAN /\ weight = << >> /\ aborted = FALSE

SimulateBin ==
  /\ ~aborted
  /\ Len(weight) < NBins
  /\ \E s \in SeedVectors(Len(weight)) : weight' = Append(weight, Result(Len(weight), s))
  /\ UNCHANGED <<fixed, aborted>>

Abort == ~aborted /\ aborted' = TRUE /\ UNCHANGED <<fixed, weight>>

Next == SimulateBin \/ Abort

Spec == Init /\ [][Next]_<<fixed, weight, aborted>>
=============================================================================
