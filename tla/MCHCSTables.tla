---- MODULE MCHCSTables ----
(* Three tables, three starts of the generator, programs of two queries.     *)
EXTENDS HCSTables
====
