------------------------------ MODULE MCSpecFiles ------------------------------
(* Small data for SpecFiles: a refused dataset of each kind, matrices with an *)
(* ETOA axis as long as the ELIS axis and shorter.                            *)
EXTENDS SpecFiles

MCSpectra == {[E |-> <<1, 2>>, F |-> <<1, 1>>], [E |-> <<2>>, F |-> <<2>>],
              [E |-> <<1, 2>>, F |-> <<2>>]}

MCMatrices == {[ETOA |-> <<1, 2>>, ELIS |-> <<2, 2>>, M |-> <<<<1, 1>>, <<2, 1>>>>],
               [ETOA |-> <<2>>, ELIS |-> <<1, 2, 2>>, M |-> <<<<2, 1, 1>>>>],
               [ETOA |-> <<1>>, ELIS |-> <<1>>, M |-> << >>]}
=============================================================================
