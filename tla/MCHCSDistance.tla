---- MODULE MCHCSDistance ----
(* Four phases, the last one like the first, and five longitudes.  Along a   *)
(* spiral the distance has one least value, two of different depth, or a     *)
(* flat stretch, and the sheet has three of them side by side; two surfaces  *)
(* without any other low are added.                                          *)
EXTENDS HCSDistance

Profiles == {<<6, 5, 6, 7, 7>>, <<5, 4, 1, 6, 2>>, <<3, 2, 1, 2, 4>>, <<6, 4, 4, 5, 7>>}
Sheets   == {P \in [0 .. 2 -> Profiles] :
               P[1][1] < 6 /\ Cardinality({P[u] : u \in 0 .. 2}) = 3}
Uneven   == {[c \in Cells |-> P[c[1] % 3][c[2] + 1]] : P \in Sheets}
Bowl(u, w) == [c \in Cells |-> 1 + (c[1] - u) * (c[1] - u) + (c[2] - w) * (c[2] - w)]

MCSurfaces == Uneven \cup {Bowl(1, 2), Bowl(2, 3)}
MCCrest  == {0, 1, 3}
MCInner  == {<<1, 2>>}
MCStarts == {<<u, 0>> : u \in {0, 2}}
MCRadii  == {1, 11}
MCOffsets == {0, 6, 11}
====
