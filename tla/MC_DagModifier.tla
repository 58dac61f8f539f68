--------------------------- MODULE MC_DagModifier ---------------------------
(* Model-checking instance of DagModifier: a two-byte file, one-byte     *)
(* writes of two distinct values, small offsets and 3-bit integers.      *)
EXTENDS DagModifier, TLC

MCInitContents == {<<1, 2>>}
MCWrites == {<<1>>, <<2>>}
MCOffsets == {0, 2}
MCLens == {0, 1}
\* An offset past the end of a buffered write that already runs past the DAG.
MCFarOffsets == {0, 4}
====
