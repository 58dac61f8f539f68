----------------------------- MODULE MC_RmBlocks -----------------------------
(* Model-checking instance of RmBlocks: two keys, removal of one key or *)
(* of both.                                                               *)
EXTENDS RmBlocks, TLC

CONSTANTS k1, k2

MCKeys == {k1, k2}
MCCids == {<<k1>>, <<k1, k2>>}
====
