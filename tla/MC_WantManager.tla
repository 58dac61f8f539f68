--------------------------- MODULE MC_WantManager ---------------------------
(* Model-checking instance of WantManager: model values come from the cfg. *)
EXTENDS WantManager, TLC

\* Keys and requests are interchangeable; peers are not split by symmetry
\* because liveness runs do not use it.
KeySymmetry == Permutations(Keys) \cup Permutations(Requests)

=============================================================================
