----------------------------- MODULE MC_ArcCache -----------------------------
(* Model-checking instance of ArcCache: keys and callers are model values. *)
EXTENDS ArcCache, TLC

\* Keys are interchangeable; so are callers.
ArcSymmetry == Permutations(Keys) \cup Permutations(Callers)
====
