------------------------------ MODULE Wantlist ------------------------------
(***************************************************************************)
(* The reference-counted wantlist of exchange/bitswap/wantlist/wantlist.go *)
(* as pure operators.  A wantlist is a function from keys to the RefCnt   *)
(* of the entry; 0 stands for "no entry in the map".  Priorities are left *)
(* out: no property of this project tells them apart.                    *)
(***************************************************************************)
EXTENDS Naturals

\* New(): the empty map.
New(Keys) == [k \in Keys |-> 0]

\* The keys that have an entry (Entries() / Contains(k)).
Entries(w) == {k \in DOMAIN w : w[k] > 0}

\* AddEntry(e) and Add(k, p) return true iff the key had no entry.
Inserts(w, k) == w[k] = 0

\* AddEntry(e) / Add(k, p): a new entry with RefCnt 1, or RefCnt++.
AddEntry(w, k) == [w EXCEPT ![k] = @ + 1]

\* Remove(k) returns true iff it physically deleted the entry.
Deletes(w, k) == w[k] = 1

\* Seeded fault: Remove that deletes a last reference but forgets
\* e.RefCnt-- on a shared one.
RemoveNoDecrement(w, k) == IF w[k] = 1 THEN [w EXCEPT ![k] = 0] ELSE w

\* Remove(k): no-op on a missing key; RefCnt--, delete when it reaches 0.
Remove(w, k) == IF w[k] > 0 THEN [w EXCEPT ![k] = @ - 1] ELSE w

=============================================================================
