----------------------------- MODULE Blockstore -----------------------------
(***************************************************************************)
(* What the Blockstore interface (blocks/blockstore) promises its callers: *)
(* a set of stored keys in which every call takes effect at one instant.  *)
(* Has and Get report membership at that instant, Put and PutMany store,  *)
(* DeleteBlock removes and reports ErrNotFound for a missing key.  Any    *)
(* call may instead fail with a datastore error and change nothing.       *)
(* ret[c] is the last call caller c returned from: the method, its keys  *)
(* and the result.                                                        *)
(***************************************************************************)
CONSTANTS Keys, Callers

VARIABLES blocks, ret

Methods == {"has", "get", "put", "putmany", "delete"}
Results == [name : Methods \cup {"none"}, keys : SUBSET Keys,
            val : {"found", "notfound", "ok", "err"}]

\* The result of method m on keys ks.
R(m, ks, v) == [name |-> m, keys |-> ks, val |-> v]

\* Has / Get of key k: found or ErrNotFound.
Found(k) == IF k \in blocks THEN "found" ELSE "notfound"

Init == /\ blocks = {}
        /\ ret = [c \in Callers |-> R("none", {}, "ok")]

\* Has and Get report whether the key is stored.
Lookup(c, m, k) == /\ m \in {"has", "get"}
                   /\ ret' = [ret EXCEPT ![c] = R(m, {k}, Found(k))]
                   /\ UNCHANGED blocks

\* Put and PutMany store their keys.
Put(c, m, ks) == /\ m \in {"put", "putmany"}
                 /\ blocks' = blocks \cup ks
                 /\ ret' = [ret EXCEPT ![c] = R(m, ks, "ok")]

DeleteBlock(c, k) ==
  /\ blocks' = blocks \ {k}
  /\ ret' = [ret EXCEPT ![c] = R("delete", {k}, IF k \in blocks THEN "ok"
                                                              ELSE "notfound")]

Fail(c, m, ks) == /\ ret' = [ret EXCEPT ![c] = R(m, ks, "err")]
                  /\ UNCHANGED blocks

Next == \E c \in Callers, m \in Methods :
          \/ \E k \in Keys : Lookup(c, m, k) \/ DeleteBlock(c, k)
          \/ \E ks \in SUBSET Keys : Put(c, m, ks) \/ Fail(c, m, ks)

Spec == Init /\ [][Next]_<<blocks, ret>>

====
