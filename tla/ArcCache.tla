------------------------------ MODULE ArcCache ------------------------------
(***************************************************************************)
(* The ARC-cached blockstore of blocks/blockstore/arc_cache.go.  The ARC   *)
(* maps a key to a boolean "is it stored"; every ARC call and every call  *)
(* of the backing blockstore is atomic (each holds its own lock), but an  *)
(* arccache method is a sequence of such calls with nothing held between  *)
(* them, so the steps of concurrent callers interleave.  The ARC may      *)
(* evict any entry at any time.  The backing store may fail any call with *)
(* a datastore error; failures are bounded by MaxFailures.               *)
(***************************************************************************)
EXTENDS Naturals, FiniteSets

CONSTANTS
  Keys,         \* block keys (never the empty key)
  Callers,      \* goroutines calling the arccache
  None,         \* a key with no ARC entry
  MaxFailures   \* bound on failed calls of the backing store

ASSUME MaxFailures \in Nat

VARIABLES
  store,     \* keys held by the backing blockstore
  cache,     \* b.arc: key -> TRUE / FALSE / None
  pc,        \* where each caller is inside an arccache method
  call,      \* the method each caller is in and its keys
  good,      \* PutMany's list of blocks to write
  res,       \* the answer a caller got from the backing store
  ret,       \* the last result each caller returned
  failures   \* failed backing-store calls so far

vars == <<store, cache, pc, call, good, res, ret, failures>>

Methods == {"none", "has", "get", "put", "putmany", "delete"}

PCs == {"idle", "has_store", "has_fill", "get_store", "get_fill",
        "put_store", "put_fill", "pm_store", "pm_fill",
        "del_remove", "del_store", "del_fill"}

\* Has / Get report a boolean as found / not found.
Found(b) == IF b THEN "found" ELSE "notfound"

\* A call of method m on keys ks, or its result v.
Call(m, ks) == [name |-> m, keys |-> ks]
R(m, ks, v) == [name |-> m, keys |-> ks, val |-> v]

\* The key of a Has / Get / Put / DeleteBlock call.
Key(c) == CHOOSE k \in call[c].keys : TRUE

Init == /\ store = {}
        /\ cache = [k \in Keys |-> None]
        /\ pc = [c \in Callers |-> "idle"]
        /\ call = [c \in Callers |-> Call("none", {})]
        /\ good = [c \in Callers |-> {}]
        /\ res = [c \in Callers |-> FALSE]
        /\ ret = [c \in Callers |-> R("none", {}, "ok")]
        /\ failures = 0

\* A backing-store call of c returns an error and the method returns it.
StoreFail(c) == /\ failures < MaxFailures
                /\ failures' = failures + 1
                /\ pc' = [pc EXCEPT ![c] = "idle"]
                /\ ret' = [ret EXCEPT ![c] = R(call[c].name, call[c].keys, "err")]
                /\ UNCHANGED <<store, cache, call, good, res>>

\* Move c to the next step of its method.
Goto(c, l) == pc' = [pc EXCEPT ![c] = l]

\* The method of call cl returns v from its last step.
Return(c, cl, v) == /\ pc' = [pc EXCEPT ![c] = "idle"]
                    /\ ret' = [ret EXCEPT ![c] = R(cl.name, cl.keys, v)]

\* Caller c enters method m on key k: call' is set, so Return may use it.
Enter(c, m, k) == /\ pc[c] = "idle"
                  /\ call' = [call EXCEPT ![c] = Call(m, {k})]

(* Has: a conclusive hasCached answers; otherwise ask the store and      *)
(* arc.Add its answer unless the store failed.                           *)
HasStart(c, k) ==
  /\ Enter(c, "has", k)
  /\ IF cache[k] # None THEN Return(c, call'[c], Found(cache[k]))
                        ELSE Goto(c, "has_store") /\ UNCHANGED ret
  /\ UNCHANGED <<store, cache, good, res, failures>>

\* Seeded fault: Has that ignores the store's error and caches "absent".
HasStoreNoErrCheck(c) ==
  /\ pc[c] = "has_store"
  /\ \/ res' = [res EXCEPT ![c] = Key(c) \in store]
     \/ res' = [res EXCEPT ![c] = FALSE]
  /\ Goto(c, "has_fill")
  /\ UNCHANGED <<store, cache, call, good, ret, failures>>

HasStore(c) ==
  /\ pc[c] = "has_store"
  /\ \/ /\ res' = [res EXCEPT ![c] = Key(c) \in store]
        /\ Goto(c, "has_fill")
        /\ UNCHANGED <<store, cache, call, good, ret, failures>>
     \/ StoreFail(c)

HasFill(c) ==
  /\ pc[c] = "has_fill"
  /\ cache' = [cache EXCEPT ![Key(c)] = res[c]]
  /\ Return(c, call[c], Found(res[c]))
  /\ UNCHANGED <<store, call, good, res, failures>>

(* Get: a cached "absent" answers ErrNotFound; otherwise read the store *)
(* and cache what it said: absent on ErrNotFound, present on a block,   *)
(* nothing on any other error.                                          *)
GetStart(c, k) ==
  /\ Enter(c, "get", k)
  /\ IF cache[k] = FALSE THEN Return(c, call'[c], "notfound")
                         ELSE Goto(c, "get_store") /\ UNCHANGED ret
  /\ UNCHANGED <<store, cache, good, res, failures>>

GetStore(c) ==
  /\ pc[c] = "get_store"
  /\ \/ /\ res' = [res EXCEPT ![c] = Key(c) \in store]
        /\ Goto(c, "get_fill")
        /\ UNCHANGED <<store, cache, call, good, ret, failures>>
     \/ StoreFail(c)

GetFill(c) ==
  /\ pc[c] = "get_fill"
  /\ cache' = [cache EXCEPT ![Key(c)] = res[c]]
  /\ Return(c, call[c], Found(res[c]))
  /\ UNCHANGED <<store, call, good, res, failures>>

(* Put: a cached "present" returns nil at once; otherwise write the      *)
(* block and, if that worked, arc.Add(k, true).                          *)
\* Seeded fault: Put that trusts any conclusive hasCached answer.
PutStartAnyHit(c, k) ==
  /\ Enter(c, "put", k)
  /\ IF cache[k] # None THEN Return(c, call'[c], "ok")
                        ELSE Goto(c, "put_store") /\ UNCHANGED ret
  /\ UNCHANGED <<store, cache, good, res, failures>>

PutStart(c, k) ==
  /\ Enter(c, "put", k)
  /\ IF cache[k] = TRUE THEN Return(c, call'[c], "ok")
                        ELSE Goto(c, "put_store") /\ UNCHANGED ret
  /\ UNCHANGED <<store, cache, good, res, failures>>

\* Seeded fault: Put that goes on to arc.Add(k, true) after a failed write.
PutStoreNoErrCheck(c) ==
  /\ pc[c] = "put_store"
  /\ \/ store' = store \cup {Key(c)}
     \/ UNCHANGED store
  /\ Goto(c, "put_fill")
  /\ UNCHANGED <<cache, call, good, res, ret, failures>>

PutStore(c) ==
  /\ pc[c] = "put_store"
  /\ \/ /\ store' = store \cup {Key(c)}
        /\ Goto(c, "put_fill")
        /\ UNCHANGED <<cache, call, good, res, ret, failures>>
     \/ StoreFail(c)

PutFill(c) ==
  /\ pc[c] = "put_fill"
  /\ cache' = [cache EXCEPT ![Key(c)] = TRUE]
  /\ Return(c, call[c], "ok")
  /\ UNCHANGED <<store, call, good, res, failures>>

(* PutMany: keep the blocks hasCached does not know to be present, write *)
(* them in one batch, then arc.Add(k, true) for each.                    *)
PutManyStart(c, ks) ==
  /\ pc[c] = "idle"
  /\ call' = [call EXCEPT ![c] = Call("putmany", ks)]
  /\ good' = [good EXCEPT ![c] = {k \in ks : cache[k] # TRUE}]
  /\ Goto(c, "pm_store")
  /\ UNCHANGED <<store, cache, res, ret, failures>>

PutManyStore(c) ==
  /\ pc[c] = "pm_store"
  /\ \/ /\ store' = store \cup good[c]
        /\ Goto(c, "pm_fill")
        /\ UNCHANGED <<cache, call, good, res, ret, failures>>
     \/ StoreFail(c)

PutManyFill(c) ==
  /\ pc[c] = "pm_fill"
  /\ cache' = [k \in Keys |-> IF k \in good[c] THEN TRUE ELSE cache[k]]
  /\ Return(c, call[c], "ok")
  /\ UNCHANGED <<store, call, good, res, failures>>

(* DeleteBlock: a cached "absent" answers ErrNotFound; otherwise         *)
(* invalidate the entry, delete from the store, and cache "absent"       *)
(* when the delete worked or found nothing.                              *)
DeleteStart(c, k) ==
  /\ Enter(c, "delete", k)
  /\ IF cache[k] = FALSE THEN Return(c, call'[c], "notfound")
                         ELSE Goto(c, "del_remove") /\ UNCHANGED ret
  /\ UNCHANGED <<store, cache, good, res, failures>>

DeleteRemove(c) ==
  /\ pc[c] = "del_remove"
  /\ cache' = [cache EXCEPT ![Key(c)] = None]
  /\ Goto(c, "del_store")
  /\ UNCHANGED <<store, call, good, res, ret, failures>>

DeleteStore(c) ==
  /\ pc[c] = "del_store"
  /\ \/ /\ res' = [res EXCEPT ![c] = Key(c) \in store]
        /\ store' = store \ {Key(c)}
        /\ Goto(c, "del_fill")
        /\ UNCHANGED <<cache, call, good, ret, failures>>
     \/ StoreFail(c)

DeleteFill(c) ==
  /\ pc[c] = "del_fill"
  /\ cache' = [cache EXCEPT ![Key(c)] = FALSE]
  /\ Return(c, call[c], IF res[c] THEN "ok" ELSE "notfound")
  /\ UNCHANGED <<store, call, good, res, failures>>

\* The ARC evicts an entry to make room.
Evict(k) == /\ cache[k] # None
            /\ cache' = [cache EXCEPT ![k] = None]
            /\ UNCHANGED <<store, pc, call, good, res, ret, failures>>

Next ==
  \/ \E k \in Keys : Evict(k)
  \/ \E c \in Callers :
       \/ \E k \in Keys : HasStart(c, k) \/ GetStart(c, k)
                          \/ PutStart(c, k) \/ DeleteStart(c, k)
       \/ \E ks \in SUBSET Keys \ {{}} : PutManyStart(c, ks)
       \/ HasStore(c) \/ HasFill(c) \/ GetStore(c) \/ GetFill(c)
       \/ PutStore(c) \/ PutFill(c) \/ PutManyStore(c) \/ PutManyFill(c)
       \/ DeleteRemove(c) \/ DeleteStore(c) \/ DeleteFill(c)

Spec == Init /\ [][Next]_vars

-----------------------------------------------------------------------------
\* The keys a caller is in the middle of an arccache method on.
Touches(c) == CASE pc[c] = "idle"                -> {}
                [] pc[c] \in {"pm_store", "pm_fill"} -> good[c]
                [] OTHER                         -> {Key(c)}

\* No arccache method on k is in progress.
Settled(k) == \A c \in Callers : k \notin Touches(c)

(* Whenever no method on k is running, an ARC entry "absent" for k is    *)
(* true of the store: Has, Get, DeleteBlock and Put all trust it         *)
(* (hasCached in arc_cache.go).                                          *)
CachedAbsentIsAbsent ==
  \A k \in Keys : Settled(k) /\ cache[k] = FALSE => k \notin store

(* Whenever no method on k is running, an ARC entry "present" for k is   *)
(* true of the store: Has answers from it and Put skips the write.       *)
CachedPresentIsPresent ==
  \A k \in Keys : Settled(k) /\ cache[k] = TRUE => k \in store

(* Refinement: the arccache is a Blockstore.  Each method takes effect  *)
(* at one step (the hasCached answer or the backing-store call) and      *)
(* returns what the abstract blockstore would return at that step.       *)
AbsVal(c) == CASE pc[c] \in {"has_fill", "get_fill"} -> Found(res[c])
               [] pc[c] \in {"put_fill", "pm_fill"}  -> "ok"
               [] pc[c] = "del_fill" -> IF res[c] THEN "ok" ELSE "notfound"

AbsRet(c) == IF pc[c] \in {"has_fill", "get_fill", "put_fill", "pm_fill", "del_fill"}
             THEN R(call[c].name, call[c].keys, AbsVal(c))
             ELSE ret[c]

Abstract == INSTANCE Blockstore WITH blocks <- store,
                                     ret <- [c \in Callers |-> AbsRet(c)]

ImplementsBlockstore == Abstract!Spec

====
