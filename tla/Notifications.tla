---------------------------- MODULE Notifications ----------------------------
(***************************************************************************)
(* The notification bus of exchange/bitswap/notifications/notifications.go *)
(* that wakes the readers of arrived blocks.  Subscribe registers a        *)
(* channel valuesCh, buffered len(keys), with the pubsub bus once for each *)
(* key, and starts a goroutine that forwards what arrives on valuesCh to   *)
(* blocksCh, also buffered len(keys), until valuesCh is closed or the      *)
(* subscriber's ctx is done; it then unsubscribes and closes blocksCh.     *)
(*                                                                         *)
(* The pubsub library is not in the repository; the bus follows the spec   *)
(* (section 4.2): Publish delivers to every subscription of the key, the   *)
(* subscription of that key ends with the delivery, a subscriber whose     *)
(* buffer is full is dropped, and a channel with no key left is closed.    *)
(* A block is abstracted to its key.                                       *)
(***************************************************************************)
EXTENDS Naturals, Sequences, SequencesExt

CONSTANTS
  Keys,      \* block keys
  Subs,      \* Subscribe calls, each by its own caller
  KeyLists   \* the key lists a caller may subscribe to

ASSUME KeyLists \subseteq Seq(Keys)

VARIABLES
  shut,       \* Shutdown was called
  size,       \* len(keys): the buffer of valuesCh and of blocksCh
  reg,        \* the keys the bus still holds valuesCh under
  vals,       \* values buffered in valuesCh
  valsOpen,   \* valuesCh is not closed
  g,          \* the goroutine: "idle" (no Subscribe yet), "loop", "send", "done"
  held,       \* the block the goroutine is sending on blocksCh
  out,        \* blocks buffered in blocksCh
  ctx,        \* the subscriber's ctx is done
  delivered,  \* every block put on blocksCh, in order
  once,       \* valuesCh was registered with AddSubOnceEach, not AddSub
  dropped     \* subscribers the bus dropped for a full buffer

vars == <<shut, size, reg, vals, valsOpen, g, held, out, ctx, delivered, once, dropped>>

Init == /\ shut = FALSE
        /\ size = [s \in Subs |-> 0]
        /\ reg = [s \in Subs |-> {}]
        /\ vals = [s \in Subs |-> <<>>]
        /\ valsOpen = [s \in Subs |-> FALSE]
        /\ g = [s \in Subs |-> "idle"]
        /\ held = [s \in Subs |-> CHOOSE k \in Keys : TRUE]
        /\ out = [s \in Subs |-> <<>>]
        /\ ctx = [s \in Subs |-> FALSE]
        /\ delivered = [s \in Subs |-> <<>>]
        /\ once = [s \in Subs |-> TRUE]
        /\ dropped = {}

(* Subscribe(ctx, ks...): no keys gives an already closed blocksCh;     *)
(* otherwise AddSubOnceEach registers valuesCh under every key (a bus   *)
(* that is shut down closes it at once) and the goroutine starts.        *)
\* Seeded fault: no early return for an empty key list.
SubscribeNoEarlyClose(s, ks) ==
  /\ g[s] = "idle"
  /\ size' = [size EXCEPT ![s] = Len(ks)]
  /\ reg' = [reg EXCEPT ![s] = IF shut THEN {} ELSE ToSet(ks)]
  /\ valsOpen' = [valsOpen EXCEPT ![s] = ~shut \/ ks = <<>>]
  /\ g' = [g EXCEPT ![s] = "loop"]
  /\ UNCHANGED <<shut, vals, held, out, ctx, delivered, once, dropped>>

\* Seeded fault: valuesCh registered with AddSub instead of AddSubOnceEach.
SubscribeAddSub(s, ks) ==
  /\ g[s] = "idle"
  /\ size' = [size EXCEPT ![s] = Len(ks)]
  /\ once' = [once EXCEPT ![s] = FALSE]
  /\ IF ks = <<>>
     THEN g' = [g EXCEPT ![s] = "done"] /\ UNCHANGED <<reg, valsOpen>>
     ELSE /\ reg' = [reg EXCEPT ![s] = IF shut THEN {} ELSE ToSet(ks)]
          /\ valsOpen' = [valsOpen EXCEPT ![s] = ~shut]
          /\ g' = [g EXCEPT ![s] = "loop"]
  /\ UNCHANGED <<shut, vals, held, out, ctx, delivered, dropped>>

Subscribe(s, ks) ==
  /\ g[s] = "idle"
  /\ size' = [size EXCEPT ![s] = Len(ks)]
  /\ IF ks = <<>>
     THEN g' = [g EXCEPT ![s] = "done"] /\ UNCHANGED <<reg, valsOpen>>
     ELSE /\ reg' = [reg EXCEPT ![s] = IF shut THEN {} ELSE ToSet(ks)]
          /\ valsOpen' = [valsOpen EXCEPT ![s] = ~shut]
          /\ g' = [g EXCEPT ![s] = "loop"]
  /\ UNCHANGED <<shut, vals, held, out, ctx, delivered, once, dropped>>

(* Publish(block): Pub on the block's key.  Each channel held under k    *)
(* gets the block if its buffer has room, and is dropped otherwise; a    *)
(* channel added with AddSubOnceEach is released from k, and closed when *)
(* it is held under no key.                                               *)
Full(s) == Len(vals[s]) >= size[s]

Publish(k) ==
  LET to == {s \in Subs : k \in reg[s]}
  IN  /\ vals' = [s \in Subs |-> IF s \in to /\ ~Full(s) THEN Append(vals[s], k) ELSE vals[s]]
      /\ reg' = [s \in Subs |-> IF s \notin to THEN reg[s]
                                ELSE IF Full(s) THEN {}
                                ELSE IF once[s] THEN reg[s] \ {k} ELSE reg[s]]
      /\ valsOpen' = [s \in Subs |-> IF s \in to THEN reg'[s] # {} ELSE valsOpen[s]]
      /\ dropped' = dropped \cup {s \in to : Full(s)}
      /\ UNCHANGED <<shut, size, g, held, out, ctx, delivered, once>>

\* Shutdown: the bus releases and closes every channel it holds.
Shutdown ==
  /\ ~shut
  /\ shut' = TRUE
  /\ reg' = [s \in Subs |-> {}]
  /\ valsOpen' = [s \in Subs |-> FALSE]
  /\ UNCHANGED <<size, vals, g, held, out, ctx, delivered, once, dropped>>

\* The subscriber's ctx times out or is cancelled.
Cancel(s) ==
  /\ ~ctx[s]
  /\ ctx' = [ctx EXCEPT ![s] = TRUE]
  /\ UNCHANGED <<shut, size, reg, vals, valsOpen, g, held, out, delivered, once, dropped>>

(* The goroutine's outer select receives a block from valuesCh (a       *)
(* closed channel, or a value that is not a block, makes it return).     *)
\* Seeded fault: the ok checks dropped, so a closed valuesCh yields nil.
ReceiveNoOkCheck(s) ==
  /\ g[s] = "loop"
  /\ \/ /\ vals[s] # <<>>
        /\ held' = [held EXCEPT ![s] = Head(vals[s])]
        /\ vals' = [vals EXCEPT ![s] = Tail(@)]
     \/ /\ vals[s] = <<>> /\ ~valsOpen[s]
        /\ held' = [held EXCEPT ![s] = "nil"]
        /\ UNCHANGED vals
  /\ g' = [g EXCEPT ![s] = "send"]
  /\ UNCHANGED <<shut, size, reg, valsOpen, out, ctx, delivered, once, dropped>>

Receive(s) ==
  /\ g[s] = "loop" /\ vals[s] # <<>>
  /\ held' = [held EXCEPT ![s] = Head(vals[s])]
  /\ vals' = [vals EXCEPT ![s] = Tail(@)]
  /\ g' = [g EXCEPT ![s] = "send"]
  /\ UNCHANGED <<shut, size, reg, valsOpen, out, ctx, delivered, once, dropped>>

\* The inner select sends the block on blocksCh.
Send(s) ==
  /\ g[s] = "send" /\ Len(out[s]) < size[s]
  /\ out' = [out EXCEPT ![s] = Append(@, held[s])]
  /\ delivered' = [delivered EXCEPT ![s] = Append(@, held[s])]
  /\ g' = [g EXCEPT ![s] = "loop"]
  /\ UNCHANGED <<shut, size, reg, vals, valsOpen, held, ctx, once, dropped>>

(* The goroutine returns, from either select on ctx.Done() or from the   *)
(* outer one on a closed and drained valuesCh; the deferred Unsub        *)
(* releases valuesCh, then blocksCh is closed.                           *)
Return(s) ==
  /\ \/ g[s] \in {"loop", "send"} /\ ctx[s]
     \/ g[s] = "loop" /\ vals[s] = <<>> /\ ~valsOpen[s]
  /\ reg' = [reg EXCEPT ![s] = {}]
  /\ valsOpen' = [valsOpen EXCEPT ![s] = FALSE]
  /\ g' = [g EXCEPT ![s] = "done"]
  /\ UNCHANGED <<shut, size, vals, held, out, ctx, delivered, once, dropped>>

\* The caller reads a block from blocksCh.
Read(s) ==
  /\ out[s] # <<>>
  /\ out' = [out EXCEPT ![s] = Tail(@)]
  /\ UNCHANGED <<shut, size, reg, vals, valsOpen, g, held, ctx, delivered, once, dropped>>

Next == \/ \E s \in Subs, ks \in KeyLists : Subscribe(s, ks)
        \/ \E k \in Keys : Publish(k)
        \/ Shutdown
        \/ \E s \in Subs : Cancel(s) \/ Receive(s) \/ Send(s) \/ Return(s) \/ Read(s)

(* The goroutines are always scheduled; callers, publishers, ctx and     *)
(* Shutdown are the environment.                                         *)
Fairness == \A s \in Subs : WF_vars(Receive(s)) /\ WF_vars(Send(s)) /\ WF_vars(Return(s))

Spec == Init /\ [][Next]_vars /\ Fairness

-----------------------------------------------------------------------------
\* The type invariant.
TypeOK ==
  /\ shut \in BOOLEAN /\ dropped \subseteq Subs
  /\ \A s \in Subs :
       /\ g[s] \in {"idle", "loop", "send", "done"}
       /\ reg[s] \subseteq Keys /\ valsOpen[s] \in BOOLEAN /\ ctx[s] \in BOOLEAN
       /\ vals[s] \in Seq(Keys) /\ out[s] \in Seq(Keys) /\ held[s] \in Keys
       /\ delivered[s] \in Seq(Keys)
       \* blocksCh carries at most len(keys) blocks (the comment on Subscribe).
       /\ Len(delivered[s]) <= size[s]

(* Sizing both channels len(keys) is enough: the bus never finds a       *)
(* subscriber's valuesCh full and drops it, and the goroutine never      *)
(* waits on a full blocksCh, even when the caller reads nothing and      *)
(* every key is published before the goroutine runs.                     *)
NoBufferFull ==
  /\ dropped = {}
  /\ \A s \in Subs : g[s] = "send" => Len(out[s]) < size[s]

(* blocksCh is closed once every key of the subscription was published,  *)
(* the bus was shut down, or the ctx is done (the comment on Subscribe);  *)
(* a subscription of no keys is closed at once.                          *)
StreamEventuallyCloses ==
  \A s \in Subs : (g[s] # "idle" /\ (reg[s] = {} \/ ctx[s])) ~> g[s] = "done"

====
