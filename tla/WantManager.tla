---------------------------- MODULE WantManager ----------------------------
(***************************************************************************)
(* The bitswap want manager (exchange/bitswap/wantmanager.go): the Run     *)
(* loop that owns the local wantlist and the map of per-peer msgQueues,    *)
(* the runQueue worker of every msgQueue, the stream from us to each peer  *)
(* and, at the far end of it, that peer's ledger wantList of us            *)
(* (exchange/bitswap/decision/ledger.go).  Local callers of WantBlocks /   *)
(* CancelWants are the GetBlocks requests of the exchange.                 *)
(***************************************************************************)
EXTENDS Naturals, Sequences, FiniteSets, Wantlist

CONSTANTS
  Keys,         \* content keys
  Peers,        \* remote peers
  Requests,     \* local GetBlocks calls, each used once
  IncomingCap,  \* capacity of pm.incoming (10 in NewWantManager)
  MaxConnects,  \* bound on connections the network reports
  MaxFailures,  \* bound on failed ConnectTo / NewMessageSender / SendMsg
  Reorder,      \* TRUE: messages to a peer may overtake each other
  StreamCap,    \* messages a stream holds before SendMsg blocks
  UnwantKeys    \* key lists "ipfs bitswap unwant" is called with

ASSUME IncomingCap \in Nat \ {0}
ASSUME MaxConnects \in Nat /\ MaxConnects <= 10  \* pm.connect never fills
ASSUME MaxFailures \in Nat
ASSUME Reorder \in BOOLEAN
ASSUME StreamCap \in Nat \ {0}
ASSUME UnwantKeys \subseteq SUBSET Keys

VARIABLES
  wl,        \* pm.wl, the local wantlist
  incoming,  \* pm.incoming: batches of entries from WantBlocks/CancelWants
  phase,     \* phase of each request
  rkeys,     \* keys of each request
  conns,     \* connections to each peer the network holds
  connects,  \* connections opened so far
  pendConn,  \* Connected(p) notifications queued on pm.connect
  pendDisc,  \* Disconnected(p) notifications queued on pm.disconnect
  refcnt,    \* msgQueue.refcnt of pm.peers[p]; 0: p has no queue
  out,       \* msgQueue.out, the coalesced pending message
  work,      \* msgQueue.work, a one-slot signal
  sender,    \* msgQueue.sender /= nil
  zombies,   \* messages held by workers of queues already removed
  net,       \* messages written to the stream to p, not yet handled by p
  view,      \* p's ledger wantList of us
  failures   \* failed network calls so far

vars == <<wl, incoming, phase, rkeys, conns, connects, pendConn, pendDisc,
          refcnt, out, work, sender, zombies, net, view, failures>>

(***************************************************************************)
(* A BitSwapMessage carrying wantlist entries only: the full flag, the    *)
(* keys with a want entry and the keys with a cancel entry (bsmsg keeps   *)
(* one entry per key).  NoMsg stands for both a nil msgQueue.out and an   *)
(* empty non-full message: every path of the code treats them alike.      *)
(***************************************************************************)
Msg == [full : BOOLEAN, want : SUBSET Keys, cancel : SUBSET Keys]
NoMsg == [full |-> FALSE, want |-> {}, cancel |-> {}]
\* bsmsg Empty(): no wantlist entries and no blocks.
IsEmpty(m) == m.want = {} /\ m.cancel = {}
Batch == [keys : SUBSET Keys, cancel : BOOLEAN]
Phases == {"idle", "live", "abandoned", "done"}

\* bsmsg.New(true) filled with AddEntry for every entry of pm.wl.
FullWantlist == [full |-> TRUE, want |-> Entries(wl), cancel |-> {}]

\* msgQueue.addMessage: cancel entries call out.Cancel(k), the others
\* out.AddEntry(k, p); each replaces any entry the key had.
AddMessage(m, ks, cancel) ==
  IF cancel THEN [m EXCEPT !.want = @ \ ks, !.cancel = @ \cup ks]
            ELSE [m EXCEPT !.want = @ \cup ks, !.cancel = @ \ ks]

\* Seeded fault: forward every entry of a batch, not only the filtered.
FilteredNone(w, b) == b.keys

\* The keys of a batch whose entry changed pm.wl physically ("filtered").
Filtered(w, b) ==
  IF b.cancel THEN {k \in b.keys : Deletes(w, k)}
              ELSE {k \in b.keys : Inserts(w, k)}

\* pm.wl after the Run loop applied every entry of a batch.
ApplyBatch(w, b) ==
  [k \in DOMAIN w |-> IF k \notin b.keys THEN w[k]
                      ELSE IF b.cancel THEN Remove(w, k)[k]
                      ELSE AddEntry(w, k)[k]]

\* The receiving peer: a full message replaces its ledger wantList with a
\* new one; every want entry calls ledger.Wants (wantList.Add), every
\* cancel entry ledger.CancelWant (wantList.Remove).
ReceiveWants(v, m) ==
  LET base == IF m.full THEN New(Keys) ELSE v
  IN [k \in Keys |-> IF k \in m.want THEN AddEntry(base, k)[k]
                     ELSE IF k \in m.cancel THEN Remove(base, k)[k]
                     ELSE base[k]]

Queued(p) == refcnt[p] > 0

Init ==
  /\ wl = New(Keys)
  /\ incoming = << >>
  /\ phase = [r \in Requests |-> "idle"]
  /\ rkeys = [r \in Requests |-> {}]
  /\ conns = [p \in Peers |-> 0]
  /\ connects = 0
  /\ pendConn = [p \in Peers |-> 0]
  /\ pendDisc = [p \in Peers |-> 0]
  /\ refcnt = [p \in Peers |-> 0]
  /\ out = [p \in Peers |-> NoMsg]
  /\ work = [p \in Peers |-> FALSE]
  /\ sender = [p \in Peers |-> FALSE]
  /\ zombies = [p \in Peers |-> << >>]
  /\ net = [p \in Peers |-> << >>]
  /\ view = [p \in Peers |-> New(Keys)]
  /\ failures = 0

QueueVars == <<refcnt, out, work, sender, zombies>>
NetVars == <<conns, connects, pendConn, pendDisc>>
ReqVars == <<phase, rkeys>>

(***************************************************************************)
(* Local callers.                                                          *)
(***************************************************************************)

\* WantBlocks -> addEntries: the batch is sent on pm.incoming.
WantBlocks(r, ks) ==
  /\ phase[r] = "idle"
  /\ Len(incoming) < IncomingCap
  /\ incoming' = Append(incoming, [keys |-> ks, cancel |-> FALSE])
  /\ phase' = [phase EXCEPT ![r] = "live"]
  /\ rkeys' = [rkeys EXCEPT ![r] = ks]
  /\ UNCHANGED <<wl, NetVars, QueueVars, net, view, failures>>

\* addEntries returns through case <-ctx.Done(): the request's context
\* was cancelled, and the select may take that case even when
\* pm.incoming has room.  The wants are never sent.
WantBlocksCtxDone(r, ks) ==
  /\ phase[r] = "idle"
  /\ phase' = [phase EXCEPT ![r] = "abandoned"]
  /\ rkeys' = [rkeys EXCEPT ![r] = ks]
  /\ UNCHANGED <<wl, incoming, NetVars, QueueVars, net, view, failures>>

\* The request ends: CancelWants of its keys, with context.TODO(), so
\* the send waits for room on pm.incoming.
CancelWants(r) ==
  /\ phase[r] \in {"live", "abandoned"}
  /\ Len(incoming) < IncomingCap
  /\ incoming' = Append(incoming, [keys |-> rkeys[r], cancel |-> TRUE])
  /\ phase' = [phase EXCEPT ![r] = "done"]
  /\ UNCHANGED <<wl, rkeys, NetVars, QueueVars, net, view, failures>>

(* "ipfs bitswap unwant ks" (core/commands/bitswap.go): in online mode   *)
(* the command calls CancelWants(ks) for keys no request of its own      *)
(* holds, which drops one reference of each.                              *)
Unwant(ks) ==
  /\ Len(incoming) < IncomingCap
  /\ incoming' = Append(incoming, [keys |-> ks, cancel |-> TRUE])
  /\ UNCHANGED <<wl, ReqVars, NetVars, QueueVars, net, view, failures>>

(***************************************************************************)
(* The network reports connections (Connected / Disconnected).            *)
(***************************************************************************)

NetConnect(p) ==
  /\ connects < MaxConnects
  /\ connects' = connects + 1
  /\ conns' = [conns EXCEPT ![p] = @ + 1]
  /\ pendConn' = [pendConn EXCEPT ![p] = @ + 1]
  /\ UNCHANGED <<wl, incoming, ReqVars, pendDisc, QueueVars, net, view,
                 failures>>

NetDisconnect(p) ==
  /\ conns[p] > 0
  /\ conns' = [conns EXCEPT ![p] = @ - 1]
  /\ pendDisc' = [pendDisc EXCEPT ![p] = @ + 1]
  /\ UNCHANGED <<wl, incoming, ReqVars, connects, pendConn, QueueVars, net,
                 view, failures>>

(***************************************************************************)
(* The Run loop: one select case per step.                                 *)
(***************************************************************************)

\* case entries := <-pm.incoming: apply to pm.wl, then addMessage of the
\* filtered entries to every queue.
HandleIncoming ==
  /\ incoming /= << >>
  /\ LET b == Head(incoming)
         ks == Filtered(wl, b)
     IN /\ wl' = ApplyBatch(wl, b)
        /\ out' = [p \in Peers |-> IF Queued(p) THEN AddMessage(out[p], ks, b.cancel)
                                   ELSE out[p]]
        /\ work' = [p \in Peers |-> work[p] \/ Queued(p)]
  /\ incoming' = Tail(incoming)
  /\ UNCHANGED <<ReqVars, NetVars, refcnt, sender, zombies, net, view, failures>>

\* Seeded fault: the rebroadcast replaces out but fires no work signal.
RebroadcastNoSignal ==
  /\ out' = [p \in Peers |-> IF Queued(p) THEN FullWantlist ELSE out[p]]
  /\ UNCHANGED <<wl, incoming, ReqVars, NetVars, refcnt, work, sender, zombies,
                 net, view, failures>>

\* case <-tock.C: every queue's out is replaced by a full wantlist.
Rebroadcast ==
  /\ out' = [p \in Peers |-> IF Queued(p) THEN FullWantlist ELSE out[p]]
  /\ work' = [p \in Peers |-> work[p] \/ Queued(p)]
  /\ UNCHANGED <<wl, incoming, ReqVars, NetVars, refcnt, sender, zombies, net,
                 view, failures>>

\* case p := <-pm.connect: startPeerHandler.
StartPeerHandler(p) ==
  /\ pendConn[p] > 0
  /\ pendConn' = [pendConn EXCEPT ![p] = @ - 1]
  /\ IF Queued(p)
       THEN /\ refcnt' = [refcnt EXCEPT ![p] = @ + 1]
            /\ UNCHANGED <<out, work, sender>>
       ELSE /\ refcnt' = [refcnt EXCEPT ![p] = 1]
            /\ out' = [out EXCEPT ![p] = FullWantlist]
            /\ work' = [work EXCEPT ![p] = TRUE]
            /\ sender' = [sender EXCEPT ![p] = FALSE]
  /\ UNCHANGED <<wl, incoming, ReqVars, conns, connects, pendDisc, zombies,
                 net, view, failures>>

\* case p := <-pm.disconnect: stopPeerHandler.  On the last reference the
\* queue leaves pm.peers and done is closed; a worker that still has a
\* work signal may yet pick it in its select and send what it holds.
StopPeerHandler(p) ==
  /\ pendDisc[p] > 0
  /\ pendDisc' = [pendDisc EXCEPT ![p] = @ - 1]
  /\ CASE ~Queued(p) ->
            UNCHANGED QueueVars
       [] refcnt[p] > 1 ->
            /\ refcnt' = [refcnt EXCEPT ![p] = @ - 1]
            /\ UNCHANGED <<out, work, sender, zombies>>
       [] OTHER ->
            /\ refcnt' = [refcnt EXCEPT ![p] = 0]
            /\ out' = [out EXCEPT ![p] = NoMsg]
            /\ work' = [work EXCEPT ![p] = FALSE]
            /\ sender' = [sender EXCEPT ![p] = FALSE]
            /\ zombies' = [zombies EXCEPT ![p] =
                             IF work[p] /\ ~IsEmpty(out[p])
                               THEN Append(@, out[p]) ELSE @]
  /\ UNCHANGED <<wl, incoming, ReqVars, conns, connects, pendConn, net, view,
                 failures>>

(***************************************************************************)
(* The worker of a queue: runQueue picks the work signal, doWork runs.     *)
(***************************************************************************)

Fail == /\ failures < MaxFailures
        /\ failures' = failures + 1

\* ConnectTo or NewMessageSender fails: doWork returns, out is kept.
DoWorkConnectFail(p) ==
  /\ Queued(p) /\ work[p] /\ ~sender[p]
  /\ Fail
  /\ work' = [work EXCEPT ![p] = FALSE]
  /\ UNCHANGED <<wl, incoming, ReqVars, NetVars, refcnt, out, sender, zombies,
                 net, view>>

\* Connected (or already so); out is nil or empty: nothing is sent.
DoWorkNothing(p) ==
  /\ Queued(p) /\ work[p]
  /\ IsEmpty(out[p])
  /\ work' = [work EXCEPT ![p] = FALSE]
  /\ sender' = [sender EXCEPT ![p] = TRUE]
  /\ UNCHANGED <<wl, incoming, ReqVars, NetVars, refcnt, out, zombies, net,
                 view, failures>>

\* out is taken and SendMsg writes it to the stream.  SendMsg is
\* synchronous: it waits while the stream is full.
DoWorkSend(p) ==
  /\ Queued(p) /\ work[p]
  /\ ~IsEmpty(out[p])
  /\ Len(net[p]) < StreamCap
  /\ work' = [work EXCEPT ![p] = FALSE]
  /\ sender' = [sender EXCEPT ![p] = TRUE]
  /\ out' = [out EXCEPT ![p] = NoMsg]
  /\ net' = [net EXCEPT ![p] = Append(@, out[p])]
  /\ UNCHANGED <<wl, incoming, ReqVars, NetVars, refcnt, zombies, view,
                 failures>>

\* out is taken and SendMsg fails: the stream is closed and set to nil,
\* the taken message is dropped.
DoWorkSendFail(p) ==
  /\ Queued(p) /\ work[p]
  /\ ~IsEmpty(out[p])
  /\ Fail
  /\ work' = [work EXCEPT ![p] = FALSE]
  /\ sender' = [sender EXCEPT ![p] = FALSE]
  /\ out' = [out EXCEPT ![p] = NoMsg]
  /\ UNCHANGED <<wl, incoming, ReqVars, NetVars, refcnt, zombies, net, view>>

DoWork(p) ==
  \/ DoWorkConnectFail(p)
  \/ DoWorkNothing(p)
  \/ DoWorkSend(p)
  \/ DoWorkSendFail(p)

\* A removed queue's worker: its select takes the work signal and sends,
\* or takes done (or fails to send) and the message is lost.
ZombieWork(p) ==
  /\ zombies[p] /= << >>
  /\ \E i \in 1..Len(zombies[p]) :
       /\ zombies' = [zombies EXCEPT ![p] =
                        SubSeq(@, 1, i - 1) \o SubSeq(@, i + 1, Len(@))]
       /\ \/ /\ Len(net[p]) < StreamCap
             /\ net' = [net EXCEPT ![p] = Append(@, zombies[p][i])]
          \/ UNCHANGED net
  /\ UNCHANGED <<wl, incoming, ReqVars, NetVars, refcnt, out, work, sender,
                 view, failures>>

(***************************************************************************)
(* The receiving peer handles the next message of the stream; with        *)
(* Reorder any message in flight may be handled first.                     *)
(***************************************************************************)
Receive(p) ==
  /\ net[p] /= << >>
  /\ \E i \in IF Reorder THEN 1..Len(net[p]) ELSE {1} :
       /\ view' = [view EXCEPT ![p] = ReceiveWants(@, net[p][i])]
       /\ net' = [net EXCEPT ![p] = SubSeq(@, 1, i - 1) \o SubSeq(@, i + 1, Len(@))]
  /\ UNCHANGED <<wl, incoming, ReqVars, NetVars, QueueVars, failures>>

Next ==
  \/ \E r \in Requests, ks \in SUBSET Keys \ {{}} :
        WantBlocks(r, ks) \/ WantBlocksCtxDone(r, ks)
  \/ \E r \in Requests : CancelWants(r)
  \/ \E ks \in UnwantKeys : Unwant(ks)
  \/ \E p \in Peers : NetConnect(p) \/ NetDisconnect(p)
  \/ HandleIncoming
  \/ Rebroadcast
  \/ \E p \in Peers : StartPeerHandler(p) \/ StopPeerHandler(p)
  \/ \E p \in Peers : DoWork(p) \/ ZombieWork(p) \/ Receive(p)

(***************************************************************************)
(* The Run loop serves every ready channel and the ticker fires every     *)
(* rebroadcastDelay; each worker and the receiving peer keep running.     *)
(* Local callers and the network get no fairness.                          *)
(***************************************************************************)
Fairness ==
  /\ WF_vars(HandleIncoming)
  /\ WF_vars(Rebroadcast)
  /\ \A p \in Peers :
       /\ WF_vars(StartPeerHandler(p))
       /\ WF_vars(StopPeerHandler(p))
       /\ WF_vars(DoWork(p))
       /\ WF_vars(ZombieWork(p))
       /\ WF_vars(Receive(p))

Spec == Init /\ [][Next]_vars /\ Fairness

(***************************************************************************)
(* Properties                                                              *)
(***************************************************************************)

\* Requests whose WantBlocks reached pm.incoming and that have not ended.
LiveWants(k) == Cardinality({r \in Requests : phase[r] = "live" /\ k \in rkeys[r]})

\* Once the Run loop has drained pm.incoming, the local wantlist holds no
\* key beyond the live requests for it: the refcount kept by
\* Wantlist.AddEntry/Remove never leaves a want nobody waits for.
NoStaleLocalWant ==
  incoming = << >> => \A k \in Keys : wl[k] <= LiveWants(k)

\* Spec section 3, invariant 2: once pm.incoming is drained, the wantlist
\* is exactly the live requests, counted by refcount.  A request whose
\* addEntries gave up on ctx.Done() still sends its CancelWants.
LiveRequestsWanted ==
  incoming = << >> => \A k \in Keys : wl[k] = LiveWants(k)

\* A full message pending in a queue (seeded by startPeerHandler or the
\* rebroadcast, then merged with later diffs by addMessage) always lists
\* exactly the keys of the current wantlist.
PendingFullIsWantlist ==
  \A p \in Peers : Queued(p) /\ out[p].full => out[p].want = Entries(wl)

\* Spec section 4.4: the queue is torn down on the last disconnect.  Once
\* the connect/disconnect notifications are consumed, a peer has a queue
\* whose refcnt is the number of its connections.
QueueTracksConnections ==
  \A p \in Peers : pendConn[p] = 0 /\ pendDisc[p] = 0 => refcnt[p] = conns[p]

\* Spec section 8.5: a key that stays wanted while a peer stays queued is
\* eventually, and from then on, in that peer's ledger wantList of us,
\* despite lost sends, reconnects and stale workers.
WantedEventuallyAdvertised ==
  \A p \in Peers, k \in Keys :
    <>[](k \in Entries(wl) /\ Queued(p)) => <>[](view[p][k] > 0)

\* The converse convergence: a key that stays out of the wantlist while a
\* peer stays queued eventually leaves that peer's ledger wantList of us.
CancelledEventuallyWithdrawn ==
  \A p \in Peers, k \in Keys :
    <>[](k \notin Entries(wl) /\ Queued(p)) => <>[](view[p][k] = 0)

\* Spec section 3: a want entry says "I want this key", a cancel entry
\* "remove it"; we send a want only for a key newly in our wantlist, so
\* the peer's ledger, which counts wants (wantList.Add), never counts one
\* of our keys twice.
LedgerCountsOneWant ==
  \A p \in Peers, k \in Keys : view[p][k] <= 1

=============================================================================
