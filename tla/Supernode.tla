----------------------------- MODULE Supernode -----------------------------
(***************************************************************************)
(* The supernode routing server of routing/supernode/server.go, as its   *)
(* datastore sees it, with the requests clients send it (client.go).     *)
(* Each request is handled by Server.handleMessage in the goroutine of    *)
(* the stream it came on, so handlers run concurrently and the datastore  *)
(* (one Get or Put at a time) is the only thing they share; nothing locks *)
(* a handler's read of a provider record against another's write.         *)
(*                                                                         *)
(* Records and provider lists are abstracted to who they name: a value    *)
(* record to its author, a provider record of a key to the set of peer    *)
(* IDs in it (mergedRecords is a map by ID).  A datastore error may fail  *)
(* any Get or Put; GetCanFail says whether Gets may fail at all.  The     *)
(* client's queries (FindProvidersAsync, GetValue, FindPeer) go through a *)
(* proxy to the handler, which answers them from one datastore read; a    *)
(* proxy error fails a query.  PUT_VALUE messages come from               *)
(* Client.PutValue, or from any peer with a record of any author.         *)
(***************************************************************************)
EXTENDS Naturals, Sequences

CONSTANTS
  Keys,         \* routing keys
  Peers,        \* peer IDs of clients, and of the providers they name
  Reqs,         \* request handlers that may run at once
  Lists,        \* provider lists an ADD_PROVIDER message may carry
  None,         \* no record stored under a key
  MaxFailures,  \* bound on datastore errors
  GetCanFail    \* whether a datastore Get may return an error

ASSUME Lists \subseteq Seq(Peers) /\ GetCanFail \in BOOLEAN

VARIABLES
  providers,  \* datastore value at providerKey(k): the provider IDs
  records,    \* datastore value at k: the author of the PUT_VALUE record
  addrs,      \* peers whose addresses the peerstore holds
  req,        \* each handler's ADD_PROVIDER in progress
  acked,      \* <<k, p>> whose putRoutingProviders returned nil
  failures,   \* datastore and proxy errors so far
  answer      \* the last answer a client got: its query and the peers it was told

vars == <<providers, records, addrs, req, acked, failures, answer>>

(* st: "idle", "loop" over the provider list, or "write" after the Get   *)
(* of putRoutingProviders; from: the sending peer p; old: what the Get   *)
(* returned.                                                               *)
Idle == [st |-> "idle", from |-> CHOOSE p \in Peers : TRUE,
         key |-> CHOOSE k \in Keys : TRUE, list |-> <<>>, old |-> {}]

Init == /\ providers = [k \in Keys |-> {}]
        /\ records = [k \in Keys |-> None]
        /\ addrs = {}
        /\ req = [r \in Reqs |-> Idle]
        /\ acked = {}
        /\ failures = 0
        /\ answer = [c |-> CHOOSE p \in Peers : TRUE, op |-> "none",
                     arg |-> CHOOSE k \in Keys : TRUE, peers |-> {}]

\* storeProvidersToPeerstore: the sender's addresses go to the peerstore.
StoreProvidersToPeerstore(p) == addrs \cup {p}

\* getRoutingProviders(k) when the datastore Get succeeds.
GetRoutingProviders(k) == providers[k]

PutRoutingProviders(old, p) == old \cup {p}

\* A datastore call fails.
Fail == /\ failures < MaxFailures
        /\ failures' = failures + 1

(* HandleRequest of an ADD_PROVIDER for k from p carrying list l; the    *)
(* message Client.Provide sends is <<p>>.                                 *)
ReceiveAddProvider(r, p, k, l) ==
  /\ req[r].st = "idle"
  /\ req' = [req EXCEPT ![r] = [st |-> "loop", from |-> p, key |-> k,
                                list |-> l, old |-> {}]]
  /\ UNCHANGED <<providers, records, addrs, acked, failures, answer>>

\* The loop is done: handleMessage returns "", nil.
AddProviderDone(r) ==
  /\ req[r].st = "loop" /\ req[r].list = <<>>
  /\ req' = [req EXCEPT ![r] = Idle]
  /\ UNCHANGED <<providers, records, addrs, acked, failures, answer>>

\* A provider other than the sender: log addProviderBadRequest, skip it.
AddProviderSkip(r) ==
  /\ req[r].st = "loop" /\ req[r].list # <<>>
  /\ Head(req[r].list) # req[r].from
  /\ req' = [req EXCEPT ![r].list = Tail(@)]
  /\ UNCHANGED <<providers, records, addrs, acked, failures, answer>>

(* The sender's own entry: storeProvidersToPeerstore adds its addresses, *)
(* then putRoutingProviders reads the key's provider record; a Get error *)
(* is ignored by getRoutingProviders and reads as no providers.          *)
AddProviderRead(r) ==
  /\ req[r].st = "loop" /\ req[r].list # <<>>
  /\ Head(req[r].list) = req[r].from
  /\ addrs' = StoreProvidersToPeerstore(req[r].from)
  /\ \/ /\ req' = [req EXCEPT ![r].st = "write", ![r].old = GetRoutingProviders(req[r].key)]
        /\ UNCHANGED failures
     \/ /\ GetCanFail /\ Fail
        /\ req' = [req EXCEPT ![r].st = "write", ![r].old = {}]
  /\ UNCHANGED <<providers, records, acked, answer>>

(* putRoutingProviders merges the sender into what it read and Puts the  *)
(* result; on a Put error handleMessage returns at once, dropping the    *)
(* rest of the list.                                                      *)
AddProviderWrite(r) ==
  LET k == req[r].key  p == req[r].from
  IN  /\ req[r].st = "write"
      /\ providers' = [providers EXCEPT ![k] = PutRoutingProviders(req[r].old, p)]
      /\ acked' = acked \cup {<<k, p>>}
      /\ req' = [req EXCEPT ![r].st = "loop", ![r].list = Tail(@)]
      /\ UNCHANGED <<records, addrs, failures, answer>>

AddProviderPutFail(r) ==
  /\ req[r].st = "write"
  /\ Fail
  /\ req' = [req EXCEPT ![r] = Idle]
  /\ UNCHANGED <<providers, records, addrs, acked, answer>>

\* putRoutingRecord: the record is stored under k.
PutRoutingRecord(k, a) == [records EXCEPT ![k] = a]

\* makeRecord: the record is signed by, and names, the client itself.
MakeRecord(c) == c

(* PUT_VALUE from p of a record by author a: putRoutingRecord stores it  *)
(* unverified (verify is commented out); a Put error is ignored.         *)
PutValue(p, k, a) ==
  /\ \/ records' = PutRoutingRecord(k, a) /\ UNCHANGED failures
     \/ Fail /\ UNCHANGED records
  /\ UNCHANGED <<providers, addrs, req, acked, answer>>

\* Client.PutValue: makeRecord, then a PUT_VALUE through the proxy.
ClientPutValue(c, k) == PutValue(c, k, MakeRecord(c))

(* Server.handleMessage's read-only cases.  GET_VALUE answers what      *)
(* getRoutingRecord(k) returns, and nothing when it fails (no record).   *)
(* FIND_NODE: the peerstore's PeerInfo of the ID, which carries          *)
(* addresses only for peers in addrs.  GET_PROVIDERS: getRoutingProviders,*)
(* whose Get error reads as no providers.                                 *)
GetRoutingRecord(k) == IF records[k] = None THEN {} ELSE {records[k]}
HandleFindNode(id) == IF id \in addrs THEN {id} ELSE {}
HandleGetProviders(k) == GetRoutingProviders(k)

\* A client's query ends with answer op/arg and the peers it was told.
Answer(c, op, arg, ps) ==
  /\ answer' = [c |-> c, op |-> op, arg |-> arg, peers |-> ps]
  /\ UNCHANGED <<providers, records, addrs, req, acked>>

(* FindProvidersAsync(k) of client c: the goroutine passes the answer's *)
(* providers on until ctx is done, so c gets any part of them (the      *)
(* order is a map's); a proxy error closes the channel at once.          *)
FindProviders(c, k) ==
  /\ \E S \in SUBSET HandleGetProviders(k) : Answer(c, "providers", k, S)
  /\ UNCHANGED failures

(* GetValue and GetValues(k) of client c: the record's value, or nothing *)
(* when the proxy or the datastore Get fails.                            *)
GetValue(c, k) ==
  \/ Answer(c, "value", k, GetRoutingRecord(k)) /\ UNCHANGED failures
  \/ Fail /\ Answer(c, "value", k, {})

(* FindPeer(id) of client c: it returns the answer's PeerInfo whose ID   *)
(* is id, with the addresses the server knows; a proxy error returns     *)
(* none.                                                                  *)
FindPeer(c, id) ==
  \/ Answer(c, "peer", id, HandleFindNode(id)) /\ UNCHANGED failures
  \/ Fail /\ Answer(c, "peer", id, {})


Next ==
  \/ \E r \in Reqs :
       \/ \E p \in Peers, k \in Keys, l \in Lists : ReceiveAddProvider(r, p, k, l)
       \/ AddProviderDone(r) \/ AddProviderSkip(r) \/ AddProviderRead(r)
       \/ AddProviderWrite(r) \/ AddProviderPutFail(r)
  \/ \E c \in Peers, k \in Keys : ClientPutValue(c, k)
  \/ \E p, a \in Peers, k \in Keys : PutValue(p, k, a)
  \/ \E c \in Peers, k \in Keys : FindProviders(c, k) \/ GetValue(c, k)
  \/ \E c, id \in Peers : FindPeer(c, id)

Spec == Init /\ [][Next]_vars

-----------------------------------------------------------------------------
(* A provider whose ADD_PROVIDER was stored (putRoutingProviders         *)
(* returned nil) stays in the key's provider record: no later            *)
(* read-merge-write of another ADD_PROVIDER, a failed Put or a handler   *)
(* that returns early drops it.                                           *)
NoProviderLost == \A kp \in acked : kp[2] \in providers[kp[1]]

====
