CONSTANTS
  Keys = {k1, k2}
  Peers = {p1}
  Requests = {r1, r2}
  IncomingCap = 1
  MaxConnects = 2
  MaxFailures = 1
  Reorder = FALSE
  UnwantKeys = {}
  StreamCap = 1
SPECIFICATION Spec
INVARIANT NoStaleLocalWant
INVARIANT PendingFullIsWantlist
