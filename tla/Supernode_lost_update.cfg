\* Two ADD_PROVIDER handlers at once, no datastore errors: the read and
\* the write of putRoutingProviders interleave.
CONSTANTS
  Keys = {k1}
  p1 = p1
  p2 = p2
  Peers <- MCPeers
  Reqs = {r1, r2}
  Lists <- MCLists
  None = None
  MaxFailures = 0
  GetCanFail = FALSE
SPECIFICATION Spec
INVARIANT NoProviderLost
