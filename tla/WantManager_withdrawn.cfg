CONSTANTS
  Keys = {k1}
  Peers = {p1}
  Requests = {r1, r2}
  IncomingCap = 1
  MaxConnects = 2
  MaxFailures = 0
  Reorder = FALSE
  UnwantKeys = {}
  StreamCap = 1
SPECIFICATION Spec
PROPERTY CancelledEventuallyWithdrawn
