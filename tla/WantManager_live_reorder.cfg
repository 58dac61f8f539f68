CONSTANTS
  Keys = {k1}
  Peers = {p1}
  Requests = {r1, r2}
  IncomingCap = 1
  MaxConnects = 2
  MaxFailures = 1
  Reorder = TRUE
  UnwantKeys = {{k1}}
  StreamCap = 2
SPECIFICATION Spec
PROPERTY WantedEventuallyAdvertised
