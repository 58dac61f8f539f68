\* Removal of one or two keys under Force, with "pin add" and "pin rm"
\* at any time and one pinner or blockstore error.
CONSTANTS
  k1 = k1
  k2 = k2
  Keys <- MCKeys
  Cids <- MCCids
  Force = TRUE
  Quiet = FALSE
  MaxFailures = 1
SPECIFICATION Spec
INVARIANT NoPinnedBlockRemoved
INVARIANT SuccessMeansRemoved
PROPERTY GCLockReleased
