\* One caller: the arccache methods run one at a time, with ARC evictions
\* and store failures between their steps.  Each method behaves as one
\* Blockstore call, and the cache agrees with the store between calls.
CONSTANTS
  Keys = {k1, k2}
  Callers = {c1}
  None = None
  MaxFailures = 2
SPECIFICATION Spec
INVARIANTS CachedAbsentIsAbsent CachedPresentIsPresent
PROPERTY ImplementsBlockstore
