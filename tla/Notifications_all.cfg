\* Two subscribers over two keys, with publishes, cancellation and
\* Shutdown in any order.
CONSTANTS
  k1 = k1
  k2 = k2
  Keys <- MCKeys
  Subs = {s1, s2}
  KeyLists <- MCKeyLists
SPECIFICATION Spec
INVARIANTS TypeOK NoBufferFull
PROPERTY StreamEventuallyCloses
