\* Two callers on one key: arccache methods interleave step by step.
CONSTANTS
  Keys = {k1}
  Callers = {c1, c2}
  None = None
  MaxFailures = 0
SPECIFICATION Spec
INVARIANT CachedAbsentIsAbsent
