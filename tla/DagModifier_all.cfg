\* Every method, every whence, one DAGService error.  A panic in Sync ends
\* the program, so a final state with no step is not a deadlock.
CONSTANTS
  InitContents <- MCInitContents
  Writes <- MCWrites
  Offsets <- MCOffsets
  Lens <- MCLens
  Whences = {"set", "cur", "end"}
  Ops = {"write", "writeat", "read", "seek", "truncate", "sync"}
  Width = 3
  WriteBufferSize = 1
  MaxLen = 3
  MaxFailures = 1
SPECIFICATION Spec
INVARIANT TypeOK
CHECK_DEADLOCK FALSE
