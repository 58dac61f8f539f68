\* Write, Seek and Sync without DAGService errors implement the abstract
\* File: the bytes the user sees are the DAG with the buffer applied.
\* Width 4 keeps every offset reachable under MaxLen below 2^(Width-1).
CONSTANTS
  InitContents <- MCInitContents
  Writes <- MCWrites
  Offsets <- MCOffsets
  Lens <- MCLens
  Whences = {"set", "cur"}
  Ops = {"write", "seek", "sync"}
  Width = 4
  WriteBufferSize = 1
  MaxLen = 3
  MaxFailures = 0
SPECIFICATION Spec
PROPERTY ImplementsFile
\* The file cannot grow past MaxLen, so a state with a full file and
\* every call bound off by MaxLen has no successor.
CHECK_DEADLOCK FALSE
