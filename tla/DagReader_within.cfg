\* Reads, WriteTo and seeks inside the file, from the start or the
\* current offset, with no failed leaf fetch.
CONSTANTS
  Nodes <- MCNodes
  Offsets <- MCOffsets
  Lens <- MCLens
  Whences = {"set", "cur"}
  SeekPastEnd = FALSE
  MaxFailures = 0
SPECIFICATION Spec
PROPERTY ImplementsReadSeeker
