-------------------------------- MODULE File --------------------------------
(***************************************************************************)
(* What a DagModifier promises its users (mfs file descriptors): a byte   *)
(* file with a current offset, as an io.ReadWriteSeeker with WriteAt and  *)
(* Truncate.  Writing past the end fills the gap with zero bytes, and so   *)
(* does seeking past the end (the DagModifier grows the DAG sparsely on a  *)
(* Seek).  Seek follows the standard unix whence, as dagreader.go's Seek   *)
(* documents.  A call that fails changes nothing.  out is what the last    *)
(* Read returned.  The calls range over the writes, offsets and lengths  *)
(* given as constants.                                                     *)
(***************************************************************************)
EXTENDS Integers, Sequences, ByteString

CONSTANTS
  InitContents, \* the files a DagModifier may be opened on
  Writes,       \* byte strings given to Write / WriteAt
  Offsets,      \* offsets given to WriteAt / Seek
  Lens          \* lengths given to Read / Truncate

VARIABLES content, pos, out

\* The offset a seek to off from whence wh asks for.
SeekTarget(off, wh, p, size) == CASE wh = "set" -> off
                                  [] wh = "cur" -> p + off
                                  [] wh = "end" -> size + off

Init == /\ content \in InitContents
        /\ pos = 0
        /\ out = <<>>

Write(b) == /\ content' = Overwrite(content, pos, b)
            /\ pos' = pos + Len(b)
            /\ UNCHANGED out

WriteAt(b, off) == /\ off >= 0
                   /\ content' = Overwrite(content, off, b)
                   /\ pos' = off + Len(b)
                   /\ UNCHANGED out

Read(n) == /\ out' = ReadAt(content, pos, n)
           /\ pos' = pos + Len(out')
           /\ UNCHANGED content

Seek(off, wh) == LET t == SeekTarget(off, wh, pos, Len(content))
                 IN  /\ t >= 0
                     /\ pos' = t
                     /\ content' = IF t > Len(content) THEN Resize(content, t)
                                                      ELSE content
                     /\ UNCHANGED out

Truncate(n) == /\ n >= 0
               /\ content' = Resize(content, n)
               /\ UNCHANGED <<pos, out>>

\* A call that fails is a stuttering step.
Next == \/ \E b \in Writes : Write(b)
        \/ \E b \in Writes, off \in Offsets : WriteAt(b, off)
        \/ \E n \in Lens : Read(n) \/ Truncate(n)
        \/ \E off \in Offsets, wh \in {"set", "cur", "end"} : Seek(off, wh)

Spec == Init /\ [][Next]_<<content, pos, out>>

====
