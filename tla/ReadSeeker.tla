----------------------------- MODULE ReadSeeker -----------------------------
(***************************************************************************)
(* What a DagReader promises its users: an io.Reader, io.Seeker and       *)
(* io.WriterTo over the fixed bytes of one file.  Read(n) returns the     *)
(* next n bytes, fewer at the end; WriteTo returns everything from the    *)
(* offset on; Seek follows io.Seeker (SEEK_END counts from the end        *)
(* forward, a negative target is an error that changes nothing, and a     *)
(* target past the end is legal, reads there returning nothing).  out is  *)
(* what the last Read or WriteTo returned.                                 *)
(***************************************************************************)
EXTENDS Integers, Sequences, ByteString

CONSTANTS
  Contents,  \* the files a reader may be opened on
  Offsets,   \* offsets given to Seek
  Lens,      \* lengths given to Read
  Whences    \* whence values given to Seek

VARIABLES content, pos, out

Init == /\ content \in Contents
        /\ pos = 0
        /\ out = <<>>

Read(n) == /\ out' = ReadAt(content, pos, n)
           /\ pos' = pos + Len(out')
           /\ UNCHANGED content

WriteTo == Read(Len(content))

Seek(off, wh) ==
  LET t == CASE wh = "set" -> off
             [] wh = "cur" -> pos + off
             [] wh = "end" -> Len(content) + off
  IN  /\ pos' = IF t >= 0 THEN t ELSE pos
      /\ UNCHANGED <<content, out>>

Next == \/ \E n \in Lens : Read(n)
        \/ WriteTo
        \/ \E off \in Offsets, wh \in Whences : Seek(off, wh)

Spec == Init /\ [][Next]_<<content, pos, out>>

====
