----------------------------- MODULE DagReader -----------------------------
(***************************************************************************)
(* The DagReader of unixfs/io/dagreader.go over a file DAG of two levels: *)
(* a root node whose unixfs data holds the first bytes and whose links    *)
(* lead to raw leaves (the importer's layout for a small file).  buf is   *)
(* a bytes.Reader over the root data or one leaf; linkPosition is the     *)
(* next link precalcNextBuf loads; offset is the read head in the file.   *)
(* Fetching a leaf through its NodeGetter may fail (a DAGService error or *)
(* a cancelled ctx).  A bytes.Reader may be positioned past its end, and  *)
(* Close on it does nothing.  Every method is an operator from the        *)
(* reader's state to the set of its outcomes.                             *)
(*                                                                         *)
(* Callers seek from the start or from the current offset; SeekPastEnd    *)
(* says whether they seek at or past the end of the file.                 *)
(***************************************************************************)
EXTENDS Integers, Sequences, SequencesExt, ByteString

CONSTANTS
  Nodes,        \* root nodes a reader is opened on: [type, data, leaves, links]
  Offsets,      \* int64 offsets given to Seek
  Lens,         \* len(b) of Read
  Whences,      \* whence values given to Seek
  SeekPastEnd,  \* whether callers seek to the end of the file or past it
  MaxFailures   \* bound on failed leaf fetches

VARIABLES
  layout,    \* the file's DAG
  dr,        \* [src: 0 (root data) or leaf index, pos: in buf, lp: linkPosition, off: offset]
  out,       \* what the last Read or WriteTo returned
  failures   \* failed leaf fetches so far

vars == <<layout, dr, out, failures>>

MinOf(a, b) == IF a < b THEN a ELSE b
MaxOf(a, b) == IF a > b THEN a ELSE b

(* NewDagReader on a node: a file or raw node opens a reader on its data *)
(* and leaves; a metadata node opens its first link's node instead, and  *)
(* is malformed without links (a failed GetNode of the link is an error *)
(* too); directories, symlinks and other types are errors and open       *)
(* nothing.                                                               *)
RECURSIVE NewDagReader(_)
NewDagReader(n) ==
  CASE n.type \in {"file", "raw"} ->
         [err |-> "none", file |-> [data |-> n.data, leaves |-> n.leaves]]
    [] n.type = "metadata" /\ n.links # <<>> -> NewDagReader(n.links[1])
    [] n.type = "metadata" -> [err |-> "format"]
    [] n.type = "directory" -> [err |-> "isdir"]
    [] n.type = "symlink" -> [err |-> "symlink"]
    [] OTHER -> [err |-> "unrecognized"]

\* The files a reader can be open on.
Opened == {NewDagReader(n).file : n \in {m \in Nodes : NewDagReader(m).err = "none"}}

\* pb.Blocksizes, the file's bytes and pb.GetFilesize().
Blocksizes == [i \in 1..Len(layout.leaves) |-> Len(layout.leaves[i])]
FileBytes == layout.data \o FlattenSeq(layout.leaves)
Filesize == Len(FileBytes)

\* The bytes buf reads.
Buf(src) == IF src = 0 THEN layout.data ELSE layout.leaves[src]

(* precalcNextBuf: past the last link it returns io.EOF; otherwise the   *)
(* leaf at linkPosition is fetched (an error returns before the           *)
(* increment), linkPosition advances and buf becomes the leaf's reader.  *)
PrecalcNextBuf(r, fails) ==
  IF r.lp >= Len(layout.leaves) THEN {[r |-> r, err |-> "eof", fails |-> fails]}
  ELSE {[r |-> [r EXCEPT !.src = r.lp + 1, !.pos = 0, !.lp = r.lp + 1],
         err |-> "none", fails |-> fails]}
       \cup (IF fails < MaxFailures THEN {[r |-> r, err |-> "get", fails |-> fails + 1]}
             ELSE {})

(* CtxReadFull(b) with len(b) = need: read what buf holds into b, and    *)
(* load the next leaf until b is full or precalcNextBuf fails; every     *)
(* byte read moves offset.  WriteTo is the same loop with no len(b).     *)
RECURSIVE ReadLoop(_, _, _, _)
ReadLoop(r, need, got, fails) ==
  LET b == Buf(r.src)
      k == MinOf(need - Len(got), MaxOf(0, Len(b) - r.pos))
      r1 == [r EXCEPT !.pos = @ + k, !.off = @ + k]
      got1 == got \o SubSeq(b, r.pos + 1, r.pos + k)
  IN  IF Len(got1) = need
      THEN {[r |-> r1, got |-> got1, err |-> "none", fails |-> fails]}
      ELSE UNION {IF p.err = "none" THEN ReadLoop(p.r, need, got1, p.fails)
                  ELSE {[r |-> p.r, got |-> got1, err |-> p.err, fails |-> p.fails]}
                  : p \in PrecalcNextBuf(r1, fails)}

(* The link search of Seek(SEEK_SET): the first link i (0-based) whose  *)
(* block is larger than what is left, left less the blocks before it;   *)
(* when no block is, linkPosition is left as it was.                     *)
FindLink(i, left, lp) ==
  LET RECURSIVE F(_, _)
      F(j, l) == IF j > Len(Blocksizes) THEN [lp |-> lp, left |-> l]
                 ELSE IF Blocksizes[j] > l THEN [lp |-> j - 1, left |-> l]
                 ELSE F(j + 1, l - Blocksizes[j])
  IN  F(i, left)

(* Seek(offset, SEEK_SET): a negative offset is an error; an offset in   *)
(* the root data reads it from there and restarts the links; otherwise   *)
(* the link search sets linkPosition, precalcNextBuf loads that leaf     *)
(* (its error is returned with linkPosition already moved) and the       *)
(* leaf's reader is seeked to what is left.                              *)
\* Seeded fault: the root-data branch keeps linkPosition.
SeekSetKeepLink(r, offset, fails) ==
  IF offset < 0 THEN {[r |-> r, ret |-> -1, err |-> "invalid", fails |-> fails]}
  ELSE IF Len(layout.data) >= offset
  THEN {[r |-> [src |-> 0, pos |-> offset, lp |-> r.lp, off |-> offset], ret |-> offset,
         err |-> "none", fails |-> fails]}
  ELSE LET f == FindLink(1, offset - Len(layout.data), r.lp)
       IN  {IF p.err # "none" THEN [r |-> p.r, ret |-> 0, err |-> p.err, fails |-> p.fails]
            ELSE [r |-> [p.r EXCEPT !.pos = f.left, !.off = offset], ret |-> offset,
                  err |-> "none", fails |-> p.fails]
            : p \in PrecalcNextBuf([r EXCEPT !.lp = f.lp], fails)}

SeekSet(r, offset, fails) ==
  IF offset < 0 THEN {[r |-> r, ret |-> -1, err |-> "invalid", fails |-> fails]}
  ELSE IF Len(layout.data) >= offset
  THEN {[r |-> [src |-> 0, pos |-> offset, lp |-> 0, off |-> offset], ret |-> offset,
         err |-> "none", fails |-> fails]}
  ELSE LET f == FindLink(1, offset - Len(layout.data), r.lp)
       IN  {IF p.err # "none" THEN [r |-> p.r, ret |-> 0, err |-> p.err, fails |-> p.fails]
            ELSE [r |-> [p.r EXCEPT !.pos = f.left, !.off = offset], ret |-> offset,
                  err |-> "none", fails |-> p.fails]
            : p \in PrecalcNextBuf([r EXCEPT !.lp = f.lp], fails)}

\* SEEK_CUR and SEEK_END compute the offset and seek from the start.
SeekTarget(r, off, wh) == CASE wh = "set" -> off
                            [] wh = "cur" -> r.off + off
                            [] wh = "end" -> Filesize - off

-----------------------------------------------------------------------------
Init == /\ layout \in Opened
        /\ dr = [src |-> 0, pos |-> 0, lp |-> 0, off |-> 0]
        /\ out = <<>>
        /\ failures = 0

\* Read(b), that is CtxReadFull(dr.ctx, b).
Read(n) ==
  \E o \in ReadLoop(dr, n, <<>>, failures) :
    /\ dr' = o.r /\ out' = o.got /\ failures' = o.fails
    /\ UNCHANGED layout

WriteTo ==
  \E o \in ReadLoop(dr, Filesize + 1, <<>>, failures) :
    /\ dr' = o.r /\ out' = o.got /\ failures' = o.fails
    /\ UNCHANGED layout

Seek(off, wh) ==
  LET t == SeekTarget(dr, off, wh)
  IN  /\ SeekPastEnd \/ t < Filesize
      /\ \E o \in SeekSet(dr, t, failures) :
           dr' = o.r /\ failures' = o.fails
      /\ UNCHANGED <<layout, out>>

Next == \/ \E n \in Lens : Read(n)
        \/ WriteTo
        \/ \E off \in Offsets, wh \in Whences : Seek(off, wh)

Spec == Init /\ [][Next]_vars

-----------------------------------------------------------------------------
(* Refinement: the DagReader is a ReadSeeker over the file's bytes whose *)
(* position is dr.offset: every Read and WriteTo returns the file's      *)
(* bytes from the offset on, across root data and leaf boundaries, and   *)
(* every Seek lands where io.Seeker says.                                *)
Abstract == INSTANCE ReadSeeker WITH content <- FileBytes, pos <- dr.off, out <- out,
                                     Contents <- {l.data \o FlattenSeq(l.leaves) : l \in Opened}

ImplementsReadSeeker == Abstract!Spec

====
