---------------------------- MODULE DagModifier ----------------------------
(***************************************************************************)
(* The DagModifier of unixfs/mod/dagmodifier.go and the DagReader it reads *)
(* through (unixfs/io/dagreader.go).  The DAG of a file is abstracted to  *)
(* the bytes it holds (modifyDag overwrites them in place, appendData and  *)
(* expandSparse append, dagTruncate cuts).  writeStart and curWrOff are   *)
(* uint64 and the offsets callers pass are int64: both keep their          *)
(* wrap-around, at Width bits.  A DagReader reads a snapshot of the node   *)
(* it was created on.  A DAGService error may fail any DAG update; one    *)
(* case of the code's control depends on the DAG's shape: modifyDag at an  *)
(* offset past the end panics on a leaf (f.Data[offset:]) and appends at   *)
(* the end of a tree, and both outcomes are kept.                          *)
(*                                                                         *)
(* Every method is an operator from a DagModifier state d to the set of   *)
(* its outcomes; methods that call other methods chain them with Then.    *)
(***************************************************************************)
EXTENDS Integers, Sequences, ByteString

CONSTANTS
  InitContents,     \* the file contents a DagModifier is opened on
  Writes,           \* byte strings given to Write / WriteAt
  Offsets,          \* int64 offsets given to WriteAt / Seek
  Lens,             \* lengths given to Read / Truncate
  Whences,          \* whence values given to Seek
  Ops,              \* the methods callers use
  Width,            \* bits of uint64 / int64 in the model
  WriteBufferSize,  \* writebufferSize (1 << 21 in the code)
  MaxLen,           \* bound on the bytes of the DAG and of the buffer
  MaxFailures       \* bound on DAGService errors

ASSUME Width \in Nat \ {0}
ASSUME Whences \subseteq {"set", "cur", "end"}
ASSUME Ops \subseteq {"write", "writeat", "read", "seek", "truncate", "sync"}

VARIABLES
  dm,         \* the DagModifier's fields
  failures,   \* DAGService errors so far
  panicked,   \* a method panicked
  last        \* the last method called, its arguments and whether it failed

vars == <<dm, failures, panicked, last>>

Mod == 2 ^ Width
\* uint64(x) and int64(u) at Width bits.
U64(x) == x % Mod
I64(u) == IF u >= Mod \div 2 THEN u - Mod ELSE u

MinOf(a, b) == IF a < b THEN a ELSE b

\* dm.read == nil, or a DagReader on snapshot snap at offset off.
NoReader == [open |-> FALSE, snap |-> <<>>, off |-> 0]

(* node: the bytes of curNode; buf, hasBuf: wrBuf and wrBuf /= nil;      *)
(* ws: writeStart; cur: curWrOff; out: what the last Read returned.      *)
DM == [node : Seq(Nat), buf : Seq(Nat), hasBuf : BOOLEAN, ws : 0..Mod - 1,
       cur : 0..Mod - 1, read : [open : BOOLEAN, snap : Seq(Nat), off : Int],
       out : Seq(Nat)]

\* An outcome of a method: the new state, whether it returned an error,
\* the DAGService errors it met and whether it panicked.
Ok(d) == [d |-> d, err |-> FALSE, fails |-> 0, panic |-> FALSE]
Err(d, f) == [d |-> d, err |-> TRUE, fails |-> f, panic |-> FALSE]
Panic(d) == [d |-> d, err |-> TRUE, fails |-> 0, panic |-> TRUE]

\* "if err != nil { return err }": run F on the state each success leaves.
Then(S, F(_)) ==
  UNION {IF r.err THEN {r}
         ELSE {[x EXCEPT !.fails = @ + r.fails] : x \in F(r.d)} : r \in S}

\* Size(): the DAG's filesize, or the end of the buffered write past it.
Size(d) == IF d.hasBuf /\ U64(Len(d.buf) + d.ws) > Len(d.node)
           THEN I64(U64(Len(d.buf) + d.ws)) ELSE Len(d.node)

\* expandSparse(n): append n zero bytes to curNode.
ExpandSparse(d, n) == {Ok([d EXCEPT !.node = @ \o Zeros(n)]), Err(d, 1)}

(* Sync(): kill the reader, let modifyDag overwrite the DAG from         *)
(* writeStart with what the buffer holds (it consumes the bytes it       *)
(* writes), append the rest with appendData, advance writeStart.  A      *)
(* DAGService error in modifyDag or dagserv.Get loses the consumed bytes; *)
(* one in appendData keeps the overwrite.                                *)
Sync(d) ==
  IF ~d.hasBuf THEN {Ok(d)}
  ELSE LET n == Len(d.node)
           inside == d.ws <= n
           k == IF inside THEN MinOf(Len(d.buf), n - d.ws) ELSE 0
           over == IF inside THEN Overwrite(d.node, d.ws, SubSeq(d.buf, 1, k))
                   ELSE d.node
           rest == SubSeq(d.buf, k + 1, Len(d.buf))
           done == inside /\ Len(d.buf) < n - d.ws
           d1 == [d EXCEPT !.read = NoReader]
       IN  {Ok([d1 EXCEPT !.node = over \o rest, !.buf = <<>>, !.hasBuf = FALSE,
                          !.ws = U64(d.ws + Len(d.buf))]),
            Err([d1 EXCEPT !.buf = rest], 1)}
           \cup (IF done THEN {} ELSE {Err([d1 EXCEPT !.node = over, !.buf = rest], 1)})
           \cup (IF inside THEN {} ELSE {Panic(d1)})

(* Write(b): drop the reader, append b to the buffer, advance curWrOff,   *)
(* Sync when the buffer outgrows writebufferSize.                        *)
\* Seeded fault: Write that never allocates wrBuf.
WriteNoAlloc(d, b) ==
  LET d1 == [d EXCEPT !.read = NoReader, !.buf = @ \o b, !.cur = U64(@ + Len(b))]
  IN  IF Len(d1.buf) > WriteBufferSize THEN Sync(d1) ELSE {Ok(d1)}

Write(d, b) ==
  LET d1 == [d EXCEPT !.read = NoReader, !.hasBuf = TRUE, !.buf = @ \o b,
                      !.cur = U64(@ + Len(b))]
  IN  IF Len(d1.buf) > WriteBufferSize THEN Sync(d1) ELSE {Ok(d1)}

(* WriteAt(b, off): at writeStart with a buffer, drop the buffer when b  *)
(* is at least as long; elsewhere than curWrOff, grow the file up to off *)
(* if needed, Sync and start a new write at off; then Write(b).          *)
WriteAt(d, b, off) ==
  IF off = I64(d.ws) /\ d.hasBuf
  THEN Write(IF Len(b) >= Len(d.buf) THEN [d EXCEPT !.buf = <<>>] ELSE d, b)
  ELSE IF U64(off) # d.cur
  THEN LET size == Size(d)
       IN  Then(IF off > size THEN ExpandSparse(d, off - size) ELSE {Ok(d)},
                LAMBDA d1 : Then(Sync(d1),
                                 LAMBDA d2 : Write([d2 EXCEPT !.ws = U64(off)], b)))
  ELSE Write(d, b)

\* readPrep(): Sync, then open a DagReader on curNode seeked to curWrOff.
ReadPrep(d) ==
  Then(Sync(d),
       LAMBDA d1 : IF d1.read.open THEN {Ok(d1)}
                   ELSE IF 0 <= I64(d1.cur) /\ I64(d1.cur) <= Len(d1.node)
                   THEN {Ok([d1 EXCEPT !.read = [open |-> TRUE, snap |-> d1.node,
                                                 off |-> I64(d1.cur)]])}
                   ELSE {Err(d1, 0)})

(* Read(n): read up to n bytes through the reader and advance curWrOff   *)
(* by what was read; CtxReadFull returns io.EOF with a short read.        *)
Read(d, n) ==
  Then(ReadPrep(d),
       LAMBDA d1 : LET got == ReadAt(d1.read.snap, d1.read.off, n)
                       d2 == [d1 EXCEPT !.out = got, !.cur = U64(@ + Len(got)),
                                        !.read.off = @ + Len(got)]
                   IN  {IF Len(got) < n THEN Err(d2, 0) ELSE Ok(d2)})

(* DagReader.Seek(off, whence) on the reader's own node, a leaf: SEEK_CUR *)
(* and SEEK_END become a SEEK_SET, which fails on a negative offset, keeps *)
(* an offset up to len(pb.Data), and past it finds no link, so            *)
(* precalcNextBuf returns io.EOF.                                          *)
ReaderSeek(d, off, wh) ==
  LET r == d.read
      t == CASE wh = "set" -> off
             [] wh = "cur" -> r.off + off
             [] wh = "end" -> Len(r.snap) - off
  IN  IF 0 <= t /\ t <= Len(r.snap) THEN {Ok([d EXCEPT !.read.off = t])}
                                    ELSE {Err(d, 0)}

(* Seek(off, whence): Sync, compute the new offset in uint64, grow the   *)
(* file up to it, set curWrOff and writeStart, and seek the reader.      *)
\* Seeded fault: Seek that leaves writeStart where it was.
SeekKeepWriteStart(d, off, wh) ==
  Then(Sync(d),
    LAMBDA d1 :
      LET size == Size(d1)
          new == CASE wh = "cur" -> U64(d1.cur + U64(off))
                   [] wh = "set" -> U64(off)
                   [] wh = "end" -> U64(U64(size) - U64(off))
      IN  Then(IF I64(new) > size THEN ExpandSparse(d1, I64(new) - size) ELSE {Ok(d1)},
               LAMBDA d2 : LET d3 == [d2 EXCEPT !.cur = new]
                           IN  IF d3.read.open THEN ReaderSeek(d3, off, wh)
                                               ELSE {Ok(d3)}))

Seek(d, off, wh) ==
  Then(Sync(d),
    LAMBDA d1 :
      LET size == Size(d1)
          new == CASE wh = "cur" -> U64(d1.cur + U64(off))
                   [] wh = "set" -> U64(off)
                   [] wh = "end" -> U64(U64(size) - U64(off))
      IN  Then(IF I64(new) > size THEN ExpandSparse(d1, I64(new) - size) ELSE {Ok(d1)},
               LAMBDA d2 : LET d3 == [d2 EXCEPT !.cur = new, !.ws = new]
                           IN  IF d3.read.open THEN ReaderSeek(d3, off, wh)
                                               ELSE {Ok(d3)}))

(* Truncate(size): Sync; grow sparsely, or cut curNode.  A leaf is cut   *)
(* in place, so an error of dagserv.Add leaves it cut; a tree's GetNode   *)
(* or ds.Add error in dagTruncate comes before curNode is touched.        *)
Truncate(d, size) ==
  Then(Sync(d),
       LAMBDA d1 : IF size > Size(d1) THEN ExpandSparse(d1, size - Size(d1))
                   ELSE LET d2 == [d1 EXCEPT !.node = SubSeq(@, 1, size)]
                        IN  {Ok(d2), Err(d2, 1), Err(d1, 1)})

-----------------------------------------------------------------------------
Init == /\ dm \in {[node |-> c, buf |-> <<>>, hasBuf |-> FALSE, ws |-> 0, cur |-> 0,
                    read |-> NoReader, out |-> <<>>] : c \in InitContents}
        /\ failures = 0
        /\ panicked = FALSE
        /\ last = [op |-> "none", b |-> <<>>, off |-> 0, wh |-> "set", err |-> FALSE]

\* A call of method op with arguments b, off, wh ending in one of outcomes S.
Call(op, S, b, off, wh) ==
  /\ ~panicked
  /\ op \in Ops
  /\ \E r \in S :
       /\ failures + r.fails <= MaxFailures
       /\ Len(r.d.node) <= MaxLen /\ Len(r.d.buf) <= MaxLen
       /\ dm' = r.d
       /\ failures' = failures + r.fails
       /\ panicked' = r.panic
       /\ last' = [op |-> op, b |-> b, off |-> off, wh |-> wh, err |-> r.err]

DoWrite(b) == Call("write", Write(dm, b), b, 0, "set")
DoWriteAt(b, off) == Call("writeat", WriteAt(dm, b, off), b, off, "set")
DoRead(n) == Call("read", Read(dm, n), <<>>, n, "set")
DoSeek(off, wh) == Call("seek", Seek(dm, off, wh), <<>>, off, wh)
DoTruncate(n) == Call("truncate", Truncate(dm, n), <<>>, n, "set")
DoSync == Call("sync", Sync(dm), <<>>, 0, "set")

Next == \/ \E b \in Writes : DoWrite(b) \/ \E off \in Offsets : DoWriteAt(b, off)
        \/ \E n \in Lens : DoRead(n) \/ DoTruncate(n)
        \/ \E off \in Offsets, wh \in Whences : DoSeek(off, wh)
        \/ DoSync

Spec == Init /\ [][Next]_vars

-----------------------------------------------------------------------------
\* The type invariant; a nil wrBuf holds nothing.
TypeOK ==
  /\ dm \in DM
  /\ ~dm.hasBuf => dm.buf = <<>>
  /\ failures \in 0..MaxFailures
  /\ panicked \in BOOLEAN

\* The file as its user sees it: the DAG with the buffered write applied.
View(d) == IF d.hasBuf THEN Overwrite(d.node, d.ws, d.buf) ELSE d.node

(* Write(b) puts b at the current offset curWrOff: what Write buffers    *)
(* at writeStart is where the next Write of the user goes.               *)
WriteFollowsOffset ==
  [][last'.op = "write" /\ ~last'.err
     => View(dm') = Overwrite(View(dm), dm.cur, last'.b)]_vars

(* WriteAt(b, off) puts b at offset off, over whatever the buffer holds  *)
(* there ("If we would overwrite the previous write").                  *)
WriteAtOverwrites ==
  [][last'.op = "writeat" /\ ~last'.err
     => View(dm') = Overwrite(View(dm), last'.off, last'.b)]_vars

(* Seek(off, SEEK_END) moves to size + off, as the standard unix seek    *)
(* that dagreader.go's Seek says it matches.                            *)
SeekEndFromEnd ==
  [][last'.op = "seek" /\ last'.wh = "end" /\ ~last'.err
     => I64(dm'.cur) = Size(dm) + last'.off]_vars

(* A buffered write never starts past the end of the DAG: Sync hands    *)
(* writeStart to modifyDag, whose leaf case slices f.Data[offset:].      *)
NoWriteGap == dm.hasBuf => dm.ws <= Len(dm.node)

(* Read(n) returns the file's bytes at the current offset.               *)
ReadReturnsContent ==
  [][last'.op = "read" /\ ~last'.err
     => dm'.out = ReadAt(View(dm), I64(dm.cur), last'.off)]_vars

(* A Sync that returns an error has not changed the file's bytes, so     *)
(* the caller can retry it.                                              *)
FailedSyncKeepsContent ==
  [][last'.op = "sync" /\ last'.err /\ ~panicked' => View(dm') = View(dm)]_vars

(* Refinement: the DagModifier is a File whose bytes are the DAG with   *)
(* the buffer applied and whose offset is curWrOff.                      *)
Abstract == INSTANCE File WITH content <- View(dm), pos <- I64(dm.cur), out <- dm.out

ImplementsFile == Abstract!Spec

====
