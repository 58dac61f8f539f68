----------------------------- MODULE ByteString -----------------------------
(***************************************************************************)
(* Byte strings as sequences of naturals, 0 being the zero byte, and the  *)
(* in-place write, resize and read of a file's bytes that the unixfs DAG  *)
(* code performs on DAG leaves.  Offsets are 0-based as in Go.            *)
(***************************************************************************)
EXTENDS Integers, Sequences

\* n zero bytes.
Zeros(n) == [i \in 1..n |-> 0]

\* s with b written from offset off (0-based), zero-filling any gap.
Overwrite(s, off, b) ==
  LET n == IF off + Len(b) > Len(s) THEN off + Len(b) ELSE Len(s)
  IN  [i \in 1..n |-> IF off < i /\ i <= off + Len(b) THEN b[i - off]
                      ELSE IF i <= Len(s) THEN s[i] ELSE 0]

\* s cut or zero-extended to length n.
Resize(s, n) == IF n <= Len(s) THEN SubSeq(s, 1, n) ELSE s \o Zeros(n - Len(s))

\* The bytes a read of up to n bytes at offset p returns.
ReadAt(s, p, n) == IF p >= Len(s) THEN <<>>
                   ELSE SubSeq(s, p + 1, IF p + n < Len(s) THEN p + n ELSE Len(s))

====
