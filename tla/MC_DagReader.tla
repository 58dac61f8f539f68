---------------------------- MODULE MC_DagReader ----------------------------
(* Three files: no root data and leaves of two and one byte; a root     *)
(* byte and leaves of one and two; two root bytes and three one-byte     *)
(* leaves.  The first is a file node, also reached through a metadata    *)
(* node and through two; the second is a raw node; next to them are a   *)
(* directory, a symlink, a metadata node without links and a node of an  *)
(* unknown type, which open no reader.                                    *)
EXTENDS DagReader

Node(t, d, l, ls) == [type |-> t, data |-> d, leaves |-> l, links |-> ls]
F1 == Node("file", <<>>, <<<<1, 2>>, <<3>>>>, <<>>)
M1 == Node("metadata", <<>>, <<>>, <<F1>>)

MCNodes == {F1, M1, Node("metadata", <<>>, <<>>, <<M1>>),
            Node("raw", <<1>>, <<<<2>>, <<3, 4>>>>, <<>>),
            Node("file", <<1, 2>>, <<<<3>>, <<4>>, <<5>>>>, <<>>),
            Node("directory", <<>>, <<>>, <<F1>>), Node("symlink", <<1>>, <<>>, <<>>),
            Node("metadata", <<>>, <<>>, <<>>), Node("other", <<>>, <<>>, <<>>)}
MCOffsets == {-1, 0, 1, 2, 3, 4}
MCLens == {0, 1, 2}
====
