---------------------------- MODULE MC_Supernode ----------------------------
(* Model-checking instance of Supernode: one key, two peers, and the     *)
(* provider lists Client.Provide sends plus ones naming a third party    *)
(* or the sender twice.                                                   *)
EXTENDS Supernode, TLC

CONSTANTS p1, p2

MCPeers == {p1, p2}
MCLists == {<<p1>>, <<p2>>, <<p2, p1>>, <<p1, p1>>}
====
