----------------------------- MODULE MCSplayTree -----------------------------
(* Small instances of SplayTree for TLC: the keys are the nodes' own        *)
(* numbers, but the last node has the key of node 2.                       *)
EXTENDS SplayTree

CONSTANT N

MCNodes == 1 .. N
MCKey == [n \in MCNodes |-> IF n = N THEN 2 ELSE n]
=============================================================================
