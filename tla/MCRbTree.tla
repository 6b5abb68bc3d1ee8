------------------------------ MODULE MCRbTree ------------------------------
(* A small instance of RbTree for TLC, with two callers.  One makes every   *)
(* call and runs every loop on up to six keys, with a node that has the key *)
(* of node 2.  The other only inserts and removes, but on ten keys: the     *)
(* trees in which RB_REMOVE_COLOR climbs before it rotates have that many.  *)
EXTENDS RbTree

CONSTANT SmallKeys, LargeKeys

Twin == LargeKeys + 1
MCNodes == 1 .. Twin
MCKey == [n \in MCNodes |-> IF n = Twin THEN 2 ELSE n]

VARIABLE caller   \* "any" or "updates"

MCInit == Init /\ caller \in {"any", "updates"}

MCNext ==
  /\ \/ Work
     \/ /\ caller = "any"
        /\ Invoke \/ Iterate
        /\ call'.arg \in 1 .. SmallKeys \cup {Twin, NULL}
     \/ /\ caller = "updates" /\ UNCHANGED loop
        /\ \E n \in 1 .. LargeKeys :
             CallInsert(n) \/ (n \in content /\ CallRemove(n))
  /\ UNCHANGED caller

MCSpec == MCInit /\ [][MCNext]_<<vars, caller>>
=============================================================================
