----------------------------- MODULE OrderedSet -----------------------------
(***************************************************************************)
(* What include/uv/tree.h promises its callers: a set of nodes ordered by  *)
(* a key, no two with equal keys.  A caller invokes one operation at a     *)
(* time; its result and its effect on the set come with the response.  A   *)
(* removal goes by the key: its argument may be another node with the key   *)
(* of the one that is taken out.                                            *)
(***************************************************************************)
EXTENDS Integers

CONSTANTS
  Nodes,
  Key,        \* the key of each node, compared by cmp
  NULL,
  Pending     \* the result of a call that has not returned

VARIABLES set, call

vars == <<set, call>>

NoCall == [op |-> "none", arg |-> NULL, ret |-> NULL]

Least(S) == IF S = {} THEN NULL ELSE CHOOSE n \in S : \A m \in S : Key[n] <= Key[m]
Greatest(S) == IF S = {} THEN NULL ELSE CHOOSE n \in S : \A m \in S : Key[n] >= Key[m]

Legal(op, n) ==
  \/ op \in {"min", "max"} /\ n = NULL
  \/ op \in {"find", "nfind", "remove"} /\ n \in Nodes
  \/ op = "insert" /\ n \in Nodes \ set
  \/ op \in {"next", "prev"} /\ n \in set

Result(op, n) ==
  CASE op \in {"insert", "find"} -> Least({m \in set : Key[m] = Key[n]})
    [] op = "nfind"  -> Least({m \in set : Key[m] >= Key[n]})
    [] op = "next"   -> Least({m \in set : Key[m] > Key[n]})
    [] op = "prev"   -> Greatest({m \in set : Key[m] < Key[n]})
    [] op = "min"    -> Least(set)
    [] op = "max"    -> Greatest(set)
    [] op = "remove" -> IF \E m \in set : Key[m] = Key[n] THEN n ELSE NULL

Init == set = {} /\ call = NoCall

Invoke(op, n) ==
  /\ call.ret # Pending
  /\ Legal(op, n)
  /\ call' = [op |-> op, arg |-> n, ret |-> Pending]
  /\ set' = set

Respond ==
  /\ call.ret = Pending
  /\ call' = [call EXCEPT !.ret = Result(call.op, call.arg)]
  /\ set' = IF call.op = "remove" THEN {m \in set : Key[m] # Key[call.arg]}
            ELSE IF call.op = "insert" /\ call'.ret = NULL THEN set \cup {call.arg}
            ELSE set

Ops == {"insert", "remove", "find", "nfind", "next", "prev", "min", "max"}

Next ==
  \/ \E op \in Ops, n \in Nodes \cup {NULL} : Invoke(op, n)
  \/ Respond

Spec == Init /\ [][Next]_vars

=============================================================================
