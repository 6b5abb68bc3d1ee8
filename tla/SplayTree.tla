------------------------------ MODULE SplayTree ------------------------------
(***************************************************************************)
(* The splay tree of include/uv/tree.h: SPLAY_INSERT, SPLAY_REMOVE,        *)
(* SPLAY_FIND, SPLAY_NEXT, SPLAY_MIN and SPLAY_MAX over the top-down loops *)
(* of SPLAY and SPLAY_MINMAX, one action per iteration.                    *)
(*                                                                         *)
(* A splay takes the tree apart: nodes found to be smaller hang below the  *)
(* right link of a scratch node, greater ones below its left link, and     *)
(* SPLAY_ASSEMBLE joins the parts.  The side, which the header writes out  *)
(* twice, is the parameter d.                                              *)
(***************************************************************************)
EXTENDS Integers, FiniteSets, Sequences, SequencesExt

CONSTANTS
  Nodes,
  Key,        \* the key of each node, compared by cmp
  NULL,
  STALE,      \* a field of a node that is not in the tree
  SCRATCH,    \* __node
  Pending     \* the result of a call that has not returned

ASSUME KeyAssumption ==
  /\ Key \in [Nodes -> Int]
  /\ {NULL, STALE, SCRATCH} \cap Nodes = {}
  /\ Pending \notin Nodes \cup {NULL}

\* All nodes are in memory.
ASSUME FiniteAssumption == IsFiniteSet(Nodes)

Dir == {"L", "R"}
Opp(d) == IF d = "L" THEN "R" ELSE "L"

VARIABLES
  tree,      \* [root, child]: the head, the entries of the nodes and of __node
  side,      \* __left (side["L"]) and __right: where the next node is hung
  pc,        \* "idle", or where in a call
  elm, tmp,  \* the locals of SPLAY_NEXT and of SPLAY_REMOVE
  call,      \* the call: operation, argument, result
  content    \* the nodes inserted and not removed, by the calls that returned

vars == <<tree, side, pc, elm, tmp, call, content>>

SetChild(t, n, d, m) == [t EXCEPT !.child[n][d] = m]

\* SPLAY_ROTATE_RIGHT (d = "L") and SPLAY_ROTATE_LEFT: the child of the root on
\* side d becomes the root.
RotateRoot(t, d) ==
  LET up == t.child[t.root][d]
      t1 == SetChild(t, t.root, d, t.child[up][Opp(d)])
  IN  [SetChild(t1, up, Opp(d), t.root) EXCEPT !.root = up]

\* Mutant: the root's own subtrees are overwritten before they are saved.
Assemble_LosesRight(t, s) ==
  LET t1 == SetChild(t, s["L"], "R", t.child[t.root]["L"])
      t2 == SetChild(t1, t.root, "L", t1.child[SCRATCH]["R"])
      t3 == SetChild(t2, t.root, "R", t2.child[SCRATCH]["L"])
  IN  SetChild(t3, s["R"], "L", t3.child[t3.root]["R"])

\* SPLAY_ASSEMBLE, with s the two places to hang the root's subtrees.
Assemble(t, s) ==
  LET t1 == SetChild(t, s["L"], "R", t.child[t.root]["L"])
      t2 == SetChild(t1, s["R"], "L", t1.child[t1.root]["R"])
      t3 == SetChild(t2, t.root, "L", t2.child[SCRATCH]["R"])
  IN  SetChild(t3, t.root, "R", t3.child[SCRATCH]["L"])

-----------------------------------------------------------------------------

NoCall == [op |-> "none", arg |-> NULL, ret |-> NULL]
NoSide == [d \in Dir |-> SCRATCH]

Init ==
  /\ tree = [root |-> NULL,
             child |-> [n \in Nodes \cup {SCRATCH} |->
                          [d \in Dir |-> IF n = SCRATCH THEN NULL ELSE STALE]]]
  /\ side = NoSide
  /\ pc = "idle" /\ elm = NULL /\ tmp = NULL
  /\ call = NoCall
  /\ content = {}

\* Every operation on a tree that is not empty starts with a splay.
Start(op, arg) ==
  /\ pc = "idle"
  /\ call' = [op |-> op, arg |-> arg, ret |-> Pending]
  /\ pc' = IF tree.root = NULL THEN "empty" ELSE "splay"
  /\ UNCHANGED <<tree, side, elm, tmp, content>>

CallInsert(n) == n \notin content /\ Start("insert", n)
CallRemove(n) == Start("remove", n)
CallFind(n) == Start("find", n)
CallNext(n) == n \in content /\ Start("next", n)
CallMinMax(op) == Start(op, NULL)

Return(r) ==
  /\ pc' = "idle"
  /\ call' = [call EXCEPT !.ret = r]
  /\ elm' = NULL /\ tmp' = NULL

\* The first node of an empty tree; the other operations return NULL.
ReturnEmpty ==
  /\ pc = "empty"
  /\ IF call.op = "insert"
       THEN /\ tree' = [tree EXCEPT !.root = call.arg,
                                    !.child[call.arg] = [d \in Dir |-> NULL]]
            /\ content' = {call.arg}
       ELSE UNCHANGED <<tree, content>>
  /\ Return(NULL)
  /\ UNCHANGED side

-----------------------------------------------------------------------------
(* SPLAY, towards the key of the argument, and SPLAY_MINMAX.               *)

Splaying == pc \in {"splay", "resplay"}

\* The side of n on which the loop goes on, or "here".
Comp(n) ==
  CASE call.op = "min" -> "L"
    [] call.op = "max" -> "R"
    [] OTHER -> IF Key[call.arg] = Key[n] THEN "here"
                ELSE IF Key[call.arg] < Key[n] THEN "L" ELSE "R"

\* The tree after the rotation, if the next two steps go to the same side.
Turned ==
  LET d == Comp(tree.root)
      t == tree.child[tree.root][d]
  IN  IF d # "here" /\ t # NULL /\ Comp(t) = d THEN RotateRoot(tree, d) ELSE tree

GoesOn ==
  LET d == Comp(tree.root) IN d # "here" /\ Turned.child[Turned.root][d] # NULL

\* Mutant: SPLAY_LINKLEFT and SPLAY_LINKRIGHT leave the root in place.
SplayStep_NoDescent ==
  /\ Splaying /\ GoesOn
  /\ LET d == Comp(tree.root) IN
       /\ tree' = SetChild(Turned, side[Opp(d)], d, Turned.root)
       /\ side' = side
  /\ UNCHANGED <<pc, elm, tmp, call, content>>

\* SPLAY_LINKLEFT (d = "L") and SPLAY_LINKRIGHT: the root, on the other side of
\* the key, is hung on the other part; its child is the new root.
SplayStep ==
  /\ Splaying /\ GoesOn
  /\ LET d == Comp(tree.root) IN
       /\ tree' = [SetChild(Turned, side[Opp(d)], d, Turned.root)
                     EXCEPT !.root = Turned.child[Turned.root][d]]
       /\ side' = [side EXCEPT ![Opp(d)] = Turned.root]
  /\ UNCHANGED <<pc, elm, tmp, call, content>>

\* Mutant: the loop stops without its last rotation.
SplayEnd_NoTurn ==
  /\ Splaying /\ ~GoesOn
  /\ tree' = [Assemble(tree, side) EXCEPT !.child[SCRATCH] = [d \in Dir |-> NULL]]
  /\ side' = NoSide
  /\ pc' = IF pc = "splay" THEN "splayed" ELSE "resplayed"
  /\ UNCHANGED <<elm, tmp, call, content>>

\* The key is at the root, or there is nothing more on its side.
SplayEnd ==
  /\ Splaying /\ ~GoesOn
  /\ tree' = [Assemble(Turned, side) EXCEPT !.child[SCRATCH] = [d \in Dir |-> NULL]]
  /\ side' = NoSide
  /\ pc' = IF pc = "splay" THEN "splayed" ELSE "resplayed"
  /\ UNCHANGED <<elm, tmp, call, content>>

-----------------------------------------------------------------------------
(* What the operations do with the splayed tree.                           *)

\* The new node takes the root's place, between the root and one subtree.
InsertRoot ==
  /\ pc = "splayed" /\ call.op = "insert" /\ Comp(tree.root) # "here"
  /\ LET d == Comp(tree.root)
         t1 == SetChild(tree, call.arg, d, tree.child[tree.root][d])
         t2 == SetChild(t1, call.arg, Opp(d), tree.root)
     IN  tree' = [SetChild(t2, tree.root, d, NULL) EXCEPT !.root = call.arg]
  /\ content' = content \cup {call.arg}
  /\ Return(NULL)
  /\ UNCHANGED side

\* SPLAY_FIND; and SPLAY_INSERT, when an equal key is there.
OnlyLooks == call.op = "find" \/ (call.op = "insert" /\ Comp(tree.root) = "here")

\* Mutant: any root is returned, also one with another key.
FindReturn_AnyRoot ==
  /\ pc = "splayed" /\ OnlyLooks
  /\ Return(tree.root)
  /\ UNCHANGED <<tree, side, content>>

FindReturn ==
  /\ pc = "splayed" /\ OnlyLooks
  /\ Return(IF Comp(tree.root) = "here" THEN tree.root ELSE NULL)
  /\ UNCHANGED <<tree, side, content>>

MinMaxReturn ==
  /\ pc = "splayed" /\ call.op \in {"min", "max"}
  /\ Return(tree.root)
  /\ UNCHANGED <<tree, side, content>>

\* SPLAY_NEXT goes right once from the node it was given, then left.
NextRight ==
  /\ pc = "splayed" /\ call.op = "next"
  /\ LET right == tree.child[call.arg]["R"] IN
       \/ right = NULL /\ Return(NULL)
       \/ /\ right # NULL
          /\ pc' = "down" /\ elm' = right
          /\ UNCHANGED <<tmp, call>>
  /\ UNCHANGED <<tree, side, content>>

NextDown ==
  /\ pc = "down"
  /\ LET left == tree.child[elm]["L"] IN
       \/ left = NULL /\ Return(elm)
       \/ left # NULL /\ elm' = left /\ UNCHANGED <<pc, tmp, call>>
  /\ UNCHANGED <<tree, side, content>>

\* Nothing has the key.
RemoveAbsent ==
  /\ pc = "splayed" /\ call.op = "remove" /\ Comp(tree.root) # "here"
  /\ Return(NULL)
  /\ UNCHANGED <<tree, side, content>>

\* The content without the node that has the key of the argument.
Others == {n \in content : Key[n] # Key[call.arg]}

\* The root is taken out and belongs to its owner again.
WithoutRoot(root) ==
  [tree EXCEPT !.root = root, !.child[tree.root] = [d \in Dir |-> STALE]]

RemoveRoot ==
  /\ pc = "splayed" /\ call.op = "remove" /\ Comp(tree.root) = "here"
  /\ tree.child[tree.root]["L"] = NULL
  /\ tree' = WithoutRoot(tree.child[tree.root]["R"])
  /\ content' = Others
  /\ Return(call.arg)
  /\ UNCHANGED side

\* With a left subtree: that is splayed towards the same key, which brings its
\* greatest node, without a right subtree, to the top.
RemoveSplit ==
  /\ pc = "splayed" /\ call.op = "remove" /\ Comp(tree.root) = "here"
  /\ tree.child[tree.root]["L"] # NULL
  /\ tmp' = tree.child[tree.root]["R"]
  /\ tree' = WithoutRoot(tree.child[tree.root]["L"])
  /\ pc' = "resplay"
  /\ UNCHANGED <<side, elm, call, content>>

RemoveJoin ==
  /\ pc = "resplayed"
  /\ tree' = SetChild(tree, tree.root, "R", tmp)
  /\ content' = Others
  /\ Return(call.arg)
  /\ UNCHANGED side

-----------------------------------------------------------------------------

Invoke ==
  \/ \E n \in Nodes : CallInsert(n) \/ CallRemove(n) \/ CallFind(n) \/ CallNext(n)
  \/ \E op \in {"min", "max"} : CallMinMax(op)

Work ==
  \/ ReturnEmpty \/ SplayStep \/ SplayEnd
  \/ InsertRoot \/ FindReturn \/ MinMaxReturn \/ NextRight \/ NextDown
  \/ RemoveAbsent \/ RemoveRoot \/ RemoveSplit \/ RemoveJoin

Next == Invoke \/ Work

Spec == Init /\ [][Next]_vars

\* A call runs to its end.
FairSpec == Spec /\ WF_vars(Work)

-----------------------------------------------------------------------------

\* The link that the next node will be hung on still leads elsewhere.
Open(n, d) == Splaying /\ n = side[Opp(d)]
Link(n, d) == IF Open(n, d) THEN NULL ELSE tree.child[n][d]

\* How deep a walk down the links may go before it must have met a node twice.
Fuel == 0 .. Cardinality(Nodes)

\* The nodes of the subtree of n from left to right.
InOrder(n) ==
  LET walk[k \in Fuel] ==
        [m \in Nodes \cup {NULL, STALE} |->
           IF m = NULL THEN <<>>
           ELSE IF m = STALE \/ k = 0 THEN <<m>>
           ELSE walk[k - 1][Link(m, "L")] \o <<m>> \o walk[k - 1][Link(m, "R")]]
  IN  walk[Cardinality(Nodes)][n]

\* The nodes of the pieces, from left to right: those set aside as smaller,
\* those below the root, the greater ones, and the right part of a removal.
Pieces ==
  InOrder(Link(SCRATCH, "R")) \o InOrder(tree.root) \o InOrder(Link(SCRATCH, "L"))
    \o InOrder(tmp)

\* The nodes the tree must hold while a call is under way.
Expected == IF pc \in {"resplay", "resplayed"} THEN Others ELSE content

\* The values the variables take.
TypeOK ==
  LET N0 == Nodes \cup {NULL} IN
  /\ tree.root \in N0
  /\ tree.child \in [Nodes \cup {SCRATCH} -> [Dir -> N0 \cup {STALE}]]
  /\ side \in [Dir -> Nodes \cup {SCRATCH}]
  /\ pc \in {"idle", "empty", "splay", "splayed", "resplay", "resplayed", "down"}
  /\ elm \in N0 /\ tmp \in N0
  /\ call.arg \in N0 /\ call.ret \in N0 \cup {Pending}
  /\ content \subseteq Nodes

\* No node is lost while the tree is in pieces, and no link leads to a removed
\* node.
HoldsContent == ToSet(Pieces) = Expected

\* The keys increase from left to right through all pieces: no node is in two
\* pieces, and they can be joined in this order.
SearchOrder ==
  LET s == Pieces IN \A i \in 1 .. Len(s) - 1 : Key[s[i]] < Key[s[i + 1]]

\* The shape of the tree, checked as one.
WellFormed == TypeOK /\ HoldsContent /\ SearchOrder

\* tree.h:160-162, "Moves node close to the key of elm to top": after a splay
\* no key of the tree lies between the root's and the one looked for, and
\* SPLAY_MINMAX brings the least or the greatest node up.
ClosestOnTop ==
  pc = "splayed" =>
    \A n \in content :
      CASE call.op = "min" -> Key[tree.root] <= Key[n]
        [] call.op = "max" -> Key[tree.root] >= Key[n]
        [] OTHER -> /\ Key[tree.root] <= Key[call.arg] =>
                         ~(Key[tree.root] < Key[n] /\ Key[n] <= Key[call.arg])
                    /\ Key[tree.root] >= Key[call.arg] =>
                         ~(Key[call.arg] <= Key[n] /\ Key[n] < Key[tree.root])

Set == INSTANCE OrderedSet WITH set <- content

\* Every call returns what an ordered set returns, and changes it as little.
IsOrderedSet == Set!Spec

\* Every call returns: each iteration leaves a smaller tree to look in.
CallsReturn == (pc # "idle") ~> (pc = "idle")

=============================================================================
