------------------------------- MODULE RbTree -------------------------------
(***************************************************************************)
(* The red-black tree of include/uv/tree.h: RB_INSERT, RB_REMOVE, RB_FIND, *)
(* RB_NFIND, RB_MIN, RB_MAX, RB_NEXT, RB_PREV and the RB_FOREACH loops.    *)
(*                                                                         *)
(* Each while loop of a macro is an action that runs one iteration, so the *)
(* state between two iterations is visible and loop invariants are         *)
(* invariants.  The header writes every case twice, once for the left side *)
(* and once for the right; here the side is a parameter d.  RB_AUGMENT is  *)
(* empty.  The fields of a node that is not in the tree are the caller's,  *)
(* who may free it: they hold STALE.                                       *)
(***************************************************************************)
EXTENDS Integers, FiniteSets, Sequences, SequencesExt

CONSTANTS
  Nodes,
  Key,        \* the key of each node, compared by cmp
  NULL,
  STALE,
  Pending     \* the result of a call that has not returned

ASSUME KeyAssumption ==
  /\ Key \in [Nodes -> Int] /\ NULL \notin Nodes /\ STALE \notin Nodes
  /\ Pending \notin Nodes \cup {NULL}

\* All nodes are in memory.
ASSUME FiniteAssumption == IsFiniteSet(Nodes)

Dir == {"L", "R"}
Opp(d) == IF d = "L" THEN "R" ELSE "L"

VARIABLES
  tree,      \* [root, child, parent, color]: the head and the entries of the nodes
  pc,        \* the loop that is running, "idle" between two calls
  elm, tmp, parent,   \* the locals of the macros
  call,      \* the call: operation, argument, result
  content,   \* the nodes inserted and not removed, by the calls that returned
  loop       \* the caller's RB_FOREACH loop: [at, d, x, y]

vars == <<tree, pc, elm, tmp, parent, call, content, loop>>

-----------------------------------------------------------------------------
(* The fields.                                                             *)

Left(t, n) == t.child[n]["L"]
Right(t, n) == t.child[n]["R"]

SetChild(t, n, d, m) == [t EXCEPT !.child[n][d] = m]
SetParent(t, n, m) == IF n = NULL THEN t ELSE [t EXCEPT !.parent[n] = m]
SetColor(t, n, c) == IF n = NULL THEN t ELSE [t EXCEPT !.color[n] = c]

RB_SET(t, n, p) ==
  [t EXCEPT !.parent[n] = p, !.child[n] = [d \in Dir |-> NULL], !.color[n] = "red"]

RB_SET_BLACKRED(t, black, red) == SetColor(SetColor(t, black, "black"), red, "red")

IsRed(t, n) == n # NULL /\ t.color[n] = "red"

\* The link that leads from p, or from the head, to n leads to m instead.
Replace(t, p, n, m) ==
  IF p = NULL THEN [t EXCEPT !.root = m]
  ELSE IF Left(t, p) = n THEN SetChild(t, p, "L", m)
  ELSE SetChild(t, p, "R", m)

\* RB_ROTATE_LEFT (d = "L") and RB_ROTATE_RIGHT: n goes down on side d.
Rotate(t, n, d) ==
  LET up == t.child[n][Opp(d)]
      t1 == SetChild(t, n, Opp(d), t.child[up][d])
      t2 == SetParent(t1, t.child[up][d], n)
      t3 == SetParent(t2, up, t.parent[n])
      t4 == Replace(t3, t.parent[n], n, up)
  IN  SetParent(SetChild(t4, up, d, n), n, up)

\* cmp: the side of m on which n is found.
Side(n, m) == IF Key[n] < Key[m] THEN "L" ELSE "R"

-----------------------------------------------------------------------------
(* Calls and returns.                                                      *)

NoCall == [op |-> "none", arg |-> NULL, ret |-> NULL]
NoLoop == [at |-> "off", d |-> "R", x |-> NULL, y |-> NULL]

Init ==
  /\ tree = [root |-> NULL,
             child |-> [n \in Nodes |-> [d \in Dir |-> STALE]],
             parent |-> [n \in Nodes |-> STALE],
             color |-> [n \in Nodes |-> "red"]]
  /\ pc = "idle"
  /\ elm = NULL /\ tmp = NULL /\ parent = NULL
  /\ call = NoCall
  /\ content = {}
  /\ loop = NoLoop

Locals(e, t, p) == elm' = e /\ tmp' = t /\ parent' = p

Start(op, arg, at) ==
  /\ pc = "idle"
  /\ call' = [op |-> op, arg |-> arg, ret |-> Pending]
  /\ pc' = at
  /\ UNCHANGED <<tree, content>>

Return(r) ==
  /\ pc' = "idle"
  /\ call' = [call EXCEPT !.ret = r]
  /\ Locals(NULL, NULL, NULL)
  /\ UNCHANGED loop

\* RB_INSERT, RB_FIND and RB_NFIND start at the root.
CallInsert(n) ==
  n \notin content /\ Start("insert", n, "insert") /\ Locals(n, tree.root, NULL)
CallFind(n) == Start("find", n, "find") /\ Locals(n, tree.root, NULL)
CallNfind(n) == Start("nfind", n, "nfind") /\ Locals(n, tree.root, NULL)

\* RB_MIN and RB_MAX.
MinMaxOp(d) == IF d = "L" THEN "min" ELSE "max"
CallMinMax(d) == Start(MinMaxOp(d), NULL, "minmax") /\ Locals(NULL, tree.root, NULL)

\* RB_NEXT (d = "R") and RB_PREV: down on side d if there is a subtree.
StepOp(d) == IF d = "R" THEN "next" ELSE "prev"
CallStep(n, d) ==
  IF tree.child[n][d] # NULL
    THEN Start(StepOp(d), n, "down") /\ Locals(tree.child[n][d], NULL, NULL)
    ELSE Start(StepOp(d), n, "up") /\ Locals(n, NULL, NULL)

\* RB_REMOVE: with two children the successor is looked for on the right.
CallRemove(n) ==
  IF Left(tree, n) # NULL /\ Right(tree, n) # NULL
    THEN Start("remove", n, "successor") /\ Locals(Right(tree, n), NULL, NULL)
    ELSE Start("remove", n, "unlink") /\ Locals(n, NULL, NULL)

StepDir == IF call.op = "next" THEN "R" ELSE "L"
MinMaxDir == IF call.op = "min" THEN "L" ELSE "R"

-----------------------------------------------------------------------------
(* RB_INSERT                                                               *)

InsertDescend ==
  /\ pc = "insert" /\ tmp # NULL /\ Key[elm] # Key[tmp]
  /\ Locals(elm, tree.child[tmp][Side(elm, tmp)], tmp)
  /\ UNCHANGED <<tree, pc, call, content, loop>>

\* An equal key is there already: the tree is not changed.
InsertFound ==
  /\ pc = "insert" /\ tmp # NULL /\ Key[elm] = Key[tmp]
  /\ Return(tmp)
  /\ UNCHANGED <<tree, content>>

InsertLink ==
  /\ pc = "insert" /\ tmp = NULL
  /\ LET t == RB_SET(tree, elm, parent) IN
       tree' = IF parent # NULL THEN SetChild(t, parent, Side(elm, parent), elm)
               ELSE [t EXCEPT !.root = elm]
  /\ pc' = "insert_color"
  /\ Locals(elm, NULL, NULL)
  /\ UNCHANGED <<call, content, loop>>

-----------------------------------------------------------------------------
(* RB_INSERT_COLOR: elm is red; the loop runs while its parent is red too. *)

ParentIsRed == IsRed(tree, tree.parent[elm])

\* A red uncle: recolour, and go on with the grandparent.
RecolorUncle ==
  /\ pc = "insert_color" /\ ParentIsRed
  /\ LET p == tree.parent[elm]
         g == tree.parent[p]
         d == IF p = Left(tree, g) THEN "L" ELSE "R"
         u == tree.child[g][Opp(d)]
     IN  /\ IsRed(tree, u)
         /\ tree' = RB_SET_BLACKRED(SetColor(tree, u, "black"), p, g)
         /\ elm' = g
  /\ UNCHANGED <<pc, tmp, parent, call, content, loop>>

\* A black uncle: one or two rotations, after which the loop ends.
RotateGrandparent ==
  /\ pc = "insert_color" /\ ParentIsRed
  /\ LET p == tree.parent[elm]
         g == tree.parent[p]
         d == IF p = Left(tree, g) THEN "L" ELSE "R"
         inner == tree.child[p][Opp(d)] = elm
         t == IF inner THEN Rotate(tree, p, d) ELSE tree
         top == IF inner THEN elm ELSE p
     IN  /\ ~IsRed(tree, tree.child[g][Opp(d)])
         /\ tree' = Rotate(RB_SET_BLACKRED(t, top, g), g, Opp(d))
         /\ elm' = IF inner THEN p ELSE elm
  /\ UNCHANGED <<pc, tmp, parent, call, content, loop>>

\* The root is made black, and RB_INSERT returns NULL.
InsertReturn ==
  /\ pc = "insert_color" /\ ~ParentIsRed
  /\ tree' = SetColor(tree, tree.root, "black")
  /\ content' = content \cup {call.arg}
  /\ Return(NULL)

-----------------------------------------------------------------------------
(* RB_REMOVE                                                               *)

\* A removed node is its caller's again.
Forget(t, n) ==
  [t EXCEPT !.parent[n] = STALE, !.child[n] = [d \in Dir |-> STALE], !.color[n] = "red"]

\* After the splice, with the colour c of the node whose place child takes:
\* RB_REMOVE_COLOR if it was black.
Recolor(t, c, child, p) ==
  IF c = "black"
    THEN /\ tree' = t
         /\ pc' = "remove_color" /\ Locals(child, NULL, p)
         /\ UNCHANGED <<call, content, loop>>
    ELSE /\ tree' = t
         /\ content' = content \ {call.arg}
         /\ Return(call.arg)

\* At most one child: it takes the place of elm.
Unlink ==
  /\ pc = "unlink"
  /\ LET child == IF Left(tree, elm) = NULL THEN Right(tree, elm) ELSE Left(tree, elm)
         p == tree.parent[elm]
         t == Replace(SetParent(tree, child, p), p, elm, child)
     IN  Recolor(Forget(t, elm), tree.color[elm], child, p)

FindSuccessor ==
  /\ pc = "successor" /\ Left(tree, elm) # NULL
  /\ elm' = Left(tree, elm)
  /\ UNCHANGED <<tree, pc, tmp, parent, call, content, loop>>

\* Mutant: the right subtree of the successor is dropped.
SpliceSuccessor_DropsChild ==
  /\ pc = "successor" /\ Left(tree, elm) = NULL
  /\ LET old == call.arg
         p == tree.parent[elm]
         t1 == Replace(tree, p, elm, NULL)
         t2 == [t1 EXCEPT !.child[elm] = t1.child[old], !.parent[elm] = t1.parent[old],
                          !.color[elm] = t1.color[old]]
         t3 == Replace(t2, t2.parent[old], old, elm)
         t4 == SetParent(SetParent(t3, Left(t3, old), elm), Right(t3, old), elm)
     IN  Recolor(Forget(t4, old), tree.color[elm], NULL, IF p = old THEN elm ELSE p)

\* Two children: the successor, elm, is unlinked and takes the place of old,
\* with its links and its colour.
SpliceSuccessor ==
  /\ pc = "successor" /\ Left(tree, elm) = NULL
  /\ LET old == call.arg
         child == Right(tree, elm)
         p == tree.parent[elm]
         t1 == Replace(SetParent(tree, child, p), p, elm, child)
         t2 == [t1 EXCEPT !.child[elm] = t1.child[old], !.parent[elm] = t1.parent[old],
                          !.color[elm] = t1.color[old]]
         t3 == Replace(t2, t2.parent[old], old, elm)
         t4 == SetParent(SetParent(t3, Left(t3, old), elm), Right(t3, old), elm)
     IN  Recolor(Forget(t4, old), tree.color[elm], child, IF p = old THEN elm ELSE p)

-----------------------------------------------------------------------------
(* RB_REMOVE_COLOR: the paths through elm, below parent, lack one black.   *)

LacksBlack == pc = "remove_color" /\ ~IsRed(tree, elm) /\ elm # tree.root

\* The side of elm; its sibling, after the rotation that makes it black; and
\* the tree after that rotation.
Deficit == IF Left(tree, parent) = elm THEN "L" ELSE "R"

RotatedTree ==
  LET s == tree.child[parent][Opp(Deficit)]
  IN  IF IsRed(tree, s)
        THEN Rotate(RB_SET_BLACKRED(tree, s, parent), parent, Deficit)
        ELSE tree

Sibling == RotatedTree.child[parent][Opp(Deficit)]

\* Mutant: the loop ends after one step.
RecolorSibling_Once ==
  /\ LacksBlack
  /\ ~IsRed(RotatedTree, Left(RotatedTree, Sibling))
  /\ ~IsRed(RotatedTree, Right(RotatedTree, Sibling))
  /\ tree' = SetColor(RotatedTree, Sibling, "red")
  /\ Locals(RotatedTree.root, NULL, NULL)
  /\ UNCHANGED <<pc, call, content, loop>>

\* Both children of the sibling black: it turns red, go on with the parent.
RecolorSibling ==
  /\ LacksBlack
  /\ ~IsRed(RotatedTree, Left(RotatedTree, Sibling))
  /\ ~IsRed(RotatedTree, Right(RotatedTree, Sibling))
  /\ tree' = SetColor(RotatedTree, Sibling, "red")
  /\ Locals(parent, NULL, RotatedTree.parent[parent])
  /\ UNCHANGED <<pc, call, content, loop>>

\* Otherwise a rotation about the parent repairs all paths, and the loop ends
\* with elm = root.
RotateParent ==
  /\ LacksBlack
  /\ LET d == Deficit
         near == RotatedTree.child[Sibling][d]
         far == RotatedTree.child[Sibling][Opp(d)]
         t == IF IsRed(RotatedTree, far) THEN RotatedTree
              ELSE Rotate(SetColor(SetColor(RotatedTree, near, "black"), Sibling, "red"),
                          Sibling, Opp(d))
         s == t.child[parent][Opp(d)]
         t1 == SetColor(SetColor(t, s, t.color[parent]), parent, "black")
         t2 == Rotate(SetColor(t1, t1.child[s][Opp(d)], "black"), parent, d)
     IN  /\ IsRed(RotatedTree, near) \/ IsRed(RotatedTree, far)
         /\ tree' = t2
         /\ Locals(t2.root, NULL, parent)
  /\ UNCHANGED <<pc, call, content, loop>>

RemoveReturn ==
  /\ pc = "remove_color" /\ ~LacksBlack
  /\ tree' = SetColor(tree, elm, "black")
  /\ content' = content \ {call.arg}
  /\ Return(call.arg)

-----------------------------------------------------------------------------
(* The operations that only read.                                          *)

FindDescend ==
  /\ pc = "find" /\ tmp # NULL /\ Key[elm] # Key[tmp]
  /\ tmp' = tree.child[tmp][Side(elm, tmp)]
  /\ UNCHANGED <<tree, pc, elm, parent, call, content, loop>>

FindReturn ==
  /\ pc = "find"
  /\ tmp # NULL => Key[elm] = Key[tmp]
  /\ Return(tmp)
  /\ UNCHANGED <<tree, content>>

\* Mutant: res is every node passed, also the smaller ones.
NfindDescend_KeepsLast ==
  /\ pc = "nfind" /\ tmp # NULL /\ Key[elm] # Key[tmp]
  /\ tmp' = tree.child[tmp][Side(elm, tmp)]
  /\ parent' = tmp
  /\ UNCHANGED <<tree, pc, elm, call, content, loop>>

\* RB_NFIND; parent stands for res, the last node found to be greater.
NfindDescend ==
  /\ pc = "nfind" /\ tmp # NULL /\ Key[elm] # Key[tmp]
  /\ tmp' = tree.child[tmp][Side(elm, tmp)]
  /\ parent' = IF Side(elm, tmp) = "L" THEN tmp ELSE parent
  /\ UNCHANGED <<tree, pc, elm, call, content, loop>>

NfindReturn ==
  /\ pc = "nfind"
  /\ \/ tmp = NULL /\ Return(parent)
     \/ tmp # NULL /\ Key[elm] = Key[tmp] /\ Return(tmp)
  /\ UNCHANGED <<tree, content>>

\* Mutant: the loop does not go down.
MinMaxDescend_Stays ==
  /\ pc = "minmax" /\ tmp # NULL
  /\ Locals(NULL, tmp, tmp)
  /\ UNCHANGED <<tree, pc, call, content, loop>>

\* RB_MINMAX
MinMaxDescend ==
  /\ pc = "minmax" /\ tmp # NULL
  /\ Locals(NULL, tree.child[tmp][MinMaxDir], tmp)
  /\ UNCHANGED <<tree, pc, call, content, loop>>

MinMaxReturn ==
  /\ pc = "minmax" /\ tmp = NULL
  /\ Return(parent)
  /\ UNCHANGED <<tree, content>>

\* RB_NEXT and RB_PREV, in the subtree: as far as possible to the other side.
StepDown ==
  /\ pc = "down"
  /\ LET m == tree.child[elm][Opp(StepDir)] IN
       \/ /\ m # NULL
          /\ elm' = m
          /\ UNCHANGED <<pc, tmp, parent, call, loop>>
       \/ m = NULL /\ Return(elm)
  /\ UNCHANGED <<tree, content>>

\* Mutant: the parent, whichever child elm is.
StepUp_Parent ==
  /\ pc = "up"
  /\ Return(tree.parent[elm])
  /\ UNCHANGED <<tree, content>>

\* Without a subtree: up, as long as elm is the child on side d.
StepUp ==
  /\ pc = "up"
  /\ LET p == tree.parent[elm] IN
       \/ /\ p # NULL /\ tree.child[p][StepDir] = elm
          /\ elm' = p
          /\ UNCHANGED <<pc, tmp, parent, call, loop>>
       \/ /\ p # NULL => tree.child[p][StepDir] # elm
          /\ Return(p)
  /\ UNCHANGED <<tree, content>>

-----------------------------------------------------------------------------
(* The caller's loop: RB_FOREACH_SAFE and RB_FOREACH_REVERSE_SAFE (d is    *)
(* the direction), and the loops FROM a node.  y is the next node, read    *)
(* before the body; the body may remove x.                                 *)

Foreach(d) ==
  /\ loop.at = "off"
  /\ CallMinMax(Opp(d))
  /\ loop' = [at |-> "first", d |-> d, x |-> NULL, y |-> NULL]

ForeachFrom(d, n) ==
  /\ loop.at = "off" /\ n \in content
  /\ CallStep(n, d)
  /\ loop' = [at |-> "next", d |-> d, x |-> n, y |-> NULL]

\* x is the result of RB_MIN or of the previous RB_NEXT; NULL ends the loop.
Visit(x) ==
  IF x = NULL
    THEN loop' = NoLoop /\ UNCHANGED <<tree, pc, elm, tmp, parent, call, content>>
    ELSE CallStep(x, loop.d) /\ loop' = [loop EXCEPT !.at = "next", !.x = x]

ForeachFirst == pc = "idle" /\ loop.at = "first" /\ Visit(call.ret)

ForeachBody ==
  /\ pc = "idle" /\ loop.at = "next"
  /\ loop' = [loop EXCEPT !.at = "body", !.y = call.ret]
  /\ UNCHANGED <<tree, pc, elm, tmp, parent, call, content>>

ForeachRemove ==
  /\ pc = "idle" /\ loop.at = "body" /\ loop.x \in content
  /\ CallRemove(loop.x)
  /\ UNCHANGED loop

ForeachNext == pc = "idle" /\ loop.at = "body" /\ Visit(loop.y)

-----------------------------------------------------------------------------

Invoke ==
  /\ loop.at = "off"
  /\ \/ \E n \in Nodes : CallInsert(n) \/ CallFind(n) \/ CallNfind(n)
     \/ \E n \in content : CallRemove(n) \/ \E d \in Dir : CallStep(n, d)
     \/ \E d \in Dir : CallMinMax(d)
  /\ UNCHANGED loop

Work ==
  \/ InsertDescend \/ InsertFound \/ InsertLink
  \/ RecolorUncle \/ RotateGrandparent \/ InsertReturn
  \/ Unlink \/ FindSuccessor \/ SpliceSuccessor
  \/ RecolorSibling \/ RotateParent \/ RemoveReturn
  \/ FindDescend \/ FindReturn \/ NfindDescend \/ NfindReturn
  \/ MinMaxDescend \/ MinMaxReturn \/ StepDown \/ StepUp

Iterate ==
  \/ \E d \in Dir : Foreach(d) \/ \E n \in Nodes : ForeachFrom(d, n)
  \/ ForeachFirst \/ ForeachBody \/ ForeachRemove \/ ForeachNext

Next == Invoke \/ Work \/ Iterate

Spec == Init /\ [][Next]_vars

-----------------------------------------------------------------------------

\* How deep a walk down the links may go before it must have met a node twice.
Fuel == 0 .. Cardinality(Nodes)

\* The nodes of the subtree of n from left to right.
InOrder(n) ==
  LET walk[k \in Fuel] ==
        [m \in Nodes \cup {NULL, STALE} |->
           IF m = NULL THEN <<>>
           ELSE IF m = STALE \/ k = 0 THEN <<m>>
           ELSE walk[k - 1][Left(tree, m)] \o <<m>> \o walk[k - 1][Right(tree, m)]]
  IN  walk[Cardinality(Nodes)][n]

InTree == ToSet(InOrder(tree.root))

\* The nodes the tree must hold while a call is under way.
Expected ==
  IF pc = "insert_color" THEN content \cup {call.arg}
  ELSE IF pc = "remove_color" THEN content \ {call.arg}
  ELSE content

\* The values the variables take.
TypeOK ==
  LET N0 == Nodes \cup {NULL} IN
  /\ tree.root \in N0
  /\ tree.child \in [Nodes -> [Dir -> N0 \cup {STALE}]]
  /\ tree.parent \in [Nodes -> N0 \cup {STALE}]
  /\ tree.color \in [Nodes -> {"red", "black"}]
  /\ pc \in {"idle", "insert", "insert_color", "unlink", "successor", "remove_color",
              "find", "nfind", "minmax", "down", "up"}
  /\ elm \in N0 /\ tmp \in N0 /\ parent \in N0
  /\ call.arg \in N0 /\ call.ret \in N0 \cup {Pending}
  /\ content \subseteq Nodes
  /\ loop \in [at : {"off", "first", "next", "body"}, d : Dir, x : N0, y : N0]

\* No node is lost and none comes back: between two steps of every loop the
\* tree holds what was inserted and not removed, and no link leads to a node
\* that is out of the tree, whose memory its owner may have freed.
HoldsContent == InTree = Expected

\* Child links and parent links agree, through every rotation and splice.
WellLinked ==
  /\ tree.root # NULL => tree.parent[tree.root] = NULL
  /\ \A n \in InTree : \A d \in Dir :
       tree.child[n][d] # NULL => tree.parent[tree.child[n][d]] = n

\* The keys increase from left to right, and no node occurs twice.
SearchOrder ==
  LET s == InOrder(tree.root) IN \A i \in 1 .. Len(s) - 1 : Key[s[i]] < Key[s[i + 1]]

\* The shape of the tree, checked as one.
WellFormed == TypeOK /\ HoldsContent /\ WellLinked /\ SearchOrder

\* While RB_REMOVE_COLOR runs, the paths through elm lack one black node.
Lacks(m, d) ==
  /\ pc = "remove_color" /\ elm # tree.root
  /\ m = parent /\ d = Deficit

\* The numbers of black nodes on the paths down from n.
BlackCounts(n) ==
  LET counts[k \in Fuel] ==
        [m \in Nodes \cup {NULL} |->
           IF m = NULL \/ k = 0 THEN {0}
           ELSE {c + (IF IsRed(tree, m) THEN 0 ELSE 1) :
                   c \in UNION {{b + (IF Lacks(m, d) THEN 1 ELSE 0) :
                                  b \in counts[k - 1][tree.child[m][d]]} : d \in Dir}}]
  IN  counts[Cardinality(Nodes)][n]

\* tree.h:53-58: every path from the root to a leaf has the same number of
\* black nodes, and a red node has a black parent.  In RB_INSERT_COLOR only
\* elm may have a red parent; in RB_REMOVE_COLOR only the paths through elm
\* lack a black node, exactly one, and only elm and its children may be red
\* below a red parent.
RedBlack ==
  /\ Cardinality(BlackCounts(tree.root)) = 1
  /\ \A n \in InTree :
       IsRed(tree, n) /\ IsRed(tree, tree.parent[n]) =>
         \/ pc = "insert_color" /\ n = elm
         \/ pc = "remove_color" /\ elm \in {n, tree.parent[n]}
  /\ pc \notin {"insert_color", "remove_color"} => ~IsRed(tree, tree.root)

\* The node a safe loop will visit next stays the right one when the body has
\* removed x and the tree was rebalanced (RB_FOREACH_SAFE, tree.h:748-751).
SafeCursor ==
  loop.at = "body" =>
    LET Ahead(n) == IF loop.d = "R" THEN Key[n] > Key[loop.x] ELSE Key[n] < Key[loop.x]
        ahead == {n \in content : Ahead(n)}
    IN  IF loop.y = NULL THEN ahead = {}
        ELSE /\ loop.y \in ahead
             /\ \A n \in ahead \ {loop.y} :
                  IF loop.d = "R" THEN Key[n] > Key[loop.y] ELSE Key[n] < Key[loop.y]

Set == INSTANCE OrderedSet WITH set <- content

\* Every call returns what an ordered set returns.
IsOrderedSet == Set!Spec

\* How many nodes lie above n.
Depth(n) == Cardinality({m \in InTree : m # n /\ n \in ToSet(InOrder(m))})

\* What is still ahead of the loop that runs.
Variant ==
  CASE pc \in {"insert", "find", "nfind", "minmax"} -> Len(InOrder(tmp))
    [] pc \in {"down", "successor"} -> Len(InOrder(elm))
    [] pc = "up" -> Depth(elm)
    [] pc = "insert_color" -> IF ParentIsRed THEN Depth(elm) ELSE 0
    [] pc = "remove_color" -> IF LacksBlack THEN 1 + Depth(parent) ELSE 0
    [] OTHER -> 0

\* Every loop ends: an iteration that does not end it has less ahead of it, so
\* that the fix-up loops run at most once for each level of the tree.
LoopsEnd == [][pc # "idle" /\ pc' = pc => Variant' < Variant]_vars

=============================================================================
