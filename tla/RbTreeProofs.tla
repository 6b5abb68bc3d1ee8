----------------------------- MODULE RbTreeProofs -----------------------------
(***************************************************************************)
(* Proofs about RbTree, for any nodes and any keys: the red-black tree of  *)
(* tree.h stays a search tree with its colours right, whatever is done to  *)
(* it, implements OrderedSet, and each of its loops ends.                  *)
(*                                                                         *)
(* What a walk down the links finds, and how many black nodes it passes,   *)
(* needs induction.  The invariant speaks of sub and bh, which give every  *)
(* node a set of nodes and a number that are right for its children:       *)
(* itself and theirs, and one more than theirs if it is black.  A step of  *)
(* a loop changes sub and bh as it changes the links and the colours.  The *)
(* last parts show that the walk then finds sub, that the count is bh, and *)
(* that an iteration leaves fewer nodes below or above.                    *)
(***************************************************************************)
EXTENDS RbTree, FiniteSetTheorems, WellFoundedInduction, TLAPS

-----------------------------------------------------------------------------
(* Search trees.                                                           *)

\* A node or none.
N0 == Nodes \cup {NULL}

\* What a link holds.
Links == N0 \cup {STALE}

\* The two colours.
Colors == {"red", "black"}

\* The values of tree.
Trees == [root : N0, child : [Nodes -> [Dir -> Links]], parent : [Nodes -> Links],
          color : [Nodes -> Colors]]

\* m is on side d of n.
Before(d, m, n) == IF d = "L" THEN Key[m] < Key[n] ELSE Key[n] < Key[m]

\* The nodes of the tree below n.
Under(sub, n) == IF n = NULL THEN {} ELSE sub[n]

\* The children of n: nodes of X, or none, that know n, each on its side.
KidsAreRight(t, sub, X, n) ==
  \A d \in Dir :
    /\ t.child[n][d] \in X \cup {NULL}
    /\ t.child[n][d] # NULL => t.parent[t.child[n][d]] = n
    /\ \A m \in Under(sub, t.child[n][d]) : Before(d, m, n)

\* sub has the nodes below n: n, and those below its children; nothing that is
\* not below n lies between two of them.
SubIsRight(t, sub, X, n) ==
  /\ \A m \in Nodes : m \in sub[n] <=> (m = n \/ \E d \in Dir : m \in Under(sub, t.child[n][d]))
  /\ \A m \in sub[n] :
       /\ m \in X /\ sub[m] \subseteq sub[n]
       /\ m = n \/ t.parent[m] \in sub[n]
  /\ \A m \in sub[n], k \in X : k \in sub[n] \/ (Key[k] < Key[m] <=> Key[k] < Key[n])

\* n is the root or a child of its parent.
ParentIsRight(t, X, n) ==
  \/ n = t.root /\ t.parent[n] = NULL
  \/ t.parent[n] \in X /\ \E d \in Dir : t.child[t.parent[n]][d] = n

\* t is a search tree of the nodes X, with no two equal keys, and sub has the
\* nodes of each subtree.
Tree(t, sub, X) ==
  /\ t \in Trees /\ sub \in [Nodes -> SUBSET Nodes] /\ X \in SUBSET Nodes
  /\ t.root \in X \cup {NULL} /\ X = Under(sub, t.root)
  /\ t.root # NULL => t.parent[t.root] = NULL
  /\ \A n \in X : KidsAreRight(t, sub, X, n) /\ SubIsRight(t, sub, X, n) /\ ParentIsRight(t, X, n)
  /\ \A n, m \in X : Key[n] = Key[m] => n = m

-----------------------------------------------------------------------------
(* Colours.                                                                *)

\* The black nodes on a path down from n; bh has those of the nodes.
Height(bh, n) == IF n = NULL THEN 0 ELSE bh[n]

\* What n itself adds to them.
Own(t, n) == IF t.color[n] = "red" THEN 0 ELSE 1

\* The black node that the paths lack that leave q on side f.
Missing(q, f, n, d) == IF n = q /\ d = f THEN 1 ELSE 0

\* On all paths down from a node of X there are as many black nodes, but for
\* one that is lacking below q on side f.
Balanced(t, bh, X, q, f) ==
  /\ bh \in [Nodes -> Nat]
  /\ \A n \in X, d \in Dir :
       bh[n] = Own(t, n) + Height(bh, t.child[n][d]) + Missing(q, f, n, d)

\* A red node has a black parent, unless it is one of E.
RedsApart(t, X, E) == \A n \in X : IsRed(t, n) /\ IsRed(t, t.parent[n]) => n \in E

\* A tree with all this, and a black root.
Standing(t, sub, bh, X) ==
  /\ Tree(t, sub, X)
  /\ Balanced(t, bh, X, NULL, "L")
  /\ RedsApart(t, X, {})
  /\ ~IsRed(t, t.root)

\* RB_INSERT_COLOR: e is red, and nothing else is wrong.
Reddened(t, sub, bh, X, e) ==
  /\ Tree(t, sub, X)
  /\ Balanced(t, bh, X, NULL, "L")
  /\ e \in X /\ IsRed(t, e)
  /\ RedsApart(t, X, {e})
  /\ IsRed(t, t.root) => t.root = e

\* The side of q on which e is.
SideOf(t, q, e) == IF Left(t, q) = e THEN "L" ELSE "R"

\* RB_REMOVE_COLOR: the paths through e, which is a child of q, lack a black
\* node, unless e is the root.
Lacking(t, sub, bh, X, e, q) ==
  /\ Tree(t, sub, X)
  /\ e \in X \cup {NULL}
  /\ IF e = t.root THEN Balanced(t, bh, X, NULL, "L")
     ELSE /\ q \in X /\ t.child[q][SideOf(t, q, e)] = e
          /\ Balanced(t, bh, X, q, SideOf(t, q, e))
  /\ RedsApart(t, X, {n \in X : e \in {n, t.parent[n]}})
  /\ IsRed(t, t.root) => t.root = e

-----------------------------------------------------------------------------
(* The invariant.                                                          *)

\* No loop is changing the tree.
Quiet == pc \notin {"insert_color", "remove_color"}

\* RB_INSERT goes down to where elm belongs: no node is between it and parent
\* but those below tmp.
Inserting(sub) ==
  /\ elm = call.arg
  /\ tmp \in content \cup {NULL} /\ parent \in content \cup {NULL}
  /\ tmp = IF parent = NULL THEN tree.root ELSE tree.child[parent][Side(elm, parent)]
  /\ parent # NULL => Key[parent] # Key[elm]
  /\ \A m \in content :
       \/ m \in Under(sub, tmp) \/ m = parent
       \/ parent # NULL /\ Key[m] # Key[elm] /\ (Key[m] < Key[elm] <=> Key[m] < Key[parent])

\* RB_FIND: a node with the key can only be below tmp.
Finding(sub) ==
  /\ elm = call.arg
  /\ tmp \in content \cup {NULL}
  /\ \A m \in content : m \in Under(sub, tmp) \/ Key[m] # Key[elm]

\* RB_NFIND: parent is the least of the nodes with no smaller key that are not
\* below tmp.
NFinding(sub) ==
  /\ elm = call.arg
  /\ tmp \in content \cup {NULL} /\ parent \in content \cup {NULL}
  /\ parent # NULL => Key[elm] < Key[parent]
  /\ \A m \in Under(sub, tmp) : parent = NULL \/ Key[m] < Key[parent]
  /\ \A m \in content :
       \/ m \in Under(sub, tmp) \/ Key[m] < Key[elm]
       \/ parent # NULL /\ Key[parent] <= Key[m]

\* RB_MINMAX: parent is the last of the nodes that are not below tmp.
MinMaxing(sub) ==
  /\ tmp \in content \cup {NULL} /\ parent \in content \cup {NULL}
  /\ \A m \in Under(sub, tmp) : parent = NULL \/ Before(MinMaxDir, m, parent)
  /\ \A m \in content :
       \/ m \in Under(sub, tmp) \/ m = parent
       \/ parent # NULL /\ Before(MinMaxDir, parent, m)

\* RB_NEXT in the subtree, and the search of RB_REMOVE for the successor: the
\* next node on side d of n is elm or below it.
Descending(sub, n, d) ==
  /\ elm \in content
  /\ \A m \in sub[elm] : Before(d, m, n)
  /\ \A m \in content : Before(d, m, n) => m \in sub[elm] \/ Before(d, m, elm)

\* RB_NEXT up the tree: there is no node on side d of n below elm.
Ascending(sub, n, d) ==
  /\ elm \in content /\ n \in sub[elm]
  /\ \A m \in sub[elm] : ~Before(d, m, n)

\* What holds where no loop changes the tree.
PlaceIsRight(sub) ==
  /\ pc = "insert" => Inserting(sub)
  /\ pc = "find" => Finding(sub)
  /\ pc = "nfind" => NFinding(sub)
  /\ pc = "minmax" => MinMaxing(sub)
  /\ pc = "down" => Descending(sub, call.arg, StepDir)
  /\ pc = "up" => Ascending(sub, call.arg, StepDir)
  /\ pc = "successor" =>
       Left(tree, call.arg) # NULL /\ Right(tree, call.arg) # NULL
       /\ elm \in sub[Right(tree, call.arg)]
       /\ Descending(sub, call.arg, "R")
  /\ pc = "unlink" =>
       elm = call.arg /\ (Left(tree, elm) = NULL \/ Right(tree, elm) = NULL)

\* What holds of the links and the colours, with sub and bh as the witnesses.
ShapeIs(sub, bh) ==
  /\ Quiet => Standing(tree, sub, bh, content) /\ PlaceIsRight(sub)
  /\ pc = "insert_color" => Reddened(tree, sub, bh, content \cup {call.arg}, elm)
  /\ pc = "remove_color" => Lacking(tree, sub, bh, content \ {call.arg}, elm, parent)

\* Some sets and numbers witness the shape.
Shaped == \E sub, bh : ShapeIs(sub, bh)

\* The operations, and none.
Ops == {"none", "insert", "remove", "find", "nfind", "min", "max", "next", "prev"}

\* Which calls there are, and where in them.
CallInv ==
  /\ pc \in {"idle", "insert", "insert_color", "unlink", "successor", "remove_color",
              "find", "nfind", "minmax", "down", "up"}
  /\ elm \in N0 /\ tmp \in N0 /\ parent \in N0 /\ content \in SUBSET Nodes
  /\ call \in [op : Ops, arg : N0, ret : N0 \cup {Pending}]
  /\ pc = "idle" <=> call.ret # Pending
  /\ pc \in {"insert", "insert_color"} =>
       call.op = "insert" /\ call.arg \in Nodes /\ call.arg \notin content
  /\ pc = "find" => call.op = "find" /\ call.arg \in Nodes
  /\ pc = "nfind" => call.op = "nfind" /\ call.arg \in Nodes
  /\ pc = "minmax" => call.op \in {"min", "max"}
  /\ pc \in {"down", "up"} => call.op \in {"next", "prev"} /\ call.arg \in content
  /\ pc \in {"successor", "unlink", "remove_color"} =>
       call.op = "remove" /\ call.arg \in content

\* No two nodes of the set have equal keys.
Distinct == \A n, m \in content : Key[n] = Key[m] => n = m

\* y is the first node of S on side d of x.
IsNext(S, d, x, y) ==
  IF y = NULL THEN \A n \in S : ~Before(d, n, x)
  ELSE /\ y \in S /\ Before(d, y, x)
       /\ \A n \in S : Before(d, n, x) => n = y \/ Before(d, n, y)

\* Where in the caller's loop.
LoopInv ==
  /\ loop \in [at : {"off", "first", "next", "body"}, d : Dir, x : N0, y : N0]
  /\ loop.at = "first" =>
       call.op \in {"min", "max"} /\ (pc = "idle" => call.ret \in content \cup {NULL})
  /\ loop.at = "next" =>
       /\ loop.x \in content /\ call.op = StepOp(loop.d) /\ call.arg = loop.x
       /\ pc = "idle" => IsNext(content, loop.d, loop.x, call.ret)
  /\ loop.at = "body" =>
       /\ loop.x \in Nodes /\ IsNext(content, loop.d, loop.x, loop.y)
       /\ pc # "idle" => call.op = "remove" /\ call.arg = loop.x

\* The inductive invariant.
RInv == CallInv /\ Distinct /\ LoopInv /\ Shaped

-----------------------------------------------------------------------------
(* Nodes, sides and fields.                                                *)

\* What these sets have in common.
LEMMA SetsAre ==
  /\ NULL \notin Nodes /\ STALE \notin Nodes /\ NULL \in N0 /\ Nodes \subseteq N0
  /\ N0 \subseteq Links /\ STALE \in Links
  /\ \A x \in N0 : x \in Nodes \/ x = NULL
  BY KeyAssumption DEF Links, N0

\* The other side.
LEMMA OppIs ==
  /\ \A d \in Dir : Opp(d) \in Dir /\ Opp(d) # d /\ Opp(Opp(d)) = d
  /\ \A d, e \in Dir : e = d \/ e = Opp(d)
  BY DEF Opp, Dir

\* The two sides.
LEMMA SidesAre ==
  /\ "L" \in Dir /\ "R" \in Dir /\ Opp("L") = "R" /\ Opp("R") = "L"
  /\ \A d \in Dir : d = "L" \/ d = "R"
  BY DEF Dir, Opp

\* Before is an order, and that of the other side is the other way round.
LEMMA BeforeIs ==
  ASSUME NEW d \in Dir
  PROVE  /\ \A m \in Nodes : ~Before(d, m, m)
         /\ \A m, n, k \in Nodes : Before(d, m, n) /\ Before(d, n, k) => Before(d, m, k)
         /\ \A m, n \in Nodes : Before(d, m, n) <=> Before(Opp(d), n, m)
         /\ \A m, n \in Nodes : Key[m] # Key[n] => (Before(d, m, n) \/ Before(d, n, m))
         /\ \A m, n \in Nodes : Before(d, m, n) => Key[m] # Key[n]
  BY KeyAssumption DEF Before, Opp, Dir

\* What SetChild does.
LEMMA SetChildIs ==
  ASSUME NEW t \in Trees, NEW n \in Nodes, NEW d \in Dir, NEW m \in Links
  PROVE  /\ SetChild(t, n, d, m) \in Trees
         /\ SetChild(t, n, d, m).root = t.root
         /\ \A x \in Nodes, e \in Dir :
              SetChild(t, n, d, m).child[x][e] =
                IF x = n /\ e = d THEN m ELSE t.child[x][e]
         /\ SetChild(t, n, d, m).parent = t.parent
         /\ SetChild(t, n, d, m).color = t.color
  BY DEF SetChild, Trees

\* What SetParent does.
LEMMA SetParentIs ==
  ASSUME NEW t \in Trees, NEW n \in N0, NEW m \in Links
  PROVE  /\ SetParent(t, n, m) \in Trees
         /\ SetParent(t, n, m).root = t.root
         /\ SetParent(t, n, m).child = t.child
         /\ \A x \in Nodes : SetParent(t, n, m).parent[x] = IF x = n THEN m ELSE t.parent[x]
         /\ SetParent(t, n, m).color = t.color
  BY SetsAre DEF SetParent, Trees

\* What SetColor does.
LEMMA SetColorIs ==
  ASSUME NEW t \in Trees, NEW n \in N0, NEW c \in Colors
  PROVE  /\ SetColor(t, n, c) \in Trees
         /\ SetColor(t, n, c).root = t.root
         /\ SetColor(t, n, c).child = t.child
         /\ SetColor(t, n, c).parent = t.parent
         /\ \A x \in Nodes : SetColor(t, n, c).color[x] = IF x = n THEN c ELSE t.color[x]
  BY SetsAre DEF SetColor, Trees

\* What a change of the root does.
LEMMA SetRootIs ==
  ASSUME NEW t \in Trees, NEW n \in N0
  PROVE  /\ [t EXCEPT !.root = n] \in Trees
         /\ [t EXCEPT !.root = n].root = n
         /\ [t EXCEPT !.root = n].child = t.child
         /\ [t EXCEPT !.root = n].parent = t.parent
         /\ [t EXCEPT !.root = n].color = t.color
  BY DEF Trees

\* Exactly one link leads from p to n, if there is a p.
HangsFrom(t, n, p) ==
  p # NULL => \E d \in Dir : t.child[p][d] = n /\ t.child[p][Opp(d)] # n

\* What Replace does, if n is one of the children of p.
LEMMA ReplaceIs ==
  ASSUME NEW t \in Trees, NEW p \in N0, NEW n \in Nodes, NEW m \in N0,
         HangsFrom(t, n, p)
  PROVE  /\ Replace(t, p, n, m) \in Trees
         /\ Replace(t, p, n, m).root = IF p = NULL THEN m ELSE t.root
         /\ \A x \in Nodes, e \in Dir :
              Replace(t, p, n, m).child[x][e] =
                IF x = p /\ t.child[x][e] = n THEN m ELSE t.child[x][e]
         /\ Replace(t, p, n, m).parent = t.parent
         /\ Replace(t, p, n, m).color = t.color
  <1>1. CASE p = NULL
    <2>1. Replace(t, p, n, m) = [t EXCEPT !.root = m]
      BY <1>1 DEF Replace
    <2>2. \A x \in Nodes : x # p
      BY <1>1, SetsAre
    <2>3. QED
      BY <1>1, <2>1, <2>2, SetRootIs
  <1>2. CASE p # NULL
    <2>1. p \in Nodes /\ m \in Links
      BY <1>2, SetsAre
    <2>2. PICK d \in Dir : t.child[p][d] = n /\ t.child[p][Opp(d)] # n
      BY <1>2 DEF HangsFrom
    <2>3. Replace(t, p, n, m) = SetChild(t, p, d, m)
      BY <1>2, <2>2, SidesAre DEF Replace, Left, Right
    <2>4. \A x \in Nodes, e \in Dir : (x = p /\ t.child[x][e] = n) <=> (x = p /\ e = d)
      BY <2>2, OppIs
    <2>5. \A x \in Nodes, e \in Dir :
            Replace(t, p, n, m).child[x][e] =
              IF x = p /\ t.child[x][e] = n THEN m ELSE t.child[x][e]
      BY <2>1, <2>3, <2>4, SetChildIs
    <2>6. QED
      BY <1>2, <2>1, <2>3, <2>5, SetChildIs
  <1>3. QED
    BY <1>1, <1>2

-----------------------------------------------------------------------------
(* The nodes of a search tree.                                             *)

\* What holds of the whole tree.
LEMMA WholeIs ==
  ASSUME NEW t, NEW sub, NEW X, Tree(t, sub, X)
  PROVE  /\ t \in Trees /\ sub \in [Nodes -> SUBSET Nodes] /\ X \in SUBSET Nodes
         /\ t.root \in X \cup {NULL} /\ t.root \in N0 /\ X = Under(sub, t.root)
         /\ \A n \in X : t.root # NULL /\ n \in sub[t.root]
         /\ t.root # NULL => t.parent[t.root] = NULL /\ sub[t.root] = X
         /\ \A n, m \in X : Key[n] = Key[m] => n = m
         /\ \A n \in X : n \in Nodes /\ n # NULL /\ n # STALE
         /\ \A n \in X : sub[n] \subseteq X /\ n \in sub[n]
  <1>1. /\ t \in Trees /\ sub \in [Nodes -> SUBSET Nodes] /\ X \in SUBSET Nodes
        /\ t.root \in X \cup {NULL} /\ X = Under(sub, t.root)
        /\ t.root # NULL => t.parent[t.root] = NULL
        /\ \A n, m \in X : Key[n] = Key[m] => n = m
    BY DEF Tree
  <1>2. \A n \in X : n \in Nodes /\ n # NULL /\ n # STALE
    BY <1>1, SetsAre
  <1>3. \A n \in X : sub[n] \subseteq X /\ n \in sub[n]
    BY <1>1 DEF Tree, SubIsRight
  <1>4. t.root \in N0 /\ (t.root # NULL => sub[t.root] = X)
    BY <1>1, SetsAre DEF Under
  <1>5. \A n \in X : t.root # NULL /\ n \in sub[t.root]
    BY <1>1 DEF Under
  <1>6. QED
    BY <1>1, <1>2, <1>3, <1>4, <1>5

\* A node and the subtrees below it, seen from the side d.
LEMMA TreeIs ==
  ASSUME NEW t, NEW sub, NEW X, Tree(t, sub, X), NEW n \in X, NEW d \in Dir
  PROVE  /\ t.child[n][d] \in X \cup {NULL} /\ t.child[n][Opp(d)] \in X \cup {NULL}
         /\ t.child[n][d] # NULL => t.parent[t.child[n][d]] = n
         /\ t.child[n][Opp(d)] # NULL => t.parent[t.child[n][Opp(d)]] = n
         /\ Under(sub, t.child[n][d]) \subseteq X
         /\ Under(sub, t.child[n][Opp(d)]) \subseteq X
         /\ \A m \in Under(sub, t.child[n][d]) : Before(d, m, n)
         /\ \A m \in Under(sub, t.child[n][Opp(d)]) : Before(d, n, m)
         /\ sub[n] = {n} \cup Under(sub, t.child[n][d]) \cup Under(sub, t.child[n][Opp(d)])
         /\ \A m \in sub[n] : m \in X /\ sub[m] \subseteq sub[n]
         /\ \A m \in sub[n] : m = n \/ t.parent[m] \in sub[n]
         /\ n \in sub[n]
         /\ \A m \in sub[n], k \in X : k \in sub[n] \/ (Before(d, k, m) <=> Before(d, k, n))
  <1> DEFINE near == t.child[n][d]
             far == t.child[n][Opp(d)]
  <1>1. /\ KidsAreRight(t, sub, X, n) /\ SubIsRight(t, sub, X, n)
        /\ sub \in [Nodes -> SUBSET Nodes] /\ X \in SUBSET Nodes
        /\ \A x \in X : sub[x] \subseteq X
        /\ \A m, k \in X : Key[m] = Key[k] => m = k
    BY WholeIs DEF Tree
  <1>2. near \in X \cup {NULL} /\ far \in X \cup {NULL}
    BY <1>1, OppIs DEF KidsAreRight
  <1>3. (near # NULL => t.parent[near] = n) /\ (far # NULL => t.parent[far] = n)
    BY <1>1, OppIs DEF KidsAreRight
  <1>4. Under(sub, near) \subseteq X /\ Under(sub, far) \subseteq X
    BY <1>1, <1>2 DEF Under
  <1>5. \A m \in Under(sub, near) : Before(d, m, n)
    BY <1>1 DEF KidsAreRight
  <1>6. \A m \in Under(sub, far) : Before(d, n, m)
    <2>1. \A m \in Under(sub, far) : Before(Opp(d), m, n)
      BY <1>1, OppIs DEF KidsAreRight
    <2>2. QED
      BY <1>1, <1>4, <2>1, BeforeIs, OppIs
  <1>7. sub[n] = {n} \cup Under(sub, near) \cup Under(sub, far)
    <2>1. \A m \in Nodes :
            m \in sub[n] <=> (m = n \/ m \in Under(sub, near) \/ m \in Under(sub, far))
      BY <1>1, OppIs DEF SubIsRight
    <2>2. sub[n] \subseteq Nodes /\ n \in Nodes
      BY <1>1
    <2>3. Under(sub, near) \subseteq Nodes /\ Under(sub, far) \subseteq Nodes
      BY <1>1, <1>4
    <2> HIDE DEF near, far
    <2>4. QED
      BY <2>1, <2>2, <2>3
  <1>8. /\ \A m \in sub[n] : m \in X /\ sub[m] \subseteq sub[n]
        /\ \A m \in sub[n] : m = n \/ t.parent[m] \in sub[n]
    BY <1>1 DEF SubIsRight
  <1>9. \A m \in sub[n], k \in X : k \in sub[n] \/ (Before(d, k, m) <=> Before(d, k, n))
    <2>1. \A m \in sub[n], k \in X : k \in sub[n] \/ (Key[k] < Key[m] <=> Key[k] < Key[n])
      BY <1>1 DEF SubIsRight
    <2>2. \A m, k \in X : k # m => (~(Key[k] < Key[m]) <=> Key[m] < Key[k])
      BY <1>1, KeyAssumption
    <2>3. n \in sub[n] /\ sub[n] \subseteq X
      BY <1>1, <1>7
    <2>4. \A m \in sub[n], k \in X : k \in sub[n] \/ (Key[m] < Key[k] <=> Key[n] < Key[k])
      BY <2>1, <2>2, <2>3
    <2>5. QED
      BY <2>1, <2>4 DEF Before
  <1>10. QED
    BY <1>2, <1>3, <1>4, <1>5, <1>6, <1>7, <1>8, <1>9

\* A child knows its parent.
LEMMA KidIs ==
  ASSUME NEW t, NEW sub, NEW X, Tree(t, sub, X), NEW n \in X, NEW d \in Dir
  PROVE  /\ t.child[n][d] \in X \cup {NULL}
         /\ t.child[n][d] # NULL => t.parent[t.child[n][d]] = n
  BY DEF Tree, KidsAreRight

\* A node is right if this holds, whichever side it is seen from.
LEMMA RightIs ==
  ASSUME NEW t, NEW sub \in [Nodes -> SUBSET Nodes], NEW X \in SUBSET Nodes,
         NEW n \in X, NEW d \in Dir,
         \A m, k \in X : Key[m] = Key[k] => m = k,
         t.child[n][d] \in X \cup {NULL}, t.child[n][Opp(d)] \in X \cup {NULL},
         t.child[n][d] # NULL => t.parent[t.child[n][d]] = n,
         t.child[n][Opp(d)] # NULL => t.parent[t.child[n][Opp(d)]] = n,
         \A m \in Under(sub, t.child[n][d]) : Before(d, m, n),
         \A m \in Under(sub, t.child[n][Opp(d)]) : Before(d, n, m),
         sub[n] = {n} \cup Under(sub, t.child[n][d]) \cup Under(sub, t.child[n][Opp(d)]),
         \A m \in sub[n] : m \in X /\ sub[m] \subseteq sub[n],
         \A m \in sub[n] : m = n \/ t.parent[m] \in sub[n],
         \A m \in sub[n], k \in X : k \in sub[n] \/ (Before(d, k, m) <=> Before(d, k, n))
  PROVE  KidsAreRight(t, sub, X, n) /\ SubIsRight(t, sub, X, n)
  <1>1. Under(sub, t.child[n][Opp(d)]) \subseteq Nodes
    BY DEF Under
  <1>2. \A m \in Under(sub, t.child[n][Opp(d)]) : Before(Opp(d), m, n)
    BY <1>1, BeforeIs
  <1>3. KidsAreRight(t, sub, X, n)
    <2>1. ASSUME NEW e \in Dir
          PROVE  /\ t.child[n][e] \in X \cup {NULL}
                 /\ t.child[n][e] # NULL => t.parent[t.child[n][e]] = n
                 /\ \A m \in Under(sub, t.child[n][e]) : Before(e, m, n)
      <3>1. CASE e = d
        BY <3>1
      <3>2. CASE e = Opp(d)
        BY <3>2, <1>2
      <3>3. QED
        BY <3>1, <3>2, OppIs
    <2>2. QED
      BY <2>1 DEF KidsAreRight
  <1>4. \A m \in Nodes : m \in sub[n] <=> (m = n \/ \E e \in Dir : m \in Under(sub, t.child[n][e]))
    BY OppIs
  <1>5. \A m \in sub[n], k \in X : k \in sub[n] \/ (Key[k] < Key[m] <=> Key[k] < Key[n])
    <2>1. \A m, k \in X : k # m => (~(Key[k] < Key[m]) <=> Key[m] < Key[k])
      BY KeyAssumption
    <2>2. n \in sub[n] /\ sub[n] \subseteq X
      OBVIOUS
    <2>3. CASE d = "L"
      BY <2>3 DEF Before
    <2>4. CASE d = "R"
      <3>1. \A m \in sub[n], k \in X : k \in sub[n] \/ (Key[m] < Key[k] <=> Key[n] < Key[k])
        BY <2>4 DEF Before
      <3>2. QED
        BY <2>1, <2>2, <3>1
    <2>5. QED
      BY <2>3, <2>4, SidesAre
  <1>6. SubIsRight(t, sub, X, n)
    BY <1>4, <1>5 DEF SubIsRight
  <1>7. QED
    BY <1>3, <1>6

\* A tree is one if its nodes are right.
LEMMA TreeFrom ==
  ASSUME NEW t \in Trees, NEW sub \in [Nodes -> SUBSET Nodes], NEW X \in SUBSET Nodes,
         t.root \in X \cup {NULL}, X = Under(sub, t.root),
         t.root # NULL => t.parent[t.root] = NULL,
         \A n \in X : KidsAreRight(t, sub, X, n) /\ SubIsRight(t, sub, X, n),
         \A n \in X : ParentIsRight(t, X, n),
         \A n, m \in X : Key[n] = Key[m] => n = m
  PROVE  Tree(t, sub, X)
  BY DEF Tree

\* The parent of a node that is not the root.
LEMMA ParentIs ==
  ASSUME NEW t, NEW sub, NEW X, Tree(t, sub, X), NEW n \in X
  PROVE  /\ t.parent[n] \in X \cup {NULL} /\ t.parent[n] \in N0
         /\ t.parent[n] = NULL <=> n = t.root
         /\ t.parent[n] # NULL =>
              /\ t.parent[n] # n /\ t.parent[n] \notin sub[n]
              /\ \E d \in Dir : t.child[t.parent[n]][d] = n /\ t.child[t.parent[n]][Opp(d)] # n
              /\ n \in sub[t.parent[n]]
         /\ HangsFrom(t, n, t.parent[n])
  <1> DEFINE p == t.parent[n]
  <1>0. X \in SUBSET Nodes /\ NULL \notin X
    BY WholeIs
  <1>1. ParentIsRight(t, X, n)
    BY DEF Tree
  <1>2. CASE n = t.root /\ p = NULL
    BY <1>2, SetsAre DEF HangsFrom
  <1>3. CASE p \in X /\ \E d \in Dir : t.child[p][d] = n
    <2>1. PICK d \in Dir : t.child[p][d] = n
      BY <1>3
    <2> HIDE DEF p
    <2>2. /\ \A m \in Under(sub, n) : Before(d, m, p)
          /\ \A m \in Under(sub, t.child[p][Opp(d)]) : Before(d, p, m)
          /\ sub[p] = {p} \cup Under(sub, n) \cup Under(sub, t.child[p][Opp(d)])
      BY <1>3, <2>1, TreeIs
    <2>3. Under(sub, n) = sub[n] /\ n \in sub[n] /\ sub[n] \subseteq X
      BY <1>0, WholeIs DEF Under
    <2>4. p \notin sub[n] /\ p # n
      BY <1>0, <1>3, <2>2, <2>3, BeforeIs
    <2>5. t.child[p][Opp(d)] # n
      <3>1. SUFFICES ASSUME t.child[p][Opp(d)] = n
                     PROVE  FALSE
        OBVIOUS
      <3>2. Before(d, n, p) /\ Before(d, p, n)
        BY <2>2, <2>3, <3>1
      <3>3. QED
        BY <1>0, <1>3, <3>2, BeforeIs
    <2>6. n # t.root
      BY <1>0, <1>3, WholeIs DEF p
    <2>7. QED
      BY <1>0, <1>3, <2>1, <2>2, <2>3, <2>4, <2>5, <2>6, SetsAre DEF p, HangsFrom
  <1>4. QED
    BY <1>1, <1>2, <1>3 DEF ParentIsRight

\* The shape depends on the links of the nodes of the tree only.
LEMMA SameLinks ==
  ASSUME NEW t, NEW sub, NEW X, Tree(t, sub, X), NEW u \in Trees,
         u.root = t.root,
         \A n \in X : u.child[n] = t.child[n] /\ u.parent[n] = t.parent[n]
  PROVE  Tree(u, sub, X)
  <1>1. /\ sub \in [Nodes -> SUBSET Nodes] /\ X \in SUBSET Nodes
        /\ t.root \in X \cup {NULL} /\ X = Under(sub, t.root)
        /\ t.root # NULL => t.parent[t.root] = NULL
        /\ \A n, m \in X : Key[n] = Key[m] => n = m
        /\ NULL \notin X
    BY WholeIs
  <1>2. ASSUME NEW n \in X
        PROVE  KidsAreRight(u, sub, X, n)
    BY <1>1 DEF Tree, KidsAreRight
  <1>3. ASSUME NEW n \in X
        PROVE  SubIsRight(u, sub, X, n)
    BY <1>1 DEF Tree, SubIsRight
  <1>4. ASSUME NEW n \in X
        PROVE  ParentIsRight(u, X, n)
    BY <1>1 DEF Tree, ParentIsRight
  <1>5. QED
    BY <1>1, <1>2, <1>3, <1>4, TreeFrom

-----------------------------------------------------------------------------
(* RB_ROTATE_LEFT and RB_ROTATE_RIGHT.                                     *)

\* u is t after n, a child of p, went down on side d and up, its other child,
\* took its place; mid is the subtree that goes from up to n.
Turned(t, n, d, up, mid, p, u) ==
  /\ u \in Trees /\ u.color = t.color
  /\ u.root = IF p = NULL THEN up ELSE t.root
  /\ \A x \in Nodes, e \in Dir :
       u.child[x][e] = IF x = n /\ e = Opp(d) THEN mid
                       ELSE IF x = up /\ e = d THEN n
                       ELSE IF x = p /\ t.child[x][e] = n THEN up
                       ELSE t.child[x][e]
  /\ \A x \in Nodes :
       u.parent[x] = IF x = n THEN up ELSE IF x = up THEN p
                     ELSE IF x = mid THEN n ELSE t.parent[x]

\* The nodes about n: up and near are its children, mid and far those of up.
Pivot(t, n, d, up, near, mid, far, p) ==
  /\ up = t.child[n][Opp(d)] /\ up # NULL /\ near = t.child[n][d]
  /\ mid = t.child[up][d] /\ far = t.child[up][Opp(d)] /\ p = t.parent[n]

\* The nodes that take part in a rotation.
LEMMA PivotIs ==
  ASSUME NEW t, NEW sub, NEW X, Tree(t, sub, X), NEW n \in X, NEW d \in Dir,
         NEW up, NEW near, NEW mid, NEW far, NEW p, Pivot(t, n, d, up, near, mid, far, p)
  PROVE  /\ up \in X /\ up # n /\ t.parent[up] = n /\ up # t.root /\ up # p
         /\ mid \in X \cup {NULL}
         /\ mid # NULL =>
              /\ t.parent[mid] = up /\ mid # n /\ mid # up
              /\ mid # p /\ mid # t.root /\ mid # far
  <1>0. /\ up = t.child[n][Opp(d)] /\ up # NULL /\ mid = t.child[up][d]
        /\ p = t.parent[n] /\ far = t.child[up][Opp(d)]
    BY DEF Pivot
  <1>1. up \in X /\ t.parent[up] = n
    <2>1. Opp(d) \in Dir
      BY OppIs
    <2>2. /\ t.child[n][Opp(d)] \in X \cup {NULL}
          /\ t.child[n][Opp(d)] # NULL => t.parent[t.child[n][Opp(d)]] = n
      BY <2>1, KidIs
    <2>3. QED
      BY <1>0, <2>2
  <1>2. /\ mid \in X \cup {NULL} /\ (mid # NULL => t.parent[mid] = up)
    <2>1. /\ t.child[up][d] \in X \cup {NULL}
          /\ t.child[up][d] # NULL => t.parent[t.child[up][d]] = up
      BY <1>1, KidIs
    <2>2. QED
      BY Zenon, <1>0, <2>1
  <1>3. /\ NULL \notin X /\ t.parent[t.root] = NULL /\ X \in SUBSET Nodes
    BY WholeIs
  <1>4. up # t.root /\ up # n /\ up # p /\ up \in sub[n] /\ sub[up] \subseteq sub[n]
    <2>1. up # t.root
      BY <1>0, <1>1, <1>3
    <2>2. up \in sub[n] /\ up # n
      <3>1. t.parent[up] # NULL
        BY <1>1, <1>3
      <3>2. QED
        BY <1>1, <3>1, ParentIs
    <2>3. sub[up] \subseteq sub[n]
      BY <2>2, TreeIs
    <2>4. up # p
      <3>1. p = NULL \/ p \notin sub[n]
        BY <1>0, ParentIs
      <3>2. QED
        BY <1>0, <2>2, <3>1
    <2>5. QED
      BY <2>1, <2>2, <2>3, <2>4
  <1>5. ASSUME mid # NULL
        PROVE  mid # up /\ mid # n /\ mid # t.root /\ mid # p /\ mid # far
    <2>1. mid \in X /\ t.parent[mid] = up
      BY <1>2, <1>5
    <2>2. mid # t.root /\ mid # n
      <3>1. mid # t.root
        BY Zenon, <1>0, <1>3, <1>5, <2>1
      <3>2. mid # n
        BY Zenon, <1>0, <1>4, <2>1
      <3>3. QED
        BY <3>1, <3>2
    <2>3. mid \in sub[up] /\ mid # up
      <3>1. t.parent[mid] # NULL
        BY Zenon, <1>0, <2>1
      <3>2. t.parent[mid] # mid /\ mid \in sub[t.parent[mid]]
        BY <2>1, <3>1, ParentIs
      <3>3. QED
        BY <2>1, <3>2
    <2>4. mid # p
      <3>1. p = NULL \/ p \notin sub[n]
        BY <1>0, ParentIs
      <3>2. QED
        BY <1>4, <1>5, <2>3, <3>1
    <2>5. mid # far
      <3>1. SUFFICES ASSUME mid = far
                     PROVE  FALSE
        OBVIOUS
      <3>2. mid \in sub[mid] /\ Under(sub, mid) = sub[mid]
        BY <1>5, <2>1, WholeIs DEF Under
      <3>3. mid \in Under(sub, t.child[up][d]) /\ mid \in Under(sub, t.child[up][Opp(d)])
        BY Zenon, <1>0, <3>1, <3>2
      <3>4. Before(d, mid, up) /\ Before(d, up, mid)
        BY <1>1, <3>3, TreeIs
      <3>5. mid \in Nodes /\ up \in Nodes
        BY <1>1, <1>3, <2>1
      <3>6. QED
        BY <3>4, <3>5, BeforeIs
    <2>6. QED
      BY <2>2, <2>3, <2>4, <2>5
  <1>6. QED
    BY <1>1, <1>2, <1>4, <1>5

\* The tree after the writes of the macro.
Written(t, n, d, o, up, mid, p) ==
  SetParent(SetChild(Replace(SetParent(SetParent(SetChild(t, n, o, mid), mid, n), up, p),
                             p, n, up), up, d, n), n, up)

\* The writes of the macro, one after the other.
LEMMA RotateWrites ==
  ASSUME NEW t, t \in Trees, NEW n, n \in Nodes, NEW d, d \in Dir, NEW o, o \in Dir,
         NEW up, up \in Nodes, NEW mid, mid \in N0, NEW p, p \in N0,
         up # n, up # p, p # n, mid # n, mid # up,
         o = Opp(d), HangsFrom(t, n, p), NEW t6, t6 = Written(t, n, d, o, up, mid, p)
  PROVE  Turned(t, n, d, up, mid, p, t6)
  <1>1. PICK t1, t2, t3, t4, t5 :
          /\ t1 = SetChild(t, n, o, mid) /\ t2 = SetParent(t1, mid, n)
          /\ t3 = SetParent(t2, up, p) /\ t4 = Replace(t3, p, n, up)
          /\ t5 = SetChild(t4, up, d, n) /\ t6 = SetParent(t5, n, up)
    BY DEF Written
  <1>a. n \in Links
    BY SetsAre
  <1>b. up \in Links
    BY SetsAre
  <1>c. mid \in Links
    BY SetsAre
  <1>d. p \in Links
    BY SetsAre
  <1>e. up \in N0
    BY SetsAre
  <1>f. n \in N0
    BY SetsAre
  <1>2. /\ t1 \in Trees /\ t1.root = t.root /\ t1.parent = t.parent /\ t1.color = t.color
        /\ \A x \in Nodes, e \in Dir :
             t1.child[x][e] = IF x = n /\ e = o THEN mid ELSE t.child[x][e]
    BY <1>1, <1>c, SetChildIs
  <1>3. /\ t2 \in Trees /\ t2.root = t1.root /\ t2.child = t1.child /\ t2.color = t1.color
        /\ \A x \in Nodes : t2.parent[x] = IF x = mid THEN n ELSE t1.parent[x]
    BY <1>1, <1>a, <1>2, SetParentIs
  <1>4. /\ t3 \in Trees /\ t3.root = t2.root /\ t3.child = t2.child /\ t3.color = t2.color
        /\ \A x \in Nodes : t3.parent[x] = IF x = up THEN p ELSE t2.parent[x]
    BY <1>1, <1>d, <1>e, <1>3, SetParentIs
  <1>5. HangsFrom(t3, n, p)
    <2>1. p # NULL => \A e \in Dir : t3.child[p][e] = t.child[p][e]
      BY <1>2, <1>3, <1>4, SetsAre
    <2>2. QED
      BY <2>1, OppIs DEF HangsFrom
  <1>6. /\ t4 \in Trees /\ t4.root = (IF p = NULL THEN up ELSE t3.root)
        /\ t4.parent = t3.parent /\ t4.color = t3.color
        /\ \A x \in Nodes, e \in Dir :
             t4.child[x][e] = IF x = p /\ t3.child[x][e] = n THEN up ELSE t3.child[x][e]
    BY <1>1, <1>e, <1>4, <1>5, ReplaceIs
  <1>7. /\ t5 \in Trees /\ t5.root = t4.root /\ t5.parent = t4.parent /\ t5.color = t4.color
        /\ \A x \in Nodes, e \in Dir :
             t5.child[x][e] = IF x = up /\ e = d THEN n ELSE t4.child[x][e]
    <2>1. t4 \in Trees
      BY <1>6
    <2>2. t5 = SetChild(t4, up, d, n)
      BY <1>1
    <2>3. QED
      <3>1. /\ SetChild(t4, up, d, n) \in Trees
            /\ SetChild(t4, up, d, n).root = t4.root
            /\ SetChild(t4, up, d, n).parent = t4.parent
            /\ SetChild(t4, up, d, n).color = t4.color
            /\ \A x \in Nodes, e \in Dir :
                 SetChild(t4, up, d, n).child[x][e] =
                   IF x = up /\ e = d THEN n ELSE t4.child[x][e]
        BY <1>a, <2>1, SetChildIs
      <3>2. QED
        BY Zenon, <2>2, <3>1
  <1>8. /\ t6 \in Trees /\ t6.root = t5.root /\ t6.child = t5.child /\ t6.color = t5.color
        /\ \A x \in Nodes : t6.parent[x] = IF x = n THEN up ELSE t5.parent[x]
    BY <1>1, <1>b, <1>f, <1>7, SetParentIs
  <1>9. t6.root = IF p = NULL THEN up ELSE t.root
    BY <1>2, <1>3, <1>4, <1>6, <1>7, <1>8
  <1>10. \A x \in Nodes, e \in Dir :
           t6.child[x][e] = IF x = n /\ e = o THEN mid
                            ELSE IF x = up /\ e = d THEN n
                            ELSE IF x = p /\ t.child[x][e] = n THEN up
                            ELSE t.child[x][e]
    BY <1>2, <1>3, <1>4, <1>6, <1>7, <1>8
  <1>11. \A x \in Nodes :
           t6.parent[x] = IF x = n THEN up ELSE IF x = up THEN p
                          ELSE IF x = mid THEN n ELSE t.parent[x]
    BY <1>2, <1>3, <1>4, <1>6, <1>7, <1>8
  <1>12. QED
    BY <1>2, <1>3, <1>4, <1>6, <1>7, <1>8, <1>9, <1>10, <1>11 DEF Turned

\* What the macro writes.
LEMMA TurnedIs ==
  ASSUME NEW t, NEW sub, NEW X, Tree(t, sub, X), NEW n \in X, NEW d \in Dir,
         NEW up, NEW near, NEW mid, NEW far, NEW p, Pivot(t, n, d, up, near, mid, far, p)
  PROVE  Turned(t, n, d, up, mid, p, Rotate(t, n, d))
  <1>1. p = t.parent[n] /\ up = t.child[n][Opp(d)] /\ mid = t.child[up][d]
    BY DEF Pivot
  <1>2. /\ up \in Nodes /\ n \in Nodes /\ mid \in N0 /\ t \in Trees /\ Opp(d) \in Dir
        /\ up # n /\ up # p /\ mid # n /\ mid # up
    <2>1. /\ t \in Trees /\ Opp(d) \in Dir /\ X \in SUBSET Nodes /\ NULL \notin X
          /\ \A x \in X \cup {NULL} : x \in N0
      BY WholeIs, SetsAre, OppIs
    <2>2. /\ up \in X /\ up # n /\ up # p /\ mid \in X \cup {NULL}
          /\ mid # NULL => mid # n /\ mid # up
      BY PivotIs
    <2>3. mid # n /\ mid # up
      BY <2>1, <2>2
    <2>4. QED
      BY <2>1, <2>2, <2>3
  <1>3. /\ p \in N0 /\ p # n
        /\ p = NULL <=> n = t.root
        /\ HangsFrom(t, n, p)
    <2>1. /\ t.parent[n] \in N0
          /\ t.parent[n] # NULL => t.parent[n] # n
          /\ t.parent[n] = NULL <=> n = t.root
      BY ParentIs
    <2>2. HangsFrom(t, n, t.parent[n])
      BY ParentIs
    <2>3. n # NULL
      BY <1>2, SetsAre
    <2>4. QED
      BY <1>1, <2>1, <2>2, <2>3
  <1>4. PICK u : u = Rotate(t, n, d)
    OBVIOUS
  <1>5. u = Written(t, n, d, Opp(d), up, mid, p)
    BY <1>1, <1>4 DEF Rotate, Written
  <1>6. Turned(t, n, d, up, mid, p, u)
    BY <1>2, <1>3, <1>5, RotateWrites
  <1>7. QED
    BY <1>1, <1>4, <1>6

\* A rotation keeps a search tree one, with the same nodes.
LEMMA TurnKeeps ==
  ASSUME NEW t, NEW sub, NEW X, Tree(t, sub, X), NEW n \in X, NEW d \in Dir,
         NEW up, NEW near, NEW mid, NEW far, NEW p, Pivot(t, n, d, up, near, mid, far, p),
         NEW u, Turned(t, n, d, up, mid, p, u)
  PROVE  \E new : Tree(u, new, X)
  <1>0. /\ up = t.child[n][Opp(d)] /\ up # NULL /\ mid = t.child[up][d]
        /\ p = t.parent[n] /\ near = t.child[n][d] /\ far = t.child[up][Opp(d)]
    BY DEF Pivot
  <1>1. PICK o : o = Opp(d)
    OBVIOUS
  <1>2. o \in Dir /\ o # d /\ Opp(o) = d /\ \A e \in Dir : e = d \/ e = o
    BY <1>1, OppIs
  <1>3. near = t.child[n][d] /\ far = t.child[up][o]
    BY Zenon, <1>0, <1>1
  <1>4. /\ t \in Trees /\ sub \in [Nodes -> SUBSET Nodes] /\ X \in SUBSET Nodes
        /\ t.root \in X \cup {NULL} /\ X = Under(sub, t.root)
        /\ t.root # NULL => t.parent[t.root] = NULL
        /\ \A m, k \in X : Key[m] = Key[k] => m = k
        /\ NULL \notin X /\ \A m \in X : m \in sub[m] /\ sub[m] \subseteq X
    BY WholeIs
  <1>5. /\ up \in X /\ up # n /\ t.parent[up] = n /\ up # t.root /\ up # p
        /\ mid \in X \cup {NULL} /\ mid # n /\ mid # up
        /\ mid # NULL => t.parent[mid] = up /\ mid # p /\ mid # t.root /\ mid # far
    <2>1. /\ up \in X /\ up # n /\ t.parent[up] = n /\ up # t.root /\ up # p
          /\ mid \in X \cup {NULL}
          /\ mid # NULL =>
               /\ t.parent[mid] = up /\ mid # n /\ mid # up
               /\ mid # p /\ mid # t.root /\ mid # far
      BY PivotIs
    <2>2. mid # n /\ mid # up
      BY <1>4, <2>1
    <2>3. QED
      BY <2>1, <2>2
  <1>6. /\ near \in X \cup {NULL} /\ (near # NULL => t.parent[near] = n)
        /\ Under(sub, near) \subseteq X /\ sub[up] \subseteq X
        /\ \A m \in Under(sub, near) : Before(d, m, n)
        /\ \A m \in sub[up] : Before(d, n, m)
        /\ sub[n] = {n} \cup Under(sub, near) \cup sub[up]
        /\ \A m \in sub[n] : m \in X /\ sub[m] \subseteq sub[n]
        /\ \A m \in sub[n] : m = n \/ t.parent[m] \in sub[n]
        /\ \A m \in sub[n], k \in X : k \in sub[n] \/ (Before(d, k, m) <=> Before(d, k, n))
    <2>1. Under(sub, t.child[n][Opp(d)]) = sub[up]
      BY <1>0 DEF Under
    <2>2. QED
      BY <1>3, <2>1, TreeIs
  <1>7. /\ far \in X \cup {NULL} /\ (far # NULL => t.parent[far] = up)
        /\ Under(sub, far) \subseteq X /\ Under(sub, mid) \subseteq X
        /\ \A m \in Under(sub, mid) : Before(d, m, up)
        /\ \A m \in Under(sub, far) : Before(d, up, m)
        /\ sub[up] = {up} \cup Under(sub, mid) \cup Under(sub, far)
        /\ \A m \in sub[up] : sub[m] \subseteq sub[up] /\ (m = up \/ t.parent[m] \in sub[up])
    <2>1. /\ t.child[up][Opp(d)] \in X \cup {NULL}
          /\ t.child[up][Opp(d)] # NULL => t.parent[t.child[up][Opp(d)]] = up
          /\ Under(sub, t.child[up][d]) \subseteq X
          /\ Under(sub, t.child[up][Opp(d)]) \subseteq X
          /\ \A m \in Under(sub, t.child[up][d]) : Before(d, m, up)
          /\ \A m \in Under(sub, t.child[up][Opp(d)]) : Before(d, up, m)
          /\ sub[up] = {up} \cup Under(sub, t.child[up][d]) \cup Under(sub, t.child[up][Opp(d)])
          /\ \A m \in sub[up] : m \in X /\ sub[m] \subseteq sub[up]
          /\ \A m \in sub[up] : m = up \/ t.parent[m] \in sub[up]
      <3>1. up \in X
        BY <1>5
      <3>2. QED
        BY <3>1, TreeIs
    <2>2. far = t.child[up][Opp(d)]
      BY <1>1, <1>3
    <2>3. mid = t.child[up][d]
      BY <1>0
    <2>4. QED
      BY <2>1, <2>2, <2>3
  <1>8. /\ p \in X \cup {NULL} /\ p # n /\ p \notin sub[n] /\ (p = NULL <=> n = t.root)
        /\ p # NULL => n \in sub[p] /\ \E e \in Dir : t.child[p][e] = n /\ t.child[p][Opp(e)] # n
    <2>1. /\ t.parent[n] \in X \cup {NULL} /\ (t.parent[n] = NULL <=> n = t.root)
          /\ t.parent[n] # NULL => t.parent[n] # n /\ t.parent[n] \notin sub[n]
          /\ t.parent[n] # NULL => n \in sub[t.parent[n]]
      BY ParentIs
    <2>2. p # NULL => \E e \in Dir : t.child[p][e] = n /\ t.child[p][Opp(e)] # n
      <3>1. HangsFrom(t, n, p) /\ p = t.parent[n]
        BY Zenon, <1>0, ParentIs
      <3>2. QED
        BY <3>1 DEF HangsFrom
    <2>3. NULL \notin sub[n] /\ n # NULL /\ p = t.parent[n]
      BY Zenon, <1>0, <1>4
    <2>4. QED
      BY <2>1, <2>2, <2>3
  <1>a. n \in Nodes /\ up \in Nodes
    BY <1>4, <1>5
  <1>b. Before(d, n, up) /\ ~Before(d, up, n) /\ ~Before(d, n, n) /\ ~Before(d, up, up)
    <2>1. up \in sub[up]
      BY <1>4, <1>5
    <2>2. Before(d, n, up)
      BY <1>6, <2>1
    <2>3. QED
      BY <1>a, <2>2, BeforeIs
  <1>9. /\ u \in Trees
        /\ u.root = IF p = NULL THEN up ELSE t.root
        /\ u.child[n][d] = near /\ u.child[n][o] = mid
        /\ u.child[up][d] = n /\ u.child[up][o] = far
        /\ u.parent[n] = up /\ u.parent[up] = p
        /\ \A x \in X \ {n, up} : u.parent[x] = IF x = mid THEN n ELSE t.parent[x]
        /\ \A x \in X \ {n, up}, e \in Dir :
             u.child[x][e] = IF t.child[x][e] = n THEN up ELSE t.child[x][e]
    <2>1. /\ u \in Trees
          /\ u.root = IF p = NULL THEN up ELSE t.root
      BY DEF Turned
    <2>2. u.parent[n] = up /\ u.parent[up] = p
          /\ \A x \in X \ {n, up} : u.parent[x] = IF x = mid THEN n ELSE t.parent[x]
      BY <1>4, <1>5 DEF Turned
    <2>3. \A x \in X, e \in Dir :
            u.child[x][e] = IF x = n /\ e = o THEN mid ELSE IF x = up /\ e = d THEN n
                            ELSE IF x = p /\ t.child[x][e] = n THEN up ELSE t.child[x][e]
      BY <1>1, <1>4 DEF Turned
    <2>4. u.child[n][d] = near /\ u.child[n][o] = mid /\ u.child[up][d] = n
      BY <1>2, <1>3, <1>5, <1>8, <2>3
    <2>5. u.child[up][o] = far
      BY <1>2, <1>3, <1>5, <1>8, <2>3
    <2>6. \A x \in X, e \in Dir : t.child[x][e] = n => x = p
      <3> TAKE x \in X, e \in Dir
      <3> HAVE t.child[x][e] = n
      <3>1. n # NULL
        BY <1>4
      <3>2. t.parent[t.child[x][e]] = x
        BY <3>1, KidIs
      <3>3. QED
        BY <1>0, <3>2
    <2>7. \A x \in X \ {n, up}, e \in Dir :
            u.child[x][e] = IF t.child[x][e] = n THEN up ELSE t.child[x][e]
      BY <2>3, <2>6
    <2>8. QED
      BY <2>1, <2>2, <2>4, <2>5, <2>7
  <1>10. PICK new : new = [sub EXCEPT ![n] = {n} \cup Under(sub, near) \cup Under(sub, mid),
                                      ![up] = sub[n]]
    OBVIOUS
  <1>11. /\ new \in [Nodes -> SUBSET Nodes] /\ new[up] = sub[n]
         /\ new[n] = {n} \cup Under(sub, near) \cup Under(sub, mid)
         /\ \A x \in X \ {n, up} : new[x] = sub[x]
    BY <1>4, <1>5, <1>6, <1>7, <1>10
  <1>12. near # n /\ near # up /\ far # n /\ far # up
    <2>1. near # n /\ near # up
      <3>1. n \notin Under(sub, near) /\ up \notin Under(sub, near)
        BY <1>6, <1>b
      <3>2. near # NULL => near \in Under(sub, near)
        BY <1>4, <1>6 DEF Under
      <3>3. n # NULL /\ up # NULL
        BY <1>4, <1>5
      <3>4. QED
        BY <3>1, <3>2, <3>3
    <2>2. far # n /\ far # up
      <3>1. up \notin Under(sub, far)
        BY <1>7, <1>b
      <3>2. n \notin Under(sub, far)
        BY <1>6, <1>7, <1>b
      <3>3. far # NULL => far \in Under(sub, far)
        BY <1>4, <1>7 DEF Under
      <3>4. n # NULL /\ up # NULL
        BY <1>4, <1>5
      <3>5. QED
        BY <3>1, <3>2, <3>3, <3>4
    <2>3. QED
      BY <2>1, <2>2
  <1>13. /\ Under(new, near) = Under(sub, near) /\ Under(new, mid) = Under(sub, mid)
         /\ Under(new, far) = Under(sub, far) /\ Under(new, up) = sub[n]
         /\ Under(new, n) = new[n]
    <2>1. \A x \in X \cup {NULL} : x # n /\ x # up => Under(new, x) = Under(sub, x)
      BY <1>11 DEF Under
    <2>2. n # NULL /\ up # NULL
      BY <1>4, <1>5
    <2>3. Under(new, near) = Under(sub, near)
      BY <1>6, <1>12, <2>1
    <2>4. Under(new, mid) = Under(sub, mid)
      BY <1>5, <2>1
    <2>5. Under(new, far) = Under(sub, far)
      BY <1>7, <1>12, <2>1
    <2>6. Under(new, up) = sub[n] /\ Under(new, n) = new[n]
      BY <1>11, <2>2 DEF Under
    <2>7. QED
      BY <2>3, <2>4, <2>5, <2>6
  <1>14. new[n] \subseteq sub[n] /\ n \in new[n] /\ up \notin new[n]
         /\ \A m \in X : new[m] \subseteq X /\ (m \in sub[n] => new[m] \subseteq sub[n])
    <2>1. new[n] \subseteq sub[n] /\ n \in new[n]
      BY <1>6, <1>7, <1>11
    <2>2. up \notin Under(sub, near) /\ up \notin Under(sub, mid)
      BY <1>6, <1>7, <1>b
    <2>3. \A m \in X : new[m] \subseteq X /\ (m \in sub[n] => new[m] \subseteq sub[n])
      BY <1>4, <1>6, <1>11, <2>1
    <2>4. QED
      BY <1>5, <1>11, <2>1, <2>2, <2>3
  <1>15. KidsAreRight(u, new, X, n) /\ SubIsRight(u, new, X, n)
    <2>1. /\ near # NULL => u.parent[near] = n
          /\ mid # NULL => u.parent[mid] = n
      <3>1. \A x \in X \ {n, up} : u.parent[x] = IF x = mid THEN n ELSE t.parent[x]
        BY <1>9
      <3>2. near # NULL => near \in X \ {n, up} /\ t.parent[near] = n
        BY <1>6, <1>12
      <3>3. mid # NULL => mid \in X \ {n, up}
        BY <1>5
      <3>4. QED
        BY <3>1, <3>2, <3>3
    <2>2. /\ \A m \in Under(new, near) : Before(d, m, n)
          /\ \A m \in Under(new, mid) : Before(d, n, m)
      BY <1>6, <1>7, <1>13
    <2>3. new[n] = {n} \cup Under(new, near) \cup Under(new, mid)
      BY <1>11, <1>13
    <2>4. /\ \A m \in Under(sub, near) :
               sub[m] \subseteq Under(sub, near) /\ (m = near \/ t.parent[m] \in Under(sub, near))
          /\ \A m \in Under(sub, mid) :
               sub[m] \subseteq Under(sub, mid) /\ (m = mid \/ t.parent[m] \in Under(sub, mid))
      <3>1. near # NULL => \A m \in sub[near] :
               sub[m] \subseteq sub[near] /\ (m = near \/ t.parent[m] \in sub[near])
        BY <1>2, <1>6, TreeIs
      <3>2. mid # NULL => \A m \in sub[mid] :
               sub[m] \subseteq sub[mid] /\ (m = mid \/ t.parent[m] \in sub[mid])
        BY <1>2, <1>5, TreeIs
      <3>3. QED
        BY <3>1, <3>2 DEF Under
    <2>5. ASSUME NEW m \in new[n]
          PROVE  m \in X /\ new[m] \subseteq new[n]
      <3>1. m = n \/ m \in Under(sub, near) \/ m \in Under(sub, mid)
        BY <1>11
      <3>2. m \in X /\ m # up
        BY <1>14
      <3>3. m # n => new[m] = sub[m]
        BY <1>11, <3>2
      <3>4. QED
        BY <1>11, <2>4, <3>1, <3>2, <3>3
    <2>6. ASSUME NEW m \in new[n], m # n
          PROVE  u.parent[m] \in new[n]
      <3>1. m \in Under(sub, near) \/ m \in Under(sub, mid)
        BY <1>11, <2>6
      <3>2. m \in X \ {n, up}
        BY <1>14, <2>6
      <3>3. u.parent[m] = n \/ u.parent[m] = t.parent[m]
        BY <1>9, <3>2
      <3>4. CASE u.parent[m] = n
        BY <1>14, <3>4
      <3>5. CASE m = near \/ m = mid
        <4>1. m # NULL
          BY <1>4, <3>2
        <4>2. u.parent[m] = n
          BY <2>1, <3>5, <4>1
        <4>3. QED
          BY <1>14, <4>2
      <3>6. CASE u.parent[m] = t.parent[m] /\ m # near /\ m # mid
        BY <1>11, <2>4, <3>1, <3>6
      <3>7. QED
        BY <3>3, <3>4, <3>5, <3>6
    <2>7. ASSUME NEW m \in new[n], NEW k \in X
          PROVE  k \in new[n] \/ (Before(d, k, m) <=> Before(d, k, n))
      <3>1. CASE k \notin sub[n]
        BY <1>6, <1>14, <3>1
      <3>2. CASE k \in sub[n] /\ k \notin new[n]
        <4>1. k = up \/ k \in Under(sub, far)
          BY <1>6, <1>7, <1>11, <3>2
        <4>2. k = up \/ Before(d, up, k)
          BY <1>7, <4>1
        <4>3. Before(d, n, up) /\ Before(d, m, up)
          <5>1. Before(d, n, up)
            BY <1>4, <1>5, <1>6
          <5>2. m = n \/ m \in Under(sub, near) \/ m \in Under(sub, mid)
            BY <1>11
          <5>3. m \in Under(sub, near) => Before(d, m, up)
            <6>1. SUFFICES ASSUME m \in Under(sub, near)
                           PROVE  Before(d, m, up)
              OBVIOUS
            <6>2. Before(d, m, n) /\ m \in Nodes
              BY <1>4, <1>6, <6>1
            <6>3. QED
              BY <1>a, <1>b, <6>2, BeforeIs
          <5>4. QED
            BY <1>7, <5>1, <5>2, <5>3
        <4>4. m \in Nodes /\ k \in Nodes /\ n \in Nodes /\ up \in Nodes
          BY <1>4, <1>5, <1>14
        <4>5. ~Before(d, k, m) /\ ~Before(d, k, n)
          BY <4>2, <4>3, <4>4, BeforeIs
        <4>6. QED
          BY <4>5
      <3>3. QED
        BY <3>1, <3>2
    <2>8. u.child[n][d] = near /\ u.child[n][Opp(d)] = mid
      BY <1>1, <1>9
    <2>9. QED
      <3>1. /\ u.child[n][d] \in X \cup {NULL} /\ u.child[n][Opp(d)] \in X \cup {NULL}
            /\ u.child[n][d] # NULL => u.parent[u.child[n][d]] = n
            /\ u.child[n][Opp(d)] # NULL => u.parent[u.child[n][Opp(d)]] = n
            /\ \A m \in Under(new, u.child[n][d]) : Before(d, m, n)
            /\ \A m \in Under(new, u.child[n][Opp(d)]) : Before(d, n, m)
            /\ new[n] = {n} \cup Under(new, u.child[n][d]) \cup Under(new, u.child[n][Opp(d)])
        BY <1>5, <1>6, <2>1, <2>2, <2>3, <2>8
      <3>2. \A m \in new[n] : m \in X /\ new[m] \subseteq new[n]
        BY <2>5
      <3>3. \A m \in new[n] : m = n \/ u.parent[m] \in new[n]
        BY <2>6
      <3>4. \A m \in new[n], k \in X : k \in new[n] \/ (Before(d, k, m) <=> Before(d, k, n))
        BY <2>7
      <3>5. /\ new \in [Nodes -> SUBSET Nodes] /\ X \in SUBSET Nodes
            /\ \A m, k \in X : Key[m] = Key[k] => m = k
        BY <1>4, <1>11
      <3>6. QED
        BY <3>1, <3>2, <3>3, <3>4, <3>5, RightIs
  <1>16. KidsAreRight(u, new, X, up) /\ SubIsRight(u, new, X, up)
    <2>1. far # NULL => u.parent[far] = up
      BY <1>4, <1>5, <1>7, <1>9, <1>12
    <2>2. /\ \A m \in Under(new, n) : Before(d, m, up)
          /\ \A m \in Under(new, far) : Before(d, up, m)
      <3>1. ASSUME NEW m \in Under(sub, near)
            PROVE  Before(d, m, up)
        <4>1. Before(d, m, n) /\ m \in Nodes
          BY <1>4, <1>6, <3>1
        <4>2. QED
          BY <1>a, <1>b, <4>1, BeforeIs
      <3>2. \A m \in Under(new, n) : m = n \/ m \in Under(sub, near) \/ m \in Under(sub, mid)
        BY <1>11, <1>13
      <3>3. \A m \in Under(new, n) : Before(d, m, up)
        BY <1>7, <1>b, <3>1, <3>2
      <3>4. QED
        BY <1>7, <1>13, <3>3
    <2>3. new[up] = {up} \cup Under(new, n) \cup Under(new, far)
      <3>1. sub[n] = {n} \cup Under(sub, near) \cup ({up} \cup Under(sub, mid) \cup Under(sub, far))
        BY <1>6, <1>7
      <3>2. new[up] = sub[n] /\ Under(new, n) = {n} \cup Under(sub, near) \cup Under(sub, mid)
        BY <1>11, <1>13
      <3>3. Under(new, far) = Under(sub, far)
        BY <1>13
      <3>4. QED
        BY <3>1, <3>2, <3>3
    <2>4. \A m \in new[up] : m \in X /\ new[m] \subseteq new[up]
      BY <1>6, <1>11, <1>14
    <2>5. ASSUME NEW m \in new[up]
          PROVE  m = up \/ u.parent[m] \in new[up]
      <3>1. m \in sub[n] /\ m \in X /\ n \in sub[n] /\ up \in sub[n]
        BY <1>4, <1>6, <1>7, <1>11
      <3>2. CASE m = n
        BY <1>9, <1>11, <3>1, <3>2
      <3>3. CASE m # n /\ m # up
        BY <1>6, <1>9, <1>11, <3>1, <3>3
      <3>4. QED
        BY <3>2, <3>3
    <2>6. ASSUME NEW m \in new[up], NEW k \in X
          PROVE  k \in new[up] \/ (Before(d, k, m) <=> Before(d, k, up))
      <3>1. m \in sub[n] /\ up \in sub[n]
        BY <1>4, <1>5, <1>6, <1>11
      <3>2. QED
        BY <1>6, <1>11, <3>1
    <2>7. u.child[up][d] = n /\ u.child[up][Opp(d)] = far /\ u.parent[n] = up
      BY <1>1, <1>9
    <2>8. QED
      <3>1. /\ u.child[up][d] \in X \cup {NULL} /\ u.child[up][Opp(d)] \in X \cup {NULL}
            /\ u.child[up][d] # NULL => u.parent[u.child[up][d]] = up
            /\ u.child[up][Opp(d)] # NULL => u.parent[u.child[up][Opp(d)]] = up
            /\ \A m \in Under(new, u.child[up][d]) : Before(d, m, up)
            /\ \A m \in Under(new, u.child[up][Opp(d)]) : Before(d, up, m)
            /\ new[up] = {up} \cup Under(new, u.child[up][d]) \cup Under(new, u.child[up][Opp(d)])
        BY <1>7, <2>1, <2>2, <2>3, <2>7
      <3>2. \A m \in new[up] : m = up \/ u.parent[m] \in new[up]
        BY <2>5
      <3>3. \A m \in new[up], k \in X : k \in new[up] \/ (Before(d, k, m) <=> Before(d, k, up))
        BY <2>6
      <3>4. /\ new \in [Nodes -> SUBSET Nodes] /\ X \in SUBSET Nodes /\ up \in X
            /\ \A m, k \in X : Key[m] = Key[k] => m = k
        BY <1>4, <1>5, <1>11
      <3>5. QED
        BY <2>4, <3>1, <3>2, <3>3, <3>4, RightIs
  <1>17. ASSUME NEW x \in X, x # n, x # up
         PROVE  KidsAreRight(u, new, X, x) /\ SubIsRight(u, new, X, x)
    <2>1. /\ KidsAreRight(t, sub, X, x)
          /\ \A m \in sub[x] : m \in X /\ sub[m] \subseteq sub[x]
          /\ \A m \in sub[x] : m = x \/ t.parent[m] \in sub[x]
          /\ SubIsRight(t, sub, X, x)
      BY TreeIs, <1>2 DEF Tree
    <2>2. \A e \in Dir :
            /\ t.child[x][e] \in X \cup {NULL} /\ t.child[x][e] # up
            /\ t.child[x][e] # NULL => t.parent[t.child[x][e]] = x
      BY <1>4, <1>5, <1>17, <2>1 DEF KidsAreRight
    <2>3. \A e \in Dir : Under(new, u.child[x][e]) = Under(sub, t.child[x][e])
      <3>1. SUFFICES ASSUME NEW e \in Dir
                     PROVE  Under(new, u.child[x][e]) = Under(sub, t.child[x][e])
        OBVIOUS
      <3>2. u.child[x][e] = IF t.child[x][e] = n THEN up ELSE t.child[x][e]
        BY <1>9, <1>17
      <3>3. CASE t.child[x][e] = n
        <4>1. Under(sub, n) = sub[n] /\ Under(new, up) = sub[n]
          BY <1>4, <1>13 DEF Under
        <4>2. QED
          BY <3>2, <3>3, <4>1
      <3>4. CASE t.child[x][e] # n
        <4>1. t.child[x][e] = NULL \/ t.child[x][e] \in X \ {n, up}
          BY <2>2, <3>4
        <4>2. QED
          BY <1>11, <3>2, <3>4, <4>1 DEF Under
      <3>5. QED
        BY <3>3, <3>4
    <2>4. ASSUME NEW e \in Dir, u.child[x][e] # NULL
          PROVE  u.child[x][e] \in X /\ u.parent[u.child[x][e]] = x
      <3>1. PICK c : c = t.child[x][e]
        OBVIOUS
      <3>2. CASE c = n
        <4>1. t.parent[n] = x
          BY <1>4, <2>2, <3>1, <3>2
        <4>2. QED
          <5>1. u.child[x][e] = up
            <6>1. t.child[x][e] = n
              BY <3>1, <3>2
            <6>2. u.child[x][e] = IF t.child[x][e] = n THEN up ELSE t.child[x][e]
              BY Zenon, <1>9, <1>17
            <6>3. QED
              BY Zenon, <6>1, <6>2
          <5>2. u.parent[up] = x
            BY Zenon, <1>0, <1>9, <4>1
          <5>3. QED
            BY <1>5, <5>1, <5>2
      <3>3. CASE c # n
        <4>1. u.child[x][e] = c /\ c \in X /\ c # up /\ t.parent[c] = x
          BY <1>9, <1>17, <2>2, <2>4, <3>1, <3>3
        <4>2. c # mid
          BY <1>4, <1>5, <1>17, <4>1
        <4>3. QED
          BY <1>9, <3>3, <4>1, <4>2
      <3>4. QED
        BY <3>2, <3>3
    <2>5. KidsAreRight(u, new, X, x)
      <3>1. \A e \in Dir : u.child[x][e] \in X \cup {NULL}
        BY <2>4
      <3>2. QED
        BY <2>1, <2>3, <2>4, <3>1 DEF KidsAreRight
    <2>6. ASSUME NEW m \in sub[x]
          PROVE  new[m] \subseteq sub[x]
      <3>1. m \in X /\ sub[m] \subseteq sub[x]
        BY <2>1
      <3>2. CASE m = up
        <4>1. n \in sub[x]
          BY <1>5, <1>17, <2>1, <3>2
        <4>2. QED
          BY <1>11, <2>1, <3>2, <4>1
      <3>3. CASE m = n
        BY <1>14, <3>1, <3>3
      <3>4. QED
        BY <1>11, <3>1, <3>2, <3>3
    <2>7. ASSUME NEW m \in sub[x], m # x
          PROVE  u.parent[m] \in sub[x]
      <3>1. m \in X /\ t.parent[m] \in sub[x] /\ sub[m] \subseteq sub[x]
        BY <2>1, <2>7
      <3>2. CASE m = n
        <4>1. up \in sub[n]
          BY <1>4, <1>5, <1>6
        <4>2. QED
          BY <1>9, <3>1, <3>2, <4>1
      <3>3. CASE m = up
        <4>1. n \in sub[x]
          BY <1>5, <3>1, <3>3
        <4>2. p \in sub[x]
          BY Zenon, <1>0, <1>17, <2>1, <4>1
        <4>3. QED
          BY <1>9, <3>3, <4>2
      <3>4. CASE m # n /\ m # up /\ m = mid
        <4>1. up \in sub[x] /\ mid # NULL
          BY <1>4, <1>5, <3>1, <3>4
        <4>2. n \in sub[x]
          BY <1>5, <1>17, <2>1, <4>1
        <4>3. QED
          BY <1>9, <3>1, <3>4, <4>2
      <3>5. CASE m # n /\ m # up /\ m # mid
        BY <1>9, <3>1, <3>5
      <3>6. QED
        BY <3>2, <3>3, <3>4, <3>5
    <2>8. new[x] = sub[x]
      BY <1>11, <1>17
    <2>9. SubIsRight(u, new, X, x)
      BY <2>1, <2>3, <2>6, <2>7, <2>8 DEF SubIsRight
    <2>10. QED
      BY <2>5, <2>9
  <1>18. ASSUME NEW x \in X
         PROVE  ParentIsRight(u, X, x)
    <2>1. ParentIsRight(t, X, x)
      BY DEF Tree
    <2>2. CASE x = n
      <3>1. u.parent[x] = up /\ u.child[up][d] = x
        BY <1>9, <2>2
      <3>2. QED
        BY <1>5, <3>1 DEF ParentIsRight
    <2>3. CASE x = up
      <3>1. u.parent[x] = p
        BY <1>9, <2>3
      <3>2. CASE p = NULL
        BY <1>9, <2>3, <3>1, <3>2 DEF ParentIsRight
      <3>3. CASE p # NULL
        <4>1. PICK e \in Dir : t.child[p][e] = n
          BY <1>8, <3>3
        <4>2. p \in X \ {n, up}
          BY <1>5, <1>8, <3>3
        <4>3. u.child[p][e] = x
          BY <1>9, <2>3, <4>1, <4>2
        <4>4. QED
          BY <3>1, <4>2, <4>3 DEF ParentIsRight
      <3>4. QED
        BY <3>2, <3>3
    <2>4. CASE x # n /\ x # up /\ x = mid
      <3>1. u.parent[x] = n /\ u.child[n][o] = x
        BY <1>9, <2>4
      <3>2. QED
        BY <1>2, <3>1 DEF ParentIsRight
    <2>5. CASE x # n /\ x # up /\ x # mid
      <3>1. u.parent[x] = t.parent[x]
        BY <1>9, <2>5
      <3>2. CASE x = t.root /\ t.parent[x] = NULL
        <4>1. p # NULL
          BY <1>8, <2>5, <3>2
        <4>2. u.root = x
          BY <1>9, <3>2, <4>1
        <4>3. QED
          BY <3>1, <3>2, <4>2 DEF ParentIsRight
      <3>3. CASE t.parent[x] \in X /\ \E e \in Dir : t.child[t.parent[x]][e] = x
        <4>1. PICK q, e : q = t.parent[x] /\ e \in Dir /\ t.child[q][e] = x /\ q \in X
          BY <3>3
        <4>2. CASE q = n
          <5>1. e = d \/ e = o
            BY <1>2, <4>1
          <5>2. e # o
            BY Zenon, <1>0, <1>1, <2>5, <4>1, <4>2
          <5>3. u.child[q][e] = x
            BY <1>3, <1>9, <4>1, <4>2, <5>1, <5>2
          <5>4. QED
            BY <3>1, <4>1, <5>3 DEF ParentIsRight
        <4>3. CASE q = up
          <5>1. e = d \/ e = o
            BY <1>2, <4>1
          <5>2. e # d
            BY Zenon, <1>0, <2>5, <4>1, <4>3
          <5>3. u.child[q][e] = x
            BY <1>3, <1>9, <4>1, <4>3, <5>1, <5>2
          <5>4. QED
            BY <3>1, <4>1, <5>3 DEF ParentIsRight
        <4>4. CASE q # n /\ q # up
          <5>1. u.child[q][e] = x
            BY <1>9, <2>5, <4>1, <4>4
          <5>2. QED
            BY <3>1, <4>1, <5>1 DEF ParentIsRight
        <4>5. QED
          BY <4>2, <4>3, <4>4
      <3>4. QED
        BY <2>1, <3>2, <3>3 DEF ParentIsRight
    <2>6. QED
      BY <2>2, <2>3, <2>4, <2>5
  <1>19. /\ u.root \in X \cup {NULL} /\ X = Under(new, u.root)
         /\ u.root # NULL => u.parent[u.root] = NULL
    <2>1. CASE p = NULL
      <3>1. n = t.root /\ u.root = up
        BY <1>8, <1>9, <2>1
      <3>2. X = sub[n] /\ up # NULL
        BY <1>4, <1>5, <3>1 DEF Under
      <3>3. QED
        BY <1>5, <1>9, <1>13, <2>1, <3>1, <3>2
    <2>2. CASE p # NULL
      <3>1. n # t.root /\ u.root = t.root /\ t.root # up
        BY <1>5, <1>8, <1>9, <2>2
      <3>2. t.root \in X /\ t.root # NULL
        BY <1>4 DEF Under
      <3>3. new[t.root] = X
        BY <1>4, <1>11, <3>1, <3>2 DEF Under
      <3>4. u.parent[t.root] = NULL
        <4>1. t.root # mid
          BY <1>5, <3>2
        <4>2. QED
          BY <1>4, <1>9, <3>1, <3>2, <4>1
      <3>5. QED
        BY <3>1, <3>2, <3>3, <3>4 DEF Under
    <2>3. QED
      BY <2>1, <2>2
  <1>20. Tree(u, new, X)
    <2>1. \A x \in X : KidsAreRight(u, new, X, x) /\ SubIsRight(u, new, X, x)
      BY <1>15, <1>16, <1>17
    <2>2. \A x \in X : ParentIsRight(u, X, x)
      BY <1>18
    <2>3. QED
      BY <1>4, <1>9, <1>11, <1>19, <2>1, <2>2, TreeFrom
  <1>21. QED
    BY <1>20

-----------------------------------------------------------------------------
(* A node with at most one child leaves the tree.                          *)

\* u is t after c, a child of e, took the place of e below p.
Unlinked(t, e, c, p, u) ==
  /\ u \in Trees
  /\ u.root = IF p = NULL THEN c ELSE t.root
  /\ \A x \in Nodes, a \in Dir :
       x # e => u.child[x][a] = IF x = p /\ t.child[x][a] = e THEN c ELSE t.child[x][a]
  /\ \A x \in Nodes : x # e => u.parent[x] = IF x = c THEN p ELSE t.parent[x]
  /\ \A x \in Nodes : x # e => u.color[x] = t.color[x]

\* A node that has only one child, and that child.
LEMMA OnlyChildIs ==
  ASSUME NEW t, NEW sub, NEW X, Tree(t, sub, X), NEW e \in X, NEW d \in Dir,
         t.child[e][Opp(d)] = NULL, NEW c, c = t.child[e][d]
  PROVE  /\ c \in X \cup {NULL} /\ c # e
         /\ c # NULL => t.parent[c] = e
         /\ sub[e] = {e} \cup Under(sub, c) /\ e \notin Under(sub, c)
         /\ c # t.root \/ t.root = NULL
         /\ \A m \in X : t.parent[m] = e => m = c
  <1>1. /\ X \in SUBSET Nodes /\ NULL \notin X /\ \A m \in X : m \in sub[m]
        /\ t.root # NULL => t.parent[t.root] = NULL
    BY WholeIs
  <1>2. /\ c \in X \cup {NULL} /\ (c # NULL => t.parent[c] = e)
        /\ \A m \in Under(sub, c) : Before(d, m, e)
        /\ sub[e] = {e} \cup Under(sub, c) \cup Under(sub, t.child[e][Opp(d)])
    BY TreeIs
  <1>3. Under(sub, t.child[e][Opp(d)]) = {}
    BY DEF Under
  <1>4. e \in Nodes
    BY <1>1
  <1>5. ~Before(d, e, e)
    BY <1>4, BeforeIs
  <1>6. e \notin Under(sub, c)
    BY <1>2, <1>5
  <1>7. c # e
    <2>1. Under(sub, e) = sub[e] /\ e \in sub[e]
      BY <1>1 DEF Under
    <2>2. QED
      BY <1>6, <2>1
  <1>8. ASSUME NEW m \in X, t.parent[m] = e
        PROVE  m = c
    <2>1. HangsFrom(t, m, t.parent[m])
      BY ParentIs
    <2>2. PICK a \in Dir : t.child[e][a] = m
      BY <1>1, <1>8, <2>1 DEF HangsFrom
    <2>3. a = d \/ a = Opp(d)
      BY OppIs
    <2>4. QED
      BY <1>1, <2>2, <2>3
  <1>9. c # t.root \/ t.root = NULL
    BY <1>1, <1>2
  <1>10. QED
    BY <1>2, <1>3, <1>6, <1>7, <1>8, <1>9

\* The rest is a search tree.
LEMMA UnlinkKeeps ==
  ASSUME NEW t, NEW sub, NEW X, Tree(t, sub, X), NEW e \in X, NEW d \in Dir,
         t.child[e][Opp(d)] = NULL, NEW c, c = t.child[e][d], NEW p, p = t.parent[e],
         NEW u, Unlinked(t, e, c, p, u)
  PROVE  \E new : Tree(u, new, X \ {e})
  <1>1. /\ t \in Trees /\ sub \in [Nodes -> SUBSET Nodes] /\ X \in SUBSET Nodes
        /\ t.root \in X \cup {NULL} /\ X = Under(sub, t.root)
        /\ t.root # NULL => t.parent[t.root] = NULL
        /\ \A m, k \in X : Key[m] = Key[k] => m = k
        /\ NULL \notin X /\ \A m \in X : m \in sub[m] /\ sub[m] \subseteq X
        /\ e # NULL
    BY WholeIs
  <1>2. /\ c \in X \cup {NULL} /\ c # e /\ (c # NULL => t.parent[c] = e)
        /\ sub[e] = {e} \cup Under(sub, c) /\ e \notin Under(sub, c)
        /\ c # t.root \/ t.root = NULL
        /\ \A m \in X : t.parent[m] = e => m = c
    BY OnlyChildIs
  <1>3. /\ p \in X \cup {NULL} /\ p # e /\ p \notin sub[e] /\ (p = NULL <=> e = t.root)
        /\ p # NULL => \E a \in Dir : t.child[p][a] = e
    <2>1. /\ t.parent[e] \in X \cup {NULL} /\ (t.parent[e] = NULL <=> e = t.root)
          /\ t.parent[e] # NULL => t.parent[e] # e /\ t.parent[e] \notin sub[e]
      BY ParentIs
    <2>2. HangsFrom(t, e, t.parent[e])
      BY ParentIs
    <2>3. p # NULL => \E a \in Dir : t.child[p][a] = e
      BY <2>2 DEF HangsFrom
    <2>4. NULL \notin sub[e]
      BY <1>1
    <2>5. QED
      BY <1>1, <2>1, <2>3, <2>4
  <1>4. PICK new, Y : new = [k \in Nodes |-> sub[k] \ {e}] /\ Y = X \ {e}
    OBVIOUS
  <1>5. /\ new \in [Nodes -> SUBSET Nodes] /\ Y \in SUBSET Nodes
        /\ \A x \in Y : new[x] = sub[x] \ {e} /\ x \in X /\ x # e
        /\ \A x \in X : x \in Y \/ x = e
        /\ c \in Y \cup {NULL} /\ p \in Y \cup {NULL}
    BY <1>1, <1>2, <1>3, <1>4
  <1>6. \A x \in Y, a \in Dir : t.child[x][a] = e => x = p
    BY <1>1, <1>5, TreeIs
  <1>7. /\ u \in Trees /\ u.root = IF p = NULL THEN c ELSE t.root
        /\ \A x \in Y, a \in Dir :
             u.child[x][a] = IF t.child[x][a] = e THEN c ELSE t.child[x][a]
        /\ \A x \in Y : u.parent[x] = IF x = c THEN p ELSE t.parent[x]
    BY <1>1, <1>5, <1>6 DEF Unlinked
  <1>8. Under(new, c) = Under(sub, c) /\ Under(sub, e) = sub[e]
    <2>1. c # NULL => c \in Y /\ e \notin sub[c]
      BY <1>2, <1>5 DEF Under
    <2>2. c # NULL => new[c] = sub[c]
      <3>1. c # NULL => new[c] = sub[c] \ {e}
        BY <1>5, <2>1
      <3>2. QED
        BY <2>1, <3>1
    <2>3. QED
      BY <1>1, <2>2 DEF Under
  <1>9. ASSUME NEW x \in Y, NEW a \in Dir
        PROVE  /\ u.child[x][a] \in Y \cup {NULL}
               /\ u.child[x][a] # NULL => u.parent[u.child[x][a]] = x
               /\ Under(new, u.child[x][a]) = Under(sub, t.child[x][a]) \ {e}
    <2>1. t.child[x][a] \in X \cup {NULL} /\ (t.child[x][a] # NULL => t.parent[t.child[x][a]] = x)
      BY <1>5, TreeIs
    <2>2. CASE t.child[x][a] = e
      <3>1. u.child[x][a] = c /\ x = p
        BY <1>6, <1>7, <2>2
      <3>2. c # NULL => u.parent[c] = p
        BY <1>5, <1>7
      <3>3. Under(new, c) = Under(sub, e) \ {e}
        BY <1>2, <1>8
      <3>4. QED
        BY <1>5, <2>2, <3>1, <3>2, <3>3
    <2>3. CASE t.child[x][a] # e
      <3>1. PICK m : m = t.child[x][a]
        OBVIOUS
      <3>2. u.child[x][a] = m
        BY <1>7, <2>3, <3>1
      <3>3. m # NULL => m \in Y /\ m # c
        BY <1>2, <1>5, <2>1, <2>3, <3>1
      <3>4. m # NULL => u.parent[m] = x
        BY <1>7, <2>1, <3>1, <3>3
      <3>5. Under(new, m) = Under(sub, m) \ {e}
        BY <1>5, <3>3 DEF Under
      <3>6. QED
        BY <3>1, <3>2, <3>3, <3>4, <3>5
    <2>4. QED
      BY <2>2, <2>3
  <1>10. ASSUME NEW x \in Y
         PROVE  KidsAreRight(u, new, Y, x)
    <2>1. \A a \in Dir : \A m \in Under(sub, t.child[x][a]) : Before(a, m, x)
      BY <1>5, TreeIs
    <2>2. \A a \in Dir : \A m \in Under(new, u.child[x][a]) : Before(a, m, x)
      BY <1>9, <2>1
    <2>3. QED
      BY <1>9, <2>2 DEF KidsAreRight
  <1>11. ASSUME NEW x \in Y
         PROVE  SubIsRight(u, new, Y, x)
    <2>1. /\ \A m \in Nodes :
               m \in sub[x] <=> (m = x \/ \E a \in Dir : m \in Under(sub, t.child[x][a]))
          /\ \A m \in sub[x] :
               /\ m \in X /\ sub[m] \subseteq sub[x]
               /\ m = x \/ t.parent[m] \in sub[x]
          /\ \A m \in sub[x], k \in X : k \in sub[x] \/ (Key[k] < Key[m] <=> Key[k] < Key[x])
      BY <1>5 DEF Tree, SubIsRight
    <2>2. ASSUME NEW m \in Nodes
          PROVE  m \in new[x] <=> (m = x \/ \E a \in Dir : m \in Under(new, u.child[x][a]))
      <3>1. m \in new[x] <=> m \in sub[x] /\ m # e
        BY <1>5
      <3>2. \A a \in Dir : m \in Under(new, u.child[x][a]) <=>
              m \in Under(sub, t.child[x][a]) /\ m # e
        BY <1>9
      <3>3. x # e
        BY <1>5
      <3>4. QED
        BY <2>1, <3>1, <3>2, <3>3
    <2>3. ASSUME NEW m \in new[x]
          PROVE  /\ m \in Y /\ new[m] \subseteq new[x]
                 /\ m = x \/ u.parent[m] \in new[x]
      <3>1. m \in sub[x] /\ m \in Y
        BY <1>5, <2>1
      <3>2. new[m] \subseteq new[x]
        BY <1>5, <2>1, <3>1
      <3>3. CASE m = c /\ m # x
        <4>1. e \in sub[x]
          BY <1>1, <1>2, <1>5, <2>1, <3>1, <3>3
        <4>2. p \in sub[x]
          BY <1>5, <2>1, <4>1
        <4>3. u.parent[m] = p
          BY <1>7, <3>1, <3>3
        <4>4. QED
          BY <1>3, <1>5, <3>1, <3>2, <4>2, <4>3
      <3>4. CASE m # c /\ m # x
        <4>1. t.parent[m] \in sub[x]
          BY <2>1, <3>1, <3>4
        <4>2. t.parent[m] # e
          BY <1>2, <1>5, <3>1, <3>4
        <4>3. u.parent[m] = t.parent[m]
          BY <1>7, <3>1, <3>4
        <4>4. QED
          BY <1>5, <3>1, <3>2, <4>1, <4>2, <4>3
      <3>5. QED
        BY <3>1, <3>2, <3>3, <3>4
    <2>4. \A m \in new[x], k \in Y : k \in new[x] \/ (Key[k] < Key[m] <=> Key[k] < Key[x])
      <3>1. \A k \in Y : k \in X /\ (k \in sub[x] => k \in new[x])
        BY <1>5
      <3>2. \A m \in new[x] : m \in sub[x]
        BY <1>5
      <3>3. QED
        BY <2>1, <3>1, <3>2
    <2>5. QED
      BY <2>2, <2>3, <2>4 DEF SubIsRight
  <1>12. ASSUME NEW x \in Y
         PROVE  ParentIsRight(u, Y, x)
    <2>1. CASE x = c
      <3>1. u.parent[x] = p
        BY <1>7, <2>1
      <3>2. CASE p = NULL
        BY <1>7, <2>1, <3>1, <3>2 DEF ParentIsRight
      <3>3. CASE p # NULL
        <4>1. PICK a \in Dir : t.child[p][a] = e
          BY <1>3, <3>3
        <4>2. p \in Y
          BY <1>5, <3>3
        <4>3. u.child[p][a] = x
          BY <1>7, <2>1, <4>1, <4>2
        <4>4. QED
          BY <3>1, <4>2, <4>3 DEF ParentIsRight
      <3>4. QED
        BY <3>2, <3>3
    <2>2. CASE x # c
      <3>1. u.parent[x] = t.parent[x] /\ t.parent[x] # e
        BY <1>2, <1>5, <1>7, <2>2
      <3>2. ParentIsRight(t, X, x)
        BY <1>5 DEF Tree
      <3>3. CASE x = t.root /\ t.parent[x] = NULL
        <4>1. p # NULL
          BY <1>3, <1>5, <3>3
        <4>2. QED
          BY <1>7, <3>1, <3>3, <4>1 DEF ParentIsRight
      <3>4. CASE t.parent[x] \in X /\ \E a \in Dir : t.child[t.parent[x]][a] = x
        <4>1. PICK a \in Dir : t.child[t.parent[x]][a] = x
          BY <3>4
        <4>2. t.parent[x] \in Y
          BY <1>5, <3>1, <3>4
        <4>3. u.child[t.parent[x]][a] = x
          BY <1>5, <1>7, <4>1, <4>2
        <4>4. QED
          BY <3>1, <4>2, <4>3 DEF ParentIsRight
      <3>5. QED
        BY <3>2, <3>3, <3>4 DEF ParentIsRight
    <2>3. QED
      BY <2>1, <2>2
  <1>13. /\ u.root \in Y \cup {NULL} /\ Y = Under(new, u.root)
         /\ u.root # NULL => u.parent[u.root] = NULL
    <2>1. CASE p = NULL
      <3>1. e = t.root /\ u.root = c
        BY <1>3, <1>7, <2>1
      <3>2. X = {e} \cup Under(sub, c)
        BY <1>1, <1>2, <1>8, <3>1
      <3>3. Y = Under(new, c)
        BY <1>2, <1>4, <1>8, <3>2
      <3>4. c # NULL => u.parent[c] = NULL
        BY <1>5, <1>7, <2>1
      <3>5. QED
        BY <1>5, <3>1, <3>3, <3>4
    <2>2. CASE p # NULL
      <3>1. e # t.root /\ u.root = t.root
        BY <1>3, <1>7, <2>2
      <3>2. t.root \in X /\ t.root # NULL
        BY <1>1 DEF Under
      <3>3. t.root \in Y /\ t.root # c
        BY <1>2, <1>5, <3>1, <3>2
      <3>4. X = sub[t.root]
        BY <1>1, <3>2 DEF Under
      <3>5. Y = new[t.root]
        BY <1>4, <1>5, <3>3, <3>4
      <3>6. u.parent[t.root] = NULL
        BY <1>1, <1>7, <3>2, <3>3
      <3>7. QED
        BY <3>1, <3>2, <3>3, <3>5, <3>6 DEF Under
    <2>3. QED
      BY <2>1, <2>2
  <1>14. Tree(u, new, Y)
    <2>1. \A x \in Y : KidsAreRight(u, new, Y, x) /\ SubIsRight(u, new, Y, x)
      BY <1>10, <1>11
    <2>2. \A x \in Y : ParentIsRight(u, Y, x)
      BY <1>12
    <2>3. \A m, k \in Y : Key[m] = Key[k] => m = k
      BY <1>1, <1>5
    <2>4. QED
      BY <1>5, <1>7, <1>13, <2>1, <2>2, <2>3, TreeFrom
  <1>15. QED
    BY <1>4, <1>14

-----------------------------------------------------------------------------
(* Nodes take the places of others.                                        *)

\* u is t with the nodes of X under other names, which are Y.
Renamed(t, R, X, Y, u) ==
  /\ u \in Trees /\ R \in [X \cup {NULL} -> Y \cup {NULL}] /\ R[NULL] = NULL
  /\ \A x \in X : R[x] \in Y
  /\ \A y \in Y : \E x \in X : y = R[x]
  /\ \A x, k \in X \cup {NULL} : R[x] = R[k] => x = k
  /\ \A x, k \in X : Key[R[x]] < Key[R[k]] <=> Key[x] < Key[k]
  /\ u.root = R[t.root]
  /\ \A x \in X, a \in Dir : u.child[R[x]][a] = R[t.child[x][a]]
  /\ \A x \in X : u.parent[R[x]] = R[t.parent[x]] /\ u.color[R[x]] = t.color[x]

\* It is a search tree too.
LEMMA RenamedKeeps ==
  ASSUME NEW t, NEW sub, NEW X, Tree(t, sub, X), NEW R, NEW Y \in SUBSET Nodes, NEW u,
         Renamed(t, R, X, Y, u)
  PROVE  \E new : Tree(u, new, Y)
  <1>1. /\ t \in Trees /\ sub \in [Nodes -> SUBSET Nodes] /\ X \in SUBSET Nodes
        /\ t.root \in X \cup {NULL} /\ X = Under(sub, t.root)
        /\ t.root # NULL => t.parent[t.root] = NULL
        /\ \A m, k \in X : Key[m] = Key[k] => m = k
        /\ NULL \notin X /\ \A m \in X : m \in sub[m] /\ sub[m] \subseteq X
    BY WholeIs
  <1>2. /\ u \in Trees /\ R[NULL] = NULL
        /\ \A x \in X : R[x] \in Y
        /\ \A y \in Y : \E x \in X : y = R[x]
        /\ \A x, k \in X : R[x] = R[k] => x = k
        /\ \A x \in X \cup {NULL} : R[x] = NULL => x = NULL
    BY DEF Renamed
  <1>3. \A x, k \in X : Key[R[x]] < Key[R[k]] <=> Key[x] < Key[k]
    BY DEF Renamed
  <1>4. /\ u.root = R[t.root]
        /\ \A x \in X, a \in Dir : u.child[R[x]][a] = R[t.child[x][a]]
        /\ \A x \in X : u.parent[R[x]] = R[t.parent[x]]
    BY DEF Renamed
  <1>5. PICK new :
          new = [y \in Nodes |-> {k \in Y : \E x \in X : y = R[x] /\ \E m \in sub[x] : k = R[m]}]
    OBVIOUS
  <1>6. NULL \notin Y /\ Y \subseteq Nodes
    BY SetsAre
  <1>7. /\ new \in [Nodes -> SUBSET Nodes]
        /\ \A y \in Nodes : new[y] \subseteq Y
    BY <1>5, <1>6
  <1>8. \A x, m \in X : R[m] \in new[R[x]] <=> m \in sub[x]
    <2>1. ASSUME NEW x \in X, NEW m \in X
          PROVE  R[m] \in new[R[x]] <=> m \in sub[x]
      <3>1. R[x] \in Nodes /\ R[m] \in Y
        BY <1>2, <1>6
      <3>2. R[m] \in new[R[x]] <=>
              \E z \in X : R[x] = R[z] /\ \E k \in sub[z] : R[m] = R[k]
        BY <1>5, <3>1
      <3>3. \A z \in X : R[x] = R[z] <=> x = z
        BY <1>2
      <3>4. \A k \in sub[x] : R[m] = R[k] <=> m = k
        BY <1>1, <1>2
      <3>5. QED
        BY <3>2, <3>3, <3>4
    <2>2. QED
      BY <2>1
  <1>9. ASSUME NEW c \in X \cup {NULL}, NEW m \in X
        PROVE  R[m] \in Under(new, R[c]) <=> m \in Under(sub, c)
    <2>1. CASE c = NULL
      BY <1>2, <2>1 DEF Under
    <2>2. CASE c # NULL
      <3>1. c \in X /\ R[c] # NULL
        BY <1>2, <2>2
      <3>2. QED
        BY <1>8, <2>2, <3>1 DEF Under
    <2>3. QED
      BY <2>1, <2>2
  <1>10. ASSUME NEW c \in X \cup {NULL}
         PROVE  R[c] \in Y \cup {NULL} /\ Under(new, R[c]) \subseteq Y
    BY <1>2, <1>6, <1>7 DEF Under
  <1>11. ASSUME NEW x \in X
         PROVE  KidsAreRight(u, new, Y, R[x])
    <2>1. ASSUME NEW a \in Dir
          PROVE  /\ u.child[R[x]][a] \in Y \cup {NULL}
                 /\ u.child[R[x]][a] # NULL => u.parent[u.child[R[x]][a]] = R[x]
                 /\ \A k \in Under(new, u.child[R[x]][a]) : Before(a, k, R[x])
      <3>1. PICK c : c = t.child[x][a]
        OBVIOUS
      <3>2. /\ c \in X \cup {NULL} /\ (c # NULL => t.parent[c] = x)
            /\ \A m \in Under(sub, c) : Before(a, m, x)
        BY <3>1, TreeIs
      <3>3. u.child[R[x]][a] = R[c]
        BY <1>4, <3>1
      <3>4. R[c] # NULL => u.parent[R[c]] = R[x]
        BY <1>2, <1>4, <3>2
      <3>5. ASSUME NEW k \in Under(new, R[c])
            PROVE  Before(a, k, R[x])
        <4>1. PICK m \in X : k = R[m]
          BY <1>2, <1>10, <3>2
        <4>2. Before(a, m, x)
          BY <1>9, <3>2, <3>5, <4>1
        <4>3. QED
          BY <1>3, <4>1, <4>2 DEF Before
      <3>6. QED
        BY <1>10, <3>2, <3>3, <3>4, <3>5
    <2>2. QED
      BY <2>1 DEF KidsAreRight
  <1>12. ASSUME NEW x \in X
         PROVE  SubIsRight(u, new, Y, R[x])
    <2>1. /\ \A m \in Nodes :
               m \in sub[x] <=> (m = x \/ \E a \in Dir : m \in Under(sub, t.child[x][a]))
          /\ \A m \in sub[x] :
               /\ m \in X /\ sub[m] \subseteq sub[x]
               /\ m = x \/ t.parent[m] \in sub[x]
          /\ \A m \in sub[x], k \in X : k \in sub[x] \/ (Key[k] < Key[m] <=> Key[k] < Key[x])
      BY DEF Tree, SubIsRight
    <2>2. R[x] \in Y /\ R[x] \in Nodes
      BY <1>2, <1>6
    <2>3. ASSUME NEW k \in Nodes
          PROVE  k \in new[R[x]] <=> (k = R[x] \/ \E a \in Dir : k \in Under(new, u.child[R[x]][a]))
      <3>1. \A a \in Dir : t.child[x][a] \in X \cup {NULL} /\ u.child[R[x]][a] = R[t.child[x][a]]
        BY <1>4, TreeIs
      <3>2. CASE k \notin Y
        <4>1. k \notin new[R[x]] /\ k # R[x]
          BY <1>7, <2>2, <3>2
        <4>2. \A a \in Dir : k \notin Under(new, u.child[R[x]][a])
          BY <1>10, <3>1, <3>2
        <4>3. QED
          BY <4>1, <4>2
      <3>3. CASE k \in Y
        <4>1. PICK m \in X : k = R[m]
          BY <1>2, <3>3
        <4>2. k \in new[R[x]] <=> m \in sub[x]
          BY <1>8, <4>1
        <4>3. k = R[x] <=> m = x
          BY <1>2, <4>1
        <4>4. \A a \in Dir : k \in Under(new, u.child[R[x]][a]) <=> m \in Under(sub, t.child[x][a])
          BY <1>9, <3>1, <4>1
        <4>5. m \in sub[x] <=> (m = x \/ \E a \in Dir : m \in Under(sub, t.child[x][a]))
          BY <1>1, <2>1
        <4>6. QED
          BY <4>2, <4>3, <4>4, <4>5
      <3>4. QED
        BY <3>2, <3>3
    <2>4. ASSUME NEW k \in new[R[x]]
          PROVE  /\ k \in Y /\ new[k] \subseteq new[R[x]]
                 /\ k = R[x] \/ u.parent[k] \in new[R[x]]
      <3>1. k \in Y
        BY <1>7, <2>2
      <3>2. PICK m \in X : k = R[m]
        BY <1>2, <3>1
      <3>3. m \in sub[x]
        BY <1>8, <3>2
      <3>4. sub[m] \subseteq sub[x] /\ (m = x \/ t.parent[m] \in sub[x])
        BY <2>1, <3>3
      <3>5. ASSUME NEW z \in new[k]
            PROVE  z \in new[R[x]]
        <4>1. z \in Y
          BY <1>6, <1>7, <3>1
        <4>2. PICK i \in X : z = R[i]
          BY <1>2, <4>1
        <4>3. i \in sub[x]
          BY <1>8, <3>2, <3>4, <4>2
        <4>4. QED
          BY <1>8, <4>2, <4>3
      <3>6. k = R[x] \/ u.parent[k] \in new[R[x]]
        <4>1. CASE m = x
          BY <3>2, <4>1
        <4>2. CASE t.parent[m] \in sub[x]
          <5>1. t.parent[m] \in X /\ u.parent[k] = R[t.parent[m]]
            BY <1>4, <2>1, <3>2, <4>2
          <5>2. QED
            BY <1>8, <4>2, <5>1
        <4>3. QED
          BY <3>4, <4>1, <4>2
      <3>7. QED
        BY <3>1, <3>5, <3>6
    <2>5. ASSUME NEW m \in new[R[x]], NEW k \in Y
          PROVE  k \in new[R[x]] \/ (Key[k] < Key[m] <=> Key[k] < Key[R[x]])
      <3>1. PICK i \in X, j \in X : m = R[i] /\ k = R[j]
        BY <1>2, <1>7, <2>2
      <3>2. i \in sub[x]
        BY <1>8, <3>1
      <3>3. j \in sub[x] \/ (Key[j] < Key[i] <=> Key[j] < Key[x])
        BY <2>1, <3>2
      <3>4. QED
        BY <1>3, <1>8, <3>1, <3>3
    <2>6. QED
      BY <2>3, <2>4, <2>5 DEF SubIsRight
  <1>13. ASSUME NEW x \in X
         PROVE  ParentIsRight(u, Y, R[x])
    <2>1. ParentIsRight(t, X, x)
      BY DEF Tree
    <2>2. u.parent[R[x]] = R[t.parent[x]]
      BY <1>4
    <2>3. CASE x = t.root /\ t.parent[x] = NULL
      BY <1>2, <1>4, <2>2, <2>3 DEF ParentIsRight
    <2>4. CASE t.parent[x] \in X /\ \E a \in Dir : t.child[t.parent[x]][a] = x
      <3>1. PICK a \in Dir : t.child[t.parent[x]][a] = x
        BY <2>4
      <3>2. u.child[u.parent[R[x]]][a] = R[x] /\ u.parent[R[x]] \in Y
        BY <1>2, <1>4, <2>2, <2>4, <3>1
      <3>3. QED
        BY <3>2 DEF ParentIsRight
    <2>5. QED
      BY <2>1, <2>3, <2>4 DEF ParentIsRight
  <1>14. /\ u.root \in Y \cup {NULL} /\ Y = Under(new, u.root)
         /\ u.root # NULL => u.parent[u.root] = NULL
    <2>1. u.root \in Y \cup {NULL} /\ Under(new, u.root) \subseteq Y
      BY <1>1, <1>4, <1>10
    <2>2. ASSUME NEW y \in Y
          PROVE  y \in Under(new, u.root)
      <3>1. PICK x \in X : y = R[x]
        BY <1>2
      <3>2. x \in Under(sub, t.root)
        BY <1>1
      <3>3. QED
        BY <1>1, <1>4, <1>9, <3>1, <3>2
    <2>3. u.root # NULL => u.parent[u.root] = NULL
      BY <1>1, <1>2, <1>4
    <2>4. QED
      BY <2>1, <2>2, <2>3
  <1>15. \A y, z \in Y : Key[y] = Key[z] => y = z
    <2>1. ASSUME NEW y \in Y, NEW z \in Y, Key[y] = Key[z]
          PROVE  y = z
      <3>1. PICK x \in X, k \in X : y = R[x] /\ z = R[k]
        BY <1>2
      <3>2. /\ Key[y] \in Int /\ Key[z] \in Int /\ Key[x] \in Int /\ Key[k] \in Int
        BY <1>1, <1>6, KeyAssumption
      <3>3. ~(Key[y] < Key[z]) /\ ~(Key[z] < Key[y])
        BY <2>1, <3>2
      <3>4. ~(Key[x] < Key[k]) /\ ~(Key[k] < Key[x])
        BY <1>3, <3>1, <3>3
      <3>5. Key[x] = Key[k]
        BY <3>2, <3>4
      <3>6. QED
        BY <1>1, <3>1, <3>5
    <2>2. QED
      BY <2>1
  <1>16. \A y \in Y : KidsAreRight(u, new, Y, y) /\ SubIsRight(u, new, Y, y)
    BY <1>2, <1>11, <1>12
  <1>17. \A y \in Y : ParentIsRight(u, Y, y)
    BY <1>2, <1>13
  <1>18. Tree(u, new, Y)
    BY <1>2, <1>7, <1>14, <1>15, <1>16, <1>17, TreeFrom
  <1>19. QED
    BY <1>18

-----------------------------------------------------------------------------
(* A new leaf.                                                             *)

\* u is t with the red leaf e below p, on side d.
Hung(t, e, p, d, u) ==
  /\ u \in Trees
  /\ u.root = IF p = NULL THEN e ELSE t.root
  /\ \A a \in Dir : u.child[e][a] = NULL
  /\ \A x \in Nodes, a \in Dir :
       x # e => u.child[x][a] = IF x = p /\ a = d THEN e ELSE t.child[x][a]
  /\ \A x \in Nodes : u.parent[x] = IF x = e THEN p ELSE t.parent[x]
  /\ \A x \in Nodes : u.color[x] = IF x = e THEN "red" ELSE t.color[x]

\* e belongs on side d of p, where the tree X has no node.
Belongs(t, X, e, p, d) ==
  /\ e \in Nodes /\ e \notin X /\ d \in Dir /\ p \in X \cup {NULL}
  /\ p = NULL => t.root = NULL
  /\ p # NULL => t.child[p][d] = NULL /\ Before(d, e, p)
  /\ \A k \in X : Key[k] # Key[e]
  /\ \A k \in X : k # p => (Key[k] < Key[e] <=> Key[k] < Key[p])

\* The tree with the leaf is a search tree.
LEMMA HungKeeps ==
  ASSUME NEW t, NEW sub, NEW X, Tree(t, sub, X), NEW e, NEW p, NEW d,
         Belongs(t, X, e, p, d), NEW u, Hung(t, e, p, d, u)
  PROVE  \E new : Tree(u, new, X \cup {e})
  <1>1. /\ t \in Trees /\ sub \in [Nodes -> SUBSET Nodes] /\ X \in SUBSET Nodes
        /\ t.root \in X \cup {NULL} /\ X = Under(sub, t.root)
        /\ t.root # NULL => t.parent[t.root] = NULL
        /\ \A m, k \in X : Key[m] = Key[k] => m = k
        /\ NULL \notin X /\ \A m \in X : m \in sub[m] /\ sub[m] \subseteq X
    BY WholeIs
  <1>2. /\ e \in Nodes /\ e \notin X /\ d \in Dir /\ p \in X \cup {NULL} /\ e # NULL
        /\ p = NULL => t.root = NULL
        /\ p # NULL => t.child[p][d] = NULL /\ Before(d, e, p)
        /\ \A k \in X : Key[k] # Key[e]
        /\ \A k \in X : k # p => (Key[k] < Key[e] <=> Key[k] < Key[p])
    BY SetsAre DEF Belongs
  <1>3. PICK new, Y :
          /\ new = [k \in Nodes |-> IF k = e THEN {e} ELSE IF p \in sub[k] THEN sub[k] \cup {e}
                                    ELSE sub[k]]
          /\ Y = X \cup {e}
    OBVIOUS
  <1>4. /\ new \in [Nodes -> SUBSET Nodes] /\ Y \in SUBSET Nodes
        /\ new[e] = {e}
        /\ \A x \in X : new[x] = IF p \in sub[x] THEN sub[x] \cup {e} ELSE sub[x]
        /\ \A x \in Y : x \in X \/ x = e
        /\ e \in Y /\ X \subseteq Y
    BY <1>1, <1>2, <1>3
  <1>5. \A x \in X : x # e /\ e \notin sub[x] /\ NULL \notin sub[x]
    BY <1>1, <1>2
  <1>6. /\ u \in Trees /\ u.root = IF p = NULL THEN e ELSE t.root
        /\ \A a \in Dir : u.child[e][a] = NULL
        /\ \A x \in X, a \in Dir :
             u.child[x][a] = IF x = p /\ a = d THEN e ELSE t.child[x][a]
        /\ u.parent[e] = p
        /\ \A x \in X : u.parent[x] = t.parent[x]
    BY <1>1, <1>2, <1>5 DEF Hung
  <1>7. /\ Under(new, e) = {e} /\ Under(new, NULL) = {}
        /\ \A x \in X : Under(new, x) = IF p \in sub[x] THEN sub[x] \cup {e} ELSE sub[x]
        /\ Under(sub, NULL) = {}
        /\ \A x \in X : Under(sub, x) = sub[x]
    BY <1>1, <1>2, <1>4 DEF Under
  <1>8. ASSUME NEW x \in X, NEW a \in Dir
        PROVE  /\ u.child[x][a] \in Y \cup {NULL}
               /\ u.child[x][a] # NULL => u.parent[u.child[x][a]] = x
               /\ \A m \in X : m \in Under(new, u.child[x][a]) <=> m \in Under(sub, t.child[x][a])
               /\ e \in Under(new, u.child[x][a]) <=>
                    ((x = p /\ a = d) \/ p \in Under(sub, t.child[x][a]))
    <2>1. t.child[x][a] \in X \cup {NULL} /\ (t.child[x][a] # NULL => t.parent[t.child[x][a]] = x)
      BY TreeIs
    <2>2. CASE x = p /\ a = d
      <3>1. t.child[x][a] = NULL /\ u.child[x][a] = e
        BY <1>1, <1>2, <1>6, <2>2
      <3>2. QED
        BY <1>4, <1>5, <1>6, <1>7, <2>2, <3>1
    <2>3. CASE ~(x = p /\ a = d)
      <3>1. u.child[x][a] = t.child[x][a]
        BY <1>6, <2>3
      <3>2. CASE t.child[x][a] = NULL
        BY <1>7, <2>3, <3>1, <3>2
      <3>3. CASE t.child[x][a] # NULL
        <4>1. PICK c : c = t.child[x][a]
          OBVIOUS
        <4>2. c \in X /\ u.parent[c] = x
          BY <1>6, <2>1, <3>3, <4>1
        <4>3. Under(new, c) = (IF p \in sub[c] THEN sub[c] \cup {e} ELSE sub[c])
              /\ Under(sub, c) = sub[c] /\ e \notin sub[c]
          BY <1>5, <1>7, <4>2
        <4>4. QED
          BY <1>4, <1>5, <2>3, <3>1, <4>1, <4>2, <4>3
      <3>4. QED
        BY <3>2, <3>3
    <2>4. QED
      BY <2>2, <2>3
  <1>10. ASSUME NEW x \in X
         PROVE  KidsAreRight(u, new, Y, x)
    <2>1. ASSUME NEW a \in Dir, NEW m \in Under(new, u.child[x][a])
          PROVE  Before(a, m, x)
      <3>1. \A k \in Under(sub, t.child[x][a]) : Before(a, k, x)
        BY TreeIs
      <3>2. m \in Y
        <4>1. Under(new, u.child[x][a]) \subseteq Y
          BY <1>1, <1>4, <1>7, <1>8
        <4>2. QED
          BY <2>1, <4>1
      <3>3. CASE m \in X
        BY <1>8, <2>1, <3>1, <3>3
      <3>4. CASE m = e /\ x = p /\ a = d
        BY <1>1, <1>2, <3>4
      <3>5. CASE m = e /\ p \in Under(sub, t.child[x][a])
        <4>1. Before(a, p, x) /\ p \in X
          <5>1. p # NULL
            BY <1>1, <1>7, <3>5, TreeIs
          <5>2. QED
            BY <1>2, <3>1, <3>5, <5>1
        <4>2. x # p
          <5>1. p \in Nodes
            BY <1>1, <4>1
          <5>2. QED
            BY <4>1, <5>1, BeforeIs
        <4>3. /\ Key[x] # Key[e] /\ (Key[x] < Key[e] <=> Key[x] < Key[p])
          BY <1>2, <4>2
        <4>4. Key[x] \in Int /\ Key[e] \in Int /\ Key[p] \in Int
          BY <1>1, <1>2, <4>1, KeyAssumption
        <4>5. QED
          BY <3>5, <4>1, <4>3, <4>4 DEF Before
      <3>6. QED
        BY <1>4, <1>8, <2>1, <3>2, <3>3, <3>4, <3>5
    <2>2. QED
      BY <1>8, <2>1 DEF KidsAreRight
  <1>11. ASSUME NEW x \in X
         PROVE  SubIsRight(u, new, Y, x)
    <2>1. /\ \A m \in Nodes :
               m \in sub[x] <=> (m = x \/ \E a \in Dir : m \in Under(sub, t.child[x][a]))
          /\ \A m \in sub[x] :
               /\ m \in X /\ sub[m] \subseteq sub[x]
               /\ m = x \/ t.parent[m] \in sub[x]
          /\ \A m \in sub[x], k \in X : k \in sub[x] \/ (Key[k] < Key[m] <=> Key[k] < Key[x])
      BY DEF Tree, SubIsRight
    <2>2. \A m \in X : m \in new[x] <=> m \in sub[x]
      <3>1. new[x] = IF p \in sub[x] THEN sub[x] \cup {e} ELSE sub[x]
        BY <1>4
      <3>2. QED
        BY <1>2, <3>1
    <2>3. ASSUME NEW m \in Nodes
          PROVE  m \in new[x] <=> (m = x \/ \E a \in Dir : m \in Under(new, u.child[x][a]))
      <3>1. CASE m \in X
        <4>1. m \in new[x] <=> m \in sub[x]
          BY <2>2, <3>1
        <4>2. \A a \in Dir : m \in Under(new, u.child[x][a]) <=> m \in Under(sub, t.child[x][a])
          BY <1>8, <3>1
        <4>3. QED
          BY <2>1, <4>1, <4>2
      <3>2. CASE m = e
        <4>1. e \in new[x] <=> p \in sub[x]
          BY <1>4, <1>5
        <4>2. p \in sub[x] <=> (p = x \/ \E a \in Dir : p \in Under(sub, t.child[x][a]))
          <5>1. CASE p = NULL
            <6>1. \A a \in Dir : NULL \notin Under(sub, t.child[x][a])
              BY <1>1, <1>7, TreeIs
            <6>2. QED
              BY <1>1, <1>5, <5>1, <6>1
          <5>2. CASE p # NULL
            BY <1>1, <1>2, <2>1, <5>2
          <5>3. QED
            BY <5>1, <5>2
        <4>3. (\E a \in Dir : e \in Under(new, u.child[x][a])) <=>
                (p = x \/ \E a \in Dir : p \in Under(sub, t.child[x][a]))
          BY <1>2, <1>8
        <4>4. QED
          BY <1>5, <3>2, <4>1, <4>2, <4>3
      <3>3. CASE m \notin Y
        <4>1. m \notin new[x] /\ m # x
          <5>1. sub[x] \subseteq X /\ x \in Y
            BY <1>1, <1>4
          <5>2. new[x] \subseteq sub[x] \cup {e}
            BY <1>4
          <5>3. QED
            BY <1>4, <3>3, <5>1, <5>2
        <4>2. \A a \in Dir : Under(new, u.child[x][a]) \subseteq Y
          BY <1>1, <1>4, <1>7, <1>8
        <4>3. QED
          BY <3>3, <4>1, <4>2
      <3>4. QED
        BY <1>4, <3>1, <3>2, <3>3
    <2>4. ASSUME NEW m \in new[x]
          PROVE  /\ m \in Y /\ new[m] \subseteq new[x]
                 /\ m = x \/ u.parent[m] \in new[x]
      <3>1. CASE m = e
        <4>1. p \in sub[x]
          BY <1>4, <1>5, <3>1
        <4>2. QED
          BY <1>4, <1>6, <3>1, <4>1
      <3>2. CASE m \in sub[x]
        <4>1. m \in X /\ sub[m] \subseteq sub[x]
          BY <2>1, <3>2
        <4>2. new[m] \subseteq new[x]
          BY <1>4, <4>1
        <4>3. sub[x] \subseteq new[x]
          BY <1>4
        <4>4. m = x \/ u.parent[m] \in new[x]
          BY <1>6, <2>1, <3>2, <4>1, <4>3
        <4>5. QED
          BY <1>4, <4>1, <4>2, <4>4
      <3>3. QED
        BY <1>4, <3>1, <3>2
    <2>5. ASSUME NEW m \in new[x], NEW k \in Y, k \notin new[x]
          PROVE  Key[k] < Key[m] <=> Key[k] < Key[x]
      <3>1. /\ \A z \in X : Key[z] \in Int
            /\ Key[e] \in Int
        BY <1>1, <1>2, KeyAssumption
      <3>2. CASE k = e
        <4>1. p \notin sub[x] /\ m \in sub[x]
          BY <1>4, <2>5, <3>2
        <4>2. m \in X /\ m # p /\ x # p
          BY <1>1, <2>1, <4>1
        <4>3. p \in X
          BY <1>1, <1>2, <4>2 DEF Under
        <4>4. Key[p] < Key[m] <=> Key[p] < Key[x]
          BY <2>1, <4>1, <4>3
        <4>5. /\ Key[m] # Key[e] /\ (Key[m] < Key[e] <=> Key[m] < Key[p])
              /\ Key[x] # Key[e] /\ (Key[x] < Key[e] <=> Key[x] < Key[p])
              /\ Key[m] # Key[p] /\ Key[x] # Key[p]
          BY <1>1, <1>2, <4>2, <4>3
        <4>6. Key[m] \in Int /\ Key[x] \in Int /\ Key[p] \in Int
          BY <3>1, <4>2, <4>3
        <4>7. QED
          BY <3>1, <3>2, <4>4, <4>5, <4>6
      <3>3. CASE k # e /\ m = e
        <4>1. p \in sub[x] /\ k \in X /\ k \notin sub[x] /\ k # p
          <5>1. e \in new[x] /\ k \in Y /\ k \notin new[x]
            BY <2>5, <3>3
          <5>2. k \in X
            BY <1>4, <3>3, <5>1
          <5>3. p \in sub[x]
            BY <1>4, <1>5, <5>1
          <5>4. sub[x] \subseteq new[x]
            BY <1>4
          <5>5. QED
            BY <5>1, <5>2, <5>3, <5>4
        <4>2. Key[k] < Key[p] <=> Key[k] < Key[x]
          BY <2>1, <4>1
        <4>3. QED
          BY <1>2, <3>3, <4>1, <4>2
      <3>4. CASE k # e /\ m # e
        <4>1. m \in sub[x] /\ k \in X /\ k \notin sub[x]
          BY <1>4, <2>5, <3>4
        <4>2. QED
          BY <2>1, <4>1
      <3>5. QED
        BY <3>2, <3>3, <3>4
    <2>6. QED
      BY <2>3, <2>4, <2>5 DEF SubIsRight
  <1>12. KidsAreRight(u, new, Y, e) /\ SubIsRight(u, new, Y, e)
    <2>1. KidsAreRight(u, new, Y, e)
      BY <1>6, <1>7 DEF KidsAreRight
    <2>2. SubIsRight(u, new, Y, e)
      BY <1>4, <1>6, <1>7 DEF SubIsRight
    <2>3. QED
      BY <2>1, <2>2
  <1>13. ASSUME NEW x \in Y
         PROVE  ParentIsRight(u, Y, x)
    <2>1. CASE x = e
      <3>1. CASE p = NULL
        BY <1>6, <2>1, <3>1 DEF ParentIsRight
      <3>2. CASE p # NULL
        <4>1. u.child[p][d] = e /\ p \in Y
          BY <1>2, <1>4, <1>6, <3>2
        <4>2. QED
          BY <1>2, <1>6, <2>1, <4>1 DEF ParentIsRight
      <3>3. QED
        BY <3>1, <3>2
    <2>2. CASE x \in X
      <3>1. ParentIsRight(t, X, x) /\ u.parent[x] = t.parent[x] /\ x # NULL
        BY <1>1, <1>6, <2>2 DEF Tree
      <3>2. p # NULL /\ u.root = t.root
        BY <1>1, <1>2, <1>6, <2>2 DEF Under
      <3>3. CASE x = t.root /\ t.parent[x] = NULL
        BY <3>1, <3>2, <3>3 DEF ParentIsRight
      <3>4. CASE t.parent[x] \in X /\ \E a \in Dir : t.child[t.parent[x]][a] = x
        <4>1. PICK a \in Dir : t.child[t.parent[x]][a] = x
          BY <3>4
        <4>2. u.child[t.parent[x]][a] = x
          BY <1>2, <1>6, <3>1, <3>2, <3>4, <4>1
        <4>3. QED
          BY <1>4, <3>1, <3>4, <4>2 DEF ParentIsRight
      <3>5. QED
        BY <3>1, <3>3, <3>4 DEF ParentIsRight
    <2>3. QED
      BY <1>4, <2>1, <2>2
  <1>14. /\ u.root \in Y \cup {NULL} /\ Y = Under(new, u.root)
         /\ u.root # NULL => u.parent[u.root] = NULL
    <2>1. CASE p = NULL
      <3>1. X = {} /\ u.root = e
        BY <1>1, <1>2, <1>6, <2>1 DEF Under
      <3>2. QED
        BY <1>3, <1>4, <1>6, <1>7, <2>1, <3>1
    <2>2. CASE p # NULL
      <3>1. u.root = t.root /\ p \in X
        BY <1>2, <1>6, <2>2
      <3>2. t.root \in X /\ t.root # NULL
        BY <1>1, <3>1 DEF Under
      <3>3. sub[t.root] = X
        BY <1>1, <3>2 DEF Under
      <3>4. Under(new, t.root) = Y
        BY <1>3, <1>7, <3>1, <3>2, <3>3
      <3>5. u.parent[t.root] = NULL
        BY <1>1, <1>6, <3>2
      <3>6. QED
        BY <1>4, <3>1, <3>2, <3>4, <3>5
    <2>3. QED
      BY <2>1, <2>2
  <1>15. \A m, k \in Y : Key[m] = Key[k] => m = k
    BY <1>1, <1>2, <1>4
  <1>16. Tree(u, new, Y)
    <2>1. \A x \in Y : KidsAreRight(u, new, Y, x) /\ SubIsRight(u, new, Y, x)
      BY <1>4, <1>10, <1>11, <1>12
    <2>2. QED
      BY <1>4, <1>6, <1>13, <1>14, <1>15, <2>1, TreeFrom
  <1>17. QED
    BY <1>3, <1>16

-----------------------------------------------------------------------------
(* The writes of RB_REMOVE and RB_INSERT.                                  *)

\* What Forget does.
LEMMA ForgetIs ==
  ASSUME NEW t \in Trees, NEW n \in Nodes
  PROVE  /\ Forget(t, n) \in Trees
         /\ Forget(t, n).root = t.root
         /\ \A x \in Nodes : x # n =>
              /\ Forget(t, n).child[x] = t.child[x]
              /\ Forget(t, n).parent[x] = t.parent[x]
              /\ Forget(t, n).color[x] = t.color[x]
  <1>1. STALE \in Links /\ [d \in Dir |-> STALE] \in [Dir -> Links] /\ "red" \in Colors
    BY SetsAre DEF Colors
  <1>2. Forget(t, n) = [t EXCEPT !.parent[n] = STALE, !.child[n] = [d \in Dir |-> STALE],
                                 !.color[n] = "red"]
    BY DEF Forget
  <1>3. Forget(t, n) \in Trees
    <2>1. PICK g, r : g = [d \in Dir |-> STALE] /\ r = "red"
      OBVIOUS
    <2>2. g \in [Dir -> Links] /\ STALE \in Links /\ r \in Colors
      BY <1>1, <2>1
    <2>3. [t EXCEPT !.parent[n] = STALE, !.child[n] = g, !.color[n] = r] \in Trees
      BY <2>2 DEF Trees
    <2>4. QED
      BY <1>2, <2>1, <2>3
  <1>4. Forget(t, n).root = t.root
    BY <1>2 DEF Trees
  <1>5. \A x \in Nodes : x # n =>
          /\ Forget(t, n).child[x] = t.child[x]
          /\ Forget(t, n).parent[x] = t.parent[x]
          /\ Forget(t, n).color[x] = t.color[x]
    BY <1>2 DEF Trees
  <1>6. QED
    BY <1>3, <1>4, <1>5

\* Unlinked says nothing of the node itself.
LEMMA ForgetUnlinked ==
  ASSUME NEW t, NEW e \in Nodes, NEW c, NEW p, NEW u, Unlinked(t, e, c, p, u)
  PROVE  Unlinked(t, e, c, p, Forget(u, e))
  <1>1. u \in Trees
    BY DEF Unlinked
  <1>2. PICK v : v = Forget(u, e)
    OBVIOUS
  <1>3. /\ v \in Trees /\ v.root = u.root
        /\ \A x \in Nodes : x # e =>
             v.child[x] = u.child[x] /\ v.parent[x] = u.parent[x] /\ v.color[x] = u.color[x]
    BY <1>1, <1>2, ForgetIs
  <1>4. Unlinked(t, e, c, p, v)
    BY <1>3 DEF Unlinked
  <1>5. QED
    BY <1>2, <1>4

\* What the writes do that unlink a node.
LEMMA UnlinkWrites ==
  ASSUME NEW t, NEW sub, NEW X, Tree(t, sub, X), NEW e \in X, NEW c, c \in X \cup {NULL},
         NEW p, p = t.parent[e], NEW u, u = Replace(SetParent(t, c, p), p, e, c)
  PROVE  Unlinked(t, e, c, p, u)
  <1>1. t \in Trees /\ e \in Nodes
    BY WholeIs
  <1>2. c \in N0
    BY WholeIs, SetsAre
  <1>3. p \in N0 /\ HangsFrom(t, e, p)
    BY ParentIs
  <1>4. p \in Links
    BY <1>3, SetsAre
  <1>5. PICK v : v = SetParent(t, c, p)
    OBVIOUS
  <1>6. /\ v \in Trees /\ v.root = t.root /\ v.child = t.child /\ v.color = t.color
        /\ \A x \in Nodes : v.parent[x] = IF x = c THEN p ELSE t.parent[x]
    BY <1>1, <1>2, <1>4, <1>5, SetParentIs
  <1>7. HangsFrom(v, e, p)
    BY <1>3, <1>6 DEF HangsFrom
  <1>8. /\ u \in Trees /\ u.root = (IF p = NULL THEN c ELSE v.root)
        /\ \A x \in Nodes, a \in Dir :
             u.child[x][a] = IF x = p /\ v.child[x][a] = e THEN c ELSE v.child[x][a]
        /\ u.parent = v.parent /\ u.color = v.color
    BY <1>1, <1>2, <1>3, <1>5, <1>6, <1>7, ReplaceIs
  <1>9. QED
    BY <1>6, <1>8 DEF Unlinked

\* e takes the place of old: the key of no other node is between theirs.
Succeeds(X, old, e) ==
  /\ old \in X /\ e \in Nodes /\ e \notin X
  /\ \A k \in X : k # old => (Key[k] < Key[e] <=> Key[k] < Key[old])
  /\ \A k \in X : k # old => Key[k] # Key[e]

\* The new name of a node.
Rename(X, old, e) == [x \in X \cup {NULL} |-> IF x = old THEN e ELSE x]

\* Its links, its colour and its place go from old to e.
Spliced(t, old, e) ==
  LET t2 == [t EXCEPT !.child[e] = t.child[old], !.parent[e] = t.parent[old],
                      !.color[e] = t.color[old]]
      t3 == Replace(t2, t2.parent[old], old, e)
      t4 == SetParent(SetParent(t3, Left(t3, old), e), Right(t3, old), e)
  IN  Forget(t4, old)

\* What the writes do.
LEMMA SpliceWrites ==
  ASSUME NEW t, NEW sub, NEW X, Tree(t, sub, X), NEW old, NEW e, Succeeds(X, old, e),
         NEW u, u = Spliced(t, old, e), NEW R, R = Rename(X, old, e),
         NEW Y, Y = (X \ {old}) \cup {e}
  PROVE  Renamed(t, R, X, Y, u)
  <1>1. /\ t \in Trees /\ X \in SUBSET Nodes /\ t.root \in X \cup {NULL} /\ NULL \notin X
        /\ old \in X /\ e \in Nodes /\ e \notin X /\ e # NULL /\ old # NULL /\ old \in Nodes
        /\ \A k \in X : Key[k] = Key[old] => k = old
    BY WholeIs, SetsAre DEF Succeeds
  <1>2. PICK p, l, r : p = t.parent[old] /\ l = t.child[old]["L"] /\ r = t.child[old]["R"]
    OBVIOUS
  <1>3. /\ p \in X \cup {NULL} /\ p \in N0 /\ (p = NULL <=> old = t.root)
        /\ p # old /\ HangsFrom(t, old, p)
    BY <1>1, <1>2, ParentIs
  <1>4. /\ \A x \in X, a \in Dir :
             /\ t.child[x][a] \in X \cup {NULL}
             /\ t.child[x][a] # NULL => t.parent[t.child[x][a]] = x
    BY TreeIs
  <1>5. l \in X \cup {NULL} /\ r \in X \cup {NULL} /\ l # old /\ r # old
    BY <1>1, <1>2, <1>3, <1>4, SidesAre
  <1>6. \A x \in X : t.parent[x] = old <=> (x = l \/ x = r)
    <2>1. ASSUME NEW x \in X, t.parent[x] = old
          PROVE  x = l \/ x = r
      <3>1. HangsFrom(t, x, t.parent[x])
        BY ParentIs
      <3>2. PICK a \in Dir : t.child[old][a] = x
        BY <1>1, <2>1, <3>1 DEF HangsFrom
      <3>3. QED
        BY <1>2, <3>2, SidesAre
    <2>2. \A x \in X : x = l \/ x = r => t.parent[x] = old
      BY <1>1, <1>2, <1>4, SidesAre
    <2>3. QED
      BY <2>1, <2>2
  <1>7. \A x \in X, a \in Dir : t.child[x][a] = old => x = p
    BY <1>1, <1>2, <1>4
  <1>8. PICK t2, t3, t4, t5 :
          /\ t2 = [t EXCEPT !.child[e] = t.child[old], !.parent[e] = t.parent[old],
                            !.color[e] = t.color[old]]
          /\ t3 = Replace(t2, t2.parent[old], old, e)
          /\ t4 = SetParent(t3, Left(t3, old), e)
          /\ t5 = SetParent(t4, Right(t3, old), e)
    OBVIOUS
  <1>9. u = Forget(t5, old)
    BY <1>8 DEF Spliced
  <1>10. /\ t2 \in Trees /\ t2.root = t.root
         /\ \A x \in Nodes : t2.child[x] = t.child[IF x = e THEN old ELSE x]
         /\ \A x \in Nodes : t2.parent[x] = t.parent[IF x = e THEN old ELSE x]
         /\ \A x \in Nodes : t2.color[x] = t.color[IF x = e THEN old ELSE x]
    BY <1>1, <1>8 DEF Trees
  <1>11. t2.parent[old] = p
    BY <1>1, <1>2, <1>10
  <1>12. HangsFrom(t2, old, p)
    <2>1. p # NULL => t2.child[p] = t.child[p]
      BY <1>1, <1>3, <1>10
    <2>2. QED
      BY <1>3, <2>1 DEF HangsFrom
  <1>13. e \in N0 /\ e \in Links
    BY <1>1, SetsAre
  <1>14. /\ t3 \in Trees /\ t3.root = (IF p = NULL THEN e ELSE t2.root)
         /\ t3.parent = t2.parent /\ t3.color = t2.color
         /\ \A x \in Nodes, a \in Dir :
              t3.child[x][a] = IF x = p /\ t2.child[x][a] = old THEN e ELSE t2.child[x][a]
    <2>1. t3 = Replace(t2, p, old, e)
      BY <1>8, <1>11
    <2>2. QED
      BY <1>1, <1>3, <1>10, <1>12, <1>13, <2>1, ReplaceIs
  <1>15. Left(t3, old) = l /\ Right(t3, old) = r
    BY <1>1, <1>2, <1>3, <1>10, <1>14, SidesAre DEF Left, Right
  <1>16. l \in N0 /\ r \in N0
    BY <1>1, <1>5, SetsAre
  <1>17. /\ t4 \in Trees /\ t4.root = t3.root /\ t4.child = t3.child /\ t4.color = t3.color
         /\ \A x \in Nodes : t4.parent[x] = IF x = l THEN e ELSE t3.parent[x]
    <2>1. t4 = SetParent(t3, l, e)
      BY <1>8, <1>15
    <2>2. t3 \in Trees
      BY <1>14
    <2>3. l \in N0
      BY <1>16
    <2>4. e \in Links
      BY <1>13
    <2>5. QED
      BY <2>1, <2>2, <2>3, <2>4, SetParentIs
  <1>18. /\ t5 \in Trees /\ t5.root = t4.root /\ t5.child = t4.child /\ t5.color = t4.color
         /\ \A x \in Nodes : t5.parent[x] = IF x = r THEN e ELSE t4.parent[x]
    <2>1. t5 = SetParent(t4, r, e)
      BY <1>8, <1>15
    <2>2. t4 \in Trees
      BY <1>17
    <2>3. r \in N0
      BY <1>16
    <2>4. e \in Links
      BY <1>13
    <2>5. QED
      BY <2>1, <2>2, <2>3, <2>4, SetParentIs
  <1>19. /\ u \in Trees /\ u.root = t5.root
         /\ \A x \in Nodes : x # old =>
              u.child[x] = t5.child[x] /\ u.parent[x] = t5.parent[x] /\ u.color[x] = t5.color[x]
    <2>1. t5 \in Trees
      BY <1>18
    <2>2. old \in Nodes
      BY <1>1
    <2>3. QED
      BY <1>9, <2>1, <2>2, ForgetIs
  <1>20. /\ R \in [X \cup {NULL} -> Y \cup {NULL}] /\ R[NULL] = NULL
         /\ \A x \in X : R[x] = IF x = old THEN e ELSE x
         /\ \A x \in X : R[x] \in Y
    BY <1>1 DEF Rename
  <1>21. /\ \A y \in Y : \E x \in X : y = R[x]
         /\ \A x, k \in X \cup {NULL} : R[x] = R[k] => x = k
    <2>1. \A y \in Y : \E x \in X : y = R[x]
      BY <1>1, <1>20
    <2>2. \A x, k \in X \cup {NULL} : R[x] = R[k] => x = k
      BY <1>1, <1>20
    <2>3. QED
      BY <2>1, <2>2
  <1>22. \A x, k \in X : Key[R[x]] < Key[R[k]] <=> Key[x] < Key[k]
    <2>1. ASSUME NEW x \in X, NEW k \in X
          PROVE  Key[R[x]] < Key[R[k]] <=> Key[x] < Key[k]
      <3>1. /\ Key[x] \in Int /\ Key[k] \in Int /\ Key[e] \in Int /\ Key[old] \in Int
        BY <1>1, KeyAssumption
      <3>2. /\ \A z \in X : z # old => (Key[z] < Key[e] <=> Key[z] < Key[old])
            /\ \A z \in X : z # old => Key[z] # Key[e] /\ Key[z] # Key[old]
        BY <1>1 DEF Succeeds
      <3>3. CASE x = old /\ k = old
        BY <1>20, <3>1, <3>3
      <3>4. CASE x = old /\ k # old
        <4>1. R[x] = e /\ R[k] = k
          BY <1>20, <3>4
        <4>2. /\ Key[k] < Key[e] <=> Key[k] < Key[old]
              /\ Key[k] # Key[e] /\ Key[k] # Key[old]
          BY <3>2, <3>4
        <4>3. QED
          BY <3>1, <3>4, <4>1, <4>2
      <3>5. CASE x # old /\ k = old
        <4>1. R[x] = x /\ R[k] = e
          BY <1>20, <3>5
        <4>2. QED
          BY <3>2, <3>5, <4>1
      <3>6. CASE x # old /\ k # old
        BY <1>20, <3>6
      <3>7. QED
        BY <3>3, <3>4, <3>5, <3>6
    <2>2. QED
      BY <2>1
  <1>23. u.root = R[t.root]
    <2>1. CASE p = NULL
      BY <1>1, <1>3, <1>14, <1>17, <1>18, <1>19, <1>20, <2>1
    <2>2. CASE p # NULL
      <3>1. u.root = t.root /\ t.root # old
        BY <1>3, <1>10, <1>14, <1>17, <1>18, <1>19, <2>2
      <3>2. QED
        BY <1>1, <1>20, <3>1
    <2>3. QED
      BY <2>1, <2>2
  <1>24. ASSUME NEW x \in X, NEW a \in Dir
         PROVE  u.child[R[x]][a] = R[t.child[x][a]]
    <2>1. t.child[x][a] \in X \cup {NULL}
      BY <1>4
    <2>2. R[t.child[x][a]] = IF t.child[x][a] = old THEN e ELSE t.child[x][a]
      BY <1>1, <1>20, <2>1
    <2>3. CASE x = old
      <3>1. u.child[e][a] = t3.child[e][a]
        BY <1>1, <1>17, <1>18, <1>19
      <3>2. e # p
        BY <1>1, <1>3
      <3>3. t3.child[e][a] = t.child[old][a]
        BY <1>1, <1>10, <1>14, <3>2
      <3>4. t.child[old][a] # old
        BY <1>1, <1>3, <1>7
      <3>5. QED
        BY <1>20, <2>2, <2>3, <3>1, <3>3, <3>4
    <2>4. CASE x # old
      <3>1. x \in Nodes /\ x # e
        BY <1>1
      <3>2. u.child[x][a] = t3.child[x][a]
        BY <1>17, <1>18, <1>19, <2>4, <3>1
      <3>3. t3.child[x][a] = IF x = p /\ t.child[x][a] = old THEN e ELSE t.child[x][a]
        BY <1>10, <1>14, <3>1
      <3>4. QED
        BY <1>7, <1>20, <2>2, <2>4, <3>2, <3>3
    <2>5. QED
      BY <2>3, <2>4
  <1>25. ASSUME NEW x \in X
         PROVE  u.parent[R[x]] = R[t.parent[x]] /\ u.color[R[x]] = t.color[x]
    <2>1. t.parent[x] \in X \cup {NULL}
      BY ParentIs
    <2>2. R[t.parent[x]] = IF t.parent[x] = old THEN e ELSE t.parent[x]
      BY <1>1, <1>20, <2>1
    <2>3. x \in Nodes
      BY <1>1
    <2>4. CASE x = old
      <3>1. e # l /\ e # r /\ e # old
        BY <1>1, <1>5
      <3>2. u.parent[e] = p /\ u.color[e] = t.color[old]
        BY <1>1, <1>2, <1>10, <1>14, <1>17, <1>18, <1>19, <3>1
      <3>3. QED
        BY <1>2, <1>3, <1>20, <2>2, <2>4, <3>2
    <2>5. CASE x # old
      <3>1. x # e
        BY <1>1
      <3>2. u.parent[x] = (IF x = r THEN e ELSE IF x = l THEN e ELSE t.parent[x])
        BY <1>10, <1>14, <1>17, <1>18, <1>19, <2>3, <2>5, <3>1
      <3>3. u.color[x] = t.color[x]
        BY <1>10, <1>14, <1>17, <1>18, <1>19, <2>3, <2>5, <3>1
      <3>4. QED
        BY <1>6, <1>20, <2>2, <2>5, <3>2, <3>3
    <2>6. QED
      BY <2>4, <2>5
  <1>26. QED
    BY <1>19, <1>20, <1>21, <1>22, <1>23, <1>24, <1>25 DEF Renamed

\* The tree to which InsertLink links a new node.
Linked(t, e, p) ==
  LET v == RB_SET(t, e, p)
  IN  IF p # NULL THEN SetChild(v, p, Side(e, p), e) ELSE [v EXCEPT !.root = e]

\* What its writes do.
LEMMA LinkWrites ==
  ASSUME NEW t \in Trees, NEW e \in Nodes, NEW p \in N0, p # e,
         NEW d \in Dir, p # NULL => d = Side(e, p), NEW u, u = Linked(t, e, p)
  PROVE  Hung(t, e, p, d, u)
  <1>1. PICK v : v = RB_SET(t, e, p)
    OBVIOUS
  <1>2. NULL \in Links /\ p \in Links /\ e \in Links /\ e \in N0 /\ e # NULL
    BY SetsAre
  <1>3. /\ v \in Trees /\ v.root = t.root
        /\ \A x \in Nodes, a \in Dir : v.child[x][a] = IF x = e THEN NULL ELSE t.child[x][a]
        /\ \A x \in Nodes : v.parent[x] = IF x = e THEN p ELSE t.parent[x]
        /\ \A x \in Nodes : v.color[x] = IF x = e THEN "red" ELSE t.color[x]
    BY <1>1, <1>2 DEF RB_SET, Trees, Colors
  <1>4. CASE p = NULL
    <2>1. u = [v EXCEPT !.root = e]
      BY <1>1, <1>4 DEF Linked
    <2>2. /\ u \in Trees /\ u.root = e /\ u.child = v.child /\ u.parent = v.parent
          /\ u.color = v.color
      BY <1>2, <1>3, <2>1, SetRootIs
    <2>3. \A x \in Nodes : x # p
      BY <1>4, SetsAre
    <2>4. QED
      BY <1>3, <1>4, <2>2, <2>3 DEF Hung
  <1>5. CASE p # NULL
    <2>1. u = SetChild(v, p, d, e) /\ p \in Nodes
      BY <1>1, <1>5, SetsAre DEF Linked
    <2>2. /\ u \in Trees /\ u.root = v.root /\ u.parent = v.parent /\ u.color = v.color
          /\ \A x \in Nodes, a \in Dir :
               u.child[x][a] = IF x = p /\ a = d THEN e ELSE v.child[x][a]
      <3>1. v \in Trees
        BY <1>3
      <3>2. p \in Nodes
        BY <2>1
      <3>3. e \in Links
        BY <1>2
      <3>4. QED
        BY <2>1, <3>1, <3>2, <3>3, SetChildIs
    <2>3. QED
      BY <1>3, <1>5, <2>2 DEF Hung
  <1>6. QED
    BY <1>4, <1>5

-----------------------------------------------------------------------------
(* The black nodes on the paths.                                           *)

\* w has the links of t, and perhaps other colours.
Painted(t, w) == w \in Trees /\ w.root = t.root /\ w.child = t.child /\ w.parent = t.parent

\* The numbers of a balanced tree.
LEMMA BalancedIs ==
  ASSUME NEW t, NEW bh, NEW X \in SUBSET Nodes, NEW q, NEW f, Balanced(t, bh, X, q, f)
  PROVE  /\ bh \in [Nodes -> Nat]
         /\ \A x \in X, a \in Dir :
              bh[x] = Own(t, x) + Height(bh, t.child[x][a]) + Missing(q, f, x, a)
         /\ \A x \in X : bh[x] \in Nat
         /\ \A x : Own(t, x) \in {0, 1}
         /\ \A x, a : Missing(q, f, x, a) \in {0, 1}
         /\ \A x \in X \cup {NULL} : Height(bh, x) \in Nat
  BY SetsAre DEF Balanced, Own, Missing, Height

\* The numbers of a node and a child of its.
LEMMA BranchIs ==
  ASSUME NEW t, NEW bh, NEW X \in SUBSET Nodes, NEW q, NEW f, Balanced(t, bh, X, q, f),
         NEW x \in X, NEW a \in Dir
  PROVE  bh[x] = Own(t, x) + Height(bh, t.child[x][a]) + Missing(q, f, x, a)
  BY DEF Balanced

\* Which links a rotation changes, among the nodes of the tree.
LEMMA TurnedFields ==
  ASSUME NEW t, NEW sub, NEW X, Tree(t, sub, X), NEW n \in X, NEW d \in Dir,
         NEW up, NEW near, NEW mid, NEW far, NEW p, Pivot(t, n, d, up, near, mid, far, p),
         NEW w, Painted(t, w), NEW u, Turned(w, n, d, up, mid, p, u)
  PROVE  /\ u.child[n][d] = near /\ u.child[n][Opp(d)] = mid
         /\ u.child[up][d] = n /\ u.child[up][Opp(d)] = far
         /\ \A x \in X, a \in Dir :
              x # n /\ x # up => u.child[x][a] = IF t.child[x][a] = n THEN up ELSE t.child[x][a]
         /\ u.parent[n] = up /\ u.parent[up] = p
         /\ \A x \in X : x # n /\ x # up => u.parent[x] = IF x = mid THEN n ELSE t.parent[x]
         /\ u.color = w.color /\ u.root = IF p = NULL THEN up ELSE t.root
         /\ near # n /\ near # up /\ mid # n /\ mid # up /\ far # n /\ far # up
         /\ \A x \in X, a \in Dir : x # n /\ x # up => t.child[x][a] # up
         /\ up \in X /\ up # n /\ near \in X \cup {NULL} /\ mid \in X \cup {NULL}
         /\ far \in X \cup {NULL}
  <1>0. /\ up = t.child[n][Opp(d)] /\ up # NULL /\ near = t.child[n][d]
        /\ mid = t.child[up][d] /\ far = t.child[up][Opp(d)] /\ p = t.parent[n]
    BY DEF Pivot
  <1>1. PICK o : o = Opp(d)
    OBVIOUS
  <1>2. o \in Dir /\ o # d /\ \A e \in Dir : e = d \/ e = o
    BY <1>1, OppIs
  <1>3. /\ X \in SUBSET Nodes /\ NULL \notin X
    BY WholeIs
  <1>4. /\ up \in X /\ up # n /\ t.parent[up] = n /\ up # t.root /\ up # p
        /\ mid \in X \cup {NULL}
        /\ mid # NULL => t.parent[mid] = up /\ mid # n /\ mid # up
    BY PivotIs
  <1>5. near \in X \cup {NULL} /\ (near # NULL => t.parent[near] = n)
    <2>1. near = t.child[n][d]
      BY <1>0
    <2>2. QED
      BY <2>1, KidIs
  <1>6. far \in X \cup {NULL} /\ (far # NULL => t.parent[far] = up)
    <2>1. far = t.child[up][o]
      BY <1>0, <1>1
    <2>2. QED
      BY <1>2, <1>4, <2>1, KidIs
  <1>7. /\ p \in X \cup {NULL} /\ p # n
        /\ \A x \in X : t.parent[x] # NULL => t.parent[x] # x
    <2>1. \A x \in X : /\ t.parent[x] \in X \cup {NULL}
                       /\ t.parent[x] # NULL => t.parent[x] # x
      BY ParentIs
    <2>2. QED
      BY Zenon, <1>0, <1>3, <2>1
  <1>8. far # n
    <2>1. far = n => p = up
      BY <1>0, <1>3, <1>6
    <2>2. QED
      BY <1>4, <2>1
  <1>9. near # n /\ near # up /\ far # up
    <2>1. near # n /\ far # up
      BY <1>3, <1>4, <1>5, <1>6, <1>7
    <2>2. near # up
      <3>1. HangsFrom(t, up, t.parent[up])
        BY <1>4, ParentIs
      <3>2. PICK a \in Dir : t.child[n][a] = up /\ t.child[n][Opp(a)] # up
        BY Zenon, <1>0, <1>3, <1>4, <3>1 DEF HangsFrom
      <3>3. QED
        BY Zenon, <1>0, <1>1, <1>2, <3>2, OppIs
    <2>3. QED
      BY <2>1, <2>2
  <1>10. \A x \in X, a \in Dir :
           u.child[x][a] = IF x = n /\ a = o THEN mid ELSE IF x = up /\ a = d THEN n
                           ELSE IF x = p /\ t.child[x][a] = n THEN up ELSE t.child[x][a]
    BY <1>1, <1>3 DEF Turned, Painted
  <1>11. u.child[n][d] = near /\ u.child[n][o] = mid
    BY Zenon, <1>0, <1>2, <1>4, <1>7, <1>10
  <1>12. u.child[up][d] = n /\ u.child[up][o] = far
    BY Zenon, <1>0, <1>1, <1>2, <1>4, <1>10
  <1>13. \A x \in X, a \in Dir : t.child[x][a] = n => x = p
    <2> TAKE x \in X, a \in Dir
    <2> HAVE t.child[x][a] = n
    <2>1. t.parent[t.child[x][a]] = x
      BY <1>3, KidIs
    <2>2. QED
      BY <1>0, <2>1
  <1>14. \A x \in X, a \in Dir : x # n /\ x # up => t.child[x][a] # up
    BY <1>3, <1>4, TreeIs
  <1>15. \A x \in X, a \in Dir :
           x # n /\ x # up => u.child[x][a] = IF t.child[x][a] = n THEN up ELSE t.child[x][a]
    BY <1>10, <1>13
  <1>16. \A x \in X :
           u.parent[x] = IF x = n THEN up ELSE IF x = up THEN p
                         ELSE IF x = mid THEN n ELSE t.parent[x]
    BY <1>3 DEF Turned, Painted
  <1>17. u.color = w.color /\ u.root = IF p = NULL THEN up ELSE t.root
    BY DEF Turned, Painted
  <1>18. mid # n /\ mid # up
    BY <1>3, <1>4
  <1>19. QED
    BY <1>1, <1>4, <1>5, <1>6, <1>8, <1>9, <1>11, <1>12, <1>14, <1>15, <1>16, <1>17, <1>18

\* The red node up takes the colour of n, which turns red.
Swapped(t, w, X, n, up) ==
  \A x \in X : Own(w, x) = IF x = n THEN 0 ELSE IF x = up THEN Own(t, n) ELSE Own(t, x)

\* The node up takes the colour of n; n and far turn black.
Mended(t, w, X, n, up, far) ==
  \A x \in X : Own(w, x) = IF x = up THEN Own(t, n) ELSE IF x \in {n, far} THEN 1 ELSE Own(t, x)

\* A rotation by which a red node comes up and takes the colour of the other,
\* which turns red, keeps the numbers of black nodes on the paths.
LEMMA TurnBalance ==
  ASSUME NEW t, NEW sub, NEW X, Tree(t, sub, X), NEW n \in X, NEW d \in Dir,
         NEW up, NEW near, NEW mid, NEW far, NEW p, Pivot(t, n, d, up, near, mid, far, p),
         NEW w, Painted(t, w), NEW u, Turned(w, n, d, up, mid, p, u),
         NEW bh, NEW q, NEW f, Balanced(t, bh, X, q, f), q # up, q = n => f = d,
         Own(t, up) = 0, Swapped(t, w, X, n, up)
  PROVE  \E b : Balanced(u, b, X, q, f)
  <1>1. PICK o : o = Opp(d)
    OBVIOUS
  <1>2. o \in Dir /\ o # d /\ \A e \in Dir : e = d \/ e = o
    BY <1>1, OppIs
  <1>3. X \in SUBSET Nodes /\ NULL \notin X
    BY WholeIs
  <1>4. /\ up \in X /\ up # n /\ near \in X \cup {NULL} /\ mid \in X \cup {NULL}
        /\ far \in X \cup {NULL}
        /\ near # n /\ near # up /\ mid # n /\ mid # up /\ far # n /\ far # up
    BY TurnedFields
  <1>5. /\ u.child[n][d] = near /\ u.child[n][o] = mid
        /\ u.child[up][d] = n /\ u.child[up][o] = far
    BY <1>1, TurnedFields
  <1>6. \A x \in X, a \in Dir : x # n /\ x # up =>
          /\ u.child[x][a] = IF t.child[x][a] = n THEN up ELSE t.child[x][a]
          /\ t.child[x][a] # up /\ t.child[x][a] \in X \cup {NULL}
    BY TurnedFields, TreeIs
  <1>7. /\ Own(u, n) = 0 /\ Own(u, up) = Own(t, n)
        /\ \A x \in X : x # n /\ x # up => Own(u, x) = Own(t, x)
    <2>1. u.color = w.color
      BY TurnedFields
    <2>2. \A x : Own(u, x) = Own(w, x)
      BY <2>1 DEF Own
    <2>3. QED
      BY <1>4, <2>2 DEF Swapped
  <1>8. /\ bh \in [Nodes -> Nat] /\ bh[n] \in Nat /\ bh[up] \in Nat
        /\ Height(bh, near) \in Nat /\ Height(bh, mid) \in Nat /\ Height(bh, far) \in Nat
        /\ Own(t, n) \in Nat /\ Missing(q, f, n, d) \in Nat
    BY <1>3, <1>4, BalancedIs
  <1>9. /\ Missing(q, f, up, d) = 0 /\ Missing(q, f, up, o) = 0 /\ Missing(q, f, n, o) = 0
    BY <1>2 DEF Missing
  <1>10. /\ t.child[n][d] = near /\ t.child[n][o] = up
         /\ t.child[up][d] = mid /\ t.child[up][o] = far
    BY <1>1 DEF Pivot
  <1>11. Height(bh, n) = bh[n] /\ Height(bh, up) = bh[up]
    BY <1>3, <1>4 DEF Height
  <1>12. /\ bh[n] = Own(t, n) + Height(bh, near) + Missing(q, f, n, d)
         /\ bh[n] = Own(t, n) + bh[up]
         /\ bh[up] = Height(bh, mid) /\ bh[up] = Height(bh, far)
    <2>1. bh[n] = Own(t, n) + Height(bh, near) + Missing(q, f, n, d)
      BY <1>3, <1>10, BranchIs
    <2>2. bh[n] = Own(t, n) + Height(bh, up) + Missing(q, f, n, o)
      BY <1>2, <1>3, <1>10, BranchIs
    <2>3. bh[up] = Own(t, up) + Height(bh, mid) + Missing(q, f, up, d)
      BY <1>3, <1>4, <1>10, BranchIs
    <2>4. bh[up] = Own(t, up) + Height(bh, far) + Missing(q, f, up, o)
      BY <1>2, <1>3, <1>4, <1>10, BranchIs
    <2>5. QED
      BY <1>8, <1>9, <1>11, <2>1, <2>2, <2>3, <2>4
  <1>13. PICK b : b = [bh EXCEPT ![up] = bh[n], ![n] = Height(bh, near) + Missing(q, f, n, d)]
    OBVIOUS
  <1>14. /\ b \in [Nodes -> Nat] /\ b[up] = bh[n]
         /\ b[n] = Height(bh, near) + Missing(q, f, n, d)
         /\ \A x \in X : x # n /\ x # up => b[x] = bh[x]
    <2>1. Height(bh, near) + Missing(q, f, n, d) \in Nat
      BY <1>8
    <2>2. up \in Nodes /\ n \in Nodes /\ up # n
      BY <1>3, <1>4
    <2>3. \A x \in X : x \in Nodes
      BY <1>3
    <2>4. QED
      BY <1>8, <1>13, <2>1, <2>2, <2>3
  <1>15. \A x \in X \cup {NULL} : x # n /\ x # up => Height(b, x) = Height(bh, x)
    BY <1>14 DEF Height
  <1>16. Height(b, n) = b[n] /\ Height(b, up) = bh[n]
    BY <1>3, <1>4, <1>14 DEF Height
  <1>17. Height(b, near) = Height(bh, near) /\ Height(b, mid) = Height(bh, mid)
         /\ Height(b, far) = Height(bh, far)
    BY <1>4, <1>15
  <1>18. ASSUME NEW x \in X, NEW a \in Dir
         PROVE  b[x] = Own(u, x) + Height(b, u.child[x][a]) + Missing(q, f, x, a)
    <2>1. CASE x = n /\ a = d
      <3>1. b[n] = 0 + Height(b, near) + Missing(q, f, n, d)
        BY <1>8, <1>14, <1>17
      <3>2. QED
        BY <1>5, <1>7, <2>1, <3>1
    <2>2. CASE x = n /\ a = o
      <3>1. b[n] = bh[up] /\ bh[up] = Height(b, mid)
        <4>1. bh[up] = Height(bh, near) + Missing(q, f, n, d)
          BY <1>8, <1>12
        <4>2. QED
          BY <1>12, <1>14, <1>17, <4>1
      <3>2. QED
        BY <1>5, <1>7, <1>8, <1>9, <2>2, <3>1
    <2>3. CASE x = up /\ a = d
      <3>1. b[up] = Own(t, n) + Height(b, n) + 0
        BY <1>8, <1>12, <1>14, <1>16
      <3>2. QED
        BY <1>5, <1>7, <1>9, <2>3, <3>1
    <2>4. CASE x = up /\ a = o
      <3>1. b[up] = Own(t, n) + Height(b, far) + 0
        BY <1>8, <1>12, <1>14, <1>17
      <3>2. QED
        BY <1>5, <1>7, <1>9, <2>4, <3>1
    <2>5. CASE x # n /\ x # up
      <3>1. Height(b, u.child[x][a]) = Height(bh, t.child[x][a])
        <4>1. CASE t.child[x][a] = n
          BY <1>6, <1>11, <1>16, <2>5, <4>1
        <4>2. CASE t.child[x][a] # n
          BY <1>6, <1>15, <2>5, <4>2
        <4>3. QED
          BY <4>1, <4>2
      <3>2. b[x] = bh[x] /\ Own(u, x) = Own(t, x)
        BY <1>7, <1>14, <2>5
      <3>3. bh[x] = Own(t, x) + Height(bh, t.child[x][a]) + Missing(q, f, x, a)
        BY <1>3, BranchIs
      <3>4. QED
        BY <3>1, <3>2, <3>3
    <2>6. QED
      BY <1>2, <2>1, <2>2, <2>3, <2>4, <2>5
  <1>19. QED
    BY <1>14, <1>18 DEF Balanced

\* The last rotation of RB_REMOVE_COLOR brings the black node that was lacking
\* below n: up, which is black, takes the colour of n, and n and the red child
\* of up turn black.
LEMMA MendBalance ==
  ASSUME NEW t, NEW sub, NEW X, Tree(t, sub, X), NEW n \in X, NEW d \in Dir,
         NEW up, NEW near, NEW mid, NEW far, NEW p, Pivot(t, n, d, up, near, mid, far, p),
         far # NULL, NEW w, Painted(t, w), NEW u, Turned(w, n, d, up, mid, p, u),
         NEW bh, Balanced(t, bh, X, n, d), Own(t, up) = 1, Own(t, far) = 0,
         Mended(t, w, X, n, up, far)
  PROVE  \E b : Balanced(u, b, X, NULL, "L")
  <1>1. PICK o : o = Opp(d)
    OBVIOUS
  <1>2. o \in Dir /\ o # d /\ \A e \in Dir : e = d \/ e = o
    BY <1>1, OppIs
  <1>3. X \in SUBSET Nodes /\ NULL \notin X
    BY WholeIs
  <1>4. /\ up \in X /\ up # n /\ near \in X \cup {NULL} /\ mid \in X \cup {NULL}
        /\ far \in X
        /\ near # n /\ near # up /\ mid # n /\ mid # up /\ far # n /\ far # up
    BY TurnedFields
  <1>5. /\ u.child[n][d] = near /\ u.child[n][o] = mid
        /\ u.child[up][d] = n /\ u.child[up][o] = far
    BY <1>1, TurnedFields
  <1>6. \A x \in X, a \in Dir : x # n /\ x # up =>
          /\ u.child[x][a] = IF t.child[x][a] = n THEN up ELSE t.child[x][a]
          /\ t.child[x][a] # up /\ t.child[x][a] \in X \cup {NULL}
    BY TurnedFields, TreeIs
  <1>7. /\ Own(u, n) = 1 /\ Own(u, up) = Own(t, n) /\ Own(u, far) = 1
        /\ \A x \in X : x # n /\ x # up /\ x # far => Own(u, x) = Own(t, x)
    <2>1. u.color = w.color
      BY TurnedFields
    <2>2. \A x : Own(u, x) = Own(w, x)
      BY <2>1 DEF Own
    <2>3. QED
      BY <1>4, <2>2 DEF Mended
  <1>8. /\ bh \in [Nodes -> Nat] /\ bh[n] \in Nat /\ bh[up] \in Nat /\ bh[far] \in Nat
        /\ Height(bh, near) \in Nat /\ Height(bh, mid) \in Nat
        /\ Own(t, n) \in Nat
    BY <1>3, <1>4, BalancedIs
  <1>9. /\ Missing(n, d, up, d) = 0 /\ Missing(n, d, up, o) = 0 /\ Missing(n, d, n, o) = 0
        /\ Missing(n, d, n, d) = 1
        /\ \A x \in X, a \in Dir : Missing(NULL, "L", x, a) = 0
        /\ \A x \in X, a \in Dir : x # n => Missing(n, d, x, a) = 0
    BY <1>2, <1>3, <1>4 DEF Missing
  <1>10. /\ t.child[n][d] = near /\ t.child[n][o] = up
         /\ t.child[up][d] = mid /\ t.child[up][o] = far
    BY <1>1 DEF Pivot
  <1>11. Height(bh, n) = bh[n] /\ Height(bh, up) = bh[up] /\ Height(bh, far) = bh[far]
    BY <1>3, <1>4 DEF Height
  <1>12. /\ bh[n] = Own(t, n) + Height(bh, near) + 1
         /\ bh[n] = Own(t, n) + bh[up]
         /\ bh[up] = 1 + Height(bh, mid) /\ bh[up] = 1 + bh[far]
    <2>1. bh[n] = Own(t, n) + Height(bh, near) + Missing(n, d, n, d)
      BY <1>3, <1>10, BranchIs
    <2>2. bh[n] = Own(t, n) + Height(bh, up) + Missing(n, d, n, o)
      BY <1>2, <1>3, <1>10, BranchIs
    <2>3. bh[up] = Own(t, up) + Height(bh, mid) + Missing(n, d, up, d)
      BY <1>3, <1>4, <1>10, BranchIs
    <2>4. bh[up] = Own(t, up) + Height(bh, far) + Missing(n, d, up, o)
      BY <1>2, <1>3, <1>4, <1>10, BranchIs
    <2>5. QED
      BY <1>8, <1>9, <1>11, <2>1, <2>2, <2>3, <2>4
  <1>13. /\ \A x \in X, a \in Dir : t.child[x][a] = far => x = up
         /\ near # far /\ mid # far
    <2>1. t.parent[far] = up
      BY <1>2, <1>3, <1>4, <1>10, TreeIs
    <2>2. \A x \in X, a \in Dir : t.child[x][a] = far => x = up
      BY <1>3, <1>4, <2>1, TreeIs
    <2>3. near # far
      BY <1>4, <1>10, <2>2
    <2>4. HangsFrom(t, far, t.parent[far])
      BY <1>4, ParentIs
    <2>5. mid # far
      BY <1>2, <1>3, <1>4, <1>10, <2>1, <2>4, OppIs DEF HangsFrom
    <2>6. QED
      BY <2>2, <2>3, <2>5
  <1>14. PICK b :
           b = [bh EXCEPT ![up] = bh[n], ![n] = Height(bh, near) + 1, ![far] = bh[far] + 1]
    OBVIOUS
  <1>15. /\ b \in [Nodes -> Nat] /\ b[up] = bh[n] /\ b[n] = Height(bh, near) + 1
         /\ b[far] = bh[far] + 1
         /\ \A x \in X : x # n /\ x # up /\ x # far => b[x] = bh[x]
    <2>1. Height(bh, near) + 1 \in Nat /\ bh[far] + 1 \in Nat
      BY <1>8
    <2>2. up \in Nodes /\ n \in Nodes /\ far \in Nodes /\ up # n /\ far # up /\ far # n
      BY <1>3, <1>4
    <2>3. \A x \in X : x \in Nodes
      BY <1>3
    <2>4. QED
      BY <1>8, <1>14, <2>1, <2>2, <2>3
  <1>16. \A x \in X \cup {NULL} : x # n /\ x # up /\ x # far => Height(b, x) = Height(bh, x)
    BY <1>15 DEF Height
  <1>17. Height(b, n) = b[n] /\ Height(b, up) = bh[n] /\ Height(b, far) = b[far]
    BY <1>3, <1>4, <1>15 DEF Height
  <1>18. Height(b, near) = Height(bh, near) /\ Height(b, mid) = Height(bh, mid)
    BY <1>4, <1>13, <1>16
  <1>19. ASSUME NEW x \in X, NEW a \in Dir
         PROVE  b[x] = Own(u, x) + Height(b, u.child[x][a]) + Missing(NULL, "L", x, a)
    <2>0. Missing(NULL, "L", x, a) = 0
      BY <1>9
    <2>1. CASE x = n /\ a = d
      <3>1. b[n] = 1 + Height(b, near) + 0
        BY <1>8, <1>15, <1>18
      <3>2. QED
        BY <1>5, <1>7, <2>0, <2>1, <3>1
    <2>2. CASE x = n /\ a = o
      <3>1. b[n] = 1 + Height(b, mid) + 0
        BY <1>8, <1>12, <1>15, <1>18
      <3>2. QED
        BY <1>5, <1>7, <2>0, <2>2, <3>1
    <2>3. CASE x = up /\ a = d
      <3>1. b[up] = Own(t, n) + Height(b, n) + 0
        BY <1>8, <1>12, <1>15, <1>17
      <3>2. QED
        BY <1>5, <1>7, <2>0, <2>3, <3>1
    <2>4. CASE x = up /\ a = o
      <3>1. b[up] = Own(t, n) + Height(b, far) + 0
        BY <1>8, <1>12, <1>15, <1>17
      <3>2. QED
        BY <1>5, <1>7, <2>0, <2>4, <3>1
    <2>5. CASE x # n /\ x # up
      <3>1. Height(b, u.child[x][a]) = Height(bh, t.child[x][a])
        <4>1. CASE t.child[x][a] = n
          BY <1>6, <1>11, <1>17, <2>5, <4>1
        <4>2. CASE t.child[x][a] # n
          BY <1>6, <1>13, <1>16, <2>5, <4>2
        <4>3. QED
          BY <4>1, <4>2
      <3>2. bh[x] = Own(t, x) + Height(bh, t.child[x][a]) + 0
        <4>1. bh[x] = Own(t, x) + Height(bh, t.child[x][a]) + Missing(n, d, x, a)
          BY <1>3, BranchIs
        <4>2. Missing(n, d, x, a) = 0
          BY <1>9, <2>5
        <4>3. QED
          BY <4>1, <4>2
      <3>3. Height(bh, t.child[x][a]) \in Nat
        BY <1>3, <1>6, <2>5, BalancedIs
      <3>4. CASE x = far
        <4>1. bh[far] = 0 + Height(bh, t.child[x][a]) + 0
          BY <3>2, <3>4
        <4>2. b[far] = 1 + Height(bh, t.child[x][a]) + 0
          BY <1>15, <3>3, <4>1
        <4>3. QED
          BY <1>7, <2>0, <3>1, <3>4, <4>2
      <3>5. CASE x # far
        BY <1>7, <1>15, <2>0, <2>5, <3>1, <3>2, <3>5
      <3>6. QED
        BY <3>4, <3>5
    <2>6. QED
      BY <1>2, <2>1, <2>2, <2>3, <2>4, <2>5
  <1>20. QED
    BY <1>15, <1>19 DEF Balanced

-----------------------------------------------------------------------------
(* Other colours.                                                          *)

\* w is t after the nodes of B turned black and those of R red.
Repainted(t, w, X, B, R) ==
  /\ Painted(t, w)
  /\ \A x \in X : Own(w, x) = IF x \in R THEN 0 ELSE IF x \in B THEN 1 ELSE Own(t, x)

\* What red means.
LEMMA RedIs ==
  ASSUME NEW t, NEW n
  PROVE  /\ IsRed(t, n) <=> (n # NULL /\ Own(t, n) = 0)
         /\ Own(t, n) = 0 \/ Own(t, n) = 1
  BY DEF IsRed, Own

\* What SetColor does to the counts.
LEMMA PaintOne ==
  ASSUME NEW t \in Trees, NEW n \in N0, NEW c \in Colors, NEW w, w = SetColor(t, n, c)
  PROVE  /\ Painted(t, w)
         /\ \A x \in Nodes : Own(w, x) = IF x = n THEN (IF c = "red" THEN 0 ELSE 1) ELSE Own(t, x)
  BY SetColorIs DEF Painted, Own

\* Colours change the shape of no tree.
LEMMA PaintedKeeps ==
  ASSUME NEW t, NEW sub, NEW X, Tree(t, sub, X), NEW w, Painted(t, w)
  PROVE  Tree(w, sub, X)
  BY SameLinks DEF Painted

\* Where a change of colours leaves two red nodes one below the other.
LEMMA PaintReds ==
  ASSUME NEW t, NEW sub, NEW X, Tree(t, sub, X), NEW w, NEW B, NEW R, Repainted(t, w, X, B, R),
         NEW E, RedsApart(t, X, E), NEW F,
         \A x \in X : (x \in E \/ x \in R \/ t.parent[x] \in R) =>
           x \in F \/ Own(w, x) = 1 \/ t.parent[x] = NULL \/ Own(w, t.parent[x]) = 1
  PROVE  RedsApart(w, X, F)
  <1>1. SUFFICES ASSUME NEW x \in X, IsRed(w, x), IsRed(w, w.parent[x])
                 PROVE  x \in F
    BY DEF RedsApart
  <1>2. PICK p : p = t.parent[x]
    OBVIOUS
  <1>3. w.parent[x] = p
    BY <1>2 DEF Repainted, Painted
  <1>4. p # NULL /\ p \in X /\ Own(w, x) = 0 /\ Own(w, p) = 0
    <2>1. p # NULL /\ Own(w, x) = 0 /\ Own(w, p) = 0
      BY <1>1, <1>3, RedIs
    <2>2. p \in X \cup {NULL}
      BY <1>2, ParentIs
    <2>3. QED
      BY <2>1, <2>2
  <1>5. CASE x \in R \/ p \in R \/ x \in E
    BY <1>2, <1>4, <1>5
  <1>6. CASE x \notin R /\ p \notin R
    <2>1. Own(t, x) = 0 /\ Own(t, p) = 0
      BY <1>4, <1>6 DEF Repainted
    <2>2. x # NULL
      BY WholeIs
    <2>3. x \in E
      BY <1>2, <1>4, <2>1, <2>2, RedIs DEF RedsApart
    <2>4. QED
      BY <1>2, <1>4, <2>3
  <1>7. QED
    BY <1>5, <1>6

\* Where a rotation leaves two red nodes one below the other.
LEMMA TurnReds ==
  ASSUME NEW t, NEW sub, NEW X, Tree(t, sub, X), NEW n \in X, NEW d \in Dir,
         NEW up, NEW near, NEW mid, NEW far, NEW p, Pivot(t, n, d, up, near, mid, far, p),
         NEW w, Painted(t, w), NEW u, Turned(w, n, d, up, mid, p, u),
         NEW E, RedsApart(w, X, E), NEW F,
         \A x \in E : x \in {n, up, mid} \/ x \in F,
         n \in F \/ Own(w, n) = 1 \/ Own(w, up) = 1,
         up \in F \/ Own(w, up) = 1 \/ p = NULL \/ Own(w, p) = 1,
         mid \in F \/ Own(w, n) = 1 \/ mid = NULL \/ Own(w, mid) = 1
  PROVE  RedsApart(u, X, F)
  <1>1. SUFFICES ASSUME NEW x \in X, IsRed(u, x), IsRed(u, u.parent[x])
                 PROVE  x \in F
    BY DEF RedsApart
  <1>2. /\ u.parent[n] = up /\ u.parent[up] = p
        /\ x # n /\ x # up => u.parent[x] = IF x = mid THEN n ELSE t.parent[x]
    BY TurnedFields
  <1>3. \A y : (IsRed(u, y) <=> IsRed(w, y)) /\ (IsRed(w, y) <=> (y # NULL /\ Own(w, y) = 0))
    <2>1. u.color = w.color
      BY DEF Turned
    <2>2. QED
      BY <2>1, RedIs DEF IsRed
  <1>4. CASE x = n
    BY <1>1, <1>2, <1>3, <1>4
  <1>5. CASE x = up
    BY <1>1, <1>2, <1>3, <1>5
  <1>6. CASE x # n /\ x # up /\ x = mid
    BY <1>1, <1>2, <1>3, <1>6
  <1>7. CASE x # n /\ x # up /\ x # mid
    <2>1. u.parent[x] = w.parent[x]
      BY <1>2, <1>7 DEF Painted
    <2>2. IsRed(w, x) /\ IsRed(w, w.parent[x])
      BY <1>1, <1>3, <2>1
    <2>3. QED
      BY <1>7, <2>2 DEF RedsApart
  <1>8. QED
    BY <1>4, <1>5, <1>6, <1>7

\* The numbers after other colours.
LEMMA PaintBalance ==
  ASSUME NEW t, NEW sub, NEW X, Tree(t, sub, X), NEW w, Painted(t, w),
         NEW bh, NEW q, NEW f, Balanced(t, bh, X, q, f), NEW r, NEW g,
         NEW b \in [Nodes -> Nat],
         \A x \in X, a \in Dir :
           b[x] = Own(w, x) + Height(b, t.child[x][a]) + Missing(r, g, x, a)
  PROVE  \E c : Balanced(w, c, X, r, g)
  <1>1. w.child = t.child
    BY DEF Painted
  <1>2. Balanced(w, b, X, r, g)
    BY <1>1 DEF Balanced
  <1>3. QED
    BY <1>2

\* A red uncle: g passes its black to its children.
LEMMA UncleBalance ==
  ASSUME NEW t, NEW sub, NEW X, Tree(t, sub, X), NEW g \in X, NEW d \in Dir,
         NEW p \in X, p = t.child[g][d], NEW v \in X, v = t.child[g][Opp(d)],
         Own(t, p) = 0, Own(t, v) = 0, Own(t, g) = 1,
         NEW w, Repainted(t, w, X, {p, v}, {g}), NEW bh, Balanced(t, bh, X, NULL, "L")
  PROVE  \E c : Balanced(w, c, X, NULL, "L")
  <1>1. X \in SUBSET Nodes /\ NULL \notin X
    BY WholeIs
  <1>2. t.parent[p] = g /\ t.parent[v] = g /\ p # v /\ g # p /\ g # v
    <2>1. t.parent[p] = g
      BY <1>1, KidIs
    <2>2. t.parent[v] = g
      BY <1>1, KidIs, OppIs
    <2>3. g # p /\ g # v
      BY <1>1, <2>1, <2>2, ParentIs
    <2>4. p # v
      <3>1. HangsFrom(t, p, t.parent[p])
        BY ParentIs
      <3>2. QED
        BY <1>1, <2>1, <3>1, OppIs DEF HangsFrom
    <2>5. QED
      BY <2>1, <2>2, <2>3, <2>4
  <1>3. /\ bh \in [Nodes -> Nat] /\ bh[p] \in Nat /\ bh[v] \in Nat
        /\ \A x \in X \cup {NULL} : Height(bh, x) \in Nat
    BY Zenon, <1>1, BalancedIs
  <1>4. PICK b : b = [bh EXCEPT ![p] = bh[p] + 1, ![v] = bh[v] + 1]
    OBVIOUS
  <1>5. /\ b \in [Nodes -> Nat] /\ b[p] = bh[p] + 1 /\ b[v] = bh[v] + 1
        /\ \A x \in X : x # p /\ x # v => b[x] = bh[x]
    <2>1. p \in Nodes /\ v \in Nodes /\ bh[p] + 1 \in Nat /\ bh[v] + 1 \in Nat
      BY <1>1, <1>3
    <2>2. QED
      BY Zenon, <1>1, <1>2, <1>3, <1>4, <2>1
  <1>6. \A x \in X \cup {NULL} : x # p /\ x # v => Height(b, x) = Height(bh, x)
    BY <1>5 DEF Height
  <1>7. /\ Height(b, p) = bh[p] + 1 /\ Height(b, v) = bh[v] + 1
        /\ Height(bh, p) = bh[p] /\ Height(bh, v) = bh[v]
    BY <1>1, <1>5 DEF Height
  <1>8. /\ Own(w, p) = 1 /\ Own(w, v) = 1 /\ Own(w, g) = 0
        /\ \A x \in X : x # p /\ x # v /\ x # g => Own(w, x) = Own(t, x)
    BY <1>2 DEF Repainted
  <1>9. ASSUME NEW x \in X, NEW a \in Dir
        PROVE  b[x] = Own(w, x) + Height(b, t.child[x][a]) + Missing(NULL, "L", x, a)
    <2>1. Missing(NULL, "L", x, a) = 0
      BY <1>1 DEF Missing
    <2>2. bh[x] = Own(t, x) + Height(bh, t.child[x][a]) + 0
      BY <1>1, <2>1, BranchIs
    <2>3. t.child[x][a] \in X \cup {NULL} /\ (t.child[x][a] \in {p, v} => x = g)
      BY <1>1, <1>2, KidIs
    <2>4. CASE x = g
      <3>1. t.child[x][a] = p \/ t.child[x][a] = v
        BY <2>4, OppIs
      <3>2. bh[x] = 1 + bh[p] \/ bh[x] = 1 + bh[v]
        BY <1>3, <1>7, <2>2, <2>4, <3>1
      <3>3. b[x] = 0 + Height(b, t.child[x][a]) + 0
        <4>1. CASE t.child[x][a] = p
          BY <1>2, <1>3, <1>5, <1>7, <2>2, <2>4, <4>1
        <4>2. CASE t.child[x][a] = v
          BY <1>2, <1>3, <1>5, <1>7, <2>2, <2>4, <4>2
        <4>3. QED
          BY <3>1, <4>1, <4>2
      <3>4. QED
        BY <1>8, <2>1, <2>4, <3>3
    <2>5. CASE x # g
      <3>1. Height(b, t.child[x][a]) = Height(bh, t.child[x][a])
        BY <1>6, <2>3, <2>5
      <3>2. Height(bh, t.child[x][a]) \in Nat
        BY <1>3, <2>3
      <3>3. CASE x = p \/ x = v
        <4>1. b[x] = bh[x] + 1 /\ Own(w, x) = 1 /\ Own(t, x) = 0
          BY <1>5, <1>8, <3>3
        <4>2. QED
          BY <2>1, <2>2, <3>1, <3>2, <4>1
      <3>4. CASE x # p /\ x # v
        <4>1. b[x] = bh[x] /\ Own(w, x) = Own(t, x)
          BY <1>5, <1>8, <2>5, <3>4
        <4>2. QED
          BY <2>1, <2>2, <3>1, <4>1
      <3>5. QED
        BY <3>3, <3>4
    <2>6. QED
      BY <2>4, <2>5
  <1>10. Painted(t, w)
    BY DEF Repainted
  <1>11. QED
    BY <1>5, <1>9, <1>10, PaintBalance

\* What RB_SET_BLACKRED does to the counts.
LEMMA PaintTwo ==
  ASSUME NEW t \in Trees, NEW black \in N0, NEW red \in N0,
         NEW w, w = RB_SET_BLACKRED(t, black, red)
  PROVE  /\ Painted(t, w)
         /\ \A x \in Nodes :
              Own(w, x) = IF x = red THEN 0 ELSE IF x = black THEN 1 ELSE Own(t, x)
  <1>1. "black" \in Colors /\ "red" \in Colors /\ "black" # "red"
    BY DEF Colors
  <1>2. PICK v : v = SetColor(t, black, "black")
    OBVIOUS
  <1>3. /\ Painted(t, v)
        /\ \A x \in Nodes : Own(v, x) = IF x = black THEN 1 ELSE Own(t, x)
    BY <1>1, <1>2, PaintOne
  <1>4. w = SetColor(v, red, "red")
    BY <1>2 DEF RB_SET_BLACKRED
  <1>5. v \in Trees
    BY <1>3 DEF Painted
  <1>6. /\ Painted(v, w)
        /\ \A x \in Nodes : Own(w, x) = IF x = red THEN 0 ELSE Own(v, x)
    BY <1>1, <1>4, <1>5, PaintOne
  <1>7. Painted(t, w)
    BY <1>3, <1>6 DEF Painted
  <1>8. QED
    BY <1>3, <1>6, <1>7

\* Nothing is lacking below no node, on either side.
LEMMA NoneLacks ==
  ASSUME NEW t, NEW bh, NEW X \in SUBSET Nodes, NEW f, Balanced(t, bh, X, NULL, f)
  PROVE  Balanced(t, bh, X, NULL, "L")
  <1>1. \A x \in X, a \in Dir : Missing(NULL, f, x, a) = 0 /\ Missing(NULL, "L", x, a) = 0
    BY SetsAre DEF Missing
  <1>2. QED
    BY <1>1 DEF Balanced

\* The child of a node on one side only.
LEMMA OneSide ==
  ASSUME NEW t, NEW sub, NEW X, Tree(t, sub, X), NEW q \in X, NEW f \in Dir,
         NEW e \in X, e = t.child[q][f]
  PROVE  /\ t.parent[e] = q /\ e # q /\ t.child[q][Opp(f)] # e
         /\ \A x \in X, a \in Dir : t.child[x][a] = e => x = q /\ a = f
  <1>1. X \in SUBSET Nodes /\ NULL \notin X
    BY WholeIs
  <1>2. t.parent[e] = q
    BY <1>1, KidIs
  <1>3. e # q
    BY <1>1, <1>2, ParentIs
  <1>4. HangsFrom(t, e, q)
    BY <1>2, ParentIs
  <1>5. t.child[q][Opp(f)] # e
    BY <1>1, <1>4, OppIs DEF HangsFrom
  <1>6. ASSUME NEW x \in X, NEW a \in Dir, t.child[x][a] = e
        PROVE  x = q /\ a = f
    <2>1. x = q
      BY <1>1, <1>2, <1>6, KidIs
    <2>2. QED
      BY <1>5, <1>6, <2>1, OppIs
  <1>7. QED
    BY <1>2, <1>3, <1>5, <1>6

\* A red node turns black: the root, or the one whose paths lacked a black node.
LEMMA BlackenBalance ==
  ASSUME NEW t, NEW sub, NEW X, Tree(t, sub, X), NEW e \in X, Own(t, e) = 0,
         NEW q, NEW f,
         (e = t.root /\ q = NULL) \/ (q \in X /\ f \in Dir /\ e = t.child[q][f]),
         NEW w, Repainted(t, w, X, {e}, {}), NEW bh, Balanced(t, bh, X, q, f)
  PROVE  \E c : Balanced(w, c, X, NULL, "L")
  <1>1. X \in SUBSET Nodes /\ NULL \notin X
    BY WholeIs
  <1>2. ASSUME NEW x \in X, NEW a \in Dir
        PROVE  /\ t.child[x][a] = e => Missing(q, f, x, a) = 1
               /\ t.child[x][a] # e => Missing(q, f, x, a) = 0
    <2>1. CASE e = t.root /\ q = NULL
      <3>1. t.parent[e] = NULL
        BY <2>1, ParentIs
      <3>2. t.child[x][a] # e
        BY <1>1, <3>1, KidIs
      <3>3. QED
        BY <1>1, <2>1, <3>2 DEF Missing
    <2>2. CASE q \in X /\ f \in Dir /\ e = t.child[q][f]
      <3>1. t.child[x][a] = e <=> (x = q /\ a = f)
        BY <2>2, OneSide
      <3>2. QED
        BY <3>1 DEF Missing
    <2>3. QED
      BY <2>1, <2>2
  <1>3. /\ bh \in [Nodes -> Nat] /\ bh[e] \in Nat
        /\ \A x \in X \cup {NULL} : Height(bh, x) \in Nat
    BY <1>1, BalancedIs
  <1>4. PICK b : b = [bh EXCEPT ![e] = bh[e] + 1]
    OBVIOUS
  <1>5. /\ b \in [Nodes -> Nat] /\ b[e] = bh[e] + 1
        /\ \A x \in X : x # e => b[x] = bh[x]
    <2>1. e \in Nodes /\ bh[e] + 1 \in Nat
      BY <1>1, <1>3
    <2>2. QED
      BY <1>1, <1>3, <1>4, <2>1
  <1>6. /\ \A x \in X \cup {NULL} : x # e => Height(b, x) = Height(bh, x)
        /\ Height(b, e) = bh[e] + 1 /\ Height(bh, e) = bh[e]
    BY <1>1, <1>5 DEF Height
  <1>7. Own(w, e) = 1 /\ \A x \in X : x # e => Own(w, x) = Own(t, x)
    BY DEF Repainted
  <1>8. ASSUME NEW x \in X, NEW a \in Dir
        PROVE  b[x] = Own(w, x) + Height(b, t.child[x][a]) + Missing(NULL, "L", x, a)
    <2>1. Missing(NULL, "L", x, a) = 0
      BY <1>1 DEF Missing
    <2>2. bh[x] = Own(t, x) + Height(bh, t.child[x][a]) + Missing(q, f, x, a)
      BY <1>1, BranchIs
    <2>3. t.child[x][a] \in X \cup {NULL}
      BY KidIs
    <2>4. Height(bh, t.child[x][a]) \in Nat /\ Own(t, x) \in Nat /\ bh[x] \in Nat
      <3>1. Own(t, x) \in Nat /\ bh[x] \in Nat
        BY <1>1, <1>3 DEF Own
      <3>2. QED
        BY <1>3, <2>3, <3>1
    <2>5. bh[x] = Own(t, x) + Height(b, t.child[x][a])
      <3>1. CASE t.child[x][a] = e
        BY <1>2, <1>3, <1>6, <2>2, <2>4, <3>1
      <3>2. CASE t.child[x][a] # e
        BY <1>2, <1>3, <1>6, <2>2, <2>3, <2>4, <3>2
      <3>3. QED
        BY <3>1, <3>2
    <2>6. Height(b, t.child[x][a]) \in Nat
      BY <1>3, <1>6, <2>3
    <2>7. CASE x = e
      <3>1. b[x] = 1 + Height(b, t.child[x][a]) + 0
        BY <1>5, <2>5, <2>6, <2>7
      <3>2. QED
        BY <1>7, <2>1, <2>7, <3>1
    <2>8. CASE x # e
      <3>1. b[x] = Own(t, x) + Height(b, t.child[x][a]) + 0
        BY <1>5, <2>4, <2>5, <2>6, <2>8
      <3>2. QED
        BY <1>7, <2>1, <2>8, <3>1
    <2>9. QED
      BY <2>7, <2>8
  <1>9. Painted(t, w)
    BY DEF Repainted
  <1>10. QED
    BY <1>5, <1>8, <1>9, PaintBalance

\* The sibling turns red: the paths through their parent lack a black node.
LEMMA SiblingBalance ==
  ASSUME NEW t, NEW sub, NEW X, Tree(t, sub, X), NEW q \in X, NEW f \in Dir,
         NEW s \in X, s = t.child[q][Opp(f)], Own(t, s) = 1,
         NEW r, NEW g,
         (q = t.root /\ r = NULL) \/ (r \in X /\ g \in Dir /\ q = t.child[r][g]),
         NEW w, Repainted(t, w, X, {}, {s}), NEW bh, Balanced(t, bh, X, q, f)
  PROVE  \E c : Balanced(w, c, X, r, g)
  <1>1. X \in SUBSET Nodes /\ NULL \notin X
    BY WholeIs
  <1>2. ASSUME NEW x \in X, NEW a \in Dir
        PROVE  /\ t.child[x][a] = q => Missing(r, g, x, a) = 1
               /\ t.child[x][a] # q => Missing(r, g, x, a) = 0
    <2>1. CASE q = t.root /\ r = NULL
      <3>1. t.parent[q] = NULL
        BY <2>1, ParentIs
      <3>2. t.child[x][a] # q
        BY <1>1, <3>1, KidIs
      <3>3. QED
        BY <1>1, <2>1, <3>2 DEF Missing
    <2>2. CASE r \in X /\ g \in Dir /\ q = t.child[r][g]
      <3>1. t.child[x][a] = q <=> (x = r /\ a = g)
        BY <2>2, OneSide
      <3>2. QED
        BY <3>1 DEF Missing
    <2>3. QED
      BY <2>1, <2>2
  <1>3. /\ bh \in [Nodes -> Nat] /\ bh[s] \in Nat /\ bh[q] \in Nat
        /\ \A x \in X \cup {NULL} : Height(bh, x) \in Nat
    BY <1>1, BalancedIs
  <1>4. /\ s # q
        /\ \A x \in X, a \in Dir : t.child[x][a] = s => x = q /\ a = Opp(f)
    <2>1. Opp(f) \in Dir
      BY OppIs
    <2>2. QED
      BY <2>1, OneSide
  <1>5. Height(bh, s) = bh[s] /\ Height(bh, q) = bh[q]
    BY <1>1 DEF Height
  <1>6. bh[s] \in Nat \ {0} /\ bh[q] \in Nat \ {0}
    <2>1. bh[s] = 1 + Height(bh, t.child[s][f]) + Missing(q, f, s, f)
      BY <1>1, BranchIs
    <2>2. Missing(q, f, s, f) = 0
      BY <1>4 DEF Missing
    <2>3. Height(bh, t.child[s][f]) \in Nat
      BY <1>1, <1>3, KidIs
    <2>4. bh[s] \in Nat \ {0}
      BY <2>1, <2>2, <2>3
    <2>5. bh[q] = Own(t, q) + bh[s] + Missing(q, f, q, Opp(f))
      <3>1. bh[q] = Own(t, q) + Height(bh, t.child[q][Opp(f)]) + Missing(q, f, q, Opp(f))
        BY <1>1, BranchIs, OppIs
      <3>2. QED
        BY <1>5, <3>1
    <2>6. Missing(q, f, q, Opp(f)) = 0 /\ Own(t, q) \in Nat
      BY OppIs DEF Missing, Own
    <2>7. bh[q] \in Nat \ {0}
      BY <2>4, <2>5, <2>6
    <2>8. QED
      BY <2>4, <2>7
  <1>7. PICK b : b = [bh EXCEPT ![s] = bh[s] - 1, ![q] = bh[q] - 1]
    OBVIOUS
  <1>8. /\ b \in [Nodes -> Nat] /\ b[s] = bh[s] - 1 /\ b[q] = bh[q] - 1
        /\ \A x \in X : x # s /\ x # q => b[x] = bh[x]
    <2>1. s \in Nodes /\ q \in Nodes /\ bh[s] - 1 \in Nat /\ bh[q] - 1 \in Nat
      BY <1>1, <1>6
    <2>2. QED
      BY <1>1, <1>3, <1>4, <1>7, <2>1
  <1>9. /\ \A x \in X \cup {NULL} : x # s /\ x # q => Height(b, x) = Height(bh, x)
        /\ Height(b, s) = bh[s] - 1 /\ Height(b, q) = bh[q] - 1
    BY <1>1, <1>8 DEF Height
  <1>10. Own(w, s) = 0 /\ \A x \in X : x # s => Own(w, x) = Own(t, x)
    BY DEF Repainted
  <1>11. ASSUME NEW x \in X, NEW a \in Dir
         PROVE  b[x] = Own(w, x) + Height(b, t.child[x][a]) + Missing(r, g, x, a)
    <2>1. bh[x] = Own(t, x) + Height(bh, t.child[x][a]) + Missing(q, f, x, a)
      BY <1>1, BranchIs
    <2>2. t.child[x][a] \in X \cup {NULL}
      BY KidIs
    <2>3. Height(bh, t.child[x][a]) \in Nat /\ Own(t, x) \in Nat /\ bh[x] \in Nat
      BY <1>1, <1>3, <2>2, BalancedIs
    <2>4. Missing(q, f, x, a) = IF x = q /\ a = f THEN 1 ELSE 0
      BY DEF Missing
    <2>5. CASE x = q
      <3>1. t.child[x][a] # q
        <4>1. t.child[x][a] = q => t.parent[q] = q
          BY <1>1, <2>5, KidIs
        <4>2. t.parent[q] # q
          BY <1>1, ParentIs
        <4>3. QED
          BY <4>1, <4>2
      <3>2. Missing(r, g, x, a) = 0
        BY <1>2, <3>1
      <3>3. CASE a = f
        <4>1. t.child[x][a] # s
          BY <1>4, <3>3, OppIs
        <4>2. Height(b, t.child[x][a]) = Height(bh, t.child[x][a])
          BY <1>9, <2>2, <3>1, <4>1
        <4>3. b[x] = Own(t, x) + Height(bh, t.child[x][a]) + 0
          BY <1>8, <2>1, <2>3, <2>4, <2>5, <3>3
        <4>4. QED
          BY <1>4, <1>10, <2>5, <3>2, <4>2, <4>3
      <3>4. CASE a = Opp(f)
        <4>1. t.child[x][a] = s
          BY <2>5, <3>4
        <4>2. a # f
          BY <3>4, OppIs
        <4>3. b[x] = Own(t, x) + Height(b, t.child[x][a]) + 0
          BY <1>3, <1>5, <1>8, <1>9, <2>1, <2>3, <2>4, <2>5, <4>1, <4>2
        <4>4. QED
          BY <1>4, <1>10, <2>5, <3>2, <4>3
      <3>5. QED
        BY <3>3, <3>4, OppIs
    <2>6. CASE x # q
      <3>1. t.child[x][a] # s
        BY <1>4, <2>6
      <3>2. bh[x] = Own(t, x) + Height(b, t.child[x][a]) + Missing(r, g, x, a)
        <4>1. CASE t.child[x][a] = q
          <5>1. Missing(r, g, x, a) = 1
            BY <1>2, <4>1
          <5>2. QED
            BY <1>3, <1>5, <1>9, <2>1, <2>3, <2>4, <2>6, <4>1, <5>1
        <4>2. CASE t.child[x][a] # q
          <5>1. Missing(r, g, x, a) = 0
            BY <1>2, <4>2
          <5>2. QED
            BY <1>9, <2>1, <2>2, <2>3, <2>4, <2>6, <3>1, <4>2, <5>1
        <4>3. QED
          BY <4>1, <4>2
      <3>3. CASE x = s
        <4>1. Missing(r, g, x, a) \in Nat /\ Height(b, t.child[x][a]) \in Nat
          <5>1. CASE t.child[x][a] = q
            BY <1>2, <1>6, <1>9, <5>1
          <5>2. CASE t.child[x][a] # q
            BY <1>2, <1>9, <2>2, <2>3, <3>1, <5>2
          <5>3. QED
            BY <5>1, <5>2
        <4>2. b[x] = 0 + Height(b, t.child[x][a]) + Missing(r, g, x, a)
          BY <1>8, <3>2, <3>3, <4>1
        <4>3. QED
          BY <1>10, <3>3, <4>2
      <3>4. CASE x # s
        BY <1>8, <1>10, <2>6, <3>2, <3>4
      <3>5. QED
        BY <3>3, <3>4
    <2>7. QED
      BY <2>5, <2>6
  <1>12. Painted(t, w)
    BY DEF Repainted
  <1>13. QED
    BY <1>8, <1>11, <1>12, PaintBalance

-----------------------------------------------------------------------------
(* The colours after a node came or went.                                  *)

\* A node with one child, and that child, leave their numbers to the others.
LEMMA UnlinkBalance ==
  ASSUME NEW t, NEW sub, NEW X, Tree(t, sub, X), NEW e \in X, NEW d \in Dir,
         t.child[e][Opp(d)] = NULL, NEW c, c = t.child[e][d], NEW p, p = t.parent[e],
         NEW u, Unlinked(t, e, c, p, u), NEW bh, Balanced(t, bh, X, NULL, "L"),
         NEW q, NEW g,
         \/ Own(t, e) = 0 /\ q = NULL
         \/ Own(t, e) = 1 /\ q = p /\ (p # NULL => g \in Dir /\ t.child[p][g] = e)
  PROVE  Balanced(u, bh, X \ {e}, q, g)
  <1>1. X \in SUBSET Nodes /\ NULL \notin X
    BY WholeIs
  <1>2. /\ bh \in [Nodes -> Nat] /\ bh[e] \in Nat
        /\ \A x \in X \cup {NULL} : Height(bh, x) \in Nat
    BY <1>1, BalancedIs
  <1>3. c \in X \cup {NULL}
    BY KidIs
  <1>4. bh[e] = Own(t, e) + Height(bh, c) /\ Height(bh, e) = bh[e]
    <2>1. bh[e] = Own(t, e) + Height(bh, c) + Missing(NULL, "L", e, d)
      BY <1>1, BranchIs
    <2>2. Missing(NULL, "L", e, d) = 0
      BY <1>1 DEF Missing
    <2>3. Own(t, e) \in Nat /\ Height(bh, c) \in Nat
      BY <1>2, <1>3 DEF Own
    <2>4. QED
      BY <1>1, <2>1, <2>2, <2>3 DEF Height
  <1>5. ASSUME NEW x \in X \ {e}, NEW a \in Dir
        PROVE  bh[x] = Own(u, x) + Height(bh, u.child[x][a]) + Missing(q, g, x, a)
    <2>1. bh[x] = Own(t, x) + Height(bh, t.child[x][a])
      <3>1. bh[x] = Own(t, x) + Height(bh, t.child[x][a]) + Missing(NULL, "L", x, a)
        BY <1>1, BranchIs
      <3>2. Missing(NULL, "L", x, a) = 0
        BY <1>1 DEF Missing
      <3>3. Own(t, x) \in Nat /\ Height(bh, t.child[x][a]) \in Nat
        BY <1>2, KidIs DEF Own
      <3>4. QED
        BY <3>1, <3>2, <3>3
    <2>2. Own(u, x) = Own(t, x) /\ Own(t, x) \in Nat
      BY <1>1 DEF Own, Unlinked
    <2>3. u.child[x][a] = IF x = p /\ t.child[x][a] = e THEN c ELSE t.child[x][a]
      BY <1>1 DEF Unlinked
    <2>4. t.child[x][a] \in X \cup {NULL} /\ Height(bh, t.child[x][a]) \in Nat
      BY <1>2, KidIs
    <2>5. CASE t.child[x][a] = e
      <3>1. x = p
        BY <1>1, <2>5, KidIs
      <3>2. u.child[x][a] = c
        BY <2>3, <2>5, <3>1
      <3>3. Missing(q, g, x, a) = Own(t, e)
        <4>1. CASE Own(t, e) = 0 /\ q = NULL
          BY <1>1, <4>1 DEF Missing
        <4>2. CASE Own(t, e) = 1 /\ q = p /\ g \in Dir /\ t.child[p][g] = e
          <5>1. a = g
            BY <2>5, <3>1, <4>2, OneSide
          <5>2. QED
            BY <3>1, <4>2, <5>1 DEF Missing
        <4>3. QED
          BY <1>1, <3>1, <4>1, <4>2
      <3>4. bh[x] = Own(t, x) + Own(t, e) + Height(bh, c)
        BY <1>2, <1>3, <1>4, <2>1, <2>2, <2>5
      <3>5. Own(t, e) \in Nat /\ Height(bh, c) \in Nat
        BY <1>2, <1>3 DEF Own
      <3>6. bh[x] = Own(t, x) + Height(bh, c) + Own(t, e)
        BY <2>2, <3>4, <3>5
      <3>7. QED
        BY <2>2, <3>2, <3>3, <3>6
    <2>6. CASE t.child[x][a] # e
      <3>1. u.child[x][a] = t.child[x][a]
        BY <2>3, <2>6
      <3>2. Missing(q, g, x, a) = 0
        <4>1. CASE Own(t, e) = 0 /\ q = NULL
          BY <1>1, <4>1 DEF Missing
        <4>2. CASE Own(t, e) = 1 /\ q = p /\ (p # NULL => g \in Dir /\ t.child[p][g] = e)
          BY <1>1, <2>6, <4>2 DEF Missing
        <4>3. QED
          BY <4>1, <4>2
      <3>3. bh[x] = Own(u, x) + Height(bh, u.child[x][a]) + 0
        BY <2>1, <2>2, <2>4, <3>1
      <3>4. QED
        BY <3>2, <3>3
    <2>7. QED
      BY <2>5, <2>6
  <1>6. QED
    BY <1>2, <1>5 DEF Balanced

\* Only the child can be red below a red node then, if the node was black.
LEMMA UnlinkReds ==
  ASSUME NEW t, NEW sub, NEW X, Tree(t, sub, X), NEW e \in X, NEW d \in Dir,
         t.child[e][Opp(d)] = NULL, NEW c, c = t.child[e][d], NEW p, p = t.parent[e],
         NEW u, Unlinked(t, e, c, p, u), RedsApart(t, X, {}), ~IsRed(t, t.root)
  PROVE  /\ RedsApart(u, X \ {e}, {c})
         /\ Own(t, e) = 0 => RedsApart(u, X \ {e}, {}) /\ ~IsRed(u, u.root)
         /\ IsRed(u, u.root) => u.root = c
  <1>1. X \in SUBSET Nodes /\ NULL \notin X /\ t.root \in X
    BY WholeIs
  <1>2. /\ c \in X \cup {NULL} /\ c # e
        /\ c # NULL => t.parent[c] = e
        /\ \A m \in X : t.parent[m] = e => m = c
    BY OnlyChildIs
  <1>3. \A y \in (X \ {e}) \cup {NULL} : IsRed(u, y) <=> IsRed(t, y)
    BY <1>1 DEF IsRed, Unlinked
  <1>4. \A x \in X \ {e} : u.parent[x] = IF x = c THEN p ELSE t.parent[x]
    BY <1>1 DEF Unlinked
  <1>5. \A x \in X : t.parent[x] \in X \cup {NULL}
    BY ParentIs
  <1>6. ASSUME NEW x \in X \ {e}, IsRed(u, x), IsRed(u, u.parent[x]), x # c
        PROVE  FALSE
    <2>1. u.parent[x] = t.parent[x] /\ t.parent[x] # e
      BY <1>2, <1>4, <1>6
    <2>2. IsRed(t, x) /\ IsRed(t, t.parent[x])
      BY <1>3, <1>5, <1>6, <2>1
    <2>3. QED
      BY <2>2 DEF RedsApart
  <1>7. RedsApart(u, X \ {e}, {c})
    BY <1>6 DEF RedsApart
  <1>8. u.root = IF p = NULL THEN c ELSE t.root
    BY DEF Unlinked
  <1>9. IsRed(u, u.root) => u.root = c
    <2>1. CASE p = NULL
      BY <1>8, <2>1
    <2>2. CASE p # NULL
      <3>1. e # t.root
        BY <2>2, ParentIs
      <3>2. u.root = t.root
        BY <1>8, <2>2
      <3>3. QED
        BY <1>1, <1>3, <3>1, <3>2
    <2>3. QED
      BY <2>1, <2>2
  <1>10. ASSUME Own(t, e) = 0
         PROVE  RedsApart(u, X \ {e}, {}) /\ ~IsRed(u, u.root)
    <2>1. IsRed(t, e)
      BY <1>1, <1>10, RedIs
    <2>2. c # NULL => ~IsRed(t, c)
      BY <1>2, <2>1 DEF RedsApart
    <2>3. ~IsRed(u, c)
      <3>1. CASE c = NULL
        BY <3>1 DEF IsRed
      <3>2. CASE c # NULL
        BY <1>2, <1>3, <2>2, <3>2
      <3>3. QED
        BY <3>1, <3>2
    <2>4. RedsApart(u, X \ {e}, {})
      BY <1>6, <2>3 DEF RedsApart
    <2>5. QED
      BY <1>9, <2>3, <2>4
  <1>11. QED
    BY <1>7, <1>9, <1>10

\* What is left after the splice: a tree with its colours right, if the node was
\* red, or one that lacks a black node where the child is now.
LEMMA UnlinkStands ==
  ASSUME NEW t, NEW sub, NEW bh, NEW X, Standing(t, sub, bh, X), NEW e \in X, NEW d \in Dir,
         t.child[e][Opp(d)] = NULL, NEW c, c = t.child[e][d], NEW p, p = t.parent[e],
         NEW u, Unlinked(t, e, c, p, u)
  PROVE  /\ Own(t, e) = 0 => \E s, b : Standing(u, s, b, X \ {e})
         /\ Own(t, e) = 1 => \E s, b : Lacking(u, s, b, X \ {e}, c, p)
  <1>1. /\ Tree(t, sub, X) /\ Balanced(t, bh, X, NULL, "L")
        /\ RedsApart(t, X, {}) /\ ~IsRed(t, t.root)
    BY DEF Standing
  <1>2. PICK s : Tree(u, s, X \ {e})
    BY <1>1, UnlinkKeeps
  <1>3. X \in SUBSET Nodes /\ NULL \notin X /\ X \ {e} \in SUBSET Nodes
    BY <1>1, WholeIs
  <1>4. /\ RedsApart(u, X \ {e}, {c})
        /\ Own(t, e) = 0 => RedsApart(u, X \ {e}, {}) /\ ~IsRed(u, u.root)
        /\ IsRed(u, u.root) => u.root = c
    BY <1>1, UnlinkReds
  <1>5. ASSUME Own(t, e) = 0
        PROVE  \E b : Standing(u, s, b, X \ {e})
    <2>1. Balanced(u, bh, X \ {e}, NULL, "L")
      BY <1>1, <1>5, UnlinkBalance
    <2>2. QED
      BY <1>2, <1>4, <1>5, <2>1 DEF Standing
  <1>6. ASSUME Own(t, e) = 1
        PROVE  \E b : Lacking(u, s, b, X \ {e}, c, p)
    <2>1. /\ c \in X \cup {NULL} /\ c # e /\ c # t.root
      BY <1>1, <1>3, OnlyChildIs, WholeIs
    <2>2. RedsApart(u, X \ {e}, {n \in X \ {e} : c \in {n, u.parent[n]}})
      BY <1>4 DEF RedsApart
    <2>3. CASE p = NULL
      <3>1. u.root = c
        BY <2>3 DEF Unlinked
      <3>2. Balanced(u, bh, X \ {e}, NULL, "L")
        BY <1>1, <1>6, <2>3, UnlinkBalance
      <3>3. QED
        BY <1>2, <1>4, <2>1, <2>2, <3>1, <3>2 DEF Lacking
    <2>4. CASE p # NULL
      <3>1. /\ p \in X /\ p # e
            /\ \E g \in Dir : t.child[p][g] = e /\ t.child[p][Opp(g)] # e
        BY <1>1, <2>4, ParentIs
      <3>2. PICK g \in Dir : t.child[p][g] = e /\ t.child[p][Opp(g)] # e
        BY <3>1
      <3>3. Balanced(u, bh, X \ {e}, p, g)
        BY <1>1, <1>6, <3>2, UnlinkBalance
      <3>4. u.child[p][g] = c /\ u.child[p][Opp(g)] = t.child[p][Opp(g)] /\ u.root = t.root
        BY <1>3, <2>4, <3>1, <3>2, OppIs DEF Unlinked
      <3>5. u.child[p][Opp(g)] # c
        <4>1. CASE c = NULL
          <5>1. bh[p] = Own(t, p) + Height(bh, e) + Missing(NULL, "L", p, g)
            BY <1>1, <1>3, <3>1, <3>2, BranchIs
          <5>2. bh[p] = Own(t, p) + Height(bh, t.child[p][Opp(g)])
                          + Missing(NULL, "L", p, Opp(g))
            BY <1>1, <1>3, <3>1, BranchIs, OppIs
          <5>3. bh[e] = Own(t, e) + Height(bh, c) + Missing(NULL, "L", e, d)
            BY <1>1, <1>3, BranchIs
          <5>4. /\ Missing(NULL, "L", p, g) = 0 /\ Missing(NULL, "L", p, Opp(g)) = 0
                /\ Missing(NULL, "L", e, d) = 0
            BY <1>3, <2>4 DEF Missing
          <5>5. Height(bh, NULL) = 0 /\ Height(bh, e) = bh[e]
            BY <1>3 DEF Height
          <5>6. Own(t, p) \in Nat
            BY DEF Own
          <5>7. Height(bh, t.child[p][Opp(g)]) \in Nat
            <6>1. t.child[p][Opp(g)] \in X \cup {NULL}
              BY <1>1, <3>1, KidIs, OppIs
            <6>2. QED
              BY <1>1, <1>3, <6>1, BalancedIs
          <5>8. Height(bh, t.child[p][Opp(g)]) = 1
            BY <1>6, <4>1, <5>1, <5>2, <5>3, <5>4, <5>5, <5>6, <5>7
          <5>9. QED
            BY <3>4, <4>1, <5>5, <5>8
        <4>2. CASE c # NULL
          BY <1>2, <2>1, <3>1, <3>4, <4>2, OneSide
        <4>3. QED
          BY <4>1, <4>2
      <3>6. SideOf(u, p, c) = g
        BY <3>4, <3>5, SidesAre DEF SideOf, Left
      <3>7. c # u.root
        BY <2>1, <3>4
      <3>8. QED
        BY Zenon, <1>2, <1>4, <2>1, <2>2, <3>1, <3>3, <3>4, <3>6, <3>7 DEF Lacking
    <2>5. QED
      BY <2>3, <2>4
  <1>7. QED
    BY <1>5, <1>6

\* After RB_INSERT has linked a node: it is red, and nothing else is wrong.
LEMMA HungStands ==
  ASSUME NEW t, NEW sub, NEW bh, NEW X, Standing(t, sub, bh, X), NEW e, NEW p, NEW d,
         Belongs(t, X, e, p, d), NEW u, Hung(t, e, p, d, u)
  PROVE  \E s, b : Reddened(u, s, b, X \cup {e}, e)
  <1>1. /\ Tree(t, sub, X) /\ Balanced(t, bh, X, NULL, "L")
        /\ RedsApart(t, X, {}) /\ ~IsRed(t, t.root)
    BY DEF Standing
  <1>2. PICK s : Tree(u, s, X \cup {e})
    BY <1>1, HungKeeps
  <1>3. /\ X \in SUBSET Nodes /\ NULL \notin X /\ e \in Nodes /\ e \notin X /\ e # NULL
        /\ d \in Dir /\ t.root \in X \cup {NULL} /\ X \cup {e} \in SUBSET Nodes
    BY <1>1, WholeIs, SetsAre DEF Belongs
  <1>4. /\ bh \in [Nodes -> Nat]
        /\ \A x \in X \cup {NULL} : Height(bh, x) \in Nat
    BY <1>1, <1>3, BalancedIs
  <1>5. PICK b : b = [bh EXCEPT ![e] = 0]
    OBVIOUS
  <1>6. b \in [Nodes -> Nat] /\ b[e] = 0 /\ \A x \in X : b[x] = bh[x]
    BY <1>3, <1>4, <1>5
  <1>7. Height(b, e) = 0 /\ \A x \in X \cup {NULL} : Height(b, x) = Height(bh, x)
    BY <1>3, <1>6 DEF Height
  <1>8. Own(u, e) = 0 /\ \A x \in X : Own(u, x) = Own(t, x)
    BY <1>3 DEF Own, Hung
  <1>9. ASSUME NEW x \in X \cup {e}, NEW a \in Dir
        PROVE  b[x] = Own(u, x) + Height(b, u.child[x][a]) + Missing(NULL, "L", x, a)
    <2>1. Missing(NULL, "L", x, a) = 0
      BY <1>3 DEF Missing
    <2>2. CASE x = e
      <3>1. u.child[x][a] = NULL
        BY <2>2 DEF Hung
      <3>2. Height(b, NULL) = 0
        BY DEF Height
      <3>3. QED
        BY <1>6, <1>8, <2>1, <2>2, <3>1, <3>2
    <2>3. CASE x \in X
      <3>1. u.child[x][a] = IF x = p /\ a = d THEN e ELSE t.child[x][a]
        BY <1>3, <2>3 DEF Hung
      <3>2. t.child[x][a] \in X \cup {NULL}
        BY <1>1, <2>3, KidIs
      <3>3. bh[x] = Own(t, x) + Height(bh, t.child[x][a]) + Missing(NULL, "L", x, a)
        BY <1>1, <1>3, <2>3, BranchIs
      <3>4. Height(b, u.child[x][a]) = Height(bh, t.child[x][a])
        <4>1. CASE x = p /\ a = d
          <5>1. t.child[x][a] = NULL
            BY <1>3, <2>3, <4>1 DEF Belongs
          <5>2. Height(bh, NULL) = 0
            BY DEF Height
          <5>3. QED
            BY <1>7, <3>1, <4>1, <5>1, <5>2
        <4>2. CASE ~(x = p /\ a = d)
          BY <1>7, <3>1, <3>2, <4>2
        <4>3. QED
          BY <4>1, <4>2
      <3>5. QED
        BY <1>6, <1>8, <2>3, <3>3, <3>4
    <2>4. QED
      BY <2>2, <2>3
  <1>10. Balanced(u, b, X \cup {e}, NULL, "L")
    BY <1>6, <1>9 DEF Balanced
  <1>11. \A y \in X \cup {NULL} : IsRed(u, y) <=> IsRed(t, y)
    BY <1>3 DEF IsRed, Hung
  <1>12. IsRed(u, e)
    BY <1>3 DEF IsRed, Hung
  <1>13. ASSUME NEW x \in X \cup {e}, IsRed(u, x), IsRed(u, u.parent[x])
         PROVE  x = e
    <2>1. SUFFICES ASSUME x # e PROVE FALSE
      OBVIOUS
    <2>2. u.parent[x] = t.parent[x] /\ t.parent[x] \in X \cup {NULL}
      BY <1>1, <1>3, <2>1, ParentIs DEF Hung
    <2>3. IsRed(t, x) /\ IsRed(t, t.parent[x])
      BY <1>11, <1>13, <2>1, <2>2
    <2>4. QED
      BY <1>1, <2>1, <2>3 DEF RedsApart
  <1>14. RedsApart(u, X \cup {e}, {e})
    BY <1>13 DEF RedsApart
  <1>15. IsRed(u, u.root) => u.root = e
    BY <1>1, <1>3, <1>11 DEF Hung
  <1>16. QED
    BY <1>2, <1>10, <1>12, <1>14, <1>15 DEF Reddened

\* R gives each node of the tree its new name, and u has the fields of t.
NamesFit(t, X, old, e, R, Y, u) ==
  /\ \A x \in X : R[x] \in Y /\ (IsRed(u, R[x]) <=> IsRed(t, x)) /\ Own(u, R[x]) = Own(t, x)
  /\ \A y \in Y : \E x \in X : y = R[x]
  /\ R[NULL] = NULL /\ \A x \in X \cup {NULL} : x # old => R[x] = x
  /\ R[old] = e /\ \A x, k \in X \cup {NULL} : R[x] = R[k] => x = k
  /\ \A x \in X, a \in Dir : u.child[R[x]][a] = R[t.child[x][a]]
  /\ \A x \in X : u.parent[R[x]] = R[t.parent[x]]
  /\ u.root = R[t.root] /\ Y \in SUBSET Nodes
  /\ old \in X /\ e \in Nodes /\ e \notin X

\* The new names.
LEMMA RenameIs ==
  ASSUME NEW t, NEW X, NEW old, NEW e, Succeeds(X, old, e), NEW R, R = Rename(X, old, e),
         NEW Y, Y = (X \ {old}) \cup {e}, NEW u, Renamed(t, R, X, Y, u),
         X \in SUBSET Nodes
  PROVE  NamesFit(t, X, old, e, R, Y, u)
  <1>1. /\ \A x \in X : R[x] \in Y /\ u.color[R[x]] = t.color[x]
        /\ \A y \in Y : \E x \in X : y = R[x]
        /\ R[NULL] = NULL /\ \A x, k \in X \cup {NULL} : R[x] = R[k] => x = k
        /\ \A x \in X, a \in Dir : u.child[R[x]][a] = R[t.child[x][a]]
        /\ \A x \in X : u.parent[R[x]] = R[t.parent[x]]
        /\ u.root = R[t.root]
    BY DEF Renamed
  <1>2. old \in X /\ e \in Nodes /\ e \notin X
    BY DEF Succeeds
  <1>3. Y \in SUBSET Nodes /\ NULL \notin Y /\ NULL \notin X
    BY <1>2, SetsAre
  <1>4. R[old] = e /\ \A x \in X \cup {NULL} : x # old => R[x] = x
    BY <1>2 DEF Rename
  <1>5. \A x \in X : (IsRed(u, R[x]) <=> IsRed(t, x)) /\ Own(u, R[x]) = Own(t, x)
    BY <1>1, <1>3 DEF IsRed, Own
  <1>6. QED
    BY <1>1, <1>2, <1>3, <1>4, <1>5 DEF NamesFit

\* Under other names the numbers are the same.
LEMMA RenamedBalance ==
  ASSUME NEW t, NEW sub, NEW X, Tree(t, sub, X), NEW old, NEW e, Succeeds(X, old, e),
         NEW R, R = Rename(X, old, e), NEW Y, Y = (X \ {old}) \cup {e},
         NEW u, Renamed(t, R, X, Y, u),
         NEW bh, NEW q \in X \cup {NULL}, NEW f, Balanced(t, bh, X, q, f)
  PROVE  \E b : Balanced(u, b, Y, R[q], f)
  <1>1. X \in SUBSET Nodes /\ NULL \notin X
    BY WholeIs
  <1>2. bh \in [Nodes -> Nat]
    BY <1>1, BalancedIs
  <1>3. /\ \A x \in X : R[x] \in Y /\ Own(u, R[x]) = Own(t, x)
        /\ \A y \in Y : \E x \in X : y = R[x]
        /\ R[NULL] = NULL /\ \A x \in X \cup {NULL} : x # old => R[x] = x
        /\ R[old] = e /\ \A x, k \in X \cup {NULL} : R[x] = R[k] => x = k
        /\ \A x \in X, a \in Dir : u.child[R[x]][a] = R[t.child[x][a]]
        /\ old \in X /\ e \in Nodes /\ e \notin X /\ NULL \notin Y
    <2>1. NamesFit(t, X, old, e, R, Y, u)
      BY <1>1, RenameIs
    <2>2. QED
      BY <2>1, SetsAre DEF NamesFit
  <1>4. PICK b : b = [bh EXCEPT ![e] = bh[old]]
    OBVIOUS
  <1>5. b \in [Nodes -> Nat] /\ \A x \in X : b[R[x]] = bh[x]
    <2>1. b \in [Nodes -> Nat] /\ b[e] = bh[old] /\ \A x \in X : b[x] = bh[x]
      BY <1>1, <1>2, <1>3, <1>4
    <2>2. QED
      BY <1>3, <2>1
  <1>6. \A x \in X \cup {NULL} : Height(b, R[x]) = Height(bh, x)
    BY <1>1, <1>3, <1>5 DEF Height
  <1>7. ASSUME NEW y \in Y, NEW a \in Dir
        PROVE  b[y] = Own(u, y) + Height(b, u.child[y][a]) + Missing(R[q], f, y, a)
    <2>1. PICK x \in X : y = R[x]
      BY <1>3
    <2>2. bh[x] = Own(t, x) + Height(bh, t.child[x][a]) + Missing(q, f, x, a)
      BY <1>1, BranchIs
    <2>3. Height(b, u.child[y][a]) = Height(bh, t.child[x][a])
      <3>1. t.child[x][a] \in X \cup {NULL}
        BY KidIs
      <3>2. u.child[y][a] = R[t.child[x][a]]
        BY <1>3, <2>1
      <3>3. QED
        BY <1>6, <3>1, <3>2
    <2>4. Missing(R[q], f, y, a) = Missing(q, f, x, a)
      BY <1>3, <2>1 DEF Missing
    <2>5. b[y] = bh[x] /\ Own(u, y) = Own(t, x)
      BY <1>3, <1>5, <2>1
    <2>6. QED
      BY <2>2, <2>3, <2>4, <2>5
  <1>8. QED
    BY <1>5, <1>7 DEF Balanced

\* Under other names red nodes are apart.
LEMMA RenamedReds ==
  ASSUME NEW t, NEW sub, NEW X, Tree(t, sub, X), NEW old, NEW e, Succeeds(X, old, e),
         NEW R, R = Rename(X, old, e), NEW Y, Y = (X \ {old}) \cup {e},
         NEW u, Renamed(t, R, X, Y, u), NEW E, RedsApart(t, X, E),
         NEW F, \A x \in X : x \in E => R[x] \in F
  PROVE  /\ RedsApart(u, Y, F)
         /\ IsRed(u, u.root) <=> IsRed(t, t.root)
  <1>1. X \in SUBSET Nodes /\ NULL \notin X /\ t.root \in X \cup {NULL}
    BY WholeIs
  <1>2. /\ \A x \in X : R[x] \in Y /\ (IsRed(u, R[x]) <=> IsRed(t, x))
        /\ \A y \in Y : \E x \in X : y = R[x]
        /\ R[NULL] = NULL
        /\ \A x \in X : u.parent[R[x]] = R[t.parent[x]]
        /\ u.root = R[t.root]
    <2>1. NamesFit(t, X, old, e, R, Y, u)
      BY <1>1, RenameIs
    <2>2. QED
      BY <2>1 DEF NamesFit
  <1>3. \A x \in X \cup {NULL} : IsRed(u, R[x]) <=> IsRed(t, x)
    BY <1>2 DEF IsRed
  <1>4. ASSUME NEW y \in Y, IsRed(u, y), IsRed(u, u.parent[y])
        PROVE  y \in F
    <2>1. PICK x \in X : y = R[x]
      BY <1>2
    <2>2. t.parent[x] \in X \cup {NULL}
      BY ParentIs
    <2>3. IsRed(t, x) /\ IsRed(t, t.parent[x])
      BY <1>2, <1>3, <1>4, <2>1, <2>2
    <2>4. QED
      BY <2>1, <2>3 DEF RedsApart
  <1>5. QED
    BY <1>1, <1>2, <1>3, <1>4 DEF RedsApart

\* A tree with its colours right stays so when one node takes the place of another.
LEMMA RenamedStands ==
  ASSUME NEW t, NEW sub, NEW bh, NEW X, Standing(t, sub, bh, X),
         NEW old, NEW e, Succeeds(X, old, e), NEW u, u = Spliced(t, old, e)
  PROVE  \E s, b : Standing(u, s, b, (X \ {old}) \cup {e})
  <1>1. /\ Tree(t, sub, X) /\ Balanced(t, bh, X, NULL, "L")
        /\ RedsApart(t, X, {}) /\ ~IsRed(t, t.root)
    BY DEF Standing
  <1>2. PICK R, Y : R = Rename(X, old, e) /\ Y = (X \ {old}) \cup {e}
    OBVIOUS
  <1>3. Renamed(t, R, X, Y, u)
    BY <1>1, <1>2, SpliceWrites
  <1>4. X \in SUBSET Nodes /\ Y \in SUBSET Nodes /\ R[NULL] = NULL
    <2>1. X \in SUBSET Nodes
      BY <1>1, WholeIs
    <2>2. NamesFit(t, X, old, e, R, Y, u)
      BY <1>2, <1>3, <2>1, RenameIs
    <2>3. QED
      BY <2>1, <2>2 DEF NamesFit
  <1>5. PICK s : Tree(u, s, Y)
    BY <1>1, <1>3, <1>4, RenamedKeeps
  <1>6. PICK b : Balanced(u, b, Y, NULL, "L")
    <2>1. \E b : Balanced(u, b, Y, R[NULL], "L")
      BY <1>1, <1>2, <1>3, RenamedBalance
    <2>2. QED
      BY <1>4, <2>1
  <1>7. RedsApart(u, Y, {}) /\ ~IsRed(u, u.root)
    BY <1>1, <1>2, <1>3, RenamedReds
  <1>8. QED
    BY <1>2, <1>5, <1>6, <1>7 DEF Standing

\* What is lacking is lacking below the node with the new name.
LEMMA RenamedLacks ==
  ASSUME NEW t, NEW sub, NEW bh, NEW X, NEW c, NEW p, Lacking(t, sub, bh, X, c, p),
         NEW old, NEW e, Succeeds(X, old, e), NEW u, u = Spliced(t, old, e), c # old
  PROVE  \E s, b : Lacking(u, s, b, (X \ {old}) \cup {e}, c, IF p = old THEN e ELSE p)
  <1>1. /\ Tree(t, sub, X) /\ c \in X \cup {NULL}
        /\ RedsApart(t, X, {n \in X : c \in {n, t.parent[n]}})
        /\ IsRed(t, t.root) => t.root = c
    BY DEF Lacking
  <1>2. PICK R, Y : R = Rename(X, old, e) /\ Y = (X \ {old}) \cup {e}
    OBVIOUS
  <1>3. Renamed(t, R, X, Y, u)
    BY <1>1, <1>2, SpliceWrites
  <1>4. X \in SUBSET Nodes /\ NULL \notin X /\ t.root \in X \cup {NULL}
    BY <1>1, WholeIs
  <1>5. /\ \A x \in X : R[x] \in Y
        /\ R[NULL] = NULL /\ \A x \in X \cup {NULL} : x # old => R[x] = x
        /\ R[old] = e /\ \A x, k \in X \cup {NULL} : R[x] = R[k] => x = k
        /\ \A x \in X, a \in Dir : u.child[R[x]][a] = R[t.child[x][a]]
        /\ \A x \in X : u.parent[R[x]] = R[t.parent[x]]
        /\ u.root = R[t.root] /\ old \in X /\ e \in Nodes /\ e \notin X
    <2>1. NamesFit(t, X, old, e, R, Y, u)
      BY <1>2, <1>3, <1>4, RenameIs
    <2>2. QED
      BY <2>1 DEF NamesFit
  <1>6. PICK s : Tree(u, s, Y)
    <2>1. Y \in SUBSET Nodes
      BY <1>2, <1>4, <1>5
    <2>2. QED
      BY <1>1, <1>3, <2>1, RenamedKeeps
  <1>7. R[c] = c /\ c \in Y \cup {NULL}
    BY <1>1, <1>2, <1>5
  <1>8. /\ RedsApart(u, Y, {n \in Y : c \in {n, u.parent[n]}})
        /\ IsRed(u, u.root) <=> IsRed(t, t.root)
    <2>1. PICK E, F : /\ E = {n \in X : c \in {n, t.parent[n]}}
                      /\ F = {n \in Y : c \in {n, u.parent[n]}}
      OBVIOUS
    <2>2. ASSUME NEW x \in X, x \in E
          PROVE  R[x] \in F
      <3>1. c = x \/ c = t.parent[x]
        BY <2>1, <2>2
      <3>2. R[x] \in Y /\ u.parent[R[x]] = R[t.parent[x]]
        BY <1>5
      <3>3. QED
        BY <1>7, <2>1, <3>1, <3>2
    <2>3. RedsApart(t, X, E)
      BY <1>1, <2>1
    <2>4. RedsApart(u, Y, F) /\ (IsRed(u, u.root) <=> IsRed(t, t.root))
      BY <1>1, <1>2, <1>3, <2>2, <2>3, RenamedReds
    <2>5. QED
      BY <2>1, <2>4
  <1>9. c = u.root <=> c = t.root
    BY <1>1, <1>4, <1>5, <1>7
  <1>10. IsRed(u, u.root) => u.root = c
    BY <1>1, <1>8, <1>9
  <1>11. CASE c = t.root
    <2>1. Balanced(t, bh, X, NULL, "L")
      BY <1>11 DEF Lacking
    <2>2. \E b : Balanced(u, b, Y, R[NULL], "L")
      BY <1>1, <1>2, <1>3, <2>1, RenamedBalance
    <2>3. PICK b : Balanced(u, b, Y, NULL, "L")
      BY <1>5, <2>2
    <2>4. QED
      BY <1>2, <1>6, <1>7, <1>8, <1>9, <1>10, <1>11, <2>3 DEF Lacking
  <1>12. CASE c # t.root
    <2>1. PICK f : f = SideOf(t, p, c)
      OBVIOUS
    <2>2. p \in X /\ t.child[p][f] = c /\ Balanced(t, bh, X, p, f) /\ f \in Dir
      BY <1>12, <2>1, SidesAre DEF Lacking, SideOf
    <2>3. PICK b : Balanced(u, b, Y, R[p], f)
      BY <1>1, <1>2, <1>3, <2>2, RenamedBalance
    <2>4. R[p] = (IF p = old THEN e ELSE p) /\ R[p] \in Y
      BY <1>5, <2>2
    <2>5. u.child[R[p]][f] = c
      BY <1>5, <1>7, <2>2
    <2>6. SideOf(u, R[p], c) = f
      <3>1. u.child[R[p]]["L"] = R[t.child[p]["L"]] /\ t.child[p]["L"] \in X \cup {NULL}
        BY <1>1, <1>5, <2>2, SidesAre, KidIs
      <3>2. u.child[R[p]]["L"] = c <=> t.child[p]["L"] = c
        BY <1>1, <1>5, <1>7, <3>1
      <3>3. QED
        BY <2>1, <3>2 DEF SideOf, Left
    <2>7. QED
      BY <1>2, <1>6, <1>7, <1>8, <1>9, <1>10, <1>12, <2>3, <2>4, <2>5, <2>6 DEF Lacking
  <1>13. QED
    BY <1>11, <1>12

-----------------------------------------------------------------------------
(* RB_INSERT_COLOR                                                         *)

\* A rotation of a tree after a change of colours.
LEMMA RotateIs ==
  ASSUME NEW t, NEW sub, NEW X, Tree(t, sub, X), NEW n \in X, NEW d \in Dir,
         NEW up, NEW near, NEW mid, NEW far, NEW p, Pivot(t, n, d, up, near, mid, far, p),
         NEW w, Painted(t, w), NEW u, u = Rotate(w, n, d)
  PROVE  /\ Turned(w, n, d, up, mid, p, u)
         /\ \E new : Tree(u, new, X)
  <1>1. Tree(w, sub, X)
    BY PaintedKeeps
  <1>2. Pivot(w, n, d, up, near, mid, far, p)
    BY DEF Pivot, Painted
  <1>3. Turned(w, n, d, up, mid, p, u)
    BY <1>1, <1>2, TurnedIs
  <1>4. \E new : Tree(u, new, X)
    BY <1>1, <1>2, <1>3, TurnKeeps
  <1>5. QED
    BY <1>3, <1>4

\* The nodes about a node.
LEMMA PivotExists ==
  ASSUME NEW t, NEW n, NEW d, NEW up, up = t.child[n][Opp(d)], up # NULL
  PROVE  Pivot(t, n, d, up, t.child[n][d], t.child[up][d], t.child[up][Opp(d)], t.parent[n])
  BY DEF Pivot

\* The red parent p of e, and the grandparent, of which p is the child on side d.
Grand(t, e, p, g, d) ==
  /\ p = t.parent[e] /\ IsRed(t, p) /\ g = t.parent[p]
  /\ d \in Dir /\ t.child[g][d] = p

\* A red parent is not the root, and the grandparent is black.
GrandFacts(t, X, e, p, g) ==
  /\ RedsApart(t, X, {e})
  /\ X \in SUBSET Nodes /\ NULL \notin X
  /\ e \in X /\ p \in X /\ g \in X /\ p # e /\ p # t.root /\ e # t.root
  /\ Own(t, e) = 0 /\ Own(t, p) = 0 /\ Own(t, g) = 1 /\ p # g /\ e # g
  /\ t.parent[e] = p /\ t.parent[p] = g
  /\ t.root \in X /\ t \in Trees /\ Own(t, t.root) = 1

\* There is a grandparent.
LEMMA GrandExists ==
  ASSUME NEW t, NEW sub, NEW bh, NEW X, NEW e, Reddened(t, sub, bh, X, e),
         NEW p, p = t.parent[e], IsRed(t, p), NEW g, g = t.parent[p]
  PROVE  /\ GrandFacts(t, X, e, p, g)
         /\ Grand(t, e, p, g, IF p = Left(t, g) THEN "L" ELSE "R")
         /\ \E a \in Dir : t.child[p][a] = e /\ t.child[p][Opp(a)] # e
  <1>1. /\ Tree(t, sub, X) /\ RedsApart(t, X, {e})
        /\ e \in X /\ IsRed(t, e) /\ (IsRed(t, t.root) => t.root = e)
    BY DEF Reddened
  <1>2. X \in SUBSET Nodes /\ NULL \notin X /\ t.root \in X /\ t \in Trees
    BY <1>1, WholeIs
  <1>3. p # NULL /\ Own(t, p) = 0 /\ Own(t, e) = 0
    BY <1>1, RedIs
  <1>4. /\ p \in X /\ p # e /\ e # t.root
        /\ \E a \in Dir : t.child[p][a] = e /\ t.child[p][Opp(a)] # e
    BY <1>1, <1>3, ParentIs
  <1>5. p # t.root
    BY <1>1, <1>4
  <1>6. /\ g \in X /\ g # p
        /\ \E a \in Dir : t.child[g][a] = p /\ t.child[g][Opp(a)] # p
    BY <1>1, <1>4, <1>5, ParentIs
  <1>7. Grand(t, e, p, g, IF p = Left(t, g) THEN "L" ELSE "R")
    BY <1>6, SidesAre DEF Left, Grand
  <1>8. Own(t, g) = 1
    <2>1. ~IsRed(t, g)
      BY <1>1, <1>4 DEF RedsApart
    <2>2. QED
      BY <1>2, <1>6, <2>1, RedIs
  <1>9. Own(t, t.root) = 1
    BY <1>1, <1>2, <1>4, RedIs
  <1>10. e # g
    <2>1. Own(t, e) # Own(t, g)
      BY <1>3, <1>8
    <2>2. QED
      BY <2>1
  <1>11. GrandFacts(t, X, e, p, g)
    BY <1>1, <1>2, <1>3, <1>4, <1>5, <1>6, <1>8, <1>9, <1>10 DEF GrandFacts
  <1>12. QED
    BY <1>4, <1>7, <1>11

\* What holds of them.
LEMMA GrandIs ==
  ASSUME NEW t, NEW sub, NEW bh, NEW X, NEW e, Reddened(t, sub, bh, X, e),
         NEW p, NEW g, NEW d, Grand(t, e, p, g, d)
  PROVE  GrandFacts(t, X, e, p, g)
  BY GrandExists DEF Grand

\* The colours after the first case of the loop.
Passed(t, p, v, g) == RB_SET_BLACKRED(SetColor(t, v, "black"), p, g)

\* A red uncle: parent and uncle turn black and the grandparent red, which is
\* then the node that may have a red parent.
LEMMA UncleKeeps ==
  ASSUME NEW t, NEW sub, NEW bh, NEW X, NEW e, Reddened(t, sub, bh, X, e),
         NEW p, NEW g, NEW d, Grand(t, e, p, g, d),
         NEW v, v = t.child[g][Opp(d)], IsRed(t, v), NEW u, u = Passed(t, p, v, g)
  PROVE  \E b : Reddened(u, sub, b, X, g)
  <1>0. GrandFacts(t, X, e, p, g)
    BY GrandIs
  <1>1. /\ Tree(t, sub, X) /\ Balanced(t, bh, X, NULL, "L") /\ RedsApart(t, X, {e})
        /\ X \in SUBSET Nodes /\ NULL \notin X
        /\ e \in X /\ p \in X /\ g \in X /\ d \in Dir /\ p # e /\ p # t.root /\ e # t.root
        /\ Own(t, e) = 0 /\ Own(t, p) = 0 /\ Own(t, g) = 1 /\ p # g /\ e # g
        /\ t.child[g][d] = p /\ t.parent[e] = p /\ t.parent[p] = g
        /\ t.root \in X /\ t \in Trees /\ Own(t, t.root) = 1
    BY Zenon, <1>0 DEF GrandFacts, Grand, Reddened
  <1>2. v \in X /\ Own(t, v) = 0 /\ t.parent[v] = g
    <2>1. v # NULL /\ Own(t, v) = 0
      BY RedIs
    <2>2. (v \in X \cup {NULL}) /\ (v # NULL => t.parent[v] = g)
      BY <1>1, OppIs, KidIs
    <2>3. QED
      BY <2>1, <2>2
  <1>3. p \in N0 /\ g \in N0 /\ v \in N0 /\ t \in Trees /\ "black" \in Colors /\ "black" # "red"
    BY <1>1, <1>2, WholeIs DEF N0, Colors
  <1>4. PICK t1 : t1 = SetColor(t, v, "black")
    OBVIOUS
  <1>5. /\ Painted(t, t1) /\ t1 \in Trees
        /\ \A x \in Nodes : Own(t1, x) = IF x = v THEN 1 ELSE Own(t, x)
    BY <1>3, <1>4, PaintOne DEF Painted
  <1>6. /\ Painted(t1, u)
        /\ \A x \in Nodes : Own(u, x) = IF x = g THEN 0 ELSE IF x = p THEN 1 ELSE Own(t1, x)
    <2>1. u = RB_SET_BLACKRED(t1, p, g)
      BY <1>4 DEF Passed
    <2>2. QED
      BY <1>3, <1>5, <2>1, PaintTwo
  <1>7. Repainted(t, u, X, {p, v}, {g})
    <2>1. Painted(t, u)
      BY <1>5, <1>6 DEF Painted
    <2>2. \A x \in X : Own(u, x) = IF x \in {g} THEN 0 ELSE IF x \in {p, v} THEN 1 ELSE Own(t, x)
      BY <1>1, <1>5, <1>6
    <2>3. QED
      BY <2>1, <2>2 DEF Repainted
  <1>8. PICK c : Balanced(u, c, X, NULL, "L")
    <2>1. p = t.child[g][d] /\ v = t.child[g][Opp(d)]
      BY <1>1
    <2>2. g \in X /\ d \in Dir /\ p \in X /\ v \in X
      BY <1>1, <1>2
    <2>3. Own(t, p) = 0 /\ Own(t, v) = 0 /\ Own(t, g) = 1
      BY <1>1, <1>2
    <2>4. Tree(t, sub, X) /\ Balanced(t, bh, X, NULL, "L")
      BY <1>1
    <2>5. QED
      BY <1>7, <2>1, <2>2, <2>3, <2>4, UncleBalance
  <1>9. Tree(u, sub, X)
    BY <1>1, <1>7, PaintedKeeps DEF Repainted
  <1>10. Own(u, p) = 1 /\ Own(u, v) = 1 /\ Own(u, g) = 0
    BY <1>1, <1>2, <1>7 DEF Repainted
  <1>11. RedsApart(u, X, {g})
    <2>1. ASSUME NEW x \in X, x \in {e} \/ x \in {g} \/ t.parent[x] \in {g}
          PROVE  x \in {g} \/ Own(u, x) = 1 \/ t.parent[x] = NULL \/ Own(u, t.parent[x]) = 1
      <3>1. CASE x = e
        BY <1>1, <1>10, <3>1
      <3>2. CASE t.parent[x] = g
        <4>1. \E a \in Dir : t.child[g][a] = x
          BY <1>1, <3>2, ParentIs
        <4>2. x = p \/ x = v
          BY <1>1, <4>1, OppIs
        <4>3. QED
          BY <1>10, <4>2
      <3>3. QED
        BY <2>1, <3>1, <3>2
    <2>2. QED
      BY <1>1, <1>7, <2>1, PaintReds
  <1>12. IsRed(u, u.root) => u.root = g
    <2>1. u.root = t.root /\ t.root \in X
      BY <1>1, <1>7, WholeIs DEF Repainted, Painted
    <2>2. t.root # g => Own(u, t.root) = 1
      <3>1. ~IsRed(t, t.root)
        BY <1>1, RedIs
      <3>2. Own(t, t.root) = 1
        BY <1>1, <2>1, <3>1, RedIs
      <3>3. QED
        BY <1>7, <2>1, <3>2 DEF Repainted
    <2>3. QED
      BY <2>1, <2>2, RedIs
  <1>13. IsRed(u, g)
    BY <1>1, <1>10, RedIs
  <1>14. QED
    BY <1>1, <1>8, <1>9, <1>11, <1>12, <1>13 DEF Reddened

\* The first rotation, if elm and its parent are on different sides: the parent
\* is the lower one then.
LEMMA InnerKeeps ==
  ASSUME NEW t, NEW sub, NEW bh, NEW X, NEW e, Reddened(t, sub, bh, X, e),
         NEW p, NEW g, NEW d, Grand(t, e, p, g, d),
         t.child[p][Opp(d)] = e, NEW u, u = Rotate(t, p, d)
  PROVE  /\ \E s, b : Reddened(u, s, b, X, p)
         /\ u.parent[p] = e /\ u.parent[e] = g /\ u.child[e][d] = p
         /\ u.child[g][d] = e /\ u.child[g][Opp(d)] = t.child[g][Opp(d)]
         /\ u.color = t.color
  <1>0. GrandFacts(t, X, e, p, g)
    BY GrandIs
  <1>1. /\ Tree(t, sub, X) /\ Balanced(t, bh, X, NULL, "L") /\ RedsApart(t, X, {e})
        /\ X \in SUBSET Nodes /\ NULL \notin X
        /\ e \in X /\ p \in X /\ g \in X /\ d \in Dir /\ p # e /\ p # t.root /\ e # t.root
        /\ Own(t, e) = 0 /\ Own(t, p) = 0 /\ Own(t, g) = 1 /\ p # g /\ e # g
        /\ t.child[g][d] = p /\ t.parent[e] = p /\ t.parent[p] = g
        /\ t.root \in X /\ t \in Trees /\ Own(t, t.root) = 1
    BY <1>0 DEF GrandFacts, Grand, Reddened
  <1>2. PICK near, mid, far : Pivot(t, p, d, e, near, mid, far, g)
    BY <1>1, PivotExists
  <1>3. Painted(t, t)
    BY <1>1, WholeIs DEF Painted
  <1>4. Turned(t, p, d, e, mid, g, u) /\ \E s : Tree(u, s, X)
    BY <1>1, <1>2, <1>3, RotateIs
  <1>5. PICK s : Tree(u, s, X)
    BY <1>4
  <1>6. /\ u.child[e][d] = p /\ u.parent[p] = e /\ u.parent[e] = g
        /\ \A x \in X, a \in Dir :
              x # p /\ x # e => u.child[x][a] = IF t.child[x][a] = p THEN e ELSE t.child[x][a]
        /\ u.color = t.color /\ u.root = IF g = NULL THEN e ELSE t.root
        /\ mid # p /\ mid # e /\ mid \in X \cup {NULL}
    BY <1>1, <1>2, <1>3, <1>4, TurnedFields
  <1>7. u.child[g][d] = e /\ u.child[g][Opp(d)] = t.child[g][Opp(d)]
    <2>1. t.child[g][Opp(d)] # p
      BY <1>1, OneSide
    <2>2. QED
      BY <1>1, <1>6, <2>1, OppIs
  <1>8. PICK b : Balanced(u, b, X, NULL, "L")
    <2>1. Swapped(t, t, X, p, e)
      BY <1>1 DEF Swapped
    <2>2. QED
      BY <1>1, <1>2, <1>3, <1>4, <2>1, TurnBalance
  <1>9. RedsApart(u, X, {p})
    <2>1. mid = NULL \/ Own(t, mid) = 1
      <3>1. SUFFICES ASSUME mid # NULL, Own(t, mid) = 0 PROVE FALSE
        BY RedIs
      <3>2. t.child[e][d] = mid
        BY <1>2 DEF Pivot
      <3>3. t.parent[mid] = e
        BY <1>1, <3>1, <3>2, KidIs
      <3>4. IsRed(t, mid) /\ IsRed(t, t.parent[mid])
        BY <1>1, <3>1, <3>3, RedIs
      <3>5. QED
        BY <1>6, <3>1, <3>4, <1>1 DEF RedsApart
    <2>2. QED
      BY <1>1, <1>2, <1>3, <1>4, <2>1, TurnReds
  <1>10. ~IsRed(u, u.root)
    <2>1. u.root = t.root
      BY <1>1, <1>6
    <2>2. ~IsRed(t, t.root)
      BY <1>1, RedIs
    <2>3. QED
      BY <1>6, <2>1, <2>2 DEF IsRed
  <1>11. IsRed(u, p)
    <2>1. IsRed(t, p)
      BY DEF Grand
    <2>2. QED
      BY <1>6, <2>1 DEF IsRed
  <1>12. QED
    BY <1>1, <1>5, <1>6, <1>7, <1>8, <1>9, <1>10, <1>11 DEF Reddened

\* The tree after the rotation about the grandparent.
Raised(t, p, g, d) == Rotate(RB_SET_BLACKRED(t, p, g), g, Opp(d))

\* The rotation about the grandparent ends the loop.
LEMMA OuterKeeps ==
  ASSUME NEW t, NEW sub, NEW bh, NEW X, NEW e, Reddened(t, sub, bh, X, e),
         NEW p, NEW g, NEW d, Grand(t, e, p, g, d), t.child[p][d] = e,
         ~IsRed(t, t.child[g][Opp(d)]),
         NEW u, u = Raised(t, p, g, d)
  PROVE  (\E s, b : Reddened(u, s, b, X, e)) /\ ~IsRed(u, u.parent[e])
  <1>0. GrandFacts(t, X, e, p, g)
    BY GrandIs
  <1>1. /\ Tree(t, sub, X) /\ Balanced(t, bh, X, NULL, "L") /\ RedsApart(t, X, {e})
        /\ X \in SUBSET Nodes /\ NULL \notin X
        /\ e \in X /\ p \in X /\ g \in X /\ d \in Dir /\ p # e /\ p # t.root /\ e # t.root
        /\ Own(t, e) = 0 /\ Own(t, p) = 0 /\ Own(t, g) = 1 /\ p # g /\ e # g
        /\ t.child[g][d] = p /\ t.parent[e] = p /\ t.parent[p] = g
        /\ t.root \in X /\ t \in Trees /\ Own(t, t.root) = 1
    BY <1>0 DEF GrandFacts, Grand, Reddened
  <1>2. PICK o : o = Opp(d)
    OBVIOUS
  <1>3. o \in Dir /\ Opp(o) = d /\ o # d /\ \A a \in Dir : a = d \/ a = o
    BY <1>1, <1>2, OppIs
  <1>4. PICK near, mid, far, pp : Pivot(t, g, o, p, near, mid, far, pp)
    <2>1. p = t.child[g][Opp(o)] /\ p # NULL
      BY <1>1, <1>3
    <2>2. QED
      BY <2>1, PivotExists
  <1>5. near = t.child[g][o] /\ mid = t.child[p][o] /\ pp = t.parent[g] /\ far = e
    BY <1>3, <1>4 DEF Pivot
  <1>6. PICK w : w = RB_SET_BLACKRED(t, p, g)
    OBVIOUS
  <1>7. Repainted(t, w, X, {p}, {g})
    <2>1. t \in Trees /\ p \in N0 /\ g \in N0
      BY <1>1, WholeIs, SetsAre
    <2>2. /\ Painted(t, w)
          /\ \A x \in Nodes : Own(w, x) = IF x = g THEN 0 ELSE IF x = p THEN 1 ELSE Own(t, x)
      BY <1>6, <2>1, PaintTwo
    <2>3. \A x \in X : Own(w, x) = IF x \in {g} THEN 0 ELSE IF x \in {p} THEN 1 ELSE Own(t, x)
      BY <1>1, <2>2
    <2>4. QED
      BY <2>2, <2>3 DEF Repainted
  <1>8. Painted(t, w)
    BY <1>7 DEF Repainted
  <1>9. u = Rotate(w, g, o)
    BY <1>2, <1>6 DEF Raised
  <1>10. Turned(w, g, o, p, mid, pp, u) /\ \E s : Tree(u, s, X)
    BY <1>1, <1>3, <1>4, <1>8, <1>9, RotateIs
  <1>11. PICK s : Tree(u, s, X)
    BY <1>10
  <1>12. /\ u.color = w.color /\ u.root = IF pp = NULL THEN p ELSE t.root
         /\ mid # g /\ mid # p /\ mid \in X \cup {NULL} /\ near \in X \cup {NULL}
         /\ near # g /\ near # p
    BY <1>1, <1>3, <1>4, <1>8, <1>10, TurnedFields
  <1>13. Own(w, p) = 1 /\ Own(w, g) = 0 /\ \A x \in X : x # p /\ x # g => Own(w, x) = Own(t, x)
    BY <1>1, <1>7 DEF Repainted
  <1>14. PICK b : Balanced(u, b, X, NULL, "L")
    <2>1. Swapped(t, w, X, g, p)
      BY <1>1, <1>13 DEF Swapped
    <2>2. QED
      BY <1>1, <1>3, <1>4, <1>8, <1>10, <2>1, TurnBalance
  <1>15. RedsApart(w, X, {g})
    <2>1. ASSUME NEW x \in X, x \in {e} \/ x \in {g} \/ t.parent[x] \in {g}
          PROVE  x \in {g} \/ Own(w, x) = 1 \/ t.parent[x] = NULL \/ Own(w, t.parent[x]) = 1
      <3>1. CASE x = e
        BY <1>1, <1>13, <3>1
      <3>2. CASE t.parent[x] = g
        <4>1. \E a \in Dir : t.child[g][a] = x
          BY <1>1, <3>2, ParentIs
        <4>2. x = p \/ x = near
          BY <1>1, <1>3, <1>5, <4>1
        <4>3. CASE x = near
          <5>1. Own(t, near) = 1
            BY <1>1, <1>2, <1>5, <4>3, RedIs
          <5>2. QED
            BY <1>12, <1>13, <4>3, <5>1
        <4>4. QED
          BY <1>13, <4>2, <4>3
      <3>3. QED
        BY <2>1, <3>1, <3>2
    <2>2. QED
      BY <1>1, <1>7, <2>1, PaintReds
  <1>16. RedsApart(u, X, {e})
    <2>1. mid = NULL \/ Own(w, mid) = 1
      <3>1. SUFFICES ASSUME mid # NULL, Own(w, mid) = 0 PROVE FALSE
        BY RedIs
      <3>2. Own(t, mid) = 0
        BY <1>12, <1>13, <3>1
      <3>3. t.parent[mid] = p
        BY <1>1, <1>3, <1>5, <3>1, KidIs
      <3>4. IsRed(t, mid) /\ IsRed(t, t.parent[mid])
        BY <1>1, <3>1, <3>2, <3>3, RedIs
      <3>5. mid = e
        BY <1>1, <1>12, <3>1, <3>4 DEF RedsApart
      <3>6. t.child[p][o] # e
        <4>1. t.child[p][d] = e
          OBVIOUS
        <4>2. t.child[p][Opp(d)] # e
          BY <1>1, <4>1, OneSide
        <4>3. QED
          BY <1>2, <4>2
      <3>7. QED
        BY <1>5, <3>5, <3>6
    <2>2. QED
      BY <1>1, <1>3, <1>4, <1>8, <1>10, <1>13, <1>15, <2>1, TurnReds
  <1>17. \A x : Own(u, x) = Own(w, x)
    BY <1>12 DEF Own
  <1>18. ~IsRed(u, u.root)
    <2>1. CASE pp = NULL
      BY <1>12, <1>13, <1>17, <2>1, RedIs
    <2>2. CASE pp # NULL
      <3>1. t.root # g /\ t.root \in X
        BY <1>1, <1>5, <2>2, ParentIs, WholeIs
      <3>2. Own(t, t.root) = 1
        BY <1>1, <3>1, RedIs
      <3>3. QED
        BY <1>1, <1>12, <1>13, <1>17, <2>2, <3>1, <3>2, RedIs
    <2>3. QED
      BY <2>1, <2>2
  <1>19. IsRed(u, e)
    BY <1>1, <1>13, <1>17, RedIs
  <1>20. ~IsRed(u, u.parent[e])
    <2>1. t.child[p][d] = e
      OBVIOUS
    <2>2. t.child[p][Opp(d)] # e
      BY <1>1, <2>1, OneSide
    <2>3. e # mid /\ e # g /\ e # p /\ e \in Nodes
      BY <1>1, <1>2, <1>5, <2>2
    <2>4. u.parent[e] = w.parent[e]
      BY <1>10, <2>3 DEF Turned
    <2>5. w.parent = t.parent
      BY <1>8 DEF Painted
    <2>6. u.parent[e] = p /\ Own(u, p) = 1
      BY <1>1, <1>13, <1>17, <2>4, <2>5
    <2>7. QED
      BY <2>6, RedIs
  <1>21. \E a, c : Reddened(u, a, c, X, e)
    BY <1>1, <1>11, <1>14, <1>16, <1>18, <1>19 DEF Reddened
  <1>22. QED
    BY <1>20, <1>21

\* Both rotations.
LEMMA BothKeep ==
  ASSUME NEW t, NEW sub, NEW bh, NEW X, NEW e, Reddened(t, sub, bh, X, e),
         NEW p, NEW g, NEW d, Grand(t, e, p, g, d),
         ~IsRed(t, t.child[g][Opp(d)]), t.child[p][Opp(d)] = e,
         NEW v, v = Rotate(t, p, d), NEW u, u = Raised(v, e, g, d)
  PROVE  (\E s, b : Reddened(u, s, b, X, p)) /\ ~IsRed(u, u.parent[p])
  <1>0. GrandFacts(t, X, e, p, g)
    BY GrandIs
  <1>1. e \in X /\ NULL \notin X /\ Own(t, e) = 0 /\ d \in Dir
    BY <1>0 DEF GrandFacts, Grand
  <1>2. /\ \E s, b : Reddened(v, s, b, X, p)
        /\ v.parent[p] = e /\ v.parent[e] = g /\ v.child[e][d] = p
        /\ v.child[g][d] = e /\ v.child[g][Opp(d)] = t.child[g][Opp(d)]
        /\ v.color = t.color
    BY InnerKeeps
  <1>3. PICK s, b : Reddened(v, s, b, X, p)
    BY <1>2
  <1>4. IsRed(v, e)
    <2>1. IsRed(t, e)
      BY <1>1, RedIs
    <2>2. QED
      BY <1>2, <2>1 DEF IsRed
  <1>5. ~IsRed(v, v.child[g][Opp(d)])
    BY <1>2 DEF IsRed
  <1>6. Grand(v, p, e, g, d)
    BY <1>1, <1>2, <1>4 DEF Grand
  <1>7. QED
    BY <1>2, <1>3, <1>5, <1>6, OuterKeeps

\* The root turns black at the end, and all is right.
LEMMA InsertEnds ==
  ASSUME NEW t, NEW sub, NEW bh, NEW X, NEW e, Reddened(t, sub, bh, X, e),
         ~IsRed(t, t.parent[e]), NEW u, u = SetColor(t, t.root, "black")
  PROVE  \E b : Standing(u, sub, b, X)
  <1>1. /\ Tree(t, sub, X) /\ Balanced(t, bh, X, NULL, "L") /\ RedsApart(t, X, {e})
        /\ e \in X /\ (IsRed(t, t.root) => t.root = e)
    BY DEF Reddened
  <1>2. X \in SUBSET Nodes /\ NULL \notin X /\ t.root \in X /\ t \in Trees
    BY <1>1, WholeIs
  <1>3. t.root \in N0 /\ "black" \in Colors /\ "black" # "red"
    BY <1>2, SetsAre DEF Colors
  <1>4. /\ Painted(t, u)
        /\ \A x \in Nodes : Own(u, x) = IF x = t.root THEN 1 ELSE Own(t, x)
    BY <1>2, <1>3, PaintOne
  <1>5. Repainted(t, u, X, {t.root}, {})
    BY <1>2, <1>4 DEF Repainted
  <1>6. Tree(u, sub, X)
    BY <1>1, <1>4, PaintedKeeps
  <1>7. PICK b : Balanced(u, b, X, NULL, "L")
    <2>1. CASE Own(t, t.root) = 0
      <3>1. \E c : Balanced(u, c, X, NULL, "L")
        BY <1>1, <1>2, <1>5, <2>1, BlackenBalance
      <3>2. QED
        BY <3>1
    <2>2. CASE Own(t, t.root) = 1
      <3>1. \A x \in X : Own(u, x) = Own(t, x)
        BY <1>2, <1>4, <2>2
      <3>2. u.child = t.child
        BY <1>4 DEF Painted
      <3>3. Balanced(u, bh, X, NULL, "L")
        BY <1>1, <3>1, <3>2 DEF Balanced
      <3>4. QED
        BY <3>3
    <2>3. QED
      BY <2>1, <2>2, RedIs
  <1>8. RedsApart(u, X, {})
    <2>1. RedsApart(t, X, {})
      BY <1>1 DEF RedsApart
    <2>2. QED
      BY <1>1, <1>5, <2>1, PaintReds
  <1>9. ~IsRed(u, u.root)
    <2>1. u.root = t.root
      BY <1>4 DEF Painted
    <2>2. Own(u, t.root) = 1
      BY <1>2, <1>4
    <2>3. QED
      BY <2>1, <2>2, RedIs
  <1>10. QED
    BY <1>6, <1>7, <1>8, <1>9 DEF Standing

-----------------------------------------------------------------------------
(* RB_REMOVE_COLOR                                                         *)

\* The paths lack a black node that go from q to e, on side f; else all is right.
Deprived(t, sub, bh, X, e, q, f) ==
  /\ Tree(t, sub, X) /\ q \in X /\ f \in Dir /\ t.child[q][f] = e
  /\ Balanced(t, bh, X, q, f)
  /\ RedsApart(t, X, {}) /\ ~IsRed(t, t.root) /\ ~IsRed(t, e)

\* e has a sibling, s.
SiblingFacts(t, X, e, q, f, s) ==
  /\ X \in SUBSET Nodes /\ NULL \notin X /\ t \in Trees
  /\ q \in X /\ f \in Dir /\ Opp(f) \in Dir /\ t.child[q][f] = e /\ t.child[q][Opp(f)] = s
  /\ e \in X \cup {NULL} /\ (e = NULL \/ Own(t, e) = 1) /\ e # q
  /\ s \in X /\ s # e /\ s # q /\ t.parent[s] = q
  /\ t.root \in X /\ Own(t, t.root) = 1 /\ s # t.root
  /\ RedsApart(t, X, {})

\* A node other than q in a balanced tree, lacking a black node on one side of q,
\* is there on the other side.
LEMMA SiblingIs ==
  ASSUME NEW t, NEW sub, NEW bh, NEW X, NEW e, NEW q, NEW f, Deprived(t, sub, bh, X, e, q, f),
         NEW s, s = t.child[q][Opp(f)]
  PROVE  SiblingFacts(t, X, e, q, f, s)
  <1>1. /\ Tree(t, sub, X) /\ q \in X /\ f \in Dir /\ t.child[q][f] = e
        /\ Balanced(t, bh, X, q, f)
        /\ RedsApart(t, X, {}) /\ ~IsRed(t, t.root) /\ ~IsRed(t, e)
    BY DEF Deprived
  <1>2. X \in SUBSET Nodes /\ NULL \notin X /\ t.root \in X /\ t \in Trees
    BY <1>1, WholeIs
  <1>3. Opp(f) \in Dir /\ Opp(f) # f
    BY <1>1, OppIs
  <1>4. e \in X \cup {NULL} /\ s \in X \cup {NULL} /\ (s # NULL => t.parent[s] = q)
    BY <1>1, <1>3, KidIs
  <1>5. s # NULL
    <2>1. bh[q] = Own(t, q) + Height(bh, e) + Missing(q, f, q, f)
      BY <1>1, <1>2, BranchIs
    <2>2. bh[q] = Own(t, q) + Height(bh, s) + Missing(q, f, q, Opp(f))
      BY <1>1, <1>2, <1>3, BranchIs
    <2>3. Missing(q, f, q, f) = 1 /\ Missing(q, f, q, Opp(f)) = 0
      BY <1>3 DEF Missing
    <2>4. Height(bh, e) \in Nat /\ Height(bh, s) \in Nat
      BY <1>1, <1>2, <1>4, BalancedIs
    <2>5. Own(t, q) \in Nat
      BY DEF Own
    <2>6. Height(bh, s) # 0
      BY <2>1, <2>2, <2>3, <2>4, <2>5
    <2>7. QED
      BY <2>6 DEF Height
  <1>6. s \in X /\ t.parent[s] = q /\ s # q /\ t.child[q][f] # s
    <2>1. s \in X
      BY <1>4, <1>5
    <2>2. t.child[q][Opp(Opp(f))] # s /\ s # q
      BY <1>1, <1>3, <2>1, OneSide
    <2>3. QED
      BY <1>1, <1>4, <1>5, <2>1, <2>2, OppIs
  <1>7. e # q
    <2>1. e # NULL => t.parent[e] = q
      BY <1>1, KidIs
    <2>2. t.parent[q] # q
      BY <1>1, <1>2, ParentIs
    <2>3. QED
      BY <1>1, <1>2, <2>1, <2>2
  <1>8. s # t.root
    BY <1>1, <1>2, <1>6, WholeIs
  <1>9. Own(t, t.root) = 1 /\ (e = NULL \/ Own(t, e) = 1)
    BY <1>1, <1>2, RedIs
  <1>10. QED
    BY <1>1, <1>2, <1>3, <1>4, <1>6, <1>7, <1>8, <1>9 DEF SiblingFacts

\* The children of a red node are black.
LEMMA RedHasBlack ==
  ASSUME NEW t, NEW sub, NEW X, Tree(t, sub, X), RedsApart(t, X, {}),
         NEW n \in X, Own(t, n) = 0, NEW a \in Dir, NEW m, m = t.child[n][a]
  PROVE  m = NULL \/ Own(t, m) = 1
  <1>1. SUFFICES ASSUME m # NULL, Own(t, m) = 0 PROVE FALSE
    BY RedIs
  <1>2. m \in X /\ t.parent[m] = n /\ n # NULL
    BY <1>1, KidIs, WholeIs
  <1>3. IsRed(t, m) /\ IsRed(t, t.parent[m])
    BY <1>1, <1>2, RedIs
  <1>4. QED
    BY <1>2, <1>3 DEF RedsApart

\* The loop runs where e is black and not the root.
LEMMA LacksIs ==
  ASSUME NEW t, NEW sub, NEW bh, NEW X, NEW e, NEW q, Lacking(t, sub, bh, X, e, q),
         ~IsRed(t, e), e # t.root
  PROVE  Deprived(t, sub, bh, X, e, q, SideOf(t, q, e))
  <1>1. RedsApart(t, X, {})
    <2>1. RedsApart(t, X, {n \in X : e \in {n, t.parent[n]}})
      BY DEF Lacking
    <2>2. QED
      BY <2>1 DEF RedsApart
  <1>2. ~IsRed(t, t.root)
    BY DEF Lacking
  <1>3. SideOf(t, q, e) \in Dir
    BY SidesAre DEF SideOf
  <1>4. QED
    BY <1>1, <1>2, <1>3 DEF Lacking, Deprived

\* The side is that of e, as its sibling is another node.
LEMMA SideIs ==
  ASSUME NEW t, NEW sub, NEW bh, NEW X, NEW e, NEW q, NEW f, Deprived(t, sub, bh, X, e, q, f)
  PROVE  SideOf(t, q, e) = f
  <1>1. SiblingFacts(t, X, e, q, f, t.child[q][Opp(f)])
    BY SiblingIs
  <1>2. f \in Dir /\ t.child[q][f] = e /\ t.child[q][Opp(f)] # e
    BY <1>1 DEF SiblingFacts
  <1>3. QED
    BY <1>2, SidesAre DEF SideOf, Left

\* The tree after the rotation that brings the red sibling up.
Lifted(t, s, q, f) == Rotate(RB_SET_BLACKRED(t, s, q), q, f)

\* The sibling is black then, q is red, and the same paths lack a black node.
LEMMA LiftKeeps ==
  ASSUME NEW t, NEW sub, NEW bh, NEW X, NEW e, NEW q, NEW f, Deprived(t, sub, bh, X, e, q, f),
         NEW s, s = t.child[q][Opp(f)], IsRed(t, s), NEW u, u = Lifted(t, s, q, f)
  PROVE  /\ \E new, b : Deprived(u, new, b, X, e, q, f)
         /\ Own(u, u.child[q][Opp(f)]) = 1 /\ IsRed(u, q)
  <1>1. SiblingFacts(t, X, e, q, f, s)
    BY SiblingIs
  <1>2. Tree(t, sub, X) /\ Balanced(t, bh, X, q, f) /\ RedsApart(t, X, {})
    BY DEF Deprived
  <1>3. /\ X \in SUBSET Nodes /\ NULL \notin X /\ t \in Trees
        /\ q \in X /\ f \in Dir /\ Opp(f) \in Dir /\ t.child[q][f] = e /\ t.child[q][Opp(f)] = s
        /\ e \in X \cup {NULL} /\ (e = NULL \/ Own(t, e) = 1) /\ e # q
        /\ s \in X /\ s # e /\ s # q /\ t.parent[s] = q
        /\ t.root \in X /\ Own(t, t.root) = 1 /\ s # t.root
    BY <1>1 DEF SiblingFacts
  <1>4. Own(t, s) = 0 /\ Own(t, q) = 1
    <2>1. Own(t, s) = 0
      BY RedIs
    <2>2. ~IsRed(t, q)
      BY <1>2, <1>3 DEF RedsApart
    <2>3. QED
      BY <1>3, <2>1, <2>2, RedIs
  <1>5. PICK near, mid, far, p : Pivot(t, q, f, s, near, mid, far, p)
    BY <1>3, PivotExists
  <1>6. near = e /\ mid = t.child[s][f] /\ far = t.child[s][Opp(f)] /\ p = t.parent[q]
    BY <1>3, <1>5 DEF Pivot
  <1>7. PICK w : w = RB_SET_BLACKRED(t, s, q)
    OBVIOUS
  <1>8. Repainted(t, w, X, {s}, {q})
    <2>1. t \in Trees /\ s \in N0 /\ q \in N0
      BY <1>3, SetsAre
    <2>2. /\ Painted(t, w)
          /\ \A x \in Nodes : Own(w, x) = IF x = q THEN 0 ELSE IF x = s THEN 1 ELSE Own(t, x)
      BY <1>7, <2>1, PaintTwo
    <2>3. \A x \in X : Own(w, x) = IF x \in {q} THEN 0 ELSE IF x \in {s} THEN 1 ELSE Own(t, x)
      BY <1>3, <2>2
    <2>4. QED
      BY <2>2, <2>3 DEF Repainted
  <1>9. Painted(t, w)
    BY <1>8 DEF Repainted
  <1>10. u = Rotate(w, q, f)
    BY <1>7 DEF Lifted
  <1>11. Turned(w, q, f, s, mid, p, u) /\ \E new : Tree(u, new, X)
    BY <1>2, <1>3, <1>5, <1>9, <1>10, RotateIs
  <1>12. PICK new : Tree(u, new, X)
    BY <1>11
  <1>13. /\ u.child[q][f] = near /\ u.child[q][Opp(f)] = mid
         /\ u.color = w.color /\ u.root = IF p = NULL THEN s ELSE t.root
         /\ mid # q /\ mid # s /\ mid \in X \cup {NULL}
    BY <1>2, <1>3, <1>5, <1>9, <1>11, TurnedFields
  <1>14. Own(w, s) = 1 /\ Own(w, q) = 0 /\ \A x \in X : x # s /\ x # q => Own(w, x) = Own(t, x)
    BY <1>3, <1>8 DEF Repainted
  <1>15. \A x : Own(u, x) = Own(w, x)
    BY <1>13 DEF Own
  <1>16. PICK b : Balanced(u, b, X, q, f)
    <2>1. Swapped(t, w, X, q, s)
      BY <1>3, <1>4, <1>14 DEF Swapped
    <2>2. QED
      BY <1>2, <1>3, <1>4, <1>5, <1>9, <1>11, <2>1, TurnBalance
  <1>17. RedsApart(w, X, {q})
    <2>1. ASSUME NEW x \in X, x \in {} \/ x \in {q} \/ t.parent[x] \in {q}
          PROVE  x \in {q} \/ Own(w, x) = 1 \/ t.parent[x] = NULL \/ Own(w, t.parent[x]) = 1
      <3>1. CASE t.parent[x] = q
        <4>1. \E a \in Dir : t.child[q][a] = x
          BY <1>2, <1>3, <3>1, ParentIs
        <4>2. x = s \/ x = e
          BY <1>3, <4>1, OppIs
        <4>3. QED
          BY <1>3, <1>14, <4>2
      <3>2. QED
        BY <2>1, <3>1
    <2>2. QED
      BY <1>2, <1>8, <2>1, PaintReds
  <1>18. mid = NULL \/ Own(w, mid) = 1
    <2>1. mid = NULL \/ Own(t, mid) = 1
      BY <1>2, <1>3, <1>4, <1>6, RedHasBlack
    <2>2. QED
      BY <1>13, <1>14, <2>1
  <1>19. RedsApart(u, X, {})
    BY <1>2, <1>3, <1>5, <1>9, <1>11, <1>14, <1>17, <1>18, TurnReds
  <1>20. ~IsRed(u, u.root)
    <2>1. CASE p = NULL
      BY <1>13, <1>14, <1>15, <2>1, RedIs
    <2>2. CASE p # NULL
      <3>1. t.root # q
        BY <1>2, <1>3, <1>6, <2>2, ParentIs
      <3>2. QED
        BY <1>3, <1>13, <1>14, <1>15, <2>2, <3>1, RedIs
    <2>3. QED
      BY <2>1, <2>2
  <1>21. ~IsRed(u, e)
    <2>1. CASE e = NULL
      BY <2>1 DEF IsRed
    <2>2. CASE e # NULL
      BY <1>3, <1>14, <1>15, <2>2, RedIs
    <2>3. QED
      BY <2>1, <2>2
  <1>22. Deprived(u, new, b, X, e, q, f)
    BY <1>3, <1>6, <1>12, <1>13, <1>16, <1>19, <1>20, <1>21 DEF Deprived
  <1>23. mid # NULL
    <2>1. SiblingFacts(u, X, e, q, f, u.child[q][Opp(f)])
      BY <1>22, SiblingIs
    <2>2. QED
      BY <1>13, <2>1 DEF SiblingFacts
  <1>24. Own(u, u.child[q][Opp(f)]) = 1
    BY <1>13, <1>15, <1>18, <1>23
  <1>25. IsRed(u, q)
    BY <1>3, <1>14, <1>15, RedIs
  <1>26. QED
    BY <1>22, <1>24, <1>25

\* Both children of the sibling are black: it turns red, and what was lacking is
\* lacking below the parent.
LEMMA SiblingKeeps ==
  ASSUME NEW t, NEW sub, NEW bh, NEW X, NEW e, NEW q, NEW f, Deprived(t, sub, bh, X, e, q, f),
         NEW s, s = t.child[q][Opp(f)], Own(t, s) = 1,
         \A a \in Dir : ~IsRed(t, t.child[s][a]),
         NEW u, u = SetColor(t, s, "red")
  PROVE  \E b : Lacking(u, sub, b, X, q, t.parent[q])
  <1>1. SiblingFacts(t, X, e, q, f, s)
    BY SiblingIs
  <1>2. Tree(t, sub, X) /\ Balanced(t, bh, X, q, f) /\ RedsApart(t, X, {})
    BY DEF Deprived
  <1>3. /\ X \in SUBSET Nodes /\ NULL \notin X /\ t \in Trees
        /\ q \in X /\ f \in Dir /\ Opp(f) \in Dir /\ t.child[q][f] = e /\ t.child[q][Opp(f)] = s
        /\ s \in X /\ s # q /\ t.parent[s] = q
        /\ t.root \in X /\ Own(t, t.root) = 1 /\ s # t.root
    BY <1>1 DEF SiblingFacts
  <1>4. PICK r : r = t.parent[q]
    OBVIOUS
  <1>5. /\ Painted(t, u)
        /\ \A x \in Nodes : Own(u, x) = IF x = s THEN 0 ELSE Own(t, x)
    <2>1. s \in N0 /\ "red" \in Colors
      BY <1>3, SetsAre DEF Colors
    <2>2. QED
      BY <1>3, <2>1, PaintOne
  <1>6. Repainted(t, u, X, {}, {s})
    BY <1>3, <1>5 DEF Repainted
  <1>7. Tree(u, sub, X)
    BY <1>2, <1>5, PaintedKeeps
  <1>8. u.root = t.root /\ u.child = t.child /\ u.parent = t.parent
    BY <1>5 DEF Painted
  <1>9. RedsApart(u, X, {n \in X : q \in {n, u.parent[n]}})
    <2>1. PICK F : F = {n \in X : q \in {n, u.parent[n]}}
      OBVIOUS
    <2>2. ASSUME NEW x \in X, x \in {} \/ x \in {s} \/ t.parent[x] \in {s}
          PROVE  x \in F \/ Own(u, x) = 1 \/ t.parent[x] = NULL \/ Own(u, t.parent[x]) = 1
      <3>1. CASE x = s
        BY <1>3, <1>8, <2>1, <3>1
      <3>2. CASE t.parent[x] = s
        <4>1. PICK a \in Dir : t.child[s][a] = x
          BY <1>2, <1>3, <3>2, ParentIs
        <4>2. Own(t, x) = 1
          BY <1>3, <4>1, RedIs
        <4>3. x # s
          BY <1>2, <1>3, <3>2, ParentIs
        <4>4. QED
          BY <1>3, <1>5, <4>2, <4>3
      <3>3. QED
        BY <2>2, <3>1, <3>2
    <2>3. RedsApart(u, X, F)
      BY <1>2, <1>6, <2>2, PaintReds
    <2>4. QED
      BY <2>1, <2>3
  <1>10. ~IsRed(u, u.root)
    BY <1>3, <1>5, <1>8, RedIs
  <1>11. CASE r = NULL
    <2>1. q = t.root
      <3>1. t.parent[q] = NULL
        BY <1>4, <1>11
      <3>2. QED
        BY <1>2, <1>3, <3>1, ParentIs
    <2>2. \E c : Balanced(u, c, X, NULL, "L")
      BY <1>2, <1>3, <1>6, <2>1, SiblingBalance
    <2>3. QED
      BY Zenon, <1>3, <1>7, <1>8, <1>9, <1>10, <2>1, <2>2 DEF Lacking
  <1>12. CASE r # NULL
    <2>1. r \in X /\ q # t.root /\ \E g \in Dir : t.child[r][g] = q /\ t.child[r][Opp(g)] # q
      BY <1>2, <1>3, <1>4, <1>12, ParentIs
    <2>2. PICK g \in Dir : t.child[r][g] = q /\ t.child[r][Opp(g)] # q
      BY <2>1
    <2>3. \E c : Balanced(u, c, X, r, g)
      BY <1>2, <1>3, <1>6, <2>1, <2>2, SiblingBalance
    <2>4. SideOf(u, r, q) = g
      BY <1>8, <2>2, SidesAre DEF SideOf, Left
    <2>5. u.child[r][g] = q
      BY <1>8, <2>2
    <2>6. QED
      BY Zenon, <1>3, <1>4, <1>7, <1>8, <1>9, <1>10, <2>1, <2>3, <2>4, <2>5 DEF Lacking
  <1>13. QED
    BY <1>11, <1>12

\* The tree after the first rotation of the last case, which brings the red child
\* near up, to be the sibling.
Bent(t, near, s, f) == Rotate(RB_SET_BLACKRED(t, near, s), s, Opp(f))

\* s is the black sibling, and of its children only near is red, on side f.
NearIsRed(t, q, f, s, near) ==
  /\ s = t.child[q][Opp(f)] /\ Own(t, s) = 1
  /\ near = t.child[s][f] /\ IsRed(t, near) /\ ~IsRed(t, t.child[s][Opp(f)])

\* The other child of the sibling is red then, and the same paths lack a node.
LEMMA BentKeeps ==
  ASSUME NEW t, NEW sub, NEW bh, NEW X, NEW e, NEW q, NEW f, Deprived(t, sub, bh, X, e, q, f),
         NEW s, NEW near, NearIsRed(t, q, f, s, near), NEW u, u = Bent(t, near, s, f)
  PROVE  /\ \E new, b : Deprived(u, new, b, X, e, q, f)
         /\ u.child[q][Opp(f)] = near /\ Own(u, near) = 1
         /\ u.child[near][Opp(f)] = s /\ IsRed(u, s)
  <1>1. SiblingFacts(t, X, e, q, f, s)
    BY SiblingIs DEF NearIsRed
  <1>2. Tree(t, sub, X) /\ Balanced(t, bh, X, q, f) /\ RedsApart(t, X, {})
    BY DEF Deprived
  <1>3. /\ X \in SUBSET Nodes /\ NULL \notin X /\ t \in Trees
        /\ q \in X /\ f \in Dir /\ Opp(f) \in Dir /\ t.child[q][f] = e /\ t.child[q][Opp(f)] = s
        /\ e \in X \cup {NULL} /\ (e = NULL \/ Own(t, e) = 1) /\ e # q
        /\ s \in X /\ s # e /\ s # q /\ t.parent[s] = q
        /\ t.root \in X /\ Own(t, t.root) = 1 /\ s # t.root
    BY <1>1 DEF SiblingFacts
  <1>4. /\ Own(t, near) = 0 /\ near # NULL /\ Own(t, s) = 1
        /\ near = t.child[s][f] /\ ~IsRed(t, t.child[s][Opp(f)])
    BY RedIs DEF NearIsRed
  <1>5. PICK o : o = Opp(f)
    OBVIOUS
  <1>6. o \in Dir /\ Opp(o) = f /\ o # f /\ \A a \in Dir : a = f \/ a = o
    BY <1>3, <1>5, OppIs
  <1>7. PICK far, mid, low, p : Pivot(t, s, o, near, far, mid, low, p)
    <2>1. near = t.child[s][Opp(o)]
      BY <1>4, <1>6
    <2>2. QED
      BY <1>4, <2>1, PivotExists
  <1>8. far = t.child[s][o] /\ mid = t.child[near][o] /\ p = q
    BY <1>3, <1>7 DEF Pivot
  <1>9. near \in X /\ near # s /\ near # q
    <2>1. near \in X /\ t.parent[near] = s /\ near # s
      <3>1. near \in X
        BY <1>2, <1>3, <1>4, KidIs
      <3>2. QED
        BY <1>2, <1>3, <1>4, <3>1, OneSide
    <2>2. near # p
      BY <1>2, <1>3, <1>6, <1>7, PivotIs
    <2>3. QED
      BY <1>8, <2>1, <2>2
  <1>10. PICK w : w = RB_SET_BLACKRED(t, near, s)
    OBVIOUS
  <1>11. Repainted(t, w, X, {near}, {s})
    <2>1. t \in Trees /\ s \in N0 /\ near \in N0
      BY <1>3, <1>9, SetsAre
    <2>2. /\ Painted(t, w)
          /\ \A x \in Nodes : Own(w, x) = IF x = s THEN 0 ELSE IF x = near THEN 1 ELSE Own(t, x)
      BY <1>10, <2>1, PaintTwo
    <2>3. \A x \in X : Own(w, x) = IF x \in {s} THEN 0 ELSE IF x \in {near} THEN 1 ELSE Own(t, x)
      BY <1>3, <2>2
    <2>4. QED
      BY <2>2, <2>3 DEF Repainted
  <1>12. Painted(t, w)
    BY <1>11 DEF Repainted
  <1>13. u = Rotate(w, s, o)
    BY <1>5, <1>10 DEF Bent
  <1>14. Turned(w, s, o, near, mid, p, u) /\ \E new : Tree(u, new, X)
    BY <1>2, <1>3, <1>6, <1>7, <1>12, <1>13, RotateIs
  <1>15. PICK new : Tree(u, new, X)
    BY <1>14
  <1>16. /\ u.child[near][o] = s
         /\ \A x \in X, a \in Dir :
              x # s /\ x # near =>
                u.child[x][a] = IF t.child[x][a] = s THEN near ELSE t.child[x][a]
         /\ u.color = w.color /\ u.root = IF p = NULL THEN near ELSE t.root
         /\ mid # s /\ mid # near /\ mid \in X \cup {NULL} /\ far # s /\ far # near
         /\ far \in X \cup {NULL}
    BY <1>2, <1>3, <1>6, <1>7, <1>12, <1>14, TurnedFields
  <1>17. /\ Own(w, near) = 1 /\ Own(w, s) = 0
         /\ \A x \in X : x # s /\ x # near => Own(w, x) = Own(t, x)
    BY <1>3, <1>9, <1>11 DEF Repainted
  <1>18. \A x : Own(u, x) = Own(w, x)
    BY <1>16 DEF Own
  <1>19. PICK b : Balanced(u, b, X, q, f)
    <2>1. Swapped(t, w, X, s, near)
      BY <1>3, <1>4, <1>9, <1>17 DEF Swapped
    <2>2. q # near /\ (q = s => f = o)
      BY <1>3, <1>9
    <2>3. QED
      BY <1>2, <1>3, <1>4, <1>6, <1>7, <1>12, <1>14, <2>1, <2>2, TurnBalance
  <1>20. RedsApart(w, X, {s})
    <2>1. ASSUME NEW x \in X, x \in {} \/ x \in {s} \/ t.parent[x] \in {s}
          PROVE  x \in {s} \/ Own(w, x) = 1 \/ t.parent[x] = NULL \/ Own(w, t.parent[x]) = 1
      <3>1. CASE t.parent[x] = s
        <4>1. \E a \in Dir : t.child[s][a] = x
          BY <1>2, <1>3, <3>1, ParentIs
        <4>2. x = near \/ x = far
          BY <1>4, <1>6, <1>8, <4>1
        <4>3. CASE x = far
          <5>1. Own(t, far) = 1
            BY <1>3, <1>4, <1>5, <1>8, <4>3, RedIs
          <5>2. QED
            BY <1>16, <1>17, <4>3, <5>1
        <4>4. QED
          BY <1>17, <4>2, <4>3
      <3>2. QED
        BY <2>1, <3>1
    <2>2. QED
      BY <1>2, <1>11, <2>1, PaintReds
  <1>21. mid = NULL \/ Own(w, mid) = 1
    <2>1. mid = NULL \/ Own(t, mid) = 1
      BY <1>2, <1>4, <1>6, <1>8, <1>9, RedHasBlack
    <2>2. QED
      BY <1>16, <1>17, <2>1
  <1>22. RedsApart(u, X, {})
    BY <1>2, <1>3, <1>6, <1>7, <1>12, <1>14, <1>17, <1>20, <1>21, TurnReds
  <1>23. ~IsRed(u, u.root)
    <2>1. u.root = t.root
      BY <1>3, <1>8, <1>16
    <2>2. Own(w, t.root) = 1
      BY <1>3, <1>17
    <2>3. QED
      BY <1>18, <2>1, <2>2, RedIs
  <1>24. ~IsRed(u, e)
    <2>1. CASE e = NULL
      BY <2>1 DEF IsRed
    <2>2. CASE e # NULL
      <3>1. Own(w, e) = 1
        BY <1>3, <1>17, <2>2
      <3>2. QED
        BY <1>18, <3>1, RedIs
    <2>3. QED
      BY <2>1, <2>2
  <1>25. u.child[q][f] = e /\ u.child[q][o] = near
    BY <1>3, <1>5, <1>6, <1>9, <1>16
  <1>26. Deprived(u, new, b, X, e, q, f)
    BY <1>3, <1>15, <1>19, <1>22, <1>23, <1>24, <1>25 DEF Deprived
  <1>27. IsRed(u, s)
    BY <1>3, <1>17, <1>18, RedIs
  <1>28. QED
    BY <1>5, <1>16, <1>17, <1>18, <1>25, <1>26, <1>27

\* The colours before the last rotation: the sibling takes that of the parent,
\* which turns black, as the red child of the sibling.
Healed(t, q, s, f) ==
  LET t1 == SetColor(SetColor(t, s, t.color[q]), q, "black")
  IN  SetColor(t1, t1.child[s][Opp(f)], "black")

\* What that does.
LEMMA HealedIs ==
  ASSUME NEW t \in Trees, NEW q \in Nodes, NEW s \in Nodes, NEW f, NEW far \in Nodes,
         far = t.child[s][Opp(f)], s # q, far # s, far # q, NEW w, w = Healed(t, q, s, f)
  PROVE  /\ Painted(t, w) /\ Own(w, s) = Own(t, q) /\ Own(w, q) = 1 /\ Own(w, far) = 1
         /\ \A x \in Nodes : x # s /\ x # q /\ x # far => Own(w, x) = Own(t, x)
  <1>1. /\ "black" \in Colors /\ "black" # "red" /\ t.color[q] \in Colors
        /\ q \in N0 /\ s \in N0 /\ far \in N0
    BY SetsAre DEF Colors, Trees
  <1>2. PICK t0 : t0 = SetColor(t, s, t.color[q])
    OBVIOUS
  <1>3. PICK t1 : t1 = SetColor(t0, q, "black")
    OBVIOUS
  <1>4. /\ Painted(t, t0)
        /\ \A x \in Nodes :
             Own(t0, x) = IF x = s THEN (IF t.color[q] = "red" THEN 0 ELSE 1) ELSE Own(t, x)
    BY <1>1, <1>2, PaintOne
  <1>5. t0 \in Trees
    BY <1>4 DEF Painted
  <1>6. /\ Painted(t0, t1)
        /\ \A x \in Nodes : Own(t1, x) = IF x = q THEN 1 ELSE Own(t0, x)
    BY <1>1, <1>3, <1>5, PaintOne
  <1>7. t1 \in Trees /\ t1.child = t.child
    BY <1>4, <1>6 DEF Painted
  <1>8. w = SetColor(t1, far, "black")
    BY <1>2, <1>3, <1>7 DEF Healed
  <1>9. /\ Painted(t1, w)
        /\ \A x \in Nodes : Own(w, x) = IF x = far THEN 1 ELSE Own(t1, x)
    BY <1>1, <1>7, <1>8, PaintOne
  <1>10. Painted(t, w)
    BY <1>4, <1>6, <1>9 DEF Painted
  <1>11. Own(t0, s) = Own(t, q)
    BY <1>4 DEF Own
  <1>12. QED
    BY <1>4, <1>6, <1>9, <1>10, <1>11

\* s is the black sibling, and its child far is red, on the other side than f.
FarIsRed(t, q, f, s, far) ==
  /\ s = t.child[q][Opp(f)] /\ Own(t, s) = 1
  /\ far = t.child[s][Opp(f)] /\ IsRed(t, far)

\* The last rotation repairs all paths.
LEMMA HealKeeps ==
  ASSUME NEW t, NEW sub, NEW bh, NEW X, NEW e, NEW q, NEW f, Deprived(t, sub, bh, X, e, q, f),
         NEW s, NEW far, FarIsRed(t, q, f, s, far),
         NEW w, w = Healed(t, q, s, f), NEW u, u = Rotate(w, q, f), NEW z
  PROVE  \E new, b : Lacking(u, new, b, X, u.root, z)
  <1>1. SiblingFacts(t, X, e, q, f, s)
    BY SiblingIs DEF FarIsRed
  <1>2. Tree(t, sub, X) /\ Balanced(t, bh, X, q, f) /\ RedsApart(t, X, {})
    BY DEF Deprived
  <1>3. /\ X \in SUBSET Nodes /\ NULL \notin X /\ t \in Trees
        /\ q \in X /\ f \in Dir /\ Opp(f) \in Dir /\ t.child[q][f] = e /\ t.child[q][Opp(f)] = s
        /\ s \in X /\ s # e /\ s # q /\ t.parent[s] = q
    BY <1>1 DEF SiblingFacts
  <1>4. /\ Own(t, far) = 0 /\ far # NULL /\ Own(t, s) = 1 /\ far = t.child[s][Opp(f)]
    BY RedIs DEF FarIsRed
  <1>5. PICK near, mid, fa, p : Pivot(t, q, f, s, near, mid, fa, p)
    BY <1>3, PivotExists
  <1>6. fa = far /\ p = t.parent[q] /\ mid = t.child[s][f]
    BY <1>4, <1>5 DEF Pivot
  <1>7. Pivot(t, q, f, s, near, mid, far, p)
    BY <1>5, <1>6
  <1>8. far \in X /\ t.parent[far] = s /\ far # s
    <2>1. far \in X
      BY <1>2, <1>3, <1>4, KidIs
    <2>2. QED
      BY <1>2, <1>3, <1>4, <2>1, OneSide
  <1>9. far # q /\ s # p
    <2>1. s # p
      BY <1>2, <1>3, <1>5, PivotIs
    <2>2. far # q
      BY <1>3, <1>6, <1>8, <2>1
    <2>3. QED
      BY <2>1, <2>2
  <1>10. /\ Painted(t, w) /\ Own(w, s) = Own(t, q) /\ Own(w, q) = 1 /\ Own(w, far) = 1
         /\ \A x \in Nodes : x # s /\ x # q /\ x # far => Own(w, x) = Own(t, x)
    <2>1. q \in Nodes /\ s \in Nodes /\ far \in Nodes
      BY <1>3, <1>8
    <2>2. QED
      BY <1>3, <1>4, <1>8, <1>9, <2>1, HealedIs
  <1>11. Turned(w, q, f, s, mid, p, u) /\ \E new : Tree(u, new, X)
    BY <1>2, <1>3, <1>7, <1>10, RotateIs
  <1>12. PICK new : Tree(u, new, X)
    BY <1>11
  <1>13. PICK b : Balanced(u, b, X, NULL, "L")
    <2>1. Mended(t, w, X, q, s, far)
      <3>1. ASSUME NEW x \in X
            PROVE  Own(w, x) = IF x = s THEN Own(t, q) ELSE IF x \in {q, far} THEN 1 ELSE Own(t, x)
        BY <1>3, <1>10
      <3>2. QED
        BY <3>1 DEF Mended
    <2>2. QED
      BY <1>2, <1>3, <1>4, <1>7, <1>10, <1>11, <2>1, MendBalance
  <1>14. RedsApart(w, X, {mid})
    <2>1. PICK B, R : /\ B = IF Own(t, q) = 0 THEN {q, far} ELSE {q, far, s}
                      /\ R = IF Own(t, q) = 0 THEN {s} ELSE {}
      OBVIOUS
    <2>2. Repainted(t, w, X, B, R)
      <3>1. ASSUME NEW x \in X
            PROVE  Own(w, x) = IF x \in R THEN 0 ELSE IF x \in B THEN 1 ELSE Own(t, x)
        <4>1. CASE Own(t, q) = 0
          <5>1. B = {q, far} /\ R = {s}
            BY <2>1, <4>1
          <5>2. QED
            BY <1>3, <1>8, <1>9, <1>10, <4>1, <5>1
        <4>2. CASE Own(t, q) = 1
          <5>1. B = {q, far, s} /\ R = {}
            BY <2>1, <4>2
          <5>2. QED
            BY <1>3, <1>8, <1>9, <1>10, <4>2, <5>1
        <4>3. QED
          BY <4>1, <4>2, RedIs
      <3>2. QED
        BY <1>10, <3>1 DEF Repainted
    <2>3. ASSUME NEW x \in X, x \in {} \/ x \in R \/ t.parent[x] \in R
          PROVE  x \in {mid} \/ Own(w, x) = 1 \/ t.parent[x] = NULL \/ Own(w, t.parent[x]) = 1
      <3>1. x = s \/ t.parent[x] = s
        BY <2>1, <2>3
      <3>2. CASE x = s
        BY <1>3, <1>10, <3>2
      <3>3. CASE t.parent[x] = s
        <4>1. \E a \in Dir : t.child[s][a] = x
          BY <1>2, <1>3, <3>3, ParentIs
        <4>2. x = mid \/ x = far
          BY <1>3, <1>4, <1>6, <4>1, OppIs
        <4>3. QED
          BY <1>10, <4>2
      <3>4. QED
        BY <3>1, <3>2, <3>3
    <2>4. QED
      BY <1>2, <2>2, <2>3, PaintReds
  <1>15. p = NULL \/ Own(w, s) = 1 \/ Own(w, p) = 1
    <2>1. SUFFICES ASSUME p # NULL, Own(t, q) = 0 PROVE Own(w, p) = 1
      BY <1>10, RedIs
    <2>2. p \in X /\ p # q
      BY <1>2, <1>3, <1>6, <2>1, ParentIs
    <2>3. IsRed(t, q)
      BY <1>3, <2>1, RedIs
    <2>4. ~IsRed(t, p)
      BY <1>2, <1>3, <1>6, <2>3 DEF RedsApart
    <2>5. Own(t, p) = 1
      BY <2>1, <2>4, RedIs
    <2>6. QED
      BY <1>3, <1>9, <1>10, <2>2, <2>5
  <1>16. RedsApart(u, X, {})
    BY <1>2, <1>3, <1>7, <1>10, <1>11, <1>14, <1>15, TurnReds
  <1>17. u.root \in X \cup {NULL} /\ RedsApart(u, X, {n \in X : u.root \in {n, u.parent[n]}})
    <2>1. u.root \in X \cup {NULL}
      BY <1>12, WholeIs
    <2>2. QED
      BY <1>16, <2>1 DEF RedsApart
  <1>18. QED
    BY <1>12, <1>13, <1>17 DEF Lacking

\* The loop ends where e is red or the root: it turns black, and all is right.
LEMMA RemoveEnds ==
  ASSUME NEW t, NEW sub, NEW bh, NEW X, NEW e, NEW q, Lacking(t, sub, bh, X, e, q),
         IsRed(t, e) \/ e = t.root, NEW u, u = SetColor(t, e, "black")
  PROVE  \E b : Standing(u, sub, b, X)
  <1>1. /\ Tree(t, sub, X) /\ e \in X \cup {NULL}
        /\ RedsApart(t, X, {n \in X : e \in {n, t.parent[n]}})
        /\ IsRed(t, t.root) => t.root = e
    BY DEF Lacking
  <1>2. X \in SUBSET Nodes /\ NULL \notin X /\ t \in Trees /\ t.root \in X \cup {NULL}
    BY <1>1, WholeIs
  <1>3. /\ Painted(t, u)
        /\ \A x \in Nodes : Own(u, x) = IF x = e THEN 1 ELSE Own(t, x)
    <2>1. e \in N0 /\ "black" \in Colors /\ "black" # "red"
      BY <1>1, <1>2, SetsAre DEF Colors
    <2>2. QED
      BY <1>2, <2>1, PaintOne
  <1>4. Repainted(t, u, X, {e}, {})
    BY <1>2, <1>3 DEF Repainted
  <1>5. Tree(u, sub, X)
    BY <1>1, <1>3, PaintedKeeps
  <1>6. PICK b : Balanced(u, b, X, NULL, "L")
    <2>1. CASE e = t.root
      <3>1. Balanced(t, bh, X, NULL, "L")
        BY <2>1 DEF Lacking
      <3>2. CASE e # NULL /\ Own(t, e) = 0
        <4>1. e \in X
          BY <1>1, <3>2
        <4>2. \E c : Balanced(u, c, X, NULL, "L")
          BY <1>1, <1>4, <2>1, <3>1, <3>2, <4>1, BlackenBalance
        <4>3. QED
          BY <4>2
      <3>3. CASE e = NULL \/ Own(t, e) = 1
        <4>1. \A x \in X : Own(u, x) = Own(t, x)
          BY <1>2, <1>3, <3>3
        <4>2. u.child = t.child
          BY <1>3 DEF Painted
        <4>3. Balanced(u, bh, X, NULL, "L")
          BY <3>1, <4>1, <4>2 DEF Balanced
        <4>4. QED
          BY <4>3
      <3>4. QED
        BY <3>2, <3>3, RedIs
    <2>2. CASE e # t.root
      <3>1. PICK f : f = SideOf(t, q, e)
        OBVIOUS
      <3>2. q \in X /\ t.child[q][f] = e /\ Balanced(t, bh, X, q, f) /\ f \in Dir
        BY <2>2, <3>1, SidesAre DEF Lacking, SideOf
      <3>3. e \in X /\ Own(t, e) = 0
        BY <1>1, <2>2, RedIs
      <3>4. \E c : Balanced(u, c, X, NULL, "L")
        BY <1>1, <1>4, <3>2, <3>3, BlackenBalance
      <3>5. QED
        BY <3>4
    <2>3. QED
      BY <2>1, <2>2
  <1>7. RedsApart(u, X, {})
    <2>1. PICK E : E = {n \in X : e \in {n, t.parent[n]}}
      OBVIOUS
    <2>2. ASSUME NEW x \in X, x \in E \/ x \in {} \/ t.parent[x] \in {}
          PROVE  x \in {} \/ Own(u, x) = 1 \/ t.parent[x] = NULL \/ Own(u, t.parent[x]) = 1
      <3>1. e = x \/ e = t.parent[x]
        BY <2>1, <2>2
      <3>2. CASE e = NULL
        BY <1>2, <3>1, <3>2
      <3>3. CASE e # NULL
        <4>1. Own(u, e) = 1
          BY <1>1, <1>2, <1>3, <3>3
        <4>2. QED
          BY <3>1, <4>1
      <3>4. QED
        BY <3>2, <3>3
    <2>3. RedsApart(t, X, E)
      BY <1>1, <2>1
    <2>4. QED
      BY <1>1, <1>4, <2>2, <2>3, PaintReds
  <1>8. ~IsRed(u, u.root)
    <2>1. u.root = t.root
      BY <1>3 DEF Painted
    <2>2. CASE t.root = NULL
      BY <2>1, <2>2 DEF IsRed
    <2>3. CASE t.root # NULL
      <3>1. t.root # e => Own(t, t.root) = 1
        BY <1>1, <2>3, RedIs
      <3>2. Own(u, t.root) = 1
        BY <1>2, <1>3, <2>3, <3>1
      <3>3. QED
        BY <2>1, <3>2, RedIs
    <2>4. QED
      BY <2>2, <2>3
  <1>9. QED
    BY <1>5, <1>6, <1>7, <1>8 DEF Standing

-----------------------------------------------------------------------------
(* The invariant, where no loop changes the tree.                          *)

\* Between two calls, and in those that only read, the tree is right.
LEMMA QuietIs ==
  ASSUME RInv, Quiet
  PROVE  \E sub, bh : Standing(tree, sub, bh, content) /\ PlaceIsRight(sub)
  <1>1. PICK sub, bh : ShapeIs(sub, bh)
    BY DEF RInv, Shaped
  <1>2. Standing(tree, sub, bh, content) /\ PlaceIsRight(sub)
    BY <1>1 DEF ShapeIs
  <1>3. QED
    BY <1>2

\* A step that leaves it right.
LEMMA StandingIs ==
  ASSUME NEW sub, NEW bh, Standing(tree, sub, bh, content)', Quiet', PlaceIsRight(sub)'
  PROVE  Shaped'
  <1>1. (pc # "insert_color" /\ pc # "remove_color")'
    BY DEF Quiet
  <1>2. ShapeIs(sub, bh)'
    BY <1>1 DEF ShapeIs
  <1>3. QED
    BY <1>2 DEF Shaped

\* The empty tree.
LEMMA InitIs ==
  Init => RInv
  <1> SUFFICES ASSUME Init
               PROVE  RInv
    OBVIOUS
  <1>1. PICK sub, bh : sub = [n \in Nodes |-> {}] /\ bh = [n \in Nodes |-> 0]
    OBVIOUS
  <1>2. sub \in [Nodes -> SUBSET Nodes] /\ bh \in [Nodes -> Nat]
    BY <1>1
  <1>3. content = {} /\ pc = "idle" /\ call = NoCall /\ loop = NoLoop /\ tree.root = NULL
    BY DEF Init
  <1>4. tree \in Trees
    <2>1. PICK g, r : g = [d \in Dir |-> STALE] /\ r = "red"
      BY Zenon
    <2>2. g \in [Dir -> Links] /\ r \in Colors /\ STALE \in Links /\ NULL \in N0
      BY <2>1, SetsAre DEF Colors
    <2>3. tree = [root |-> NULL, child |-> [n \in Nodes |-> g],
                  parent |-> [n \in Nodes |-> STALE], color |-> [n \in Nodes |-> r]]
      BY <2>1 DEF Init
    <2>4. QED
      BY <2>2, <2>3 DEF Trees
  <1>5. Tree(tree, sub, content)
    BY <1>2, <1>3, <1>4 DEF Tree, Under
  <1>6. Standing(tree, sub, bh, content)
    BY <1>2, <1>3, <1>5 DEF Standing, Balanced, RedsApart, IsRed
  <1>7. PlaceIsRight(sub)
    BY <1>3 DEF PlaceIsRight
  <1>8. ShapeIs(sub, bh)
    BY <1>3, <1>6, <1>7 DEF ShapeIs
  <1>9. CallInv
    BY <1>3, KeyAssumption, SetsAre DEF Init, CallInv, NoCall, Ops
  <1>10. LoopInv
    BY <1>3, SetsAre DEF LoopInv, NoLoop, Dir
  <1>11. QED
    BY <1>3, <1>8, <1>9, <1>10 DEF RInv, Shaped, Distinct

\* The calls there are, and where they start.
Legal(op, arg, at) ==
  \/ op = "insert" /\ at = "insert" /\ arg \in Nodes /\ arg \notin content
  \/ op = "find" /\ at = "find" /\ arg \in Nodes
  \/ op = "nfind" /\ at = "nfind" /\ arg \in Nodes
  \/ op \in {"min", "max"} /\ at = "minmax" /\ arg = NULL
  \/ op \in {"next", "prev"} /\ at \in {"down", "up"} /\ arg \in content
  \/ op = "remove" /\ at \in {"successor", "unlink"} /\ arg \in content

\* A call starts.
LEMMA StartKeeps ==
  ASSUME RInv, NEW op, NEW arg, NEW at, Legal(op, arg, at), Start(op, arg, at),
         elm' \in N0, tmp' \in N0, parent' \in N0,
         NEW sub, NEW bh, Standing(tree, sub, bh, content), PlaceIsRight(sub)'
  PROVE  CallInv' /\ Distinct' /\ Shaped'
  <1>1. /\ call' = [op |-> op, arg |-> arg, ret |-> Pending] /\ pc' = at
        /\ tree' = tree /\ content' = content
    BY DEF Start
  <1>2. content \in SUBSET Nodes
    BY DEF RInv, CallInv
  <1>3. arg \in N0 /\ op \in Ops
    BY <1>2, SetsAre DEF Legal, Ops
  <1>4. CallInv'
    <2>1. /\ call' \in [op : Ops, arg : N0, ret : N0 \cup {Pending}] /\ call'.ret = Pending
          /\ call'.op = op /\ call'.arg = arg
      BY <1>1, <1>3
    <2>2. CASE op = "insert" /\ at = "insert" /\ arg \in Nodes /\ arg \notin content
      BY <1>1, <1>2, <2>1, <2>2 DEF CallInv
    <2>3. CASE op \in {"find", "nfind"} /\ at = op /\ arg \in Nodes
      BY <1>1, <1>2, <2>1, <2>3 DEF CallInv
    <2>4. CASE op \in {"min", "max"} /\ at = "minmax" /\ arg = NULL
      BY <1>1, <1>2, <2>1, <2>4 DEF CallInv
    <2>5. CASE op \in {"next", "prev"} /\ at \in {"down", "up"} /\ arg \in content
      BY <1>1, <1>2, <2>1, <2>5 DEF CallInv
    <2>6. CASE op = "remove" /\ at \in {"successor", "unlink"} /\ arg \in content
      BY <1>1, <1>2, <2>1, <2>6 DEF CallInv
    <2>7. \/ op = "insert" /\ at = "insert" /\ arg \in Nodes /\ arg \notin content
          \/ op \in {"find", "nfind"} /\ at = op /\ arg \in Nodes
          \/ op \in {"min", "max"} /\ at = "minmax" /\ arg = NULL
          \/ op \in {"next", "prev"} /\ at \in {"down", "up"} /\ arg \in content
          \/ op = "remove" /\ at \in {"successor", "unlink"} /\ arg \in content
      BY Zenon DEF Legal
    <2>8. QED
      BY <2>2, <2>3, <2>4, <2>5, <2>6, <2>7, Zenon
  <1>5. Distinct'
    BY <1>1 DEF RInv, Distinct
  <1>6. Standing(tree, sub, bh, content)'
    BY <1>1
  <1>7. Quiet'
    BY <1>1 DEF Legal, Quiet
  <1>8. Shaped'
    BY <1>6, <1>7, StandingIs
  <1>9. QED
    BY <1>4, <1>5, <1>8

\* A call returns.
LEMMA ReturnIs ==
  ASSUME CallInv, NEW r \in N0, Return(r), content' \in SUBSET Nodes
  PROVE  /\ CallInv' /\ pc' = "idle" /\ loop' = loop
         /\ call'.op = call.op /\ call'.arg = call.arg /\ call'.ret = r
  <1>1. /\ pc' = "idle" /\ elm' = NULL /\ tmp' = NULL /\ parent' = NULL /\ loop' = loop
        /\ call' = [call EXCEPT !.ret = r]
    BY DEF Return, Locals
  <1>2. call \in [op : Ops, arg : N0, ret : N0 \cup {Pending}]
    BY DEF CallInv
  <1>3. /\ call'.op = call.op /\ call'.arg = call.arg /\ call'.ret = r
        /\ call' \in [op : Ops, arg : N0, ret : N0 \cup {Pending}]
    BY <1>1, <1>2
  <1>4. r # Pending
    BY KeyAssumption DEF N0
  <1>5. QED
    BY <1>1, <1>3, <1>4, SetsAre DEF CallInv

\* What the caller's loop rests on after a return.
LEMMA LoopReturns ==
  ASSUME RInv, pc # "idle", NEW r \in N0, Return(r), content' \in SUBSET Nodes,
         call.op \in {"min", "max"} => r \in content \cup {NULL},
         call.op \in {"next", "prev"} => IsNext(content, StepDir, call.arg, r),
         \/ content' = content
         \/ call.op = "remove" /\ content' = content \ {call.arg}
         \/ call.op = "insert"
  PROVE  LoopInv'
  <1>1. /\ CallInv' /\ pc' = "idle" /\ loop' = loop
        /\ call'.op = call.op /\ call'.arg = call.arg /\ call'.ret = r
    BY ReturnIs DEF RInv
  <1>2. LoopInv /\ loop' \in [at : {"off", "first", "next", "body"}, d : Dir, x : N0, y : N0]
    BY <1>1 DEF RInv, LoopInv
  <1>3. CASE loop.at = "off"
    BY <1>1, <1>2, <1>3 DEF LoopInv
  <1>4. CASE loop.at = "first"
    <2>1. call.op \in {"min", "max"}
      BY <1>2, <1>4 DEF LoopInv
    <2>2. content' = content /\ r \in content \cup {NULL}
      BY <2>1
    <2>3. QED
      BY <1>1, <1>2, <1>4, <2>1, <2>2 DEF LoopInv
  <1>5. CASE loop.at = "next"
    <2>1. loop.x \in content /\ call.op = StepOp(loop.d) /\ call.arg = loop.x /\ loop.d \in Dir
      BY <1>2, <1>5 DEF LoopInv
    <2>2. call.op \in {"next", "prev"} /\ StepDir = loop.d
      BY <2>1 DEF StepOp, StepDir, Dir
    <2>3. content' = content /\ IsNext(content, loop.d, loop.x, r)
      BY <2>1, <2>2
    <2>4. IsNext(content, loop.d, loop.x, call.ret)'
      BY <1>1, <2>3
    <2>5. QED
      BY <1>1, <1>2, <1>5, <2>1, <2>3, <2>4 DEF LoopInv
  <1>6. CASE loop.at = "body"
    <2>1. /\ loop.x \in Nodes /\ IsNext(content, loop.d, loop.x, loop.y) /\ loop.d \in Dir
          /\ call.op = "remove" /\ call.arg = loop.x
      BY <1>2, <1>6 DEF LoopInv
    <2>2. content' = content \/ content' = content \ {loop.x}
      BY <2>1
    <2>3. \A n \in content' : n \in content
      BY <2>2
    <2>4. ~Before(loop.d, loop.x, loop.x)
      BY <2>1, BeforeIs
    <2>5. IsNext(content', loop.d, loop.x, loop.y)
      <3>1. CASE loop.y = NULL
        BY <2>1, <2>3, <3>1 DEF IsNext
      <3>2. CASE loop.y # NULL
        <4>1. loop.y \in content /\ Before(loop.d, loop.y, loop.x)
          BY <2>1, <3>2 DEF IsNext
        <4>2. loop.y \in content'
          BY <2>2, <2>4, <4>1
        <4>3. \A n \in content' :
                Before(loop.d, n, loop.x) => n = loop.y \/ Before(loop.d, n, loop.y)
          BY <2>1, <2>3, <3>2 DEF IsNext
        <4>4. QED
          BY <3>2, <4>1, <4>2, <4>3 DEF IsNext
      <3>3. QED
        BY <3>1, <3>2
    <2>6. IsNext(content, loop.d, loop.x, loop.y)'
      BY <1>1, <2>5
    <2>7. QED
      BY <1>1, <1>2, <1>6, <2>1, <2>6 DEF LoopInv
  <1>7. QED
    BY <1>2, <1>3, <1>4, <1>5, <1>6 DEF LoopInv

\* A step in a call does not touch the caller's loop.
LEMMA LoopGoesOn ==
  ASSUME RInv, pc # "idle", pc' # "idle", UNCHANGED <<call, content, loop>>
  PROVE  LoopInv'
  <1>1. LoopInv
    BY DEF RInv
  <1>2. call' = call /\ content' = content /\ loop' = loop
    OBVIOUS
  <1>3. IsNext(content, loop.d, loop.x, loop.y)' <=> IsNext(content, loop.d, loop.x, loop.y)
    BY <1>2
  <1>4. QED
    BY <1>1, <1>2, <1>3 DEF LoopInv

\* A step down or up the tree keeps the invariant, if its place is right.
LEMMA SearchKeeps ==
  ASSUME RInv, Quiet, pc # "idle", UNCHANGED <<tree, pc, call, content, loop>>,
         elm' \in N0, tmp' \in N0, parent' \in N0,
         NEW sub, NEW bh, Standing(tree, sub, bh, content), PlaceIsRight(sub)'
  PROVE  RInv'
  <1>1. tree' = tree /\ pc' = pc /\ call' = call /\ content' = content
    OBVIOUS
  <1>2. CallInv' /\ Distinct'
    <2>1. CallInv'
      BY <1>1 DEF RInv, CallInv
    <2>2. Distinct'
      BY <1>1 DEF RInv, Distinct
    <2>3. QED
      BY <2>1, <2>2
  <1>3. Standing(tree, sub, bh, content)' /\ Quiet'
    BY <1>1 DEF Quiet
  <1>4. Shaped'
    BY <1>3, StandingIs
  <1>5. LoopInv'
    BY <1>1, LoopGoesOn
  <1>6. QED
    BY <1>2, <1>4, <1>5 DEF RInv

\* A call that only read returns.
LEMMA LookedKeeps ==
  ASSUME RInv, Quiet, pc # "idle", NEW r \in N0, Return(r), UNCHANGED <<tree, content>>,
         call.op \in {"min", "max"} => r \in content \cup {NULL},
         call.op \in {"next", "prev"} => IsNext(content, StepDir, call.arg, r)
  PROVE  RInv'
  <1>1. content' = content /\ tree' = tree /\ content \in SUBSET Nodes
    BY DEF RInv, CallInv
  <1>2. CallInv' /\ pc' = "idle"
    BY <1>1, ReturnIs DEF RInv
  <1>3. LoopInv'
    BY <1>1, LoopReturns
  <1>4. Distinct'
    BY <1>1 DEF RInv, Distinct
  <1>5. PICK sub, bh : Standing(tree, sub, bh, content)
    BY QuietIs
  <1>6. Standing(tree, sub, bh, content)'
    BY <1>1, <1>5
  <1>7. Quiet' /\ PlaceIsRight(sub)'
    BY <1>2 DEF Quiet, PlaceIsRight
  <1>8. Shaped'
    BY <1>6, <1>7, StandingIs
  <1>9. QED
    BY <1>2, <1>3, <1>4, <1>8 DEF RInv

-----------------------------------------------------------------------------
(* The searches.                                                           *)

\* The whole tree is below the root, and its root is a node or none.
LEMMA FromRoot ==
  ASSUME RInv, NEW sub, NEW bh, Standing(tree, sub, bh, content)
  PROVE  /\ tree.root \in content \cup {NULL} /\ tree.root \in N0
         /\ content = Under(sub, tree.root) /\ content \in SUBSET Nodes
         /\ Tree(tree, sub, content)
  <1>1. Tree(tree, sub, content)
    BY DEF Standing
  <1>2. QED
    BY <1>1, WholeIs

\* RB_INSERT, RB_FIND, RB_NFIND, RB_MIN and RB_MAX start at the root.
LEMMA CallKeyKeeps ==
  ASSUME RInv, NEW n \in Nodes, CallInsert(n) \/ CallFind(n) \/ CallNfind(n)
  PROVE  CallInv' /\ Distinct' /\ Shaped'
  <1>1. pc = "idle" /\ Quiet
    BY DEF CallInsert, CallFind, CallNfind, Start, Quiet
  <1>2. PICK sub, bh : Standing(tree, sub, bh, content)
    BY <1>1, QuietIs
  <1>3. /\ tree.root \in content \cup {NULL} /\ tree.root \in N0
        /\ content = Under(sub, tree.root) /\ content \in SUBSET Nodes
    BY <1>2, FromRoot
  <1>4. n \in N0 /\ NULL \in N0
    BY SetsAre
  <1>5. CASE CallInsert(n)
    <2>1. /\ Start("insert", n, "insert") /\ n \notin content
          /\ elm' = n /\ tmp' = tree.root /\ parent' = NULL
      BY <1>5 DEF CallInsert, Locals
    <2>2. tree' = tree /\ content' = content /\ call'.arg = n /\ pc' = "insert"
      BY <2>1 DEF Start
    <2>3. Inserting(sub)'
      BY <1>3, <2>1, <2>2 DEF Inserting
    <2>4. PlaceIsRight(sub)'
      BY <2>2, <2>3 DEF PlaceIsRight
    <2>5. Legal("insert", n, "insert")
      BY <2>1 DEF Legal
    <2>6. QED
      BY <1>2, <1>3, <1>4, <2>1, <2>4, <2>5, StartKeeps
  <1>6. CASE CallFind(n)
    <2>1. Start("find", n, "find") /\ elm' = n /\ tmp' = tree.root /\ parent' = NULL
      BY <1>6 DEF CallFind, Locals
    <2>2. tree' = tree /\ content' = content /\ call'.arg = n /\ pc' = "find"
      BY <2>1 DEF Start
    <2>3. Finding(sub)'
      BY <1>3, <2>1, <2>2 DEF Finding
    <2>4. PlaceIsRight(sub)'
      BY <2>2, <2>3 DEF PlaceIsRight
    <2>5. Legal("find", n, "find")
      BY DEF Legal
    <2>6. QED
      BY <1>2, <1>3, <1>4, <2>1, <2>4, <2>5, StartKeeps
  <1>7. CASE CallNfind(n)
    <2>1. Start("nfind", n, "nfind") /\ elm' = n /\ tmp' = tree.root /\ parent' = NULL
      BY <1>7 DEF CallNfind, Locals
    <2>2. tree' = tree /\ content' = content /\ call'.arg = n /\ pc' = "nfind"
      BY <2>1 DEF Start
    <2>3. NFinding(sub)'
      BY <1>3, <2>1, <2>2 DEF NFinding
    <2>4. PlaceIsRight(sub)'
      BY <2>2, <2>3 DEF PlaceIsRight
    <2>5. Legal("nfind", n, "nfind")
      BY DEF Legal
    <2>6. QED
      BY <1>2, <1>3, <1>4, <2>1, <2>4, <2>5, StartKeeps
  <1>8. QED
    BY <1>5, <1>6, <1>7

\* The same for RB_MIN and RB_MAX.
LEMMA CallMinMaxKeeps ==
  ASSUME RInv, NEW d \in Dir, CallMinMax(d)
  PROVE  CallInv' /\ Distinct' /\ Shaped'
  <1>1. /\ Start(MinMaxOp(d), NULL, "minmax")
        /\ elm' = NULL /\ tmp' = tree.root /\ parent' = NULL
    BY DEF CallMinMax, Locals
  <1>2. /\ pc = "idle" /\ Quiet
        /\ tree' = tree /\ content' = content /\ pc' = "minmax"
    BY <1>1 DEF Start, Quiet
  <1>3. PICK sub, bh : Standing(tree, sub, bh, content)
    BY <1>2, QuietIs
  <1>4. /\ tree.root \in content \cup {NULL} /\ tree.root \in N0
        /\ content = Under(sub, tree.root) /\ content \in SUBSET Nodes
    BY <1>3, FromRoot
  <1>5. MinMaxing(sub)'
    BY <1>1, <1>2, <1>4 DEF MinMaxing
  <1>6. PlaceIsRight(sub)'
    BY <1>2, <1>5 DEF PlaceIsRight
  <1>7. Legal(MinMaxOp(d), NULL, "minmax")
    BY DEF Legal, MinMaxOp
  <1>8. NULL \in N0
    BY SetsAre
  <1>9. QED
    BY <1>1, <1>3, <1>4, <1>6, <1>7, <1>8, StartKeeps

\* What is next to n on side d, if there is a subtree there, is in it.
LEMMA SubtreeIs ==
  ASSUME NEW t, NEW sub, NEW X, Tree(t, sub, X), NEW n \in X, NEW d \in Dir,
         NEW c, c = t.child[n][d], c # NULL
  PROVE  /\ c \in X /\ c \in sub[c] /\ \A m \in sub[c] : Before(d, m, n)
         /\ \A m \in X : Before(d, m, n) => m \in sub[c] \/ Before(d, m, c)
  <1>1. /\ c \in X \cup {NULL} /\ X \in SUBSET Nodes
        /\ \A m \in Under(sub, c) : Before(d, m, n)
        /\ \A m \in Under(sub, t.child[n][Opp(d)]) : Before(d, n, m)
        /\ sub[n] = {n} \cup Under(sub, c) \cup Under(sub, t.child[n][Opp(d)])
        /\ \A m \in sub[n], k \in X : k \in sub[n] \/ (Before(d, k, m) <=> Before(d, k, n))
    BY TreeIs, WholeIs
  <1>2. c \in X /\ c \in sub[c] /\ Under(sub, c) = sub[c]
    BY <1>1, WholeIs DEF Under
  <1>3. c \in sub[n]
    BY <1>1, <1>2
  <1>4. ASSUME NEW m \in X, Before(d, m, n), m \notin sub[c]
        PROVE  Before(d, m, c)
    <2>1. m # n /\ ~Before(d, n, m)
      BY <1>1, <1>4, BeforeIs
    <2>2. m \notin sub[n]
      BY <1>1, <1>2, <1>4, <2>1
    <2>3. QED
      BY <1>1, <1>3, <1>4, <2>2
  <1>5. QED
    BY <1>1, <1>2, <1>4

\* RB_NEXT and RB_PREV start at a child, or at the node itself.
LEMMA CallStepKeeps ==
  ASSUME RInv, NEW n \in content, NEW d \in Dir, CallStep(n, d)
  PROVE  /\ CallInv' /\ Distinct' /\ Shaped'
         /\ call'.op = StepOp(d) /\ call'.arg = n /\ pc' \in {"down", "up"}
         /\ content' = content
  <1>1. /\ pc = "idle" /\ Quiet /\ content' = content /\ tree' = tree
        /\ call'.op = StepOp(d) /\ call'.arg = n /\ pc' \in {"down", "up"}
    BY DEF CallStep, Start, Quiet
  <1>2. PICK sub, bh : Standing(tree, sub, bh, content)
    BY <1>1, QuietIs
  <1>3. Tree(tree, sub, content) /\ content \in SUBSET Nodes
    BY <1>2, FromRoot
  <1>4. StepDir' = d
    BY <1>1 DEF StepOp, StepDir, Dir
  <1>5. PICK c : c = tree.child[n][d]
    OBVIOUS
  <1>6. NULL \in N0 /\ n \in N0 /\ StepOp(d) \in {"next", "prev"}
    BY <1>3, SetsAre DEF StepOp
  <1>7. CASE c # NULL
    <2>1. /\ Start(StepOp(d), n, "down") /\ pc' = "down"
          /\ elm' = c /\ tmp' = NULL /\ parent' = NULL
      BY <1>5, <1>7 DEF CallStep, Locals, Start
    <2>2. /\ c \in content /\ \A m \in sub[c] : Before(d, m, n)
          /\ \A m \in content : Before(d, m, n) => m \in sub[c] \/ Before(d, m, c)
      BY <1>3, <1>5, <1>7, SubtreeIs
    <2>3. Descending(sub, n, d)'
      BY <1>1, <2>1, <2>2 DEF Descending
    <2>4. Descending(sub, call.arg, StepDir)'
      BY <1>1, <1>4, <2>3
    <2>5. PlaceIsRight(sub)'
      BY <2>1, <2>4 DEF PlaceIsRight
    <2>6. Legal(StepOp(d), n, "down") /\ c \in N0
      BY <1>3, <1>6, <2>2, SetsAre DEF Legal
    <2>7. QED
      BY <1>1, <1>2, <1>6, <2>1, <2>5, <2>6, StartKeeps
  <1>8. CASE c = NULL
    <2>1. /\ Start(StepOp(d), n, "up") /\ pc' = "up"
          /\ elm' = n /\ tmp' = NULL /\ parent' = NULL
      BY <1>5, <1>8 DEF CallStep, Locals, Start
    <2>2. /\ n \in sub[n]
          /\ \A m \in Under(sub, tree.child[n][Opp(d)]) : Before(d, n, m)
          /\ sub[n] = {n} \cup Under(sub, tree.child[n][d]) \cup Under(sub, tree.child[n][Opp(d)])
          /\ \A m \in sub[n] : m \in content
      BY <1>3, TreeIs
    <2>3. \A m \in sub[n] : ~Before(d, m, n)
      <3>1. Under(sub, tree.child[n][d]) = {}
        BY <1>5, <1>8 DEF Under
      <3>2. \A m \in sub[n] : m = n \/ Before(d, n, m)
        BY <2>2, <3>1
      <3>3. QED
        BY <1>3, <2>2, <3>2, BeforeIs
    <2>4. Ascending(sub, n, d)'
      BY <1>1, <2>1, <2>2, <2>3 DEF Ascending
    <2>5. Ascending(sub, call.arg, StepDir)'
      BY <1>1, <1>4, <2>4
    <2>6. PlaceIsRight(sub)'
      BY <2>1, <2>5 DEF PlaceIsRight
    <2>7. Legal(StepOp(d), n, "up")
      BY <1>6 DEF Legal
    <2>8. QED
      BY <1>1, <1>2, <1>6, <2>1, <2>6, <2>7, StartKeeps
  <1>9. QED
    BY <1>7, <1>8

\* RB_REMOVE starts at the right child, or at the node itself.
LEMMA CallRemoveKeeps ==
  ASSUME RInv, NEW n \in content, CallRemove(n)
  PROVE  /\ CallInv' /\ Distinct' /\ Shaped'
         /\ call'.op = "remove" /\ call'.arg = n /\ pc' \in {"successor", "unlink"}
         /\ content' = content
  <1>1. /\ pc = "idle" /\ Quiet /\ content' = content /\ tree' = tree
        /\ call'.op = "remove" /\ call'.arg = n /\ pc' \in {"successor", "unlink"}
    BY DEF CallRemove, Start, Quiet
  <1>2. PICK sub, bh : Standing(tree, sub, bh, content)
    BY <1>1, QuietIs
  <1>3. Tree(tree, sub, content) /\ content \in SUBSET Nodes
    BY <1>2, FromRoot
  <1>4. PICK l, r : l = Left(tree, n) /\ r = Right(tree, n)
    OBVIOUS
  <1>5. NULL \in N0 /\ n \in N0
    BY <1>3, SetsAre
  <1>6. CASE l # NULL /\ r # NULL
    <2>1. /\ Start("remove", n, "successor") /\ pc' = "successor"
          /\ elm' = r /\ tmp' = NULL /\ parent' = NULL
      BY <1>4, <1>6 DEF CallRemove, Locals, Start
    <2>2. "R" \in Dir /\ r = tree.child[n]["R"]
      BY <1>4, SidesAre DEF Right
    <2>3. /\ r \in content /\ r \in sub[r] /\ \A m \in sub[r] : Before("R", m, n)
          /\ \A m \in content : Before("R", m, n) => m \in sub[r] \/ Before("R", m, r)
      BY <1>3, <1>6, <2>2, SubtreeIs
    <2>4. Descending(sub, n, "R")'
      BY <1>1, <2>1, <2>3 DEF Descending
    <2>5. (Left(tree, n) = l /\ Right(tree, n) = r)'
      BY <1>1, <1>4 DEF Left, Right
    <2>6. (/\ Left(tree, call.arg) # NULL /\ Right(tree, call.arg) # NULL
           /\ elm \in sub[Right(tree, call.arg)]
           /\ Descending(sub, call.arg, "R"))'
      BY <1>1, <1>6, <2>1, <2>3, <2>4, <2>5
    <2>7. PlaceIsRight(sub)'
      BY <2>1, <2>6 DEF PlaceIsRight
    <2>8. Legal("remove", n, "successor") /\ r \in N0
      BY <1>3, <2>3, SetsAre DEF Legal
    <2>9. QED
      BY <1>1, <1>2, <1>5, <2>1, <2>7, <2>8, StartKeeps
  <1>7. CASE l = NULL \/ r = NULL
    <2>1. /\ Start("remove", n, "unlink") /\ pc' = "unlink"
          /\ elm' = n /\ tmp' = NULL /\ parent' = NULL
      BY <1>4, <1>7 DEF CallRemove, Locals, Start
    <2>2. (Left(tree, n) = NULL \/ Right(tree, n) = NULL)'
      BY <1>1, <1>4, <1>7 DEF Left, Right
    <2>3. (elm = call.arg /\ (Left(tree, elm) = NULL \/ Right(tree, elm) = NULL))'
      BY <1>1, <2>1, <2>2
    <2>4. PlaceIsRight(sub)'
      BY <2>1, <2>3 DEF PlaceIsRight
    <2>5. Legal("remove", n, "unlink")
      BY DEF Legal
    <2>6. QED
      BY <1>1, <1>2, <1>5, <2>1, <2>4, <2>5, StartKeeps
  <1>8. QED
    BY <1>6, <1>7

\* Where a search for the key of e goes on from n: what is not there is on the
\* other side of n, and of e.
LEMMA BesideIs ==
  ASSUME NEW t, NEW sub, NEW X, Tree(t, sub, X), NEW n \in X, NEW e \in Nodes,
         Key[e] # Key[n], NEW a, a = Side(e, n), NEW c, c = t.child[n][a]
  PROVE  /\ a \in Dir /\ c \in X \cup {NULL} /\ c \in N0 /\ Before(a, e, n)
         /\ Under(sub, c) \subseteq sub[n] /\ \A m \in Under(sub, c) : Before(a, m, n)
         /\ \A m \in sub[n] : m \in Under(sub, c) \/ m = n \/ (Before(a, n, m) /\ Before(a, e, m))
  <1>1. a \in Dir
    BY DEF Side, Dir
  <1>2. n \in Nodes /\ X \in SUBSET Nodes
    BY WholeIs
  <1>3. Before(a, e, n)
    <2>1. Key[e] \in Int /\ Key[n] \in Int
      BY <1>2, KeyAssumption
    <2>2. QED
      BY <2>1 DEF Side, Before
  <1>4. /\ c \in X \cup {NULL}
        /\ Under(sub, c) \subseteq X /\ Under(sub, t.child[n][Opp(a)]) \subseteq X
        /\ \A m \in Under(sub, c) : Before(a, m, n)
        /\ \A m \in Under(sub, t.child[n][Opp(a)]) : Before(a, n, m)
        /\ sub[n] = {n} \cup Under(sub, c) \cup Under(sub, t.child[n][Opp(a)])
    BY <1>1, TreeIs
  <1>5. \A m \in X : Before(a, n, m) => Before(a, e, m)
    BY <1>1, <1>2, <1>3, BeforeIs
  <1>6. c \in N0
    BY <1>2, <1>4, SetsAre
  <1>7. QED
    BY <1>1, <1>3, <1>4, <1>5, <1>6

\* RB_FIND goes down.
LEMMA FindDescendKeeps ==
  ASSUME RInv, FindDescend
  PROVE  RInv'
  <1>1. /\ pc = "find" /\ tmp # NULL /\ Key[elm] # Key[tmp] /\ Quiet
        /\ tmp' = tree.child[tmp][Side(elm, tmp)]
        /\ UNCHANGED <<tree, pc, elm, parent, call, content, loop>>
    BY DEF FindDescend, Quiet
  <1>2. PICK sub, bh : Standing(tree, sub, bh, content) /\ PlaceIsRight(sub)
    BY <1>1, QuietIs
  <1>3. Tree(tree, sub, content) /\ content \in SUBSET Nodes
    BY <1>2, FromRoot
  <1>4. Finding(sub)
    BY <1>1, <1>2 DEF PlaceIsRight
  <1>5. /\ elm = call.arg /\ elm \in Nodes /\ tmp \in content /\ elm \in N0 /\ parent \in N0
        /\ \A m \in content : m \in sub[tmp] \/ Key[m] # Key[elm]
    BY <1>1, <1>4 DEF Finding, RInv, CallInv, Under
  <1>6. PICK a, c : a = Side(elm, tmp) /\ c = tree.child[tmp][a]
    OBVIOUS
  <1>7. /\ a \in Dir /\ c \in content \cup {NULL} /\ c \in N0
        /\ \A m \in sub[tmp] :
             m \in Under(sub, c) \/ m = tmp \/ (Before(a, tmp, m) /\ Before(a, elm, m))
    BY <1>1, <1>3, <1>5, <1>6, BesideIs
  <1>8. \A m \in content : m \in Under(sub, c) \/ Key[m] # Key[elm]
    <2>1. \A m \in content : Before(a, elm, m) => Key[elm] # Key[m]
      BY <1>3, <1>5, <1>7, BeforeIs
    <2>2. QED
      BY <1>1, <1>5, <1>7, <2>1
  <1>9. Finding(sub)'
    BY <1>1, <1>5, <1>6, <1>7, <1>8 DEF Finding
  <1>10. PlaceIsRight(sub)'
    BY <1>1, <1>9 DEF PlaceIsRight
  <1>11. elm' \in N0 /\ tmp' \in N0 /\ parent' \in N0
    BY <1>1, <1>5, <1>6, <1>7
  <1>12. QED
    BY <1>1, <1>2, <1>10, <1>11, SearchKeeps

\* RB_NFIND goes down.
LEMMA NfindDescendKeeps ==
  ASSUME RInv, NfindDescend
  PROVE  RInv'
  <1>1. /\ pc = "nfind" /\ tmp # NULL /\ Key[elm] # Key[tmp] /\ Quiet
        /\ tmp' = tree.child[tmp][Side(elm, tmp)]
        /\ parent' = (IF Side(elm, tmp) = "L" THEN tmp ELSE parent)
        /\ UNCHANGED <<tree, pc, elm, call, content, loop>>
    BY DEF NfindDescend, Quiet
  <1>2. PICK sub, bh : Standing(tree, sub, bh, content) /\ PlaceIsRight(sub)
    BY <1>1, QuietIs
  <1>3. Tree(tree, sub, content) /\ content \in SUBSET Nodes /\ NULL \notin content
    BY <1>2, FromRoot, SetsAre
  <1>4. NFinding(sub)
    BY <1>1, <1>2 DEF PlaceIsRight
  <1>5. /\ elm = call.arg /\ elm \in Nodes /\ tmp \in content /\ elm \in N0 /\ parent \in N0
        /\ parent \in content \cup {NULL}
        /\ parent # NULL => Key[elm] < Key[parent]
        /\ \A m \in sub[tmp] : parent = NULL \/ Key[m] < Key[parent]
        /\ \A m \in content :
             \/ m \in sub[tmp] \/ Key[m] < Key[elm]
             \/ parent # NULL /\ Key[parent] <= Key[m]
    BY <1>1, <1>4 DEF NFinding, RInv, CallInv, Under
  <1>6. PICK a, c, p : /\ a = Side(elm, tmp) /\ c = tree.child[tmp][a]
                       /\ p = IF a = "L" THEN tmp ELSE parent
    OBVIOUS
  <1>7. /\ a \in Dir /\ c \in content \cup {NULL} /\ c \in N0 /\ Before(a, elm, tmp)
        /\ Under(sub, c) \subseteq sub[tmp] /\ \A m \in Under(sub, c) : Before(a, m, tmp)
        /\ \A m \in sub[tmp] :
             m \in Under(sub, c) \/ m = tmp \/ (Before(a, tmp, m) /\ Before(a, elm, m))
    BY <1>1, <1>3, <1>5, <1>6, BesideIs
  <1>8. p \in content \cup {NULL} /\ (p # NULL => Key[elm] < Key[p]) /\ p \in N0
    <2>1. CASE a = "L"
      BY <1>3, <1>5, <1>6, <1>7, <2>1, SetsAre DEF Before
    <2>2. CASE a # "L"
      BY <1>5, <1>6, <2>2
    <2>3. QED
      BY <2>1, <2>2
  <1>9. \A m \in Under(sub, c) : p = NULL \/ Key[m] < Key[p]
    <2>1. CASE a = "L"
      BY <1>6, <1>7, <2>1 DEF Before
    <2>2. CASE a # "L"
      BY <1>5, <1>6, <1>7, <2>2
    <2>3. QED
      BY <2>1, <2>2
  <1>10. ASSUME NEW m \in content
         PROVE  m \in Under(sub, c) \/ Key[m] < Key[elm] \/ (p # NULL /\ Key[p] <= Key[m])
    <2>1. Key[m] \in Int /\ Key[tmp] \in Int /\ Key[elm] \in Int
      BY <1>3, <1>5, KeyAssumption
    <2>2. parent # NULL => Key[parent] \in Int
      BY <1>3, <1>5, KeyAssumption
    <2>3. tmp # NULL /\ tmp \in sub[tmp]
      BY <1>3, <1>5, WholeIs
    <2>4. parent = NULL \/ Key[tmp] < Key[parent]
      BY <1>5, <2>3
    <2>5. CASE m \in sub[tmp]
      <3>1. m \in Under(sub, c) \/ m = tmp \/ (Before(a, tmp, m) /\ Before(a, elm, m))
        BY <1>7, <2>5
      <3>2. CASE a = "L"
        <4>1. p = tmp
          BY <1>6, <3>2
        <4>2. m \in Under(sub, c) \/ m = tmp \/ Key[tmp] < Key[m]
          BY <3>1, <3>2 DEF Before
        <4>3. QED
          BY <2>1, <2>3, <4>1, <4>2
      <3>3. CASE a # "L"
        <4>1. Key[tmp] < Key[elm]
          BY <1>7, <3>3 DEF Before
        <4>2. m \in Under(sub, c) \/ m = tmp \/ Key[m] < Key[elm]
          BY <3>1, <3>3 DEF Before
        <4>3. QED
          BY <4>1, <4>2
      <3>4. QED
        BY <3>2, <3>3
    <2>6. CASE m \notin sub[tmp]
      <3>1. Key[m] < Key[elm] \/ (parent # NULL /\ Key[parent] <= Key[m])
        BY <1>5, <2>6
      <3>2. p = tmp \/ p = parent
        BY <1>6
      <3>3. QED
        BY <2>1, <2>2, <2>3, <2>4, <3>1, <3>2
    <2>7. QED
      BY <2>5, <2>6
  <1>11. tmp' = c /\ parent' = p
    BY <1>1, <1>6
  <1>12. NFinding(sub)'
    BY <1>1, <1>5, <1>7, <1>8, <1>9, <1>10, <1>11 DEF NFinding
  <1>13. PlaceIsRight(sub)'
    BY <1>1, <1>12 DEF PlaceIsRight
  <1>14. elm' \in N0 /\ tmp' \in N0 /\ parent' \in N0
    BY <1>1, <1>5, <1>7, <1>8, <1>11
  <1>15. QED
    BY <1>1, <1>2, <1>13, <1>14, SearchKeeps

\* RB_MINMAX goes down.
LEMMA MinMaxDescendKeeps ==
  ASSUME RInv, MinMaxDescend
  PROVE  RInv'
  <1>1. /\ pc = "minmax" /\ tmp # NULL /\ Quiet
        /\ elm' = NULL /\ tmp' = tree.child[tmp][MinMaxDir] /\ parent' = tmp
        /\ UNCHANGED <<tree, pc, call, content, loop>>
    BY DEF MinMaxDescend, Locals, Quiet
  <1>2. PICK sub, bh : Standing(tree, sub, bh, content) /\ PlaceIsRight(sub)
    BY <1>1, QuietIs
  <1>3. Tree(tree, sub, content) /\ content \in SUBSET Nodes /\ NULL \notin content
    BY <1>2, FromRoot, SetsAre
  <1>4. MinMaxing(sub)
    BY <1>1, <1>2 DEF PlaceIsRight
  <1>5. PICK d, c : d = MinMaxDir /\ c = tree.child[tmp][d]
    OBVIOUS
  <1>6. /\ tmp \in content /\ parent \in content \cup {NULL}
        /\ \A m \in sub[tmp] : parent = NULL \/ Before(d, m, parent)
        /\ \A m \in content :
             \/ m \in sub[tmp] \/ m = parent
             \/ parent # NULL /\ Before(d, parent, m)
    BY <1>1, <1>4, <1>5 DEF MinMaxing, Under
  <1>7. d \in Dir
    BY <1>5 DEF MinMaxDir, Dir
  <1>8. /\ c \in content \cup {NULL} /\ tmp \in sub[tmp]
        /\ \A m \in Under(sub, c) : Before(d, m, tmp)
        /\ \A m \in Under(sub, tree.child[tmp][Opp(d)]) : Before(d, tmp, m)
        /\ sub[tmp] = {tmp} \cup Under(sub, c) \cup Under(sub, tree.child[tmp][Opp(d)])
    BY <1>3, <1>5, <1>6, <1>7, TreeIs
  <1>9. ASSUME NEW m \in content
        PROVE  m \in Under(sub, c) \/ m = tmp \/ Before(d, tmp, m)
    <2>1. CASE m \in sub[tmp]
      BY <1>8, <2>1
    <2>2. CASE m \notin sub[tmp]
      <3>1. parent # NULL /\ (m = parent \/ Before(d, parent, m))
        BY <1>3, <1>6, <2>2
      <3>2. Before(d, tmp, parent) /\ parent \in content
        BY <1>6, <1>8, <3>1
      <3>3. QED
        BY <1>3, <1>6, <1>7, <3>1, <3>2, BeforeIs
    <2>3. QED
      BY <2>1, <2>2
  <1>10. (d = MinMaxDir)' /\ tmp' = c
    BY <1>1, <1>5 DEF MinMaxDir
  <1>11. MinMaxing(sub)'
    BY <1>1, <1>3, <1>6, <1>8, <1>9, <1>10 DEF MinMaxing
  <1>12. PlaceIsRight(sub)'
    BY <1>1, <1>11 DEF PlaceIsRight
  <1>13. elm' \in N0 /\ tmp' \in N0 /\ parent' \in N0
    BY <1>1, <1>3, <1>6, <1>8, <1>10, SetsAre
  <1>14. QED
    BY <1>1, <1>2, <1>12, <1>13, SearchKeeps

\* RB_FIND, RB_NFIND, RB_MIN and RB_MAX return, and RB_INSERT if it has found
\* the key.
LEMMA SearchReturns ==
  ASSUME RInv, InsertFound \/ FindReturn \/ NfindReturn \/ MinMaxReturn
  PROVE  RInv'
  <1>1. /\ pc \in {"insert", "find", "nfind", "minmax"} /\ Quiet
        /\ tree' = tree /\ content' = content
        /\ Return(tmp) \/ Return(parent)
        /\ pc = "minmax" => Return(parent)
    BY DEF InsertFound, FindReturn, NfindReturn, MinMaxReturn, Quiet
  <1>2. CallInv
    BY DEF RInv
  <1>3. tmp \in N0 /\ parent \in N0
    BY <1>2 DEF CallInv
  <1>4. /\ call.op \in {"min", "max"} => pc = "minmax"
        /\ call.op \notin {"next", "prev"}
    BY <1>1, <1>2 DEF CallInv
  <1>5. pc = "minmax" => parent \in content \cup {NULL}
    <2>1. SUFFICES ASSUME pc = "minmax"
                   PROVE  parent \in content \cup {NULL}
      OBVIOUS
    <2>2. PICK sub : PlaceIsRight(sub)
      BY <1>1, QuietIs
    <2>3. QED
      BY <2>1, <2>2 DEF PlaceIsRight, MinMaxing
  <1>6. CASE pc = "minmax"
    BY <1>1, <1>3, <1>4, <1>5, <1>6, LookedKeeps
  <1>7. CASE pc # "minmax"
    BY <1>1, <1>3, <1>4, <1>7, LookedKeeps
  <1>8. QED
    BY <1>6, <1>7

\* Where RB_NEXT, or the search for the successor, goes on: there is a nearer
\* node, or elm is the next.
LEMMA DownIs ==
  ASSUME RInv, NEW sub, Tree(tree, sub, content), NEW n \in content, NEW d \in Dir,
         Descending(sub, n, d), NEW c, c = tree.child[elm][Opp(d)]
  PROVE  /\ c \in content \cup {NULL} /\ elm \in content
         /\ c # NULL =>
              /\ \A m \in sub[c] : Before(d, m, n)
              /\ \A m \in content : Before(d, m, n) => m \in sub[c] \/ Before(d, m, c)
              /\ c \in sub[elm]
         /\ c = NULL => IsNext(content, d, n, elm)
  <1>1. /\ elm \in content /\ content \in SUBSET Nodes /\ NULL \notin content
        /\ \A m \in sub[elm] : Before(d, m, n)
        /\ \A m \in content : Before(d, m, n) => m \in sub[elm] \/ Before(d, m, elm)
    BY WholeIs DEF Descending
  <1>2. /\ c \in content \cup {NULL} /\ elm \in sub[elm]
        /\ \A m \in Under(sub, tree.child[elm][d]) : Before(d, m, elm)
        /\ \A m \in Under(sub, c) : Before(d, elm, m)
        /\ sub[elm] = {elm} \cup Under(sub, tree.child[elm][d]) \cup Under(sub, c)
    BY <1>1, TreeIs
  <1>3. ASSUME c # NULL
        PROVE  /\ \A m \in sub[c] : Before(d, m, n)
               /\ \A m \in content : Before(d, m, n) => m \in sub[c] \/ Before(d, m, c)
               /\ c \in sub[elm]
    <2>1. c \in content /\ Under(sub, c) = sub[c] /\ c \in sub[c]
      BY <1>2, <1>3, WholeIs DEF Under
    <2>2. Before(d, elm, c)
      BY <1>2, <2>1
    <2>3. ASSUME NEW m \in content, Before(d, m, n), m \notin sub[c]
          PROVE  Before(d, m, c)
      <3>1. m = elm \/ Before(d, m, elm)
        BY <1>1, <1>2, <2>1, <2>3
      <3>2. QED
        BY <1>1, <2>1, <2>2, <3>1, BeforeIs
    <2>4. QED
      BY <1>1, <1>2, <2>1, <2>3
  <1>4. ASSUME c = NULL
        PROVE  IsNext(content, d, n, elm)
    <2>1. \A m \in sub[elm] : m = elm \/ Before(d, m, elm)
      BY <1>2, <1>4 DEF Under
    <2>2. QED
      BY <1>1, <1>2, <2>1 DEF IsNext
  <1>5. QED
    BY <1>1, <1>2, <1>3, <1>4

\* A step of RB_NEXT or RB_PREV in the subtree.
LEMMA StepDownKeeps ==
  ASSUME RInv, StepDown
  PROVE  RInv'
  <1>1. pc = "down" /\ Quiet /\ tree' = tree /\ content' = content
    BY DEF StepDown, Quiet
  <1>2. PICK sub, bh : Standing(tree, sub, bh, content) /\ PlaceIsRight(sub)
    BY <1>1, QuietIs
  <1>3. Tree(tree, sub, content) /\ content \in SUBSET Nodes
    BY <1>2, FromRoot
  <1>4. PICK d, n : d = StepDir /\ n = call.arg
    OBVIOUS
  <1>5. Descending(sub, n, d)
    BY <1>1, <1>2, <1>4 DEF PlaceIsRight
  <1>6. CallInv /\ n \in content /\ d \in Dir /\ call.op \in {"next", "prev"}
    BY <1>1, <1>4 DEF RInv, CallInv, StepDir, Dir
  <1>7. PICK c : c = tree.child[elm][Opp(d)]
    OBVIOUS
  <1>8. /\ c \in content \cup {NULL} /\ elm \in content
        /\ c # NULL =>
             /\ \A m \in sub[c] : Before(d, m, n)
             /\ \A m \in content : Before(d, m, n) => m \in sub[c] \/ Before(d, m, c)
        /\ c = NULL => IsNext(content, d, n, elm)
    BY <1>3, <1>5, <1>6, <1>7, DownIs
  <1>9. c # NULL => c \in N0
    BY <1>3, <1>8, SetsAre
  <1>10. CASE c # NULL
    <2>1. elm' = c /\ UNCHANGED <<pc, tmp, parent, call, loop>>
      BY <1>4, <1>7, <1>10 DEF StepDown
    <2>2. Descending(sub, n, d)'
      BY <1>1, <1>8, <1>10, <2>1 DEF Descending
    <2>3. (d = StepDir /\ n = call.arg)'
      BY <1>4, <2>1 DEF StepDir
    <2>4. Descending(sub, call.arg, StepDir)'
      BY <2>2, <2>3
    <2>5. PlaceIsRight(sub)'
      BY <1>1, <2>1, <2>4 DEF PlaceIsRight
    <2>6. elm' \in N0 /\ tmp' \in N0 /\ parent' \in N0
      BY <1>6, <1>9, <1>10, <2>1 DEF CallInv
    <2>7. QED
      BY <1>1, <1>2, <2>1, <2>5, <2>6, SearchKeeps
  <1>11. CASE c = NULL
    <2>1. Return(elm)
      BY <1>4, <1>7, <1>11 DEF StepDown
    <2>2. elm \in N0 /\ IsNext(content, StepDir, call.arg, elm)
      BY <1>4, <1>6, <1>8, <1>11 DEF CallInv
    <2>3. call.op \notin {"min", "max"}
      BY <1>6
    <2>4. QED
      BY <1>1, <2>1, <2>2, <2>3, LookedKeeps
  <1>12. QED
    BY <1>10, <1>11

\* The search of RB_REMOVE for the successor.
LEMMA FindSuccessorKeeps ==
  ASSUME RInv, FindSuccessor
  PROVE  RInv'
  <1>1. /\ pc = "successor" /\ Quiet /\ Left(tree, elm) # NULL /\ elm' = Left(tree, elm)
        /\ UNCHANGED <<tree, pc, tmp, parent, call, content, loop>>
    BY DEF FindSuccessor, Quiet
  <1>2. PICK sub, bh : Standing(tree, sub, bh, content) /\ PlaceIsRight(sub)
    BY <1>1, QuietIs
  <1>3. Tree(tree, sub, content) /\ content \in SUBSET Nodes
    BY <1>2, FromRoot
  <1>4. PICK n, r : n = call.arg /\ r = Right(tree, n)
    OBVIOUS
  <1>5. /\ Left(tree, n) # NULL /\ r # NULL /\ elm \in sub[r] /\ Descending(sub, n, "R")
    BY <1>1, <1>2, <1>4 DEF PlaceIsRight
  <1>6. CallInv /\ n \in content
    BY <1>1, <1>4 DEF RInv, CallInv
  <1>7. PICK c : c = tree.child[elm]["L"]
    OBVIOUS
  <1>8. "R" \in Dir /\ Opp("R") = "L"
    BY SidesAre
  <1>9. /\ c \in content \cup {NULL} /\ elm \in content
        /\ c # NULL =>
             /\ \A m \in sub[c] : Before("R", m, n)
             /\ \A m \in content : Before("R", m, n) => m \in sub[c] \/ Before("R", m, c)
             /\ c \in sub[elm]
    BY <1>3, <1>5, <1>6, <1>7, <1>8, DownIs
  <1>10. elm' = c /\ c # NULL /\ c \in content
    BY <1>1, <1>7, <1>9 DEF Left
  <1>11. r \in content
    BY <1>3, <1>4, <1>5, <1>6, <1>8, KidIs DEF Right
  <1>12. c \in sub[r]
    BY <1>3, <1>5, <1>9, <1>10, <1>11, TreeIs, <1>8
  <1>13. Descending(sub, n, "R")'
    BY <1>1, <1>9, <1>10 DEF Descending
  <1>14. (/\ Left(tree, call.arg) # NULL /\ Right(tree, call.arg) # NULL
          /\ elm \in sub[Right(tree, call.arg)]
          /\ Descending(sub, call.arg, "R"))'
    <2>1. (n = call.arg /\ r = Right(tree, n))' /\ Left(tree, n)' = Left(tree, n)
      BY <1>1, <1>4 DEF Right, Left
    <2>2. QED
      BY <1>5, <1>10, <1>12, <1>13, <2>1
  <1>15. PlaceIsRight(sub)'
    BY <1>1, <1>14 DEF PlaceIsRight
  <1>16. elm' \in N0 /\ tmp' \in N0 /\ parent' \in N0
    BY <1>1, <1>3, <1>6, <1>10, SetsAre DEF CallInv
  <1>17. QED
    BY <1>1, <1>2, <1>15, <1>16, SearchKeeps

\* Where RB_NEXT stops on its way up it has found the next node.
LEMMA UpIs ==
  ASSUME RInv, NEW sub, Tree(tree, sub, content), NEW n \in content, NEW d \in Dir,
         Ascending(sub, n, d), NEW p, p = tree.parent[elm],
         p = NULL \/ tree.child[p][d] # elm
  PROVE  IsNext(content, d, n, p)
  <1>1. content \in SUBSET Nodes /\ NULL \notin content
    BY WholeIs
  <1>2. elm \in content /\ n \in sub[elm] /\ \A m \in sub[elm] : ~Before(d, m, n)
    BY DEF Ascending
  <1>3. /\ p \in content \cup {NULL} /\ (p = NULL <=> elm = tree.root)
        /\ HangsFrom(tree, elm, p)
    BY <1>2, ParentIs
  <1>4. elm # NULL /\ Under(sub, elm) = sub[elm]
    BY <1>1, <1>2 DEF Under
  <1>5. CASE p = NULL
    <2>1. sub[elm] = content
      BY <1>3, <1>4, <1>5, WholeIs
    <2>2. QED
      BY <1>2, <1>5, <2>1 DEF IsNext
  <1>6. CASE p # NULL
    <2>1. p \in content /\ p \in Nodes /\ tree.child[p][d] # elm
      BY <1>1, <1>3, <1>6
    <2>2. PICK a \in Dir : tree.child[p][a] = elm
      BY <1>3, <1>6 DEF HangsFrom
    <2>3. a = Opp(d)
      BY <2>1, <2>2, OppIs
    <2>4. tree.child[p][Opp(d)] = elm
      BY <2>2, <2>3
    <2>5. /\ \A m \in Under(sub, tree.child[p][d]) : Before(d, m, p)
          /\ \A m \in sub[elm] : Before(d, p, m)
          /\ sub[p] = {p} \cup Under(sub, tree.child[p][d]) \cup sub[elm]
          /\ \A m \in sub[p], k \in content :
               k \in sub[p] \/ (Before(d, k, m) <=> Before(d, k, p))
      BY <1>4, <2>1, <2>4, TreeIs
    <2>6. Before(d, p, n) /\ n \in sub[p]
      BY <1>2, <2>5
    <2>7. ASSUME NEW m \in content, Before(d, m, n)
          PROVE  m = p \/ Before(d, m, p)
      <3>1. CASE m \in sub[p]
        BY <1>2, <2>5, <2>7, <3>1
      <3>2. CASE m \notin sub[p]
        BY <2>5, <2>6, <2>7, <3>2
      <3>3. QED
        BY <3>1, <3>2
    <2>8. QED
      BY <1>6, <2>1, <2>6, <2>7 DEF IsNext
  <1>7. QED
    BY <1>5, <1>6

\* A step of RB_NEXT or RB_PREV up the tree.
LEMMA StepUpKeeps ==
  ASSUME RInv, StepUp
  PROVE  RInv'
  <1>1. pc = "up" /\ Quiet /\ tree' = tree /\ content' = content
    BY DEF StepUp, Quiet
  <1>2. PICK sub, bh : Standing(tree, sub, bh, content) /\ PlaceIsRight(sub)
    BY <1>1, QuietIs
  <1>3. Tree(tree, sub, content) /\ content \in SUBSET Nodes /\ NULL \notin content
    BY <1>2, FromRoot, SetsAre
  <1>4. PICK d, n, p : d = StepDir /\ n = call.arg /\ p = tree.parent[elm]
    OBVIOUS
  <1>5. Ascending(sub, n, d)
    BY <1>1, <1>2, <1>4 DEF PlaceIsRight
  <1>6. CallInv /\ n \in content /\ n \in Nodes /\ d \in Dir /\ call.op \in {"next", "prev"}
    BY <1>1, <1>3, <1>4 DEF RInv, CallInv, StepDir, Dir
  <1>7. elm \in content /\ n \in sub[elm] /\ \A m \in sub[elm] : ~Before(d, m, n)
    BY <1>5 DEF Ascending
  <1>8. /\ p \in content \cup {NULL} /\ p \in N0 /\ (p = NULL <=> elm = tree.root)
        /\ HangsFrom(tree, elm, p)
    BY <1>3, <1>4, <1>7, ParentIs
  <1>9. elm # NULL /\ Under(sub, elm) = sub[elm]
    BY <1>3, <1>7 DEF Under
  <1>10. CASE p # NULL /\ tree.child[p][d] = elm
    <2>1. elm' = p /\ UNCHANGED <<pc, tmp, parent, call, loop>>
      BY <1>4, <1>10 DEF StepUp
    <2>2. p \in content /\ p \in Nodes
      BY <1>3, <1>8, <1>10
    <2>3. /\ \A m \in sub[elm] : Before(d, m, p)
          /\ \A m \in Under(sub, tree.child[p][Opp(d)]) : Before(d, p, m)
          /\ sub[p] = {p} \cup sub[elm] \cup Under(sub, tree.child[p][Opp(d)])
          /\ \A m \in sub[p] : m \in content
      <3>1. tree.child[p][d] = elm
        BY <1>10
      <3>2. QED
        BY <1>3, <1>6, <1>9, <2>2, <3>1, TreeIs
    <2>4. Before(d, n, p)
      BY <1>7, <2>3
    <2>5. ASSUME NEW m \in sub[p]
          PROVE  ~Before(d, m, n)
      <3>1. m \in sub[elm] \/ m = p \/ Before(d, p, m)
        BY <2>3, <2>5
      <3>2. m \in Nodes
        BY <1>3, <2>3, <2>5
      <3>3. m = p \/ Before(d, p, m) => Before(d, n, m)
        BY <1>6, <2>2, <2>4, <3>2, BeforeIs
      <3>4. Before(d, n, m) => ~Before(d, m, n)
        BY <1>6, <3>2, BeforeIs
      <3>5. QED
        BY <1>7, <3>1, <3>3, <3>4
    <2>6. n \in sub[p]
      BY <1>7, <2>3
    <2>7. Ascending(sub, n, d)'
      BY <1>1, <2>1, <2>2, <2>5, <2>6 DEF Ascending
    <2>8. (d = StepDir /\ n = call.arg)'
      BY <1>4, <2>1 DEF StepDir
    <2>9. Ascending(sub, call.arg, StepDir)'
      BY <2>7, <2>8
    <2>10. PlaceIsRight(sub)'
      BY <1>1, <2>1, <2>9 DEF PlaceIsRight
    <2>11. elm' \in N0 /\ tmp' \in N0 /\ parent' \in N0
      BY <1>6, <1>8, <2>1 DEF CallInv
    <2>12. QED
      BY <1>1, <1>2, <2>1, <2>10, <2>11, SearchKeeps
  <1>11. CASE p = NULL \/ tree.child[p][d] # elm
    <2>1. Return(p)
      BY <1>4, <1>11 DEF StepUp
    <2>2. IsNext(content, d, n, p)
      BY <1>3, <1>4, <1>5, <1>6, <1>11, UpIs
    <2>3. IsNext(content, StepDir, call.arg, p)
      BY <1>4, <2>2
    <2>4. call.op \notin {"min", "max"} /\ pc # "idle"
      BY <1>1, <1>6
    <2>5. QED
      BY <1>1, <1>8, <2>1, <2>3, <2>4, LookedKeeps
  <1>12. QED
    BY <1>10, <1>11

\* Of three keys in a row, one on side b of the others.
LEMMA InOrderIs ==
  ASSUME NEW b \in Dir, NEW e \in Nodes, NEW n \in Nodes, NEW m \in Nodes,
         \/ Before(b, e, m) /\ Before(b, n, m)
         \/ Before(b, m, e) /\ Before(b, m, n)
  PROVE  Key[m] # Key[e] /\ (Key[m] < Key[e] <=> Key[m] < Key[n])
  <1>1. Key[e] \in Int /\ Key[n] \in Int /\ Key[m] \in Int
    BY KeyAssumption
  <1>2. CASE b = "L"
    BY <1>1, <1>2 DEF Before
  <1>3. CASE b = "R"
    BY <1>1, <1>3 DEF Before
  <1>4. QED
    BY <1>2, <1>3, SidesAre

\* RB_INSERT goes down.
LEMMA InsertDescendKeeps ==
  ASSUME RInv, InsertDescend
  PROVE  RInv'
  <1>1. /\ pc = "insert" /\ tmp # NULL /\ Key[elm] # Key[tmp] /\ Quiet
        /\ elm' = elm /\ tmp' = tree.child[tmp][Side(elm, tmp)] /\ parent' = tmp
        /\ UNCHANGED <<tree, pc, call, content, loop>>
    BY DEF InsertDescend, Locals, Quiet
  <1>2. PICK sub, bh : Standing(tree, sub, bh, content) /\ PlaceIsRight(sub)
    BY <1>1, QuietIs
  <1>3. /\ Tree(tree, sub, content) /\ content \in SUBSET Nodes /\ NULL \notin content
        /\ content = Under(sub, tree.root)
    BY <1>2, FromRoot, SetsAre
  <1>4. Inserting(sub)
    BY <1>1, <1>2 DEF PlaceIsRight
  <1>5. /\ elm = call.arg /\ tmp \in content /\ parent \in content \cup {NULL}
        /\ tmp = IF parent = NULL THEN tree.root ELSE tree.child[parent][Side(elm, parent)]
        /\ parent # NULL => Key[parent] # Key[elm]
        /\ \A m \in content :
             \/ m \in sub[tmp] \/ m = parent
             \/ parent # NULL /\ Key[m] # Key[elm] /\ (Key[m] < Key[elm] <=> Key[m] < Key[parent])
    BY <1>1, <1>4 DEF Inserting, Under
  <1>6. elm \in Nodes /\ elm \in N0 /\ tmp \in Nodes
    <2>1. call.arg \in Nodes
      BY <1>1 DEF RInv, CallInv
    <2>2. QED
      BY <1>3, <1>5, <2>1, SetsAre
  <1>7. PICK a, c : a = Side(elm, tmp) /\ c = tree.child[tmp][a]
    OBVIOUS
  <1>8. /\ a \in Dir /\ c \in content \cup {NULL} /\ c \in N0 /\ Before(a, elm, tmp)
        /\ \A m \in sub[tmp] :
             m \in Under(sub, c) \/ m = tmp \/ (Before(a, tmp, m) /\ Before(a, elm, m))
    <2>1. Key[elm] # Key[tmp] /\ tmp \in content
      BY <1>1, <1>5
    <2>2. QED
      BY <1>3, <1>6, <1>7, <2>1, BesideIs
  <1>9. ASSUME NEW m \in content
        PROVE  \/ m \in Under(sub, c) \/ m = tmp
               \/ Key[m] # Key[elm] /\ (Key[m] < Key[elm] <=> Key[m] < Key[tmp])
    <2>1. CASE m \in sub[tmp]
      <3>1. m \in Under(sub, c) \/ m = tmp \/ (Before(a, tmp, m) /\ Before(a, elm, m))
        BY <1>8, <2>1
      <3>2. m \in Nodes
        BY <1>3
      <3>3. Before(a, tmp, m) /\ Before(a, elm, m) =>
              Key[m] # Key[elm] /\ (Key[m] < Key[elm] <=> Key[m] < Key[tmp])
        BY <1>6, <1>8, <3>2, InOrderIs
      <3>4. QED
        BY <3>1, <3>3
    <2>2. CASE m \notin sub[tmp]
      <3>1. parent # NULL
        <4>1. SUFFICES ASSUME parent = NULL
                       PROVE  FALSE
          OBVIOUS
        <4>2. tmp = tree.root /\ Under(sub, tmp) = sub[tmp]
          BY <1>1, <1>5, <4>1 DEF Under
        <4>3. QED
          BY <1>3, <2>2, <4>2
      <3>2. parent \in content /\ parent \in Nodes /\ Key[elm] # Key[parent]
        BY <1>3, <1>5, <3>1
      <3>3. PICK b : b = Side(elm, parent)
        OBVIOUS
      <3>4. tmp = tree.child[parent][b]
        BY <1>5, <3>1, <3>3
      <3>5. b \in Dir /\ Before(b, elm, parent) /\ \A k \in Under(sub, tmp) : Before(b, k, parent)
        BY <1>3, <1>6, <3>2, <3>3, <3>4, BesideIs
      <3>6. /\ \A k \in Under(sub, tree.child[parent][Opp(b)]) : Before(b, parent, k)
            /\ sub[parent] = {parent} \cup Under(sub, tmp)
                               \cup Under(sub, tree.child[parent][Opp(b)])
            /\ \A x \in sub[parent], k \in content :
                 k \in sub[parent] \/ (Before(b, k, x) <=> Before(b, k, parent))
        BY <1>3, <3>2, <3>4, <3>5, TreeIs
      <3>7. tmp \in Under(sub, tmp) /\ Under(sub, tmp) = sub[tmp]
        BY <1>1, <1>3, <1>5, WholeIs DEF Under
      <3>8. Before(b, tmp, parent)
        BY <3>5, <3>7
      <3>9. m \in Nodes
        BY <1>3
      <3>10. CASE m = parent
        BY <1>6, <3>2, <3>5, <3>8, <3>10, InOrderIs
      <3>11. CASE m # parent /\ m \in sub[parent]
        <4>1. Before(b, parent, m)
          BY <2>2, <3>6, <3>7, <3>11
        <4>2. Before(b, elm, m) /\ Before(b, tmp, m)
          BY <1>6, <3>2, <3>5, <3>8, <3>9, <4>1, BeforeIs
        <4>3. QED
          BY <1>6, <3>5, <3>9, <4>2, InOrderIs
      <3>12. CASE m # parent /\ m \notin sub[parent]
        <4>1. Key[m] # Key[elm] /\ (Key[m] < Key[elm] <=> Key[m] < Key[parent])
          BY <1>5, <2>2, <3>12
        <4>2. Before(b, m, tmp) <=> Before(b, m, parent)
          BY <3>6, <3>7, <3>12
        <4>3. m \notin sub[tmp] /\ tmp # m
          BY <2>2, <3>7
        <4>4. Key[m] \in Int /\ Key[tmp] \in Int /\ Key[parent] \in Int /\ Key[elm] \in Int
          BY <1>6, <3>2, <3>9, KeyAssumption
        <4>5. Key[m] # Key[tmp] /\ Key[m] # Key[parent]
          BY <1>3, <1>5, <3>2, <3>12, <4>3, WholeIs
        <4>6. CASE b = "L"
          BY <4>1, <4>2, <4>6 DEF Before
        <4>7. CASE b = "R"
          BY <4>1, <4>2, <4>4, <4>5, <4>7 DEF Before
        <4>8. QED
          BY <3>5, <4>6, <4>7, SidesAre
      <3>13. QED
        BY <3>10, <3>11, <3>12
    <2>3. QED
      BY <2>1, <2>2
  <1>10. Inserting(sub)'
    <2>1. tmp' = c /\ a = Side(elm', parent')
      BY <1>1, <1>7
    <2>2. tmp' = tree'.child[parent'][Side(elm', parent')]
      BY <1>1, <2>1
    <2>3. parent' # NULL /\ Key[parent'] # Key[elm']
      BY <1>1
    <2>4. \A m \in content' :
            \/ m \in Under(sub, tmp') \/ m = parent'
            \/ Key[m] # Key[elm'] /\ (Key[m] < Key[elm'] <=> Key[m] < Key[parent'])
      BY <1>1, <1>9, <2>1
    <2>5. elm' = call'.arg /\ tmp' \in content' \cup {NULL} /\ parent' \in content' \cup {NULL}
      BY Zenon, <1>1, <1>5, <1>8, <2>1
    <2>6. QED
      BY <2>2, <2>3, <2>4, <2>5 DEF Inserting
  <1>11. PlaceIsRight(sub)'
    BY <1>1, <1>10 DEF PlaceIsRight
  <1>12. elm' \in N0 /\ tmp' \in N0 /\ parent' \in N0
    BY <1>1, <1>6, <1>7, <1>8, SetsAre
  <1>13. QED
    BY <1>1, <1>2, <1>11, <1>12, SearchKeeps

-----------------------------------------------------------------------------
(* The changes.                                                            *)

\* The shape while RB_INSERT_COLOR runs.
LEMMA ReddenedIs ==
  ASSUME NEW sub, NEW bh, pc' = "insert_color",
         Reddened(tree, sub, bh, content \cup {call.arg}, elm)'
  PROVE  Shaped'
  <1>1. ShapeIs(sub, bh)'
    BY DEF ShapeIs, Quiet
  <1>2. QED
    BY <1>1 DEF Shaped

\* The shape while RB_REMOVE_COLOR runs.
LEMMA LackingIs ==
  ASSUME NEW sub, NEW bh, pc' = "remove_color",
         Lacking(tree, sub, bh, content \ {call.arg}, elm, parent)'
  PROVE  Shaped'
  <1>1. ShapeIs(sub, bh)'
    BY DEF ShapeIs, Quiet
  <1>2. QED
    BY <1>1 DEF Shaped

\* A step of a call that has changed the tree, or will.
LEMMA ChangeKeeps ==
  ASSUME RInv, UNCHANGED <<call, content, loop>>,
         \/ pc \in {"insert", "insert_color"} /\ pc' = "insert_color"
         \/ pc \in {"successor", "unlink", "remove_color"} /\ pc' = "remove_color",
         elm' \in N0, tmp' \in N0, parent' \in N0, Shaped'
  PROVE  RInv'
  <1>1. call' = call /\ content' = content /\ pc # "idle" /\ pc' # "idle"
    OBVIOUS
  <1>2. CallInv'
    BY <1>1 DEF RInv, CallInv
  <1>3. Distinct'
    BY <1>1 DEF RInv, Distinct
  <1>4. LoopInv'
    BY <1>1, LoopGoesOn
  <1>5. QED
    BY <1>2, <1>3, <1>4 DEF RInv

\* A call that changed the tree returns.
LEMMA ChangedKeeps ==
  ASSUME RInv, NEW r \in N0, Return(r),
         \/ pc = "insert_color" /\ content' = content \cup {call.arg}
         \/ pc \in {"successor", "unlink", "remove_color"} /\ content' = content \ {call.arg},
         NEW sub, NEW bh, Standing(tree, sub, bh, content)'
  PROVE  RInv'
  <1>1. CallInv /\ pc # "idle"
    BY DEF RInv
  <1>2. /\ call.op \in {"insert", "remove"} /\ content' \in SUBSET Nodes
        /\ \/ call.op = "insert"
           \/ call.op = "remove" /\ content' = content \ {call.arg}
    BY <1>1 DEF CallInv
  <1>3. CallInv' /\ pc' = "idle"
    BY <1>1, <1>2, ReturnIs
  <1>4. LoopInv'
    BY <1>1, <1>2, LoopReturns
  <1>5. PICK w, Y : w = tree' /\ Y = content'
    OBVIOUS
  <1>6. Standing(w, sub, bh, Y)
    BY <1>5
  <1>7. \A n, m \in Y : Key[n] = Key[m] => n = m
    BY <1>6, WholeIs DEF Standing
  <1>8. Distinct'
    BY <1>5, <1>7 DEF Distinct
  <1>9. Quiet' /\ PlaceIsRight(sub)'
    BY <1>3 DEF Quiet, PlaceIsRight
  <1>10. Shaped'
    BY <1>9, StandingIs
  <1>11. QED
    BY <1>3, <1>4, <1>8, <1>10 DEF RInv

\* RB_INSERT links the node where the search has ended.
LEMMA InsertLinkKeeps ==
  ASSUME RInv, InsertLink
  PROVE  RInv'
  <1>1. /\ pc = "insert" /\ tmp = NULL /\ Quiet /\ pc' = "insert_color"
        /\ elm' = elm /\ tmp' = NULL /\ parent' = NULL
        /\ UNCHANGED <<call, content, loop>>
    BY DEF InsertLink, Locals, Quiet
  <1>2. tree' = Linked(tree, elm, parent)
    BY DEF InsertLink, Linked
  <1>3. PICK sub, bh : Standing(tree, sub, bh, content) /\ PlaceIsRight(sub)
    BY <1>1, QuietIs
  <1>4. /\ Tree(tree, sub, content) /\ content \in SUBSET Nodes /\ NULL \notin content
        /\ content = Under(sub, tree.root)
    BY <1>3, FromRoot, SetsAre
  <1>5. Inserting(sub)
    BY <1>1, <1>3 DEF PlaceIsRight
  <1>6. PICK t, X, e, p, u : /\ t = tree /\ X = content /\ e = elm /\ p = parent
                             /\ u = tree'
    OBVIOUS
  <1>7. e = call.arg /\ e \in Nodes /\ e \notin X /\ p \in X \cup {NULL}
    BY <1>1, <1>5, <1>6 DEF Inserting, RInv, CallInv
  <1>8. /\ NULL = IF p = NULL THEN t.root ELSE t.child[p][Side(e, p)]
        /\ p # NULL => Key[p] # Key[e]
        /\ \A m \in X :
             \/ m = p
             \/ p # NULL /\ Key[m] # Key[e] /\ (Key[m] < Key[e] <=> Key[m] < Key[p])
    BY <1>1, <1>5, <1>6 DEF Inserting, Under
  <1>9. PICK d : d = IF p = NULL THEN "L" ELSE Side(e, p)
    OBVIOUS
  <1>10. d \in Dir
    BY <1>9 DEF Side, Dir
  <1>11. p = NULL => t.root = NULL
    BY <1>8
  <1>12. p # NULL => t.child[p][d] = NULL /\ Before(d, e, p)
    <2>1. SUFFICES ASSUME p # NULL
                   PROVE  t.child[p][d] = NULL /\ Before(d, e, p)
      OBVIOUS
    <2>2. d = Side(e, p) /\ t.child[p][d] = NULL
      BY <1>8, <1>9, <2>1
    <2>3. Key[e] \in Int /\ Key[p] \in Int /\ Key[p] # Key[e]
      BY <1>4, <1>6, <1>7, <1>8, <2>1, KeyAssumption
    <2>4. Before(d, e, p)
      BY <2>2, <2>3 DEF Side, Before
    <2>5. QED
      BY <2>2, <2>4
  <1>13. Belongs(t, X, e, p, d)
    <2>1. \A k \in X : Key[k] # Key[e]
      BY <1>4, <1>6, <1>8
    <2>2. \A k \in X : k # p => (Key[k] < Key[e] <=> Key[k] < Key[p])
      BY <1>8
    <2>3. QED
      BY <1>7, <1>10, <1>11, <1>12, <2>1, <2>2 DEF Belongs
  <1>14. u = Linked(t, e, p)
    BY <1>2, <1>6
  <1>15. Hung(t, e, p, d, u)
    <2>1. t \in Trees /\ p \in N0 /\ p # e
      BY <1>4, <1>6, <1>7, WholeIs, SetsAre
    <2>2. p # NULL => d = Side(e, p)
      BY <1>9
    <2>3. QED
      BY <1>7, <1>10, <1>14, <2>1, <2>2, LinkWrites
  <1>16. PICK s, b : Reddened(u, s, b, X \cup {e}, e)
    BY <1>3, <1>6, <1>13, <1>15, HungStands
  <1>17. content' = X /\ call'.arg = e /\ elm' = e
    BY <1>1, <1>6, <1>7
  <1>18. Reddened(tree, s, b, content \cup {call.arg}, elm)'
    BY <1>6, <1>16, <1>17
  <1>19. Shaped'
    BY <1>1, <1>18, ReddenedIs
  <1>20. elm' \in N0 /\ tmp' \in N0 /\ parent' \in N0
    BY <1>1, <1>6, <1>7, SetsAre
  <1>21. QED
    BY <1>1, <1>19, <1>20, ChangeKeeps

\* What holds between the steps of RB_INSERT_COLOR.
LEMMA InsertColorIs ==
  ASSUME RInv, pc = "insert_color"
  PROVE  /\ \E sub, bh : Reddened(tree, sub, bh, content \cup {call.arg}, elm)
         /\ elm \in N0 /\ tmp \in N0 /\ parent \in N0 /\ content \in SUBSET Nodes
         /\ call.arg \in Nodes
  <1>1. CallInv
    BY DEF RInv
  <1>2. PICK sub, bh : ShapeIs(sub, bh)
    BY DEF RInv, Shaped
  <1>3. Reddened(tree, sub, bh, content \cup {call.arg}, elm)
    BY <1>2 DEF ShapeIs
  <1>4. QED
    BY <1>1, <1>3 DEF CallInv

\* RB_INSERT_COLOR, with a red uncle: the tree is the same but for its colours,
\* and the loop goes on two levels up.
LEMMA RecolorUncleIs ==
  ASSUME RInv, RecolorUncle
  PROVE  \E sub, bh, b, X, p, g :
           /\ X = content \cup {call.arg} /\ X = content' \cup {call'.arg}
           /\ Reddened(tree, sub, bh, X, elm) /\ Reddened(tree', sub, b, X, g)
           /\ GrandFacts(tree, X, elm, p, g) /\ elm' = g
           /\ pc = "insert_color" /\ ParentIsRed
           /\ UNCHANGED <<pc, tmp, parent, call, content, loop>>
  <1>1. PICK t, e, p, g, d, v, u :
          /\ t = tree /\ e = elm /\ p = t.parent[e] /\ g = t.parent[p]
          /\ d = (IF p = Left(t, g) THEN "L" ELSE "R")
          /\ v = t.child[g][Opp(d)] /\ u = tree'
    OBVIOUS
  <1>2. /\ pc = "insert_color" /\ IsRed(t, p) /\ IsRed(t, v)
        /\ u = RB_SET_BLACKRED(SetColor(t, v, "black"), p, g) /\ elm' = g
        /\ UNCHANGED <<pc, tmp, parent, call, content, loop>>
    BY Zenon, <1>1 DEF RecolorUncle, ParentIsRed
  <1>3. u = Passed(t, p, v, g)
    BY <1>2 DEF Passed
  <1>4. PICK X : X = content \cup {call.arg}
    OBVIOUS
  <1>5. tmp \in N0 /\ parent \in N0
    BY <1>2, InsertColorIs
  <1>6. PICK sub, bh : Reddened(t, sub, bh, X, e)
    BY Zenon, <1>1, <1>2, <1>4, InsertColorIs
  <1>7. GrandFacts(t, X, e, p, g) /\ Grand(t, e, p, g, d)
    <2>1. p = t.parent[e] /\ g = t.parent[p]
      BY <1>1
    <2>2. /\ GrandFacts(t, X, e, p, g)
          /\ Grand(t, e, p, g, IF p = Left(t, g) THEN "L" ELSE "R")
      BY <1>2, <1>6, <2>1, GrandExists
    <2>3. QED
      BY <1>1, <2>2
  <1>8. v = t.child[g][Opp(d)]
    BY <1>1
  <1>9. PICK b : Reddened(u, sub, b, X, g)
    BY <1>2, <1>3, <1>6, <1>7, <1>8, UncleKeeps
  <1>10. tree' = u /\ content' \cup {call'.arg} = X /\ ParentIsRed
    BY Zenon, <1>1, <1>2, <1>4 DEF ParentIsRed
  <1>11. QED
    BY Zenon, <1>1, <1>2, <1>4, <1>6, <1>7, <1>9, <1>10

\* RB_INSERT_COLOR, with a red uncle.
LEMMA RecolorUncleKeeps ==
  ASSUME RInv, RecolorUncle
  PROVE  RInv'
  <1>1. PICK sub, bh, b, X, p, g :
           /\ X = content \cup {call.arg} /\ X = content' \cup {call'.arg}
           /\ Reddened(tree, sub, bh, X, elm) /\ Reddened(tree', sub, b, X, g)
           /\ GrandFacts(tree, X, elm, p, g) /\ elm' = g
           /\ pc = "insert_color" /\ ParentIsRed
           /\ UNCHANGED <<pc, tmp, parent, call, content, loop>>
    BY RecolorUncleIs
  <1>2. Reddened(tree, sub, b, content \cup {call.arg}, elm)'
    BY <1>1
  <1>3. Shaped'
    BY <1>1, <1>2, ReddenedIs
  <1>4. tmp \in N0 /\ parent \in N0
    BY <1>1, InsertColorIs
  <1>5. g \in N0
    BY <1>1, SetsAre DEF GrandFacts
  <1>6. QED
    BY <1>1, <1>3, <1>4, <1>5, ChangeKeeps

\* RB_INSERT_COLOR, with a black uncle: after this the loop ends.
LEMMA RotateGrandparentKeeps ==
  ASSUME RInv, RotateGrandparent
  PROVE  RInv' /\ ~ParentIsRed'
  <1>1. PICK t, e, p, g, d, u :
          /\ t = tree /\ e = elm /\ p = t.parent[e] /\ g = t.parent[p]
          /\ d = (IF p = Left(t, g) THEN "L" ELSE "R") /\ u = tree'
    OBVIOUS
  <1>2. /\ pc = "insert_color" /\ IsRed(t, p) /\ ~IsRed(t, t.child[g][Opp(d)])
        /\ UNCHANGED <<pc, tmp, parent, call, content, loop>>
    BY Zenon, <1>1 DEF RotateGrandparent, ParentIsRed
  <1>3. /\ t.child[p][Opp(d)] # e => u = Raised(t, p, g, d) /\ elm' = e
        /\ t.child[p][Opp(d)] = e => u = Raised(Rotate(t, p, d), e, g, d) /\ elm' = p
    BY Zenon, <1>1 DEF RotateGrandparent, Raised
  <1>4. PICK X : X = content \cup {call.arg}
    OBVIOUS
  <1>5. tmp \in N0 /\ parent \in N0
    BY <1>2, InsertColorIs
  <1>6. PICK sub, bh : Reddened(t, sub, bh, X, e)
    BY <1>1, <1>2, <1>4, InsertColorIs
  <1>7. /\ GrandFacts(t, X, e, p, g) /\ Grand(t, e, p, g, d)
        /\ \E a \in Dir : t.child[p][a] = e /\ t.child[p][Opp(a)] # e
    <2>1. p = t.parent[e] /\ g = t.parent[p]
      BY <1>1
    <2>2. /\ GrandFacts(t, X, e, p, g)
          /\ Grand(t, e, p, g, IF p = Left(t, g) THEN "L" ELSE "R")
          /\ \E a \in Dir : t.child[p][a] = e /\ t.child[p][Opp(a)] # e
      BY <1>2, <1>6, <2>1, GrandExists
    <2>3. QED
      BY <1>1, <2>2
  <1>8. e \in N0 /\ p \in N0
    BY <1>7, SetsAre DEF GrandFacts
  <1>9. d \in Dir
    BY <1>7 DEF Grand
  <1>10. (\E s, b : Reddened(u, s, b, X, elm') /\ elm' \in N0) /\ ~IsRed(u, u.parent[elm'])
    <2>1. CASE t.child[p][Opp(d)] # e
      <3>1. PICK a \in Dir : t.child[p][a] = e
        BY <1>7
      <3>2. t.child[p][d] = e
        BY <1>9, <2>1, <3>1, OppIs
      <3>3. u = Raised(t, p, g, d) /\ elm' = e
        BY <1>3, <2>1
      <3>4. (\E s, b : Reddened(u, s, b, X, e)) /\ ~IsRed(u, u.parent[e])
        BY <1>2, <1>6, <1>7, <3>2, <3>3, OuterKeeps
      <3>5. QED
        BY <1>8, <3>3, <3>4
    <2>2. CASE t.child[p][Opp(d)] = e
      <3>1. PICK v : v = Rotate(t, p, d)
        OBVIOUS
      <3>2. u = Raised(v, e, g, d) /\ elm' = p
        BY <1>3, <2>2, <3>1
      <3>3. (\E s, b : Reddened(u, s, b, X, p)) /\ ~IsRed(u, u.parent[p])
        BY <1>2, <1>6, <1>7, <2>2, <3>1, <3>2, BothKeep
      <3>4. QED
        BY <1>8, <3>2, <3>3
    <2>3. QED
      BY <2>1, <2>2
  <1>11. PICK s, b : Reddened(u, s, b, X, elm')
    BY <1>10
  <1>12. tree' = u /\ content' \cup {call'.arg} = X
    BY <1>1, <1>2, <1>4
  <1>13. Reddened(tree, s, b, content \cup {call.arg}, elm)'
    BY <1>11, <1>12
  <1>14. Shaped'
    BY <1>2, <1>13, ReddenedIs
  <1>15. ~ParentIsRed'
    BY <1>10, <1>12 DEF ParentIsRed
  <1>16. QED
    BY <1>2, <1>5, <1>10, <1>14, <1>15, ChangeKeeps

\* The end of RB_INSERT.
LEMMA InsertReturnKeeps ==
  ASSUME RInv, InsertReturn
  PROVE  RInv'
  <1>1. /\ pc = "insert_color" /\ ~IsRed(tree, tree.parent[elm])
        /\ tree' = SetColor(tree, tree.root, "black")
        /\ content' = content \cup {call.arg} /\ Return(NULL)
    BY DEF InsertReturn, ParentIsRed
  <1>2. PICK sub, bh : Reddened(tree, sub, bh, content \cup {call.arg}, elm)
    BY <1>1, InsertColorIs
  <1>3. PICK u : u = tree'
    OBVIOUS
  <1>4. PICK b : Standing(u, sub, b, content \cup {call.arg})
    BY <1>1, <1>2, <1>3, InsertEnds
  <1>5. Standing(tree, sub, b, content)'
    BY <1>1, <1>3, <1>4
  <1>6. NULL \in N0
    BY SetsAre
  <1>7. QED
    BY <1>1, <1>5, <1>6, ChangedKeeps

\* After the splice: what is left is right if the node was red; else
\* RB_REMOVE_COLOR begins.
LEMMA RecolorKeeps ==
  ASSUME RInv, pc \in {"successor", "unlink"},
         NEW u, NEW color \in Colors, NEW c \in N0, NEW p \in N0, Recolor(u, color, c, p),
         color = "red" => \E s, b : Standing(u, s, b, content \ {call.arg}),
         color = "black" => \E s, b : Lacking(u, s, b, content \ {call.arg}, c, p)
  PROVE  RInv'
  <1>1. CASE color = "black"
    <2>1. /\ tree' = u /\ pc' = "remove_color" /\ UNCHANGED <<call, content, loop>>
          /\ elm' = c /\ tmp' = NULL /\ parent' = p
      BY <1>1 DEF Recolor, Locals
    <2>2. PICK s, b : Lacking(u, s, b, content \ {call.arg}, c, p)
      BY <1>1
    <2>3. Lacking(tree, s, b, content \ {call.arg}, elm, parent)'
      BY <2>1, <2>2
    <2>4. Shaped'
      BY <2>1, <2>3, LackingIs
    <2>5. elm' \in N0 /\ tmp' \in N0 /\ parent' \in N0
      BY <2>1, SetsAre
    <2>6. QED
      BY <2>1, <2>4, <2>5, ChangeKeeps
  <1>2. CASE color = "red"
    <2>1. tree' = u /\ content' = content \ {call.arg} /\ Return(call.arg)
      BY <1>2 DEF Recolor
    <2>2. PICK s, b : Standing(u, s, b, content \ {call.arg})
      BY <1>2
    <2>3. Standing(tree, s, b, content)'
      BY <2>1, <2>2
    <2>4. call.arg \in N0
      BY DEF RInv, CallInv
    <2>5. QED
      BY <2>1, <2>3, <2>4, ChangedKeeps
  <1>3. QED
    BY <1>1, <1>2 DEF Colors

\* RB_REMOVE of a node with at most one child.
LEMMA UnlinkKeepsAll ==
  ASSUME RInv, Unlink
  PROVE  RInv'
  <1>1. pc = "unlink" /\ Quiet
    BY DEF Unlink, Quiet
  <1>2. PICK sub, bh : Standing(tree, sub, bh, content) /\ PlaceIsRight(sub)
    BY <1>1, QuietIs
  <1>3. Tree(tree, sub, content) /\ content \in SUBSET Nodes
    BY <1>2, FromRoot
  <1>4. PICK t, X, e : t = tree /\ X = content /\ e = elm
    OBVIOUS
  <1>5. /\ e = call.arg /\ e \in X /\ e \in Nodes
        /\ t.child[e]["L"] = NULL \/ t.child[e]["R"] = NULL
    BY <1>1, <1>2, <1>3, <1>4 DEF PlaceIsRight, RInv, CallInv, Left, Right
  <1>6. PICK d : d = IF t.child[e]["L"] = NULL THEN "R" ELSE "L"
    OBVIOUS
  <1>7. PICK c, p : c = t.child[e][d] /\ p = t.parent[e]
    OBVIOUS
  <1>8. d \in Dir /\ t.child[e][Opp(d)] = NULL
    BY <1>5, <1>6, SidesAre
  <1>9. PICK v, u : v = Replace(SetParent(t, c, p), p, e, c) /\ u = Forget(v, e)
    OBVIOUS
  <1>10. c = IF Left(tree, elm) = NULL THEN Right(tree, elm) ELSE Left(tree, elm)
    BY <1>4, <1>6, <1>7 DEF Left, Right
  <1>11. Recolor(u, t.color[e], c, p)
    BY <1>4, <1>7, <1>9, <1>10 DEF Unlink
  <1>12. Standing(t, sub, bh, X) /\ Tree(t, sub, X)
    BY <1>2, <1>3, <1>4
  <1>13. c \in X \cup {NULL}
    BY <1>5, <1>7, <1>8, <1>12, KidIs
  <1>14. Unlinked(t, e, c, p, v)
    BY <1>5, <1>7, <1>9, <1>12, <1>13, UnlinkWrites
  <1>15. Unlinked(t, e, c, p, u)
    BY <1>5, <1>9, <1>14, ForgetUnlinked
  <1>16. /\ Own(t, e) = 0 => \E s, b : Standing(u, s, b, X \ {e})
         /\ Own(t, e) = 1 => \E s, b : Lacking(u, s, b, X \ {e}, c, p)
    BY <1>5, <1>7, <1>8, <1>12, <1>15, UnlinkStands
  <1>17. t.color[e] \in Colors
    BY <1>5, <1>12, WholeIs DEF Trees
  <1>18. /\ t.color[e] = "red" => Own(t, e) = 0
         /\ t.color[e] = "black" => Own(t, e) = 1
    BY DEF Own
  <1>19. X \ {e} = content \ {call.arg}
    BY <1>4, <1>5
  <1>20. c \in N0
    BY <1>3, <1>4, <1>13, SetsAre
  <1>21. p \in N0
    BY <1>5, <1>7, <1>12, ParentIs
  <1>22. /\ t.color[e] = "red" => \E s, b : Standing(u, s, b, content \ {call.arg})
         /\ t.color[e] = "black" => \E s, b : Lacking(u, s, b, content \ {call.arg}, c, p)
    BY <1>16, <1>18, <1>19
  <1>23. QED
    BY <1>1, <1>11, <1>17, <1>20, <1>21, <1>22, RecolorKeeps

\* The next node takes the place of a node.
LEMMA NextSucceeds ==
  ASSUME NEW X \in SUBSET Nodes, NEW old \in X, NEW e \in X, IsNext(X, "R", old, e),
         \A n, m \in X : Key[n] = Key[m] => n = m, e # NULL
  PROVE  Succeeds(X \ {e}, old, e) /\ e # old
  <1>1. /\ Key[old] < Key[e]
        /\ \A k \in X : Key[old] < Key[k] => k = e \/ Key[e] < Key[k]
    BY SidesAre DEF IsNext, Before
  <1>2. \A k \in X : Key[k] \in Int
    BY KeyAssumption
  <1>3. e # old
    BY <1>1, <1>2
  <1>4. ASSUME NEW k \in X \ {e}, k # old
        PROVE  (Key[k] < Key[e] <=> Key[k] < Key[old]) /\ Key[k] # Key[e]
    <2>1. Key[k] \in Int /\ Key[e] \in Int /\ Key[old] \in Int
      BY <1>2
    <2>2. Key[k] # Key[old] /\ Key[k] # Key[e]
      BY <1>4
    <2>3. Key[old] < Key[k] => Key[e] < Key[k]
      BY <1>1, <1>4
    <2>4. QED
      BY <1>1, <2>1, <2>2, <2>3
  <1>5. QED
    BY <1>3, <1>4 DEF Succeeds

\* RB_REMOVE of a node with two children: the successor takes its place.
LEMMA SpliceSuccessorKeeps ==
  ASSUME RInv, SpliceSuccessor
  PROVE  RInv'
  <1>1. pc = "successor" /\ Quiet
    BY DEF SpliceSuccessor, Quiet
  <1>2. PICK sub, bh : Standing(tree, sub, bh, content) /\ PlaceIsRight(sub)
    BY <1>1, QuietIs
  <1>3. Tree(tree, sub, content) /\ content \in SUBSET Nodes /\ NULL \notin content
    BY <1>2, FromRoot, SetsAre
  <1>4. PICK t, X, e, old : t = tree /\ X = content /\ e = elm /\ old = call.arg
    OBVIOUS
  <1>5. old \in X /\ Descending(sub, old, "R") /\ t.child[e]["L"] = NULL
    BY Zenon, <1>1, <1>2, <1>4 DEF SpliceSuccessor, Left, PlaceIsRight, RInv, CallInv
  <1>6. "R" \in Dir /\ Opp("R") = "L"
    BY SidesAre
  <1>7. e \in X /\ e \in Nodes /\ e # NULL /\ old # NULL /\ \A m \in sub[e] : Before("R", m, old)
    BY <1>3, <1>4, <1>5 DEF Descending
  <1>8. IsNext(X, "R", old, e)
    <2>1. tree.child[elm][Opp("R")] = NULL
      BY <1>4, <1>5, <1>6
    <2>2. old \in content /\ Descending(sub, old, "R")
      BY <1>4, <1>5
    <2>3. IsNext(content, "R", old, elm)
      BY <1>3, <1>6, <2>1, <2>2, DownIs
    <2>4. QED
      BY <1>4, <2>3
  <1>9. Standing(t, sub, bh, X) /\ Tree(t, sub, X) /\ X \in SUBSET Nodes
    BY <1>2, <1>3, <1>4
  <1>10. Succeeds(X \ {e}, old, e) /\ e # old
    <2>1. \A n, m \in X : Key[n] = Key[m] => n = m
      BY <1>9, WholeIs
    <2>2. QED
      BY <1>5, <1>7, <1>8, <1>9, <2>1, NextSucceeds
  <1>11. PICK c, p : c = t.child[e]["R"] /\ p = t.parent[e]
    OBVIOUS
  <1>12. PICK v, u : v = Replace(SetParent(t, c, p), p, e, c) /\ u = Spliced(v, old, e)
    OBVIOUS
  <1>13. Recolor(u, t.color[e], c, IF p = old THEN e ELSE p)
    <2>1. c = Right(tree, elm)
      BY <1>4, <1>11 DEF Right
    <2>2. QED
      BY Zenon, <1>4, <1>11, <1>12, <2>1 DEF SpliceSuccessor, Spliced
  <1>14. /\ c \in X \cup {NULL} /\ \A m \in Under(sub, c) : m \in sub[e]
    BY <1>6, <1>7, <1>9, <1>11, TreeIs
  <1>15. c # old
    <2>1. CASE c = NULL
      BY <1>7, <2>1
    <2>2. CASE c # NULL
      <3>1. c \in sub[c] /\ Under(sub, c) = sub[c]
        BY <1>9, <1>14, <2>2, WholeIs DEF Under
      <3>2. Before("R", c, old)
        BY <1>7, <1>14, <3>1
      <3>3. old \in Nodes
        BY <1>5, <1>9
      <3>4. QED
        BY <1>6, <3>2, <3>3, BeforeIs
    <2>3. QED
      BY <2>1, <2>2
  <1>16. Unlinked(t, e, c, p, v)
    BY <1>7, <1>9, <1>11, <1>12, <1>14, UnlinkWrites
  <1>17. /\ Own(t, e) = 0 => \E s, b : Standing(v, s, b, X \ {e})
         /\ Own(t, e) = 1 => \E s, b : Lacking(v, s, b, X \ {e}, c, p)
    BY <1>5, <1>6, <1>7, <1>9, <1>11, <1>16, UnlinkStands
  <1>18. PICK q : q = IF p = old THEN e ELSE p
    OBVIOUS
  <1>19. ((X \ {e}) \ {old}) \cup {e} = content \ {call.arg}
    BY <1>4, <1>7, <1>10
  <1>20. Own(t, e) = 0 => \E s, b : Standing(u, s, b, content \ {call.arg})
    <2>1. SUFFICES ASSUME Own(t, e) = 0
                   PROVE  \E s, b : Standing(u, s, b, content \ {call.arg})
      OBVIOUS
    <2>2. PICK s1, b1 : Standing(v, s1, b1, X \ {e})
      BY <1>17, <2>1
    <2>3. \E s, b : Standing(u, s, b, ((X \ {e}) \ {old}) \cup {e})
      BY <1>10, <1>12, <2>2, RenamedStands
    <2>4. QED
      BY <1>19, <2>3
  <1>21. Own(t, e) = 1 => \E s, b : Lacking(u, s, b, content \ {call.arg}, c, q)
    <2>1. SUFFICES ASSUME Own(t, e) = 1
                   PROVE  \E s, b : Lacking(u, s, b, content \ {call.arg}, c, q)
      OBVIOUS
    <2>2. PICK s1, b1 : Lacking(v, s1, b1, X \ {e}, c, p)
      BY <1>17, <2>1
    <2>3. \E s, b : Lacking(u, s, b, ((X \ {e}) \ {old}) \cup {e}, c, IF p = old THEN e ELSE p)
      BY <1>10, <1>12, <1>15, <2>2, RenamedLacks
    <2>4. QED
      BY <1>18, <1>19, <2>3
  <1>22. t.color[e] \in Colors
    BY <1>7, <1>9, WholeIs DEF Trees
  <1>23. /\ t.color[e] = "red" => Own(t, e) = 0
         /\ t.color[e] = "black" => Own(t, e) = 1
    BY DEF Own
  <1>24. c \in N0
    BY <1>9, <1>14, SetsAre
  <1>25. q \in N0
    <2>1. p \in N0
      BY <1>7, <1>9, <1>11, ParentIs
    <2>2. QED
      BY <1>7, <1>18, <2>1, SetsAre
  <1>26. Recolor(u, t.color[e], c, q)
    BY <1>13, <1>18
  <1>27. QED
    BY <1>1, <1>20, <1>21, <1>22, <1>23, <1>24, <1>25, <1>26, RecolorKeeps

\* What holds between the steps of RB_REMOVE_COLOR.
LEMMA RemoveColorIs ==
  ASSUME RInv, pc = "remove_color"
  PROVE  /\ \E sub, bh : Lacking(tree, sub, bh, content \ {call.arg}, elm, parent)
         /\ elm \in N0 /\ tmp \in N0 /\ parent \in N0 /\ call.arg \in N0
  <1>1. CallInv
    BY DEF RInv
  <1>2. PICK sub, bh : ShapeIs(sub, bh)
    BY DEF RInv, Shaped
  <1>3. Lacking(tree, sub, bh, content \ {call.arg}, elm, parent)
    BY <1>2 DEF ShapeIs
  <1>4. QED
    BY <1>1, <1>3 DEF CallInv

\* After the first rotation of the loop, if there is one, the sibling is black,
\* and if there was one the parent is red.
LEMMA RotatedIs ==
  ASSUME RInv, LacksBlack, NEW X, X = content \ {call.arg},
         NEW f, f = Deficit, NEW w, w = RotatedTree, NEW s, s = Sibling
  PROVE  /\ \E sub, bh : Deprived(w, sub, bh, X, elm, parent, f)
         /\ s = w.child[parent][Opp(f)] /\ Own(w, s) = 1
         /\ w = tree \/ IsRed(w, parent)
  <1>1. pc = "remove_color" /\ ~IsRed(tree, elm) /\ elm # tree.root
    BY DEF LacksBlack
  <1>2. PICK sub, bh : Lacking(tree, sub, bh, X, elm, parent)
    BY <1>1, RemoveColorIs
  <1>3. f = SideOf(tree, parent, elm)
    BY DEF Deficit, SideOf
  <1>4. Deprived(tree, sub, bh, X, elm, parent, f)
    BY <1>1, <1>2, <1>3, LacksIs
  <1>5. s = w.child[parent][Opp(f)]
    BY DEF Sibling
  <1>6. PICK r : r = tree.child[parent][Opp(f)]
    OBVIOUS
  <1>7. w = IF IsRed(tree, r) THEN Lifted(tree, r, parent, f) ELSE tree
    BY <1>6 DEF RotatedTree, Lifted
  <1>8. CASE IsRed(tree, r)
    <2>1. w = Lifted(tree, r, parent, f)
      BY <1>7, <1>8
    <2>2. /\ \E new, b : Deprived(w, new, b, X, elm, parent, f)
          /\ Own(w, w.child[parent][Opp(f)]) = 1 /\ IsRed(w, parent)
      BY <1>4, <1>6, <1>8, <2>1, LiftKeeps
    <2>3. QED
      BY <1>5, <2>2
  <1>9. CASE ~IsRed(tree, r)
    <2>1. w = tree /\ s = r
      BY <1>5, <1>6, <1>7, <1>9
    <2>2. SiblingFacts(tree, X, elm, parent, f, r)
      BY <1>4, <1>6, SiblingIs
    <2>3. r \in X /\ NULL \notin X
      BY <2>2 DEF SiblingFacts
    <2>4. Own(tree, r) = 1
      BY <1>9, <2>3 DEF IsRed, Own
    <2>5. QED
      BY <1>4, <1>5, <2>1, <2>4
  <1>10. QED
    BY <1>8, <1>9

\* A step of RB_REMOVE_COLOR that keeps the shape keeps the invariant.
LEMMA RemoveColorKeeps ==
  ASSUME RInv, pc = "remove_color", UNCHANGED <<pc, call, content, loop>>,
         NEW sub, NEW bh, NEW u, u = tree', NEW X, X = content \ {call.arg},
         NEW e \in N0, NEW p \in N0, Locals(e, NULL, p), Lacking(u, sub, bh, X, e, p)
  PROVE  RInv'
  <1>1. elm' = e /\ tmp' = NULL /\ parent' = p
    BY DEF Locals
  <1>2. content' \ {call'.arg} = X
    OBVIOUS
  <1>3. Lacking(tree, sub, bh, content \ {call.arg}, elm, parent)'
    BY <1>1, <1>2
  <1>4. Shaped'
    BY <1>3, LackingIs
  <1>5. elm' \in N0 /\ tmp' \in N0 /\ parent' \in N0
    BY <1>1, SetsAre
  <1>6. QED
    BY <1>4, <1>5, ChangeKeeps

\* RB_REMOVE_COLOR, with a sibling whose children are black.  After the rotation
\* that gave a black sibling the parent is red, and the loop ends.
LEMMA RecolorSiblingIs ==
  ASSUME RInv, RecolorSibling
  PROVE  \E sub, bh, b, X, s, f, w :
           /\ X = content \ {call.arg} /\ X = content' \ {call'.arg} /\ w = RotatedTree
           /\ Deprived(w, sub, bh, X, elm, parent, f)
           /\ s = w.child[parent][Opp(f)] /\ tree' = SetColor(w, s, "red")
           /\ Lacking(tree', sub, b, X, parent, w.parent[parent])
           /\ Locals(parent, NULL, w.parent[parent]) /\ (w = tree \/ IsRed(w, parent))
           /\ LacksBlack /\ pc = "remove_color" /\ UNCHANGED <<pc, call, content, loop>>
  <1>1. PICK f, w, s, X, q : /\ f = Deficit /\ w = RotatedTree /\ s = Sibling
                             /\ X = content \ {call.arg} /\ q = parent
    OBVIOUS
  <1>2. /\ LacksBlack /\ ~IsRed(w, Left(w, s)) /\ ~IsRed(w, Right(w, s))
        /\ tree' = SetColor(w, s, "red") /\ Locals(q, NULL, w.parent[q])
        /\ UNCHANGED <<pc, call, content, loop>>
    BY <1>1 DEF RecolorSibling
  <1>3. pc = "remove_color"
    BY <1>2 DEF LacksBlack
  <1>4. /\ \E sub, bh : Deprived(w, sub, bh, X, elm, q, f)
        /\ s = w.child[q][Opp(f)] /\ Own(w, s) = 1 /\ (w = tree \/ IsRed(w, q))
    BY <1>1, <1>2, RotatedIs
  <1>5. PICK sub, bh : Deprived(w, sub, bh, X, elm, q, f)
    BY <1>4
  <1>6. \A a \in Dir : ~IsRed(w, w.child[s][a])
    BY <1>2, SidesAre DEF Left, Right
  <1>7. PICK u, e : u = tree' /\ e = elm
    OBVIOUS
  <1>8. u = SetColor(w, s, "red") /\ Deprived(w, sub, bh, X, e, q, f)
    BY <1>2, <1>5, <1>7
  <1>9. PICK b : Lacking(u, sub, b, X, q, w.parent[q])
    BY <1>4, <1>6, <1>8, SiblingKeeps
  <1>10. X = content' \ {call'.arg}
    BY <1>1, <1>2
  <1>11. QED
    BY Zenon, <1>1, <1>2, <1>3, <1>4, <1>5, <1>7, <1>9, <1>10

\* RB_REMOVE_COLOR, with a sibling whose children are black.
LEMMA RecolorSiblingKeeps ==
  ASSUME RInv, RecolorSibling
  PROVE  RInv'
  <1>1. PICK sub, bh, b, X, s, f, w :
           /\ X = content \ {call.arg} /\ X = content' \ {call'.arg} /\ w = RotatedTree
           /\ Deprived(w, sub, bh, X, elm, parent, f)
           /\ s = w.child[parent][Opp(f)] /\ tree' = SetColor(w, s, "red")
           /\ Lacking(tree', sub, b, X, parent, w.parent[parent])
           /\ Locals(parent, NULL, w.parent[parent]) /\ (w = tree \/ IsRed(w, parent))
           /\ LacksBlack /\ pc = "remove_color" /\ UNCHANGED <<pc, call, content, loop>>
    BY RecolorSiblingIs
  <1>2. PICK q, u : q = parent /\ u = tree'
    OBVIOUS
  <1>3. Tree(w, sub, X) /\ q \in X
    BY <1>1, <1>2 DEF Deprived
  <1>4. q \in N0
    BY <1>3, WholeIs, SetsAre
  <1>5. w.parent[q] \in N0
    BY <1>3, ParentIs
  <1>6. Lacking(u, sub, b, X, q, w.parent[q]) /\ Locals(q, NULL, w.parent[q])
    BY <1>1, <1>2
  <1>7. QED
    BY <1>1, <1>2, <1>4, <1>5, <1>6, RemoveColorKeeps

\* RB_REMOVE_COLOR, with a sibling that has a red child.
LEMMA RotateParentKeeps ==
  ASSUME RInv, RotateParent
  PROVE  RInv'
  <1>1. PICK f, w, s, X, q : /\ f = Deficit /\ w = RotatedTree /\ s = Sibling
                             /\ X = content \ {call.arg} /\ q = parent
    OBVIOUS
  <1>2. PICK near, far : near = w.child[s][f] /\ far = w.child[s][Opp(f)]
    OBVIOUS
  <1>3. PICK t, z, u : /\ t = (IF IsRed(w, far) THEN w ELSE Bent(w, near, s, f))
                       /\ z = t.child[q][Opp(f)]
                       /\ u = tree'
    OBVIOUS
  <1>4. /\ LacksBlack
        /\ IsRed(w, near) \/ IsRed(w, far)
        /\ u = Rotate(Healed(t, q, z, f), q, f) /\ Locals(u.root, NULL, q)
        /\ UNCHANGED <<pc, call, content, loop>>
    BY Zenon, <1>1, <1>2, <1>3 DEF RotateParent, Bent, RB_SET_BLACKRED, Healed
  <1>5. pc = "remove_color"
    BY <1>4 DEF LacksBlack
  <1>6. /\ \E sub, bh : Deprived(w, sub, bh, X, elm, q, f)
        /\ s = w.child[q][Opp(f)] /\ Own(w, s) = 1
    BY <1>1, <1>4, RotatedIs
  <1>7. PICK e : e = elm
    OBVIOUS
  <1>8. PICK sub, bh : Deprived(w, sub, bh, X, e, q, f)
    BY <1>6, <1>7
  <1>9. \E new, b, y : Deprived(t, new, b, X, e, q, f) /\ FarIsRed(t, q, f, z, y)
    <2>1. CASE IsRed(w, far)
      <3>1. t = w /\ z = s
        BY <1>3, <1>6, <2>1
      <3>2. FarIsRed(t, q, f, z, far)
        BY <1>2, <1>6, <2>1, <3>1 DEF FarIsRed
      <3>3. Deprived(t, sub, bh, X, e, q, f)
        BY <1>8, <3>1
      <3>4. QED
        BY <3>2, <3>3
    <2>2. CASE ~IsRed(w, far)
      <3>1. t = Bent(w, near, s, f)
        BY <1>3, <2>2
      <3>2. NearIsRed(w, q, f, s, near)
        BY <1>2, <1>4, <1>6, <2>2 DEF NearIsRed
      <3>3. /\ \E new, b : Deprived(t, new, b, X, e, q, f)
            /\ t.child[q][Opp(f)] = near /\ Own(t, near) = 1
            /\ t.child[near][Opp(f)] = s /\ IsRed(t, s)
        BY <1>8, <3>1, <3>2, BentKeeps
      <3>4. z = near
        BY <1>3, <3>3
      <3>5. FarIsRed(t, q, f, z, s)
        BY <3>3, <3>4 DEF FarIsRed
      <3>6. QED
        BY <3>3, <3>5
    <2>3. QED
      BY <2>1, <2>2
  <1>10. PICK new, b, y : Deprived(t, new, b, X, e, q, f) /\ FarIsRed(t, q, f, z, y)
    BY <1>9
  <1>11. PICK h : h = Healed(t, q, z, f)
    OBVIOUS
  <1>12. u = Rotate(h, q, f)
    BY <1>4, <1>11
  <1>13. PICK sub2, bh2 : Lacking(u, sub2, bh2, X, u.root, q)
    BY <1>10, <1>11, <1>12, HealKeeps
  <1>14. u.root \in N0
    BY <1>13, WholeIs DEF Lacking
  <1>15. q \in N0
    BY <1>1, <1>5, RemoveColorIs
  <1>16. QED
    BY <1>1, <1>3, <1>4, <1>5, <1>13, <1>14, <1>15, RemoveColorKeeps

\* The end of RB_REMOVE.
LEMMA RemoveReturnKeeps ==
  ASSUME RInv, RemoveReturn
  PROVE  RInv'
  <1>1. /\ pc = "remove_color"
        /\ IsRed(tree, elm) \/ elm = tree.root
        /\ tree' = SetColor(tree, elm, "black")
        /\ content' = content \ {call.arg} /\ Return(call.arg)
    BY DEF RemoveReturn, LacksBlack
  <1>2. PICK sub, bh : Lacking(tree, sub, bh, content \ {call.arg}, elm, parent)
    BY <1>1, RemoveColorIs
  <1>3. PICK u : u = tree'
    OBVIOUS
  <1>4. PICK b : Standing(u, sub, b, content \ {call.arg})
    BY <1>1, <1>2, <1>3, RemoveEnds
  <1>5. Standing(tree, sub, b, content)'
    BY <1>1, <1>3, <1>4
  <1>6. call.arg \in N0
    BY <1>1, RemoveColorIs
  <1>7. QED
    BY <1>1, <1>5, <1>6, ChangedKeeps

-----------------------------------------------------------------------------
(* The caller's loop, and all steps together.                              *)

\* Nothing but the caller's loop goes on.
LEMMA RestKeeps ==
  ASSUME RInv, UNCHANGED <<tree, pc, elm, tmp, parent, call, content>>
  PROVE  CallInv' /\ Distinct' /\ Shaped'
  <1>1. /\ tree' = tree /\ pc' = pc /\ elm' = elm /\ tmp' = tmp /\ parent' = parent
        /\ call' = call /\ content' = content
    OBVIOUS
  <1>2. CallInv'
    BY <1>1 DEF RInv, CallInv
  <1>3. Distinct'
    BY <1>1 DEF RInv, Distinct
  <1>4. PICK sub, bh : ShapeIs(sub, bh)
    BY DEF RInv, Shaped
  <1>5. Quiet' <=> Quiet
    BY <1>1 DEF Quiet
  <1>6. StepDir' = StepDir /\ MinMaxDir' = MinMaxDir
    BY <1>1 DEF StepDir, MinMaxDir
  <1>7. Quiet => Standing(tree, sub, bh, content)'
    BY <1>1, <1>4 DEF ShapeIs
  <1>8. /\ Inserting(sub)' <=> Inserting(sub)
        /\ Finding(sub)' <=> Finding(sub)
        /\ NFinding(sub)' <=> NFinding(sub)
        /\ MinMaxing(sub)' <=> MinMaxing(sub)
    <2>1. Inserting(sub)' <=> Inserting(sub)
      BY <1>1 DEF Inserting
    <2>2. Finding(sub)' <=> Finding(sub)
      BY <1>1 DEF Finding
    <2>3. NFinding(sub)' <=> NFinding(sub)
      BY <1>1 DEF NFinding
    <2>4. MinMaxing(sub)' <=> MinMaxing(sub)
      BY <1>1, <1>6 DEF MinMaxing
    <2>5. QED
      BY <2>1, <2>2, <2>3, <2>4
  <1>9. /\ Descending(sub, call.arg, StepDir)' <=> Descending(sub, call.arg, StepDir)
        /\ Descending(sub, call.arg, "R")' <=> Descending(sub, call.arg, "R")
        /\ Ascending(sub, call.arg, StepDir)' <=> Ascending(sub, call.arg, StepDir)
    <2>1. Descending(sub, call.arg, StepDir)' <=> Descending(sub, call.arg, StepDir)
      BY <1>1, <1>6 DEF Descending
    <2>2. Descending(sub, call.arg, "R")' <=> Descending(sub, call.arg, "R")
      BY <1>1 DEF Descending
    <2>3. Ascending(sub, call.arg, StepDir)' <=> Ascending(sub, call.arg, StepDir)
      BY <1>1, <1>6 DEF Ascending
    <2>4. QED
      BY <2>1, <2>2, <2>3
  <1>10. PlaceIsRight(sub)' <=> PlaceIsRight(sub)
    <2>1. /\ Left(tree, call.arg)' = Left(tree, call.arg)
          /\ Right(tree, call.arg)' = Right(tree, call.arg)
          /\ Left(tree, elm)' = Left(tree, elm) /\ Right(tree, elm)' = Right(tree, elm)
      BY <1>1 DEF Left, Right
    <2>2. QED
      BY <1>1, <1>8, <1>9, <2>1 DEF PlaceIsRight
  <1>11. pc = "insert_color" => Reddened(tree, sub, bh, content \cup {call.arg}, elm)'
    BY <1>1, <1>4 DEF ShapeIs
  <1>12. pc = "remove_color" => Lacking(tree, sub, bh, content \ {call.arg}, elm, parent)'
    BY <1>1, <1>4 DEF ShapeIs
  <1>13. Quiet => PlaceIsRight(sub)'
    BY <1>4, <1>10 DEF ShapeIs
  <1>14. ShapeIs(sub, bh)'
    BY <1>1, <1>5, <1>7, <1>11, <1>12, <1>13 DEF ShapeIs
  <1>15. QED
    BY <1>2, <1>3, <1>14 DEF Shaped

\* Steps that change nothing.
LEMMA StutterKeeps ==
  ASSUME RInv, UNCHANGED vars
  PROVE  RInv'
  <1>1. UNCHANGED <<tree, pc, elm, tmp, parent, call, content>> /\ loop' = loop
    BY DEF vars
  <1>2. CallInv' /\ Distinct' /\ Shaped'
    BY <1>1, RestKeeps
  <1>3. LoopInv'
    <2>1. LoopInv /\ call' = call /\ content' = content /\ pc' = pc
      BY <1>1 DEF RInv
    <2>2. /\ IsNext(content, loop.d, loop.x, loop.y)' <=> IsNext(content, loop.d, loop.x, loop.y)
          /\ IsNext(content, loop.d, loop.x, call.ret)'
               <=> IsNext(content, loop.d, loop.x, call.ret)
      BY <1>1, <2>1
    <2>3. QED
      BY <1>1, <2>1, <2>2 DEF LoopInv
  <1>4. QED
    BY <1>2, <1>3 DEF RInv

\* A call outside a loop.
LEMMA InvokeKeeps ==
  ASSUME RInv, Invoke
  PROVE  RInv'
  <1>1. loop.at = "off" /\ loop' = loop
    BY DEF Invoke
  <1>2. LoopInv'
    BY <1>1 DEF RInv, LoopInv
  <1>3. CallInv' /\ Distinct' /\ Shaped'
    <2>1. CASE \E n \in Nodes : CallInsert(n) \/ CallFind(n) \/ CallNfind(n)
      BY <2>1, CallKeyKeeps
    <2>2. CASE \E n \in content : CallRemove(n)
      BY <2>2, CallRemoveKeeps
    <2>3. CASE \E n \in content : \E d \in Dir : CallStep(n, d)
      BY <2>3, CallStepKeeps
    <2>4. CASE \E d \in Dir : CallMinMax(d)
      BY <2>4, CallMinMaxKeeps
    <2>5. QED
      BY <2>1, <2>2, <2>3, <2>4 DEF Invoke
  <1>4. QED
    BY <1>2, <1>3 DEF RInv

\* The beginnings of a loop.
LEMMA ForeachKeeps ==
  ASSUME RInv, NEW d \in Dir
  PROVE  /\ Foreach(d) => RInv'
         /\ \A n \in Nodes : ForeachFrom(d, n) => RInv'
  <1>1. ASSUME Foreach(d)
        PROVE  RInv'
    <2>1. CallMinMax(Opp(d)) /\ loop' = [at |-> "first", d |-> d, x |-> NULL, y |-> NULL]
      BY <1>1 DEF Foreach
    <2>2. CallInv' /\ Distinct' /\ Shaped'
      BY <2>1, CallMinMaxKeeps, OppIs
    <2>3. pc' = "minmax" /\ call'.op \in {"min", "max"}
      BY <2>1 DEF CallMinMax, Start, MinMaxOp
    <2>4. LoopInv'
      BY <2>1, <2>3, SetsAre DEF LoopInv
    <2>5. QED
      BY <2>2, <2>4 DEF RInv
  <1>2. ASSUME NEW n \in Nodes, ForeachFrom(d, n)
        PROVE  RInv'
    <2>1. /\ CallStep(n, d) /\ n \in content
          /\ loop' = [at |-> "next", d |-> d, x |-> n, y |-> NULL]
      BY <1>2 DEF ForeachFrom
    <2>2. /\ CallInv' /\ Distinct' /\ Shaped'
          /\ call'.op = StepOp(d) /\ call'.arg = n /\ pc' \in {"down", "up"}
          /\ content' = content
      BY <2>1, CallStepKeeps
    <2>3. LoopInv'
      BY <2>1, <2>2, SetsAre DEF LoopInv
    <2>4. QED
      BY <2>2, <2>3 DEF RInv
  <1>3. QED
    BY <1>1, <1>2

\* The loop goes on with a node, or ends.
LEMMA VisitKeeps ==
  ASSUME RInv, NEW x \in content \cup {NULL}, Visit(x)
  PROVE  RInv'
  <1>1. LoopInv /\ content \in SUBSET Nodes /\ NULL \notin content
    BY SetsAre DEF RInv, CallInv
  <1>2. loop \in [at : {"off", "first", "next", "body"}, d : Dir, x : N0, y : N0]
    BY <1>1 DEF LoopInv
  <1>3. CASE x = NULL
    <2>1. loop' = NoLoop /\ UNCHANGED <<tree, pc, elm, tmp, parent, call, content>>
      BY <1>3 DEF Visit
    <2>2. CallInv' /\ Distinct' /\ Shaped'
      BY <2>1, RestKeeps
    <2>3. LoopInv'
      BY <2>1, SetsAre, SidesAre DEF LoopInv, NoLoop
    <2>4. QED
      BY <2>2, <2>3 DEF RInv
  <1>4. CASE x # NULL
    <2>1. /\ CallStep(x, loop.d) /\ loop' = [loop EXCEPT !.at = "next", !.x = x]
          /\ x \in content /\ loop.d \in Dir
      BY <1>2, <1>4 DEF Visit
    <2>2. /\ CallInv' /\ Distinct' /\ Shaped'
          /\ call'.op = StepOp(loop.d) /\ call'.arg = x /\ pc' \in {"down", "up"}
          /\ content' = content
      BY <2>1, CallStepKeeps
    <2>3. /\ loop'.at = "next" /\ loop'.x = x /\ loop'.d = loop.d
          /\ loop' \in [at : {"off", "first", "next", "body"}, d : Dir, x : N0, y : N0]
      <3>1. x \in N0
        BY <1>1, <2>1, SetsAre
      <3>2. PICK a : a = "next"
        OBVIOUS
      <3>3. a \in {"off", "first", "next", "body"} /\ loop' = [loop EXCEPT !.at = a, !.x = x]
        BY <2>1, <3>2
      <3>4. /\ loop'.at = a /\ loop'.x = x /\ loop'.d = loop.d
            /\ loop' \in [at : {"off", "first", "next", "body"}, d : Dir, x : N0, y : N0]
        BY <1>2, <3>1, <3>3
      <3>5. QED
        BY <3>2, <3>4
    <2>4. LoopInv'
      BY <2>1, <2>2, <2>3 DEF LoopInv
    <2>5. QED
      BY <2>2, <2>4 DEF RInv
  <1>5. QED
    BY <1>3, <1>4

\* The rest of the loop.
LEMMA IterateKeeps ==
  ASSUME RInv, ForeachFirst \/ ForeachBody \/ ForeachRemove \/ ForeachNext
  PROVE  RInv'
  <1>1. /\ LoopInv /\ CallInv
        /\ loop \in [at : {"off", "first", "next", "body"}, d : Dir, x : N0, y : N0]
    BY DEF RInv, LoopInv
  <1>2. CASE ForeachFirst
    <2>1. Visit(call.ret) /\ call.ret \in content \cup {NULL}
      BY <1>1, <1>2 DEF ForeachFirst, LoopInv
    <2>2. QED
      BY <2>1, VisitKeeps
  <1>3. CASE ForeachBody
    <2>1. /\ pc = "idle" /\ loop.at = "next"
          /\ loop' = [loop EXCEPT !.at = "body", !.y = call.ret]
          /\ UNCHANGED <<tree, pc, elm, tmp, parent, call, content>>
      BY <1>3 DEF ForeachBody
    <2>2. CallInv' /\ Distinct' /\ Shaped'
      BY <2>1, RestKeeps
    <2>3. loop.x \in content /\ IsNext(content, loop.d, loop.x, call.ret)
      BY <1>1, <2>1 DEF LoopInv
    <2>4. call.ret \in N0 /\ content \in SUBSET Nodes
      BY <1>1, <2>1 DEF CallInv
    <2>5. /\ loop'.at = "body" /\ loop'.x = loop.x /\ loop'.d = loop.d /\ loop'.y = call.ret
          /\ loop' \in [at : {"off", "first", "next", "body"}, d : Dir, x : N0, y : N0]
      <3>1. PICK a, y : a = "body" /\ y = call.ret
        OBVIOUS
      <3>2. /\ a \in {"off", "first", "next", "body"} /\ y \in N0
            /\ loop' = [loop EXCEPT !.at = a, !.y = y]
        BY <2>1, <2>4, <3>1
      <3>3. /\ loop'.at = a /\ loop'.x = loop.x /\ loop'.d = loop.d /\ loop'.y = y
            /\ loop' \in [at : {"off", "first", "next", "body"}, d : Dir, x : N0, y : N0]
        BY <1>1, <3>2
      <3>4. QED
        BY <3>1, <3>3
    <2>6. IsNext(content, loop.d, loop.x, loop.y)'
      BY <2>1, <2>3, <2>5
    <2>7. LoopInv'
      BY <2>1, <2>3, <2>4, <2>5, <2>6 DEF LoopInv
    <2>8. QED
      BY <2>2, <2>7 DEF RInv
  <1>4. CASE ForeachRemove
    <2>1. loop.at = "body" /\ loop.x \in content /\ CallRemove(loop.x) /\ loop' = loop
      BY <1>4 DEF ForeachRemove
    <2>2. /\ CallInv' /\ Distinct' /\ Shaped'
          /\ call'.op = "remove" /\ call'.arg = loop.x /\ content' = content
      BY <2>1, CallRemoveKeeps
    <2>3. IsNext(content, loop.d, loop.x, loop.y)'
      BY <1>1, <2>1, <2>2 DEF LoopInv
    <2>4. LoopInv'
      BY <1>1, <2>1, <2>2, <2>3 DEF LoopInv
    <2>5. QED
      BY <2>2, <2>4 DEF RInv
  <1>5. CASE ForeachNext
    <2>1. Visit(loop.y) /\ loop.at = "body"
      BY <1>5 DEF ForeachNext
    <2>2. loop.y \in content \cup {NULL}
      BY <1>1, <2>1 DEF LoopInv, IsNext
    <2>3. QED
      BY <2>1, <2>2, VisitKeeps
  <1>6. QED
    BY <1>2, <1>3, <1>4, <1>5

\* Every step keeps the invariant.
LEMMA NextKeeps ==
  ASSUME RInv, [Next]_vars
  PROVE  RInv'
  <1>1. CASE Invoke
    BY <1>1, InvokeKeeps
  <1>2. CASE Work
    <2>1. CASE InsertDescend
      BY <2>1, InsertDescendKeeps
    <2>2. CASE InsertFound \/ FindReturn \/ NfindReturn \/ MinMaxReturn
      BY <2>2, SearchReturns
    <2>3. CASE InsertLink
      BY <2>3, InsertLinkKeeps
    <2>4. CASE RecolorUncle
      BY <2>4, RecolorUncleKeeps
    <2>5. CASE RotateGrandparent
      BY <2>5, RotateGrandparentKeeps
    <2>6. CASE InsertReturn
      BY <2>6, InsertReturnKeeps
    <2>7. CASE Unlink
      BY <2>7, UnlinkKeepsAll
    <2>8. CASE FindSuccessor
      BY <2>8, FindSuccessorKeeps
    <2>9. CASE SpliceSuccessor
      BY <2>9, SpliceSuccessorKeeps
    <2>10. CASE RecolorSibling
      BY <2>10, RecolorSiblingKeeps
    <2>11. CASE RotateParent
      BY <2>11, RotateParentKeeps
    <2>12. CASE RemoveReturn
      BY <2>12, RemoveReturnKeeps
    <2>13. CASE FindDescend
      BY <2>13, FindDescendKeeps
    <2>14. CASE NfindDescend
      BY <2>14, NfindDescendKeeps
    <2>15. CASE MinMaxDescend
      BY <2>15, MinMaxDescendKeeps
    <2>16. CASE StepDown
      BY <2>16, StepDownKeeps
    <2>17. CASE StepUp
      BY <2>17, StepUpKeeps
    <2>18. QED
      BY <1>2, <2>1, <2>2, <2>3, <2>4, <2>5, <2>6, <2>7, <2>8, <2>9, <2>10, <2>11, <2>12,
         <2>13, <2>14, <2>15, <2>16, <2>17 DEF Work
  <1>3. CASE Iterate
    <2>1. CASE \E d \in Dir : Foreach(d) \/ \E n \in Nodes : ForeachFrom(d, n)
      BY <2>1, ForeachKeeps
    <2>2. CASE ForeachFirst \/ ForeachBody \/ ForeachRemove \/ ForeachNext
      BY <2>2, IterateKeeps
    <2>3. QED
      BY <1>3, <2>1, <2>2 DEF Iterate
  <1>4. CASE UNCHANGED vars
    BY <1>4, StutterKeeps
  <1>5. QED
    BY <1>1, <1>2, <1>3, <1>4 DEF Next

\* Between any two steps of the macros the links form a search tree of the nodes
\* they should hold, and the colours are right but for the one flaw that the loop
\* under way repairs: a red node below a red one after an insertion, a black node
\* too few on some paths after a removal.
THEOREM RedBlackInvariant == Spec => []RInv
  <1>1. Init => RInv
    BY InitIs
  <1>2. RInv /\ [Next]_vars => RInv'
    BY NextKeeps
  <1>3. QED
    BY <1>1, <1>2, PTL DEF Spec

\* Links, colours, locals and results keep their types.
THEOREM TypesStay == Spec => []TypeOK
  <1>1. RInv => TypeOK
    <2>1. SUFFICES ASSUME RInv
                   PROVE  TypeOK
      OBVIOUS
    <2>2. CallInv /\ LoopInv
      BY <2>1 DEF RInv
    <2>3. PICK sub, bh : ShapeIs(sub, bh)
      BY <2>1 DEF RInv, Shaped
    <2>4. \E X : Tree(tree, sub, X)
      BY <2>2, <2>3 DEF ShapeIs, Quiet, Standing, Reddened, Lacking
    <2>5. tree \in Trees
      BY <2>4, WholeIs
    <2>6. /\ tree.root \in N0
          /\ tree.child \in [Nodes -> [Dir -> N0 \cup {STALE}]]
          /\ tree.parent \in [Nodes -> N0 \cup {STALE}]
          /\ tree.color \in [Nodes -> {"red", "black"}]
      BY <2>5 DEF Trees, Links, Colors
    <2>7. call.arg \in N0 /\ call.ret \in N0 \cup {Pending}
      BY <2>2 DEF CallInv
    <2>8. loop \in [at : {"off", "first", "next", "body"}, d : Dir, x : N0, y : N0]
      BY <2>2 DEF LoopInv
    <2>9. /\ pc \in {"idle", "insert", "insert_color", "unlink", "successor", "remove_color",
                      "find", "nfind", "minmax", "down", "up"}
          /\ elm \in N0 /\ tmp \in N0 /\ parent \in N0 /\ content \subseteq Nodes
      BY <2>2 DEF CallInv
    <2>10. QED
      BY <2>6, <2>7, <2>8, <2>9 DEF TypeOK, N0
  <1>2. QED
    BY <1>1, RedBlackInvariant, PTL

\* tree.h:748-751: the node a safe loop has read before its body is still the
\* next one when the body has removed the node it visits.
THEOREM CursorIsSafe == Spec => []SafeCursor
  <1>1. RInv => SafeCursor
    <2>1. SUFFICES ASSUME RInv, loop.at = "body"
                   PROVE  SafeCursor
      BY DEF SafeCursor
    <2>2. loop.d \in Dir /\ loop.x \in Nodes /\ IsNext(content, loop.d, loop.x, loop.y)
      BY <2>1 DEF RInv, LoopInv
    <2>3. content \in SUBSET Nodes
      BY <2>1 DEF RInv, CallInv
    <2>4. PICK X, d, x, y : X = content /\ d = loop.d /\ x = loop.x /\ y = loop.y
      OBVIOUS
    <2>5. PICK S : S = {n \in X : IF d = "R" THEN Key[n] > Key[x] ELSE Key[n] < Key[x]}
      OBVIOUS
    <2>6. \A n, m \in Nodes : (IF d = "R" THEN Key[n] > Key[m] ELSE Key[n] < Key[m])
                                 <=> Before(d, n, m)
      BY <2>2, <2>4, KeyAssumption DEF Before, Dir
    <2>7. \A n \in X : n \in S <=> Before(d, n, x)
      BY <2>2, <2>3, <2>4, <2>5, <2>6
    <2>8. S \subseteq X
      BY <2>5
    <2>9. IF y = NULL THEN S = {}
          ELSE /\ y \in S
               /\ \A n \in S \ {y} : IF d = "R" THEN Key[n] > Key[y] ELSE Key[n] < Key[y]
      <3>1. CASE y = NULL
        BY <2>2, <2>4, <2>7, <2>8, <3>1 DEF IsNext
      <3>2. CASE y # NULL
        <4>1. y \in X /\ Before(d, y, x)
          BY <2>2, <2>4, <3>2 DEF IsNext
        <4>2. \A n \in X : Before(d, n, x) => n = y \/ Before(d, n, y)
          BY <2>2, <2>4, <3>2 DEF IsNext
        <4>3. \A n \in S \ {y} : Before(d, n, y) /\ n \in Nodes /\ y \in Nodes
          BY <2>3, <2>4, <2>7, <2>8, <4>1, <4>2
        <4>4. \A n \in S \ {y} : IF d = "R" THEN Key[n] > Key[y] ELSE Key[n] < Key[y]
          BY <2>6, <4>3
        <4>5. QED
          BY <2>7, <3>2, <4>1, <4>4
      <3>3. QED
        BY <3>1, <3>2
    <2>10. QED
      BY <2>4, <2>5, <2>9 DEF SafeCursor
  <1>2. QED
    BY <1>1, RedBlackInvariant, PTL

-----------------------------------------------------------------------------
(* The red-black tree implements the ordered set.                          *)

\* The only least node of a set is its least node.
LEMMA LeastIs ==
  ASSUME NEW S \in SUBSET Nodes, NEW r \in S,
         \A m \in S : Key[r] <= Key[m] /\ (Key[m] = Key[r] => m = r)
  PROVE  Set!Least(S) = r
  <1>1. \A m \in S : Key[m] \in Int
    BY KeyAssumption
  <1> DEFINE P(n) == n \in S /\ \A m \in S : Key[n] <= Key[m]
  <1>2. P(r)
    OBVIOUS
  <1>3. \A n : P(n) => n = r
    BY <1>1
  <1>4. Set!Least(S) = CHOOSE n \in S : \A m \in S : Key[n] <= Key[m]
    BY DEF Set!Least
  <1>5. QED
    BY <1>2, <1>3, <1>4

\* The same for the greatest.
LEMMA GreatestIs ==
  ASSUME NEW S \in SUBSET Nodes, NEW r \in S,
         \A m \in S : Key[r] >= Key[m] /\ (Key[m] = Key[r] => m = r)
  PROVE  Set!Greatest(S) = r
  <1>1. \A m \in S : Key[m] \in Int
    BY KeyAssumption
  <1> DEFINE P(n) == n \in S /\ \A m \in S : Key[n] >= Key[m]
  <1>2. P(r)
    OBVIOUS
  <1>3. \A n : P(n) => n = r
    BY <1>1
  <1>4. Set!Greatest(S) = CHOOSE n \in S : \A m \in S : Key[n] >= Key[m]
    BY DEF Set!Greatest
  <1>5. QED
    BY <1>2, <1>3, <1>4

\* Nothing is the least of nothing.
LEMMA NoLeast ==
  Set!Least({}) = NULL /\ Set!Greatest({}) = NULL
  BY DEF Set!Least, Set!Greatest

\* The node that no other node of S is before, on side d: the least or the greatest.
LEMMA EndIs ==
  ASSUME NEW S \in SUBSET Nodes, NEW d \in Dir, NEW r \in S,
         \A m \in S : m = r \/ Before(d, r, m)
  PROVE  /\ d = "L" => Set!Least(S) = r
         /\ d = "R" => Set!Greatest(S) = r
  <1>1. \A m \in S : Key[m] \in Int
    BY KeyAssumption
  <1>2. CASE d = "L"
    <2>1. \A m \in S : Key[r] <= Key[m] /\ (Key[m] = Key[r] => m = r)
      BY <1>1, <1>2 DEF Before
    <2>2. QED
      BY <1>2, <2>1, LeastIs
  <1>3. CASE d = "R"
    <2>1. \A m \in S : Key[r] >= Key[m] /\ (Key[m] = Key[r] => m = r)
      BY <1>1, <1>3 DEF Before
    <2>2. QED
      BY <1>3, <2>1, GreatestIs
  <1>4. QED
    BY <1>2, <1>3, SidesAre

\* A call is the set's.
LEMMA StartRefines ==
  ASSUME RInv, NEW op, NEW arg, NEW at, Legal(op, arg, at), Start(op, arg, at)
  PROVE  Set!Next
  <1>1. /\ pc = "idle" /\ content' = content
        /\ call' = [op |-> op, arg |-> arg, ret |-> Pending]
    BY DEF Start
  <1>2. call.ret # Pending /\ content \subseteq Nodes
    BY <1>1 DEF RInv, CallInv
  <1>3. Set!Legal(op, arg) /\ op \in Set!Ops /\ arg \in Nodes \cup {NULL}
    BY <1>2 DEF Legal, Set!Legal, Set!Ops
  <1>4. Set!Invoke(op, arg)
    BY <1>1, <1>2, <1>3 DEF Set!Invoke
  <1>5. QED
    BY <1>3, <1>4 DEF Set!Next

\* The calls there are.
LEMMA CallsAre ==
  /\ \A n \in Nodes : CallInsert(n) => \E op, arg, at : Legal(op, arg, at) /\ Start(op, arg, at)
  /\ \A n \in Nodes : CallFind(n) => \E op, arg, at : Legal(op, arg, at) /\ Start(op, arg, at)
  /\ \A n \in Nodes : CallNfind(n) => \E op, arg, at : Legal(op, arg, at) /\ Start(op, arg, at)
  /\ \A d \in Dir : CallMinMax(d) => \E op, arg, at : Legal(op, arg, at) /\ Start(op, arg, at)
  /\ \A n \in content, d \in Dir :
       CallStep(n, d) => \E op, arg, at : Legal(op, arg, at) /\ Start(op, arg, at)
  /\ \A n \in content :
       CallRemove(n) => \E op, arg, at : Legal(op, arg, at) /\ Start(op, arg, at)
  <1>1. ASSUME NEW n \in Nodes, CallInsert(n)
        PROVE  \E op, arg, at : Legal(op, arg, at) /\ Start(op, arg, at)
    <2>1. Legal("insert", n, "insert") /\ Start("insert", n, "insert")
      BY <1>1 DEF CallInsert, Legal
    <2>2. QED
      BY <2>1
  <1>2. ASSUME NEW n \in Nodes, CallFind(n)
        PROVE  \E op, arg, at : Legal(op, arg, at) /\ Start(op, arg, at)
    <2>1. Legal("find", n, "find") /\ Start("find", n, "find")
      BY <1>2 DEF CallFind, Legal
    <2>2. QED
      BY <2>1
  <1>3. ASSUME NEW n \in Nodes, CallNfind(n)
        PROVE  \E op, arg, at : Legal(op, arg, at) /\ Start(op, arg, at)
    <2>1. Legal("nfind", n, "nfind") /\ Start("nfind", n, "nfind")
      BY <1>3 DEF CallNfind, Legal
    <2>2. QED
      BY <2>1
  <1>4. ASSUME NEW d \in Dir, CallMinMax(d)
        PROVE  \E op, arg, at : Legal(op, arg, at) /\ Start(op, arg, at)
    <2>1. Legal(MinMaxOp(d), NULL, "minmax")
      BY DEF Legal, MinMaxOp
    <2>2. Start(MinMaxOp(d), NULL, "minmax")
      BY <1>4 DEF CallMinMax
    <2>3. QED
      BY <2>1, <2>2
  <1>5. ASSUME NEW n \in content, NEW d \in Dir, CallStep(n, d)
        PROVE  \E op, arg, at : Legal(op, arg, at) /\ Start(op, arg, at)
    <2>1. Legal(StepOp(d), n, "down") /\ Legal(StepOp(d), n, "up")
      BY DEF Legal, StepOp
    <2>2. Start(StepOp(d), n, "down") \/ Start(StepOp(d), n, "up")
      BY <1>5 DEF CallStep
    <2>3. QED
      BY <2>1, <2>2
  <1>6. ASSUME NEW n \in content, CallRemove(n)
        PROVE  \E op, arg, at : Legal(op, arg, at) /\ Start(op, arg, at)
    <2>1. Legal("remove", n, "successor") /\ Legal("remove", n, "unlink")
      BY DEF Legal
    <2>2. Start("remove", n, "successor") \/ Start("remove", n, "unlink")
      BY <1>6 DEF CallRemove
    <2>3. QED
      BY <2>1, <2>2
  <1>7. QED
    BY <1>1, <1>2, <1>3, <1>4, <1>5, <1>6

\* Outside a loop and in one, the caller makes these calls.
LEMMA CallsRefine ==
  ASSUME RInv, Invoke \/ Iterate
  PROVE  Set!Next \/ UNCHANGED <<content, call>>
  <1>1. SUFFICES ASSUME ~UNCHANGED <<content, call>>
                 PROVE  \E op, arg, at : Legal(op, arg, at) /\ Start(op, arg, at)
    BY StartRefines
  <1>2. LoopInv /\ (loop.at # "off" => loop.d \in Dir)
    BY DEF RInv, LoopInv
  <1>3. CASE Invoke
    <2>1. CASE \E n \in Nodes : CallInsert(n) \/ CallFind(n) \/ CallNfind(n)
      BY <2>1, CallsAre
    <2>2. CASE \E n \in content : CallRemove(n)
      BY <2>2, CallsAre
    <2>3. CASE \E n \in content : \E d \in Dir : CallStep(n, d)
      BY <2>3, CallsAre
    <2>4. CASE \E d \in Dir : CallMinMax(d)
      BY <2>4, CallsAre
    <2>5. QED
      BY <1>3, <2>1, <2>2, <2>3, <2>4 DEF Invoke
  <1>4. CASE \E d \in Dir : Foreach(d)
    <2>1. PICK d \in Dir : CallMinMax(Opp(d))
      BY <1>4 DEF Foreach
    <2>2. Opp(d) \in Dir
      BY OppIs
    <2>3. QED
      BY <2>1, <2>2, CallsAre
  <1>5. CASE \E d \in Dir : \E n \in Nodes : ForeachFrom(d, n)
    <2>1. PICK d \in Dir, n \in Nodes : CallStep(n, d) /\ n \in content
      BY <1>5 DEF ForeachFrom
    <2>2. QED
      BY <2>1, CallsAre
  <1>6. ASSUME NEW x \in content \cup {NULL}, Visit(x), loop.d \in Dir
        PROVE  \E op, arg, at : Legal(op, arg, at) /\ Start(op, arg, at)
    <2>1. CASE x = NULL
      BY <1>1, <1>6, <2>1 DEF Visit
    <2>2. CASE x # NULL
      <3>1. x \in content /\ CallStep(x, loop.d)
        BY <1>6, <2>2 DEF Visit
      <3>2. QED
        BY <1>6, <3>1, CallsAre
    <2>3. QED
      BY <2>1, <2>2
  <1>7. CASE ForeachFirst
    <2>1. Visit(call.ret) /\ call.ret \in content \cup {NULL} /\ loop.d \in Dir
      BY <1>2, <1>7 DEF ForeachFirst, LoopInv
    <2>2. QED
      BY <1>6, <2>1
  <1>8. CASE ForeachBody
    BY <1>1, <1>8 DEF ForeachBody
  <1>9. CASE ForeachRemove
    <2>1. loop.x \in content /\ CallRemove(loop.x)
      BY <1>9 DEF ForeachRemove
    <2>2. QED
      BY <2>1, CallsAre
  <1>10. CASE ForeachNext
    <2>1. Visit(loop.y) /\ loop.at = "body"
      BY <1>10 DEF ForeachNext
    <2>2. loop.y \in content \cup {NULL} /\ loop.d \in Dir
      BY <1>2, <2>1 DEF LoopInv, IsNext
    <2>3. QED
      BY <1>6, <2>1, <2>2
  <1>11. QED
    BY <1>3, <1>4, <1>5, <1>7, <1>8, <1>9, <1>10 DEF Iterate

\* A return with the right result is the set's response.
LEMMA RespondIs ==
  ASSUME RInv, pc # "idle", NEW r, Return(r), Set!Result(call.op, call.arg) = r,
         content' = IF call.op = "remove" THEN {m \in content : Key[m] # Key[call.arg]}
                    ELSE IF call.op = "insert" /\ r = NULL THEN content \cup {call.arg}
                    ELSE content
  PROVE  Set!Next
  <1>1. call.ret = Pending /\ call \in [op : Ops, arg : N0, ret : N0 \cup {Pending}]
    BY DEF RInv, CallInv
  <1>2. call' = [call EXCEPT !.ret = r]
    BY DEF Return
  <1>3. call'.ret = r
    BY <1>1, <1>2
  <1>4. Set!Respond
    BY <1>1, <1>2, <1>3 DEF Set!Respond
  <1>5. QED
    BY <1>4 DEF Set!Next

\* The one node with the key.
LEMMA KeyIs ==
  ASSUME RInv, NEW n \in content, NEW a \in Nodes, Key[n] = Key[a]
  PROVE  Set!Least({m \in content : Key[m] = Key[a]}) = n
  <1>1. content \in SUBSET Nodes /\ \A m \in content : Key[m] = Key[n] => m = n
    BY DEF RInv, CallInv, Distinct
  <1>2. PICK S : S = {m \in content : Key[m] = Key[a]}
    OBVIOUS
  <1>3. S \in SUBSET Nodes /\ n \in S /\ Key[n] \in Int
    BY <1>1, <1>2, KeyAssumption
  <1>4. \A m \in S : Key[n] <= Key[m] /\ (Key[m] = Key[n] => m = n)
    BY <1>1, <1>2, <1>3
  <1>5. QED
    BY <1>2, <1>3, <1>4, LeastIs

\* RB_INSERT and RB_FIND return.
LEMMA InsertAndFindRefine ==
  ASSUME RInv, InsertFound \/ InsertReturn \/ FindReturn
  PROVE  Set!Next
  <1>1. CallInv /\ pc # "idle" /\ call.op \in {"insert", "find"} /\ call.arg \in Nodes
    BY DEF RInv, CallInv, InsertFound, InsertReturn, FindReturn
  <1>2. PICK S : S = {m \in content : Key[m] = Key[call.arg]}
    OBVIOUS
  <1>3. Set!Result(call.op, call.arg) = Set!Least(S)
    BY <1>1, <1>2 DEF Set!Result
  <1>4. CASE InsertReturn
    <2>1. /\ pc = "insert_color" /\ call.op = "insert" /\ Return(NULL) /\ call.arg \notin content
          /\ content' = content \cup {call.arg}
      BY <1>1, <1>4 DEF InsertReturn, CallInv
    <2>2. PICK sub, bh : Reddened(tree, sub, bh, content \cup {call.arg}, elm)
      BY <2>1, InsertColorIs
    <2>3. PICK X : X = content \cup {call.arg}
      OBVIOUS
    <2>4. Tree(tree, sub, X)
      BY <2>2, <2>3 DEF Reddened
    <2>5. \A n, m \in X : Key[n] = Key[m] => n = m
      BY <2>4, WholeIs
    <2>6. S = {}
      BY <1>2, <2>1, <2>3, <2>5
    <2>7. Set!Result(call.op, call.arg) = NULL
      BY <1>3, <2>6, NoLeast
    <2>8. QED
      BY <1>1, <2>1, <2>7, RespondIs
  <1>5. CASE InsertFound \/ FindReturn
    <2>1. /\ pc \in {"insert", "find"} /\ Return(tmp) /\ content' = content /\ Quiet
          /\ tmp # NULL => Key[elm] = Key[tmp]
          /\ pc = "insert" => tmp # NULL
      BY <1>5 DEF InsertFound, FindReturn, Quiet
    <2>2. PICK sub : PlaceIsRight(sub)
      BY <2>1, QuietIs
    <2>3. /\ elm = call.arg /\ tmp \in content \cup {NULL}
          /\ tmp = NULL => \A m \in content : Key[m] # Key[elm]
      BY <2>1, <2>2 DEF PlaceIsRight, Inserting, Finding, Under
    <2>4. Set!Least(S) = tmp
      <3>1. CASE tmp = NULL
        <4>1. S = {}
          BY <1>2, <2>3, <3>1
        <4>2. QED
          BY <3>1, <4>1, NoLeast
      <3>2. CASE tmp # NULL
        <4>1. tmp \in content /\ Key[tmp] = Key[call.arg]
          BY <2>1, <2>3, <3>2
        <4>2. QED
          BY <1>1, <1>2, <4>1, KeyIs
      <3>3. QED
        BY <3>1, <3>2
    <2>5. call.op = "insert" => tmp # NULL
      BY <1>1, <2>1 DEF CallInv
    <2>6. Set!Result(call.op, call.arg) = tmp
      BY <1>3, <2>4
    <2>7. QED
      BY <1>1, <2>1, <2>5, <2>6, RespondIs
  <1>6. QED
    BY <1>4, <1>5

\* RB_NFIND returns.
LEMMA NfindRefines ==
  ASSUME RInv, NfindReturn
  PROVE  Set!Next
  <1>1. pc = "nfind" /\ Quiet /\ content' = content
    BY DEF NfindReturn, Quiet
  <1>2. CallInv /\ call.op = "nfind" /\ call.arg \in Nodes /\ content \in SUBSET Nodes
    BY <1>1 DEF RInv, CallInv
  <1>3. PICK sub, bh : Standing(tree, sub, bh, content) /\ PlaceIsRight(sub)
    BY <1>1, QuietIs
  <1>4. NFinding(sub) /\ NULL \notin content
    BY <1>1, <1>2, <1>3, SetsAre DEF PlaceIsRight
  <1>5. PICK e, p, S : /\ e = call.arg /\ p = parent
                       /\ S = {m \in content : Key[m] >= Key[e]}
    OBVIOUS
  <1>6. Set!Result(call.op, call.arg) = Set!Least(S)
    BY <1>2, <1>5 DEF Set!Result
  <1>7. S \in SUBSET Nodes /\ Key[e] \in Int /\ \A m \in content : Key[m] \in Int
    BY <1>2, <1>5, KeyAssumption
  <1>8. \A n, m \in content : Key[n] = Key[m] => n = m
    BY DEF RInv, Distinct
  <1>9. CASE tmp = NULL /\ Return(parent)
    <2>1. /\ p \in content \cup {NULL} /\ (p # NULL => Key[e] < Key[p])
          /\ \A m \in content : Key[m] < Key[e] \/ (p # NULL /\ Key[p] <= Key[m])
      BY <1>4, <1>5, <1>9 DEF NFinding, Under
    <2>2. CASE p = NULL
      <3>1. S = {}
        BY <1>5, <1>7, <2>1, <2>2
      <3>2. Set!Result(call.op, call.arg) = p
        BY <1>6, <2>2, <3>1, NoLeast
      <3>3. QED
        BY <1>1, <1>2, <1>5, <1>9, <3>2, RespondIs
    <2>3. CASE p # NULL
      <3>1. p \in S
        BY <1>5, <1>7, <2>1, <2>3
      <3>2. \A m \in S : Key[p] <= Key[m] /\ (Key[m] = Key[p] => m = p)
        BY <1>5, <1>7, <1>8, <2>1, <2>3
      <3>3. Set!Result(call.op, call.arg) = p
        BY <1>6, <1>7, <3>1, <3>2, LeastIs
      <3>4. QED
        BY <1>1, <1>2, <1>5, <1>9, <3>3, RespondIs
    <2>4. QED
      BY <2>2, <2>3
  <1>10. CASE tmp # NULL /\ Key[elm] = Key[tmp] /\ Return(tmp)
    <2>1. tmp \in content /\ Key[tmp] = Key[e]
      BY <1>4, <1>5, <1>10 DEF NFinding
    <2>2. tmp \in S
      BY <1>5, <1>7, <2>1
    <2>3. \A m \in S : Key[tmp] <= Key[m] /\ (Key[m] = Key[tmp] => m = tmp)
      BY <1>5, <1>7, <1>8, <2>1
    <2>4. Set!Result(call.op, call.arg) = tmp
      BY <1>6, <1>7, <2>2, <2>3, LeastIs
    <2>5. QED
      BY <1>1, <1>2, <1>10, <2>4, RespondIs
  <1>11. QED
    BY <1>9, <1>10 DEF NfindReturn

\* RB_MIN and RB_MAX return.
LEMMA MinMaxRefines ==
  ASSUME RInv, MinMaxReturn
  PROVE  Set!Next
  <1>1. pc = "minmax" /\ Quiet /\ content' = content /\ tmp = NULL /\ Return(parent)
    BY DEF MinMaxReturn, Quiet
  <1>2. CallInv /\ call.op \in {"min", "max"} /\ content \in SUBSET Nodes
    BY <1>1 DEF RInv, CallInv
  <1>3. PICK sub : PlaceIsRight(sub)
    BY <1>1, QuietIs
  <1>4. PICK d : d = MinMaxDir
    OBVIOUS
  <1>5. /\ parent \in content \cup {NULL}
        /\ \A m \in content : m = parent \/ (parent # NULL /\ Before(d, parent, m))
    BY <1>1, <1>3, <1>4 DEF PlaceIsRight, MinMaxing, Under
  <1>6. d \in Dir /\ (call.op = "min" => d = "L") /\ (call.op = "max" => d = "R")
    BY <1>2, <1>4 DEF MinMaxDir, Dir
  <1>7. Set!Result(call.op, call.arg) = parent
    <2>1. CASE parent = NULL
      <3>1. content = {}
        BY <1>2, <1>5, <2>1, SetsAre
      <3>2. QED
        BY <1>2, <2>1, <3>1, NoLeast DEF Set!Result
    <2>2. CASE parent # NULL
      <3>1. parent \in content /\ \A m \in content : m = parent \/ Before(d, parent, m)
        BY <1>5, <2>2
      <3>2. /\ d = "L" => Set!Least(content) = parent
            /\ d = "R" => Set!Greatest(content) = parent
        BY <1>2, <1>6, <3>1, EndIs
      <3>3. QED
        BY <1>2, <1>6, <3>2 DEF Set!Result
    <2>3. QED
      BY <2>1, <2>2
  <1>8. QED
    BY <1>1, <1>2, <1>7, RespondIs

\* The next node is the least of the greater ones, the previous one the greatest
\* of the smaller.
LEMMA NextRefines ==
  ASSUME RInv, pc \in {"down", "up"}, content' = content,
         NEW r, Return(r), IsNext(content, StepDir, call.arg, r)
  PROVE  Set!Next
  <1>1. /\ CallInv /\ call.op \in {"next", "prev"} /\ call.arg \in content
        /\ content \in SUBSET Nodes
    BY DEF RInv, CallInv
  <1>2. PICK d, n : d = StepDir /\ n = call.arg
    OBVIOUS
  <1>3. /\ d \in Dir /\ (call.op = "next" => d = "R") /\ (call.op = "prev" => d = "L")
        /\ n \in content
    BY <1>1, <1>2 DEF StepDir, Dir
  <1>4. PICK S : S = {m \in content : Before(d, m, n)}
    OBVIOUS
  <1>5. /\ call.op = "next" => Set!Result(call.op, call.arg) = Set!Least(S)
        /\ call.op = "prev" => Set!Result(call.op, call.arg) = Set!Greatest(S)
    <2>1. \A m \in content : Key[m] \in Int
      BY <1>1, KeyAssumption
    <2>2. CASE call.op = "next"
      <3>1. S = {m \in content : Key[m] > Key[call.arg]}
        BY <1>1, <1>2, <1>3, <1>4, <2>1, <2>2 DEF Before
      <3>2. QED
        BY <2>2, <3>1 DEF Set!Result
    <2>3. CASE call.op = "prev"
      <3>1. S = {m \in content : Key[m] < Key[call.arg]}
        BY <1>1, <1>2, <1>3, <1>4, <2>1, <2>3 DEF Before
      <3>2. QED
        BY <2>3, <3>1 DEF Set!Result
    <2>4. QED
      BY <1>1, <2>2, <2>3
  <1>6. (call.op = "next" /\ Set!Least(S) = r) \/ (call.op = "prev" /\ Set!Greatest(S) = r)
    <2>1. IsNext(content, d, n, r)
      BY <1>2
    <2>2. CASE r = NULL
      <3>1. S = {}
        BY <1>4, <2>1, <2>2 DEF IsNext
      <3>2. QED
        BY <1>1, <2>2, <3>1, NoLeast
    <2>3. CASE r # NULL
      <3>1. /\ r \in S /\ S \in SUBSET Nodes
            /\ \A m \in S : m = r \/ Before(d, m, r)
        BY <1>1, <1>4, <2>1, <2>3 DEF IsNext
      <3>2. \A m \in S : m = r \/ Before(Opp(d), r, m)
        BY <1>3, <3>1, BeforeIs
      <3>3. /\ Opp(d) = "L" => Set!Least(S) = r
            /\ Opp(d) = "R" => Set!Greatest(S) = r
        BY <1>3, <3>1, <3>2, EndIs, OppIs
      <3>4. QED
        BY <1>1, <1>3, <3>3, SidesAre
    <2>4. QED
      BY <2>2, <2>3
  <1>7. Set!Result(call.op, call.arg) = r
    BY <1>5, <1>6
  <1>8. QED
    BY <1>1, <1>7, RespondIs

\* RB_NEXT and RB_PREV: a step, or the answer.
LEMMA StepsRefine ==
  ASSUME RInv, StepDown \/ StepUp
  PROVE  Set!Next \/ UNCHANGED <<content, call>>
  <1>1. SUFFICES ASSUME ~UNCHANGED <<content, call>>
                 PROVE  Set!Next
    OBVIOUS
  <1>2. pc \in {"down", "up"} /\ Quiet /\ content' = content
    BY DEF StepDown, StepUp, Quiet
  <1>3. loop' = loop
    BY DEF StepDown, StepUp, Return
  <1>4. \E r : Return(r) /\ IsNext(content, StepDir, call.arg, r)
    <2>1. PICK sub, bh : Standing(tree, sub, bh, content) /\ PlaceIsRight(sub)
      BY <1>2, QuietIs
    <2>2. Tree(tree, sub, content)
      BY <2>1 DEF Standing
    <2>3. CallInv /\ call.arg \in content /\ StepDir \in Dir
      BY <1>2 DEF RInv, CallInv, StepDir, Dir
    <2>4. CASE StepDown
      <3>1. Return(elm) /\ tree.child[elm][Opp(StepDir)] = NULL
        BY <1>1, <1>2, <2>4 DEF StepDown
      <3>2. Descending(sub, call.arg, StepDir)
        BY <2>1, <2>4 DEF StepDown, PlaceIsRight
      <3>3. IsNext(content, StepDir, call.arg, elm)
        BY <2>2, <2>3, <3>1, <3>2, DownIs
      <3>4. QED
        BY <3>1, <3>3
    <2>5. CASE StepUp
      <3>1. PICK p : p = tree.parent[elm]
        OBVIOUS
      <3>2. Return(p) /\ (p # NULL => tree.child[p][StepDir] # elm)
        BY <1>1, <1>2, <2>5, <3>1 DEF StepUp
      <3>3. Ascending(sub, call.arg, StepDir)
        BY <2>1, <2>5 DEF StepUp, PlaceIsRight
      <3>4. IsNext(content, StepDir, call.arg, p)
        BY <2>2, <2>3, <3>1, <3>2, <3>3, UpIs
      <3>5. QED
        BY <3>2, <3>4
    <2>6. QED
      BY <2>4, <2>5
  <1>5. QED
    BY <1>2, <1>4, NextRefines

\* RB_REMOVE returns.
LEMMA RemoveRefines ==
  ASSUME RInv, pc \in {"successor", "unlink", "remove_color"},
         content' = content \ {call.arg}, Return(call.arg)
  PROVE  Set!Next
  <1>1. /\ call.op = "remove" /\ call.arg \in content
        /\ \A n, m \in content : Key[n] = Key[m] => n = m
    BY DEF RInv, CallInv, Distinct
  <1>2. content' = {m \in content : Key[m] # Key[call.arg]}
    BY <1>1
  <1>3. Set!Result(call.op, call.arg) = call.arg
    BY <1>1 DEF Set!Result
  <1>4. QED
    BY <1>1, <1>2, <1>3, RespondIs

\* Every step is one of the set's, or none.
LEMMA StepRefines ==
  ASSUME RInv, [Next]_vars
  PROVE  [Set!Next]_(Set!vars)
  <1>1. SUFFICES Set!Next \/ UNCHANGED <<content, call>>
    BY DEF Set!vars
  <1>2. CASE Invoke \/ Iterate
    BY <1>2, CallsRefine
  <1>3. CASE InsertFound \/ InsertReturn \/ FindReturn
    BY <1>3, InsertAndFindRefine
  <1>4. CASE NfindReturn
    BY <1>4, NfindRefines
  <1>5. CASE MinMaxReturn
    BY <1>5, MinMaxRefines
  <1>6. CASE StepDown \/ StepUp
    BY <1>6, StepsRefine
  <1>7. CASE Unlink \/ SpliceSuccessor
    <2>1. pc \in {"successor", "unlink"}
      BY <1>7 DEF Unlink, SpliceSuccessor
    <2>2. \/ UNCHANGED <<content, call>>
          \/ content' = content \ {call.arg} /\ Return(call.arg)
      BY Zenon, <1>7 DEF Unlink, SpliceSuccessor, Recolor
    <2>3. QED
      BY <2>1, <2>2, RemoveRefines
  <1>8. CASE RemoveReturn
    BY <1>8, RemoveRefines DEF RemoveReturn
  <1>9. CASE \/ InsertDescend \/ InsertLink \/ RecolorUncle \/ RotateGrandparent
             \/ FindSuccessor \/ RecolorSibling \/ RotateParent
             \/ FindDescend \/ NfindDescend \/ MinMaxDescend
    BY Zenon, <1>9 DEF InsertDescend, InsertLink, RecolorUncle, RotateGrandparent, FindSuccessor,
                RecolorSibling, RotateParent, FindDescend, NfindDescend, MinMaxDescend
  <1>10. CASE UNCHANGED vars
    BY <1>10 DEF vars
  <1>11. QED
    BY <1>2, <1>3, <1>4, <1>5, <1>6, <1>7, <1>8, <1>9, <1>10 DEF Next, Work

\* Every call of the red-black tree macros returns what an ordered set returns,
\* and changes it as little, for any nodes and any keys.
THEOREM RbTreeIsOrderedSet == Spec => IsOrderedSet
  <1>1. Init => Set!Init
    BY DEF Init, Set!Init, NoCall, Set!NoCall
  <1>2. RInv /\ [Next]_vars => [Set!Next]_(Set!vars)
    BY StepRefines
  <1>3. QED
    BY <1>1, <1>2, RedBlackInvariant, PTL DEF Spec, IsOrderedSet, Set!Spec

-----------------------------------------------------------------------------
(* Induction, by a least number for which something is wrong.              *)

\* Every set of numbers that is not empty has a least one.
LEMMA LeastNat ==
  ASSUME NEW S, S \subseteq Nat, S # {}
  PROVE  \E n \in S : \A m \in S : n <= m
  <1> DEFINE R == {p \in Nat \X Nat : p[1] < p[2]}
  <1>1. \A x, y \in Nat : <<y, x>> \in R <=> y < x
    OBVIOUS
  <1>2. IsWellFoundedOn(R, Nat)
    BY NatLessThanWellFounded DEF OpToRel
  <1> HIDE DEF R
  <1>3. PICK x \in S : \A y \in S : ~(<<y, x>> \in R)
    BY <1>2, WFMin
  <1>4. \A y \in S : x \in Nat /\ y \in Nat /\ ~(y < x)
    BY <1>1, <1>3
  <1>5. \A y \in S : x <= y
    BY <1>4
  <1>6. QED
    BY <1>5

\* A set that has 0 and the next number of each of its numbers has all of them.
LEMMA AllNumbers ==
  ASSUME NEW n \in Nat, NEW S,
         0 \in S, \A k \in 0 .. n - 1 : k \in S => k + 1 \in S
  PROVE  \A k \in 0 .. n : k \in S
  <1> DEFINE T == {k \in 0 .. n : k \notin S}
  <1> SUFFICES ASSUME T # {}
               PROVE  FALSE
    OBVIOUS
  <1>1. T \subseteq Nat
    OBVIOUS
  <1>2. PICK k \in T : \A m \in T : k <= m
    BY <1>1, LeastNat
  <1>3. k \in 1 .. n
    BY <1>2
  <1>4. k - 1 \in S
    BY <1>2, <1>3
  <1>5. k - 1 + 1 \in S
    BY <1>3, <1>4
  <1>6. QED
    BY <1>2, <1>3, <1>5

\* Every node has a number of nodes below it, and its children have fewer.
LEMMA SizeIs ==
  ASSUME NEW n \in Nodes, NEW S \in SUBSET Nodes, NEW T \in SUBSET S,
         n \in S, n \notin T
  PROVE  /\ Cardinality(S) \in 1 .. Cardinality(Nodes)
         /\ Cardinality(T) \in 0 .. Cardinality(S) - 1
         /\ Cardinality(Nodes) \in Nat
  <1>1. IsFiniteSet(S) /\ Cardinality(S) <= Cardinality(Nodes)
    BY FiniteAssumption, FS_Subset
  <1>2. /\ IsFiniteSet(T) /\ Cardinality(T) <= Cardinality(S)
        /\ Cardinality(S) = Cardinality(T) => S = T
    BY <1>1, FS_Subset
  <1>3. Cardinality(S) \in Nat /\ Cardinality(T) \in Nat /\ Cardinality(Nodes) \in Nat
    BY <1>1, <1>2, FiniteAssumption, FS_CardinalityType
  <1>4. S # T
    OBVIOUS
  <1> HIDE DEF Cardinality
  <1>5. QED
    BY <1>1, <1>2, <1>3, <1>4

-----------------------------------------------------------------------------
(* The walk down the links.                                                *)

\* Where walks start.
Walked == Nodes \cup {NULL, STALE}

\* One step of a walk, from what the walks one level less deep find.
WalkStep(f, k) ==
  [m \in Walked |->
     IF m = NULL THEN <<>>
     ELSE IF m = STALE \/ k = 0 THEN <<m>>
     ELSE f[Left(tree, m)] \o <<m>> \o f[Right(tree, m)]]

\* w is the function walk of InOrder.
IsWalk(w) == w = [k \in Fuel |-> WalkStep(w[k - 1], k)]

\* InOrder is what the walk finds.
LEMMA InOrderIsWalk ==
  \A n : InOrder(n) = (CHOOSE w : IsWalk(w))[Cardinality(Nodes)][n]
  BY DEF InOrder, IsWalk, WalkStep, Walked

\* There is a walk: the definition of InOrder makes sense.
LEMMA WalkExists == \E w : IsWalk(w)
  <1> DEFINE n == Cardinality(Nodes)
             S == {j \in 0 .. n : \E w : \A k \in 0 .. j : w[k] = WalkStep(w[k - 1], k)}
  <1>1. n \in Nat /\ Fuel = 0 .. n
    BY FiniteAssumption, FS_CardinalityType DEF Fuel
  <1> HIDE DEF n
  <1>2. 0 \in S
    <2> DEFINE w == [k \in {0} |-> WalkStep(0, 0)]
    <2>1. w[0] = WalkStep(0, 0)
      OBVIOUS
    <2>2. \A f : WalkStep(f, 0) = WalkStep(0, 0)
      BY DEF WalkStep
    <2> HIDE DEF w
    <2>3. \A k \in 0 .. 0 : w[k] = WalkStep(w[k - 1], k)
      BY <2>1, <2>2
    <2>4. QED
      BY <1>1, <2>3
  <1>3. ASSUME NEW j \in 0 .. n - 1, j \in S
        PROVE  j + 1 \in S
    <2>1. PICK w : \A k \in 0 .. j : w[k] = WalkStep(w[k - 1], k)
      BY <1>3
    <2> DEFINE v == [k \in 0 .. j + 1 |-> IF k <= j THEN w[k] ELSE WalkStep(w[j], j + 1)]
    <2>2. \A k \in 0 .. j : v[k] = w[k]
      BY <1>1
    <2>3. v[j + 1] = WalkStep(w[j], j + 1)
      BY <1>1
    <2> HIDE DEF v
    <2>4. ASSUME NEW k \in 0 .. j + 1
          PROVE  v[k] = WalkStep(v[k - 1], k)
      <3>1. CASE k = 0
        <4>1. \A f, g : WalkStep(f, 0) = WalkStep(g, 0)
          BY DEF WalkStep
        <4>2. QED
          BY <1>1, <2>1, <2>2, <3>1, <4>1
      <3>2. CASE k \in 1 .. j
        <4>1. k - 1 \in 0 .. j /\ k \in 0 .. j
          BY <3>2
        <4>2. v[k - 1] = w[k - 1] /\ v[k] = w[k] /\ w[k] = WalkStep(w[k - 1], k)
          BY <2>1, <2>2, <4>1
        <4>3. QED
          BY <4>2
      <3>3. CASE k = j + 1
        <4>1. k - 1 = j /\ j \in 0 .. j
          BY <1>1, <3>3
        <4>2. QED
          BY <2>2, <2>3, <3>3, <4>1
      <3>4. QED
        BY <1>1, <3>1, <3>2, <3>3
    <2>5. j + 1 \in 0 .. n
      BY <1>1
    <2>6. QED
      BY <2>4, <2>5
  <1>4. n \in S
    <2> HIDE DEF S
    <2>1. \A j \in 0 .. n : j \in S
      BY <1>1, <1>2, <1>3, AllNumbers
    <2>2. QED
      BY <1>1, <2>1
  <1>5. PICK w : \A k \in 0 .. n : w[k] = WalkStep(w[k - 1], k)
    BY <1>4
  <1> DEFINE v == [k \in Fuel |-> w[k]]
  <1>6. \A k \in Fuel : v[k] = w[k]
    OBVIOUS
  <1>7. ASSUME NEW k \in Fuel
        PROVE  WalkStep(v[k - 1], k) = w[k]
    <2>1. CASE k = 0
      <3>1. \A f, g : WalkStep(f, 0) = WalkStep(g, 0)
        BY DEF WalkStep
      <3> HIDE DEF v
      <3>2. QED
        BY <1>1, <1>5, <2>1, <3>1
    <2>2. CASE k # 0
      <3>1. k - 1 \in Fuel
        BY <1>1, <2>2
      <3> HIDE DEF v
      <3>2. v[k - 1] = w[k - 1]
        BY <1>6, <3>1
      <3>3. QED
        BY <1>1, <1>5, <3>2
    <2>3. QED
      BY <2>1, <2>2
  <1>8. v = [k \in Fuel |-> WalkStep(v[k - 1], k)]
    <2> DEFINE u(k) == WalkStep(v[k - 1], k)
    <2>1. \A k \in Fuel : u(k) = w[k]
      BY <1>7
    <2> HIDE DEF u
    <2>2. v = [k \in Fuel |-> u(k)]
      BY <2>1
    <2>3. QED
      BY <2>2 DEF u
  <1>9. QED
    BY <1>8 DEF IsWalk

\* s has the nodes S from left to right.
Ordered(s, S) ==
  /\ s \in Seq(Nodes) /\ ToSet(s) = S
  /\ \A i, j \in 1 .. Len(s) : i < j => Key[s[i]] < Key[s[j]]

\* Nodes that are all to the left of others.
LEMMA OrderedConcat ==
  ASSUME NEW a, NEW b, NEW A, NEW B, Ordered(a, A), Ordered(b, B),
         \A m \in A, k \in B : Key[m] < Key[k]
  PROVE  Ordered(a \o b, A \cup B)
  <1> DEFINE s == a \o b
  <1>1. a \in Seq(Nodes) /\ b \in Seq(Nodes)
    BY DEF Ordered
  <1>2. /\ s \in Seq(Nodes) /\ Len(s) = Len(a) + Len(b)
        /\ Len(a) \in Nat /\ Len(b) \in Nat
    BY <1>1
  <1>3. \A i \in 1 .. Len(s) : s[i] = IF i <= Len(a) THEN a[i] ELSE b[i - Len(a)]
    BY <1>1
  <1> HIDE DEF s
  <1>4. \A i \in 1 .. Len(a) : s[i] = a[i] /\ a[i] \in A
    BY <1>1, <1>2, <1>3 DEF Ordered, ToSet
  <1>5. \A i \in 1 .. Len(s) : i > Len(a) =>
          i - Len(a) \in 1 .. Len(b) /\ s[i] = b[i - Len(a)] /\ b[i - Len(a)] \in B
    BY <1>1, <1>2, <1>3 DEF Ordered, ToSet
  <1>6. ToSet(s) = A \cup B
    <2>1. \A i \in 1 .. Len(s) : s[i] \in A \cup B
      <3>1. \A i \in 1 .. Len(s) : i \in 1 .. Len(a) \/ i > Len(a)
        BY <1>2
      <3>2. QED
        BY <1>4, <1>5, <3>1
    <2>2. \A m \in A : \E i \in 1 .. Len(s) : s[i] = m
      <3>1. \A m \in A : \E i \in 1 .. Len(a) : a[i] = m
        BY <1>1 DEF Ordered, ToSet
      <3>2. \A i \in 1 .. Len(a) : i \in 1 .. Len(s)
        BY <1>2
      <3>3. QED
        BY <1>4, <3>1, <3>2
    <2>3. \A m \in B : \E i \in 1 .. Len(s) : s[i] = m
      <3>1. \A m \in B : \E i \in 1 .. Len(b) : b[i] = m
        BY <1>1 DEF Ordered, ToSet
      <3>2. \A i \in 1 .. Len(b) : /\ i + Len(a) \in 1 .. Len(s)
                                   /\ i + Len(a) > Len(a) /\ i + Len(a) - Len(a) = i
        BY <1>2
      <3>3. \A i \in 1 .. Len(b) : s[i + Len(a)] = b[i]
        BY <1>5, <3>2
      <3>4. QED
        BY <3>1, <3>2, <3>3
    <2>4. DOMAIN s = 1 .. Len(s)
      BY <1>2
    <2>5. QED
      BY <2>1, <2>2, <2>3, <2>4 DEF ToSet
  <1>7. ASSUME NEW i \in 1 .. Len(s), NEW j \in 1 .. Len(s), i < j
        PROVE  Key[s[i]] < Key[s[j]]
    <2>1. CASE j <= Len(a)
      <3>1. i \in 1 .. Len(a) /\ j \in 1 .. Len(a)
        BY <1>2, <1>7, <2>1
      <3>2. Key[a[i]] < Key[a[j]]
        BY <1>7, <3>1 DEF Ordered
      <3>3. QED
        BY <1>4, <3>1, <3>2
    <2>2. CASE i <= Len(a) /\ j > Len(a)
      <3>1. i \in 1 .. Len(a)
        BY <2>2
      <3>2. QED
        BY <1>4, <1>5, <2>2, <3>1
    <2>3. CASE i > Len(a) /\ j > Len(a)
      <3>1. /\ i - Len(a) \in 1 .. Len(b) /\ j - Len(a) \in 1 .. Len(b)
            /\ i - Len(a) < j - Len(a)
        BY <1>2, <1>5, <1>7, <2>3
      <3>2. Key[b[i - Len(a)]] < Key[b[j - Len(a)]]
        BY <3>1 DEF Ordered
      <3>3. QED
        BY <1>5, <2>3, <3>2
    <2>4. QED
      BY <1>2, <1>7, <2>1, <2>2, <2>3
  <1>8. Ordered(s, A \cup B)
    BY <1>2, <1>6, <1>7 DEF Ordered
  <1>9. QED
    BY <1>8 DEF s

\* No node, and one.
LEMMA OrderedFew ==
  /\ Ordered(<<>>, {})
  /\ \A n \in Nodes : Ordered(<<n>>, {n})
  <1>1. Ordered(<<>>, {})
    BY DEF Ordered, ToSet
  <1>2. ASSUME NEW n \in Nodes
        PROVE  Ordered(<<n>>, {n})
    <2>1. <<n>> \in Seq(Nodes) /\ Len(<<n>>) = 1 /\ DOMAIN <<n>> = 1 .. 1 /\ <<n>>[1] = n
      OBVIOUS
    <2>2. ToSet(<<n>>) = {n}
      BY <2>1 DEF ToSet
    <2>3. QED
      BY <2>1, <2>2 DEF Ordered
  <1>3. QED
    BY <1>1, <1>2

\* A walk from a node of a search tree finds the nodes below it, in order, if
\* it may go as deep as there are nodes.
LEMMA WalkFinds ==
  ASSUME NEW sub, NEW X, Tree(tree, sub, X), NEW w, IsWalk(w)
  PROVE  /\ \A k \in Fuel : w[k][NULL] = <<>>
         /\ \A n \in X, k \in Fuel : Cardinality(sub[n]) <= k => Ordered(w[k][n], sub[n])
  <1> DEFINE Fine(n, k) == Cardinality(sub[n]) <= k => Ordered(w[k][n], sub[n])
             Bad == {n \in X : \E k \in Fuel : ~Fine(n, k)}
             Sizes == {Cardinality(sub[n]) : n \in Bad}
  <1>1. \A k \in Fuel : w[k] = WalkStep(w[k - 1], k)
    BY DEF IsWalk
  <1>2. \A k \in Fuel : w[k][NULL] = <<>>
    BY <1>1 DEF WalkStep, Walked
  <1>3. /\ X \in SUBSET Nodes
        /\ \A n \in X : n \in Nodes /\ n # NULL /\ n # STALE /\ n \in sub[n]
        /\ \A n \in X : sub[n] \in SUBSET Nodes
        /\ \A n \in X : sub[n] \subseteq X
    BY WholeIs
  <1>4. \A n \in X : Cardinality(sub[n]) \in 1 .. Cardinality(Nodes)
    <2> SUFFICES ASSUME NEW n \in X
                 PROVE  Cardinality(sub[n]) \in 1 .. Cardinality(Nodes)
      OBVIOUS
    <2>1. n \in Nodes /\ sub[n] \in SUBSET Nodes /\ {} \in SUBSET sub[n]
      BY <1>3
    <2>2. n \in sub[n] /\ n \notin {}
      BY <1>3
    <2>3. QED
      BY <2>1, <2>2, SizeIs
  <1>5. Fuel = 0 .. Cardinality(Nodes) /\ Cardinality(Nodes) \in Nat
    BY FiniteAssumption, FS_CardinalityType DEF Fuel
  <1>6. ASSUME NEW n \in X, NEW k \in Fuel, Cardinality(sub[n]) <= k,
               \A m \in X : Cardinality(sub[m]) < Cardinality(sub[n]) => m \notin Bad
        PROVE  Ordered(w[k][n], sub[n])
    <2> DEFINE L == Left(tree, n)
               R == Right(tree, n)
    <2>1. /\ L \in X \cup {NULL} /\ R \in X \cup {NULL}
          /\ Under(sub, L) \subseteq X /\ Under(sub, R) \subseteq X
          /\ \A m \in Under(sub, L) : Before("L", m, n)
          /\ \A m \in Under(sub, R) : Before("L", n, m)
          /\ sub[n] = {n} \cup Under(sub, L) \cup Under(sub, R)
      BY TreeIs, SidesAre DEF Left, Right, Opp, Dir
    <2> HIDE DEF L, R
    <2>2. k \in 1 .. Cardinality(Nodes) /\ k - 1 \in Fuel
      BY <1>4, <1>5, <1>6
    <2>3. w[k][n] = w[k - 1][L] \o <<n>> \o w[k - 1][R]
      <3>1. n \in Walked /\ n # NULL /\ n # STALE /\ k # 0
        BY <1>3, <2>2 DEF Walked
      <3>2. WalkStep(w[k - 1], k)[n] = w[k - 1][L] \o <<n>> \o w[k - 1][R]
        BY <3>1 DEF WalkStep, L, R
      <3>3. QED
        BY <1>1, <3>2
    <2>4. \A m \in Under(sub, L) \cup Under(sub, R) : m \in Nodes /\ m # n
      BY <1>3, <2>1, BeforeIs DEF Dir
    <2>5. ASSUME NEW c \in {L, R}
          PROVE  Ordered(w[k - 1][c], Under(sub, c))
      <3>1. CASE c = NULL
        BY <1>2, <2>2, <3>1, OrderedFew DEF Under
      <3>2. CASE c # NULL
        <4>1. c \in X /\ Under(sub, c) = sub[c]
          BY <2>1, <3>2 DEF Under
        <4>2. sub[c] \in SUBSET sub[n] /\ n \in sub[n] /\ n \notin sub[c]
          BY <1>3, <2>1, <2>4, <4>1
        <4>3. Cardinality(sub[c]) \in 0 .. Cardinality(sub[n]) - 1
          BY <1>3, <4>2, SizeIs
        <4>4. Cardinality(sub[n]) \in Nat /\ k \in Nat
          BY <1>4, <2>2
        <4>5. Cardinality(sub[c]) < Cardinality(sub[n]) /\ Cardinality(sub[c]) <= k - 1
          BY <1>6, <4>3, <4>4
        <4>6. c \notin Bad
          BY <1>6, <4>1, <4>5
        <4>7. QED
          BY <2>2, <4>1, <4>5, <4>6
      <3>3. QED
        BY <3>1, <3>2
    <2>6. \A m \in Under(sub, L), i \in {n} : Key[m] < Key[i]
      BY <2>1 DEF Before
    <2>7. Ordered(w[k - 1][L] \o <<n>>, Under(sub, L) \cup {n})
      BY <1>3, <2>5, <2>6, OrderedFew, OrderedConcat
    <2>8. \A m \in Under(sub, L) \cup {n}, i \in Under(sub, R) : Key[m] < Key[i]
      <3>1. \A m \in Under(sub, L), i \in Under(sub, R) : Before("L", m, i)
        BY <1>3, <2>1, <2>4, BeforeIs DEF Dir
      <3>2. QED
        BY <2>1, <3>1 DEF Before
    <2>9. Ordered(w[k - 1][L] \o <<n>> \o w[k - 1][R], Under(sub, L) \cup {n} \cup Under(sub, R))
      BY <2>5, <2>7, <2>8, OrderedConcat
    <2>10. sub[n] = Under(sub, L) \cup {n} \cup Under(sub, R)
      BY <2>1
    <2>11. QED
      BY <2>3, <2>9, <2>10
  <1> HIDE DEF Fine
  <1>7. Bad = {}
    <2> SUFFICES ASSUME Bad # {}
                 PROVE  FALSE
      OBVIOUS
    <2>1. Sizes \subseteq Nat /\ Sizes # {}
      BY <1>4
    <2>2. PICK c \in Sizes : \A e \in Sizes : c <= e
      BY <2>1, LeastNat
    <2>3. PICK n \in Bad : c = Cardinality(sub[n])
      OBVIOUS
    <2>4. \A m \in Bad : ~(Cardinality(sub[m]) < Cardinality(sub[n]))
      <3>1. \A m \in Bad : Cardinality(sub[m]) \in Sizes
        OBVIOUS
      <3>2. \A e \in Sizes : c <= e /\ e \in Nat /\ c \in Nat
        BY <2>1, <2>2
      <3> HIDE DEF Sizes, Bad
      <3>3. QED
        BY <2>3, <3>1, <3>2
    <2>5. PICK k \in Fuel : ~Fine(n, k)
      OBVIOUS
    <2>6. \A m \in X : Cardinality(sub[m]) < Cardinality(sub[n]) => m \notin Bad
      BY <2>4
    <2> HIDE DEF Bad
    <2>7. n \in X
      BY DEF Bad
    <2>8. Cardinality(sub[n]) <= k => Ordered(w[k][n], sub[n])
      BY <1>6, <2>6, <2>7
    <2>9. QED
      BY <2>5, <2>8 DEF Fine
  <1>8. QED
    BY <1>2, <1>7 DEF Fine

\* InOrder(root) has the nodes of a search tree from left to right.
LEMMA InOrderFinds ==
  ASSUME NEW sub, NEW X, Tree(tree, sub, X)
  PROVE  Ordered(InOrder(tree.root), X) /\ InTree = X
  <1>1. PICK w : IsWalk(w) /\ InOrder(tree.root) = w[Cardinality(Nodes)][tree.root]
    BY WalkExists, InOrderIsWalk
  <1>2. Cardinality(Nodes) \in Fuel
    BY FiniteAssumption, FS_CardinalityType DEF Fuel
  <1>3. Ordered(InOrder(tree.root), X)
    <2>1. CASE tree.root = NULL
      <3>1. X = {}
        BY <2>1, WholeIs DEF Under
      <3>2. QED
        BY <1>1, <1>2, <2>1, <3>1, WalkFinds, OrderedFew
    <2>2. CASE tree.root # NULL
      <3>1. tree.root \in X /\ sub[tree.root] = X /\ X \in SUBSET Nodes
        BY <2>2, WholeIs
      <3>2. Cardinality(X) <= Cardinality(Nodes)
        BY <3>1, FiniteAssumption, FS_Subset
      <3>3. QED
        BY <1>1, <1>2, <3>1, <3>2, WalkFinds
    <2>3. QED
      BY <2>1, <2>2
  <1>4. QED
    BY <1>3 DEF InTree, Ordered

\* A search tree of the nodes expected is well formed.
LEMMA TreeIsWellFormed ==
  ASSUME NEW sub, Tree(tree, sub, Expected)
  PROVE  HoldsContent /\ WellLinked /\ SearchOrder
  <1>1. Ordered(InOrder(tree.root), Expected) /\ InTree = Expected
    BY InOrderFinds
  <1>2. HoldsContent
    BY <1>1 DEF HoldsContent
  <1>3. WellLinked
    <2>1. tree.root # NULL => tree.parent[tree.root] = NULL
      BY WholeIs
    <2>2. \A n \in Expected, d \in Dir :
            tree.child[n][d] # NULL => tree.parent[tree.child[n][d]] = n
      BY TreeIs
    <2>3. QED
      BY <1>1, <2>1, <2>2 DEF WellLinked
  <1>4. SearchOrder
    <2> DEFINE s == InOrder(tree.root)
    <2>1. Len(s) \in Nat /\ \A i, j \in 1 .. Len(s) : i < j => Key[s[i]] < Key[s[j]]
      BY <1>1 DEF Ordered
    <2> HIDE DEF s
    <2>2. \A i \in 1 .. Len(s) - 1 : i \in 1 .. Len(s) /\ i + 1 \in 1 .. Len(s) /\ i < i + 1
      BY <2>1
    <2>3. \A i \in 1 .. Len(s) - 1 : Key[s[i]] < Key[s[i + 1]]
      BY <2>1, <2>2
    <2>4. QED
      BY <2>3 DEF s, SearchOrder
  <1>5. QED
    BY <1>2, <1>3, <1>4

-----------------------------------------------------------------------------
(* Counting black nodes.                                                   *)

\* One step of a count, from the counts one level less deep.
CountStep(f, k) ==
  [m \in Nodes \cup {NULL} |->
     IF m = NULL \/ k = 0 THEN {0}
     ELSE {c + (IF IsRed(tree, m) THEN 0 ELSE 1) :
             c \in UNION {{b + (IF Lacks(m, d) THEN 1 ELSE 0) :
                            b \in f[tree.child[m][d]]} : d \in Dir}}]

\* w is the function counts of BlackCounts.
IsCount(w) == w = [k \in Fuel |-> CountStep(w[k - 1], k)]

\* BlackCounts is what the counting finds.
LEMMA BlackCountsIs ==
  \A n : BlackCounts(n) = (CHOOSE w : IsCount(w))[Cardinality(Nodes)][n]
  BY DEF BlackCounts, IsCount, CountStep

\* There is a count: the definition of BlackCounts makes sense.
LEMMA CountExists == \E w : IsCount(w)
  <1> DEFINE n == Cardinality(Nodes)
             S == {j \in 0 .. n : \E w : \A k \in 0 .. j : w[k] = CountStep(w[k - 1], k)}
  <1>1. n \in Nat /\ Fuel = 0 .. n
    BY FiniteAssumption, FS_CardinalityType DEF Fuel
  <1> HIDE DEF n
  <1>2. 0 \in S
    <2> DEFINE w == [k \in {0} |-> CountStep(0, 0)]
    <2>1. w[0] = CountStep(0, 0)
      OBVIOUS
    <2>2. \A f : CountStep(f, 0) = CountStep(0, 0)
      BY DEF CountStep
    <2> HIDE DEF w
    <2>3. \A k \in 0 .. 0 : w[k] = CountStep(w[k - 1], k)
      BY <2>1, <2>2
    <2>4. QED
      BY <1>1, <2>3
  <1>3. ASSUME NEW j \in 0 .. n - 1, j \in S
        PROVE  j + 1 \in S
    <2>1. PICK w : \A k \in 0 .. j : w[k] = CountStep(w[k - 1], k)
      BY <1>3
    <2> DEFINE v == [k \in 0 .. j + 1 |-> IF k <= j THEN w[k] ELSE CountStep(w[j], j + 1)]
    <2>2. \A k \in 0 .. j : v[k] = w[k]
      BY <1>1
    <2>3. v[j + 1] = CountStep(w[j], j + 1)
      BY <1>1
    <2> HIDE DEF v
    <2>4. ASSUME NEW k \in 0 .. j + 1
          PROVE  v[k] = CountStep(v[k - 1], k)
      <3>1. CASE k = 0
        <4>1. \A f, g : CountStep(f, 0) = CountStep(g, 0)
          BY DEF CountStep
        <4>2. QED
          BY <1>1, <2>1, <2>2, <3>1, <4>1
      <3>2. CASE k \in 1 .. j
        <4>1. k - 1 \in 0 .. j /\ k \in 0 .. j
          BY <3>2
        <4>2. v[k - 1] = w[k - 1] /\ v[k] = w[k] /\ w[k] = CountStep(w[k - 1], k)
          BY <2>1, <2>2, <4>1
        <4>3. QED
          BY <4>2
      <3>3. CASE k = j + 1
        <4>1. k - 1 = j /\ j \in 0 .. j
          BY <1>1, <3>3
        <4>2. QED
          BY <2>2, <2>3, <3>3, <4>1
      <3>4. QED
        BY <1>1, <3>1, <3>2, <3>3
    <2>5. j + 1 \in 0 .. n
      BY <1>1
    <2>6. QED
      BY <2>4, <2>5
  <1>4. n \in S
    <2> HIDE DEF S
    <2>1. \A j \in 0 .. n : j \in S
      BY <1>1, <1>2, <1>3, AllNumbers
    <2>2. QED
      BY <1>1, <2>1
  <1>5. PICK w : \A k \in 0 .. n : w[k] = CountStep(w[k - 1], k)
    BY <1>4
  <1> DEFINE v == [k \in Fuel |-> w[k]]
  <1>6. \A k \in Fuel : v[k] = w[k]
    OBVIOUS
  <1>7. ASSUME NEW k \in Fuel
        PROVE  CountStep(v[k - 1], k) = w[k]
    <2>1. CASE k = 0
      <3>1. \A f, g : CountStep(f, 0) = CountStep(g, 0)
        BY DEF CountStep
      <3> HIDE DEF v
      <3>2. QED
        BY <1>1, <1>5, <2>1, <3>1
    <2>2. CASE k # 0
      <3>1. k - 1 \in Fuel
        BY <1>1, <2>2
      <3> HIDE DEF v
      <3>2. v[k - 1] = w[k - 1]
        BY <1>6, <3>1
      <3>3. QED
        BY <1>1, <1>5, <3>2
    <2>3. QED
      BY <2>1, <2>2
  <1>8. v = [k \in Fuel |-> CountStep(v[k - 1], k)]
    <2> DEFINE u(k) == CountStep(v[k - 1], k)
    <2>1. \A k \in Fuel : u(k) = w[k]
      BY <1>7
    <2> HIDE DEF u
    <2>2. v = [k \in Fuel |-> u(k)]
      BY <2>1
    <2>3. QED
      BY <2>2 DEF u
  <1>9. QED
    BY <1>8 DEF IsCount

\* The number of black nodes that the count finds below a node is its height.
LEMMA CountFinds ==
  ASSUME NEW sub, NEW bh, NEW X, NEW q, NEW f, NEW w, IsCount(w),
         Tree(tree, sub, X), Balanced(tree, bh, X, q, f),
         \A n \in X, d \in Dir : Lacks(n, d) <=> n = q /\ d = f
  PROVE  /\ \A k \in Fuel : w[k][NULL] = {0}
         /\ \A n \in X, k \in Fuel : Cardinality(sub[n]) <= k => w[k][n] = {bh[n]}
  <1> DEFINE Fine(n, k) == Cardinality(sub[n]) <= k => w[k][n] = {bh[n]}
             Bad == {n \in X : \E k \in Fuel : ~Fine(n, k)}
             Sizes == {Cardinality(sub[n]) : n \in Bad}
  <1>1. \A k \in Fuel : w[k] = CountStep(w[k - 1], k)
    BY DEF IsCount
  <1>2. \A k \in Fuel : w[k][NULL] = {0}
    BY <1>1 DEF CountStep
  <1>3. /\ X \in SUBSET Nodes
        /\ \A n \in X : n \in Nodes /\ n # NULL /\ n \in sub[n]
        /\ \A n \in X : sub[n] \in SUBSET Nodes
    BY WholeIs
  <1>4. \A n \in X : Cardinality(sub[n]) \in 1 .. Cardinality(Nodes)
    <2> SUFFICES ASSUME NEW n \in X
                 PROVE  Cardinality(sub[n]) \in 1 .. Cardinality(Nodes)
      OBVIOUS
    <2>1. n \in Nodes /\ sub[n] \in SUBSET Nodes /\ {} \in SUBSET sub[n]
      BY <1>3
    <2>2. n \in sub[n] /\ n \notin {}
      BY <1>3
    <2>3. QED
      BY <2>1, <2>2, SizeIs
  <1>5. Fuel = 0 .. Cardinality(Nodes) /\ Cardinality(Nodes) \in Nat
    BY FiniteAssumption, FS_CardinalityType DEF Fuel
  <1>6. ASSUME NEW n \in X, NEW k \in Fuel, Cardinality(sub[n]) <= k,
               \A m \in X : Cardinality(sub[m]) < Cardinality(sub[n]) => m \notin Bad
        PROVE  w[k][n] = {bh[n]}
    <2> DEFINE kid(d) == tree.child[n][d]
               lack(d) == IF Lacks(n, d) THEN 1 ELSE 0
               own == IF IsRed(tree, n) THEN 0 ELSE 1
    <2>1. k \in 1 .. Cardinality(Nodes) /\ k - 1 \in Fuel
      BY <1>4, <1>5, <1>6
    <2>2. ASSUME NEW d \in Dir
          PROVE  w[k - 1][kid(d)] = {Height(bh, kid(d))}
      <3>1. CASE kid(d) = NULL
        BY <1>2, <2>1, <3>1 DEF Height
      <3>2. CASE kid(d) # NULL
        <4>1. /\ kid(d) \in X
              /\ \A m \in Under(sub, kid(d)) : Before(d, m, n) /\ m \in sub[n]
          BY <3>2, TreeIs
        <4> DEFINE c == kid(d)
        <4> HIDE DEF kid
        <4>2. Under(sub, c) = sub[c]
          BY <3>2 DEF Under
        <4>3. n \notin sub[c] /\ sub[c] \in SUBSET sub[n] /\ n \in sub[n]
          BY <1>3, <4>1, <4>2, BeforeIs
        <4>4. Cardinality(sub[c]) \in 0 .. Cardinality(sub[n]) - 1
          BY <1>3, <4>3, SizeIs
        <4>5. Cardinality(sub[n]) \in Nat /\ k \in Nat
          BY <1>4, <2>1
        <4>6. Cardinality(sub[c]) < Cardinality(sub[n]) /\ Cardinality(sub[c]) <= k - 1
          BY <1>6, <4>4, <4>5
        <4>7. c \notin Bad
          BY <1>6, <4>1, <4>6
        <4>8. w[k - 1][c] = {bh[c]}
          BY <2>1, <4>1, <4>6, <4>7
        <4>9. QED
          BY <3>2, <4>8 DEF Height
      <3>3. QED
        BY <3>1, <3>2
    <2>3. ASSUME NEW d \in Dir
          PROVE  /\ bh[n] = own + Height(bh, kid(d)) + lack(d)
                 /\ Height(bh, kid(d)) \in Nat
      <3>1. bh[n] = Own(tree, n) + Height(bh, kid(d)) + Missing(q, f, n, d) /\ bh \in [Nodes -> Nat]
        BY DEF Balanced
      <3>2. Own(tree, n) = own
        BY <1>3, SetsAre DEF Own, IsRed
      <3>3. Missing(q, f, n, d) = lack(d)
        BY DEF Missing
      <3>4. Height(bh, kid(d)) \in Nat
        <4>1. kid(d) \in X \cup {NULL}
          BY TreeIs
        <4>2. QED
          BY <1>3, <3>1, <4>1 DEF Height
      <3>5. QED
        BY <3>1, <3>2, <3>3, <3>4
    <2>4. w[k][n] = {c + own : c \in UNION {{b + lack(d) : b \in w[k - 1][kid(d)]} : d \in Dir}}
      <3>1. w[k] = CountStep(w[k - 1], k) /\ n \in Nodes \cup {NULL} /\ n # NULL /\ k # 0
        BY <1>1, <1>3, <2>1
      <3>2. CountStep(w[k - 1], k)[n] =
              {c + own : c \in UNION {{b + lack(d) : b \in w[k - 1][kid(d)]} : d \in Dir}}
        BY <3>1 DEF CountStep
      <3>3. QED
        BY <3>1, <3>2
    <2> HIDE DEF kid, lack, own
    <2>5. UNION {{b + lack(d) : b \in w[k - 1][kid(d)]} : d \in Dir}
            = {Height(bh, kid(d)) + lack(d) : d \in Dir}
      BY <2>2
    <2>6. w[k][n] = {c + own : c \in {Height(bh, kid(d)) + lack(d) : d \in Dir}}
      BY <2>4, <2>5
    <2>7. \A d \in Dir : Height(bh, kid(d)) + lack(d) + own = bh[n]
      BY <2>3 DEF lack, own
    <2>8. "L" \in Dir
      BY DEF Dir
    <2>9. QED
      BY <2>6, <2>7, <2>8
  <1> HIDE DEF Fine
  <1>7. Bad = {}
    <2> SUFFICES ASSUME Bad # {}
                 PROVE  FALSE
      OBVIOUS
    <2>1. Sizes \subseteq Nat /\ Sizes # {}
      BY <1>4
    <2>2. PICK c \in Sizes : \A e \in Sizes : c <= e
      BY <2>1, LeastNat
    <2>3. PICK n \in Bad : c = Cardinality(sub[n])
      OBVIOUS
    <2>4. \A m \in Bad : ~(Cardinality(sub[m]) < Cardinality(sub[n]))
      <3>1. \A m \in Bad : Cardinality(sub[m]) \in Sizes
        OBVIOUS
      <3>2. \A e \in Sizes : c <= e /\ e \in Nat /\ c \in Nat
        BY <2>1, <2>2
      <3> HIDE DEF Sizes, Bad
      <3>3. QED
        BY <2>3, <3>1, <3>2
    <2>5. PICK k \in Fuel : ~Fine(n, k)
      OBVIOUS
    <2>6. \A m \in X : Cardinality(sub[m]) < Cardinality(sub[n]) => m \notin Bad
      BY <2>4
    <2> HIDE DEF Bad
    <2>7. n \in X
      BY DEF Bad
    <2>8. Cardinality(sub[n]) <= k => w[k][n] = {bh[n]}
      BY <1>6, <2>6, <2>7
    <2>9. QED
      BY <2>5, <2>8 DEF Fine
  <1>8. QED
    BY <1>2, <1>7 DEF Fine

\* All paths from the root have as many black nodes.
LEMMA CountsAreOne ==
  ASSUME NEW sub, NEW bh, NEW X, NEW q, NEW f,
         Tree(tree, sub, X), Balanced(tree, bh, X, q, f),
         \A n \in X, d \in Dir : Lacks(n, d) <=> n = q /\ d = f
  PROVE  Cardinality(BlackCounts(tree.root)) = 1
  <1>1. PICK w : IsCount(w) /\ BlackCounts(tree.root) = w[Cardinality(Nodes)][tree.root]
    BY CountExists, BlackCountsIs
  <1>2. Cardinality(Nodes) \in Fuel
    BY FiniteAssumption, FS_CardinalityType DEF Fuel
  <1>3. BlackCounts(tree.root) = {Height(bh, tree.root)}
    <2>1. CASE tree.root = NULL
      BY <1>1, <1>2, <2>1, CountFinds DEF Height
    <2>2. CASE tree.root # NULL
      <3>1. tree.root \in X /\ sub[tree.root] = X /\ X \in SUBSET Nodes
        BY <2>2, WholeIs
      <3>2. Cardinality(X) <= Cardinality(Nodes)
        BY <3>1, FiniteAssumption, FS_Subset
      <3>3. QED
        BY <1>1, <1>2, <2>2, <3>1, <3>2, CountFinds DEF Height
    <2>3. QED
      BY <2>1, <2>2
  <1>4. QED
    BY <1>3, FS_Singleton

-----------------------------------------------------------------------------
(* The tree is as tree.h says.                                             *)

\* In every reachable state links, order and nodes of the tree are right.
LEMMA InvIsWellFormed ==
  ASSUME RInv
  PROVE  HoldsContent /\ WellLinked /\ SearchOrder
  <1>1. PICK sub, bh : ShapeIs(sub, bh)
    BY DEF RInv, Shaped
  <1>2. CASE Quiet
    <2>1. Tree(tree, sub, content) /\ Expected = content
      BY <1>1, <1>2 DEF ShapeIs, Standing, Quiet, Expected
    <2>2. QED
      BY <2>1, TreeIsWellFormed
  <1>3. CASE pc = "insert_color"
    <2>1. Tree(tree, sub, content \cup {call.arg}) /\ Expected = content \cup {call.arg}
      BY <1>1, <1>3 DEF ShapeIs, Reddened, Expected
    <2>2. QED
      BY <2>1, TreeIsWellFormed
  <1>4. CASE pc = "remove_color"
    <2>1. Tree(tree, sub, content \ {call.arg}) /\ Expected = content \ {call.arg}
      BY <1>1, <1>4 DEF ShapeIs, Lacking, Expected
    <2>2. QED
      BY <2>1, TreeIsWellFormed
  <1>5. QED
    BY <1>2, <1>3, <1>4 DEF Quiet

\* In every reachable state the colours are right, but for what a fix-up loop
\* is about to put right.
LEMMA InvIsRedBlack ==
  ASSUME RInv
  PROVE  RedBlack
  <1>1. PICK sub, bh : ShapeIs(sub, bh)
    BY DEF RInv, Shaped
  <1>2. CASE Quiet
    <2>1. Standing(tree, sub, bh, content)
      BY <1>1, <1>2 DEF ShapeIs
    <2>2. Tree(tree, sub, content) /\ Balanced(tree, bh, content, NULL, "L")
      BY <2>1 DEF Standing
    <2>3. \A n \in content, d \in Dir : Lacks(n, d) <=> n = NULL /\ d = "L"
      BY <1>2, <2>2, WholeIs DEF Lacks, Quiet
    <2>4. InTree = content
      BY <2>2, InOrderFinds
    <2>5. Cardinality(BlackCounts(tree.root)) = 1
      BY <2>2, <2>3, CountsAreOne
    <2>6. QED
      BY <2>1, <2>4, <2>5 DEF RedBlack, Standing, RedsApart
  <1>3. CASE pc = "insert_color"
    <2> DEFINE X == content \cup {call.arg}
    <2>1. Reddened(tree, sub, bh, X, elm)
      BY <1>1, <1>3 DEF ShapeIs
    <2> HIDE DEF X
    <2>2. Tree(tree, sub, X) /\ Balanced(tree, bh, X, NULL, "L") /\ RedsApart(tree, X, {elm})
      BY <2>1 DEF Reddened
    <2>3. \A n \in X, d \in Dir : Lacks(n, d) <=> n = NULL /\ d = "L"
      BY <1>3, <2>2, WholeIs DEF Lacks
    <2>4. InTree = X
      BY <2>2, InOrderFinds
    <2>5. Cardinality(BlackCounts(tree.root)) = 1
      BY <2>2, <2>3, CountsAreOne
    <2>6. QED
      BY <1>3, <2>2, <2>4, <2>5 DEF RedBlack, RedsApart
  <1>4. CASE pc = "remove_color"
    <2> DEFINE X == content \ {call.arg}
    <2>1. Lacking(tree, sub, bh, X, elm, parent)
      BY <1>1, <1>4 DEF ShapeIs
    <2> HIDE DEF X
    <2>2. /\ Tree(tree, sub, X)
          /\ RedsApart(tree, X, {n \in X : elm \in {n, tree.parent[n]}})
      BY <2>1 DEF Lacking
    <2>3. Cardinality(BlackCounts(tree.root)) = 1
      <3>1. CASE elm = tree.root
        <4>1. Balanced(tree, bh, X, NULL, "L")
          BY <2>1, <3>1 DEF Lacking
        <4>2. \A n \in X, d \in Dir : Lacks(n, d) <=> n = NULL /\ d = "L"
          BY <2>2, <3>1, WholeIs DEF Lacks
        <4>3. QED
          BY <2>2, <4>1, <4>2, CountsAreOne
      <3>2. CASE elm # tree.root
        <4>1. SideOf(tree, parent, elm) = Deficit
          BY DEF SideOf, Deficit
        <4>2. Balanced(tree, bh, X, parent, Deficit)
          BY <2>1, <3>2, <4>1 DEF Lacking
        <4>3. \A n \in X, d \in Dir : Lacks(n, d) <=> n = parent /\ d = Deficit
          BY <1>4, <3>2 DEF Lacks
        <4>4. QED
          BY <2>2, <4>2, <4>3, CountsAreOne
      <3>3. QED
        BY <3>1, <3>2
    <2>4. InTree = X
      BY <2>2, InOrderFinds
    <2>5. QED
      BY <1>4, <2>2, <2>3, <2>4 DEF RedBlack, RedsApart
  <1>5. QED
    BY <1>2, <1>3, <1>4 DEF Quiet

\* tree.h:342-380 and 530-594: between any two steps the tree holds the nodes
\* that were inserted and not removed, child and parent links agree, and the
\* keys increase from left to right.
THEOREM TreeWellFormed == Spec => []WellFormed
  <1>1. RInv /\ TypeOK => WellFormed
    BY InvIsWellFormed DEF WellFormed
  <1>2. QED
    BY <1>1, RedBlackInvariant, TypesStay, PTL

\* tree.h:53-58: all paths from the root to a leaf have as many black nodes, and
\* a red node has a black parent, but for what a fix-up loop is about to repair.
THEOREM ColorsCorrect == Spec => []RedBlack
  <1>1. RInv => RedBlack
    BY InvIsRedBlack
  <1>2. QED
    BY <1>1, RedBlackInvariant, PTL


-----------------------------------------------------------------------------
(* Every loop ends.                                                        *)

\* The nodes of X above n.
Above(sub, X, n) == {m \in X : m # n /\ n \in sub[m]}

\* As many places as nodes.
LEMMA OrderedLength ==
  ASSUME NEW s, NEW S, Ordered(s, S)
  PROVE  Len(s) = Cardinality(S)
  <1>1. /\ s \in [1 .. Len(s) -> Nodes] /\ Len(s) \in Nat /\ DOMAIN s = 1 .. Len(s)
        /\ S = ToSet(s)
    BY DEF Ordered
  <1>2. \A i \in 1 .. Len(s) : s[i] \in S /\ s[i] \in Nodes
    BY <1>1 DEF ToSet
  <1>3. s \in [1 .. Len(s) -> S]
    BY <1>1, <1>2
  <1>4. ASSUME NEW i \in 1 .. Len(s), NEW j \in 1 .. Len(s), s[i] = s[j]
        PROVE  i = j
    <2>1. i < j => Key[s[i]] < Key[s[j]]
      BY DEF Ordered
    <2>2. j < i => Key[s[j]] < Key[s[i]]
      BY DEF Ordered
    <2>3. Key[s[i]] \in Int
      BY <1>2, KeyAssumption
    <2>4. QED
      BY <1>1, <1>4, <2>1, <2>2, <2>3
  <1>5. \A m \in S : \E i \in 1 .. Len(s) : s[i] = m
    BY <1>1 DEF ToSet
  <1>6. s \in Bijection(1 .. Len(s), S)
    BY <1>3, <1>4, <1>5 DEF Bijection, Injection, Surjection, IsInjective
  <1>7. ExistsBijection(1 .. Len(s), S)
    BY <1>6 DEF ExistsBijection
  <1>8. QED
    BY <1>1, <1>7, FS_CountingElements

\* InOrder has the nodes below each node of a search tree from left to right.
LEMMA InOrderBelow ==
  ASSUME NEW sub, NEW X, Tree(tree, sub, X), NEW n \in X \cup {NULL}
  PROVE  Ordered(InOrder(n), Under(sub, n)) /\ Len(InOrder(n)) = Cardinality(Under(sub, n))
  <1>1. PICK w : IsWalk(w) /\ InOrder(n) = w[Cardinality(Nodes)][n]
    BY WalkExists, InOrderIsWalk
  <1>2. Cardinality(Nodes) \in Fuel
    BY FiniteAssumption, FS_CardinalityType DEF Fuel
  <1>3. Ordered(InOrder(n), Under(sub, n))
    <2>1. CASE n = NULL
      BY <1>1, <1>2, <2>1, WalkFinds, OrderedFew DEF Under
    <2>2. CASE n # NULL
      <3>1. n \in X /\ sub[n] \in SUBSET Nodes /\ Under(sub, n) = sub[n]
        BY <2>2, WholeIs DEF Under
      <3>2. Cardinality(sub[n]) <= Cardinality(Nodes)
        BY <3>1, FiniteAssumption, FS_Subset
      <3>3. QED
        BY <1>1, <1>2, <3>1, <3>2, WalkFinds
    <2>3. QED
      BY <2>1, <2>2
  <1>4. QED
    BY <1>3, OrderedLength

\* Depth counts the nodes above a node.
LEMMA DepthIs ==
  ASSUME NEW sub, NEW X, Tree(tree, sub, X), NEW n \in X
  PROVE  Depth(n) = Cardinality(Above(sub, X, n))
  <1>1. InTree = X /\ NULL \notin X
    BY InOrderFinds, WholeIs
  <1>2. \A m \in X : ToSet(InOrder(m)) = sub[m]
    <2>1. \A m \in X : Ordered(InOrder(m), Under(sub, m)) /\ Under(sub, m) = sub[m]
      BY <1>1, InOrderBelow DEF Under
    <2>2. QED
      BY <2>1 DEF Ordered
  <1>3. {m \in InTree : m # n /\ n \in ToSet(InOrder(m))} = Above(sub, X, n)
    BY <1>1, <1>2 DEF Above
  <1>4. QED
    BY <1>3 DEF Depth

\* There are fewer nodes below a child.
LEMMA KidHasFewer ==
  ASSUME NEW t, NEW sub, NEW X, Tree(t, sub, X), NEW n \in X, NEW d \in Dir,
         NEW c, c = t.child[n][d]
  PROVE  /\ c \in X \cup {NULL}
         /\ Cardinality(Under(sub, c)) \in Nat /\ Cardinality(sub[n]) \in Nat
         /\ Cardinality(Under(sub, c)) < Cardinality(sub[n])
  <1>1. /\ c \in X \cup {NULL}
        /\ \A m \in Under(sub, c) : Before(d, m, n) /\ m \in sub[n]
    BY TreeIs
  <1>2. n \in Nodes /\ n \in sub[n] /\ sub[n] \in SUBSET Nodes
    BY WholeIs
  <1>3. n \notin Under(sub, c) /\ Under(sub, c) \in SUBSET sub[n]
    BY <1>1, <1>2, BeforeIs
  <1>4. /\ Cardinality(sub[n]) \in 1 .. Cardinality(Nodes) /\ Cardinality(Nodes) \in Nat
        /\ Cardinality(Under(sub, c)) \in 0 .. Cardinality(sub[n]) - 1
    BY <1>2, <1>3, SizeIs
  <1>5. QED
    BY <1>1, <1>4

\* There are fewer nodes above the parent.
LEMMA ParentHasFewer ==
  ASSUME NEW t, NEW sub, NEW X, Tree(t, sub, X), NEW n \in X, NEW p, p = t.parent[n], p # NULL
  PROVE  /\ p \in X
         /\ Cardinality(Above(sub, X, p)) \in Nat /\ Cardinality(Above(sub, X, n)) \in Nat
         /\ Cardinality(Above(sub, X, p)) < Cardinality(Above(sub, X, n))
  <1>1. p \in X /\ p # n /\ p \notin sub[n] /\ n \in sub[p]
    BY ParentIs
  <1>2. \A m \in X : p \in sub[m] => n \in sub[m]
    <2>1. \A m \in X : \A k \in sub[m] : sub[k] \subseteq sub[m]
      BY DEF Tree, SubIsRight
    <2>2. QED
      BY <1>1, <2>1
  <1>3. p \in Nodes /\ X \in SUBSET Nodes
    BY <1>1, WholeIs
  <1>4. /\ Above(sub, X, n) \in SUBSET Nodes /\ Above(sub, X, p) \in SUBSET Above(sub, X, n)
        /\ p \in Above(sub, X, n) /\ p \notin Above(sub, X, p)
    BY <1>1, <1>2, <1>3 DEF Above
  <1>5. /\ Cardinality(Above(sub, X, n)) \in 1 .. Cardinality(Nodes)
        /\ Cardinality(Nodes) \in Nat
        /\ Cardinality(Above(sub, X, p)) \in 0 .. Cardinality(Above(sub, X, n)) - 1
    BY <1>3, <1>4, SizeIs
  <1>6. QED
    BY <1>1, <1>5

\* The loops that go down from tmp, and those that go down from elm.
FromTmp == pc \in {"insert", "find", "nfind", "minmax"}
FromElm == pc \in {"down", "successor"}

\* Variant, told by sub.
Measured ==
  \A sub : Tree(tree, sub, Expected) =>
    /\ FromTmp => Variant = Cardinality(Under(sub, tmp))
    /\ FromElm => Variant = Cardinality(Under(sub, elm))
    /\ pc = "up" => Variant = Cardinality(Above(sub, Expected, elm))
    /\ pc = "insert_color" /\ ParentIsRed => Variant = Cardinality(Above(sub, Expected, elm))
    /\ pc = "insert_color" /\ ~ParentIsRed => Variant = 0
    /\ LacksBlack => Variant = 1 + Cardinality(Above(sub, Expected, parent))
    /\ pc = "remove_color" /\ ~LacksBlack => Variant = 0

\* Where the locals are that Variant speaks of.
LEMMA PlacesAre ==
  ASSUME RInv
  PROVE  /\ FromTmp => tmp \in Expected \cup {NULL}
         /\ FromElm \/ pc \in {"up", "insert_color"} => elm \in Expected
         /\ LacksBlack => parent \in Expected
  <1>1. PICK sub, bh : ShapeIs(sub, bh)
    BY DEF RInv, Shaped
  <1>2. CASE Quiet
    <2>1. PlaceIsRight(sub) /\ Expected = content
      BY <1>1, <1>2 DEF ShapeIs, Quiet, Expected
    <2>2. FromTmp => tmp \in content \cup {NULL}
      BY <2>1 DEF FromTmp, PlaceIsRight, Inserting, Finding, NFinding, MinMaxing
    <2>3. FromElm \/ pc = "up" => elm \in content
      BY <2>1 DEF FromElm, PlaceIsRight, Descending, Ascending
    <2>4. QED
      BY <1>2, <2>1, <2>2, <2>3 DEF Quiet, LacksBlack
  <1>3. CASE pc = "insert_color"
    <2>1. elm \in Expected
      BY <1>1, <1>3 DEF ShapeIs, Reddened, Expected
    <2>2. QED
      BY <1>3, <2>1 DEF FromTmp, FromElm, LacksBlack
  <1>4. CASE pc = "remove_color"
    <2>1. Lacking(tree, sub, bh, Expected, elm, parent)
      BY <1>1, <1>4 DEF ShapeIs, Expected
    <2>2. LacksBlack => parent \in Expected
      BY <2>1 DEF Lacking, LacksBlack
    <2>3. QED
      BY <1>4, <2>2 DEF FromTmp, FromElm
  <1>5. QED
    BY <1>2, <1>3, <1>4 DEF Quiet

\* In every reachable state Variant is what sub tells.
LEMMA InvIsMeasured ==
  ASSUME RInv
  PROVE  Measured
  <1> SUFFICES ASSUME NEW sub, Tree(tree, sub, Expected)
               PROVE  /\ FromTmp => Variant = Cardinality(Under(sub, tmp))
                      /\ FromElm => Variant = Cardinality(Under(sub, elm))
                      /\ pc = "up" => Variant = Cardinality(Above(sub, Expected, elm))
                      /\ pc = "insert_color" /\ ParentIsRed =>
                           Variant = Cardinality(Above(sub, Expected, elm))
                      /\ pc = "insert_color" /\ ~ParentIsRed => Variant = 0
                      /\ LacksBlack => Variant = 1 + Cardinality(Above(sub, Expected, parent))
                      /\ pc = "remove_color" /\ ~LacksBlack => Variant = 0
    BY DEF Measured
  <1>1. FromTmp => Variant = Cardinality(Under(sub, tmp))
    <2>1. FromTmp => Variant = Len(InOrder(tmp))
      BY DEF FromTmp, Variant
    <2>2. FromTmp => Len(InOrder(tmp)) = Cardinality(Under(sub, tmp))
      BY PlacesAre, InOrderBelow
    <2>3. QED
      BY <2>1, <2>2
  <1>2. FromElm => Variant = Cardinality(Under(sub, elm))
    <2>1. FromElm => Variant = Len(InOrder(elm))
      BY DEF FromElm, Variant
    <2>2. FromElm => Len(InOrder(elm)) = Cardinality(Under(sub, elm))
      BY PlacesAre, InOrderBelow
    <2>3. QED
      BY <2>1, <2>2
  <1>3. pc \in {"up", "insert_color"} => Depth(elm) = Cardinality(Above(sub, Expected, elm))
    BY PlacesAre, DepthIs
  <1>4. LacksBlack => Depth(parent) = Cardinality(Above(sub, Expected, parent))
    BY PlacesAre, DepthIs
  <1>5. /\ pc = "up" => Variant = Depth(elm)
        /\ pc = "insert_color" => Variant = IF ParentIsRed THEN Depth(elm) ELSE 0
        /\ pc = "remove_color" => Variant = IF LacksBlack THEN 1 + Depth(parent) ELSE 0
    BY DEF Variant
  <1>6. LacksBlack => pc = "remove_color"
    BY DEF LacksBlack
  <1>7. QED
    BY <1>1, <1>2, <1>3, <1>4, <1>5, <1>6

\* What Variant is after a step, told by sub.
LEMMA MeasuredNext ==
  ASSUME Measured', NEW sub, NEW t, NEW X, t = tree', X = Expected', Tree(t, sub, X)
  PROVE  /\ FromTmp' => Variant' = Cardinality(Under(sub, tmp'))
         /\ FromElm' => Variant' = Cardinality(Under(sub, elm'))
         /\ pc' = "up" => Variant' = Cardinality(Above(sub, X, elm'))
         /\ pc' = "insert_color" /\ ParentIsRed' => Variant' = Cardinality(Above(sub, X, elm'))
         /\ pc' = "insert_color" /\ ~ParentIsRed' => Variant' = 0
         /\ LacksBlack' => Variant' = 1 + Cardinality(Above(sub, X, parent'))
         /\ pc' = "remove_color" /\ ~LacksBlack' => Variant' = 0
  BY DEF Measured

\* A search that goes down from tmp.
LEMMA SearchShrinks ==
  ASSUME RInv, Measured, Measured', FromTmp, tmp # NULL, NEW d \in Dir,
         tmp' = tree.child[tmp][d], UNCHANGED <<tree, pc, call, content>>
  PROVE  Variant' < Variant
  <1>1. Quiet /\ Expected = content /\ Expected' = content /\ FromTmp'
    BY DEF FromTmp, Quiet, Expected
  <1>2. PICK sub, bh : Standing(tree, sub, bh, content) /\ PlaceIsRight(sub)
    BY <1>1, QuietIs
  <1>3. PICK t, X, n, c : t = tree /\ X = content /\ n = tmp /\ c = t.child[n][d]
    OBVIOUS
  <1>4. Tree(t, sub, X) /\ NULL \notin X
    BY <1>2, <1>3, FromRoot, SetsAre
  <1>5. n \in X /\ Under(sub, n) = sub[n]
    BY <1>1, <1>3, <1>4, PlacesAre DEF Under
  <1>6. Variant = Cardinality(sub[n])
    BY <1>1, <1>3, <1>4, <1>5 DEF Measured
  <1>7. Variant' = Cardinality(Under(sub, c))
    <2>1. t = tree' /\ X = Expected' /\ tmp' = c
      BY <1>1, <1>3
    <2>2. QED
      BY <1>1, <1>4, <2>1, MeasuredNext
  <1>8. QED
    BY <1>3, <1>4, <1>5, <1>6, <1>7, KidHasFewer

\* A search that goes down from elm.
LEMMA DescentShrinks ==
  ASSUME RInv, Measured, Measured', FromElm, NEW d \in Dir,
         elm' = tree.child[elm][d], elm' # NULL, UNCHANGED <<tree, pc, call, content>>
  PROVE  Variant' < Variant
  <1>1. Quiet /\ Expected = content /\ Expected' = content /\ FromElm'
    BY DEF FromElm, Quiet, Expected
  <1>2. PICK sub, bh : Standing(tree, sub, bh, content) /\ PlaceIsRight(sub)
    BY <1>1, QuietIs
  <1>3. PICK t, X, n, c : t = tree /\ X = content /\ n = elm /\ c = t.child[n][d]
    OBVIOUS
  <1>4. Tree(t, sub, X) /\ NULL \notin X
    BY <1>2, <1>3, FromRoot, SetsAre
  <1>5. n \in X /\ Under(sub, n) = sub[n]
    BY <1>1, <1>3, <1>4, PlacesAre DEF Under
  <1>6. Variant = Cardinality(sub[n])
    BY <1>1, <1>3, <1>4, <1>5 DEF Measured
  <1>7. Variant' = Cardinality(Under(sub, c))
    <2>1. t = tree' /\ X = Expected' /\ elm' = c
      BY <1>1, <1>3
    <2>2. QED
      BY <1>1, <1>4, <2>1, MeasuredNext
  <1>8. QED
    BY <1>3, <1>4, <1>5, <1>6, <1>7, KidHasFewer

\* RB_NEXT goes up.
LEMMA AscentShrinks ==
  ASSUME RInv, Measured, Measured', pc = "up", elm' = tree.parent[elm], elm' # NULL,
         UNCHANGED <<tree, pc, call, content>>
  PROVE  Variant' < Variant
  <1>1. Quiet /\ Expected = content /\ Expected' = content /\ pc' = "up"
    BY DEF Quiet, Expected
  <1>2. PICK sub, bh : Standing(tree, sub, bh, content) /\ PlaceIsRight(sub)
    BY <1>1, QuietIs
  <1>3. PICK t, X, n, p : t = tree /\ X = content /\ n = elm /\ p = t.parent[n]
    OBVIOUS
  <1>4. Tree(t, sub, X) /\ n \in X /\ p # NULL
    BY <1>1, <1>2, <1>3, FromRoot, PlacesAre
  <1>5. Variant = Cardinality(Above(sub, X, n))
    BY <1>1, <1>3, <1>4 DEF Measured
  <1>6. Variant' = Cardinality(Above(sub, X, p))
    <2>1. t = tree' /\ X = Expected' /\ elm' = p
      BY <1>1, <1>3
    <2>2. QED
      BY <1>1, <1>4, <2>1, MeasuredNext
  <1>7. QED
    BY <1>3, <1>4, <1>5, <1>6, ParentHasFewer

\* RB_INSERT_COLOR goes two levels up.
LEMMA RecolorUncleShrinks ==
  ASSUME RInv, Measured, Measured', RecolorUncle
  PROVE  Variant' < Variant
  <1>1. PICK sub, bh, b, X, p, g :
           /\ X = content \cup {call.arg} /\ X = content' \cup {call'.arg}
           /\ Reddened(tree, sub, bh, X, elm) /\ Reddened(tree', sub, b, X, g)
           /\ GrandFacts(tree, X, elm, p, g) /\ elm' = g
           /\ pc = "insert_color" /\ ParentIsRed
           /\ UNCHANGED <<pc, tmp, parent, call, content, loop>>
    BY RecolorUncleIs
  <1>2. PICK t, e, u : t = tree /\ e = elm /\ u = tree'
    OBVIOUS
  <1>3. Tree(t, sub, X) /\ Tree(u, sub, X) /\ X = Expected /\ X = Expected'
    BY <1>1, <1>2 DEF Reddened, Expected
  <1>4. /\ e \in X /\ p \in X /\ g \in X /\ NULL \notin X /\ t.parent[e] = p /\ t.parent[p] = g
    BY <1>1, <1>2 DEF GrandFacts
  <1>5. /\ Cardinality(Above(sub, X, p)) \in Nat /\ Cardinality(Above(sub, X, e)) \in Nat
        /\ Cardinality(Above(sub, X, g)) \in Nat
        /\ Cardinality(Above(sub, X, p)) < Cardinality(Above(sub, X, e))
        /\ Cardinality(Above(sub, X, g)) < Cardinality(Above(sub, X, p))
    <2>1. p # NULL /\ g # NULL
      BY <1>4
    <2>2. QED
      BY <1>3, <1>4, <2>1, ParentHasFewer
  <1>6. Variant = Cardinality(Above(sub, X, e))
    BY <1>1, <1>2, <1>3 DEF Measured
  <1>7. Variant' = Cardinality(Above(sub, X, g)) \/ Variant' = 0
    BY <1>1, <1>2, <1>3, MeasuredNext
  <1>8. QED
    BY <1>5, <1>6, <1>7

\* RB_INSERT_COLOR ends after the rotations.
LEMMA RotateGrandparentShrinks ==
  ASSUME RInv, Measured, Measured', RInv', RotateGrandparent
  PROVE  Variant' < Variant
  <1>1. /\ pc = "insert_color" /\ ParentIsRed /\ pc' = "insert_color"
    BY DEF RotateGrandparent
  <1>2. PICK sub, bh : Reddened(tree, sub, bh, content \cup {call.arg}, elm)
    BY <1>1, InsertColorIs
  <1>3. PICK t, e, X, p : t = tree /\ e = elm /\ X = Expected /\ p = t.parent[e]
    OBVIOUS
  <1>4. Reddened(t, sub, bh, X, e) /\ IsRed(t, p)
    BY <1>1, <1>2, <1>3 DEF Expected, ParentIsRed
  <1>5. Tree(t, sub, X) /\ e \in X /\ p # NULL
    BY <1>4 DEF Reddened, IsRed
  <1>6. /\ Cardinality(Above(sub, X, p)) \in Nat /\ Cardinality(Above(sub, X, e)) \in Nat
        /\ Cardinality(Above(sub, X, p)) < Cardinality(Above(sub, X, e))
    BY <1>3, <1>5, ParentHasFewer
  <1>7. Variant = Cardinality(Above(sub, X, e))
    BY <1>1, <1>3, <1>5 DEF Measured
  <1>8. Variant' = 0
    <2>1. PICK s, b : Reddened(tree, s, b, content \cup {call.arg}, elm)'
      <3>1. PICK s, b : ShapeIs(s, b)'
        BY DEF RInv, Shaped
      <3>2. QED
        BY <1>1, <3>1 DEF ShapeIs
    <2>2. PICK u, Y : u = tree' /\ Y = Expected'
      OBVIOUS
    <2>3. Tree(u, s, Y)
      BY <1>1, <2>1, <2>2 DEF Reddened, Expected
    <2>4. ~ParentIsRed'
      BY RotateGrandparentKeeps
    <2>5. QED
      BY <1>1, <2>2, <2>3, <2>4, MeasuredNext
  <1>9. QED
    BY <1>6, <1>7, <1>8

\* While a black node is lacking there is something ahead of RB_REMOVE_COLOR.
LEMMA LackIsAhead ==
  ASSUME RInv, Measured, LacksBlack, NEW sub, Tree(tree, sub, Expected)
  PROVE  /\ Variant = 1 + Cardinality(Above(sub, Expected, parent)) /\ Variant \in Nat
         /\ 0 < Variant
  <1>1. Above(sub, Expected, parent) \in SUBSET Nodes
    BY WholeIs DEF Above
  <1>2. Cardinality(Above(sub, Expected, parent)) \in Nat
    BY <1>1, FiniteAssumption, FS_Subset, FS_CardinalityType
  <1>3. Variant = 1 + Cardinality(Above(sub, Expected, parent))
    BY DEF Measured
  <1>4. QED
    BY <1>2, <1>3

\* RB_REMOVE_COLOR goes one level up, or ends, if the parent is red now.
LEMMA RecolorSiblingShrinks ==
  ASSUME RInv, Measured, Measured', RecolorSibling
  PROVE  Variant' < Variant
  <1>1. PICK sub, bh, b, X, s, f, w :
           /\ X = content \ {call.arg} /\ X = content' \ {call'.arg} /\ w = RotatedTree
           /\ Deprived(w, sub, bh, X, elm, parent, f)
           /\ s = w.child[parent][Opp(f)] /\ tree' = SetColor(w, s, "red")
           /\ Lacking(tree', sub, b, X, parent, w.parent[parent])
           /\ Locals(parent, NULL, w.parent[parent]) /\ (w = tree \/ IsRed(w, parent))
           /\ LacksBlack /\ pc = "remove_color" /\ UNCHANGED <<pc, call, content, loop>>
    BY RecolorSiblingIs
  <1>2. PICK t, e, q, u : t = tree /\ e = elm /\ q = parent /\ u = tree'
    OBVIOUS
  <1>3. /\ X = Expected /\ X = Expected' /\ pc' = "remove_color"
        /\ elm' = q /\ parent' = w.parent[q]
    BY <1>1, <1>2 DEF Expected, Locals
  <1>4. Deprived(w, sub, bh, X, e, q, f) /\ s = w.child[q][Opp(f)] /\ u = SetColor(w, s, "red")
    BY <1>1, <1>2
  <1>5. Tree(w, sub, X) /\ q \in X /\ Tree(u, sub, X)
    BY <1>1, <1>2 DEF Deprived, Lacking
  <1>6. w \in Trees /\ s \in X /\ s \in N0 /\ q \in Nodes /\ NULL \notin X
    <2>1. SiblingFacts(w, X, e, q, f, s)
      BY <1>4, SiblingIs
    <2>2. QED
      BY <1>5, <2>1, SetsAre DEF SiblingFacts
  <1>7. /\ u.root = w.root
        /\ \A x \in Nodes : u.color[x] = IF x = s THEN "red" ELSE w.color[x]
    BY <1>4, <1>6, SetColorIs DEF Colors
  <1>8. ~LacksBlack' => Variant' = 0
    BY <1>1, <1>2, <1>3, <1>5, MeasuredNext
  <1>9. LacksBlack' => ~IsRed(u, q) /\ q # u.root
    BY <1>2, <1>3 DEF LacksBlack
  <1>10. PICK v : Tree(t, v, X)
    <2>1. \E y, z : Lacking(tree, y, z, content \ {call.arg}, elm, parent)
      BY <1>1, RemoveColorIs
    <2>2. QED
      BY <1>1, <1>2, <2>1 DEF Lacking
  <1>11. 0 < Variant
    BY <1>1, <1>2, <1>3, <1>10, LackIsAhead
  <1>12. CASE ~LacksBlack'
    BY <1>8, <1>11, <1>12
  <1>13. CASE LacksBlack'
    <2>1. w = t
      <3>1. w = t \/ IsRed(w, q)
        BY <1>1, <1>2
      <3>2. IsRed(w, q) => IsRed(u, q)
        BY <1>6, <1>7 DEF IsRed
      <3>3. QED
        BY <1>9, <1>13, <3>1, <3>2
    <2>2. PICK p : p = w.parent[q]
      OBVIOUS
    <2>3. p # NULL
      BY <1>5, <1>7, <1>9, <1>13, <2>2, ParentIs
    <2>4. /\ Cardinality(Above(sub, X, p)) \in Nat /\ Cardinality(Above(sub, X, q)) \in Nat
          /\ Cardinality(Above(sub, X, p)) < Cardinality(Above(sub, X, q))
      BY <1>5, <2>2, <2>3, ParentHasFewer
    <2>5. Variant' = 1 + Cardinality(Above(sub, X, p))
      BY <1>2, <1>3, <1>5, <1>13, <2>2, MeasuredNext
    <2>6. Variant = 1 + Cardinality(Above(sub, X, q))
      BY <1>1, <1>2, <1>3, <1>5, <2>1, LackIsAhead
    <2>7. QED
      BY <2>4, <2>5, <2>6
  <1>14. QED
    BY <1>12, <1>13

\* RB_REMOVE_COLOR ends after the rotation about the parent.
LEMMA RotateParentShrinks ==
  ASSUME RInv, Measured, Measured', RInv', RotateParent
  PROVE  Variant' < Variant
  <1>1. /\ LacksBlack /\ pc = "remove_color" /\ UNCHANGED <<pc, call, content, loop>>
    <2>1. LacksBlack /\ UNCHANGED <<pc, call, content, loop>>
      BY Zenon DEF RotateParent
    <2>2. QED
      BY <2>1 DEF LacksBlack
  <1>2. elm' = tree'.root
    BY Zenon DEF RotateParent, Locals
  <1>3. PICK sub : Tree(tree, sub, Expected)
    <2>1. \E y, z : Lacking(tree, y, z, content \ {call.arg}, elm, parent)
      BY <1>1, RemoveColorIs
    <2>2. QED
      BY <1>1, <2>1 DEF Lacking, Expected
  <1>4. 0 < Variant
    BY <1>1, <1>3, LackIsAhead
  <1>5. PICK s, b : ShapeIs(s, b)'
    BY DEF RInv, Shaped
  <1>6. PICK u, Y : u = tree' /\ Y = Expected'
    OBVIOUS
  <1>7. Tree(u, s, Y)
    BY <1>1, <1>5, <1>6 DEF ShapeIs, Lacking, Expected
  <1>8. ~LacksBlack' /\ pc' = "remove_color"
    BY <1>1, <1>2 DEF LacksBlack
  <1>9. Variant' = 0
    BY <1>6, <1>7, <1>8, MeasuredNext
  <1>10. QED
    BY <1>4, <1>9

\* A step that stays in a loop of a macro is an iteration of it.
LEMMA IterationsAre ==
  ASSUME Next, pc # "idle", pc' = pc
  PROVE  \/ InsertDescend \/ FindDescend \/ NfindDescend \/ MinMaxDescend
         \/ StepDown \/ FindSuccessor \/ StepUp
         \/ RecolorUncle \/ RotateGrandparent \/ RecolorSibling \/ RotateParent
  <1>1. ~Invoke
    BY DEF Invoke, CallInsert, CallFind, CallNfind, CallRemove, CallStep, CallMinMax, Start
  <1>2. ~Iterate
    <2>1. \A d \in Dir : ~Foreach(d) /\ \A n \in Nodes : ~ForeachFrom(d, n)
      BY DEF Foreach, ForeachFrom, CallMinMax, CallStep, Start
    <2>2. ~ForeachFirst /\ ~ForeachBody /\ ~ForeachRemove /\ ~ForeachNext
      BY DEF ForeachFirst, ForeachBody, ForeachRemove, ForeachNext
    <2>3. QED
      BY <2>1, <2>2 DEF Iterate
  <1>3. \A r : ~Return(r)
    BY DEF Return
  <1>4. ~InsertFound /\ ~InsertReturn /\ ~RemoveReturn /\ ~FindReturn /\ ~MinMaxReturn
    BY <1>3 DEF InsertFound, InsertReturn, RemoveReturn, FindReturn, MinMaxReturn
  <1>5. ~NfindReturn
    BY <1>3 DEF NfindReturn
  <1>6. ~InsertLink
    BY DEF InsertLink
  <1>7. ~Unlink
    <2>1. \A t, c, n, p : Recolor(t, c, n, p) => pc' = "remove_color"
      BY <1>3 DEF Recolor
    <2>2. QED
      BY <2>1 DEF Unlink
  <1>8. ~SpliceSuccessor
    <2>1. \A t, c, n, p : Recolor(t, c, n, p) => pc' = "remove_color"
      BY <1>3 DEF Recolor
    <2>2. QED
      BY <2>1 DEF SpliceSuccessor
  <1>9. QED
    BY Zenon, <1>1, <1>2, <1>4, <1>5, <1>6, <1>7, <1>8 DEF Next, Work

\* An iteration that does not end its loop has less ahead of it.
LEMMA StepShrinks ==
  ASSUME RInv, Measured, RInv', Measured', Next, pc # "idle", pc' = pc
  PROVE  Variant' < Variant
  <1>1. CASE InsertDescend \/ FindDescend \/ NfindDescend
    <2>1. /\ FromTmp /\ tmp # NULL /\ tmp' = tree.child[tmp][Side(elm, tmp)]
          /\ UNCHANGED <<tree, pc, call, content>>
      BY <1>1 DEF InsertDescend, FindDescend, NfindDescend, FromTmp, Locals
    <2>2. Side(elm, tmp) \in Dir
      BY DEF Side, Dir
    <2>3. QED
      BY <2>1, <2>2, SearchShrinks
  <1>2. CASE MinMaxDescend
    <2>1. /\ FromTmp /\ tmp # NULL /\ tmp' = tree.child[tmp][MinMaxDir]
          /\ UNCHANGED <<tree, pc, call, content>>
      BY <1>2 DEF MinMaxDescend, FromTmp, Locals
    <2>2. MinMaxDir \in Dir
      BY DEF MinMaxDir, Dir
    <2>3. QED
      BY <2>1, <2>2, SearchShrinks
  <1>3. CASE StepDown
    <2>1. \A r : ~Return(r)
      BY DEF Return
    <2>2. /\ FromElm /\ elm' = tree.child[elm][Opp(StepDir)] /\ elm' # NULL
          /\ UNCHANGED <<tree, pc, call, content>>
      BY <1>3, <2>1 DEF StepDown, FromElm
    <2>3. Opp(StepDir) \in Dir
      BY DEF StepDir, Opp, Dir
    <2>4. QED
      BY <2>2, <2>3, DescentShrinks
  <1>4. CASE FindSuccessor
    <2>1. /\ FromElm /\ elm' = tree.child[elm]["L"] /\ elm' # NULL
          /\ UNCHANGED <<tree, pc, call, content>>
      BY <1>4 DEF FindSuccessor, FromElm, Left
    <2>2. "L" \in Dir
      BY DEF Dir
    <2>3. QED
      BY <2>1, <2>2, DescentShrinks
  <1>5. CASE StepUp
    <2>1. \A r : ~Return(r)
      BY DEF Return
    <2>2. /\ pc = "up" /\ elm' = tree.parent[elm] /\ elm' # NULL
          /\ UNCHANGED <<tree, pc, call, content>>
      BY <1>5, <2>1 DEF StepUp
    <2>3. QED
      BY <2>2, AscentShrinks
  <1>6. QED
    BY <1>1, <1>2, <1>3, <1>4, <1>5, IterationsAre, RecolorUncleShrinks, RotateGrandparentShrinks,
       RecolorSiblingShrinks, RotateParentShrinks

\* tree.h: the loops of the macros end.  Each iteration that is not the last of
\* its loop leaves fewer nodes below, on the way down, or above, on the way up,
\* where the fix-up loops of RB_INSERT_COLOR and RB_REMOVE_COLOR go.
THEOREM LoopsTerminate == Spec => LoopsEnd
  <1>1. RInv => Measured
    BY InvIsMeasured
  <1>2. RInv /\ Measured /\ RInv' /\ Measured' /\ [Next]_vars
          => [pc # "idle" /\ pc' = pc => Variant' < Variant]_vars
    BY StepShrinks
  <1>3. QED
    BY <1>1, <1>2, RedBlackInvariant, PTL DEF Spec, LoopsEnd
=============================================================================
