--------------------------- MODULE SplayTreeProofs ---------------------------
(***************************************************************************)
(* Proofs about SplayTree, for any nodes and any keys: the splay tree of   *)
(* tree.h implements OrderedSet.                                           *)
(*                                                                         *)
(* What a walk down the links finds needs induction.  The proofs speak     *)
(* of sub, which gives every node a set of nodes that is right for its     *)
(* children: itself and theirs.  A step of the loop changes sub as it      *)
(* changes the links.                                                      *)
(***************************************************************************)
EXTENDS SplayTree, FiniteSetTheorems, WellFoundedInduction, TLAPS

-----------------------------------------------------------------------------
(* Forests.                                                                *)

\* A node or none.
N0 == Nodes \cup {NULL}

\* What a link holds.
Links == N0 \cup {STALE}

\* Whatever has links.
Rows == Nodes \cup {SCRATCH}

\* The values of tree.
Trees == [root : N0, child : [Rows -> [Dir -> Links]]]

\* The values of side.
Sides == [Dir -> Rows]

\* m is on side d of n.
Before(d, m, n) == IF d = "L" THEN Key[m] < Key[n] ELSE Key[n] < Key[m]

\* The child of n on side d, if the link is not one to hang the next node on.
Kid(t, s, n, d) == IF n = s[Opp(d)] THEN NULL ELSE t.child[n][d]

\* The nodes of the tree below n.
Under(sub, n) == IF n = NULL THEN {} ELSE sub[n]

\* The nodes X form search trees, and sub has the nodes of each.
NodeIsRight(t, s, sub, X, n) ==
  /\ \A d \in Dir :
       /\ Kid(t, s, n, d) \in X \cup {NULL}
       /\ \A m \in Under(sub, Kid(t, s, n, d)) : Before(d, m, n)
  /\ \A m \in Nodes : m \in sub[n] <=> m = n \/ \E d \in Dir : m \in Under(sub, Kid(t, s, n, d))
  /\ \A m \in sub[n] : m \in X /\ sub[m] \subseteq sub[n]

\* All nodes of X are right.
Forest(t, s, sub, X) ==
  /\ t \in Trees /\ s \in Sides /\ sub \in [Nodes -> SUBSET Nodes] /\ X \in SUBSET Nodes
  /\ \A n \in X : NodeIsRight(t, s, sub, X, n)

\* The nodes set aside on side d.
Piece(t, s, sub, d) == Under(sub, Kid(t, s, SCRATCH, Opp(d)))

\* The two pieces and the tree between them; T are the nodes of a tree that is
\* kept apart, all of them greater.
Parted(t, s, sub, X, T) ==
  /\ t.root \in X
  /\ \A d \in Dir :
       /\ Kid(t, s, SCRATCH, Opp(d)) \in X \cup {NULL}
       /\ \A m \in Piece(t, s, sub, d), k \in sub[t.root] : Before(d, m, k)
       /\ s[d] = SCRATCH \/ s[d] \in Piece(t, s, sub, d)
       /\ \A m \in Piece(t, s, sub, d) :
            (m = s[d] \/ Before(d, m, s[d])) /\ Comp(m) = Opp(d)
  /\ \A n \in X : \/ n \in sub[t.root] \/ n \in T
                  \/ \E d \in Dir : n \in Piece(t, s, sub, d)
  /\ \A n \in T :
       /\ n \in X /\ sub[n] \subseteq T
       /\ n \notin sub[t.root] /\ \A d \in Dir : n \notin Piece(t, s, sub, d)
  /\ \A n \in X, m \in T : n \in T \/ Before("L", n, m)

\* What these sets have in common.
LEMMA RowsAre ==
  /\ Nodes \subseteq Rows /\ SCRATCH \in Rows /\ SCRATCH \notin Nodes
  /\ \A x \in Rows : x \in Nodes \/ x = SCRATCH
  /\ N0 \subseteq Links /\ Nodes \subseteq N0 /\ NULL \in N0 /\ NULL \notin Nodes
  /\ \A x \in N0 : x \in Nodes \/ x = NULL
  BY KeyAssumption DEF Rows, Links, N0

\* What SetChild does.
LEMMA SetChildIs ==
  ASSUME NEW t \in Trees, NEW n \in Rows, NEW d \in Dir,
         NEW m \in Links
  PROVE  /\ SetChild(t, n, d, m) \in Trees
         /\ SetChild(t, n, d, m).root = t.root
         /\ \A x \in Rows, e \in Dir :
              SetChild(t, n, d, m).child[x][e] =
                IF x = n /\ e = d THEN m ELSE t.child[x][e]
  BY DEF SetChild, Trees, Rows, Links

\* What a change of the root does.
LEMMA SetRootIs ==
  ASSUME NEW t \in Trees, NEW n \in N0
  PROVE  /\ [t EXCEPT !.root = n] \in Trees
         /\ [t EXCEPT !.root = n].root = n
         /\ [t EXCEPT !.root = n].child = t.child
  BY DEF Trees, Rows, Links

\* The other side.
LEMMA OppIs ==
  /\ \A d \in Dir : Opp(d) \in Dir /\ Opp(d) # d /\ Opp(Opp(d)) = d
  /\ \A d, e \in Dir : e = d \/ e = Opp(d)
  BY DEF Opp, Dir

\* Before is an order, and that of the other side is the other way round.
LEMMA BeforeIs ==
  ASSUME NEW d \in Dir
  PROVE  /\ \A m \in Nodes : ~Before(d, m, m)
         /\ \A m, n, k \in Nodes : Before(d, m, n) /\ Before(d, n, k) => Before(d, m, k)
         /\ \A m, n \in Nodes : Before(d, m, n) <=> Before(Opp(d), n, m)
  BY KeyAssumption DEF Before, Opp, Dir

\* The trees of a forest, seen from the side d.
LEMMA ForestIs ==
  ASSUME NEW t, NEW s, NEW sub, NEW X,
         Forest(t, s, sub, X), NEW n \in X, NEW d \in Dir
  PROVE  /\ Kid(t, s, n, d) \in X \cup {NULL} /\ Kid(t, s, n, Opp(d)) \in X \cup {NULL}
         /\ Under(sub, Kid(t, s, n, d)) \subseteq Nodes
         /\ Under(sub, Kid(t, s, n, Opp(d))) \subseteq Nodes
         /\ \A m \in Under(sub, Kid(t, s, n, d)) : Before(d, m, n)
         /\ \A m \in Under(sub, Kid(t, s, n, Opp(d))) : Before(d, n, m)
         /\ sub[n] = {n} \cup Under(sub, Kid(t, s, n, d)) \cup Under(sub, Kid(t, s, n, Opp(d)))
         /\ \A m \in sub[n] : m \in X /\ sub[m] \subseteq sub[n]
         /\ n \in sub[n]
  <1> DEFINE near == Kid(t, s, n, d)
             far == Kid(t, s, n, Opp(d))
  <1>1. NodeIsRight(t, s, sub, X, n) /\ sub \in [Nodes -> SUBSET Nodes] /\ X \in SUBSET Nodes
    BY DEF Forest
  <1> USE <1>1
  <1>2. near \in X \cup {NULL} /\ far \in X \cup {NULL}
    BY <1>1, OppIs DEF NodeIsRight
  <1>3. Under(sub, near) \subseteq Nodes /\ Under(sub, far) \subseteq Nodes
    BY <1>1, <1>2 DEF Under
  <1>4. \A m \in Under(sub, near) : Before(d, m, n)
    BY <1>1 DEF NodeIsRight
  <1>5. \A m \in Under(sub, far) : Before(d, n, m)
    <2>1. \A m \in Under(sub, far) : Before(Opp(d), m, n)
      BY <1>1, OppIs DEF NodeIsRight
    <2>2. QED
      BY <1>3, <2>1, BeforeIs, OppIs
  <1>6. sub[n] = {n} \cup Under(sub, near) \cup Under(sub, far)
    <2>1. \A m \in Nodes : m \in sub[n] <=> m = n \/ m \in Under(sub, near) \/ m \in Under(sub, far)
      BY <1>1, OppIs DEF NodeIsRight
    <2>2. sub[n] \subseteq Nodes
      BY <1>1
    <2> HIDE DEF near, far
    <2>3. QED
      BY <1>3, <2>1, <2>2
  <1>7. \A m \in sub[n] : m \in X /\ sub[m] \subseteq sub[n]
    BY <1>1 DEF NodeIsRight
  <1>8. QED
    BY <1>2, <1>3, <1>4, <1>5, <1>6, <1>7

\* A node is right if its set is the one of its two children.
LEMMA RightIs ==
  ASSUME NEW t, NEW s \in Sides, NEW sub \in [Nodes -> SUBSET Nodes],
         NEW X \in SUBSET Nodes, NEW n \in X, NEW d \in Dir,
         Kid(t, s, n, d) \in X \cup {NULL}, Kid(t, s, n, Opp(d)) \in X \cup {NULL},
         \A m \in Under(sub, Kid(t, s, n, d)) : Before(d, m, n),
         \A m \in Under(sub, Kid(t, s, n, Opp(d))) : Before(d, n, m),
         sub[n] = {n} \cup Under(sub, Kid(t, s, n, d)) \cup Under(sub, Kid(t, s, n, Opp(d))),
         \A m \in sub[n] : m \in X /\ sub[m] \subseteq sub[n]
  PROVE  NodeIsRight(t, s, sub, X, n)
  <1>1. \A e \in Dir : Kid(t, s, n, e) \in X \cup {NULL}
    BY OppIs
  <1>2. Under(sub, Kid(t, s, n, Opp(d))) \subseteq Nodes
    BY DEF Under
  <1>3. \A m \in Under(sub, Kid(t, s, n, Opp(d))) : Before(Opp(d), m, n)
    BY <1>2, BeforeIs
  <1>4. \A e \in Dir : \A m \in Under(sub, Kid(t, s, n, e)) : Before(e, m, n)
    BY <1>3, OppIs
  <1>5. \A m \in Nodes : m \in sub[n] <=> m = n \/ \E e \in Dir : m \in Under(sub, Kid(t, s, n, e))
    BY OppIs
  <1>6. QED
    BY <1>1, <1>4, <1>5 DEF NodeIsRight

\* Of two nodes only one can be below the other.
LEMMA BelowIs ==
  ASSUME NEW t, NEW s, NEW sub, NEW X,
         Forest(t, s, sub, X), NEW n \in X, NEW m \in sub[n]
  PROVE  /\ n \in sub[m] => m = n
         /\ \A d \in Dir : m \in Under(sub, Kid(t, s, n, d)) =>
              sub[m] \subseteq Under(sub, Kid(t, s, n, d)) /\ n \notin sub[m]
  <1>0. sub \in [Nodes -> SUBSET Nodes] /\ X \in SUBSET Nodes
    BY DEF Forest
  <1> USE <1>0
  <1>1. ASSUME NEW d \in Dir, m \in Under(sub, Kid(t, s, n, d))
        PROVE  sub[m] \subseteq Under(sub, Kid(t, s, n, d)) /\ n \notin sub[m]
    <2> DEFINE k == Kid(t, s, n, d)
    <2>1. k \in X /\ Under(sub, k) = sub[k] /\ \A x \in sub[k] : Before(d, x, n)
      BY <1>1, ForestIs DEF Under
    <2> HIDE DEF k
    <2>2. sub[m] \subseteq sub[k]
      BY <1>1, <2>1, ForestIs DEF k
    <2>3. n \notin sub[k]
      BY <2>1, BeforeIs
    <2>4. QED
      BY <2>1, <2>2, <2>3 DEF k
  <1>2. m = n \/ \E d \in Dir : m \in Under(sub, Kid(t, s, n, d))
    BY OppIs DEF Forest, NodeIsRight
  <1>3. QED
    BY <1>1, <1>2

\* SPLAY_ROTATE_RIGHT and SPLAY_ROTATE_LEFT: the trees stay search trees with
\* the same nodes, whatever else is in the forest.
LEMMA RotateIs ==
  ASSUME NEW t, NEW s, NEW sub, NEW X, Forest(t, s, sub, X), NEW d \in Dir,
         NEW r \in X, t.root = r, NEW up \in X, t.child[r][d] = up,
         \A e \in Dir : s[e] \notin sub[r],
         \A n \in X : n \in sub[r] \/ sub[n] \cap sub[r] = {}
  PROVE  \E new \in [Nodes -> SUBSET Nodes] :
           /\ RotateRoot(t, d) \in Trees
           /\ RotateRoot(t, d).root = up
           /\ Forest(RotateRoot(t, d), s, new, X)
           /\ new[up] = sub[r]
           /\ \A n \in X \ sub[r] : new[n] = sub[n]
           /\ \A x \in Rows \ sub[r], e \in Dir :
                RotateRoot(t, d).child[x][e] = t.child[x][e]
  <1> DEFINE o == Opp(d)
             u == RotateRoot(t, d)
             mid == Kid(t, s, up, o)
             near == Kid(t, s, up, d)
             far == Kid(t, s, r, o)
             new == [sub EXCEPT ![r] = {r} \cup Under(sub, mid) \cup Under(sub, far),
                                ![up] = sub[r]]
  <1>0. t \in Trees /\ s \in Sides /\ sub \in [Nodes -> SUBSET Nodes] /\ X \in SUBSET Nodes
    BY DEF Forest
  <1> USE <1>0
  <1>1. o \in Dir /\ o # d /\ Opp(o) = d /\ \A e \in Dir : e = d \/ e = o
    BY OppIs
  <1> HIDE DEF o
  <1>2. r \in sub[r] /\ s[d] # r /\ s[o] # r /\ Kid(t, s, r, d) = up /\ far = t.child[r][o]
    <2>1. r \in sub[r]
      BY ForestIs
    <2>2. QED
      BY <1>1, <2>1 DEF Kid, o
  <1>3. /\ far \in X \cup {NULL} /\ Under(sub, far) \subseteq Nodes
        /\ \A m \in sub[up] : Before(d, m, r)
        /\ \A m \in Under(sub, far) : Before(d, r, m)
        /\ sub[r] = {r} \cup sub[up] \cup Under(sub, far)
        /\ \A m \in sub[r] : m \in X /\ sub[m] \subseteq sub[r]
    BY <1>2, ForestIs, KeyAssumption DEF Under, o
  <1>4. /\ mid \in X \cup {NULL} /\ near \in X \cup {NULL}
        /\ Under(sub, mid) \subseteq Nodes /\ Under(sub, near) \subseteq Nodes
        /\ \A m \in Under(sub, near) : Before(d, m, up)
        /\ \A m \in Under(sub, mid) : Before(d, up, m)
        /\ sub[up] = {up} \cup Under(sub, near) \cup Under(sub, mid)
        /\ up \in sub[up]
    BY ForestIs DEF o
  <1>5. up # r /\ up \in sub[r]
    BY <1>3, <1>4, BeforeIs
  <1>6. s[d] # up /\ s[o] # up /\ mid = t.child[up][o] /\ near = t.child[up][d]
    BY <1>1, <1>5 DEF Kid, o
  <1>7. /\ u \in Trees /\ u.root = up
        /\ \A x \in Rows, e \in Dir :
             u.child[x][e] = IF x = r /\ e = d THEN mid
                             ELSE IF x = up /\ e = o THEN r ELSE t.child[x][e]
    <2> DEFINE t1 == SetChild(t, r, d, t.child[up][o])
               t2 == SetChild(t1, up, o, r)
    <2>1. t.child[up][o] = mid /\ mid \in N0
      BY <1>4, <1>6 DEF N0
    <2>2. /\ t1 \in Trees
          /\ \A x \in Rows, e \in Dir :
               t1.child[x][e] = IF x = r /\ e = d THEN mid ELSE t.child[x][e]
      BY <2>1, SetChildIs, RowsAre
    <2> HIDE DEF t1
    <2>3. /\ t2 \in Trees
          /\ \A x \in Rows, e \in Dir :
               t2.child[x][e] = IF x = up /\ e = o THEN r ELSE t1.child[x][e]
      <3>1. r \in N0 /\ up \in Nodes
        BY DEF N0
      <3>2. QED
        BY <1>1, <2>2, <3>1, SetChildIs, RowsAre
    <2> HIDE DEF t2
    <2>4. u = [t2 EXCEPT !.root = up]
      BY DEF RotateRoot, t1, t2, o
    <2>5. u \in Trees /\ u.root = up /\ u.child = t2.child
      BY <2>3, <2>4, SetRootIs DEF N0
    <2>6. QED
      BY <1>5, <2>2, <2>3, <2>5
  <1> HIDE DEF u
  <1>8. /\ Kid(u, s, r, d) = mid /\ Kid(u, s, r, o) = far
        /\ Kid(u, s, up, d) = near /\ Kid(u, s, up, o) = r
        /\ \A x \in Rows \ {r, up}, e \in Dir : Kid(u, s, x, e) = Kid(t, s, x, e)
    BY <1>1, <1>2, <1>5, <1>6, <1>7, RowsAre DEF Kid, o
  <1> HIDE DEF mid, near, far
  <1>9. /\ new \in [Nodes -> SUBSET Nodes]
        /\ new[r] = {r} \cup Under(sub, mid) \cup Under(sub, far)
        /\ new[up] = sub[r]
        /\ \A n \in Nodes \ {r, up} : new[n] = sub[n]
    BY <1>3, <1>4, <1>5
  <1> HIDE DEF new
  \* No other node has one of the two below it, but those the root is below.
  <1>10. ASSUME NEW n \in X, n # r, n # up
         PROVE  r \notin sub[n] /\ up \notin sub[n]
    <2>1. ASSUME r \in sub[n] \/ up \in sub[n]
          PROVE  n \in sub[r]
      BY <1>2, <1>5, <2>1
    <2>2. r \notin sub[n]
      BY <1>10, <2>1, BelowIs
    <2>3. ASSUME up \in sub[n]
          PROVE  FALSE
      <3>1. n \in sub[up] \/ n \in Under(sub, far)
        BY <1>3, <1>10, <2>1, <2>3
      <3>2. n \notin sub[up]
        BY <1>10, <2>3, BelowIs
      <3>3. n \in Under(sub, far) => sub[n] \subseteq Under(sub, far)
        BY <1>1, <2>1, <2>3, BelowIs DEF far
      <3>4. up \notin Under(sub, far)
        BY <1>3, <1>4, BeforeIs
      <3>5. QED
        BY <2>3, <3>1, <3>2, <3>3, <3>4
    <2>4. QED
      BY <2>2, <2>3
  <1>11. \A k \in {mid, near, far} :
           /\ Under(new, k) = Under(sub, k)
           /\ r \notin Under(sub, k) /\ up \notin Under(sub, k)
    <2>1. r \notin Under(sub, mid) /\ r \notin Under(sub, near) /\ r \notin Under(sub, far)
      BY <1>3, <1>4, BeforeIs
    <2>2. up \notin Under(sub, mid) /\ up \notin Under(sub, near) /\ up \notin Under(sub, far)
      BY <1>3, <1>4, BeforeIs
    <2>3. \A k \in X : k \in sub[k]
      BY ForestIs
    <2>4. QED
      BY <1>3, <1>4, <1>9, <2>1, <2>2, <2>3 DEF Under
  <1>12. NodeIsRight(u, s, new, X, r)
    <2>1. \A m \in Under(new, mid) : Before(d, m, r)
      BY <1>3, <1>4, <1>11
    <2>2. \A m \in Under(new, far) : Before(d, r, m)
      BY <1>3, <1>11
    <2>3. new[r] = {r} \cup Under(new, mid) \cup Under(new, far)
      BY <1>9, <1>11
    <2>4. ASSUME NEW m \in new[r]
          PROVE  m \in X /\ new[m] \subseteq new[r]
      <3>1. m = r \/ m \in Under(sub, mid) \/ m \in Under(sub, far)
        BY <1>9, <2>4
      <3>2. ASSUME m \in Under(sub, mid)
            PROVE  m \in sub[up] /\ sub[m] \subseteq Under(sub, mid)
        BY <1>1, <1>4, <3>2, BelowIs DEF mid
      <3>3. ASSUME m \in Under(sub, far)
            PROVE  sub[m] \subseteq Under(sub, far)
        BY <1>1, <1>3, <3>3, BelowIs DEF far
      <3>4. m # r => new[m] = sub[m]
        BY <1>9, <1>11, <3>1, <1>3, <1>4
      <3>5. QED
        BY <1>3, <1>9, <3>1, <3>2, <3>3, <3>4
    <2>5. QED
      BY <1>1, <1>3, <1>4, <1>8, <1>9, <2>1, <2>2, <2>3, <2>4, RightIs DEF o
  <1>13. NodeIsRight(u, s, new, X, up)
    <2>1. new[r] \subseteq sub[r]
      BY <1>3, <1>4, <1>9
    <2>2. \A m \in Under(new, near) : Before(d, m, up)
      BY <1>4, <1>11
    <2>3. Under(new, r) = new[r]
      BY KeyAssumption DEF Under
    <2>4. \A m \in Under(new, r) : Before(d, up, m)
      BY <1>3, <1>4, <1>5, <1>9, <2>3, BeforeIs
    <2>5. new[up] = {up} \cup Under(new, near) \cup Under(new, r)
      BY <1>3, <1>4, <1>9, <1>11, <2>3
    <2>6. ASSUME NEW m \in new[up]
          PROVE  m \in X /\ new[m] \subseteq new[up]
      BY <1>3, <1>9, <2>1, <2>6
    <2>7. QED
      BY <1>1, <1>4, <1>8, <1>9, <2>2, <2>4, <2>5, <2>6, RightIs DEF o
  <1>14. ASSUME NEW n \in X, n # r, n # up
         PROVE  NodeIsRight(u, s, new, X, n)
    <2>1. \A e \in Dir : Kid(u, s, n, e) = Kid(t, s, n, e)
      BY <1>8, <1>14, RowsAre
    <2>2. r \notin sub[n] /\ up \notin sub[n] /\ new[n] = sub[n]
      BY <1>9, <1>10, <1>14
    <2>3. ASSUME NEW e \in Dir
          PROVE  Under(new, Kid(t, s, n, e)) = Under(sub, Kid(t, s, n, e))
      <3>1. Kid(t, s, n, e) \in X \cup {NULL} /\ Under(sub, Kid(t, s, n, e)) \subseteq sub[n]
        BY ForestIs
      <3>2. Kid(t, s, n, e) \in X => Kid(t, s, n, e) \in sub[n]
        BY <3>1, ForestIs, KeyAssumption DEF Under
      <3>3. QED
        BY <1>9, <2>2, <3>1, <3>2 DEF Under
    <2>4. \A m \in sub[n] : new[m] = sub[m]
      BY <1>9, <2>2
    <2>5. NodeIsRight(t, s, sub, X, n)
      BY DEF Forest
    <2>6. QED
      BY <2>1, <2>2, <2>3, <2>4, <2>5 DEF NodeIsRight
  <1>15. Forest(u, s, new, X)
    BY <1>7, <1>9, <1>12, <1>13, <1>14 DEF Forest
  <1>16. \A n \in X \ sub[r] : new[n] = sub[n]
    BY <1>2, <1>5, <1>9
  <1>17. \A x \in Rows \ sub[r], e \in Dir : u.child[x][e] = t.child[x][e]
    BY <1>2, <1>5, <1>7
  <1>18. QED
    BY <1>7, <1>9, <1>15, <1>16, <1>17 DEF u

\* The parts are closed under the links and have no node in common.
LEMMA PartsApart ==
  ASSUME NEW t, NEW s, NEW sub, NEW X, NEW T, Forest(t, s, sub, X), Parted(t, s, sub, X, T)
  PROVE  /\ sub[t.root] \subseteq X /\ T \subseteq X
         /\ \A n \in sub[t.root] : sub[n] \subseteq sub[t.root] /\ n \notin T
         /\ \A e \in Dir :
              /\ Piece(t, s, sub, e) \subseteq X
              /\ s[e] = SCRATCH <=> Piece(t, s, sub, e) = {}
              /\ \A n \in Piece(t, s, sub, e) :
                   /\ sub[n] \subseteq Piece(t, s, sub, e)
                   /\ n \notin sub[t.root] /\ n \notin Piece(t, s, sub, Opp(e)) /\ n \notin T
         /\ \A n \in X : n \in sub[t.root] \/ sub[n] \cap sub[t.root] = {}
         /\ \A n \in X, e \in Dir :
              n \in Piece(t, s, sub, e) \/ sub[n] \cap Piece(t, s, sub, e) = {}
         /\ \A n \in X, e \in Dir : s[e] \in sub[n] => n \in Piece(t, s, sub, e)
  <1> DEFINE M == sub[t.root]
             P(e) == Piece(t, s, sub, e)
  <1>1. sub \in [Nodes -> SUBSET Nodes] /\ X \in SUBSET Nodes /\ s \in Sides /\ t.root \in X
    BY DEF Forest, Parted
  <1> USE <1>1
  <1>2. \A n \in X : n \in sub[n] /\ \A m \in sub[n] : m \in X /\ sub[m] \subseteq sub[n]
    <2>1. "L" \in Dir
      BY DEF Dir
    <2>2. QED
      BY <2>1, ForestIs
  <1>3. M \subseteq X /\ \A n \in M : sub[n] \subseteq M
    BY <1>2
  <1>4. ASSUME NEW e \in Dir
        PROVE  P(e) \subseteq X /\ \A n \in P(e) : sub[n] \subseteq P(e)
    <2>1. Kid(t, s, SCRATCH, Opp(e)) \in X \cup {NULL}
      BY DEF Parted
    <2>2. QED
      BY <1>2, <2>1 DEF Piece, Under
  <1>5. T \subseteq X /\ \A n \in T : sub[n] \subseteq T
    BY DEF Parted
  <1>6. ASSUME NEW e \in Dir
        PROVE  /\ \A m \in P(e), k \in M : Before(e, m, k)
               /\ s[e] = SCRATCH \/ s[e] \in P(e)
    BY DEF Parted
  <1>7. \A e \in Dir : s[e] = SCRATCH <=> P(e) = {}
    <2>1. ASSUME NEW e \in Dir, s[e] = SCRATCH
          PROVE  P(e) = {}
      BY <2>1, OppIs DEF Piece, Kid, Under
    <2>2. ASSUME NEW e \in Dir, P(e) = {}
          PROVE  s[e] = SCRATCH
      BY <1>6, <2>2
    <2>3. QED
      BY <2>1, <2>2
  <1>8. t.root \in M /\ SCRATCH \notin Nodes
    BY <1>2, KeyAssumption
  <1>9. ASSUME NEW e \in Dir, NEW n \in P(e)
        PROVE  n \notin M /\ n \notin P(Opp(e))
    <2>1. Opp(e) \in Dir /\ n \in Nodes /\ t.root \in Nodes
      BY <1>4, OppIs
    <2>2. Before(e, n, t.root)
      BY <1>6, <1>8
    <2>3. n \in P(Opp(e)) => Before(Opp(e), n, t.root)
      BY <1>6, <1>8, <2>1
    <2>4. n \in M => Before(e, n, n)
      BY <1>6
    <2>5. QED
      BY <2>1, <2>2, <2>3, <2>4, BeforeIs
  <1>10. ASSUME NEW n \in T
         PROVE  n \notin M /\ \A e \in Dir : n \notin P(e)
    BY <1>10 DEF Parted
  <1>11. \A n \in X : n \in M \/ n \in T \/ \E d \in Dir : n \in P(d)
    BY DEF Parted
  <1> HIDE DEF M, P
  <1>12. ASSUME NEW n \in X, n \notin M
         PROVE  sub[n] \cap M = {}
    <2>1. CASE n \in T
      BY <1>5, <1>10, <2>1
    <2>2. ASSUME NEW d \in Dir, n \in P(d)
          PROVE  sub[n] \cap M = {}
      BY <1>4, <1>9, <2>2
    <2>3. QED
      BY <1>11, <1>12, <2>1, <2>2
  <1>13. ASSUME NEW n \in X, NEW e \in Dir, n \notin P(e)
         PROVE  sub[n] \cap P(e) = {}
    <2>1. CASE n \in T
      BY <1>5, <1>10, <2>1
    <2>2. CASE n \in M
      BY <1>3, <1>9, <2>2
    <2>3. CASE n \in P(Opp(e))
      <3>1. sub[n] \subseteq P(Opp(e))
        BY <1>4, <2>3, OppIs
      <3>2. QED
        BY <1>9, <3>1
    <2>4. QED
      BY <1>11, <1>13, <2>1, <2>2, <2>3, OppIs
  <1>14. ASSUME NEW n \in X, NEW e \in Dir, s[e] \in sub[n]
         PROVE  n \in P(e)
    <2>1. s[e] # SCRATCH
      BY <1>8, <1>14
    <2>2. QED
      BY <1>6, <1>13, <1>14, <2>1
  <1>15. QED
    BY <1>3, <1>4, <1>5, <1>7, <1>9, <1>10, <1>12, <1>13, <1>14 DEF M, P

\* Where the search goes on at r, it goes on at what lies behind r.
LEMMA CompIs ==
  ASSUME NEW r \in Nodes, NEW d \in Dir, Comp(r) = d, NEW m \in Nodes, Before(d, r, m),
         call.op \notin {"min", "max"} => call.arg \in Nodes
  PROVE  Comp(m) = d
  BY KeyAssumption DEF Comp, Before, Dir

\* The tree with r hung on side d of q, and c as the root.
Hung(t, q, d, r, c) == [SetChild(t, q, d, r) EXCEPT !.root = c]

\* The next node of the other part is hung on r.
Moved(s, d, r) == [s EXCEPT ![Opp(d)] = r]

\* What a change of a link and of the root does.
LEMMA HangIs ==
  ASSUME NEW t \in Trees, NEW q \in Rows, NEW d \in Dir,
         NEW r \in N0, NEW c \in N0
  PROVE  /\ Hung(t, q, d, r, c) \in Trees /\ Hung(t, q, d, r, c).root = c
         /\ \A x \in Rows, e \in Dir :
              Hung(t, q, d, r, c).child[x][e] = IF x = q /\ e = d THEN r ELSE t.child[x][e]
  <1> DEFINE t1 == SetChild(t, q, d, r)
             u == Hung(t, q, d, r, c)
  <1>2. /\ t1 \in Trees
        /\ \A x \in Rows, e \in Dir :
             t1.child[x][e] = IF x = q /\ e = d THEN r ELSE t.child[x][e]
    BY SetChildIs, RowsAre
  <1>3. u = [t1 EXCEPT !.root = c]
    BY DEF Hung
  <1> HIDE DEF t1, u
  <1>4. u \in Trees /\ u.root = c /\ u.child = t1.child
    BY <1>2, <1>3, SetRootIs
  <1>5. QED
    BY <1>2, <1>4 DEF u

\* SPLAY_LINKLEFT and SPLAY_LINKRIGHT: the root r goes, without its subtree on
\* side d, to the trees set aside on the other side; the top of that subtree is
\* the new root.
LEMMA LinkIs ==
  ASSUME NEW t, NEW s, NEW sub, NEW X, NEW T, Forest(t, s, sub, X), Parted(t, s, sub, X, T),
         NEW d \in Dir, NEW r, t.root = r, NEW c \in X, t.child[r][d] = c,
         Comp(r) = d, call.op \notin {"min", "max"} => call.arg \in Nodes,
         NEW u, u = Hung(t, s[Opp(d)], d, r, c),
         NEW v, v = Moved(s, d, r)
  PROVE  \E new \in [Nodes -> SUBSET Nodes] :
           /\ Forest(u, v, new, X) /\ Parted(u, v, new, X, T)
           /\ \A n \in T : new[n] = sub[n]
  <1> DEFINE o == Opp(d)
             p == s[o]
             far == Kid(t, s, r, o)
             K == {r} \cup Under(sub, far)
             M == sub[r]
             A == Piece(t, s, sub, o)
             B == Piece(t, s, sub, d)
             new == [n \in Nodes |-> IF n = r THEN K
                                     ELSE IF p \in sub[n] THEN sub[n] \cup K ELSE sub[n]]
  <1>1. /\ t \in Trees /\ s \in Sides /\ sub \in [Nodes -> SUBSET Nodes] /\ X \in SUBSET Nodes
        /\ r \in X
    BY DEF Forest, Parted
  <1> USE <1>1
  <1>2. o \in Dir /\ o # d /\ Opp(o) = d /\ \A e \in Dir : e = d \/ e = o
    BY OppIs
  <1> HIDE DEF o
  <1>3. /\ M \subseteq X /\ A \subseteq X /\ B \subseteq X /\ T \subseteq X
        /\ \A n \in M : sub[n] \subseteq M /\ n \notin T /\ n \notin A /\ n \notin B
        /\ \A n \in A : sub[n] \subseteq A /\ n \notin T /\ n \notin B
        /\ \A n \in B : sub[n] \subseteq B /\ n \notin T
        /\ p = SCRATCH <=> A = {}
        /\ s[d] = SCRATCH <=> B = {}
        /\ \A n \in X : /\ p \in sub[n] => n \in A
                        /\ s[d] \in sub[n] => n \in B
                        /\ n \in M \/ sub[n] \cap M = {}
    BY <1>2, PartsApart DEF o
  <1>4. /\ \A m \in A, k \in M : Before(o, m, k)
        /\ \A m \in B, k \in M : Before(d, m, k)
        /\ p = SCRATCH \/ p \in A
        /\ \A m \in A : (m = p \/ Before(o, m, p)) /\ Comp(m) = d
        /\ \A m \in B : (m = s[d] \/ Before(d, m, s[d])) /\ Comp(m) = o
        /\ s[d] = SCRATCH \/ s[d] \in B
        /\ \A n \in X : n \in M \/ n \in T \/ n \in A \/ n \in B
        /\ \A n \in T : n \in X /\ sub[n] \subseteq T
        /\ \A n \in X, m \in T : n \in T \/ Before("L", n, m)
        /\ Kid(t, s, SCRATCH, d) \in X \cup {NULL} /\ Kid(t, s, SCRATCH, o) \in X \cup {NULL}
    BY <1>2 DEF Parted, o
  <1>5. r \in M /\ p # r /\ s[d] # r /\ SCRATCH \notin Nodes /\ p \in Rows
    BY <1>2, <1>3, ForestIs, KeyAssumption DEF Sides
  <1>6. Kid(t, s, r, d) = c /\ far = t.child[r][o]
    BY <1>2, <1>5 DEF Kid, o
  <1>7. /\ far \in X \cup {NULL}
        /\ \A m \in sub[c] : Before(d, m, r)
        /\ \A m \in Under(sub, far) : Before(d, r, m)
        /\ M = {r} \cup sub[c] \cup Under(sub, far)
        /\ c \in sub[c] /\ \A n \in X : n \in sub[n]
    <2>1. c # NULL
      BY KeyAssumption
    <2>2. \A n \in X : n \in sub[n]
      BY ForestIs
    <2>3. QED
      BY <1>6, <2>1, <2>2, ForestIs DEF Under, o
  <1>8. /\ u \in Trees /\ u.root = c
        /\ \A x \in Rows, e \in Dir :
             u.child[x][e] = IF x = p /\ e = d THEN r ELSE t.child[x][e]
    <2>1. r \in N0 /\ c \in N0 /\ u = Hung(t, p, d, r, c)
      BY DEF N0, o
    <2>2. p \in Rows
      BY <1>5
    <2> HIDE DEF p
    <2>3. /\ Hung(t, p, d, r, c) \in Trees /\ Hung(t, p, d, r, c).root = c
          /\ \A x \in Rows, e \in Dir :
               Hung(t, p, d, r, c).child[x][e] = IF x = p /\ e = d THEN r ELSE t.child[x][e]
      BY <2>1, <2>2, HangIs
    <2>4. QED
      BY <2>1, <2>3
  <1>9. v \in Sides /\ v[o] = r /\ v[d] = s[d]
    BY <1>2, RowsAre DEF Sides, Moved, o
  <1>10. \A x \in Rows, e \in Dir :
           Kid(u, v, x, e) = IF x = r /\ e = d THEN NULL
                             ELSE IF x = p /\ e = d THEN r ELSE Kid(t, s, x, e)
    BY <1>2, <1>5, <1>8, <1>9 DEF Kid, o
  <1>11. K \subseteq M /\ K \subseteq Nodes /\ K \cap sub[c] = {} /\ c \notin K
    BY <1>3, <1>7, BeforeIs
  <1> HIDE DEF far, K, M, A, B
  <1>12. /\ new \in [Nodes -> SUBSET Nodes]
         /\ new[r] = K
         /\ \A n \in Nodes \ {r} : new[n] = IF p \in sub[n] THEN sub[n] \cup K ELSE sub[n]
    BY <1>11
  <1> HIDE DEF new
  \* Nothing changes where neither r nor p is.
  <1>13. ASSUME NEW n \in X, r \notin sub[n], p \notin sub[n]
         PROVE  /\ \A m \in sub[n] : new[m] = sub[m] /\ m # r /\ m # p
                /\ new[n] = sub[n] /\ n # r /\ n # p
    <2>1. n \in sub[n] /\ \A m \in sub[n] : m \in X /\ sub[m] \subseteq sub[n]
      BY ForestIs
    <2>2. QED
      BY <1>12, <1>13, <2>1
  <1>14. \A k \in X : r \notin sub[k] /\ p \notin sub[k] => Under(new, k) = Under(sub, k)
    BY <1>13 DEF Under
  <1>15. /\ Under(new, far) = Under(sub, far)
         /\ \A m \in Under(sub, far) :
              new[m] = sub[m] /\ sub[m] \subseteq Under(sub, far) /\ m \in X
    <2>1. CASE far = NULL
      BY <2>1 DEF Under
    <2>2. CASE far # NULL
      <3>1. far \in X /\ Under(sub, far) = sub[far]
        BY <1>7, <2>2 DEF Under
      <3>2. r \notin sub[far]
        BY <1>7, <3>1, BeforeIs
      <3>3. sub[far] \subseteq M
        BY <1>7, <3>1
      <3>4. p \notin sub[far]
        BY <1>3, <1>4, <1>5, <3>3
      <3>5. \A m \in sub[far] : m \in X /\ sub[m] \subseteq sub[far]
        BY <3>1, ForestIs
      <3>6. QED
        BY <1>13, <3>1, <3>2, <3>4, <3>5 DEF Under
    <2>3. QED
      BY <2>1, <2>2
  <1>16. \A m \in K : m \in X /\ new[m] \subseteq K
    BY <1>3, <1>11, <1>12, <1>15 DEF K
  <1>17. NodeIsRight(u, v, new, X, r)
    <2>1. Kid(u, v, r, d) = NULL /\ Kid(u, v, r, o) = far
      BY <1>2, <1>5, <1>10, RowsAre DEF far
    <2>2. Under(new, NULL) = {}
      BY DEF Under
    <2>3. /\ Kid(u, v, r, d) \in X \cup {NULL} /\ Kid(u, v, r, o) \in X \cup {NULL}
          /\ \A m \in Under(new, Kid(u, v, r, d)) : Before(d, m, r)
          /\ \A m \in Under(new, Kid(u, v, r, o)) : Before(d, r, m)
      <3>1. \A m \in Under(new, far) : Before(d, r, m)
        BY <1>7, <1>15
      <3>2. QED
        BY <1>7, <2>1, <2>2, <3>1
    <2>4. new[r] = {r} \cup Under(new, Kid(u, v, r, d)) \cup Under(new, Kid(u, v, r, o))
      BY <1>12, <1>15, <2>1, <2>2 DEF K
    <2>5. \A m \in new[r] : m \in X /\ new[m] \subseteq new[r]
      BY <1>12, <1>16
    <2>6. QED
      BY <1>9, <1>12, <2>3, <2>4, <2>5, RightIs DEF o
  <1>18. ASSUME NEW n \in X, n # r, p \notin sub[n]
         PROVE  NodeIsRight(u, v, new, X, n)
    <2>1. r \notin sub[n]
      <3>1. r \in sub[n] => n \in M
        BY <1>3, <1>5
      <3>2. QED
        BY <1>18, <3>1, BelowIs DEF M
    <2>2. n # p /\ \A m \in sub[n] : new[m] = sub[m]
      BY <1>13, <1>18, <2>1
    <2>3. ASSUME NEW e \in Dir
          PROVE  Kid(u, v, n, e) = Kid(t, s, n, e)
      <3>1. n # r /\ n # p /\ n \in Rows
        BY <1>18, <2>2, RowsAre
      <3>2. QED
        BY <1>10, <3>1, RowsAre
    <2>4. NodeIsRight(t, s, sub, X, n)
      BY DEF Forest
    <2>5. ASSUME NEW e \in Dir
          PROVE  Under(new, Kid(t, s, n, e)) = Under(sub, Kid(t, s, n, e))
      <3>1. Kid(t, s, n, e) \in X \cup {NULL} /\ Under(sub, Kid(t, s, n, e)) \subseteq sub[n]
        BY ForestIs
      <3>2. Kid(t, s, n, e) \in X => Kid(t, s, n, e) \in sub[n]
        BY <1>7, <3>1, KeyAssumption DEF Under
      <3>3. QED
        BY <2>2, <3>1, <3>2 DEF Under
    <2>6. new[n] = sub[n]
      BY <1>7, <2>2
    <2>7. \A m \in sub[n] : m \in X /\ new[m] \subseteq sub[n]
      BY <2>2, <2>4 DEF NodeIsRight
    <2>8. ASSUME NEW e \in Dir
          PROVE  /\ Kid(u, v, n, e) \in X \cup {NULL}
                 /\ \A m \in Under(new, Kid(u, v, n, e)) : Before(e, m, n)
                 /\ Under(new, Kid(u, v, n, e)) = Under(sub, Kid(t, s, n, e))
      BY <2>3, <2>4, <2>5 DEF NodeIsRight
    <2>9. \A m \in Nodes :
            m \in sub[n] <=> m = n \/ \E e \in Dir : m \in Under(new, Kid(u, v, n, e))
      BY <2>4, <2>8 DEF NodeIsRight
    <2>10. QED
      BY <2>6, <2>7, <2>8, <2>9 DEF NodeIsRight
  \* The trees of the place where r is hung.
  <1>19. ASSUME NEW n \in X, n # r, p \in sub[n]
         PROVE  /\ n \in A /\ new[n] = sub[n] \cup K
                /\ \A m \in new[n] : m \in X /\ new[m] \subseteq new[n]
    <2>1. n \in A /\ new[n] = sub[n] \cup K
      BY <1>3, <1>12, <1>19
    <2>2. \A m \in sub[n] : m \in X /\ m # r /\ sub[m] \subseteq sub[n]
      <3>1. \A m \in sub[n] : m \in X /\ sub[m] \subseteq sub[n]
        BY ForestIs
      <3>2. r \notin sub[n]
        BY <1>3, <1>5, <2>1
      <3>3. QED
        BY <3>1, <3>2
    <2>3. \A m \in sub[n] : new[m] \subseteq sub[n] \cup K
      BY <1>12, <2>2
    <2>4. QED
      BY <1>16, <2>1, <2>2, <2>3
  <1>20. ASSUME NEW n \in X, n # r, p \in sub[n]
         PROVE  NodeIsRight(u, v, new, X, n)
    <2> DEFINE dk == Kid(t, s, n, d)
               ok == Kid(t, s, n, o)
    <2>1. /\ n \in A /\ new[n] = sub[n] \cup K
          /\ \A m \in new[n] : m \in X /\ new[m] \subseteq new[n]
      BY <1>19, <1>20
    <2>2. /\ dk \in X \cup {NULL} /\ ok \in X \cup {NULL}
          /\ \A m \in Under(sub, dk) : Before(d, m, n)
          /\ \A m \in Under(sub, ok) : Before(d, n, m)
          /\ sub[n] = {n} \cup Under(sub, dk) \cup Under(sub, ok)
      BY ForestIs DEF o
    <2>3. p \notin Under(sub, ok)
      <3>1. n = p \/ Before(o, n, p)
        BY <1>4, <2>1
      <3>2. n = p \/ Before(d, p, n)
        BY <1>2, <1>3, <1>20, <2>1, <3>1, BeforeIs
      <3>3. p \in Under(sub, ok) => Before(d, n, p)
        BY <2>2
      <3>4. p \in Nodes /\ n \in Nodes
        BY <1>20
      <3>5. QED
        BY <3>2, <3>3, <3>4, BeforeIs
    <2>4. Kid(u, v, n, o) = ok
      BY <1>2, <1>10, <1>20, RowsAre
    <2>5. Under(new, ok) = Under(sub, ok)
      <3>1. r \notin Under(sub, ok)
        BY <1>3, <1>5, <2>1, <2>2
      <3>2. CASE ok = NULL
        BY <3>2 DEF Under
      <3>3. CASE ok # NULL
        <4>1. ok \in X /\ Under(sub, ok) = sub[ok]
          BY <2>2, <3>3 DEF Under
        <4>2. QED
          BY <1>14, <2>3, <3>1, <4>1
      <3>4. QED
        BY <3>2, <3>3
    <2>6. \A m \in K : Before(d, m, n)
      <3>1. \A m \in K : Before(o, n, m)
        BY <1>4, <1>11, <2>1
      <3>2. QED
        BY <1>2, <1>11, <3>1, BeforeIs
    <2>7. /\ Kid(u, v, n, d) \in X \cup {NULL}
          /\ Under(new, Kid(u, v, n, d)) = Under(sub, dk) \cup K
      <3>1. CASE n = p
        <4>1. Kid(u, v, n, d) = r
          BY <1>5, <1>10, <3>1
        <4>2. dk = NULL
          BY <3>1 DEF Kid, o
        <4>3. r # NULL
          BY KeyAssumption
        <4>4. QED
          BY <1>12, <4>1, <4>2, <4>3 DEF Under
      <3>2. CASE n # p
        <4>1. Kid(u, v, n, d) = dk
          BY <1>10, <1>20, <3>2, RowsAre
        <4>2. p \in Under(sub, dk)
          BY <1>20, <2>2, <2>3, <3>2
        <4>3. dk \in X /\ Under(sub, dk) = sub[dk] /\ Under(new, dk) = new[dk] /\ dk \in sub[dk]
          BY <1>7, <2>2, <4>2 DEF Under
        <4>4. dk # r
          BY <1>3, <1>5, <2>1, <2>2, <4>3
        <4>5. dk \in Nodes \ {r} /\ p \in sub[dk]
          BY <4>2, <4>3, <4>4
        <4>6. new[dk] = sub[dk] \cup K
          BY <1>12, <4>5
        <4>7. QED
          BY <4>1, <4>3, <4>6
      <3>3. QED
        BY <3>1, <3>2
    <2> HIDE DEF dk, ok
    <2>8. new[n] = {n} \cup Under(new, Kid(u, v, n, d)) \cup Under(new, Kid(u, v, n, o))
      BY <2>1, <2>2, <2>4, <2>5, <2>7
    <2>9. \A m \in Under(new, Kid(u, v, n, d)) : Before(d, m, n)
      BY <2>2, <2>6, <2>7
    <2>10. QED
      BY ZenonT(30), <1>2, <1>9, <1>12, <2>1, <2>2, <2>4, <2>5, <2>7, <2>8, <2>9, RightIs DEF o
  <1>21. Forest(u, v, new, X)
    BY <1>8, <1>9, <1>12, <1>17, <1>18, <1>20 DEF Forest
  <1>22. Piece(u, v, new, o) = A \cup K /\ Kid(u, v, SCRATCH, d) \in X \cup {NULL}
    <2> DEFINE k == Kid(t, s, SCRATCH, d)
    <2>1. A = Under(sub, k) /\ Piece(u, v, new, o) = Under(new, Kid(u, v, SCRATCH, d))
      BY <1>2 DEF A, Piece
    <2>2. CASE p = SCRATCH
      <3>1. Kid(u, v, SCRATCH, d) = r /\ A = {} /\ r # NULL
        BY <1>3, <1>5, <1>10, <2>2, KeyAssumption
      <3>2. QED
        BY <1>12, <2>1, <3>1 DEF Under
    <2>3. CASE p # SCRATCH
      <3>1. Kid(u, v, SCRATCH, d) = k
        BY <1>5, <1>10, <2>3, RowsAre
      <3>2. p \in A /\ k \in X \cup {NULL}
        BY <1>4, <2>3
      <3>3. k \in X /\ A = sub[k] /\ Under(new, k) = new[k] /\ k \in sub[k]
        BY <1>7, <2>1, <3>2 DEF Under
      <3>4. k # r
        BY <1>3, <1>5, <3>3
      <3>5. QED
        BY <1>12, <2>1, <3>1, <3>2, <3>3, <3>4
    <2>4. QED
      BY <2>2, <2>3
  <1>23. Piece(u, v, new, d) = B /\ Kid(u, v, SCRATCH, o) \in X \cup {NULL}
    <2> DEFINE k == Kid(t, s, SCRATCH, o)
    <2>1. B = Under(sub, k) /\ Piece(u, v, new, d) = Under(new, Kid(u, v, SCRATCH, o))
      BY DEF B, Piece, o
    <2>2. Kid(u, v, SCRATCH, o) = k /\ k \in X \cup {NULL}
      <3>1. SCRATCH \in Rows /\ SCRATCH # r
        BY <1>5, RowsAre
      <3>2. QED
        BY <1>2, <1>4, <1>10, <3>1
    <2>3. CASE k = NULL
      BY <2>1, <2>2, <2>3 DEF Under
    <2>4. CASE k # NULL
      <3>1. k \in X /\ B = sub[k]
        BY <2>1, <2>2, <2>4 DEF Under
      <3>2. r \notin B /\ p \notin B
        BY <1>3, <1>4, <1>5
      <3>3. QED
        BY <1>14, <2>1, <2>2, <3>1, <3>2
    <2>5. QED
      BY <2>3, <2>4
  <1>24. new[c] = sub[c] /\ sub[c] \subseteq M /\ c \in M
    <2>1. sub[c] \subseteq M /\ c \in M
      BY <1>7
    <2>2. p \notin sub[c] /\ c # r
      BY <1>3, <1>11, <2>1 DEF K
    <2>3. QED
      BY <1>12, <2>1, <2>2
  <1>25. \A k \in sub[c], m \in Under(sub, far) : Before(d, k, m)
    <2>1. Under(sub, far) \subseteq Nodes /\ sub[c] \subseteq Nodes
      BY <1>11 DEF K
    <2>2. QED
      BY <1>7, <2>1, BeforeIs
  <1>26. ASSUME NEW m \in A \cup K
         PROVE  /\ \A k \in sub[c] : Before(o, m, k)
                /\ m = r \/ Before(o, m, r)
                /\ Comp(m) = d
    <2>1. CASE m \in A
      BY <1>4, <1>5, <1>24, <2>1
    <2>2. CASE m = r
      <3>1. \A k \in sub[c] : Before(o, r, k)
        BY <1>2, <1>7, <1>24, BeforeIs
      <3>2. QED
        BY <2>2, <3>1
    <2>3. CASE m \in Under(sub, far)
      <3>1. m \in Nodes
        BY <1>11, <2>3 DEF K
      <3>2. \A k \in sub[c] : Before(o, m, k)
        BY <1>2, <1>24, <1>25, <2>3, <3>1, BeforeIs
      <3>3. Before(d, r, m)
        BY <1>7, <2>3
      <3>4. Before(o, m, r)
        BY <1>2, <3>1, <3>3, BeforeIs
      <3>5. Comp(m) = d
        BY <3>1, <3>3, CompIs
      <3>6. QED
        BY <3>2, <3>4, <3>5
    <2>4. QED
      BY <2>1, <2>2, <2>3 DEF K
  <1>27. \A n \in T : new[n] = sub[n] /\ n \in X /\ n \notin M /\ n \notin A /\ n \notin B
    BY <1>3, <1>4, <1>5, <1>12
  <1>28. Parted(u, v, new, X, T)
    <2> DEFINE Good(e) ==
                 /\ Kid(u, v, SCRATCH, Opp(e)) \in X \cup {NULL}
                 /\ \A m \in Piece(u, v, new, e), k \in new[c] : Before(e, m, k)
                 /\ v[e] = SCRATCH \/ v[e] \in Piece(u, v, new, e)
                 /\ \A m \in Piece(u, v, new, e) :
                      (m = v[e] \/ Before(e, m, v[e])) /\ Comp(m) = Opp(e)
    <2>1. \A e \in Dir : Good(e)
      <3>1. Good(o)
        <4>1. r \in A \cup K
          BY DEF K
        <4>2. QED
          BY <1>2, <1>9, <1>22, <1>24, <1>26, <4>1
      <3>2. Good(d)
        <4>1. Opp(d) = o
          BY DEF o
        <4>2. \A m \in B, k \in new[c] : Before(d, m, k)
          BY <1>4, <1>24
        <4>3. \A m \in B : (m = v[d] \/ Before(d, m, v[d])) /\ Comp(m) = o
          BY <1>4, <1>9
        <4>4. v[d] = SCRATCH \/ v[d] \in B
          BY <1>4, <1>9
        <4>5. Kid(u, v, SCRATCH, Opp(d)) \in X \cup {NULL} /\ Piece(u, v, new, d) = B
          BY <1>23, <4>1
        <4>6. QED
          BY <4>1, <4>2, <4>3, <4>4, <4>5
      <3> HIDE DEF Good
      <3>3. QED
        BY <1>2, <3>1, <3>2
    <2>2. \A n \in X : \/ n \in sub[c] \/ n \in T
                       \/ n \in Piece(u, v, new, o) \/ n \in Piece(u, v, new, d)
      BY <1>4, <1>7, <1>22, <1>23 DEF K
    <2>3. \A n \in T : /\ n \notin sub[c] /\ new[n] \subseteq T
                       /\ n \notin Piece(u, v, new, o) /\ n \notin Piece(u, v, new, d)
      BY <1>4, <1>11, <1>22, <1>23, <1>24, <1>27
    <2>4. QED
      <3>1. u.root \in X /\ new[u.root] = new[c]
        BY <1>8
      <3>2. \A n \in X : \/ n \in new[u.root] \/ n \in T
                          \/ \E e \in Dir : n \in Piece(u, v, new, e)
        BY <1>2, <1>24, <2>2, <3>1
      <3>3. \A n \in T :
              /\ n \in X /\ new[n] \subseteq T
              /\ n \notin new[u.root] /\ \A e \in Dir : n \notin Piece(u, v, new, e)
        BY <1>2, <1>24, <1>27, <2>3, <3>1
      <3>4. \A n \in X, m \in T : n \in T \/ Before("L", n, m)
        BY <1>4
      <3>5. ASSUME NEW e \in Dir
            PROVE  /\ Kid(u, v, SCRATCH, Opp(e)) \in X \cup {NULL}
                   /\ \A m \in Piece(u, v, new, e), k \in new[u.root] : Before(e, m, k)
                   /\ v[e] = SCRATCH \/ v[e] \in Piece(u, v, new, e)
                   /\ \A m \in Piece(u, v, new, e) :
                        (m = v[e] \/ Before(e, m, v[e])) /\ Comp(m) = Opp(e)
        BY <2>1, <3>1
      <3> HIDE DEF Good
      <3>6. QED
        BY <3>1, <3>2, <3>3, <3>4, <3>5 DEF Parted
  <1>29. \A n \in T : new[n] = sub[n]
    BY <1>27
  <1>30. QED
    BY <1>12, <1>21, <1>28, <1>29

-----------------------------------------------------------------------------
(* SPLAY_ASSEMBLE.                                                         *)

\* The tree put together, with the links of the scratch node cleared.
Cleared(t) == [t EXCEPT !.child[SCRATCH] = [d \in Dir |-> NULL]]

\* The tree SplayEnd leaves.
Assembled(t, s) == Cleared(Assemble(t, s))

\* What clearing does.
LEMMA ClearedIs ==
  ASSUME NEW t \in Trees
  PROVE  /\ Cleared(t) \in Trees /\ Cleared(t).root = t.root
         /\ \A x \in Rows, e \in Dir :
              Cleared(t).child[x][e] = IF x = SCRATCH THEN NULL ELSE t.child[x][e]
  BY DEF Cleared, Trees, Rows, Links, N0

\* The four assignments, of which the first two may write the scratch node that
\* the last two read.
LEMMA AssembledIs ==
  ASSUME NEW t \in Trees, NEW s \in Sides, NEW r \in Nodes, t.root = r,
         \A e \in Dir : s[e] # r
  PROVE  /\ Assembled(t, s) \in Trees /\ Assembled(t, s).root = r
         /\ \A n \in Nodes, e \in Dir :
              Assembled(t, s).child[n][e] =
                IF n = r
                  THEN IF s[e] = SCRATCH THEN t.child[r][e] ELSE t.child[SCRATCH][Opp(e)]
                  ELSE IF n = s[Opp(e)] THEN t.child[r][Opp(e)] ELSE t.child[n][e]
         /\ \A e \in Dir : Assembled(t, s).child[SCRATCH][e] = NULL
  <1>1. /\ "L" \in Dir /\ "R" \in Dir /\ Opp("L") = "R" /\ Opp("R") = "L"
        /\ r \in Rows /\ SCRATCH \in Rows /\ SCRATCH # r
    BY RowsAre DEF Dir, Opp
  <1>a. "L" \in Dir
    BY <1>1
  <1>b. "R" \in Dir
    BY <1>1
  <1>e. r \in Rows
    BY <1>1
  <1>2. PICK left, right : left = s["L"] /\ right = s["R"]
    OBVIOUS
  <1>3. left \in Rows /\ right \in Rows /\ left # r /\ right # r
    BY <1>1, <1>2 DEF Sides
  <1>c. left \in Rows
    BY <1>3
  <1>d. right \in Rows
    BY <1>3
  <1>4. \A u \in Trees : \A x \in Rows, e \in Dir : u.child[x][e] \in Links
    BY DEF Trees
  <1>5. PICK m1, m2 : m1 = t.child[r]["L"] /\ m2 = t.child[r]["R"]
    OBVIOUS
  <1>6. m1 \in Links /\ m2 \in Links
    BY <1>1, <1>4, <1>5
  <1>7. PICK t1 : t1 = SetChild(t, left, "R", m1)
    OBVIOUS
  <1>8. /\ t1 \in Trees /\ t1.root = t.root
         /\ \A x \in Rows, e \in Dir :
              t1.child[x][e] = IF x = left /\ e = "R" THEN m1 ELSE t.child[x][e]
    BY <1>b, <1>c, <1>6, <1>7, SetChildIs
  <1>9. PICK t2 : t2 = SetChild(t1, right, "L", m2)
    OBVIOUS
  <1>10. /\ t2 \in Trees /\ t2.root = t1.root
         /\ \A x \in Rows, e \in Dir :
              t2.child[x][e] = IF x = right /\ e = "L" THEN m2 ELSE t1.child[x][e]
    BY <1>a, <1>d, <1>6, <1>8, <1>9, SetChildIs
  <1>11. PICK m3, m4 : m3 = t2.child[SCRATCH]["R"] /\ m4 = t2.child[SCRATCH]["L"]
    OBVIOUS
  <1>12. m3 \in Links /\ m4 \in Links
    BY <1>1, <1>4, <1>10, <1>11
  <1>13. PICK t3 : t3 = SetChild(t2, r, "L", m3)
    OBVIOUS
  <1>14. /\ t3 \in Trees /\ t3.root = t2.root
         /\ \A x \in Rows, e \in Dir :
              t3.child[x][e] = IF x = r /\ e = "L" THEN m3 ELSE t2.child[x][e]
    BY <1>a, <1>e, <1>10, <1>12, <1>13, SetChildIs
  <1>15. PICK t4 : t4 = SetChild(t3, r, "R", m4)
    OBVIOUS
  <1>16. /\ t4 \in Trees /\ t4.root = t3.root
         /\ \A x \in Rows, e \in Dir :
              t4.child[x][e] = IF x = r /\ e = "R" THEN m4 ELSE t3.child[x][e]
    BY <1>b, <1>e, <1>12, <1>14, <1>15, SetChildIs
  <1>17. PICK w : w = Cleared(t4)
    OBVIOUS
  <1>18. /\ w \in Trees /\ w.root = t4.root
         /\ \A x \in Rows, e \in Dir : w.child[x][e] = IF x = SCRATCH THEN NULL ELSE t4.child[x][e]
    BY <1>16, <1>17, ClearedIs
  <1>19. t1.root = r /\ t2.root = r /\ t3.root = r /\ w.root = r
    BY <1>8, <1>10, <1>14, <1>16, <1>18
  <1>20. Assembled(t, s) = w
    <2>1. t1.child[t1.root]["R"] = m2 /\ t3.child[SCRATCH]["L"] = m4
      BY <1>1, <1>3, <1>5, <1>8, <1>11, <1>14, <1>19
    <2>2. t1 = SetChild(t, s["L"], "R", t.child[t.root]["L"])
      BY <1>2, <1>5, <1>7
    <2>3. t2 = SetChild(t1, s["R"], "L", t1.child[t1.root]["R"])
      BY <1>2, <1>9, <2>1
    <2>4. t3 = SetChild(t2, t.root, "L", t2.child[SCRATCH]["R"])
      BY <1>11, <1>13
    <2>5. t4 = SetChild(t3, t.root, "R", t3.child[SCRATCH]["L"])
      BY <1>15, <2>1
    <2>6. Assemble(t, s) = t4
      BY <2>2, <2>3, <2>4, <2>5, Zenon DEF Assemble
    <2>7. QED
      BY <1>17, <2>6, Zenon DEF Assembled
  <1>21. ASSUME NEW n \in Nodes, NEW e \in Dir
         PROVE  w.child[n][e] =
                  IF n = r
                    THEN IF s[e] = SCRATCH THEN t.child[r][e] ELSE t.child[SCRATCH][Opp(e)]
                    ELSE IF n = s[Opp(e)] THEN t.child[r][Opp(e)] ELSE t.child[n][e]
    <2>1. n \in Rows /\ n # SCRATCH
      BY RowsAre
    <2>2. m3 = IF left = SCRATCH THEN m1 ELSE t.child[SCRATCH]["R"]
      BY <1>1, <1>8, <1>10, <1>11
    <2>3. m4 = IF right = SCRATCH THEN m2 ELSE t.child[SCRATCH]["L"]
      BY <1>1, <1>8, <1>10, <1>11
    <2>4. w.child[n][e] = IF n = r /\ e = "R" THEN m4
                          ELSE IF n = r /\ e = "L" THEN m3 ELSE t2.child[n][e]
      BY <1>1, <1>14, <1>16, <1>18, <2>1
    <2>5. t2.child[n][e] = IF n = right /\ e = "L" THEN m2
                           ELSE IF n = left /\ e = "R" THEN m1 ELSE t.child[n][e]
      BY <1>1, <1>8, <1>10, <2>1
    <2>6. CASE e = "L"
      BY <1>1, <1>2, <1>5, <2>2, <2>4, <2>5, <2>6
    <2>7. CASE e = "R"
      BY <1>1, <1>2, <1>5, <2>3, <2>4, <2>5, <2>7
    <2>8. QED
      BY <2>6, <2>7 DEF Dir
  <1>22. \A e \in Dir : w.child[SCRATCH][e] = NULL
    BY <1>1, <1>18
  <1>23. QED
    BY <1>18, <1>19, <1>20, <1>21, <1>22

\* All is one tree again, but for what is kept apart.
LEMMA AssembleIs ==
  ASSUME NEW t, NEW s, NEW sub, NEW X, NEW T, Forest(t, s, sub, X), Parted(t, s, sub, X, T),
         NEW r, t.root = r,
         NEW w, w = Assembled(t, s)
  PROVE  \E new \in [Nodes -> SUBSET Nodes] :
           /\ Forest(w, NoSide, new, X) /\ w.root = r
           /\ \A e \in Dir : w.child[SCRATCH][e] = NULL
           /\ \A n \in X : n \in new[r] \/ n \in T
           /\ \A n \in T : n \in X /\ n \notin new[r] /\ new[n] = sub[n]
           /\ \A n \in new[r] :
                n = r \/ \E e \in Dir : /\ Before(e, n, r)
                                        /\ Comp(n) = Opp(e) \/ n \in Under(sub, Kid(t, s, r, e))
  <1> DEFINE M == sub[r]
             P(e) == Piece(t, s, sub, e)
             Near(e) == Under(sub, Kid(t, s, r, e))
             new == [n \in Nodes |-> 
                       IF n = r THEN {m \in Nodes : m \in M \/ \E e \in Dir : m \in P(e)}
                       ELSE {m \in Nodes : m \in sub[n]
                                             \/ \E e \in Dir : s[e] \in sub[n] /\ m \in Near(e)}]
             kid(n, e) == Kid(w, NoSide, n, e)
  <1>1. /\ t \in Trees /\ s \in Sides /\ sub \in [Nodes -> SUBSET Nodes] /\ X \in SUBSET Nodes
        /\ r \in X
    BY DEF Forest, Parted
  <1> USE <1>1
  <1>2. /\ M \subseteq X /\ T \subseteq X
        /\ \A n \in M : sub[n] \subseteq M /\ n \notin T
        /\ \A e \in Dir :
             /\ P(e) \subseteq X
             /\ s[e] = SCRATCH <=> P(e) = {}
             /\ \A n \in P(e) : /\ sub[n] \subseteq P(e)
                                /\ n \notin M /\ n \notin P(Opp(e)) /\ n \notin T
        /\ \A n \in X : n \in M \/ sub[n] \cap M = {}
        /\ \A n \in X, e \in Dir : s[e] \in sub[n] => n \in P(e)
    BY PartsApart
  <1>3. /\ \A e \in Dir :
             /\ Kid(t, s, SCRATCH, Opp(e)) \in X \cup {NULL}
             /\ \A m \in P(e), k \in M : Before(e, m, k)
             /\ s[e] = SCRATCH \/ s[e] \in P(e)
             /\ \A m \in P(e) : (m = s[e] \/ Before(e, m, s[e])) /\ Comp(m) = Opp(e)
        /\ \A n \in X : n \in M \/ n \in T \/ \E e \in Dir : n \in P(e)
        /\ \A n \in T : sub[n] \subseteq T
    BY DEF Parted
  <1>4. \A n \in X : n \in sub[n] /\ \A m \in sub[n] : m \in X /\ sub[m] \subseteq sub[n]
    <2>1. "L" \in Dir
      BY DEF Dir
    <2>2. QED
      BY <2>1, ForestIs
  <1>5. r \in M /\ SCRATCH \notin Nodes /\ \A e \in Dir : s[e] # r
    BY <1>2, <1>3, <1>4, KeyAssumption
  <1>6. ASSUME NEW e \in Dir
        PROVE  /\ Kid(t, s, r, e) \in X \cup {NULL} /\ Near(e) \subseteq M
               /\ \A m \in Near(e) : Before(e, m, r) /\ m # r /\ sub[m] \subseteq Near(e)
    <2>1. /\ Kid(t, s, r, e) \in X \cup {NULL} /\ Near(e) \subseteq M
          /\ \A m \in Near(e) : Before(e, m, r)
      BY ForestIs
    <2>2. \A m \in Near(e) : m # r /\ sub[m] \subseteq Near(e)
      BY <1>2, <1>6, <2>1, BeforeIs, BelowIs
    <2>3. QED
      BY <2>1, <2>2
  <1>7. \A m \in Nodes : m \in M <=> m = r \/ \E e \in Dir : m \in Near(e)
    BY DEF Forest, NodeIsRight
  <1>8. \A m \in X, e \in Dir : m # s[Opp(e)] => Kid(t, s, m, e) = t.child[m][e]
    BY DEF Kid
  <1>9. /\ w \in Trees /\ w.root = r
        /\ \A n \in X, e \in Dir :
             kid(n, e) = IF n = r
                           THEN IF s[e] = SCRATCH THEN Kid(t, s, r, e)
                                ELSE Kid(t, s, SCRATCH, Opp(e))
                           ELSE IF n = s[Opp(e)] THEN Kid(t, s, r, Opp(e)) ELSE Kid(t, s, n, e)
    <2>1. /\ w \in Trees /\ w.root = r
          /\ \A n \in Nodes, e \in Dir :
               w.child[n][e] =
                 IF n = r
                   THEN IF s[e] = SCRATCH THEN t.child[r][e] ELSE t.child[SCRATCH][Opp(e)]
                   ELSE IF n = s[Opp(e)] THEN t.child[r][Opp(e)] ELSE t.child[n][e]
      BY <1>5, AssembledIs
    <2>2. ASSUME NEW n \in X, NEW e \in Dir
          PROVE  kid(n, e) = w.child[n][e]
      BY <1>5, OppIs DEF Kid, NoSide
    <2>3. \A e \in Dir : Opp(e) \in Dir /\ Opp(Opp(e)) = e /\ Kid(t, s, r, e) = t.child[r][e]
      BY <1>5, OppIs DEF Kid
    <2>4. \A e \in Dir : s[e] # SCRATCH => Kid(t, s, SCRATCH, Opp(e)) = t.child[SCRATCH][Opp(e)]
      BY <2>3 DEF Kid
    <2> HIDE DEF kid
    <2>5. QED
      BY <1>8, <2>1, <2>2, <2>3, <2>4
  <1>c. \A e \in Dir : w.child[SCRATCH][e] = NULL
    BY <1>5, AssembledIs
  <1>10. NoSide \in Sides
    BY RowsAre DEF NoSide, Sides
  <1> HIDE DEF M, P, Near, kid
  <1>11. /\ new \in [Nodes -> SUBSET Nodes]
         /\ \A m \in Nodes : m \in new[r] <=> m \in M \/ \E e \in Dir : m \in P(e)
         /\ \A n \in Nodes \ {r}, m \in Nodes :
              m \in new[n] <=> m \in sub[n] \/ \E e \in Dir : s[e] \in sub[n] /\ m \in Near(e)
    OBVIOUS
  <1> HIDE DEF new
  \* Nothing changes where no subtree of the root is hung.
  <1>12. ASSUME NEW n \in X, n # r, \A e \in Dir : s[e] \notin sub[n]
         PROVE  new[n] = sub[n]
    <2>1. \A m \in Nodes : m \in new[n] <=> m \in sub[n]
      BY <1>11, <1>12
    <2>2. new[n] \subseteq Nodes /\ sub[n] \subseteq Nodes
      BY <1>11
    <2>3. QED
      BY <2>1, <2>2
  <1>13. ASSUME NEW n \in M, n # r
         PROVE  new[n] = sub[n]
    <2>1. n \in X /\ \A e \in Dir : s[e] \notin sub[n]
      BY <1>2
    <2>2. QED
      BY <1>12, <1>13, <2>1
  <1>14. ASSUME NEW n \in X, NEW e \in Dir, s[e] \in sub[n]
         PROVE  n \in P(e) /\ n # r /\ s[Opp(e)] \notin sub[n] /\ new[n] = sub[n] \cup Near(e)
    <2>1. n \in P(e) /\ n # r
      BY <1>2, <1>5, <1>14
    <2>2. s[Opp(e)] \notin sub[n]
      <3>1. Opp(e) \in Dir
        BY OppIs
      <3>2. n \notin P(Opp(e))
        BY <1>2, <2>1
      <3>3. QED
        BY <1>2, <3>1, <3>2
    <2>3. Near(e) \subseteq Nodes
      BY <1>2, <1>6
    <2>4. \A m \in Nodes : m \in new[n] <=> m \in sub[n] \/ m \in Near(e)
      BY <1>11, <1>14, <2>1, <2>2, OppIs
    <2>5. new[n] \subseteq Nodes /\ sub[n] \subseteq Nodes
      BY <1>11
    <2>6. QED
      BY <2>1, <2>2, <2>3, <2>4, <2>5
  <1>15. ASSUME NEW e \in Dir, NEW n \in P(e)
         PROVE  new[n] \subseteq P(e) \cup Near(e) /\ n \in X
    <2>1. n \in X /\ n # r /\ sub[n] \subseteq P(e)
      BY <1>2, <1>5
    <2>2. CASE s[e] \in sub[n]
      BY <1>14, <2>1, <2>2
    <2>3. CASE s[e] \notin sub[n]
      <3>1. s[Opp(e)] \notin sub[n]
        BY <1>2, <2>1, OppIs
      <3>2. \A d \in Dir : s[d] \notin sub[n]
        BY <2>3, <3>1, OppIs
      <3>3. QED
        BY <1>12, <2>1, <3>2
    <2>4. QED
      BY <2>1, <2>2, <2>3
  <1>16. ASSUME NEW e \in Dir
         PROVE  /\ kid(r, e) \in X \cup {NULL}
                /\ Under(new, kid(r, e)) = P(e) \cup Near(e)
    <2>1. CASE s[e] = SCRATCH
      <3> DEFINE k == Kid(t, s, r, e)
      <3>1. kid(r, e) = k /\ k \in X \cup {NULL} /\ P(e) = {} /\ Near(e) = Under(sub, k)
        BY <1>2, <1>6, <1>9, <2>1 DEF Near
      <3>2. CASE k = NULL
        BY <3>1, <3>2 DEF Under
      <3>3. CASE k # NULL
        <4>1. k \in X /\ Near(e) = sub[k] /\ Under(new, k) = new[k] /\ k \in sub[k]
          BY <1>4, <3>1, <3>3 DEF Under
        <4>2. k \in M /\ k # r
          BY <1>6, <4>1
        <4>3. QED
          BY <1>13, <3>1, <4>1, <4>2
      <3>4. QED
        BY <3>2, <3>3
    <2>2. CASE s[e] # SCRATCH
      <3> DEFINE k == Kid(t, s, SCRATCH, Opp(e))
      <3>1. kid(r, e) = k /\ k \in X \cup {NULL} /\ P(e) = Under(sub, k) /\ s[e] \in P(e)
        BY <1>3, <1>9, <2>2 DEF P, Piece
      <3>2. k \in X /\ P(e) = sub[k] /\ Under(new, k) = new[k] /\ s[e] \in sub[k]
        BY <3>1 DEF Under
      <3>3. QED
        BY <1>14, <3>1, <3>2
    <2>3. QED
      BY <2>1, <2>2
  <1>17. \A n \in new[r] : n \in X /\ new[n] \subseteq new[r]
    <2>1. new[r] \subseteq Nodes
      BY <1>11
    <2>2. ASSUME NEW n \in M
          PROVE  n \in X /\ new[n] \subseteq new[r]
      <3>1. n # r => new[n] \subseteq M
        BY <1>2, <1>13
      <3>2. M \subseteq new[r]
        BY <1>2, <1>11
      <3>3. QED
        BY <1>2, <3>1, <3>2
    <2>3. ASSUME NEW e \in Dir, NEW n \in P(e)
          PROVE  n \in X /\ new[n] \subseteq new[r]
      <3>1. new[n] \subseteq P(e) \cup Near(e) /\ Near(e) \subseteq M /\ n \in X
        BY <1>6, <1>15
      <3>2. new[n] \subseteq Nodes
        BY <1>11, <3>1
      <3>3. QED
        BY <1>11, <3>1, <3>2
    <2>4. QED
      BY <1>11, <2>1, <2>2, <2>3
  <1>18. NodeIsRight(w, NoSide, new, X, r)
    <2>1. ASSUME NEW e \in Dir, NEW m \in P(e) \cup Near(e)
          PROVE  Before(e, m, r)
      BY <1>3, <1>5, <1>6
    <2>2. \A m \in Nodes : m \in new[r] <=> m = r \/ \E e \in Dir : m \in P(e) \cup Near(e)
      BY <1>7, <1>11
    <2>3. QED
      BY <1>16, <1>17, <2>1, <2>2 DEF NodeIsRight, kid
  <1>19. ASSUME NEW n \in X, n # r, \A e \in Dir : s[e] \notin sub[n]
         PROVE  NodeIsRight(w, NoSide, new, X, n)
    <2>1. new[n] = sub[n] /\ n \in sub[n]
      BY <1>4, <1>12, <1>19
    <2>2. \A e \in Dir : kid(n, e) = Kid(t, s, n, e)
      <3>1. \A e \in Dir : Opp(e) \in Dir /\ n # s[Opp(e)]
        BY <1>19, <2>1, OppIs
      <3>2. QED
        BY <1>9, <1>19, <3>1
    <2>3. ASSUME NEW m \in sub[n]
          PROVE  m \in X /\ m # r /\ new[m] = sub[m] /\ sub[m] \subseteq sub[n]
      <3>1. m \in X /\ sub[m] \subseteq sub[n]
        BY <1>4
      <3>2. r \notin sub[n]
        <4>1. r \in sub[n] => n \in M
          BY <1>2, <1>5
        <4>2. QED
          BY <1>19, <4>1, BelowIs DEF M
      <3>3. QED
        BY <1>12, <1>19, <3>1, <3>2
    <2>4. ASSUME NEW e \in Dir
          PROVE  Under(new, Kid(t, s, n, e)) = Under(sub, Kid(t, s, n, e))
      <3> DEFINE k == Kid(t, s, n, e)
      <3>1. k \in X \cup {NULL} /\ Under(sub, k) \subseteq sub[n]
        BY ForestIs
      <3>2. k \in X => k \in sub[n]
        BY <1>4, <3>1, KeyAssumption DEF Under
      <3> HIDE DEF k
      <3>3. Under(new, k) = Under(sub, k)
        BY <2>3, <3>1, <3>2 DEF Under
      <3>4. QED
        BY <3>3 DEF k
    <2>5. NodeIsRight(t, s, sub, X, n)
      BY DEF Forest
    <2>6. ASSUME NEW e \in Dir
          PROVE  /\ kid(n, e) \in X \cup {NULL}
                 /\ \A m \in Under(new, kid(n, e)) : Before(e, m, n)
                 /\ Under(new, kid(n, e)) = Under(sub, Kid(t, s, n, e))
      BY <2>2, <2>4, <2>5 DEF NodeIsRight
    <2>7. \A m \in Nodes : m \in new[n] <=> m = n \/ \E e \in Dir : m \in Under(new, kid(n, e))
      BY <2>1, <2>5, <2>6 DEF NodeIsRight
    <2>8. \A m \in new[n] : m \in X /\ new[m] \subseteq new[n]
      BY <2>1, <2>3
    <2>9. QED
      BY <2>6, <2>7, <2>8 DEF NodeIsRight, kid
  <1>20. ASSUME NEW n \in X, NEW d \in Dir, s[d] \in sub[n]
         PROVE  NodeIsRight(w, NoSide, new, X, n)
    <2> DEFINE o == Opp(d)
    <2>1. /\ n \in P(d) /\ n # r /\ s[o] \notin sub[n] /\ new[n] = sub[n] \cup Near(d)
          /\ n \in sub[n] /\ sub[n] \subseteq P(d)
      BY <1>2, <1>4, <1>14, <1>20
    <2>2. o \in Dir /\ Opp(o) = d /\ o # d /\ \A e \in Dir : e = d \/ e = o
      BY OppIs
    <2>3. /\ Kid(t, s, n, d) \in X \cup {NULL} /\ Kid(t, s, n, o) \in X \cup {NULL}
          /\ \A m \in Under(sub, Kid(t, s, n, d)) : Before(d, m, n)
          /\ \A m \in Under(sub, Kid(t, s, n, o)) : Before(d, n, m)
          /\ sub[n] = {n} \cup Under(sub, Kid(t, s, n, d)) \cup Under(sub, Kid(t, s, n, o))
      BY ForestIs
    <2>4. /\ \A m \in P(d) : m \in X /\ m # r
          /\ \A m \in P(d) : s[o] \notin sub[m]
          /\ \A m \in P(d) : s[d] \notin sub[m] => new[m] = sub[m]
      <3>1. \A m \in P(d) : m \in X /\ m # r /\ m \notin P(o)
        BY <1>2, <1>5
      <3>2. \A m \in P(d) : s[o] \notin sub[m]
        BY <1>2, <2>2, <3>1
      <3>3. ASSUME NEW m \in P(d), s[d] \notin sub[m]
            PROVE  new[m] = sub[m]
        <4>1. \A e \in Dir : s[e] \notin sub[m]
          BY <2>2, <3>2, <3>3
        <4>2. QED
          BY <1>12, <3>1, <4>1
      <3>4. QED
        BY <3>1, <3>2, <3>3
    <2> HIDE DEF o
    <2>5. s[d] \in P(d) /\ s[d] \in Nodes /\ n \in Nodes
      BY <1>2, <1>20, <2>1
    <2>6. n = s[d] \/ Before(d, n, s[d])
      BY <1>3, <2>1
    \* Away from the root nothing changes.
    <2>7. Under(new, kid(n, d)) = Under(sub, Kid(t, s, n, d)) /\ kid(n, d) \in X \cup {NULL}
      <3> DEFINE k == Kid(t, s, n, d)
      <3>1. n # s[o]
        BY <2>1
      <3>2. kid(n, d) = k
        BY <1>9, <2>1, <3>1 DEF o
      <3>3. k \in X \cup {NULL} /\ Under(sub, k) \subseteq sub[n]
        BY <2>3
      <3>4. s[d] \notin Under(sub, k)
        <4>1. s[d] \in Under(sub, k) => Before(d, s[d], n)
          BY <2>3
        <4>2. QED
          BY <2>5, <2>6, <4>1, BeforeIs
      <3> HIDE DEF k
      <3>5. CASE k = NULL
        BY <3>2, <3>3, <3>5 DEF Under, k
      <3>6. CASE k # NULL
        <4>1. k \in X /\ Under(sub, k) = sub[k] /\ Under(new, k) = new[k] /\ k \in sub[k]
          BY <1>4, <3>3, <3>6 DEF Under
        <4>2. k \in P(d) /\ s[d] \notin sub[k]
          BY <2>1, <3>3, <3>4, <4>1
        <4>3. QED
          BY <2>4, <3>2, <4>1, <4>2 DEF k
      <3>7. QED
        BY <3>5, <3>6
    <2>8. /\ Under(new, kid(n, o)) = Under(sub, Kid(t, s, n, o)) \cup Near(d)
          /\ kid(n, o) \in X \cup {NULL}
      <3>1. CASE n = s[d]
        <4>1. kid(n, o) = Kid(t, s, r, d) /\ Kid(t, s, n, o) = NULL
          BY <1>9, <2>1, <2>2, <3>1 DEF Kid
        <4>2. Under(sub, NULL) = {}
          BY DEF Under
        <4>3. Under(new, Kid(t, s, r, d)) = Near(d)
          <5> DEFINE k == Kid(t, s, r, d)
          <5>1. k \in X \cup {NULL} /\ Near(d) = Under(sub, k)
            BY <1>6 DEF Near
          <5> HIDE DEF k
          <5>2. CASE k = NULL
            BY <5>1, <5>2 DEF Under, k
          <5>3. CASE k # NULL
            <6>1. k \in X /\ Near(d) = sub[k] /\ Under(new, k) = new[k] /\ k \in sub[k]
              BY <1>4, <5>1, <5>3 DEF Under
            <6>2. k \in M /\ k # r
              BY <1>6, <6>1
            <6>3. QED
              BY <1>13, <6>1, <6>2 DEF k
          <5>4. QED
            BY <5>2, <5>3
        <4>4. QED
          BY <1>6, <4>1, <4>2, <4>3
      <3>2. CASE n # s[d]
        <4> DEFINE k == Kid(t, s, n, o)
        <4>1. kid(n, o) = k
          BY <1>9, <2>1, <2>2, <3>2
        <4>2. k \in X \cup {NULL} /\ s[d] \in Under(sub, k)
          <5>1. s[d] \notin Under(sub, Kid(t, s, n, d))
            BY <2>3, <2>5, <2>6, <3>2, BeforeIs
          <5>2. QED
            BY <1>20, <2>3, <3>2, <5>1
        <4> HIDE DEF k
        <4>3. k \in X /\ Under(sub, k) = sub[k] /\ Under(new, k) = new[k]
          BY <4>2 DEF Under
        <4>4. new[k] = sub[k] \cup Near(d)
          BY <1>14, <4>2, <4>3
        <4>5. QED
          BY <4>1, <4>3, <4>4 DEF k
      <3>3. QED
        BY <3>1, <3>2
    <2>9. \A m \in Near(d) : Before(d, n, m)
      <3>1. Near(d) \subseteq M
        BY <1>6
      <3>2. QED
        BY <1>3, <2>1, <3>1
    <2>10. new[n] = {n} \cup Under(new, kid(n, d)) \cup Under(new, kid(n, o))
      BY <2>1, <2>3, <2>7, <2>8
    <2>11. ASSUME NEW m \in new[n]
           PROVE  m \in X /\ new[m] \subseteq new[n]
      <3>1. CASE m \in Near(d)
        <4>1. m \in M /\ m # r /\ sub[m] \subseteq Near(d)
          BY <1>6, <3>1
        <4>2. new[m] = sub[m] /\ m \in X
          BY <1>2, <1>13, <4>1
        <4>3. QED
          BY <2>1, <4>1, <4>2
      <3>2. CASE m \in sub[n]
        <4>1. m \in P(d) /\ m \in X /\ sub[m] \subseteq sub[n]
          BY <1>4, <2>1, <3>2
        <4>2. new[m] \subseteq sub[m] \cup Near(d)
          <5>1. CASE s[d] \in sub[m]
            BY <1>14, <4>1, <5>1
          <5>2. CASE s[d] \notin sub[m]
            BY <2>4, <4>1, <5>2
          <5>3. QED
            BY <5>1, <5>2
        <4>3. QED
          BY <2>1, <4>1, <4>2
      <3>3. QED
        BY <2>1, <2>11, <3>1, <3>2
    <2>12. /\ \A m \in Under(new, kid(n, d)) : Before(d, m, n)
           /\ \A m \in Under(new, kid(n, o)) : Before(d, n, m)
      BY <2>3, <2>7, <2>8, <2>9
    <2>13. QED
      BY <1>10, <1>11, <2>7, <2>8, <2>10, <2>11, <2>12, RightIs DEF kid, o
  <1>21. Forest(w, NoSide, new, X)
    BY <1>9, <1>10, <1>11, <1>18, <1>19, <1>20 DEF Forest
  <1>22. \A n \in X : n \in new[r] \/ n \in T
    BY <1>3, <1>11
  <1>23. ASSUME NEW n \in T
         PROVE  n \in X /\ n \notin new[r] /\ new[n] = sub[n]
    <2>1. n \in X /\ n \notin M /\ \A e \in Dir : n \notin P(e)
      BY <1>2
    <2>2. n # r /\ \A e \in Dir : s[e] \notin sub[n]
      BY <1>2, <1>5, <2>1
    <2>3. QED
      BY <1>11, <1>12, <2>1, <2>2
  <1>24. ASSUME NEW n \in new[r]
         PROVE  n = r \/ \E e \in Dir : /\ Before(e, n, r)
                                        /\ Comp(n) = Opp(e) \/ n \in Under(sub, Kid(t, s, r, e))
    <2>1. n \in Nodes
      BY <1>11
    <2>2. ASSUME n \in M, n # r
          PROVE  \E e \in Dir : /\ Before(e, n, r)
                                /\ Comp(n) = Opp(e) \/ n \in Under(sub, Kid(t, s, r, e))
      <3>1. PICK e \in Dir : n \in Near(e)
        BY <1>7, <2>1, <2>2
      <3>2. Before(e, n, r)
        BY <1>6, <3>1
      <3>3. n \in Under(sub, Kid(t, s, r, e))
        BY <3>1 DEF Near
      <3>4. QED
        BY <3>2, <3>3
    <2>3. ASSUME NEW e \in Dir, n \in P(e)
          PROVE  Before(e, n, r) /\ Comp(n) = Opp(e)
      BY <1>3, <1>5, <2>3
    <2>4. QED
      BY <1>11, <2>1, <2>2, <2>3
  <1>25. QED
    BY <1>9, <1>c, <1>11, <1>21, <1>22, <1>23, <1>24

-----------------------------------------------------------------------------
(* The inductive invariant.                                                *)

\* The nodes kept apart while the left subtree of a removed one is splayed.
Apart(sub) == Under(sub, tmp)

\* The tree is whole, but for the nodes kept apart.
Whole(sub) ==
  /\ side = NoSide
  /\ tree.root \in Expected \cup {NULL}
  /\ \A n \in Expected : n \in Under(sub, tree.root) \/ n \in Apart(sub)

\* The greatest of the smaller nodes is on top, and what is apart fits behind.
ReadyToJoin(sub) ==
  /\ tree.root # NULL
  /\ \A n \in sub[tree.root] :
       /\ n = tree.root \/ Before("L", n, tree.root)
       /\ \A k \in Apart(sub) : Before("L", n, k)

\* The next node is in the subtree of elm.
NextIsBelow(sub) ==
  /\ elm \in content
  /\ \A n \in sub[elm] : Key[call.arg] < Key[n]
  /\ \A n \in content : Key[call.arg] < Key[n] =>
       n \in sub[elm] \/ \A m \in sub[elm] : Key[m] < Key[n]

\* What holds of the links, with sub as the witness.
ShapeIs(sub) ==
  /\ Forest(tree, side, sub, Expected)
  /\ tmp \in Expected \cup {NULL}
  /\ Splaying => Parted(tree, side, sub, Expected, Apart(sub))
  /\ ~Splaying => Whole(sub)
  /\ pc = "resplay" => \A n \in Expected : n \in Apart(sub) \/ Key[n] < Key[call.arg]
  /\ pc = "resplayed" => ReadyToJoin(sub)
  /\ pc = "down" => NextIsBelow(sub)

\* Some sets of nodes witness the shape.
Shaped == \E sub \in [Nodes -> SUBSET Nodes] : ShapeIs(sub)

\* Which calls there are, and where in them.
CallInv ==
  /\ pc \in {"idle", "empty", "splay", "splayed", "resplay", "resplayed", "down"}
  /\ elm \in N0 /\ content \in SUBSET Nodes
  /\ call.arg \in N0 /\ call.ret \in N0 \cup {Pending}
  /\ pc = "idle" <=> call.ret # Pending
  /\ pc # "idle" =>
       \/ call.op \in {"min", "max"} /\ call.arg = NULL
       \/ call.op \in {"insert", "remove", "find", "next"} /\ call.arg \in Nodes
  /\ pc # "idle" /\ call.op = "insert" => call.arg \notin content
  /\ pc # "idle" /\ call.op = "next" => call.arg \in content
  /\ pc = "empty" => tree.root = NULL
  /\ pc = "splayed" => tree.root # NULL
  /\ pc = "down" => call.op = "next"
  /\ pc \in {"resplay", "resplayed"} =>
       call.op = "remove" /\ \E n \in content : Key[n] = Key[call.arg]
  /\ pc \notin {"resplay", "resplayed"} => tmp = NULL

\* No two nodes of the set have equal keys.
Distinct == \A n, m \in content : Key[n] = Key[m] => n = m

\* The inductive invariant.
SInv == CallInv /\ Distinct /\ ClosestOnTop /\ Shaped

\* A tree that no loop is working on.
Standing(t, sub, X) ==
  /\ Forest(t, NoSide, sub, X)
  /\ t.root \in X \cup {NULL}
  /\ \A n \in X : n \in Under(sub, t.root)

\* Where no loop is working.
Quiet == pc \notin {"splay", "resplay", "resplayed"}

\* Between the splays there is one tree, with all nodes of the set.
LEMMA QuietIs ==
  ASSUME SInv, Quiet
  PROVE  /\ \E sub : Standing(tree, sub, content) /\ (pc = "down" => NextIsBelow(sub))
         /\ side = NoSide /\ tmp = NULL
  <1>1. tmp = NULL /\ Expected = content /\ ~Splaying
    BY DEF SInv, CallInv, Quiet, Expected, Splaying
  <1>2. PICK sub \in [Nodes -> SUBSET Nodes] : ShapeIs(sub)
    BY DEF SInv, Shaped
  <1>3. Apart(sub) = {}
    BY <1>1 DEF Apart, Under
  <1>4. Forest(tree, side, sub, content) /\ Whole(sub) /\ (pc = "down" => NextIsBelow(sub))
    BY <1>1, <1>2 DEF ShapeIs
  <1>5. Standing(tree, sub, content)
    BY <1>1, <1>3, <1>4 DEF Whole, Standing
  <1>6. QED
    BY <1>1, <1>4, <1>5 DEF Whole

\* A step that leaves one tree leaves the shape right.
LEMMA StandingIs ==
  ASSUME NEW sub, Standing(tree, sub, content)',
         side' = NoSide, tmp' = NULL, Quiet', (pc = "down" => NextIsBelow(sub))'
  PROVE  Shaped'
  <1>1. (tmp = NULL /\ Expected = content /\ ~Splaying)'
    BY DEF Quiet, Expected, Splaying
  <1>2. (Forest(tree, side, sub, Expected) /\ tree.root \in Expected \cup {NULL}
           /\ \A n \in Expected : n \in Under(sub, tree.root))'
    BY <1>1 DEF Standing
  <1>3. Whole(sub)'
    BY <1>2 DEF Whole
  <1>4. (pc # "resplay" /\ pc # "resplayed")'
    BY DEF Quiet
  <1>5. ShapeIs(sub)'
    BY <1>1, <1>2, <1>3, <1>4 DEF ShapeIs
  <1>6. sub \in [Nodes -> SUBSET Nodes]
    BY <1>2 DEF Forest
  <1>7. QED
    BY <1>5, <1>6 DEF Shaped

\* The empty tree.
LEMMA InitIs ==
  Init => SInv
  <1> SUFFICES ASSUME Init
               PROVE  SInv
    OBVIOUS
  <1> DEFINE sub == [n \in Nodes |-> {}]
  <1>1. NoSide \in Sides /\ sub \in [Nodes -> SUBSET Nodes]
    BY RowsAre DEF NoSide, Sides
  <1>2. tree \in Trees /\ tree.root = NULL /\ side = NoSide /\ content = {} /\ Expected = {}
    BY DEF Init, Trees, Rows, Links, N0, Expected
  <1>3. tmp = NULL /\ ~Splaying /\ pc = "idle"
    BY DEF Init, Splaying
  <1> HIDE DEF sub
  <1>4. Forest(tree, side, sub, Expected)
    BY <1>1, <1>2 DEF Forest
  <1>5. Whole(sub)
    BY <1>2 DEF Whole
  <1>6. ShapeIs(sub)
    BY <1>2, <1>3, <1>4, <1>5 DEF ShapeIs
  <1>7. CallInv
    BY KeyAssumption DEF Init, CallInv, N0, NoCall
  <1>8. QED
    BY <1>1, <1>2, <1>3, <1>6, <1>7 DEF SInv, Shaped, Distinct, ClosestOnTop

\* The calls there are.
Legal(op, arg) ==
  \/ op \in {"min", "max"} /\ arg = NULL
  \/ op \in {"insert", "remove", "find", "next"} /\ arg \in Nodes
       /\ (op = "insert" => arg \notin content) /\ (op = "next" => arg \in content)

\* A call starts: nothing is set aside yet.
LEMMA StartKeeps ==
  ASSUME SInv, NEW op, NEW arg, Legal(op, arg), Start(op, arg)
  PROVE  SInv'
  <1>1. /\ pc = "idle" /\ tree' = tree /\ side' = side /\ elm' = elm /\ tmp' = tmp
        /\ content' = content
        /\ call' = [op |-> op, arg |-> arg, ret |-> Pending]
        /\ pc' = IF tree.root = NULL THEN "empty" ELSE "splay"
    BY DEF Start
  <1>2. call'.op = op /\ call'.arg = arg /\ call'.ret = Pending
    BY <1>1
  <1>3. PICK sub : Standing(tree, sub, content)
    BY <1>1, QuietIs DEF Quiet
  <1>4. side = NoSide /\ tmp = NULL
    BY <1>1, QuietIs DEF Quiet
  <1>5. CallInv'
    <2>1. arg \in N0
      BY DEF Legal, N0
    <2>2. CallInv
      BY DEF SInv
    <2>3. pc' \in {"empty", "splay"} /\ (pc' = "empty" => tree.root = NULL)
      BY <1>1
    <2>4. QED
      BY <1>1, <1>2, <1>4, <2>1, <2>2, <2>3 DEF CallInv, Legal
  <1>6. Distinct' /\ ClosestOnTop'
    BY <1>1 DEF SInv, Distinct, ClosestOnTop
  <1>7. Shaped'
    <2>1. CASE tree.root = NULL
      <3>1. pc' = "empty"
        BY <1>1, <2>1
      <3>2. Standing(tree, sub, content)'
        BY <1>1, <1>3 DEF Standing
      <3>3. QED
        BY <1>1, <1>4, <3>1, <3>2, StandingIs DEF Quiet
    <2>2. CASE tree.root # NULL
      <3>1. pc' = "splay" /\ Splaying' /\ Expected' = content
        BY <1>1, <2>2 DEF Splaying, Expected
      <3>2. /\ Forest(tree, NoSide, sub, content) /\ tree.root \in content
            /\ sub \in [Nodes -> SUBSET Nodes]
        BY <1>3, <2>2 DEF Standing, Forest
      <3>3. Forest(tree, side, sub, Expected)'
        BY <1>1, <1>4, <3>1, <3>2
      <3>4. (Apart(sub) = {})'
        BY <1>1, <1>4 DEF Apart, Under
      <3>5. \A d \in Dir : Kid(tree, NoSide, SCRATCH, Opp(d)) = NULL /\ NoSide[d] = SCRATCH
        BY OppIs DEF Kid, NoSide
      <3>6. \A d \in Dir : Piece(tree, NoSide, sub, d) = {}
        BY <3>5 DEF Piece, Under
      <3>7. \A n \in content : n \in sub[tree.root]
        BY <1>3, <2>2 DEF Standing, Under
      <3>8. Parted(tree, NoSide, sub, content, {})'
        BY <1>1, <3>2, <3>5, <3>6, <3>7 DEF Parted
      <3>9. Parted(tree, side, sub, Expected, Apart(sub))'
        BY <1>1, <1>4, <3>1, <3>4, <3>8
      <3>10. ShapeIs(sub)'
        BY <1>1, <1>4, <3>1, <3>3, <3>9 DEF ShapeIs
      <3>11. QED
        BY <3>2, <3>10 DEF Shaped
    <2>3. QED
      BY <2>1, <2>2
  <1>8. QED
    BY <1>5, <1>6, <1>7 DEF SInv

\* The rotation before a node is hung: whatever the search has set aside, and
\* the side on which it goes on, stay.
LEMMA TurnIs ==
  ASSUME NEW s, NEW sub, NEW X, NEW T, Forest(tree, s, sub, X), Parted(tree, s, sub, X, T)
  PROVE  \E new \in [Nodes -> SUBSET Nodes] :
           /\ Forest(Turned, s, new, X) /\ Parted(Turned, s, new, X, T)
           /\ \A n \in T : new[n] = sub[n]
           /\ Comp(Turned.root) = Comp(tree.root)
  <1> DEFINE r == tree.root
             d == Comp(r)
             up == tree.child[r][d]
  <1>1. sub \in [Nodes -> SUBSET Nodes] /\ X \in SUBSET Nodes /\ r \in X /\ s \in Sides
    BY DEF Forest, Parted
  <1>2. CASE Turned = tree
    BY <1>1, <1>2
  <1>3. CASE Turned # tree
    <2>1. d # "here" /\ up # NULL /\ Comp(up) = d /\ Turned = RotateRoot(tree, d)
      BY <1>3 DEF Turned
    <2>2. d \in Dir
      BY <2>1 DEF Comp, Dir
    <2>3. /\ T \subseteq X /\ \A n \in sub[r] : n \notin T
          /\ \A e \in Dir : Piece(tree, s, sub, e) \subseteq X
          /\ \A e \in Dir : \A n \in Piece(tree, s, sub, e) : n \notin sub[r]
          /\ \A n \in X : n \in sub[r] \/ sub[n] \cap sub[r] = {}
          /\ \A e \in Dir : s[e] = SCRATCH \/ s[e] \in Piece(tree, s, sub, e)
      <3>1. \A e \in Dir : s[e] = SCRATCH \/ s[e] \in Piece(tree, s, sub, e)
        BY DEF Parted
      <3>2. QED
        BY <3>1, PartsApart
    <2>4. r \in sub[r] /\ sub[r] \subseteq Nodes /\ SCRATCH \notin sub[r]
      <3>1. r \in sub[r]
        BY <1>1, <2>2, ForestIs
      <3>2. QED
        BY <1>1, <3>1, RowsAre
    <2>5. \A e \in Dir : s[e] \notin sub[r]
      BY <2>3, <2>4
    <2>6. Kid(tree, s, r, d) = up
      BY <2>2, <2>4, <2>5, OppIs DEF Kid
    <2>7. up \in X
      BY <1>1, <2>1, <2>2, <2>6, ForestIs
    <2> HIDE DEF up, d, r
    <2>8. tree.root = r /\ tree.child[r][d] = up
      BY DEF up, d, r
    <2>9. PICK new \in [Nodes -> SUBSET Nodes] :
            /\ RotateRoot(tree, d).root = up
            /\ Forest(RotateRoot(tree, d), s, new, X)
            /\ new[up] = sub[r]
            /\ \A n \in X \ sub[r] : new[n] = sub[n]
            /\ \A x \in Rows \ sub[r], e \in Dir :
                 RotateRoot(tree, d).child[x][e] = tree.child[x][e]
      BY <1>1, <2>2, <2>3, <2>5, <2>7, <2>8, RotateIs
    <2>10. PICK u : u = Turned
      OBVIOUS
    <2>11. /\ u.root = up /\ Forest(u, s, new, X) /\ new[up] = sub[r]
           /\ \A x \in Rows \ sub[r], e \in Dir : u.child[x][e] = tree.child[x][e]
      BY <2>1, <2>9, <2>10
    <2>12. \A e \in Dir : Kid(u, s, SCRATCH, e) = Kid(tree, s, SCRATCH, e)
      BY <2>4, <2>11, RowsAre DEF Kid
    <2>13. ASSUME NEW e \in Dir
           PROVE  Piece(u, s, new, e) = Piece(tree, s, sub, e)
      <3> DEFINE k == Kid(tree, s, SCRATCH, Opp(e))
      <3>1. k = Kid(u, s, SCRATCH, Opp(e)) /\ k \in X \cup {NULL}
        BY <2>12, OppIs DEF Parted
      <3>2. CASE k = NULL
        BY <3>1, <3>2 DEF Piece, Under
      <3>3. CASE k # NULL
        <4>1. k \in X /\ k \in sub[k] /\ Piece(tree, s, sub, e) = sub[k]
          BY <2>2, <3>1, <3>3, ForestIs DEF Piece, Under
        <4>2. k \notin sub[r]
          BY <2>3, <4>1
        <4>3. new[k] = sub[k]
          BY <2>9, <4>1, <4>2
        <4>4. QED
          BY <3>1, <3>3, <4>1, <4>3 DEF Piece, Under
      <3>4. QED
        BY <3>2, <3>3
    <2>14. \A n \in T : new[n] = sub[n]
      BY <2>3, <2>9
    <2>15. new[u.root] = sub[tree.root] /\ u.root \in X
      BY <2>7, <2>8, <2>11
    <2>16. ASSUME NEW e \in Dir
           PROVE  /\ Kid(u, s, SCRATCH, Opp(e)) \in X \cup {NULL}
                  /\ \A m \in Piece(u, s, new, e), k \in new[u.root] : Before(e, m, k)
                  /\ s[e] = SCRATCH \/ s[e] \in Piece(u, s, new, e)
                  /\ \A m \in Piece(u, s, new, e) :
                       (m = s[e] \/ Before(e, m, s[e])) /\ Comp(m) = Opp(e)
      <3>1. Kid(u, s, SCRATCH, Opp(e)) = Kid(tree, s, SCRATCH, Opp(e))
        BY <2>12, OppIs
      <3>2. QED
        BY <2>13, <2>15, <3>1 DEF Parted
    <2>17. \A n \in X : \/ n \in new[u.root] \/ n \in T
                        \/ \E e \in Dir : n \in Piece(u, s, new, e)
      BY <2>13, <2>15 DEF Parted
    <2>18. \A n \in T :
             /\ n \in X /\ new[n] \subseteq T
             /\ n \notin new[u.root] /\ \A e \in Dir : n \notin Piece(u, s, new, e)
      BY <2>13, <2>14, <2>15 DEF Parted
    <2>19. \A n \in X, m \in T : n \in T \/ Before("L", n, m)
      BY DEF Parted
    <2>20. Parted(u, s, new, X, T)
      BY <2>15, <2>16, <2>17, <2>18, <2>19 DEF Parted
    <2>21. Comp(Turned.root) = Comp(tree.root)
      BY <2>1, <2>8, <2>10, <2>11 DEF d
    <2>22. QED
      BY <2>10, <2>11, <2>14, <2>20, <2>21
  <1>4. QED
    BY <1>2, <1>3

\* What the loops start from, with T for what is kept apart.
LEMMA SplayingIs ==
  ASSUME SInv, Splaying
  PROVE  /\ \E sub \in [Nodes -> SUBSET Nodes] :
              /\ Forest(tree, side, sub, Expected) /\ Parted(tree, side, sub, Expected, Apart(sub))
              /\ pc = "resplay" => \A n \in Expected : n \in Apart(sub) \/ Key[n] < Key[call.arg]
              /\ tmp \in Expected \cup {NULL}
         /\ call.op \notin {"min", "max"} => call.arg \in Nodes
         /\ pc = "splay" => tmp = NULL
  BY DEF SInv, CallInv, Shaped, ShapeIs, Splaying

\* The trees kept apart are the same if their sets are.
LEMMA ApartIs ==
  ASSUME NEW t, NEW s, NEW sub, NEW X, NEW new, Forest(t, s, sub, X),
         tmp \in X \cup {NULL}, \A n \in Apart(sub) : new[n] = sub[n]
  PROVE  Apart(new) = Apart(sub)
  <1>1. CASE tmp = NULL
    BY <1>1 DEF Apart, Under
  <1>2. CASE tmp # NULL
    <2>1. tmp \in X /\ "L" \in Dir
      BY <1>2 DEF Dir
    <2>2. tmp \in sub[tmp]
      BY <2>1, ForestIs
    <2>3. QED
      BY <1>2, <2>2 DEF Apart, Under
  <1>3. QED
    BY <1>1, <1>2

\* One iteration of the loop.
LEMMA SplayStepKeeps ==
  ASSUME SInv, SplayStep
  PROVE  SInv'
  <1> DEFINE d == Comp(tree.root)
             r == Turned.root
             c == Turned.child[r][d]
             T(sub) == Apart(sub)
  <1>1. /\ Splaying /\ d # "here" /\ c # NULL
        /\ tree' = Hung(Turned, side[Opp(d)], d, r, c)
        /\ side' = Moved(side, d, r)
        /\ pc' = pc /\ elm' = elm /\ tmp' = tmp /\ call' = call /\ content' = content
    BY DEF SplayStep, GoesOn, Hung, Moved
  <1>2. d \in Dir
    BY <1>1 DEF Comp, Dir
  <1>3. PICK sub \in [Nodes -> SUBSET Nodes] :
          /\ Forest(tree, side, sub, Expected) /\ Parted(tree, side, sub, Expected, Apart(sub))
          /\ pc = "resplay" => \A n \in Expected : n \in Apart(sub) \/ Key[n] < Key[call.arg]
          /\ tmp \in Expected \cup {NULL}
    BY <1>1, SplayingIs
  <1>4. PICK one \in [Nodes -> SUBSET Nodes] :
          /\ Forest(Turned, side, one, Expected)
          /\ Parted(Turned, side, one, Expected, Apart(sub))
          /\ \A n \in Apart(sub) : one[n] = sub[n]
          /\ Comp(Turned.root) = Comp(tree.root)
    BY <1>3, TurnIs
  <1>5. PICK t : t = Turned
    OBVIOUS
  <1>6. r \in Expected /\ c \in Expected /\ Expected \subseteq Nodes
    <2>1. r \in Expected
      BY <1>4 DEF Parted
    <2>2. side[Opp(d)] # r
      <3>1. r \in one[r]
        BY <1>2, <1>4, <2>1, ForestIs
      <3>2. side[Opp(d)] \in one[r] => r \in Piece(Turned, side, one, Opp(d))
        BY <1>2, <1>4, <2>1, PartsApart, OppIs
      <3>3. r \notin Piece(Turned, side, one, Opp(d))
        BY <1>2, <1>4, <3>1, PartsApart, OppIs
      <3>4. QED
        BY <3>1, <3>2, <3>3
    <2>3. Kid(Turned, side, r, d) = c
      BY <2>2 DEF Kid
    <2>4. c \in Expected \cup {NULL}
      BY <1>2, <1>4, <2>1, <2>3, ForestIs
    <2>5. QED
      BY <1>1, <1>3, <2>1, <2>4 DEF Forest
  <1>7. PICK q : q = r
    OBVIOUS
  <1>8. PICK b : b = c
    OBVIOUS
  <1>9. PICK e : e = d
    OBVIOUS
  <1>10. PICK u : u = tree'
    OBVIOUS
  <1>11. PICK v : v = side'
    OBVIOUS
  <1>12. PICK S : S = side
    OBVIOUS
  <1>13. PICK X : X = Expected
    OBVIOUS
  <1>14. PICK A : A = Apart(sub)
    OBVIOUS
  <1>15. /\ Forest(t, S, one, X) /\ Parted(t, S, one, X, A)
         /\ e \in Dir
         /\ t.root = q
         /\ b \in X
         /\ t.child[q][e] = b
         /\ Comp(q) = e
         /\ u = Hung(t, S[Opp(e)], e, q, b) /\ v = Moved(S, e, q)
    BY <1>1, <1>2, <1>4, <1>5, <1>6, <1>7, <1>8, <1>9, <1>10, <1>11, <1>12, <1>13, <1>14
  <1>16. call.op \notin {"min", "max"} => call.arg \in Nodes
    BY <1>1, SplayingIs
  <1> HIDE DEF d, r, c
  <1>17. PICK new \in [Nodes -> SUBSET Nodes] :
           /\ Forest(u, v, new, X) /\ Parted(u, v, new, X, A)
           /\ \A n \in A : new[n] = one[n]
    BY <1>15, <1>16, LinkIs
  <1>18. Expected' = X /\ Splaying'
    BY <1>1, <1>13 DEF Expected, Others, Splaying
  <1>19. Apart(new)' = A
    <2>1. \A n \in Apart(sub) : new[n] = sub[n]
      BY <1>4, <1>14, <1>17
    <2>2. Apart(new) = Apart(sub)
      BY <1>3, <2>1, ApartIs
    <2>3. QED
      BY <1>1, <1>14, <2>2 DEF Apart
  <1>20. Parted(tree, side, new, Expected, Apart(new))'
    BY <1>1, <1>10, <1>11, <1>17, <1>18, <1>19 DEF Parted, Comp
  <1>21. Forest(tree, side, new, Expected)'
    BY <1>10, <1>11, <1>17, <1>18
  <1>22. (pc = "resplay" => \A n \in Expected : n \in Apart(new) \/ Key[n] < Key[call.arg])'
    BY <1>1, <1>3, <1>13, <1>14, <1>18, <1>19
  <1>23. (tmp \in Expected \cup {NULL} /\ pc # "resplayed" /\ pc # "down")'
    BY <1>1, <1>3, <1>13, <1>18 DEF Splaying
  <1>24. Shaped'
    BY <1>17, <1>18, <1>20, <1>21, <1>22, <1>23 DEF ShapeIs, Shaped
  <1>25. CallInv' /\ Distinct' /\ ClosestOnTop'
    <2>1. pc # "splayed" /\ pc # "empty"
      BY <1>1 DEF Splaying
    <2>2. Distinct'
      BY <1>1 DEF SInv, Distinct
    <2>3. ClosestOnTop'
      BY <1>1, <2>1 DEF ClosestOnTop
    <2>4. CallInv'
      BY <1>1, <2>1 DEF SInv, CallInv
    <2>5. QED
      BY <2>2, <2>3, <2>4
  <1>26. QED
    BY <1>24, <1>25 DEF SInv

\* After the loop the key is at the root or between the root and what was set
\* aside: a node on side e of the root is not on that side of the key's place.
LEMMA EndIs ==
  ASSUME SInv, SplayEnd
  PROVE  \E new \in [Nodes -> SUBSET Nodes] :
           /\ Forest(tree, side, new, Expected)'
           /\ side' = NoSide /\ Expected' = Expected
           /\ Apart(new)' = Apart(new)
           /\ tree'.root \in Expected
           /\ \A e \in Dir : tree'.child[SCRATCH][e] = NULL
           /\ \A n \in Expected : n \in new[tree'.root] \/ n \in Apart(new)
           /\ \A n \in Apart(new) : n \in Expected /\ n \notin new[tree'.root]
           /\ \A n \in new[tree'.root], m \in Apart(new) : Before("L", n, m)
           /\ pc = "resplay" => \A n \in Expected : n \in Apart(new) \/ Key[n] < Key[call.arg]
           /\ \A n \in new[tree'.root] :
                n = tree'.root \/ \E e \in Dir : /\ Before(e, n, tree'.root)
                                                 /\ Comp(n) = Opp(e) \/ Comp(tree'.root) # e
  <1>1. /\ Splaying /\ ~GoesOn
        /\ tree' = Assembled(Turned, side)
        /\ side' = NoSide
        /\ pc' = IF pc = "splay" THEN "splayed" ELSE "resplayed"
        /\ elm' = elm /\ tmp' = tmp /\ call' = call /\ content' = content
    BY DEF SplayEnd, Assembled, Cleared
  <1>2. PICK sub \in [Nodes -> SUBSET Nodes] :
          /\ Forest(tree, side, sub, Expected) /\ Parted(tree, side, sub, Expected, Apart(sub))
          /\ pc = "resplay" => \A n \in Expected : n \in Apart(sub) \/ Key[n] < Key[call.arg]
          /\ tmp \in Expected \cup {NULL}
    BY <1>1, SplayingIs
  <1>3. PICK one \in [Nodes -> SUBSET Nodes] :
          /\ Forest(Turned, side, one, Expected)
          /\ Parted(Turned, side, one, Expected, Apart(sub))
          /\ \A n \in Apart(sub) : one[n] = sub[n]
          /\ Comp(Turned.root) = Comp(tree.root)
    BY <1>2, TurnIs
  <1>4. PICK t : t = Turned
    OBVIOUS
  <1>5. PICK r : r = t.root
    OBVIOUS
  <1>6. PICK w : w = tree'
    OBVIOUS
  <1>7. PICK s : s = side
    OBVIOUS
  <1>8. PICK X : X = Expected
    OBVIOUS
  <1>9. PICK A : A = Apart(sub)
    OBVIOUS
  <1>10. /\ Forest(t, s, one, X) /\ Parted(t, s, one, X, A)
         /\ t.root = r
         /\ w = Assembled(t, s)
    BY <1>1, <1>3, <1>4, <1>5, <1>6, <1>7, <1>8, <1>9
  <1>11. PICK new \in [Nodes -> SUBSET Nodes] :
           /\ Forest(w, NoSide, new, X) /\ w.root = r
           /\ \A e \in Dir : w.child[SCRATCH][e] = NULL
           /\ \A n \in X : n \in new[r] \/ n \in A
           /\ \A n \in A : n \in X /\ n \notin new[r] /\ new[n] = one[n]
           /\ \A n \in new[r] :
                n = r \/ \E e \in Dir : /\ Before(e, n, r)
                                        /\ Comp(n) = Opp(e) \/ n \in Under(one, Kid(t, s, r, e))
    BY <1>10, AssembleIs
  <1>12. r \in X /\ X \subseteq Nodes
    BY <1>10 DEF Parted, Forest
  <1>13. Expected' = X
    BY <1>1, <1>8 DEF Expected, Others, Splaying
  <1>14. Apart(new) = A /\ Apart(new)' = A
    <2>1. \A n \in Apart(sub) : new[n] = sub[n]
      BY <1>3, <1>9, <1>11
    <2>2. Apart(new) = Apart(sub)
      BY <1>2, <2>1, ApartIs
    <2>3. QED
      BY <1>1, <1>9, <2>2 DEF Apart
  <1>15. ASSUME NEW e \in Dir, Comp(r) = e
         PROVE  Kid(t, s, r, e) = NULL
    <2>1. Comp(tree.root) = e /\ e # "here"
      BY <1>3, <1>4, <1>5, <1>15 DEF Dir
    <2>2. t.child[r][e] = NULL
      BY <1>1, <1>4, <1>5, <2>1 DEF GoesOn
    <2>3. QED
      BY <2>2 DEF Kid
  <1>16. ASSUME NEW n \in new[r]
         PROVE  n = r \/ \E e \in Dir : Before(e, n, r) /\ (Comp(n) = Opp(e) \/ Comp(r) # e)
    <2>1. ASSUME NEW e \in Dir, n \in Under(one, Kid(t, s, r, e))
          PROVE  Comp(r) # e
      BY <1>15, <2>1 DEF Under
    <2>2. QED
      BY <1>11, <2>1
  <1>17. \A n \in new[r] : n \in X
    <2>1. "L" \in Dir
      BY DEF Dir
    <2>2. QED
      BY <1>11, <1>12, <2>1, ForestIs
  <1>18. ASSUME NEW n \in new[r], NEW m \in A
         PROVE  Before("L", n, m)
    <2>1. n \notin A /\ n \in X
      BY <1>11, <1>17
    <2>2. QED
      BY <1>10, <2>1 DEF Parted
  <1>19. Forest(tree, side, new, Expected)'
    BY <1>1, <1>6, <1>11, <1>13
  <1>20. tree'.root = r
    BY <1>6, <1>11
  <1>21. pc = "resplay" => \A n \in Expected : n \in Apart(new) \/ Key[n] < Key[call.arg]
    BY <1>2, <1>9, <1>14
  <1>c. \A e \in Dir : tree'.child[SCRATCH][e] = NULL
    BY <1>6, <1>11
  <1>22. WITNESS new \in [Nodes -> SUBSET Nodes]
  <1>23. QED
    BY <1>1, <1>8, <1>11, <1>12, <1>13, <1>14, <1>16, <1>18, <1>19, <1>20, <1>21, <1>c

\* The loop ends.
LEMMA SplayEndKeeps ==
  ASSUME SInv, SplayEnd
  PROVE  SInv'
  <1>1. /\ Splaying
        /\ side' = NoSide
        /\ pc' = IF pc = "splay" THEN "splayed" ELSE "resplayed"
        /\ elm' = elm /\ tmp' = tmp /\ call' = call /\ content' = content
    BY DEF SplayEnd
  <1>2. PICK new \in [Nodes -> SUBSET Nodes] :
           /\ Forest(tree, side, new, Expected)'
           /\ side' = NoSide /\ Expected' = Expected
           /\ Apart(new)' = Apart(new)
           /\ tree'.root \in Expected
           /\ \A n \in Expected : n \in new[tree'.root] \/ n \in Apart(new)
           /\ \A n \in Apart(new) : n \in Expected /\ n \notin new[tree'.root]
           /\ \A n \in new[tree'.root], m \in Apart(new) : Before("L", n, m)
           /\ pc = "resplay" => \A n \in Expected : n \in Apart(new) \/ Key[n] < Key[call.arg]
           /\ \A n \in new[tree'.root] :
                n = tree'.root \/ \E e \in Dir : /\ Before(e, n, tree'.root)
                                                 /\ Comp(n) = Opp(e) \/ Comp(tree'.root) # e
    BY EndIs
  <1>3. PICK r : r = tree'.root
    OBVIOUS
  <1>4. /\ r \in Expected /\ r # NULL /\ r \in new[r] /\ new[r] \subseteq Expected
        /\ Expected \subseteq Nodes
    <2>1. "L" \in Dir
      BY DEF Dir
    <2>2. PICK t : t = tree'
      OBVIOUS
    <2>3. PICK s : s = side'
      OBVIOUS
    <2>4. PICK X : X = Expected'
      OBVIOUS
    <2>5. Forest(t, s, new, X) /\ r \in X
      BY <1>2, <1>3, <2>2, <2>3, <2>4
    <2>6. X \subseteq Nodes
      BY <2>5 DEF Forest
    <2>7. \A m \in new[r] : m \in X
      BY <2>1, <2>5, ForestIs
    <2>8. r \in new[r]
      BY <2>1, <2>5, ForestIs
    <2>9. QED
      BY <1>2, <2>4, <2>5, <2>6, <2>7, <2>8, RowsAre
  <1>5. CallInv' /\ Distinct'
    <2>1. tree'.root # NULL
      BY <1>3, <1>4
    <2>2. Distinct'
      BY <1>1 DEF SInv, Distinct
    <2>3. CallInv
      BY DEF SInv
    <2>4. pc = "splay" \/ pc = "resplay"
      BY <1>1 DEF Splaying
    <2>5. CallInv'
      <3>1. CASE pc = "splay"
        BY <1>1, <2>1, <2>3, <3>1 DEF CallInv
      <3>2. CASE pc = "resplay"
        BY <1>1, <2>1, <2>3, <3>2 DEF CallInv
      <3>3. QED
        BY <2>4, <3>1, <3>2
    <2>6. QED
      BY <2>2, <2>5
  <1>6. (Splaying = FALSE)' /\ pc' # "resplay" /\ pc' # "down"
    BY <1>1 DEF Splaying
  <1>7. Whole(new)'
    <2>1. tree'.root \in Expected'
      BY <1>2
    <2>2. \A n \in Expected' : n \in Under(new, tree'.root) \/ n \in Apart(new)'
      BY <1>2, <1>3, <1>4 DEF Under
    <2>3. QED
      BY <1>1, <2>1, <2>2 DEF Whole
  <1>8. \A n \in Expected : Key[n] \in Int /\ Key[r] \in Int
    BY <1>4, KeyAssumption
  <1>9. (pc = "resplayed" => ReadyToJoin(new))'
    <2>1. SUFFICES ASSUME pc' = "resplayed"
                   PROVE  ReadyToJoin(new)'
      OBVIOUS
    <2>2. pc = "resplay" /\ call.op = "remove"
      BY <1>1, <2>1 DEF Splaying, SInv, CallInv
    <2>3. call.arg \in Nodes
      BY <1>1, <2>2, SplayingIs
    <2>4. \A n \in new[r] : Comp(n) = "R"
      <3>1. \A n \in new[r] : Key[n] < Key[call.arg] /\ n \in Nodes
        BY <1>2, <1>3, <1>4, <2>2
      <3>2. QED
        BY <2>2, <2>3, <3>1, KeyAssumption DEF Comp
    <2>5. ASSUME NEW n \in new[r]
          PROVE  n = r \/ Before("L", n, r)
      <3>1. "R" \in Dir /\ Opp("R") = "L" /\ \A e \in Dir : e = "L" \/ e = "R"
        BY DEF Dir, Opp
      <3>2. Comp(n) = "R" /\ Comp(r) = "R"
        BY <1>4, <2>4
      <3>3. ASSUME NEW e \in Dir, Before(e, n, r), Comp(n) = Opp(e) \/ Comp(r) # e
            PROVE  e = "L"
        BY <3>1, <3>2, <3>3
      <3>4. QED
        BY <1>2, <1>3, <3>3
    <2>6. \A n \in new[r], k \in Apart(new)' : Before("L", n, k)
      BY <1>2, <1>3
    <2>7. QED
      BY <1>3, <1>4, <2>5, <2>6 DEF ReadyToJoin
  <1>10. ShapeIs(new)'
    <2>1. tmp' \in Expected' \cup {NULL}
      BY <1>1, <1>2, SplayingIs
    <2>2. Forest(tree, side, new, Expected)'
      BY <1>2
    <2>3. QED
      BY <1>6, <1>7, <1>9, <2>1, <2>2 DEF ShapeIs
  <1>11. ClosestOnTop'
    <2>1. SUFFICES ASSUME pc' = "splayed", NEW n \in content'
                   PROVE  (CASE call.op = "min" -> Key[tree.root] <= Key[n]
                            [] call.op = "max" -> Key[tree.root] >= Key[n]
                            [] OTHER -> /\ Key[tree.root] <= Key[call.arg] =>
                                          ~(Key[tree.root] < Key[n] /\ Key[n] <= Key[call.arg])
                                        /\ Key[tree.root] >= Key[call.arg] =>
                                          ~(Key[call.arg] <= Key[n] /\ Key[n] < Key[tree.root]))'
      BY DEF ClosestOnTop
    <2>2. pc = "splay" /\ tmp = NULL
      BY <1>1, <2>1, SplayingIs DEF Splaying
    <2>3. Expected = content
      BY <2>2 DEF Expected
    <2>4. Apart(new) = {}
      BY <2>2 DEF Apart, Under
    <2>5. n \in new[r] /\ n \in Nodes /\ r \in Nodes
      BY <1>1, <1>2, <1>3, <1>4, <2>1, <2>3, <2>4
    <2>6. n = r \/ \E e \in Dir : Before(e, n, r) /\ (Comp(n) = Opp(e) \/ Comp(r) # e)
      BY <1>2, <1>3, <2>5
    <2>7. Key[n] \in Int /\ Key[r] \in Int
      BY <2>5, KeyAssumption
    <2>8. (n = r) \/ (Key[n] < Key[r] /\ (Comp(n) = "R" \/ Comp(r) # "L"))
                  \/ (Key[r] < Key[n] /\ (Comp(n) = "L" \/ Comp(r) # "R"))
      BY <2>6 DEF Before, Dir, Opp
    <2>9. CASE call.op = "min"
      <3>1. Comp(n) = "L" /\ Comp(r) = "L"
        BY <2>9 DEF Comp
      <3>2. Key[r] <= Key[n]
        BY <2>7, <2>8, <3>1
      <3>3. QED
        BY <1>1, <1>3, <2>9, <3>2
    <2>10. CASE call.op = "max"
      <3>1. Comp(n) = "R" /\ Comp(r) = "R"
        BY <2>10 DEF Comp
      <3>2. Key[r] >= Key[n]
        BY <2>7, <2>8, <3>1
      <3>3. QED
        BY <1>1, <1>3, <2>10, <3>2
    <2>11. CASE call.op \notin {"min", "max"}
      <3>1. call.arg \in Nodes /\ Key[call.arg] \in Int
        BY <1>1, <2>11, SplayingIs, KeyAssumption
      <3>2. \A x \in Nodes : /\ Comp(x) = "R" => Key[x] < Key[call.arg]
                             /\ Comp(x) = "L" => Key[call.arg] < Key[x]
                             /\ Comp(x) # "R" => Key[call.arg] <= Key[x]
                             /\ Comp(x) # "L" => Key[x] <= Key[call.arg]
        BY <2>11, <3>1, KeyAssumption DEF Comp
      <3>3. /\ Key[n] < Key[r] => Key[n] < Key[call.arg]
            /\ Key[r] < Key[n] => Key[call.arg] < Key[n]
        BY <2>5, <2>7, <2>8, <3>1, <3>2
      <3>4. /\ Key[r] <= Key[call.arg] => ~(Key[r] < Key[n] /\ Key[n] <= Key[call.arg])
            /\ Key[r] >= Key[call.arg] => ~(Key[call.arg] <= Key[n] /\ Key[n] < Key[r])
        BY <2>7, <3>1, <3>3
      <3>5. QED
        BY <1>1, <1>3, <2>11, <3>4
    <2>12. QED
      BY <2>9, <2>10, <2>11
  <1>12. QED
    BY <1>5, <1>10, <1>11 DEF SInv, Shaped

-----------------------------------------------------------------------------
(* What the operations do with the splayed tree.                           *)

\* A standing tree from its root: the side d, the other side, and no way back
\* to the root.
LEMMA StandingFacts ==
  ASSUME NEW t, NEW sub, NEW X, NEW r, Standing(t, sub, X), t.root = r, r # NULL, NEW d \in Dir
  PROVE  /\ r \in X /\ sub[r] = X /\ X \subseteq Nodes
         /\ \A n \in X, e \in Dir : Kid(t, NoSide, n, e) = t.child[n][e]
         /\ t.child[r][d] \in X \cup {NULL} /\ t.child[r][Opp(d)] \in X \cup {NULL}
         /\ \A m \in Under(sub, t.child[r][d]) : Before(d, m, r)
         /\ \A m \in Under(sub, t.child[r][Opp(d)]) : Before(d, r, m)
         /\ X = {r} \cup Under(sub, t.child[r][d]) \cup Under(sub, t.child[r][Opp(d)])
         /\ \A n \in X : n # r => r \notin sub[n]
         /\ \A n \in X, e \in Dir : t.child[n][e] # r
         /\ \A n \in X : n \in sub[n] /\ \A m \in sub[n] : m \in X /\ sub[m] \subseteq sub[n]
  <1>1. /\ Forest(t, NoSide, sub, X) /\ r \in X /\ X \subseteq Nodes
        /\ sub \in [Nodes -> SUBSET Nodes]
        /\ \A n \in X : n \in sub[r]
    BY DEF Standing, Forest, Under
  <1>2. \A n \in X : n \in sub[n] /\ \A m \in sub[n] : m \in X /\ sub[m] \subseteq sub[n]
    BY <1>1, ForestIs
  <1>3. sub[r] = X
    BY <1>1, <1>2
  <1>4. \A n \in X, e \in Dir : Kid(t, NoSide, n, e) = t.child[n][e]
    <2>1. \A e \in Dir : NoSide[Opp(e)] = SCRATCH
      BY OppIs DEF NoSide
    <2>2. QED
      BY <1>1, <2>1, RowsAre DEF Kid
  <1>5. \A n \in X : n # r => r \notin sub[n]
    <2>1. "L" \in Dir
      BY DEF Dir
    <2>2. QED
      BY <1>1, <1>3, BelowIs
  <1>6. ASSUME NEW n \in X, NEW e \in Dir
        PROVE  t.child[n][e] # r
    <2>1. SUFFICES ASSUME t.child[n][e] = r
                   PROVE  FALSE
      OBVIOUS
    <2>2. Kid(t, NoSide, n, e) = r /\ Under(sub, r) = sub[r] /\ r \in sub[r]
      BY <1>1, <1>2, <1>4, <2>1 DEF Under
    <2>3. r \in sub[n]
      BY <1>1, <2>2, ForestIs
    <2>4. n = r
      BY <1>5, <2>3
    <2>5. Before(e, r, n)
      BY <1>1, <2>2, ForestIs
    <2>6. QED
      BY <1>1, <2>4, <2>5, BeforeIs
  <1>7. Opp(d) \in Dir
    BY OppIs
  <1>8. /\ t.child[r][d] \in X \cup {NULL} /\ t.child[r][Opp(d)] \in X \cup {NULL}
        /\ \A m \in Under(sub, t.child[r][d]) : Before(d, m, r)
        /\ \A m \in Under(sub, t.child[r][Opp(d)]) : Before(d, r, m)
        /\ sub[r] = {r} \cup Under(sub, t.child[r][d]) \cup Under(sub, t.child[r][Opp(d)])
    <2>1. Kid(t, NoSide, r, d) = t.child[r][d] /\ Kid(t, NoSide, r, Opp(d)) = t.child[r][Opp(d)]
      BY <1>1, <1>4, <1>7
    <2>2. QED
      BY <1>1, <2>1, ForestIs
  <1>9. QED
    BY <1>1, <1>2, <1>3, <1>4, <1>5, <1>6, <1>8

\* The tree without its root r; the tree below c is what the head leads to.
Bare(t, c) == [t EXCEPT !.root = c, !.child[t.root] = [d \in Dir |-> STALE]]

\* The two subtrees of a node that is taken out are standing trees.
LEMMA BareIs ==
  ASSUME NEW t, NEW sub, NEW X, NEW r, Standing(t, sub, X), t.root = r, r # NULL,
         NEW c \in N0, NEW w, w = Bare(t, c), NEW Y, Y = X \ {r}
  PROVE  /\ w.root = c
         /\ Forest(w, NoSide, sub, Y)
         /\ \A e \in Dir : /\ t.child[r][e] \in Y \cup {NULL}
                           /\ w.child[SCRATCH][e] = t.child[SCRATCH][e]
  <1>0. "L" \in Dir /\ NoSide \in Sides /\ t \in Trees /\ sub \in [Nodes -> SUBSET Nodes]
    BY DEF Dir, Standing, Forest
  <1>1. /\ r \in X /\ sub[r] = X /\ X \subseteq Nodes
        /\ \A n \in X, e \in Dir : Kid(t, NoSide, n, e) = t.child[n][e]
        /\ \A n \in X : n # r => r \notin sub[n]
        /\ \A n \in X, e \in Dir : t.child[n][e] # r
        /\ \A n \in X : n \in sub[n] /\ \A m \in sub[n] : m \in X /\ sub[m] \subseteq sub[n]
    BY <1>0, StandingFacts
  <1>2. /\ w \in Trees /\ w.root = c
        /\ \A x \in Rows, e \in Dir : x # r => w.child[x][e] = t.child[x][e]
    BY <1>0, <1>1 DEF Bare, Trees, Rows, Links
  <1>3. \A n \in X, e \in Dir : t.child[n][e] \in Y \cup {NULL}
    <2>1. \A n \in X, e \in Dir : Kid(t, NoSide, n, e) \in X \cup {NULL}
      BY ForestIs DEF Standing
    <2>2. QED
      BY <1>1, <2>1
  <1>4. ASSUME NEW n \in Y
        PROVE  NodeIsRight(w, NoSide, sub, Y, n)
    <2>1. n \in X /\ n # r /\ n \in Rows
      BY <1>1, RowsAre
    <2>2. \A e \in Dir : NoSide[Opp(e)] = SCRATCH /\ n # SCRATCH
      BY <1>1, <2>1, OppIs, RowsAre DEF NoSide
    <2>3. \A e \in Dir : Kid(w, NoSide, n, e) = Kid(t, NoSide, n, e)
      BY <1>2, <2>1, <2>2 DEF Kid
    <2>4. \A e \in Dir : Kid(w, NoSide, n, e) \in Y \cup {NULL}
      BY <1>1, <1>3, <2>1, <2>3
    <2>5. NodeIsRight(t, NoSide, sub, X, n)
      BY <2>1 DEF Standing, Forest
    <2>6. \A m \in sub[n] : m \in Y /\ sub[m] \subseteq sub[n]
      BY <1>1, <2>1
    <2>7. QED
      BY <2>3, <2>4, <2>5, <2>6 DEF NodeIsRight
  <1>5. Forest(w, NoSide, sub, Y)
    <2>1. Y \in SUBSET Nodes
      BY <1>1
    <2>2. QED
      BY <1>0, <1>2, <1>4, <2>1 DEF Forest
  <1>6. \A e \in Dir : w.child[SCRATCH][e] = t.child[SCRATCH][e]
    BY <1>1, <1>2, RowsAre
  <1>7. QED
    BY <1>1, <1>2, <1>3, <1>5, <1>6

\* What a removal leaves when something has the key: the others are all but the
\* root.
LEMMA OthersAre ==
  ASSUME SInv, pc = "splayed", call.op = "remove", Comp(tree.root) = "here",
         tree.root \in content
  PROVE  Others = content \ {tree.root} /\ Key[tree.root] = Key[call.arg] /\ call.arg \in Nodes
  <1>1. Key[tree.root] = Key[call.arg]
    BY DEF Comp
  <1>2. \A n \in content : Key[n] = Key[call.arg] <=> n = tree.root
    BY <1>1 DEF SInv, Distinct
  <1>3. Others = content \ {tree.root}
    BY <1>2 DEF Others
  <1>4. QED
    BY <1>1, <1>3 DEF SInv, CallInv

\* The root of a splayed tree is a node of the set.
LEMMA SplayedIs ==
  ASSUME SInv, pc = "splayed"
  PROVE  /\ \E sub : Standing(tree, sub, content)
         /\ side = NoSide /\ tmp = NULL /\ tree.root # NULL /\ tree.root \in content
         /\ content \subseteq Nodes
         /\ call.op \notin {"min", "max"} => call.arg \in Nodes
  <1>1. Quiet /\ CallInv
    BY DEF Quiet, SInv
  <1>2. tree.root # NULL /\ content \subseteq Nodes
    BY <1>1 DEF CallInv
  <1>3. call.op \notin {"min", "max"} => call.arg \in Nodes
    BY <1>1 DEF CallInv
  <1>4. QED
    BY <1>1, <1>2, <1>3, QuietIs DEF Standing

\* A call returns.
LEMMA ReturnIs ==
  ASSUME CallInv, NEW r \in N0, Return(r), content' \in SUBSET Nodes
  PROVE  CallInv'
  <1>1. pc' = "idle" /\ elm' = NULL /\ tmp' = NULL /\ call' = [call EXCEPT !.ret = r]
    BY DEF Return
  <1>2. call'.arg = call.arg /\ call'.ret = r
    BY <1>1 DEF CallInv
  <1>3. r # Pending
    BY KeyAssumption DEF N0
  <1>4. QED
    BY <1>1, <1>2, <1>3 DEF CallInv, N0

\* A call that only looked returns.
LEMMA LookedKeeps ==
  ASSUME SInv, Quiet, NEW r \in N0, Return(r), UNCHANGED <<tree, side, content>>
  PROVE  SInv'
  <1>1. /\ pc' = "idle" /\ elm' = NULL /\ tmp' = NULL /\ call' = [call EXCEPT !.ret = r]
        /\ tree' = tree /\ side' = side /\ content' = content
    BY DEF Return
  <1>2. PICK sub : Standing(tree, sub, content)
    BY QuietIs
  <1>3. Standing(tree, sub, content)'
    BY <1>1, <1>2
  <1>4. side' = NoSide /\ Quiet' /\ pc' # "down"
    BY <1>1, QuietIs DEF Quiet
  <1>5. Shaped'
    BY <1>1, <1>3, <1>4, StandingIs
  <1>6. Distinct' /\ ClosestOnTop'
    BY <1>1 DEF SInv, Distinct, ClosestOnTop
  <1>7. CallInv'
    <2>1. CallInv /\ content' \in SUBSET Nodes
      BY <1>1 DEF SInv, CallInv
    <2>2. QED
      BY <2>1, ReturnIs
  <1>8. QED
    BY <1>5, <1>6, <1>7 DEF SInv

\* A step that takes the root out and returns.
LEMMA RemoveRootKeeps ==
  ASSUME SInv, RemoveRoot
  PROVE  SInv'
  <1>1. /\ pc = "splayed" /\ call.op = "remove" /\ Comp(tree.root) = "here"
        /\ tree.child[tree.root]["L"] = NULL
        /\ tree' = Bare(tree, tree.child[tree.root]["R"])
        /\ content' = Others
        /\ Return(call.arg) /\ side' = side
    BY DEF RemoveRoot, WithoutRoot, Bare
  <1>2. PICK sub : Standing(tree, sub, content)
    BY <1>1, SplayedIs
  <1>3. /\ side = NoSide /\ tree.root # NULL /\ tree.root \in content
        /\ Others = content \ {tree.root} /\ call.arg \in Nodes
    BY <1>1, SplayedIs, OthersAre
  <1>4. PICK r : r = tree.root
    OBVIOUS
  <1>5. PICK c : c = tree.child[r]["R"]
    OBVIOUS
  <1>6. PICK t : t = tree
    OBVIOUS
  <1>7. PICK w : w = tree'
    OBVIOUS
  <1>8. PICK X : X = content
    OBVIOUS
  <1>9. PICK Y : Y = Others
    OBVIOUS
  <1>10. "R" \in Dir /\ Opp("R") = "L"
    BY DEF Dir, Opp
  <1>11. /\ Standing(t, sub, X) /\ t.root = r /\ r # NULL /\ w = Bare(t, c) /\ Y = X \ {r}
         /\ t.child[r]["R"] = c /\ t.child[r]["L"] = NULL
    BY <1>1, <1>2, <1>3, <1>4, <1>5, <1>6, <1>7, <1>8, <1>9
  <1>12. /\ c \in X \cup {NULL} /\ X \subseteq Nodes
         /\ X = {r} \cup Under(sub, c) \cup Under(sub, NULL)
    BY <1>10, <1>11, StandingFacts
  <1>13. c \in N0
    BY <1>12 DEF N0
  <1>14. w.root = c /\ Forest(w, NoSide, sub, Y) /\ c \in Y \cup {NULL}
    BY <1>10, <1>11, <1>13, BareIs
  <1>15. \A n \in Y : n \in Under(sub, c)
    BY <1>11, <1>12 DEF Under
  <1>16. Standing(w, sub, Y)
    BY <1>14, <1>15 DEF Standing
  <1>17. Standing(tree, sub, content)'
    BY <1>1, <1>7, <1>9, <1>16
  <1>18. (pc = "idle" /\ tmp = NULL /\ side = NoSide)' /\ content' = Y
    BY <1>1, <1>3, <1>9 DEF Return
  <1>19. Shaped'
    BY <1>17, <1>18, StandingIs DEF Quiet
  <1>20. Distinct' /\ ClosestOnTop'
    BY <1>11, <1>8, <1>18 DEF SInv, Distinct, ClosestOnTop
  <1>21. CallInv'
    <2>1. CallInv
      BY DEF SInv
    <2>2. content' \in SUBSET Nodes /\ call.arg \in N0
      BY <1>1, <1>3, <2>1 DEF CallInv, N0
    <2>3. QED
      BY <1>1, <2>1, <2>2, ReturnIs
  <1>22. QED
    BY <1>19, <1>20, <1>21 DEF SInv

\* The tree with a as the new root, between the old one and its subtree on
\* side d.
WithRoot(t, a, d) ==
  LET t1 == SetChild(t, a, d, t.child[t.root][d])
      t2 == SetChild(t1, a, Opp(d), t.root)
  IN  [SetChild(t2, t.root, d, NULL) EXCEPT !.root = a]

\* Where the new root has its links.
LEMMA WithRootIs ==
  ASSUME NEW t \in Trees, NEW a \in Nodes, NEW r \in Nodes, t.root = r, a # r, NEW d \in Dir,
         NEW k \in N0, t.child[r][d] = k,
         NEW w, w = WithRoot(t, a, d)
  PROVE  /\ w \in Trees /\ w.root = a
         /\ \A x \in Rows, e \in Dir :
              w.child[x][e] = IF x = a THEN IF e = d THEN k ELSE r
                              ELSE IF x = r /\ e = d THEN NULL ELSE t.child[x][e]
  <1> DEFINE o == Opp(d)
             t1 == SetChild(t, a, d, k)
             t2 == SetChild(t1, a, o, r)
             t3 == SetChild(t2, r, d, NULL)
  <1>1. o \in Dir /\ o # d /\ \A e \in Dir : e = d \/ e = o
    BY OppIs
  <1>2. a \in Rows /\ r \in Rows /\ k \in Links /\ r \in Links /\ NULL \in Links /\ a \in N0
    BY RowsAre
  <1>3. w = [t3 EXCEPT !.root = a]
    BY DEF WithRoot
  <1> HIDE DEF o
  <1>4. /\ t1 \in Trees
        /\ \A x \in Rows, e \in Dir :
             t1.child[x][e] = IF x = a /\ e = d THEN k ELSE t.child[x][e]
    BY <1>2, SetChildIs
  <1> HIDE DEF t1
  <1>5. /\ t2 \in Trees
        /\ \A x \in Rows, e \in Dir :
             t2.child[x][e] = IF x = a /\ e = o THEN r ELSE t1.child[x][e]
    BY <1>1, <1>2, <1>4, SetChildIs
  <1> HIDE DEF t2
  <1>6. /\ t3 \in Trees
        /\ \A x \in Rows, e \in Dir :
             t3.child[x][e] = IF x = r /\ e = d THEN NULL ELSE t2.child[x][e]
    BY <1>2, <1>5, SetChildIs
  <1> HIDE DEF t3
  <1>7. w \in Trees /\ w.root = a /\ w.child = t3.child
    BY <1>2, <1>3, <1>6, SetRootIs
  <1>8. ASSUME NEW x \in Rows, NEW e \in Dir
        PROVE  w.child[x][e] = IF x = a THEN IF e = d THEN k ELSE r
                               ELSE IF x = r /\ e = d THEN NULL ELSE t.child[x][e]
    BY <1>1, <1>4, <1>5, <1>6, <1>7
  <1>9. QED
    BY <1>7, <1>8

\* A new root that is between the old one and its subtree makes a search tree.
LEMMA InsertedIs ==
  ASSUME NEW t, NEW sub, NEW X, NEW r, Standing(t, sub, X), t.root = r, r # NULL,
         NEW a \in Nodes, a \notin X, NEW d \in Dir, Before(d, a, r),
         \A n \in X : Before(d, n, r) => Before(d, n, a),
         NEW w, w = WithRoot(t, a, d), NEW Y, Y = X \cup {a}
  PROVE  \E new : Standing(w, new, Y)
  <1> DEFINE o == Opp(d)
             k == t.child[r][d]
             far == t.child[r][o]
             K == {r} \cup Under(sub, far)
             new == [n \in Nodes |-> IF n = a THEN Y ELSE IF n = r THEN K ELSE sub[n]]
  <1>0. o \in Dir /\ o # d /\ Opp(o) = d /\ \A e \in Dir : e = d \/ e = o
    BY OppIs
  <1>1. t \in Trees /\ NoSide \in Sides /\ sub \in [Nodes -> SUBSET Nodes]
    BY DEF Standing, Forest
  <1>2. /\ r \in X /\ sub[r] = X /\ X \subseteq Nodes
        /\ k \in X \cup {NULL} /\ far \in X \cup {NULL}
        /\ \A m \in Under(sub, k) : Before(d, m, r)
        /\ \A m \in Under(sub, far) : Before(d, r, m)
        /\ X = {r} \cup Under(sub, k) \cup Under(sub, far)
    BY StandingFacts
  <1>3. /\ \A n \in X, e \in Dir : Kid(t, NoSide, n, e) = t.child[n][e]
        /\ \A n \in X : n # r => r \notin sub[n]
        /\ \A n \in X, e \in Dir : t.child[n][e] # r
        /\ \A n \in X : n \in sub[n] /\ \A m \in sub[n] : m \in X /\ sub[m] \subseteq sub[n]
    BY StandingFacts
  <1>4. k \in N0 /\ a # r /\ r \in Nodes /\ NULL \notin Nodes
    BY <1>2, RowsAre DEF N0
  <1> HIDE DEF o
  <1>5. PICK q : q = k
    OBVIOUS
  <1>6. PICK f : f = far
    OBVIOUS
  <1>7. /\ w \in Trees /\ w.root = a
        /\ \A x \in Rows, e \in Dir :
             w.child[x][e] = IF x = a THEN IF e = d THEN q ELSE r
                             ELSE IF x = r /\ e = d THEN NULL ELSE t.child[x][e]
    <2>1. t.child[r][d] = q /\ q \in N0
      BY <1>4, <1>5
    <2>2. QED
      BY <1>1, <1>4, <2>1, WithRootIs
  <1>8. /\ q \in X \cup {NULL} /\ f \in X \cup {NULL}
        /\ \A m \in Under(sub, q) : Before(d, m, r)
        /\ \A m \in Under(sub, f) : Before(d, r, m)
        /\ X = {r} \cup Under(sub, q) \cup Under(sub, f)
        /\ K = {r} \cup Under(sub, f)
    BY <1>2, <1>5, <1>6
  <1> HIDE DEF k, far, K
  <1>9. K \subseteq X /\ Under(sub, q) \subseteq X
    BY <1>2, <1>8
  <1>10. /\ new \in [Nodes -> SUBSET Nodes] /\ new[a] = Y /\ new[r] = K
         /\ \A n \in X : n # r => new[n] = sub[n]
    BY <1>1, <1>2, <1>4, <1>9
  <1> HIDE DEF new
  <1>11. /\ Kid(w, NoSide, a, d) = q /\ Kid(w, NoSide, a, o) = r
         /\ Kid(w, NoSide, r, d) = NULL /\ Kid(w, NoSide, r, o) = f
         /\ \A n \in X, e \in Dir : n # r => Kid(w, NoSide, n, e) = Kid(t, NoSide, n, e)
    <2>1. \A e \in Dir : NoSide[Opp(e)] = SCRATCH
      BY OppIs DEF NoSide
    <2>2. \A n \in Nodes, e \in Dir : Kid(w, NoSide, n, e) = w.child[n][e]
      BY <2>1, RowsAre DEF Kid
    <2>3. f = t.child[r][o]
      BY <1>6 DEF far
    <2>4. \A n \in X : n \in Nodes /\ n \in Rows /\ n # a
      BY <1>2, RowsAre
    <2>5. a \in Rows
      BY RowsAre
    <2>6. QED
      BY <1>0, <1>2, <1>3, <1>7, <2>2, <2>3, <2>4, <2>5
  <1>12. ASSUME NEW c, c \in X \cup {NULL}, c # r
         PROVE  Under(new, c) = Under(sub, c)
    BY <1>10, <1>12 DEF Under
  <1>13. q # r /\ f # r
    <2>1. t.child[r][d] # r /\ t.child[r][o] # r
      BY <1>0, <1>2, <1>3
    <2>2. QED
      BY <2>1, <1>5, <1>6 DEF k, far
  <1>14. Under(new, q) = Under(sub, q) /\ Under(new, f) = Under(sub, f) /\ Under(new, NULL) = {}
    BY <1>8, <1>12, <1>13 DEF Under
  <1>15. /\ r \notin Under(sub, f)
         /\ \A m \in Under(sub, f) : sub[m] \subseteq Under(sub, f) /\ m \in X
    <2>1. CASE f = NULL
      BY <2>1 DEF Under
    <2>2. CASE f # NULL
      <3>1. f \in X /\ Under(sub, f) = sub[f]
        BY <1>8, <2>2 DEF Under
      <3>2. r \notin sub[f]
        BY <1>3, <1>13, <3>1
      <3>3. QED
        BY <1>3, <3>1, <3>2
    <2>3. QED
      BY <2>1, <2>2
  <1>16. \A m \in K : m \in X /\ new[m] \subseteq K
    <2>1. SUFFICES ASSUME NEW m \in K
                   PROVE  m \in X /\ new[m] \subseteq K
      OBVIOUS
    <2>2. CASE m = r
      BY <1>2, <1>10, <2>2
    <2>3. CASE m # r
      <3>1. m \in Under(sub, f) /\ m \in X
        BY <1>8, <1>9, <2>3
      <3>2. QED
        BY <1>8, <1>10, <1>15, <2>3, <3>1
    <2>4. QED
      BY <2>2, <2>3
  <1>17. \A m \in X : new[m] \subseteq X
    BY <1>3, <1>9, <1>10
  <1>18. NodeIsRight(w, NoSide, new, Y, r)
    <2>1. r \in Y /\ Y \in SUBSET Nodes
      BY <1>2
    <2>2. /\ Kid(w, NoSide, r, d) \in Y \cup {NULL} /\ Kid(w, NoSide, r, Opp(d)) \in Y \cup {NULL}
          /\ \A m \in Under(new, Kid(w, NoSide, r, d)) : Before(d, m, r)
          /\ \A m \in Under(new, Kid(w, NoSide, r, Opp(d))) : Before(d, r, m)
          /\ new[r] = {r} \cup Under(new, Kid(w, NoSide, r, d))
                          \cup Under(new, Kid(w, NoSide, r, Opp(d)))
      BY <1>8, <1>10, <1>11, <1>14 DEF o
    <2>3. \A m \in new[r] : m \in Y /\ new[m] \subseteq new[r]
      BY <1>10, <1>16
    <2>4. QED
      BY <1>1, <1>10, <2>1, <2>2, <2>3, RightIs
  <1>19. NodeIsRight(w, NoSide, new, Y, a)
    <2>1. a \in Y /\ Y \in SUBSET Nodes
      BY <1>2
    <2>2. \A m \in Under(new, q) : Before(d, m, a)
      BY <1>8, <1>9, <1>14
    <2>3. \A m \in Under(new, r) : Before(d, a, m)
      <3>1. Under(new, r) = K
        BY <1>4, <1>10 DEF Under
      <3>2. \A m \in K : m = r \/ Before(d, r, m)
        BY <1>8
      <3>3. QED
        BY <1>2, <1>4, <1>9, <3>1, <3>2, BeforeIs
    <2>4. Kid(w, NoSide, a, d) \in Y \cup {NULL} /\ Kid(w, NoSide, a, Opp(d)) \in Y \cup {NULL}
      BY <1>2, <1>8, <1>11 DEF o
    <2>5. new[a] = {a} \cup Under(new, Kid(w, NoSide, a, d))
                       \cup Under(new, Kid(w, NoSide, a, Opp(d)))
      <3>1. Under(new, r) = K
        BY <1>4, <1>10 DEF Under
      <3>2. new[a] = {a} \cup Under(new, q) \cup Under(new, r)
        BY <1>8, <1>10, <1>14, <3>1
      <3>3. QED
        BY <1>11, <3>2 DEF o
    <2>6. \A m \in new[a] : m \in Y /\ new[m] \subseteq new[a]
      BY <1>10, <1>17
    <2>7. /\ \A m \in Under(new, Kid(w, NoSide, a, d)) : Before(d, m, a)
          /\ \A m \in Under(new, Kid(w, NoSide, a, Opp(d))) : Before(d, a, m)
      BY <1>11, <2>2, <2>3 DEF o
    <2>8. QED
      BY <1>1, <1>10, <2>1, <2>4, <2>5, <2>6, <2>7, RightIs
  <1>20. ASSUME NEW n \in X, n # r
         PROVE  NodeIsRight(w, NoSide, new, Y, n)
    <2>1. NodeIsRight(t, NoSide, sub, X, n)
      BY DEF Standing, Forest
    <2>2. new[n] = sub[n] /\ \A m \in sub[n] : m \in X /\ new[m] = sub[m]
      BY <1>3, <1>10, <1>20
    <2>3. ASSUME NEW e \in Dir
          PROVE  /\ Kid(w, NoSide, n, e) = Kid(t, NoSide, n, e)
                 /\ Kid(t, NoSide, n, e) \in X \cup {NULL}
                 /\ Under(new, Kid(t, NoSide, n, e)) = Under(sub, Kid(t, NoSide, n, e))
      <3>1. Kid(w, NoSide, n, e) = Kid(t, NoSide, n, e) /\ Kid(t, NoSide, n, e) # r
        BY <1>3, <1>11, <1>20
      <3>2. Kid(t, NoSide, n, e) \in X \cup {NULL}
        BY <2>1 DEF NodeIsRight
      <3>3. QED
        BY <1>12, <3>1, <3>2
    <2>4. \A m \in sub[n] : m \in Y /\ new[m] \subseteq sub[n]
      BY <1>3, <2>2
    <2>5. QED
      BY <2>1, <2>2, <2>3, <2>4 DEF NodeIsRight
  <1>21. Forest(w, NoSide, new, Y)
    <2>1. Y \in SUBSET Nodes
      BY <1>2
    <2>2. \A n \in Y : NodeIsRight(w, NoSide, new, Y, n)
      BY <1>18, <1>19, <1>20
    <2>3. QED
      BY <1>1, <1>7, <1>10, <2>1, <2>2 DEF Forest
  <1>22. Standing(w, new, Y)
    BY <1>4, <1>7, <1>10, <1>21, RowsAre DEF Standing, Under
  <1>23. QED
    BY <1>22

\* Where no node of the set has the key, the nodes on side d of the root are on
\* side d of the key.
LEMMA BetweenIs ==
  ASSUME SInv, pc = "splayed", NEW a \in Nodes, call.arg = a, call.op \notin {"min", "max"},
         NEW r \in Nodes, r = tree.root, NEW d, d = Comp(r), d # "here"
  PROVE  /\ d \in Dir /\ Before(d, a, r)
         /\ \A n \in content : Key[n] # Key[a]
         /\ \A n \in content : Before(d, n, r) => Before(d, n, a)
  <1>1. content \subseteq Nodes
    BY SplayedIs
  <1>2. /\ Key[r] # Key[a] /\ d = IF Key[a] < Key[r] THEN "L" ELSE "R"
        /\ Key[r] \in Int /\ Key[a] \in Int
    BY KeyAssumption DEF Comp
  <1>3. ASSUME NEW n \in content
        PROVE  /\ Key[r] <= Key[a] => ~(Key[r] < Key[n] /\ Key[n] <= Key[a])
               /\ Key[r] >= Key[a] => ~(Key[a] <= Key[n] /\ Key[n] < Key[r])
               /\ Key[n] \in Int
    BY <1>1, KeyAssumption DEF SInv, ClosestOnTop
  <1>4. QED
    BY <1>2, <1>3 DEF Before, Dir

\* The new node takes the root's place.
LEMMA InsertRootKeeps ==
  ASSUME SInv, InsertRoot
  PROVE  SInv'
  <1>1. /\ pc = "splayed" /\ call.op = "insert" /\ Comp(tree.root) # "here"
        /\ tree' = WithRoot(tree, call.arg, Comp(tree.root))
        /\ content' = content \cup {call.arg}
        /\ Return(NULL) /\ side' = side
    BY DEF InsertRoot, WithRoot
  <1>2. PICK sub : Standing(tree, sub, content)
    BY <1>1, SplayedIs
  <1>3. /\ side = NoSide /\ tree.root # NULL /\ tree.root \in content /\ content \subseteq Nodes
        /\ call.arg \in Nodes /\ call.arg \notin content
    <2>1. call.arg \notin content
      BY <1>1 DEF SInv, CallInv
    <2>2. QED
      BY <1>1, <2>1, SplayedIs
  <1>4. PICK r : r = tree.root
    OBVIOUS
  <1>5. PICK a : a = call.arg
    OBVIOUS
  <1>6. PICK d : d = Comp(r)
    OBVIOUS
  <1>7. PICK t : t = tree
    OBVIOUS
  <1>8. PICK w : w = tree'
    OBVIOUS
  <1>9. PICK X : X = content
    OBVIOUS
  <1>10. PICK Y : Y = content'
    OBVIOUS
  <1>11. /\ d \in Dir /\ Before(d, a, r)
         /\ \A n \in content : Key[n] # Key[a]
         /\ \A n \in X : Before(d, n, r) => Before(d, n, a)
    <2>1. a \in Nodes /\ r \in Nodes /\ d # "here" /\ call.op \notin {"min", "max"}
      BY <1>1, <1>3, <1>4, <1>5, <1>6
    <2>2. QED
      BY <1>1, <1>4, <1>5, <1>6, <1>9, <2>1, BetweenIs
  <1>12. /\ Standing(t, sub, X) /\ t.root = r /\ r # NULL /\ a \in Nodes /\ a \notin X
         /\ w = WithRoot(t, a, d) /\ Y = X \cup {a}
    BY <1>1, <1>2, <1>3, <1>4, <1>5, <1>6, <1>7, <1>8, <1>9, <1>10
  <1>13. PICK new : Standing(w, new, Y)
    BY <1>11, <1>12, InsertedIs
  <1>14. Standing(tree, new, content)'
    BY <1>8, <1>10, <1>13
  <1>15. (pc = "idle" /\ tmp = NULL /\ side = NoSide)'
    BY <1>1, <1>3 DEF Return
  <1>16. Shaped'
    BY <1>14, <1>15, StandingIs DEF Quiet
  <1>17. Distinct' /\ ClosestOnTop'
    <2>1. Distinct'
      BY <1>1, <1>5, <1>11 DEF SInv, Distinct
    <2>2. ClosestOnTop'
      BY <1>15 DEF ClosestOnTop
    <2>3. QED
      BY <2>1, <2>2
  <1>18. CallInv'
    <2>1. CallInv
      BY DEF SInv
    <2>2. content' \in SUBSET Nodes /\ NULL \in N0
      BY <1>1, <1>3 DEF N0
    <2>3. QED
      BY <1>1, <2>1, <2>2, ReturnIs
  <1>19. QED
    BY <1>16, <1>17, <1>18 DEF SInv

\* The first node.
LEMMA FirstIs ==
  ASSUME NEW t \in Trees, NEW a \in Nodes,
         NEW w, w = [t EXCEPT !.root = a, !.child[a] = [d \in Dir |-> NULL]]
  PROVE  Standing(w, [n \in Nodes |-> {n}], {a})
  <1> DEFINE new == [n \in Nodes |-> {n}]
  <1>1. NoSide \in Sides /\ new \in [Nodes -> SUBSET Nodes] /\ new[a] = {a} /\ a # NULL
    BY RowsAre DEF NoSide, Sides
  <1>2. w \in Trees /\ w.root = a /\ \A e \in Dir : w.child[a][e] = NULL
    BY DEF Trees, Rows, Links, N0
  <1> HIDE DEF new
  <1>3. \A e \in Dir : Kid(w, NoSide, a, e) = NULL
    BY <1>2 DEF Kid
  <1>4. NodeIsRight(w, NoSide, new, {a}, a)
    BY <1>1, <1>3 DEF NodeIsRight, Under
  <1>5. Forest(w, NoSide, new, {a})
    BY <1>1, <1>2, <1>4 DEF Forest
  <1>6. Standing(w, new, {a})
    BY <1>1, <1>2, <1>5 DEF Standing, Under
  <1>7. QED
    BY <1>6 DEF new

\* An empty tree has no nodes.
LEMMA EmptyIs ==
  ASSUME SInv, pc = "empty"
  PROVE  content = {} /\ tree \in Trees
  <1>1. Quiet /\ tree.root = NULL
    BY DEF Quiet, SInv, CallInv
  <1>2. PICK sub : Standing(tree, sub, content)
    BY <1>1, QuietIs
  <1>3. QED
    BY <1>1, <1>2 DEF Standing, Under, Forest

\* A call on an empty tree.
LEMMA ReturnEmptyKeeps ==
  ASSUME SInv, ReturnEmpty
  PROVE  SInv'
  <1>1. pc = "empty" /\ Return(NULL) /\ side' = side /\ Quiet /\ NULL \in N0
    BY DEF ReturnEmpty, Quiet, N0
  <1>2. CASE call.op # "insert"
    <2>1. UNCHANGED <<tree, side, content>>
      BY <1>2 DEF ReturnEmpty
    <2>2. QED
      BY <1>1, <2>1, LookedKeeps
  <1>3. CASE call.op = "insert"
    <2>1. /\ tree' = [tree EXCEPT !.root = call.arg, !.child[call.arg] = [d \in Dir |-> NULL]]
          /\ content' = {call.arg}
      BY <1>3 DEF ReturnEmpty
    <2>2. call.arg \in Nodes /\ tree \in Trees
      BY <1>1, <1>3, EmptyIs DEF SInv, CallInv
    <2>3. PICK t : t = tree
      OBVIOUS
    <2>4. PICK a : a = call.arg
      OBVIOUS
    <2>5. PICK w : w = tree'
      OBVIOUS
    <2>6. /\ t \in Trees /\ a \in Nodes
          /\ w = [t EXCEPT !.root = a, !.child[a] = [d \in Dir |-> NULL]]
      BY <2>1, <2>2, <2>3, <2>4, <2>5
    <2>7. Standing(w, [n \in Nodes |-> {n}], {a})
      BY <2>6, FirstIs
    <2>8. PICK new : new = [n \in Nodes |-> {n}]
      OBVIOUS
    <2>9. Standing(tree, new, content)'
      BY <2>1, <2>4, <2>5, <2>7, <2>8
    <2>10. (pc = "idle" /\ tmp = NULL /\ side = NoSide)'
      BY <1>1, QuietIs DEF Return
    <2>11. Shaped'
      BY <2>9, <2>10, StandingIs DEF Quiet
    <2>12. Distinct' /\ ClosestOnTop'
      BY <2>1, <2>10 DEF Distinct, ClosestOnTop
    <2>13. CallInv'
      <3>1. CallInv
        BY DEF SInv
      <3>2. content' \in SUBSET Nodes
        BY <2>1, <2>2
      <3>3. QED
        BY <1>1, <3>1, <3>2, ReturnIs
    <2>14. QED
      BY <2>11, <2>12, <2>13 DEF SInv
  <1>4. QED
    BY <1>2, <1>3

\* The calls that only look.
LEMMA LooksKeep ==
  ASSUME SInv, FindReturn \/ MinMaxReturn \/ RemoveAbsent
  PROVE  SInv'
  <1>1. pc = "splayed" /\ UNCHANGED <<tree, side, content>>
        /\ (Return(tree.root) \/ Return(NULL))
    BY DEF FindReturn, MinMaxReturn, RemoveAbsent
  <1>2. Quiet /\ NULL \in N0 /\ tree.root \in N0
    <2>1. tree.root \in content /\ content \subseteq Nodes
      BY <1>1, SplayedIs
    <2>2. QED
      BY <1>1, <2>1 DEF Quiet, N0
  <1>3. QED
    BY <1>1, <1>2, LookedKeeps

\* The left subtree of a root that is taken out, with the right one apart.
LEMMA SplitIs ==
  ASSUME NEW t, NEW sub, NEW X, NEW r, Standing(t, sub, X), t.root = r, r # NULL,
         NEW c, c = t.child[r]["L"], c # NULL, NEW k, k = t.child[r]["R"],
         NEW w, w = Bare(t, c), NEW Y, Y = X \ {r}
  PROVE  /\ Forest(w, NoSide, sub, Y) /\ Parted(w, NoSide, sub, Y, Under(sub, k))
         /\ k \in Y \cup {NULL}
         /\ \A n \in Y : n \in Under(sub, k) \/ Before("L", n, r)
         /\ sub \in [Nodes -> SUBSET Nodes]
  <1> DEFINE T == Under(sub, k)
  <1>1. "L" \in Dir /\ "R" \in Dir /\ Opp("L") = "R"
    BY DEF Dir, Opp
  <1>2. /\ r \in X /\ X \subseteq Nodes
        /\ c \in X \cup {NULL} /\ k \in X \cup {NULL}
        /\ \A m \in Under(sub, c) : Before("L", m, r)
        /\ \A m \in Under(sub, k) : Before("L", r, m)
        /\ X = {r} \cup Under(sub, c) \cup Under(sub, k)
        /\ \A n \in X : n \in sub[n] /\ \A m \in sub[n] : m \in X /\ sub[m] \subseteq sub[n]
    BY SMTT(30), <1>1, StandingFacts
  <1>3. c \in N0
    BY <1>2 DEF N0
  <1>4. /\ w.root = c /\ Forest(w, NoSide, sub, Y)
        /\ c \in Y \cup {NULL} /\ k \in Y \cup {NULL}
    BY <1>1, <1>3, BareIs
  <1>5. \A d \in Dir : Kid(w, NoSide, SCRATCH, Opp(d)) = NULL /\ NoSide[d] = SCRATCH
    BY OppIs DEF Kid, NoSide
  <1>6. \A d \in Dir : Piece(w, NoSide, sub, d) = {}
    BY <1>5 DEF Piece, Under
  <1>7. Under(sub, c) = sub[c] /\ c \in X
    BY <1>2 DEF Under
  <1>8. \A n \in T : n \in X /\ sub[n] \subseteq T
    <2>1. CASE k = NULL
      BY <2>1 DEF Under
    <2>2. CASE k # NULL
      BY <1>2, <2>2 DEF Under
    <2>3. QED
      BY <2>1, <2>2
  <1>9. \A n \in sub[c], m \in T : Before("L", n, m)
    <2>1. sub[c] \subseteq Nodes /\ T \subseteq Nodes /\ r \in Nodes
      BY <1>2, <1>7, <1>8
    <2>2. \A n \in sub[c] : Before("L", n, r)
      BY <1>2, <1>7
    <2>3. \A m \in T : Before("L", r, m)
      BY <1>2
    <2> HIDE DEF T
    <2>4. QED
      BY <1>1, <2>1, <2>2, <2>3, BeforeIs
  <1>10. \A n \in T : n \in Y /\ n \notin sub[c]
    <2>1. \A n \in T : n # r
      BY <1>1, <1>2, BeforeIs
    <2>2. \A n \in T : n \notin sub[c]
      BY <1>1, <1>2, <1>8, <1>9, BeforeIs
    <2>3. QED
      BY <1>8, <2>1, <2>2
  <1>11. \A n \in Y : n \in sub[c] \/ n \in T
    BY <1>2, <1>7
  <1> HIDE DEF T
  <1>12. \A n \in Y, m \in T : n \in T \/ Before("L", n, m)
    BY <1>9, <1>11
  <1>13. c \in Y
    BY <1>4, <1>7, <1>2, RowsAre
  <1>14. Parted(w, NoSide, sub, Y, T)
    BY <1>4, <1>5, <1>6, <1>8, <1>10, <1>11, <1>12, <1>13 DEF Parted
  <1>15. \A n \in Y : n \in T \/ Before("L", n, r)
    BY <1>2, <1>7, <1>11
  <1>16. sub \in [Nodes -> SUBSET Nodes]
    BY <1>4 DEF Forest
  <1>17. QED
    BY <1>4, <1>14, <1>15, <1>16 DEF T

\* The root is taken out and its left subtree is to be splayed.
LEMMA RemoveSplitKeeps ==
  ASSUME SInv, RemoveSplit
  PROVE  SInv'
  <1>1. /\ pc = "splayed" /\ call.op = "remove" /\ Comp(tree.root) = "here"
        /\ tree.child[tree.root]["L"] # NULL
        /\ tmp' = tree.child[tree.root]["R"]
        /\ tree' = Bare(tree, tree.child[tree.root]["L"])
        /\ pc' = "resplay"
        /\ side' = side /\ elm' = elm /\ call' = call /\ content' = content
    BY DEF RemoveSplit, WithoutRoot, Bare
  <1>2. PICK sub : Standing(tree, sub, content)
    BY <1>1, SplayedIs
  <1>3. /\ side = NoSide /\ tree.root # NULL /\ tree.root \in content
        /\ Others = content \ {tree.root} /\ Key[tree.root] = Key[call.arg]
    BY <1>1, SplayedIs, OthersAre
  <1>4. PICK r : r = tree.root
    OBVIOUS
  <1>5. PICK t : t = tree
    OBVIOUS
  <1>6. PICK w : w = tree'
    OBVIOUS
  <1>7. PICK X : X = content
    OBVIOUS
  <1>8. PICK Y : Y = Others
    OBVIOUS
  <1>9. PICK c : c = t.child[r]["L"]
    OBVIOUS
  <1>10. PICK k : k = t.child[r]["R"]
    OBVIOUS
  <1>11. /\ Standing(t, sub, X) /\ t.root = r /\ r # NULL /\ c # NULL /\ tmp' = k
         /\ w = Bare(t, c) /\ Y = X \ {r}
    BY <1>1, <1>2, <1>3, <1>4, <1>5, <1>6, <1>7, <1>8, <1>9, <1>10
  <1>12. /\ Forest(w, NoSide, sub, Y) /\ Parted(w, NoSide, sub, Y, Under(sub, k))
         /\ k \in Y \cup {NULL}
         /\ \A n \in Y : n \in Under(sub, k) \/ Before("L", n, r)
         /\ sub \in [Nodes -> SUBSET Nodes]
    BY <1>9, <1>10, <1>11, SplitIs
  <1>13. Expected' = Y /\ Splaying'
    BY <1>1, <1>8 DEF Expected, Others, Splaying
  <1>14. Apart(sub)' = Under(sub, k)
    BY <1>11 DEF Apart
  <1>15. Forest(tree, side, sub, Expected)'
    BY <1>1, <1>3, <1>6, <1>12, <1>13
  <1>16. Parted(tree, side, sub, Expected, Apart(sub))'
    <2>1. PICK s : s = NoSide
      OBVIOUS
    <2>2. PICK A : A = Under(sub, k)
      OBVIOUS
    <2>3. Parted(w, s, sub, Y, A)
      BY <1>12, <2>1, <2>2
    <2>4. (tree = w /\ side = s /\ Expected = Y /\ Apart(sub) = A)' /\ call' = call
      BY <1>1, <1>3, <1>6, <1>13, <1>14, <2>1, <2>2
    <2>5. QED
      BY <2>3, <2>4 DEF Parted, Comp
  <1>17. (\A n \in Expected : n \in Apart(sub) \/ Key[n] < Key[call.arg])'
    <2>1. \A n \in Y : n \in Under(sub, k) \/ Key[n] < Key[r]
      BY <1>12 DEF Before
    <2>2. QED
      BY <1>1, <1>3, <1>4, <1>13, <1>14, <2>1
  <1>18. Shaped'
    BY <1>1, <1>11, <1>12, <1>13, <1>15, <1>16, <1>17 DEF ShapeIs, Shaped
  <1>19. Distinct' /\ ClosestOnTop'
    BY <1>1 DEF SInv, Distinct, ClosestOnTop
  <1>20. CallInv'
    <2>1. \E n \in content : Key[n] = Key[call.arg]
      BY <1>3
    <2>2. QED
      BY <1>1, <2>1 DEF SInv, CallInv
  <1>21. QED
    BY <1>18, <1>19, <1>20 DEF SInv

\* What is apart is hung to the right of a root that has nothing there.
LEMMA JoinedIs ==
  ASSUME NEW t, NEW sub, NEW X, NEW r, Forest(t, NoSide, sub, X), t.root = r, r \in X,
         NEW k, k \in X \cup {NULL}, NEW T, T = Under(sub, k),
         \A n \in X : n \in sub[r] \/ n \in T,
         \A n \in sub[r] : (n = r \/ Before("L", n, r)) /\ \A m \in T : Before("L", n, m),
         NEW w, w = SetChild(t, r, "R", k)
  PROVE  \E new : Standing(w, new, X)
  <1> DEFINE c == t.child[r]["L"]
             new == [sub EXCEPT ![r] = sub[r] \cup T]
  <1>1. /\ "L" \in Dir /\ "R" \in Dir /\ Opp("L") = "R" /\ Opp("R") = "L"
        /\ \A e \in Dir : e = "L" \/ e = "R"
    BY DEF Dir, Opp
  <1>2. /\ t \in Trees /\ NoSide \in Sides /\ sub \in [Nodes -> SUBSET Nodes] /\ X \in SUBSET Nodes
        /\ r \in Nodes /\ r \in Rows /\ k \in Links /\ r # NULL /\ r # SCRATCH
    BY RowsAre DEF Forest
  <1>3. \A n \in X : n \in sub[n] /\ \A m \in sub[n] : m \in X /\ sub[m] \subseteq sub[n]
    BY <1>1, ForestIs
  <1>4. /\ w \in Trees /\ w.root = r
        /\ \A x \in Rows, e \in Dir :
             w.child[x][e] = IF x = r /\ e = "R" THEN k ELSE t.child[x][e]
    <2>1. "R" \in Dir
      BY <1>1
    <2>2. w \in Trees /\ w.root = t.root
      BY <1>2, <2>1, SetChildIs
    <2>3. QED
      BY <1>2, <2>1, <2>2, SetChildIs
  <1>5. \A n \in Nodes, e \in Dir : /\ Kid(t, NoSide, n, e) = t.child[n][e]
                                    /\ Kid(w, NoSide, n, e) = w.child[n][e]
    <2>1. \A e \in Dir : NoSide[Opp(e)] = SCRATCH
      BY OppIs DEF NoSide
    <2>2. QED
      BY <2>1, RowsAre DEF Kid
  <1>6. T \subseteq X /\ \A n \in T : sub[n] \subseteq T
    <2>1. CASE k = NULL
      BY <2>1 DEF Under
    <2>2. CASE k # NULL
      BY <1>3, <2>2 DEF Under
    <2>3. QED
      BY <2>1, <2>2
  <1>7. r \in sub[r] /\ sub[r] \subseteq X
    BY <1>3
  <1>8. r \notin T /\ k # r
    <2>1. \A m \in T : Before("L", r, m)
      BY <1>7
    <2>2. r \notin T
      BY <1>1, <1>2, <2>1, BeforeIs
    <2>3. k = r => r \in T
      BY <1>2, <1>7 DEF Under
    <2>4. QED
      BY <2>2, <2>3
  <1>9. \A n \in X : n # r => r \notin sub[n]
    <2>1. \A n \in T : r \notin sub[n]
      BY <1>6, <1>8
    <2>2. \A n \in sub[r] : n # r => r \notin sub[n]
      BY BelowIs
    <2>3. QED
      BY <2>1, <2>2
  <1>10. /\ c \in X \cup {NULL} /\ c # r
         /\ \A m \in Under(sub, c) : Before("L", m, r)
         /\ sub[r] = {r} \cup Under(sub, c)
    <2>1. /\ Kid(t, NoSide, r, "L") = c
          /\ c \in X \cup {NULL} /\ Kid(t, NoSide, r, "R") \in X \cup {NULL}
          /\ \A m \in Under(sub, c) : Before("L", m, r)
          /\ \A m \in Under(sub, Kid(t, NoSide, r, "R")) : Before("L", r, m)
          /\ sub[r] = {r} \cup Under(sub, c) \cup Under(sub, Kid(t, NoSide, r, "R"))
      <3>1. Kid(t, NoSide, r, "L") = c
        BY <1>1, <1>2, <1>5
      <3>2. "L" \in Dir
        BY <1>1
      <3>3. QED
        BY <1>1, <3>1, <3>2, ForestIs
    <2>2. Under(sub, Kid(t, NoSide, r, "R")) = {}
      <3>1. ASSUME NEW m \in Under(sub, Kid(t, NoSide, r, "R"))
            PROVE  FALSE
        <4>1. m \in sub[r] /\ Before("L", r, m)
          BY <2>1
        <4>2. m \in Nodes /\ (m = r \/ Before("L", m, r))
          BY <1>2, <1>7, <4>1
        <4>3. ~Before("L", r, r) /\ ~(Before("L", r, m) /\ Before("L", m, r))
          BY <1>1, <1>2, <4>2, BeforeIs
        <4>4. QED
          BY <4>1, <4>2, <4>3
      <3>2. QED
        BY <3>1
    <2>3. c # r
      <3>1. c = r => r \in Under(sub, c)
        BY <1>2, <1>7 DEF Under
      <3>2. ~Before("L", r, r)
        BY <1>1, <1>2, BeforeIs
      <3>3. QED
        BY <2>1, <3>1, <3>2
    <2>4. QED
      BY <2>1, <2>2, <2>3
  <1>11. Kid(w, NoSide, r, "L") = c /\ Kid(w, NoSide, r, "R") = k
    BY <1>1, <1>2, <1>4, <1>5
  <1> HIDE DEF c
  <1>12. /\ new \in [Nodes -> SUBSET Nodes] /\ new[r] = sub[r] \cup T
         /\ \A n \in Nodes : n # r => new[n] = sub[n]
    BY <1>2, <1>6, <1>7
  <1> HIDE DEF new
  <1>13. ASSUME NEW q, q \in X \cup {NULL}, q # r
         PROVE  Under(new, q) = Under(sub, q)
    BY <1>2, <1>12, <1>13 DEF Under
  <1>14. NodeIsRight(w, NoSide, new, X, r)
    <2>1. Under(new, c) = Under(sub, c) /\ Under(new, k) = T
      BY <1>8, <1>10, <1>13
    <2>2. \A m \in Under(new, k) : Before("L", r, m)
      BY <1>7, <2>1
    <2>3. new[r] = {r} \cup Under(new, c) \cup Under(new, k)
      BY <1>10, <1>12, <2>1
    <2>4. \A m \in new[r] : m \in X /\ new[m] \subseteq new[r]
      <3>1. \A m \in new[r] : m \in X /\ (m = r \/ new[m] = sub[m])
        BY <1>2, <1>6, <1>7, <1>12
      <3>2. \A m \in sub[r] : sub[m] \subseteq sub[r]
        BY <1>3
      <3>3. QED
        BY <1>6, <1>12, <3>1, <3>2
    <2>5. "L" \in Dir
      BY <1>1
    <2>6. \A m \in Under(new, c) : Before("L", m, r)
      BY <1>10, <2>1
    <2>7. /\ Kid(w, NoSide, r, Opp("L")) = k /\ Kid(w, NoSide, r, "L") = c
          /\ k \in X \cup {NULL} /\ c \in X \cup {NULL}
      BY <1>1, <1>10, <1>11
    <2>8. /\ Kid(w, NoSide, r, "L") \in X \cup {NULL}
          /\ Kid(w, NoSide, r, Opp("L")) \in X \cup {NULL}
          /\ \A m \in Under(new, Kid(w, NoSide, r, "L")) : Before("L", m, r)
          /\ \A m \in Under(new, Kid(w, NoSide, r, Opp("L"))) : Before("L", r, m)
          /\ new[r] = {r} \cup Under(new, Kid(w, NoSide, r, "L"))
                          \cup Under(new, Kid(w, NoSide, r, Opp("L")))
      BY <2>2, <2>3, <2>6, <2>7
    <2>9. QED
      BY <1>2, <1>12, <2>4, <2>5, <2>8, RightIs
  <1>15. ASSUME NEW n \in X, n # r
         PROVE  NodeIsRight(w, NoSide, new, X, n)
    <2>1. NodeIsRight(t, NoSide, sub, X, n)
      BY DEF Forest
    <2>2. new[n] = sub[n] /\ \A m \in sub[n] : m \in X /\ new[m] = sub[m]
      BY <1>2, <1>3, <1>9, <1>12, <1>15
    <2>3. ASSUME NEW e \in Dir
          PROVE  /\ Kid(w, NoSide, n, e) = Kid(t, NoSide, n, e)
                 /\ Under(new, Kid(t, NoSide, n, e)) = Under(sub, Kid(t, NoSide, n, e))
      <3>1. Kid(w, NoSide, n, e) = Kid(t, NoSide, n, e)
        BY <1>2, <1>4, <1>5, <1>15, RowsAre
      <3>2. Kid(t, NoSide, n, e) \in X \cup {NULL}
        BY <2>1 DEF NodeIsRight
      <3>3. Kid(t, NoSide, n, e) # r
        <4>1. Under(sub, Kid(t, NoSide, n, e)) \subseteq sub[n]
          BY ForestIs
        <4>2. Kid(t, NoSide, n, e) = r => r \in Under(sub, Kid(t, NoSide, n, e))
          BY <1>2, <1>7 DEF Under
        <4>3. QED
          BY <1>9, <1>15, <4>1, <4>2
      <3>4. QED
        BY <1>13, <3>1, <3>2, <3>3
    <2>4. \A m \in sub[n] : m \in X /\ new[m] \subseteq sub[n]
      BY <1>3, <2>2
    <2>5. QED
      BY <2>1, <2>2, <2>3, <2>4 DEF NodeIsRight
  <1>16. Forest(w, NoSide, new, X)
    BY <1>2, <1>4, <1>12, <1>14, <1>15 DEF Forest
  <1>17. Standing(w, new, X)
    BY <1>2, <1>4, <1>12, <1>16 DEF Standing, Under
  <1>18. QED
    BY <1>17

\* The two parts of the tree of a removed node are joined.
LEMMA RemoveJoinKeeps ==
  ASSUME SInv, RemoveJoin
  PROVE  SInv'
  <1>1. /\ pc = "resplayed"
        /\ tree' = SetChild(tree, tree.root, "R", tmp)
        /\ content' = Others /\ Others \subseteq content
        /\ Return(call.arg) /\ side' = side
    BY DEF RemoveJoin, Others
  <1>2. Expected = Others /\ ~Splaying
    BY <1>1 DEF Expected, Splaying
  <1>3. PICK sub \in [Nodes -> SUBSET Nodes] : ShapeIs(sub)
    BY DEF SInv, Shaped
  <1>4. /\ Forest(tree, side, sub, Others) /\ tmp \in Others \cup {NULL}
        /\ side = NoSide /\ tree.root \in Others \cup {NULL} /\ tree.root # NULL
        /\ \A n \in Others : n \in Under(sub, tree.root) \/ n \in Apart(sub)
        /\ \A n \in sub[tree.root] :
             /\ n = tree.root \/ Before("L", n, tree.root)
             /\ \A k \in Apart(sub) : Before("L", n, k)
    BY <1>1, <1>2, <1>3 DEF ShapeIs, Whole, ReadyToJoin
  <1>5. PICK r : r = tree.root
    OBVIOUS
  <1>6. PICK t : t = tree
    OBVIOUS
  <1>7. PICK w : w = tree'
    OBVIOUS
  <1>8. PICK X : X = Others
    OBVIOUS
  <1>9. PICK k : k = tmp
    OBVIOUS
  <1>10. PICK T : T = Under(sub, k)
    OBVIOUS
  <1>11. /\ Forest(t, NoSide, sub, X) /\ t.root = r /\ r \in X /\ k \in X \cup {NULL}
         /\ \A n \in X : n \in sub[r] \/ n \in T
         /\ \A n \in sub[r] : (n = r \/ Before("L", n, r)) /\ \A m \in T : Before("L", n, m)
         /\ w = SetChild(t, r, "R", k)
    BY <1>1, <1>4, <1>5, <1>6, <1>7, <1>8, <1>9, <1>10 DEF Apart, Under
  <1>12. PICK new : Standing(w, new, X)
    BY <1>10, <1>11, JoinedIs
  <1>13. Standing(tree, new, content)'
    BY <1>1, <1>7, <1>8, <1>12
  <1>14. (pc = "idle" /\ tmp = NULL /\ side = NoSide)'
    BY <1>1, <1>4 DEF Return
  <1>15. Shaped'
    BY <1>13, <1>14, StandingIs DEF Quiet
  <1>16. Distinct' /\ ClosestOnTop'
    BY <1>1, <1>14 DEF SInv, Distinct, ClosestOnTop
  <1>17. CallInv'
    <2>1. CallInv
      BY DEF SInv
    <2>2. content' \in SUBSET Nodes /\ call.arg \in N0
      BY <1>1, <2>1 DEF CallInv
    <2>3. QED
      BY <1>1, <2>1, <2>2, ReturnIs
  <1>18. QED
    BY <1>15, <1>16, <1>17 DEF SInv

\* SPLAY_NEXT finds the node it was given on top.
LEMMA NextOnTop ==
  ASSUME SInv, pc = "splayed", call.op = "next"
  PROVE  tree.root = call.arg /\ call.arg \in content /\ call.arg \in Nodes
  <1>1. /\ call.arg \in content /\ tree.root \in content /\ content \subseteq Nodes
    BY SplayedIs DEF SInv, CallInv
  <1>2. Key[call.arg] \in Int /\ Key[tree.root] \in Int
    BY <1>1, KeyAssumption
  <1>3. /\ Key[tree.root] <= Key[call.arg] =>
             ~(Key[tree.root] < Key[call.arg] /\ Key[call.arg] <= Key[call.arg])
        /\ Key[tree.root] >= Key[call.arg] =>
             ~(Key[call.arg] <= Key[call.arg] /\ Key[call.arg] < Key[tree.root])
    BY <1>1 DEF SInv, ClosestOnTop
  <1>4. Key[tree.root] = Key[call.arg]
    BY <1>2, <1>3
  <1>5. QED
    BY <1>1, <1>4 DEF SInv, Distinct

\* The nodes behind the root are in its right subtree.
LEMMA RightOfRoot ==
  ASSUME SInv, pc = "splayed", call.op = "next",
         NEW sub, Standing(tree, sub, content),
         NEW q, q = tree.child[call.arg]["R"]
  PROVE  /\ q \in content \cup {NULL}
         /\ \A n \in content : Key[call.arg] < Key[n] <=> n \in Under(sub, q)
  <1>1. /\ tree.root = call.arg /\ call.arg \in content
        /\ call.arg \in Nodes /\ content \subseteq Nodes
    BY NextOnTop, SplayedIs
  <1>2. PICK t : t = tree
    OBVIOUS
  <1>3. PICK X : X = content
    OBVIOUS
  <1>4. PICK a : a = call.arg
    OBVIOUS
  <1>5. PICK p : p = t.child[a]["L"]
    OBVIOUS
  <1>6. "R" \in Dir /\ Opp("R") = "L"
    BY DEF Dir, Opp
  <1>7. Standing(t, sub, X) /\ t.root = a /\ a # NULL /\ t.child[a]["R"] = q
    BY <1>1, <1>2, <1>3, <1>4, RowsAre
  <1>8. /\ q \in X \cup {NULL}
        /\ \A m \in Under(sub, q) : Before("R", m, a)
        /\ \A m \in Under(sub, p) : Before("R", a, m)
        /\ X = {a} \cup Under(sub, q) \cup Under(sub, p)
    BY <1>5, <1>6, <1>7, StandingFacts
  <1>9. \A n \in X : Key[n] \in Int /\ Key[a] \in Int
    BY <1>1, <1>3, <1>4, KeyAssumption
  <1>10. /\ \A m \in Under(sub, q) : Key[a] < Key[m]
         /\ \A m \in Under(sub, p) : Key[m] < Key[a]
    BY <1>8 DEF Before
  <1>11. ASSUME NEW n \in X
         PROVE  Key[a] < Key[n] <=> n \in Under(sub, q)
    <2>1. n = a \/ n \in Under(sub, q) \/ n \in Under(sub, p)
      BY <1>8
    <2>2. QED
      BY <1>9, <1>10, <2>1
  <1>12. QED
    BY <1>3, <1>4, <1>8, <1>11

\* SPLAY_NEXT goes right.
LEMMA NextRightKeeps ==
  ASSUME SInv, NextRight
  PROVE  SInv'
  <1>1. pc = "splayed" /\ call.op = "next" /\ UNCHANGED <<tree, side, content>> /\ Quiet
    BY DEF NextRight, Quiet
  <1>2. CASE tree.child[call.arg]["R"] = NULL
    <2>1. Return(NULL) /\ NULL \in N0
      BY <1>2 DEF NextRight, N0
    <2>2. QED
      BY <1>1, <2>1, LookedKeeps
  <1>3. CASE tree.child[call.arg]["R"] # NULL
    <2>1. pc' = "down" /\ elm' = tree.child[call.arg]["R"] /\ tmp' = tmp /\ call' = call
      BY <1>3 DEF NextRight
    <2>2. PICK sub : Standing(tree, sub, content)
      BY <1>1, SplayedIs
    <2>3. PICK q : q = tree.child[call.arg]["R"]
      OBVIOUS
    <2>4. /\ q \in content
          /\ \A n \in content : Key[call.arg] < Key[n] <=> n \in sub[q]
      BY <1>1, <1>3, <2>2, <2>3, RightOfRoot DEF Under
    <2>5. content \subseteq Nodes /\ "L" \in Dir
      BY <1>1, SplayedIs DEF Dir
    <2>6. \A n \in sub[q] : n \in content
      BY <2>2, <2>4, <2>5, ForestIs DEF Standing
    <2>7. NextIsBelow(sub)'
      BY <1>1, <2>1, <2>3, <2>4, <2>6 DEF NextIsBelow
    <2>8. Standing(tree, sub, content)'
      BY <1>1, <2>2
    <2>9. side' = NoSide /\ tmp' = NULL /\ Quiet'
      BY <1>1, <2>1, SplayedIs DEF Quiet
    <2>10. Shaped'
      BY <2>7, <2>8, <2>9, StandingIs
    <2>11. Distinct' /\ ClosestOnTop'
      BY <1>1, <2>1 DEF SInv, Distinct, ClosestOnTop
    <2>12. CallInv'
      BY <1>1, <2>1, <2>3, <2>4, <2>5 DEF SInv, CallInv, N0
    <2>13. QED
      BY <2>10, <2>11, <2>12 DEF SInv
  <1>4. QED
    BY <1>2, <1>3

\* What the loop of SPLAY_NEXT is looking for: the left subtree of elm, when
\* there is one.
LEMMA DownIs ==
  ASSUME SInv, pc = "down",
         NEW sub, Standing(tree, sub, content), NextIsBelow(sub),
         NEW q, q = tree.child[elm]["L"]
  PROVE  /\ elm \in content /\ content \subseteq Nodes /\ call.arg \in Nodes
         /\ Key[call.arg] < Key[elm] /\ Key[call.arg] \in Int
         /\ q \in content \cup {NULL} /\ Under(sub, q) \subseteq sub[elm]
         /\ Under(sub, q) \subseteq content
         /\ \A m \in Under(sub, q) : Key[m] < Key[elm]
         /\ \A n \in content : Key[call.arg] < Key[n] =>
              \/ n = elm \/ Key[elm] < Key[n] \/ n \in Under(sub, q)
         /\ \A n \in content : Key[n] \in Int
         /\ \A n \in sub[elm] : n \in content
  <1>1. /\ elm \in content /\ content \subseteq Nodes /\ call.arg \in Nodes
        /\ \A n \in sub[elm] : Key[call.arg] < Key[n]
        /\ \A n \in content : Key[call.arg] < Key[n] =>
             n \in sub[elm] \/ \A m \in sub[elm] : Key[m] < Key[n]
    BY DEF NextIsBelow, SInv, CallInv
  <1>2. "L" \in Dir /\ Opp("L") = "R"
    BY DEF Dir, Opp
  <1>3. PICK t : t = tree
    OBVIOUS
  <1>4. PICK X : X = content
    OBVIOUS
  <1>5. PICK e : e = elm
    OBVIOUS
  <1>6. PICK p : p = Kid(t, NoSide, e, "R")
    OBVIOUS
  <1>7. Forest(t, NoSide, sub, X) /\ e \in X /\ X \subseteq Nodes
    BY <1>1, <1>3, <1>4, <1>5 DEF Standing
  <1>8. Kid(t, NoSide, e, "L") = q
    BY <1>2, <1>3, <1>5, <1>7, RowsAre DEF Kid, NoSide, Dir
  <1>9. /\ q \in X \cup {NULL}
        /\ \A m \in Under(sub, q) : Before("L", m, e)
        /\ \A m \in Under(sub, p) : Before("L", e, m)
        /\ sub[e] = {e} \cup Under(sub, q) \cup Under(sub, p)
        /\ \A m \in sub[e] : m \in X
        /\ e \in sub[e]
    <2>1. "L" \in Dir
      BY <1>2
    <2>2. QED
      BY <1>2, <1>6, <1>7, <1>8, <2>1, ForestIs
  <1>10. /\ \A m \in Under(sub, q) : Key[m] < Key[e]
         /\ \A m \in Under(sub, p) : Key[e] < Key[m]
    BY <1>9 DEF Before
  <1>11. (\A n \in X : Key[n] \in Int) /\ Key[call.arg] \in Int
    BY <1>1, <1>7, KeyAssumption
  <1>12. ASSUME NEW n \in X, Key[call.arg] < Key[n]
         PROVE  n = e \/ Key[e] < Key[n] \/ n \in Under(sub, q)
    BY <1>1, <1>4, <1>5, <1>9, <1>10, <1>12
  <1>13. QED
    BY <1>1, <1>4, <1>5, <1>9, <1>10, <1>11, <1>12

\* SPLAY_NEXT goes left.
LEMMA NextDownKeeps ==
  ASSUME SInv, NextDown
  PROVE  SInv'
  <1>1. pc = "down" /\ UNCHANGED <<tree, side, content>> /\ Quiet
    BY DEF NextDown, Quiet
  <1>2. PICK sub : Standing(tree, sub, content) /\ NextIsBelow(sub)
    BY <1>1, QuietIs
  <1>3. PICK q : q = tree.child[elm]["L"]
    OBVIOUS
  <1>4. /\ elm \in content /\ content \subseteq Nodes /\ call.arg \in Nodes
        /\ Key[call.arg] < Key[elm] /\ Key[call.arg] \in Int
        /\ q \in content \cup {NULL} /\ Under(sub, q) \subseteq sub[elm]
        /\ Under(sub, q) \subseteq content
        /\ \A m \in Under(sub, q) : Key[m] < Key[elm]
        /\ \A n \in content : Key[call.arg] < Key[n] =>
             \/ n = elm \/ Key[elm] < Key[n] \/ n \in Under(sub, q)
        /\ \A n \in content : Key[n] \in Int
        /\ \A n \in sub[elm] : n \in content
    BY <1>1, <1>2, <1>3, DownIs
  <1>5. CASE q = NULL
    <2>1. Return(elm) /\ elm \in N0
      BY <1>3, <1>4, <1>5 DEF NextDown, N0
    <2>2. QED
      BY <1>1, <2>1, LookedKeeps
  <1>6. CASE q # NULL
    <2>1. pc' = pc /\ elm' = q /\ tmp' = tmp /\ call' = call
      BY <1>3, <1>6 DEF NextDown
    <2>2. q \in content /\ Under(sub, q) = sub[q]
      BY <1>4, <1>6 DEF Under
    <2>3. \A n \in sub[q] : Key[call.arg] < Key[n]
      BY <1>2, <1>4, <2>2 DEF NextIsBelow
    <2>4. ASSUME NEW n \in content, Key[call.arg] < Key[n]
          PROVE  n \in sub[q] \/ \A m \in sub[q] : Key[m] < Key[n]
      <3>1. n = elm \/ Key[elm] < Key[n] \/ n \in sub[q]
        BY <1>4, <2>2, <2>4
      <3>2. \A m \in sub[q] : Key[m] < Key[elm] /\ Key[m] \in Int
        BY <1>4, <2>2
      <3>3. Key[n] \in Int /\ Key[elm] \in Int
        BY <1>4
      <3>4. QED
        BY <3>1, <3>2, <3>3
    <2>5. NextIsBelow(sub)'
      BY <1>1, <2>1, <2>2, <2>3, <2>4 DEF NextIsBelow
    <2>6. Standing(tree, sub, content)'
      BY <1>1, <1>2
    <2>7. side' = NoSide /\ tmp' = NULL /\ Quiet'
      BY <1>1, <2>1, QuietIs DEF Quiet
    <2>8. Shaped'
      BY <2>5, <2>6, <2>7, StandingIs
    <2>9. Distinct' /\ ClosestOnTop'
      BY <1>1, <2>1 DEF SInv, Distinct, ClosestOnTop
    <2>10. CallInv'
      BY <1>1, <1>4, <2>1, <2>2 DEF SInv, CallInv, N0
    <2>11. QED
      BY <2>8, <2>9, <2>10 DEF SInv
  <1>7. QED
    BY <1>5, <1>6

-----------------------------------------------------------------------------
(* The invariant.                                                          *)

\* Which calls Invoke makes.
LEMMA InvokeIs ==
  ASSUME Invoke
  PROVE  \E op, arg : Legal(op, arg) /\ Start(op, arg)
  <1>1. ASSUME NEW n \in Nodes, CallInsert(n)
        PROVE  \E op, arg : Legal(op, arg) /\ Start(op, arg)
    BY <1>1 DEF CallInsert, Legal
  <1>2. ASSUME NEW n \in Nodes, CallRemove(n)
        PROVE  \E op, arg : Legal(op, arg) /\ Start(op, arg)
    BY <1>2 DEF CallRemove, Legal
  <1>3. ASSUME NEW n \in Nodes, CallFind(n)
        PROVE  \E op, arg : Legal(op, arg) /\ Start(op, arg)
    BY <1>3 DEF CallFind, Legal
  <1>4. ASSUME NEW n \in Nodes, CallNext(n)
        PROVE  \E op, arg : Legal(op, arg) /\ Start(op, arg)
    BY <1>4 DEF CallNext, Legal
  <1>5. ASSUME NEW op \in {"min", "max"}, CallMinMax(op)
        PROVE  \E o, arg : Legal(o, arg) /\ Start(o, arg)
    BY <1>5 DEF CallMinMax, Legal
  <1>6. QED
    BY <1>1, <1>2, <1>3, <1>4, <1>5 DEF Invoke

\* A step that changes nothing.
LEMMA StutterKeeps ==
  ASSUME SInv, UNCHANGED vars
  PROVE  SInv'
  <1>1. /\ tree' = tree /\ side' = side /\ pc' = pc /\ elm' = elm /\ tmp' = tmp
        /\ call' = call /\ content' = content
    BY DEF vars
  <1>2. CallInv' /\ Distinct' /\ ClosestOnTop'
    BY <1>1 DEF SInv, CallInv, Distinct, ClosestOnTop
  <1>3. PICK sub \in [Nodes -> SUBSET Nodes] : ShapeIs(sub)
    BY DEF SInv, Shaped
  <1>4. /\ Expected' = Expected /\ Splaying' = Splaying /\ Apart(sub)' = Apart(sub)
        /\ \A n : Comp(n)' = Comp(n)
    BY <1>1 DEF Expected, Others, Splaying, Apart, Comp
  <1>5. Forest(tree, side, sub, Expected)' /\ (tmp \in Expected \cup {NULL})'
    BY <1>1, <1>3, <1>4 DEF ShapeIs
  <1>6. (Splaying => Parted(tree, side, sub, Expected, Apart(sub)))'
    BY <1>1, <1>3, <1>4 DEF ShapeIs, Parted
  <1>7. (~Splaying => Whole(sub))'
    BY <1>1, <1>3, <1>4 DEF ShapeIs, Whole
  <1>8. (/\ pc = "resplay" => \A n \in Expected : n \in Apart(sub) \/ Key[n] < Key[call.arg]
         /\ pc = "resplayed" => ReadyToJoin(sub)
         /\ pc = "down" => NextIsBelow(sub))'
    BY <1>1, <1>3, <1>4 DEF ShapeIs, ReadyToJoin, NextIsBelow
  <1>9. ShapeIs(sub)'
    BY <1>5, <1>6, <1>7, <1>8 DEF ShapeIs
  <1>10. QED
    BY <1>2, <1>9 DEF SInv, Shaped

\* Every step keeps the invariant.
LEMMA NextKeeps ==
  ASSUME SInv, [Next]_vars
  PROVE  SInv'
  <1>1. CASE Invoke
    BY <1>1, InvokeIs, StartKeeps
  <1>2. CASE ReturnEmpty
    BY <1>2, ReturnEmptyKeeps
  <1>3. CASE SplayStep
    BY <1>3, SplayStepKeeps
  <1>4. CASE SplayEnd
    BY <1>4, SplayEndKeeps
  <1>5. CASE InsertRoot
    BY <1>5, InsertRootKeeps
  <1>6. CASE FindReturn \/ MinMaxReturn \/ RemoveAbsent
    BY <1>6, LooksKeep
  <1>7. CASE NextRight
    BY <1>7, NextRightKeeps
  <1>8. CASE NextDown
    BY <1>8, NextDownKeeps
  <1>9. CASE RemoveRoot
    BY <1>9, RemoveRootKeeps
  <1>10. CASE RemoveSplit
    BY <1>10, RemoveSplitKeeps
  <1>11. CASE RemoveJoin
    BY <1>11, RemoveJoinKeeps
  <1>12. CASE UNCHANGED vars
    BY <1>12, StutterKeeps
  <1>13. QED
    BY <1>1, <1>2, <1>3, <1>4, <1>5, <1>6, <1>7, <1>8, <1>9, <1>10, <1>11, <1>12
    DEF Next, Work

\* The links always form search trees of the nodes they should hold: while a
\* splay has the tree in pieces the pieces are apart and in order, and no node
\* is lost; when it is done the closest key is on top.  That is what the macros
\* of tree.h rest on at every step.
THEOREM SplayTreeInvariant == Spec => []SInv
  <1>1. Init => SInv
    BY InitIs
  <1>2. SInv /\ [Next]_vars => SInv'
    BY NextKeeps
  <1>3. QED
    BY <1>1, <1>2, PTL DEF Spec

\* Links, locals and results keep their types.
THEOREM TypesStay == Spec => []TypeOK
  <1>1. SInv => TypeOK
    <2>1. SUFFICES ASSUME SInv
                   PROVE  TypeOK
      OBVIOUS
    <2>2. PICK sub : ShapeIs(sub)
      BY <2>1 DEF SInv, Shaped
    <2>3. /\ tree \in Trees /\ side \in Sides
          /\ tmp \in Expected \cup {NULL} /\ Expected \subseteq Nodes
      BY <2>2 DEF ShapeIs, Forest
    <2>4. CallInv
      BY <2>1 DEF SInv
    <2>5. /\ tree.root \in N0
          /\ tree.child \in [Nodes \cup {SCRATCH} -> [Dir -> N0 \cup {STALE}]]
          /\ side \in [Dir -> Nodes \cup {SCRATCH}] /\ tmp \in N0
      BY <2>3 DEF Trees, Sides, Rows, Links, N0
    <2>6. QED
      BY <2>4, <2>5 DEF TypeOK, CallInv, N0
  <1>2. QED
    BY <1>1, SplayTreeInvariant, PTL

\* tree.h:160-162: a splay moves the node closest to the key to the top, and
\* SPLAY_MINMAX the least or the greatest.
THEOREM SplayedClosestOnTop == Spec => []ClosestOnTop
  <1>1. SInv => ClosestOnTop
    BY DEF SInv
  <1>2. QED
    BY <1>1, SplayTreeInvariant, PTL

-----------------------------------------------------------------------------
(* The splay tree implements the ordered set.                              *)

\* The only least node of a set is its least node.
LEMMA LeastIs ==
  ASSUME NEW S \in SUBSET Nodes, NEW r \in S,
         \A m \in S : Key[r] <= Key[m] /\ (Key[m] = Key[r] => m = r)
  PROVE  Set!Least(S) = r
  <1>1. \A m \in S : Key[m] \in Int
    BY KeyAssumption
  <1> DEFINE P(n) == n \in S /\ \A m \in S : Key[n] <= Key[m]
  <1>2. P(r)
    OBVIOUS
  <1>3. \A n : P(n) => n = r
    BY <1>1
  <1>4. Set!Least(S) = CHOOSE n \in S : \A m \in S : Key[n] <= Key[m]
    BY DEF Set!Least
  <1>5. QED
    BY <1>2, <1>3, <1>4

\* The same for the greatest.
LEMMA GreatestIs ==
  ASSUME NEW S \in SUBSET Nodes, NEW r \in S,
         \A m \in S : Key[r] >= Key[m] /\ (Key[m] = Key[r] => m = r)
  PROVE  Set!Greatest(S) = r
  <1>1. \A m \in S : Key[m] \in Int
    BY KeyAssumption
  <1> DEFINE P(n) == n \in S /\ \A m \in S : Key[n] >= Key[m]
  <1>2. P(r)
    OBVIOUS
  <1>3. \A n : P(n) => n = r
    BY <1>1
  <1>4. Set!Greatest(S) = CHOOSE n \in S : \A m \in S : Key[n] >= Key[m]
    BY DEF Set!Greatest
  <1>5. QED
    BY <1>2, <1>3, <1>4

\* Nothing is the least of nothing.
LEMMA NoLeast ==
  Set!Least({}) = NULL /\ Set!Greatest({}) = NULL
  BY DEF Set!Least, Set!Greatest

\* A return with the right result is the set's response.
LEMMA RespondIs ==
  ASSUME CallInv, pc # "idle", NEW r, Return(r), Set!Result(call.op, call.arg) = r,
         content' = IF call.op = "remove" THEN Others
                    ELSE IF call.op = "insert" /\ r = NULL THEN content \cup {call.arg}
                    ELSE content
  PROVE  Set!Respond
  <1>1. call.ret = Pending
    BY DEF CallInv
  <1>2. call' = [call EXCEPT !.ret = r]
    BY DEF Return
  <1>3. call'.ret = r
    BY <1>1, <1>2 DEF CallInv
  <1>4. QED
    BY <1>1, <1>2, <1>3 DEF Set!Respond, Others

\* A call.
LEMMA StartRefines ==
  ASSUME SInv, Invoke
  PROVE  Set!Next
  <1>1. PICK op, arg : Legal(op, arg) /\ Start(op, arg)
    BY InvokeIs
  <1>2. /\ pc = "idle" /\ content' = content
        /\ call' = [op |-> op, arg |-> arg, ret |-> Pending]
    BY <1>1 DEF Start
  <1>3. call.ret # Pending
    BY <1>2 DEF SInv, CallInv
  <1>4. content \subseteq Nodes
    BY DEF SInv, CallInv
  <1>5. Set!Legal(op, arg) /\ op \in Set!Ops /\ arg \in Nodes \cup {NULL}
    BY <1>1, <1>4 DEF Legal, Set!Legal, Set!Ops
  <1>6. Set!Invoke(op, arg)
    BY <1>2, <1>3, <1>5 DEF Set!Invoke
  <1>7. QED
    BY <1>5, <1>6 DEF Set!Next

\* The answers of the empty tree.
LEMMA ReturnEmptyRefines ==
  ASSUME SInv, ReturnEmpty
  PROVE  Set!Respond
  <1>1. /\ pc = "empty" /\ Return(NULL) /\ CallInv
        /\ content' = IF call.op = "insert" THEN {call.arg} ELSE content
    BY DEF ReturnEmpty, SInv
  <1>2. content = {}
    BY <1>1, EmptyIs
  <1>3. call.op \in {"min", "max", "insert", "remove", "find", "next"}
    BY <1>1 DEF CallInv
  <1>4. Set!Result(call.op, call.arg) = NULL
    <2>1. \A n : /\ {m \in content : Key[m] = Key[n]} = {}
                 /\ {m \in content : Key[m] > Key[n]} = {}
                 /\ ~\E m \in content : Key[m] = Key[n]
      BY <1>2
    <2>2. QED
      BY <1>2, <1>3, <2>1, NoLeast DEF Set!Result
  <1>5. content' = IF call.op = "remove" THEN Others
                   ELSE IF call.op = "insert" /\ NULL = NULL THEN content \cup {call.arg}
                   ELSE content
    BY <1>1, <1>2 DEF Others
  <1>6. QED
    BY <1>1, <1>4, <1>5, RespondIs

\* What the root says about the key, when a splay towards it is done.
LEMMA RootTells ==
  ASSUME SInv, pc = "splayed", call.op \notin {"min", "max"}
  PROVE  /\ Comp(tree.root) = "here" =>
              /\ Set!Least({m \in content : Key[m] = Key[call.arg]}) = tree.root
              /\ tree.root \in content /\ Key[tree.root] = Key[call.arg]
         /\ Comp(tree.root) # "here" =>
              {m \in content : Key[m] = Key[call.arg]} = {}
  <1>1. tree.root \in content /\ content \subseteq Nodes /\ call.arg \in Nodes
    BY SplayedIs
  <1>2. CASE Comp(tree.root) = "here"
    <2>1. Key[tree.root] = Key[call.arg]
      BY <1>2 DEF Comp
    <2>2. PICK S : S = {m \in content : Key[m] = Key[call.arg]}
      OBVIOUS
    <2>3. S \in SUBSET Nodes /\ tree.root \in S
      BY <1>1, <2>1, <2>2
    <2>4. \A m \in S : Key[tree.root] <= Key[m] /\ (Key[m] = Key[tree.root] => m = tree.root)
      BY <1>1, <2>1, <2>2, KeyAssumption DEF SInv, Distinct
    <2>5. Set!Least(S) = tree.root
      BY <2>3, <2>4, LeastIs
    <2>6. QED
      BY <1>1, <1>2, <2>1, <2>2, <2>5
  <1>3. CASE Comp(tree.root) # "here"
    <2>1. tree.root \in Nodes
      BY <1>1
    <2>2. \A n \in content : Key[n] # Key[call.arg]
      BY <1>1, <1>3, <2>1, BetweenIs
    <2>3. QED
      BY <1>3, <2>2
  <1>4. QED
    BY <1>2, <1>3

\* An insertion of a new key, and a search.
LEMMA InsertAndFindRefine ==
  ASSUME SInv, InsertRoot \/ FindReturn
  PROVE  Set!Respond
  <1> DEFINE here == Comp(tree.root) = "here"
             r == IF here THEN tree.root ELSE NULL
  <1>1. /\ pc = "splayed" /\ call.op \in {"insert", "find"}
        /\ Return(r)
        /\ content' = IF call.op = "insert" /\ ~here THEN content \cup {call.arg} ELSE content
    BY DEF InsertRoot, FindReturn, OnlyLooks
  <1>2. Set!Result(call.op, call.arg) = r
    <2>1. Set!Result(call.op, call.arg) = Set!Least({m \in content : Key[m] = Key[call.arg]})
      BY <1>1 DEF Set!Result
    <2>2. QED
      BY <1>1, <2>1, RootTells, NoLeast
  <1>3. r = NULL <=> ~here
    BY <1>1, SplayedIs
  <1>4. CallInv
    BY DEF SInv
  <1> HIDE DEF r, here
  <1>5. content' = IF call.op = "remove" THEN Others
                   ELSE IF call.op = "insert" /\ r = NULL THEN content \cup {call.arg}
                   ELSE content
    BY <1>1, <1>3
  <1>6. QED
    BY <1>1, <1>2, <1>4, <1>5, RespondIs

\* SPLAY_MIN and SPLAY_MAX.
LEMMA MinMaxRefines ==
  ASSUME SInv, MinMaxReturn
  PROVE  Set!Respond
  <1>1. /\ pc = "splayed" /\ call.op \in {"min", "max"} /\ Return(tree.root)
        /\ content' = content /\ CallInv
    BY DEF MinMaxReturn, SInv
  <1>2. tree.root \in content /\ content \in SUBSET Nodes
    BY <1>1, SplayedIs
  <1>3. \A m \in content : Key[m] = Key[tree.root] => m = tree.root
    BY <1>2 DEF SInv, Distinct
  <1>4. CASE call.op = "min"
    <2>1. \A m \in content : Key[tree.root] <= Key[m]
      BY <1>1, <1>4 DEF SInv, ClosestOnTop
    <2>2. Set!Least(content) = tree.root
      BY <1>2, <1>3, <2>1, LeastIs
    <2>3. Set!Result(call.op, call.arg) = tree.root
      BY <1>4, <2>2 DEF Set!Result
    <2>4. QED
      BY <1>1, <1>4, <2>3, RespondIs
  <1>5. CASE call.op = "max"
    <2>1. \A m \in content : Key[tree.root] >= Key[m]
      BY <1>1, <1>5 DEF SInv, ClosestOnTop
    <2>2. Set!Greatest(content) = tree.root
      BY <1>2, <1>3, <2>1, GreatestIs
    <2>3. Set!Result(call.op, call.arg) = tree.root
      BY <1>5, <2>2 DEF Set!Result
    <2>4. QED
      BY <1>1, <1>5, <2>3, RespondIs
  <1>6. QED
    BY <1>1, <1>4, <1>5

\* SPLAY_NEXT: a step down the tree, or the answer.
LEMMA NextRefines ==
  ASSUME SInv, NextRight \/ NextDown
  PROVE  Set!Respond \/ UNCHANGED <<content, call>>
  <1>1. SUFFICES ASSUME ~UNCHANGED <<content, call>>
                 PROVE  Set!Respond
    OBVIOUS
  <1>2. CallInv /\ content' = content
    BY DEF SInv, NextRight, NextDown
  <1> DEFINE S == {m \in content : Key[m] > Key[call.arg]}
  <1>3. call.op = "next" => Set!Result(call.op, call.arg) = Set!Least(S)
    BY DEF Set!Result
  <1>4. CASE NextRight
    <2>1. /\ pc = "splayed" /\ call.op = "next" /\ Return(NULL)
          /\ tree.child[call.arg]["R"] = NULL
      BY <1>1, <1>2, <1>4 DEF NextRight
    <2>2. PICK sub : Standing(tree, sub, content)
      BY <2>1, SplayedIs
    <2>3. \A n \in content : ~(Key[call.arg] < Key[n])
      BY <2>1, <2>2, RightOfRoot DEF Under
    <2>4. content \subseteq Nodes /\ call.arg \in Nodes
      BY <2>1, SplayedIs
    <2>5. S = {}
      BY <2>3, <2>4, KeyAssumption
    <2>6. Set!Result(call.op, call.arg) = NULL
      BY <1>3, <2>1, <2>5, NoLeast
    <2>7. QED
      BY <1>2, <2>1, <2>6, RespondIs
  <1>5. CASE NextDown
    <2>1. pc = "down" /\ Return(elm) /\ tree.child[elm]["L"] = NULL /\ Quiet
      BY <1>1, <1>2, <1>5 DEF NextDown, Quiet
    <2>2. call.op = "next"
      BY <1>2, <2>1 DEF CallInv
    <2>3. PICK sub : Standing(tree, sub, content) /\ NextIsBelow(sub)
      BY <2>1, QuietIs
    <2>4. PICK q : q = tree.child[elm]["L"]
      OBVIOUS
    <2>5. /\ elm \in content /\ content \subseteq Nodes
          /\ Key[call.arg] < Key[elm] /\ Key[call.arg] \in Int
          /\ \A n \in content : Key[call.arg] < Key[n] =>
               \/ n = elm \/ Key[elm] < Key[n] \/ n \in Under(sub, q)
          /\ \A n \in content : Key[n] \in Int
      BY <2>1, <2>3, <2>4, DownIs
    <2>6. Under(sub, q) = {}
      BY <2>1, <2>4 DEF Under
    <2>7. elm \in S /\ S \in SUBSET Nodes
      BY <2>5
    <2>8. \A m \in S : Key[elm] <= Key[m] /\ (Key[m] = Key[elm] => m = elm)
      BY <2>5, <2>6
    <2> HIDE DEF S
    <2>9. Set!Least(S) = elm
      BY <2>7, <2>8, LeastIs
    <2>10. QED
      BY <1>2, <1>3, <2>1, <2>2, <2>9, RespondIs
  <1>6. QED
    BY <1>4, <1>5

\* A removal takes out the node that has the key, if one has.
LEMMA RemoveRefines ==
  ASSUME SInv, RemoveAbsent \/ RemoveRoot \/ RemoveJoin
  PROVE  Set!Respond
  <1>1. CallInv
    BY DEF SInv
  <1>2. CASE RemoveAbsent
    <2>1. /\ pc = "splayed" /\ call.op = "remove" /\ Comp(tree.root) # "here" /\ Return(NULL)
          /\ content' = content
      BY <1>2 DEF RemoveAbsent
    <2>2. {m \in content : Key[m] = Key[call.arg]} = {}
      BY <2>1, RootTells
    <2>3. Others = content /\ ~\E m \in content : Key[m] = Key[call.arg]
      BY <2>2 DEF Others
    <2>4. Set!Result(call.op, call.arg) = NULL
      BY <2>1, <2>3 DEF Set!Result
    <2>5. QED
      BY <1>1, <2>1, <2>3, <2>4, RespondIs
  <1>3. CASE RemoveRoot \/ RemoveJoin
    <2>1. /\ pc # "idle" /\ Return(call.arg) /\ content' = Others
          /\ \/ pc = "splayed" /\ call.op = "remove" /\ Comp(tree.root) = "here"
             \/ pc = "resplayed"
      BY <1>3 DEF RemoveRoot, RemoveJoin
    <2>2. call.op = "remove" /\ \E m \in content : Key[m] = Key[call.arg]
      <3>1. CASE pc = "splayed" /\ call.op = "remove" /\ Comp(tree.root) = "here"
        BY <3>1, RootTells
      <3>2. CASE pc = "resplayed"
        BY <1>1, <3>2 DEF CallInv
      <3>3. QED
        BY <2>1, <3>1, <3>2
    <2>3. Set!Result(call.op, call.arg) = call.arg
      BY <2>2 DEF Set!Result
    <2>4. QED
      BY <1>1, <2>1, <2>2, <2>3, RespondIs
  <1>4. QED
    BY <1>2, <1>3

\* Every step is one of the set's, or none.
LEMMA StepRefines ==
  ASSUME SInv, [Next]_vars
  PROVE  [Set!Next]_(Set!vars)
  <1>1. CASE Invoke
    BY <1>1, StartRefines
  <1>2. CASE ReturnEmpty \/ InsertRoot \/ FindReturn \/ MinMaxReturn
             \/ RemoveAbsent \/ RemoveRoot \/ RemoveJoin
    <2>1. Set!Respond
      BY <1>2, ReturnEmptyRefines, InsertAndFindRefine, MinMaxRefines, RemoveRefines
    <2>2. QED
      BY <2>1 DEF Set!Next
  <1>3. CASE NextRight \/ NextDown
    BY <1>3, NextRefines DEF Set!Next, Set!vars
  <1>4. CASE SplayStep \/ SplayEnd \/ RemoveSplit
    BY <1>4 DEF SplayStep, SplayEnd, RemoveSplit, Set!vars
  <1>5. CASE UNCHANGED vars
    BY <1>5 DEF vars, Set!vars
  <1>6. QED
    BY <1>1, <1>2, <1>3, <1>4, <1>5 DEF Next, Work

\* Every call of the splay tree macros returns what an ordered set returns, and
\* changes it as little, for any nodes and any keys.
THEOREM SplayTreeIsOrderedSet == Spec => IsOrderedSet
  <1>1. Init => Set!Init
    BY DEF Init, Set!Init, NoCall, Set!NoCall
  <1>2. SInv /\ [Next]_vars => [Set!Next]_(Set!vars)
    BY StepRefines
  <1>3. QED
    BY <1>1, <1>2, SplayTreeInvariant, PTL DEF Spec, IsOrderedSet, Set!Spec

-----------------------------------------------------------------------------
(* Induction, by a least number for which something is wrong.              *)

\* Every set of numbers that is not empty has a least one.
LEMMA LeastNat ==
  ASSUME NEW S, S \subseteq Nat, S # {}
  PROVE  \E n \in S : \A m \in S : n <= m
  <1> DEFINE R == {p \in Nat \X Nat : p[1] < p[2]}
  <1>1. \A x, y \in Nat : <<y, x>> \in R <=> y < x
    OBVIOUS
  <1>2. IsWellFoundedOn(R, Nat)
    BY NatLessThanWellFounded DEF OpToRel
  <1> HIDE DEF R
  <1>3. PICK x \in S : \A y \in S : ~(<<y, x>> \in R)
    BY <1>2, WFMin
  <1>4. \A y \in S : x \in Nat /\ y \in Nat /\ ~(y < x)
    BY <1>1, <1>3
  <1>5. \A y \in S : x <= y
    BY <1>4
  <1>6. QED
    BY <1>5

\* A set that has 0 and the next number of each of its numbers has all of them.
LEMMA AllNumbers ==
  ASSUME NEW n \in Nat, NEW S,
         0 \in S, \A k \in 0 .. n - 1 : k \in S => k + 1 \in S
  PROVE  \A k \in 0 .. n : k \in S
  <1> DEFINE T == {k \in 0 .. n : k \notin S}
  <1> SUFFICES ASSUME T # {}
               PROVE  FALSE
    OBVIOUS
  <1>1. T \subseteq Nat
    OBVIOUS
  <1>2. PICK k \in T : \A m \in T : k <= m
    BY <1>1, LeastNat
  <1>3. k \in 1 .. n
    BY <1>2
  <1>4. k - 1 \in S
    BY <1>2, <1>3
  <1>5. k - 1 + 1 \in S
    BY <1>3, <1>4
  <1>6. QED
    BY <1>2, <1>3, <1>5

\* Every node has a number of nodes below it, and its children have fewer.
LEMMA SizeIs ==
  ASSUME NEW n \in Nodes, NEW S \in SUBSET Nodes, NEW T \in SUBSET S,
         n \in S, n \notin T
  PROVE  /\ Cardinality(S) \in 1 .. Cardinality(Nodes)
         /\ Cardinality(T) \in 0 .. Cardinality(S) - 1
         /\ Cardinality(Nodes) \in Nat
  <1>1. IsFiniteSet(S) /\ Cardinality(S) <= Cardinality(Nodes)
    BY FiniteAssumption, FS_Subset
  <1>2. /\ IsFiniteSet(T) /\ Cardinality(T) <= Cardinality(S)
        /\ Cardinality(S) = Cardinality(T) => S = T
    BY <1>1, FS_Subset
  <1>3. Cardinality(S) \in Nat /\ Cardinality(T) \in Nat /\ Cardinality(Nodes) \in Nat
    BY <1>1, <1>2, FiniteAssumption, FS_CardinalityType
  <1>4. S # T
    OBVIOUS
  <1> HIDE DEF Cardinality
  <1>5. QED
    BY <1>1, <1>2, <1>3, <1>4

-----------------------------------------------------------------------------
(* The walk down the links.                                                *)

\* Where walks start.
Walked == Nodes \cup {NULL, STALE}

\* One step of a walk, from what the walks one level less deep find.
WalkStep(f, k) ==
  [m \in Walked |->
     IF m = NULL THEN <<>>
     ELSE IF m = STALE \/ k = 0 THEN <<m>>
     ELSE f[Link(m, "L")] \o <<m>> \o f[Link(m, "R")]]

\* w is the function walk of InOrder.
IsWalk(w) == w = [k \in Fuel |-> WalkStep(w[k - 1], k)]

\* InOrder is what the walk finds.
LEMMA InOrderIsWalk ==
  \A n : InOrder(n) = (CHOOSE w : IsWalk(w))[Cardinality(Nodes)][n]
  BY DEF InOrder, IsWalk, WalkStep, Walked

\* There is a walk: the definition of InOrder makes sense.
LEMMA WalkExists == \E w : IsWalk(w)
  <1> DEFINE n == Cardinality(Nodes)
             S == {j \in 0 .. n : \E w : \A k \in 0 .. j : w[k] = WalkStep(w[k - 1], k)}
  <1>1. n \in Nat /\ Fuel = 0 .. n
    BY FiniteAssumption, FS_CardinalityType DEF Fuel
  <1> HIDE DEF n
  <1>2. 0 \in S
    <2> DEFINE w == [k \in {0} |-> WalkStep(0, 0)]
    <2>1. w[0] = WalkStep(0, 0)
      OBVIOUS
    <2>2. \A f : WalkStep(f, 0) = WalkStep(0, 0)
      BY DEF WalkStep
    <2> HIDE DEF w
    <2>3. \A k \in 0 .. 0 : w[k] = WalkStep(w[k - 1], k)
      BY <2>1, <2>2
    <2>4. QED
      BY <1>1, <2>3
  <1>3. ASSUME NEW j \in 0 .. n - 1, j \in S
        PROVE  j + 1 \in S
    <2>1. PICK w : \A k \in 0 .. j : w[k] = WalkStep(w[k - 1], k)
      BY <1>3
    <2> DEFINE v == [k \in 0 .. j + 1 |-> IF k <= j THEN w[k] ELSE WalkStep(w[j], j + 1)]
    <2>2. \A k \in 0 .. j : v[k] = w[k]
      BY <1>1
    <2>3. v[j + 1] = WalkStep(w[j], j + 1)
      BY <1>1
    <2> HIDE DEF v
    <2>4. ASSUME NEW k \in 0 .. j + 1
          PROVE  v[k] = WalkStep(v[k - 1], k)
      <3>1. CASE k = 0
        <4>1. \A f, g : WalkStep(f, 0) = WalkStep(g, 0)
          BY DEF WalkStep
        <4>2. QED
          BY <1>1, <2>1, <2>2, <3>1, <4>1
      <3>2. CASE k \in 1 .. j
        <4>1. k - 1 \in 0 .. j /\ k \in 0 .. j
          BY <3>2
        <4>2. v[k - 1] = w[k - 1] /\ v[k] = w[k] /\ w[k] = WalkStep(w[k - 1], k)
          BY <2>1, <2>2, <4>1
        <4>3. QED
          BY <4>2
      <3>3. CASE k = j + 1
        <4>1. k - 1 = j /\ j \in 0 .. j
          BY <1>1, <3>3
        <4>2. QED
          BY <2>2, <2>3, <3>3, <4>1
      <3>4. QED
        BY <1>1, <3>1, <3>2, <3>3
    <2>5. j + 1 \in 0 .. n
      BY <1>1
    <2>6. QED
      BY <2>4, <2>5
  <1>4. n \in S
    <2> HIDE DEF S
    <2>1. \A j \in 0 .. n : j \in S
      BY <1>1, <1>2, <1>3, AllNumbers
    <2>2. QED
      BY <1>1, <2>1
  <1>5. PICK w : \A k \in 0 .. n : w[k] = WalkStep(w[k - 1], k)
    BY <1>4
  <1> DEFINE v == [k \in Fuel |-> w[k]]
  <1>6. \A k \in Fuel : v[k] = w[k]
    OBVIOUS
  <1>7. ASSUME NEW k \in Fuel
        PROVE  WalkStep(v[k - 1], k) = w[k]
    <2>1. CASE k = 0
      <3>1. \A f, g : WalkStep(f, 0) = WalkStep(g, 0)
        BY DEF WalkStep
      <3> HIDE DEF v
      <3>2. QED
        BY <1>1, <1>5, <2>1, <3>1
    <2>2. CASE k # 0
      <3>1. k - 1 \in Fuel
        BY <1>1, <2>2
      <3> HIDE DEF v
      <3>2. v[k - 1] = w[k - 1]
        BY <1>6, <3>1
      <3>3. QED
        BY <1>1, <1>5, <3>2
    <2>3. QED
      BY <2>1, <2>2
  <1>8. v = [k \in Fuel |-> WalkStep(v[k - 1], k)]
    <2> DEFINE u(k) == WalkStep(v[k - 1], k)
    <2>1. \A k \in Fuel : u(k) = w[k]
      BY <1>7
    <2> HIDE DEF u
    <2>2. v = [k \in Fuel |-> u(k)]
      BY <2>1
    <2>3. QED
      BY <2>2 DEF u
  <1>9. QED
    BY <1>8 DEF IsWalk

\* s has the nodes S from left to right.
Ordered(s, S) ==
  /\ s \in Seq(Nodes) /\ ToSet(s) = S
  /\ \A i, j \in 1 .. Len(s) : i < j => Key[s[i]] < Key[s[j]]

\* Nodes that are all to the left of others.
LEMMA OrderedConcat ==
  ASSUME NEW a, NEW b, NEW A, NEW B, Ordered(a, A), Ordered(b, B),
         \A m \in A, k \in B : Key[m] < Key[k]
  PROVE  Ordered(a \o b, A \cup B)
  <1> DEFINE s == a \o b
  <1>1. a \in Seq(Nodes) /\ b \in Seq(Nodes)
    BY DEF Ordered
  <1>2. /\ s \in Seq(Nodes) /\ Len(s) = Len(a) + Len(b)
        /\ Len(a) \in Nat /\ Len(b) \in Nat
    BY <1>1
  <1>3. \A i \in 1 .. Len(s) : s[i] = IF i <= Len(a) THEN a[i] ELSE b[i - Len(a)]
    BY <1>1
  <1> HIDE DEF s
  <1>4. \A i \in 1 .. Len(a) : s[i] = a[i] /\ a[i] \in A
    BY <1>1, <1>2, <1>3 DEF Ordered, ToSet
  <1>5. \A i \in 1 .. Len(s) : i > Len(a) =>
          i - Len(a) \in 1 .. Len(b) /\ s[i] = b[i - Len(a)] /\ b[i - Len(a)] \in B
    BY <1>1, <1>2, <1>3 DEF Ordered, ToSet
  <1>6. ToSet(s) = A \cup B
    <2>1. \A i \in 1 .. Len(s) : s[i] \in A \cup B
      <3>1. \A i \in 1 .. Len(s) : i \in 1 .. Len(a) \/ i > Len(a)
        BY <1>2
      <3>2. QED
        BY <1>4, <1>5, <3>1
    <2>2. \A m \in A : \E i \in 1 .. Len(s) : s[i] = m
      <3>1. \A m \in A : \E i \in 1 .. Len(a) : a[i] = m
        BY <1>1 DEF Ordered, ToSet
      <3>2. \A i \in 1 .. Len(a) : i \in 1 .. Len(s)
        BY <1>2
      <3>3. QED
        BY <1>4, <3>1, <3>2
    <2>3. \A m \in B : \E i \in 1 .. Len(s) : s[i] = m
      <3>1. \A m \in B : \E i \in 1 .. Len(b) : b[i] = m
        BY <1>1 DEF Ordered, ToSet
      <3>2. \A i \in 1 .. Len(b) : /\ i + Len(a) \in 1 .. Len(s)
                                   /\ i + Len(a) > Len(a) /\ i + Len(a) - Len(a) = i
        BY <1>2
      <3>3. \A i \in 1 .. Len(b) : s[i + Len(a)] = b[i]
        BY <1>5, <3>2
      <3>4. QED
        BY <3>1, <3>2, <3>3
    <2>4. DOMAIN s = 1 .. Len(s)
      BY <1>2
    <2>5. QED
      BY <2>1, <2>2, <2>3, <2>4 DEF ToSet
  <1>7. ASSUME NEW i \in 1 .. Len(s), NEW j \in 1 .. Len(s), i < j
        PROVE  Key[s[i]] < Key[s[j]]
    <2>1. CASE j <= Len(a)
      <3>1. i \in 1 .. Len(a) /\ j \in 1 .. Len(a)
        BY <1>2, <1>7, <2>1
      <3>2. Key[a[i]] < Key[a[j]]
        BY <1>7, <3>1 DEF Ordered
      <3>3. QED
        BY <1>4, <3>1, <3>2
    <2>2. CASE i <= Len(a) /\ j > Len(a)
      <3>1. i \in 1 .. Len(a)
        BY <2>2
      <3>2. QED
        BY <1>4, <1>5, <2>2, <3>1
    <2>3. CASE i > Len(a) /\ j > Len(a)
      <3>1. /\ i - Len(a) \in 1 .. Len(b) /\ j - Len(a) \in 1 .. Len(b)
            /\ i - Len(a) < j - Len(a)
        BY <1>2, <1>5, <1>7, <2>3
      <3>2. Key[b[i - Len(a)]] < Key[b[j - Len(a)]]
        BY <3>1 DEF Ordered
      <3>3. QED
        BY <1>5, <2>3, <3>2
    <2>4. QED
      BY <1>2, <1>7, <2>1, <2>2, <2>3
  <1>8. Ordered(s, A \cup B)
    BY <1>2, <1>6, <1>7 DEF Ordered
  <1>9. QED
    BY <1>8 DEF s

\* No node, and one.
LEMMA OrderedFew ==
  /\ Ordered(<<>>, {})
  /\ \A n \in Nodes : Ordered(<<n>>, {n})
  <1>1. Ordered(<<>>, {})
    BY DEF Ordered, ToSet
  <1>2. ASSUME NEW n \in Nodes
        PROVE  Ordered(<<n>>, {n})
    <2>1. <<n>> \in Seq(Nodes) /\ Len(<<n>>) = 1 /\ DOMAIN <<n>> = 1 .. 1 /\ <<n>>[1] = n
      OBVIOUS
    <2>2. ToSet(<<n>>) = {n}
      BY <2>1 DEF ToSet
    <2>3. QED
      BY <2>1, <2>2 DEF Ordered
  <1>3. QED
    BY <1>1, <1>2

\* In a tree, and in its parts, a walk goes down the links the proofs speak of.
LEMMA KidsAre ==
  ASSUME Splaying \/ side = NoSide
  PROVE  /\ \A n \in Nodes, d \in Dir : Link(n, d) = Kid(tree, side, n, d)
         /\ Splaying => \A d \in Dir : Link(SCRATCH, d) = Kid(tree, side, SCRATCH, d)
  <1>1. CASE Splaying
    BY <1>1 DEF Link, Open, Kid
  <1>2. CASE ~Splaying
    <2>1. \A n \in Nodes, d \in Dir : side[Opp(d)] # n
      BY <1>2, OppIs, RowsAre DEF NoSide
    <2>2. QED
      BY <1>2, <2>1 DEF Link, Open, Kid
  <1>3. QED
    BY <1>1, <1>2

\* A walk from a node of a search tree finds the nodes below it, in order, if
\* it may go as deep as there are nodes.
LEMMA WalkFinds ==
  ASSUME NEW sub, NEW X, Forest(tree, side, sub, X), Splaying \/ side = NoSide,
         NEW w, IsWalk(w)
  PROVE  /\ \A k \in Fuel : w[k][NULL] = <<>>
         /\ \A n \in X, k \in Fuel : Cardinality(sub[n]) <= k => Ordered(w[k][n], sub[n])
  <1> DEFINE Fine(n, k) == Cardinality(sub[n]) <= k => Ordered(w[k][n], sub[n])
             Bad == {n \in X : \E k \in Fuel : ~Fine(n, k)}
             Sizes == {Cardinality(sub[n]) : n \in Bad}
  <1>1. \A k \in Fuel : w[k] = WalkStep(w[k - 1], k)
    BY DEF IsWalk
  <1>2. \A k \in Fuel : w[k][NULL] = <<>>
    BY <1>1 DEF WalkStep, Walked
  <1>3. /\ X \in SUBSET Nodes
        /\ \A n \in X : n \in Nodes /\ n # NULL /\ n # STALE /\ n \in sub[n]
        /\ \A n \in X : sub[n] \in SUBSET Nodes
        /\ \A n \in X : sub[n] \subseteq X
    <2>1. X \in SUBSET Nodes /\ NULL \notin Nodes /\ STALE \notin Nodes /\ "L" \in Dir
      BY KeyAssumption DEF Forest, Dir
    <2>2. \A n \in X : n \in sub[n] /\ \A m \in sub[n] : m \in X
      BY <2>1, ForestIs
    <2>3. QED
      BY <2>1, <2>2
  <1>4. \A n \in X : Cardinality(sub[n]) \in 1 .. Cardinality(Nodes)
    <2> SUFFICES ASSUME NEW n \in X
                 PROVE  Cardinality(sub[n]) \in 1 .. Cardinality(Nodes)
      OBVIOUS
    <2>1. n \in Nodes /\ sub[n] \in SUBSET Nodes /\ {} \in SUBSET sub[n]
      BY <1>3
    <2>2. n \in sub[n] /\ n \notin {}
      BY <1>3
    <2>3. QED
      BY <2>1, <2>2, SizeIs
  <1>5. Fuel = 0 .. Cardinality(Nodes) /\ Cardinality(Nodes) \in Nat
    BY FiniteAssumption, FS_CardinalityType DEF Fuel
  <1>6. ASSUME NEW n \in X, NEW k \in Fuel, Cardinality(sub[n]) <= k,
               \A m \in X : Cardinality(sub[m]) < Cardinality(sub[n]) => m \notin Bad
        PROVE  Ordered(w[k][n], sub[n])
    <2> DEFINE L == Link(n, "L")
               R == Link(n, "R")
    <2>1. /\ L \in X \cup {NULL} /\ R \in X \cup {NULL}
          /\ Under(sub, L) \subseteq X /\ Under(sub, R) \subseteq X
          /\ \A m \in Under(sub, L) : Before("L", m, n)
          /\ \A m \in Under(sub, R) : Before("L", n, m)
          /\ sub[n] = {n} \cup Under(sub, L) \cup Under(sub, R)
      <3>1. L = Kid(tree, side, n, "L") /\ R = Kid(tree, side, n, Opp("L"))
        BY <1>3, KidsAre DEF Opp, Dir
      <3>2. "L" \in Dir
        BY DEF Dir
      <3> HIDE DEF L, R
      <3>3. /\ L \in X \cup {NULL} /\ R \in X \cup {NULL}
            /\ \A m \in Under(sub, L) : Before("L", m, n)
            /\ \A m \in Under(sub, R) : Before("L", n, m)
            /\ sub[n] = {n} \cup Under(sub, L) \cup Under(sub, R)
        BY <3>1, <3>2, ForestIs
      <3>4. QED
        BY <1>3, <3>3
    <2> HIDE DEF L, R
    <2>2. k \in 1 .. Cardinality(Nodes) /\ k - 1 \in Fuel
      BY <1>4, <1>5, <1>6
    <2>3. w[k][n] = w[k - 1][L] \o <<n>> \o w[k - 1][R]
      <3>1. n \in Walked /\ n # NULL /\ n # STALE /\ k # 0
        BY <1>3, <2>2 DEF Walked
      <3>2. WalkStep(w[k - 1], k)[n] = w[k - 1][L] \o <<n>> \o w[k - 1][R]
        BY <3>1 DEF WalkStep, L, R
      <3>3. QED
        BY <1>1, <3>2
    <2>4. \A m \in Under(sub, L) \cup Under(sub, R) : m \in Nodes /\ m # n
      BY <1>3, <2>1, BeforeIs DEF Dir
    <2>5. ASSUME NEW c \in {L, R}
          PROVE  Ordered(w[k - 1][c], Under(sub, c))
      <3>1. CASE c = NULL
        BY <1>2, <2>2, <3>1, OrderedFew DEF Under
      <3>2. CASE c # NULL
        <4>1. c \in X /\ Under(sub, c) = sub[c]
          BY <2>1, <3>2 DEF Under
        <4>2. sub[c] \in SUBSET sub[n] /\ n \in sub[n] /\ n \notin sub[c]
          BY <1>3, <2>1, <2>4, <4>1
        <4>3. Cardinality(sub[c]) \in 0 .. Cardinality(sub[n]) - 1
          BY <1>3, <4>2, SizeIs
        <4>4. Cardinality(sub[n]) \in Nat /\ k \in Nat
          BY <1>4, <2>2
        <4>5. Cardinality(sub[c]) < Cardinality(sub[n]) /\ Cardinality(sub[c]) <= k - 1
          BY <1>6, <4>3, <4>4
        <4>6. c \notin Bad
          BY <1>6, <4>1, <4>5
        <4>7. QED
          BY <2>2, <4>1, <4>5, <4>6
      <3>3. QED
        BY <3>1, <3>2
    <2>6. \A m \in Under(sub, L), i \in {n} : Key[m] < Key[i]
      BY <2>1 DEF Before
    <2>7. Ordered(w[k - 1][L] \o <<n>>, Under(sub, L) \cup {n})
      BY <1>3, <2>5, <2>6, OrderedFew, OrderedConcat
    <2>8. \A m \in Under(sub, L) \cup {n}, i \in Under(sub, R) : Key[m] < Key[i]
      <3>1. \A m \in Under(sub, L), i \in Under(sub, R) : Before("L", m, i)
        BY <1>3, <2>1, <2>4, BeforeIs DEF Dir
      <3>2. QED
        BY <2>1, <3>1 DEF Before
    <2>9. Ordered(w[k - 1][L] \o <<n>> \o w[k - 1][R], Under(sub, L) \cup {n} \cup Under(sub, R))
      BY <2>5, <2>7, <2>8, OrderedConcat
    <2>10. sub[n] = Under(sub, L) \cup {n} \cup Under(sub, R)
      BY <2>1
    <2>11. QED
      BY <2>3, <2>9, <2>10
  <1> HIDE DEF Fine
  <1>7. Bad = {}
    <2> SUFFICES ASSUME Bad # {}
                 PROVE  FALSE
      OBVIOUS
    <2>1. Sizes \subseteq Nat /\ Sizes # {}
      BY <1>4
    <2>2. PICK c \in Sizes : \A e \in Sizes : c <= e
      BY <2>1, LeastNat
    <2>3. PICK n \in Bad : c = Cardinality(sub[n])
      OBVIOUS
    <2>4. \A m \in Bad : ~(Cardinality(sub[m]) < Cardinality(sub[n]))
      <3>1. \A m \in Bad : Cardinality(sub[m]) \in Sizes
        OBVIOUS
      <3>2. \A e \in Sizes : c <= e /\ e \in Nat /\ c \in Nat
        BY <2>1, <2>2
      <3> HIDE DEF Sizes, Bad
      <3>3. QED
        BY <2>3, <3>1, <3>2
    <2>5. PICK k \in Fuel : ~Fine(n, k)
      OBVIOUS
    <2>6. \A m \in X : Cardinality(sub[m]) < Cardinality(sub[n]) => m \notin Bad
      BY <2>4
    <2> HIDE DEF Bad
    <2>7. n \in X
      BY DEF Bad
    <2>8. Cardinality(sub[n]) <= k => Ordered(w[k][n], sub[n])
      BY <1>6, <2>6, <2>7
    <2>9. QED
      BY <2>5, <2>8 DEF Fine
  <1>8. QED
    BY <1>2, <1>7 DEF Fine

-----------------------------------------------------------------------------
(* The pieces hold the content, in order.                                  *)

\* While no loop sets nodes aside nothing hangs below the scratch node.
ScratchIsFree == ~Splaying => \A d \in Dir : tree.child[SCRATCH][d] = NULL

\* The steps of an operation write entries of nodes, and a splay ends by
\* clearing __node.
LEMMA ScratchStays ==
  ASSUME SInv, ScratchIsFree, [Next]_vars
  PROVE  ScratchIsFree'
  <1>1. SCRATCH \notin Nodes /\ SCRATCH \in Rows /\ Nodes \subseteq Rows
    BY RowsAre
  <1>2. tree \in Trees
    BY DEF SInv, Shaped, ShapeIs, Forest
  <1>3. CASE Invoke \/ UNCHANGED vars
    <2>1. tree' = tree
      BY <1>3, InvokeIs DEF Start, vars
    <2>2. ~Splaying' => ~Splaying
      BY <1>3, InvokeIs DEF Start, vars, Splaying
    <2>3. QED
      BY <2>1, <2>2 DEF ScratchIsFree
  <1>4. CASE FindReturn \/ MinMaxReturn \/ NextRight \/ NextDown \/ RemoveAbsent
    <2>1. tree' = tree /\ ~Splaying
      BY <1>4 DEF FindReturn, MinMaxReturn, NextRight, NextDown, RemoveAbsent, Splaying
    <2>2. QED
      BY <2>1 DEF ScratchIsFree
  <1>5. CASE SplayStep \/ RemoveSplit
    <2>1. Splaying'
      BY <1>5 DEF SplayStep, RemoveSplit, Splaying
    <2>2. QED
      BY <2>1 DEF ScratchIsFree
  <1>6. CASE SplayEnd
    <2>1. \A d \in Dir : tree'.child[SCRATCH][d] = NULL
      BY <1>6, EndIs
    <2>2. QED
      BY <2>1 DEF ScratchIsFree
  <1>7. CASE ReturnEmpty
    <2>1. ~Splaying /\ (call.op = "insert" => call.arg \in Nodes)
      BY <1>7 DEF ReturnEmpty, Splaying, SInv, CallInv
    <2>2. \A d \in Dir : tree'.child[SCRATCH][d] = tree.child[SCRATCH][d]
      <3>1. CASE call.op = "insert"
        BY <1>1, <1>2, <1>7, <2>1, <3>1 DEF ReturnEmpty, Trees
      <3>2. CASE call.op # "insert"
        BY <1>7, <3>2 DEF ReturnEmpty
      <3>3. QED
        BY <3>1, <3>2
    <2>3. QED
      BY <2>1, <2>2 DEF ScratchIsFree
  <1>8. CASE InsertRoot
    <2>1. /\ ~Splaying /\ tree' = WithRoot(tree, call.arg, Comp(tree.root))
          /\ pc = "splayed" /\ call.op = "insert" /\ Comp(tree.root) # "here"
      BY <1>8 DEF InsertRoot, WithRoot, Splaying
    <2>2. /\ tree.root \in Nodes /\ call.arg \in Nodes /\ call.arg # tree.root
          /\ \E sub : Standing(tree, sub, content)
      <3>1. call.arg \notin content
        BY <2>1 DEF SInv, CallInv
      <3>2. QED
        BY <2>1, <3>1, SplayedIs
    <2>3. PICK d : d = Comp(tree.root)
      OBVIOUS
    <2>4. d \in Dir
      BY <2>1, <2>3 DEF Comp, Dir
    <2>5. PICK k : k = tree.child[tree.root][d]
      OBVIOUS
    <2>6. k \in N0
      <3>1. PICK sub : Standing(tree, sub, content)
        BY <2>2
      <3>2. Kid(tree, NoSide, tree.root, d) \in content \cup {NULL}
        BY <2>1, <2>4, <3>1, SplayedIs, ForestIs DEF Standing
      <3>3. Kid(tree, NoSide, tree.root, d) = k
        BY <1>1, <2>2, <2>4, <2>5, OppIs DEF Kid, NoSide
      <3>4. QED
        BY <2>1, <3>2, <3>3, SplayedIs DEF N0
    <2>7. \A e \in Dir : tree'.child[SCRATCH][e] = tree.child[SCRATCH][e]
      <3>1. PICK t, a, r, w : t = tree /\ a = call.arg /\ r = tree.root /\ w = tree'
        OBVIOUS
      <3>2. /\ t \in Trees /\ a \in Nodes /\ r \in Nodes /\ t.root = r /\ a # r
            /\ t.child[r][d] = k /\ w = WithRoot(t, a, d)
        BY <1>2, <2>1, <2>2, <2>3, <2>5, <3>1
      <3>3. \A e \in Dir : w.child[SCRATCH][e] = t.child[SCRATCH][e]
        BY <1>1, <2>4, <2>6, <3>2, WithRootIs
      <3>4. QED
        BY <3>1, <3>3
    <2>8. QED
      BY <2>1, <2>7 DEF ScratchIsFree
  <1>9. CASE RemoveRoot
    <2>1. ~Splaying /\ pc = "splayed"
      BY <1>9 DEF RemoveRoot, Splaying
    <2>2. tree.root \in Nodes
      BY <2>1, SplayedIs
    <2>3. \A d \in Dir : tree'.child[SCRATCH][d] = tree.child[SCRATCH][d]
      BY <1>1, <1>2, <1>9, <2>2 DEF RemoveRoot, WithoutRoot, Trees
    <2>4. QED
      BY <2>1, <2>3 DEF ScratchIsFree
  <1>10. CASE RemoveJoin
    <2>1. ~Splaying /\ tree' = SetChild(tree, tree.root, "R", tmp)
      BY <1>10 DEF RemoveJoin, Splaying
    <2>2. tree.root \in Nodes /\ tmp \in Links
      <3>1. PICK sub \in [Nodes -> SUBSET Nodes] : ShapeIs(sub)
        BY DEF SInv, Shaped
      <3>2. pc = "resplayed"
        BY <1>10 DEF RemoveJoin
      <3>3. /\ Expected \subseteq Nodes /\ tmp \in Expected \cup {NULL}
            /\ tree.root \in Expected \cup {NULL} /\ tree.root # NULL
        BY <2>1, <3>1, <3>2 DEF ShapeIs, Forest, Whole, ReadyToJoin
      <3>4. QED
        BY <3>3, RowsAre
    <2>3. \A d \in Dir : tree'.child[SCRATCH][d] = tree.child[SCRATCH][d]
      <3>1. tree.root \in Rows /\ tree.root # SCRATCH /\ "R" \in Dir
        BY <1>1, <2>2 DEF Dir
      <3>2. PICK r : r = tree.root
        OBVIOUS
      <3>3. r \in Rows /\ r # SCRATCH
        BY <3>1, <3>2
      <3>4. \A d \in Dir : SetChild(tree, r, "R", tmp).child[SCRATCH][d] = tree.child[SCRATCH][d]
        BY <1>1, <1>2, <2>2, <3>1, <3>3, SetChildIs
      <3>5. QED
        BY <2>1, <3>2, <3>4
    <2>4. QED
      BY <2>1, <2>3 DEF ScratchIsFree
  <1>11. QED
    BY <1>3, <1>4, <1>5, <1>6, <1>7, <1>8, <1>9, <1>10 DEF Next, Work

\* InOrder(n) has the nodes of the tree below n from left to right.
LEMMA InOrderFinds ==
  ASSUME NEW sub, NEW X, Forest(tree, side, sub, X), Splaying \/ side = NoSide,
         NEW n \in X \cup {NULL}
  PROVE  Ordered(InOrder(n), Under(sub, n))
  <1>1. PICK w : IsWalk(w) /\ InOrder(n) = w[Cardinality(Nodes)][n]
    BY WalkExists, InOrderIsWalk
  <1>2. Cardinality(Nodes) \in Fuel
    BY FiniteAssumption, FS_CardinalityType DEF Fuel
  <1>3. CASE n = NULL
    <2>1. InOrder(n) = <<>>
      BY <1>1, <1>2, <1>3, WalkFinds
    <2>2. QED
      BY <1>3, <2>1, OrderedFew DEF Under
  <1>4. CASE n # NULL
    <2>1. n \in X /\ Under(sub, n) = sub[n]
      BY <1>4 DEF Under
    <2>2. sub[n] \in SUBSET Nodes
      BY <2>1 DEF Forest
    <2>3. Cardinality(sub[n]) <= Cardinality(Nodes)
      BY <2>2, FiniteAssumption, FS_Subset
    <2>4. QED
      BY <1>1, <1>2, <2>1, <2>3, WalkFinds
  <1>5. QED
    BY <1>3, <1>4

\* Whatever a splay has taken apart, the pieces together have the nodes that
\* the tree must hold, from left to right.
LEMMA PiecesAre ==
  ASSUME SInv, ScratchIsFree
  PROVE  Ordered(Pieces, Expected)
  <1>1. PICK sub \in [Nodes -> SUBSET Nodes] : ShapeIs(sub)
    BY DEF SInv, Shaped
  <1>2. /\ Forest(tree, side, sub, Expected) /\ tmp \in Expected \cup {NULL}
        /\ Splaying => Parted(tree, side, sub, Expected, Apart(sub))
        /\ ~Splaying => Whole(sub)
        /\ pc = "resplayed" => ReadyToJoin(sub)
    BY <1>1 DEF ShapeIs
  <1>3. Splaying \/ side = NoSide
    BY <1>2 DEF Whole
  <1>4. PICK X : X = Expected
    OBVIOUS
  <1>5. /\ X \in SUBSET Nodes /\ NULL \notin X /\ "L" \in Dir /\ "R" \in Dir
        /\ Opp("L") = "R" /\ Opp("R") = "L"
    BY <1>2, <1>4, RowsAre DEF Forest, Dir, Opp
  <1>6. \A n \in X \cup {NULL} : Under(sub, n) \subseteq X
    <2>1. \A n \in X : \A m \in sub[n] : m \in X
      BY <1>2, <1>4, <1>5, ForestIs
    <2>2. QED
      BY <2>1 DEF Under
  <1>7. PICK T : T = Under(sub, tmp)
    OBVIOUS
  <1>8. Ordered(InOrder(tmp), T) /\ T \subseteq X
    BY <1>2, <1>3, <1>4, <1>6, <1>7, InOrderFinds
  <1>9. CASE Splaying
    <2>1. PICK less, root, more :
            less = Link(SCRATCH, "R") /\ root = tree.root /\ more = Link(SCRATCH, "L")
      OBVIOUS
    <2>2. less = Kid(tree, side, SCRATCH, "R") /\ more = Kid(tree, side, SCRATCH, "L")
      BY <1>5, <1>9, <2>1, KidsAre
    <2>3. Parted(tree, side, sub, X, T)
      BY <1>2, <1>4, <1>7, <1>9 DEF Apart
    <2>4. PICK A, M, B : A = Under(sub, less) /\ M = sub[root] /\ B = Under(sub, more)
      OBVIOUS
    <2>5. A = Piece(tree, side, sub, "L") /\ B = Piece(tree, side, sub, "R")
      BY <1>5, <2>2, <2>4 DEF Piece
    <2>6. root \in X /\ less \in X \cup {NULL} /\ more \in X \cup {NULL}
      <3>1. /\ Kid(tree, side, SCRATCH, "R") \in X \cup {NULL}
            /\ Kid(tree, side, SCRATCH, "L") \in X \cup {NULL}
        BY <1>5, <2>3 DEF Parted
      <3>2. QED
        BY <2>1, <2>2, <2>3, <3>1 DEF Parted
    <2>7. Under(sub, root) = M /\ root \in M
      <3>1. root # NULL
        BY <1>5, <2>6
      <3>2. root \in sub[root]
        BY <1>2, <1>4, <1>5, <2>6, ForestIs
      <3>3. QED
        BY <2>4, <3>1, <3>2 DEF Under
    <2>8. Ordered(InOrder(less), A) /\ Ordered(InOrder(root), M) /\ Ordered(InOrder(more), B)
      BY <1>2, <1>3, <1>4, <2>4, <2>6, <2>7, InOrderFinds
    <2>9. A \subseteq X /\ M \subseteq X /\ B \subseteq X
      BY <1>6, <2>4, <2>6, <2>7
    <2>10. /\ \A m \in A, k \in M : Key[m] < Key[k]
           /\ \A m \in B, k \in M : Key[k] < Key[m]
      <3>1. /\ \A m \in A, k \in M : Before("L", m, k)
            /\ \A m \in B, k \in M : Before("R", m, k)
        BY <1>5, <2>1, <2>3, <2>4, <2>5 DEF Parted
      <3>2. QED
        BY <3>1 DEF Before
    <2>11. \A m \in A, k \in B : Key[m] < Key[k]
      <3>1. \A m \in A, k \in B : /\ Key[m] < Key[root] /\ Key[root] < Key[k]
                                   /\ Key[m] \in Int /\ Key[k] \in Int /\ Key[root] \in Int
        BY <1>5, <2>6, <2>7, <2>9, <2>10, KeyAssumption
      <3>2. QED
        BY <3>1
    <2>12. \A m \in A \cup M \cup B, k \in T : Key[m] < Key[k]
      <3>1. \A m \in A \cup M \cup B : m \notin T /\ m \in X
        BY <1>5, <2>1, <2>3, <2>4, <2>5, <2>9 DEF Parted
      <3>2. \A m \in X, k \in T : m \in T \/ Before("L", m, k)
        BY <2>3 DEF Parted
      <3>3. QED
        BY <3>1, <3>2 DEF Before
    <2>13. A \cup M \cup B \cup T = X
      <3>1. \A n \in X : n \in M \/ n \in T \/ n \in A \/ n \in B
        BY <2>1, <2>3, <2>4, <2>5 DEF Parted, Dir
      <3>2. QED
        BY <1>8, <2>9, <3>1
    <2>14. Ordered(InOrder(less) \o InOrder(root), A \cup M)
      BY <2>8, <2>10, OrderedConcat
    <2>15. Ordered(InOrder(less) \o InOrder(root) \o InOrder(more), A \cup M \cup B)
      <3>1. \A m \in A \cup M, k \in B : Key[m] < Key[k]
        BY <2>10, <2>11
      <3>2. QED
        BY <2>8, <2>14, <3>1, OrderedConcat
    <2>16. Ordered(InOrder(less) \o InOrder(root) \o InOrder(more) \o InOrder(tmp), X)
      <3>1. Ordered(InOrder(less) \o InOrder(root) \o InOrder(more) \o InOrder(tmp),
                    A \cup M \cup B \cup T)
        BY <1>8, <2>12, <2>15, OrderedConcat
      <3>2. QED
        BY <2>13, <3>1
    <2>17. QED
      BY <1>4, <2>1, <2>16 DEF Pieces
  <1>10. CASE ~Splaying
    <2>1. Whole(sub) /\ Link(SCRATCH, "L") = NULL /\ Link(SCRATCH, "R") = NULL
      BY <1>2, <1>5, <1>10 DEF ScratchIsFree, Link, Open
    <2>2. PICK root, M : root = tree.root /\ M = Under(sub, root)
      OBVIOUS
    <2>3. root \in X \cup {NULL} /\ \A n \in X : n \in M \/ n \in T
      BY <1>4, <1>7, <2>1, <2>2 DEF Whole, Apart
    <2>4. /\ Ordered(InOrder(root), M) /\ M \subseteq X
          /\ Ordered(InOrder(NULL), {})
      <3>1. Ordered(InOrder(NULL), Under(sub, NULL))
        BY <1>2, <1>3, InOrderFinds
      <3>2. QED
        BY <1>2, <1>3, <1>4, <1>6, <2>2, <2>3, <3>1, InOrderFinds DEF Under
    <2>5. \A m \in M, k \in T : Key[m] < Key[k]
      <3>1. CASE pc = "resplayed"
        <4>1. \A m \in M, k \in T : Before("L", m, k)
          BY <1>2, <1>7, <2>2, <3>1 DEF ReadyToJoin, Apart, Under
        <4>2. QED
          BY <4>1 DEF Before
      <3>2. CASE pc # "resplayed"
        <4>1. tmp = NULL
          BY <1>10, <3>2 DEF SInv, CallInv, Splaying
        <4>2. T = {}
          BY <1>7, <4>1 DEF Under
        <4>3. QED
          BY <4>2
      <3>3. QED
        BY <3>1, <3>2
    <2>6. M \cup T = X
      BY <1>8, <2>3, <2>4
    <2>7. Ordered(InOrder(NULL) \o InOrder(root), {} \cup M)
      BY <2>4, OrderedConcat
    <2>8. Ordered(InOrder(NULL) \o InOrder(root) \o InOrder(NULL), {} \cup M \cup {})
      BY <2>4, <2>7, OrderedConcat
    <2>9. Ordered(InOrder(NULL) \o InOrder(root) \o InOrder(NULL) \o InOrder(tmp), X)
      <3>1. {} \cup M \cup {} = M
        OBVIOUS
      <3>2. Ordered(InOrder(NULL) \o InOrder(root) \o InOrder(NULL), M)
        BY <2>8, <3>1
      <3>3. Ordered(InOrder(NULL) \o InOrder(root) \o InOrder(NULL) \o InOrder(tmp), M \cup T)
        BY <1>8, <2>5, <3>2, OrderedConcat
      <3>4. QED
        BY <2>6, <3>3
    <2>10. QED
      BY <1>4, <2>1, <2>2, <2>9 DEF Pieces
  <1>11. QED
    BY <1>9, <1>10

\* What Ordered says of the pieces is what SearchOrder and HoldsContent say.
LEMMA InvIsWellFormed ==
  SInv /\ ScratchIsFree => HoldsContent /\ SearchOrder
  <1> SUFFICES ASSUME SInv, ScratchIsFree
               PROVE  HoldsContent /\ SearchOrder
    OBVIOUS
  <1>1. PICK s : s = Pieces
    OBVIOUS
  <1>2. /\ s \in Seq(Nodes) /\ ToSet(s) = Expected
        /\ \A i, j \in 1 .. Len(s) : i < j => Key[s[i]] < Key[s[j]]
    BY <1>1, PiecesAre DEF Ordered
  <1>3. HoldsContent
    BY <1>1, <1>2 DEF HoldsContent
  <1>4. SearchOrder
    <2>1. Len(s) \in Nat
      BY <1>2
    <2>2. \A i \in 1 .. Len(s) - 1 : i \in 1 .. Len(s) /\ i + 1 \in 1 .. Len(s) /\ i < i + 1
      BY <2>1
    <2>3. \A i \in 1 .. Len(s) - 1 : Key[s[i]] < Key[s[i + 1]]
      BY <1>2, <2>2
    <2>4. QED
      BY <1>1, <2>3 DEF SearchOrder
  <1>5. QED
    BY <1>3, <1>4

\* In every state, while a splay has the tree in pieces as much as between the
\* calls, walks down the links of the head, of __node and of the tree kept
\* apart meet just the nodes that were inserted and not removed, each once, in
\* the order of their keys.
THEOREM TreeWellFormed == Spec => []WellFormed
  <1>1. Init => ScratchIsFree
    BY RowsAre DEF Init, ScratchIsFree
  <1>2. SInv /\ ScratchIsFree /\ [Next]_vars => ScratchIsFree'
    BY ScratchStays
  <1>3. TypeOK /\ SInv /\ ScratchIsFree => WellFormed
    BY InvIsWellFormed DEF WellFormed
  <1>4. QED
    BY <1>1, <1>2, <1>3, SplayTreeInvariant, TypesStay, PTL DEF Spec

=============================================================================
