------------------------------ MODULE OonfAvl ------------------------------
(***************************************************************************)
(* The ordered containers every table of the RFC 5444 library hangs on     *)
(* (oonf_api/common): an AVL tree whose nodes are also on a doubly linked  *)
(* list in key order, with equal keys chained as "followers" that are on   *)
(* the list but not in the tree.  The model keeps every pointer.           *)
(*                                                                         *)
(* Left and right are treated by one definition each: a side is -1 or 1,   *)
(* child[side] and link[side] are the pointers left/prev and right/next.   *)
(***************************************************************************)
EXTENDS Integers, Sequences, SequencesExt, FiniteSets

CONSTANTS Node,        \* avl_node structures their owner may add
          NULL, HEAD,  \* the null pointer; the list head inside the tree
          KeyOf,       \* the key each node points to
          Probe,       \* keys looked up
          AllowDups,   \* tree->allow_dups
          Comp(_, _)   \* tree->comp: negative, zero or positive

Key == {KeyOf[n] : n \in Node} \cup Probe

ASSUME AvlAssumption ==
  /\ IsFiniteSet(Node)
  /\ NULL \notin Node \cup {HEAD} /\ HEAD \notin Node
  /\ AllowDups \in BOOLEAN

\* What a tree asks of its comparator: a sign, opposite when the arguments are
\* exchanged, and an order.
ASSUME CompAssumption ==
  /\ \A j, k \in Key : Comp(j, k) \in Int /\ (Comp(j, k) < 0 <=> Comp(k, j) > 0)
  /\ \A i, j, k \in Key : Comp(i, j) <= 0 /\ Comp(j, k) <= 0 => Comp(i, k) <= 0

VARIABLE tree
vars == <<tree>>

Left  == -1
Right == 1
Side  == {Left, Right}
Larger(a, b)  == IF a > b THEN a ELSE b

\* A write through a pointer that the code has tested for NULL.
Put(f, n, v) == IF n = NULL THEN f ELSE [f EXCEPT ![n] = v]

\* A loop, or a function that ends in a call of itself: Round until nothing
\* changes any more.  No loop here makes more rounds than there are nodes.
Repeat(Round(_), start) ==
  LET after[i \in Nat] == IF i = 0 THEN start ELSE Round(after[i - 1])
  IN  after[Cardinality(Node)]

-----------------------------------------------------------------------------
(* list.h *)

AddBetween(t, prev, next, n) ==
  [t EXCEPT !.link[Right] = [@ EXCEPT ![n] = next, ![prev] = n],
            !.link[Left]  = [@ EXCEPT ![n] = prev, ![next] = n]]

AddBefore(t, pos, n) == AddBetween(t, t.link[Left][pos], pos, n)
AddAfter(t, pos, n)  == AddBetween(t, pos, t.link[Right][pos], n)

ListRemove(t, n) ==
  LET p == t.link[Left][n]
      x == t.link[Right][n]
  IN  [t EXCEPT !.link[Right] = [@ EXCEPT ![p] = x, ![n] = NULL],
                !.link[Left]  = [@ EXCEPT ![x] = p, ![n] = NULL]]

IsAdded(t, n) == t.link[Left][n] # NULL /\ t.link[Right][n] # NULL
IsLast(t, n, side) == t.link[side][n] = HEAD

-----------------------------------------------------------------------------
(* Rotations.  Lift brings node's child on `side` above node:              *)
(* _avl_rotate_right lifts the left child, _avl_rotate_left the right one. *)

SideOf(t, node) == IF t.child[Left][t.parent[node]] = node THEN Left ELSE Right

\* What node's parent, or the root, points to instead of node.
Hang(t, parent, node, new) ==
  IF parent = NULL THEN [t EXCEPT !.root = new]
  ELSE [t EXCEPT !.child[SideOf(t, node)][parent] = new]

\* Variant: a rotation counted as one level whatever the child's balance.
LoweredByOne(b, side, c) == b - side

\* A balance after losing a level on `side`, and as many as c leans that way.
Lowered(b, side, c) == b - side - side * Larger(side * c, 0)

Lift(t, node, side) ==
  LET c     == t.child[side][node]
      inner == t.child[-side][c]
      hung  == Hang(t, t.parent[node], node, c)
      nb    == Lowered(t.balance[node], side, t.balance[c])
      cb    == Lowered(t.balance[c], side, -nb)
  IN  [hung EXCEPT
        !.parent       = Put([@ EXCEPT ![c] = t.parent[node], ![node] = c], inner, node),
        !.child[side]  = [@ EXCEPT ![node] = inner],
        !.child[-side] = [@ EXCEPT ![c] = node],
        !.balance      = [@ EXCEPT ![node] = nb, ![c] = cb]]

-----------------------------------------------------------------------------
(* Lookup *)

FindRound(t, key, node) ==
  LET diff == Comp(key, KeyOf[node])
      next == t.child[IF diff < 0 THEN Left ELSE Right][node]
  IN  IF diff = 0 \/ next = NULL THEN node ELSE next

FindRec(t, key) == Repeat(LAMBDA node : FindRound(t, key, node), t.root)

Find(t, key) ==
  IF t.root = NULL THEN NULL
  ELSE LET n == FindRec(t, key)
       IN  IF Comp(key, KeyOf[n]) = 0 THEN n ELSE NULL

\* First towards `side` until key is not on that side of the node ...
RetreatRound(t, key, n, side) ==
  IF n = NULL \/ side * Comp(key, KeyOf[n]) <= 0 THEN n
  ELSE IF IsLast(t, n, side) THEN NULL
  ELSE t.link[side][n]

Retreat(t, key, n, side) == Repeat(LAMBDA m : RetreatRound(t, key, m, side), n)

\* Variant: the search ends there, in front of or behind equal keys.
AdvanceNot(t, key, n, side) == n

\* ... then the other way as long as it stays so.
AdvanceRound(t, key, n, side) ==
  IF IsLast(t, n, -side) \/ side * Comp(key, KeyOf[t.link[-side][n]]) > 0 THEN n
  ELSE t.link[-side][n]

Advance(t, key, n, side) == Repeat(LAMBDA m : AdvanceRound(t, key, m, side), n)

\* avl_find_lessequal is Nearest(.., Left), avl_find_greaterequal Nearest(.., Right).
Nearest(t, key, side) ==
  IF t.root = NULL THEN NULL
  ELSE LET n == Retreat(t, key, FindRec(t, key), side)
       IN  IF n = NULL THEN NULL ELSE Advance(t, key, n, side)

\* Variant: the parent's followers are not skipped.
FindLastNot(t, last) == last

FindLast(t, last) ==
  LET Round(n) == IF IsLast(t, n, Right) \/ ~t.follower[t.link[Right][n]]
                  THEN n ELSE t.link[Right][n]
  IN  Repeat(Round, last)

-----------------------------------------------------------------------------
(* Insertion *)

\* Where the rebalancing stands: the node whose parent is to be told that the
\* node's subtree has changed its height, or NULL when nothing is left to do.
Climb(t, node) == [tree |-> t, node |-> node]

PostInsertRound(s) ==
  LET t    == s.tree
      node == s.node
      p    == t.parent[node]
      side == SideOf(t, node)
      up   == [t EXCEPT !.balance[p] = @ + side]
      bent == Lift(up, node, -side)
  IN  IF node = NULL THEN s
      ELSE IF p = NULL THEN Climb(t, NULL)
      ELSE IF up.balance[p] = 0 THEN Climb(up, NULL)
      ELSE IF up.balance[p] = side THEN Climb(up, p)
      ELSE IF up.balance[node] = side THEN Climb(Lift(up, p, side), NULL)
      ELSE Climb(Lift(bent, bent.parent[bent.parent[node]], side), NULL)

PostInsert(t, node) == Repeat(PostInsertRound, Climb(t, node)).tree

\* The new node's list place: before its parent, or after the parent's followers.
\* A parent that leans to one side has its room on the other.
Attach(t, node, new, diff) ==
  LET side   == IF t.balance[node] # 0 THEN -t.balance[node]
                ELSE IF diff < 0 THEN Left ELSE Right
      listed == IF side = Left THEN AddBefore(t, node, new)
                               ELSE AddAfter(t, FindLast(t, node), new)
      linked == [listed EXCEPT !.count = @ + 1, !.parent[new] = node,
                               !.child[side][node] = new, !.balance[node] = @ + side]
  IN  IF t.balance[node] # 0 THEN linked ELSE PostInsert(linked, node)

Cleared(t, new) ==
  [t EXCEPT !.parent[new] = NULL, !.child[Left][new] = NULL, !.child[Right][new] = NULL,
            !.balance[new] = 0, !.follower[new] = FALSE]

\* avl_insert leaves the list alone when it returns -1.
Inserted(t, new) ==
  LET clean == Cleared(t, new)
      node  == FindRec(clean, KeyOf[new])
      diff  == Comp(KeyOf[new], KeyOf[node])
  IN  CASE t.root = NULL -> [AddAfter(clean, HEAD, new) EXCEPT !.root = new, !.count = 1]
        [] t.root # NULL /\ diff = 0 /\ ~AllowDups -> clean
        [] t.root # NULL /\ diff = 0 /\ AllowDups ->
             [AddAfter(clean, node, new) EXCEPT !.follower[new] = TRUE, !.count = @ + 1]
        [] OTHER -> Attach(clean, node, new, diff)

-----------------------------------------------------------------------------
(* Removal *)

\* p's subtree on `side` has lost a level.
Shrunk(t, p, side) ==
  LET down    == [t EXCEPT !.balance[p] = @ - side]
      sibling == down.child[-side][p]
      lifted  == Lift(down, p, -side)
      bent    == Lift(Lift(down, sibling, side), p, -side)
  IN  IF down.balance[p] = 0 THEN Climb(down, p)
      ELSE IF down.balance[p] = -side THEN Climb(down, NULL)
      ELSE IF down.balance[sibling] = 0 THEN Climb(lifted, NULL)
      ELSE IF down.balance[sibling] = -side THEN Climb(lifted, lifted.parent[p])
      ELSE Climb(bent, bent.parent[p])

PostRemoveRound(s) ==
  IF s.node = NULL THEN s
  ELSE IF s.tree.parent[s.node] = NULL THEN Climb(s.tree, NULL)
  ELSE Shrunk(s.tree, s.tree.parent[s.node], SideOf(s.tree, s.node))

PostRemove(s) == Repeat(PostRemoveRound, s).tree

\* new takes node's place among its parent and children.
Replace(t, node, new) ==
  LET p   == t.parent[node]
      kid == [s \in Side |-> t.child[s][node]]
      in  == [t EXCEPT !.balance[new] = t.balance[node], !.parent[new] = p,
                       !.child = [s \in Side |-> [@[s] EXCEPT ![new] = kid[s]]]]
      led == [in EXCEPT !.parent = Put(Put(@, kid[Left], new), kid[Right], new)]
  IN  Hang(led, p, node, new)

LocalMin(t, node) ==
  LET Round(n) == IF t.child[Left][n] = NULL THEN n ELSE t.child[Left][n]
  IN  Repeat(Round, node)

\* _avl_remove_worker for a node with at most one child.
Unhook(t, node) ==
  LET p    == t.parent[node]
      kids == {t.child[s][node] : s \in Side} \ {NULL}
      only == CHOOSE c \in kids : TRUE
  IN  CASE kids = {} /\ p = NULL -> [t EXCEPT !.root = NULL]
        [] kids = {} /\ p # NULL ->
             PostRemove(Shrunk(Hang(t, p, node, NULL), p, SideOf(t, node)))
        [] OTHER -> PostRemove(Climb([Hang(t, p, node, only) EXCEPT !.parent[only] = p], only))

\* It calls itself for the next larger node, which has no left child.
RemoveWorker(t, node) ==
  LET min == LocalMin(t, t.child[Right][node])
  IN  IF \A s \in Side : t.child[s][node] # NULL
      THEN Replace(Unhook(t, min), node, min)
      ELSE Unhook(t, node)

\* A removed node keeps its old tree pointers; nothing reads them before
\* avl_insert clears them, so the model forgets them here.
Removed(t, node) ==
  LET next == t.link[Right][node]
      kept == CASE t.follower[node] -> t
                [] ~t.follower[node] /\ AllowDups /\ next # HEAD /\ t.follower[next] ->
                     Replace([t EXCEPT !.follower[next] = FALSE], node, next)
                [] OTHER -> RemoveWorker(t, node)
  IN  [Cleared(ListRemove(kept, node), node) EXCEPT !.count = @ - 1]

-----------------------------------------------------------------------------
AllNull == [n \in Node |-> NULL]

\* avl_init on nodes whose memory is zero.
EmptyTree ==
  [root |-> NULL, count |-> 0, parent |-> AllNull,
   child |-> [s \in Side |-> AllNull],
   link |-> [s \in Side |-> [n \in Node \cup {HEAD} |-> IF n = HEAD THEN HEAD ELSE NULL]],
   balance |-> [n \in Node |-> 0], follower |-> [n \in Node |-> FALSE]]

Init == tree = EmptyTree

\* Every caller inserts a node that is not in the tree and removes one that is.
AvlInsert(n) == ~IsAdded(tree, n) /\ tree' = Inserted(tree, n)
AvlRemove(n) == IsAdded(tree, n) /\ tree' = Removed(tree, n)

\* avl_remove_all_elements, its body freeing the element.
AvlRemoveAll == tree.count > 0 /\ tree' = EmptyTree

Next == \/ \E n \in Node : AvlInsert(n) \/ AvlRemove(n)
        \/ AvlRemoveAll

Spec == Init /\ [][Next]_vars

-----------------------------------------------------------------------------
(* What the pointers stand for *)

Elements(t) ==
  LET nth[i \in Nat] == IF i = 0 THEN HEAD ELSE t.link[Right][nth[i - 1]]
  IN  [i \in 1 .. t.count |-> nth[i]]

TreeNodes(t) == {n \in Node : IsAdded(t, n) /\ ~t.follower[n]}

Height(t) ==
  LET h[n \in TreeNodes(t) \cup {NULL}] ==
        IF n = NULL THEN 0 ELSE 1 + Larger(h[t.child[Left][n]], h[t.child[Right][n]])
  IN  h

Below(t) ==
  LET b[n \in TreeNodes(t) \cup {NULL}] ==
        IF n = NULL THEN {} ELSE {n} \cup b[t.child[Left][n]] \cup b[t.child[Right][n]]
  IN  b

\* The list can be walked both ways and holds the nodes that were added, sorted,
\* each once; a follower stands behind a node of the same key, no other node does.
ListWellFormed ==
  LET s == Elements(tree)
  IN  /\ IsInjective(s)
      /\ ToSet(s) = {n \in Node : IsAdded(tree, n)}
      /\ \A n \in ToSet(s) \cup {HEAD}, d \in Side : tree.link[-d][tree.link[d][n]] = n
      /\ \A i \in 2 .. Len(s) : Comp(KeyOf[s[i - 1]], KeyOf[s[i]]) <= 0
      /\ \A i \in DOMAIN s : tree.follower[s[i]] <=>
            i > 1 /\ Comp(KeyOf[s[i - 1]], KeyOf[s[i]]) = 0

\* The nodes that are not followers form one search tree, every child of which
\* knows its parent.  The balance a node stores is the difference of its
\* subtrees' heights, and is never more than one.
TreeWellFormed ==
  LET below  == Below(tree)
      height == Height(tree)
  IN  /\ below[tree.root] = TreeNodes(tree)
      /\ tree.root # NULL => tree.parent[tree.root] = NULL
      /\ \A n \in TreeNodes(tree) :
           /\ tree.balance[n] \in -1 .. 1
           /\ tree.balance[n] = height[tree.child[Right][n]] - height[tree.child[Left][n]]
           /\ \A d \in Side :
                /\ tree.child[d][n] # NULL => tree.parent[tree.child[d][n]] = n
                /\ \A m \in below[tree.child[d][n]] : d * Comp(KeyOf[m], KeyOf[n]) > 0

\* What every function of avl.c relies on and restores (avl.c:214 avl_insert, :290
\* avl_remove, the rotations from :373).
WellFormed == ListWellFormed /\ TreeWellFormed

\* avl_find returns the first element with the key; avl_find_lessequal the last
\* element not above it, avl_find_greaterequal the first not below it, followers
\* and missing keys included (avl.c:84, :104, :147).
LookupsAgree ==
  LET s    == Elements(tree)
      At(i) == IF i = 0 THEN NULL ELSE s[i]
      Highest(S) == At(IF S = {} THEN 0 ELSE CHOOSE i \in S : \A j \in S : j <= i)
      Lowest(S)  == At(IF S = {} THEN 0 ELSE CHOOSE i \in S : \A j \in S : i <= j)
  IN  \A k \in Probe :
        LET Is(i) == Comp(KeyOf[s[i]], k)
        IN  /\ Find(tree, k) = Lowest({i \in DOMAIN s : Is(i) = 0})
            /\ Nearest(tree, k, Left) = Highest({i \in DOMAIN s : Is(i) <= 0})
            /\ Nearest(tree, k, Right) = Lowest({i \in DOMAIN s : Is(i) >= 0})

\* Every insertion and removal, rebalancing and followers included, does to the
\* element order what OonfAvlSpec says and nothing else.
Ordered == INSTANCE OonfAvlSpec WITH order <- Elements(tree)
KeepsOrder == Ordered!OrderSpec

=============================================================================
