---------------------------- MODULE OonfAvlProofs ----------------------------
(***************************************************************************)
(* Proofs about the AVL tree, for every set of nodes, every assignment of  *)
(* keys and every comparator that orders them.                             *)
(***************************************************************************)
EXTENDS OonfAvl, FiniteSetTheorems, SequenceTheorems, WellFoundedInduction, TLAPS

-----------------------------------------------------------------------------
(* Numbers, and what a loop computes *)

(* A non-empty set of numbers has a smallest one.                           *)
LEMMA SmallestExists ==
    ASSUME NEW S, S \subseteq Nat, S # {}
    PROVE  \E x \in S : \A y \in S : x <= y
  <1> DEFINE Less == {p \in Nat \X Nat : p[1] < p[2]}
  <1>1. IsWellFoundedOn(Less, Nat)
    <2>1. Less = OpToRel(<, Nat)
      BY Zenon DEF OpToRel
    <2> QED BY <2>1, NatLessThanWellFounded, Zenon
  <1>2. \E x \in S : \A y \in S : ~(<<y, x>> \in Less)
    BY <1>1, WFMin, Zenon
  <1>3. \A x, y \in Nat : <<y, x>> \in Less <=> y < x
    OBVIOUS
  <1> HIDE DEF Less
  <1>4. PICK x \in S : \A y \in S : ~(<<y, x>> \in Less)
    BY <1>2, Zenon
  <1>5. \A y \in S : ~(y < x)
    BY <1>3, <1>4, Zenon
  <1>6. \A y \in S : x <= y
    BY <1>5
  <1> QED BY <1>6

(* Induction: a set of numbers that holds 0 and every successor is Nat.     *)
LEMMA Induction ==
    ASSUME NEW P, P \subseteq Nat, 0 \in P, \A i \in P : i + 1 \in P
    PROVE  P = Nat
  <1> DEFINE Bad == Nat \ P
  <1> SUFFICES ASSUME Bad # {} PROVE FALSE
    OBVIOUS
  <1>1. PICK n \in Bad : \A m \in Bad : n <= m
    <2>1. Bad \subseteq Nat
      OBVIOUS
    <2> HIDE DEF Bad
    <2> QED BY <2>1, SmallestExists
  <1>2. n \in Nat /\ n # 0 /\ n - 1 \in Nat
    BY <1>1
  <1>3. n - 1 \in P
    BY <1>1, <1>2
  <1>4. (n - 1) + 1 \in P
    BY <1>3
  <1> QED BY <1>1, <1>2, <1>4

(* A function that is iterated has its iterates: Q[i] is what is known of   *)
(* the i-th.                                                                *)
Keeps(St, g, Q, s0) ==
    /\ Q \in [Nat -> SUBSET St] /\ s0 \in Q[0]
    /\ \A i \in Nat : \A s \in Q[i] : g[s] \in Q[i + 1]

Iterates(f, g, Q, s0) ==
    /\ f = [i \in Nat |-> f[i]]
    /\ \A i \in Nat : f[i] = (IF i = 0 THEN s0 ELSE g[f[i - 1]]) /\ f[i] \in Q[i]

LEMMA Iteration ==
    ASSUME NEW St, NEW g, NEW Q, NEW s0, Keeps(St, g, Q, s0)
    PROVE  \E f : Iterates(f, g, Q, s0)
  <1>0. /\ Q \in [Nat -> SUBSET St] /\ s0 \in Q[0]
        /\ \A i \in Nat : \A s \in Q[i] : g[s] \in Q[i + 1]
    BY DEF Keeps
  <1> DEFINE Start(n) == {f \in [0..n -> St] : /\ f[0] = s0 /\ \A i \in 1..n : f[i] = g[f[i - 1]]
                                               /\ \A i \in 0..n : f[i] \in Q[i]}
             P == {n \in Nat : Start(n) # {}}
  <1>1. P = Nat
    <2>1. 0 \in P
      <3>1. [i \in 0..0 |-> s0] \in Start(0)
        BY <1>0
      <3> QED BY <3>1
    <2>2. ASSUME NEW n \in P PROVE n + 1 \in P
      <3>1. PICK f : f \in Start(n)
        OBVIOUS
      <3> DEFINE h == [i \in 0..(n+1) |-> IF i = n + 1 THEN g[f[n]] ELSE f[i]]
      <3>2. g[f[n]] \in Q[n + 1] /\ Q[n + 1] \subseteq St
        BY <1>0, <3>1
      <3>3. h \in [0..(n+1) -> St]
        BY <3>1, <3>2
      <3>4. h[0] = s0
        BY <3>1
      <3>5. \A i \in 1..(n+1) : h[i] = g[h[i - 1]]
        BY <3>1
      <3>6. \A i \in 0..(n+1) : h[i] \in Q[i]
        BY <3>1, <3>2
      <3>7. h \in Start(n + 1)
        BY <3>3, <3>4, <3>5, <3>6
      <3> HIDE DEF Start, h
      <3> QED BY <3>7
    <2>3. P \subseteq Nat
      OBVIOUS
    <2> HIDE DEF P
    <2> QED BY <2>1, <2>2, <2>3, Induction
  <1>2. ASSUME NEW n \in Nat, NEW m \in Nat, n <= m, NEW f \in Start(n), NEW h \in Start(m)
        PROVE  \A i \in 0..n : f[i] = h[i]
    <2> DEFINE E == {i \in Nat : i <= n => f[i] = h[i]}
    <2>1. 0 \in E
      OBVIOUS
    <2>2. ASSUME NEW i \in E PROVE i + 1 \in E
      <3>1. i \in Nat /\ (i + 1 <= n => i + 1 \in 1..n /\ i + 1 \in 1..m /\ f[i] = h[i])
        BY <1>2
      <3>2. /\ \A j \in 1..n : f[j] = g[f[j - 1]]
            /\ \A j \in 1..m : h[j] = g[h[j - 1]]
        BY <1>2
      <3>3. i + 1 <= n => f[i + 1] = g[f[i]] /\ h[i + 1] = g[h[i]]
        BY <3>1, <3>2
      <3> QED BY <3>1, <3>3
    <2>3. E \subseteq Nat
      OBVIOUS
    <2>4. E = Nat
      <3> HIDE DEF E
      <3> QED BY <2>1, <2>2, <2>3, Induction
    <2> SUFFICES ASSUME NEW i \in 0..n PROVE f[i] = h[i]
      OBVIOUS
    <2>5. i \in Nat /\ i <= n
      OBVIOUS
    <2>6. i \in E
      <3> HIDE DEF E
      <3> QED BY <2>4, <2>5
    <2> QED BY <2>5, <2>6
  <1> DEFINE F == [n \in Nat |-> (CHOOSE f : f \in Start(n))[n]]
  <1>3. \A n \in Nat : (CHOOSE f : f \in Start(n)) \in Start(n)
    BY <1>1
  <1> HIDE DEF Start
  <1>4. ASSUME NEW n \in Nat, NEW f \in Start(n) PROVE \A i \in 0..n : F[i] = f[i]
    <2> TAKE i \in 0..n
    <2>1. i \in Nat /\ i <= n
      OBVIOUS
    <2>2. (CHOOSE e : e \in Start(i)) \in Start(i)
      BY <2>1, <1>3
    <2>3. (CHOOSE e : e \in Start(i))[i] = f[i]
      BY <2>1, <2>2, <1>2
    <2> QED BY <2>1, <2>3
  <1>5. F = [n \in Nat |-> F[n]]
    OBVIOUS
  <1> HIDE DEF F
  <1>6. ASSUME NEW n \in Nat
        PROVE  F[n] \in Q[n] /\ F[n] = IF n = 0 THEN s0 ELSE g[F[n - 1]]
    <2>1. PICK f : f \in Start(n)
      BY <1>3
    <2>2. F[n] = f[n] /\ (n # 0 => F[n - 1] = f[n - 1])
      BY <1>4, <2>1
    <2> QED BY <2>1, <2>2 DEF Start
  <1> QED BY <1>5, <1>6 DEF Iterates

(* Whatever takes the same steps has the same iterates.                     *)
LEMMA Follows ==
    ASSUME NEW St, NEW g, NEW Q, NEW s0, Keeps(St, g, Q, s0), NEW a, a[0] = s0,
           \A i \in Nat : a[i] \in St => a[i + 1] = g[a[i]]
    PROVE  \A i \in Nat : a[i] \in Q[i]
  <1> DEFINE P == {i \in Nat : a[i] \in Q[i]}
  <1>1. /\ Q \in [Nat -> SUBSET St] /\ s0 \in Q[0]
        /\ \A i \in Nat : \A s \in Q[i] : g[s] \in Q[i + 1]
    BY DEF Keeps
  <1>2. 0 \in P
    BY <1>1
  <1>3. ASSUME NEW i \in P PROVE i + 1 \in P
    <2>1. a[i] \in Q[i] /\ i \in Nat /\ a[i] \in St
      BY <1>1
    <2> QED BY <1>1, <2>1
  <1>4. P \subseteq Nat
    OBVIOUS
  <1>5. P = Nat
    <2> HIDE DEF P
    <2> QED BY <1>2, <1>3, <1>4, Induction
  <1> QED BY <1>5

-----------------------------------------------------------------------------
(* The order of keys *)

(* Key j lies on side d of key k.                                           *)
Beyond(d, j, k) == d * Comp(j, k) > 0

(* The other side of a side.                                                *)
LEMMA Sides ==
    /\ Left \in Side /\ Right \in Side
    /\ \A d \in Side : d \in Int /\ -d \in Side /\ -d # d /\ -(-d) = d
    /\ \A d, e \in Side : e # d => e = -d
    /\ \A d \in Side : d = Left \/ d = Right
    /\ Left = -Right /\ Right = -Left /\ Left # Right
  <1>1. Left = -1 /\ Right = 1 /\ Side = {-1, 1}
    BY DEF Side, Left, Right
  <1>2. \A d \in Side : d \in Int /\ -d \in Side /\ -d # d /\ -(-d) = d
    BY <1>1
  <1>3. \A d, e \in Side : e # d => e = -d
    BY <1>1
  <1> QED BY <1>1, <1>2, <1>3

(* A node's key is a key.                                                   *)
LEMMA NodeKeys == \A n \in Node : KeyOf[n] \in Key
  BY DEF Key

(* Two keys are equal, or one lies on one side of the other and the other   *)
(* on the other side of the one.                                            *)
LEMMA KeySides ==
    ASSUME NEW j \in Key, NEW k \in Key
    PROVE  /\ Comp(j, k) = 0 <=> Comp(k, j) = 0
           /\ Comp(j, k) = 0 <=> \A d \in Side : ~Beyond(d, j, k)
           /\ \A d \in Side : Beyond(d, j, k) <=> Beyond(-d, k, j)
           /\ \A d \in Side : Beyond(d, j, k) => ~Beyond(-d, j, k)
           /\ Comp(j, k) < 0 <=> Beyond(Left, j, k)
           /\ Comp(j, k) > 0 <=> Beyond(Right, j, k)
           /\ Comp(j, j) = 0
  <1>1. /\ Comp(j, k) \in Int /\ Comp(k, j) \in Int /\ Comp(j, j) \in Int
        /\ Comp(j, k) < 0 <=> Comp(k, j) > 0
        /\ Comp(k, j) < 0 <=> Comp(j, k) > 0
        /\ Comp(j, j) < 0 <=> Comp(j, j) > 0
    BY CompAssumption
  <1> QED BY <1>1 DEF Beyond, Side, Left, Right

(* The order is transitive, and equal keys lie on the same sides.           *)
LEMMA KeyOrder ==
    ASSUME NEW i \in Key, NEW j \in Key, NEW k \in Key, NEW d \in Side
    PROVE  /\ Beyond(d, i, j) /\ Beyond(d, j, k) => Beyond(d, i, k)
           /\ Comp(i, j) = 0 => (Beyond(d, j, k) <=> Beyond(d, i, k))
           /\ Comp(i, j) = 0 => (Comp(j, k) = 0 <=> Comp(i, k) = 0)
  <1>1. \A a, b \in {i, j, k} : Comp(a, b) \in Int /\ (Comp(a, b) < 0 <=> Comp(b, a) > 0)
    BY CompAssumption
  <1>2. \A a, b, c \in {i, j, k} : Comp(a, b) <= 0 /\ Comp(b, c) <= 0 => Comp(a, c) <= 0
    BY CompAssumption
  <1>3. /\ Comp(i, j) <= 0 /\ Comp(j, k) <= 0 => Comp(i, k) <= 0
        /\ Comp(k, j) <= 0 /\ Comp(j, i) <= 0 => Comp(k, i) <= 0
        /\ Comp(j, k) <= 0 /\ Comp(k, i) <= 0 => Comp(j, i) <= 0
        /\ Comp(i, k) <= 0 /\ Comp(k, j) <= 0 => Comp(i, j) <= 0
        /\ Comp(j, i) <= 0 /\ Comp(i, k) <= 0 => Comp(j, k) <= 0
        /\ Comp(k, i) <= 0 /\ Comp(i, j) <= 0 => Comp(k, j) <= 0
    BY <1>2
  <1> QED BY <1>1, <1>3 DEF Beyond, Side, Left, Right

-----------------------------------------------------------------------------
(* The shape of the tree *)

(* Node m lies on side d of node n.                                         *)
Lies(d, m, n) == Beyond(d, KeyOf[m], KeyOf[n])

Pointer == Node \cup {NULL}
Place == Node \cup {HEAD}
Tree == [root : Pointer, count : Int, parent : [Node -> Pointer],
         child : [Side -> [Node -> Pointer]],
         link : [Side -> [Place -> Place \cup {NULL}]],
         balance : [Node -> Int], follower : [Node -> BOOLEAN]]

(* The nodes of T form one search tree; B[n] are those in the subtree of n. *)
Shape(t, T, B) ==
    /\ T \subseteq Node /\ B \in [Pointer -> SUBSET T] /\ B[NULL] = {}
    /\ B[t.root] = T
    /\ t.root # NULL => t.root \in T /\ t.parent[t.root] = NULL
    /\ \A n \in T : n # t.root => /\ t.parent[n] \in T
                                  /\ \E d \in Side : t.child[d][t.parent[n]] = n
    /\ \A n \in T : B[n] = {n} \cup B[t.child[Left][n]] \cup B[t.child[Right][n]]
    /\ \A n \in T : \A d \in Side :
         /\ t.child[d][n] # NULL => t.child[d][n] \in T /\ t.parent[t.child[d][n]] = n
         /\ \A m \in B[t.child[d][n]] : Lies(d, m, n)

(* What a tree node and its children have to do with each other.            *)
LEMMA ChildFacts ==
    ASSUME NEW t \in Tree, NEW T, NEW B, Shape(t, T, B), NEW n \in T, NEW d \in Side
    PROVE  /\ n \in Node /\ t.child[d][n] \in Pointer /\ -d \in Side
           /\ n \in B[n] /\ B[n] = {n} \cup B[t.child[d][n]] \cup B[t.child[-d][n]]
           /\ B[t.child[d][n]] \subseteq B[n] /\ n \notin B[t.child[d][n]]
           /\ B[t.child[d][n]] \cap B[t.child[-d][n]] = {}
           /\ t.child[d][n] # NULL => t.child[d][n] \in B[t.child[d][n]]
           /\ t.child[d][n] # n
           /\ t.child[d][n] # NULL => t.child[d][n] # t.child[-d][n]
  <1>1. n \in Node /\ t.child[d][n] \in Pointer /\ t.child[-d][n] \in Pointer /\ -d \in Side
    BY Sides DEF Shape, Tree
  <1>2. B[n] = {n} \cup B[t.child[d][n]] \cup B[t.child[-d][n]]
    BY Sides DEF Shape
  <1>3. \A e \in Side : \A m \in B[t.child[e][n]] : Lies(e, m, n) /\ m \in Node
    BY <1>1, Sides DEF Shape, Tree
  <1>4. ~Lies(d, n, n)
    BY <1>1, KeySides, NodeKeys DEF Lies
  <1>5. n \notin B[t.child[d][n]]
    BY <1>3, <1>4
  <1>6. B[t.child[d][n]] \cap B[t.child[-d][n]] = {}
    <2> SUFFICES ASSUME NEW m \in B[t.child[d][n]], m \in B[t.child[-d][n]] PROVE FALSE
      OBVIOUS
    <2>1. Lies(d, m, n) /\ Lies(-d, m, n) /\ m \in Node
      BY <1>1, <1>3
    <2> QED BY <1>1, <2>1, KeySides, NodeKeys DEF Lies
  <1>7. t.child[d][n] # NULL => t.child[d][n] \in B[t.child[d][n]]
    BY DEF Shape
  <1>8. t.child[d][n] # n
    BY <1>5, <1>7, <1>1, AvlAssumption
  <1>9. t.child[d][n] # NULL => t.child[d][n] # t.child[-d][n]
    BY <1>6, <1>7
  <1> QED BY <1>1, <1>2, <1>5, <1>6, <1>7, <1>8, <1>9

(* Where a node hangs: at its parent, on the side SideOf tells, and nowhere *)
(* else.                                                                    *)
LEMMA PlaceFacts ==
    ASSUME NEW t \in Tree, NEW T, NEW B, Shape(t, T, B), NEW n \in T
    PROVE  /\ t.parent[n] \in Pointer
           /\ n = t.root <=> t.parent[n] = NULL
           /\ n # t.root => /\ t.parent[n] \in T /\ t.parent[n] # n
                            /\ SideOf(t, n) \in Side
                            /\ t.child[SideOf(t, n)][t.parent[n]] = n
                            /\ t.child[-SideOf(t, n)][t.parent[n]] # n
           /\ \A m \in T, d \in Side : t.child[d][m] = n =>
                n # t.root /\ m = t.parent[n] /\ d = SideOf(t, n)
  <1>1. n \in Node /\ n # NULL /\ t.parent[n] \in Pointer
    BY AvlAssumption DEF Shape, Tree
  <1>2. n = t.root <=> t.parent[n] = NULL
    BY <1>1, AvlAssumption DEF Shape
  <1>3. ASSUME n # t.root
        PROVE  /\ t.parent[n] \in T /\ t.parent[n] # n
               /\ SideOf(t, n) \in Side
               /\ t.child[SideOf(t, n)][t.parent[n]] = n
               /\ t.child[-SideOf(t, n)][t.parent[n]] # n
    <2>1. PICK d \in Side : t.parent[n] \in T /\ t.child[d][t.parent[n]] = n
      BY <1>3 DEF Shape
    <2>2. t.child[-d][t.parent[n]] # n
      BY <1>1, <2>1, ChildFacts
    <2>3. SideOf(t, n) = d
      BY <2>1, <2>2, Sides DEF SideOf
    <2>4. t.parent[n] # n
      BY <2>1, ChildFacts
    <2> QED BY <2>1, <2>2, <2>3, <2>4
  <1>4. ASSUME NEW m \in T, NEW d \in Side, t.child[d][m] = n
        PROVE  n # t.root /\ m = t.parent[n] /\ d = SideOf(t, n)
    <2>1. m = t.parent[n] /\ m # NULL
      BY <1>1, <1>4, AvlAssumption DEF Shape
    <2>2. n # t.root
      BY <1>2, <2>1
    <2>3. d = SideOf(t, n)
      BY <1>3, <1>4, <2>1, <2>2, Sides
    <2> QED BY <2>1, <2>2, <2>3
  <1> QED BY <1>1, <1>2, <1>3, <1>4

(* A child's subtree is smaller.                                            *)
LEMMA SubtreeSize ==
    ASSUME NEW t \in Tree, NEW T, NEW B, Shape(t, T, B), NEW n \in T
    PROVE  /\ Cardinality(B[n]) \in Nat /\ Cardinality(B[n]) <= Cardinality(Node)
           /\ Cardinality(B[n]) > 0
           /\ \A d \in Side : t.child[d][n] # NULL =>
                Cardinality(B[t.child[d][n]]) < Cardinality(B[n])
  <1>1. \A S \in SUBSET Node : /\ IsFiniteSet(S) /\ Cardinality(S) \in Nat
                               /\ Cardinality(S) <= Cardinality(Node)
    BY AvlAssumption, FS_Subset, FS_CardinalityType
  <1>2. B[n] \subseteq Node /\ n \in B[n]
    BY ChildFacts, Sides DEF Shape, Pointer
  <1>3. Cardinality(B[n]) > 0
    BY <1>1, <1>2, FS_EmptySet
  <1>4. ASSUME NEW d \in Side, t.child[d][n] # NULL
        PROVE  Cardinality(B[t.child[d][n]]) < Cardinality(B[n])
    <2>1. B[t.child[d][n]] \subseteq B[n] \ {n}
      BY ChildFacts
    <2>2. Cardinality(B[t.child[d][n]]) <= Cardinality(B[n] \ {n})
      BY <1>1, <1>2, <2>1, FS_Subset
    <2>3. Cardinality(B[n] \ {n}) = Cardinality(B[n]) - 1
      BY <1>1, <1>2, FS_RemoveElement
    <2>4. Cardinality(B[t.child[d][n]]) \in Nat /\ Cardinality(B[n]) \in Nat
      BY <1>1, <1>2, <2>1
    <2> QED BY <2>2, <2>3, <2>4
  <1> QED BY <1>1, <1>2, <1>3, <1>4

(* Subtrees are nested, and a node below another has its parent there too.  *)
LEMMA Nested ==
    ASSUME NEW t \in Tree, NEW T, NEW B, Shape(t, T, B)
    PROVE  \A x \in T : \A y \in B[x] : /\ B[y] \subseteq B[x]
                                        /\ y # x => t.parent[y] \in B[x]
  <1> DEFINE Ok(x) == \A y \in B[x] : B[y] \subseteq B[x] /\ (y # x => t.parent[y] \in B[x])
             S == {Cardinality(B[x]) : x \in {z \in T : ~Ok(z)}}
  <1> SUFFICES ASSUME S # {} PROVE FALSE
    OBVIOUS
  <1>1. S \subseteq Nat
    BY SubtreeSize
  <1>2. PICK k \in S : \A j \in S : k <= j
    <2> HIDE DEF S
    <2> QED BY <1>1, SmallestExists
  <1>3. PICK x \in T : k = Cardinality(B[x]) /\ ~Ok(x)
    BY <1>2
  <1>4. ASSUME NEW y \in B[x], y # x
        PROVE  B[y] \subseteq B[x] /\ t.parent[y] \in B[x]
    <2>1. PICK d \in Side : y \in B[t.child[d][x]]
      BY <1>4, Sides DEF Shape
    <2>2. t.child[d][x] # NULL /\ t.child[d][x] \in T /\ t.parent[t.child[d][x]] = x
      BY <2>1 DEF Shape
    <2>3. B[t.child[d][x]] \subseteq B[x] /\ x \in B[x]
      BY ChildFacts
    <2>4. Ok(t.child[d][x])
      <3> SUFFICES ASSUME ~Ok(t.child[d][x]) PROVE FALSE
        OBVIOUS
      <3>1. Cardinality(B[t.child[d][x]]) \in S
        BY <2>2
      <3>2. /\ Cardinality(B[t.child[d][x]]) < Cardinality(B[x])
            /\ Cardinality(B[t.child[d][x]]) \in Nat /\ Cardinality(B[x]) \in Nat
        BY <2>2, SubtreeSize
      <3> QED BY <1>2, <1>3, <3>1, <3>2
    <2>5. CASE y = t.child[d][x]
      BY <2>2, <2>3, <2>5
    <2>6. CASE y # t.child[d][x]
      BY <2>1, <2>3, <2>4, <2>6
    <2> QED BY <2>5, <2>6
  <1> QED BY <1>3, <1>4

-----------------------------------------------------------------------------
(* Rotations *)

(* Hanging another node in the place of one changes one pointer.            *)
LEMMA HangFields ==
    ASSUME NEW t \in Tree, NEW T, NEW B, Shape(t, T, B), NEW node \in T, NEW new \in Pointer
    PROVE  LET u == Hang(t, t.parent[node], node, new) IN
           /\ u \in Tree /\ u.count = t.count /\ u.parent = t.parent /\ u.link = t.link
           /\ u.balance = t.balance /\ u.follower = t.follower
           /\ u.root = IF node = t.root THEN new ELSE t.root
           /\ \A n \in T, d \in Side : u.child[d][n] = IF t.child[d][n] = node THEN new ELSE t.child[d][n]
           /\ \A n \in Node \ T, d \in Side : u.child[d][n] = t.child[d][n]
  <1> DEFINE u == Hang(t, t.parent[node], node, new)
             p == t.parent[node]
             e == SideOf(t, node)
  <1>0. node \in Node /\ node # NULL /\ T \subseteq Node
    BY AvlAssumption DEF Shape
  <1>1. CASE node = t.root
    <2>1. p = NULL
      BY <1>1, PlaceFacts
    <2>2. u = [t EXCEPT !.root = new]
      BY <2>1 DEF Hang
    <2>3. \A n \in T, d \in Side : t.child[d][n] # node
      BY <1>1, PlaceFacts
    <2>4. u \in Tree /\ u.child = t.child /\ u.root = new
      BY <2>2 DEF Tree
    <2>5. u.count = t.count /\ u.parent = t.parent /\ u.link = t.link /\ u.balance = t.balance /\ u.follower = t.follower
      BY <2>2 DEF Tree
    <2> QED BY <1>1, <2>3, <2>4, <2>5
  <1>2. CASE node # t.root
    <2>1. p \in T /\ e \in Side /\ p \in Node /\ p # NULL
      BY <1>2, PlaceFacts, AvlAssumption DEF Shape
    <2>2. u = [t EXCEPT !.child[e][p] = new]
      BY <2>1 DEF Hang
    <2>3. \A n \in T, d \in Side : t.child[d][n] = node <=> n = p /\ d = e
      BY <1>2, PlaceFacts
    <2> DEFINE kid == [t.child EXCEPT ![e] = [t.child[e] EXCEPT ![p] = new]]
    <2>4. u = [t EXCEPT !.child = kid]
      BY <2>2 DEF Tree
    <2>5. kid \in [Side -> [Node -> Pointer]]
      BY <2>1 DEF Tree
    <2>6. \A n \in Node, d \in Side : kid[d][n] = IF n = p /\ d = e THEN new ELSE t.child[d][n]
      BY <2>1 DEF Tree
    <2> HIDE DEF kid, u, p, e
    <2>7. /\ u \in Tree /\ u.root = t.root /\ u.child = kid /\ u.count = t.count /\ u.parent = t.parent
          /\ u.link = t.link /\ u.balance = t.balance /\ u.follower = t.follower
      BY <2>4, <2>5 DEF Tree
    <2>8. \A n \in T, d \in Side : u.child[d][n] = IF t.child[d][n] = node THEN new ELSE t.child[d][n]
      BY <1>0, <2>3, <2>6, <2>7
    <2>9. \A n \in Node \ T, d \in Side : u.child[d][n] = t.child[d][n]
      BY <2>1, <2>6, <2>7
    <2> QED BY <1>2, <2>7, <2>8, <2>9 DEF u, p
  <1> QED BY <1>1, <1>2

(* What a rotation changes.                                                 *)
IsLift(u, t, T, node, side) ==
    LET c     == t.child[side][node]
        inner == t.child[-side][c]
        nb    == Lowered(t.balance[node], side, t.balance[c])
    IN  /\ u \in Tree /\ u.count = t.count /\ u.link = t.link /\ u.follower = t.follower
        /\ u.root = IF node = t.root THEN c ELSE t.root
        /\ u.child[side][node] = inner /\ u.child[-side][node] = t.child[-side][node]
        /\ u.child[-side][c] = node /\ u.child[side][c] = t.child[side][c]
        /\ \A n \in T \ {node, c}, d \in Side :
             u.child[d][n] = IF t.child[d][n] = node THEN c ELSE t.child[d][n]
        /\ u.parent[c] = t.parent[node] /\ u.parent[node] = c
        /\ inner # NULL => u.parent[inner] = node
        /\ \A n \in Node \ {node, c, inner} : u.parent[n] = t.parent[n]
        /\ u.balance[node] = nb /\ u.balance[c] = Lowered(t.balance[c], side, -nb)
        /\ \A n \in Node \ {node, c} : u.balance[n] = t.balance[n]

LEMMA LiftFields ==
    ASSUME NEW t \in Tree, NEW T, NEW B, Shape(t, T, B),
           NEW node \in T, NEW side \in Side, t.child[side][node] # NULL
    PROVE  IsLift(Lift(t, node, side), t, T, node, side)
  <1> DEFINE c     == t.child[side][node]
             inner == t.child[-side][c]
             h     == Hang(t, t.parent[node], node, c)
             nb    == Lowered(t.balance[node], side, t.balance[c])
             cb    == Lowered(t.balance[c], side, -nb)
             u     == Lift(t, node, side)
             par   == Put([[h.parent EXCEPT ![c] = t.parent[node]] EXCEPT ![node] = c], inner, node)
             kid   == [[h.child EXCEPT ![side] = [h.child[side] EXCEPT ![node] = inner]]
                          EXCEPT ![-side] = [h.child[-side] EXCEPT ![c] = node]]
             bal   == [[h.balance EXCEPT ![node] = nb] EXCEPT ![c] = cb]
  <1>1. /\ T \subseteq Node /\ node \in Node /\ c \in T /\ c \in Node /\ c # node /\ -side \in Side
        /\ -side # side /\ inner \in Pointer
    <2>1. T \subseteq Node /\ c \in T /\ -side \in Side /\ -side # side
      BY Sides DEF Shape
    <2>2. node \in Node /\ c # node
      BY ChildFacts
    <2>3. inner \in Pointer
      BY <2>1, ChildFacts
    <2> QED BY <2>1, <2>2, <2>3
  <1>2. inner # c /\ inner # node
    <2>1. inner # c
      BY <1>1, ChildFacts
    <2>2. inner # NULL => inner \in B[inner] /\ B[inner] \subseteq B[c]
      BY <1>1, ChildFacts
    <2>3. node \notin B[c]
      BY ChildFacts
    <2> QED BY <1>1, <2>1, <2>2, <2>3, AvlAssumption
  <1>3. /\ h \in Tree /\ h.count = t.count /\ h.parent = t.parent /\ h.link = t.link
        /\ h.balance = t.balance /\ h.follower = t.follower
        /\ h.root = IF node = t.root THEN c ELSE t.root
        /\ \A n \in T, d \in Side : h.child[d][n] = IF t.child[d][n] = node THEN c ELSE t.child[d][n]
        /\ \A n \in Node \ T, d \in Side : h.child[d][n] = t.child[d][n]
    BY <1>1, HangFields DEF Pointer
  <1>4. \A d \in Side : t.child[d][node] # node /\ t.child[d][c] # node
    BY <1>1, PlaceFacts, ChildFacts
  <1>5. u = [h EXCEPT !.parent = par, !.child = kid, !.balance = bal]
    <2>1. u = [h EXCEPT !.parent = par, !.child[side] = [@ EXCEPT ![node] = inner],
                        !.child[-side] = [@ EXCEPT ![c] = node],
                        !.balance = [@ EXCEPT ![node] = nb, ![c] = cb]]
      BY Zenon DEF Lift
    <2> HIDE DEF par, h, nb, cb, inner, c, u
    <2> QED BY <1>3, <2>1 DEF Tree
  <1>6. nb \in Int /\ cb \in Int
    BY <1>1 DEF Tree, Lowered, Larger, Side, Left, Right
  <1>7. t.parent[node] \in Pointer
    BY <1>1 DEF Tree
  <1>8. par \in [Node -> Pointer]
    <2>1. h.parent \in [Node -> Pointer] /\ node \in Pointer /\ c \in Pointer
      BY <1>1, <1>3 DEF Tree, Pointer
    <2> HIDE DEF h, c, inner
    <2> QED BY <1>1, <1>7, <2>1 DEF Put
  <1>9. kid \in [Side -> [Node -> Pointer]]
    <2>1. h.child \in [Side -> [Node -> Pointer]] /\ node \in Pointer
      BY <1>1, <1>3 DEF Tree, Pointer
    <2> HIDE DEF h, c, inner
    <2> QED BY <1>1, <2>1
  <1>10. bal \in [Node -> Int]
    BY <1>1, <1>3, <1>6 DEF Tree
  <1>11. /\ u \in Tree /\ u.count = h.count /\ u.link = h.link /\ u.follower = h.follower /\ u.root = h.root
         /\ u.parent = par /\ u.child = kid /\ u.balance = bal
    <2> HIDE DEF par, kid, bal, h, u
    <2> QED BY <1>3, <1>5, <1>8, <1>9, <1>10, Zenon DEF Tree
  <1>12. /\ par[c] = t.parent[node] /\ par[node] = c
         /\ inner # NULL => par[inner] = node
         /\ \A n \in Node \ {node, c, inner} : par[n] = t.parent[n]
    BY <1>1, <1>2, <1>3, Zenon DEF Put, Tree, Pointer
  <1>13. /\ bal[node] = nb /\ bal[c] = cb
         /\ \A n \in Node \ {node, c} : bal[n] = t.balance[n]
    BY <1>1, <1>3, Zenon DEF Tree
  <1>14. /\ \A n \in Node : kid[side][n] = IF n = node THEN inner ELSE h.child[side][n]
         /\ \A n \in Node : kid[-side][n] = IF n = c THEN node ELSE h.child[-side][n]
    BY <1>1, <1>3, Zenon DEF Tree
  <1>15. \A d \in Side : d = side \/ d = -side
    BY Sides
  <1> HIDE DEF par, kid, bal, h, u, nb, cb
  <1>16. /\ kid[side][node] = inner /\ kid[-side][node] = t.child[-side][node]
         /\ kid[-side][c] = node /\ kid[side][c] = t.child[side][c]
    BY <1>1, <1>3, <1>4, <1>14
  <1>17. \A n \in T \ {node, c}, d \in Side :
           kid[d][n] = IF t.child[d][n] = node THEN c ELSE t.child[d][n]
    BY <1>1, <1>3, <1>14, <1>15
  <1> QED BY <1>3, <1>11, <1>12, <1>13, <1>16, <1>17 DEF IsLift, u, nb, cb

(* The subtrees after a rotation.                                           *)
LiftBelow(t, B, node, side) ==
    LET c == t.child[side][node]
    IN  [B EXCEPT ![c] = B[node],
                  ![node] = {node} \cup B[t.child[-side][node]] \cup B[t.child[-side][c]]]

(* A rotation keeps the search tree one.                                    *)
LEMMA LiftShape ==
    ASSUME NEW t \in Tree, NEW T, NEW B, Shape(t, T, B),
           NEW node \in T, NEW side \in Side, t.child[side][node] # NULL
    PROVE  Shape(Lift(t, node, side), T, LiftBelow(t, B, node, side))
  <1> DEFINE c     == t.child[side][node]
             inner == t.child[-side][c]
             outer == t.child[side][c]
             other == t.child[-side][node]
             u     == Lift(t, node, side)
             C     == LiftBelow(t, B, node, side)
             p     == t.parent[node]
  <1>1. /\ T \subseteq Node /\ node \in Node /\ c \in T /\ c \in Node /\ c # node /\ -side \in Side
        /\ -side # side /\ NULL \notin Node /\ t.parent[c] = node /\ -(-side) = side
    <2>1. T \subseteq Node /\ c \in T /\ -side \in Side /\ -side # side /\ t.parent[c] = node /\ -(-side) = side
      BY Sides DEF Shape
    <2>2. node \in Node /\ c # node
      BY ChildFacts
    <2> QED BY <2>1, <2>2, AvlAssumption
  <1>2. /\ u \in Tree
        /\ u.root = IF node = t.root THEN c ELSE t.root
        /\ u.child[side][node] = inner /\ u.child[-side][node] = other
        /\ u.child[-side][c] = node /\ u.child[side][c] = outer
        /\ \A n \in T \ {node, c}, d \in Side :
             u.child[d][n] = IF t.child[d][n] = node THEN c ELSE t.child[d][n]
        /\ u.parent[c] = t.parent[node] /\ u.parent[node] = c
        /\ inner # NULL => u.parent[inner] = node
        /\ \A n \in Node \ {node, c, inner} : u.parent[n] = t.parent[n]
    BY LiftFields DEF IsLift
  <1>3. /\ B[node] = {node} \cup B[c] \cup B[other] /\ node \notin B[c] /\ node \notin B[other]
        /\ B[c] \cap B[other] = {} /\ c \in B[c] /\ other # c /\ other # node
    BY <1>1, ChildFacts
  <1>4. /\ B[c] = {c} \cup B[inner] \cup B[outer] /\ c \notin B[inner] /\ c \notin B[outer]
        /\ B[inner] \cap B[outer] = {} /\ inner # c /\ outer # c
        /\ inner # NULL => inner \in B[inner] /\ inner \in T /\ t.parent[inner] = c
        /\ outer # NULL => outer \in B[outer] /\ outer \in T /\ t.parent[outer] = c
    <2>1. \A d \in Side : t.child[d][c] # NULL => t.child[d][c] \in T /\ t.parent[t.child[d][c]] = c
      BY <1>1 DEF Shape
    <2> QED BY <1>1, <2>1, ChildFacts
  <1>5. inner # node /\ outer # node /\ (other # NULL => other \in B[other] /\ other \in T /\ t.parent[other] = node)
    <2>1. \A d \in Side : t.child[d][node] # NULL => t.child[d][node] \in T /\ t.parent[t.child[d][node]] = node
      BY DEF Shape
    <2>2. \A d \in Side : t.child[d][node] # NULL => t.child[d][node] \in B[t.child[d][node]]
      BY ChildFacts
    <2>3. inner # node /\ outer # node
      <3> HIDE DEF inner, outer, c
      <3> QED BY <1>1, <1>3, <1>4
    <2> QED BY <1>1, <2>1, <2>2, <2>3
  <1>6. /\ B \in [Pointer -> SUBSET T] /\ B[NULL] = {} /\ B[t.root] = T
        /\ t.root # NULL => t.root \in T /\ t.parent[t.root] = NULL
    BY DEF Shape
  <1>7. /\ C \in [Pointer -> SUBSET T] /\ C[c] = B[node] /\ C[node] = {node} \cup B[other] \cup B[inner]
        /\ \A n \in Pointer \ {c, node} : C[n] = B[n]
    <2>1. B[node] \subseteq T /\ {node} \cup B[other] \cup B[inner] \subseteq T
      <3>1. node \in Pointer /\ other \in Pointer /\ inner \in Pointer
        BY <1>1, <1>4, <1>5 DEF Pointer
      <3>2. B[node] \subseteq T /\ B[other] \subseteq T /\ B[inner] \subseteq T
        BY <1>6, <3>1, Zenon
      <3> QED BY <3>2
    <2>2. c \in Pointer /\ node \in Pointer
      BY <1>1 DEF Pointer
    <2> QED BY <1>1, <1>6, <2>1, <2>2, Zenon DEF LiftBelow
  <1>8. c # t.root /\ inner # t.root /\ outer # t.root
    <2>1. t.root # NULL
      BY <1>6
    <2>2. t.parent[t.root] = NULL
      BY <1>6, <2>1
    <2>3. node # NULL /\ c # NULL
      BY <1>1
    <2> QED BY <1>1, <1>4, <2>1, <2>2, <2>3, Zenon
  <1>9. node # t.root => /\ p \in T /\ p # node /\ p # c /\ SideOf(t, node) \in Side
                         /\ t.child[SideOf(t, node)][p] = node
    <2>1. node # t.root => /\ p \in T /\ p # node /\ SideOf(t, node) \in Side
                           /\ t.child[SideOf(t, node)][p] = node
      BY PlaceFacts
    <2>2. \A d \in Side : t.child[d][c] # node
      BY <1>4, <1>5, <1>1, Sides
    <2> QED BY <2>1, <2>2
  <1>10. \A n \in T, d \in Side : t.child[d][n] = c => n = node /\ d = side
    <2>1. \A n \in T, d \in Side : t.child[d][n] = c => n = node /\ d = SideOf(t, c)
      BY <1>1, PlaceFacts
    <2> QED BY <1>1, <2>1
  <1>11. \A n \in T, d \in Side : t.child[d][n] \in Pointer
    BY ChildFacts
  <1> HIDE DEF u, C, inner, outer, other, p, c
  <1>20. C[NULL] = {} /\ C[u.root] = T
    <2>1. C[NULL] = {}
      BY <1>1, <1>6, <1>7 DEF Pointer
    <2>0. /\ u.root = IF node = t.root THEN c ELSE t.root
          /\ C[c] = B[node] /\ B[t.root] = T
          /\ \A n \in Pointer \ {c, node} : C[n] = B[n]
      BY <1>2, <1>6, <1>7
    <2>2. CASE node = t.root
      BY <2>0, <2>1, <2>2
    <2>3. CASE node # t.root
      <3>1. t.root \in Pointer
        BY DEF Tree
      <3>2. t.root \in Pointer \ {c, node}
        BY <1>8, <2>3, <3>1
      <3> QED BY <2>0, <2>1, <2>3, <3>2
    <2> QED BY <2>1, <2>2, <2>3
  <1>21. u.root # NULL => u.root \in T /\ u.parent[u.root] = NULL
    <2>1. CASE node = t.root
      BY <1>1, <1>2, <1>6, <2>1 
    <2>2. CASE node # t.root
      <3>1. t.root # NULL => t.root \in Node \ {node, c, inner}
        BY <1>1, <1>6, <1>8, <2>2
      <3> QED BY <1>2, <1>6, <2>2, <3>1
    <2> QED BY <2>1, <2>2
  <1>22. ASSUME NEW n \in T, n # u.root
         PROVE  u.parent[n] \in T /\ \E d \in Side : u.child[d][u.parent[n]] = n
    <2>1. CASE n = node
      BY <1>1, <1>2, <2>1
    <2>2. CASE n = c
      <3>1. node # t.root
        BY <1>2, <1>22, <2>2
      <3>2. p \in T \ {node, c} /\ SideOf(t, node) \in Side
        BY <1>9, <3>1
      <3>3. u.child[SideOf(t, node)][p] = c
        BY <1>2, <1>9, <3>1, <3>2
      <3> QED BY <1>2, <2>2, <3>2, <3>3 DEF p
    <2>3. CASE n = inner
      <3>1. inner # NULL
        BY <1>1, <2>3
      <3> QED BY <1>2, <2>3, <3>1
    <2>4. CASE n \notin {node, c, inner}
      <3>1. n # t.root
        BY <1>2, <1>22, <2>4
      <3>2. t.parent[n] \in T /\ \E d \in Side : t.child[d][t.parent[n]] = n
        BY <3>1 DEF Shape
      <3>3. PICK d \in Side : t.child[d][t.parent[n]] = n
        BY <3>2
      <3>4. u.parent[n] = t.parent[n]
        BY <1>1, <1>2, <2>4
      <3>5. CASE t.parent[n] = node
        <4>1. n = other
          BY <3>3, <3>5, <2>4, Sides DEF c, other
        <4> QED BY <1>1, <1>2, <3>2, <3>4, <3>5, <4>1
      <3>6. CASE t.parent[n] = c
        <4>1. n = outer
          BY <3>3, <3>6, <2>4, Sides DEF inner, outer
        <4> QED BY <1>1, <1>2, <3>2, <3>4, <3>6, <4>1
      <3>7. CASE t.parent[n] \notin {node, c}
        <4>1. u.child[d][t.parent[n]] = n
          BY <1>2, <2>4, <3>2, <3>3, <3>7
        <4> QED BY <3>2, <3>4, <4>1
      <3> QED BY <3>5, <3>6, <3>7
    <2> QED BY <2>1, <2>2, <2>3, <2>4
  <1>23. \A n \in T \ {node, c}, d \in Side : C[u.child[d][n]] = B[t.child[d][n]]
    BY <1>2, <1>7, <1>10, <1>11
  <1>24. /\ C[inner] = B[inner] /\ C[other] = B[other] /\ C[outer] = B[outer]
    <2>1. inner \in Pointer /\ outer \in Pointer /\ other \in Pointer
      BY <1>1, <1>11 DEF inner, outer, other
    <2>2. other # node
      BY <1>3
    <2> QED BY <1>3, <1>4, <1>5, <1>7, <2>1
  <1>25. ASSUME NEW n \in T
         PROVE  C[n] = {n} \cup C[u.child[Left][n]] \cup C[u.child[Right][n]]
    <2>1. CASE n = node
      <3>1. C[n] = {n} \cup C[u.child[side][n]] \cup C[u.child[-side][n]]
        BY <1>2, <1>7, <1>24, <2>1
      <3> QED BY <3>1, Sides
    <2>2. CASE n = c
      <3>1. C[n] = {n} \cup C[u.child[side][n]] \cup C[u.child[-side][n]]
        BY <1>2, <1>3, <1>4, <1>7, <1>24, <2>2
      <3> QED BY <3>1, Sides
    <2>3. CASE n \notin {node, c}
      <3>1. C[n] = B[n]
        BY <1>1, <1>7, <2>3 DEF Pointer
      <3>2. B[n] = {n} \cup B[t.child[Left][n]] \cup B[t.child[Right][n]]
        BY DEF Shape
      <3> QED BY <1>23, <2>3, <3>1, <3>2, Sides
    <2> QED BY <2>1, <2>2, <2>3
  <1>26. ASSUME NEW n \in T, NEW d \in Side
         PROVE  /\ u.child[d][n] # NULL => u.child[d][n] \in T /\ u.parent[u.child[d][n]] = n
                /\ \A m \in C[u.child[d][n]] : Lies(d, m, n)
    <2>0. /\ t.child[d][n] # NULL => t.child[d][n] \in T /\ t.parent[t.child[d][n]] = n
          /\ \A m \in B[t.child[d][n]] : Lies(d, m, n)
      BY DEF Shape
    <2>1. CASE n = node /\ d = side
      <3>1. \A m \in B[inner] : Lies(side, m, node)
        BY <1>4, <2>0, <2>1 DEF c
      <3> QED BY <1>2, <1>4, <1>24, <2>1, <3>1
    <2>2. CASE n = node /\ d # side
      <3>1. d = -side /\ t.child[d][n] = other
        BY <2>2, Sides DEF other
      <3>2. other # NULL => other \in Node \ {node, c, inner}
        BY <1>1, <1>3, <1>4, <1>5
      <3> QED BY <1>2, <1>5, <1>24, <2>0, <2>2, <3>1, <3>2
    <2>3. CASE n = c /\ d = side
      <3>1. t.child[d][n] = outer
        BY <2>3 DEF outer
      <3>2. outer # NULL => outer \in Node \ {node, c, inner}
        BY <1>1, <1>4, <1>5
      <3> QED BY <1>2, <1>4, <1>24, <2>0, <2>3, <3>1, <3>2
    <2>4. CASE n = c /\ d # side
      <3>1. d = -side /\ t.child[d][n] = inner /\ u.child[d][n] = node
        BY <1>2, <2>4, Sides DEF inner
      <3>2. Lies(side, c, node) /\ \A m \in B[other] : Lies(-side, m, node)
        BY <1>1, <1>3 DEF Shape, c, other
      <3>3. Lies(-side, node, c)
        BY <1>1, <3>2, KeySides, NodeKeys DEF Lies
      <3>4. ASSUME NEW m \in B[other] PROVE Lies(-side, m, c)
        <4>1. m \in Node
          BY <1>1, <1>3, <1>6 DEF Pointer
        <4> QED BY <1>1, <3>2, <3>3, <4>1, KeyOrder, NodeKeys DEF Lies
      <3>5. \A m \in C[node] : Lies(-side, m, c)
        BY <1>7, <2>0, <2>4, <3>1, <3>3, <3>4
      <3> QED BY <1>2, <2>4, <3>1, <3>5, <1>1
    <2>5. CASE n \notin {node, c}
      <3>1. C[u.child[d][n]] = B[t.child[d][n]]
        BY <1>23, <2>5
      <3>2. CASE t.child[d][n] = node
        <4>1. u.child[d][n] = c /\ t.parent[node] = n
          BY <1>1, <1>2, <2>0, <2>5, <3>2
        <4> QED BY <1>1, <1>2, <2>0, <3>1, <4>1
      <3>3. CASE t.child[d][n] # node
        <4>1. u.child[d][n] = t.child[d][n]
          BY <1>2, <2>5, <3>3
        <4>2. t.child[d][n] # c
          BY <1>10, <2>5
        <4>3. t.child[d][n] # NULL => t.child[d][n] # inner
          BY <1>4, <2>0, <2>5
        <4> QED BY <1>1, <1>2, <2>0, <3>1, <3>3, <4>1, <4>2, <4>3
      <3> QED BY <3>2, <3>3
    <2> QED BY <2>1, <2>2, <2>3, <2>4, <2>5
  <1>27. Shape(u, T, C)
    BY <1>1, <1>7, <1>20, <1>21, <1>22, <1>25, <1>26 DEF Shape
  <1> QED BY <1>27 DEF u, C

-----------------------------------------------------------------------------
(* Heights                                                                 *)

(* The height of a node's subtree when V[n] is the height of the others.    *)
Own(t, V, n) == 1 + Larger(V[t.child[Left][n]], V[t.child[Right][n]])

(* Every balance is the difference of the heights V, which are those of the *)
(* subtrees and balanced except at the nodes of X.                          *)
Leveled(t, T, V, X) ==
    /\ V \in [Pointer -> Nat] /\ V[NULL] = 0
    /\ \A n \in T : t.balance[n] = V[t.child[Right][n]] - V[t.child[Left][n]]
    /\ \A n \in T \ X : V[n] = Own(t, V, n) /\ t.balance[n] \in -1 .. 1

(* Balance and height seen from one side.                                   *)
LEMMA LevelFacts ==
    ASSUME NEW t \in Tree, NEW T, T \subseteq Node, NEW X, NEW V, Leveled(t, T, V, X)
    PROVE  \A n \in T : \A d \in Side :
             /\ V[n] \in Nat /\ V[t.child[d][n]] \in Nat /\ V[t.child[-d][n]] \in Nat
             /\ t.balance[n] = d * (V[t.child[d][n]] - V[t.child[-d][n]])
             /\ Own(t, V, n) = 1 + Larger(V[t.child[d][n]], V[t.child[-d][n]])
             /\ n \notin X => V[n] = Own(t, V, n) /\ V[n] > 0 /\ t.balance[n] \in -1 .. 1
  <1> TAKE n \in T
  <1> TAKE d \in Side
  <1>1. t.child[Left][n] \in Pointer /\ t.child[Right][n] \in Pointer /\ n \in Pointer
    BY Sides DEF Tree, Pointer
  <1>2. V[t.child[Left][n]] \in Nat /\ V[t.child[Right][n]] \in Nat /\ V[n] \in Nat
    BY <1>1 DEF Leveled
  <1>3. t.balance[n] = V[t.child[Right][n]] - V[t.child[Left][n]]
    BY DEF Leveled
  <1>4. n \notin X => V[n] = Own(t, V, n) /\ t.balance[n] \in -1 .. 1
    BY DEF Leveled
  <1>5. n \notin X => V[n] > 0
    BY <1>2, <1>4 DEF Own, Larger
  <1>6. CASE d = Left
    <2>1. -d = Right /\ d = -1
      BY <1>6, Sides DEF Left, Right
    <2> QED BY <1>2, <1>3, <1>4, <1>5, <1>6, <2>1 DEF Own, Larger
  <1>7. CASE d = Right
    <2>1. -d = Left /\ d = 1
      BY <1>7 DEF Left, Right
    <2> QED BY <1>2, <1>3, <1>4, <1>5, <1>7, <2>1 DEF Own, Larger
  <1> QED BY <1>6, <1>7, Sides

(* The same of a finished tree.                                             *)
LEMMA HeightFacts ==
    ASSUME NEW t \in Tree, NEW T, T \subseteq Node, NEW V, Leveled(t, T, V, {})
    PROVE  \A n \in T : \A d \in Side :
             /\ V[t.child[d][n]] \in Nat /\ V[t.child[-d][n]] \in Nat
             /\ t.balance[n] = d * (V[t.child[d][n]] - V[t.child[-d][n]])
             /\ V[n] = 1 + Larger(V[t.child[d][n]], V[t.child[-d][n]])
             /\ V[n] \in Nat /\ V[n] = Own(t, V, n) /\ t.balance[n] \in -1 .. 1
  <1>1. PICK X : X = {}
    OBVIOUS
  <1>2. Leveled(t, T, V, X)
    BY <1>1
  <1>3. \A n \in T : n \notin X
    BY <1>1
  <1> HIDE <1>1
  <1>4. \A n \in T : \A d \in Side :
             /\ V[n] \in Nat /\ V[t.child[d][n]] \in Nat /\ V[t.child[-d][n]] \in Nat
             /\ t.balance[n] = d * (V[t.child[d][n]] - V[t.child[-d][n]])
             /\ Own(t, V, n) = 1 + Larger(V[t.child[d][n]], V[t.child[-d][n]])
             /\ n \notin X => V[n] = Own(t, V, n) /\ V[n] > 0 /\ t.balance[n] \in -1 .. 1
    BY <1>2, LevelFacts
  <1> QED BY <1>3, <1>4

(* The same, to show that heights fit.                                      *)
LEMMA LevelIntro ==
    ASSUME NEW t \in Tree, NEW n \in Node, NEW V \in [Pointer -> Nat], NEW d \in Side
    PROVE  /\ t.balance[n] = d * (V[t.child[d][n]] - V[t.child[-d][n]]) <=>
                t.balance[n] = V[t.child[Right][n]] - V[t.child[Left][n]]
           /\ Own(t, V, n) = 1 + Larger(V[t.child[d][n]], V[t.child[-d][n]])
  <1>1. t.child[Left][n] \in Pointer /\ t.child[Right][n] \in Pointer
    BY Sides DEF Tree
  <1>2. V[t.child[Left][n]] \in Nat /\ V[t.child[Right][n]] \in Nat
    BY <1>1
  <1>6. CASE d = Left
    <2>1. -d = Right /\ d = -1
      BY <1>6, Sides DEF Left, Right
    <2> QED BY <1>2, <1>6, <2>1 DEF Own, Larger
  <1>7. CASE d = Right
    <2>1. -d = Left /\ d = 1
      BY <1>7 DEF Left, Right
    <2> QED BY <1>2, <1>7, <2>1 DEF Own, Larger
  <1> QED BY <1>6, <1>7, Sides

(* The heights after a rotation.                                            *)
LiftLevel(t, V, node, side) ==
    LET c == t.child[side][node]
    IN  [V EXCEPT ![c] = V[node],
                  ![node] = 1 + Larger(V[t.child[-side][node]], V[t.child[-side][c]])]

(* What the balances of a rotation come to.                                 *)
LEMMA LoweredTwice ==
    ASSUME NEW s \in Side, NEW other \in Nat, NEW inner \in Nat, NEW outer \in Nat
    PROVE  LET b  == s * ((1 + Larger(outer, inner)) - other)
               e  == s * (outer - inner)
               nb == Lowered(b, s, e)
           IN  /\ nb = s * (inner - other)
               /\ Lowered(e, s, -nb) = s * (outer - (1 + Larger(other, inner)))
  <1>1. CASE s = 1
    BY <1>1 DEF Lowered, Larger
  <1>2. CASE s = -1
    BY <1>2 DEF Lowered, Larger
  <1> QED BY <1>1, <1>2 DEF Side, Left, Right

(* A rotation gives the two nodes the balances of their new subtrees.       *)
LEMMA LiftLevels ==
    ASSUME NEW t \in Tree, NEW T, NEW B, Shape(t, T, B), NEW X, NEW V, Leveled(t, T, V, X),
           NEW node \in T, NEW side \in Side, t.child[side][node] # NULL,
           V[t.child[side][node]] = Own(t, V, t.child[side][node])
    PROVE  LET c == t.child[side][node]
               u == Lift(t, node, side)
               W == LiftLevel(t, V, node, side)
           IN  /\ Leveled(u, T, W, X \cup {node, c})
               /\ W[node] = Own(u, W, node)
               /\ W[c] = V[node]
               /\ \A n \in Pointer \ {node, c} : W[n] = V[n]
  <1> DEFINE c     == t.child[side][node]
             inner == t.child[-side][c]
             outer == t.child[side][c]
             other == t.child[-side][node]
             u     == Lift(t, node, side)
             W     == LiftLevel(t, V, node, side)
             nb    == Lowered(t.balance[node], side, t.balance[c])
             cb    == Lowered(t.balance[c], side, -nb)
  <1>1. /\ T \subseteq Node /\ node \in Node /\ c \in T /\ c \in Node /\ c # node /\ -side \in Side
        /\ -side # side /\ NULL \notin Node
    <2>1. T \subseteq Node /\ c \in T /\ -side \in Side /\ -side # side
      BY Sides DEF Shape
    <2>2. node \in Node /\ c # node
      BY ChildFacts
    <2> QED BY <2>1, <2>2, AvlAssumption
  <1>2. /\ u \in Tree
        /\ u.child[side][node] = inner /\ u.child[-side][node] = other
        /\ u.child[-side][c] = node /\ u.child[side][c] = outer
        /\ \A n \in T \ {node, c}, d \in Side :
             u.child[d][n] = IF t.child[d][n] = node THEN c ELSE t.child[d][n]
        /\ u.balance[node] = nb /\ u.balance[c] = cb
        /\ \A n \in Node \ {node, c} : u.balance[n] = t.balance[n]
    BY LiftFields DEF IsLift
  <1>3. /\ inner \in Pointer /\ outer \in Pointer /\ other \in Pointer
        /\ {inner, outer, other} \cap {node, c} = {}
    <2>1. inner \in Pointer /\ outer \in Pointer /\ other \in Pointer
      BY <1>1, ChildFacts
    <2>2. other # c /\ other # node /\ inner # c /\ outer # c
      BY <1>1, ChildFacts
    <2>3. \A d \in Side : t.child[d][c] # node
      <3>1. \A d \in Side : t.child[d][c] # NULL => t.parent[t.child[d][c]] = c
        BY <1>1 DEF Shape
      <3>2. \A d \in Side : t.child[d][c] \in B[c] \/ t.child[d][c] = NULL
        BY <1>1, ChildFacts
      <3>3. node \notin B[c]
        BY ChildFacts
      <3> QED BY <1>1, <3>2, <3>3
    <2> QED BY <1>1, <2>1, <2>2, <2>3
  <1>4. V \in [Pointer -> Nat] /\ V[NULL] = 0
    BY Zenon DEF Leveled
  <1>5. /\ W \in [Pointer -> Nat] /\ W[c] = V[node]
        /\ W[node] = 1 + Larger(V[other], V[inner])
        /\ \A n \in Pointer \ {node, c} : W[n] = V[n]
    <2>1. V[other] \in Nat /\ V[inner] \in Nat /\ c \in Pointer /\ node \in Pointer /\ V[node] \in Nat
      BY <1>1, <1>3, <1>4 DEF Pointer
    <2>2. 1 + Larger(V[other], V[inner]) \in Nat
      BY <2>1 DEF Larger
    <2> HIDE DEF c
    <2> QED BY <1>1, <1>4, <2>1, <2>2, Zenon DEF LiftLevel, c
  <1>6. /\ t.balance[node] = side * (V[c] - V[other])
        /\ t.balance[c] = side * (V[outer] - V[inner])
        /\ V[c] = 1 + Larger(V[outer], V[inner])
    <2>0. \A n \in T : \A d \in Side :
            /\ t.balance[n] = d * (V[t.child[d][n]] - V[t.child[-d][n]])
            /\ Own(t, V, n) = 1 + Larger(V[t.child[d][n]], V[t.child[-d][n]])
      BY <1>1, LevelFacts
    <2>1. t.balance[node] = side * (V[c] - V[other])
      BY <1>1, <2>0, Zenon
    <2>2. t.balance[c] = side * (V[outer] - V[inner])
      BY <1>1, <2>0, Zenon
    <2>3. Own(t, V, c) = 1 + Larger(V[outer], V[inner])
      BY <1>1, <2>0, Zenon
    <2> QED BY <2>1, <2>2, <2>3
  <1>7. V[outer] \in Nat /\ V[inner] \in Nat /\ V[other] \in Nat
    BY <1>3, <1>4
  <1>8. nb = side * (V[inner] - V[other]) /\ cb = side * (V[outer] - W[node])
    <2> HIDE DEF c, inner, outer, other, W
    <2>1. /\ nb = Lowered(side * ((1 + Larger(V[outer], V[inner])) - V[other]), side,
                          side * (V[outer] - V[inner]))
          /\ cb = Lowered(side * (V[outer] - V[inner]), side, -nb)
      BY <1>6 DEF c
    <2> HIDE DEF nb, cb
    <2> QED BY <1>5, <1>7, <2>1, LoweredTwice
  <1> HIDE DEF c, inner, outer, other, u, W, nb, cb
  <1>9. W[inner] = V[inner] /\ W[outer] = V[outer] /\ W[other] = V[other] /\ W[NULL] = 0
    BY <1>1, <1>3, <1>4, <1>5 DEF Pointer
  <1>10. /\ u.balance[node] = W[u.child[Right][node]] - W[u.child[Left][node]]
         /\ W[node] = Own(u, W, node)
    <2>1. u.balance[node] = side * (W[u.child[side][node]] - W[u.child[-side][node]])
      BY <1>2, <1>8, <1>9
    <2>2. W[node] = 1 + Larger(W[u.child[side][node]], W[u.child[-side][node]])
      BY <1>2, <1>5, <1>7, <1>9 DEF Larger
    <2> QED BY <1>1, <1>2, <1>5, <2>1, <2>2, LevelIntro
  <1>11. u.balance[c] = W[u.child[Right][c]] - W[u.child[Left][c]]
    <2>1. u.balance[c] = side * (W[u.child[side][c]] - W[u.child[-side][c]])
      BY <1>2, <1>8, <1>9
    <2> QED BY <1>1, <1>2, <1>5, <2>1, LevelIntro
  <1>12. ASSUME NEW n \in T \ {node, c}, NEW d \in Side
         PROVE  W[u.child[d][n]] = V[t.child[d][n]]
    <2>1. t.child[d][n] \in Pointer
      BY ChildFacts
    <2>2. t.child[d][n] # c
      BY <1>1, PlaceFacts DEF c
    <2> QED BY <1>2, <1>5, <2>1, <2>2
  <1>13. ASSUME NEW n \in T \ {node, c}
         PROVE  /\ u.balance[n] = W[u.child[Right][n]] - W[u.child[Left][n]]
                /\ n \notin X => W[n] = Own(u, W, n) /\ u.balance[n] \in -1 .. 1
    <2>1. W[u.child[Right][n]] = V[t.child[Right][n]] /\ W[u.child[Left][n]] = V[t.child[Left][n]]
      BY <1>12, Sides
    <2>2. u.balance[n] = t.balance[n] /\ W[n] = V[n]
      BY <1>1, <1>2, <1>5 DEF Pointer
    <2>3. Own(u, W, n) = Own(t, V, n)
      BY <2>1 DEF Own
    <2> QED BY <2>1, <2>2, <2>3 DEF Leveled
  <1>14. Leveled(u, T, W, X \cup {node, c})
    BY <1>5, <1>9, <1>10, <1>11, <1>13 DEF Leveled
  <1> QED BY <1>5, <1>10, <1>14 DEF u, W, c

-----------------------------------------------------------------------------
(* Rebalancing one node                                                    *)

Sound(t, T, B, V, X) == t \in Tree /\ Shape(t, T, B) /\ Leveled(t, T, V, X)

\* What no rotation touches.
Alike(u, t) == u.link = t.link /\ u.count = t.count /\ u.follower = t.follower

(* The nodes a rotation moves are all different.                            *)
LEMMA Apart ==
    ASSUME NEW t \in Tree, NEW T, NEW B, Shape(t, T, B),
           NEW node \in T, NEW side \in Side, t.child[side][node] # NULL
    PROVE  LET c     == t.child[side][node]
               inner == t.child[-side][c]
               outer == t.child[side][c]
               other == t.child[-side][node]
           IN  /\ c \in T /\ c # node /\ t.parent[c] = node /\ T \subseteq Node /\ NULL \notin Node
               /\ inner \in Pointer /\ outer \in Pointer /\ other \in Pointer
               /\ {inner, outer, other} \cap {node, c} = {}
               /\ -side \in Side /\ -(-side) = side /\ -side # side
               /\ inner # NULL => inner \in T /\ inner # outer /\ inner # other
               /\ node \notin B[c] /\ c \in B[c] /\ B[c] \subseteq B[node]
  <1> DEFINE c     == t.child[side][node]
             inner == t.child[-side][c]
             outer == t.child[side][c]
             other == t.child[-side][node]
  <1>1. /\ c \in T /\ c # node /\ t.parent[c] = node /\ T \subseteq Node /\ NULL \notin Node
        /\ -side \in Side /\ -(-side) = side /\ -side # side
    <2>1. c \in T /\ T \subseteq Node /\ t.parent[c] = node
      BY DEF Shape
    <2>2. c # node
      BY ChildFacts
    <2> QED BY <2>1, <2>2, Sides, AvlAssumption
  <1>2. inner \in Pointer /\ outer \in Pointer /\ other \in Pointer
    BY <1>1, ChildFacts
  <1>3. other # c /\ other # node /\ inner # c /\ outer # c
    BY <1>1, ChildFacts
  <1>4. /\ node \notin B[c] /\ c \in B[c] /\ B[c] \subseteq B[node] /\ B[c] \cap B[other] = {}
        /\ B[inner] \subseteq B[c] /\ B[outer] \subseteq B[c]
        /\ inner # NULL => inner \in B[inner] /\ inner # outer /\ inner \in T
        /\ outer # NULL => outer \in B[outer]
        /\ other # NULL => other \in B[other]
    <2>1. inner # NULL => inner \in T
      BY <1>1 DEF Shape
    <2>2. /\ node \notin B[c] /\ c \in B[c] /\ B[c] \subseteq B[node] /\ B[c] \cap B[other] = {}
          /\ other # NULL => other \in B[other]
      BY <1>1, ChildFacts
    <2>3. /\ B[inner] \subseteq B[c] /\ B[outer] \subseteq B[c]
          /\ inner # NULL => inner \in B[inner] /\ inner # outer
          /\ outer # NULL => outer \in B[outer]
      BY <1>1, ChildFacts
    <2> QED BY <2>1, <2>2, <2>3
  <1>5. inner # node /\ outer # node
    BY <1>1, <1>4
  <1>6. inner # NULL => inner # other
    BY <1>4
  <1> QED BY <1>1, <1>2, <1>3, <1>4, <1>5, <1>6

(* A node that is not exempt fits.                                          *)
LEMMA Exempt ==
    ASSUME NEW t, NEW T, NEW V, NEW X, NEW n, Leveled(t, T, V, X \cup {n}),
           n \in T => V[n] = Own(t, V, n) /\ t.balance[n] \in -1 .. 1
    PROVE  Leveled(t, T, V, X)
  BY DEF Leveled

(* Node c has taken the place of p, and its subtree has height h.           *)
Rotated(u, t, T, B, V, p, c, h) ==
    /\ \E C, W : Sound(u, T, C, W, {c}) /\ W[c] = V[p] /\ C[c] = B[p] /\ Own(u, W, c) = h
    /\ c \in T /\ u.parent[p] = c /\ u.balance[c] \in -1 .. 1 /\ Alike(u, t)

(* A rotation of a node whose child is two higher than its sibling and does *)
(* not lean the other way.                                                  *)
LEMMA SingleLift ==
    ASSUME NEW t, NEW T, NEW B, NEW V, NEW p \in T, Sound(t, T, B, V, {p}), NEW side \in Side,
           V[t.child[side][p]] = V[t.child[-side][p]] + 2,
           t.balance[t.child[side][p]] = 0 \/ t.balance[t.child[side][p]] = side
    PROVE  LET c == t.child[side][p]
               u == Lift(t, p, side)
           IN  Rotated(u, t, T, B, V, p, c, IF t.balance[c] = 0 THEN V[c] + 1 ELSE V[c])
  <1> DEFINE c     == t.child[side][p]
             inner == t.child[-side][c]
             outer == t.child[side][c]
             other == t.child[-side][p]
             u     == Lift(t, p, side)
             C     == LiftBelow(t, B, p, side)
             W     == LiftLevel(t, V, p, side)
  <1>1. t \in Tree /\ Shape(t, T, B) /\ Leveled(t, T, V, {p}) /\ T \subseteq Node
    BY DEF Sound, Shape
  <1>2. \A n \in T : \A d \in Side :
          /\ V[n] \in Nat /\ V[t.child[d][n]] \in Nat /\ V[t.child[-d][n]] \in Nat
          /\ t.balance[n] = d * (V[t.child[d][n]] - V[t.child[-d][n]])
          /\ Own(t, V, n) = 1 + Larger(V[t.child[d][n]], V[t.child[-d][n]])
          /\ n \notin {p} => V[n] = Own(t, V, n) /\ V[n] > 0 /\ t.balance[n] \in -1 .. 1
    BY <1>1, LevelFacts
  <1>3. V[other] \in Nat /\ V[c] \in Nat /\ V[p] \in Nat
    BY <1>2, Zenon
  <1>4. c # NULL
    BY <1>1, <1>3 DEF Leveled
  <1>5. /\ c \in T /\ c # p /\ NULL \notin Node
        /\ inner \in Pointer /\ outer \in Pointer /\ other \in Pointer
        /\ {inner, outer, other} \cap {p, c} = {}
        /\ -side \in Side /\ -(-side) = side /\ -side # side
    BY <1>1, <1>4, Apart
  <1>6. /\ t.balance[c] = side * (V[outer] - V[inner])
        /\ Own(t, V, c) = 1 + Larger(V[outer], V[inner])
        /\ V[outer] \in Nat /\ V[inner] \in Nat
        /\ V[c] = Own(t, V, c)
    <2>1. c \notin {p}
      BY <1>5
    <2> QED BY <1>2, <1>5, <2>1, Zenon
  <1>7. V[outer] = V[c] - 1 /\ V[inner] = IF t.balance[c] = 0 THEN V[c] - 1 ELSE V[c] - 2
    <2> HIDE DEF c, inner, outer, other
    <2>1. side = 1 \/ side = -1
      BY DEF Side, Left, Right
    <2>2. t.balance[c] = 0 \/ t.balance[c] = side
      BY DEF c
    <2>3. t.balance[c] = 0 => V[outer] = V[inner]
      BY <1>6, <2>1
    <2>4. t.balance[c] = side => V[outer] = V[inner] + 1
      BY <1>6, <2>1
    <2>5. side # 0
      BY <2>1
    <2> QED BY <1>3, <1>6, <2>2, <2>3, <2>4, <2>5 DEF Larger
  <1>8. Shape(u, T, C)
    BY <1>1, <1>4, LiftShape
  <1>9. /\ Leveled(u, T, W, {p} \cup {p, c})
        /\ W[p] = Own(u, W, p) /\ W[c] = V[p]
        /\ \A n \in Pointer \ {p, c} : W[n] = V[n]
    <2>1. V[c] = Own(t, V, c)
      BY <1>6
    <2> QED BY <1>1, <1>4, <2>1, LiftLevels, SMTT(40)
  <1>10. /\ u \in Tree /\ Alike(u, t) /\ u.parent[p] = c
         /\ u.child[side][p] = inner /\ u.child[-side][p] = other
         /\ u.child[-side][c] = p /\ u.child[side][c] = outer
    BY <1>1, <1>4, LiftFields DEF IsLift, Alike
  <1>11. C[c] = B[p]
    <2>1. c \in Pointer /\ p \in Pointer /\ B \in [Pointer -> SUBSET T] /\ c # p
      BY <1>1, <1>5 DEF Pointer, Shape
    <2>2. C = [B EXCEPT ![c] = B[p], ![p] = {p} \cup B[other] \cup B[inner]]
      BY DEF LiftBelow
    <2> HIDE DEF c, C
    <2> QED BY <2>1, <2>2
  <1> HIDE DEF c, inner, outer, other, u, C, W
  <1>12. W[inner] = V[inner] /\ W[outer] = V[outer] /\ W[other] = V[other]
    BY <1>5, <1>9
  <1>13. /\ W \in [Pointer -> Nat] /\ W[p] \in Nat
         /\ \A n \in T : \A d \in Side :
              /\ u.balance[n] = d * (W[u.child[d][n]] - W[u.child[-d][n]])
              /\ Own(u, W, n) = 1 + Larger(W[u.child[d][n]], W[u.child[-d][n]])
    <2>1. \A n \in T : \A d \in Side :
              /\ W[n] \in Nat
              /\ u.balance[n] = d * (W[u.child[d][n]] - W[u.child[-d][n]])
              /\ Own(u, W, n) = 1 + Larger(W[u.child[d][n]], W[u.child[-d][n]])
      <3>1. T \subseteq Node /\ u \in Tree /\ Leveled(u, T, W, {p} \cup {p, c})
        BY <1>1, <1>9, <1>10
      <3>2. \A n \in T : \A d \in Side :
              /\ W[n] \in Nat /\ W[u.child[d][n]] \in Nat /\ W[u.child[-d][n]] \in Nat
              /\ u.balance[n] = d * (W[u.child[d][n]] - W[u.child[-d][n]])
              /\ Own(u, W, n) = 1 + Larger(W[u.child[d][n]], W[u.child[-d][n]])
              /\ n \notin {p} \cup {p, c} =>
                   W[n] = Own(u, W, n) /\ W[n] > 0 /\ u.balance[n] \in -1 .. 1
        BY <3>1, LevelFacts, Zenon
      <3> QED BY <3>2, Zenon
    <2> QED BY <1>9, <2>1, Sides DEF Leveled
  <1>14. /\ u.balance[p] = side * (V[inner] - V[other])
         /\ Own(u, W, p) = 1 + Larger(V[inner], V[other])
    <2>1. /\ u.balance[p] = side * (W[u.child[side][p]] - W[u.child[-side][p]])
          /\ Own(u, W, p) = 1 + Larger(W[u.child[side][p]], W[u.child[-side][p]])
      BY <1>13, Zenon
    <2> QED BY <1>10, <1>12, <2>1
  <1>15. /\ u.balance[c] = side * (V[outer] - W[p])
         /\ Own(u, W, c) = 1 + Larger(V[outer], W[p])
    <2>1. /\ u.balance[c] = side * (W[u.child[side][c]] - W[u.child[-side][c]])
          /\ Own(u, W, c) = 1 + Larger(W[u.child[side][c]], W[u.child[-side][c]])
      BY <1>5, <1>13, Zenon
    <2> QED BY <1>10, <1>12, <2>1
  <1>16. side = 1 \/ side = -1
    BY DEF Side, Left, Right
  <1>17. V[other] = V[c] - 2
    BY <1>3 DEF c, other
  <1>18. /\ u.balance[p] \in -1 .. 1 /\ u.balance[c] \in -1 .. 1
         /\ Own(u, W, c) = IF t.balance[c] = 0 THEN V[c] + 1 ELSE V[c]
    <2>1. W[p] = IF t.balance[c] = 0 THEN V[c] ELSE V[c] - 1
      BY <1>3, <1>7, <1>9, <1>14, <1>17 DEF Larger
    <2>2. /\ V[inner] - V[other] \in {0, 1} /\ V[outer] - W[p] \in {-1, 0}
          /\ Own(u, W, c) = IF t.balance[c] = 0 THEN V[c] + 1 ELSE V[c]
      BY <1>3, <1>7, <1>15, <1>17, <2>1 DEF Larger
    <2>3. \A x \in {-1, 0, 1} : side * x \in -1 .. 1
      BY <1>16
    <2> QED BY <1>14, <1>15, <2>2, <2>3
  <1>19. Leveled(u, T, W, {c})
    <2>1. {p} \cup {p, c} = {c} \cup {p}
      OBVIOUS
    <2>2. Leveled(u, T, W, {c} \cup {p})
      BY <1>9, <2>1
    <2> QED BY <1>9, <1>18, <2>2, Exempt
  <1>20. Sound(u, T, C, W, {c})
    BY <1>8, <1>10, <1>19 DEF Sound
  <1>21. /\ Sound(u, T, C, W, {c}) /\ W[c] = V[p] /\ C[c] = B[p] /\ c \in T
         /\ u.parent[p] = c /\ u.balance[c] \in -1 .. 1 /\ Alike(u, t)
         /\ Own(u, W, c) = IF t.balance[c] = 0 THEN V[c] + 1 ELSE V[c]
    BY <1>5, <1>9, <1>10, <1>11, <1>18, <1>20
  <1> QED BY <1>21 DEF Rotated, c, u

(* A rotation of a node whose child is two higher than its sibling and      *)
(* leans the other way: the child is rotated first.                         *)
LEMMA DoubleLift ==
    ASSUME NEW t, NEW T, NEW B, NEW V, NEW p \in T, Sound(t, T, B, V, {p}), NEW side \in Side,
           V[t.child[side][p]] = V[t.child[-side][p]] + 2,
           t.balance[t.child[side][p]] = -side
    PROVE  LET c    == t.child[side][p]
               g    == t.child[-side][c]
               bent == Lift(t, c, -side)
               u    == Lift(bent, p, side)
           IN  /\ Rotated(u, t, T, B, V, p, g, V[c])
               /\ bent.parent[c] = g /\ bent.parent[g] = p
  <1> DEFINE c     == t.child[side][p]
             other == t.child[-side][p]
             g     == t.child[-side][c]
             near  == t.child[side][c]
             in    == t.child[side][g]
             out   == t.child[-side][g]
             bent  == Lift(t, c, -side)
             BB    == LiftBelow(t, B, c, -side)
             VV    == LiftLevel(t, V, c, -side)
             u     == Lift(bent, p, side)
             C     == LiftBelow(bent, BB, p, side)
             W     == LiftLevel(bent, VV, p, side)
  <1>1. t \in Tree /\ Shape(t, T, B) /\ Leveled(t, T, V, {p}) /\ T \subseteq Node
    BY DEF Sound, Shape
  <1>2. \A n \in T : \A d \in Side :
          /\ V[n] \in Nat /\ V[t.child[d][n]] \in Nat /\ V[t.child[-d][n]] \in Nat
          /\ t.balance[n] = d * (V[t.child[d][n]] - V[t.child[-d][n]])
          /\ Own(t, V, n) = 1 + Larger(V[t.child[d][n]], V[t.child[-d][n]])
          /\ n \notin {p} => V[n] = Own(t, V, n) /\ V[n] > 0 /\ t.balance[n] \in -1 .. 1
    BY <1>1, LevelFacts
  <1>3. V[other] \in Nat /\ V[c] \in Nat /\ V[p] \in Nat
    BY <1>2, Zenon
  <1>4. c # NULL /\ V[NULL] = 0
    BY <1>1, <1>3 DEF Leveled
  <1>5. side = 1 \/ side = -1
    BY DEF Side, Left, Right
  <1>6. /\ c \in T /\ c # p /\ t.parent[c] = p /\ NULL \notin Node
        /\ g \in Pointer /\ near \in Pointer /\ other \in Pointer
        /\ {g, near, other} \cap {p, c} = {}
        /\ -side \in Side /\ -(-side) = side /\ -side # side
        /\ g # NULL => g \in T /\ g # near /\ g # other
        /\ p \notin B[c] /\ B[c] \subseteq B[p]
    BY <1>1, <1>4, Apart
  <1>7. /\ t.balance[c] = side * (V[near] - V[g])
        /\ Own(t, V, c) = 1 + Larger(V[near], V[g])
        /\ V[near] \in Nat /\ V[g] \in Nat
        /\ V[c] = Own(t, V, c)
    <2>1. c \notin {p}
      BY <1>6
    <2> QED BY <1>2, <1>6, <2>1, Zenon
  <1>8. V[near] = V[c] - 2 /\ V[g] = V[c] - 1 /\ V[other] = V[c] - 2
    <2> HIDE DEF c, g, near, other
    <2>1. t.balance[c] = -side /\ V[c] = V[other] + 2
      BY DEF c, other
    <2>2. V[near] = V[g] - 1
      BY <1>5, <1>7, <2>1
    <2> QED BY <1>3, <1>7, <2>1, <2>2 DEF Larger
  <1>9. g # NULL
    BY <1>3, <1>4, <1>8
  <1> HIDE DEF c, other, g, near, in, out, bent, BB, VV, u, C, W
  <1>10. /\ g \in T /\ g # c /\ g # p /\ t.parent[g] = c
         /\ in \in Pointer /\ out \in Pointer
         /\ {in, out} \cap {p, c, g} = {}
         /\ near # g /\ other # g
    <2>1. /\ g \in T /\ g # c /\ t.parent[g] = c /\ in \in Pointer /\ out \in Pointer
          /\ {in, out} \cap {c, g} = {} /\ g \in B[g] /\ B[g] \subseteq B[c]
      <3>1. c \in T /\ -side \in Side /\ -(-side) = side
        BY <1>6
      <3>2. LET inner == t.child[-(-side)][g] IN
            /\ g \in T /\ g # c /\ t.parent[g] = c /\ inner \in Pointer /\ out \in Pointer
            /\ {inner, out, t.child[-(-side)][c]} \cap {c, g} = {} /\ g \in B[g] /\ B[g] \subseteq B[c]
        BY <1>1, <1>9, <3>1, Apart DEF g, out
      <3> QED BY <3>1, <3>2 DEF in
    <2>2. in \in B[g] \cup {NULL} /\ out \in B[g] \cup {NULL}
      <3>1. /\ in # NULL => in \in B[in]
            /\ out # NULL => out \in B[out]
            /\ B[in] \subseteq B[g] /\ B[out] \subseteq B[g]
        <4>1. \A d \in Side : /\ B[t.child[d][g]] \subseteq B[g]
                              /\ t.child[d][g] # NULL => t.child[d][g] \in B[t.child[d][g]]
          BY <1>1, <2>1, ChildFacts
        <4> QED BY <1>6, <4>1 DEF in, out
      <3> QED BY <3>1
    <2>3. p # NULL
      BY <1>1, <1>6
    <2> QED BY <1>6, <1>9, <2>1, <2>2, <2>3
  <1>11. /\ V[in] \in Nat /\ V[out] \in Nat /\ V[g] = 1 + Larger(V[in], V[out])
         /\ V[in] - V[out] \in -1 .. 1
    <2>1. g \notin {p}
      BY <1>10
    <2>2. /\ V[in] \in Nat /\ V[out] \in Nat /\ V[g] = 1 + Larger(V[in], V[out])
          /\ t.balance[g] = side * (V[in] - V[out]) /\ t.balance[g] \in -1 .. 1
      <3>1. /\ V[in] \in Nat /\ V[out] \in Nat /\ V[g] = Own(t, V, g)
            /\ t.balance[g] = side * (V[in] - V[out]) /\ t.balance[g] \in -1 .. 1
            /\ Own(t, V, g) = 1 + Larger(V[in], V[out])
        BY <1>2, <1>10, <2>1, Zenon DEF in, out
      <3> QED BY <3>1
    <2> QED BY <1>5, <2>2
  <1>12. V[in] = V[c] - 2 \/ V[in] = V[c] - 3
    <2>1. V[in] = V[out] \/ V[in] = V[out] + 1 \/ V[out] = V[in] + 1
      BY <1>11
    <2> QED BY <1>3, <1>8, <1>11, <2>1 DEF Larger
  <1>13. V[out] = V[c] - 2 \/ V[out] = V[c] - 3
    <2>1. V[in] = V[out] \/ V[in] = V[out] + 1 \/ V[out] = V[in] + 1
      BY <1>11
    <2> QED BY <1>3, <1>8, <1>11, <2>1 DEF Larger
  \* The child's rotation.
  <1>20. Shape(bent, T, BB)
    BY <1>1, <1>6, <1>9, LiftShape DEF g, bent, BB
  <1>21. /\ Leveled(bent, T, VV, {p} \cup {c, g})
         /\ VV[c] = Own(bent, VV, c) /\ VV[g] = V[c]
         /\ \A n \in Pointer \ {c, g} : VV[n] = V[n]
    <2>1. V[g] = Own(t, V, g)
      <3>1. g \notin {p}
        BY <1>10
      <3> QED BY <1>2, <1>10, <3>1, <1>6, Zenon
    <2>2. c \in T /\ -side \in Side
      BY <1>6
    <2> QED BY <1>1, <1>9, <2>1, <2>2, LiftLevels DEF g, bent, VV
  <1>22. /\ bent \in Tree /\ Alike(bent, t)
         /\ bent.child[-side][c] = in /\ bent.child[side][c] = near
         /\ bent.child[side][g] = c /\ bent.child[-side][g] = out
         /\ \A n \in T \ {c, g}, d \in Side :
              bent.child[d][n] = IF t.child[d][n] = c THEN g ELSE t.child[d][n]
         /\ bent.parent[g] = t.parent[c] /\ bent.parent[c] = g
    <2>1. PICK e \in Side : e = -side /\ -e = side
      BY <1>6
    <2>2. IsLift(bent, t, T, c, e)
      BY <1>1, <1>6, <1>9, <2>1, LiftFields DEF g, bent
    <2>4. /\ bent \in Tree /\ bent.count = t.count /\ bent.link = t.link /\ bent.follower = t.follower
          /\ bent.child[-side][c] = in /\ bent.child[side][c] = near
          /\ bent.child[side][g] = c /\ bent.child[-side][g] = out
          /\ \A n \in T \ {c, g}, d \in Side :
              bent.child[d][n] = IF t.child[d][n] = c THEN g ELSE t.child[d][n]
          /\ bent.parent[g] = t.parent[c] /\ bent.parent[c] = g
      BY <2>1, <2>2 DEF IsLift, in, out, near, g
    <2> QED BY <2>4 DEF Alike
  <1>23. BB[p] = B[p] /\ BB \in [Pointer -> SUBSET T]
    <2>1. c \in Pointer /\ g \in Pointer /\ p \in Pointer /\ B \in [Pointer -> SUBSET T]
      BY <1>1, <1>6, <1>10 DEF Pointer, Shape
    <2>2. BB \in [Pointer -> SUBSET T]
      BY <1>20 DEF Shape
    <2>3. BB = [B EXCEPT ![g] = B[c], ![c] = {c} \cup B[t.child[-(-side)][c]] \cup B[t.child[-(-side)][g]]]
      BY DEF LiftBelow, BB, g
    <2> QED BY <1>6, <1>10, <2>1, <2>2, <2>3
  <1>24. /\ bent.child[side][p] = g /\ bent.child[-side][p] = other
    <2>1. t.child[side][p] = c /\ t.child[-side][p] = other /\ p \in T \ {c, g}
      BY <1>6, <1>10 DEF c, other
    <2> QED BY <1>6, <1>22, <2>1
  <1>25. /\ VV[in] = V[in] /\ VV[out] = V[out] /\ VV[near] = V[near] /\ VV[other] = V[other]
         /\ VV[p] = V[p]
    <2>1. p \in Pointer \ {c, g}
      BY <1>1, <1>6, <1>10 DEF Pointer
    <2> QED BY <1>6, <1>10, <1>21, <2>1
  <1>26. \A n \in T : \A d \in Side :
              /\ bent.balance[n] = d * (VV[bent.child[d][n]] - VV[bent.child[-d][n]])
              /\ Own(bent, VV, n) = 1 + Larger(VV[bent.child[d][n]], VV[bent.child[-d][n]])
    <2>1. \A n \in T : \A d \in Side :
              /\ VV[n] \in Nat /\ VV[bent.child[d][n]] \in Nat /\ VV[bent.child[-d][n]] \in Nat
              /\ bent.balance[n] = d * (VV[bent.child[d][n]] - VV[bent.child[-d][n]])
              /\ Own(bent, VV, n) = 1 + Larger(VV[bent.child[d][n]], VV[bent.child[-d][n]])
              /\ n \notin {p} \cup {c, g} =>
                   VV[n] = Own(bent, VV, n) /\ VV[n] > 0 /\ bent.balance[n] \in -1 .. 1
      <3>1. bent \in Tree /\ Leveled(bent, T, VV, {p} \cup {c, g}) /\ T \subseteq Node
        BY <1>1, <1>21, <1>22
      <3> QED BY <3>1, LevelFacts, Zenon
    <2> QED BY <2>1, Zenon
  <1>27. VV[c] = V[c] - 1 /\ bent.balance[c] \in -1 .. 1
    <2>1. /\ bent.balance[c] = side * (VV[bent.child[side][c]] - VV[bent.child[-side][c]])
          /\ Own(bent, VV, c) = 1 + Larger(VV[bent.child[side][c]], VV[bent.child[-side][c]])
      BY <1>6, <1>26, Zenon
    <2>2. bent.balance[c] = side * (V[near] - V[in]) /\ VV[c] = 1 + Larger(V[near], V[in])
      BY <1>21, <1>22, <1>25, <2>1
    <2>3. V[near] - V[in] = 0 \/ V[near] - V[in] = 1
      BY <1>3, <1>8, <1>12
    <2>4. VV[c] = V[c] - 1
      BY <1>3, <1>8, <1>12, <2>2 DEF Larger
    <2> QED BY <1>5, <2>2, <2>3, <2>4
  <1>28. Leveled(bent, T, VV, {p, g})
    <2>1. {p} \cup {c, g} = {p, g} \cup {c}
      OBVIOUS
    <2>2. Leveled(bent, T, VV, {p, g} \cup {c})
      BY <1>21, <2>1
    <2> QED BY <1>21, <1>27, <2>2, Exempt
  <1>29. VV[g] = Own(bent, VV, g)
    <2>1. Own(bent, VV, g) = 1 + Larger(VV[bent.child[side][g]], VV[bent.child[-side][g]])
      BY <1>10, <1>26, Zenon
    <2>2. Own(bent, VV, g) = 1 + Larger(VV[c], V[out])
      BY <1>22, <1>25, <2>1
    <2> QED BY <1>3, <1>13, <1>21, <1>27, <2>2 DEF Larger
  \* The node's rotation.
  <1>30. Shape(u, T, C)
    BY <1>9, <1>20, <1>22, <1>24, LiftShape DEF u, C
  <1>31. /\ Leveled(u, T, W, {p, g} \cup {p, g})
         /\ W[p] = Own(u, W, p) /\ W[g] = V[p]
         /\ \A n \in Pointer \ {p, g} : W[n] = VV[n]
    <2>1. bent.child[side][p] # NULL /\ VV[bent.child[side][p]] = Own(bent, VV, bent.child[side][p])
      BY <1>9, <1>24, <1>29
    <2>2. /\ Leveled(u, T, W, {p, g} \cup {p, bent.child[side][p]})
          /\ W[p] = Own(u, W, p) /\ W[bent.child[side][p]] = VV[p]
          /\ \A n \in Pointer \ {p, bent.child[side][p]} : W[n] = VV[n]
      BY <1>20, <1>22, <1>28, <2>1, LiftLevels DEF u, W
    <2> QED BY <1>24, <1>25, <2>2
  <1>32. /\ u \in Tree /\ Alike(u, t) /\ u.parent[p] = g
         /\ u.child[side][p] = out /\ u.child[-side][p] = other
         /\ u.child[-side][g] = p /\ u.child[side][g] = c
    <2>1. bent.child[side][p] # NULL
      BY <1>9, <1>24
    <2>2. IsLift(u, bent, T, p, side)
      BY <1>20, <1>22, <2>1, LiftFields DEF u
    <2>3. /\ u \in Tree /\ u.count = bent.count /\ u.link = bent.link /\ u.follower = bent.follower
          /\ u.parent[p] = g
          /\ u.child[side][p] = bent.child[-side][g] /\ u.child[-side][p] = bent.child[-side][p]
          /\ u.child[-side][g] = p /\ u.child[side][g] = bent.child[side][g]
      BY <1>24, <2>2 DEF IsLift
    <2> QED BY <1>22, <1>24, <2>3 DEF Alike
  <1>33. C[g] = B[p]
    <2>1. g \in Pointer /\ p \in Pointer /\ g # p
      BY <1>1, <1>10 DEF Pointer
    <2>2. C = [BB EXCEPT ![g] = BB[p], ![p] = {p} \cup BB[bent.child[-side][p]] \cup BB[bent.child[-side][g]]]
      BY <1>24 DEF LiftBelow, C
    <2> QED BY <1>23, <2>1, <2>2
  <1>34. W[c] = VV[c] /\ W[out] = V[out] /\ W[other] = V[other]
    <2>1. c \in Pointer
      BY <1>1, <1>6 DEF Pointer
    <2> QED BY <1>6, <1>10, <1>25, <1>31, <2>1
  <1>35. \A n \in T : \A d \in Side :
              /\ u.balance[n] = d * (W[u.child[d][n]] - W[u.child[-d][n]])
              /\ Own(u, W, n) = 1 + Larger(W[u.child[d][n]], W[u.child[-d][n]])
    <2>1. \A n \in T : \A d \in Side :
              /\ W[n] \in Nat /\ W[u.child[d][n]] \in Nat /\ W[u.child[-d][n]] \in Nat
              /\ u.balance[n] = d * (W[u.child[d][n]] - W[u.child[-d][n]])
              /\ Own(u, W, n) = 1 + Larger(W[u.child[d][n]], W[u.child[-d][n]])
              /\ n \notin {p, g} =>
                   W[n] = Own(u, W, n) /\ W[n] > 0 /\ u.balance[n] \in -1 .. 1
      <3>1. u \in Tree /\ Leveled(u, T, W, {p, g}) /\ T \subseteq Node
        <4>1. {p, g} \cup {p, g} = {p, g}
          OBVIOUS
        <4> QED BY <1>1, <1>31, <1>32, <4>1
      <3> QED BY <3>1, LevelFacts
    <2> QED BY <2>1, Zenon
  <1>36. W[p] = V[c] - 1 /\ u.balance[p] \in -1 .. 1
    <2>1. /\ u.balance[p] = side * (W[u.child[side][p]] - W[u.child[-side][p]])
          /\ Own(u, W, p) = 1 + Larger(W[u.child[side][p]], W[u.child[-side][p]])
      BY <1>35, Zenon
    <2>2. u.balance[p] = side * (V[out] - V[other]) /\ W[p] = 1 + Larger(V[out], V[other])
      BY <1>31, <1>32, <1>34, <2>1
    <2>3. V[out] - V[other] = 0 \/ V[out] - V[other] = -1
      BY <1>3, <1>8, <1>13
    <2>4. W[p] = V[c] - 1
      BY <1>3, <1>8, <1>13, <2>2 DEF Larger
    <2> QED BY <1>5, <2>2, <2>3, <2>4
  <1>37. Own(u, W, g) = V[c] /\ u.balance[g] \in -1 .. 1
    <2>1. /\ u.balance[g] = side * (W[u.child[side][g]] - W[u.child[-side][g]])
          /\ Own(u, W, g) = 1 + Larger(W[u.child[side][g]], W[u.child[-side][g]])
      BY <1>10, <1>35, Zenon
    <2>2. u.balance[g] = side * (VV[c] - W[p]) /\ Own(u, W, g) = 1 + Larger(VV[c], W[p])
      BY <1>32, <1>34, <2>1
    <2> QED BY <1>3, <1>5, <1>27, <1>36, <2>2 DEF Larger
  <1>38. Leveled(u, T, W, {g})
    <2>1. {p, g} \cup {p, g} = {g} \cup {p}
      OBVIOUS
    <2>2. Leveled(u, T, W, {g} \cup {p})
      BY <1>31, <2>1
    <2> QED BY <1>31, <1>36, <2>2, Exempt
  <1>39. Sound(u, T, C, W, {g})
    BY <1>30, <1>32, <1>38 DEF Sound
  <1>40. /\ Sound(u, T, C, W, {g}) /\ W[g] = V[p] /\ C[g] = B[p] /\ g \in T
         /\ u.parent[p] = g /\ u.balance[g] \in -1 .. 1 /\ Alike(u, t)
         /\ bent.parent[c] = g /\ bent.parent[g] = p
         /\ Own(u, W, g) = V[c]
    BY <1>6, <1>10, <1>22, <1>31, <1>32, <1>33, <1>37, <1>39
  <1> QED BY <1>40, Zenon DEF Rotated, c, g, bent, u

-----------------------------------------------------------------------------
(* Rebalancing after an insertion                                          *)

(* A parent is told that the height of node's subtree has changed.          *)
Told(t, node, b) == [t EXCEPT !.balance[t.parent[node]] = b]
Known(t, V, node) == [V EXCEPT ![node] = Own(t, V, node)]

Noticed(t, T, B, V, node, b) ==
    LET p     == t.parent[node]
        side  == SideOf(t, node)
        other == t.child[-side][p]
        u     == Told(t, node, b)
        W     == Known(t, V, node)
    IN  /\ Sound(u, T, B, W, {p}) /\ Alike(u, t) /\ p \in T /\ p # node /\ side \in Side
        /\ u.child = t.child /\ u.parent = t.parent /\ u.root = t.root
        /\ u.balance[p] = b /\ \A n \in T \ {p} : u.balance[n] = t.balance[n]
        /\ t.child[side][p] = node /\ p # NULL
        /\ V[node] \in Nat /\ V[other] \in Nat /\ Own(t, V, node) \in Nat /\ V[p] \in Nat
        /\ W[node] = Own(t, V, node) /\ W[other] = V[other] /\ W[p] = V[p]
        /\ t.balance[p] = side * (V[node] - V[other]) /\ t.balance[p] \in -1 .. 1
        /\ V[p] = 1 + Larger(V[node], V[other])
        /\ Own(u, W, p) = 1 + Larger(W[node], V[other])

LEMMA Notice ==
    ASSUME NEW t, NEW T, NEW B, NEW V, NEW node \in T, Sound(t, T, B, V, {node}),
           node # t.root, t.balance[node] \in -1 .. 1,
           NEW b, b = t.balance[t.parent[node]] + SideOf(t, node) * (Own(t, V, node) - V[node])
    PROVE  Noticed(t, T, B, V, node, b)
  <1> DEFINE p     == t.parent[node]
             side  == SideOf(t, node)
             other == t.child[-side][p]
             u     == [t EXCEPT !.balance[p] = b]
             W     == [V EXCEPT ![node] = Own(t, V, node)]
  <1>1. t \in Tree /\ Shape(t, T, B) /\ Leveled(t, T, V, {node}) /\ T \subseteq Node /\ NULL \notin Node
    BY AvlAssumption DEF Sound, Shape
  <1>2. /\ p \in T /\ p # node /\ side \in Side /\ t.child[side][p] = node
        /\ \A m \in T, d \in Side : t.child[d][m] = node => m = p /\ d = side
    BY <1>1, PlaceFacts
  <1>3. other \in Pointer /\ other # node /\ -side \in Side
    <2>1. t.child[side][p] # NULL
      BY <1>1, <1>2
    <2> QED BY <1>1, <1>2, <2>1, ChildFacts
  <1>4. \A n \in T : \A d \in Side :
          /\ V[n] \in Nat /\ V[t.child[d][n]] \in Nat /\ V[t.child[-d][n]] \in Nat
          /\ t.balance[n] = d * (V[t.child[d][n]] - V[t.child[-d][n]])
          /\ Own(t, V, n) = 1 + Larger(V[t.child[d][n]], V[t.child[-d][n]])
          /\ n \notin {node} => V[n] = Own(t, V, n) /\ V[n] > 0 /\ t.balance[n] \in -1 .. 1
    BY <1>1, LevelFacts
  <1> HIDE DEF p, side, other, u, W
  <1>5. /\ V[p] \in Nat /\ V[other] \in Nat /\ V[node] \in Nat
        /\ t.balance[p] = side * (V[node] - V[other]) /\ t.balance[p] \in -1 .. 1
        /\ V[p] = 1 + Larger(V[node], V[other])
    <2>1. p \notin {node}
      BY <1>2
    <2>2. /\ V[p] \in Nat /\ V[t.child[side][p]] \in Nat /\ V[t.child[-side][p]] \in Nat
          /\ t.balance[p] = side * (V[t.child[side][p]] - V[t.child[-side][p]])
          /\ Own(t, V, p) = 1 + Larger(V[t.child[side][p]], V[t.child[-side][p]])
          /\ V[p] = Own(t, V, p) /\ V[p] > 0 /\ t.balance[p] \in -1 .. 1
      BY <1>2, <1>4, <2>1, Zenon
    <2> QED BY <1>2, <2>2 DEF other
  <1>6. Own(t, V, node) \in Nat
    <2>1. /\ V[t.child[side][node]] \in Nat /\ V[t.child[-side][node]] \in Nat
          /\ Own(t, V, node) = 1 + Larger(V[t.child[side][node]], V[t.child[-side][node]])
      BY <1>2, <1>4, Zenon
    <2> QED BY <2>1 DEF Larger
  <1>7. W \in [Pointer -> Nat] /\ W[node] = Own(t, V, node) /\ \A n \in Pointer \ {node} : W[n] = V[n]
    <2>1. V \in [Pointer -> Nat] /\ node \in Pointer
      BY <1>1 DEF Leveled, Pointer
    <2> QED BY <1>6, <2>1 DEF W
  <1>8. W[NULL] = 0 /\ W[other] = V[other] /\ W[p] = V[p]
    <2>1. V[NULL] = 0 /\ NULL \in Pointer \ {node} /\ p \in Pointer \ {node}
      BY <1>1, <1>2 DEF Leveled, Pointer
    <2> QED BY <1>3, <1>7, <2>1
  <1>9. b = side * (W[node] - W[other]) /\ b \in Int
    <2>1. side = 1 \/ side = -1
      BY <1>2 DEF Side, Left, Right
    <2>2. b = side * (V[node] - V[other]) + side * (W[node] - V[node])
      BY <1>5, <1>7 DEF p, side
    <2>3. W[node] \in Nat /\ W[other] = V[other]
      BY <1>6, <1>7, <1>8
    <2> QED BY <1>5, <2>1, <2>2, <2>3
  <1>10. /\ u \in Tree /\ u.balance[p] = b /\ \A n \in Node \ {p} : u.balance[n] = t.balance[n]
         /\ u.child = t.child /\ u.parent = t.parent /\ u.root = t.root /\ Alike(u, t)
    <2>1. p \in Node /\ b \in Int
      BY <1>1, <1>2, <1>9
    <2> QED BY <1>1, <2>1 DEF u, Tree, Alike
  <1>11. Shape(u, T, B)
    BY <1>1, <1>10 DEF Shape
  <1>12. \A n \in T, d \in Side : t.child[d][n] \in Pointer /\ u.child[d][n] = t.child[d][n]
    BY <1>1, <1>10, ChildFacts
  <1>13. u.balance[p] = W[u.child[Right][p]] - W[u.child[Left][p]]
    <2>1. u.balance[p] = side * (W[u.child[side][p]] - W[u.child[-side][p]])
      BY <1>2, <1>9, <1>10 DEF other
    <2>2. p \in Node
      BY <1>1, <1>2
    <2> QED BY <1>2, <1>7, <1>10, <2>1, <2>2, LevelIntro
  <1>14. ASSUME NEW n \in T \ {p}, NEW d \in Side PROVE W[u.child[d][n]] = V[t.child[d][n]]
    <2>1. t.child[d][n] # node
      BY <1>2
    <2> QED BY <1>7, <1>12, <2>1
  <1>15. ASSUME NEW n \in T \ {p}
         PROVE  /\ u.balance[n] = W[u.child[Right][n]] - W[u.child[Left][n]]
                /\ W[n] = Own(u, W, n) /\ u.balance[n] \in -1 .. 1
    <2>1. W[u.child[Right][n]] = V[t.child[Right][n]] /\ W[u.child[Left][n]] = V[t.child[Left][n]]
      BY <1>14, Sides
    <2>2. Own(u, W, n) = Own(t, V, n)
      BY <2>1 DEF Own
    <2>3. u.balance[n] = t.balance[n]
      BY <1>1, <1>10
    <2>4. t.balance[n] = V[t.child[Right][n]] - V[t.child[Left][n]]
      BY <1>1 DEF Leveled
    <2>5. CASE n = node
      BY <1>7, <2>1, <2>2, <2>3, <2>4, <2>5
    <2>6. CASE n # node
      <3>1. V[n] = Own(t, V, n) /\ t.balance[n] \in -1 .. 1
        BY <1>1, <2>6 DEF Leveled
      <3>2. W[n] = V[n]
        BY <1>1, <1>7, <2>6 DEF Pointer
      <3> QED BY <2>1, <2>2, <2>3, <2>4, <3>1, <3>2
    <2> QED BY <2>5, <2>6
  <1>16. Leveled(u, T, W, {p})
    BY <1>7, <1>8, <1>13, <1>15 DEF Leveled
  <1>17. Own(u, W, p) = 1 + Larger(W[node], V[other])
    <2>1. p \in Node
      BY <1>1, <1>2
    <2>2. Own(u, W, p) = 1 + Larger(W[u.child[side][p]], W[u.child[-side][p]])
      BY <1>2, <1>7, <1>10, <2>1, LevelIntro
    <2> QED BY <1>2, <1>8, <1>10, <2>2 DEF other
  <1>18. Sound(u, T, B, W, {p})
    BY <1>10, <1>11, <1>16 DEF Sound
  <1>19. u = Told(t, node, b) /\ W = Known(t, V, node)
    BY Zenon DEF Told, Known, u, W, p
  <1> HIDE DEF Noticed
  <1> QED BY <1>1, <1>2, <1>5, <1>6, <1>7, <1>8, <1>10, <1>17, <1>18, <1>19, Zenon DEF Noticed, p, side, other

(* A subtree of the tree has grown by one, and does not lean to both sides. *)
Grown(t, T, B, V, node) ==
    /\ Sound(t, T, B, V, {node}) /\ node \in T
    /\ Own(t, V, node) = V[node] + 1 /\ t.balance[node] \in {-1, 1}

(* The heights of a finished tree fit everywhere.                           *)
LEMMA Settled ==
    ASSUME NEW t, NEW T, NEW B, NEW V, NEW n, Sound(t, T, B, V, {n}),
           V[n] = Own(t, V, n), t.balance[n] \in -1 .. 1
    PROVE  Sound(t, T, B, V, {})
  BY DEF Sound, Leveled

(* The root has no parent to tell.                                          *)
LEMMA RootSettled ==
    ASSUME NEW t, NEW T, NEW B, NEW V, NEW node \in T, Sound(t, T, B, V, {node}),
           node = t.root, t.balance[node] \in -1 .. 1
    PROVE  Sound(t, T, B, Known(t, V, node), {})
  <1> DEFINE W == Known(t, V, node)
  <1>1. t \in Tree /\ Shape(t, T, B) /\ T \subseteq Node /\ node # NULL
    <2>1. t \in Tree /\ Shape(t, T, B) /\ T \subseteq Node
      BY DEF Sound, Shape
    <2> QED BY <2>1, AvlAssumption
  <1>3. V \in [Pointer -> Nat] /\ node \in Pointer /\ Leveled(t, T, V, {node})
    BY <1>1 DEF Sound, Leveled, Shape, Pointer
  <1>4. Own(t, V, node) \in Nat
    <2>1. t.child[Left][node] \in Pointer /\ t.child[Right][node] \in Pointer
      BY <1>1, Sides, ChildFacts
    <2>2. V[t.child[Left][node]] \in Nat /\ V[t.child[Right][node]] \in Nat
      BY <1>3, <2>1
    <2> QED BY <2>2 DEF Own, Larger
  <1>5. /\ W \in [Pointer -> Nat] /\ W[node] = Own(t, V, node) /\ W[NULL] = 0
        /\ \A n \in Pointer \ {node} : W[n] = V[n]
    <2>1. V[NULL] = 0 /\ NULL \in Pointer
      BY <1>3 DEF Leveled, Pointer
    <2> QED BY <1>1, <1>3, <1>4, <2>1 DEF Known
  <1> HIDE DEF W
  <1>6. \A n \in T, d \in Side : t.child[d][n] \in Pointer \ {node}
    <2>1. \A n \in T, d \in Side : t.child[d][n] # node
      BY <1>1, PlaceFacts
    <2>2. \A n \in T, d \in Side : t.child[d][n] \in Pointer
      BY <1>1, ChildFacts
    <2> QED BY <2>1, <2>2
  <1>7. \A n \in T, d \in Side : W[t.child[d][n]] = V[t.child[d][n]]
    BY <1>5, <1>6
  <1>8. \A n \in T : /\ W[t.child[Left][n]] = V[t.child[Left][n]]
                     /\ W[t.child[Right][n]] = V[t.child[Right][n]]
    BY <1>7, Sides
  <1>9. \A n \in T : Own(t, W, n) = Own(t, V, n)
    BY <1>8 DEF Own
  <1>10. \A n \in T \ {node} : W[n] = V[n]
    BY <1>1, <1>5 DEF Shape, Pointer
  <1>11. Leveled(t, T, W, {})
    <2>1. \A n \in T : t.balance[n] = W[t.child[Right][n]] - W[t.child[Left][n]]
      BY <1>3, <1>8 DEF Leveled
    <2>3. \A n \in T \ {node} : W[n] = Own(t, W, n) /\ t.balance[n] \in -1 .. 1
      BY <1>3, <1>9, <1>10 DEF Leveled
    <2>4. W[node] = Own(t, W, node)
      BY <1>1, <1>5, <1>9
    <2> QED BY <1>5, <2>1, <2>3, <2>4 DEF Leveled
  <1>12. Sound(t, T, B, W, {})
    BY <1>1, <1>11 DEF Sound
  <1> QED BY <1>12 DEF W

(* One round: done, or the parent's subtree is the one that has grown.      *)
LEMMA InsertStep ==
    ASSUME NEW t, NEW T, NEW B, NEW V, NEW node, Grown(t, T, B, V, node)
    PROVE  LET s == PostInsertRound(Climb(t, node))
           IN  /\ Alike(s.tree, t)
               /\ \E C, W : \/ s.node = NULL /\ Sound(s.tree, T, C, W, {})
                            \/ /\ Grown(s.tree, T, C, W, s.node)
                               /\ Cardinality(C[s.node]) > Cardinality(B[node])
  <1> DEFINE p     == t.parent[node]
             side  == SideOf(t, node)
             b     == t.balance[p] + side
             up    == Told(t, node, b)
             W     == Known(t, V, node)
             bent  == Lift(up, node, -side)
             other == t.child[-side][p]
             s     == PostInsertRound(Climb(t, node))
  <1>1. /\ t \in Tree /\ Shape(t, T, B) /\ node \in T /\ Sound(t, T, B, V, {node}) /\ node # NULL
        /\ Own(t, V, node) = V[node] + 1 /\ t.balance[node] \in {-1, 1}
    <2>1. t \in Tree /\ Shape(t, T, B) /\ node \in T /\ T \subseteq Node /\ Sound(t, T, B, V, {node})
      BY DEF Grown, Sound, Shape
    <2> QED BY <2>1, AvlAssumption DEF Grown
  <1>2. CASE node = t.root
    <2>1. p = NULL
      BY <1>1, <1>2, PlaceFacts
    <2>2. s = Climb(t, NULL)
      BY <1>1, <2>1 DEF PostInsertRound, Climb
    <2>3. t.balance[node] \in -1 .. 1
      BY <1>1
    <2>4. Sound(t, T, B, W, {})
      BY <1>1, <1>2, <2>3, RootSettled
    <2> QED BY <2>2, <2>4 DEF Climb, Alike
  <1>3. CASE node # t.root
    <2>0. b = t.balance[p] + side * (Own(t, V, node) - V[node]) /\ t.balance[node] \in -1 .. 1
      <3>1. V \in [Pointer -> Nat] /\ node \in Pointer
        BY <1>1 DEF Sound, Leveled, Shape, Pointer
      <3>2. V[node] \in Nat
        BY <3>1
      <3>3. Own(t, V, node) - V[node] = 1
        BY <1>1, <3>2
      <3>4. side \in Int
        BY <1>1, <1>3, PlaceFacts, Sides
      <3> HIDE DEF p, side
      <3> QED BY <1>1, <3>3, <3>4
    <2>1. /\ Sound(up, T, B, W, {p}) /\ Alike(up, t) /\ p \in T /\ p # node /\ side \in Side
          /\ up.child = t.child /\ up.parent = t.parent /\ up.root = t.root
          /\ up.balance[p] = b /\ \A n \in T \ {p} : up.balance[n] = t.balance[n]
          /\ t.child[side][p] = node /\ p # NULL
          /\ V[node] \in Nat /\ V[other] \in Nat /\ Own(t, V, node) \in Nat /\ V[p] \in Nat
          /\ W[node] = Own(t, V, node) /\ W[other] = V[other] /\ W[p] = V[p]
          /\ t.balance[p] = side * (V[node] - V[other]) /\ t.balance[p] \in -1 .. 1
          /\ V[p] = 1 + Larger(V[node], V[other])
          /\ Own(up, W, p) = 1 + Larger(W[node], V[other])
      <3>1. Noticed(t, T, B, V, node, b)
        <4> HIDE DEF b
        <4> QED BY <1>1, <1>3, <2>0, Notice, Zenon
      <3> HIDE DEF b
      <3> QED BY <3>1 DEF Noticed
    <2>2. s = IF up.balance[p] = 0 THEN Climb(up, NULL)
              ELSE IF up.balance[p] = side THEN Climb(up, p)
              ELSE IF up.balance[node] = side THEN Climb(Lift(up, p, side), NULL)
              ELSE Climb(Lift(bent, bent.parent[bent.parent[node]], side), NULL)
      <3>1. up = [t EXCEPT !.balance[p] = @ + side]
        BY DEF Told
      <3> HIDE DEF up
      <3> QED BY <1>1, <2>1, <3>1, Zenon DEF PostInsertRound, Climb
    <2> HIDE DEF p, side, b, up, W, bent, other, s
    <2>3. side = 1 \/ side = -1
      BY <2>1 DEF Side, Left, Right
    <2>4. /\ W[node] = V[node] + 1 /\ b = t.balance[p] + side
          /\ t.balance[p] = 0 \/ t.balance[p] = side \/ t.balance[p] = -side
      BY <1>1, <2>1, <2>3 DEF b
    <2>5. CASE b = 0
      <3>1. t.balance[p] = -side
        BY <2>1, <2>3, <2>4, <2>5
      <3>2. V[other] = V[node] + 1
        BY <2>1, <2>3, <3>1
      <3>3. W[p] = Own(up, W, p)
        BY <2>1, <2>4, <3>2 DEF Larger
      <3>4. Sound(up, T, B, W, {})
        BY <2>1, <2>5, <3>3, Settled
      <3>5. s = Climb(up, NULL)
        BY <2>1, <2>2, <2>5
      <3> QED BY <2>1, <3>4, <3>5 DEF Climb, s
    <2>6. CASE b = side
      <3>1. V[other] = V[node] /\ side # 0 /\ b \in {-1, 1}
        <4>1. t.balance[p] = 0
          BY <2>1, <2>3, <2>4, <2>6
        <4>2. V[node] - V[other] = 0
          BY <2>1, <2>3, <4>1
        <4>3. V[node] \in Nat /\ V[other] \in Nat
          BY <2>1
        <4>4. V[other] = V[node]
          BY <4>2, <4>3
        <4> QED BY <2>3, <2>6, <4>4
      <3>2. Own(up, W, p) = W[p] + 1
        BY <2>1, <2>4, <3>1 DEF Larger
      <3>3. Grown(up, T, B, W, p)
        BY <2>1, <3>1, <3>2 DEF Grown
      <3>4. s = Climb(up, p)
        BY <2>1, <2>2, <2>6, <3>1
      <3>5. Cardinality(B[p]) > Cardinality(B[node])
        BY <1>1, <2>1, SubtreeSize
      <3> QED BY <2>1, <3>3, <3>4, <3>5 DEF Climb, s
    <2>7. CASE b # 0 /\ b # side
      <3>1. t.balance[p] = side /\ W[node] = V[other] + 2
        BY <2>1, <2>3, <2>4, <2>7
      <3>2. /\ W[up.child[side][p]] = W[up.child[-side][p]] + 2
            /\ up.child[side][p] = node /\ up.balance[node] = t.balance[node] /\ node # p
        BY <1>1, <2>1, <3>1 DEF other
      <3>3. V[p] = W[node] /\ side # 0
        BY <2>1, <2>3, <2>4, <3>1 DEF Larger
      <3>4. CASE t.balance[node] = side
        <4> DEFINE v == Lift(up, p, side)
        <4>1. s = Climb(v, NULL)
          BY <2>1, <2>2, <2>7, <3>2, <3>4
        <4>2. Rotated(v, up, T, B, W, p, node, IF up.balance[node] = 0 THEN W[node] + 1 ELSE W[node])
          <5>1. p \in T /\ side \in Side /\ Sound(up, T, B, W, {p})
            BY <2>1
          <5>2. up.balance[up.child[side][p]] = side
            BY <3>2, <3>4
          <5>3. Rotated(v, up, T, B, W, p, up.child[side][p],
                        IF up.balance[up.child[side][p]] = 0 THEN W[up.child[side][p]] + 1
                                                             ELSE W[up.child[side][p]])
            BY <3>2, <5>1, <5>2, SingleLift
          <5> QED BY <3>2, <5>3
        <4>3. PICK C, Z : /\ Sound(v, T, C, Z, {node}) /\ Z[node] = W[p]
                          /\ v.balance[node] \in -1 .. 1 /\ Alike(v, up)
                          /\ Own(v, Z, node) = IF up.balance[node] = 0 THEN W[node] + 1 ELSE W[node]
          BY <4>2 DEF Rotated
        <4>4. Z[node] = Own(v, Z, node)
          BY <2>1, <3>2, <3>3, <3>4, <4>3
        <4>5. Sound(v, T, C, Z, {})
          BY <4>3, <4>4, Settled
        <4> QED BY <2>1, <4>1, <4>3, <4>5 DEF Climb, Alike, s
      <3>5. CASE t.balance[node] # side
        <4> DEFINE g == up.child[-side][node]
                   v == Lift(bent, p, side)
        <4>1. t.balance[node] = -side
          BY <1>1, <2>3, <3>5
        <4>2. /\ Rotated(v, up, T, B, W, p, g, W[node])
              /\ bent.parent[node] = g /\ bent.parent[g] = p
          <5>1. p \in T /\ side \in Side /\ Sound(up, T, B, W, {p})
            BY <2>1
          <5>2. up.balance[up.child[side][p]] = -side
            BY <3>2, <4>1
          <5>3. LET c  == up.child[side][p]
                    gg == up.child[-side][c]
                IN  /\ Rotated(Lift(Lift(up, c, -side), p, side), up, T, B, W, p, gg, W[c])
                    /\ Lift(up, c, -side).parent[c] = gg /\ Lift(up, c, -side).parent[gg] = p
            BY <3>2, <5>1, <5>2, DoubleLift
          <5> QED BY <3>2, <5>3 DEF bent
        <4>3. PICK C, Z : /\ Sound(v, T, C, Z, {g}) /\ Z[g] = W[p]
                          /\ v.balance[g] \in -1 .. 1 /\ Alike(v, up)
                          /\ bent.parent[node] = g /\ bent.parent[g] = p
                          /\ Own(v, Z, g) = W[node]
          BY <4>2 DEF Rotated
        <4>4. s = Climb(v, NULL)
          BY <2>1, <2>2, <2>7, <3>2, <3>5, <4>3
        <4>5. Z[g] = Own(v, Z, g)
          BY <2>1, <3>3, <4>3
        <4>6. Sound(v, T, C, Z, {})
          BY <4>3, <4>5, Settled
        <4> QED BY <2>1, <4>3, <4>4, <4>6 DEF Climb, Alike, s
      <3> QED BY <3>4, <3>5
    <2> QED BY <2>5, <2>6, <2>7
  <1> QED BY <1>2, <1>3

(* What the loop of avl_post_insert knows after i rounds.                   *)
Stage == [tree : Tree, node : Pointer]
Rising(t, T, i, s) ==
    /\ Alike(s.tree, t)
    /\ \E C, W : \/ s.node = NULL /\ Sound(s.tree, T, C, W, {})
                 \/ Grown(s.tree, T, C, W, s.node) /\ Cardinality(C[s.node]) > i

(* The tree is balanced again when the loop ends.                           *)
LEMMA InsertLoop ==
    ASSUME NEW t, NEW T, NEW B, NEW V, NEW node, Grown(t, T, B, V, node)
    PROVE  /\ Alike(PostInsert(t, node), t)
           /\ \E C, W : Sound(PostInsert(t, node), T, C, W, {})
  <1> DEFINE s0    == Climb(t, node)
             g     == [s \in Stage |-> PostInsertRound(s)]
             Q     == [i \in Nat |-> {s \in Stage : Rising(t, T, i, s)}]
             F(a)  == [i \in Nat |-> IF i = 0 THEN s0 ELSE PostInsertRound(a[i - 1])]
             after == CHOOSE a : a = F(a)
             last  == after[Cardinality(Node)]
  <1>1. PostInsert(t, node) = last.tree
    BY Zenon DEF PostInsert, Repeat
  <1>2. ASSUME NEW i \in Nat, NEW s \in Stage, Rising(t, T, i, s)
        PROVE  PostInsertRound(s) \in Stage /\ Rising(t, T, i + 1, PostInsertRound(s))
    <2>1. PICK C, W : \/ s.node = NULL /\ Sound(s.tree, T, C, W, {})
                      \/ Grown(s.tree, T, C, W, s.node) /\ Cardinality(C[s.node]) > i
      BY <1>2 DEF Rising
    <2>2. CASE s.node = NULL
      <3>1. PostInsertRound(s) = s
        BY <2>2 DEF PostInsertRound
      <3>2. s.node \notin T
        <4>1. s.node \in T => FALSE
          <5>1. ~Grown(s.tree, T, C, W, s.node)
            BY <2>2, AvlAssumption DEF Grown, Sound, Shape
          <5> QED BY <2>1, <2>2, <5>1, AvlAssumption DEF Sound, Shape
        <4> QED BY <4>1
      <3>3. ~Grown(s.tree, T, C, W, s.node)
        BY <3>2 DEF Grown
      <3>4. Sound(s.tree, T, C, W, {})
        BY <2>1, <3>3
      <3> QED BY <1>2, <2>2, <3>1, <3>4 DEF Rising
    <2>3. CASE s.node # NULL
      <3> DEFINE r == PostInsertRound(Climb(s.tree, s.node))
      <3>1. s = Climb(s.tree, s.node)
        BY DEF Climb, Stage
      <3>2. Grown(s.tree, T, C, W, s.node) /\ Cardinality(C[s.node]) > i
        BY <2>1, <2>3
      <3>3. /\ Alike(r.tree, s.tree)
            /\ \E D, Z : \/ r.node = NULL /\ Sound(r.tree, T, D, Z, {})
                         \/ /\ Grown(r.tree, T, D, Z, r.node)
                            /\ Cardinality(D[r.node]) > Cardinality(C[s.node])
        BY <3>2, InsertStep
      <3>4. r = PostInsertRound(s)
        BY <3>1
      <3> HIDE DEF r
      <3>5. PICK D, Z : \/ r.node = NULL /\ Sound(r.tree, T, D, Z, {})
                        \/ /\ Grown(r.tree, T, D, Z, r.node)
                           /\ Cardinality(D[r.node]) > Cardinality(C[s.node])
        BY <3>3, Zenon
      <3>6. r.tree \in Tree /\ r.node \in Pointer
        BY <3>5, Zenon DEF Grown, Sound, Shape, Pointer
      <3>7. Grown(r.tree, T, D, Z, r.node) => Cardinality(D[r.node]) \in Nat
        BY SubtreeSize DEF Grown, Sound
      <3>8. Cardinality(C[s.node]) \in Nat
        BY <3>2, SubtreeSize DEF Grown, Sound
      <3>9. \/ r.node = NULL /\ Sound(r.tree, T, D, Z, {})
            \/ Grown(r.tree, T, D, Z, r.node) /\ Cardinality(D[r.node]) > i + 1
        BY <3>2, <3>5, <3>7, <3>8
      <3>10. Alike(r.tree, t)
        BY <1>2, <3>3 DEF Rising, Alike
      <3>11. r \in Stage
        <4>1. \E v, m : r = Climb(v, m)
          <5>1. PostInsertRound(Climb(s.tree, s.node)) = r
            BY <3>1, <3>4
          <5> QED BY <2>3, <5>1, Zenon DEF PostInsertRound, Climb
        <4> QED BY <3>6, <4>1, Zenon DEF Climb, Stage
      <3> QED BY <3>4, <3>9, <3>10, <3>11 DEF Rising
    <2> QED BY <2>2, <2>3
  <1>3. s0 \in Stage /\ Rising(t, T, 0, s0)
    <2>1. node \in T /\ t \in Tree /\ T \subseteq Node /\ Shape(t, T, B)
      BY DEF Grown, Sound, Shape
    <2>2. Cardinality(B[node]) > 0
      BY <2>1, SubtreeSize
    <2>3. s0.tree = t /\ s0.node = node /\ s0 \in Stage
      BY <2>1 DEF Climb, Stage, Pointer
    <2> HIDE DEF s0
    <2> QED BY <2>2, <2>3 DEF Rising, Alike
  <1>4. \E f : f = F(f)
    <2>1. Keeps(Stage, g, Q, s0)
      BY <1>2, <1>3 DEF Keeps
    <2> HIDE DEF g, Q, s0
    <2>2. PICK f : Iterates(f, g, Q, s0)
      BY <2>1, Iteration
    <2>3. \A i \in Nat : f[i] \in Stage
      BY <2>1, <2>2 DEF Keeps, Iterates
    <2>4. \A i \in Nat : i # 0 => i - 1 \in Nat
      OBVIOUS
    <2>5. \A i \in Nat : f[i] = IF i = 0 THEN s0 ELSE PostInsertRound(f[i - 1])
      BY <2>2, <2>3, <2>4 DEF Iterates, g
    <2> QED BY <2>2, <2>5 DEF Iterates
  <1>5. after = F(after)
    BY <1>4, Zenon
  <1>6. \A i \in Nat : after[i] \in Stage /\ Rising(t, T, i, after[i])
    <2> DEFINE P == {i \in Nat : after[i] \in Stage /\ Rising(t, T, i, after[i])}
    <2> HIDE DEF after, s0
    <2>1. 0 \in P
      BY <1>3, <1>5
    <2>2. ASSUME NEW i \in P PROVE i + 1 \in P
      <3>1. after[i + 1] = PostInsertRound(after[i])
        BY <1>5
      <3> QED BY <1>2, <3>1
    <2>3. P \subseteq Nat
      OBVIOUS
    <2>4. P = Nat
      <3> HIDE DEF P
      <3> QED BY <2>1, <2>2, <2>3, Induction
    <2> QED BY <2>4
  <1>7. Cardinality(Node) \in Nat
    BY AvlAssumption, FS_CardinalityType
  <1> HIDE DEF after
  <1>8. Rising(t, T, Cardinality(Node), last)
    BY <1>6, <1>7
  <1> HIDE DEF last
  <1>9. PICK C, W : \/ last.node = NULL /\ Sound(last.tree, T, C, W, {})
                    \/ Grown(last.tree, T, C, W, last.node) /\ Cardinality(C[last.node]) > Cardinality(Node)
    BY <1>8 DEF Rising
  <1>10. ASSUME Grown(last.tree, T, C, W, last.node), Cardinality(C[last.node]) > Cardinality(Node)
         PROVE  FALSE
    <2>1. Cardinality(C[last.node]) <= Cardinality(Node) /\ Cardinality(C[last.node]) \in Nat
      BY <1>10, SubtreeSize DEF Grown, Sound
    <2> QED BY <1>7, <1>10, <2>1
  <1>11. Sound(last.tree, T, C, W, {})
    BY <1>9, <1>10
  <1> QED BY <1>1, <1>8, <1>11 DEF Rising

-----------------------------------------------------------------------------
(* Rebalancing after a removal                                             *)

(* A subtree of the tree has lost a level.                                  *)
Fallen(t, T, B, V, node) ==
    /\ Sound(t, T, B, V, {node}) /\ node \in T
    /\ Own(t, V, node) = V[node] - 1 /\ t.balance[node] \in -1 .. 1

(* The side of p that V knows to be one lower than the balance of p says.   *)
Loses(t, T, B, V, p, side) ==
    /\ t \in Tree /\ p \in T /\ side \in Side /\ T \subseteq Node
    /\ Sound([t EXCEPT !.balance[p] = @ - side], T, B, V, {p})
    /\ t.balance[p] \in -1 .. 1
    /\ V[p] = 1 + Larger(V[t.child[side][p]] + 1, V[t.child[-side][p]])

\* Done, or the subtree that stands where p stood is one lower.
Restored(s, t, T, B, p) ==
    /\ Alike(s.tree, t)
    /\ \E C, W : \/ s.node = NULL /\ Sound(s.tree, T, C, W, {})
                 \/ Fallen(s.tree, T, C, W, s.node) /\ C[s.node] = B[p]

(* The parent of a subtree that has lost a level.                           *)
LEMMA ShrinkStep ==
    ASSUME NEW t, NEW T, NEW B, NEW V, NEW p, NEW side, Loses(t, T, B, V, p, side)
    PROVE  Restored(Shrunk(t, p, side), t, T, B, p)
  <1> DEFINE down    == [t EXCEPT !.balance[p] = @ - side]
             sibling == down.child[-side][p]
             near    == down.child[side][p]
             lifted  == Lift(down, p, -side)
             bent    == Lift(Lift(down, sibling, side), p, -side)
             s       == Shrunk(t, p, side)
  <1>0. /\ t \in Tree /\ p \in T /\ side \in Side /\ T \subseteq Node
        /\ Sound(down, T, B, V, {p}) /\ t.balance[p] \in -1 .. 1
        /\ V[p] = 1 + Larger(V[t.child[side][p]] + 1, V[t.child[-side][p]])
    BY Zenon DEF Loses, down
  <1>1. /\ side = 1 \/ side = -1
        /\ p \in Node /\ -side \in Side /\ -(-side) = side
    BY <1>0, Sides DEF Side, Left, Right
  <1>2. /\ down \in Tree /\ Alike(down, t) /\ down.child = t.child /\ down.parent = t.parent
        /\ down.balance[p] = t.balance[p] - side /\ t.balance[p] \in Int
    <2>1. t.balance \in [Node -> Int] /\ p \in DOMAIN t.balance /\ t.balance[p] \in Int
      BY <1>0, <1>1 DEF Tree
    <2>2. down = [t EXCEPT !.balance = [t.balance EXCEPT ![p] = t.balance[p] - side]]
      BY <1>0, <2>1 DEF Tree
    <2>3. [t.balance EXCEPT ![p] = t.balance[p] - side][p] = t.balance[p] - side
      BY <2>1
    <2>4. down.balance = [t.balance EXCEPT ![p] = t.balance[p] - side]
      BY <1>0, <2>2 DEF Tree
    <2>5. down.child = t.child /\ down.parent = t.parent /\ Alike(down, t)
      BY <1>0, <2>2 DEF Tree, Alike
    <2>6. down \in Tree
      BY <1>0 DEF Sound
    <2> HIDE DEF down
    <2> QED BY <2>1, <2>3, <2>4, <2>5, <2>6
  <1> HIDE DEF down
  <1>3. Sound(down, T, B, V, {p}) /\ Shape(down, T, B) /\ Leveled(down, T, V, {p})
    BY <1>0 DEF Sound
  <1>4. /\ V[p] \in Nat /\ V[near] \in Nat /\ V[sibling] \in Nat
        /\ down.balance[p] = side * (V[near] - V[sibling])
        /\ Own(down, V, p) = 1 + Larger(V[near], V[sibling])
    <2>1. \A n \in T : \A d \in Side :
            /\ V[n] \in Nat /\ V[down.child[d][n]] \in Nat /\ V[down.child[-d][n]] \in Nat
            /\ down.balance[n] = d * (V[down.child[d][n]] - V[down.child[-d][n]])
            /\ Own(down, V, n) = 1 + Larger(V[down.child[d][n]], V[down.child[-d][n]])
            /\ n \notin {p} => V[n] = Own(down, V, n) /\ V[n] > 0 /\ down.balance[n] \in -1 .. 1
      BY <1>0, <1>2, <1>3, LevelFacts
    <2> QED BY <1>0, <2>1, Zenon DEF near, sibling
  <1>5. V[p] = 1 + Larger(V[near] + 1, V[sibling])
    BY <1>0, <1>2
  <1>6. s = IF down.balance[p] = 0 THEN Climb(down, p)
            ELSE IF down.balance[p] = -side THEN Climb(down, NULL)
            ELSE IF down.balance[sibling] = 0 THEN Climb(lifted, NULL)
            ELSE IF down.balance[sibling] = -side THEN Climb(lifted, lifted.parent[p])
            ELSE Climb(bent, bent.parent[p])
    BY Zenon DEF Shrunk, down
  <1> HIDE DEF sibling, near, lifted, bent, s
  <1>7. t.balance[p] = 0 \/ t.balance[p] = side \/ t.balance[p] = -side
    BY <1>0, <1>1
  <1>8. CASE t.balance[p] = side
    <2>1. down.balance[p] = 0
      BY <1>1, <1>2, <1>8
    <2>2. V[near] = V[sibling]
      BY <1>1, <1>4, <2>1
    <2>3. Own(down, V, p) = V[p] - 1
      BY <1>4, <1>5, <2>2 DEF Larger
    <2>4. down.balance[p] \in -1 .. 1
      BY <2>1
    <2>5. Fallen(down, T, B, V, p)
      BY <1>0, <1>3, <2>3, <2>4 DEF Fallen
    <2>6. s = Climb(down, p)
      BY <1>6, <2>1
    <2> QED BY <1>2, <2>5, <2>6 DEF Climb, s, Restored
  <1>9. CASE t.balance[p] = 0
    <2>1. down.balance[p] = -side /\ side # 0 /\ down.balance[p] # 0
      BY <1>1, <1>2, <1>9
    <2>2. V[sibling] = V[near] + 1
      BY <1>1, <1>4, <2>1
    <2>3. V[p] = Own(down, V, p)
      BY <1>4, <1>5, <2>2 DEF Larger
    <2>4. down.balance[p] \in -1 .. 1
      BY <1>1, <2>1
    <2>5. Sound(down, T, B, V, {})
      BY <1>3, <2>3, <2>4, Settled
    <2>6. s = Climb(down, NULL)
      BY <1>6, <2>1
    <2> QED BY <1>2, <2>5, <2>6 DEF Climb, s, Restored
  <1>10. CASE t.balance[p] = -side
    <2>1. down.balance[p] = -side - side /\ down.balance[p] # 0 /\ down.balance[p] # -side
      BY <1>1, <1>2, <1>10
    <2>2. V[sibling] = V[near] + 2
      BY <1>1, <1>4, <2>1
    <2>3. V[p] = V[sibling] + 1
      BY <1>4, <1>5, <2>2 DEF Larger
    <2>4. PICK e \in Side : e = -side /\ -e = side
      BY <1>1
    <2>5. /\ down.child[e][p] = sibling /\ down.child[-e][p] = near
          /\ V[down.child[e][p]] = V[down.child[-e][p]] + 2
      BY <2>2, <2>4 DEF sibling, near
    <2>6. down.balance[sibling] \in -1 .. 1 /\ sibling \in T
      <3>1. sibling # NULL
        BY <1>3, <1>4, <2>2 DEF Leveled
      <3>2. sibling \in T
        BY <1>0, <1>1, <1>3, <3>1 DEF Shape, sibling
      <3>3. sibling # p
        BY <1>0, <1>1, <1>2, <1>3, ChildFacts DEF sibling
      <3> QED BY <1>3, <3>2, <3>3 DEF Leveled
    <2>7. CASE down.balance[sibling] = 0 \/ down.balance[sibling] = -side
      <3>1. down.balance[sibling] = 0 \/ down.balance[sibling] = e
        BY <2>4, <2>7
      <3>2. Rotated(lifted, down, T, B, V, p, sibling,
                    IF down.balance[sibling] = 0 THEN V[sibling] + 1 ELSE V[sibling])
        <4>1. Rotated(Lift(down, p, e), down, T, B, V, p, down.child[e][p],
                      IF down.balance[down.child[e][p]] = 0 THEN V[down.child[e][p]] + 1
                                                            ELSE V[down.child[e][p]])
          <5>1. down.balance[down.child[e][p]] = 0 \/ down.balance[down.child[e][p]] = e
            BY <2>5, <3>1
          <5> QED BY <1>0, <1>3, <2>4, <2>5, <5>1, SingleLift
        <4> QED BY <2>4, <2>5, <4>1 DEF lifted
      <3>3. PICK C, W : /\ Sound(lifted, T, C, W, {sibling}) /\ W[sibling] = V[p] /\ C[sibling] = B[p]
                        /\ Own(lifted, W, sibling) =
                             IF down.balance[sibling] = 0 THEN V[sibling] + 1 ELSE V[sibling]
        BY <3>2 DEF Rotated
      <3>4. /\ lifted.parent[p] = sibling /\ lifted.balance[sibling] \in -1 .. 1
            /\ Alike(lifted, down)
        BY <3>2 DEF Rotated
      <3>5. Alike(lifted, t)
        BY <1>2, <3>4 DEF Alike
      <3>6. CASE down.balance[sibling] = 0
        <4>1. s = Climb(lifted, NULL)
          BY <1>6, <2>1, <3>6
        <4>2. W[sibling] = Own(lifted, W, sibling)
          BY <2>3, <3>3, <3>6
        <4>3. Sound(lifted, T, C, W, {})
          BY <3>3, <3>4, <4>2, Settled
        <4> QED BY <3>5, <4>1, <4>3 DEF Climb, s, Restored
      <3>7. CASE down.balance[sibling] # 0
        <4>1. s = Climb(lifted, sibling)
          BY <1>6, <2>1, <2>7, <3>4, <3>7
        <4>2. Own(lifted, W, sibling) = W[sibling] - 1
          BY <1>4, <2>3, <3>3, <3>7
        <4>3. Fallen(lifted, T, C, W, sibling)
          BY <2>6, <3>3, <3>4, <4>2 DEF Fallen
        <4> QED BY <3>3, <3>5, <4>1, <4>3 DEF Climb, s, Restored
      <3> QED BY <3>6, <3>7
    <2>8. CASE down.balance[sibling] # 0 /\ down.balance[sibling] # -side
      <3> DEFINE m == down.child[-e][sibling]
      <3>1. down.balance[sibling] = -e
        BY <1>1, <2>4, <2>6, <2>8
      <3>2. Rotated(bent, down, T, B, V, p, m, V[sibling])
        <4>1. LET c  == down.child[e][p]
                  gg == down.child[-e][c]
              IN  /\ Rotated(Lift(Lift(down, c, -e), p, e), down, T, B, V, p, gg, V[c])
                  /\ Lift(down, c, -e).parent[c] = gg /\ Lift(down, c, -e).parent[gg] = p
          <5>1. down.balance[down.child[e][p]] = -e
            BY <2>5, <3>1
          <5> QED BY <1>0, <1>3, <2>4, <2>5, <5>1, DoubleLift
        <4> QED BY <2>4, <2>5, <4>1 DEF bent
      <3> HIDE DEF m
      <3>3. PICK C, W : /\ Sound(bent, T, C, W, {m}) /\ W[m] = V[p] /\ C[m] = B[p]
                        /\ Own(bent, W, m) = V[sibling]
        BY <3>2 DEF Rotated
      <3>4. m \in T /\ bent.parent[p] = m /\ bent.balance[m] \in -1 .. 1 /\ Alike(bent, t)
        BY <1>2, <3>2 DEF Rotated, Alike
      <3>5. s = Climb(bent, m)
        BY <1>6, <2>1, <2>8, <3>4
      <3>6. Own(bent, W, m) = W[m] - 1
        BY <1>4, <2>3, <3>3
      <3>7. Fallen(bent, T, C, W, m)
        BY <3>3, <3>4, <3>6 DEF Fallen
      <3> QED BY <3>3, <3>4, <3>5, <3>7 DEF Climb, s, Restored
    <2> QED BY <2>7, <2>8
  <1> QED BY <1>7, <1>8, <1>9, <1>10

(* One round: done, or a larger subtree has lost a level.                   *)
LEMMA RemoveStep ==
    ASSUME NEW t, NEW T, NEW B, NEW V, NEW node, Fallen(t, T, B, V, node)
    PROVE  LET s == PostRemoveRound(Climb(t, node))
           IN  /\ Alike(s.tree, t)
               /\ \E C, W : \/ s.node = NULL /\ Sound(s.tree, T, C, W, {})
                            \/ /\ Fallen(s.tree, T, C, W, s.node)
                               /\ Cardinality(C[s.node]) > Cardinality(B[node])
  <1> DEFINE p     == t.parent[node]
             side  == SideOf(t, node)
             b     == t.balance[p] - side
             W     == Known(t, V, node)
             s     == PostRemoveRound(Climb(t, node))
  <1>1. /\ t \in Tree /\ Shape(t, T, B) /\ node \in T /\ Sound(t, T, B, V, {node}) /\ node # NULL
        /\ Own(t, V, node) = V[node] - 1 /\ t.balance[node] \in -1 .. 1 /\ T \subseteq Node
    <2>1. t \in Tree /\ Shape(t, T, B) /\ node \in T /\ T \subseteq Node /\ Sound(t, T, B, V, {node})
      BY DEF Fallen, Sound, Shape
    <2> QED BY <2>1, AvlAssumption DEF Fallen
  <1>2. CASE node = t.root
    <2>1. p = NULL
      BY <1>1, <1>2, PlaceFacts
    <2>2. s = Climb(t, NULL)
      BY <1>1, <2>1 DEF PostRemoveRound, Climb
    <2>3. Sound(t, T, B, W, {})
      BY <1>1, <1>2, RootSettled
    <2> QED BY <2>2, <2>3 DEF Climb, Alike
  <1>3. CASE node # t.root
    <2>1. b = t.balance[p] + side * (Own(t, V, node) - V[node])
      <3>1. V \in [Pointer -> Nat] /\ node \in Pointer
        BY <1>1 DEF Sound, Leveled, Shape, Pointer
      <3>2. V[node] \in Nat
        BY <3>1
      <3>3. Own(t, V, node) - V[node] = -1
        BY <1>1, <3>2
      <3>4. p \in T /\ side \in Side
        BY <1>1, <1>3, PlaceFacts
      <3>5. t.balance[p] \in Int /\ (side = 1 \/ side = -1)
        BY <1>1, <3>4 DEF Tree, Side, Left, Right
      <3> HIDE DEF p, side
      <3> QED BY <3>3, <3>5
    <2>2. Noticed(t, T, B, V, node, b)
      <3> HIDE DEF b
      <3> QED BY <1>1, <1>3, <2>1, Notice
    <2>3. /\ Sound(Told(t, node, b), T, B, W, {p}) /\ p \in T /\ p # node /\ side \in Side
          /\ t.child[side][p] = node /\ p # NULL
          /\ V[node] \in Nat /\ V[t.child[-side][p]] \in Nat
          /\ W[node] = Own(t, V, node) /\ W[t.child[-side][p]] = V[t.child[-side][p]] /\ W[p] = V[p]
          /\ t.balance[p] \in -1 .. 1
          /\ V[p] = 1 + Larger(V[node], V[t.child[-side][p]])
      <3> HIDE DEF b
      <3> QED BY <2>2 DEF Noticed
    <2>4. Told(t, node, b) = [t EXCEPT !.balance[p] = @ - side]
      BY Zenon DEF Told
    <2>5. s = Shrunk(t, p, side)
      BY <1>1, <2>3 DEF PostRemoveRound, Climb
    <2>6. Cardinality(B[p]) > Cardinality(B[node])
      BY <1>1, <2>3, SubtreeSize
    <2> HIDE DEF p, side, b, W, s
    <2>7. W[p] = 1 + Larger(W[t.child[side][p]] + 1, W[t.child[-side][p]])
      <3>1. V[node] = W[t.child[side][p]] + 1
        BY <1>1, <2>3
      <3> QED BY <2>3, <3>1
    <2>8. Sound([t EXCEPT !.balance[p] = @ - side], T, B, W, {p})
      BY <2>3, <2>4
    <2>9. Restored(s, t, T, B, p)
      <3>1. Loses(t, T, B, W, p, side)
        BY <1>1, <2>3, <2>7, <2>8, Zenon DEF Loses
      <3> QED BY <2>5, <3>1, ShrinkStep
    <2>10. PICK C, Z : \/ s.node = NULL /\ Sound(s.tree, T, C, Z, {})
                       \/ Fallen(s.tree, T, C, Z, s.node) /\ C[s.node] = B[p]
      BY <2>9 DEF Restored
    <2>11. Alike(s.tree, t)
      BY <2>9 DEF Restored
    <2> QED BY <2>6, <2>10, <2>11 DEF s
  <1> QED BY <1>2, <1>3

(* What the loop of avl_post_remove knows after i rounds.                   *)
Falling(t, T, i, s) ==
    /\ Alike(s.tree, t)
    /\ \E C, W : \/ s.node = NULL /\ Sound(s.tree, T, C, W, {})
                 \/ Fallen(s.tree, T, C, W, s.node) /\ Cardinality(C[s.node]) > i

(* A round keeps it.                                                        *)
LEMMA FallsOn ==
    ASSUME NEW t, NEW T, NEW i \in Nat, NEW s \in Stage, Falling(t, T, i, s)
    PROVE  PostRemoveRound(s) \in Stage /\ Falling(t, T, i + 1, PostRemoveRound(s))
  <1>1. PICK C, W : \/ s.node = NULL /\ Sound(s.tree, T, C, W, {})
                    \/ Fallen(s.tree, T, C, W, s.node) /\ Cardinality(C[s.node]) > i
    BY DEF Falling
  <1>2. CASE s.node = NULL
    <2>1. PostRemoveRound(s) = s
      BY <1>2 DEF PostRemoveRound
    <2>2. ~Fallen(s.tree, T, C, W, s.node)
      BY <1>2, AvlAssumption DEF Fallen, Sound, Shape
    <2> QED BY <1>1, <1>2, <2>1, <2>2 DEF Falling
  <1>3. CASE s.node # NULL
    <2> DEFINE r == PostRemoveRound(Climb(s.tree, s.node))
    <2>1. s = Climb(s.tree, s.node)
      BY DEF Climb, Stage
    <2>2. Fallen(s.tree, T, C, W, s.node) /\ Cardinality(C[s.node]) > i
      BY <1>1, <1>3
    <2>3. /\ Alike(r.tree, s.tree)
          /\ \E D, Z : \/ r.node = NULL /\ Sound(r.tree, T, D, Z, {})
                       \/ /\ Fallen(r.tree, T, D, Z, r.node)
                          /\ Cardinality(D[r.node]) > Cardinality(C[s.node])
      BY <2>2, RemoveStep
    <2>4. r = PostRemoveRound(s)
      BY <2>1
    <2> HIDE DEF r
    <2>5. PICK D, Z : \/ r.node = NULL /\ Sound(r.tree, T, D, Z, {})
                      \/ /\ Fallen(r.tree, T, D, Z, r.node)
                         /\ Cardinality(D[r.node]) > Cardinality(C[s.node])
      BY <2>3, Zenon
    <2>6. r.tree \in Tree /\ r.node \in Pointer
      BY <2>5, Zenon DEF Fallen, Sound, Shape, Pointer
    <2>7. Fallen(r.tree, T, D, Z, r.node) => Cardinality(D[r.node]) \in Nat
      BY SubtreeSize DEF Fallen, Sound
    <2>8. Cardinality(C[s.node]) \in Nat
      BY <2>2, SubtreeSize DEF Fallen, Sound
    <2>9. \/ r.node = NULL /\ Sound(r.tree, T, D, Z, {})
          \/ Fallen(r.tree, T, D, Z, r.node) /\ Cardinality(D[r.node]) > i + 1
      BY <2>2, <2>5, <2>7, <2>8
    <2>10. Alike(r.tree, t)
      BY <2>3 DEF Falling, Alike
    <2>11. r \in Stage
      <3>1. \E v, m : r = Climb(v, m)
        BY <1>3, <2>1, <2>4, Zenon DEF PostRemoveRound, Shrunk
      <3> QED BY <2>6, <3>1 DEF Climb, Stage
    <2> QED BY <2>4, <2>9, <2>10, <2>11 DEF Falling
  <1> QED BY <1>2, <1>3

(* The tree is balanced again when the loop ends.                           *)
LEMMA RemoveLoop ==
    ASSUME NEW t, NEW T, NEW s0 \in Stage, Falling(t, T, 0, s0)
    PROVE  Alike(PostRemove(s0), t) /\ \E C, W : Sound(PostRemove(s0), T, C, W, {})
  <1> DEFINE g     == [s \in Stage |-> PostRemoveRound(s)]
             Q     == [i \in Nat |-> {s \in Stage : Falling(t, T, i, s)}]
             F(a)  == [i \in Nat |-> IF i = 0 THEN s0 ELSE PostRemoveRound(a[i - 1])]
             after == CHOOSE a : a = F(a)
             last  == after[Cardinality(Node)]
  <1>1. PostRemove(s0) = last.tree
    BY Zenon DEF PostRemove, Repeat
  <1>2. Keeps(Stage, g, Q, s0)
    BY FallsOn DEF Keeps
  <1>3. \E f : f = F(f)
    <2> HIDE DEF g, Q
    <2>1. PICK f : Iterates(f, g, Q, s0)
      BY <1>2, Iteration
    <2>2. \A i \in Nat : f[i] \in Stage
      BY <1>2, <2>1 DEF Keeps, Iterates
    <2>3. \A i \in Nat : f[i] = IF i = 0 THEN s0 ELSE PostRemoveRound(f[i - 1])
      <3>1. \A i \in Nat : i # 0 => i - 1 \in Nat
        OBVIOUS
      <3> QED BY <2>1, <2>2, <3>1 DEF Iterates, g
    <2> QED BY <2>1, <2>3 DEF Iterates
  <1>4. after = F(after)
    BY <1>3, Zenon
  <1> HIDE DEF after
  <1>5. \A i \in Nat : after[i] \in Q[i]
    <2>1. after[0] = s0 /\ \A i \in Nat : after[i] \in Stage => after[i + 1] = g[after[i]]
      <3>1. \A i \in Nat : i + 1 \in Nat /\ i + 1 # 0 /\ (i + 1) - 1 = i
        OBVIOUS
      <3> QED BY <1>4, <3>1
    <2> HIDE DEF g, Q
    <2> QED BY <1>2, <2>1, Follows
  <1>6. Cardinality(Node) \in Nat
    BY AvlAssumption, FS_CardinalityType
  <1>7. Falling(t, T, Cardinality(Node), last)
    BY <1>5, <1>6
  <1> HIDE DEF last
  <1>8. PICK C, W : \/ last.node = NULL /\ Sound(last.tree, T, C, W, {})
                    \/ Fallen(last.tree, T, C, W, last.node) /\ Cardinality(C[last.node]) > Cardinality(Node)
    BY <1>7 DEF Falling
  <1>9. ASSUME Fallen(last.tree, T, C, W, last.node), Cardinality(C[last.node]) > Cardinality(Node)
        PROVE  FALSE
    <2>1. Cardinality(C[last.node]) <= Cardinality(Node) /\ Cardinality(C[last.node]) \in Nat
      BY <1>9, SubtreeSize DEF Fallen, Sound
    <2> QED BY <1>6, <1>9, <2>1
  <1> QED BY <1>1, <1>7, <1>8, <1>9 DEF Falling

-----------------------------------------------------------------------------
(* Taking a node with at most one child out of the tree                     *)

(* Its only child, if there is one, hangs where the node hung.              *)
Hooked(t, node, only) ==
    LET h == Hang(t, t.parent[node], node, only)
    IN  IF only = NULL THEN h ELSE [h EXCEPT !.parent[only] = t.parent[node]]

Lone(t, node, only) ==
    \E e \in Side : t.child[e][node] = only /\ t.child[-e][node] = NULL

IsHooked(u, t, T, node, only) ==
    /\ u \in Tree /\ Alike(u, t) /\ u.balance = t.balance
    /\ u.root = IF node = t.root THEN only ELSE t.root
    /\ \A n \in T, d \in Side : u.child[d][n] = IF t.child[d][n] = node THEN only ELSE t.child[d][n]
    /\ \A n \in Node : n # only => u.parent[n] = t.parent[n]
    /\ only # NULL => u.parent[only] = t.parent[node]

LEMMA HookedFields ==
    ASSUME NEW t \in Tree, NEW T, NEW B, Shape(t, T, B), NEW node \in T, NEW only \in Pointer
    PROVE  IsHooked(Hooked(t, node, only), t, T, node, only)
  <1> DEFINE h == Hang(t, t.parent[node], node, only)
             u == Hooked(t, node, only)
  <1>1. /\ h \in Tree /\ h.count = t.count /\ h.parent = t.parent /\ h.link = t.link
        /\ h.balance = t.balance /\ h.follower = t.follower
        /\ h.root = IF node = t.root THEN only ELSE t.root
        /\ \A n \in T, d \in Side : h.child[d][n] = IF t.child[d][n] = node THEN only ELSE t.child[d][n]
    BY HangFields
  <1>2. u = IF only = NULL THEN h ELSE [h EXCEPT !.parent[only] = t.parent[node]]
    BY DEF Hooked
  <1>3. t.parent[node] \in Pointer
    BY PlaceFacts
  <1> HIDE DEF h, u
  <1>4. CASE only = NULL
    <2>1. u = h
      BY <1>2, <1>4
    <2> QED BY <1>1, <1>4, <2>1 DEF IsHooked, Alike, u
  <1>5. CASE only # NULL
    <2> DEFINE par == [h.parent EXCEPT ![only] = t.parent[node]]
    <2>1. u = [h EXCEPT !.parent = par]
      BY <1>1, <1>2, <1>5 DEF Tree
    <2>2. only \in Node /\ h.parent \in [Node -> Pointer]
      BY <1>1, <1>5 DEF Pointer, Tree
    <2>3. /\ par \in [Node -> Pointer] /\ par[only] = t.parent[node]
          /\ \A n \in Node : n # only => par[n] = t.parent[n]
      BY <1>1, <1>3, <2>2
    <2> HIDE DEF par
    <2>4. /\ u \in Tree /\ u.parent = par /\ u.root = h.root /\ u.child = h.child /\ u.count = h.count
          /\ u.link = h.link /\ u.balance = h.balance /\ u.follower = h.follower
      BY <1>1, <2>1, <2>3 DEF Tree
    <2> QED BY <1>1, <2>3, <2>4 DEF IsHooked, Alike, u
  <1> QED BY <1>4, <1>5

(* What is below a node without one of the nodes.                           *)
Without(B, node) == [n \in Pointer |-> B[n] \ {node}]

(* The rest is a search tree.                                               *)
LEMMA HookedShape ==
    ASSUME NEW t \in Tree, NEW T, NEW B, Shape(t, T, B), NEW node \in T, NEW only,
           Lone(t, node, only), NEW u, IsHooked(u, t, T, node, only)
    PROVE  Shape(u, T \ {node}, Without(B, node))
  <1> DEFINE R == T \ {node}
             C == Without(B, node)
             p == t.parent[node]
  <1>1. PICK e \in Side : t.child[e][node] = only /\ t.child[-e][node] = NULL
    BY DEF Lone
  <1>2. /\ T \subseteq Node /\ NULL \notin Node /\ only \in Pointer /\ node \in Node
        /\ B \in [Pointer -> SUBSET T] /\ B[NULL] = {}
    BY <1>1, ChildFacts, AvlAssumption DEF Shape
  <1>3. /\ B[node] = {node} \cup B[only] /\ node \notin B[only]
        /\ only # NULL => only \in R /\ t.parent[only] = node
    <2>1. /\ B[node] = {node} \cup B[only] \cup B[NULL] /\ node \notin B[only] /\ only # node
      BY <1>1, ChildFacts
    <2>2. only # NULL => only \in T /\ t.parent[only] = node
      BY <1>1 DEF Shape
    <2> QED BY <1>2, <2>1, <2>2
  <1>4. /\ p \in Pointer
        /\ node = t.root <=> p = NULL
        /\ node # t.root => p \in T /\ p # node /\ \E d \in Side : t.child[d][p] = node
        /\ \A m \in T, d \in Side : t.child[d][m] = node => m = p /\ node # t.root
    <2>1. /\ t.parent[node] \in Pointer
          /\ node = t.root <=> t.parent[node] = NULL
          /\ node # t.root => t.parent[node] \in T /\ t.parent[node] # node
      BY PlaceFacts
    <2>2. \A m \in T, d \in Side : t.child[d][m] = node => node # t.root /\ m = t.parent[node]
      BY PlaceFacts
    <2>3. node # t.root => \E d \in Side : t.child[d][t.parent[node]] = node
      BY DEF Shape
    <2> QED BY <2>1, <2>2, <2>3
  <1>5. /\ u.root = IF node = t.root THEN only ELSE t.root
        /\ \A n \in T, d \in Side : u.child[d][n] = IF t.child[d][n] = node THEN only ELSE t.child[d][n]
        /\ \A n \in Node : n # only => u.parent[n] = t.parent[n]
        /\ only # NULL => u.parent[only] = p
    BY DEF IsHooked
  <1>6. /\ C \in [Pointer -> SUBSET R] /\ C[NULL] = {}
        /\ \A n \in Pointer : C[n] = B[n] \ {node}
    BY <1>2, AvlAssumption DEF Without, Pointer
  <1> HIDE DEF C, p
  <1>7. ASSUME NEW n \in R, NEW d \in Side
        PROVE  /\ C[u.child[d][n]] = B[t.child[d][n]] \ {node}
               /\ u.child[d][n] # NULL => u.child[d][n] \in R /\ u.parent[u.child[d][n]] = n
    <2>1. t.child[d][n] \in Pointer /\ n \in T /\ n # node
      BY ChildFacts
    <2>2. CASE t.child[d][n] = node
      <3>1. u.child[d][n] = only /\ p = n
        BY <1>4, <1>5, <2>1, <2>2
      <3>2. C[only] = B[node] \ {node}
        BY <1>2, <1>3, <1>6
      <3> QED BY <1>3, <1>5, <2>2, <3>1, <3>2
    <2>3. CASE t.child[d][n] # node
      <3>1. u.child[d][n] = t.child[d][n]
        BY <1>5, <2>1, <2>3
      <3>2. t.child[d][n] # NULL => t.child[d][n] \in T /\ t.parent[t.child[d][n]] = n
        BY <2>1 DEF Shape
      <3>3. t.child[d][n] # NULL => t.child[d][n] # only
        BY <1>3, <2>1, <3>2
      <3> QED BY <1>2, <1>5, <1>6, <2>1, <2>3, <3>1, <3>2, <3>3
    <2> QED BY <2>2, <2>3
  <1>8. C[u.root] = R
    <2>1. CASE node = t.root
      <3>1. B[node] = T
        BY <2>1 DEF Shape
      <3> QED BY <1>2, <1>3, <1>5, <1>6, <2>1, <3>1
    <2>2. CASE node # t.root
      <3>1. B[t.root] = T /\ t.root \in Pointer
        BY DEF Shape, Tree
      <3> QED BY <1>5, <1>6, <2>2, <3>1
    <2> QED BY <2>1, <2>2
  <1>9. u.root # NULL => u.root \in R /\ u.parent[u.root] = NULL
    <2>1. CASE node = t.root
      BY <1>3, <1>4, <1>5, <2>1
    <2>2. CASE node # t.root
      <3>1. t.root # NULL => t.root \in T /\ t.parent[t.root] = NULL
        BY DEF Shape
      <3>2. t.root # NULL => t.root # only
        BY <1>2, <1>3, <3>1
      <3> QED BY <1>2, <1>5, <2>2, <3>1, <3>2
    <2> QED BY <2>1, <2>2
  <1>10. ASSUME NEW n \in R, n # u.root
         PROVE  u.parent[n] \in R /\ \E d \in Side : u.child[d][u.parent[n]] = n
    <2>1. CASE n = only
      <3>1. node # t.root /\ n # NULL
        BY <1>2, <1>5, <1>10, <2>1
      <3>2. u.parent[n] = p /\ p \in R
        BY <1>4, <1>5, <2>1, <3>1
      <3> QED BY <1>4, <1>5, <2>1, <3>1, <3>2
    <2>2. CASE n # only
      <3>1. n \in T /\ n # t.root
        BY <1>5, <1>10
      <3>2. t.parent[n] \in T /\ \E d \in Side : t.child[d][t.parent[n]] = n
        BY <3>1 DEF Shape
      <3>3. u.parent[n] = t.parent[n]
        BY <1>2, <1>5, <2>2
      <3>4. t.parent[n] # node
        BY <1>1, <1>2, <2>2, <3>1, <3>2, Sides
      <3> QED BY <1>5, <3>2, <3>3, <3>4
    <2> QED BY <2>1, <2>2
  <1>11. ASSUME NEW n \in R
         PROVE  C[n] = {n} \cup C[u.child[Left][n]] \cup C[u.child[Right][n]]
    <2>1. B[n] = {n} \cup B[t.child[Left][n]] \cup B[t.child[Right][n]]
      BY DEF Shape
    <2>2. C[n] = B[n] \ {node} /\ n # node
      BY <1>2, <1>6 DEF Pointer
    <2>3. /\ C[u.child[Left][n]] = B[t.child[Left][n]] \ {node}
          /\ C[u.child[Right][n]] = B[t.child[Right][n]] \ {node}
      BY <1>7, Sides
    <2> QED BY <2>1, <2>2, <2>3
  <1>12. ASSUME NEW n \in R, NEW d \in Side, NEW m \in C[u.child[d][n]] PROVE Lies(d, m, n)
    BY <1>7, <1>12 DEF Shape
  <1>13. R \subseteq Node
    BY <1>2
  <1> QED BY <1>6, <1>7, <1>8, <1>9, <1>10, <1>11, <1>12, <1>13 DEF Shape, C

(* A child takes the place of a node that was one higher.                   *)
LEMMA HookedFalls ==
    ASSUME NEW t, NEW T, NEW B, NEW V, Sound(t, T, B, V, {}), NEW node \in T, NEW only,
           only # NULL, Lone(t, node, only), NEW u, IsHooked(u, t, T, node, only)
    PROVE  Fallen(u, T \ {node}, Without(B, node), [V EXCEPT ![only] = V[node]], only)
  <1> DEFINE R == T \ {node}
             W == [V EXCEPT ![only] = V[node]]
  <1>1. t \in Tree /\ Shape(t, T, B) /\ T \subseteq Node /\ Leveled(t, T, V, {}) /\ NULL \notin Node
    BY AvlAssumption DEF Sound, Shape
  <1>2. PICK e \in Side : t.child[e][node] = only /\ t.child[-e][node] = NULL
    BY DEF Lone
  <1>3. only \in R /\ only \in Node /\ node \in Node /\ t.parent[only] = node
    <2>1. only \in T /\ t.parent[only] = node /\ only # node
      BY <1>1, <1>2, ChildFacts DEF Shape
    <2> QED BY <1>1, <2>1
  <1>4. u \in Tree /\ u.balance = t.balance /\ Shape(u, R, Without(B, node))
    BY <1>1, HookedShape DEF IsHooked
  <1>5. \A n \in T, d \in Side : u.child[d][n] = IF t.child[d][n] = node THEN only ELSE t.child[d][n]
    BY DEF IsHooked
  <1>6. V \in [Pointer -> Nat] /\ V[NULL] = 0
    BY <1>1 DEF Leveled
  <1>7. /\ W \in [Pointer -> Nat] /\ W[NULL] = 0 /\ W[only] = V[node]
        /\ \A n \in Pointer \ {only} : W[n] = V[n]
    BY <1>1, <1>3, <1>6 DEF Pointer
  <1>8. /\ V[node] = 1 + V[only] /\ V[only] \in Nat /\ V[node] \in Nat
        /\ V[only] = Own(t, V, only) /\ t.balance[only] \in -1 .. 1
    <2>1. \A n \in T : \A d \in Side :
            /\ V[t.child[d][n]] \in Nat /\ V[t.child[-d][n]] \in Nat
            /\ t.balance[n] = d * (V[t.child[d][n]] - V[t.child[-d][n]])
            /\ V[n] = 1 + Larger(V[t.child[d][n]], V[t.child[-d][n]])
            /\ V[n] \in Nat /\ V[n] = Own(t, V, n) /\ t.balance[n] \in -1 .. 1
      BY <1>1, HeightFacts
    <2>2. V[node] = 1 + Larger(V[only], V[NULL])
      BY <1>2, <2>1
    <2>3. V[only] \in Nat /\ V[only] = Own(t, V, only) /\ t.balance[only] \in -1 .. 1
      BY <1>3, <2>1
    <2> QED BY <1>6, <2>2, <2>3 DEF Larger
  <1> HIDE DEF W
  <1>9. ASSUME NEW n \in R, NEW d \in Side
        PROVE  W[u.child[d][n]] = V[t.child[d][n]]
    <2>1. t.child[d][n] \in Pointer
      BY <1>1, ChildFacts
    <2>2. CASE t.child[d][n] = node
      BY <1>5, <1>7, <2>2
    <2>3. CASE t.child[d][n] # node
      <3>1. u.child[d][n] = t.child[d][n]
        BY <1>5, <2>3
      <3>2. t.child[d][n] # only
        <4>1. t.child[d][n] = only => n = t.parent[only]
          BY <1>1, <1>3, PlaceFacts
        <4> QED BY <1>3, <4>1
      <3> QED BY <1>7, <2>1, <3>1, <3>2
    <2> QED BY <2>2, <2>3
  <1>10. \A n \in R : /\ W[u.child[Left][n]] = V[t.child[Left][n]]
                      /\ W[u.child[Right][n]] = V[t.child[Right][n]]
    BY <1>9, Sides
  <1>11. \A n \in R : Own(u, W, n) = Own(t, V, n)
    BY <1>10 DEF Own
  <1>12. Leveled(u, R, W, {only})
    <2>1. \A n \in R : u.balance[n] = W[u.child[Right][n]] - W[u.child[Left][n]]
      BY <1>1, <1>4, <1>10 DEF Leveled
    <2>2. \A n \in R \ {only} : W[n] = Own(u, W, n) /\ u.balance[n] \in -1 .. 1
      <3>1. \A n \in R \ {only} : W[n] = V[n]
        BY <1>1, <1>7 DEF Pointer
      <3>2. \A n \in R : V[n] = Own(t, V, n) /\ t.balance[n] \in -1 .. 1
        BY <1>1 DEF Leveled
      <3> QED BY <1>4, <1>11, <3>1, <3>2
    <2> QED BY <1>7, <2>1, <2>2 DEF Leveled
  <1>13. Own(u, W, only) = W[only] - 1
    BY <1>3, <1>7, <1>8, <1>11
  <1>14. Sound(u, R, Without(B, node), W, {only}) /\ u.balance[only] \in -1 .. 1
    BY <1>4, <1>8, <1>12 DEF Sound
  <1> QED BY <1>3, <1>13, <1>14 DEF Fallen, W

(* A leaf leaves its parent with one level less.                            *)
LEMMA LeafFalls ==
    ASSUME NEW t, NEW T, NEW B, NEW V, Sound(t, T, B, V, {}), NEW node \in T, node # t.root,
           \A d \in Side : t.child[d][node] = NULL, NEW u, IsHooked(u, t, T, node, NULL)
    PROVE  Loses(u, T \ {node}, Without(B, node), V, t.parent[node], SideOf(t, node))
  <1> DEFINE R    == T \ {node}
             p    == t.parent[node]
             side == SideOf(t, node)
             far  == t.child[-side][p]
             w    == [u EXCEPT !.balance[p] = @ - side]
  <1>1. t \in Tree /\ Shape(t, T, B) /\ T \subseteq Node /\ Leveled(t, T, V, {}) /\ NULL \notin Node
    BY AvlAssumption DEF Sound, Shape
  <1>2. p \in R /\ p \in Node /\ side \in Side /\ t.child[side][p] = node /\ far # node
    BY <1>1, PlaceFacts
  <1>3. u \in Tree /\ u.balance = t.balance /\ Shape(u, R, Without(B, node))
    <2>1. Lone(t, node, NULL)
      BY Sides DEF Lone
    <2> QED BY <1>1, <2>1, HookedShape DEF IsHooked
  <1>4. \A n \in T, d \in Side : u.child[d][n] = IF t.child[d][n] = node THEN NULL ELSE t.child[d][n]
    BY DEF IsHooked
  <1>5. \A n \in T : \A d \in Side :
          /\ V[t.child[d][n]] \in Nat /\ V[t.child[-d][n]] \in Nat
          /\ t.balance[n] = d * (V[t.child[d][n]] - V[t.child[-d][n]])
          /\ V[n] = 1 + Larger(V[t.child[d][n]], V[t.child[-d][n]])
          /\ V[n] \in Nat /\ V[n] = Own(t, V, n) /\ t.balance[n] \in -1 .. 1
    BY <1>1, HeightFacts
  <1>6. V \in [Pointer -> Nat] /\ V[NULL] = 0
    BY <1>1 DEF Leveled
  <1>7. V[node] = 1
    <2>1. Left \in Side /\ V[node] = 1 + Larger(V[t.child[Left][node]], V[t.child[-Left][node]])
      BY <1>5, Sides
    <2>2. t.child[Left][node] = NULL /\ t.child[-Left][node] = NULL
      BY Sides
    <2> QED BY <1>6, <2>1, <2>2 DEF Larger
  <1>8. u.child[side][p] = NULL /\ u.child[-side][p] = far /\ -side \in Side
    BY <1>2, <1>4, Sides
  <1>9. /\ t.balance[p] = side * (1 - V[far]) /\ V[far] \in Nat /\ t.balance[p] \in -1 .. 1
        /\ V[p] = 1 + Larger(1, V[far]) /\ side \in Int
    <2>1. /\ V[far] \in Nat
          /\ t.balance[p] = side * (V[t.child[side][p]] - V[far])
          /\ V[p] = 1 + Larger(V[t.child[side][p]], V[far]) /\ t.balance[p] \in -1 .. 1
      BY <1>2, <1>5
    <2> QED BY <1>2, <1>7, <2>1, Sides
  <1> HIDE DEF p, side, far
  <1>10. /\ w \in Tree /\ w.root = u.root /\ w.child = u.child /\ w.parent = u.parent
         /\ w.balance[p] = t.balance[p] - side
         /\ \A n \in Node \ {p} : w.balance[n] = t.balance[n]
    <2> DEFINE bal == [u.balance EXCEPT ![p] = u.balance[p] - side]
    <2>1. w = [u EXCEPT !.balance = bal]
      BY <1>3 DEF Tree
    <2>2. u.balance \in [Node -> Int] /\ u.balance[p] \in Int
      BY <1>2, <1>3 DEF Tree
    <2>3. u.balance[p] - side \in Int
      BY <1>9, <2>2
    <2>4. /\ bal \in [Node -> Int] /\ bal[p] = t.balance[p] - side
          /\ \A n \in Node \ {p} : bal[n] = t.balance[n]
      BY <1>2, <1>3, <2>2, <2>3
    <2> HIDE DEF bal, w
    <2> QED BY <1>3, <2>1, <2>4 DEF Tree
  <1> HIDE DEF w
  <1>11. Shape(w, R, Without(B, node))
    BY <1>3, <1>10 DEF Shape
  <1>12. ASSUME NEW n \in R \ {p}, NEW d \in Side PROVE w.child[d][n] = t.child[d][n]
    <2>1. t.child[d][n] # node
      BY <1>1, PlaceFacts DEF p
    <2> QED BY <1>4, <1>10, <2>1
  <1>13. \A n \in R \ {p} : Own(w, V, n) = Own(t, V, n)
    BY <1>12, Sides DEF Own
  <1>14. w.balance[p] = V[w.child[Right][p]] - V[w.child[Left][p]]
    <2>1. w.balance[p] = side * (V[w.child[side][p]] - V[w.child[-side][p]])
      <3>1. side = 1 \/ side = -1
        BY <1>2 DEF Side, Left, Right
      <3>2. w.child[side][p] = NULL /\ w.child[-side][p] = far
        BY <1>8, <1>10
      <3>3. w.balance[p] = side * (1 - V[far]) - side
        BY <1>9, <1>10
      <3>4. side * (1 - V[far]) - side = side * (0 - V[far])
        BY <1>9, <3>1
      <3> QED BY <1>6, <3>2, <3>3, <3>4
    <2> QED BY <1>2, <1>6, <1>10, <2>1, LevelIntro
  <1>15. Leveled(w, R, V, {p})
    <2>1. \A n \in R \ {p} : /\ w.balance[n] = V[w.child[Right][n]] - V[w.child[Left][n]]
                             /\ V[n] = Own(w, V, n) /\ w.balance[n] \in -1 .. 1
      <3> TAKE n \in R \ {p}
      <3>1. w.child[Right][n] = t.child[Right][n] /\ w.child[Left][n] = t.child[Left][n]
        BY <1>12, Sides
      <3>2. w.balance[n] = t.balance[n]
        BY <1>1, <1>10
      <3> QED BY <1>1, <1>13, <3>1, <3>2 DEF Leveled
    <2> QED BY <1>6, <1>14, <2>1 DEF Leveled
  <1>16. Sound(w, R, Without(B, node), V, {p})
    BY <1>10, <1>11, <1>15 DEF Sound
  <1>17. u.balance[p] \in -1 .. 1 /\ R \subseteq Node
    BY <1>1, <1>3, <1>9
  <1>18. V[p] = 1 + Larger(V[u.child[side][p]] + 1, V[u.child[-side][p]])
    BY <1>6, <1>8, <1>9
  <1> QED BY <1>2, <1>3, <1>16, <1>17, <1>18, Zenon DEF Loses, w, p, side

(* The tree without the node is balanced again.                             *)
LEMMA UnhookSound ==
    ASSUME NEW t, NEW T, NEW B, NEW V, Sound(t, T, B, V, {}), NEW node \in T,
           \E d \in Side : t.child[d][node] = NULL
    PROVE  /\ Alike(Unhook(t, node), t)
           /\ \E C, W : Sound(Unhook(t, node), T \ {node}, C, W, {})
  <1> DEFINE R    == T \ {node}
             p    == t.parent[node]
             kids == {t.child[s][node] : s \in Side} \ {NULL}
             only == CHOOSE c \in kids : TRUE
             r    == Unhook(t, node)
  <1>1. t \in Tree /\ Shape(t, T, B) /\ T \subseteq Node /\ Leveled(t, T, V, {}) /\ NULL \notin Node
    BY AvlAssumption DEF Sound, Shape
  <1>2. \A d \in Side : t.child[d][node] \in Pointer
    BY <1>1, ChildFacts
  <1>3. \A n \in T : B[n] \subseteq Node
    BY <1>1 DEF Shape, Pointer
  <1>4. r = CASE kids = {} /\ p = NULL -> [t EXCEPT !.root = NULL]
              [] kids = {} /\ p # NULL ->
                   PostRemove(Shrunk(Hang(t, p, node, NULL), p, SideOf(t, node)))
              [] OTHER -> PostRemove(Climb([Hang(t, p, node, only) EXCEPT !.parent[only] = p], only))
    BY Zenon DEF Unhook
  <1>5. CASE kids = {}
    <2> DEFINE u == Hooked(t, node, NULL)
    <2>1. \A d \in Side : t.child[d][node] = NULL
      BY <1>5
    <2>2. Lone(t, node, NULL) /\ NULL \in Pointer
      BY <2>1, Sides DEF Lone, Pointer
    <2>3. IsHooked(u, t, T, node, NULL)
      BY <1>1, <2>2, HookedFields
    <2>4. u = Hang(t, p, node, NULL)
      BY DEF Hooked
    <2>5. CASE p = NULL
      <3>1. r = u
        BY <1>4, <1>5, <2>4, <2>5 DEF Hang
      <3>2. node = t.root
        BY <1>1, <2>5, PlaceFacts
      <3>3. T = {node}
        BY <1>1, <2>1, <3>2, Sides DEF Shape
      <3>4. Shape(u, R, Without(B, node)) /\ u \in Tree
        BY <1>1, <2>2, <2>3, HookedShape DEF IsHooked
      <3>5. Leveled(u, R, V, {})
        BY <1>1, <3>3 DEF Leveled
      <3>6. Sound(u, R, Without(B, node), V, {}) /\ Alike(u, t)
        BY <2>3, <3>4, <3>5 DEF Sound, IsHooked
      <3> QED BY <3>1, <3>6
    <2>6. CASE p # NULL
      <3> DEFINE s0 == Shrunk(u, p, SideOf(t, node))
      <3>1. r = PostRemove(s0)
        BY <1>4, <1>5, <2>4, <2>6
      <3>2. node # t.root
        BY <1>1, <2>6, PlaceFacts
      <3> HIDE DEF u, p, r
      <3>3. Restored(s0, u, R, Without(B, node), p)
        <4>1. Loses(u, R, Without(B, node), V, t.parent[node], SideOf(t, node))
          BY <2>1, <2>3, <3>2, LeafFalls
        <4> QED BY <4>1, ShrinkStep DEF p
      <3>4. \E v, m : s0 = Climb(v, m)
        BY Zenon DEF Shrunk
      <3> HIDE DEF s0
      <3>5. PICK C, W : \/ s0.node = NULL /\ Sound(s0.tree, R, C, W, {})
                        \/ Fallen(s0.tree, R, C, W, s0.node) /\ C[s0.node] = Without(B, node)[p]
        BY <3>3 DEF Restored
      <3>6. s0 \in Stage
        <4>1. s0.tree \in Tree /\ s0.node \in Pointer
          BY <3>5, Zenon DEF Fallen, Sound, Shape, Pointer
        <4> QED BY <3>4, <4>1, Zenon DEF Stage, Climb
      <3>7. Fallen(s0.tree, R, C, W, s0.node) => Cardinality(C[s0.node]) > 0
        BY SubtreeSize DEF Fallen, Sound
      <3>8. Falling(u, R, 0, s0)
        BY <3>3, <3>5, <3>7 DEF Falling, Restored
      <3>9. Alike(r, u) /\ \E D, Z : Sound(r, R, D, Z, {})
        BY <3>1, <3>6, <3>8, RemoveLoop
      <3> QED BY <2>3, <3>9 DEF IsHooked, Alike, r
    <2> QED BY <2>5, <2>6
  <1>6. CASE kids # {}
    <2> DEFINE u  == Hooked(t, node, only)
               s0 == Climb(u, only)
    <2>1. only \in kids
      BY <1>6
    <2>2. only # NULL /\ only \in Pointer
      BY <1>2, <2>1
    <2>3. PICK e \in Side : t.child[e][node] = only
      BY <2>1
    <2> HIDE DEF only
    <2>4. Lone(t, node, only)
      BY <2>2, <2>3, Sides DEF Lone
    <2>5. IsHooked(u, t, T, node, only)
      BY <1>1, <2>2, HookedFields
    <2>6. r = PostRemove(s0)
      <3>1. u = [Hang(t, p, node, only) EXCEPT !.parent[only] = p]
        BY <2>2 DEF Hooked
      <3> HIDE DEF u
      <3> QED BY <1>4, <1>6, <3>1
    <2> HIDE DEF u, r
    <2>7. Fallen(u, R, Without(B, node), [V EXCEPT ![only] = V[node]], only)
      BY <2>2, <2>4, <2>5, HookedFalls
    <2>8. Cardinality(Without(B, node)[only]) > 0 /\ u \in Tree
      BY <2>7, SubtreeSize DEF Fallen, Sound
    <2>9. s0 \in Stage /\ s0.tree = u /\ s0.node = only
      BY <2>2, <2>8 DEF Stage, Climb
    <2> HIDE DEF s0
    <2>10. Falling(u, R, 0, s0)
      BY <2>7, <2>8, <2>9 DEF Falling, Alike
    <2>11. Alike(r, u) /\ \E D, Z : Sound(r, R, D, Z, {})
      BY <2>6, <2>9, <2>10, RemoveLoop
    <2> QED BY <2>5, <2>11 DEF IsHooked, Alike, r
  <1> QED BY <1>5, <1>6

-----------------------------------------------------------------------------
(* One node in the place of another                                         *)

IsReplaced(u, t, T, node, new) ==
    /\ u \in Tree /\ Alike(u, t)
    /\ u.root = IF node = t.root THEN new ELSE t.root
    /\ \A n \in T \ {node}, d \in Side :
         u.child[d][n] = IF t.child[d][n] = node THEN new ELSE t.child[d][n]
    /\ \A d \in Side : u.child[d][new] = t.child[d][node]
    /\ u.parent[new] = t.parent[node] /\ u.balance[new] = t.balance[node]
    /\ \A d \in Side : t.child[d][node] # NULL => u.parent[t.child[d][node]] = new
    /\ \A n \in T \ {node} : t.parent[n] # node => u.parent[n] = t.parent[n]
    /\ \A n \in T : u.balance[n] = t.balance[n]

LEMMA ReplaceFields ==
    ASSUME NEW t \in Tree, NEW T, NEW B, Shape(t, T, B), NEW node \in T, NEW new \in Node \ T
    PROVE  IsReplaced(Replace(t, node, new), t, T, node, new)
  <1> DEFINE p   == t.parent[node]
             l   == t.child[Left][node]
             r   == t.child[Right][node]
             kid == [s \in Side |-> [t.child[s] EXCEPT ![new] = t.child[s][node]]]
             par == Put(Put([t.parent EXCEPT ![new] = p], l, new), r, new)
             bal == [t.balance EXCEPT ![new] = t.balance[node]]
             led == [t EXCEPT !.balance = bal, !.parent = par, !.child = kid]
             u   == Replace(t, node, new)
  <1>1. /\ T \subseteq Node /\ NULL \notin Node /\ node \in Node /\ new # node /\ new \in Node /\ new \notin T
        /\ p \in Pointer /\ l \in Pointer /\ r \in Pointer /\ Left \in Side /\ Right \in Side
    BY Sides, ChildFacts, PlaceFacts, AvlAssumption DEF Shape
  <1>2. /\ l # node /\ r # node
        /\ l # NULL => l \in T /\ t.parent[l] = node /\ l # r
        /\ r # NULL => r \in T /\ t.parent[r] = node /\ l # r
        /\ p # NULL => p \in T /\ p # node
    <2>1. l # node /\ r # node
      BY Sides, ChildFacts
    <2>2. l # NULL => l \in T /\ t.parent[l] = node
      BY Sides DEF Shape
    <2>3. r # NULL => r \in T /\ t.parent[r] = node
      BY Sides DEF Shape
    <2>4. l # NULL \/ r # NULL => l # r
      <3>1. l # NULL => l # t.child[-Left][node]
        BY Sides, ChildFacts
      <3>2. r # NULL => r # t.child[-Right][node]
        BY Sides, ChildFacts
      <3> QED BY <3>1, <3>2, Sides
    <2>5. p # NULL => p \in T /\ p # node
      BY PlaceFacts
    <2> QED BY <2>1, <2>2, <2>3, <2>4, <2>5
  <1>3. /\ kid \in [Side -> [Node -> Pointer]]
        /\ \A d \in Side : kid[d][new] = t.child[d][node]
        /\ \A n \in Node \ {new}, d \in Side : kid[d][n] = t.child[d][n]
    <2>1. \A d \in Side : t.child[d] \in [Node -> Pointer] /\ t.child[d][node] \in Pointer
      BY <1>1 DEF Tree
    <2> QED BY <1>1, <2>1
  <1>4. /\ bal \in [Node -> Int] /\ bal[new] = t.balance[node]
        /\ \A n \in Node \ {new} : bal[n] = t.balance[n]
    <2>1. t.balance \in [Node -> Int]
      BY DEF Tree
    <2> QED BY <1>1, <2>1
  <1>5. /\ par \in [Node -> Pointer] /\ par[new] = p /\ par[node] = p
        /\ l # NULL => par[l] = new
        /\ r # NULL => par[r] = new
        /\ \A n \in Node \ {new, l, r} : par[n] = t.parent[n]
    <2> DEFINE p1 == [t.parent EXCEPT ![new] = p]
               p2 == Put(p1, l, new)
    <2> HIDE DEF p, l, r
    <2>1. /\ p1 \in [Node -> Pointer] /\ p1[new] = p
          /\ \A n \in Node \ {new} : p1[n] = t.parent[n]
      BY <1>1 DEF Tree
    <2> HIDE DEF p1
    <2>2. /\ p2 \in [Node -> Pointer]
          /\ l # NULL => p2[l] = new
          /\ \A n \in Node \ {l} : p2[n] = p1[n]
      BY <1>1, <2>1 DEF Put, Pointer
    <2>3. par = Put(p2, r, new)
      BY DEF p1
    <2> HIDE DEF p2, par
    <2>4. /\ par \in [Node -> Pointer]
          /\ r # NULL => par[r] = new
          /\ \A n \in Node \ {r} : par[n] = p2[n]
      BY <1>1, <2>2, <2>3 DEF Put, Pointer
    <2>5. new # l /\ new # r /\ node # l /\ node # r
      BY <1>1, <1>2
    <2>6. par[new] = p
      BY <1>1, <2>1, <2>2, <2>4, <2>5
    <2>7. par[node] = p
      BY <1>1, <2>1, <2>2, <2>4, <2>5 DEF p
    <2>8. l # NULL => par[l] = new
      BY <1>1, <1>2, <2>2, <2>4
    <2>9. \A n \in Node \ {new, l, r} : par[n] = t.parent[n]
      BY <2>1, <2>2, <2>4
    <2> QED BY <2>4, <2>6, <2>7, <2>8, <2>9
  <1>6. u = Hang(led, p, node, new)
    <2> DEFINE k == [s \in Side |-> t.child[s][node]]
               in == [t EXCEPT !.balance[new] = t.balance[node], !.parent[new] = p,
                               !.child = [s \in Side |-> [@[s] EXCEPT ![new] = k[s]]]]
    <2>1. u = Hang([in EXCEPT !.parent = Put(Put(@, k[Left], new), k[Right], new)], p, node, new)
      BY Zenon DEF Replace
    <2>2. k[Left] = l /\ k[Right] = r
      BY <1>1
    <2>3. [s \in Side |-> [t.child[s] EXCEPT ![new] = k[s]]] = kid
      OBVIOUS
    <2>4. in = [t EXCEPT !.balance = bal, !.parent = [t.parent EXCEPT ![new] = p], !.child = kid]
      <3> HIDE DEF kid, k, p
      <3> QED BY <2>3 DEF Tree
    <2>5. in.parent = [t.parent EXCEPT ![new] = p]
      <3> HIDE DEF kid, k, p, bal, in
      <3> QED BY <2>4 DEF Tree
    <2>6. [in EXCEPT !.parent = Put(Put(in.parent, k[Left], new), k[Right], new)] = led
      <3>1. Put(Put(in.parent, k[Left], new), k[Right], new) = par
        <4> HIDE DEF k, p, l, r, in
        <4> QED BY <2>2, <2>5
      <3> HIDE DEF k, p, l, r, in, par, kid, bal
      <3> QED BY <2>4, <3>1 DEF Tree, led
    <2> HIDE DEF k, p, l, r, in, par, kid, bal, led, u
    <2> QED BY <2>1, <2>6
  <1> HIDE DEF kid, par, bal, u
  <1>7. /\ led \in Tree /\ Alike(led, t) /\ led.root = t.root
        /\ led.balance = bal /\ led.parent = par /\ led.child = kid
    BY <1>3, <1>4, <1>5 DEF Tree, Alike
  <1> HIDE DEF led, p, l, r
  <1>8. CASE node = t.root
    <2>1. p = NULL
      BY <1>8, PlaceFacts DEF p
    <2>2. u = [led EXCEPT !.root = new]
      BY <1>6, <2>1 DEF Hang
    <2>3. /\ u \in Tree /\ Alike(u, t) /\ u.root = new
          /\ u.balance = bal /\ u.parent = par /\ u.child = kid
      BY <1>1, <1>7, <2>2 DEF Tree, Alike, Pointer
    <2>4. \A n \in T, d \in Side : t.child[d][n] # node
      BY <1>8, PlaceFacts
    <2>5. \A n \in T \ {node}, d \in Side :
            u.child[d][n] = IF t.child[d][n] = node THEN new ELSE t.child[d][n]
      BY <1>1, <1>3, <2>3, <2>4
    <2>6. /\ \A d \in Side : u.child[d][new] = t.child[d][node]
          /\ u.parent[new] = t.parent[node] /\ u.balance[new] = t.balance[node]
          /\ \A n \in T : u.balance[n] = t.balance[n]
      BY <1>1, <1>3, <1>4, <1>5, <2>3 DEF p
    <2>7. \A d \in Side : t.child[d][node] # NULL => u.parent[t.child[d][node]] = new
      BY <1>5, <2>3, Sides DEF l, r
    <2>8. \A n \in T \ {node} : t.parent[n] # node => u.parent[n] = t.parent[n]
      BY <1>1, <1>2, <1>5, <2>3
    <2> QED BY <1>8, <2>3, <2>5, <2>6, <2>7, <2>8, Zenon DEF IsReplaced, u
  <1>9. CASE node # t.root
    <2> DEFINE e == SideOf(t, node)
    <2>1. p \in T /\ e \in Side /\ p # node /\ p # NULL /\ p \in Node /\ p # new
      BY <1>1, <1>9, PlaceFacts DEF p
    <2>2. \A n \in T, d \in Side : t.child[d][n] = node <=> n = p /\ d = e
      BY <1>9, PlaceFacts DEF p
    <2>3. SideOf(led, node) = e
      BY <1>1, <1>3, <1>5, <1>7, <2>1 DEF SideOf, p
    <2> HIDE DEF e
    <2> DEFINE kid2 == [kid EXCEPT ![e] = [kid[e] EXCEPT ![p] = new]]
    <2>4. u = [led EXCEPT !.child = kid2]
      <3>1. u = [led EXCEPT !.child[e][p] = new]
        BY <1>6, <2>1, <2>3 DEF Hang
      <3> QED BY <1>7, <3>1 DEF Tree
    <2>5. /\ kid2 \in [Side -> [Node -> Pointer]]
          /\ \A n \in Node, d \in Side : kid2[d][n] = IF n = p /\ d = e THEN new ELSE kid[d][n]
      BY <1>1, <1>3, <2>1 DEF Pointer
    <2> HIDE DEF kid2
    <2>6. /\ u \in Tree /\ Alike(u, t) /\ u.root = t.root
          /\ u.balance = bal /\ u.parent = par /\ u.child = kid2
      BY <1>7, <2>4, <2>5 DEF Tree, Alike
    <2>7. \A n \in T \ {node}, d \in Side :
            u.child[d][n] = IF t.child[d][n] = node THEN new ELSE t.child[d][n]
      <3> TAKE n \in T \ {node}
      <3> TAKE d \in Side
      <3>1. n \in Node /\ n # new
        BY <1>1
      <3> QED BY <1>3, <2>2, <2>5, <2>6, <3>1
    <2>8. /\ \A d \in Side : u.child[d][new] = t.child[d][node]
          /\ u.parent[new] = t.parent[node] /\ u.balance[new] = t.balance[node]
          /\ \A n \in T : u.balance[n] = t.balance[n]
      <3>1. \A d \in Side : u.child[d][new] = t.child[d][node]
        BY <1>1, <1>3, <2>1, <2>5, <2>6
      <3>2. u.parent[new] = t.parent[node] /\ u.balance[new] = t.balance[node]
        BY <1>4, <1>5, <2>6 DEF p
      <3> QED BY <1>1, <1>4, <2>6, <3>1, <3>2
    <2>9. \A d \in Side : t.child[d][node] # NULL => u.parent[t.child[d][node]] = new
      BY <1>5, <2>6, Sides DEF l, r
    <2>10. \A n \in T \ {node} : t.parent[n] # node => u.parent[n] = t.parent[n]
      BY <1>1, <1>2, <1>5, <2>6
    <2> QED BY <1>9, <2>6, <2>7, <2>8, <2>9, <2>10, Zenon DEF IsReplaced, u
  <1> QED BY <1>8, <1>9

(* The new node's key stands to the other keys as the old one's does.       *)
StandsIn(T, node, new) ==
    \A a \in T \ {node}, d \in Side : Lies(d, a, node) <=> Lies(d, a, new)

Swapped(S, node, new) == IF node \in S THEN (S \ {node}) \cup {new} ELSE S
SwappedBelow(B, node, new) ==
    [n \in Pointer |-> Swapped(IF n = new THEN B[node] ELSE B[n], node, new)]

(* The tree is as good with the new node as with the old one.               *)
LEMMA ReplaceShape ==
    ASSUME NEW t \in Tree, NEW T, NEW B, Shape(t, T, B), NEW node \in T, NEW new \in Node \ T,
           StandsIn(T, node, new), NEW u, IsReplaced(u, t, T, node, new)
    PROVE  Shape(u, Swapped(T, node, new), SwappedBelow(B, node, new))
  <1> DEFINE R    == (T \ {node}) \cup {new}
             C    == SwappedBelow(B, node, new)
             o(n) == IF n = new THEN node ELSE n
             f(x) == IF x = node THEN new ELSE x
             Z(S) == Swapped(S, node, new)
  <1>1. /\ T \subseteq Node /\ NULL \notin Node /\ node \in Node /\ new \in Node /\ new \notin T
        /\ new # node /\ R \subseteq Node /\ Swapped(T, node, new) = R
        /\ B \in [Pointer -> SUBSET T] /\ B[NULL] = {} /\ node \in B[node]
    BY AvlAssumption, Sides, ChildFacts DEF Shape, Swapped
  <1>2. /\ u.root = IF node = t.root THEN new ELSE t.root
        /\ \A n \in T \ {node}, d \in Side :
             u.child[d][n] = IF t.child[d][n] = node THEN new ELSE t.child[d][n]
        /\ \A d \in Side : u.child[d][new] = t.child[d][node]
        /\ u.parent[new] = t.parent[node]
        /\ \A d \in Side : t.child[d][node] # NULL => u.parent[t.child[d][node]] = new
        /\ \A n \in T \ {node} : t.parent[n] # node => u.parent[n] = t.parent[n]
    BY DEF IsReplaced
  <1>3. \A n \in R : /\ o(n) \in T /\ f(o(n)) = n
                     /\ \A d \in Side : u.child[d][n] = f(t.child[d][o(n)])
    <2> TAKE n \in R
    <2>1. o(n) \in T /\ f(o(n)) = n
      BY <1>1
    <2>2. ASSUME NEW d \in Side PROVE u.child[d][n] = f(t.child[d][o(n)])
      <3>1. t.child[d][node] # node
        BY ChildFacts
      <3> QED BY <1>1, <1>2, <3>1
    <2> QED BY <2>1, <2>2
  <1>4. /\ C \in [Pointer -> SUBSET R] /\ C[NULL] = {} /\ C[new] = Z(B[node])
        /\ \A x \in T \cup {NULL} : C[f(x)] = Z(B[x])
    <2>1. \A S \in SUBSET T : Z(S) \in SUBSET R
      BY DEF Swapped
    <2>2. C = [n \in Pointer |-> Z(IF n = new THEN B[node] ELSE B[n])]
      BY DEF SwappedBelow
    <2>3. \A n \in Pointer : B[n] \in SUBSET T /\ B[node] \in SUBSET T
      BY <1>1 DEF Pointer
    <2>4. NULL \in Pointer /\ new \in Pointer /\ T \subseteq Pointer /\ new # NULL
      BY <1>1 DEF Pointer
    <2>5. Z({}) = {}
      BY DEF Swapped
    <2> HIDE DEF Z, C
    <2>6. \A n \in Pointer : C[n] = Z(IF n = new THEN B[node] ELSE B[n])
      BY <2>2
    <2>7. C \in [Pointer -> SUBSET R]
      BY <2>1, <2>2, <2>3
    <2> QED BY <1>1, <2>4, <2>5, <2>6, <2>7
  <1>5. \A n \in R, d \in Side : C[u.child[d][n]] = Z(B[t.child[d][o(n)]])
    <2> TAKE n \in R
    <2> TAKE d \in Side
    <2>1. t.child[d][o(n)] \in T \cup {NULL}
      BY <1>3 DEF Shape
    <2> QED BY <1>3, <1>4, <2>1
  <1>6. ASSUME NEW n \in R
        PROVE  C[n] = {n} \cup C[u.child[Left][n]] \cup C[u.child[Right][n]]
    <2>1. B[o(n)] = {o(n)} \cup B[t.child[Left][o(n)]] \cup B[t.child[Right][o(n)]]
      BY <1>3 DEF Shape
    <2>2. C[n] = Z(B[o(n)])
      BY <1>3, <1>4
    <2>3. /\ C[u.child[Left][n]] = Z(B[t.child[Left][o(n)]])
          /\ C[u.child[Right][n]] = Z(B[t.child[Right][o(n)]])
      BY <1>5, Sides
    <2>4. Z({o(n)}) = {n}
      BY <1>1 DEF Swapped
    <2>5. \A X, Y, U : Z(X \cup Y \cup U) = Z(X) \cup Z(Y) \cup Z(U)
      BY DEF Swapped
    <2> HIDE DEF Z, o, C
    <2> QED BY <2>1, <2>2, <2>3, <2>4, <2>5
  <1>7. ASSUME NEW n \in R, NEW d \in Side, NEW m \in C[u.child[d][n]]
        PROVE  Lies(d, m, n)
    <2>1. \A a \in T \ {node}, e \in Side : Lies(e, node, a) <=> Lies(e, new, a)
      <3> SUFFICES ASSUME NEW a \in T \ {node}, NEW e \in Side
                   PROVE  Lies(e, node, a) <=> Lies(e, new, a)
        OBVIOUS
      <3>1. KeyOf[a] \in Key /\ KeyOf[node] \in Key /\ KeyOf[new] \in Key
        BY <1>1, NodeKeys
      <3>2. /\ Lies(e, node, a) <=> Lies(-e, a, node)
            /\ Lies(e, new, a) <=> Lies(-e, a, new)
        BY <3>1, KeySides DEF Lies
      <3> QED BY <3>2, Sides DEF StandsIn
    <2>2. \A a \in T \ {node}, e \in Side : Lies(e, a, node) <=> Lies(e, a, new)
      BY DEF StandsIn
    <2>3. m \in Z(B[t.child[d][o(n)]])
      BY <1>5, <1>7
    <2>4. o(m) \in B[t.child[d][o(n)]] /\ (m = new \/ m # node) /\ o(m) \in T /\ o(n) \in T
      <3>1. o(n) \in T
        BY <1>3
      <3>2. B[t.child[d][o(n)]] \subseteq T
        BY <3>1, <1>1, ChildFacts
      <3> QED BY <1>1, <2>3, <3>1, <3>2 DEF Swapped
    <2>5. Lies(d, o(m), o(n))
      BY <2>4 DEF Shape
    <2>6. o(n) = node => o(m) # node
      BY <2>4, ChildFacts
    <2> QED BY <1>1, <2>1, <2>2, <2>4, <2>5, <2>6
  <1>8. ASSUME NEW n \in R, NEW d \in Side, u.child[d][n] # NULL
        PROVE  u.child[d][n] \in R /\ u.parent[u.child[d][n]] = n
    <2> DEFINE x == t.child[d][o(n)]
    <2>1. u.child[d][n] = f(x) /\ o(n) \in T
      BY <1>3
    <2>2. x # NULL => x \in T /\ t.parent[x] = o(n)
      BY <2>1 DEF Shape
    <2>3. x # NULL
      BY <1>1, <1>8, <2>1
    <2>4. CASE x = node
      <3>1. n # new
        BY <1>1, <2>1, <2>4, ChildFacts
      <3> QED BY <1>2, <2>1, <2>2, <2>3, <2>4, <3>1
    <2>5. CASE x # node
      <3>1. u.child[d][n] = x /\ x \in R
        BY <2>1, <2>2, <2>3, <2>5
      <3>2. n = new => u.parent[x] = new
        BY <1>2, <2>3
      <3>3. n # new => u.parent[x] = n
        BY <1>1, <1>2, <2>2, <2>3, <2>5
      <3> QED BY <3>1, <3>2, <3>3
    <2> QED BY <2>4, <2>5
  <1>9. ASSUME NEW n \in R, n # u.root
        PROVE  u.parent[n] \in R /\ \E d \in Side : u.child[d][u.parent[n]] = n
    <2>1. o(n) \in T /\ o(n) # t.root
      BY <1>1, <1>2, <1>3, <1>9
    <2>2. /\ t.parent[o(n)] \in T /\ t.parent[o(n)] # o(n)
          /\ \E d \in Side : t.child[d][t.parent[o(n)]] = o(n)
      <3>1. t.parent[o(n)] # o(n)
        BY <2>1, PlaceFacts
      <3> QED BY <2>1, <3>1 DEF Shape
    <2>3. PICK d \in Side : t.child[d][t.parent[o(n)]] = o(n)
      BY <2>2
    <2>4. CASE n = new
      BY <1>2, <2>2, <2>3, <2>4
    <2>5. CASE n # new /\ t.parent[n] = node
      <3>1. t.child[d][node] = n /\ n # NULL
        BY <1>1, <2>1, <2>3, <2>5
      <3>2. u.parent[n] = new
        BY <1>2, <3>1
      <3> QED BY <1>2, <3>1, <3>2
    <2>6. CASE n # new /\ t.parent[n] # node
      BY <1>2, <2>2, <2>3, <2>6
    <2> QED BY <2>4, <2>5, <2>6
  <1>10. C[u.root] = R
    <2>1. t.root \in T \cup {NULL} /\ B[t.root] = T /\ t.root # NULL
      <3>1. t.root \in T \cup {NULL} /\ B[t.root] = T
        BY DEF Shape
      <3> QED BY <1>1, <3>1
    <2>2. C[f(t.root)] = Z(T)
      BY <1>4, <2>1
    <2> QED BY <1>1, <1>2, <2>1, <2>2
  <1>11. u.root \in R /\ u.parent[u.root] = NULL
    <2>1. t.root \in T /\ t.parent[t.root] = NULL
      <3>1. t.root # NULL
        BY <1>1 DEF Shape
      <3> QED BY <3>1 DEF Shape
    <2> QED BY <1>1, <1>2, <2>1
  <1> HIDE DEF o, f, Z, C, R
  <1>12. Shape(u, R, C)
    BY <1>1, <1>4, <1>6, <1>7, <1>8, <1>9, <1>10, <1>11 DEF Shape
  <1> QED BY <1>1, <1>12 DEF C

LEMMA ReplaceSound ==
    ASSUME NEW t, NEW T, NEW B, NEW V, Sound(t, T, B, V, {}), NEW node \in T,
           NEW new \in Node \ T, StandsIn(T, node, new)
    PROVE  /\ Alike(Replace(t, node, new), t)
           /\ \E C, W : Sound(Replace(t, node, new), (T \ {node}) \cup {new}, C, W, {})
  <1> DEFINE R == (T \ {node}) \cup {new}
             C == SwappedBelow(B, node, new)
             W == [V EXCEPT ![new] = V[node]]
             u == Replace(t, node, new)
  <1>1. /\ t \in Tree /\ Shape(t, T, B) /\ T \subseteq Node /\ Leveled(t, T, V, {}) /\ NULL \notin Node
        /\ node \in Node /\ new \in Node /\ new # node
    BY AvlAssumption DEF Sound, Shape
  <1>2. IsReplaced(u, t, T, node, new)
    BY <1>1, ReplaceFields
  <1> HIDE DEF u
  <1>3. Shape(u, R, C) /\ u \in Tree /\ Alike(u, t)
    <2>1. Swapped(T, node, new) = R
      BY DEF Swapped
    <2>2. Shape(u, Swapped(T, node, new), C)
      BY <1>1, <1>2, ReplaceShape
    <2> QED BY <1>2, <2>1, <2>2 DEF IsReplaced
  <1>4. /\ \A n \in T \ {node}, d \in Side :
             u.child[d][n] = IF t.child[d][n] = node THEN new ELSE t.child[d][n]
        /\ \A d \in Side : u.child[d][new] = t.child[d][node]
        /\ u.balance[new] = t.balance[node]
        /\ \A n \in T : u.balance[n] = t.balance[n]
    BY <1>2 DEF IsReplaced
  <1>5. V \in [Pointer -> Nat] /\ V[NULL] = 0
    BY <1>1 DEF Leveled
  <1>6. /\ W \in [Pointer -> Nat] /\ W[NULL] = 0 /\ W[new] = V[node]
        /\ \A n \in Pointer \ {new} : W[n] = V[n]
    BY <1>1, <1>5 DEF Pointer
  <1> HIDE DEF C, W
  <1>7. \A n \in T, d \in Side : t.child[d][n] \in T \cup {NULL} /\ t.child[d][n] \in Pointer \ {new}
    BY <1>1 DEF Shape, Pointer
  <1>8. \A n \in T \ {node}, d \in Side : W[u.child[d][n]] = V[t.child[d][n]]
    BY <1>4, <1>6, <1>7
  <1>9. \A d \in Side : W[u.child[d][new]] = V[t.child[d][node]]
    BY <1>4, <1>6, <1>7
  <1>10. \A n \in T : /\ t.balance[n] = V[t.child[Right][n]] - V[t.child[Left][n]]
                      /\ V[n] = 1 + Larger(V[t.child[Left][n]], V[t.child[Right][n]])
                      /\ t.balance[n] \in -1 .. 1
    BY <1>1 DEF Leveled, Own
  <1>11. ASSUME NEW n \in R
         PROVE  /\ u.balance[n] = W[u.child[Right][n]] - W[u.child[Left][n]]
                /\ W[n] = Own(u, W, n) /\ u.balance[n] \in -1 .. 1
    <2>1. CASE n = new
      <3>1. /\ W[u.child[Right][new]] = V[t.child[Right][node]]
            /\ W[u.child[Left][new]] = V[t.child[Left][node]]
        BY <1>9, Sides
      <3> QED BY <1>4, <1>6, <1>10, <2>1, <3>1 DEF Own
    <2>2. CASE n # new
      <3>1. /\ W[u.child[Right][n]] = V[t.child[Right][n]]
            /\ W[u.child[Left][n]] = V[t.child[Left][n]]
        BY <1>8, <2>2, Sides
      <3>2. n \in T /\ W[n] = V[n]
        BY <1>1, <1>6, <2>2 DEF Pointer
      <3> QED BY <1>4, <1>10, <3>1, <3>2 DEF Own
    <2> QED BY <2>1, <2>2
  <1>12. Leveled(u, R, W, {})
    BY <1>6, <1>11 DEF Leveled
  <1>13. Sound(u, R, C, W, {})
    BY <1>3, <1>12 DEF Sound
  <1> QED BY <1>3, <1>13 DEF u

(* A node of an equal key stands in for another.                            *)
LEMMA EqualStandsIn ==
    ASSUME NEW T, T \subseteq Node, NEW node \in Node, NEW new \in Node,
           Comp(KeyOf[node], KeyOf[new]) = 0
    PROVE  StandsIn(T, node, new)
  <1> SUFFICES ASSUME NEW a \in T \ {node}, NEW d \in Side
               PROVE  Lies(d, a, node) <=> Lies(d, a, new)
    BY DEF StandsIn
  <1>1. KeyOf[a] \in Key /\ KeyOf[node] \in Key /\ KeyOf[new] \in Key /\ -d \in Side
    BY NodeKeys, Sides
  <1>2. Lies(-d, new, a) <=> Lies(-d, node, a)
    BY <1>1, KeyOrder DEF Lies
  <1>3. /\ Lies(d, a, node) <=> Lies(-d, node, a)
        /\ Lies(d, a, new) <=> Lies(-d, new, a)
    BY <1>1, KeySides DEF Lies
  <1> QED BY <1>2, <1>3

(* How nodes lie to each other.                                             *)
LEMMA LiesFacts ==
    ASSUME NEW a \in Node, NEW b \in Node, NEW d \in Side
    PROVE  /\ Lies(d, a, b) <=> Lies(-d, b, a)
           /\ Lies(d, a, b) => \A e \in Side : Lies(e, a, b) <=> e = d
           /\ \A c \in Node : Lies(d, a, b) /\ Lies(d, b, c) => Lies(d, a, c)
           /\ ~Lies(d, a, a)
  <1>1. KeyOf[a] \in Key /\ KeyOf[b] \in Key
    BY NodeKeys
  <1>2. Lies(d, a, b) <=> Lies(-d, b, a)
    BY <1>1, KeySides DEF Lies
  <1>3. ASSUME Lies(d, a, b), NEW e \in Side PROVE Lies(e, a, b) <=> e = d
    <2>1. ~Lies(-d, a, b)
      BY <1>1, <1>3, KeySides DEF Lies
    <2> QED BY <1>3, <2>1, Sides
  <1>4. ASSUME NEW c \in Node, Lies(d, a, b), Lies(d, b, c) PROVE Lies(d, a, c)
    BY <1>1, <1>4, NodeKeys, KeyOrder DEF Lies
  <1>5. ~Lies(d, a, a)
    BY <1>1, KeySides DEF Lies
  <1> QED BY <1>2, <1>3, <1>4, <1>5

(* A node outside a subtree lies on one side of it.                         *)
LEMMA Outside ==
    ASSUME NEW t \in Tree, NEW T, NEW B, Shape(t, T, B)
    PROVE  \A x \in T : \A a \in T \ B[x] : \A y, z \in B[x] : \A d \in Side :
             Lies(d, a, y) <=> Lies(d, a, z)
  <1> DEFINE Ok(x) == \A a \in T \ B[x] : \A y, z \in B[x] : \A d \in Side :
                        Lies(d, a, y) <=> Lies(d, a, z)
             S == {Cardinality(Node) - Cardinality(B[x]) : x \in {w \in T : ~Ok(w)}}
  <1> SUFFICES ASSUME S # {} PROVE FALSE
    OBVIOUS
  <1>0. Cardinality(Node) \in Nat /\ T \subseteq Node
    BY AvlAssumption, FS_CardinalityType DEF Shape
  <1>1. S \subseteq Nat
    <2>1. \A x \in T : Cardinality(B[x]) \in Nat /\ Cardinality(B[x]) <= Cardinality(Node)
      BY SubtreeSize
    <2>2. \A x \in T : Cardinality(Node) - Cardinality(B[x]) \in Nat
      BY <1>0, <2>1
    <2> QED BY <2>2
  <1>2. PICK k \in S : \A j \in S : k <= j
    <2> HIDE DEF S
    <2> QED BY <1>1, SmallestExists
  <1>3. PICK x \in T : k = Cardinality(Node) - Cardinality(B[x]) /\ ~Ok(x)
    BY <1>2
  <1>4. PICK a \in T \ B[x] : \E y, z \in B[x] : \E d \in Side : ~(Lies(d, a, y) <=> Lies(d, a, z))
    BY <1>3
  <1>5. x # t.root
    BY <1>4 DEF Shape
  <1>6. PICK p \in T, e \in Side : t.child[e][p] = x
    BY <1>5 DEF Shape
  <1>7. /\ B[p] = {p} \cup B[x] \cup B[t.child[-e][p]] /\ B[x] \subseteq T /\ x # NULL
        /\ p \in Node /\ B[t.child[-e][p]] \subseteq T /\ -e \in Side
    <2>1. B[p] = {p} \cup B[x] \cup B[t.child[-e][p]] /\ p \in Node /\ -e \in Side
      BY <1>6, ChildFacts
    <2>2. x \in Pointer /\ t.child[-e][p] \in Pointer /\ x # NULL
      BY <1>0, <1>6, <2>1, ChildFacts, AvlAssumption DEF Pointer
    <2> QED BY <2>1, <2>2 DEF Shape
  <1>8. Ok(p)
    <2> SUFFICES ASSUME ~Ok(p) PROVE FALSE
      OBVIOUS
    <2>1. Cardinality(Node) - Cardinality(B[p]) \in S
      OBVIOUS
    <2>2. Cardinality(B[x]) < Cardinality(B[p]) /\ Cardinality(B[x]) \in Nat /\ Cardinality(B[p]) \in Nat
      BY <1>6, <1>7, SubtreeSize
    <2> QED BY <1>0, <1>2, <1>3, <2>1, <2>2
  <1>9. \A y \in B[x] : Lies(e, y, p)
    BY <1>6 DEF Shape
  <1>10. a \notin B[p] => FALSE
    <2> HIDE DEF S
    <2> QED BY <1>4, <1>7, <1>8
  <1>11. \A y \in B[x] : y \in Node /\ Lies(-e, p, y)
    <2> TAKE y \in B[x]
    <2>1. y \in Node
      BY <1>0, <1>7
    <2> QED BY <1>7, <1>9, <2>1, LiesFacts
  <1>12. ASSUME NEW y \in B[x] PROVE Lies(-e, a, y)
    <2>1. CASE a = p
      BY <1>11, <2>1
    <2>2. CASE a \in B[t.child[-e][p]]
      <3>1. Lies(-e, a, p) /\ a \in Node /\ y \in Node
        BY <1>0, <1>7, <1>11, <2>2 DEF Shape
      <3> QED BY <1>7, <1>11, <3>1, LiesFacts
    <2> QED BY <1>4, <1>7, <1>10, <2>1, <2>2
  <1>13. \A y \in B[x], d \in Side : Lies(d, a, y) <=> d = -e
    BY <1>0, <1>7, <1>11, <1>12, LiesFacts
  <1> QED BY <1>4, <1>13

(* Going down to the left ends at the node in front of all others.          *)
LEMMA LocalMinFacts ==
    ASSUME NEW t \in Tree, NEW T, NEW B, Shape(t, T, B), NEW x \in T
    PROVE  LET m == LocalMin(t, x)
           IN  /\ m \in B[x] /\ t.child[Left][m] = NULL
               /\ \A a \in B[x] : a # m => Lies(Right, a, m)
  <1> DEFINE l(n)  == t.child[Left][n]
             Down(n) == IF l(n) = NULL THEN n ELSE l(n)
             Ok(i, n) == /\ n \in B[x]
                         /\ \A a \in B[x] \ B[n], b \in B[n] : Lies(Right, a, b)
                         /\ l(n) = NULL \/ Cardinality(B[n]) + i <= Cardinality(Node)
             g     == [n \in T |-> Down(n)]
             Q     == [i \in Nat |-> {n \in T : Ok(i, n)}]
             F(a)  == [i \in Nat |-> IF i = 0 THEN x ELSE Down(a[i - 1])]
             after == CHOOSE a : a = F(a)
             last  == after[Cardinality(Node)]
  <1>1. LocalMin(t, x) = last
    BY Zenon DEF LocalMin, Repeat
  <1>2. T \subseteq Node /\ Cardinality(Node) \in Nat /\ B[x] \subseteq T /\ NULL \notin Node
    BY AvlAssumption, FS_CardinalityType DEF Shape, Pointer
  <1>3. ASSUME NEW i \in Nat, NEW n \in T, Ok(i, n)
        PROVE  Down(n) \in T /\ Ok(i + 1, Down(n))
    <2>1. CASE l(n) = NULL
      BY <1>3, <2>1
    <2>2. CASE l(n) # NULL
      <3>1. /\ l(n) \in T /\ B[l(n)] \subseteq B[n] /\ l(n) \in B[n]
            /\ B[n] = {n} \cup B[l(n)] \cup B[t.child[Right][n]]
        <4>1. l(n) \in T
          BY <2>2, Sides DEF Shape
        <4>2. B[n] = {n} \cup B[l(n)] \cup B[t.child[Right][n]] /\ l(n) \in B[l(n)]
          BY <4>1 DEF Shape
        <4> QED BY <4>1, <4>2
      <3>2. B[n] \subseteq B[x] /\ B[l(n)] \subseteq Node /\ n \in Node /\ B[t.child[Right][n]] \subseteq Node
        <4>1. B[n] \subseteq B[x]
          BY <1>3, Nested
        <4> QED BY <1>2, <3>1, <4>1
      <3>3. \A b \in B[l(n)] : Lies(Right, n, b)
        <4>1. \A b \in B[l(n)] : Lies(Left, b, n)
          BY Sides DEF Shape
        <4> QED BY <3>2, <4>1, LiesFacts, Sides
      <3>4. \A a \in B[t.child[Right][n]], b \in B[l(n)] : Lies(Right, a, b)
        <4>1. \A a \in B[t.child[Right][n]] : Lies(Right, a, n)
          BY Sides DEF Shape
        <4> QED BY <3>2, <3>3, <4>1, LiesFacts, Sides
      <3>5. ASSUME NEW a \in B[x] \ B[l(n)], NEW b \in B[l(n)] PROVE Lies(Right, a, b)
        BY <1>3, <3>1, <3>3, <3>4
      <3>6. Cardinality(B[l(n)]) + (i + 1) <= Cardinality(Node)
        <4>1. /\ Cardinality(B[l(n)]) < Cardinality(B[n])
              /\ Cardinality(B[l(n)]) \in Nat /\ Cardinality(B[n]) \in Nat
          BY <2>2, <3>1, SubtreeSize, Sides
        <4>2. Cardinality(B[n]) + i <= Cardinality(Node)
          BY <1>3, <2>2
        <4> QED BY <1>2, <4>1, <4>2
      <3>7. l(n) \in B[x]
        BY <3>1, <3>2
      <3>8. Down(n) = l(n)
        BY <2>2
      <3> HIDE DEF Down, l
      <3> QED BY <3>1, <3>5, <3>6, <3>7, <3>8
    <2> QED BY <2>1, <2>2
  <1>4. Ok(0, x)
    <2>1. x \in B[x] /\ Cardinality(B[x]) \in Nat /\ Cardinality(B[x]) <= Cardinality(Node)
      BY SubtreeSize DEF Shape
    <2> QED BY <1>2, <2>1
  <1>5. Keeps(T, g, Q, x)
    <2> HIDE DEF Ok, Down
    <2> QED BY <1>3, <1>4 DEF Keeps
  <1> HIDE DEF l, Ok
  <1>6. \E f : f = F(f)
    <2> HIDE DEF g, Q
    <2>1. PICK f : Iterates(f, g, Q, x)
      BY <1>5, Iteration
    <2>2. \A i \in Nat : f[i] \in T
      BY <1>5, <2>1 DEF Keeps, Iterates
    <2>3. \A i \in Nat : f[i] = IF i = 0 THEN x ELSE Down(f[i - 1])
      <3>1. \A i \in Nat : i # 0 => i - 1 \in Nat
        OBVIOUS
      <3> HIDE DEF Down
      <3> QED BY <2>1, <2>2, <3>1 DEF Iterates, g
    <2> HIDE DEF Down
    <2> QED BY <2>1, <2>3 DEF Iterates
  <1>7. after = F(after)
    BY <1>6, Zenon
  <1> HIDE DEF after
  <1>8. \A i \in Nat : after[i] \in Q[i]
    <2>1. after[0] = x /\ \A i \in Nat : after[i] \in T => after[i + 1] = g[after[i]]
      <3>1. \A i \in Nat : i + 1 \in Nat /\ i + 1 # 0 /\ (i + 1) - 1 = i
        OBVIOUS
      <3> HIDE DEF Down
      <3> QED BY <1>7, <3>1
    <2> HIDE DEF g, Q
    <2> QED BY <1>5, <2>1, Follows
  <1>9. last \in T /\ Ok(Cardinality(Node), last)
    BY <1>2, <1>8
  <1> HIDE DEF last
  <1>10. last \in B[x] /\ l(last) = NULL
    <2>1. Cardinality(B[last]) > 0 /\ Cardinality(B[last]) \in Nat
      BY <1>9, SubtreeSize
    <2> QED BY <1>2, <1>9, <2>1 DEF Ok
  <1>11. ASSUME NEW a \in B[x], a # last PROVE Lies(Right, a, last)
    <2>1. B[last] = {last} \cup B[t.child[Right][last]] /\ last \in B[last]
      BY <1>9, <1>10 DEF Shape, l
    <2>2. a \in B[t.child[Right][last]] => Lies(Right, a, last)
      BY <1>9, Sides DEF Shape
    <2> QED BY <1>9, <1>11, <2>1, <2>2 DEF Ok
  <1> QED BY <1>1, <1>10, <1>11 DEF l

(* The node that takes a removed node's place stands in for it.             *)
LEMMA NextStandsIn ==
    ASSUME NEW t \in Tree, NEW T, NEW B, Shape(t, T, B), NEW node \in T,
           t.child[Right][node] # NULL
    PROVE  LET min == LocalMin(t, t.child[Right][node])
           IN  /\ min \in T /\ min # node /\ t.child[Left][min] = NULL
               /\ StandsIn(T \ {min}, node, min)
  <1> DEFINE r   == t.child[Right][node]
             l   == t.child[Left][node]
             min == LocalMin(t, r)
  <1>1. r \in T /\ T \subseteq Node /\ node \in Node
    BY Sides DEF Shape
  <1>2. min \in B[r] /\ t.child[Left][min] = NULL /\ \A a \in B[r] : a # min => Lies(Right, a, min)
    BY <1>1, LocalMinFacts
  <1> HIDE DEF min
  <1>3. /\ B[node] = {node} \cup B[l] \cup B[r] /\ node \notin B[r] /\ B[node] \subseteq T
        /\ B[r] \subseteq B[node] /\ node \in B[node]
    <2>1. B[node] \subseteq T
      BY <1>1 DEF Shape, Pointer
    <2>2. B[node] = {node} \cup B[l] \cup B[r]
      BY DEF Shape
    <2> QED BY <2>1, <2>2, Sides, ChildFacts
  <1>4. min \in T /\ min \in Node /\ min # node /\ min \in B[node]
    BY <1>1, <1>2, <1>3
  <1>5. Lies(Right, min, node) /\ Lies(Left, node, min)
    <2>1. Lies(Right, min, node)
      BY <1>2, Sides DEF Shape
    <2> QED BY <1>1, <1>4, <2>1, LiesFacts, Sides
  <1>6. ASSUME NEW a \in (T \ {min}) \ {node}, NEW d \in Side
        PROVE  Lies(d, a, node) <=> Lies(d, a, min)
    <2>1. a \in T /\ a \in Node
      BY <1>1
    <2>2. CASE a \in B[r]
      <3>1. Lies(Right, a, node) /\ Lies(Right, a, min)
        BY <1>2, <2>2, Sides DEF Shape
      <3> QED BY <1>1, <1>4, <2>1, <3>1, LiesFacts, Sides
    <2>3. CASE a \in B[l]
      <3>1. Lies(Left, a, node)
        BY <2>3, Sides DEF Shape
      <3>2. Lies(Left, a, min)
        BY <1>1, <1>4, <1>5, <2>1, <3>1, LiesFacts, Sides
      <3> QED BY <1>1, <1>4, <2>1, <3>1, <3>2, LiesFacts, Sides
    <2>4. CASE a \notin B[node]
      BY <1>3, <1>4, <2>1, <2>4, Outside
    <2> QED BY <1>3, <2>2, <2>3, <2>4
  <1> QED BY <1>2, <1>4, <1>6 DEF StandsIn, min

(* The tree without the node is a balanced search tree.                     *)
LEMMA RemoveWorkerSound ==
    ASSUME NEW t, NEW T, NEW B, NEW V, Sound(t, T, B, V, {}), NEW node \in T
    PROVE  /\ Alike(RemoveWorker(t, node), t)
           /\ \E C, W : Sound(RemoveWorker(t, node), T \ {node}, C, W, {})
  <1> DEFINE min == LocalMin(t, t.child[Right][node])
             v   == Unhook(t, min)
             r   == RemoveWorker(t, node)
  <1>1. t \in Tree /\ Shape(t, T, B)
    BY DEF Sound
  <1>2. r = IF \A s \in Side : t.child[s][node] # NULL THEN Replace(v, node, min)
            ELSE Unhook(t, node)
    BY Zenon DEF RemoveWorker
  <1> HIDE DEF r
  <1>3. CASE \A s \in Side : t.child[s][node] # NULL
    <2>1. /\ min \in T /\ min # node /\ t.child[Left][min] = NULL
          /\ StandsIn(T \ {min}, node, min)
      BY <1>1, <1>3, NextStandsIn, Sides
    <2> HIDE DEF min
    <2>2. Alike(v, t) /\ \E C, W : Sound(v, T \ {min}, C, W, {})
      BY <2>1, UnhookSound, Sides
    <2> HIDE DEF v
    <2>3. PICK C, W : Sound(v, T \ {min}, C, W, {})
      BY <2>2
    <2>4. node \in T \ {min} /\ min \in Node \ (T \ {min})
      BY <1>1, <2>1 DEF Shape
    <2>5. /\ Alike(Replace(v, node, min), v)
          /\ \E D, Z : Sound(Replace(v, node, min), ((T \ {min}) \ {node}) \cup {min}, D, Z, {})
      BY <2>1, <2>3, <2>4, ReplaceSound
    <2>6. ((T \ {min}) \ {node}) \cup {min} = T \ {node}
      BY <2>1
    <2>7. r = Replace(v, node, min)
      BY <1>2, <1>3
    <2>8. Alike(r, t)
      BY <2>2, <2>5, <2>7 DEF Alike
    <2> QED BY <2>5, <2>6, <2>7, <2>8 DEF r
  <1>4. CASE \E s \in Side : t.child[s][node] = NULL
    <2>1. r = Unhook(t, node)
      BY <1>2, <1>4
    <2> QED BY <1>4, <2>1, UnhookSound DEF r
  <1> QED BY <1>3, <1>4

-----------------------------------------------------------------------------
(* Looking a key up in the tree                                             *)

(* The key has to all other nodes of T the place that node has.             *)
Near(T, key, node) ==
    \A a \in T \ {node}, d \in Side : Lies(d, a, node) <=> Beyond(d, KeyOf[a], key)

(* The search ends at a node with the key, or at one that has room on the   *)
(* key's side and where the key belongs.                                    *)
Found(t, T, key, node) ==
    /\ node \in T /\ Near(T, key, node)
    /\ \/ Comp(key, KeyOf[node]) = 0
       \/ \E e \in Side : Beyond(e, key, KeyOf[node]) /\ t.child[e][node] = NULL

(* The key lies where the whole subtree of n does.                          *)
Toward(t, T, B, key, n) ==
    \A a \in T \ B[n], b \in B[n], d \in Side : Lies(d, a, b) <=> Beyond(d, KeyOf[a], key)

(* A round follows the key.                                                 *)
LEMMA FindStep ==
    ASSUME NEW t \in Tree, NEW T, NEW B, Shape(t, T, B), NEW key \in Key,
           NEW n \in T, Toward(t, T, B, key, n)
    PROVE  LET next == FindRound(t, key, n)
           IN  \/ next = n /\ Found(t, T, key, n)
               \/ /\ next \in T /\ Toward(t, T, B, key, next)
                  /\ Cardinality(B[next]) < Cardinality(B[n])
  <1> DEFINE diff == Comp(key, KeyOf[n])
             e    == IF diff < 0 THEN Left ELSE Right
             next == t.child[e][n]
  <1>1. FindRound(t, key, n) = IF diff = 0 \/ next = NULL THEN n ELSE next
    BY Zenon DEF FindRound
  <1>2. /\ T \subseteq Node /\ n \in Node /\ KeyOf[n] \in Key /\ e \in Side /\ -e \in Side /\ -(-e) = e
        /\ diff # 0 => Beyond(e, key, KeyOf[n]) /\ Beyond(-e, KeyOf[n], key)
    <2>1. T \subseteq Node /\ n \in Node /\ KeyOf[n] \in Key /\ e \in Side /\ -e \in Side /\ -(-e) = e
      BY Sides, NodeKeys DEF Shape
    <2>2. diff \in Int
      BY <2>1, CompAssumption
    <2>3. diff # 0 => Beyond(e, key, KeyOf[n])
      BY <2>1, <2>2, KeySides
    <2>4. Beyond(e, key, KeyOf[n]) => Beyond(-e, KeyOf[n], key)
      BY <2>1, KeySides
    <2> HIDE DEF e, diff
    <2> QED BY <2>1, <2>3, <2>4
  <1>3. /\ B[n] = {n} \cup B[next] \cup B[t.child[-e][n]] /\ n \in B[n] /\ B[n] \subseteq T
        /\ B[next] \subseteq B[n] /\ B[t.child[-e][n]] \subseteq T
    <2>1. B[n] \subseteq T
      BY <1>2 DEF Shape, Pointer
    <2> HIDE DEF e
    <2>2. B[n] = {n} \cup B[next] \cup B[t.child[-e][n]] /\ n \in B[n]
      BY <1>2, ChildFacts
    <2> QED BY <2>1, <2>2
  <1>4. ASSUME diff = 0 PROVE Found(t, T, key, n)
    <2>1. ASSUME NEW a \in T \ {n}, NEW d \in Side PROVE Lies(d, a, n) <=> Beyond(d, KeyOf[a], key)
      <3>1. KeyOf[a] \in Key /\ -d \in Side /\ KeyOf[n] \in Key
        BY <1>2, Sides, NodeKeys
      <3>2. Beyond(-d, KeyOf[n], KeyOf[a]) <=> Beyond(-d, key, KeyOf[a])
        BY <1>4, <3>1, KeyOrder
      <3>3. Lies(d, a, n) <=> Beyond(-d, KeyOf[n], KeyOf[a])
        BY <3>1, KeySides DEF Lies
      <3>4. Beyond(d, KeyOf[a], key) <=> Beyond(-d, key, KeyOf[a])
        BY <3>1, KeySides
      <3> QED BY <3>2, <3>3, <3>4
    <2> QED BY <1>4, <2>1 DEF Found, Near
  <1> HIDE DEF diff, e, next
  <1>5. ASSUME diff # 0, NEW a \in B[t.child[-e][n]]
        PROVE  Lies(-e, a, n) /\ Beyond(-e, KeyOf[a], key)
    <2>1. Lies(-e, a, n) /\ a \in Node
      BY <1>2, <1>3 DEF Shape
    <2>2. Beyond(-e, KeyOf[n], key)
      BY <1>2, <1>5
    <2>3. KeyOf[a] \in Key
      BY <2>1, NodeKeys
    <2> QED BY <1>2, <2>1, <2>2, <2>3, KeyOrder DEF Lies
  <1>6. \A a \in T, d, g \in Side : Beyond(g, KeyOf[a], key) => (Beyond(d, KeyOf[a], key) <=> d = g)
    <2> SUFFICES ASSUME NEW a \in T, NEW d \in Side, NEW g \in Side, Beyond(g, KeyOf[a], key)
                 PROVE  Beyond(d, KeyOf[a], key) <=> d = g
      OBVIOUS
    <2>1. KeyOf[a] \in Key
      BY <1>2, NodeKeys
    <2>2. ~Beyond(-g, KeyOf[a], key)
      BY <2>1, KeySides
    <2> QED BY <2>2, Sides
  <1>7. CASE diff = 0
    BY <1>1, <1>4, <1>7
  <1>8. CASE diff # 0 /\ next = NULL
    <2>1. B[n] = {n} \cup B[t.child[-e][n]]
      BY <1>3, <1>8 DEF Shape
    <2>2. ASSUME NEW a \in T \ {n}, NEW d \in Side PROVE Lies(d, a, n) <=> Beyond(d, KeyOf[a], key)
      <3>1. CASE a \notin B[n]
        BY <1>3, <3>1 DEF Toward
      <3>2. CASE a \in B[n]
        <4>1. Lies(-e, a, n) /\ Beyond(-e, KeyOf[a], key)
          BY <1>5, <1>8, <2>1, <3>2
        <4>2. Lies(d, a, n) <=> d = -e
          BY <1>2, <4>1, LiesFacts
        <4> QED BY <1>2, <1>6, <4>1, <4>2
      <3> QED BY <3>1, <3>2
    <2>3. Beyond(e, key, KeyOf[n]) /\ t.child[e][n] = NULL
      BY <1>2, <1>8 DEF next
    <2>4. Found(t, T, key, n)
      BY <1>2, <2>2, <2>3 DEF Found, Near
    <2> QED BY <1>1, <1>8, <2>4
  <1>9. CASE diff # 0 /\ next # NULL
    <2>1. next \in T /\ Cardinality(B[next]) < Cardinality(B[n])
      <3>1. next \in T
        BY <1>2, <1>9 DEF Shape, next
      <3> QED BY <1>2, <1>9, <3>1, SubtreeSize DEF next
    <2>2. \A b \in B[next] : Lies(e, b, n) /\ b \in Node /\ Lies(-e, n, b)
      <3> TAKE b \in B[next]
      <3>1. Lies(e, b, n) /\ b \in Node
        BY <1>2, <1>3 DEF Shape, next
      <3> QED BY <1>2, <3>1, LiesFacts
    <2>3. ASSUME NEW a \in T \ B[next], NEW b \in B[next], NEW d \in Side
          PROVE  Lies(d, a, b) <=> Beyond(d, KeyOf[a], key)
      <3>1. CASE a \notin B[n]
        BY <1>3, <3>1 DEF Toward
      <3>2. CASE a \in B[n]
        <4>1. a = n \/ a \in B[t.child[-e][n]]
          BY <1>3, <3>2
        <4>2. Lies(-e, a, b) /\ Beyond(-e, KeyOf[a], key)
          <5>1. CASE a = n
            BY <1>2, <1>9, <2>2, <5>1
          <5>2. CASE a \in B[t.child[-e][n]]
            <6>1. Lies(-e, a, n) /\ Beyond(-e, KeyOf[a], key)
              BY <1>5, <1>9, <5>2
            <6> QED BY <1>2, <2>2, <6>1, LiesFacts
          <5> QED BY <4>1, <5>1, <5>2
        <4>3. Lies(d, a, b) <=> d = -e
          BY <1>2, <2>2, <4>2, LiesFacts
        <4> QED BY <1>2, <1>6, <4>2, <4>3
      <3> QED BY <3>1, <3>2
    <2> QED BY <1>1, <1>9, <2>1, <2>3 DEF Toward
  <1> QED BY <1>7, <1>8, <1>9

LEMMA FindRecFacts ==
    ASSUME NEW t \in Tree, NEW T, NEW B, Shape(t, T, B), t.root # NULL, NEW key \in Key
    PROVE  Found(t, T, key, FindRec(t, key))
  <1> DEFINE Ok(i, n) == \/ FindRound(t, key, n) = n /\ Found(t, T, key, n)
                         \/ Toward(t, T, B, key, n) /\ Cardinality(B[n]) + i <= Cardinality(Node)
             g     == [n \in T |-> FindRound(t, key, n)]
             Q     == [i \in Nat |-> {n \in T : Ok(i, n)}]
             F(a)  == [i \in Nat |-> IF i = 0 THEN t.root ELSE FindRound(t, key, a[i - 1])]
             after == CHOOSE a : a = F(a)
             last  == after[Cardinality(Node)]
  <1>1. FindRec(t, key) = last
    BY Zenon DEF FindRec, Repeat
  <1>2. T \subseteq Node /\ Cardinality(Node) \in Nat /\ t.root \in T
    BY AvlAssumption, FS_CardinalityType DEF Shape
  <1>3. ASSUME NEW i \in Nat, NEW n \in T, Ok(i, n)
        PROVE  FindRound(t, key, n) \in T /\ Ok(i + 1, FindRound(t, key, n))
    <2> DEFINE next == FindRound(t, key, n)
    <2>1. CASE next = n /\ Found(t, T, key, n)
      BY <2>1
    <2>2. CASE Toward(t, T, B, key, n) /\ Cardinality(B[n]) + i <= Cardinality(Node)
      <3>1. \/ next = n /\ Found(t, T, key, n)
            \/ /\ next \in T /\ Toward(t, T, B, key, next)
               /\ Cardinality(B[next]) < Cardinality(B[n])
        BY <2>2, FindStep
      <3> HIDE DEF next
      <3>2. next \in T => Cardinality(B[next]) \in Nat /\ Cardinality(B[n]) \in Nat
        BY SubtreeSize
      <3>3. ASSUME next \in T, Cardinality(B[next]) < Cardinality(B[n])
            PROVE  Cardinality(B[next]) + (i + 1) <= Cardinality(Node)
        BY <1>2, <2>2, <3>2, <3>3
      <3> QED BY <2>2, <3>1, <3>3 DEF next
    <2> QED BY <1>3, <2>1, <2>2
  <1>4. Ok(0, t.root)
    <2>1. Cardinality(B[t.root]) \in Nat /\ Cardinality(B[t.root]) <= Cardinality(Node)
      BY <1>2, SubtreeSize
    <2>2. Toward(t, T, B, key, t.root)
      BY DEF Toward, Shape
    <2> QED BY <2>1, <2>2
  <1>5. Keeps(T, g, Q, t.root)
    <2> HIDE DEF Ok
    <2> QED BY <1>2, <1>3, <1>4 DEF Keeps
  <1> HIDE DEF Ok
  <1>6. \E f : f = F(f)
    <2> HIDE DEF g, Q
    <2>1. PICK f : Iterates(f, g, Q, t.root)
      BY <1>5, Iteration
    <2>2. \A i \in Nat : f[i] \in T
      BY <1>5, <2>1 DEF Keeps, Iterates
    <2>3. \A i \in Nat : f[i] = IF i = 0 THEN t.root ELSE FindRound(t, key, f[i - 1])
      <3>1. \A i \in Nat : i # 0 => i - 1 \in Nat
        OBVIOUS
      <3> QED BY <2>1, <2>2, <3>1 DEF Iterates, g
    <2> QED BY <2>1, <2>3 DEF Iterates
  <1>7. after = F(after)
    BY <1>6, Zenon
  <1> HIDE DEF after
  <1>8. \A i \in Nat : after[i] \in Q[i]
    <2>1. after[0] = t.root /\ \A i \in Nat : after[i] \in T => after[i + 1] = g[after[i]]
      <3>1. \A i \in Nat : i + 1 \in Nat /\ i + 1 # 0 /\ (i + 1) - 1 = i
        OBVIOUS
      <3> QED BY <1>7, <3>1
    <2> HIDE DEF g, Q
    <2> QED BY <1>5, <2>1, Follows
  <1>9. last \in T /\ Ok(Cardinality(Node), last)
    BY <1>2, <1>8
  <1> HIDE DEF last
  <1>10. Cardinality(B[last]) > 0 /\ Cardinality(B[last]) \in Nat
    BY <1>9, SubtreeSize
  <1> QED BY <1>1, <1>2, <1>9, <1>10 DEF Ok

-----------------------------------------------------------------------------
(* A new leaf                                                               *)

(* Nothing outside the tree's own nodes and pointers matters to it.         *)
LEMMA Reframed ==
    ASSUME NEW t, NEW T, NEW B, NEW V, NEW X, Sound(t, T, B, V, X), NEW u \in Tree,
           u.root = t.root,
           \A n \in T : /\ u.parent[n] = t.parent[n] /\ u.balance[n] = t.balance[n]
                        /\ \A d \in Side : u.child[d][n] = t.child[d][n]
    PROVE  Sound(u, T, B, V, X)
  <1>1. t \in Tree /\ Shape(t, T, B) /\ Leveled(t, T, V, X)
    BY DEF Sound
  <1>2. \A n \in T : u.child[Left][n] = t.child[Left][n] /\ u.child[Right][n] = t.child[Right][n]
    BY Sides
  <1>3. Shape(u, T, B)
    <2>1. \A n \in T, d \in Side : t.child[d][n] # NULL => t.child[d][n] \in T
      BY <1>1 DEF Shape
    <2>2. \A n \in T : n # t.root => t.parent[n] \in T
      BY <1>1 DEF Shape
    <2>3. \A n \in T, d \in Side :
            /\ u.child[d][n] # NULL => u.child[d][n] \in T /\ u.parent[u.child[d][n]] = n
            /\ \A m \in B[u.child[d][n]] : Lies(d, m, n)
      BY <1>1, <2>1 DEF Shape
    <2>4. \A n \in T : n # u.root => /\ u.parent[n] \in T
                                     /\ \E d \in Side : u.child[d][u.parent[n]] = n
      BY <1>1, <2>2 DEF Shape
    <2> QED BY <1>1, <1>2, <2>3, <2>4 DEF Shape
  <1>4. Leveled(u, T, V, X)
    BY <1>1, <1>2 DEF Leveled, Own
  <1> QED BY <1>3, <1>4 DEF Sound

IsAttached(u, t, T, node, new, e) ==
    /\ u \in Tree /\ u.root = t.root
    /\ u.child[e][node] = new /\ u.child[-e][node] = t.child[-e][node]
    /\ \A n \in T \ {node}, d \in Side : u.child[d][n] = t.child[d][n]
    /\ \A d \in Side : u.child[d][new] = NULL
    /\ u.parent[new] = node /\ u.balance[new] = 0
    /\ \A n \in T : u.parent[n] = t.parent[n]
    /\ u.balance[node] = t.balance[node] + e
    /\ \A n \in T \ {node} : u.balance[n] = t.balance[n]

AttachedBelow(B, node, new) ==
    [n \in Pointer |-> IF n = new THEN {new}
                       ELSE IF node \in B[n] THEN B[n] \cup {new} ELSE B[n]]

(* A leaf where the search ended keeps the search tree.                     *)
LEMMA AttachShape ==
    ASSUME NEW t \in Tree, NEW T, NEW B, Shape(t, T, B), NEW node \in T, NEW new \in Node \ T,
           NEW e \in Side, t.child[e][node] = NULL, Lies(e, new, node),
           StandsIn(T, node, new), NEW u, IsAttached(u, t, T, node, new, e)
    PROVE  Shape(u, T \cup {new}, AttachedBelow(B, node, new))
  <1> DEFINE R == T \cup {new}
             C == AttachedBelow(B, node, new)
  <1>1. /\ T \subseteq Node /\ NULL \notin Node /\ node \in Node /\ new \in Node /\ new \notin T
        /\ new # node /\ new # NULL /\ B \in [Pointer -> SUBSET T] /\ B[NULL] = {} /\ node \in B[node]
        /\ -e \in Side /\ -e # e
    BY AvlAssumption, Sides, ChildFacts DEF Shape
  <1>2. /\ u.root = t.root
        /\ u.child[e][node] = new /\ u.child[-e][node] = t.child[-e][node]
        /\ \A n \in T \ {node}, d \in Side : u.child[d][n] = t.child[d][n]
        /\ \A d \in Side : u.child[d][new] = NULL
        /\ u.parent[new] = node
        /\ \A n \in T : u.parent[n] = t.parent[n]
    BY DEF IsAttached
  <1>3. /\ C \in [Pointer -> SUBSET R] /\ C[NULL] = {} /\ C[new] = {new}
        /\ \A n \in T : C[n] = IF node \in B[n] THEN B[n] \cup {new} ELSE B[n]
        /\ \A n \in T \cup {NULL} : C[n] = IF node \in B[n] THEN B[n] \cup {new} ELSE B[n]
    <2>1. \A n \in Pointer : C[n] = IF n = new THEN {new}
                                    ELSE IF node \in B[n] THEN B[n] \cup {new} ELSE B[n]
      BY DEF AttachedBelow
    <2>2. C \in [Pointer -> SUBSET R]
      BY <1>1 DEF AttachedBelow
    <2>3. NULL \in Pointer /\ new \in Pointer /\ T \subseteq Pointer
      BY <1>1 DEF Pointer
    <2> HIDE DEF C
    <2> QED BY <1>1, <2>1, <2>2, <2>3
  <1> HIDE DEF C
  <1>4. \A n \in T, d \in Side : t.child[d][n] \in T \cup {NULL}
    BY DEF Shape
  <1>5. ASSUME NEW n \in T PROVE C[n] = {n} \cup C[u.child[Left][n]] \cup C[u.child[Right][n]]
    <2>1. CASE n = node
      <3>1. B[node] = {node} \cup B[t.child[e][node]] \cup B[t.child[-e][node]]
        BY ChildFacts
      <3>2. node \notin B[t.child[-e][node]]
        BY <1>1, ChildFacts
      <3>3. C[u.child[-e][node]] = B[t.child[-e][node]]
        <4>1. t.child[-e][node] \in T \cup {NULL}
          BY <1>1, <1>4
        <4>2. C[t.child[-e][node]] = B[t.child[-e][node]]
          BY <1>3, <3>2, <4>1
        <4> QED BY <1>2, <4>2
      <3>4. C[node] = {node} \cup C[u.child[e][node]] \cup C[u.child[-e][node]]
        BY <1>1, <1>2, <1>3, <3>1, <3>3
      <3>5. {Left, Right} = {e, -e}
        BY Sides
      <3> QED BY <2>1, <3>4, <3>5
    <2>2. CASE n # node
      <3>1. u.child[Left][n] = t.child[Left][n] /\ u.child[Right][n] = t.child[Right][n]
        BY <1>2, <2>2, Sides
      <3>2. B[n] = {n} \cup B[t.child[Left][n]] \cup B[t.child[Right][n]]
        BY DEF Shape
      <3>3. t.child[Left][n] \in T \cup {NULL} /\ t.child[Right][n] \in T \cup {NULL}
        BY <1>4, Sides
      <3>4. \A x \in T \cup {NULL} : C[x] = IF node \in B[x] THEN B[x] \cup {new} ELSE B[x]
        BY <1>3
      <3> DEFINE l == t.child[Left][n]
                 r == t.child[Right][n]
      <3>5. /\ C[l] = IF node \in B[l] THEN B[l] \cup {new} ELSE B[l]
            /\ C[r] = IF node \in B[r] THEN B[r] \cup {new} ELSE B[r]
            /\ C[n] = IF node \in B[n] THEN B[n] \cup {new} ELSE B[n]
            /\ B[n] = {n} \cup B[l] \cup B[r]
        BY <3>2, <3>3, <3>4
      <3> HIDE DEF l, r
      <3>6. C[n] = {n} \cup C[l] \cup C[r]
        BY <2>2, <3>5
      <3> QED BY <3>1, <3>6 DEF l, r
    <2> QED BY <2>1, <2>2
  <1>6. C[new] = {new} \cup C[u.child[Left][new]] \cup C[u.child[Right][new]]
    BY <1>2, <1>3, Sides
  <1>7. ASSUME NEW n \in T, NEW d \in Side, Lies(d, node, n) PROVE Lies(d, new, n)
    <2>1. n # node /\ n \in Node
      BY <1>1, <1>7, LiesFacts
    <2>2. Lies(-d, n, node) /\ -d \in Side
      BY <1>1, <1>7, <2>1, LiesFacts, Sides
    <2>3. Lies(-d, n, new)
      BY <2>1, <2>2 DEF StandsIn
    <2> QED BY <1>1, <2>1, <2>2, <2>3, LiesFacts, Sides
  <1>8. ASSUME NEW n \in R, NEW d \in Side, NEW m \in C[u.child[d][n]] PROVE Lies(d, m, n)
    <2>1. n # new
      BY <1>2, <1>3, <1>8
    <2>2. CASE n = node /\ d = e
      BY <1>2, <1>3, <1>8, <2>2
    <2>3. CASE ~(n = node /\ d = e)
      <3>1. u.child[d][n] = t.child[d][n] /\ t.child[d][n] \in T \cup {NULL} /\ n \in T
        <4>1. n \in T
          BY <2>1
        <4>2. u.child[d][n] = t.child[d][n]
          BY <1>2, <2>3, <4>1, Sides
        <4> QED BY <1>4, <4>1, <4>2
      <3>2. CASE m \in B[t.child[d][n]]
        BY <3>1, <3>2 DEF Shape
      <3>3. CASE m \notin B[t.child[d][n]]
        <4>1. m = new /\ node \in B[t.child[d][n]]
          BY <1>3, <1>8, <3>1, <3>3
        <4>2. Lies(d, node, n)
          BY <3>1, <4>1 DEF Shape
        <4> QED BY <1>7, <3>1, <4>1, <4>2
      <3> QED BY <3>2, <3>3
    <2> QED BY <2>2, <2>3
  <1>9. ASSUME NEW n \in R, NEW d \in Side, u.child[d][n] # NULL
        PROVE  u.child[d][n] \in R /\ u.parent[u.child[d][n]] = n
    <2>1. n \in T
      BY <1>2, <1>9
    <2>2. CASE n = node /\ d = e
      BY <1>2, <2>2
    <2>3. CASE ~(n = node /\ d = e)
      <3>1. u.child[d][n] = t.child[d][n]
        BY <1>2, <2>1, <2>3, Sides
      <3>2. t.child[d][n] \in T /\ t.parent[t.child[d][n]] = n
        BY <1>9, <2>1, <3>1 DEF Shape
      <3> QED BY <1>2, <3>1, <3>2
    <2> QED BY <2>2, <2>3
  <1>10. ASSUME NEW n \in R, n # u.root
         PROVE  u.parent[n] \in R /\ \E d \in Side : u.child[d][u.parent[n]] = n
    <2>1. CASE n = new
      BY <1>2, <2>1
    <2>2. CASE n # new
      <3>1. n \in T /\ n # t.root /\ u.parent[n] = t.parent[n] /\ n # NULL
        BY <1>1, <1>2, <1>10, <2>2
      <3>2. PICK d \in Side : t.parent[n] \in T /\ t.child[d][t.parent[n]] = n
        BY <3>1 DEF Shape
      <3>3. ~(t.parent[n] = node /\ d = e)
        BY <3>1, <3>2
      <3>4. u.child[d][t.parent[n]] = n
        BY <1>2, <3>2, <3>3, Sides
      <3> QED BY <3>1, <3>2, <3>4
    <2> QED BY <2>1, <2>2
  <1>11. t.root \in T /\ B[t.root] = T /\ t.parent[t.root] = NULL
    <2>1. t.root # NULL
      BY <1>1 DEF Shape
    <2> QED BY <2>1 DEF Shape
  <1>12. C[u.root] = R /\ u.root \in R /\ u.parent[u.root] = NULL
    <2>1. C[t.root] = R
      BY <1>3, <1>11
    <2>2. u.parent[t.root] = NULL
      BY <1>2, <1>11
    <2> QED BY <1>2, <1>11, <2>1, <2>2
  <1>13. R \subseteq Node
    BY <1>1
  <1>14. Shape(u, R, C)
    <2> HIDE DEF R
    <2>1. \A n \in R : C[n] = {n} \cup C[u.child[Left][n]] \cup C[u.child[Right][n]]
      BY <1>5, <1>6 DEF R
    <2> QED BY <1>3, <1>8, <1>9, <1>10, <1>12, <1>13, <2>1 DEF Shape
  <1> QED BY <1>14 DEF C

(* u is t with the leaf new where its key belongs.                          *)
Attaches(u, t, T, B, V, node, new, e) ==
    /\ Sound(t, T, B, V, {}) /\ node \in T /\ new \in Node \ T /\ e \in Side
    /\ t.child[e][node] = NULL /\ Lies(e, new, node) /\ StandsIn(T, node, new)
    /\ IsAttached(u, t, T, node, new, e)

(* Attached to a node with room on one side only, the leaf balances it;     *)
(* attached to a leaf, it makes that subtree higher.                        *)
LEMMA AttachLevels ==
    ASSUME NEW u, NEW t, NEW T, NEW B, NEW V, NEW node, NEW new, NEW e,
           Attaches(u, t, T, B, V, node, new, e)
    PROVE  /\ t.balance[node] # 0 =>
                /\ t.balance[node] = -e
                /\ \E C, W : Sound(u, T \cup {new}, C, W, {})
           /\ t.balance[node] = 0 => \E C, W : Grown(u, T \cup {new}, C, W, node)
  <1> DEFINE R     == T \cup {new}
             C     == AttachedBelow(B, node, new)
             W     == [V EXCEPT ![new] = 1]
             other == t.child[-e][node]
  <1>0. /\ Sound(t, T, B, V, {}) /\ node \in T /\ new \in Node \ T /\ e \in Side
        /\ t.child[e][node] = NULL /\ Lies(e, new, node) /\ StandsIn(T, node, new)
        /\ IsAttached(u, t, T, node, new, e)
    BY DEF Attaches
  <1> USE <1>0
  <1>1. /\ t \in Tree /\ Shape(t, T, B) /\ T \subseteq Node /\ Leveled(t, T, V, {}) /\ NULL \notin Node
        /\ node \in Node /\ new \in Node /\ new # node /\ -e \in Side /\ -e # e /\ -(-e) = e
    BY <1>0, AvlAssumption, Sides DEF Sound, Shape
  <1>2. Shape(u, R, C) /\ u \in Tree
    BY <1>1, AttachShape DEF IsAttached
  <1>3. /\ u.child[e][node] = new /\ u.child[-e][node] = other
        /\ \A n \in T \ {node}, d \in Side : u.child[d][n] = t.child[d][n]
        /\ \A d \in Side : u.child[d][new] = NULL
        /\ u.balance[new] = 0
        /\ u.balance[node] = t.balance[node] + e
        /\ \A n \in T \ {node} : u.balance[n] = t.balance[n]
    BY DEF IsAttached
  <1>4. V \in [Pointer -> Nat] /\ V[NULL] = 0
    BY <1>1 DEF Leveled
  <1>5. /\ W \in [Pointer -> Nat] /\ W[NULL] = 0 /\ W[new] = 1
        /\ \A n \in Pointer \ {new} : W[n] = V[n]
    BY <1>1, <1>4 DEF Pointer
  <1>6. /\ V[other] \in Nat /\ V[node] \in Nat /\ t.balance[node] = e * (0 - V[other])
        /\ V[node] = 1 + Larger(0, V[other]) /\ t.balance[node] \in -1 .. 1
    <2>1. \A n \in T : \A d \in Side :
            /\ V[t.child[d][n]] \in Nat /\ V[t.child[-d][n]] \in Nat
            /\ t.balance[n] = d * (V[t.child[d][n]] - V[t.child[-d][n]])
            /\ V[n] = 1 + Larger(V[t.child[d][n]], V[t.child[-d][n]])
            /\ V[n] \in Nat /\ V[n] = Own(t, V, n) /\ t.balance[n] \in -1 .. 1
      BY <1>1, HeightFacts
    <2> QED BY <1>4, <2>1
  <1>7. \A n \in T, d \in Side : t.child[d][n] \in Pointer \ {new}
    BY <1>1 DEF Shape, Pointer
  <1> HIDE DEF C, W, other
  <1>8. e = 1 \/ e = -1
    BY DEF Side, Left, Right
  <1>9. W[node] = V[node] /\ W[other] = V[other] /\ node \in Pointer
    BY <1>1, <1>5, <1>7 DEF Pointer, other
  <1>10. ASSUME NEW n \in R \ {node}
         PROVE  /\ u.balance[n] = W[u.child[Right][n]] - W[u.child[Left][n]]
                /\ W[n] = Own(u, W, n) /\ u.balance[n] \in -1 .. 1
    <2>1. CASE n = new
      <3>1. u.child[Right][n] = NULL /\ u.child[Left][n] = NULL
        BY <1>3, <2>1, Sides
      <3> QED BY <1>3, <1>5, <2>1, <3>1 DEF Own, Larger
    <2>2. CASE n # new
      <3>1. n \in T \ {node} /\ n \in Pointer
        BY <1>1, <2>2 DEF Pointer
      <3>2. /\ u.child[Right][n] = t.child[Right][n] /\ u.child[Left][n] = t.child[Left][n]
            /\ u.balance[n] = t.balance[n] /\ W[n] = V[n]
        BY <1>3, <1>5, <2>2, <3>1, Sides
      <3>3. W[t.child[Right][n]] = V[t.child[Right][n]] /\ W[t.child[Left][n]] = V[t.child[Left][n]]
        BY <1>5, <1>7, <3>1, Sides
      <3>4. /\ t.balance[n] = V[t.child[Right][n]] - V[t.child[Left][n]]
            /\ V[n] = Own(t, V, n) /\ t.balance[n] \in -1 .. 1
        BY <1>1, <3>1 DEF Leveled
      <3> QED BY <3>2, <3>3, <3>4 DEF Own
    <2> QED BY <2>1, <2>2
  <1>11. /\ u.balance[node] = W[u.child[Right][node]] - W[u.child[Left][node]]
         /\ Own(u, W, node) = 1 + Larger(1, V[other])
    <2>1. e * (0 - V[other]) + e = e * (1 - V[other])
      BY <1>6, <1>8
    <2>2. u.balance[node] = e * (W[u.child[e][node]] - W[u.child[-e][node]])
      BY <1>3, <1>5, <1>6, <1>9, <2>1
    <2>3. Own(u, W, node) = 1 + Larger(W[u.child[e][node]], W[u.child[-e][node]])
      BY <1>1, <1>2, <1>5, LevelIntro
    <2>4. u.balance[node] = W[u.child[Right][node]] - W[u.child[Left][node]]
      BY <1>1, <1>2, <1>5, <2>2, LevelIntro
    <2> QED BY <1>3, <1>5, <1>9, <2>3, <2>4
  <1>12. CASE t.balance[node] # 0
    <2>1. V[other] = 1 /\ t.balance[node] = -e
      BY <1>6, <1>8, <1>12
    <2>2. u.balance[node] = 0
      BY <1>3, <1>8, <2>1
    <2>3. W[node] = Own(u, W, node) /\ u.balance[node] \in -1 .. 1
      BY <1>6, <1>9, <1>11, <2>1, <2>2 DEF Larger
    <2>4. Leveled(u, R, W, {})
      BY <1>5, <1>10, <1>11, <2>3 DEF Leveled
    <2> QED BY <1>2, <1>12, <2>1, <2>4 DEF Sound
  <1>13. CASE t.balance[node] = 0
    <2>1. V[other] = 0
      BY <1>6, <1>8, <1>13
    <2>2. u.balance[node] \in {-1, 1}
      BY <1>3, <1>8, <1>13
    <2>3. Own(u, W, node) = W[node] + 1
      BY <1>6, <1>9, <1>11, <2>1 DEF Larger
    <2>4. Leveled(u, R, W, {node})
      BY <1>5, <1>10, <1>11 DEF Leveled
    <2>5. Grown(u, R, C, W, node)
      BY <1>2, <2>2, <2>3, <2>4 DEF Sound, Grown
    <2> QED BY <1>13, <2>5
  <1> QED BY <1>12, <1>13

-----------------------------------------------------------------------------
(* The list                                                                 *)

(* A sequence with an element more, and with an element less.               *)
LEMMA InsertElements ==
    ASSUME NEW S, NEW s \in Seq(S), NEW e \in S, NEW p \in 1 .. Len(s) + 1
    PROVE  /\ InsertAt(s, p, e) \in Seq(S) /\ Len(InsertAt(s, p, e)) = Len(s) + 1
           /\ \A j \in 1 .. Len(s) + 1 :
                InsertAt(s, p, e)[j] = IF j < p THEN s[j] ELSE IF j = p THEN e ELSE s[j - 1]
  <1> DEFINE a == SubSeq(s, 1, p - 1)
             b == SubSeq(s, p, Len(s))
  <1>1. Len(s) \in Nat /\ p \in Nat /\ 1 <= p /\ p <= Len(s) + 1
    OBVIOUS
  <1>2. /\ a \in Seq(S) /\ Len(a) = p - 1
        /\ \A j \in 1 .. p - 1 : a[j] = s[j]
    BY <1>1
  <1>3. /\ b \in Seq(S) /\ Len(b) = Len(s) + 1 - p
        /\ \A j \in 1 .. Len(s) + 1 - p : b[j] = s[p + j - 1]
    BY <1>1
  <1> HIDE DEF a, b
  <1> DEFINE c == a \o <<e>>
  <1>4. /\ c \in Seq(S) /\ Len(c) = p
        /\ \A j \in 1 .. p : c[j] = IF j < p THEN s[j] ELSE e
    BY <1>1, <1>2
  <1> HIDE DEF c
  <1>5. /\ c \o b \in Seq(S) /\ Len(c \o b) = Len(s) + 1
        /\ \A j \in 1 .. Len(s) + 1 : (c \o b)[j] = IF j <= p THEN c[j] ELSE b[j - p]
    <2>1. /\ c \o b \in Seq(S) /\ Len(c \o b) = Len(c) + Len(b)
          /\ \A j \in 1 .. Len(c) + Len(b) :
               (c \o b)[j] = IF j <= Len(c) THEN c[j] ELSE b[j - Len(c)]
      BY <1>3, <1>4, ConcatProperties, Zenon
    <2>2. Len(c) + Len(b) = Len(s) + 1
      BY <1>1, <1>3, <1>4
    <2> QED BY <1>4, <2>1, <2>2
  <1>6. InsertAt(s, p, e) = c \o b
    BY Zenon DEF InsertAt, c, a, b
  <1>7. ASSUME NEW j \in 1 .. Len(s) + 1
        PROVE  (c \o b)[j] = IF j < p THEN s[j] ELSE IF j = p THEN e ELSE s[j - 1]
    <2>1. CASE j <= p
      BY <1>1, <1>4, <1>5, <2>1
    <2>2. CASE j > p
      <3>1. j - p \in 1 .. Len(s) + 1 - p /\ p + (j - p) - 1 = j - 1
        BY <1>1, <2>2
      <3>2. b[j - p] = s[j - 1]
        BY <1>3, <3>1
      <3> QED BY <1>1, <1>5, <2>2, <3>2
    <2>3. j <= p \/ j > p
      BY <1>1
    <2> QED BY <2>1, <2>2, <2>3, Zenon
  <1> QED BY <1>5, <1>6, <1>7

LEMMA RemoveElements ==
    ASSUME NEW S, NEW s \in Seq(S), NEW p \in 1 .. Len(s)
    PROVE  /\ RemoveAt(s, p) \in Seq(S) /\ Len(RemoveAt(s, p)) = Len(s) - 1
           /\ \A j \in 1 .. Len(s) - 1 : RemoveAt(s, p)[j] = IF j < p THEN s[j] ELSE s[j + 1]
  <1> DEFINE a == SubSeq(s, 1, p - 1)
             b == SubSeq(s, p + 1, Len(s))
  <1>1. Len(s) \in Nat /\ p \in Nat /\ 1 <= p /\ p <= Len(s)
    OBVIOUS
  <1>2. /\ a \in Seq(S) /\ Len(a) = p - 1
        /\ \A j \in 1 .. p - 1 : a[j] = s[j]
    BY <1>1
  <1>3. /\ b \in Seq(S) /\ Len(b) = Len(s) - p
        /\ \A j \in 1 .. Len(s) - p : b[j] = s[p + j]
    BY <1>1
  <1> HIDE DEF a, b
  <1>4. /\ a \o b \in Seq(S) /\ Len(a \o b) = Len(s) - 1
        /\ \A j \in 1 .. Len(s) - 1 : (a \o b)[j] = IF j <= p - 1 THEN a[j] ELSE b[j - (p - 1)]
    <2>1. /\ a \o b \in Seq(S) /\ Len(a \o b) = Len(a) + Len(b)
          /\ \A j \in 1 .. Len(a) + Len(b) :
               (a \o b)[j] = IF j <= Len(a) THEN a[j] ELSE b[j - Len(a)]
      BY <1>2, <1>3, ConcatProperties, Zenon
    <2>2. Len(a) + Len(b) = Len(s) - 1
      BY <1>1, <1>2, <1>3
    <2> QED BY <1>2, <2>1, <2>2
  <1>5. RemoveAt(s, p) = a \o b
    BY Zenon DEF RemoveAt, a, b
  <1>6. ASSUME NEW j \in 1 .. Len(s) - 1
        PROVE  (a \o b)[j] = IF j < p THEN s[j] ELSE s[j + 1]
    <2>1. CASE j < p
      BY <1>1, <1>2, <1>4, <2>1
    <2>2. CASE j >= p
      <3>1. j - (p - 1) \in 1 .. Len(s) - p /\ p + (j - (p - 1)) = j + 1
        BY <1>1, <2>2
      <3>2. b[j - (p - 1)] = s[j + 1]
        BY <1>3, <3>1
      <3> QED BY <1>1, <1>4, <2>2, <3>2
    <2>3. j < p \/ j >= p
      BY <1>1
    <2> QED BY <2>1, <2>2, <2>3, Zenon
  <1> QED BY <1>4, <1>5, <1>6

(* The i-th element; the list's head stands in front and behind.            *)
Elem(s, i) == IF i \in 1 .. Len(s) THEN s[i] ELSE HEAD

Fresh(s, n) == \A i \in 1 .. Len(s) : s[i] # n

(* The list holds the elements of s, once each, and no other node is linked.*)
Chained(t, s) ==
    /\ s \in Seq(Node)
    /\ \A i, j \in 1 .. Len(s) : s[i] = s[j] => i = j
    /\ \A i \in 0 .. Len(s) : /\ t.link[Right][Elem(s, i)] = Elem(s, i + 1)
                              /\ t.link[Left][Elem(s, i + 1)] = Elem(s, i)
    /\ \A n \in Node : Fresh(s, n) => \A d \in Side : t.link[d][n] = NULL

(* Elements and the head are places, and different ones.                    *)
LEMMA ElemFacts ==
    ASSUME NEW s \in Seq(Node), \A i, j \in 1 .. Len(s) : s[i] = s[j] => i = j
    PROVE  /\ \A i \in Int : Elem(s, i) \in Place /\ Elem(s, i) # NULL
           /\ \A i \in 1 .. Len(s) : Elem(s, i) = s[i] /\ s[i] \in Node /\ s[i] # HEAD
           /\ Elem(s, 0) = HEAD /\ Elem(s, Len(s) + 1) = HEAD
           /\ \A i, j \in 0 .. Len(s) : Elem(s, i) = Elem(s, j) => i = j
           /\ \A i, j \in 1 .. Len(s) + 1 : Elem(s, i) = Elem(s, j) => i = j
           /\ \A n \in Node, i \in Int : Fresh(s, n) => Elem(s, i) # n
           /\ Len(s) \in Nat /\ HEAD \in Place /\ HEAD # NULL
  <1>1. Len(s) \in Nat /\ \A i \in 1 .. Len(s) : s[i] \in Node
    OBVIOUS
  <1>2. HEAD \notin Node /\ NULL \notin Node /\ HEAD # NULL
    BY AvlAssumption
  <1> QED BY <1>1, <1>2 DEF Elem, Fresh, Place

(* Linking a node between two neighbours inserts it there.                  *)
LEMMA AddChained ==
    ASSUME NEW t \in Tree, NEW s, Chained(t, s), NEW n \in Node, Fresh(s, n),
           NEW p \in 1 .. Len(s) + 1
    PROVE  LET u == AddBetween(t, Elem(s, p - 1), Elem(s, p), n)
           IN  /\ Chained(u, InsertAt(s, p, n))
               /\ \E k \in [Side -> [Place -> Place \cup {NULL}]] : u = [t EXCEPT !.link = k]
  <1> DEFINE prev == Elem(s, p - 1)
             next == Elem(s, p)
             u    == AddBetween(t, prev, next, n)
             r    == InsertAt(s, p, n)
             rl   == [[t.link[Right] EXCEPT ![n] = next] EXCEPT ![prev] = n]
             ll   == [[t.link[Left] EXCEPT ![n] = prev] EXCEPT ![next] = n]
             k    == [[t.link EXCEPT ![Right] = rl] EXCEPT ![Left] = ll]
  <1>1. /\ s \in Seq(Node) /\ \A i, j \in 1 .. Len(s) : s[i] = s[j] => i = j
        /\ \A i \in 0 .. Len(s) : /\ t.link[Right][Elem(s, i)] = Elem(s, i + 1)
                                  /\ t.link[Left][Elem(s, i + 1)] = Elem(s, i)
        /\ \A m \in Node : Fresh(s, m) => \A d \in Side : t.link[d][m] = NULL
    BY DEF Chained
  <1>2. /\ \A i \in Int : Elem(s, i) \in Place /\ Elem(s, i) # NULL
        /\ \A i \in 1 .. Len(s) : Elem(s, i) = s[i] /\ s[i] \in Node /\ s[i] # HEAD
        /\ Elem(s, 0) = HEAD /\ Elem(s, Len(s) + 1) = HEAD
        /\ \A i, j \in 0 .. Len(s) : Elem(s, i) = Elem(s, j) => i = j
        /\ \A i, j \in 1 .. Len(s) + 1 : Elem(s, i) = Elem(s, j) => i = j
        /\ \A i \in Int : Elem(s, i) # n
        /\ Len(s) \in Nat /\ HEAD \in Place /\ HEAD # NULL
    BY <1>1, ElemFacts
  <1>3. p \in Nat /\ 1 <= p /\ p <= Len(s) + 1 /\ p - 1 \in 0 .. Len(s)
    BY <1>2
  <1>4. /\ r \in Seq(Node) /\ Len(r) = Len(s) + 1
        /\ \A j \in 1 .. Len(s) + 1 : r[j] = IF j < p THEN s[j] ELSE IF j = p THEN n ELSE s[j - 1]
    BY <1>1, InsertElements
  <1> HIDE DEF r, prev, next
  <1>5. prev \in Place /\ next \in Place /\ n \in Place /\ n # prev /\ n # next
    BY <1>2, <1>3 DEF prev, next, Place
  <1>6. t.link \in [Side -> [Place -> Place \cup {NULL}]] /\ Left \in Side /\ Right \in Side /\ Left # Right
    BY Sides DEF Tree
  <1>7. /\ rl \in [Place -> Place \cup {NULL}] /\ rl[prev] = n /\ rl[n] = next
        /\ \A x \in Place \ {n, prev} : rl[x] = t.link[Right][x]
    BY <1>5, <1>6
  <1>8. /\ ll \in [Place -> Place \cup {NULL}] /\ ll[next] = n /\ ll[n] = prev
        /\ \A x \in Place \ {n, next} : ll[x] = t.link[Left][x]
    BY <1>5, <1>6
  <1>9. u = [t EXCEPT !.link = k]
    <2>1. u = [t EXCEPT !.link[Right] = [@ EXCEPT ![n] = next, ![prev] = n],
                        !.link[Left]  = [@ EXCEPT ![n] = prev, ![next] = n]]
      BY Zenon DEF AddBetween, u
    <2> DEFINE m == [t.link EXCEPT ![Right] = rl]
               v == [t EXCEPT !.link = m]
    <2>2. u = [v EXCEPT !.link = [v.link EXCEPT ![Left] = ll]]
      BY <2>1
    <2> HIDE DEF u, rl, ll, m
    <2>3. v.link = m
      BY DEF Tree
    <2>4. [v EXCEPT !.link = [m EXCEPT ![Left] = ll]] = [t EXCEPT !.link = [m EXCEPT ![Left] = ll]]
      BY DEF Tree
    <2> QED BY <2>2, <2>3, <2>4 DEF m
  <1>10. k \in [Side -> [Place -> Place \cup {NULL}]] /\ k[Right] = rl /\ k[Left] = ll
    <2> HIDE DEF rl, ll
    <2> QED BY <1>6, <1>7, <1>8
  <1> HIDE DEF rl, ll, k, u
  <1>11. u.link[Right] = rl /\ u.link[Left] = ll
    BY <1>9, <1>10 DEF Tree
  <1>12. /\ \A j \in 0 .. p - 1 : Elem(r, j) = Elem(s, j)
         /\ Elem(r, p) = n
         /\ \A j \in p + 1 .. Len(s) + 2 : Elem(r, j) = Elem(s, j - 1)
    <2>1. ASSUME NEW j \in 0 .. p - 1 PROVE Elem(r, j) = Elem(s, j)
      BY <1>2, <1>3, <1>4 DEF Elem
    <2>2. Elem(r, p) = n
      BY <1>2, <1>3, <1>4 DEF Elem
    <2>3. ASSUME NEW j \in p + 1 .. Len(s) + 2 PROVE Elem(r, j) = Elem(s, j - 1)
      <3>1. j \in Nat /\ j > p /\ j <= Len(s) + 2
        BY <1>2, <1>3
      <3>2. CASE j = Len(s) + 2
        BY <1>2, <1>4, <3>1, <3>2 DEF Elem
      <3>3. CASE j # Len(s) + 2
        <4>1. j \in 1 .. Len(s) + 1 /\ j - 1 \in 1 .. Len(s)
          BY <1>2, <1>3, <3>1, <3>3
        <4>2. r[j] = s[j - 1]
          BY <1>3, <1>4, <3>1, <4>1
        <4> QED BY <1>4, <4>1, <4>2 DEF Elem
      <3> QED BY <3>2, <3>3
    <2> QED BY <2>1, <2>2, <2>3
  <1>13. ASSUME NEW i \in 0 .. Len(s) + 1
         PROVE  rl[Elem(r, i)] = Elem(r, i + 1) /\ ll[Elem(r, i + 1)] = Elem(r, i)
    <2>0. i \in Nat /\ i <= Len(s) + 1
      BY <1>2
    <2>1. CASE i + 1 < p
      <3>1. Elem(r, i) = Elem(s, i) /\ Elem(r, i + 1) = Elem(s, i + 1)
        BY <1>3, <1>12, <2>0, <2>1
      <3>2. i \in 0 .. Len(s) /\ i + 1 \in 1 .. Len(s) + 1 /\ i # p - 1 /\ i + 1 # p /\ p - 1 \in 0 .. Len(s)
        BY <1>2, <1>3, <2>0, <2>1
      <3>3. Elem(s, i) # prev /\ Elem(s, i + 1) # next
        BY <1>2, <1>3, <3>2 DEF prev, next
      <3>4. Elem(s, i) \in Place \ {n, prev} /\ Elem(s, i + 1) \in Place \ {n, next}
        BY <1>2, <2>0, <3>3
      <3> QED BY <1>1, <1>7, <1>8, <3>1, <3>2, <3>4
    <2>2. CASE i + 1 = p
      <3>1. i = p - 1
        BY <2>0, <2>2
      <3>2. Elem(r, i) = prev /\ Elem(r, i + 1) = n
        BY <1>3, <1>12, <2>0, <2>2, <3>1 DEF prev
      <3> QED BY <1>7, <1>8, <3>2
    <2>3. CASE i = p
      <3>1. Elem(r, i) = n /\ i + 1 \in p + 1 .. Len(s) + 2 /\ (i + 1) - 1 = p
        BY <1>2, <1>3, <1>12, <2>0, <2>3
      <3>2. Elem(r, i + 1) = next
        BY <1>12, <3>1 DEF next
      <3> QED BY <1>7, <1>8, <3>1, <3>2
    <2>4. CASE i > p
      <3>1. /\ i \in p + 1 .. Len(s) + 2 /\ i + 1 \in p + 1 .. Len(s) + 2 /\ (i + 1) - 1 = i
            /\ i - 1 \in 0 .. Len(s) /\ (i - 1) + 1 = i /\ i \in 1 .. Len(s) + 1
            /\ p - 1 \in 0 .. Len(s) /\ i - 1 # p - 1 /\ i # p
        BY <1>2, <1>3, <2>0, <2>4
      <3>2. Elem(r, i) = Elem(s, i - 1) /\ Elem(r, i + 1) = Elem(s, i)
        BY <1>12, <3>1
      <3>3. Elem(s, i - 1) # prev /\ Elem(s, i) # next
        BY <1>2, <1>3, <3>1 DEF prev, next
      <3>4. Elem(s, i - 1) \in Place \ {n, prev} /\ Elem(s, i) \in Place \ {n, next}
        BY <1>2, <2>0, <3>1, <3>3
      <3>5. t.link[Right][Elem(s, i - 1)] = Elem(s, i) /\ t.link[Left][Elem(s, i)] = Elem(s, i - 1)
        BY <1>1, <3>1
      <3> QED BY <1>7, <1>8, <3>2, <3>4, <3>5
    <2> QED BY <1>3, <2>0, <2>1, <2>2, <2>3, <2>4
  <1>14. \A i, j \in 1 .. Len(r) : r[i] = r[j] => i = j
    <2> SUFFICES ASSUME NEW i \in 1 .. Len(r), NEW j \in 1 .. Len(r), r[i] = r[j] PROVE i = j
      OBVIOUS
    <2> DEFINE o(x) == IF x < p THEN x ELSE x - 1
    <2>1. \A x \in 1 .. Len(s) + 1 : x # p => r[x] = s[o(x)] /\ o(x) \in 1 .. Len(s) /\ s[o(x)] # n
      <3> SUFFICES ASSUME NEW x \in 1 .. Len(s) + 1, x # p
                   PROVE  r[x] = s[o(x)] /\ o(x) \in 1 .. Len(s) /\ s[o(x)] # n
        OBVIOUS
      <3>1. o(x) \in 1 .. Len(s)
        BY <1>2, <1>3
      <3>2. r[x] = s[o(x)]
        BY <1>3, <1>4
      <3> QED BY <3>1, <3>2 DEF Fresh
    <2>2. r[p] = n
      BY <1>3, <1>4
    <2>3. i \in 1 .. Len(s) + 1 /\ j \in 1 .. Len(s) + 1
      BY <1>4
    <2>4. i # p /\ j # p => o(i) = o(j)
      <3> HIDE DEF o
      <3>1. ASSUME i # p, j # p PROVE o(i) = o(j)
        <4>1. r[i] = s[o(i)] /\ o(i) \in 1 .. Len(s)
          BY <2>1, <2>3, <3>1
        <4>2. r[j] = s[o(j)] /\ o(j) \in 1 .. Len(s)
          BY <2>1, <2>3, <3>1
        <4> QED BY <1>1, <4>1, <4>2
      <3> QED BY <3>1
    <2>5. i = p <=> j = p
      <3> HIDE DEF o
      <3> QED BY <2>1, <2>2, <2>3
    <2> QED BY <1>3, <2>3, <2>4, <2>5
  <1>15. ASSUME NEW m \in Node, Fresh(r, m), NEW d \in Side PROVE u.link[d][m] = NULL
    <2>1. m # n
      BY <1>3, <1>4, <1>15 DEF Fresh
    <2>2. Fresh(s, m)
      <3> SUFFICES ASSUME NEW i \in 1 .. Len(s), s[i] = m PROVE FALSE
        BY DEF Fresh
      <3>1. CASE i < p
        BY <1>2, <1>3, <1>4, <1>15, <3>1 DEF Fresh
      <3>2. CASE i >= p
        <4>1. i + 1 \in 1 .. Len(s) + 1 /\ (i + 1) - 1 = i /\ ~(i + 1 < p) /\ i + 1 # p
          BY <1>2, <1>3, <3>2
        <4>2. r[i + 1] = m
          BY <1>4, <4>1
        <4> QED BY <1>4, <1>15, <4>1, <4>2 DEF Fresh
      <3> QED BY <1>3, <3>1, <3>2
    <2>3. m # prev /\ m # next /\ m \in Place
      <3>1. \A i \in Int : Elem(s, i) # m
        BY <1>1, <2>2, ElemFacts
      <3> QED BY <1>3, <3>1 DEF prev, next, Place
    <2>4. t.link[Left][m] = NULL /\ t.link[Right][m] = NULL
      BY <1>1, <2>2, Sides
    <2>5. u.link[Left][m] = NULL /\ u.link[Right][m] = NULL
      BY <1>7, <1>8, <1>11, <2>1, <2>3, <2>4
    <2> QED BY <2>5, Sides
  <1>16. Chained(u, r)
    BY <1>4, <1>11, <1>13, <1>14, <1>15 DEF Chained
  <1> QED BY <1>9, <1>10, <1>16 DEF u, r, prev, next

IsUnlinked(u, t, s, p) ==
    /\ u \in Tree /\ Chained(u, RemoveAt(s, p))
    /\ u.root = t.root /\ u.parent = t.parent /\ u.child = t.child
    /\ u.balance = t.balance /\ u.follower = t.follower /\ u.count = t.count

(* Unlinking a node joins its neighbours, and changes nothing else.         *)
LEMMA RemoveChained ==
    ASSUME NEW t \in Tree, NEW s, Chained(t, s), NEW p \in 1 .. Len(s)
    PROVE  IsUnlinked(ListRemove(t, s[p]), t, s, p)
  <1> DEFINE n    == s[p]
             prev == Elem(s, p - 1)
             next == Elem(s, p + 1)
             u    == ListRemove(t, n)
             r    == RemoveAt(s, p)
             rl   == [[t.link[Right] EXCEPT ![prev] = next] EXCEPT ![n] = NULL]
             ll   == [[t.link[Left] EXCEPT ![next] = prev] EXCEPT ![n] = NULL]
             k    == [[t.link EXCEPT ![Right] = rl] EXCEPT ![Left] = ll]
  <1>1. /\ s \in Seq(Node) /\ \A i, j \in 1 .. Len(s) : s[i] = s[j] => i = j
        /\ \A i \in 0 .. Len(s) : /\ t.link[Right][Elem(s, i)] = Elem(s, i + 1)
                                  /\ t.link[Left][Elem(s, i + 1)] = Elem(s, i)
        /\ \A m \in Node : Fresh(s, m) => \A d \in Side : t.link[d][m] = NULL
    BY DEF Chained
  <1>2. /\ \A i \in Int : Elem(s, i) \in Place /\ Elem(s, i) # NULL
        /\ \A i \in 1 .. Len(s) : Elem(s, i) = s[i] /\ s[i] \in Node /\ s[i] # HEAD
        /\ Elem(s, 0) = HEAD /\ Elem(s, Len(s) + 1) = HEAD
        /\ \A i, j \in 0 .. Len(s) : Elem(s, i) = Elem(s, j) => i = j
        /\ \A i, j \in 1 .. Len(s) + 1 : Elem(s, i) = Elem(s, j) => i = j
        /\ Len(s) \in Nat /\ HEAD \in Place /\ HEAD # NULL
    BY <1>1, ElemFacts
  <1>3. p \in Nat /\ 1 <= p /\ p <= Len(s) /\ p - 1 \in 0 .. Len(s) /\ p \in 0 .. Len(s) /\ (p - 1) + 1 = p
    BY <1>2
  <1>4. /\ r \in Seq(Node) /\ Len(r) = Len(s) - 1
        /\ \A j \in 1 .. Len(s) - 1 : r[j] = IF j < p THEN s[j] ELSE s[j + 1]
    BY <1>1, RemoveElements
  <1>5. /\ n \in Node /\ n = Elem(s, p) /\ n # HEAD /\ n \in Place
        /\ t.link[Right][n] = next /\ t.link[Left][n] = prev
    BY <1>1, <1>2, <1>3 DEF Place
  <1>6. prev \in Place /\ next \in Place /\ prev # n /\ next # n
    <2>1. p - 1 \in 0 .. Len(s) /\ p \in 0 .. Len(s) /\ p - 1 # p
      BY <1>3
    <2>2. p + 1 \in 1 .. Len(s) + 1 /\ p \in 1 .. Len(s) + 1 /\ p + 1 # p
      BY <1>2, <1>3
    <2> QED BY <1>2, <1>5, <2>1, <2>2
  <1> HIDE DEF r, prev, next, n
  <1>7. t.link \in [Side -> [Place -> Place \cup {NULL}]] /\ Left \in Side /\ Right \in Side /\ Left # Right
    BY Sides DEF Tree
  <1>8. /\ rl \in [Place -> Place \cup {NULL}] /\ rl[prev] = next /\ rl[n] = NULL
        /\ \A x \in Place \ {n, prev} : rl[x] = t.link[Right][x]
    BY <1>5, <1>6, <1>7
  <1>9. /\ ll \in [Place -> Place \cup {NULL}] /\ ll[next] = prev /\ ll[n] = NULL
        /\ \A x \in Place \ {n, next} : ll[x] = t.link[Left][x]
    BY <1>5, <1>6, <1>7
  <1>10. u = [t EXCEPT !.link = k]
    <2>1. u = [t EXCEPT !.link[Right] = [@ EXCEPT ![prev] = next, ![n] = NULL],
                        !.link[Left]  = [@ EXCEPT ![next] = prev, ![n] = NULL]]
      BY <1>5 DEF ListRemove, u
    <2> DEFINE m == [t.link EXCEPT ![Right] = rl]
               v == [t EXCEPT !.link = m]
    <2>2. u = [v EXCEPT !.link = [v.link EXCEPT ![Left] = ll]]
      BY <2>1
    <2> HIDE DEF u, rl, ll, m
    <2>3. v.link = m
      BY DEF Tree
    <2>4. [v EXCEPT !.link = [m EXCEPT ![Left] = ll]] = [t EXCEPT !.link = [m EXCEPT ![Left] = ll]]
      BY DEF Tree
    <2> QED BY <2>2, <2>3, <2>4 DEF m
  <1>11. k \in [Side -> [Place -> Place \cup {NULL}]] /\ k[Right] = rl /\ k[Left] = ll
    <2> HIDE DEF rl, ll
    <2> QED BY <1>7, <1>8, <1>9
  <1> HIDE DEF rl, ll, k, u
  <1>12. u.link[Right] = rl /\ u.link[Left] = ll
    BY <1>10, <1>11 DEF Tree
  <1>13. /\ \A j \in 0 .. p - 1 : Elem(r, j) = Elem(s, j)
         /\ \A j \in p .. Len(s) : Elem(r, j) = Elem(s, j + 1)
    <2>1. ASSUME NEW j \in 0 .. p - 1 PROVE Elem(r, j) = Elem(s, j)
      <3>1. j \in Nat /\ j < p /\ (j # 0 => j \in 1 .. Len(s) - 1 /\ j \in 1 .. Len(s))
        BY <1>2, <1>3
      <3> QED BY <1>2, <1>4, <3>1 DEF Elem
    <2>2. ASSUME NEW j \in p .. Len(s) PROVE Elem(r, j) = Elem(s, j + 1)
      <3>1. j \in Nat /\ j >= p /\ j <= Len(s)
        BY <1>2, <1>3
      <3>2. CASE j = Len(s)
        BY <1>2, <1>4, <3>1, <3>2 DEF Elem
      <3>3. CASE j # Len(s)
        <4>1. j \in 1 .. Len(s) - 1 /\ j + 1 \in 1 .. Len(s) /\ ~(j < p)
          BY <1>2, <1>3, <3>1, <3>3
        <4>2. r[j] = s[j + 1]
          BY <1>4, <4>1
        <4> QED BY <1>4, <4>1, <4>2 DEF Elem
      <3> QED BY <3>2, <3>3
    <2> QED BY <2>1, <2>2
  <1>14. ASSUME NEW i \in 0 .. Len(s) - 1
         PROVE  rl[Elem(r, i)] = Elem(r, i + 1) /\ ll[Elem(r, i + 1)] = Elem(r, i)
    <2>0. i \in Nat /\ i <= Len(s) - 1 /\ i \in 0 .. Len(s) /\ i + 1 \in 0 .. Len(s)
      BY <1>2
    <2>1. CASE i + 1 < p
      <3>1. Elem(r, i) = Elem(s, i) /\ Elem(r, i + 1) = Elem(s, i + 1)
        BY <1>3, <1>13, <2>0, <2>1
      <3>2. Elem(s, i) # prev /\ Elem(s, i) # n
        <4>1. i # p - 1 /\ i # p
          BY <1>3, <2>0, <2>1
        <4> QED BY <1>2, <1>3, <1>5, <2>0, <4>1 DEF prev
      <3>3. Elem(s, i + 1) # next /\ Elem(s, i + 1) # n
        <4>1. i + 1 \in 1 .. Len(s) + 1 /\ p \in 1 .. Len(s) + 1 /\ p + 1 \in 1 .. Len(s) + 1
              /\ i + 1 # p /\ i + 1 # p + 1
          BY <1>2, <1>3, <2>0, <2>1
        <4> QED BY <1>2, <1>5, <4>1 DEF next
      <3>4. Elem(s, i) \in Place \ {n, prev} /\ Elem(s, i + 1) \in Place \ {n, next}
        BY <1>2, <2>0, <3>2, <3>3
      <3> QED BY <1>1, <1>8, <1>9, <2>0, <3>1, <3>4
    <2>2. CASE i + 1 = p
      <3>1. i = p - 1 /\ i + 1 \in p .. Len(s) /\ i \in 0 .. p - 1
        BY <1>3, <2>0, <2>2
      <3>2. Elem(r, i) = prev /\ Elem(r, i + 1) = next
        BY <1>13, <2>2, <3>1 DEF prev, next
      <3> QED BY <1>8, <1>9, <3>2
    <2>3. CASE i + 1 > p
      <3>1. /\ i \in p .. Len(s) /\ i + 1 \in p .. Len(s) /\ (i + 1) + 1 \in 1 .. Len(s) + 1
            /\ i + 1 # p - 1 /\ i + 1 # p /\ (i + 1) + 1 # p + 1 /\ (i + 1) + 1 # p
            /\ p \in 1 .. Len(s) + 1 /\ p + 1 \in 1 .. Len(s) + 1
        BY <1>2, <1>3, <2>0, <2>3
      <3>2. Elem(r, i) = Elem(s, i + 1) /\ Elem(r, i + 1) = Elem(s, (i + 1) + 1)
        BY <1>13, <3>1
      <3>3. Elem(s, i + 1) # prev /\ Elem(s, i + 1) # n
        BY <1>2, <1>3, <1>5, <2>0, <3>1 DEF prev
      <3>4. Elem(s, (i + 1) + 1) # next /\ Elem(s, (i + 1) + 1) # n
        BY <1>2, <1>5, <3>1 DEF next
      <3>5. Elem(s, i + 1) \in Place \ {n, prev} /\ Elem(s, (i + 1) + 1) \in Place \ {n, next}
        BY <1>2, <2>0, <3>3, <3>4
      <3>6. /\ t.link[Right][Elem(s, i + 1)] = Elem(s, (i + 1) + 1)
            /\ t.link[Left][Elem(s, (i + 1) + 1)] = Elem(s, i + 1)
        BY <1>1, <2>0
      <3> QED BY <1>8, <1>9, <3>2, <3>5, <3>6
    <2> QED BY <1>3, <2>0, <2>1, <2>2, <2>3
  <1>15. /\ \A i \in 1 .. Len(s) - 1 : r[i] \in {s[j] : j \in 1 .. Len(s)} \ {n}
         /\ \A j \in 1 .. Len(s) : j # p => \E i \in 1 .. Len(s) - 1 : r[i] = s[j]
         /\ \A i, j \in 1 .. Len(r) : r[i] = r[j] => i = j
    <2> DEFINE o(x) == IF x < p THEN x ELSE x + 1
    <2>1. \A x \in 1 .. Len(s) - 1 : r[x] = s[o(x)] /\ o(x) \in 1 .. Len(s) /\ o(x) # p
      <3> TAKE x \in 1 .. Len(s) - 1
      <3>1. o(x) \in 1 .. Len(s) /\ o(x) # p
        BY <1>2, <1>3
      <3> QED BY <1>3, <1>4, <3>1
    <2>2. ASSUME NEW j \in 1 .. Len(s), j # p PROVE \E i \in 1 .. Len(s) - 1 : r[i] = s[j]
      <3> DEFINE x == IF j < p THEN j ELSE j - 1
      <3>1. x \in 1 .. Len(s) - 1 /\ o(x) = j
        BY <1>2, <1>3, <2>2
      <3> HIDE DEF o, x
      <3> QED BY <2>1, <3>1
    <2>3. \A x, y \in Int : o(x) = o(y) => x = y
      BY <1>3
    <2>4. n = s[p]
      BY DEF n
    <2> HIDE DEF o
    <2>5. ASSUME NEW i \in 1 .. Len(s) - 1 PROVE r[i] \in {s[j] : j \in 1 .. Len(s)} \ {n}
      <3>1. r[i] = s[o(i)] /\ o(i) \in 1 .. Len(s) /\ o(i) # p
        BY <2>1
      <3> QED BY <1>1, <2>4, <3>1
    <2>6. ASSUME NEW i \in 1 .. Len(r), NEW j \in 1 .. Len(r), r[i] = r[j] PROVE i = j
      <3>0. i \in 1 .. Len(s) - 1 /\ j \in 1 .. Len(s) - 1 /\ i \in Int /\ j \in Int
        BY <1>4
      <3>1. r[i] = s[o(i)] /\ o(i) \in 1 .. Len(s)
        BY <2>1, <3>0
      <3>2. r[j] = s[o(j)] /\ o(j) \in 1 .. Len(s)
        BY <2>1, <3>0
      <3>3. o(i) = o(j)
        BY <1>1, <2>6, <3>1, <3>2
      <3> QED BY <2>3, <3>0, <3>3
    <2> QED BY <2>2, <2>5, <2>6
  <1>16. ASSUME NEW m \in Node, Fresh(r, m), NEW d \in Side PROVE u.link[d][m] = NULL
    <2>1. CASE m = n
      BY <1>8, <1>9, <1>12, <2>1, Sides
    <2>2. CASE m # n
      <3>1. Fresh(s, m)
        <4> SUFFICES ASSUME NEW j \in 1 .. Len(s), s[j] = m PROVE FALSE
          BY DEF Fresh
        <4>1. j # p
          BY <2>2 DEF n
        <4>2. PICK i \in 1 .. Len(s) - 1 : r[i] = m
          BY <1>15, <4>1
        <4> QED BY <1>4, <1>16, <4>2 DEF Fresh
      <3>2. m # prev /\ m # next /\ m \in Place
        <4>1. \A i \in Int : Elem(s, i) # m
          BY <1>1, <3>1, ElemFacts
        <4> QED BY <1>3, <4>1 DEF prev, next, Place
      <3>3. t.link[Left][m] = NULL /\ t.link[Right][m] = NULL
        BY <1>1, <3>1, Sides
      <3>4. u.link[Left][m] = NULL /\ u.link[Right][m] = NULL
        BY <1>8, <1>9, <1>12, <2>2, <3>2, <3>3
      <3> QED BY <3>4, Sides
    <2> QED BY <2>1, <2>2
  <1>17. \A i \in 0 .. Len(r) : /\ u.link[Right][Elem(r, i)] = Elem(r, i + 1)
                                /\ u.link[Left][Elem(r, i + 1)] = Elem(r, i)
    BY <1>4, <1>12, <1>14
  <1>18. Chained(u, r)
    BY <1>4, <1>15, <1>16, <1>17 DEF Chained
  <1>19. IsUnlinked(u, t, s, p)
    BY <1>10, <1>11, <1>18 DEF IsUnlinked, Tree, r
  <1> QED BY <1>19 DEF u, n

(* Following the list from its head visits the elements in order.           *)
LEMMA ElementsOf ==
    ASSUME NEW t \in Tree, NEW s, Chained(t, s), t.count = Len(s)
    PROVE  Elements(t) = s
  <1> DEFINE r     == t.link[Right]
             In(x) == \E j \in 0 .. Len(s) : x = Elem(s, j)
             Q     == [i \in Nat |-> {x \in Place : In(x) /\ (i <= Len(s) => x = Elem(s, i))}]
             F(a)  == [i \in Nat |-> IF i = 0 THEN HEAD ELSE t.link[Right][a[i - 1]]]
             nth   == CHOOSE a : a = F(a)
  <1>1. Elements(t) = [i \in 1 .. t.count |-> nth[i]]
    BY Zenon DEF Elements
  <1>2. /\ s \in Seq(Node) /\ Len(s) \in Nat /\ HEAD \in Place
        /\ Elem(s, 0) = HEAD /\ Elem(s, Len(s) + 1) = HEAD
        /\ \A i \in Int : Elem(s, i) \in Place
        /\ \A i \in 1 .. Len(s) : Elem(s, i) = s[i]
    BY ElemFacts DEF Chained
  <1>3. \A i \in 0 .. Len(s) : r[Elem(s, i)] = Elem(s, i + 1)
    BY DEF Chained
  <1> HIDE DEF r
  <1>4. ASSUME NEW i \in Nat, NEW x \in Q[i] PROVE r[x] \in Q[i + 1]
    <2>1. PICK j \in 0 .. Len(s) : x = Elem(s, j)
      OBVIOUS
    <2>2. r[x] = Elem(s, j + 1) /\ j + 1 \in Int
      BY <1>2, <1>3, <2>1
    <2>3. In(r[x]) /\ r[x] \in Place
      <3>1. CASE j = Len(s)
        <4>1. r[x] = Elem(s, 0) /\ 0 \in 0 .. Len(s)
          BY <1>2, <2>2, <3>1
        <4> QED BY <1>2, <4>1
      <3>2. CASE j # Len(s)
        <4>1. j + 1 \in 0 .. Len(s)
          BY <1>2, <3>2
        <4> QED BY <1>2, <2>2, <4>1
      <3> QED BY <3>1, <3>2
    <2>4. ASSUME i + 1 <= Len(s) PROVE r[x] = Elem(s, i + 1)
      <3>1. i \in 0 .. Len(s) /\ x = Elem(s, i)
        BY <1>2, <2>4
      <3> QED BY <1>3, <3>1
    <2> HIDE DEF In
    <2> QED BY <2>3, <2>4
  <1>5. Keeps(Place, r, Q, HEAD)
    <2>1. HEAD \in Q[0]
      <3>1. In(HEAD) /\ (0 <= Len(s) => HEAD = Elem(s, 0))
        BY <1>2
      <3> HIDE DEF In
      <3> QED BY <1>2, <3>1
    <2>2. Q \in [Nat -> SUBSET Place]
      <3> HIDE DEF In
      <3> QED OBVIOUS
    <2> HIDE DEF Q
    <2> QED BY <1>4, <2>1, <2>2 DEF Keeps
  <1>6. \E f : f = F(f)
    <2> HIDE DEF Q
    <2>1. PICK f : Iterates(f, r, Q, HEAD)
      BY <1>5, Iteration
    <2>2. \A i \in Nat : f[i] = IF i = 0 THEN HEAD ELSE t.link[Right][f[i - 1]]
      BY <2>1 DEF Iterates, r
    <2> QED BY <2>1, <2>2 DEF Iterates
  <1>7. nth = F(nth)
    BY <1>6, Zenon
  <1> HIDE DEF nth
  <1>8. \A i \in Nat : nth[i] \in Q[i]
    <2>1. nth[0] = HEAD /\ \A i \in Nat : nth[i] \in Place => nth[i + 1] = r[nth[i]]
      <3>1. \A i \in Nat : i + 1 \in Nat /\ i + 1 # 0 /\ (i + 1) - 1 = i
        OBVIOUS
      <3> QED BY <1>7, <3>1 DEF r
    <2> HIDE DEF Q
    <2> QED BY <1>5, <2>1, Follows
  <1>9. \A i \in 1 .. Len(s) : nth[i] = s[i]
    <2> TAKE i \in 1 .. Len(s)
    <2>1. i \in Nat /\ i <= Len(s)
      BY <1>2
    <2>2. nth[i] = Elem(s, i)
      BY <1>8, <2>1
    <2> QED BY <1>2, <2>2
  <1>10. s = [i \in 1 .. Len(s) |-> s[i]]
    BY <1>2
  <1> QED BY <1>1, <1>9, <1>10

-----------------------------------------------------------------------------
(* The order of the list                                                    *)

(* Keys never decrease; exactly the nodes behind one of their key follow.   *)
Sorted(t, s) ==
    /\ \A i, j \in 1 .. Len(s) : i <= j => Comp(KeyOf[s[i]], KeyOf[s[j]]) <= 0
    /\ \A i \in 1 .. Len(s) :
         t.follower[s[i]] <=> i > 1 /\ Comp(KeyOf[s[i - 1]], KeyOf[s[i]]) = 0
    /\ \A i \in 1 .. Len(s) : t.follower[s[i]] => AllowDups

Stem(t, s, i) == i \in 1 .. Len(s) /\ ~t.follower[s[i]]

(* The nodes that are not followers make up the tree.                       *)
Stems(t, s) == {n \in Node : \E i \in 1 .. Len(s) : n = s[i] /\ Stem(t, s, i)}

(* The nodes in front of one that does not follow have smaller keys.        *)
LEMMA StemAfter ==
    ASSUME NEW t, NEW s \in Seq(Node), Sorted(t, s), NEW i \in 1 .. Len(s), NEW j \in 1 .. Len(s),
           i < j, Stem(t, s, j)
    PROVE  Lies(Left, s[i], s[j]) /\ Lies(Right, s[j], s[i]) /\ Comp(KeyOf[s[i]], KeyOf[s[j]]) < 0
  <1>1. i \in Nat /\ j \in Nat /\ j - 1 \in 1 .. Len(s) /\ i <= j - 1 /\ j > 1 /\ j - 1 <= j
    OBVIOUS
  <1> DEFINE x == s[i]
             y == s[j - 1]
             z == s[j]
  <1>2. x \in Node /\ y \in Node /\ z \in Node
    BY <1>1
  <1>3. Comp(KeyOf[x], KeyOf[y]) <= 0 /\ Comp(KeyOf[y], KeyOf[z]) <= 0 /\ Comp(KeyOf[y], KeyOf[z]) # 0
    BY <1>1 DEF Sorted, Stem
  <1> HIDE DEF x, y, z
  <1>4. KeyOf[x] \in Key /\ KeyOf[y] \in Key /\ KeyOf[z] \in Key
    BY <1>2, NodeKeys
  <1>5. /\ Comp(KeyOf[x], KeyOf[y]) \in Int /\ Comp(KeyOf[y], KeyOf[z]) \in Int
        /\ Comp(KeyOf[x], KeyOf[z]) \in Int
    BY <1>4, CompAssumption
  <1>6. Beyond(Left, KeyOf[y], KeyOf[z])
    BY <1>3, <1>4, <1>5, KeySides
  <1>7. Beyond(Left, KeyOf[x], KeyOf[z])
    <2>1. CASE Comp(KeyOf[x], KeyOf[y]) = 0
      BY <1>4, <1>6, <2>1, KeyOrder, Sides
    <2>2. CASE Comp(KeyOf[x], KeyOf[y]) # 0
      <3>1. Beyond(Left, KeyOf[x], KeyOf[y])
        BY <1>3, <1>4, <1>5, <2>2, KeySides
      <3> QED BY <1>4, <1>6, <3>1, KeyOrder, Sides
    <2> QED BY <2>1, <2>2
  <1>8. Beyond(Right, KeyOf[z], KeyOf[x]) /\ Comp(KeyOf[x], KeyOf[z]) < 0
    BY <1>4, <1>7, KeySides, Sides
  <1> QED BY <1>7, <1>8 DEF Lies, x, z

(* Every element follows, or is, one of its key that does not follow.       *)
LEMMA StemOf ==
    ASSUME NEW t, NEW s \in Seq(Node), Sorted(t, s), NEW i \in 1 .. Len(s)
    PROVE  \E j \in 1 .. i : Stem(t, s, j) /\ Comp(KeyOf[s[j]], KeyOf[s[i]]) = 0
  <1> DEFINE S == {j \in Nat : j \in 1 .. i /\ Comp(KeyOf[s[j]], KeyOf[s[i]]) = 0}
  <1>1. i \in S
    BY NodeKeys, KeySides
  <1>2. PICK j \in S : \A k \in S : j <= k
    BY <1>1, SmallestExists
  <1>3. j \in 1 .. i /\ j \in 1 .. Len(s) /\ Comp(KeyOf[s[j]], KeyOf[s[i]]) = 0
    BY <1>2
  <1>4. ASSUME t.follower[s[j]] PROVE FALSE
    <2>1. j > 1 /\ Comp(KeyOf[s[j - 1]], KeyOf[s[j]]) = 0
      BY <1>3, <1>4 DEF Sorted
    <2>2. j \in Nat /\ j - 1 \in 1 .. i /\ j - 1 \in Nat /\ j - 1 \in 1 .. Len(s) /\ j - 1 < j
      BY <1>3, <2>1
    <2>3. s[j - 1] \in Node /\ s[j] \in Node /\ s[i] \in Node
      BY <1>3, <2>2
    <2>4. Comp(KeyOf[s[j - 1]], KeyOf[s[i]]) = 0
      BY <1>3, <2>1, <2>3, NodeKeys, KeyOrder, Sides
    <2>5. j - 1 \in S
      BY <2>2, <2>4
    <2> HIDE DEF S
    <2> QED BY <1>2, <2>2, <2>5
  <1> QED BY <1>3, <1>4 DEF Stem

(* The other nodes with the key of one that does not follow stand behind it.*)
LEMMA SameKey ==
    ASSUME NEW t, NEW s \in Seq(Node), Sorted(t, s), NEW i, Stem(t, s, i), NEW j \in 1 .. Len(s),
           Comp(KeyOf[s[j]], KeyOf[s[i]]) = 0, j # i
    PROVE  j > i /\ t.follower[s[j]]
  <1>1. i \in 1 .. Len(s)
    BY DEF Stem
  <1>2. ~(j < i)
    <2> SUFFICES ASSUME j < i PROVE FALSE
      OBVIOUS
    <2> QED BY <1>1, StemAfter
  <1>3. j > i
    BY <1>1, <1>2
  <1>4. ~Stem(t, s, j)
    <2> SUFFICES ASSUME Stem(t, s, j) PROVE FALSE
      OBVIOUS
    <2>1. Comp(KeyOf[s[i]], KeyOf[s[j]]) < 0
      BY <1>1, <1>3, StemAfter
    <2>2. s[i] \in Node /\ s[j] \in Node
      BY <1>1
    <2> QED BY <2>1, <2>2, NodeKeys, KeySides
  <1> QED BY <1>3, <1>4 DEF Stem

(* Where a new element belongs the list stays sorted.                       *)
LEMMA SortedInsert ==
    ASSUME NEW t, NEW s \in Seq(Node), Sorted(t, s), NEW n \in Node, Fresh(s, n),
           NEW p \in 1 .. Len(s) + 1, NEW u,
           \A i \in 1 .. Len(s) : u.follower[s[i]] = t.follower[s[i]],
           \A i \in 1 .. p - 1 : Comp(KeyOf[s[i]], KeyOf[n]) <= 0,
           \A i \in p .. Len(s) : Comp(KeyOf[n], KeyOf[s[i]]) <= 0,
           u.follower[n] <=> p > 1 /\ Comp(KeyOf[s[p - 1]], KeyOf[n]) = 0,
           u.follower[n] => AllowDups,
           p <= Len(s) => (t.follower[s[p]] <=> Comp(KeyOf[n], KeyOf[s[p]]) = 0)
    PROVE  /\ Sorted(u, InsertAt(s, p, n))
           /\ Stems(u, InsertAt(s, p, n)) = IF u.follower[n] THEN Stems(t, s)
                                                             ELSE Stems(t, s) \cup {n}
  <1> DEFINE r == InsertAt(s, p, n)
             L == Len(s)
  <1>1. /\ Len(r) = L + 1 /\ L \in Nat /\ p \in Nat /\ 1 <= p /\ p <= L + 1
        /\ \A j \in 1 .. L + 1 : r[j] = IF j < p THEN s[j] ELSE IF j = p THEN n ELSE s[j - 1]
    BY InsertElements
  <1> HIDE DEF r, L
  <1>2. /\ \A j \in 1 .. p - 1 : j \in 1 .. L /\ j \in 1 .. L + 1 /\ r[j] = s[j]
        /\ p \in 1 .. L + 1 /\ r[p] = n
        /\ \A j \in p .. L : j \in 1 .. L /\ j + 1 \in 1 .. L + 1 /\ r[j + 1] = s[j]
        /\ \A j \in 1 .. L + 1 : j \in 1 .. p - 1 \/ j = p \/ j - 1 \in p .. L
    <2>1. \A j \in 1 .. p - 1 : j \in 1 .. L /\ j \in 1 .. L + 1 /\ r[j] = s[j]
      <3> TAKE j \in 1 .. p - 1
      <3>1. j \in 1 .. L /\ j \in 1 .. L + 1 /\ j < p
        BY <1>1
      <3> QED BY <1>1, <3>1
    <2>2. p \in 1 .. L + 1 /\ r[p] = n
      BY <1>1
    <2>3. \A j \in p .. L : j \in 1 .. L /\ j + 1 \in 1 .. L + 1 /\ r[j + 1] = s[j]
      <3> TAKE j \in p .. L
      <3>1. j \in Nat /\ j + 1 \in 1 .. L + 1 /\ ~(j + 1 < p) /\ j + 1 # p /\ (j + 1) - 1 = j /\ j \in 1 .. L
        BY <1>1
      <3> QED BY <1>1, <3>1
    <2>4. \A j \in 1 .. L + 1 : j \in 1 .. p - 1 \/ j = p \/ j - 1 \in p .. L
      BY <1>1
    <2> QED BY <2>1, <2>2, <2>3, <2>4
  <1>3. /\ \A i, j \in 1 .. L : i <= j => Comp(KeyOf[s[i]], KeyOf[s[j]]) <= 0
        /\ \A i \in 1 .. L : t.follower[s[i]] <=> i > 1 /\ Comp(KeyOf[s[i - 1]], KeyOf[s[i]]) = 0
        /\ \A i \in 1 .. L : t.follower[s[i]] => AllowDups
    BY DEF Sorted, L
  <1>4. ASSUME NEW i \in 1 .. L + 1, NEW j \in 1 .. L + 1, i <= j
        PROVE  Comp(KeyOf[r[i]], KeyOf[r[j]]) <= 0
    <2>1. CASE i = p /\ j = p
      <3>1. Comp(KeyOf[n], KeyOf[n]) = 0
        BY NodeKeys, KeySides
      <3> QED BY <1>2, <2>1, <3>1
    <2>2. CASE i \in 1 .. p - 1 /\ j = p
      BY <1>2, <2>2
    <2>3. CASE i = p /\ j - 1 \in p .. L
      <3>1. r[j] = s[j - 1]
        <4>1. r[(j - 1) + 1] = s[j - 1]
          BY <1>2, <2>3
        <4> QED BY <4>1
      <3> QED BY <1>2, <2>3, <3>1 DEF L
    <2>4. CASE i \in 1 .. p - 1 /\ j \in 1 .. p - 1
      <3>1. i \in 1 .. L /\ j \in 1 .. L /\ r[i] = s[i] /\ r[j] = s[j]
        BY <1>2, <2>4
      <3> QED BY <1>3, <1>4, <3>1
    <2>5. CASE i \in 1 .. p - 1 /\ j - 1 \in p .. L
      <3>1. r[(j - 1) + 1] = s[j - 1] /\ (j - 1) + 1 = j /\ i <= j - 1
        BY <1>1, <1>2, <2>5
      <3>2. i \in 1 .. L /\ j - 1 \in 1 .. L /\ r[i] = s[i] /\ r[j] = s[j - 1]
        BY <1>2, <2>5, <3>1
      <3> QED BY <1>3, <3>1, <3>2
    <2>6. CASE i - 1 \in p .. L /\ j - 1 \in p .. L
      <3>1. /\ r[(j - 1) + 1] = s[j - 1] /\ (j - 1) + 1 = j /\ i - 1 <= j - 1
            /\ r[(i - 1) + 1] = s[i - 1] /\ (i - 1) + 1 = i
        BY <1>2, <1>4, <2>6
      <3>2. i - 1 \in 1 .. L /\ j - 1 \in 1 .. L /\ r[i] = s[i - 1] /\ r[j] = s[j - 1]
        BY <1>2, <2>6, <3>1
      <3> QED BY <1>3, <3>1, <3>2
    <2>7. ~(j < i)
      BY <1>4
    <2>8. CASE i = p /\ j \in 1 .. p - 1
      BY <1>1, <2>7, <2>8
    <2>9. CASE i - 1 \in p .. L /\ (j \in 1 .. p - 1 \/ j = p)
      BY <1>1, <2>7, <2>9
    <2> QED BY <1>2, <2>1, <2>2, <2>3, <2>4, <2>5, <2>6, <2>8, <2>9
  <1>5. ASSUME NEW j \in 1 .. L + 1
        PROVE  /\ u.follower[r[j]] <=> j > 1 /\ Comp(KeyOf[r[j - 1]], KeyOf[r[j]]) = 0
               /\ u.follower[r[j]] => AllowDups
    <2>1. CASE j \in 1 .. p - 1
      <3>1. j \in 1 .. L /\ r[j] = s[j] /\ (j > 1 => r[j - 1] = s[j - 1])
        <4>1. j > 1 => j - 1 \in 1 .. p - 1
          BY <1>1, <2>1
        <4> QED BY <1>2, <2>1, <4>1
      <3> QED BY <1>3, <3>1 DEF L
    <2>2. CASE j = p
      <3>1. p > 1 => r[p - 1] = s[p - 1]
        <4>1. p > 1 => p - 1 \in 1 .. p - 1
          BY <1>1
        <4> QED BY <1>2, <4>1
      <3> QED BY <1>2, <2>2, <3>1
    <2>3. CASE j - 1 \in p .. L
      <3>1. r[(j - 1) + 1] = s[j - 1] /\ (j - 1) + 1 = j /\ j - 1 \in 1 .. L /\ j > 1
        BY <1>1, <1>2, <2>3
      <3>2. CASE j - 1 = p
        <4>1. r[j] = s[p] /\ r[j - 1] = n /\ p <= L /\ p \in 1 .. L
          BY <1>1, <1>2, <2>3, <3>1, <3>2
        <4> QED BY <1>3, <3>1, <4>1 DEF L
      <3>3. CASE j - 1 # p
        <4>1. j - 2 \in p .. L /\ (j - 2) + 1 = j - 1 /\ (j - 1) - 1 = j - 2 /\ j - 1 > 1
          BY <1>1, <2>3, <3>3
        <4>2. r[j] = s[j - 1] /\ r[j - 1] = s[j - 2]
          BY <1>2, <3>1, <4>1
        <4>3. t.follower[s[j - 1]] <=> Comp(KeyOf[s[j - 2]], KeyOf[s[j - 1]]) = 0
          BY <1>3, <3>1, <4>1
        <4> QED BY <1>3, <3>1, <4>2, <4>3 DEF L
      <3> QED BY <3>2, <3>3
    <2> QED BY <1>2, <2>1, <2>2, <2>3
  <1>6. Sorted(u, r)
    BY <1>1, <1>4, <1>5 DEF Sorted
  <1>7. Stems(u, r) = IF u.follower[n] THEN Stems(t, s) ELSE Stems(t, s) \cup {n}
    <2>1. ASSUME NEW m \in Stems(u, r) PROVE m \in Stems(t, s) \/ (m = n /\ ~u.follower[n])
      <3>1. PICK j \in 1 .. L + 1 : m = r[j] /\ ~u.follower[r[j]]
        BY <1>1 DEF Stems, Stem
      <3>2. CASE j \in 1 .. p - 1
        BY <1>2, <3>1, <3>2 DEF Stems, Stem, L
      <3>3. CASE j = p
        BY <1>2, <3>1, <3>3
      <3>4. CASE j - 1 \in p .. L
        <4>1. r[(j - 1) + 1] = s[j - 1] /\ (j - 1) + 1 = j /\ j - 1 \in 1 .. L
          BY <1>2, <3>4
        <4> QED BY <3>1, <4>1 DEF Stems, Stem, L
      <3> QED BY <1>2, <3>2, <3>3, <3>4
    <2>2. ASSUME NEW m \in Stems(t, s) PROVE m \in Stems(u, r)
      <3>1. PICK j \in 1 .. L : m = s[j] /\ ~t.follower[s[j]]
        BY DEF Stems, Stem, L
      <3>2. \E k \in 1 .. L + 1 : r[k] = s[j]
        <4>1. j \in 1 .. p - 1 \/ j \in p .. L
          BY <1>1
        <4> QED BY <1>2, <4>1
      <3>3. m \in Node /\ ~u.follower[m]
        BY <3>1 DEF L
      <3> QED BY <1>1, <3>1, <3>2, <3>3 DEF Stems, Stem
    <2>3. ~u.follower[n] => n \in Stems(u, r)
      BY <1>1, <1>2 DEF Stems, Stem
    <2> QED BY <2>1, <2>2, <2>3
  <1> QED BY <1>6, <1>7 DEF r

(* A key between two equal ones is equal to both.                           *)
LEMMA Between ==
    ASSUME NEW i \in Key, NEW j \in Key, NEW k \in Key,
           Comp(i, j) <= 0, Comp(j, k) <= 0, Comp(i, k) = 0
    PROVE  Comp(i, j) = 0 /\ Comp(j, k) = 0
  <1>1. \A a, b \in {i, j, k} : Comp(a, b) \in Int /\ (Comp(a, b) < 0 <=> Comp(b, a) > 0)
    BY CompAssumption
  <1>2. \A a, b, c \in {i, j, k} : Comp(a, b) <= 0 /\ Comp(b, c) <= 0 => Comp(a, c) <= 0
    BY CompAssumption
  <1>3. Comp(k, i) <= 0
    BY <1>1
  <1>4. Comp(j, i) <= 0 /\ Comp(k, j) <= 0
    BY <1>2, <1>3
  <1> QED BY <1>1, <1>4

(* Without one element the list is sorted; the one behind it may have       *)
(* become the first of its key.                                             *)
LEMMA SortedRemove ==
    ASSUME NEW t, NEW s \in Seq(Node), Sorted(t, s), \A i, j \in 1 .. Len(s) : s[i] = s[j] => i = j,
           NEW p \in 1 .. Len(s), NEW u,
           \A i \in 1 .. Len(s) : i # p /\ i # p + 1 => u.follower[s[i]] = t.follower[s[i]],
           p + 1 \in 1 .. Len(s) =>
              (u.follower[s[p + 1]] <=> t.follower[s[p]] /\ t.follower[s[p + 1]])
    PROVE  /\ Sorted(u, RemoveAt(s, p))
           /\ Stems(u, RemoveAt(s, p)) =
                (Stems(t, s) \ {s[p]}) \cup
                (IF p + 1 \in 1 .. Len(s) /\ ~u.follower[s[p + 1]] THEN {s[p + 1]} ELSE {})
  <1> DEFINE r == RemoveAt(s, p)
             L == Len(s)
  <1>1. /\ Len(r) = L - 1 /\ L \in Nat /\ p \in Nat /\ 1 <= p /\ p <= L
        /\ \A j \in 1 .. L - 1 : r[j] = IF j < p THEN s[j] ELSE s[j + 1]
    BY RemoveElements
  <1> HIDE DEF r, L
  <1>2. /\ \A j \in 1 .. p - 1 : j \in 1 .. L /\ j \in 1 .. L - 1 /\ r[j] = s[j]
        /\ \A j \in p .. L - 1 : j + 1 \in 1 .. L /\ j \in 1 .. L - 1 /\ r[j] = s[j + 1]
        /\ \A j \in 1 .. L - 1 : j \in 1 .. p - 1 \/ j \in p .. L - 1
    <2>1. ASSUME NEW j \in 1 .. p - 1 PROVE j \in 1 .. L /\ j \in 1 .. L - 1 /\ r[j] = s[j]
      <3>1. j \in 1 .. L /\ j \in 1 .. L - 1 /\ j < p
        BY <1>1
      <3> QED BY <1>1, <3>1
    <2>2. ASSUME NEW j \in p .. L - 1 PROVE j + 1 \in 1 .. L /\ j \in 1 .. L - 1 /\ r[j] = s[j + 1]
      <3>1. j + 1 \in 1 .. L /\ j \in 1 .. L - 1 /\ ~(j < p)
        BY <1>1
      <3> QED BY <1>1, <3>1
    <2>3. \A j \in 1 .. L - 1 : j \in 1 .. p - 1 \/ j \in p .. L - 1
      BY <1>1
    <2> QED BY <2>1, <2>2, <2>3
  <1>3. /\ \A i, j \in 1 .. L : i <= j => Comp(KeyOf[s[i]], KeyOf[s[j]]) <= 0
        /\ \A i \in 1 .. L : t.follower[s[i]] <=> i > 1 /\ Comp(KeyOf[s[i - 1]], KeyOf[s[i]]) = 0
        /\ \A i \in 1 .. L : t.follower[s[i]] => AllowDups
    BY DEF Sorted, L
  <1>4. ASSUME NEW i \in 1 .. L - 1, NEW j \in 1 .. L - 1, i <= j
        PROVE  Comp(KeyOf[r[i]], KeyOf[r[j]]) <= 0
    <2>1. PICK k \in 1 .. L : r[i] = s[k] /\ k = IF i < p THEN i ELSE i + 1
      BY <1>1
    <2>2. PICK m \in 1 .. L : r[j] = s[m] /\ m = IF j < p THEN j ELSE j + 1
      BY <1>1
    <2>3. k <= m
      BY <1>1, <1>4, <2>1, <2>2
    <2> QED BY <1>3, <2>1, <2>2, <2>3
  <1>5. ASSUME NEW j \in 1 .. L - 1
        PROVE  /\ u.follower[r[j]] <=> j > 1 /\ Comp(KeyOf[r[j - 1]], KeyOf[r[j]]) = 0
               /\ u.follower[r[j]] => AllowDups
    <2>1. CASE j \in 1 .. p - 1
      <3>1. j \in 1 .. L /\ r[j] = s[j] /\ (j > 1 => r[j - 1] = s[j - 1]) /\ j # p /\ j # p + 1
        <4>1. (j > 1 => j - 1 \in 1 .. p - 1) /\ j # p /\ j # p + 1
          BY <1>1, <2>1
        <4> QED BY <1>2, <2>1, <4>1
      <3> QED BY <1>3, <3>1 DEF L
    <2>2. CASE j = p
      <3>1. r[p] = s[p + 1] /\ p + 1 \in 1 .. L /\ p \in 1 .. L
        <4>1. p \in p .. L - 1
          BY <1>1, <2>2
        <4> QED BY <1>1, <1>2, <4>1
      <3>2. CASE p = 1
        <4>1. ~t.follower[s[p]]
          BY <1>3, <3>1, <3>2
        <4> QED BY <2>2, <3>1, <3>2, <4>1 DEF L
      <3>3. CASE p # 1
        <4>1. p > 1 /\ p - 1 \in 1 .. p - 1 /\ p - 1 \in 1 .. L /\ p - 1 <= p /\ p <= p + 1
              /\ (p + 1) - 1 = p /\ p - 1 <= p + 1 /\ p + 1 > 1
          BY <1>1, <3>3
        <4>2. r[p - 1] = s[p - 1]
          BY <1>2, <4>1
        <4>3. /\ Comp(KeyOf[s[p - 1]], KeyOf[s[p]]) <= 0
              /\ Comp(KeyOf[s[p]], KeyOf[s[p + 1]]) <= 0
          BY <1>3, <3>1, <4>1
        <4>4. s[p - 1] \in Node /\ s[p] \in Node /\ s[p + 1] \in Node
          BY <3>1, <4>1 DEF L
        <4>5. /\ t.follower[s[p]] <=> Comp(KeyOf[s[p - 1]], KeyOf[s[p]]) = 0
              /\ t.follower[s[p + 1]] <=> Comp(KeyOf[s[p]], KeyOf[s[p + 1]]) = 0
          BY <1>3, <3>1, <4>1
        <4>6. Comp(KeyOf[s[p - 1]], KeyOf[s[p + 1]]) = 0 <=>
                /\ Comp(KeyOf[s[p - 1]], KeyOf[s[p]]) = 0
                /\ Comp(KeyOf[s[p]], KeyOf[s[p + 1]]) = 0
          <5>1. KeyOf[s[p - 1]] \in Key /\ KeyOf[s[p]] \in Key /\ KeyOf[s[p + 1]] \in Key
            BY <4>4, NodeKeys
          <5>2. Comp(KeyOf[s[p - 1]], KeyOf[s[p + 1]]) = 0 =>
                  /\ Comp(KeyOf[s[p - 1]], KeyOf[s[p]]) = 0
                  /\ Comp(KeyOf[s[p]], KeyOf[s[p + 1]]) = 0
            BY <4>3, <5>1, Between
          <5>3. /\ Comp(KeyOf[s[p - 1]], KeyOf[s[p]]) = 0
                /\ Comp(KeyOf[s[p]], KeyOf[s[p + 1]]) = 0
                => Comp(KeyOf[s[p - 1]], KeyOf[s[p + 1]]) = 0
            BY <5>1, KeyOrder, Sides
          <5> QED BY <5>2, <5>3
        <4>7. u.follower[s[p + 1]] <=> t.follower[s[p]] /\ t.follower[s[p + 1]]
          BY <3>1 DEF L
        <4> QED BY <1>3, <2>2, <3>1, <4>1, <4>2, <4>5, <4>6, <4>7
      <3> QED BY <3>2, <3>3
    <2>3. CASE j \in p + 1 .. L - 1
      <3>1. /\ j \in p .. L - 1 /\ j - 1 \in p .. L - 1 /\ (j - 1) + 1 = j /\ (j + 1) - 1 = j
            /\ j > 1 /\ j + 1 > 1 /\ j + 1 # p /\ j + 1 # p + 1
        BY <1>1, <2>3
      <3>2. r[j] = s[j + 1] /\ j + 1 \in 1 .. L /\ r[j - 1] = s[j]
        <4>1. r[j - 1] = s[(j - 1) + 1]
          BY <1>2, <3>1
        <4> QED BY <1>2, <3>1, <4>1
      <3>3. u.follower[s[j + 1]] = t.follower[s[j + 1]]
        BY <3>1, <3>2 DEF L
      <3>4. t.follower[s[j + 1]] <=> Comp(KeyOf[s[j]], KeyOf[s[j + 1]]) = 0
        BY <1>3, <3>1, <3>2
      <3> QED BY <1>3, <3>1, <3>2, <3>3, <3>4
    <2>4. j \in 1 .. p - 1 \/ j = p \/ j \in p + 1 .. L - 1
      BY <1>1
    <2> QED BY <2>1, <2>2, <2>3, <2>4
  <1>6. Sorted(u, r)
    BY <1>1, <1>4, <1>5 DEF Sorted
  <1> DEFINE Next1 == IF p + 1 \in 1 .. Len(s) /\ ~u.follower[s[p + 1]] THEN {s[p + 1]} ELSE {}
  <1>7. Stems(u, r) = (Stems(t, s) \ {s[p]}) \cup Next1
    <2>1. ASSUME NEW m \in Stems(u, r) PROVE m \in (Stems(t, s) \ {s[p]}) \cup Next1
      <3>1. PICK j \in 1 .. L - 1 : m = r[j] /\ ~u.follower[r[j]] /\ m \in Node
        BY <1>1 DEF Stems, Stem
      <3>2. PICK k \in 1 .. L : r[j] = s[k] /\ k # p
        BY <1>1
      <3>3. s[k] # s[p]
        BY <3>2 DEF L
      <3>4. CASE k = p + 1
        BY <3>1, <3>2, <3>4 DEF L
      <3>5. CASE k # p + 1
        <4>1. ~t.follower[s[k]]
          BY <3>1, <3>2, <3>5 DEF L
        <4> QED BY <3>1, <3>2, <3>3, <4>1 DEF Stems, Stem, L
      <3> QED BY <3>4, <3>5
    <2>2. ASSUME NEW k \in 1 .. L, k # p, ~u.follower[s[k]] PROVE s[k] \in Stems(u, r)
      <3>1. \E j \in 1 .. L - 1 : r[j] = s[k]
        <4>1. CASE k \in 1 .. p - 1
          BY <1>2, <4>1
        <4>2. CASE k - 1 \in p .. L - 1
          <5>1. r[k - 1] = s[(k - 1) + 1] /\ (k - 1) + 1 = k
            BY <1>2, <4>2
          <5> QED BY <1>2, <4>2, <5>1
        <4>3. k \in 1 .. p - 1 \/ k - 1 \in p .. L - 1
          BY <1>1, <2>2
        <4> QED BY <4>1, <4>2, <4>3
      <3>2. s[k] \in Node
        BY DEF L
      <3> QED BY <1>1, <2>2, <3>1, <3>2 DEF Stems, Stem
    <2>3. ASSUME NEW m \in Stems(t, s), m # s[p] PROVE m \in Stems(u, r)
      <3>1. PICK k \in 1 .. L : m = s[k] /\ ~t.follower[s[k]] /\ k # p
        BY <2>3 DEF Stems, Stem, L
      <3>2. ~u.follower[s[k]]
        BY <3>1 DEF L
      <3> QED BY <2>2, <3>1, <3>2
    <2>4. ASSUME NEW m \in Next1 PROVE m \in Stems(u, r)
      <3>1. p + 1 \in 1 .. L /\ ~u.follower[s[p + 1]] /\ m = s[p + 1] /\ p + 1 # p
        BY <1>1 DEF L
      <3> QED BY <2>2, <3>1
    <2> HIDE DEF Next1
    <2> QED BY <2>1, <2>3, <2>4
  <1> QED BY <1>6, <1>7 DEF r

(* The neighbours of an element.                                            *)
LEMMA Neighbours ==
    ASSUME NEW t, NEW s, Chained(t, s), NEW i \in 1 .. Len(s)
    PROVE  /\ s[i] \in Node
           /\ t.link[Right][s[i]] = Elem(s, i + 1) /\ t.link[Left][s[i]] = Elem(s, i - 1)
           /\ IsLast(t, s[i], Right) <=> i = Len(s)
           /\ IsLast(t, s[i], Left) <=> i = 1
           /\ i # Len(s) => i + 1 \in 1 .. Len(s) /\ t.link[Right][s[i]] = s[i + 1]
           /\ i # 1 => i - 1 \in 1 .. Len(s) /\ t.link[Left][s[i]] = s[i - 1]
  <1>1. /\ s \in Seq(Node) /\ Len(s) \in Nat
        /\ \A k \in 1 .. Len(s) : Elem(s, k) = s[k] /\ s[k] \in Node /\ s[k] # HEAD
        /\ Elem(s, 0) = HEAD /\ Elem(s, Len(s) + 1) = HEAD
    BY ElemFacts DEF Chained
  <1>2. /\ i \in 0 .. Len(s) /\ i - 1 \in 0 .. Len(s) /\ (i - 1) + 1 = i
        /\ i # Len(s) => i + 1 \in 1 .. Len(s)
        /\ i # 1 => i - 1 \in 1 .. Len(s)
    BY <1>1
  <1>3. t.link[Right][s[i]] = Elem(s, i + 1) /\ t.link[Left][s[i]] = Elem(s, i - 1)
    BY <1>1, <1>2 DEF Chained
  <1>4. /\ i = Len(s) => t.link[Right][s[i]] = HEAD
        /\ i = 1 => t.link[Left][s[i]] = HEAD
        /\ i # Len(s) => t.link[Right][s[i]] = s[i + 1] /\ s[i + 1] # HEAD
        /\ i # 1 => t.link[Left][s[i]] = s[i - 1] /\ s[i - 1] # HEAD
    BY <1>1, <1>2, <1>3
  <1> QED BY <1>1, <1>2, <1>3, <1>4 DEF IsLast

(* There are no more elements than nodes.                                   *)
LEMMA ListLength ==
    ASSUME NEW t, NEW s, Chained(t, s)
    PROVE  Len(s) \in Nat /\ Cardinality(Node) \in Nat /\ Len(s) <= Cardinality(Node)
  <1>1. s \in Seq(Node) /\ \A i, j \in 1 .. Len(s) : s[i] = s[j] => i = j
    BY DEF Chained
  <1>2. IsFiniteSet(Node) /\ Len(s) \in Nat
    BY <1>1, AvlAssumption
  <1>3. IsFiniteSet(1 .. Len(s)) /\ Cardinality(1 .. Len(s)) = Len(s)
    <2>1. 1 \in Int /\ Len(s) \in Int
      BY <1>2
    <2>2. /\ IsFiniteSet(1 .. Len(s))
          /\ Cardinality(1 .. Len(s)) = IF 1 > Len(s) THEN 0 ELSE Len(s) - 1 + 1
      BY <2>1, FS_Interval, Zenon
    <2> QED BY <1>2, <2>2
  <1>4. s \in Injection(1 .. Len(s), Node)
    <2>1. s \in [1 .. Len(s) -> Node]
      BY <1>1
    <2> QED BY <1>1, <2>1 DEF Injection, IsInjective
  <1>5. Cardinality(1 .. Len(s)) <= Cardinality(Node)
    BY <1>2, <1>4, FS_Injection, Zenon
  <1> QED BY <1>2, <1>3, <1>5, FS_CardinalityType

(* The walk over the followers ends at the last element of the key.         *)
LEMMA FindLastFacts ==
    ASSUME NEW t \in Tree, NEW s, Chained(t, s), Sorted(t, s), NEW i \in 1 .. Len(s)
    PROVE  \E j \in i .. Len(s) :
             /\ FindLast(t, s[i]) = s[j] /\ Comp(KeyOf[s[i]], KeyOf[s[j]]) = 0
             /\ j = Len(s) \/ ~t.follower[s[j + 1]]
  <1> DEFINE Round(n) == IF IsLast(t, n, Right) \/ ~t.follower[t.link[Right][n]]
                         THEN n ELSE t.link[Right][n]
             End(j) == j = Len(s) \/ ~t.follower[s[j + 1]]
             At(k, n, j) == /\ n = s[j] /\ Comp(KeyOf[s[i]], KeyOf[s[j]]) = 0
                            /\ End(j) \/ i + k <= j
             Ok(k, n) == \E j \in i .. Len(s) : At(k, n, j)
             g     == [n \in Node |-> Round(n)]
             Q     == [k \in Nat |-> {n \in Node : Ok(k, n)}]
             F(a)  == [k \in Nat |-> IF k = 0 THEN s[i] ELSE Round(a[k - 1])]
             after == CHOOSE a : a = F(a)
             last  == after[Cardinality(Node)]
  <1>1. FindLast(t, s[i]) = last
    BY Zenon DEF FindLast, Repeat
  <1>2. /\ s \in Seq(Node) /\ Len(s) \in Nat /\ Cardinality(Node) \in Nat
        /\ Len(s) <= Cardinality(Node) /\ i \in Nat /\ 1 <= i /\ i <= Len(s)
    <2>1. s \in Seq(Node) /\ i \in Nat /\ 1 <= i /\ i <= Len(s)
      BY DEF Chained
    <2> QED BY <2>1, ListLength
  <1>3. \A j \in i .. Len(s) : j \in Nat /\ j \in 1 .. Len(s) /\ s[j] \in Node /\ i <= j /\ j <= Len(s)
    BY <1>2
  <1>4. ASSUME NEW k \in Nat, NEW n \in Node, Ok(k, n)
        PROVE  Round(n) \in Node /\ Ok(k + 1, Round(n))
    <2>1. PICK j \in i .. Len(s) : At(k, n, j)
      BY <1>4
    <2>2. /\ IsLast(t, s[j], Right) <=> j = Len(s)
          /\ j # Len(s) => j + 1 \in 1 .. Len(s) /\ t.link[Right][s[j]] = s[j + 1]
      BY <1>3, Neighbours
    <2>3. CASE End(j)
      <3>1. Round(n) = n
        BY <2>1, <2>2, <2>3
      <3>2. At(k + 1, n, j)
        BY <2>1, <2>3
      <3> HIDE DEF Round, At
      <3> QED BY <3>1, <3>2
    <2>4. CASE ~End(j)
      <3>1. j # Len(s) /\ t.follower[s[j + 1]] /\ Round(n) = s[j + 1]
        BY <2>1, <2>2, <2>4
      <3>2. j + 1 \in 1 .. Len(s) /\ j + 1 \in i .. Len(s) /\ (j + 1) - 1 = j /\ i + (k + 1) <= j + 1
        BY <1>2, <1>3, <2>1, <2>2, <2>4, <3>1
      <3>3. Comp(KeyOf[s[j]], KeyOf[s[j + 1]]) = 0
        BY <3>1, <3>2 DEF Sorted
      <3>4. s[i] \in Node /\ s[j] \in Node /\ s[j + 1] \in Node
        BY <1>2, <1>3, <3>2
      <3>5. Comp(KeyOf[s[i]], KeyOf[s[j + 1]]) = 0
        BY <2>1, <3>3, <3>4, NodeKeys, KeyOrder, Sides
      <3>6. At(k + 1, s[j + 1], j + 1)
        BY <3>2, <3>5
      <3> HIDE DEF Round, At
      <3> QED BY <3>1, <3>2, <3>4, <3>6
    <2> QED BY <2>3, <2>4
  <1>5. Ok(0, s[i])
    <2>1. s[i] \in Node /\ Comp(KeyOf[s[i]], KeyOf[s[i]]) = 0
      BY <1>2, NodeKeys, KeySides
    <2>2. i \in i .. Len(s) /\ i + 0 <= i
      BY <1>2
    <2>3. At(0, s[i], i)
      BY <2>1, <2>2
    <2> HIDE DEF At
    <2> QED BY <2>2, <2>3
  <1>6. Keeps(Node, g, Q, s[i])
    <2>1. s[i] \in Node
      BY <1>2
    <2> HIDE DEF Ok, Round
    <2> QED BY <1>4, <1>5, <2>1 DEF Keeps
  <1> HIDE DEF Ok, Round
  <1>7. \E f : f = F(f)
    <2> HIDE DEF g, Q
    <2>1. PICK f : Iterates(f, g, Q, s[i])
      BY <1>6, Iteration
    <2>2. \A k \in Nat : f[k] \in Node
      BY <1>6, <2>1 DEF Keeps, Iterates
    <2>3. \A k \in Nat : f[k] = IF k = 0 THEN s[i] ELSE Round(f[k - 1])
      <3>1. \A k \in Nat : k # 0 => k - 1 \in Nat
        OBVIOUS
      <3> QED BY <2>1, <2>2, <3>1 DEF Iterates, g
    <2> QED BY <2>1, <2>3 DEF Iterates
  <1>8. after = F(after)
    BY <1>7, Zenon
  <1> HIDE DEF after
  <1>9. \A k \in Nat : after[k] \in Q[k]
    <2>1. after[0] = s[i] /\ \A k \in Nat : after[k] \in Node => after[k + 1] = g[after[k]]
      <3>1. \A k \in Nat : k + 1 \in Nat /\ k + 1 # 0 /\ (k + 1) - 1 = k
        OBVIOUS
      <3> QED BY <1>8, <3>1
    <2> HIDE DEF g, Q
    <2> QED BY <1>6, <2>1, Follows
  <1>10. Ok(Cardinality(Node), last)
    BY <1>2, <1>9
  <1> HIDE DEF last
  <1>11. PICK j \in i .. Len(s) : At(Cardinality(Node), last, j)
    BY <1>10 DEF Ok
  <1>12. End(j)
    BY <1>2, <1>3, <1>11
  <1> QED BY <1>1, <1>11, <1>12

-----------------------------------------------------------------------------
(* What every function of avl.c relies on: the elements s, the subtrees B   *)
(* and heights V that the pointers, flags and balances of the tree encode.  *)
Good(t, s, B, V) ==
    /\ t \in Tree /\ t.count = Len(s)
    /\ Chained(t, s) /\ Sorted(t, s) /\ Sound(t, Stems(t, s), B, V, {})

(* Where the specification puts a new element.                              *)
LEMMA PlaceIs ==
    ASSUME NEW s \in Seq(Node), NEW n \in Node, NEW q \in 0 .. Len(s),
           \A i \in 1 .. q : Comp(KeyOf[s[i]], KeyOf[n]) < 0,
           \A i \in q + 1 .. Len(s) : Comp(KeyOf[n], KeyOf[s[i]]) <= 0
    PROVE  /\ (\E i \in 1 .. Len(s) : Comp(KeyOf[s[i]], KeyOf[n]) = 0) => Ordered!Place(s, n) = q + 2
           /\ ~(\E i \in 1 .. Len(s) : Comp(KeyOf[s[i]], KeyOf[n]) = 0) => Ordered!Place(s, n) = q + 1
  <1> DEFINE before == {i \in DOMAIN s : Comp(KeyOf[s[i]], KeyOf[n]) < 0}
             same   == {i \in DOMAIN s : Comp(KeyOf[s[i]], KeyOf[n]) = 0}
  <1>1. Ordered!Place(s, n) = 1 + Cardinality(before) + (IF same = {} THEN 0 ELSE 1)
    BY Zenon DEF Ordered!Place, Ordered!Cardinality, Cardinality
  <1>2. Len(s) \in Nat /\ q \in Nat /\ q <= Len(s) /\ DOMAIN s = 1 .. Len(s)
    OBVIOUS
  <1>3. before = 1 .. q
    <2>1. ASSUME NEW i \in 1 .. Len(s), ~(i \in 1 .. q) PROVE ~(Comp(KeyOf[s[i]], KeyOf[n]) < 0)
      <3>1. i \in q + 1 .. Len(s)
        BY <1>2, <2>1
      <3>2. Comp(KeyOf[n], KeyOf[s[i]]) <= 0 /\ s[i] \in Node
        BY <3>1
      <3>3. /\ Comp(KeyOf[n], KeyOf[s[i]]) \in Int
            /\ Comp(KeyOf[s[i]], KeyOf[n]) < 0 <=> Comp(KeyOf[n], KeyOf[s[i]]) > 0
        BY <3>2, NodeKeys, CompAssumption
      <3> QED BY <3>2, <3>3
    <2>2. \A i \in 1 .. q : i \in 1 .. Len(s)
      BY <1>2
    <2> QED BY <1>2, <2>1, <2>2
  <1>4. Cardinality(before) = q
    <2>1. Cardinality(1 .. q) = IF 1 > q THEN 0 ELSE q - 1 + 1
      BY <1>2, FS_Interval
    <2>2. (IF 1 > q THEN 0 ELSE q - 1 + 1) = q
      BY <1>2
    <2> HIDE DEF before
    <2> QED BY <1>3, <2>1, <2>2, Zenon
  <1>5. same = {} <=> ~(\E i \in 1 .. Len(s) : Comp(KeyOf[s[i]], KeyOf[n]) = 0)
    BY <1>2
  <1> HIDE DEF before, same
  <1>6. 1 + q + 1 = q + 2 /\ 1 + q + 0 = q + 1
    BY <1>2
  <1> QED BY <1>1, <1>4, <1>5, <1>6

(* The key lies as the found node's does among the elements of other keys.  *)
LEMMA NearList ==
    ASSUME NEW t, NEW s \in Seq(Node), Sorted(t, s), NEW i, Stem(t, s, i), NEW key \in Key,
           Near(Stems(t, s), key, s[i]), NEW k \in 1 .. Len(s), Comp(KeyOf[s[k]], KeyOf[s[i]]) # 0
    PROVE  \A d \in Side : Lies(d, s[k], s[i]) <=> Beyond(d, KeyOf[s[k]], key)
  <1>1. PICK j \in 1 .. k : Stem(t, s, j) /\ Comp(KeyOf[s[j]], KeyOf[s[k]]) = 0
    BY StemOf
  <1>2. i \in 1 .. Len(s) /\ j \in 1 .. Len(s)
    BY <1>1 DEF Stem
  <1>3. s[i] \in Node /\ s[j] \in Node /\ s[k] \in Node
    BY <1>2
  <1>4. KeyOf[s[i]] \in Key /\ KeyOf[s[j]] \in Key /\ KeyOf[s[k]] \in Key
    BY <1>3, NodeKeys
  <1>5. s[j] # s[i]
    BY <1>1, <1>4, KeySides
  <1>6. s[j] \in Stems(t, s)
    BY <1>1, <1>2, <1>3 DEF Stems
  <1> TAKE d \in Side
  <1>7. Lies(d, s[j], s[i]) <=> Beyond(d, KeyOf[s[j]], key)
    BY <1>5, <1>6 DEF Near
  <1>8. /\ Beyond(d, KeyOf[s[k]], KeyOf[s[i]]) <=> Beyond(d, KeyOf[s[j]], KeyOf[s[i]])
        /\ Beyond(d, KeyOf[s[k]], key) <=> Beyond(d, KeyOf[s[j]], key)
    BY <1>1, <1>4, KeyOrder
  <1> QED BY <1>7, <1>8 DEF Lies

(* On the side of the found node where it has room, the key parts the list. *)
LEMMA KeyParts ==
    ASSUME NEW t, NEW s \in Seq(Node), Sorted(t, s), NEW i, Stem(t, s, i), NEW n \in Node,
           Near(Stems(t, s), KeyOf[n], s[i]), NEW e \in Side, Lies(e, n, s[i]),
           NEW j \in i .. Len(s), Comp(KeyOf[s[i]], KeyOf[s[j]]) = 0,
           j = Len(s) \/ ~t.follower[s[j + 1]]
    PROVE  LET p == IF e = Left THEN i ELSE j + 1
           IN  /\ p \in 1 .. Len(s) + 1
               /\ \A k \in 1 .. p - 1 : Comp(KeyOf[s[k]], KeyOf[n]) < 0
               /\ \A k \in p .. Len(s) : Comp(KeyOf[n], KeyOf[s[k]]) < 0
  <1> DEFINE key == KeyOf[n]
             p   == IF e = Left THEN i ELSE j + 1
  <1>1. /\ Len(s) \in Nat /\ i \in Nat /\ 1 <= i /\ i <= Len(s) /\ i \in 1 .. Len(s)
        /\ j \in Nat /\ i <= j /\ j <= Len(s) /\ j \in 1 .. Len(s)
    BY DEF Stem
  <1>2. /\ \A k \in 1 .. Len(s) : s[k] \in Node /\ KeyOf[s[k]] \in Key
        /\ key \in Key
    BY NodeKeys
  <1>3. p \in Nat /\ 1 <= p /\ p <= Len(s) + 1
    BY <1>1
  <1> HIDE DEF key
  <1>4. ASSUME NEW k \in 1 .. Len(s), Comp(KeyOf[s[k]], KeyOf[s[i]]) = 0
        PROVE  e = Left => Comp(key, KeyOf[s[k]]) < 0
    <2>1. Beyond(e, key, KeyOf[s[k]])
      <3>1. Beyond(-e, KeyOf[s[i]], key)
        BY <1>1, <1>2, KeySides DEF Lies, key
      <3>2. Beyond(-e, KeyOf[s[k]], key)
        BY <1>1, <1>2, <1>4, <3>1, KeyOrder, Sides
      <3> QED BY <1>2, <3>2, KeySides, Sides
    <2> QED BY <1>2, <2>1, KeySides
  <1>5. ASSUME NEW k \in 1 .. Len(s), Comp(KeyOf[s[k]], KeyOf[s[i]]) = 0
        PROVE  e = Right => Comp(KeyOf[s[k]], key) < 0
    <2>1. Beyond(-e, KeyOf[s[i]], key)
      BY <1>1, <1>2, KeySides DEF Lies, key
    <2>2. Beyond(-e, KeyOf[s[k]], key)
      BY <1>1, <1>2, <1>5, <2>1, KeyOrder, Sides
    <2> QED BY <1>2, <2>2, KeySides, Sides
  <1>6. ASSUME NEW k \in 1 .. Len(s), Comp(KeyOf[s[k]], KeyOf[s[i]]) < 0
        PROVE  Comp(KeyOf[s[k]], key) < 0
    <2>1. Comp(KeyOf[s[k]], KeyOf[s[i]]) # 0
      BY <1>6
    <2>2. Lies(Left, s[k], s[i])
      BY <1>1, <1>2, <1>6, KeySides DEF Lies
    <2>3. Beyond(Left, KeyOf[s[k]], key)
      BY <1>2, <2>1, <2>2, NearList, Sides DEF key
    <2> QED BY <1>2, <2>3, KeySides
  <1>7. ASSUME NEW k \in 1 .. Len(s), Comp(KeyOf[s[i]], KeyOf[s[k]]) < 0
        PROVE  Comp(key, KeyOf[s[k]]) < 0
    <2>1. Beyond(Left, KeyOf[s[i]], KeyOf[s[k]])
      BY <1>1, <1>2, <1>7, KeySides
    <2>2. Lies(Right, s[k], s[i]) /\ Comp(KeyOf[s[k]], KeyOf[s[i]]) # 0
      <3>1. Beyond(Right, KeyOf[s[k]], KeyOf[s[i]])
        BY <1>1, <1>2, <2>1, KeySides, Sides
      <3> QED BY <1>1, <1>2, <3>1, KeySides, Sides DEF Lies
    <2>3. Beyond(Right, KeyOf[s[k]], key)
      BY <1>2, <2>2, NearList, Sides DEF key
    <2>4. Beyond(Left, key, KeyOf[s[k]])
      BY <1>2, <2>3, KeySides, Sides
    <2> QED BY <1>2, <2>4, KeySides
  <1>8. ASSUME NEW k \in 1 .. p - 1 PROVE Comp(KeyOf[s[k]], key) < 0
    <2>1. k \in Nat /\ k \in 1 .. Len(s) /\ k < p
      BY <1>1, <1>3
    <2>2. CASE e = Left
      <3>1. k < i
        BY <2>1, <2>2
      <3>2. Comp(KeyOf[s[k]], KeyOf[s[i]]) < 0
        BY <1>1, <2>1, <3>1, StemAfter
      <3> QED BY <1>6, <2>1, <3>2
    <2>3. CASE e = Right
      <3>1. k <= j
        BY <1>1, <2>1, <2>3, Sides
      <3>2. Comp(KeyOf[s[k]], KeyOf[s[j]]) <= 0
        BY <1>1, <2>1, <3>1 DEF Sorted
      <3>3. Comp(KeyOf[s[k]], KeyOf[s[i]]) <= 0
        <4>1. Comp(KeyOf[s[j]], KeyOf[s[i]]) = 0
          BY <1>1, <1>2, KeySides
        <4>2. Comp(KeyOf[s[j]], KeyOf[s[i]]) <= 0
          BY <4>1
        <4> QED BY <1>1, <1>2, <2>1, <3>2, <4>2, CompAssumption
      <3>4. Comp(KeyOf[s[k]], KeyOf[s[i]]) \in Int
        BY <1>1, <1>2, <2>1, CompAssumption
      <3> QED BY <1>5, <1>6, <2>1, <2>3, <3>3, <3>4
    <2> QED BY <2>2, <2>3, Sides
  <1>9. ASSUME NEW k \in p .. Len(s) PROVE Comp(key, KeyOf[s[k]]) < 0
    <2>1. k \in Nat /\ k \in 1 .. Len(s) /\ p <= k /\ i <= k
      BY <1>1, <1>3
    <2>2. Comp(KeyOf[s[i]], KeyOf[s[k]]) <= 0 /\ Comp(KeyOf[s[i]], KeyOf[s[k]]) \in Int
      <3>1. Comp(KeyOf[s[i]], KeyOf[s[k]]) <= 0
        BY <1>1, <2>1 DEF Sorted
      <3> QED BY <1>1, <1>2, <2>1, <3>1, CompAssumption
    <2>3. CASE Comp(KeyOf[s[i]], KeyOf[s[k]]) = 0
      <3>1. Comp(KeyOf[s[k]], KeyOf[s[i]]) = 0
        BY <1>1, <1>2, <2>1, <2>3, KeySides
      <3>2. e # Right
        <4> SUFFICES ASSUME e = Right PROVE FALSE
          OBVIOUS
        <4>1. j + 1 <= k /\ j + 1 \in 1 .. Len(s) /\ j + 1 > 1 /\ (j + 1) - 1 = j /\ j <= j + 1 /\ j # Len(s)
          BY <1>1, <2>1, Sides
        <4>2. /\ Comp(KeyOf[s[j]], KeyOf[s[j + 1]]) <= 0
              /\ Comp(KeyOf[s[j + 1]], KeyOf[s[k]]) <= 0
          BY <1>1, <2>1, <4>1 DEF Sorted
        <4>3. Comp(KeyOf[s[j]], KeyOf[s[k]]) = 0
          BY <1>1, <1>2, <2>1, <2>3, KeySides, KeyOrder, Sides
        <4>4. Comp(KeyOf[s[j]], KeyOf[s[j + 1]]) = 0
          BY <1>1, <1>2, <2>1, <4>1, <4>2, <4>3, Between
        <4>5. t.follower[s[j + 1]]
          BY <4>1, <4>4 DEF Sorted
        <4> QED BY <4>1, <4>5
      <3> QED BY <1>4, <2>1, <3>1, <3>2, Sides
    <2> QED BY <1>7, <2>1, <2>2, <2>3
  <1> QED BY <1>3, <1>8, <1>9 DEF key

(* What a tree keeps when only parts of it change that the list and its     *)
(* order do not depend on.                                                  *)
LEMMA StaysSorted ==
    ASSUME NEW t, NEW s \in Seq(Node), NEW u,
           \A i \in 1 .. Len(s) : u.follower[s[i]] = t.follower[s[i]]
    PROVE  (Sorted(t, s) => Sorted(u, s)) /\ Stems(u, s) = Stems(t, s)
  <1>1. Sorted(t, s) => Sorted(u, s)
    BY DEF Sorted
  <1>2. Stems(u, s) = Stems(t, s)
    BY DEF Stems, Stem
  <1> QED BY <1>1, <1>2

LEMMA StaysChained ==
    ASSUME NEW t, NEW s, NEW u, u.link = t.link
    PROVE  Chained(t, s) => Chained(u, s)
  BY DEF Chained

(* Clearing touches the node's own tree pointers only.                      *)
LEMMA ClearedFields ==
    ASSUME NEW t \in Tree, NEW n \in Node
    PROVE  LET u == Cleared(t, n)
           IN  /\ u \in Tree /\ u.root = t.root /\ u.link = t.link /\ u.count = t.count
               /\ u.parent = [t.parent EXCEPT ![n] = NULL] /\ u.balance = [t.balance EXCEPT ![n] = 0]
               /\ u.follower = [t.follower EXCEPT ![n] = FALSE]
               /\ \A d \in Side : u.child[d] = [t.child[d] EXCEPT ![n] = NULL]
  <1> DEFINE cl == [t.child EXCEPT ![Left][n] = NULL]
             k  == [cl EXCEPT ![Right][n] = NULL]
             v1 == [t EXCEPT !.parent[n] = NULL]
             v2 == [v1 EXCEPT !.child[Left][n] = NULL]
             v3 == [v2 EXCEPT !.child[Right][n] = NULL]
             v4 == [v3 EXCEPT !.balance[n] = 0]
             u  == [v4 EXCEPT !.follower[n] = FALSE]
  <1>1. Cleared(t, n) = u
    BY DEF Cleared
  <1>2. /\ t.child \in [Side -> [Node -> Pointer]] /\ t.parent \in [Node -> Pointer]
        /\ t.balance \in [Node -> Int] /\ t.follower \in [Node -> BOOLEAN] /\ NULL \in Pointer
    BY DEF Tree, Pointer
  <1>3. /\ k \in [Side -> [Node -> Pointer]]
        /\ \A d \in Side : k[d] = [t.child[d] EXCEPT ![n] = NULL]
    <2>1. cl \in [Side -> [Node -> Pointer]] /\ cl[Left] = [t.child[Left] EXCEPT ![n] = NULL]
          /\ cl[Right] = t.child[Right]
      BY <1>2, Sides
    <2> HIDE DEF cl
    <2>2. k \in [Side -> [Node -> Pointer]] /\ k[Right] = [cl[Right] EXCEPT ![n] = NULL] /\ k[Left] = cl[Left]
      BY <1>2, <2>1, Sides
    <2> HIDE DEF k
    <2> QED BY <2>1, <2>2, Sides
  <1>4. /\ v1 \in Tree /\ v1.parent = [t.parent EXCEPT ![n] = NULL] /\ v1.root = t.root /\ v1.link = t.link
        /\ v1.count = t.count /\ v1.balance = t.balance /\ v1.follower = t.follower /\ v1.child = t.child
    BY <1>2 DEF Tree
  <1> HIDE DEF v1
  <1>5. /\ v3 = [v1 EXCEPT !.child = k]
    <2>1. v2 = [v1 EXCEPT !.child = cl]
      BY <1>4 DEF Tree
    <2>2. v2.child = cl
      BY <1>4, <2>1 DEF Tree
    <2> HIDE DEF v2, cl
    <2>3. v3 = [v2 EXCEPT !.child = k]
      BY <1>4, <2>2 DEF Tree
    <2> HIDE DEF v3, k
    <2> QED BY <1>4, <2>1, <2>3 DEF Tree
  <1> HIDE DEF v3, k
  <1>6. /\ v3 \in Tree /\ v3.parent = v1.parent /\ v3.root = v1.root /\ v3.link = v1.link
        /\ v3.count = v1.count /\ v3.balance = v1.balance /\ v3.follower = v1.follower /\ v3.child = k
    BY <1>3, <1>4, <1>5 DEF Tree
  <1>7. /\ v4 \in Tree /\ v4.parent = v3.parent /\ v4.root = v3.root /\ v4.link = v3.link
        /\ v4.count = v3.count /\ v4.follower = v3.follower /\ v4.child = k
        /\ v4.balance = [v3.balance EXCEPT ![n] = 0]
    <2> DEFINE bal == [v3.balance EXCEPT ![n] = 0]
    <2>1. v4 = [v3 EXCEPT !.balance = bal]
      OBVIOUS
    <2>2. bal \in [Node -> Int]
      BY <1>6 DEF Tree
    <2> HIDE DEF v4, bal
    <2>3. /\ v4 \in Tree /\ v4.parent = v3.parent /\ v4.root = v3.root /\ v4.link = v3.link
          /\ v4.count = v3.count /\ v4.follower = v3.follower /\ v4.child = v3.child
          /\ v4.balance = bal
      BY <1>6, <2>1, <2>2 DEF Tree
    <2> QED BY <1>6, <2>3 DEF bal
  <1> HIDE DEF v4
  <1>8. /\ u \in Tree /\ u.parent = v4.parent /\ u.root = v4.root /\ u.link = v4.link
        /\ u.count = v4.count /\ u.balance = v4.balance /\ u.child = k
        /\ u.follower = [v4.follower EXCEPT ![n] = FALSE]
    BY <1>7 DEF Tree
  <1> HIDE DEF u
  <1> QED BY <1>1, <1>3, <1>4, <1>6, <1>7, <1>8

(* Clearing a node that is not in the tree changes nothing of the tree.     *)
LEMMA ClearedGood ==
    ASSUME NEW t, NEW s, NEW B, NEW V, Good(t, s, B, V), NEW n \in Node, Fresh(s, n)
    PROVE  LET u == Cleared(t, n)
           IN  /\ Good(u, s, B, V) /\ u.root = t.root
               /\ u.parent[n] = NULL /\ u.balance[n] = 0 /\ ~u.follower[n]
               /\ \A d \in Side : u.child[d][n] = NULL
  <1> DEFINE u == Cleared(t, n)
  <1>1. t \in Tree /\ Chained(t, s) /\ Sorted(t, s) /\ Sound(t, Stems(t, s), B, V, {}) /\ t.count = Len(s)
    BY DEF Good
  <1>2. s \in Seq(Node) /\ \A i \in 1 .. Len(s) : s[i] \in Node /\ s[i] # n
    BY <1>1 DEF Chained, Fresh
  <1>3. /\ u \in Tree /\ u.root = t.root /\ u.link = t.link /\ u.count = t.count
        /\ u.parent = [t.parent EXCEPT ![n] = NULL] /\ u.balance = [t.balance EXCEPT ![n] = 0]
        /\ u.follower = [t.follower EXCEPT ![n] = FALSE]
        /\ \A d \in Side : u.child[d] = [t.child[d] EXCEPT ![n] = NULL]
    BY <1>1, ClearedFields
  <1> HIDE DEF u
  <1>4. /\ t.child \in [Side -> [Node -> Pointer]] /\ t.parent \in [Node -> Pointer]
        /\ t.balance \in [Node -> Int] /\ t.follower \in [Node -> BOOLEAN]
    BY <1>1 DEF Tree
  <1>5. \A d \in Side : u.child[d][n] = NULL /\ \A m \in Node \ {n} : u.child[d][m] = t.child[d][m]
    <2> TAKE d \in Side
    <2>1. u.child[d] = [t.child[d] EXCEPT ![n] = NULL] /\ t.child[d] \in [Node -> Pointer]
      BY <1>3, <1>4
    <2> QED BY <2>1
  <1>6. /\ u.parent[n] = NULL /\ u.balance[n] = 0 /\ ~u.follower[n]
        /\ \A m \in Node \ {n} : /\ u.parent[m] = t.parent[m] /\ u.balance[m] = t.balance[m]
                                 /\ u.follower[m] = t.follower[m]
    BY <1>3, <1>4
  <1>7. Sorted(u, s) /\ Stems(u, s) = Stems(t, s) /\ Chained(u, s)
    <2>1. \A i \in 1 .. Len(s) : u.follower[s[i]] = t.follower[s[i]]
      BY <1>2, <1>6
    <2> QED BY <1>1, <1>2, <1>3, <2>1, StaysSorted, StaysChained
  <1>8. \A m \in Stems(t, s) : m \in Node \ {n}
    BY <1>2 DEF Stems, Stem
  <1>9. Sound(u, Stems(t, s), B, V, {})
    <2>1. \A m \in Stems(t, s) : /\ u.parent[m] = t.parent[m] /\ u.balance[m] = t.balance[m]
                                 /\ \A d \in Side : u.child[d][m] = t.child[d][m]
      <3> SUFFICES ASSUME NEW m \in Stems(t, s)
                   PROVE  /\ u.parent[m] = t.parent[m] /\ u.balance[m] = t.balance[m]
                          /\ \A d \in Side : u.child[d][m] = t.child[d][m]
        OBVIOUS
      <3> QED BY <1>5, <1>6, <1>8
    <2> QED BY <1>1, <1>3, <2>1, Reframed
  <1>10. Good(u, s, B, V)
    BY <1>1, <1>3, <1>7, <1>9 DEF Good
  <1> QED BY <1>5, <1>3, <1>6, <1>10 DEF u

(* A new element that is linked where it belongs, and is in the tree unless *)
(* it follows.                                                              *)
LEMMA InsertGood ==
    ASSUME NEW t \in Tree, NEW s, Chained(t, s), Sorted(t, s), t.count = Len(s),
           NEW n \in Node, Fresh(s, n), NEW p \in 1 .. Len(s) + 1, NEW u \in Tree,
           u.link = AddBetween(t, Elem(s, p - 1), Elem(s, p), n).link, u.count = t.count + 1,
           \A i \in 1 .. Len(s) : u.follower[s[i]] = t.follower[s[i]],
           \A i \in 1 .. p - 1 : Comp(KeyOf[s[i]], KeyOf[n]) <= 0,
           \A i \in p .. Len(s) : Comp(KeyOf[n], KeyOf[s[i]]) <= 0,
           u.follower[n] <=> p > 1 /\ Comp(KeyOf[s[p - 1]], KeyOf[n]) = 0,
           u.follower[n] => AllowDups,
           p <= Len(s) => (t.follower[s[p]] <=> Comp(KeyOf[n], KeyOf[s[p]]) = 0),
           NEW C, NEW W,
           Sound(u, IF u.follower[n] THEN Stems(t, s) ELSE Stems(t, s) \cup {n}, C, W, {})
    PROVE  Good(u, InsertAt(s, p, n), C, W)
  <1>1. s \in Seq(Node)
    BY DEF Chained
  <1>2. Chained(u, InsertAt(s, p, n))
    <2>1. Chained(AddBetween(t, Elem(s, p - 1), Elem(s, p), n), InsertAt(s, p, n))
      BY AddChained
    <2> QED BY <2>1, StaysChained
  <1>3. Len(InsertAt(s, p, n)) = Len(s) + 1
    BY <1>1, InsertElements
  <1>4. Sorted(u, InsertAt(s, p, n)) /\
        Stems(u, InsertAt(s, p, n)) = IF u.follower[n] THEN Stems(t, s) ELSE Stems(t, s) \cup {n}
    BY <1>1, SortedInsert
  <1> QED BY <1>2, <1>3, <1>4 DEF Good

(* Linking a node changes the links alone.                                  *)
LEMMA LinkedIn ==
    ASSUME NEW t \in Tree, NEW s, Chained(t, s), NEW n \in Node, Fresh(s, n),
           NEW p \in 1 .. Len(s) + 1
    PROVE  LET a == AddBetween(t, Elem(s, p - 1), Elem(s, p), n)
           IN  /\ a \in Tree /\ a.root = t.root /\ a.count = t.count /\ a.parent = t.parent
               /\ a.child = t.child /\ a.balance = t.balance /\ a.follower = t.follower
  <1>1. PICK k \in [Side -> [Place -> Place \cup {NULL}]] :
               AddBetween(t, Elem(s, p - 1), Elem(s, p), n) = [t EXCEPT !.link = k]
    BY AddChained
  <1> QED BY <1>1 DEF Tree

LEMMA AddPlaces ==
    ASSUME NEW t, NEW s, Chained(t, s), NEW i \in 0 .. Len(s), NEW n
    PROVE  /\ AddAfter(t, Elem(s, i), n) = AddBetween(t, Elem(s, (i + 1) - 1), Elem(s, i + 1), n)
           /\ i # 0 => AddBefore(t, Elem(s, i), n) = AddBetween(t, Elem(s, i - 1), Elem(s, i), n)
  <1>1. Len(s) \in Nat /\ i \in Int /\ (i + 1) - 1 = i
    BY DEF Chained
  <1>2. t.link[Right][Elem(s, i)] = Elem(s, i + 1)
    BY DEF Chained
  <1>3. AddAfter(t, Elem(s, i), n) = AddBetween(t, Elem(s, (i + 1) - 1), Elem(s, i + 1), n)
    BY <1>1, <1>2 DEF AddAfter
  <1>4. ASSUME i # 0 PROVE AddBefore(t, Elem(s, i), n) = AddBetween(t, Elem(s, i - 1), Elem(s, i), n)
    <2>1. i - 1 \in 0 .. Len(s) /\ (i - 1) + 1 = i
      BY <1>1, <1>4
    <2>2. t.link[Left][Elem(s, (i - 1) + 1)] = Elem(s, i - 1)
      BY <2>1 DEF Chained
    <2> QED BY <2>1, <2>2 DEF AddBefore
  <1> QED BY <1>3, <1>4

(* The first element becomes the root.                                      *)
LEMMA InsertFirst ==
    ASSUME NEW t, NEW s, NEW B, NEW V, Good(t, s, B, V), NEW n \in Node, Fresh(s, n), t.root = NULL
    PROVE  /\ \A i \in 1 .. Len(s) : Comp(KeyOf[s[i]], KeyOf[n]) # 0
           /\ \E C, W : Good(Inserted(t, n), InsertAt(s, Ordered!Place(s, n), n), C, W)
  <1> DEFINE c == Cleared(t, n)
             a == AddBetween(c, Elem(s, 1 - 1), Elem(s, 1), n)
             u == Inserted(t, n)
             C == [x \in Pointer |-> IF x = n THEN {n} ELSE {}]
             W == [x \in Pointer |-> IF x = n THEN 1 ELSE 0]
  <1>1. /\ Good(c, s, B, V) /\ c.root = NULL /\ c.parent[n] = NULL /\ c.balance[n] = 0
        /\ ~c.follower[n] /\ \A d \in Side : c.child[d][n] = NULL
    BY ClearedGood
  <1>2. u = [AddAfter(c, HEAD, n) EXCEPT !.root = n, !.count = 1]
    BY DEF Inserted
  <1> HIDE DEF c, u
  <1>3. /\ c \in Tree /\ c.count = Len(s) /\ s \in Seq(Node)
        /\ Chained(c, s) /\ Sorted(c, s) /\ Shape(c, Stems(c, s), B)
    BY <1>1 DEF Good, Chained, Sound
  <1>4. Stems(c, s) = {}
    BY <1>1, <1>3 DEF Shape
  <1>5. Len(s) = 0
    <2> SUFFICES ASSUME Len(s) # 0 PROVE FALSE
      OBVIOUS
    <2>1. 1 \in 1 .. Len(s)
      BY <1>3
    <2>2. PICK j \in 1 .. 1 : Stem(c, s, j)
      BY <1>3, <2>1, StemOf
    <2>3. j \in 1 .. Len(s) /\ s[j] \in Node
      BY <1>3, <2>1, <2>2
    <2> QED BY <1>4, <2>2, <2>3 DEF Stems
  <1>6. a = AddAfter(c, HEAD, n)
    <2>1. 0 \in 0 .. Len(s) /\ Elem(s, 0) = HEAD /\ 0 + 1 = 1
      BY <1>3, <1>5 DEF Elem
    <2> QED BY <1>3, <2>1, AddPlaces
  <1>7. /\ a \in Tree /\ a.parent = c.parent /\ a.child = c.child /\ a.balance = c.balance
        /\ a.follower = c.follower
    <2>1. 1 \in 1 .. Len(s) + 1
      BY <1>5
    <2> QED BY <1>3, <2>1, LinkedIn
  <1> HIDE DEF a
  <1>8. /\ u \in Tree /\ u.link = a.link /\ u.root = n /\ u.count = 1 /\ u.parent = c.parent
        /\ u.child = c.child /\ u.balance = c.balance /\ u.follower = c.follower
    <2> DEFINE v == [a EXCEPT !.root = n]
    <2>1. u = [v EXCEPT !.count = 1]
      BY <1>2, <1>6
    <2>2. /\ v \in Tree /\ v.link = a.link /\ v.root = n /\ v.parent = a.parent
          /\ v.child = a.child /\ v.balance = a.balance /\ v.follower = a.follower
      BY <1>7 DEF Tree, Pointer
    <2> HIDE DEF v
    <2>3. /\ u \in Tree /\ u.link = v.link /\ u.root = v.root /\ u.count = 1 /\ u.parent = v.parent
          /\ u.child = v.child /\ u.balance = v.balance /\ u.follower = v.follower
      BY <2>1, <2>2 DEF Tree
    <2> QED BY <1>7, <2>2, <2>3
  <1>9. Sound(u, {n}, C, W, {})
    <2>1. /\ n \in Pointer /\ NULL \in Pointer /\ n # NULL /\ Left \in Side /\ Right \in Side
      BY AvlAssumption, Sides DEF Pointer
    <2>2. C[n] = {n} /\ C[NULL] = {} /\ W[n] = 1 /\ W[NULL] = 0
      BY <2>1
    <2>3. C \in [Pointer -> SUBSET {n}] /\ W \in [Pointer -> Nat]
      OBVIOUS
    <2> HIDE DEF C, W
    <2>4. \A d \in Side : u.child[d][n] = NULL
      BY <1>1, <1>8
    <2>5. Shape(u, {n}, C)
      BY <1>1, <1>8, <2>1, <2>2, <2>3, <2>4 DEF Shape
    <2>6. Own(u, W, n) = 1
      BY <2>1, <2>2, <2>4 DEF Own, Larger
    <2>7. Leveled(u, {n}, W, {})
      BY <1>1, <1>8, <2>1, <2>2, <2>3, <2>4, <2>6 DEF Leveled
    <2> QED BY <1>8, <2>5, <2>7 DEF Sound
  <1> HIDE DEF C, W
  <1>10. Good(u, InsertAt(s, 1, n), C, W)
    <2>1. /\ 1 \in 1 .. Len(s) + 1 /\ u.count = c.count + 1 /\ ~u.follower[n]
          /\ \A i \in 1 .. Len(s) : FALSE
          /\ \A i \in 1 .. 1 - 1 : FALSE
          /\ ~(1 <= Len(s)) /\ ~(1 > 1)
      BY <1>1, <1>3, <1>5, <1>8
    <2>2. Sound(u, IF u.follower[n] THEN Stems(c, s) ELSE Stems(c, s) \cup {n}, C, W, {})
      BY <1>4, <1>9, <2>1
    <2>3. u.link = AddBetween(c, Elem(s, 1 - 1), Elem(s, 1), n).link
      BY <1>8 DEF a
    <2> QED BY <1>3, <1>8, <2>1, <2>2, <2>3, InsertGood
  <1>11. Ordered!Place(s, n) = 1
    <2>1. 0 \in 0 .. Len(s) /\ 0 + 1 = 1
      BY <1>5
    <2>2. \A i \in 1 .. 0 : FALSE
      OBVIOUS
    <2>3. \A i \in 0 + 1 .. Len(s) : FALSE
      BY <1>5
    <2> QED BY <1>3, <1>5, <2>1, <2>2, <2>3, PlaceIs
  <1> QED BY <1>5, <1>10, <1>11 DEF u

(* An element with the key of one that is there follows it; when duplicates *)
(* are not allowed it stays out.                                            *)
LEMMA InsertFollower ==
    ASSUME NEW t, NEW s, NEW B, NEW V, Good(t, s, B, V), NEW n \in Node, Fresh(s, n), t.root # NULL,
           Comp(KeyOf[n], KeyOf[FindRec(Cleared(t, n), KeyOf[n])]) = 0
    PROVE  /\ ~AllowDups => Good(Inserted(t, n), s, B, V)
           /\ AllowDups => \E C, W : Good(Inserted(t, n), InsertAt(s, Ordered!Place(s, n), n), C, W)
  <1> DEFINE c    == Cleared(t, n)
             node == FindRec(c, KeyOf[n])
             u    == Inserted(t, n)
  <1>1. Good(c, s, B, V) /\ c.root = t.root
    BY ClearedGood
  <1>2. /\ ~AllowDups => u = c
        /\ AllowDups => u = [AddAfter(c, node, n) EXCEPT !.follower[n] = TRUE, !.count = @ + 1]
    BY DEF Inserted
  <1> HIDE DEF u
  <1>3. Comp(KeyOf[n], KeyOf[node]) = 0
    OBVIOUS
  <1> HIDE DEF c
  <1>4. /\ c \in Tree /\ c.count = Len(s) /\ s \in Seq(Node) /\ Chained(c, s) /\ Sorted(c, s)
        /\ Sound(c, Stems(c, s), B, V, {}) /\ Shape(c, Stems(c, s), B) /\ Len(s) \in Nat
    BY <1>1 DEF Good, Chained, Sound
  <1>5. node \in Stems(c, s)
    BY <1>1, <1>4, FindRecFacts, NodeKeys DEF Found
  <1> HIDE DEF node
  <1>6. PICK i \in 1 .. Len(s) : node = s[i] /\ Stem(c, s, i)
    BY <1>5 DEF Stems
  <1> SUFFICES ASSUME AllowDups
               PROVE  \E C, W : Good(u, InsertAt(s, Ordered!Place(s, n), n), C, W)
    BY <1>1, <1>2 DEF u
  <1> DEFINE a == AddBetween(c, Elem(s, (i + 1) - 1), Elem(s, i + 1), n)
  <1>7. i \in Nat /\ i \in 0 .. Len(s) /\ i + 1 \in 1 .. Len(s) + 1 /\ (i + 1) - 1 = i /\ i + 1 > 1
    BY <1>4
  <1>8. a = AddAfter(c, node, n)
    <2>1. Elem(s, i) = node
      BY <1>6 DEF Elem
    <2> QED BY <1>4, <1>7, <2>1, AddPlaces
  <1>9. /\ a \in Tree /\ a.root = c.root /\ a.count = c.count /\ a.parent = c.parent
        /\ a.child = c.child /\ a.balance = c.balance /\ a.follower = c.follower
    BY <1>4, <1>7, LinkedIn
  <1> HIDE DEF a
  <1>10. /\ u \in Tree /\ u.root = c.root /\ u.count = c.count + 1 /\ u.parent = c.parent
         /\ u.child = c.child /\ u.balance = c.balance /\ u.link = a.link
         /\ u.follower = [c.follower EXCEPT ![n] = TRUE]
    <2> DEFINE f == [a.follower EXCEPT ![n] = TRUE]
               v == [a EXCEPT !.follower = f]
    <2>1. u = [v EXCEPT !.count = v.count + 1]
      BY <1>2, <1>8
    <2>2. f \in [Node -> BOOLEAN]
      BY <1>9 DEF Tree
    <2> HIDE DEF f
    <2>3. /\ v \in Tree /\ v.link = a.link /\ v.root = a.root /\ v.parent = a.parent
          /\ v.child = a.child /\ v.balance = a.balance /\ v.follower = f /\ v.count = a.count
      BY <1>9, <2>2 DEF Tree
    <2> HIDE DEF v
    <2> DEFINE k == v.count + 1
    <2>4. k \in Int
      BY <2>3 DEF Tree
    <2> HIDE DEF k
    <2>5. /\ u \in Tree /\ u.link = v.link /\ u.root = v.root /\ u.count = k
          /\ u.parent = v.parent /\ u.child = v.child /\ u.balance = v.balance /\ u.follower = v.follower
      <3>1. u = [v EXCEPT !.count = k]
        BY <2>1 DEF k
      <3> QED BY <2>3, <2>4, <3>1 DEF Tree
    <2> QED BY <1>9, <2>3, <2>5 DEF f, k
  <1>11. u.follower[n] /\ \A k \in 1 .. Len(s) : s[k] \in Node /\ u.follower[s[k]] = c.follower[s[k]]
    <2>1. \A k \in 1 .. Len(s) : s[k] \in Node /\ s[k] # n
      BY <1>4 DEF Fresh
    <2>2. c.follower \in [Node -> BOOLEAN]
      BY <1>4 DEF Tree
    <2> QED BY <1>10, <2>1, <2>2
  <1>12. \A k \in 1 .. Len(s) : KeyOf[s[k]] \in Key /\ KeyOf[n] \in Key
    BY <1>11, NodeKeys
  <1>13. Comp(KeyOf[n], KeyOf[s[i]]) = 0 /\ Comp(KeyOf[s[i]], KeyOf[n]) = 0
    BY <1>3, <1>6, <1>12, KeySides
  <1>14. ASSUME NEW k \in 1 .. i PROVE Comp(KeyOf[s[k]], KeyOf[n]) <= 0
    <2>1. k \in 1 .. Len(s) /\ k <= i
      BY <1>7
    <2>2. Comp(KeyOf[s[k]], KeyOf[s[i]]) <= 0 /\ Comp(KeyOf[s[i]], KeyOf[n]) <= 0
      BY <1>4, <1>13, <2>1 DEF Sorted
    <2> QED BY <1>12, <2>1, <2>2, CompAssumption
  <1>15. ASSUME NEW k \in i + 1 .. Len(s) PROVE Comp(KeyOf[n], KeyOf[s[k]]) <= 0
    <2>1. k \in 1 .. Len(s) /\ i <= k
      BY <1>7
    <2>2. Comp(KeyOf[s[i]], KeyOf[s[k]]) <= 0 /\ Comp(KeyOf[n], KeyOf[s[i]]) <= 0
      BY <1>4, <1>13, <2>1 DEF Sorted
    <2> QED BY <1>12, <2>1, <2>2, CompAssumption
  <1>16. ASSUME i + 1 <= Len(s) PROVE c.follower[s[i + 1]] <=> Comp(KeyOf[n], KeyOf[s[i + 1]]) = 0
    <2>1. i + 1 \in 1 .. Len(s)
      BY <1>7, <1>16
    <2>2. c.follower[s[i + 1]] <=> Comp(KeyOf[s[i]], KeyOf[s[i + 1]]) = 0
      BY <1>4, <1>7, <2>1 DEF Sorted
    <2> QED BY <1>12, <1>13, <2>1, <2>2, KeyOrder, Sides
  <1>17. Sound(u, Stems(c, s), B, V, {})
    BY <1>4, <1>10, Reframed
  <1>18. Good(u, InsertAt(s, i + 1, n), B, V)
    <2>1. u.link = AddBetween(c, Elem(s, (i + 1) - 1), Elem(s, i + 1), n).link
      BY <1>10 DEF a
    <2>2. /\ Sound(u, IF u.follower[n] THEN Stems(c, s) ELSE Stems(c, s) \cup {n}, B, V, {})
          /\ u.follower[n] <=> i + 1 > 1 /\ Comp(KeyOf[s[(i + 1) - 1]], KeyOf[n]) = 0
          /\ \A k \in 1 .. (i + 1) - 1 : Comp(KeyOf[s[k]], KeyOf[n]) <= 0
      BY <1>7, <1>11, <1>13, <1>14, <1>17
    <2> QED BY <1>4, <1>7, <1>10, <1>11, <1>15, <1>16, <2>1, <2>2, InsertGood
  <1>19. Ordered!Place(s, n) = i + 1
    <2>1. ASSUME NEW k \in 1 .. i - 1 PROVE Comp(KeyOf[s[k]], KeyOf[n]) < 0
      <3>1. k \in 1 .. Len(s) /\ k < i
        BY <1>7
      <3>2. Comp(KeyOf[s[k]], KeyOf[s[i]]) < 0
        BY <1>4, <1>6, <3>1, StemAfter
      <3>3. Beyond(Left, KeyOf[s[k]], KeyOf[s[i]])
        BY <1>12, <3>1, <3>2, KeySides
      <3>4. Beyond(Right, KeyOf[s[i]], KeyOf[s[k]])
        BY <1>12, <3>1, <3>3, KeySides, Sides
      <3>5. Beyond(Right, KeyOf[n], KeyOf[s[k]])
        BY <1>12, <1>13, <3>1, <3>4, KeyOrder, Sides
      <3>6. Beyond(Left, KeyOf[s[k]], KeyOf[n])
        BY <1>12, <3>1, <3>5, KeySides, Sides
      <3> QED BY <1>12, <3>1, <3>6, KeySides
    <2>2. ASSUME NEW k \in (i - 1) + 1 .. Len(s) PROVE Comp(KeyOf[n], KeyOf[s[k]]) <= 0
      <3>1. k = i \/ k \in i + 1 .. Len(s)
        BY <1>7
      <3> QED BY <1>13, <1>15, <3>1
    <2>3. i - 1 \in 0 .. Len(s) /\ (i - 1) + 2 = i + 1
      BY <1>7
    <2> QED BY <1>4, <1>13, <2>1, <2>2, <2>3, PlaceIs
  <1> QED BY <1>18, <1>19

(* A leaf and the fields of its parent that it changes.                     *)
Leafed(a, node, n, e) == [a EXCEPT !.count = @ + 1, !.parent[n] = node,
                                   !.child[e][node] = n, !.balance[node] = @ + e]

CanAttach(a, T, node, n, e) ==
    /\ a \in Tree /\ T \subseteq Node /\ node \in T /\ n \in Node \ T /\ e \in Side
    /\ a.balance[n] = 0 /\ \A d \in Side : a.child[d][n] = NULL

HasLeaf(u, a, T, node, n, e) ==
    /\ IsAttached(u, a, T, node, n, e) /\ u.link = a.link
    /\ u.count = a.count + 1 /\ u.follower = a.follower

LEMMA AttachFields ==
    ASSUME NEW a, NEW T, NEW node, NEW n, NEW e, CanAttach(a, T, node, n, e)
    PROVE  HasLeaf(Leafed(a, node, n, e), a, T, node, n, e)
  <1> DEFINE par == [a.parent EXCEPT ![n] = node]
             kid == [a.child EXCEPT ![e] = [@ EXCEPT ![node] = n]]
             bal == [a.balance EXCEPT ![node] = @ + e]
             cnt == a.count + 1
             v1  == [a EXCEPT !.count = cnt]
             v2  == [v1 EXCEPT !.parent = par]
             v3  == [v2 EXCEPT !.child = kid]
             u   == [v3 EXCEPT !.balance = bal]
             w   == Leafed(a, node, n, e)
  <1>0. /\ a \in Tree /\ T \subseteq Node /\ node \in T /\ n \in Node \ T /\ e \in Side
        /\ a.balance[n] = 0 /\ \A d \in Side : a.child[d][n] = NULL
    BY DEF CanAttach
  <1> USE <1>0
  <1>1. /\ n # node /\ -e \in Side /\ -e # e /\ e \in Int /\ n \in Node /\ n \notin T /\ node \in Node
        /\ a.parent \in [Node -> Pointer] /\ a.child \in [Side -> [Node -> Pointer]]
        /\ a.balance \in [Node -> Int] /\ a.count \in Int
    BY Sides DEF Tree
  <1>2. /\ par \in [Node -> Pointer] /\ par[n] = node
        /\ \A m \in T : par[m] = a.parent[m]
    BY <1>1 DEF Pointer
  <1>3. /\ kid \in [Side -> [Node -> Pointer]] /\ kid[e][node] = n /\ kid[-e][node] = a.child[-e][node]
        /\ \A m \in T \ {node}, d \in Side : kid[d][m] = a.child[d][m]
        /\ \A d \in Side : kid[d][n] = NULL
    <2> DEFINE f == [a.child[e] EXCEPT ![node] = n]
    <2>1. /\ f \in [Node -> Pointer] /\ f[node] = n
          /\ \A m \in Node \ {node} : f[m] = a.child[e][m]
      BY <1>1 DEF Pointer
    <2> HIDE DEF f
    <2>2. kid = [a.child EXCEPT ![e] = f]
      BY <1>1 DEF f
    <2> HIDE DEF kid
    <2>3. /\ kid \in [Side -> [Node -> Pointer]] /\ kid[e] = f
          /\ \A d \in Side \ {e} : kid[d] = a.child[d]
      BY <1>1, <2>1, <2>2
    <2>4. \A m \in Node \ {node}, d \in Side : kid[d][m] = a.child[d][m]
      <3> TAKE m \in Node \ {node}, d \in Side
      <3>1. CASE d = e
        BY <2>1, <2>3, <3>1
      <3>2. CASE d # e
        BY <2>3, <3>2
      <3> QED BY <3>1, <3>2
    <2> QED BY <1>1, <2>1, <2>3, <2>4
  <1>4. /\ bal \in [Node -> Int] /\ bal[node] = a.balance[node] + e /\ bal[n] = 0
        /\ \A m \in T \ {node} : bal[m] = a.balance[m]
    BY <1>1
  <1>5. w = u
    <2>1. v1.parent = a.parent /\ v2.child = a.child /\ v3.balance = a.balance
      BY <1>1 DEF Tree
    <2>2. w = [[[[a EXCEPT !.count = a.count + 1] EXCEPT !.parent = [v1.parent EXCEPT ![n] = node]]
                  EXCEPT !.child = [v2.child EXCEPT ![e] = [v2.child[e] EXCEPT ![node] = n]]]
                  EXCEPT !.balance = [v3.balance EXCEPT ![node] = v3.balance[node] + e]]
      BY DEF Leafed
    <2> QED BY <2>1, <2>2
  <1> HIDE DEF par, kid, bal, w
  <1>6. cnt \in Int
    BY <1>1
  <1> HIDE DEF cnt
  <1>7. /\ u \in Tree /\ u.root = a.root /\ u.link = a.link /\ u.follower = a.follower
        /\ u.count = cnt /\ u.parent = par /\ u.child = kid /\ u.balance = bal
    BY <1>2, <1>3, <1>4, <1>6 DEF Tree
  <1> HIDE DEF u
  <1>8. IsAttached(u, a, T, node, n, e)
    BY <1>2, <1>3, <1>4, <1>7 DEF IsAttached
  <1> QED BY <1>5, <1>7, <1>8 DEF w, cnt, HasLeaf

(* A new key becomes a leaf, and the tree is balanced again.                *)
LEMMA InsertLeaf ==
    ASSUME NEW t, NEW s, NEW B, NEW V, Good(t, s, B, V), NEW n \in Node, Fresh(s, n), t.root # NULL,
           Comp(KeyOf[n], KeyOf[FindRec(Cleared(t, n), KeyOf[n])]) # 0
    PROVE  /\ \A i \in 1 .. Len(s) : Comp(KeyOf[s[i]], KeyOf[n]) # 0
           /\ \E C, W : Good(Inserted(t, n), InsertAt(s, Ordered!Place(s, n), n), C, W)
  <1> DEFINE c    == Cleared(t, n)
             node == FindRec(c, KeyOf[n])
             diff == Comp(KeyOf[n], KeyOf[node])
             u    == Inserted(t, n)
             T    == Stems(c, s)
  <1>1. /\ Good(c, s, B, V) /\ c.root = t.root /\ c.balance[n] = 0 /\ ~c.follower[n]
        /\ \A d \in Side : c.child[d][n] = NULL
    BY ClearedGood
  <1>2. u = Attach(c, node, n, diff) /\ diff # 0
    BY DEF Inserted
  <1> HIDE DEF u, c
  <1>3. /\ c \in Tree /\ c.count = Len(s) /\ s \in Seq(Node) /\ Chained(c, s) /\ Sorted(c, s)
        /\ Sound(c, T, B, V, {}) /\ Shape(c, T, B) /\ T \subseteq Node /\ Len(s) \in Nat
    BY <1>1 DEF Good, Chained, Sound, Shape
  <1>4. Found(c, T, KeyOf[n], node)
    BY <1>1, <1>3, FindRecFacts, NodeKeys
  <1>5. n \notin T
    BY DEF Stems, Fresh
  <1> HIDE DEF node
  <1>6. PICK i \in 1 .. Len(s) : node = s[i] /\ Stem(c, s, i)
    BY <1>4 DEF Stems, Found
  <1>7. PICK e \in Side : Beyond(e, KeyOf[n], KeyOf[node]) /\ c.child[e][node] = NULL
    BY <1>2, <1>4 DEF Found
  <1>8. /\ node \in T /\ node \in Node /\ KeyOf[n] \in Key /\ KeyOf[node] \in Key
        /\ e = IF diff < 0 THEN Left ELSE Right
    <2>1. node \in T /\ node \in Node /\ KeyOf[n] \in Key /\ KeyOf[node] \in Key
      BY <1>3, <1>4, NodeKeys DEF Found
    <2>2. diff < 0 <=> Beyond(Left, KeyOf[n], KeyOf[node])
      BY <2>1, KeySides
    <2>3. diff < 0 => e = Left
      BY <1>7, <2>1, <2>2, KeySides, Sides
    <2>4. e = Left => diff < 0
      BY <1>7, <2>2
    <2> QED BY <2>1, <2>3, <2>4, Sides
  <1> HIDE DEF diff
  <1>9. Lies(e, n, node) /\ Near(T, KeyOf[n], node) /\ StandsIn(T, node, n)
    BY <1>4, <1>7 DEF Lies, Found, Near, StandsIn
  <1>10. PICK j \in i .. Len(s) :
            /\ FindLast(c, s[i]) = s[j] /\ Comp(KeyOf[s[i]], KeyOf[s[j]]) = 0
            /\ j = Len(s) \/ ~c.follower[s[j + 1]]
    BY <1>3, FindLastFacts
  <1> DEFINE p == IF e = Left THEN i ELSE j + 1
             a == AddBetween(c, Elem(s, p - 1), Elem(s, p), n)
             x == Leafed(a, node, n, e)
  <1>11. /\ p \in 1 .. Len(s) + 1
         /\ \A k \in 1 .. p - 1 : Comp(KeyOf[s[k]], KeyOf[n]) < 0
         /\ \A k \in p .. Len(s) : Comp(KeyOf[n], KeyOf[s[k]]) < 0
    BY <1>3, <1>6, <1>9, <1>10, KeyParts
  <1>12. a = IF e = Left THEN AddBefore(c, node, n) ELSE AddAfter(c, FindLast(c, node), n)
    <2>1. /\ i \in 0 .. Len(s) /\ i # 0 /\ j \in 0 .. Len(s) /\ Elem(s, i) = node
          /\ Elem(s, j) = FindLast(c, node)
      BY <1>3, <1>6, <1>10 DEF Elem
    <2>2. /\ AddBefore(c, node, n) = AddBetween(c, Elem(s, i - 1), Elem(s, i), n)
          /\ AddAfter(c, FindLast(c, node), n) = AddBetween(c, Elem(s, (j + 1) - 1), Elem(s, j + 1), n)
      BY <1>3, <2>1, AddPlaces
    <2> QED BY <2>2
  <1>13. /\ a \in Tree /\ a.root = c.root /\ a.count = c.count /\ a.parent = c.parent
         /\ a.child = c.child /\ a.balance = c.balance /\ a.follower = c.follower
    BY <1>3, <1>11, LinkedIn
  <1> HIDE DEF p, a, T
  <1>14. /\ IsAttached(x, c, T, node, n, e) /\ x.link = a.link /\ x.count = c.count + 1
         /\ x.follower = c.follower
    <2>1. a.balance[n] = 0 /\ \A d \in Side : a.child[d][n] = NULL
      BY <1>1, <1>13
    <2>2. /\ IsAttached(x, a, T, node, n, e) /\ x.link = a.link
          /\ x.count = a.count + 1 /\ x.follower = a.follower
      <3>1. CanAttach(a, T, node, n, e)
        BY <1>3, <1>5, <1>8, <1>13, <2>1 DEF CanAttach
      <3> HIDE DEF x
      <3>2. HasLeaf(Leafed(a, node, n, e), a, T, node, n, e)
        BY <3>1, AttachFields, Zenon
      <3> QED BY <3>2 DEF x, HasLeaf
    <2> HIDE DEF x
    <2> QED BY <1>13, <2>2 DEF IsAttached
  <1> HIDE DEF x
  <1>15. /\ c.balance[node] # 0 => /\ c.balance[node] = -e
                                   /\ \E C, W : Sound(x, T \cup {n}, C, W, {})
         /\ c.balance[node] = 0 => \E C, W : Grown(x, T \cup {n}, C, W, node)
    <2>1. Attaches(x, c, T, B, V, node, n, e)
      BY <1>3, <1>5, <1>7, <1>8, <1>9, <1>14 DEF Attaches
    <2> QED BY <2>1, AttachLevels, Zenon
  <1>16. u = IF c.balance[node] # 0 THEN x ELSE PostInsert(x, node)
    <2>1. e = IF c.balance[node] # 0 THEN -c.balance[node] ELSE IF diff < 0 THEN Left ELSE Right
      BY <1>8, <1>15, Sides
    <2> QED BY <1>2, <1>12, <2>1 DEF Attach, Leafed, x
  <1>17. Alike(u, x) /\ \E C, W : Sound(u, T \cup {n}, C, W, {})
    <2>1. CASE c.balance[node] # 0
      BY <1>15, <1>16, <2>1 DEF Alike
    <2>2. CASE c.balance[node] = 0
      BY <1>15, <1>16, <2>2, InsertLoop
    <2> QED BY <2>1, <2>2
  <1>18. PICK C, W : Sound(u, T \cup {n}, C, W, {})
    BY <1>17
  <1>19. \A k \in 1 .. Len(s) : s[k] \in Node /\ KeyOf[s[k]] \in Key /\ KeyOf[n] \in Key
    BY <1>3, NodeKeys
  <1>20. ASSUME NEW k \in 1 .. Len(s)
         PROVE  Comp(KeyOf[s[k]], KeyOf[n]) # 0 /\ Comp(KeyOf[n], KeyOf[s[k]]) # 0
    <2>1. k \in 1 .. p - 1 \/ k \in p .. Len(s)
      BY <1>3, <1>11
    <2>2. Comp(KeyOf[s[k]], KeyOf[n]) # 0 \/ Comp(KeyOf[n], KeyOf[s[k]]) # 0
      BY <1>11, <2>1
    <2> QED BY <1>19, <2>2, KeySides
  <1>21. p \in Nat /\ 1 <= p /\ p <= Len(s) + 1
    BY <1>3, <1>11
  <1>22. Good(u, InsertAt(s, p, n), C, W)
    <2>1. u \in Tree /\ u.link = a.link /\ u.count = c.count + 1 /\ u.follower = c.follower
      BY <1>14, <1>17, <1>18 DEF Alike, Sound
    <2>2. p > 1 => p - 1 \in 1 .. Len(s)
      BY <1>3, <1>21
    <2>3. ~u.follower[n] /\ ~(p > 1 /\ Comp(KeyOf[s[p - 1]], KeyOf[n]) = 0)
      BY <1>1, <1>20, <2>1, <2>2
    <2>4. \A k \in 1 .. p - 1 : Comp(KeyOf[s[k]], KeyOf[n]) <= 0
      <3> TAKE k \in 1 .. p - 1
      <3>1. k \in 1 .. Len(s) /\ Comp(KeyOf[s[k]], KeyOf[n]) < 0
        BY <1>3, <1>11, <1>21
      <3>2. Comp(KeyOf[s[k]], KeyOf[n]) \in Int
        BY <1>19, <3>1, CompAssumption
      <3> QED BY <3>1, <3>2
    <2>5. \A k \in p .. Len(s) : Comp(KeyOf[n], KeyOf[s[k]]) <= 0
      <3> TAKE k \in p .. Len(s)
      <3>1. k \in 1 .. Len(s) /\ Comp(KeyOf[n], KeyOf[s[k]]) < 0
        BY <1>3, <1>11, <1>21
      <3>2. Comp(KeyOf[n], KeyOf[s[k]]) \in Int
        BY <1>19, <3>1, CompAssumption
      <3> QED BY <3>1, <3>2
    <2>6. ASSUME p <= Len(s) PROVE c.follower[s[p]] <=> Comp(KeyOf[n], KeyOf[s[p]]) = 0
      <3>1. p \in 1 .. Len(s) /\ p \in p .. Len(s)
        BY <1>3, <1>21, <2>6
      <3>2. ~(Comp(KeyOf[n], KeyOf[s[p]]) = 0)
        BY <1>20, <3>1
      <3>3. ASSUME c.follower[s[p]] PROVE FALSE
        <4>1. p > 1 /\ Comp(KeyOf[s[p - 1]], KeyOf[s[p]]) = 0
          BY <1>3, <3>1, <3>3 DEF Sorted
        <4>2. p - 1 \in 1 .. p - 1 /\ p - 1 \in 1 .. Len(s)
          BY <1>3, <1>21, <4>1
        <4>3. /\ Comp(KeyOf[s[p - 1]], KeyOf[n]) < 0 /\ Comp(KeyOf[n], KeyOf[s[p]]) < 0
          BY <1>11, <3>1, <4>2
        <4>4. Comp(KeyOf[s[p - 1]], KeyOf[n]) <= 0 /\ Comp(KeyOf[n], KeyOf[s[p]]) <= 0
          BY <2>4, <2>5, <3>1, <4>2
        <4>5. Comp(KeyOf[s[p - 1]], KeyOf[n]) = 0
          BY <1>19, <3>1, <4>1, <4>2, <4>4, Between
        <4> QED BY <1>20, <4>2, <4>5
      <3> QED BY <3>2, <3>3
    <2>7. u.link = AddBetween(c, Elem(s, p - 1), Elem(s, p), n).link
      BY <2>1 DEF a
    <2>8. Sound(u, IF u.follower[n] THEN Stems(c, s) ELSE Stems(c, s) \cup {n}, C, W, {})
      BY <1>18, <2>3 DEF T
    <2>9. \A k \in 1 .. Len(s) : u.follower[s[k]] = c.follower[s[k]]
      BY <2>1
    <2> QED BY <1>3, <1>11, <2>1, <2>3, <2>4, <2>5, <2>6, <2>7, <2>8, <2>9, InsertGood
  <1>23. Ordered!Place(s, n) = p
    <2>1. p - 1 \in 0 .. Len(s) /\ (p - 1) + 1 = p
      BY <1>3, <1>21
    <2>2. \A k \in (p - 1) + 1 .. Len(s) : Comp(KeyOf[n], KeyOf[s[k]]) <= 0
      <3> TAKE k \in (p - 1) + 1 .. Len(s)
      <3>1. k \in p .. Len(s) /\ k \in 1 .. Len(s)
        BY <1>3, <1>21
      <3>2. Comp(KeyOf[n], KeyOf[s[k]]) < 0 /\ Comp(KeyOf[n], KeyOf[s[k]]) \in Int
        BY <1>11, <1>19, <3>1, CompAssumption
      <3> QED BY <3>2
    <2>3. ~(\E k \in 1 .. Len(s) : Comp(KeyOf[s[k]], KeyOf[n]) = 0)
      BY <1>20
    <2> QED BY <1>3, <1>11, <2>1, <2>2, <2>3, PlaceIs
  <1> QED BY <1>20, <1>22, <1>23 DEF u

(* The p-th element is about to go: in k its follower no longer follows.    *)
Orphans(k, t, s, p) ==
    /\ \A i \in 1 .. Len(s) : i # p /\ i # p + 1 => k.follower[s[i]] = t.follower[s[i]]
    /\ p + 1 \in 1 .. Len(s) =>
          (k.follower[s[p + 1]] <=> t.follower[s[p]] /\ t.follower[s[p + 1]])

(* The nodes that are in the tree without it.                               *)
Remaining(k, t, s, p) ==
    (Stems(t, s) \ {s[p]}) \cup
    (IF p + 1 \in 1 .. Len(s) /\ ~k.follower[s[p + 1]] THEN {s[p + 1]} ELSE {})

(* Taken off the list and cleared, a node that has left the tree, with what *)
(* follows it in its place if its key stays, is gone.                       *)
LEMMA RemoveGood ==
    ASSUME NEW t, NEW s, NEW B, NEW V, Good(t, s, B, V), NEW p \in 1 .. Len(s), NEW k \in Tree,
           k.link = t.link, k.count = t.count, Orphans(k, t, s, p),
           NEW C, NEW W, Sound(k, Remaining(k, t, s, p), C, W, {})
    PROVE  Good([Cleared(ListRemove(k, s[p]), s[p]) EXCEPT !.count = @ - 1], RemoveAt(s, p), C, W)
  <1> DEFINE n == s[p]
             l == ListRemove(k, n)
             q == Cleared(l, n)
             u == [q EXCEPT !.count = @ - 1]
             r == RemoveAt(s, p)
             T == Remaining(k, t, s, p)
  <1>1. /\ s \in Seq(Node) /\ Len(s) \in Nat /\ t.count = Len(s) /\ Sorted(t, s) /\ n \in Node
        /\ \A i, j \in 1 .. Len(s) : s[i] = s[j] => i = j
    BY DEF Good, Chained
  <1>2. Chained(k, s)
    BY StaysChained DEF Good
  <1>3. IsUnlinked(l, k, s, p)
    BY <1>2, RemoveChained
  <1> HIDE DEF l
  <1>4. /\ l \in Tree /\ l.root = k.root /\ l.parent = k.parent /\ l.child = k.child
        /\ l.balance = k.balance /\ l.follower = k.follower /\ l.count = k.count
        /\ Chained(l, r)
    BY <1>3 DEF IsUnlinked
  <1>5. Sorted(k, r) /\ Stems(k, r) = T
    <2> HIDE DEF T
    <2>1. /\ \A i \in 1 .. Len(s) : i # p /\ i # p + 1 => k.follower[s[i]] = t.follower[s[i]]
          /\ p + 1 \in 1 .. Len(s) =>
               (k.follower[s[p + 1]] <=> t.follower[s[p]] /\ t.follower[s[p + 1]])
      BY DEF Orphans
    <2>2. /\ Sorted(k, RemoveAt(s, p))
          /\ Stems(k, RemoveAt(s, p)) =
               (Stems(t, s) \ {s[p]}) \cup
               (IF p + 1 \in 1 .. Len(s) /\ ~k.follower[s[p + 1]] THEN {s[p + 1]} ELSE {})
      BY <1>1, <2>1, SortedRemove
    <2> QED BY <2>2, Zenon DEF T, Remaining, n
  <1>6. /\ q \in Tree /\ q.root = l.root /\ q.link = l.link /\ q.count = l.count
        /\ q.parent = [l.parent EXCEPT ![n] = NULL] /\ q.balance = [l.balance EXCEPT ![n] = 0]
        /\ q.follower = [l.follower EXCEPT ![n] = FALSE]
        /\ \A d \in Side : q.child[d] = [l.child[d] EXCEPT ![n] = NULL]
    BY <1>1, <1>4, ClearedFields
  <1> HIDE DEF q
  <1>7. /\ u \in Tree /\ u.root = q.root /\ u.link = q.link /\ u.count = q.count - 1
        /\ u.parent = q.parent /\ u.balance = q.balance /\ u.follower = q.follower /\ u.child = q.child
    <2> DEFINE cnt == q.count - 1
    <2>1. cnt \in Int
      BY <1>6 DEF Tree
    <2>2. u = [q EXCEPT !.count = cnt]
      OBVIOUS
    <2> HIDE DEF cnt, u
    <2>3. /\ u \in Tree /\ u.root = q.root /\ u.link = q.link /\ u.count = cnt
          /\ u.parent = q.parent /\ u.balance = q.balance /\ u.follower = q.follower /\ u.child = q.child
      BY <1>6, <2>1, <2>2 DEF Tree
    <2> QED BY <2>3 DEF cnt
  <1> HIDE DEF u
  <1>8. r \in Seq(Node) /\ Len(r) = Len(s) - 1 /\ \A i \in 1 .. Len(r) : r[i] \in Node /\ r[i] # n
    <2>1. /\ r \in Seq(Node) /\ Len(r) = Len(s) - 1
          /\ \A j \in 1 .. Len(s) - 1 : r[j] = IF j < p THEN s[j] ELSE s[j + 1]
      BY <1>1, RemoveElements
    <2> HIDE DEF r
    <2> SUFFICES ASSUME NEW i \in 1 .. Len(r) PROVE r[i] \in Node /\ r[i] # n
      BY <2>1
    <2>2. PICK j \in 1 .. Len(s) : r[i] = s[j] /\ j # p
      BY <1>1, <2>1
    <2> QED BY <1>1, <2>2
  <1> HIDE DEF r, n, T
  <1>9. Chained(u, r)
    BY <1>4, <1>6, <1>7, StaysChained
  <1>10. /\ l.child \in [Side -> [Node -> Pointer]] /\ l.parent \in [Node -> Pointer]
         /\ l.balance \in [Node -> Int] /\ l.follower \in [Node -> BOOLEAN]
    BY <1>4 DEF Tree
  <1>11. Sorted(u, r) /\ Stems(u, r) = T
    <2>1. \A i \in 1 .. Len(r) : u.follower[r[i]] = k.follower[r[i]]
      <3> TAKE i \in 1 .. Len(r)
      <3>1. r[i] \in Node /\ r[i] # n
        BY <1>8
      <3>2. u.follower = [l.follower EXCEPT ![n] = FALSE] /\ l.follower \in [Node -> BOOLEAN]
        BY <1>6, <1>7, <1>10
      <3> QED BY <1>4, <3>1, <3>2
    <2> QED BY <1>5, <1>8, <2>1, StaysSorted
  <1>12. Sound(u, T, C, W, {})
    <2>1. \A m \in T : m \in Node /\ m # n
      BY <1>8, <1>11 DEF Stems, Stem
    <2>2. ASSUME NEW m \in T
          PROVE  /\ u.parent[m] = k.parent[m] /\ u.balance[m] = k.balance[m]
                 /\ \A d \in Side : u.child[d][m] = k.child[d][m]
      <3>1. m \in Node /\ m # n
        BY <2>1
      <3>2. u.parent[m] = k.parent[m] /\ u.balance[m] = k.balance[m]
        BY <1>4, <1>6, <1>7, <1>10, <3>1
      <3>3. ASSUME NEW d \in Side PROVE u.child[d][m] = k.child[d][m]
        <4>1. l.child[d] \in [Node -> Pointer] /\ u.child[d] = [l.child[d] EXCEPT ![n] = NULL]
          BY <1>6, <1>7, <1>10
        <4> QED BY <1>4, <3>1, <4>1
      <3> QED BY <3>2, <3>3
    <2>3. Sound(k, T, C, W, {})
      BY DEF T
    <2>4. u \in Tree /\ u.root = k.root
      BY <1>4, <1>6, <1>7
    <2> QED BY <2>2, <2>3, <2>4, Reframed
  <1>13. Good(u, r, C, W)
    BY <1>1, <1>4, <1>6, <1>7, <1>8, <1>9, <1>11, <1>12 DEF Good
  <1> QED BY <1>13 DEF u, r, q, l, n

(* A removed element leaves the others where they are: its first follower,  *)
(* if it has one, takes its place in the tree.                              *)
LEMMA RemovedGood ==
    ASSUME NEW t, NEW s, NEW B, NEW V, Good(t, s, B, V), NEW p \in 1 .. Len(s)
    PROVE  \E C, W : Good(Removed(t, s[p]), RemoveAt(s, p), C, W)
  <1> DEFINE n    == s[p]
             next == t.link[Right][n]
             f    == [t EXCEPT !.follower[next] = FALSE]
             k    == CASE t.follower[n] -> t
                       [] ~t.follower[n] /\ AllowDups /\ next # HEAD /\ t.follower[next] ->
                            Replace(f, n, next)
                       [] OTHER -> RemoveWorker(t, n)
             T    == Stems(t, s)
  <1>1. Removed(t, n) = [Cleared(ListRemove(k, n), n) EXCEPT !.count = @ - 1]
    BY Zenon DEF Removed
  <1>2. /\ t \in Tree /\ t.count = Len(s) /\ s \in Seq(Node) /\ Chained(t, s) /\ Sorted(t, s)
        /\ Sound(t, T, B, V, {}) /\ Shape(t, T, B) /\ T \subseteq Node /\ Len(s) \in Nat
        /\ \A i, j \in 1 .. Len(s) : s[i] = s[j] => i = j
        /\ \A i \in 1 .. Len(s) : s[i] \in Node
        /\ t.follower \in [Node -> BOOLEAN]
    <2>1. /\ t \in Tree /\ t.count = Len(s) /\ s \in Seq(Node) /\ Chained(t, s) /\ Sorted(t, s)
          /\ Sound(t, T, B, V, {})
          /\ \A i, j \in 1 .. Len(s) : s[i] = s[j] => i = j
      BY DEF Good, Chained
    <2>2. Shape(t, T, B)
      BY <2>1 DEF Sound
    <2>3. T \subseteq Node
      BY DEF Stems
    <2>4. Len(s) \in Nat /\ \A i \in 1 .. Len(s) : s[i] \in Node
      BY <2>1
    <2>5. t.follower \in [Node -> BOOLEAN]
      BY <2>1 DEF Tree
    <2> QED BY <2>1, <2>2, <2>3, <2>4, <2>5
  <1>3. /\ p \in Nat /\ n \in Node /\ p + 1 # p
        /\ p + 1 \in 1 .. Len(s) <=> next # HEAD
        /\ p + 1 \in 1 .. Len(s) => next = s[p + 1]
    <2>1. IsLast(t, s[p], Right) <=> p = Len(s)
      BY <1>2, Neighbours
    <2>2. p # Len(s) => p + 1 \in 1 .. Len(s) /\ t.link[Right][s[p]] = s[p + 1]
      BY <1>2, Neighbours
    <2>3. p = Len(s) => ~(p + 1 \in 1 .. Len(s))
      BY <1>2
    <2> QED BY <1>2, <2>1, <2>2, <2>3 DEF IsLast
  <1> HIDE DEF n, next
  <1>4. \A i \in 1 .. Len(s) : s[i] \in T <=> ~t.follower[s[i]]
    BY <1>2 DEF Stems, Stem
  <1> HIDE DEF T
  <1>5. CASE t.follower[n]
    <2>1. k = t
      BY <1>5
    <2> HIDE DEF k
    <2>2. Orphans(k, t, s, p)
      BY <1>5, <2>1 DEF Orphans, n
    <2>3. Remaining(k, t, s, p) = T
      BY <1>3, <1>4, <1>5, <2>1 DEF Remaining, T, n
    <2>4. Good([Cleared(ListRemove(k, n), n) EXCEPT !.count = @ - 1], RemoveAt(s, p), B, V)
      BY <1>2, <2>1, <2>2, <2>3, RemoveGood DEF n
    <2> QED BY <1>1, <2>4 DEF n
  <1>6. CASE ~t.follower[n] /\ AllowDups /\ next # HEAD /\ t.follower[next]
    <2>1. k = Replace(f, n, next)
      BY <1>6
    <2>2. p + 1 \in 1 .. Len(s) /\ next = s[p + 1] /\ n = s[p] /\ next \in Node /\ next # n
      BY <1>2, <1>3, <1>6 DEF n
    <2>3. /\ f \in Tree /\ f.root = t.root /\ f.link = t.link /\ f.count = t.count /\ f.parent = t.parent
          /\ f.child = t.child /\ f.balance = t.balance
          /\ f.follower = [t.follower EXCEPT ![next] = FALSE]
      BY <1>2 DEF Tree
    <2> HIDE DEF f, k
    <2>4. Sound(f, T, B, V, {})
      BY <1>2, <2>3, Reframed
    <2>5. Comp(KeyOf[n], KeyOf[next]) = 0
      <3>1. (p + 1) - 1 = p
        BY <1>3
      <3> QED BY <1>2, <1>6, <2>2, <3>1 DEF Sorted
    <2>6. StandsIn(T, n, next)
      BY <1>2, <1>3, <2>2, <2>5, EqualStandsIn
    <2>7. n \in T /\ next \in Node \ T
      BY <1>4, <1>6, <2>2
    <2>8. Alike(k, f) /\ \E C, W : Sound(k, (T \ {n}) \cup {next}, C, W, {})
      BY <2>1, <2>4, <2>6, <2>7, ReplaceSound
    <2>9. PICK C, W : Sound(k, (T \ {n}) \cup {next}, C, W, {})
      BY <2>8
    <2>10. k \in Tree /\ k.link = t.link /\ k.count = t.count /\ ~k.follower[next]
           /\ \A m \in Node \ {next} : k.follower[m] = t.follower[m]
      <3>1. k \in Tree /\ k.link = t.link /\ k.count = t.count
        BY <2>3, <2>8, <2>9 DEF Alike, Sound
      <3>2. k.follower = [t.follower EXCEPT ![next] = FALSE]
        BY <2>3, <2>8 DEF Alike
      <3> QED BY <1>2, <2>2, <3>1, <3>2
    <2>11. Orphans(k, t, s, p)
      <3>1. ASSUME NEW i \in 1 .. Len(s), i # p + 1 PROVE k.follower[s[i]] = t.follower[s[i]]
        BY <1>2, <2>2, <2>10, <3>1
      <3> QED BY <1>6, <2>2, <2>10, <3>1 DEF Orphans
    <2>12. Remaining(k, t, s, p) = (T \ {n}) \cup {next}
      BY <2>2, <2>10 DEF Remaining, T
    <2>13. Good([Cleared(ListRemove(k, n), n) EXCEPT !.count = @ - 1], RemoveAt(s, p), C, W)
      BY <2>2, <2>9, <2>10, <2>11, <2>12, RemoveGood
    <2> QED BY <1>1, <2>13 DEF n
  <1>7. CASE ~t.follower[n] /\ ~(AllowDups /\ next # HEAD /\ t.follower[next])
    <2>1. k = RemoveWorker(t, n)
      BY <1>7
    <2> HIDE DEF k
    <2>2. n = s[p] /\ n \in T
      BY <1>4, <1>7 DEF n
    <2>3. Alike(k, t) /\ \E C, W : Sound(k, T \ {n}, C, W, {})
      BY <1>2, <2>1, <2>2, RemoveWorkerSound
    <2>4. PICK C, W : Sound(k, T \ {n}, C, W, {})
      BY <2>3
    <2>5. k \in Tree /\ k.link = t.link /\ k.count = t.count /\ k.follower = t.follower
      BY <2>3, <2>4 DEF Alike, Sound
    <2>6. p + 1 \in 1 .. Len(s) => ~t.follower[s[p + 1]] /\ s[p + 1] # n
      BY <1>2, <1>3, <1>7, <2>2 DEF Sorted
    <2>7. Orphans(k, t, s, p)
      BY <1>7, <2>2, <2>5, <2>6 DEF Orphans
    <2>8. Remaining(k, t, s, p) = T \ {n}
      BY <1>4, <2>2, <2>5, <2>6 DEF Remaining, T
    <2>9. Good([Cleared(ListRemove(k, n), n) EXCEPT !.count = @ - 1], RemoveAt(s, p), C, W)
      BY <2>2, <2>4, <2>5, <2>7, <2>8, RemoveGood
    <2> QED BY <1>1, <2>9 DEF n
  <1> QED BY <1>5, <1>6, <1>7

-----------------------------------------------------------------------------
(* The invariant: some element order, subtrees and heights fit the pointers. *)
IInv == \E s, B, V : Good(tree, s, B, V)

(* A tree after avl_init.                                                   *)
LEMMA EmptyGood == Good(EmptyTree, <<>>, [x \in Pointer |-> {}], [x \in Pointer |-> 0])
  <1> DEFINE t == EmptyTree
             B == [x \in Pointer |-> {}]
             V == [x \in Pointer |-> 0]
  <1>1. /\ t.root = NULL /\ t.count = 0 /\ t.parent = AllNull
        /\ t.child = [d \in Side |-> AllNull]
        /\ t.link = [d \in Side |-> [x \in Node \cup {HEAD} |-> IF x = HEAD THEN HEAD ELSE NULL]]
        /\ t.balance = [x \in Node |-> 0] /\ t.follower = [x \in Node |-> FALSE]
    BY DEF EmptyTree
  <1>2. AllNull \in [Node -> Pointer] /\ NULL \in Pointer
    BY DEF AllNull, Pointer
  <1>3. t \in Tree
    <2>1. t.link \in [Side -> [Place -> Place \cup {NULL}]]
      BY <1>1 DEF Place
    <2>2. t.child \in [Side -> [Node -> Pointer]]
      BY <1>1, <1>2
    <2> HIDE DEF t
    <2>3. t.balance \in [Node -> Int] /\ t.follower \in [Node -> BOOLEAN] /\ t.count \in Int
      BY <1>1
    <2>4. t = [root |-> t.root, count |-> t.count, parent |-> t.parent, child |-> t.child,
               link |-> t.link, balance |-> t.balance, follower |-> t.follower]
      BY DEF t, EmptyTree
    <2> QED BY <1>1, <1>2, <2>1, <2>2, <2>3, <2>4 DEF Tree
  <1>4. Len(<<>>) = 0 /\ <<>> \in Seq(Node) /\ \A i \in Int : i \notin 1 .. Len(<<>>)
    OBVIOUS
  <1>5. Chained(t, <<>>)
    <2>1. \A d \in Side : t.link[d][HEAD] = HEAD /\ \A x \in Node : t.link[d][x] = NULL
      BY <1>1, AvlAssumption
    <2>2. Left \in Side /\ Right \in Side
      BY DEF Side
    <2>3. \A i \in Int : Elem(<<>>, i) = HEAD
      BY <1>4 DEF Elem
    <2> HIDE DEF t
    <2>4. \A i \in 0 .. Len(<<>>) : i \in Int /\ i + 1 \in Int
      OBVIOUS
    <2> QED BY <1>4, <2>1, <2>2, <2>3, <2>4 DEF Chained
  <1>6. Sorted(t, <<>>) /\ Stems(t, <<>>) = {}
    BY <1>4 DEF Sorted, Stems, Stem
  <1>7. Sound(t, {}, B, V, {})
    <2>1. B \in [Pointer -> SUBSET {}] /\ B[NULL] = {} /\ B[t.root] = {}
      BY <1>1, <1>2
    <2>2. V \in [Pointer -> Nat] /\ V[NULL] = 0
      BY <1>2
    <2> HIDE DEF t, B, V
    <2> QED BY <1>1, <1>3, <2>1, <2>2 DEF Sound, Shape, Leveled
  <1>8. t.count = Len(<<>>)
    BY <1>1, <1>4
  <1> HIDE DEF t, B, V
  <1>9. Good(t, <<>>, B, V)
    BY <1>3, <1>5, <1>6, <1>7, <1>8 DEF Good
  <1> QED BY <1>9 DEF t, B, V

(* The nodes on the list are the elements.                                  *)
LEMMA AddedIn ==
    ASSUME NEW t, NEW s, Chained(t, s), NEW n \in Node
    PROVE  IsAdded(t, n) <=> ~Fresh(s, n)
  <1>1. /\ s \in Seq(Node) /\ Len(s) \in Nat /\ Left \in Side /\ Right \in Side
        /\ \A i, j \in 1 .. Len(s) : s[i] = s[j] => i = j
        /\ Fresh(s, n) => \A d \in Side : t.link[d][n] = NULL
    BY DEF Chained, Side
  <1>2. Fresh(s, n) => ~IsAdded(t, n)
    BY <1>1 DEF IsAdded
  <1>3. ASSUME NEW i \in 1 .. Len(s), s[i] = n PROVE IsAdded(t, n)
    <2>1. t.link[Right][n] = Elem(s, i + 1) /\ t.link[Left][n] = Elem(s, i - 1)
      BY <1>3, Neighbours
    <2>2. i + 1 \in Int /\ i - 1 \in Int
      OBVIOUS
    <2>3. \A j \in Int : Elem(s, j) # NULL
      BY <1>1, ElemFacts
    <2> QED BY <2>1, <2>2, <2>3 DEF IsAdded
  <1> QED BY <1>2, <1>3 DEF Fresh

\* What avl_insert makes of an element order: the node in its place, or nothing
\* when the key is taken.
InsertedOrder(s, n) ==
  {s} \cup {r \in {InsertAt(s, Ordered!Place(s, n), n)} :
              AllowDups \/ \A i \in 1 .. Len(s) : Comp(KeyOf[s[i]], KeyOf[n]) # 0}

LEMMA InsertKeeps ==
    ASSUME NEW t, NEW s, NEW B, NEW V, Good(t, s, B, V), NEW n \in Node, ~IsAdded(t, n)
    PROVE  \E r \in InsertedOrder(s, n) : \E C, W : Good(Inserted(t, n), r, C, W)
  <1> DEFINE r    == InsertAt(s, Ordered!Place(s, n), n)
             Done == \E C, W : Good(Inserted(t, n), r, C, W)
             Free == \A i \in 1 .. Len(s) : Comp(KeyOf[s[i]], KeyOf[n]) # 0
  <1>1. Fresh(s, n)
    BY AddedIn DEF Good
  <1>2. \/ Free /\ Done
        \/ AllowDups /\ Done
        \/ Good(Inserted(t, n), s, B, V)
    <2>1. CASE t.root = NULL
      <3>1. Free /\ Done
        BY <1>1, <2>1, InsertFirst
      <3> QED BY <3>1
    <2>2. CASE t.root # NULL /\ Comp(KeyOf[n], KeyOf[FindRec(Cleared(t, n), KeyOf[n])]) = 0
      <3>1. (~AllowDups => Good(Inserted(t, n), s, B, V)) /\ (AllowDups => Done)
        BY <1>1, <2>2, InsertFollower
      <3> QED BY <3>1
    <2>3. CASE t.root # NULL /\ Comp(KeyOf[n], KeyOf[FindRec(Cleared(t, n), KeyOf[n])]) # 0
      <3>1. Free /\ Done
        BY <1>1, <2>3, InsertLeaf
      <3> QED BY <3>1
    <2> QED BY <2>1, <2>2, <2>3
  <1>3. s \in InsertedOrder(s, n) /\ (AllowDups \/ Free => r \in InsertedOrder(s, n))
    BY DEF InsertedOrder
  <1> QED BY <1>2, <1>3

LEMMA RemoveKeeps ==
    ASSUME NEW t, NEW s, NEW B, NEW V, Good(t, s, B, V), NEW n \in Node, IsAdded(t, n)
    PROVE  \E p \in 1 .. Len(s) : s[p] = n /\ \E C, W : Good(Removed(t, n), RemoveAt(s, p), C, W)
  <1>1. PICK p \in 1 .. Len(s) : s[p] = n
    BY AddedIn DEF Good, Fresh
  <1>2. \E C, W : Good(Removed(t, s[p]), RemoveAt(s, p), C, W)
    BY RemovedGood
  <1> QED BY <1>1, <1>2

LEMMA StepKeeps == IInv /\ [Next]_vars => IInv'
  <1> SUFFICES ASSUME IInv, [Next]_vars PROVE IInv'
    OBVIOUS
  <1>1. PICK s, B, V : Good(tree, s, B, V)
    BY DEF IInv
  <1>2. ASSUME NEW n \in Node, AvlInsert(n) PROVE IInv'
    BY <1>1, <1>2, InsertKeeps DEF AvlInsert, IInv
  <1>3. ASSUME NEW n \in Node, AvlRemove(n) PROVE IInv'
    BY <1>1, <1>3, RemoveKeeps DEF AvlRemove, IInv
  <1>4. CASE AvlRemoveAll
    BY <1>4, EmptyGood DEF AvlRemoveAll, IInv
  <1>5. CASE UNCHANGED vars
    BY <1>5 DEF vars, IInv
  <1> QED BY <1>2, <1>3, <1>4, <1>5 DEF Next

LEMMA Inductive == Spec => []IInv
  <1>1. Init => IInv
    BY EmptyGood DEF Init, IInv
  <1> QED BY <1>1, StepKeeps, PTL DEF Spec

-----------------------------------------------------------------------------
(* The tree keeps the order its users see.                                  *)

LEMMA GoodElements == ASSUME NEW t, NEW s, NEW B, NEW V, Good(t, s, B, V)
                      PROVE  Elements(t) = s /\ s \in Seq(Node)
  <1>1. t \in Tree /\ Chained(t, s) /\ t.count = Len(s)
    BY DEF Good
  <1> QED BY <1>1, ElementsOf DEF Chained

(* The abstract operators are those of the sequence library.                *)
LEMMA SameOperators ==
    ASSUME NEW s \in Seq(Node), NEW p, NEW n
    PROVE  /\ Ordered!InsertAt(s, p, n) = InsertAt(s, p, n)
           /\ Ordered!RemoveAt(s, p) = RemoveAt(s, p)
           /\ Ordered!ToSet(s) = {s[i] : i \in 1 .. Len(s)}
  <1>1. Ordered!InsertAt(s, p, n) = InsertAt(s, p, n)
    BY Zenon DEF Ordered!InsertAt, InsertAt
  <1>2. Ordered!RemoveAt(s, p) = RemoveAt(s, p)
    BY Zenon DEF Ordered!RemoveAt, RemoveAt
  <1>3. DOMAIN s = 1 .. Len(s)
    OBVIOUS
  <1>4. Ordered!ToSet(s) = {s[i] : i \in 1 .. Len(s)}
    BY <1>3, Zenon DEF Ordered!ToSet
  <1> QED BY <1>1, <1>2, <1>4

LEMMA StepOrdered == IInv /\ [Next]_vars => [Ordered!OrderNext]_(Elements(tree))
  <1> SUFFICES ASSUME IInv, [Next]_vars
               PROVE  Ordered!OrderNext \/ Elements(tree)' = Elements(tree)
    BY Zenon
  <1>1. PICK s, B, V : Good(tree, s, B, V)
    BY DEF IInv
  <1>2. Elements(tree) = s /\ s \in Seq(Node) /\ Len(s) \in Nat /\ DOMAIN s = 1 .. Len(s)
    BY <1>1, GoodElements
  <1>3. ASSUME NEW n \in Node, AvlInsert(n)
        PROVE  Ordered!Add(n) \/ Elements(tree)' = Elements(tree)
    <2>1. PICK r \in InsertedOrder(s, n) : \E C, W : Good(tree', r, C, W)
      BY <1>1, <1>3, InsertKeeps DEF AvlInsert
    <2>2. Elements(tree') = r
      BY <2>1, GoodElements
    <2>3. CASE r = s
      BY <1>2, <2>2, <2>3
    <2>4. CASE r # s
      <3>1. /\ r = InsertAt(s, Ordered!Place(s, n), n)
            /\ AllowDups \/ \A i \in 1 .. Len(s) : Comp(KeyOf[s[i]], KeyOf[n]) # 0
        BY <2>4 DEF InsertedOrder
      <3>2. Fresh(s, n)
        BY <1>1, <1>3, AddedIn DEF Good, AvlInsert
      <3>3. n \notin Ordered!ToSet(s)
        BY <1>2, <3>2, SameOperators DEF Fresh
      <3>4. AllowDups \/ \A m \in Ordered!ToSet(s) : Comp(KeyOf[m], KeyOf[n]) # 0
        BY <1>2, <3>1, SameOperators
      <3>5. r = Ordered!OrderedInsert(s, n)
        BY <1>2, <3>1, SameOperators DEF Ordered!OrderedInsert
      <3> QED BY <1>2, <2>2, <3>3, <3>4, <3>5, Zenon DEF Ordered!Add
    <2> QED BY <2>3, <2>4
  <1>4. ASSUME NEW n \in Node, AvlRemove(n) PROVE Ordered!Drop(n)
    <2>1. PICK p \in 1 .. Len(s) : s[p] = n /\ \E C, W : Good(tree', RemoveAt(s, p), C, W)
      BY <1>1, <1>4, RemoveKeeps DEF AvlRemove
    <2>2. Elements(tree') = Ordered!RemoveAt(s, p)
      BY <1>2, <2>1, GoodElements, SameOperators
    <2> QED BY <1>2, <2>1, <2>2, Zenon DEF Ordered!Drop
  <1>5. CASE AvlRemoveAll
    <2>1. Elements(tree') = <<>>
      BY <1>5, EmptyGood, GoodElements DEF AvlRemoveAll
    <2>2. s # <<>>
      BY <1>1, <1>5 DEF AvlRemoveAll, Good
    <2> QED BY <1>2, <2>1, <2>2, Zenon DEF Ordered!OrderNext, Ordered!DropAll
  <1>6. CASE UNCHANGED vars
    BY <1>6 DEF vars
  <1> QED BY <1>3, <1>4, <1>5, <1>6, Zenon DEF Next, Ordered!OrderNext

(* avl_insert puts a node behind every smaller key, and behind the first of *)
(* the same key; avl_remove takes out that node alone; whatever rotations   *)
(* either needs, no other element moves, is lost or appears twice.          *)
THEOREM KeepsOrderHolds == Spec => KeepsOrder
  <1>1. Init => Ordered!OrderInit
    <2>1. Elements(EmptyTree) = <<>>
      BY EmptyGood, GoodElements
    <2> QED BY <2>1, Zenon DEF Init, Ordered!OrderInit
  <1> QED BY <1>1, Inductive, StepOrdered, PTL DEF Spec, KeepsOrder, Ordered!OrderSpec

-----------------------------------------------------------------------------
(* What the pointers stand for is what the certificate says.                *)

(* A set of tree nodes that holds a node whenever it holds its children     *)
(* holds them all.                                                          *)
LEMMA FromTheLeaves ==
    ASSUME NEW t \in Tree, NEW T, NEW B, Shape(t, T, B), NEW P,
           \A n \in T : (\A d \in Side : t.child[d][n] # NULL => t.child[d][n] \in P) => n \in P
    PROVE  T \subseteq P
  <1> DEFINE Sizes == {Cardinality(B[n]) : n \in T \ P}
  <1> SUFFICES ASSUME ~(T \subseteq P) PROVE FALSE
    OBVIOUS
  <1>1. \A n \in T : Cardinality(B[n]) \in Nat
    BY SubtreeSize
  <1>2. Sizes \subseteq Nat /\ Sizes # {}
    BY <1>1
  <1>3. PICK x \in Sizes : \A y \in Sizes : x <= y
    <2> HIDE DEF Sizes
    <2> QED BY <1>2, SmallestExists
  <1>4. PICK n \in T \ P : x = Cardinality(B[n])
    BY <1>3
  <1>5. PICK d \in Side : t.child[d][n] # NULL /\ t.child[d][n] \notin P
    BY <1>4
  <1>6. t.child[d][n] \in T
    BY <1>4, <1>5 DEF Shape
  <1>7. Cardinality(B[t.child[d][n]]) < Cardinality(B[n])
    BY <1>4, <1>5, SubtreeSize
  <1>8. Cardinality(B[n]) <= Cardinality(B[t.child[d][n]])
    BY <1>3, <1>4, <1>5, <1>6
  <1> QED BY <1>1, <1>4, <1>6, <1>7, <1>8

LEMMA ChildIn ==
    ASSUME NEW t \in Tree, NEW T, NEW B, Shape(t, T, B)
    PROVE  \A n \in T : \A d \in Side : t.child[d][n] \in T \cup {NULL}
  BY DEF Shape

LEMMA BelowIs ==
    ASSUME NEW t \in Tree, NEW T, NEW B, Shape(t, T, B), T = TreeNodes(t)
    PROVE  \A n \in T \cup {NULL} : Below(t)[n] = B[n]
  <1> DEFINE S    == TreeNodes(t) \cup {NULL}
             F(a) == [n \in S |-> IF n = NULL THEN {}
                                  ELSE {n} \cup a[t.child[Left][n]] \cup a[t.child[Right][n]]]
             b    == CHOOSE a : a = F(a)
             G    == [n \in S |-> B[n]]
             P    == {n \in T : b[n] = B[n]}
  <1>1. Below(t) = b
    BY Zenon DEF Below
  <1>2. /\ S = T \cup {NULL} /\ B[NULL] = {} /\ Left \in Side /\ Right \in Side
        /\ \A n \in T : n # NULL /\ B[n] = {n} \cup B[t.child[Left][n]] \cup B[t.child[Right][n]]
        /\ \A n \in T : \A d \in Side : t.child[d][n] \in S
    BY ChildIn, AvlAssumption DEF Shape, Side
  <1> HIDE DEF S
  <1>3. G = F(G)
    <2>1. ASSUME NEW n \in S
          PROVE  G[n] = IF n = NULL THEN {} ELSE {n} \cup G[t.child[Left][n]] \cup G[t.child[Right][n]]
      BY <1>2, <2>1
    <2> QED BY <2>1
  <1>4. b = F(b)
    BY <1>3, Zenon
  <1> HIDE DEF b
  <1>5. b[NULL] = {} /\ \A n \in T : b[n] = {n} \cup b[t.child[Left][n]] \cup b[t.child[Right][n]]
    BY <1>2, <1>4
  <1>6. T \subseteq P
    <2>1. ASSUME NEW n \in T, \A d \in Side : t.child[d][n] # NULL => t.child[d][n] \in P
          PROVE  n \in P
      <3>1. \A d \in Side : b[t.child[d][n]] = B[t.child[d][n]]
        BY <1>2, <1>5, <2>1
      <3>2. b[t.child[Left][n]] = B[t.child[Left][n]] /\ b[t.child[Right][n]] = B[t.child[Right][n]]
        BY <1>2, <3>1, Zenon
      <3>3. /\ b[n] = {n} \cup b[t.child[Left][n]] \cup b[t.child[Right][n]]
            /\ B[n] = {n} \cup B[t.child[Left][n]] \cup B[t.child[Right][n]]
        BY <1>2, <1>5, Zenon
      <3>4. b[n] = B[n]
        BY <3>2, <3>3, Zenon
      <3> QED BY <3>4
    <2> HIDE DEF P
    <2> QED BY <2>1, FromTheLeaves
  <1> QED BY <1>1, <1>2, <1>5, <1>6

LEMMA HeightIs ==
    ASSUME NEW t \in Tree, NEW T, NEW B, Shape(t, T, B), T = TreeNodes(t),
           NEW V, V[NULL] = 0, \A n \in T : V[n] = Own(t, V, n)
    PROVE  \A n \in T \cup {NULL} : Height(t)[n] = V[n]
  <1> DEFINE S    == TreeNodes(t) \cup {NULL}
             F(a) == [n \in S |-> IF n = NULL THEN 0
                                  ELSE 1 + Larger(a[t.child[Left][n]], a[t.child[Right][n]])]
             h    == CHOOSE a : a = F(a)
             G    == [n \in S |-> V[n]]
             P    == {n \in T : h[n] = V[n]}
  <1>1. Height(t) = h
    BY Zenon DEF Height
  <1>2. /\ S = T \cup {NULL} /\ Left \in Side /\ Right \in Side
        /\ \A n \in T : n # NULL /\ V[n] = 1 + Larger(V[t.child[Left][n]], V[t.child[Right][n]])
        /\ \A n \in T : \A d \in Side : t.child[d][n] \in S
    BY ChildIn, AvlAssumption DEF Shape, Side, Own
  <1> HIDE DEF S
  <1>3. G = F(G)
    <2>1. ASSUME NEW n \in S
          PROVE  G[n] = IF n = NULL THEN 0 ELSE 1 + Larger(G[t.child[Left][n]], G[t.child[Right][n]])
      BY <1>2, <2>1
    <2> QED BY <2>1
  <1>4. h = F(h)
    BY <1>3, Zenon
  <1> HIDE DEF h
  <1>5. h[NULL] = 0 /\ \A n \in T : h[n] = 1 + Larger(h[t.child[Left][n]], h[t.child[Right][n]])
    BY <1>2, <1>4
  <1>6. T \subseteq P
    <2>1. ASSUME NEW n \in T, \A d \in Side : t.child[d][n] # NULL => t.child[d][n] \in P
          PROVE  n \in P
      <3>1. \A d \in Side : h[t.child[d][n]] = V[t.child[d][n]]
        BY <1>2, <1>5, <2>1
      <3> QED BY <1>2, <1>5, <3>1
    <2> HIDE DEF P
    <2> QED BY <2>1, FromTheLeaves
  <1> QED BY <1>1, <1>2, <1>5, <1>6

LEMMA TreeNodesAre ==
    ASSUME NEW t, NEW s, Chained(t, s)
    PROVE  TreeNodes(t) = Stems(t, s)
  <1>1. ASSUME NEW n \in Node PROVE n \in TreeNodes(t) <=> n \in Stems(t, s)
    BY AddedIn DEF TreeNodes, Stems, Stem, Fresh
  <1>2. TreeNodes(t) \subseteq Node /\ Stems(t, s) \subseteq Node
    BY DEF TreeNodes, Stems
  <1> QED BY <1>1, <1>2

-----------------------------------------------------------------------------
(* The pointers are well formed.                                            *)

LEMMA ListHolds == IInv => ListWellFormed
  <1> SUFFICES ASSUME IInv PROVE ListWellFormed
    OBVIOUS
  <1>1. PICK s, B, V : Good(tree, s, B, V)
    BY DEF IInv
  <1>2. /\ Elements(tree) = s /\ s \in Seq(Node) /\ Len(s) \in Nat /\ DOMAIN s = 1 .. Len(s)
        /\ Chained(tree, s) /\ Sorted(tree, s)
        /\ \A i, j \in 1 .. Len(s) : s[i] = s[j] => i = j
    BY <1>1, GoodElements DEF Good, Chained
  <1>3. IsInjective(s)
    BY <1>2 DEF IsInjective
  <1>4. ToSet(s) = {n \in Node : IsAdded(tree, n)}
    <2>1. \A n \in Node : IsAdded(tree, n) <=> \E i \in 1 .. Len(s) : s[i] = n
      BY <1>2, AddedIn DEF Fresh
    <2>2. ToSet(s) = {s[i] : i \in 1 .. Len(s)}
      BY <1>2, Zenon DEF ToSet
    <2>3. \A i \in 1 .. Len(s) : s[i] \in Node
      BY <1>2
    <2> QED BY <2>1, <2>2, <2>3
  <1>5. ASSUME NEW n \in ToSet(s) \cup {HEAD}, NEW d \in Side
        PROVE  tree.link[-d][tree.link[d][n]] = n
    <2>1. /\ \A i \in 0 .. Len(s) : /\ tree.link[Right][Elem(s, i)] = Elem(s, i + 1)
                                    /\ tree.link[Left][Elem(s, i + 1)] = Elem(s, i)
          /\ Elem(s, 0) = HEAD /\ Elem(s, Len(s) + 1) = HEAD
          /\ \A i \in 1 .. Len(s) : Elem(s, i) = s[i]
      BY <1>2, ElemFacts DEF Chained
    <2>2. \E i \in 0 .. Len(s) : n = Elem(s, i)
      <3>1. CASE n = HEAD
        <4>1. 0 \in 0 .. Len(s)
          BY <1>2
        <4> QED BY <2>1, <3>1, <4>1
      <3>2. CASE n # HEAD
        <4>1. PICK i \in 1 .. Len(s) : n = s[i]
          BY <1>2, <1>5, <3>2, Zenon DEF ToSet
        <4>2. i \in 0 .. Len(s)
          BY <1>2
        <4> QED BY <2>1, <4>1, <4>2
      <3> QED BY <3>1, <3>2
    <2>3. \E i \in 0 .. Len(s) : n = Elem(s, i + 1)
      <3>1. CASE n = HEAD
        <4>1. Len(s) \in 0 .. Len(s)
          BY <1>2
        <4> QED BY <2>1, <3>1, <4>1
      <3>2. CASE n # HEAD
        <4>1. PICK i \in 1 .. Len(s) : n = s[i]
          BY <1>2, <1>5, <3>2, Zenon DEF ToSet
        <4>2. i - 1 \in 0 .. Len(s) /\ (i - 1) + 1 = i
          BY <1>2
        <4> QED BY <2>1, <4>1, <4>2
      <3> QED BY <3>1, <3>2
    <2>4. CASE d = Right
      <3>1. -d = Left
        BY <2>4 DEF Left, Right
      <3> QED BY <2>1, <2>2, <2>4, <3>1
    <2>5. CASE d = Left
      <3>1. -d = Right
        BY <2>5, Sides
      <3> QED BY <2>1, <2>3, <2>5, <3>1
    <2> QED BY <2>4, <2>5 DEF Side
  <1>6. ASSUME NEW i \in 2 .. Len(s) PROVE Comp(KeyOf[s[i - 1]], KeyOf[s[i]]) <= 0
    <2>1. i - 1 \in 1 .. Len(s) /\ i \in 1 .. Len(s) /\ i - 1 <= i
      BY <1>2
    <2> QED BY <1>2, <2>1, Zenon DEF Sorted
  <1>7. \A i \in DOMAIN s : tree.follower[s[i]] <=> i > 1 /\ Comp(KeyOf[s[i - 1]], KeyOf[s[i]]) = 0
    BY <1>2, Zenon DEF Sorted
  <1> QED BY <1>2, <1>3, <1>4, <1>5, <1>6, <1>7, Zenon DEF ListWellFormed

LEMMA TreeHolds == IInv => TreeWellFormed
  <1> SUFFICES ASSUME IInv PROVE TreeWellFormed
    OBVIOUS
  <1> DEFINE T == TreeNodes(tree)
  <1>1. PICK s, B, V : Good(tree, s, B, V)
    BY DEF IInv
  <1>2. tree \in Tree /\ Sound(tree, T, B, V, {})
    BY <1>1, TreeNodesAre DEF Good
  <1>3. T \subseteq Node /\ Shape(tree, T, B) /\ Leveled(tree, T, V, {})
    BY <1>2 DEF Sound, Shape
  <1> HIDE DEF T
  <1>4. \A n \in T \cup {NULL} : Below(tree)[n] = B[n]
    BY <1>2, <1>3, BelowIs DEF T
  <1>5. \A n \in T \cup {NULL} : Height(tree)[n] = V[n]
    <2>1. V[NULL] = 0 /\ \A n \in T : V[n] = Own(tree, V, n)
      BY <1>3 DEF Leveled
    <2> QED BY <1>2, <1>3, <2>1, HeightIs DEF T
  <1>6. \A n \in T : \A d \in Side : tree.child[d][n] \in T \cup {NULL}
    BY <1>2, <1>3, ChildIn
  <1>7. Below(tree)[tree.root] = T /\ (tree.root # NULL => tree.parent[tree.root] = NULL)
    <2>1. tree.root \in T \cup {NULL} /\ B[tree.root] = T
      BY <1>3 DEF Shape
    <2> QED BY <1>3, <1>4, <2>1 DEF Shape
  <1>8. ASSUME NEW n \in T
        PROVE  /\ tree.balance[n] \in -1 .. 1
               /\ tree.balance[n] = Height(tree)[tree.child[Right][n]] - Height(tree)[tree.child[Left][n]]
    <2>1. tree.balance[n] \in -1 .. 1 /\ tree.balance[n] = V[tree.child[Right][n]] - V[tree.child[Left][n]]
      BY <1>3 DEF Leveled
    <2>2. /\ Height(tree)[tree.child[Right][n]] = V[tree.child[Right][n]]
          /\ Height(tree)[tree.child[Left][n]] = V[tree.child[Left][n]]
      BY <1>5, <1>6 DEF Side
    <2> QED BY <2>1, <2>2
  <1>9. ASSUME NEW n \in T, NEW d \in Side
        PROVE  /\ tree.child[d][n] # NULL => tree.parent[tree.child[d][n]] = n
               /\ \A m \in Below(tree)[tree.child[d][n]] : d * Comp(KeyOf[m], KeyOf[n]) > 0
    <2>1. Below(tree)[tree.child[d][n]] = B[tree.child[d][n]]
      BY <1>4, <1>6
    <2>2. \A m \in B[tree.child[d][n]] : Lies(d, m, n)
      BY <1>3 DEF Shape
    <2>3. \A m \in B[tree.child[d][n]] : d * Comp(KeyOf[m], KeyOf[n]) > 0
      BY <2>2, Zenon DEF Lies, Beyond
    <2> QED BY <1>3, <2>1, <2>3 DEF Shape
  <1>10. /\ Below(tree)[tree.root] = TreeNodes(tree)
         /\ tree.root # NULL => tree.parent[tree.root] = NULL
         /\ \A n \in TreeNodes(tree) :
              /\ tree.balance[n] \in -1 .. 1
              /\ tree.balance[n] = Height(tree)[tree.child[Right][n]] - Height(tree)[tree.child[Left][n]]
              /\ \A d \in Side :
                   /\ tree.child[d][n] # NULL => tree.parent[tree.child[d][n]] = n
                   /\ \A m \in Below(tree)[tree.child[d][n]] : d * Comp(KeyOf[m], KeyOf[n]) > 0
    BY <1>7, <1>8, <1>9 DEF T
  <1> QED BY <1>10, Zenon DEF TreeWellFormed

(* Between any two calls the list and the tree of avl.c are in order: every *)
(* rotation, replacement and climb of avl_insert and avl_remove leaves the  *)
(* pointers consistent, the keys sorted and the balances true.              *)
THEOREM WellFormedHolds == Spec => []WellFormed
  <1>1. IInv => WellFormed
    BY ListHolds, TreeHolds DEF WellFormed
  <1> QED BY <1>1, Inductive, PTL

-----------------------------------------------------------------------------
(* Lookups                                                                  *)

(* How many elements lie behind the i-th on a side.                         *)
Room(s, side, i) == IF side = Left THEN i - 1 ELSE Len(s) - i

\* The i-th element is not beyond the key: the search may answer it.
Fits(s, key, side, i) == i \in 1 .. Len(s) /\ ~Beyond(side, key, KeyOf[s[i]])

LEMMA RoomFacts ==
    ASSUME NEW t, NEW s, Chained(t, s), NEW i \in 1 .. Len(s), NEW side \in Side
    PROVE  /\ s[i] \in Node /\ Room(s, side, i) \in Nat /\ Room(s, side, i) < Len(s)
           /\ IsLast(t, s[i], side) <=> Room(s, side, i) = 0
           /\ Room(s, side, i) # 0 => /\ i + side \in 1 .. Len(s)
                                      /\ t.link[side][s[i]] = s[i + side]
                                      /\ Room(s, side, i + side) = Room(s, side, i) - 1
                                      /\ Room(s, -side, i + side) = Room(s, -side, i) + 1
  <1>1. Len(s) \in Nat /\ i \in Nat
    BY DEF Chained
  <1>2. CASE side = Left
    <2>1. -side = Right /\ side = -1 /\ Right # Left
      BY <1>2, Sides DEF Left
    <2>2. Room(s, side, i) = i - 1 /\ Room(s, side, i + side) = (i - 1) - 1
          /\ Room(s, -side, i) = Len(s) - i /\ Room(s, -side, i + side) = (Len(s) - i) + 1
      BY <1>1, <1>2, <2>1 DEF Room
    <2>3. i + side = i - 1
      BY <1>1, <2>1
    <2>4. i - 1 = 0 <=> i = 1
      BY <1>1
    <2> QED BY <1>1, <1>2, <2>2, <2>3, <2>4, Neighbours
  <1>3. CASE side = Right
    <2>1. -side = Left /\ side = 1 /\ Right # Left
      BY <1>3, Sides DEF Right
    <2>2. Room(s, side, i) = Len(s) - i /\ Room(s, side, i + side) = (Len(s) - i) - 1
          /\ Room(s, -side, i) = i - 1 /\ Room(s, -side, i + side) = (i - 1) + 1
      BY <1>1, <1>3, <2>1 DEF Room
    <2>3. i + side = i + 1
      BY <1>1, <2>1
    <2>4. Len(s) - i = 0 <=> i = Len(s)
      BY <1>1
    <2> QED BY <1>1, <1>3, <2>2, <2>3, <2>4, Neighbours
  <1> QED BY <1>2, <1>3, Sides

(* Elements on the far side of one that fits do too.                        *)
LEMMA FitsOn ==
    ASSUME NEW t, NEW s \in Seq(Node), Sorted(t, s), NEW key \in Key, NEW side \in Side,
           NEW i, Fits(s, key, side, i), NEW j \in 1 .. Len(s), Room(s, side, j) <= Room(s, side, i)
    PROVE  Fits(s, key, side, j)
  <1>1. i \in 1 .. Len(s) /\ s[i] \in Node /\ s[j] \in Node /\ Len(s) \in Nat /\ i \in Nat /\ j \in Nat
    BY DEF Fits
  <1> DEFINE x == KeyOf[s[i]]
             y == KeyOf[s[j]]
  <1>2. x \in Key /\ y \in Key
    BY <1>1, NodeKeys
  <1>3. side = Left => Comp(y, x) <= 0
    <2>1. side = Left => j <= i
      BY <1>1 DEF Room
    <2> QED BY <1>1, <2>1 DEF Sorted
  <1>4. side = Right => Comp(x, y) <= 0
    <2>1. side = Right => i <= j
      BY <1>1, Sides DEF Room
    <2> QED BY <1>1, <2>1 DEF Sorted
  <1>5. ~Beyond(side, key, x)
    BY DEF Fits
  <1> HIDE DEF x, y
  <1>6. /\ Comp(key, x) \in Int /\ Comp(key, y) \in Int /\ Comp(x, y) \in Int /\ Comp(y, x) \in Int
        /\ Comp(x, key) \in Int /\ Comp(y, key) \in Int
        /\ Comp(key, x) < 0 <=> Comp(x, key) > 0
        /\ Comp(key, y) < 0 <=> Comp(y, key) > 0
        /\ Comp(x, key) < 0 <=> Comp(key, x) > 0
    BY <1>2, CompAssumption
  <1>7. ~Beyond(side, key, y)
    <2>1. CASE side = Left
      <3>1. ~(Comp(key, x) < 0)
        BY <1>2, <1>5, <2>1, KeySides
      <3>2. Comp(x, key) <= 0 /\ Comp(y, x) <= 0
        BY <1>3, <1>6, <2>1, <3>1
      <3>3. Comp(y, key) <= 0
        BY <1>2, <3>2, CompAssumption
      <3>4. ~(Comp(key, y) < 0)
        BY <1>6, <3>3
      <3> QED BY <1>2, <2>1, <3>4, KeySides
    <2>2. CASE side = Right
      <3>1. ~(Comp(key, x) > 0)
        BY <1>2, <1>5, <2>2, KeySides
      <3>2. Comp(key, x) <= 0 /\ Comp(x, y) <= 0
        BY <1>4, <1>6, <2>2, <3>1
      <3>3. Comp(key, y) <= 0
        BY <1>2, <3>2, CompAssumption
      <3>4. ~(Comp(key, y) > 0)
        BY <1>6, <3>3
      <3> QED BY <1>2, <2>2, <3>4, KeySides
    <2> QED BY <2>1, <2>2, Sides
  <1> QED BY <1>7 DEF Fits, y

(* The first loop stops at an element that fits, or there is none.          *)
LEMMA RetreatFacts ==
    ASSUME NEW t \in Tree, NEW s, Chained(t, s), Sorted(t, s), NEW i \in 1 .. Len(s),
           NEW key \in Key, NEW side \in Side
    PROVE  \/ /\ Retreat(t, key, s[i], side) = NULL
              /\ \A j \in 1 .. Len(s) : ~Fits(s, key, side, j)
           \/ \E j : Fits(s, key, side, j) /\ Retreat(t, key, s[i], side) = s[j]
  <1> DEFINE Round(n) == RetreatRound(t, key, n, side)
             None(n) == n = NULL /\ \A j \in 1 .. Len(s) : ~Fits(s, key, side, j)
             At(k, n, j) == n = s[j] /\ (Fits(s, key, side, j) \/ Room(s, side, j) + k < Len(s))
             Ok(k, n) == None(n) \/ \E j \in 1 .. Len(s) : At(k, n, j)
             g     == [n \in Pointer |-> Round(n)]
             Q     == [k \in Nat |-> {n \in Pointer : Ok(k, n)}]
             F(a)  == [k \in Nat |-> IF k = 0 THEN s[i] ELSE Round(a[k - 1])]
             after == CHOOSE a : a = F(a)
             last  == after[Cardinality(Node)]
  <1>1. Retreat(t, key, s[i], side) = last
    BY Zenon DEF Retreat, Repeat
  <1>2. /\ s \in Seq(Node) /\ Len(s) \in Nat /\ Cardinality(Node) \in Nat
        /\ Len(s) <= Cardinality(Node) /\ s[i] \in Pointer /\ NULL \notin Node
        /\ \A j \in 1 .. Len(s) : s[j] \in Node /\ s[j] \in Pointer /\ Room(s, side, j) \in Nat
                                  /\ Room(s, side, j) < Len(s)
    <2>1. s \in Seq(Node) /\ Node \subseteq Pointer /\ NULL \notin Node
      BY AvlAssumption DEF Chained, Pointer
    <2>2. \A j \in 1 .. Len(s) : s[j] \in Node /\ Room(s, side, j) \in Nat /\ Room(s, side, j) < Len(s)
      BY RoomFacts
    <2> QED BY <2>1, <2>2, ListLength
  <1>3. ASSUME NEW k \in Nat, NEW n \in Pointer, Ok(k, n)
        PROVE  Round(n) \in Pointer /\ Ok(k + 1, Round(n))
    <2>1. CASE None(n)
      <3>1. Round(n) = n
        BY <2>1 DEF RetreatRound
      <3> HIDE DEF Round, None, At
      <3> QED BY <2>1, <3>1
    <2>2. ASSUME NEW j \in 1 .. Len(s), At(k, n, j) PROVE Round(n) \in Pointer /\ Ok(k + 1, Round(n))
      <3>1. /\ IsLast(t, s[j], side) <=> Room(s, side, j) = 0
            /\ Room(s, side, j) # 0 => /\ j + side \in 1 .. Len(s) /\ t.link[side][s[j]] = s[j + side]
                                       /\ Room(s, side, j + side) = Room(s, side, j) - 1
        BY RoomFacts
      <3>2. n = s[j] /\ n # NULL /\ n \in Node /\ KeyOf[n] \in Key
        BY <1>2, <2>2, NodeKeys
      <3>3. Fits(s, key, side, j) <=> side * Comp(key, KeyOf[n]) <= 0
        <4>1. side \in Int /\ Comp(key, KeyOf[n]) \in Int
          BY <3>2, CompAssumption, Sides
        <4>2. side * Comp(key, KeyOf[n]) \in Int
          BY <4>1
        <4>3. side * Comp(key, KeyOf[n]) <= 0 <=> ~(side * Comp(key, KeyOf[n]) > 0)
          BY <4>2
        <4> QED BY <3>2, <4>3, Zenon DEF Fits, Beyond
      <3>4. CASE Fits(s, key, side, j)
        <4>1. Round(n) = n
          BY <3>2, <3>3, <3>4, Zenon DEF RetreatRound
        <4>2. At(k + 1, n, j)
          BY <2>2, <3>4
        <4> HIDE DEF Round, None, At
        <4> QED BY <4>1, <4>2
      <3>5. CASE ~Fits(s, key, side, j) /\ Room(s, side, j) = 0
        <4>1. Round(n) = NULL
          BY <3>1, <3>2, <3>3, <3>5, Zenon DEF RetreatRound
        <4>2. ASSUME NEW l \in 1 .. Len(s), Fits(s, key, side, l) PROVE FALSE
          <5>1. Room(s, side, j) <= Room(s, side, l)
            BY <1>2, <3>5
          <5> QED BY <1>2, <3>5, <4>2, <5>1, FitsOn
        <4>3. None(NULL)
          BY <4>2
        <4> HIDE DEF Round, None, At
        <4> QED BY <4>1, <4>3 DEF Pointer
      <3>6. CASE ~Fits(s, key, side, j) /\ Room(s, side, j) # 0
        <4>1. Round(n) = s[j + side]
          BY <3>1, <3>2, <3>3, <3>6, Zenon DEF RetreatRound
        <4>2. Room(s, side, j) + k < Len(s)
          BY <2>2, <3>6
        <4>3. (Room(s, side, j) - 1) + (k + 1) < Len(s)
          BY <1>2, <4>2
        <4>4. At(k + 1, s[j + side], j + side)
          BY <3>1, <3>6, <4>3
        <4> HIDE DEF Round, None, At
        <4> QED BY <1>2, <3>1, <3>6, <4>1, <4>4
      <3> QED BY <3>4, <3>5, <3>6
    <2> HIDE DEF Round, None, At
    <2> QED BY <1>3, <2>1, <2>2
  <1>4. Ok(0, s[i])
    <2>1. At(0, s[i], i)
      BY <1>2
    <2> HIDE DEF At, None
    <2> QED BY <2>1
  <1>5. Keeps(Pointer, g, Q, s[i])
    <2> HIDE DEF Ok, Round
    <2> QED BY <1>2, <1>3, <1>4 DEF Keeps
  <1> HIDE DEF Ok, Round
  <1>6. \E f : f = F(f)
    <2> HIDE DEF g, Q
    <2>1. PICK f : Iterates(f, g, Q, s[i])
      BY <1>5, Iteration
    <2>2. \A k \in Nat : f[k] \in Pointer
      BY <1>5, <2>1 DEF Keeps, Iterates
    <2>3. \A k \in Nat : f[k] = IF k = 0 THEN s[i] ELSE Round(f[k - 1])
      <3>1. \A k \in Nat : k # 0 => k - 1 \in Nat
        OBVIOUS
      <3> QED BY <2>1, <2>2, <3>1 DEF Iterates, g
    <2> QED BY <2>1, <2>3 DEF Iterates
  <1>7. after = F(after)
    BY <1>6, Zenon
  <1> HIDE DEF after
  <1>8. \A k \in Nat : after[k] \in Q[k]
    <2>1. after[0] = s[i] /\ \A k \in Nat : after[k] \in Pointer => after[k + 1] = g[after[k]]
      <3>1. \A k \in Nat : k + 1 \in Nat /\ k + 1 # 0 /\ (k + 1) - 1 = k
        OBVIOUS
      <3> QED BY <1>7, <3>1
    <2> HIDE DEF g, Q
    <2> QED BY <1>5, <2>1, Follows
  <1>9. Ok(Cardinality(Node), last)
    BY <1>2, <1>8
  <1> HIDE DEF last
  <1>10. CASE None(last)
    BY <1>1, <1>10
  <1>11. ASSUME NEW j \in 1 .. Len(s), At(Cardinality(Node), last, j) PROVE Fits(s, key, side, j) /\ last = s[j]
    <2>1. ~(Room(s, side, j) + Cardinality(Node) < Len(s))
      BY <1>2
    <2> QED BY <1>11, <2>1
  <1> HIDE DEF None, At
  <1> QED BY <1>1, <1>9, <1>10, <1>11 DEF Ok

(* The second loop stops at the last of them.                               *)
LEMMA AdvanceFacts ==
    ASSUME NEW t \in Tree, NEW s, Chained(t, s), Sorted(t, s), NEW key \in Key, NEW side \in Side,
           NEW i, Fits(s, key, side, i)
    PROVE  \E j : /\ Fits(s, key, side, j) /\ Advance(t, key, s[i], side) = s[j]
                  /\ \A l : Fits(s, key, side, l) => Room(s, -side, j) <= Room(s, -side, l)
  <1> DEFINE Round(n) == AdvanceRound(t, key, n, side)
             End(j) == Room(s, -side, j) = 0 \/ ~Fits(s, key, side, j - side)
             At(k, n, j) == n = s[j] /\ Fits(s, key, side, j) /\ (End(j) \/ Room(s, -side, j) + k < Len(s))
             Ok(k, n) == \E j \in 1 .. Len(s) : At(k, n, j)
             g     == [n \in Node |-> Round(n)]
             Q     == [k \in Nat |-> {n \in Node : Ok(k, n)}]
             F(a)  == [k \in Nat |-> IF k = 0 THEN s[i] ELSE Round(a[k - 1])]
             after == CHOOSE a : a = F(a)
             last  == after[Cardinality(Node)]
  <1>1. Advance(t, key, s[i], side) = last
    BY Zenon DEF Advance, Repeat
  <1>2. /\ s \in Seq(Node) /\ Len(s) \in Nat /\ Cardinality(Node) \in Nat
        /\ Len(s) <= Cardinality(Node) /\ i \in 1 .. Len(s) /\ s[i] \in Node
        /\ -side \in Side /\ side \in Int /\ -(-side) = side
        /\ \A j \in 1 .. Len(s) : s[j] \in Node /\ Room(s, -side, j) \in Nat
                                  /\ Room(s, -side, j) < Len(s)
    <2>1. s \in Seq(Node) /\ i \in 1 .. Len(s)
      BY DEF Chained, Fits
    <2>2. -side \in Side /\ side \in Int /\ -(-side) = side
      BY Sides
    <2>3. \A j \in 1 .. Len(s) : s[j] \in Node /\ Room(s, -side, j) \in Nat /\ Room(s, -side, j) < Len(s)
      BY <2>2, RoomFacts
    <2> QED BY <2>1, <2>2, <2>3, ListLength
  <1>3. ASSUME NEW j \in 1 .. Len(s)
        PROVE  /\ IsLast(t, s[j], -side) <=> Room(s, -side, j) = 0
               /\ Room(s, -side, j) # 0 =>
                    /\ j - side \in 1 .. Len(s) /\ t.link[-side][s[j]] = s[j - side]
                    /\ Room(s, -side, j - side) = Room(s, -side, j) - 1
                    /\ Room(s, side, j - side) = Room(s, side, j) + 1
    <2>1. j + (-side) = j - side
      BY <1>2
    <2>2. /\ IsLast(t, s[j], -side) <=> Room(s, -side, j) = 0
          /\ Room(s, -side, j) # 0 =>
               /\ j + (-side) \in 1 .. Len(s) /\ t.link[-side][s[j]] = s[j + (-side)]
               /\ Room(s, -side, j + (-side)) = Room(s, -side, j) - 1
               /\ Room(s, -(-side), j + (-side)) = Room(s, -(-side), j) + 1
      BY <1>2, RoomFacts
    <2> QED BY <1>2, <2>1, <2>2
  <1>4. ASSUME NEW k \in Nat, NEW n \in Node, Ok(k, n)
        PROVE  Round(n) \in Node /\ Ok(k + 1, Round(n))
    <2>1. PICK j \in 1 .. Len(s) : At(k, n, j)
      BY <1>4
    <2>2. ASSUME Room(s, -side, j) # 0
          PROVE  Fits(s, key, side, j - side) <=> ~(side * Comp(key, KeyOf[t.link[-side][n]]) > 0)
      BY <1>3, <2>1, <2>2, Zenon DEF Fits, Beyond
    <2>3. CASE End(j)
      <3>1. Round(n) = n
        BY <1>3, <2>1, <2>2, <2>3, Zenon DEF AdvanceRound
      <3>2. At(k + 1, n, j)
        BY <2>1, <2>3
      <3> HIDE DEF Round, At
      <3> QED BY <3>1, <3>2
    <2>4. CASE ~End(j)
      <3>1. Room(s, -side, j) # 0 /\ Fits(s, key, side, j - side)
        BY <2>4
      <3>2. Round(n) = s[j - side]
        BY <1>3, <2>1, <2>2, <3>1, Zenon DEF AdvanceRound
      <3>3. Room(s, -side, j) + k < Len(s)
        BY <2>1, <2>4
      <3>4. (Room(s, -side, j) - 1) + (k + 1) < Len(s)
        BY <1>2, <3>3
      <3>5. At(k + 1, s[j - side], j - side)
        BY <1>3, <3>1, <3>4
      <3> HIDE DEF Round, At
      <3> QED BY <1>2, <1>3, <3>1, <3>2, <3>5
    <2> QED BY <2>3, <2>4
  <1>5. Ok(0, s[i])
    <2>1. At(0, s[i], i)
      BY <1>2
    <2> HIDE DEF At
    <2> QED BY <1>2, <2>1
  <1>6. Keeps(Node, g, Q, s[i])
    <2> HIDE DEF Ok, Round
    <2> QED BY <1>2, <1>4, <1>5 DEF Keeps
  <1> HIDE DEF Ok, Round
  <1>7. \E f : f = F(f)
    <2> HIDE DEF g, Q
    <2>1. PICK f : Iterates(f, g, Q, s[i])
      BY <1>6, Iteration
    <2>2. \A k \in Nat : f[k] \in Node
      BY <1>6, <2>1 DEF Keeps, Iterates
    <2>3. \A k \in Nat : f[k] = IF k = 0 THEN s[i] ELSE Round(f[k - 1])
      <3>1. \A k \in Nat : k # 0 => k - 1 \in Nat
        OBVIOUS
      <3> QED BY <2>1, <2>2, <3>1 DEF Iterates, g
    <2> QED BY <2>1, <2>3 DEF Iterates
  <1>8. after = F(after)
    BY <1>7, Zenon
  <1> HIDE DEF after
  <1>9. \A k \in Nat : after[k] \in Q[k]
    <2>1. after[0] = s[i] /\ \A k \in Nat : after[k] \in Node => after[k + 1] = g[after[k]]
      <3>1. \A k \in Nat : k + 1 \in Nat /\ k + 1 # 0 /\ (k + 1) - 1 = k
        OBVIOUS
      <3> QED BY <1>8, <3>1
    <2> HIDE DEF g, Q
    <2> QED BY <1>6, <2>1, Follows
  <1>10. Ok(Cardinality(Node), last)
    BY <1>2, <1>9
  <1> HIDE DEF last
  <1>11. PICK j \in 1 .. Len(s) : At(Cardinality(Node), last, j)
    BY <1>10 DEF Ok
  <1>12. End(j)
    <2>1. ~(Room(s, -side, j) + Cardinality(Node) < Len(s))
      BY <1>2
    <2> QED BY <1>11, <2>1
  <1>13. ASSUME NEW l, Fits(s, key, side, l) PROVE Room(s, -side, j) <= Room(s, -side, l)
    <2>1. l \in 1 .. Len(s) /\ Room(s, -side, l) \in Nat /\ Room(s, -side, j) \in Nat
      BY <1>2, <1>13 DEF Fits
    <2>2. CASE Room(s, -side, j) = 0
      BY <2>1, <2>2
    <2>3. CASE Room(s, -side, j) # 0
      <3>1. j - side \in 1 .. Len(s) /\ ~Fits(s, key, side, j - side)
            /\ Room(s, side, j - side) = Room(s, side, j) + 1
        BY <1>3, <1>12, <2>3
      <3>2. ~(Room(s, side, j - side) <= Room(s, side, l))
        BY <1>2, <1>13, <3>1, FitsOn
      <3>3. \A m \in 1 .. Len(s) : Room(s, side, m) + Room(s, -side, m) = Len(s) - 1
        <4>1. CASE side = Left
          BY <1>2, <4>1, Sides DEF Room
        <4>2. CASE side = Right
          BY <1>2, <4>2, Sides DEF Room
        <4> QED BY <4>1, <4>2, Sides
      <3>4. Room(s, side, j) \in Nat /\ Room(s, side, l) \in Nat
        BY <2>1, RoomFacts
      <3> QED BY <1>2, <2>1, <3>1, <3>2, <3>3, <3>4
    <2> QED BY <2>2, <2>3
  <1> QED BY <1>1, <1>11, <1>13

LEMMA SomeStem ==
    ASSUME NEW t, NEW s, NEW B, NEW V, Good(t, s, B, V), t.root = NULL
    PROVE  \A i : i \notin 1 .. Len(s)
  <1> SUFFICES ASSUME NEW i \in 1 .. Len(s) PROVE FALSE
    OBVIOUS
  <1>1. t \in Tree /\ Chained(t, s) /\ Sorted(t, s) /\ Shape(t, Stems(t, s), B) /\ s \in Seq(Node)
    BY DEF Good, Sound, Chained
  <1>2. Stems(t, s) = {}
    BY <1>1 DEF Shape
  <1>3. PICK j \in 1 .. i : Stem(t, s, j)
    BY <1>1, StemOf
  <1>4. s[j] \in Node
    BY <1>1, <1>3 DEF Stem
  <1>5. s[j] \in Stems(t, s)
    BY <1>3, <1>4 DEF Stems, Stem
  <1> QED BY <1>2, <1>5

(* What the search from the root finds is on the list.                      *)
LEMMA FoundAt ==
    ASSUME NEW t, NEW s, NEW B, NEW V, Good(t, s, B, V), t.root # NULL, NEW key \in Key
    PROVE  \E i : /\ Stem(t, s, i) /\ FindRec(t, key) = s[i] /\ Near(Stems(t, s), key, s[i])
  <1>1. t \in Tree /\ Shape(t, Stems(t, s), B)
    BY DEF Good, Sound
  <1>2. Found(t, Stems(t, s), key, FindRec(t, key))
    BY <1>1, FindRecFacts
  <1>3. FindRec(t, key) \in Stems(t, s) /\ Near(Stems(t, s), key, FindRec(t, key))
    BY <1>2 DEF Found
  <1> QED BY <1>3 DEF Stems

LEMMA FindAgrees ==
    ASSUME NEW t, NEW s, NEW B, NEW V, Good(t, s, B, V), NEW key \in Key
    PROVE  \/ Find(t, key) = NULL /\ \A j \in 1 .. Len(s) : Comp(KeyOf[s[j]], key) # 0
           \/ \E i \in 1 .. Len(s) :
                /\ Find(t, key) = s[i] /\ Comp(KeyOf[s[i]], key) = 0
                /\ \A j \in 1 .. Len(s) : Comp(KeyOf[s[j]], key) = 0 => i <= j
  <1>1. CASE t.root = NULL
    BY <1>1, SomeStem DEF Find
  <1>2. CASE t.root # NULL
    <2>1. PICK i : Stem(t, s, i) /\ FindRec(t, key) = s[i] /\ Near(Stems(t, s), key, s[i])
      BY <1>2, FoundAt
    <2>2. i \in 1 .. Len(s) /\ s \in Seq(Node) /\ Sorted(t, s) /\ i \in Int
          /\ \A j \in 1 .. Len(s) : j \in Int /\ s[j] \in Node /\ KeyOf[s[j]] \in Key
      BY <2>1, NodeKeys DEF Stem, Good, Chained
    <2>3. Comp(key, KeyOf[s[i]]) = 0 <=> Comp(KeyOf[s[i]], key) = 0
      BY <2>2, KeySides
    <2>4. CASE Comp(KeyOf[s[i]], key) = 0
      <3>1. Find(t, key) = s[i]
        BY <1>2, <2>1, <2>3, <2>4, Zenon DEF Find
      <3>2. ASSUME NEW j \in 1 .. Len(s), Comp(KeyOf[s[j]], key) = 0 PROVE i <= j
        <4>1. Comp(KeyOf[s[j]], KeyOf[s[i]]) = 0
          BY <2>2, <2>3, <2>4, <3>2, KeyOrder, KeySides, Sides
        <4>2. j # i => j > i
          BY <2>1, <2>2, <4>1, SameKey
        <4> QED BY <2>2, <4>2
      <3> QED BY <2>2, <2>4, <3>1, <3>2
    <2>5. CASE Comp(KeyOf[s[i]], key) # 0
      <3>1. Find(t, key) = NULL
        BY <1>2, <2>1, <2>3, <2>5, Zenon DEF Find
      <3>2. ASSUME NEW j \in 1 .. Len(s), Comp(KeyOf[s[j]], key) = 0 PROVE FALSE
        <4>1. Comp(KeyOf[s[j]], KeyOf[s[i]]) # 0
          <5>1. Comp(key, KeyOf[s[j]]) = 0
            BY <2>2, <3>2, KeySides
          <5>2. Comp(KeyOf[s[j]], KeyOf[s[i]]) = 0 <=> Comp(key, KeyOf[s[i]]) = 0
            BY <2>2, <5>1, KeyOrder, Sides
          <5> QED BY <2>3, <2>5, <5>2
        <4>2. \A d \in Side : Lies(d, s[j], s[i]) <=> Beyond(d, KeyOf[s[j]], key)
          BY <2>1, <2>2, <4>1, NearList
        <4>3. \A d \in Side : ~Beyond(d, KeyOf[s[j]], key)
          BY <2>2, <3>2, KeySides
        <4>4. \A d \in Side : ~Beyond(d, KeyOf[s[j]], KeyOf[s[i]])
          BY <4>2, <4>3, Zenon DEF Lies
        <4> QED BY <2>2, <4>1, <4>4, KeySides
      <3> QED BY <3>1, <3>2
    <2> QED BY <2>4, <2>5
  <1> QED BY <1>1, <1>2

LEMMA NearestAgrees ==
    ASSUME NEW t, NEW s, NEW B, NEW V, Good(t, s, B, V), NEW key \in Key, NEW side \in Side
    PROVE  \/ Nearest(t, key, side) = NULL /\ \A j \in 1 .. Len(s) : ~Fits(s, key, side, j)
           \/ \E j : /\ Fits(s, key, side, j) /\ Nearest(t, key, side) = s[j]
                     /\ \A l : Fits(s, key, side, l) => Room(s, -side, j) <= Room(s, -side, l)
  <1>1. CASE t.root = NULL
    BY <1>1, SomeStem DEF Nearest
  <1>2. CASE t.root # NULL
    <2>1. PICK i : Stem(t, s, i) /\ FindRec(t, key) = s[i]
      BY <1>2, FoundAt
    <2>2. i \in 1 .. Len(s) /\ t \in Tree /\ Chained(t, s) /\ Sorted(t, s)
      BY <2>1 DEF Stem, Good
    <2> DEFINE m == Retreat(t, key, s[i], side)
    <2>3. Nearest(t, key, side) = IF m = NULL THEN NULL ELSE Advance(t, key, m, side)
      BY <1>2, <2>1, Zenon DEF Nearest
    <2>4. \/ m = NULL /\ \A j \in 1 .. Len(s) : ~Fits(s, key, side, j)
          \/ \E j : Fits(s, key, side, j) /\ m = s[j]
      BY <2>2, RetreatFacts
    <2> HIDE DEF m
    <2>5. ASSUME NEW j, Fits(s, key, side, j), m = s[j]
          PROVE  \E k : /\ Fits(s, key, side, k) /\ Nearest(t, key, side) = s[k]
                        /\ \A l : Fits(s, key, side, l) => Room(s, -side, k) <= Room(s, -side, l)
      <3>1. m # NULL
        BY <2>2, <2>5, AvlAssumption DEF Fits, Chained
      <3>2. \E k : /\ Fits(s, key, side, k) /\ Advance(t, key, s[j], side) = s[k]
                   /\ \A l : Fits(s, key, side, l) => Room(s, -side, k) <= Room(s, -side, l)
        BY <2>2, <2>5, AdvanceFacts
      <3> QED BY <2>3, <2>5, <3>1, <3>2
    <2> QED BY <2>3, <2>4, <2>5
  <1> QED BY <1>1, <1>2

(* What the search answers, said with the sign the comparator returns.      *)
LEMMA FitsSign ==
    ASSUME NEW s \in Seq(Node), NEW key \in Key, NEW j \in 1 .. Len(s)
    PROVE  /\ Fits(s, key, Left, j) <=> Comp(KeyOf[s[j]], key) <= 0
           /\ Fits(s, key, Right, j) <=> Comp(KeyOf[s[j]], key) >= 0
  <1>1. KeyOf[s[j]] \in Key
    BY NodeKeys
  <1> DEFINE x == KeyOf[s[j]]
  <1>2. /\ Beyond(Left, key, x) <=> Comp(key, x) < 0
        /\ Beyond(Right, key, x) <=> Comp(key, x) > 0
    BY <1>1, KeySides
  <1>3. /\ Comp(key, x) < 0 <=> Comp(x, key) > 0
        /\ Comp(x, key) < 0 <=> Comp(key, x) > 0
        /\ Comp(x, key) \in Int
    BY <1>1, CompAssumption
  <1> QED BY <1>2, <1>3 DEF Fits

LEMMA LookupsHold == IInv => LookupsAgree
  <1> SUFFICES ASSUME IInv, NEW k \in Probe
               PROVE  LET s    == Elements(tree)
                          At(i) == IF i = 0 THEN NULL ELSE s[i]
                          Highest(S) == At(IF S = {} THEN 0 ELSE CHOOSE i \in S : \A j \in S : j <= i)
                          Lowest(S)  == At(IF S = {} THEN 0 ELSE CHOOSE i \in S : \A j \in S : i <= j)
                          Is(i) == Comp(KeyOf[s[i]], k)
                      IN  /\ Find(tree, k) = Lowest({i \in DOMAIN s : Is(i) = 0})
                          /\ Nearest(tree, k, Left) = Highest({i \in DOMAIN s : Is(i) <= 0})
                          /\ Nearest(tree, k, Right) = Lowest({i \in DOMAIN s : Is(i) >= 0})
    BY Zenon DEF LookupsAgree
  <1> DEFINE s == Elements(tree)
  <1>1. PICK B, V : Good(tree, s, B, V)
    <2>1. PICK r, B, V : Good(tree, r, B, V)
      BY DEF IInv
    <2>2. Elements(tree) = r
      BY <2>1, GoodElements
    <2> QED BY <2>1, <2>2
  <1> HIDE DEF s
  <1>2. /\ s \in Seq(Node) /\ DOMAIN s = 1 .. Len(s) /\ Len(s) \in Nat
        /\ k \in Key /\ tree \in Tree
    BY <1>1, GoodElements DEF Key, Good
  <1> DEFINE At(i) == IF i = 0 THEN NULL ELSE s[i]
             Highest(S) == At(IF S = {} THEN 0 ELSE CHOOSE i \in S : \A j \in S : j <= i)
             Lowest(S)  == At(IF S = {} THEN 0 ELSE CHOOSE i \in S : \A j \in S : i <= j)
             Is(i) == Comp(KeyOf[s[i]], k)
             Same  == {i \in DOMAIN s : Is(i) = 0}
             AtMost == {i \in DOMAIN s : Is(i) <= 0}
             AtLeast == {i \in DOMAIN s : Is(i) >= 0}
  <1>3. ASSUME NEW S \in SUBSET (1 .. Len(s)), NEW i \in S, \A j \in S : i <= j PROVE Lowest(S) = s[i]
    <2>1. \A l \in S : (\A j \in S : l <= j) => l = i
      BY <1>2, <1>3
    <2>2. (CHOOSE l \in S : \A j \in S : l <= j) = i
      BY <1>3, <2>1
    <2>3. S # {} /\ i # 0
      BY <1>2
    <2> QED BY <2>2, <2>3
  <1>4. ASSUME NEW S \in SUBSET (1 .. Len(s)), NEW i \in S, \A j \in S : j <= i PROVE Highest(S) = s[i]
    <2>1. \A l \in S : (\A j \in S : j <= l) => l = i
      BY <1>2, <1>4
    <2>2. (CHOOSE l \in S : \A j \in S : j <= l) = i
      BY <1>4, <2>1
    <2>3. S # {} /\ i # 0
      BY <1>2
    <2> QED BY <2>2, <2>3
  <1>5. Lowest({}) = NULL /\ Highest({}) = NULL
    OBVIOUS
  <1> HIDE DEF Lowest, Highest
  <1>6. Find(tree, k) = Lowest(Same)
    <2>1. \/ Find(tree, k) = NULL /\ \A j \in 1 .. Len(s) : Is(j) # 0
          \/ \E i \in 1 .. Len(s) : /\ Find(tree, k) = s[i] /\ Is(i) = 0
                                    /\ \A j \in 1 .. Len(s) : Is(j) = 0 => i <= j
      BY <1>1, <1>2, FindAgrees
    <2>2. Same \in SUBSET (1 .. Len(s))
      BY <1>2
    <2> HIDE DEF Is
    <2>3. CASE Find(tree, k) = NULL /\ \A j \in 1 .. Len(s) : Is(j) # 0
      <3>1. Same = {}
        BY <1>2, <2>3
      <3> QED BY <1>5, <2>3, <3>1
    <2>4. ASSUME NEW i \in 1 .. Len(s), Find(tree, k) = s[i], Is(i) = 0,
                 \A j \in 1 .. Len(s) : Is(j) = 0 => i <= j
          PROVE  Find(tree, k) = Lowest(Same)
      <3>1. i \in Same /\ \A j \in Same : i <= j
        BY <1>2, <2>4
      <3> QED BY <1>3, <2>2, <2>4, <3>1
    <2> QED BY <2>1, <2>3, <2>4
  <1>7. AtMost = {j \in 1 .. Len(s) : Fits(s, k, Left, j)} /\ AtLeast = {j \in 1 .. Len(s) : Fits(s, k, Right, j)}
    BY <1>2, FitsSign
  <1>8. \A side \in Side : \A j : Fits(s, k, side, j) => j \in 1 .. Len(s)
    BY DEF Fits
  <1> HIDE DEF AtMost, AtLeast, Same, Is
  <1>9. Nearest(tree, k, Left) = Highest(AtMost)
    <2>1. \/ Nearest(tree, k, Left) = NULL /\ \A j \in 1 .. Len(s) : ~Fits(s, k, Left, j)
          \/ \E j : /\ Fits(s, k, Left, j) /\ Nearest(tree, k, Left) = s[j]
                    /\ \A l : Fits(s, k, Left, l) => Room(s, Right, j) <= Room(s, Right, l)
      BY <1>1, <1>2, NearestAgrees, Sides
    <2>2. CASE Nearest(tree, k, Left) = NULL /\ \A j \in 1 .. Len(s) : ~Fits(s, k, Left, j)
      <3>1. AtMost = {}
        BY <1>7, <2>2
      <3> QED BY <1>5, <2>2, <3>1
    <2>3. ASSUME NEW j, Fits(s, k, Left, j), Nearest(tree, k, Left) = s[j],
                 \A l : Fits(s, k, Left, l) => Room(s, Right, j) <= Room(s, Right, l)
          PROVE  Nearest(tree, k, Left) = Highest(AtMost)
      <3>1. j \in 1 .. Len(s) /\ j \in AtMost /\ AtMost \in SUBSET (1 .. Len(s))
        BY <1>7, <1>8, <2>3, Sides
      <3>2. ASSUME NEW l \in AtMost PROVE l <= j
        <4>1. Room(s, Right, j) <= Room(s, Right, l) /\ l \in 1 .. Len(s)
          BY <1>7, <2>3, <3>2
        <4> QED BY <1>2, <3>1, <4>1, Sides DEF Room
      <3> QED BY <1>4, <2>3, <3>1, <3>2
    <2> QED BY <2>1, <2>2, <2>3
  <1>10. Nearest(tree, k, Right) = Lowest(AtLeast)
    <2>1. \/ Nearest(tree, k, Right) = NULL /\ \A j \in 1 .. Len(s) : ~Fits(s, k, Right, j)
          \/ \E j : /\ Fits(s, k, Right, j) /\ Nearest(tree, k, Right) = s[j]
                    /\ \A l : Fits(s, k, Right, l) => Room(s, Left, j) <= Room(s, Left, l)
      BY <1>1, <1>2, NearestAgrees, Sides
    <2>2. CASE Nearest(tree, k, Right) = NULL /\ \A j \in 1 .. Len(s) : ~Fits(s, k, Right, j)
      <3>1. AtLeast = {}
        BY <1>7, <2>2
      <3> QED BY <1>5, <2>2, <3>1
    <2>3. ASSUME NEW j, Fits(s, k, Right, j), Nearest(tree, k, Right) = s[j],
                 \A l : Fits(s, k, Right, l) => Room(s, Left, j) <= Room(s, Left, l)
          PROVE  Nearest(tree, k, Right) = Lowest(AtLeast)
      <3>1. j \in 1 .. Len(s) /\ j \in AtLeast /\ AtLeast \in SUBSET (1 .. Len(s))
        BY <1>7, <1>8, <2>3, Sides
      <3>2. ASSUME NEW l \in AtLeast PROVE j <= l
        <4>1. Room(s, Left, j) <= Room(s, Left, l) /\ l \in 1 .. Len(s)
          BY <1>7, <2>3, <3>2
        <4> QED BY <1>2, <3>1, <4>1, Sides DEF Room
      <3> QED BY <1>3, <2>3, <3>1, <3>2
    <2> QED BY <2>1, <2>2, <2>3
  <1> QED BY <1>6, <1>9, <1>10, Zenon DEF s, Lowest, Highest, Same, AtMost, AtLeast, Is

(* avl_find, avl_find_lessequal and avl_find_greaterequal answer what a     *)
(* look through the whole list would: the first of equal keys, the last     *)
(* element not above the key, the first not below it.                       *)
THEOREM LookupsAgreeHolds == Spec => []LookupsAgree
  <1> QED BY Inductive, LookupsHold, PTL

=============================================================================
