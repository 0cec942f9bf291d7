---------------------------- MODULE OonfAvlSpec ----------------------------
(***************************************************************************)
(* What an avl_tree promises its users: the elements in key order, equal   *)
(* keys next to each other with the first of them in front, every key at   *)
(* most once unless the tree allows duplicates.                            *)
(***************************************************************************)
EXTENDS Integers, Sequences, SequencesExt, FiniteSets

CONSTANTS Node, KeyOf, AllowDups, Comp(_, _)
VARIABLE order           \* the elements, in the order of avl_for_each_element

\* The place a new element takes: behind every smaller key; behind the first
\* element with the same key when there is one.
Place(s, n) ==
  LET before == {i \in DOMAIN s : Comp(KeyOf[s[i]], KeyOf[n]) < 0}
      same   == {i \in DOMAIN s : Comp(KeyOf[s[i]], KeyOf[n]) = 0}
  IN  1 + Cardinality(before) + (IF same = {} THEN 0 ELSE 1)

OrderedInsert(s, n) == InsertAt(s, Place(s, n), n)

OrderInit == order = <<>>

Add(n) ==
  /\ n \notin ToSet(order)
  /\ AllowDups \/ \A m \in ToSet(order) : Comp(KeyOf[m], KeyOf[n]) # 0
  /\ order' = OrderedInsert(order, n)

Drop(n)  == \E i \in DOMAIN order : order[i] = n /\ order' = RemoveAt(order, i)
DropAll  == order # <<>> /\ order' = <<>>

OrderNext == DropAll \/ \E n \in Node : Add(n) \/ Drop(n)
OrderSpec == OrderInit /\ [][OrderNext]_order

=============================================================================
