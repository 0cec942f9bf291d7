---------------------------- MODULE CJsonHeapOps ----------------------------
(***************************************************************************)
(* The nodes of cJSON documents in a heap of few cells, and what cJSON.c   *)
(* does with them: linking and unlinking, deleting, copying, comparing,    *)
(* printing and parsing.  An operator that changes the heap returns the    *)
(* new heap; one that allocates returns Nil as its node when there is no   *)
(* free cell.  The cells of a heap are its domain.                         *)
(***************************************************************************)
EXTENDS CJsonTextOps

CONSTANTS
  Node, Nil,              \* the cells; the NULL pointer
  IntMax,                 \* INT_MAX, to which valueint saturates
  NestingLimit            \* CJSON_NESTING_LIMIT
ASSUME CJsonAssumption == Nil \notin Node /\ IntMax \in Nat /\ NestingLimit \in Nat

MaxNode == Cardinality(Node)
Cells(h) == Cardinality(DOMAIN h)
NoText == <<-1>>          \* a NULL string
Container == {"Array", "Object"}

\* cJSON_New_Item zeroes the cell.
Zeroed == [type |-> "Invalid", ref |-> FALSE, next |-> Nil, prev |-> Nil,
           child |-> Nil, key |-> NoText, text |-> NoText, num |-> 0, int |-> 0]
Free == [Zeroed EXCEPT !.type = "Free"]
Empty == [n \in Node |-> Free]

Live(h) == {n \in DOMAIN h : h[n].type # "Free"}
\* Which free cell malloc takes makes no difference.
NextFree(h) == IF Live(h) = DOMAIN h THEN Nil ELSE CHOOSE n \in DOMAIN h \ Live(h) : TRUE

\* The list of the siblings of n, from n on; never longer than the heap.
RECURSIVE Siblings(_, _, _)
Siblings(h, n, fuel) ==
  IF n = Nil \/ fuel = 0 THEN <<>> ELSE <<n>> \o Siblings(h, h[n].next, fuel - 1)
Kids(h, n) == Siblings(h, h[n].child, Cells(h))

RECURSIVE Doomed(_, _, _)
Doomed(h, n, fuel) ==
  UNION {{m} \cup (IF h[m].ref \/ fuel = 0 THEN {} ELSE Doomed(h, h[m].child, fuel - 1)) :
           m \in ToSet(Siblings(h, n, Cells(h)))}

\* Variant: the children are forgotten.
DeleteShallow(h, n) == [m \in DOMAIN h |-> IF m \in ToSet(Siblings(h, n, Cells(h))) THEN Free ELSE h[m]]

\* cJSON_Delete: a node, the siblings behind it, and what they own.
Delete(h, n) == [m \in DOMAIN h |-> IF m \in Doomed(h, n, Cells(h)) THEN Free ELSE h[m]]

Clamped(n) == IF n >= IntMax THEN IntMax ELSE IF n <= -IntMax - 1 THEN -IntMax - 1 ELSE n

-----------------------------------------------------------------------------
(* Lists *)

GetArrayItem(h, a, which) ==
  LET kids == Kids(h, a) IN IF which \in 0 .. Len(kids) - 1 THEN kids[which + 1] ELSE Nil

\* get_object_item: the case sensitive search stops at a child without a name.
GetObjectItem(h, o, name, caseSensitive) ==
  LET kids == Kids(h, o)
      Stops(k) == \/ caseSensitive /\ h[k].key = NoText
                  \/ h[k].key # NoText /\ SameName(name, h[k].key, caseSensitive)
      hits == {i \in DOMAIN kids : Stops(kids[i])}
  IN  IF o = Nil \/ hits = {} THEN Nil
      ELSE IF h[kids[Min(hits)]].key = NoText THEN Nil ELSE kids[Min(hits)]

SuffixObject(h, prev, x) == [h EXCEPT ![prev].next = x, ![x].prev = prev]

\* add_item_to_array: prev of the first element is the last one, if it is set.
AddItemToArray(h, a, x) ==
  LET first == h[a].child
      last  == IF h[first].prev # Nil THEN h[first].prev ELSE Last(Kids(h, a))
  IN  IF first = Nil THEN [h EXCEPT ![a].child = x, ![x].prev = x, ![x].next = Nil]
      ELSE [SuffixObject(h, last, x) EXCEPT ![first].prev = x]

\* add_item_to_object, when there is memory for the name or it is constant.
AddItemToObject(h, o, name, x) == AddItemToArray([h EXCEPT ![x].key = name], o, x)

\* Variant: the first element is not told.
LastForgotten(h, parent, x) == h

\* The first element of a list points back to the last.
LastTold(h, parent, x) == [h EXCEPT ![h[parent].child].prev = x]

\* cJSON_DetachItemViaPointer.
Detach(h, parent, x) ==
  LET n == h[x].next
      p == h[x].prev
      first == h[parent].child = x
      Skipped == IF first THEN h ELSE [h EXCEPT ![p].next = n]
      Closed  == IF n = Nil THEN Skipped ELSE [Skipped EXCEPT ![n].prev = p]
      Owned   == IF first THEN [Closed EXCEPT ![parent].child = n]
                 ELSE IF n = Nil THEN LastTold(Closed, parent, p) ELSE Closed
  IN  [Owned EXCEPT ![x].prev = Nil, ![x].next = Nil]

\* Variant: the elements behind are forgotten.
PlacedLast(h, x, n, p) == [h EXCEPT ![x].prev = p]

Placed(h, x, n, p) == [h EXCEPT ![x].next = n, ![x].prev = p]

\* cJSON_InsertItemInArray.
InsertItemInArray(h, a, which, x) ==
  LET after == GetArrayItem(h, a, which)
      p     == h[after].prev
      put   == [Placed(h, x, after, p) EXCEPT ![after].prev = x]
  IN  IF after = Nil THEN AddItemToArray(h, a, x)
      ELSE IF h[a].child = after THEN [put EXCEPT ![a].child = x]
      ELSE [put EXCEPT ![p].next = x]

\* cJSON_ReplaceItemViaPointer.
Replace(h, parent, x, y) ==
  LET n == h[x].next
      p == h[x].prev
      put == Placed(h, y, n, p)
      Back == IF n = Nil THEN put ELSE [put EXCEPT ![n].prev = y]
      Forth == IF p = Nil THEN Back ELSE [Back EXCEPT ![p].next = y]
      Held == IF h[parent].child = x
                THEN [Back EXCEPT ![parent].child = y, ![y].prev = IF p = x THEN y ELSE p]
                ELSE IF n = Nil THEN LastTold(Forth, parent, y) ELSE Forth
  IN  IF x = y THEN h ELSE Delete([Held EXCEPT ![x].next = Nil, ![x].prev = Nil], x)

-----------------------------------------------------------------------------
(* Creating, copying, comparing *)

\* The cJSON_Create functions: s is [type, text, num].
Create(h, s) ==
  LET n == NextFree(h)
  IN  [n |-> n,
       h |-> IF n = Nil THEN h
             ELSE [h EXCEPT ![n] = [Zeroed EXCEPT !.type = s.type, !.text = s.text, !.num = s.num,
                                                  !.int = Clamped(s.num)]]]

\* create_reference.
CreateReference(h, x) ==
  LET n == NextFree(h)
  IN  [n |-> n,
       h |-> IF n = Nil THEN h
             ELSE [h EXCEPT ![n] = [h[x] EXCEPT !.key = NoText, !.ref = TRUE,
                                                !.next = Nil, !.prev = Nil]]]

\* cJSON_CreateIntArray and its kin: the first element gets no prev.
CreateArray(h, items) ==
  LET a == Create(h, [type |-> "Array", text |-> NoText, num |-> 0])
      Add(s, item) ==
        LET c == Create(s.h, item)
        IN  IF s.n = Nil THEN s
            ELSE IF c.n = Nil THEN [n |-> Nil, last |-> Nil, h |-> Delete(s.h, s.n)]
            ELSE [n |-> s.n, last |-> c.n,
                  h |-> IF s.last = Nil THEN [c.h EXCEPT ![s.n].child = c.n]
                        ELSE SuffixObject(c.h, s.last, c.n)]
      r == FoldLeft(Add, [n |-> a.n, last |-> Nil, h |-> a.h], items)
  IN  [n |-> r.n, h |-> r.h]

\* Variant: a copy shares the children.
DuplicateShared(h, x, recurse) ==
  LET n == NextFree(h)
  IN  IF n = Nil THEN [n |-> Nil, h |-> h]
      ELSE [n |-> n, h |-> [h EXCEPT ![n] = [h[x] EXCEPT !.ref = FALSE, !.next = Nil, !.prev = Nil]]]

\* cJSON_Duplicate: of a failed copy nothing is left.
RECURSIVE Duplicate(_, _, _)
Duplicate(h, x, recurse) ==
  LET n == NextFree(h)
      bare == [h EXCEPT ![n] = [h[x] EXCEPT !.ref = FALSE, !.next = Nil, !.prev = Nil, !.child = Nil]]
      Add(s, k) ==
        LET c == Duplicate(s.h, k, TRUE)
        IN  IF ~s.ok THEN s
            ELSE IF c.n = Nil THEN [ok |-> FALSE, last |-> Nil, h |-> Delete(c.h, n)]
            ELSE [ok |-> TRUE, last |-> c.n,
                  h |-> IF s.last = Nil THEN [c.h EXCEPT ![n].child = c.n]
                        ELSE SuffixObject(c.h, s.last, c.n)]
      all == FoldLeft(Add, [ok |-> TRUE, last |-> Nil, h |-> bare], Kids(h, x))
  IN  IF n = Nil THEN [n |-> Nil, h |-> h]
      ELSE IF ~recurse THEN [n |-> n, h |-> bare]
      ELSE [n |-> IF all.ok THEN n ELSE Nil, h |-> all.h]

\* cJSON_Compare.
RECURSIVE Compare(_, _, _, _)
Compare(h, a, b, caseSensitive) ==
  LET ka == Kids(h, a)
      kb == Kids(h, b)
      Within(ks, o) == \A k \in ToSet(ks) :
        LET e == IF h[k].key = NoText THEN Nil ELSE GetObjectItem(h, o, h[k].key, caseSensitive)
        IN  e # Nil /\ Compare(h, k, e, caseSensitive)
  IN  /\ h[a].type = h[b].type /\ h[a].type # "Invalid"
      /\ \/ a = b
         \/ h[a].type \in {"False", "True", "NULL"}
         \/ h[a].type = "Number" /\ h[a].num = h[b].num
         \/ h[a].type \in {"String", "Raw"} /\ h[a].text # NoText /\ h[a].text = h[b].text
         \/ /\ h[a].type = "Array" /\ Len(ka) = Len(kb)
            /\ \A i \in DOMAIN ka : Compare(h, ka[i], kb[i], caseSensitive)
         \/ h[a].type = "Object" /\ Within(ka, b) /\ Within(kb, a)

=============================================================================
