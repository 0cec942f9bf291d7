------------------------------- MODULE CJson -------------------------------
(***************************************************************************)
(* A user of cJSON builds, edits, copies, prints and parses documents in a *)
(* heap of few cells, so that any allocation of a node may fail.  One call *)
(* is one step.  The user keeps to the rules of the interface: an item is  *)
(* put into one list at most and never into itself, and neither a          *)
(* reference nor what it refers to is changed or deleted while the         *)
(* reference is there.                                                     *)
(***************************************************************************)
EXTENDS CJsonCodecOps

CONSTANTS
  Scalar,          \* what items are created with: [type, text, num]
  Name, Asked,     \* the names given to members, and those asked for
  Number,          \* the numbers an item may be set to
  Given,           \* texts parsed
  MaxRefs, MaxHeld, \* bounds: references, items in no list
  MaxSpare         \* cells a copy or a parse may find besides the free ones
ASSUME SpareAssumption == MaxSpare \in Nat /\ (Node \cup {Nil}) \cap (1 .. MaxSpare) = {}

VARIABLES
  h,               \* the heap
  held             \* the items the user holds, in no list
vars == <<h, held>>

Blank(type) == [type |-> type, text |-> NoText, num |-> 0]

Init == h = Empty /\ held = {}

-----------------------------------------------------------------------------
(* What the user may touch *)

Refs == {r \in Live(h) : h[r].ref}
SeenBy(refs) == UNION {Doomed(h, h[r].child, Cells(h)) : r \in refs}

MayHold == Cardinality(held) < MaxHeld

\* An item and what it owns.
Tree(x) == {x} \cup (IF h[x].ref THEN {} ELSE Doomed(h, h[x].child, Cells(h)))

\* The containers of a type the user may change, and a place in one or behind it.
Editable(type) ==
  LET seen == SeenBy(Refs)
  IN  {a \in Live(h) : h[a].type = type /\ ~h[a].ref /\ ({a, h[a].child} \cap seen) = {}}
Places(a) == 0 .. Len(Kids(h, a))
Owning == {x \in Live(h) : h[x].child # Nil}
MayDelete(x) == Tree(x) \cap SeenBy(Refs \ Tree(x)) = {}
MayAdd(a, x) == x \in held /\ a \notin Tree(x)

-----------------------------------------------------------------------------
(* The calls *)

CreateItem(s) ==
  MayHold /\ \E c \in {Create(h, s)} : c.n # Nil /\ h' = c.h /\ held' = held \cup {c.n}

CreateArrayOf(items) ==
  MayHold /\ \E c \in {CreateArray(h, items)} : h' = c.h /\ held' = held \cup ({c.n} \ {Nil})

AddToArray(a, x) ==
  /\ MayAdd(a, x)
  /\ h' = AddItemToArray(h, a, x) /\ held' = held \ {x}

AddToObject(o, name, x) ==
  /\ MayAdd(o, x)
  /\ h' = AddItemToObject(h, o, name, x) /\ held' = held \ {x}

\* Variant: an item that cannot be added is left.
AddNewLeft(heap, o, name, s, oom) ==
  LET c == Create(heap, s)
  IN  IF c.n = Nil THEN c
      ELSE IF o = Nil \/ oom THEN [n |-> Nil, h |-> c.h]
      ELSE [n |-> c.n, h |-> AddItemToObject(c.h, o, name, c.n)]

\* cJSON_AddNullToObject and its kin; oom: the name cannot be copied.
AddNew(heap, o, name, s, oom) ==
  LET c == Create(heap, s)
  IN  IF c.n = Nil THEN c
      ELSE IF o = Nil \/ oom THEN [n |-> Nil, h |-> Delete(c.h, c.n)]
      ELSE [n |-> c.n, h |-> AddItemToObject(c.h, o, name, c.n)]

AddNewToObject(o, name, s) ==
  /\ \E c \in {AddNew(h, o, name, s, FALSE)} : c.n # Nil /\ h' = c.h
  /\ UNCHANGED held

AddReferenceToArray(a, x) ==
  /\ a \notin Tree(x) /\ Cardinality(Refs) < MaxRefs
  /\ \E c \in {CreateReference(h, x)} : c.n # Nil /\ h' = AddItemToArray(c.h, a, c.n)
  /\ UNCHANGED held

\* The reference is lost when there is no memory for the name.
AddReferenceToObject(o, name, x, oom) ==
  /\ o \notin Tree(x) /\ Cardinality(Refs) < MaxRefs
  /\ \E c \in {CreateReference(h, x)} :
       c.n # Nil /\ h' = IF oom THEN c.h ELSE AddItemToObject(c.h, o, name, c.n)
  /\ UNCHANGED held

\* cJSON_DetachItem..., and with remove cJSON_DeleteItem...
TakeOut(parent, x, remove) ==
  /\ x # Nil /\ (IF remove THEN MayDelete(x) ELSE MayHold)
  /\ \E d \in {Detach(h, parent, x)} : h' = IF remove THEN Delete(d, x) ELSE d
  /\ held' = IF remove THEN held ELSE held \cup {x}

TakeFromArray(a, which, remove) ==
  TakeOut(a, GetArrayItem(h, a, which), remove)

TakeFromObject(o, name, caseSensitive, remove) ==
  TakeOut(o, GetObjectItem(h, o, name, caseSensitive), remove)

InsertInArray(a, which, x) ==
  /\ MayAdd(a, x)
  /\ h' = InsertItemInArray(h, a, which, x) /\ held' = held \ {x}

ReplaceInArray(a, which, y) ==
  /\ MayAdd(a, y)
  /\ \E x \in {GetArrayItem(h, a, which)} : x # Nil /\ MayDelete(x) /\ h' = Replace(h, a, x, y)
  /\ held' = held \ {y}

\* replace_item_in_object renames the item first, to no name without memory (oom).
ReplaceInObject(o, name, caseSensitive, y, oom) ==
  LET renamed == [h EXCEPT ![y].key = IF oom THEN NoText ELSE name]
  IN  /\ MayAdd(o, y)
      /\ \E x \in {GetObjectItem(h, o, name, caseSensitive)} :
           IF x = Nil THEN h' = renamed /\ UNCHANGED held
           ELSE MayDelete(x) /\ h' = Replace(renamed, o, x, y) /\ held' = held \ {y}

DeleteItem(x) ==
  x \in held /\ MayDelete(x) /\ h' = Delete(h, x) /\ held' = held \ {x}

DuplicateItem(x, recurse) ==
  MayHold /\ \E c \in {Duplicate(h, x, recurse)} : h' = c.h /\ held' = held \cup ({c.n} \ {Nil})

SetNumber(x, n) ==
  /\ h[x].type = "Number"
  /\ h' = [h EXCEPT ![x].num = n, ![x].int = Clamped(n)] /\ UNCHANGED held

SetValuestring(x, s) ==
  /\ h[x].type = "String" /\ ~h[x].ref
  /\ h' = [h EXCEPT ![x].text = s] /\ UNCHANGED held

ParseText(c, requireNul) ==
  MayHold /\ \E p \in {Parse(h, c, requireNul)} : h' = p.h /\ held' = held \cup ({p.n} \ {Nil})

\* Bound: members without a name, which would come back with an empty one, are left
\* to RoundTrip.
Reparse(x, fmt) ==
  /\ \A o \in Tree(x) : h[o].type = "Object" => \A k \in ToSet(Kids(h, o)) : h[k].key # NoText
  /\ ParseText(Append(Printed(h, x, fmt), 0), TRUE)

Next ==
  \/ \E s \in Scalar \cup {Blank("Array"), Blank("Object")} : CreateItem(s)
  \/ \E s \in Scalar : CreateArrayOf(<<s, s>>)
  \/ \E a \in Editable("Array"), x \in held : AddToArray(a, x)
  \/ \E o \in Editable("Object"), name \in Name, x \in held : AddToObject(o, name, x)
  \/ \E o \in Editable("Object"), name \in Name, s \in Scalar : AddNewToObject(o, name, s)
  \/ \E a \in Editable("Array"), x \in Owning : AddReferenceToArray(a, x)
  \/ \E o \in Editable("Object"), name \in Name, x \in Owning, oom \in BOOLEAN : AddReferenceToObject(o, name, x, oom)
  \/ \E a \in Editable("Array") : \E which \in Places(a), remove \in BOOLEAN : TakeFromArray(a, which, remove)
  \/ \E o \in Editable("Object"), name \in Asked, cs \in BOOLEAN, remove \in BOOLEAN : TakeFromObject(o, name, cs, remove)
  \/ \E a \in Editable("Array") : \E which \in Places(a), x \in held : InsertInArray(a, which, x)
  \/ \E a \in Editable("Array") : \E which \in Places(a), y \in held : ReplaceInArray(a, which, y)
  \/ \E o \in Editable("Object"), name \in Name, cs \in BOOLEAN, y \in held, oom \in BOOLEAN :
       ReplaceInObject(o, name, cs, y, oom)
  \/ \E x \in held : DeleteItem(x)
  \/ \E x \in Live(h), recurse \in BOOLEAN : DuplicateItem(x, recurse)
  \/ \E x \in Live(h), n \in Number : SetNumber(x, n)
  \/ \E x \in Live(h), s \in Asked : SetValuestring(x, s)
  \/ h = Empty /\ \E c \in Given : ParseText(c, FALSE)     \* bound: before anything else
  \/ \E x \in held, fmt \in BOOLEAN : Reparse(x, fmt)

Spec == Init /\ [][Next]_vars

-----------------------------------------------------------------------------
(* Properties *)

Owners(n) == {o \in Live(h) : ~h[o].ref /\ n \in ToSet(Kids(h, o))}

\* The children of n in g are a doubly linked list; its first element knows the last
\* one or no one.
LinkedIn(g, n) ==
  \A kids \in {Kids(g, n)} : kids # <<>> =>
    /\ ToSet(kids) \subseteq Live(g) /\ g[Last(kids)].next = Nil
    /\ g[kids[1]].prev \in {Nil, Last(kids)}
    /\ \A i \in 2 .. Len(kids) : g[kids[i]].prev = kids[i - 1]

\* However items were put into and taken out of a list, it is doubly linked, and
\* its first element knows the last one or no one: the next append would go astray
\* otherwise (cJSON.c:1970).  An item in no list points nowhere.
WellLinked ==
  /\ \A n \in Live(h) : LinkedIn(h, n)
  /\ \A n \in held : h[n].next = Nil /\ h[n].prev = Nil

\* Every node belongs to one list or to the user, so that deleting everything
\* frees it once: nothing is lost when an allocation fails half way through a
\* copy, a parse or a replacement (cJSON.c:2754, :1521, :2336).  Only a reference may
\* get lost, for want of memory for its name (cJSON.c:2076).
NothingLost ==
  \A n \in Live(h) :
    LET places == Cardinality(Owners(n)) + (IF n \in held THEN 1 ELSE 0)
    IN  places = 1 \/ (h[n].ref /\ places = 0)

\* One element more, one less, or one exchanged.
OneEdit(s, t) ==
  \/ \E i \in 1 .. Len(t) : s = RemoveAt(t, i)
  \/ \E i \in 1 .. Len(s) : t = RemoveAt(s, i)
  \/ Len(s) = Len(t) /\ \E i \in 1 .. Len(s) : RemoveAt(s, i) = RemoveAt(t, i)

\* A call edits at most one list, in one place; all other lists keep their
\* elements and their order (cJSON.c:2187, :2263, :2292).
EditsOneList ==
  [][LET Changed == {n \in Live(h) \cap Live(h)' : Kids(h, n) # Kids(h', n)}
     IN  Cardinality(Changed) <= 1 /\ \A n \in Changed : OneEdit(Kids(h, n), Kids(h', n))]_vars

\* What a document says, to a reader of its text.
RECURSIVE Value(_, _)
Value(g, n) ==
  [type |-> g[n].type, text |-> g[n].text, num |-> g[n].num, int |-> g[n].int,
   kids |-> [i \in DOMAIN Kids(g, n) |->
     [name |-> IF g[n].type # "Object" THEN <<>>
               ELSE IF g[Kids(g, n)[i]].key = NoText THEN <<>> ELSE g[Kids(g, n)[i]].key,
      value |-> Value(g, Kids(g, n)[i])]]]

RECURSIVE NamesDiffer(_)
NamesDiffer(v) ==
  /\ \A i, j \in DOMAIN v.kids : v.type = "Object" /\ SameName(v.kids[i].name, v.kids[j].name, FALSE) => i = j
  /\ \A i \in DOMAIN v.kids :
       NamesDiffer(v.kids[i].value) /\ (v.type = "Object" => v.kids[i].name # <<>>)

RECURSIVE Size(_)
Size(v) == 1 + FoldLeft(LAMBDA sum, k : sum + Size(k.value), 0, v.kids)

\* The heap with k free cells more.
Roomier(k) == [n \in Node \cup 1 .. k |-> IF n \in Node THEN h[n] ELSE Free]

\* A copy of x, which says v, made in the heap g.
FaithfulCopy(g, x, v) ==
  \A c \in {Duplicate(g, x, TRUE)}, room \in {Cells(g) - Cardinality(Live(g))} :
    /\ \A n \in Live(g) : c.h[n] = g[n]
    /\ c.n = Nil <=> Size(v) > room
    /\ c.n = Nil => c.h = g
    /\ c.n # Nil => /\ Value(c.h, c.n) = v
                    /\ Doomed(c.h, c.n, Cells(g)) = Live(c.h) \ Live(g)
                    /\ \A n \in Live(c.h) \ Live(g) : LinkedIn(c.h, n)
                    /\ NamesDiffer(v) => Compare(c.h, c.n, x, FALSE)

\* A copy says what the original says, in the order of the original, is linked like
\* any list and shares no node with the original, nor with what it refers to; the
\* original is as it was.  It fails where the memory ends, at whichever node that is,
\* and only there; then nothing of it is left.  cJSON_Compare finds the two equal
\* unless two members of an object have the same name, or one has none
\* (cJSON.c:2684, :2736, :2754, :2960).  More cells than a copy needs make no difference.
CopyIsFaithful ==
  \A x \in Live(h) : \A v \in {Value(h, x)} : \A k \in 0 .. Min({MaxSpare, Size(v)}) :
    k = 0 \/ MaxNode - Cardinality(Live(h)) + k <= Size(v) => FaithfulCopy(Roomier(k), x, v)

\* The one document there is, when there is no other.  Neither names that are not
\* printed nor whether a first element knows the last one make a difference to its text.
Documents ==
  {x \in held : /\ Tree(x) = Live(h) /\ h[x].key = NoText
                /\ \A n \in Live(h) : \A k \in ToSet(Kids(h, n)) :
                     /\ h[n].type = "Array" => h[k].key = NoText
                     /\ k = Kids(h, n)[1] => h[k].prev = Last(Kids(h, n))}

RECURSIVE Depth(_)
Depth(v) ==
  (IF v.type \in Container THEN 1 ELSE 0) + Max({0} \cup {Depth(v.kids[i].value) : i \in DOMAIN v.kids})

\* Printed, formatted or not, and parsed again, a document says the same as
\* before; nested deeper than the limit, or with what it refers to larger than the
\* memory, it is refused (cJSON.c:893 and :764, :1437).  cJSON_Minify makes the one
\* text of the other and leaves strings alone (:2812); a backslash in front of a
\* closing quote would confuse it (:2804), no string here has one.
RoundTrip ==
  \A x \in Documents :
    /\ Minify(Printed(h, x, TRUE), 0) = Printed(h, x, FALSE)
    /\ \A fmt \in BOOLEAN : \A p \in {Parse(Empty, Append(Printed(h, x, fmt), 0), TRUE)} :
         IF Depth(Value(h, x)) > NestingLimit \/ Size(Value(h, x)) > MaxNode THEN p.n = Nil
         ELSE p.n # Nil /\ Value(p.h, p.n) = Value(h, x)

\* Of a text that ends too early no document is made, and of a text that cannot
\* be parsed, or for which the memory is too small, no node is left (cJSON.c:1521,
\* :1696, :1134; the end of the buffer is found by stepping back, :1048).  Nothing is
\* read behind the end of a text but one byte, in front of which a name is missing:
\* where a text ends with the comma between two members (cJSON.c:772, from :1651).
CutTextLeavesNothing ==
  \A x \in Documents :
    /\ h[x].type \in Container /\ Refs = {} => \A c \in {Printed(h, x, TRUE)} : \A len \in 0 .. Len(c) - 1 :
         \A cut \in {SubSeq(c, 1, len)} : \A p \in {Parse(Empty, cut, FALSE)} :
           /\ p.n = Nil /\ p.h = Empty
           /\ p.inside \/ (Last(cut) = Comma /\ At(c, len) = Newline)
    /\ \A c \in {Printed(h, x, FALSE)}, k \in 0 .. Min({MaxSpare, Cardinality(Live(h)) - 1}) :
         \A g \in {Roomier(k)} : \A p \in {Parse(g, c, FALSE)} : p.inside /\ (p.n = Nil => p.h = g)

\* Into a buffer of any length nothing is printed past its end, and one five bytes
\* longer than needed always does, as cJSON.h says; a buffer that grows always does
\* (cJSON.c:432: what is asked for is an estimate).
BufferSuffices ==
  \A x \in Documents, fmt \in BOOLEAN : \A ps \in {Pieces(h, x, fmt, 0)} : \A size \in {Len(Text(ps)) + 1} :
    /\ \A len \in {0, size \div 2} \cup (size - 2) .. (size + 5) : \A b \in {PrintInto(ps, len, TRUE)} :
         b.safe /\ (b.ok => b.off + 1 <= len) /\ (len = size + 5 => b.ok)
    /\ \A len \in {1, size} : \A b \in {PrintInto(ps, len, FALSE)} : b.ok /\ b.safe

\* stats_handler of tfcoap.c as far as it uses nodes: a few members, one of them
\* an object with a member of its own.  oom: the calls that find no memory for a name.
Stats(heap, oom) ==
  LET item == CHOOSE s \in Scalar : TRUE
      name == CHOOSE n \in Name : TRUE
      root == Create(heap, Blank("Object"))
      one  == AddNew(root.h, root.n, name, item, 1 \in oom)
      ap   == AddNew(one.h, root.n, name, Blank("Object"), 2 \in oom)
      ssid == AddNew(ap.h, ap.n, name, item, 3 \in oom)
  IN  IF root.n = Nil THEN ssid.h ELSE Delete(ssid.h, root.n)

\* Whichever of its allocations fail, a request for the statistics leaves no node
\* behind (tfcoap.c:89: no result of cJSON is looked at; cJSON.c:2079).
StatsLeaveNothing == \A oom \in SUBSET (1 .. 3) : Stats(h, oom) = h

=============================================================================
