--------------------------- MODULE CJsonCodecOps ---------------------------
(***************************************************************************)
(* Documents to text and back.  What print_value and the functions it      *)
(* calls write is a sequence of pieces [need, out, nul]: they ask ensure   *)
(* for need bytes, write out, and a NUL behind it when nul.                *)
(***************************************************************************)
EXTENDS CJsonHeapOps

Piece(need, out, nul) == [need |-> need, out |-> out, nul |-> nul]

WordNull  == <<110, 117, 108, 108>>
WordFalse == <<102, 97, 108, 115, 101>>
WordTrue  == <<116, 114, 117, 101>>

\* print_string_ptr; a NULL string is printed as an empty one.
StringPiece(s) ==
  LET out == IF s = NoText THEN <<>> ELSE EscapedString(s)
  IN  Piece(Len(out) + 3, <<Quote>> \o out \o <<Quote>>, TRUE)

Tabs(n) == [i \in 1 .. n |-> Tab]
When(b, s) == IF b THEN s ELSE <<>>

RECURSIVE Pieces(_, _, _, _)

\* print_array: a comma behind every element but the last.
ArrayPieces(h, n, fmt, depth) ==
  LET kids == Kids(h, n)
      Separator == <<Piece(IF fmt THEN 3 ELSE 2, <<Comma>> \o When(fmt, <<Space>>), TRUE)>>
      Element(i) == Pieces(h, kids[i], fmt, depth + 1) \o When(i < Len(kids), Separator)
  IN  <<Piece(1, <<91>>, FALSE)>> \o FlattenSeq([i \in DOMAIN kids |-> Element(i)])
        \o <<Piece(2, <<93>>, TRUE)>>

\* print_object: a line for every member when formatted.
ObjectPieces(h, n, fmt, depth) ==
  LET kids == Kids(h, n)
      Close(i) == When(i < Len(kids), <<Comma>>) \o When(fmt, <<Newline>>)
      Member(i) ==
        When(fmt, <<Piece(depth + 1, Tabs(depth + 1), FALSE)>>)
          \o <<StringPiece(h[kids[i]].key),
               Piece(IF fmt THEN 2 ELSE 1, <<Colon>> \o When(fmt, <<Tab>>), FALSE)>>
          \o Pieces(h, kids[i], fmt, depth + 1)
          \o <<Piece(Len(Close(i)) + 1, Close(i), TRUE)>>
  IN  <<Piece(IF fmt THEN 3 ELSE 2, <<123>> \o When(fmt, <<Newline>>), FALSE)>>
        \o FlattenSeq([i \in DOMAIN kids |-> Member(i)])
        \o <<Piece(IF fmt THEN depth + 2 ELSE 2, When(fmt, Tabs(depth)) \o <<125>>, TRUE)>>

\* print_value.
Pieces(h, n, fmt, depth) ==
  CASE h[n].type = "NULL"   -> <<Piece(5, WordNull, TRUE)>>
    [] h[n].type = "False"  -> <<Piece(6, WordFalse, TRUE)>>
    [] h[n].type = "True"   -> <<Piece(5, WordTrue, TRUE)>>
    [] h[n].type = "Number" -> <<Piece(Len(PrintNumber(h[n].num)) + 1, PrintNumber(h[n].num), TRUE)>>
    [] h[n].type = "Raw"    -> <<Piece(Len(h[n].text) + 1, h[n].text, TRUE)>>
    [] h[n].type = "String" -> <<StringPiece(h[n].text)>>
    [] h[n].type = "Array"  -> ArrayPieces(h, n, fmt, depth)
    [] h[n].type = "Object" -> ObjectPieces(h, n, fmt, depth)

Text(pieces) == FlattenSeq([i \in DOMAIN pieces |-> pieces[i].out])
Printed(h, n, fmt) == Text(Pieces(h, n, fmt, 0))

\* Variant: the bytes already written are not counted.
EnsureHere(b, need) == IF need + 1 <= b.length THEN b.length ELSE -1

\* ensure with noalloc: the length of the buffer, or -1.
EnsureFixed(b, need) ==
  IF (b.length > 0 /\ b.off >= b.length) \/ b.off + need + 1 > b.length THEN -1 ELSE b.length

\* ensure with realloc, which always finds memory here.
EnsureGrowing(b, need) ==
  IF b.length > 0 /\ b.off >= b.length THEN -1
  ELSE IF b.off + need + 1 <= b.length THEN b.length ELSE 2 * (b.off + need + 1)

\* Printing into a buffer: safe says that every byte written was inside it.
PrintInto(pieces, length, fixed) ==
  LET Write(b, p) ==
        LET len == IF fixed THEN EnsureFixed(b, p.need) ELSE EnsureGrowing(b, p.need)
        IN  IF ~b.ok THEN b
            ELSE IF len = -1 THEN [b EXCEPT !.ok = FALSE]
            ELSE [b EXCEPT !.length = len, !.off = @ + Len(p.out),
                           !.safe = @ /\ b.off + Len(p.out) + (IF p.nul THEN 1 ELSE 0) <= len]
  IN  FoldLeft(Write, [ok |-> TRUE, length |-> length, off |-> 0, safe |-> TRUE], pieces)

-----------------------------------------------------------------------------
(* Parsing.  s is [ok, h, off, depth, inside]; inside says that every byte    *)
(* read so far was one of the text.                                        *)

Failed(s) == [s EXCEPT !.ok = FALSE]
Skipped(c, s) == [s EXCEPT !.off = SkipWhitespace(c, @)]
Moved(s, by) == [s EXCEPT !.off = @ + by]

\* Variant: the elements parsed so far are left behind.
DropNothing(s, head) == Failed(s)

\* The fail exit of parse_array and parse_object.
DropList(s, head) == Failed([s EXCEPT !.h = IF head = Nil THEN @ ELSE Delete(@, head)])

\* The name of a member, read with the result r, and the colon behind it.
NameRead(c, s, n, r) ==
  LET named == Skipped(c, [s EXCEPT !.off = r.off,
                             !.h = [@ EXCEPT ![n].key = r.text, ![n].type = "String"]])
  IN  IF ~r.ok THEN Failed([s EXCEPT !.off = r.off])
      ELSE IF ~CharIs(c, named.off, Colon) THEN Failed(named)
      ELSE Skipped(c, Moved(named, 1))
ParseName(c, s, n) ==
  NameRead(c, [s EXCEPT !.inside = CanAccess(c, s.off)], n, ParseString(c, s.off))

Closing(type) == IF type = "Object" THEN 125 ELSE 93

RECURSIVE ParseValue(_, _, _), ParseList(_, _, _, _, _, _), ParseElement(_, _, _, _, _, _),
          ElementRead(_, _, _, _, _, _)

\* The loop of parse_array and parse_object over the elements: n is the container,
\* head and last the first and the last element so far, new the next one.
ParseList(c, s, n, head, last, type) ==
  LET new   == NextFree(s.h)
      alloc == [s.h EXCEPT ![new] = Zeroed]
      begun == Skipped(c, [Moved(s, 1) EXCEPT
                 !.h = IF last = Nil THEN alloc ELSE SuffixObject(alloc, last, new)])
  IN  IF new = Nil THEN DropList(s, head)
      ELSE ParseElement(c, IF type = "Object" THEN ParseName(c, begun, new) ELSE begun,
                        n, IF head = Nil THEN new ELSE head, new, type)

ParseElement(c, s, n, first, new, type) ==
  IF ~s.ok THEN DropList(s, first)
  ELSE ElementRead(c, Skipped(c, ParseValue(c, s, new)), n, first, new, type)

ElementRead(c, s, n, first, new, type) ==
  IF ~s.ok THEN DropList(s, first)
  ELSE IF CharIs(c, s.off, Comma) THEN ParseList(c, s, n, first, new, type)
  ELSE IF ~CharIs(c, s.off, Closing(type)) THEN DropList(s, first)
  ELSE [Moved(s, 1) EXCEPT !.depth = @ - 1,
          !.h = [@ EXCEPT ![first].prev = new, ![n].type = type, ![n].child = first]]

\* parse_array and parse_object behind the opening bracket.
Opened(c, s, n, type) ==
  IF CharIs(c, s.off, Closing(type))
  THEN [Moved(s, 1) EXCEPT !.depth = @ - 1, !.h = [@ EXCEPT ![n].type = type]]
  ELSE IF ~CanAccess(c, s.off) THEN Failed(Moved(s, -1))
  ELSE ParseList(c, Moved(s, -1), n, Nil, Nil, type)

ParseContainer(c, s, n, type) ==
  IF s.depth >= NestingLimit THEN Failed(s)
  ELSE Opened(c, Skipped(c, Moved([s EXCEPT !.depth = @ + 1], 1)), n, type)

StringRead(s, n, r) ==
  IF ~r.ok THEN Failed([s EXCEPT !.off = r.off])
  ELSE [s EXCEPT !.off = r.off, !.h = [@ EXCEPT ![n].type = "String", ![n].text = r.text]]

NumberRead(s, n, r) ==
  IF ~r.ok THEN Failed(s)
  ELSE [s EXCEPT !.off = r.off, !.h = [@ EXCEPT ![n].type = "Number", ![n].num = r.num,
                                                ![n].int = Clamped(r.num)]]

ParseValue(c, s, n) ==
  LET Word(w, type, int) ==
        [Moved(s, Len(w)) EXCEPT !.h = [@ EXCEPT ![n].type = type, ![n].int = int]]
      Is(ch) == CharIs(c, s.off, ch)
  IN  IF Starts(c, s.off, WordNull) THEN Word(WordNull, "NULL", 0)
      ELSE IF Starts(c, s.off, WordFalse) THEN Word(WordFalse, "False", 0)
      ELSE IF Starts(c, s.off, WordTrue) THEN Word(WordTrue, "True", 1)
      ELSE IF Is(Quote) THEN StringRead(s, n, ParseString(c, s.off))
      ELSE IF \E ch \in {45} \cup 48 .. 57 : Is(ch) THEN NumberRead(s, n, ParseNumber(c, s.off))
      ELSE IF Is(91) \/ Is(123) THEN ParseContainer(c, s, n, IF Is(91) THEN "Array" ELSE "Object")
      ELSE Failed(s)

\* The end of cJSON_ParseWithLengthOpts, with the value s in the node n.
Ended(c, n, s, requireNul) ==
  IF ~s.ok \/ (requireNul /\ ~CharIs(c, s.off, 0))
  THEN [n |-> Nil, h |-> Delete(s.h, n), off |-> Min({s.off, Len(c) - 1}), inside |-> s.inside]
  ELSE [n |-> n, h |-> s.h, off |-> s.off, inside |-> s.inside]

ToEnd(c, s, requireNul) == IF s.ok /\ requireNul THEN Skipped(c, s) ELSE s

\* cJSON_ParseWithLengthOpts; the text holds its NUL when it has one.
Parse(h, c, requireNul) ==
  LET n == NextFree(h)
      s == [ok |-> TRUE, h |-> [h EXCEPT ![n] = Zeroed], off |-> SkipBom(c), depth |-> 0,
            inside |-> TRUE]
  IN  IF c = <<>> \/ n = Nil THEN [n |-> Nil, h |-> h, off |-> 0, inside |-> TRUE]
      ELSE Ended(c, n, ToEnd(c, ParseValue(c, Skipped(c, s), n), requireNul), requireNul)

=============================================================================
