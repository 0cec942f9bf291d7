---------------------------- MODULE CJsonTextOps ----------------------------
(***************************************************************************)
(* The characters of JSON text as cJSON.c reads and writes them: strings   *)
(* with their escapes, whole numbers, white space, and cJSON_Minify.  A    *)
(* text is the sequence of its bytes, without the final NUL; an offset     *)
(* into it counts from 0.                                                  *)
(***************************************************************************)
EXTENDS Integers, Sequences, SequencesExt, FiniteSetsExt

Quote == 34
Backslash == 92
Comma == 44
Colon == 58
Tab == 9
Newline == 10
Space == 32

At(c, off) == c[off + 1]
CanAccess(c, off) == off < Len(c)
CharIs(c, off, ch) == CanAccess(c, off) /\ At(c, off) = ch
Starts(c, off, word) ==
  off + Len(word) <= Len(c) /\ SubSeq(c, off + 1, off + Len(word)) = word

\* tolower, and case_insensitive_strcmp.
Lower(ch) == IF ch \in 65 .. 90 THEN ch + 32 ELSE ch
SameName(s, t, caseSensitive) ==
  IF caseSensitive THEN s = t
  ELSE [i \in DOMAIN s |-> Lower(s[i])] = [i \in DOMAIN t |-> Lower(t[i])]

\* Where a loop over the bytes in run ends: at the first other one, or at the end.
BehindRun(c, off, run) ==
  CHOOSE i \in off .. Len(c) :
    (i = Len(c) \/ At(c, i) \notin run) /\ \A j \in off .. i - 1 : At(c, j) \in run

\* buffer_skip_whitespace: at the end of the buffer it steps back to the last byte.
SkipWhitespace(c, off) ==
  LET stop == BehindRun(c, off, 0 .. 32)
  IN  IF ~CanAccess(c, off) THEN off ELSE IF stop = Len(c) THEN stop - 1 ELSE stop

SkipBom(c) == IF CanAccess(c, 4) /\ Starts(c, 0, <<239, 187, 191>>) THEN 3 ELSE 0

-----------------------------------------------------------------------------
(* Strings *)

Escapes == <<<<8, 98>>, <<12, 102>>, <<10, 110>>, <<13, 114>>, <<9, 116>>, <<34, 34>>, <<92, 92>>>>
EscapeOf(ch) == {e[2] : e \in {x \in ToSet(Escapes) : x[1] = ch}}
\* What an escape sequence of two characters means; a length of 0 says nothing.
MeantBy(letter) ==
  {e[1] : e \in {x \in ToSet(Escapes) : x[2] = letter}} \cup (IF letter = 47 THEN {47} ELSE {})
Simple(letter) ==
  IF MeantBy(letter) = {} THEN [len |-> 0, out |-> <<>>]
  ELSE [len |-> 2, out |-> <<CHOOSE x \in MeantBy(letter) : TRUE>>]

HexDigit(d) == IF d < 10 THEN 48 + d ELSE 87 + d

\* Variant: nothing is escaped.
EscapedNot(ch) == <<ch>>

\* print_string_ptr, for one character.
Escaped(ch) ==
  IF EscapeOf(ch) # {} THEN <<Backslash, CHOOSE x \in EscapeOf(ch) : TRUE>>
  ELSE IF ch < 32 THEN <<Backslash, 117, 48, 48, HexDigit(ch \div 16), HexDigit(ch % 16)>>
  ELSE <<ch>>

EscapedString(s) == FlattenSeq([i \in DOMAIN s |-> Escaped(s[i])])

DigitValue(ch) ==
  IF ch \in 48 .. 57 THEN ch - 48 ELSE IF ch \in 65 .. 70 THEN ch - 55
  ELSE IF ch \in 97 .. 102 THEN ch - 87 ELSE -1

\* parse_hex4: what is no number is 0.
Hex4(c, off) ==
  LET d == [i \in 0 .. 3 |-> DigitValue(At(c, off + i))]
  IN  IF \E i \in 0 .. 3 : d[i] < 0 THEN 0 ELSE d[0] * 4096 + d[1] * 256 + d[2] * 16 + d[3]

Utf8(cp) ==
  LET Tail6(k) == 128 + ((cp \div 64^k) % 64)
  IN  IF cp < 128 THEN <<cp>>
      ELSE IF cp < 2048 THEN <<192 + cp \div 64, Tail6(0)>>
      ELSE IF cp < 65536 THEN <<224 + cp \div 4096, Tail6(1), Tail6(0)>>
      ELSE <<240 + cp \div 262144, Tail6(2), Tail6(1), Tail6(0)>>

\* utf16_literal_to_utf8; a length of 0 says that it failed.
Utf16Literal(c, off, end) ==
  LET first  == Hex4(c, off + 2)
      second == Hex4(c, off + 8)
      Bad    == [len |-> 0, out |-> <<>>]
  IN  IF end - off < 6 THEN Bad
      ELSE IF first \in 56320 .. 57343 THEN Bad
      ELSE IF ~(first \in 55296 .. 56319) THEN [len |-> 6, out |-> Utf8(first)]
      ELSE IF end - off < 12 \/ ~Starts(c, off + 6, <<Backslash, 117>>)
              \/ ~(second \in 56320 .. 57343) THEN Bad
      ELSE [len |-> 12, out |-> Utf8(65536 + (first % 1024) * 1024 + (second % 1024))]

\* The loops of parse_string: to the closing quote (Len(c) when there is none),
\* and over the characters before it.
RECURSIVE StringEnd(_, _)
StringEnd(c, off) ==
  IF ~CanAccess(c, off) THEN Len(c)
  ELSE IF At(c, off) = Quote THEN off
  ELSE IF At(c, off) = Backslash
  THEN (IF CanAccess(c, off + 1) THEN StringEnd(c, off + 2) ELSE Len(c))
  ELSE StringEnd(c, off + 1)

RECURSIVE Unescaped(_, _, _, _), UnescapedSequence(_, _, _, _, _)
Unescaped(c, off, end, out) ==
  IF off >= end THEN [ok |-> TRUE, out |-> out, off |-> end]
  ELSE IF At(c, off) # Backslash THEN Unescaped(c, off + 1, end, Append(out, At(c, off)))
  ELSE IF At(c, off + 1) = 117 THEN UnescapedSequence(c, off, end, out, Utf16Literal(c, off, end))
  ELSE UnescapedSequence(c, off, end, out, Simple(At(c, off + 1)))

UnescapedSequence(c, off, end, out, u) ==
  IF u.len = 0 THEN [ok |-> FALSE, out |-> out, off |-> off]
  ELSE Unescaped(c, off + u.len, end, out \o u.out)

\* A C string ends at its first NUL.
CString(s) == IF Contains(s, 0) THEN SubSeq(s, 1, SelectInSeq(s, LAMBDA ch : ch = 0) - 1) ELSE s

\* parse_string: the text, and the offset behind it or where it failed.  The byte at
\* off is read without a look at the length.  The one behind the text may be any, a
\* quote as well: no closing quote follows it, and the end is what fails then.
StringUpTo(c, off, end) ==
  LET r == Unescaped(c, off + 1, end, <<>>)
  IN  IF end >= Len(c) \/ At(c, off) # Quote THEN [ok |-> FALSE, off |-> off + 1]
      ELSE IF ~r.ok THEN [ok |-> FALSE, off |-> r.off]
      ELSE [ok |-> TRUE, text |-> CString(r.out), off |-> end + 1]
ParseString(c, off) == StringUpTo(c, off, StringEnd(c, off + 1))

-----------------------------------------------------------------------------
(* Numbers: whole ones *)

RECURSIVE Digits(_)
Digits(n) == IF n < 10 THEN <<48 + n>> ELSE Append(Digits(n \div 10), 48 + (n % 10))

PrintNumber(n) == IF n < 0 THEN <<45>> \o Digits(-n) ELSE Digits(n)

\* parse_number, with what strtod makes of a sign and digits.
ParseNumber(c, off) ==
  LET sign == Starts(c, off, <<45>>)
      from == IF sign THEN off + 1 ELSE off
      to   == BehindRun(c, from, 48 .. 57)
      n    == FoldLeft(LAMBDA v, ch : 10 * v + ch - 48, 0, SubSeq(c, from + 1, to))
  IN  IF to = from THEN [ok |-> FALSE, off |-> off]
      ELSE [ok |-> TRUE, num |-> IF sign THEN -n ELSE n, off |-> to]

-----------------------------------------------------------------------------
(* cJSON_Minify *)

\* skip_oneline_comment and skip_multiline_comment.
SkipComment(c, off) ==
  LET line  == Starts(c, off, <<47, 47>>)
      Ends(i) == IF line THEN At(c, i) = Newline ELSE Starts(c, i, <<42, 47>>)
      stop  == Min({i \in off + 2 .. Len(c) : i = Len(c) \/ Ends(i)})
  IN  IF stop = Len(c) THEN stop ELSE IF line THEN stop + 1 ELSE stop + 2

\* minify_string behind its opening quote: the offset behind the closing one.
RECURSIVE MinifiedStringEnd(_, _)
MinifiedStringEnd(c, off) ==
  IF ~CanAccess(c, off) THEN Len(c)
  ELSE IF At(c, off) = Quote THEN off + 1
  ELSE IF Starts(c, off, <<Backslash, Quote>>) THEN MinifiedStringEnd(c, off + 2)
  ELSE MinifiedStringEnd(c, off + 1)

MinifyString(c, off) == MinifiedStringEnd(c, off + 1)

RECURSIVE Minify(_, _)
Minify(c, off) ==
  LET end == MinifyString(c, off)
  IN  IF ~CanAccess(c, off) THEN <<>>
      ELSE IF At(c, off) \in {Space, Tab, 13, Newline} THEN Minify(c, off + 1)
      ELSE IF Starts(c, off, <<47, 47>>) \/ Starts(c, off, <<47, 42>>) THEN Minify(c, SkipComment(c, off))
      ELSE IF At(c, off) = 47 THEN Minify(c, off + 1)
      ELSE IF At(c, off) = Quote THEN SubSeq(c, off + 1, end) \o Minify(c, end)
      ELSE <<At(c, off)>> \o Minify(c, off + 1)

=============================================================================
