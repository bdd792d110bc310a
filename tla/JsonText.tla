------------------------------ MODULE JsonText ------------------------------
(***************************************************************************)
(* JSON as text: the strings the ROS 2 decoder writes (JsonEscape) and the *)
(* scanner that takes one top-level field out of a document                *)
(* (json_util.cpp).                                                        *)
(*                                                                         *)
(* A text is a sequence of symbols, each a byte or, above 255, a word: a   *)
(* key or a value the code only compares as a whole.  An optional string   *)
(* is <<>> or <<text>>.  Positions count from 1.                           *)
(***************************************************************************)
EXTENDS Integers, SequencesExt

Quote == 34
Comma == 44
Colon == 58
OpenBracket == 91
Backslash == 92
CloseBracket == 93
OpenBrace == 123
CloseBrace == 125
Spaces == {9, 10, 11, 12, 13, 32}      \* std::isspace
LowerU == 117

NoField == <<>>

\* The letter after the backslash, for the control characters that have one.
ShortEscape ==
  [c \in {8, 9, 10, 12, 13} |->
     CASE c = 8 -> 98 [] c = 9 -> 116 [] c = 10 -> 110 [] c = 12 -> 102 [] c = 13 -> 114]

-----------------------------------------------------------------------------
(* Writing: JsonEscape. *)

HexDigit(v) == IF v < 10 THEN 48 + v ELSE 87 + v

\* \b and \f are written as \u0008 and \u000c.
Escaped(c) ==
  IF c \in {Quote, Backslash} THEN <<Backslash, c>>
  ELSE IF c \in {9, 10, 13} THEN <<Backslash, ShortEscape[c]>>
  ELSE IF c < 32 THEN <<Backslash, LowerU, 48, 48, HexDigit(c \div 16), HexDigit(c % 16)>>
  ELSE <<c>>

JsonEscape(text) == <<Quote>> \o FlattenSeq([i \in DOMAIN text |-> Escaped(text[i])]) \o <<Quote>>

-----------------------------------------------------------------------------
(* Reading a string. *)

\* A string, or a part of it, that was read: its contents and where it ends.
Malformed == [text |-> <<>>, next |-> 0]

HexValue(c) ==
  IF c \in 48 .. 57 THEN c - 48
  ELSE IF c \in 97 .. 102 THEN c - 87
  ELSE IF c \in 65 .. 70 THEN c - 55
  ELSE -1

\* The code unit in the four digits at pos, -1 when they are not hex digits.
ReadHex4(json, pos) ==
  IF pos + 3 > Len(json) \/ \E i \in 0 .. 3 : HexValue(json[pos + i]) = -1 THEN -1
  ELSE HexValue(json[pos]) * 4096 + HexValue(json[pos + 1]) * 256
       + HexValue(json[pos + 2]) * 16 + HexValue(json[pos + 3])

\* The continuation byte that holds the six bits of a code point above weight.
Continuation(cp, weight) == 128 + ((cp \div weight) % 64)

\* Fault: the three-byte form starts one code point late.
AppendUtf8Late(cp) ==
  IF cp < 128 THEN <<cp>>
  ELSE IF cp <= 2048 THEN <<192 + (cp \div 64), Continuation(cp, 1)>>
  ELSE IF cp < 65536 THEN <<224 + (cp \div 4096), Continuation(cp, 64), Continuation(cp, 1)>>
  ELSE <<240 + (cp \div 262144), Continuation(cp, 4096), Continuation(cp, 64), Continuation(cp, 1)>>

\* The bytes appended for a code point.
AppendUtf8(cp) ==
  IF cp < 128 THEN <<cp>>
  ELSE IF cp < 2048 THEN <<192 + (cp \div 64), Continuation(cp, 1)>>
  ELSE IF cp < 65536 THEN <<224 + (cp \div 4096), Continuation(cp, 64), Continuation(cp, 1)>>
  ELSE <<240 + (cp \div 262144), Continuation(cp, 4096), Continuation(cp, 64), Continuation(cp, 1)>>

HighSurrogates == 55296 .. 56319
LowSurrogates == 56320 .. 57343
Replacement == 65533

At(json, pos, c) == pos <= Len(json) /\ json[pos] = c

\* The code unit of an escape at pos, -1 when there is none.
UnitAt(json, pos) ==
  IF At(json, pos, Backslash) /\ At(json, pos + 1, LowerU) THEN ReadHex4(json, pos + 2) ELSE -1

\* What an escape at pos stands for, given its unit and that of the next escape.
Combined(unit, low, pos) ==
  IF unit = -1 THEN Malformed
  ELSE IF unit \in HighSurrogates /\ low \in LowSurrogates
  THEN [text |-> AppendUtf8(65536 + (unit - 55296) * 1024 + (low - 56320)), next |-> pos + 12]
  ELSE [text |-> AppendUtf8(IF unit \in HighSurrogates \cup LowSurrogates THEN Replacement ELSE unit),
        next |-> pos + 6]

UnicodeEscape(json, pos) == Combined(UnitAt(json, pos), UnitAt(json, pos + 6), pos)

\* The character an escape letter stands for; others stand for themselves.
Unescaped(c) ==
  IF \E e \in DOMAIN ShortEscape : ShortEscape[e] = c
  THEN CHOOSE e \in DOMAIN ShortEscape : ShortEscape[e] = c ELSE c

\* The character or escape at pos.
ReadItem(json, pos) ==
  IF json[pos] # Backslash \/ pos = Len(json) THEN [text |-> <<json[pos]>>, next |-> pos + 1]
  ELSE IF json[pos + 1] = LowerU THEN UnicodeEscape(json, pos)
  ELSE [text |-> <<Unescaped(json[pos + 1])>>, next |-> pos + 2]

Prefixed(text, rest) ==
  IF rest = Malformed THEN Malformed ELSE [text |-> text \o rest.text, next |-> rest.next]

\* The string whose opening quote is at from.
ReadJsonString(json, from) ==
  LET read[pos \in 0 .. Len(json) + 1] ==
        LET item == ReadItem(json, pos)
        IN  IF pos \in {Malformed.next, Len(json) + 1} THEN Malformed
            ELSE IF json[pos] = Quote THEN [text |-> <<>>, next |-> pos + 1]
            ELSE Prefixed(item.text, read[item.next])
  IN  read[from + 1]

-----------------------------------------------------------------------------
(* Finding a field. *)

FirstAt(json, from, S) == Min({p \in from .. Len(json) : json[p] \in S} \cup {Len(json) + 1})

SkipSpaces(json, from) ==
  Min({p \in from .. Len(json) : json[p] \notin Spaces} \cup {Len(json) + 1})

\* The text of a number, true, false or null: up to what ends it, trimmed.
ReadScalar(json, from) ==
  LET end == FirstAt(json, from, {Comma, CloseBrace, CloseBracket})
  IN  [text |-> SubSeq(json, from, Max({p \in from .. end - 1 : json[p] \notin Spaces} \cup {from - 1})),
       next |-> end]

ReadValue(json, pos) == IF At(json, pos, Quote) THEN ReadJsonString(json, pos) ELSE ReadScalar(json, pos)

\* What a round of the loop comes to: the function returns, or the loop goes on.
Returns(field) == [returns |-> TRUE, field |-> field, pos |-> 0, depth |-> 0]
GoesOn(pos, depth) == [returns |-> FALSE, field |-> NoField, pos |-> pos, depth |-> depth]

\* A container is left to the rounds that follow, which keep track of the depth.
AfterColon(json, key, token, start, depth) ==
  LET value == ReadValue(json, start)
  IN  IF At(json, start, OpenBrace) \/ At(json, start, OpenBracket) THEN GoesOn(start, depth)
      ELSE IF value = Malformed THEN Returns(NoField)
      ELSE IF token.text = key THEN Returns(<<value.text>>)
      ELSE GoesOn(value.next, depth)

\* A string at depth 0 that a colon follows is a key.
AfterString(json, key, token, depth) ==
  LET after == SkipSpaces(json, token.next)
  IN  IF token = Malformed THEN Returns(NoField)
      ELSE IF depth # 0 \/ ~At(json, after, Colon) THEN GoesOn(token.next, depth)
      ELSE AfterColon(json, key, token, SkipSpaces(json, after + 1), depth)

\* Spaces, commas and what else there may be are passed over.
Round(json, key, pos, depth) ==
  IF pos > Len(json) \/ (json[pos] = CloseBrace /\ depth = 0) THEN Returns(NoField)
  ELSE IF json[pos] \in {CloseBrace, CloseBracket} THEN GoesOn(pos + 1, depth - 1)
  ELSE IF json[pos] \in {OpenBrace, OpenBracket} THEN GoesOn(pos + 1, depth + 1)
  ELSE IF json[pos] = Quote THEN AfterString(json, key, ReadJsonString(json, pos), depth)
  ELSE GoesOn(pos + 1, depth)

ExtractJsonStringField(json, key) ==
  LET scan[at \in Nat \X Int] ==
        LET round == Round(json, key, at[1], at[2])
        IN  IF round.returns THEN round.field ELSE scan[<<round.pos, round.depth>>]
  IN  scan[<<FirstAt(json, 1, {OpenBrace}) + 1, 0>>]

=============================================================================
