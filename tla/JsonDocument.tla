---------------------------- MODULE JsonDocument ----------------------------
(***************************************************************************)
(* The reference for the scanner of JsonText: JSON objects, written by the *)
(* ROS 2 decoder or by a recorder.  A document is a sequence of members,   *)
(* each [key, value], its key a word; a value is [kind, text], a string or *)
(* a scalar, or units, a string of which every UTF-16 unit is escaped, or  *)
(* [kind, tokens], an object or an array.                                  *)
(***************************************************************************)
EXTENDS JsonText

String(text) == [kind |-> "string", text |-> text]
Scalar(text) == [kind |-> "scalar", text |-> text]
Units(units) == [kind |-> "units", text |-> units]
Mark(symbol) == [kind |-> "mark", symbol |-> symbol]
Container(tokens) == [kind |-> "container", tokens |-> tokens]
Field(key, value) == [key |-> key, value |-> value]

\* What a container is made of: strings and, between them, any other symbols.
Tokens ==
  [kind : {"string"}, text : Seq(Nat)] \cup [kind : {"mark"}, symbol : Nat \ {Quote}]

\* How much deeper the nesting is after a token.
Deeper(token) ==
  IF token.kind = "string" THEN 0
  ELSE IF token.symbol \in {OpenBrace, OpenBracket} THEN 1
  ELSE IF token.symbol \in {CloseBrace, CloseBracket} THEN -1
  ELSE 0

\* The nesting after each of the tokens.
Depths(tokens) ==
  LET depth[i \in 0 .. Len(tokens)] == IF i = 0 THEN 0 ELSE depth[i - 1] + Deeper(tokens[i])
  IN  depth

IsContainer(tokens) ==
  /\ tokens \in Seq(Tokens) /\ Len(tokens) >= 2
  /\ \A i \in 1 .. Len(tokens) - 1 : Depths(tokens)[i] >= 1
  /\ Depths(tokens)[Len(tokens)] = 0

IsScalar(text) ==
  /\ text \in Seq(Nat) /\ text # <<>>
  /\ text[1] \notin Spaces \cup {Quote, OpenBrace, OpenBracket}
  /\ text[Len(text)] \notin Spaces
  /\ \A i \in 1 .. Len(text) : text[i] \notin {Comma, CloseBrace, CloseBracket}

IsValue(value) ==
  \/ value.kind = "string" /\ value.text \in Seq(Nat)
  \/ value.kind = "scalar" /\ IsScalar(value.text)
  \/ value.kind = "container" /\ IsContainer(value.tokens)

-----------------------------------------------------------------------------
(* Writing. *)

\* Two of the units are written with the short escapes \b and \/.
UnitEscape(u) ==
  IF u = 8 THEN <<Backslash, 98>> ELSE IF u = 47 THEN <<Backslash, 47>>
  ELSE
  <<Backslash, LowerU, HexDigit(u \div 4096), HexDigit((u \div 256) % 16),
    HexDigit((u \div 16) % 16), HexDigit(u % 16)>>

TokenText(token) == IF token.kind = "string" THEN JsonEscape(token.text) ELSE <<token.symbol>>

ValueText(value) ==
  CASE value.kind = "string"    -> JsonEscape(value.text)
    [] value.kind = "scalar"    -> value.text
    [] value.kind = "units"     -> <<Quote>> \o FlattenSeq([i \in DOMAIN value.text |-> UnitEscape(value.text[i])]) \o <<Quote>>
    [] value.kind = "container" -> FlattenSeq([i \in DOMAIN value.tokens |-> TokenText(value.tokens[i])])

MemberText(member, sp) ==
  JsonEscape(<<member.key>>) \o sp \o <<Colon>> \o sp \o ValueText(member.value) \o sp

Separated(members, sp) ==
  FlattenSeq([i \in DOMAIN members |->
                (IF i = 1 THEN <<>> ELSE <<Comma>>) \o MemberText(members[i], sp)])

\* The object with these members, sp around the colons, before and after it.
Document(members, sp) ==
  sp \o <<OpenBrace>> \o Separated(members, sp) \o <<CloseBrace>> \o sp

\* text is the object with these members.
IsDocument(text, members) ==
  /\ Len(members) \in Nat /\ DOMAIN members = 1 .. Len(members)
  /\ \A i \in 1 .. Len(members) : members[i].key \in Nat /\ IsValue(members[i].value)
  /\ \E n \in 0 .. Len(text) : /\ \A i \in 1 .. n : text[i] \in Spaces
                               /\ text = Document(members, SubSeq(text, 1, n))

=============================================================================
