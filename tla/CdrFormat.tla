----------------------------- MODULE CdrFormat ------------------------------
(***************************************************************************)
(* Plain CDR (XCDR1) as a format, independent of any program that reads    *)
(* it: what may come next after the items of a payload that have been      *)
(* read.  A reading is a record                                            *)
(*   pos     how many bytes of the payload it has used;                    *)
(*   tokens  what these bytes mean;                                        *)
(*   open    the messages and arrays that are open, innermost last, each   *)
(*           with the token that closes it and the fields still to come.   *)
(* types gives the fields of each message type, as Ros2Schema has them.    *)
(***************************************************************************)
EXTENDS Integers, SequencesExt

\* The numbers of each size in bytes.
NumbersOf ==
  [n \in {1, 2, 4, 8} |->
     CASE n = 1 -> {"bool", "byte", "char", "int8", "uint8"}
       [] n = 2 -> {"int16", "uint16"}
       [] n = 4 -> {"int32", "uint32", "float32"}
       [] n = 8 -> {"int64", "uint64", "float64"}]

\* Where an item of n bytes starts: at the first multiple of its size, counted
\* from the end of the 4-byte header.
Boundaries(pos, n) == {from \in pos .. pos + n - 1 : (from - 4) % n = 0}

\* n bytes of one value, least significant first; the header tells their order.
Bytes(data, from, n) ==
  LET raw == SubSeq(data, from + 1, from + n)
  IN  IF data[2] = 1 THEN raw ELSE Reverse(raw)

Unsigned(b) == b[1] + b[2] * 256 + b[3] * 65536 + b[4] * 16777216

\* The lengths of four bytes that may follow: [at, value].
Lengths(data, pos) ==
  {[end |-> from + 4, value |-> Unsigned(Bytes(data, from, 4))] :
     from \in {f \in Boundaries(pos, 4) : f + 4 <= Len(data)}}

Begin(fields) ==
  [pos |-> 4, tokens |-> <<<<"{">>>>, open |-> <<[close |-> "}", rest |-> fields]>>]

Finished(r) == r.open = <<>>

Innermost(r) == Last(r.open)

InMessage(r) == Innermost(r).close = "}"

Item(r) == Head(Innermost(r).rest)

\* The next item is a whole array; those in an array are its elements.
IsArray(r) == InMessage(r) /\ Item(r).array # "none"

\* The reading after one more token, at the position end; fields of a message
\* are preceded by their names.
After(r, end, token) ==
  LET labelled == IF InMessage(r) THEN Append(r.tokens, <<"key", Item(r).name>>) ELSE r.tokens
  IN  [pos    |-> end,
       tokens |-> Append(labelled, token),
       open   |-> Append(Front(r.open), [Innermost(r) EXCEPT !.rest = Tail(@)])]

Opened(r, close, rest) == [r EXCEPT !.open = Append(@, [close |-> close, rest |-> rest])]

Closed(r) ==
  [r EXCEPT !.tokens = Append(@, <<Innermost(r).close>>), !.open = Front(@)]

\* An array of n elements.
Array(r, end, n) == Opened(After(r, end, <<"[">>), "]", [i \in 1 .. n |-> Item(r)])

\* A bool is shown as true or false.
Shown(type, bytes) == IF type = "bool" /\ bytes[1] # 0 THEN <<1>> ELSE bytes

\* What may follow r: one reading, or none when the payload ends too early or
\* the next item has no encoding.
Numbers(data, r, type, n) ==
  {After(r, from + n, <<type, Shown(type, Bytes(data, from, n))>>) :
     from \in {f \in Boundaries(r.pos, n) : f + n <= Len(data)}}

\* The length of a string counts its terminating NUL; 0 stands for no text too.
Strings(data, r) ==
  {After(r, l.end + l.value, <<"string", SubSeq(data, l.end + 1, l.end + l.value - 1)>>) :
     l \in {k \in Lengths(data, r.pos) : k.end + k.value <= Len(data)}}

Arrays(data, r) ==
  IF Item(r).array = "fixed" THEN {Array(r, r.pos, Item(r).array_size)}
  ELSE {Array(r, l.end, l.value) : l \in Lengths(data, r.pos)}

Primitives(data, r) ==
  LET type == Item(r).type
      sizes == {n \in DOMAIN NumbersOf : type[1] \in NumbersOf[n]}
  IN  IF type = <<"string">> THEN Strings(data, r)
      ELSE UNION {Numbers(data, r, type[1], n) : n \in sizes}

Nested(types, r) ==
  {Opened(After(r, r.pos, <<"{">>), "}", types[t]) : t \in {Item(r).type} \cap DOMAIN types}

Followers(data, types, r) ==
  IF Finished(r) THEN {}
  ELSE IF Innermost(r).rest = <<>> THEN {Closed(r)}
  ELSE IF IsArray(r) THEN Arrays(data, r)
  ELSE IF Item(r).is_primitive THEN Primitives(data, r)
  ELSE Nested(types, r)

\* run is a reading of the payload in n steps, from the fields of its type.
IsRun(data, types, fields, run, n) ==
  /\ run[0] = Begin(fields)
  /\ \A i \in 1 .. n : run[i] \in Followers(data, types, run[i - 1])

=============================================================================
