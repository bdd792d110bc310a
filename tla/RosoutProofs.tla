---------------------------- MODULE RosoutProofs ----------------------------
(***************************************************************************)
(* Proofs about Rosout, and the JSON texts it reads: for any file, any     *)
(* chunk size, and whatever the documents contain.                         *)
(*                                                                         *)
(* The readers are recursive functions.  That such a function exists, and  *)
(* so that its equation holds, follows from RecursionExists with the       *)
(* symbols that are left as the rank; what it computes is then shown by    *)
(* induction on the pieces the text was written from.                      *)
(***************************************************************************)
EXTENDS Rosout, FoldLemmas, SequenceTheorems, TLAPS

-----------------------------------------------------------------------------
(* The rows and their order. *)

\* The rows so far are those of the rosout messages the iterator has passed.
RowsMade ==
  /\ \A i \in 1 .. Len(Rows) : /\ Rows[i].of \in 1 .. next - 1
                               /\ OfRosout(log[Rows[i].of])
                               /\ Rows[i].timestamp = ToTimestampNs(log[Rows[i].of].time)
  /\ \A i, j \in 1 .. Len(Rows) : i < j => Rows[i].of < Rows[j].of
  /\ phase # "error" =>
       \A k \in 1 .. next - 1 : OfRosout(log[k]) => \E i \in 1 .. Len(Rows) : Rows[i].of = k

\* The type of the columns does not matter here.
AreRows(rows) == rows \in Seq({rows[i] : i \in 1 .. Len(rows)}) /\ Len(rows) \in Nat

RosoutInv ==
  /\ log \in Logs
  /\ next \in 1 .. Len(log) + 1
  /\ AreRows(output) /\ AreRows(emitted)
  /\ phase \in {"bind", "open"} => next = 1 /\ output = <<>> /\ emitted = <<>>
  /\ phase = "done" => next = Len(log) + 1
  /\ RowsMade

-----------------------------------------------------------------------------
(* Sequences of rows. *)

LEMMA SeqsAreRows == ASSUME NEW S, NEW s \in Seq(S) PROVE AreRows(s)
  BY DEF AreRows

LEMMA AppendRows ==
  ASSUME NEW rows, AreRows(rows), NEW r
  PROVE  /\ AreRows(Append(rows, r)) /\ Len(Append(rows, r)) = Len(rows) + 1
         /\ \A i \in 1 .. Len(rows) : Append(rows, r)[i] = rows[i]
         /\ Append(rows, r)[Len(rows) + 1] = r
  <1> DEFINE S == {rows[i] : i \in 1 .. Len(rows)} \cup {r}
  <1>1. rows \in Seq(S) /\ Len(rows) \in Nat /\ r \in S
    BY DEF AreRows
  <1>2. Append(rows, r) \in Seq(S)
    BY <1>1
  <1>3. /\ Len(Append(rows, r)) = Len(rows) + 1
        /\ \A i \in 1 .. Len(rows) : Append(rows, r)[i] = rows[i]
        /\ Append(rows, r)[Len(rows) + 1] = r
    BY <1>1
  <1> QED BY <1>1, <1>2, <1>3 DEF AreRows

LEMMA ConcatRows ==
  ASSUME NEW rows, AreRows(rows), NEW more, AreRows(more)
  PROVE  /\ AreRows(rows \o more) /\ Len(rows \o more) = Len(rows) + Len(more)
         /\ \A i \in 1 .. Len(rows) : (rows \o more)[i] = rows[i]
         /\ \A i \in 1 .. Len(more) : (rows \o more)[Len(rows) + i] = more[i]
  <1> DEFINE S == {rows[i] : i \in 1 .. Len(rows)} \cup {more[i] : i \in 1 .. Len(more)}
  <1>1. rows \in Seq(S) /\ Len(rows) \in Nat /\ more \in Seq(S) /\ Len(more) \in Nat
    BY DEF AreRows
  <1>2. AreRows(rows \o more)
    <2>1. rows \o more \in Seq(S)
      BY <1>1
    <2> QED BY <2>1, SeqsAreRows
  <1>3. /\ Len(rows \o more) = Len(rows) + Len(more)
        /\ \A i \in 1 .. Len(rows) : (rows \o more)[i] = rows[i]
        /\ \A i \in 1 .. Len(more) : (rows \o more)[Len(rows) + i] = more[i]
    BY <1>1
  <1> QED BY <1>2, <1>3

LEMMA NoRows == AreRows(<<>>) /\ Len(<<>>) = 0
  BY DEF AreRows

-----------------------------------------------------------------------------
(* The invariant. *)

LEMMA RosoutInvInit == Init => RosoutInv
  <1> SUFFICES ASSUME Init PROVE RosoutInv
    OBVIOUS
  <1>1. Len(Rows) = 0
    BY NoRows, ConcatRows DEF Init, Rows
  <1>2. Len(log) \in Nat
    BY RosoutAssumption DEF Init
  <1>3. RowsMade
    BY <1>1 DEF Init, RowsMade
  <1> QED BY <1>2, <1>3, NoRows DEF Init, RosoutInv

\* Steps that make no row and leave the iterator where it is.
LEMMA SameRows ==
  ASSUME RosoutInv, UNCHANGED <<log, next>>,
         Len(Rows) \in Nat, Len(Rows') \in Nat, Len(Rows') <= Len(Rows),
         \A i \in 1 .. Len(Rows') : Rows'[i] = Rows[i],
         phase' # "error" => phase # "error" /\ Len(Rows') = Len(Rows)
  PROVE  RowsMade'
  <1>1. 1 .. Len(Rows') \subseteq 1 .. Len(Rows)
    OBVIOUS
  <1>2. \A i \in 1 .. Len(Rows') : /\ Rows'[i].of \in 1 .. next - 1
                                   /\ OfRosout(log[Rows'[i].of])
                                   /\ Rows'[i].timestamp = ToTimestampNs(log[Rows'[i].of].time)
    BY <1>1 DEF RosoutInv, RowsMade
  <1>3. \A i, j \in 1 .. Len(Rows') : i < j => Rows'[i].of < Rows'[j].of
    BY <1>1 DEF RosoutInv, RowsMade
  <1>4. ASSUME phase' # "error", NEW k \in 1 .. next - 1, OfRosout(log[k])
        PROVE  \E i \in 1 .. Len(Rows') : Rows'[i].of = k
    <2>1. PICK i \in 1 .. Len(Rows) : Rows[i].of = k
      BY <1>4 DEF RosoutInv, RowsMade
    <2> QED BY <1>4, <2>1
  <1> QED BY <1>2, <1>3, <1>4 DEF RowsMade, OfRosout

LEMMA WriteRowInv == ASSUME RosoutInv, WriteRow PROVE RosoutInv'
  <1>1. /\ phase = "scan" /\ next <= Len(log) /\ OfRosout(log[next])
        /\ output' = Append(output, RowOf(next)) /\ next' = next + 1
        /\ UNCHANGED <<log, phase, cache, emitted>>
    BY DEF WriteRow
  <1>2. /\ log \in Logs /\ Len(log) \in Nat /\ next \in 1 .. Len(log) + 1
        /\ AreRows(output) /\ AreRows(emitted)
    BY RosoutAssumption DEF RosoutInv
  <1> DEFINE n == Len(Rows)
  <1>3. n = Len(emitted) + Len(output) /\ n \in Nat /\ Len(output) \in Nat /\ Len(emitted) \in Nat
    BY <1>2, ConcatRows DEF Rows, AreRows
  <1>4. AreRows(output') /\ Len(Rows') = n + 1
    BY <1>1, <1>2, <1>3, AppendRows, ConcatRows DEF Rows
  <1>5. Rows'[n + 1] = RowOf(next)
    <2>1. output'[Len(output) + 1] = RowOf(next) /\ Len(output') = Len(output) + 1
      BY <1>1, <1>2, AppendRows
    <2>2. (emitted \o output')[Len(emitted) + (Len(output) + 1)] = output'[Len(output) + 1]
      BY <1>2, <1>3, <1>4, <2>1, ConcatRows
    <2> QED BY <1>1, <1>3, <2>1, <2>2 DEF Rows
  <1>6. ASSUME NEW i \in 1 .. n PROVE Rows'[i] = Rows[i]
    <2>1. CASE i <= Len(emitted)
      <3>1. i \in 1 .. Len(emitted)
        BY <1>3, <2>1
      <3> QED BY <1>1, <1>2, <1>4, <3>1, ConcatRows DEF Rows
    <2>2. CASE i > Len(emitted)
      <3> DEFINE j == i - Len(emitted)
      <3>1. j \in 1 .. Len(output) /\ i = Len(emitted) + j /\ j \in 1 .. Len(output')
        BY <1>1, <1>2, <1>3, <2>2, AppendRows
      <3>2. Rows'[Len(emitted) + j] = output'[j] /\ Rows[Len(emitted) + j] = output[j]
        BY <1>1, <1>2, <1>4, <3>1, ConcatRows DEF Rows
      <3>3. output'[j] = output[j]
        BY <1>1, <1>2, <3>1, AppendRows
      <3> QED BY <3>1, <3>2, <3>3
    <2> QED BY <1>3, <2>1, <2>2
  <1>7. RowOf(next).of = next /\ RowOf(next).timestamp = ToTimestampNs(log[next].time)
    BY DEF RowOf
  <1>8. RowsMade'
    <2>1. ASSUME NEW i \in 1 .. n + 1
          PROVE  /\ Rows'[i].of \in 1 .. next
                 /\ i <= n => Rows'[i].of < next
                 /\ OfRosout(log[Rows'[i].of])
                 /\ Rows'[i].timestamp = ToTimestampNs(log[Rows'[i].of].time)
      <3>1. CASE i = n + 1
        BY <1>1, <1>2, <1>3, <1>5, <1>7, <3>1
      <3>2. CASE i # n + 1
        <4>1. i \in 1 .. n
          BY <1>3, <3>2
        <4>2. /\ Rows[i].of \in 1 .. next - 1 /\ OfRosout(log[Rows[i].of])
              /\ Rows[i].timestamp = ToTimestampNs(log[Rows[i].of].time)
          BY <4>1 DEF RosoutInv, RowsMade
        <4>3. Rows'[i] = Rows[i]
          BY <1>6, <4>1
        <4>4. Rows[i].of \in 1 .. next /\ Rows[i].of < next
          BY <1>2, <4>2
        <4> QED BY <4>2, <4>3, <4>4
      <3> QED BY <3>1, <3>2
    <2>2. ASSUME NEW i \in 1 .. n + 1, NEW j \in 1 .. n + 1, i < j PROVE Rows'[i].of < Rows'[j].of
      <3>1. i \in 1 .. n
        BY <1>3, <2>2
      <3>2. CASE j = n + 1
        BY <1>5, <1>7, <2>1, <3>1, <3>2
      <3>3. CASE j # n + 1
        <4>1. j \in 1 .. n
          BY <1>3, <3>3
        <4> QED BY <1>6, <2>2, <3>1, <4>1 DEF RosoutInv, RowsMade
      <3> QED BY <3>2, <3>3
    <2>3. ASSUME NEW k \in 1 .. next, OfRosout(log[k]) PROVE \E i \in 1 .. n + 1 : Rows'[i].of = k
      <3>1. CASE k = next
        BY <1>3, <1>5, <1>7, <3>1
      <3>2. CASE k # next
        <4>1. k \in 1 .. next - 1
          BY <1>2, <3>2
        <4>2. PICK i \in 1 .. n : Rows[i].of = k
          BY <1>1, <2>3, <4>1 DEF RosoutInv, RowsMade
        <4> QED BY <1>3, <1>6, <4>2
      <3> QED BY <3>1, <3>2
    <2>4. next' - 1 = next /\ log' = log /\ \A k : OfRosout(log[k])' <=> OfRosout(log[k])
      BY <1>1, <1>2 DEF OfRosout
    <2> QED BY <1>4, <2>1, <2>2, <2>3, <2>4 DEF RowsMade, OfRosout
  <1> QED BY <1>1, <1>2, <1>4, <1>8 DEF RosoutInv

LEMMA ReturnChunkInv == ASSUME RosoutInv, ReturnChunk PROVE RosoutInv'
  <1>1. /\ phase = "scan"
        /\ next > Len(log) \/ Len(output) = VectorSize
        /\ emitted' = emitted \o output /\ output' = <<>>
        /\ phase' = IF output = <<>> THEN "done" ELSE "scan"
        /\ UNCHANGED <<log, cache, next>>
    BY DEF ReturnChunk
  <1>2. /\ log \in Logs /\ Len(log) \in Nat /\ next \in 1 .. Len(log) + 1
        /\ AreRows(output) /\ AreRows(emitted)
    BY RosoutAssumption DEF RosoutInv
  <1>3. AreRows(emitted') /\ AreRows(output') /\ Len(output') = 0
    BY <1>1, <1>2, ConcatRows, NoRows
  <1>4. /\ Len(Rows') = Len(Rows) /\ Len(Rows) \in Nat
        /\ \A i \in 1 .. Len(Rows) : Rows'[i] = Rows[i]
    BY <1>1, <1>2, <1>3, ConcatRows DEF Rows, AreRows
  <1>5. phase' = "done" => next = Len(log) + 1
    BY <1>1, <1>2, RosoutAssumption
  <1>6. RowsMade'
    <2>1. phase # "error" /\ UNCHANGED <<log, next>>
      BY <1>1
    <2>2. Len(Rows') \in Nat /\ Len(Rows') <= Len(Rows)
      BY <1>4
    <2>3. \A i \in 1 .. Len(Rows') : Rows'[i] = Rows[i]
      BY <1>4
    <2> QED BY <1>4, <2>1, <2>2, <2>3, SameRows
  <1> QED BY <1>1, <1>2, <1>3, <1>5, <1>6 DEF RosoutInv

LEMMA PassMessageInv == ASSUME RosoutInv, PassMessage PROVE RosoutInv'
  <1>1. /\ phase = "scan" /\ next <= Len(log) /\ ~OfRosout(log[next]) /\ next' = next + 1
        /\ UNCHANGED <<log, phase, cache, output, emitted>>
    BY DEF PassMessage
  <1>2. log \in Logs /\ Len(log) \in Nat /\ next \in 1 .. Len(log) + 1 /\ Rows' = Rows
    BY <1>1, RosoutAssumption DEF RosoutInv, Rows
  <1>3. RowsMade'
    <2>1. ASSUME NEW k \in 1 .. next, OfRosout(log[k]) PROVE k \in 1 .. next - 1
      BY <1>1, <1>2, <2>1
    <2>2. \A i \in 1 .. Len(Rows) : Rows[i].of \in 1 .. next' - 1
      BY <1>1, <1>2 DEF RosoutInv, RowsMade
    <2>3. next' - 1 = next
      BY <1>1, <1>2
    <2> QED BY <1>1, <1>2, <2>1, <2>2, <2>3 DEF RosoutInv, RowsMade, OfRosout
  <1> QED BY <1>1, <1>2, <1>3 DEF RosoutInv, AreRows

LEMMA FailsInv == ASSUME RosoutInv, Fails PROVE RosoutInv'
  <1>1. /\ phase \in {"bind", "open", "scan"} /\ phase' = "error" /\ output' = <<>>
        /\ UNCHANGED <<log, cache, next, emitted>>
    BY DEF Fails
  <1>2. AreRows(output) /\ AreRows(emitted) /\ AreRows(output') /\ Len(output') = 0
    BY <1>1, NoRows DEF RosoutInv
  <1>3. /\ Len(Rows') <= Len(Rows) /\ Len(Rows) \in Nat /\ Len(Rows') \in Nat
        /\ \A i \in 1 .. Len(Rows') : Rows'[i] = Rows[i]
    BY <1>1, <1>2, ConcatRows DEF Rows, AreRows
  <1>4. RowsMade'
    BY <1>1, <1>3, SameRows
  <1> QED BY <1>1, <1>2, <1>4 DEF RosoutInv

LEMMA RosoutInvStep == RosoutInv /\ [Next]_rosoutVars => RosoutInv'
  <1> SUFFICES ASSUME RosoutInv, [Next]_rosoutVars PROVE RosoutInv'
    OBVIOUS
  <1>1. CASE RosoutBind \/ RosoutInitGlobal \/ Ended \/ UNCHANGED rosoutVars
    <2>1. /\ UNCHANGED <<log, next, output, emitted>>
          /\ phase' \in {"bind", "open"} => phase \in {"bind", "open"}
          /\ phase' = "done" => phase = "done"
          /\ phase = "error" => phase' = "error"
      BY <1>1 DEF RosoutBind, RosoutInitGlobal, Ended, rosoutVars
    <2>2. Rows' = Rows /\ RowsMade'
      BY <2>1 DEF Rows, RosoutInv, RowsMade, OfRosout
    <2> QED BY <2>1, <2>2 DEF RosoutInv, AreRows
  <1>2. CASE Fails
    BY <1>2, FailsInv
  <1>3. CASE PassMessage
    BY <1>3, PassMessageInv
  <1>4. CASE WriteRow
    BY <1>4, WriteRowInv
  <1>5. CASE ReturnChunk
    BY <1>5, ReturnChunkInv
  <1> QED BY <1>1, <1>2, <1>3, <1>4, <1>5 DEF Next

\* views/rosout.cpp:124-168: one row for each message of a rosout topic, in the
\* order of the file, whatever is known of its channel and whatever its payload;
\* a scan that ends has written them all, for any number and any chunk size.
THEOREM RosoutRows == Spec => []RowPerMessage
  <1>1. RosoutInv => RowPerMessage
    <2> SUFFICES ASSUME RosoutInv PROVE RowPerMessage
      OBVIOUS
    <2>1. /\ Len(log) \in Nat /\ DOMAIN log = 1 .. Len(log) /\ next \in 1 .. Len(log) + 1
          /\ phase = "done" => next - 1 = Len(log)
      BY RosoutAssumption DEF RosoutInv
    <2>2. DOMAIN Rows = 1 .. Len(Rows)
      BY ConcatRows DEF RosoutInv, Rows, AreRows
    <2>3. \A i \in 1 .. Len(Rows) : Rows[i].of \in DOMAIN log
      BY <2>1 DEF RosoutInv, RowsMade
    <2>4. ASSUME phase = "done"
          PROVE  {Rows[i].of : i \in 1 .. Len(Rows)} = {k \in DOMAIN log : OfRosout(log[k])}
      <3>1. \A i \in 1 .. Len(Rows) : OfRosout(log[Rows[i].of])
        BY DEF RosoutInv, RowsMade
      <3>2. \A k \in DOMAIN log : OfRosout(log[k]) => \E i \in 1 .. Len(Rows) : Rows[i].of = k
        BY <2>1, <2>4 DEF RosoutInv, RowsMade
      <3> QED BY <2>3, <3>1, <3>2
    <2> QED BY <2>2, <2>3, <2>4 DEF RosoutInv, RowsMade, RowPerMessage
  <1>2. Spec => []RosoutInv
    BY RosoutInvInit, RosoutInvStep, PTL DEF Spec
  <1> QED BY <1>1, <1>2, PTL

-----------------------------------------------------------------------------
(* Reading a string ends, inside the text. *)

LEMMA TextParts ==
  ASSUME NEW t \in Text
  PROVE  /\ Len(t) \in Nat /\ DOMAIN t = 1 .. Len(t) /\ t \in [1 .. Len(t) -> Nat]
         /\ \A i \in 1 .. Len(t) : t[i] \in Nat
  BY DEF Text

LEMMA OneSymbol ==
  ASSUME NEW x \in Nat
  PROVE  /\ <<x>> \in Text /\ Len(<<x>>) = 1 /\ <<x>>[1] = x
  BY DEF Text

LEMMA ShortEscapes ==
  /\ DOMAIN ShortEscape = {8, 9, 10, 12, 13}
  /\ ShortEscape[8] = 98 /\ ShortEscape[9] = 116 /\ ShortEscape[10] = 110
  /\ ShortEscape[12] = 102 /\ ShortEscape[13] = 114
  BY DEF ShortEscape

LEMMA HexValueRange == ASSUME NEW c \in Nat PROVE HexValue(c) \in -1 .. 15
  <1>1. CASE c \in 48 .. 57
    BY <1>1 DEF HexValue
  <1>2. CASE c \in 97 .. 102
    BY <1>2 DEF HexValue
  <1>3. CASE c \in 65 .. 70
    BY <1>3 DEF HexValue
  <1>4. CASE c \notin 48 .. 57 /\ c \notin 97 .. 102 /\ c \notin 65 .. 70
    BY <1>4 DEF HexValue
  <1> QED BY <1>1, <1>2, <1>3, <1>4

\* A code unit, or -1.
IsUnit(u) == u \in Int /\ -1 <= u /\ u < 65536

LEMMA Hex4Range ==
  ASSUME NEW json \in Text, NEW pos \in Nat \ {0}
  PROVE  /\ IsUnit(ReadHex4(json, pos))
         /\ ReadHex4(json, pos) # -1 => pos + 3 <= Len(json)
  <1>0. Len(json) \in Nat /\ \A i \in 1 .. Len(json) : json[i] \in Nat
    BY TextParts
  <1>1. CASE pos + 3 > Len(json) \/ \E i \in 0 .. 3 : HexValue(json[pos + i]) = -1
    BY <1>1 DEF ReadHex4, IsUnit
  <1>2. CASE ~(pos + 3 > Len(json) \/ \E i \in 0 .. 3 : HexValue(json[pos + i]) = -1)
    <2>1. pos + 3 <= Len(json)
      BY <1>0, <1>2
    <2>2. ASSUME NEW i \in 0 .. 3 PROVE HexValue(json[pos + i]) \in 0 .. 15
      <3>1. pos + i \in 1 .. Len(json)
        BY <1>0, <2>1
      <3>2. json[pos + i] \in Nat
        BY <1>0, <3>1
      <3>3. HexValue(json[pos + i]) # -1
        BY <1>2
      <3> DEFINE v == HexValue(json[pos + i])
      <3>4. v \in -1 .. 15 /\ v # -1
        BY <3>2, <3>3, HexValueRange
      <3> HIDE DEF v
      <3>5. v \in 0 .. 15
        BY <3>4
      <3> QED BY <3>5 DEF v
    <2> DEFINE a == HexValue(json[pos])
               b == HexValue(json[pos + 1])
               c == HexValue(json[pos + 2])
               d == HexValue(json[pos + 3])
    <2>3. a \in 0 .. 15 /\ b \in 0 .. 15 /\ c \in 0 .. 15 /\ d \in 0 .. 15
      <3>1. pos + 0 = pos /\ 0 \in 0 .. 3 /\ 1 \in 0 .. 3 /\ 2 \in 0 .. 3 /\ 3 \in 0 .. 3
        OBVIOUS
      <3>2. a \in 0 .. 15
        BY <2>2, <3>1
      <3> QED BY <2>2, <3>1, <3>2
    <2>4. ReadHex4(json, pos) = a * 4096 + b * 256 + c * 16 + d
      BY <1>2 DEF ReadHex4
    <2> HIDE DEF a, b, c, d
    <2>5. IsUnit(a * 4096 + b * 256 + c * 16 + d)
      BY <2>3 DEF IsUnit
    <2> QED BY <2>1, <2>4, <2>5
  <1> QED BY <1>1, <1>2

LEMMA UnitRange ==
  ASSUME NEW json \in Text, NEW pos \in Nat \ {0}
  PROVE  /\ IsUnit(UnitAt(json, pos))
         /\ UnitAt(json, pos) # -1 => pos + 5 <= Len(json)
  <1> DEFINE q == pos + 2
  <1>1. q \in Nat \ {0} /\ q + 3 = pos + 5
    OBVIOUS
  <1> HIDE DEF q
  <1>2. /\ IsUnit(ReadHex4(json, q))
        /\ ReadHex4(json, q) # -1 => q + 3 <= Len(json)
    BY <1>1, Hex4Range
  <1>3. UnitAt(json, pos) = ReadHex4(json, q) \/ UnitAt(json, pos) = -1
    BY DEF UnitAt, q
  <1>4. IsUnit(-1)
    BY DEF IsUnit
  <1> QED BY <1>1, <1>2, <1>3, <1>4

LEMMA Utf8IsText == ASSUME NEW cp \in Nat PROVE AppendUtf8(cp) \in Text
  <1>1. ASSUME NEW w \in {1, 64, 4096} PROVE Continuation(cp, w) \in Nat
    BY DEF Continuation
  <1>2. 192 + cp \div 64 \in Nat /\ 224 + cp \div 4096 \in Nat /\ 240 + cp \div 262144 \in Nat
    OBVIOUS
  <1> QED BY <1>1, <1>2 DEF AppendUtf8, Text

LEMMA Letters == ASSUME NEW c \in Nat PROVE Unescaped(c) \in Nat
  BY ShortEscapes DEF Unescaped

\* What reading a string from pos on may come to.
Reads(json, from) ==
  {r \in [text : Text, next : 0 .. Len(json) + 1] :
     r = Malformed \/ (from # 0 /\ r.next \in from + 1 .. Len(json) + 1)}

LEMMA MalformedReads ==
  ASSUME NEW json \in Text, NEW from PROVE Malformed \in Reads(json, from)
  <1>1. Len(json) \in Nat /\ 0 \in 0 .. Len(json) + 1 /\ <<>> \in Text
    BY TextParts DEF Text
  <1> QED BY <1>1 DEF Malformed, Reads

LEMMA ForwardReads ==
  ASSUME NEW json \in Text, NEW from \in Nat \ {0}, NEW t \in Text, NEW n \in from + 1 .. Len(json) + 1
  PROVE  [text |-> t, next |-> n] \in Reads(json, from)
  <1>1. n \in 0 .. Len(json) + 1
    BY TextParts
  <1> QED BY <1>1 DEF Reads

\* Steps that end after the text stay in it.
LEMMA CombinedReads ==
  ASSUME NEW json \in Text, NEW pos \in 1 .. Len(json), NEW unit, NEW low,
         IsUnit(unit), unit # -1 => pos + 5 <= Len(json),
         IsUnit(low), low # -1 => pos + 11 <= Len(json)
  PROVE  Combined(unit, low, pos) \in Reads(json, pos)
  <1>0. Len(json) \in Nat /\ pos \in Nat \ {0}
    BY TextParts
  <1>3. CASE unit = -1
    BY <1>3, MalformedReads DEF Combined
  <1>4. CASE unit # -1 /\ unit \in HighSurrogates /\ low \in LowSurrogates
    <2> DEFINE cp == 65536 + (unit - 55296) * 1024 + (low - 56320)
    <2>1. cp \in Nat /\ low # -1
      BY <1>4 DEF HighSurrogates, LowSurrogates
    <2>2. Combined(unit, low, pos) = [text |-> AppendUtf8(cp), next |-> pos + 12]
      BY <1>4 DEF Combined
    <2> HIDE DEF cp
    <2>3. AppendUtf8(cp) \in Text /\ pos + 12 \in pos + 1 .. Len(json) + 1
      BY <1>0, <1>4, <2>1, Utf8IsText
    <2> QED BY <1>0, <2>2, <2>3, ForwardReads
  <1>5. CASE unit # -1 /\ ~(unit \in HighSurrogates /\ low \in LowSurrogates)
    <2> DEFINE cp == IF unit \in HighSurrogates \cup LowSurrogates THEN Replacement ELSE unit
    <2>1. cp \in Nat
      BY <1>5 DEF Replacement, IsUnit
    <2>2. Combined(unit, low, pos) = [text |-> AppendUtf8(cp), next |-> pos + 6]
      BY <1>5 DEF Combined
    <2> HIDE DEF cp
    <2>3. AppendUtf8(cp) \in Text /\ pos + 6 \in pos + 1 .. Len(json) + 1
      BY <1>0, <1>5, <2>1, Utf8IsText
    <2> QED BY <1>0, <2>2, <2>3, ForwardReads
  <1> QED BY <1>3, <1>4, <1>5

\* An item is read forward.
LEMMA ItemIsRead ==
  ASSUME NEW json \in Text, NEW pos \in 1 .. Len(json)
  PROVE  ReadItem(json, pos) \in Reads(json, pos)
  <1>1. Len(json) \in Nat /\ json[pos] \in Nat /\ pos \in Nat \ {0}
    BY TextParts
  <1>2. CASE json[pos] # Backslash \/ pos = Len(json)
    <2>1. <<json[pos]>> \in Text /\ pos + 1 \in pos + 1 .. Len(json) + 1
      BY <1>1, OneSymbol
    <2>2. ReadItem(json, pos) = [text |-> <<json[pos]>>, next |-> pos + 1]
      BY <1>2 DEF ReadItem
    <2> QED BY <1>1, <2>1, <2>2, ForwardReads
  <1>3. CASE json[pos] = Backslash /\ pos # Len(json)
    <2>1. pos + 1 \in 1 .. Len(json)
      BY <1>1, <1>3
    <2>2. json[pos + 1] \in Nat
      BY <2>1, TextParts
    <2>3. CASE json[pos + 1] = LowerU
      <3>1. pos + 6 \in Nat \ {0} /\ (pos + 6) + 5 = pos + 11
        BY <1>1
      <3>2. /\ IsUnit(UnitAt(json, pos)) /\ (UnitAt(json, pos) # -1 => pos + 5 <= Len(json))
            /\ IsUnit(UnitAt(json, pos + 6)) /\ (UnitAt(json, pos + 6) # -1 => pos + 11 <= Len(json))
        BY <1>1, <3>1, UnitRange
      <3>3. ReadItem(json, pos) = Combined(UnitAt(json, pos), UnitAt(json, pos + 6), pos)
        BY <1>3, <2>3 DEF ReadItem, UnicodeEscape
      <3> QED BY <3>2, <3>3, CombinedReads
    <2>4. CASE json[pos + 1] # LowerU
      <3>1. <<Unescaped(json[pos + 1])>> \in Text /\ pos + 2 \in pos + 1 .. Len(json) + 1
        <4>1. Unescaped(json[pos + 1]) \in Nat
          BY <2>2, Letters
        <4>2. <<Unescaped(json[pos + 1])>> \in Text
          BY <4>1, OneSymbol
        <4> QED BY <1>1, <2>1, <4>2
      <3>2. ReadItem(json, pos) = [text |-> <<Unescaped(json[pos + 1])>>, next |-> pos + 2]
        BY <1>3, <2>4 DEF ReadItem
      <3> QED BY <1>1, <3>1, <3>2, ForwardReads
    <2> QED BY <2>3, <2>4
  <1> QED BY <1>2, <1>3

-----------------------------------------------------------------------------
\* One step of the loop over a string.
ReadStep(json, read, pos) ==
  LET item == ReadItem(json, pos)
  IN  IF pos \in {Malformed.next, Len(json) + 1} THEN Malformed
      ELSE IF json[pos] = Quote THEN [text |-> <<>>, next |-> pos + 1]
      ELSE Prefixed(item.text, read[item.next])

\* The positions a string can be read from, and how much is left from there.
Positions(json) == 0 .. Len(json) + 1
Left(json) == [pos \in Positions(json) |-> IF pos = 0 THEN 0 ELSE Len(json) + 2 - pos]

\* A step needs the result of later positions only.
LEMMA StepIsRead ==
  ASSUME NEW json \in Text, NEW pos \in Positions(json), NEW g,
         \A p \in Positions(json) : Left(json)[p] < Left(json)[pos] => g[p] \in Reads(json, p)
  PROVE  ReadStep(json, g, pos) \in Reads(json, pos)
  <1>1. Len(json) \in Nat /\ Malformed.next = 0
    BY TextParts DEF Malformed
  <1>2. CASE pos \in {Malformed.next, Len(json) + 1}
    BY <1>2, MalformedReads DEF ReadStep
  <1>3. CASE pos \notin {Malformed.next, Len(json) + 1}
    <2>1. pos \in 1 .. Len(json)
      BY <1>1, <1>3 DEF Positions
    <2>2. CASE json[pos] = Quote
      <3>1. <<>> \in Text /\ pos + 1 \in pos + 1 .. Len(json) + 1
        BY <1>1, <2>1 DEF Text
      <3>2. ReadStep(json, g, pos) = [text |-> <<>>, next |-> pos + 1]
        BY <1>3, <2>2 DEF ReadStep
      <3> QED BY <2>1, <3>1, <3>2, ForwardReads
    <2>3. CASE json[pos] # Quote
      <3> DEFINE item == ReadItem(json, pos)
                 rest == g[item.next]
      <3>1. item \in Reads(json, pos)
        BY <2>1, ItemIsRead
      <3>2. ReadStep(json, g, pos) = Prefixed(item.text, rest)
        BY <1>3, <2>3 DEF ReadStep
      <3>3. item.text \in Text /\ item.next \in Positions(json) /\ (item.next = 0 \/ item.next > pos)
        <4> HIDE DEF item
        <4> QED BY <1>1, <2>1, <3>1 DEF Reads, Positions
      <3>4. Left(json)[item.next] < Left(json)[pos]
        <4> HIDE DEF item
        <4> QED BY <1>1, <2>1, <3>3 DEF Left, Positions
      <3> HIDE DEF item
      <3>5. rest \in Reads(json, item.next)
        BY <3>3, <3>4
      <3> HIDE DEF rest
      <3>6. CASE rest = Malformed
        BY <3>2, <3>6, MalformedReads DEF Prefixed
      <3>7. CASE rest # Malformed
        <4>1. rest.text \in Text /\ item.next # 0 /\ rest.next \in item.next + 1 .. Len(json) + 1
          BY <3>5, <3>7 DEF Reads
        <4>2. rest.next \in pos + 1 .. Len(json) + 1
          BY <1>1, <2>1, <3>3, <4>1 DEF Positions
        <4>3. item.text \o rest.text \in Text
          BY <3>3, <4>1 DEF Text
        <4>4. ReadStep(json, g, pos) = [text |-> item.text \o rest.text, next |-> rest.next]
          BY <3>2, <3>7 DEF Prefixed
        <4>5. pos \in Nat \ {0}
          BY <1>1, <2>1
        <4> QED BY <4>2, <4>3, <4>4, <4>5, ForwardReads
      <3> QED BY <3>6, <3>7
    <2> QED BY <2>2, <2>3
  <1> QED BY <1>2, <1>3

LEMMA LeftRanks ==
  ASSUME NEW json \in Text
  PROVE  Left(json) \in [Positions(json) -> 0 .. Len(json) + 2]
  <1>1. Len(json) \in Nat
    BY TextParts
  <1> QED BY <1>1 DEF Left, Positions

\* The results a string has from each of its positions.
Results(json) == [text : Text, next : 0 .. Len(json) + 1]


LEMMA StepInResults ==
  ASSUME NEW json \in Text, NEW pos \in Positions(json), NEW g \in [Positions(json) -> Results(json)]
  PROVE  ReadStep(json, g, pos) \in Results(json)
  <1>1. Len(json) \in Nat /\ Malformed.next = 0 /\ Malformed \in Results(json)
    BY TextParts, MalformedReads DEF Malformed, Reads, Results
  <1>2. CASE pos \in {Malformed.next, Len(json) + 1}
    BY <1>1, <1>2 DEF ReadStep
  <1>3. CASE pos \notin {Malformed.next, Len(json) + 1}
    <2>1. pos \in 1 .. Len(json)
      BY <1>1, <1>3 DEF Positions
    <2>2. CASE json[pos] = Quote
      <3>1. <<>> \in Text /\ pos + 1 \in 0 .. Len(json) + 1
        BY <1>1, <2>1 DEF Text
      <3> QED BY <1>3, <2>2, <3>1 DEF ReadStep, Results
    <2>3. CASE json[pos] # Quote
      <3> DEFINE item == ReadItem(json, pos)
                 rest == g[item.next]
      <3>1. item \in Reads(json, pos)
        BY <2>1, ItemIsRead
      <3>2. ReadStep(json, g, pos) = Prefixed(item.text, rest)
        BY <1>3, <2>3 DEF ReadStep
      <3> HIDE DEF item
      <3>3. item.text \in Text /\ rest \in Results(json)
        BY <3>1 DEF Reads, Positions
      <3> HIDE DEF rest
      <3>4. item.text \o rest.text \in Text /\ rest.next \in 0 .. Len(json) + 1
        BY <3>3 DEF Text, Results
      <3>5. [text |-> item.text \o rest.text, next |-> rest.next] \in Results(json)
        BY <3>4 DEF Results
      <3> QED BY <1>1, <3>2, <3>5 DEF Prefixed
    <2> QED BY <2>2, <2>3
  <1> QED BY <1>2, <1>3

LEMMA StepIsLocal ==
  ASSUME NEW json \in Text, NEW pos \in Positions(json), NEW g, NEW h,
         \A p \in Positions(json) : Left(json)[p] < Left(json)[pos] => g[p] = h[p]
  PROVE  ReadStep(json, g, pos) = ReadStep(json, h, pos)
  <1>1. Len(json) \in Nat /\ Malformed.next = 0
    BY TextParts DEF Malformed
  <1>2. CASE pos \in {Malformed.next, Len(json) + 1}
    BY <1>2 DEF ReadStep
  <1>3. CASE pos \notin {Malformed.next, Len(json) + 1}
    <2>1. pos \in 1 .. Len(json)
      BY <1>1, <1>3 DEF Positions
    <2> DEFINE item == ReadItem(json, pos)
    <2>2. item \in Reads(json, pos)
      BY <2>1, ItemIsRead
    <2> HIDE DEF item
    <2>3. item.next \in Positions(json) /\ Left(json)[item.next] < Left(json)[pos]
      BY <1>1, <2>1, <2>2 DEF Reads, Positions, Left, Malformed
    <2>4. g[item.next] = h[item.next]
      BY <2>3
    <2> QED BY <2>4 DEF ReadStep, item
  <1> QED BY <1>2, <1>3

LEMMA ReadExists ==
  ASSUME NEW json \in Text
  PROVE  \E g : g = [pos \in Positions(json) |-> ReadStep(json, g, pos)]
  <1> DEFINE D == Positions(json)
             S == Results(json)
             rank == Left(json)
             n == Len(json) + 2
             F == [a \in D \X [D -> S] |-> ReadStep(json, a[2], a[1])]
  <1>1. n \in Nat /\ rank \in [D -> 0 .. n]
    BY TextParts, LeftRanks
  <1>2. S # {}
    <2>1. Malformed \in Reads(json, 0)
      BY MalformedReads
    <2> QED BY <2>1 DEF Reads, Results
  <1>3. \A x \in D : \A g \in [D -> S] : ReadStep(json, g, x) \in S
    BY StepInResults
  <1>4. F \in [D \X [D -> S] -> S]
    <2> HIDE DEF D, S
    <2> QED BY <1>3
  <1>5. \A x \in D : \A g \in [D -> S] : F[<<x, g>>] = ReadStep(json, g, x)
    <2> HIDE DEF D, S
    <2> QED OBVIOUS
  <1>6. ASSUME NEW x \in D, NEW g \in [D -> S], NEW h \in [D -> S],
               \A y \in D : rank[y] < rank[x] => g[y] = h[y]
        PROVE  F[<<x, g>>] = F[<<x, h>>]
    <2>1. ReadStep(json, g, x) = ReadStep(json, h, x)
      BY <1>6, StepIsLocal
    <2> HIDE DEF F
    <2> QED BY <1>5, <2>1
  <1>7. PICK g : Solution(g, D, S, F)
    <2> HIDE DEF D, S, rank, n, F
    <2>1. LooksBack(D, S, rank, F)
      BY <1>6 DEF LooksBack
    <2> QED BY <1>1, <1>2, <1>4, <2>1, RecursionExists
  <1>8. \A x \in D : g[x] = ReadStep(json, g, x)
    <2> HIDE DEF F
    <2> QED BY <1>5, <1>7 DEF Solution
  <1>9. g = [x \in D |-> ReadStep(json, g, x)]
    <2> HIDE DEF D, S
    <2> QED BY <1>7, <1>8 DEF Solution
  <1> QED BY <1>9

\* A string is read item by item, and forward.
LEMMA StringIsRead ==
  ASSUME NEW json \in Text
  PROVE  \E read :
           /\ \A pos \in Positions(json) : read[pos] = ReadStep(json, read, pos) /\ read[pos] \in Reads(json, pos)
           /\ \A from : ReadJsonString(json, from) = read[from + 1]
  <1>1. PICK read : /\ read = [pos \in Positions(json) |-> ReadStep(json, read, pos)]
                    /\ \A from : ReadJsonString(json, from) = read[from + 1]
    BY ReadExists DEF ReadJsonString, ReadStep, Positions
  <1>2. \A pos \in Positions(json) : read[pos] = ReadStep(json, read, pos)
    BY <1>1
  <1> DEFINE D == Positions(json)
             rank == Left(json)
             n == Len(json) + 2
             P == {pos \in D : read[pos] \in Reads(json, pos)}
  <1>3. n \in Nat /\ rank \in [D -> 0 .. n]
    BY TextParts, LeftRanks
  <1>4. ASSUME NEW x \in D, \A y \in D : rank[y] < rank[x] => y \in P
        PROVE  x \in P
    <2>1. ReadStep(json, read, x) \in Reads(json, x)
      BY <1>4, StepIsRead
    <2> QED BY <1>2, <2>1
  <1>5. D \subseteq P
    <2> HIDE DEF D, rank, n, P
    <2> QED BY <1>3, <1>4, RankInduction
  <1> QED BY <1>1, <1>2, <1>5

-----------------------------------------------------------------------------
(* The fields of a document. *)

LEMMA MinIsLeast ==
  ASSUME NEW S \in SUBSET Nat, S # {}
  PROVE  Min(S) \in S /\ \A x \in S : Min(S) <= x
  BY LeastNatural DEF Min

\* A string, if there is one.
Found == {NoField} \cup {<<t>> : t \in Text}

\* A value is read forward, too, though it may be empty.
ValueReads(json, from) ==
  {r \in [text : Text, next : Nat] : r = Malformed \/ r.next >= from}

LEMMA SearchForward ==
  ASSUME NEW json \in Text, NEW from \in Nat, NEW S
  PROVE  /\ FirstAt(json, from, S) \in 0 .. Len(json) + 1
         /\ SkipSpaces(json, from) \in 0 .. Len(json) + 1
         /\ from <= Len(json) + 1 => FirstAt(json, from, S) >= from /\ SkipSpaces(json, from) >= from
  <1>1. Len(json) \in Nat
    BY TextParts
  <1>2. ASSUME NEW F \in SUBSET (from .. Len(json))
        PROVE  /\ Min(F \cup {Len(json) + 1}) \in 0 .. Len(json) + 1
               /\ from <= Len(json) + 1 => Min(F \cup {Len(json) + 1}) >= from
    <2> DEFINE T == F \cup {Len(json) + 1}
    <2>0. \A x \in F : x \in Nat /\ x <= Len(json)
      BY <1>1
    <2>1. T \in SUBSET Nat /\ T # {}
      <3>1. \A x \in T : x \in Nat
        BY <1>1, <2>0
      <3>2. Len(json) + 1 \in T
        OBVIOUS
      <3> HIDE DEF T
      <3> QED BY <3>1, <3>2
    <2>2. \A x \in T : /\ x \in 0 .. Len(json) + 1
                      /\ from <= Len(json) + 1 => x >= from
      BY <1>1, <2>0
    <2> HIDE DEF T
    <2>3. Min(T) \in T
      BY <2>1, MinIsLeast
    <2> QED BY <2>1, <2>2, <2>3 DEF T
  <1>3. {p \in from .. Len(json) : json[p] \in S} \in SUBSET (from .. Len(json))
    OBVIOUS
  <1>4. {p \in from .. Len(json) : json[p] \notin Spaces} \in SUBSET (from .. Len(json))
    OBVIOUS
  <1> QED BY <1>2, <1>3, <1>4 DEF FirstAt, SkipSpaces

LEMMA ScalarReads ==
  ASSUME NEW json \in Text, NEW from \in 2 .. Len(json) + 1
  PROVE  ReadScalar(json, from) \in ValueReads(json, from)
  <1>1. Len(json) \in Nat /\ from \in Nat
    BY TextParts
  <1> DEFINE end == FirstAt(json, from, {Comma, CloseBrace, CloseBracket})
             S == {p \in from .. end - 1 : json[p] \notin Spaces} \cup {from - 1}
  <1>2. end \in from .. Len(json) + 1
    BY <1>1, SearchForward
  <1> HIDE DEF end
  <1>3. S \in SUBSET (1 .. Len(json)) /\ S # {} /\ \A x \in S : x \in from - 1 .. Len(json)
    BY <1>1, <1>2
  <1> HIDE DEF S
  <1>4. Max(S) \in from - 1 .. Len(json)
    BY <1>1, <1>3, MaxIsGreatest
  <1>5. SubSeq(json, from, Max(S)) \in Text
    <2> DEFINE last == Max(S)
    <2>1. last \in Int /\ last <= Len(json) /\ last >= from - 1
      BY <1>1, <1>4
    <2> HIDE DEF last
    <2>2. SubSeq(json, from, last) \in Seq(Nat)
      BY <1>1, <2>1 DEF Text
    <2> QED BY <2>2 DEF Text, last
  <1>6. ReadScalar(json, from) = [text |-> SubSeq(json, from, Max(S)), next |-> end]
    BY DEF ReadScalar, S, end
  <1> QED BY <1>1, <1>2, <1>5, <1>6 DEF ValueReads

LEMMA StringReads ==
  ASSUME NEW json \in Text, NEW from \in 0 .. Len(json)
  PROVE  /\ ReadJsonString(json, from) \in Reads(json, from + 1)
         /\ ReadJsonString(json, from) \in ValueReads(json, from)
  <1>1. Len(json) \in Nat /\ from + 1 \in Positions(json)
    BY TextParts DEF Positions
  <1>2. ReadJsonString(json, from) \in Reads(json, from + 1)
    BY <1>1, StringIsRead
  <1> QED BY <1>1, <1>2 DEF Reads, ValueReads

LEMMA ValueIsRead ==
  ASSUME NEW json \in Text, NEW from \in 2 .. Len(json) + 1
  PROVE  ReadValue(json, from) \in ValueReads(json, from)
  <1>1. Len(json) \in Nat
    BY TextParts
  <1> QED BY <1>1, ScalarReads, StringReads DEF ReadValue, At

\* What a round of the loop may come to.
Rounds(pos) ==
  {r \in [returns : BOOLEAN, field : Found, pos : Nat, depth : Int] : r.returns \/ r.pos > pos}

LEMMA ReturnsIsRound == ASSUME NEW pos, NEW f \in Found PROVE Returns(f) \in Rounds(pos)
  BY DEF Returns, Rounds

LEMMA GoesOnIsRound ==
  ASSUME NEW pos \in Nat, NEW p \in Nat, p > pos, NEW d \in Int PROVE GoesOn(p, d) \in Rounds(pos)
  BY DEF GoesOn, Rounds, Found

LEMMA AfterColonIsRound ==
  ASSUME NEW json \in Text, NEW key, NEW token, NEW depth \in Int,
         NEW pos \in Nat, NEW start \in 2 .. Len(json) + 1, start > pos
  PROVE  AfterColon(json, key, token, start, depth) \in Rounds(pos)
  <1>1. Len(json) \in Nat /\ start \in Nat /\ NoField \in Found
    BY TextParts DEF Found
  <1> DEFINE value == ReadValue(json, start)
  <1>2. value \in ValueReads(json, start)
    BY ValueIsRead
  <1> HIDE DEF value
  <1>3. CASE At(json, start, OpenBrace) \/ At(json, start, OpenBracket)
    BY <1>1, <1>3, GoesOnIsRound DEF AfterColon
  <1>4. CASE ~(At(json, start, OpenBrace) \/ At(json, start, OpenBracket)) /\ value = Malformed
    BY <1>1, <1>4, ReturnsIsRound DEF AfterColon, value
  <1>5. CASE ~(At(json, start, OpenBrace) \/ At(json, start, OpenBracket)) /\ value # Malformed
    <2>1. value.text \in Text /\ value.next \in Nat /\ value.next > pos
      BY <1>1, <1>2, <1>5 DEF ValueReads
    <2>2. <<value.text>> \in Found
      BY <2>1 DEF Found
    <2>3. CASE token.text = key
      <3>1. AfterColon(json, key, token, start, depth) = Returns(<<value.text>>)
        BY <1>5, <2>3 DEF AfterColon, value
      <3> QED BY <2>2, <3>1, ReturnsIsRound
    <2>4. CASE token.text # key
      <3>1. AfterColon(json, key, token, start, depth) = GoesOn(value.next, depth)
        BY <1>5, <2>4 DEF AfterColon, value
      <3> QED BY <2>1, <3>1, GoesOnIsRound
    <2> QED BY <2>3, <2>4
  <1> QED BY <1>3, <1>4, <1>5

LEMMA AfterStringIsRound ==
  ASSUME NEW json \in Text, NEW key, NEW depth \in Int,
         NEW pos \in 0 .. Len(json), NEW token \in Reads(json, pos + 1)
  PROVE  AfterString(json, key, token, depth) \in Rounds(pos)
  <1>1. Len(json) \in Nat /\ pos \in Nat /\ NoField \in Found
    BY TextParts DEF Found
  <1> DEFINE after == SkipSpaces(json, token.next)
  <1>2. CASE token = Malformed
    BY <1>1, <1>2, ReturnsIsRound DEF AfterString
  <1>3. CASE token # Malformed
    <2>1. token.next \in Nat /\ token.next > pos + 1 /\ token.next <= Len(json) + 1
      BY <1>1, <1>3 DEF Reads
    <2>2. CASE depth # 0 \/ ~At(json, after, Colon)
      <3>1. AfterString(json, key, token, depth) = GoesOn(token.next, depth)
        BY <1>3, <2>2 DEF AfterString
      <3> QED BY <1>1, <2>1, <3>1, GoesOnIsRound
    <2>3. CASE depth = 0 /\ At(json, after, Colon)
      <3> DEFINE start == SkipSpaces(json, after + 1)
      <3>0. after \in 0 .. Len(json) + 1 /\ after >= token.next
        BY <2>1, SearchForward
      <3>1. after \in Nat /\ after <= Len(json) /\ after >= token.next
        BY <1>1, <2>3, <3>0 DEF At
      <3> HIDE DEF after
      <3>2. start \in 0 .. Len(json) + 1 /\ start >= after + 1
        BY <1>1, <3>1, SearchForward
      <3>3. AfterString(json, key, token, depth) = AfterColon(json, key, token, start, depth)
        BY <1>3, <2>3 DEF AfterString, after
      <3> HIDE DEF start
      <3>4. start \in 2 .. Len(json) + 1 /\ start > pos
        BY <1>1, <2>1, <3>1, <3>2
      <3> QED BY <1>1, <3>3, <3>4, AfterColonIsRound
    <2> QED BY <2>2, <2>3
  <1> QED BY <1>2, <1>3

LEMMA RoundIsRound ==
  ASSUME NEW json \in Text, NEW key, NEW pos \in Nat, NEW depth \in Int
  PROVE  /\ Round(json, key, pos, depth) \in Rounds(pos)
         /\ pos > Len(json) => Round(json, key, pos, depth).returns
  <1>1. Len(json) \in Nat /\ NoField \in Found
    BY TextParts DEF Found
  <1>2. CASE pos > Len(json) \/ (json[pos] = CloseBrace /\ depth = 0)
    <2>1. Round(json, key, pos, depth) = Returns(NoField)
      BY <1>2 DEF Round
    <2> QED BY <1>1, <2>1, ReturnsIsRound DEF Returns
  <1>3. CASE ~(pos > Len(json) \/ (json[pos] = CloseBrace /\ depth = 0))
    <2>1. pos \in 0 .. Len(json)
      BY <1>1, <1>3
    <2>2. ReadJsonString(json, pos) \in Reads(json, pos + 1)
      BY <2>1, StringReads
    <2>3. AfterString(json, key, ReadJsonString(json, pos), depth) \in Rounds(pos)
      BY <2>1, <2>2, AfterStringIsRound
    <2>4. \A d \in Int : GoesOn(pos + 1, d) \in Rounds(pos)
      BY GoesOnIsRound
    <2>5. depth - 1 \in Int /\ depth + 1 \in Int
      OBVIOUS
    <2> QED BY <1>3, <2>3, <2>4, <2>5 DEF Round
  <1> QED BY <1>2, <1>3

\* The rest of the loop, from a position and a depth.
ScanStep(json, key, scan, at) ==
  LET round == Round(json, key, at[1], at[2])
  IN  IF round.returns THEN round.field ELSE scan[<<round.pos, round.depth>>]

Rounding(json) ==
  [at \in Nat \X Int |-> IF at[1] > Len(json) THEN 0 ELSE Len(json) + 1 - at[1]]

LEMMA RoundingRanks ==
  ASSUME NEW json \in Text
  PROVE  Rounding(json) \in [Nat \X Int -> 0 .. Len(json) + 1]
  <1>1. Len(json) \in Nat
    BY TextParts
  <1>2. \A at \in Nat \X Int : at[1] \in Nat
    OBVIOUS
  <1> QED BY <1>1, <1>2 DEF Rounding

LEMMA ScanAdvances ==
  ASSUME NEW json \in Text, NEW key, NEW at \in Nat \X Int
  PROVE  LET round == Round(json, key, at[1], at[2])
         IN  /\ round.field \in Found
             /\ ~round.returns => /\ <<round.pos, round.depth>> \in Nat \X Int
                                  /\ Rounding(json)[<<round.pos, round.depth>>] < Rounding(json)[at]
  <1> DEFINE pos == at[1]
             depth == at[2]
             round == Round(json, key, pos, depth)
  <1>1. Len(json) \in Nat /\ pos \in Nat /\ depth \in Int
    BY TextParts
  <1>2. round \in Rounds(pos) /\ (pos > Len(json) => round.returns)
    <2> HIDE DEF pos, depth
    <2> QED BY <1>1, RoundIsRound
  <1> HIDE DEF round
  <1>3. round.field \in Found /\ round.pos \in Nat /\ round.depth \in Int
    BY <1>2 DEF Rounds
  <1>4. ASSUME ~round.returns
        PROVE  Rounding(json)[<<round.pos, round.depth>>] < Rounding(json)[at]
    <2>1. round.pos > pos /\ pos <= Len(json)
      BY <1>1, <1>2, <1>4 DEF Rounds
    <2>2. <<round.pos, round.depth>> \in Nat \X Int
      BY <1>3
    <2>3. Rounding(json)[at] = Len(json) + 1 - pos
      BY <1>1, <2>1 DEF Rounding
    <2>4. Rounding(json)[<<round.pos, round.depth>>] =
            IF round.pos > Len(json) THEN 0 ELSE Len(json) + 1 - round.pos
      BY <2>2 DEF Rounding
    <2> QED BY <1>1, <1>3, <2>1, <2>3, <2>4
  <1> QED BY <1>3, <1>4 DEF round

LEMMA ScanExists ==
  ASSUME NEW json \in Text, NEW key
  PROVE  \E g : g = [at \in Nat \X Int |-> ScanStep(json, key, g, at)]
  <1> DEFINE D == Nat \X Int
             rank == Rounding(json)
             n == Len(json) + 1
             F == [a \in D \X [D -> Found] |-> ScanStep(json, key, a[2], a[1])]
  <1>1. n \in Nat /\ rank \in [D -> 0 .. n] /\ Found # {}
    BY TextParts, RoundingRanks DEF Found
  <1>2. \A x \in D : \A g \in [D -> Found] : ScanStep(json, key, g, x) \in Found
    BY ScanAdvances DEF ScanStep
  <1>3. F \in [D \X [D -> Found] -> Found]
    <2> HIDE DEF D
    <2> QED BY <1>2
  <1>4. \A x \in D : \A g \in [D -> Found] : F[<<x, g>>] = ScanStep(json, key, g, x)
    <2> HIDE DEF D
    <2> QED OBVIOUS
  <1>5. ASSUME NEW x \in D, NEW g \in [D -> Found], NEW h \in [D -> Found],
               \A y \in D : rank[y] < rank[x] => g[y] = h[y]
        PROVE  F[<<x, g>>] = F[<<x, h>>]
    <2>1. ScanStep(json, key, g, x) = ScanStep(json, key, h, x)
      BY <1>5, ScanAdvances DEF ScanStep
    <2> HIDE DEF F
    <2> QED BY <1>4, <2>1
  <1>6. PICK g : Solution(g, D, Found, F)
    <2> HIDE DEF D, rank, n, F
    <2>1. LooksBack(D, Found, rank, F)
      BY <1>5 DEF LooksBack
    <2> QED BY <1>1, <1>3, <2>1, RecursionExists
  <1>7. \A x \in D : g[x] = ScanStep(json, key, g, x)
    <2> HIDE DEF F
    <2> QED BY <1>4, <1>6 DEF Solution
  <1>8. g = [x \in D |-> ScanStep(json, key, g, x)]
    <2> HIDE DEF D
    <2> QED BY <1>6, <1>7 DEF Solution
  <1> QED BY <1>8

\* A document is scanned round by round, and every one of them makes a string or none.
LEMMA DocumentIsScanned ==
  ASSUME NEW json \in Text, NEW key
  PROVE  \E scan :
           /\ \A at \in Nat \X Int : scan[at] = ScanStep(json, key, scan, at) /\ scan[at] \in Found
           /\ ExtractJsonStringField(json, key) = scan[<<FirstAt(json, 1, {OpenBrace}) + 1, 0>>]
  <1>1. PICK scan : /\ scan = [at \in Nat \X Int |-> ScanStep(json, key, scan, at)]
                    /\ ExtractJsonStringField(json, key) = scan[<<FirstAt(json, 1, {OpenBrace}) + 1, 0>>]
    BY ScanExists DEF ExtractJsonStringField, ScanStep
  <1>2. \A at \in Nat \X Int : scan[at] = ScanStep(json, key, scan, at)
    BY <1>1
  <1> DEFINE D == Nat \X Int
             rank == Rounding(json)
             n == Len(json) + 1
             P == {at \in D : scan[at] \in Found}
  <1>3. n \in Nat /\ rank \in [D -> 0 .. n]
    BY TextParts, RoundingRanks
  <1>4. ASSUME NEW x \in D, \A y \in D : rank[y] < rank[x] => y \in P
        PROVE  x \in P
    <2>1. ScanStep(json, key, scan, x) \in Found
      BY <1>4, ScanAdvances DEF ScanStep
    <2> QED BY <1>2, <2>1
  <1>5. D \subseteq P
    <2> HIDE DEF D, rank, n, P
    <2> QED BY <1>3, <1>4, RankInduction
  <1> QED BY <1>1, <1>2, <1>5

LEMMA FieldIsRead ==
  ASSUME NEW json \in Text, NEW key PROVE ExtractJsonStringField(json, key) \in Found
  <1>1. Len(json) \in Nat
    BY TextParts
  <1>2. FirstAt(json, 1, {OpenBrace}) \in 0 .. Len(json) + 1
    BY SearchForward
  <1>3. <<FirstAt(json, 1, {OpenBrace}) + 1, 0>> \in Nat \X Int
    BY <1>1, <1>2
  <1> QED BY <1>3, DocumentIsScanned

-----------------------------------------------------------------------------
(* The columns. *)

LEMMA FieldsAreTexts == ASSUME NEW f \in Found PROVE f \in Seq(Text)
  <1>1. ASSUME NEW S, NEW x \in S PROVE <<x>> \in Seq(S)
    OBVIOUS
  <1>2. <<>> \in Seq(Text)
    OBVIOUS
  <1> QED BY <1>1, <1>2 DEF Found, NoField

LEMMA NamesAreListed ==
  \A raw \in DOMAIN SeverityNames :
    SeverityNames[raw] \in {<<DEBUG>>, <<INFO>>, <<WARN>>, <<ERROR>>, <<FATAL>>}
  <1> SUFFICES ASSUME NEW raw \in DOMAIN SeverityNames
               PROVE  SeverityNames[raw] \in {<<DEBUG>>, <<INFO>>, <<WARN>>, <<ERROR>>, <<FATAL>>}
    OBVIOUS
  <1>1. DOMAIN SeverityNames = {<<Number(n)>> : n \in {10, 20, 30, 40, 50}}
    BY DEF SeverityNames
  <1>2. \/ raw = <<Number(10)>> \/ raw = <<Number(20)>> \/ raw = <<Number(30)>>
        \/ raw = <<Number(40)>> \/ raw = <<Number(50)>>
    BY <1>1
  <1>3. raw \in {<<Number(n)>> : n \in {10, 20, 30, 40, 50}}
    BY <1>1
  <1>4. SeverityNames[raw] =
          CASE raw = <<Number(10)>> -> <<DEBUG>>
            [] raw = <<Number(20)>> -> <<INFO>>
            [] raw = <<Number(30)>> -> <<WARN>>
            [] raw = <<Number(40)>> -> <<ERROR>>
            [] raw = <<Number(50)>> -> <<FATAL>>
    BY <1>3 DEF SeverityNames
  <1> DEFINE name == SeverityNames[raw]
  <1> HIDE DEF name
  <1>5. name \in {<<DEBUG>>, <<INFO>>, <<WARN>>, <<ERROR>>, <<FATAL>>}
    BY <1>2, <1>4 DEF name
  <1> QED BY <1>5 DEF name

LEMMA NamesAreTexts == \A raw \in DOMAIN SeverityNames : SeverityNames[raw] \in Text
  <1>1. <<DEBUG>> \in Text /\ <<INFO>> \in Text /\ <<WARN>> \in Text /\ <<ERROR>> \in Text /\ <<FATAL>> \in Text
    BY OneSymbol DEF DEBUG, INFO, WARN, ERROR, FATAL
  <1> QED BY <1>1, NamesAreListed

LEMMA SeverityIsField == ASSUME NEW raw \in Found PROVE MapSeverity(raw) \in Found
  <1>1. CASE raw # NoField /\ raw[1] \in DOMAIN SeverityNames
    BY <1>1, NamesAreTexts DEF MapSeverity, Found
  <1>2. CASE ~(raw # NoField /\ raw[1] \in DOMAIN SeverityNames)
    BY <1>2 DEF MapSeverity
  <1> QED BY <1>1, <1>2

LEMMA PayloadsAreTexts ==
  ASSUME NEW l \in Logs, NEW i \in 1 .. Len(l), NEW channels
  PROVE  PayloadOf(channels, l[i]) # <<>> => PayloadOf(channels, l[i])[1] \in Text
  <1>1. l[i].data \in Text /\ l[i].decoded \in Seq(Text)
    BY RosoutAssumption DEF Text
  <1>2. PayloadOf(channels, l[i]) \in {<<l[i].data>>, l[i].decoded, <<>>}
    BY DEF PayloadOf, DecodePayloadJson
  <1>3. ASSUME NEW p \in Seq(Text), p # <<>> PROVE p[1] \in Text
    BY <1>3
  <1>4. <<l[i].data>>[1] = l[i].data
    OBVIOUS
  <1> QED BY <1>1, <1>2, <1>3, <1>4

LEMMA RowsAreRows ==
  ASSUME log \in Logs, NEW i \in 1 .. Len(log)
  PROVE  RowOf(i) \in Row
  <1> DEFINE m == log[i]
             payload == PayloadOf(cache, m)
             column(key, otherwise) ==
               IF payload = <<>> THEN NoField ELSE EitherField(payload[1], key, otherwise)
  <1>1. Len(log) \in Nat /\ i \in Nat /\ m.time \in Times
    BY RosoutAssumption
  <1>2. payload # <<>> => payload[1] \in Text
    BY PayloadsAreTexts
  <1>3. \A key, otherwise : column(key, otherwise) \in Found
    <2> HIDE DEF payload
    <2> SUFFICES ASSUME NEW key, NEW otherwise PROVE column(key, otherwise) \in Found
      OBVIOUS
    <2>1. CASE payload = <<>>
      BY <2>1 DEF Found
    <2>2. CASE payload # <<>>
      <3>1. EitherField(payload[1], key, otherwise) \in Found
        BY <1>2, <2>2, FieldIsRead DEF EitherField, OrElse
      <3> QED BY <2>2, <3>1
    <2> QED BY <2>1, <2>2
  <1>4. ToTimestampNs(m.time) \in 0 .. MaxNanos
    BY <1>1, TimeAssumption DEF ToTimestampNs, Times
  <1>5. RowOf(i) = [of |-> i, timestamp |-> ToTimestampNs(m.time),
                    severity |-> MapSeverity(column(Severity, Level)),
                    node |-> column(Node, Name), message |-> column(Message, Msg)]
    BY DEF RowOf
  <1>6. MapSeverity(column(Severity, Level)) \in Seq(Text)
        /\ column(Node, Name) \in Seq(Text) /\ column(Message, Msg) \in Seq(Text)
    <2> HIDE DEF column
    <2> QED BY <1>3, SeverityIsField, FieldsAreTexts
  <1> HIDE DEF column, m
  <1> QED BY <1>1, <1>4, <1>5, <1>6 DEF Row

LEMMA RosoutTypeInit == Init => TypeOK
  <1> SUFFICES ASSUME Init PROVE TypeOK
    OBVIOUS
  <1>1. Len(log) \in Nat /\ VectorSize \in Nat
    BY RosoutAssumption DEF Init
  <1>2. <<>> \in Seq(Row) /\ Len(<<>>) = 0
    OBVIOUS
  <1> QED BY <1>1, <1>2 DEF Init, TypeOK

LEMMA RosoutTypeStep == TypeOK /\ [Next]_rosoutVars => TypeOK'
  <1> SUFFICES ASSUME TypeOK, [Next]_rosoutVars PROVE TypeOK'
    OBVIOUS
  <1>0. Len(log) \in Nat /\ VectorSize \in Nat /\ next \in 1 .. Len(log) + 1 /\ log \in Logs
        /\ output \in Seq(Row) /\ emitted \in Seq(Row) /\ Len(output) <= VectorSize
    BY RosoutAssumption DEF TypeOK
  <1>e. <<>> \in Seq(Row) /\ Len(<<>>) = 0
    OBVIOUS
  <1>1. CASE RosoutBind \/ Ended \/ UNCHANGED rosoutVars
    BY <1>1 DEF TypeOK, RosoutBind, Ended, rosoutVars
  <1>2. CASE RosoutInitGlobal
    BY <1>2 DEF TypeOK, RosoutInitGlobal, FromReader
  <1>3. CASE Fails
    BY <1>0, <1>e, <1>3 DEF TypeOK, Fails
  <1>4. CASE PassMessage
    BY <1>0, <1>4 DEF TypeOK, PassMessage
  <1>5. CASE WriteRow
    <2>1. RowOf(next) \in Row
      BY <1>0, <1>5, RowsAreRows DEF WriteRow
    <2>2. output' = Append(output, RowOf(next)) /\ Len(output) < VectorSize
      BY <1>5 DEF WriteRow
    <2>3. output' \in Seq(Row) /\ Len(output') <= VectorSize
      BY <1>0, <2>1, <2>2
    <2> QED BY <1>0, <1>5, <2>3 DEF TypeOK, WriteRow
  <1>6. CASE ReturnChunk
    <2>1. emitted' \in Seq(Row)
      BY <1>0, <1>6 DEF ReturnChunk
    <2> QED BY <1>0, <1>e, <1>6, <2>1 DEF TypeOK, ReturnChunk
  <1> QED BY <1>1, <1>2, <1>3, <1>4, <1>5, <1>6 DEF Next

\* Every row has the type of its columns, whatever bytes the payloads are made of:
\* the readers of strings and fields end, inside the text, with a string or none
\* (json_util.cpp:56-222, rosout.cpp:124-168).
THEOREM RosoutTypeCorrect == Spec => []TypeOK
  BY RosoutTypeInit, RosoutTypeStep, PTL DEF Spec

-----------------------------------------------------------------------------
(* What is written is read back. *)

LEMMA TailOfText ==
  ASSUME NEW t \in Text, NEW j \in 1 .. Len(t)
  PROVE  /\ SubSeq(t, j + 1, Len(t)) \in Text
         /\ <<t[j]>> \o SubSeq(t, j + 1, Len(t)) = SubSeq(t, j, Len(t))
  <1>1. t \in Seq(Nat) /\ Len(t) \in Nat
    BY DEF Text
  <1> QED BY <1>1 DEF Text

\* A string whose items are the symbols of a text reads as that text.
LEMMA ItemsAreRead ==
  ASSUME NEW json \in Text, NEW text \in Text,
         NEW at \in [0 .. Len(text) -> 1 .. Len(json)],
         json[at[Len(text)]] = Quote,
         \A i \in 1 .. Len(text) :
           /\ json[at[i - 1]] # Quote
           /\ ReadItem(json, at[i - 1]) = [text |-> <<text[i]>>, next |-> at[i]]
  PROVE  ReadJsonString(json, at[0] - 1) = [text |-> text, next |-> at[Len(text)] + 1]
  <1> DEFINE n == Len(text)
             last == at[n] + 1
             Rest(k) == [text |-> SubSeq(text, n - k + 1, n), next |-> last]
  <1>1. n \in Nat /\ Len(json) \in Nat /\ text \in Seq(Nat)
    BY TextParts DEF Text
  <1>2. PICK read :
          /\ \A pos \in Positions(json) : read[pos] = ReadStep(json, read, pos)
          /\ \A from : ReadJsonString(json, from) = read[from + 1]
    BY StringIsRead
  <1>3. \A i \in 0 .. n : at[i] \in 1 .. Len(json) /\ at[i] \in Positions(json)
    <2>1. \A i \in 0 .. n : at[i] \in 1 .. Len(json)
      OBVIOUS
    <2>2. \A x \in 1 .. Len(json) : x \in Positions(json)
      BY <1>1 DEF Positions
    <2> QED BY <2>1, <2>2
  <1> DEFINE P == {k \in Nat : k <= n => read[at[n - k]] = Rest(k)}
  <1>4. 0 \in P
    <2>1. read[at[n]] = ReadStep(json, read, at[n]) /\ at[n] \notin {Malformed.next, Len(json) + 1}
      BY <1>1, <1>2, <1>3 DEF Malformed
    <2>2. read[at[n]] = [text |-> <<>>, next |-> last]
      BY <2>1 DEF ReadStep
    <2>3. SubSeq(text, n + 1, n) = <<>> /\ n - 0 = n /\ n - 0 + 1 = n + 1
      BY <1>1
    <2> QED BY <2>2, <2>3
  <1>5. ASSUME NEW k \in Nat, k \in P PROVE k + 1 \in P
    <2> HIDE DEF Rest
    <2> SUFFICES ASSUME k + 1 <= n PROVE read[at[n - (k + 1)]] = Rest(k + 1)
      OBVIOUS
    <2> USE DEF Rest
    <2> DEFINE i == n - k
    <2>1. i \in 1 .. n /\ n - (k + 1) = i - 1 /\ i - 1 \in 0 .. n
      BY <1>1
    <2>2. read[at[i]] = [text |-> SubSeq(text, i + 1, n), next |-> last]
      BY <1>1, <1>5
    <2> HIDE DEF i
    <2>3. /\ read[at[i - 1]] = ReadStep(json, read, at[i - 1])
          /\ at[i - 1] \notin {Malformed.next, Len(json) + 1}
      <3>1. at[i - 1] \in 1 .. Len(json) /\ at[i - 1] \in Positions(json)
        BY <1>3, <2>1
      <3>2. at[i - 1] \notin {Malformed.next, Len(json) + 1}
        BY <1>1, <3>1 DEF Malformed
      <3> QED BY <1>2, <3>1, <3>2
    <2>4. read[at[i - 1]] = Prefixed(<<text[i]>>, read[at[i]])
      <3> DEFINE pos == at[i - 1]
      <3>1. json[pos] # Quote /\ ReadItem(json, pos) = [text |-> <<text[i]>>, next |-> at[i]]
        BY <2>1
      <3>2. read[pos] = ReadStep(json, read, pos) /\ pos \notin {Malformed.next, Len(json) + 1}
        BY <2>3
      <3> HIDE DEF pos
      <3>3. read[pos] = Prefixed(ReadItem(json, pos).text, read[ReadItem(json, pos).next])
        BY <3>1, <3>2 DEF ReadStep
      <3> QED BY <3>1, <3>3 DEF pos
    <2>5. read[at[i]] # Malformed
      <3>1. last # 0
        BY <1>1, <1>3
      <3> QED BY <2>2, <3>1 DEF Malformed
    <2>6. read[at[i - 1]] = [text |-> <<text[i]>> \o SubSeq(text, i + 1, n), next |-> last]
      BY <2>2, <2>4, <2>5 DEF Prefixed
    <2>7. <<text[i]>> \o SubSeq(text, i + 1, n) = SubSeq(text, i, n)
      BY <2>1, TailOfText
    <2>8. n - (k + 1) + 1 = i
      BY <1>1, <2>1
    <2> QED BY <2>1, <2>6, <2>7, <2>8
  <1>6. n \in P
    <2> HIDE DEF P
    <2> QED BY <1>1, <1>4, <1>5, Induction
  <1>7. read[at[0]] = [text |-> SubSeq(text, 1, n), next |-> last]
    <2>1. n - n = 0 /\ n - n + 1 = 1
      BY <1>1
    <2> QED BY <1>1, <1>6, <2>1
  <1>8. SubSeq(text, 1, n) = text
    BY <1>1
  <1>9. at[0] - 1 + 1 = at[0]
    BY <1>1, <1>3
  <1> QED BY <1>2, <1>7, <1>8, <1>9

\* json holds piece from pos on.
Holds(json, pos, piece) ==
  /\ pos + Len(piece) <= Len(json) + 1
  /\ \A j \in 1 .. Len(piece) : json[pos + j - 1] = piece[j]

LEMMA HexDigitRead == ASSUME NEW v \in 0 .. 15 PROVE HexDigit(v) \in Nat /\ HexValue(HexDigit(v)) = v
  BY DEF HexDigit, HexValue

LEMMA EscapedIsText ==
  ASSUME NEW c \in Nat PROVE Escaped(c) \in Text /\ Len(Escaped(c)) \in 1 .. 6
  <1>1. ASSUME c < 32
        PROVE  HexDigit(c \div 16) \in Nat /\ HexDigit(c % 16) \in Nat
    BY <1>1 DEF HexDigit
  <1> QED BY <1>1, ShortEscapes DEF Escaped, Text, Backslash, LowerU, Quote

LEMMA EscapeIsUndone ==
  ASSUME NEW json \in Text, NEW pos \in Nat \ {0}, NEW c \in Nat,
         Holds(json, pos, Escaped(c)), pos + Len(Escaped(c)) <= Len(json)
  PROVE  /\ json[pos] # Quote
         /\ ReadItem(json, pos) = [text |-> <<c>>, next |-> pos + Len(Escaped(c))]
  <1>0. Len(json) \in Nat
    BY TextParts
  <1>1. CASE c \in {Quote, Backslash}
    <2>1. Escaped(c) = <<Backslash, c>> /\ Len(Escaped(c)) = 2
      BY <1>1 DEF Escaped
    <2>2. json[pos] = Backslash /\ json[pos + 1] = c /\ pos # Len(json)
      BY <1>0, <2>1 DEF Holds
    <2>3. Unescaped(c) = c
      BY <1>1, ShortEscapes DEF Unescaped, Quote, Backslash
    <2> QED BY <1>1, <2>1, <2>2, <2>3 DEF ReadItem, Quote, Backslash, LowerU
  <1>2. CASE c \in {9, 10, 13}
    <2>1. Escaped(c) = <<Backslash, ShortEscape[c]>> /\ Len(Escaped(c)) = 2
      BY <1>2 DEF Escaped, Quote, Backslash
    <2>2. json[pos] = Backslash /\ json[pos + 1] = ShortEscape[c] /\ pos # Len(json)
      BY <1>0, <2>1 DEF Holds
    <2>3. Unescaped(ShortEscape[c]) = c
      BY <1>2, ShortEscapes DEF Unescaped
    <2>4. ShortEscape[c] # LowerU
      BY <1>2, ShortEscapes DEF LowerU
    <2> QED BY <2>1, <2>2, <2>3, <2>4 DEF ReadItem, Quote, Backslash
  <1>3. CASE c < 32 /\ c \notin {9, 10, 13}
    <2> DEFINE high == c \div 16
               low == c % 16
               e == <<Backslash, LowerU, 48, 48, HexDigit(high), HexDigit(low)>>
    <2>1. high \in 0 .. 15 /\ low \in 0 .. 15 /\ c = high * 16 + low
      BY <1>3
    <2> HIDE DEF high, low
    <2>2. Escaped(c) = e /\ Len(e) = 6
      BY <1>3 DEF Escaped, Quote, Backslash, high, low
    <2>3. /\ json[pos] = Backslash /\ json[pos + 1] = LowerU /\ json[pos + 2] = 48 /\ json[pos + 3] = 48
          /\ json[pos + 4] = HexDigit(high) /\ json[pos + 5] = HexDigit(low) /\ pos + 6 <= Len(json)
      <3>1. /\ e[1] = Backslash /\ e[2] = LowerU /\ e[3] = 48 /\ e[4] = 48
            /\ e[5] = HexDigit(high) /\ e[6] = HexDigit(low)
        OBVIOUS
      <3> HIDE DEF e
      <3>2. \A j \in 1 .. 6 : json[pos + j - 1] = e[j]
        BY <2>2 DEF Holds
      <3>3. /\ json[pos + 1 - 1] = e[1] /\ json[pos + 2 - 1] = e[2] /\ json[pos + 3 - 1] = e[3]
            /\ json[pos + 4 - 1] = e[4] /\ json[pos + 5 - 1] = e[5] /\ json[pos + 6 - 1] = e[6]
        BY <3>2
      <3>4. /\ pos + 1 - 1 = pos /\ pos + 2 - 1 = pos + 1 /\ pos + 3 - 1 = pos + 2
            /\ pos + 4 - 1 = pos + 3 /\ pos + 5 - 1 = pos + 4 /\ pos + 6 - 1 = pos + 5
        OBVIOUS
      <3>5. pos + 6 <= Len(json)
        BY <2>2
      <3> QED BY <3>1, <3>3, <3>4, <3>5
    <2>4. ReadHex4(json, pos + 2) = c
      <3>1. /\ HexValue(json[pos + 2]) = 0 /\ HexValue(json[pos + 3]) = 0
            /\ HexValue(json[pos + 4]) = high /\ HexValue(json[pos + 5]) = low
        <4>1. HexValue(48) = 0
          BY DEF HexValue
        <4> QED BY <2>1, <2>3, <4>1, HexDigitRead
      <3> DEFINE q == pos + 2
      <3>2. q + 3 <= Len(json) /\ q = pos + 2 /\ q + 1 = pos + 3 /\ q + 2 = pos + 4 /\ q + 3 = pos + 5 /\ q + 0 = q
        BY <1>0, <2>3
      <3> HIDE DEF q
      <3>3. \A i \in 0 .. 3 : HexValue(json[q + i]) # -1
        <4>1. \A i \in 0 .. 3 : i = 0 \/ i = 1 \/ i = 2 \/ i = 3
          OBVIOUS
        <4> QED BY <2>1, <3>1, <3>2, <4>1
      <3>4. ReadHex4(json, q) = HexValue(json[q]) * 4096 + HexValue(json[q + 1]) * 256
                                + HexValue(json[q + 2]) * 16 + HexValue(json[q + 3])
        BY <1>0, <3>2, <3>3 DEF ReadHex4
      <3>5. ReadHex4(json, q) = 0 * 4096 + 0 * 256 + high * 16 + low
        BY <3>1, <3>2, <3>4
      <3> QED BY <2>1, <3>2, <3>5
    <2>5. UnitAt(json, pos) = c
      BY <1>0, <2>3, <2>4 DEF UnitAt, At
    <2>6. ReadItem(json, pos) = Combined(c, UnitAt(json, pos + 6), pos)
      BY <1>0, <2>3, <2>5 DEF ReadItem, UnicodeEscape
    <2>7. c # -1 /\ c \notin HighSurrogates /\ c \notin LowSurrogates /\ c < 128
      <3>1. c \in 0 .. 31
        BY <1>3
      <3> QED BY <3>1 DEF HighSurrogates, LowSurrogates
    <2>8. Combined(c, UnitAt(json, pos + 6), pos) = [text |-> <<c>>, next |-> pos + 6]
      BY <2>7 DEF Combined, AppendUtf8
    <2> QED BY <2>2, <2>3, <2>6, <2>8 DEF Quote, Backslash
  <1>4. CASE c >= 32 /\ c \notin {Quote, Backslash}
    <2>1. Escaped(c) = <<c>> /\ Len(Escaped(c)) = 1 /\ <<c>>[1] = c
      BY <1>4 DEF Escaped
    <2>2. json[pos] = c
      BY <2>1 DEF Holds
    <2> QED BY <1>4, <2>1, <2>2 DEF ReadItem
  <1> QED BY <1>1, <1>2, <1>3, <1>4

LEMMA ConcatTexts ==
  ASSUME NEW a \in Text, NEW b \in Text
  PROVE  /\ a \o b \in Text /\ Len(a \o b) = Len(a) + Len(b)
         /\ \A j \in 1 .. Len(a) : (a \o b)[j] = a[j]
         /\ \A j \in 1 .. Len(b) : (a \o b)[Len(a) + j] = b[j]
  <1>1. a \in Seq(Nat) /\ b \in Seq(Nat)
    BY DEF Text
  <1> QED BY <1>1 DEF Text

\* FlattenSeq concatenates from the left: what it has after each piece.
FlatStep(pieces, flat, i) == IF i = 1 THEN pieces[i] ELSE flat[i - 1] \o pieces[i]

LEMMA FlatExists ==
  ASSUME NEW pieces \in Seq(Text)
  PROVE  \E g : g = [i \in 1 .. Len(pieces) |-> FlatStep(pieces, g, i)]
                /\ \A i \in 1 .. Len(pieces) : g[i] \in Text
  <1> DEFINE n == Len(pieces)
             D == 1 .. n
             rank == [i \in D |-> i]
             F == [a \in D \X [D -> Text] |-> FlatStep(pieces, a[2], a[1])]
  <1>1. n \in Nat /\ rank \in [D -> 0 .. n] /\ Text # {} /\ \A i \in D : pieces[i] \in Text
    BY DEF Text
  <1>2. \A x \in D : \A g \in [D -> Text] : FlatStep(pieces, g, x) \in Text
    <2> SUFFICES ASSUME NEW x \in D, NEW g \in [D -> Text] PROVE FlatStep(pieces, g, x) \in Text
      OBVIOUS
    <2>1. CASE x = 1
      BY <1>1, <2>1 DEF FlatStep
    <2>2. CASE x # 1
      <3>1. x - 1 \in D
        BY <1>1, <2>2
      <3>2. g[x - 1] \in Seq(Nat) /\ pieces[x] \in Seq(Nat)
        BY <1>1, <3>1 DEF Text
      <3>3. g[x - 1] \o pieces[x] \in Seq(Nat)
        BY <3>2
      <3> QED BY <2>2, <3>3 DEF FlatStep, Text
    <2> QED BY <2>1, <2>2
  <1>3. F \in [D \X [D -> Text] -> Text]
    <2> HIDE DEF D
    <2> QED BY <1>2
  <1>4. \A x \in D : \A g \in [D -> Text] : F[<<x, g>>] = FlatStep(pieces, g, x)
    <2> HIDE DEF D
    <2> QED OBVIOUS
  <1>5. ASSUME NEW x \in D, NEW g \in [D -> Text], NEW h \in [D -> Text],
               \A y \in D : rank[y] < rank[x] => g[y] = h[y]
        PROVE  F[<<x, g>>] = F[<<x, h>>]
    <2>1. FlatStep(pieces, g, x) = FlatStep(pieces, h, x)
      <3>1. CASE x = 1
        BY <3>1 DEF FlatStep
      <3>2. CASE x # 1
        <4>1. x - 1 \in D /\ rank[x - 1] < rank[x]
          BY <1>1, <3>2
        <4>2. g[x - 1] = h[x - 1]
          BY <1>5, <4>1
        <4> QED BY <4>2 DEF FlatStep
      <3> QED BY <3>1, <3>2
    <2> HIDE DEF D, rank, F
    <2> QED BY <1>4, <2>1
  <1>6. PICK g : Solution(g, D, Text, F)
    <2> HIDE DEF D, rank, n, F
    <2>1. LooksBack(D, Text, rank, F)
      BY <1>5 DEF LooksBack
    <2> QED BY <1>1, <1>3, <2>1, RecursionExists
  <1>7. \A x \in D : g[x] = FlatStep(pieces, g, x)
    <2> HIDE DEF F
    <2> QED BY <1>4, <1>6 DEF Solution
  <1>8. g = [x \in D |-> FlatStep(pieces, g, x)] /\ \A x \in D : g[x] \in Text
    <2> HIDE DEF D
    <2> QED BY <1>6, <1>7 DEF Solution
  <1> QED BY <1>8

LEMMA FlatHolds ==
  ASSUME NEW pieces \in Seq(Text)
  PROVE  /\ FlattenSeq(pieces) \in Text
         /\ \E off \in [0 .. Len(pieces) -> Nat] :
              /\ off[0] = 0 /\ off[Len(pieces)] = Len(FlattenSeq(pieces))
              /\ \A i \in 1 .. Len(pieces) :
                   /\ off[i] = off[i - 1] + Len(pieces[i])
                   /\ Holds(FlattenSeq(pieces), off[i - 1] + 1, pieces[i])
  <1> DEFINE n == Len(pieces)
             all == FlattenSeq(pieces)
  <1>1. n \in Nat /\ \A i \in 1 .. n : pieces[i] \in Text /\ Len(pieces[i]) \in Nat
    <2>1. n \in Nat /\ \A i \in 1 .. n : pieces[i] \in Text
      OBVIOUS
    <2> QED BY <2>1, TextParts
  <1>2. CASE n = 0
    <2>1. all = pieces /\ pieces = <<>>
      BY <1>2 DEF FlattenSeq
    <2>2. all \in Text /\ Len(all) = 0
      BY <2>1 DEF Text
    <2> DEFINE off == [i \in 0 .. n |-> 0]
    <2>3. off \in [0 .. n -> Nat] /\ off[0] = 0 /\ off[n] = 0 /\ \A i \in 1 .. n : FALSE
      BY <1>2
    <2> HIDE DEF off, all
    <2> QED BY <2>2, <2>3
  <1>3. CASE n # 0
    <2>1. PICK flat : /\ flat = [i \in 1 .. n |-> FlatStep(pieces, flat, i)]
                      /\ all = flat[n]
      BY <1>3, FlatExists DEF FlattenSeq, FlatStep
    <2> HIDE DEF all
    <2>2. \A i \in 1 .. n : flat[i] = FlatStep(pieces, flat, i)
      BY <2>1
    <2> DEFINE off == [i \in 0 .. n |-> IF i = 0 THEN 0 ELSE Len(flat[i])]
               Good(i) == /\ flat[i] \in Text /\ Len(flat[i]) = off[i - 1] + Len(pieces[i])
                          /\ \A j \in 1 .. off[i - 1] : flat[i][j] = flat[i - 1][j]
                          /\ \A j \in 1 .. Len(pieces[i]) : flat[i][off[i - 1] + j] = pieces[i][j]
               P == {k \in Nat : k + 1 <= n => Good(k + 1)}
    <2>3. 0 \in P
      <3>1. 0 \in 0 .. n /\ off[0] = 0 /\ 0 + 1 = 1 /\ 1 - 1 = 0 /\ 1 \in 1 .. n
        BY <1>1, <1>3
      <3>2. flat[1] = pieces[1] /\ pieces[1] \in Text /\ Len(pieces[1]) \in Nat
        BY <1>1, <2>2, <3>1 DEF FlatStep
      <3> HIDE DEF off
      <3>3. Good(1)
        BY <3>1, <3>2
      <3> HIDE DEF Good
      <3> QED BY <3>1, <3>3
    <2>4. ASSUME NEW k \in Nat, k \in P PROVE k + 1 \in P
      <3> HIDE DEF Good
      <3> SUFFICES ASSUME k + 1 + 1 <= n PROVE Good(k + 1 + 1)
        OBVIOUS
      <3> DEFINE i == k + 1
      <3>1. i \in 1 .. n /\ i + 1 \in 1 .. n /\ (i + 1) - 1 = i /\ i # 0 /\ i + 1 # 1 /\ i \in 0 .. n
        BY <1>1
      <3>2. Good(i)
        BY <1>1, <2>4
      <3> HIDE DEF i
      <3>3. flat[i] \in Text /\ Len(flat[i]) \in Nat
        BY <3>2, TextParts DEF Good
      <3>4. off[i] = Len(flat[i])
        BY <3>1
      <3>5. flat[i + 1] = flat[i] \o pieces[i + 1] /\ pieces[i + 1] \in Text
        BY <1>1, <2>2, <3>1 DEF FlatStep
      <3>6. /\ flat[i + 1] \in Text /\ Len(flat[i + 1]) = Len(flat[i]) + Len(pieces[i + 1])
            /\ \A j \in 1 .. Len(flat[i]) : flat[i + 1][j] = flat[i][j]
            /\ \A j \in 1 .. Len(pieces[i + 1]) : flat[i + 1][Len(flat[i]) + j] = pieces[i + 1][j]
        <4> DEFINE a == flat[i]
                   b == pieces[i + 1]
        <4>1. flat[i + 1] = a \o b /\ a \in Text /\ b \in Text
          BY <3>3, <3>5
        <4> HIDE DEF off, a, b
        <4>2. /\ a \o b \in Text /\ Len(a \o b) = Len(a) + Len(b)
              /\ \A j \in 1 .. Len(a) : (a \o b)[j] = a[j]
              /\ \A j \in 1 .. Len(b) : (a \o b)[Len(a) + j] = b[j]
          BY <4>1, ConcatTexts
        <4> QED BY <4>1, <4>2 DEF a, b
      <3> HIDE DEF off
      <3>7. Good(i + 1)
        BY <3>1, <3>4, <3>6 DEF Good
      <3> QED BY <3>7 DEF i
    <2>5. ASSUME NEW i \in 1 .. n PROVE Good(i)
      <3> HIDE DEF P
      <3>1. i - 1 \in Nat /\ (i - 1) + 1 = i /\ i <= n
        BY <1>1
      <3>2. i - 1 \in P
        BY <2>3, <2>4, <3>1, Induction
      <3> HIDE DEF Good
      <3> QED BY <3>1, <3>2 DEF P
    <2> HIDE DEF P
    <2>6. /\ \A i \in 0 .. n : off[i] \in Nat
          /\ off[0] = 0 /\ off[n] = Len(all) /\ all \in Text
          /\ \A i \in 1 .. n : flat[i] \in Text /\ off[i] = Len(flat[i]) /\ off[i] = off[i - 1] + Len(pieces[i])
      <3>1. \A i \in 1 .. n : off[i] = Len(flat[i]) /\ flat[i] \in Text /\ Len(flat[i]) \in Nat
        <4> SUFFICES ASSUME NEW i \in 1 .. n
                     PROVE  off[i] = Len(flat[i]) /\ flat[i] \in Text /\ Len(flat[i]) \in Nat
          OBVIOUS
        <4>1. flat[i] \in Text
          BY <2>5
        <4>2. i \in 0 .. n /\ i # 0
          BY <1>1
        <4> QED BY <4>1, <4>2, TextParts
      <3>2. n \in 1 .. n /\ 0 \in 0 .. n /\ \A i \in 0 .. n : i = 0 \/ i \in 1 .. n
        BY <1>1, <1>3
      <3>3. off[0] = 0
        BY <3>2
      <3> HIDE DEF off
      <3> QED BY <2>1, <2>5, <3>1, <3>2, <3>3
    <2>7. off \in [0 .. n -> Nat]
      <3>1. off = [i \in 0 .. n |-> off[i]]
        OBVIOUS
      <3> HIDE DEF off
      <3> QED BY <2>6, <3>1
    <2> HIDE DEF off
    \* Each piece is still where it was put.
    <2>8. ASSUME NEW i \in 1 .. n
          PROVE  \A k \in Nat : i + k <= n =>
                   off[i] <= off[i + k] /\ \A j \in 1 .. off[i] : flat[i + k][j] = flat[i][j]
      <3> DEFINE Q == {k \in Nat : i + k <= n =>
                         off[i] <= off[i + k] /\ \A j \in 1 .. off[i] : flat[i + k][j] = flat[i][j]}
      <3>1. 0 \in Q
        <4>1. i + 0 = i /\ off[i] \in Nat
          BY <1>1, <2>6
        <4> QED BY <4>1
      <3>2. ASSUME NEW k \in Nat, k \in Q PROVE k + 1 \in Q
        <4> SUFFICES ASSUME i + (k + 1) <= n
                     PROVE  /\ off[i] <= off[i + (k + 1)]
                            /\ \A j \in 1 .. off[i] : flat[i + (k + 1)][j] = flat[i][j]
          OBVIOUS
        <4> DEFINE m == i + (k + 1)
        <4>1. m \in 1 .. n /\ m - 1 = i + k /\ m - 1 \in 0 .. n /\ i + k <= n /\ i \in 0 .. n
          BY <1>1
        <4>2. off[i] <= off[m - 1] /\ \A j \in 1 .. off[i] : flat[m - 1][j] = flat[i][j]
          BY <3>2, <4>1
        <4> HIDE DEF m
        <4>3. \A j \in 1 .. off[m - 1] : flat[m][j] = flat[m - 1][j]
          BY <2>5, <4>1
        <4>4. off[m] = off[m - 1] + Len(pieces[m]) /\ Len(pieces[m]) \in Nat
              /\ off[m - 1] \in Nat /\ off[i] \in Nat
          BY <1>1, <2>6, <4>1
        <4>5. off[i] <= off[m] /\ \A j \in 1 .. off[i] : flat[m][j] = flat[i][j]
          BY <4>2, <4>3, <4>4
        <4> QED BY <4>5 DEF m
      <3>3. \A k \in Nat : k \in Q
        <4> HIDE DEF Q
        <4> QED BY <3>1, <3>2, Induction
      <3> QED BY <3>3
    <2>9. ASSUME NEW i \in 1 .. n PROVE Holds(all, off[i - 1] + 1, pieces[i])
      <3>1. n - i \in Nat /\ i + (n - i) = n /\ i - 1 \in 0 .. n
        BY <1>1
      <3>2. off[i] <= off[n] /\ \A j \in 1 .. off[i] : all[j] = flat[i][j]
        BY <2>1, <2>8, <3>1
      <3>3. /\ off[i] = off[i - 1] + Len(pieces[i]) /\ Len(pieces[i]) \in Nat /\ off[i - 1] \in Nat
            /\ \A j \in 1 .. Len(pieces[i]) : flat[i][off[i - 1] + j] = pieces[i][j]
        BY <1>1, <2>5, <2>6, <3>1
      <3>4. off[i - 1] + 1 + Len(pieces[i]) <= Len(all) + 1
        <4>1. off[n] = Len(all) /\ Len(all) \in Nat
          BY <2>6, TextParts
        <4> QED BY <3>2, <3>3, <4>1
      <3>5. ASSUME NEW j \in 1 .. Len(pieces[i]) PROVE all[off[i - 1] + 1 + j - 1] = pieces[i][j]
        <4>1. off[i - 1] + 1 + j - 1 = off[i - 1] + j /\ off[i - 1] + j \in 1 .. off[i]
          BY <3>3
        <4> QED BY <3>2, <3>3, <4>1
      <3> QED BY <3>4, <3>5 DEF Holds
    <2> QED BY <2>6, <2>7, <2>9 DEF all
  <1> QED BY <1>2, <1>3

LEMMA JsonEscapeIsText ==
  ASSUME NEW text \in Text
  PROVE  /\ FlattenSeq([i \in DOMAIN text |-> Escaped(text[i])]) \in Text
         /\ JsonEscape(text) \in Text
  <1> DEFINE pieces == [i \in DOMAIN text |-> Escaped(text[i])]
  <1>1. pieces \in Seq(Text)
    <2>1. \A i \in 1 .. Len(text) : Escaped(text[i]) \in Text
      BY TextParts, EscapedIsText
    <2>2. Len(text) \in Nat /\ DOMAIN text = 1 .. Len(text)
      BY TextParts
    <2> QED BY <2>1, <2>2
  <1> HIDE DEF pieces
  <1>2. FlattenSeq(pieces) \in Text /\ <<Quote>> \in Text
    BY <1>1, FlatHolds, OneSymbol DEF Quote
  <1>3. <<Quote>> \o FlattenSeq(pieces) \in Text
    BY <1>2, ConcatTexts
  <1>4. <<Quote>> \o FlattenSeq(pieces) \o <<Quote>> \in Text
    BY <1>2, <1>3, ConcatTexts
  <1> QED BY <1>2, <1>4 DEF JsonEscape, pieces

LEMMA EscapedBegins ==
  ASSUME NEW json \in Text, NEW pos \in Nat \ {0}, NEW text \in Text,
         Holds(json, pos, JsonEscape(text))
  PROVE  json[pos] = Quote /\ pos \in 1 .. Len(json)
  <1> DEFINE q == <<Quote>>
             all == FlattenSeq([i \in DOMAIN text |-> Escaped(text[i])])
  <1>1. q \in Text /\ Len(q) = 1 /\ q[1] = Quote
    BY OneSymbol DEF Quote
  <1>2. all \in Text
    BY JsonEscapeIsText
  <1>3. JsonEscape(text) = q \o all \o q
    BY DEF JsonEscape
  <1> HIDE DEF q, all
  <1> DEFINE s == q \o all
  <1>4. s \in Text /\ Len(s) = 1 + Len(all) /\ s[1] = Quote /\ Len(all) \in Nat
    <2>1. /\ q \o all \in Text /\ Len(q \o all) = Len(q) + Len(all)
          /\ \A j \in 1 .. Len(q) : (q \o all)[j] = q[j]
      BY <1>1, <1>2, ConcatTexts
    <2>2. 1 \in 1 .. Len(q) /\ Len(all) \in Nat
      BY <1>1, <1>2, TextParts
    <2> QED BY <1>1, <2>1, <2>2
  <1> HIDE DEF s
  <1>5. Len(s \o q) = Len(s) + 1 /\ (s \o q)[1] = Quote
    <2>1. Len(s \o q) = Len(s) + Len(q) /\ \A j \in 1 .. Len(s) : (s \o q)[j] = s[j]
      BY <1>1, <1>4, ConcatTexts
    <2>2. 1 \in 1 .. Len(s)
      BY <1>4
    <2> QED BY <1>1, <1>4, <2>1, <2>2
  <1>6. Len(JsonEscape(text)) = Len(all) + 2 /\ JsonEscape(text)[1] = Quote
    BY <1>3, <1>4, <1>5 DEF s
  <1>7. 1 \in 1 .. Len(all) + 2 /\ pos + 1 - 1 = pos /\ Len(json) \in Nat
    BY <1>4, TextParts
  <1> QED BY <1>4, <1>6, <1>7 DEF Holds

\* What JsonEscape wrote reads as the text it was given, wherever it stands.
LEMMA EscapedReads ==
  ASSUME NEW json \in Text, NEW pos \in Nat \ {0}, NEW text \in Text,
         Holds(json, pos, JsonEscape(text))
  PROVE  ReadJsonString(json, pos) = [text |-> text, next |-> pos + Len(JsonEscape(text))]
  <1> DEFINE n == Len(text)
             pieces == [i \in DOMAIN text |-> Escaped(text[i])]
             all == FlattenSeq(pieces)
  <1>1. n \in Nat /\ DOMAIN text = 1 .. n /\ Len(json) \in Nat /\ \A i \in 1 .. n : text[i] \in Nat
    BY TextParts
  <1>2. \A i \in 1 .. n : Escaped(text[i]) \in Text /\ Len(Escaped(text[i])) \in 1 .. 6
    BY <1>1, EscapedIsText
  <1>3. pieces \in Seq(Text) /\ Len(pieces) = n /\ \A i \in 1 .. n : pieces[i] = Escaped(text[i])
    BY <1>1, <1>2
  <1> HIDE DEF pieces
  <1>4. PICK off \in [0 .. n -> Nat] :
          /\ off[0] = 0 /\ off[n] = Len(all)
          /\ \A i \in 1 .. n : /\ off[i] = off[i - 1] + Len(pieces[i])
                               /\ Holds(all, off[i - 1] + 1, pieces[i])
    BY <1>3, FlatHolds
  <1>5. all \in Text /\ Len(all) \in Nat
    BY <1>3, FlatHolds, TextParts
  <1> HIDE DEF all
  <1>6. JsonEscape(text) = <<Quote>> \o all \o <<Quote>>
    BY DEF JsonEscape, all, pieces
  <1>7. /\ Len(JsonEscape(text)) = Len(all) + 2
        /\ JsonEscape(text)[1] = Quote /\ JsonEscape(text)[Len(all) + 2] = Quote
        /\ \A j \in 1 .. Len(all) : JsonEscape(text)[j + 1] = all[j]
    <2> DEFINE q == <<Quote>>
    <2>1. q \in Text /\ Len(q) = 1 /\ q[1] = Quote
      BY OneSymbol DEF Quote
    <2> HIDE DEF q
    <2>2. /\ q \o all \in Text /\ Len(q \o all) = 1 + Len(all) /\ (q \o all)[1] = Quote
          /\ \A j \in 1 .. Len(all) : (q \o all)[1 + j] = all[j]
      <3>1. 1 \in 1 .. Len(q)
        BY <2>1
      <3>2. /\ q \o all \in Text /\ Len(q \o all) = Len(q) + Len(all)
            /\ \A j \in 1 .. Len(q) : (q \o all)[j] = q[j]
            /\ \A j \in 1 .. Len(all) : (q \o all)[Len(q) + j] = all[j]
        BY <1>5, <2>1, ConcatTexts
      <3> QED BY <2>1, <3>1, <3>2
    <2> DEFINE s == q \o all
    <2> HIDE DEF s
    <2>3. /\ s \o q \in Text /\ Len(s \o q) = Len(s) + 1 /\ (s \o q)[Len(s) + 1] = Quote
          /\ \A j \in 1 .. Len(s) : (s \o q)[j] = s[j]
      <3>1. 1 \in 1 .. Len(q)
        BY <2>1
      <3> QED BY <2>1, <2>2, <3>1, ConcatTexts DEF s
    <2>4. JsonEscape(text) = s \o q
      BY <1>6 DEF s, q
    <2>5. Len(s) = Len(all) + 1 /\ s[1] = Quote /\ \A j \in 1 .. Len(all) : s[j + 1] = all[j]
      <3>1. \A j \in 1 .. Len(all) : j + 1 = 1 + j
        OBVIOUS
      <3> QED BY <1>5, <2>2, <3>1 DEF s
    <2>6. 1 \in 1 .. Len(s) /\ \A j \in 1 .. Len(all) : j + 1 \in 1 .. Len(s)
      BY <1>5, <2>5
    <2>7. Len(s) + 1 = Len(all) + 2
      BY <1>5, <2>5
    <2> QED BY <2>3, <2>4, <2>5, <2>6, <2>7
  <1>8. /\ pos + Len(all) + 2 <= Len(json) + 1
        /\ json[pos] = Quote /\ json[pos + Len(all) + 1] = Quote
        /\ \A j \in 1 .. Len(all) : json[pos + j] = all[j]
    <2>1. pos + (Len(all) + 2) <= Len(json) + 1
          /\ \A j \in 1 .. Len(all) + 2 : json[pos + j - 1] = JsonEscape(text)[j]
      BY <1>7 DEF Holds
    <2>2. json[pos + 1 - 1] = Quote /\ json[pos + (Len(all) + 2) - 1] = Quote
      BY <1>5, <1>7, <2>1
    <2>3. pos + 1 - 1 = pos /\ pos + (Len(all) + 2) - 1 = pos + Len(all) + 1
      BY <1>5
    <2>4. ASSUME NEW j \in 1 .. Len(all) PROVE json[pos + j] = all[j]
      <3>1. j + 1 \in 1 .. Len(all) + 2 /\ pos + (j + 1) - 1 = pos + j
        BY <1>5
      <3> QED BY <1>7, <2>1, <3>1
    <2> QED BY <1>1, <1>5, <2>1, <2>2, <2>3, <2>4
  <1> DEFINE at == [i \in 0 .. n |-> pos + 1 + off[i]]
  <1>9. ASSUME NEW i \in 0 .. n PROVE off[i] <= Len(all) /\ off[i] \in Nat
    <2> DEFINE Q == {k \in Nat : k <= n => off[n - k] <= Len(all)}
    <2>1. 0 \in Q
      <3>1. n - 0 = n
        BY <1>1
      <3> QED BY <1>4, <1>5, <3>1
    <2>2. ASSUME NEW k \in Nat, k \in Q PROVE k + 1 \in Q
      <3> SUFFICES ASSUME k + 1 <= n PROVE off[n - (k + 1)] <= Len(all)
        OBVIOUS
      <3> DEFINE m == n - k
      <3>1. m \in 1 .. n /\ n - (k + 1) = m - 1 /\ m - 1 \in 0 .. n /\ m \in 0 .. n
        BY <1>1
      <3>2. off[m] <= Len(all)
        BY <1>1, <2>2
      <3> HIDE DEF m
      <3>3. off[m] = off[m - 1] + Len(pieces[m]) /\ Len(pieces[m]) \in Nat
            /\ off[m] \in Nat /\ off[m - 1] \in Nat
        <4>1. pieces[m] \in Text
          BY <1>2, <1>3, <3>1
        <4>2. Len(pieces[m]) \in Nat
          BY <4>1, TextParts
        <4>3. off[m] = off[m - 1] + Len(pieces[m])
          BY <1>4, <3>1
        <4> QED BY <3>1, <4>2, <4>3
      <3>4. off[m - 1] <= Len(all)
        <4> DEFINE a == off[m - 1]
                   b == off[m]
                   l == Len(pieces[m])
                   whole == Len(all)
        <4> HIDE DEF a, b, l, whole
        <4>1. b = a + l /\ l \in Nat /\ a \in Nat /\ b <= whole /\ whole \in Nat
          BY <1>5, <3>2, <3>3 DEF a, b, l, whole
        <4>2. a <= whole
          BY <4>1
        <4> QED BY <4>2 DEF a, whole
      <3> QED BY <3>1, <3>4
    <2>3. n - i \in Nat /\ n - i <= n /\ n - (n - i) = i
      BY <1>1
    <2>4. n - i \in Q
      <3> HIDE DEF Q
      <3> QED BY <2>1, <2>2, <2>3, Induction
    <2> QED BY <2>3, <2>4
  <1>10. at \in [0 .. n -> 1 .. Len(json)]
    <2>1. \A i \in 0 .. n : pos + 1 + off[i] \in 1 .. Len(json)
      BY <1>1, <1>5, <1>8, <1>9
    <2> QED BY <2>1
  <1>11. json[at[n]] = Quote /\ at[0] - 1 = pos /\ at[n] + 1 = pos + (Len(all) + 2)
    <2>1. n \in 0 .. n /\ 0 \in 0 .. n
      BY <1>1
    <2>2. at[n] = pos + 1 + Len(all) /\ at[0] = pos + 1 + 0
      BY <1>4, <2>1
    <2> HIDE DEF at
    <2>3. pos + 1 + Len(all) = pos + Len(all) + 1
      BY <1>5
    <2> QED BY <1>5, <1>8, <2>2, <2>3
  <1>12. ASSUME NEW i \in 1 .. n
         PROVE  /\ json[at[i - 1]] # Quote
                /\ ReadItem(json, at[i - 1]) = [text |-> <<text[i]>>, next |-> at[i]]
    <2> DEFINE c == text[i]
               width == Len(Escaped(c))
               before == off[i - 1]
               p == pos + 1 + before
               whole == Len(all)
    <2>1. /\ i - 1 \in 0 .. n /\ c \in Nat /\ width \in Nat /\ before \in Nat /\ whole \in Nat
          /\ off[i] = before + width /\ off[i] <= whole
      <3>1. i \in 0 .. n /\ i - 1 \in 0 .. n
        BY <1>1
      <3>2. c \in Nat /\ Escaped(c) \in Text /\ pieces[i] = Escaped(c)
        BY <1>1, <1>2, <1>3
      <3>3. off[i] = off[i - 1] + Len(pieces[i])
        BY <1>4
      <3>4. Len(Escaped(c)) \in Nat
        BY <3>2, TextParts
      <3> QED BY <1>5, <1>9, <3>1, <3>2, <3>3, <3>4
    <2>2. at[i - 1] = p /\ at[i] = pos + 1 + off[i]
      BY <2>1
    <2>3. pos + whole + 2 <= Len(json) + 1 /\ Len(json) \in Nat
      BY <1>1, <1>8
    <2> HIDE DEF c, width, before, whole, at
    <2>4. /\ at[i] = p + width /\ p \in Nat \ {0} /\ p + width <= Len(json)
          /\ before + width <= whole
      BY <2>1, <2>2, <2>3
    <2>5. Holds(json, p, Escaped(c))
      <3>1. p + width <= Len(json) + 1
        BY <2>1, <2>3, <2>4
      <3>2. ASSUME NEW j \in 1 .. width PROVE json[p + j - 1] = Escaped(c)[j]
        <4>1. all[before + 1 + j - 1] = Escaped(c)[j]
          BY <1>3, <1>4 DEF Holds, before, width, c
        <4>2. before + 1 + j - 1 = before + j /\ before + j \in 1 .. whole
              /\ p + j - 1 = pos + (before + j)
          BY <2>1, <2>4
        <4> QED BY <1>8, <4>1, <4>2 DEF whole
      <3> QED BY <3>1, <3>2 DEF Holds, width
    <2> HIDE DEF p
    <2>6. json[p] # Quote /\ ReadItem(json, p) = [text |-> <<c>>, next |-> p + width]
      BY <2>1, <2>4, <2>5, EscapeIsUndone DEF width
    <2> QED BY <2>2, <2>4, <2>6 DEF c
  <1>13. ReadJsonString(json, at[0] - 1) = [text |-> text, next |-> at[n] + 1]
    <2> HIDE DEF at
    <2> QED BY <1>10, <1>11, <1>12, ItemsAreRead
  <1> QED BY <1>7, <1>11, <1>13

\* A string that JsonEscape wrote is read back as it was, and the reader stops right
\* behind it, whatever comes before and after (ros2_decoder.cpp:304-334, json_util.cpp:56-127).
THEOREM EscapedIsRead ==
  ASSUME NEW before \in Text, NEW text \in Text, NEW after \in Text
  PROVE  ReadJsonString(before \o JsonEscape(text) \o after, Len(before) + 1) =
           [text |-> text, next |-> Len(before) + Len(JsonEscape(text)) + 1]
  <1> DEFINE w == JsonEscape(text)
             s == before \o w
             json == s \o after
             pos == Len(before) + 1
  <1>1. w \in Text
    BY JsonEscapeIsText
  <1> HIDE DEF w
  <1>2. /\ s \in Text /\ Len(s) = Len(before) + Len(w)
        /\ \A j \in 1 .. Len(w) : s[Len(before) + j] = w[j]
    BY <1>1, ConcatTexts
  <1> HIDE DEF s
  <1>3. /\ json \in Text /\ Len(json) = Len(s) + Len(after)
        /\ \A j \in 1 .. Len(s) : json[j] = s[j]
    BY <1>2, ConcatTexts
  <1> HIDE DEF json
  <1>4. Len(before) \in Nat /\ Len(w) \in Nat /\ Len(after) \in Nat
    BY <1>1, TextParts
  <1>5. ASSUME NEW j \in 1 .. Len(w) PROVE json[pos + j - 1] = w[j]
    <2>1. pos + j - 1 = Len(before) + j /\ Len(before) + j \in 1 .. Len(s)
      BY <1>2, <1>4
    <2> QED BY <1>2, <1>3, <2>1
  <1>6. Holds(json, pos, w)
    BY <1>2, <1>3, <1>4, <1>5 DEF Holds
  <1>7. pos \in Nat \ {0} /\ pos + Len(w) = Len(before) + Len(w) + 1
    BY <1>4
  <1> HIDE DEF pos
  <1>8. ReadJsonString(json, pos) = [text |-> text, next |-> pos + Len(w)]
    BY <1>3, <1>6, <1>7, EscapedReads DEF w
  <1> QED BY <1>7, <1>8 DEF json, s, w, pos

-----------------------------------------------------------------------------
(* Where the parts of a text are. *)

LEMMA HoldsConcat ==
  ASSUME NEW json \in Text, NEW pos \in Nat \ {0}, NEW a \in Text, NEW b \in Text,
         Holds(json, pos, a \o b)
  PROVE  Holds(json, pos, a) /\ Holds(json, pos + Len(a), b)
  <1>1. Len(json) \in Nat /\ Len(a) \in Nat /\ Len(b) \in Nat
    BY TextParts
  <1>2. /\ Len(a \o b) = Len(a) + Len(b)
        /\ \A j \in 1 .. Len(a) : (a \o b)[j] = a[j]
        /\ \A j \in 1 .. Len(b) : (a \o b)[Len(a) + j] = b[j]
    BY ConcatTexts
  <1> DEFINE c == a \o b
  <1>3. pos + Len(c) <= Len(json) + 1 /\ \A j \in 1 .. Len(c) : json[pos + j - 1] = c[j]
    BY DEF Holds
  <1> HIDE DEF c
  <1>4. /\ Len(c) = Len(a) + Len(b)
        /\ \A j \in 1 .. Len(a) : c[j] = a[j]
        /\ \A j \in 1 .. Len(b) : c[Len(a) + j] = b[j]
    BY <1>2 DEF c
  <1>5. Holds(json, pos, a)
    <2>1. \A j \in 1 .. Len(a) : j \in 1 .. Len(c)
      BY <1>1, <1>4
    <2> QED BY <1>1, <1>3, <1>4, <2>1 DEF Holds
  <1>6. Holds(json, pos + Len(a), b)
    <2>1. pos + Len(a) + Len(b) <= Len(json) + 1
      BY <1>1, <1>3, <1>4
    <2>2. ASSUME NEW j \in 1 .. Len(b) PROVE json[pos + Len(a) + j - 1] = b[j]
      <3>1. Len(a) + j \in 1 .. Len(c) /\ pos + (Len(a) + j) - 1 = pos + Len(a) + j - 1
        BY <1>1, <1>4
      <3>2. json[pos + (Len(a) + j) - 1] = c[Len(a) + j]
        BY <1>3, <3>1
      <3> QED BY <1>4, <3>1, <3>2
    <2> QED BY <2>1, <2>2 DEF Holds
  <1> QED BY <1>5, <1>6

LEMMA HoldsSymbol ==
  ASSUME NEW json \in Text, NEW pos \in Nat \ {0}, NEW c \in Nat, Holds(json, pos, <<c>>)
  PROVE  json[pos] = c /\ pos \in 1 .. Len(json)
  <1>1. Len(<<c>>) = 1 /\ <<c>>[1] = c /\ 1 \in 1 .. 1 /\ pos + 1 - 1 = pos /\ Len(json) \in Nat
    BY OneSymbol, TextParts
  <1> QED BY <1>1 DEF Holds

LEMMA HoldsWithin ==
  ASSUME NEW json \in Text, NEW pos \in Nat \ {0}, NEW all \in Text, NEW q \in Nat \ {0},
         NEW piece \in Text, Holds(json, pos, all), Holds(all, q, piece)
  PROVE  Holds(json, pos + q - 1, piece)
  <1>1. Len(json) \in Nat /\ Len(all) \in Nat /\ Len(piece) \in Nat
    BY TextParts
  <1>2. ASSUME NEW j \in 1 .. Len(piece) PROVE json[(pos + q - 1) + j - 1] = piece[j]
    <2>1. q + j - 1 \in 1 .. Len(all) /\ pos + (q + j - 1) - 1 = (pos + q - 1) + j - 1
      BY <1>1 DEF Holds
    <2> QED BY <2>1 DEF Holds
  <1> QED BY <1>1, <1>2 DEF Holds

LEMMA SpacesAreSkipped ==
  ASSUME NEW json \in Text, NEW from \in Nat \ {0}, NEW n \in Nat, from + n <= Len(json),
         \A j \in 0 .. n - 1 : json[from + j] \in Spaces, json[from + n] \notin Spaces
  PROVE  SkipSpaces(json, from) = from + n
  <1> DEFINE S == {p \in from .. Len(json) : json[p] \notin Spaces} \cup {Len(json) + 1}
  <1>1. Len(json) \in Nat
    BY TextParts
  <1>2. from + n \in S
    BY <1>1
  <1>3. ASSUME NEW x \in S PROVE x \in Nat /\ x >= from + n
    <2>1. CASE x = Len(json) + 1
      BY <1>1, <2>1
    <2>2. CASE x # Len(json) + 1
      <3>1. x \in from .. Len(json) /\ json[x] \notin Spaces
        BY <2>2
      <3>2. ASSUME x < from + n PROVE FALSE
        <4>1. x - from \in 0 .. n - 1 /\ from + (x - from) = x
          BY <1>1, <3>1, <3>2
        <4> QED BY <3>1, <4>1
      <3> QED BY <1>1, <3>1, <3>2
    <2> QED BY <2>1, <2>2
  <1> HIDE DEF S
  <1>4. S \in SUBSET Nat /\ S # {}
    BY <1>2, <1>3
  <1>5. Min(S) \in S /\ Min(S) <= from + n
    BY <1>2, <1>4, MinIsLeast
  <1>6. Min(S) = from + n
    BY <1>3, <1>5
  <1> QED BY <1>6 DEF SkipSpaces, S

-----------------------------------------------------------------------------
(* Rounds of the scanner. *)

IsScan(scan, json, key) == \A at \in Nat \X Int : scan[at] = ScanStep(json, key, scan, at)

LEMMA ScanOnce ==
  ASSUME NEW scan, NEW json, NEW key, IsScan(scan, json, key), NEW pos \in Nat, NEW depth \in Int
  PROVE  LET round == Round(json, key, pos, depth)
         IN  scan[<<pos, depth>>] = IF round.returns THEN round.field ELSE scan[<<round.pos, round.depth>>]
  <1>1. <<pos, depth>> \in Nat \X Int /\ <<pos, depth>>[1] = pos /\ <<pos, depth>>[2] = depth
    OBVIOUS
  <1> QED BY <1>1 DEF IsScan, ScanStep

LEMMA ScanGoesOn ==
  ASSUME NEW scan, NEW json, NEW key, IsScan(scan, json, key), NEW pos \in Nat, NEW depth \in Int,
         NEW p, NEW d, Round(json, key, pos, depth) = GoesOn(p, d)
  PROVE  scan[<<pos, depth>>] = scan[<<p, d>>]
  BY ScanOnce DEF GoesOn

LEMMA ScanReturns ==
  ASSUME NEW scan, NEW json, NEW key, IsScan(scan, json, key), NEW pos \in Nat, NEW depth \in Int,
         NEW f, Round(json, key, pos, depth) = Returns(f)
  PROVE  scan[<<pos, depth>>] = f
  <1> DEFINE round == Round(json, key, pos, depth)
  <1>1. round.returns = TRUE /\ round.field = f
    BY DEF Returns
  <1>2. scan[<<pos, depth>>] = IF round.returns THEN round.field ELSE scan[<<round.pos, round.depth>>]
    BY ScanOnce
  <1> HIDE DEF round
  <1> QED BY <1>1, <1>2

LEMMA MarkIsPassed ==
  ASSUME NEW scan, NEW json \in Text, NEW key, IsScan(scan, json, key), NEW pos \in 1 .. Len(json),
         NEW depth \in Int, json[pos] # Quote, json[pos] = CloseBrace => depth # 0
  PROVE  scan[<<pos, depth>>] = scan[<<pos + 1, depth + Deeper(Mark(json[pos]))>>]
  <1>1. Len(json) \in Nat /\ pos \in Nat /\ ~(pos > Len(json))
    BY TextParts
  <1> DEFINE c == json[pos]
  <1>2. Deeper(Mark(c)) = IF c \in {OpenBrace, OpenBracket} THEN 1
                          ELSE IF c \in {CloseBrace, CloseBracket} THEN -1 ELSE 0
    BY DEF Deeper, Mark
  <1>3. Round(json, key, pos, depth) = GoesOn(pos + 1, depth + Deeper(Mark(c)))
    <2>1. CASE c \in {CloseBrace, CloseBracket}
      <3>1. c \notin {OpenBrace, OpenBracket}
        BY <2>1 DEF CloseBrace, CloseBracket, OpenBrace, OpenBracket
      <3>2. Deeper(Mark(c)) = -1 /\ depth + (-1) = depth - 1
        BY <1>2, <2>1, <3>1
      <3> QED BY <1>1, <2>1, <3>2 DEF Round
    <2>2. CASE c \in {OpenBrace, OpenBracket}
      <3>1. c \notin {CloseBrace, CloseBracket}
        BY <2>2 DEF CloseBrace, CloseBracket, OpenBrace, OpenBracket
      <3>2. Deeper(Mark(c)) = 1
        BY <1>2, <2>2
      <3> QED BY <1>1, <2>2, <3>1, <3>2 DEF Round
    <2>3. CASE c \notin {CloseBrace, CloseBracket} /\ c \notin {OpenBrace, OpenBracket}
      <3>1. Deeper(Mark(c)) = 0 /\ depth + 0 = depth
        BY <1>2, <2>3
      <3> QED BY <1>1, <2>3, <3>1 DEF Round
    <2> QED BY <2>1, <2>2, <2>3
  <1> QED BY <1>1, <1>3, ScanGoesOn

\* The parts of a member that are not its key are at depth 0, those of its value deeper.
LEMMA TokenIsPassed ==
  ASSUME NEW scan, NEW json \in Text, NEW key, IsScan(scan, json, key), NEW pos \in Nat \ {0},
         NEW depth \in Int, NEW token \in Tokens, Holds(json, pos, TokenText(token)),
         depth # 0 \/ Deeper(token) = 1
  PROVE  scan[<<pos, depth>>] = scan[<<pos + Len(TokenText(token)), depth + Deeper(token)>>]
  <1>0. Len(json) \in Nat /\ pos \in Nat
    BY TextParts
  <1>1. CASE token \in [kind : {"string"}, text : Seq(Nat)]
    <2>1. token.kind = "string" /\ token.text \in Text
      BY <1>1 DEF Text
    <2>2. TokenText(token) = JsonEscape(token.text) /\ Deeper(token) = 0 /\ depth # 0
      BY <2>1 DEF TokenText, Deeper
    <2> DEFINE next_ == pos + Len(JsonEscape(token.text))
    <2>3. ReadJsonString(json, pos) = [text |-> token.text, next |-> next_]
      BY <2>1, <2>2, EscapedReads
    <2>4. json[pos] = Quote /\ pos <= Len(json)
      BY <2>1, <2>2, EscapedBegins
    <2>5. ReadJsonString(json, pos) # Malformed
      <3>1. JsonEscape(token.text) \in Text
        BY <2>1, JsonEscapeIsText
      <3>2. next_ # 0 
        BY <3>1, TextParts
      <3> QED BY <2>3, <3>2 DEF Malformed
    <2>6. Round(json, key, pos, depth) = AfterString(json, key, ReadJsonString(json, pos), depth)
      BY <1>0, <2>4 DEF Round, Quote, OpenBrace, OpenBracket, CloseBrace, CloseBracket
    <2>7. AfterString(json, key, ReadJsonString(json, pos), depth) = GoesOn(next_, depth)
      BY <2>2, <2>3, <2>5 DEF AfterString
    <2>8. scan[<<pos, depth>>] = scan[<<next_, depth>>]
      BY <1>0, <2>6, <2>7, ScanGoesOn
    <2> QED BY <2>2, <2>8
  <1>2. CASE token \in [kind : {"mark"}, symbol : Nat \ {Quote}]
    <2>1. token.kind = "mark" /\ token.symbol \in Nat /\ token.symbol # Quote
      BY <1>2
    <2> DEFINE c == token.symbol
    <2>2. TokenText(token) = <<c>> /\ Len(<<c>>) = 1
      BY <2>1 DEF TokenText
    <2>3. json[pos] = c /\ pos \in 1 .. Len(json)
      BY <2>1, <2>2, HoldsSymbol
    <2>4. Deeper(token) = Deeper(Mark(c))
      BY <2>1 DEF Deeper, Mark
    <2>5. c = CloseBrace => depth # 0
      BY <2>1 DEF Deeper, CloseBrace, CloseBracket, OpenBrace, OpenBracket
    <2> QED BY <2>1, <2>2, <2>3, <2>4, <2>5, MarkIsPassed
  <1> QED BY <1>1, <1>2 DEF Tokens

-----------------------------------------------------------------------------
(* Containers. *)

LEMMA DeeperIsStep == ASSUME NEW token \in Tokens PROVE Deeper(token) \in {-1, 0, 1}
  BY DEF Deeper

LEMMA TokenIsText == ASSUME NEW token \in Tokens PROVE TokenText(token) \in Text
  <1>1. CASE token \in [kind : {"string"}, text : Seq(Nat)]
    <2>1. token.kind = "string" /\ token.text \in Text
      BY <1>1 DEF Text
    <2> QED BY <2>1, JsonEscapeIsText DEF TokenText
  <1>2. CASE token \in [kind : {"mark"}, symbol : Nat \ {Quote}]
    <2>1. token.kind = "mark" /\ token.symbol \in Nat
      BY <1>2
    <2> QED BY <2>1, OneSymbol DEF TokenText
  <1> QED BY <1>1, <1>2 DEF Tokens

DepthStep(tokens, depth, i) == IF i = 0 THEN 0 ELSE depth[i - 1] + Deeper(tokens[i])

LEMMA DepthsExist ==
  ASSUME NEW tokens \in Seq(Tokens)
  PROVE  \E g : g = [i \in 0 .. Len(tokens) |-> DepthStep(tokens, g, i)]
                /\ \A i \in 0 .. Len(tokens) : g[i] \in Int
  <1> DEFINE n == Len(tokens)
             D == 0 .. n
             rank == [i \in D |-> i]
             F == [a \in D \X [D -> Int] |-> DepthStep(tokens, a[2], a[1])]
  <1>1. n \in Nat /\ rank \in [D -> 0 .. n] /\ Int # {} /\ \A i \in 1 .. n : tokens[i] \in Tokens
    OBVIOUS
  <1>2. ASSUME NEW x \in D, NEW g \in [D -> Int] PROVE DepthStep(tokens, g, x) \in Int
    <2>1. CASE x = 0
      BY <2>1 DEF DepthStep
    <2>2. CASE x # 0
      <3>1. x - 1 \in D /\ x \in 1 .. n
        BY <1>1, <2>2
      <3>2. g[x - 1] \in Int /\ Deeper(tokens[x]) \in {-1, 0, 1}
        BY <1>1, <3>1, DeeperIsStep
      <3>3. g[x - 1] + Deeper(tokens[x]) \in Int
        BY <3>2
      <3> QED BY <2>2, <3>3 DEF DepthStep
    <2> QED BY <2>1, <2>2
  <1>3. F \in [D \X [D -> Int] -> Int]
    <2> HIDE DEF D
    <2> QED BY <1>2
  <1>4. \A x \in D : \A g \in [D -> Int] : F[<<x, g>>] = DepthStep(tokens, g, x)
    <2> HIDE DEF D
    <2> QED OBVIOUS
  <1>5. ASSUME NEW x \in D, NEW g \in [D -> Int], NEW h \in [D -> Int],
               \A y \in D : rank[y] < rank[x] => g[y] = h[y]
        PROVE  F[<<x, g>>] = F[<<x, h>>]
    <2>1. CASE x = 0
      <3> HIDE DEF F
      <3> QED BY <1>4, <2>1 DEF DepthStep
    <2>2. CASE x # 0
      <3>1. x - 1 \in D /\ rank[x - 1] < rank[x]
        BY <1>1, <2>2
      <3>2. g[x - 1] = h[x - 1]
        BY <1>5, <3>1
      <3> HIDE DEF F
      <3> QED BY <1>4, <3>2 DEF DepthStep
    <2> QED BY <2>1, <2>2
  <1>6. PICK g : Solution(g, D, Int, F)
    <2> HIDE DEF D, rank, n, F
    <2>1. LooksBack(D, Int, rank, F)
      BY <1>5 DEF LooksBack
    <2> QED BY <1>1, <1>3, <2>1, RecursionExists
  <1>7. \A x \in D : g[x] = DepthStep(tokens, g, x)
    <2> HIDE DEF F
    <2> QED BY <1>4, <1>6 DEF Solution
  <1>8. g = [x \in D |-> DepthStep(tokens, g, x)] /\ \A x \in D : g[x] \in Int
    <2> HIDE DEF D
    <2> QED BY <1>6, <1>7 DEF Solution
  <1> QED BY <1>8

LEMMA DepthsAre ==
  ASSUME NEW tokens \in Seq(Tokens)
  PROVE  /\ Depths(tokens)[0] = 0
         /\ \A i \in 0 .. Len(tokens) : Depths(tokens)[i] \in Int
         /\ \A i \in 1 .. Len(tokens) : Depths(tokens)[i] = Depths(tokens)[i - 1] + Deeper(tokens[i])
  <1>1. PICK g : /\ g = [i \in 0 .. Len(tokens) |-> DepthStep(tokens, g, i)]
                 /\ \A i \in 0 .. Len(tokens) : g[i] \in Int
                 /\ Depths(tokens) = g
    BY DepthsExist DEF Depths, DepthStep
  <1>2. Len(tokens) \in Nat
    OBVIOUS
  <1>3. \A i \in 0 .. Len(tokens) : g[i] = DepthStep(tokens, g, i)
    BY <1>1
  <1>4. ASSUME NEW i \in 1 .. Len(tokens) PROVE g[i] = g[i - 1] + Deeper(tokens[i])
    <2>1. i \in 0 .. Len(tokens) /\ i # 0
      BY <1>2
    <2> QED BY <1>3, <2>1 DEF DepthStep
  <1>5. g[0] = 0
    <2>1. 0 \in 0 .. Len(tokens)
      BY <1>2
    <2> QED BY <1>3, <2>1 DEF DepthStep
  <1> QED BY <1>1, <1>4, <1>5

TokensText(tokens) == FlattenSeq([i \in DOMAIN tokens |-> TokenText(tokens[i])])

LEMMA TokensAreTexts ==
  ASSUME NEW tokens \in Seq(Tokens)
  PROVE  /\ [i \in DOMAIN tokens |-> TokenText(tokens[i])] \in Seq(Text)
         /\ TokensText(tokens) \in Text
  <1>1. Len(tokens) \in Nat /\ DOMAIN tokens = 1 .. Len(tokens) /\ \A i \in 1 .. Len(tokens) : tokens[i] \in Tokens
    OBVIOUS
  <1>2. \A i \in 1 .. Len(tokens) : TokenText(tokens[i]) \in Text
    BY <1>1, TokenIsText
  <1> DEFINE pieces == [i \in DOMAIN tokens |-> TokenText(tokens[i])]
  <1>3. pieces \in Seq(Text)
    BY <1>1, <1>2
  <1> HIDE DEF pieces
  <1>4. FlattenSeq(pieces) \in Text
    BY <1>3, FlatHolds
  <1> QED BY <1>3, <1>4 DEF TokensText, pieces

\* The rounds that follow pass over a container.
LEMMA ContainerIsPassed ==
  ASSUME NEW scan, NEW json \in Text, NEW key, IsScan(scan, json, key), NEW pos \in Nat \ {0},
         NEW tokens, IsContainer(tokens), Holds(json, pos, TokensText(tokens))
  PROVE  scan[<<pos, 0>>] = scan[<<pos + Len(TokensText(tokens)), 0>>]
  <1> DEFINE n == Len(tokens)
             pieces == [i \in DOMAIN tokens |-> TokenText(tokens[i])]
             all == TokensText(tokens)
             depth == Depths(tokens)
  <1>1. n \in Nat /\ n >= 2 /\ DOMAIN tokens = 1 .. n /\ tokens \in Seq(Tokens)
        /\ \A i \in 1 .. n : tokens[i] \in Tokens /\ TokenText(tokens[i]) \in Text
    <2>1. tokens \in Seq(Tokens) /\ n >= 2
      BY DEF IsContainer
    <2>2. \A i \in 1 .. n : tokens[i] \in Tokens
      BY <2>1
    <2> QED BY <2>1, <2>2, TokenIsText
  <1>2. /\ \A i \in 1 .. n - 1 : depth[i] >= 1
        /\ depth[n] = 0 /\ depth[0] = 0
        /\ \A i \in 0 .. n : depth[i] \in Int
        /\ \A i \in 1 .. n : depth[i] = depth[i - 1] + Deeper(tokens[i])
    BY <1>1, DepthsAre DEF IsContainer
  <1> HIDE DEF depth
  <1>3. pieces \in Seq(Text) /\ Len(pieces) = n /\ \A i \in 1 .. n : pieces[i] = TokenText(tokens[i])
    BY <1>1, TokensAreTexts
  <1>4. all = FlattenSeq(pieces) /\ all \in Text
    BY <1>1, TokensAreTexts DEF TokensText
  <1> HIDE DEF pieces, all
  <1>5. PICK off \in [0 .. n -> Nat] :
          /\ off[0] = 0 /\ off[n] = Len(all)
          /\ \A i \in 1 .. n : /\ off[i] = off[i - 1] + Len(pieces[i])
                               /\ Holds(all, off[i - 1] + 1, pieces[i])
    BY <1>3, <1>4, FlatHolds
  <1> DEFINE At0(i) == scan[<<pos, 0>>] = scan[<<pos + off[i], depth[i]>>]
             P == {k \in Nat : k <= n => At0(k)}
  <1>6. 0 \in P
    <2>1. pos + off[0] = pos /\ depth[0] = 0
      BY <1>2, <1>5
    <2> QED BY <2>1
  <1>7. ASSUME NEW k \in Nat, k \in P PROVE k + 1 \in P
    <2> SUFFICES ASSUME k + 1 <= n PROVE At0(k + 1)
      OBVIOUS
    <2> DEFINE i == k + 1
    <2>1. i \in 1 .. n /\ i - 1 = k /\ k \in 0 .. n
      BY <1>1
    <2>2. scan[<<pos, 0>>] = scan[<<pos + off[k], depth[k]>>]
      BY <1>1, <1>7
    <2> HIDE DEF i
    <2> DEFINE p == pos + off[k]
               token == tokens[i]
    <2>3. token \in Tokens /\ pieces[i] = TokenText(token)
      BY <1>1, <1>3, <2>1
    <2>4. off[k] \in Nat /\ p \in Nat \ {0} /\ depth[k] \in Int /\ Len(TokenText(token)) \in Nat
      BY <1>1, <1>2, <2>1, TextParts
    <2>5. Holds(json, p, TokenText(token))
      <3>1. Holds(all, off[k] + 1, TokenText(token))
        BY <1>5, <2>1, <2>3
      <3>2. TokenText(token) \in Text /\ off[k] + 1 \in Nat \ {0} /\ p = pos + (off[k] + 1) - 1
        BY <1>1, <2>1, <2>4
      <3> DEFINE text == TokenText(token)
                 q == off[k] + 1
      <3> HIDE DEF text, q, p, token
      <3>3. Holds(json, pos + q - 1, text)
        BY <1>4, <3>1, <3>2, HoldsWithin DEF text, q, all
      <3> QED BY <3>2, <3>3 DEF text, q
    <2>6. depth[k] # 0 \/ Deeper(token) = 1
      <3>1. CASE k = 0
        <4>1. i = 1 /\ 1 \in 1 .. n - 1
          BY <1>1, <2>1, <3>1
        <4>2. depth[1] >= 1 /\ depth[1] = 0 + Deeper(token)
          BY <1>2, <2>1, <3>1, <4>1
        <4>3. Deeper(token) \in {-1, 0, 1}
          BY <2>3, DeeperIsStep
        <4> QED BY <4>2, <4>3
      <3>2. CASE k # 0
        <4>1. k \in 1 .. n - 1
          BY <1>1, <2>1, <3>2
        <4> QED BY <1>2, <4>1
      <3> QED BY <3>1, <3>2
    <2>7. scan[<<p, depth[k]>>] = scan[<<p + Len(TokenText(token)), depth[k] + Deeper(token)>>]
      <3> HIDE DEF p, token
      <3> QED BY <2>3, <2>4, <2>5, <2>6, TokenIsPassed
    <2>8. depth[i] = depth[k] + Deeper(token) /\ pos + off[i] = p + Len(TokenText(token))
      <3>1. off[i] = off[k] + Len(TokenText(token))
        BY <1>5, <2>1, <2>3
      <3> QED BY <1>2, <2>1, <2>4, <3>1
    <2>9. At0(i)
      BY <2>2, <2>7, <2>8
    <2> QED BY <2>9 DEF i
  <1>8. n \in P
    <2> HIDE DEF P
    <2> QED BY <1>1, <1>6, <1>7, Induction
  <1>9. scan[<<pos, 0>>] = scan[<<pos + off[n], depth[n]>>]
    BY <1>1, <1>8
  <1> QED BY <1>2, <1>5, <1>9 DEF all

-----------------------------------------------------------------------------
(* Members. *)

AllSpaces(sp) == sp \in Text /\ \A i \in 1 .. Len(sp) : sp[i] \in Spaces

LEMMA HeldSpaces ==
  ASSUME NEW json \in Text, NEW pos \in Nat \ {0}, NEW sp, AllSpaces(sp), Holds(json, pos, sp)
  PROVE  /\ Len(sp) \in Nat /\ pos + Len(sp) <= Len(json) + 1
         /\ \A j \in 0 .. Len(sp) - 1 : json[pos + j] \in Spaces
  <1>1. Len(sp) \in Nat /\ sp \in Text
    BY TextParts DEF AllSpaces
  <1>2. ASSUME NEW j \in 0 .. Len(sp) - 1 PROVE json[pos + j] \in Spaces
    <2>1. j + 1 \in 1 .. Len(sp) /\ pos + (j + 1) - 1 = pos + j
      BY <1>1
    <2> QED BY <2>1 DEF Holds, AllSpaces
  <1> QED BY <1>1, <1>2 DEF Holds

\* The rounds pass over spaces.
LEMMA SpacesArePassed ==
  ASSUME NEW scan, NEW json \in Text, NEW key, IsScan(scan, json, key), NEW pos \in Nat \ {0},
         NEW sp, AllSpaces(sp), Holds(json, pos, sp)
  PROVE  scan[<<pos, 0>>] = scan[<<pos + Len(sp), 0>>]
  <1> DEFINE n == Len(sp)
             P == {k \in Nat : k <= n => scan[<<pos, 0>>] = scan[<<pos + k, 0>>]}
  <1>1. n \in Nat /\ pos + n <= Len(json) + 1 /\ \A j \in 0 .. n - 1 : json[pos + j] \in Spaces
    BY HeldSpaces
  <1>2. 0 \in P
    <2>1. pos + 0 = pos
      OBVIOUS
    <2> QED BY <2>1
  <1>3. ASSUME NEW k \in Nat, k \in P PROVE k + 1 \in P
    <2> SUFFICES ASSUME k + 1 <= n PROVE scan[<<pos, 0>>] = scan[<<pos + (k + 1), 0>>]
      OBVIOUS
    <2> DEFINE p == pos + k
    <2>1. scan[<<pos, 0>>] = scan[<<p, 0>>] /\ p + 1 = pos + (k + 1)
      BY <1>1, <1>3
    <2>2. json[p] \in Spaces /\ p \in 1 .. Len(json)
      <3>1. k \in 0 .. n - 1 /\ Len(json) \in Nat
        BY <1>1, TextParts
      <3> QED BY <1>1, <3>1
    <2> HIDE DEF p
    <2>3. json[p] # Quote /\ json[p] # CloseBrace /\ 0 + Deeper(Mark(json[p])) = 0
      <3> DEFINE c == json[p]
      <3>1. c \in Spaces
        BY <2>2
      <3> HIDE DEF c
      <3>2. c # Quote /\ c \notin {CloseBrace, CloseBracket, OpenBrace, OpenBracket}
        BY <3>1 DEF Spaces, Quote, CloseBrace, CloseBracket, OpenBrace, OpenBracket
      <3>3. Deeper(Mark(c)) = 0
        BY <3>2 DEF Deeper, Mark
      <3> QED BY <3>2, <3>3 DEF c
    <2>4. scan[<<p, 0>>] = scan[<<p + 1, 0 + Deeper(Mark(json[p]))>>]
      <3>1. PICK depth \in Int : depth = 0
        OBVIOUS
      <3>2. scan[<<p, depth>>] = scan[<<p + 1, depth + Deeper(Mark(json[p]))>>]
        BY <2>2, <2>3, <3>1, MarkIsPassed
      <3> QED BY <3>1, <3>2
    <2> QED BY <2>1, <2>3, <2>4
  <1>4. n \in P
    <2> HIDE DEF P
    <2> QED BY <1>1, <1>2, <1>3, Induction
  <1> QED BY <1>1, <1>4

LEMMA FirstIs ==
  ASSUME NEW json \in Text, NEW from \in Nat \ {0}, NEW e \in from .. Len(json), NEW S,
         json[e] \in S, \A p \in from .. e - 1 : json[p] \notin S
  PROVE  FirstAt(json, from, S) = e
  <1> DEFINE T == {p \in from .. Len(json) : json[p] \in S} \cup {Len(json) + 1}
  <1>1. Len(json) \in Nat /\ e \in Nat
    BY TextParts
  <1>2. e \in T
    OBVIOUS
  <1>3. ASSUME NEW x \in T PROVE x \in Nat /\ x >= e
    <2>1. CASE x = Len(json) + 1
      BY <1>1, <2>1
    <2>2. CASE x # Len(json) + 1
      <3>1. x \in from .. Len(json) /\ json[x] \in S
        BY <2>2
      <3>2. ~(x \in from .. e - 1)
        BY <3>1
      <3> QED BY <1>1, <3>1, <3>2
    <2> QED BY <2>1, <2>2
  <1> HIDE DEF T
  <1>4. T \in SUBSET Nat /\ T # {}
    BY <1>2, <1>3
  <1>5. Min(T) \in T /\ Min(T) <= e
    BY <1>2, <1>4, MinIsLeast
  <1>6. Min(T) = e
    BY <1>1, <1>3, <1>5
  <1> QED BY <1>6 DEF FirstAt, T

LEMMA HeldIsPart ==
  ASSUME NEW json \in Text, NEW pos \in Nat \ {0}, NEW piece \in Text, Holds(json, pos, piece)
  PROVE  SubSeq(json, pos, pos + Len(piece) - 1) = piece
  <1>1. Len(json) \in Nat /\ Len(piece) \in Nat /\ json \in Seq(Nat) /\ piece \in Seq(Nat)
    BY TextParts DEF Text
  <1> DEFINE last == pos + Len(piece) - 1
  <1>2. last \in Int /\ last <= Len(json) /\ last - pos + 1 = Len(piece) /\ pos >= 1 /\ last >= pos - 1
    BY <1>1 DEF Holds
  <1> HIDE DEF last
  <1>3. /\ SubSeq(json, pos, last) \in Seq(Nat) /\ Len(SubSeq(json, pos, last)) = Len(piece)
        /\ \A j \in 1 .. Len(piece) : SubSeq(json, pos, last)[j] = json[pos + j - 1]
    BY <1>1, <1>2
  <1>4. \A j \in 1 .. Len(piece) : SubSeq(json, pos, last)[j] = piece[j]
    BY <1>3 DEF Holds
  <1>5. SubSeq(json, pos, last) = piece
    <2> DEFINE part == SubSeq(json, pos, last)
    <2>1. part \in Seq(Nat) /\ Len(part) = Len(piece) /\ \A j \in 1 .. Len(piece) : part[j] = piece[j]
      BY <1>3, <1>4
    <2> HIDE DEF part
    <2>2. part = piece
      BY <1>1, <2>1, SeqEqual
    <2> QED BY <2>2 DEF part
  <1> QED BY <1>5 DEF last

\* A scalar ends before the spaces that follow it.
LEMMA ScalarIsRead ==
  ASSUME NEW json \in Text, NEW from \in Nat \ {0, 1}, NEW text, IsScalar(text), NEW sp, AllSpaces(sp),
         Holds(json, from, text), Holds(json, from + Len(text), sp),
         NEW e, e = from + Len(text) + Len(sp), e <= Len(json), json[e] \in {Comma, CloseBrace}
  PROVE  ReadScalar(json, from) = [text |-> text, next |-> e]
  <1> DEFINE n == Len(text)
             last == from + n - 1
             S == {p \in from .. e - 1 : json[p] \notin Spaces} \cup {from - 1}
             Ends == {Comma, CloseBrace, CloseBracket}
  <1>1. text \in Text /\ n \in Nat /\ n >= 1 /\ Len(sp) \in Nat /\ Len(json) \in Nat /\ e \in Nat
    <2>1. text \in Text /\ text # <<>> /\ text \in Seq(Nat)
      BY DEF IsScalar, Text
    <2>2. n \in Nat /\ n # 0
      BY <2>1
    <2> QED BY <2>1, <2>2, TextParts DEF AllSpaces
  <1>2. \A j \in 1 .. n : json[from + j - 1] = text[j]
    BY DEF Holds
  <1>3. \A j \in 0 .. Len(sp) - 1 : json[from + n + j] \in Spaces
    <2>1. from + n \in Nat \ {0}
      BY <1>1
    <2> QED BY <2>1, HeldSpaces
  <1>4. ASSUME NEW p \in from .. e - 1
        PROVE  \/ p <= last /\ json[p] \notin Ends
               \/ p > last /\ json[p] \in Spaces
    <2>1. CASE p <= last
      <3>1. p - from + 1 \in 1 .. n /\ from + (p - from + 1) - 1 = p
        BY <1>1, <2>1
      <3>2. json[p] = text[p - from + 1]
        BY <1>2, <3>1
      <3> QED BY <2>1, <3>1, <3>2 DEF IsScalar
    <2>2. CASE p > last
      <3>1. p - from - n \in 0 .. Len(sp) - 1 /\ from + n + (p - from - n) = p
        BY <1>1, <2>2
      <3> QED BY <1>3, <2>2, <3>1
    <2>3. p <= last \/ p > last
      BY <1>1
    <2> QED BY <2>1, <2>2, <2>3
  <1>5. FirstAt(json, from, Ends) = e
    <2>1. e \in from .. Len(json) /\ json[e] \in Ends
      BY <1>1
    <2>2. \A p \in from .. e - 1 : json[p] \notin Ends
      <3>1. \A c \in Spaces : c \notin Ends
        BY DEF Spaces, Comma, CloseBrace, CloseBracket
      <3> HIDE DEF Ends
      <3> QED BY <1>4, <3>1
    <2> HIDE DEF Ends
    <2> QED BY <2>1, <2>2, FirstIs
  <1>6. Max(S) = last
    <2>1. last \in from .. e - 1 /\ json[last] = text[n] /\ last \in S
      <3>1. n \in 1 .. n /\ last \in from .. e - 1
        BY <1>1
      <3>2. json[last] = text[n] /\ text[n] \notin Spaces
        BY <1>2, <3>1 DEF IsScalar
      <3> QED BY <3>1, <3>2
    <2>2. ASSUME NEW x \in S PROVE x <= last /\ x \in 1 .. Len(json)
      <3>1. CASE x = from - 1
        BY <1>1, <3>1
      <3>2. CASE x # from - 1
        <4>1. x \in from .. e - 1 /\ json[x] \notin Spaces
          BY <3>2
        <4> QED BY <1>1, <1>4, <4>1
      <3> QED BY <3>1, <3>2
    <2> HIDE DEF S
    <2>3. Max(S) \in S /\ last <= Max(S)
      <3>1. S \in SUBSET (1 .. Len(json)) /\ S # {}
        BY <2>1, <2>2
      <3> QED BY <1>1, <2>1, <3>1, MaxIsGreatest
    <2> QED BY <1>1, <2>2, <2>3
  <1>7. SubSeq(json, from, last) = text
    BY <1>1, HeldIsPart
  <1> QED BY <1>5, <1>6, <1>7 DEF ReadScalar
-----------------------------------------------------------------------------
\* The parts of a member, one after the other.
LEMMA MemberParts ==
  ASSUME NEW json \in Text, NEW pos \in Nat \ {0}, NEW k \in Text, NEW sp \in Text, NEW v \in Text,
         Holds(json, pos, k \o sp \o <<Colon>> \o sp \o v \o sp)
  PROVE  /\ k \o sp \o <<Colon>> \o sp \o v \o sp \in Text
         /\ Len(k \o sp \o <<Colon>> \o sp \o v \o sp) = Len(k) + Len(sp) + 1 + Len(sp) + Len(v) + Len(sp)
         /\ Holds(json, pos, k)
         /\ Holds(json, pos + Len(k), sp)
         /\ Holds(json, pos + Len(k) + Len(sp), <<Colon>>)
         /\ Holds(json, pos + Len(k) + Len(sp) + 1, sp)
         /\ Holds(json, pos + Len(k) + Len(sp) + 1 + Len(sp), v)
         /\ Holds(json, pos + Len(k) + Len(sp) + 1 + Len(sp) + Len(v), sp)
  <1> DEFINE c == <<Colon>>
             m1 == k \o sp
             m2 == m1 \o c
             m3 == m2 \o sp
             m4 == m3 \o v
             m5 == m4 \o sp
  <1>0. c \in Text /\ Len(c) = 1 /\ Colon \in Nat
    BY OneSymbol DEF Colon
  <1>n. Len(k) \in Nat /\ Len(sp) \in Nat /\ Len(v) \in Nat
    BY TextParts
  <1> HIDE DEF c
  <1>1. m1 \in Text /\ Len(m1) = Len(k) + Len(sp)
    BY ConcatTexts
  <1> HIDE DEF m1
  <1>2. m2 \in Text /\ Len(m2) = Len(k) + Len(sp) + 1
    <2>1. m2 \in Text /\ Len(m2) = Len(m1) + Len(c)
      BY <1>0, <1>1, ConcatTexts
    <2> QED BY <1>0, <1>1, <1>n, <2>1
  <1> HIDE DEF m2
  <1>3. m3 \in Text /\ Len(m3) = Len(k) + Len(sp) + 1 + Len(sp)
    <2>1. m3 \in Text /\ Len(m3) = Len(m2) + Len(sp)
      BY <1>2, ConcatTexts
    <2> QED BY <1>2, <1>n, <2>1
  <1> HIDE DEF m3
  <1>4. m4 \in Text /\ Len(m4) = Len(k) + Len(sp) + 1 + Len(sp) + Len(v)
    BY <1>3, ConcatTexts
  <1> HIDE DEF m4
  <1>5. m5 \in Text /\ Len(m5) = Len(k) + Len(sp) + 1 + Len(sp) + Len(v) + Len(sp)
    BY <1>4, ConcatTexts
  <1>6. Holds(json, pos, m5)
    BY DEF m5, m4, m3, m2, m1, c
  <1>7. Holds(json, pos, m4) /\ Holds(json, pos + Len(m4), sp)
    BY <1>4, <1>6, HoldsConcat
  <1>8. Holds(json, pos, m3) /\ Holds(json, pos + Len(m3), v)
    BY <1>3, <1>7, HoldsConcat DEF m4
  <1>9. Holds(json, pos, m2) /\ Holds(json, pos + Len(m2), sp)
    BY <1>2, <1>8, HoldsConcat DEF m3
  <1>10. Holds(json, pos, m1) /\ Holds(json, pos + Len(m1), c)
    BY <1>0, <1>1, <1>9, HoldsConcat DEF m2
  <1>11. Holds(json, pos, k) /\ Holds(json, pos + Len(k), sp)
    BY <1>10, HoldsConcat DEF m1
  <1>12. Holds(json, pos + Len(m1), <<Colon>>)
    BY <1>10 DEF c
  <1>13. m5 = k \o sp \o <<Colon>> \o sp \o v \o sp
    BY DEF m5, m4, m3, m2, m1, c
  <1>14. /\ pos + Len(m1) = pos + Len(k) + Len(sp)
         /\ pos + Len(m2) = pos + Len(k) + Len(sp) + 1
         /\ pos + Len(m3) = pos + Len(k) + Len(sp) + 1 + Len(sp)
         /\ pos + Len(m4) = pos + Len(k) + Len(sp) + 1 + Len(sp) + Len(v)
    BY <1>n, <1>1, <1>2, <1>3, <1>4
  <1> HIDE DEF m5
  <1> QED BY <1>5, <1>7, <1>8, <1>9, <1>11, <1>12, <1>13, <1>14

-----------------------------------------------------------------------------
(* Values. *)

ValueKinds(value) == value.kind \in {"string", "scalar", "container"}

LEMMA ContainerBegins ==
  ASSUME NEW json \in Text, NEW pos \in Nat \ {0}, NEW tokens, IsContainer(tokens),
         Holds(json, pos, TokensText(tokens))
  PROVE  pos \in 1 .. Len(json) /\ json[pos] \in {OpenBrace, OpenBracket}
  <1> DEFINE n == Len(tokens)
             pieces == [i \in DOMAIN tokens |-> TokenText(tokens[i])]
             all == TokensText(tokens)
             first == tokens[1]
  <1>1. n \in Nat /\ n >= 2 /\ DOMAIN tokens = 1 .. n /\ tokens \in Seq(Tokens) /\ first \in Tokens
    <2>1. tokens \in Seq(Tokens) /\ n >= 2
      BY DEF IsContainer
    <2>2. 1 \in 1 .. n
      BY <2>1
    <2> QED BY <2>1, <2>2
  <1>2. Deeper(first) = 1
    <2>1. 1 \in 1 .. n - 1 /\ 1 \in 1 .. n /\ 1 - 1 = 0
      BY <1>1
    <2>2. Depths(tokens)[1] >= 1
      BY <2>1 DEF IsContainer
    <2>3. Depths(tokens)[1] = 0 + Deeper(first)
      BY <1>1, <2>1, DepthsAre
    <2>4. Deeper(first) \in {-1, 0, 1}
      BY <1>1, DeeperIsStep
    <2> HIDE DEF first
    <2> QED BY <2>2, <2>3, <2>4
  <1>3. first.kind # "string" /\ first.symbol \in {OpenBrace, OpenBracket}
    <2> HIDE DEF first
    <2> QED BY <1>2 DEF Deeper
  <1> DEFINE c == first.symbol
  <1>4. pieces \in Seq(Text) /\ Len(pieces) = n /\ pieces[1] = <<c>> /\ all = FlattenSeq(pieces) /\ all \in Text
    <2>1. pieces \in Seq(Text) /\ all \in Text
      BY <1>1, TokensAreTexts
    <2>2. TokenText(first) = <<c>>
      BY <1>3 DEF TokenText
    <2>3. Len(pieces) = n /\ pieces[1] = TokenText(first)
      BY <1>1
    <2> HIDE DEF first, c
    <2> QED BY <2>1, <2>2, <2>3 DEF TokensText
  <1> HIDE DEF pieces, first
  <1>5. c \in Nat /\ c \in {OpenBrace, OpenBracket}
    BY <1>3 DEF OpenBrace, OpenBracket
  <1> HIDE DEF c, all
  <1>6. Holds(all, 1, <<c>>)
    <2>1. PICK off \in [0 .. n -> Nat] :
            /\ off[0] = 0
            /\ \A i \in 1 .. n : Holds(all, off[i - 1] + 1, pieces[i])
      BY <1>4, FlatHolds
    <2>2. 1 \in 1 .. n /\ off[1 - 1] + 1 = 1
      BY <1>1, <2>1
    <2> QED BY <1>4, <2>1, <2>2
  <1>7. Holds(json, pos + 1 - 1, <<c>>)
    <2> DEFINE q == 1
               piece == <<c>>
    <2>1. piece \in Text /\ q \in Nat \ {0} /\ Holds(all, q, piece)
      BY <1>5, <1>6, OneSymbol
    <2> HIDE DEF q, piece
    <2>2. Holds(json, pos + q - 1, piece)
      BY <1>4, <2>1, HoldsWithin DEF all
    <2> QED BY <2>2 DEF q, piece
  <1>8. pos + 1 - 1 = pos
    OBVIOUS
  <1> QED BY <1>5, <1>7, <1>8, HoldsSymbol

LEMMA ValueBegins ==
  ASSUME NEW json \in Text, NEW pos \in Nat \ {0}, NEW value, IsValue(value),
         Holds(json, pos, ValueText(value))
  PROVE  /\ ValueText(value) \in Text /\ ValueKinds(value) /\ pos \in 1 .. Len(json) /\ json[pos] \notin Spaces
         /\ value.kind = "string" => json[pos] = Quote
         /\ value.kind = "scalar" => json[pos] \notin {Quote, OpenBrace, OpenBracket}
         /\ value.kind = "container" => json[pos] \in {OpenBrace, OpenBracket}
  <1>0. \A c \in {Quote, OpenBrace, OpenBracket} : c \notin Spaces
    BY DEF Quote, OpenBrace, OpenBracket, Spaces
  <1>1. CASE value.kind = "string" /\ value.text \in Seq(Nat)
    <2>1. ValueText(value) = JsonEscape(value.text) /\ value.text \in Text
      BY <1>1 DEF ValueText, Text
    <2>2. JsonEscape(value.text) \in Text
      BY <2>1, JsonEscapeIsText
    <2>3. json[pos] = Quote /\ pos \in 1 .. Len(json)
      BY <2>1, EscapedBegins
    <2> QED BY <1>0, <1>1, <2>1, <2>2, <2>3 DEF ValueKinds
  <1>2. CASE value.kind = "scalar" /\ IsScalar(value.text)
    <2> DEFINE t == value.text
    <2>1. ValueText(value) = t /\ t \in Text /\ t # <<>> /\ t \in Seq(Nat)
          /\ t[1] \notin Spaces \cup {Quote, OpenBrace, OpenBracket}
      BY <1>2 DEF ValueText, IsScalar, Text
    <2> HIDE DEF t
    <2>2. Len(t) \in Nat /\ Len(t) >= 1 /\ 1 \in 1 .. Len(t) /\ pos + 1 - 1 = pos /\ Len(json) \in Nat
      BY <2>1, TextParts
    <2>3. json[pos] = t[1] /\ pos \in 1 .. Len(json)
      BY <2>1, <2>2 DEF Holds
    <2> QED BY <1>2, <2>1, <2>3 DEF ValueKinds
  <1>3. CASE value.kind = "container" /\ IsContainer(value.tokens)
    <2>1. ValueText(value) = TokensText(value.tokens)
      BY <1>3 DEF ValueText, TokensText
    <2>2. TokensText(value.tokens) \in Text
      BY <1>3, TokensAreTexts DEF IsContainer
    <2>3. pos \in 1 .. Len(json) /\ json[pos] \in {OpenBrace, OpenBracket}
      BY <1>3, <2>1, ContainerBegins
    <2> QED BY <1>0, <1>3, <2>1, <2>2, <2>3 DEF ValueKinds
  <1> QED BY <1>1, <1>2, <1>3 DEF IsValue

LEMMA ValueIsText == ASSUME NEW value, IsValue(value) PROVE ValueText(value) \in Text
  <1>1. CASE value.kind = "string" /\ value.text \in Seq(Nat)
    <2>1. ValueText(value) = JsonEscape(value.text) /\ value.text \in Text
      BY <1>1 DEF ValueText, Text
    <2> QED BY <2>1, JsonEscapeIsText
  <1>2. CASE value.kind = "scalar" /\ IsScalar(value.text)
    BY <1>2 DEF ValueText, IsScalar, Text
  <1>3. CASE value.kind = "container" /\ IsContainer(value.tokens)
    <2>1. ValueText(value) = TokensText(value.tokens)
      BY <1>3 DEF ValueText, TokensText
    <2> QED BY <1>3, <2>1, TokensAreTexts DEF IsContainer
  <1> QED BY <1>1, <1>2, <1>3 DEF IsValue

Readable(value) == value.kind \in {"string", "scalar"}

\* A member is written from pos to e, and what ends it follows.
MemberAt(json, pos, member, sp, e) ==
  /\ member.key \in Nat /\ IsValue(member.value) /\ AllSpaces(sp)
  /\ Holds(json, pos, MemberText(member, sp))
  /\ e = pos + Len(MemberText(member, sp)) /\ e <= Len(json) /\ json[e] \in {Comma, CloseBrace}

\* What the scan makes of a member is its value, or what comes of the rest.
MemberGives(scan, key, pos, member, e) ==
  scan[<<pos, 0>>] = IF member.key = key /\ Readable(member.value)
                     THEN <<member.value.text>> ELSE scan[<<e, 0>>]

LEMMA MemberIsScanned ==
  ASSUME NEW scan, NEW json \in Text, NEW key, IsScan(scan, json, <<key>>), NEW pos \in Nat \ {0},
         NEW member, NEW sp, NEW e, MemberAt(json, pos, member, sp, e)
  PROVE  MemberGives(scan, key, pos, member, e)
  <1> DEFINE name == <<member.key>>
             k == JsonEscape(name)
             value == member.value
             v == ValueText(value)
             p1 == pos + Len(k)
             p2 == p1 + Len(sp)
             p4 == p2 + 1 + Len(sp)
             p5 == p4 + Len(v)
  <1> /\ member.key \in Nat /\ IsValue(member.value) /\ AllSpaces(sp)
      /\ Holds(json, pos, MemberText(member, sp))
      /\ e = pos + Len(MemberText(member, sp)) /\ e <= Len(json) /\ json[e] \in {Comma, CloseBrace}
    BY DEF MemberAt
  <1>1. name \in Text /\ k \in Text /\ v \in Text /\ sp \in Text
        /\ MemberText(member, sp) = k \o sp \o <<Colon>> \o sp \o v \o sp
    <2>1. name \in Text
      BY OneSymbol
    <2>2. k \in Text
      BY <2>1, JsonEscapeIsText
    <2> QED BY <2>1, <2>2, ValueIsText DEF AllSpaces, MemberText
  <1> HIDE DEF k, v, value
  <1>2. Len(k) \in Nat /\ Len(v) \in Nat /\ Len(sp) \in Nat /\ Len(json) \in Nat
    BY <1>1, TextParts
  <1>3. /\ Len(MemberText(member, sp)) = Len(k) + Len(sp) + 1 + Len(sp) + Len(v) + Len(sp)
        /\ Holds(json, pos, k)
        /\ Holds(json, p1, sp)
        /\ json[p2] = Colon
        /\ Holds(json, p2 + 1, sp)
        /\ Holds(json, p4, v)
        /\ Holds(json, p5, sp)
    <2>1. Holds(json, pos, k \o sp \o <<Colon>> \o sp \o v \o sp)
      BY <1>1
    <2>2. Len(k \o sp \o <<Colon>> \o sp \o v \o sp) = Len(k) + Len(sp) + 1 + Len(sp) + Len(v) + Len(sp)
      BY <1>1, <2>1, MemberParts
    <2>3. Len(MemberText(member, sp)) = Len(k) + Len(sp) + 1 + Len(sp) + Len(v) + Len(sp)
      BY <1>1, <2>2
    <2>4. Holds(json, pos, k) /\ Holds(json, p1, sp) /\ Holds(json, p2 + 1, sp)
      BY <1>1, <2>1, MemberParts
    <2>6. json[p2] = Colon
      <3>1. Holds(json, p2, <<Colon>>)
        BY <1>1, <2>1, MemberParts
      <3>2. p2 \in Nat \ {0} /\ Colon \in Nat
        BY <1>2 DEF Colon
      <3> QED BY <3>1, <3>2, HoldsSymbol
    <2>5. Holds(json, p4, v) /\ Holds(json, p5, sp)
      BY <1>1, <2>1, MemberParts
    <2> HIDE DEF p1, p2, p4, p5
    <2> QED BY <2>3, <2>4, <2>5, <2>6
  <1>4. e = p5 + Len(sp)
    BY <1>2, <1>3
  <1>5. /\ p1 \in Nat \ {0} /\ p2 \in Nat \ {0} /\ p4 \in Nat \ {0, 1} /\ p5 \in Nat \ {0}
        /\ p2 + 1 \in Nat \ {0} /\ p2 <= Len(json) /\ p4 <= Len(json) /\ p5 <= Len(json)
    BY <1>2, <1>4
  <1>6. SkipSpaces(json, p1) = p2
    <2>1. \A j \in 0 .. Len(sp) - 1 : json[p1 + j] \in Spaces
      BY <1>3, <1>5, HeldSpaces
    <2>2. json[p2] \notin Spaces
      BY <1>3 DEF Colon, Spaces
    <2> QED BY <1>2, <1>5, <2>1, <2>2, SpacesAreSkipped
  <1>7. /\ ValueKinds(value) /\ json[p4] \notin Spaces
        /\ value.kind = "string" => json[p4] = Quote
        /\ value.kind = "scalar" => json[p4] \notin {Quote, OpenBrace, OpenBracket}
        /\ value.kind = "container" => json[p4] \in {OpenBrace, OpenBracket}
    BY <1>3, <1>5, ValueBegins DEF v, value
  <1>8. SkipSpaces(json, p2 + 1) = p4
    <2>1. \A j \in 0 .. Len(sp) - 1 : json[p2 + 1 + j] \in Spaces
      <3>1. p2 + 1 \in Nat \ {0} /\ Holds(json, p2 + 1, sp)
        BY <1>3, <1>5
      <3> QED BY <3>1, HeldSpaces, Zenon
    <2>2. p4 = (p2 + 1) + Len(sp)
      BY <1>2, <1>5
    <2> HIDE DEF p1, p2, p4, p5
    <2> QED BY <1>2, <1>5, <1>7, <2>2, <2>1, SpacesAreSkipped
  <1> DEFINE token == [text |-> name, next |-> p1]
  <1>9. Round(json, <<key>>, pos, 0) = AfterColon(json, <<key>>, token, p4, 0)
    <2>1. ReadJsonString(json, pos) = token
      BY <1>1, <1>3, EscapedReads DEF k
    <2>2. json[pos] = Quote /\ pos \in 1 .. Len(json)
      BY <1>1, <1>3, EscapedBegins DEF k
    <2>3. token # Malformed /\ token.next = p1
      BY <1>5 DEF Malformed
    <2> HIDE DEF token
    <2>4. Round(json, <<key>>, pos, 0) = AfterString(json, <<key>>, token, 0)
      BY <1>2, <2>1, <2>2 DEF Round, Quote, OpenBrace, OpenBracket, CloseBrace, CloseBracket
    <2>5. At(json, p2, Colon)
      BY <1>3, <1>5 DEF At
    <2> HIDE DEF p1, p2, p4
    <2> QED BY <1>6, <1>8, <2>3, <2>4, <2>5 DEF AfterString
  <1>10. name = <<key>> <=> member.key = key
    OBVIOUS
  <1> DEFINE rest == ReadValue(json, p4)
  <1>11. ASSUME Readable(value), rest.text = value.text, rest # Malformed,
                scan[<<rest.next, 0>>] = scan[<<e, 0>>]
         PROVE  MemberGives(scan, key, pos, member, e)
    <2>1. ~(At(json, p4, OpenBrace) \/ At(json, p4, OpenBracket))
      BY <1>7, <1>11 DEF At, Readable, Quote, OpenBrace, OpenBracket
    <2> HIDE DEF p1, p2, p4, p5, rest
    <2>2. CASE member.key = key
      <3>1. token.text = <<key>>
        BY <1>10, <2>2
      <3>2. AfterColon(json, <<key>>, token, p4, 0) = Returns(<<rest.text>>)
        <4> HIDE DEF token
        <4> QED BY <1>11, <2>1, <3>1 DEF AfterColon, rest
      <3>3. scan[<<pos, 0>>] = <<rest.text>>
        BY <1>9, <3>2, ScanReturns
      <3> QED BY <1>11, <2>2, <3>3 DEF MemberGives, value
    <2>3. CASE member.key # key
      <3>1. token.text # <<key>>
        BY <1>10, <2>3
      <3>2. AfterColon(json, <<key>>, token, p4, 0) = GoesOn(rest.next, 0)
        <4> HIDE DEF token
        <4> QED BY <1>11, <2>1, <3>1 DEF AfterColon, rest
      <3>3. scan[<<pos, 0>>] = scan[<<rest.next, 0>>]
        BY <1>9, <3>2, ScanGoesOn
      <3> QED BY <1>11, <2>3, <3>3 DEF MemberGives, value
    <2> QED BY <2>2, <2>3
  <1>12. scan[<<p5, 0>>] = scan[<<e, 0>>]
    BY <1>3, <1>4, <1>5, SpacesArePassed
  <1>13. CASE value.kind = "string"
    <2>1. value.text \in Text /\ v = JsonEscape(value.text)
      BY <1>13 DEF IsValue, ValueText, Text, value, v
    <2>2. ReadJsonString(json, p4) = [text |-> value.text, next |-> p5]
      BY <1>3, <1>5, <2>1, EscapedReads
    <2>3. rest = [text |-> value.text, next |-> p5]
      BY <1>5, <1>7, <1>13, <2>2 DEF ReadValue, At
    <2> HIDE DEF rest, p5
    <2>4. rest.text = value.text /\ rest.next = p5 /\ rest # Malformed
      BY <1>5, <2>3 DEF Malformed
    <2> HIDE DEF p1, p2, p4, token
    <2> QED BY <1>11, <1>12, <1>13, <2>4 DEF Readable, value
  <1>14. CASE value.kind = "scalar"
    <2>1. IsScalar(value.text) /\ v = value.text
      BY <1>14 DEF IsValue, ValueText, value, v
    <2>2. ReadScalar(json, p4) = [text |-> value.text, next |-> e]
      <3> DEFINE text == value.text
      <3>1. /\ IsScalar(text) /\ Holds(json, p4, text) /\ Holds(json, p4 + Len(text), sp)
            /\ e = p4 + Len(text) + Len(sp)
        BY <1>3, <1>4, <2>1
      <3>2. e <= Len(json) /\ json[e] \in {Comma, CloseBrace}
        OBVIOUS
      <3>3. p4 \in Nat \ {0, 1}
        BY <1>5
      <3> HIDE DEF text, p4
      <3>4. ReadScalar(json, p4) = [text |-> text, next |-> e]
        BY <3>1, <3>2, <3>3, ScalarIsRead
      <3> QED BY <3>4 DEF text
    <2>3. rest = [text |-> value.text, next |-> e]
      BY <1>7, <1>14, <2>2 DEF ReadValue, At
    <2>4. e # 0
      BY <1>2, <1>4, <1>5
    <2> HIDE DEF rest
    <2>5. rest.text = value.text /\ rest.next = e /\ rest # Malformed
      BY <2>3, <2>4 DEF Malformed
    <2> HIDE DEF p1, p2, p4, p5, token
    <2> QED BY <1>11, <1>14, <2>5 DEF Readable, value
  <1>15. CASE value.kind = "container"
    <2>1. IsContainer(value.tokens) /\ v = TokensText(value.tokens) /\ ~Readable(value)
      BY <1>15 DEF IsValue, ValueText, TokensText, Readable, value, v
    <2>2. At(json, p4, OpenBrace) \/ At(json, p4, OpenBracket)
      BY <1>5, <1>7, <1>15 DEF At
    <2>3. AfterColon(json, <<key>>, token, p4, 0) = GoesOn(p4, 0)
      <3> HIDE DEF token, p4
      <3> QED BY <2>2 DEF AfterColon
    <2>4. scan[<<pos, 0>>] = scan[<<p4, 0>>]
      <3> HIDE DEF token, p4
      <3> QED BY <1>9, <2>3, ScanGoesOn
    <2>5. scan[<<p4, 0>>] = scan[<<p5, 0>>]
      <3> DEFINE tokens == value.tokens
      <3>1. IsContainer(tokens) /\ Holds(json, p4, TokensText(tokens)) /\ p5 = p4 + Len(TokensText(tokens))
        BY <1>3, <2>1
      <3> HIDE DEF tokens, p4, p5
      <3>2. scan[<<p4, 0>>] = scan[<<p4 + Len(TokensText(tokens)), 0>>]
        BY <1>5, <3>1, ContainerIsPassed
      <3> QED BY <3>1, <3>2
    <2> QED BY <1>12, <2>1, <2>4, <2>5 DEF MemberGives, value
  <1> HIDE DEF token, rest, p1, p2, p4, p5
  <1> QED BY <1>7, <1>13, <1>14, <1>15 DEF ValueKinds, value

-----------------------------------------------------------------------------
(* Documents. *)

\* The members that can be read, with keys and values that can be written.
AreMembers(members) ==
  /\ Len(members) \in Nat /\ DOMAIN members = 1 .. Len(members)
  /\ \A i \in 1 .. Len(members) : members[i].key \in Nat /\ IsValue(members[i].value)

LEMMA MemberIsText ==
  ASSUME NEW member, member.key \in Nat, IsValue(member.value), NEW sp \in Text
  PROVE  MemberText(member, sp) \in Text
  <1> DEFINE name == <<member.key>>
             k == JsonEscape(name)
             c == <<Colon>>
             v == ValueText(member.value)
  <1>1. k \in Text /\ c \in Text /\ v \in Text
    <2>1. name \in Text /\ c \in Text
      BY OneSymbol DEF Colon
    <2> HIDE DEF name, c
    <2> QED BY <2>1, JsonEscapeIsText, ValueIsText
  <1>2. MemberText(member, sp) = k \o sp \o c \o sp \o v \o sp
    BY DEF MemberText
  <1> HIDE DEF k, c, v
  <1>3. k \o sp \in Text
    BY <1>1, ConcatTexts
  <1>4. k \o sp \o c \in Text
    BY <1>1, <1>3, ConcatTexts
  <1>5. k \o sp \o c \o sp \in Text
    BY <1>4, ConcatTexts
  <1>6. k \o sp \o c \o sp \o v \in Text
    BY <1>1, <1>5, ConcatTexts
  <1>7. k \o sp \o c \o sp \o v \o sp \in Text
    BY <1>6, ConcatTexts
  <1> QED BY <1>2, <1>7

EmptyText == <<>>

LEMMA EmptyConcat == ASSUME NEW t \in Text PROVE EmptyText \o t = t /\ EmptyText \in Text
  <1>1. t \in Seq(Nat) /\ <<>> \in Seq(Nat)
    BY DEF Text
  <1> QED BY <1>1 DEF EmptyText, Text

Piece(members, sp, i) == (IF i = 1 THEN <<>> ELSE <<Comma>>) \o MemberText(members[i], sp)

LEMMA PiecesAre ==
  ASSUME NEW members, AreMembers(members), NEW sp \in Text, NEW i \in 1 .. Len(members)
  PROVE  /\ MemberText(members[i], sp) \in Text
         /\ Piece(members, sp, i) \in Text
         /\ i = 1 => Piece(members, sp, i) = MemberText(members[i], sp)
         /\ i # 1 => Piece(members, sp, i) = <<Comma>> \o MemberText(members[i], sp)
  <1>1. MemberText(members[i], sp) \in Text
    BY MemberIsText DEF AreMembers
  <1>2. <<Comma>> \in Text
    BY OneSymbol DEF Comma
  <1> DEFINE m == MemberText(members[i], sp)
  <1> HIDE DEF m
  <1>3. <<Comma>> \o m \in Text /\ EmptyText \o m = m
    BY <1>1, <1>2, ConcatTexts, EmptyConcat DEF m
  <1> QED BY <1>1, <1>3 DEF Piece, EmptyText, m

Pieces(members, sp) == [i \in DOMAIN members |-> Piece(members, sp, i)]

LEMMA SeparatedIsText ==
  ASSUME NEW members, AreMembers(members), NEW sp \in Text
  PROVE  /\ Pieces(members, sp) \in Seq(Text) /\ Len(Pieces(members, sp)) = Len(members)
         /\ \A i \in 1 .. Len(members) : Pieces(members, sp)[i] = Piece(members, sp, i)
         /\ Separated(members, sp) = FlattenSeq(Pieces(members, sp))
         /\ Separated(members, sp) \in Text
  <1> DEFINE pieces == Pieces(members, sp)
  <1>1. Len(members) \in Nat /\ DOMAIN members = 1 .. Len(members)
    BY DEF AreMembers
  <1>2. \A i \in 1 .. Len(members) : Piece(members, sp, i) \in Text
    BY PiecesAre
  <1>3. pieces \in Seq(Text) /\ Len(pieces) = Len(members)
        /\ \A i \in 1 .. Len(members) : pieces[i] = Piece(members, sp, i)
    BY <1>1, <1>2 DEF Pieces
  <1>4. Separated(members, sp) = FlattenSeq(pieces)
    BY DEF Separated, Pieces, Piece
  <1> HIDE DEF pieces
  <1>5. FlattenSeq(pieces) \in Text
    BY <1>3, FlatHolds
  <1> QED BY <1>3, <1>4, <1>5 DEF pieces

\* The members from i on that have the key and a value that is given as text.
Hits(members, key, i) ==
  {j \in i .. Len(members) : members[j].key = key /\ Readable(members[j].value)}

Result(members, key, i) ==
  IF Hits(members, key, i) = {} THEN NoField
  ELSE <<members[Min(Hits(members, key, i))].value.text>>

LEMMA ResultFrom ==
  ASSUME NEW members, AreMembers(members), NEW key, NEW i \in 1 .. Len(members)
  PROVE  Result(members, key, i) =
           IF members[i].key = key /\ Readable(members[i].value)
           THEN <<members[i].value.text>> ELSE Result(members, key, i + 1)
  <1> DEFINE n == Len(members)
             H == Hits(members, key, i)
  <1>1. n \in Nat /\ i \in Nat
    BY DEF AreMembers
  <1>2. CASE members[i].key = key /\ Readable(members[i].value)
    <2>1. i \in H /\ \A j \in H : j \in Nat /\ i <= j
      BY <1>1, <1>2 DEF Hits
    <2> HIDE DEF H
    <2>2. H \in SUBSET Nat /\ H # {}
      BY <2>1
    <2> DEFINE least == Min(H)
    <2>3. least \in H /\ least <= i
      BY <2>1, <2>2, MinIsLeast
    <2> HIDE DEF least
    <2>4. least = i
      BY <1>1, <2>1, <2>3
    <2> QED BY <1>2, <2>2, <2>4 DEF Result, H, least
  <1>3. CASE ~(members[i].key = key /\ Readable(members[i].value))
    <2>1. H = Hits(members, key, i + 1)
      BY <1>1, <1>3 DEF Hits
    <2> QED BY <1>3, <2>1 DEF Result
  <1> QED BY <1>2, <1>3

\* After a member comes a comma or the closing brace.
LEMMA MembersAreScanned ==
  ASSUME NEW scan, NEW json \in Text, NEW key, IsScan(scan, json, <<key>>), NEW start \in Nat \ {0},
         NEW members, AreMembers(members), NEW sp, AllSpaces(sp),
         Holds(json, start, Separated(members, sp)),
         start + Len(Separated(members, sp)) <= Len(json),
         json[start + Len(Separated(members, sp))] = CloseBrace
  PROVE  scan[<<start, 0>>] = Result(members, key, 1)
  <1> DEFINE n == Len(members)
             pieces == Pieces(members, sp)
             all == Separated(members, sp)
             Res(i) == Result(members, key, i)
             name == <<key>>
  <1>0. IsScan(scan, json, name)
    OBVIOUS
  <1> HIDE DEF name
  <1>1. /\ n \in Nat /\ sp \in Text /\ Len(json) \in Nat
        /\ pieces \in Seq(Text) /\ Len(pieces) = n
        /\ \A i \in 1 .. n : pieces[i] = Piece(members, sp, i)
        /\ all = FlattenSeq(pieces) /\ all \in Text
    <2>1. n \in Nat /\ sp \in Text /\ Len(json) \in Nat
      BY TextParts DEF AreMembers, AllSpaces
    <2> QED BY <2>1, SeparatedIsText
  <1> HIDE DEF pieces, all
  <1>2. PICK off \in [0 .. n -> Nat] :
          /\ off[0] = 0 /\ off[n] = Len(all)
          /\ \A i \in 1 .. n : /\ off[i] = off[i - 1] + Len(pieces[i])
                               /\ Holds(all, off[i - 1] + 1, pieces[i])
    BY <1>1, FlatHolds
  <1>3. ASSUME NEW i \in 1 .. n
        PROVE  /\ off[i] \in Nat /\ off[i - 1] \in Nat /\ off[i] = off[i - 1] + Len(pieces[i])
               /\ pieces[i] \in Text /\ Len(pieces[i]) \in Nat
               /\ Holds(json, start + off[i - 1], pieces[i])
    <2>1. i \in 0 .. n /\ i - 1 \in 0 .. n /\ pieces[i] \in Text
      BY <1>1
    <2>2. off[i] \in Nat /\ off[i - 1] \in Nat /\ Len(pieces[i]) \in Nat
      BY <2>1, TextParts
    <2> DEFINE q == off[i - 1] + 1
               piece == pieces[i]
    <2>3. q \in Nat \ {0} /\ piece \in Text /\ Holds(all, q, piece) /\ start + q - 1 = start + off[i - 1]
      <3>1. q \in Nat \ {0} /\ start + q - 1 = start + off[i - 1]
        BY <2>2
      <3>2. Holds(all, q, piece)
        BY <1>2
      <3> QED BY <2>1, <3>1, <3>2
    <2>4. Holds(json, start, all)
      BY DEF all
    <2> HIDE DEF q, piece
    <2>5. Holds(json, start + q - 1, piece)
      BY <1>1, <2>3, <2>4, HoldsWithin
    <2> QED BY <1>2, <2>1, <2>2, <2>3, <2>5 DEF piece
  <1>4. <<Comma>> \in Text /\ Len(<<Comma>>) = 1 /\ Comma \in Nat
    BY OneSymbol DEF Comma
  \* Where a member begins, past the comma.
  <1>5. ASSUME NEW i \in 1 .. n
        PROVE  \E q \in Nat \ {0} :
                 /\ scan[<<start + off[i - 1], 0>>] = scan[<<q, 0>>]
                 /\ Holds(json, q, MemberText(members[i], sp))
                 /\ start + off[i] = q + Len(MemberText(members[i], sp))
                 /\ i # 1 => json[start + off[i - 1]] = Comma
                             /\ start + off[i - 1] <= Len(json)
    <2> DEFINE p == start + off[i - 1]
               m == MemberText(members[i], sp)
    <2>1. /\ p \in Nat \ {0} /\ m \in Text /\ Len(m) \in Nat /\ Holds(json, p, pieces[i])
          /\ start + off[i] = p + Len(pieces[i])
      <3>1. m \in Text
        BY <1>1, PiecesAre
      <3>2. Len(m) \in Nat
        BY <3>1, TextParts
      <3>3. off[i] = off[i - 1] + Len(pieces[i]) /\ off[i - 1] \in Nat /\ Len(pieces[i]) \in Nat
        BY <1>3
      <3>4. p \in Nat \ {0} /\ start + off[i] = p + Len(pieces[i])
        BY <3>3
      <3>5. Holds(json, p, pieces[i])
        BY <1>3
      <3> QED BY <3>1, <3>2, <3>4, <3>5
    <2>2. CASE i = 1
      <3>1. pieces[i] = m
        BY <1>1, <2>2, PiecesAre
      <3> HIDE DEF p, m
      <3> QED BY <2>1, <2>2, <3>1 DEF p, m
    <2>3. CASE i # 1
      <3>1. pieces[i] = <<Comma>> \o m
        BY <1>1, <2>3, PiecesAre
      <3> HIDE DEF m
      <3>2. Len(<<Comma>> \o m) = 1 + Len(m)
        BY <1>4, <2>1, ConcatTexts
      <3> HIDE DEF p
      <3>3. Holds(json, p, <<Comma>>) /\ Holds(json, p + 1, m)
        <4> DEFINE c == <<Comma>>
        <4>1. c \in Text /\ Len(c) = 1 /\ Holds(json, p, c \o m)
          BY <1>4, <2>1, <3>1
        <4> HIDE DEF c
        <4>2. Holds(json, p, c) /\ Holds(json, p + Len(c), m)
          BY <2>1, <4>1, HoldsConcat
        <4> QED BY <4>1, <4>2 DEF c
      <3>4. json[p] = Comma /\ p \in 1 .. Len(json)
        BY <1>4, <2>1, <3>3, HoldsSymbol
      <3>5. json[p] # Quote /\ json[p] # CloseBrace /\ 0 + Deeper(Mark(json[p])) = 0
        BY <3>4 DEF Comma, Quote, CloseBrace, CloseBracket, OpenBrace, OpenBracket, Deeper, Mark
      <3>6. scan[<<p, 0>>] = scan[<<p + 1, 0 + Deeper(Mark(json[p]))>>]
        BY <1>0, <3>4, <3>5, MarkIsPassed
      <3>7. scan[<<p, 0>>] = scan[<<p + 1, 0>>]
        BY <3>5, <3>6
      <3>8. p + 1 \in Nat \ {0} /\ start + off[i] = (p + 1) + Len(m) /\ p <= Len(json)
        BY <1>1, <2>1, <3>1, <3>2, <3>4
      <3>9. \E q \in Nat \ {0} :
              /\ scan[<<p, 0>>] = scan[<<q, 0>>] /\ Holds(json, q, m)
              /\ start + off[i] = q + Len(m)
              /\ i # 1 => json[p] = Comma /\ p <= Len(json)
        BY <3>3, <3>4, <3>7, <3>8
      <3> QED BY <3>9 DEF p, m
    <2> QED BY <2>2, <2>3
  <1>6. ASSUME NEW i \in 1 .. n
        PROVE  start + off[i] <= Len(json) /\ json[start + off[i]] \in {Comma, CloseBrace}
    <2>1. CASE i = n
      BY <1>2, <2>1 DEF all
    <2>2. CASE i # n
      <3>1. i + 1 \in 1 .. n /\ (i + 1) - 1 = i /\ i + 1 # 1
        BY <1>1, <2>2
      <3> QED BY <1>5, <3>1
    <2> QED BY <2>1, <2>2
  <1>7. ASSUME NEW i \in 1 .. n, scan[<<start + off[i], 0>>] = Res(i + 1)
        PROVE  scan[<<start + off[i - 1], 0>>] = Res(i)
    <2>1. PICK q \in Nat \ {0} :
                 /\ scan[<<start + off[i - 1], 0>>] = scan[<<q, 0>>]
                 /\ Holds(json, q, MemberText(members[i], sp))
                 /\ start + off[i] = q + Len(MemberText(members[i], sp))
      BY <1>5
    <2> DEFINE member == members[i]
               e == start + off[i]
    <2>2. member.key \in Nat /\ IsValue(member.value)
      BY DEF AreMembers
    <2>3. e <= Len(json) /\ json[e] \in {Comma, CloseBrace} /\ e = q + Len(MemberText(member, sp))
          /\ Holds(json, q, MemberText(member, sp))
      BY <1>6, <2>1
    <2> HIDE DEF member, e
    <2>4. MemberAt(json, q, member, sp, e)
      BY <2>2, <2>3 DEF MemberAt
    <2>5. MemberGives(scan, key, q, member, e)
      BY <2>4, MemberIsScanned, Zenon
    <2>6. scan[<<e, 0>>] = Result(members, key, i + 1)
      BY <1>7 DEF e
    <2>7. Result(members, key, i) = IF member.key = key /\ Readable(member.value)
                                    THEN <<member.value.text>> ELSE Result(members, key, i + 1)
      BY ResultFrom, Zenon DEF member
    <2>8. scan[<<q, 0>>] = Result(members, key, i)
      BY <2>5, <2>6, <2>7 DEF MemberGives
    <2> QED BY <2>1, <2>8
  <1> DEFINE P == {k \in Nat : k <= n => scan[<<start + off[n - k], 0>>] = Res(n - k + 1)}
  <1>8. 0 \in P
    <2> DEFINE e == start + Len(all)
    <2>1. n - 0 = n /\ n - 0 + 1 = n + 1 /\ start + off[n] = e /\ e \in Nat /\ ~(e > Len(json))
      <3>1. Len(all) \in Nat
        BY <1>1, TextParts
      <3> QED BY <1>1, <1>2, <3>1 DEF all
    <2>2. json[e] = CloseBrace
      BY DEF all
    <2> HIDE DEF e
    <2>3. Round(json, <<key>>, e, 0) = Returns(NoField)
      BY <2>2 DEF Round
    <2>4. scan[<<e, 0>>] = NoField
      BY <2>1, <2>3, ScanReturns
    <2>5. Res(n + 1) = NoField
      <3>1. Hits(members, key, n + 1) = {}
        BY <1>1 DEF Hits
      <3> QED BY <3>1 DEF Result
    <2> HIDE DEF Res
    <2> QED BY <2>1, <2>4, <2>5
  <1>9. ASSUME NEW k \in Nat, k \in P PROVE k + 1 \in P
    <2> HIDE DEF Res
    <2> SUFFICES ASSUME k + 1 <= n
                 PROVE  scan[<<start + off[n - (k + 1)], 0>>] = Res(n - (k + 1) + 1)
      OBVIOUS
    <2> DEFINE i == n - k
    <2>1. i \in 1 .. n /\ n - (k + 1) = i - 1 /\ n - (k + 1) + 1 = i
      BY <1>1
    <2>2. scan[<<start + off[i], 0>>] = Res(i + 1)
      BY <1>1, <1>9
    <2> HIDE DEF i
    <2>3. scan[<<start + off[i - 1], 0>>] = Res(i)
      BY <1>7, <2>1, <2>2
    <2> QED BY <2>1, <2>3
  <1>10. n \in P
    <2> HIDE DEF P
    <2> QED BY <1>1, <1>8, <1>9, Induction
  <1>11. scan[<<start + off[n - n], 0>>] = Res(n - n + 1)
    <2> HIDE DEF Res
    <2> QED BY <1>1, <1>10
  <1>12. n - n = 0 /\ n - n + 1 = 1 /\ start + off[0] = start
    BY <1>1, <1>2
  <1> QED BY <1>11, <1>12

LEMMA DocumentParts ==
  ASSUME NEW sp \in Text, NEW body \in Text
  PROVE  LET json == sp \o <<OpenBrace>> \o body \o <<CloseBrace>> \o sp
         IN  /\ json \in Text /\ Len(json) = Len(sp) + 1 + Len(body) + 1 + Len(sp)
             /\ Holds(json, 1, sp)
             /\ Holds(json, Len(sp) + 1, <<OpenBrace>>)
             /\ Holds(json, Len(sp) + 2, body)
             /\ Holds(json, Len(sp) + 2 + Len(body), <<CloseBrace>>)
  <1> DEFINE o == <<OpenBrace>>
             c == <<CloseBrace>>
             m1 == sp \o o
             m2 == m1 \o body
             m3 == m2 \o c
             json == m3 \o sp
  <1>0. o \in Text /\ Len(o) = 1 /\ c \in Text /\ Len(c) = 1 /\ Len(sp) \in Nat /\ Len(body) \in Nat
    BY OneSymbol, TextParts DEF OpenBrace, CloseBrace
  <1> HIDE DEF o, c
  <1>1. m1 \in Text /\ Len(m1) = Len(sp) + 1
    <2>1. m1 \in Text /\ Len(m1) = Len(sp) + Len(o)
      BY <1>0, ConcatTexts
    <2> QED BY <1>0, <2>1
  <1> HIDE DEF m1
  <1>2. m2 \in Text /\ Len(m2) = Len(sp) + 1 + Len(body)
    <2>1. m2 \in Text /\ Len(m2) = Len(m1) + Len(body)
      BY <1>1, ConcatTexts
    <2> QED BY <1>1, <2>1
  <1> HIDE DEF m2
  <1>3. m3 \in Text /\ Len(m3) = Len(sp) + 1 + Len(body) + 1
    <2>1. m3 \in Text /\ Len(m3) = Len(m2) + Len(c)
      BY <1>0, <1>2, ConcatTexts
    <2> QED BY <1>0, <1>2, <2>1
  <1> HIDE DEF m3
  <1>4. json \in Text /\ Len(json) = Len(sp) + 1 + Len(body) + 1 + Len(sp)
    <2>1. json \in Text /\ Len(json) = Len(m3) + Len(sp)
      BY <1>3, ConcatTexts
    <2> QED BY <1>0, <1>3, <2>1
  <1>5. Holds(json, 1, json)
    <2> HIDE DEF json
    <2>1. Len(json) \in Nat /\ \A j \in 1 .. Len(json) : 1 + j - 1 = j
      BY <1>4, TextParts
    <2> QED BY <2>1 DEF Holds
  <1> DEFINE whole == json
  <1>6. Holds(whole, 1, m3)
    <2> HIDE DEF whole
    <2>1. Holds(whole, 1, m3 \o sp)
      BY <1>5 DEF whole
    <2> QED BY <1>3, <1>4, <2>1, HoldsConcat DEF whole
  <1> HIDE DEF whole
  <1>w. whole \in Text
    BY <1>4 DEF whole
  <1>7. Holds(whole, 1, m2) /\ Holds(whole, 1 + Len(m2), c)
    <2>1. Holds(whole, 1, m2 \o c)
      BY <1>6 DEF m3
    <2>2. 1 \in Nat \ {0}
      OBVIOUS
    <2> DEFINE one == 1
    <2> HIDE DEF one
    <2>3. Holds(whole, one, m2) /\ Holds(whole, one + Len(m2), c)
      BY <1>0, <1>2, <1>w, <2>1, <2>2, HoldsConcat DEF one
    <2> QED BY <2>3 DEF one
  <1>8. Holds(whole, 1, m1) /\ Holds(whole, 1 + Len(m1), body)
    BY <1>1, <1>7, <1>w, HoldsConcat DEF m2
  <1>9. Holds(whole, 1, sp) /\ Holds(whole, 1 + Len(sp), o)
    BY <1>0, <1>8, <1>w, HoldsConcat DEF m1
  <1>10. 1 + Len(m2) = Len(sp) + 2 + Len(body) /\ 1 + Len(m1) = Len(sp) + 2 /\ 1 + Len(sp) = Len(sp) + 1
    BY <1>0, <1>1, <1>2
  <1>11. whole = sp \o <<OpenBrace>> \o body \o <<CloseBrace>> \o sp
    BY DEF whole, m3, m2, m1, o, c
  <1>12. Len(whole) = Len(sp) + 1 + Len(body) + 1 + Len(sp)
    BY <1>4 DEF whole
  <1> QED BY <1>w, <1>7, <1>8, <1>9, <1>10, <1>11, <1>12 DEF o, c

\* The scanner finds what the first member with the key says, in any document that
\* is written member by member, whatever the texts and the containers hold: a key
\* that a string or a container mentions is passed over (json_util.cpp:131-222).
THEOREM FieldFound ==
  ASSUME NEW members, NEW text \in Text, IsDocument(text, members), NEW key
  PROVE  ExtractJsonStringField(text, <<key>>) =
           IF FieldOf(members, key) = <<>> THEN NoField ELSE <<FieldOf(members, key)[1].text>>
  <1>1. AreMembers(members)
    BY DEF IsDocument, AreMembers
  <1>2. PICK n \in 0 .. Len(text) : /\ \A i \in 1 .. n : text[i] \in Spaces
                                    /\ text = Document(members, SubSeq(text, 1, n))
    BY DEF IsDocument
  <1> DEFINE sp == SubSeq(text, 1, n)
             body == Separated(members, sp)
  <1>3. sp \in Text /\ AllSpaces(sp) /\ Len(sp) = n /\ n \in Nat /\ n <= Len(text) /\ Len(text) \in Nat
    <2>1. n \in Nat /\ n <= Len(text) /\ text \in Seq(Nat) /\ Len(text) \in Nat
      BY TextParts DEF Text
    <2>2. sp \in Seq(Nat) /\ Len(sp) = n /\ \A i \in 1 .. n : sp[i] = text[i]
      BY <2>1
    <2> HIDE DEF sp
    <2> QED BY <1>2, <2>1, <2>2 DEF AllSpaces, Text
  <1> HIDE DEF sp
  <1>4. body \in Text
    BY <1>1, <1>3, SeparatedIsText
  <1> HIDE DEF body
  <1>5. text = sp \o <<OpenBrace>> \o body \o <<CloseBrace>> \o sp
    BY <1>2 DEF Document, sp, body
  <1>6. /\ Len(text) = n + 1 + Len(body) + 1 + n
        /\ Holds(text, 1, sp)
        /\ Holds(text, n + 1, <<OpenBrace>>)
        /\ Holds(text, n + 2, body)
        /\ Holds(text, n + 2 + Len(body), <<CloseBrace>>)
    BY <1>3, <1>4, <1>5, DocumentParts
  <1>7. Len(body) \in Nat
    BY <1>4, TextParts
  <1>8. text[n + 1] = OpenBrace /\ text[n + 2 + Len(body)] = CloseBrace
    <2>1. n + 1 \in Nat \ {0} /\ n + 2 + Len(body) \in Nat \ {0} /\ OpenBrace \in Nat /\ CloseBrace \in Nat
      BY <1>3, <1>7 DEF OpenBrace, CloseBrace
    <2> QED BY <1>6, <2>1, HoldsSymbol
  <1>9. FirstAt(text, 1, {OpenBrace}) = n + 1
    <2>1. n + 1 \in 1 .. Len(text) /\ text[n + 1] \in {OpenBrace}
      BY <1>3, <1>6, <1>7, <1>8
    <2>2. \A p \in 1 .. (n + 1) - 1 : text[p] \notin {OpenBrace}
      <3>1. OpenBrace \notin Spaces
        BY DEF OpenBrace, Spaces
      <3> QED BY <1>2, <1>3, <3>1
    <2> QED BY <2>1, <2>2, FirstIs
  <1> DEFINE name == <<key>>
  <1>10. PICK scan : IsScan(scan, text, name)
                     /\ ExtractJsonStringField(text, name) = scan[<<(n + 1) + 1, 0>>]
    BY <1>9, DocumentIsScanned DEF IsScan
  <1>11. scan[<<n + 2, 0>>] = Result(members, key, 1)
    <2>1. n + 2 \in Nat \ {0} /\ n + 2 + Len(body) <= Len(text)
      BY <1>3, <1>6, <1>7
    <2>2. Holds(text, n + 2, Separated(members, sp))
      BY <1>6 DEF body
    <2>3. n + 2 + Len(Separated(members, sp)) <= Len(text)
          /\ text[n + 2 + Len(Separated(members, sp))] = CloseBrace
      BY <1>8, <2>1 DEF body
    <2> DEFINE start == n + 2
    <2>4. /\ start \in Nat \ {0} /\ Holds(text, start, Separated(members, sp))
          /\ start + Len(Separated(members, sp)) <= Len(text)
          /\ text[start + Len(Separated(members, sp))] = CloseBrace
      BY <2>1, <2>2, <2>3
    <2> HIDE DEF start
    <2>5. scan[<<start, 0>>] = Result(members, key, 1)
      BY <1>1, <1>3, <1>10, <2>4, MembersAreScanned
    <2> QED BY <2>5 DEF start
  <1>12. (n + 1) + 1 = n + 2
    BY <1>3
  <1> DEFINE hits == {i \in DOMAIN members :
                        members[i].key = key /\ members[i].value.kind \in {"string", "units", "scalar"}}
  <1>13. hits = Hits(members, key, 1)
    <2>1. DOMAIN members = 1 .. Len(members)
      BY <1>1 DEF AreMembers
    <2>2. \A i \in 1 .. Len(members) : members[i].value.kind # "units"
      BY <1>1 DEF AreMembers, IsValue
    <2> QED BY <2>1, <2>2 DEF Hits, Readable
  <1>14. FieldOf(members, key) = IF hits = {} THEN <<>> ELSE <<members[Min(hits)].value>>
    BY DEF FieldOf
  <1> HIDE DEF hits
  <1>15. Result(members, key, 1) =
           IF FieldOf(members, key) = <<>> THEN NoField ELSE <<FieldOf(members, key)[1].text>>
    BY <1>13, <1>14 DEF Result
  <1> QED BY <1>10, <1>11, <1>12, <1>15

-----------------------------------------------------------------------------
(* The columns show what was logged. *)

Column(payload, key, otherwise) ==
  IF payload = <<>> THEN NoField ELSE EitherField(payload[1], key, otherwise)

\* What a field says is its text: no value is given in UTF-16.
LEMMA FieldSays ==
  ASSUME NEW members, AreMembers(members), NEW key, FieldOf(members, key) # <<>>
  PROVE  /\ FieldOf(members, key)[1].kind # "units"
         /\ Len(FieldOf(members, key)) = 1
  <1> DEFINE hits == {i \in DOMAIN members :
                        members[i].key = key /\ members[i].value.kind \in {"string", "units", "scalar"}}
             least == Min(hits)
  <1>1. FieldOf(members, key) = <<members[least].value>> /\ hits # {}
    BY DEF FieldOf
  <1>2. least \in 1 .. Len(members)
    <2>1. hits \in SUBSET Nat /\ hits \subseteq 1 .. Len(members)
      BY DEF AreMembers
    <2> HIDE DEF hits
    <2> QED BY <1>1, <2>1, MinIsLeast
  <1> HIDE DEF least
  <1>3. members[least].value.kind # "units"
    BY <1>2 DEF AreMembers, IsValue
  <1>4. <<members[least].value>>[1] = members[least].value /\ Len(<<members[least].value>>) = 1
    OBVIOUS
  <1> QED BY <1>1, <1>3, <1>4

LEMMA DocumentSays ==
  ASSUME NEW members, NEW text \in Text, IsDocument(text, members), NEW key, NEW otherwise
  PROVE  Shows(EitherField(text, key, otherwise), members, key, otherwise)
  <1> DEFINE Text1(k) == IF FieldOf(members, k) = <<>> THEN NoField ELSE <<FieldOf(members, k)[1].text>>
             k == IF FieldOf(members, key) # <<>> THEN key ELSE otherwise
             field == FieldOf(members, k)
  <1>1. AreMembers(members)
    BY DEF IsDocument, AreMembers
  <1>2. /\ ExtractJsonStringField(text, <<key>>) = Text1(key)
        /\ ExtractJsonStringField(text, <<otherwise>>) = Text1(otherwise)
    BY FieldFound
  <1>3. \A x : <<x>> # NoField
    BY DEF NoField
  <1>4. EitherField(text, key, otherwise) = Text1(k)
    BY <1>2, <1>3 DEF EitherField, OrElse
  <1>5. Shows(Text1(k), members, key, otherwise) <=>
          Len(Text1(k)) = Len(field) /\ (field # <<>> => Says(field[1], Text1(k)[1]))
    BY DEF Shows
  <1> HIDE DEF k
  <1>6. CASE field = <<>>
    BY <1>4, <1>5, <1>6 DEF NoField
  <1>7. CASE field # <<>>
    <2>1. field[1].kind # "units" /\ Len(field) = 1
      BY <1>1, <1>7, FieldSays
    <2>2. Text1(k) = <<field[1].text>> /\ Len(Text1(k)) = 1 /\ Text1(k)[1] = field[1].text
      BY <1>7
    <2>3. Says(field[1], Text1(k)[1])
      BY <2>1, <2>2 DEF Says
    <2> HIDE DEF field, Text1
    <2> QED BY <1>4, <1>5, <2>1, <2>2, <2>3
  <1> QED BY <1>6, <1>7

LEMMA ColumnShows ==
  ASSUME NEW l \in Logs, NEW i \in 1 .. Len(l), WellLogged(l[i]), NEW key, NEW otherwise
  PROVE  Shows(Column(PayloadOf(FromReader, l[i]), key, otherwise), l[i].logged, key, otherwise)
  <1> DEFINE m == l[i]
             payload == PayloadOf(FromReader, m)
  <1>1. CASE payload = <<>>
    <2>1. m.logged = <<>>
      BY <1>1 DEF WellLogged
    <2>2. \A k : FieldOf(<<>>, k) = <<>>
      <3>1. DOMAIN <<>> = {}
        OBVIOUS
      <3> QED BY <3>1 DEF FieldOf
    <2>3. Column(payload, key, otherwise) = <<>>
      BY <1>1 DEF Column, NoField
    <2> QED BY <2>1, <2>2, <2>3 DEF Shows
  <1>2. CASE payload # <<>>
    <2>1. payload[1] \in Text
      BY <1>2, PayloadsAreTexts
    <2>2. IsDocument(payload[1], m.logged)
      BY <1>2 DEF WellLogged
    <2>3. Column(payload, key, otherwise) = EitherField(payload[1], key, otherwise)
      BY <1>2 DEF Column
    <2> HIDE DEF payload, m
    <2>4. Shows(EitherField(payload[1], key, otherwise), m.logged, key, otherwise)
      BY <2>1, <2>2, DocumentSays
    <2> QED BY <2>3, <2>4 DEF payload, m
  <1> QED BY <1>1, <1>2

LEMMA ColumnIsFound ==
  ASSUME NEW l \in Logs, NEW i \in 1 .. Len(l), NEW key, NEW otherwise
  PROVE  Column(PayloadOf(FromReader, l[i]), key, otherwise) \in Found
  <1> DEFINE payload == PayloadOf(FromReader, l[i])
  <1>1. payload # <<>> => payload[1] \in Text
    BY PayloadsAreTexts
  <1> HIDE DEF payload
  <1>2. Column(payload, key, otherwise) \in Found
    <2>1. CASE payload = <<>>
      BY <2>1 DEF Column, Found
    <2>2. CASE payload # <<>>
      BY <1>1, <2>2, FieldIsRead DEF Column, EitherField, OrElse
    <2> QED BY <2>1, <2>2
  <1> QED BY <1>2 DEF payload

\* No name of a severity is a number.
LEMMA NamesAreNoNumbers == \A raw \in DOMAIN SeverityNames : SeverityNames[raw] \notin DOMAIN SeverityNames
  <1>1. DOMAIN SeverityNames = {<<Number(n)>> : n \in {10, 20, 30, 40, 50}}
    BY DEF SeverityNames
  <1>2. ASSUME NEW raw \in DOMAIN SeverityNames PROVE SeverityNames[raw] \notin DOMAIN SeverityNames
    <2> DEFINE name == SeverityNames[raw]
    <2>1. name \in {<<DEBUG>>, <<INFO>>, <<WARN>>, <<ERROR>>, <<FATAL>>}
      BY NamesAreListed
    <2> HIDE DEF name
    <2>2. \A n \in {10, 20, 30, 40, 50} : Number(n) \notin {DEBUG, INFO, WARN, ERROR, FATAL}
      BY DEF Number, DEBUG, INFO, WARN, ERROR, FATAL
    <2>3. PICK w \in {DEBUG, INFO, WARN, ERROR, FATAL} : name = <<w>>
      BY <2>1
    <2>4. ASSUME NEW n \in {10, 20, 30, 40, 50} PROVE name # <<Number(n)>>
      <3>1. <<w>>[1] = w /\ <<Number(n)>>[1] = Number(n)
        OBVIOUS
      <3> QED BY <2>2, <2>3, <3>1
    <2> QED BY <1>1, <2>4 DEF name
  <1> QED BY <1>2

\* The severity is the one of the message or its name, and never one of the numbers.
LEMMA SeverityShows ==
  ASSUME NEW raw \in Found, NEW members, Shows(raw, members, Severity, Level)
  PROVE  LET severity == MapSeverity(raw)
             named == {r \in DOMAIN SeverityNames : severity = <<SeverityNames[r]>>}
         IN  /\ \/ Shows(severity, members, Severity, Level)
                \/ \E r \in named : Shows(<<r>>, members, Severity, Level)
             /\ severity \notin {<<r>> : r \in DOMAIN SeverityNames}
  <1>1. CASE raw # NoField /\ raw[1] \in DOMAIN SeverityNames
    <2> DEFINE r == raw[1]
    <2>1. raw = <<r>> /\ MapSeverity(raw) = <<SeverityNames[r]>> /\ r \in DOMAIN SeverityNames
      BY <1>1 DEF Found, MapSeverity
    <2>2. SeverityNames[r] \notin DOMAIN SeverityNames
      BY <2>1, NamesAreNoNumbers
    <2> HIDE DEF r
    <2>3. ASSUME NEW x \in DOMAIN SeverityNames PROVE <<SeverityNames[r]>> # <<x>>
      <3>1. <<SeverityNames[r]>>[1] = SeverityNames[r] /\ <<x>>[1] = x
        OBVIOUS
      <3> QED BY <2>2, <3>1
    <2> QED BY <2>1, <2>3
  <1>2. CASE ~(raw # NoField /\ raw[1] \in DOMAIN SeverityNames)
    <2>1. MapSeverity(raw) = raw
      BY <1>2 DEF MapSeverity
    <2>2. ASSUME NEW x \in DOMAIN SeverityNames PROVE raw # <<x>>
      <3>1. <<x>>[1] = x /\ <<x>> # NoField
        BY DEF NoField
      <3> QED BY <1>2, <3>1
    <2> QED BY <2>1, <2>2
  <1> QED BY <1>1, <1>2

\* The row of a message, given the channels of the file.
RowMade(l, channels, k) ==
  [of |-> k, timestamp |-> ToTimestampNs(l[k].time),
   severity |-> MapSeverity(Column(PayloadOf(channels, l[k]), Severity, Level)),
   node |-> Column(PayloadOf(channels, l[k]), Node, Name),
   message |-> Column(PayloadOf(channels, l[k]), Message, Msg)]

LEMMA RowIsMade == ASSUME NEW k PROVE RowOf(k) = RowMade(log, cache, k)
  BY DEF RowOf, RowMade, Column

ShownInv ==
  /\ TypeOK
  /\ phase = "scan" => cache = FromReader
  /\ phase # "scan" => output = <<>>
  /\ \A i \in 1 .. Len(output) : /\ output[i].of \in 1 .. Len(log)
                                 /\ output[i] = RowMade(log, FromReader, output[i].of)

LEMMA RowsShow == ShownInv => ((\A k \in 1 .. Len(log) : WellLogged(log[k])) => LoggedIsShown)
  <1> SUFFICES ASSUME ShownInv, \A k \in 1 .. Len(log) : WellLogged(log[k]), NEW i \in DOMAIN output
               PROVE  LET m == log[output[i].of]
                          named == {r \in DOMAIN SeverityNames : output[i].severity = <<SeverityNames[r]>>}
                      IN  /\ Shows(output[i].node, m.logged, Node, Name)
                          /\ Shows(output[i].message, m.logged, Message, Msg)
                          /\ \/ Shows(output[i].severity, m.logged, Severity, Level)
                             \/ \E r \in named : Shows(<<r>>, m.logged, Severity, Level)
                          /\ output[i].severity \notin {<<r>> : r \in DOMAIN SeverityNames}
    BY DEF LoggedIsShown
  <1>1. i \in 1 .. Len(output) /\ output # <<>> /\ log \in Logs
    BY DEF ShownInv, TypeOK
  <1> DEFINE k == output[i].of
             m == log[k]
             payload == PayloadOf(FromReader, m)
  <1>2. k \in 1 .. Len(log) /\ output[i] = RowMade(log, FromReader, k)
    BY <1>1 DEF ShownInv
  <1>3. RowMade(log, FromReader, k) =
                   [of |-> k, timestamp |-> ToTimestampNs(m.time),
                    severity |-> MapSeverity(Column(payload, Severity, Level)),
                    node |-> Column(payload, Node, Name), message |-> Column(payload, Message, Msg)]
    BY DEF RowMade
  <1> HIDE DEF k
  <1>4. \A key, otherwise : /\ Column(payload, key, otherwise) \in Found
                            /\ Shows(Column(payload, key, otherwise), m.logged, key, otherwise)
    BY <1>1, <1>2, ColumnIsFound, ColumnShows
  <1> DEFINE raw == Column(payload, Severity, Level)
  <1>5. /\ output[i].severity = MapSeverity(raw)
        /\ output[i].node = Column(payload, Node, Name)
        /\ output[i].message = Column(payload, Message, Msg)
    BY <1>2, <1>3
  <1> HIDE DEF payload
  <1>6. raw \in Found /\ Shows(raw, m.logged, Severity, Level)
    BY <1>4
  <1> HIDE DEF raw
  <1>7. /\ Shows(output[i].node, m.logged, Node, Name)
        /\ Shows(output[i].message, m.logged, Message, Msg)
    BY <1>4, <1>5
  <1> QED BY <1>5, <1>6, <1>7, SeverityShows DEF k

LEMMA ShownInit == Init => ShownInv
  BY RosoutTypeInit DEF Init, ShownInv

LEMMA ShownStep == ShownInv /\ [Next]_rosoutVars => ShownInv'
  <1> SUFFICES ASSUME ShownInv, [Next]_rosoutVars PROVE ShownInv'
    OBVIOUS
  <1>t. TypeOK /\ TypeOK'
    BY RosoutTypeStep DEF ShownInv
  <1>1. CASE RosoutBind
    BY <1>t, <1>1 DEF ShownInv, RosoutBind
  <1>2. CASE RosoutInitGlobal
    BY <1>t, <1>2 DEF ShownInv, RosoutInitGlobal
  <1>3. CASE Fails
    BY <1>t, <1>3 DEF ShownInv, Fails
  <1>4. CASE PassMessage
    BY <1>t, <1>4 DEF ShownInv, PassMessage
  <1>5. CASE WriteRow
    <2>1. /\ phase = "scan" /\ next <= Len(log) /\ UNCHANGED <<log, phase, cache>>
          /\ output' = Append(output, RowOf(next))
      BY <1>5 DEF WriteRow
    <2>2. output \in Seq(Row) /\ RowOf(next) \in Row /\ next \in 1 .. Len(log) /\ log \in Logs
      <3>1. next \in 1 .. Len(log) /\ log \in Logs /\ output \in Seq(Row)
        BY <1>t, <2>1, RosoutAssumption DEF TypeOK
      <3> QED BY <3>1, RowsAreRows
    <2>3. /\ Len(output') = Len(output) + 1 /\ Len(output) \in Nat
          /\ \A i \in 1 .. Len(output) : output'[i] = output[i]
          /\ output'[Len(output) + 1] = RowOf(next)
      BY <2>1, <2>2
    <2>4. RowOf(next) = RowMade(log, FromReader, next) /\ RowMade(log, FromReader, next).of = next
      <3>1. cache = FromReader
        BY <2>1 DEF ShownInv
      <3> QED BY <3>1, RowIsMade DEF RowMade
    <2>5. ASSUME NEW i \in 1 .. Len(output')
          PROVE  output'[i].of \in 1 .. Len(log) /\ output'[i] = RowMade(log, FromReader, output'[i].of)
      <3>1. CASE i = Len(output) + 1
        BY <2>2, <2>3, <2>4, <3>1
      <3>2. CASE i # Len(output) + 1
        <4>1. i \in 1 .. Len(output) /\ output'[i] = output[i]
          BY <2>3, <3>2
        <4> QED BY <4>1 DEF ShownInv
      <3> QED BY <3>1, <3>2
    <2> QED BY <1>t, <2>1, <2>5 DEF ShownInv
  <1>6. CASE ReturnChunk
    BY <1>t, <1>6 DEF ShownInv, ReturnChunk
  <1>7. CASE Ended \/ UNCHANGED rosoutVars
    BY <1>t, <1>7 DEF ShownInv, Ended, rosoutVars
  <1> QED BY <1>1, <1>2, <1>3, <1>4, <1>5, <1>6, <1>7 DEF Next

\* What a row shows is what the node logged: whenever every message of the file
\* carries a document written member by member (by the ROS 2 decoder or a JSON
\* recorder), with any texts and any containers in it, or cannot be read at all, the
\* scanner's columns are the fields of that document (rosout.cpp:131-162).
THEOREM RosoutShowsLogged ==
  Spec => []((\A k \in 1 .. Len(log) : WellLogged(log[k])) => LoggedIsShown)
  BY RowsShow, ShownInit, ShownStep, PTL DEF Spec

=============================================================================
