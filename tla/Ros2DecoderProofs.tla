------------------------- MODULE Ros2DecoderProofs -------------------------
(***************************************************************************)
(* The ROS 2 decoder, for any schemas and any bytes: it reads nothing      *)
(* outside a payload, its stack and its cache are well formed, every step  *)
(* reads what plain CDR has next (CdrFormat), and so JSON is the one       *)
(* meaning of a payload and NULL stands for none.                          *)
(***************************************************************************)
EXTENDS Ros2Decoder, FoldLemmas, SequenceTheorems

-----------------------------------------------------------------------------
(* The reader: bytes of the payload and no others.                         *)

\* Reads happen between the header and the end of the payload; what is read
\* next may be aligned beyond the end, but is then tested first.
ReaderInv ==
  /\ at \in {"idle", "read", "json", "null"}
  /\ message.data \in Seq(Byte)
  /\ pos \in Nat
  /\ reached \in Nat
  /\ at = "read" => 4 <= pos /\ pos <= size
  /\ at = "idle" => reached = 0
  /\ reached <= size

\* Alignment moves forward.
LEMMA AlignedForward ==
  ASSUME pos \in Nat, 4 <= pos, NEW n \in {1, 2, 4, 8}
  PROVE  Aligned(n) \in Nat /\ pos <= Aligned(n)
  <1>1. CASE n = 1
    BY <1>1 DEF Aligned
  <1>2. CASE n = 2
    BY <1>2 DEF Aligned
  <1>3. CASE n = 4
    BY <1>3 DEF Aligned
  <1>4. CASE n = 8
    BY <1>4 DEF Aligned
  <1> QED BY <1>1, <1>2, <1>3, <1>4

\* What Ensure grants lies inside the payload.
LEMMA EnsureSound ==
  ASSUME NEW from \in Nat, NEW n \in Nat, size \in Nat, Ensure(from, n)
  PROVE  from + n \in Nat /\ from + n <= size
  BY DEF Ensure

LEMMA BytesAreNat ==
  ASSUME NEW data \in Seq(Byte), NEW i \in 1 .. Len(data)
  PROVE  data[i] \in Nat
  <1>1. data[i] \in Byte
    OBVIOUS
  <1>2. \A x \in Byte : x \in Nat
    BY DEF Byte
  <1> QED BY <1>1, <1>2

\* A length is a natural number, whatever bytes it is made from.
LEMMA LengthIsNat ==
  ASSUME message.data \in Seq(Byte), NEW from \in Nat
  PROVE  ReadUint32(from) \in Nat
  <1>1. ASSUME NEW i \in Int PROVE ByteAt(i) \in Nat
    <2>1. CASE i \in 1 .. size
      <3>1. message.data[i] \in Nat
        BY <2>1, BytesAreNat DEF size
      <3> QED BY <2>1, <3>1 DEF ByteAt
    <2>2. CASE i \notin 1 .. size
      BY <2>2, Ros2Assumption DEF ByteAt, Ros2Assumption, Byte
    <2> QED BY <2>1, <2>2
  <1>2. ASSUME NEW i \in 1 .. 4 PROVE ReadRaw(from, 4)[i] \in Nat
    <2>1. ReadRaw(from, 4)[i] = ByteAt(IF LittleEndian THEN from + i ELSE from + 4 + 1 - i)
      BY DEF ReadRaw
    <2>2. (IF LittleEndian THEN from + i ELSE from + 4 + 1 - i) \in Int
      OBVIOUS
    <2> QED BY <1>1, <2>1, <2>2
  <1> DEFINE w == ReadRaw(from, 4)[1]
             x == ReadRaw(from, 4)[2]
             y == ReadRaw(from, 4)[3]
             z == ReadRaw(from, 4)[4]
  <1>3. w \in Nat /\ x \in Nat /\ y \in Nat /\ z \in Nat
    BY <1>2
  <1>4. ReadUint32(from) = w + x * 256 + y * 65536 + z * 16777216
    BY DEF ReadUint32
  <1> HIDE DEF w, x, y, z
  <1> QED BY <1>3, <1>4

LEMMA WidthIsAPower ==
  ASSUME NEW type \in DOMAIN Width
  PROVE  Width[type] \in {1, 2, 4, 8}
  BY DEF Width

LEMMA ReaderInvInit == Init => ReaderInv
  BY DEF Init, ReaderInv, NoMessage, size, Byte

LEMMA ReaderInvStep == ReaderInv /\ [Next]_ros2Vars => ReaderInv'
  <1> SUFFICES ASSUME ReaderInv, [Next]_ros2Vars PROVE ReaderInv'
    OBVIOUS
  <1> USE DEF ReaderInv
  <1>sz. size \in Nat
    BY DEF size
  <1>same. message' = message => size' = size
    BY DEF size
  <1>1. ASSUME NEW m \in Messages, RejectChannel(m) \/ RejectHeader(m) PROVE ReaderInv'
    <2>1. /\ at = "idle" /\ at' = "null" /\ message' = m /\ pos' = pos
          /\ reached' = reached \/ reached' = (IF Len(m.data) >= 4 THEN 2 ELSE 0)
      BY <1>1 DEF RejectChannel, RejectHeader
    <2>2. m.data \in Seq(Byte) /\ size' = Len(m.data) /\ Len(m.data) \in Nat
      BY <2>1, Ros2Assumption DEF Ros2Assumption, size
    <2>3. reached' \in Nat /\ reached' <= size'
      BY <2>1, <2>2
    <2> QED BY <2>1, <2>2, <2>3
  <1>2. ASSUME NEW m \in Messages, BeginRoot(m) PROVE ReaderInv'
    <2>1. at' = "read" /\ message' = m /\ pos' = 4 /\ reached' = 2 /\ Len(m.data) >= 4
      BY <1>2 DEF BeginRoot, IsPlainCdr
    <2>2. m.data \in Seq(Byte) /\ size' = Len(m.data)
      BY <2>1, Ros2Assumption DEF Ros2Assumption, size
    <2> QED BY <2>1, <2>2
  <1>3. CASE AppendNumber
    <2> DEFINE n == Width[Field.type[1]]
    <2>1. /\ at = "read" /\ Field.type[1] \in DOMAIN Width
          /\ Ensure(Aligned(n), n) /\ pos' = Aligned(n) + n /\ reached' = Aligned(n) + n
          /\ UNCHANGED <<at, message>>
      BY <1>3 DEF AppendNumber, ItemDue, IsNumber
    <2>2. n \in {1, 2, 4, 8}
      BY <2>1, WidthIsAPower
    <2>3. Aligned(n) \in Nat /\ pos <= Aligned(n)
      BY <2>1, <2>2, AlignedForward
    <2>4. Aligned(n) + n \in Nat /\ Aligned(n) + n <= size
      BY <2>1, <2>2, <2>3, <1>sz, EnsureSound
    <2> HIDE DEF n
    <2> QED BY <2>1, <2>2, <2>3, <2>4, <1>same
  <1>4. CASE AppendString
    <2> DEFINE from == Aligned(4)
               len == ReadUint32(from)
    <2>1. /\ at = "read"
          /\ Ensure(from, 4) /\ (len = 0 \/ Ensure(from + 4, len))
          /\ pos' = from + 4 + len /\ reached' = from + 4 + len
          /\ UNCHANGED <<at, message>>
      BY <1>4 DEF AppendString, ItemDue
    <2>2. from \in Nat /\ pos <= from
      BY <2>1, AlignedForward
    <2>3. len \in Nat
      BY <2>2, LengthIsNat
    <2> HIDE DEF from, len
    <2>4. from + 4 \in Nat /\ from + 4 <= size
      BY <2>1, <2>2, <1>sz, EnsureSound
    <2>5. from + 4 + len \in Nat /\ from + 4 + len <= size
      BY <2>1, <2>3, <2>4, <1>sz, EnsureSound
    <2> QED BY <2>1, <2>2, <2>3, <2>5, <1>same
  <1>5. CASE OpenDynamicArray
    <2> DEFINE from == Aligned(4)
    <2>1. /\ at = "read" /\ Ensure(from, 4) /\ pos' = from + 4 /\ reached' = from + 4
          /\ UNCHANGED <<at, message>>
      BY <1>5 DEF OpenDynamicArray, ItemDue
    <2>2. from \in Nat /\ pos <= from
      BY <2>1, AlignedForward
    <2> HIDE DEF from
    <2>3. from + 4 \in Nat /\ from + 4 <= size
      BY <2>1, <2>2, <1>sz, EnsureSound
    <2> QED BY <2>1, <2>2, <2>3, <1>same
  <1>6. CASE OpenMessage \/ OpenFixedArray \/ Close
    <2>1. UNCHANGED <<at, message, pos, reached>>
      BY <1>6 DEF OpenMessage, OpenFixedArray, Close
    <2> QED BY <2>1, <1>same
  <1>7. CASE GiveUp \/ Return
    <2>1. at' \in {"json", "null"} /\ UNCHANGED <<message, pos, reached>>
      BY <1>7 DEF GiveUp, ReturnNull, Return
    <2> QED BY <2>1, <1>same
  <1>string. CASE GiveUpInString
    <2> DEFINE from == Aligned(4)
    <2>1. /\ at = "read" /\ Ensure(from, 4) /\ reached' = from + 4
          /\ at' = "null" /\ UNCHANGED <<message, pos>>
      BY <1>string DEF GiveUpInString, ReturnNull, ItemDue
    <2>2. from \in Nat
      BY <2>1, AlignedForward
    <2> HIDE DEF from
    <2>3. from + 4 \in Nat /\ from + 4 <= size
      BY <2>1, <2>2, <1>sz, EnsureSound
    <2> QED BY <2>1, <2>3, <1>same
  <1>8. CASE WriteResult
    <2>1. at' = "idle" /\ message'.data = <<>> /\ pos' = 0 /\ reached' = 0
      BY <1>8 DEF WriteResult, NoMessage
    <2> QED BY <2>1 DEF size
  <1>9. CASE UNCHANGED ros2Vars
    BY <1>9, <1>same DEF ros2Vars
  <1> QED BY <1>1, <1>2, <1>3, <1>4, <1>5, <1>6, <1>7, <1>string, <1>8, <1>9 DEF Next

\* Every raw read of the CDR reader is of bytes of the payload, for any schema
\* text and any payload: what Ensure admits after Align is what ReadRaw and
\* ReadString touch (ros2_decoder.cpp:238-301).
THEOREM Ros2ReadsInBounds == Spec => []InBounds
  <1>1. ReaderInv => InBounds
    BY DEF ReaderInv, InBounds
  <1> QED BY <1>1, ReaderInvInit, ReaderInvStep, PTL DEF Spec

-----------------------------------------------------------------------------
(* Schemas: whatever its text, a parsed schema is a table of types with    *)
(* its root in it.                                                         *)

\* The segments of type names, of a schema's or the parser's own.
Segment == STRING \cup {"MSG:", "std_msgs"}

Name == Seq(Segment)

FieldRecord ==
  [type : Name, is_primitive : BOOLEAN, name : STRING \cup TypeName,
   array : {"none", "dynamic", "fixed"}, array_size : Nat]

Tables == UNION {[names -> Seq(FieldRecord)] : names \in SUBSET Name}

BlockLine == {line \in SchemaLine : line.kind # "separator"}

\* The states of the loop over the lines; when a block has been completed, the
\* root is known.
Progress(root) ==
  {state \in [types : Tables, first_block : BOOLEAN, current_name : Name,
              current : Seq(BlockLine)] :
     ~state.first_block => root \in DOMAIN state.types}

\* A sequence of one element.
LEMMA OneSegment ==
  ASSUME NEW S, NEW x \in S
  PROVE  <<x>> \in Seq(S)
  OBVIOUS

\* A name in a text is a name.
LEMMA TypeNameIsName ==
  ASSUME NEW name \in TypeName
  PROVE  name \in Name
  BY DEF TypeName, Name, Segment

\* A name remains one when the segment msg is dropped.
LEMMA NormalizedIsName ==
  ASSUME NEW name \in Name
  PROVE  NormalizeTypeName(name) \in Name
  <1>1. CASE Len(name) >= 3 /\ name[2] = "msg"
    <2>1. SubSeq(name, 1, 1) \in Seq(Segment) /\ SubSeq(name, 3, Len(name)) \in Seq(Segment)
      BY <1>1 DEF Name
    <2>2. RemoveAt(name, 2) = SubSeq(name, 1, 1) \o SubSeq(name, 3, Len(name))
      BY DEF RemoveAt
    <2>3. RemoveAt(name, 2) \in Seq(Segment)
      BY <2>1, <2>2
    <2> QED BY <1>1, <2>3 DEF NormalizeTypeName, Name
  <1>2. CASE ~(Len(name) >= 3 /\ name[2] = "msg")
    BY <1>2 DEF NormalizeTypeName
  <1> QED BY <1>1, <1>2

\* A line without an equals sign gives a field ...
LEMMA FieldIsRecord ==
  ASSUME NEW line \in BlockLine, ~HasEquals(line)
  PROVE  FieldOf(line) \in FieldRecord
  <1>1. CASE line.kind = "field"
    <2>1. /\ line.base \in TypeName /\ line.suffix \in {"none", "dynamic", "fixed", "bounded"}
          /\ line.size \in Nat /\ line.name \in STRING /\ line.kind # "MSG:"
      BY <1>1 DEF BlockLine, SchemaLine
    <2>2. line.base \in Name /\ NormalizeTypeName(line.base) \in Name
      BY <2>1, TypeNameIsName, NormalizedIsName
    <2> QED BY <2>1, <2>2, <1>1 DEF FieldOf, FieldRecord
  <1>2. CASE line.kind = "MSG:"
    <2>1. line.name \in TypeName
      BY <1>2 DEF BlockLine, SchemaLine
    <2>2. <<"MSG:">> \in Name /\ NormalizeTypeName(<<"MSG:">>) \in Name
      <3>1. <<"MSG:">> \in Name
        BY OneSegment DEF Name, Segment
      <3> QED BY <3>1, NormalizedIsName
    <2> QED BY <2>1, <2>2, <1>2 DEF FieldOf, FieldRecord
  <1>3. line.kind = "field" \/ line.kind = "MSG:"
    BY DEF BlockLine, SchemaLine, HasEquals
  <1> QED BY <1>1, <1>2, <1>3

\* ... and a block of lines a sequence of fields, by induction over its lines.
LEMMA BlockHasFields ==
  ASSUME NEW lines \in Seq(BlockLine)
  PROVE  ParseBlock(lines) \in Seq(FieldRecord)
  <1> DEFINE Out == Seq(FieldRecord)
             n == Len(lines)
             start == <<>>
             Add(fields, line) ==
               IF HasEquals(line) THEN fields ELSE Append(fields, FieldOf(line))
             Body(g, s) == IF s = {} THEN start ELSE Add(g[s \ {Max(s)}], lines[Max(s)])
             iter == CHOOSE g : g = [s \in SUBSET DOMAIN lines |-> Body(g, s)]
             f == [p \in (1 .. n) \X Out |-> Add(p[2], lines[p[1]])]
  <1>0. n \in Nat /\ DOMAIN lines = 1 .. n /\ start \in Out
    OBVIOUS
  <1>1. ParseBlock(lines) = iter[1 .. n]
    BY <1>0 DEF ParseBlock, FoldLeft, MapThenFoldSet
  <1>2. ASSUME NEW i \in 1 .. n, NEW fields \in Out
        PROVE  Add(fields, lines[i]) \in Out
    <2>1. lines[i] \in BlockLine
      BY <1>0
    <2>2. CASE HasEquals(lines[i])
      BY <2>2
    <2>3. CASE ~HasEquals(lines[i])
      <3>1. FieldOf(lines[i]) \in FieldRecord
        BY <2>1, <2>3, FieldIsRecord
      <3> QED BY <2>3, <3>1
    <2> QED BY <2>2, <2>3
  <1> HIDE DEF Out, n, start, Add
  <1>3. f \in [(1 .. n) \X Out -> Out]
    BY <1>2
  <1>4. PICK g \in [SUBSET (1 .. n) -> Out] : IsFold(g, f, start, n)
    <2> HIDE DEF f
    <2> QED BY <1>0, <1>3, FoldExists
  <1>5. ASSUME NEW s \in SUBSET (1 .. n)
        PROVE  s # {} => Max(s) \in 1 .. n /\ s \ {Max(s)} \in SUBSET (1 .. n)
    BY <1>0, MaxIsGreatest
  <1>6. \A s \in SUBSET (1 .. n) : g[s] = Body(g, s)
    BY <1>4, <1>5 DEF IsFold
  <1>7. g = [s \in SUBSET DOMAIN lines |-> Body(g, s)]
    <2> HIDE DEF Body
    <2> QED BY <1>0, <1>4, <1>6
  <1>8. iter = [s \in SUBSET DOMAIN lines |-> Body(iter, s)]
    <2> HIDE DEF Body
    <2> QED BY <1>7
  <1>9. \A s \in SUBSET (1 .. n) : iter[s] = Body(iter, s)
    <2> HIDE DEF Body, iter
    <2> QED BY <1>0, <1>8
  <1> HIDE DEF iter
  <1>10. iter[{}] \in Out
    BY <1>0, <1>9
  <1>11. ASSUME NEW s \in SUBSET (1 .. n), s # {}, iter[s \ {Max(s)}] \in Out
         PROVE  iter[s] \in Out
    <2>1. Max(s) \in 1 .. n
      BY <1>5, <1>11
    <2>2. Add(iter[s \ {Max(s)}], lines[Max(s)]) \in Out
      BY <1>2, <1>11, <2>1
    <2> QED BY <1>9, <1>11, <2>2
  <1>12. iter[1 .. n] \in Out
    BY <1>0, <1>10, <1>11, FoldStaysIn
  <1> QED BY <1>1, <1>12 DEF Out

\* What a table of types is, and what it holds.
LEMMA TableIsIn ==
  ASSUME NEW names \in SUBSET Name, NEW table \in [names -> Seq(FieldRecord)]
  PROVE  table \in Tables
  BY DEF Tables

LEMMA TableParts ==
  ASSUME NEW table \in Tables
  PROVE  /\ table \in [DOMAIN table -> Seq(FieldRecord)]
         /\ DOMAIN table \in SUBSET Name
         /\ \A t \in DOMAIN table : table[t] \in Seq(FieldRecord)
  BY DEF Tables

\* Each step of the loop over the lines keeps its state well formed ...
LEMMA FlushProgresses ==
  ASSUME NEW root \in Name, NEW state \in Progress(root)
  PROVE  Flush(state, root) \in Progress(root)
  <1> DEFINE name == IF state.first_block THEN root ELSE NormalizeTypeName(state.current_name)
             table == [t \in DOMAIN state.types \cup {name} |->
                         IF t = name THEN ParseBlock(state.current) ELSE state.types[t]]
  <1>1. /\ state.types \in Tables /\ state.current_name \in Name
        /\ state.current \in Seq(BlockLine) /\ state.first_block \in BOOLEAN
        /\ ~state.first_block => root \in DOMAIN state.types
    BY DEF Progress
  <1>2. name \in Name
    BY <1>1, NormalizedIsName
  <1>3. ParseBlock(state.current) \in Seq(FieldRecord)
    BY <1>1, BlockHasFields
  <1>4. root \in DOMAIN state.types \cup {name}
    BY <1>1
  <1>5. Flush(state, root) =
          [types |-> table, first_block |-> FALSE, current_name |-> <<>>, current |-> <<>>]
    BY DEF Flush
  <1> HIDE DEF name
  <1>6. table \in Tables /\ root \in DOMAIN table
    <2>1. DOMAIN state.types \in SUBSET Name
          /\ \A t \in DOMAIN state.types : state.types[t] \in Seq(FieldRecord)
      BY <1>1, TableParts
    <2>2. table \in [DOMAIN state.types \cup {name} -> Seq(FieldRecord)]
      BY <1>3, <2>1
    <2>3. DOMAIN state.types \cup {name} \in SUBSET Name
      BY <1>2, <2>1
    <2> QED BY <1>4, <2>2, <2>3, TableIsIn
  <1> HIDE DEF table
  <1>7. <<>> \in Name /\ <<>> \in Seq(BlockLine)
    BY DEF Name
  <1> QED BY <1>5, <1>6, <1>7 DEF Progress

LEMMA LineProgresses ==
  ASSUME NEW root \in Name, NEW state \in Progress(root), NEW line \in SchemaLine
  PROVE  ReadLine(state, line, root) \in Progress(root)
  <1>1. CASE line.kind = "separator"
    BY <1>1, FlushProgresses DEF ReadLine
  <1>2. CASE line.kind = "MSG:" /\ state.current_name = <<>>
    <2>1. line.name \in Name
      BY <1>2, TypeNameIsName DEF SchemaLine
    <2>2. ReadLine(state, line, root) = [state EXCEPT !.current_name = line.name]
      BY <1>2 DEF ReadLine
    <2> QED BY <2>1, <2>2 DEF Progress
  <1>3. CASE line.kind # "separator" /\ ~(line.kind = "MSG:" /\ state.current_name = <<>>)
    <2>1. line \in BlockLine
      BY <1>3 DEF BlockLine
    <2>2. ReadLine(state, line, root) = [state EXCEPT !.current = Append(@, line)]
      BY <1>3 DEF ReadLine
    <2>3. Append(state.current, line) \in Seq(BlockLine)
      BY <2>1 DEF Progress
    <2> QED BY <2>2, <2>3 DEF Progress
  <1> QED BY <1>1, <1>2, <1>3

\* A reference that is resolved is a name, known or not.
LEMMA ReferenceIsName ==
  ASSUME NEW ref \in Name, NEW package \in Name, NEW known
  PROVE  ResolveTypeRef(ref, package, known) \in Name
  <1>1. package \o ref \in Name
    BY DEF Name
  <1>2. <<"std_msgs">> \in Name
    BY OneSegment DEF Name, Segment
  <1>3. <<"std_msgs">> \o ref \in Name
    BY <1>2 DEF Name
  <1> QED BY <1>1, <1>3 DEF ResolveTypeRef

\* Resolution keeps the table of types.
LEMMA ResolvedIsTable ==
  ASSUME NEW types \in Tables
  PROVE  Resolved(types) \in Tables /\ DOMAIN Resolved(types) = DOMAIN types
  <1>1. /\ DOMAIN types \in SUBSET Name
        /\ \A t \in DOMAIN types : types[t] \in Seq(FieldRecord)
    BY TableParts
  <1> DEFINE field(t, i) == [types[t][i] EXCEPT !.type =
                                ResolveTypeRef(@, PackageOf(t), DOMAIN types)]
             of(t) == [i \in DOMAIN types[t] |->
                         IF types[t][i].is_primitive THEN types[t][i] ELSE field(t, i)]
  <1>2. ASSUME NEW t \in DOMAIN types PROVE of(t) \in Seq(FieldRecord)
    <2>1. types[t] \in Seq(FieldRecord) /\ t \in Name
      BY <1>1
    <2>2. PackageOf(t) \in Name
      BY <2>1 DEF PackageOf, Front, Name
    <2>3. ASSUME NEW i \in DOMAIN types[t]
          PROVE  types[t][i] \in FieldRecord /\ field(t, i) \in FieldRecord
      <3>1. types[t][i] \in FieldRecord
        BY <2>1
      <3>2. types[t][i].type \in Name
        BY <3>1 DEF FieldRecord
      <3>3. ResolveTypeRef(types[t][i].type, PackageOf(t), DOMAIN types) \in Name
        BY <2>2, <3>2, ReferenceIsName
      <3> QED BY <3>1, <3>3 DEF FieldRecord
    <2>4. DOMAIN types[t] = 1 .. Len(types[t]) /\ Len(types[t]) \in Nat
      BY <2>1
    <2> HIDE DEF field
    <2>5. of(t) \in [1 .. Len(types[t]) -> FieldRecord]
      BY <2>3, <2>4
    <2> QED BY <2>4, <2>5
  <1>3. Resolved(types) = [t \in DOMAIN types |-> of(t)]
    BY DEF Resolved
  <1> HIDE DEF of
  <1>4. Resolved(types) \in [DOMAIN types -> Seq(FieldRecord)]
    BY <1>2, <1>3
  <1> QED BY <1>1, <1>4, TableIsIn

\* ... so a parsed schema has a table of types with its root in it, whatever the
\* text: decoding may look the root up.
LEMMA SchemaIsTable ==
  ASSUME NEW schema_name \in TypeName, NEW text \in Seq(SchemaLine)
  PROVE  LET schema == ParseSchema(schema_name, text)
         IN  schema.types \in Tables /\ schema.root \in DOMAIN schema.types
  <1> DEFINE root == NormalizeTypeName(schema_name)
             n == Len(text)
             Out == Progress(root)
             start == [types |-> <<>>, first_block |-> TRUE, current_name |-> root,
                       current |-> <<>>]
             Body(g, s) == IF s = {} THEN start
                           ELSE ReadLine(g[s \ {Max(s)}], text[Max(s)], root)
             iter == CHOOSE g : g = [s \in SUBSET DOMAIN text |-> Body(g, s)]
             f == [p \in (1 .. n) \X Out |-> ReadLine(p[2], text[p[1]], root)]
  <1>r. root \in Name
    BY TypeNameIsName, NormalizedIsName
  <1>s. start \in Out
    <2>1. <<>> \in Tables
      <3>1. <<>> \in [{} -> Seq(FieldRecord)]
        OBVIOUS
      <3> QED BY <3>1, TableIsIn
    <2> QED BY <1>r, <2>1 DEF Progress
  <1>0. n \in Nat /\ DOMAIN text = 1 .. n
    OBVIOUS
  <1>1. /\ ParseSchema(schema_name, text).root = root
        /\ ParseSchema(schema_name, text).types = Resolved(Flush(iter[1 .. n], root).types)
    BY <1>0 DEF ParseSchema, FoldLeft, MapThenFoldSet
  <1>2. ASSUME NEW i \in 1 .. n, NEW state \in Out
        PROVE  ReadLine(state, text[i], root) \in Out
    <2>1. text[i] \in SchemaLine
      BY <1>0
    <2> HIDE DEF root
    <2> QED BY <2>1, <1>r, LineProgresses
  <1> HIDE DEF root, n, start, Out
  <1>3. f \in [(1 .. n) \X Out -> Out]
    BY <1>2
  <1>4. PICK g \in [SUBSET (1 .. n) -> Out] : IsFold(g, f, start, n)
    <2> HIDE DEF f
    <2> QED BY <1>0, <1>s, <1>3, FoldExists
  <1>5. ASSUME NEW s \in SUBSET (1 .. n)
        PROVE  s # {} => Max(s) \in 1 .. n /\ s \ {Max(s)} \in SUBSET (1 .. n)
    BY <1>0, MaxIsGreatest
  <1>6. \A s \in SUBSET (1 .. n) : g[s] = Body(g, s)
    BY <1>4, <1>5 DEF IsFold
  <1>7. g = [s \in SUBSET DOMAIN text |-> Body(g, s)]
    <2> HIDE DEF Body
    <2> QED BY <1>0, <1>4, <1>6
  <1>8. iter = [s \in SUBSET DOMAIN text |-> Body(iter, s)]
    <2> HIDE DEF Body
    <2> QED BY <1>7
  <1>9. \A s \in SUBSET (1 .. n) : iter[s] = Body(iter, s)
    <2> HIDE DEF Body, iter
    <2> QED BY <1>0, <1>8
  <1> HIDE DEF iter
  <1>10. iter[{}] \in Out
    BY <1>s, <1>9
  <1>11. ASSUME NEW s \in SUBSET (1 .. n), s # {}, iter[s \ {Max(s)}] \in Out
         PROVE  iter[s] \in Out
    <2>1. Max(s) \in 1 .. n
      BY <1>5, <1>11
    <2>2. ReadLine(iter[s \ {Max(s)}], text[Max(s)], root) \in Out
      BY <1>2, <1>11, <2>1
    <2> QED BY <1>9, <1>11, <2>2
  <1>12. iter[1 .. n] \in Out
    BY <1>0, <1>10, <1>11, FoldStaysIn
  <1>13. Flush(iter[1 .. n], root) \in Progress(root)
    BY <1>r, <1>12, FlushProgresses DEF Out
  <1>14. ~Flush(iter[1 .. n], root).first_block
    BY DEF Flush
  <1>15. Flush(iter[1 .. n], root).types \in Tables
         /\ root \in DOMAIN Flush(iter[1 .. n], root).types
    BY <1>13, <1>14 DEF Progress
  <1> QED BY <1>1, <1>15, ResolvedIsTable

-----------------------------------------------------------------------------
(* The cache of schemas and the stack of calls.                            *)

\* The calls that are open: AppendMessage at a field, or an array at an element.
Frame ==
  {f \in [kind : {"message", "array"}, fields : Seq(FieldRecord), next : Nat, count : Nat] :
     /\ f.next \in 1 .. f.count + 1
     /\ f.kind = "message" => f.count = Len(f.fields)
     /\ f.kind = "array" => Len(f.fields) = 1}

\* The cache holds what the texts say; what is decoded has a schema and a header.
CacheInv ==
  /\ DOMAIN schemas \subseteq Schemas
  /\ \A s \in DOMAIN schemas : schemas[s] = Parsed[s]
  /\ at # "idle" => message \in Messages
  /\ at \in {"read", "json"} =>
       /\ message.schema \in DOMAIN schemas
       /\ HasSchema(message)
       /\ IsPlainCdr(message.data)

\* The stack is empty but while a message is decoded.
StackInv ==
  /\ frames \in Seq(Frame)
  /\ at # "read" => frames = <<>>
  /\ at = "idle" => pos = 0
  /\ pos <= size

\* Every schema that is given parses to a table with its root.
LEMMA ParsedIsTable ==
  ASSUME NEW s \in Schemas
  PROVE  Parsed[s].types \in Tables /\ Parsed[s].root \in DOMAIN Parsed[s].types
  <1>1. SchemaName[s] \in TypeName /\ SchemaText[s] \in Seq(SchemaLine)
    BY Ros2Assumption DEF Ros2Assumption, TypeName
  <1>2. Parsed[s] = ParseSchema(SchemaName[s], SchemaText[s])
    BY DEF Parsed
  <1> QED BY <1>1, <1>2, SchemaIsTable

\* The two kinds of frames.
LEMMA MessageFrameIsFrame ==
  ASSUME NEW fields \in Seq(FieldRecord)
  PROVE  MessageFrame(fields) \in Frame
  BY DEF MessageFrame, Frame

LEMMA ArrayFrameIsFrame ==
  ASSUME NEW field \in FieldRecord, NEW n \in Nat
  PROVE  ArrayFrame(field, n) \in Frame
  <1>1. <<field>> \in Seq(FieldRecord) /\ Len(<<field>>) = 1
    OBVIOUS
  <1> QED BY <1>1 DEF ArrayFrame, Frame

\* The last element of a sequence and what precedes it.
LEMMA FrontAndLast ==
  ASSUME NEW S, NEW s \in Seq(S), s # <<>>
  PROVE  /\ Len(s) \in Nat \ {0} /\ DOMAIN s = 1 .. Len(s)
         /\ s[Len(s)] \in S
         /\ Front(s) \in Seq(S)
         /\ Len(Front(s)) = Len(s) - 1
         /\ \A i \in 1 .. Len(s) - 1 : Front(s)[i] = s[i]
  <1>1. Len(s) \in Nat \ {0} /\ DOMAIN s = 1 .. Len(s)
    BY EmptySeq, LenProperties
  <1>2. Front(s) = SubSeq(s, 1, Len(s) - 1)
    BY DEF Front
  <1>3. \A i \in 1 .. Len(s) : s[i] \in S
    BY <1>1, ElementOfSeq
  <1> DEFINE n == Len(s)
  <1>4. n \in Nat \ {0} /\ n - 1 \in Nat /\ n \in 1 .. n
    BY <1>1
  <1> HIDE DEF n
  <1>5. SubSeq(s, 1, n - 1) = [i \in 1 .. n - 1 |-> s[i]]
    BY <1>4
  <1>6. \A i \in 1 .. n - 1 : s[i] \in S
    BY <1>3, <1>4 DEF n
  <1>7. [i \in 1 .. n - 1 |-> s[i]] \in Seq(S) /\ Len([i \in 1 .. n - 1 |-> s[i]]) = n - 1
    BY <1>4, <1>6, IsASeq
  <1> QED BY <1>1, <1>2, <1>3, <1>4, <1>5, <1>7 DEF n

\* Replacing the last element is popping it and pushing another.
LEMMA ReplaceLast ==
  ASSUME NEW S, NEW s \in Seq(S), s # <<>>, NEW x \in S
  PROVE  /\ [s EXCEPT ![Len(s)] = x] = Append(Front(s), x)
         /\ [s EXCEPT ![Len(s)] = x] \in Seq(S)
  <1>1. /\ Len(s) \in Nat \ {0} /\ DOMAIN s = 1 .. Len(s)
        /\ Front(s) \in Seq(S) /\ Len(Front(s)) = Len(s) - 1
        /\ \A i \in 1 .. Len(s) - 1 : Front(s)[i] = s[i]
    BY FrontAndLast
  <1> DEFINE r == [s EXCEPT ![Len(s)] = x]
             n == Len(s)
             a == Append(Front(s), x)
  <1>2. n \in Nat \ {0} /\ n - 1 \in Nat
    BY <1>1
  <1>3. r \in Seq(S) /\ Len(r) = n
    BY ExceptSeq
  <1>4. a \in Seq(S) /\ Len(a) = n - 1 + 1
        /\ a[n - 1 + 1] = x /\ \A i \in 1 .. n - 1 : a[i] = s[i]
    <2>1. Front(s) \in Seq(S) /\ Len(Front(s)) = n - 1 /\ \A i \in 1 .. n - 1 : Front(s)[i] = s[i]
      BY <1>1
    <2> HIDE DEF n
    <2>2. /\ a \in Seq(S) /\ Len(a) = Len(Front(s)) + 1
          /\ \A i \in 1 .. Len(Front(s)) : a[i] = Front(s)[i]
          /\ a[Len(Front(s)) + 1] = x
      BY <2>1, AppendProperties
    <2> HIDE DEF a
    <2> QED BY <2>1, <2>2
  <1>5. \A i \in 1 .. n : r[i] = IF i = n THEN x ELSE s[i]
    BY <1>1
  <1> HIDE DEF n, a, r
  <1>6. \A i \in 1 .. n : r[i] = a[i]
    BY <1>2, <1>4, <1>5
  <1>7. Len(a) = n
    BY <1>2, <1>4
  <1>8. r = a
    BY <1>3, <1>4, <1>6, <1>7, SeqEqual
  <1> QED BY <1>3, <1>8 DEF r, a

\* What a frame consists of.
LEMMA FrameParts ==
  ASSUME NEW f \in Frame
  PROVE  /\ f.fields \in Seq(FieldRecord) /\ f.next \in Nat /\ f.count \in Nat
         /\ f.next \in 1 .. f.count + 1
         /\ f.kind = "message" \/ f.kind = "array"
         /\ f.kind = "message" => f.count = Len(f.fields)
         /\ f.kind = "array" => Len(f.fields) = 1
  BY DEF Frame

\* A frame with an item left remains one when the item has been read.
LEMMA AdvancedIsFrame ==
  ASSUME NEW f \in Frame, f.next <= f.count
  PROVE  [f EXCEPT !.next = @ + 1] \in Frame
  <1>1. f \in [kind : {"message", "array"}, fields : Seq(FieldRecord), next : Nat, count : Nat]
    BY DEF Frame
  <1> DEFINE n == f.next + 1
  <1>2. n \in Nat /\ n \in 1 .. f.count + 1
    BY FrameParts
  <1> HIDE DEF n
  <1>3. [f EXCEPT !.next = n] \in
          [kind : {"message", "array"}, fields : Seq(FieldRecord), next : Nat, count : Nat]
    BY <1>1, <1>2
  <1>4. [f EXCEPT !.next = n] \in Frame
    BY <1>1, <1>2, <1>3, FrameParts DEF Frame
  <1> QED BY <1>4 DEF n

\* The innermost frame, and the item it has next.
LEMMA TopIsFrame ==
  ASSUME frames \in Seq(Frame), frames # <<>>
  PROVE  Top \in Frame
  BY FrontAndLast DEF Top

LEMMA FieldIsField ==
  ASSUME frames \in Seq(Frame), ItemDue
  PROVE  Field \in FieldRecord
  <1>1. Top \in Frame /\ Top.next <= Top.count
    BY TopIsFrame DEF ItemDue
  <1> DEFINE top == Top
  <1>f. /\ top.fields \in Seq(FieldRecord) /\ top.next \in Nat /\ top.count \in Nat
        /\ top.next \in 1 .. top.count + 1 /\ top.next <= top.count
        /\ top.kind = "message" \/ top.kind = "array"
        /\ top.kind = "message" => top.count = Len(top.fields)
        /\ top.kind = "array" => Len(top.fields) = 1
    BY <1>1, FrameParts
  <1>s. 1 \in 1 .. 1
    OBVIOUS
  <1>field. Field = IF top.kind = "array" THEN top.fields[1] ELSE top.fields[top.next]
    BY DEF Field
  <1> HIDE DEF top
  <1>2. CASE top.kind = "message"
    <2>1. top.next \in 1 .. Len(top.fields)
      BY <1>f, <1>2
    <2>2. top.fields[top.next] \in FieldRecord
      BY <2>1, <1>f, ElementOfSeq
    <2> QED BY <1>2, <1>field, <2>2
  <1>3. CASE top.kind = "array"
    <2>1. 1 \in 1 .. Len(top.fields)
      BY <1>f, <1>s, <1>3
    <2>2. top.fields[1] \in FieldRecord
      BY <2>1, <1>f, ElementOfSeq
    <2> QED BY <1>3, <1>field, <2>2
  <1> QED BY <1>f, <1>2, <1>3

\* The stack after an item of its innermost frame.
LEMMA AdvancedIsFrames ==
  ASSUME frames \in Seq(Frame), ItemDue
  PROVE  Advanced \in Seq(Frame) /\ Advanced = Append(Front(frames), [Top EXCEPT !.next = @ + 1])
  <1>1. Top \in Frame /\ Top.next <= Top.count /\ frames # <<>>
    BY TopIsFrame DEF ItemDue
  <1> DEFINE top == [Top EXCEPT !.next = @ + 1]
  <1>2. top \in Frame
    BY <1>1, AdvancedIsFrame
  <1>3. Advanced = [frames EXCEPT ![Len(frames)] = top]
    BY DEF Advanced, Top
  <1> HIDE DEF top
  <1>4. Advanced \in Seq(Frame) /\ Advanced = Append(Front(frames), top)
    BY <1>1, <1>2, <1>3, ReplaceLast
  <1> QED BY <1>4 DEF top

\* Loading a schema adds what its text says.
LEMMA CacheGrows ==
  ASSUME NEW m \in Messages, LoadSchema(m.schema), CacheInv
  PROVE  /\ DOMAIN schemas' \subseteq Schemas
         /\ \A s \in DOMAIN schemas' : schemas'[s] = Parsed[s]
         /\ m.schema \in DOMAIN schemas'
  <1>1. m.schema \in Schemas
    BY Ros2Assumption DEF Ros2Assumption
  <1> QED BY <1>1 DEF LoadSchema, CacheInv

\* The cache is kept by every step ...
LEMMA CacheInvStep ==
  CacheInv /\ [Next]_ros2Vars => CacheInv'
  <1> SUFFICES ASSUME CacheInv, [Next]_ros2Vars PROVE CacheInv'
    OBVIOUS
  <1>1. ASSUME NEW m \in Messages, RejectChannel(m)
        PROVE  CacheInv'
    <2>1. at' = "null" /\ message' = m /\ UNCHANGED schemas
      BY <1>1 DEF RejectChannel
    <2> QED BY <2>1 DEF CacheInv
  <1>2. ASSUME NEW m \in Messages, RejectHeader(m)
        PROVE  CacheInv'
    <2>1. at' = "null" /\ message' = m /\ LoadSchema(m.schema)
      BY <1>2 DEF RejectHeader
    <2> QED BY <2>1, CacheGrows DEF CacheInv
  <1>3. ASSUME NEW m \in Messages, BeginRoot(m)
        PROVE  CacheInv'
    <2>1. /\ at' = "read" /\ message' = m /\ LoadSchema(m.schema)
          /\ HasSchema(m) /\ IsPlainCdr(m.data)
      BY <1>3 DEF BeginRoot
    <2>2. HasSchema(message)' /\ IsPlainCdr(message.data)'
      BY <2>1 DEF HasSchema, IsPlainCdr
    <2> QED BY <2>1, <2>2, CacheGrows DEF CacheInv
  <1>4. CASE AppendNumber \/ AppendString \/ OpenMessage \/ OpenFixedArray
             \/ OpenDynamicArray \/ Close \/ UNCHANGED ros2Vars
    <2>1. UNCHANGED <<schemas, at, message>>
      BY <1>4 DEF AppendNumber, AppendString, OpenMessage, OpenFixedArray, OpenDynamicArray, Close,
                  ros2Vars
    <2> QED BY <2>1 DEF CacheInv, HasSchema, IsPlainCdr
  <1>5. CASE GiveUp \/ GiveUpInString
    <2>1. UNCHANGED <<schemas, message>> /\ at = "read" /\ at' = "null"
      BY <1>5 DEF GiveUp, GiveUpInString, ReturnNull, ItemDue
    <2> QED BY <2>1 DEF CacheInv
  <1>6. CASE Return
    <2>1. UNCHANGED <<schemas, message>> /\ at = "read" /\ at' = "json"
      BY <1>6 DEF Return
    <2> QED BY <2>1 DEF CacheInv, HasSchema, IsPlainCdr
  <1>7. CASE WriteResult
    BY <1>7 DEF WriteResult, CacheInv
  <1> QED BY <1>1, <1>2, <1>3, <1>4, <1>5, <1>6, <1>7 DEF Next

\* While a message is decoded its types are those of its schema.
LEMMA TypesAreParsed ==
  ASSUME CacheInv, at \in {"read", "json"}
  PROVE  /\ message \in Messages /\ message.schema \in Schemas
         /\ schemas[message.schema] = Parsed[message.schema]
         /\ Types = Parsed[message.schema].types
         /\ Types \in Tables
         /\ \A t \in DOMAIN Types : Types[t] \in Seq(FieldRecord)
  <1>1. message \in Messages /\ message.schema \in Schemas
        /\ schemas[message.schema] = Parsed[message.schema]
    BY DEF CacheInv
  <1>2. Types = Parsed[message.schema].types
    BY <1>1 DEF Types
  <1> QED BY <1>1, <1>2, ParsedIsTable, TableParts

LEMMA PushIsFrames ==
  ASSUME frames \in Seq(Frame), ItemDue, NEW f \in Frame
  PROVE  Append(Advanced, f) \in Seq(Frame)
  <1>1. Advanced \in Seq(Frame)
    BY AdvancedIsFrames
  <1> QED BY <1>1, AppendProperties

\* ... and so is the stack.
LEMMA StackInvStep ==
  ReaderInv /\ CacheInv /\ StackInv /\ [Next]_ros2Vars => StackInv'
  <1> SUFFICES ASSUME ReaderInv, CacheInv, StackInv, [Next]_ros2Vars PROVE StackInv'
    OBVIOUS
  <1>r. ReaderInv'
    BY ReaderInvStep
  <1>f. frames \in Seq(Frame)
    BY DEF StackInv
  <1>z. size' \in Nat
    BY <1>r DEF ReaderInv, size
  <1>e. <<>> \in Seq(Frame)
    OBVIOUS
  <1>1. ASSUME NEW m \in Messages, RejectChannel(m) \/ RejectHeader(m)
        PROVE  StackInv'
    <2>1. at = "idle" /\ at' = "null" /\ UNCHANGED <<pos, frames>>
      BY <1>1 DEF RejectChannel, RejectHeader
    <2>2. pos = 0 /\ frames = <<>>
      BY <2>1 DEF StackInv
    <2>3. pos' <= size'
      BY <1>z, <2>1, <2>2
    <2> QED BY <1>e, <2>1, <2>2, <2>3 DEF StackInv
  <1>read. ASSUME at = "read", at' = "read", frames' \in Seq(Frame) PROVE StackInv'
    <2>1. pos' <= size'
      BY <1>r, <1>read DEF ReaderInv
    <2> QED BY <1>read, <2>1 DEF StackInv
  <1>2. ASSUME NEW m \in Messages, BeginRoot(m)
        PROVE  StackInv'
    <2>1. at' = "read" /\ LoadSchema(m.schema)
          /\ frames' = <<MessageFrame(schemas'[m.schema].types[schemas'[m.schema].root])>>
      BY <1>2 DEF BeginRoot
    <2>2. schemas'[m.schema] = Parsed[m.schema] /\ m.schema \in Schemas
      BY <2>1, CacheGrows
    <2>3. Parsed[m.schema].types[Parsed[m.schema].root] \in Seq(FieldRecord)
      BY <2>2, ParsedIsTable, TableParts
    <2>4. frames' \in Seq(Frame)
      BY <2>1, <2>2, <2>3, MessageFrameIsFrame, OneSegment
    <2>5. pos' <= size'
      BY <1>r, <2>1 DEF ReaderInv
    <2> QED BY <2>1, <2>4, <2>5 DEF StackInv
  <1>3. CASE AppendNumber \/ AppendString
    <2>1. ItemDue /\ at = "read" /\ at' = "read" /\ frames' = Advanced
      BY <1>3 DEF AppendNumber, AppendString, ItemDue
    <2> QED BY <1>f, <1>read, <2>1, AdvancedIsFrames
  <1>4. CASE OpenMessage
    <2>1. /\ ItemDue /\ at = "read" /\ at' = "read" /\ Field.type \in DOMAIN Types
          /\ frames' = Append(Advanced, MessageFrame(Types[Field.type]))
      BY <1>4 DEF OpenMessage, ItemDue
    <2>2. MessageFrame(Types[Field.type]) \in Frame
      BY <2>1, TypesAreParsed, MessageFrameIsFrame
    <2> QED BY <1>f, <1>read, <2>1, <2>2, PushIsFrames
  <1>5. CASE OpenFixedArray
    <2>1. /\ ItemDue /\ at = "read" /\ at' = "read"
          /\ frames' = Append(Advanced, ArrayFrame(Field, Field.array_size))
      BY <1>5 DEF OpenFixedArray, ItemDue
    <2>2. Field \in FieldRecord
      BY <1>f, <2>1, FieldIsField
    <2>3. Field.array_size \in Nat
      BY <2>2 DEF FieldRecord
    <2> QED BY <1>f, <1>read, <2>1, <2>2, <2>3, ArrayFrameIsFrame, PushIsFrames
  <1>6. CASE OpenDynamicArray
    <2> DEFINE from == Aligned(4)
    <2>1. /\ ItemDue /\ at = "read" /\ at' = "read"
          /\ frames' = Append(Advanced, ArrayFrame(Field, ReadUint32(from)))
      BY <1>6 DEF OpenDynamicArray, ItemDue
    <2>2. from \in Nat /\ message.data \in Seq(Byte)
      BY <2>1, AlignedForward DEF ReaderInv
    <2> HIDE DEF from
    <2>3. ReadUint32(from) \in Nat
      BY <2>2, LengthIsNat
    <2>4. Field \in FieldRecord
      BY <1>f, <2>1, FieldIsField
    <2>5. ArrayFrame(Field, ReadUint32(from)) \in Frame
      BY <2>3, <2>4, ArrayFrameIsFrame
    <2> QED BY <1>f, <1>read, <2>1, <2>5, PushIsFrames
  <1>7. CASE Close
    <2>1. at = "read" /\ at' = "read" /\ frames # <<>> /\ frames' = Front(frames)
      BY <1>7 DEF Close
    <2> QED BY <1>f, <1>read, <2>1, FrontAndLast
  <1>8. CASE GiveUp \/ GiveUpInString
    <2>1. at' = "null" /\ frames' = <<>> /\ UNCHANGED <<message, pos>>
      BY <1>8 DEF GiveUp, GiveUpInString, ReturnNull
    <2> QED BY <1>e, <2>1 DEF StackInv, size
  <1>9. CASE Return
    BY <1>9 DEF Return, StackInv, size
  <1>10. CASE WriteResult
    <2>1. at' = "idle" /\ pos' = 0 /\ frames' = frames /\ frames = <<>>
      BY <1>10 DEF WriteResult, StackInv
    <2>2. pos' <= size'
      BY <1>z, <2>1
    <2> QED BY <1>e, <2>1, <2>2 DEF StackInv
  <1>11. CASE UNCHANGED ros2Vars
    BY <1>11 DEF ros2Vars, StackInv, size
  <1> QED BY <1>1, <1>2, <1>3, <1>4, <1>5, <1>6, <1>7, <1>8, <1>9, <1>10, <1>11 DEF Next

\* What is true between any two steps of the decoder.
DecoderInv == ReaderInv /\ CacheInv /\ StackInv

\* The three parts together are inductive.
LEMMA DecoderInvariance == Spec => []DecoderInv
  <1>1. Init => DecoderInv
    <2> SUFFICES ASSUME Init PROVE DecoderInv
      OBVIOUS
    <2>1. ReaderInv
      BY ReaderInvInit
    <2>2. size \in Nat /\ pos = 0
      BY <2>1 DEF ReaderInv, size, Init
    <2>3. CacheInv
      BY DEF Init, CacheInv
    <2>4. StackInv
      BY <2>2 DEF Init, StackInv
    <2> QED BY <2>1, <2>3, <2>4 DEF DecoderInv
  <1>2. DecoderInv /\ [Next]_ros2Vars => DecoderInv'
    BY ReaderInvStep, CacheInvStep, StackInvStep DEF DecoderInv
  <1> QED BY <1>1, <1>2, PTL DEF Spec

\* The cache, the position and the stack of calls are what the decoder takes
\* them for, for any texts and payloads: what is popped was pushed, the next
\* item of a frame is one of its items, and a type that is looked up is in the
\* cache (ros2_decoder.cpp:323-489).
THEOREM Ros2TypeCorrect == Spec => []TypeOK
  <1>1. DecoderInv => TypeOK
    <2> SUFFICES ASSUME DecoderInv PROVE TypeOK
      OBVIOUS
    <2>1. /\ DOMAIN schemas \subseteq Schemas
          /\ at \in {"idle", "read", "json", "null"}
          /\ at # "read" => frames = <<>>
      BY DEF DecoderInv, ReaderInv, CacheInv, StackInv
    <2>2. at # "idle" => message.schema \in Schemas
      BY Ros2Assumption DEF DecoderInv, CacheInv, Ros2Assumption
    <2>3. pos \in 0 .. size
      <3>1. pos \in Nat /\ size \in Nat /\ pos <= size
        BY DEF DecoderInv, ReaderInv, StackInv, size
      <3> QED BY <3>1
    <2>4. ASSUME NEW i \in DOMAIN frames PROVE frames[i].next \in 1 .. frames[i].count + 1
      <3>1. frames \in Seq(Frame)
        BY DEF DecoderInv, StackInv
      <3>2. frames[i] \in Frame
        BY <3>1
      <3> QED BY <3>2, FrameParts
    <2> QED BY <2>1, <2>2, <2>3, <2>4 DEF TypeOK
  <1> QED BY <1>1, DecoderInvariance, PTL

-----------------------------------------------------------------------------
(* The decoder's state as a reading: what the frames leave to be read.     *)

\* A message or an array that is open, for the format and for the decoder.
OpenItem == [close : {"}", "]"}, rest : Seq(FieldRecord)]

OpenOf(fs) == [i \in DOMAIN fs |-> Pending(fs[i])]

\* The decoder's state as a reading, its stack written as OpenOf.
LEMMA ReadingIs == Reading = [pos |-> pos, tokens |-> json, open |-> OpenOf(frames)]
  BY DEF Reading, OpenOf

\* The items that a frame has still to come.
LEMMA RestOfFrame ==
  ASSUME NEW f \in Frame, NEW k \in 1 .. f.count - f.next + 1
  PROVE  (IF f.kind = "message" THEN f.fields[f.next - 1 + k] ELSE f.fields[1]) \in FieldRecord
  <1>1. /\ f.fields \in Seq(FieldRecord) /\ f.next \in Nat /\ f.count \in Nat
        /\ f.next \in 1 .. f.count + 1
        /\ f.kind = "message" \/ f.kind = "array"
        /\ f.kind = "message" => f.count = Len(f.fields)
        /\ f.kind = "array" => Len(f.fields) = 1
    BY FrameParts
  <1>2. CASE f.kind = "message"
    <2>1. f.next - 1 + k \in 1 .. f.count
      BY <1>1
    <2>2. f.next - 1 + k \in 1 .. Len(f.fields)
      BY <1>1, <1>2, <2>1
    <2>3. f.fields[f.next - 1 + k] \in FieldRecord
      BY <1>1, <2>2, ElementOfSeq
    <2> QED BY <1>2, <2>3
  <1>3. CASE f.kind = "array"
    <2>1. 1 \in 1 .. 1
      OBVIOUS
    <2>2. 1 \in 1 .. Len(f.fields)
      BY <1>1, <1>3, <2>1
    <2>3. f.fields[1] \in FieldRecord
      BY <1>1, <2>2, ElementOfSeq
    <2> QED BY <1>3, <2>3
  <1> QED BY <1>1, <1>2, <1>3

\* A frame leaves an open item to be read.
LEMMA PendingIsItem ==
  ASSUME NEW f \in Frame
  PROVE  /\ Pending(f) \in OpenItem
         /\ Len(Pending(f).rest) = f.count - f.next + 1
         /\ Pending(f).close = "}" <=> f.kind = "message"
         /\ \A k \in 1 .. f.count - f.next + 1 :
              Pending(f).rest[k] =
                IF f.kind = "message" THEN f.fields[f.next - 1 + k] ELSE f.fields[1]
  <1> DEFINE n == f.count - f.next + 1
             at_k(k) == IF f.kind = "message" THEN f.fields[f.next - 1 + k] ELSE f.fields[1]
  <1>1. n \in Nat
    BY FrameParts
  <1>2. \A k \in 1 .. n : at_k(k) \in FieldRecord
    BY RestOfFrame
  <1> DEFINE items == [k \in 1 .. n |-> at_k(k)]
             token == IF f.kind = "message" THEN "}" ELSE "]"
  <1>3. Pending(f) = [close |-> token, rest |-> items]
    BY DEF Pending
  <1>t. token \in {"}", "]"} /\ (token = "}" <=> f.kind = "message")
    OBVIOUS
  <1> HIDE DEF n, at_k
  <1>4. items \in Seq(FieldRecord) /\ Len(items) = n /\ \A k \in 1 .. n : items[k] = at_k(k)
    BY <1>1, <1>2, IsASeq
  <1> HIDE DEF items, token
  <1>5. Pending(f).rest = items /\ Pending(f).close = token
    BY <1>3
  <1>6. \A k \in 1 .. n : Pending(f).rest[k] = at_k(k)
    BY <1>4, <1>5
  <1>7. Pending(f) \in OpenItem
    <2>1. [close |-> token, rest |-> items] \in OpenItem
      BY <1>4, <1>t DEF OpenItem
    <2> QED BY <1>3, <2>1
  <1>8. Len(Pending(f).rest) = n
    BY <1>4, <1>5
  <1>9. Pending(f).close = "}" <=> f.kind = "message"
    BY <1>5, <1>t
  <1> QED BY <1>6, <1>7, <1>8, <1>9 DEF n, at_k

\* Replacing the rest of an open item.
LEMMA RestReplaced ==
  ASSUME NEW C, NEW R, NEW p \in [close : C, rest : R], NEW r
  PROVE  [p EXCEPT !.rest = r] = [close |-> p.close, rest |-> r]
  OBVIOUS

\* Reading an item of a frame takes the first of those that are still to come.
LEMMA PendingAdvances ==
  ASSUME NEW f \in Frame, f.next <= f.count
  PROVE  /\ Pending(f).rest # <<>>
         /\ Head(Pending(f).rest) = IF f.kind = "message" THEN f.fields[f.next] ELSE f.fields[1]
         /\ Pending([f EXCEPT !.next = @ + 1]) = [Pending(f) EXCEPT !.rest = Tail(@)]
  <1> DEFINE n == f.count - f.next + 1
             at_k(k) == IF f.kind = "message" THEN f.fields[f.next - 1 + k] ELSE f.fields[1]
             g == [f EXCEPT !.next = @ + 1]
             rest == Pending(f).rest
  <1>1. n \in Nat /\ n > 0 /\ f.next \in Nat
    BY FrameParts
  <1>2. rest \in Seq(FieldRecord) /\ Len(rest) = n /\ \A k \in 1 .. n : rest[k] = at_k(k)
    BY PendingIsItem DEF OpenItem
  <1>3. f.next - 1 + 1 = f.next /\ f.next \in Nat
    BY <1>1
  <1>4. at_k(1) = IF f.kind = "message" THEN f.fields[f.next] ELSE f.fields[1]
    BY <1>3
  <1>5. g \in Frame /\ g.kind = f.kind /\ g.fields = f.fields /\ g.count = f.count
        /\ g.next = f.next + 1
    BY AdvancedIsFrame DEF Frame
  <1>6. g.count - g.next + 1 = n - 1
    <2>1. f.count \in Nat
      BY FrameParts
    <2> QED BY <1>1, <1>5, <2>1
  <1>7. \A k \in 1 .. n - 1 : g.next - 1 + k = f.next - 1 + (k + 1)
    BY <1>1, <1>5
  <1>8. Pending(g) = [close |-> IF f.kind = "message" THEN "}" ELSE "]",
                      rest |-> [k \in 1 .. n - 1 |-> at_k(k + 1)]]
    <2>1. Pending(g) = [close |-> IF g.kind = "message" THEN "}" ELSE "]",
                        rest |-> [k \in 1 .. g.count - g.next + 1 |->
                                    IF g.kind = "message" THEN g.fields[g.next - 1 + k]
                                    ELSE g.fields[1]]]
      BY DEF Pending
    <2> HIDE DEF g, n
    <2>2. [k \in 1 .. g.count - g.next + 1 |->
             IF g.kind = "message" THEN g.fields[g.next - 1 + k] ELSE g.fields[1]]
          = [k \in 1 .. n - 1 |-> at_k(k + 1)]
      BY <1>5, <1>6, <1>7
    <2> QED BY <1>5, <2>1, <2>2
  <1> HIDE DEF n, at_k, g
  <1>9. Tail(rest) = [k \in 1 .. n - 1 |-> at_k(k + 1)] /\ rest # <<>> /\ Head(rest) = at_k(1)
    <2> HIDE DEF rest
    <2>0. n - 1 \in Nat /\ rest # <<>>
      BY <1>1, <1>2
    <2>1. Tail(rest) = [k \in 1 .. n - 1 |-> rest[k + 1]]
      <3>1. /\ Tail(rest) \in Seq(FieldRecord) /\ Len(Tail(rest)) = n - 1
            /\ \A k \in 1 .. n - 1 : Tail(rest)[k] = rest[k + 1]
        BY <1>2, <2>0, HeadTailProperties
      <3>2. DOMAIN Tail(rest) = 1 .. n - 1
        BY <3>1, LenProperties
      <3> HIDE DEF rest
      <3>3. Tail(rest) = [k \in DOMAIN Tail(rest) |-> Tail(rest)[k]]
        BY <3>1, LenProperties
      <3> QED BY <3>1, <3>2, <3>3
    <2>2. \A k \in 1 .. n - 1 : k + 1 \in 1 .. n
      BY <1>1
    <2>3. Tail(rest) = [k \in 1 .. n - 1 |-> at_k(k + 1)]
      BY <1>2, <2>1, <2>2
    <2>4. 1 \in 1 .. n
      BY <1>1
    <2> QED BY <1>1, <1>2, <2>3, <2>4
  <1>10. Pending(f) = [close |-> IF f.kind = "message" THEN "}" ELSE "]", rest |-> rest]
    BY DEF Pending
  <1>rest. Pending(f).rest = rest
    OBVIOUS
  <1> HIDE DEF rest
  <1>11. [Pending(f) EXCEPT !.rest = Tail(@)] =
           [close |-> IF f.kind = "message" THEN "}" ELSE "]", rest |-> Tail(rest)]
    <2> DEFINE p == Pending(f)
    <2>1. /\ p \in [close : {"}", "]"}, rest : Seq(FieldRecord)] /\ p.rest = rest
          /\ p.close = IF f.kind = "message" THEN "}" ELSE "]"
      BY <1>rest, PendingIsItem DEF OpenItem, Pending
    <2> HIDE DEF p
    <2>2. [p EXCEPT !.rest = Tail(@)] = [close |-> p.close, rest |-> Tail(p.rest)]
      BY <2>1, RestReplaced
    <2> QED BY <2>1, <2>2 DEF p
  <1> QED BY <1>4, <1>8, <1>9, <1>11, <1>rest DEF g

\* The open messages and arrays, as frames are pushed and popped.
LEMMA OpenOfFrames ==
  ASSUME NEW fs \in Seq(Frame)
  PROVE  /\ OpenOf(fs) \in Seq(OpenItem) /\ Len(OpenOf(fs)) = Len(fs)
         /\ \A i \in 1 .. Len(fs) : OpenOf(fs)[i] = Pending(fs[i])
  <1>1. Len(fs) \in Nat /\ DOMAIN fs = 1 .. Len(fs)
    OBVIOUS
  <1>2. ASSUME NEW i \in 1 .. Len(fs) PROVE Pending(fs[i]) \in OpenItem
    <2>1. fs[i] \in Frame
      BY ElementOfSeq
    <2> QED BY <2>1, PendingIsItem
  <1>3. OpenOf(fs) = [i \in 1 .. Len(fs) |-> Pending(fs[i])]
    BY <1>1 DEF OpenOf
  <1> QED BY <1>1, <1>2, <1>3, IsASeq

LEMMA OpenOfAppend ==
  ASSUME NEW fs \in Seq(Frame), NEW f \in Frame
  PROVE  OpenOf(Append(fs, f)) = Append(OpenOf(fs), Pending(f))
  <1> DEFINE longer == Append(fs, f)
             a == OpenOf(longer)
             b == Append(OpenOf(fs), Pending(f))
             n == Len(fs)
  <1>1. n \in Nat
    OBVIOUS
  <1>2. /\ longer \in Seq(Frame) /\ Len(longer) = n + 1
        /\ \A i \in 1 .. n : longer[i] = fs[i]
        /\ longer[n + 1] = f
    BY AppendProperties
  <1>3. OpenOf(fs) \in Seq(OpenItem) /\ Len(OpenOf(fs)) = n
        /\ \A i \in 1 .. n : OpenOf(fs)[i] = Pending(fs[i])
    BY OpenOfFrames
  <1>4. a \in Seq(OpenItem) /\ Len(a) = n + 1
        /\ \A i \in 1 .. n + 1 : a[i] = Pending(longer[i])
    BY <1>2, OpenOfFrames
  <1>5. Pending(f) \in OpenItem
    BY PendingIsItem
  <1>6. /\ b \in Seq(OpenItem) /\ Len(b) = n + 1
        /\ \A i \in 1 .. n : b[i] = OpenOf(fs)[i]
        /\ b[n + 1] = Pending(f)
    BY <1>3, <1>5, AppendProperties
  <1> HIDE DEF a, b, n, longer
  <1>7. \A i \in 1 .. n + 1 : i = n + 1 \/ i \in 1 .. n
    BY <1>1
  <1>8. ASSUME NEW i \in 1 .. n + 1 PROVE a[i] = b[i]
    <2>1. CASE i = n + 1
      <3>1. a[n + 1] = Pending(longer[n + 1])
        BY <1>4, <2>1
      <3>2. longer[n + 1] = f /\ b[n + 1] = Pending(f)
        BY <1>2, <1>6
      <3>3. a[n + 1] = b[n + 1]
        BY <3>1, <3>2
      <3> QED BY <2>1, <3>3
    <2>2. CASE i \in 1 .. n
      <3>1. a[i] = Pending(longer[i]) /\ longer[i] = fs[i]
        BY <1>2, <1>4, <2>2
      <3>2. b[i] = OpenOf(fs)[i] /\ OpenOf(fs)[i] = Pending(fs[i])
        BY <1>3, <1>6, <2>2
      <3> QED BY <3>1, <3>2
    <2> QED BY <1>7, <2>1, <2>2
  <1>9. a = b
    BY <1>4, <1>6, <1>8, SeqEqual
  <1> QED BY <1>9 DEF a, b, longer

LEMMA OpenOfFront ==
  ASSUME NEW fs \in Seq(Frame), fs # <<>>
  PROVE  /\ OpenOf(fs) # <<>>
         /\ OpenOf(Front(fs)) = Front(OpenOf(fs))
         /\ Last(OpenOf(fs)) = Pending(fs[Len(fs)])
  <1> DEFINE a == OpenOf(Front(fs))
             b == Front(OpenOf(fs))
             n == Len(fs)
  <1>1. /\ n \in Nat \ {0}
        /\ Front(fs) \in Seq(Frame) /\ Len(Front(fs)) = n - 1
        /\ \A i \in 1 .. n - 1 : Front(fs)[i] = fs[i]
    BY FrontAndLast
  <1>2. OpenOf(fs) \in Seq(OpenItem) /\ Len(OpenOf(fs)) = n
        /\ \A i \in 1 .. n : OpenOf(fs)[i] = Pending(fs[i])
    BY OpenOfFrames
  <1>3. OpenOf(fs) # <<>>
    BY <1>1, <1>2, EmptySeq
  <1>4. a \in Seq(OpenItem) /\ Len(a) = n - 1
        /\ \A i \in 1 .. n - 1 : a[i] = Pending(Front(fs)[i])
    BY <1>1, OpenOfFrames
  <1>5. b \in Seq(OpenItem) /\ Len(b) = n - 1
        /\ \A i \in 1 .. n - 1 : b[i] = OpenOf(fs)[i]
    BY <1>2, <1>3, FrontAndLast
  <1> HIDE DEF a, b, n
  <1>6. \A i \in 1 .. n - 1 : i \in 1 .. n
    BY <1>1
  <1>7. \A i \in 1 .. n - 1 : a[i] = b[i]
    BY <1>1, <1>2, <1>4, <1>5, <1>6
  <1>8. a = b
    BY <1>4, <1>5, <1>7, SeqEqual
  <1>9. n \in 1 .. n
    BY <1>1
  <1>10. Last(OpenOf(fs)) = Pending(fs[n])
    BY <1>2, <1>9 DEF Last
  <1> QED BY <1>3, <1>8, <1>10 DEF a, b, n

LEMMA OpenOfAdvanced ==
  ASSUME frames \in Seq(Frame), ItemDue
  PROVE  /\ Advanced \in Seq(Frame)
         /\ OpenOf(Advanced) =
              Append(Front(OpenOf(frames)), [Last(OpenOf(frames)) EXCEPT !.rest = Tail(@)])
  <1>1. Top \in Frame /\ Top.next <= Top.count /\ frames # <<>> /\ Top = frames[Len(frames)]
    BY TopIsFrame DEF ItemDue, Top
  <1>2. /\ Advanced \in Seq(Frame)
        /\ Advanced = Append(Front(frames), [Top EXCEPT !.next = @ + 1])
    BY AdvancedIsFrames
  <1>3. Front(frames) \in Seq(Frame) /\ [Top EXCEPT !.next = @ + 1] \in Frame
    BY <1>1, FrontAndLast, AdvancedIsFrame
  <1>4. OpenOf(Advanced) = Append(OpenOf(Front(frames)), Pending([Top EXCEPT !.next = @ + 1]))
    BY <1>2, <1>3, OpenOfAppend
  <1>5. Pending([Top EXCEPT !.next = @ + 1]) = [Pending(Top) EXCEPT !.rest = Tail(@)]
    BY <1>1, PendingAdvances
  <1>6. OpenOf(Front(frames)) = Front(OpenOf(frames)) /\ Last(OpenOf(frames)) = Pending(Top)
    BY <1>1, OpenOfFront
  <1> QED BY <1>2, <1>4, <1>5, <1>6

\* The innermost open item of a reading is what the innermost frame leaves.
LEMMA ReadingNext ==
  ASSUME frames \in Seq(Frame), ItemDue
  PROVE  /\ ~Format!Finished(Reading)
         /\ Format!Innermost(Reading).rest # <<>>
         /\ Format!Item(Reading) = Field
         /\ Format!InMessage(Reading) <=> Top.kind = "message"
         /\ Format!IsArray(Reading) <=> ArrayDue
  <1>1. Top \in Frame /\ Top.next <= Top.count /\ frames # <<>> /\ Top = frames[Len(frames)]
    BY TopIsFrame DEF ItemDue, Top
  <1>2. Reading.open = OpenOf(frames)
    BY ReadingIs
  <1>3. OpenOf(frames) # <<>> /\ Last(OpenOf(frames)) = Pending(Top)
    BY <1>1, OpenOfFront
  <1>4. Format!Innermost(Reading) = Pending(Top)
    BY <1>2, <1>3 DEF Format!Innermost, Format!Last, Last
  <1>5. /\ Pending(Top).rest # <<>>
        /\ Head(Pending(Top).rest) = IF Top.kind = "message" THEN Top.fields[Top.next]
                                     ELSE Top.fields[1]
    BY <1>1, PendingAdvances
  <1>6. Top.kind = "message" \/ Top.kind = "array"
    BY <1>1, FrameParts
  <1>7. Format!Item(Reading) = Field
    BY <1>4, <1>5, <1>6 DEF Format!Item, Field
  <1>8. Format!InMessage(Reading) <=> Top.kind = "message"
    BY <1>1, <1>4, PendingIsItem DEF Format!InMessage
  <1>9. Format!IsArray(Reading) <=> ArrayDue
    BY <1>7, <1>8 DEF Format!IsArray, ArrayDue
  <1> QED BY <1>2, <1>3, <1>4, <1>5, <1>7, <1>8, <1>9 DEF Format!Finished

\* A reading after one more token.
LEMMA AfterReading ==
  ASSUME frames \in Seq(Frame), ItemDue, NEW end, NEW token
  PROVE  Format!After(Reading, end, token) =
           [pos |-> end, tokens |-> Append(Keyed, token), open |-> OpenOf(Advanced)]
  <1>1. Format!Innermost(Reading) = Last(OpenOf(frames)) /\ Reading.open = OpenOf(frames)
        /\ Reading.tokens = json
    BY ReadingIs DEF Format!Innermost, Format!Last, Last
  <1>2. OpenOf(Advanced) =
          Append(Front(OpenOf(frames)), [Last(OpenOf(frames)) EXCEPT !.rest = Tail(@)])
    BY OpenOfAdvanced
  <1>3. (IF Format!InMessage(Reading)
         THEN Append(Reading.tokens, <<"key", Format!Item(Reading).name>>)
         ELSE Reading.tokens) = Keyed
    BY <1>1, ReadingNext DEF Keyed
  <1>4. Format!After(Reading, end, token) =
          [pos |-> end,
           tokens |-> Append(IF Format!InMessage(Reading)
                             THEN Append(Reading.tokens, <<"key", Format!Item(Reading).name>>)
                             ELSE Reading.tokens, token),
           open |-> Append(Front(Reading.open),
                           [Format!Innermost(Reading) EXCEPT !.rest = Tail(@)])]
    BY DEF Format!After, Format!Front, Front
  <1> QED BY <1>1, <1>2, <1>3, <1>4

\* An item starts at the next boundary, nowhere else.
LEMMA OneBoundary ==
  ASSUME pos \in Nat, 4 <= pos, NEW n \in {1, 2, 4, 8}
  PROVE  Format!Boundaries(pos, n) = {Aligned(n)}
  <1>1. CASE n = 1
    BY <1>1 DEF Aligned, Format!Boundaries
  <1>2. CASE n = 2
    BY <1>2 DEF Aligned, Format!Boundaries
  <1>3. CASE n = 4
    BY <1>3 DEF Aligned, Format!Boundaries
  <1>4. CASE n = 8
    BY <1>4 DEF Aligned, Format!Boundaries
  <1> QED BY <1>1, <1>2, <1>3, <1>4

\* Ensure grants exactly what lies inside the payload.
LEMMA EnsureExact ==
  ASSUME NEW from \in Nat, NEW n \in Nat, size \in Nat
  PROVE  Ensure(from, n) <=> from + n <= size
  BY DEF Ensure

\* What is read raw is what the format has there, in either byte order.
LEMMA RawIsBytes ==
  ASSUME NEW from \in Nat, NEW n \in Nat, from + n <= size, 4 <= size,
         message.data \in Seq(Byte)
  PROVE  ReadRaw(from, n) = Format!Bytes(message.data, from, n)
  <1> DEFINE data == message.data
             raw == SubSeq(data, from + 1, from + n)
  <1>0. size \in Nat /\ size = Len(data)
    BY DEF size
  <1>1. LittleEndian <=> data[2] = 1
    BY <1>0 DEF LittleEndian, ByteAt
  <1>2. raw \in Seq(Byte) /\ Len(raw) = n /\ \A i \in 1 .. n : raw[i] = data[from + i]
    BY <1>0
  <1>3. ASSUME NEW i \in 1 .. n
        PROVE  /\ ByteAt(from + i) = data[from + i]
               /\ ByteAt(from + n + 1 - i) = data[from + n + 1 - i]
               /\ n - i + 1 \in 1 .. n /\ from + (n - i + 1) = from + n + 1 - i
    BY <1>0 DEF ByteAt
  <1>4. CASE LittleEndian
    <2>1. ReadRaw(from, n) = [i \in 1 .. n |-> data[from + i]]
      BY <1>3, <1>4 DEF ReadRaw
    <2>2. raw = [i \in 1 .. n |-> data[from + i]]
      BY <1>0
    <2> QED BY <1>1, <1>4, <2>1, <2>2 DEF Format!Bytes
  <1>5. CASE ~LittleEndian
    <2>1. ReadRaw(from, n) = [i \in 1 .. n |-> data[from + n + 1 - i]]
      BY <1>3, <1>5 DEF ReadRaw
    <2>2. Reverse(raw) = [i \in 1 .. n |-> raw[n - i + 1]]
      BY <1>2 DEF Reverse
    <2>3. \A i \in 1 .. n : raw[n - i + 1] = data[from + n + 1 - i]
      BY <1>2, <1>3
    <2>4. ReadRaw(from, n) = Reverse(raw)
      BY <2>1, <2>2, <2>3
    <2> QED BY <1>1, <1>5, <2>4 DEF Format!Bytes, Format!Reverse, Reverse
  <1> QED BY <1>4, <1>5

LEMMA LengthIsUnsigned ==
  ASSUME NEW from \in Nat, from + 4 <= size, 4 <= size, message.data \in Seq(Byte)
  PROVE  ReadUint32(from) = Format!Unsigned(Format!Bytes(message.data, from, 4))
  BY RawIsBytes DEF ReadUint32, Format!Unsigned

\* The length that is next, when the payload has one.
LEMMA OneLength ==
  ASSUME pos \in Nat, 4 <= pos, 4 <= size, message.data \in Seq(Byte)
  PROVE  Format!Lengths(message.data, pos) =
           IF Ensure(Aligned(4), 4)
           THEN {[end |-> Aligned(4) + 4, value |-> ReadUint32(Aligned(4))]} ELSE {}
  <1> DEFINE from == Aligned(4)
  <1>1. from \in Nat /\ size \in Nat /\ size = Len(message.data)
    BY AlignedForward DEF size
  <1>2. Format!Boundaries(pos, 4) = {from}
    BY OneBoundary
  <1> HIDE DEF from
  <1>3. Ensure(from, 4) <=> from + 4 <= Len(message.data)
    BY <1>1, EnsureExact
  <1>4. CASE from + 4 <= Len(message.data)
    <2>1. ReadUint32(from) = Format!Unsigned(Format!Bytes(message.data, from, 4))
      BY <1>1, <1>4, LengthIsUnsigned
    <2> QED BY <1>2, <1>3, <1>4, <2>1 DEF Format!Lengths, from
  <1>5. CASE ~(from + 4 <= Len(message.data))
    BY <1>2, <1>3, <1>5 DEF Format!Lengths, from
  <1> QED BY <1>4, <1>5

-----------------------------------------------------------------------------
(* What may follow in the format is one reading or none, and Ensure tells  *)
(* which.                                                                  *)

\* The reader is inside a payload.
ReaderAt ==
  at = "read" /\ pos \in Nat /\ 4 <= pos /\ 4 <= size /\ size \in Nat /\ message.data \in Seq(Byte)

\* While a message is decoded the reader is between the header and the end.
LEMMA ReaderIsAt ==
  ASSUME ReaderInv, at = "read"
  PROVE  ReaderAt
  <1>1. pos \in Nat /\ 4 <= pos /\ pos <= size /\ size \in Nat /\ message.data \in Seq(Byte)
    BY DEF ReaderInv, size
  <1> QED BY <1>1 DEF ReaderAt

\* What may follow when an item is due.
LEMMA FollowersOfItem ==
  ASSUME frames \in Seq(Frame), ItemDue
  PROVE  Format!Followers(message.data, Types, Reading) =
           IF ArrayDue THEN Format!Arrays(message.data, Reading)
           ELSE IF Field.is_primitive THEN Format!Primitives(message.data, Reading)
           ELSE Format!Nested(Types, Reading)
  BY ReadingNext DEF Format!Followers

\* The sizes of numbers are those of the code.
LEMMA SizeOfNumber ==
  ASSUME NEW type
  PROVE  {n \in DOMAIN Format!NumbersOf : type \in Format!NumbersOf[n]} =
           IF type \in DOMAIN Width THEN {Width[type]} ELSE {}
  <1>1. DOMAIN Format!NumbersOf = {1, 2, 4, 8}
    BY DEF Format!NumbersOf
  <1>2. Format!NumbersOf[1] = {"bool", "byte", "char", "int8", "uint8"}
    BY DEF Format!NumbersOf
  <1>3. Format!NumbersOf[2] = {"int16", "uint16"}
    BY DEF Format!NumbersOf
  <1>4. Format!NumbersOf[4] = {"int32", "uint32", "float32"}
    BY DEF Format!NumbersOf
  <1>5. Format!NumbersOf[8] = {"int64", "uint64", "float64"}
    BY DEF Format!NumbersOf
  <1>6. DOMAIN Width = {"bool", "byte", "char", "int8", "uint8", "int16", "uint16", "int32",
                        "uint32", "float32", "int64", "uint64", "float64"}
    BY DEF Width
  <1>7. CASE type \notin DOMAIN Width
    BY <1>1, <1>2, <1>3, <1>4, <1>5, <1>6, <1>7
  <1>8. CASE type \in {"bool", "byte", "char", "int8", "uint8"}
    <2>1. Width[type] = 1 /\ type \in DOMAIN Width
      BY <1>8 DEF Width
    <2> QED BY <1>1, <1>2, <1>3, <1>4, <1>5, <1>8, <2>1
  <1>9. CASE type \in {"int16", "uint16"}
    <2>1. Width[type] = 2 /\ type \in DOMAIN Width
      BY <1>9 DEF Width
    <2> QED BY <1>1, <1>2, <1>3, <1>4, <1>5, <1>9, <2>1
  <1>10. CASE type \in {"int32", "uint32", "float32"}
    <2>1. Width[type] = 4 /\ type \in DOMAIN Width
      BY <1>10 DEF Width
    <2> QED BY <1>1, <1>2, <1>3, <1>4, <1>5, <1>10, <2>1
  <1>11. CASE type \in {"int64", "uint64", "float64"}
    <2>1. Width[type] = 8 /\ type \in DOMAIN Width
      BY <1>11 DEF Width
    <2> QED BY <1>1, <1>2, <1>3, <1>4, <1>5, <1>11, <2>1
  <1> QED BY <1>6, <1>7, <1>8, <1>9, <1>10, <1>11

\* A number is shown as the format shows it.
LEMMA NumberIsShown ==
  ASSUME ReaderAt, NEW type \in DOMAIN Width, NEW from \in Nat, from + Width[type] <= size
  PROVE  Number(type, ReadRaw(from, Width[type])) =
           <<type, Format!Shown(type, Format!Bytes(message.data, from, Width[type]))>>
  <1> DEFINE n == Width[type]
             bytes == ReadRaw(from, n)
  <1>1. n \in Nat
    BY WidthIsAPower
  <1>2. Format!Bytes(message.data, from, n) = bytes
    BY <1>1, RawIsBytes DEF ReaderAt
  <1>3. CASE type = "bool"
    <2>1. n = 1
      BY <1>3 DEF Width
    <2>2. bytes = [i \in 1 .. 1 |-> ByteAt(IF LittleEndian THEN from + i ELSE from + 1 + 1 - i)]
      BY <2>1 DEF ReadRaw
    <2> HIDE DEF n, bytes
    <2>3. bytes = <<bytes[1]>>
      BY <2>2
    <2>4. bytes[1] = 0 => <<bytes[1]>> = <<0>>
      OBVIOUS
    <2> QED BY <1>2, <1>3, <2>3, <2>4 DEF Number, Format!Shown, n, bytes
  <1>4. CASE type # "bool"
    BY <1>2, <1>4 DEF Number, Format!Shown
  <1> QED BY <1>3, <1>4

\* The readings that follow a number: one when Ensure grants it, none otherwise.
LEMMA NumbersAre ==
  ASSUME ReaderAt, frames \in Seq(Frame), ItemDue, NEW type \in DOMAIN Width
  PROVE  LET n == Width[type]
             from == Aligned(n)
         IN  Format!Numbers(message.data, Reading, type, n) =
               IF Ensure(from, n)
               THEN {[pos |-> from + n, tokens |-> Append(Keyed, Number(type, ReadRaw(from, n))),
                      open |-> OpenOf(Advanced)]}
               ELSE {}
  <1> DEFINE n == Width[type]
             from == Aligned(n)
             data == message.data
             token == <<type, Format!Shown(type, Format!Bytes(data, from, n))>>
  <1>1. n \in {1, 2, 4, 8} /\ n \in Nat
    BY WidthIsAPower
  <1>2. from \in Nat
    BY <1>1, AlignedForward DEF ReaderAt
  <1>3. Format!Boundaries(Reading.pos, n) = {from}
    BY <1>1, OneBoundary, ReadingIs DEF ReaderAt
  <1>4. Ensure(from, n) <=> from + n <= Len(data)
    BY <1>1, <1>2, EnsureExact DEF ReaderAt, size
  <1>5. Format!Numbers(data, Reading, type, n) =
          IF from + n <= Len(data) THEN {Format!After(Reading, from + n, token)} ELSE {}
    BY <1>3 DEF Format!Numbers
  <1>6. Format!After(Reading, from + n, token) =
          [pos |-> from + n, tokens |-> Append(Keyed, token), open |-> OpenOf(Advanced)]
    BY AfterReading
  <1>7. Ensure(from, n) => Number(type, ReadRaw(from, n)) = token
    BY <1>2, <1>4, NumberIsShown DEF size
  <1> HIDE DEF n, from, token, data
  <1> QED BY <1>4, <1>5, <1>6, <1>7 DEF n, from, data

\* The same for a string ...
LEMMA StringsAre ==
  ASSUME ReaderAt, frames \in Seq(Frame), ItemDue
  PROVE  LET from == Aligned(4)
             len == ReadUint32(from)
             text == [i \in 1 .. len - 1 |-> ByteAt(from + 4 + i)]
         IN  Format!Strings(message.data, Reading) =
               IF Ensure(from, 4) /\ (len = 0 \/ Ensure(from + 4, len))
               THEN {[pos |-> from + 4 + len, tokens |-> Append(Keyed, <<"string", text>>),
                      open |-> OpenOf(Advanced)]}
               ELSE {}
  <1> DEFINE from == Aligned(4)
             len == ReadUint32(from)
             data == message.data
             text == [i \in 1 .. len - 1 |-> ByteAt(from + 4 + i)]
             shown == SubSeq(data, from + 4 + 1, from + 4 + len - 1)
  <1>1. from \in Nat /\ from + 4 \in Nat
    BY AlignedForward DEF ReaderAt
  <1>2. len \in Nat
    BY <1>1, LengthIsNat DEF ReaderAt
  <1>3. Format!Lengths(data, Reading.pos) =
          IF Ensure(from, 4) THEN {[end |-> from + 4, value |-> len]} ELSE {}
    BY OneLength, ReadingIs DEF ReaderAt
  <1>4. Ensure(from, 4) <=> from + 4 <= Len(data)
    BY <1>1, EnsureExact DEF ReaderAt, size
  <1>5. Ensure(from + 4, len) <=> from + 4 + len <= Len(data)
    BY <1>1, <1>2, EnsureExact DEF ReaderAt, size
  <1>6. Format!Strings(data, Reading) =
          IF Ensure(from, 4) /\ from + 4 + len <= Len(data)
          THEN {Format!After(Reading, from + 4 + len, <<"string", shown>>)} ELSE {}
    <2> DEFINE l == [end |-> from + 4, value |-> len]
               fits == {k \in Format!Lengths(data, Reading.pos) : k.end + k.value <= Len(data)}
    <2>1. l.end = from + 4 /\ l.value = len
      OBVIOUS
    <2> HIDE DEF from, len, data, l
    <2>2. fits = IF Ensure(from, 4) /\ from + 4 + len <= Len(data) THEN {l} ELSE {}
      BY <1>3, <2>1 DEF l
    <2>3. Format!Strings(data, Reading) =
            {Format!After(Reading, k.end + k.value,
                          <<"string", SubSeq(data, k.end + 1, k.end + k.value - 1)>>) : k \in fits}
      BY DEF Format!Strings
    <2> HIDE DEF fits
    <2> QED BY <2>1, <2>2, <2>3
  <1>7. Format!After(Reading, from + 4 + len, <<"string", shown>>) =
          [pos |-> from + 4 + len, tokens |-> Append(Keyed, <<"string", shown>>),
           open |-> OpenOf(Advanced)]
    BY AfterReading
  <1>8. Len(data) = size /\ size \in Nat /\ data \in Seq(Byte)
    BY DEF ReaderAt, size
  <1> HIDE DEF from, len
  <1>9. ASSUME from + 4 + len <= Len(data) PROVE shown = text
    <2>1. \A i \in 1 .. len - 1 : from + 4 + i \in 1 .. size
      BY <1>1, <1>2, <1>8, <1>9
    <2>2. text = [i \in 1 .. len - 1 |-> data[from + 4 + i]]
      BY <2>1 DEF ByteAt
    <2>3. shown = [i \in 1 .. len - 1 |-> data[from + 4 + i]]
      BY <1>1, <1>2, <1>8, <1>9
    <2> QED BY <2>2, <2>3
  <1> HIDE DEF text, shown, data
  <1>10. (Ensure(from, 4) /\ (len = 0 \/ Ensure(from + 4, len)))
           <=> (Ensure(from, 4) /\ from + 4 + len <= Len(data))
    <2>1. len = 0 => from + 4 + len = from + 4
      BY <1>1
    <2> QED BY <1>4, <1>5, <2>1
  <1>11. Format!Strings(data, Reading) =
           IF Ensure(from, 4) /\ (len = 0 \/ Ensure(from + 4, len))
           THEN {[pos |-> from + 4 + len, tokens |-> Append(Keyed, <<"string", text>>),
                  open |-> OpenOf(Advanced)]}
           ELSE {}
    BY <1>6, <1>7, <1>9, <1>10
  <1> QED BY <1>11 DEF from, len, text, data

\* ... and for any primitive, by its type.
LEMMA PrimitivesAre ==
  ASSUME frames \in Seq(Frame), ItemDue, Field.is_primitive
  PROVE  Format!Primitives(message.data, Reading) =
           IF IsNumber(Field)
           THEN Format!Numbers(message.data, Reading, Field.type[1], Width[Field.type[1]])
           ELSE IF IsString(Field) THEN Format!Strings(message.data, Reading)
           ELSE {}
  <1> DEFINE type == Field.type[1]
             data == message.data
             sizes == {n \in DOMAIN Format!NumbersOf : type \in Format!NumbersOf[n]}
             numbers == UNION {Format!Numbers(data, Reading, type, n) : n \in sizes}
  <1>1. Format!Primitives(data, Reading) =
          IF Field.type = <<"string">> THEN Format!Strings(data, Reading) ELSE numbers
    BY ReadingNext DEF Format!Primitives
  <1>2. sizes = IF type \in DOMAIN Width THEN {Width[type]} ELSE {}
    BY SizeOfNumber
  <1>3. Field.type = <<"string">> => type \notin DOMAIN Width
    BY DEF Width
  <1>4. (IsNumber(Field) <=> type \in DOMAIN Width) /\ (IsString(Field) <=> Field.type = <<"string">>)
    BY DEF IsNumber, IsString
  <1> HIDE DEF type, data, sizes
  <1>5. CASE type \in DOMAIN Width
    <2>1. numbers = Format!Numbers(data, Reading, type, Width[type])
      BY <1>2, <1>5
    <2> QED BY <1>1, <1>3, <1>4, <1>5, <2>1 DEF type, data
  <1>6. CASE type \notin DOMAIN Width
    <2>1. numbers = {}
      BY <1>2, <1>6
    <2> HIDE DEF numbers
    <2> QED BY <1>1, <1>4, <1>6, <2>1 DEF type, data
  <1> QED BY <1>5, <1>6

-----------------------------------------------------------------------------
(* Every step of the decoder takes the reading that may follow.            *)

\* The reading after a step.
LEMMA ReadingPrime == Reading' = [pos |-> pos', tokens |-> json', open |-> OpenOf(frames')]
  BY DEF Reading, OpenOf

LEMMA ItemIsRecord ==
  ASSUME DecoderInv, ItemDue
  PROVE  /\ frames \in Seq(Frame) /\ ReaderAt
         /\ Field \in FieldRecord
         /\ Field.array \in {"none", "dynamic", "fixed"} /\ Field.array_size \in Nat
         /\ \A t \in DOMAIN Types : Types[t] \in Seq(FieldRecord)
  <1>1. frames \in Seq(Frame) /\ ReaderInv /\ CacheInv /\ at = "read"
    BY DEF DecoderInv, StackInv, ItemDue
  <1>2. Field \in FieldRecord
    BY <1>1, FieldIsField
  <1> QED BY <1>1, <1>2, ReaderIsAt, TypesAreParsed DEF FieldRecord

\* A message or an array that is opened has all its fields or elements to come.
LEMMA MessagePending ==
  ASSUME NEW fields \in Seq(FieldRecord)
  PROVE  Pending(MessageFrame(fields)) = [close |-> "}", rest |-> fields]
  <1>1. Len(fields) \in Nat /\ DOMAIN fields = 1 .. Len(fields)
    OBVIOUS
  <1>2. Pending(MessageFrame(fields)) =
          [close |-> "}", rest |-> [k \in 1 .. Len(fields) - 1 + 1 |-> fields[1 - 1 + k]]]
    BY DEF Pending, MessageFrame
  <1> DEFINE n == Len(fields)
  <1>3. n - 1 + 1 = n
    BY <1>1
  <1>4. \A k \in 1 .. n : 1 - 1 + k = k
    OBVIOUS
  <1> HIDE DEF n
  <1>5. [k \in 1 .. n - 1 + 1 |-> fields[1 - 1 + k]] = [k \in 1 .. n |-> fields[k]]
    BY <1>3, <1>4
  <1>6. fields = [k \in 1 .. n |-> fields[k]]
    BY <1>1 DEF n
  <1> QED BY <1>2, <1>5, <1>6 DEF n

LEMMA ArrayPending ==
  ASSUME NEW field, NEW n \in Nat
  PROVE  Pending(ArrayFrame(field, n)) = [close |-> "]", rest |-> [k \in 1 .. n |-> field]]
  <1>1. Pending(ArrayFrame(field, n)) =
          [close |-> "]", rest |-> [k \in 1 .. n - 1 + 1 |-> <<field>>[1]]]
    BY DEF Pending, ArrayFrame
  <1>2. n - 1 + 1 = n /\ <<field>>[1] = field
    OBVIOUS
  <1> QED BY <1>1, <1>2

\* Replacing parts of a reading.
LEMMA OpenReplaced ==
  ASSUME NEW P, NEW T, NEW O, NEW r \in [pos : P, tokens : T, open : O], NEW o
  PROVE  [r EXCEPT !.open = o] = [pos |-> r.pos, tokens |-> r.tokens, open |-> o]
  OBVIOUS

LEMMA TokensReplaced ==
  ASSUME NEW P, NEW T, NEW O, NEW r \in [pos : P, tokens : T, open : O], NEW t, NEW o
  PROVE  [r EXCEPT !.tokens = t, !.open = o] = [pos |-> r.pos, tokens |-> t, open |-> o]
  <1> DEFINE q == [r EXCEPT !.tokens = t]
  <1>1. q \in [pos : P, tokens : {t}, open : O] /\ q.pos = r.pos /\ q.tokens = t
    OBVIOUS
  <1>2. [r EXCEPT !.tokens = t, !.open = o] = [q EXCEPT !.open = o]
    OBVIOUS
  <1> HIDE DEF q
  <1>3. [q EXCEPT !.open = o] = [pos |-> q.pos, tokens |-> q.tokens, open |-> o]
    BY <1>1, OpenReplaced
  <1> QED BY <1>1, <1>2, <1>3

LEMMA IsReading ==
  ASSUME NEW p, NEW t, NEW o
  PROVE  [pos |-> p, tokens |-> t, open |-> o] \in [pos : {p}, tokens : {t}, open : {o}]
  OBVIOUS

\* After one more token, another message or array is open.
OpensFrame(end, token, close, rest, f) ==
  Format!Opened(Format!After(Reading, end, token), close, rest) =
    [pos |-> end, tokens |-> Append(Keyed, token), open |-> OpenOf(Append(Advanced, f))]

LEMMA OpenedReading ==
  ASSUME frames \in Seq(Frame), ItemDue, NEW end, NEW token, NEW close, NEW rest,
         NEW f \in Frame, Pending(f) = [close |-> close, rest |-> rest]
  PROVE  OpensFrame(end, token, close, rest, f)
  <1>1. Advanced \in Seq(Frame)
    BY AdvancedIsFrames
  <1>2. OpenOf(Append(Advanced, f)) = Append(OpenOf(Advanced), Pending(f))
    BY <1>1, OpenOfAppend
  <1> DEFINE after == Format!After(Reading, end, token)
  <1>3. after = [pos |-> end, tokens |-> Append(Keyed, token), open |-> OpenOf(Advanced)]
    BY AfterReading
  <1> HIDE DEF after
  <1>4. Format!Opened(after, close, rest) =
          [pos |-> after.pos, tokens |-> after.tokens,
           open |-> Append(after.open, [close |-> close, rest |-> rest])]
    <2>1. after \in [pos : {end}, tokens : {Append(Keyed, token)}, open : {OpenOf(Advanced)}]
      BY <1>3, IsReading
    <2> DEFINE open == Append(after.open, [close |-> close, rest |-> rest])
    <2>2. Format!Opened(after, close, rest) = [after EXCEPT !.open = open]
      BY DEF Format!Opened
    <2> HIDE DEF open
    <2>3. [after EXCEPT !.open = open] =
            [pos |-> after.pos, tokens |-> after.tokens, open |-> open]
      BY <2>1, OpenReplaced
    <2> QED BY <2>2, <2>3 DEF open
  <1> QED BY <1>2, <1>3, <1>4 DEF OpensFrame, after

\* Each step that goes on reading takes the one reading that may follow.
LEMMA NumberFollows ==
  ASSUME DecoderInv, AppendNumber
  PROVE  Format!Followers(message.data, Types, Reading) = {Reading'}
  <1> DEFINE n == Width[Field.type[1]]
             from == Aligned(n)
  <1>1. /\ ItemDue /\ ~ArrayDue /\ IsNumber(Field) /\ Ensure(from, n)
        /\ json' = Append(Keyed, Number(Field.type[1], ReadRaw(from, n)))
        /\ pos' = from + n /\ frames' = Advanced
    BY DEF AppendNumber
  <1>2. frames \in Seq(Frame) /\ ReaderAt
    BY <1>1, ItemIsRecord
  <1>3. Field.is_primitive /\ Field.type[1] \in DOMAIN Width
    BY <1>1 DEF IsNumber
  <1>4. Format!Followers(message.data, Types, Reading) =
          Format!Numbers(message.data, Reading, Field.type[1], n)
    BY <1>1, <1>2, <1>3, FollowersOfItem, PrimitivesAre
  <1>5. Format!Numbers(message.data, Reading, Field.type[1], n) =
          {[pos |-> from + n, tokens |-> Append(Keyed, Number(Field.type[1], ReadRaw(from, n))),
            open |-> OpenOf(Advanced)]}
    BY <1>1, <1>2, <1>3, NumbersAre
  <1> HIDE DEF n, from
  <1> QED BY <1>1, <1>4, <1>5, ReadingPrime

LEMMA StringFollows ==
  ASSUME DecoderInv, AppendString
  PROVE  Format!Followers(message.data, Types, Reading) = {Reading'}
  <1> DEFINE from == Aligned(4)
             len == ReadUint32(from)
             text == [i \in 1 .. len - 1 |-> ByteAt(from + 4 + i)]
  <1>1. /\ ItemDue /\ ~ArrayDue /\ IsString(Field)
        /\ Ensure(from, 4) /\ (len = 0 \/ Ensure(from + 4, len))
        /\ json' = Append(Keyed, <<"string", text>>)
        /\ pos' = from + 4 + len /\ frames' = Advanced
    BY DEF AppendString
  <1>2. frames \in Seq(Frame) /\ ReaderAt
    BY <1>1, ItemIsRecord
  <1>3. Field.is_primitive /\ ~IsNumber(Field)
    BY <1>1 DEF IsString, IsNumber, Width
  <1>4. Format!Followers(message.data, Types, Reading) =
          Format!Strings(message.data, Reading)
    BY <1>1, <1>2, <1>3, FollowersOfItem, PrimitivesAre
  <1>5. Format!Strings(message.data, Reading) =
          {[pos |-> from + 4 + len, tokens |-> Append(Keyed, <<"string", text>>),
            open |-> OpenOf(Advanced)]}
    BY <1>1, <1>2, StringsAre
  <1> HIDE DEF from, len, text
  <1> QED BY <1>1, <1>4, <1>5, ReadingPrime

LEMMA MessageFollows ==
  ASSUME DecoderInv, OpenMessage
  PROVE  Format!Followers(message.data, Types, Reading) = {Reading'}
  <1> DEFINE fields == Types[Field.type]
  <1>1. /\ ItemDue /\ ~ArrayDue /\ ~Field.is_primitive /\ Field.type \in DOMAIN Types
        /\ json' = Append(Keyed, <<"{">>) /\ pos' = pos
        /\ frames' = Append(Advanced, MessageFrame(fields))
    BY DEF OpenMessage
  <1>2. frames \in Seq(Frame) /\ fields \in Seq(FieldRecord)
    BY <1>1, ItemIsRecord
  <1>3. Format!Followers(message.data, Types, Reading) = Format!Nested(Types, Reading)
    BY <1>1, <1>2, FollowersOfItem
  <1>4. Format!Nested(Types, Reading) =
          {Format!Opened(Format!After(Reading, pos, <<"{">>), "}", fields)}
    <2>1. Format!Item(Reading) = Field /\ Reading.pos = pos
      BY <1>1, <1>2, ReadingNext, ReadingIs
    <2>2. {Field.type} \cap DOMAIN Types = {Field.type}
      BY <1>1
    <2> QED BY <2>1, <2>2 DEF Format!Nested
  <1>5. Pending(MessageFrame(fields)) = [close |-> "}", rest |-> fields]
        /\ MessageFrame(fields) \in Frame
    BY <1>2, MessagePending, MessageFrameIsFrame
  <1> HIDE DEF fields
  <1> DEFINE f == MessageFrame(fields)
  <1>6. f \in Frame /\ Pending(f) = [close |-> "}", rest |-> fields]
    BY <1>5
  <1>7. Reading' = [pos |-> pos, tokens |-> Append(Keyed, <<"{">>), open |-> OpenOf(Append(Advanced, f))]
    BY <1>1, ReadingPrime
  <1> HIDE DEF f
  <1>8. OpensFrame(pos, <<"{">>, "}", fields, f)
    BY <1>1, <1>2, <1>6, OpenedReading, Zenon
  <1> QED BY <1>3, <1>4, <1>7, <1>8 DEF OpensFrame

LEMMA ArrayFollows ==
  ASSUME DecoderInv, ItemDue, NEW end, NEW n \in Nat,
         pos' = end, json' = Append(Keyed, <<"[">>),
         frames' = Append(Advanced, ArrayFrame(Field, n))
  PROVE  Format!Array(Reading, end, n) = Reading'
  <1>1. frames \in Seq(Frame) /\ Field \in FieldRecord
    BY ItemIsRecord
  <1>2. Pending(ArrayFrame(Field, n)) = [close |-> "]", rest |-> [k \in 1 .. n |-> Field]]
        /\ ArrayFrame(Field, n) \in Frame
    BY <1>1, ArrayPending, ArrayFrameIsFrame
  <1>3. Format!Array(Reading, end, n) =
          Format!Opened(Format!After(Reading, end, <<"[">>), "]", [k \in 1 .. n |-> Field])
    BY <1>1, ReadingNext DEF Format!Array
  <1> DEFINE f == ArrayFrame(Field, n)
             rest == [k \in 1 .. n |-> Field]
  <1>6. f \in Frame /\ Pending(f) = [close |-> "]", rest |-> rest]
    BY <1>2
  <1> HIDE DEF f, rest
  <1>4. OpensFrame(end, <<"[">>, "]", rest, f)
    BY <1>1, <1>6, OpenedReading, Zenon
  <1>5. Reading' = [pos |-> end, tokens |-> Append(Keyed, <<"[">>), open |-> OpenOf(Append(Advanced, f))]
    BY ReadingPrime DEF f
  <1> QED BY <1>3, <1>4, <1>5, Zenon DEF OpensFrame, rest

LEMMA FixedArrayFollows ==
  ASSUME DecoderInv, OpenFixedArray
  PROVE  Format!Followers(message.data, Types, Reading) = {Reading'}
  <1>1. /\ ItemDue /\ ArrayDue /\ Field.array = "fixed"
        /\ json' = Append(Keyed, <<"[">>) /\ pos' = pos
        /\ frames' = Append(Advanced, ArrayFrame(Field, Field.array_size))
    BY DEF OpenFixedArray
  <1>2. frames \in Seq(Frame) /\ Field.array_size \in Nat
    BY <1>1, ItemIsRecord
  <1>3. Format!Followers(message.data, Types, Reading) = Format!Arrays(message.data, Reading)
    BY <1>1, <1>2, FollowersOfItem
  <1>4. Format!Arrays(message.data, Reading) = {Format!Array(Reading, pos, Field.array_size)}
    BY <1>1, <1>2, ReadingNext, ReadingIs DEF Format!Arrays
  <1>5. Format!Array(Reading, pos, Field.array_size) = Reading'
    BY <1>1, <1>2, ArrayFollows
  <1> QED BY <1>3, <1>4, <1>5

LEMMA DynamicArrayFollows ==
  ASSUME DecoderInv, OpenDynamicArray
  PROVE  Format!Followers(message.data, Types, Reading) = {Reading'}
  <1> DEFINE from == Aligned(4)
             len == ReadUint32(from)
  <1>1. /\ ItemDue /\ ArrayDue /\ Field.array = "dynamic" /\ Ensure(from, 4)
        /\ json' = Append(Keyed, <<"[">>) /\ pos' = from + 4
        /\ frames' = Append(Advanced, ArrayFrame(Field, len))
    BY DEF OpenDynamicArray
  <1>2. frames \in Seq(Frame) /\ ReaderAt
    BY <1>1, ItemIsRecord
  <1>3. from \in Nat /\ len \in Nat
    BY <1>2, AlignedForward, LengthIsNat DEF ReaderAt
  <1>4. Format!Followers(message.data, Types, Reading) = Format!Arrays(message.data, Reading)
    BY <1>1, <1>2, FollowersOfItem
  <1>5. Format!Lengths(message.data, Reading.pos) = {[end |-> from + 4, value |-> len]}
    BY <1>1, <1>2, OneLength, ReadingIs DEF ReaderAt
  <1>6. Format!Arrays(message.data, Reading) =
          {Format!Array(Reading, l.end, l.value) : l \in Format!Lengths(message.data, Reading.pos)}
    BY <1>1, <1>2, ReadingNext DEF Format!Arrays
  <1> HIDE DEF from, len
  <1>7. Format!Arrays(message.data, Reading) = {Format!Array(Reading, from + 4, len)}
    BY <1>5, <1>6
  <1>8. Format!Array(Reading, from + 4, len) = Reading'
    BY <1>1, <1>3, ArrayFollows
  <1> QED BY <1>4, <1>7, <1>8

LEMMA CloseFollows ==
  ASSUME DecoderInv, Close
  PROVE  Format!Followers(message.data, Types, Reading) = {Reading'}
  <1>1. /\ frames # <<>> /\ Top.next > Top.count
        /\ json' = Append(json, IF Top.kind = "array" THEN <<"]">> ELSE <<"}">>)
        /\ frames' = Front(frames) /\ pos' = pos
    BY DEF Close
  <1>2. frames \in Seq(Frame) /\ Top \in Frame /\ Top = frames[Len(frames)]
    BY <1>1, TopIsFrame DEF DecoderInv, StackInv, Top
  <1>3. /\ OpenOf(frames) # <<>>
        /\ OpenOf(Front(frames)) = Front(OpenOf(frames))
        /\ Last(OpenOf(frames)) = Pending(Top)
    BY <1>1, <1>2, OpenOfFront
  <1>4. Format!Innermost(Reading) = Pending(Top) /\ Reading.open = OpenOf(frames)
    BY <1>3, ReadingIs DEF Format!Innermost, Format!Last, Last
  <1>5. Pending(Top).rest = <<>>
    <2>1. Pending(Top).rest \in Seq(FieldRecord) /\ Len(Pending(Top).rest) = Top.count - Top.next + 1
      BY <1>2, PendingIsItem DEF OpenItem
    <2>2. Top.next \in Nat /\ Top.count \in Nat /\ Top.next \in 1 .. Top.count + 1
      BY <1>2, FrameParts
    <2>3. Top.count - Top.next + 1 = 0
      <3> DEFINE next == Top.next
                 count == Top.count
      <3>1. next \in Nat /\ count \in Nat /\ next \in 1 .. count + 1 /\ next > count
        BY <1>1, <2>2
      <3> HIDE DEF next, count
      <3>2. count - next + 1 = 0
        BY <3>1
      <3> QED BY <3>2 DEF next, count
    <2> QED BY <2>1, <2>3, EmptySeq
  <1>6. Format!Followers(message.data, Types, Reading) = {Format!Closed(Reading)}
    BY <1>3, <1>4, <1>5 DEF Format!Followers, Format!Finished
  <1>7. <<Pending(Top).close>> = IF Top.kind = "array" THEN <<"]">> ELSE <<"}">>
    BY <1>2, FrameParts DEF Pending
  <1>8. Format!Closed(Reading) =
          [pos |-> pos, tokens |-> Append(json, <<Pending(Top).close>>),
           open |-> Front(OpenOf(frames))]
    <2> DEFINE t == Append(json, <<Pending(Top).close>>)
               o == Front(OpenOf(frames))
    <2>1. Reading \in [pos : {pos}, tokens : {json}, open : {OpenOf(frames)}]
      BY ReadingIs, IsReading
    <2>2. Reading.pos = pos /\ Reading.tokens = json /\ Reading.open = OpenOf(frames)
      BY ReadingIs
    <2>3. Format!Closed(Reading) = [Reading EXCEPT !.tokens = t, !.open = o]
      BY <1>4, <2>2 DEF Format!Closed, Format!Front, Front
    <2> HIDE DEF t, o
    <2>4. Format!Closed(Reading) = [pos |-> pos, tokens |-> t, open |-> o]
      BY <2>1, <2>2, <2>3, TokensReplaced
    <2> QED BY <2>4 DEF t, o
  <1> QED BY <1>1, <1>3, <1>6, <1>7, <1>8, ReadingPrime

\* Where the decoder gives up nothing may follow ...
LEMMA GiveUpHasNoFollower ==
  ASSUME DecoderInv, GiveUp
  PROVE  Format!Followers(message.data, Types, Reading) = {} /\ ~Format!Finished(Reading)
  <1>1. ItemDue /\ Fails
    BY DEF GiveUp
  <1>2. /\ frames \in Seq(Frame) /\ ReaderAt /\ Field \in FieldRecord
        /\ Field.array \in {"none", "dynamic", "fixed"}
    BY <1>1, ItemIsRecord
  <1>3. ~Format!Finished(Reading)
    BY <1>1, <1>2, ReadingNext
  <1>4. CASE ArrayDue
    <2>1. Field.array = "dynamic" /\ ~Ensure(Aligned(4), 4)
      BY <1>1, <1>4 DEF Fails
    <2>2. Format!Lengths(message.data, Reading.pos) = {}
      BY <1>2, <2>1, OneLength, ReadingIs DEF ReaderAt
    <2>3. Format!Arrays(message.data, Reading) = {}
      BY <1>1, <1>2, <2>1, <2>2, ReadingNext DEF Format!Arrays
    <2> QED BY <1>1, <1>2, <1>3, <1>4, <2>3, FollowersOfItem
  <1>5. CASE ~ArrayDue /\ IsNumber(Field)
    <2> DEFINE n == Width[Field.type[1]]
    <2>1. Field.is_primitive /\ Field.type[1] \in DOMAIN Width /\ ~Ensure(Aligned(n), n)
      BY <1>1, <1>5 DEF Fails, IsNumber
    <2>2. Format!Numbers(message.data, Reading, Field.type[1], n) = {}
      BY <1>1, <1>2, <2>1, NumbersAre
    <2>3. Format!Primitives(message.data, Reading) = {}
      BY <1>1, <1>2, <1>5, <2>1, <2>2, PrimitivesAre
    <2> QED BY <1>1, <1>2, <1>3, <1>5, <2>1, <2>3, FollowersOfItem
  <1>6. CASE ~ArrayDue /\ ~IsNumber(Field) /\ IsString(Field)
    <2>1. Field.is_primitive /\ ~Ensure(Aligned(4), 4)
      BY <1>1, <1>6 DEF Fails, IsString
    <2>2. Format!Strings(message.data, Reading) = {}
      BY <1>1, <1>2, <2>1, StringsAre
    <2>3. Format!Primitives(message.data, Reading) = {}
      BY <1>1, <1>2, <1>6, <2>1, <2>2, PrimitivesAre
    <2> QED BY <1>1, <1>2, <1>3, <1>6, <2>1, <2>3, FollowersOfItem
  <1>7. CASE ~ArrayDue /\ ~IsNumber(Field) /\ ~IsString(Field) /\ Field.is_primitive
    <2>1. Format!Primitives(message.data, Reading) = {}
      BY <1>1, <1>2, <1>7, PrimitivesAre
    <2> QED BY <1>1, <1>2, <1>3, <1>7, <2>1, FollowersOfItem
  <1>8. CASE ~ArrayDue /\ ~IsNumber(Field) /\ ~IsString(Field) /\ ~Field.is_primitive
    <2>1. Field.type \notin DOMAIN Types
      BY <1>1, <1>8 DEF Fails
    <2>2. Format!Item(Reading) = Field
      BY <1>1, <1>2, ReadingNext
    <2>3. {Field.type} \cap DOMAIN Types = {}
      BY <2>1
    <2>4. Format!Nested(Types, Reading) = {}
      BY <2>2, <2>3 DEF Format!Nested
    <2> QED BY <1>1, <1>2, <1>3, <1>8, <2>4, FollowersOfItem
  <1> QED BY <1>4, <1>5, <1>6, <1>7, <1>8

\* ... not in a string either.
LEMMA GiveUpInStringHasNoFollower ==
  ASSUME DecoderInv, GiveUpInString
  PROVE  Format!Followers(message.data, Types, Reading) = {} /\ ~Format!Finished(Reading)
  <1> DEFINE from == Aligned(4)
             len == ReadUint32(from)
  <1>1. ItemDue /\ ~ArrayDue /\ IsString(Field) /\ len # 0 /\ ~Ensure(from + 4, len)
    BY DEF GiveUpInString
  <1>2. frames \in Seq(Frame) /\ ReaderAt
    BY <1>1, ItemIsRecord
  <1>3. Field.is_primitive /\ ~IsNumber(Field)
    BY <1>1 DEF IsString, IsNumber, Width
  <1>4. Format!Strings(message.data, Reading) = {}
    BY <1>1, <1>2, StringsAre
  <1>5. Format!Primitives(message.data, Reading) = {}
    BY <1>1, <1>2, <1>3, <1>4, PrimitivesAre
  <1> QED BY <1>1, <1>2, <1>3, <1>5, FollowersOfItem, ReadingNext

\* A message begins with the fields of its root type, from the cache or new.
LEMMA BeginsWithRoot ==
  ASSUME CacheInv, NEW m \in Messages, BeginRoot(m)
  PROVE  /\ message' = m /\ at' = "read" /\ HasSchema(m) /\ IsPlainCdr(m.data)
         /\ schemas'[m.schema] = Parsed[m.schema]
         /\ Reading' = Format!Begin(Parsed[m.schema].types[Parsed[m.schema].root])
  <1> DEFINE fields == Parsed[m.schema].types[Parsed[m.schema].root]
  <1>1. /\ LoadSchema(m.schema) /\ message' = m /\ at' = "read" /\ HasSchema(m) /\ IsPlainCdr(m.data)
        /\ pos' = 4 /\ json' = <<<<"{">>>>
        /\ frames' = <<MessageFrame(schemas'[m.schema].types[schemas'[m.schema].root])>>
    BY DEF BeginRoot
  <1>2. schemas'[m.schema] = Parsed[m.schema] /\ m.schema \in Schemas
    BY <1>1, CacheGrows
  <1>3. fields \in Seq(FieldRecord)
    BY <1>2, ParsedIsTable, TableParts
  <1>4. frames' = <<MessageFrame(fields)>>
    BY <1>1, <1>2
  <1>5. Pending(MessageFrame(fields)) = [close |-> "}", rest |-> fields]
    BY <1>3, MessagePending
  <1> HIDE DEF fields
  <1>6. OpenOf(<<MessageFrame(fields)>>) = <<Pending(MessageFrame(fields))>>
    BY DEF OpenOf
  <1>7. Reading' = [pos |-> 4, tokens |-> <<<<"{">>>>, open |-> <<[close |-> "}", rest |-> fields]>>]
    BY <1>1, <1>4, <1>5, <1>6, ReadingPrime
  <1>8. Reading' = Format!Begin(fields)
    BY <1>7 DEF Format!Begin
  <1> QED BY <1>1, <1>2, <1>8 DEF fields

\* The steps of the decoder that go on reading.
ReadStep ==
  AppendNumber \/ AppendString \/ OpenMessage \/ OpenFixedArray \/ OpenDynamicArray \/ Close

\* In sum: reading goes on as the format does ...
LEMMA OnlyFollower ==
  ASSUME DecoderInv, ReadStep
  PROVE  /\ at = "read" /\ at' = "read" /\ UNCHANGED <<schemas, message>>
         /\ Format!Followers(message.data, Types, Reading) = {Reading'}
  <1>1. at = "read" /\ at' = "read" /\ UNCHANGED <<schemas, message>>
    BY DEF ReadStep, AppendNumber, AppendString, OpenMessage, OpenFixedArray, OpenDynamicArray,
           Close, ItemDue
  <1>2. Format!Followers(message.data, Types, Reading) = {Reading'}
    BY NumberFollows, StringFollows, MessageFollows, FixedArrayFollows, DynamicArrayFollows,
       CloseFollows DEF ReadStep
  <1> QED BY <1>1, <1>2

\* ... stops where the format stops ...
LEMMA NullHasNoFollower ==
  ASSUME DecoderInv, GiveUp \/ GiveUpInString
  PROVE  /\ at = "read" /\ at' = "null" /\ UNCHANGED <<schemas, message>>
         /\ Format!Followers(message.data, Types, Reading) = {}
         /\ ~Format!Finished(Reading)
  <1>1. at = "read" /\ at' = "null" /\ UNCHANGED <<schemas, message>>
    BY DEF GiveUp, GiveUpInString, ReturnNull, ItemDue
  <1> QED BY <1>1, GiveUpHasNoFollower, GiveUpInStringHasNoFollower

\* ... and returns when nothing is open.
LEMMA ReturnIsFinished ==
  ASSUME Return
  PROVE  /\ at = "read" /\ at' = "json" /\ UNCHANGED <<schemas, message>>
         /\ Format!Finished(Reading) /\ Reading' = Reading /\ json' = json
  <1>1. frames = <<>> /\ at = "read" /\ at' = "json" /\ UNCHANGED <<schemas, message, pos, frames, json>>
    BY DEF Return
  <1>2. OpenOf(<<>>) = <<>>
    BY DEF OpenOf
  <1> QED BY <1>1, <1>2, ReadingIs, ReadingPrime DEF Format!Finished

\* Alignment, bounds tests and the recursion over messages and arrays read
\* exactly what the format has next, for any schema and payload: the decoder
\* implements CdrFormat step by step, gives up only where the format has no
\* next item, and returns only when nothing is open (ros2_decoder.cpp:238-489).
THEOREM Ros2FollowsFormat == Spec => FollowsFormat
  <1>1. DecoderInv /\ [Next]_ros2Vars => [ReadsAsFormat]_ros2Vars
    <2> SUFFICES ASSUME DecoderInv, Next PROVE ReadsAsFormat
      OBVIOUS
    <2>1. ASSUME NEW m \in Messages, RejectChannel(m) \/ RejectHeader(m) PROVE ReadsAsFormat
      <3>1. at = "idle" /\ at' = "null"
        BY <2>1 DEF RejectChannel, RejectHeader
      <3> QED BY <3>1 DEF ReadsAsFormat
    <2>2. ASSUME NEW m \in Messages, BeginRoot(m) PROVE ReadsAsFormat
      <3>1. at = "idle"
        BY <2>2 DEF BeginRoot
      <3>2. CacheInv
        BY DEF DecoderInv
      <3>3. /\ message' = m /\ schemas'[m.schema] = Parsed[m.schema]
            /\ Reading' = Format!Begin(Parsed[m.schema].types[Parsed[m.schema].root])
        BY <2>2, <3>2, BeginsWithRoot
      <3>4. Types' = Parsed[m.schema].types
        BY <3>3 DEF Types
      <3> QED BY <3>1, <3>3, <3>4 DEF ReadsAsFormat
    <2>3. CASE ReadStep
      <3>1. /\ at = "read" /\ at' = "read"
            /\ Format!Followers(message.data, Types, Reading) = {Reading'}
        BY <2>3, OnlyFollower
      <3> QED BY <3>1 DEF ReadsAsFormat
    <2>4. CASE GiveUp \/ GiveUpInString
      <3>1. at = "read" /\ at' = "null" /\ Format!Followers(message.data, Types, Reading) = {}
        BY <2>4, NullHasNoFollower
      <3> QED BY <3>1 DEF ReadsAsFormat
    <2>5. CASE Return
      <3>1. at = "read" /\ at' = "json" /\ Format!Finished(Reading) /\ json' = json
        BY <2>5, ReturnIsFinished
      <3> QED BY <3>1 DEF ReadsAsFormat
    <2>6. CASE WriteResult
      <3>1. at # "read" /\ at' # "read"
        BY <2>6 DEF WriteResult
      <3> QED BY <3>1 DEF ReadsAsFormat
    <2> QED BY <2>1, <2>2, <2>3, <2>4, <2>5, <2>6 DEF Next, ReadStep
  <1> QED BY <1>1, DecoderInvariance, PTL DEF Spec, FollowsFormat

-----------------------------------------------------------------------------
(* The meaning of a payload: the tokens of a reading to the end, if there  *)
(* is one. No induction over readings is needed: each step of the decoder  *)
(* extends one reading, and every reading to the end has to come by its    *)
(* state.                                                                  *)

\* run is a reading of the message's payload in n steps.
Runs(m, run, n) ==
  LET schema == Parsed[m.schema]
  IN  Format!IsRun(m.data, schema.types, schema.types[schema.root], run, n)

\* tokens is what the format says the message means: those of a reading to the end.
Means(m, tokens) ==
  /\ HasSchema(m) /\ IsPlainCdr(m.data)
  /\ \E n \in Nat : \E run :
       Runs(m, run, n) /\ Format!Finished(run[n]) /\ run[n].tokens = tokens

\* The decoder is on a reading of the payload, and every reading to the end
\* comes by its state.
MeaningInv ==
  /\ at \in {"read", "json"} =>
       /\ \E n \in Nat : \E run : Runs(message, run, n) /\ run[n] = Reading
       /\ \A n \in Nat : \A run :
            Runs(message, run, n) /\ Format!Finished(run[n]) => \E k \in 0 .. n : run[k] = Reading
  /\ at = "json" => Format!Finished(Reading)
  /\ at = "null" => \A tokens : ~Means(message, tokens)

\* A reading in n steps and one that may follow are a reading in n + 1 steps.
LEMMA RunExtends ==
  ASSUME NEW m, NEW n \in Nat, NEW run, Runs(m, run, n),
         NEW r, r \in Format!Followers(m.data, Parsed[m.schema].types, run[n])
  PROVE  \E longer : Runs(m, longer, n + 1) /\ longer[n + 1] = r
  <1> DEFINE longer == [i \in 0 .. n + 1 |-> IF i = n + 1 THEN r ELSE run[i]]
             fields == Parsed[m.schema].types[Parsed[m.schema].root]
             After(reading) == Format!Followers(m.data, Parsed[m.schema].types, reading)
  <1>1. run[0] = Format!Begin(fields) /\ \A i \in 1 .. n : run[i] \in After(run[i - 1])
    BY DEF Runs, Format!IsRun
  <1>2. r \in After(run[n])
    OBVIOUS
  <1> HIDE DEF fields, After
  <1>3. longer[0] = Format!Begin(fields) /\ longer[n + 1] = r
    BY <1>1
  <1>4. ASSUME NEW i \in 1 .. n + 1 PROVE longer[i] \in After(longer[i - 1])
    <2>1. CASE i = n + 1
      <3>1. longer[i] = r /\ longer[i - 1] = run[n]
        BY <2>1
      <3> QED BY <1>2, <3>1
    <2>2. CASE i # n + 1
      <3>1. i \in 1 .. n /\ longer[i] = run[i] /\ longer[i - 1] = run[i - 1]
        BY <2>2
      <3> HIDE DEF longer
      <3> QED BY <1>1, <3>1
    <2> QED BY <2>1, <2>2
  <1> HIDE DEF longer
  <1>5. Runs(m, longer, n + 1)
    BY <1>3, <1>4 DEF Runs, Format!IsRun, fields, After
  <1> QED BY <1>3, <1>5

\* Every step of a reading but the last has a next one.
LEMMA RunStep ==
  ASSUME NEW m, NEW n \in Nat, NEW run, Runs(m, run, n), NEW k \in 0 .. n, k # n
  PROVE  k + 1 \in 0 .. n /\ run[k + 1] \in Format!Followers(m.data, Parsed[m.schema].types, run[k])
  <1>1. k + 1 \in 1 .. n /\ k + 1 \in 0 .. n /\ (k + 1) - 1 = k
    OBVIOUS
  <1>2. run[k + 1] \in Format!Followers(m.data, Parsed[m.schema].types, run[(k + 1) - 1])
    BY <1>1 DEF Runs, Format!IsRun
  <1> QED BY <1>1, <1>2

\* Nothing follows when nothing is open.
LEMMA FinishedHasNoFollower ==
  ASSUME NEW data, NEW types, NEW r, Format!Finished(r)
  PROVE  Format!Followers(data, types, r) = {}
  BY DEF Format!Followers

\* The invariant is kept: a reading to the end that comes by the decoder's state
\* comes by the only one that may follow.
LEMMA MeaningInvStep == DecoderInv /\ MeaningInv /\ [Next]_ros2Vars => MeaningInv'
  <1> SUFFICES ASSUME DecoderInv, MeaningInv, [Next]_ros2Vars PROVE MeaningInv'
    OBVIOUS
  <1>c. CacheInv
    BY DEF DecoderInv
  <1>1. ASSUME NEW m \in Messages, RejectChannel(m) \/ RejectHeader(m) PROVE MeaningInv'
    <2>1. at' = "null" /\ message' = m /\ (~HasSchema(m) \/ ~IsPlainCdr(m.data))
      BY <1>1 DEF RejectChannel, RejectHeader
    <2>2. \A tokens : ~Means(m, tokens)
      BY <2>1 DEF Means
    <2>3. (\A tokens : ~Means(message, tokens))'
      BY <2>1, <2>2 DEF Means, Runs, HasSchema
    <2> QED BY <2>1, <2>3 DEF MeaningInv
  <1>2. ASSUME NEW m \in Messages, BeginRoot(m) PROVE MeaningInv'
    <2> DEFINE fields == Parsed[m.schema].types[Parsed[m.schema].root]
    <2>1. message' = m /\ at' = "read" /\ Reading' = Format!Begin(fields)
      BY <1>2, <1>c, BeginsWithRoot
    <2>2. Runs(m, [i \in 0 .. 0 |-> Format!Begin(fields)], 0)
      BY DEF Runs, Format!IsRun
    <2>3. \E n \in Nat : \E run : Runs(m, run, n) /\ run[n] = Reading'
      <3>1. [i \in 0 .. 0 |-> Format!Begin(fields)][0] = Reading'
        BY <2>1
      <3> QED BY <2>2, <3>1
    <2>4. ASSUME NEW n \in Nat, NEW run, Runs(m, run, n)
          PROVE  \E k \in 0 .. n : run[k] = Reading'
      <3>1. run[0] = Format!Begin(fields) /\ 0 \in 0 .. n
        BY <2>4 DEF Runs, Format!IsRun
      <3> QED BY <2>1, <3>1
    <2>5. \A n \in Nat : \A run :
            Runs(m, run, n) /\ Format!Finished(run[n]) => \E k \in 0 .. n : run[k] = Reading'
      BY <2>4
    <2> HIDE DEF fields
    <2> QED BY <2>1, <2>3, <2>5 DEF MeaningInv, Runs
  <1>3. CASE ReadStep
    <2>1. /\ at = "read" /\ at' = "read" /\ UNCHANGED <<schemas, message>>
          /\ Format!Followers(message.data, Types, Reading) = {Reading'}
      BY <1>3, OnlyFollower
    <2>2. Types = Parsed[message.schema].types
      BY <1>c, <2>1, TypesAreParsed
    <2>3. \E n \in Nat : \E run : Runs(message, run, n) /\ run[n] = Reading'
      <3>1. PICK n \in Nat : \E run : Runs(message, run, n) /\ run[n] = Reading
        BY <2>1 DEF MeaningInv
      <3>2. PICK run : Runs(message, run, n) /\ run[n] = Reading
        BY <3>1
      <3>3. Reading' \in Format!Followers(message.data, Parsed[message.schema].types, run[n])
        BY <2>1, <2>2, <3>2
      <3> DEFINE m == message
                 r == Reading'
      <3>6. Runs(m, run, n) /\ r \in Format!Followers(m.data, Parsed[m.schema].types, run[n])
        BY <3>2, <3>3
      <3> HIDE DEF m, r
      <3>7. \E longer : Runs(m, longer, n + 1) /\ longer[n + 1] = r
        BY <3>6, RunExtends
      <3>4. \E longer : Runs(message, longer, n + 1) /\ longer[n + 1] = Reading'
        BY <3>7 DEF m, r
      <3>5. n + 1 \in Nat
        OBVIOUS
      <3> QED BY <3>4, <3>5
    <2>4. ASSUME NEW n \in Nat, NEW run, Runs(message, run, n), Format!Finished(run[n])
          PROVE  \E k \in 0 .. n : run[k] = Reading'
      <3>1. PICK k \in 0 .. n : run[k] = Reading
        BY <2>1, <2>4 DEF MeaningInv
      <3>2. k # n
        BY <2>1, <2>4, <3>1, FinishedHasNoFollower
      <3>3. k + 1 \in 0 .. n
            /\ run[k + 1] \in Format!Followers(message.data, Parsed[message.schema].types, run[k])
        BY <2>4, <3>2, RunStep
      <3>4. run[k + 1] = Reading'
        BY <2>1, <2>2, <3>1, <3>3
      <3> QED BY <3>3, <3>4
    <2>5. \A n \in Nat : \A run :
            Runs(message, run, n) /\ Format!Finished(run[n]) => \E k \in 0 .. n : run[k] = Reading'
      BY <2>4
    <2> QED BY <2>1, <2>3, <2>5 DEF MeaningInv, Runs
  <1>4. CASE GiveUp \/ GiveUpInString
    <2>1. /\ at = "read" /\ at' = "null" /\ UNCHANGED <<schemas, message>>
          /\ Format!Followers(message.data, Types, Reading) = {}
          /\ ~Format!Finished(Reading)
      BY <1>4, NullHasNoFollower
    <2>2. Types = Parsed[message.schema].types
      BY <1>c, <2>1, TypesAreParsed
    <2>3. ASSUME NEW n \in Nat, NEW run, Runs(message, run, n), Format!Finished(run[n])
          PROVE  FALSE
      <3>1. PICK k \in 0 .. n : run[k] = Reading
        BY <2>1, <2>3 DEF MeaningInv
      <3>2. k # n
        BY <2>1, <2>3, <3>1
      <3>3. run[k + 1] \in Format!Followers(message.data, Parsed[message.schema].types, run[k])
        BY <2>3, <3>2, RunStep
      <3> QED BY <2>1, <2>2, <3>1, <3>3
    <2>4. \A tokens : ~Means(message, tokens)
      BY <2>3 DEF Means
    <2>5. (\A tokens : ~Means(message, tokens))'
      BY <2>1, <2>4 DEF Means, Runs, HasSchema
    <2> QED BY <2>1, <2>5 DEF MeaningInv
  <1>5. CASE Return
    <2>1. /\ at = "read" /\ at' = "json" /\ UNCHANGED <<schemas, message>>
          /\ Format!Finished(Reading) /\ Reading' = Reading
      BY <1>5, ReturnIsFinished
    <2>2. Format!Finished(Reading)'
      BY <2>1 DEF Format!Finished
    <2> QED BY <2>1, <2>2 DEF MeaningInv, Runs
  <1>6. CASE WriteResult
    <2>1. at' = "idle"
      BY <1>6 DEF WriteResult
    <2> QED BY <2>1 DEF MeaningInv
  <1>7. CASE UNCHANGED ros2Vars
    <2>1. UNCHANGED <<at, message>> /\ Reading' = Reading
      BY <1>7, ReadingIs, ReadingPrime DEF ros2Vars
    <2>2. Format!Finished(Reading) => Format!Finished(Reading)'
      BY <2>1 DEF Format!Finished
    <2> QED BY <2>1, <2>2 DEF MeaningInv, Runs, Means, HasSchema
  <1> QED BY <1>1, <1>2, <1>3, <1>4, <1>5, <1>6, <1>7 DEF Next, ReadStep

\* What the decoder returns for a message is what the format says it means.
DecodedRight ==
  /\ at = "json" => \A tokens : Means(message, tokens) <=> tokens = json
  /\ at = "null" => \A tokens : ~Means(message, tokens)

LEMMA MeaningInvariance == Spec => [](DecoderInv /\ MeaningInv)
  <1>1. Init => MeaningInv
    BY DEF Init, MeaningInv
  <1> QED BY <1>1, MeaningInvStep, DecoderInvariance, PTL DEF Spec

LEMMA MeaningIsDecoded == DecoderInv /\ MeaningInv => DecodedRight
  <1> SUFFICES ASSUME DecoderInv, MeaningInv PROVE DecodedRight
    OBVIOUS
  <1>1. ASSUME at = "json", NEW tokens, tokens = json PROVE Means(message, tokens)
    <2>1. /\ HasSchema(message) /\ IsPlainCdr(message.data) /\ Format!Finished(Reading)
          /\ \E n \in Nat : \E run : Runs(message, run, n) /\ run[n] = Reading
      BY <1>1 DEF MeaningInv, DecoderInv, CacheInv
    <2>2. Reading.tokens = json
      BY ReadingIs
    <2> QED BY <1>1, <2>1, <2>2 DEF Means
  <1>2. ASSUME at = "json", NEW tokens, Means(message, tokens) PROVE tokens = json
    <2>1. PICK n \in Nat : \E run :
            Runs(message, run, n) /\ Format!Finished(run[n]) /\ run[n].tokens = tokens
      BY <1>2 DEF Means
    <2>2. PICK run : Runs(message, run, n) /\ Format!Finished(run[n]) /\ run[n].tokens = tokens
      BY <2>1
    <2>3. PICK k \in 0 .. n : run[k] = Reading
      BY <1>2, <2>2 DEF MeaningInv
    <2>4. Format!Finished(run[k])
      BY <1>2, <2>3 DEF MeaningInv
    <2>5. CASE k # n
      <3>1. run[k + 1] \in Format!Followers(message.data, Parsed[message.schema].types, run[k])
        BY <2>2, <2>5, RunStep
      <3> QED BY <2>4, <3>1, FinishedHasNoFollower
    <2> QED BY <2>2, <2>3, <2>5, ReadingIs
  <1>3. at = "null" => \A tokens : ~Means(message, tokens)
    BY DEF MeaningInv
  <1> QED BY <1>1, <1>2, <1>3 DEF DecodedRight

\* Decode is right in both directions, whatever was decoded before: JSON is the
\* one meaning the payload has in the format, and NULL is returned only for a
\* payload that has none (ros2_decoder.cpp:461-489).
THEOREM Ros2DecodesRight == Spec => []DecodedRight
  BY MeaningInvariance, MeaningIsDecoded, PTL

\* The ghost of each message is what the format says of it.
MeantRight ==
  \A m \in Messages :
    IF \E tokens : Means(m, tokens) THEN Means(m, m.meant) ELSE m.meant = NULL

\* JSON that is returned is what the writer encoded, for any messages whose
\* ghosts say what the format says (ros2_decoder.cpp:461-489).
THEOREM Ros2NeverMisread ==
  ASSUME MeantRight
  PROVE  Spec => []NeverMisread
  <1>1. DecoderInv /\ MeaningInv => NeverMisread
    <2> SUFFICES ASSUME DecoderInv, MeaningInv, at = "json" PROVE json = message.meant
      BY DEF NeverMisread
    <2>1. message \in Messages
      BY DEF DecoderInv, CacheInv
    <2>2. \A tokens : Means(message, tokens) <=> tokens = json
      BY MeaningIsDecoded DEF DecodedRight
    <2> QED BY <2>1, <2>2 DEF MeantRight
  <1> QED BY <1>1, MeaningInvariance, PTL

\* NULL is returned only for messages that mean nothing, under the same
\* hypothesis (ros2_decoder.cpp:403-459, 461-489).
THEOREM Ros2NullIsJustified ==
  ASSUME MeantRight
  PROVE  Spec => []NullIsJustified
  <1>1. DecoderInv /\ MeaningInv => NullIsJustified
    <2> SUFFICES ASSUME DecoderInv, MeaningInv, at = "null" PROVE message.meant = NULL
      BY DEF NullIsJustified
    <2>1. message \in Messages
      BY DEF DecoderInv, CacheInv
    <2>2. \A tokens : ~Means(message, tokens)
      BY MeaningIsDecoded DEF DecodedRight
    <2> QED BY <2>1, <2>2 DEF MeantRight
  <1> QED BY <1>1, MeaningInvariance, PTL

=============================================================================
