---------------------------- MODULE Ros2Decoder ----------------------------
(***************************************************************************)
(* The ROS 2 decoder of one thread (ros2_decoder.cpp): it parses each      *)
(* schema once and turns CDR payloads into JSON.  The recursion            *)
(* AppendMessage - AppendValue - AppendScalar is a stack of frames, one    *)
(* for each message and each array that is open; every step appends one    *)
(* item, opens or closes a frame, or gives the payload up.                 *)
(*                                                                         *)
(* A payload is a sequence of bytes.  JSON is a sequence of tokens: a      *)
(* number is its type with its bytes, least significant first, and a       *)
(* string its bytes; commas and the notation of numbers are left out.      *)
(***************************************************************************)
EXTENDS Ros2Schema

CONSTANTS
  Schemas,      \* schema ids
  SchemaName,   \* the name of each schema
  SchemaText,   \* its text, <<>> when the schema record has no data
  Messages,     \* records [schema, data, meant]; meant is a ghost: the tokens
                \* the writer encoded, or NULL when nothing can be made of data
  GarbageByte,  \* what memory outside a payload holds
  NULL

VARIABLES
  schemas,   \* the cache: parsed schemas by id
  at,        \* "idle", "read" (decoding), "json" or "null" (returned)
  message,   \* the message being decoded
  pos,       \* CdrReader::pos
  frames,    \* the call stack, outermost first
  json,      \* the output
  reached    \* ghost: the end of the furthest raw read of the payload

ros2Vars == <<schemas, at, message, pos, frames, json, reached>>

Byte == 0 .. 255

Ros2Assumption ==
  /\ \A m \in Messages : m.schema \in Schemas /\ m.data \in Seq(Byte)
  /\ \A s \in Schemas : SchemaName[s] \in Seq(STRING) /\ SchemaText[s] \in Seq(SchemaLine)
  /\ GarbageByte \in Byte

ASSUME Ros2Assumption

NoMessage == [schema |-> NULL, data |-> <<>>, meant |-> NULL]

Init ==
  /\ schemas = <<>>
  /\ at = "idle"
  /\ message = NoMessage
  /\ pos = 0
  /\ frames = <<>>
  /\ json = <<>>
  /\ reached = 0

-----------------------------------------------------------------------------
(* CdrReader.                                                              *)

size == Len(message.data)

\* Fault: one byte too many is granted.
EnsureOneMore(from, n) == n <= size /\ from <= size - n + 1

\* Fault: the last byte of a payload is never granted.
EnsureOneLess(from, n) == n < size /\ from < size - n

Ensure(from, n) == n <= size /\ from <= size - n

\* Fault: alignment relative to the payload, header included.
AlignedToPayload(n) == pos + ((n - (pos % n)) % n)

\* Each primitive is aligned to its size, relative to the end of the 4-byte
\* encapsulation header.
Aligned(n) == pos + ((n - ((pos - 4) % n)) % n)

ByteAt(i) == IF i \in 1 .. size THEN message.data[i] ELSE GarbageByte

LittleEndian == ByteAt(2) = 1

\* n bytes of one value, least significant first.
ReadRaw(from, n) ==
  [i \in 1 .. n |-> ByteAt(IF LittleEndian THEN from + i ELSE from + n + 1 - i)]

ReadUint32(from) ==
  LET b == ReadRaw(from, 4)
  IN b[1] + b[2] * 256 + b[3] * 65536 + b[4] * 16777216

Width ==
  [bool |-> 1, byte |-> 1, char |-> 1, int8 |-> 1, uint8 |-> 1, int16 |-> 2, uint16 |-> 2,
   int32 |-> 4, uint32 |-> 4, float32 |-> 4, int64 |-> 8, uint64 |-> 8, float64 |-> 8]

\* What is printed for a value: true or false for a bool, the value otherwise.
Number(type, bytes) ==
  <<type, IF type = "bool" THEN <<IF bytes[1] = 0 THEN 0 ELSE 1>> ELSE bytes>>

-----------------------------------------------------------------------------
(* Decode, up to the call of AppendMessage for the root.                   *)

HasSchema(m) == SchemaText[m.schema] # <<>> /\ SchemaName[m.schema] # <<>>

Parsed == [id \in Schemas |-> ParseSchema(SchemaName[id], SchemaText[id])]

LoadSchema(id) ==
  schemas' = [s \in DOMAIN schemas \cup {id} |->
                IF s \in DOMAIN schemas THEN schemas[s] ELSE Parsed[s]]

\* Plain XCDR1 only: representation identifier 0x0000 or 0x0001.
IsPlainCdr(data) == Len(data) >= 4 /\ data[1] = 0 /\ data[2] <= 1

MessageFrame(fields) ==
  [kind |-> "message", fields |-> fields, next |-> 1, count |-> Len(fields)]

ArrayFrame(field, count) ==
  [kind |-> "array", fields |-> <<field>>, next |-> 1, count |-> count]

\* No schema: NULL, and nothing is cached.
RejectChannel(m) ==
  /\ at = "idle"
  /\ ~HasSchema(m)
  /\ message' = m
  /\ at' = "null"
  /\ UNCHANGED <<schemas, pos, frames, json, reached>>

RejectHeader(m) ==
  /\ at = "idle"
  /\ HasSchema(m)
  /\ LoadSchema(m.schema)
  /\ ~IsPlainCdr(m.data)
  /\ message' = m
  /\ at' = "null"
  /\ reached' = IF Len(m.data) >= 4 THEN 2 ELSE 0
  /\ UNCHANGED <<pos, frames, json>>

BeginRoot(m) ==
  /\ at = "idle"
  /\ HasSchema(m)
  /\ LoadSchema(m.schema)
  /\ IsPlainCdr(m.data)
  /\ message' = m
  /\ at' = "read"
  /\ pos' = 4
  /\ reached' = 2
  /\ LET schema == schemas'[m.schema]
     IN frames' = <<MessageFrame(schema.types[schema.root])>>
  /\ json' = <<<<"{">>>>

-----------------------------------------------------------------------------
(* AppendMessage, AppendValue and AppendScalar.                            *)

Types == schemas[message.schema].types

Top == frames[Len(frames)]

\* The innermost open message or array has an item left.
ItemDue == at = "read" /\ frames # <<>> /\ Top.next <= Top.count

Field == IF Top.kind = "array" THEN Top.fields[1] ELSE Top.fields[Top.next]

\* The item is a whole array, not a scalar or one of an array's elements.
ArrayDue == Top.kind = "message" /\ Field.array # "none"

Advanced == [frames EXCEPT ![Len(frames)].next = @ + 1]

\* The output so far; the fields of a message are preceded by their names.
Keyed == IF Top.kind = "message" THEN Append(json, <<"key", Field.name>>) ELSE json

IsNumber(field) == field.is_primitive /\ field.type[1] \in DOMAIN Width

IsString(field) == field.is_primitive /\ field.type = <<"string">>

\* Fault: the end of the payload is tested before the alignment.
AppendNumberEnsureFirst ==
  /\ ItemDue /\ ~ArrayDue /\ IsNumber(Field)
  /\ LET n == Width[Field.type[1]]
         from == Aligned(n)
     IN /\ Ensure(pos, n)
        /\ json' = Append(Keyed, Number(Field.type[1], ReadRaw(from, n)))
        /\ pos' = from + n
        /\ reached' = from + n
  /\ frames' = Advanced
  /\ UNCHANGED <<schemas, at, message>>

AppendNumber ==
  /\ ItemDue /\ ~ArrayDue /\ IsNumber(Field)
  /\ LET n == Width[Field.type[1]]
         from == Aligned(n)
     IN /\ Ensure(from, n)
        /\ json' = Append(Keyed, Number(Field.type[1], ReadRaw(from, n)))
        /\ pos' = from + n
        /\ reached' = from + n
  /\ frames' = Advanced
  /\ UNCHANGED <<schemas, at, message>>

\* The length of a string counts its terminating NUL; a length of 0 is an
\* empty string as well.
AppendString ==
  /\ ItemDue /\ ~ArrayDue /\ IsString(Field)
  /\ LET from == Aligned(4)
         len == ReadUint32(from)
         text == [i \in 1 .. len - 1 |-> ByteAt(from + 4 + i)]
     IN /\ Ensure(from, 4)
        /\ len = 0 \/ Ensure(from + 4, len)
        /\ json' = Append(Keyed, <<"string", text>>)
        /\ pos' = from + 4 + len
        /\ reached' = from + 4 + len
  /\ frames' = Advanced
  /\ UNCHANGED <<schemas, at, message>>

OpenMessage ==
  /\ ItemDue /\ ~ArrayDue /\ ~Field.is_primitive
  /\ Field.type \in DOMAIN Types
  /\ json' = Append(Keyed, <<"{">>)
  /\ frames' = Append(Advanced, MessageFrame(Types[Field.type]))
  /\ UNCHANGED <<schemas, at, message, pos, reached>>

OpenFixedArray ==
  /\ ItemDue /\ ArrayDue /\ Field.array = "fixed"
  /\ json' = Append(Keyed, <<"[">>)
  /\ frames' = Append(Advanced, ArrayFrame(Field, Field.array_size))
  /\ UNCHANGED <<schemas, at, message, pos, reached>>

OpenDynamicArray ==
  /\ ItemDue /\ ArrayDue /\ Field.array = "dynamic"
  /\ LET from == Aligned(4)
     IN /\ Ensure(from, 4)
        /\ frames' = Append(Advanced, ArrayFrame(Field, ReadUint32(from)))
        /\ pos' = from + 4
        /\ reached' = from + 4
  /\ json' = Append(Keyed, <<"[">>)
  /\ UNCHANGED <<schemas, at, message>>

\* The message or the array is complete.
Close ==
  /\ at = "read" /\ frames # <<>> /\ Top.next > Top.count
  /\ json' = Append(json, IF Top.kind = "array" THEN <<"]">> ELSE <<"}">>)
  /\ frames' = Front(frames)
  /\ UNCHANGED <<schemas, at, message, pos, reached>>

\* Some call returns false, and so do all its callers: the payload ends before
\* the next number or length, the type is not supported or not known.
Fails ==
  IF ArrayDue THEN Field.array = "dynamic" /\ ~Ensure(Aligned(4), 4)
  ELSE IF IsNumber(Field)
  THEN LET n == Width[Field.type[1]] IN ~Ensure(Aligned(n), n)
  ELSE IF IsString(Field) THEN ~Ensure(Aligned(4), 4)
  ELSE Field.is_primitive \/ Field.type \notin DOMAIN Types

ReturnNull ==
  /\ at' = "null"
  /\ frames' = <<>>
  /\ json' = <<>>
  /\ UNCHANGED <<schemas, message, pos>>

GiveUp ==
  /\ ItemDue
  /\ Fails
  /\ ReturnNull
  /\ UNCHANGED reached

\* The length of a string is read, but the payload ends before its text does.
GiveUpInString ==
  /\ ItemDue /\ ~ArrayDue /\ IsString(Field)
  /\ LET from == Aligned(4)
         len == ReadUint32(from)
     IN /\ Ensure(from, 4)
        /\ len # 0 /\ ~Ensure(from + 4, len)
        /\ reached' = from + 4
  /\ ReturnNull

Return ==
  /\ at = "read" /\ frames = <<>>
  /\ at' = "json"
  /\ UNCHANGED <<schemas, message, pos, frames, json, reached>>

\* The caller writes the result to the payload_json column.
WriteResult ==
  /\ at \in {"json", "null"}
  /\ at' = "idle"
  /\ message' = NoMessage
  /\ pos' = 0
  /\ json' = <<>>
  /\ reached' = 0
  /\ UNCHANGED <<schemas, frames>>

Next ==
  \/ \E m \in Messages : RejectChannel(m) \/ RejectHeader(m) \/ BeginRoot(m)
  \/ AppendNumber
  \/ AppendString
  \/ OpenMessage
  \/ OpenFixedArray
  \/ OpenDynamicArray
  \/ Close
  \/ GiveUp
  \/ GiveUpInString
  \/ Return
  \/ WriteResult

Spec == Init /\ [][Next]_ros2Vars

-----------------------------------------------------------------------------
TypeOK ==
  /\ DOMAIN schemas \subseteq Schemas
  /\ at \in {"idle", "read", "json", "null"}
  /\ at # "idle" => message.schema \in Schemas
  /\ pos \in 0 .. size
  /\ \A i \in DOMAIN frames : frames[i].next \in 1 .. frames[i].count + 1
  /\ at # "read" => frames = <<>>

\* Whatever lengths and counts a payload contains and wherever it ends, every
\* byte the decoder reads is one of the payload's.
InBounds == reached <= size

\* What a frame leaves to be read: the token that closes it and the fields to come.
Pending(frame) ==
  [close |-> IF frame.kind = "message" THEN "}" ELSE "]",
   rest  |-> [k \in 1 .. frame.count - frame.next + 1 |->
                IF frame.kind = "message" THEN frame.fields[frame.next - 1 + k]
                ELSE frame.fields[1]]]

\* The decoder's state as a reading of the payload.
Reading ==
  [pos |-> pos, tokens |-> json, open |-> [i \in DOMAIN frames |-> Pending(frames[i])]]

Format == INSTANCE CdrFormat

\* A step of the decoder starts with the fields of the schema's root type, and
\* from there takes what may follow in the format.
ReadsAsFormat ==
  /\ at = "idle" /\ at' = "read" =>
       Reading' = Format!Begin(Types'[schemas'[message'.schema].root])
  /\ at = "read" =>
       LET followers == Format!Followers(message.data, Types, Reading)
       IN  CASE at' = "read" -> Reading' \in followers
             [] at' = "null" -> followers = {}
             [] at' = "json" -> Format!Finished(Reading) /\ json' = json

\* Every step of the decoder reads exactly the item that the format has next,
\* it gives up only where the format has none, and it returns JSON only when
\* nothing is open, whatever its alignment, bounds tests and call stack do.
FollowsFormat == [][ReadsAsFormat]_ros2Vars

\* JSON that is returned is what the writer encoded: no field is read at the
\* wrong place or through the wrong type, whatever was decoded before.
NeverMisread == at = "json" => json = message.meant

\* NULL is returned only for a payload that is cut off or whose type the
\* schema leaves open or the decoder does not support.
NullIsJustified == at = "null" => message.meant = NULL

\* The number is one that JSON can express: neither infinite nor NaN, that is,
\* not all bits of the exponent are set.
IsFinite(token) ==
  LET b == token[2]
  IN CASE token[1] = "float32" -> ((b[4] % 128) * 2) + (b[3] \div 128) # 255
       [] token[1] = "float64" -> ((b[8] % 128) * 16) + (b[7] \div 16) # 2047
       [] OTHER -> TRUE

\* Documentation: payload_json is JSON, and NULL instead of garbage
\* (README.md:20, 53-54).
IsJson == at = "json" => \A i \in DOMAIN json : IsFinite(json[i])

=============================================================================
