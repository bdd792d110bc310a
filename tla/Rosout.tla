------------------------------- MODULE Rosout -------------------------------
(***************************************************************************)
(* The table function rosout(path): the log messages of a ROS 2 recording  *)
(* as rows of a timestamp, a severity, a node and a message                *)
(* (views/rosout.cpp).                                                     *)
(*                                                                         *)
(* It reads the whole file with one thread.  Each call of the scan writes  *)
(* up to VectorSize rows, one for each message of a rosout topic, and an   *)
(* empty chunk ends it.  A message is [channel, time, data, decoded,       *)
(* logged]: logged is a ghost, the members of the JSON object the writer   *)
(* encoded as far as they can be read, each [key, value]; of a row, `of'   *)
(* is one, the position of its message in the file.                        *)
(***************************************************************************)
EXTENDS McapTime, JsonDocument, SchemaCache

CONSTANTS
  VectorSize,   \* STANDARD_VECTOR_SIZE
  Logs          \* the contents a file may have: sequences of messages

ASSUME RosoutAssumption ==
  /\ VectorSize \in Nat \ {0}
  /\ \A l \in Logs : /\ Len(l) \in Nat /\ DOMAIN l = 1 .. Len(l)
                       /\ \A i \in DOMAIN l :
                            /\ l[i].channel \in DOMAIN Channels /\ l[i].time \in Times
                            /\ l[i].data \in Seq(Nat) /\ l[i].decoded \in Seq(Seq(Nat))

VARIABLES
  log,       \* the messages of the file, in the order of the reader
  phase,     \* "bind", "open", "scan", "done" or "error"
  cache,     \* RosoutGlobalState: the channels
  next,      \* the position of the iterator
  output,    \* the rows of the chunk being written
  emitted    \* the rows of the chunks returned

rosoutVars == <<log, phase, cache, next, output, emitted>>

\* Words of the documents, see JsonText.
Severity == 256
Level == 257
Node == 258
Name == 259
Message == 260
Msg == 261
Number(n) == 1000 + n
DEBUG == 300
INFO == 301
WARN == 302
ERROR == 303
FATAL == 304

Init ==
  /\ log \in Logs
  /\ phase = "bind"
  /\ cache = <<>>
  /\ next = 1
  /\ output = <<>>
  /\ emitted = <<>>

RosoutBind ==
  /\ phase = "bind"
  /\ phase' = "open"
  /\ UNCHANGED <<log, cache, next, output, emitted>>

RosoutTopics == {"/rosout", "rosout", "/rosout_agg"}

\* options.topicFilter
OfRosout(m) == Channels[m.channel].topic \in RosoutTopics

RosoutInitGlobal ==
  /\ phase = "open"
  /\ phase' = "scan"
  /\ cache' = FromReader
  /\ UNCHANGED <<log, next, output, emitted>>

\* A bad argument, a file that cannot be opened, a problem of the reader.
Fails ==
  /\ phase \in {"bind", "open", "scan"}
  /\ phase' = "error"
  /\ output' = <<>>
  /\ UNCHANGED <<log, cache, next, emitted>>

-----------------------------------------------------------------------------
(* One row. *)

SeverityNames ==
  [raw \in {<<Number(n)>> : n \in {10, 20, 30, 40, 50}} |->
     CASE raw = <<Number(10)>> -> <<DEBUG>>
       [] raw = <<Number(20)>> -> <<INFO>>
       [] raw = <<Number(30)>> -> <<WARN>>
       [] raw = <<Number(40)>> -> <<ERROR>>
       [] raw = <<Number(50)>> -> <<FATAL>>]

MapSeverity(raw) ==
  IF raw # NoField /\ raw[1] \in DOMAIN SeverityNames THEN <<SeverityNames[raw[1]]>> ELSE raw

OrElse(field, other) == IF field # NoField THEN field ELSE other

EitherField(json, key, otherwise) ==
  OrElse(ExtractJsonStringField(json, <<key>>), ExtractJsonStringField(json, <<otherwise>>))

PayloadOf(channels, m) ==
  LET channel == Lookup(channels, m.channel)
  IN  IF channel = <<>> THEN <<>> ELSE DecodePayloadJson(channel[1], m, {"cdr"})

\* The columns of the message at position i; <<>> is NULL.
RowOf(i) ==
  LET m == log[i]
      payload == PayloadOf(cache, m)
      column(key, otherwise) ==
        IF payload = <<>> THEN NoField ELSE EitherField(payload[1], key, otherwise)
  IN  [of |-> i,
       timestamp |-> ToTimestampNs(m.time),
       severity |-> MapSeverity(column(Severity, Level)),
       node |-> column(Node, Name),
       message |-> column(Message, Msg)]

\* The iterator passes a message of another topic.
PassMessage ==
  /\ phase = "scan"
  /\ next <= Len(log)
  /\ ~OfRosout(log[next])
  /\ next' = next + 1
  /\ UNCHANGED <<log, phase, cache, output, emitted>>

\* Fault: the loop admits one row more than a chunk holds.
WriteRowOneMore ==
  /\ phase = "scan"
  /\ Len(output) <= VectorSize
  /\ next <= Len(log)
  /\ OfRosout(log[next])
  /\ output' = Append(output, RowOf(next))
  /\ next' = next + 1
  /\ UNCHANGED <<log, phase, cache, emitted>>

\* RosoutScan: the row of the next message, then the iterator advances.
WriteRow ==
  /\ phase = "scan"
  /\ Len(output) < VectorSize
  /\ next <= Len(log)
  /\ OfRosout(log[next])
  /\ output' = Append(output, RowOf(next))
  /\ next' = next + 1
  /\ UNCHANGED <<log, phase, cache, emitted>>

\* Fault: the iterator advances once more before the chunk is returned.
ReturnChunkAdvances ==
  /\ phase = "scan"
  /\ next > Len(log) \/ Len(output) = VectorSize
  /\ emitted' = emitted \o output
  /\ output' = <<>>
  /\ phase' = IF output = <<>> THEN "done" ELSE "scan"
  /\ next' = IF next > Len(log) THEN next ELSE next + 1
  /\ UNCHANGED <<log, cache>>

\* The iterator is at its end or the chunk full; an empty one ends the scan.
ReturnChunk ==
  /\ phase = "scan"
  /\ next > Len(log) \/ Len(output) = VectorSize
  /\ emitted' = emitted \o output
  /\ output' = <<>>
  /\ phase' = IF output = <<>> THEN "done" ELSE "scan"
  /\ UNCHANGED <<log, cache, next>>

Ended == phase \in {"done", "error"} /\ UNCHANGED rosoutVars

Next ==
  \/ RosoutBind
  \/ RosoutInitGlobal
  \/ Fails
  \/ PassMessage
  \/ WriteRow
  \/ ReturnChunk
  \/ Ended

Spec == Init /\ [][Next]_rosoutVars
-----------------------------------------------------------------------------
Text == Seq(Nat)
Row ==
  [of : Nat, timestamp : 0 .. MaxNanos, severity : Seq(Text), node : Seq(Text), message : Seq(Text)]

TypeOK ==
  /\ log \in Logs
  /\ phase \in {"bind", "open", "scan", "done", "error"}
  /\ next \in 1 .. Len(log) + 1
  /\ cache \in {<<>>, FromReader}
  /\ output \in Seq(Row) /\ Len(output) <= VectorSize
  /\ emitted \in Seq(Row)

\* The rows so far.
Rows == emitted \o output

\* Every message of a rosout topic gets one row, in the order of the file, also
\* one whose channel is unknown or whose payload cannot be decoded; no chunk ends
\* the scan before the last of them (rosout.cpp:124-168).
RowPerMessage ==
  /\ \A i, j \in DOMAIN Rows : i < j => Rows[i].of < Rows[j].of
  /\ \A i \in DOMAIN Rows :
        Rows[i].of \in DOMAIN log /\ Rows[i].timestamp = ToTimestampNs(log[Rows[i].of].time)
  /\ phase = "done" =>
        {Rows[i].of : i \in DOMAIN Rows} = {k \in DOMAIN log : OfRosout(log[k])}

-----------------------------------------------------------------------------
(* What a document says, without its text: the value of a member is        *)
(* [kind, text].  A text of kind "units" is given in UTF-16.               *)

FieldOf(members, key) ==
  LET hits == {i \in DOMAIN members :
                 members[i].key = key /\ members[i].value.kind \in {"string", "units", "scalar"}}
  IN  IF hits = {} THEN <<>> ELSE <<members[Min(hits)].value>>

Pairs(units) ==
  {i \in 1 .. Len(units) - 1 : units[i] \in HighSurrogates /\ units[i + 1] \in LowSurrogates}

\* The code points of a UTF-16 text: half a pair stands for Replacement.
CodePoints(units) ==
  LET starts == SelectSeq([i \in DOMAIN units |-> i], LAMBDA i : i - 1 \notin Pairs(units))
      point(i) == IF i \in Pairs(units) THEN 65536 + (units[i] % 1024) * 1024 + (units[i + 1] % 1024)
                  ELSE IF units[i] \in HighSurrogates \cup LowSurrogates THEN Replacement
                  ELSE units[i]
  IN  [k \in DOMAIN starts |-> point(starts[k])]

\* The code points of a UTF-8 text; -1 for a sequence that is cut.
Utf8Decoded(text) ==
  LET starts == SelectSeq([i \in DOMAIN text |-> i], LAMBDA i : text[i] \notin 128 .. 191)
      six(i) == IF i <= Len(text) /\ text[i] \in 128 .. 191 THEN text[i] - 128 ELSE -65536
      point(i) == IF text[i] \notin 192 .. 255 THEN text[i]
                  ELSE IF text[i] < 224 THEN (text[i] - 192) * 64 + six(i + 1)
                  ELSE IF text[i] < 240 THEN (text[i] - 224) * 4096 + six(i + 1) * 64 + six(i + 2)
                  ELSE (text[i] - 240) * 262144 + six(i + 1) * 4096 + six(i + 2) * 64 + six(i + 3)
  IN  [k \in DOMAIN starts |-> point(starts[k])]

Says(value, text) ==
  IF value.kind = "units" THEN Utf8Decoded(text) = CodePoints(value.text) ELSE text = value.text

\* A column shows the first of the two fields the message has, or is NULL.
Shows(column, members, key, otherwise) ==
  LET field == IF FieldOf(members, key) # <<>> THEN FieldOf(members, key) ELSE FieldOf(members, otherwise)
  IN  Len(column) = Len(field) /\ (field # <<>> => Says(field[1], column[1]))

\* README.md:35-37: the columns of a row are what the node logged, whichever
\* encoding the recorder chose and whatever the texts contain; a key inside a
\* string or a nested container is never taken for the field (json_util.hpp:9-13).
LoggedIsShown ==
  \A i \in DOMAIN output :
    LET m == log[output[i].of]
        named == {r \in DOMAIN SeverityNames : output[i].severity = <<SeverityNames[r]>>}
    IN  /\ Shows(output[i].node, m.logged, Node, Name)
        /\ Shows(output[i].message, m.logged, Message, Msg)
        /\ \/ Shows(output[i].severity, m.logged, Severity, Level)
           \/ \E r \in named : Shows(<<r>>, m.logged, Severity, Level)
        /\ output[i].severity \notin {<<r>> : r \in DOMAIN SeverityNames}

\* What is logged is the document that can be read, if there is one.
WellLogged(m) ==
  LET payload == PayloadOf(FromReader, m)
  IN  IF payload = <<>> THEN m.logged = <<>> ELSE IsDocument(payload[1], m.logged)

=============================================================================
