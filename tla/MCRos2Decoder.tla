--------------------------- MODULE MCRos2Decoder ---------------------------
(***************************************************************************)
(* Instances of Ros2Decoder.  Messages are made from scripts: what a       *)
(* writer encodes, token by token.  Encode is XCDR1 as the writer applies  *)
(* it; erasing from a script what only concerns the encoding gives the     *)
(* JSON the message means.                                                 *)
(***************************************************************************)
EXTENDS Ros2Decoder

-----------------------------------------------------------------------------
(* Lines of schema texts.                                                  *)

Line(base, suffix, n, bounded, name) ==
  [kind |-> "field", base |-> base, suffix |-> suffix, size |-> n, bounded |-> bounded,
   name |-> name]
Scalar(base, name) == Line(base, "none", 0, FALSE, name)
Fixed(base, n, name) == Line(base, "fixed", n, FALSE, name)
Dynamic(base, name) == Line(base, "dynamic", 0, FALSE, name)
Bounded(base, n, name) == Line(base, "bounded", n, FALSE, name)
BoundedString(name) == Line(<<"string">>, "none", 0, TRUE, name)
Constant == [kind |-> "constant"]
Separator == [kind |-> "separator"]
Msg(name) == [kind |-> "MSG:", name |-> name]

-----------------------------------------------------------------------------
(* Scripts.  <<"[", n>> opens a dynamic array, <<"[">> a fixed one;        *)
(* <<"empty">> is an empty string written with length 0.                   *)

Key(name) == <<"key", name>>
Num(type, bytes) == <<type, bytes>>
Str(bytes) == <<"string", bytes>>

Meaning(script) ==
  [i \in DOMAIN script |->
     CASE script[i][1] = "[" -> <<"[">>
       [] script[i][1] = "empty" -> Str(<<>>)
       [] OTHER -> script[i]]

Pad(data, n) == data \o [i \in 1 .. (n - ((Len(data) - 4) % n)) % n |-> 0]

PutNumber(data, bytes, little) ==
  Pad(data, Len(bytes)) \o (IF little THEN bytes ELSE Reverse(bytes))

PutLength(data, n, little) == PutNumber(data, <<n, 0, 0, 0>>, little)

Put(data, token, little) ==
  CASE token[1] \in {"{", "}", "]", "key"} -> data
    [] token[1] = "[" -> IF Len(token) = 1 THEN data ELSE PutLength(data, token[2], little)
    [] token[1] = "empty" -> PutLength(data, 0, little)
    [] token[1] = "string" -> PutLength(data, Len(token[2]) + 1, little) \o token[2] \o <<0>>
    [] OTHER -> PutNumber(data, token[2], little)

Encode(script, little) ==
  LET PutNext(data, token) == Put(data, token, little)
  IN FoldLeft(PutNext, <<0, IF little THEN 1 ELSE 0, 0, 0>>, script)

\* A script written in both byte orders, whole, with trailing padding, and cut
\* off after every byte.
Written(schema, script, meant) ==
  UNION {LET data == Encode(script, little)
         IN {[schema |-> schema, data |-> d, meant |-> meant] : d \in {data, data \o <<0, 0>>}}
            \cup {[schema |-> schema, data |-> SubSeq(data, 1, n), meant |-> NULL] :
                    n \in 0 .. Len(data) - 1}
         : little \in BOOLEAN}

\* The same data under representation identifiers that are not plain CDR.
OtherEncapsulation(schema, script) ==
  {[schema |-> schema, data |-> [Encode(script, TRUE) EXCEPT ![i] = 7], meant |-> NULL] :
     i \in 1 .. 2}

-----------------------------------------------------------------------------
(* Schemas: primitives of every size; nesting and arrays; one bare name in *)
(* two packages; a type that is not supported; a missing dependency; no    *)
(* text.                                                                   *)

MCSchemas == {"sample", "reading", "path", "frames", "wide", "dangling", "empty"}

MCSchemaName ==
  [sample   |-> <<"pkg_a", "Sample">>,
   reading  |-> <<"sensor_msgs", "msg", "Reading">>,
   path     |-> <<"nav_msgs", "msg", "Path">>,
   frames   |-> <<"pkg_a", "Root">>,
   wide     |-> <<"pkg_a", "Wide">>,
   dangling |-> <<"pkg_a", "Dangling">>,
   empty    |-> <<"pkg_a", "Empty">>]

MCSchemaText ==
  [sample   |-> <<Scalar(<<"uint8">>, "n"), Scalar(<<"int64">>, "t")>>,
   reading  |-> <<Scalar(<<"uint8">>, "level"), Constant, Scalar(<<"float64">>, "value"),
                  Scalar(<<"string">>, "unit"), Fixed(<<"bool">>, 2, "flags"),
                  Scalar(<<"int16">>, "code")>>,
   path     |-> <<Scalar(<<"Header">>, "header"), Dynamic(<<"geometry_msgs", "Point">>, "points"),
                  Dynamic(<<"string">>, "tags"), Separator, Msg(<<"std_msgs", "Header">>),
                  Scalar(<<"uint32">>, "seq"), Scalar(<<"string">>, "frame_id"),
                  Separator, Msg(<<"geometry_msgs", "msg", "Point">>),
                  Scalar(<<"int8">>, "x"), Dynamic(<<"int16">>, "y")>>,
   frames   |-> <<Scalar(<<"Point">>, "p"), Scalar(<<"pkg_b", "msg", "Inner">>, "inner"),
                  Separator, Msg(<<"pkg_a", "Point">>), Scalar(<<"uint8">>, "x"),
                  Separator, Msg(<<"pkg_b", "Inner">>), Fixed(<<"Point">>, 2, "q"),
                  Separator, Msg(<<"pkg_b", "Point">>), Scalar(<<"uint16">>, "y")>>,
   wide     |-> <<Scalar(<<"uint8">>, "n"), Scalar(<<"wstring">>, "w")>>,
   dangling |-> <<Scalar(<<"uint8">>, "n"), Scalar(<<"pkg_b", "Missing">>, "m"),
                  Msg(<<"pkg_b", "Missing">>), Scalar(<<"uint8">>, "x")>>,
   empty    |-> <<>>]

SampleScript ==
  <<<<"{">>, Key("n"), Num("uint8", <<1>>), Key("t"), Num("int64", <<1, 2, 3, 4, 5, 6, 7, 8>>),
    <<"}">>>>

ReadingScripts ==
  {<<<<"{">>, Key("level"), Num("uint8", <<1>>),
     Key("value"), Num("float64", <<1, 2, 3, 4, 5, 6, 7, 8>>), Key("unit"), unit,
     Key("flags"), <<"[">>, Num("bool", <<0>>), Num("bool", <<1>>), <<"]">>,
     Key("code"), Num("int16", <<1, 2>>), <<"}">>>>
     : unit \in {<<"empty">>, Str(<<>>), Str(<<9, 9>>)}}

PointScript(x, n) ==
  <<<<"{">>, Key("x"), Num("int8", <<x>>), Key("y"), <<"[", n>>>>
    \o [i \in 1 .. n |-> Num("int16", <<i, x>>)] \o <<<<"]">>, <<"}">>>>

PathScripts ==
  {<<<<"{">>, Key("header"), <<"{">>, Key("seq"), Num("uint32", <<1, 2, 3, 4>>),
     Key("frame_id"), Str(<<9>>), <<"}">>,
     Key("points"), <<"[", Len(points)>>>> \o FlattenSeq(points)
   \o <<<<"]">>, Key("tags"), <<"[", 2>>, Str(<<8>>), <<"empty">>, <<"]">>, <<"}">>>>
     : points \in {<<>>, <<PointScript(5, 2)>>, <<PointScript(5, 1), PointScript(6, 0)>>}}

FramesScript ==
  <<<<"{">>, Key("p"), <<"{">>, Key("x"), Num("uint8", <<1>>), <<"}">>,
    Key("inner"), <<"{">>, Key("q"), <<"[">>,
    <<"{">>, Key("y"), Num("uint16", <<2, 3>>), <<"}">>,
    <<"{">>, Key("y"), Num("uint16", <<4, 5>>), <<"}">>,
    <<"]">>, <<"}">>, <<"}">>>>

\* What follows the first byte is not a string, whatever the decoder thinks.
ByteScript == <<<<"{">>, Num("uint8", <<1>>), Num("uint32", <<1, 0, 0, 0>>), <<"}">>>>

MCMessages ==
  UNION {Written("reading", script, Meaning(script)) : script \in ReadingScripts}
  \cup UNION {Written("path", script, Meaning(script)) : script \in PathScripts}
  \cup Written("sample", SampleScript, Meaning(SampleScript))
  \cup Written("frames", FramesScript, Meaning(FramesScript))
  \cup UNION {Written(s, ByteScript, NULL) : s \in {"wide", "dangling", "empty"}}
  \cup OtherEncapsulation("frames", FramesScript)

-----------------------------------------------------------------------------
(* The ghosts of MCMessages are what CdrFormat makes of the data: Encode   *)
(* and the format, written independently, agree.                           *)

RECURSIVE Outcome(_, _, _)
Outcome(data, types, reading) ==
  LET followers == Format!Followers(data, types, reading)
  IN  IF Format!Finished(reading) THEN reading.tokens
      ELSE IF followers = {} THEN NULL
      ELSE Outcome(data, types, CHOOSE next \in followers : TRUE)

MeaningOf(m) ==
  LET schema == ParseSchema(MCSchemaName[m.schema], MCSchemaText[m.schema])
  IN  IF MCSchemaText[m.schema] = <<>> \/ ~IsPlainCdr(m.data) THEN NULL
      ELSE Outcome(m.data, schema.types, Format!Begin(schema.types[schema.root]))

ASSUME MessagesAreMeant == \A m \in MCMessages : m.meant = MeaningOf(m)

-----------------------------------------------------------------------------
(* A field with a bounded type before a field without one, and a float that *)
(* is not a number.                                                         *)

BoundedSchemas == {"bounded"}

BoundedSchemaName == [bounded |-> <<"pkg_a", "Bounded">>]

BoundedSchemaText ==
  [bounded |-> <<Bounded(<<"uint8">>, 3, "values"), BoundedString("unit"),
                 Scalar(<<"uint32">>, "code")>>]

BoundedMessages ==
  LET script == <<<<"{">>, Key("values"), <<"[", 1>>, Num("uint8", <<7>>), <<"]">>,
                  Key("unit"), Str(<<9>>), Key("code"), Num("uint32", <<1, 2, 3, 4>>), <<"}">>>>
  IN {[schema |-> "bounded", data |-> Encode(script, little), meant |-> Meaning(script)] :
        little \in BOOLEAN}

NonFiniteSchemas == {"range"}

NonFiniteSchemaName == [range |-> <<"sensor_msgs", "msg", "Range">>]

NonFiniteSchemaText ==
  [range |-> <<Scalar(<<"float32">>, "max_range"), Scalar(<<"float64">>, "range")>>]

\* An ordinary range, an infinite one and one that is not a number.
NonFiniteMessages ==
  LET script(max, range) ==
        <<<<"{">>, Key("max_range"), Num("float32", max), Key("range"), Num("float64", range),
          <<"}">>>>
      one == <<0, 0, 128, 63>>
  IN {[schema |-> "range", data |-> Encode(script(one, range), TRUE),
       meant |-> Meaning(script(one, range))]
            : range \in {<<0, 0, 0, 0, 0, 0, 240, 63>>, <<0, 0, 0, 0, 0, 0, 240, 127>>,
                         <<1, 0, 0, 0, 0, 0, 240, 127>>}}

=============================================================================
