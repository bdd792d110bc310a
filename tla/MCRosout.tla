------------------------------ MODULE MCRosout ------------------------------
(* Small recordings for Rosout.                                              *)
EXTENDS Rosout

(* The containers. *)

Nested(key, text) ==
  Container(<<Mark(OpenBrace), String(<<key>>), Mark(Colon), String(text), Mark(CloseBrace)>>)

Listed(texts) ==
  Container(<<Mark(OpenBracket)>>
            \o FlattenSeq([i \in DOMAIN texts |-> (IF i = 1 THEN <<>> ELSE <<Mark(Comma)>>) \o <<String(texts[i])>>])
            \o <<Mark(CloseBracket)>>)

(* The messages. *)

On(channel, time, members, sp) ==
  [channel |-> channel, time |-> time, data |-> Document(members, sp),
   decoded |-> <<Document(members, sp)>>, logged |-> members]

\* Letters, what has to be escaped, two bytes of UTF-8, structure and a space.
MCBytes == {65, 98, Quote, Backslash, 10, 8, 195, 169, CloseBrace, Comma, 32}
MCTexts == UNION {[1 .. n -> MCBytes] : n \in 0 .. 2}
MCUnits == {0, 8, 47, 127, 128, 2047, 2048, 65535, 55357, 56832}
MCUnitTexts == UNION {[1 .. n -> MCUnits] : n \in 0 .. 3}

MCNumbers == {Scalar(<<Number(n)>>) : n \in {0, 10, 20, 30, 40, 50}}

LogRecord(level, name, msg) ==
  <<Field(Severity + 50, Nested(Level, <<Number(10)>>)), Field(Level, level), Field(Name, name), Field(Msg, msg)>>

\* CDR, as rcl_interfaces/msg/Log.
MCCdr ==
  {On(2, 0, LogRecord(Scalar(<<Number(30)>>), String(<<65>>), String(t)), <<>>) : t \in MCTexts}
  \cup {On(2, 3, LogRecord(n, String(<<>>), String(<<65>>)), <<>>) : n \in MCNumbers}

\* JSON, with the fields in their places and keys in others'.
MCDecoys ==
  {Nested(Severity, <<65>>), Nested(Message, <<CloseBrace, Quote>>),
   Listed(<< <<Message>>, <<Node, Quote>>, <<CloseBracket, OpenBrace>> >>), Listed(<<>>),
   String(<<Message>>), String(<<Quote, Colon, OpenBrace>>), Scalar(<<Number(20)>>)}

MCEscaped ==
  {On(1, 1, <<Field(Severity, String(<<INFO>>)), Field(Message, Units(u))>>, <<>>) : u \in MCUnitTexts}

MCJson ==
  {On(1, 1, <<Field(k, d), Field(Message, String(<<66>>)), Field(Severity, s)>>, sp) :
     k \in {Message, Node, Severity + 50}, d \in MCDecoys,
     s \in {String(<<ERROR>>), Scalar(<<Number(40)>>), Listed(<<>>)}, sp \in {<<>>, <<32>>}}

\* What cannot be read: a channel the summary does not list, one with another
\* encoding, one without schema; a broken CDR payload; a text that is cut, which
\* says what its complete members do.  A cut behind a key's colon is left out:
\* the code then finds an empty value where there is none.
Plain == <<Field(Severity, String(<<WARN>>)), Field(Node, String(<<65>>)), Field(Message, String(<<66>>))>>

MCUnread ==
  {[On(c, 2, Plain, <<>>) EXCEPT !.logged = <<>>] : c \in {3, 4, 5}}
  \cup {[On(2, 2, Plain, <<>>) EXCEPT !.decoded = <<>>, !.logged = <<>>]}

MCCut ==
  {[On(1, 2, Plain, <<>>) EXCEPT
      !.data = SubSeq(Document(Plain, <<>>), 1, cut),
      !.logged = SubSeq(Plain, 1, cut \div 8)] : cut \in {c \in 0 .. 24 : c % 8 # 5}}

Elsewhere == On(6, 1, Plain, <<>>)

MCFew == {On(1, 0, Plain, <<32>>), On(2, 1, LogRecord(Scalar(<<Number(50)>>), String(<<65>>), String(<<66>>)), <<>>),
          [On(3, 3, Plain, <<>>) EXCEPT !.logged = <<>>], Elsewhere}

MCAlone == UNION {MCCdr, MCJson, MCEscaped, MCUnread, MCCut}

MCLogs ==
  UNION {{<<m>> : m \in MCAlone}, [1 .. 0 -> MCFew], [1 .. 4 -> MCFew], {[i \in 1 .. 5 |-> On(1, 1, Plain, <<>>)]}}

MCChannels ==
  <<[topic |-> "/rosout", encoding |-> "JSON", schema |-> 0],
    [topic |-> "/rosout_agg", encoding |-> "cdr", schema |-> 1],
    [topic |-> "rosout", encoding |-> "json", schema |-> 1],
    [topic |-> "/rosout", encoding |-> "ros1", schema |-> 1],
    [topic |-> "/rosout", encoding |-> "cdr", schema |-> 2],
    [topic |-> "/tf", encoding |-> "cdr", schema |-> 1]>>

\* All of them but those with escaped units and those that are cut.
ASSUME MessagesAreWellLogged ==
  \A m \in MCCdr \cup MCJson \cup MCUnread \cup MCFew : WellLogged(m)

=============================================================================
