----------------------------- MODULE Ros2Schema -----------------------------
(***************************************************************************)
(* The parser of ROS 2 schema texts (ros2_decoder.cpp, LoadSchema and its  *)
(* helpers), as pure operators.                                            *)
(*                                                                         *)
(* A text is a sequence of lines without comments and blank lines; a line  *)
(* is a record with a field kind:                                          *)
(*   "separator"  three or more '=';                                       *)
(*   "MSG:"       the header of a dependency, with the name of its type;   *)
(*   "constant"   TYPE NAME=value;                                         *)
(*   "field"      TYPE NAME, where TYPE has a base, an array suffix (none, *)
(*                T[], T[N] or T[<=N]) and maybe a string bound.           *)
(* A type name is the sequence of its segments: <<"std_msgs", "Header">>   *)
(* is std_msgs/Header, a bare name has one segment, <<>> is the empty name.*)
(***************************************************************************)
EXTENDS Naturals, Sequences, SequencesExt

TypeName == Seq(STRING)

SchemaLine ==
  [kind : {"field"}, base : TypeName, suffix : {"none", "dynamic", "fixed", "bounded"},
   size : Nat, bounded : BOOLEAN, name : STRING]
  \cup [kind : {"MSG:"}, name : TypeName]
  \cup [kind : {"separator", "constant"}]

PrimitiveTypes ==
  {<<t>> : t \in {"bool", "byte", "char", "int8", "uint8", "int16", "uint16", "int32",
                  "uint32", "int64", "uint64", "float32", "float64", "string", "wstring"}}

NormalizeTypeName(name) ==
  IF Len(name) >= 3 /\ name[2] = "msg" THEN RemoveAt(name, 2) ELSE name

\* The lines that contain '=': a bound is written "<=N", so bounded arrays and
\* bounded strings are among them.
HasEquals(line) ==
  \/ line.kind = "constant"
  \/ line.kind = "field" /\ (line.suffix = "bounded" \/ line.bounded)

\* A field; array is "none", "dynamic" (a length precedes the elements) or
\* "fixed" (size elements).  A MSG: line where none is expected reads as a
\* field whose type is the token "MSG:".
FieldOf(line) ==
  LET base == IF line.kind = "MSG:" THEN <<"MSG:">> ELSE line.base
      suffix == IF line.kind = "MSG:" THEN "none" ELSE line.suffix
  IN [type         |-> IF base \in PrimitiveTypes THEN base ELSE NormalizeTypeName(base),
      is_primitive |-> base \in PrimitiveTypes,
      name         |-> line.name,
      array        |-> IF suffix = "bounded" THEN "dynamic" ELSE suffix,
      array_size   |-> IF suffix = "fixed" THEN line.size ELSE 0]

\* The fields of one block of lines.
ParseBlock(lines) ==
  LET AddField(fields, line) ==
        IF HasEquals(line) THEN fields ELSE Append(fields, FieldOf(line))
  IN FoldLeft(AddField, <<>>, lines)

PackageOf(name) == IF Len(name) > 1 THEN Front(name) ELSE <<>>

\* A bare name belongs to the package of the enclosing type; Header is short
\* for std_msgs/Header.
ResolveTypeRef(ref, enclosing_package, known) ==
  LET qualified == enclosing_package \o ref
      header == <<"std_msgs">> \o ref
  IN IF ref \in known \/ Len(ref) # 1 THEN ref
     ELSE IF qualified \in known THEN qualified
     ELSE IF ref = <<"Header">> /\ header \in known THEN header
     ELSE ref

\* The state of the loop over the lines: the types so far, whether the current
\* block is the first, its name and its lines.
Flush(state, root) ==
  LET name == IF state.first_block THEN root ELSE NormalizeTypeName(state.current_name)
  IN [types        |-> [t \in DOMAIN state.types \cup {name} |->
                          IF t = name THEN ParseBlock(state.current) ELSE state.types[t]],
      first_block  |-> FALSE,
      current_name |-> <<>>,
      current      |-> <<>>]

ReadLine(state, line, root) ==
  CASE line.kind = "separator" -> Flush(state, root)
    [] line.kind = "MSG:" /\ state.current_name = <<>> ->
         [state EXCEPT !.current_name = line.name]
    [] OTHER -> [state EXCEPT !.current = Append(@, line)]

\* The second pass, when every type name is known.
Resolved(types) ==
  [t \in DOMAIN types |->
     [i \in DOMAIN types[t] |->
        IF types[t][i].is_primitive THEN types[t][i]
        ELSE [types[t][i] EXCEPT !.type = ResolveTypeRef(@, PackageOf(t), DOMAIN types)]]]

\* The name of the root type and the fields of every type of a schema.
ParseSchema(schema_name, text) ==
  LET root == NormalizeTypeName(schema_name)
      Read(state, line) == ReadLine(state, line, root)
      start == [types |-> <<>>, first_block |-> TRUE, current_name |-> root, current |-> <<>>]
  IN [root  |-> root,
      types |-> Resolved(Flush(FoldLeft(Read, start, text), root).types)]

=============================================================================
