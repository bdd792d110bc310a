------------------------- MODULE MCProtobufDecoder -------------------------
(* Instances of ProtobufDecoder.                                           *)
EXTENDS ProtobufDecoder

SourceFile(name, types, deps, content) ==
  [name |-> name, types |-> types, deps |-> deps, content |-> content]

Common == SourceFile("common", {"Time"}, {}, 1)
LogFile == SourceFile("log", {"Log"}, {"common"}, 1)
Scene == SourceFile("scene", {"Scene"}, {"common"}, 1)
Status == SourceFile("status", {"Status"}, {}, 1)
StatusWithLevel == SourceFile("status", {"Status", "Level"}, {}, 2)
State == SourceFile("state", {"State", "Status"}, {"common"}, 1)

\* Two schemas that share a file; two versions of a file and its type; one of
\* these types in a file of another schema, between a new and a shared file; an
\* import that only scene provides; data that is not a file set.
MCSchemaIds == {"log", "scene", "v1", "v2", "moved", "open", "bad"}

MCSchemaName ==
  [log |-> "Log", scene |-> "Scene", v1 |-> "Status", v2 |-> "Status",
   moved |-> "State", open |-> "Marker", bad |-> "Log"]

MCFileSet ==
  [log   |-> <<Common, LogFile>>,
   scene |-> <<Scene, Common>>,
   v1    |-> <<Status>>,
   v2    |-> <<StatusWithLevel>>,
   moved |-> <<SourceFile("extra", {"Extra"}, {}, 1), State, Common>>,
   open  |-> <<SourceFile("marker", {"Marker"}, {"scene"}, 1)>>,
   bad   |-> <<>>]

MCUnparseable == {"bad"}

\* Two versions of one type alone.
VersionIds == {"v1", "v2"}

=============================================================================
