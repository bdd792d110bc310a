-------------------------- MODULE ProtobufDecoder --------------------------
(***************************************************************************)
(* The protobuf decoder of one thread (protobuf_decoder.cpp): a descriptor *)
(* database and pool shared by all schema ids, and one message instance    *)
(* per schema id.  Channels are met in any order: it depends on the        *)
(* messages and on the partitions the thread claims.                       *)
(*                                                                         *)
(* A file is a record [name, types, deps, content]: the types it defines,  *)
(* the names of the files it imports, and what distinguishes two files     *)
(* that agree in the rest.  A descriptor is a type name together with all  *)
(* files its definition rests on.                                          *)
(***************************************************************************)
EXTENDS Naturals, Sequences

CONSTANTS
  SchemaIds,   \* those with a name and data; Decode rejects the others at once
  SchemaName,  \* the type name of each schema id
  FileSet,     \* its FileDescriptorSet, a sequence of files
  Unparseable, \* the schema ids whose data is not a FileDescriptorSet
  NULL

VARIABLES
  db,             \* SimpleDescriptorDatabase: files by name
  index,          \* its symbols: file names by type
  loaded_schemas,
  instances,      \* the cached instances, by schema id: a descriptor or NULL
  at,             \* "idle", or "load" inside LoadSchema
  channel,        \* the schema id in hand, when loading
  next_file       \* the next file of its set

protobufVars == <<db, index, loaded_schemas, instances, at, channel, next_file>>

Files(s) == {FileSet[s][k] : k \in DOMAIN FileSet[s]}

AllFiles == UNION {Files(s) : s \in SchemaIds \ Unparseable}

ProtobufAssumption ==
  /\ Unparseable \subseteq SchemaIds
  /\ \A s \in SchemaIds \ Unparseable : FileSet[s] \in Seq(Files(s))

ASSUME ProtobufAssumption

Init ==
  /\ db = <<>>
  /\ index = <<>>
  /\ loaded_schemas = {}
  /\ instances = <<>>
  /\ at = "idle"
  /\ channel = NULL
  /\ next_file = 1

\* f with one more entry.
Extend(f, x, value) == [y \in DOMAIN f \cup {x} |-> IF y = x THEN value ELSE f[y]]

-----------------------------------------------------------------------------
(* The descriptor pool over the database.                                  *)

\* The files among all that f imports, directly or not, and f itself: the
\* least subset that contains f and what its members import.
ClosedIn(part, all) == \A x \in part, y \in all : y.name \in x.deps => y \in part

Imports(f, all) ==
  {g \in all : \A part \in SUBSET all : f \in part /\ ClosedIn(part, all) => g \in part}

\* No import is missing.
Whole(f, all) ==
  \A x \in Imports(f, all) : \A d \in x.deps : \E y \in all : y.name = d

Known == {db[n] : n \in DOMAIN db}

Descriptor(type, f, all) == [type |-> type, files |-> Imports(f, all)]

\* A type defined twice: one of the files was refused by the database, but may
\* have been registered in part.
Contested(f) ==
  \E x \in Imports(f, Known), y \in Known : x # y /\ x.types \cap y.types # {}

\* FindMessageTypeByName may return r.  What it makes of contested files is
\* left open.
Finds(type, r) ==
  \E f \in Known :
    /\ type \in f.types
    /\ Whole(f, Known)
    /\ (type \in DOMAIN index /\ index[type] = f.name) \/ Contested(f)
    /\ r = Descriptor(type, f, Known)

FindsNothing(type) ==
  \A f \in Known :
    type \in DOMAIN index /\ index[type] = f.name => ~Whole(f, Known) \/ Contested(f)

-----------------------------------------------------------------------------
(* GetInstance and LoadSchema.                                             *)

\* The pool knows the type name, from whatever schema.
FindKnown(s) ==
  /\ at = "idle"
  /\ s \notin DOMAIN instances
  /\ \E r \in {Descriptor(SchemaName[s], f, Known) : f \in Known} :
       /\ Finds(SchemaName[s], r)
       /\ instances' = Extend(instances, s, r)
  /\ UNCHANGED <<db, index, loaded_schemas, at, channel, next_file>>

CannotParse(s) ==
  /\ at = "idle"
  /\ s \in Unparseable
  /\ s \notin DOMAIN instances
  /\ FindsNothing(SchemaName[s])
  /\ instances' = Extend(instances, s, NULL)
  /\ UNCHANGED <<db, index, loaded_schemas, at, channel, next_file>>

\* Fault: the schema counts as loaded before its files are added.
BeginLoadMarksLoaded(s) ==
  /\ at = "idle"
  /\ s \notin Unparseable \cup loaded_schemas
  /\ s \notin DOMAIN instances
  /\ FindsNothing(SchemaName[s])
  /\ at' = "load"
  /\ channel' = s
  /\ next_file' = 1
  /\ loaded_schemas' = loaded_schemas \cup {s}
  /\ UNCHANGED <<db, index, instances>>

BeginLoad(s) ==
  /\ at = "idle"
  /\ s \notin Unparseable \cup loaded_schemas
  /\ s \notin DOMAIN instances
  /\ FindsNothing(SchemaName[s])
  /\ at' = "load"
  /\ channel' = s
  /\ next_file' = 1
  /\ UNCHANGED <<db, index, loaded_schemas, instances>>

File == FileSet[channel][next_file]

InLoop == at = "load" /\ next_file <= Len(FileSet[channel])

\* Fault: a file that is there already fails the load.
SkipFileFails ==
  /\ InLoop
  /\ File.name \in DOMAIN db
  /\ instances' = Extend(instances, channel, NULL)
  /\ at' = "idle"
  /\ channel' = NULL
  /\ UNCHANGED <<db, index, loaded_schemas, next_file>>

\* The database has a file of that name, whatever it contains.
SkipFile ==
  /\ InLoop
  /\ File.name \in DOMAIN db
  /\ next_file' = next_file + 1
  /\ UNCHANGED <<db, index, loaded_schemas, instances, at, channel>>

AddFile ==
  /\ InLoop
  /\ File.name \notin DOMAIN db
  /\ File.types \cap DOMAIN index = {}
  /\ db' = Extend(db, File.name, File)
  /\ index' = [t \in DOMAIN index \cup File.types |->
                 IF t \in File.types THEN File.name ELSE index[t]]
  /\ next_file' = next_file + 1
  /\ UNCHANGED <<loaded_schemas, instances, at, channel>>

\* A symbol is taken: the load fails, and with it the instance, for good.  The
\* database keeps the name of the file and some of its symbols.
AddFileFails ==
  /\ InLoop
  /\ File.name \notin DOMAIN db
  /\ File.types \cap DOMAIN index # {}
  /\ db' = Extend(db, File.name, File)
  /\ \E kept \in SUBSET (File.types \ DOMAIN index) :
       index' = [t \in DOMAIN index \cup kept |-> IF t \in kept THEN File.name ELSE index[t]]
  /\ instances' = Extend(instances, channel, NULL)
  /\ at' = "idle"
  /\ channel' = NULL
  /\ UNCHANGED <<loaded_schemas, next_file>>

EndLoad ==
  /\ at = "load"
  /\ next_file > Len(FileSet[channel])
  /\ loaded_schemas' = loaded_schemas \cup {channel}
  /\ \/ \E r \in {Descriptor(SchemaName[channel], f, Known) : f \in Known} :
          /\ Finds(SchemaName[channel], r)
          /\ instances' = Extend(instances, channel, r)
     \/ /\ FindsNothing(SchemaName[channel])
        /\ instances' = Extend(instances, channel, NULL)
  /\ at' = "idle"
  /\ channel' = NULL
  /\ UNCHANGED <<db, index, next_file>>

Next ==
  \/ \E s \in SchemaIds : FindKnown(s) \/ CannotParse(s) \/ BeginLoad(s)
  \/ SkipFile
  \/ AddFile
  \/ AddFileFails
  \/ EndLoad

Spec == Init /\ [][Next]_protobufVars

-----------------------------------------------------------------------------
TypeOK ==
  /\ \A n \in DOMAIN db : db[n] \in AllFiles /\ db[n].name = n
  /\ \A t \in DOMAIN index : index[t] \in DOMAIN db /\ t \in db[index[t]].types
  /\ loaded_schemas \subseteq DOMAIN instances
  /\ \A s \in DOMAIN instances :
       s \in SchemaIds /\ (instances[s] = NULL \/ instances[s].files \subseteq Known)
  /\ at \in {"idle", "load"}
  /\ at = "load" => channel \in SchemaIds \ (Unparseable \cup DOMAIN instances)

\* A set of files that is complete in itself and defines the schema's type.
WellFormed(s) ==
  /\ s \notin Unparseable
  /\ \E f \in Files(s) : SchemaName[s] \in f.types
  /\ \A f \in Files(s) : \A d \in f.deps : \E g \in Files(s) : g.name = d
  /\ \A f, g \in Files(s) : f = g \/ (f.name # g.name /\ f.types \cap g.types = {})

\* No other schema has a different file of the same name or a different
\* definition of one of its types.
Undisputed(s) ==
  \A f \in Files(s), g \in AllFiles : f = g \/ (f.name # g.name /\ f.types \cap g.types = {})

\* The descriptor r is that of the schema's own file set.
IsOwn(s, r) ==
  \E f \in Files(s) : SchemaName[s] \in f.types /\ r = Descriptor(SchemaName[s], f, Files(s))

\* In whatever order the channels are met, and whatever conflicts, failures and
\* gaps there are among other schemas, a well-formed schema that nobody
\* disputes is decoded through the descriptor of its own file set.
OwnDescriptor ==
  \A s \in DOMAIN instances : WellFormed(s) /\ Undisputed(s) => IsOwn(s, instances[s])

\* Documentation: messages are decoded from the FileDescriptorSet embedded in
\* each schema (README.md:48, protobuf_decoder.hpp:13-14).
EmbeddedDescriptor ==
  \A s \in DOMAIN instances : WellFormed(s) => IsOwn(s, instances[s])

=============================================================================
