----------------------- MODULE ProtobufDecoderProofs -----------------------
(***************************************************************************)
(* A well-formed, undisputed schema is decoded through its own file set,   *)
(* for any family of schemas and any order of the channels.                *)
(***************************************************************************)
EXTENDS ProtobufDecoder, TLAPS

Trusted == {s \in SchemaIds : WellFormed(s) /\ Undisputed(s)}

\* A file of a trusted schema that is in the database was added in whole.
RegisteredInWhole ==
  \A s \in Trusted : \A f \in Files(s) :
    f.name \in DOMAIN db => f.types \subseteq DOMAIN index

DatabaseInv ==
  /\ \A n \in DOMAIN db : db[n] \in AllFiles /\ db[n].name = n
  /\ \A t \in DOMAIN index : index[t] \in DOMAIN db /\ t \in db[index[t]].types
  /\ RegisteredInWhole

\* The files before the loop's position are in the database.
LoadInv ==
  /\ at \in {"idle", "load"}
  /\ at = "load" =>
       /\ channel \in SchemaIds \ (Unparseable \cup DOMAIN instances)
       /\ next_file \in Nat \ {0}
       /\ \A k \in DOMAIN FileSet[channel] :
            k < next_file => FileSet[channel][k].name \in DOMAIN db

InstancesInv ==
  /\ loaded_schemas \subseteq DOMAIN instances
  /\ \A s \in DOMAIN instances :
       s \in SchemaIds /\ (instances[s] = NULL \/ instances[s].files \subseteq Known)
  /\ OwnDescriptor

ProtobufInv == DatabaseInv /\ LoadInv /\ InstancesInv

-----------------------------------------------------------------------------
(* Imports.                                                                *)

LEMMA ImportsClosed ==
  ASSUME NEW all, NEW f \in all
  PROVE  /\ f \in Imports(f, all)
         /\ Imports(f, all) \subseteq all
         /\ ClosedIn(Imports(f, all), all)
  BY DEF Imports, ClosedIn

LEMMA ImportsLeast ==
  ASSUME NEW all, NEW f, NEW part \in SUBSET all, f \in part, ClosedIn(part, all)
  PROVE  Imports(f, all) \subseteq part
  BY DEF Imports

-----------------------------------------------------------------------------
(* Trusted schemas.                                                        *)

LEMMA FilesInAll ==
  ASSUME NEW s \in SchemaIds \ Unparseable
  PROVE  Files(s) \subseteq AllFiles
  BY DEF AllFiles

LEMMA KnownInAll ==
  ASSUME DatabaseInv
  PROVE  /\ Known \subseteq AllFiles
         /\ \A y \in Known : y.name \in DOMAIN db /\ db[y.name] = y
  BY DEF DatabaseInv, Known

\* A known file with the name or a type of a trusted file is that file.
LEMMA TrustedIsUnique ==
  ASSUME DatabaseInv, NEW s \in Trusted, NEW f \in Files(s)
  PROVE  /\ \A y \in Known : y.name = f.name \/ y.types \cap f.types # {} => y = f
         /\ f.name \in DOMAIN db => f \in Known
         /\ f \in Known => \A t \in f.types : t \in DOMAIN index /\ index[t] = f.name
  <1>1. \A y \in Known : y.name = f.name \/ y.types \cap f.types # {} => y = f
    BY KnownInAll DEF Trusted, Undisputed
  <1>2. f.name \in DOMAIN db => f \in Known
    <2> SUFFICES ASSUME f.name \in DOMAIN db PROVE f \in Known
      OBVIOUS
    <2>1. db[f.name] \in Known /\ db[f.name].name = f.name
      BY DEF Known, DatabaseInv
    <2> QED BY <1>1, <2>1
  <1>3. ASSUME f \in Known, NEW t \in f.types
        PROVE  t \in DOMAIN index /\ index[t] = f.name
    <2>1. f.name \in DOMAIN db
      BY <1>3, KnownInAll
    <2>2. t \in DOMAIN index
      BY <1>3, <2>1 DEF DatabaseInv, RegisteredInWhole
    <2>3. db[index[t]] \in Known /\ t \in db[index[t]].types /\ db[index[t]].name = index[t]
      BY <2>2 DEF DatabaseInv, Known
    <2>4. db[index[t]] = f
      BY <1>1, <1>3, <2>3
    <2> QED BY <2>2, <2>3, <2>4
  <1> QED BY <1>1, <1>2, <1>3

\* In the database, a trusted file imports files of its own schema only.
LEMMA ImportsWithin ==
  ASSUME DatabaseInv, NEW s \in Trusted, NEW f \in Files(s), f \in Known
  PROVE  Imports(f, Known) \subseteq Imports(f, Files(s)) \cap Known
  <1> DEFINE part == Imports(f, Files(s)) \cap Known
  <1>1. f \in part /\ part \subseteq Known /\ part \subseteq Files(s)
    BY ImportsClosed
  <1>2. ASSUME NEW x \in part, NEW y \in Known, y.name \in x.deps
        PROVE  y \in part
    <2>1. PICK g \in Files(s) : g.name = y.name
      BY <1>1, <1>2 DEF Trusted, WellFormed
    <2>2. y = g
      BY <2>1, TrustedIsUnique
    <2>3. ClosedIn(Imports(f, Files(s)), Files(s))
      BY ImportsClosed
    <2>4. y \in Imports(f, Files(s))
      BY <1>2, <2>1, <2>2, <2>3 DEF ClosedIn
    <2> QED BY <1>2, <2>4
  <1>3. ClosedIn(part, Known)
    BY <1>2 DEF ClosedIn
  <1> HIDE DEF part
  <1>4. Imports(f, Known) \subseteq part
    BY <1>1, <1>3, ImportsLeast
  <1> QED BY <1>4 DEF part

LEMMA TrustedUncontested ==
  ASSUME DatabaseInv, NEW s \in Trusted, NEW f \in Files(s), f \in Known
  PROVE  ~Contested(f)
  <1>1. Imports(f, Known) \subseteq Files(s)
    BY ImportsWithin, ImportsClosed
  <1> QED BY <1>1, TrustedIsUnique DEF Contested

\* Where no import is missing, the pool sees what the schema's own set says.
LEMMA ImportsAgree ==
  ASSUME DatabaseInv, NEW s \in Trusted, NEW f \in Files(s), f \in Known, Whole(f, Known)
  PROVE  Imports(f, Known) = Imports(f, Files(s))
  <1> DEFINE part == Imports(f, Known)
  <1>1. f \in part /\ part \subseteq Files(s) /\ part \subseteq Known
    BY ImportsClosed, ImportsWithin
  <1>2. ASSUME NEW x \in part, NEW y \in Files(s), y.name \in x.deps
        PROVE  y \in part
    <2>1. PICK g \in Known : g.name = y.name
      BY <1>2 DEF Whole
    <2>2. g = y
      BY <2>1, TrustedIsUnique
    <2>3. ClosedIn(part, Known)
      BY ImportsClosed
    <2> QED BY <1>2, <2>2, <2>3 DEF ClosedIn
  <1>3. ClosedIn(part, Files(s))
    BY <1>2 DEF ClosedIn
  <1>4. Imports(f, Files(s)) \subseteq part
    BY <1>1, <1>3, ImportsLeast
  <1> QED BY <1>4, ImportsWithin

\* What the pool finds for a trusted schema is the schema's own descriptor.
LEMMA FindsOwn ==
  ASSUME DatabaseInv, NEW s \in Trusted, NEW r, Finds(SchemaName[s], r)
  PROVE  IsOwn(s, r)
  <1>1. PICK f \in Known : /\ SchemaName[s] \in f.types
                           /\ Whole(f, Known)
                           /\ r = Descriptor(SchemaName[s], f, Known)
    BY DEF Finds
  <1>2. PICK g \in Files(s) : SchemaName[s] \in g.types
    BY DEF Trusted, WellFormed
  <1>3. f = g
    BY <1>1, <1>2, TrustedIsUnique
  <1>4. Imports(g, Known) = Imports(g, Files(s))
    BY <1>1, <1>2, <1>3, ImportsAgree
  <1> QED BY <1>1, <1>2, <1>3, <1>4 DEF IsOwn, Descriptor

\* When all its files are there, the pool finds it.
LEMMA FindsSomething ==
  ASSUME DatabaseInv, NEW s \in Trusted, Files(s) \subseteq Known
  PROVE  ~FindsNothing(SchemaName[s])
  <1>1. PICK f \in Files(s) : SchemaName[s] \in f.types
    BY DEF Trusted, WellFormed
  <1>2. f \in Known /\ SchemaName[s] \in DOMAIN index /\ index[SchemaName[s]] = f.name
    BY <1>1, TrustedIsUnique
  <1>3. Imports(f, Known) \subseteq Files(s)
    BY <1>2, ImportsWithin, ImportsClosed
  <1>4. Whole(f, Known)
    BY <1>3 DEF Whole, Trusted, WellFormed
  <1>5. ~Contested(f)
    BY <1>2, TrustedUncontested
  <1> QED BY <1>2, <1>4, <1>5 DEF FindsNothing

-----------------------------------------------------------------------------
(* The invariant.                                                          *)

\* One more instance, right for its schema.
LEMMA NewInstance ==
  ASSUME InstancesInv, Known \subseteq Known', NEW s \in SchemaIds, NEW r,
         instances' = Extend(instances, s, r),
         loaded_schemas' \subseteq loaded_schemas \cup {s},
         s \in Trusted => IsOwn(s, r),
         r = NULL \/ r.files \subseteq Known'
  PROVE  InstancesInv'
  <1>1. DOMAIN instances' = DOMAIN instances \cup {s}
    BY DEF Extend
  <1>2. ASSUME NEW u \in DOMAIN instances'
        PROVE  /\ u \in SchemaIds /\ (instances'[u] = NULL \/ instances'[u].files \subseteq Known')
               /\ WellFormed(u) /\ Undisputed(u) => IsOwn(u, instances'[u])
    <2>1. CASE u = s
      BY <1>1, <2>1 DEF Extend, Trusted
    <2>2. CASE u # s
      BY <1>1, <1>2, <2>2 DEF Extend, InstancesInv, OwnDescriptor
    <2> QED BY <2>1, <2>2
  <1> QED BY <1>1, <1>2 DEF InstancesInv, OwnDescriptor

LEMMA SameInstances ==
  ASSUME InstancesInv, Known \subseteq Known', UNCHANGED <<instances, loaded_schemas>>
  PROVE  InstancesInv'
  BY DEF InstancesInv, OwnDescriptor

LEMMA SameDatabase ==
  ASSUME DatabaseInv, UNCHANGED <<db, index>>
  PROVE  DatabaseInv' /\ Known' = Known
  BY DEF DatabaseInv, RegisteredInWhole, Known

\* A file is added under a new name; a trusted one with all its types.
LEMMA DatabaseGrows ==
  ASSUME DatabaseInv, NEW file \in AllFiles, file.name \notin DOMAIN db,
         NEW kept \in SUBSET (file.types \ DOMAIN index),
         db' = Extend(db, file.name, file),
         index' = [t \in DOMAIN index \cup kept |-> IF t \in kept THEN file.name ELSE index[t]],
         \A s \in Trusted : file \in Files(s) => kept = file.types
  PROVE  DatabaseInv' /\ Known \subseteq Known' /\ DOMAIN db \subseteq DOMAIN db'
  <1>1. /\ DOMAIN db' = DOMAIN db \cup {file.name}
        /\ db'[file.name] = file
        /\ \A n \in DOMAIN db : db'[n] = db[n]
    BY DEF Extend
  <1>2. DOMAIN index' = DOMAIN index \cup kept
    OBVIOUS
  <1>3. \A n \in DOMAIN db' : db'[n] \in AllFiles /\ db'[n].name = n
    BY <1>1 DEF DatabaseInv
  <1>4. ASSUME NEW t \in DOMAIN index'
        PROVE  index'[t] \in DOMAIN db' /\ t \in db'[index'[t]].types
    <2>1. CASE t \in kept
      BY <1>1, <2>1
    <2>2. CASE t \notin kept
      <3>1. t \in DOMAIN index /\ index'[t] = index[t]
        BY <1>2, <1>4, <2>2
      <3> QED BY <1>1, <3>1 DEF DatabaseInv
    <2> QED BY <2>1, <2>2
  <1>5. ASSUME NEW s \in Trusted, NEW f \in Files(s), f.name \in DOMAIN db'
        PROVE  f.types \subseteq DOMAIN index'
    <2>1. CASE f.name \in DOMAIN db
      BY <1>2, <2>1 DEF DatabaseInv, RegisteredInWhole
    <2>2. CASE f.name = file.name
      BY <1>2, <2>2 DEF Trusted, Undisputed
    <2> QED BY <1>1, <1>5, <2>1, <2>2
  <1>6. Known \subseteq Known'
    BY <1>1 DEF Known
  <1> QED BY <1>1, <1>3, <1>4, <1>5, <1>6 DEF DatabaseInv, RegisteredInWhole

LEMMA ProtobufInvInit == Init => ProtobufInv
  BY DEF Init, ProtobufInv, DatabaseInv, RegisteredInWhole, LoadInv, InstancesInv, OwnDescriptor

LEMMA ProtobufInvStep == ProtobufInv /\ [Next]_protobufVars => ProtobufInv'
  <1> SUFFICES ASSUME ProtobufInv, [Next]_protobufVars PROVE ProtobufInv'
    OBVIOUS
  <1> USE DEF ProtobufInv
  <1>1. ASSUME NEW s \in SchemaIds, FindKnown(s) PROVE ProtobufInv'
    <2>1. PICK r : /\ Finds(SchemaName[s], r)
                   /\ instances' = Extend(instances, s, r)
                   /\ r \in {Descriptor(SchemaName[s], f, Known) : f \in Known}
      BY <1>1 DEF FindKnown
    <2>2. /\ at = "idle" /\ UNCHANGED <<db, index, loaded_schemas, at, channel, next_file>>
      BY <1>1 DEF FindKnown
    <2>3. DatabaseInv' /\ Known' = Known
      BY <2>2, SameDatabase
    <2>4. r.files \subseteq Known
      BY <2>1, ImportsClosed DEF Descriptor
    <2>5. s \in Trusted => IsOwn(s, r)
      BY <2>1, FindsOwn
    <2>6. InstancesInv'
      BY <2>1, <2>2, <2>3, <2>4, <2>5, NewInstance
    <2> QED BY <2>2, <2>3, <2>6 DEF LoadInv
  <1>2. ASSUME NEW s \in SchemaIds, CannotParse(s) PROVE ProtobufInv'
    <2>1. /\ at = "idle" /\ UNCHANGED <<db, index, loaded_schemas, at, channel, next_file>>
          /\ instances' = Extend(instances, s, NULL) /\ s \in Unparseable
      BY <1>2 DEF CannotParse
    <2>2. DatabaseInv' /\ Known' = Known
      BY <2>1, SameDatabase
    <2>3. s \notin Trusted
      BY <2>1 DEF Trusted, WellFormed
    <2>4. InstancesInv'
      BY <2>1, <2>2, <2>3, NewInstance
    <2> QED BY <2>1, <2>2, <2>4 DEF LoadInv
  <1>3. ASSUME NEW s \in SchemaIds, BeginLoad(s) PROVE ProtobufInv'
    <2>1. /\ UNCHANGED <<db, index, loaded_schemas, instances>>
          /\ at' = "load" /\ channel' = s /\ next_file' = 1
          /\ s \in SchemaIds \ (Unparseable \cup DOMAIN instances)
      BY <1>3 DEF BeginLoad
    <2>2. DatabaseInv' /\ Known' = Known
      BY <2>1, SameDatabase
    <2>3. InstancesInv'
      BY <2>1, <2>2, SameInstances
    <2>4. \A k \in DOMAIN FileSet[s] : ~(k < 1)
      BY <2>1, ProtobufAssumption DEF ProtobufAssumption
    <2> QED BY <2>1, <2>2, <2>3, <2>4 DEF LoadInv
  <1>loop. ASSUME InLoop
           PROVE  /\ channel \in SchemaIds \ Unparseable /\ next_file \in DOMAIN FileSet[channel]
                  /\ File \in Files(channel) /\ File \in AllFiles
    <2>1. channel \in SchemaIds \ Unparseable /\ next_file \in Nat \ {0}
          /\ next_file <= Len(FileSet[channel])
      BY <1>loop DEF InLoop, LoadInv
    <2>2. next_file \in DOMAIN FileSet[channel]
      BY <2>1, ProtobufAssumption DEF ProtobufAssumption
    <2> QED BY <2>1, <2>2, FilesInAll DEF Files, File
  <1>next. ASSUME InLoop, DOMAIN db \subseteq DOMAIN db', File.name \in DOMAIN db',
                  next_file' = next_file + 1, UNCHANGED <<at, channel, instances>>
           PROVE  LoadInv'
    <2>1. at = "load" /\ next_file \in Nat \ {0}
      BY <1>next DEF InLoop, LoadInv
    <2>2. ASSUME NEW k \in DOMAIN FileSet[channel], k < next_file + 1
          PROVE  FileSet[channel][k].name \in DOMAIN db'
      <3>1. k \in Nat
        BY <1>loop, <1>next, ProtobufAssumption DEF ProtobufAssumption
      <3>2. k < next_file \/ k = next_file
        BY <2>1, <2>2, <3>1
      <3> QED BY <1>next, <2>1, <2>2, <3>2 DEF LoadInv, File
    <2> QED BY <1>next, <2>1, <2>2 DEF LoadInv
  <1>4. CASE SkipFile
    <2>1. /\ InLoop /\ File.name \in DOMAIN db /\ next_file' = next_file + 1
          /\ UNCHANGED <<db, index, loaded_schemas, instances, at, channel>>
      BY <1>4 DEF SkipFile
    <2>2. DatabaseInv' /\ Known' = Known
      BY <2>1, SameDatabase
    <2> QED BY <1>next, <2>1, <2>2, SameInstances
  <1>5. CASE AddFile
    <2>1. /\ InLoop /\ File.name \notin DOMAIN db /\ File.types \cap DOMAIN index = {}
          /\ next_file' = next_file + 1
          /\ db' = Extend(db, File.name, File)
          /\ index' = [t \in DOMAIN index \cup File.types |->
                         IF t \in File.types THEN File.name ELSE index[t]]
          /\ UNCHANGED <<loaded_schemas, instances, at, channel>>
      BY <1>5 DEF AddFile
    <2>2. File \in AllFiles /\ File.types \in SUBSET (File.types \ DOMAIN index)
      BY <1>loop, <2>1
    <2> HIDE DEF File
    <2>3. DatabaseInv' /\ Known \subseteq Known' /\ DOMAIN db \subseteq DOMAIN db'
      BY <2>1, <2>2, DatabaseGrows
    <2>4. File.name \in DOMAIN db'
      BY <2>1 DEF Extend
    <2> QED BY <1>next, <2>1, <2>3, <2>4, SameInstances
  <1>6. CASE AddFileFails
    <2>1. /\ InLoop /\ File.name \notin DOMAIN db /\ File.types \cap DOMAIN index # {}
          /\ db' = Extend(db, File.name, File)
          /\ instances' = Extend(instances, channel, NULL)
          /\ at' = "idle" /\ UNCHANGED <<loaded_schemas, next_file>>
      BY <1>6 DEF AddFileFails
    <2>2. PICK kept \in SUBSET (File.types \ DOMAIN index) :
            index' = [t \in DOMAIN index \cup kept |-> IF t \in kept THEN File.name ELSE index[t]]
      BY <1>6 DEF AddFileFails
    <2>3. channel \in SchemaIds /\ File \in AllFiles /\ File \in Files(channel)
      BY <1>loop, <2>1
    <2>4. ASSUME NEW s \in Trusted, File \in Files(s) PROVE FALSE
      <3>1. PICK t \in File.types : t \in DOMAIN index
        BY <2>1
      <3>2. db[index[t]] \in Known /\ t \in db[index[t]].types /\ db[index[t]].name \in DOMAIN db
        BY <3>1, KnownInAll DEF DatabaseInv, Known
      <3>3. db[index[t]] = File
        BY <2>4, <3>1, <3>2, TrustedIsUnique
      <3> QED BY <2>1, <3>2, <3>3
    <2>5. DatabaseInv' /\ Known \subseteq Known'
      BY <2>1, <2>2, <2>3, <2>4, DatabaseGrows
    <2>6. InstancesInv'
      BY <2>1, <2>3, <2>4, <2>5, NewInstance
    <2> QED BY <2>1, <2>5, <2>6 DEF LoadInv
  <1>7. CASE EndLoad
    <2>1. /\ at = "load" /\ next_file > Len(FileSet[channel])
          /\ loaded_schemas' = loaded_schemas \cup {channel}
          /\ at' = "idle" /\ UNCHANGED <<db, index, next_file>>
      BY <1>7 DEF EndLoad
    <2>2. channel \in SchemaIds \ Unparseable
      BY <2>1 DEF LoadInv
    <2>3. DatabaseInv' /\ Known' = Known
      BY <2>1, SameDatabase
    <2>4. ASSUME channel \in Trusted PROVE Files(channel) \subseteq Known
      <3>1. \A k \in DOMAIN FileSet[channel] : FileSet[channel][k].name \in DOMAIN db
        BY <2>1, <2>2, ProtobufAssumption DEF LoadInv, ProtobufAssumption
      <3>2. \A f \in Files(channel) : f.name \in DOMAIN db
        BY <3>1 DEF Files
      <3> QED BY <2>4, <3>2, TrustedIsUnique
    <2>5. CASE \E r \in {Descriptor(SchemaName[channel], f, Known) : f \in Known} :
                 Finds(SchemaName[channel], r) /\ instances' = Extend(instances, channel, r)
      <3>1. PICK r : /\ Finds(SchemaName[channel], r)
                     /\ instances' = Extend(instances, channel, r)
                     /\ r \in {Descriptor(SchemaName[channel], f, Known) : f \in Known}
        BY <2>5
      <3>2. r.files \subseteq Known
        BY <3>1, ImportsClosed DEF Descriptor
      <3>3. channel \in Trusted => IsOwn(channel, r)
        BY <3>1, FindsOwn
      <3>4. InstancesInv'
        BY <2>1, <2>2, <2>3, <3>1, <3>2, <3>3, NewInstance
      <3> QED BY <2>1, <2>3, <3>4 DEF LoadInv
    <2>6. CASE FindsNothing(SchemaName[channel]) /\ instances' = Extend(instances, channel, NULL)
      <3>1. channel \notin Trusted
        BY <2>4, <2>6, FindsSomething
      <3>2. InstancesInv'
        BY <2>1, <2>2, <2>3, <2>6, <3>1, NewInstance
      <3> QED BY <2>1, <2>3, <3>2 DEF LoadInv
    <2> QED BY <1>7, <2>5, <2>6 DEF EndLoad
  <1>8. CASE UNCHANGED protobufVars
    <2>1. UNCHANGED <<db, index, loaded_schemas, instances, at, channel, next_file>>
      BY <1>8 DEF protobufVars
    <2>2. DatabaseInv' /\ Known' = Known
      BY <2>1, SameDatabase
    <2>3. LoadInv'
      BY <2>1 DEF LoadInv
    <2> QED BY <2>1, <2>2, <2>3, SameInstances
  <1> QED BY <1>1, <1>2, <1>3, <1>4, <1>5, <1>6, <1>7, <1>8 DEF Next

LEMMA ProtobufInvariance == Spec => []ProtobufInv
  BY ProtobufInvInit, ProtobufInvStep, PTL DEF Spec

\* Type correctness of the decoder's database and caches.
THEOREM ProtobufTypes == Spec => []TypeOK
  <1>1. ProtobufInv => TypeOK
    BY DEF ProtobufInv, DatabaseInv, LoadInv, InstancesInv, TypeOK
  <1> QED BY <1>1, ProtobufInvariance, PTL

\* Whatever conflicts and gaps there are among the schemas of a file and in
\* whatever order the channels are met, a schema that is complete in itself and
\* shares no name with a different file or definition is decoded through its
\* own descriptor (protobuf_decoder.cpp:32-71).
THEOREM ProtobufOwnDescriptor == Spec => []OwnDescriptor
  <1>1. ProtobufInv => OwnDescriptor
    BY DEF ProtobufInv, InstancesInv
  <1> QED BY <1>1, ProtobufInvariance, PTL

=============================================================================
