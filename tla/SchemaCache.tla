---------------------------- MODULE SchemaCache ----------------------------
(***************************************************************************)
(* What a scan knows of the channels of a file (schema_cache.cpp) and how  *)
(* a payload is turned into JSON according to it (decoder.cpp).            *)
(*                                                                         *)
(* The cache is a snapshot of the summary: a channel the summary does not  *)
(* list is unknown for the whole scan.  What a decoder makes of a message  *)
(* is given with the message, `decoded': Ros2Decoder and ProtobufDecoder   *)
(* model how it is made.                                                   *)
(***************************************************************************)
EXTENDS Naturals, TLC

CONSTANTS
  Channels,    \* the channels messages refer to: [topic, encoding, schema] by id
  Summary,     \* the ids of the channels in the file's summary
  Schemas      \* the ids of the schemas in it

NoSchema == 0

ASSUME SchemaCacheAssumption == Summary \subseteq DOMAIN Channels /\ Schemas \subseteq Nat \ {NoSchema}

\* McapSchemaCache::FromReader; a schema that is not found leaves its fields empty.
FromReader ==
  [id \in Summary |->
     [Channels[id] EXCEPT !.schema = IF @ \in Schemas THEN @ ELSE NoSchema]]

\* Lookup: <<>> for a null pointer.
Lookup(cache, id) == IF id \in DOMAIN cache THEN <<cache[id]>> ELSE <<>>

\* The encodings are compared in lower case; of the spellings with capitals, two.
LowerCase == ("JSON" :> "json") @@ ("CDR" :> "cdr")
ToLower(encoding) == IF encoding \in DOMAIN LowerCase THEN LowerCase[encoding] ELSE encoding

JsonEncodings == {"json", "jsonschema", "application/json"}

\* The payload as JSON, <<>> when there is none.  decoders are those the caller
\* passes, "protobuf" and "cdr"; both need a schema.
DecodePayloadJson(channel, message, decoders) ==
  LET encoding == ToLower(channel.encoding)
  IN  IF encoding \in JsonEncodings THEN <<message.data>>
      ELSE IF encoding \in decoders /\ channel.schema # NoSchema THEN message.decoded
      ELSE <<>>

=============================================================================
