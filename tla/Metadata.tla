------------------------------ MODULE Metadata ------------------------------
(***************************************************************************)
(* The table functions that describe a file: mcap_topics, mcap_channels,   *)
(* mcap_schemas, mcap_info, mcap_attachments and mcap_metadata.            *)
(*                                                                         *)
(* All six work alike: bind, open the file, walk through some of its       *)
(* records and make rows of them, then return the rows in chunks of at     *)
(* most VectorSize.  Records behind an index are read from the file again, *)
(* and one that cannot be read (mcap_file.cpp:26) or parsed is skipped.    *)
(* Columns copied from a record are abstracted to `entry', the record a    *)
(* row was made from.  todo is what the current loop has still to visit.   *)
(* skipped is history: no guard reads it.                                  *)
(***************************************************************************)
EXTENDS McapTime, Sequences, FiniteSets

CONSTANTS
  Functions,      \* the table functions that are called
  VectorSize,     \* STANDARD_VECTOR_SIZE
  Channels,       \* the channels of the file's summary
  TopicOf,        \* the topic of a channel
  Counts,         \* channelMessageCounts of the statistics, NoCounts without
  Indexes,        \* the message index records the chunk indexes refer to
  ChunkOf,        \* the position of the chunk an index record belongs to
  ChannelOf,      \* the channel an index record is about
  TimesOf,        \* the log times in an index record
  Schemas,
  Attachments,
  AttachmentTime, \* logTime of an attachment
  MetadataRecords, \* the metadata records
  Keys,           \* the keys of a metadata record, in the order of the map
  FileTimes       \* messageStartTime and messageEndTime, NoTimes without

Null == -1
NoCounts == <<>>
NoTimes == <<>>
File == 0

ASSUME MetadataAssumption ==
  /\ Functions \subseteq {"mcap_topics", "mcap_channels", "mcap_schemas", "mcap_info",
                          "mcap_attachments", "mcap_metadata"}
  /\ VectorSize \in Nat \ {0}
  /\ ChunkOf \in [Indexes -> Nat]
  /\ TimesOf \in [Indexes -> SUBSET Times]
  /\ TopicOf \in [Channels -> STRING]
  /\ \A c \in DOMAIN Counts : Counts[c] \in Nat
  /\ AttachmentTime \in [Attachments -> Times]
  /\ Keys \in [MetadataRecords -> Seq(STRING)]
  /\ FileTimes = NoTimes \/ FileTimes \in Times \X Times

VARIABLES
  called,     \* the table function
  phase,      \* "bind", "open", "index", "rows", "scan", "done" or "error"
  todo,       \* the records the current loop has still to visit
  current,    \* the message index being folded: its channel and times left
  ranges,     \* the channels' time ranges built so far
  skipped,    \* the records that could not be read
  rows,       \* the materialised rows
  offset,     \* how many of them have been returned
  emitted     \* what was returned

metadataVars == <<called, phase, todo, current, ranges, skipped, rows, offset, emitted>>

\* The records the rows of each function are made from.
Entries ==
  CASE called \in {"mcap_topics", "mcap_channels"} -> Channels
    [] called = "mcap_schemas"     -> Schemas
    [] called = "mcap_info"        -> {File}
    [] called = "mcap_attachments" -> Attachments
    [] called = "mcap_metadata"    -> MetadataRecords

NoIndex == [channel |-> Null, left |-> {}]
NoRanges == [c \in {} |-> 0]

Init ==
  /\ called \in Functions
  /\ phase = "bind"
  /\ todo = {}
  /\ current = NoIndex
  /\ ranges = NoRanges
  /\ skipped = {}
  /\ rows = <<>>
  /\ offset = 0
  /\ emitted = <<>>

Bind ==
  /\ phase = "bind"
  /\ phase' = "open"
  /\ UNCHANGED <<called, todo, current, ranges, skipped, rows, offset, emitted>>

\* OpenMcapFile succeeds; mcap_topics reads the message indexes first.
Open ==
  /\ phase = "open"
  /\ IF called = "mcap_topics"
     THEN phase' = "index" /\ todo' = Indexes
     ELSE phase' = "rows" /\ todo' = Entries
  /\ UNCHANGED <<called, current, ranges, skipped, rows, offset, emitted>>

\* A missing argument, a file that is missing or not an MCAP file.
Fails ==
  /\ phase \in {"bind", "open"}
  /\ phase' = "error"
  /\ UNCHANGED <<called, todo, current, ranges, skipped, rows, offset, emitted>>

\* The next message index: chunk after chunk, in any order within a chunk.
NextIndex(r) ==
  /\ phase = "index"
  /\ current = NoIndex
  /\ r \in todo
  /\ \A q \in todo : ChunkOf[r] <= ChunkOf[q]
  /\ todo' = todo \ {r}

ReadIndex(r) ==
  /\ NextIndex(r)
  /\ current' = IF TimesOf[r] = {} THEN NoIndex
                ELSE [channel |-> ChannelOf[r], left |-> TimesOf[r]]
  /\ UNCHANGED <<called, phase, ranges, skipped, rows, offset, emitted>>

SkipIndex(r) ==
  /\ NextIndex(r)
  /\ skipped' = skipped \cup {r}
  /\ UNCHANGED <<called, phase, current, ranges, rows, offset, emitted>>

\* Fault: Widened takes the start of a range from the first chunk it is in.
WidenedForward(range, t) ==
  [range EXCEPT !.last = IF t > @ THEN t ELSE @]

Widened(range, t) ==
  [first |-> IF t < range.first THEN t ELSE range.first,
   last  |-> IF t > range.last THEN t ELSE range.last]

\* One entry of a message index is folded into the range of its channel.
FoldTime(t) ==
  LET c == current.channel
      range == IF c \in DOMAIN ranges THEN Widened(ranges[c], t) ELSE [first |-> t, last |-> t]
  IN  /\ t \in current.left
      /\ ranges' = [d \in DOMAIN ranges \cup {c} |-> IF d = c THEN range ELSE ranges[d]]
      /\ current' = IF current.left = {t} THEN NoIndex ELSE [current EXCEPT !.left = @ \ {t}]
      /\ UNCHANGED <<called, phase, todo, skipped, rows, offset, emitted>>

IndexesRead ==
  /\ phase = "index"
  /\ current = NoIndex
  /\ todo = {}
  /\ phase' = "rows"
  /\ todo' = Channels
  /\ UNCHANGED <<called, current, ranges, skipped, rows, offset, emitted>>

-----------------------------------------------------------------------------
(* The rows made from one entry. *)

\* One row per channel; the range is NULL when no message index was found.
TopicRow(c) ==
  [entry |-> c,
   topic |-> TopicOf[c],
   count |-> IF c \in DOMAIN Counts THEN Counts[c] ELSE 0,
   start |-> IF c \in DOMAIN ranges THEN ToTimestampNs(ranges[c].first) ELSE Null,
   end   |-> IF c \in DOMAIN ranges THEN ToTimestampNs(ranges[c].last) ELSE Null]

InfoRow ==
  [entry |-> File,
   start |-> IF FileTimes = NoTimes THEN Null ELSE ToTimestampNs(FileTimes[1]),
   end   |-> IF FileTimes = NoTimes THEN Null ELSE ToTimestampNs(FileTimes[2])]

ChannelRow(c) == [entry |-> c, topic |-> TopicOf[c]]

SchemaRow(s) == [entry |-> s]

AttachmentRow(a) == [entry |-> a, log_time |-> ToTimestampNs(AttachmentTime[a])]

MetadataRows(r) == [i \in 1 .. Len(Keys[r]) |-> [entry |-> r, key |-> Keys[r][i]]]

NewRows(e) ==
  CASE called = "mcap_topics"      -> <<TopicRow(e)>>
    [] called = "mcap_channels"    -> <<ChannelRow(e)>>
    [] called = "mcap_schemas"     -> <<SchemaRow(e)>>
    [] called = "mcap_info"        -> <<InfoRow>>
    [] called = "mcap_attachments" -> <<AttachmentRow(e)>>
    [] called = "mcap_metadata"    -> MetadataRows(e)

Visits(e) ==
  /\ phase = "rows"
  /\ e \in todo
  /\ todo' = todo \ {e}

PushRows(e) ==
  /\ Visits(e)
  /\ rows' = rows \o NewRows(e)
  /\ UNCHANGED <<called, phase, current, ranges, skipped, offset, emitted>>

\* Fault: SkipRecord leaves the loop instead of continuing it.
SkipRecordBreaks(e) ==
  /\ Visits(e)
  /\ called \in {"mcap_attachments", "mcap_metadata"}
  /\ skipped' = skipped \cup {e}
  /\ phase' = "scan"
  /\ UNCHANGED <<called, current, ranges, rows, offset, emitted>>

\* An attachment or a metadata record that cannot be read or parsed.
SkipRecord(e) ==
  /\ Visits(e)
  /\ called \in {"mcap_attachments", "mcap_metadata"}
  /\ skipped' = skipped \cup {e}
  /\ UNCHANGED <<called, phase, current, ranges, rows, offset, emitted>>

InitGlobalReturns ==
  /\ phase = "rows"
  /\ todo = {}
  /\ phase' = "scan"
  /\ UNCHANGED <<called, todo, current, ranges, skipped, rows, offset, emitted>>

\* How many rows the next chunk takes.
ChunkSize == IF Len(rows) - offset < VectorSize THEN Len(rows) - offset ELSE VectorSize

\* Fault: ScanChunk advances by a whole chunk whatever it took.
ScanChunkFullStride ==
  /\ phase = "scan"
  /\ emitted' = emitted \o SubSeq(rows, offset + 1, offset + ChunkSize)
  /\ offset' = offset + VectorSize
  /\ phase' = IF ChunkSize = 0 THEN "done" ELSE "scan"
  /\ UNCHANGED <<called, todo, current, ranges, skipped, rows>>

\* Fault: ScanChunk counts a row that it does not return.
ScanChunkSkipsRow ==
  /\ phase = "scan"
  /\ emitted' = emitted \o SubSeq(rows, offset + 2, offset + ChunkSize)
  /\ offset' = offset + ChunkSize
  /\ phase' = IF ChunkSize = 0 THEN "done" ELSE "scan"
  /\ UNCHANGED <<called, todo, current, ranges, skipped, rows>>

\* TopicsScan, ChannelsScan, SchemasScan, ValueRowsScan: one chunk of rows; an
\* empty one ends the scan.
ScanChunk ==
  /\ phase = "scan"
  /\ emitted' = emitted \o SubSeq(rows, offset + 1, offset + ChunkSize)
  /\ offset' = offset + ChunkSize
  /\ phase' = IF ChunkSize = 0 THEN "done" ELSE "scan"
  /\ UNCHANGED <<called, todo, current, ranges, skipped, rows>>

Ended == phase \in {"done", "error"} /\ UNCHANGED metadataVars

Next ==
  \/ Bind
  \/ Open
  \/ Fails
  \/ \E r \in Indexes : ReadIndex(r) \/ SkipIndex(r)
  \/ \E t \in Times : FoldTime(t)
  \/ IndexesRead
  \/ \E e \in Entries : PushRows(e) \/ SkipRecord(e)
  \/ InitGlobalReturns
  \/ ScanChunk
  \/ Ended

Spec == Init /\ [][Next]_metadataVars
-----------------------------------------------------------------------------
Shown == Times \cup {Null}

Row ==
  [entry : Channels, topic : STRING, count : Nat, start : Shown, end : Shown]
  \cup [entry : Channels, topic : STRING]
  \cup [entry : Schemas]
  \cup [entry : {File}, start : Shown, end : Shown]
  \cup [entry : Attachments, log_time : Times]
  \cup [entry : MetadataRecords, key : STRING]

TypeOK ==
  /\ called \in Functions
  /\ phase \in {"bind", "open", "index", "rows", "scan", "done", "error"}
  /\ \/ current = NoIndex
     \/ current \in [channel : {ChannelOf[r] : r \in Indexes}, left : (SUBSET Times) \ {{}}]
  /\ \A c \in DOMAIN ranges : ranges[c] \in [first : Times, last : Times]
  /\ rows \in Seq(Row)
  /\ offset \in 0 .. Len(rows)
  /\ emitted \in Seq(Row)

\* The log times of the messages of a channel, according to the file's indexes.
LogTimesOf(c) == UNION {TimesOf[r] : r \in {q \in Indexes : ChannelOf[q] = c}}

\* The range a row shows is the hull, as displayed, of these log times.
IsRange(row, times) ==
  IF times = {} THEN row.start = Null /\ row.end = Null
  ELSE /\ \E t \in times : row.start = ToTimestampNs(t)
       /\ \E t \in times : row.end = ToTimestampNs(t)
       /\ \A t \in times : row.start <= ToTimestampNs(t) /\ ToTimestampNs(t) <= row.end

TopicRows == {rows[i] : i \in IF called = "mcap_topics" THEN DOMAIN rows ELSE {}}

\* Those in the indexes that could be read.
ReadTimes(c) == UNION {TimesOf[r] : r \in {q \in Indexes \ skipped : ChannelOf[q] = c}}

\* mcap_topics.cpp:103-147: however the messages of a channel are spread over
\* chunks, the range of its row is that of all of them; when some of its indexes
\* could not be read, that of the others.
RangesExact == \A row \in TopicRows : IsRange(row, ReadTimes(row.entry))

\* Every record that could be read is returned, once (a metadata record once
\* per key), and no other: a chunk that is exactly full or a skipped record
\* neither ends the scan early nor repeats a row.
EveryRecordOnce ==
  LET returned(e) == Cardinality({i \in DOMAIN emitted : emitted[i].entry = e})
  IN  /\ phase = "done" =>
           \A e \in Entries :
             returned(e) = IF called # "mcap_topics" /\ e \in skipped THEN 0
                           ELSE IF called = "mcap_metadata" THEN Len(Keys[e]) ELSE 1
      /\ \A i \in DOMAIN emitted : emitted[i].entry \in Entries

\* The scan returns the materialised rows in their order, all of them.
AllReturned ==
  /\ emitted = SubSeq(rows, 1, offset)
  /\ phase = "done" => emitted = rows

=============================================================================
