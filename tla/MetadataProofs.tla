--------------------------- MODULE MetadataProofs ---------------------------
(***************************************************************************)
(* Proofs about Metadata: for any file, any number of channels, chunks and *)
(* records, whichever of them can be read, and any chunk size.             *)
(***************************************************************************)
EXTENDS Metadata, FiniteSetTheorems, SequenceTheorems, TLAPS

\* The log times in the indexes of a channel that were read, and those of them
\* that still have to be folded into its range.
Read(c) == UNION {TimesOf[r] : r \in {q \in Indexes \ (todo \cup skipped) : ChannelOf[q] = c}}
Left(c) == IF current.channel = c THEN current.left ELSE {}

\* The range of a channel is spanned by log times that were read, and covers
\* those that were folded.
RangeOf(c, times, left) ==
  /\ c \in DOMAIN ranges => /\ ranges[c].first \in times
                            /\ ranges[c].last \in times
  /\ \A t \in times \ left : /\ c \in DOMAIN ranges
                             /\ ranges[c].first <= t /\ t <= ranges[c].last

\* While the indexes are read, the ranges hold what was folded so far; while the
\* rows are made, all of it.
RangesInv ==
  called = "mcap_topics" =>
    /\ phase \in {"bind", "open"} => ranges = NoRanges /\ skipped = {}
    /\ phase = "index" => /\ todo \cap skipped = {}
                          /\ \A c \in Channels : RangeOf(c, Read(c), Left(c))
    /\ phase = "rows" => \A c \in Channels : RangeOf(c, ReadTimes(c), {})

\* What is left to fold comes from an index that was read.
LeftIsRead == current = NoIndex \/ current.left \subseteq Read(current.channel)

PagesInv ==
  /\ Len(emitted) = offset
  /\ \A i \in 1 .. offset : emitted[i] = rows[i]
  /\ phase = "done" => offset = Len(rows)

MetadataInv ==
  /\ TypeOK
  /\ phase \in {"bind", "open", "index"} => rows = <<>> /\ offset = 0
  /\ phase # "index" => current = NoIndex
  /\ phase = "index" => called = "mcap_topics"
  /\ phase = "rows" => todo \subseteq Entries
  /\ RangesInv
  /\ LeftIsRead
  /\ RangesExact
  /\ PagesInv

-----------------------------------------------------------------------------
(* Times as they are shown, and the rows made of one entry. *)

LEMMA ShownTime == \A t \in Times : ToTimestampNs(t) \in Times
  BY TimeAssumption DEF Times, ToTimestampNs

LEMMA ShownInOrder ==
  \A s, t \in Times : s <= t => ToTimestampNs(s) <= ToTimestampNs(t)
  BY TimeAssumption DEF Times, ToTimestampNs

LEMMA ReadTimesAreTimes == \A c : ReadTimes(c) \subseteq Times
  BY MetadataAssumption DEF ReadTimes

\* The functions differ in what they make of an entry, but all make rows.
LEMMA NewRowsAreRows ==
  ASSUME TypeOK, NEW e \in Entries PROVE NewRows(e) \in Seq(Row)
  <1>1. CASE called = "mcap_topics"
    <2>1. e \in Channels
      BY <1>1 DEF Entries
    <2>2. TopicRow(e) \in [entry : Channels, topic : STRING, count : Nat, start : Shown, end : Shown]
      BY <2>1, MetadataAssumption, ShownTime DEF TopicRow, Shown, TypeOK
    <2> QED BY <1>1, <2>2 DEF NewRows, Row
  <1>2. CASE called = "mcap_channels"
    BY <1>2, MetadataAssumption DEF Entries, NewRows, ChannelRow, Row
  <1>3. CASE called = "mcap_schemas"
    BY <1>3 DEF Entries, NewRows, SchemaRow, Row
  <1>4. CASE called = "mcap_info"
    <2>1. InfoRow \in [entry : {File}, start : Shown, end : Shown]
      BY MetadataAssumption, ShownTime DEF InfoRow, Shown
    <2> QED BY <1>4, <2>1 DEF NewRows, Row
  <1>5. CASE called = "mcap_attachments"
    <2>1. AttachmentRow(e) \in [entry : Attachments, log_time : Times]
      BY <1>5, MetadataAssumption, ShownTime DEF Entries, AttachmentRow
    <2> QED BY <1>5, <2>1 DEF NewRows, Row
  <1>6. CASE called = "mcap_metadata"
    <2>1. e \in MetadataRecords /\ Keys[e] \in Seq(STRING) /\ Len(Keys[e]) \in Nat
      BY <1>6, MetadataAssumption DEF Entries
    <2>2. \A i \in 1 .. Len(Keys[e]) :
            [entry |-> e, key |-> Keys[e][i]] \in [entry : MetadataRecords, key : STRING]
      BY <2>1
    <2>3. MetadataRows(e) \in Seq(Row)
      BY <2>1, <2>2 DEF MetadataRows, Row
    <2> QED BY <1>6, <2>3 DEF NewRows
  <1> QED BY <1>1, <1>2, <1>3, <1>4, <1>5, <1>6, MetadataAssumption DEF TypeOK

\* A range that covers exactly the log times that were read is shown as such.
LEMMA TopicRowRange ==
  ASSUME TypeOK, NEW c \in Channels, RangeOf(c, ReadTimes(c), {})
  PROVE  IsRange(TopicRow(c), ReadTimes(c))
  <1>1. ReadTimes(c) \subseteq Times
    BY ReadTimesAreTimes
  <1>2. CASE ReadTimes(c) = {}
    BY <1>2 DEF RangeOf, IsRange, TopicRow
  <1>3. CASE ReadTimes(c) # {}
    <2>1. /\ c \in DOMAIN ranges
          /\ ranges[c].first \in ReadTimes(c) /\ ranges[c].last \in ReadTimes(c)
          /\ \A t \in ReadTimes(c) : ranges[c].first <= t /\ t <= ranges[c].last
      BY <1>3 DEF RangeOf
    <2>2. /\ TopicRow(c).start = ToTimestampNs(ranges[c].first)
          /\ TopicRow(c).end = ToTimestampNs(ranges[c].last)
      BY <2>1 DEF TopicRow
    <2>3. \A t \in ReadTimes(c) : /\ ToTimestampNs(ranges[c].first) <= ToTimestampNs(t)
                                  /\ ToTimestampNs(t) <= ToTimestampNs(ranges[c].last)
      BY <1>1, <2>1, ShownInOrder
    <2> QED BY <1>3, <2>1, <2>2, <2>3 DEF IsRange
  <1> QED BY <1>2, <1>3

-----------------------------------------------------------------------------
(* The invariant, initially and over every step. *)

LEMMA MetadataInvInit == Init => MetadataInv
  <1> SUFFICES ASSUME Init PROVE MetadataInv
    OBVIOUS
  <1>1. TypeOK
    BY DEF Init, TypeOK, NoRanges
  <1>2. RangesExact /\ PagesInv
    BY DEF Init, RangesExact, TopicRows, PagesInv
  <1>3. RangesInv /\ LeftIsRead
    BY DEF Init, RangesInv, LeftIsRead
  <1> QED BY <1>1, <1>2, <1>3 DEF Init, MetadataInv

\* Steps that leave the rows, the pages and the skipped records alone.
LEMMA RowsStay ==
  ASSUME MetadataInv, UNCHANGED <<called, rows, offset, emitted, skipped>>
  PROVE  RangesExact'
  BY DEF MetadataInv, RangesExact, TopicRows, ReadTimes

LEMMA PagesStay ==
  ASSUME MetadataInv, UNCHANGED <<rows, offset, emitted>>, phase' # "done"
  PROVE  PagesInv'
  BY DEF MetadataInv, PagesInv

\* Until rows are made there is no row to be exact.
LEMMA NoRowsYet ==
  ASSUME rows' = <<>> PROVE RangesExact'
  BY DEF RangesExact, TopicRows

LEMMA ReadIndexInv ==
  ASSUME MetadataInv, NEW r \in Indexes, ReadIndex(r) PROVE MetadataInv'
  <1>1. /\ phase = "index" /\ current = NoIndex /\ r \in todo /\ todo' = todo \ {r}
        /\ UNCHANGED <<called, phase, ranges, skipped, rows, offset, emitted>>
        /\ current' = IF TimesOf[r] = {} THEN NoIndex
                      ELSE [channel |-> ChannelOf[r], left |-> TimesOf[r]]
    BY DEF ReadIndex, NextIndex
  <1>2. TypeOK'
    BY <1>1, MetadataAssumption DEF MetadataInv, TypeOK
  <1>3. ASSUME NEW c \in Channels PROVE RangeOf(c, Read(c), Left(c))'
    <2>1. RangeOf(c, Read(c), {})
      BY <1>1 DEF MetadataInv, RangesInv, Left, NoIndex
    <2>2. Read(c) \subseteq Read(c)'
      BY <1>1 DEF Read
    <2>3. Read(c)' \ Left(c)' \subseteq Read(c)
      <3> SUFFICES ASSUME NEW t \in Read(c)', t \notin Read(c) PROVE t \in Left(c)'
        OBVIOUS
      <3>1. t \in TimesOf[r] /\ ChannelOf[r] = c
        BY <1>1 DEF Read
      <3> QED BY <1>1, <3>1 DEF Left
    <2> QED BY <1>1, <2>1, <2>2, <2>3 DEF RangeOf
  <1>4. LeftIsRead'
    <2>1. TimesOf[r] # {} => TimesOf[r] \subseteq Read(ChannelOf[r])'
      <3>1. r \notin todo' /\ r \notin skipped'
        BY <1>1 DEF MetadataInv, RangesInv
      <3> QED BY <3>1 DEF Read
    <2> QED BY <1>1, <2>1 DEF LeftIsRead
  <1>5. RangesInv'
    BY <1>1, <1>3 DEF MetadataInv, RangesInv
  <1> QED BY <1>1, <1>2, <1>4, <1>5, RowsStay, PagesStay DEF MetadataInv

LEMMA SkipIndexInv ==
  ASSUME MetadataInv, NEW r \in Indexes, SkipIndex(r) PROVE MetadataInv'
  <1>1. /\ phase = "index" /\ r \in todo /\ todo' = todo \ {r} /\ skipped' = skipped \cup {r}
        /\ UNCHANGED <<called, phase, current, ranges, rows, offset, emitted>>
    BY DEF SkipIndex, NextIndex
  <1>2. \A c : Read(c)' = Read(c)
    BY <1>1 DEF Read
  <1>3. \A c \in Channels : RangeOf(c, Read(c), Left(c))'
    BY <1>1, <1>2 DEF MetadataInv, RangesInv, RangeOf, Left
  <1>4. LeftIsRead'
    BY <1>1, <1>2 DEF MetadataInv, LeftIsRead
  <1>5. RangesInv'
    BY <1>1, <1>3 DEF MetadataInv, RangesInv
  <1>6. TypeOK'
    BY <1>1 DEF MetadataInv, TypeOK
  <1> QED BY <1>1, <1>4, <1>5, <1>6, NoRowsYet, PagesStay DEF MetadataInv

LEMMA FoldTimeInv ==
  ASSUME MetadataInv, NEW t \in Times, FoldTime(t) PROVE MetadataInv'
  <1> DEFINE c == current.channel
             range == IF c \in DOMAIN ranges THEN Widened(ranges[c], t)
                      ELSE [first |-> t, last |-> t]
  <1>1. /\ t \in current.left
        /\ ranges' = [d \in DOMAIN ranges \cup {c} |-> IF d = c THEN range ELSE ranges[d]]
        /\ current' = IF current.left = {t} THEN NoIndex ELSE [current EXCEPT !.left = @ \ {t}]
        /\ UNCHANGED <<called, phase, todo, skipped, rows, offset, emitted>>
    BY DEF FoldTime
  <1>2. current # NoIndex /\ phase = "index"
    BY <1>1 DEF NoIndex, MetadataInv
  <1>8. current \in [channel : {ChannelOf[r] : r \in Indexes}, left : (SUBSET Times) \ {{}}]
    BY <1>2 DEF MetadataInv, TypeOK
  <1>3. current.left \in (SUBSET Times) \ {{}}
    BY <1>8
  <1>4. range \in [first : Times, last : Times] /\ range.first <= t /\ t <= range.last
    BY TimeAssumption DEF MetadataInv, TypeOK, Widened, Times
  <1>5. TypeOK'
    <2>1. \/ current' = NoIndex
          \/ current' \in [channel : {ChannelOf[r] : r \in Indexes}, left : (SUBSET Times) \ {{}}]
      <3>1. CASE current.left = {t}
        BY <1>1, <3>1
      <3>2. CASE current.left # {t}
        BY <1>1, <1>8, <3>2
      <3> QED BY <3>1, <3>2
    <2>2. \A d \in DOMAIN ranges' : ranges'[d] \in [first : Times, last : Times]
      BY <1>1, <1>4 DEF MetadataInv, TypeOK
    <2> QED BY <1>1, <2>1, <2>2 DEF MetadataInv, TypeOK
  <1>6. ASSUME NEW d \in Channels PROVE RangeOf(d, Read(d), Left(d))'
    <2>1. Read(d)' = Read(d) /\ RangeOf(d, Read(d), Left(d))
      BY <1>1, <1>2 DEF Read, MetadataInv, RangesInv
    <2>2. CASE d # c
      <3>1. /\ d \in DOMAIN ranges' <=> d \in DOMAIN ranges
            /\ d \in DOMAIN ranges => ranges'[d] = ranges[d]
        BY <1>1, <2>2
      <3>2. Left(d) = {} /\ Left(d)' = {}
        BY <1>1, <2>2 DEF Left, NoIndex
      <3> QED BY <2>1, <3>1, <3>2 DEF RangeOf
    <2>3. CASE d = c
      <3>1. d \in DOMAIN ranges' /\ ranges'[d] = range
        BY <1>1, <2>3
      <3>2. /\ Left(d) = current.left
            /\ Read(d) \ Left(d)' \subseteq (Read(d) \ Left(d)) \cup {t}
        BY <1>1, <2>3 DEF Left
      <3>3. t \in Read(d)
        BY <1>1, <1>2, <2>3 DEF MetadataInv, LeftIsRead, Left
      <3>4. range.first \in Read(d) /\ range.last \in Read(d)
        BY <2>1, <2>3, <3>3 DEF RangeOf, Widened
      <3>5. ASSUME NEW s \in Read(d) \ Left(d) PROVE range.first <= s /\ s <= range.last
        <4>1. /\ d \in DOMAIN ranges /\ ranges[d].first <= s /\ s <= ranges[d].last
              /\ ranges[d] \in [first : Times, last : Times]
          BY <2>1, <3>5 DEF RangeOf, MetadataInv, TypeOK
        <4>2. s \in Times
          BY MetadataAssumption DEF Read
        <4> QED BY <2>3, <4>1, <4>2, TimeAssumption DEF Widened, Times
      <3> QED BY <1>4, <2>1, <3>1, <3>2, <3>4, <3>5 DEF RangeOf
    <2> QED BY <2>2, <2>3
  <1>7. LeftIsRead'
    <2>1. current.left \subseteq Read(current.channel) /\ \A d : Read(d)' = Read(d)
      BY <1>1, <1>2 DEF MetadataInv, LeftIsRead, Read
    <2>2. CASE current.left = {t}
      BY <1>1, <2>2 DEF LeftIsRead
    <2>3. CASE current.left # {t}
      <3>1. current'.left \subseteq current.left /\ current'.channel = current.channel
        BY <1>1, <1>8, <2>3
      <3> QED BY <2>1, <3>1 DEF LeftIsRead
    <2> QED BY <2>2, <2>3
  <1>9. RangesInv'
    BY <1>1, <1>2, <1>6 DEF MetadataInv, RangesInv
  <1> QED BY <1>1, <1>2, <1>5, <1>7, <1>9, RowsStay, PagesStay DEF MetadataInv

LEMMA PushRowsInv ==
  ASSUME MetadataInv, NEW e \in Entries, PushRows(e) PROVE MetadataInv'
  <1>1. /\ phase = "rows" /\ e \in todo /\ todo' = todo \ {e} /\ rows' = rows \o NewRows(e)
        /\ UNCHANGED <<called, phase, current, ranges, skipped, offset, emitted>>
    BY DEF PushRows, Visits
  <1>2. rows \in Seq(Row) /\ NewRows(e) \in Seq(Row)
    BY NewRowsAreRows DEF MetadataInv, TypeOK
  <1>3. /\ rows' \in Seq(Row) /\ Len(rows') = Len(rows) + Len(NewRows(e))
        /\ Len(rows) \in Nat /\ Len(NewRows(e)) \in Nat
        /\ \A i \in 1 .. Len(rows) : rows'[i] = rows[i]
        /\ \A i \in 1 .. Len(rows') : i > Len(rows) => rows'[i] = NewRows(e)[i - Len(rows)]
    BY <1>1, <1>2
  <1>4. TypeOK'
    BY <1>1, <1>3 DEF MetadataInv, TypeOK
  <1>5. RangesExact'
    <2> SUFFICES ASSUME NEW row \in TopicRows' PROVE IsRange(row, ReadTimes(row.entry))
      BY <1>1 DEF RangesExact, ReadTimes, IsRange
    <2> PICK i \in 1 .. Len(rows') : row = rows'[i]
      BY <1>1, <1>3 DEF TopicRows
    <2>3. called = "mcap_topics"
      BY <1>1 DEF TopicRows
    <2>1. CASE i <= Len(rows)
      <3>1. rows'[i] = rows[i] /\ i \in DOMAIN rows
        BY <1>2, <1>3, <2>1
      <3>2. rows[i] \in TopicRows
        BY <2>3, <3>1 DEF TopicRows
      <3> QED BY <3>1, <3>2 DEF MetadataInv, RangesExact
    <2>2. CASE i > Len(rows)
      <3>1. NewRows(e) = <<TopicRow(e)>> /\ e \in Channels
        BY <2>3 DEF NewRows, Entries
      <3>2. rows'[i] = TopicRow(e)
        BY <1>3, <2>2, <3>1
      <3>3. TopicRow(e).entry = e
        BY DEF TopicRow
      <3>4. IsRange(TopicRow(e), ReadTimes(e))
        BY <1>1, <2>3, <3>1, TopicRowRange DEF MetadataInv, RangesInv
      <3> QED BY <3>2, <3>3, <3>4
    <2> QED BY <1>3, <2>1, <2>2
  <1>6. PagesInv'
    BY <1>1, <1>3 DEF MetadataInv, PagesInv, TypeOK
  <1>7. RangesInv'
    BY <1>1 DEF MetadataInv, RangesInv, RangeOf, ReadTimes
  <1>8. Entries' = Entries
    BY <1>1 DEF Entries
  <1> QED BY <1>1, <1>4, <1>5, <1>6, <1>7, <1>8 DEF MetadataInv, LeftIsRead

LEMMA ScanChunkInv ==
  ASSUME MetadataInv, ScanChunk PROVE MetadataInv'
  <1>1. /\ phase = "scan" /\ offset' = offset + ChunkSize
        /\ emitted' = emitted \o SubSeq(rows, offset + 1, offset + ChunkSize)
        /\ phase' = IF ChunkSize = 0 THEN "done" ELSE "scan"
        /\ UNCHANGED <<called, todo, current, ranges, skipped, rows>>
    BY DEF ScanChunk
  <1>2. /\ rows \in Seq(Row) /\ emitted \in Seq(Row) /\ Len(rows) \in Nat /\ Len(emitted) = offset
        /\ offset \in Nat /\ offset <= Len(rows)
    BY DEF MetadataInv, TypeOK, PagesInv
  <1>3. /\ ChunkSize \in Nat /\ offset + ChunkSize <= Len(rows)
        /\ ChunkSize = 0 => offset = Len(rows)
    BY <1>2, MetadataAssumption DEF ChunkSize
  <1> DEFINE page == SubSeq(rows, offset + 1, offset + ChunkSize)
  <1>4. /\ page \in Seq(Row) /\ Len(page) = ChunkSize
        /\ \A i \in 1 .. ChunkSize : page[i] = rows[offset + i]
    <2> DEFINE first == offset + 1
               last == offset + ChunkSize
    <2>1. /\ first \in Int /\ last \in Int /\ last - first + 1 = ChunkSize
          /\ first <= last <=> ChunkSize # 0
          /\ \A i \in 1 .. ChunkSize : first + i - 1 = offset + i
          /\ \A i \in first .. last : rows[i] \in Row
      BY <1>2, <1>3
    <2> HIDE DEF first, last
    <2>2. /\ SubSeq(rows, first, last) \in Seq(Row)
          /\ Len(SubSeq(rows, first, last)) = IF first <= last THEN last - first + 1 ELSE 0
          /\ \A i \in 1 .. last - first + 1 : SubSeq(rows, first, last)[i] = rows[first + i - 1]
      BY <2>1, SubSeqProperties
    <2>3. page = SubSeq(rows, first, last)
      BY DEF first, last
    <2> HIDE DEF page
    <2> QED BY <1>3, <2>1, <2>2, <2>3
  <1>5. /\ emitted' \in Seq(Row) /\ Len(emitted') = offset + ChunkSize
        /\ \A i \in 1 .. offset : emitted'[i] = emitted[i]
        /\ \A i \in 1 .. offset + ChunkSize : i > offset => emitted'[i] = page[i - offset]
    <2> HIDE DEF page
    <2>1. emitted' = emitted \o page
      BY <1>1 DEF page
    <2>2. /\ emitted \o page \in Seq(Row) /\ Len(emitted \o page) = Len(emitted) + Len(page)
          /\ \A i \in 1 .. Len(emitted) + Len(page) :
               (emitted \o page)[i] = IF i <= Len(emitted) THEN emitted[i] ELSE page[i - Len(emitted)]
      BY <1>2, <1>4, ConcatProperties
    <2> QED BY <1>2, <1>3, <1>4, <2>1, <2>2
  <1>6. \A i \in 1 .. offset + ChunkSize : emitted'[i] = rows[i]
    <2> SUFFICES ASSUME NEW i \in 1 .. offset + ChunkSize PROVE emitted'[i] = rows[i]
      OBVIOUS
    <2>1. CASE i <= offset
      BY <1>2, <1>5, <2>1 DEF MetadataInv, PagesInv
    <2>2. CASE i > offset
      <3>1. i - offset \in 1 .. ChunkSize /\ offset + (i - offset) = i
        BY <1>2, <1>3, <2>2
      <3>2. page[i - offset] = rows[offset + (i - offset)]
        BY <1>4, <3>1
      <3> QED BY <1>5, <2>2, <3>1, <3>2
    <2> QED BY <1>2, <1>3, <2>1, <2>2
  <1>7. PagesInv'
    <2>1. Len(emitted') = offset'
      BY <1>1, <1>5
    <2>2. \A i \in 1 .. offset' : emitted'[i] = rows'[i]
      BY <1>1, <1>6
    <2>3. phase' = "done" => offset' = Len(rows')
      BY <1>1, <1>2, <1>3
    <2> QED BY <2>1, <2>2, <2>3 DEF PagesInv
  <1>8. TypeOK'
    <2>1. offset' \in 0 .. Len(rows) /\ emitted' \in Seq(Row)
      BY <1>1, <1>2, <1>3, <1>5
    <2>2. phase' \in {"scan", "done"}
      BY <1>1
    <2> QED BY <1>1, <2>1, <2>2 DEF MetadataInv, TypeOK
  <1>9. RangesExact'
    BY <1>1 DEF MetadataInv, RangesExact, TopicRows, ReadTimes
  <1> QED BY <1>1, <1>7, <1>8, <1>9 DEF MetadataInv, RangesInv, LeftIsRead

LEMMA MetadataInvStep == MetadataInv /\ [Next]_metadataVars => MetadataInv'
  <1> SUFFICES ASSUME MetadataInv, [Next]_metadataVars PROVE MetadataInv'
    OBVIOUS
  <1>1. CASE Bind \/ Fails
    <2>1. /\ phase \in {"bind", "open"} /\ phase' \in {"open", "error"}
          /\ UNCHANGED <<called, todo, current, ranges, skipped, rows, offset, emitted>>
      BY <1>1 DEF Bind, Fails
    <2>2. current = NoIndex /\ TypeOK' /\ RangesInv' /\ LeftIsRead'
      BY <2>1 DEF MetadataInv, TypeOK, RangesInv, LeftIsRead
    <2> QED BY <2>1, <2>2, RowsStay, PagesStay DEF MetadataInv
  <1>2. CASE Open
    <2>1. /\ phase = "open" /\ phase' \in {"index", "rows"}
          /\ phase' = "index" <=> called = "mcap_topics"
          /\ todo' = IF called = "mcap_topics" THEN Indexes ELSE Entries
          /\ UNCHANGED <<called, current, ranges, skipped, rows, offset, emitted>>
      BY <1>2 DEF Open
    <2>2. TypeOK'
      BY <2>1 DEF MetadataInv, TypeOK
    <2>3. ASSUME called = "mcap_topics", NEW c \in Channels PROVE RangeOf(c, Read(c), Left(c))'
      <3>1. ranges' = NoRanges /\ Read(c)' = {}
        BY <2>1, <2>3 DEF MetadataInv, RangesInv, Read
      <3> QED BY <3>1 DEF RangeOf, NoRanges
    <2>4. Entries' = Entries
      BY <2>1 DEF Entries
    <2>5. current' = NoIndex /\ LeftIsRead'
      BY <2>1 DEF MetadataInv, LeftIsRead
    <2>6. called = "mcap_topics" => skipped = {}
      BY <2>1 DEF MetadataInv, RangesInv
    <2>7. ASSUME called = "mcap_topics" PROVE RangesInv'
      BY <2>1, <2>3, <2>6, <2>7 DEF RangesInv
    <2>8. RangesInv'
      BY <2>1, <2>7 DEF RangesInv
    <2> QED BY <2>1, <2>2, <2>4, <2>5, <2>8, RowsStay, PagesStay DEF MetadataInv
  <1>3. ASSUME NEW r \in Indexes, ReadIndex(r) \/ SkipIndex(r) PROVE MetadataInv'
    BY <1>3, ReadIndexInv, SkipIndexInv
  <1>4. ASSUME NEW t \in Times, FoldTime(t) PROVE MetadataInv'
    BY <1>4, FoldTimeInv
  <1>5. CASE IndexesRead
    <2>1. /\ phase = "index" /\ current = NoIndex /\ todo = {} /\ phase' = "rows" /\ todo' = Channels
          /\ UNCHANGED <<called, current, ranges, skipped, rows, offset, emitted>>
      BY <1>5 DEF IndexesRead
    <2>2. \A c \in Channels : RangeOf(c, ReadTimes(c), {})'
      BY <2>1 DEF MetadataInv, RangesInv, RangeOf, Read, ReadTimes, Left, NoIndex
    <2>3. Entries' = Channels
      BY <2>1 DEF MetadataInv, Entries
    <2> QED BY <2>1, <2>2, <2>3, RowsStay, PagesStay DEF MetadataInv, TypeOK, RangesInv, LeftIsRead
  <1>6. ASSUME NEW e \in Entries, PushRows(e) PROVE MetadataInv'
    BY <1>6, PushRowsInv
  <1>7. ASSUME NEW e \in Entries, SkipRecord(e) PROVE MetadataInv'
    <2>1. /\ phase = "rows" /\ called # "mcap_topics" /\ todo' = todo \ {e}
          /\ UNCHANGED <<called, phase, current, ranges, rows, offset, emitted>>
      BY <1>7 DEF SkipRecord, Visits
    <2>2. Entries' = Entries /\ RangesExact'
      BY <2>1 DEF Entries, RangesExact, TopicRows
    <2> QED BY <2>1, <2>2, PagesStay DEF MetadataInv, TypeOK, RangesInv, LeftIsRead
  <1>8. CASE InitGlobalReturns
    BY <1>8, RowsStay, PagesStay DEF InitGlobalReturns, MetadataInv, TypeOK, RangesInv, LeftIsRead
  <1>9. CASE ScanChunk
    BY <1>9, ScanChunkInv
  <1>10. CASE Ended \/ UNCHANGED metadataVars
    <2>1. UNCHANGED <<called, phase, todo, current, ranges, skipped, rows, offset, emitted>>
      BY <1>10 DEF Ended, metadataVars
    <2>2. Entries' = Entries /\ RangesExact' /\ TypeOK' /\ PagesInv'
      BY <2>1, RowsStay DEF MetadataInv, Entries, TypeOK, PagesInv
    <2>3. (LeftIsRead <=> LeftIsRead') /\ (RangesInv <=> RangesInv')
      <3>1. \A c : Read(c)' = Read(c) /\ ReadTimes(c)' = ReadTimes(c) /\ Left(c)' = Left(c)
        BY <2>1 DEF Read, ReadTimes, Left
      <3>2. \A c, times, left : RangeOf(c, times, left)' <=> RangeOf(c, times, left)
        BY <2>1 DEF RangeOf
      <3> QED BY <2>1, <3>1, <3>2 DEF RangesInv, LeftIsRead, RangeOf
    <2> QED BY <2>1, <2>2, <2>3 DEF MetadataInv
  <1> QED BY <1>1, <1>2, <1>3, <1>4, <1>5, <1>6, <1>7, <1>8, <1>9, <1>10 DEF Next

LEMMA MetadataInvariance == Spec => []MetadataInv
  BY MetadataInvInit, MetadataInvStep, PTL DEF Spec

-----------------------------------------------------------------------------
(* Every record once. *)

\* Where the rows made from an entry are, and how many there have to be.
MadeFrom(e) == {i \in DOMAIN rows : rows[i].entry = e}

Expected(e) ==
  IF called # "mcap_topics" /\ e \in skipped THEN 0
  ELSE IF called = "mcap_metadata" THEN Len(Keys[e]) ELSE 1

\* An entry that is still to be visited has no row yet and was not skipped, one
\* that was visited has all its rows; after the loop all were visited.
RecordsInv ==
  /\ called # "mcap_topics" /\ phase \in {"bind", "open"} => skipped = {}
  /\ called # "mcap_topics" /\ phase = "rows" => todo \cap skipped = {}
  /\ phase \in {"scan", "done"} => todo = {}
  /\ \A i \in DOMAIN rows : rows[i].entry \in Entries
  /\ phase \in {"rows", "scan", "done"} =>
       \A e \in Entries : IF e \in todo THEN MadeFrom(e) = {}
                          ELSE Cardinality(MadeFrom(e)) = Expected(e)

LEMMA RecordsInvInit == Init => RecordsInv
  BY DEF Init, RecordsInv

\* What PushRows appends is about its entry and nothing else.
LEMMA NewRowsAreOfEntry ==
  ASSUME MetadataInv, NEW e \in Entries
  PROVE  /\ \A i \in 1 .. Len(NewRows(e)) : NewRows(e)[i].entry = e
         /\ Len(NewRows(e)) = IF called = "mcap_metadata" THEN Len(Keys[e]) ELSE 1
  <1>1. called \in {"mcap_topics", "mcap_channels", "mcap_schemas", "mcap_info",
                    "mcap_attachments", "mcap_metadata"}
    BY MetadataAssumption DEF MetadataInv, TypeOK
  <1>2. CASE called = "mcap_metadata"
    <2>1. NewRows(e) = MetadataRows(e)
      BY <1>2 DEF NewRows
    <2>2. Len(Keys[e]) \in Nat
      BY <1>2, MetadataAssumption DEF Entries
    <2>3. Len(MetadataRows(e)) = Len(Keys[e]) /\ DOMAIN MetadataRows(e) = 1 .. Len(Keys[e])
      BY <2>2 DEF MetadataRows
    <2>4. \A i \in 1 .. Len(Keys[e]) : MetadataRows(e)[i].entry = e
      BY <2>3 DEF MetadataRows
    <2> QED BY <1>2, <2>1, <2>3, <2>4
  <1>3. CASE called # "mcap_metadata"
    <2>1. \E row : NewRows(e) = <<row>> /\ row.entry = e
      <3>1. /\ TopicRow(e).entry = e /\ ChannelRow(e).entry = e /\ SchemaRow(e).entry = e
            /\ AttachmentRow(e).entry = e /\ InfoRow.entry = File
        BY DEF TopicRow, ChannelRow, SchemaRow, AttachmentRow, InfoRow
      <3>2. called = "mcap_info" => e = File
        BY DEF Entries
      <3>3. CASE called \in {"mcap_topics", "mcap_channels"}
        BY <3>1, <3>3 DEF NewRows
      <3>4. CASE called \in {"mcap_schemas", "mcap_info", "mcap_attachments"}
        BY <3>1, <3>2, <3>4 DEF NewRows
      <3> QED BY <1>1, <1>3, <3>3, <3>4
    <2> QED BY <1>3, <2>1
  <1> QED BY <1>2, <1>3

\* The rows made of an entry that had none are the ones PushRows appends; those
\* of any other entry stay where they are.
LEMMA PushRowsRecords ==
  ASSUME MetadataInv, RecordsInv, NEW e \in Entries, PushRows(e) PROVE RecordsInv'
  <1>1. /\ phase = "rows" /\ e \in todo /\ todo' = todo \ {e} /\ rows' = rows \o NewRows(e)
        /\ UNCHANGED <<called, phase, current, ranges, skipped, offset, emitted>>
    BY DEF PushRows, Visits
  <1>2. rows \in Seq(Row) /\ NewRows(e) \in Seq(Row)
    BY NewRowsAreRows DEF MetadataInv, TypeOK
  <1> DEFINE n == Len(rows)
             k == Len(NewRows(e))
  <1>3. /\ n \in Nat /\ k \in Nat /\ DOMAIN rows = 1 .. n /\ DOMAIN rows' = 1 .. n + k
        /\ \A i \in 1 .. n : rows'[i] = rows[i]
        /\ \A i \in 1 .. n + k : i > n => rows'[i] = NewRows(e)[i - n]
    BY <1>1, <1>2
  <1>4. \A i \in 1 .. n + k : i > n => rows'[i].entry = e
    BY <1>3, NewRowsAreOfEntry
  <1> HIDE DEF n, k
  <1>5. MadeFrom(e)' = n + 1 .. n + k
    <2>1. MadeFrom(e) = {}
      BY <1>1 DEF RecordsInv
    <2>2. \A i \in 1 .. n : rows'[i].entry # e
      BY <1>3, <2>1 DEF MadeFrom
    <2>3. MadeFrom(e)' = {i \in 1 .. n + k : rows'[i].entry = e}
      BY <1>3 DEF MadeFrom
    <2>4. \A i \in 1 .. n + k : rows'[i].entry = e <=> i > n
      BY <1>3, <1>4, <2>2
    <2>5. {i \in 1 .. n + k : i > n} = n + 1 .. n + k
      BY <1>3
    <2> QED BY <2>3, <2>4, <2>5
  <1>6. Cardinality(MadeFrom(e)') = Expected(e)'
    <2>1. Expected(e)' = k
      BY <1>1, NewRowsAreOfEntry DEF Expected, RecordsInv, k
    <2>2. Cardinality(n + 1 .. n + k) = IF n + 1 > n + k THEN 0 ELSE (n + k) - (n + 1) + 1
      BY <1>3, FS_Interval
    <2>3. Cardinality(n + 1 .. n + k) = k
      BY <1>3, <2>2
    <2> QED BY <1>5, <2>1, <2>3
  <1>7. ASSUME NEW d \in Entries, d # e PROVE MadeFrom(d)' = MadeFrom(d)
    BY <1>3, <1>4, <1>7 DEF MadeFrom
  <1>8. \A i \in DOMAIN rows' : rows'[i].entry \in Entries
    BY <1>3, <1>4 DEF RecordsInv
  <1>9. Entries' = Entries
    BY <1>1 DEF Entries
  <1>10. ASSUME NEW d \in Entries
         PROVE  IF d \in todo' THEN MadeFrom(d)' = {}
                ELSE Cardinality(MadeFrom(d)') = Expected(d)'
    <2>1. CASE d = e
      BY <1>1, <1>6, <2>1
    <2>2. CASE d # e
      <3>1. Expected(d)' = Expected(d) /\ MadeFrom(d)' = MadeFrom(d)
        BY <1>1, <1>7, <2>2 DEF Expected
      <3>2. IF d \in todo THEN MadeFrom(d) = {} ELSE Cardinality(MadeFrom(d)) = Expected(d)
        BY <1>1 DEF RecordsInv
      <3> QED BY <1>1, <2>2, <3>1, <3>2
    <2> QED BY <2>1, <2>2
  <1> QED BY <1>1, <1>8, <1>9, <1>10 DEF RecordsInv

\* A record that is skipped is one of those without a row.
LEMMA SkipRecordRecords ==
  ASSUME RecordsInv, NEW e \in Entries, SkipRecord(e) PROVE RecordsInv'
  <1>1. /\ phase = "rows" /\ e \in todo /\ todo' = todo \ {e} /\ skipped' = skipped \cup {e}
        /\ called # "mcap_topics"
        /\ UNCHANGED <<called, phase, current, ranges, rows, offset, emitted>>
    BY DEF SkipRecord, Visits
  <1>2. Entries' = Entries /\ \A d : MadeFrom(d)' = MadeFrom(d)
    BY <1>1 DEF Entries, MadeFrom
  <1>3. ASSUME NEW d \in Entries
        PROVE  IF d \in todo' THEN MadeFrom(d)' = {}
               ELSE Cardinality(MadeFrom(d)') = Expected(d)'
    <2>1. IF d \in todo THEN MadeFrom(d) = {} ELSE Cardinality(MadeFrom(d)) = Expected(d)
      BY <1>1 DEF RecordsInv
    <2>2. CASE d = e
      <3>1. MadeFrom(d)' = {} /\ Expected(d)' = 0 /\ d \notin todo'
        BY <1>1, <1>2, <2>1, <2>2 DEF Expected
      <3> QED BY <3>1, FS_EmptySet
    <2>3. CASE d # e
      <3>1. Expected(d)' = Expected(d)
        BY <1>1, <2>3 DEF Expected
      <3> QED BY <1>1, <1>2, <2>1, <2>3, <3>1
    <2> QED BY <2>2, <2>3
  <1> QED BY <1>1, <1>2, <1>3 DEF RecordsInv

LEMMA RecordsInvStep ==
  MetadataInv /\ RecordsInv /\ [Next]_metadataVars => RecordsInv'
  <1> SUFFICES ASSUME MetadataInv, RecordsInv, [Next]_metadataVars PROVE RecordsInv'
    OBVIOUS
  \* Entries, MadeFrom and Expected depend on these three variables alone.
  <1>stay. ASSUME UNCHANGED <<called, rows, skipped>>
           PROVE  /\ Entries' = Entries
                  /\ \A e : MadeFrom(e)' = MadeFrom(e) /\ Expected(e)' = Expected(e)
    BY <1>stay DEF Entries, MadeFrom, Expected
  <1>1. CASE Bind \/ Fails
    <2>1. /\ phase \in {"bind", "open"} /\ phase' \in {"open", "error"}
          /\ UNCHANGED <<called, todo, skipped, rows>>
      BY <1>1 DEF Bind, Fails
    <2> QED BY <2>1, <1>stay DEF RecordsInv
  <1>2. CASE Open
    <2>1. /\ phase = "open" /\ UNCHANGED <<called, skipped, rows>> /\ rows = <<>>
          /\ called = "mcap_topics" => phase' = "index"
          /\ called # "mcap_topics" => phase' = "rows" /\ todo' = Entries
      BY <1>2 DEF Open, MetadataInv
    <2>2. \A e : MadeFrom(e)' = {}
      BY <2>1 DEF MadeFrom
    <2> QED BY <2>1, <2>2, <1>stay DEF RecordsInv
  <1>3. CASE \/ \E r \in Indexes : ReadIndex(r) \/ SkipIndex(r)
             \/ \E t \in Times : FoldTime(t)
    <2>1. /\ phase = "index" /\ called = "mcap_topics" /\ rows = <<>>
          /\ UNCHANGED <<called, phase, rows>>
      <3>1. phase = "index"
        BY <1>3 DEF ReadIndex, SkipIndex, NextIndex, FoldTime, MetadataInv, NoIndex
      <3> QED BY <1>3, <3>1 DEF ReadIndex, SkipIndex, FoldTime, MetadataInv
    <2> QED BY <2>1 DEF RecordsInv
  <1>4. CASE IndexesRead
    <2>1. /\ called = "mcap_topics" /\ rows = <<>> /\ phase' = "rows" /\ todo' = Channels
          /\ UNCHANGED <<called, skipped, rows>>
      BY <1>4 DEF IndexesRead, MetadataInv
    <2>2. Entries' = Channels /\ \A e : MadeFrom(e)' = {}
      BY <2>1 DEF Entries, MadeFrom
    <2> QED BY <2>1, <2>2 DEF RecordsInv
  <1>5. ASSUME NEW e \in Entries, PushRows(e) \/ SkipRecord(e) PROVE RecordsInv'
    BY <1>5, PushRowsRecords, SkipRecordRecords
  <1>6. CASE InitGlobalReturns
    <2>1. /\ phase = "rows" /\ phase' = "scan" /\ todo = {}
          /\ UNCHANGED <<called, todo, skipped, rows>>
      BY <1>6 DEF InitGlobalReturns
    <2> QED BY <2>1, <1>stay DEF RecordsInv
  <1>7. CASE ScanChunk
    <2>1. /\ phase = "scan" /\ phase' \in {"scan", "done"}
          /\ UNCHANGED <<called, todo, skipped, rows>>
      BY <1>7 DEF ScanChunk
    <2> QED BY <2>1, <1>stay DEF RecordsInv
  <1>8. CASE Ended \/ UNCHANGED metadataVars
    <2>1. UNCHANGED <<called, phase, todo, skipped, rows>>
      BY <1>8 DEF Ended, metadataVars
    <2> QED BY <2>1, <1>stay DEF RecordsInv
  <1> QED BY <1>1, <1>2, <1>3, <1>4, <1>5, <1>6, <1>7, <1>8 DEF Next

LEMMA RecordsInvariance == Spec => []RecordsInv
  BY RecordsInvInit, RecordsInvStep, MetadataInvariance, PTL DEF Spec

-----------------------------------------------------------------------------
(* The theorems. *)

\* Every variable keeps its type: no row is shown with a time outside the range
\* of TIMESTAMP_NS and no chunk reads beyond the rows (mcap_records.cpp:42-53).
THEOREM MetadataTypes == Spec => []TypeOK
  <1>1. MetadataInv => TypeOK
    BY DEF MetadataInv
  <1> QED BY <1>1, MetadataInvariance, PTL

\* mcap_topics.cpp:103-147: for any distribution of the messages over chunks and
\* any indexes that cannot be read, the range of a row is exactly that of the
\* indexes of its channel that could.
THEOREM TopicRangesExact == Spec => []RangesExact
  <1>1. MetadataInv => RangesExact
    BY DEF MetadataInv
  <1> QED BY <1>1, MetadataInvariance, PTL

\* Whatever the number of rows and the size of a chunk, the chunks concatenated
\* are the rows, and the empty chunk comes after the last of them.
THEOREM EveryRowReturned == Spec => []AllReturned
  <1>1. MetadataInv => AllReturned
    <2> SUFFICES ASSUME MetadataInv PROVE AllReturned
      OBVIOUS
    <2>1. /\ rows \in Seq(Row) /\ emitted \in Seq(Row) /\ Len(rows) \in Nat /\ Len(emitted) = offset
          /\ offset \in Nat /\ offset <= Len(rows)
          /\ \A i \in 1 .. offset : emitted[i] = rows[i]
          /\ phase = "done" => offset = Len(rows)
      BY DEF MetadataInv, TypeOK, PagesInv
    <2>2. /\ SubSeq(rows, 1, offset) \in Seq(Row) /\ Len(SubSeq(rows, 1, offset)) = offset
          /\ \A i \in 1 .. offset : SubSeq(rows, 1, offset)[i] = rows[i]
      BY <2>1
    <2>3. emitted = SubSeq(rows, 1, offset)
      BY <2>1, <2>2
    <2>4. phase = "done" => emitted = rows
      BY <2>1
    <2> QED BY <2>3, <2>4 DEF AllReturned
  <1> QED BY <1>1, MetadataInvariance, PTL

\* The row loops of mcap_topics.cpp:131-162, mcap_schemas.cpp and mcap_records.cpp: for
\* any records and any of them that cannot be read, a finished call has returned one row
\* per record (one per key of a metadata record), none for a skipped one and no other.
THEOREM EveryRecordReturnedOnce == Spec => []EveryRecordOnce
  <1>1. MetadataInv /\ RecordsInv => EveryRecordOnce
    <2> SUFFICES ASSUME MetadataInv, RecordsInv PROVE EveryRecordOnce
      OBVIOUS
    <2>1. /\ rows \in Seq(Row) /\ emitted \in Seq(Row) /\ Len(rows) \in Nat /\ Len(emitted) = offset
          /\ offset \in Nat /\ offset <= Len(rows)
          /\ \A i \in 1 .. offset : emitted[i] = rows[i]
          /\ phase = "done" => offset = Len(rows)
      BY DEF MetadataInv, TypeOK, PagesInv
    <2>2. ASSUME phase = "done", NEW e \in Entries
          PROVE  Cardinality({i \in DOMAIN emitted : emitted[i].entry = e}) = Expected(e)
      <3>1. {i \in DOMAIN emitted : emitted[i].entry = e} = MadeFrom(e)
        BY <2>1, <2>2 DEF MadeFrom
      <3>2. Cardinality(MadeFrom(e)) = Expected(e)
        BY <2>2 DEF RecordsInv
      <3> QED BY <3>1, <3>2
    <2>3. \A i \in DOMAIN emitted : emitted[i].entry \in Entries
      BY <2>1 DEF RecordsInv
    <2> QED BY <2>2, <2>3 DEF EveryRecordOnce, Expected
  <1> QED BY <1>1, MetadataInvariance, RecordsInvariance, PTL

=============================================================================
