# A verification of duckdb-mcap

`duckdb-mcap` is a DuckDB extension that lets SQL read MCAP files, the log
container of robotics. This directory holds TLA+ models of its core, the TLC
runs that check them on small instances, and TLAPS proofs of their main
properties for every instance. Source lines are given as `file:line`, files
being those under `src/src` of the repository.

## 1. The system

| component | state | operations | meets |
|---|---|---|---|
| **Pushdown extraction** `pushdown.cpp` | two out-parameters per recursive call; one `McapPushdown` | `CollectTopicSet`, `CollectTimeRange`, `ExtractMcapPushdown`, `ToReadMessageOptions` | called once per query by `McapScanInitGlobal` with the planner's filter trees |
| **Time conversions** `mcap_time.hpp`, `SatAddNanos` | none | uint64 to int64 clamp, saturating addition | every displayed time, every window bound |
| **Partitioning** `mcap_scan.cpp:192-244` | list of partitions, list of per-file schema caches | open each file, cut its read window at every fourth chunk start | read by all threads afterwards |
| **Parallel scan** `mcap_scan.cpp:66-126, 246-376` | global: two atomic counters; per thread: file, view, iterators, decoders | `InitLocal`, `NextPartition`, `McapScanFunction`, `McapScanProgress` | threads share the counters; each owns its file handle and decoders |
| **Bind and cardinality** `mcap_scan.cpp:34-53, 128-183, 362-368` | path list, row estimate | glob, columns, estimate | planner |
| **File access** `mcap_file.cpp` | handle, one read buffer per reader | open and read the summary, byte reads | every function; one instance per thread |
| **Schema cache, dispatch** `schema_cache.cpp`, `decoder.cpp` | channel and schema registry per file, read-only after building | lookup, choice of a decoder by encoding | scan |
| **Protobuf decoder** `protobuf_decoder.cpp` | descriptor database and pool, loaded ids, an instance per schema id | `LoadSchema`, `GetInstance`, `Decode` | one per thread and file |
| **ROS 2 decoder** `ros2_decoder.cpp` | type tables per schema id; CDR position | parse `.msg` text, resolve names, read CDR | one per thread and file |
| **Metadata functions** `mcap_topics.cpp`, `mcap_records.cpp`, `mcap_schemas.cpp` | materialised rows and an offset | build all rows at init, page them out | single thread |
| **JSON extraction, rosout** `json_util.cpp`, `views/rosout.cpp` | parser position; one linear view | one field of a payload; severity mapping | single thread |
| **Registration** `mcap_extension.cpp` | none | registers the functions | DuckDB |

DuckDB (planner, executor, file system) and the mcap library are external.

What is hard here, and what correct means:

* *Pruning.* Filters are translated into a read window and a topic set before
  anything is read. DuckDB evaluates the filters again afterwards
  (`filter_prune = false`, `mcap_scan.cpp:388`), so reading too much is only
  slow; reading too little silently loses rows. Correct means: a superset.
* *Parallelism.* Any number of threads take partitions from one counter. A
  message must become exactly one row whatever the interleaving, a thread must
  not end while there is work, and the progress must be truthful.
* *Boundaries.* Windows are end-inclusive at one side and exclusive at the
  other, times have two widths, output comes in chunks of fixed size.
* *Per-file state.* Schema ids mean something only within a file; what a thread
  caches must not survive a change of file.
* *Texts.* What one part escapes another unescapes, by hand-written scanners; a
  field must not be found where its name is only mentioned.
* *Failure.* A file that cannot be opened, or a problem in the middle of one
  view, ends the query; it must not pass for a complete result.

The full list, with lines, is `hazards` in `PROJECT.json`.

## 2. Modules

```
                  McapTime --.
                             McapPushdown (the restriction)
                              |         |
TimeRange, TopicSet -- Pushdown         Partitions -- McapScan --> AbstractScan
                              |                        |        (refinement)
                              `------- McapQuery ------'

Ros2Schema -- Ros2Decoder --> CdrFormat     ProtobufDecoder     Metadata
JsonText -- JsonDocument, SchemaCache -- Rosout
```

`--` is EXTENDS, `-->` is what a specification is shown to implement. Each of
Pushdown, McapScan (with Partitions), McapQuery, Ros2Decoder, ProtobufDecoder,
Metadata and Rosout has an `MC` module with constants for TLC and a module of
theorems, named after it with `Proofs`; `FoldLemmas` holds what proofs about
recursive definitions need. The
decoders belong to one thread and one file; the scan meets them only in
`OpenPartition`, which replaces them, and in `WriteRow`, which calls them. They
are modelled by themselves, and `OwnDecoders` of the scan is what allows it.

**McapTime.** The two time types and the conversions between them. Both limits
are constants (`MaxNanos < MaxTime`), so the 64-bit values are one instance of
what is proved; TLC uses small ones.

**McapPushdown.** The variable `pushdown`, which the two halves of a query share.

**TimeRange, TopicSet.** The recursive functions `CollectTimeRange` and
`CollectTopicSet` as machines with an explicit call stack. The filter tree is
not an input: when a call is entered, the environment chooses what kind of
filter it meets, so the behaviours together are the evaluations of all trees
within the bounds, and in the proofs of all trees. Each call also carries
`fit`, the times or topics that satisfy the predicate so far, computed with the
semantics of SQL on displayed values; no guard reads it, and the properties
compare the result with it. The `case`s of the C++ `switch` are actions; the
early `return false` of an OR is `TimeOrGivesUp` / `TopicOrGivesUp`, which leave
the unvisited children's meaning open. A conjunction without children is
included since the code guards against it.

**Pushdown.** The loop of `ExtractMcapPushdown`: filters keyed by an index into
the projected columns, visited in ascending order, evaluated by one of the two
machines, merged by union or intersection. A query that projects a column twice
is included since the code merges (`pushdown.cpp:229-233`).

**Partitions.** `McapScanInitGlobal` opens the files in order (or throws) and
`BuildPartitions` cuts `[start_time, end_time)` of each. The vectors `starts` and
`bounds` are sets with a successor relation (`Follows`): they are sorted and
without duplicates (`mcap_scan.cpp:209-210`). One pushed partition is one step.

**McapScan.** The threads. Every access to a shared counter is an action of its
own: `ClaimPartition` / `NoPartitionLeft` are the two outcomes of the `fetch_add`
in `NextPartition`, `OpenPartition` the rest of it, `PartitionExhausted` the
other `fetch_add`, `WriteRow` one round of the loop in `McapScanFunction`,
`LeaveLoop` and `Return` its exits. `pc[t]` is the place in the code, `caller[t]`
who called `NextPartition`. Iterators and view are abstracted to the set of
messages the view has still to yield (`left`), in any order, since the scan sets no
`readOrder`, and whether the iterators have a value (`iterator`). The vectorised column writes of `WriteProjectedColumn` are
abstracted to the fact that the message becomes a row. `ReadFails` is an
exception from opening a file or from the problem callback; it ends the query.

**AbstractScan.** What a user may rely on: every wanted message is delivered
once, in any order, then the scan completes; or it fails. No threads, no
partitions, no files.

**McapQuery.** One query from end to end, the composition of the modules above:
`Bind` (the first file only, and the row estimate), `CopyBindData`,
`ExtractMcapPushdown` as the steps of Pushdown, then the steps of McapScan under
the `pushdown` that came out. `topicFit` and `timeFit`, what the filters mean, stay
in the state, so that the rows can be compared with the answer of the query.

**Ros2Schema.** The parser of schema texts as operators, one for each function
of the source: lines to fields, fields to blocks, blocks to types, and the second
pass that resolves bare names. Comments, blank lines and the splitting into tokens
are left out: a line is a record that says what it contains. What the code looks
for in a line is kept, in particular the `=` that also stands in a bound (`<=N`).

**Ros2Decoder.** The reader of CDR payloads, byte by byte. The recursion
`AppendMessage` - `AppendValue` - `AppendScalar` is a stack of frames; each step
appends a number or a string, opens or closes a message or an array, or gives up
(`return false` through all callers is one step, since the callers do nothing
more). The output is a sequence of tokens. Two ghosts: a message carries `meant`,
the tokens its writer encoded or `NULL` when it is cut off or its type unknown or
unsupported, and `reached` is the end of the furthest raw read. Memory outside the
payload holds `GarbageByte`, so that a read out of bounds is visible in both.

**CdrFormat.** Plain CDR as a format, without a program: `Followers` is the set of
readings that may come after a reading, a record of the bytes used, the tokens
they mean, and the messages and arrays that are open with the fields they have
still to come. It is written as sets (an item starts at *a* boundary of its size
from which it still fits) rather than with the reader's arithmetic and its early
returns; the frames of the decoder with their indices and counts map to what is
left to be read (`Pending`, `Reading`).

**ProtobufDecoder.** `GetInstance` and `LoadSchema` with the descriptor database,
its symbol index and the instance cache; one file of a set per step. What the
library's pool does is written from how the code uses it (external in the map): a
type is found through the index in a file all of whose imports are known. If a
file was refused because one of its symbols was taken, some of its other symbols
may be registered and the pool may or may not build from it; both are left
open (`AddFileFails`, `Contested`), so the results do not depend on the version of
the library.

**Metadata.** The six functions that describe a file. They share their phases,
so there is one machine and `called` says which function it runs: the walk over
the message indexes (`mcap_topics` only, one entry of an index per step), the walk
over the records rows are made of, and the return in chunks. A record that cannot
be read again is skipped in the middle of the walk (`SkipIndex`, `SkipRecord`),
nondeterministically and for each record by itself. The hash maps are walked in
any order.

**JsonText.** `ExtractJsonStringField` with everything it calls, and `JsonEscape` of the
ROS 2 decoder, which writes what it reads. A text is a sequence of bytes and of
*words*: a key or value that the code only compares as a whole is one symbol
above 255. What the code looks at, quotes, backslashes, escapes, brackets, commas,
spaces and the bytes of UTF-8, is kept.

**JsonDocument.** The reference for the scanner: a document as a sequence of members,
the text it is written as (`Document`, with white space where recorders put it), and
which texts are the document of which members (`IsDocument`). A member's value is a
string, a scalar, or a container, a balanced sequence of strings and other symbols; a
string may also be written with every UTF-16 unit escaped.

**SchemaCache.** The registry `FromReader` builds, `Lookup`, and the choice of a
decoder by encoding in `DecodePayloadJson`.

**Rosout.** `RosoutBind`, `RosoutInitGlobal` and the loop of `RosoutScan`, one row
per step, with the columns of a row computed by the two modules above. A message
carries the ghost `logged`, the members of the object its writer meant.

**MC modules.** Constants for TLC. **MCRos2Decoder** also holds the writer the reader is
checked against: `Encode` writes a script of tokens as XCDR1 and `Meaning` is the
JSON it stands for. Two assumptions, evaluated on every run, tie the instances to the
hypotheses of the theorems: `MessagesAreMeant` says that `Encode` and `CdrFormat` agree
on what each message of the run `ros2` means, `MessagesAreWellLogged` that the
messages of `rosout` are documents as `IsDocument` has them, all but those with
escaped units and those that are cut.

Definitions whose comment starts with *Fault:* are not part of a specification.
Each is a plausible slip in the code of the definition it names; put in its
place, it violates one of the properties, which shows that the property depends
on that code.

## 3. Runs

| run | bounds | shows |
|---|---|---|
| `pushdown` | trees of two levels with at most two children, times up to 3, constants -1, 1, 2, two topics, filters at indices 0-2 | the restriction built from any filters covers every matching representable row; a conjunction of comparisons is covered exactly; giving up leaves nothing behind |
| `scan` | three threads, three files with 7, 2 and 0 chunks, two chunks per partition, eight messages sharing log times and lying on cuts, chunks of two rows; six queries including an empty and an inverted window | the partitions divide the window, stay inside it and are small; exactly one row per wanted message, threads retire last, truthful progress, own decoders; refinement of `AbstractScan` |
| `query` | two threads, two files, four messages, every filter of one level with at most two children on both columns, a copied plan | every matching message is returned once, whatever the filters and the schedule; the query ends |
| `metadata` | the six functions; two chunks, four indexes, four channels, a topic with two channels; any subset of indexes, attachments and metadata records unreadable; chunks of two rows | ranges are those of the readable indexes; each readable record comes back once; paging loses nothing |
| `rosout` | about 1400 documents, JSON and CDR: all texts of up to two of eleven bytes, all of up to three of ten UTF-16 units, keys inside values and containers, missing fields, documents cut after every symbol but a key's colon, unknown channels and encodings; files of up to five messages | one row per message, and its columns say what was logged |
| `ros2` | seven schemas (all widths, nesting, fixed and dynamic arrays, strings, one bare name in two packages, a missing dependency, `wstring`, no text); each message in both byte orders, whole, padded, and cut off after every byte; other encapsulations | no read outside the payload; every step reads what the format has next; JSON is what was encoded; NULL only for what is incomplete or unsupported |
| `protobuf` | seven schema ids: a shared file, two versions of one file, a type in two files, a missing import, data that does not parse; every order of channels | an undisputed schema gets its own descriptor; caches and database agree |
| `ros2_bounded`, `ros2_non_finite` | one schema each | counterexamples: a dropped bounded field, `inf` and `nan` |
| `protobuf_versions` | two versions of one type | a counterexample: the second is decoded with the first's descriptor |
| `epoch_constants` | a message at 0, a constant -1 | a counterexample to the unconditional superset claim |
| `query_maximum` | as `query`, with a first file of one message and a second of three | a counterexample: more rows than the announced maximum |

Why the bounds are enough: two levels and two children contain every pair of
nested conjunctions, and the proofs remove this bound. Three threads contain a
thread that claims, one that is past the end and one that finishes. A chunk of
two rows is filled exactly, left half full, and crossed by a partition in the
middle. `CHUNKS_PER_PARTITION` is scaled to 2 so that a file with seven chunks is
cut into up to three partitions; the proofs hold for
any value. In the query run, filters of one level suffice since the run is about
the composition: deeper trees are the matter of `pushdown` and of the proof.
Deadlock is checked everywhere but in `pushdown`, `protobuf` and their
counterexamples: evaluation alone stops when it is done, and the protobuf decoder
has nothing left to do once every schema id is cached. Elsewhere `Ended` lets a
finished query stutter, so a stop in the middle is an error.

The ROS 2 messages are short, but a reader's position matters only modulo 8 and
against the end, and the schemas bring every width to several offsets; the
truncations put the end at every byte. The schema cache is part of the state, so
every message is decoded with every combination of schemas parsed before. In the
protobuf run two schemas can disagree in each way the code distinguishes (same
file name, same type in another file, missing import, unreadable set), and a file
can be refused as the first, a middle or the last of its set. The texts of the
rosout run hold every character the scanner treats by itself, in every pair, and
the code points on both sides of each boundary of UTF-8 and of the surrogates.

`Conservative`, `TimeConservative` and `AnswerComplete` speak of *representable*
log times: those not above INT64_MAX, and not 0 when constants before the epoch
occur. `epoch_constants` and section 5 show that the restriction is needed.

**Fairness** (`QueryFairness` in McapQuery). Weak fairness of bind, of the steps of
the filter evaluation and of building the partitions, which are straight-line
code of one thread; of starting and ending the tasks, and of each thread's steps:
the executor calls every task it created until it returns no row, and the
operating system runs every thread. No thread waits for another (there are no
locks), so weak fairness is all that is needed. Errors are never forced,
`CopyBindData` need not happen, and `StartTasks` may start fewer tasks than threads.

## 4. Proofs

All proofs hold for every value of the constants that meets the named
assumptions (`TimeAssumption`, `TimeRangeAssumption`, `TopicSetAssumption`,
`PushdownAssumption`, `PartitionsAssumption`, `McapScanAssumption`,
`QueryAssumption`, `Ros2Assumption`, `ProtobufAssumption`, `MetadataAssumption`,
`SchemaCacheAssumption`, `RosoutAssumption`): any number of threads, files,
messages, chunks, filters, schemas, any payload, and any widths of the time types.

*Pushdown* (`PushdownProofs`): `PushdownTypeOK`, `Conservative`, `TimeConservative`,
`TimeExact`, `TopicConservative`, `TopicNoStray`. The
properties speak of returned results; the invariant extends them to every frame
of the call stack: the hull of an OR covers what its visited children accept,
the window of an AND covers the intersection, and an OR that has visited nothing
accepts nothing.

*Partitions* (`McapScanProofs`): `PartitionsPartition`, `PartitionsInWindow` and
`PartitionsAreSmall`, through `PartitionsInv`, which adds that nothing was pushed
beyond the cut of the current file and nothing for later files; without that a new
partition could overlap an old one. That partitions are small is a matter of
counting: `ElementOfRank` (a finite set of numbers has an element of every rank
below its size) gives an inner bound at the next multiple of the stride,
`NextBoundIsNear` that no more than a stride of starts lies before it.

*Scan* (`McapScanProofs`): all eight invariants of the run `scan`, and that every
step implements one of `AbstractScan` or stutters. `ExactlyOnce` is not
inductive: it does not say who owes the rows that are missing. `ScanInv` does,
with three parts. `Exclusive`: no two threads hold the same partition.
`RowsAccounted`: a row exists only for a message of a claimed partition, a
message pending for a thread has no row, and every message of a claimed
partition has a row or is pending for a thread. `CountsAgree`: finished
partitions plus threads that hold one equals claimed partitions, which is what
makes the progress truthful. `ThreadOK` ties each thread's position to its
iterator and partition. The proof has one lemma per action; the frame conditions
of the other threads are shared (`ThreadOnly`, `OtherThreads`).

*Query* (`McapQueryProofs`): `AnswerComplete`, from the invariants of the two halves:
the restriction that the filter phase leaves is conservative, stays as it is, and
meets the assumptions of the scan, whose `ExactlyOnce` then speaks of a superset
of the answer.

*ROS 2 decoder* (`Ros2DecoderProofs`): all five properties of the run `ros2`, for
every schema text and every payload, and one stronger than these.

* `InBounds`: the invariant `ReaderInv` adds that the position never leaves the
  payload and is never before the body, without which the subtraction in `Align`
  would wrap around; alignment moves forward only, and a granted `Ensure` covers
  the read that follows it.
* `TypeOK`, through `DecoderInv`: the cache holds what the texts say, the stack
  consists of frames whose next item exists or is due to be closed. It rests on
  `SchemaIsTable`: whatever the lines of a text, a parsed schema is a table of types
  with its root in it. That is a statement about a fold over the lines; the folds
  of the community modules recur over sets of indices, and `FoldLemmas` has the
  induction for them (`FoldExists`, `FoldStaysIn`), from the least element of a set
  of natural numbers.
* `FollowsFormat`, an action property: under the mapping `Reading` every step of the
  decoder begins, extends by the *only* reading that may follow in `CdrFormat`
  (`OnlyFollower`), gives up where none may follow (`NullHasNoFollower`), or returns
  when nothing is open (`ReturnIsFinished`). Each kind of item has its lemma: the
  boundary of an item is unique (`OneBoundary`), `Ensure` grants exactly what fits
  (`EnsureExact`), bytes come out in either order (`RawIsBytes`).
* `DecodedRight`: JSON that is returned is the meaning of the payload and there is no
  other; NULL is returned only for a payload without meaning. A payload means the
  tokens of a reading to the end (`Means`). The invariant `MeaningInv` looks both
  ways: the decoder's state is reached by a reading in some number of steps, and
  every reading to the end comes by the decoder's state. The second half is what
  makes NULL right, and it is kept because followers are unique.
* `NeverMisread` and `NullIsJustified` follow for messages whose ghost `meant` is what
  `CdrFormat` says, the hypothesis `MeantRight`. It is about the ghosts only and
  says nothing of the decoder; `MessagesAreMeant` evaluates it on the messages of
  `ros2`. The instance of `ros2_bounded` does not satisfy it: there the ghost is what
  the writer of the *text* meant, and the parser has dropped a field before
  the format is asked, so its counterexample and the theorem do not meet.

*Protobuf decoder* (`ProtobufDecoderProofs`): `TypeOK` and `OwnDescriptor`, for any
family of schemas. The reason the decoder can be right for a schema although the
database is shared: `RegisteredInWhole`, a file of an undisputed schema that is in
the database was added with all its symbols, since nothing else can have taken
them. From this it follows that the loop's files are there when it ends
(`LoadInv`), that the pool finds the type and that the imports it sees are those
of the schema's own set (`ImportsAgree`).

*Metadata* (`MetadataProofs`): `TypeOK`, `RangesExact`, `AllReturned` and
`EveryRecordOnce`. For the last, `RecordsInv` splits the records at any moment of the
walk in those visited, each of which has one row or could not be read, and those
to come, which have none. The range of a
row is right because the invariant says of every channel, at any moment of the
walk, that its range so far is the hull of the times folded so far: those of the
indexes visited and not skipped, less what is left of the current one.

*Rosout* (`RosoutProofs`): `RowPerMessage`. The invariant says that the rows so far
are those of the rosout messages before the iterator, in order, across the
boundary between the chunk being written and the ones returned. `TypeOK` and
`LoggedIsShown` need the scanner of texts, and there are three layers to that.

* *The recursions are functions.* `ReadJsonString` recurs to a later position, and
  `ExtractJsonStringField` to a later position at another depth. `RecursionExists` of
  `FoldLemmas` says that a definition whose every value is determined by those at a
  smaller rank has a solution; the rank is the number of symbols left. From this
  follow the equations of both functions, and that they end inside the text with a
  string or none, for any bytes: with that, `TypeOK`.
* *What is written is read.* `EscapedIsRead`: a string that `JsonEscape` wrote is read
  back as it was, and the reader stops right behind it, whatever surrounds it.
  `FieldFound`: in any document, the scanner returns what the first member with the
  key says, or nothing. It walks the text member by member; a container is walked
  token by token with the depth the tokens have (`Depths`), so a key inside it, or
  inside a string, is never at depth 0 behind a quote.
* *The rows.* `ShownInv` says that the cache is the file's while the scan runs and that
  every row of the chunk is made from its own message. `RosoutShowsLogged` has the
  premise `WellLogged` for the messages of the file: the payload is a document with
  the members `logged`, or cannot be read and `logged` is empty. It is about the
  file and its ghosts, not about the scanner. It leaves out texts that are cut and strings
  with escaped UTF-16 units, which stay with the run.

Only model-checked:

* `QueryEnds`, a liveness property under fairness;
* `LoggedIsShown` for strings with escaped UTF-16 units, where the code points of two
  encodings are compared, and for texts that are cut;
* that a schema *text* means what `ParseSchema` makes of it: the theorems about the
  decoder start from its result. The run `ros2` has texts and encodings made by
  hand from the same fields.

The proof of `Conservative` assumes nothing about trees, but what a filter *means*
is the definition `Satisfying`, read off DuckDB's semantics of comparisons on the
displayed timestamp.

## 5. Where code and documentation disagree

Shown by a run:

* `pushdown.cpp:41` with 140: constants before the epoch are clamped before the
  bound is widened; `timestamp > -1ns` skips a message at log time 0.
* `ros2_decoder.cpp:58`: a field line with a bound (`uint8[<=3] values`,
  `string<=10 name`) contains `=` and is dropped as a constant, although lines 67
  and 90 mean to handle it; the rest of the payload is then misread. A schema
  without bounds is read correctly, which is what `ros2` shows.
* `ros2_decoder.cpp:379, 385`: infinities and NaN are printed as `inf` and `nan`,
  which JSON does not have.
* `protobuf_decoder.cpp:38`: the descriptor is looked up by type name before the
  schema's own file set is loaded, so of two definitions of one type the one met
  first is used for both. The scan hands out partitions to threads in no fixed
  order, so which one that is may change from run to run.
* `mcap_scan.cpp:367`: the estimate of the binder, the first file's count times the
  number of files, is announced as the maximum cardinality too, although line 40
  calls it an estimate and not a total; larger files behind the first return more
  rows than that.

Met while modelling, without a run of their own:

* `mcap_scan.cpp:215`: the last window ends exclusively at `mcap::MaxTime`, so a
  message logged at that very time is never read.
* `pushdown.cpp:137, 149` with `mcap_time.hpp:17`: a log time beyond INT64_MAX is
  shown as INT64_MAX but excluded by comparisons with it.
* `json_util.cpp:204`: a text that ends after a key's colon yields an empty string
  rather than no field, where `test/cpp/test_json_util.cpp:48` has malformed input
  yield none. The instance of `rosout` leaves these texts out.
* `mcap_topics.cpp:131`: one row per channel; the README promises exact ranges per
  topic, which a topic with several channels does not get.

## 6. Not modelled

* Extension registration: it has no state.
* The bytes of a file (`DuckDBFileReadable`), and what the mcap library makes of a
  short read: a read that fails is an error or a record that is not there.
* The library's iterators and readers, object lifetimes below one step, and
  messages stored outside chunks, which the source documents as skipped by indexed
  reads (`mcap_scan.cpp:188-191`).
* A file that changes during a query; `LIMIT` and cancellation by the executor.
* The rendering of columns other than those a property speaks of.
* Log times beyond INT64_MAX under a filter, and `mcap::MaxTime` itself (section 5).
* Comments and white space in schema texts, `ros2idl` texts (the parser treats them
  as `.msg`), the notation of numbers in JSON; texts whose root is not an object
  (the scanner then takes the first object in them); a JSON `null`, which the
  scanner returns as the text `null`.
* The parsing of one protobuf message, which is the library's.
* The protobuf decoder composed with the scan: `OwnDecoders` and `OwnDescriptor` are
  stated of each, and on which schedules a disputed type depends is not explored.
