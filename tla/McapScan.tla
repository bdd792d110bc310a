------------------------------ MODULE McapScan ------------------------------
(***************************************************************************)
(* The parallel table function mcap_scan.  After McapScanInitGlobal        *)
(* (module Partitions) the executor starts one task per worker thread;     *)
(* each creates a local state (McapScanInitLocal) and calls                *)
(* McapScanFunction until it returns no row.  Threads share two atomic     *)
(* counters, next_partition and finished_partitions; everything else of    *)
(* the global state is read-only by then.                                  *)
(*                                                                         *)
(* Every access to a shared counter is an action of its own, so threads    *)
(* interleave between any two of them.  The mcap library is external: a    *)
(* view of a partition yields the messages of the file whose log time is   *)
(* in the partition's window and whose topic passes the filter, in any     *)
(* order (the scan asks for none), or reports a problem, which the scan    *)
(* turns into an exception.                                                *)
(***************************************************************************)
EXTENDS Partitions

CONSTANTS
  Threads,        \* worker threads of the executor
  VectorSize,     \* STANDARD_VECTOR_SIZE, rows a call returns at most
  Messages,       \* the messages stored in all files
  FileOf,         \* the file a message is stored in
  LogTime,
  TopicOf,
  Decoded         \* messages whose payload is decoded to JSON

ASSUME McapScanAssumption ==
  /\ IsFiniteSet(Threads)
  /\ VectorSize \in Nat \ {0}
  /\ FileOf \in [Messages -> Files]
  /\ LogTime \in [Messages -> Times]
  /\ Decoded \subseteq Messages

VARIABLES
  next_partition,         \* partitions handed out so far (atomic)
  finished_partitions,    \* partitions exhausted so far (atomic)
  pc,                     \* per thread, what it does next
  caller,                 \* per thread, who called NextPartition
  part,                   \* per thread, the partition it claimed last
  open,                   \* per thread, the file it holds open, 0 for none
  decoders,               \* per thread, files whose schemas its decoders cache
  iterator,               \* per thread, whether the iterators have a value
  left,                   \* per thread, messages its view has still to yield
  count,                  \* per thread, rows in the current output chunk
  rows                    \* how often each message was written as a row

threadVars == <<pc, caller, part, open, decoders, iterator, left, count>>
scanVars == <<next_partition, finished_partitions, threadVars, rows>>
vars == <<partitionVars, scanVars>>

\* ToReadMessageOptions: the topic filter of the view.
PassesTopicFilter(m) == pushdown.restricted => TopicOf[m] \in pushdown.topics

\* Fault: View takes the end of a partition to be inclusive.
ViewEndInclusive(p) ==
  {m \in Messages : /\ p.file = FileOf[m] /\ p.start <= LogTime[m] /\ LogTime[m] <= p.end
                    /\ PassesTopicFilter(m)}

\* The messages a view of partition p yields.
View(p) == {m \in Messages : Reads(p, FileOf[m], LogTime[m]) /\ PassesTopicFilter(m)}

\* What the query must read.
Wanted == {m \in Messages : /\ lo <= LogTime[m] /\ LogTime[m] < hi
                            /\ PassesTopicFilter(m)}

MaxThreads == IF Len(partitions) > 1 THEN Len(partitions) ELSE 1

\* McapScanGlobalState as it is created; no task has started.
NoTasks ==
  /\ next_partition = 0
  /\ finished_partitions = 0
  /\ pc = [t \in Threads |-> "off"]
  /\ caller = [t \in Threads |-> "init"]
  /\ part = [t \in Threads |-> 0]
  /\ open = [t \in Threads |-> 0]
  /\ decoders = [t \in Threads |-> {}]
  /\ iterator = [t \in Threads |-> FALSE]
  /\ left = [t \in Threads |-> {}]
  /\ count = [t \in Threads |-> 0]
  /\ rows = [m \in Messages |-> 0]

Init == PartitionsInit /\ NoTasks

\* The executor creates tasks for some threads, at most MaxThreads.
StartTasks(tasks) ==
  /\ phase = "built"
  /\ tasks # {}
  /\ Cardinality(tasks) <= MaxThreads
  /\ phase' = "running"
  /\ pc' = [t \in Threads |-> IF t \in tasks THEN "start" ELSE "off"]
  /\ UNCHANGED <<pushdown, file, cut, partitions, next_partition, finished_partitions,
                 caller, part, open, decoders, iterator, left, count, rows>>

Running(t, where) == phase = "running" /\ pc[t] = where

\* McapScanInitLocal: a fresh local state asks for its first partition.
InitLocal(t) ==
  /\ Running(t, "start")
  /\ pc' = [pc EXCEPT ![t] = "claim"]
  /\ caller' = [caller EXCEPT ![t] = "init"]
  /\ UNCHANGED <<partitionVars, next_partition, finished_partitions, part, open,
                 decoders, iterator, left, count, rows>>

\* Fault: ClaimPartition reads the counter without advancing it.
ClaimWithoutIncrement(t) ==
  /\ Running(t, "claim")
  /\ next_partition < Len(partitions)
  /\ part' = [part EXCEPT ![t] = next_partition + 1]
  /\ pc' = [pc EXCEPT ![t] = "open"]
  /\ UNCHANGED <<partitionVars, next_partition, finished_partitions, caller, open, decoders,
                 iterator, left, count, rows>>

\* NextPartition, the fetch_add: the next partition is claimed.
ClaimPartition(t) ==
  /\ Running(t, "claim")
  /\ next_partition < Len(partitions)
  /\ next_partition' = next_partition + 1
  /\ part' = [part EXCEPT ![t] = next_partition + 1]
  /\ pc' = [pc EXCEPT ![t] = "open"]
  /\ UNCHANGED <<partitionVars, finished_partitions, caller, open, decoders,
                 iterator, left, count, rows>>

\* Fault: NoPartitionLeft keeps the exhausted iterators.
NoPartitionLeftKeepsIterator(t) ==
  /\ Running(t, "claim")
  /\ next_partition >= Len(partitions)
  /\ next_partition' = next_partition + 1
  /\ pc' = [pc EXCEPT ![t] = IF caller[t] = "init" THEN "ready" ELSE "return"]
  /\ UNCHANGED <<partitionVars, finished_partitions, caller, part, open, decoders,
                 iterator, left, count, rows>>

\* NextPartition, the fetch_add: nothing is left, the counter moves on all the
\* same.  McapScanFunction drops the exhausted iterators and ends its loop.
NoPartitionLeft(t) ==
  /\ Running(t, "claim")
  /\ next_partition >= Len(partitions)
  /\ next_partition' = next_partition + 1
  /\ IF caller[t] = "init"
     THEN pc' = [pc EXCEPT ![t] = "ready"] /\ UNCHANGED iterator
     ELSE /\ pc' = [pc EXCEPT ![t] = "return"]
          /\ iterator' = [iterator EXCEPT ![t] = FALSE]
  /\ UNCHANGED <<partitionVars, finished_partitions, caller, part, open, decoders,
                 left, count, rows>>

\* Fault: OpenPartition returns to the executor instead of continuing the loop.
OpenPartitionEndsCall(t) ==
  LET p == partitions[part[t]]
  IN  /\ Running(t, "open")
      /\ open' = [open EXCEPT ![t] = p.file]
      /\ decoders' = [decoders EXCEPT ![t] = IF open[t] = p.file THEN @ ELSE {}]
      /\ left' = [left EXCEPT ![t] = View(p)]
      /\ iterator' = [iterator EXCEPT ![t] = TRUE]
      /\ pc' = [pc EXCEPT ![t] = IF caller[t] = "init" THEN "ready" ELSE "return"]
      /\ UNCHANGED <<partitionVars, next_partition, finished_partitions, caller, part,
                     count, rows>>

\* Fault: OpenPartition keeps its decoders when it moves to another file.
OpenPartitionKeepsDecoders(t) ==
  LET p == partitions[part[t]]
  IN  /\ Running(t, "open")
      /\ open' = [open EXCEPT ![t] = p.file]
      /\ left' = [left EXCEPT ![t] = View(p)]
      /\ iterator' = [iterator EXCEPT ![t] = TRUE]
      /\ pc' = [pc EXCEPT ![t] = IF caller[t] = "init" THEN "ready" ELSE "loop"]
      /\ UNCHANGED <<partitionVars, next_partition, finished_partitions, caller, part,
                     decoders, count, rows>>

\* NextPartition, the rest: another file is opened with new decoders, and a
\* view of the partition replaces the old one.
OpenPartition(t) ==
  LET p == partitions[part[t]]
  IN  /\ Running(t, "open")
      /\ open' = [open EXCEPT ![t] = p.file]
      /\ decoders' = [decoders EXCEPT ![t] = IF open[t] = p.file THEN @ ELSE {}]
      /\ left' = [left EXCEPT ![t] = View(p)]
      /\ iterator' = [iterator EXCEPT ![t] = TRUE]
      /\ pc' = [pc EXCEPT ![t] = IF caller[t] = "init" THEN "ready" ELSE "loop"]
      /\ UNCHANGED <<partitionVars, next_partition, finished_partitions, caller, part,
                     count, rows>>

\* The file cannot be opened or the library reports a problem while it reads:
\* an exception ends the query.
ReadFails(t) ==
  /\ \/ Running(t, "open")
     \/ Running(t, "loop") /\ iterator[t]
  /\ phase' = "error"
  /\ UNCHANGED <<pushdown, file, cut, partitions, scanVars>>

\* The executor calls McapScanFunction with an empty output chunk.
Call(t) ==
  /\ Running(t, "ready")
  /\ pc' = [pc EXCEPT ![t] = "loop"]
  /\ count' = [count EXCEPT ![t] = 0]
  /\ UNCHANGED <<partitionVars, next_partition, finished_partitions, caller, part,
                 open, decoders, iterator, left, rows>>

\* Fault: WriteRow does not stop at the capacity of the chunk.
WriteRowBeyondChunk(t, m) ==
  /\ Running(t, "loop")
  /\ iterator[t]
  /\ m \in left[t]
  /\ rows' = [rows EXCEPT ![m] = @ + 1]
  /\ count' = [count EXCEPT ![t] = @ + 1]
  /\ left' = [left EXCEPT ![t] = @ \ {m}]
  /\ decoders' = [decoders EXCEPT ![t] = IF m \in Decoded THEN @ \cup {open[t]} ELSE @]
  /\ UNCHANGED <<partitionVars, next_partition, finished_partitions, pc, caller, part,
                 open, iterator>>

\* One iteration of the loop that finds a message: decode it if JSON is
\* wanted, write a row, advance the iterator.
WriteRow(t, m) ==
  /\ Running(t, "loop")
  /\ count[t] < VectorSize
  /\ iterator[t]
  /\ m \in left[t]
  /\ rows' = [rows EXCEPT ![m] = @ + 1]
  /\ count' = [count EXCEPT ![t] = @ + 1]
  /\ left' = [left EXCEPT ![t] = @ \ {m}]
  /\ decoders' = [decoders EXCEPT ![t] = IF m \in Decoded THEN @ \cup {open[t]} ELSE @]
  /\ UNCHANGED <<partitionVars, next_partition, finished_partitions, pc, caller, part,
                 open, iterator>>

\* One iteration that finds the iterator at its end.
PartitionExhausted(t) ==
  /\ Running(t, "loop")
  /\ count[t] < VectorSize
  /\ iterator[t]
  /\ left[t] = {}
  /\ finished_partitions' = finished_partitions + 1
  /\ pc' = [pc EXCEPT ![t] = "claim"]
  /\ caller' = [caller EXCEPT ![t] = "scan"]
  /\ UNCHANGED <<partitionVars, next_partition, part, open, decoders, iterator, left,
                 count, rows>>

\* Fault: LeaveLoop waits for a full chunk.
LeaveLoopWhenFull(t) ==
  /\ Running(t, "loop")
  /\ count[t] = VectorSize
  /\ pc' = [pc EXCEPT ![t] = "return"]
  /\ UNCHANGED <<partitionVars, next_partition, finished_partitions, caller, part,
                 open, decoders, iterator, left, count, rows>>

\* The loop ends: the chunk is full or there is no iterator.
LeaveLoop(t) ==
  /\ Running(t, "loop")
  /\ count[t] = VectorSize \/ ~iterator[t]
  /\ pc' = [pc EXCEPT ![t] = "return"]
  /\ UNCHANGED <<partitionVars, next_partition, finished_partitions, caller, part,
                 open, decoders, iterator, left, count, rows>>

\* The call returns its rows; one without rows is the thread's last.
Return(t) ==
  /\ Running(t, "return")
  /\ pc' = [pc EXCEPT ![t] = IF count[t] = 0 THEN "finished" ELSE "ready"]
  /\ UNCHANGED <<partitionVars, next_partition, finished_partitions, caller, part,
                 open, decoders, iterator, left, count, rows>>

\* The executor ends the pipeline when every task has finished.
EndScan ==
  /\ phase = "running"
  /\ \A t \in Threads : pc[t] \in {"off", "finished"}
  /\ phase' = "done"
  /\ UNCHANGED <<pushdown, file, cut, partitions, scanVars>>

\* The query is over.
Ended == phase \in {"done", "error"} /\ UNCHANGED vars

ThreadStep(t) ==
  \/ InitLocal(t)
  \/ ClaimPartition(t)
  \/ NoPartitionLeft(t)
  \/ OpenPartition(t)
  \/ Call(t)
  \/ \E m \in Messages : WriteRow(t, m)
  \/ PartitionExhausted(t)
  \/ LeaveLoop(t)
  \/ Return(t)

InitGlobal == PartitionsNext /\ UNCHANGED scanVars

Next ==
  \/ InitGlobal
  \/ \E tasks \in SUBSET Threads : StartTasks(tasks)
  \/ \E t \in Threads : ThreadStep(t) \/ ReadFails(t)
  \/ EndScan
  \/ Ended

Spec == Init /\ [][Next]_vars
-----------------------------------------------------------------------------
TypeOK ==
  /\ PartitionsTypeOK
  /\ phase \in {"open", "split", "built", "running", "done", "error"}
  /\ next_partition \in Nat
  /\ finished_partitions \in Nat
  /\ pc \in [Threads -> {"off", "start", "claim", "open", "ready", "loop", "return", "finished"}]
  /\ caller \in [Threads -> {"init", "scan"}]
  /\ part \in [Threads -> Nat]
  /\ open \in [Threads -> 0 .. NumFiles]
  /\ decoders \in [Threads -> SUBSET Files]
  /\ iterator \in [Threads -> BOOLEAN]
  /\ left \in [Threads -> SUBSET Messages]
  /\ count \in [Threads -> 0 .. VectorSize]
  /\ rows \in [Messages -> Nat]

\* Whatever the interleaving, no message becomes two rows, none outside the
\* query's window or topics becomes one, and when the scan is done every other
\* message has become one.
ExactlyOnce ==
  /\ \A m \in Messages : rows[m] <= 1 /\ (rows[m] = 1 => m \in Wanted)
  /\ phase = "done" => \A m \in Wanted : rows[m] = 1

\* A thread retires (its call returned no row) only when every partition has
\* been handed out: a partition without matching messages, or one that ends
\* exactly where a chunk of output was full, retires nobody early.
RetiresLast ==
  \A t \in Threads : pc[t] = "finished" => next_partition >= Len(partitions)

\* McapScanProgress: the finished count never exceeds the number of
\* partitions, however often exhausted threads are called again, and at 100%
\* all rows have been written.
ProgressIsSound ==
  phase \in {"running", "done"} =>
    /\ finished_partitions <= Len(partitions)
    /\ finished_partitions = Len(partitions) => \A m \in Wanted : rows[m] = 1
    /\ phase = "done" => finished_partitions = Len(partitions)

\* Schema ids are per file: while a thread reads a file, its decoders hold
\* schemas of that file only (mcap_scan.cpp:89-90), and what it reads is
\* stored in the file it holds open.
OwnDecoders ==
  \A t \in Threads : iterator[t] =>
    /\ decoders[t] \subseteq {open[t]}
    /\ \A m \in left[t] : FileOf[m] = open[t]

\* The scan implements AbstractScan: threads, partitions, files and output
\* chunks are invisible, only the rows and the outcome are.
Abstract == INSTANCE AbstractScan WITH
  wanted <- Wanted,
  written <- rows,
  status <- IF phase = "done" THEN "done"
            ELSE IF phase = "error" THEN "failed" ELSE "scanning"

Implements == Abstract!AbsSpec

=============================================================================
