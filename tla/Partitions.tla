----------------------------- MODULE Partitions -----------------------------
(***************************************************************************)
(* McapScanInitGlobal and BuildPartitions: the files of a scan are opened  *)
(* one after the other and the read window of the query is cut, per file,  *)
(* into partitions, the units of parallel work.                            *)
(*                                                                         *)
(* Files are numbered from 1 in the order of the sorted path list.  Where  *)
(* the window is cut depends on where the file's chunks start; every cut   *)
(* is one iteration of the loop that pushes partitions.                    *)
(***************************************************************************)
EXTENDS McapPushdown, Sequences, FiniteSets

CONSTANTS
  NumFiles,               \* files matched by the path pattern, at least one
  ChunkStarts,            \* per file, messageStartTime of its chunk indexes
  ChunksPerPartition,     \* CHUNKS_PER_PARTITION
  Pushdowns               \* restrictions a query may come with

Files == 1 .. NumFiles

ASSUME PartitionsAssumption ==
  /\ NumFiles \in Nat \ {0}
  /\ ChunkStarts \in [Files -> Seq(Times)]
  /\ ChunksPerPartition \in Nat \ {0}
  /\ \A p \in Pushdowns : p.start_time \in Times /\ p.end_time \in Times

VARIABLES
  phase,          \* "open", "split", "built", or a phase of the scan itself
  file,           \* the file being opened or split, 0 before the first
  cut,            \* the last entry of `bounds' that a partition starts at
  partitions      \* the partitions pushed so far, of all files

partitionVars == <<pushdown, phase, file, cut, partitions>>

lo == pushdown.start_time
hi == pushdown.end_time

\* The chunk start times strictly inside the window, without duplicates.
Starts(f) == {ChunkStarts[f][i] : i \in DOMAIN ChunkStarts[f]} \cap (lo + 1 .. hi - 1)

\* The index of a start time in the sorted vector `starts'.
Rank(f, t) == Cardinality({s \in Starts(f) : s < t})

\* Fault: InnerBounds starts counting one partition late.
InnerBoundsLate(f) ==
  IF Len(ChunkStarts[f]) > ChunksPerPartition
  THEN {t \in Starts(f) : Rank(f, t) > ChunksPerPartition /\ Rank(f, t) % ChunksPerPartition = 0}
  ELSE {}

\* Where the window is cut: at every ChunksPerPartition-th start time, when
\* the file has more chunks than fit in one partition.
InnerBounds(f) ==
  IF Len(ChunkStarts[f]) > ChunksPerPartition
  THEN {t \in Starts(f) : Rank(f, t) > 0 /\ Rank(f, t) % ChunksPerPartition = 0}
  ELSE {}

\* b follows a in the vector `bounds' of file f.
Follows(f, a, b) ==
  /\ b \in InnerBounds(f) \cup {hi}
  /\ a < b
  /\ \A c \in InnerBounds(f) : c <= a \/ b <= c

NoPartitions == file = 0 /\ cut = 0 /\ partitions = <<>>

PartitionsInit == pushdown \in Pushdowns /\ phase = "open" /\ NoPartitions

\* Fault: OpenFile starts the first partition at the first log time.
OpenFileFromZero ==
  /\ phase = "open"
  /\ file < NumFiles
  /\ file' = file + 1
  /\ IF lo >= hi
     THEN UNCHANGED <<phase, cut>>
     ELSE phase' = "split" /\ cut' = 0
  /\ UNCHANGED <<pushdown, partitions>>

\* The next file is opened; a degenerate window has no partitions at all.
OpenFile ==
  /\ phase = "open"
  /\ file < NumFiles
  /\ file' = file + 1
  /\ IF lo >= hi
     THEN UNCHANGED <<phase, cut>>
     ELSE phase' = "split" /\ cut' = lo
  /\ UNCHANGED <<pushdown, partitions>>

\* OpenMcapFile throws: the query fails.
OpenFileFails ==
  /\ phase = "open"
  /\ file < NumFiles
  /\ phase' = "error"
  /\ UNCHANGED <<pushdown, file, cut, partitions>>

\* Fault: PushPartition takes the end of a partition to be inclusive.
PushPartitionEndInclusive(b) ==
  /\ phase = "split"
  /\ Follows(file, cut, b)
  /\ partitions' = Append(partitions, [file |-> file, start |-> cut, end |-> b - 1])
  /\ cut' = b
  /\ phase' = IF b = hi THEN "open" ELSE "split"
  /\ UNCHANGED <<pushdown, file>>

\* One partition is pushed, from one bound to the next.
PushPartition(b) ==
  /\ phase = "split"
  /\ Follows(file, cut, b)
  /\ partitions' = Append(partitions, [file |-> file, start |-> cut, end |-> b])
  /\ cut' = b
  /\ phase' = IF b = hi THEN "open" ELSE "split"
  /\ UNCHANGED <<pushdown, file>>

\* All files are split.
InitGlobalReturns ==
  /\ phase = "open"
  /\ file = NumFiles
  /\ phase' = "built"
  /\ UNCHANGED <<pushdown, file, cut, partitions>>

PartitionsNext ==
  \/ OpenFile
  \/ OpenFileFails
  \/ \E b \in Times : PushPartition(b)
  \/ InitGlobalReturns
-----------------------------------------------------------------------------
Partition == [file : Files, start : Times, end : Times]

PartitionsTypeOK ==
  /\ pushdown \in Pushdowns
  /\ file \in 0 .. NumFiles
  /\ cut \in Times
  /\ partitions \in Seq(Partition)
  /\ phase = "split" => file \in Files

\* Partition p reads the log time t of file f.
Reads(p, f, t) == p.file = f /\ p.start <= t /\ t < p.end

\* What has been cut of file f so far.
CutUpTo(f) ==
  IF f < file \/ (f = file /\ phase # "split") THEN hi
  ELSE IF f = file THEN cut ELSE lo

\* Every log time of a file, in the part of the window that is cut already, is
\* read by exactly one partition (mcap_scan.cpp:55-59): two threads never
\* deliver the same message and none falls between two partitions.
PartitionsPartition ==
  \A f \in Files, t \in Times :
    /\ lo <= t /\ t < CutUpTo(f) =>
         \E i \in DOMAIN partitions : Reads(partitions[i], f, t)
    /\ \A i, j \in DOMAIN partitions :
         Reads(partitions[i], f, t) /\ Reads(partitions[j], f, t) => i = j

\* No partition reaches outside the window of the query, which would return
\* messages the pruning promised to skip, and none is empty.
PartitionsInWindow ==
  \A i \in DOMAIN partitions :
    lo <= partitions[i].start /\ partitions[i].start < partitions[i].end /\ partitions[i].end <= hi

\* The work is divided evenly: no partition holds more than ChunksPerPartition
\* of the chunk start times inside the window of a file that is cut at all.
PartitionsAreSmall ==
  \A i \in DOMAIN partitions :
    LET p == partitions[i]
    IN  Len(ChunkStarts[p.file]) > ChunksPerPartition =>
          Cardinality({s \in Starts(p.file) : p.start <= s /\ s < p.end}) <= ChunksPerPartition

=============================================================================
