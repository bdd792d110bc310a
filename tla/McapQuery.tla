----------------------------- MODULE McapQuery ------------------------------
(***************************************************************************)
(* One query over mcap_scan from end to end: McapScanBind looks at the     *)
(* first file only, ExtractMcapPushdown (module Pushdown) turns the        *)
(* query's filters into a restriction, McapScanInitGlobal cuts the files   *)
(* into partitions under that restriction (Partitions) and the threads     *)
(* read them (McapScan).  The two halves share the variable pushdown.      *)
(*                                                                         *)
(* DuckDB evaluates the filters on every row again (filter_prune = false,  *)
(* mcap_scan.cpp:385-388), so the rows the scan returns need only contain  *)
(* the answer, each row of it once.                                        *)
(***************************************************************************)
EXTENDS McapScan, Pushdown

CONSTANTS
  MessageCounts   \* per file, messageCount of its statistics, NoCount without

NoCount == -1

ASSUME QueryAssumption ==
  /\ IsFiniteSet(Messages)
  /\ PushdownRecord \subseteq Pushdowns
  /\ \A m \in Messages : LogTime[m] \in LogTimes /\ TopicOf[m] \in Topics
  /\ MessageCounts \in [Files -> Nat \cup {NoCount}]

VARIABLE
  estimated_rows  \* McapScanBindData::estimated_rows, NoCount when unset

filterVars == <<topicVars, timeVars, column_ids, pending, topicFit, timeFit>>
queryVars == <<vars, filterVars, estimated_rows>>

QueryInit ==
  /\ PushdownInit
  /\ phase = "bind"
  /\ NoPartitions
  /\ NoTasks
  /\ estimated_rows = NoCount

\* McapScanBind opens the first of the sorted paths and scales its count.
Bind ==
  /\ phase = "bind"
  /\ phase' = "filter"
  /\ estimated_rows' = IF MessageCounts[1] = NoCount THEN NoCount
                       ELSE MessageCounts[1] * NumFiles
  /\ UNCHANGED <<pushdown, file, cut, partitions, scanVars, filterVars>>

\* A NULL argument, a pattern without files, a first file that is no MCAP.
BindFails ==
  /\ phase = "bind"
  /\ phase' = "error"
  /\ UNCHANGED <<pushdown, file, cut, partitions, scanVars, filterVars, estimated_rows>>

\* McapScanBindData::Copy, for a plan that is copied: the estimate is lost.
CopyBindData ==
  /\ phase = "filter"
  /\ estimated_rows # NoCount
  /\ estimated_rows' = NoCount
  /\ UNCHANGED <<vars, filterVars>>

\* McapScanInitGlobal, its first half: one step of ExtractMcapPushdown.
ExtractMcapPushdown ==
  /\ phase = "filter"
  /\ PushdownNext
  /\ UNCHANGED <<phase, file, cut, partitions, scanVars, estimated_rows>>

\* ExtractMcapPushdown returns; the files are opened and split next.
FiltersVisited ==
  /\ phase = "filter"
  /\ topicCall.at = "idle" /\ timeCall.at = "idle"
  /\ pending = {}
  /\ phase' = "open"
  /\ UNCHANGED <<pushdown, file, cut, partitions, scanVars, filterVars, estimated_rows>>

\* McapScanInitGlobal, its second half, and the scan.
Scans(step) == step /\ UNCHANGED <<filterVars, estimated_rows>>

ScanStep == phase \notin {"bind", "filter"} /\ Scans(Next)

QueryNext ==
  \/ Bind
  \/ BindFails
  \/ CopyBindData
  \/ ExtractMcapPushdown
  \/ FiltersVisited
  \/ ScanStep

QuerySpec == QueryInit /\ [][QueryNext]_queryVars

\* The executor prepares a query it has started, starts the tasks it planned and
\* keeps calling each of them, and a thread that can step eventually does.
QueryFairness ==
  /\ WF_queryVars(Bind \/ BindFails)
  /\ WF_queryVars(ExtractMcapPushdown)
  /\ WF_queryVars(FiltersVisited)
  /\ WF_queryVars(Scans(InitGlobal))
  /\ WF_queryVars(\E tasks \in SUBSET Threads : Scans(StartTasks(tasks)))
  /\ WF_queryVars(Scans(EndScan))
  /\ \A t \in Threads : WF_queryVars(Scans(ThreadStep(t)))

FairQuery == QuerySpec /\ QueryFairness
-----------------------------------------------------------------------------
\* A message satisfies the filters visited so far.
Satisfies(m) == TopicOf[m] \in topicFit /\ LogTime[m] \in timeFit

\* The answer to the query is what satisfies its filters: no message becomes
\* two rows, and when the scan is done every message whose log time the
\* conversions are faithful for and that satisfies all filters has become one.
\* A row that the restriction excluded, that two partitions share, or that fell
\* between two partitions or threads is missing or doubled here.
AnswerComplete ==
  /\ \A m \in Messages : rows[m] <= 1
  /\ phase = "done" =>
       \A m \in Messages : Satisfies(m) /\ LogTime[m] \in Representable => rows[m] = 1

\* mcap_scan.cpp:367 hands the estimate of the binder to the optimizer as the
\* maximum cardinality too: no query returns more rows than that.
MaximumHolds ==
  estimated_rows # NoCount => Cardinality({m \in Messages : rows[m] > 0}) <= estimated_rows

\* Every query comes to an end, whatever its filters.
QueryEnds == <>(phase \in {"done", "error"})

=============================================================================
