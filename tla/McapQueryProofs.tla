-------------------------- MODULE McapQueryProofs ---------------------------
(***************************************************************************)
(* Proofs about McapQuery: the invariants of its two halves hold in the    *)
(* composition, and together they give the answer of the query.            *)
(***************************************************************************)
EXTENDS McapQuery, McapScanProofs, PushdownProofs

Planning == phase \in {"bind", "filter"}

\* The filters keep their invariant throughout; the scan is as it was created
\* until they have been visited and keeps its own invariant from then on.  A
\* query that failed while binding has not written a row either.
QueryInv ==
  /\ PushdownInv
  /\ Planning => NoPartitions /\ NoTasks
  /\ phase = "error" => ScanInv \/ NoTasks
  /\ ~Planning /\ phase # "error" => ScanInv

LEMMA FilterStepInv ==
  ASSUME PushdownInv, \/ PushdownNext
                      \/ UNCHANGED <<filterVars, pushdown>>
  PROVE  PushdownInv'
  <1>1. [PushdownNext]_pushdownVars
    BY DEF filterVars, pushdownVars
  <1> QED BY <1>1, PushdownInvStep

\* The scan takes its restriction from the filters.
LEMMA ScanBegins ==
  ASSUME PushdownInv, phase = "open", NoPartitions, NoTasks PROVE ScanInv
  <1>1. pushdown \in Pushdowns
    BY QueryAssumption DEF PushdownInv
  <1> QED BY <1>1, ScanInvInit DEF Init, PartitionsInit

LEMMA QueryInvInit == QueryInit => QueryInv
  BY PushdownInvInit DEF QueryInit, QueryInv, Planning

LEMMA QueryInvStep == QueryInv /\ [QueryNext]_queryVars => QueryInv'
  <1> SUFFICES ASSUME QueryInv, [QueryNext]_queryVars PROVE QueryInv'
    OBVIOUS
  <1>idle. ASSUME UNCHANGED scanVars, NoTasks PROVE NoTasks'
    BY <1>idle DEF scanVars, threadVars, NoTasks
  <1>1. CASE Bind \/ CopyBindData
    <2>1. /\ UNCHANGED <<pushdown, file, cut, partitions, scanVars, filterVars>>
          /\ Planning /\ phase' \in {"bind", "filter"}
      BY <1>1 DEF Bind, CopyBindData, Planning, vars, partitionVars
    <2>2. PushdownInv'
      BY <2>1, FilterStepInv DEF QueryInv
    <2> QED BY <2>1, <2>2, <1>idle DEF QueryInv, Planning, NoPartitions
  <1>2. CASE BindFails
    <2>1. /\ UNCHANGED <<pushdown, scanVars, filterVars>>
          /\ Planning /\ phase' = "error"
      BY <1>2 DEF BindFails, Planning
    <2>2. PushdownInv'
      BY <2>1, FilterStepInv DEF QueryInv
    <2> QED BY <2>1, <2>2, <1>idle DEF QueryInv, Planning
  <1>3. CASE ExtractMcapPushdown
    <2>1. /\ PushdownNext /\ UNCHANGED <<phase, file, cut, partitions, scanVars>> /\ phase = "filter"
      BY <1>3 DEF ExtractMcapPushdown
    <2>2. PushdownInv'
      BY <2>1, FilterStepInv DEF QueryInv
    <2> QED BY <2>1, <2>2, <1>idle DEF QueryInv, Planning, NoPartitions
  <1>4. CASE FiltersVisited
    <2>1. /\ UNCHANGED <<pushdown, file, cut, partitions, scanVars, filterVars>>
          /\ phase = "filter" /\ phase' = "open"
      BY <1>4 DEF FiltersVisited
    <2>2. PushdownInv'
      BY <2>1, FilterStepInv DEF QueryInv
    <2>3. NoPartitions' /\ NoTasks'
      BY <2>1, <1>idle DEF QueryInv, Planning, NoPartitions
    <2>4. (PushdownInv /\ phase = "open" /\ NoPartitions /\ NoTasks => ScanInv)'
      BY ScanBegins, PTL
    <2> QED BY <2>1, <2>2, <2>3, <2>4 DEF QueryInv, Planning
  <1>5. CASE ScanStep
    <2>1. /\ ~Planning /\ Next /\ UNCHANGED filterVars
      BY <1>5 DEF ScanStep, Scans, Planning
    <2>2. UNCHANGED pushdown /\ phase' \notin {"bind", "filter"}
      BY <2>1 DEF Next, InitGlobal, PartitionsNext, OpenFile, OpenFileFails, PushPartition,
         InitGlobalReturns, StartTasks, ThreadStep, InitLocal, ClaimPartition, NoPartitionLeft,
         OpenPartition, Call, WriteRow, PartitionExhausted, LeaveLoop, Return, ReadFails,
         EndScan, Ended, Planning, vars, partitionVars
    <2>3. PushdownInv'
      BY <2>1, <2>2, FilterStepInv DEF QueryInv
    <2>4. CASE ScanInv
      BY <2>1, <2>2, <2>3, <2>4, ScanInvStep DEF QueryInv, Planning
    <2>5. CASE ~ScanInv
      <3>1. phase = "error" /\ NoTasks
        BY <2>1, <2>5 DEF QueryInv
      <3>2. UNCHANGED vars
        BY <2>1, <3>1 DEF Next, InitGlobal, PartitionsNext, OpenFile, OpenFileFails, PushPartition,
           InitGlobalReturns, StartTasks, ThreadStep, InitLocal, ClaimPartition, NoPartitionLeft,
           OpenPartition, Call, WriteRow, PartitionExhausted, LeaveLoop, Return, ReadFails,
           EndScan, Ended, Running
      <3> QED BY <2>2, <2>3, <3>1, <3>2, <1>idle DEF QueryInv, Planning, vars, partitionVars
    <2> QED BY <2>4, <2>5
  <1>6. CASE UNCHANGED queryVars
    <2>1. /\ UNCHANGED <<pushdown, phase, file, cut, partitions, scanVars, filterVars>>
          /\ UNCHANGED vars
      BY <1>6 DEF queryVars, vars, partitionVars
    <2>2. PushdownInv'
      BY <2>1, FilterStepInv DEF QueryInv
    <2>3. ScanInv => ScanInv'
      BY <2>1, ScanInvStep
    <2> QED BY <2>1, <2>2, <2>3, <1>idle DEF QueryInv, Planning, NoPartitions
  <1> QED BY <1>1, <1>2, <1>3, <1>4, <1>5, <1>6 DEF QueryNext

LEMMA QueryInvariance == QuerySpec => []QueryInv
  BY QueryInvInit, QueryInvStep, PTL DEF QuerySpec

-----------------------------------------------------------------------------
\* What satisfies the filters and is shown faithfully, the scan wants.
LEMMA SatisfyingIsWanted ==
  ASSUME PushdownInv, NEW m \in Messages, Satisfies(m), LogTime[m] \in Representable
  PROVE  m \in Wanted
  <1>1. PassesTopicFilter(m)
    BY DEF PushdownInv, Conservative, Satisfies, PassesTopicFilter
  <1>2. lo <= LogTime[m] /\ LogTime[m] < hi
    BY DEF PushdownInv, Conservative, Covers, Satisfies, lo, hi
  <1> QED BY <1>1, <1>2 DEF Wanted

\* From the filters to the rows (pushdown.cpp:211-245, mcap_scan.cpp:128-360):
\* for every filter tree, file set, number of threads and interleaving, a query
\* that completes has returned every representable message that satisfies its
\* filters exactly once, and no query returns a message twice.
THEOREM QueryAnswerComplete == QuerySpec => []AnswerComplete
  <1>1. QueryInv => AnswerComplete
    <2> SUFFICES ASSUME QueryInv PROVE AnswerComplete
      OBVIOUS
    <2>1. ASSUME NEW m \in Messages PROVE rows[m] <= 1
      <3>1. CASE ScanInv
        BY <3>1, ScanInvExactlyOnce DEF ExactlyOnce
      <3>2. CASE NoTasks
        BY <3>2 DEF NoTasks
      <3> QED BY <3>1, <3>2 DEF QueryInv
    <2>2. ASSUME phase = "done", NEW m \in Messages, Satisfies(m), LogTime[m] \in Representable
          PROVE  rows[m] = 1
      BY <2>2, ScanInvExactlyOnce, SatisfyingIsWanted DEF QueryInv, Planning, ExactlyOnce
    <2> QED BY <2>1, <2>2 DEF AnswerComplete
  <1> QED BY <1>1, QueryInvariance, PTL

=============================================================================
