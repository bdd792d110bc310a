------------------------------ MODULE Pushdown ------------------------------
(***************************************************************************)
(* ExtractMcapPushdown: the loop over the filters DuckDB pushed into the   *)
(* scan, which evaluates each one with CollectTopicSet or CollectTimeRange *)
(* and merges the results into one restriction of the read.                *)
(*                                                                         *)
(* A filter is keyed by an index into column_ids, the list of projected    *)
(* columns.  `pending' holds the indices of the filters not yet visited;   *)
(* the map iterates them in ascending order.  topicFit and timeFit are the *)
(* topics and log times that satisfy every filter merged so far: a row     *)
(* satisfies the query iff its topic and its log time do.                  *)
(***************************************************************************)
EXTENDS TopicSet, TimeRange, McapPushdown

CONSTANTS
  ColumnLists,    \* the column_ids a query may come with
  MaxFilterIndex  \* bound: largest index a filter is keyed by

ASSUME PushdownAssumption ==
  /\ ColumnLists \subseteq Seq({"topic", "timestamp", "other"})
  /\ MaxFilterIndex \in Nat

VARIABLES
  column_ids,     \* the projected columns of this query
  pending,        \* indices of the filters still to visit
  topicFit,
  timeFit

pushdownVars == <<topicVars, timeVars, column_ids, pending, pushdown, topicFit, timeFit>>

FilterIndices == 0 .. MaxFilterIndex

\* McapPushdown with its default values.  `restricted' is topics.has_value().
NoPushdown ==
  [restricted |-> FALSE, topics |-> {}, start_time |-> 0, end_time |-> MaxTime]

PushdownInit ==
  /\ topicFrames = <<>>
  /\ topicCall = TopicState("idle", {})
  /\ timeFrames = <<>>
  /\ timeCall = TimeState("idle")
  /\ column_ids \in ColumnLists
  /\ pending \in SUBSET FilterIndices
  /\ pushdown = NoPushdown
  /\ topicFit = Topics
  /\ timeFit = LogTimes

\* The filter the loop visits now: between two evaluations, the least index.
Visits(i) ==
  /\ topicCall.at = "idle" /\ timeCall.at = "idle"
  /\ i \in pending
  /\ \A j \in pending : i <= j

\* column_ids is indexed from 0 in the code.
FiltersColumn(i, column) == i < Len(column_ids) /\ column_ids[i + 1] = column

\* An index beyond column_ids, or a column without pushdown.
SkipEntry(i) ==
  /\ Visits(i)
  /\ ~FiltersColumn(i, "topic")
  /\ ~FiltersColumn(i, "timestamp")
  /\ pending' = pending \ {i}
  /\ UNCHANGED <<topicVars, timeVars, column_ids, pushdown, topicFit, timeFit>>

EnterTopic(i) ==
  /\ Visits(i)
  /\ FiltersColumn(i, "topic")
  /\ pending' = pending \ {i}
  /\ topicCall' = TopicState("call", {})
  /\ UNCHANGED <<topicFrames, timeVars, column_ids, pushdown, topicFit, timeFit>>

EnterTimestamp(i) ==
  /\ Visits(i)
  /\ FiltersColumn(i, "timestamp")
  /\ pending' = pending \ {i}
  /\ timeCall' = TimeState("call")
  /\ UNCHANGED <<topicVars, timeFrames, column_ids, pushdown, topicFit, timeFit>>

\* The outermost CollectTopicSet came back.  Sets are merged by union; an empty
\* set restricts nothing.
MergeTopics ==
  /\ topicCall.at = "return"
  /\ topicFrames = <<>>
  /\ pushdown' = IF topicCall.ok /\ topicCall.out # {}
                 THEN [pushdown EXCEPT !.restricted = TRUE,
                                       !.topics = @ \cup topicCall.out]
                 ELSE pushdown
  /\ topicFit' = topicFit \cap topicCall.fit
  /\ topicCall' = TopicState("idle", {})
  /\ UNCHANGED <<topicFrames, timeVars, column_ids, pending, timeFit>>

\* The outermost CollectTimeRange came back.  Windows are intersected.
MergeTimeRange ==
  /\ timeCall.at = "return"
  /\ timeFrames = <<>>
  /\ pushdown' = IF timeCall.ok
                 THEN [pushdown EXCEPT
                         !.start_time = IF timeCall.start > @ THEN timeCall.start ELSE @,
                         !.end_time = IF timeCall.end < @ THEN timeCall.end ELSE @]
                 ELSE pushdown
  /\ timeFit' = timeFit \cap timeCall.fit
  /\ timeCall' = TimeState("idle")
  /\ UNCHANGED <<topicVars, timeFrames, column_ids, pending, topicFit>>

EvaluateTopic ==
  TopicStep /\ UNCHANGED <<timeVars, column_ids, pending, pushdown, topicFit, timeFit>>

EvaluateTimestamp ==
  TimeStep /\ UNCHANGED <<topicVars, column_ids, pending, pushdown, topicFit, timeFit>>

PushdownNext ==
  \/ \E i \in FilterIndices : SkipEntry(i) \/ EnterTopic(i) \/ EnterTimestamp(i)
  \/ EvaluateTopic
  \/ EvaluateTimestamp
  \/ MergeTopics
  \/ MergeTimeRange

PushdownSpec == PushdownInit /\ [][PushdownNext]_pushdownVars
-----------------------------------------------------------------------------
PushdownRecord ==
  [restricted : BOOLEAN, topics : SUBSET Topics, start_time : Times, end_time : Times]

PushdownTypeOK ==
  /\ TopicTypeOK
  /\ TimeTypeOK
  /\ column_ids \in ColumnLists
  /\ pending \subseteq FilterIndices
  /\ pushdown \in PushdownRecord
  /\ topicFit \subseteq Topics
  /\ timeFit \subseteq LogTimes

\* Whatever the filters and the columns they are on, the read is restricted to
\* a superset of the rows that satisfy all filters merged so far: pruning may
\* cost time but loses no (representable) row.
Conservative ==
  /\ pushdown.restricted => topicFit \subseteq pushdown.topics
  /\ Covers(pushdown.start_time, pushdown.end_time, timeFit \cap Representable)

\* The claim of pushdown.hpp:31-33 and pushdown.cpp:120-122 without exception:
\* the window contains every log time whose displayed timestamp satisfies the
\* timestamp filters.
Superset == Covers(pushdown.start_time, pushdown.end_time, timeFit)

=============================================================================
