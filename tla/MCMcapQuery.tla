----------------------------- MODULE MCMcapQuery ----------------------------
(* A small instance of McapQuery for the model checker. *)
EXTENDS McapQuery

\* Two files of two messages each; the first is cut into two partitions of the
\* full window.  Filters on both columns, a constant before the epoch.
MCMessages == 1 .. 4
MCFileOf == <<1, 1, 2, 2>>
MCLogTime == <<1, 2, 1, 2>>
MCTopicOf == <<"a", "b", "b", "a">>
MCMessageCounts == <<2, 2>>
MCChunkStarts == << <<1, 2>>, <<1>> >>
MCLogTimes == {1, 2}
MCNanos == {-1, 1, 2}
MCOpaqueFits == {LogTimes, {}}
MCColumnLists == {<<"topic", "timestamp">>, <<"timestamp", "topic">>}

MCPushdowns == PushdownRecord

\* A first file smaller than the second, for the estimate made from it.
MCSmallFirstFileOf == <<1, 2, 2, 2>>
MCSmallFirstCounts == <<1, 3>>

=============================================================================
