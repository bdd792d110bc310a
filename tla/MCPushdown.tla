----------------------------- MODULE MCPushdown -----------------------------
(* Small instances of Pushdown for the model checker. *)
EXTENDS Pushdown

\* Constants before and after the epoch.
MCNanos == {-1, 1, 2}
MCLogTimes == {1, 2}
\* IS NOT NULL accepts every time, ts = NULL none.
MCOpaqueFits == {LogTimes, {}}
\* Two filters on one column, one on a column without pushdown, and an index
\* beyond the second list.
MCColumnLists == {<<"topic", "other", "topic">>, <<"timestamp", "timestamp">>}

\* A message at the epoch, and a constant before it.
EpochLogTimes == {0, 1}
EpochNanos == {-1, 1}

=============================================================================
