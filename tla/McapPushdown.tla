---------------------------- MODULE McapPushdown ----------------------------
(***************************************************************************)
(* The value that connects the two halves of a query: McapPushdown, what   *)
(* the filters of the query allow the scan to skip.  ExtractMcapPushdown   *)
(* (module Pushdown) writes it, the scan (Partitions, McapScan) reads it.  *)
(***************************************************************************)
EXTENDS McapTime

VARIABLE pushdown   \* restricted, topics, start_time, end_time

=============================================================================
