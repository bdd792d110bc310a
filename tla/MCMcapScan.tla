----------------------------- MODULE MCMcapScan -----------------------------
(* A small instance of McapScan for the model checker. *)
EXTENDS McapScan, TLC

\* Three files: the first is cut into up to three partitions, with duplicate
\* and unordered chunk starts, the others are not cut.  Messages share log
\* times within and between files, lie on and next to the cuts, and fill an
\* output chunk exactly or more than once.
MCMessages == 1 .. 8
MCFileOf == <<1, 1, 1, 1, 2, 2, 2, 3>>
MCLogTime == <<0, 3, 5, 5, 2, 4, 4, 3>>
MCTopicOf == <<"a", "b", "a", "b", "a", "b", "a", "b">>
MCFileChunks == << <<4, 3, 0, 3, 5, 2, 1>>, <<1, 3>>, <<>> >>
MCChunkStarts == [f \in 1 .. NumFiles |-> MCFileChunks[f]]

\* No restriction, a topic filter, windows that start and end on chunk starts
\* and between them, an empty and an inverted window.
Window(start, end) ==
  [restricted |-> FALSE, topics |-> {}, start_time |-> start, end_time |-> end]
MCPushdowns ==
  {Window(w[1], w[2]) : w \in {<<0, MaxTime>>, <<1, 5>>, <<2, 4>>, <<3, 3>>, <<5, 2>>}}
  \cup {[restricted |-> TRUE, topics |-> {"b"}, start_time |-> 0, end_time |-> MaxTime]}

Symmetry == Permutations(Threads)

=============================================================================
