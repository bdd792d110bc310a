------------------------------ MODULE TopicSet ------------------------------
(***************************************************************************)
(* CollectTopicSet: a pushed-down predicate on the topic column is turned  *)
(* into a finite set of topics to read.                                    *)
(*                                                                         *)
(* The recursion is a state machine as in TimeRange: topicFrames is the    *)
(* call stack, topicCall the innermost call, and the environment decides   *)
(* what each filter is when the call reaches it.  The parameter `out' is   *)
(* passed by reference in the code; topicCall.out is its value in the      *)
(* innermost call, before and after.  `fit' is what the predicate really   *)
(* accepts; no guard reads it.                                             *)
(***************************************************************************)
EXTENDS Integers, Sequences

CONSTANTS
  Topics,             \* topic names, in files and in filters
  MaxTopicDepth,      \* bound: nesting of conjunctions
  MaxTopicChildren    \* bound: children of one conjunction

ASSUME TopicSetAssumption ==
  MaxTopicDepth \in Nat /\ MaxTopicChildren \in Nat

VARIABLES
  topicFrames,    \* the conjunctions being evaluated, innermost last
  topicCall       \* the innermost call

topicVars == <<topicFrames, topicCall>>

\* An AND inserts into its own `out'; an OR collects into `local' first.
TopicFrameOf(op, out) ==
  [op |-> op, n |-> 0, any |-> FALSE, out |-> out, local |-> {},
   fit |-> IF op = "and" THEN Topics ELSE {}]

TopicState(at, out) == [at |-> at, ok |-> FALSE, out |-> out, fit |-> {}]
TopicReturn(ok, out, fit) == [at |-> "return", ok |-> ok, out |-> out, fit |-> fit]

TopicTop == topicFrames[Len(topicFrames)]
TopicPopped == SubSeq(topicFrames, 1, Len(topicFrames) - 1)

\* topic = constant, the constant not NULL.
TopicEquals(topic) ==
  /\ topicCall.at = "call"
  /\ topicCall' = TopicReturn(TRUE, topicCall.out \cup {topic}, {topic})
  /\ UNCHANGED topicFrames

\* Fault: TopicIn inserts the values before it meets a NULL.
TopicInEager(values, hasNull) ==
  /\ topicCall.at = "call"
  /\ topicCall' = TopicReturn(~hasNull, topicCall.out \cup values, values)
  /\ UNCHANGED topicFrames

\* topic IN (values), none of them NULL; one NULL makes it unrepresentable.
TopicIn(values, hasNull) ==
  /\ topicCall.at = "call"
  /\ topicCall' = TopicReturn(~hasNull,
                              IF hasNull THEN topicCall.out ELSE topicCall.out \cup values,
                              values)
  /\ UNCHANGED topicFrames

\* Any other comparison, a NULL constant, another kind of filter.
TopicOpaqueLeaf(fit) ==
  /\ topicCall.at = "call"
  /\ topicCall' = TopicReturn(FALSE, topicCall.out, fit)
  /\ UNCHANGED topicFrames

TopicDescend(op) ==
  /\ topicCall.at = "call"
  /\ Len(topicFrames) < MaxTopicDepth
  /\ topicFrames' = Append(topicFrames, TopicFrameOf(op, topicCall.out))
  /\ topicCall' = TopicState("loop", {})

\* The next child: an AND hands it a fresh set, an OR the set it collects in.
TopicNextChild ==
  /\ topicCall.at = "loop"
  /\ TopicTop.n < MaxTopicChildren
  /\ topicFrames' = [topicFrames EXCEPT ![Len(topicFrames)].n = @ + 1]
  /\ topicCall' = TopicState("call", IF TopicTop.op = "and" THEN {} ELSE TopicTop.local)

\* The child of an AND: its topics are added if it is representable.
TopicAndChild(frame, child) ==
  [frame EXCEPT
     !.any = @ \/ child.ok,
     !.out = IF child.ok THEN @ \cup child.out ELSE @,
     !.fit = @ \cap child.fit]

\* A representable child of an OR has inserted into `local'.
TopicOrChild(frame, child) ==
  [frame EXCEPT !.any = TRUE, !.local = child.out, !.fit = @ \cup child.fit]

TopicFoldAnd ==
  /\ topicCall.at = "return"
  /\ topicFrames # <<>>
  /\ TopicTop.op = "and"
  /\ topicFrames' = [topicFrames EXCEPT ![Len(topicFrames)] = TopicAndChild(@, topicCall)]
  /\ topicCall' = TopicState("loop", {})

TopicFoldOr ==
  /\ topicCall.at = "return"
  /\ topicFrames # <<>>
  /\ TopicTop.op = "or"
  /\ topicCall.ok
  /\ topicFrames' = [topicFrames EXCEPT ![Len(topicFrames)] = TopicOrChild(@, topicCall)]
  /\ topicCall' = TopicState("loop", {})

\* Fault: TopicOrGivesUp skips the unrepresentable branch, as an AND would.
TopicOrSkipsBranch(fit) ==
  /\ topicCall.at = "return"
  /\ topicFrames # <<>>
  /\ TopicTop.op = "or"
  /\ ~topicCall.ok
  /\ topicFrames' = [topicFrames EXCEPT ![Len(topicFrames)].fit = @ \cup topicCall.fit]
  /\ topicCall' = TopicState("loop", {})

\* An unrepresentable branch ends the OR; `local' is dropped, the remaining
\* children are not visited and accept something unknown.
TopicOrGivesUp(fit) ==
  /\ topicCall.at = "return"
  /\ topicFrames # <<>>
  /\ TopicTop.op = "or"
  /\ ~topicCall.ok
  /\ topicFrames' = TopicPopped
  /\ topicCall' = TopicReturn(FALSE, TopicTop.out, TopicTop.fit \cup topicCall.fit \cup fit)

\* All children were visited; an OR merges what it collected.
TopicEndChildren ==
  /\ topicCall.at = "loop"
  /\ topicFrames' = TopicPopped
  /\ topicCall' = TopicReturn(TopicTop.any, TopicTop.out \cup TopicTop.local, TopicTop.fit)

TopicStep ==
  \/ \E topic \in Topics : TopicEquals(topic)
  \/ \E values \in SUBSET Topics, hasNull \in BOOLEAN : TopicIn(values, hasNull)
  \/ \E fit \in SUBSET Topics : TopicOpaqueLeaf(fit)
  \/ \E op \in {"and", "or"} : TopicDescend(op)
  \/ TopicNextChild
  \/ TopicFoldAnd
  \/ TopicFoldOr
  \/ \E fit \in SUBSET Topics : TopicOrGivesUp(fit)
  \/ TopicEndChildren
-----------------------------------------------------------------------------
TopicFrame ==
  [op : {"and", "or"}, n : 0 .. MaxTopicChildren, any : BOOLEAN,
   out : SUBSET Topics, local : SUBSET Topics, fit : SUBSET Topics]

TopicCall ==
  [at : {"idle", "call", "loop", "return"}, ok : BOOLEAN,
   out : SUBSET Topics, fit : SUBSET Topics]

TopicTypeOK ==
  /\ topicFrames \in Seq(TopicFrame)
  /\ topicCall \in TopicCall
  /\ Len(topicFrames) <= MaxTopicDepth
  /\ topicCall.at = "loop" => topicFrames # <<>>

\* What the innermost call was handed in `out'.
HandedIn ==
  IF topicFrames = <<>> \/ TopicTop.op = "and" THEN {} ELSE TopicTop.local

\* A topic set returned with `true' holds every topic the predicate accepts
\* (pushdown.cpp:54-56).
TopicConservative ==
  topicCall.at = "return" /\ topicCall.ok => topicCall.fit \subseteq topicCall.out

\* A call that returns `false' leaves the caller's set as it was (pushdown.cpp:72
\* and 82-83): no stray topics from the children it visited before giving up.
TopicNoStray ==
  topicCall.at = "return" /\ ~topicCall.ok => topicCall.out = HandedIn

=============================================================================
