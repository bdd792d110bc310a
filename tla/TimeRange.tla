----------------------------- MODULE TimeRange ------------------------------
(***************************************************************************)
(* CollectTimeRange: a pushed-down predicate on the timestamp column is    *)
(* turned into one read window [start, end) of log times.                  *)
(*                                                                         *)
(* The C++ function descends recursively through a tree of filters.  Here  *)
(* the recursion is a state machine: timeFrames is the call stack of the   *)
(* AND and OR nodes being evaluated, timeCall is the innermost call, and   *)
(* the tree is not fixed in advance: whenever a call is entered the        *)
(* environment decides what kind of filter it finds there.  A behaviour is *)
(* the evaluation of one tree, and the behaviours cover all of them.       *)
(*                                                                         *)
(* Every frame and call also carries `fit', the log times whose displayed  *)
(* timestamp satisfies the part of the predicate seen so far.  No guard    *)
(* reads it; it is what the computed window is compared with.              *)
(***************************************************************************)
EXTENDS McapTime, Sequences

CONSTANTS
  LogTimes,       \* log times of the messages that may be in a file
  Nanos,          \* TIMESTAMP_NS values that occur as filter constants
  OpaqueFits,     \* what filters without a window may accept
  MaxDepth,       \* bound: nesting of conjunctions
  MaxChildren     \* bound: children of one conjunction

ASSUME TimeRangeAssumption ==
  /\ LogTimes \subseteq Times
  /\ Nanos \subseteq Int
  /\ \A n \in Nanos : n <= MaxNanos
  /\ OpaqueFits \subseteq SUBSET LogTimes
  /\ MaxDepth \in Nat
  /\ MaxChildren \in Nat

VARIABLES
  timeFrames,     \* the conjunctions being evaluated, innermost last
  timeCall        \* the innermost call: what it is doing and its result

timeVars == <<timeFrames, timeCall>>

Comparisons == {"=", ">", ">=", "<", "<="}

\* The log times whose displayed timestamp compares as stated with n.
Satisfying(op, n) ==
  {t \in LogTimes :
     CASE op = "="  -> ToTimestampNs(t) = n
       [] op = ">"  -> ToTimestampNs(t) > n
       [] op = ">=" -> ToTimestampNs(t) >= n
       [] op = "<"  -> ToTimestampNs(t) < n
       [] op = "<=" -> ToTimestampNs(t) <= n}

\* Fault: FilterNanos without the clamp of constants before the epoch.
FilterNanosUnclamped(n) == n

\* TimestampFilterValueToNanos, for a constant that converts.
FilterNanos(n) == IF n < 0 THEN 0 ELSE n

\* Fault: WindowStart does not widen an exclusive bound.
WindowStartUnwidened(op, n) == IF op \in {"=", ">", ">="} THEN FilterNanos(n) ELSE 0

\* Fault: WindowEnd treats the end of the window as inclusive.
WindowEndInclusive(op, n) == IF op \in {"=", "<", "<="} THEN FilterNanos(n) ELSE MaxTime

\* The window of one comparison: [start, end) is end-exclusive, so equality
\* and exclusive bounds are widened by one nanosecond.
WindowStart(op, n) ==
  CASE op \in {"=", ">="} -> FilterNanos(n)
    [] op = ">"           -> SatAddNanos(FilterNanos(n), 1)
    [] op \in {"<", "<="} -> 0

WindowEnd(op, n) ==
  CASE op \in {"=", "<="} -> SatAddNanos(FilterNanos(n), 1)
    [] op = "<"           -> FilterNanos(n)
    [] op \in {">", ">="} -> MaxTime

\* The two conjunctions as they start, before any child was visited.  `exact'
\* records that nothing was approximated so far: comparisons with constants
\* that need no clamping, combined by AND only.
AndFrame == [op |-> "and", n |-> 0, any |-> FALSE, lo |-> 0, hi |-> MaxTime,
             fit |-> LogTimes, exact |-> TRUE]
OrFrame  == [op |-> "or", n |-> 0, any |-> FALSE, lo |-> MaxTime, hi |-> 0,
             fit |-> {}, exact |-> FALSE]

\* at: "idle" no evaluation; "call" a filter is about to be inspected;
\* "loop" the innermost conjunction takes its next child; "return" a call
\* ended with ok, and when ok with a window.
TimeState(at) ==
  [at |-> at, ok |-> FALSE, start |-> 0, end |-> 0, fit |-> {}, exact |-> FALSE]
TimeReturn(start, end, fit, exact) ==
  [at |-> "return", ok |-> TRUE, start |-> start, end |-> end,
   fit |-> fit, exact |-> exact]
TimeGiveUp(fit) ==
  [at |-> "return", ok |-> FALSE, start |-> 0, end |-> 0, fit |-> fit, exact |-> FALSE]

TimeTop == timeFrames[Len(timeFrames)]
TimePopped == SubSeq(timeFrames, 1, Len(timeFrames) - 1)

\* A comparison of the column with a constant that converts to nanoseconds.
TimeComparison(op, n) ==
  /\ timeCall.at = "call"
  /\ timeCall' = TimeReturn(WindowStart(op, n), WindowEnd(op, n),
                            Satisfying(op, n), n >= 0)
  /\ UNCHANGED timeFrames

\* A leaf without a window: a constant that is NULL or does not convert, an
\* operator such as <>, or another kind of filter.  Its meaning is arbitrary.
TimeOpaqueLeaf(fit) ==
  /\ timeCall.at = "call"
  /\ timeCall' = TimeGiveUp(fit)
  /\ UNCHANGED timeFrames

\* A conjunction is entered.
TimeDescend(frame) ==
  /\ timeCall.at = "call"
  /\ Len(timeFrames) < MaxDepth
  /\ timeFrames' = Append(timeFrames, frame)
  /\ timeCall' = TimeState("loop")

\* The loop over child_filters: the next child is evaluated.
TimeNextChild ==
  /\ timeCall.at = "loop"
  /\ TimeTop.n < MaxChildren
  /\ timeFrames' = [timeFrames EXCEPT ![Len(timeFrames)].n = @ + 1]
  /\ timeCall' = TimeState("call")

\* The child of an AND came back: a window narrows the frame's, a child
\* without one is ignored.
AndChild(frame, child) ==
  [frame EXCEPT
     !.any   = @ \/ child.ok,
     !.lo    = IF child.ok /\ child.start > @ THEN child.start ELSE @,
     !.hi    = IF child.ok /\ child.end < @ THEN child.end ELSE @,
     !.fit   = @ \cap child.fit,
     !.exact = @ /\ child.ok /\ child.exact]

\* Fault: OrChild intersects its branches (the old behaviour, pushdown.cpp:180).
OrChildNarrows(frame, child) ==
  [frame EXCEPT
     !.any = TRUE,
     !.lo  = IF ~frame.any \/ child.start > @ THEN child.start ELSE @,
     !.hi  = IF ~frame.any \/ child.end < @ THEN child.end ELSE @,
     !.fit = @ \cup child.fit]

\* The child of an OR came back with a window: the frame takes the hull.
OrChild(frame, child) ==
  [frame EXCEPT
     !.any = TRUE,
     !.lo  = IF child.start < @ THEN child.start ELSE @,
     !.hi  = IF child.end > @ THEN child.end ELSE @,
     !.fit = @ \cup child.fit]

TimeFoldAnd ==
  /\ timeCall.at = "return"
  /\ timeFrames # <<>>
  /\ TimeTop.op = "and"
  /\ timeFrames' = [timeFrames EXCEPT ![Len(timeFrames)] = AndChild(@, timeCall)]
  /\ timeCall' = TimeState("loop")

TimeFoldOr ==
  /\ timeCall.at = "return"
  /\ timeFrames # <<>>
  /\ TimeTop.op = "or"
  /\ timeCall.ok
  /\ timeFrames' = [timeFrames EXCEPT ![Len(timeFrames)] = OrChild(@, timeCall)]
  /\ timeCall' = TimeState("loop")

\* One unbounded branch makes the whole OR unbounded: it returns false at
\* once.  What the unvisited children accept is unknown.
TimeOrGivesUp(fit) ==
  /\ timeCall.at = "return"
  /\ timeFrames # <<>>
  /\ TimeTop.op = "or"
  /\ ~timeCall.ok
  /\ timeFrames' = TimePopped
  /\ timeCall' = TimeGiveUp(TimeTop.fit \cup timeCall.fit \cup fit)

\* All children were visited.  An AND without a bounded child and an OR
\* without children return false.
TimeEndChildren ==
  /\ timeCall.at = "loop"
  /\ timeFrames' = TimePopped
  /\ timeCall' = IF TimeTop.any
                 THEN TimeReturn(TimeTop.lo, TimeTop.hi, TimeTop.fit, TimeTop.exact)
                 ELSE TimeGiveUp(TimeTop.fit)

TimeStep ==
  \/ \E op \in Comparisons, n \in Nanos : TimeComparison(op, n)
  \/ \E fit \in OpaqueFits : TimeOpaqueLeaf(fit)
  \/ TimeDescend(AndFrame)
  \/ TimeDescend(OrFrame)
  \/ TimeNextChild
  \/ TimeFoldAnd
  \/ TimeFoldOr
  \/ \E fit \in OpaqueFits : TimeOrGivesUp(fit)
  \/ TimeEndChildren
-----------------------------------------------------------------------------
TimeFrame ==
  [op : {"and", "or"}, n : 0 .. MaxChildren, any : BOOLEAN, lo : Times,
   hi : Times, fit : SUBSET LogTimes, exact : BOOLEAN]

TimeCall ==
  [at : {"idle", "call", "loop", "return"}, ok : BOOLEAN, start : Times,
   end : Times, fit : SUBSET LogTimes, exact : BOOLEAN]

TimeTypeOK ==
  /\ timeFrames \in Seq(TimeFrame)
  /\ timeCall \in TimeCall
  /\ Len(timeFrames) <= MaxDepth
  /\ timeCall.at = "loop" => timeFrames # <<>>

\* The log times the conversions are faithful for: shown unclamped, and not at
\* the epoch when filter constants before the epoch (clamped to 0) occur.
Representable ==
  {t \in LogTimes : /\ t <= MaxNanos
                    /\ t = 0 => \A n \in Nanos : n >= 0}

Covers(start, end, fit) == \A t \in fit : start <= t /\ t < end

\* A window that CollectTimeRange returns with `true' contains every
\* representable log time the predicate accepts (pushdown.hpp:31-33), whatever
\* the nesting of ANDs and ORs.
TimeConservative ==
  timeCall.at = "return" /\ timeCall.ok =>
    Covers(timeCall.start, timeCall.end, timeCall.fit \cap Representable)

\* A conjunction of comparisons is pushed down without slack: the window holds
\* no log time that the predicate rejects.
TimeExact ==
  timeCall.at = "return" /\ timeCall.ok /\ timeCall.exact =>
    \A t \in LogTimes :
      timeCall.start <= t /\ t < timeCall.end /\ t <= MaxNanos => t \in timeCall.fit

=============================================================================
