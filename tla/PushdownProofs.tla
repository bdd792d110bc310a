--------------------------- MODULE PushdownProofs ---------------------------
(***************************************************************************)
(* Proofs about Pushdown, for every value of its constants: every tree of  *)
(* filters of any depth and fan-out, every set of log times and constants. *)
(***************************************************************************)
EXTENDS Pushdown, SequenceTheorems, TLAPS

-----------------------------------------------------------------------------
(* Call stacks and the time conversions. *)

\* Leaving the innermost conjunction keeps the others as they are.
LEMMA PoppedStack ==
  ASSUME NEW S, NEW stack \in Seq(S), stack # <<>>,
         NEW popped, popped = SubSeq(stack, 1, Len(stack) - 1)
  PROVE  /\ popped \in Seq(S)
         /\ Len(popped) = Len(stack) - 1
         /\ \A i \in 1 .. Len(popped) : popped[i] = stack[i]
  <1>1. Len(stack) \in Nat /\ Len(stack) >= 1
    OBVIOUS
  <1>2. \A i \in 1 .. (Len(stack) - 1) : stack[i] \in S
    BY <1>1
  <1> DEFINE n == Len(stack) - 1
  <1>3. n \in Int /\ n >= 0 /\ 1 \in Int
    BY <1>1
  <1>4. /\ SubSeq(stack, 1, n) \in Seq(S)
        /\ Len(SubSeq(stack, 1, n)) = IF 1 <= n THEN n - 1 + 1 ELSE 0
        /\ \A i \in 1 .. n - 1 + 1 : SubSeq(stack, 1, n)[i] = stack[1 + i - 1]
    <2> HIDE DEF n
    <2> QED BY <1>2, <1>3, SubSeqProperties DEF n
  <1>5. Len(popped) = n /\ \A i \in 1 .. n : popped[i] = stack[i]
    <2>1. popped = SubSeq(stack, 1, n)
      OBVIOUS
    <2> HIDE DEF n
    <2>2. Len(popped) = n
      BY <2>1, <1>3, <1>4
    <2>3. ASSUME NEW i \in 1 .. n PROVE popped[i] = stack[i]
      <3>1. i \in 1 .. n - 1 + 1 /\ 1 + i - 1 = i
        BY <1>3
      <3> QED BY <2>1, <3>1, <1>4
    <2> QED BY <2>2, <2>3
  <1> QED BY <1>4, <1>5

\* SatAddNanos stays in range and never decreases: for a time it returns the
\* sum, or the largest time when the sum does not fit (pushdown.cpp:45-49).
LEMMA SatAddNanosBound ==
  ASSUME NEW t \in Times, NEW delta \in Times
  PROVE  /\ SatAddNanos(t, delta) \in Times
         /\ SatAddNanos(t, delta) >= t
         /\ SatAddNanos(t, delta) = t + delta \/ SatAddNanos(t, delta) = MaxTime
  BY TimeAssumption DEF SatAddNanos, Times

\* Times and log times are natural numbers.
LEMMA TimesAreNat ==
  /\ \A t \in Times : t \in Nat
  /\ \A t \in LogTimes : t \in Nat
  BY TimeAssumption, TimeRangeAssumption DEF Times

\* The window of a comparison is a pair of times.
LEMMA WindowInTimes ==
  ASSUME NEW op \in Comparisons, NEW n \in Nanos
  PROVE  WindowStart(op, n) \in Times /\ WindowEnd(op, n) \in Times
  <1>1. FilterNanos(n) \in Times /\ n \in Int /\ n <= MaxNanos
    BY TimeAssumption, TimeRangeAssumption DEF FilterNanos, Times
  <1>2. SatAddNanos(FilterNanos(n), 1) \in Times
    BY <1>1, TimeAssumption DEF SatAddNanos, Times
  <1>3. 0 \in Times /\ MaxTime \in Times
    BY TimeAssumption DEF Times
  <1> QED BY <1>1, <1>2, <1>3 DEF WindowStart, WindowEnd, Comparisons

\* A comparison's window contains every representable time it accepts.
LEMMA WindowCovers ==
  ASSUME NEW op \in Comparisons, NEW n \in Nanos
  PROVE  Covers(WindowStart(op, n), WindowEnd(op, n), Satisfying(op, n) \cap Representable)
  <1> SUFFICES ASSUME NEW t \in Satisfying(op, n) \cap Representable
               PROVE  WindowStart(op, n) <= t /\ t < WindowEnd(op, n)
    BY DEF Covers
  <1>1. /\ t \in Times /\ t <= MaxNanos /\ (t = 0 => n >= 0)
        /\ n \in Int /\ n <= MaxNanos
    BY TimeRangeAssumption DEF Representable
  <1>2. t \in Nat /\ MaxTime \in Nat /\ MaxNanos \in Nat /\ MaxNanos < MaxTime
    BY <1>1, TimeAssumption DEF Times
  <1>3. ToTimestampNs(t) = t
    BY <1>1, <1>2 DEF ToTimestampNs
  <1>4. CASE op = "="
    <2>1. t = n
      BY <1>3, <1>4 DEF Satisfying
    <2>2. WindowStart(op, n) = FilterNanos(n) /\ WindowEnd(op, n) = SatAddNanos(FilterNanos(n), 1)
      BY <1>4 DEF WindowStart, WindowEnd
    <2> QED BY <2>1, <2>2, <1>1, <1>2 DEF FilterNanos, SatAddNanos
  <1>5. CASE op = ">"
    <2>1. t > n
      BY <1>3, <1>5 DEF Satisfying
    <2>2. WindowStart(op, n) = SatAddNanos(FilterNanos(n), 1) /\ WindowEnd(op, n) = MaxTime
      BY <1>5 DEF WindowStart, WindowEnd
    <2> QED BY <2>1, <2>2, <1>1, <1>2 DEF FilterNanos, SatAddNanos
  <1>6. CASE op = ">="
    <2>1. t >= n
      BY <1>3, <1>6 DEF Satisfying
    <2>2. WindowStart(op, n) = FilterNanos(n) /\ WindowEnd(op, n) = MaxTime
      BY <1>6 DEF WindowStart, WindowEnd
    <2> QED BY <2>1, <2>2, <1>1, <1>2 DEF FilterNanos
  <1>7. CASE op = "<"
    <2>1. t < n
      BY <1>3, <1>7 DEF Satisfying
    <2>2. WindowStart(op, n) = 0 /\ WindowEnd(op, n) = FilterNanos(n)
      BY <1>7 DEF WindowStart, WindowEnd
    <2> QED BY <2>1, <2>2, <1>1, <1>2 DEF FilterNanos
  <1>8. CASE op = "<="
    <2>1. t <= n
      BY <1>3, <1>8 DEF Satisfying
    <2>2. WindowStart(op, n) = 0 /\ WindowEnd(op, n) = SatAddNanos(FilterNanos(n), 1)
      BY <1>8 DEF WindowStart, WindowEnd
    <2> QED BY <2>1, <2>2, <1>1, <1>2 DEF FilterNanos, SatAddNanos
  <1> QED BY <1>4, <1>5, <1>6, <1>7, <1>8 DEF Comparisons

\* A comparison with a constant at or after the epoch has a window without
\* slack: every unclamped time in it is accepted.
LEMMA WindowExact ==
  ASSUME NEW op \in Comparisons, NEW n \in Nanos, n >= 0, NEW t \in LogTimes,
         WindowStart(op, n) <= t, t < WindowEnd(op, n), t <= MaxNanos
  PROVE  t \in Satisfying(op, n)
  <1>1. /\ t \in Nat /\ MaxTime \in Nat /\ MaxNanos \in Nat /\ MaxNanos < MaxTime
        /\ n \in Int /\ n <= MaxNanos
    BY TimeAssumption, TimeRangeAssumption DEF Times
  <1>2. ToTimestampNs(t) = t /\ FilterNanos(n) = n /\ SatAddNanos(n, 1) = n + 1
    BY <1>1 DEF ToTimestampNs, FilterNanos, SatAddNanos
  <1>3. CASE op = "="
    BY <1>1, <1>2, <1>3 DEF WindowStart, WindowEnd, Satisfying
  <1>4. CASE op = ">"
    BY <1>1, <1>2, <1>4 DEF WindowStart, WindowEnd, Satisfying
  <1>5. CASE op = ">="
    BY <1>1, <1>2, <1>5 DEF WindowStart, WindowEnd, Satisfying
  <1>6. CASE op = "<"
    BY <1>1, <1>2, <1>6 DEF WindowStart, WindowEnd, Satisfying
  <1>7. CASE op = "<="
    BY <1>1, <1>2, <1>7 DEF WindowStart, WindowEnd, Satisfying
  <1> QED BY <1>3, <1>4, <1>5, <1>6, <1>7 DEF Comparisons

-----------------------------------------------------------------------------
(* The descent through one timestamp filter.                               *)
(*                                                                         *)
(* TimeConservative speaks of the call that returns; the inductive         *)
(* invariant says the same of every conjunction on the call stack.         *)

TimeFrameOK(f) ==
  /\ Covers(f.lo, f.hi, f.fit \cap Representable)
  /\ f.exact => /\ f.op = "and"
                /\ \A t \in LogTimes : f.lo <= t /\ t < f.hi /\ t <= MaxNanos => t \in f.fit

TimeInv ==
  /\ TimeTypeOK
  /\ \A i \in 1 .. Len(timeFrames) : TimeFrameOK(timeFrames[i])
  /\ TimeConservative
  /\ TimeExact

\* A new conjunction has visited no child: an AND accepts all times in the
\* full window, an OR accepts none.
LEMMA NewTimeFrames ==
  \A f \in {AndFrame, OrFrame} : f \in TimeFrame /\ TimeFrameOK(f)
  <1>1. AndFrame \in TimeFrame /\ OrFrame \in TimeFrame
    BY TimeAssumption, TimeRangeAssumption DEF AndFrame, OrFrame, TimeFrame, Times
  <1>2. TimeFrameOK(AndFrame)
    BY TimeAssumption, TimeRangeAssumption
    DEF AndFrame, TimeFrameOK, Covers, Representable, Times
  <1>3. TimeFrameOK(OrFrame)
    BY DEF OrFrame, TimeFrameOK, Covers
  <1> QED BY <1>1, <1>2, <1>3

\* Folding a child into an AND keeps the frame's window around what the frame
\* accepts: a child without a window only makes it accept less.
LEMMA AndChildOK ==
  ASSUME NEW f \in TimeFrame, NEW c \in TimeCall, TimeFrameOK(f), f.op = "and",
         c.ok => Covers(c.start, c.end, c.fit \cap Representable),
         c.ok /\ c.exact => \A t \in LogTimes :
           c.start <= t /\ t < c.end /\ t <= MaxNanos => t \in c.fit
  PROVE  AndChild(f, c) \in TimeFrame /\ TimeFrameOK(AndChild(f, c))
  <1> DEFINE g == AndChild(f, c)
  <1>1. /\ f.lo \in Times /\ f.hi \in Times /\ c.start \in Times /\ c.end \in Times
        /\ f.fit \in SUBSET LogTimes /\ c.fit \in SUBSET LogTimes
        /\ f.exact \in BOOLEAN /\ c.exact \in BOOLEAN /\ c.ok \in BOOLEAN /\ f.any \in BOOLEAN
    BY DEF TimeFrame, TimeCall
  <1>2. /\ g.op = "and" /\ g.n = f.n
        /\ g.any = (f.any \/ c.ok)
        /\ g.lo = (IF c.ok /\ c.start > f.lo THEN c.start ELSE f.lo)
        /\ g.hi = (IF c.ok /\ c.end < f.hi THEN c.end ELSE f.hi)
        /\ g.fit = f.fit \cap c.fit
        /\ g.exact = (f.exact /\ c.ok /\ c.exact)
    BY DEF AndChild, TimeFrame
  <1>3. g \in TimeFrame
    <2>1. /\ (f.any \/ c.ok) \in BOOLEAN /\ f.fit \cap c.fit \in SUBSET LogTimes
          /\ (IF c.ok /\ c.start > f.lo THEN c.start ELSE f.lo) \in Times
          /\ (IF c.ok /\ c.end < f.hi THEN c.end ELSE f.hi) \in Times
          /\ (f.exact /\ c.ok /\ c.exact) \in BOOLEAN
      BY <1>1
    <2> QED BY <2>1 DEF AndChild, TimeFrame
  <1>4. Covers(g.lo, g.hi, g.fit \cap Representable)
    BY <1>1, <1>2 DEF TimeFrameOK, Covers
  <1>5. ASSUME g.exact, NEW t \in LogTimes, g.lo <= t, t < g.hi, t <= MaxNanos
        PROVE  t \in g.fit
    <2>1. f.exact /\ c.ok /\ c.exact
      BY <1>2, <1>5
    <2>2. t \in Nat /\ f.lo \in Nat /\ f.hi \in Nat /\ c.start \in Nat /\ c.end \in Nat
      BY <1>1, TimesAreNat
    <2>3. f.lo <= t /\ t < f.hi /\ c.start <= t /\ t < c.end
      BY <1>2, <1>5, <2>1, <2>2
    <2>4. t \in f.fit
      BY <1>5, <2>1, <2>3 DEF TimeFrameOK
    <2>5. t \in c.fit
      BY <1>5, <2>1, <2>3
    <2> QED BY <1>2, <2>4, <2>5
  <1> QED BY <1>2, <1>3, <1>4, <1>5 DEF TimeFrameOK

\* Folding a bounded child into an OR: the hull contains both windows.
LEMMA OrChildOK ==
  ASSUME NEW f \in TimeFrame, NEW c \in TimeCall, TimeFrameOK(f), f.op = "or",
         Covers(c.start, c.end, c.fit \cap Representable)
  PROVE  OrChild(f, c) \in TimeFrame /\ TimeFrameOK(OrChild(f, c))
  <1> DEFINE g == OrChild(f, c)
  <1>1. /\ f.lo \in Times /\ f.hi \in Times /\ c.start \in Times /\ c.end \in Times
        /\ f.fit \in SUBSET LogTimes /\ c.fit \in SUBSET LogTimes
    BY DEF TimeFrame, TimeCall
  <1>2. /\ g.op = "or" /\ g.n = f.n
        /\ g.lo = (IF c.start < f.lo THEN c.start ELSE f.lo)
        /\ g.hi = (IF c.end > f.hi THEN c.end ELSE f.hi)
        /\ g.fit = f.fit \cup c.fit
        /\ g.exact = f.exact
    BY DEF OrChild, TimeFrame
  <1>3. g \in TimeFrame
    BY <1>1 DEF OrChild, TimeFrame
  <1>4. Covers(g.lo, g.hi, g.fit \cap Representable)
    <2> SUFFICES ASSUME NEW t \in g.fit \cap Representable
                 PROVE  g.lo <= t /\ t < g.hi
      BY DEF Covers
    <2>1. \/ f.lo <= t /\ t < f.hi
          \/ c.start <= t /\ t < c.end
      BY <1>2 DEF TimeFrameOK, Covers
    <2>2. t \in Nat /\ f.lo \in Nat /\ f.hi \in Nat /\ c.start \in Nat /\ c.end \in Nat
      BY <1>1, TimesAreNat DEF Representable
    <2> QED BY <1>2, <2>1, <2>2
  <1>5. ~f.exact
    BY DEF TimeFrameOK
  <1> QED BY <1>2, <1>3, <1>4, <1>5 DEF TimeFrameOK

\* Every step of the evaluation preserves the invariant.
LEMMA TimeStepInv == TimeInv /\ TimeStep => TimeInv'
  <1> SUFFICES ASSUME TimeInv, TimeStep PROVE TimeInv'
    OBVIOUS
  <1> USE DEF TimeInv
  <1>0. /\ timeFrames \in Seq(TimeFrame) /\ timeCall \in TimeCall
        /\ Len(timeFrames) \in Nat /\ Len(timeFrames) <= MaxDepth
        /\ timeFrames # <<>> => /\ Len(timeFrames) \in 1 .. Len(timeFrames)
                                /\ TimeTop \in TimeFrame /\ TimeFrameOK(TimeTop)
    BY DEF TimeTypeOK, TimeTop
  <1>call. ASSUME NEW at \in {"idle", "call", "loop"}, timeCall' = TimeState(at)
           PROVE  timeCall' \in TimeCall /\ timeCall'.at = at /\ TimeConservative' /\ TimeExact'
    BY <1>call, TimeAssumption DEF TimeState, TimeCall, Times, TimeConservative, TimeExact
  <1>pop. ASSUME timeFrames # <<>>, timeFrames' = TimePopped
          PROVE  /\ timeFrames' \in Seq(TimeFrame) /\ Len(timeFrames') <= MaxDepth
                 /\ \A i \in 1 .. Len(timeFrames') : TimeFrameOK(timeFrames'[i])
    <2>1. /\ Len(timeFrames') = Len(timeFrames) - 1
          /\ \A i \in 1 .. Len(timeFrames') : timeFrames'[i] = timeFrames[i]
          /\ timeFrames' \in Seq(TimeFrame)
      BY <1>0, <1>pop, PoppedStack DEF TimePopped
    <2>2. Len(timeFrames') <= MaxDepth /\ 1 .. Len(timeFrames') \subseteq 1 .. Len(timeFrames)
      BY <2>1, <1>0, TimeRangeAssumption
    <2> QED BY <2>1, <2>2
  <1>top. ASSUME NEW f \in TimeFrame, timeFrames # <<>>, TimeFrameOK(f),
                 timeFrames' = [timeFrames EXCEPT ![Len(timeFrames)] = f]
          PROVE  /\ timeFrames' \in Seq(TimeFrame) /\ Len(timeFrames') <= MaxDepth
                 /\ timeFrames' # <<>>
                 /\ \A i \in 1 .. Len(timeFrames') : TimeFrameOK(timeFrames'[i])
    <2>1. /\ Len(timeFrames') = Len(timeFrames)
          /\ \A i \in 1 .. Len(timeFrames') :
               timeFrames'[i] = IF i = Len(timeFrames) THEN f ELSE timeFrames[i]
          /\ timeFrames' \in Seq(TimeFrame)
          /\ timeFrames' # <<>>
      BY <1>0, <1>top
    <2> QED BY <2>1, <1>0, <1>top
  <1>giveup. ASSUME NEW fit \in SUBSET LogTimes, timeCall' = TimeGiveUp(fit)
             PROVE  timeCall' \in TimeCall /\ timeCall'.at = "return" /\ TimeConservative' /\ TimeExact'
    BY <1>giveup, TimeAssumption
    DEF TimeGiveUp, TimeCall, Times, TimeConservative, TimeExact
  <1>1. ASSUME NEW op \in Comparisons, NEW n \in Nanos, TimeComparison(op, n) PROVE TimeInv'
    <2>1. /\ timeCall'.at = "return" /\ timeCall'.start = WindowStart(op, n)
          /\ timeCall'.end = WindowEnd(op, n) /\ timeCall'.fit = Satisfying(op, n)
          /\ timeCall'.exact = (n >= 0) /\ UNCHANGED timeFrames
          /\ timeCall' = TimeReturn(WindowStart(op, n), WindowEnd(op, n), Satisfying(op, n), n >= 0)
      BY <1>1 DEF TimeComparison, TimeReturn
    <2>2. Satisfying(op, n) \in SUBSET LogTimes
      BY DEF Satisfying
    <2>3. timeCall' \in TimeCall
      BY <2>1, <2>2, WindowInTimes DEF TimeReturn, TimeCall
    <2>4. TimeConservative'
      BY <2>1, WindowCovers DEF TimeConservative
    <2>5. TimeExact'
      BY <2>1, WindowExact DEF TimeExact
    <2> QED BY <2>1, <2>3, <2>4, <2>5 DEF TimeTypeOK
  <1>2. ASSUME NEW fit \in OpaqueFits, TimeOpaqueLeaf(fit) PROVE TimeInv'
    <2>1. fit \in SUBSET LogTimes
      BY TimeRangeAssumption
    <2> QED BY <1>2, <2>1, <1>giveup DEF TimeOpaqueLeaf, TimeTypeOK
  <1>3. ASSUME NEW f \in {AndFrame, OrFrame}, TimeDescend(f) PROVE TimeInv'
    <2>1. f \in TimeFrame /\ TimeFrameOK(f)
      BY NewTimeFrames
    <2>2. /\ timeFrames' = Append(timeFrames, f)
          /\ timeCall' = TimeState("loop")
          /\ Len(timeFrames) < MaxDepth
      BY <1>3 DEF TimeDescend
    <2>3. /\ timeFrames' \in Seq(TimeFrame)
          /\ Len(timeFrames') = Len(timeFrames) + 1
          /\ timeFrames' # <<>>
          /\ \A i \in 1 .. Len(timeFrames') :
               timeFrames'[i] = IF i = Len(timeFrames) + 1 THEN f ELSE timeFrames[i]
      BY <2>1, <2>2, <1>0
    <2>4. Len(timeFrames') <= MaxDepth
      BY <2>2, <2>3, <1>0, TimeRangeAssumption
    <2>5. \A i \in 1 .. Len(timeFrames') : TimeFrameOK(timeFrames'[i])
      BY <2>1, <2>3, <1>0
    <2> QED BY <2>2, <2>3, <2>4, <2>5, <1>call DEF TimeTypeOK
  <1>4. CASE TimeNextChild
    <2> DEFINE f == [TimeTop EXCEPT !.n = @ + 1]
    <2>1. timeFrames # <<>> /\ TimeTop.n < MaxChildren
      BY <1>4 DEF TimeNextChild, TimeTypeOK
    <2>2. f \in TimeFrame /\ TimeFrameOK(f)
      BY <1>0, <2>1, TimeRangeAssumption DEF TimeFrame, TimeFrameOK
    <2>3. timeFrames' = [timeFrames EXCEPT ![Len(timeFrames)] = f]
      BY <1>0, <1>4, <2>1 DEF TimeNextChild, TimeTop
    <2>4. timeCall' = TimeState("call")
      BY <1>4 DEF TimeNextChild
    <2> QED BY <1>top, <1>call, <2>1, <2>2, <2>3, <2>4 DEF TimeTypeOK
  <1>5. CASE TimeFoldAnd
    <2> DEFINE f == AndChild(TimeTop, timeCall)
    <2>1. timeFrames # <<>> /\ TimeTop.op = "and" /\ timeCall.at = "return"
      BY <1>5 DEF TimeFoldAnd
    <2>2. f \in TimeFrame /\ TimeFrameOK(f)
      BY <1>0, <2>1, AndChildOK DEF TimeConservative, TimeExact
    <2>3. timeFrames' = [timeFrames EXCEPT ![Len(timeFrames)] = f]
      BY <1>5 DEF TimeFoldAnd, TimeTop
    <2>4. timeCall' = TimeState("loop")
      BY <1>5 DEF TimeFoldAnd
    <2> QED BY <1>top, <1>call, <2>1, <2>2, <2>3, <2>4 DEF TimeTypeOK
  <1>6. CASE TimeFoldOr
    <2> DEFINE f == OrChild(TimeTop, timeCall)
    <2>1. timeFrames # <<>> /\ TimeTop.op = "or" /\ timeCall.at = "return" /\ timeCall.ok
      BY <1>6 DEF TimeFoldOr
    <2>2. f \in TimeFrame /\ TimeFrameOK(f)
      BY <1>0, <2>1, OrChildOK DEF TimeConservative
    <2>3. timeFrames' = [timeFrames EXCEPT ![Len(timeFrames)] = f]
      BY <1>6 DEF TimeFoldOr, TimeTop
    <2>4. timeCall' = TimeState("loop")
      BY <1>6 DEF TimeFoldOr
    <2> QED BY <1>top, <1>call, <2>1, <2>2, <2>3, <2>4 DEF TimeTypeOK
  <1>7. ASSUME NEW fit \in OpaqueFits, TimeOrGivesUp(fit) PROVE TimeInv'
    <2>1. TimeTop.fit \cup timeCall.fit \cup fit \in SUBSET LogTimes
      BY <1>0, <1>7, TimeRangeAssumption DEF TimeOrGivesUp, TimeFrame, TimeCall
    <2> QED BY <1>7, <2>1, <1>pop, <1>giveup DEF TimeOrGivesUp, TimeTypeOK
  <1>8. CASE TimeEndChildren
    <2>1. timeFrames # <<>> /\ timeFrames' = TimePopped
      BY <1>8 DEF TimeEndChildren, TimeTypeOK
    <2>2. CASE ~TimeTop.any
      <3>1. timeCall' = TimeGiveUp(TimeTop.fit) /\ TimeTop.fit \in SUBSET LogTimes
        BY <1>0, <1>8, <2>1, <2>2 DEF TimeEndChildren, TimeFrame
      <3> QED BY <2>1, <3>1, <1>pop, <1>giveup DEF TimeTypeOK
    <2>3. CASE TimeTop.any
      <3>1. timeCall' = TimeReturn(TimeTop.lo, TimeTop.hi, TimeTop.fit, TimeTop.exact)
        BY <1>8, <2>3 DEF TimeEndChildren
      <3>2. timeCall' \in TimeCall /\ timeCall'.at = "return"
        BY <1>0, <2>1, <3>1 DEF TimeReturn, TimeCall, TimeFrame
      <3>3. TimeConservative' /\ TimeExact'
        BY <1>0, <2>1, <3>1 DEF TimeReturn, TimeFrameOK, TimeConservative, TimeExact
      <3> QED BY <2>1, <3>2, <3>3, <1>pop DEF TimeTypeOK
    <2> QED BY <2>2, <2>3
  <1> QED BY <1>1, <1>2, <1>3, <1>4, <1>5, <1>6, <1>7, <1>8 DEF TimeStep

-----------------------------------------------------------------------------
(* The descent through one topic filter.                                   *)
(*                                                                         *)
(* An OR has collected what its children accept; an AND with a             *)
(* representable child has inserted what it accepts.  TopicNoStray needs,  *)
(* for every conjunction that may still return `false', that its `out' is  *)
(* what it was handed by the conjunction below it.                         *)

Handed(frames, i) ==
  IF i = 1 \/ frames[i - 1].op = "and" THEN {} ELSE frames[i - 1].local

Untouched(f) == f.op = "or" \/ ~f.any

TopicFrameOK(f, handed) ==
  /\ f.op = "and" => f.local = {} /\ (f.any => f.fit \subseteq f.out)
  /\ f.op = "or" => f.fit \subseteq f.local /\ (~f.any => f.local = {})
  /\ handed \subseteq f.out
  /\ Untouched(f) => f.out = handed

\* A call never removes a topic from the set it was handed.
OnlyAdds == topicCall.at = "return" => HandedIn \subseteq topicCall.out

TopicInv ==
  /\ TopicTypeOK
  /\ \A i \in 1 .. Len(topicFrames) :
       TopicFrameOK(topicFrames[i], Handed(topicFrames, i))
  /\ topicCall.at = "call" => topicCall.out = HandedIn
  /\ OnlyAdds
  /\ TopicConservative
  /\ TopicNoStray

\* Every step of the evaluation preserves the invariant.
LEMMA TopicStepInv == TopicInv /\ TopicStep => TopicInv'
  <1> SUFFICES ASSUME TopicInv, TopicStep PROVE TopicInv'
    OBVIOUS
  <1> USE DEF TopicInv
  <1>0. /\ topicFrames \in Seq(TopicFrame) /\ topicCall \in TopicCall
        /\ Len(topicFrames) \in Nat /\ Len(topicFrames) <= MaxTopicDepth
        /\ MaxTopicDepth \in Nat /\ MaxTopicChildren \in Nat
        /\ topicFrames # <<>> => /\ Len(topicFrames) \in 1 .. Len(topicFrames)
                                 /\ Len(topicFrames) >= 1
                                 /\ TopicTop \in TopicFrame
                                 /\ TopicFrameOK(TopicTop, Handed(topicFrames, Len(topicFrames)))
    BY TopicSetAssumption DEF TopicTypeOK, TopicTop
  <1>handed. HandedIn = Handed(topicFrames, Len(topicFrames) + 1)
    BY <1>0 DEF HandedIn, Handed, TopicTop
  <1>loop. ASSUME topicCall' = TopicState("loop", {})
           PROVE  /\ topicCall' \in TopicCall /\ topicCall'.at = "loop"
                  /\ TopicConservative' /\ TopicNoStray' /\ OnlyAdds'
    BY <1>loop DEF TopicState, TopicCall, TopicConservative, TopicNoStray, OnlyAdds
  <1>leaf. ASSUME topicCall.at = "call", UNCHANGED topicFrames,
                  NEW ok \in BOOLEAN, NEW out \in SUBSET Topics, NEW fit \in SUBSET Topics,
                  topicCall' = TopicReturn(ok, out, fit),
                  ok => fit \subseteq out, ~ok => out = topicCall.out,
                  topicCall.out \subseteq out
           PROVE  TopicInv'
    <2>1. /\ topicCall' \in TopicCall /\ topicCall'.at = "return"
          /\ topicCall'.ok = ok /\ topicCall'.out = out /\ topicCall'.fit = fit
      BY <1>leaf DEF TopicReturn, TopicCall
    <2>2. HandedIn' = HandedIn /\ \A i \in 1 .. Len(topicFrames) : Handed(topicFrames', i) = Handed(topicFrames, i)
      BY <1>leaf DEF HandedIn, Handed, TopicTop
    <2>3. TopicConservative' /\ TopicNoStray' /\ OnlyAdds'
      BY <1>leaf, <2>1, <2>2 DEF TopicConservative, TopicNoStray, OnlyAdds
    <2> QED BY <1>leaf, <2>1, <2>2, <2>3 DEF TopicTypeOK
  <1>pop. ASSUME topicFrames # <<>>, topicFrames' = TopicPopped
          PROVE  /\ topicFrames' \in Seq(TopicFrame) /\ Len(topicFrames') <= MaxTopicDepth
                 /\ \A i \in 1 .. Len(topicFrames') :
                      TopicFrameOK(topicFrames'[i], Handed(topicFrames', i))
                 /\ HandedIn' = Handed(topicFrames, Len(topicFrames))
    <2>1. /\ topicFrames' \in Seq(TopicFrame)
          /\ Len(topicFrames') = Len(topicFrames) - 1
          /\ \A i \in 1 .. Len(topicFrames') : topicFrames'[i] = topicFrames[i]
      BY <1>0, <1>pop, PoppedStack DEF TopicPopped
    <2>2. \A i \in 1 .. Len(topicFrames) : Handed(topicFrames', i) = Handed(topicFrames, i)
      BY <2>1, <1>0 DEF Handed
    <2>3. HandedIn' = Handed(topicFrames', Len(topicFrames') + 1)
      BY <2>1, <1>0 DEF HandedIn, Handed, TopicTop
    <2>4. Len(topicFrames') + 1 = Len(topicFrames)
      BY <2>1, <1>0
    <2> QED BY <2>1, <2>2, <2>3, <2>4, <1>0, <1>pop
  <1>top. ASSUME NEW f \in TopicFrame, topicFrames # <<>>,
                 TopicFrameOK(f, Handed(topicFrames, Len(topicFrames))),
                 topicFrames' = [topicFrames EXCEPT ![Len(topicFrames)] = f]
          PROVE  /\ topicFrames' \in Seq(TopicFrame) /\ Len(topicFrames') <= MaxTopicDepth
                 /\ topicFrames' # <<>> /\ TopicTop' = f
                 /\ \A i \in 1 .. Len(topicFrames') :
                      TopicFrameOK(topicFrames'[i], Handed(topicFrames', i))
    <2>1. /\ Len(topicFrames') = Len(topicFrames)
          /\ \A i \in 1 .. Len(topicFrames') :
               topicFrames'[i] = IF i = Len(topicFrames) THEN f ELSE topicFrames[i]
          /\ topicFrames' \in Seq(TopicFrame)
          /\ topicFrames' # <<>>
      BY <1>0, <1>top
    <2>2. \A i \in 1 .. Len(topicFrames) : Handed(topicFrames', i) = Handed(topicFrames, i)
      <3> SUFFICES ASSUME NEW i \in 2 .. Len(topicFrames)
                   PROVE  topicFrames'[i - 1] = topicFrames[i - 1]
        BY <1>0 DEF Handed
      <3>1. i - 1 \in 1 .. Len(topicFrames) /\ i - 1 # Len(topicFrames)
        BY <1>0
      <3> QED BY <2>1, <3>1
    <2> QED BY <2>1, <2>2, <1>0, <1>top DEF TopicTop
  <1>1. ASSUME NEW topic \in Topics, TopicEquals(topic) PROVE TopicInv'
    <2>1. topicCall.out \cup {topic} \in SUBSET Topics /\ {topic} \in SUBSET Topics
      BY <1>0 DEF TopicCall
    <2> QED BY <1>1, <2>1, <1>leaf DEF TopicEquals
  <1>2. ASSUME NEW values \in SUBSET Topics, NEW hasNull \in BOOLEAN, TopicIn(values, hasNull)
        PROVE  TopicInv'
    <2>1. CASE hasNull
      BY <1>0, <1>2, <1>leaf, <2>1 DEF TopicIn, TopicCall
    <2>2. CASE ~hasNull
      <3>1. topicCall.out \cup values \in SUBSET Topics
        BY <1>0 DEF TopicCall
      <3>2. /\ topicCall.at = "call" /\ UNCHANGED topicFrames
            /\ topicCall' = TopicReturn(TRUE, topicCall.out \cup values, values)
        BY <1>2, <2>2 DEF TopicIn
      <3> QED BY <3>1, <3>2, <1>leaf
    <2> QED BY <2>1, <2>2
  <1>3. ASSUME NEW fit \in SUBSET Topics, TopicOpaqueLeaf(fit) PROVE TopicInv'
    BY <1>0, <1>3, <1>leaf DEF TopicOpaqueLeaf, TopicCall
  <1>4. ASSUME NEW op \in {"and", "or"}, TopicDescend(op) PROVE TopicInv'
    <2> DEFINE f == TopicFrameOf(op, topicCall.out)
    <2>1. f \in TopicFrame /\ TopicFrameOK(f, topicCall.out)
      BY <1>0 DEF TopicFrameOf, TopicFrame, TopicFrameOK, TopicCall, Untouched
    <2>2. /\ topicFrames' = Append(topicFrames, f)
          /\ topicCall' = TopicState("loop", {})
          /\ Len(topicFrames) < MaxTopicDepth
          /\ topicCall.out = HandedIn
      BY <1>4 DEF TopicDescend
    <2> HIDE DEF f
    <2>3. /\ topicFrames' \in Seq(TopicFrame)
          /\ Len(topicFrames') = Len(topicFrames) + 1
          /\ topicFrames' # <<>>
          /\ \A i \in 1 .. Len(topicFrames') :
               topicFrames'[i] = IF i = Len(topicFrames) + 1 THEN f ELSE topicFrames[i]
      BY <2>1, <2>2, <1>0
    <2>4. \A i \in 1 .. Len(topicFrames') : Handed(topicFrames', i) = Handed(topicFrames, i)
      BY <2>3, <1>0 DEF Handed
    <2>5. \A i \in 1 .. Len(topicFrames') :
            TopicFrameOK(topicFrames'[i], Handed(topicFrames', i))
      BY <2>1, <2>2, <2>3, <2>4, <1>0, <1>handed
    <2>6. Len(topicFrames') <= MaxTopicDepth
      BY <2>2, <2>3, <1>0
    <2> QED BY <2>2, <2>3, <2>5, <2>6, <1>loop DEF TopicTypeOK
  <1>5. CASE TopicNextChild
    <2> DEFINE f == [TopicTop EXCEPT !.n = @ + 1]
    <2>1. topicFrames # <<>> /\ TopicTop.n < MaxTopicChildren
      BY <1>5 DEF TopicNextChild, TopicTypeOK
    <2>top. TopicTop \in TopicFrame /\ TopicTop.n + 1 \in 0 .. MaxTopicChildren
      BY <1>0, <2>1 DEF TopicFrame
    <2>any. f.any = TopicTop.any
      BY <2>top DEF TopicFrame
    <2>2. /\ f \in TopicFrame /\ f.out = TopicTop.out /\ f.fit = TopicTop.fit
          /\ f.op = TopicTop.op /\ f.local = TopicTop.local
          /\ f.any = TopicTop.any
      BY <2>any, <2>top DEF TopicFrame
    <2>3. topicFrames' = [topicFrames EXCEPT ![Len(topicFrames)] = f]
      BY <1>0, <1>5, <2>1 DEF TopicNextChild, TopicTop
    <2>4. topicCall' = TopicState("call", IF TopicTop.op = "and" THEN {} ELSE TopicTop.local)
      BY <1>5 DEF TopicNextChild
    <2> HIDE DEF f
    <2>5. TopicFrameOK(f, Handed(topicFrames, Len(topicFrames)))
      BY <1>0, <2>1, <2>2 DEF Untouched, TopicFrameOK
    <2>6. /\ topicFrames' \in Seq(TopicFrame) /\ Len(topicFrames') <= MaxTopicDepth
          /\ topicFrames' # <<>> /\ TopicTop' = f
          /\ \A i \in 1 .. Len(topicFrames') :
               TopicFrameOK(topicFrames'[i], Handed(topicFrames', i))
      BY <1>top, <2>1, <2>2, <2>3, <2>5
    <2>7. /\ topicCall' \in TopicCall /\ topicCall'.at = "call"
          /\ topicCall'.out = HandedIn'
      BY <1>0, <2>1, <2>2, <2>4, <2>6 DEF TopicState, TopicCall, TopicFrame, HandedIn
    <2> QED BY <2>6, <2>7 DEF TopicTypeOK, TopicConservative, TopicNoStray, OnlyAdds
  <1>6. CASE TopicFoldAnd
    <2> DEFINE f == TopicAndChild(TopicTop, topicCall)
    <2>1. topicFrames # <<>> /\ TopicTop.op = "and" /\ topicCall.at = "return"
      BY <1>6 DEF TopicFoldAnd
    <2>2. /\ f \in TopicFrame /\ f.op = "and" /\ f.local = TopicTop.local
          /\ f.any = (TopicTop.any \/ topicCall.ok)
          /\ f.out = (IF topicCall.ok THEN TopicTop.out \cup topicCall.out ELSE TopicTop.out)
          /\ f.fit = TopicTop.fit \cap topicCall.fit
      BY <1>0, <2>1 DEF TopicAndChild, TopicFrame, TopicCall
    <2>3. topicFrames' = [topicFrames EXCEPT ![Len(topicFrames)] = f]
      BY <1>6 DEF TopicFoldAnd, TopicTop
    <2>4. topicCall' = TopicState("loop", {})
      BY <1>6 DEF TopicFoldAnd
    <2> HIDE DEF f
    <2>5. TopicFrameOK(f, Handed(topicFrames, Len(topicFrames)))
      BY <1>0, <2>1, <2>2 DEF TopicFrameOK, TopicConservative, Untouched, TopicCall
    <2> QED BY <1>top, <1>loop, <2>1, <2>2, <2>3, <2>4, <2>5 DEF TopicTypeOK
  <1>7. CASE TopicFoldOr
    <2> DEFINE f == TopicOrChild(TopicTop, topicCall)
    <2>1. topicFrames # <<>> /\ TopicTop.op = "or" /\ topicCall.at = "return" /\ topicCall.ok
      BY <1>7 DEF TopicFoldOr
    <2>2. /\ f \in TopicFrame /\ f.op = "or" /\ f.any = TRUE /\ f.local = topicCall.out
          /\ f.out = TopicTop.out /\ f.fit = TopicTop.fit \cup topicCall.fit
      BY <1>0, <2>1 DEF TopicOrChild, TopicFrame, TopicCall
    <2>3. topicFrames' = [topicFrames EXCEPT ![Len(topicFrames)] = f]
      BY <1>7 DEF TopicFoldOr, TopicTop
    <2>4. topicCall' = TopicState("loop", {})
      BY <1>7 DEF TopicFoldOr
    <2>5. TopicTop.local \subseteq topicCall.out
      BY <1>0, <2>1 DEF HandedIn, OnlyAdds
    <2> HIDE DEF f
    <2>6. TopicFrameOK(f, Handed(topicFrames, Len(topicFrames)))
      BY <1>0, <2>1, <2>2, <2>5 DEF TopicFrameOK, TopicConservative, Untouched
    <2> QED BY <1>top, <1>loop, <2>1, <2>2, <2>3, <2>4, <2>6 DEF TopicTypeOK
  <1>8. ASSUME NEW fit \in SUBSET Topics, TopicOrGivesUp(fit) PROVE TopicInv'
    <2> DEFINE given == TopicTop.fit \cup topicCall.fit \cup fit
    <2>1. topicFrames # <<>> /\ TopicTop.op = "or" /\ topicFrames' = TopicPopped
      BY <1>8 DEF TopicOrGivesUp
    <2>2. given \in SUBSET Topics /\ TopicTop.out \in SUBSET Topics
      BY <1>0, <2>1 DEF TopicFrame, TopicCall
    <2>3. topicCall' = TopicReturn(FALSE, TopicTop.out, given)
      BY <1>8 DEF TopicOrGivesUp
    <2>4. TopicTop.out = Handed(topicFrames, Len(topicFrames))
      BY <1>0, <2>1 DEF Untouched, TopicFrameOK
    <2>5. topicCall' \in TopicCall /\ topicCall'.at = "return" /\ topicCall'.out = TopicTop.out
          /\ topicCall'.ok = FALSE
      BY <2>2, <2>3 DEF TopicReturn, TopicCall
    <2> QED BY <1>pop, <2>1, <2>4, <2>5 DEF TopicTypeOK, TopicConservative, TopicNoStray, OnlyAdds
  <1>9. CASE TopicEndChildren
    <2> DEFINE out == TopicTop.out \cup TopicTop.local
    <2>1. topicFrames # <<>> /\ topicFrames' = TopicPopped
      BY <1>9 DEF TopicEndChildren, TopicTypeOK
    <2>2. topicCall' = TopicReturn(TopicTop.any, out, TopicTop.fit)
      BY <1>9 DEF TopicEndChildren
    <2>3. /\ TopicTop.any \in BOOLEAN /\ out \in SUBSET Topics /\ TopicTop.fit \in SUBSET Topics
          /\ TopicTop.op \in {"and", "or"}
      BY <1>0, <2>1 DEF TopicFrame
    <2>4. /\ topicCall' \in TopicCall /\ topicCall'.at = "return" /\ topicCall'.out = out
          /\ topicCall'.ok = TopicTop.any /\ topicCall'.fit = TopicTop.fit
      BY <2>2, <2>3 DEF TopicReturn, TopicCall
    <2>5. TopicTop.any => TopicTop.fit \subseteq out
      BY <1>0, <2>1, <2>3 DEF TopicFrameOK
    <2>6. /\ ~TopicTop.any => out = Handed(topicFrames, Len(topicFrames))
          /\ Handed(topicFrames, Len(topicFrames)) \subseteq out
      BY <1>0, <2>1, <2>3 DEF TopicFrameOK, Untouched
    <2> QED BY <1>pop, <2>1, <2>4, <2>5, <2>6 DEF TopicTypeOK, TopicConservative, TopicNoStray, OnlyAdds
  <1> QED BY <1>1, <1>2, <1>3, <1>4, <1>5, <1>6, <1>7, <1>8, <1>9 DEF TopicStep

-----------------------------------------------------------------------------
(* The loop over the filters. *)

\* While a filter is evaluated the other evaluation is idle with an empty call
\* stack, and at most one evaluation runs.
Alternating ==
  /\ topicCall.at = "idle" => topicFrames = <<>>
  /\ timeCall.at = "idle" => timeFrames = <<>>

PushdownInv ==
  /\ TopicInv
  /\ TimeInv
  /\ Alternating
  /\ column_ids \in ColumnLists
  /\ pending \subseteq FilterIndices
  /\ pushdown \in PushdownRecord
  /\ topicFit \subseteq Topics
  /\ timeFit \subseteq LogTimes
  /\ Conservative

LEMMA PushdownInvInit == PushdownInit => PushdownInv
  <1> SUFFICES ASSUME PushdownInit PROVE PushdownInv
    OBVIOUS
  <1>1. topicFrames = <<>> /\ timeFrames = <<>> /\ Len(topicFrames) = 0 /\ Len(timeFrames) = 0
    BY DEF PushdownInit
  <1>2. topicCall = TopicState("idle", {}) /\ timeCall = TimeState("idle")
    BY DEF PushdownInit
  <1>3. TopicInv
    BY <1>1, <1>2, TopicSetAssumption
    DEF TopicInv, TopicTypeOK, TopicState, TopicCall, TopicConservative, TopicNoStray, OnlyAdds
  <1>4. TimeInv
    BY <1>1, <1>2, TimeAssumption, TimeRangeAssumption
    DEF TimeInv, TimeTypeOK, TimeState, TimeCall, TimeConservative, TimeExact, Times
  <1>5. pushdown \in PushdownRecord /\ Conservative
    BY TimeAssumption, TimesAreNat
    DEF PushdownInit, NoPushdown, PushdownRecord, Conservative, Covers,
        Representable, Times
  <1> QED BY <1>1, <1>3, <1>4, <1>5 DEF PushdownInit, PushdownInv, Alternating

\* An evaluation that goes idle or starts with an empty call stack satisfies
\* its invariant.
LEMMA TopicRestart ==
  ASSUME TopicInv, topicFrames = <<>>, UNCHANGED topicFrames,
         NEW at \in {"idle", "call"}, topicCall' = TopicState(at, {})
  PROVE  TopicInv'
  <1>1. topicFrames' = <<>> /\ Len(topicFrames') = 0 /\ topicFrames' \in Seq(TopicFrame)
    OBVIOUS
  <1>2. /\ topicCall' \in TopicCall /\ topicCall'.at = at /\ topicCall'.out = {}
        /\ at # "return" /\ at # "loop"
    BY DEF TopicState, TopicCall
  <1>3. HandedIn' = {}
    BY <1>1 DEF HandedIn
  <1> QED BY <1>1, <1>2, <1>3, TopicSetAssumption
          DEF TopicInv, TopicTypeOK, TopicConservative, TopicNoStray, OnlyAdds

LEMMA TimeRestart ==
  ASSUME TimeInv, timeFrames = <<>>, UNCHANGED timeFrames,
         NEW at \in {"idle", "call"}, timeCall' = TimeState(at)
  PROVE  TimeInv'
  <1>1. timeFrames' = <<>> /\ Len(timeFrames') = 0 /\ timeFrames' \in Seq(TimeFrame)
    OBVIOUS
  <1>2. timeCall' \in TimeCall /\ timeCall'.at = at /\ at # "return" /\ at # "loop"
    BY TimeAssumption DEF TimeState, TimeCall, Times
  <1> QED BY <1>1, <1>2, TimeRangeAssumption DEF TimeInv, TimeTypeOK, TimeConservative, TimeExact

LEMMA UnchangedEvaluation ==
  /\ TopicInv /\ UNCHANGED topicVars => TopicInv'
  /\ TimeInv /\ UNCHANGED timeVars => TimeInv'
  <1>1. ASSUME TopicInv, UNCHANGED topicVars PROVE TopicInv'
    <2>1. topicFrames' = topicFrames /\ topicCall' = topicCall
      BY <1>1 DEF topicVars
    <2> QED BY <1>1, <2>1 DEF TopicInv, TopicTypeOK, TopicConservative, TopicNoStray, OnlyAdds,
                             HandedIn, TopicTop
  <1>2. ASSUME TimeInv, UNCHANGED timeVars PROVE TimeInv'
    <2>1. timeFrames' = timeFrames /\ timeCall' = timeCall
      BY <1>2 DEF timeVars
    <2> QED BY <1>2, <2>1 DEF TimeInv, TimeTypeOK, TimeConservative, TimeExact
  <1> QED BY <1>1, <1>2

\* Evaluation steps never go idle, so the call stacks stay where they were.
LEMMA StepsStayBusy ==
  /\ TopicStep => topicCall'.at \in {"call", "loop", "return"}
  /\ TimeStep => timeCall'.at \in {"call", "loop", "return"}
  <1>1. TopicStep => topicCall'.at \in {"call", "loop", "return"}
    BY DEF TopicStep, TopicEquals, TopicIn, TopicOpaqueLeaf, TopicDescend, TopicNextChild,
           TopicFoldAnd, TopicFoldOr, TopicOrGivesUp, TopicEndChildren, TopicState, TopicReturn
  <1>2. TimeStep => timeCall'.at \in {"call", "loop", "return"}
    BY DEF TimeStep, TimeComparison, TimeOpaqueLeaf, TimeDescend, TimeNextChild, TimeFoldAnd,
           TimeFoldOr, TimeOrGivesUp, TimeEndChildren, TimeState, TimeReturn, TimeGiveUp
  <1> QED BY <1>1, <1>2

LEMMA PushdownInvStep == PushdownInv /\ [PushdownNext]_pushdownVars => PushdownInv'
  <1> SUFFICES ASSUME PushdownInv, [PushdownNext]_pushdownVars PROVE PushdownInv'
    OBVIOUS
  <1> USE DEF PushdownInv
  <1>same. ASSUME UNCHANGED <<pushdown, topicFit, timeFit>>
           PROVE  pushdown' \in PushdownRecord /\ topicFit' \subseteq Topics
                  /\ timeFit' \subseteq LogTimes /\ Conservative'
    BY <1>same DEF Conservative
  <1>1. ASSUME NEW i \in FilterIndices, SkipEntry(i) PROVE PushdownInv'
    BY <1>1, <1>same, UnchangedEvaluation DEF SkipEntry, Alternating, topicVars, timeVars
  <1>2. ASSUME NEW i \in FilterIndices, EnterTopic(i) PROVE PushdownInv'
    <2>1. topicFrames = <<>> /\ UNCHANGED topicFrames /\ topicCall' = TopicState("call", {})
      BY <1>2 DEF EnterTopic, Visits, Alternating
    <2>2. TopicInv'
      BY <2>1, TopicRestart
    <2>3. TimeInv' /\ UNCHANGED timeVars
      BY <1>2, UnchangedEvaluation DEF EnterTopic
    <2> QED BY <1>2, <1>same, <2>1, <2>2, <2>3 DEF EnterTopic, Alternating, timeVars, TopicState
  <1>3. ASSUME NEW i \in FilterIndices, EnterTimestamp(i) PROVE PushdownInv'
    <2>1. timeFrames = <<>> /\ UNCHANGED timeFrames /\ timeCall' = TimeState("call")
      BY <1>3 DEF EnterTimestamp, Visits, Alternating
    <2>2. TimeInv'
      BY <2>1, TimeRestart
    <2>3. TopicInv' /\ UNCHANGED topicVars
      BY <1>3, UnchangedEvaluation DEF EnterTimestamp
    <2> QED BY <1>3, <1>same, <2>1, <2>2, <2>3 DEF EnterTimestamp, Alternating, topicVars, TimeState
  <1>4. CASE EvaluateTopic
    <2>1. TopicInv' /\ TimeInv'
      BY <1>4, TopicStepInv, UnchangedEvaluation DEF EvaluateTopic
    <2> QED BY <1>4, <1>same, <2>1, StepsStayBusy DEF EvaluateTopic, Alternating, timeVars
  <1>5. CASE EvaluateTimestamp
    <2>1. TopicInv' /\ TimeInv'
      BY <1>5, TimeStepInv, UnchangedEvaluation DEF EvaluateTimestamp
    <2> QED BY <1>5, <1>same, <2>1, StepsStayBusy DEF EvaluateTimestamp, Alternating, topicVars
  <1>6. CASE MergeTopics
    <2>1. /\ topicFrames = <<>> /\ UNCHANGED topicFrames /\ topicCall' = TopicState("idle", {})
          /\ UNCHANGED timeVars /\ UNCHANGED <<column_ids, pending, timeFit>>
          /\ topicFit' = topicFit \cap topicCall.fit
          /\ topicCall.at = "return"
      BY <1>6 DEF MergeTopics
    <2>2. TopicInv' /\ TimeInv'
      BY <2>1, TopicRestart, UnchangedEvaluation
    <2>3. /\ topicCall \in TopicCall
          /\ topicCall.ok => topicCall.fit \subseteq topicCall.out
      BY <2>1 DEF TopicInv, TopicTypeOK, TopicConservative
    <2>4. CASE topicCall.ok /\ topicCall.out # {}
      <3>1. /\ pushdown' \in PushdownRecord
            /\ pushdown'.restricted = TRUE
            /\ pushdown'.topics = pushdown.topics \cup topicCall.out
            /\ pushdown'.start_time = pushdown.start_time
            /\ pushdown'.end_time = pushdown.end_time
        BY <1>6, <2>3, <2>4 DEF MergeTopics, PushdownRecord, TopicCall
      <3>2. Conservative'
        BY <2>1, <2>3, <2>4, <3>1 DEF Conservative
      <3> QED BY <2>1, <2>2, <3>1, <3>2 DEF Alternating, timeVars
    <2>5. CASE ~(topicCall.ok /\ topicCall.out # {})
      <3>1. pushdown' = pushdown
        BY <1>6, <2>5 DEF MergeTopics
      <3>2. Conservative'
        BY <2>1, <3>1 DEF Conservative
      <3> QED BY <2>1, <2>2, <3>1, <3>2 DEF Alternating, timeVars
    <2> QED BY <2>4, <2>5
  <1>7. CASE MergeTimeRange
    <2>1. /\ timeFrames = <<>> /\ UNCHANGED timeFrames /\ timeCall' = TimeState("idle")
          /\ UNCHANGED topicVars /\ UNCHANGED <<column_ids, pending, topicFit>>
          /\ timeFit' = timeFit \cap timeCall.fit
          /\ timeCall.at = "return"
      BY <1>7 DEF MergeTimeRange
    <2>2. TopicInv' /\ TimeInv'
      BY <2>1, TimeRestart, UnchangedEvaluation
    <2>3. /\ timeCall \in TimeCall
          /\ timeCall.ok => Covers(timeCall.start, timeCall.end, timeCall.fit \cap Representable)
      BY <2>1 DEF TimeInv, TimeTypeOK, TimeConservative
    <2>4. CASE timeCall.ok
      <3>1. /\ pushdown' \in PushdownRecord
            /\ pushdown'.restricted = pushdown.restricted
            /\ pushdown'.topics = pushdown.topics
            /\ pushdown'.start_time = IF timeCall.start > pushdown.start_time
                                      THEN timeCall.start ELSE pushdown.start_time
            /\ pushdown'.end_time = IF timeCall.end < pushdown.end_time
                                    THEN timeCall.end ELSE pushdown.end_time
        BY <1>7, <2>3, <2>4 DEF MergeTimeRange, PushdownRecord, TimeCall
      <3>2. Covers(pushdown'.start_time, pushdown'.end_time, timeFit' \cap Representable)
        BY <2>1, <2>3, <2>4, <3>1 DEF Conservative, Covers
      <3>3. Conservative'
        BY <2>1, <3>1, <3>2 DEF Conservative
      <3> QED BY <2>1, <2>2, <3>1, <3>3 DEF Alternating, topicVars
    <2>5. CASE ~timeCall.ok
      <3>1. pushdown' = pushdown
        BY <1>7, <2>5 DEF MergeTimeRange
      <3>2. Conservative'
        BY <2>1, <3>1 DEF Conservative, Covers
      <3> QED BY <2>1, <2>2, <3>1, <3>2 DEF Alternating, topicVars
    <2> QED BY <2>4, <2>5
  <1>8. CASE UNCHANGED pushdownVars
    BY <1>8, <1>same, UnchangedEvaluation DEF pushdownVars, Alternating, topicVars, timeVars
  <1> QED BY <1>1, <1>2, <1>3, <1>4, <1>5, <1>6, <1>7, <1>8 DEF PushdownNext

LEMMA PushdownInvariance == PushdownSpec => []PushdownInv
  BY PushdownInvInit, PushdownInvStep, PTL DEF PushdownSpec

\* Type correctness of the whole evaluation (pushdown.cpp).
THEOREM PushdownTypes == PushdownSpec => []PushdownTypeOK
  <1>1. PushdownInv => PushdownTypeOK
    BY DEF PushdownInv, PushdownTypeOK, TopicInv, TimeInv
  <1> QED BY <1>1, PushdownInvariance, PTL

\* The restriction ExtractMcapPushdown computes is a superset of the query:
\* for every filter tree, every depth and every projected column list, no
\* representable row that satisfies the filters is excluded from the read
\* (pushdown.cpp:211-245, pushdown.hpp:31-33).
THEOREM PushdownIsConservative == PushdownSpec => []Conservative
  <1>1. PushdownInv => Conservative
    BY DEF PushdownInv
  <1> QED BY <1>1, PushdownInvariance, PTL

\* CollectTimeRange returns a superset of what a filter accepts
\* (pushdown.cpp:123-204).
THEOREM TimeRangeIsSound == PushdownSpec => []TimeConservative
  <1>1. PushdownInv => TimeConservative
    BY DEF PushdownInv, TimeInv
  <1> QED BY <1>1, PushdownInvariance, PTL

\* For a conjunction of comparisons it returns no more than that.
THEOREM TimeRangeIsExact == PushdownSpec => []TimeExact
  <1>1. PushdownInv => TimeExact
    BY DEF PushdownInv, TimeInv
  <1> QED BY <1>1, PushdownInvariance, PTL

\* CollectTopicSet returns a superset of the topics a filter accepts
\* (pushdown.cpp:57-115).
THEOREM TopicSetIsSound == PushdownSpec => []TopicConservative
  <1>1. PushdownInv => TopicConservative
    BY DEF PushdownInv, TopicInv
  <1> QED BY <1>1, PushdownInvariance, PTL

\* A call of CollectTopicSet that fails leaves its out-parameter as it was, for
\* any nesting of conjunctions and disjunctions (pushdown.cpp:57-115).
THEOREM TopicSetLeavesNoStray == PushdownSpec => []TopicNoStray
  <1>1. PushdownInv => TopicNoStray
    BY DEF PushdownInv, TopicInv
  <1> QED BY <1>1, PushdownInvariance, PTL

=============================================================================
