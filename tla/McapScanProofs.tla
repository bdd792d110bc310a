--------------------------- MODULE McapScanProofs ---------------------------
(***************************************************************************)
(* Proofs about Partitions and McapScan: for any files, any chunk start    *)
(* times and any read window, the partitions neither overlap nor leave a   *)
(* gap, and none holds more chunk starts than ChunksPerPartition; and for  *)
(* any number of threads, any output chunk size and any interleaving, the  *)
(* scan reads every message of the partitions once.                        *)
(***************************************************************************)
EXTENDS McapScan, FiniteSetTheorems, TLAPS

-----------------------------------------------------------------------------
(* Partitions.                                                             *)

\* Nothing is pushed beyond the cut: partitions of the file being split end at
\* or before it, and later files have none.  PartitionsPartition alone is not
\* inductive, since a new partition could overlap an old one.
PartitionsInv ==
  /\ PartitionsTypeOK
  /\ \A i \in DOMAIN partitions :
       /\ partitions[i].file <= file
       /\ phase = "split" /\ partitions[i].file = file => partitions[i].end <= cut
  /\ phase = "split" => lo <= cut /\ cut < hi
  /\ phase = "split" => cut = lo \/ cut \in InnerBounds(file)
  /\ PartitionsAreSmall
  /\ phase \in {"built", "running", "done"} => file = NumFiles
  /\ PartitionsInWindow
  /\ PartitionsPartition

\* The window of a query is a pair of times.
LEMMA WindowType == pushdown \in Pushdowns => lo \in Times /\ hi \in Times
  BY PartitionsAssumption DEF lo, hi

LEMMA TimesInt == \A t \in Times : t \in Int /\ t >= 0
  BY TimeAssumption DEF Times

\* The bound that follows the cut lies behind it and inside the window.
LEMMA FollowsInWindow ==
  ASSUME NEW f, NEW a \in Times, NEW b \in Times, lo \in Times, hi \in Times, Follows(f, a, b)
  PROVE  a < b /\ b <= hi
  <1>1. b \in InnerBounds(f) => b \in lo + 1 .. hi - 1
    BY DEF InnerBounds, Starts
  <1> QED BY <1>1, TimesInt DEF Follows

-----------------------------------------------------------------------------
(* Partitions are small: the bounds are the start times whose rank is a    *)
(* multiple of ChunksPerPartition, and below a set's n-th element there    *)
(* are n others.                                                           *)

\* In a finite set of numbers every smaller count is the rank of an element.
LEMMA ElementOfRank ==
  ASSUME NEW S \in SUBSET Nat, IsFiniteSet(S), NEW n \in Nat, n < Cardinality(S)
  PROVE  \E t \in S : Cardinality({s \in S : s < t}) = n
  <1> DEFINE Below(t) == {s \in S : s < t}
             T == 0 .. Cardinality(S) - 1
             f == [t \in S |-> Cardinality(Below(t))]
  <1>1. Cardinality(S) \in Nat
    BY FS_CardinalityType
  <1>2. ASSUME NEW t \in S
        PROVE  IsFiniteSet(Below(t)) /\ Cardinality(Below(t)) \in T
    <2>1. IsFiniteSet(S \ {t}) /\ Cardinality(S \ {t}) = Cardinality(S) - 1
      BY FS_RemoveElement
    <2>2. Below(t) \subseteq S \ {t}
      OBVIOUS
    <2>3. IsFiniteSet(Below(t)) /\ Cardinality(Below(t)) <= Cardinality(S \ {t})
      BY <2>1, <2>2, FS_Subset
    <2>4. Cardinality(Below(t)) \in Nat
      BY <2>3, FS_CardinalityType
    <2> QED BY <1>1, <2>1, <2>3, <2>4
  <1>3. ASSUME NEW t \in S, NEW u \in S, t < u PROVE Cardinality(Below(t)) < Cardinality(Below(u))
    <2>1. IsFiniteSet(Below(t) \cup {t}) /\ Cardinality(Below(t) \cup {t}) = Cardinality(Below(t)) + 1
      BY <1>2, FS_AddElement
    <2>2. Below(t) \cup {t} \subseteq Below(u)
      <3>1. t \in Nat /\ u \in Nat /\ \A s \in S : s \in Nat
        OBVIOUS
      <3>2. \A s \in S : s < t => s < u
        BY <1>3, <3>1
      <3> QED BY <1>3, <3>2
    <2>3. Cardinality(Below(t) \cup {t}) <= Cardinality(Below(u))
      BY <1>2, <2>2, FS_Subset
    <2> QED BY <1>1, <1>2, <2>1, <2>3
  <1>4. f \in [S -> T] /\ \A t, u \in S : f[t] = f[u] => t = u
    <2>1. f \in [S -> T]
      BY <1>2
    <2>2. ASSUME NEW t \in S, NEW u \in S, f[t] = f[u] PROVE t = u
      <3>1. ~(t < u) /\ ~(u < t)
        BY <1>1, <1>2, <1>3, <2>2
      <3> QED BY <3>1
    <2> QED BY <2>1, <2>2
  <1>5. IsFiniteSet(T) /\ Cardinality(T) = Cardinality(S)
    <2>1. 0 \in Int /\ Cardinality(S) - 1 \in Int /\ ~(0 > Cardinality(S) - 1)
      BY <1>1
    <2>2. IsFiniteSet(T) /\ Cardinality(T) = (Cardinality(S) - 1) - 0 + 1
      BY <2>1, FS_Interval
    <2> QED BY <1>1, <2>2
  <1>6. f \in Injection(S, T)
    BY <1>4 DEF Injection, IsInjective
  <1>7. f \in Surjection(S, T)
    BY <1>5, <1>6, FS_Injection
  <1>8. n \in T
    BY <1>1
  <1> QED BY <1>7, <1>8 DEF Surjection

\* Remainders by an unknown divisor.
LEMMA NextMultiple ==
  ASSUME NEW c \in Nat \ {0}, NEW r \in Nat, r % c = 0
  PROVE  (r + c) % c = 0
  <1> DEFINE q == r \div c
  <1>1. q \in Nat
    BY Z3T(30)
  <1>2. r = c * q + (r % c)
    BY Z3T(30)
  <1>3. c * q + c = c * (q + 1)
    BY <1>1, Z3T(30)
  <1>4. r + c = c * (q + 1)
    <2> HIDE DEF q
    <2> QED BY <1>1, <1>2, <1>3
  <1>5. \A k \in Nat : (c * k) % c = 0
    BY Z3T(30)
  <1>6. (c * (q + 1)) % c = 0
    <2>1. q + 1 \in Nat
      BY <1>1
    <2> HIDE DEF q
    <2> QED BY <1>5, <2>1
  <1> HIDE DEF q
  <1> QED BY <1>4, <1>6, Zenon

LEMMA StartsFinite ==
  ASSUME NEW f, lo \in Times, hi \in Times
  PROVE  Starts(f) \in SUBSET Nat /\ IsFiniteSet(Starts(f))
  <1>1. IsFiniteSet(lo + 1 .. hi - 1) /\ Starts(f) \subseteq lo + 1 .. hi - 1
    <2>1. lo + 1 \in Int /\ hi - 1 \in Int
      BY TimesInt
    <2>2. IsFiniteSet(lo + 1 .. hi - 1)
      BY <2>1, FS_Interval
    <2> QED BY <2>2 DEF Starts
  <1>2. lo + 1 .. hi - 1 \in SUBSET Nat
    BY TimesInt
  <1> QED BY <1>1, <1>2, FS_Subset

\* From the lower end of the window, or from a bound, to the bound that follows
\* there are at most ChunksPerPartition start times.
LEMMA NextBoundIsNear ==
  ASSUME NEW f, NEW a \in Times, NEW b \in Times, lo \in Times, hi \in Times,
         Len(ChunkStarts[f]) > ChunksPerPartition,
         a = lo \/ a \in InnerBounds(f), Follows(f, a, b)
  PROVE  Cardinality({s \in Starts(f) : a <= s /\ s < b}) <= ChunksPerPartition
  <1> DEFINE A == {s \in Starts(f) : a <= s /\ s < b}
             c == ChunksPerPartition
             Below(t) == {s \in Starts(f) : s < t}
  <1>0. c \in Nat \ {0} /\ Starts(f) \in SUBSET Nat /\ IsFiniteSet(Starts(f)) /\ a \in Nat /\ b \in Nat
    BY StartsFinite, PartitionsAssumption, TimesInt
  <1>1. A \in SUBSET Nat /\ IsFiniteSet(A) /\ Cardinality(A) \in Nat
    BY <1>0, FS_Subset, FS_CardinalityType
  <1> SUFFICES ASSUME c < Cardinality(A) PROVE FALSE
    BY <1>0, <1>1
  <1>2. PICK t \in A : Cardinality({s \in A : s < t}) = c
    BY <1>0, <1>1, ElementOfRank
  <1>3. Rank(f, a) \in Nat /\ Rank(f, a) % c = 0
    <2>1. CASE a = lo
      <3>1. Below(a) = {}
        BY <2>1, TimesInt DEF Starts
      <3>2. Rank(f, a) = 0
        BY <3>1, FS_EmptySet DEF Rank
      <3> QED BY <1>0, <3>2, NextMultiple
    <2>2. CASE a \in InnerBounds(f)
      <3>1. IsFiniteSet(Below(a))
        BY <1>0, FS_Subset
      <3> QED BY <2>2, <3>1, FS_CardinalityType DEF InnerBounds, Rank
    <2> QED BY <2>1, <2>2
  <1>4. Rank(f, t) = Rank(f, a) + c
    <2>1. IsFiniteSet(Below(a)) /\ IsFiniteSet({s \in A : s < t})
      BY <1>0, <1>1, FS_Subset
    <2>2. Below(t) = Below(a) \cup {s \in A : s < t} /\ Below(a) \cap {s \in A : s < t} = {}
      BY <1>0, <1>2
    <2>3. Cardinality(Below(t)) = Cardinality(Below(a)) + Cardinality({s \in A : s < t})
      <3> DEFINE U == Below(a)
                 V == {s \in A : s < t}
      <3>1. IsFiniteSet(U) /\ IsFiniteSet(V) /\ U \cap V = {} /\ Cardinality(U) \in Nat /\ Cardinality(V) \in Nat
        BY <2>1, <2>2, FS_CardinalityType
      <3>2. Cardinality(U \cup V) = Cardinality(U) + Cardinality(V) - Cardinality(U \cap V)
        BY <3>1, FS_Union
      <3>3. Cardinality(U \cap V) = 0
        BY <3>1, FS_EmptySet
      <3>4. Cardinality(U \cup V) = Cardinality(U) + Cardinality(V)
        <4> HIDE DEF U, V
        <4> QED BY <3>1, <3>2, <3>3
      <3> QED BY <2>2, <3>4
    <2> QED BY <1>2, <2>3 DEF Rank
  <1>5. t \in InnerBounds(f)
    <2> DEFINE r == Rank(f, a)
    <2>1. r \in Nat /\ r % c = 0 /\ c \in Nat \ {0} /\ Rank(f, t) = r + c /\ t \in Starts(f)
      BY <1>0, <1>2, <1>3, <1>4
    <2>2. (r + c) % c = 0 /\ r + c > 0
      <3> HIDE DEF r, c
      <3>1. (r + c) % c = 0
        BY <2>1, NextMultiple
      <3>2. r + c > 0
        BY <2>1
      <3> QED BY <3>1, <3>2
    <2>3. Rank(f, t) > 0 /\ Rank(f, t) % c = 0
      BY <2>1, <2>2
    <2> HIDE DEF A, Below, r
    <2> QED BY <2>1, <2>3, Len(ChunkStarts[f]) > ChunksPerPartition DEF InnerBounds
  <1>6. t # a
    BY <1>0, <1>3, <1>4
  <1> QED BY <1>0, <1>2, <1>5, <1>6 DEF Follows

-----------------------------------------------------------------------------
(* The invariant. *)

LEMMA PartitionsInvInit == PartitionsInit => PartitionsInv
  <1> SUFFICES ASSUME PartitionsInit PROVE PartitionsInv
    OBVIOUS
  <1>1. /\ pushdown \in Pushdowns /\ phase = "open" /\ file = 0 /\ cut = 0
        /\ partitions = <<>> /\ DOMAIN partitions = {}
    BY DEF PartitionsInit, NoPartitions
  <1>2. PartitionsTypeOK
    BY <1>1, TimeAssumption, PartitionsAssumption DEF PartitionsTypeOK, Times
  <1>3. \A f \in Files : CutUpTo(f) = lo
    BY <1>1, PartitionsAssumption DEF CutUpTo, Files
  <1>4. PartitionsPartition
    BY <1>1, <1>3, WindowType, TimesInt DEF PartitionsPartition
  <1> QED BY <1>1, <1>2, <1>4 DEF PartitionsInv, PartitionsInWindow, PartitionsAreSmall

\* A phase that is not "split" may be left for another such phase.
LEMMA PartitionsInvStable ==
  ASSUME PartitionsInv, UNCHANGED <<pushdown, file, cut, partitions>>,
         phase = "split" <=> phase' = "split",
         phase' \in {"built", "running", "done"} => file = NumFiles
  PROVE  PartitionsInv'
  <1>1. \A f \in Files : CutUpTo(f)' = CutUpTo(f)
    BY DEF CutUpTo, lo, hi
  <1>2. PartitionsPartition'
    BY <1>1 DEF PartitionsInv, PartitionsPartition, Reads, lo, hi
  <1>3. \A f : Starts(f)' = Starts(f) /\ InnerBounds(f)' = InnerBounds(f)
    BY DEF Starts, InnerBounds, Rank, lo, hi
  <1>4. PartitionsAreSmall'
    BY <1>3 DEF PartitionsInv, PartitionsAreSmall
  <1> QED BY <1>2, <1>3, <1>4 DEF PartitionsInv, PartitionsTypeOK, PartitionsInWindow, lo, hi

LEMMA PartitionsInvStep == PartitionsInv /\ PartitionsNext => PartitionsInv'
  <1> SUFFICES ASSUME PartitionsInv, PartitionsNext PROVE PartitionsInv'
    OBVIOUS
  <1>0. /\ pushdown \in Pushdowns /\ lo \in Times /\ hi \in Times
        /\ file \in 0 .. NumFiles /\ cut \in Times /\ partitions \in Seq(Partition)
        /\ NumFiles \in Nat /\ Len(partitions) \in Nat
        /\ DOMAIN partitions = 1 .. Len(partitions)
        /\ \A i \in DOMAIN partitions : partitions[i] \in Partition
    BY WindowType, PartitionsAssumption DEF PartitionsInv, PartitionsTypeOK
  <1>1. CASE OpenFile
    <2>1. /\ phase = "open" /\ file < NumFiles /\ file' = file + 1
          /\ UNCHANGED <<pushdown, partitions>> /\ lo' = lo /\ hi' = hi
          /\ lo >= hi => phase' = "open" /\ cut' = cut
          /\ ~(lo >= hi) => phase' = "split" /\ cut' = lo
      BY <1>1 DEF OpenFile, lo, hi
    <2>2. file' \in Files /\ file' \in 0 .. NumFiles
      BY <1>0, <2>1 DEF Files
    <2>3. PartitionsTypeOK'
      BY <1>0, <2>1, <2>2 DEF PartitionsTypeOK
    <2>4. phase' = "split" => lo' <= cut' /\ cut' < hi'
      BY <1>0, <2>1, TimesInt
    <2>5. \A f \in Files, t \in Times : lo <= t /\ t < CutUpTo(f)' => t < CutUpTo(f)
      <3> SUFFICES ASSUME NEW f \in Files, NEW t \in Times, lo <= t, t < CutUpTo(f)'
                   PROVE  t < CutUpTo(f)
        OBVIOUS
      <3>1. CASE f <= file
        BY <1>0, <2>1, <3>1 DEF CutUpTo, Files
      <3>2. CASE f = file + 1
        BY <1>0, <2>1, <3>2, TimesInt DEF CutUpTo, Files
      <3>3. CASE f > file + 1
        <4>1. CutUpTo(f)' = lo
          BY <1>0, <2>1, <3>3 DEF CutUpTo, Files
        <4> QED BY <4>1, <1>0, TimesInt
      <3> QED BY <1>0, <3>1, <3>2, <3>3 DEF Files
    <2>6. PartitionsPartition'
      BY <2>1, <2>5 DEF PartitionsInv, PartitionsPartition, Reads
    <2>7. \A i \in DOMAIN partitions : partitions[i].file <= file /\ partitions[i].file # file'
      BY <1>0, <2>1 DEF PartitionsInv, Partition, Files
    <2>8. \A f : Starts(f)' = Starts(f)
      BY <2>1 DEF Starts
    <2>9. PartitionsAreSmall'
      BY <2>1, <2>8 DEF PartitionsInv, PartitionsAreSmall
    <2> QED BY <1>0, <2>1, <2>3, <2>4, <2>6, <2>7, <2>9
            DEF PartitionsInv, PartitionsInWindow, Partition, Files
  <1>2. CASE OpenFileFails
    BY <1>2, PartitionsInvStable DEF OpenFileFails
  <1>3. ASSUME NEW b \in Times, PushPartition(b) PROVE PartitionsInv'
    <2> DEFINE p == [file |-> file, start |-> cut, end |-> b]
    <2>1. /\ phase = "split" /\ partitions' = Append(partitions, p) /\ cut' = b
          /\ phase' = IF b = hi THEN "open" ELSE "split"
          /\ UNCHANGED <<pushdown, file>> /\ lo' = lo /\ hi' = hi
      BY <1>3 DEF PushPartition, lo, hi
    <2>2. file \in Files /\ lo <= cut /\ cut < b /\ b <= hi
      BY <1>0, <1>3, <2>1, FollowsInWindow DEF PushPartition, PartitionsInv, PartitionsTypeOK
    <2>3. /\ partitions' \in Seq(Partition)
          /\ DOMAIN partitions' = 1 .. Len(partitions) + 1
          /\ \A i \in DOMAIN partitions' :
               partitions'[i] = IF i = Len(partitions) + 1 THEN p ELSE partitions[i]
      <3>1. p \in Partition
        BY <1>0, <2>2 DEF Partition
      <3> QED BY <1>0, <2>1, <3>1
    <2>4. PartitionsTypeOK'
      BY <1>0, <2>1, <2>2, <2>3 DEF PartitionsTypeOK
    <2>5. \A i \in DOMAIN partitions' :
            /\ partitions'[i].file <= file'
            /\ phase' = "split" /\ partitions'[i].file = file' => partitions'[i].end <= cut'
      <3> SUFFICES ASSUME NEW i \in DOMAIN partitions'
                   PROVE  /\ partitions'[i].file <= file
                          /\ partitions'[i].file = file => partitions'[i].end <= b
        BY <2>1
      <3>1. CASE i = Len(partitions) + 1
        <4>1. partitions'[i] = p
          BY <2>3, <3>1
        <4> QED BY <4>1, <1>0, TimesInt
      <3>2. CASE i # Len(partitions) + 1
        <4>1. i \in DOMAIN partitions /\ partitions'[i] = partitions[i]
          BY <1>0, <2>3, <3>2
        <4>2. partitions[i].file <= file /\ (partitions[i].file = file => partitions[i].end <= cut)
          BY <2>1, <4>1 DEF PartitionsInv
        <4>3. partitions[i].end \in Times
          BY <1>0, <4>1 DEF Partition
        <4> QED BY <1>0, <2>2, <4>1, <4>2, <4>3, TimesInt
      <3> QED BY <3>1, <3>2
    <2>6. phase' = "split" => lo' <= cut' /\ cut' < hi'
      BY <1>0, <2>1, <2>2, TimesInt
    <2>7. PartitionsInWindow'
      <3> SUFFICES ASSUME NEW i \in DOMAIN partitions'
                   PROVE  /\ lo <= partitions'[i].start /\ partitions'[i].start < partitions'[i].end
                          /\ partitions'[i].end <= hi
        BY <2>1 DEF PartitionsInWindow
      <3>1. CASE i = Len(partitions) + 1
        <4>1. partitions'[i] = p
          BY <2>3, <3>1
        <4> QED BY <4>1, <2>2
      <3>2. CASE i # Len(partitions) + 1
        <4>1. i \in DOMAIN partitions /\ partitions'[i] = partitions[i]
          BY <1>0, <2>3, <3>2
        <4> QED BY <4>1 DEF PartitionsInv, PartitionsInWindow
      <3> QED BY <3>1, <3>2
    <2>8. ASSUME NEW f \in Files, NEW t \in Times
          PROVE  /\ lo <= t /\ t < CutUpTo(f)' =>
                      \E i \in DOMAIN partitions' : Reads(partitions'[i], f, t)
                 /\ \A i, j \in DOMAIN partitions' :
                      Reads(partitions'[i], f, t) /\ Reads(partitions'[j], f, t) => i = j
      <3>1. ASSUME lo <= t, t < CutUpTo(f)'
            PROVE  \E i \in DOMAIN partitions' : Reads(partitions'[i], f, t)
        <4>1. CASE f = file /\ cut <= t
          <5>1. CutUpTo(f)' = b
            BY <1>0, <2>1, <4>1 DEF CutUpTo
          <5>2. Reads(p, f, t)
            BY <3>1, <4>1, <5>1 DEF Reads
          <5>3. Len(partitions) + 1 \in DOMAIN partitions' /\ partitions'[Len(partitions) + 1] = p
            BY <1>0, <2>3
          <5> QED BY <5>2, <5>3
        <4>2. CASE ~(f = file /\ cut <= t)
          <5>1. t < CutUpTo(f)
            BY <1>0, <2>1, <2>2, <3>1, <4>2, TimesInt DEF CutUpTo, Files
          <5>2. PICK i \in DOMAIN partitions : Reads(partitions[i], f, t)
            BY <3>1, <5>1 DEF PartitionsInv, PartitionsPartition
          <5>3. i \in DOMAIN partitions' /\ partitions'[i] = partitions[i]
            BY <1>0, <2>3
          <5> QED BY <5>2, <5>3
        <4> QED BY <4>1, <4>2
      <3>2. \A i \in DOMAIN partitions' : Reads(partitions'[i], f, t) =>
              \/ i = Len(partitions) + 1 /\ f = file /\ cut <= t
              \/ i \in DOMAIN partitions /\ Reads(partitions[i], f, t) /\ ~(f = file /\ cut <= t)
        <4> SUFFICES ASSUME NEW i \in DOMAIN partitions', Reads(partitions'[i], f, t)
                     PROVE  \/ i = Len(partitions) + 1 /\ f = file /\ cut <= t
                            \/ i \in DOMAIN partitions /\ Reads(partitions[i], f, t)
                               /\ ~(f = file /\ cut <= t)
          OBVIOUS
        <4>1. CASE i = Len(partitions) + 1
          <5>1. partitions'[i] = p
            BY <2>3, <4>1
          <5> QED BY <4>1, <5>1 DEF Reads
        <4>2. CASE i # Len(partitions) + 1
          <5>1. i \in DOMAIN partitions /\ partitions'[i] = partitions[i]
            BY <1>0, <2>3, <4>2
          <5>2. partitions[i].file = file => partitions[i].end <= cut
            BY <2>1, <5>1 DEF PartitionsInv
          <5>3. partitions[i].end \in Times
            BY <1>0, <5>1 DEF Partition
          <5>4. ~(f = file /\ cut <= t)
            BY <1>0, <5>1, <5>2, <5>3, TimesInt DEF Reads
          <5> QED BY <5>1, <5>4
        <4> QED BY <4>1, <4>2
      <3>3. \A i, j \in DOMAIN partitions :
              Reads(partitions[i], f, t) /\ Reads(partitions[j], f, t) => i = j
        BY DEF PartitionsInv, PartitionsPartition
      <3> QED BY <3>1, <3>2, <3>3
    <2>9. PartitionsPartition'
      BY <2>1, <2>8 DEF PartitionsPartition
    <2>10. /\ \A f : Starts(f)' = Starts(f) /\ InnerBounds(f)' = InnerBounds(f)
           /\ Follows(file, cut, b)
           /\ cut = lo \/ cut \in InnerBounds(file)
      BY <1>3, <2>1 DEF Starts, InnerBounds, Rank, PushPartition, PartitionsInv
    <2>11. PartitionsAreSmall'
      <3> SUFFICES ASSUME NEW i \in DOMAIN partitions',
                          Len(ChunkStarts[partitions'[i].file]) > ChunksPerPartition
                   PROVE  Cardinality({s \in Starts(partitions'[i].file) :
                            partitions'[i].start <= s /\ s < partitions'[i].end}) <= ChunksPerPartition
        BY <2>10 DEF PartitionsAreSmall
      <3>1. CASE i = Len(partitions) + 1
        <4>1. partitions'[i] = p
          BY <2>3, <3>1
        <4>2. Len(ChunkStarts[file]) > ChunksPerPartition
          BY <4>1
        <4>3. Cardinality({s \in Starts(file) : cut <= s /\ s < b}) <= ChunksPerPartition
          BY <1>0, <1>3, <2>10, <4>2, NextBoundIsNear
        <4> QED BY <4>1, <4>3
      <3>2. CASE i # Len(partitions) + 1
        <4>1. i \in DOMAIN partitions /\ partitions'[i] = partitions[i]
          BY <1>0, <2>3, <3>2
        <4> QED BY <4>1 DEF PartitionsInv, PartitionsAreSmall
      <3> QED BY <3>1, <3>2
    <2>12. phase' = "split" => cut' \in InnerBounds(file)'
      BY <2>1, <2>10 DEF Follows
    <2> QED BY <2>1, <2>4, <2>5, <2>6, <2>7, <2>9, <2>11, <2>12 DEF PartitionsInv
  <1>4. CASE InitGlobalReturns
    BY <1>4, PartitionsInvStable DEF InitGlobalReturns
  <1> QED BY <1>1, <1>2, <1>3, <1>4 DEF PartitionsNext

-----------------------------------------------------------------------------
(* The scan of the partitions by threads.                                  *)

\* Thread t has claimed a partition and not yet counted it as finished.
Holding(t) == pc[t] = "open" \/ (iterator[t] /\ pc[t] \in {"ready", "loop", "return"})

Holders == {t \in Threads : Holding(t)}

\* Thread t has still to write a row for m: it claimed the partition of m and
\* has not opened it, or its view has not yielded m yet.
Pending(t, m) ==
  \/ pc[t] = "open" /\ m \in View(partitions[part[t]])
  \/ pc[t] # "open" /\ iterator[t] /\ m \in left[t]

\* The local state of one thread.
ThreadOK(t) ==
  /\ pc[t] \in {"off", "start", "finished"} => ~iterator[t]
  /\ pc[t] \in {"claim", "open"} => /\ caller[t] = "init" => ~iterator[t]
                                    /\ iterator[t] => left[t] = {}
  /\ Holding(t) => part[t] \in DOMAIN partitions /\ part[t] <= next_partition
  /\ iterator[t] /\ pc[t] \in {"ready", "loop", "return"} =>
       /\ left[t] \subseteq View(partitions[part[t]])
       /\ open[t] = partitions[part[t]].file
  /\ ~iterator[t] /\ pc[t] \in {"ready", "loop", "return", "finished"} =>
       next_partition >= Len(partitions)
  /\ pc[t] = "return" => ~iterator[t] \/ count[t] > 0
  /\ decoders[t] \subseteq {open[t]}

\* No partition is in the hands of two threads.
Exclusive ==
  \A t, u \in Threads : Holding(t) /\ Holding(u) /\ part[t] = part[u] => t = u

\* The rows written so far are those of the claimed partitions, less what a
\* thread has still pending.
RowsAccounted ==
  \A m \in Messages :
    /\ rows[m] \in {0, 1}
    /\ rows[m] = 1 => \E i \in DOMAIN partitions :
                        i <= next_partition /\ m \in View(partitions[i])
    /\ \A t \in Threads : Pending(t, m) => rows[m] = 0
    /\ \A i \in DOMAIN partitions :
         i <= next_partition /\ m \in View(partitions[i]) =>
           rows[m] = 1 \/ \E t \in Threads : Pending(t, m)

\* Every claimed partition is finished or held by a thread.
Claimed == IF next_partition < Len(partitions) THEN next_partition ELSE Len(partitions)
CountsAgree == finished_partitions + Cardinality(Holders) = Claimed

\* The threads work only after the partitions are complete.
PhaseOK ==
  /\ phase \in {"open", "split", "built"} =>
       next_partition = 0 /\ \A t \in Threads : pc[t] = "off"
  /\ phase \in {"running", "done"} => \E t \in Threads : pc[t] # "off"
  /\ phase = "done" => \A t \in Threads : pc[t] \in {"off", "finished"}

ScanInv ==
  /\ TypeOK
  /\ PartitionsInv
  /\ \A t \in Threads : ThreadOK(t)
  /\ Exclusive
  /\ RowsAccounted
  /\ CountsAgree
  /\ PhaseOK

-----------------------------------------------------------------------------
(* Facts about partitions, messages and holders. *)

\* A message is in the view of at most one partition, and what is viewed is
\* wanted.
LEMMA OneHome ==
  ASSUME PartitionsInv, NEW m \in Messages, NEW i \in DOMAIN partitions, m \in View(partitions[i])
  PROVE  /\ m \in Wanted
         /\ \A j \in DOMAIN partitions : m \in View(partitions[j]) => i = j
  <1>1. FileOf[m] \in Files /\ LogTime[m] \in Times
    BY McapScanAssumption
  <1>2. \A j \in DOMAIN partitions : m \in View(partitions[j]) =>
          Reads(partitions[j], FileOf[m], LogTime[m])
    BY DEF View
  <1>3. \A j \in DOMAIN partitions : m \in View(partitions[j]) => i = j
    BY <1>1, <1>2 DEF PartitionsInv, PartitionsPartition
  <1>4. lo <= LogTime[m] /\ LogTime[m] < hi
    <2>1. /\ lo <= partitions[i].start /\ partitions[i].end <= hi
          /\ partitions[i].start <= LogTime[m] /\ LogTime[m] < partitions[i].end
      BY <1>2 DEF PartitionsInv, PartitionsInWindow, Reads
    <2>2. /\ lo \in Times /\ hi \in Times
          /\ partitions[i].start \in Times /\ partitions[i].end \in Times
      <3>1. partitions \in Seq(Partition) /\ pushdown \in Pushdowns
        BY DEF PartitionsInv, PartitionsTypeOK
      <3>2. partitions[i] \in Partition
        BY <3>1
      <3> QED BY <3>1, <3>2, WindowType DEF Partition
    <2> QED BY <1>1, <2>1, <2>2, TimesInt
  <1>5. PassesTopicFilter(m)
    BY DEF View
  <1> QED BY <1>3, <1>4, <1>5 DEF Wanted

\* Once the partitions are complete every wanted message is in the view of one.
LEMMA EveryHome ==
  ASSUME PartitionsInv, phase \in {"built", "running", "done"}, NEW m \in Wanted
  PROVE  \E i \in DOMAIN partitions : m \in View(partitions[i])
  <1>1. m \in Messages /\ FileOf[m] \in Files /\ LogTime[m] \in Times
    BY McapScanAssumption DEF Wanted
  <1>2. CutUpTo(FileOf[m]) = hi
    BY <1>1, PartitionsAssumption DEF PartitionsInv, CutUpTo, Files
  <1>3. PICK i \in DOMAIN partitions : Reads(partitions[i], FileOf[m], LogTime[m])
    BY <1>1, <1>2 DEF PartitionsInv, PartitionsPartition, Wanted
  <1>4. m \in View(partitions[i])
    BY <1>1, <1>3 DEF View, Wanted
  <1> QED BY <1>4

LEMMA HoldersFinite == IsFiniteSet(Holders) /\ Cardinality(Holders) \in Nat
  <1>1. Holders \subseteq Threads
    BY DEF Holders
  <1> QED BY <1>1, McapScanAssumption, FS_Subset, FS_CardinalityType

\* How a step of one thread changes the number of holders.
LEMMA HoldersChange ==
  ASSUME NEW t \in Threads,
         \A u \in Threads \ {t} : Holding(u)' <=> Holding(u)
  PROVE  /\ (Holding(t) <=> Holding(t)') => Holders' = Holders
         /\ ~Holding(t) /\ Holding(t)' => Cardinality(Holders') = Cardinality(Holders) + 1
         /\ Holding(t) /\ ~Holding(t)' => Cardinality(Holders') = Cardinality(Holders) - 1
  <1>1. (Holding(t) <=> Holding(t)') => Holders' = Holders
    BY DEF Holders
  <1>2. ASSUME ~Holding(t), Holding(t)'
        PROVE  Cardinality(Holders') = Cardinality(Holders) + 1
    <2>1. Holders' = Holders \cup {t} /\ t \notin Holders
      BY <1>2 DEF Holders
    <2> QED BY <2>1, HoldersFinite, FS_AddElement
  <1>3. ASSUME Holding(t), ~Holding(t)'
        PROVE  Cardinality(Holders') = Cardinality(Holders) - 1
    <2>1. Holders' = Holders \ {t} /\ t \in Holders
      BY <1>3 DEF Holders
    <2> QED BY <2>1, HoldersFinite, FS_RemoveElement
  <1> QED BY <1>1, <1>2, <1>3

-----------------------------------------------------------------------------
(* Steps of a thread.                                                      *)
(*                                                                         *)
(* ThreadOnly(t) is what every step of thread t has in common: the         *)
(* partitions and the other threads are as they were, and next_partition   *)
(* only grows.                                                             *)

ThreadOnly(t) ==
  /\ UNCHANGED partitionVars
  /\ next_partition' \in {next_partition, next_partition + 1}
  /\ \A u \in Threads \ {t} :
       /\ pc'[u] = pc[u] /\ caller'[u] = caller[u] /\ part'[u] = part[u]
       /\ open'[u] = open[u] /\ decoders'[u] = decoders[u] /\ iterator'[u] = iterator[u]
       /\ left'[u] = left[u] /\ count'[u] = count[u]

LEMMA ThreadStepsAreLocal ==
  ASSUME TypeOK, NEW t \in Threads, ThreadStep(t)
  PROVE  ThreadOnly(t)
  <1> USE DEF TypeOK, ThreadOnly
  <1>1. CASE InitLocal(t)
    BY <1>1 DEF InitLocal
  <1>2. CASE ClaimPartition(t)
    BY <1>2 DEF ClaimPartition
  <1>3. CASE NoPartitionLeft(t)
    BY <1>3 DEF NoPartitionLeft
  <1>4. CASE OpenPartition(t)
    BY <1>4 DEF OpenPartition
  <1>5. CASE Call(t)
    BY <1>5 DEF Call
  <1>6. CASE \E m \in Messages : WriteRow(t, m)
    BY <1>6 DEF WriteRow
  <1>7. CASE PartitionExhausted(t)
    BY <1>7 DEF PartitionExhausted
  <1>8. CASE LeaveLoop(t)
    BY <1>8 DEF LeaveLoop
  <1>9. CASE Return(t)
    BY <1>9 DEF Return
  <1> QED BY <1>1, <1>2, <1>3, <1>4, <1>5, <1>6, <1>7, <1>8, <1>9 DEF ThreadStep

\* The other threads keep their invariant, what they hold and what they have
\* pending.
LEMMA OtherThreads ==
  ASSUME ScanInv, NEW t \in Threads, ThreadOnly(t), NEW u \in Threads \ {t}
  PROVE  /\ ThreadOK(u)'
         /\ Holding(u)' <=> Holding(u)
         /\ \A m \in Messages : Pending(u, m)' <=> Pending(u, m)
  <1>1. /\ pc'[u] = pc[u] /\ caller'[u] = caller[u] /\ part'[u] = part[u]
        /\ open'[u] = open[u] /\ decoders'[u] = decoders[u] /\ iterator'[u] = iterator[u]
        /\ left'[u] = left[u] /\ count'[u] = count[u]
        /\ partitions' = partitions /\ pushdown' = pushdown
        /\ next_partition' \in {next_partition, next_partition + 1} /\ next_partition \in Nat
    BY DEF ThreadOnly, partitionVars, ScanInv, TypeOK
  <1>2. View(partitions[part[u]])' = View(partitions[part[u]])
    BY <1>1 DEF View, PassesTopicFilter, Reads
  <1>3. Holding(u)' <=> Holding(u)
    BY <1>1 DEF Holding
  <1>4. \A m \in Messages : Pending(u, m)' <=> Pending(u, m)
    BY <1>1, <1>2 DEF Pending
  <1>5. ThreadOK(u)'
    <2>1. ThreadOK(u) /\ Len(partitions) \in Nat /\ part[u] \in Nat
      BY DEF ScanInv, TypeOK, PartitionsInv, PartitionsTypeOK
    <2> QED BY <1>1, <1>2, <1>3, <2>1 DEF ThreadOK
  <1> QED BY <1>3, <1>4, <1>5

\* What is left to show of one step of a running thread.
LEMMA ThreadStepSuffices ==
  ASSUME ScanInv, NEW t \in Threads, ThreadOnly(t), phase = "running", pc[t] # "off",
         TypeOK', pc'[t] # "off", ThreadOK(t)', RowsAccounted', CountsAgree',
         Holding(t)' => \/ Holding(t) /\ part'[t] = part[t]
                        \/ part'[t] = next_partition + 1
  PROVE  ScanInv'
  <1>1. PartitionsInv'
    <2>1. /\ PartitionsInv /\ UNCHANGED <<pushdown, file, cut, partitions>> /\ phase' = phase
          /\ phase \in {"built", "running", "done"} => file = NumFiles
      BY DEF ScanInv, PartitionsInv, ThreadOnly, partitionVars
    <2> QED BY <2>1, PartitionsInvStable
  <1>2. \A u \in Threads : ThreadOK(u)'
    BY OtherThreads
  <1>3. PhaseOK'
    BY DEF PhaseOK, ScanInv, ThreadOnly, partitionVars
  <1>4. Exclusive'
    <2> SUFFICES ASSUME NEW u \in Threads, NEW v \in Threads, u # v,
                        Holding(u)', Holding(v)', part'[u] = part'[v]
                 PROVE  FALSE
      BY DEF Exclusive
    <2>1. \A w \in Threads \ {t} : part'[w] = part[w] /\ (Holding(w)' <=> Holding(w))
      BY OtherThreads DEF ThreadOnly
    <2>2. \A w \in Threads : Holding(w) => part[w] <= next_partition /\ part[w] \in Nat
      BY DEF ScanInv, ThreadOK, TypeOK
    <2>3. next_partition \in Nat
      BY DEF ScanInv, TypeOK
    <2>4. CASE u = t
      BY <2>1, <2>2, <2>3, <2>4 DEF ScanInv, Exclusive
    <2>5. CASE v = t
      BY <2>1, <2>2, <2>3, <2>5 DEF ScanInv, Exclusive
    <2>6. CASE u # t /\ v # t
      BY <2>1, <2>6 DEF ScanInv, Exclusive
    <2> QED BY <2>4, <2>5, <2>6
  <1> QED BY <1>1, <1>2, <1>3, <1>4 DEF ScanInv

\* A step that writes no row, claims no partition and leaves what the thread
\* has pending.
LEMMA QuietStep ==
  ASSUME ScanInv, NEW t \in Threads, ThreadOnly(t), UNCHANGED rows,
         \A m \in Messages : Pending(t, m)' <=> Pending(t, m),
         next_partition' = next_partition \/ next_partition >= Len(partitions)
  PROVE  RowsAccounted'
  <1> SUFFICES ASSUME NEW m \in Messages
               PROVE  /\ rows'[m] \in {0, 1}
                      /\ rows'[m] = 1 => \E i \in DOMAIN partitions' :
                           i <= next_partition' /\ m \in View(partitions[i])'
                      /\ \A u \in Threads : Pending(u, m)' => rows'[m] = 0
                      /\ \A i \in DOMAIN partitions' :
                           i <= next_partition' /\ m \in View(partitions[i])' =>
                             rows'[m] = 1 \/ \E u \in Threads : Pending(u, m)'
    BY DEF RowsAccounted
  <1>1. /\ partitions' = partitions /\ pushdown' = pushdown /\ rows' = rows
        /\ next_partition \in Nat /\ next_partition' \in {next_partition, next_partition + 1}
        /\ Len(partitions) \in Nat /\ DOMAIN partitions = 1 .. Len(partitions)
    BY DEF ThreadOnly, partitionVars, ScanInv, TypeOK, PartitionsInv, PartitionsTypeOK
  <1>2. \A i \in DOMAIN partitions : View(partitions[i])' = View(partitions[i])
    BY <1>1 DEF View, PassesTopicFilter, Reads
  <1>3. \A u \in Threads : Pending(u, m)' <=> Pending(u, m)
    BY OtherThreads
  <1>4. \A i \in DOMAIN partitions : i <= next_partition' <=> i <= next_partition
    BY <1>1
  <1> QED BY <1>1, <1>2, <1>3, <1>4 DEF ScanInv, RowsAccounted

\* The types the steps below rely on.
LEMMA ScanTypes ==
  ASSUME ScanInv, NEW t \in Threads
  PROVE  /\ next_partition \in Nat /\ finished_partitions \in Nat
         /\ Len(partitions) \in Nat /\ DOMAIN partitions = 1 .. Len(partitions)
         /\ part[t] \in Nat /\ count[t] \in 0 .. VectorSize /\ VectorSize \in Nat \ {0}
         /\ iterator[t] \in BOOLEAN /\ left[t] \in SUBSET Messages
         /\ open[t] \in 0 .. NumFiles /\ decoders[t] \in SUBSET Files
         /\ caller[t] \in {"init", "scan"}
         /\ \A i \in DOMAIN partitions : partitions[i].file \in Files
         /\ Claimed \in Nat
         /\ Cardinality(Holders) \in Nat
         /\ finished_partitions + Cardinality(Holders) = Claimed
         /\ ThreadOK(t)
  <1>1. partitions \in Seq(Partition)
    BY DEF ScanInv, PartitionsInv, PartitionsTypeOK
  <1>2. Len(partitions) \in Nat /\ DOMAIN partitions = 1 .. Len(partitions)
    BY <1>1
  <1>3. ASSUME NEW i \in DOMAIN partitions PROVE partitions[i].file \in Files
    <2>1. partitions[i] \in Partition
      BY <1>1, <1>2
    <2> QED BY <2>1 DEF Partition
  <1>4. Claimed \in Nat
    BY <1>2 DEF Claimed, ScanInv, TypeOK
  <1>5. finished_partitions + Cardinality(Holders) = Claimed /\ ThreadOK(t)
    BY DEF ScanInv, CountsAgree
  <1> QED BY <1>2, <1>3, <1>4, <1>5, HoldersFinite, McapScanAssumption DEF ScanInv, TypeOK

\* A step that neither claims nor finishes a partition leaves the counts.
LEMMA CountsStay ==
  ASSUME ScanInv, NEW t \in Threads, ThreadOnly(t), Holding(t)' <=> Holding(t),
         finished_partitions' = finished_partitions,
         next_partition' = next_partition \/ next_partition >= Len(partitions)
  PROVE  CountsAgree'
  <1>1. Holders' = Holders
    BY OtherThreads, HoldersChange
  <1>2. Claimed' = Claimed
    BY ScanTypes DEF Claimed, ThreadOnly, partitionVars
  <1> QED BY <1>1, <1>2 DEF ScanInv, CountsAgree

LEMMA InitLocalInv ==
  ASSUME ScanInv, NEW t \in Threads, InitLocal(t) PROVE ScanInv'
  <1>1. /\ ThreadOnly(t) /\ phase = "running" /\ pc[t] = "start"
        /\ UNCHANGED <<finished_partitions, rows, next_partition, part>>
        /\ pc'[t] = "claim" /\ caller'[t] = "init" /\ iterator'[t] = iterator[t]
        /\ left'[t] = left[t] /\ decoders'[t] = decoders[t] /\ open'[t] = open[t]
    BY ThreadStepsAreLocal DEF InitLocal, Running, ScanInv, TypeOK, ThreadStep
  <1>2. TypeOK'
    BY DEF InitLocal, Running, ScanInv, TypeOK, PartitionsTypeOK, partitionVars
  <1>3. ~iterator[t]
    BY <1>1, ScanTypes DEF ThreadOK
  <1>4. ThreadOK(t)' /\ ~Holding(t) /\ ~Holding(t)'
    BY <1>1, <1>3, ScanTypes DEF ThreadOK, Holding
  <1>5. \A m \in Messages : Pending(t, m)' <=> Pending(t, m)
    BY <1>1, <1>3 DEF Pending
  <1> QED BY <1>1, <1>2, <1>4, <1>5, QuietStep, CountsStay, ThreadStepSuffices

LEMMA NoPartitionLeftInv ==
  ASSUME ScanInv, NEW t \in Threads, NoPartitionLeft(t) PROVE ScanInv'
  <1>1. /\ ThreadOnly(t) /\ phase = "running" /\ pc[t] = "claim"
        /\ UNCHANGED <<partitionVars, finished_partitions, rows, part, left, open, decoders, count>>
        /\ next_partition >= Len(partitions) /\ next_partition' = next_partition + 1
        /\ caller[t] = "init" => pc'[t] = "ready" /\ iterator'[t] = iterator[t]
        /\ caller[t] # "init" => pc'[t] = "return" /\ iterator'[t] = FALSE
    BY ThreadStepsAreLocal DEF NoPartitionLeft, Running, ScanInv, TypeOK, ThreadStep
  <1>2. TypeOK'
    <2>1. /\ pc' \in [Threads -> {"off", "start", "claim", "open", "ready", "loop", "return",
                                  "finished"}]
          /\ iterator' \in [Threads -> BOOLEAN]
      BY DEF NoPartitionLeft, ScanInv, TypeOK
    <2>2. UNCHANGED <<partitionVars, finished_partitions, caller, part, open, decoders, left,
                      count, rows>>
      BY DEF NoPartitionLeft
    <2> QED BY <1>1, <2>1, <2>2 DEF ScanInv, TypeOK, PartitionsTypeOK, partitionVars
  <1>3. ~iterator'[t] /\ (iterator[t] => left[t] = {}) /\ pc'[t] \in {"ready", "return"}
    BY <1>1, ScanTypes DEF ThreadOK
  <1>4. ThreadOK(t)' /\ ~Holding(t) /\ ~Holding(t)'
    BY <1>1, <1>3, ScanTypes DEF ThreadOK, Holding, partitionVars
  <1>5. \A m \in Messages : Pending(t, m)' <=> Pending(t, m)
    BY <1>1, <1>3 DEF Pending
  <1> QED BY <1>1, <1>2, <1>3, <1>4, <1>5, QuietStep, CountsStay, ThreadStepSuffices

LEMMA CallInv ==
  ASSUME ScanInv, NEW t \in Threads, Call(t) PROVE ScanInv'
  <1>1. /\ ThreadOnly(t) /\ phase = "running" /\ pc[t] = "ready" /\ pc'[t] = "loop"
        /\ UNCHANGED <<partitionVars, next_partition, finished_partitions, rows, caller, part,
                       left, open, decoders, iterator>>
    BY ThreadStepsAreLocal DEF Call, Running, ScanInv, TypeOK, ThreadStep
  <1>2. TypeOK'
    <2>1. 0 \in 0 .. VectorSize
      BY ScanTypes
    <2>2. count' \in [Threads -> 0 .. VectorSize]
      BY <2>1 DEF Call, ScanInv, TypeOK
    <2>3. pc' \in [Threads -> {"off", "start", "claim", "open", "ready", "loop", "return",
                               "finished"}]
      BY DEF Call, ScanInv, TypeOK
    <2>4. UNCHANGED <<partitionVars, next_partition, finished_partitions, caller, part, open,
                      decoders, iterator, left, rows>>
      BY DEF Call
    <2> QED BY <2>2, <2>3, <2>4 DEF ScanInv, TypeOK, PartitionsTypeOK, partitionVars
  <1>3. View(partitions[part[t]])' = View(partitions[part[t]])
    BY <1>1 DEF partitionVars, View, PassesTopicFilter, Reads
  <1>4. ThreadOK(t)' /\ (Holding(t)' <=> Holding(t))
    BY <1>1, <1>3, ScanTypes DEF ThreadOK, Holding, partitionVars
  <1>5. \A m \in Messages : Pending(t, m)' <=> Pending(t, m)
    BY <1>1 DEF Pending
  <1> QED BY <1>1, <1>2, <1>4, <1>5, QuietStep, CountsStay, ThreadStepSuffices

LEMMA LeaveLoopInv ==
  ASSUME ScanInv, NEW t \in Threads, LeaveLoop(t) PROVE ScanInv'
  <1>1. /\ ThreadOnly(t) /\ phase = "running" /\ pc[t] = "loop" /\ pc'[t] = "return"
        /\ UNCHANGED <<partitionVars, next_partition, finished_partitions, rows, caller, part,
                       left, open, decoders, iterator, count>>
        /\ count[t] = VectorSize \/ ~iterator[t]
    BY ThreadStepsAreLocal DEF LeaveLoop, Running, ScanInv, TypeOK, ThreadStep
  <1>2. TypeOK'
    BY DEF LeaveLoop, Running, ScanInv, TypeOK, PartitionsTypeOK, partitionVars
  <1>3. View(partitions[part[t]])' = View(partitions[part[t]])
    BY <1>1 DEF partitionVars, View, PassesTopicFilter, Reads
  <1>4. ThreadOK(t)' /\ (Holding(t)' <=> Holding(t))
    BY <1>1, <1>3, ScanTypes DEF ThreadOK, Holding, partitionVars
  <1>5. \A m \in Messages : Pending(t, m)' <=> Pending(t, m)
    BY <1>1 DEF Pending
  <1> QED BY <1>1, <1>2, <1>4, <1>5, QuietStep, CountsStay, ThreadStepSuffices

LEMMA ReturnInv ==
  ASSUME ScanInv, NEW t \in Threads, Return(t) PROVE ScanInv'
  <1>1. /\ ThreadOnly(t) /\ phase = "running" /\ pc[t] = "return"
        /\ pc'[t] = IF count[t] = 0 THEN "finished" ELSE "ready"
        /\ UNCHANGED <<partitionVars, next_partition, finished_partitions, rows, caller, part,
                       left, open, decoders, iterator, count>>
    BY ThreadStepsAreLocal DEF Return, Running, ScanInv, TypeOK, ThreadStep
  <1>2. TypeOK'
    BY DEF Return, Running, ScanInv, TypeOK, PartitionsTypeOK, partitionVars
  <1>3. View(partitions[part[t]])' = View(partitions[part[t]])
    BY <1>1 DEF partitionVars, View, PassesTopicFilter, Reads
  <1>4. pc'[t] \in {"finished", "ready"} /\ (pc'[t] = "finished" => ~iterator[t])
    BY <1>1, ScanTypes DEF ThreadOK
  <1>5. ThreadOK(t)' /\ (Holding(t)' <=> Holding(t))
    BY <1>1, <1>3, <1>4, ScanTypes DEF ThreadOK, Holding, partitionVars
  <1>6. \A m \in Messages : Pending(t, m)' <=> Pending(t, m)
    BY <1>1, <1>4 DEF Pending
  <1> QED BY <1>1, <1>2, <1>4, <1>5, <1>6, QuietStep, CountsStay, ThreadStepSuffices

LEMMA PartitionExhaustedInv ==
  ASSUME ScanInv, NEW t \in Threads, PartitionExhausted(t) PROVE ScanInv'
  <1>1. /\ ThreadOnly(t) /\ phase = "running" /\ pc[t] = "loop" /\ pc'[t] = "claim"
        /\ UNCHANGED <<partitionVars, next_partition, rows, part,
                       left, open, decoders, iterator, count>>
        /\ caller'[t] = "scan" /\ iterator[t] /\ left[t] = {}
        /\ finished_partitions' = finished_partitions + 1
    BY ThreadStepsAreLocal DEF PartitionExhausted, Running, ScanInv, TypeOK, ThreadStep
  <1>2. TypeOK'
    BY DEF PartitionExhausted, Running, ScanInv, TypeOK, PartitionsTypeOK, partitionVars
  <1>3. ThreadOK(t)' /\ Holding(t) /\ ~Holding(t)'
    BY <1>1, ScanTypes DEF ThreadOK, Holding, partitionVars
  <1>4. \A m \in Messages : Pending(t, m)' <=> Pending(t, m)
    BY <1>1 DEF Pending
  <1>5. CountsAgree'
    <2>1. Cardinality(Holders') = Cardinality(Holders) - 1
      BY <1>1, <1>3, OtherThreads, HoldersChange
    <2>2. Claimed' = Claimed
      BY <1>1 DEF Claimed, partitionVars
    <2> QED BY <1>1, <2>1, <2>2, ScanTypes DEF CountsAgree
  <1> QED BY <1>1, <1>2, <1>3, <1>4, <1>5, QuietStep, ThreadStepSuffices

\* The claim of a partition nobody has claimed before: none of its messages is
\* a row yet, and now they are pending for thread t.
LEMMA ClaimPartitionInv ==
  ASSUME ScanInv, NEW t \in Threads, ClaimPartition(t) PROVE ScanInv'
  <1> DEFINE k == next_partition + 1
  <1>1. /\ ThreadOnly(t) /\ phase = "running" /\ pc[t] = "claim" /\ pc'[t] = "open"
        /\ UNCHANGED <<partitionVars, finished_partitions, rows, caller,
                       left, open, decoders, iterator, count>>
        /\ next_partition < Len(partitions) /\ next_partition' = k /\ part'[t] = k
    BY ThreadStepsAreLocal DEF ClaimPartition, Running, ScanInv, TypeOK, ThreadStep
  <1>2. TypeOK'
    BY DEF ClaimPartition, Running, ScanInv, TypeOK, PartitionsTypeOK, partitionVars
  <1>3. k \in DOMAIN partitions /\ k \in Nat
    BY <1>1, ScanTypes
  <1>4. ThreadOK(t)' /\ ~Holding(t) /\ Holding(t)'
    BY <1>1, <1>3, ScanTypes DEF ThreadOK, Holding, partitionVars
  <1>5. CountsAgree'
    <2>1. Cardinality(Holders') = Cardinality(Holders) + 1
      BY <1>1, <1>4, OtherThreads, HoldersChange
    <2>2. Claimed' = Claimed + 1
      BY <1>1, ScanTypes DEF Claimed, partitionVars
    <2> QED BY <1>1, <2>1, <2>2, ScanTypes DEF CountsAgree
  <1>6. RowsAccounted'
    <2> SUFFICES ASSUME NEW m \in Messages
                 PROVE  /\ rows'[m] \in {0, 1}
                        /\ rows'[m] = 1 => \E i \in DOMAIN partitions' :
                             i <= next_partition' /\ m \in View(partitions[i])'
                        /\ \A u \in Threads : Pending(u, m)' => rows'[m] = 0
                        /\ \A i \in DOMAIN partitions' :
                             i <= next_partition' /\ m \in View(partitions[i])' =>
                               rows'[m] = 1 \/ \E u \in Threads : Pending(u, m)'
      BY DEF RowsAccounted
    <2>1. /\ partitions' = partitions /\ pushdown' = pushdown /\ rows' = rows
          /\ rows[m] \in {0, 1}
      BY <1>1 DEF partitionVars, ScanInv, RowsAccounted
    <2>2. \A i \in DOMAIN partitions : View(partitions[i])' = View(partitions[i])
      BY <2>1 DEF View, PassesTopicFilter, Reads
    <2>3. \A i \in DOMAIN partitions : i <= next_partition' <=> i <= next_partition \/ i = k
      BY <1>1, ScanTypes
    <2>4. Pending(t, m)' <=> m \in View(partitions[k])
      <3>1. View(partitions[part[t]])' = View(partitions[k])
        BY <1>1, <2>1 DEF View, PassesTopicFilter, Reads
      <3> QED BY <1>1, <3>1 DEF Pending
    <2>5. ~Pending(t, m)
      BY <1>1, ScanTypes DEF Pending, ThreadOK
    <2>6. \A u \in Threads \ {t} : Pending(u, m)' <=> Pending(u, m)
      BY <1>1, OtherThreads
    <2>7. m \in View(partitions[k]) => rows[m] = 0
      <3> SUFFICES ASSUME m \in View(partitions[k]), rows[m] = 1 PROVE FALSE
        BY <2>1
      <3>1. PICK i \in DOMAIN partitions : i <= next_partition /\ m \in View(partitions[i])
        BY DEF ScanInv, RowsAccounted
      <3>2. i = k
        BY <1>3, <3>1, OneHome DEF ScanInv
      <3> QED BY <3>1, <3>2, ScanTypes
    <2>8. \A u \in Threads : Pending(u, m)' => rows'[m] = 0
      BY <2>1, <2>4, <2>6, <2>7 DEF ScanInv, RowsAccounted
    <2>9. ASSUME NEW i \in DOMAIN partitions, i <= next_partition', m \in View(partitions[i])
          PROVE  rows'[m] = 1 \/ \E u \in Threads : Pending(u, m)'
      <3>1. CASE i = k
        BY <2>4, <2>9, <3>1
      <3>2. CASE i <= next_partition
        <4>1. rows[m] = 1 \/ \E u \in Threads : Pending(u, m)
          BY <2>9, <3>2 DEF ScanInv, RowsAccounted
        <4> QED BY <2>1, <2>5, <2>6, <4>1
      <3> QED BY <2>3, <2>9, <3>1, <3>2
    <2>10. rows'[m] = 1 => \E i \in DOMAIN partitions' :
             i <= next_partition' /\ m \in View(partitions[i])'
      BY <2>1, <2>2, <2>3 DEF ScanInv, RowsAccounted
    <2> QED BY <2>1, <2>2, <2>8, <2>9, <2>10
  <1> QED BY <1>1, <1>2, <1>4, <1>5, <1>6, ThreadStepSuffices

LEMMA OpenPartitionInv ==
  ASSUME ScanInv, NEW t \in Threads, OpenPartition(t) PROVE ScanInv'
  <1> DEFINE p == partitions[part[t]]
  <1>1. /\ ThreadOnly(t) /\ phase = "running" /\ pc[t] = "open"
        /\ UNCHANGED <<partitionVars, next_partition, finished_partitions, rows, caller, part,
                       count>>
        /\ open'[t] = p.file /\ left'[t] = View(p) /\ iterator'[t] = TRUE
        /\ decoders'[t] = IF open[t] = p.file THEN decoders[t] ELSE {}
        /\ pc'[t] = IF caller[t] = "init" THEN "ready" ELSE "loop"
    BY ThreadStepsAreLocal DEF OpenPartition, Running, ScanInv, TypeOK, ThreadStep
  <1>2. part[t] \in DOMAIN partitions /\ p.file \in Files /\ View(p) \in SUBSET Messages
    BY <1>1, ScanTypes DEF ThreadOK, Holding, View
  <1>3. TypeOK'
    <2>1. /\ open' \in [Threads -> 0 .. NumFiles] /\ left' \in [Threads -> SUBSET Messages]
          /\ iterator' \in [Threads -> BOOLEAN] /\ decoders' \in [Threads -> SUBSET Files]
      BY <1>2, PartitionsAssumption DEF OpenPartition, ScanInv, TypeOK, Files
    <2>2. pc' \in [Threads -> {"off", "start", "claim", "open", "ready", "loop", "return",
                               "finished"}]
      BY DEF OpenPartition, ScanInv, TypeOK
    <2> QED BY <1>1, <2>1, <2>2 DEF ScanInv, TypeOK, PartitionsTypeOK, partitionVars
  <1>4. View(partitions[part[t]])' = View(p)
    BY <1>1 DEF partitionVars, View, PassesTopicFilter, Reads
  <1>5. pc'[t] \in {"ready", "loop"}
    BY <1>1
  <1>6. ThreadOK(t)' /\ Holding(t) /\ Holding(t)'
    BY <1>1, <1>2, <1>4, <1>5, ScanTypes DEF ThreadOK, Holding, partitionVars
  <1>7. \A m \in Messages : Pending(t, m)' <=> Pending(t, m)
    BY <1>1, <1>5 DEF Pending
  <1> QED BY <1>1, <1>3, <1>5, <1>6, <1>7, QuietStep, CountsStay, ThreadStepSuffices

\* A row is written for a message that was pending for t, so it was no row
\* before, and it is pending for no other thread: that thread would hold the
\* same partition.
LEMMA WriteRowInv ==
  ASSUME ScanInv, NEW t \in Threads, NEW x \in Messages, WriteRow(t, x) PROVE ScanInv'
  <1>1. /\ ThreadOnly(t) /\ phase = "running" /\ pc[t] = "loop" /\ pc'[t] = "loop"
        /\ UNCHANGED <<partitionVars, next_partition, finished_partitions, caller, part,
                       iterator, open>>
        /\ iterator[t] /\ x \in left[t] /\ left'[t] = left[t] \ {x}
        /\ count[t] < VectorSize /\ count'[t] = count[t] + 1
        /\ decoders'[t] = IF x \in Decoded THEN decoders[t] \cup {open[t]} ELSE decoders[t]
        /\ \A m \in Messages : rows'[m] = IF m = x THEN rows[m] + 1 ELSE rows[m]
    BY ThreadStepsAreLocal DEF WriteRow, Running, ScanInv, TypeOK, ThreadStep
  <1>2. /\ Holding(t) /\ part[t] \in DOMAIN partitions /\ part[t] <= next_partition
        /\ left[t] \subseteq View(partitions[part[t]])
        /\ open[t] = partitions[part[t]].file /\ open[t] \in Files
    BY <1>1, ScanTypes DEF ThreadOK, Holding
  <1>3. TypeOK'
    <2>1. count' \in [Threads -> 0 .. VectorSize]
      <3>1. count[t] + 1 \in 0 .. VectorSize
        BY <1>1, ScanTypes
      <3> QED BY <3>1 DEF WriteRow, ScanInv, TypeOK
    <2>2. left' \in [Threads -> SUBSET Messages]
      <3>1. left[t] \ {x} \in SUBSET Messages
        BY ScanTypes
      <3> QED BY <3>1 DEF WriteRow, ScanInv, TypeOK
    <2>3. decoders' \in [Threads -> SUBSET Files]
      <3>1. decoders[t] \cup {open[t]} \in SUBSET Files
        BY <1>2, ScanTypes
      <3> QED BY <3>1, ScanTypes DEF WriteRow, ScanInv, TypeOK
    <2>4. rows' \in [Messages -> Nat]
      <3>1. rows[x] + 1 \in Nat
        BY DEF ScanInv, TypeOK
      <3> QED BY <3>1 DEF WriteRow, ScanInv, TypeOK
    <2>5. UNCHANGED <<partitionVars, next_partition, finished_partitions, pc, caller, part, open,
                      iterator>>
      BY DEF WriteRow
    <2> QED BY <2>1, <2>2, <2>3, <2>4, <2>5 DEF ScanInv, TypeOK, PartitionsTypeOK, partitionVars
  <1>4. View(partitions[part[t]])' = View(partitions[part[t]])
    BY <1>1 DEF partitionVars, View, PassesTopicFilter, Reads
  <1>5. ThreadOK(t)' /\ (Holding(t)' <=> Holding(t))
    BY <1>1, <1>2, <1>4, ScanTypes DEF ThreadOK, Holding, partitionVars
  <1>6. /\ \A m \in Messages : Pending(t, m) <=> m \in left[t]
        /\ \A m \in Messages : Pending(t, m)' <=> m \in left[t] /\ m # x
    BY <1>1 DEF Pending
  <1>7. rows[x] = 0
    BY <1>1, <1>6 DEF ScanInv, RowsAccounted
  <1>8. \A u \in Threads \ {t} : ~Pending(u, x)
    <2> SUFFICES ASSUME NEW u \in Threads \ {t}, Pending(u, x) PROVE FALSE
      OBVIOUS
    <2>1. /\ pc[u] \in {"off", "start", "claim", "open", "ready", "loop", "return", "finished"}
          /\ ThreadOK(u)
      BY DEF ScanInv, TypeOK
    <2>2. Holding(u) /\ x \in View(partitions[part[u]])
      BY <2>1 DEF Pending, Holding, ThreadOK
    <2>3. part[u] \in DOMAIN partitions
      BY <2>1, <2>2 DEF ThreadOK
    <2>4. x \in View(partitions[part[t]])
      BY <1>1, <1>2
    <2>5. part[u] = part[t]
      BY <1>2, <2>2, <2>3, <2>4, OneHome DEF ScanInv
    <2> QED BY <1>2, <2>2, <2>5 DEF ScanInv, Exclusive
  <1>9. RowsAccounted'
    <2> SUFFICES ASSUME NEW m \in Messages
                 PROVE  /\ rows'[m] \in {0, 1}
                        /\ rows'[m] = 1 => \E i \in DOMAIN partitions' :
                             i <= next_partition' /\ m \in View(partitions[i])'
                        /\ \A u \in Threads : Pending(u, m)' => rows'[m] = 0
                        /\ \A i \in DOMAIN partitions' :
                             i <= next_partition' /\ m \in View(partitions[i])' =>
                               rows'[m] = 1 \/ \E u \in Threads : Pending(u, m)'
      BY DEF RowsAccounted
    <2>1. /\ partitions' = partitions /\ pushdown' = pushdown
          /\ next_partition' = next_partition
      BY <1>1 DEF partitionVars
    <2>2. \A i \in DOMAIN partitions : View(partitions[i])' = View(partitions[i])
      BY <2>1 DEF View, PassesTopicFilter, Reads
    <2>3. \A u \in Threads \ {t} : Pending(u, m)' <=> Pending(u, m)
      BY <1>1, OtherThreads
    <2>4. CASE m = x
      <3>1. rows'[m] = 1
        BY <1>1, <1>7, <2>4
      <3>2. \A u \in Threads : ~Pending(u, m)'
        BY <1>6, <1>8, <2>3, <2>4
      <3>3. m \in View(partitions[part[t]])
        BY <1>1, <1>2, <2>4
      <3> QED BY <1>2, <2>1, <2>2, <3>1, <3>2, <3>3
    <2>5. CASE m # x
      <3>1. rows'[m] = rows[m] /\ \A u \in Threads : Pending(u, m)' <=> Pending(u, m)
        BY <1>1, <1>6, <2>3, <2>5
      <3> QED BY <2>1, <2>2, <3>1 DEF ScanInv, RowsAccounted
    <2> QED BY <2>4, <2>5
  <1> QED BY <1>1, <1>3, <1>5, <1>9, CountsStay, ThreadStepSuffices

-----------------------------------------------------------------------------
(* The invariant, initially and over every step. *)

LEMMA ScanInvInit == Init => ScanInv
  <1> SUFFICES ASSUME Init PROVE ScanInv
    OBVIOUS
  <1>1. PartitionsInv /\ partitions = <<>> /\ phase = "open"
    BY PartitionsInvInit DEF Init, NoTasks, PartitionsInit, NoPartitions
  <1>2. Len(partitions) = 0 /\ DOMAIN partitions = {}
    BY <1>1
  <1>3. TypeOK
    BY <1>1, McapScanAssumption, PartitionsAssumption DEF Init, NoTasks, TypeOK, PartitionsInv, Files
  <1>4. \A t \in Threads : pc[t] = "off" /\ ~iterator[t] /\ ~Holding(t)
    BY DEF Init, NoTasks, Holding
  <1>5. \A t \in Threads : ThreadOK(t)
    BY <1>4 DEF Init, NoTasks, ThreadOK
  <1>6. Exclusive
    BY <1>4 DEF Exclusive
  <1>7. RowsAccounted
    BY <1>2, <1>4 DEF Init, NoTasks, RowsAccounted, Pending
  <1>8. CountsAgree
    <2>1. Holders = {}
      BY <1>4 DEF Holders
    <2>2. Cardinality(Holders) = 0
      BY <2>1, FS_EmptySet
    <2>3. next_partition = 0 /\ finished_partitions = 0
      BY DEF Init, NoTasks
    <2> QED BY <1>2, <2>2, <2>3 DEF CountsAgree, Claimed
  <1>9. PhaseOK
    BY <1>1, <1>4 DEF Init, NoTasks, PhaseOK
  <1> QED BY <1>1, <1>3, <1>5, <1>6, <1>7, <1>8, <1>9 DEF ScanInv

\* While the partitions are built, no thread holds or awaits anything.
LEMMA BeforeTheScan ==
  ASSUME ScanInv, phase \in {"open", "split", "built"}
  PROVE  /\ next_partition = 0 /\ finished_partitions = 0
         /\ \A m \in Messages : rows[m] = 0
         /\ \A t \in Threads : pc[t] = "off" /\ iterator[t] = FALSE /\ decoders[t] \subseteq {open[t]}
  <1>1. next_partition = 0 /\ \A t \in Threads : pc[t] = "off"
    BY DEF ScanInv, PhaseOK
  <1>2. \A t \in Threads : iterator[t] = FALSE /\ decoders[t] \subseteq {open[t]}
    BY <1>1 DEF ScanInv, ThreadOK, TypeOK
  <1>3. Len(partitions) \in Nat /\ DOMAIN partitions = 1 .. Len(partitions)
    BY DEF ScanInv, PartitionsInv, PartitionsTypeOK
  <1>4. \A m \in Messages : rows[m] = 0
    BY <1>1, <1>3 DEF ScanInv, RowsAccounted
  <1>5. finished_partitions = 0
    <2>1. Claimed = 0
      BY <1>1, <1>3 DEF Claimed
    <2>2. finished_partitions \in Nat /\ Cardinality(Holders) \in Nat
          /\ finished_partitions + Cardinality(Holders) = Claimed
      BY HoldersFinite DEF ScanInv, CountsAgree, TypeOK
    <2> QED BY <2>1, <2>2
  <1> QED BY <1>1, <1>2, <1>4, <1>5

\* Threads that have not claimed anything are in order whatever the partitions.
LEMMA IdleThreads ==
  ASSUME next_partition' = 0, finished_partitions' = 0, partitions' \in Seq(Partition),
         \A m \in Messages : rows'[m] = 0,
         \A t \in Threads : /\ pc'[t] \in {"off", "start"} /\ iterator'[t] = FALSE
                            /\ decoders'[t] \subseteq {open'[t]}
  PROVE  (\A t \in Threads : ThreadOK(t)') /\ Exclusive' /\ RowsAccounted' /\ CountsAgree'
  <1>1. \A t \in Threads : ~Holding(t)'
    BY DEF Holding
  <1>2. Len(partitions') \in Nat /\ DOMAIN partitions' = 1 .. Len(partitions')
    OBVIOUS
  <1>3. \A t \in Threads : ThreadOK(t)'
    BY <1>1 DEF ThreadOK
  <1>4. Exclusive'
    BY <1>1 DEF Exclusive
  <1>5. RowsAccounted'
    BY <1>2 DEF RowsAccounted, Pending
  <1>6. CountsAgree'
    <2>1. Holders' = {}
      BY <1>1 DEF Holders
    <2>2. Cardinality(Holders') = 0
      BY <2>1, FS_EmptySet
    <2>3. Claimed' = 0
      BY <1>2 DEF Claimed
    <2> QED BY <2>2, <2>3 DEF CountsAgree
  <1> QED BY <1>3, <1>4, <1>5, <1>6

LEMMA InitGlobalInv ==
  ASSUME ScanInv, InitGlobal PROVE ScanInv'
  <1>1. PartitionsNext /\ UNCHANGED scanVars
    BY DEF InitGlobal
  <1>2. PartitionsInv'
    BY <1>1, PartitionsInvStep DEF ScanInv
  <1>3. /\ phase \in {"open", "split"}
        /\ phase' \in {"open", "split", "built", "error"}
    BY <1>1 DEF PartitionsNext, OpenFile, OpenFileFails, PushPartition, InitGlobalReturns
  <1>4. TypeOK'
    BY <1>1, <1>2, <1>3 DEF ScanInv, TypeOK, PartitionsInv, scanVars, threadVars
  <1>5. partitions' \in Seq(Partition)
    BY <1>2 DEF PartitionsInv, PartitionsTypeOK
  <1>6. /\ next_partition' = 0 /\ finished_partitions' = 0
        /\ \A m \in Messages : rows'[m] = 0
        /\ \A t \in Threads : /\ pc'[t] = "off" /\ iterator'[t] = FALSE
                              /\ decoders'[t] \subseteq {open'[t]}
    BY <1>1, <1>3, BeforeTheScan DEF scanVars, threadVars
  <1>7. PhaseOK'
    BY <1>3, <1>6 DEF PhaseOK
  <1> QED BY <1>2, <1>4, <1>5, <1>6, <1>7, IdleThreads DEF ScanInv

LEMMA StartTasksInv ==
  ASSUME ScanInv, NEW tasks \in SUBSET Threads, StartTasks(tasks) PROVE ScanInv'
  <1>1. /\ phase = "built" /\ phase' = "running" /\ tasks # {}
        /\ UNCHANGED <<pushdown, file, cut, partitions>>
        /\ UNCHANGED <<next_partition, finished_partitions, caller, part, open, decoders,
                       iterator, left, count, rows>>
        /\ \A t \in Threads : pc'[t] = IF t \in tasks THEN "start" ELSE "off"
    BY DEF StartTasks
  <1>2. PartitionsInv'
    BY <1>1, PartitionsInvStable DEF ScanInv, PartitionsInv
  <1>3. TypeOK'
    BY <1>1, <1>2 DEF StartTasks, ScanInv, TypeOK, PartitionsInv
  <1>4. partitions' \in Seq(Partition)
    BY <1>2 DEF PartitionsInv, PartitionsTypeOK
  <1>5. /\ next_partition' = 0 /\ finished_partitions' = 0
        /\ \A m \in Messages : rows'[m] = 0
        /\ \A t \in Threads : /\ pc'[t] \in {"off", "start"} /\ iterator'[t] = FALSE
                              /\ decoders'[t] \subseteq {open'[t]}
    BY <1>1, BeforeTheScan
  <1>6. PhaseOK'
    BY <1>1 DEF PhaseOK
  <1> QED BY <1>2, <1>3, <1>4, <1>5, <1>6, IdleThreads DEF ScanInv

\* The steps that end the query, and stuttering, leave all but the phase.
LEMMA EndInv ==
  ASSUME ScanInv, UNCHANGED <<pushdown, file, cut, partitions, scanVars>>,
         \/ phase' = phase
         \/ phase = "running" /\ phase' = "error"
         \/ EndScan
  PROVE  ScanInv'
  <1>1. /\ UNCHANGED <<pushdown, file, cut, partitions>>
        /\ UNCHANGED <<next_partition, finished_partitions, pc, caller, part, open, decoders,
                       iterator, left, count, rows>>
    BY DEF scanVars, threadVars
  <1>2. PartitionsInv'
    <2>1. phase = "split" <=> phase' = "split"
      BY DEF EndScan
    <2>2. phase' \in {"built", "running", "done"} => file = NumFiles
      BY DEF EndScan, ScanInv, PartitionsInv
    <2> QED BY <1>1, <2>1, <2>2, PartitionsInvStable DEF ScanInv
  <1>3. TypeOK'
    BY <1>1, <1>2 DEF EndScan, ScanInv, TypeOK, PartitionsInv
  <1>4. \A p : View(p)' = View(p)
    BY <1>1 DEF View, PassesTopicFilter, Reads
  <1>5. \A t \in Threads : ThreadOK(t)' /\ (Holding(t)' <=> Holding(t))
    BY <1>1, <1>4 DEF ScanInv, ThreadOK, Holding
  <1>6. Exclusive'
    BY <1>1, <1>5 DEF ScanInv, Exclusive
  <1>7. RowsAccounted'
    <2>1. \A t \in Threads, m \in Messages : Pending(t, m)' <=> Pending(t, m)
      BY <1>1, <1>4 DEF Pending
    <2> QED BY <1>1, <1>4, <2>1 DEF ScanInv, RowsAccounted
  <1>8. CountsAgree'
    BY <1>1, <1>5 DEF ScanInv, CountsAgree, Claimed, Holders
  <1>9. PhaseOK'
    BY <1>1 DEF ScanInv, PhaseOK, EndScan
  <1> QED BY <1>2, <1>3, <1>5, <1>6, <1>7, <1>8, <1>9 DEF ScanInv

LEMMA ScanInvStep == ScanInv /\ [Next]_vars => ScanInv'
  <1> SUFFICES ASSUME ScanInv, [Next]_vars PROVE ScanInv'
    OBVIOUS
  <1>1. CASE InitGlobal
    BY <1>1, InitGlobalInv
  <1>2. CASE \E tasks \in SUBSET Threads : StartTasks(tasks)
    BY <1>2, StartTasksInv
  <1>3. ASSUME NEW t \in Threads, ThreadStep(t) PROVE ScanInv'
    BY <1>3, InitLocalInv, ClaimPartitionInv, NoPartitionLeftInv, OpenPartitionInv, CallInv,
       WriteRowInv, PartitionExhaustedInv, LeaveLoopInv, ReturnInv DEF ThreadStep
  <1>4. ASSUME NEW t \in Threads, ReadFails(t) PROVE ScanInv'
    BY <1>4, EndInv DEF ReadFails, Running
  <1>5. CASE EndScan
    BY <1>5, EndInv DEF EndScan
  <1>6. CASE Ended \/ UNCHANGED vars
    BY <1>6, EndInv DEF Ended, vars, partitionVars
  <1> QED BY <1>1, <1>2, <1>3, <1>4, <1>5, <1>6 DEF Next

LEMMA ScanInvariance == Spec => []ScanInv
  BY ScanInvInit, ScanInvStep, PTL DEF Spec

-----------------------------------------------------------------------------
(* What the invariant implies. *)

\* Only a thread that holds a partition has messages pending.
LEMMA PendingIsHeld ==
  ASSUME ScanInv, NEW t \in Threads, NEW m \in Messages, Pending(t, m) PROVE Holding(t)
  <1>1. pc[t] \in {"off", "start", "claim", "open", "ready", "loop", "return", "finished"}
    BY DEF ScanInv, TypeOK
  <1>2. caller[t] \in {"init", "scan"} /\ ThreadOK(t)
    BY ScanTypes
  <1> QED BY <1>1, <1>2 DEF Pending, Holding, ThreadOK

\* When every partition has been claimed and nobody holds one, all is written.
LEMMA AllWritten ==
  ASSUME ScanInv, phase \in {"built", "running", "done"}, next_partition >= Len(partitions),
         \A t \in Threads : ~Holding(t), NEW m \in Wanted
  PROVE  rows[m] = 1
  <1>1. PICK i \in DOMAIN partitions : m \in View(partitions[i])
    BY EveryHome DEF ScanInv
  <1>2. i <= next_partition
    <2>1. partitions \in Seq(Partition) /\ next_partition \in Nat
      BY DEF ScanInv, PartitionsInv, PartitionsTypeOK, TypeOK
    <2>2. i \in 1 .. Len(partitions) /\ Len(partitions) \in Nat
      BY <2>1
    <2> QED BY <2>1, <2>2
  <1>3. m \in Messages /\ \A t \in Threads : ~Pending(t, m)
    BY PendingIsHeld DEF Wanted
  <1> QED BY <1>1, <1>2, <1>3 DEF ScanInv, RowsAccounted

\* At the end every thread that worked has seen that no partition is left.
LEMMA AtTheEnd ==
  ASSUME ScanInv, phase \in {"running", "done"},
         \A t \in Threads : pc[t] \in {"off", "finished"}
  PROVE  next_partition >= Len(partitions) /\ \A t \in Threads : ~Holding(t)
  <1>1. PICK t \in Threads : pc[t] # "off"
    BY DEF ScanInv, PhaseOK
  <1>2. pc[t] = "finished" /\ ThreadOK(t)
    BY <1>1, ScanTypes
  <1>3. next_partition >= Len(partitions)
    BY <1>2 DEF ThreadOK
  <1> QED BY <1>3 DEF Holding

LEMMA RowsOfAMessage ==
  ASSUME ScanInv, NEW m \in Messages
  PROVE  rows[m] \in {0, 1} /\ (rows[m] = 1 => m \in Wanted)
  BY OneHome DEF ScanInv, RowsAccounted

LEMMA ScanInvExactlyOnce == ScanInv => ExactlyOnce
  <1> SUFFICES ASSUME ScanInv PROVE ExactlyOnce
    OBVIOUS
  <1>1. \A m \in Messages : rows[m] <= 1 /\ (rows[m] = 1 => m \in Wanted)
    BY RowsOfAMessage
  <1>2. phase = "done" => \A m \in Wanted : rows[m] = 1
    BY AtTheEnd, AllWritten DEF ScanInv, PhaseOK
  <1> QED BY <1>1, <1>2 DEF ExactlyOnce

LEMMA ScanInvProgress == ScanInv => ProgressIsSound
  <1> SUFFICES ASSUME ScanInv, phase \in {"running", "done"}
               PROVE  /\ finished_partitions <= Len(partitions)
                      /\ finished_partitions = Len(partitions) => \A m \in Wanted : rows[m] = 1
                      /\ phase = "done" => finished_partitions = Len(partitions)
    BY DEF ProgressIsSound
  <1>1. /\ finished_partitions \in Nat /\ next_partition \in Nat /\ Len(partitions) \in Nat
        /\ Cardinality(Holders) \in Nat
        /\ finished_partitions + Cardinality(Holders) = Claimed
    <2>1. partitions \in Seq(Partition)
      BY DEF ScanInv, PartitionsInv, PartitionsTypeOK
    <2> QED BY <2>1, HoldersFinite DEF ScanInv, TypeOK, CountsAgree
  <1>2. finished_partitions <= Len(partitions)
    BY <1>1 DEF Claimed
  <1>3. ASSUME finished_partitions = Len(partitions), NEW m \in Wanted PROVE rows[m] = 1
    <2>1. next_partition >= Len(partitions) /\ Cardinality(Holders) = 0
      BY <1>1, <1>3 DEF Claimed
    <2>2. Holders = {}
      BY <2>1, HoldersFinite, FS_EmptySet
    <2> QED BY <2>1, <2>2, AllWritten DEF Holders
  <1>4. ASSUME phase = "done" PROVE finished_partitions = Len(partitions)
    <2>1. next_partition >= Len(partitions) /\ \A t \in Threads : ~Holding(t)
      BY <1>4, AtTheEnd DEF ScanInv, PhaseOK
    <2>2. Holders = {}
      BY <2>1 DEF Holders
    <2>3. Cardinality(Holders) = 0
      BY <2>2, FS_EmptySet
    <2> QED BY <1>1, <2>1, <2>3 DEF Claimed
  <1> QED BY <1>2, <1>3, <1>4

LEMMA ScanInvOwnDecoders == ScanInv => OwnDecoders
  <1> SUFFICES ASSUME ScanInv, NEW t \in Threads, iterator[t]
               PROVE  decoders[t] \subseteq {open[t]} /\ \A m \in left[t] : FileOf[m] = open[t]
    BY DEF OwnDecoders
  <1>1. decoders[t] \subseteq {open[t]}
    BY ScanTypes DEF ThreadOK
  <1>2. ASSUME NEW m \in left[t] PROVE FileOf[m] = open[t]
    <2>1. /\ pc[t] \in {"off", "start", "claim", "open", "ready", "loop", "return", "finished"}
          /\ ThreadOK(t) /\ caller[t] \in {"init", "scan"} /\ left[t] # {}
      BY <1>2, ScanTypes DEF ScanInv, TypeOK
    <2>2. pc[t] # "open"
      BY <2>1 DEF ThreadOK
    <2>3. m \in View(partitions[part[t]]) /\ open[t] = partitions[part[t]].file
      BY <1>2, <2>1, <2>2 DEF ThreadOK
    <2> QED BY <2>3 DEF View, Reads
  <1> QED BY <1>1, <1>2

-----------------------------------------------------------------------------
(* The theorems. *)

\* Every variable of the scan keeps its type in every behaviour.
THEOREM ScanTypeCorrect == Spec => []TypeOK
  <1>1. ScanInv => TypeOK
    BY DEF ScanInv
  <1> QED BY <1>1, ScanInvariance, PTL

\* Whatever the interleaving of threads in McapScanFunction and NextPartition,
\* no message becomes two rows, none outside the query becomes one, and a
\* complete scan has written all of them.
THEOREM ScanExactlyOnce == Spec => []ExactlyOnce
  BY ScanInvExactlyOnce, ScanInvariance, PTL

\* A thread's last, empty call of McapScanFunction comes only after every
\* partition has been handed out.
THEOREM ThreadsRetireLast == Spec => []RetiresLast
  <1>1. ScanInv => RetiresLast
    <2> SUFFICES ASSUME ScanInv, NEW t \in Threads, pc[t] = "finished"
                 PROVE  next_partition >= Len(partitions)
      BY DEF RetiresLast
    <2> QED BY ScanTypes DEF ThreadOK
  <1> QED BY <1>1, ScanInvariance, PTL

\* What McapScanProgress reports never exceeds 100%, and is 100% only when all
\* rows have been written.
THEOREM ScanProgress == Spec => []ProgressIsSound
  BY ScanInvProgress, ScanInvariance, PTL

\* A thread never reads a file through the cached schemas of another file.
THEOREM ThreadsOwnDecoders == Spec => []OwnDecoders
  BY ScanInvOwnDecoders, ScanInvariance, PTL

\* BuildPartitions, within the scan: the partitions of each file neither
\* overlap nor leave a gap (mcap_scan.cpp:55-59).
THEOREM ScanPartitions == Spec => []PartitionsPartition
  <1>1. ScanInv => PartitionsPartition
    BY DEF ScanInv, PartitionsInv
  <1> QED BY <1>1, ScanInvariance, PTL

\* No partition reaches outside the query's window or is empty.
THEOREM ScanPartitionsInWindow == Spec => []PartitionsInWindow
  <1>1. ScanInv => PartitionsInWindow
    BY DEF ScanInv, PartitionsInv
  <1> QED BY <1>1, ScanInvariance, PTL

\* However the chunks of a file are spread, no partition of a file that is cut
\* holds more than CHUNKS_PER_PARTITION of their start times (mcap_scan.cpp:199-218).
THEOREM ScanPartitionsSmall == Spec => []PartitionsAreSmall
  <1>1. ScanInv => PartitionsAreSmall
    BY DEF ScanInv, PartitionsInv
  <1> QED BY <1>1, ScanInvariance, PTL

-----------------------------------------------------------------------------
(* The scan implements AbstractScan. *)

\* The status AbstractScan sees.
Status == IF phase = "done" THEN "done" ELSE IF phase = "error" THEN "failed" ELSE "scanning"

\* No step changes the query, and with it what is wanted.
LEMMA WantedIsFixed == [Next]_vars => Wanted' = Wanted
  <1> SUFFICES ASSUME [Next]_vars PROVE pushdown' = pushdown
    BY DEF Wanted, PassesTopicFilter, lo, hi
  <1>1. CASE InitGlobal
    BY <1>1 DEF InitGlobal, PartitionsNext, OpenFile, OpenFileFails, PushPartition,
                InitGlobalReturns
  <1>2. CASE \E tasks \in SUBSET Threads : StartTasks(tasks)
    BY <1>2 DEF StartTasks
  <1>3. ASSUME NEW t \in Threads, ThreadStep(t) PROVE pushdown' = pushdown
    BY <1>3 DEF ThreadStep, InitLocal, ClaimPartition, NoPartitionLeft, OpenPartition, Call,
                WriteRow, PartitionExhausted, LeaveLoop, Return, partitionVars
  <1>4. ASSUME NEW t \in Threads, ReadFails(t) PROVE pushdown' = pushdown
    BY <1>4 DEF ReadFails
  <1>5. CASE EndScan \/ Ended \/ UNCHANGED vars
    BY <1>5 DEF EndScan, Ended, vars, partitionVars
  <1> QED BY <1>1, <1>2, <1>3, <1>4, <1>5 DEF Next

LEMMA AbstractInit == Init => Abstract!AbsInit
  <1> SUFFICES ASSUME Init PROVE Abstract!AbsInit
    OBVIOUS
  <1>1. Wanted \in SUBSET Messages
    BY DEF Wanted
  <1> QED BY <1>1 DEF Init, NoTasks, PartitionsInit, Abstract!AbsInit

\* A step that changes neither the rows nor what the query has come to.
LEMMA Invisible ==
  ASSUME [Next]_vars, rows' = rows, Status' = Status PROVE UNCHANGED Abstract!absVars
  BY WantedIsFixed DEF Abstract!absVars, Status

LEMMA AbstractStep == ScanInv /\ [Next]_vars => [Abstract!AbsNext]_Abstract!absVars
  <1> SUFFICES ASSUME ScanInv, [Next]_vars PROVE [Abstract!AbsNext]_Abstract!absVars
    OBVIOUS
  <1>1. Wanted' = Wanted
    BY WantedIsFixed
  <1>2. CASE InitGlobal
    <2>1. rows' = rows /\ phase \in {"open", "split"}
          /\ phase' \in {"open", "split", "built", "error"}
      BY <1>2 DEF InitGlobal, scanVars, PartitionsNext, OpenFile, OpenFileFails, PushPartition,
                  InitGlobalReturns
    <2>2. CASE phase' = "error"
      BY <1>1, <2>1, <2>2 DEF Abstract!AbsNext, Abstract!Fail
    <2>3. CASE phase' # "error"
      BY <2>1, <2>3, Invisible DEF Status
    <2> QED BY <2>2, <2>3
  <1>3. CASE \E tasks \in SUBSET Threads : StartTasks(tasks)
    BY <1>3, Invisible DEF StartTasks, Status
  <1>4. ASSUME NEW t \in Threads, ThreadStep(t) PROVE [Abstract!AbsNext]_Abstract!absVars
    <2>1. phase = "running" /\ phase' = phase
      BY <1>4 DEF ThreadStep, InitLocal, ClaimPartition, NoPartitionLeft, OpenPartition, Call,
                  WriteRow, PartitionExhausted, LeaveLoop, Return, Running, partitionVars
    <2>2. CASE \E m \in Messages : WriteRow(t, m)
      <3>1. PICK m \in Messages : WriteRow(t, m)
        BY <2>2
      <3>2. rows[m] = 0 /\ m \in Wanted
        <4>1. pc[t] = "loop" /\ iterator[t] /\ m \in left[t]
          BY <3>1 DEF WriteRow, Running
        <4>2. m \in View(partitions[part[t]]) /\ part[t] \in DOMAIN partitions
          BY <4>1, ScanTypes DEF ThreadOK, Holding
        <4>3. Pending(t, m)
          BY <4>1 DEF Pending
        <4> QED BY <4>2, <4>3, OneHome DEF ScanInv, RowsAccounted
      <3>3. rows' = [rows EXCEPT ![m] = 1]
        BY <3>1, <3>2 DEF WriteRow, ScanInv, TypeOK
      <3> QED BY <1>1, <2>1, <3>2, <3>3 DEF Abstract!AbsNext, Abstract!Deliver
    <2>3. CASE ~\E m \in Messages : WriteRow(t, m)
      <3>1. rows' = rows
        BY <1>4, <2>3 DEF ThreadStep, InitLocal, ClaimPartition, NoPartitionLeft, OpenPartition,
                          Call, PartitionExhausted, LeaveLoop, Return
      <3> QED BY <2>1, <3>1, Invisible DEF Status
    <2> QED BY <2>2, <2>3
  <1>5. ASSUME NEW t \in Threads, ReadFails(t) PROVE [Abstract!AbsNext]_Abstract!absVars
    <2>1. phase = "running" /\ phase' = "error" /\ rows' = rows
      BY <1>5 DEF ReadFails, Running, scanVars
    <2> QED BY <1>1, <2>1 DEF Abstract!AbsNext, Abstract!Fail
  <1>6. CASE EndScan
    <2>1. phase = "running" /\ phase' = "done" /\ rows' = rows
      BY <1>6 DEF EndScan, scanVars
    <2>2. \A m \in Wanted : rows[m] = 1
      BY <1>6, <2>1, AtTheEnd, AllWritten DEF EndScan
    <2> QED BY <1>1, <2>1, <2>2 DEF Abstract!AbsNext, Abstract!Complete
  <1>7. CASE Ended \/ UNCHANGED vars
    BY <1>7, Invisible DEF Ended, vars, partitionVars, scanVars, Status
  <1> QED BY <1>2, <1>3, <1>4, <1>5, <1>6, <1>7 DEF Next

\* The parallel scan implements a scan that delivers every wanted message once
\* and then completes, or fails.
THEOREM ScanImplementsAbstract == Spec => Implements
  BY AbstractInit, AbstractStep, ScanInvariance, PTL DEF Spec, Implements, Abstract!AbsSpec

=============================================================================
