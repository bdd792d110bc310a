------------------------------ MODULE McapTime ------------------------------
(***************************************************************************)
(* The two integer time types of the extension and the two conversions     *)
(* between them.                                                           *)
(*                                                                         *)
(* MCAP log times are unsigned 64-bit nanosecond counts; mcap::MaxTime is  *)
(* the largest one.  SQL sees a TIMESTAMP_NS, a signed 64-bit count whose  *)
(* largest value MaxNanos (INT64_MAX) is smaller than MaxTime.  Both       *)
(* limits are parameters: every width for which MaxNanos < MaxTime is      *)
(* covered by the proofs, and the model checker uses tiny ones.            *)
(***************************************************************************)
EXTENDS Integers

CONSTANTS
  MaxTime,    \* mcap::MaxTime, the largest log time
  MaxNanos    \* the largest value of a TIMESTAMP_NS

ASSUME TimeAssumption ==
  /\ MaxTime \in Nat
  /\ MaxNanos \in Nat
  /\ MaxNanos < MaxTime

\* mcap::Timestamp
Times == 0 .. MaxTime

\* ToTimestampNs: the SQL value shown for a log time.  Times beyond the signed
\* range are clamped to its largest value.
ToTimestampNs(t) == IF t > MaxNanos THEN MaxNanos ELSE t

\* SatAddNanos: t + delta, saturating at MaxTime.
SatAddNanos(t, delta) == IF t > MaxTime - delta THEN MaxTime ELSE t + delta

=============================================================================
