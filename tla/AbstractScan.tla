---------------------------- MODULE AbstractScan ----------------------------
(***************************************************************************)
(* What a scan promises: every message the query wants becomes one row, in *)
(* any order, and the scan is done when all of them have; or it fails.     *)
(***************************************************************************)
EXTENDS Naturals

CONSTANT Messages

VARIABLES
  wanted,     \* the messages the query wants
  written,    \* how many rows each message became
  status      \* "scanning", "done" or "failed"

absVars == <<wanted, written, status>>

AbsInit ==
  /\ wanted \in SUBSET Messages
  /\ written = [m \in Messages |-> 0]
  /\ status = "scanning"

Deliver(m) ==
  /\ status = "scanning"
  /\ m \in wanted
  /\ written[m] = 0
  /\ written' = [written EXCEPT ![m] = 1]
  /\ UNCHANGED <<wanted, status>>

Complete ==
  /\ status = "scanning"
  /\ \A m \in wanted : written[m] = 1
  /\ status' = "done"
  /\ UNCHANGED <<wanted, written>>

Fail ==
  /\ status = "scanning"
  /\ status' = "failed"
  /\ UNCHANGED <<wanted, written>>

AbsNext ==
  \/ \E m \in Messages : Deliver(m)
  \/ Complete
  \/ Fail

AbsSpec == AbsInit /\ [][AbsNext]_absVars

=============================================================================
