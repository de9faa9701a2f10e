------------------------------ MODULE EventLog ------------------------------
(***************************************************************************)
(* What the event store promises to those who read the log: rows are only  *)
(* ever added at the end, and the announced position (LatestPosition in    *)
(* internal/eventstore/store.go) trails the log, never goes back, and      *)
(* catches up with it.                                                     *)
(***************************************************************************)
EXTENDS Naturals, Sequences

VARIABLES
  log,              \* the committed rows
  latestPosition    \* the highest position announced to readers

vars == <<log, latestPosition>>

Init ==
  /\ log = << >>
  /\ latestPosition = 0

\* One transaction's rows become part of the log, all at once.
Extend ==
  /\ Len(log') > Len(log)
  /\ SubSeq(log', 1, Len(log)) = log
  /\ UNCHANGED latestPosition

\* A committed position is announced.
Announce ==
  /\ latestPosition' \in latestPosition + 1 .. Len(log)
  /\ UNCHANGED log

Next == Extend \/ Announce

\* The safety part, and the whole promise.
SafeSpec == Init /\ [][Next]_vars

Spec == SafeSpec /\ WF_vars(Announce)
=============================================================================
