---------------------------- MODULE CommandLedger ---------------------------
(***************************************************************************)
(* What Host.Dispatch (internal/carport/dispatch.go) promises to those who *)
(* read the log: a command that was issued is acknowledged exactly once,   *)
(* before its Dispatch returns, with the driver's answer to this command   *)
(* or with a failure; a command that was never issued has no entry.        *)
(***************************************************************************)
EXTENDS Naturals, Sequences

CONSTANTS
  Commands,
  Failures      \* what an acknowledgement says when there is no answer

VARIABLES
  ledger,       \* the entries about each command
  answers,      \* what the driver would answer to each
  given,        \* the commands it has answered
  returned      \* the calls of Dispatch that have returned

vars == <<ledger, answers, given, returned>>

Init ==
  /\ ledger = [c \in Commands |-> << >>]
  /\ given = {}
  /\ returned = {}

Issue(c) ==
  /\ ledger[c] = << >> /\ c \notin returned
  /\ ledger' = [ledger EXCEPT ![c] = <<"issued">>]
  /\ UNCHANGED <<answers, given, returned>>

\* Nothing was issued: the instance does not run, or the append failed.
Refuse(c) ==
  /\ ledger[c] = << >> /\ c \notin returned
  /\ returned' = returned \cup {c}
  /\ UNCHANGED <<ledger, answers, given>>

Answer(c) ==
  /\ ledger[c] # << >>
  /\ given' = given \cup {c}
  /\ UNCHANGED <<ledger, answers, returned>>

Acknowledge(c) ==
  /\ ledger[c] = <<"issued">> /\ c \notin returned
  /\ \/ c \in given /\ ledger' = [ledger EXCEPT ![c] = <<"issued", answers[c]>>]
     \/ \E why \in Failures : ledger' = [ledger EXCEPT ![c] = <<"issued", why>>]
  /\ returned' = returned \cup {c}
  /\ UNCHANGED <<answers, given>>

Next == \E c \in Commands : Issue(c) \/ Refuse(c) \/ Answer(c) \/ Acknowledge(c)

SafeSpec == Init /\ [][Next]_vars

Spec == SafeSpec /\ \A c \in Commands : WF_vars(Acknowledge(c))
=============================================================================
