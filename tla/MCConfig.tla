------------------------------ MODULE MCConfig ------------------------------
(* An instance of the configuration pipeline for TLC. *)
EXTENDS Config

\* Two instances that change, come and go, and are switched off and on.
TwoInstances ==
  {[i1 |-> "a", i2 |-> "absent"], [i1 |-> "b", i2 |-> "a"],
   [i1 |-> "absent", i2 |-> "off"]}

\* The file the daemon starts with.
First == [i1 |-> "a", i2 |-> "absent"]
MCInit == Init /\ disk = First
MCSpec == MCInit /\ [][Next]_vars /\ Fairness
=============================================================================
