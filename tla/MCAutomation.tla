---------------------------- MODULE MCAutomation ----------------------------
(* Instances of Automation for TLC. *)
EXTENDS Automation, TLC

(* Firings of one kind are interchangeable. *)
Symmetry == Permutations(Firings \ Manual)
=============================================================================
