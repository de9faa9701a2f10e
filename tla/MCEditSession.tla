---------------------------- MODULE MCEditSession ---------------------------
(* Edit sessions on their own, for TLC: the file exists, nothing but the     *)
(* sessions writes it, and a commit that has begun goes on.                  *)
EXTENDS EditSession

MCSpec ==
  /\ disk \in Contents
  /\ EditInit
  /\ [][\E s \in Sessions : EditStep(s)]_<<disk, signal, editVars>>
  /\ \A s \in Sessions :
       WF_<<disk, signal, editVars>>(CommitTruncate(s) \/ CommitFill(s))
=============================================================================
