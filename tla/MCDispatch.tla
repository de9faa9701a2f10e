----------------------------- MODULE MCDispatch -----------------------------
(***************************************************************************)
(* An instance of Dispatch for TLC: two commands that the driver answers   *)
(* differently.  The second is dispatched after the first, once the        *)
(* supervisor has wired the connection and if the driver sends no events.  *)
(* The driver sends two results in all: one for each command, in any       *)
(* order, or two for the same one.  A call that gives up says why: the     *)
(* first one timed out, the second one was cancelled.                      *)
(***************************************************************************)
EXTENDS Dispatch, TLC

CONSTANTS c1, c2

Second ==
  callPc[c2] = "idle" /\ callPc'[c2] # "idle" =>
    /\ callPc[c1] # "idle"
    /\ events = 0
    /\ superPc \in {"health", "clear", "gone"}

Bounded ==
  /\ events = 0 \/ callPc[c2] = "idle"
  /\ answered[c1] + answered[c2] <= 2
  /\ outcome[c1] # "canceled" /\ outcome[c2] # "timeout"

MCInit == Init /\ verdict = (c1 :> "ok" @@ c2 :> "error")
MCNext == Next /\ Second /\ Bounded'

MCSpec == MCInit /\ [][MCNext]_vars /\ Fairness
=============================================================================
