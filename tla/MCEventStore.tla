---------------------------- MODULE MCEventStore ----------------------------
(* The append path for TLC: appends of one event run concurrently, and a     *)
(* batch, which assigns the announced position instead of raising it, on its *)
(* own, on an empty log.  Once appends have both overlapped and failed,      *)
(* those under way end and no other is called.                               *)
EXTENDS EventStore

MayCall(w) ==
  /\ ~(txFailed /\ overlapped)
  /\ w \in BatchWriters => log = << >>
  /\ \A u \in Writers \ {w} :
       u \in BatchWriters \/ w \in BatchWriters => pc[u] = "idle"

MCNext == \E w \in Writers : (MayCall(w) /\ Call(w)) \/ Step(w)

MCSpec == Init /\ [][MCNext]_vars /\ \A w \in Writers : WF_vars(Step(w))
=============================================================================
