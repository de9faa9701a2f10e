---------------------------- MODULE HoldTrigger -----------------------------
(***************************************************************************)
(* One state-change matcher of an automation and one of its entities       *)
(* (internal/automation/trigger/state.go), with the registry that feeds it *)
(* and the reload that takes it away.  The matcher wants the entity to     *)
(* become "on"; with a hold duration it fires only if the entity stays so. *)
(*                                                                         *)
(* A timer is named by the number of the change that armed it.  A timer    *)
(* that expires runs in a goroutine of its own: it takes the lock, clears  *)
(* the entity's slot whoever is in it, and then delivers.                  *)
(***************************************************************************)
EXTENDS Naturals

CONSTANT MaxChanges       \* bound: state changes of the entity

ASSUME HoldAssumption == MaxChanges \in Nat

VARIABLES
  holds,          \* forDur > 0
  last,           \* StateChangeMatcher.last
  slot,           \* StateChangeMatcher.timers: the change whose timer is there
  timers,         \* the state of each change's timer
  holdPc,         \* where OnStateChanged is
  made,           \* how many changes were dispatched
  fired,          \* the changes delivered to the engine
  registered,     \* the matcher is in the registry
  reloadPc,       \* where unregisterTriggers is
  raced           \* history: a change came while an expired timer had not got the lock

holdVars == <<holds, last, slot, timers, holdPc, made, fired, registered,
              reloadPc, raced>>

Changes == 1 .. MaxChanges

HoldInit ==
  /\ holds \in BOOLEAN
  /\ last = ""
  /\ slot = 0
  /\ timers = [n \in Changes |-> "none"]
  /\ holdPc = "idle"
  /\ made = 0
  /\ fired = {}
  /\ registered = TRUE
  /\ reloadPc = "none"
  /\ raced = FALSE

\* Timer.Stop of the timer in the slot: one that has expired runs on.
StopSlot ==
  /\ timers' = [n \in Changes |->
                  IF n = slot /\ timers[n] = "running" THEN "stopped" ELSE timers[n]]
  /\ slot' = 0

\* MUTANT: the timer leaves the slot and is not stopped.
MutOnStateChanged(state) ==
  /\ registered /\ holdPc = "idle" /\ made < MaxChanges
  /\ made' = made + 1
  /\ last' = state
  /\ slot' = 0
  /\ \/ state = "on" /\ holds /\ holdPc' = "arm" /\ UNCHANGED fired
     \/ ~(state = "on" /\ holds) /\ UNCHANGED <<holdPc, fired>>
  /\ UNCHANGED <<timers, holds, registered, reloadPc, raced>>

\* OnStateChanged under the lock, then the predicate.  Without a hold duration
\* the match is returned to the engine's loop.
OnStateChanged(state) ==
  /\ registered /\ holdPc = "idle" /\ made < MaxChanges
  /\ made' = made + 1
  /\ last' = state
  /\ StopSlot
  /\ raced' = (raced \/ \E n \in Changes : timers[n] = "expired")
  /\ \/ state = "on" /\ holds /\ holdPc' = "arm" /\ UNCHANGED fired
     \/ state = "on" /\ ~holds /\ fired' = fired \cup {made'} /\ UNCHANGED holdPc
     \/ state # "on" /\ UNCHANGED <<holdPc, fired>>
  /\ UNCHANGED <<holds, registered, reloadPc>>

\* time.AfterFunc, then, under the lock again, the timer goes into the slot.
Arm ==
  /\ holdPc = "arm"
  /\ timers' = [timers EXCEPT ![made] = "running"]
  /\ holdPc' = "store"
  /\ UNCHANGED <<holds, last, slot, made, fired, registered, reloadPc, raced>>

StoreTimer ==
  /\ holdPc = "store"
  /\ slot' = made
  /\ holdPc' = "idle"
  /\ UNCHANGED <<holds, last, timers, made, fired, registered, reloadPc, raced>>

\* The hold duration is over.
Expires(n) ==
  /\ timers[n] = "running"
  /\ timers' = [timers EXCEPT ![n] = "expired"]
  /\ UNCHANGED <<holds, last, slot, holdPc, made, fired, registered, reloadPc, raced>>

\* MUTANT: a timer that is not in the slot gives up.
MutTimerClears(n) ==
  /\ timers[n] = "expired"
  /\ timers' = [timers EXCEPT ![n] = IF slot = n THEN "cleared" ELSE "stopped"]
  /\ slot' = 0
  /\ UNCHANGED <<holds, last, holdPc, made, fired, registered, reloadPc, raced>>

TimerClears(n) ==
  /\ timers[n] = "expired"
  /\ timers' = [timers EXCEPT ![n] = "cleared"]
  /\ slot' = 0
  /\ UNCHANGED <<holds, last, holdPc, made, fired, registered, reloadPc, raced>>

\* The engine gets the match.
DeliverHold(n) ==
  /\ timers[n] = "cleared"
  /\ timers' = [timers EXCEPT ![n] = "delivered"]
  /\ fired' = fired \cup {n}
  /\ UNCHANGED <<holds, last, slot, holdPc, made, registered, reloadPc, raced>>

\* unregisterTriggers stops the matcher, then takes it from the registry, whose
\* lock a dispatch holds while it is in the matcher.
StopMatcher ==
  /\ reloadPc = "none"
  /\ StopSlot
  /\ reloadPc' = "stopped"
  /\ raced' = (raced \/ \E n \in Changes : timers[n] = "expired")
  /\ UNCHANGED <<holds, last, holdPc, made, fired, registered>>

UnregisterMatcher ==
  /\ reloadPc = "stopped"
  /\ holdPc = "idle"
  /\ registered' = FALSE
  /\ reloadPc' = "done"
  /\ UNCHANGED <<holds, last, slot, timers, holdPc, made, fired, raced>>

HoldTimer(n) == Expires(n) \/ TimerClears(n) \/ DeliverHold(n)

HoldNext ==
  \/ \E state \in {"on", "off"} : OnStateChanged(state)
  \/ Arm \/ StoreTimer
  \/ \E n \in Changes : HoldTimer(n)
  \/ StopMatcher \/ UnregisterMatcher

HoldSpec == HoldInit /\ [][HoldNext]_holdVars

\* "Intervening state changes ... cancel the pending timer" (state.go): every
\* timer that runs is the one the next change or Stop will find, as long as no
\* change has come between the expiry of a timer and its taking the lock.
\* The timer being stored may expire first; then nothing runs.
HoldCancellable ==
  ~raced =>
    \A n \in Changes :
      timers[n] = "running" => slot = n \/ (holdPc = "store" /\ made = n)

\* The last change, if it satisfies the predicate and no reload comes, fires
\* although its timer may expire before it is stored and older timers, whose
\* expiry empties the slot, may be on their way.
HoldDelivered ==
  holdPc = "arm" ~> made \in fired \/ last # "on" \/ reloadPc # "none"
=============================================================================
