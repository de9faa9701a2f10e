----------------------------- MODULE Automation -----------------------------
(***************************************************************************)
(* The automation engine (internal/automation): how a match of a trigger   *)
(* becomes a run under the four modes, how Reload swaps the definition of  *)
(* an automation under the runs, and how Stop waits for them.              *)
(*                                                                         *)
(* One automation id is followed; automations share nothing but the lock.  *)
(* Every compilation of it makes a new *Automation, numbered in the order  *)
(* they are made; its source is its mode, so two objects of one mode are   *)
(* structurally equal.  A runState is named by the object it is made for.  *)
(* A configuration gives it Enabled, and SetEnabled may take it away.      *)
(* A runState has at most two channels: Reload closes the first when it    *)
(* removes the automation, and a firing that still holds the runState may  *)
(* make another.  A firing is an element of Firings and stands for its     *)
(* match, its goroutine and the run it leads to.                           *)
(***************************************************************************)
EXTENDS Naturals, Sequences, FiniteSets

CONSTANTS
  Firings,        \* the matches
  Manual,         \* those that Engine.Trigger starts, under its caller's context
  Modes,          \* the modes a configuration gives the automation
  MaxCompiled,    \* bound: compilations of the automation
  MaxQueued,      \* Automation.MaxQueued
  None

ASSUME AutomationAssumption ==
  /\ IsFiniteSet(Firings) /\ Manual \subseteq Firings
  /\ Modes \subseteq {"single", "restart", "queued", "parallel"}
  /\ MaxCompiled \in Nat \ {0}
  /\ MaxQueued \in Nat \ {0}
  /\ None \notin Firings

Objects == 1..MaxCompiled

VARIABLES
  mode,           \* the mode of every object compiled so far
  enabled,        \* Enabled of the object the runState in the map holds
  automations,    \* Engine.automations[id], 0 when absent
  registered,     \* the objects whose matchers the registry holds
  current,        \* Engine.runStates[id], 0 when absent
  auto,           \* runState.auto
  gate,           \* the runStates whose running flag is set
  active,         \* whose run runState.activeCancel cancels
  newest,         \* the firing restartGen was last incremented for
  queue,          \* runState.queue: 0 is nil, 1 and 2 are the channels
  items,          \* what the channels hold
  closed,         \* the runStates whose first channel is closed
  pump,           \* the queue pump of each runState
  fire,           \* the goroutine of each firing
  run,            \* the run of each firing
  cancelled,      \* the firings whose restart context is cancelled
  callerDone,     \* the manual firings whose caller has returned
  finished,       \* the firings with an automation_finished event
  inFlight,       \* Engine.inFlight
  stopped,        \* Engine.Stop has cancelled the engine's context
  panicked        \* a send on a closed channel

configVars == <<mode, enabled, automations, registered, current, auto>>
modeVars == <<gate, active, newest, cancelled>>
queueVars == <<queue, items, closed, pump>>
runVars == <<run, finished>>
engineVars == <<callerDone, inFlight, stopped, panicked>>
vars == <<configVars, modeVars, queueVars, fire, runVars, engineVars>>

Init ==
  /\ mode \in {<<m>> : m \in Modes}
  /\ enabled = TRUE /\ automations = 1 /\ registered = {1} /\ current = 1
  /\ auto = [o \in Objects |-> o]
  /\ gate = {} /\ cancelled = {}
  /\ active = [o \in Objects |-> None]
  /\ newest = [o \in Objects |-> None]
  /\ queue = [o \in Objects |-> 0]
  /\ items = [o \in Objects |-> <<<<>>, <<>>>>]
  /\ closed = {}
  /\ pump = [o \in Objects |-> [at |-> "none", q |-> 0, ctx |-> None]]
  /\ fire = [f \in Firings |-> [at |-> "idle", rs |-> 0, mode |-> None, q |-> 0]]
  /\ run = [f \in Firings |-> [at |-> "none", under |-> "none"]]
  /\ finished = {}
  /\ callerDone = {} /\ inFlight = 0
  /\ stopped = FALSE /\ panicked = FALSE

-----------------------------------------------------------------------------
(* Contexts.  A firing runs under the engine's context or its caller's, a  *)
(* queued run under the context of the firing that started the pump, and a *)
(* restart run under a context of its own besides.                         *)

Done(f) == IF f \in Manual THEN f \in callerDone ELSE stopped

RunDone(f) ==
  IF run[f].under \in {"pump", "drain"}
    THEN Done(pump[fire[f].rs].ctx)
    ELSE f \in cancelled \/ Done(f)

Ends(f) == fire' = [fire EXCEPT ![f].at = "end", ![f].mode = None, ![f].q = 0]

(* executeRun, or emitSkipped, is under way until the step RunFinish. *)
Begins(f, u) == run' = [run EXCEPT ![f] = [at |-> "executing", under |-> u]]

-----------------------------------------------------------------------------
(* Where firings come from *)

(* Every matcher in the registry matches an event and gets a goroutine; the *)
(* scheduler and a hold timer deliver one match, which may be of an         *)
(* automation removed since.  The select of runLoop may take an event       *)
(* although the context is done, any number of times.                       *)
Dispatch ==
  /\ \E S \in SUBSET {f \in Firings \ Manual : fire[f].at = "idle"} :
       /\ S # {}
       /\ Cardinality(S) \in {1, Cardinality(registered)}
       /\ fire' = [f \in Firings |-> IF f \in S THEN [fire[f] EXCEPT !.at = "lookup"]
                                               ELSE fire[f]]
       /\ inFlight' = inFlight + Cardinality(S)
  /\ UNCHANGED <<configVars, modeVars, queueVars, runVars,
                 callerDone, stopped, panicked>>

Trigger(f) ==
  /\ f \in Manual /\ fire[f].at = "idle"
  /\ current # 0
  /\ enabled
  /\ fire' = [fire EXCEPT ![f].at = "lookup"]
  /\ inFlight' = inFlight + 1
  /\ UNCHANGED <<configVars, modeVars, queueVars, runVars,
                 callerDone, stopped, panicked>>

(* The handler of the Trigger call returns and its context ends. *)
CallerReturns(f) ==
  /\ f \in Manual \ callerDone /\ fire[f].at # "idle"
  /\ callerDone' = callerDone \cup {f}
  /\ UNCHANGED <<configVars, modeVars, queueVars, fire, runVars,
                 inFlight, stopped, panicked>>

-----------------------------------------------------------------------------
(* The goroutine of a firing *)

Lookup(f) ==
  /\ fire[f].at = "lookup"
  /\ IF current # 0 /\ enabled
       THEN /\ fire' = [fire EXCEPT ![f] = [at |-> "admit", rs |-> current,
                                            mode |-> mode[auto[current]], q |-> 0]]
            /\ UNCHANGED inFlight
       ELSE /\ Ends(f)
            /\ inFlight' = inFlight - 1
  /\ UNCHANGED <<configVars, modeVars, queueVars, runVars,
                 callerDone, stopped, panicked>>

Admits(f, m) == fire[f].at = "admit" /\ fire[f].mode = m

(* The goroutine of the firing executes the run itself and opens the gate  *)
(* when it returns.                                                        *)
FireSingle(f) ==
  /\ Admits(f, "single")
  /\ fire' = [fire EXCEPT ![f].at = "run"]
  /\ gate' = gate \cup {fire[f].rs}
  /\ Begins(f, IF fire[f].rs \in gate THEN "skip" ELSE "single")
  /\ UNCHANGED <<configVars, active, newest, cancelled, queueVars, finished, engineVars>>

(* The new goroutine is counted before the firing's own one is uncounted.  *)
FireRestart(f) ==
  LET r == fire[f].rs
  IN /\ Admits(f, "restart")
     /\ cancelled' = IF active[r] = None THEN cancelled ELSE cancelled \cup {active[r]}
     /\ active' = [active EXCEPT ![r] = f]
     /\ newest' = [newest EXCEPT ![r] = f]
     /\ Begins(f, "restart")
     /\ Ends(f)
     /\ UNCHANGED <<configVars, gate, queueVars, finished, engineVars>>

FireParallel(f) ==
  /\ Admits(f, "parallel")
  /\ Begins(f, "parallel")
  /\ Ends(f)
  /\ UNCHANGED <<configVars, modeVars, queueVars, finished, engineVars>>

EnsureQueue(f) ==
  LET r == fire[f].rs
      q == IF queue[r] # 0 THEN queue[r] ELSE IF r \in closed THEN 2 ELSE 1
  IN /\ Admits(f, "queued")
     /\ queue' = [queue EXCEPT ![r] = q]
     /\ fire' = [fire EXCEPT ![f].at = "send", ![f].q = q]
     /\ UNCHANGED <<configVars, modeVars, items, closed, pump, runVars, engineVars>>

Closed(r, q) == q = 1 /\ r \in closed

HasRoom(r, q) == Len(items[r][q]) < MaxQueued

Enqueue(f) ==
  LET r == fire[f].rs
      q == fire[f].q
  IN /\ fire[f].at = "send"
     /\ \/ /\ Closed(r, q)
           /\ panicked' = TRUE
           /\ UNCHANGED <<items, fire, run>>
        \/ /\ ~Closed(r, q) /\ HasRoom(r, q)
           /\ items' = [items EXCEPT ![r][q] = Append(@, f)]
           /\ fire' = [fire EXCEPT ![f].at = "pump"]
           /\ UNCHANGED <<run, panicked>>
        \/ /\ ~Closed(r, q) /\ ~HasRoom(r, q)
           /\ fire' = [fire EXCEPT ![f].at = "run"]
           /\ Begins(f, "skip")
           /\ UNCHANGED <<items, panicked>>
     /\ UNCHANGED <<configVars, modeVars, queue, closed, pump, finished,
                    callerDone, inFlight, stopped>>

\* Mutant: the pump is not counted.
MutCountsPump(r) == inFlight - 1

(* The pump is counted before the firing is uncounted. *)
CountsPump(r) == IF pump[r].at = "none" THEN inFlight ELSE inFlight - 1

StartPumpOnce(f) ==
  LET r == fire[f].rs
  IN /\ fire[f].at = "pump"
     /\ Ends(f)
     /\ pump' = IF pump[r].at = "none"
                  THEN [pump EXCEPT ![r] = [at |-> "start", q |-> 0, ctx |-> f]]
                  ELSE pump
     /\ inFlight' = CountsPump(r)
     /\ UNCHANGED <<configVars, modeVars, queue, items, closed, runVars,
                    callerDone, stopped, panicked>>

-----------------------------------------------------------------------------
(* The queue pump of a runState *)

PumpTo(r, at) == pump' = [pump EXCEPT ![r].at = at]

PumpStart(r) ==
  /\ pump[r].at = "start"
  /\ pump' = [pump EXCEPT ![r].at = "recv", ![r].q = queue[r]]
  /\ UNCHANGED <<configVars, modeVars, queue, items, closed, fire, runVars, engineVars>>

Received(r) == IF pump[r].q = 0 THEN <<>> ELSE items[r][pump[r].q]

TakesHead(r) == items' = [items EXCEPT ![r][pump[r].q] = Tail(@)]

PumpReceive(r) ==
  /\ pump[r].at = "recv"
  /\ Received(r) # <<>>
  /\ TakesHead(r)
  /\ Begins(Head(Received(r)), "pump")
  /\ PumpTo(r, "run")
  /\ UNCHANGED <<configVars, modeVars, queue, closed, fire, finished, engineVars>>

PumpStopping(r) ==
  /\ pump[r].at = "recv"
  /\ Done(pump[r].ctx)
  /\ PumpTo(r, "drain")
  /\ UNCHANGED <<configVars, modeVars, queue, items, closed, fire, runVars, engineVars>>

PumpDrain(r) ==
  /\ pump[r].at = "drain"
  /\ Received(r) # <<>>
  /\ TakesHead(r)
  /\ Begins(Head(Received(r)), "drain")
  /\ PumpTo(r, "run")
  /\ UNCHANGED <<configVars, modeVars, queue, closed, fire, finished, engineVars>>

\* Mutant: the pump ends when the queue is empty.
MutLeaves(r) == pump[r].at \in {"recv", "drain"}

(* A closed channel ends the pump once it is empty, a done context when    *)
(* nothing is left to skip.                                                *)
Leaves(r) ==
  \/ pump[r].at = "recv" /\ Closed(r, pump[r].q)
  \/ pump[r].at = "drain"

PumpExit(r) ==
  /\ Received(r) = <<>>
  /\ Leaves(r)
  /\ PumpTo(r, "exit")
  /\ inFlight' = inFlight - 1
  /\ UNCHANGED <<configVars, modeVars, queue, items, closed, fire, runVars,
                 callerDone, stopped, panicked>>

-----------------------------------------------------------------------------
(* The end of executeRun and of emitSkipped.  What the conditions and the  *)
(* actions do, and the outcome they lead to, is no concern of the engine.  *)

\* Mutant: a skipped firing opens the gate too.
MutOpens(u) == u \in {"single", "skip"}

Opens(u) == u = "single"

\* Mutant: no generation is compared.
MutClearsActive(f) == active' = [active EXCEPT ![fire[f].rs] = None]

(* The generation test of the restart goroutine *)
ClearsActive(f) ==
  LET r == fire[f].rs
  IN active' = IF newest[r] = f THEN [active EXCEPT ![r] = None] ELSE active

(* The last append, which fails under a context that is done and whose     *)
(* error is dropped, and what the goroutine does after it.                 *)
RunFinish(f) ==
  LET r == fire[f].rs
      u == run[f].under
  IN /\ run[f].at = "executing"
     /\ finished' = IF RunDone(f) THEN finished ELSE finished \cup {f}
     /\ run' = [run EXCEPT ![f] = [at |-> "done", under |-> "none"]]
     /\ gate' = IF Opens(u) THEN gate \ {r} ELSE gate
     /\ IF u = "restart" THEN ClearsActive(f) ELSE UNCHANGED active
     /\ IF u \in {"single", "skip"} THEN Ends(f) ELSE UNCHANGED fire
     /\ IF u \in {"pump", "drain"}
          THEN /\ PumpTo(r, IF u = "pump" THEN "recv" ELSE "drain")
               /\ UNCHANGED inFlight
          ELSE /\ inFlight' = inFlight - 1
               /\ UNCHANGED pump
     /\ UNCHANGED <<configVars, newest, cancelled, queue, items, closed,
                    callerDone, stopped, panicked>>

-----------------------------------------------------------------------------
(* Reload, one action for each case of its switch.  It holds the engine's  *)
(* lock throughout.                                                        *)

Compiles(m) ==
  /\ Len(mode) < MaxCompiled
  /\ mode' = Append(mode, m)
  /\ automations' = Len(mode) + 1

ReloadRemoved ==
  /\ automations # 0
  /\ automations' = 0 /\ current' = 0 /\ enabled' = TRUE
  /\ registered' = registered \ {automations}
  /\ cancelled' = IF active[current] = None THEN cancelled
                                            ELSE cancelled \cup {active[current]}
  /\ active' = [active EXCEPT ![current] = None]
  /\ closed' = IF queue[current] = 0 THEN closed ELSE closed \cup {current}
  /\ queue' = [queue EXCEPT ![current] = 0]
  /\ UNCHANGED <<mode, auto, gate, newest, items, pump, fire, runVars, engineVars>>

\* Mutant: the matchers of the old object go, those of the new one are not
\* registered.
MutReloadUnchanged ==
  /\ automations # 0
  /\ Compiles(mode[automations])
  /\ registered' = registered \ {automations}
  /\ UNCHANGED <<enabled, current, auto, modeVars, queueVars,
                 fire, runVars, engineVars>>

ReloadUnchanged ==
  /\ automations # 0
  /\ Compiles(mode[automations])
  /\ UNCHANGED <<enabled, registered, current, auto, modeVars, queueVars,
                 fire, runVars, engineVars>>

ReloadChanged(m) ==
  /\ automations # 0
  /\ m # mode[automations]
  /\ Compiles(m)
  /\ registered' = (registered \ {automations}) \cup {automations'}
  /\ auto' = [auto EXCEPT ![current] = automations']
  /\ enabled' = TRUE
  /\ UNCHANGED <<current, modeVars, queueVars, fire, runVars, engineVars>>

ReloadAdded(m) ==
  /\ automations = 0
  /\ Compiles(m)
  /\ registered' = registered \cup {automations'}
  /\ current' = automations'
  /\ UNCHANGED <<enabled, auto, modeVars, queueVars, fire, runVars, engineVars>>

SetEnabled(on) ==
  /\ current # 0
  /\ enabled' = on
  /\ UNCHANGED <<mode, automations, registered, current, auto,
                 modeVars, queueVars, fire, runVars, engineVars>>

-----------------------------------------------------------------------------

(* What Stop does after this, wait for inFlight to drain or give up, changes *)
(* nothing of the engine.                                                    *)
Stop ==
  /\ ~stopped
  /\ stopped' = TRUE
  /\ UNCHANGED <<configVars, modeVars, queueVars, fire, runVars,
                 callerDone, inFlight, panicked>>

-----------------------------------------------------------------------------
Goroutine(f) ==
  \/ Lookup(f) \/ FireSingle(f) \/ FireRestart(f) \/ FireParallel(f)
  \/ EnsureQueue(f) \/ Enqueue(f) \/ StartPumpOnce(f)
  \/ RunFinish(f)

Pump(r) ==
  PumpStart(r) \/ PumpReceive(r) \/ PumpStopping(r) \/ PumpDrain(r) \/ PumpExit(r)

Next ==
  /\ ~panicked
  /\ \/ Dispatch
     \/ \E f \in Firings : Trigger(f) \/ CallerReturns(f) \/ Goroutine(f)
     \/ \E r \in Objects : Pump(r)
     \/ ReloadRemoved \/ ReloadUnchanged
     \/ \E m \in Modes : ReloadChanged(m) \/ ReloadAdded(m)
     \/ \E on \in BOOLEAN : SetEnabled(on)
     \/ Stop

Spec == Init /\ [][Next]_vars

-----------------------------------------------------------------------------
Executing(f) == run[f].at = "executing"

(* Two runs admitted in single mode on one runState never overlap, whatever *)
(* modes reloads give the automation in between (the running flag of fire). *)
SingleIsExclusive ==
  \A f, g \in Firings :
    /\ f # g /\ fire[f].rs = fire[g].rs
    /\ run[f].under = "single" /\ run[g].under = "single"
    => ~(Executing(f) /\ Executing(g))

(* Of the restart runs of one runState that still execute, all but the     *)
(* newest are cancelled: a run that ends late does not take away the       *)
(* cancel function of its successor (restartGen in fire).                  *)
RestartKeepsNewest ==
  \A f \in Firings :
    run[f].under = "restart" /\ Executing(f) /\ newest[fire[f].rs] # f
      => f \in cancelled

(* A configured automation is never deaf: whatever sequence of reloads led *)
(* here, its runState holds, and the registry has the matchers of, an      *)
(* object that equals the one last compiled (Reload).                      *)
ReloadCoherent ==
  /\ automations = 0 <=> current = 0
  /\ automations # 0 =>
       /\ mode[auto[current]] = mode[automations]
       /\ \E o \in registered : mode[o] = mode[automations]

(* Stop waits for the goroutines, and for nothing else: when inFlight is 0 *)
(* no goroutine of a firing is alive, no run executes and no pump serves a *)
(* queue, so that the script engine may be stopped next.                   *)
InFlightCounts ==
  inFlight = 0 <=>
    /\ \A f \in Firings : fire[f].at \in {"idle", "end"} /\ ~Executing(f)
    /\ \A r \in Objects : pump[r].at \in {"none", "exit"}

(* A match that waits in the queue of a configured automation is waited    *)
(* for: the pump receives from that very channel, or a firing is about to  *)
(* start it, as long as the context the pump was started with lasts.       *)
QueueServed ==
  \A q \in 1..2 :
    current # 0 /\ items[current][q] # <<>> =>
      \/ \E f \in Firings : fire[f].at = "pump" /\ fire[f].rs = current
      \/ pump[current].at = "start" /\ queue[current] = q
      \/ pump[current].at \in {"recv", "run", "drain"} /\ pump[current].q = q
      \/ pump[current].at = "exit" /\ Done(pump[current].ctx)

(* A run or a skip that is over has its automation_finished event in the   *)
(* log (appendFinished, emitSkipped).                                      *)
Recorded ==
  \A f \in Firings :
    run[f].at = "done" => f \in finished
=============================================================================
