------------------------------ MODULE Scripts -------------------------------
(***************************************************************************)
(* The script engine (internal/script/engine.go): calls that run a script  *)
(* in the goroutine of their caller, Cancel, and Stop.                     *)
(*                                                                         *)
(* The calls share one correlation id, as the script actions of one        *)
(* automation run do, so that each overwrites the entry of the one before  *)
(* in the map of runs.  Running the Starlark code is one step that ends    *)
(* well, with an error or, under a context that is done, as cancelled.     *)
(* An append is taken to succeed while its context lives; EventStore has   *)
(* its failures.                                                           *)
(***************************************************************************)
CONSTANTS
  Calls,          \* calls of Engine.Call
  NoRun           \* the map has no entry

ASSUME ScriptAssumption == NoRun \notin Calls

VARIABLES
  callAt,         \* where each Call is
  runs,           \* Engine.runs: whose entry the id has
  inFlight,       \* Engine.inFlight: the calls it counts
  gone,           \* the calls whose caller's context is done
  stopped,        \* the calls whose own context was cancelled
  ended,          \* scriptRun.done is closed
  recorded,       \* the calls whose script_finished was appended
  cancelPc,       \* where a Cancel is
  cancels,        \* the run it cancels
  stopPc,         \* where Stop is
  awaits          \* history: the calls counted when Stop was called

scriptVars == <<callAt, runs, inFlight, gone, stopped, ended, recorded,
                cancelPc, cancels, stopPc, awaits>>
outside == <<gone, cancelPc, cancels, stopPc, awaits>>

ScriptInit ==
  /\ callAt = [k \in Calls |-> "new"]
  /\ runs = NoRun
  /\ inFlight = {} /\ gone = {} /\ stopped = {} /\ ended = {} /\ recorded = {}
  /\ cancelPc = "idle" /\ cancels = NoRun
  /\ stopPc = "idle" /\ awaits = {}

CallTo(k, place) == callAt' = [callAt EXCEPT ![k] = place]

\* The script is looked up, in the map the last reload put there, and its
\* arguments are checked; then the run is entered, whoever had the entry.
RegisterRun(k) ==
  /\ callAt[k] = "new"
  /\ \/ CallTo(k, "count") /\ runs' = k
     \/ CallTo(k, "returned") /\ UNCHANGED runs
  /\ UNCHANGED <<inFlight, stopped, ended, recorded, outside>>

CountCall(k) ==
  /\ callAt[k] = "count"
  /\ inFlight' = inFlight \cup {k}
  /\ CallTo(k, "execute")
  /\ UNCHANGED <<runs, stopped, ended, recorded, outside>>

\* script_invoked is appended, its error ignored, and the script runs to an end
\* or until its context is done.
Execute(k) ==
  /\ callAt[k] = "execute"
  /\ CallTo(k, "record")
  /\ UNCHANGED <<runs, inFlight, stopped, ended, recorded, outside>>

\* MUTANT: the append takes the context of the run.
MutRecord(k) ==
  /\ callAt[k] = "record"
  /\ recorded' = IF k \in gone \cup stopped THEN recorded ELSE recorded \cup {k}
  /\ CallTo(k, "uncount")
  /\ UNCHANGED <<runs, inFlight, stopped, ended, outside>>

\* script_finished is appended under the caller's context.
Record(k) ==
  /\ callAt[k] = "record"
  /\ recorded' = IF k \in gone THEN recorded ELSE recorded \cup {k}
  /\ CallTo(k, "uncount")
  /\ UNCHANGED <<runs, inFlight, stopped, ended, outside>>

\* The deferred calls, last first: the count, the context, the done channel.
UncountCall(k) ==
  /\ callAt[k] = "uncount"
  /\ inFlight' = inFlight \ {k}
  /\ CallTo(k, "finish")
  /\ UNCHANGED <<runs, stopped, ended, recorded, outside>>

FinishRun(k) ==
  /\ callAt[k] = "finish"
  /\ stopped' = stopped \cup {k}
  /\ ended' = ended \cup {k}
  /\ CallTo(k, "returned")
  /\ UNCHANGED <<runs, inFlight, recorded, outside>>

\* The retention of a finished run is over: its entry goes if it is still its.
ForgetRun(k) ==
  /\ k \in ended /\ runs = k
  /\ runs' = NoRun
  /\ UNCHANGED <<callAt, inFlight, stopped, ended, recorded, outside>>

CallerGoes(k) ==
  /\ callAt[k] \notin {"new", "returned"} /\ k \notin gone
  /\ gone' = gone \cup {k}
  /\ UNCHANGED <<callAt, runs, inFlight, stopped, ended, recorded,
                 cancelPc, cancels, stopPc, awaits>>

-----------------------------------------------------------------------------
\* Cancel finds the run and cancels its context ...
CancelRun ==
  /\ cancelPc = "idle"
  /\ \/ /\ runs # NoRun
        /\ cancels' = runs /\ stopped' = stopped \cup {runs}
        /\ cancelPc' = "wait"
     \/ runs = NoRun /\ cancelPc' = "not_found" /\ UNCHANGED <<cancels, stopped>>
  /\ UNCHANGED <<callAt, runs, inFlight, gone, ended, recorded, stopPc, awaits>>

\* ... and waits for its end, for a while.
CancelReturns ==
  /\ cancelPc = "wait"
  /\ \/ cancels \in ended /\ cancelPc' = "ok"
     \/ cancelPc' = "timeout"
  /\ UNCHANGED <<callAt, runs, inFlight, gone, stopped, ended, recorded,
                 cancels, stopPc, awaits>>

StopEngine ==
  /\ stopPc = "idle"
  /\ stopPc' = "wait"
  /\ awaits' = inFlight
  /\ UNCHANGED <<callAt, runs, inFlight, gone, stopped, ended, recorded,
                 cancelPc, cancels>>

\* Stop returns when nothing is in flight, and clears the map, or when its own
\* context is done.
StopReturns ==
  /\ stopPc = "wait"
  /\ \/ inFlight = {} /\ stopPc' = "ok" /\ runs' = NoRun
     \/ stopPc' = "timeout" /\ UNCHANGED runs
  /\ UNCHANGED <<callAt, inFlight, gone, stopped, ended, recorded,
                 cancelPc, cancels, awaits>>

ScriptNext ==
  \/ \E k \in Calls :
       \/ RegisterRun(k) \/ CountCall(k) \/ Execute(k) \/ Record(k)
       \/ UncountCall(k) \/ FinishRun(k) \/ ForgetRun(k) \/ CallerGoes(k)
  \/ CancelRun \/ CancelReturns \/ StopEngine \/ StopReturns

ScriptSpec == ScriptInit /\ [][ScriptNext]_scriptVars

\* Cancel "waits briefly for the runner to emit its terminal event" and Stop
\* "waits for in-flight Calls to drain" (engine.go): once they return without an
\* error, the runs they waited for have their script_finished event, unless the
\* caller of the script itself has gone.
WaitedIsRecorded ==
  /\ cancelPc = "ok" => cancels \in recorded \cup gone
  /\ stopPc = "ok" => awaits \subseteq recorded \cup gone
=============================================================================
