----------------------------- MODULE HueDriver ------------------------------
(***************************************************************************)
(* The Hue driver (drivers/hue/cmd/hue-driver/main.go) on the driver kit   *)
(* (switchyard-driverkit/driver/driver.go), for one bulb: the bridge, the  *)
(* three goroutines of the driver process that share its cache and the     *)
(* kit's entities, and what the host was last sent.                        *)
(*                                                                         *)
(* A light's attributes are one value; an event of the bridge carries it,  *)
(* or says only that the bulb is reachable and stands for what is cached.  *)
(* A list of lights that fails, a dropped stream, a change of the bulb and *)
(* the like are counted, and bounded, as shocks.                           *)
(***************************************************************************)
EXTENDS Naturals, Sequences

CONSTANTS
  Lights,         \* states of the bulb
  Gone,           \* the bulb is not there
  MaxShocks       \* bound: shocks

ASSUME HueAssumption == Gone \notin Lights /\ MaxShocks \in Nat

VARIABLES
  bulb,           \* the bridge's state of the bulb
  sse, streamUp,  \* the events in the channel, and the connection behind it
  process,        \* "boot" or "up"
  known,          \* stateCache.hueToID has the bulb
  cached,         \* stateCache.byEntID
  entity,         \* Driver.entities: the tracked attributes
  emitter,        \* Driver.emitter is set
  hostView,       \* the last state the host was sent
  huePc, hueVal,  \* where each goroutine is, and the value it carries
  back,           \* where the event loop goes after it has emitted
  shocks

hueVars == <<bulb, sse, streamUp, process, known, cached, entity, emitter,
             hostView, huePc, hueVal, back, shocks>>

Resyncers == {"loop", "ticker"}
Goroutines == Resyncers \cup {"run"}

Fresh ==
  [huePc |-> [loop |-> "open", ticker |-> "list", run |-> "start"],
   hueVal |-> [g \in Goroutines |-> Gone]]

HueInit ==
  /\ bulb \in Lights \cup {Gone}
  /\ sse = <<>> /\ streamUp = FALSE
  /\ process = "boot"
  /\ known = FALSE /\ cached = Gone /\ entity = Gone
  /\ emitter = FALSE /\ hostView = Gone
  /\ huePc = Fresh.huePc /\ hueVal = Fresh.hueVal
  /\ back = "open"
  /\ shocks = 0

HueAt(g, place) == process = "up" /\ huePc[g] = place
HueTo(g, place) == huePc' = [huePc EXCEPT ![g] = place]
Carry(g, value) == hueVal' = [hueVal EXCEPT ![g] = value]
Home(g) == CASE g = "loop" -> back [] g = "ticker" -> "list" [] g = "run" -> "idle"
GoHome(g) == HueTo(g, Home(g))
Shock == shocks < MaxShocks /\ shocks' = shocks + 1

\* The process ends: a panic, or any other death.
Dies ==
  /\ process' = "boot"
  /\ known' = FALSE /\ cached' = Gone /\ entity' = Gone /\ emitter' = FALSE
  /\ sse' = <<>> /\ streamUp' = FALSE
  /\ huePc' = Fresh.huePc /\ hueVal' = Fresh.hueVal /\ back' = "open"

\* buildDriver: the lights are listed and registered before any goroutine runs.
BuildDriver ==
  /\ process = "boot"
  /\ process' = "up"
  /\ known' = (bulb # Gone) /\ cached' = bulb /\ entity' = bulb
  /\ UNCHANGED <<bulb, sse, streamUp, emitter, hostView, huePc, hueVal, back, shocks>>

-----------------------------------------------------------------------------
\* runEventLoop and streamOnce: the stream is opened, its events applied until
\* the channel is closed, and the lights are listed before the next stream.
OpenStream ==
  /\ HueAt("loop", "open")
  /\ \/ /\ streamUp' = TRUE /\ sse' = <<>> /\ back' = "stream"
        /\ HueTo("loop", "stream") /\ UNCHANGED shocks
     \/ Shock /\ HueTo("loop", "list") /\ UNCHANGED <<streamUp, sse, back>>
  /\ UNCHANGED <<bulb, process, known, cached, entity, emitter, hostView, hueVal>>

\* applyLightEvent and applyConnectivityEvent.
ApplyEvent ==
  /\ HueAt("loop", "stream") /\ sse # <<>>
  /\ sse' = Tail(sse)
  /\ LET value == IF Head(sse) = Gone THEN cached ELSE Head(sse) IN
     \/ known /\ cached' = value /\ Carry("loop", value) /\ HueTo("loop", "emit")
     \/ ~known /\ UNCHANGED <<cached, hueVal, huePc>>
  /\ UNCHANGED <<bulb, streamUp, process, known, entity, emitter, hostView, back, shocks>>

StreamOver ==
  /\ HueAt("loop", "stream") /\ sse = <<>> /\ ~streamUp
  /\ back' = "open"
  /\ HueTo("loop", "list")
  /\ UNCHANGED <<bulb, sse, streamUp, process, known, cached, entity, emitter,
                 hostView, hueVal, shocks>>

-----------------------------------------------------------------------------
\* resync, of the event loop and of periodicResync.
ListLights(g) ==
  /\ HueAt(g, "list")
  /\ \/ Carry(g, bulb) /\ HueTo(g, "known?") /\ UNCHANGED shocks
     \/ Shock /\ GoHome(g) /\ UNCHANGED hueVal
  /\ UNCHANGED <<bulb, sse, streamUp, process, known, cached, entity, emitter,
                 hostView, back>>

LookUp(g) ==
  /\ HueAt(g, "known?")
  /\ HueTo(g, CASE hueVal[g] = Gone -> "prune"
                [] hueVal[g] # Gone /\ known -> "refresh"
                [] hueVal[g] # Gone /\ ~known -> "add")
  /\ UNCHANGED <<bulb, sse, streamUp, process, known, cached, entity, emitter,
                 hostView, hueVal, back, shocks>>

\* MUTANT: the refreshed state is not emitted.
MutRefresh(g) ==
  /\ HueAt(g, "refresh")
  /\ cached' = hueVal[g]
  /\ GoHome(g)
  /\ UNCHANGED <<bulb, sse, streamUp, process, known, entity, emitter, hostView,
                 hueVal, back, shocks>>

Refresh(g) ==
  /\ HueAt(g, "refresh")
  /\ cached' = hueVal[g]
  /\ HueTo(g, "emit")
  /\ UNCHANGED <<bulb, sse, streamUp, process, known, entity, emitter, hostView,
                 hueVal, back, shocks>>

\* registerBulb: AddEntity fails if the other resync was faster; the cache is
\* filled; OnCapability panics if the entity has gone again.
AddEntity(g) ==
  /\ HueAt(g, "add")
  /\ \/ entity = Gone /\ entity' = hueVal[g] /\ HueTo(g, "fill")
     \/ entity # Gone /\ GoHome(g) /\ UNCHANGED entity
  /\ UNCHANGED <<bulb, sse, streamUp, process, known, cached, emitter, hostView,
                 hueVal, back, shocks>>

FillCache(g) ==
  /\ HueAt(g, "fill")
  /\ known' = TRUE /\ cached' = hueVal[g]
  /\ HueTo(g, "capabilities")
  /\ UNCHANGED <<bulb, sse, streamUp, process, entity, emitter, hostView, hueVal,
                 back, shocks>>

OnCapability(g) ==
  /\ HueAt(g, "capabilities")
  /\ \/ /\ entity # Gone /\ GoHome(g)
        /\ UNCHANGED <<sse, streamUp, process, known, cached, entity, emitter,
                       hueVal, back>>
     \/ entity = Gone /\ Dies
  /\ UNCHANGED <<bulb, hostView, shocks>>

\* A bulb that is no longer listed leaves the cache, then the kit.
Prune(g) ==
  /\ HueAt(g, "prune")
  /\ \/ known /\ HueTo(g, "unregister")
     \/ ~known /\ GoHome(g)
  /\ known' = FALSE
  /\ cached' = IF known THEN Gone ELSE cached
  /\ UNCHANGED <<bulb, sse, streamUp, process, entity, emitter, hostView, hueVal,
                 back, shocks>>

UnregisterEntity(g) ==
  /\ HueAt(g, "unregister")
  /\ IF entity = Gone THEN GoHome(g) ELSE HueTo(g, "send")
  /\ entity' = Gone
  /\ UNCHANGED <<bulb, sse, streamUp, process, known, cached, emitter, hostView,
                 hueVal, back, shocks>>

\* EmitState: the attributes are tracked under the lock, then sent.
EmitState(g) ==
  /\ HueAt(g, "emit")
  /\ \/ entity = Gone /\ GoHome(g) /\ UNCHANGED entity
     \/ entity # Gone /\ entity' = hueVal[g] /\ HueTo(g, "send")
  /\ UNCHANGED <<bulb, sse, streamUp, process, known, cached, emitter, hostView,
                 hueVal, back, shocks>>

SendToHost(g) ==
  /\ HueAt(g, "send")
  /\ hostView' = IF emitter THEN hueVal[g] ELSE hostView
  /\ GoHome(g)
  /\ UNCHANGED <<bulb, sse, streamUp, process, known, cached, entity, emitter,
                 hueVal, back, shocks>>

-----------------------------------------------------------------------------
\* OnRunStart: the emitter is stored, then what is tracked is read and sent.
StoreEmitter ==
  /\ HueAt("run", "start")
  /\ emitter' = TRUE
  /\ HueTo("run", "assert")
  /\ UNCHANGED <<bulb, sse, streamUp, process, known, cached, entity, hostView,
                 hueVal, back, shocks>>

AssertState ==
  /\ HueAt("run", "assert")
  /\ \/ entity # Gone /\ Carry("run", entity) /\ HueTo("run", "send")
     \/ entity = Gone /\ GoHome("run") /\ UNCHANGED hueVal
  /\ UNCHANGED <<bulb, sse, streamUp, process, known, cached, entity, emitter,
                 hostView, back, shocks>>

\* OnCommand finds the handler ...
Command(value) ==
  /\ HueAt("run", "idle") /\ entity # Gone /\ Shock
  /\ Carry("run", value) /\ HueTo("run", "set")
  /\ UNCHANGED <<bulb, sse, streamUp, process, known, cached, entity, emitter,
                 hostView, back>>

\* ... handleCommand sets the light, which the bridge reports as an event, ...
SetLight ==
  /\ HueAt("run", "set")
  /\ \/ /\ bulb # Gone
        /\ bulb' = hueVal["run"]
        /\ sse' = IF streamUp THEN Append(sse, bulb') ELSE sse
        /\ HueTo("run", "merge")
     \/ GoHome("run") /\ UNCHANGED <<bulb, sse>>
  /\ UNCHANGED <<streamUp, process, known, cached, entity, emitter, hostView,
                 hueVal, back, shocks>>

MergeCommand ==
  /\ HueAt("run", "merge")
  /\ cached' = hueVal["run"]
  /\ HueTo("run", "track")
  /\ UNCHANGED <<bulb, sse, streamUp, process, known, entity, emitter, hostView,
                 hueVal, back, shocks>>

\* ... and OnCommand tracks the result in an entry it takes to be still there.
TrackResult ==
  /\ HueAt("run", "track")
  /\ \/ /\ entity # Gone /\ entity' = hueVal["run"] /\ HueTo("run", "send")
        /\ UNCHANGED <<sse, streamUp, process, known, cached, emitter, hueVal, back>>
     \/ entity = Gone /\ Dies
  /\ UNCHANGED <<bulb, hostView, shocks>>

-----------------------------------------------------------------------------
\* The bulb is switched by somebody else, removed or paired; the bridge says that
\* it is reachable; the stream breaks; the process dies.
BulbChanges(value) ==
  /\ Shock /\ value # bulb
  /\ bulb' = value
  /\ sse' = IF streamUp /\ value # Gone /\ bulb # Gone THEN Append(sse, value) ELSE sse
  /\ UNCHANGED <<streamUp, process, known, cached, entity, emitter, hostView,
                 huePc, hueVal, back>>

Connectivity ==
  /\ Shock /\ streamUp
  /\ sse' = Append(sse, Gone)
  /\ UNCHANGED <<bulb, streamUp, process, known, cached, entity, emitter,
                 hostView, huePc, hueVal, back>>

StreamBreaks ==
  /\ Shock /\ streamUp
  /\ streamUp' = FALSE
  /\ UNCHANGED <<bulb, sse, process, known, cached, entity, emitter, hostView,
                 huePc, hueVal, back>>

ProcessDies ==
  /\ Shock /\ process = "up"
  /\ Dies
  /\ UNCHANGED <<bulb, hostView>>

Resync(g) ==
  \/ ListLights(g) \/ LookUp(g) \/ Refresh(g) \/ AddEntity(g) \/ FillCache(g)
  \/ OnCapability(g) \/ Prune(g) \/ UnregisterEntity(g)

HueLoop == OpenStream \/ ApplyEvent \/ StreamOver
HueRun == StoreEmitter \/ AssertState \/ SetLight \/ MergeCommand \/ TrackResult

HueStep(g) ==
  \/ g \in Resyncers /\ Resync(g)
  \/ EmitState(g) \/ SendToHost(g)
  \/ g = "loop" /\ HueLoop
  \/ g = "run" /\ HueRun

HueNext ==
  \/ BuildDriver
  \/ \E g \in Goroutines : HueStep(g)
  \/ \E value \in Lights : Command(value)
  \/ \E value \in Lights \cup {Gone} : BulbChanges(value)
  \/ Connectivity \/ StreamBreaks \/ ProcessDies

\* The host ends up with the state of a bulb that is there: neither the order in
\* which the goroutines track and send, nor a change between the list of lights
\* and the opening of the stream, nor crossing resyncs, nor the death of the
\* process on an entity that another goroutine has removed, leaves it behind for
\* good (driver.go: a daemon converges "to the driver's current view").
MirrorsBulb == <>[](bulb # Gone => hostView = bulb)
=============================================================================
