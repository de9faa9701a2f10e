-------------------------- MODULE AutomationProofs --------------------------
(***************************************************************************)
(* The automation engine for any finite set of firings, any modes, any     *)
(* number of reloads and any size of the queue: what fire's gate, restart  *)
(* generations, in-flight count and queue pump promise.                    *)
(***************************************************************************)
EXTENDS Automation, Integers, TLAPS

FireAts == {"idle", "lookup", "admit", "send", "pump", "run", "end"}
RunAts == {"none", "executing", "done"}
Unders == {"none", "skip", "single", "restart", "parallel", "pump", "drain"}
PumpAts == {"none", "start", "recv", "run", "drain", "exit"}

FireRec == [at : FireAts, rs : Nat, mode : Modes \cup {None}, q : 0..2]
RunRec == [at : RunAts, under : Unders]
PumpRec == [at : PumpAts, q : 0..2, ctx : Firings \cup {None}]

EngineType ==
  /\ fire \in [Firings -> FireRec]
  /\ run \in [Firings -> RunRec]
  /\ pump \in [Objects -> PumpRec]
  /\ items \in [Objects -> Seq(Firings) \X Seq(Firings)]
  /\ queue \in [Objects -> 0..2]
  /\ active \in [Objects -> Firings \cup {None}]
  /\ newest \in [Objects -> Firings \cup {None}]

\* What the reloads keep, for ReloadCoherent: the objects compiled so far are
\* those up to Len(mode).
ConfigInv ==
  /\ mode \in Seq(Modes) /\ Len(mode) <= MaxCompiled
  /\ automations \in 0..Len(mode) /\ current \in 0..Len(mode)
  /\ registered \subseteq 1..Len(mode)
  /\ auto \in [Objects -> Objects]
  /\ current # 0 => auto[current] <= Len(mode)
  /\ \A o \in Objects : Len(mode) < o => auto[o] = o
  /\ ReloadCoherent

ByGoroutine == {"single", "skip"}
ByPump == {"pump", "drain"}

\* Where the goroutine of a firing is, and its run.
Stage(f) ==
  /\ fire[f].rs <= Len(mode)
  /\ fire[f].at \in {"admit", "send", "pump", "run"} => fire[f].rs # 0
  /\ fire[f].at \in {"idle", "lookup", "admit", "send"} => run[f].at = "none"
  /\ Executing(f) => fire[f].rs # 0 /\ (fire[f].at = "run" <=> run[f].under \in ByGoroutine)
  /\ fire[f].at = "run" => Executing(f)
  /\ Executing(f) => run[f].under # "none"
  /\ fire[f].at = "send" => fire[f].q # 0

StageInv == \A f \in Firings : Stage(f)

\* A firing waits in one place of one queue, of its own runState, and its run
\* has not begun.
Waiting(f, r) ==
  fire[f].rs = r /\ fire[f].at \in {"pump", "end"} /\ run[f].at = "none"

WaitInv ==
  \A r \in Objects, q \in 1..2 : \A i \in 1..Len(items[r][q]) : Waiting(items[r][q][i], r)

OnceInv ==
  \A r \in Objects, p, q \in 1..2 :
    \A i \in 1..Len(items[r][p]), j \in 1..Len(items[r][q]) :
      items[r][p][i] = items[r][q][j] => p = q /\ i = j

QueueInv == WaitInv /\ OnceInv

GateInv ==
  /\ \A f \in Firings : Executing(f) /\ run[f].under = "single" => fire[f].rs \in gate
  /\ SingleIsExclusive

RestartInv ==
  /\ \A f \in Firings :
       Executing(f) /\ run[f].under = "restart"
         => f \in cancelled \/ active[fire[f].rs] = f
  /\ \A r \in Objects : active[r] # None => active[r] = newest[r]

\* A pump that executes a run executes one.
PumpInv ==
  /\ \A f \in Firings :
       Executing(f) /\ run[f].under \in ByPump => pump[fire[f].rs].at = "run"
  /\ \A f, g \in Firings :
       /\ Executing(f) /\ run[f].under \in ByPump
       /\ Executing(g) /\ run[g].under \in ByPump
       /\ fire[f].rs = fire[g].rs
       => f = g

\* The goroutines Engine.inFlight counts.
OfFirings == {f \in Firings : fire[f].at \notin {"idle", "end"}}
OfRuns == {f \in Firings : Executing(f) /\ run[f].under \in {"restart", "parallel"}}
OfPumps == {r \in Objects : pump[r].at \notin {"none", "exit"}}

\* What a step does to them and to the count: none comes or goes, some of the
\* firings' begin, one ends, or one starts a goroutine, counted in its place.
Launched(S) ==
  /\ OfFirings \cap S = {} /\ OfFirings' = OfFirings \cup S
  /\ OfRuns' = OfRuns /\ OfPumps' = OfPumps

Ended ==
  \/ /\ \E f \in OfFirings : OfFirings' = OfFirings \ {f}
     /\ OfRuns' = OfRuns /\ OfPumps' = OfPumps
  \/ /\ \E f \in OfRuns : OfRuns' = OfRuns \ {f}
     /\ OfFirings' = OfFirings /\ OfPumps' = OfPumps
  \/ /\ \E r \in OfPumps : OfPumps' = OfPumps \ {r}
     /\ OfFirings' = OfFirings /\ OfRuns' = OfRuns

HandedOver ==
  /\ \E f \in OfFirings : OfFirings' = OfFirings \ {f}
  /\ \/ (\E f \in Firings \ OfRuns : OfRuns' = OfRuns \cup {f}) /\ OfPumps' = OfPumps
     \/ (\E r \in Objects \ OfPumps : OfPumps' = OfPumps \cup {r}) /\ OfRuns' = OfRuns

CountStep ==
  \/ OfFirings' = OfFirings /\ OfRuns' = OfRuns /\ OfPumps' = OfPumps /\ inFlight' = inFlight
  \/ \E S \in SUBSET Firings : Launched(S) /\ inFlight' = inFlight + Cardinality(S)
  \/ \E f \in Firings : Launched({f}) /\ inFlight' = inFlight + 1
  \/ Ended /\ inFlight' = inFlight - 1
  \/ HandedOver /\ inFlight' = inFlight

\* A runState that is not made yet has no queue.
Fresh ==
  \A o \in Objects :
    Len(mode) < o =>
      /\ o \notin closed /\ queue[o] = 0 /\ pump[o].at = "none"
      /\ items[o][1] = <<>> /\ items[o][2] = <<>>

\* The runState in the map has at most one channel, which is open: the firings
\* send to it and the pump receives from it until its context is done.
Channel(r) ==
  /\ r \notin closed /\ queue[r] \in 0..1 /\ items[r][2] = <<>>
  /\ queue[r] = 0 => pump[r].at = "none" /\ items[r][1] = <<>>

Sender(f, r) ==
  fire[f].rs = r =>
    /\ fire[f].at \in {"send", "pump"} => queue[r] # 0
    /\ fire[f].at = "send" => fire[f].q = 1
    /\ Executing(f) /\ run[f].under = "drain" => Done(pump[r].ctx)

Receiver(r) ==
  /\ pump[r].at \in {"recv", "run", "drain"} => pump[r].q = 1
  /\ pump[r].at \in {"drain", "exit"} => Done(pump[r].ctx)
  /\ items[r][1] # <<>> =>
       \/ pump[r].at # "none"
       \/ \E f \in Firings : fire[f].at = "pump" /\ fire[f].rs = r

Serve(r) == Channel(r) /\ Receiver(r) /\ \A f \in Firings : Sender(f, r)

ServeInv == current # 0 => Serve(current)

EngineInv ==
  /\ EngineType /\ ConfigInv /\ StageInv /\ QueueInv /\ GateInv /\ RestartInv /\ PumpInv
  /\ Fresh /\ ServeInv

-----------------------------------------------------------------------------
(* Reload                                                                  *)

LEMMA InitConfig == Init => ConfigInv
<1> SUFFICES ASSUME Init
             PROVE  ConfigInv
  BY Zenon
<1>1. PICK m \in Modes : mode = <<m>>
  BY Zenon DEF Init
<1>2. /\ automations = 1 /\ registered = {1} /\ current = 1
      /\ auto = [o \in Objects |-> o]
  BY Zenon DEF Init
<1>3. mode \in Seq(Modes) /\ Len(mode) = 1 /\ 1 \in Objects
  BY <1>1, AutomationAssumption DEF Objects
<1>4. auto \in [Objects -> Objects] /\ \A o \in Objects : auto[o] = o
  BY Zenon, <1>2
<1>5. ReloadCoherent
  BY <1>2, <1>3, <1>4 DEF ReloadCoherent
<1> QED BY <1>2, <1>3, <1>4, <1>5, AutomationAssumption DEF ConfigInv

\* A compilation leaves the objects compiled before as they are.
LEMMA Compiled ==
  ASSUME ConfigInv, NEW m \in Modes, Compiles(m)
  PROVE  /\ mode' \in Seq(Modes) /\ Len(mode') = Len(mode) + 1 /\ Len(mode') <= MaxCompiled
         /\ automations' = Len(mode) + 1 /\ Len(mode) \in Nat
         /\ Len(mode) + 1 \in Objects
         /\ mode'[Len(mode) + 1] = m
         /\ \A o \in 1..Len(mode) : mode'[o] = mode[o]
         /\ 0..Len(mode) \subseteq 0..Len(mode') /\ 1..Len(mode) \subseteq 1..Len(mode')
         /\ automations' \in 1..Len(mode') /\ automations' \in 0..Len(mode')
         /\ automations' <= Len(mode') /\ automations' # 0
         /\ \A o \in Objects : Len(mode') < o => Len(mode) < o
<1>1. /\ mode \in Seq(Modes) /\ Len(mode) < MaxCompiled
      /\ mode' = Append(mode, m) /\ automations' = Len(mode) + 1
  BY Zenon DEF ConfigInv, Compiles
<1>2. Len(mode) \in Nat /\ mode' \in Seq(Modes) /\ Len(mode') = Len(mode) + 1
  BY <1>1
<1>3. mode'[Len(mode) + 1] = m /\ \A o \in 1..Len(mode) : mode'[o] = mode[o]
  BY <1>1
<1>4. /\ Len(mode') <= MaxCompiled /\ Len(mode) + 1 \in Objects
      /\ automations' \in 1..Len(mode') /\ automations' \in 0..Len(mode')
      /\ automations' <= Len(mode') /\ automations' # 0
      /\ 0..Len(mode) \subseteq 0..Len(mode') /\ 1..Len(mode) \subseteq 1..Len(mode')
      /\ \A o \in Objects : Len(mode') < o => Len(mode) < o
  <2>1. Len(mode) + 1 <= MaxCompiled /\ Len(mode) + 1 \in 1..MaxCompiled
    BY <1>1, <1>2, AutomationAssumption
  <2>2. \A n \in Nat :
          /\ n + 1 \in 1..(n + 1) /\ n + 1 \in 0..(n + 1) /\ n + 1 <= n + 1 /\ n + 1 # 0
          /\ 0..n \subseteq 0..(n + 1) /\ 1..n \subseteq 1..(n + 1)
          /\ \A o \in Nat : n + 1 < o => n < o
    OBVIOUS
  <2>3. Objects \subseteq Nat
    BY DEF Objects
  <2> QED BY Zenon, <1>1, <1>2, <2>1, <2>2, <2>3 DEF Objects
<1> QED BY Zenon, <1>1, <1>2, <1>3, <1>4

LEMMA NextConfig ==
  ASSUME ConfigInv, [Next]_vars
  PROVE  ConfigInv'
<1>1. /\ mode \in Seq(Modes) /\ Len(mode) <= MaxCompiled
      /\ automations \in 0..Len(mode) /\ current \in 0..Len(mode)
      /\ registered \subseteq 1..Len(mode) /\ auto \in [Objects -> Objects]
  BY Zenon DEF ConfigInv
<1>2. /\ automations = 0 <=> current = 0
      /\ automations # 0 => mode[auto[current]] = mode[automations]
      /\ automations # 0 => \E o \in registered : mode[o] = mode[automations]
      /\ current # 0 => auto[current] <= Len(mode)
      /\ \A o \in Objects : Len(mode) < o => auto[o] = o
  BY Zenon DEF ConfigInv, ReloadCoherent
<1>3. Len(mode) \in Nat /\ \A o \in 1..Len(mode) : o \in Objects /\ mode[o] \in Modes
  <2>1. Len(mode) \in Nat /\ \A o \in 1..Len(mode) : mode[o] \in Modes
    BY <1>1
  <2>2. \A n, k \in Nat : n <= k => 1..n \subseteq 1..k
    OBVIOUS
  <2> QED BY Zenon, <1>1, <2>1, <2>2, AutomationAssumption DEF Objects
<1>4. CASE UNCHANGED <<mode, automations, registered, current, auto>>
  <2>1. /\ mode' = mode /\ automations' = automations /\ registered' = registered
        /\ current' = current /\ auto' = auto
    BY Zenon, <1>4
  <2>2. ReloadCoherent'
    BY Zenon, <2>1 DEF ConfigInv, ReloadCoherent
  <2> QED BY Zenon, <2>1, <2>2 DEF ConfigInv
<1>5. CASE ReloadRemoved
  <2>1. /\ automations' = 0 /\ current' = 0 /\ registered' \subseteq registered
        /\ mode' = mode /\ auto' = auto
    BY Zenon, <1>5 DEF ReloadRemoved
  <2>2. ReloadCoherent'
    BY Zenon, <2>1 DEF ReloadCoherent
  <2>3. automations' \in 0..Len(mode') /\ current' \in 0..Len(mode')
    BY <1>3, <2>1
  <2> QED BY Zenon, <1>1, <1>2, <2>1, <2>2, <2>3 DEF ConfigInv
<1>6. CASE ReloadUnchanged
  <2>1. /\ automations # 0 /\ Compiles(mode[automations])
        /\ registered' = registered /\ current' = current /\ auto' = auto
    BY Zenon, <1>6 DEF ReloadUnchanged
  <2>2. mode[automations] \in Modes /\ automations \in 1..Len(mode) /\ current \in 1..Len(mode)
    <3>1. \A n \in Nat : \A o \in 0..n : o # 0 => o \in 1..n
      OBVIOUS
    <3> QED BY Zenon, <1>1, <1>2, <1>3, <2>1, <3>1
  <2>3. /\ mode' \in Seq(Modes) /\ Len(mode') = Len(mode) + 1 /\ Len(mode') <= MaxCompiled
        /\ automations' = Len(mode) + 1
        /\ mode'[Len(mode) + 1] = mode[automations]
        /\ \A o \in 1..Len(mode) : mode'[o] = mode[o]
        /\ 0..Len(mode) \subseteq 0..Len(mode') /\ 1..Len(mode) \subseteq 1..Len(mode')
        /\ automations' \in 0..Len(mode') /\ automations' # 0
        /\ \A o \in Objects : Len(mode') < o => Len(mode) < o
    BY Zenon, <2>1, <2>2, Compiled
  <2>4. auto[current] \in 1..Len(mode) /\ auto[current] <= Len(mode) + 1
    <3>1. auto[current] \in Objects /\ auto[current] <= Len(mode)
      BY Zenon, <1>1, <1>2, <1>3, <2>1, <2>2
    <3> QED BY <1>3, <3>1, AutomationAssumption DEF Objects
  <2>5. automations' # 0 /\ current' # 0
    BY Zenon, <1>2, <2>1, <2>3
  <2>6. mode'[auto'[current']] = mode'[automations']
    BY Zenon, <1>2, <2>1, <2>3, <2>4
  <2>7. \E o \in registered' : mode'[o] = mode'[automations']
    BY Zenon, <1>1, <1>2, <2>1, <2>3
  <2>8. ReloadCoherent'
    BY Zenon, <2>5, <2>6, <2>7 DEF ReloadCoherent
  <2>9. /\ automations' \in 0..Len(mode') /\ current' \in 0..Len(mode')
        /\ registered' \subseteq 1..Len(mode')
        /\ current' # 0 => auto'[current'] <= Len(mode')
    BY Zenon, <1>1, <2>1, <2>3, <2>4
  <2>10. \A o \in Objects : Len(mode') < o => auto'[o] = o
    BY Zenon, <1>2, <2>1, <2>3
  <2> QED BY Zenon, <1>1, <2>1, <2>3, <2>8, <2>9, <2>10 DEF ConfigInv
<1>7. ASSUME NEW m \in Modes, ReloadChanged(m)
      PROVE  ConfigInv'
  <2>1. /\ automations # 0 /\ Compiles(m) /\ current' = current
        /\ registered' = (registered \ {automations}) \cup {automations'}
        /\ auto' = [auto EXCEPT ![current] = automations']
    BY Zenon, <1>7 DEF ReloadChanged
  <2>2. current \in 1..Len(mode) /\ current \in Objects
    <3>1. \A n \in Nat : \A o \in 0..n : o # 0 => o \in 1..n
      OBVIOUS
    <3> QED BY Zenon, <1>1, <1>2, <1>3, <2>1, <3>1
  <2>3. /\ mode' \in Seq(Modes) /\ Len(mode') = Len(mode) + 1 /\ Len(mode') <= MaxCompiled
        /\ automations' = Len(mode) + 1 /\ Len(mode) + 1 \in Objects
        /\ 0..Len(mode) \subseteq 0..Len(mode') /\ 1..Len(mode) \subseteq 1..Len(mode')
        /\ automations' \in 1..Len(mode') /\ automations' \in 0..Len(mode')
        /\ automations' <= Len(mode') /\ automations' # 0
        /\ \A o \in Objects : Len(mode') < o => Len(mode) < o
    BY Zenon, <2>1, Compiled
  <2>4. /\ auto' \in [Objects -> Objects] /\ auto'[current] = automations'
        /\ \A o \in Objects : o # current => auto'[o] = auto[o]
    BY Zenon, <1>1, <2>1, <2>2, <2>3
  <2>5. automations' # 0 /\ current' # 0
    BY Zenon, <1>2, <2>1, <2>3
  <2>6. ReloadCoherent'
    BY Zenon, <2>1, <2>4, <2>5 DEF ReloadCoherent
  <2>7. /\ automations' \in 0..Len(mode') /\ current' \in 0..Len(mode')
        /\ registered' \subseteq 1..Len(mode')
        /\ auto'[current'] <= Len(mode')
    <3>1. current' \in 0..Len(mode') /\ auto'[current'] = automations'
      BY Zenon, <1>1, <2>1, <2>3, <2>4
    <3>2. registered' \subseteq 1..Len(mode')
      BY Zenon, <1>1, <2>1, <2>3
    <3> QED BY Zenon, <2>3, <3>1, <3>2
  <2>8. \A o \in Objects : Len(mode') < o => Len(mode) < o /\ o # current
    <3>1. \A n \in Nat : \A o \in 1..n : ~(n < o)
      OBVIOUS
    <3> QED BY Zenon, <1>3, <2>2, <2>3, <3>1
  <2>9. \A o \in Objects : Len(mode') < o => auto'[o] = o
    BY Zenon, <1>2, <2>4, <2>8
  <2> QED BY Zenon, <2>3, <2>4, <2>6, <2>7, <2>9 DEF ConfigInv
<1>8. ASSUME NEW m \in Modes, ReloadAdded(m)
      PROVE  ConfigInv'
  <2>1. /\ Compiles(m) /\ current' = automations' /\ auto' = auto
        /\ registered' = registered \cup {automations'}
    BY Zenon, <1>8 DEF ReloadAdded
  <2>2. /\ mode' \in Seq(Modes) /\ Len(mode') = Len(mode) + 1 /\ Len(mode') <= MaxCompiled
        /\ automations' = Len(mode) + 1 /\ Len(mode) + 1 \in Objects
        /\ 0..Len(mode) \subseteq 0..Len(mode') /\ 1..Len(mode) \subseteq 1..Len(mode')
        /\ automations' \in 1..Len(mode') /\ automations' \in 0..Len(mode')
        /\ automations' <= Len(mode') /\ automations' # 0
        /\ \A o \in Objects : Len(mode') < o => Len(mode) < o
    BY Zenon, <2>1, Compiled
  <2>3. Len(mode) < Len(mode) + 1 /\ Len(mode) + 1 # 0
    BY <1>3
  <2>4. auto'[current'] = automations' /\ automations' # 0 /\ current' # 0
    BY Zenon, <1>2, <2>1, <2>2, <2>3
  <2>5. ReloadCoherent'
    BY Zenon, <2>1, <2>4 DEF ReloadCoherent
  <2>6. /\ automations' \in 0..Len(mode') /\ current' \in 0..Len(mode')
        /\ registered' \subseteq 1..Len(mode')
        /\ auto'[current'] <= Len(mode')
    BY Zenon, <1>1, <2>1, <2>2, <2>4
  <2>7. \A o \in Objects : Len(mode') < o => auto'[o] = o
    BY Zenon, <1>2, <2>1, <2>2
  <2> QED BY Zenon, <1>1, <2>1, <2>2, <2>5, <2>6, <2>7 DEF ConfigInv
<1>9. ASSUME NEW f \in Firings, Trigger(f) \/ CallerReturns(f) \/ Goroutine(f)
      PROVE  UNCHANGED <<mode, automations, registered, current, auto>>
  BY Zenon, <1>9 DEF Trigger, CallerReturns, Goroutine, Lookup, FireSingle, FireRestart,
     FireParallel, EnsureQueue, Enqueue, StartPumpOnce, RunFinish, configVars
<1>10. ASSUME NEW r \in Objects, Pump(r)
       PROVE  UNCHANGED <<mode, automations, registered, current, auto>>
  BY Zenon, <1>10 DEF Pump, PumpStart, PumpReceive, PumpStopping, PumpDrain, PumpExit, configVars
<1>11. ASSUME NEW on \in BOOLEAN, SetEnabled(on)
       PROVE  UNCHANGED <<mode, automations, registered, current, auto>>
  BY Zenon, <1>11 DEF SetEnabled
<1>12. CASE Dispatch \/ Stop \/ UNCHANGED vars
  BY Zenon, <1>4, <1>12 DEF Dispatch, Stop, vars, configVars
<1> QED BY Zenon, <1>4, <1>5, <1>6, <1>7, <1>8, <1>9, <1>10, <1>11, <1>12 DEF Next

\* A configured automation is never deaf, whatever sequence of reloads led here:
\* Reload keeps the old object and its matchers when nothing has changed, and
\* replaces both otherwise.
THEOREM ReloadCorrect == Spec => []ReloadCoherent
<1>1. Init => ConfigInv
  BY InitConfig
<1>2. ConfigInv /\ [Next]_vars => ConfigInv'
  BY Zenon, NextConfig
<1>3. ConfigInv => ReloadCoherent
  BY Zenon DEF ConfigInv
<1> QED BY <1>1, <1>2, <1>3, PTL DEF Spec

-----------------------------------------------------------------------------
(* What a step does to the records.                                        *)

Only(f) == \A g \in Firings : g # f => fire'[g] = fire[g]
OnlyRun(f) == \A g \in Firings : g # f => run'[g] = run[g]
OnlyPump(r) == \A o \in Objects : o # r => pump'[o] = pump[o]

LEMMA FireAt ==
  ASSUME EngineType, NEW f \in Firings, NEW a \in FireAts, fire' = [fire EXCEPT ![f].at = a]
  PROVE  /\ fire' \in [Firings -> FireRec] /\ Only(f)
         /\ fire'[f].at = a /\ fire'[f].rs = fire[f].rs
<1>1. fire \in [Firings -> FireRec]
  BY Zenon DEF EngineType
<1>2. fire[f] \in FireRec /\ [fire[f] EXCEPT !.at = a] \in FireRec
  BY <1>1 DEF FireRec
<1>3. fire' = [fire EXCEPT ![f] = [fire[f] EXCEPT !.at = a]]
  BY <1>1
<1>4. fire' \in [Firings -> FireRec] /\ Only(f) /\ fire'[f] = [fire[f] EXCEPT !.at = a]
  BY Zenon, <1>1, <1>2, <1>3 DEF Only
<1> QED BY <1>2, <1>4 DEF FireRec

LEMMA FireEnds ==
  ASSUME EngineType, NEW f \in Firings, Ends(f)
  PROVE  /\ fire' \in [Firings -> FireRec] /\ Only(f)
         /\ fire'[f].at = "end" /\ fire'[f].rs = fire[f].rs
<1> DEFINE e == [[[fire[f] EXCEPT !.at = "end"] EXCEPT !.mode = None] EXCEPT !.q = 0]
<1>1. fire \in [Firings -> FireRec]
  BY Zenon DEF EngineType
<1>2. fire' = [fire EXCEPT ![f] = e]
  BY Zenon, <1>1 DEF Ends
<1>3. e \in FireRec /\ e.at = "end" /\ e.rs = fire[f].rs
  <2>1. "end" \in FireAts /\ None \in Modes \cup {None} /\ 0 \in 0..2
    BY DEF FireAts
  <2>2. fire[f] \in FireRec
    BY Zenon, <1>1
  <2> QED BY Zenon, <2>1, <2>2 DEF FireRec
<1>4. fire' \in [Firings -> FireRec] /\ Only(f) /\ fire'[f] = e
  BY Zenon, <1>1, <1>2, <1>3 DEF Only
<1> QED BY Zenon, <1>3, <1>4

LEMMA RunBegins ==
  ASSUME EngineType, NEW f \in Firings, NEW u \in Unders, Begins(f, u)
  PROVE  /\ run' \in [Firings -> RunRec] /\ OnlyRun(f)
         /\ run'[f].at = "executing" /\ run'[f].under = u
<1>1. run \in [Firings -> RunRec]
  BY Zenon DEF EngineType
<1>2. [at |-> "executing", under |-> u] \in RunRec
  BY DEF RunRec, RunAts
<1>3. /\ run' \in [Firings -> RunRec] /\ OnlyRun(f)
      /\ run'[f] = [at |-> "executing", under |-> u]
  BY Zenon, <1>1, <1>2 DEF Begins, OnlyRun
<1> QED BY <1>3

LEMMA PumpAt ==
  ASSUME EngineType, NEW r \in Objects, NEW a \in PumpAts, PumpTo(r, a)
  PROVE  /\ pump' \in [Objects -> PumpRec] /\ OnlyPump(r)
         /\ pump'[r].at = a /\ pump'[r].q = pump[r].q /\ pump'[r].ctx = pump[r].ctx
<1> DEFINE e == [pump[r] EXCEPT !.at = a]
<1>1. pump \in [Objects -> PumpRec]
  BY Zenon DEF EngineType
<1>2. pump[r] \in PumpRec /\ e \in PumpRec /\ e.at = a /\ e.q = pump[r].q /\ e.ctx = pump[r].ctx
  BY <1>1 DEF PumpRec
<1>3. pump' = [pump EXCEPT ![r] = e]
  BY <1>1 DEF PumpTo
<1>4. pump' \in [Objects -> PumpRec] /\ OnlyPump(r) /\ pump'[r] = e
  BY Zenon, <1>1, <1>2, <1>3 DEF OnlyPump
<1> QED BY Zenon, <1>2, <1>4

-----------------------------------------------------------------------------
(* What a step that does not concern a part of the invariant keeps of it.  *)

LEMMA Known ==
  ASSUME EngineInv
  PROVE  /\ Len(mode) \in Nat /\ 1..Len(mode) \subseteq Objects
         /\ \A f \in Firings : fire[f].rs \in Nat /\ fire[f].rs <= Len(mode)
         /\ \A f \in Firings : fire[f].rs # 0 => fire[f].rs \in Objects
         /\ current # 0 => current \in Objects
<1>1. /\ mode \in Seq(Modes) /\ Len(mode) <= MaxCompiled /\ current \in 0..Len(mode)
  BY Zenon DEF EngineInv, ConfigInv
<1>2. Len(mode) \in Nat /\ 1..Len(mode) \subseteq Objects
  <2>1. Len(mode) \in Nat
    BY <1>1
  <2> QED BY <1>1, <2>1, AutomationAssumption DEF Objects
<1>3. \A f \in Firings : fire[f].rs \in Nat /\ fire[f].rs <= Len(mode)
  <2>1. \A f \in Firings : fire[f] \in FireRec
    BY Zenon DEF EngineInv, EngineType
  <2>2. \A f \in Firings : fire[f].rs \in Nat
    BY Zenon, <2>1 DEF FireRec
  <2> QED BY Zenon, <2>2 DEF EngineInv, StageInv, Stage
<1>4. \A n \in Nat : \A k \in Nat : k <= n /\ k # 0 => k \in 1..n
  OBVIOUS
<1>5. current # 0 => current \in 1..Len(mode)
  BY <1>1, <1>2
<1> QED BY Zenon, <1>2, <1>3, <1>4, <1>5

\* The step of one firing.
LEMMA StageFrame ==
  ASSUME StageInv, NEW f \in Firings, mode' = mode, Only(f), OnlyRun(f), Stage(f)'
  PROVE  StageInv'
<1> SUFFICES ASSUME NEW g \in Firings, g # f
             PROVE  Stage(g)'
  BY Zenon DEF StageInv
<1>1. fire'[g] = fire[g] /\ run'[g] = run[g]
  BY Zenon DEF Only, OnlyRun
<1> QED BY Zenon, <1>1 DEF StageInv, Stage, Executing

\* No run begins or ends.
LEMMA RunsStill ==
  ASSUME EngineInv, run' = run,
         \A g \in Firings : Executing(g) => fire'[g].rs = fire[g].rs,
         UNCHANGED <<gate, active, newest, cancelled>>,
         \A r \in Objects : pump[r].at = "run" => pump'[r].at = "run"
  PROVE  GateInv' /\ RestartInv' /\ PumpInv'
<1>1. /\ gate' = gate /\ active' = active /\ newest' = newest /\ cancelled' = cancelled
  BY Zenon
<1>2. \A g \in Firings :
        /\ Executing(g)' <=> Executing(g)
        /\ Executing(g) => fire'[g].rs = fire[g].rs /\ fire[g].rs \in Objects
        /\ run'[g] = run[g]
  <2>1. \A g \in Firings : Executing(g) => fire[g].rs # 0
    BY Zenon DEF EngineInv, StageInv, Stage
  <2> QED BY Zenon, <2>1, Known DEF Executing
<1>3. GateInv'
  <2>1. \A f \in Firings : Executing(f)' /\ run'[f].under = "single" => fire'[f].rs \in gate'
    BY Zenon, <1>1, <1>2 DEF EngineInv, GateInv
  <2>2. SingleIsExclusive'
    <3>1. SingleIsExclusive
      BY Zenon DEF EngineInv, GateInv
    <3> QED BY Zenon, <1>2, <3>1 DEF SingleIsExclusive
  <2> QED BY Zenon, <2>1, <2>2 DEF GateInv
<1>4. RestartInv'
  BY Zenon, <1>1, <1>2 DEF EngineInv, RestartInv
<1>5. PumpInv'
  <2>1. \A f \in Firings :
          Executing(f)' /\ run'[f].under \in ByPump => pump'[fire'[f].rs].at = "run"
    BY ZenonT(40), <1>2 DEF EngineInv, PumpInv
  <2>2. \A f, g \in Firings :
          /\ Executing(f)' /\ run'[f].under \in ByPump
          /\ Executing(g)' /\ run'[g].under \in ByPump
          /\ fire'[f].rs = fire'[g].rs
          => f = g
    BY Zenon, <1>2 DEF EngineInv, PumpInv
  <2> QED BY Zenon, <2>1, <2>2 DEF PumpInv
<1> QED BY Zenon, <1>3, <1>4, <1>5

\* The queues are not touched.
LEMMA QueueStill ==
  ASSUME EngineInv, items' = items,
         \A g \in Firings :
           fire[g].at \in {"pump", "end"} /\ run[g].at = "none" =>
             /\ fire'[g].rs = fire[g].rs /\ fire'[g].at \in {"pump", "end"}
             /\ run'[g].at = "none"
  PROVE  QueueInv'
<1>1. WaitInv'
  <2> SUFFICES ASSUME NEW r \in Objects, NEW q \in 1..2, NEW i \in 1..Len(items[r][q])
               PROVE  Waiting(items[r][q][i], r)'
    BY Zenon DEF WaitInv
  <2>1. items[r] \in Seq(Firings) \X Seq(Firings)
    BY Zenon DEF EngineInv, EngineType
  <2>2. items[r][q] \in Seq(Firings)
    BY <2>1
  <2>3. PICK f \in Firings : items[r][q][i] = f
    BY <2>2
  <2>4. Waiting(f, r)
    BY Zenon, <2>3 DEF EngineInv, QueueInv, WaitInv
  <2>5. Waiting(f, r)'
    BY Zenon, <2>4 DEF Waiting
  <2>6. items'[r][q][i] = f
    BY Zenon, <2>3
  <2> QED BY Zenon, <2>5, <2>6 DEF Waiting
<1>2. OnceInv'
  <2>1. OnceInv
    BY Zenon DEF EngineInv, QueueInv
  <2> QED BY SMT, <2>1 DEF OnceInv
<1> QED BY Zenon, <1>1, <1>2 DEF QueueInv

\* Contexts end for good.
Later == callerDone \subseteq callerDone' /\ (stopped => stopped')

LEMMA DoneStays ==
  ASSUME Later, NEW r, pump'[r].ctx = pump[r].ctx, Done(pump[r].ctx)
  PROVE  Done(pump[r].ctx)'
  BY Zenon DEF Later, Done

LEMMA SenderStill ==
  ASSUME Later, NEW g, NEW r, Sender(g, r), fire'[g] = fire[g], run'[g] = run[g],
         queue'[r] = queue[r], pump'[r].ctx = pump[r].ctx
  PROVE  Sender(g, r)'
<1>1. Done(pump[r].ctx) => Done(pump[r].ctx)'
  BY Zenon, DoneStays
<1> QED BY Zenon, <1>1 DEF Sender, Executing

LEMMA ReceiverStill ==
  ASSUME Later, NEW r, Receiver(r), pump'[r] = pump[r], items'[r] = items[r],
         \A f \in Firings : fire[f].at = "pump" => fire'[f].at = "pump" /\ fire'[f].rs = fire[f].rs
  PROVE  Receiver(r)'
<1>1. Done(pump[r].ctx) => Done(pump[r].ctx)'
  BY Zenon, DoneStays
<1> QED BY Zenon, <1>1 DEF Receiver

LEMMA ChannelStill ==
  ASSUME NEW r, Channel(r), pump'[r] = pump[r], items'[r] = items[r], queue'[r] = queue[r],
         closed' = closed
  PROVE  Channel(r)'
  BY Zenon DEF Channel

\* Firings that have no run yet move on; nothing else does.
LEMMA EarlyStep ==
  ASSUME EngineInv, Later, ConfigInv',
         UNCHANGED <<mode, current, gate, active, newest, cancelled, queue, items, closed,
                     pump, run>>,
         fire' \in [Firings -> FireRec], StageInv',
         \A g \in Firings :
           \/ fire'[g] = fire[g]
           \/ /\ fire[g].at \in {"idle", "lookup", "admit", "send"}
              /\ fire'[g].at \notin {"send", "pump"}
  PROVE  EngineInv'
<1>1. /\ mode' = mode /\ current' = current /\ gate' = gate /\ active' = active
      /\ newest' = newest /\ cancelled' = cancelled /\ queue' = queue /\ items' = items
      /\ closed' = closed /\ pump' = pump /\ run' = run
  BY Zenon
<1>2. EngineType'
  BY Zenon, <1>1 DEF EngineInv, EngineType
<1>3. \A g \in Firings : fire'[g] = fire[g] \/ run[g].at = "none"
  BY Zenon DEF EngineInv, StageInv, Stage
<1>4. GateInv' /\ RestartInv' /\ PumpInv'
  <2>1. \A g \in Firings : Executing(g) => fire'[g].rs = fire[g].rs
    <3>1. "none" # "executing"
      OBVIOUS
    <3> QED BY Zenon, <1>3, <3>1 DEF Executing
  <2>2. \A r \in Objects : pump[r].at = "run" => pump'[r].at = "run"
    BY Zenon, <1>1
  <2> QED BY Zenon, <1>1, <2>1, <2>2, RunsStill
<1>5. \A g \in Firings : fire[g].at \in {"pump", "end"} => fire'[g] = fire[g]
  <2>1. {"idle", "lookup", "admit", "send"} \cap {"pump", "end"} = {}
    OBVIOUS
  <2> QED BY Zenon, <2>1
<1>6. QueueInv'
  BY Zenon, <1>1, <1>5, QueueStill
<1>7. Fresh'
  BY Zenon, <1>1 DEF EngineInv, Fresh
<1>8. ServeInv'
  <2> SUFFICES ASSUME NEW r, current = r, r # 0
               PROVE  Serve(r)'
    BY Zenon, <1>1 DEF ServeInv
  <2>1. Serve(r)
    BY Zenon DEF EngineInv, ServeInv
  <2>2. Channel(r)'
    BY Zenon, <1>1, <2>1, ChannelStill DEF Serve
  <2>3. Receiver(r)'
    <3>1. \A f \in Firings : fire[f].at = "pump" => fire'[f].at = "pump" /\ fire'[f].rs = fire[f].rs
      BY Zenon, <1>5
    <3> QED BY Zenon, <1>1, <2>1, <3>1, ReceiverStill DEF Serve
  <2>4. ASSUME NEW g \in Firings
        PROVE  Sender(g, r)'
    <3>1. CASE fire'[g] = fire[g]
      BY Zenon, <1>1, <2>1, <3>1, SenderStill DEF Serve
    <3>2. CASE run[g].at = "none" /\ fire'[g].at \notin {"send", "pump"}
      <4>1. ~Executing(g)'
        BY <1>1, <3>2 DEF Executing
      <4> QED BY Zenon, <3>2, <4>1 DEF Sender
    <3> QED BY Zenon, <1>3, <3>1, <3>2
  <2> QED BY Zenon, <2>2, <2>3, <2>4 DEF Serve
<1> QED BY Zenon, <1>2, <1>4, <1>6, <1>7, <1>8 DEF EngineInv

-----------------------------------------------------------------------------
(* The goroutines that are counted.                                        *)

LEMMA CountStill ==
  ASSUME OfFirings' = OfFirings, OfRuns' = OfRuns, OfPumps' = OfPumps, inFlight' = inFlight
  PROVE  CountStep
  BY Zenon DEF CountStep

LEMMA SameRuns ==
  ASSUME run' = run
  PROVE  OfRuns' = OfRuns
  BY Zenon DEF OfRuns, Executing

LEMMA SamePumps ==
  ASSUME \A r \in Objects : pump[r].at \in {"none", "exit"} <=> pump'[r].at \in {"none", "exit"}
  PROVE  OfPumps' = OfPumps
  BY Zenon DEF OfPumps

\* One firing's goroutine begins, stays or ends.
LEMMA FiringCounted ==
  ASSUME NEW f \in Firings, Only(f)
  PROVE  /\ fire[f].at \notin {"idle", "end"} /\ fire'[f].at \notin {"idle", "end"}
              => OfFirings' = OfFirings
         /\ fire[f].at \notin {"idle", "end"} /\ fire'[f].at \in {"idle", "end"}
              => f \in OfFirings /\ OfFirings' = OfFirings \ {f}
<1>1. ASSUME fire[f].at \notin {"idle", "end"}, fire'[f].at \notin {"idle", "end"}
      PROVE  OfFirings' = OfFirings
  BY Zenon, <1>1 DEF OfFirings, Only
<1>2. ASSUME fire[f].at \notin {"idle", "end"}, fire'[f].at \in {"idle", "end"}
      PROVE  f \in OfFirings /\ OfFirings' = OfFirings \ {f}
  <2>1. OfFirings' = OfFirings \ {f}
    BY Zenon, <1>2 DEF OfFirings, Only
  <2>2. f \in OfFirings
    BY Zenon, <1>2 DEF OfFirings
  <2> QED BY Zenon, <2>1, <2>2
<1> QED BY Zenon, <1>1, <1>2

\* One of the goroutines ends and is uncounted.
LEMMA FiringUncounted ==
  ASSUME inFlight' = inFlight - 1, OfRuns' = OfRuns, OfPumps' = OfPumps,
         NEW f \in OfFirings, OfFirings' = OfFirings \ {f}
  PROVE  CountStep
  BY Zenon DEF CountStep, Ended

-----------------------------------------------------------------------------
\* The caller of Trigger returns, the engine's context ends, an automation is
\* enabled or disabled, a send panics, or nothing happens.
LEMMA AroundKeeps ==
  ASSUME EngineInv, Later, ConfigInv',
         UNCHANGED <<mode, current, gate, active, newest, cancelled, queue, items, closed,
                     pump, run, fire, inFlight>>
  PROVE  EngineInv' /\ CountStep
<1>1. mode' = mode /\ fire' = fire /\ run' = run /\ pump' = pump /\ inFlight' = inFlight
  BY Zenon
<1>2. StageInv'
  BY Zenon, <1>1 DEF EngineInv, StageInv, Stage, Executing
<1>3. OfFirings' = OfFirings /\ OfRuns' = OfRuns /\ OfPumps' = OfPumps
  BY Zenon, <1>1 DEF OfFirings, OfRuns, OfPumps, Executing
<1>4. CountStep
  BY Zenon, <1>1, <1>3, CountStill
<1>5. fire' \in [Firings -> FireRec]
  BY Zenon, <1>1 DEF EngineInv, EngineType
<1>6. UNCHANGED <<mode, current, gate, active, newest, cancelled, queue, items, closed,
                  pump, run>>
  BY Zenon
<1> QED BY Zenon, <1>1, <1>2, <1>4, <1>5, <1>6, EarlyStep

\* Matches get their goroutines.
LEMMA LaunchKeeps ==
  ASSUME EngineInv, Later, ConfigInv',
         UNCHANGED <<mode, current, gate, active, newest, cancelled, queue, items, closed,
                     pump, run>>,
         NEW S \in SUBSET Firings, \A f \in S : fire[f].at = "idle",
         fire' \in [Firings -> FireRec],
         \A f \in S : fire'[f].at = "lookup" /\ fire'[f].rs = fire[f].rs,
         \A f \in Firings \ S : fire'[f] = fire[f]
  PROVE  EngineInv' /\ Launched(S)
<1>1. mode' = mode /\ run' = run /\ pump' = pump
  BY Zenon
<1>2. StageInv'
  <2> SUFFICES ASSUME NEW f \in Firings
               PROVE  Stage(f)'
    BY Zenon DEF StageInv
  <2>1. Stage(f)
    BY Zenon DEF EngineInv, StageInv
  <2>2. CASE f \in S
    <3>1. run'[f].at = "none" /\ fire'[f].at = "lookup" /\ fire'[f].rs <= Len(mode')
      BY Zenon, <1>1, <2>1, <2>2 DEF Stage
    <3> QED BY <3>1 DEF Stage, Executing
  <2>3. CASE f \notin S
    BY Zenon, <1>1, <2>1, <2>3 DEF Stage, Executing
  <2> QED BY Zenon, <2>2, <2>3
<1>3. Launched(S)
  <2>1. OfFirings' = OfFirings \cup S /\ OfFirings \cap S = {}
    <3>1. "lookup" \notin {"idle", "end"}
      OBVIOUS
    <3> QED BY Zenon, <3>1 DEF OfFirings
  <2>2. OfRuns' = OfRuns /\ OfPumps' = OfPumps
    BY Zenon, <1>1, SameRuns, SamePumps
  <2> QED BY Zenon, <2>1, <2>2 DEF Launched
<1>4. \A g \in Firings :
        \/ fire'[g] = fire[g]
        \/ /\ fire[g].at \in {"idle", "lookup", "admit", "send"}
           /\ fire'[g].at \notin {"send", "pump"}
  <2>1. "lookup" \notin {"send", "pump"}
    OBVIOUS
  <2> QED BY Zenon, <2>1
<1>5. UNCHANGED <<mode, current, gate, active, newest, cancelled, queue, items, closed,
                  pump, run>>
  BY Zenon
<1> QED BY Zenon, <1>2, <1>3, <1>4, <1>5, EarlyStep

LEMMA LookupKeeps ==
  ASSUME EngineInv, ConfigInv', NEW f \in Firings, Lookup(f)
  PROVE  EngineInv' /\ CountStep
<1>1. UNCHANGED <<mode, current, gate, active, newest, cancelled, queue, items, closed,
                  pump, run>>
  BY Zenon DEF Lookup, configVars, modeVars, queueVars, runVars
<1>2. /\ mode' = mode /\ run' = run /\ pump' = pump
      /\ callerDone' = callerDone /\ stopped' = stopped
  BY Zenon DEF Lookup, configVars, queueVars, runVars
<1>3. Later
  BY Zenon, <1>2 DEF Later
<1>4. fire[f].at = "lookup" /\ Stage(f) /\ EngineType /\ ConfigInv
  BY Zenon DEF Lookup, EngineInv, StageInv
<1>5. /\ run[f].at = "none" /\ fire[f].rs <= Len(mode)
      /\ fire[f].at \in {"idle", "lookup", "admit", "send"} /\ fire[f].at \notin {"idle", "end"}
  <2>1. /\ "lookup" \in {"idle", "lookup", "admit", "send"}
        /\ "lookup" \notin {"idle", "end"}
    OBVIOUS
  <2> QED BY Zenon, <1>4, <2>1 DEF Stage
<1>6. OfRuns' = OfRuns /\ OfPumps' = OfPumps /\ OnlyRun(f)
  BY Zenon, <1>2, SameRuns, SamePumps DEF OnlyRun
<1>7. CASE current # 0 /\ enabled
  <2> DEFINE e == [at |-> "admit", rs |-> current, mode |-> mode[auto[current]], q |-> 0]
  <2>1. fire' = [fire EXCEPT ![f] = e] /\ inFlight' = inFlight
    BY Zenon, <1>7 DEF Lookup
  <2>2. /\ current \in Nat /\ current <= Len(mode) /\ mode[auto[current]] \in Modes
    <3>1. /\ current \in 0..Len(mode) /\ auto \in [Objects -> Objects]
          /\ auto[current] <= Len(mode) /\ mode \in Seq(Modes) /\ current \in Objects
      BY Zenon, <1>4, <1>7, Known DEF ConfigInv
    <3>2. Len(mode) \in Nat /\ auto[current] \in Objects
      BY Zenon, <3>1, Known
    <3>3. auto[current] \in 1..Len(mode)
      BY <3>1, <3>2, AutomationAssumption DEF Objects
    <3> QED BY <3>1, <3>2, <3>3
  <2>3. e \in FireRec /\ e.at = "admit" /\ e.rs = current
    BY <2>2 DEF FireRec, FireAts
  <2>4. /\ fire' \in [Firings -> FireRec] /\ Only(f)
        /\ fire'[f].at = "admit" /\ fire'[f].rs = current
    BY Zenon, <1>4, <2>1, <2>3 DEF EngineType, Only
  <2>5. "admit" \notin {"idle", "end"} /\ "admit" \notin {"send", "pump"}
    OBVIOUS
  <2>6. StageInv'
    <3>1. run'[f].at = "none" /\ fire'[f].rs <= Len(mode') /\ fire'[f].rs # 0
      BY Zenon, <1>2, <1>5, <1>7, <2>2, <2>4
    <3>2. Stage(f)'
      BY <2>4, <3>1 DEF Stage, Executing
    <3> QED BY Zenon, <1>2, <1>6, <2>4, <3>2, StageFrame DEF EngineInv
  <2>7. OfFirings' = OfFirings
    BY Zenon, <1>5, <2>4, <2>5, FiringCounted
  <2>8. CountStep
    BY Zenon, <1>6, <2>1, <2>7, CountStill
  <2>9. \A g \in Firings :
          \/ fire'[g] = fire[g]
          \/ /\ fire[g].at \in {"idle", "lookup", "admit", "send"}
             /\ fire'[g].at \notin {"send", "pump"}
    BY Zenon, <1>5, <2>4, <2>5 DEF Only
  <2> QED BY Zenon, <1>1, <1>3, <2>4, <2>6, <2>8, <2>9, EarlyStep
<1>8. CASE ~(current # 0 /\ enabled)
  <2>1. Ends(f) /\ inFlight' = inFlight - 1
    BY Zenon, <1>8 DEF Lookup
  <2>2. /\ fire' \in [Firings -> FireRec] /\ Only(f)
        /\ fire'[f].at = "end" /\ fire'[f].rs = fire[f].rs
    BY Zenon, <1>4, <2>1, FireEnds
  <2>3. "end" \in {"idle", "end"} /\ "end" \notin {"send", "pump"}
    OBVIOUS
  <2>4. StageInv'
    <3>1. run'[f].at = "none" /\ fire'[f].rs <= Len(mode')
      BY Zenon, <1>2, <1>5, <2>2
    <3>2. Stage(f)'
      BY <2>2, <3>1 DEF Stage, Executing
    <3> QED BY Zenon, <1>2, <1>6, <2>2, <3>2, StageFrame DEF EngineInv
  <2>5. f \in OfFirings /\ OfFirings' = OfFirings \ {f}
    BY Zenon, <1>5, <2>2, <2>3, FiringCounted
  <2>6. CountStep
    BY Zenon, <1>6, <2>1, <2>5, FiringUncounted
  <2>7. \A g \in Firings :
          \/ fire'[g] = fire[g]
          \/ /\ fire[g].at \in {"idle", "lookup", "admit", "send"}
             /\ fire'[g].at \notin {"send", "pump"}
    BY Zenon, <1>5, <2>2, <2>3 DEF Only
  <2> QED BY Zenon, <1>1, <1>3, <2>2, <2>4, <2>6, <2>7, EarlyStep
<1> QED BY Zenon, <1>7, <1>8

-----------------------------------------------------------------------------
(* The runs a firing's own goroutine begins.                               *)

LEMMA GateBegins ==
  ASSUME EngineInv, NEW f \in Firings, run[f].at = "none",
         Only(f), fire'[f].rs = fire[f].rs, OnlyRun(f),
         gate \subseteq gate',
         run'[f].under = "single" => fire[f].rs \notin gate /\ fire[f].rs \in gate'
  PROVE  GateInv'
<1>1. \A g \in Firings : fire'[g].rs = fire[g].rs
  BY Zenon DEF Only
<1>2. \A g \in Firings : g # f => run'[g] = run[g] /\ (Executing(g)' <=> Executing(g))
  BY Zenon DEF OnlyRun, Executing
<1>3. /\ \A g \in Firings : Executing(g) /\ run[g].under = "single" => fire[g].rs \in gate
      /\ SingleIsExclusive
  BY Zenon DEF EngineInv, GateInv
<1>4. \A g \in Firings : Executing(g)' /\ run'[g].under = "single" => fire'[g].rs \in gate'
  BY Zenon, <1>1, <1>2, <1>3
<1>5. \A g \in Firings :
        g # f /\ Executing(g)' /\ run'[g].under = "single" /\ run'[f].under = "single"
          => fire'[g].rs # fire'[f].rs
  BY Zenon, <1>1, <1>2, <1>3
<1>6. \A g, h \in Firings :
        /\ g # f /\ h # f /\ g # h /\ fire'[g].rs = fire'[h].rs
        /\ run'[g].under = "single" /\ run'[h].under = "single"
        => ~(Executing(g)' /\ Executing(h)')
  BY ZenonT(40), <1>1, <1>2, <1>3 DEF SingleIsExclusive
<1>7. SingleIsExclusive'
  BY Zenon, <1>5, <1>6 DEF SingleIsExclusive
<1> QED BY Zenon, <1>4, <1>7 DEF GateInv

LEMMA RestartBegins ==
  ASSUME EngineInv, NEW f \in Firings, run[f].at = "none", fire[f].rs \in Objects,
         Only(f), fire'[f].rs = fire[f].rs, OnlyRun(f),
         \/ run'[f].under # "restart" /\ UNCHANGED <<active, newest, cancelled>>
         \/ /\ cancelled \subseteq cancelled'
            /\ active[fire[f].rs] # None => active[fire[f].rs] \in cancelled'
            /\ active' = [active EXCEPT ![fire[f].rs] = f]
            /\ newest' = [newest EXCEPT ![fire[f].rs] = f]
  PROVE  /\ RestartInv'
         /\ active' \in [Objects -> Firings \cup {None}]
         /\ newest' \in [Objects -> Firings \cup {None}]
<1>1. \A g \in Firings : fire'[g].rs = fire[g].rs
  BY Zenon DEF Only
<1>2. \A g \in Firings : g # f => run'[g] = run[g] /\ (Executing(g)' <=> Executing(g))
  BY Zenon DEF OnlyRun, Executing
<1>3. /\ \A g \in Firings :
           Executing(g) /\ run[g].under = "restart" => g \in cancelled \/ active[fire[g].rs] = g
      /\ \A o \in Objects : active[o] # None => active[o] = newest[o]
  BY Zenon DEF EngineInv, RestartInv
<1>4. /\ active \in [Objects -> Firings \cup {None}]
      /\ newest \in [Objects -> Firings \cup {None}]
  BY Zenon DEF EngineInv, EngineType
<1>5. CASE run'[f].under # "restart" /\ UNCHANGED <<active, newest, cancelled>>
  <2>1. active' = active /\ newest' = newest /\ cancelled' = cancelled
    BY Zenon, <1>5
  <2> QED BY Zenon, <1>1, <1>2, <1>3, <1>4, <1>5, <2>1 DEF RestartInv
<1>6. CASE /\ cancelled \subseteq cancelled'
           /\ active[fire[f].rs] # None => active[fire[f].rs] \in cancelled'
           /\ active' = [active EXCEPT ![fire[f].rs] = f]
           /\ newest' = [newest EXCEPT ![fire[f].rs] = f]
  <2>1. /\ active' \in [Objects -> Firings \cup {None}] /\ active'[fire[f].rs] = f
        /\ \A o \in Objects : o # fire[f].rs => active'[o] = active[o]
    BY Zenon, <1>4, <1>6
  <2>2. /\ newest' \in [Objects -> Firings \cup {None}] /\ newest'[fire[f].rs] = f
        /\ \A o \in Objects : o # fire[f].rs => newest'[o] = newest[o]
    BY Zenon, <1>4, <1>6
  <2>3. \A o \in Objects : active'[o] # None => active'[o] = newest'[o]
    BY Zenon, <1>3, <2>1, <2>2
  <2>4. ASSUME NEW g \in Firings, Executing(g)', run'[g].under = "restart"
        PROVE  g \in cancelled' \/ active'[fire'[g].rs] = g
    <3>1. CASE g = f
      BY Zenon, <1>1, <2>1, <3>1
    <3>2. CASE g # f
      <4>1. Executing(g) /\ run[g].under = "restart" /\ fire'[g].rs = fire[g].rs
        BY Zenon, <1>1, <1>2, <2>4, <3>2
      <4>2. fire[g].rs \in Objects /\ g # None
        BY Zenon, <4>1, Known, AutomationAssumption DEF EngineInv, StageInv, Stage
      <4> QED BY ZenonT(40), <1>3, <1>6, <2>1, <4>1, <4>2
    <3> QED BY Zenon, <3>1, <3>2
  <2> QED BY Zenon, <2>1, <2>2, <2>3, <2>4 DEF RestartInv
<1> QED BY Zenon, <1>5, <1>6

LEMMA OwnCounted ==
  ASSUME NEW f \in Firings, run[f].at = "none",
         fire[f].at \notin {"idle", "end"}, Only(f), OnlyRun(f), run'[f].at = "executing",
         \/ run'[f].under \in ByGoroutine /\ fire'[f].at \notin {"idle", "end"}
         \/ run'[f].under \in {"restart", "parallel"} /\ fire'[f].at \in {"idle", "end"},
         pump' = pump, inFlight' = inFlight
  PROVE  CountStep
<1>1. OfPumps' = OfPumps
  BY Zenon, SamePumps
<1>2. \A g \in Firings : g # f => (g \in OfRuns' <=> g \in OfRuns)
  BY Zenon DEF OfRuns, OnlyRun, Executing
<1>3. f \notin OfRuns
  <2>1. ~Executing(f)
    BY DEF Executing
  <2> QED BY Zenon, <2>1 DEF OfRuns
<1>4. CASE run'[f].under \in ByGoroutine /\ fire'[f].at \notin {"idle", "end"}
  <2>1. OfFirings' = OfFirings
    BY Zenon, <1>4, FiringCounted
  <2>2. f \notin OfRuns'
    <3>1. run'[f].under \notin {"restart", "parallel"}
      BY <1>4 DEF ByGoroutine
    <3> QED BY Zenon, <3>1 DEF OfRuns
  <2>3. OfRuns' = OfRuns
    <3>1. OfRuns' = {g \in Firings : g \in OfRuns'}
      BY Zenon DEF OfRuns
    <3> QED BY Zenon, <1>2, <1>3, <2>2, <3>1 DEF OfRuns
  <2> QED BY Zenon, <1>1, <2>1, <2>3, CountStill
<1>5. CASE run'[f].under \in {"restart", "parallel"} /\ fire'[f].at \in {"idle", "end"}
  <2>1. f \in OfFirings /\ OfFirings' = OfFirings \ {f}
    BY Zenon, <1>5, FiringCounted
  <2>2. f \in OfRuns'
    BY Zenon, <1>5 DEF OfRuns, Executing
  <2>3. OfRuns' = OfRuns \cup {f}
    <3>1. OfRuns' \subseteq Firings /\ OfRuns \subseteq Firings
      BY Zenon DEF OfRuns
    <3> QED BY Zenon, <1>2, <2>2, <3>1
  <2> QED BY Zenon, <1>1, <1>3, <2>1, <2>3 DEF CountStep, HandedOver
<1> QED BY Zenon, <1>4, <1>5

LEMMA OwnBegins ==
  ASSUME EngineInv, Later, ConfigInv', NEW f \in Firings,
         fire[f].at \in {"admit", "send"}, fire' \in [Firings -> FireRec], Only(f),
         fire'[f].rs = fire[f].rs,
         run' \in [Firings -> RunRec], OnlyRun(f), run'[f].at = "executing",
         \/ run'[f].under \in ByGoroutine /\ fire'[f].at = "run"
         \/ run'[f].under \in {"restart", "parallel"} /\ fire'[f].at = "end",
         UNCHANGED <<mode, current, queue, items, closed, pump, inFlight>>,
         active' \in [Objects -> Firings \cup {None}],
         newest' \in [Objects -> Firings \cup {None}],
         GateInv', RestartInv'
  PROVE  EngineInv' /\ CountStep
<1>1. /\ mode' = mode /\ current' = current /\ queue' = queue /\ items' = items
      /\ closed' = closed /\ pump' = pump /\ inFlight' = inFlight
  BY Zenon
<1>2. EngineType'
  BY Zenon, <1>1 DEF EngineInv, EngineType
<1>3. /\ fire[f].at \in {"admit", "send", "pump", "run"}
      /\ fire[f].at \in {"idle", "lookup", "admit", "send"}
      /\ fire[f].at \notin {"idle", "end"} /\ fire[f].at \notin {"pump", "end"}
  OBVIOUS
<1>4. run[f].at = "none" /\ fire[f].rs # 0 /\ fire[f].rs <= Len(mode)
  BY Zenon, <1>3 DEF EngineInv, StageInv, Stage
<1>5. /\ run'[f].under \notin ByPump /\ run'[f].under # "drain" /\ run'[f].under # "none"
      /\ fire'[f].at \notin {"send", "pump"} /\ fire'[f].at # "send"
      /\ fire'[f].at \notin {"idle", "lookup", "admit", "send"}
      /\ fire'[f].at = "run" <=> run'[f].under \in ByGoroutine
  BY DEF ByPump, ByGoroutine
<1>6. StageInv'
  <2>1. Stage(f)'
    BY Zenon, <1>1, <1>4, <1>5 DEF Stage, Executing
  <2> QED BY Zenon, <1>1, <2>1, StageFrame DEF EngineInv
<1>7. QueueInv'
  <2>1. \A g \in Firings :
          fire[g].at \in {"pump", "end"} /\ run[g].at = "none" =>
            /\ fire'[g].rs = fire[g].rs /\ fire'[g].at \in {"pump", "end"}
            /\ run'[g].at = "none"
    BY Zenon, <1>3 DEF Only, OnlyRun
  <2> QED BY Zenon, <1>1, <2>1, QueueStill
<1>8. PumpInv'
  <2>1. \A g \in Firings :
          Executing(g)' /\ run'[g].under \in ByPump =>
            Executing(g) /\ run[g].under \in ByPump /\ fire'[g].rs = fire[g].rs
    BY Zenon, <1>5 DEF Only, OnlyRun, Executing
  <2>2. PumpInv
    BY Zenon DEF EngineInv
  <2>3. \A g \in Firings :
          Executing(g)' /\ run'[g].under \in ByPump => pump'[fire'[g].rs].at = "run"
    BY Zenon, <1>1, <2>1, <2>2 DEF PumpInv
  <2>4. \A g, h \in Firings :
          /\ Executing(g)' /\ run'[g].under \in ByPump
          /\ Executing(h)' /\ run'[h].under \in ByPump
          /\ fire'[g].rs = fire'[h].rs
          => g = h
    BY Zenon, <2>1, <2>2 DEF PumpInv
  <2> QED BY Zenon, <2>3, <2>4 DEF PumpInv
<1>9. CountStep
  <2>1. "run" \notin {"idle", "end"} /\ "end" \in {"idle", "end"}
    OBVIOUS
  <2> QED BY Zenon, <1>1, <1>3, <1>4, <2>1, OwnCounted
<1>10. Fresh'
  BY Zenon, <1>1 DEF EngineInv, Fresh
<1>11. ServeInv'
  <2> SUFFICES ASSUME NEW r, current = r, r # 0
               PROVE  Serve(r)'
    BY Zenon, <1>1 DEF ServeInv
  <2>1. Serve(r)
    BY Zenon DEF EngineInv, ServeInv
  <2>2. Channel(r)'
    BY Zenon, <1>1, <2>1, ChannelStill DEF Serve
  <2>3. Receiver(r)'
    <3>1. \A g \in Firings : fire[g].at = "pump" => g # f
      BY <1>3
    <3>2. \A g \in Firings : fire[g].at = "pump" => fire'[g].at = "pump" /\ fire'[g].rs = fire[g].rs
      BY Zenon, <3>1 DEF Only
    <3> QED BY Zenon, <1>1, <2>1, <3>2, ReceiverStill DEF Serve
  <2>4. ASSUME NEW g \in Firings
        PROVE  Sender(g, r)'
    <3>1. CASE g = f
      BY Zenon, <1>5, <3>1 DEF Sender
    <3>2. CASE g # f
      BY Zenon, <1>1, <2>1, <3>2, SenderStill DEF Serve, Only, OnlyRun
    <3> QED BY Zenon, <3>1, <3>2
  <2> QED BY Zenon, <2>2, <2>3, <2>4 DEF Serve
<1> QED BY Zenon, <1>2, <1>6, <1>7, <1>8, <1>9, <1>10, <1>11 DEF EngineInv

LEMMA FireSingleKeeps ==
  ASSUME EngineInv, ConfigInv', NEW f \in Firings, FireSingle(f)
  PROVE  EngineInv' /\ CountStep
<1>1. /\ UNCHANGED <<mode, current, queue, items, closed, pump, inFlight>>
      /\ UNCHANGED <<active, newest, cancelled>>
      /\ active' = active /\ newest' = newest
      /\ callerDone' = callerDone /\ stopped' = stopped
  BY Zenon DEF FireSingle, configVars, queueVars, engineVars
<1>2. /\ fire[f].at = "admit" /\ fire' = [fire EXCEPT ![f].at = "run"]
      /\ gate' = gate \cup {fire[f].rs}
  BY Zenon DEF FireSingle, Admits
<1>3. PICK u \in ByGoroutine : Begins(f, u) /\ (u = "single" => fire[f].rs \notin gate)
  <2>1. Begins(f, IF fire[f].rs \in gate THEN "skip" ELSE "single")
    BY Zenon DEF FireSingle
  <2>2. "skip" \in ByGoroutine /\ "single" \in ByGoroutine /\ "skip" # "single"
    BY DEF ByGoroutine
  <2> QED BY Zenon, <2>1, <2>2
<1>4. u \in Unders /\ u # "restart" /\ "run" \in FireAts
  BY DEF ByGoroutine, Unders, FireAts
<1>5. EngineType /\ Stage(f) /\ Later
  BY Zenon, <1>1 DEF EngineInv, StageInv, Later
<1>6. /\ fire' \in [Firings -> FireRec] /\ Only(f)
      /\ fire'[f].at = "run" /\ fire'[f].rs = fire[f].rs
  BY Zenon, <1>2, <1>4, <1>5, FireAt
<1>7. /\ run' \in [Firings -> RunRec] /\ OnlyRun(f)
      /\ run'[f].at = "executing" /\ run'[f].under = u
  BY Zenon, <1>3, <1>4, <1>5, RunBegins
<1>8. run[f].at = "none" /\ fire[f].rs # 0 /\ fire[f].at \in {"admit", "send"}
  BY <1>2, <1>5 DEF Stage
<1>9. fire[f].rs \in Objects
  BY Zenon, <1>8, Known
<1>10. GateInv'
  BY Zenon, <1>2, <1>3, <1>6, <1>7, <1>8, GateBegins
<1>11. /\ RestartInv' /\ active' \in [Objects -> Firings \cup {None}]
       /\ newest' \in [Objects -> Firings \cup {None}]
  BY Zenon, <1>1, <1>4, <1>6, <1>7, <1>8, <1>9, RestartBegins
<1> QED BY Zenon, <1>1, <1>3, <1>5, <1>6, <1>7, <1>8, <1>10, <1>11, OwnBegins

LEMMA FireRestartKeeps ==
  ASSUME EngineInv, ConfigInv', NEW f \in Firings, FireRestart(f)
  PROVE  EngineInv' /\ CountStep
<1>1. /\ UNCHANGED <<mode, current, queue, items, closed, pump, inFlight>>
      /\ gate' = gate /\ callerDone' = callerDone /\ stopped' = stopped
  BY Zenon DEF FireRestart, configVars, queueVars, engineVars
<1>2. /\ fire[f].at = "admit" /\ Ends(f) /\ Begins(f, "restart")
      /\ active' = [active EXCEPT ![fire[f].rs] = f]
      /\ newest' = [newest EXCEPT ![fire[f].rs] = f]
  BY Zenon DEF FireRestart, Admits
<1>3. /\ cancelled \subseteq cancelled'
      /\ active[fire[f].rs] # None => active[fire[f].rs] \in cancelled'
  BY Zenon DEF FireRestart
<1>4. "restart" \in Unders /\ "restart" # "single" /\ "restart" \in {"restart", "parallel"}
  BY DEF Unders
<1>5. EngineType /\ Stage(f) /\ Later
  BY Zenon, <1>1 DEF EngineInv, StageInv, Later
<1>6. /\ fire' \in [Firings -> FireRec] /\ Only(f)
      /\ fire'[f].at = "end" /\ fire'[f].rs = fire[f].rs
  BY Zenon, <1>2, <1>5, FireEnds
<1>7. /\ run' \in [Firings -> RunRec] /\ OnlyRun(f)
      /\ run'[f].at = "executing" /\ run'[f].under = "restart"
  BY Zenon, <1>2, <1>4, <1>5, RunBegins
<1>8. run[f].at = "none" /\ fire[f].rs # 0 /\ fire[f].at \in {"admit", "send"}
  BY <1>2, <1>5 DEF Stage
<1>9. fire[f].rs \in Objects
  BY Zenon, <1>8, Known
<1>10. GateInv'
  BY Zenon, <1>1, <1>4, <1>6, <1>7, <1>8, GateBegins
<1>11. /\ RestartInv' /\ active' \in [Objects -> Firings \cup {None}]
       /\ newest' \in [Objects -> Firings \cup {None}]
  BY Zenon, <1>2, <1>3, <1>6, <1>7, <1>8, <1>9, RestartBegins
<1> QED BY Zenon, <1>1, <1>4, <1>5, <1>6, <1>7, <1>8, <1>10, <1>11, OwnBegins

LEMMA FireParallelKeeps ==
  ASSUME EngineInv, ConfigInv', NEW f \in Firings, FireParallel(f)
  PROVE  EngineInv' /\ CountStep
<1>1. /\ UNCHANGED <<mode, current, queue, items, closed, pump, inFlight>>
      /\ UNCHANGED <<active, newest, cancelled>>
      /\ gate' = gate /\ callerDone' = callerDone /\ stopped' = stopped
  BY Zenon DEF FireParallel, configVars, modeVars, queueVars, engineVars
<1>2. fire[f].at = "admit" /\ Ends(f) /\ Begins(f, "parallel")
  BY Zenon DEF FireParallel, Admits
<1>3. /\ "parallel" \in Unders /\ "parallel" # "single" /\ "parallel" # "restart"
      /\ "parallel" \in {"restart", "parallel"}
  BY DEF Unders
<1>4. EngineType /\ Stage(f) /\ Later
  BY Zenon, <1>1 DEF EngineInv, StageInv, Later
<1>5. /\ fire' \in [Firings -> FireRec] /\ Only(f)
      /\ fire'[f].at = "end" /\ fire'[f].rs = fire[f].rs
  BY Zenon, <1>2, <1>4, FireEnds
<1>6. /\ run' \in [Firings -> RunRec] /\ OnlyRun(f)
      /\ run'[f].at = "executing" /\ run'[f].under = "parallel"
  BY Zenon, <1>2, <1>3, <1>4, RunBegins
<1>7. run[f].at = "none" /\ fire[f].rs # 0 /\ fire[f].at \in {"admit", "send"}
  BY <1>2, <1>4 DEF Stage
<1>8. fire[f].rs \in Objects
  BY Zenon, <1>7, Known
<1>9. GateInv'
  BY Zenon, <1>1, <1>3, <1>5, <1>6, <1>7, GateBegins
<1>10. /\ RestartInv' /\ active' \in [Objects -> Firings \cup {None}]
       /\ newest' \in [Objects -> Firings \cup {None}]
  BY Zenon, <1>1, <1>3, <1>5, <1>6, <1>7, <1>8, RestartBegins
<1> QED BY Zenon, <1>1, <1>3, <1>4, <1>5, <1>6, <1>7, <1>9, <1>10, OwnBegins

-----------------------------------------------------------------------------
(* The way through the queue.                                              *)

LEMMA EnsureQueueKeeps ==
  ASSUME EngineInv, ConfigInv', NEW f \in Firings, EnsureQueue(f)
  PROVE  EngineInv' /\ CountStep
<1> DEFINE r == fire[f].rs
<1>1. /\ mode' = mode /\ current' = current /\ UNCHANGED <<gate, active, newest, cancelled>>
      /\ active' = active /\ newest' = newest
      /\ items' = items /\ closed' = closed /\ pump' = pump /\ run' = run
      /\ inFlight' = inFlight /\ callerDone' = callerDone /\ stopped' = stopped
  BY Zenon DEF EnsureQueue, configVars, modeVars, runVars, engineVars
<1>2. EngineType /\ Stage(f) /\ Later
  BY Zenon, <1>1 DEF EngineInv, StageInv, Later
<1>3. fire[f].at = "admit"
  BY Zenon DEF EnsureQueue, Admits
<1>4. /\ run[f].at = "none" /\ r # 0 /\ r <= Len(mode)
      /\ fire[f].at \notin {"idle", "end"} /\ fire[f].at \notin {"pump", "end"}
  BY <1>2, <1>3 DEF Stage
<1>5. r \in Objects /\ r \in Nat /\ Len(mode) \in Nat
  BY Zenon, <1>4, Known
<1>6. PICK q : /\ q = IF queue[r] # 0 THEN queue[r] ELSE IF r \in closed THEN 2 ELSE 1
               /\ queue' = [queue EXCEPT ![r] = q]
               /\ fire' = [fire EXCEPT ![f].at = "send", ![f].q = q]
  BY Zenon DEF EnsureQueue
<1>7. q \in 0..2 /\ q # 0 /\ (r \notin closed /\ queue[r] \in 0..1 => q = 1)
  <2>1. queue[r] \in 0..2
    BY Zenon, <1>2, <1>5 DEF EngineType
  <2> QED BY <1>6, <2>1
<1>8. /\ queue' \in [Objects -> 0..2] /\ queue'[r] = q
      /\ \A o \in Objects : o # r => queue'[o] = queue[o]
  BY Zenon, <1>2, <1>5, <1>6, <1>7 DEF EngineType
<1>9. /\ fire' \in [Firings -> FireRec] /\ Only(f)
      /\ fire'[f].at = "send" /\ fire'[f].rs = r /\ fire'[f].q = q
  <2> DEFINE e == [[fire[f] EXCEPT !.at = "send"] EXCEPT !.q = q]
  <2>1. fire \in [Firings -> FireRec] /\ fire[f] \in FireRec
    BY Zenon, <1>2 DEF EngineType
  <2>2. fire' = [fire EXCEPT ![f] = e]
    BY Zenon, <1>6, <2>1
  <2>3. "send" \in FireAts
    BY DEF FireAts
  <2>4. e \in FireRec /\ e.at = "send" /\ e.rs = r /\ e.q = q
    BY Zenon, <1>7, <2>1, <2>3 DEF FireRec
  <2> QED BY Zenon, <2>1, <2>2, <2>4 DEF Only
<1>10. EngineType'
  BY Zenon, <1>1, <1>2, <1>8, <1>9 DEF EngineType
<1>11. StageInv'
  <2>1. Stage(f)'
    <3>1. run'[f].at = "none" /\ fire'[f].rs <= Len(mode') /\ fire'[f].rs # 0 /\ fire'[f].q # 0
      BY Zenon, <1>1, <1>4, <1>7, <1>9
    <3> QED BY <1>9, <3>1 DEF Stage, Executing
  <2> QED BY Zenon, <1>1, <1>9, <2>1, StageFrame DEF EngineInv, OnlyRun
<1>12. \A g \in Firings : fire'[g].rs = fire[g].rs
  BY Zenon, <1>9 DEF Only
<1>13. GateInv' /\ RestartInv' /\ PumpInv'
  BY Zenon, <1>1, <1>12, RunsStill
<1>14. QueueInv'
  <2>1. \A g \in Firings : fire[g].at \in {"pump", "end"} => fire'[g] = fire[g]
    BY Zenon, <1>4, <1>9 DEF Only
  <2> QED BY Zenon, <1>1, <2>1, QueueStill
<1>15. CountStep
  <2>1. "send" \notin {"idle", "end"}
    OBVIOUS
  <2>2. OfFirings' = OfFirings
    BY Zenon, <1>4, <1>9, <2>1, FiringCounted
  <2> QED BY Zenon, <1>1, <2>2, SameRuns, SamePumps, CountStill
<1>16. Fresh'
  <2>1. \A o \in Objects : Len(mode) < o => o # r
    BY <1>4, <1>5 DEF Objects
  <2> QED BY Zenon, <1>1, <1>8, <2>1 DEF EngineInv, Fresh
<1>17. ServeInv'
  <2> SUFFICES ASSUME NEW c, current = c, c # 0
               PROVE  Serve(c)'
    BY Zenon, <1>1 DEF ServeInv
  <2>1. Channel(c) /\ Receiver(c) /\ (\A g \in Firings : Sender(g, c)) /\ c \in Objects
    BY Zenon, Known DEF EngineInv, ServeInv, Serve
  <2>2. \A g \in Firings : fire[g].at = "pump" => fire'[g].at = "pump" /\ fire'[g].rs = fire[g].rs
    <3>1. \A g \in Firings : fire[g].at = "pump" => g # f
      BY <1>3
    <3> QED BY Zenon, <1>9, <3>1 DEF Only
  <2>3. Receiver(c)'
    BY Zenon, <1>1, <1>2, <2>1, <2>2, ReceiverStill
  <2>4. CASE c = r
    <3>1. queue'[c] = 1 /\ 1 # 0 /\ 1 \in 0..1
      <4>1. c \notin closed /\ queue[c] \in 0..1
        BY Zenon, <2>1 DEF Channel
      <4>2. 1 # 0 /\ 1 \in 0..1
        OBVIOUS
      <4> QED BY Zenon, <1>7, <1>8, <2>4, <4>1, <4>2
    <3>2. Channel(c)'
      BY Zenon, <1>1, <2>1, <3>1 DEF Channel
    <3>3. ASSUME NEW g \in Firings
          PROVE  Sender(g, c)'
      <4>1. CASE g = f
        <5>1. fire'[f].q = 1 /\ ~Executing(f)'
          <6>1. fire'[f].q = 1
            BY Zenon, <1>8, <1>9, <2>4, <3>1
          <6>2. ~Executing(f)'
            BY <1>1, <1>4 DEF Executing
          <6> QED BY Zenon, <6>1, <6>2
        <5> QED BY Zenon, <3>1, <4>1, <5>1 DEF Sender
      <4>2. CASE g # f
        <5>1. fire'[g] = fire[g] /\ run'[g] = run[g]
          BY Zenon, <1>1, <1>9, <4>2 DEF Only
        <5>2. Done(pump[c].ctx) => Done(pump[c].ctx)'
          BY Zenon, <1>1, <1>2, DoneStays
        <5> QED BY Zenon, <2>1, <3>1, <5>1, <5>2 DEF Sender, Executing
      <4> QED BY Zenon, <4>1, <4>2
    <3> QED BY Zenon, <2>3, <3>2, <3>3 DEF Serve
  <2>5. CASE c # r
    <3>1. queue'[c] = queue[c]
      BY Zenon, <1>8, <2>1, <2>5
    <3>2. Channel(c)'
      BY Zenon, <1>1, <2>1, <3>1, ChannelStill
    <3>3. ASSUME NEW g \in Firings
          PROVE  Sender(g, c)'
      <4>1. CASE g = f
        BY Zenon, <1>9, <2>5, <4>1 DEF Sender
      <4>2. CASE g # f
        BY Zenon, <1>1, <1>2, <1>9, <2>1, <3>1, <4>2, SenderStill DEF Only
      <4> QED BY Zenon, <4>1, <4>2
    <3> QED BY Zenon, <2>3, <3>2, <3>3 DEF Serve
  <2> QED BY Zenon, <2>4, <2>5
<1> QED BY Zenon, <1>10, <1>11, <1>13, <1>14, <1>15, <1>16, <1>17 DEF EngineInv

\* What a channel holds after a send.
Sends(f, r, q) == items' = [items EXCEPT ![r][q] = Append(@, f)]

LEMMA Appended ==
  ASSUME EngineType, NEW f \in Firings, NEW r \in Objects, NEW q \in 1..2, Sends(f, r, q)
  PROVE  /\ items' \in [Objects -> Seq(Firings) \X Seq(Firings)]
         /\ \A o \in Objects : o # r => items'[o] = items[o]
         /\ \A p \in 1..2 : p # q => items'[r][p] = items[r][p]
         /\ items'[r][q] = Append(items[r][q], f) /\ items[r][q] \in Seq(Firings)
<1>1. items \in [Objects -> Seq(Firings) \X Seq(Firings)]
  BY Zenon DEF EngineType
<1>2. items[r] \in Seq(Firings) \X Seq(Firings) /\ items[r][q] \in Seq(Firings)
  BY <1>1
<1>3. Append(items[r][q], f) \in Seq(Firings)
  BY <1>2
<1> DEFINE e == [items[r] EXCEPT ![q] = Append(items[r][q], f)]
<1>4. /\ e \in Seq(Firings) \X Seq(Firings) /\ e[q] = Append(items[r][q], f)
      /\ \A p \in 1..2 : p # q => e[p] = items[r][p]
  <2>1. ASSUME NEW w \in Seq(Firings)
        PROVE  /\ [items[r] EXCEPT ![q] = w] \in Seq(Firings) \X Seq(Firings)
               /\ [items[r] EXCEPT ![q] = w][q] = w
               /\ \A p \in 1..2 : p # q => [items[r] EXCEPT ![q] = w][p] = items[r][p]
    <3> DEFINE S == Seq(Firings)
               pair == items[r]
    <3>1. pair \in S \X S /\ w \in S
      BY Zenon, <1>2
    <3> HIDE DEF S, pair
    <3>2. /\ [pair EXCEPT ![q] = w] \in S \X S /\ [pair EXCEPT ![q] = w][q] = w
          /\ \A p \in 1..2 : p # q => [pair EXCEPT ![q] = w][p] = pair[p]
      BY <3>1
    <3> QED
      BY Zenon, <3>2 DEF S, pair
  <2> QED BY Zenon, <1>3, <2>1
<1>5. items' = [items EXCEPT ![r] = e]
  BY Zenon, <1>1 DEF Sends
<1> HIDE DEF e
<1>6. /\ items' \in [Objects -> Seq(Firings) \X Seq(Firings)] /\ items'[r] = e
      /\ \A o \in Objects : o # r => items'[o] = items[o]
  BY Zenon, <1>1, <1>4, <1>5
<1> QED BY Zenon, <1>2, <1>4, <1>6

LEMMA AppendedQueue ==
  ASSUME EngineInv, NEW f \in Firings, NEW r \in Objects, NEW q \in 1..2, Sends(f, r, q),
         fire[f].at = "send", Only(f), fire'[f].rs = r, fire'[f].at = "pump",
         run' = run, run[f].at = "none"
  PROVE  QueueInv'
<1>1. EngineType /\ WaitInv /\ OnceInv
  BY Zenon DEF EngineInv, QueueInv
<1>2. /\ \A o \in Objects : o # r => items'[o] = items[o]
      /\ \A p \in 1..2 : p # q => items'[r][p] = items[r][p]
      /\ items'[r][q] = Append(items[r][q], f) /\ items[r][q] \in Seq(Firings)
  BY Zenon, <1>1, Appended
<1>3. ASSUME NEW o \in Objects, NEW p \in 1..2, NEW i \in 1..Len(items'[o][p])
      PROVE  \/ i \in 1..Len(items[o][p]) /\ items'[o][p][i] = items[o][p][i]
             \/ o = r /\ p = q /\ i = Len(items[r][q]) + 1 /\ items'[o][p][i] = f
  <2>1. CASE o = r /\ p = q
    <3>1. \A s \in Seq(Firings) : \A k \in 1..Len(Append(s, f)) :
            \/ k \in 1..Len(s) /\ Append(s, f)[k] = s[k]
            \/ k = Len(s) + 1 /\ Append(s, f)[k] = f
      OBVIOUS
    <3>2. items'[o][p] = Append(items[r][q], f)
      BY Zenon, <1>2, <2>1
    <3>3. i \in 1..Len(Append(items[r][q], f))
      BY Zenon, <1>3, <3>2
    <3>4. \/ i \in 1..Len(items[r][q]) /\ Append(items[r][q], f)[i] = items[r][q][i]
          \/ i = Len(items[r][q]) + 1 /\ Append(items[r][q], f)[i] = f
      BY Zenon, <1>2, <3>1, <3>3
    <3> QED BY Zenon, <2>1, <3>2, <3>4
  <2>2. CASE ~(o = r /\ p = q)
    <3>1. items'[o][p] = items[o][p]
      BY Zenon, <1>2, <2>2
    <3> QED BY Zenon, <1>3, <3>1
  <2> QED BY Zenon, <2>1, <2>2
<1>4. \A o \in Objects, p \in 1..2 : \A i \in 1..Len(items[o][p]) : items[o][p][i] # f
  <2>1. \A o \in Objects : ~Waiting(f, o)
    BY DEF Waiting
  <2> QED BY Zenon, <1>1, <2>1 DEF WaitInv
<1>5. ASSUME NEW o \in Objects, NEW p \in 1..2, NEW i \in 1..Len(items'[o][p])
      PROVE  /\ items'[o][p][i] = f => o = r /\ p = q /\ i = Len(items[r][q]) + 1
             /\ items'[o][p][i] # f =>
                  i \in 1..Len(items[o][p]) /\ items'[o][p][i] = items[o][p][i]
  <2>1. \/ i \in 1..Len(items[o][p]) /\ items'[o][p][i] = items[o][p][i]
        \/ o = r /\ p = q /\ i = Len(items[r][q]) + 1 /\ items'[o][p][i] = f
    BY Zenon, <1>3
  <2>2. i \in 1..Len(items[o][p]) => items[o][p][i] # f
    BY Zenon, <1>4
  <2> QED BY Zenon, <2>1, <2>2
<1>6. WaitInv'
  <2> SUFFICES ASSUME NEW o \in Objects, NEW p \in 1..2, NEW i \in 1..Len(items'[o][p])
               PROVE  Waiting(items[o][p][i], o)'
    BY Zenon DEF WaitInv
  <2>1. PICK g : items'[o][p][i] = g
    BY Zenon
  <2>2. CASE g = f
    <3>1. o = r
      <4>1. items'[o][p][i] = f
        BY Zenon, <2>1, <2>2
      <4> QED BY Zenon, <1>5, <4>1
    <3>2. Waiting(f, r)'
      <4>1. "pump" \in {"pump", "end"}
        OBVIOUS
      <4> QED BY Zenon, <4>1 DEF Waiting
    <3> QED BY Zenon, <2>1, <2>2, <3>1, <3>2 DEF Waiting
  <2>3. CASE g # f
    <3>1. i \in 1..Len(items[o][p]) /\ items[o][p][i] = g
      BY Zenon, <1>5, <2>1, <2>3
    <3>2. Waiting(g, o) /\ g \in Firings
      <4>1. items[o] \in Seq(Firings) \X Seq(Firings)
        BY Zenon, <1>1 DEF EngineType
      <4>2. items[o][p] \in Seq(Firings)
        BY <4>1
      <4>3. g \in Firings
        BY <3>1, <4>2
      <4> QED BY Zenon, <1>1, <3>1, <4>3 DEF WaitInv
    <3>3. fire'[g] = fire[g] /\ run'[g] = run[g]
      BY Zenon, <2>3, <3>2 DEF Only
    <3> QED BY Zenon, <2>1, <3>2, <3>3 DEF Waiting
  <2> QED BY Zenon, <2>2, <2>3
<1>7. OnceInv'
  <2> SUFFICES ASSUME NEW o \in Objects, NEW p \in 1..2, NEW t \in 1..2,
                      NEW i \in 1..Len(items'[o][p]), NEW j \in 1..Len(items'[o][t]),
                      items'[o][p][i] = items'[o][t][j]
               PROVE  p = t /\ i = j
    BY Zenon DEF OnceInv
  <2>1. CASE items'[o][p][i] = f
    <3>1. p = q /\ i = Len(items[r][q]) + 1
      BY Zenon, <1>5, <2>1
    <3>2. t = q /\ j = Len(items[r][q]) + 1
      BY Zenon, <1>5, <2>1
    <3> QED BY Zenon, <3>1, <3>2
  <2>2. CASE items'[o][p][i] # f
    <3>1. i \in 1..Len(items[o][p]) /\ items'[o][p][i] = items[o][p][i]
      BY Zenon, <1>5, <2>2
    <3>2. j \in 1..Len(items[o][t]) /\ items'[o][t][j] = items[o][t][j]
      BY Zenon, <1>5, <2>2
    <3>3. items[o][p][i] = items[o][t][j]
      BY Zenon, <3>1, <3>2
    <3>4. \A k \in 1..Len(items[o][p]), l \in 1..Len(items[o][t]) :
            items[o][p][k] = items[o][t][l] => p = t /\ k = l
      BY Zenon, <1>1 DEF OnceInv
    <3> QED BY Zenon, <3>1, <3>2, <3>3, <3>4
  <2> QED BY Zenon, <2>1, <2>2
<1> QED BY Zenon, <1>6, <1>7 DEF QueueInv

LEMMA SendKeeps ==
  ASSUME EngineInv, Later, ConfigInv', NEW f \in Firings, fire[f].at = "send",
         Sends(f, fire[f].rs, fire[f].q), fire' = [fire EXCEPT ![f].at = "pump"],
         UNCHANGED <<mode, current, gate, active, newest, cancelled, queue, closed,
                     pump, run, inFlight>>
  PROVE  EngineInv' /\ CountStep
<1> DEFINE r == fire[f].rs
<1> DEFINE q == fire[f].q
<1>1. /\ mode' = mode /\ current' = current /\ UNCHANGED <<gate, active, newest, cancelled>>
      /\ active' = active /\ newest' = newest
      /\ queue' = queue /\ closed' = closed /\ pump' = pump /\ run' = run
      /\ inFlight' = inFlight
  BY Zenon
<1>2. EngineType /\ Stage(f) /\ "pump" \in FireAts
  <2>1. "pump" \in FireAts
    BY DEF FireAts
  <2> QED BY Zenon, <2>1 DEF EngineInv, StageInv
<1>3. run[f].at = "none" /\ r # 0 /\ r <= Len(mode) /\ q # 0
  BY <1>2 DEF Stage
<1>4. r \in Objects /\ q \in 1..2 /\ Sends(f, r, q)
  <2>1. fire[f] \in FireRec
    BY Zenon, <1>2 DEF EngineType
  <2>2. q \in 0..2
    BY Zenon, <2>1 DEF FireRec
  <2>3. q \in 1..2
    BY <1>3, <2>2
  <2> QED BY Zenon, <1>3, <2>3, Known
<1>5. /\ fire' \in [Firings -> FireRec] /\ Only(f)
      /\ fire'[f].at = "pump" /\ fire'[f].rs = r
  BY Zenon, <1>2, FireAt
<1> HIDE DEF r, q
<1>6. /\ items' \in [Objects -> Seq(Firings) \X Seq(Firings)]
      /\ \A o \in Objects : o # r => items'[o] = items[o]
      /\ \A p \in 1..2 : p # q => items'[r][p] = items[r][p]
  BY Zenon, <1>2, <1>4, Appended
<1>7. EngineType'
  BY Zenon, <1>1, <1>2, <1>5, <1>6 DEF EngineType
<1>8. StageInv'
  <2>1. Stage(f)'
    <3>1. run'[f].at = "none" /\ fire'[f].rs <= Len(mode') /\ fire'[f].rs # 0
      BY Zenon, <1>1, <1>3, <1>5
    <3> QED BY <1>5, <3>1 DEF Stage, Executing
  <2> QED BY Zenon, <1>1, <1>5, <2>1, StageFrame DEF EngineInv, OnlyRun
<1>9. GateInv' /\ RestartInv' /\ PumpInv'
  <2>1. \A g \in Firings : fire'[g].rs = fire[g].rs
    BY Zenon, <1>5 DEF Only, r
  <2> QED BY Zenon, <1>1, <2>1, RunsStill
<1>10. QueueInv'
  BY Zenon, <1>1, <1>3, <1>4, <1>5, AppendedQueue DEF r, q
<1>11. CountStep
  <2>1. "pump" \notin {"idle", "end"} /\ "send" \notin {"idle", "end"}
    OBVIOUS
  <2>2. OfFirings' = OfFirings
    BY Zenon, <1>5, <2>1, FiringCounted
  <2> QED BY Zenon, <1>1, <2>2, SameRuns, SamePumps, CountStill
<1>12. Fresh'
  <2>1. r \in Nat /\ Len(mode) \in Nat
    BY Zenon, Known DEF r
  <2>2. \A o \in Objects : Len(mode) < o => o # r
    BY <1>3, <2>1 DEF Objects
  <2> QED BY Zenon, <1>1, <1>6, <2>2 DEF EngineInv, Fresh
<1>13. ServeInv'
  <2> SUFFICES ASSUME NEW c, current = c, c # 0
               PROVE  Serve(c)'
    BY Zenon, <1>1 DEF ServeInv
  <2>1. Channel(c) /\ Receiver(c) /\ (\A g \in Firings : Sender(g, c)) /\ c \in Objects
    BY Zenon, Known DEF EngineInv, ServeInv, Serve
  <2>2. ASSUME NEW g \in Firings, g # f
        PROVE  Sender(g, c)'
    BY Zenon, <1>1, <1>5, <2>1, <2>2, SenderStill DEF Only
  <2>3. ~Executing(f)'
    BY <1>1, <1>3 DEF Executing
  <2>4. CASE c = r
    <3>1. queue[c] # 0 /\ q = 1
      <4>1. "send" \in {"send", "pump"}
        OBVIOUS
      <4> QED BY Zenon, <2>1, <2>4, <4>1 DEF Sender, r, q
    <3>2. items'[c][2] = items[c][2]
      BY <1>6, <2>4, <3>1
    <3>3. Channel(c)'
      BY Zenon, <1>1, <2>1, <3>1, <3>2 DEF Channel
    <3>4. Sender(f, c)'
      <4>1. "pump" # "send"
        OBVIOUS
      <4> QED BY Zenon, <1>1, <1>5, <2>3, <3>1, <4>1 DEF Sender
    <3>5. Receiver(c)'
      <4>1. Done(pump[c].ctx) => Done(pump[c].ctx)'
        BY Zenon, <1>1, DoneStays
      <4> QED BY Zenon, <1>1, <1>5, <2>1, <2>4, <4>1 DEF Receiver
    <3> QED BY Zenon, <2>2, <3>3, <3>4, <3>5 DEF Serve
  <2>5. CASE c # r
    <3>1. items'[c] = items[c]
      BY Zenon, <1>6, <2>1, <2>5
    <3>2. Channel(c)'
      BY Zenon, <1>1, <2>1, <3>1, ChannelStill
    <3>3. Sender(f, c)'
      BY Zenon, <1>5, <2>5 DEF Sender
    <3>4. \A g \in Firings : fire[g].at = "pump" => fire'[g].at = "pump" /\ fire'[g].rs = fire[g].rs
      BY Zenon, <1>5 DEF Only, r
    <3>5. Receiver(c)'
      BY Zenon, <1>1, <2>1, <3>1, <3>4, ReceiverStill
    <3> QED BY Zenon, <2>2, <3>2, <3>3, <3>5 DEF Serve
  <2> QED BY Zenon, <2>4, <2>5
<1> QED BY Zenon, <1>7, <1>8, <1>9, <1>10, <1>11, <1>12, <1>13 DEF EngineInv

LEMMA EnqueueKeeps ==
  ASSUME EngineInv, ConfigInv', NEW f \in Firings, Enqueue(f)
  PROVE  EngineInv' /\ CountStep
<1>1. /\ UNCHANGED <<mode, current, queue, closed, pump, inFlight>>
      /\ UNCHANGED <<gate, active, newest, cancelled>>
      /\ UNCHANGED <<active, newest, cancelled>> /\ gate' = gate
      /\ callerDone' = callerDone /\ stopped' = stopped
  BY Zenon DEF Enqueue, configVars, modeVars
<1>2. fire[f].at = "send" /\ EngineType /\ Stage(f) /\ Later
  <2>1. fire[f].at = "send"
    BY Zenon DEF Enqueue
  <2>2. Later
    BY Zenon, <1>1 DEF Later
  <2> QED BY Zenon, <2>1, <2>2 DEF EngineInv, StageInv
<1>3. CASE UNCHANGED <<items, fire, run>>
  <2>1. UNCHANGED <<mode, current, gate, active, newest, cancelled, queue, items, closed,
                    pump, run, fire, inFlight>>
    BY Zenon, <1>1, <1>3
  <2> QED BY Zenon, <1>2, <2>1, AroundKeeps
<1>4. CASE /\ Sends(f, fire[f].rs, fire[f].q) /\ fire' = [fire EXCEPT ![f].at = "pump"]
           /\ run' = run
  <2>1. UNCHANGED <<mode, current, gate, active, newest, cancelled, queue, closed,
                    pump, run, inFlight>>
    BY Zenon, <1>1, <1>4
  <2> QED BY Zenon, <1>2, <1>4, <2>1, SendKeeps
<1>5. CASE /\ fire' = [fire EXCEPT ![f].at = "run"] /\ Begins(f, "skip")
           /\ items' = items
  <2>1. /\ "skip" \in Unders /\ "skip" # "restart" /\ "skip" # "single"
        /\ "skip" \in ByGoroutine /\ "run" \in FireAts
    BY DEF ByGoroutine, Unders, FireAts
  <2>2. /\ fire' \in [Firings -> FireRec] /\ Only(f)
        /\ fire'[f].at = "run" /\ fire'[f].rs = fire[f].rs
    BY Zenon, <1>2, <1>5, <2>1, FireAt
  <2>3. /\ run' \in [Firings -> RunRec] /\ OnlyRun(f)
        /\ run'[f].at = "executing" /\ run'[f].under = "skip"
    BY Zenon, <1>2, <1>5, <2>1, RunBegins
  <2>4. run[f].at = "none" /\ fire[f].rs # 0 /\ fire[f].at \in {"admit", "send"}
    BY <1>2 DEF Stage
  <2>5. fire[f].rs \in Objects
    BY Zenon, <2>4, Known
  <2>6. GateInv'
    BY Zenon, <1>1, <2>1, <2>2, <2>3, <2>4, GateBegins
  <2>7. /\ RestartInv' /\ active' \in [Objects -> Firings \cup {None}]
        /\ newest' \in [Objects -> Firings \cup {None}]
    BY Zenon, <1>1, <2>1, <2>2, <2>3, <2>4, <2>5, RestartBegins
  <2>8. UNCHANGED <<mode, current, queue, items, closed, pump, inFlight>>
    BY Zenon, <1>1, <1>5
  <2> QED BY Zenon, <1>2, <2>1, <2>2, <2>3, <2>4, <2>6, <2>7, <2>8, OwnBegins
<1> QED BY Zenon, <1>3, <1>4, <1>5 DEF Enqueue, Sends

LEMMA StartPumpOnceKeeps ==
  ASSUME EngineInv, ConfigInv', NEW f \in Firings, StartPumpOnce(f)
  PROVE  EngineInv' /\ CountStep
<1> DEFINE r == fire[f].rs
<1>1. /\ mode' = mode /\ current' = current /\ UNCHANGED <<gate, active, newest, cancelled>>
      /\ active' = active /\ newest' = newest
      /\ queue' = queue /\ items' = items /\ closed' = closed /\ run' = run
      /\ callerDone' = callerDone /\ stopped' = stopped
  BY Zenon DEF StartPumpOnce, configVars, modeVars, runVars
<1>2. EngineType /\ Stage(f) /\ Later
  BY Zenon, <1>1 DEF EngineInv, StageInv, Later
<1>3. fire[f].at = "pump" /\ Ends(f)
  BY Zenon DEF StartPumpOnce
<1>4. /\ r # 0 /\ r <= Len(mode)
      /\ fire[f].at \notin {"idle", "end"} /\ fire[f].at # "run"
  BY <1>2, <1>3 DEF Stage
<1>5. r \in Objects
  BY Zenon, <1>4, Known
<1>6. /\ fire' \in [Firings -> FireRec] /\ Only(f)
      /\ fire'[f].at = "end" /\ fire'[f].rs = r
  BY Zenon, <1>2, <1>3, FireEnds
<1>7. \/ pump[r].at # "none" /\ pump' = pump /\ inFlight' = inFlight - 1
      \/ /\ pump[r].at = "none" /\ inFlight' = inFlight
         /\ pump' = [pump EXCEPT ![r] = [at |-> "start", q |-> 0, ctx |-> f]]
  BY Zenon DEF StartPumpOnce, CountsPump
<1> HIDE DEF r
<1>8. /\ pump' \in [Objects -> PumpRec] /\ OnlyPump(r) /\ pump'[r].at # "none"
      /\ pump'[r] # pump[r] => pump[r].at = "none" /\ pump'[r].at = "start"
  <2>1. CASE pump[r].at # "none" /\ pump' = pump
    BY Zenon, <1>2, <2>1 DEF EngineType, OnlyPump
  <2>2. CASE /\ pump[r].at = "none"
             /\ pump' = [pump EXCEPT ![r] = [at |-> "start", q |-> 0, ctx |-> f]]
    <3>1. [at |-> "start", q |-> 0, ctx |-> f] \in PumpRec
      BY DEF PumpRec, PumpAts
    <3>2. /\ pump' \in [Objects -> PumpRec] /\ OnlyPump(r)
          /\ pump'[r] = [at |-> "start", q |-> 0, ctx |-> f]
      BY Zenon, <1>2, <1>5, <2>2, <3>1 DEF EngineType, OnlyPump
    <3>3. pump'[r].at = "start" /\ "start" # "none"
      BY <3>2
    <3> QED BY Zenon, <2>2, <3>2, <3>3
  <2> QED BY Zenon, <1>7, <2>1, <2>2
<1>9. StageInv'
  <2>1. ~(Executing(f) /\ run[f].under \in ByGoroutine)
    BY Zenon, <1>2, <1>4 DEF Stage
  <2>2. /\ "end" \notin {"idle", "lookup", "admit", "send"} /\ "end" # "run" /\ "end" # "send"
        /\ "end" \notin {"admit", "send", "pump", "run"}
    OBVIOUS
  <2>3. /\ fire'[f].rs <= Len(mode')
        /\ Executing(f)' => Executing(f) /\ run'[f] = run[f] /\ fire'[f].rs # 0
    BY Zenon, <1>1, <1>4, <1>6 DEF Executing
  <2>4. Executing(f) => run[f].under # "none"
    BY Zenon, <1>2 DEF Stage
  <2>5. Stage(f)'
    BY Zenon, <1>6, <2>1, <2>2, <2>3, <2>4 DEF Stage
  <2> QED BY Zenon, <1>1, <1>6, <2>5, StageFrame DEF EngineInv, OnlyRun
<1>10. GateInv' /\ RestartInv' /\ PumpInv'
  <2>1. \A g \in Firings : fire'[g].rs = fire[g].rs
    BY Zenon, <1>6 DEF Only, r
  <2>2. "none" # "run"
    OBVIOUS
  <2>3. \A o \in Objects : pump[o].at = "run" => pump'[o].at = "run"
    BY Zenon, <1>8, <2>2 DEF OnlyPump
  <2> QED BY Zenon, <1>1, <2>1, <2>3, RunsStill
<1>11. QueueInv'
  <2>1. "end" \in {"pump", "end"}
    OBVIOUS
  <2>2. \A g \in Firings :
          fire[g].at \in {"pump", "end"} =>
            fire'[g].rs = fire[g].rs /\ fire'[g].at \in {"pump", "end"}
    BY Zenon, <1>6, <2>1 DEF Only, r
  <2> QED BY Zenon, <1>1, <2>2, QueueStill
<1>12. CountStep
  <2>1. "end" \in {"idle", "end"} /\ "start" \notin {"none", "exit"} /\ "none" \in {"none", "exit"}
    OBVIOUS
  <2>2. f \in OfFirings /\ OfFirings' = OfFirings \ {f}
    BY Zenon, <1>4, <1>6, <2>1, FiringCounted
  <2>3. OfRuns' = OfRuns
    BY Zenon, <1>1, SameRuns
  <2>4. CASE pump' = pump /\ inFlight' = inFlight - 1
    BY Zenon, <2>2, <2>3, <2>4, SamePumps, FiringUncounted
  <2>5. CASE pump[r].at = "none" /\ pump'[r].at = "start" /\ inFlight' = inFlight
    <3>1. r \notin OfPumps /\ r \in OfPumps'
      BY Zenon, <1>5, <2>1, <2>5 DEF OfPumps
    <3>2. OfPumps' = OfPumps \cup {r}
      BY Zenon, <1>5, <1>8, <2>1, <2>5 DEF OfPumps, OnlyPump
    <3> QED BY Zenon, <1>5, <2>2, <2>3, <2>5, <3>1, <3>2 DEF CountStep, HandedOver
  <2>6. \/ pump' = pump /\ inFlight' = inFlight - 1
        \/ pump[r].at = "none" /\ pump'[r].at = "start" /\ inFlight' = inFlight
    BY Zenon, <1>7, <1>8
  <2> QED BY Zenon, <2>4, <2>5, <2>6
<1>13. EngineType'
  BY Zenon, <1>1, <1>2, <1>6, <1>8 DEF EngineType
<1>14. Fresh'
  <2>1. r \in Nat /\ Len(mode) \in Nat
    BY Zenon, Known DEF r
  <2>2. \A o \in Objects : Len(mode) < o => o # r
    BY <1>4, <2>1 DEF Objects
  <2> QED BY Zenon, <1>1, <1>8, <2>2 DEF EngineInv, Fresh, OnlyPump
<1>15. ServeInv'
  <2> SUFFICES ASSUME NEW c, current = c, c # 0
               PROVE  Serve(c)'
    BY Zenon, <1>1 DEF ServeInv
  <2>1. Channel(c) /\ Receiver(c) /\ (\A g \in Firings : Sender(g, c)) /\ c \in Objects
    BY Zenon, Known DEF EngineInv, ServeInv, Serve
  <2>2. CASE c = r
    <3>1. queue[c] # 0
      <4>1. "pump" \in {"send", "pump"}
        OBVIOUS
      <4> QED BY Zenon, <1>3, <2>1, <2>2, <4>1 DEF Sender, r
    <3>2. Channel(c)'
      BY Zenon, <1>1, <2>1, <3>1 DEF Channel
    <3>3. Receiver(c)'
      <4>1. CASE pump'[c] = pump[c]
        <5>1. Done(pump[c].ctx) => Done(pump[c].ctx)'
          BY Zenon, <1>2, <4>1, DoneStays
        <5> QED BY Zenon, <1>8, <2>1, <2>2, <4>1, <5>1 DEF Receiver
      <4>2. CASE pump'[c].at = "start"
        <5>1. "start" \notin {"recv", "run", "drain"} /\ "start" \notin {"drain", "exit"}
          OBVIOUS
        <5> QED BY Zenon, <1>8, <2>2, <4>2, <5>1 DEF Receiver
      <4> QED BY Zenon, <1>8, <2>2, <4>1, <4>2
    <3>4. ASSUME NEW g \in Firings
          PROVE  Sender(g, c)'
      <4>1. Executing(g) /\ run[g].under = "drain" /\ fire[g].rs = c => pump'[c] = pump[c]
        <5>1. Executing(g) /\ run[g].under = "drain" /\ fire[g].rs = c => pump[c].at = "run"
          <6>1. "drain" \in ByPump
            BY DEF ByPump
          <6> QED BY Zenon, <6>1 DEF EngineInv, PumpInv
        <5>2. "run" # "none"
          OBVIOUS
        <5> QED BY Zenon, <1>8, <2>2, <5>1, <5>2
      <4>2. Sender(g, c)
        BY Zenon, <2>1
      <4>3. Executing(g) /\ run[g].under = "drain" /\ fire[g].rs = c => Done(pump[c].ctx)'
        BY Zenon, <1>2, <4>1, <4>2, DoneStays DEF Sender
      <4>4. fire'[g].rs = fire[g].rs /\ (fire'[g] = fire[g] \/ fire'[g].at \notin {"send", "pump"})
        <5>1. "end" \notin {"send", "pump"}
          OBVIOUS
        <5> QED BY Zenon, <1>6, <5>1 DEF Only, r
      <4>5. fire'[g].at \notin {"send", "pump"} => fire'[g].at # "send"
        OBVIOUS
      <4> QED BY Zenon, <1>1, <3>1, <4>2, <4>3, <4>4, <4>5 DEF Sender, Executing
    <3> QED BY Zenon, <3>2, <3>3, <3>4 DEF Serve
  <2>3. CASE c # r
    <3>1. pump'[c] = pump[c]
      BY Zenon, <1>8, <2>1, <2>3 DEF OnlyPump
    <3>2. Channel(c)'
      BY Zenon, <1>1, <2>1, <3>1, ChannelStill
    <3>3. ASSUME NEW g \in Firings
          PROVE  Sender(g, c)'
      <4>1. CASE g = f
        BY Zenon, <1>6, <2>3, <4>1 DEF Sender
      <4>2. CASE g # f
        BY Zenon, <1>1, <1>2, <1>6, <2>1, <3>1, <4>2, SenderStill DEF Only
      <4> QED BY Zenon, <4>1, <4>2
    <3>4. Receiver(c)'
      <4>1. Done(pump[c].ctx) => Done(pump[c].ctx)'
        BY Zenon, <1>2, <3>1, DoneStays
      <4>2. \A g \in Firings : fire[g].rs = c => fire'[g] = fire[g]
        BY Zenon, <1>6, <2>3 DEF Only, r
      <4> QED BY Zenon, <1>1, <2>1, <3>1, <4>1, <4>2 DEF Receiver
    <3> QED BY Zenon, <3>2, <3>3, <3>4 DEF Serve
  <2> QED BY Zenon, <2>2, <2>3
<1> QED BY Zenon, <1>9, <1>10, <1>11, <1>12, <1>13, <1>14, <1>15 DEF EngineInv

-----------------------------------------------------------------------------
(* The pump.                                                               *)

\* The pump of r moves on without a run.
LEMMA PumpStep ==
  ASSUME EngineInv, Later, ConfigInv', NEW r \in Objects,
         UNCHANGED <<mode, current, gate, active, newest, cancelled, queue, items, closed,
                     fire, run>>,
         pump[r].at \notin {"none", "run"}, pump' \in [Objects -> PumpRec], OnlyPump(r),
         pump'[r].at # "none", pump'[r].ctx = pump[r].ctx,
         Serve(r) => /\ pump'[r].at \in {"recv", "run", "drain"} => pump'[r].q = 1
                     /\ pump'[r].at \in {"drain", "exit"} => Done(pump[r].ctx)
  PROVE  EngineInv'
<1>1. /\ mode' = mode /\ current' = current /\ UNCHANGED <<gate, active, newest, cancelled>>
      /\ active' = active /\ newest' = newest
      /\ queue' = queue /\ items' = items /\ closed' = closed /\ fire' = fire /\ run' = run
  BY Zenon
<1>2. pump[r].at # "none" /\ pump[r].at # "run"
  OBVIOUS
<1>3. EngineType'
  BY Zenon, <1>1 DEF EngineInv, EngineType
<1>4. StageInv'
  BY Zenon, <1>1 DEF EngineInv, StageInv, Stage, Executing
<1>5. GateInv' /\ RestartInv' /\ PumpInv'
  <2>1. \A o \in Objects : pump[o].at = "run" => pump'[o].at = "run"
    BY Zenon, <1>2 DEF OnlyPump
  <2> QED BY Zenon, <1>1, <2>1, RunsStill
<1>6. QueueInv'
  BY Zenon, <1>1, QueueStill
<1>7. Fresh'
  <2>1. \A o \in Objects : Len(mode) < o => o # r
    BY Zenon, <1>2 DEF EngineInv, Fresh
  <2> QED BY Zenon, <1>1, <2>1 DEF EngineInv, Fresh, OnlyPump
<1>8. ServeInv'
  <2> SUFFICES ASSUME NEW c, current = c, c # 0
               PROVE  Serve(c)'
    BY Zenon, <1>1 DEF ServeInv
  <2>1. Serve(c) /\ Channel(c) /\ Receiver(c) /\ (\A g \in Firings : Sender(g, c)) /\ c \in Objects
    BY Zenon, Known DEF EngineInv, ServeInv, Serve
  <2>2. pump'[c].ctx = pump[c].ctx
    BY Zenon, <2>1 DEF OnlyPump
  <2>3. ASSUME NEW g \in Firings
        PROVE  Sender(g, c)'
    BY Zenon, <1>1, <1>2, <2>1, <2>2, SenderStill
  <2>4. CASE c = r
    <3>1. queue[c] # 0
      BY Zenon, <1>2, <2>1, <2>4 DEF Channel
    <3>2. Channel(c)'
      BY Zenon, <1>1, <2>1, <3>1 DEF Channel
    <3>3. Done(pump[c].ctx) => Done(pump[c].ctx)'
      BY Zenon, <1>2, <2>2, DoneStays
    <3>4. Receiver(c)'
      <4>1. /\ pump'[c].at \in {"recv", "run", "drain"} => pump'[c].q = 1
            /\ pump'[c].at \in {"drain", "exit"} => Done(pump[c].ctx)
            /\ pump'[c].at # "none"
        BY Zenon, <2>1, <2>4
      <4> QED BY Zenon, <3>3, <4>1 DEF Receiver
    <3> QED BY Zenon, <2>3, <3>2, <3>4 DEF Serve
  <2>5. CASE c # r
    <3>1. pump'[c] = pump[c]
      BY Zenon, <2>1, <2>5 DEF OnlyPump
    <3>2. Channel(c)' /\ Receiver(c)'
      BY Zenon, <1>1, <1>2, <2>1, <3>1, ChannelStill, ReceiverStill
    <3> QED BY Zenon, <2>3, <3>2 DEF Serve
  <2> QED BY Zenon, <2>4, <2>5
<1> QED BY Zenon, <1>3, <1>4, <1>5, <1>6, <1>7, <1>8 DEF EngineInv

LEMMA PumpCounted ==
  ASSUME NEW r \in Objects, OnlyPump(r), fire' = fire, run' = run,
         inFlight' = inFlight,
         pump[r].at \notin {"none", "exit"}, pump'[r].at \notin {"none", "exit"}
  PROVE  CountStep
<1>1. OfPumps' = OfPumps
  BY Zenon, SamePumps DEF OnlyPump
<1>2. OfFirings' = OfFirings
  BY Zenon DEF OfFirings
<1> QED BY Zenon, <1>1, <1>2, SameRuns, CountStill

LEMMA PumpStartKeeps ==
  ASSUME EngineInv, ConfigInv', NEW r \in Objects, PumpStart(r)
  PROVE  EngineInv' /\ CountStep
<1>1. /\ UNCHANGED <<mode, current, gate, active, newest, cancelled, queue, items, closed,
                     fire, run>>
      /\ fire' = fire /\ run' = run /\ inFlight' = inFlight
      /\ callerDone' = callerDone /\ stopped' = stopped
  BY Zenon DEF PumpStart, configVars, modeVars, runVars, engineVars
<1>2. /\ pump[r].at = "start" /\ EngineType
      /\ pump' = [pump EXCEPT ![r].at = "recv", ![r].q = queue[r]]
  BY Zenon DEF PumpStart, EngineInv
<1>3. /\ pump' \in [Objects -> PumpRec] /\ OnlyPump(r)
      /\ pump'[r].at = "recv" /\ pump'[r].q = queue[r] /\ pump'[r].ctx = pump[r].ctx
  <2> DEFINE e == [[pump[r] EXCEPT !.at = "recv"] EXCEPT !.q = queue[r]]
  <2>1. pump \in [Objects -> PumpRec] /\ pump[r] \in PumpRec /\ queue[r] \in 0..2
    BY Zenon, <1>2 DEF EngineType
  <2>2. pump' = [pump EXCEPT ![r] = e]
    BY Zenon, <1>2, <2>1
  <2>3. "recv" \in PumpAts
    BY DEF PumpAts
  <2>4. e \in PumpRec /\ e.at = "recv" /\ e.q = queue[r] /\ e.ctx = pump[r].ctx
    BY Zenon, <2>1, <2>3 DEF PumpRec
  <2> QED BY Zenon, <2>1, <2>2, <2>4 DEF OnlyPump
<1>4. /\ pump[r].at \notin {"none", "run"} /\ pump[r].at \notin {"none", "exit"}
      /\ pump'[r].at \notin {"none", "exit"} /\ pump'[r].at # "none"
      /\ pump'[r].at \notin {"drain", "exit"} /\ pump[r].at # "none"
  BY <1>2, <1>3
<1>5. Serve(r) => pump'[r].q = 1
  <2>1. Serve(r) => queue[r] # 0 /\ queue[r] \in 0..1
    BY Zenon, <1>4 DEF Serve, Channel
  <2>2. \A n \in 0..1 : n # 0 => n = 1
    OBVIOUS
  <2> QED BY Zenon, <1>3, <2>1, <2>2
<1>6. CountStep
  BY Zenon, <1>1, <1>3, <1>4, PumpCounted
<1> QED BY Zenon, <1>1, <1>3, <1>4, <1>5, <1>6, PumpStep DEF Later

LEMMA PumpStoppingKeeps ==
  ASSUME EngineInv, ConfigInv', NEW r \in Objects, PumpStopping(r)
  PROVE  EngineInv' /\ CountStep
<1>1. /\ UNCHANGED <<mode, current, gate, active, newest, cancelled, queue, items, closed,
                     fire, run>>
      /\ fire' = fire /\ run' = run /\ inFlight' = inFlight
      /\ callerDone' = callerDone /\ stopped' = stopped
  BY Zenon DEF PumpStopping, configVars, modeVars, runVars, engineVars
<1>2. pump[r].at = "recv" /\ EngineType /\ Done(pump[r].ctx) /\ PumpTo(r, "drain")
  BY Zenon DEF PumpStopping, EngineInv
<1>3. "drain" \in PumpAts
  BY DEF PumpAts
<1>4. /\ pump' \in [Objects -> PumpRec] /\ OnlyPump(r)
      /\ pump'[r].at = "drain" /\ pump'[r].q = pump[r].q /\ pump'[r].ctx = pump[r].ctx
  BY Zenon, <1>2, <1>3, PumpAt
<1>5. /\ pump[r].at \notin {"none", "run"} /\ pump[r].at \notin {"none", "exit"}
      /\ pump'[r].at \notin {"none", "exit"} /\ pump'[r].at # "none"
      /\ pump[r].at \in {"recv", "run", "drain"}
  BY <1>2, <1>4
<1>6. Serve(r) => pump'[r].q = 1
  BY Zenon, <1>4, <1>5 DEF Serve, Receiver
<1>7. CountStep
  BY Zenon, <1>1, <1>4, <1>5, PumpCounted
<1> QED BY Zenon, <1>1, <1>2, <1>4, <1>5, <1>6, <1>7, PumpStep DEF Later

LEMMA PumpExitKeeps ==
  ASSUME EngineInv, ConfigInv', NEW r \in Objects, PumpExit(r)
  PROVE  EngineInv' /\ CountStep
<1>1. /\ UNCHANGED <<mode, current, gate, active, newest, cancelled, queue, items, closed,
                     fire, run>>
      /\ fire' = fire /\ run' = run /\ inFlight' = inFlight - 1
      /\ callerDone' = callerDone /\ stopped' = stopped
  BY Zenon DEF PumpExit, configVars, modeVars, runVars
<1>2. EngineType /\ PumpTo(r, "exit") /\ Leaves(r)
  BY Zenon DEF PumpExit, EngineInv
<1>3. "exit" \in PumpAts
  BY DEF PumpAts
<1>4. /\ pump' \in [Objects -> PumpRec] /\ OnlyPump(r)
      /\ pump'[r].at = "exit" /\ pump'[r].q = pump[r].q /\ pump'[r].ctx = pump[r].ctx
  BY Zenon, <1>2, <1>3, PumpAt
<1>5. /\ pump[r].at \notin {"none", "run"} /\ pump[r].at \notin {"none", "exit"}
      /\ pump'[r].at # "none" /\ pump'[r].at \in {"none", "exit"}
      /\ pump'[r].at \notin {"recv", "run", "drain"}
  <2>1. pump[r].at \in {"recv", "drain"}
    BY <1>2 DEF Leaves
  <2> QED BY <1>4, <2>1
<1>6. Serve(r) => Done(pump[r].ctx)
  <2>1. Serve(r) => pump[r].at = "drain"
    BY Zenon, <1>2 DEF Leaves, Closed, Serve, Channel
  <2>2. "drain" \in {"drain", "exit"}
    OBVIOUS
  <2> QED BY Zenon, <2>1, <2>2 DEF Serve, Receiver
<1>7. CountStep
  <2>1. OfFirings' = OfFirings /\ OfRuns' = OfRuns
    BY Zenon, <1>1, SameRuns DEF OfFirings
  <2>2. r \in OfPumps /\ OfPumps' = OfPumps \ {r}
    BY Zenon, <1>4, <1>5 DEF OfPumps, OnlyPump
  <2> QED BY Zenon, <1>1, <2>1, <2>2 DEF CountStep, Ended
<1> QED BY Zenon, <1>1, <1>4, <1>5, <1>6, <1>7, PumpStep DEF Later

\* What the channel holds after a receive.
Takes(r, q) == items' = [items EXCEPT ![r][q] = Tail(@)]

LEMMA Taken ==
  ASSUME EngineType, NEW r \in Objects, NEW q \in 1..2, Takes(r, q), items[r][q] # <<>>
  PROVE  /\ items' \in [Objects -> Seq(Firings) \X Seq(Firings)]
         /\ \A o \in Objects : o # r => items'[o] = items[o]
         /\ \A p \in 1..2 : p # q => items'[r][p] = items[r][p]
         /\ items'[r][q] = Tail(items[r][q]) /\ items[r][q] \in Seq(Firings)
<1>1. items \in [Objects -> Seq(Firings) \X Seq(Firings)]
  BY Zenon DEF EngineType
<1>2. items[r] \in Seq(Firings) \X Seq(Firings) /\ items[r][q] \in Seq(Firings)
  BY <1>1
<1>3. Tail(items[r][q]) \in Seq(Firings)
  BY <1>2
<1> DEFINE e == [items[r] EXCEPT ![q] = Tail(items[r][q])]
<1>4. /\ e \in Seq(Firings) \X Seq(Firings) /\ e[q] = Tail(items[r][q])
      /\ \A p \in 1..2 : p # q => e[p] = items[r][p]
  <2>1. ASSUME NEW w \in Seq(Firings)
        PROVE  /\ [items[r] EXCEPT ![q] = w] \in Seq(Firings) \X Seq(Firings)
               /\ [items[r] EXCEPT ![q] = w][q] = w
               /\ \A p \in 1..2 : p # q => [items[r] EXCEPT ![q] = w][p] = items[r][p]
    <3> DEFINE S == Seq(Firings)
               pair == items[r]
    <3>1. pair \in S \X S /\ w \in S
      BY Zenon, <1>2
    <3> HIDE DEF S, pair
    <3>2. /\ [pair EXCEPT ![q] = w] \in S \X S /\ [pair EXCEPT ![q] = w][q] = w
          /\ \A p \in 1..2 : p # q => [pair EXCEPT ![q] = w][p] = pair[p]
      BY <3>1
    <3> QED
      BY Zenon, <3>2 DEF S, pair
  <2> QED BY Zenon, <1>3, <2>1
<1>5. items' = [items EXCEPT ![r] = e]
  BY Zenon, <1>1 DEF Takes
<1> HIDE DEF e
<1>6. /\ items' \in [Objects -> Seq(Firings) \X Seq(Firings)] /\ items'[r] = e
      /\ \A o \in Objects : o # r => items'[o] = items[o]
  BY Zenon, <1>1, <1>4, <1>5
<1> QED BY Zenon, <1>2, <1>4, <1>6

LEMMA TakenQueue ==
  ASSUME EngineInv, NEW r \in Objects, NEW q \in 1..2, Takes(r, q), items[r][q] # <<>>,
         NEW f \in Firings, f = Head(items[r][q]), fire' = fire, OnlyRun(f)
  PROVE  QueueInv' /\ Waiting(f, r)
<1>1. EngineType /\ WaitInv /\ OnceInv
  BY Zenon DEF EngineInv, QueueInv
<1>2. /\ \A o \in Objects : o # r => items'[o] = items[o]
      /\ \A p \in 1..2 : p # q => items'[r][p] = items[r][p]
      /\ items'[r][q] = Tail(items[r][q]) /\ items[r][q] \in Seq(Firings)
  BY Zenon, <1>1, Taken
<1>3. 1 \in 1..Len(items[r][q]) /\ items[r][q][1] = f
  BY <1>2
<1>4. ASSUME NEW o \in Objects, NEW p \in 1..2, NEW i \in 1..Len(items'[o][p])
      PROVE  \E k \in 1..Len(items[o][p]) :
               /\ items'[o][p][i] = items[o][p][k]
               /\ k = IF o = r /\ p = q THEN i + 1 ELSE i
  <2>1. CASE o = r /\ p = q
    <3>1. \A s \in Seq(Firings) : s # <<>> =>
            \A k \in 1..Len(Tail(s)) : k + 1 \in 1..Len(s) /\ Tail(s)[k] = s[k + 1]
      OBVIOUS
    <3>2. items'[o][p] = Tail(items[r][q])
      BY Zenon, <1>2, <2>1
    <3>3. i \in 1..Len(Tail(items[r][q]))
      BY Zenon, <1>4, <3>2
    <3>4. i + 1 \in 1..Len(items[r][q]) /\ Tail(items[r][q])[i] = items[r][q][i + 1]
      BY Zenon, <1>2, <3>1, <3>3
    <3> QED BY Zenon, <2>1, <3>2, <3>4
  <2>2. CASE ~(o = r /\ p = q)
    <3>1. items'[o][p] = items[o][p]
      BY Zenon, <1>2, <2>2
    <3> QED BY Zenon, <1>4, <2>2, <3>1
  <2> QED BY Zenon, <2>1, <2>2
<1>5. ASSUME NEW o \in Objects, NEW p \in 1..2, NEW i \in 1..Len(items'[o][p])
      PROVE  Waiting(items[o][p][i], o)' /\ items'[o][p][i] # f
  <2>1. PICK k \in 1..Len(items[o][p]) :
          /\ items'[o][p][i] = items[o][p][k]
          /\ k = IF o = r /\ p = q THEN i + 1 ELSE i
    BY Zenon, <1>4
  <2>2. PICK g : g = items[o][p][k]
    BY Zenon
  <2>3. Waiting(g, o) /\ g \in Firings
    <3>1. items[o] \in Seq(Firings) \X Seq(Firings)
      BY Zenon, <1>1 DEF EngineType
    <3>2. items[o][p] \in Seq(Firings)
      BY <3>1
    <3>3. g \in Firings
      BY <2>2, <3>2
    <3>4. Waiting(items[o][p][k], o)
      BY Zenon, <1>1 DEF WaitInv
    <3> QED BY Zenon, <2>2, <3>3, <3>4
  <2>4. g # f
    <3>1. SUFFICES ASSUME g = f
                   PROVE  FALSE
      BY Zenon
    <3>2. Waiting(f, r)
      <4>1. Waiting(items[r][q][1], r)
        BY Zenon, <1>1, <1>3 DEF WaitInv
      <4> QED BY Zenon, <1>3, <4>1
    <3>3. o = r
      BY Zenon, <2>3, <3>1, <3>2 DEF Waiting
    <3>4. items[r][p][k] = items[r][q][1] /\ k \in 1..Len(items[r][p])
      BY Zenon, <1>3, <2>2, <3>1, <3>3
    <3>5. \A a \in 1..Len(items[r][p]), b \in 1..Len(items[r][q]) :
            items[r][p][a] = items[r][q][b] => p = q /\ a = b
      BY Zenon, <1>1 DEF OnceInv
    <3>6. p = q /\ k = 1
      BY Zenon, <1>3, <3>4, <3>5
    <3>7. k = i + 1 /\ i \in 1..Len(items'[o][p])
      BY Zenon, <1>5, <2>1, <3>3, <3>6
    <3> QED BY <3>6, <3>7
  <2>5. Waiting(g, o)'
    BY Zenon, <2>3, <2>4 DEF Waiting, OnlyRun
  <2>6. items'[o][p][i] = g
    BY Zenon, <2>1, <2>2
  <2> QED BY Zenon, <2>4, <2>5, <2>6 DEF Waiting
<1>6. WaitInv'
  BY Zenon, <1>5 DEF WaitInv
<1>7. OnceInv'
  <2> SUFFICES ASSUME NEW o \in Objects, NEW p \in 1..2, NEW t \in 1..2,
                      NEW i \in 1..Len(items'[o][p]), NEW j \in 1..Len(items'[o][t]),
                      items'[o][p][i] = items'[o][t][j]
               PROVE  p = t /\ i = j
    BY Zenon DEF OnceInv
  <2>1. PICK k \in 1..Len(items[o][p]) :
          /\ items'[o][p][i] = items[o][p][k]
          /\ k = IF o = r /\ p = q THEN i + 1 ELSE i
    BY Zenon, <1>4
  <2>2. PICK l \in 1..Len(items[o][t]) :
          /\ items'[o][t][j] = items[o][t][l]
          /\ l = IF o = r /\ t = q THEN j + 1 ELSE j
    BY Zenon, <1>4
  <2>3. items[o][p][k] = items[o][t][l]
    BY Zenon, <2>1, <2>2
  <2>4. \A a \in 1..Len(items[o][p]), b \in 1..Len(items[o][t]) :
          items[o][p][a] = items[o][t][b] => p = t /\ a = b
    BY Zenon, <1>1 DEF OnceInv
  <2>5. p = t /\ k = l
    BY Zenon, <2>3, <2>4
  <2>6. i \in Int /\ j \in Int
    OBVIOUS
  <2>7. \A a, b \in Int : a + 1 = b + 1 => a = b
    OBVIOUS
  <2>8. i = j
    BY Zenon, <2>1, <2>2, <2>5, <2>6, <2>7
  <2> QED BY Zenon, <2>5, <2>8
<1>8. Waiting(f, r)
  <2>1. Waiting(items[r][q][1], r)
    BY Zenon, <1>1, <1>3 DEF WaitInv
  <2> QED BY Zenon, <1>3, <2>1
<1> QED BY Zenon, <1>6, <1>7, <1>8 DEF QueueInv

LEMMA TakeKeeps ==
  ASSUME EngineInv, Later, ConfigInv', NEW r \in Objects, NEW u \in ByPump,
         pump[r].at \in {"recv", "drain"}, u = "drain" => pump[r].at = "drain",
         Received(r) # <<>>, TakesHead(r), Begins(Head(Received(r)), u), PumpTo(r, "run"),
         UNCHANGED <<mode, current, gate, active, newest, cancelled, queue, closed,
                     fire, inFlight>>
  PROVE  EngineInv' /\ CountStep
<1>1. /\ mode' = mode /\ current' = current /\ gate' = gate /\ active' = active
      /\ newest' = newest /\ cancelled' = cancelled
      /\ queue' = queue /\ closed' = closed /\ fire' = fire /\ inFlight' = inFlight
  BY Zenon
<1>2. EngineType /\ "run" \in PumpAts /\ u \in Unders
  <2>1. "run" \in PumpAts /\ u \in Unders
    BY DEF PumpAts, ByPump, Unders
  <2> QED BY Zenon, <2>1 DEF EngineInv
<1>3. PICK q \in 1..2 : q = pump[r].q /\ items[r][q] # <<>> /\ Received(r) = items[r][q]
  <2>1. pump[r] \in PumpRec
    BY Zenon, <1>2 DEF EngineType
  <2>2. pump[r].q \in 0..2 /\ pump[r].q # 0
    BY Zenon, <2>1 DEF PumpRec, Received
  <2>3. pump[r].q \in 1..2
    BY <2>2
  <2> QED BY Zenon, <2>2, <2>3 DEF Received
<1>4. Takes(r, q)
  BY Zenon, <1>3 DEF Takes, TakesHead
<1>5. /\ items' \in [Objects -> Seq(Firings) \X Seq(Firings)]
      /\ \A o \in Objects : o # r => items'[o] = items[o]
      /\ \A p \in 1..2 : p # q => items'[r][p] = items[r][p]
      /\ items[r][q] \in Seq(Firings)
  BY Zenon, <1>2, <1>3, <1>4, Taken
<1>6. PICK f \in Firings : f = Head(items[r][q])
  BY <1>3, <1>5
<1>7. Begins(f, u)
  BY Zenon, <1>3, <1>6
<1>8. /\ run' \in [Firings -> RunRec] /\ OnlyRun(f)
      /\ run'[f].at = "executing" /\ run'[f].under = u
  BY Zenon, <1>2, <1>7, RunBegins
<1>9. /\ pump' \in [Objects -> PumpRec] /\ OnlyPump(r)
      /\ pump'[r].at = "run" /\ pump'[r].q = q /\ pump'[r].ctx = pump[r].ctx
  BY Zenon, <1>2, <1>3, PumpAt
<1>10. QueueInv' /\ Waiting(f, r)
  BY Zenon, <1>1, <1>3, <1>4, <1>6, <1>8, TakenQueue
<1>11. fire[f].rs = r /\ fire[f].at \in {"pump", "end"} /\ run[f].at = "none" /\ ~Executing(f)
  <2>1. "none" # "executing"
    OBVIOUS
  <2> QED BY Zenon, <1>10, <2>1 DEF Waiting, Executing
<1>12. EngineType'
  BY Zenon, <1>1, <1>2, <1>5, <1>8, <1>9 DEF EngineType
<1>13. /\ u \notin ByGoroutine /\ u # "none" /\ u # "single" /\ u # "restart"
       /\ u \notin {"restart", "parallel"}
       /\ pump[r].at # "none" /\ pump[r].at # "run" /\ pump[r].at \notin {"none", "exit"}
       /\ pump[r].at \in {"recv", "run", "drain"}
       /\ "run" # "none" /\ "run" \notin {"none", "exit"} /\ "run" \notin {"drain", "exit"}
       /\ pump[r].at = "drain" => pump[r].at \in {"drain", "exit"}
  BY DEF ByPump, ByGoroutine
<1>14. StageInv'
  <2>1. /\ fire[f].at \notin {"idle", "lookup", "admit", "send"} /\ fire[f].at # "run"
        /\ fire[f].at # "send"
    BY <1>11
  <2>2. fire[f].rs <= Len(mode) /\ r # 0
    <3>1. r # 0
      BY DEF Objects
    <3> QED BY Zenon, <3>1, Known
  <2>3. Stage(f)'
    BY Zenon, <1>1, <1>8, <1>11, <1>13, <2>1, <2>2 DEF Stage, Executing
  <2> QED BY Zenon, <1>1, <1>8, <2>3, StageFrame DEF EngineInv, Only
<1>15. \A g \in Firings : g # f => run'[g] = run[g] /\ (Executing(g)' <=> Executing(g))
  BY Zenon, <1>8 DEF OnlyRun, Executing
<1>16. GateInv'
  BY Zenon, <1>1, <1>8, <1>11, <1>13, GateBegins DEF Only
<1>17. RestartInv'
  BY Zenon, <1>1, <1>8, <1>11, <1>13, RestartBegins DEF Only
<1>18. PumpInv'
  <2>1. \A g \in Firings :
          Executing(g) /\ run[g].under \in ByPump => pump[fire[g].rs].at = "run"
    BY Zenon DEF EngineInv, PumpInv
  <2>2. \A g \in Firings :
          g # f /\ Executing(g)' /\ run'[g].under \in ByPump =>
            /\ Executing(g) /\ run[g].under \in ByPump /\ fire[g].rs # r
            /\ fire[g].rs \in Objects
    <3>1. \A g \in Firings : Executing(g) => fire[g].rs # 0
      BY Zenon DEF EngineInv, StageInv, Stage
    <3> QED BY Zenon, <1>13, <1>15, <2>1, <3>1, Known
  <2>3. \A g \in Firings :
          Executing(g)' /\ run'[g].under \in ByPump => pump'[fire'[g].rs].at = "run"
    BY ZenonT(40), <1>1, <1>9, <1>11, <2>1, <2>2 DEF OnlyPump
  <2>4. \A g, h \in Firings :
          /\ Executing(g) /\ run[g].under \in ByPump
          /\ Executing(h) /\ run[h].under \in ByPump
          /\ fire[g].rs = fire[h].rs
          => g = h
    BY Zenon DEF EngineInv, PumpInv
  <2>5. \A g, h \in Firings :
          /\ Executing(g)' /\ run'[g].under \in ByPump
          /\ Executing(h)' /\ run'[h].under \in ByPump
          /\ fire'[g].rs = fire'[h].rs
          => g = h
    BY Zenon, <1>1, <1>11, <2>2, <2>4
  <2> QED BY Zenon, <2>3, <2>5 DEF PumpInv
<1>19. CountStep
  <2>1. OfPumps' = OfPumps
    BY Zenon, <1>9, <1>13, SamePumps DEF OnlyPump
  <2>2. OfFirings' = OfFirings
    BY Zenon, <1>1 DEF OfFirings
  <2>3. OfRuns' = OfRuns
    BY Zenon, <1>8, <1>11, <1>13, <1>15 DEF OfRuns
  <2> QED BY Zenon, <1>1, <2>1, <2>2, <2>3, CountStill
<1>20. Fresh'
  <2>1. \A o \in Objects : Len(mode) < o => o # r
    BY Zenon, <1>13 DEF EngineInv, Fresh
  <2> QED BY ZenonT(40), <1>1, <1>5, <1>9, <2>1 DEF EngineInv, Fresh, OnlyPump
<1>21. ServeInv'
  <2> SUFFICES ASSUME NEW c, current = c, c # 0
               PROVE  Serve(c)'
    BY Zenon, <1>1 DEF ServeInv
  <2>1. Channel(c) /\ Receiver(c) /\ (\A g \in Firings : Sender(g, c)) /\ c \in Objects
    BY Zenon, Known DEF EngineInv, ServeInv, Serve
  <2>2. pump'[c].ctx = pump[c].ctx
    BY Zenon, <1>9, <2>1 DEF OnlyPump
  <2>3. Done(pump[c].ctx) => Done(pump[c].ctx)'
    BY Zenon, <2>2, DoneStays
  <2>4. ASSUME NEW g \in Firings, g # f
        PROVE  Sender(g, c)'
    BY Zenon, <1>1, <1>8, <2>1, <2>2, <2>4, SenderStill DEF OnlyRun
  <2>5. CASE c = r
    <3>1. queue[c] # 0 /\ q = 1
      BY Zenon, <1>3, <1>13, <2>1, <2>5 DEF Channel, Receiver
    <3>2. items'[c][2] = items[c][2]
      BY <1>5, <2>5, <3>1
    <3>3. Channel(c)'
      BY Zenon, <1>1, <2>1, <3>1, <3>2 DEF Channel
    <3>4. Receiver(c)'
      BY Zenon, <1>9, <1>13, <2>5, <3>1 DEF Receiver
    <3>5. Sender(f, c)'
      <4>1. u = "drain" => Done(pump[c].ctx)
        BY Zenon, <1>13, <2>1, <2>5 DEF Receiver
      <4> QED BY Zenon, <1>1, <1>8, <2>1, <2>3, <4>1 DEF Sender
    <3> QED BY Zenon, <2>4, <3>3, <3>4, <3>5 DEF Serve
  <2>6. CASE c # r
    <3>1. items'[c] = items[c] /\ pump'[c] = pump[c]
      BY Zenon, <1>5, <1>9, <2>1, <2>6 DEF OnlyPump
    <3>2. Channel(c)' /\ Receiver(c)'
      BY Zenon, <1>1, <2>1, <3>1, ChannelStill, ReceiverStill
    <3>3. Sender(f, c)'
      BY Zenon, <1>1, <1>11, <2>6 DEF Sender
    <3> QED BY Zenon, <2>4, <3>2, <3>3 DEF Serve
  <2> QED BY Zenon, <2>5, <2>6
<1> QED BY Zenon, <1>10, <1>12, <1>14, <1>16, <1>17, <1>18, <1>19, <1>20, <1>21 DEF EngineInv

LEMMA PumpTakesKeeps ==
  ASSUME EngineInv, ConfigInv', NEW r \in Objects, PumpReceive(r) \/ PumpDrain(r)
  PROVE  EngineInv' /\ CountStep
<1>1. /\ "pump" \in ByPump /\ "drain" \in ByPump /\ "pump" # "drain"
      /\ "recv" \in {"recv", "drain"} /\ "drain" \in {"recv", "drain"}
  BY DEF ByPump
<1>2. CASE PumpReceive(r)
  <2>1. /\ UNCHANGED <<mode, current, gate, active, newest, cancelled, queue, closed,
                       fire, inFlight>>
        /\ callerDone' = callerDone /\ stopped' = stopped
    BY Zenon, <1>2 DEF PumpReceive, configVars, modeVars, engineVars
  <2>2. Later
    BY Zenon, <2>1 DEF Later
  <2> QED BY Zenon, <1>1, <1>2, <2>1, <2>2, TakeKeeps DEF PumpReceive
<1>3. CASE PumpDrain(r)
  <2>1. /\ UNCHANGED <<mode, current, gate, active, newest, cancelled, queue, closed,
                       fire, inFlight>>
        /\ callerDone' = callerDone /\ stopped' = stopped
    BY Zenon, <1>3 DEF PumpDrain, configVars, modeVars, engineVars
  <2>2. Later
    BY Zenon, <2>1 DEF Later
  <2> QED BY Zenon, <1>1, <1>3, <2>1, <2>2, TakeKeeps DEF PumpDrain
<1> QED BY Zenon, <1>2, <1>3

-----------------------------------------------------------------------------
(* The end of a run.                                                       *)

RunEnds(f) == run' = [run EXCEPT ![f] = [at |-> "done", under |-> "none"]]

LEMMA RunEnded ==
  ASSUME EngineType, NEW f \in Firings, RunEnds(f)
  PROVE  /\ run' \in [Firings -> RunRec] /\ OnlyRun(f) /\ run'[f].at = "done"
         /\ run'[f].under = "none" /\ ~Executing(f)'
<1>1. run \in [Firings -> RunRec]
  BY Zenon DEF EngineType
<1>2. [at |-> "done", under |-> "none"] \in RunRec
  BY DEF RunRec, RunAts, Unders
<1>3. /\ run' \in [Firings -> RunRec] /\ OnlyRun(f)
      /\ run'[f] = [at |-> "done", under |-> "none"]
  BY Zenon, <1>1, <1>2 DEF RunEnds, OnlyRun
<1>4. run'[f].at = "done" /\ run'[f].under = "none" /\ run'[f].at # "executing"
  BY <1>3
<1> QED BY Zenon, <1>3, <1>4 DEF Executing

\* The gate of a run that ends is that of no other run.
LEMMA GateEnds ==
  ASSUME EngineInv, NEW f \in Firings, Executing(f), OnlyRun(f), ~Executing(f)',
         \A g \in Firings : fire'[g].rs = fire[g].rs,
         gate' = IF Opens(run[f].under) THEN gate \ {fire[f].rs} ELSE gate
  PROVE  GateInv'
<1>1. \A g \in Firings :
        Executing(g)' => g # f /\ Executing(g) /\ run'[g] = run[g] /\ fire'[g].rs = fire[g].rs
  BY Zenon DEF OnlyRun, Executing
<1>2. /\ \A g \in Firings : Executing(g) /\ run[g].under = "single" => fire[g].rs \in gate
      /\ SingleIsExclusive
  BY Zenon DEF EngineInv, GateInv
<1>3. ASSUME NEW g \in Firings, Executing(g)', run'[g].under = "single"
      PROVE  fire'[g].rs \in gate'
  <2>1. g # f /\ Executing(g) /\ run[g].under = "single" /\ fire'[g].rs = fire[g].rs
    BY Zenon, <1>1, <1>3
  <2>2. fire[g].rs \in gate
    BY Zenon, <1>2, <2>1
  <2>3. run[f].under = "single" => fire[g].rs # fire[f].rs
    BY Zenon, <1>2, <2>1 DEF SingleIsExclusive
  <2> QED BY Zenon, <2>1, <2>2, <2>3 DEF Opens
<1>4. SingleIsExclusive'
  BY Zenon, <1>1, <1>2 DEF SingleIsExclusive
<1> QED BY Zenon, <1>3, <1>4 DEF GateInv

\* A restart run that ends clears the cancel function only if it is its own.
LEMMA RestartEnds ==
  ASSUME EngineInv, NEW f \in Firings, Executing(f), OnlyRun(f), ~Executing(f)',
         \A g \in Firings : fire'[g].rs = fire[g].rs,
         newest' = newest, cancelled' = cancelled,
         IF run[f].under = "restart" THEN ClearsActive(f) ELSE UNCHANGED active
  PROVE  RestartInv' /\ active' \in [Objects -> Firings \cup {None}]
<1>1. \A g \in Firings :
        Executing(g)' => g # f /\ Executing(g) /\ run'[g] = run[g] /\ fire'[g].rs = fire[g].rs
  BY Zenon DEF OnlyRun, Executing
<1>2. /\ \A g \in Firings :
           Executing(g) /\ run[g].under = "restart" => g \in cancelled \/ active[fire[g].rs] = g
      /\ \A o \in Objects : active[o] # None => active[o] = newest[o]
      /\ active \in [Objects -> Firings \cup {None}]
  BY Zenon DEF EngineInv, RestartInv, EngineType
<1>3. CASE active' = active
  BY Zenon, <1>1, <1>2, <1>3 DEF RestartInv
<1>4. CASE newest[fire[f].rs] = f /\ active' = [active EXCEPT ![fire[f].rs] = None]
  <2>1. fire[f].rs \in Objects
    BY Zenon, Known DEF EngineInv, StageInv, Stage
  <2>2. /\ active' \in [Objects -> Firings \cup {None}] /\ active'[fire[f].rs] = None
        /\ \A o \in Objects : o # fire[f].rs => active'[o] = active[o]
    BY Zenon, <1>2, <1>4, <2>1
  <2>3. ASSUME NEW g \in Firings, Executing(g)', run'[g].under = "restart"
        PROVE  g \in cancelled' \/ active'[fire'[g].rs] = g
    <3>1. g # f /\ Executing(g) /\ run[g].under = "restart" /\ fire'[g].rs = fire[g].rs
      BY Zenon, <1>1, <2>3
    <3>2. fire[g].rs \in Objects /\ g # None
      BY Zenon, <3>1, Known, AutomationAssumption DEF EngineInv, StageInv, Stage
    <3>3. CASE fire[g].rs = fire[f].rs
      BY Zenon, <1>2, <1>4, <3>1, <3>2, <3>3
    <3>4. CASE fire[g].rs # fire[f].rs
      BY Zenon, <1>2, <2>2, <3>1, <3>2, <3>4
    <3> QED BY Zenon, <3>3, <3>4
  <2>4. \A o \in Objects : active'[o] # None => active'[o] = newest'[o]
    BY Zenon, <1>2, <2>2
  <2> QED BY Zenon, <2>2, <2>3, <2>4 DEF RestartInv
<1> QED BY Zenon, <1>3, <1>4 DEF ClearsActive

\* The goroutine of the run is uncounted, unless it is the pump's.
LEMMA EndCounted ==
  ASSUME EngineInv, NEW f \in Firings, Executing(f), OnlyRun(f), ~Executing(f)',
         \/ /\ run[f].under \in ByGoroutine /\ Only(f) /\ fire'[f].at \in {"idle", "end"}
            /\ inFlight' = inFlight - 1
         \/ run[f].under \in {"restart", "parallel"} /\ fire' = fire /\ inFlight' = inFlight - 1
         \/ run[f].under \in ByPump /\ fire' = fire /\ inFlight' = inFlight,
         OfPumps' = OfPumps
  PROVE  CountStep
<1>1. Stage(f)
  BY Zenon DEF EngineInv, StageInv
<1>2. \A g \in Firings : g # f => (Executing(g)' <=> Executing(g)) /\ run'[g] = run[g]
  BY Zenon DEF OnlyRun, Executing
<1>3. ASSUME run[f].under \notin {"restart", "parallel"}
      PROVE  OfRuns' = OfRuns
  BY Zenon, <1>2, <1>3 DEF OfRuns
<1>4. CASE /\ run[f].under \in ByGoroutine /\ Only(f) /\ fire'[f].at \in {"idle", "end"}
           /\ inFlight' = inFlight - 1
  <2>1. OfRuns' = OfRuns
    <3>1. run[f].under \notin {"restart", "parallel"}
      BY <1>4 DEF ByGoroutine
    <3> QED BY Zenon, <1>3, <3>1
  <2>2. fire[f].at \notin {"idle", "end"}
    <3>1. fire[f].at = "run"
      BY Zenon, <1>1, <1>4 DEF Stage
    <3> QED BY <3>1
  <2>3. f \in OfFirings /\ OfFirings' = OfFirings \ {f}
    BY Zenon, <1>4, <2>2, FiringCounted
  <2> QED BY Zenon, <1>4, <2>1, <2>3, FiringUncounted
<1>5. CASE run[f].under \in {"restart", "parallel"} /\ fire' = fire /\ inFlight' = inFlight - 1
  <2>1. f \in OfRuns /\ OfRuns' = OfRuns \ {f}
    BY Zenon, <1>2, <1>5 DEF OfRuns
  <2>2. OfFirings' = OfFirings
    BY Zenon, <1>5 DEF OfFirings
  <2> QED BY Zenon, <1>5, <2>1, <2>2 DEF CountStep, Ended
<1>6. CASE run[f].under \in ByPump /\ fire' = fire /\ inFlight' = inFlight
  <2>1. run[f].under \notin {"restart", "parallel"}
    BY <1>6 DEF ByPump
  <2>2. OfFirings' = OfFirings
    BY Zenon, <1>6 DEF OfFirings
  <2> QED BY Zenon, <1>3, <1>6, <2>1, <2>2, CountStill
<1> QED BY Zenon, <1>4, <1>5, <1>6

LEMMA RunFinishKeeps ==
  ASSUME EngineInv, ConfigInv', NEW f \in Firings, RunFinish(f)
  PROVE  EngineInv' /\ CountStep
<1> DEFINE r == fire[f].rs
<1> DEFINE u == run[f].under
<1>1. /\ mode' = mode /\ current' = current /\ newest' = newest /\ cancelled' = cancelled
      /\ queue' = queue /\ items' = items /\ closed' = closed
      /\ callerDone' = callerDone /\ stopped' = stopped
  BY Zenon DEF RunFinish, configVars
<1>2. /\ Executing(f) /\ RunEnds(f)
      /\ gate' = IF Opens(run[f].under) THEN gate \ {fire[f].rs} ELSE gate
      /\ IF run[f].under = "restart" THEN ClearsActive(f) ELSE UNCHANGED active
  BY Zenon DEF RunFinish, Executing, RunEnds
<1>3. /\ IF u \in ByGoroutine THEN Ends(f) ELSE fire' = fire
      /\ IF u \in ByPump
           THEN PumpTo(r, IF u = "pump" THEN "recv" ELSE "drain") /\ inFlight' = inFlight
           ELSE inFlight' = inFlight - 1 /\ pump' = pump
  BY Zenon DEF RunFinish, ByGoroutine, ByPump
<1>4. EngineType /\ Stage(f) /\ Later
  BY Zenon, <1>1 DEF EngineInv, StageInv, Later
<1>5. /\ r # 0 /\ u # "none" /\ (fire[f].at = "run" <=> u \in ByGoroutine) /\ r <= Len(mode)
  BY Zenon, <1>2, <1>4 DEF Stage
<1>6. r \in Objects
  BY Zenon, <1>5, Known
<1>7. /\ run' \in [Firings -> RunRec] /\ OnlyRun(f) /\ run'[f].at = "done"
      /\ ~Executing(f)'
  BY Zenon, <1>2, <1>4, RunEnded
<1>8. u \in {"restart", "parallel"} \/ u \in ByGoroutine \/ u \in ByPump
  <2>1. run[f] \in RunRec
    BY Zenon, <1>4 DEF EngineType
  <2>2. u \in Unders
    BY Zenon, <2>1 DEF RunRec
  <2> QED BY <1>5, <2>2 DEF Unders, ByGoroutine, ByPump
<1>9. /\ u \in ByGoroutine => u \notin ByPump
      /\ u \in {"restart", "parallel"} => u \notin ByPump /\ u \notin ByGoroutine
  BY DEF ByGoroutine, ByPump
<1>10. /\ fire' \in [Firings -> FireRec] /\ Only(f) /\ fire'[f].rs = r
       /\ fire'[f].at = IF u \in ByGoroutine THEN "end" ELSE fire[f].at
  <2>1. CASE u \in ByGoroutine
    BY Zenon, <1>3, <1>4, <2>1, FireEnds
  <2>2. CASE u \notin ByGoroutine
    BY Zenon, <1>3, <1>4, <2>2 DEF EngineType, Only
  <2> QED BY Zenon, <2>1, <2>2
<1>11. /\ pump' \in [Objects -> PumpRec] /\ OnlyPump(r)
       /\ pump'[r].q = pump[r].q /\ pump'[r].ctx = pump[r].ctx
       /\ IF u \in ByPump
            THEN pump[r].at = "run" /\ pump'[r].at = IF u = "pump" THEN "recv" ELSE "drain"
            ELSE pump' = pump
  <2>1. CASE u \in ByPump
    <3>1. (IF u = "pump" THEN "recv" ELSE "drain") \in PumpAts
      BY DEF PumpAts
    <3>2. pump[r].at = "run"
      BY Zenon, <1>2, <2>1 DEF EngineInv, PumpInv
    <3> QED BY Zenon, <1>3, <1>4, <1>6, <2>1, <3>1, <3>2, PumpAt
  <2>2. CASE u \notin ByPump
    BY Zenon, <1>3, <1>4, <2>2 DEF EngineType, OnlyPump
  <2> QED BY Zenon, <2>1, <2>2
<1>12. \A g \in Firings : fire'[g].rs = fire[g].rs
  BY Zenon, <1>10 DEF Only
<1>13. GateInv'
  BY Zenon, <1>2, <1>7, <1>12, GateEnds
<1>14. RestartInv' /\ active' \in [Objects -> Firings \cup {None}]
  BY Zenon, <1>1, <1>2, <1>7, <1>12, RestartEnds
<1>15. CountStep
  <2>1. \A o \in Objects : pump[o].at \in {"none", "exit"} <=> pump'[o].at \in {"none", "exit"}
    <3>1. /\ "run" \notin {"none", "exit"}
          /\ (IF u = "pump" THEN "recv" ELSE "drain") \notin {"none", "exit"}
      OBVIOUS
    <3> QED BY Zenon, <1>11, <3>1 DEF OnlyPump
  <2>2. OfPumps' = OfPumps
    BY Zenon, <2>1, SamePumps
  <2>3. "end" \in {"idle", "end"}
    OBVIOUS
  <2>4. \/ /\ u \in ByGoroutine /\ Only(f) /\ fire'[f].at \in {"idle", "end"}
           /\ inFlight' = inFlight - 1
        \/ u \in {"restart", "parallel"} /\ fire' = fire /\ inFlight' = inFlight - 1
        \/ u \in ByPump /\ fire' = fire /\ inFlight' = inFlight
    BY Zenon, <1>3, <1>8, <1>9, <1>10, <2>3
  <2> QED BY Zenon, <1>2, <1>7, <2>2, <2>4, EndCounted
<1> HIDE DEF r, u
<1>16. EngineType'
  BY Zenon, <1>1, <1>4, <1>7, <1>10, <1>11, <1>14 DEF EngineType
<1>17. StageInv'
  <2>1. fire[f].at \notin {"idle", "lookup", "admit", "send"}
    <3>1. "executing" # "none"
      OBVIOUS
    <3> QED BY Zenon, <1>2, <1>4, <3>1 DEF Stage, Executing
  <2>2. fire'[f].at \notin {"idle", "lookup", "admit", "send"} /\ fire'[f].at # "run"
    <3>1. "end" \notin {"idle", "lookup", "admit", "send"} /\ "end" # "run"
      OBVIOUS
    <3> QED BY Zenon, <1>5, <1>10, <2>1, <3>1
  <2>3. fire'[f].at # "send"
    BY <2>2
  <2>4. Stage(f)'
    BY Zenon, <1>1, <1>5, <1>7, <1>10, <2>2, <2>3 DEF Stage
  <2> QED BY Zenon, <1>1, <1>7, <1>10, <2>4, StageFrame DEF EngineInv
<1>18. QueueInv'
  <2>1. run[f].at # "none"
    BY <1>2 DEF Executing
  <2>2. \A g \in Firings : run[g].at = "none" => fire'[g] = fire[g] /\ run'[g] = run[g]
    BY Zenon, <1>7, <1>10, <2>1 DEF Only, OnlyRun
  <2> QED BY Zenon, <1>1, <2>2, QueueStill
<1>19. \A g \in Firings :
         Executing(g)' => g # f /\ Executing(g) /\ run'[g] = run[g] /\ fire'[g].rs = fire[g].rs
  BY Zenon, <1>7, <1>12 DEF OnlyRun, Executing
<1>20. PumpInv'
  <2>1. /\ \A g \in Firings :
             Executing(g) /\ run[g].under \in ByPump => pump[fire[g].rs].at = "run"
        /\ \A g, h \in Firings :
             /\ Executing(g) /\ run[g].under \in ByPump
             /\ Executing(h) /\ run[h].under \in ByPump
             /\ fire[g].rs = fire[h].rs
             => g = h
    BY Zenon DEF EngineInv, PumpInv
  <2>2. ASSUME NEW g \in Firings, Executing(g)', run'[g].under \in ByPump
        PROVE  pump'[fire'[g].rs].at = "run"
    <3>1. g # f /\ Executing(g) /\ run[g].under \in ByPump /\ fire'[g].rs = fire[g].rs
      BY Zenon, <1>19, <2>2
    <3>2. fire[g].rs \in Objects /\ pump[fire[g].rs].at = "run"
      BY Zenon, <2>1, <3>1, Known DEF EngineInv, StageInv, Stage
    <3>3. u \in ByPump => fire[g].rs # r
      BY Zenon, <1>2, <2>1, <3>1 DEF u, r
    <3> QED BY Zenon, <1>11, <3>1, <3>2, <3>3 DEF OnlyPump
  <2>3. \A g, h \in Firings :
          /\ Executing(g)' /\ run'[g].under \in ByPump
          /\ Executing(h)' /\ run'[h].under \in ByPump
          /\ fire'[g].rs = fire'[h].rs
          => g = h
    BY Zenon, <1>19, <2>1
  <2> QED BY Zenon, <2>2, <2>3 DEF PumpInv
<1>21. \A o \in Objects : pump'[o] = pump[o] \/ (o = r /\ pump[r].at = "run" /\ u \in ByPump)
  <2>1. (u \in ByPump => pump[r].at = "run") /\ (u \notin ByPump => pump' = pump)
    BY Zenon, <1>11
  <2>2. OnlyPump(r)
    BY Zenon, <1>11
  <2> QED BY Zenon, <2>1, <2>2 DEF OnlyPump
<1>22. Fresh'
  <2>1. "run" # "none"
    OBVIOUS
  <2>2. \A o \in Objects : Len(mode) < o => pump'[o] = pump[o]
    BY Zenon, <1>21, <2>1 DEF EngineInv, Fresh
  <2> QED BY Zenon, <1>1, <2>2 DEF EngineInv, Fresh
<1>23. ServeInv'
  <2> SUFFICES ASSUME NEW c, current = c, c # 0
               PROVE  Serve(c)'
    BY Zenon, <1>1 DEF ServeInv
  <2>1. Channel(c) /\ Receiver(c) /\ (\A g \in Firings : Sender(g, c)) /\ c \in Objects
    BY Zenon, Known DEF EngineInv, ServeInv, Serve
  <2>2. pump'[c].ctx = pump[c].ctx
    BY Zenon, <1>11, <2>1 DEF OnlyPump
  <2>3. Done(pump[c].ctx) => Done(pump[c].ctx)'
    BY Zenon, <1>4, <2>2, DoneStays
  <2>4. ASSUME NEW g \in Firings
        PROVE  Sender(g, c)'
    <3>1. CASE g = f
      <4>1. Sender(f, c)
        BY Zenon, <2>1
      <4>2. fire'[f].at \in {"send", "pump"} => fire[f].at \in {"send", "pump"}
        <5>1. "end" \notin {"send", "pump"}
          OBVIOUS
        <5> QED BY Zenon, <1>10, <5>1
      <4>3. fire'[f].at # "send"
        <5>1. "executing" # "none" /\ "send" \in {"idle", "lookup", "admit", "send"} /\ "end" # "send"
          OBVIOUS
        <5> QED BY Zenon, <1>2, <1>4, <1>10, <5>1 DEF Stage, Executing
      <4> QED BY Zenon, <1>1, <1>7, <1>12, <3>1, <4>1, <4>2, <4>3 DEF Sender
    <3>2. CASE g # f
      BY Zenon, <1>1, <1>4, <1>7, <1>10, <2>1, <2>2, <3>2, SenderStill DEF Only, OnlyRun
    <3> QED BY Zenon, <3>1, <3>2
  <2>5. \A g \in Firings : fire[g].at = "pump" => fire'[g].at = "pump" /\ fire'[g].rs = fire[g].rs
    <3>1. "pump" # "run"
      OBVIOUS
    <3> QED BY Zenon, <1>5, <1>10, <1>12, <3>1 DEF Only
  <2>6. CASE pump'[c] = pump[c]
    <3>1. Channel(c)' /\ Receiver(c)'
      BY Zenon, <1>1, <1>4, <2>1, <2>5, <2>6, ChannelStill, ReceiverStill
    <3> QED BY Zenon, <2>4, <3>1 DEF Serve
  <2>7. CASE c = r /\ pump[r].at = "run" /\ u \in ByPump
    <3>1. "run" # "none" /\ "run" \in {"recv", "run", "drain"}
      OBVIOUS
    <3>2. queue[c] # 0 /\ pump'[c].q = 1
      BY Zenon, <1>11, <2>1, <2>7, <3>1 DEF Channel, Receiver
    <3>3. Channel(c)'
      BY Zenon, <1>1, <2>1, <3>2 DEF Channel
    <3>4. u = "drain" => Done(pump[c].ctx)
      BY Zenon, <1>2, <2>1, <2>7 DEF Sender, u, r
    <3>5. pump'[c].at # "none" /\ (pump'[c].at \in {"drain", "exit"} => u = "drain")
      <4>1. pump'[c].at = IF u = "pump" THEN "recv" ELSE "drain"
        BY Zenon, <1>11, <2>7
      <4> QED BY <2>7, <4>1 DEF ByPump
    <3>6. Receiver(c)'
      BY Zenon, <2>3, <3>2, <3>4, <3>5 DEF Receiver
    <3> QED BY Zenon, <2>4, <3>3, <3>6 DEF Serve
  <2> QED BY Zenon, <1>21, <2>1, <2>6, <2>7
<1> QED BY Zenon, <1>13, <1>14, <1>15, <1>16, <1>17, <1>18, <1>20, <1>22, <1>23 DEF EngineInv

-----------------------------------------------------------------------------
(* Reload, under the runs.                                                 *)

LEMMA ReloadRemovedKeeps ==
  ASSUME EngineInv, ConfigInv', ReloadRemoved
  PROVE  EngineInv' /\ CountStep
<1>1. /\ mode' = mode /\ current' = 0 /\ gate' = gate /\ newest' = newest
      /\ items' = items /\ pump' = pump /\ fire' = fire /\ run' = run /\ inFlight' = inFlight
  BY Zenon DEF ReloadRemoved, runVars, engineVars
<1>2. /\ active' = [active EXCEPT ![current] = None]
      /\ queue' = [queue EXCEPT ![current] = 0]
      /\ cancelled \subseteq cancelled'
      /\ active[current] # None => active[current] \in cancelled'
      /\ closed' \subseteq closed \cup {current}
  BY Zenon DEF ReloadRemoved
<1>3. current # 0 /\ current \in Objects /\ current <= Len(mode) /\ Len(mode) \in Nat
  <2>1. current # 0
    BY Zenon DEF ReloadRemoved, EngineInv, ConfigInv, ReloadCoherent
  <2>2. current \in 0..Len(mode) /\ Len(mode) \in Nat
    BY Zenon, Known DEF EngineInv, ConfigInv
  <2>3. current <= Len(mode)
    BY <2>2
  <2> QED BY Zenon, <2>1, <2>2, <2>3, Known
<1>4. EngineType /\ RestartInv /\ Fresh
  BY Zenon DEF EngineInv
<1>5. /\ active' \in [Objects -> Firings \cup {None}] /\ active'[current] = None
      /\ \A o \in Objects : o # current => active'[o] = active[o]
  BY Zenon, <1>2, <1>3, <1>4 DEF EngineType
<1>6. /\ queue' \in [Objects -> 0..2]
      /\ \A o \in Objects : o # current => queue'[o] = queue[o]
  <2>1. 0 \in 0..2
    OBVIOUS
  <2> QED BY Zenon, <1>2, <1>3, <1>4, <2>1 DEF EngineType
<1>7. EngineType'
  BY Zenon, <1>1, <1>4, <1>5, <1>6 DEF EngineType
<1>8. StageInv' /\ PumpInv' /\ QueueInv'
  <2>1. StageInv'
    BY Zenon, <1>1 DEF EngineInv, StageInv, Stage, Executing
  <2>2. PumpInv'
    BY Zenon, <1>1 DEF EngineInv, PumpInv, Executing
  <2> QED BY Zenon, <1>1, <2>1, <2>2, QueueStill
<1>9. GateInv'
  BY Zenon, <1>1 DEF EngineInv, GateInv, SingleIsExclusive, Executing
<1>10. RestartInv'
  <2>1. ASSUME NEW g \in Firings, Executing(g)', run'[g].under = "restart"
        PROVE  g \in cancelled' \/ active'[fire'[g].rs] = g
    <3>1. Executing(g) /\ run[g].under = "restart" /\ fire'[g].rs = fire[g].rs
      BY Zenon, <1>1, <2>1 DEF Executing
    <3>2. g \in cancelled \/ active[fire[g].rs] = g
      BY Zenon, <1>4, <3>1 DEF RestartInv
    <3>3. fire[g].rs \in Objects /\ g # None
      BY Zenon, <3>1, Known, AutomationAssumption DEF EngineInv, StageInv, Stage
    <3> QED BY Zenon, <1>2, <1>5, <3>1, <3>2, <3>3
  <2>2. \A o \in Objects : active'[o] # None => active'[o] = newest'[o]
    BY Zenon, <1>1, <1>4, <1>5 DEF RestartInv
  <2> QED BY Zenon, <2>1, <2>2 DEF RestartInv
<1>11. CountStep
  <2>1. OfFirings' = OfFirings /\ OfRuns' = OfRuns /\ OfPumps' = OfPumps
    BY Zenon, <1>1 DEF OfFirings, OfRuns, OfPumps, Executing
  <2> QED BY Zenon, <1>1, <2>1, CountStill
<1>12. Fresh'
  <2>1. \A o \in Objects : Len(mode) < o => o # current
    BY <1>3 DEF Objects
  <2> QED BY Zenon, <1>1, <1>2, <1>4, <1>6, <2>1 DEF Fresh
<1>13. ServeInv'
  BY Zenon, <1>1 DEF ServeInv
<1> QED BY Zenon, <1>7, <1>8, <1>9, <1>10, <1>11, <1>12, <1>13 DEF EngineInv

\* A compilation concerns no run and no queue.
LEMMA CompilesKeeps ==
  ASSUME EngineInv, ConfigInv', NEW m \in Modes, Compiles(m),
         UNCHANGED <<gate, active, newest, cancelled, queue, items, closed, pump, fire, run,
                     callerDone, inFlight, stopped>>,
         current' = current \/ current' = automations'
  PROVE  EngineInv' /\ CountStep
<1>1. /\ gate' = gate /\ active' = active /\ newest' = newest /\ cancelled' = cancelled
      /\ queue' = queue /\ items' = items /\ closed' = closed /\ pump' = pump
      /\ fire' = fire /\ run' = run /\ inFlight' = inFlight
  BY Zenon
<1>2. /\ Len(mode') = Len(mode) + 1 /\ Len(mode) \in Nat /\ automations' = Len(mode) + 1
      /\ Len(mode) + 1 \in Objects
      /\ \A o \in Objects : Len(mode') < o => Len(mode) < o
  BY Zenon, Compiled DEF EngineInv
<1>3. EngineType'
  BY Zenon, <1>1 DEF EngineInv, EngineType
<1>4. StageInv'
  <2> SUFFICES ASSUME NEW g \in Firings
               PROVE  Stage(g)'
    BY Zenon DEF StageInv
  <2>1. Stage(g) /\ fire[g].rs \in Nat
    BY Zenon, Known DEF EngineInv, StageInv
  <2>2. \A a, n \in Nat : a <= n => a <= n + 1
    OBVIOUS
  <2>3. fire'[g].rs <= Len(mode')
    BY Zenon, <1>1, <1>2, <2>1, <2>2 DEF Stage
  <2> QED BY Zenon, <1>1, <2>1, <2>3 DEF Stage, Executing
<1>5. GateInv' /\ RestartInv' /\ PumpInv'
  BY Zenon, <1>1, RunsStill
<1>6. QueueInv'
  BY Zenon, <1>1, QueueStill
<1>7. CountStep
  <2>1. OfFirings' = OfFirings /\ OfRuns' = OfRuns /\ OfPumps' = OfPumps
    BY Zenon, <1>1 DEF OfFirings, OfRuns, OfPumps, Executing
  <2> QED BY Zenon, <1>1, <2>1, CountStill
<1>8. Fresh'
  BY Zenon, <1>1, <1>2 DEF EngineInv, Fresh
<1>9. ServeInv'
  <2>1. CASE current' = current
    <3>1. ASSUME NEW c, Serve(c)
          PROVE  Serve(c)'
      <4>1. Done(pump[c].ctx) => Done(pump[c].ctx)'
        BY Zenon, <1>1 DEF Done
      <4>2. Channel(c)' /\ Receiver(c)'
        BY Zenon, <1>1, <3>1, <4>1 DEF Serve, Channel, Receiver
      <4>3. \A g \in Firings : Sender(g, c)'
        BY Zenon, <1>1, <3>1, <4>1 DEF Serve, Sender, Executing
      <4> QED BY Zenon, <4>2, <4>3 DEF Serve
    <3> QED BY Zenon, <2>1, <3>1 DEF EngineInv, ServeInv
  <2>2. CASE current' = automations'
    <3>1. PICK c \in Objects : c = Len(mode) + 1 /\ current' = c
      BY Zenon, <1>2, <2>2
    <3>2. Len(mode) < c /\ \A n \in Nat : n <= Len(mode) => n # c
      BY <1>2, <3>1
    <3>3. /\ c \notin closed /\ queue[c] = 0 /\ pump[c].at = "none"
          /\ items[c][1] = <<>> /\ items[c][2] = <<>>
      BY Zenon, <3>2 DEF EngineInv, Fresh
    <3>4. /\ 0 \in 0..1 /\ "none" \notin {"recv", "run", "drain"}
          /\ "none" \notin {"drain", "exit"}
      OBVIOUS
    <3>5. Channel(c)' /\ Receiver(c)'
      BY Zenon, <1>1, <3>3, <3>4 DEF Channel, Receiver
    <3>6. \A g \in Firings : fire'[g].rs # c
      BY Zenon, <1>1, <3>2, Known
    <3>7. \A g \in Firings : Sender(g, c)'
      BY Zenon, <3>6 DEF Sender
    <3>8. Serve(c)'
      BY Zenon, <3>5, <3>7 DEF Serve
    <3> QED BY Zenon, <3>1, <3>8 DEF ServeInv
  <2> QED BY Zenon, <2>1, <2>2
<1> QED BY Zenon, <1>3, <1>4, <1>5, <1>6, <1>7, <1>8, <1>9 DEF EngineInv

-----------------------------------------------------------------------------
LEMMA DispatchKeeps ==
  ASSUME EngineInv, ConfigInv', Dispatch
  PROVE  EngineInv' /\ CountStep
<1>1. /\ UNCHANGED <<mode, current, gate, active, newest, cancelled, queue, items, closed,
                     pump, run>>
      /\ callerDone' = callerDone /\ stopped' = stopped
  BY Zenon DEF Dispatch, configVars, modeVars, queueVars, runVars
<1>2. Later
  BY Zenon, <1>1 DEF Later
<1>3. PICK S \in SUBSET {f \in Firings \ Manual : fire[f].at = "idle"} :
        /\ fire' = [f \in Firings |-> IF f \in S THEN [fire[f] EXCEPT !.at = "lookup"]
                                                ELSE fire[f]]
        /\ inFlight' = inFlight + Cardinality(S)
  BY Zenon DEF Dispatch
<1>4. S \in SUBSET Firings /\ \A f \in S : fire[f].at = "idle"
  BY Zenon, <1>3
<1>5. \A f \in Firings :
        /\ fire[f] \in FireRec /\ [fire[f] EXCEPT !.at = "lookup"] \in FireRec
        /\ [fire[f] EXCEPT !.at = "lookup"].at = "lookup"
        /\ [fire[f] EXCEPT !.at = "lookup"].rs = fire[f].rs
  <2> SUFFICES ASSUME NEW f \in Firings
               PROVE  /\ fire[f] \in FireRec /\ [fire[f] EXCEPT !.at = "lookup"] \in FireRec
                      /\ [fire[f] EXCEPT !.at = "lookup"].at = "lookup"
                      /\ [fire[f] EXCEPT !.at = "lookup"].rs = fire[f].rs
    BY Zenon
  <2>1. fire[f] \in FireRec
    BY Zenon DEF EngineInv, EngineType
  <2>2. "lookup" \in FireAts
    BY DEF FireAts
  <2> QED BY Zenon, <2>1, <2>2 DEF FireRec
<1>6. /\ fire' \in [Firings -> FireRec]
      /\ \A f \in S : fire'[f].at = "lookup" /\ fire'[f].rs = fire[f].rs
      /\ \A f \in Firings \ S : fire'[f] = fire[f]
  BY Zenon, <1>3, <1>4, <1>5
<1>7. EngineInv' /\ Launched(S)
  BY Zenon, <1>1, <1>2, <1>4, <1>6, LaunchKeeps
<1> QED BY Zenon, <1>3, <1>4, <1>7 DEF CountStep

LEMMA TriggerKeeps ==
  ASSUME EngineInv, ConfigInv', NEW f \in Firings, Trigger(f)
  PROVE  EngineInv' /\ CountStep
<1>1. /\ UNCHANGED <<mode, current, gate, active, newest, cancelled, queue, items, closed,
                     pump, run>>
      /\ callerDone' = callerDone /\ stopped' = stopped
  BY Zenon DEF Trigger, configVars, modeVars, queueVars, runVars
<1>2. Later
  BY Zenon, <1>1 DEF Later
<1>3. /\ fire[f].at = "idle" /\ fire' = [fire EXCEPT ![f].at = "lookup"]
      /\ inFlight' = inFlight + 1
  BY Zenon DEF Trigger
<1>4. "lookup" \in FireAts
  BY DEF FireAts
<1>5. /\ fire' \in [Firings -> FireRec] /\ Only(f)
      /\ fire'[f].at = "lookup" /\ fire'[f].rs = fire[f].rs
  BY Zenon, <1>3, <1>4, FireAt DEF EngineInv
<1>6. PICK S \in SUBSET Firings : S = {f}
  BY Zenon
<1>7. /\ \A g \in S : fire[g].at = "idle"
      /\ \A g \in S : fire'[g].at = "lookup" /\ fire'[g].rs = fire[g].rs
      /\ \A g \in Firings \ S : fire'[g] = fire[g]
  BY Zenon, <1>3, <1>5, <1>6 DEF Only
<1>8. EngineInv' /\ Launched(S)
  BY ZenonT(40), <1>1, <1>2, <1>5, <1>7, LaunchKeeps
<1> QED BY Zenon, <1>3, <1>6, <1>8 DEF CountStep

LEMMA InitEngine == Init => EngineInv
<1> SUFFICES ASSUME Init
             PROVE  EngineInv
  BY Zenon
<1>1. ConfigInv
  BY Zenon, InitConfig
<1>2. /\ current = 1 /\ gate = {} /\ cancelled = {} /\ closed = {}
      /\ active = [o \in Objects |-> None] /\ newest = [o \in Objects |-> None]
      /\ queue = [o \in Objects |-> 0] /\ items = [o \in Objects |-> <<<<>>, <<>>>>]
      /\ pump = [o \in Objects |-> [at |-> "none", q |-> 0, ctx |-> None]]
      /\ fire = [f \in Firings |-> [at |-> "idle", rs |-> 0, mode |-> None, q |-> 0]]
      /\ run = [f \in Firings |-> [at |-> "none", under |-> "none"]]
  BY Zenon DEF Init
<1>3. /\ [at |-> "none", q |-> 0, ctx |-> None] \in PumpRec
      /\ [at |-> "idle", rs |-> 0, mode |-> None, q |-> 0] \in FireRec
      /\ [at |-> "none", under |-> "none"] \in RunRec
      /\ <<<<>>, <<>>>> \in Seq(Firings) \X Seq(Firings)
      /\ 0 \in 0..2 /\ 0 \in Nat
  <2>1. [at |-> "none", q |-> 0, ctx |-> None] \in PumpRec
    BY DEF PumpRec, PumpAts
  <2>2. [at |-> "idle", rs |-> 0, mode |-> None, q |-> 0] \in FireRec
    BY DEF FireRec, FireAts
  <2>3. [at |-> "none", under |-> "none"] \in RunRec
    BY DEF RunRec, RunAts, Unders
  <2>4. <<<<>>, <<>>>> \in Seq(Firings) \X Seq(Firings)
    <3>1. <<>> \in Seq(Firings)
      OBVIOUS
    <3> QED BY Zenon, <3>1
  <2>5. 0 \in 0..2 /\ 0 \in Nat
    OBVIOUS
  <2> QED BY Zenon, <2>1, <2>2, <2>3, <2>4, <2>5
<1>4. EngineType
  BY Zenon, <1>2, <1>3 DEF EngineType
<1>5. \A o \in Objects :
        /\ pump[o].at = "none" /\ queue[o] = 0 /\ active[o] = None
        /\ items[o][1] = <<>> /\ items[o][2] = <<>> /\ Len(items[o][1]) = 0 /\ Len(items[o][2]) = 0
  <2>1. \A o \in Objects :
          /\ pump[o] = [at |-> "none", q |-> 0, ctx |-> None]
          /\ queue[o] = 0 /\ active[o] = None /\ items[o] = <<<<>>, <<>>>>
    BY Zenon, <1>2
  <2> QED BY <2>1
<1>6. \A f \in Firings : fire[f].at = "idle" /\ fire[f].rs = 0 /\ run[f].at = "none"
  <2>1. \A f \in Firings :
          /\ fire[f] = [at |-> "idle", rs |-> 0, mode |-> None, q |-> 0]
          /\ run[f] = [at |-> "none", under |-> "none"]
    BY Zenon, <1>2
  <2> QED BY <2>1
<1>7. \A f \in Firings : ~Executing(f)
  BY <1>6 DEF Executing
<1>8. StageInv
  <2>1. 0 <= Len(mode)
    <3>1. mode \in Seq(Modes)
      BY Zenon, <1>1 DEF ConfigInv
    <3> QED BY <3>1
  <2>2. /\ "idle" \notin {"admit", "send", "pump", "run"} /\ "idle" # "run" /\ "idle" # "send"
    OBVIOUS
  <2> QED BY Zenon, <1>6, <1>7, <2>1, <2>2 DEF StageInv, Stage
<1>9. QueueInv
  <2>1. \A o \in Objects, q \in 1..2 : 1..Len(items[o][q]) = {}
    BY <1>5
  <2> QED BY Zenon, <2>1 DEF QueueInv, WaitInv, OnceInv
<1>10. GateInv /\ RestartInv /\ PumpInv
  BY Zenon, <1>5, <1>7 DEF GateInv, SingleIsExclusive, RestartInv, PumpInv
<1>11. Fresh
  BY Zenon, <1>2, <1>5 DEF Fresh
<1>12. ServeInv
  <2>1. 1 \in Objects /\ 0 # 1 /\ 0 \in 0..1
    BY AutomationAssumption DEF Objects
  <2>2. "none" \notin {"recv", "run", "drain"} /\ "none" \notin {"drain", "exit"}
    OBVIOUS
  <2>3. Channel(1) /\ Receiver(1)
    BY Zenon, <1>2, <1>5, <2>1, <2>2 DEF Channel, Receiver
  <2>4. \A f \in Firings : Sender(f, 1)
    BY Zenon, <1>6, <2>1 DEF Sender
  <2> QED BY Zenon, <1>2, <2>3, <2>4 DEF ServeInv, Serve
<1> QED BY Zenon, <1>1, <1>4, <1>8, <1>9, <1>10, <1>11, <1>12 DEF EngineInv

LEMMA NextEngine ==
  ASSUME EngineInv, [Next]_vars
  PROVE  EngineInv' /\ CountStep
<1>1. ConfigInv'
  BY Zenon, NextConfig DEF EngineInv
<1>2. CASE Dispatch
  BY Zenon, <1>1, <1>2, DispatchKeeps
<1>3. ASSUME NEW f \in Firings, Trigger(f)
      PROVE  EngineInv' /\ CountStep
  BY Zenon, <1>1, <1>3, TriggerKeeps
<1>4. ASSUME NEW f \in Firings, CallerReturns(f)
      PROVE  EngineInv' /\ CountStep
  <2>1. /\ UNCHANGED <<mode, current, gate, active, newest, cancelled, queue, items, closed,
                       pump, run, fire, inFlight>>
        /\ callerDone' = callerDone \cup {f} /\ stopped' = stopped
    BY Zenon, <1>4 DEF CallerReturns, configVars, modeVars, queueVars, runVars
  <2>2. Later
    BY Zenon, <2>1 DEF Later
  <2> QED BY Zenon, <1>1, <2>1, <2>2, AroundKeeps
<1>5. ASSUME NEW f \in Firings, Goroutine(f)
      PROVE  EngineInv' /\ CountStep
  BY Zenon, <1>1, <1>5, LookupKeeps, FireSingleKeeps, FireRestartKeeps, FireParallelKeeps,
     EnsureQueueKeeps, EnqueueKeeps, StartPumpOnceKeeps, RunFinishKeeps DEF Goroutine
<1>6. ASSUME NEW r \in Objects, Pump(r)
      PROVE  EngineInv' /\ CountStep
  BY Zenon, <1>1, <1>6, PumpStartKeeps, PumpTakesKeeps, PumpStoppingKeeps, PumpExitKeeps DEF Pump
<1>7. CASE ReloadRemoved
  BY Zenon, <1>1, <1>7, ReloadRemovedKeeps
<1>8. CASE ReloadUnchanged
  <2>1. /\ automations # 0 /\ Compiles(mode[automations]) /\ current' = current
        /\ UNCHANGED <<gate, active, newest, cancelled, queue, items, closed, pump, fire, run,
                       callerDone, inFlight, stopped>>
    BY Zenon, <1>8 DEF ReloadUnchanged, modeVars, queueVars, runVars, engineVars
  <2>2. mode[automations] \in Modes
    <3>1. mode \in Seq(Modes) /\ automations \in 0..Len(mode)
      BY Zenon DEF EngineInv, ConfigInv
    <3> QED BY <2>1, <3>1
  <2> QED BY Zenon, <1>1, <2>1, <2>2, CompilesKeeps
<1>9. ASSUME NEW m \in Modes, ReloadChanged(m)
      PROVE  EngineInv' /\ CountStep
  <2>1. /\ Compiles(m) /\ current' = current
        /\ UNCHANGED <<gate, active, newest, cancelled, queue, items, closed, pump, fire, run,
                       callerDone, inFlight, stopped>>
    BY Zenon, <1>9 DEF ReloadChanged, modeVars, queueVars, runVars, engineVars
  <2> QED BY Zenon, <1>1, <2>1, CompilesKeeps
<1>10. ASSUME NEW m \in Modes, ReloadAdded(m)
       PROVE  EngineInv' /\ CountStep
  <2>1. /\ Compiles(m) /\ current' = automations'
        /\ UNCHANGED <<gate, active, newest, cancelled, queue, items, closed, pump, fire, run,
                       callerDone, inFlight, stopped>>
    BY Zenon, <1>10 DEF ReloadAdded, modeVars, queueVars, runVars, engineVars
  <2> QED BY Zenon, <1>1, <2>1, CompilesKeeps
<1>11. ASSUME NEW on \in BOOLEAN, SetEnabled(on)
       PROVE  EngineInv' /\ CountStep
  <2>1. /\ UNCHANGED <<mode, current, gate, active, newest, cancelled, queue, items, closed,
                       pump, run, fire, inFlight>>
        /\ callerDone' = callerDone /\ stopped' = stopped
    BY Zenon, <1>11 DEF SetEnabled, modeVars, queueVars, runVars, engineVars
  <2>2. Later
    BY Zenon, <2>1 DEF Later
  <2> QED BY Zenon, <1>1, <2>1, <2>2, AroundKeeps
<1>12. CASE Stop
  <2>1. /\ UNCHANGED <<mode, current, gate, active, newest, cancelled, queue, items, closed,
                       pump, run, fire, inFlight>>
        /\ callerDone' = callerDone /\ stopped'
    BY Zenon, <1>12 DEF Stop, configVars, modeVars, queueVars, runVars
  <2>2. Later
    BY Zenon, <2>1 DEF Later
  <2> QED BY Zenon, <1>1, <2>1, <2>2, AroundKeeps
<1>13. CASE UNCHANGED vars
  <2>1. /\ UNCHANGED <<mode, current, gate, active, newest, cancelled, queue, items, closed,
                       pump, run, fire, inFlight>>
        /\ callerDone' = callerDone /\ stopped' = stopped
    BY Zenon, <1>13 DEF vars, configVars, modeVars, queueVars, runVars, engineVars
  <2>2. Later
    BY Zenon, <2>1 DEF Later
  <2> QED BY Zenon, <1>1, <2>1, <2>2, AroundKeeps
<1> QED BY Zenon, <1>2, <1>3, <1>4, <1>5, <1>6, <1>7, <1>8, <1>9, <1>10, <1>11, <1>12, <1>13
    DEF Next

-----------------------------------------------------------------------------
LEMMA EngineCorrect == Spec => []EngineInv
<1>1. Init => EngineInv
  BY InitEngine
<1>2. EngineInv /\ [Next]_vars => EngineInv'
  BY Zenon, NextEngine
<1> QED BY <1>1, <1>2, PTL DEF Spec

\* Runs admitted in single mode on one runState never overlap: the running flag
\* that fire tests and sets under the lock is that of the run under way, and a
\* skipped firing does not clear it.
THEOREM SingleCorrect == Spec => []SingleIsExclusive
<1>1. EngineInv => SingleIsExclusive
  BY Zenon DEF EngineInv, GateInv
<1> QED BY <1>1, EngineCorrect, PTL

\* Of the restart runs of one runState that still execute, all but the newest are
\* cancelled: activeCancel cancels the newest run or is nil, whichever of the runs
\* ends first, and Reload cancels a run before it forgets it.
THEOREM RestartCorrect == Spec => []RestartKeepsNewest
<1>1. EngineInv => RestartKeepsNewest
  <2> SUFFICES ASSUME EngineInv, NEW f \in Firings, run[f].under = "restart", Executing(f),
                      newest[fire[f].rs] # f
               PROVE  f \in cancelled
    BY Zenon DEF RestartKeepsNewest
  <2>1. f \in cancelled \/ active[fire[f].rs] = f
    BY Zenon DEF EngineInv, RestartInv
  <2>2. fire[f].rs \in Objects /\ f # None
    BY Zenon, Known, AutomationAssumption DEF EngineInv, StageInv, Stage
  <2> QED BY Zenon, <2>1, <2>2 DEF EngineInv, RestartInv
<1> QED BY <1>1, EngineCorrect, PTL

\* A match in the queue of a configured automation is waited for: its one channel
\* is open while the automation is configured, and the pump that startPumpOnce
\* starts receives from it until the context it was started with is done.
THEOREM QueueCorrect == Spec => []QueueServed
<1>1. EngineInv => QueueServed
  <2> SUFFICES ASSUME EngineInv, NEW q \in 1..2, current # 0, items[current][q] # <<>>
               PROVE  \/ \E f \in Firings : fire[f].at = "pump" /\ fire[f].rs = current
                      \/ pump[current].at = "start" /\ queue[current] = q
                      \/ pump[current].at \in {"recv", "run", "drain"} /\ pump[current].q = q
                      \/ pump[current].at = "exit" /\ Done(pump[current].ctx)
    BY Zenon DEF QueueServed
  <2>1. Channel(current) /\ Receiver(current) /\ current \in Objects
    BY Zenon, Known DEF EngineInv, ServeInv, Serve
  <2>2. q = 1
    <3>1. q = 1 \/ q = 2
      OBVIOUS
    <3> QED BY Zenon, <2>1, <3>1 DEF Channel
  <2>3. queue[current] = 1
    <3>1. queue[current] \in 0..1 /\ queue[current] # 0
      BY Zenon, <2>1, <2>2 DEF Channel
    <3> QED BY <3>1
  <2>4. pump[current].at # "none" \/ \E f \in Firings : fire[f].at = "pump" /\ fire[f].rs = current
    BY Zenon, <2>1, <2>2 DEF Receiver
  <2>5. pump[current].at \in PumpAts
    <3>1. pump[current] \in PumpRec
      BY Zenon, <2>1 DEF EngineInv, EngineType
    <3> QED BY Zenon, <3>1 DEF PumpRec
  <2>6. \/ pump[current].at = "none" \/ pump[current].at = "start"
        \/ pump[current].at \in {"recv", "run", "drain"}
        \/ pump[current].at = "exit" /\ pump[current].at \in {"drain", "exit"}
    BY <2>5 DEF PumpAts
  <2> QED BY Zenon, <2>1, <2>2, <2>3, <2>4, <2>6 DEF Receiver
<1> QED BY <1>1, EngineCorrect, PTL

=============================================================================
