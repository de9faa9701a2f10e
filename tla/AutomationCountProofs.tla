------------------------ MODULE AutomationCountProofs ------------------------
(***************************************************************************)
(* Engine.inFlight is the number of the goroutines of firings, of restart  *)
(* and parallel runs and of pumps.  What each step does to those three     *)
(* sets is CountStep, proved action by action in AutomationProofs; here it *)
(* is counted.                                                             *)
(***************************************************************************)
EXTENDS AutomationProofs, FiniteSetTheorems

CountInv == inFlight = Cardinality(OfFirings) + Cardinality(OfRuns) + Cardinality(OfPumps)

LEMMA Counted ==
  ASSUME NEW T, IsFiniteSet(T), NEW S \in SUBSET T, NEW x \in T
  PROVE  /\ x \notin S => Cardinality(S \cup {x}) = Cardinality(S) + 1
         /\ x \in S => Cardinality(S \ {x}) = Cardinality(S) - 1
<1>1. IsFiniteSet(S)
  BY FS_Subset
<1>2. x \notin S => Cardinality(S \cup {x}) = Cardinality(S) + 1
  BY Zenon, <1>1, FS_AddElement
<1>3. x \in S => Cardinality(S \ {x}) = Cardinality(S) - 1
  BY Zenon, <1>1, FS_RemoveElement
<1> QED BY Zenon, <1>2, <1>3

\* The goroutines are finitely many.
LEMMA Finite ==
  /\ IsFiniteSet(Firings) /\ IsFiniteSet(Objects)
  /\ OfFirings \in SUBSET Firings /\ OfRuns \in SUBSET Firings /\ OfPumps \in SUBSET Objects
  /\ IsFiniteSet(OfFirings) /\ IsFiniteSet(OfRuns) /\ IsFiniteSet(OfPumps)
  /\ Cardinality(OfFirings) \in Nat /\ Cardinality(OfRuns) \in Nat
  /\ Cardinality(OfPumps) \in Nat
<1>1. IsFiniteSet(Firings) /\ IsFiniteSet(Objects)
  BY FS_Interval, AutomationAssumption DEF Objects
<1>2. OfFirings \in SUBSET Firings /\ OfRuns \in SUBSET Firings /\ OfPumps \in SUBSET Objects
  BY Zenon DEF OfFirings, OfRuns, OfPumps
<1>3. IsFiniteSet(OfFirings) /\ IsFiniteSet(OfRuns) /\ IsFiniteSet(OfPumps)
  BY Zenon, <1>1, <1>2, FS_Subset
<1> QED BY Zenon, <1>1, <1>2, <1>3, FS_CardinalityType

LEMMA InitCount == Init => CountInv
<1> SUFFICES ASSUME Init
             PROVE  CountInv
  BY Zenon
<1>1. /\ inFlight = 0
      /\ pump = [o \in Objects |-> [at |-> "none", q |-> 0, ctx |-> None]]
      /\ fire = [f \in Firings |-> [at |-> "idle", rs |-> 0, mode |-> None, q |-> 0]]
      /\ run = [f \in Firings |-> [at |-> "none", under |-> "none"]]
  BY Zenon DEF Init
<1>2. /\ \A o \in Objects : pump[o].at = "none"
      /\ \A f \in Firings : fire[f].at = "idle" /\ run[f].at = "none"
  <2>1. /\ \A o \in Objects : pump[o] = [at |-> "none", q |-> 0, ctx |-> None]
        /\ \A f \in Firings : fire[f] = [at |-> "idle", rs |-> 0, mode |-> None, q |-> 0]
        /\ \A f \in Firings : run[f] = [at |-> "none", under |-> "none"]
    BY Zenon, <1>1
  <2> QED BY <2>1
<1>3. \A f \in Firings : ~Executing(f)
  BY <1>2 DEF Executing
<1>4. OfRuns = {} /\ OfFirings = {} /\ OfPumps = {}
  BY Zenon, <1>2, <1>3 DEF OfRuns, OfFirings, OfPumps
<1>5. Cardinality({}) = 0 /\ 0 = 0 + 0 + 0
  BY FS_EmptySet
<1> QED BY Zenon, <1>1, <1>4, <1>5 DEF CountInv

\* Some of the firings' goroutines begin.
LEMMA LaunchCounted ==
  ASSUME CountInv, NEW S \in SUBSET Firings, Launched(S), inFlight' = inFlight + Cardinality(S)
  PROVE  CountInv'
<1>1. IsFiniteSet(S) /\ Cardinality(S) \in Nat /\ Cardinality({}) = 0
  BY Finite, FS_Subset, FS_CardinalityType, FS_EmptySet
<1>2. /\ OfFirings \cap S = {} /\ OfFirings' = OfFirings \cup S
      /\ OfRuns' = OfRuns /\ OfPumps' = OfPumps
  BY Zenon DEF Launched
<1>3. Cardinality(OfFirings \cup S) = Cardinality(OfFirings) + Cardinality(S) - Cardinality({})
  BY Zenon, <1>1, <1>2, Finite, FS_Union
<1>4. Cardinality(OfFirings') = Cardinality(OfFirings) + Cardinality(S)
  BY <1>1, <1>2, <1>3, Finite
<1>5. inFlight = Cardinality(OfFirings) + Cardinality(OfRuns) + Cardinality(OfPumps)
  BY Zenon DEF CountInv
<1>6. inFlight + Cardinality(S)
        = (Cardinality(OfFirings) + Cardinality(S)) + Cardinality(OfRuns) + Cardinality(OfPumps)
  BY <1>1, <1>5, Finite
<1> QED BY Zenon, <1>2, <1>4, <1>6 DEF CountInv

\* A goroutine ends.
LEMMA EndedCounted ==
  ASSUME CountInv, Ended, inFlight' = inFlight - 1
  PROVE  CountInv'
<1>1. inFlight = Cardinality(OfFirings) + Cardinality(OfRuns) + Cardinality(OfPumps)
  BY Zenon DEF CountInv
<1>2. /\ inFlight - 1 = (Cardinality(OfFirings) - 1) + Cardinality(OfRuns) + Cardinality(OfPumps)
      /\ inFlight - 1 = Cardinality(OfFirings) + (Cardinality(OfRuns) - 1) + Cardinality(OfPumps)
      /\ inFlight - 1 = Cardinality(OfFirings) + Cardinality(OfRuns) + (Cardinality(OfPumps) - 1)
  BY <1>1, Finite
<1>3. CASE /\ \E f \in OfFirings : OfFirings' = OfFirings \ {f}
           /\ OfRuns' = OfRuns /\ OfPumps' = OfPumps
  <2>1. Cardinality(OfFirings') = Cardinality(OfFirings) - 1
    BY Zenon, <1>3, Counted, Finite
  <2> QED BY Zenon, <1>2, <1>3, <2>1 DEF CountInv
<1>4. CASE /\ \E f \in OfRuns : OfRuns' = OfRuns \ {f}
           /\ OfFirings' = OfFirings /\ OfPumps' = OfPumps
  <2>1. Cardinality(OfRuns') = Cardinality(OfRuns) - 1
    BY Zenon, <1>4, Counted, Finite
  <2> QED BY Zenon, <1>2, <1>4, <2>1 DEF CountInv
<1>5. CASE /\ \E r \in OfPumps : OfPumps' = OfPumps \ {r}
           /\ OfFirings' = OfFirings /\ OfRuns' = OfRuns
  <2>1. Cardinality(OfPumps') = Cardinality(OfPumps) - 1
    BY Zenon, <1>5, Counted, Finite
  <2> QED BY Zenon, <1>2, <1>5, <2>1 DEF CountInv
<1> QED BY Zenon, <1>3, <1>4, <1>5 DEF Ended

\* A firing's goroutine ends and the one it starts takes its place in the count.
LEMMA HandedOverCounted ==
  ASSUME CountInv, HandedOver, inFlight' = inFlight
  PROVE  CountInv'
<1>1. inFlight = Cardinality(OfFirings) + Cardinality(OfRuns) + Cardinality(OfPumps)
  BY Zenon DEF CountInv
<1>2. /\ inFlight = (Cardinality(OfFirings) - 1) + (Cardinality(OfRuns) + 1) + Cardinality(OfPumps)
      /\ inFlight = (Cardinality(OfFirings) - 1) + Cardinality(OfRuns) + (Cardinality(OfPumps) + 1)
  BY <1>1, Finite
<1>3. Cardinality(OfFirings') = Cardinality(OfFirings) - 1
  BY Zenon, Counted, Finite DEF HandedOver
<1>4. CASE (\E f \in Firings \ OfRuns : OfRuns' = OfRuns \cup {f}) /\ OfPumps' = OfPumps
  <2>1. Cardinality(OfRuns') = Cardinality(OfRuns) + 1
    BY ZenonT(40), <1>4, Counted, Finite
  <2> QED BY Zenon, <1>2, <1>3, <1>4, <2>1 DEF CountInv
<1>5. CASE (\E r \in Objects \ OfPumps : OfPumps' = OfPumps \cup {r}) /\ OfRuns' = OfRuns
  <2>1. Cardinality(OfPumps') = Cardinality(OfPumps) + 1
    BY ZenonT(40), <1>5, Counted, Finite
  <2> QED BY Zenon, <1>2, <1>3, <1>5, <2>1 DEF CountInv
<1> QED BY Zenon, <1>4, <1>5 DEF HandedOver

LEMMA NextCount ==
  ASSUME CountInv, CountStep
  PROVE  CountInv'
<1>1. CASE /\ OfFirings' = OfFirings /\ OfRuns' = OfRuns /\ OfPumps' = OfPumps
           /\ inFlight' = inFlight
  BY Zenon, <1>1 DEF CountInv
<1>2. ASSUME NEW f \in Firings, Launched({f}), inFlight' = inFlight + 1
      PROVE  CountInv'
  <2>1. {f} \in SUBSET Firings /\ Cardinality({f}) = 1
    BY Zenon, FS_Singleton
  <2> QED BY Zenon, <1>2, <2>1, LaunchCounted
<1> QED BY Zenon, <1>1, <1>2, LaunchCounted, EndedCounted, HandedOverCounted DEF CountStep

LEMMA CountKept == Spec => []CountInv
<1>1. Init => CountInv
  BY InitCount
<1>2. EngineInv /\ CountInv /\ [Next]_vars => CountInv'
  BY Zenon, NextEngine, NextCount
<1> QED BY <1>1, <1>2, EngineCorrect, PTL DEF Spec

\* Stop waits for the goroutines and for nothing else: inFlight is the number of
\* firings' goroutines, of goroutines of restart and parallel runs and of pumps,
\* each counted before the one that starts it is uncounted.
THEOREM CountCorrect == Spec => []InFlightCounts
<1>1. EngineInv /\ CountInv => InFlightCounts
  <2> SUFFICES ASSUME EngineInv, CountInv
               PROVE  InFlightCounts
    BY Zenon
  <2>1. /\ Cardinality(OfFirings) \in Nat
        /\ Cardinality(OfRuns) \in Nat /\ Cardinality(OfPumps) \in Nat
    BY Zenon, Finite
  <2>2. inFlight = Cardinality(OfFirings) + Cardinality(OfRuns) + Cardinality(OfPumps)
    BY Zenon DEF CountInv
  <2>3. inFlight = 0 <=>
          Cardinality(OfFirings) = 0 /\ Cardinality(OfRuns) = 0 /\ Cardinality(OfPumps) = 0
    BY <2>1, <2>2
  <2>4. IsFiniteSet(OfFirings) /\ IsFiniteSet(OfRuns) /\ IsFiniteSet(OfPumps)
    BY Zenon, Finite
  <2>5. inFlight = 0 <=> OfFirings = {} /\ OfRuns = {} /\ OfPumps = {}
    BY Zenon, <2>3, <2>4, FS_EmptySet
  <2>6. OfFirings = {} <=> \A f \in Firings : fire[f].at \in {"idle", "end"}
    BY Zenon DEF OfFirings
  <2>7. OfPumps = {} <=> \A r \in Objects : pump[r].at \in {"none", "exit"}
    BY Zenon DEF OfPumps
  <2>8. OfRuns = {} <=> \A f \in Firings : ~(Executing(f) /\ run[f].under \in {"restart", "parallel"})
    BY Zenon DEF OfRuns
  <2>9. ASSUME NEW f \in Firings, Executing(f), run[f].under \notin {"restart", "parallel"}
        PROVE  ~(OfFirings = {} /\ OfPumps = {})
    <3>1. Stage(f) /\ run[f] \in RunRec
      BY Zenon DEF EngineInv, EngineType, StageInv
    <3>2. run[f].under \in Unders /\ run[f].under # "none" /\ fire[f].rs # 0
      BY Zenon, <2>9, <3>1 DEF Stage, RunRec
    <3>3. run[f].under \in ByGoroutine \/ run[f].under \in ByPump
      BY <2>9, <3>2 DEF Unders, ByGoroutine, ByPump
    <3>4. "run" \notin {"idle", "end"} /\ "run" \notin {"none", "exit"}
      OBVIOUS
    <3>5. CASE run[f].under \in ByGoroutine
      BY Zenon, <2>6, <2>9, <3>1, <3>4, <3>5 DEF Stage
    <3>6. CASE run[f].under \in ByPump
      <4>1. pump[fire[f].rs].at = "run" /\ fire[f].rs \in Objects
        BY Zenon, <2>9, <3>2, <3>6, Known DEF EngineInv, PumpInv
      <4> QED BY Zenon, <2>7, <3>4, <4>1
    <3> QED BY Zenon, <3>3, <3>5, <3>6
  <2> QED BY Zenon, <2>5, <2>6, <2>7, <2>8, <2>9 DEF InFlightCounts
<1> QED BY <1>1, EngineCorrect, CountKept, PTL

=============================================================================
