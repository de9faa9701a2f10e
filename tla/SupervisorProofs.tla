-------------------------- MODULE SupervisorProofs --------------------------
(***************************************************************************)
(* The supervisor of a driver whose host is called by one goroutine at a   *)
(* time and never by one that gives up waiting, for any restart budget and *)
(* any number of registrations and lives: at most one lifecycle goroutine  *)
(* has not ended, because every call that launches one has waited for the  *)
(* last.                                                                   *)
(***************************************************************************)
EXTENDS Supervisor, FiniteSetTheorems, TLAPS

\* One caller at a time, which waits as long as it takes.
OneCaller == (\A c, d \in Callers : c = d) /\ Impatient = {}

Ops == {"none", "register", "unregister", "restart", "stop"}
Stopping == {"shutdown", "cancel", "rpc", "wait"}
Held == {"handshake", "started", "health", "close"}
Connected == {"started", "health", "close", "clear"}
Reported == {"health", "close", "clear"}
Budgeted == {"top", "backoff", "sleep"}

Alive(l) == lifePc[l] \notin {"none", "exit"}
Leaving(c) == op[c] = "unregister" /\ callPc[c] \in Stopping

SupType ==
  /\ objects \in Nat /\ registered \in 0 .. objects
  /\ state \in [Objects -> States]
  /\ conn \in [Objects -> Nat]
  /\ restarts \in [Objects -> Nat]
  /\ life \in [Objects -> Nat]
  /\ owner \in [Lives -> Nat]
  /\ lifePc \in [Lives -> LifePcs]
  /\ process \subseteq Lives
  /\ callPc \in [Callers -> CallPcs]
  /\ op \in [Callers -> Ops]
  /\ target \in [Callers -> Nat]
  /\ objects <= MaxObjects

\* One life at most has not ended.  It is the last one of its object, which is
\* registered or being unregistered.
LivesInv ==
  /\ \A l \in Lives : owner[l] <= objects /\ (owner[l] = None <=> lifePc[l] = "none")
  /\ \A l, k \in Lives : Alive(l) /\ Alive(k) => l = k
  /\ \A l \in Lives :
       Alive(l) =>
         /\ life[owner[l]] = l
         /\ registered = owner[l] \/ \E c \in Callers : Leaving(c) /\ target[c] = owner[l]

\* A call works on a registered instance, or on the one it has unregistered,
\* and launches only when no life is left.
CallsInv ==
  \A c \in Callers :
    /\ callPc[c] \in Stopping \cup {"launch", "reset"} => target[c] \in 1 .. objects
    /\ callPc[c] \in Stopping /\ op[c] # "unregister" => target[c] = registered
    /\ callPc[c] \in {"launch", "reset"} =>
         target[c] = registered /\ \A l \in Lives : ~Alive(l)
    /\ callPc[c] = "launch" => state[target[c]] = "declared" /\ restarts[target[c]] = 0

Unmade == \A o \in Objects : objects < o => state[o] = "declared" /\ restarts[o] = 0

\* What the one life that has not ended keeps.
RunInv ==
  /\ \A l \in process : lifePc[l] \in Held
  /\ \A l \in Lives : lifePc[l] \in Connected => conn[owner[l]] = l
  /\ status = "running" => \E l \in Lives : lifePc[l] \in Reported
  /\ \A l \in Lives : lifePc[l] \in Budgeted => restarts[owner[l]] <= BudgetMax
  /\ \A l \in Lives : Alive(l) => state[owner[l]] # "quarantined"

SupInv == SupType /\ LivesInv /\ CallsInv /\ Unmade /\ RunInv

-----------------------------------------------------------------------------
(* A step of a life.  Others(l): what it leaves alone.  Own(l): what the   *)
(* life may say of itself afterwards.                                      *)

Others(l) ==
  /\ lifePc' \in [Lives -> LifePcs] /\ \A k \in Lives \ {l} : lifePc'[k] = lifePc[k]
  /\ state' \in [Objects -> States]
  /\ conn' \in [Objects -> Nat]
  /\ restarts' \in [Objects -> Nat]
  /\ \A o \in Objects \ {owner[l]} :
       state'[o] = state[o] /\ conn'[o] = conn[o] /\ restarts'[o] = restarts[o]
  /\ process' \subseteq process \cup {l}

Own(l) ==
  /\ lifePc'[l] # "none"
  /\ l \in process' => lifePc'[l] \in Held
  /\ lifePc'[l] \in Connected => conn'[owner[l]] = l
  /\ status' = "running" =>
       \/ lifePc'[l] \in Reported
       \/ status = "running" /\ lifePc[l] \notin Reported
  /\ lifePc'[l] \in Budgeted => restarts'[owner[l]] <= BudgetMax
  /\ lifePc'[l] # "exit" => state'[owner[l]] # "quarantined"

LEMMA Changed ==
  ASSUME NEW D, NEW R, NEW f \in [D -> R], NEW w \in D, NEW v \in R,
         NEW g \in {f, [f EXCEPT ![w] = v]}
  PROVE  g \in [D -> R] /\ \A u \in D \ {w} : g[u] = f[u]
  OBVIOUS

LEMMA LifeOthers ==
  ASSUME SupType, NEW l \in Lives, owner[l] \in Objects,
         NEW p \in LifePcs, lifePc' = [lifePc EXCEPT ![l] = p],
         NEW s \in States, state' \in {state, [state EXCEPT ![owner[l]] = s]},
         NEW x \in Nat, conn' \in {conn, [conn EXCEPT ![owner[l]] = x]},
         NEW n \in Nat, restarts' \in {restarts, [restarts EXCEPT ![owner[l]] = n]},
         process' \subseteq process \cup {l}
  PROVE  Others(l) /\ lifePc'[l] = p
<1>1. /\ lifePc \in [Lives -> LifePcs] /\ state \in [Objects -> States]
      /\ conn \in [Objects -> Nat] /\ restarts \in [Objects -> Nat]
  BY Zenon DEF SupType
<1>2. lifePc' \in {lifePc, [lifePc EXCEPT ![l] = p]} /\ lifePc'[l] = p
  BY Zenon, <1>1
<1>3. /\ lifePc' \in [Lives -> LifePcs]
      /\ \A k \in Lives \ {l} : lifePc'[k] = lifePc[k]
  BY Zenon, <1>1, <1>2, Changed
<1>4. /\ state' \in [Objects -> States]
      /\ \A o \in Objects \ {owner[l]} : state'[o] = state[o]
  BY <1>1, Changed
<1>5. /\ conn' \in [Objects -> Nat]
      /\ \A o \in Objects \ {owner[l]} : conn'[o] = conn[o]
  BY <1>1, Changed
<1>6. /\ restarts' \in [Objects -> Nat]
      /\ \A o \in Objects \ {owner[l]} : restarts'[o] = restarts[o]
  BY <1>1, Changed
<1> QED BY Zenon, <1>2, <1>3, <1>4, <1>5, <1>6 DEF Others

LEMMA LifeOwn ==
  ASSUME SupInv, NEW l \in Lives, LifeStep(l)
  PROVE  Alive(l) /\ owner[l] \in 1 .. objects /\ Others(l) /\ Own(l)
<1> DEFINE o == owner[l]
<1>1. /\ o # None
      /\ \/ Top(l, o) \/ SpawnOK(l, o) \/ SpawnError(l, o)
         \/ HandshakeOK(l, o) \/ HandshakeFail(l, o) \/ Started(l, o)
         \/ HealthCancelled(l, o) \/ HealthFails(l, o) \/ CloseConn(l, o)
         \/ Clear(l, o) \/ TransitionToStopped(l, o)
         \/ TransitionToFailed(l, o) \/ Budget(l, o) \/ Quarantine(l, o)
         \/ Backoff(l, o) \/ Sleep(l, o)
  BY Zenon DEF LifeStep
<1>2. o \in 1 .. objects /\ o \in Objects
  <2>1. owner \in [Lives -> Nat] /\ objects \in Nat /\ objects <= MaxObjects
    BY Zenon DEF SupInv, SupType
  <2>2. o \in Nat /\ o <= objects
    BY Zenon, <2>1 DEF SupInv, LivesInv
  <2> QED BY <1>1, <2>1, <2>2, SupervisorAssumption DEF None, Objects
<1>3. state[o] \in States /\ restarts[o] \in Nat /\ l \in Nat /\ 0 \in Nat
  <2>1. /\ state \in [Objects -> States] /\ restarts \in [Objects -> Nat]
        /\ owner \in [Lives -> Nat]
    BY Zenon DEF SupInv, SupType
  <2> QED BY <1>2, <2>1 DEF Lives
<1>4. /\ Alive(l) => state[o] # "quarantined"
      /\ lifePc[l] \in Connected => conn[o] = l
      /\ lifePc[l] \in Budgeted => restarts[o] <= BudgetMax
      /\ l \in process => lifePc[l] \in Held
  BY Zenon, <1>2 DEF SupInv, RunInv
<1>5. ASSUME NEW p \in LifePcs, lifePc' = [lifePc EXCEPT ![l] = p],
             NEW s \in States, state' \in {state, [state EXCEPT ![o] = s]},
             NEW x \in Nat, conn' \in {conn, [conn EXCEPT ![o] = x]},
             NEW n \in Nat, restarts' \in {restarts, [restarts EXCEPT ![o] = n]},
             process' \subseteq process \cup {l}
      PROVE  Others(l) /\ lifePc'[l] = p
  BY Zenon, <1>2, <1>5, LifeOthers DEF SupInv
<1>6. /\ \A s \in States : state' = [state EXCEPT ![o] = s] => state'[o] = s
      /\ \A x \in Nat : conn' = [conn EXCEPT ![o] = x] => conn'[o] = x
      /\ \A n \in Nat : restarts' = [restarts EXCEPT ![o] = n] => restarts'[o] = n
  <2>1. state \in [Objects -> States] /\ conn \in [Objects -> Nat] /\ restarts \in [Objects -> Nat]
    BY Zenon DEF SupInv, SupType
  <2> QED BY Zenon, <1>2, <2>1
<1>10. CASE SpawnOK(l, o)
  <2>1. /\ lifePc[l] = "spawn" /\ lifePc' = [lifePc EXCEPT ![l] = "handshake"]
        /\ state' = [state EXCEPT ![o] = "awaiting"] /\ process' = process \cup {l}
        /\ conn' = conn /\ restarts' = restarts /\ status' = status
    BY Zenon, <1>10 DEF SpawnOK, GotoLife, SetState
  <2>2. "handshake" \in LifePcs /\ "awaiting" \in States /\ process' \subseteq process \cup {l}
    BY <2>1 DEF LifePcs, States
  <2>3. Others(l) /\ lifePc'[l] = "handshake"
    BY Zenon, <1>3, <1>5, <2>1, <2>2
  <2>4. state'[o] = "awaiting"
    BY Zenon, <1>3, <1>6, <2>1, <2>2
  <2> QED BY <1>2, <1>4, <2>1, <2>3, <2>4 DEF Alive, Own, Held, Connected, Reported, Budgeted
<1>11. CASE SpawnError(l, o)
  <2>1. /\ lifePc[l] = "spawn" /\ lifePc' = [lifePc EXCEPT ![l] = "failed"]
        /\ state' = state /\ process' = process
        /\ conn' = conn /\ restarts' = restarts /\ status' = status
    BY Zenon, <1>11 DEF SpawnError, GotoLife
  <2>2. "failed" \in LifePcs /\ process' \subseteq process \cup {l}
    BY <2>1 DEF LifePcs
  <2>3. Others(l) /\ lifePc'[l] = "failed"
    BY Zenon, <1>3, <1>5, <2>1, <2>2
  <2> QED BY <1>2, <1>4, <2>1, <2>3 DEF Alive, Own, Held, Connected, Reported, Budgeted
<1>12. CASE HandshakeOK(l, o)
  <2>1. /\ lifePc[l] = "handshake" /\ lifePc' = [lifePc EXCEPT ![l] = "started"]
        /\ state' = [state EXCEPT ![o] = "running"] /\ process' = process
        /\ conn' = [conn EXCEPT ![o] = l] /\ restarts' = restarts /\ status' = status
    BY Zenon, <1>12 DEF HandshakeOK, GotoLife, SetState
  <2>2. "started" \in LifePcs /\ "running" \in States /\ process' \subseteq process \cup {l}
    BY <2>1 DEF LifePcs, States
  <2>3. Others(l) /\ lifePc'[l] = "started"
    BY Zenon, <1>3, <1>5, <2>1, <2>2
  <2>4. state'[o] = "running" /\ conn'[o] = l
    BY Zenon, <1>3, <1>6, <2>1, <2>2
  <2> QED BY <1>2, <1>4, <2>1, <2>3, <2>4 DEF Alive, Own, Held, Connected, Reported, Budgeted
<1>13. CASE HandshakeFail(l, o)
  <2>1. /\ lifePc[l] = "handshake" /\ lifePc' = [lifePc EXCEPT ![l] = "failed"]
        /\ state' = state /\ process' = process \ {l}
        /\ conn' = conn /\ restarts' = restarts /\ status' = status
    BY Zenon, <1>13 DEF HandshakeFail, GotoLife
  <2>2. "failed" \in LifePcs /\ process' \subseteq process \cup {l}
    BY <2>1 DEF LifePcs
  <2>3. Others(l) /\ lifePc'[l] = "failed"
    BY Zenon, <1>3, <1>5, <2>1, <2>2
  <2> QED BY <1>2, <1>4, <2>1, <2>3 DEF Alive, Own, Held, Connected, Reported, Budgeted
<1>14. CASE Started(l, o)
  <2>1. /\ lifePc[l] = "started" /\ lifePc' = [lifePc EXCEPT ![l] = "health"]
        /\ state' = state /\ process' = process
        /\ conn' = conn /\ restarts' = restarts /\ status' = "running"
    BY Zenon, <1>14 DEF Started, GotoLife
  <2>2. "health" \in LifePcs /\ process' \subseteq process \cup {l}
    BY <2>1 DEF LifePcs
  <2>3. Others(l) /\ lifePc'[l] = "health"
    BY Zenon, <1>3, <1>5, <2>1, <2>2
  <2> QED BY <1>2, <1>4, <2>1, <2>3 DEF Alive, Own, Held, Connected, Reported, Budgeted
<1>15. CASE HealthCancelled(l, o)
  <2>1. /\ lifePc[l] = "health" /\ lifePc' = [lifePc EXCEPT ![l] = "close"]
        /\ state' = state /\ process' = process
        /\ conn' = conn /\ restarts' = restarts /\ status' = status
    BY Zenon, <1>15 DEF HealthCancelled, GotoLife
  <2>2. "close" \in LifePcs /\ process' \subseteq process \cup {l}
    BY <2>1 DEF LifePcs
  <2>3. Others(l) /\ lifePc'[l] = "close"
    BY Zenon, <1>3, <1>5, <2>1, <2>2
  <2> QED BY <1>2, <1>4, <2>1, <2>3 DEF Alive, Own, Held, Connected, Reported, Budgeted
<1>16. CASE HealthFails(l, o)
  <2>1. /\ lifePc[l] = "health" /\ lifePc' = [lifePc EXCEPT ![l] = "close"]
        /\ state' = state /\ process' = process
        /\ conn' = conn /\ restarts' = restarts /\ status' = status
    BY Zenon, <1>16 DEF HealthFails, GotoLife
  <2>2. "close" \in LifePcs /\ process' \subseteq process \cup {l}
    BY <2>1 DEF LifePcs
  <2>3. Others(l) /\ lifePc'[l] = "close"
    BY Zenon, <1>3, <1>5, <2>1, <2>2
  <2> QED BY <1>2, <1>4, <2>1, <2>3 DEF Alive, Own, Held, Connected, Reported, Budgeted
<1>17. CASE CloseConn(l, o)
  <2>1. /\ lifePc[l] = "close" /\ lifePc' = [lifePc EXCEPT ![l] = "clear"]
        /\ state' = state /\ process' = process \ {l}
        /\ conn' = conn /\ restarts' = restarts /\ status' = status
    BY Zenon, <1>17 DEF CloseConn, GotoLife
  <2>2. "clear" \in LifePcs /\ process' \subseteq process \cup {l}
    BY <2>1 DEF LifePcs
  <2>3. Others(l) /\ lifePc'[l] = "clear"
    BY Zenon, <1>3, <1>5, <2>1, <2>2
  <2> QED BY <1>2, <1>4, <2>1, <2>3 DEF Alive, Own, Held, Connected, Reported, Budgeted
<1>18. CASE TransitionToStopped(l, o)
  <2>1. /\ lifePc[l] = "stopped" /\ lifePc' = [lifePc EXCEPT ![l] = "exit"]
        /\ state' = [state EXCEPT ![o] = "stopped"] /\ process' = process
        /\ conn' = conn /\ restarts' = restarts /\ status' = status
    BY Zenon, <1>18 DEF TransitionToStopped, GotoLife, SetState
  <2>2. "exit" \in LifePcs /\ "stopped" \in States /\ process' \subseteq process \cup {l}
    BY <2>1 DEF LifePcs, States
  <2>3. Others(l) /\ lifePc'[l] = "exit"
    BY Zenon, <1>3, <1>5, <2>1, <2>2
  <2>4. state'[o] = "stopped"
    BY Zenon, <1>3, <1>6, <2>1, <2>2
  <2> QED BY <1>2, <1>4, <2>1, <2>3, <2>4 DEF Alive, Own, Held, Connected, Reported, Budgeted
<1>19. CASE TransitionToFailed(l, o)
  <2>1. /\ lifePc[l] = "failed" /\ lifePc' = [lifePc EXCEPT ![l] = "budget"]
        /\ state' = [state EXCEPT ![o] = "failed"] /\ process' = process
        /\ conn' = conn /\ restarts' = restarts /\ status' = status
    BY Zenon, <1>19 DEF TransitionToFailed, GotoLife, SetState
  <2>2. "budget" \in LifePcs /\ "failed" \in States /\ process' \subseteq process \cup {l}
    BY <2>1 DEF LifePcs, States
  <2>3. Others(l) /\ lifePc'[l] = "budget"
    BY Zenon, <1>3, <1>5, <2>1, <2>2
  <2>4. state'[o] = "failed"
    BY Zenon, <1>3, <1>6, <2>1, <2>2
  <2> QED BY <1>2, <1>4, <2>1, <2>3, <2>4 DEF Alive, Own, Held, Connected, Reported, Budgeted
<1>20. CASE Quarantine(l, o)
  <2>1. /\ lifePc[l] = "quarantine" /\ lifePc' = [lifePc EXCEPT ![l] = "exit"]
        /\ state' = [state EXCEPT ![o] = "quarantined"] /\ process' = process
        /\ conn' = conn /\ restarts' = restarts /\ status' = status
    BY Zenon, <1>20 DEF Quarantine, GotoLife, SetState
  <2>2. "exit" \in LifePcs /\ "quarantined" \in States /\ process' \subseteq process \cup {l}
    BY <2>1 DEF LifePcs, States
  <2>3. Others(l) /\ lifePc'[l] = "exit"
    BY Zenon, <1>3, <1>5, <2>1, <2>2
  <2>4. state'[o] = "quarantined"
    BY Zenon, <1>3, <1>6, <2>1, <2>2
  <2> QED BY <1>2, <1>4, <2>1, <2>3, <2>4 DEF Alive, Own, Held, Connected, Reported, Budgeted
<1>21. CASE Backoff(l, o)
  <2>1. /\ lifePc[l] = "backoff" /\ lifePc' = [lifePc EXCEPT ![l] = "sleep"]
        /\ state' = [state EXCEPT ![o] = "backoff"] /\ process' = process
        /\ conn' = conn /\ restarts' = restarts /\ status' = status
    BY Zenon, <1>21 DEF Backoff, GotoLife, SetState
  <2>2. "sleep" \in LifePcs /\ "backoff" \in States /\ process' \subseteq process \cup {l}
    BY <2>1 DEF LifePcs, States
  <2>3. Others(l) /\ lifePc'[l] = "sleep"
    BY Zenon, <1>3, <1>5, <2>1, <2>2
  <2>4. state'[o] = "backoff"
    BY Zenon, <1>3, <1>6, <2>1, <2>2
  <2> QED BY <1>2, <1>4, <2>1, <2>3, <2>4 DEF Alive, Own, Held, Connected, Reported, Budgeted
<1>22. CASE Top(l, o)
  <2>1. CASE l \in cancelled
    <3>1. /\ lifePc[l] = "top" /\ lifePc' = [lifePc EXCEPT ![l] = "exit"]
          /\ state' = state /\ process' = process
          /\ conn' = conn /\ restarts' = restarts
          /\ status' = status
      BY Zenon, <1>22, <2>1 DEF Top, GotoLife
    <3>2. "exit" \in LifePcs /\ process' \subseteq process \cup {l}
      BY <3>1 DEF LifePcs
    <3>3. Others(l) /\ lifePc'[l] = "exit"
      BY Zenon, <1>3, <1>5, <3>1, <3>2
    <3> QED BY <1>2, <1>4, <3>1, <3>3 DEF Alive, Own, Held, Connected, Reported, Budgeted
  <2>2. CASE l \notin cancelled
    <3>1. /\ lifePc[l] = "top" /\ lifePc' = [lifePc EXCEPT ![l] = "spawn"]
          /\ state' = [state EXCEPT ![o] = "spawning"] /\ process' = process
          /\ conn' = conn /\ restarts' = restarts
          /\ status' = status
      BY Zenon, <1>22, <2>2 DEF Top, GotoLife, SetState
    <3>2. "spawn" \in LifePcs /\ "spawning" \in States /\ process' \subseteq process \cup {l}
      BY <3>1 DEF LifePcs, States
    <3>3. Others(l) /\ lifePc'[l] = "spawn"
      BY Zenon, <1>3, <1>5, <3>1, <3>2
    <3>4. state'[o] = "spawning"
      BY Zenon, <1>3, <1>6, <3>1, <3>2
    <3> QED BY <1>2, <1>4, <3>1, <3>3, <3>4 DEF Alive, Own, Held, Connected, Reported, Budgeted
  <2> QED BY Zenon, <1>22, <2>1, <2>2 DEF Top
<1>23. CASE Clear(l, o)
  <2>1. CASE l \in cancelled
    <3>1. /\ lifePc[l] = "clear" /\ lifePc' = [lifePc EXCEPT ![l] = "stopped"]
          /\ state' = state /\ process' = process
          /\ conn' = [conn EXCEPT ![o] = 0] /\ restarts' = restarts
          /\ status' = Updated("stopped")
      BY Zenon, <1>23, <2>1 DEF Clear, GotoLife, None
    <3>2. "stopped" \in LifePcs /\ process' \subseteq process \cup {l}
      BY <3>1 DEF LifePcs
    <3>3. Others(l) /\ lifePc'[l] = "stopped"
      BY Zenon, <1>3, <1>5, <3>1, <3>2
    <3>4. conn'[o] = 0
      BY Zenon, <1>3, <1>6, <3>1, <3>2
    <3> QED BY <1>2, <1>4, <3>1, <3>3, <3>4 DEF Alive, Own, Held, Connected, Reported, Budgeted, Updated
  <2>2. CASE l \notin cancelled
    <3>1. /\ lifePc[l] = "clear" /\ lifePc' = [lifePc EXCEPT ![l] = "failed"]
          /\ state' = state /\ process' = process
          /\ conn' = [conn EXCEPT ![o] = 0] /\ restarts' = restarts
          /\ status' = Updated("failed")
      BY Zenon, <1>23, <2>2 DEF Clear, GotoLife, None
    <3>2. "failed" \in LifePcs /\ process' \subseteq process \cup {l}
      BY <3>1 DEF LifePcs
    <3>3. Others(l) /\ lifePc'[l] = "failed"
      BY Zenon, <1>3, <1>5, <3>1, <3>2
    <3>4. conn'[o] = 0
      BY Zenon, <1>3, <1>6, <3>1, <3>2
    <3> QED BY <1>2, <1>4, <3>1, <3>3, <3>4 DEF Alive, Own, Held, Connected, Reported, Budgeted, Updated
  <2> QED BY Zenon, <1>23, <2>1, <2>2 DEF Clear
<1>24. CASE Sleep(l, o)
  <2>1. CASE GotoLife(l, "top")
    <3>1. /\ lifePc[l] = "sleep" /\ lifePc' = [lifePc EXCEPT ![l] = "top"]
          /\ state' = state /\ process' = process
          /\ conn' = conn /\ restarts' = restarts
          /\ status' = status
      BY Zenon, <1>24, <2>1 DEF Sleep, GotoLife
    <3>2. "top" \in LifePcs /\ process' \subseteq process \cup {l}
      BY <3>1 DEF LifePcs
    <3>3. Others(l) /\ lifePc'[l] = "top"
      BY Zenon, <1>3, <1>5, <3>1, <3>2
    <3> QED BY <1>2, <1>4, <3>1, <3>3 DEF Alive, Own, Held, Connected, Reported, Budgeted
  <2>2. CASE GotoLife(l, "exit")
    <3>1. /\ lifePc[l] = "sleep" /\ lifePc' = [lifePc EXCEPT ![l] = "exit"]
          /\ state' = state /\ process' = process
          /\ conn' = conn /\ restarts' = restarts
          /\ status' = status
      BY Zenon, <1>24, <2>2 DEF Sleep, GotoLife
    <3>2. "exit" \in LifePcs /\ process' \subseteq process \cup {l}
      BY <3>1 DEF LifePcs
    <3>3. Others(l) /\ lifePc'[l] = "exit"
      BY Zenon, <1>3, <1>5, <3>1, <3>2
    <3> QED BY <1>2, <1>4, <3>1, <3>3 DEF Alive, Own, Held, Connected, Reported, Budgeted
  <2> QED BY Zenon, <1>24, <2>1, <2>2 DEF Sleep
<1>25. CASE Budget(l, o)
  <2>1. PICK fresh \in 0 .. restarts[o] :
          /\ restarts' = [restarts EXCEPT ![o] = fresh + 1]
          /\ lifePc' =
               [lifePc EXCEPT ![l] = IF fresh + 1 > BudgetMax THEN "quarantine" ELSE "backoff"]
    BY Zenon, <1>25 DEF Budget, GotoLife
  <2>2. /\ lifePc[l] = "budget" /\ state' = state /\ process' = process
        /\ conn' = conn /\ status' = status
    BY Zenon, <1>25 DEF Budget
  <2>3. fresh + 1 \in Nat /\ process' \subseteq process \cup {l}
    BY <1>3, <2>1, <2>2
  <2>4. restarts'[o] = fresh + 1
    BY Zenon, <1>6, <2>1, <2>3
  <2>5. CASE fresh + 1 > BudgetMax
    <3>1. lifePc' = [lifePc EXCEPT ![l] = "quarantine"] /\ "quarantine" \in LifePcs
      BY <2>1, <2>5 DEF LifePcs
    <3>2. Others(l) /\ lifePc'[l] = "quarantine"
      BY Zenon, <1>3, <1>5, <2>1, <2>2, <2>3, <3>1
    <3> QED BY <1>2, <1>4, <2>2, <3>2 DEF Alive, Own, Held, Connected, Reported, Budgeted
  <2>6. CASE fresh + 1 <= BudgetMax
    <3>1. lifePc' = [lifePc EXCEPT ![l] = "backoff"] /\ "backoff" \in LifePcs
      <4>1. ~(fresh + 1 > BudgetMax) /\ "backoff" \in LifePcs
        BY <2>3, <2>6, SupervisorAssumption DEF LifePcs
      <4> QED BY Zenon, <2>1, <4>1
    <3>2. Others(l) /\ lifePc'[l] = "backoff"
      BY Zenon, <1>3, <1>5, <2>1, <2>2, <2>3, <3>1
    <3> QED BY <1>2, <1>4, <2>2, <2>4, <2>6, <3>2
            DEF Alive, Own, Held, Connected, Reported, Budgeted
  <2> QED BY <2>3, <2>5, <2>6, SupervisorAssumption
<1> QED
  BY Zenon, <1>1, <1>10, <1>11, <1>12, <1>13, <1>14, <1>15, <1>16, <1>17, <1>18, <1>19,
     <1>20, <1>21, <1>22, <1>23, <1>24, <1>25

\* A step of a life keeps the invariant: it is the only life.
LEMMA LifeKeeps ==
  ASSUME SupInv, NEW l \in Lives, LifeStep(l)
  PROVE  SupInv'
<1>1. Alive(l) /\ owner[l] \in 1 .. objects /\ Others(l) /\ Own(l)
  BY Zenon, LifeOwn
<1>2. /\ registered' = registered /\ objects' = objects /\ life' = life
      /\ owner' = owner /\ callPc' = callPc /\ op' = op /\ target' = target
  BY Zenon DEF LifeStep, hostVars, callVars
<1>3. \A k \in Lives \ {l} : lifePc'[k] = lifePc[k] /\ lifePc[k] \in {"none", "exit"}
  BY Zenon, <1>1 DEF SupInv, LivesInv, Others, Alive
<1>4. \A c \in Callers : callPc[c] \notin {"launch", "reset"}
  BY Zenon, <1>1 DEF SupInv, CallsInv
<1>5. SupType'
  <2>1. process' \subseteq Lives
    BY Zenon, <1>1 DEF SupInv, SupType, Others
  <2> QED BY Zenon, <1>1, <1>2, <2>1 DEF SupInv, SupType, Others
<1>6. LivesInv'
  <2>1. \A k \in Lives : Alive(k)' => k = l
    BY Zenon, <1>3 DEF Alive
  <2>2. owner[l] # None
    BY <1>1 DEF None
  <2>3. \A k \in Lives : owner'[k] <= objects' /\ (owner'[k] = None <=> lifePc'[k] = "none")
    <3>1. lifePc'[l] # "none" /\ owner[l] # None
      BY Zenon, <1>1, <2>2 DEF Own
    <3> QED BY Zenon, <1>2, <1>3, <3>1 DEF SupInv, LivesInv
  <2>4. /\ life'[owner'[l]] = l
        /\ registered' = owner'[l] \/ \E c \in Callers : Leaving(c)' /\ target'[c] = owner'[l]
    BY Zenon, <1>1, <1>2 DEF SupInv, LivesInv, Leaving
  <2> QED BY Zenon, <2>1, <2>3, <2>4 DEF LivesInv
<1>7. CallsInv'
  <2> SUFFICES ASSUME NEW c \in Callers
               PROVE  /\ callPc'[c] \in Stopping \cup {"launch", "reset"}
                           => target'[c] \in 1 .. objects'
                      /\ callPc'[c] \in Stopping /\ op'[c] # "unregister"
                           => target'[c] = registered'
                      /\ callPc'[c] \notin {"launch", "reset"}
    BY Zenon DEF CallsInv
  <2> QED BY Zenon, <1>2, <1>4 DEF SupInv, CallsInv
<1>8. Unmade'
  <2> SUFFICES ASSUME NEW o \in Objects, objects < o
               PROVE  state'[o] = "declared" /\ restarts'[o] = 0
    BY Zenon, <1>2 DEF Unmade
  <2>1. o # owner[l]
    BY <1>1 DEF Objects, SupInv, SupType
  <2> QED BY Zenon, <1>1, <2>1 DEF SupInv, Unmade, Others
<1>9. RunInv'
  <2>1. \A k \in Lives \ {l} : lifePc'[k] \notin Held \cup Connected \cup Reported \cup Budgeted
    BY <1>3 DEF Held, Connected, Reported, Budgeted
  <2>2. \A k \in process' : lifePc'[k] \in Held
    <3>1. \A k \in process : k = l
      BY <1>3 DEF SupInv, SupType, RunInv, Held
    <3> QED BY Zenon, <1>1, <3>1 DEF Others, Own
  <2>3. \A k \in Lives : lifePc'[k] \in Connected => conn'[owner'[k]] = k
    BY Zenon, <1>1, <1>2, <2>1 DEF Own
  <2>4. status' = "running" => \E k \in Lives : lifePc'[k] \in Reported
    <3>1. CASE lifePc'[l] \in Reported
      BY Zenon, <3>1
    <3>2. CASE status = "running" /\ lifePc[l] \notin Reported
      BY Zenon, <1>3, <2>1, <3>2 DEF SupInv, RunInv
    <3> QED BY Zenon, <1>1, <3>1, <3>2 DEF Own
  <2>5. \A k \in Lives : lifePc'[k] \in Budgeted => restarts'[owner'[k]] <= BudgetMax
    BY Zenon, <1>1, <1>2, <2>1 DEF Own
  <2>6. \A k \in Lives : Alive(k)' => state'[owner'[k]] # "quarantined"
    BY Zenon, <1>1, <1>2, <1>3 DEF Own, Alive
  <2> QED BY Zenon, <2>2, <2>3, <2>4, <2>5, <2>6 DEF RunInv
<1> QED BY Zenon, <1>5, <1>6, <1>7, <1>8, <1>9 DEF SupInv

-----------------------------------------------------------------------------
(* A step of the only caller, or of the surroundings.                      *)

\* The life that has not ended is that of the registered instance, or of the
\* one the caller unregisters.
LEMMA OwnerKnown ==
  ASSUME OneCaller, SupInv, NEW c \in Callers, NEW l \in Lives, Alive(l)
  PROVE  /\ owner[l] # None /\ life[owner[l]] = l
         /\ registered = owner[l] \/ (Leaving(c) /\ target[c] = owner[l])
<1>1. \A d \in Callers : d = c
  BY Zenon DEF OneCaller
<1>2. LivesInv
  BY Zenon DEF SupInv
<1>3. owner[l] # None
  BY Zenon, <1>2 DEF LivesInv, Alive
<1>4. /\ life[owner[l]] = l
      /\ registered = owner[l] \/ \E d \in Callers : Leaving(d) /\ target[d] = owner[l]
  BY Zenon, <1>2 DEF LivesInv
<1> QED BY Zenon, <1>1, <1>3, <1>4

LEMMA Registered ==
  ASSUME OneCaller, SupInv, NEW c \in Callers, ~Leaving(c)
  PROVE  \A l \in Lives : Alive(l) => registered = owner[l] /\ registered # None
  BY Zenon, OwnerKnown

\* A step that launches nothing and moves the caller on.
LEMMA CallFrame ==
  ASSUME OneCaller, SupInv, NEW c \in Callers,
         callPc' \in [Callers -> CallPcs], op' \in [Callers -> Ops],
         target' \in [Callers -> Nat], registered' \in 0 .. objects,
         UNCHANGED <<objects, owner, lifePc, life, conn, restarts, status>>,
         process' \subseteq process,
         state' \in [Objects -> States],
         \A o \in Objects : \/ state'[o] = state[o]
                            \/ state'[o] # "quarantined" /\ o <= objects,
         callPc'[c] # "launch",
         callPc'[c] \in Stopping \cup {"reset"} => target'[c] \in 1 .. objects,
         callPc'[c] \in Stopping /\ op'[c] # "unregister" => target'[c] = registered',
         callPc'[c] = "reset" => target'[c] = registered' /\ \A l \in Lives : ~Alive(l),
         \A l \in Lives :
           Alive(l) => registered' = owner[l] \/ (Leaving(c)' /\ target'[c] = owner[l])
  PROVE  SupInv'
<1>1. \A d \in Callers : d = c
  BY Zenon DEF OneCaller
<1>2. /\ objects' = objects /\ owner' = owner /\ lifePc' = lifePc /\ life' = life
      /\ conn' = conn /\ restarts' = restarts /\ status' = status
  BY Zenon
<1>3. \A l \in Lives : Alive(l)' <=> Alive(l)
  BY Zenon, <1>2 DEF Alive
<1>4. SupType'
  <2>1. process' \subseteq Lives
    BY Zenon DEF SupInv, SupType
  <2> QED BY Zenon, <1>2, <2>1 DEF SupInv, SupType
<1>5. LivesInv'
  <2>1. \A l \in Lives : owner'[l] <= objects' /\ (owner'[l] = None <=> lifePc'[l] = "none")
    BY ZenonT(40), <1>2 DEF SupInv, LivesInv
  <2>2. \A l, k \in Lives : Alive(l)' /\ Alive(k)' => l = k
    BY Zenon, <1>3 DEF SupInv, LivesInv
  <2>3. \A l \in Lives : Alive(l)' => life'[owner'[l]] = l
    BY Zenon, <1>2, <1>3 DEF SupInv, LivesInv
  <2>4. \A l \in Lives :
          Alive(l)' => \/ registered' = owner'[l]
                       \/ \E d \in Callers : Leaving(d)' /\ target'[d] = owner'[l]
    BY Zenon, <1>2, <1>3
  <2> QED BY Zenon, <2>1, <2>2, <2>3, <2>4 DEF LivesInv
<1>6. CallsInv'
  <2> SUFFICES ASSUME NEW d \in Callers
               PROVE  /\ callPc'[d] \in Stopping \cup {"launch", "reset"}
                           => target'[d] \in 1 .. objects'
                      /\ callPc'[d] \in Stopping /\ op'[d] # "unregister"
                           => target'[d] = registered'
                      /\ callPc'[d] \in {"launch", "reset"} =>
                           target'[d] = registered' /\ \A l \in Lives : ~Alive(l)'
                      /\ callPc'[d] # "launch"
    BY Zenon DEF CallsInv
  <2>1. d = c
    BY Zenon, <1>1
  <2> QED BY Zenon, <1>2, <1>3, <2>1
<1>7. Unmade'
  <2> SUFFICES ASSUME NEW o \in Objects, objects < o
               PROVE  state'[o] = "declared" /\ restarts'[o] = 0
    BY Zenon, <1>2 DEF Unmade
  <2>1. objects \in Nat /\ o \in Nat
    BY DEF Objects, SupInv, SupType
  <2>2. ~(o <= objects)
    BY <2>1
  <2>3. state'[o] = state[o]
    BY Zenon, <2>2
  <2> QED BY Zenon, <1>2, <2>3 DEF SupInv, Unmade
<1>8. RunInv'
  <2>1. \A l \in process' : lifePc'[l] \in Held
    BY Zenon, <1>2 DEF SupInv, RunInv
  <2>2. /\ \A l \in Lives : lifePc'[l] \in Connected => conn'[owner'[l]] = l
        /\ status' = "running" => \E l \in Lives : lifePc'[l] \in Reported
        /\ \A l \in Lives : lifePc'[l] \in Budgeted => restarts'[owner'[l]] <= BudgetMax
    BY Zenon, <1>2 DEF SupInv, RunInv
  <2>3. ASSUME NEW l \in Lives, Alive(l)
        PROVE  state'[owner[l]] # "quarantined"
    <3>1. owner[l] \in Objects
      <4>1. owner[l] \in Nat /\ owner[l] # None /\ owner[l] <= objects
        BY Zenon, <2>3 DEF SupInv, SupType, LivesInv, Alive
      <4>2. objects \in Nat /\ objects <= MaxObjects
        BY Zenon DEF SupInv, SupType
      <4> QED BY <4>1, <4>2, SupervisorAssumption DEF Objects, None
    <3>2. state[owner[l]] # "quarantined"
      BY Zenon, <2>3 DEF SupInv, RunInv
    <3> QED BY Zenon, <3>1, <3>2
  <2> QED BY Zenon, <1>2, <1>3, <2>1, <2>2, <2>3 DEF RunInv
<1> QED BY Zenon, <1>4, <1>5, <1>6, <1>7, <1>8 DEF SupInv

\* The same for a step that leaves the instances alone.
LEMMA CallMoves ==
  ASSUME OneCaller, SupInv, NEW c \in Callers,
         callPc' \in [Callers -> CallPcs], op' \in [Callers -> Ops],
         target' \in [Callers -> Nat], registered' \in 0 .. objects,
         UNCHANGED <<objects, owner, lifePc, life, conn, restarts, status, state>>,
         process' \subseteq process,
         callPc'[c] # "launch",
         callPc'[c] \in Stopping \cup {"reset"} => target'[c] \in 1 .. objects,
         callPc'[c] \in Stopping /\ op'[c] # "unregister" => target'[c] = registered',
         callPc'[c] = "reset" => target'[c] = registered' /\ \A l \in Lives : ~Alive(l),
         \A l \in Lives :
           Alive(l) => \/ registered' = owner[l]
                       \/ op'[c] = "unregister" /\ callPc'[c] \in Stopping /\ target'[c] = owner[l]
  PROVE  SupInv'
<1>1. state' = state /\ state' \in [Objects -> States]
  BY Zenon DEF SupInv, SupType
<1>2. UNCHANGED <<objects, owner, lifePc, life, conn, restarts, status>>
  BY Zenon
<1>3. \A l \in Lives :
        Alive(l) => registered' = owner[l] \/ (Leaving(c)' /\ target'[c] = owner[l])
  BY Zenon DEF Leaving
<1> QED BY Zenon, <1>1, <1>2, <1>3, CallFrame

LEMMA Kept ==
  ASSUME SupInv, NEW c \in Callers
  PROVE  /\ \A q \in CallPcs : callPc' = [callPc EXCEPT ![c] = q]
                                 => callPc' \in [Callers -> CallPcs] /\ callPc'[c] = q
         /\ \A r \in Ops : op' = [op EXCEPT ![c] = r]
                             => op' \in [Callers -> Ops] /\ op'[c] = r
         /\ \A t \in Nat : target' = [target EXCEPT ![c] = t]
                             => target' \in [Callers -> Nat] /\ target'[c] = t
         /\ op \in [Callers -> Ops] /\ target \in [Callers -> Nat]
         /\ op[c] \in Ops /\ target[c] \in Nat /\ callPc[c] \in CallPcs
         /\ registered \in 0 .. objects /\ None \in 0 .. objects
         /\ registered \in Nat /\ None \in Nat
         /\ registered # None => registered \in 1 .. objects
<1>1. op \in [Callers -> Ops] /\ target \in [Callers -> Nat] /\ callPc \in [Callers -> CallPcs]
  BY Zenon DEF SupInv, SupType
<1>2. registered \in 0 .. objects /\ objects \in Nat
  BY Zenon DEF SupInv, SupType
<1>3. \A q \in CallPcs : callPc' = [callPc EXCEPT ![c] = q]
                           => callPc' \in [Callers -> CallPcs] /\ callPc'[c] = q
  BY Zenon, <1>1
<1>4. \A r \in Ops : op' = [op EXCEPT ![c] = r] => op' \in [Callers -> Ops] /\ op'[c] = r
  BY Zenon, <1>1
<1>5. \A t \in Nat : target' = [target EXCEPT ![c] = t]
                       => target' \in [Callers -> Nat] /\ target'[c] = t
  BY Zenon, <1>1
<1>6. /\ None \in 0 .. objects /\ registered \in Nat /\ None \in Nat
      /\ registered # None => registered \in 1 .. objects
  BY <1>2 DEF None
<1> QED BY Zenon, <1>1, <1>2, <1>3, <1>4, <1>5, <1>6

\* The calls of the host up to the shutdown of the instance.
LEMMA CallBegins ==
  ASSUME OneCaller, SupInv, NEW c \in Callers,
         Register(c) \/ Unregister(c) \/ Restart(c) \/ Stop(c) \/ StopTargets(c)
  PROVE  SupInv'
<1>1. callPc[c] \in {"idle", "stop"}
  BY Zenon DEF Register, Unregister, Restart, Stop, StopTargets
<1>2. \A l \in Lives : Alive(l) => registered = owner[l]
  <2>1. ~Leaving(c)
    BY <1>1 DEF Leaving, Stopping
  <2> QED BY Zenon, <2>1, Registered
<1>3. /\ \A q \in CallPcs : callPc' = [callPc EXCEPT ![c] = q]
                              => callPc' \in [Callers -> CallPcs] /\ callPc'[c] = q
      /\ \A r \in Ops : op' = [op EXCEPT ![c] = r] => op' \in [Callers -> Ops] /\ op'[c] = r
      /\ \A o \in Nat : target' = [target EXCEPT ![c] = o]
                          => target' \in [Callers -> Nat] /\ target'[c] = o
      /\ op \in [Callers -> Ops] /\ target \in [Callers -> Nat]
      /\ registered \in 0 .. objects /\ None \in 0 .. objects /\ registered \in Nat
      /\ registered # None => registered \in 1 .. objects
  BY Zenon, Kept
<1>4. /\ "idle" \in CallPcs \ (Stopping \cup {"reset", "launch"})
      /\ "insert" \in CallPcs \ (Stopping \cup {"reset", "launch"})
      /\ "stop" \in CallPcs \ (Stopping \cup {"reset", "launch"})
      /\ "shutdown" \in CallPcs \cap Stopping
      /\ "shutdown" # "reset" /\ "shutdown" # "launch"
      /\ {"none", "register", "unregister", "restart", "stop"} \subseteq Ops
      /\ "restart" # "unregister"
  BY DEF CallPcs, Stopping, Ops
<1>5. process' = process
  BY Zenon DEF Register, Unregister, Restart, Stop, StopTargets, lifeVars
<1>6. process' \subseteq process
  BY Zenon, <1>5
<1>7. UNCHANGED <<objects, owner, lifePc, life, conn, restarts, status, state>>
  BY Zenon DEF Register, Unregister, Restart, Stop, StopTargets, hostVars, objVars, lifeVars
<1>8. CASE Register(c)
  <2>1. /\ callPc' = [callPc EXCEPT ![c] = "insert"] /\ op' = [op EXCEPT ![c] = "register"]
        /\ target' = target /\ registered' = registered
    BY Zenon, <1>8 DEF Register, Goto, Called, hostVars
  <2>2. callPc'[c] = "insert" /\ op'[c] = "register"
    BY Zenon, <1>3, <1>4, <2>1
  <2>3. /\ callPc' \in [Callers -> CallPcs] /\ op' \in [Callers -> Ops]
        /\ target' \in [Callers -> Nat] /\ registered' \in 0 .. objects
    BY Zenon, <1>3, <1>4, <2>1
  <2> QED BY Zenon, <1>2, <1>3, <1>4, <1>6, <1>7, <2>1, <2>2, <2>3, CallMoves
<1>9. CASE Unregister(c)
  <2>1. /\ callPc' = [callPc EXCEPT ![c] = "shutdown"] /\ op' = [op EXCEPT ![c] = "unregister"]
        /\ target' = [target EXCEPT ![c] = registered] /\ registered' = None
        /\ registered # None
    BY Zenon, <1>9 DEF Unregister, Goto, Called, On
  <2>2. callPc'[c] = "shutdown" /\ op'[c] = "unregister" /\ target'[c] = registered
    BY Zenon, <1>3, <1>4, <2>1
  <2>3. /\ callPc' \in [Callers -> CallPcs] /\ op' \in [Callers -> Ops]
        /\ target' \in [Callers -> Nat] /\ registered' \in 0 .. objects
    BY Zenon, <1>3, <1>4, <2>1
  <2> QED BY ZenonT(40), <1>2, <1>3, <1>4, <1>6, <1>7, <2>1, <2>2, <2>3, CallMoves
<1>10. CASE Restart(c)
  <2>1. /\ callPc' = [callPc EXCEPT ![c] = "shutdown"] /\ op' = [op EXCEPT ![c] = "restart"]
        /\ target' = [target EXCEPT ![c] = registered] /\ registered' = registered
        /\ registered # None
    BY Zenon, <1>10 DEF Restart, Goto, Called, On, hostVars
  <2>2. callPc'[c] = "shutdown" /\ op'[c] = "restart" /\ target'[c] = registered
    BY Zenon, <1>3, <1>4, <2>1
  <2>3. /\ callPc' \in [Callers -> CallPcs] /\ op' \in [Callers -> Ops]
        /\ target' \in [Callers -> Nat] /\ registered' \in 0 .. objects
    BY Zenon, <1>3, <1>4, <2>1
  <2> QED BY Zenon, <1>2, <1>3, <1>4, <1>6, <1>7, <2>1, <2>2, <2>3, CallMoves
<1>11. CASE Stop(c)
  <2>1. /\ callPc' = [callPc EXCEPT ![c] = "stop"] /\ op' = [op EXCEPT ![c] = "stop"]
        /\ target' = target /\ registered' = registered
    BY Zenon, <1>11 DEF Stop, Goto, Called
  <2>2. callPc'[c] = "stop" /\ op'[c] = "stop"
    BY Zenon, <1>3, <1>4, <2>1
  <2>3. /\ callPc' \in [Callers -> CallPcs] /\ op' \in [Callers -> Ops]
        /\ target' \in [Callers -> Nat] /\ registered' \in 0 .. objects
    BY Zenon, <1>3, <1>4, <2>1
  <2> QED BY Zenon, <1>2, <1>3, <1>4, <1>6, <1>7, <2>1, <2>2, <2>3, CallMoves
<1>12. CASE StopTargets(c)
  <2>1. registered' = registered
    BY Zenon, <1>12 DEF StopTargets, hostVars
  <2>2. CASE registered = None
    <3>1. /\ callPc' = [callPc EXCEPT ![c] = "idle"] /\ op' = [op EXCEPT ![c] = "none"]
          /\ target' = target
      BY Zenon, <1>12, <2>2 DEF StopTargets, Goto, Called
    <3>2. callPc'[c] = "idle" /\ op'[c] = "none"
      BY Zenon, <1>3, <1>4, <3>1
    <3>3. /\ callPc' \in [Callers -> CallPcs] /\ op' \in [Callers -> Ops]
          /\ target' \in [Callers -> Nat] /\ registered' \in 0 .. objects
      BY Zenon, <1>3, <1>4, <2>1, <3>1
    <3> QED BY Zenon, <1>2, <1>3, <1>4, <1>6, <1>7, <2>1, <3>1, <3>2, <3>3, CallMoves
  <2>3. CASE registered # None
    <3>1. /\ callPc' = [callPc EXCEPT ![c] = "shutdown"] /\ op' = op
          /\ target' = [target EXCEPT ![c] = registered]
      BY Zenon, <1>12, <2>3 DEF StopTargets, Goto, On
    <3>2. callPc'[c] = "shutdown" /\ target'[c] = registered
      BY Zenon, <1>3, <1>4, <3>1
    <3>3. /\ callPc' \in [Callers -> CallPcs] /\ op' \in [Callers -> Ops]
          /\ target' \in [Callers -> Nat] /\ registered' \in 0 .. objects
      BY Zenon, <1>3, <1>4, <2>1, <3>1
    <3> QED BY Zenon, <1>2, <1>3, <1>4, <1>6, <1>7, <2>1, <2>3, <3>1, <3>2, <3>3, CallMoves
  <2> QED BY Zenon, <2>2, <2>3
<1> QED BY Zenon, <1>8, <1>9, <1>10, <1>11, <1>12

\* shutdownInstance up to its wait.
LEMMA ShutdownKeeps ==
  ASSUME OneCaller, SupInv, NEW c \in Callers,
         Shutdown(c) \/ CancelLife(c) \/ ShutdownRPC(c)
  PROVE  SupInv'
<1>1. PICK q \in {"cancel", "rpc", "wait"} : callPc' = [callPc EXCEPT ![c] = q]
  BY Zenon DEF Shutdown, CancelLife, ShutdownRPC, Goto
<1>2. /\ \A w \in CallPcs : callPc' = [callPc EXCEPT ![c] = w]
                              => callPc' \in [Callers -> CallPcs] /\ callPc'[c] = w
      /\ \A r \in Ops : op' = [op EXCEPT ![c] = r] => op' \in [Callers -> Ops] /\ op'[c] = r
      /\ \A o \in Nat : target' = [target EXCEPT ![c] = o]
                          => target' \in [Callers -> Nat] /\ target'[c] = o
      /\ op \in [Callers -> Ops] /\ target \in [Callers -> Nat]
      /\ registered \in 0 .. objects
  BY Zenon, Kept
<1>3. q \in CallPcs /\ q \in Stopping /\ q # "launch" /\ q # "reset"
  BY <1>1 DEF CallPcs, Stopping
<1>4. callPc' \in [Callers -> CallPcs] /\ callPc'[c] = q
  BY Zenon, <1>1, <1>2, <1>3
<1>5. /\ objects' = objects /\ owner' = owner /\ lifePc' = lifePc /\ life' = life
      /\ conn' = conn /\ restarts' = restarts /\ status' = status
      /\ op' = op /\ target' = target /\ registered' = registered
  BY Zenon DEF Shutdown, CancelLife, ShutdownRPC, hostVars, objVars, lifeVars
<1>6. process' \subseteq process
  <2>1. CASE Shutdown(c) \/ CancelLife(c)
    BY Zenon, <2>1 DEF Shutdown, CancelLife, lifeVars
  <2>2. CASE ShutdownRPC(c)
    BY Zenon, <2>2 DEF ShutdownRPC
  <2> QED BY Zenon, <2>1, <2>2
<1>7. callPc[c] \in Stopping
  <2>1. callPc[c] \in {"shutdown", "cancel", "rpc"}
    BY Zenon DEF Shutdown, CancelLife, ShutdownRPC
  <2> QED BY <2>1 DEF Stopping
<1>8. /\ target[c] \in 1 .. objects
      /\ op[c] # "unregister" => target[c] = registered
  BY Zenon, <1>7 DEF SupInv, CallsInv
<1>9. \A l \in Lives :
        Alive(l) => registered = owner[l] \/ (Leaving(c)' /\ target[c] = owner[l])
  <2>1. Leaving(c) => Leaving(c)'
    BY Zenon, <1>3, <1>4, <1>5 DEF Leaving
  <2> QED BY Zenon, <2>1, OwnerKnown
<1>10. /\ state' \in [Objects -> States]
       /\ \A o \in Objects : \/ state'[o] = state[o]
                             \/ state'[o] # "quarantined" /\ o <= objects
  <2>1. CASE CancelLife(c) \/ ShutdownRPC(c)
    <3>1. state' = state
      BY Zenon, <2>1 DEF CancelLife, ShutdownRPC, objVars
    <3> QED BY Zenon, <3>1 DEF SupInv, SupType
  <2>2. CASE Shutdown(c)
    <3>1. state' = [state EXCEPT ![target[c]] = "stopping"]
      BY Zenon, <2>2 DEF Shutdown, SetState
    <3>2. state \in [Objects -> States]
      BY Zenon DEF SupInv, SupType
    <3>3. "stopping" \in States /\ "stopping" # "quarantined"
      BY DEF States
    <3>4. objects \in Nat /\ objects <= MaxObjects
      BY Zenon DEF SupInv, SupType
    <3>5. target[c] \in Objects /\ target[c] <= objects
      BY <1>8, <3>4, SupervisorAssumption DEF Objects
    <3> QED BY Zenon, <3>1, <3>2, <3>3, <3>5
  <2> QED BY Zenon, <2>1, <2>2
<1>11. /\ op' \in [Callers -> Ops] /\ target' \in [Callers -> Nat]
       /\ registered' \in 0 .. objects
       /\ target'[c] \in 1 .. objects
       /\ op'[c] # "unregister" => target'[c] = registered'
  BY Zenon, <1>2, <1>5, <1>8
<1>12. \A l \in Lives :
         Alive(l) => registered' = owner[l] \/ (Leaving(c)' /\ target'[c] = owner[l])
  BY Zenon, <1>5, <1>9
<1>13. UNCHANGED <<objects, owner, lifePc, life, conn, restarts, status>>
  BY Zenon, <1>5
<1> QED BY Zenon, <1>3, <1>4, <1>6, <1>10, <1>11, <1>12, <1>13, CallFrame

\* The wait for the life to end.  A life that has not ended would be the one
\* that is waited for.
LEMMA WaitKeeps ==
  ASSUME OneCaller, SupInv, NEW c \in Callers, Wait(c)
  PROVE  SupInv'
<1>1. /\ callPc[c] = "wait" /\ Released(c)
      /\ objects' = objects /\ owner' = owner /\ lifePc' = lifePc /\ life' = life
      /\ conn' = conn /\ restarts' = restarts /\ status' = status /\ state' = state
      /\ process' = process /\ registered' = registered
  BY Zenon DEF Wait, hostVars, objVars, lifeVars
<1>2. /\ \A q \in CallPcs : callPc' = [callPc EXCEPT ![c] = q]
                              => callPc' \in [Callers -> CallPcs] /\ callPc'[c] = q
      /\ \A r \in Ops : op' = [op EXCEPT ![c] = r] => op' \in [Callers -> Ops] /\ op'[c] = r
      /\ \A o \in Nat : target' = [target EXCEPT ![c] = o]
                          => target' \in [Callers -> Nat] /\ target'[c] = o
      /\ op \in [Callers -> Ops] /\ target \in [Callers -> Nat]
      /\ registered \in 0 .. objects
  BY Zenon, Kept
<1>3. "wait" \in Stopping /\ "wait" # "launch" /\ "wait" # "reset"
  BY DEF Stopping
<1>4. /\ target[c] \in 1 .. objects
      /\ op[c] # "unregister" => target[c] = registered
  BY Zenon, <1>1, <1>3 DEF SupInv, CallsInv
<1>5. \A l \in Lives : Alive(l) => owner[l] # target[c]
  <2> SUFFICES ASSUME NEW l \in Lives, Alive(l), owner[l] = target[c]
               PROVE  FALSE
    BY Zenon
  <2>1. life[target[c]] = l
    BY Zenon, OwnerKnown
  <2>2. l # None
    BY DEF Lives, None
  <2>3. c \notin Impatient
    BY Zenon DEF OneCaller
  <2> QED BY Zenon, <1>1, <2>1, <2>2, <2>3 DEF Released, Alive
<1>6. \A l \in Lives : Alive(l) => registered = owner[l] /\ op[c] = "unregister"
  <2> SUFFICES ASSUME NEW l \in Lives, Alive(l)
               PROVE  registered = owner[l] /\ op[c] = "unregister"
    BY Zenon
  <2>1. registered = owner[l] /\ registered # target[c]
    BY ZenonT(40), <1>5, OwnerKnown
  <2> QED BY Zenon, <1>4, <2>1
<1>7. UNCHANGED <<objects, owner, lifePc, life, conn, restarts, status, state>>
  BY Zenon, <1>1
<1>8. process' \subseteq process
  BY Zenon, <1>1
<1>9. CASE op[c] = "restart"
  <2>1. callPc' = [callPc EXCEPT ![c] = "reset"] /\ op' = op /\ target' = target
    BY Zenon, <1>9 DEF Wait, Goto
  <2>2. "reset" \in CallPcs /\ "reset" \notin Stopping /\ "reset" # "launch"
    BY DEF CallPcs, Stopping
  <2>3. "restart" # "unregister"
    OBVIOUS
  <2>4. callPc' \in [Callers -> CallPcs] /\ callPc'[c] = "reset"
    BY Zenon, <1>2, <2>1, <2>2
  <2>5. /\ op' \in [Callers -> Ops] /\ target' \in [Callers -> Nat]
        /\ registered' \in 0 .. objects /\ target'[c] = registered'
        /\ target'[c] \in 1 .. objects
    BY Zenon, <1>1, <1>2, <1>4, <1>9, <2>1, <2>3
  <2>6. \A l \in Lives : ~Alive(l)
    BY Zenon, <1>6, <1>9, <2>3
  <2> QED BY Zenon, <1>7, <1>8, <2>2, <2>4, <2>5, <2>6, CallMoves
<1>10. CASE op[c] # "restart"
  <2>1. /\ callPc' = [callPc EXCEPT ![c] = "idle"]
        /\ op' = [op EXCEPT ![c] = "none"] /\ target' = [target EXCEPT ![c] = None]
    BY Zenon, <1>10 DEF Wait, Goto, Called, On
  <2>2. /\ "idle" \in CallPcs /\ "idle" \notin Stopping \cup {"reset", "launch"}
        /\ "none" \in Ops /\ None \in Nat
    BY DEF CallPcs, Stopping, Ops, None
  <2>3. callPc' \in [Callers -> CallPcs] /\ callPc'[c] = "idle"
    BY Zenon, <1>2, <2>1, <2>2
  <2>4. /\ op' \in [Callers -> Ops] /\ target' \in [Callers -> Nat]
        /\ registered' \in 0 .. objects
    BY Zenon, <1>1, <1>2, <2>1, <2>2
  <2>5. \A l \in Lives : Alive(l) => registered' = owner[l]
    BY Zenon, <1>1, <1>6
  <2> QED BY Zenon, <1>7, <1>8, <2>2, <2>3, <2>4, <2>5, CallMoves
<1> QED BY Zenon, <1>9, <1>10

\* Once every life has ended nothing is left of them.
LEMMA Quiet ==
  ASSUME SupInv, \A l \in Lives : ~Alive(l)
  PROVE  /\ process = {} /\ status # "running"
         /\ \A l \in Lives : lifePc[l] \notin Held \cup Connected \cup Reported \cup Budgeted
<1>1. \A l \in Lives : lifePc[l] \notin Held \cup Connected \cup Reported \cup Budgeted
  <2>1. \A l \in Lives : lifePc[l] \in {"none", "exit"}
    BY Zenon DEF Alive
  <2> QED BY <2>1 DEF Held, Connected, Reported, Budgeted
<1>2. process \subseteq Lives /\ \A l \in process : lifePc[l] \in Held
  BY Zenon DEF SupInv, SupType, RunInv
<1>3. process = {}
  BY Zenon, <1>1, <1>2
<1>4. status # "running"
  BY Zenon, <1>1 DEF SupInv, RunInv
<1> QED BY Zenon, <1>1, <1>3, <1>4

\* A step taken when every life has ended, which makes an instance ready to be
\* launched.
LEMMA ReadyKeeps ==
  ASSUME OneCaller, SupInv, NEW c \in Callers, \A l \in Lives : ~Alive(l),
         callPc' \in [Callers -> CallPcs], callPc'[c] = "launch",
         op' \in [Callers -> Ops], target' \in [Callers -> Nat],
         objects' \in Nat, objects <= objects', objects' <= MaxObjects,
         target'[c] \in 1 .. objects', registered' = target'[c],
         UNCHANGED <<owner, lifePc, life, process, status>>,
         state' \in [Objects -> States], conn' \in [Objects -> Nat],
         restarts' \in [Objects -> Nat],
         state'[target'[c]] = "declared", restarts'[target'[c]] = 0,
         \A o \in Objects :
           objects' < o => state'[o] = state[o] /\ restarts'[o] = restarts[o]
  PROVE  SupInv'
<1>1. \A d \in Callers : d = c
  BY Zenon DEF OneCaller
<1>2. /\ owner' = owner /\ lifePc' = lifePc /\ life' = life /\ process' = process
      /\ status' = status
  BY Zenon
<1>3. \A l \in Lives : ~Alive(l)'
  BY Zenon, <1>2 DEF Alive
<1>4. SupType'
  <2>1. registered' \in 0 .. objects'
    BY DEF SupInv
  <2> QED BY Zenon, <1>2, <2>1 DEF SupInv, SupType
<1>5. LivesInv'
  <2>1. \A l \in Lives : owner[l] \in Nat /\ owner[l] <= objects /\ objects \in Nat
    BY Zenon DEF SupInv, SupType, LivesInv
  <2>2. \A l \in Lives : owner[l] <= objects'
    BY <2>1
  <2>3. \A l \in Lives : owner'[l] <= objects' /\ (owner'[l] = None <=> lifePc'[l] = "none")
    <3>1. \A l \in Lives : owner[l] = None <=> lifePc[l] = "none"
      BY Zenon DEF SupInv, LivesInv
    <3> QED BY Zenon, <1>2, <2>2, <3>1
  <2>4. /\ \A l, k \in Lives : Alive(l)' /\ Alive(k)' => l = k
        /\ \A l \in Lives :
             Alive(l)' =>
               /\ life'[owner'[l]] = l
               /\ registered' = owner'[l] \/ \E d \in Callers : Leaving(d)' /\ target'[d] = owner'[l]
    BY Zenon, <1>3
  <2> QED BY Zenon, <2>3, <2>4 DEF LivesInv
<1>6. CallsInv'
  <2>1. "launch" \notin Stopping
    BY DEF Stopping
  <2> SUFFICES ASSUME NEW d \in Callers
               PROVE  /\ target'[d] \in 1 .. objects'
                      /\ callPc'[d] \notin Stopping
                      /\ target'[d] = registered' /\ \A l \in Lives : ~Alive(l)'
                      /\ state'[target'[d]] = "declared" /\ restarts'[target'[d]] = 0
    BY Zenon DEF CallsInv
  <2>2. d = c
    BY Zenon, <1>1
  <2> QED BY Zenon, <1>3, <2>1, <2>2
<1>7. Unmade'
  <2> SUFFICES ASSUME NEW o \in Objects, objects' < o
               PROVE  state'[o] = "declared" /\ restarts'[o] = 0
    BY Zenon DEF Unmade
  <2>1. objects < o
    BY DEF SupInv, SupType, Objects
  <2> QED BY Zenon, <2>1 DEF SupInv, Unmade
<1>8. RunInv'
  <2>1. /\ process' = {} /\ status' # "running"
        /\ \A l \in Lives : lifePc'[l] \notin Held \cup Connected \cup Reported \cup Budgeted
    BY Zenon, <1>2, Quiet
  <2> QED BY Zenon, <1>3, <2>1 DEF RunInv
<1> QED BY Zenon, <1>4, <1>5, <1>6, <1>7, <1>8 DEF SupInv

LEMMA InsertKeeps ==
  ASSUME OneCaller, SupInv, NEW c \in Callers, Insert(c)
  PROVE  SupInv'
<1>1. /\ callPc[c] = "insert"
      /\ owner' = owner /\ lifePc' = lifePc /\ life' = life /\ process' = process
      /\ status' = status /\ state' = state /\ conn' = conn /\ restarts' = restarts
  BY Zenon DEF Insert, objVars, lifeVars
<1>2. /\ \A q \in CallPcs : callPc' = [callPc EXCEPT ![c] = q]
                              => callPc' \in [Callers -> CallPcs] /\ callPc'[c] = q
      /\ \A r \in Ops : op' = [op EXCEPT ![c] = r] => op' \in [Callers -> Ops] /\ op'[c] = r
      /\ \A o \in Nat : target' = [target EXCEPT ![c] = o]
                          => target' \in [Callers -> Nat] /\ target'[c] = o
      /\ op \in [Callers -> Ops] /\ target \in [Callers -> Nat]
      /\ registered \in 0 .. objects
  BY Zenon, Kept
<1>3. /\ "idle" \in CallPcs /\ "idle" \notin Stopping \cup {"reset", "launch"}
      /\ "launch" \in CallPcs /\ "none" \in Ops
  BY DEF CallPcs, Stopping, Ops
<1>4. \A l \in Lives : Alive(l) => registered = owner[l] /\ registered # None
  <2>1. ~Leaving(c)
    BY <1>1 DEF Leaving, Stopping
  <2> QED BY Zenon, <2>1, Registered
<1>5. CASE registered # None
  <2>1. /\ callPc' = [callPc EXCEPT ![c] = "idle"] /\ op' = [op EXCEPT ![c] = "none"]
        /\ target' = target /\ registered' = registered /\ objects' = objects
    BY Zenon, <1>5 DEF Insert, Goto, Called
  <2>2. callPc' \in [Callers -> CallPcs] /\ callPc'[c] = "idle"
    BY Zenon, <1>2, <1>3, <2>1
  <2>3. /\ op' \in [Callers -> Ops] /\ target' \in [Callers -> Nat]
        /\ registered' \in 0 .. objects
    BY Zenon, <1>2, <1>3, <2>1
  <2>4. UNCHANGED <<objects, owner, lifePc, life, conn, restarts, status, state>>
    BY Zenon, <1>1, <2>1
  <2>5. process' \subseteq process /\ \A l \in Lives : Alive(l) => registered' = owner[l]
    BY Zenon, <1>1, <1>4, <2>1
  <2> QED BY Zenon, <1>3, <2>2, <2>3, <2>4, <2>5, CallMoves
<1>6. CASE registered = None
  <2>1. /\ callPc' = [callPc EXCEPT ![c] = "launch"] /\ op' = op
        /\ objects < MaxObjects /\ objects' = objects + 1 /\ registered' = objects + 1
        /\ target' = [target EXCEPT ![c] = objects + 1]
    BY Zenon, <1>6 DEF Insert, Goto, On
  <2>2. objects \in Nat
    BY Zenon DEF SupInv, SupType
  <2>3. /\ objects + 1 \in Nat /\ objects <= objects + 1 /\ objects + 1 <= MaxObjects
        /\ objects + 1 \in 1 .. (objects + 1) /\ objects + 1 \in Objects
        /\ objects < objects + 1
    BY <2>1, <2>2, SupervisorAssumption DEF Objects
  <2>4. callPc' \in [Callers -> CallPcs] /\ callPc'[c] = "launch" /\ op' \in [Callers -> Ops]
    BY Zenon, <1>2, <1>3, <2>1
  <2>5. target' \in [Callers -> Nat] /\ target'[c] = objects + 1
    BY Zenon, <1>2, <2>1, <2>3
  <2>6. /\ objects' \in Nat /\ objects <= objects' /\ objects' <= MaxObjects
        /\ target'[c] \in 1 .. objects' /\ registered' = target'[c]
    BY Zenon, <2>1, <2>3, <2>5
  <2>7. state[objects + 1] = "declared" /\ restarts[objects + 1] = 0
    BY Zenon, <2>3 DEF SupInv, Unmade
  <2>8. state'[target'[c]] = "declared" /\ restarts'[target'[c]] = 0
    BY Zenon, <1>1, <2>5, <2>7
  <2>9. /\ state' \in [Objects -> States] /\ conn' \in [Objects -> Nat]
        /\ restarts' \in [Objects -> Nat]
        /\ \A o \in Objects : state'[o] = state[o] /\ restarts'[o] = restarts[o]
    BY Zenon, <1>1 DEF SupInv, SupType
  <2>10. UNCHANGED <<owner, lifePc, life, process, status>> /\ \A l \in Lives : ~Alive(l)
    BY Zenon, <1>1, <1>4, <1>6
  <2> QED BY Zenon, <2>4, <2>5, <2>6, <2>8, <2>9, <2>10, ReadyKeeps
<1> QED BY Zenon, <1>5, <1>6

\* RestartInstance forgets the past of an instance none of whose lives is left.
LEMMA ResetKeeps ==
  ASSUME OneCaller, SupInv, NEW c \in Callers, Reset(c)
  PROVE  SupInv'
<1>1. /\ callPc[c] = "reset" /\ callPc' = [callPc EXCEPT ![c] = "launch"]
      /\ restarts' = [restarts EXCEPT ![target[c]] = 0]
      /\ conn' = [conn EXCEPT ![target[c]] = None]
      /\ state' = [state EXCEPT ![target[c]] = "declared"]
  BY Zenon DEF Reset, Goto, SetState
<1>2. /\ registered' = registered /\ objects' = objects /\ life' = life
      /\ owner' = owner /\ lifePc' = lifePc /\ process' = process
      /\ op' = op /\ target' = target /\ status' = status
  BY Zenon DEF Reset, hostVars, lifeVars
<1>3. /\ target[c] \in 1 .. objects /\ target[c] = registered
      /\ \A l \in Lives : ~Alive(l)
  BY Zenon, <1>1 DEF SupInv, CallsInv
<1>4. /\ objects \in Nat /\ objects <= MaxObjects /\ state \in [Objects -> States]
      /\ restarts \in [Objects -> Nat] /\ conn \in [Objects -> Nat]
      /\ callPc \in [Callers -> CallPcs] /\ op \in [Callers -> Ops]
      /\ target \in [Callers -> Nat]
  BY Zenon DEF SupInv, SupType
<1>5. /\ target[c] \in Objects /\ objects <= objects
      /\ \A o \in Objects : objects < o => o # target[c]
  BY <1>3, <1>4, SupervisorAssumption DEF Objects
<1>6. "launch" \in CallPcs /\ "declared" \in States /\ None \in Nat /\ 0 \in Nat
  BY DEF CallPcs, States, None
<1>7. callPc' \in [Callers -> CallPcs] /\ callPc'[c] = "launch"
  BY Zenon, <1>1, <1>4, <1>6
<1>8. /\ restarts' \in [Objects -> Nat] /\ restarts'[target[c]] = 0
      /\ \A o \in Objects : o # target[c] => restarts'[o] = restarts[o]
  BY Zenon, <1>1, <1>4, <1>5, <1>6
<1>9. /\ state' \in [Objects -> States] /\ state'[target[c]] = "declared"
      /\ \A o \in Objects : o # target[c] => state'[o] = state[o]
  BY Zenon, <1>1, <1>4, <1>5, <1>6
<1>10. conn' \in [Objects -> Nat]
  BY Zenon, <1>1, <1>4, <1>5, <1>6
<1>11. /\ objects' \in Nat /\ objects <= objects' /\ objects' <= MaxObjects
       /\ target'[c] \in 1 .. objects' /\ registered' = target'[c]
       /\ op' \in [Callers -> Ops] /\ target' \in [Callers -> Nat]
       /\ state'[target'[c]] = "declared" /\ restarts'[target'[c]] = 0
  BY Zenon, <1>2, <1>3, <1>4, <1>5, <1>8, <1>9
<1>12. \A o \in Objects :
         objects' < o => state'[o] = state[o] /\ restarts'[o] = restarts[o]
  BY Zenon, <1>2, <1>5, <1>8, <1>9
<1>13. UNCHANGED <<owner, lifePc, life, process, status>>
  BY Zenon, <1>2
<1> QED BY Zenon, <1>3, <1>7, <1>8, <1>9, <1>10, <1>11, <1>12, <1>13, ReadyKeeps

\* launchLifecycle: every earlier life has ended, so the new one is alone.
LEMMA LaunchKeeps ==
  ASSUME OneCaller, SupInv, NEW c \in Callers, Launch(c)
  PROVE  SupInv'
<1>1. PICK l \in Lives :
        /\ owner[l] = None
        /\ life' = [life EXCEPT ![target[c]] = l]
        /\ owner' = [owner EXCEPT ![l] = target[c]]
        /\ lifePc' = [lifePc EXCEPT ![l] = "top"]
  BY Zenon DEF Launch
<1>2. /\ callPc[c] = "launch" /\ callPc' = [callPc EXCEPT ![c] = "idle"]
      /\ op' = [op EXCEPT ![c] = "none"] /\ target' = [target EXCEPT ![c] = None]
      /\ registered' = registered /\ objects' = objects /\ state' = state /\ conn' = conn
      /\ restarts' = restarts /\ process' = process /\ status' = status
  BY Zenon DEF Launch, Goto, Called, On, hostVars
<1>3. /\ target[c] \in 1 .. objects /\ target[c] = registered
      /\ \A k \in Lives : ~Alive(k)
      /\ state[target[c]] = "declared" /\ restarts[target[c]] = 0
  BY Zenon, <1>2 DEF SupInv, CallsInv
<1>4. /\ objects \in Nat /\ objects <= MaxObjects /\ life \in [Objects -> Nat]
      /\ owner \in [Lives -> Nat] /\ lifePc \in [Lives -> LifePcs]
      /\ callPc \in [Callers -> CallPcs] /\ op \in [Callers -> Ops]
      /\ target \in [Callers -> Nat]
  BY Zenon DEF SupInv, SupType
<1>5. /\ target[c] \in Objects /\ target[c] \in Nat /\ target[c] <= objects
      /\ target[c] # None /\ l \in Nat
  BY <1>3, <1>4, SupervisorAssumption DEF Objects, Lives, None
<1>6. /\ "idle" \in CallPcs /\ "idle" \notin Stopping \cup {"launch", "reset"}
      /\ "none" \in Ops /\ None \in Nat /\ "top" \in LifePcs /\ "top" \notin {"none", "exit"}
      /\ "declared" # "quarantined" /\ 0 <= BudgetMax
      /\ "top" \notin Held \cup Connected \cup Reported
  BY SupervisorAssumption
     DEF CallPcs, Stopping, Ops, None, LifePcs, Held, Connected, Reported
<1>7. /\ lifePc' \in [Lives -> LifePcs] /\ lifePc'[l] = "top"
      /\ \A k \in Lives : k # l => lifePc'[k] = lifePc[k]
  BY Zenon, <1>1, <1>4, <1>6
<1>8. /\ owner' \in [Lives -> Nat] /\ owner'[l] = target[c]
      /\ \A k \in Lives : k # l => owner'[k] = owner[k]
  BY Zenon, <1>1, <1>4, <1>5
<1>9. life' \in [Objects -> Nat] /\ life'[target[c]] = l
  BY Zenon, <1>1, <1>4, <1>5
<1>10. callPc' \in [Callers -> CallPcs] /\ callPc'[c] = "idle"
  BY Zenon, <1>2, <1>4, <1>6
<1>11. op' \in [Callers -> Ops] /\ target' \in [Callers -> Nat]
  BY Zenon, <1>2, <1>4, <1>6
<1>12. \A k \in Lives : Alive(k)' => k = l
  BY Zenon, <1>3, <1>7 DEF Alive
<1>13. SupType'
  BY Zenon, <1>2, <1>7, <1>8, <1>9, <1>10, <1>11 DEF SupInv, SupType
<1>14. LivesInv'
  <2>1. \A k \in Lives : owner'[k] <= objects' /\ (owner'[k] = None <=> lifePc'[k] = "none")
    <3>1. \A k \in Lives : owner[k] <= objects /\ (owner[k] = None <=> lifePc[k] = "none")
      BY Zenon DEF SupInv, LivesInv
    <3> QED BY Zenon, <1>2, <1>5, <1>6, <1>7, <1>8, <3>1
  <2>2. life'[owner'[l]] = l /\ registered' = owner'[l]
    BY Zenon, <1>2, <1>3, <1>8, <1>9
  <2> QED BY Zenon, <1>12, <2>1, <2>2 DEF LivesInv
<1>15. CallsInv'
  <2>1. \A d \in Callers : callPc'[d] = "idle"
    BY Zenon, <1>10 DEF OneCaller
  <2> QED BY Zenon, <1>6, <2>1 DEF CallsInv
<1>16. Unmade'
  BY Zenon, <1>2 DEF SupInv, Unmade
<1>17. RunInv'
  <2>1. /\ process = {} /\ status # "running"
        /\ \A k \in Lives : lifePc[k] \notin Held \cup Connected \cup Reported \cup Budgeted
    BY Zenon, <1>3, Quiet
  <2>2. \A k \in Lives : lifePc'[k] \in Connected => conn'[owner'[k]] = k
    BY Zenon, <1>6, <1>7, <2>1
  <2>3. \A k \in Lives : lifePc'[k] \in Budgeted => restarts'[owner'[k]] <= BudgetMax
    BY Zenon, <1>2, <1>3, <1>6, <1>7, <1>8, <2>1
  <2>4. \A k \in Lives : Alive(k)' => state'[owner'[k]] # "quarantined"
    BY Zenon, <1>2, <1>3, <1>6, <1>8, <1>12
  <2> QED BY Zenon, <1>2, <2>1, <2>2, <2>3, <2>4 DEF RunInv
<1> QED BY Zenon, <1>13, <1>14, <1>15, <1>16, <1>17 DEF SupInv

\* The process dies, or the host's context ends, or nothing happens.
LEMMA AroundKeeps ==
  ASSUME SupInv, process' \subseteq process,
         UNCHANGED <<registered, objects, state, conn, restarts, life, owner, lifePc,
                     callPc, op, target, status>>
  PROVE  SupInv'
<1>1. /\ registered' = registered /\ objects' = objects /\ state' = state /\ conn' = conn
      /\ restarts' = restarts /\ life' = life /\ owner' = owner /\ lifePc' = lifePc
      /\ callPc' = callPc /\ op' = op /\ target' = target /\ status' = status
  BY Zenon
<1>2. SupType'
  <2>1. process' \subseteq Lives
    BY Zenon DEF SupInv, SupType
  <2> QED BY Zenon, <1>1, <2>1 DEF SupInv, SupType
<1>3. LivesInv'
  <2>1. /\ \A l \in Lives : Alive(l)' <=> Alive(l)
        /\ \A c \in Callers : Leaving(c)' <=> Leaving(c)
    BY Zenon, <1>1 DEF Alive, Leaving
  <2>2. \A l \in Lives : owner'[l] <= objects' /\ (owner'[l] = None <=> lifePc'[l] = "none")
    BY Zenon, <1>1 DEF SupInv, LivesInv
  <2>3. \A l, k \in Lives : Alive(l)' /\ Alive(k)' => l = k
    BY Zenon, <2>1 DEF SupInv, LivesInv
  <2>4. \A l \in Lives :
          Alive(l)' =>
            /\ life'[owner'[l]] = l
            /\ \/ registered' = owner'[l]
               \/ \E c \in Callers : Leaving(c)' /\ target'[c] = owner'[l]
    <3> SUFFICES ASSUME NEW l \in Lives, Alive(l)
                 PROVE  /\ life[owner[l]] = l
                        /\ \/ registered = owner[l]
                           \/ \E c \in Callers : Leaving(c)' /\ target[c] = owner[l]
      BY ZenonT(40), <1>1, <2>1
    <3>1. LivesInv
      BY Zenon DEF SupInv
    <3>2. /\ life[owner[l]] = l
          /\ registered = owner[l] \/ \E c \in Callers : Leaving(c) /\ target[c] = owner[l]
      BY Zenon, <3>1 DEF LivesInv
    <3> QED BY Zenon, <2>1, <3>2
  <2> QED BY Zenon, <2>2, <2>3, <2>4 DEF LivesInv
<1>4. CallsInv'
  BY Zenon, <1>1 DEF SupInv, CallsInv, Alive
<1>5. Unmade'
  BY Zenon, <1>1 DEF SupInv, Unmade
<1>6. RunInv'
  <2>1. \A l \in process' : lifePc'[l] \in Held
    BY Zenon, <1>1 DEF SupInv, RunInv
  <2>2. /\ \A l \in Lives : lifePc'[l] \in Connected => conn'[owner'[l]] = l
        /\ status' = "running" => \E l \in Lives : lifePc'[l] \in Reported
        /\ \A l \in Lives : lifePc'[l] \in Budgeted => restarts'[owner'[l]] <= BudgetMax
    BY Zenon, <1>1 DEF SupInv, RunInv
  <2>3. \A l \in Lives : Alive(l)' => state'[owner'[l]] # "quarantined"
    BY Zenon, <1>1 DEF SupInv, RunInv, Alive
  <2> QED BY Zenon, <2>1, <2>2, <2>3 DEF RunInv
<1> QED BY Zenon, <1>2, <1>3, <1>4, <1>5, <1>6 DEF SupInv

-----------------------------------------------------------------------------
LEMMA InitSup == Init => SupInv
<1> SUFFICES ASSUME Init
             PROVE  SupInv
  BY Zenon
<1>1. SupType
  <2>1. /\ "declared" \in States /\ "none" \in LifePcs /\ "idle" \in CallPcs /\ "none" \in Ops
        /\ None \in Nat /\ 0 \in Nat /\ None \in 0 .. 0 /\ 0 <= MaxObjects
    BY SupervisorAssumption DEF States, LifePcs, CallPcs, Ops, None
  <2> QED BY Zenon, <2>1 DEF Init, SupType
<1>2. /\ \A l \in Lives : lifePc[l] = "none" /\ owner[l] = None
      /\ \A c \in Callers : callPc[c] = "idle"
      /\ \A o \in Objects : state[o] = "declared" /\ restarts[o] = 0
      /\ objects = 0 /\ process = {} /\ status = "none"
  BY Zenon DEF Init
<1>3. \A l \in Lives : ~Alive(l) /\ owner[l] <= objects
  BY <1>2 DEF Alive, None
<1>4. LivesInv
  BY Zenon, <1>2, <1>3 DEF LivesInv
<1>5. CallsInv
  <2>1. "idle" \notin Stopping \cup {"launch", "reset"} /\ "idle" # "launch"
    BY DEF Stopping
  <2> QED BY Zenon, <1>2, <2>1 DEF CallsInv
<1>6. Unmade
  BY Zenon, <1>2 DEF Unmade
<1>7. RunInv
  <2>1. "none" \notin Connected \cup Budgeted /\ "none" # "running"
    BY DEF Connected, Budgeted
  <2> QED BY Zenon, <1>2, <1>3, <2>1 DEF RunInv
<1> QED BY Zenon, <1>1, <1>4, <1>5, <1>6, <1>7 DEF SupInv

LEMMA NextSup ==
  ASSUME OneCaller, SupInv, [Next]_vars
  PROVE  SupInv'
<1>1. ASSUME NEW l \in Lives, LifeStep(l)
      PROVE  SupInv'
  BY Zenon, <1>1, LifeKeeps
<1>2. ASSUME NEW l \in Lives, ProcessDies(l)
      PROVE  SupInv'
  <2>1. process' = process \ {l}
    BY Zenon, <1>2 DEF ProcessDies
  <2>2. UNCHANGED <<registered, objects, state, conn, restarts, life, owner, lifePc,
                    callPc, op, target, status>>
    BY Zenon, <1>2 DEF ProcessDies, hostVars, objVars, callVars
  <2>3. process' \subseteq process
    BY Zenon, <2>1
  <2> QED BY Zenon, <2>2, <2>3, AroundKeeps
<1>3. CASE HostContextEnds \/ UNCHANGED vars
  <2>1. process' = process
    BY Zenon, <1>3 DEF HostContextEnds, vars, lifeVars
  <2>2. UNCHANGED <<registered, objects, state, conn, restarts, life, owner, lifePc,
                    callPc, op, target, status>>
    BY Zenon, <1>3 DEF HostContextEnds, vars, hostVars, objVars, lifeVars, callVars
  <2>3. process' \subseteq process
    BY Zenon, <2>1
  <2> QED BY Zenon, <2>2, <2>3, AroundKeeps
<1>4. ASSUME NEW c \in Callers,
             Register(c) \/ Unregister(c) \/ Restart(c) \/ Stop(c) \/ Progress(c)
      PROVE  SupInv'
  BY Zenon, <1>4, CallBegins, InsertKeeps, LaunchKeeps, ShutdownKeeps, WaitKeeps, ResetKeeps
     DEF Progress
<1> QED BY Zenon, <1>1, <1>2, <1>3, <1>4 DEF Next

\* One driver process serves the instance at a time, whatever the order in which
\* one goroutine registers, restarts, unregisters and stops it and wherever its
\* driver fails: RestartInstance and UnregisterInstance wait for the lifecycle
\* goroutine they cancelled, which leaves no process behind.
THEOREM ProcessCorrect ==
  ASSUME OneCaller
  PROVE  Spec => []OneProcess
<1>1. SupInv => OneProcess
  <2> SUFFICES ASSUME SupInv
               PROVE  Cardinality(process) <= 1
    BY Zenon DEF OneProcess
  <2>1. \A l \in process : l \in Lives /\ lifePc[l] \in Held
    BY Zenon DEF SupInv, SupType, RunInv
  <2>2. \A l \in process : l \in Lives /\ Alive(l)
    BY <2>1 DEF Held, Alive
  <2>3. \A l, k \in process : l = k
    BY Zenon, <2>2 DEF SupInv, LivesInv
  <2>4. CASE process = {}
    BY <2>4, FS_EmptySet
  <2>5. ASSUME NEW l \in process
        PROVE  Cardinality(process) <= 1
    <3>1. process = {l}
      BY Zenon, <2>3
    <3> QED BY <3>1, FS_Singleton
  <2> QED BY Zenon, <2>4, <2>5
<1>2. Init => SupInv
  BY InitSup
<1>3. SupInv /\ [Next]_vars => SupInv'
  BY Zenon, NextSup
<1> QED BY <1>1, <1>2, <1>3, PTL DEF Spec

\* A running driver is watched by a goroutine and has its connection published,
\* and none is left once UnregisterInstance has returned.
THEOREM WatchCorrect ==
  ASSUME OneCaller
  PROVE  Spec => []RunningIsWatched
<1>1. SupInv => RunningIsWatched
  <2> SUFFICES ASSUME SupInv
               PROVE  RunningIsWatched
    BY Zenon
  <2>1. status = "running" => \E l \in Lives : lifePc[l] \in {"health", "close", "clear"}
    BY Zenon DEF SupInv, RunInv, Reported
  <2>2. \A l \in Lives : lifePc[l] = "health" /\ l \notin cancelled => conn[owner[l]] = l
    <3>1. "health" \in Connected
      BY DEF Connected
    <3> QED BY Zenon, <3>1 DEF SupInv, RunInv
  <2>3. ASSUME Idle, registered = None
        PROVE  process = {}
    <3>1. \A c \in Callers : ~Leaving(c)
      BY <2>3 DEF Idle, Leaving, Stopping
    <3>2. \A l \in Lives : ~Alive(l)
      BY Zenon, <2>3, <3>1 DEF SupInv, LivesInv, Alive
    <3> QED BY Zenon, <3>2, Quiet
  <2> QED BY Zenon, <2>1, <2>2, <2>3 DEF RunningIsWatched
<1>2. Init => SupInv
  BY InitSup
<1>3. SupInv /\ [Next]_vars => SupInv'
  BY Zenon, NextSup
<1> QED BY <1>1, <1>2, <1>3, PTL DEF Spec

\* A quarantined instance only leaves by a call, and no process is spawned with
\* the restart budget used up: the goroutine that set the quarantine has ended,
\* and the next one starts with the past forgotten.
THEOREM QuarantineCorrect ==
  ASSUME OneCaller
  PROVE  Spec => QuarantineHolds
<1>1. ASSUME SupInv, Next, NEW o \in Objects, state[o] = "quarantined"
      PROVE  state'[o] \in {"quarantined", "stopping", "declared"}
  <2>1. ASSUME NEW l \in Lives, LifeStep(l)
        PROVE  state'[o] = state[o]
    <3>1. Alive(l) /\ Others(l)
      BY Zenon, <1>1, <2>1, LifeOwn
    <3>2. o # owner[l]
      BY Zenon, <1>1, <3>1 DEF SupInv, RunInv
    <3> QED BY Zenon, <1>1, <3>1, <3>2 DEF Others
  <2>2. ASSUME NEW l \in Lives, ProcessDies(l)
        PROVE  state'[o] = state[o]
    BY Zenon, <2>2 DEF ProcessDies, objVars
  <2>3. CASE HostContextEnds
    BY Zenon, <1>1, <2>3 DEF HostContextEnds, objVars
  <2>4. ASSUME NEW c \in Callers,
               Register(c) \/ Unregister(c) \/ Restart(c) \/ Stop(c) \/ Progress(c)
        PROVE  state'[o] \in {state[o], "stopping", "declared"}
    <3>1. state \in [Objects -> States]
      BY Zenon, <1>1 DEF SupInv, SupType
    <3>2. CASE Shutdown(c)
      BY Zenon, <1>1, <3>1, <3>2 DEF Shutdown, SetState
    <3>3. CASE Reset(c)
      BY Zenon, <1>1, <3>1, <3>3 DEF Reset, SetState
    <3>4. CASE Register(c) \/ Unregister(c) \/ Restart(c) \/ Stop(c) \/ Insert(c)
               \/ StopTargets(c) \/ CancelLife(c) \/ ShutdownRPC(c) \/ Wait(c) \/ Launch(c)
      <4>1. state' = state
        BY Zenon, <3>4 DEF Register, Unregister, Restart, Stop, Insert, StopTargets,
                           CancelLife, ShutdownRPC, Wait, Launch, objVars
      <4> QED BY Zenon, <4>1
    <3> QED BY Zenon, <2>4, <3>2, <3>3, <3>4 DEF Progress
  <2> QED BY Zenon, <1>1, <2>1, <2>2, <2>3, <2>4 DEF Next
<1>2. ASSUME SupInv, NEW l \in Lives, lifePc[l] = "top"
      PROVE  restarts[owner[l]] <= BudgetMax
  <2>1. "top" \in Budgeted
    BY DEF Budgeted
  <2> QED BY Zenon, <1>2, <2>1 DEF SupInv, RunInv
<1>3. SupInv /\ [Next]_vars =>
        [/\ \A o \in Objects :
              state[o] = "quarantined" =>
                state'[o] \in {"quarantined", "stopping", "declared"}
         /\ \A l \in Lives :
              lifePc[l] = "top" /\ lifePc'[l] = "spawn"
                => restarts[owner[l]] <= BudgetMax]_vars
  BY Zenon, <1>1, <1>2
<1>4. Init => SupInv
  BY InitSup
<1>5. SupInv /\ [Next]_vars => SupInv'
  BY Zenon, NextSup
<1> QED BY <1>3, <1>4, <1>5, PTL DEF Spec, QuarantineHolds

=============================================================================
