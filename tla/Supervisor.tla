----------------------------- MODULE Supervisor -----------------------------
(***************************************************************************)
(* The driver supervisor (internal/carport/supervisor.go, carport.go,      *)
(* control.go): one driver instance, the lifecycle goroutines that spawn   *)
(* and watch its process, and the callers that register, unregister and    *)
(* restart the instance and stop the host, each a goroutine of its own.    *)
(*                                                                         *)
(* The instance's identifier is fixed.  Unregistering and registering it   *)
(* again makes a new managedInstance, an element of Objects; each launch   *)
(* makes a new goroutine, an element of Lives, with its own context.       *)
(* Every critical section of managedInstance.mu is a step.  Driver events  *)
(* are appended between them and are kept as what they make of the         *)
(* registry's status row.                                                  *)
(***************************************************************************)
EXTENDS Naturals, FiniteSets

CONSTANTS
  Callers,        \* goroutines that call the host
  Impatient,      \* the callers whose context may end while they wait
  BudgetMax,      \* RestartBudgetMax
  MaxObjects,     \* bound: how often the instance is registered
  MaxLives        \* bound: how many lifecycle goroutines are launched

ASSUME SupervisorAssumption ==
  /\ Impatient \subseteq Callers
  /\ BudgetMax \in Nat
  /\ MaxObjects \in Nat \ {0}
  /\ MaxLives \in Nat \ {0}

Objects == 1 .. MaxObjects
Lives == 1 .. MaxLives
None == 0

VARIABLES
  registered,     \* Host.instances[id]: an object, or None
  stopped,        \* Host.stopped is closed
  hostDone,       \* the host's root context is cancelled
  state,          \* managedInstance.state, by object
  conn,           \* managedInstance.conn: the life that dialled it, or None
  restarts,       \* managedInstance.restartHistory: its length
  life,           \* cancelLifecycle and done: the last life launched, or None
  objects,        \* how many objects were made
  owner,          \* the object of each life, or None
  lifePc,         \* where each lifecycle goroutine is
  cancelled,      \* the lives whose context is cancelled
  process,        \* the lives whose driver process runs
  callPc,         \* where each caller is
  op,             \* what it was called to do
  target,         \* the object it works on
  seen,           \* the connection shutdownInstance saw, by caller
  status          \* the registry's status of the instance

hostVars == <<registered, stopped, hostDone, objects>>
objVars == <<state, conn, restarts, life>>
lifeVars == <<owner, lifePc, cancelled, process>>
callVars == <<callPc, op, target, seen>>
vars == <<hostVars, objVars, lifeVars, callVars, status>>

-----------------------------------------------------------------------------
States ==
  {"declared", "spawning", "awaiting", "running", "failed", "backoff",
   "quarantined", "stopping", "stopped"}

LifePcs == {"none", "top", "spawn", "handshake", "started", "health", "close",
            "clear", "stopped", "failed", "budget", "quarantine", "backoff",
            "sleep", "exit"}

CallPcs == {"idle", "insert", "launch", "stop", "shutdown", "cancel", "rpc",
            "wait", "reset"}

Init ==
  /\ registered = None
  /\ stopped = FALSE
  /\ hostDone = FALSE
  /\ objects = 0
  /\ state = [o \in Objects |-> "declared"]
  /\ conn = [o \in Objects |-> None]
  /\ restarts = [o \in Objects |-> 0]
  /\ life = [o \in Objects |-> None]
  /\ owner = [l \in Lives |-> None]
  /\ lifePc = [l \in Lives |-> "none"]
  /\ cancelled = {}
  /\ process = {}
  /\ callPc = [c \in Callers |-> "idle"]
  /\ op = [c \in Callers |-> "none"]
  /\ target = [c \in Callers |-> None]
  /\ seen = [c \in Callers |-> None]
  /\ status = "none"

\* An UPDATE of the status row, which "started" inserted.
Updated(new) == IF status = "none" THEN "none" ELSE new

-----------------------------------------------------------------------------
(* runLifecycle.  Each action is a step of life l of object o.             *)

SetState(o, s) == state' = [state EXCEPT ![o] = s]
GotoLife(l, place) == lifePc' = [lifePc EXCEPT ![l] = place]

\* The head of the loop.
Top(l, o) ==
  /\ lifePc[l] = "top"
  /\ \/ l \in cancelled /\ GotoLife(l, "exit") /\ UNCHANGED state
     \/ l \notin cancelled /\ GotoLife(l, "spawn") /\ SetState(o, "spawning")
  /\ UNCHANGED <<conn, restarts, process, status>>

\* The process starts and its socket appears.
SpawnOK(l, o) ==
  /\ lifePc[l] = "spawn"
  /\ SetState(o, "awaiting")
  /\ process' = process \cup {l}
  /\ GotoLife(l, "handshake")
  /\ UNCHANGED <<conn, restarts, status>>

\* It does not start, or is killed because its socket never appears or the
\* context ends.
SpawnError(l, o) ==
  /\ lifePc[l] = "spawn"
  /\ GotoLife(l, "failed")
  /\ UNCHANGED <<state, conn, restarts, process, status>>

HandshakeOK(l, o) ==
  /\ lifePc[l] = "handshake"
  /\ SetState(o, "running")
  /\ conn' = [conn EXCEPT ![o] = l]
  /\ GotoLife(l, "started")
  /\ UNCHANGED <<restarts, process, status>>

\* The deadline passes, the context ends, or the driver answers badly.  The
\* process is killed and waited for.
HandshakeFail(l, o) ==
  /\ lifePc[l] = "handshake"
  /\ process' = process \ {l}
  /\ GotoLife(l, "failed")
  /\ UNCHANGED <<state, conn, restarts, status>>

\* The "started" event, the initial entities, and the hooks.
Started(l, o) ==
  /\ lifePc[l] = "started"
  /\ status' = "running"
  /\ GotoLife(l, "health")
  /\ UNCHANGED <<state, conn, restarts, process>>

\* runHealth sees the end of the context.
HealthCancelled(l, o) ==
  /\ lifePc[l] = "health"
  /\ l \in cancelled
  /\ GotoLife(l, "close")
  /\ UNCHANGED <<state, conn, restarts, process, status>>

\* Too many probes in a row have failed.
HealthFails(l, o) ==
  /\ lifePc[l] = "health"
  /\ GotoLife(l, "close")
  /\ UNCHANGED <<state, conn, restarts, process, status>>

\* The connection is closed; the process exits or is killed, and is waited for.
CloseConn(l, o) ==
  /\ lifePc[l] = "close"
  /\ process' = process \ {l}
  /\ GotoLife(l, "clear")
  /\ UNCHANGED <<state, conn, restarts, status>>

\* Mutant: a cancelled life appends nothing.
MutClear(l, o) ==
  /\ lifePc[l] = "clear"
  /\ conn' = [conn EXCEPT ![o] = None]
  /\ \/ /\ l \in cancelled
        /\ UNCHANGED status
        /\ GotoLife(l, "stopped")
     \/ /\ l \notin cancelled
        /\ status' = Updated("failed")
        /\ GotoLife(l, "failed")
  /\ UNCHANGED <<state, restarts, process>>

\* The connection is forgotten and the context looked at.  Then "stopped" or
\* "failed" is appended.
Clear(l, o) ==
  /\ lifePc[l] = "clear"
  /\ conn' = [conn EXCEPT ![o] = None]
  /\ \/ /\ l \in cancelled
        /\ status' = Updated("stopped")
        /\ GotoLife(l, "stopped")
     \/ /\ l \notin cancelled
        /\ status' = Updated("failed")
        /\ GotoLife(l, "failed")
  /\ UNCHANGED <<state, restarts, process>>

\* transitionToStopped, and the goroutine's end.
TransitionToStopped(l, o) ==
  /\ lifePc[l] = "stopped"
  /\ SetState(o, "stopped")
  /\ GotoLife(l, "exit")
  /\ UNCHANGED <<conn, restarts, process, status>>

TransitionToFailed(l, o) ==
  /\ lifePc[l] = "failed"
  /\ SetState(o, "failed")
  /\ GotoLife(l, "budget")
  /\ UNCHANGED <<conn, restarts, process, status>>

\* scheduleBackoff: the attempts of the current window are counted, this one
\* included; those before the window, any number of the oldest, are dropped.
Budget(l, o) ==
  /\ lifePc[l] = "budget"
  /\ \E fresh \in 0 .. restarts[o] :
       /\ restarts' = [restarts EXCEPT ![o] = fresh + 1]
       /\ GotoLife(l, IF fresh + 1 > BudgetMax THEN "quarantine" ELSE "backoff")
  /\ UNCHANGED <<state, conn, process, status>>

\* Mutant: the loop goes on after the quarantine.
MutQuarantine(l, o) ==
  /\ lifePc[l] = "quarantine"
  /\ SetState(o, "quarantined")
  /\ GotoLife(l, "sleep")
  /\ UNCHANGED <<conn, restarts, process, status>>

\* Mutant: the goroutine waits to be restarted.
MutParked(l, o) ==
  /\ lifePc[l] = "quarantine"
  /\ SetState(o, "quarantined")
  /\ UNCHANGED <<lifePc, conn, restarts, process, status>>

Quarantine(l, o) ==
  /\ lifePc[l] = "quarantine"
  /\ SetState(o, "quarantined")
  /\ GotoLife(l, "exit")
  /\ UNCHANGED <<conn, restarts, process, status>>

Backoff(l, o) ==
  /\ lifePc[l] = "backoff"
  /\ SetState(o, "backoff")
  /\ GotoLife(l, "sleep")
  /\ UNCHANGED <<conn, restarts, process, status>>

\* The backoff elapses, or the context ends first.
Sleep(l, o) ==
  /\ lifePc[l] = "sleep"
  /\ \/ GotoLife(l, "top")
     \/ l \in cancelled /\ GotoLife(l, "exit")
  /\ UNCHANGED <<state, conn, restarts, process, status>>

LifeStep(l) ==
  LET o == owner[l]
  IN /\ o # None
     /\ \/ Top(l, o) \/ SpawnOK(l, o) \/ SpawnError(l, o)
        \/ HandshakeOK(l, o) \/ HandshakeFail(l, o) \/ Started(l, o)
        \/ HealthCancelled(l, o) \/ HealthFails(l, o) \/ CloseConn(l, o)
        \/ Clear(l, o) \/ TransitionToStopped(l, o)
        \/ TransitionToFailed(l, o) \/ Budget(l, o) \/ Quarantine(l, o)
        \/ Backoff(l, o) \/ Sleep(l, o)
     /\ UNCHANGED <<hostVars, life, owner, cancelled, callVars>>

-----------------------------------------------------------------------------
(* The driver and the daemon around it.                                    *)

\* The end of the Run stream alone changes nothing here: the stream error hook
\* only logs.
ProcessDies(l) ==
  /\ l \in process
  /\ process' = process \ {l}
  /\ UNCHANGED <<hostVars, objVars, owner, lifePc, cancelled, callVars, status>>

\* The daemon's context ends, and with it that of every life.
HostContextEnds ==
  /\ ~hostDone
  /\ hostDone' = TRUE
  /\ cancelled' = {l \in Lives : owner[l] # None}
  /\ UNCHANGED <<registered, stopped, objects, objVars, owner, lifePc, process,
                 callVars, status>>

-----------------------------------------------------------------------------
(* Calls of the host.                                                      *)

Goto(c, place) == callPc' = [callPc EXCEPT ![c] = place]
Called(c, name) == op' = [op EXCEPT ![c] = name]
On(c, o) == target' = [target EXCEPT ![c] = o]

\* A launch that is under way uses up one of the bounded lives.
LivesLeft ==
  Cardinality({l \in Lives : owner[l] # None})
    + Cardinality({c \in Callers : op[c] \in {"register", "restart"}}) < MaxLives

\* RegisterInstance up to the check of Host.stopped.
Register(c) ==
  /\ callPc[c] = "idle"
  /\ ~stopped
  /\ LivesLeft /\ objects < MaxObjects
  /\ Called(c, "register")
  /\ Goto(c, "insert")
  /\ UNCHANGED <<hostVars, objVars, lifeVars, target, seen, status>>

\* Under Host.mu: the instance is known already, or a new one is inserted.
Insert(c) ==
  /\ callPc[c] = "insert"
  /\ \/ /\ registered # None
        /\ Goto(c, "idle") /\ Called(c, "none")
        /\ UNCHANGED <<registered, objects, target>>
     \/ /\ registered = None
        /\ objects < MaxObjects
        /\ objects' = objects + 1
        /\ registered' = objects'
        /\ On(c, objects')
        /\ Goto(c, "launch")
        /\ UNCHANGED op
  /\ UNCHANGED <<stopped, hostDone, objVars, lifeVars, seen, status>>

\* launchLifecycle.
Launch(c) ==
  /\ callPc[c] = "launch"
  /\ \E l \in Lives :
       /\ owner[l] = None /\ \A k \in 1 .. l - 1 : owner[k] # None
       /\ life' = [life EXCEPT ![target[c]] = l]
       /\ owner' = [owner EXCEPT ![l] = target[c]]
       /\ lifePc' = [lifePc EXCEPT ![l] = "top"]
       /\ cancelled' = IF hostDone THEN cancelled \cup {l} ELSE cancelled
  /\ Goto(c, "idle") /\ Called(c, "none") /\ On(c, None)
  /\ UNCHANGED <<hostVars, state, conn, restarts, process, seen,
                 status>>

\* UnregisterInstance takes the instance out of the map first.
Unregister(c) ==
  /\ callPc[c] = "idle"
  /\ registered # None
  /\ registered' = None
  /\ On(c, registered)
  /\ Called(c, "unregister")
  /\ Goto(c, "shutdown")
  /\ UNCHANGED <<stopped, hostDone, objects, objVars, lifeVars, seen, status>>

\* RestartInstance leaves it there.
Restart(c) ==
  /\ callPc[c] = "idle"
  /\ registered # None
  /\ LivesLeft
  /\ On(c, registered)
  /\ Called(c, "restart")
  /\ Goto(c, "shutdown")
  /\ UNCHANGED <<hostVars, objVars, lifeVars, seen, status>>

\* Stop closes Host.stopped, then reads the map.
Stop(c) ==
  /\ callPc[c] = "idle"
  /\ ~stopped
  /\ stopped' = TRUE
  /\ Called(c, "stop")
  /\ Goto(c, "stop")
  /\ UNCHANGED <<registered, hostDone, objects, objVars, lifeVars, target, seen,
                 status>>

StopTargets(c) ==
  /\ callPc[c] = "stop"
  /\ \/ registered = None /\ Goto(c, "idle") /\ Called(c, "none")
        /\ UNCHANGED target
     \/ registered # None /\ Goto(c, "shutdown") /\ On(c, registered)
        /\ UNCHANGED op
  /\ UNCHANGED <<hostVars, objVars, lifeVars, seen, status>>

-----------------------------------------------------------------------------
(* shutdownInstance.                                                       *)

Shutdown(c) ==
  /\ callPc[c] = "shutdown"
  /\ SetState(target[c], "stopping")
  /\ seen' = [seen EXCEPT ![c] = conn[target[c]]]
  /\ Goto(c, "cancel")
  /\ UNCHANGED <<hostVars, conn, restarts, life, lifeVars, op, target, status>>

\* cancelLifecycle, if the instance was launched.
CancelLife(c) ==
  /\ callPc[c] = "cancel"
  /\ cancelled' = cancelled \cup ({life[target[c]]} \ {None})
  /\ Goto(c, "rpc")
  /\ UNCHANGED <<hostVars, objVars, owner, lifePc, process, op,
                 target, seen, status>>

\* The Shutdown RPC on the connection that was seen, and its Close.
ShutdownRPC(c) ==
  /\ callPc[c] = "rpc"
  /\ \E gone \in SUBSET ({seen[c]} \cap process) : process' = process \ gone
  /\ seen' = [seen EXCEPT ![c] = None]
  /\ Goto(c, "wait")
  /\ UNCHANGED <<hostVars, objVars, owner, lifePc, cancelled, op, target, status>>

\* Mutant: a restart does not wait for the goroutine.
MutReleased(c) ==
  \/ op[c] = "restart"
  \/ life[target[c]] = None
  \/ life[target[c]] # None /\ lifePc[life[target[c]]] = "exit"

\* done is nil or closed; or the caller's context ends (UnregisterInstance waits
\* with a context that never does).
Released(c) ==
  \/ life[target[c]] = None
  \/ life[target[c]] # None /\ lifePc[life[target[c]]] = "exit"
  \/ c \in Impatient /\ op[c] # "unregister"

Wait(c) ==
  /\ callPc[c] = "wait"
  /\ Released(c)
  /\ \/ op[c] = "restart" /\ Goto(c, "reset") /\ UNCHANGED <<op, target>>
     \/ op[c] # "restart" /\ Goto(c, "idle") /\ Called(c, "none") /\ On(c, None)
  /\ UNCHANGED <<hostVars, objVars, lifeVars, seen, status>>

\* RestartInstance forgets the past of the instance before it launches it.
Reset(c) ==
  /\ callPc[c] = "reset"
  /\ restarts' = [restarts EXCEPT ![target[c]] = 0]
  /\ conn' = [conn EXCEPT ![target[c]] = None]
  /\ SetState(target[c], "declared")
  /\ Goto(c, "launch")
  /\ UNCHANGED <<hostVars, life, lifeVars, op, target, seen, status>>

Progress(c) ==
  \/ Insert(c) \/ Launch(c) \/ StopTargets(c) \/ Shutdown(c) \/ CancelLife(c)
  \/ ShutdownRPC(c) \/ Wait(c) \/ Reset(c)

Next ==
  \/ \E l \in Lives : LifeStep(l) \/ ProcessDies(l)
  \/ HostContextEnds
  \/ \E c \in Callers :
       Register(c) \/ Unregister(c) \/ Restart(c) \/ Stop(c) \/ Progress(c)

Spec == Init /\ [][Next]_vars

\* A goroutine that can go on does.  The one exception is a healthy driver: the
\* supervisor may wait for its probes to fail for ever.
Watching(l) == lifePc[l] = "health" /\ l \in process /\ l \notin cancelled

FairSpec ==
  /\ Spec
  /\ \A l \in Lives : WF_vars(LifeStep(l) /\ ~Watching(l))
  /\ \A c \in Callers : WF_vars(Progress(c))

-----------------------------------------------------------------------------
Idle == \A c \in Callers : callPc[c] = "idle"

\* One driver process serves the instance at a time: two would share a socket
\* path, which spawn removes (RestartInstance, RegisterInstance, spawn).
OneProcess == Cardinality(process) <= 1

\* A running driver is watched and can be reached, and none is left once
\* UnregisterInstance has returned (shutdownInstance).  The registry's status row
\* says running only while a supervisor has the driver, every "started" being
\* followed by "stopped" or "failed" in this order; and a driver that nobody is
\* stopping has its connection published, which no earlier life of the instance
\* takes away (the end of runLifecycle's loop, RestartInstance).
RunningIsWatched ==
  /\ status = "running" =>
       \E l \in Lives : lifePc[l] \in {"health", "close", "clear"}
  /\ \A l \in Lives :
       lifePc[l] = "health" /\ l \notin cancelled => conn[owner[l]] = l
  /\ Idle /\ registered = None => process = {}

\* A quarantined instance only leaves by a call, shut down or restarted; and no
\* process is spawned with the restart budget used up (scheduleBackoff).
QuarantineHolds ==
  [][/\ \A o \in Objects :
          state[o] = "quarantined" =>
            state'[o] \in {"quarantined", "stopping", "declared"}
     /\ \A l \in Lives :
          lifePc[l] = "top" /\ lifePc'[l] = "spawn"
            => restarts[owner[l]] <= BudgetMax]_vars

\* shutdownInstance returns although nobody bounds its wait: the goroutine it
\* cancelled always ends.
ShutdownReturns ==
  \A c \in Callers : callPc[c] = "wait" ~> callPc[c] # "wait"
=============================================================================
