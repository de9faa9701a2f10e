------------------------------- MODULE Config -------------------------------
(***************************************************************************)
(* The configuration pipeline: the file watcher, the debouncing reloader,  *)
(* Manager.Apply with the driver host it reconciles, and the hooks that    *)
(* hand an applied snapshot to the engines (internal/config, daemon.go),   *)
(* over the file that edit sessions and other programs write.              *)
(*                                                                         *)
(* A bundle is what a valid file evaluates to: for every driver instance,  *)
(* "absent", "off" (enabled = false) or a configuration hash.  Two callers *)
(* run Apply: the reloader's loop and the Apply RPC; nothing keeps them    *)
(* apart.  Evaluating, every call of the driver host, setting the current  *)
(* snapshot, appending ConfigApplied and running the hooks are steps.      *)
(***************************************************************************)
EXTENDS EditSession, FiniteSets

CONSTANTS
  Ids,          \* driver instance ids
  Bundles,      \* the valid contents of the file
  MayFail,      \* what may fail: "secrets", "driver", "append", "hook"
  MayOverlap    \* whether an Apply may begin while another one runs

ASSUME ConfigAssumption ==
  /\ Bundles \subseteq Contents
  /\ MayFail \subseteq {"secrets", "driver", "append", "hook"}
  /\ MayOverlap \in BOOLEAN

VARIABLES
  watched,      \* Watcher.watched: the hash last seen
  loopPc,       \* where the reloader's loop is
  applyPc,      \* where each Apply is
  snap,         \* the snapshot it evaluated, later the one its hooks get
  todo,         \* what is left of its diff
  touched,      \* the instances it has changed in the host
  host,         \* Host.instances: the configuration each runs with
  current,      \* Manager.current
  engines,      \* the snapshot each engine holds
  ahead,        \* history: an Apply has read a file the watcher has not seen
  stranded,     \* history: instances a failed Apply left changed
  failed        \* history: an Apply of a valid file or a hook has failed

applyVars == <<applyPc, snap, todo, touched>>
effects == <<host, current, engines>>
history == <<ahead, stranded, failed>>
vars == <<disk, signal, editVars, watched, loopPc, applyVars, effects, history>>

Appliers == {"loop", "rpc"}
Parts == {"areas", "auth", "script", "automation", "policy"}
NoDiff == [removed |-> {}, added |-> {}, changed |-> {}, restart |-> {}]

\* What the host should run for a bundle.
Want(b) == [i \in Ids |-> IF b[i] = "off" THEN "absent" ELSE b[i]]

\* MUTANT: the hashes are not compared.
MutDiff(old, next) ==
  [removed |-> {i \in Ids : old[i] # "absent" /\ next[i] = "absent"},
   added   |-> {i \in Ids : old[i] = "absent" /\ next[i] # "absent"},
   changed |-> {i \in Ids : old[i] # "absent" /\ next[i] # "absent"},
   restart |-> {}]

\* Diff of two snapshots, by id and configuration hash.
Diff(old, next) ==
  [removed |-> {i \in Ids : old[i] # "absent" /\ next[i] = "absent"},
   added   |-> {i \in Ids : old[i] = "absent" /\ next[i] # "absent"},
   changed |-> {i \in Ids : old[i] # "absent" /\ next[i] # "absent" /\ old[i] # next[i]},
   restart |-> {}]

\* The daemon has applied the file and begun to watch it.
Init ==
  /\ disk \in Bundles
  /\ EditInit
  /\ watched = disk
  /\ loopPc = "wait"
  /\ applyPc = [a \in Appliers |-> "idle"]
  /\ snap = [a \in Appliers |-> Missing]
  /\ todo = [a \in Appliers |-> NoDiff]
  /\ touched = [a \in Appliers |-> {}]
  /\ host = Want(disk)
  /\ current = disk
  /\ engines = [p \in Parts |-> disk]
  /\ ahead = FALSE
  /\ stranded = {}
  /\ failed = FALSE

-----------------------------------------------------------------------------
(* Watcher and Reloader.                                                    *)

\* MUTANT: the signal channel has no buffer.
MutPoll ==
  /\ disk \notin {Missing, watched}
  /\ watched' = disk
  /\ signal' = (signal \/ loopPc = "wait")
  /\ ahead' = FALSE
  /\ UNCHANGED <<disk, editVars, loopPc, applyVars, effects, stranded, failed>>

\* poll: a file that cannot be read is skipped, a new hash wakes the reloader.
Poll ==
  /\ disk \notin {Missing, watched}
  /\ watched' = disk
  /\ Trigger
  /\ ahead' = FALSE
  /\ UNCHANGED <<disk, editVars, loopPc, applyVars, effects, stranded, failed>>

\* The Reload RPC.
Reload ==
  /\ ~signal
  /\ Trigger
  /\ UNCHANGED <<disk, editVars, watched, loopPc, applyVars, effects, history>>

Wake ==
  /\ loopPc = "wait"
  /\ signal
  /\ signal' = FALSE
  /\ loopPc' = "debounce"
  /\ UNCHANGED <<disk, editVars, watched, applyVars, effects, history>>

\* Someone begins an Apply.
Begin(a) ==
  /\ applyPc[a] = "idle"
  /\ applyPc' = [applyPc EXCEPT ![a] = "evaluate"]
  /\ MayOverlap \/ \A b \in Appliers : applyPc[b] = "idle"
  /\ UNCHANGED <<snap, todo, touched, effects, history>>

\* The debounce timer fires: the signals of the window are one reload.
Debounced ==
  /\ loopPc = "debounce"
  /\ signal' = FALSE
  /\ loopPc' = "apply"
  /\ Begin("loop")
  /\ UNCHANGED <<disk, editVars, watched>>

\* The Apply RPC, with dry_run unset.
ApplyRpc ==
  /\ Begin("rpc")
  /\ UNCHANGED <<disk, signal, editVars, watched, loopPc>>

-----------------------------------------------------------------------------
(* Manager.Apply.                                                           *)

Goto(a, place) == applyPc' = [applyPc EXCEPT ![a] = place]

\* Apply returns; the reloader's loop waits for the next signal.
Returns(a) ==
  /\ Goto(a, "idle")
  /\ loopPc' = IF a = "loop" THEN "wait" ELSE loopPc
  /\ snap' = [snap EXCEPT ![a] = Missing]
  /\ todo' = [todo EXCEPT ![a] = NoDiff]
  /\ touched' = [touched EXCEPT ![a] = {}]

\* It returns an error: what it has done to the host stays done.
ReturnsError(a) ==
  /\ Returns(a)
  /\ failed' = TRUE
  /\ stranded' = stranded \cup touched[a]
  /\ UNCHANGED <<disk, signal, editVars, watched, effects, ahead>>

\* Evaluate and Compile; a file that is not valid changes nothing.
Evaluate(a) ==
  /\ applyPc[a] = "evaluate"
  /\ \/ /\ disk \in Bundles
        /\ snap' = [snap EXCEPT ![a] = disk]
        /\ ahead' = (ahead \/ disk # watched)
        /\ Goto(a, "diff")
        /\ UNCHANGED <<disk, signal, editVars, watched, loopPc, todo, touched,
                       effects, stranded, failed>>
     \/ /\ disk \notin Bundles
        /\ Returns(a)
        /\ UNCHANGED <<disk, signal, editVars, watched, effects, history>>

\* The diff, under the read lock; then the secrets are resolved.
TakeDiff(a) ==
  /\ applyPc[a] = "diff"
  /\ \/ /\ todo' = [todo EXCEPT ![a] = Diff(current, snap[a])]
        /\ Goto(a, "sync")
        /\ UNCHANGED <<disk, signal, editVars, watched, loopPc, snap, touched,
                       effects, history>>
     \/ "secrets" \in MayFail /\ ReturnsError(a)

\* One call of the host is done.
Did(a, i, left, config) ==
  /\ todo' = [todo EXCEPT ![a] = left]
  /\ host' = [host EXCEPT ![i] = config]
  /\ touched' = [touched EXCEPT ![a] = @ \cup {i}]
  /\ UNCHANGED <<disk, signal, editVars, watched, loopPc, applyPc, snap,
                 current, engines, history>>

\* UnregisterInstance: an unknown instance is an error.
Unregister(a, i, left) ==
  \/ host[i] # "absent" /\ Did(a, i, left, "absent")
  \/ host[i] = "absent" /\ ReturnsError(a)

\* MUTANT: an instance that is off is registered like any other.
MutRegister(a, i, left) ==
  \/ host[i] = "absent" /\ Did(a, i, left, snap[a][i])
  \/ host[i] # "absent" /\ ReturnsError(a)
  \/ "driver" \in MayFail /\ ReturnsError(a)

\* registerInstance: an instance that is off is not registered, one that is
\* registered already is an error, and the driver may not be installed.
Register(a, i, left) ==
  \/ snap[a][i] = "off" /\ Did(a, i, left, host[i])
  \/ snap[a][i] # "off" /\ host[i] = "absent" /\ Did(a, i, left, snap[a][i])
  \/ snap[a][i] # "off" /\ host[i] # "absent" /\ ReturnsError(a)
  \/ "driver" \in MayFail /\ ReturnsError(a)

\* The three loops: removed, added, changed (unregister, then register again).
Sync(a) ==
  /\ applyPc[a] = "sync"
  /\ LET t == todo[a]
     IN \/ \E i \in t.removed : Unregister(a, i, [t EXCEPT !.removed = @ \ {i}])
        \/ /\ t.removed = {}
           /\ \E i \in t.added : Register(a, i, [t EXCEPT !.added = @ \ {i}])
        \/ /\ t.removed = {} /\ t.added = {} /\ t.restart = {}
           /\ \E i \in t.changed :
                Unregister(a, i, [t EXCEPT !.changed = @ \ {i}, !.restart = {i}])
        \/ \E i \in t.restart : Register(a, i, [t EXCEPT !.restart = {}])

\* The snapshot becomes the current one.
SetCurrent(a) ==
  /\ applyPc[a] = "sync"
  /\ todo[a] = NoDiff
  /\ current' = snap[a]
  /\ touched' = [touched EXCEPT ![a] = {}]
  /\ Goto(a, "append")
  /\ UNCHANGED <<disk, signal, editVars, watched, loopPc, snap, todo, host,
                 engines, history>>

\* ConfigApplied is appended; only then the hooks get what is now current.
AppendApplied(a) ==
  /\ applyPc[a] = "append"
  /\ \/ /\ snap' = [snap EXCEPT ![a] = current]
        /\ Goto(a, "hooks")
        /\ UNCHANGED <<disk, signal, editVars, watched, loopPc, todo, touched,
                       effects, history>>
     \/ "append" \in MayFail /\ ReturnsError(a)

\* The parts a run of the hooks updates: an error of auth or of the scripts
\* ends the hook, one of the automations does not.
HookOutcomes ==
  {Parts} \cup
  (IF "hook" \in MayFail
   THEN {{"areas"}, {"areas", "auth"}, Parts \ {"automation"}, Parts \ {"policy"}}
   ELSE {})

RunHooks(a) ==
  /\ applyPc[a] = "hooks"
  /\ \E done \in HookOutcomes :
       /\ engines' = [p \in Parts |-> IF p \in done THEN snap[a] ELSE engines[p]]
       /\ failed' = (failed \/ done # Parts)
  /\ Returns(a)
  /\ UNCHANGED <<disk, signal, editVars, watched, host, current, stranded,
                 ahead>>

-----------------------------------------------------------------------------
ApplyStep(a) ==
  \/ Evaluate(a) \/ TakeDiff(a) \/ Sync(a) \/ SetCurrent(a)
  \/ AppendApplied(a) \/ RunHooks(a)

\* The steps of the edit sessions, beside the pipeline.
Edit == EditNext /\ UNCHANGED <<watched, loopPc, applyVars, effects, history>>

Next ==
  \/ Edit
  \/ Poll \/ Reload \/ Wake \/ Debounced \/ ApplyRpc
  \/ \E a \in Appliers : ApplyStep(a)

Spec == Init /\ [][Next]_vars

\* The watcher's ticker, the loop and a running Apply go on.  Nobody has to
\* edit, to finish a write of the file or to call an RPC.
Fairness ==
  /\ WF_vars(Poll) /\ WF_vars(Wake) /\ WF_vars(Debounced)
  /\ \A a \in Appliers : WF_vars(ApplyStep(a))

FairSpec == Spec /\ Fairness

-----------------------------------------------------------------------------
Resting == \A a \in Appliers : applyPc[a] = "idle"

\* Between Applies the host runs what the current snapshot says, except for the
\* instances that an Apply had changed before it failed: an error stops at the
\* instances it has touched, and the next diff is taken from what is true of
\* the others (Manager.Apply).
HostMatches ==
  Resting =>
    \A i \in Ids \ stranded : host[i] = Want(current)[i]

\* An Apply never restarts a driver whose configuration it leaves as it is.
Undisturbed ==
  [][\A i \in Ids :
       host'[i] # host[i] =>
         \E a \in Appliers : applyPc[a] = "sync" /\ current[i] # snap[a][i]]_vars

\* Whatever is written last is applied in the end, by the host and by all the
\* engines: no change falls between the watcher, the debounce and an Apply that
\* is already running (Watcher.poll, Reloader.Trigger, Reloader.loop).
Applied ==
  /\ current = disk
  /\ host = Want(disk)
  /\ \A p \in Parts : engines[p] = disk

Converges == <>[](disk \in Bundles /\ ~failed /\ ~ahead => Applied)
=============================================================================
