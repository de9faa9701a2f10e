------------------------------ MODULE Recovery ------------------------------
(***************************************************************************)
(* How the daemon comes back: snapshots of the state cache                 *)
(* (internal/state/cache.go, internal/eventstore/snapshot.go), the replay  *)
(* of the log at boot (internal/eventstore/replay.go), the registry, whose *)
(* tables are replayed in place (internal/registry/registry.go), and the   *)
(* recovery mode in which an operator marks events to be skipped           *)
(* (internal/observability/recovery.go, internal/daemon/daemon.go).        *)
(*                                                                         *)
(* The process may die between any two steps.  The events table, the       *)
(* registry's rows, the snapshots, the cursors and the skipped events      *)
(* survive; the cache does not.  Appends run one at a time here: module    *)
(* EventStore is about their concurrency.                                  *)
(***************************************************************************)
EXTENDS StateCache, Integers, Sequences, FiniteSetsExt

CONSTANTS
  Inputs,         \* the events that are appended
  Snappers,       \* goroutines that take snapshots: the snapshotter, an RPC
  Retain,         \* SnapshotRetainPerOwner
  BatchLimit,     \* events in one replay batch (1000 in the code)
  MaxLog,         \* bound: appends stop when the log is this long
  MaxCrashes,     \* bound: how often the process dies
  MaxSkips        \* bound: how many events an operator skips

\* Events of a driver's lifecycle, which only the registry tells apart.
DriverKinds == {"driver_started", "driver_stopped", "driver_failed"}

LogEvents ==
  Events \cup [kind : DriverKinds, entity : Entities, value : {NoAttributes}]

ASSUME RecoveryAssumption ==
  /\ Inputs \subseteq LogEvents
  /\ Retain \in Nat \ {0}
  /\ BatchLimit \in Nat \ {0}
  /\ MaxLog \in Nat
  /\ MaxCrashes \in Nat
  /\ MaxSkips \in Nat

VARIABLES
  log,               \* rows of the events table
  registry,          \* rows of entities and the driver instance's status
  projectionCursor,  \* rows of projection_cursors (equal for both projectors)
  snapshots,         \* rows of the snapshots table: position -> cache map
  skipped,           \* rows of skipped_events: <<position, projector>>
  phase,             \* "down", "replay", "live" or "recovery"
  cursor,            \* Replay's cursor
  at,                \* the position the open batch has reached
  rows,              \* the registry's rows as its transaction sees them
  tx,                \* the open append: "none", "applied" or "committed"
  event,             \* the event it appends
  latestPosition,    \* Store.latestPosition
  view,              \* the map each snapper has read, or Nil
  crashes            \* how often the process has died

durable == <<log, registry, projectionCursor, snapshots, skipped>>
batchVars == <<cursor, at, rows>>
replayVars == <<phase, batchVars>>
appendVars == <<tx, event, latestPosition>>
vars == <<cacheVars, durable, replayVars, appendVars, view, crashes>>

Projectors == {"state_cache", "registry"}

NoEvent == [kind |-> "other", entity |-> CHOOSE e \in Entities : TRUE,
            value |-> NoAttributes]

-----------------------------------------------------------------------------
(* The registry: Apply only writes rows, and never takes one away.         *)

EmptyRegistry == [row |-> [e \in Entities |-> "none"], status |-> "none"]

\* An UPDATE ... WHERE id = ? changes a row that exists.
Updated(old, new) == IF old = "none" THEN "none" ELSE new

ApplyRegistry(r, e) ==
  CASE e.kind = "entity_registered" ->
         [row    |-> [r.row EXCEPT ![e.entity] = "enabled"],
          status |-> IF r.status = "none" THEN "starting" ELSE r.status]
    [] e.kind = "entity_unregistered" ->
         [r EXCEPT !.row[e.entity] = Updated(@, "disabled")]
    [] e.kind = "driver_started" -> [r EXCEPT !.status = "running"]
    [] e.kind = "driver_stopped" -> [r EXCEPT !.status = Updated(@, "stopped")]
    [] e.kind = "driver_failed" -> [r EXCEPT !.status = Updated(@, "failed")]
    [] OTHER -> r

-----------------------------------------------------------------------------
Init ==
  /\ CacheInit
  /\ log = << >>
  /\ registry = EmptyRegistry
  /\ projectionCursor = 0
  /\ snapshots = << >>
  /\ skipped = {}
  /\ phase = "down"
  /\ cursor = 0 /\ at = 0 /\ rows = EmptyRegistry
  /\ tx = "none"
  /\ event = NoEvent
  /\ latestPosition = 0
  /\ view = [s \in Snappers |-> Nil]
  /\ crashes = 0

\* The process dies, or shuts down, wherever it is.  What it had in memory,
\* an open transaction included, is gone.
Crash ==
  /\ phase # "down"
  /\ crashes < MaxCrashes
  /\ crashes' = crashes + 1
  /\ phase' = "down"
  /\ current' = EmptyMap
  /\ pending' = Nil
  /\ tx' = "none"
  /\ event' = NoEvent
  /\ cursor' = 0 /\ at' = 0 /\ rows' = EmptyRegistry
  /\ latestPosition' = 0
  /\ view' = [s \in Snappers |-> Nil]
  /\ UNCHANGED durable

-----------------------------------------------------------------------------
(* Boot: restore, then replay in batches.                                  *)

\* NoSnapshot.Restore, which the registry embeds.  (Mutant: it returns the
\* position of the last event the registry applied.)
MutRegistryRestore == projectionCursor
RegistryRestore == 0

\* The cache takes the newest row that decodes; any rows may be corrupt.
\* The replay starts from the lowest position any projector restored.
Restore ==
  /\ phase = "down"
  /\ phase' = "replay"
  /\ latestPosition' = Len(log)
  /\ \E readable \in SUBSET DOMAIN snapshots :
       LET pos == IF readable = {} THEN 0 ELSE Max(readable)
       IN /\ current' = IF pos = 0 THEN EmptyMap ELSE snapshots[pos]
          /\ cursor' = Min({pos, RegistryRestore})
  /\ at' = cursor' /\ rows' = registry
  /\ UNCHANGED <<pending, durable, tx, event, view, crashes>>

\* The event is marked.  (Mutant: a mark for any projector stops the registry.)
MutIsSkipped(pos, projector) ==
  \E p \in Projectors :
    <<pos, p>> \in skipped /\ projector \in {p, "registry"}
IsSkipped(pos, projector) == <<pos, projector>> \in skipped

BatchEnd == Min({cursor + BatchLimit, Len(log)})

\* What each projector makes of the event at a position.
CacheMakes(pos) ==
  IF IsSkipped(pos, "state_cache") THEN pending ELSE ApplyEvent(Base, log[pos])
RegistryMakes(pos) ==
  IF IsSkipped(pos, "registry") THEN rows ELSE ApplyRegistry(rows, log[pos])

\* The batch's next event is applied, inside its transaction.
ReplayApply ==
  /\ phase = "replay"
  /\ at < BatchEnd
  /\ pending' = CacheMakes(at + 1)
  /\ rows' = RegistryMakes(at + 1)
  /\ at' = at + 1
  /\ UNCHANGED <<current, durable, phase, cursor, appendVars, view, crashes>>

\* The batch commits: the rows of the registry and the cursors, then the cache's
\* map is promoted.  Nothing else runs, so the two are one step.
ReplayCommit ==
  /\ phase = "replay"
  /\ cursor < at /\ at = BatchEnd
  /\ registry' = rows
  /\ projectionCursor' = at
  /\ cursor' = at
  /\ Promote
  /\ UNCHANGED <<log, snapshots, skipped, phase, at, rows, appendVars, view, crashes>>

\* Replay returns an error: a statement or the COMMIT fails, or a projector on an
\* event, the cache or the registry after it.  The batch rolls back, the cache
\* keeps its pending map, and the daemon enters recovery mode.
ReplayFail ==
  /\ phase = "replay"
  /\ \/ UNCHANGED pending
     \/ /\ at < BatchEnd
        /\ ~IsSkipped(at + 1, "registry")
        /\ pending' = CacheMakes(at + 1)
  /\ phase' = "recovery"
  /\ at' = cursor /\ rows' = registry
  /\ UNCHANGED <<current, durable, cursor, appendVars, view, crashes>>

\* Replay has reached the end of the log and the store is started.
Start ==
  /\ phase = "replay"
  /\ cursor >= Len(log)
  /\ phase' = "live"
  /\ UNCHANGED <<cacheVars, durable, batchVars, appendVars, view, crashes>>

\* POST /events/{position}/skip, which a second row for the same pair fails.
SkipEvent ==
  /\ phase = "recovery"
  /\ Cardinality(skipped) < MaxSkips
  /\ \E pos \in 1 .. Len(log), projector \in Projectors :
       /\ <<pos, projector>> \notin skipped
       /\ skipped' = skipped \cup {<<pos, projector>>}
  /\ UNCHANGED <<cacheVars, log, registry, projectionCursor, snapshots,
                 replayVars, appendVars, view, crashes>>

-----------------------------------------------------------------------------
(* Appends, one at a time: apply, commit, promote and announce.            *)

AppendApply ==
  /\ phase = "live"
  /\ tx = "none"
  /\ Len(log) < MaxLog
  /\ \E e \in Inputs : Apply(e) /\ event' = e
  /\ tx' = "applied"
  /\ UNCHANGED <<durable, replayVars, latestPosition, view, crashes>>

AppendRollback ==
  /\ tx = "applied"
  /\ Discard
  /\ tx' = "none"
  /\ event' = NoEvent
  /\ UNCHANGED <<durable, replayVars, latestPosition, view, crashes>>

AppendCommit ==
  /\ tx = "applied"
  /\ log' = Append(log, event)
  /\ registry' = ApplyRegistry(registry, event)
  /\ projectionCursor' = Len(log')
  /\ tx' = "committed"
  /\ UNCHANGED <<cacheVars, snapshots, skipped, replayVars, event,
                 latestPosition, view, crashes>>

AppendPublish ==
  /\ tx = "committed"
  /\ Promote
  /\ latestPosition' = Len(log)
  /\ tx' = "none"
  /\ event' = NoEvent
  /\ UNCHANGED <<durable, replayVars, view, crashes>>

-----------------------------------------------------------------------------
(* Snapshots.  The transaction is deferred: it reads the cache's map, which *)
(* needs no lock, before it reads MAX(position) and inserts the row.        *)

\* Mutant: the snapshot reads the map under construction.
MutSnapshotView(s) == view' = [view EXCEPT ![s] = Base]
SnapshotView(s) == view' = [view EXCEPT ![s] = current]

\* The ticker fires, an API call asks for a snapshot, or the daemon shuts down.
\* The clock is not modelled: the snapshotter's conditions (so many events, or
\* so long, since the last one) may hold at any tick.
SnapshotNow(s) ==
  /\ phase = "live"
  /\ view[s] = Nil
  /\ SnapshotView(s)
  /\ UNCHANGED <<cacheVars, durable, replayVars, appendVars, crashes>>

\* The highest Retain positions.  (Mutant: the lowest.)
MutNewest(P) == {p \in P : Cardinality({q \in P : q < p}) < Retain}
Newest(P) == {p \in P : Cardinality({q \in P : q > p}) < Retain}

\* MAX(position), or 1 when there are no events; the row, which replaces one at
\* the same position; the pruning; and the COMMIT.
SnapshotCommit(s) ==
  /\ view[s] # Nil
  /\ LET pos  == IF log = << >> THEN 1 ELSE Len(log)
         kept == Newest(DOMAIN snapshots \cup {pos})
     IN snapshots' = [p \in kept |-> IF p = pos THEN view[s] ELSE snapshots[p]]
  /\ view' = [view EXCEPT ![s] = Nil]
  /\ UNCHANGED <<cacheVars, log, registry, projectionCursor, skipped,
                 replayVars, appendVars, crashes>>

\* The transaction fails (an append committed after it read, for example).
SnapshotFail(s) ==
  /\ view[s] # Nil
  /\ view' = [view EXCEPT ![s] = Nil]
  /\ UNCHANGED <<cacheVars, durable, replayVars, appendVars, crashes>>

-----------------------------------------------------------------------------
Boot == Restore \/ ReplayApply \/ ReplayCommit \/ ReplayFail \/ Start

AppendStep == AppendApply \/ AppendRollback \/ AppendCommit \/ AppendPublish

Snapshot ==
  \E s \in Snappers : SnapshotNow(s) \/ SnapshotCommit(s) \/ SnapshotFail(s)

Next == Boot \/ Crash \/ SkipEvent \/ AppendStep \/ Snapshot

Spec == Init /\ [][Next]_vars

-----------------------------------------------------------------------------
Rows == {"none", "enabled", "disabled"}
Statuses == {"none", "starting", "running", "stopped", "failed"}

\* The cache and the registry as the first n events of a log make them.
Makes(v, e) ==
  [cache |-> ApplyEvent(v.cache, e), registry |-> ApplyRegistry(v.registry, e)]

Made(l) ==
  LET made[n \in 0 .. Len(l)] ==
        IF n = 0 THEN [cache |-> EmptyMap, registry |-> EmptyRegistry]
        ELSE Makes(made[n - 1], l[n])
  IN made

CacheAfter(n) == Made(log)[n].cache
RegistryAfter(n) == Made(log)[n].registry

\* No event of entity e is skipped by the projector.
Unskipped(e, projector) ==
  \A pos \in 1 .. Len(log) :
    log[pos].entity = e => <<pos, projector>> \notin skipped

Settled == phase = "live" /\ tx = "none"

\* After any number of deaths, at any moment, and whichever snapshots can be
\* read, a daemon that is live holds in its cache what the whole log says of
\* every entity whose events are all applied (Replay, Cache.Restore).
RecoveredExactly ==
  Settled =>
    \A e \in Entities :
      Unskipped(e, "state_cache") => current[e] = CacheAfter(Len(log))[e]

\* The log has a row for the driver instance before it has an update of it.
RowComesFirst ==
  \A p \in DOMAIN log :
    log[p].kind \in {"driver_stopped", "driver_failed"} =>
      \E q \in 1 .. p - 1 : log[q].kind \in {"driver_started", "entity_registered"}

\* The registry, which a replay writes over again from the first event, ends as
\* the log says, wherever the process died: the row of every entity whose events
\* are all applied, and the status of the driver instance unless the log updates
\* it before its row exists (replayBatch, applyDriverEvent).
RegistryExact ==
  Settled =>
    /\ \A e \in Entities :
         Unskipped(e, "registry") =>
           registry.row[e] = RegistryAfter(Len(log)).row[e]
    /\ skipped = {} /\ RowComesFirst =>
         registry.status = RegistryAfter(Len(log)).status

\* A snapshot is what some prefix of the log made of the cache, no later than
\* the position it is stored under: never an event that was rolled back.
SnapshotIsPast ==
  skipped = {} =>
    \A p \in DOMAIN snapshots :
      \E n \in 0 .. Min({p, Len(log)}) : snapshots[p] = CacheAfter(n)

\* Pruning and overwriting never lose the newest restore point, and keep at
\* most the configured number; a snapshot that commits survives its own pruning
\* (runSnapshot).
RestorePointKept ==
  [][/\ Cardinality(DOMAIN snapshots') <= Retain
     /\ \A s \in Snappers :
          SnapshotCommit(s) => Max({1, Len(log)}) \in DOMAIN snapshots'
     /\ DOMAIN snapshots # {} =>
          /\ DOMAIN snapshots' # {}
          /\ Max(DOMAIN snapshots') >= Max(DOMAIN snapshots)]_vars
=============================================================================
