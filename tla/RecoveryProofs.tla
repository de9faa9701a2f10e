--------------------------- MODULE RecoveryProofs ---------------------------
(***************************************************************************)
(* The cache, the registry and the snapshots of Recovery for every set of  *)
(* entities and events, any number of crashes, of skipped events and of    *)
(* snapshots, and batches of any size.                                     *)
(*                                                                         *)
(* The argument: a cache that restores an old snapshot replays the log     *)
(* from its first event, over states that are newer than the events.  What *)
(* differs from the prefix replayed so far is something a later event      *)
(* overwrites (Closing), so that nothing differs at the end of the log;    *)
(* and everything a snapshot or the registry's tables can hold is          *)
(* something the log will overwrite (Past, Sourced).                       *)
(***************************************************************************)
EXTENDS Recovery, FiniteSetTheorems, TLAPS

-----------------------------------------------------------------------------
(* What a log makes of the cache and the registry.  The function Made(l) is
   chosen by its recursive equation.  That the equation has one solution would
   be an induction over l; for the log of a behaviour it is an invariant, since
   the log begins empty and grows by one event at a time. *)

First == [cache |-> EmptyMap, registry |-> EmptyRegistry]

IsMade(f, l) ==
  f = [n \in 0 .. Len(l) |-> IF n = 0 THEN First ELSE Makes(f[n - 1], l[n])]

OneMade(l) == \E f : IsMade(f, l) /\ \A g : IsMade(g, l) => g = f

Registries == [row : [Entities -> Rows], status : Statuses]

\* The events that settle an entity's state whatever it was, those that add an
\* entity, and those that create the row of the driver instance.
Sets(e, ev) == ev.entity = e /\ ev.kind \in {"state_changed", "entity_unregistered"}
Adds(e, ev) == ev.entity = e /\ ev.kind = "entity_registered"
RowMakers == {"driver_started", "entity_registered"}

\* There is such an event at one of the positions a + 1 .. b.
SetIn(e, a, b) == \E p \in a + 1 .. b : Sets(e, log[p])
AddIn(e, a, b) == \E p \in a + 1 .. b : Adds(e, log[p])
KindIn(K, a, b) == \E p \in a + 1 .. b : log[p].kind \in K

-----------------------------------------------------------------------------
(* The inductive invariant. *)

RecType ==
  /\ log \in Seq(LogEvents)
  /\ skipped \subseteq (1 .. Len(log)) \X Projectors
  /\ current \in Maps /\ pending \in Maps \cup {Nil}
  /\ registry \in Registries /\ rows \in Registries
  /\ cursor \in Nat /\ at \in Nat
  /\ phase \in {"down", "replay", "live", "recovery"}
  /\ tx \in {"none", "applied", "committed"}
  /\ tx # "none" => event \in LogEvents

\* Where the replay and the append are.
PhaseInv ==
  /\ cursor <= at /\ at <= Len(log)
  /\ tx # "none" => phase = "live"
  /\ phase = "down" => pending = Nil
  /\ phase = "replay" /\ at = cursor => pending = Nil /\ rows = registry
  /\ phase = "live" =>
       pending = IF tx = "none" THEN Nil ELSE ApplyEvent(current, event)
  /\ tx = "committed" => log # <<>> /\ event = log[Len(log)]

\* Where a state of an entity, and the status of the driver instance, come from.
Explained(n) ==
  /\ CacheAfter(n) \in Maps /\ RegistryAfter(n) \in Registries
  /\ \A e \in Entities :
       \/ CacheAfter(n)[e] = Absent
       \/ SetIn(e, 0, n)
       \/ CacheAfter(n)[e] = NoAttributes /\ AddIn(e, 0, n)
  /\ KindIn(RowMakers, 0, n) => RegistryAfter(n).status # "none"

HistoryInv == OneMade(log) /\ \A n \in 0 .. Len(log) : Explained(n)

\* A replay that has reached position n over the map m: what differs from what
\* the first n events make is still to be overwritten.
Closing(m, n) ==
  \A e \in Entities :
    Unskipped(e, "state_cache") =>
      \/ m[e] = CacheAfter(n)[e]
      \/ SetIn(e, n, Len(log))
      \/ m[e] = NoAttributes /\ CacheAfter(n)[e] = Absent /\ AddIn(e, n, Len(log))

\* The map holds what the first n events make of every entity none of whose
\* events is skipped.
Holds(m, n) ==
  \A e \in Entities : Unskipped(e, "state_cache") => m[e] = CacheAfter(n)[e]

\* The prefix of the log that the live cache holds: publishing comes after the
\* commit.
Promoted == IF tx = "committed" THEN Len(log) - 1 ELSE Len(log)

CacheInv ==
  /\ phase = "live" => Holds(current, Promoted)
  /\ phase = "replay" => Closing(Base, at)

\* A row of an entity, and that of the driver instance, is there because of the
\* log.
Sourced(r) ==
  /\ \A e \in Entities : r.row[e] = "none" \/ AddIn(e, 0, Len(log))
  /\ \/ r.status = "none"
     \/ KindIn(DriverKinds, 0, Len(log))
     \/ r.status = "starting" /\ KindIn({"entity_registered"}, 0, Len(log))

RowsClosing(r, n) ==
  \A e \in Entities :
    Unskipped(e, "registry") =>
      r.row[e] = RegistryAfter(n).row[e] \/ AddIn(e, n, Len(log))

StatusClosing(r, n) ==
  \/ r.status = RegistryAfter(n).status
  \/ KindIn(DriverKinds, n, Len(log))
  \/ /\ r.status = "starting" /\ RegistryAfter(n).status = "none"
     /\ KindIn({"entity_registered"}, n, Len(log))

RowsInv ==
  /\ Sourced(registry) /\ Sourced(rows)
  /\ phase = "live" =>
       \A e \in Entities :
         Unskipped(e, "registry") => registry.row[e] = RegistryAfter(Len(log)).row[e]
  /\ phase = "replay" => RowsClosing(rows, at)

StatusInv ==
  skipped = {} =>
    /\ phase = "live" /\ RowComesFirst =>
         registry.status = RegistryAfter(Len(log)).status
    /\ phase = "replay" /\ RowComesFirst => StatusClosing(rows, at)
    /\ phase = "replay" /\ KindIn(RowMakers, 0, at) => rows.status # "none"

StoreInv == RecType /\ PhaseInv /\ HistoryInv /\ CacheInv /\ RowsInv /\ StatusInv

\* A map that was the cache's at some time: of an entity none of whose events is
\* skipped it holds what some prefix made; without skipped events it is, as a
\* whole, what some prefix made, no later than position b.
Past(m, b) ==
  /\ m \in Maps
  /\ \A e \in Entities :
       Unskipped(e, "state_cache") => \E n \in 0 .. Len(log) : m[e] = CacheAfter(n)[e]
  /\ skipped = {} => \E n \in 0 .. Len(log) : n <= b /\ m = CacheAfter(n)

\* The snapshots, and the maps read for one.  A new position is above all
\* others, so that every set of them has a greatest and a least element.
SnapshotInv ==
  /\ view \in [Snappers -> Maps \cup {Nil}]
  /\ \A s \in Snappers : view[s] # Nil => Past(view[s], Len(log))
  /\ \A p \in DOMAIN snapshots :
       p \in Nat \ {0} /\ (p = 1 \/ p <= Len(log)) /\ Past(snapshots[p], p)
  /\ \A R \in SUBSET DOMAIN snapshots :
       R # {} => /\ \E p \in R : \A q \in R : p >= q
                 /\ \E p \in R : \A q \in R : p <= q
  /\ IsFiniteSet(DOMAIN snapshots) /\ Cardinality(DOMAIN snapshots) <= Retain

RecoveryInv == StoreInv /\ SnapshotInv

-----------------------------------------------------------------------------
(* The operators of the projectors, one event at a time. *)

Kinds == {"state_changed", "entity_registered", "entity_unregistered", "other"}
           \cup DriverKinds

(* Every event names an entity and is of one of the kinds Apply tells apart. *)
LEMMA EventShape ==
  ASSUME NEW ev \in LogEvents
  PROVE  /\ ev.entity \in Entities /\ ev.kind \in Kinds
         /\ ev.kind = "state_changed" => ev.value \in Values
  BY DEF LogEvents, Events, Kinds, DriverKinds

(* What the cache's Apply does to one entity. *)
LEMMA CacheEffect ==
  ASSUME NEW m \in Maps, NEW ev \in LogEvents
  PROVE  /\ ApplyEvent(m, ev) \in Maps
         /\ \A e \in Entities :
              /\ Adds(e, ev) =>
                   ApplyEvent(m, ev)[e] = IF m[e] = Absent THEN NoAttributes ELSE m[e]
              /\ ~Sets(e, ev) /\ ~Adds(e, ev) => ApplyEvent(m, ev)[e] = m[e]
              /\ ev.kind = "state_changed" /\ Sets(e, ev) => ApplyEvent(m, ev)[e] = ev.value
              /\ ev.kind = "entity_unregistered" /\ Sets(e, ev) => ApplyEvent(m, ev)[e] = Absent
<1> DEFINE S == States \cup {Absent}
<1>1. ev.entity \in Entities /\ ev.kind \in Kinds /\ (ev.kind = "state_changed" => ev.value \in S)
  BY EventShape DEF States
<1>2. m \in [Entities -> S] /\ NoAttributes \in S /\ Absent \in S
  BY DEF Maps, States
<1> HIDE DEF S
<1>3. ASSUME NEW v \in S
      PROVE  /\ [m EXCEPT ![ev.entity] = v] \in [Entities -> S]
             /\ [m EXCEPT ![ev.entity] = v][ev.entity] = v
             /\ \A e \in Entities : e # ev.entity => [m EXCEPT ![ev.entity] = v][e] = m[e]
  BY Zenon, <1>1, <1>2
<1>4. CASE ev.kind = "state_changed"
  <2>1. ApplyEvent(m, ev) = [m EXCEPT ![ev.entity] = ev.value]
    BY <1>4 DEF ApplyEvent
  <2>2. \A e \in Entities : Sets(e, ev) <=> e = ev.entity
    BY <1>4 DEF Sets
  <2>3. ev.kind # "entity_registered" /\ ev.kind # "entity_unregistered"
    BY <1>4
  <2> QED
    BY Zenon, <1>1, <1>3, <1>4, <2>1, <2>2, <2>3 DEF Maps, S, Adds
<1>5. CASE ev.kind = "entity_unregistered"
  <2>1. ApplyEvent(m, ev) = [m EXCEPT ![ev.entity] = Absent]
    BY <1>5 DEF ApplyEvent
  <2>2. \A e \in Entities : Sets(e, ev) <=> e = ev.entity
    BY <1>5 DEF Sets
  <2>3. ev.kind # "entity_registered" /\ ev.kind # "state_changed"
    BY <1>5
  <2> QED
    BY Zenon, <1>2, <1>3, <1>5, <2>1, <2>2, <2>3 DEF Maps, S, Adds
<1>6. CASE ev.kind = "entity_registered"
  <2>1. ApplyEvent(m, ev) = IF m[ev.entity] = Absent
                            THEN [m EXCEPT ![ev.entity] = NoAttributes] ELSE m
    BY <1>6 DEF ApplyEvent
  <2>2. \A e \in Entities : ~Sets(e, ev) /\ (Adds(e, ev) <=> e = ev.entity)
    BY <1>6 DEF Sets, Adds
  <2>3. CASE m[ev.entity] = Absent
    <3>1. ApplyEvent(m, ev) = [m EXCEPT ![ev.entity] = NoAttributes]
      BY Zenon, <2>1, <2>3
    <3>2. /\ ApplyEvent(m, ev) \in Maps /\ ApplyEvent(m, ev)[ev.entity] = NoAttributes
          /\ \A e \in Entities : e # ev.entity => ApplyEvent(m, ev)[e] = m[e]
      BY Zenon, <1>2, <1>3, <3>1 DEF Maps, S
    <3>3. \A e \in Entities :
            Adds(e, ev) => ApplyEvent(m, ev)[e] = IF m[e] = Absent THEN NoAttributes ELSE m[e]
      BY Zenon, <2>2, <2>3, <3>2
    <3> QED
      BY Zenon, <2>2, <3>2, <3>3
  <2>4. CASE m[ev.entity] # Absent
    <3>1. ApplyEvent(m, ev) = m
      BY Zenon, <2>1, <2>4
    <3>2. \A e \in Entities :
            Adds(e, ev) => ApplyEvent(m, ev)[e] = IF m[e] = Absent THEN NoAttributes ELSE m[e]
      BY Zenon, <2>2, <2>4, <3>1
    <3> QED
      BY Zenon, <2>2, <3>1, <3>2
  <2> QED
    BY Zenon, <2>3, <2>4
<1>7. CASE ev.kind \notin {"state_changed", "entity_unregistered", "entity_registered"}
  <2>1. ApplyEvent(m, ev) = m
    BY <1>7 DEF ApplyEvent
  <2>2. \A e \in Entities : ~Sets(e, ev) /\ ~Adds(e, ev)
    BY <1>7 DEF Sets, Adds
  <2> QED
    BY Zenon, <2>1, <2>2
<1> QED
  BY Zenon, <1>4, <1>5, <1>6, <1>7

(* Two maps an event settles agree on it, and two that agree go on to. *)
LEMMA CacheAgrees ==
  ASSUME NEW m1 \in Maps, NEW m2 \in Maps, NEW ev \in LogEvents, NEW e \in Entities,
         Sets(e, ev) \/ m1[e] = m2[e]
  PROVE  ApplyEvent(m1, ev)[e] = ApplyEvent(m2, ev)[e]
<1>1. CASE Sets(e, ev)
  <2>1. CASE ev.kind = "state_changed"
    <3>1. ApplyEvent(m1, ev)[e] = ev.value /\ ApplyEvent(m2, ev)[e] = ev.value
      BY Zenon, <1>1, <2>1, CacheEffect
    <3> QED
      BY Zenon, <3>1
  <2>2. CASE ev.kind = "entity_unregistered"
    <3>1. ApplyEvent(m1, ev)[e] = Absent /\ ApplyEvent(m2, ev)[e] = Absent
      BY Zenon, <1>1, <2>2, CacheEffect
    <3> QED
      BY Zenon, <3>1
  <2> QED
    BY <1>1, <2>1, <2>2 DEF Sets
<1>2. CASE Adds(e, ev) /\ m1[e] = m2[e]
  <2>1. /\ ApplyEvent(m1, ev)[e] = IF m1[e] = Absent THEN NoAttributes ELSE m1[e]
        /\ ApplyEvent(m2, ev)[e] = IF m2[e] = Absent THEN NoAttributes ELSE m2[e]
    BY Zenon, <1>2, CacheEffect
  <2> QED
    BY <1>2, <2>1
<1>3. CASE ~Sets(e, ev) /\ ~Adds(e, ev)
  BY Zenon, <1>3, CacheEffect
<1> QED
  BY Zenon, <1>1, <1>2, <1>3

Registry(w, t) == [row |-> w, status |-> t]

(* What the registry's Apply does to a row and to the status. *)
LEMMA RegistryEffect ==
  ASSUME NEW r \in Registries, NEW ev \in LogEvents
  PROVE  /\ ApplyRegistry(r, ev) \in Registries
         /\ \A e \in Entities :
              /\ Adds(e, ev) => ApplyRegistry(r, ev).row[e] = "enabled"
              /\ ev.kind = "entity_unregistered" /\ ev.entity = e =>
                   ApplyRegistry(r, ev).row[e] = Updated(r.row[e], "disabled")
              /\ ~Adds(e, ev) /\ ~(ev.kind = "entity_unregistered" /\ ev.entity = e) =>
                   ApplyRegistry(r, ev).row[e] = r.row[e]
         /\ ev.kind = "entity_registered" =>
              ApplyRegistry(r, ev).status = IF r.status = "none" THEN "starting" ELSE r.status
         /\ ev.kind = "driver_started" => ApplyRegistry(r, ev).status = "running"
         /\ ev.kind = "driver_stopped" =>
              ApplyRegistry(r, ev).status = Updated(r.status, "stopped")
         /\ ev.kind = "driver_failed" =>
              ApplyRegistry(r, ev).status = Updated(r.status, "failed")
         /\ ev.kind \notin DriverKinds \cup {"entity_registered"} =>
              ApplyRegistry(r, ev).status = r.status
<1>1. ev.entity \in Entities
  BY EventShape
<1>2. r.row \in [Entities -> Rows] /\ r.status \in Statuses
      /\ r = [row |-> r.row, status |-> r.status]
  BY DEF Registries
<1> DEFINE R == [Entities -> Rows]
<1>3. ASSUME NEW w \in R, NEW t \in Statuses, ApplyRegistry(r, ev) = Registry(w, t)
      PROVE  /\ ApplyRegistry(r, ev) \in Registries
             /\ ApplyRegistry(r, ev).row = w /\ ApplyRegistry(r, ev).status = t
  <2> HIDE DEF R
  <2>1. Registry(w, t) \in [row : R, status : Statuses]
        /\ Registry(w, t).row = w /\ Registry(w, t).status = t
    BY DEF Registry
  <2> QED
    BY Zenon, <1>3, <2>1 DEF Registries, R
<1>4. ASSUME NEW v \in Rows
      PROVE  /\ [r.row EXCEPT ![ev.entity] = v] \in [Entities -> Rows]
             /\ [r.row EXCEPT ![ev.entity] = v][ev.entity] = v
             /\ \A e \in Entities : e # ev.entity => [r.row EXCEPT ![ev.entity] = v][e] = r.row[e]
  BY Zenon, <1>1, <1>2
<1>5. CASE ev.kind = "entity_registered"
  <2> DEFINE t == IF r.status = "none" THEN "starting" ELSE r.status
  <2>1. ApplyRegistry(r, ev) = Registry([r.row EXCEPT ![ev.entity] = "enabled"], t)
    BY <1>5 DEF ApplyRegistry, Registry
  <2>2. "enabled" \in Rows /\ t \in Statuses
    BY <1>2 DEF Rows, Statuses
  <2>3. \A e \in Entities : Adds(e, ev) <=> e = ev.entity
    BY <1>5 DEF Adds
  <2>4. /\ ev.kind \notin DriverKinds \ {"entity_registered"} /\ ev.kind # "entity_unregistered"
        /\ ev.kind \in DriverKinds \cup {"entity_registered"}
        /\ ev.kind # "driver_started" /\ ev.kind # "driver_stopped" /\ ev.kind # "driver_failed"
    BY <1>5 DEF DriverKinds
  <2> HIDE DEF t
  <2>0. [r.row EXCEPT ![ev.entity] = "enabled"] \in R
    BY Zenon, <1>4, <2>2
  <2>5. /\ ApplyRegistry(r, ev) \in Registries
        /\ ApplyRegistry(r, ev).row = [r.row EXCEPT ![ev.entity] = "enabled"]
        /\ ApplyRegistry(r, ev).status = t
    <3> HIDE DEF R
    <3> QED
      BY Zenon, <1>3, <2>1, <2>2, <2>0
  <2>6. \A e \in Entities :
          /\ e = ev.entity => ApplyRegistry(r, ev).row[e] = "enabled"
          /\ e # ev.entity => ApplyRegistry(r, ev).row[e] = r.row[e]
    BY Zenon, <1>4, <2>2, <2>5
  <2>7. \A e \in Entities :
          /\ Adds(e, ev) => ApplyRegistry(r, ev).row[e] = "enabled"
          /\ ~Adds(e, ev) => ApplyRegistry(r, ev).row[e] = r.row[e]
    BY Zenon, <2>3, <2>6
  <2>8. ApplyRegistry(r, ev).status = IF r.status = "none" THEN "starting" ELSE r.status
    BY Zenon, <2>5 DEF t
  <2> QED
    BY Zenon, <2>4, <2>5, <2>7, <2>8
<1>6. CASE ev.kind = "entity_unregistered"
  <2> DEFINE v == Updated(r.row[ev.entity], "disabled")
  <2>1. ApplyRegistry(r, ev) = Registry([r.row EXCEPT ![ev.entity] = v], r.status)
    BY <1>2, <1>6 DEF ApplyRegistry, Registries, Registry
  <2>2. v \in Rows
    BY DEF Rows, Updated
  <2>3. /\ ev.kind # "entity_registered" /\ ev.kind # "driver_started"
        /\ ev.kind # "driver_stopped" /\ ev.kind # "driver_failed"
    BY <1>6
  <2> HIDE DEF v
  <2>0. [r.row EXCEPT ![ev.entity] = v] \in R
    BY Zenon, <1>4, <2>2
  <2>5. /\ ApplyRegistry(r, ev) \in Registries
        /\ ApplyRegistry(r, ev).row = [r.row EXCEPT ![ev.entity] = v]
        /\ ApplyRegistry(r, ev).status = r.status
    <3>1. r.status \in Statuses
      BY Zenon, <1>2
    <3> HIDE DEF R
    <3> QED
      BY Zenon, <1>3, <2>1, <2>0, <3>1
  <2>6. \A e \in Entities :
          /\ e = ev.entity => ApplyRegistry(r, ev).row[e] = v
          /\ e # ev.entity => ApplyRegistry(r, ev).row[e] = r.row[e]
    BY Zenon, <1>4, <2>2, <2>5
  <2> QED
    <3>1. \A e \in Entities :
            /\ ~Adds(e, ev)
            /\ ev.entity = e => ApplyRegistry(r, ev).row[e] = Updated(r.row[e], "disabled")
            /\ ev.entity # e => ApplyRegistry(r, ev).row[e] = r.row[e]
      BY Zenon, <2>3, <2>6 DEF v, Adds
    <3> QED
      BY Zenon, <1>6, <2>3, <2>5, <3>1
<1>7. CASE ev.kind \in DriverKinds
  <2> DEFINE t == CASE ev.kind = "driver_started" -> "running"
                    [] ev.kind = "driver_stopped" -> Updated(r.status, "stopped")
                    [] ev.kind = "driver_failed" -> Updated(r.status, "failed")
  <2>1. ApplyRegistry(r, ev) = Registry(r.row, t)
    BY <1>2, <1>7 DEF ApplyRegistry, DriverKinds, Registries, Registry
  <2>2. /\ t \in Statuses
        /\ ev.kind = "driver_started" => t = "running"
        /\ ev.kind = "driver_stopped" => t = Updated(r.status, "stopped")
        /\ ev.kind = "driver_failed" => t = Updated(r.status, "failed")
    BY <1>7 DEF Statuses, Updated, DriverKinds
  <2>3. ev.kind # "entity_registered" /\ ev.kind # "entity_unregistered"
    BY <1>7 DEF DriverKinds
  <2> HIDE DEF t
  <2>5. /\ ApplyRegistry(r, ev) \in Registries /\ ApplyRegistry(r, ev).row = r.row
        /\ ApplyRegistry(r, ev).status = t
    <3>1. r.row \in R
      BY Zenon, <1>2
    <3> HIDE DEF R
    <3> QED
      BY Zenon, <1>3, <2>1, <2>2, <3>1
  <2> QED
    <3>1. \A e \in Entities : ~Adds(e, ev) /\ ApplyRegistry(r, ev).row[e] = r.row[e]
      BY Zenon, <2>3, <2>5 DEF Adds
    <3>2. ev.kind \in DriverKinds \cup {"entity_registered"}
      BY Zenon, <1>7
    <3> QED
      BY Zenon, <2>2, <2>3, <2>5, <3>1, <3>2
<1>8. CASE ev.kind \notin DriverKinds \cup {"entity_registered", "entity_unregistered"}
  <2>1. ApplyRegistry(r, ev) = r
    BY <1>8 DEF ApplyRegistry, DriverKinds
  <2>2. /\ ev.kind # "entity_registered" /\ ev.kind # "entity_unregistered"
        /\ ev.kind # "driver_started" /\ ev.kind # "driver_stopped" /\ ev.kind # "driver_failed"
    BY <1>8 DEF DriverKinds
  <2> QED
    BY Zenon, <2>1, <2>2 DEF Adds
<1> QED
  BY <1>5, <1>6, <1>7, <1>8

-----------------------------------------------------------------------------
(* The function Made, for the logs of a behaviour. *)

(* Made(l) is the one solution of its equation, where there is one. *)
LEMMA MadeIs ==
  ASSUME NEW l, OneMade(l)
  PROVE  IsMade(Made(l), l) /\ \A g : IsMade(g, l) => g = Made(l)
<1>1. Made(l) = CHOOSE f : IsMade(f, l)
  BY Zenon DEF Made, IsMade, First
<1>2. PICK f : IsMade(f, l) /\ \A g : IsMade(g, l) => g = f
  BY Zenon DEF OneMade
<1> QED
  BY Zenon, <1>1, <1>2

(* The recursive equation, read from left to right and back. *)
LEMMA MadeEquation ==
  ASSUME NEW f, NEW l, Len(l) \in Nat
  PROVE  IsMade(f, l) <=>
           /\ f = [n \in 0 .. Len(l) |-> f[n]]
           /\ f[0] = First
           /\ \A n \in 1 .. Len(l) : f[n] = Makes(f[n - 1], l[n])
<1> DEFINE body(n) == IF n = 0 THEN First ELSE Makes(f[n - 1], l[n])
<1>1. 0 \in 0 .. Len(l) /\ body(0) = First
  OBVIOUS
<1>2. \A n \in 1 .. Len(l) : n \in 0 .. Len(l) /\ n # 0
  OBVIOUS
<1>3. \A n \in 1 .. Len(l) : body(n) = Makes(f[n - 1], l[n])
  BY Zenon, <1>2
<1>4. \A n \in 0 .. Len(l) : n = 0 \/ n \in 1 .. Len(l)
  OBVIOUS
<1> HIDE DEF body
<1>5. ASSUME f = [n \in 0 .. Len(l) |-> body(n)]
      PROVE  /\ f = [n \in 0 .. Len(l) |-> f[n]]
             /\ \A n \in 0 .. Len(l) : f[n] = body(n)
  BY Zenon, <1>5
<1>6. ASSUME f = [n \in 0 .. Len(l) |-> f[n]], \A n \in 0 .. Len(l) : f[n] = body(n)
      PROVE  f = [n \in 0 .. Len(l) |-> body(n)]
  BY Zenon, <1>6
<1>7. IsMade(f, l) <=> f = [n \in 0 .. Len(l) |-> body(n)]
  BY Zenon DEF IsMade, body
<1> QED
  BY Zenon, <1>1, <1>2, <1>3, <1>4, <1>5, <1>6, <1>7

(* The empty log makes the empty cache and registry, and nothing else. *)
LEMMA MadeEmpty == OneMade(<<>>)
<1> DEFINE f == [n \in 0 .. 0 |-> First]
<1>1. Len(<<>>) = 0 /\ 0 \in 0 .. 0 /\ 0 \in Nat /\ 1 .. 0 = {} /\ \A n \in 0 .. 0 : n = 0
  OBVIOUS
<1>2. f[0] = First /\ f = [n \in 0 .. 0 |-> f[n]]
  BY Zenon, <1>1
<1>3. IsMade(f, <<>>)
  <2> HIDE DEF f
  <2>1. \A n \in 1 .. 0 : f[n] = Makes(f[n - 1], <<>>[n])
    BY <1>1
  <2> QED
    BY Zenon, <1>1, <1>2, <2>1, MadeEquation
<1>4. ASSUME NEW g, IsMade(g, <<>>) PROVE g = f
  <2>1. g = [n \in 0 .. 0 |-> g[n]] /\ g[0] = First
    BY Zenon, <1>1, <1>4, MadeEquation
  <2> QED
    BY Zenon, <1>1, <2>1
<1> QED
  BY Zenon, <1>3, <1>4 DEF OneMade

(* One more event adds one step and changes no earlier one. *)
LEMMA MadeAppend ==
  ASSUME NEW l \in Seq(LogEvents), NEW ev \in LogEvents, OneMade(l)
  PROVE  /\ OneMade(Append(l, ev))
         /\ \A n \in 0 .. Len(l) : Made(Append(l, ev))[n] = Made(l)[n]
         /\ Made(Append(l, ev))[Len(l) + 1] = Makes(Made(l)[Len(l)], ev)
<1> DEFINE k == Append(l, ev)
           f == Made(l)
           N == Len(l)
           g == [n \in 0 .. N + 1 |-> IF n <= N THEN f[n] ELSE Makes(f[N], ev)]
<1>1. /\ N \in Nat /\ Len(k) = N + 1 /\ Len(k) \in Nat /\ k[N + 1] = ev
      /\ \A n \in 1 .. N : k[n] = l[n]
  OBVIOUS
<1>2. /\ f = [n \in 0 .. N |-> f[n]] /\ f[0] = First
      /\ \A n \in 1 .. N : f[n] = Makes(f[n - 1], l[n])
      /\ \A h : IsMade(h, l) => h = f
  BY Zenon, <1>1, MadeIs, MadeEquation
<1> HIDE DEF k, f, N
<1>3. /\ \A n \in 0 .. N : n \in 0 .. N + 1 /\ n <= N
      /\ N + 1 \in 0 .. N + 1 /\ ~(N + 1 <= N) /\ 0 \in 0 .. N /\ N \in 0 .. N
      /\ \A n \in 0 .. N + 1 : n \in 0 .. N \/ n = N + 1
      /\ \A n \in 1 .. N + 1 : n \in 1 .. N \/ n = N + 1
      /\ \A n \in 1 .. N : n \in 0 .. N /\ n - 1 \in 0 .. N /\ n \in 1 .. N + 1
      /\ (N + 1) - 1 = N /\ N + 1 \in 1 .. N + 1
  BY <1>1
<1>4. (\A n \in 0 .. N : g[n] = f[n]) /\ g[N + 1] = Makes(f[N], ev)
  BY Zenon, <1>3
<1>5. g = [n \in 0 .. N + 1 |-> g[n]]
  BY Zenon
<1> HIDE DEF g
<1>6. IsMade(g, k)
  <2>1. g[0] = First
    BY Zenon, <1>2, <1>3, <1>4
  <2>2. ASSUME NEW n \in 1 .. N + 1 PROVE g[n] = Makes(g[n - 1], k[n])
    <3>1. CASE n \in 1 .. N
      <4>1. g[n] = f[n] /\ g[n - 1] = f[n - 1] /\ k[n] = l[n]
        BY Zenon, <1>1, <1>3, <1>4, <3>1
      <4> QED
        BY Zenon, <1>2, <3>1, <4>1
    <3>2. CASE n = N + 1
      <4>1. n - 1 = N
        BY <1>1, <3>2
      <4> QED
        BY Zenon, <1>1, <1>3, <1>4, <3>2, <4>1
    <3> QED
      BY Zenon, <1>3, <3>1, <3>2
  <2> QED
    BY Zenon, <1>1, <1>5, <2>1, <2>2, MadeEquation
<1>7. ASSUME NEW h, IsMade(h, k) PROVE h = g
  <2>1. /\ h = [n \in 0 .. N + 1 |-> h[n]] /\ h[0] = First
        /\ \A n \in 1 .. N + 1 : h[n] = Makes(h[n - 1], k[n])
    <3>1. /\ h = [n \in 0 .. Len(k) |-> h[n]] /\ h[0] = First
          /\ \A n \in 1 .. Len(k) : h[n] = Makes(h[n - 1], k[n])
      BY Zenon, <1>1, <1>7, MadeEquation
    <3> QED
      BY Zenon, <1>1, <3>1
  <2> DEFINE j == [n \in 0 .. N |-> h[n]]
  <2>2. /\ j = [n \in 0 .. N |-> j[n]]
        /\ \A n \in 0 .. N : j[n] = h[n]
    BY Zenon
  <2> HIDE DEF j
  <2>3. j[0] = First
    BY Zenon, <1>3, <2>1, <2>2
  <2>4. ASSUME NEW n \in 1 .. N PROVE j[n] = Makes(j[n - 1], l[n])
    <3>1. j[n] = h[n] /\ j[n - 1] = h[n - 1] /\ k[n] = l[n] /\ n \in 1 .. N + 1
      BY Zenon, <1>1, <1>3, <2>2
    <3> QED
      BY Zenon, <2>1, <3>1
  <2>5. IsMade(j, l)
    BY Zenon, <1>1, <2>2, <2>3, <2>4, MadeEquation DEF N
  <2>6. \A n \in 0 .. N : h[n] = g[n]
    BY Zenon, <1>2, <1>4, <2>2, <2>5
  <2>7. h[N + 1] = g[N + 1]
    <3>1. h[N + 1] = Makes(h[N], ev)
      BY Zenon, <1>1, <1>3, <2>1
    <3> QED
      BY Zenon, <1>3, <1>4, <2>6, <3>1
  <2>8. \A n \in 0 .. N + 1 : h[n] = g[n]
    BY Zenon, <1>3, <2>6, <2>7
  <2> QED
    BY Zenon, <1>5, <2>1, <2>8
<1>8. OneMade(k)
  BY Zenon, <1>6, <1>7 DEF OneMade
<1>9. Made(k) = g
  BY Zenon, <1>6, <1>8, MadeIs
<1> QED
  BY Zenon, <1>4, <1>8, <1>9 DEF k, f, N

-----------------------------------------------------------------------------
(* One event of a replay. *)

(* What the prefixes of the log make, one event after the other. *)
LEMMA After ==
  ASSUME RecType, HistoryInv
  PROVE  /\ CacheAfter(0) = EmptyMap /\ RegistryAfter(0) = EmptyRegistry
         /\ \A n \in 1 .. Len(log) :
              /\ CacheAfter(n) = ApplyEvent(CacheAfter(n - 1), log[n])
              /\ RegistryAfter(n) = ApplyRegistry(RegistryAfter(n - 1), log[n])
<1>1. Len(log) \in Nat
  BY DEF RecType
<1>2. /\ Made(log)[0] = First
      /\ \A n \in 1 .. Len(log) : Made(log)[n] = Makes(Made(log)[n - 1], log[n])
  BY Zenon, <1>1, MadeIs, MadeEquation DEF HistoryInv
<1>3. First.cache = EmptyMap /\ First.registry = EmptyRegistry
  BY DEF First
<1>4. \A v, ev : /\ Makes(v, ev).cache = ApplyEvent(v.cache, ev)
                 /\ Makes(v, ev).registry = ApplyRegistry(v.registry, ev)
  BY Zenon DEF Makes
<1> QED
  BY Zenon, <1>2, <1>3, <1>4 DEF CacheAfter, RegistryAfter

\* The position after n, and what lies behind it.
LEMMA Positions ==
  ASSUME RecType, NEW n \in Nat, n < Len(log)
  PROVE  /\ n \in 0 .. Len(log) /\ n + 1 \in 0 .. Len(log) /\ n + 1 \in 1 .. Len(log)
         /\ (n + 1) - 1 = n /\ log[n + 1] \in LogEvents /\ log[n + 1].entity \in Entities
         /\ \A p : p \in n + 1 .. Len(log) <=> p = n + 1 \/ p \in (n + 1) + 1 .. Len(log)
         /\ \A p : p \in 0 + 1 .. n + 1 <=> p = n + 1 \/ p \in 0 + 1 .. n
         /\ \A e : SetIn(e, n, Len(log)) <=> Sets(e, log[n + 1]) \/ SetIn(e, n + 1, Len(log))
         /\ \A e : AddIn(e, n, Len(log)) <=> Adds(e, log[n + 1]) \/ AddIn(e, n + 1, Len(log))
         /\ \A K : KindIn(K, n, Len(log)) <=>
                     log[n + 1].kind \in K \/ KindIn(K, n + 1, Len(log))
         /\ \A K : KindIn(K, 0, n + 1) <=> log[n + 1].kind \in K \/ KindIn(K, 0, n)
<1>1. Len(log) \in Nat /\ log \in Seq(LogEvents)
  BY DEF RecType
<1>2. /\ n \in 0 .. Len(log) /\ n + 1 \in 0 .. Len(log) /\ n + 1 \in 1 .. Len(log)
      /\ (n + 1) - 1 = n
      /\ \A p : p \in n + 1 .. Len(log) <=> p = n + 1 \/ p \in (n + 1) + 1 .. Len(log)
      /\ \A p : p \in 0 + 1 .. n + 1 <=> p = n + 1 \/ p \in 0 + 1 .. n
  BY <1>1
<1>3. log[n + 1] \in LogEvents
  BY <1>1, <1>2
<1>4. log[n + 1].entity \in Entities
  BY Zenon, <1>3, EventShape
<1>5. \A e : SetIn(e, n, Len(log)) <=> Sets(e, log[n + 1]) \/ SetIn(e, n + 1, Len(log))
  BY Zenon, <1>2 DEF SetIn
<1>6. \A e : AddIn(e, n, Len(log)) <=> Adds(e, log[n + 1]) \/ AddIn(e, n + 1, Len(log))
  BY Zenon, <1>2 DEF AddIn
<1>7. \A K : KindIn(K, n, Len(log)) <=> log[n + 1].kind \in K \/ KindIn(K, n + 1, Len(log))
  BY Zenon, <1>2 DEF KindIn
<1>8. \A K : KindIn(K, 0, n + 1) <=> log[n + 1].kind \in K \/ KindIn(K, 0, n)
  BY Zenon, <1>2 DEF KindIn
<1> QED
  BY Zenon, <1>2, <1>3, <1>4, <1>5, <1>6, <1>7, <1>8

\* Nothing lies behind the last position, and nothing before the first.
LEMMA NoPositions ==
  ASSUME RecType
  PROVE  /\ \A e : ~SetIn(e, Len(log), Len(log)) /\ ~AddIn(e, Len(log), Len(log))
         /\ \A K : ~KindIn(K, Len(log), Len(log)) /\ ~KindIn(K, 0, 0)
<1>1. Len(log) \in Nat
  BY DEF RecType
<1>2. Len(log) + 1 .. Len(log) = {} /\ 0 + 1 .. 0 = {}
  BY <1>1
<1> QED
  BY Zenon, <1>2 DEF SetIn, AddIn, KindIn

\* An event of an entity none of whose events is skipped is not skipped.
LEMMA NotSkipped ==
  ASSUME NEW n \in 1 .. Len(log), NEW projector, Unskipped(log[n].entity, projector)
  PROVE  ~IsSkipped(n, projector)
  BY Zenon DEF Unskipped, IsSkipped

(* Replaying one event of the log keeps what is still to be overwritten so. *)
LEMMA ClosingStep ==
  ASSUME RecType, HistoryInv, NEW n \in Nat, n < Len(log), NEW m \in Maps, Closing(m, n),
         NEW m2, m2 = IF IsSkipped(n + 1, "state_cache") THEN m ELSE ApplyEvent(m, log[n + 1])
  PROVE  Closing(m2, n + 1)
<1> DEFINE ev == log[n + 1]
           c == CacheAfter(n)
<1>1. /\ n \in 0 .. Len(log) /\ n + 1 \in 1 .. Len(log) /\ (n + 1) - 1 = n /\ ev \in LogEvents
      /\ \A e : SetIn(e, n, Len(log)) <=> Sets(e, ev) \/ SetIn(e, n + 1, Len(log))
      /\ \A e : AddIn(e, n, Len(log)) <=> Adds(e, ev) \/ AddIn(e, n + 1, Len(log))
  BY Zenon, Positions
<1>2. c \in Maps
  BY Zenon, <1>1 DEF HistoryInv, Explained
<1>3. CacheAfter(n + 1) = ApplyEvent(c, ev)
  BY Zenon, <1>1, After
<1> HIDE DEF c, ev
<1> SUFFICES ASSUME NEW e \in Entities, Unskipped(e, "state_cache")
             PROVE  \/ m2[e] = ApplyEvent(c, ev)[e]
                    \/ SetIn(e, n + 1, Len(log))
                    \/ /\ m2[e] = NoAttributes /\ ApplyEvent(c, ev)[e] = Absent
                       /\ AddIn(e, n + 1, Len(log))
  BY Zenon, <1>3 DEF Closing
<1>4. \/ m[e] = c[e]
      \/ SetIn(e, n, Len(log))
      \/ m[e] = NoAttributes /\ c[e] = Absent /\ AddIn(e, n, Len(log))
  BY Zenon DEF Closing, c
<1>5. ev.entity = e => m2 = ApplyEvent(m, ev)
  BY Zenon, <1>1, NotSkipped DEF ev
<1>6. CASE Sets(e, ev)
  <2>1. m2 = ApplyEvent(m, ev)
    BY Zenon, <1>5, <1>6 DEF Sets
  <2>2. ApplyEvent(m, ev)[e] = ApplyEvent(c, ev)[e]
    BY Zenon, <1>1, <1>2, <1>6, CacheAgrees
  <2> QED
    BY Zenon, <2>1, <2>2
<1>7. CASE Adds(e, ev)
  <2>1. m2 = ApplyEvent(m, ev)
    BY Zenon, <1>5, <1>7 DEF Adds
  <2>2. CASE m[e] = c[e]
    <3>1. ApplyEvent(m, ev)[e] = ApplyEvent(c, ev)[e]
      BY Zenon, <1>1, <1>2, <2>2, CacheAgrees
    <3> QED
      BY Zenon, <2>1, <3>1
  <2>3. CASE SetIn(e, n, Len(log))
    <3>1. ~Sets(e, ev)
      BY <1>7 DEF Sets, Adds
    <3> QED
      BY Zenon, <1>1, <2>3, <3>1
  <2>4. CASE m[e] = NoAttributes /\ c[e] = Absent
    <3>1. NoAttributes # Absent
      BY CacheAssumption DEF States
    <3>2. /\ ApplyEvent(m, ev)[e] = IF m[e] = Absent THEN NoAttributes ELSE m[e]
          /\ ApplyEvent(c, ev)[e] = IF c[e] = Absent THEN NoAttributes ELSE c[e]
      BY Zenon, <1>1, <1>2, <1>7, CacheEffect
    <3>3. ApplyEvent(m, ev)[e] = NoAttributes /\ ApplyEvent(c, ev)[e] = NoAttributes
      BY Zenon, <2>4, <3>1, <3>2
    <3> QED
      BY Zenon, <2>1, <3>3
  <2> QED
    BY Zenon, <1>4, <2>2, <2>3, <2>4
<1>8. CASE ~Sets(e, ev) /\ ~Adds(e, ev)
  <2>1. ApplyEvent(m, ev)[e] = m[e] /\ ApplyEvent(c, ev)[e] = c[e]
    BY Zenon, <1>1, <1>2, <1>8, CacheEffect
  <2>2. m2 = m \/ m2 = ApplyEvent(m, ev)
    BY Zenon DEF ev
  <2>3. m2[e] = m[e]
    BY Zenon, <2>1, <2>2
  <2> QED
    BY Zenon, <1>1, <1>4, <1>8, <2>1, <2>3
<1> QED
  BY Zenon, <1>6, <1>7, <1>8

\* At the end of the log nothing is left to be overwritten.
LEMMA ClosingEnd ==
  ASSUME RecType, NEW m, Closing(m, Len(log))
  PROVE  Holds(m, Len(log))
  BY Zenon, NoPositions DEF Closing, Holds

(* What an event makes of a row or of the status depends on that row and on   *)
(* the status alone, and not even on them when it settles them.               *)
LEMMA RegistryAgrees ==
  ASSUME NEW r1 \in Registries, NEW r2 \in Registries, NEW ev \in LogEvents
  PROVE  /\ \A e \in Entities :
              Adds(e, ev) \/ r1.row[e] = r2.row[e] =>
                ApplyRegistry(r1, ev).row[e] = ApplyRegistry(r2, ev).row[e]
         /\ \/ r1.status = r2.status
            \/ ev.kind = "driver_started"
            \/ ev.kind \in DriverKinds /\ r1.status # "none" /\ r2.status # "none"
            => ApplyRegistry(r1, ev).status = ApplyRegistry(r2, ev).status
<1>1. ASSUME NEW e \in Entities, Adds(e, ev) \/ r1.row[e] = r2.row[e]
      PROVE  ApplyRegistry(r1, ev).row[e] = ApplyRegistry(r2, ev).row[e]
  <2>1. CASE Adds(e, ev)
    <3>1. ApplyRegistry(r1, ev).row[e] = "enabled" /\ ApplyRegistry(r2, ev).row[e] = "enabled"
      BY Zenon, <2>1, RegistryEffect
    <3> QED
      BY Zenon, <3>1
  <2>2. CASE ev.kind = "entity_unregistered" /\ ev.entity = e /\ r1.row[e] = r2.row[e]
    <3>1. /\ ApplyRegistry(r1, ev).row[e] = Updated(r1.row[e], "disabled")
          /\ ApplyRegistry(r2, ev).row[e] = Updated(r2.row[e], "disabled")
      BY Zenon, <2>2, RegistryEffect
    <3> QED
      BY Zenon, <2>2, <3>1
  <2>3. CASE ~Adds(e, ev) /\ ~(ev.kind = "entity_unregistered" /\ ev.entity = e)
    <3>1. ApplyRegistry(r1, ev).row[e] = r1.row[e] /\ ApplyRegistry(r2, ev).row[e] = r2.row[e]
      BY Zenon, <2>3, RegistryEffect
    <3> QED
      BY Zenon, <1>1, <2>3, <3>1
  <2> QED
    BY Zenon, <1>1, <2>1, <2>2, <2>3
<1>2. ASSUME \/ r1.status = r2.status
             \/ ev.kind = "driver_started"
             \/ ev.kind \in DriverKinds /\ r1.status # "none" /\ r2.status # "none"
      PROVE  ApplyRegistry(r1, ev).status = ApplyRegistry(r2, ev).status
  <2>1. CASE ev.kind = "driver_started"
    <3>1. ApplyRegistry(r1, ev).status = "running" /\ ApplyRegistry(r2, ev).status = "running"
      BY Zenon, <2>1, RegistryEffect
    <3> QED
      BY Zenon, <3>1
  <2>2. CASE ev.kind = "driver_stopped"
    <3>1. /\ ApplyRegistry(r1, ev).status = Updated(r1.status, "stopped")
          /\ ApplyRegistry(r2, ev).status = Updated(r2.status, "stopped")
      BY Zenon, <2>2, RegistryEffect
    <3> QED
      BY <1>2, <2>2, <3>1 DEF Updated
  <2>3. CASE ev.kind = "driver_failed"
    <3>1. /\ ApplyRegistry(r1, ev).status = Updated(r1.status, "failed")
          /\ ApplyRegistry(r2, ev).status = Updated(r2.status, "failed")
      BY Zenon, <2>3, RegistryEffect
    <3> QED
      BY <1>2, <2>3, <3>1 DEF Updated
  <2>4. CASE ev.kind = "entity_registered"
    <3>1. /\ ApplyRegistry(r1, ev).status = IF r1.status = "none" THEN "starting" ELSE r1.status
          /\ ApplyRegistry(r2, ev).status = IF r2.status = "none" THEN "starting" ELSE r2.status
      BY Zenon, <2>4, RegistryEffect
    <3> QED
      BY <1>2, <2>4, <3>1 DEF DriverKinds
  <2>5. CASE ev.kind \notin DriverKinds \cup {"entity_registered"}
    <3>1. ApplyRegistry(r1, ev).status = r1.status /\ ApplyRegistry(r2, ev).status = r2.status
      BY Zenon, <2>5, RegistryEffect
    <3>2. ev.kind # "driver_started" /\ ev.kind \notin DriverKinds
      BY <2>5 DEF DriverKinds
    <3> QED
      BY Zenon, <1>2, <3>1, <3>2
  <2> QED
    BY <2>1, <2>2, <2>3, <2>4, <2>5 DEF DriverKinds
<1> QED
  BY Zenon, <1>1, <1>2

(* A row or a status that is there was there before, or comes from the event. *)
LEMMA RegistrySource ==
  ASSUME NEW r \in Registries, NEW ev \in LogEvents
  PROVE  /\ \A e \in Entities :
              r.row[e] = "none" /\ ~Adds(e, ev) => ApplyRegistry(r, ev).row[e] = "none"
         /\ \/ ev.kind \in DriverKinds
            \/ ApplyRegistry(r, ev).status = r.status
            \/ ApplyRegistry(r, ev).status = "starting" /\ ev.kind = "entity_registered"
         /\ r.status # "none" \/ ev.kind \in RowMakers => ApplyRegistry(r, ev).status # "none"
<1>1. ASSUME NEW e \in Entities, r.row[e] = "none", ~Adds(e, ev)
      PROVE  ApplyRegistry(r, ev).row[e] = "none"
  <2>1. CASE ev.kind = "entity_unregistered" /\ ev.entity = e
    <3>1. ApplyRegistry(r, ev).row[e] = Updated(r.row[e], "disabled")
      BY Zenon, <2>1, RegistryEffect
    <3> QED
      BY <1>1, <3>1 DEF Updated
  <2>2. CASE ~(ev.kind = "entity_unregistered" /\ ev.entity = e)
    <3>1. ApplyRegistry(r, ev).row[e] = r.row[e]
      BY <1>1, <2>2, RegistryEffect
    <3> QED
      BY Zenon, <1>1, <3>1
  <2> QED
    BY Zenon, <2>1, <2>2
<1>2. CASE ev.kind = "entity_registered"
  <2>1. ApplyRegistry(r, ev).status = IF r.status = "none" THEN "starting" ELSE r.status
    BY Zenon, <1>2, RegistryEffect
  <2>2. /\ \/ ApplyRegistry(r, ev).status = r.status
           \/ ApplyRegistry(r, ev).status = "starting"
        /\ ApplyRegistry(r, ev).status # "none"
    BY <2>1
  <2> QED
    BY Zenon, <1>1, <1>2, <2>2
<1>3. CASE ev.kind \in DriverKinds
  <2>1. /\ ev.kind = "driver_started" => ApplyRegistry(r, ev).status = "running"
        /\ ev.kind = "driver_stopped" =>
             ApplyRegistry(r, ev).status = Updated(r.status, "stopped")
        /\ ev.kind = "driver_failed" => ApplyRegistry(r, ev).status = Updated(r.status, "failed")
    BY Zenon, RegistryEffect
  <2>2. r.status # "none" \/ ev.kind \in RowMakers => ApplyRegistry(r, ev).status # "none"
    BY <1>3, <2>1 DEF DriverKinds, RowMakers, Updated
  <2> QED
    BY Zenon, <1>1, <1>3, <2>2
<1>4. CASE ev.kind \notin DriverKinds \cup {"entity_registered"}
  <2>1. ApplyRegistry(r, ev).status = r.status
    BY Zenon, <1>4, RegistryEffect
  <2>2. ev.kind \notin RowMakers
    BY <1>4 DEF DriverKinds, RowMakers
  <2> QED
    BY Zenon, <1>1, <2>1, <2>2
<1> QED
  BY Zenon, <1>2, <1>3, <1>4

(* The same for the rows of the registry, which are replayed in place. *)
LEMMA RowsStep ==
  ASSUME RecType, HistoryInv, NEW n \in Nat, n < Len(log), NEW r \in Registries,
         RowsClosing(r, n),
         NEW r2, r2 = IF IsSkipped(n + 1, "registry") THEN r ELSE ApplyRegistry(r, log[n + 1])
  PROVE  RowsClosing(r2, n + 1)
<1> DEFINE ev == log[n + 1]
           c == RegistryAfter(n)
<1>1. /\ n \in 0 .. Len(log) /\ n + 1 \in 1 .. Len(log) /\ (n + 1) - 1 = n /\ ev \in LogEvents
      /\ \A e : AddIn(e, n, Len(log)) <=> Adds(e, ev) \/ AddIn(e, n + 1, Len(log))
  BY Zenon, Positions
<1>2. c \in Registries
  BY Zenon, <1>1 DEF HistoryInv, Explained
<1>3. RegistryAfter(n + 1) = ApplyRegistry(c, ev)
  BY Zenon, <1>1, After
<1> HIDE DEF c, ev
<1> SUFFICES ASSUME NEW e \in Entities, Unskipped(e, "registry"), ~AddIn(e, n + 1, Len(log))
             PROVE  r2.row[e] = ApplyRegistry(c, ev).row[e]
  BY Zenon, <1>3 DEF RowsClosing
<1>4. Adds(e, ev) \/ r.row[e] = c.row[e]
  BY Zenon, <1>1 DEF RowsClosing, c
<1>5. ApplyRegistry(r, ev).row[e] = ApplyRegistry(c, ev).row[e]
  BY Zenon, <1>1, <1>2, <1>4, RegistryAgrees
<1>6. CASE ev.entity = e
  <2>1. r2 = ApplyRegistry(r, ev)
    BY Zenon, <1>1, <1>6, NotSkipped DEF ev
  <2> QED
    BY Zenon, <1>5, <2>1
<1>7. CASE ev.entity # e
  <2>1. ~Adds(e, ev)
    BY Zenon, <1>7 DEF Adds
  <2>2. ApplyRegistry(r, ev).row[e] = r.row[e]
    BY Zenon, <1>1, <1>7, <2>1, RegistryEffect
  <2>3. r2 = r \/ r2 = ApplyRegistry(r, ev)
    BY Zenon DEF ev
  <2> QED
    BY Zenon, <1>5, <2>2, <2>3
<1> QED
  BY Zenon, <1>6, <1>7

\* The status needs every event applied, and a row before the first update.
LEMMA StatusStep ==
  ASSUME RecType, HistoryInv, skipped = {}, NEW n \in Nat, n < Len(log),
         NEW r \in Registries, KindIn(RowMakers, 0, n) => r.status # "none",
         NEW r2, r2 = IF IsSkipped(n + 1, "registry") THEN r ELSE ApplyRegistry(r, log[n + 1])
  PROVE  /\ KindIn(RowMakers, 0, n + 1) => r2.status # "none"
         /\ RowComesFirst /\ StatusClosing(r, n) => StatusClosing(r2, n + 1)
<1> DEFINE ev == log[n + 1]
           c == RegistryAfter(n)
<1>1. /\ n \in 0 .. Len(log) /\ n + 1 \in 1 .. Len(log) /\ (n + 1) - 1 = n /\ ev \in LogEvents
      /\ \A K : KindIn(K, n, Len(log)) <=> ev.kind \in K \/ KindIn(K, n + 1, Len(log))
      /\ \A K : KindIn(K, 0, n + 1) <=> ev.kind \in K \/ KindIn(K, 0, n)
  BY Zenon, Positions
<1>2. /\ c \in Registries
      /\ KindIn(RowMakers, 0, n) => c.status # "none"
  BY Zenon, <1>1 DEF HistoryInv, Explained
<1>3. RegistryAfter(n + 1) = ApplyRegistry(c, ev)
  BY Zenon, <1>1, After
<1>4. r2 = ApplyRegistry(r, ev)
  BY Zenon DEF IsSkipped
<1>5. ASSUME RowComesFirst, ev.kind \in {"driver_stopped", "driver_failed"}
      PROVE  KindIn(RowMakers, 0, n)
  <2>1. n + 1 \in DOMAIN log /\ 0 + 1 .. n = 1 .. (n + 1) - 1
    BY <1>1 DEF RecType
  <2>2. PICK q \in 1 .. (n + 1) - 1 : log[q].kind \in RowMakers
    BY Zenon, <1>5, <2>1 DEF RowComesFirst, RowMakers
  <2> QED
    BY Zenon, <2>1, <2>2 DEF KindIn
<1> HIDE DEF c, ev
<1>6. KindIn(RowMakers, 0, n + 1) => r2.status # "none"
  <2>1. r.status # "none" \/ ev.kind \in RowMakers => ApplyRegistry(r, ev).status # "none"
    BY Zenon, <1>1, RegistrySource
  <2> QED
    BY Zenon, <1>1, <1>4, <2>1
<1>7. ASSUME RowComesFirst, StatusClosing(r, n) PROVE StatusClosing(r2, n + 1)
  <2>1. \/ r.status = c.status
        \/ ev.kind \in DriverKinds \/ KindIn(DriverKinds, n + 1, Len(log))
        \/ /\ r.status = "starting" /\ c.status = "none"
           /\ ev.kind = "entity_registered" \/ KindIn({"entity_registered"}, n + 1, Len(log))
    <3>1. ev.kind \in {"entity_registered"} <=> ev.kind = "entity_registered"
      OBVIOUS
    <3> QED
      BY Zenon, <1>1, <1>7, <3>1 DEF StatusClosing, c
  <2>2. CASE ApplyRegistry(r, ev).status = ApplyRegistry(c, ev).status
    BY Zenon, <1>3, <1>4, <2>2 DEF StatusClosing
  <2>3. CASE KindIn(DriverKinds, n + 1, Len(log))
    BY Zenon, <2>3 DEF StatusClosing
  <2>4. CASE r.status = c.status
    BY Zenon, <1>1, <1>2, <2>2, <2>4, RegistryAgrees
  <2>5. CASE ev.kind \in DriverKinds
    <3>1. CASE ev.kind = "driver_started"
      BY Zenon, <1>1, <1>2, <2>2, <3>1, RegistryAgrees
    <3>2. CASE ev.kind \in {"driver_stopped", "driver_failed"}
      <4>1. r.status # "none" /\ c.status # "none"
        BY Zenon, <1>2, <1>5, <1>7, <3>2 DEF ev
      <4> QED
        BY Zenon, <1>1, <1>2, <2>2, <2>5, <4>1, RegistryAgrees
    <3> QED
      BY <2>5, <3>1, <3>2 DEF DriverKinds
  <2>6. CASE /\ r.status = "starting" /\ c.status = "none"
             /\ ev.kind = "entity_registered"
    <3>1. ASSUME NEW x \in Registries
          PROVE  ApplyRegistry(x, ev).status = IF x.status = "none" THEN "starting" ELSE x.status
      BY Zenon, <1>1, <2>6, RegistryEffect
    <3>2. ApplyRegistry(r, ev).status = "starting" /\ ApplyRegistry(c, ev).status = "starting"
      BY <1>2, <2>6, <3>1
    <3>3. ApplyRegistry(r, ev).status = ApplyRegistry(c, ev).status
      BY Zenon, <3>2
    <3> QED
      BY Zenon, <2>2, <3>3
  <2>7. CASE /\ r.status = "starting" /\ c.status = "none"
             /\ ev.kind \notin DriverKinds \cup {"entity_registered"}
             /\ KindIn({"entity_registered"}, n + 1, Len(log))
    <3>1. ApplyRegistry(r, ev).status = r.status /\ ApplyRegistry(c, ev).status = c.status
      <4>1. ASSUME NEW x \in Registries PROVE ApplyRegistry(x, ev).status = x.status
        BY Zenon, <1>1, <2>7, RegistryEffect
      <4> QED
        BY Zenon, <1>2, <4>1
    <3> QED
      BY Zenon, <1>3, <1>4, <2>7, <3>1 DEF StatusClosing
  <2>8. ev.kind \notin DriverKinds /\ ev.kind # "entity_registered" =>
          ev.kind \notin DriverKinds \cup {"entity_registered"}
    OBVIOUS
  <2> QED
    BY Zenon, <2>1, <2>3, <2>4, <2>5, <2>6, <2>7, <2>8
<1> QED
  BY Zenon, <1>6, <1>7

(* An event of the log writes no row that the log does not account for. *)
LEMMA SourcedStep ==
  ASSUME RecType, NEW n \in Nat, n < Len(log), NEW r \in Registries, Sourced(r),
         NEW r2, r2 = r \/ r2 = ApplyRegistry(r, log[n + 1])
  PROVE  Sourced(r2)
<1> DEFINE ev == log[n + 1]
<1>1. ev \in LogEvents /\ n + 1 \in 0 + 1 .. Len(log)
  BY Positions DEF RecType
<1> HIDE DEF ev
<1>2. CASE r2 = r
  BY Zenon, <1>2
<1>3. CASE r2 = ApplyRegistry(r, ev)
  <2>1. ASSUME NEW e \in Entities PROVE r2.row[e] = "none" \/ AddIn(e, 0, Len(log))
    <3>1. Adds(e, ev) => AddIn(e, 0, Len(log))
      BY Zenon, <1>1 DEF AddIn, ev
    <3>2. r.row[e] = "none" \/ AddIn(e, 0, Len(log))
      BY Zenon DEF Sourced
    <3>3. r.row[e] = "none" /\ ~Adds(e, ev) => ApplyRegistry(r, ev).row[e] = "none"
      BY <1>1, RegistrySource
    <3> QED
      BY Zenon, <1>3, <3>1, <3>2, <3>3
  <2>2. \A K : ev.kind \in K => KindIn(K, 0, Len(log))
    BY Zenon, <1>1 DEF KindIn, ev
  <2>3. ev.kind = "entity_registered" => ev.kind \in {"entity_registered"}
    OBVIOUS
  <2>4. \/ ev.kind \in DriverKinds
        \/ r2.status = r.status
        \/ r2.status = "starting" /\ ev.kind = "entity_registered"
    <3>1. \/ ev.kind \in DriverKinds
          \/ ApplyRegistry(r, ev).status = r.status
          \/ ApplyRegistry(r, ev).status = "starting" /\ ev.kind = "entity_registered"
      BY <1>1, RegistrySource
    <3> QED
      BY Zenon, <1>3, <3>1
  <2> QED
    BY Zenon, <2>1, <2>2, <2>3, <2>4 DEF Sourced
<1> QED
  BY Zenon, <1>2, <1>3 DEF ev

\* At the end of the log the registry is what the log says.
LEMMA RowsEnd ==
  ASSUME RecType, NEW r
  PROVE  /\ RowsClosing(r, Len(log)) =>
              \A e \in Entities :
                Unskipped(e, "registry") => r.row[e] = RegistryAfter(Len(log)).row[e]
         /\ StatusClosing(r, Len(log)) => r.status = RegistryAfter(Len(log)).status
  BY Zenon, NoPositions DEF RowsClosing, StatusClosing

-----------------------------------------------------------------------------
(* What a step leaves of the past: the log grows at its end, and an event that
   is skipped stays so. *)

Grows ==
  \/ log' = log /\ skipped \subseteq skipped'
  \/ \E ev \in LogEvents : log' = Append(log, ev) /\ skipped' = skipped

(* What a position holds, and what a prefix makes, a step does not change. *)
LEMMA LogGrows ==
  ASSUME RecType, HistoryInv, Grows
  PROVE  /\ Len(log) \in Nat /\ Len(log') \in Nat /\ Len(log) <= Len(log')
         /\ \A p \in 1 .. Len(log) : p \in 1 .. Len(log') /\ log'[p] = log[p]
         /\ \A n \in 0 .. Len(log) :
              /\ n \in 0 .. Len(log')
              /\ CacheAfter(n)' = CacheAfter(n) /\ RegistryAfter(n)' = RegistryAfter(n)
<1>1. Len(log) \in Nat /\ log \in Seq(LogEvents) /\ OneMade(log)
  BY DEF RecType, HistoryInv
<1>2. CASE log' = log
  <2>1. Len(log') \in Nat /\ Len(log) <= Len(log')
    BY <1>1, <1>2
  <2> QED
    BY Zenon, <1>1, <1>2, <2>1 DEF CacheAfter, RegistryAfter
<1>3. CASE \E ev \in LogEvents : log' = Append(log, ev)
  <2>1. PICK ev \in LogEvents : log' = Append(log, ev)
    BY Zenon, <1>3
  <2>2. /\ Len(log') \in Nat /\ Len(log) <= Len(log')
        /\ \A p \in 1 .. Len(log) : p \in 1 .. Len(log') /\ log'[p] = log[p]
        /\ \A n \in 0 .. Len(log) : n \in 0 .. Len(log')
    BY <1>1, <2>1
  <2>3. \A n \in 0 .. Len(log) : Made(log')[n] = Made(log)[n]
    BY Zenon, <1>1, <2>1, MadeAppend
  <2> QED
    BY Zenon, <1>1, <2>2, <2>3 DEF CacheAfter, RegistryAfter
<1> QED
  BY Zenon, <1>2, <1>3 DEF Grows

(* A past map stays one, and a row that the log accounts for stays so. *)
LEMMA PastGrows ==
  ASSUME RecType, HistoryInv, Grows
  PROVE  /\ \A e, projector : Unskipped(e, projector)' => Unskipped(e, projector)
         /\ skipped' = {} => skipped = {}
         /\ RowComesFirst' => RowComesFirst
         /\ \A m, b : Past(m, b) => Past(m, b)'
         /\ \A r : Sourced(r) => Sourced(r)'
<1>1. /\ Len(log) \in Nat /\ Len(log') \in Nat /\ Len(log) <= Len(log')
      /\ \A p \in 1 .. Len(log) : p \in 1 .. Len(log') /\ log'[p] = log[p]
      /\ \A n \in 0 .. Len(log) : n \in 0 .. Len(log') /\ CacheAfter(n)' = CacheAfter(n)
  BY Zenon, LogGrows
<1>2. skipped \subseteq skipped'
  BY Zenon DEF Grows
<1>3. \A e, projector : Unskipped(e, projector)' => Unskipped(e, projector)
  BY Zenon, <1>1, <1>2 DEF Unskipped
<1>4. skipped' = {} => skipped = {}
  BY Zenon, <1>2
<1>5. RowComesFirst' => RowComesFirst
  <2>1. DOMAIN log = 1 .. Len(log) /\ DOMAIN log' = 1 .. Len(log')
    BY DEF RecType, Grows
  <2> SUFFICES ASSUME RowComesFirst', NEW p \in 1 .. Len(log),
                      log[p].kind \in {"driver_stopped", "driver_failed"}
               PROVE  \E q \in 1 .. p - 1 :
                        log[q].kind \in {"driver_started", "entity_registered"}
    BY Zenon, <2>1 DEF RowComesFirst
  <2>2. p \in DOMAIN log' /\ log'[p] = log[p]
    BY Zenon, <1>1, <2>1
  <2>3. PICK q \in 1 .. p - 1 : log'[q].kind \in {"driver_started", "entity_registered"}
    BY Zenon, <2>2 DEF RowComesFirst
  <2>4. q \in 1 .. Len(log)
    BY <1>1
  <2> QED
    BY Zenon, <1>1, <2>3, <2>4
<1>6. ASSUME NEW m, NEW b, Past(m, b) PROVE Past(m, b)'
  BY Zenon, <1>1, <1>3, <1>4, <1>6 DEF Past
<1>7. \A p \in 0 + 1 .. Len(log) : p \in 0 + 1 .. Len(log') /\ log'[p] = log[p]
  BY <1>1
<1>8. /\ \A e : AddIn(e, 0, Len(log)) => AddIn(e, 0, Len(log))'
      /\ \A K : KindIn(K, 0, Len(log)) => KindIn(K, 0, Len(log))'
  BY Zenon, <1>7 DEF AddIn, KindIn
<1>9. ASSUME NEW r, Sourced(r) PROVE Sourced(r)'
  BY Zenon, <1>8, <1>9 DEF Sourced
<1> QED
  BY Zenon, <1>3, <1>4, <1>5, <1>6, <1>9

(* The log with one event more explains what it makes. *)
LEMMA HistoryGrows ==
  ASSUME RecType, HistoryInv, Grows
  PROVE  HistoryInv'
<1>1. CASE log' = log
  BY Zenon, <1>1 DEF HistoryInv, Explained, CacheAfter, RegistryAfter, SetIn, AddIn, KindIn
<1>2. ASSUME NEW ev \in LogEvents, log' = Append(log, ev)
      PROVE  HistoryInv'
  <2>0. PICK N \in Nat : N = Len(log)
    BY DEF RecType
  <2>1. /\ N \in Nat /\ Len(log') = N + 1 /\ log'[N + 1] = ev /\ log \in Seq(LogEvents)
        /\ \A p \in 1 .. N : log'[p] = log[p]
    BY <1>2, <2>0 DEF RecType
  <2>2. /\ \A n \in 0 .. N : CacheAfter(n)' = CacheAfter(n)
        /\ \A n \in 0 .. N : RegistryAfter(n)' = RegistryAfter(n)
    BY Zenon, <2>0, LogGrows
  <2>3. OneMade(log)' /\ Made(log')[N + 1] = Makes(Made(log)[N], ev)
    BY Zenon, <1>2, <2>0, <2>1, MadeAppend DEF HistoryInv
  <2>4. /\ CacheAfter(N + 1)' = ApplyEvent(CacheAfter(N), ev)
        /\ RegistryAfter(N + 1)' = ApplyRegistry(RegistryAfter(N), ev)
    BY <2>3 DEF CacheAfter, RegistryAfter, Makes
  <2>5. /\ \A n \in 0 .. N : \A p \in 0 + 1 .. n : log'[p] = log[p]
        /\ \A p : p \in 0 + 1 .. N + 1 <=> p \in 0 + 1 .. N \/ p = N + 1
        /\ \A n \in 0 .. N + 1 : n \in 0 .. N \/ n = N + 1
        /\ N \in 0 .. N
    BY <2>1
  <2>6. ASSUME NEW n \in 0 .. N
        PROVE  /\ \A e : (SetIn(e, 0, n)' <=> SetIn(e, 0, n)) /\ (AddIn(e, 0, n)' <=> AddIn(e, 0, n))
               /\ \A K : KindIn(K, 0, n)' <=> KindIn(K, 0, n)
    BY Zenon, <2>5 DEF SetIn, AddIn, KindIn
  <2>7. ASSUME NEW n \in 0 .. N PROVE Explained(n)'
    <3>1. Explained(n)
      BY Zenon, <2>0 DEF HistoryInv
    <3> QED
      BY Zenon, <2>2, <2>6, <3>1 DEF Explained
  <2>8. Explained(N)
    BY Zenon, <2>0, <2>5 DEF HistoryInv
  <2> DEFINE c == CacheAfter(N)
             d == ApplyEvent(c, ev)
             r == RegistryAfter(N)
  <2>9. /\ c \in Maps /\ r \in Registries
        /\ \A e \in Entities : c[e] = Absent \/ SetIn(e, 0, N) \/ (c[e] = NoAttributes /\ AddIn(e, 0, N))
        /\ KindIn(RowMakers, 0, N) => r.status # "none"
    BY Zenon, <2>8 DEF Explained
  <2>10. /\ \A e : SetIn(e, 0, N + 1)' <=> SetIn(e, 0, N) \/ Sets(e, ev)
         /\ \A e : AddIn(e, 0, N + 1)' <=> AddIn(e, 0, N) \/ Adds(e, ev)
         /\ \A K : KindIn(K, 0, N + 1)' <=> KindIn(K, 0, N) \/ ev.kind \in K
    BY Zenon, <2>1, <2>5 DEF SetIn, AddIn, KindIn
  <2> HIDE DEF c, r
  <2>11. d \in Maps /\ ApplyRegistry(r, ev) \in Registries
    BY Zenon, <2>9, CacheEffect, RegistryEffect
  <2>12. ASSUME NEW e \in Entities
         PROVE  \/ d[e] = Absent
                \/ SetIn(e, 0, N) \/ Sets(e, ev)
                \/ d[e] = NoAttributes /\ (AddIn(e, 0, N) \/ Adds(e, ev))
    <3>1. CASE Adds(e, ev)
      <4>1. d[e] = IF c[e] = Absent THEN NoAttributes ELSE c[e]
        BY Zenon, <2>9, <3>1, CacheEffect
      <4> QED
        BY Zenon, <2>9, <3>1, <4>1
    <3>2. CASE ~Sets(e, ev) /\ ~Adds(e, ev)
      <4>1. d[e] = c[e]
        BY Zenon, <2>9, <3>2, CacheEffect
      <4> QED
        BY Zenon, <2>9, <4>1
    <3> QED
      BY Zenon, <3>1, <3>2
  <2>13. KindIn(RowMakers, 0, N) \/ ev.kind \in RowMakers => ApplyRegistry(r, ev).status # "none"
    BY Zenon, <2>9, RegistrySource
  <2> HIDE DEF d
  <2>14. CacheAfter(N + 1)' = d /\ RegistryAfter(N + 1)' = ApplyRegistry(r, ev)
    BY Zenon, <2>4 DEF c, d, r
  <2>15. Explained(N + 1)'
    BY Zenon, <2>10, <2>11, <2>12, <2>13, <2>14 DEF Explained
  <2> QED
    BY Zenon, <2>1, <2>3, <2>5, <2>7, <2>15 DEF HistoryInv
<1> QED
  BY Zenon, <1>1, <1>2 DEF Grows

-----------------------------------------------------------------------------
(* A step that appends nothing and skips nothing says the same of the past. *)
LEMMA Framed ==
  ASSUME UNCHANGED <<log, skipped>>
  PROVE  /\ \A m, n : (Closing(m, n)' <=> Closing(m, n)) /\ (Holds(m, n)' <=> Holds(m, n))
         /\ \A r : Sourced(r)' <=> Sourced(r)
         /\ \A r, n : RowsClosing(r, n)' <=> RowsClosing(r, n)
         /\ \A r, n : StatusClosing(r, n)' <=> StatusClosing(r, n)
         /\ \A K, a, b : KindIn(K, a, b)' <=> KindIn(K, a, b)
         /\ \A e, projector : Unskipped(e, projector)' <=> Unskipped(e, projector)
         /\ \A n : RegistryAfter(n)' = RegistryAfter(n)
         /\ RowComesFirst' <=> RowComesFirst
<1>1. log' = log /\ skipped' = skipped
  BY Zenon
<1>2. /\ \A e, projector : Unskipped(e, projector)' <=> Unskipped(e, projector)
      /\ \A n : CacheAfter(n)' = CacheAfter(n) /\ RegistryAfter(n)' = RegistryAfter(n)
      /\ \A e, a, b : (SetIn(e, a, b)' <=> SetIn(e, a, b)) /\ (AddIn(e, a, b)' <=> AddIn(e, a, b))
      /\ \A K, a, b : KindIn(K, a, b)' <=> KindIn(K, a, b)
  BY Zenon, <1>1 DEF Unskipped, CacheAfter, RegistryAfter, SetIn, AddIn, KindIn
<1>3. ASSUME NEW m, NEW n
      PROVE  (Closing(m, n)' <=> Closing(m, n)) /\ (Holds(m, n)' <=> Holds(m, n))
  BY Zenon, <1>1, <1>2 DEF Closing, Holds
<1>4. ASSUME NEW r PROVE Sourced(r)' <=> Sourced(r)
  BY Zenon, <1>1, <1>2 DEF Sourced
<1>5. ASSUME NEW r, NEW n
      PROVE  (RowsClosing(r, n)' <=> RowsClosing(r, n)) /\ (StatusClosing(r, n)' <=> StatusClosing(r, n))
  BY Zenon, <1>1, <1>2 DEF RowsClosing, StatusClosing
<1>6. RowComesFirst' <=> RowComesFirst
  BY Zenon, <1>1 DEF RowComesFirst
<1> QED
  BY Zenon, <1>2, <1>3, <1>4, <1>5, <1>6

(* A step that leaves the store alone keeps its invariant. *)
LEMMA QuietKeeps ==
  ASSUME StoreInv,
         UNCHANGED <<current, pending, log, skipped, registry, rows, cursor, at, phase, tx, event>>
  PROVE  StoreInv'
<1>1. UNCHANGED <<log, skipped>>
  BY Zenon
<1>2. RecType' /\ PhaseInv'
  <2>1. RecType'
    BY Zenon DEF StoreInv, RecType
  <2>2. PhaseInv'
    BY Zenon DEF StoreInv, PhaseInv
  <2> QED
    BY Zenon, <2>1, <2>2
<1>3. HistoryInv'
  BY Zenon, HistoryGrows, <1>1 DEF StoreInv, Grows
<1>4. Base' = Base /\ Promoted' = Promoted
  BY Zenon DEF Base, Promoted
<1>5. CacheInv'
  BY Zenon, <1>1, <1>4, Framed DEF StoreInv, CacheInv
<1>6. RowsInv'
  BY Zenon, <1>1, Framed DEF StoreInv, RowsInv
<1>7. StatusInv'
  BY Zenon, <1>1, Framed DEF StoreInv, StatusInv
<1> QED
  BY Zenon, <1>2, <1>3, <1>5, <1>6, <1>7 DEF StoreInv

(* The greatest of some positions, where there is one. *)
LEMMA MaxOf ==
  ASSUME NEW R, \E p \in R : \A q \in R : p >= q
  PROVE  Max(R) \in R /\ \A q \in R : Max(R) >= q
  BY Zenon DEF Max

(* The registry restores nothing, so the replay begins at the first event. *)
LEMMA MinZero == ASSUME NEW n \in Nat PROVE Min({n, 0}) = 0
<1>1. /\ 0 \in {n, 0} /\ \A y \in {n, 0} : 0 <= y
      /\ \A x \in {n, 0} : (\A y \in {n, 0} : x <= y) => x = 0
  OBVIOUS
<1> QED
  BY Zenon, <1>1 DEF Min

(* Whatever the cache restores is a past map, which the log from its first   *)
(* event on closes; and the rows of the registry come from the log.          *)
LEMMA PastCloses ==
  ASSUME RecType, HistoryInv, NEW m, NEW b, Past(m, b)
  PROVE  Closing(m, 0)
<1> SUFFICES ASSUME NEW e \in Entities, Unskipped(e, "state_cache")
             PROVE  \/ m[e] = CacheAfter(0)[e]
                    \/ SetIn(e, 0, Len(log))
                    \/ m[e] = NoAttributes /\ CacheAfter(0)[e] = Absent /\ AddIn(e, 0, Len(log))
  BY Zenon DEF Closing
<1>1. PICK n \in 0 .. Len(log) : m[e] = CacheAfter(n)[e]
  BY Zenon DEF Past
<1>2. \/ CacheAfter(n)[e] = Absent
      \/ SetIn(e, 0, n)
      \/ CacheAfter(n)[e] = NoAttributes /\ AddIn(e, 0, n)
  BY Zenon DEF HistoryInv, Explained
<1>3. CacheAfter(0)[e] = Absent
  BY Zenon, After DEF EmptyMap
<1>4. \A p \in 0 + 1 .. n : p \in 0 + 1 .. Len(log)
  BY DEF RecType
<1>5. (SetIn(e, 0, n) => SetIn(e, 0, Len(log))) /\ (AddIn(e, 0, n) => AddIn(e, 0, Len(log)))
  BY Zenon, <1>4 DEF SetIn, AddIn
<1> QED
  BY Zenon, <1>1, <1>2, <1>3, <1>5

(* A cache that restores no snapshot begins with what no event makes. *)
LEMMA EmptyIsPast ==
  ASSUME RecType, HistoryInv, NEW b \in Nat
  PROVE  Past(EmptyMap, b)
<1>1. CacheAfter(0) = EmptyMap /\ EmptyMap \in Maps
  <2>1. EmptyMap \in Maps
    BY Zenon DEF EmptyMap, Maps
  <2> QED
    BY Zenon, <2>1, After
<1>2. 0 \in 0 .. Len(log) /\ 0 <= b
  BY DEF RecType
<1> QED
  BY Zenon, <1>1, <1>2 DEF Past

(* Rows that come from the log are written again by a replay from its first event. *)
LEMMA SourcedCloses ==
  ASSUME RecType, HistoryInv, NEW r, Sourced(r)
  PROVE  RowsClosing(r, 0) /\ StatusClosing(r, 0)
<1>1. RegistryAfter(0).status = "none" /\ \A e \in Entities : RegistryAfter(0).row[e] = "none"
  <2>1. EmptyRegistry.status = "none" /\ \A e \in Entities : EmptyRegistry.row[e] = "none"
    BY DEF EmptyRegistry
  <2> QED
    BY Zenon, <2>1, After
<1> QED
  BY Zenon, <1>1 DEF Sourced, RowsClosing, StatusClosing

-----------------------------------------------------------------------------
(* The steps of a boot. *)

(* Restore, whichever snapshots can be read: the replay from 0 closes the gap. *)
LEMMA RestoreKeeps ==
  ASSUME RecoveryInv, Restore
  PROVE  StoreInv'
<1>1. /\ RecType /\ PhaseInv /\ HistoryInv /\ RowsInv /\ SnapshotInv
      /\ phase = "down" /\ phase' = "replay" /\ rows' = registry /\ registry' = registry
      /\ UNCHANGED <<log, skipped>> /\ pending' = pending /\ tx' = tx /\ event' = event
      /\ at' = cursor'
  BY Zenon DEF RecoveryInv, StoreInv, Restore, durable
<1>2. PICK readable \in SUBSET DOMAIN snapshots :
        LET pos == IF readable = {} THEN 0 ELSE Max(readable)
        IN /\ current' = IF pos = 0 THEN EmptyMap ELSE snapshots[pos]
           /\ cursor' = Min({pos, RegistryRestore})
  BY Zenon DEF Restore
<1> DEFINE pos == IF readable = {} THEN 0 ELSE Max(readable)
<1>3. pos \in Nat /\ (pos # 0 => pos \in DOMAIN snapshots)
  <2>1. CASE readable = {}
    BY <2>1
  <2>2. CASE readable # {}
    <3>1. Max(readable) \in readable
      BY Zenon, <1>1, <2>2, MaxOf DEF SnapshotInv
    <3>2. Max(readable) \in Nat
      BY Zenon, <1>1, <3>1 DEF SnapshotInv
    <3> QED
      BY Zenon, <2>2, <3>1, <3>2
  <2> QED
    BY Zenon, <2>1, <2>2
<1>4. current' = (IF pos = 0 THEN EmptyMap ELSE snapshots[pos]) /\ cursor' = Min({pos, 0})
  BY Zenon, <1>2 DEF RegistryRestore
<1> HIDE DEF pos
<1>5. cursor' = 0 /\ at' = 0
  BY Zenon, <1>1, <1>3, <1>4, MinZero
<1>6. \E b : Past(current', b)
  <2>1. CASE pos = 0
    <3>1. current' = EmptyMap /\ 0 \in Nat
      BY <1>4, <2>1
    <3> QED
      BY Zenon, <1>1, <3>1, EmptyIsPast
  <2>2. CASE pos # 0
    BY Zenon, <1>1, <1>3, <1>4, <2>2 DEF SnapshotInv
  <2> QED
    BY Zenon, <2>1, <2>2
<1>7. tx = "none" /\ pending = Nil
  BY <1>1 DEF PhaseInv, RecType
<1>8. current' \in Maps
  BY Zenon, <1>6 DEF Past
<1>9. RecType'
  BY <1>1, <1>5, <1>7, <1>8 DEF RecType
<1>10. PhaseInv'
  BY <1>1, <1>5, <1>7 DEF PhaseInv, RecType
<1>11. HistoryInv'
  BY Zenon, <1>1, HistoryGrows DEF Grows
<1>12. phase' # "live"
  BY <1>1
<1>13. CacheInv'
  <2>1. Base' = current'
    BY Zenon, <1>1, <1>7 DEF Base
  <2>2. Closing(current', 0)
    BY Zenon, <1>1, <1>6, PastCloses
  <2> QED
    BY Zenon, <1>1, <1>5, <1>12, <2>1, <2>2, Framed DEF CacheInv
<1>14. RowsClosing(registry, 0) /\ StatusClosing(registry, 0) /\ Sourced(registry)
  BY Zenon, <1>1, SourcedCloses DEF RowsInv
<1>15. RowsInv'
  BY Zenon, <1>1, <1>5, <1>12, <1>14, Framed DEF RowsInv
<1>16. StatusInv'
  BY Zenon, <1>1, <1>5, <1>12, <1>14, Framed, NoPositions DEF StatusInv
<1> QED
  BY Zenon, <1>9, <1>10, <1>11, <1>13, <1>15, <1>16 DEF StoreInv

(* The open batch is inside the log. *)
LEMMA BatchInLog ==
  ASSUME RecType
  PROVE  BatchEnd \in Nat /\ BatchEnd <= Len(log)
<1> DEFINE a == cursor + BatchLimit
           b == Len(log)
<1>1. a \in Nat /\ b \in Nat
  BY RecoveryAssumption DEF RecType
<1> HIDE DEF a, b
<1>2. \E x \in {a, b} : \A y \in {a, b} : x <= y
  BY <1>1
<1>3. Min({a, b}) \in {a, b} /\ \A y \in {a, b} : Min({a, b}) <= y
  BY Zenon, <1>2 DEF Min
<1>4. BatchEnd = Min({a, b})
  BY Zenon DEF BatchEnd, a, b
<1>5. BatchEnd \in Nat /\ BatchEnd <= b
  BY <1>1, <1>3, <1>4
<1> QED
  BY Zenon, <1>5 DEF b

(* The map the next Apply starts from is one. *)
LEMMA BaseIsMap == ASSUME RecType PROVE Base \in Maps
<1>1. current \in Maps /\ (pending \in Maps \/ pending = Nil)
  BY DEF RecType
<1> QED
  BY Zenon, <1>1 DEF Base

(* ReplayApply keeps StoreInv: an event that is skipped concerns no entity that counts. *)
LEMMA ReplayApplyKeeps ==
  ASSUME StoreInv, ReplayApply
  PROVE  StoreInv'
<1>1. /\ RecType /\ PhaseInv /\ HistoryInv /\ CacheInv /\ RowsInv /\ StatusInv
      /\ phase = "replay" /\ phase' = phase /\ at < BatchEnd /\ at' = at + 1
      /\ pending' = CacheMakes(at + 1) /\ rows' = RegistryMakes(at + 1)
      /\ UNCHANGED <<log, skipped>> /\ current' = current /\ registry' = registry
      /\ cursor' = cursor /\ tx' = tx /\ event' = event
  BY Zenon DEF StoreInv, ReplayApply, durable, appendVars
<1>2. at \in Nat /\ at < Len(log) /\ cursor \in Nat /\ cursor <= at /\ Len(log) \in Nat
  BY <1>1, BatchInLog DEF RecType, PhaseInv
<1>3. log[at + 1] \in LogEvents /\ Base \in Maps /\ rows \in Registries
  BY Zenon, <1>1, <1>2, Positions, BaseIsMap DEF RecType
<1>4. ApplyEvent(Base, log[at + 1]) \in Maps /\ ApplyRegistry(rows, log[at + 1]) \in Registries
  BY Zenon, <1>3, CacheEffect, RegistryEffect
<1> DEFINE m == IF IsSkipped(at + 1, "state_cache") THEN Base ELSE ApplyEvent(Base, log[at + 1])
           r == IF IsSkipped(at + 1, "registry") THEN rows ELSE ApplyRegistry(rows, log[at + 1])
<1>5. /\ m \in Maps /\ r \in Registries
      /\ r = rows \/ r = ApplyRegistry(rows, log[at + 1])
  BY Zenon, <1>3, <1>4
<1>6. Closing(m, at + 1) /\ RowsClosing(r, at + 1) /\ Sourced(r)
  <2>1. Closing(m, at + 1)
    BY Zenon, <1>1, <1>2, <1>3, ClosingStep DEF CacheInv
  <2>2. RowsClosing(r, at + 1)
    BY Zenon, <1>1, <1>2, <1>3, RowsStep DEF RowsInv
  <2>3. Sourced(r)
    BY Zenon, <1>1, <1>2, <1>3, <1>5, SourcedStep DEF RowsInv
  <2> QED
    BY Zenon, <2>1, <2>2, <2>3
<1>7. skipped = {} =>
        /\ KindIn(RowMakers, 0, at + 1) => r.status # "none"
        /\ RowComesFirst => StatusClosing(r, at + 1)
  BY Zenon, <1>1, <1>2, <1>3, StatusStep DEF StatusInv
<1>8. rows' = r /\ Base' = m
  <2>1. rows' = r
    BY Zenon, <1>1 DEF RegistryMakes
  <2>2. CASE IsSkipped(at + 1, "state_cache")
    <3>1. pending' = pending /\ m = Base
      BY Zenon, <1>1, <2>2 DEF CacheMakes
    <3>2. Base' = Base
      BY Zenon, <1>1, <3>1 DEF Base
    <3> QED
      BY Zenon, <2>1, <3>1, <3>2
  <2>3. CASE ~IsSkipped(at + 1, "state_cache")
    <3>1. pending' = m /\ m # Nil
      BY Zenon, <1>1, <1>5, <2>3, CacheAssumption DEF CacheMakes
    <3> QED
      <4> HIDE DEF m
      <4> QED
        BY Zenon, <2>1, <3>1 DEF Base
  <2> QED
    BY Zenon, <2>1, <2>2, <2>3
<1>9. pending' \in Maps \cup {Nil}
  BY <1>1, <1>4 DEF CacheMakes, RecType
<1> HIDE DEF m, r
<1>10. RecType'
  BY <1>1, <1>2, <1>5, <1>8, <1>9 DEF RecType
<1>11. PhaseInv'
  BY <1>1, <1>2 DEF PhaseInv, RecType
<1>12. HistoryInv'
  BY Zenon, <1>1, HistoryGrows DEF Grows
<1>13. phase' = "replay" /\ phase' # "live"
  BY <1>1
<1>14. CacheInv'
  BY Zenon, <1>1, <1>6, <1>8, <1>13, Framed DEF CacheInv
<1>15. RowsInv'
  BY Zenon, <1>1, <1>6, <1>8, <1>13, Framed DEF RowsInv
<1>16. StatusInv'
  BY Zenon, <1>1, <1>7, <1>8, <1>13, Framed DEF StatusInv
<1> QED
  BY Zenon, <1>10, <1>11, <1>12, <1>14, <1>15, <1>16 DEF StoreInv

(* ReplayCommit keeps StoreInv: what it makes visible the batch has already made. *)
LEMMA ReplayCommitKeeps ==
  ASSUME StoreInv, ReplayCommit
  PROVE  StoreInv'
<1>1. /\ RecType /\ PhaseInv /\ HistoryInv /\ CacheInv /\ RowsInv /\ StatusInv
      /\ phase = "replay" /\ phase' = phase /\ at' = at /\ cursor' = at
      /\ UNCHANGED <<log, skipped>> /\ current' = Base /\ pending' = Nil
      /\ registry' = rows /\ rows' = rows /\ tx' = tx /\ event' = event
  BY Zenon DEF StoreInv, ReplayCommit, Promote, appendVars
<1>2. Base \in Maps
  BY Zenon, <1>1, BaseIsMap
<1>3. RecType'
  BY <1>1, <1>2 DEF RecType
<1>4. PhaseInv'
  BY <1>1 DEF PhaseInv, RecType
<1>5. HistoryInv'
  BY Zenon, <1>1, HistoryGrows DEF Grows
<1>6. phase' = "replay" /\ phase' # "live"
  BY <1>1
<1>7. Base' = Base
  BY Zenon, <1>1 DEF Base
<1>8. CacheInv'
  BY Zenon, <1>1, <1>6, <1>7, Framed DEF CacheInv
<1>9. RowsInv'
  BY Zenon, <1>1, <1>6, Framed DEF RowsInv
<1>10. StatusInv'
  BY Zenon, <1>1, <1>6, Framed DEF StatusInv
<1> QED
  BY Zenon, <1>3, <1>4, <1>5, <1>8, <1>9, <1>10 DEF StoreInv

(* ReplayFail keeps StoreInv: the rows of the batch are forgotten. *)
LEMMA ReplayFailKeeps ==
  ASSUME StoreInv, ReplayFail
  PROVE  StoreInv'
<1>1. /\ RecType /\ PhaseInv /\ HistoryInv /\ RowsInv
      /\ phase = "replay" /\ phase' = "recovery"
      /\ at' = cursor /\ cursor' = cursor /\ rows' = registry /\ registry' = registry
      /\ pending' = pending \/ (at < BatchEnd /\ pending' = CacheMakes(at + 1))
      /\ UNCHANGED <<log, skipped>> /\ current' = current /\ tx' = tx /\ event' = event
  BY Zenon DEF StoreInv, ReplayFail, durable, appendVars
<1>2. ASSUME at < BatchEnd PROVE at \in Nat /\ at < Len(log)
  BY <1>1, <1>2, BatchInLog DEF RecType
<1>3. ASSUME at < BatchEnd PROVE ApplyEvent(Base, log[at + 1]) \in Maps
  BY Zenon, <1>1, <1>2, <1>3, Positions, BaseIsMap, CacheEffect
<1>4. pending' \in Maps \cup {Nil}
  BY <1>1, <1>3 DEF CacheMakes, RecType
<1>5. RecType'
  BY <1>1, <1>4 DEF RecType
<1>6. PhaseInv'
  BY <1>1 DEF PhaseInv, RecType
<1>7. HistoryInv'
  BY Zenon, <1>1, HistoryGrows DEF Grows
<1>8. phase' # "live" /\ phase' # "replay"
  BY <1>1
<1>9. CacheInv' /\ StatusInv'
  BY Zenon, <1>8 DEF CacheInv, StatusInv
<1>10. RowsInv'
  BY Zenon, <1>1, <1>8, Framed DEF RowsInv
<1> QED
  BY Zenon, <1>5, <1>6, <1>7, <1>9, <1>10 DEF StoreInv

(* Start keeps StoreInv: at the end of the log nothing is left to be overwritten. *)
LEMMA StartKeeps ==
  ASSUME StoreInv, Start
  PROVE  StoreInv'
<1>1. /\ RecType /\ PhaseInv /\ HistoryInv /\ CacheInv /\ RowsInv /\ StatusInv
      /\ phase = "replay" /\ phase' = "live" /\ cursor >= Len(log)
      /\ at' = at /\ cursor' = cursor /\ rows' = rows /\ registry' = registry
      /\ UNCHANGED <<log, skipped>> /\ current' = current /\ pending' = pending
      /\ tx' = tx /\ event' = event
  BY Zenon DEF StoreInv, Start, durable, appendVars, cacheVars, batchVars
<1>2. /\ at = Len(log) /\ at = cursor /\ pending = Nil /\ rows = registry /\ tx = "none"
      /\ tx # "committed"
  BY <1>1 DEF RecType, PhaseInv
<1>3. RecType'
  BY <1>1 DEF RecType
<1>4. PhaseInv'
  BY <1>1, <1>2 DEF PhaseInv, RecType
<1>5. HistoryInv'
  BY Zenon, <1>1, HistoryGrows DEF Grows
<1>6. phase' # "replay"
  BY <1>1
<1>7. CacheInv'
  <2>1. Promoted' = Len(log)
    BY Zenon, <1>1, <1>2 DEF Promoted
  <2>2. Holds(current, Len(log))
    BY Zenon, <1>1, <1>2, ClosingEnd DEF CacheInv, Base
  <2> QED
    BY Zenon, <1>1, <1>6, <2>1, <2>2, Framed DEF CacheInv
<1>8. RowsInv'
  <2>1. /\ Sourced(registry)
        /\ \A e \in Entities :
             Unskipped(e, "registry") => registry.row[e] = RegistryAfter(Len(log)).row[e]
    BY Zenon, <1>1, <1>2, RowsEnd DEF RowsInv
  <2> QED
    BY Zenon, <1>1, <1>2, <1>6, <2>1, Framed DEF RowsInv
<1>9. StatusInv'
  <2>1. skipped = {} /\ RowComesFirst => registry.status = RegistryAfter(Len(log)).status
    BY Zenon, <1>1, <1>2, RowsEnd DEF StatusInv
  <2> QED
    BY Zenon, <1>1, <1>6, <2>1, Framed DEF StatusInv
<1> QED
  BY Zenon, <1>3, <1>4, <1>5, <1>7, <1>8, <1>9 DEF StoreInv

-----------------------------------------------------------------------------
(* An operator skips an event; the process dies. *)

(* SkipEvent keeps StoreInv: it only adds to what does not count. *)
LEMMA SkipEventKeeps ==
  ASSUME StoreInv, SkipEvent
  PROVE  StoreInv'
<1>1. /\ RecType /\ PhaseInv /\ HistoryInv /\ RowsInv
      /\ phase = "recovery" /\ phase' = phase
      /\ at' = at /\ cursor' = cursor /\ rows' = rows /\ registry' = registry
      /\ log' = log /\ current' = current /\ pending' = pending /\ tx' = tx /\ event' = event
  BY Zenon DEF StoreInv, SkipEvent, appendVars, cacheVars, replayVars, batchVars
<1>2. PICK pos \in 1 .. Len(log), projector \in Projectors :
        skipped' = skipped \cup {<<pos, projector>>}
  BY Zenon DEF SkipEvent
<1>3. skipped \subseteq skipped' /\ skipped' \subseteq (1 .. Len(log)) \X Projectors
  BY <1>1, <1>2 DEF RecType
<1>4. RecType'
  BY <1>1, <1>3 DEF RecType
<1>5. PhaseInv'
  BY Zenon, <1>1 DEF PhaseInv
<1>6. Grows
  BY Zenon, <1>1, <1>3 DEF Grows
<1>7. HistoryInv'
  BY Zenon, <1>1, <1>6, HistoryGrows
<1>8. phase' # "live" /\ phase' # "replay"
  BY <1>1
<1>9. CacheInv' /\ StatusInv'
  BY Zenon, <1>8 DEF CacheInv, StatusInv
<1>10. RowsInv'
  BY Zenon, <1>1, <1>6, <1>8, PastGrows DEF RowsInv
<1> QED
  BY Zenon, <1>4, <1>5, <1>7, <1>9, <1>10 DEF StoreInv

(* Rows that are not there need no event. *)
LEMMA EmptyRegistrySourced == EmptyRegistry \in Registries /\ Sourced(EmptyRegistry)
<1>1. /\ EmptyRegistry \in Registries
      /\ EmptyRegistry.status = "none" /\ \A e \in Entities : EmptyRegistry.row[e] = "none"
  BY DEF EmptyRegistry, Registries, Rows, Statuses
<1> QED
  BY Zenon, <1>1 DEF Sourced

(* Crash keeps StoreInv: the rows of the registry still come from the log. *)
LEMMA CrashKeeps ==
  ASSUME StoreInv, Crash
  PROVE  StoreInv'
<1>1. /\ RecType /\ HistoryInv /\ RowsInv
      /\ phase' = "down" /\ at' = 0 /\ cursor' = 0 /\ rows' = EmptyRegistry
      /\ UNCHANGED <<log, skipped>> /\ registry' = registry
      /\ current' = EmptyMap /\ pending' = Nil /\ tx' = "none"
  BY Zenon DEF StoreInv, Crash, durable
<1>2. EmptyMap \in Maps
  BY Zenon DEF EmptyMap, Maps
<1>3. RecType'
  BY <1>1, <1>2, EmptyRegistrySourced DEF RecType
<1>4. PhaseInv'
  BY <1>1 DEF PhaseInv, RecType
<1>5. HistoryInv'
  BY Zenon, <1>1, HistoryGrows DEF Grows
<1>6. phase' # "live" /\ phase' # "replay"
  BY <1>1
<1>7. CacheInv' /\ StatusInv'
  BY Zenon, <1>6 DEF CacheInv, StatusInv
<1>8. RowsInv'
  BY Zenon, <1>1, <1>6, EmptyRegistrySourced, Framed DEF RowsInv
<1> QED
  BY Zenon, <1>3, <1>4, <1>5, <1>7, <1>8 DEF StoreInv

-----------------------------------------------------------------------------
(* The steps of an append. *)

(* AppendApply keeps StoreInv: only the map under construction changes. *)
LEMMA AppendApplyKeeps ==
  ASSUME StoreInv, AppendApply
  PROVE  StoreInv'
<1>1. /\ RecType /\ PhaseInv /\ HistoryInv /\ CacheInv /\ RowsInv /\ StatusInv
      /\ phase = "live" /\ phase' = phase /\ tx = "none" /\ tx' = "applied"
      /\ at' = at /\ cursor' = cursor /\ rows' = rows /\ registry' = registry
      /\ UNCHANGED <<log, skipped>> /\ current' = current
      /\ pending' = ApplyEvent(Base, event') /\ event' \in Inputs
  BY Zenon DEF StoreInv, AppendApply, Apply, durable, replayVars, batchVars
<1>2. event' \in LogEvents
  BY <1>1, RecoveryAssumption
<1>3. pending = Nil
  BY <1>1 DEF PhaseInv
<1>4. Base = current /\ current \in Maps
  BY Zenon, <1>1, <1>3 DEF Base, RecType
<1>5. ApplyEvent(current, event') \in Maps
  BY Zenon, <1>2, <1>4, CacheEffect
<1>6. pending' = ApplyEvent(current, event')
  BY Zenon, <1>1, <1>4
<1>7. RecType'
  BY <1>1, <1>2, <1>5, <1>6 DEF RecType
<1>8. PhaseInv'
  BY <1>1, <1>6 DEF PhaseInv, RecType
<1>9. HistoryInv'
  BY Zenon, <1>1, HistoryGrows DEF Grows
<1>10. phase' = "live" /\ phase' # "replay" /\ tx # "committed" /\ tx' # "committed"
  BY <1>1
<1>11. Promoted' = Promoted
  BY Zenon, <1>1, <1>10 DEF Promoted
<1>12. CacheInv'
  BY Zenon, <1>1, <1>10, <1>11, Framed DEF CacheInv
<1>13. RowsInv'
  BY Zenon, <1>1, <1>10, Framed DEF RowsInv
<1>14. StatusInv'
  BY Zenon, <1>1, <1>10, Framed DEF StatusInv
<1> QED
  BY Zenon, <1>7, <1>8, <1>9, <1>12, <1>13, <1>14 DEF StoreInv

(* AppendRollback keeps StoreInv: the map under construction is dropped. *)
LEMMA AppendRollbackKeeps ==
  ASSUME StoreInv, AppendRollback
  PROVE  StoreInv'
<1>1. /\ RecType /\ PhaseInv /\ HistoryInv /\ CacheInv /\ RowsInv /\ StatusInv
      /\ phase' = phase /\ tx = "applied" /\ tx' = "none"
      /\ at' = at /\ cursor' = cursor /\ rows' = rows /\ registry' = registry
      /\ UNCHANGED <<log, skipped>> /\ current' = current /\ pending' = Nil
  BY Zenon DEF StoreInv, AppendRollback, Discard, durable, replayVars, batchVars
<1>2. RecType'
  BY <1>1 DEF RecType
<1>3. phase' = "live" /\ phase' # "replay" /\ tx # "committed" /\ tx' # "committed"
  BY <1>1 DEF PhaseInv
<1>4. PhaseInv'
  BY <1>1, <1>3 DEF PhaseInv, RecType
<1>5. HistoryInv'
  BY Zenon, <1>1, HistoryGrows DEF Grows
<1>6. Promoted' = Promoted
  BY Zenon, <1>1, <1>3 DEF Promoted
<1>7. CacheInv'
  BY Zenon, <1>1, <1>3, <1>6, Framed DEF CacheInv
<1>8. RowsInv'
  BY Zenon, <1>1, <1>3, Framed DEF RowsInv
<1>9. StatusInv'
  BY Zenon, <1>1, <1>3, Framed DEF StatusInv
<1> QED
  BY Zenon, <1>2, <1>4, <1>5, <1>7, <1>8, <1>9 DEF StoreInv

(* The rows the appended event writes come from the log with it. *)
LEMMA SourcedAppend ==
  ASSUME RecType, HistoryInv, NEW ev \in LogEvents, log' = Append(log, ev), skipped' = skipped,
         NEW r \in Registries, Sourced(r)
  PROVE  \A r2 : r2 = ApplyRegistry(r, ev) => Sourced(r2)'
<1>1. Sourced(r)'
  BY Zenon, PastGrows DEF Grows
<1>2. Len(log) + 1 \in 0 + 1 .. Len(log') /\ log'[Len(log) + 1] = ev
  BY DEF RecType
<1>3. /\ \A e : Adds(e, ev) => AddIn(e, 0, Len(log))'
      /\ \A K : ev.kind \in K => KindIn(K, 0, Len(log))'
  BY Zenon, <1>2 DEF AddIn, KindIn
<1>4. /\ \A e \in Entities :
           r.row[e] = "none" /\ ~Adds(e, ev) => ApplyRegistry(r, ev).row[e] = "none"
      /\ \/ ev.kind \in DriverKinds
         \/ ApplyRegistry(r, ev).status = r.status
         \/ ApplyRegistry(r, ev).status = "starting" /\ ev.kind = "entity_registered"
  BY RegistrySource
<1> SUFFICES ASSUME NEW r2, r2 = ApplyRegistry(r, ev) PROVE Sourced(r2)'
  BY Zenon
<1>5. ASSUME NEW e \in Entities PROVE r2.row[e] = "none" \/ AddIn(e, 0, Len(log))'
  <2>1. r.row[e] = "none" \/ AddIn(e, 0, Len(log))'
    BY Zenon, <1>1 DEF Sourced
  <2> QED
    BY Zenon, <1>3, <1>4, <2>1
<1>6. \/ ev.kind \in DriverKinds
      \/ r2.status = r.status
      \/ r2.status = "starting" /\ ev.kind \in {"entity_registered"}
  BY Zenon, <1>4
<1>7. \/ r2.status = "none"
      \/ KindIn(DriverKinds, 0, Len(log))'
      \/ r2.status = "starting" /\ KindIn({"entity_registered"}, 0, Len(log))'
  BY Zenon, <1>1, <1>3, <1>6 DEF Sourced
<1> QED
  BY Zenon, <1>5, <1>7 DEF Sourced

(* AppendCommit keeps StoreInv: the row and the log get the event together. *)
LEMMA AppendCommitKeeps ==
  ASSUME StoreInv, AppendCommit
  PROVE  StoreInv'
<1>1. /\ RecType /\ PhaseInv /\ HistoryInv /\ CacheInv /\ RowsInv /\ StatusInv
      /\ phase' = phase /\ tx = "applied" /\ tx' = "committed"
      /\ at' = at /\ cursor' = cursor /\ rows' = rows
      /\ log' = Append(log, event) /\ skipped' = skipped /\ event' = event
      /\ registry' = ApplyRegistry(registry, event)
      /\ current' = current /\ pending' = pending
  BY Zenon DEF StoreInv, AppendCommit, cacheVars, replayVars, batchVars
<1>2. event \in LogEvents /\ phase' = "live" /\ phase' # "replay" /\ phase = "live"
  BY <1>1 DEF PhaseInv, RecType
<1>3. PICK N \in Nat : N = Len(log)
  BY <1>1 DEF RecType
<1>4. /\ Len(log') = N + 1 /\ log'[N + 1] = event /\ (N + 1) - 1 = N /\ N \in 0 .. N
      /\ log \in Seq(LogEvents) /\ log' \in Seq(LogEvents) /\ N + 1 \in 0 + 1 .. N + 1
      /\ log' # <<>>
  BY <1>1, <1>2, <1>3 DEF RecType
<1>5. Grows
  BY Zenon, <1>1, <1>2 DEF Grows
<1>6. /\ registry \in Registries /\ ApplyRegistry(registry, event) \in Registries
      /\ RegistryAfter(N) \in Registries
  BY Zenon, <1>1, <1>2, <1>3, <1>4, RegistryEffect DEF RecType, HistoryInv, Explained
<1>7. RecType'
  <2>1. skipped' \subseteq (1 .. Len(log')) \X Projectors
    BY <1>1, <1>3, <1>4 DEF RecType
  <2> QED
    BY <1>1, <1>2, <1>4, <1>6, <2>1 DEF RecType
<1>8. PhaseInv'
  BY <1>1, <1>2, <1>3, <1>4 DEF PhaseInv, RecType
<1>9. HistoryInv'
  BY Zenon, <1>1, <1>5, HistoryGrows
<1>10. CacheAfter(N)' = CacheAfter(N)
  BY Zenon, <1>1, <1>3, <1>4, <1>5, LogGrows
<1>11. RegistryAfter(N + 1)' = ApplyRegistry(RegistryAfter(N), event)
  <2>1. Made(log')[N + 1] = Makes(Made(log)[N], event)
    BY Zenon, <1>1, <1>2, <1>3, <1>4, MadeAppend DEF HistoryInv
  <2> QED
    BY <2>1 DEF RegistryAfter, Makes
<1>12. CacheInv'
  <2>1. Promoted = N /\ Promoted' = N
    BY <1>1, <1>3, <1>4 DEF Promoted
  <2>2. Holds(current, N)
    BY Zenon, <1>1, <1>2, <2>1 DEF CacheInv
  <2>3. Holds(current, N)'
    BY Zenon, <1>1, <1>5, <1>10, <2>2, PastGrows DEF Holds
  <2> QED
    BY Zenon, <1>1, <1>2, <2>1, <2>3 DEF CacheInv
<1>13. /\ \A e \in Entities :
            registry.row[e] = RegistryAfter(N).row[e] =>
              ApplyRegistry(registry, event).row[e] = RegistryAfter(N + 1)'.row[e]
       /\ registry.status = RegistryAfter(N).status =>
            ApplyRegistry(registry, event).status = RegistryAfter(N + 1)'.status
  <2>1. /\ \A e \in Entities :
             registry.row[e] = RegistryAfter(N).row[e] =>
               ApplyRegistry(registry, event).row[e] = ApplyRegistry(RegistryAfter(N), event).row[e]
        /\ registry.status = RegistryAfter(N).status =>
             ApplyRegistry(registry, event).status = ApplyRegistry(RegistryAfter(N), event).status
    BY Zenon, <1>2, <1>6, RegistryAgrees
  <2> QED
    BY Zenon, <1>11, <2>1
<1>14. RowsInv'
  <2>1. Sourced(registry)' /\ Sourced(rows)'
    BY Zenon, <1>1, <1>2, <1>5, <1>6, SourcedAppend, PastGrows DEF RowsInv
  <2>2. ASSUME NEW e \in Entities, Unskipped(e, "registry")'
        PROVE  registry'.row[e] = RegistryAfter(N + 1)'.row[e]
    <3>1. Unskipped(e, "registry")
      BY Zenon, <1>1, <1>5, <2>2, PastGrows
    <3> QED
      BY Zenon, <1>1, <1>2, <1>3, <1>13, <3>1 DEF RowsInv
  <2> QED
    BY Zenon, <1>2, <1>4, <2>1, <2>2 DEF RowsInv
<1>15. StatusInv'
  <2>1. ASSUME skipped' = {}, RowComesFirst'
        PROVE  registry'.status = RegistryAfter(N + 1)'.status
    <3>1. skipped = {} /\ RowComesFirst
      BY Zenon, <1>1, <1>5, <2>1, PastGrows
    <3> QED
      BY Zenon, <1>1, <1>2, <1>3, <1>13, <3>1 DEF StatusInv
  <2> QED
    BY Zenon, <1>2, <1>4, <2>1 DEF StatusInv
<1> QED
  BY Zenon, <1>7, <1>8, <1>9, <1>12, <1>14, <1>15 DEF StoreInv

(* AppendPublish keeps StoreInv: the promoted map holds the last event too. *)
LEMMA AppendPublishKeeps ==
  ASSUME StoreInv, AppendPublish
  PROVE  StoreInv'
<1>1. /\ RecType /\ PhaseInv /\ HistoryInv /\ CacheInv /\ RowsInv /\ StatusInv
      /\ phase' = phase /\ tx = "committed" /\ tx' = "none"
      /\ at' = at /\ cursor' = cursor /\ rows' = rows /\ registry' = registry
      /\ UNCHANGED <<log, skipped>> /\ current' = Base /\ pending' = Nil
  BY Zenon DEF StoreInv, AppendPublish, Promote, durable, replayVars, batchVars
<1>2. /\ phase = "live" /\ phase' # "replay" /\ tx' # "committed"
      /\ pending = ApplyEvent(current, event) /\ log # <<>> /\ event = log[Len(log)]
  BY <1>1 DEF PhaseInv
<1>3. PICK N \in Nat : N = Len(log)
  BY <1>1 DEF RecType
<1>4. N \in 1 .. Len(log) /\ N - 1 \in 0 .. Len(log) /\ log[N] \in LogEvents
  BY <1>1, <1>2, <1>3 DEF RecType
<1>5. current \in Maps /\ CacheAfter(N - 1) \in Maps /\ event = log[N]
  BY Zenon, <1>1, <1>2, <1>3, <1>4 DEF RecType, HistoryInv, Explained
<1>6. ApplyEvent(current, log[N]) \in Maps
  BY Zenon, <1>4, <1>5, CacheEffect
<1>7. current' = ApplyEvent(current, log[N])
  <2>1. pending \in Maps /\ pending # Nil
    BY Zenon, <1>2, <1>5, <1>6, CacheAssumption
  <2> QED
    BY Zenon, <1>1, <1>2, <1>5, <2>1 DEF Base
<1>8. RecType'
  BY <1>1, <1>6, <1>7 DEF RecType
<1>9. PhaseInv'
  BY <1>1, <1>2 DEF PhaseInv, RecType
<1>10. HistoryInv'
  BY Zenon, <1>1, HistoryGrows DEF Grows
<1>11. CacheInv'
  <2>1. Promoted' = N /\ Promoted = N - 1
    BY <1>1, <1>2, <1>3 DEF Promoted
  <2>2. Holds(current, N - 1) /\ CacheAfter(N) = ApplyEvent(CacheAfter(N - 1), log[N])
    BY Zenon, <1>1, <1>2, <1>4, <2>1, After DEF CacheInv
  <2>3. ASSUME NEW e \in Entities, Unskipped(e, "state_cache")
        PROVE  ApplyEvent(current, log[N])[e] = CacheAfter(N)[e]
    <3>1. current[e] = CacheAfter(N - 1)[e]
      BY Zenon, <2>2, <2>3 DEF Holds
    <3>2. ApplyEvent(current, log[N])[e] = ApplyEvent(CacheAfter(N - 1), log[N])[e]
      BY Zenon, <1>4, <1>5, <3>1, CacheAgrees
    <3> QED
      BY Zenon, <2>2, <3>2
  <2>4. Holds(ApplyEvent(current, log[N]), N)
    BY Zenon, <2>3 DEF Holds
  <2> QED
    BY Zenon, <1>1, <1>2, <1>7, <2>1, <2>4, Framed DEF CacheInv
<1>12. RowsInv'
  BY Zenon, <1>1, <1>2, Framed DEF RowsInv
<1>13. StatusInv'
  BY Zenon, <1>1, <1>2, Framed DEF StatusInv
<1> QED
  BY Zenon, <1>8, <1>9, <1>10, <1>11, <1>12, <1>13 DEF StoreInv

-----------------------------------------------------------------------------
(* Snapshots. *)

(* A map that is past at one position is past at a later one. *)
LEMMA PastLater ==
  ASSUME RecType, NEW m, NEW b \in Nat, NEW c \in Nat, b <= c, Past(m, b)
  PROVE  Past(m, c)
<1>1. \A n \in 0 .. Len(log) : n <= b => n <= c
  BY DEF RecType
<1> QED
  BY Zenon, <1>1 DEF Past

\* A step that writes no snapshot.
LEMMA NoSnapshot ==
  ASSUME RecType, HistoryInv, SnapshotInv, Grows, RecType', snapshots' = snapshots,
         view' \in [Snappers -> Maps \cup {Nil}],
         \A s \in Snappers : view'[s] # Nil => Past(view'[s], Len(log))
  PROVE  SnapshotInv'
<1>1. Len(log) \in Nat /\ Len(log') \in Nat /\ Len(log) <= Len(log')
  BY Zenon, LogGrows
<1>2. \A m, b : Past(m, b) => Past(m, b)'
  BY Zenon, PastGrows
<1>3. \A n \in 0 .. Len(log') : n <= Len(log) => n <= Len(log')
  BY <1>1
<1>4. ASSUME NEW s \in Snappers, view'[s] # Nil PROVE Past(view[s], Len(log))'
  <2>1. PICK m, b : m = view'[s] /\ b = Len(log)
    BY Zenon
  <2>2. Past(m, b)'
    BY Zenon, <1>2, <1>4, <2>1
  <2> QED
    BY Zenon, <1>3, <2>1, <2>2 DEF Past
<1>5. ASSUME NEW p \in DOMAIN snapshots
      PROVE  p \in Nat \ {0} /\ (p = 1 \/ p <= Len(log')) /\ Past(snapshots[p], p)'
  <2>1. p \in Nat \ {0} /\ (p = 1 \/ p <= Len(log)) /\ Past(snapshots[p], p)
    BY Zenon DEF SnapshotInv
  <2>2. p = 1 \/ p <= Len(log')
    BY <1>1, <2>1
  <2> QED
    BY Zenon, <1>2, <2>1, <2>2
<1> QED
  BY Zenon, <1>4, <1>5 DEF SnapshotInv

\* What View returns while the store is live.
LEMMA LiveIsPast ==
  ASSUME StoreInv, phase = "live"
  PROVE  Past(current, Len(log))
<1>1. Promoted \in 0 .. Len(log) /\ Promoted <= Len(log)
  BY DEF StoreInv, RecType, PhaseInv, Promoted
<1>2. Holds(current, Promoted) /\ current \in Maps /\ CacheAfter(Promoted) \in Maps
  BY Zenon, <1>1 DEF StoreInv, CacheInv, RecType, HistoryInv, Explained
<1>3. skipped = {} => \A e : Unskipped(e, "state_cache")
  BY Zenon DEF Unskipped
<1>4. ASSUME skipped = {} PROVE current = CacheAfter(Promoted)
  <2>1. \A e \in Entities : current[e] = CacheAfter(Promoted)[e]
    BY Zenon, <1>2, <1>3, <1>4 DEF Holds
  <2> QED
    BY <1>2, <2>1 DEF Maps
<1> QED
  BY Zenon, <1>1, <1>2, <1>4 DEF Past, Holds

(* SnapshotNow keeps RecoveryInv: it reads a promoted map. *)
LEMMA SnapshotNowKeeps ==
  ASSUME RecoveryInv, NEW s \in Snappers, SnapshotNow(s)
  PROVE  RecoveryInv'
<1>1. /\ StoreInv /\ RecType /\ HistoryInv /\ SnapshotInv /\ phase = "live"
      /\ view' = [view EXCEPT ![s] = current] /\ snapshots' = snapshots
      /\ UNCHANGED <<current, pending, log, skipped, registry, rows, cursor, at, phase, tx, event>>
  BY Zenon DEF RecoveryInv, StoreInv, SnapshotNow, SnapshotView,
               cacheVars, durable, replayVars, batchVars, appendVars
<1>2. StoreInv'
  BY Zenon, <1>1, QuietKeeps
<1>3. Grows /\ RecType'
  BY Zenon, <1>1, <1>2 DEF Grows, StoreInv
<1>4. Past(current, Len(log)) /\ current \in Maps
  BY Zenon, <1>1, LiveIsPast DEF RecType
<1>5. /\ view' \in [Snappers -> Maps \cup {Nil}]
      /\ \A t \in Snappers : view'[t] = view[t] \/ view'[t] = current
  BY <1>1, <1>4 DEF SnapshotInv
<1>6. \A t \in Snappers : view'[t] # Nil => Past(view'[t], Len(log))
  BY Zenon, <1>1, <1>4, <1>5 DEF SnapshotInv
<1> QED
  BY Zenon, <1>1, <1>2, <1>3, <1>5, <1>6, NoSnapshot DEF RecoveryInv

(* SnapshotFail keeps RecoveryInv: the map it read is forgotten. *)
LEMMA SnapshotFailKeeps ==
  ASSUME RecoveryInv, NEW s \in Snappers, SnapshotFail(s)
  PROVE  RecoveryInv'
<1>1. /\ StoreInv /\ RecType /\ HistoryInv /\ SnapshotInv
      /\ view' = [view EXCEPT ![s] = Nil] /\ snapshots' = snapshots
      /\ UNCHANGED <<current, pending, log, skipped, registry, rows, cursor, at, phase, tx, event>>
  BY Zenon DEF RecoveryInv, StoreInv, SnapshotFail,
               cacheVars, durable, replayVars, batchVars, appendVars
<1>2. StoreInv'
  BY Zenon, <1>1, QuietKeeps
<1>3. Grows /\ RecType'
  BY Zenon, <1>1, <1>2 DEF Grows, StoreInv
<1>4. /\ view' \in [Snappers -> Maps \cup {Nil}]
      /\ \A t \in Snappers : view'[t] = view[t] \/ view'[t] = Nil
  BY <1>1 DEF SnapshotInv
<1>5. \A t \in Snappers : view'[t] # Nil => Past(view'[t], Len(log))
  BY Zenon, <1>1, <1>4 DEF SnapshotInv
<1> QED
  BY Zenon, <1>1, <1>2, <1>3, <1>4, <1>5, NoSnapshot DEF RecoveryInv

(* Of one position more than are retained, the least is pruned. *)
LEMMA NewestBound ==
  ASSUME NEW P \in SUBSET Nat, IsFiniteSet(P), Cardinality(P) <= Retain + 1,
         P # {} => \E p \in P : \A q \in P : p <= q
  PROVE  IsFiniteSet(Newest(P)) /\ Cardinality(Newest(P)) <= Retain
<1>1. Retain \in Nat /\ Retain # 0 /\ Cardinality(P) \in Nat
  BY RecoveryAssumption, FS_CardinalityType
<1>2. Newest(P) \in SUBSET P
  BY Zenon DEF Newest
<1>3. /\ IsFiniteSet(Newest(P)) /\ Cardinality(Newest(P)) \in Nat
      /\ Cardinality(Newest(P)) <= Cardinality(P)
  BY Zenon, <1>2, FS_Subset, FS_CardinalityType
<1>4. CASE Cardinality(P) <= Retain
  BY <1>1, <1>3, <1>4
<1>5. CASE Cardinality(P) = Retain + 1
  <2>1. Cardinality(P) # 0
    BY <1>1, <1>5
  <2>2. P # {}
    BY Zenon, <2>1, FS_EmptySet
  <2>3. PICK p \in P : \A q \in P : p <= q
    BY Zenon, <2>2
  <2>4. {q \in P : q > p} = P \ {p}
    <3>1. ASSUME NEW q \in P PROVE q > p <=> q # p
      <4>1. p \in Nat /\ q \in Nat /\ p <= q
        BY Zenon, <2>3
      <4> QED
        BY <4>1
    <3> QED
      BY Zenon, <3>1
  <2>5. /\ IsFiniteSet(P \ {p})
        /\ Cardinality(P \ {p}) = IF p \in P THEN Cardinality(P) - 1 ELSE Cardinality(P)
    BY FS_RemoveElement
  <2>6. Cardinality(P \ {p}) = Retain
    BY <1>1, <1>5, <2>5
  <2>7. ~(Cardinality({q \in P : q > p}) < Retain)
    BY <1>1, <2>4, <2>6
  <2>8. p \notin Newest(P)
    BY Zenon, <2>7 DEF Newest
  <2>9. Newest(P) \in SUBSET (P \ {p})
    BY Zenon, <1>2, <2>8
  <2>10. Cardinality(Newest(P)) <= Cardinality(P \ {p})
    BY Zenon, <2>5, <2>9, FS_Subset
  <2> QED
    BY Zenon, <1>3, <2>6, <2>10
<1> QED
  BY <1>1, <1>4, <1>5

(* The greatest position is never pruned. *)
LEMMA TopKept ==
  ASSUME NEW P \in SUBSET Nat, NEW p \in P, \A q \in P : q <= p
  PROVE  p \in Newest(P)
<1>1. {q \in P : q > p} = {}
  <2>1. ASSUME NEW q \in P PROVE ~(q > p)
    <3>1. p \in Nat /\ q \in Nat /\ q <= p
      BY Zenon
    <3> QED
      BY <3>1
  <2> QED
    BY Zenon, <2>1
<1>2. Cardinality({q \in P : q > p}) < Retain
  BY <1>1, FS_EmptySet, RecoveryAssumption
<1> QED
  BY Zenon, <1>2 DEF Newest

(* The position a snapshot is stored under is above all others. *)
LEMMA LastPosition ==
  ASSUME RecType
  PROVE  (IF log = <<>> THEN 1 ELSE Len(log)) = Max({1, Len(log)})
<1> DEFINE n == Len(log)
<1>1. n \in Nat /\ (log = <<>> => n = 0) /\ (log # <<>> => n >= 1)
  BY DEF RecType
<1> HIDE DEF n
<1>2. \E p \in {1, n} : \A q \in {1, n} : p >= q
  BY <1>1
<1>3. Max({1, n}) \in {1, n} /\ \A q \in {1, n} : Max({1, n}) >= q
  BY Zenon, <1>2, MaxOf
<1>4. (IF log = <<>> THEN 1 ELSE n) = Max({1, n})
  BY <1>1, <1>3
<1> QED
  BY <1>4 DEF n

(* No snapshot is stored above the position of the next one. *)
LEMMA TopPosition ==
  ASSUME RecType, SnapshotInv, NEW pos, pos = IF log = <<>> THEN 1 ELSE Len(log)
  PROVE  /\ pos \in Nat \ {0} /\ Len(log) <= pos /\ (pos = 1 \/ pos <= Len(log))
         /\ DOMAIN snapshots \subseteq Nat /\ \A q \in DOMAIN snapshots : q <= pos
<1>1. /\ pos \in Nat \ {0} /\ Len(log) <= pos /\ (pos = 1 \/ pos <= Len(log))
      /\ 1 <= pos /\ Len(log) \in Nat
  BY DEF RecType
<1>2. \A q \in DOMAIN snapshots : q \in Nat \ {0} /\ (q = 1 \/ q <= Len(log))
  BY Zenon DEF SnapshotInv
<1>3. DOMAIN snapshots \subseteq Nat /\ \A q \in DOMAIN snapshots : q <= pos
  BY <1>1, <1>2
<1> QED
  BY Zenon, <1>1, <1>3

\* What SnapshotCommit leaves in the table.
LEMMA CommitTable ==
  ASSUME RecoveryInv, NEW s \in Snappers, SnapshotCommit(s)
  PROVE  \E pos :
           /\ pos = IF log = <<>> THEN 1 ELSE Len(log)
           /\ DOMAIN snapshots' \subseteq DOMAIN snapshots \cup {pos}
           /\ pos \in DOMAIN snapshots' /\ snapshots'[pos] = view[s]
           /\ \A p \in DOMAIN snapshots' : p # pos => snapshots'[p] = snapshots[p]
           /\ IsFiniteSet(DOMAIN snapshots') /\ Cardinality(DOMAIN snapshots') <= Retain
<1> DEFINE pos == IF log = <<>> THEN 1 ELSE Len(log)
           P == DOMAIN snapshots \cup {pos}
<1>1. snapshots' = [p \in Newest(P) |-> IF p = pos THEN view[s] ELSE snapshots[p]]
  BY Zenon DEF SnapshotCommit
<1>2. RecType /\ SnapshotInv
  BY Zenon DEF RecoveryInv, StoreInv
<1>3. /\ pos \in Nat \ {0} /\ DOMAIN snapshots \subseteq Nat
      /\ \A q \in DOMAIN snapshots : q <= pos
  BY Zenon, <1>2, TopPosition
<1> HIDE DEF pos
<1>4. P \in SUBSET Nat /\ pos \in P /\ \A q \in P : q <= pos
  BY <1>3
<1>5. pos \in Newest(P)
  BY Zenon, <1>4, TopKept
<1>6. IsFiniteSet(P) /\ Cardinality(P) <= Retain + 1
  <2>1. /\ IsFiniteSet(DOMAIN snapshots) /\ Cardinality(DOMAIN snapshots) <= Retain
        /\ Cardinality(DOMAIN snapshots) \in Nat
    BY Zenon, <1>2, FS_CardinalityType DEF SnapshotInv
  <2>2. /\ IsFiniteSet(P)
        /\ Cardinality(P) = IF pos \in DOMAIN snapshots THEN Cardinality(DOMAIN snapshots)
                            ELSE Cardinality(DOMAIN snapshots) + 1
    BY <2>1, FS_AddElement
  <2> QED
    BY <2>1, <2>2, RecoveryAssumption
<1>7. \E p \in P : \A q \in P : p <= q
  <2>1. CASE DOMAIN snapshots = {}
    BY <1>3, <2>1
  <2>2. CASE DOMAIN snapshots # {}
    <3>1. PICK p \in DOMAIN snapshots : \A q \in DOMAIN snapshots : p <= q
      BY Zenon, <1>2, <2>2 DEF SnapshotInv
    <3>2. p <= pos
      BY Zenon, <1>3
    <3> QED
      BY Zenon, <3>1, <3>2
  <2> QED
    BY Zenon, <2>1, <2>2
<1>8. IsFiniteSet(Newest(P)) /\ Cardinality(Newest(P)) <= Retain
  BY Zenon, <1>4, <1>6, <1>7, NewestBound
<1>9. Newest(P) \subseteq P
  BY Zenon DEF Newest
<1>10. DOMAIN snapshots' = Newest(P)
  BY Zenon, <1>1
<1>11. /\ snapshots'[pos] = view[s]
       /\ \A p \in DOMAIN snapshots' : p # pos => snapshots'[p] = snapshots[p]
  BY Zenon, <1>1, <1>5
<1> QED
  BY Zenon, <1>5, <1>8, <1>9, <1>10, <1>11 DEF pos

(* SnapshotCommit keeps RecoveryInv: the map it writes was read before. *)
LEMMA SnapshotCommitKeeps ==
  ASSUME RecoveryInv, NEW s \in Snappers, SnapshotCommit(s)
  PROVE  RecoveryInv'
<1>1. /\ StoreInv /\ RecType /\ HistoryInv /\ SnapshotInv
      /\ view[s] # Nil /\ view' = [view EXCEPT ![s] = Nil]
      /\ UNCHANGED <<current, pending, log, skipped, registry, rows, cursor, at, phase, tx, event>>
  BY Zenon DEF RecoveryInv, StoreInv, SnapshotCommit, cacheVars, replayVars, batchVars, appendVars
<1>2. StoreInv'
  BY Zenon, <1>1, QuietKeeps
<1>3. PICK pos :
           /\ pos = IF log = <<>> THEN 1 ELSE Len(log)
           /\ DOMAIN snapshots' \subseteq DOMAIN snapshots \cup {pos}
           /\ pos \in DOMAIN snapshots' /\ snapshots'[pos] = view[s]
           /\ \A p \in DOMAIN snapshots' : p # pos => snapshots'[p] = snapshots[p]
           /\ IsFiniteSet(DOMAIN snapshots') /\ Cardinality(DOMAIN snapshots') <= Retain
  BY Zenon, CommitTable
<1>4. /\ pos \in Nat \ {0} /\ Len(log) <= pos /\ (pos = 1 \/ pos <= Len(log))
      /\ \A q \in DOMAIN snapshots : q <= pos
  BY Zenon, <1>1, <1>3, TopPosition
<1>5. \A m, b : Past(m, b) => Past(m, b)'
  BY Zenon, <1>1, PastGrows DEF Grows
<1>6. /\ view' \in [Snappers -> Maps \cup {Nil}]
      /\ \A t \in Snappers : view'[t] = view[t] \/ view'[t] = Nil
  BY <1>1 DEF SnapshotInv
<1>7. ASSUME NEW t \in Snappers, view'[t] # Nil PROVE Past(view[t], Len(log))'
  <2>1. PICK m, b : m = view[t] /\ b = Len(log)
    BY Zenon
  <2>2. Past(m, b)'
    BY Zenon, <1>1, <1>5, <1>6, <1>7, <2>1 DEF SnapshotInv
  <2>3. m = view'[t] /\ b = Len(log')
    BY Zenon, <1>1, <1>6, <1>7, <2>1
  <2> QED
    BY Zenon, <2>2, <2>3
<1>8. ASSUME NEW p \in DOMAIN snapshots'
      PROVE  p \in Nat \ {0} /\ (p = 1 \/ p <= Len(log')) /\ Past(snapshots[p], p)'
  <2>1. CASE p = pos
    <3>1. Past(view[s], Len(log)) /\ Len(log) \in Nat /\ pos \in Nat
      BY <1>1, <1>4 DEF SnapshotInv, RecType
    <3>2. PICK m : m = view[s]
      BY Zenon
    <3>3. Past(m, pos)
      BY Zenon, <1>1, <1>4, <3>1, <3>2, PastLater
    <3>4. Past(m, p)' /\ m = snapshots'[p]
      BY Zenon, <1>3, <1>5, <2>1, <3>2, <3>3
    <3> QED
      BY Zenon, <1>1, <1>4, <2>1, <3>4
  <2>2. CASE p # pos
    <3>1. p \in DOMAIN snapshots /\ snapshots'[p] = snapshots[p]
      BY Zenon, <1>3, <2>2
    <3>2. p \in Nat \ {0} /\ (p = 1 \/ p <= Len(log)) /\ Past(snapshots[p], p)
      BY Zenon, <1>1, <3>1 DEF SnapshotInv
    <3>3. PICK m : m = snapshots[p]
      BY Zenon
    <3>4. Past(m, p)' /\ m = snapshots'[p]
      BY Zenon, <1>5, <3>1, <3>2, <3>3
    <3> QED
      BY Zenon, <1>1, <3>2, <3>4
  <2> QED
    BY Zenon, <2>1, <2>2
<1>9. ASSUME NEW R \in SUBSET DOMAIN snapshots', R # {}
      PROVE  (\E p \in R : \A q \in R : p >= q) /\ (\E p \in R : \A q \in R : p <= q)
  <2>1. CASE pos \notin R
    <3>1. R \in SUBSET DOMAIN snapshots
      BY Zenon, <1>3, <2>1
    <3> QED
      BY Zenon, <1>1, <1>9, <3>1 DEF SnapshotInv
  <2>2. CASE pos \in R
    <3>1. \A q \in R : q \in Nat /\ q <= pos
      <4>1. \A q \in DOMAIN snapshots : q \in Nat
        BY Zenon, <1>1 DEF SnapshotInv
      <4>2. \A q \in R : q \in DOMAIN snapshots \/ q = pos
        BY Zenon, <1>3
      <4>3. pos \in Nat /\ pos <= pos
        BY <1>4
      <4> QED
        BY Zenon, <1>4, <4>1, <4>2, <4>3
    <3>2. \A q \in R : pos >= q
      BY <1>4, <3>1
    <3>3. CASE R \ {pos} = {}
      <4>1. \A q \in R : q = pos
        BY Zenon, <3>3
      <4>2. \A q \in R : pos <= q
        BY <3>1, <4>1
      <4> QED
        BY Zenon, <2>2, <3>2, <4>2
    <3>4. CASE R \ {pos} # {}
      <4>1. R \ {pos} \in SUBSET DOMAIN snapshots
        BY Zenon, <1>3
      <4>2. PICK p \in R \ {pos} : \A q \in R \ {pos} : p <= q
        BY Zenon, <1>1, <3>4, <4>1 DEF SnapshotInv
      <4>3. \A q \in R : p <= q
        BY Zenon, <3>1, <4>2
      <4> QED
        BY Zenon, <2>2, <3>2, <4>2, <4>3
    <3> QED
      BY Zenon, <3>3, <3>4
  <2> QED
    BY Zenon, <2>1, <2>2
<1>10. SnapshotInv'
  BY Zenon, <1>3, <1>6, <1>7, <1>8, <1>9 DEF SnapshotInv
<1> QED
  BY Zenon, <1>2, <1>10 DEF RecoveryInv

-----------------------------------------------------------------------------
(* RecoveryInv holds of an empty store. *)
LEMMA InitRecovery ==
  ASSUME Init
  PROVE  RecoveryInv
<1>1. /\ log = <<>> /\ skipped = {} /\ current = EmptyMap /\ pending = Nil
      /\ registry = EmptyRegistry /\ rows = EmptyRegistry /\ cursor = 0 /\ at = 0
      /\ phase = "down" /\ tx = "none" /\ snapshots = <<>> /\ view = [s \in Snappers |-> Nil]
  BY Zenon DEF Init, CacheInit
<1>2. /\ Len(log) = 0 /\ log \in Seq(LogEvents) /\ DOMAIN snapshots = {}
      /\ 0 .. Len(log) = {0} /\ 0 + 1 .. 0 = {}
  BY <1>1
<1>3. EmptyMap \in Maps
  BY Zenon DEF EmptyMap, Maps
<1>4. RecType
  BY <1>1, <1>2, <1>3, EmptyRegistrySourced DEF RecType
<1>5. PhaseInv
  BY <1>1, <1>2 DEF PhaseInv
<1>6. HistoryInv
  <2>1. OneMade(log)
    BY Zenon, <1>1, MadeEmpty
  <2>2. CacheAfter(0) = EmptyMap /\ RegistryAfter(0) = EmptyRegistry
    <3>1. Len(log) \in Nat
      BY <1>2
    <3>2. Made(log)[0] = First
      BY Zenon, <2>1, <3>1, MadeIs, MadeEquation
    <3> QED
      BY <3>2 DEF CacheAfter, RegistryAfter, First
  <2>3. ~KindIn(RowMakers, 0, 0) /\ \A e \in Entities : CacheAfter(0)[e] = Absent
    BY Zenon, <1>2, <2>2 DEF KindIn, EmptyMap
  <2>4. Explained(0)
    BY Zenon, <1>3, <2>2, <2>3, EmptyRegistrySourced DEF Explained
  <2> QED
    BY Zenon, <1>2, <2>1, <2>4 DEF HistoryInv
<1>7. phase # "live" /\ phase # "replay"
  BY <1>1
<1>8. CacheInv /\ StatusInv /\ RowsInv
  BY Zenon, <1>1, <1>7, EmptyRegistrySourced DEF CacheInv, StatusInv, RowsInv
<1>9. SnapshotInv
  <2>1. /\ view \in [Snappers -> Maps \cup {Nil}]
        /\ \A s \in Snappers : view[s] = Nil
    BY Zenon, <1>1
  <2>2. IsFiniteSet(DOMAIN snapshots) /\ Cardinality(DOMAIN snapshots) <= Retain
    BY <1>2, FS_EmptySet, RecoveryAssumption
  <2> QED
    BY Zenon, <1>2, <2>1, <2>2 DEF SnapshotInv
<1> QED
  BY Zenon, <1>4, <1>5, <1>6, <1>8, <1>9 DEF RecoveryInv, StoreInv

\* The snapshots of a step that writes none, and after which no snapper has a
\* map it did not have before.
LEMMA OtherSteps ==
  ASSUME RecoveryInv, StoreInv', Grows, snapshots' = snapshots,
         view' = view \/ view' = [s \in Snappers |-> Nil]
  PROVE  RecoveryInv'
<1>1. RecType /\ HistoryInv /\ SnapshotInv /\ RecType'
  BY Zenon DEF RecoveryInv, StoreInv
<1>2. view' \in [Snappers -> Maps \cup {Nil}]
  BY Zenon, <1>1 DEF SnapshotInv
<1>3. \A s \in Snappers : view'[s] # Nil => view'[s] = view[s]
  BY Zenon
<1>4. \A s \in Snappers : view'[s] # Nil => Past(view'[s], Len(log))
  BY Zenon, <1>1, <1>3 DEF SnapshotInv
<1> QED
  BY Zenon, <1>1, <1>2, <1>4, NoSnapshot DEF RecoveryInv

(* Every step keeps RecoveryInv. *)
LEMMA NextRecovery ==
  ASSUME RecoveryInv, [Next]_vars
  PROVE  RecoveryInv'
<1>0. StoreInv /\ RecType
  BY Zenon DEF RecoveryInv, StoreInv
<1>1. CASE Restore
  <2>1. Grows /\ snapshots' = snapshots /\ view' = view
    BY Zenon, <1>1 DEF Restore, durable, Grows
  <2> QED
    BY Zenon, <1>1, <2>1, RestoreKeeps, OtherSteps
<1>2. CASE ReplayApply
  <2>1. Grows /\ snapshots' = snapshots /\ view' = view
    BY Zenon, <1>2 DEF ReplayApply, durable, Grows
  <2> QED
    BY Zenon, <1>0, <1>2, <2>1, ReplayApplyKeeps, OtherSteps
<1>3. CASE ReplayCommit
  <2>1. Grows /\ snapshots' = snapshots /\ view' = view
    BY Zenon, <1>3 DEF ReplayCommit, Grows
  <2> QED
    BY Zenon, <1>0, <1>3, <2>1, ReplayCommitKeeps, OtherSteps
<1>4. CASE ReplayFail
  <2>1. Grows /\ snapshots' = snapshots /\ view' = view
    BY Zenon, <1>4 DEF ReplayFail, durable, Grows
  <2> QED
    BY Zenon, <1>0, <1>4, <2>1, ReplayFailKeeps, OtherSteps
<1>5. CASE Start
  <2>1. Grows /\ snapshots' = snapshots /\ view' = view
    BY Zenon, <1>5 DEF Start, durable, Grows
  <2> QED
    BY Zenon, <1>0, <1>5, <2>1, StartKeeps, OtherSteps
<1>6. CASE Crash
  <2>1. Grows /\ snapshots' = snapshots /\ view' = [s \in Snappers |-> Nil]
    BY Zenon, <1>6 DEF Crash, durable, Grows
  <2> QED
    BY Zenon, <1>0, <1>6, <2>1, CrashKeeps, OtherSteps
<1>7. CASE SkipEvent
  <2>1. Grows /\ snapshots' = snapshots /\ view' = view
    BY Zenon, <1>7 DEF SkipEvent, Grows
  <2> QED
    BY Zenon, <1>0, <1>7, <2>1, SkipEventKeeps, OtherSteps
<1>8. CASE AppendApply
  <2>1. Grows /\ snapshots' = snapshots /\ view' = view
    BY Zenon, <1>8 DEF AppendApply, durable, Grows
  <2> QED
    BY Zenon, <1>0, <1>8, <2>1, AppendApplyKeeps, OtherSteps
<1>9. CASE AppendRollback
  <2>1. Grows /\ snapshots' = snapshots /\ view' = view
    BY Zenon, <1>9 DEF AppendRollback, durable, Grows
  <2> QED
    BY Zenon, <1>0, <1>9, <2>1, AppendRollbackKeeps, OtherSteps
<1>10. CASE AppendCommit
  <2>1. tx = "applied" /\ log' = Append(log, event) /\ skipped' = skipped
    BY Zenon, <1>10 DEF AppendCommit
  <2>2. event \in LogEvents
    BY <1>0, <2>1 DEF RecType
  <2>3. Grows
    BY Zenon, <2>1, <2>2 DEF Grows
  <2>4. snapshots' = snapshots /\ view' = view
    BY Zenon, <1>10 DEF AppendCommit
  <2> QED
    BY Zenon, <1>0, <1>10, <2>3, <2>4, AppendCommitKeeps, OtherSteps
<1>11. CASE AppendPublish
  <2>1. Grows /\ snapshots' = snapshots /\ view' = view
    BY Zenon, <1>11 DEF AppendPublish, durable, Grows
  <2> QED
    BY Zenon, <1>0, <1>11, <2>1, AppendPublishKeeps, OtherSteps
<1>12. ASSUME NEW s \in Snappers, SnapshotNow(s) \/ SnapshotCommit(s) \/ SnapshotFail(s)
       PROVE  RecoveryInv'
  BY Zenon, <1>12, SnapshotNowKeeps, SnapshotCommitKeeps, SnapshotFailKeeps
<1>13. CASE UNCHANGED vars
  <2>1. /\ Grows /\ snapshots' = snapshots /\ view' = view
        /\ UNCHANGED <<current, pending, log, skipped, registry, rows, cursor, at, phase, tx, event>>
    BY Zenon, <1>13 DEF vars, cacheVars, durable, replayVars, batchVars, appendVars, Grows
  <2> QED
    BY Zenon, <1>0, <2>1, QuietKeeps, OtherSteps
<1> QED
  BY Zenon, <1>1, <1>2, <1>3, <1>4, <1>5, <1>6, <1>7, <1>8, <1>9, <1>10, <1>11, <1>12, <1>13
     DEF Next, Boot, AppendStep, Snapshot

(* The inductive invariant of the store: it holds however often and wherever
   the process dies, whatever is skipped and whichever snapshots are read. *)
THEOREM RecoveryInvariant == Spec => []RecoveryInv
<1>1. Init => RecoveryInv
  BY Zenon, InitRecovery
<1>2. RecoveryInv /\ [Next]_vars => RecoveryInv'
  BY Zenon, NextRecovery
<1> QED
  BY <1>1, <1>2, PTL DEF Spec

(* A daemon that is live holds in its cache what the log says of every entity
   none of whose events is skipped (Replay, Cache.Restore): for every set of
   entities and events, any number of crashes, batches of any size. *)
THEOREM RecoveryCorrect == Spec => []RecoveredExactly
<1>1. RecoveryInv => RecoveredExactly
  <2> SUFFICES ASSUME RecoveryInv, Settled,
                      NEW e \in Entities, Unskipped(e, "state_cache")
               PROVE  current[e] = CacheAfter(Len(log))[e]
    BY Zenon DEF RecoveredExactly
  <2>1. phase = "live" /\ Promoted = Len(log)
    BY DEF Settled, Promoted
  <2> QED
    BY Zenon, <2>1 DEF RecoveryInv, StoreInv, CacheInv, Holds
<1> QED
  BY <1>1, RecoveryInvariant, PTL

(* The registry's rows, which every boot replays in place, end as the log says
   (replayBatch, applyDriverEvent), the status of the driver instance included
   unless the log updates it before its row exists. *)
THEOREM RegistryCorrect == Spec => []RegistryExact
<1>1. RecoveryInv => RegistryExact
  BY Zenon DEF RecoveryInv, StoreInv, RowsInv, StatusInv, RegistryExact, Settled
<1> QED
  BY <1>1, RecoveryInvariant, PTL

(* A snapshot never holds an event that was rolled back, nor one after the
   position it is stored under (View, runSnapshot). *)
THEOREM SnapshotCorrect == Spec => []SnapshotIsPast
<1>1. RecoveryInv => SnapshotIsPast
  <2> SUFFICES ASSUME RecoveryInv, skipped = {}, NEW p \in DOMAIN snapshots
               PROVE  \E n \in 0 .. Min({p, Len(log)}) : snapshots[p] = CacheAfter(n)
    BY Zenon DEF SnapshotIsPast
  <2>1. p \in Nat /\ Past(snapshots[p], p)
    BY Zenon DEF RecoveryInv, SnapshotInv
  <2>2. PICK n \in 0 .. Len(log) : n <= p /\ snapshots[p] = CacheAfter(n)
    BY Zenon, <2>1 DEF Past
  <2>3. Len(log) \in Nat
    BY DEF RecoveryInv, StoreInv, RecType
  <2>4. Min({p, Len(log)}) \in {p, Len(log)}
    <3>1. \E x \in {p, Len(log)} : \A y \in {p, Len(log)} : x <= y
      BY <2>1, <2>3
    <3> QED
      BY Zenon, <3>1 DEF Min
  <2>5. n \in 0 .. Min({p, Len(log)})
    BY <2>1, <2>2, <2>3, <2>4
  <2> QED
    BY Zenon, <2>2, <2>5
<1> QED
  BY <1>1, RecoveryInvariant, PTL

(* Pruning keeps at most SnapshotRetainPerOwner rows and never loses the newest
   restore point, and a snapshot survives its own pruning (runSnapshot). *)
THEOREM RestorePointCorrect == Spec => RestorePointKept
<1> DEFINE Kept ==
      /\ Cardinality(DOMAIN snapshots') <= Retain
      /\ \A s \in Snappers : SnapshotCommit(s) => Max({1, Len(log)}) \in DOMAIN snapshots'
      /\ DOMAIN snapshots # {} =>
           /\ DOMAIN snapshots' # {}
           /\ Max(DOMAIN snapshots') >= Max(DOMAIN snapshots)
<1>1. ASSUME RecoveryInv, RecoveryInv', [Next]_vars PROVE Kept
  <2>1. SnapshotInv /\ SnapshotInv' /\ RecType
    BY Zenon, <1>1 DEF RecoveryInv, StoreInv
  <2>2. Cardinality(DOMAIN snapshots') <= Retain
    BY Zenon, <2>1 DEF SnapshotInv
  <2>3. ASSUME DOMAIN snapshots # {}
        PROVE  /\ Max(DOMAIN snapshots) \in DOMAIN snapshots
               /\ Max(DOMAIN snapshots) \in Nat
    BY Zenon, <2>1, <2>3, MaxOf DEF SnapshotInv
  <2>4. ASSUME DOMAIN snapshots' # {}
        PROVE  /\ Max(DOMAIN snapshots') \in DOMAIN snapshots' /\ Max(DOMAIN snapshots') \in Nat
               /\ \A q \in DOMAIN snapshots' : Max(DOMAIN snapshots') >= q
    BY Zenon, <2>1, <2>4, MaxOf DEF SnapshotInv
  <2>5. ASSUME NEW s \in Snappers, SnapshotCommit(s)
        PROVE  /\ Max({1, Len(log)}) \in DOMAIN snapshots'
               /\ \A q \in DOMAIN snapshots : q <= Max({1, Len(log)})
    <3>1. PICK pos : /\ pos = IF log = <<>> THEN 1 ELSE Len(log)
                     /\ pos \in DOMAIN snapshots'
      BY Zenon, <1>1, <2>5, CommitTable
    <3>2. \A q \in DOMAIN snapshots : q <= pos
      BY Zenon, <2>1, <3>1, TopPosition
    <3>3. pos = Max({1, Len(log)})
      BY Zenon, <2>1, <3>1, LastPosition
    <3> QED
      BY Zenon, <3>1, <3>2, <3>3
  <2>6. CASE \E s \in Snappers : SnapshotCommit(s)
    <3>1. /\ Max({1, Len(log)}) \in DOMAIN snapshots'
          /\ \A q \in DOMAIN snapshots : q <= Max({1, Len(log)})
      BY Zenon, <2>5, <2>6
    <3>2. DOMAIN snapshots' # {}
      BY Zenon, <3>1
    <3>3. Max({1, Len(log)}) \in Nat /\ Max(DOMAIN snapshots') >= Max({1, Len(log)})
      BY Zenon, <2>1, <2>4, <3>1, <3>2 DEF SnapshotInv
    <3>4. ASSUME DOMAIN snapshots # {}
          PROVE  Max(DOMAIN snapshots') >= Max(DOMAIN snapshots)
      <4>1. /\ Max(DOMAIN snapshots) \in Nat /\ Max(DOMAIN snapshots) <= Max({1, Len(log)})
            /\ Max(DOMAIN snapshots') \in Nat
        BY Zenon, <2>3, <2>4, <3>1, <3>2, <3>4
      <4> QED
        BY <3>3, <4>1
    <3> QED
      BY Zenon, <2>2, <2>5, <3>2, <3>4
  <2>7. CASE ~\E s \in Snappers : SnapshotCommit(s)
    <3>1. snapshots' = snapshots
      BY Zenon, <1>1, <2>7
         DEF Next, Boot, AppendStep, Snapshot, Restore, ReplayApply, ReplayCommit, ReplayFail, Start,
             Crash, SkipEvent, AppendApply, AppendRollback, AppendCommit, AppendPublish,
             SnapshotNow, SnapshotFail, vars, durable
    <3>2. ASSUME DOMAIN snapshots # {}
          PROVE  Max(DOMAIN snapshots') >= Max(DOMAIN snapshots)
      <4>1. Max(DOMAIN snapshots) \in Nat /\ Max(DOMAIN snapshots') = Max(DOMAIN snapshots)
        BY Zenon, <2>3, <3>1, <3>2
      <4> QED
        BY <4>1
    <3> QED
      BY Zenon, <2>2, <2>7, <3>1, <3>2
  <2> QED
    BY Zenon, <2>6, <2>7
<1>2. RecoveryInv /\ RecoveryInv' /\ [Next]_vars => [Kept]_vars
  BY Zenon, <1>1
<1>3. Spec => [][Kept]_vars
  <2> HIDE DEF Kept
  <2> QED
    BY <1>2, RecoveryInvariant, PTL DEF Spec
<1> QED
  BY <1>3 DEF RestorePointKept
=============================================================================
