----------------------------- MODULE StateCache -----------------------------
(***************************************************************************)
(* The entity state cache (internal/state/cache.go): an immutable map      *)
(* behind an atomic pointer, `current`, and one shared slot, `pending`,    *)
(* in which the transaction of an append builds the next map.              *)
(*                                                                         *)
(* The cache takes no step of its own: the event store calls Apply inside  *)
(* its transaction, Promote after the commit and Discard on a rollback.    *)
(* Each of the three runs under the cache's mutex, so each is one step.    *)
(***************************************************************************)
CONSTANTS
  Entities,       \* entity identifiers
  Values,         \* attribute sets a state_changed event can carry
  NoAttributes,   \* the nil Attributes of an entity that is only registered
  Absent,         \* the map has no binding for the entity
  Nil             \* the nil pending pointer

\* A binding of the map: a reported state, or registered without one.
States == Values \cup {NoAttributes}

Maps == [Entities -> States \cup {Absent}]

ASSUME CacheAssumption ==
  /\ NoAttributes \notin Values
  /\ Absent \notin States
  /\ Nil \notin Maps

\* The events the cache tells apart; every other kind it ignores.
Events ==
  [kind : {"state_changed"}, entity : Entities, value : Values]
    \cup [kind : {"entity_registered", "entity_unregistered", "other"},
          entity : Entities, value : {NoAttributes}]

VARIABLES
  current,        \* the promoted map that View and Get read
  pending         \* the map under construction, or Nil

cacheVars == <<current, pending>>

EmptyMap == [e \in Entities |-> Absent]

CacheInit ==
  /\ current = EmptyMap
  /\ pending = Nil

\* The map after event e.  A registration only adds a missing entity.
ApplyEvent(m, e) ==
  CASE e.kind = "state_changed" -> [m EXCEPT ![e.entity] = e.value]
    [] e.kind = "entity_registered" ->
         IF m[e.entity] = Absent THEN [m EXCEPT ![e.entity] = NoAttributes] ELSE m
    [] e.kind = "entity_unregistered" -> [m EXCEPT ![e.entity] = Absent]
    [] OTHER -> m

\* The map the next Apply starts from.
Base == IF pending = Nil THEN current ELSE pending

Apply(e) ==
  /\ pending' = ApplyEvent(Base, e)
  /\ UNCHANGED current

Promote ==
  /\ current' = Base
  /\ pending' = Nil

\* Mutant: a rollback leaves the map under construction in place.
MutDiscardKeeps == UNCHANGED <<current, pending>>

Discard ==
  /\ pending' = Nil
  /\ UNCHANGED current

CacheTypeOK ==
  /\ current \in Maps
  /\ pending \in Maps \cup {Nil}
=============================================================================
