----------------------------- MODULE MCRecovery -----------------------------
(* Instances of Recovery for TLC. *)
EXTENDS Recovery

\* What is appended about an entity and about the driver instance that owns it.
\* A failure changes the instance's row the way a stop does, and is left out.
EntityInputs ==
  [kind : {"state_changed"}, entity : Entities, value : Values]
    \cup [kind : {"entity_registered", "entity_unregistered",
                  "driver_started", "driver_stopped"},
          entity : Entities, value : {NoAttributes}]
=============================================================================
