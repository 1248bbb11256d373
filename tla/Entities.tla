------------------------------ MODULE Entities ------------------------------
(* The entities of one printer (sensor.py, binary_sensor.py): what they have  *)
(* last written to Home Assistant, and whether the duration sensor ticks.     *)
(* They read the device when they are called, and are called by its           *)
(* connection and printing listeners and by the coordinator; PrinterDevice    *)
(* does the calling.  Home Assistant, which adds and removes entities, is     *)
(* external.                                                                  *)

CONSTANT Nobody       \* no operation; a reading that nobody has made

VARIABLES
    entities,         \* "none", "added" or "removed"
    view,             \* what the entities have written
    timer             \* _unsub_timer: does the duration sensor tick?

entityVars == <<entities, view, timer>>

(* The fields of a view by who has them written: the listeners of the         *)
(* connection (the connection and the diagnostic sensors), those of printing, *)
(* and the coordinator, which calls every entity.                             *)
ConnectionFields == {"connected", "errors"}
PrintingFields   == {"printing"}
EveryField       == ConnectionFields \cup PrintingFields \cup {"battery", "status"}

Unseen == [connected |-> FALSE, errors |-> 0, printing |-> FALSE,
           battery |-> Nobody, status |-> Nobody]

EntitiesInit == entities = "none" /\ view = Unseen /\ timer = FALSE

(* async_write_ha_state of the entities with these fields; entities that are  *)
(* not there have no listener.                                                *)
Written(fields, seen) ==
    IF entities = "added"
    THEN [f \in EveryField |-> IF f \in fields THEN seen[f] ELSE view[f]]
    ELSE view

(* _handle_printing_update of the duration sensor starts or stops its timer. *)
TimerAfter(isPrinting) == IF entities = "added" THEN isPrinting ELSE timer

(* The platforms are set up: every entity subscribes and writes what it sees. *)
AddEntities(seen) ==
    /\ entities = "none"
    /\ entities' = "added"
    /\ view' = seen
    /\ UNCHANGED timer

(* Mutant: the timer outlives its sensor. *)
RemoveEntitiesTicking ==
    /\ entities = "added"
    /\ entities' = "removed"
    /\ UNCHANGED <<view, timer>>

(* The platforms are unloaded: every entity unsubscribes, and the duration    *)
(* sensor stops its timer.                                                    *)
RemoveEntities ==
    /\ entities = "added"
    /\ entities' = "removed"
    /\ timer' = FALSE
    /\ UNCHANGED view
=============================================================================
