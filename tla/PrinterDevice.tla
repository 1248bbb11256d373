---------------------------- MODULE PrinterDevice ----------------------------
(* MarklifeDevice of marklife_ble/parser.py over one setup of its printer:    *)
(* polls and prints that take turns, the link they may keep between them,     *)
(* what the diagnostics remember of them, what the entities show of it, and   *)
(* disconnect(), which takes no lock.                                         *)
(*                                                                            *)
(* What happens inside a session is PrinterClient; here a session is a        *)
(* stretch of time that ends well, fails or is cancelled.  Bluetooth and      *)
(* ble_session are external.                                                  *)
EXTENDS Entities, Naturals, FiniteSets

CONSTANTS
    Polls, Prints     \* calls of update_device and of print_image

ASSUME PrinterDeviceAssumption ==
    /\ Nobody \notin Polls \cup Prints
    /\ Polls \cap Prints = {}
    /\ IsFiniteSet(Polls) /\ IsFiniteSet(Prints)

Ops == Polls \cup Prints

(* Links are numbered as they are made; 0 is none. *)
Links == 0..Cardinality(Ops)

VARIABLES
    keep,             \* keep_connection
    pc,               \* where each operation is
    link,             \* the link each operation was given, or works on
    result, stage,    \* how each operation ends, and where it failed
    lock,             \* the operation that holds the device's lock
    client,           \* self.client
    up, made,         \* links that are up, and how many were made
    printing,         \* _is_printing
    readings,         \* ble_data.sensors, by the poll that heard them
    reports,          \* what _commit_report left behind
    errors,           \* error_count
    leaving           \* disconnect(): what it is doing, the link it is to close,
                      \* and how many links were made when it began

ops   == <<pc, link, result, stage>>
radio == <<up, made>>
notes == <<reports, errors>>
vars  == <<keep, ops, lock, client, radio, printing, readings, notes, leaving,
           entityVars>>

Ended == {"new", "done"}

(* In a session: before each of the two queries of a poll, and after them. *)
Inside == {"session", "status", "read"}

(* What the entities read of the device when they are called. *)
Look == [connected |-> client \in up, errors |-> errors, printing |-> printing,
         battery |-> readings.battery, status |-> readings.status]

(* _notify_connection *)
Notify == view' = Written(ConnectionFields, Look')

(* The printer has its entry in hass.data: the first refresh is over, however *)
(* it went, unless it was cancelled.                                          *)
Registered == \E u \in Polls : result[u] \in {"ok", "failed"}

-----------------------------------------------------------------------------
Init ==
    /\ keep \in BOOLEAN
    /\ pc = [o \in Ops |-> "new"]
    /\ link = [o \in Ops |-> 0]
    /\ result = [o \in Ops |-> "none"] /\ stage = [o \in Ops |-> "none"]
    /\ lock = Nobody
    /\ client = 0 /\ up = {} /\ made = 0
    /\ printing = FALSE
    /\ readings = [battery |-> Nobody, status |-> Nobody]
    /\ reports = [last |-> Nobody, failure |-> Nobody, print |-> Nobody]
    /\ errors = 0
    /\ leaving = [pc |-> "no", link |-> 0, made |-> 0]
    /\ EntitiesInit

(* The setup polls once; then the coordinator polls for as long as there are  *)
(* entities.  Prints find the printer registered; once it was unloaded, only  *)
(* prints that had looked the device up before still come.                    *)
Request(o) ==
    /\ pc[o] = "new"
    /\ \/ /\ o \in Polls
          /\ entities = "added" \/ (entities = "none" /\ \A u \in Polls : pc[u] = "new")
          /\ leaving.pc = "no"
       \/ o \in Prints /\ Registered
    /\ pc' = [pc EXCEPT ![o] = "queued"]
    /\ UNCHANGED <<keep, link, result, stage, lock, client, radio, printing,
                   readings, notes, leaving, entityVars>>

(* Cancelled while it waits for the lock. *)
GiveUp(o) ==
    /\ pc[o] = "queued"
    /\ pc' = [pc EXCEPT ![o] = "done"]
    /\ result' = [result EXCEPT ![o] = "cancelled"]
    /\ UNCHANGED <<keep, link, stage, lock, client, radio, printing, readings,
                   notes, leaving, entityVars>>

(* Mutant: the printing listeners are called before the flag is set. *)
EnterTellingFirst(o) ==
    /\ pc[o] = "queued" /\ lock = Nobody
    /\ lock' = o
    /\ pc' = [pc EXCEPT ![o] = "connecting"]
    /\ link' = [link EXCEPT ![o] = client]
    /\ printing' = (o \in Prints)
    /\ UNCHANGED <<keep, result, stage, client, radio, readings, notes, leaving,
                   entityVars>>

(* Mutant: the lock is not waited for. *)
EnterUnlocked(o) ==
    /\ pc[o] = "queued"
    /\ lock' = o
    /\ pc' = [pc EXCEPT ![o] = "connecting"]
    /\ link' = [link EXCEPT ![o] = client]
    /\ printing' = (o \in Prints)
    /\ UNCHANGED <<keep, result, stage, client, radio, readings, notes, leaving,
                   entities>>
    /\ IF o \in Prints
       THEN view' = Written(PrintingFields, Look') /\ timer' = TimerAfter(TRUE)
       ELSE UNCHANGED <<view, timer>>

(* The lock is free: the operation resolves a route and a profile, and asks   *)
(* ble_session for a link, offering the one self.client holds now.  A print   *)
(* tells the printing listeners first.                                        *)
Enter(o) ==
    /\ pc[o] = "queued" /\ lock = Nobody
    /\ lock' = o
    /\ pc' = [pc EXCEPT ![o] = "connecting"]
    /\ link' = [link EXCEPT ![o] = client]
    /\ printing' = (o \in Prints)
    /\ UNCHANGED <<keep, result, stage, client, radio, readings, notes, leaving,
                   entities>>
    /\ IF o \in Prints
       THEN view' = Written(PrintingFields, Look') /\ timer' = TimerAfter(TRUE)
       ELSE UNCHANGED <<view, timer>>

-----------------------------------------------------------------------------
(* A poll that did not get as far as a link: the printer sleeps. *)
Asleep(o, where) == o \in Polls /\ where \in {"unreachable", "connect"}

(* Mutant: every report becomes the last print's. *)
ReportedAsPrint(o, failed) ==
    [last    |-> o,
     failure |-> IF failed THEN o ELSE reports.failure,
     print   |-> o]

(* Mutant: a success clears the last failure. *)
ReportedClearing(o, failed) ==
    [last    |-> o,
     failure |-> IF failed THEN o ELSE Nobody,
     print   |-> IF o \in Prints THEN o ELSE reports.print]

Reported(o, failed) ==
    [last    |-> o,
     failure |-> IF failed THEN o ELSE reports.failure,
     print   |-> IF o \in Prints THEN o ELSE reports.print]

(* Mutant: a poll that could not connect is recorded like any other. *)
CommitAlways(o, how, where) ==
    IF how = "cancelled" THEN UNCHANGED notes
    ELSE LET failed == how = "failed"
         IN  /\ reports' = Reported(o, failed)
             /\ errors' = IF failed THEN errors + 1 ELSE errors

(* _commit_report: a cancelled operation leaves no report, and a poll of a    *)
(* sleeping printer does not count as a failure.                              *)
Commit(o, how, where) ==
    IF how = "cancelled" THEN UNCHANGED notes
    ELSE LET failed == how = "failed" /\ ~Asleep(o, where)
         IN  /\ reports' = Reported(o, failed)
             /\ errors' = IF failed THEN errors + 1 ELSE errors

(* Mutant: a poll that failed leaves the entities as they are. *)
ToldOfSuccess(o, how) ==
    ConnectionFields \cup
    (CASE o \in Prints -> PrintingFields
       [] o \in Polls /\ how = "ok" -> EveryField
       [] OTHER -> {})

(* Who is told when an operation ends: the connection listeners; after a      *)
(* print, those of printing; and after a poll, failed or not, the coordinator *)
(* takes the device's data and tells every entity.                            *)
Told(o, how) ==
    ConnectionFields \cup
    (CASE o \in Prints -> PrintingFields
       [] o \in Polls /\ how # "cancelled" -> EveryField
       [] OTHER -> {})

(* Mutant: the connection listeners are called before the report is committed. *)
TellFirst(o, how) ==
    /\ view' = Written(Told(o, how), [Look' EXCEPT !.errors = errors])
    /\ timer' = IF o \in Prints THEN TimerAfter(FALSE) ELSE timer

Tell(o, how) ==
    /\ view' = Written(Told(o, how), Look')
    /\ timer' = IF o \in Prints THEN TimerAfter(FALSE) ELSE timer

(* Mutant: a link that is kept is forgotten, too. *)
ForgetKept == client' = 0

Forget == client' = IF keep THEN client ELSE 0

(* Mutant: a cancelled operation never releases the lock. *)
LeaveHolding(o, how, where) ==
    /\ pc' = [pc EXCEPT ![o] = "done"]
    /\ result' = [result EXCEPT ![o] = how]
    /\ stage' = [stage EXCEPT ![o] = where]
    /\ Forget
    /\ Commit(o, how, where)
    /\ printing' = FALSE
    /\ UNCHANGED <<readings, entities>>
    /\ Tell(o, how)
    /\ lock' = IF how = "cancelled" THEN lock ELSE Nobody

(* The finally clauses of _operation and print_image: forget a link that is   *)
(* not kept, commit the report, tell the listeners, release the lock.         *)
Leave(o, how, where) ==
    /\ pc' = [pc EXCEPT ![o] = "done"]
    /\ result' = [result EXCEPT ![o] = how]
    /\ stage' = [stage EXCEPT ![o] = where]
    /\ Forget
    /\ Commit(o, how, where)
    /\ printing' = FALSE
    /\ UNCHANGED <<readings, entities>>
    /\ Tell(o, how)
    /\ lock' = Nobody

(* No route to the printer, or no profile for it: the operation ends in the   *)
(* breath in which it got the lock.                                           *)
Refuse(o, where) ==
    /\ pc[o] = "queued" /\ lock = Nobody
    /\ UNCHANGED <<keep, link, radio, leaving>>
    /\ Leave(o, "failed", where)

(* ble_session reuses the offered link if it is still up. *)
Reuse(o) ==
    /\ pc[o] = "connecting" /\ link[o] \in up
    /\ pc' = [pc EXCEPT ![o] = "session"]
    /\ client' = link[o]
    /\ UNCHANGED <<keep, link, result, stage, lock, radio, printing, readings,
                   notes, leaving, entities, timer>>
    /\ Notify

(* Otherwise it makes a new one. *)
Connect(o) ==
    /\ pc[o] = "connecting" /\ link[o] \notin up
    /\ made' = made + 1
    /\ up' = up \cup {made'}
    /\ link' = [link EXCEPT ![o] = made']
    /\ pc' = [pc EXCEPT ![o] = "session"]
    /\ client' = made'
    /\ UNCHANGED <<keep, result, stage, lock, printing, readings, notes, leaving,
                   entities, timer>>
    /\ Notify

(* It fails to, or is cancelled. *)
ConnectFails(o, how) ==
    /\ pc[o] = "connecting"
    /\ UNCHANGED <<keep, link, radio, leaving>>
    /\ Leave(o, how, "connect")

(* A poll asks for the battery and then for the status; either may go         *)
(* unanswered, and what was heard before stays.                               *)
Ask(u, key, from, to) ==
    /\ u \in Polls /\ pc[u] = from
    /\ pc' = [pc EXCEPT ![u] = to]
    /\ readings' \in {readings, [readings EXCEPT ![key] = u]}
    /\ UNCHANGED <<keep, link, result, stage, lock, client, radio, printing,
                   notes, leaving, entityVars>>

(* A poll that heard neither fails; one that heard something, and a print,    *)
(* may go well.                                                               *)
Complete(o) ==
    o \in Polls => pc[o] = "read" /\ o \in {readings.battery, readings.status}

(* Mutant: only a session that went well closes its link. *)
CloseIfOk(o, how) ==
    /\ pc[o] \in Inside
    /\ how = "ok" => Complete(o)
    /\ up' \in {up, up \ {link[o]}}
    /\ ~keep /\ how = "ok" => link[o] \notin up'
    /\ keep /\ how = "ok" => up' = up
    /\ UNCHANGED <<keep, link, made, leaving>>
    /\ Leave(o, how, "session")

(* The session is over, one way or the other.  stop() has run; ble_session    *)
(* keeps the link or closes it, and the finally clauses follow.  A link that  *)
(* is not to be kept is closed, and so may one be whose session failed.       *)
Close(o, how) ==
    /\ pc[o] \in Inside
    /\ how = "ok" => Complete(o)
    /\ up' \in {up, up \ {link[o]}}
    /\ ~keep => link[o] \notin up'
    /\ keep /\ how = "ok" => up' = up
    /\ UNCHANGED <<keep, link, made, leaving>>
    /\ Leave(o, how, "session")

-----------------------------------------------------------------------------
(* Mutant: nobody is told. *)
DropUnseen(l) ==
    /\ l \in up
    /\ up' = up \ {l}
    /\ UNCHANGED <<keep, ops, lock, client, made, printing, readings, notes,
                   leaving, entityVars>>

(* A link drops, and its disconnected callback tells the listeners. *)
Drop(l) ==
    /\ l \in up
    /\ up' = up \ {l}
    /\ UNCHANGED <<keep, ops, lock, client, made, printing, readings, notes,
                   leaving, entities, timer>>
    /\ Notify

(* The platforms are set up once the printer is registered, and unloaded      *)
(* whenever Home Assistant likes.                                             *)
AddPlatforms ==
    /\ Registered /\ leaving.pc = "no"
    /\ AddEntities(Look)
    /\ UNCHANGED <<keep, ops, lock, client, radio, printing, readings, notes, leaving>>

RemovePlatforms ==
    /\ RemoveEntities
    /\ UNCHANGED <<keep, ops, lock, client, radio, printing, readings, notes, leaving>>

(* disconnect(), when the entities are gone or never came: a link that is up  *)
(* is told to close; without one it is done at once.  It takes no lock, so    *)
(* operations that began while the printer was loaded may be under way.       *)
Disconnect ==
    /\ leaving.pc = "no" /\ entities # "added"
    /\ \A o \in Polls : pc[o] \in Ended \/ entities = "removed"
    /\ UNCHANGED <<keep, ops, lock, radio, printing, readings, notes, entities, timer>>
    /\ \/ /\ client \in up
          /\ leaving' = [pc |-> "closing", link |-> client, made |-> made]
          /\ UNCHANGED <<client, view>>
       \/ /\ client \notin up
          /\ leaving' = [pc |-> "gone", link |-> 0, made |-> made]
          /\ client' = 0
          /\ Notify

(* The link is closed, or could not be, by an error or within the timeout.    *)
LinkLeft ==
    /\ leaving.pc = "closing"
    /\ up' \in {up, up \ {leaving.link}}
    /\ leaving' = [leaving EXCEPT
                     !.pc = "gone", !.link = IF @ \in up' THEN @ ELSE 0]

(* Mutant: the link it was told of is forgotten, not closed. *)
DisconnectedOpen ==
    /\ leaving.pc = "closing"
    /\ client' = 0
    /\ leaving' = [leaving EXCEPT !.pc = "gone", !.link = 0]
    /\ UNCHANGED <<keep, ops, lock, radio, printing, readings, notes, entities, timer>>
    /\ Notify

(* disconnect() keeps a failure to itself and forgets the client in any case, *)
(* which by now may have another link.                                        *)
Disconnected ==
    /\ LinkLeft
    /\ client' = 0
    /\ UNCHANGED <<keep, ops, lock, made, printing, readings, notes, entities, timer>>
    /\ Notify

(* It is cancelled while it waits, and forgets nothing. *)
DisconnectCancelled ==
    /\ LinkLeft
    /\ UNCHANGED <<keep, ops, lock, client, made, printing, readings, notes,
                   entityVars>>

-----------------------------------------------------------------------------
Step(o) ==
    \/ Enter(o)
    \/ \E where \in {"unreachable", "session"} : Refuse(o, where)
    \/ Reuse(o) \/ Connect(o)
    \/ \E how \in {"failed", "cancelled"} : ConnectFails(o, how)
    \/ Ask(o, "battery", "session", "status") \/ Ask(o, "status", "status", "read")
    \/ \E how \in {"ok", "failed", "cancelled"} : Close(o, how)

Next ==
    \/ \E o \in Ops : Request(o) \/ GiveUp(o) \/ Step(o)
    \/ \E l \in up : Drop(l)
    \/ AddPlatforms \/ RemovePlatforms
    \/ Disconnect \/ Disconnected \/ DisconnectCancelled

Spec == Init /\ [][Next]_vars

(* Connecting, sessions and disconnecting take their time and end             *)
(* (PrinterClient!SessionEnds, and the timeouts of blesession).               *)
FairSpec ==
    /\ Spec
    /\ \A o \in Ops : WF_vars(Step(o))
    /\ WF_vars(Disconnected)

-----------------------------------------------------------------------------
TypeOK ==
    /\ keep \in BOOLEAN
    /\ pc \in [Ops -> Ended \cup {"queued", "connecting"} \cup Inside]
    /\ link \in [Ops -> Links]
    /\ result \in [Ops -> {"none", "ok", "failed", "cancelled"}]
    /\ stage \in [Ops -> {"none", "unreachable", "connect", "session"}]
    /\ lock \in Ops \cup {Nobody}
    /\ client \in Links /\ made \in Links /\ up \subseteq Links \ {0}
    /\ printing \in BOOLEAN
    /\ readings \in [{"battery", "status"} -> Polls \cup {Nobody}]
    /\ reports \in [last : Ops \cup {Nobody}, failure : Ops \cup {Nobody},
                    print : Prints \cup {Nobody}]
    /\ errors \in 0..Cardinality(Ops)
    /\ leaving \in [pc : {"no", "closing", "gone"}, link : Links, made : Links]
    /\ entities \in {"none", "added", "removed"}
    /\ view \in [connected : BOOLEAN, errors : 0..Cardinality(Ops), printing : BOOLEAN,
                 battery : Polls \cup {Nobody}, status : Polls \cup {Nobody}]
    /\ timer \in BOOLEAN

(* Polls and prints work on the printer in turn, from before they connect     *)
(* until their link was kept or closed (parser.py:301,355): however they are  *)
(* requested, refused, cancelled or fail, and whatever disconnect() does      *)
(* meanwhile, one begins only when no other is at work, and it ends once.     *)
Turn == INSTANCE Turns WITH
    Callers <- Ops,
    waiting <- {o \in Ops : pc[o] = "queued"},
    working <- {o \in Ops : pc[o] \in {"connecting"} \cup Inside},
    over    <- {o \in Ops : pc[o] = "done"}

OpsInTurn == Turn!Spec

(* Until disconnect() is called, a link that is up is one the device knows of *)
(* (parser.py:217), so there is never a second one to the printer and none is *)
(* left behind by an operation that failed or was cancelled.                  *)
LinkKnown == leaving.pc = "no" => up \subseteq {client}

(* Without keep_connection nothing is connected between operations            *)
(* (troubleshooting.md:38), not even after a disconnect() that failed: it can *)
(* only have failed on the link of an operation that closes it in the end.    *)
FreeWhenIdle == ~keep /\ lock = Nobody => up = {}

(* The connection sensor "indicates an actual GATT link"                      *)
(* (troubleshooting.md:38), at any moment: links come and go in sessions,     *)
(* between them and under them, and the sensor itself comes and goes.         *)
ConnectionShown == entities = "added" => view.connected = (up # {})

(* The error count is what went wrong: failed prints and failed polls, except *)
(* polls that saw no printer or could not connect, and cancellations          *)
(* (troubleshooting.md:40); the sensors show it as soon as it changes; and    *)
(* the last failure stays until the next one, whatever succeeds, sleeps or is *)
(* cancelled after it (parser.py:254).  A poll refused for want of a profile  *)
(* counts, although it never had the connection of which                      *)
(* troubleshooting.md:40 speaks (parser.py:256 asks for the stage only).      *)
ErrorsCounted ==
    /\ errors = Cardinality({o \in Ops :
                    /\ result[o] = "failed"
                    /\ o \in Polls => stage[o] = "session"})
    /\ entities = "added" => view.errors = errors
    /\ errors > 0 => reports.failure # Nobody /\ result[reports.failure] = "failed"

(* The printing sensor is on while a print holds the lock (parser.py:356),    *)
(* which is longer than troubleshooting.md:34 has it, "while raster data is   *)
(* actively transmitting": it is on while the print connects, and under one   *)
(* that cannot.  The duration sensor never ticks beyond that, nor after it    *)
(* was removed (sensor.py:171), whenever the platforms come and go meanwhile. *)
PrintingShown ==
    /\ entities = "added" => view.printing = (lock \in Prints)
    /\ timer => entities = "added" /\ lock \in Prints

(* Between polls the battery and the status shown are the last ones heard,    *)
(* also when the poll that heard one of them failed in the end                *)
(* (__init__.py:116); only what a cancelled poll heard may still be unshown.  *)
ReadingsShown ==
    entities = "added" /\ (\A u \in Polls : pc[u] \notin Inside) =>
        \A key \in {"battery", "status"} :
            view[key] # readings[key] => result[readings[key]] = "cancelled"

(* Every operation that is asked for ends, and the next one gets its turn.    *)
OpsEnd == \A o \in Ops : pc[o] = "queued" ~> pc[o] = "done"

(* When disconnect() is done, no link of before is left but one that would    *)
(* not close (parser.py:285-290): what else is connected has been connected   *)
(* since it began, by an operation that it did not wait for (parser.py:283).  *)
OrphansAreLate ==
    leaving.pc = "gone" => \A l \in up : l = leaving.link \/ l > leaving.made

(* Once disconnect() is done and nothing is running, the printer is free but  *)
(* for a link that would not close (test_init.py:                             *)
(* test_reload_closes_kept_connection).                                       *)
DisconnectFinal ==
    leaving.pc = "gone" /\ (\A o \in Ops : pc[o] \in Ended)
        => up \subseteq {leaving.link}
=============================================================================
