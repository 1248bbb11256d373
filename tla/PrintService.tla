---------------------------- MODULE PrintService -----------------------------
(* The integration's entry points in __init__.py: setup and unload of config  *)
(* entries, the domain-wide print service and the domain-wide print lock.     *)
(*                                                                            *)
(* Home Assistant (external) runs at most one setup or unload per entry at a  *)
(* time, and those of different entries and any number of service calls side  *)
(* by side.  An action is a stretch of code between two awaits.               *)
EXTENDS Naturals, FiniteSets

CONSTANTS
    Entries,          \* config entries, one per printer
    Jobs,             \* calls of the print service
    NoDevice,
    KeepLink,         \* keep_connection
    OverlapEntries,   \* may setups and unloads of different entries overlap?
    OverlapJobs,      \* may a setup or an unload overlap a service call?
    MaxSetups         \* bound on setups of each entry

ASSUME PrintServiceAssumption ==
    /\ IsFiniteSet(Entries)
    /\ KeepLink \in BOOLEAN
    /\ OverlapEntries \in BOOLEAN /\ OverlapJobs \in BOOLEAN
    /\ MaxSetups \in Nat

Locks   == 1..MaxSetups * Cardinality(Entries)
Devices == Entries \X (1..MaxSetups)

VARIABLES
    entry,            \* what Home Assistant is doing with each entry
    gen,              \* setups of each entry so far; <<e, gen[e]>> is its device
    registry,         \* the keys of hass.data[DOMAIN]
    lock,             \* hass.data[PRINT_LOCK]: the number of a Lock, 0 if absent
    made,             \* Lock objects made so far
    service,          \* is marklife.print registered?
    job,              \* the service calls
    held,             \* the Lock objects that are held
    open,             \* devices whose link is up
    loose             \* those whose disconnect() failed, or that a call has
                      \* connected after they were let go

links == <<open, loose>>
vars  == <<entry, gen, registry, lock, made, service, job, held, links>>

(* Mutant: an entry goes by the device of its previous setup. *)
DeviceOfLastSetup(e) == <<e, gen[e] - 1>>

(* The MarklifeDevice the entry's last setup made. *)
Device(e) == <<e, gen[e]>>

(* Without a printer: never set up, or let go, or, "broken", a setup that     *)
(* ended without coming to the end of its rollback.                           *)
Gone    == {"absent", "broken"}
Resting == Gone \cup {"loaded", "stuck"}
Ended   == {"new", "ok", "failed", "crashed"}

(* How much the environment overlaps things. *)
EntriesFree == OverlapEntries \/ \A e \in Entries : entry[e] \in Resting
JobsFree    == OverlapJobs \/ \A j \in Jobs : job[j].pc \in Ended

-----------------------------------------------------------------------------
Init ==
    /\ entry = [e \in Entries |-> "absent"]
    /\ gen = [e \in Entries |-> 0]
    /\ registry = {}
    /\ lock = 0 /\ made = 0
    /\ service = FALSE
    /\ job = [j \in Jobs |-> [pc |-> "new", targets |-> {}, dev |-> NoDevice,
                              lock |-> 0]]
    /\ held = {}
    /\ open = {} /\ loose = {}

Enter(e, state) == entry' = [entry EXCEPT ![e] = state]

(* The links that are up now, and which more of them are excused. *)
Linked(up, excuse) ==
    /\ open' = up
    /\ loose' = (loose \cup excuse) \cap up

(* device.disconnect() for the entry's device.  It may fail or time out, which *)
(* it keeps to itself, and the link it could not close is then nobody's.      *)
Disconnect(e) ==
    \E up \in {open \ {Device(e)}, open} : Linked(up, {Device(e)})

(* async_setup_entry up to its first await: the lock is made if there is none, *)
(* the device is a new one, and the printer is not in the registry yet.       *)
Setup(e) ==
    /\ entry[e] \in Gone
    /\ gen[e] < MaxSetups
    /\ EntriesFree /\ JobsFree
    /\ Enter(e, "refreshing")
    /\ gen' = [gen EXCEPT ![e] = @ + 1]
    /\ IF lock = 0 THEN lock' = made + 1 /\ made' = made + 1
                   ELSE UNCHANGED <<lock, made>>
    /\ UNCHANGED <<registry, service, job, held, links>>

(* Links left over from earlier setups are closed, where that is possible; the *)
(* first refresh is over, having reached the printer or not; the printer is   *)
(* registered and its platforms are set up.                                   *)
Register(e) ==
    /\ entry[e] = "refreshing"
    /\ registry' = registry \cup {e}
    /\ Enter(e, "forwarding")
    /\ \E stale \in {{}, {d \in open : d[1] = e}}, kept \in {{}, {Device(e)}} :
           /\ kept # {} => KeepLink
           /\ Linked((open \ stale) \cup kept, {})
    /\ UNCHANGED <<gen, lock, made, service, job, held>>

(* Setup ends: the service is registered, once for the domain. *)
Loaded(e) ==
    /\ entry[e] = "forwarding"
    /\ Enter(e, "loaded")
    /\ service' = TRUE
    /\ UNCHANGED <<gen, registry, lock, made, job, held, links>>

(* The first await of setup, the closing of stale links, raises or is         *)
(* cancelled: it stands before the try, and nothing is undone.                *)
SetupBreaks(e) ==
    /\ entry[e] = "refreshing"
    /\ Enter(e, "broken")
    /\ UNCHANGED <<gen, registry, lock, made, service, job, held, links>>

(* An exception or a cancellation later in setup: platforms are unloaded. *)
SetupFails(e) ==
    /\ entry[e] \in {"refreshing", "forwarding"}
    /\ Enter(e, "unrolling")
    /\ UNCHANGED <<gen, registry, lock, made, service, job, held, links>>

(* Platforms are unloaded, or not: the printer leaves the registry, and its   *)
(* device is told to disconnect.                                              *)
Unroll(e) ==
    /\ entry[e] = "unrolling"
    /\ registry' = registry \ {e}
    /\ Enter(e, "disconnecting")
    /\ UNCHANGED <<gen, lock, made, service, job, held, links>>

(* Mutant: the lock stays behind. *)
RolledBackKeepingLock(e) ==
    /\ entry[e] = "disconnecting"
    /\ Disconnect(e)
    /\ Enter(e, "absent")
    /\ UNCHANGED <<gen, registry, lock, made, service, job, held>>

(* Disconnected: without any printer left the lock goes, and setup fails. *)
RolledBack(e) ==
    /\ entry[e] = "disconnecting"
    /\ Disconnect(e)
    /\ lock' = IF registry = {} THEN 0 ELSE lock
    /\ Enter(e, "absent")
    /\ UNCHANGED <<gen, registry, made, service, job, held>>

(* A second cancellation ends the rollback while it disconnects. *)
RollbackBreaks(e) ==
    /\ entry[e] = "disconnecting"
    /\ Disconnect(e)
    /\ Enter(e, "broken")
    /\ UNCHANGED <<gen, registry, lock, made, service, job, held>>

(* async_unload_entry: platforms are being unloaded. *)
Unload(e) ==
    /\ entry[e] = "loaded"
    /\ EntriesFree /\ JobsFree
    /\ Enter(e, "unloading")
    /\ UNCHANGED <<gen, registry, lock, made, service, job, held, links>>

(* A platform refuses: the entry stays as it is and cannot be set up again. *)
UnloadRefused(e) ==
    /\ entry[e] = "unloading"
    /\ Enter(e, "stuck")
    /\ UNCHANGED <<gen, registry, lock, made, service, job, held, links>>

Withdraw(e) ==
    /\ entry[e] = "unloading"
    /\ registry' = registry \ {e}
    /\ Enter(e, "closing")
    /\ UNCHANGED <<gen, lock, made, service, job, held, links>>

(* Mutant: removing any printer removes what the domain shares. *)
UnloadedTakingAll(e) ==
    /\ entry[e] = "closing"
    /\ Disconnect(e)
    /\ service' = FALSE /\ lock' = 0
    /\ Enter(e, "absent")
    /\ UNCHANGED <<gen, registry, made, job, held>>

(* Mutant: the service outlives the printers. *)
UnloadedKeepingService(e) ==
    /\ entry[e] = "closing"
    /\ Disconnect(e)
    /\ lock' = IF registry = {} THEN 0 ELSE lock
    /\ Enter(e, "absent")
    /\ UNCHANGED <<gen, registry, made, service, job, held>>

(* Mutant: the link is left to itself. *)
UnloadedConnected(e) ==
    /\ entry[e] = "closing"
    /\ IF registry = {} THEN service' = FALSE /\ lock' = 0
                        ELSE UNCHANGED <<service, lock>>
    /\ Enter(e, "absent")
    /\ UNCHANGED <<gen, registry, made, job, held, links>>

(* Disconnected: without any printer left in the registry the service and the *)
(* lock go.                                                                   *)
Unloaded(e) ==
    /\ entry[e] = "closing"
    /\ Disconnect(e)
    /\ IF registry = {} THEN service' = FALSE /\ lock' = 0
                        ELSE UNCHANGED <<service, lock>>
    /\ Enter(e, "absent")
    /\ UNCHANGED <<gen, registry, made, job, held>>

(* The unload is cancelled while it disconnects, and the entry is stuck, too. *)
UnloadBreaks(e) ==
    /\ entry[e] = "closing"
    /\ Disconnect(e)
    /\ Enter(e, "stuck")
    /\ UNCHANGED <<gen, registry, lock, made, service, job, held>>

-----------------------------------------------------------------------------
(* The print service. *)

(* The job's next target is looked up; one that has left the registry since   *)
(* the targets were resolved is a KeyError.                                   *)
NextTarget(j, targets) ==
    \/ /\ targets = {}
       /\ job' = [job EXCEPT ![j].pc = "ok", ![j].targets = {}]
    \/ \E e \in targets :
         job' = [job EXCEPT ![j] =
                   [pc      |-> IF e \in registry THEN "rendering" ELSE "crashed",
                    targets |-> targets \ {e},
                    dev     |-> IF e \in registry THEN Device(e) ELSE @.dev,
                    lock    |-> 0]]

(* A call: its targets are resolved among the printers registered now.        *)
(* Without any match it is refused.                                           *)
Call(j) ==
    /\ job[j].pc = "new"
    /\ service
    /\ OverlapJobs \/ \A e \in Entries : entry[e] \in Resting
    /\ \/ \E targets \in SUBSET registry \ {{}} : NextTarget(j, targets)
       \/ job' = [job EXCEPT ![j].pc = "failed"]
    /\ UNCHANGED <<entry, gen, registry, lock, made, service, held, links>>

(* The label is rendered, in parallel with anything.  A preview is done with  *)
(* this target; a print looks the lock up, and there may be none.             *)
Preview(j) ==
    /\ job[j].pc = "rendering"
    /\ NextTarget(j, job[j].targets)
    /\ UNCHANGED <<entry, gen, registry, lock, made, service, held, links>>

RenderFails(j) ==
    /\ job[j].pc = "rendering"
    /\ job' = [job EXCEPT ![j].pc = "failed"]
    /\ UNCHANGED <<entry, gen, registry, lock, made, service, held, links>>

QueueForLock(j) ==
    /\ job[j].pc = "rendering"
    /\ job' = [job EXCEPT ![j].pc = IF lock = 0 THEN "crashed" ELSE "queued",
                          ![j].lock = lock]
    /\ UNCHANGED <<entry, gen, registry, lock, made, service, held, links>>

(* Has the printer of this device been let go, or set up anew? *)
LetGo(d) == d # Device(d[1]) \/ entry[d[1]] \in Gone

(* A call's device has a link now, or none. *)
Connect(d, link) == Linked((open \ {d}) \cup link, IF LetGo(d) THEN link ELSE {})

(* Mutant: the lock is not waited for. *)
StartPrintUnlocked(j) ==
    /\ job[j].pc = "queued"
    /\ held' = held \cup {job[j].lock}
    /\ job' = [job EXCEPT ![j].pc = "printing"]
    /\ Connect(job[j].dev, {job[j].dev})
    /\ UNCHANGED <<entry, gen, registry, lock, made, service>>

(* The job gets the lock and its device connects. *)
StartPrint(j) ==
    /\ job[j].pc = "queued"
    /\ job[j].lock \notin held
    /\ held' = held \cup {job[j].lock}
    /\ job' = [job EXCEPT ![j].pc = "printing"]
    /\ Connect(job[j].dev, {job[j].dev})
    /\ UNCHANGED <<entry, gen, registry, lock, made, service>>

(* The device is done, and keeps its link if it is told to and has one: also  *)
(* if it has connected only after a disconnect() that came in between.        *)
Release(j) ==
    /\ job[j].pc = "printing"
    /\ held' = held \ {job[j].lock}
    /\ \E kept \in {{}, {job[j].dev}} :
          /\ kept # {} => KeepLink
          /\ Connect(job[j].dev, kept)
    /\ UNCHANGED <<entry, gen, registry, lock, made, service>>

Printed(j) == Release(j) /\ NextTarget(j, job[j].targets)

(* Mutant: an error leaves without releasing the lock. *)
PrintFailsHolding(j) ==
    /\ job[j].pc = "printing"
    /\ job' = [job EXCEPT ![j].pc = "failed"]
    /\ UNCHANGED <<entry, gen, registry, lock, made, service, held, links>>

(* An error ends the call: the targets that are left are not printed. *)
PrintFails(j) == Release(j) /\ job' = [job EXCEPT ![j].pc = "failed"]

-----------------------------------------------------------------------------
EntryStep(e) ==
    \/ Register(e) \/ Loaded(e)
    \/ SetupBreaks(e) \/ SetupFails(e) \/ Unroll(e) \/ RolledBack(e) \/ RollbackBreaks(e)
    \/ UnloadRefused(e) \/ Withdraw(e) \/ Unloaded(e) \/ UnloadBreaks(e)

JobStep(j) ==
    \/ Preview(j) \/ RenderFails(j) \/ QueueForLock(j)
    \/ StartPrint(j) \/ Printed(j) \/ PrintFails(j)

Next ==
    \/ \E e \in Entries : Setup(e) \/ Unload(e) \/ EntryStep(e)
    \/ \E j \in Jobs : Call(j) \/ JobStep(j)

Spec == Init /\ [][Next]_vars

(* Tasks are scheduled, renders and prints end (PrinterClient!SessionEnds).   *)
(* Which waiter of a Lock gets it is not fixed here; asyncio serves them in   *)
(* order.                                                                     *)
FairSpec ==
    /\ Spec
    /\ \A e \in Entries : WF_vars(EntryStep(e))
    /\ \A j \in Jobs : WF_vars(JobStep(j))

-----------------------------------------------------------------------------
TypeOK ==
    /\ entry \in [Entries -> {"absent", "broken", "refreshing", "forwarding",
                              "loaded", "unrolling", "disconnecting",
                              "unloading", "closing", "stuck"}]
    /\ gen \in [Entries -> 0..MaxSetups]
    /\ registry \subseteq Entries
    /\ made \in Locks \cup {0} /\ lock \in 0..made
    /\ service \in BOOLEAN
    /\ job \in [Jobs -> [pc : Ended \cup {"rendering", "queued", "printing"},
                         targets : SUBSET Entries,
                         dev : Devices \cup {NoDevice},
                         lock : 0..made]]
    /\ held \subseteq Locks
    /\ open \subseteq Devices /\ loose \subseteq open

(* A loaded printer can be called: the service is there as long as any        *)
(* printer is loaded, however setups and unloads of others overlap.           *)
ServiceWhileLoaded == (\E e \in Entries : entry[e] = "loaded") => service

(* With every printer gone the registry is empty, and the lock is gone, too,  *)
(* so that the next print after a new setup starts from a fresh one           *)
(* (test_init.py asserts PRINT_LOCK is not in hass.data then).  One thing     *)
(* leaves a lock without a printer: a setup that broke off before its try     *)
(* (__init__.py:100) or whose rollback was cut short.                         *)
LockGone ==
    (\A e \in Entries : entry[e] \in Gone) =>
        /\ registry = {}
        /\ lock # 0 => \E e \in Entries : entry[e] = "broken"

(* Every call ends, and with it its hold on a lock. *)
JobsEnd == \A j \in Jobs : (job[j].pc \notin Ended) ~> (job[j].pc \in Ended)

(* __init__.py:350-352: "The service and the lock are domain-wide, so they    *)
(* outlive individual entries": with one setup or unload at a time, the lock  *)
(* stays while a printer is loaded, and when none is left the service is      *)
(* gone, too.                                                                 *)
SharedInTurn ==
    /\ (\E e \in Entries : entry[e] = "loaded") => lock # 0
    /\ (\A e \in Entries : entry[e] \in Gone) => ~service

(* __init__.py:251: "Serialise the BLE half domain-wide, not just per         *)
(* printer".                                                                  *)
OneBleJob == Cardinality({j \in Jobs : job[j].pc = "printing"}) <= 1

(* Calls print in turn: one that prints has queued for it, gets its turn only *)
(* when nobody prints, and passes it on however it ends; and a call that has  *)
(* ended prints no more (__init__.py:255-256), as long as no setup or unload  *)
(* overlaps it.                                                               *)
Turn == INSTANCE Turns WITH
    Callers <- Jobs,
    waiting <- {j \in Jobs : job[j].pc = "queued"},
    working <- {j \in Jobs : job[j].pc = "printing"},
    over    <- {j \in Jobs : job[j].pc \in Ended \ {"new"}}

CallsInTurn == Turn!Spec

(* A printer that was let go, unloaded or after a setup that failed, is not   *)
(* left connected (test_init.py: test_reload_closes_kept_connection), except  *)
(* where its own disconnect() failed (parser.py:285-290) or a call that had   *)
(* looked the device up before connects it afterwards (__init__.py:226).      *)
OrphanClosed == \A d \in open : LetGo(d) => d \in loose
=============================================================================
