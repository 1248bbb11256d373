---------------------------- MODULE PrinterEntry ----------------------------
(* How a printer becomes an entry of Home Assistant and gets its profile: the *)
(* config flows (config_flow.py), which may run beside each other, and what   *)
(* MarklifeDevice learns of its model and its print head once it is awake     *)
(* (_resolve_profile of parser.py, and the width of a label in __init__.py).  *)
(*                                                                            *)
(* Home Assistant is external: it sees advertisements, starts and ends flows, *)
(* keeps entries by unique id, and aborts the other flows of a printer when   *)
(* an entry is made for it.                                                   *)
EXTENDS Profiles, FiniteSets

CONSTANTS
    Printers, Flows,
    Texts,            \* what may be typed for an address, without a colon in it
    Names, Services,  \* what printers may advertise
    Registries        \* the profiles, in every order they may be registered

(* Names and prefixes are words of the letters that upper() knows; no two     *)
(* models have the same id.                                                   *)
ASSUME PrinterEntryAssumption ==
    /\ Texts \cap Printers = {}
    /\ Capitals \in [Letters -> Letters]
    /\ Names \subseteq Seq(Letters) /\ None \notin Names
    /\ \A profiles \in Registries :
        /\ DOMAIN profiles \subseteq Nat
        /\ \A i, j \in DOMAIN profiles : profiles[i].model = profiles[j].model => i = j
        /\ \A i \in DOMAIN profiles :
              /\ profiles[i] # None /\ profiles[i].model # None
              /\ profiles[i].prefixes \in Seq(Seq(Letters))
              /\ profiles[i].head \in Nat

(* What may be typed for an address: that of a printer, whose unique id is    *)
(* the upper-case one; any other text without a colon, which goes for an      *)
(* address as it is (macOS has such addresses); or nothing, or something with *)
(* a colon that is no address.                                                *)
Spellings == {"upper", "lower"}
Typed     == (Printers \X Spellings) \cup (Texts \X {"typed"})
Garbage   == <<None, "no address">>

DefaultHead == 384    \* BLEData.printhead_px

VARIABLES
    registered,       \* _PROFILES
    seen,             \* the last advertisement of each printer; None: asleep
    flow,             \* each flow: its step, its unique id, what its form offers
    entries,          \* the entry with each unique id: the model chosen, if any
    run,              \* the device of each entry: profile, name, head
    job,              \* a label that is rendered, and for which entry
    label             \* the label printed last: its width, and the head's

devices == <<run, job, label>>
vars    == <<registered, seen, flow, entries, devices>>

Index == Pairs(registered)

NoFlow  == [pc |-> "none", uid |-> None, name |-> None, offers |-> {}]
Over    == [NoFlow EXCEPT !.pc = "over"]
NoEntry == [there |-> FALSE, model |-> None, title |-> None]
NoJob   == [entry |-> None, width |-> 0]
NewDevice == [profile |-> None, name |-> None, head |-> DefaultHead]

Awake      == {p \in Printers : seen[p] # None}
Configured == {uid \in Typed : entries[uid].there}
Uid(p)     == <<p, "upper">>

-----------------------------------------------------------------------------
Init ==
    /\ registered \in Registries
    /\ seen = [p \in Printers |-> None]
    /\ flow = [f \in Flows |-> NoFlow]
    /\ entries = [uid \in Typed |-> NoEntry]
    /\ run = [uid \in Typed |-> NewDevice]
    /\ job = NoJob /\ label = None

(* A printer wakes up, goes to sleep, or is renamed. *)
Advertise(p) ==
    /\ seen' \in {[seen EXCEPT ![p] = ad] :
                    ad \in {None} \cup [name : Names, services : Services]}
    /\ UNCHANGED <<registered, flow, entries, devices>>

(* Mutant: a session goes by the name it sees. *)
ResolvedAnew(device, model, name) ==
    IF model # None THEN Get(registered, model) ELSE Find(Index, name)

(* _resolve_profile: once and for all; a model that was chosen by hand comes  *)
(* before the name.                                                           *)
Resolved(device, model, name) ==
    IF device.profile # None THEN device.profile
    ELSE IF model # None THEN Get(registered, model)
    ELSE Find(Index, name)

(* Mutant: a profile that is not supported is as good as any. *)
LearnedOfAnyKind(device, uid, model) ==
    IF uid[1] \notin Awake THEN device
    ELSE LET name == seen[uid[1]].name
             profile == Resolved(device, model, name)
         IN  IF profile = None THEN device
             ELSE [profile |-> profile, head |-> profile.head,
                   name |-> IF device.name = None THEN name ELSE device.name]

(* What a device knows after it began an operation: nothing new while the     *)
(* printer sleeps, otherwise its profile and the name it has at this moment.  *)
Learned(device, uid, model) ==
    IF uid[1] \notin Awake THEN device
    ELSE LET name == seen[uid[1]].name
             profile == Resolved(device, model, name)
         IN  IF ~Supported(profile) THEN device
             ELSE [profile |-> profile, head |-> profile.head,
                   name |-> IF device.name = None THEN name ELSE device.name]

(* Home Assistant makes the entry that flow f has finished with and aborts    *)
(* the other flows of this printer.  The entry is set up with a new device,   *)
(* and polls it.                                                              *)
CreateEntry(f, uid, model, title) ==
    /\ entries' = [entries EXCEPT ![uid] = [there |-> TRUE, model |-> model, title |-> title]]
    /\ run' = [run EXCEPT ![uid] = Learned(NewDevice, uid, model)]
    /\ flow' = [g \in Flows |-> IF g = f \/ flow[g].uid = uid THEN Over ELSE flow[g]]
    /\ UNCHANGED <<registered, seen, job, label>>

(* A flow ends without an entry. *)
EndFlow(f) ==
    /\ flow' = [flow EXCEPT ![f] = Over]
    /\ UNCHANGED <<registered, seen, entries, devices>>

Show(f, form) ==
    /\ flow' = [flow EXCEPT ![f] = form]
    /\ UNCHANGED <<registered, seen, entries, devices>>

-----------------------------------------------------------------------------
(* async_step_bluetooth: a flow for a printer that is advertised, unless      *)
(* there is one already, or an entry.                                         *)
Discovered(f, p) ==
    LET ad      == seen[p]
        profile == Find(Index, ad.name)
        refused ==
            \/ \E g \in Flows : flow[g].uid = Uid(p)
            \/ Uid(p) \in Configured
            \/ ~Supported(profile)
            \/ Contradicts(profile, ad.services)
    IN  /\ flow[f].pc = "none" /\ p \in Awake
        /\ IF refused THEN EndFlow(f)
           ELSE Show(f, [pc |-> "confirm", uid |-> Uid(p), name |-> ad.name, offers |-> {}])

(* async_step_bluetooth_confirm *)
Confirm(f) ==
    /\ flow[f].pc = "confirm"
    /\ CreateEntry(f, flow[f].uid, None, flow[f].name)

(* Mutant: unsupported models are offered, too. *)
CandidatesOfAnyKind ==
    {p \in Awake : Uid(p) \notin Configured /\ Find(Index, seen[p].name) # None}

(* async_step_user offers the printers in sight that it knows how to print on *)
(* and that have no entry, by the names they have at that moment.             *)
Candidates ==
    {p \in Awake : Uid(p) \notin Configured /\ Supported(Find(Index, seen[p].name))}

(* async_step_manual offers all that is in sight and has no entry. *)
ManualForm ==
    [pc |-> "manual", uid |-> None, name |-> None,
     offers |-> {[to |-> Uid(p), name |-> None] : p \in {q \in Awake : Uid(q) \notin Configured}}]

StartUser(f) ==
    /\ flow[f].pc = "none"
    /\ IF Candidates = {} THEN Show(f, ManualForm)
       ELSE Show(f, [pc |-> "user", uid |-> None, name |-> None,
                     offers |-> {[to |-> Uid(p), name |-> seen[p].name] : p \in Candidates}])

(* Mutant: an entry that came since the form was shown goes unnoticed. *)
PickUnchecked(f, offer) ==
    /\ flow[f].pc = "user" /\ offer \in flow[f].offers
    /\ CreateEntry(f, offer.to, None, offer.name)

(* One of them is picked; it may have got its entry meanwhile. *)
Pick(f, offer) ==
    /\ flow[f].pc = "user" /\ offer \in flow[f].offers
    /\ IF offer.to \in Configured THEN EndFlow(f)
       ELSE CreateEntry(f, offer.to, None, offer.name)

(* Mutant: an address is the one that was typed. *)
NormalAsTyped(typed) == typed

(* A MAC address is taken in upper case, any other text as it is. *)
Normal(typed) == IF typed[1] \in Printers THEN Uid(typed[1]) ELSE typed

(* What a manual form takes: one of its offers, or anything, if it has none.  *)
Answers(f) ==
    IF flow[f].offers # {} THEN {offer.to : offer \in flow[f].offers}
    ELSE Typed \cup {Garbage}

(* async_step_manual with an address and a model: one that is malformed is    *)
(* asked for again.                                                           *)
Submit(f, typed, model) ==
    /\ flow[f].pc = "manual" /\ typed \in Answers(f)
    /\ IF typed = Garbage THEN Show(f, ManualForm)
       ELSE IF Normal(typed) \in Configured THEN EndFlow(f)
       ELSE CreateEntry(f, Normal(typed), model, None)

(* The dialog is closed. *)
Dismiss(f) == flow[f].pc \in {"confirm", "user", "manual"} /\ EndFlow(f)

(* Mutant: the selector has all models. *)
AllModels == {registered[i].model : i \in DOMAIN registered}

(* The models of the selector. *)
Models == {registered[i].model : i \in {j \in DOMAIN registered : registered[j].supported}}

(* The user removes an entry, or changes its options, which reloads it; both  *)
(* happen between jobs here (PrinterDevice has the overlap).                  *)
RemoveEntry(uid) ==
    /\ entries[uid].there /\ job.entry # uid
    /\ entries' = [entries EXCEPT ![uid] = NoEntry]
    /\ run' = [run EXCEPT ![uid] = NewDevice]
    /\ UNCHANGED <<registered, seen, flow, job, label>>

Reload(uid) ==
    /\ entries[uid].there /\ job.entry # uid
    /\ run' = [run EXCEPT ![uid] = Learned(NewDevice, uid, entries[uid].model)]
    /\ UNCHANGED <<registered, seen, flow, entries, job, label>>

-----------------------------------------------------------------------------
(* The first step of an operation, whatever becomes of it later. *)
Begin(uid) == run' = [run EXCEPT ![uid] = Learned(@, uid, entries[uid].model)]

Poll(uid) ==
    /\ entries[uid].there
    /\ Begin(uid)
    /\ UNCHANGED <<registered, seen, flow, entries, job, label>>

(* A label whose payload gives no width is rendered for the head the device   *)
(* knows of, and waits for its turn.                                          *)
Render(uid) ==
    /\ entries[uid].there /\ job = NoJob
    /\ job' = [entry |-> uid, width |-> run[uid].head]
    /\ UNCHANGED <<registered, seen, flow, entries, run, label>>

Smaller(a, b) == IF a < b THEN a ELSE b

(* Its session: fit_to_printhead shrinks what is too wide. *)
PrintLabel ==
    LET uid == job.entry IN
    /\ job # NoJob /\ uid[1] \in Awake
    /\ Begin(uid)
    /\ job' = NoJob
    /\ label' = IF run'[uid].profile = None THEN label
                ELSE [width |-> Smaller(job.width, run'[uid].profile.head),
                      head  |-> run'[uid].profile.head]
    /\ UNCHANGED <<registered, seen, flow, entries>>

(* The printer sleeps, or the session fails. *)
PrintFails ==
    /\ job # NoJob /\ job' = NoJob
    /\ UNCHANGED <<registered, seen, flow, entries, run, label>>

-----------------------------------------------------------------------------
FlowStep(f) ==
    \/ \E p \in Printers : Discovered(f, p)
    \/ Confirm(f) \/ StartUser(f) \/ Dismiss(f)
    \/ \E offer \in flow[f].offers : Pick(f, offer)
    \/ \E typed \in Typed \cup {Garbage}, model \in Models : Submit(f, typed, model)

EntryStep(uid) == RemoveEntry(uid) \/ Reload(uid) \/ Poll(uid) \/ Render(uid)

Next ==
    \/ \E p \in Printers : Advertise(p)
    \/ \E f \in Flows : FlowStep(f)
    \/ \E uid \in Typed : EntryStep(uid)
    \/ PrintLabel \/ PrintFails

Spec == Init /\ [][Next]_vars

-----------------------------------------------------------------------------
Profile == UNION {{registered[i] : i \in DOMAIN registered}, {None}}

TypeOK ==
    /\ registered \in Registries
    /\ seen \in [Printers -> {None} \cup [name : Names, services : Services]]
    /\ \A f \in Flows :
          /\ flow[f].pc \in {"none", "confirm", "user", "manual", "over"}
          /\ flow[f].uid \in Typed \cup {None} /\ flow[f].name \in Names \cup {None}
          /\ flow[f].offers \subseteq [to : Typed, name : Names \cup {None}]
    /\ \A uid \in Configured : uid[1] \in Printers => uid[2] = "upper"
    /\ entries \in [Typed -> [there : BOOLEAN, model : Models \cup {None},
                              title : Names \cup {None}]]
    /\ \A uid \in Typed :
          /\ run[uid].profile \in Profile /\ run[uid].name \in Names \cup {None}
          /\ run[uid].head \in Nat
    /\ job.entry \in Typed \cup {None}

(* The profile for a name is the most specific one, whatever the order of     *)
(* registration (models.py:127).                                              *)
MostSpecific(profile, name) ==
    LET fitting == {pair \in Pairs(registered) : IsPrefix(Upper(pair.prefix), Upper(name))}
    IN  \E best \in fitting :
          /\ profile = best.profile
          /\ \A pair \in fitting : Len(pair.prefix) <= Len(best.prefix)

(* A printer that has an entry keeps this one, with the model it was made     *)
(* for, and gets no second one, until the user removes it: whatever flows     *)
(* were begun by discovery and by hand, and in whichever order they end       *)
(* (test_config_flow.py:51, 115).                                             *)
EntryOf(p) == {<<uid, entries[uid]>> : uid \in {u \in Configured : u[1] = p}}

EntryKept ==
    [][\A p \in Printers :
          EntryOf(p) # {} /\ EntryOf(p)' # {} => EntryOf(p)' = EntryOf(p)]_entries

(* Whichever flow made it, and whatever became of the printer's name, an      *)
(* entry is for a supported model or for a printer that was found by the name *)
(* of one (config_flow.py:165), and its device never goes by a profile that   *)
(* is not supported (parser.py:174).  Not that the printer is of this model,  *)
(* nor that there is one: the manual step takes any text without a colon for  *)
(* an address (config_flow.py:287), and an unsupported printer under a        *)
(* supported model, although user-guide.md:40 has it refused.                 *)
SupportedOnly ==
    \A uid \in Configured :
        /\ entries[uid].model # None => Supported(Get(registered, entries[uid].model))
        /\ entries[uid].model = None =>
               uid[1] \in Printers /\ Supported(Find(Index, entries[uid].title))
        /\ run[uid].profile # None => Supported(run[uid].profile)

(* A device drives its printer by the profile of the model chosen, or else of *)
(* the name it goes by, however often the printer is renamed or something     *)
(* else is heard under its address, and knows the head of that profile.       *)
ProfileFits ==
    \A uid \in Typed : run[uid].profile # None =>
        /\ run[uid].head = run[uid].profile.head
        /\ IF entries[uid].model # None
           THEN run[uid].profile.model = entries[uid].model
           ELSE MostSpecific(run[uid].profile, run[uid].name)

(* A label without a width "fills the label edge to edge" (render.py:55).     *)
FillsLabel == label # None => label.width = label.head
=============================================================================
