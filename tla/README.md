# A TLA+ model of hass-marklife

hass-marklife is a Home Assistant integration that prints labels on Marklife
BLE printers. This directory holds TLA+ modules that model its concurrent core,
TLC configurations that check them on small instances, and TLAPS proofs of
theorems about them. `PROJECT.json` lists components, runs, the code lines each
definition stands for, hazards, findings, theorems, and for each property the
plausible bug ("mutant") that TLC finds it violated by.

Paths below are relative to `src/custom_components/marklife/` unless they begin
with `docs/` or `tests/`.

## 1. The system

Everything runs on one asyncio event loop. Between two `await`s a coroutine is
not interrupted; at an `await`, other tasks, timers and notification callbacks
run. All of the hard behaviour comes from that: state read before an `await`
and used after it, answers that arrive late, and cleanup when any `await` may
raise or be cancelled.

```
 Home Assistant ── setup/unload ──► __init__.py ◄── marklife.print calls
                                        │ one device per printer; domain lock
                                        ▼
             coordinator polls ──► parser.py  MarklifeDevice  ──► listeners
                                        │ device lock; link; reports
                                        ▼
                                    client.py  MarklifeClient   (one per operation)
                                        │ waiters, subscriptions, print loop
                        ┌───────────────┴───────────────┐
                  flow.py credits                protocols/ commands, parsing
                        └───────────────┬───────────────┘
                                   blesession / bleak / the printer
```

| Component (source) | State | Operations | Correct when |
|---|---|---|---|
| Credit-paced sender (`marklife_ble/flow.py`) | banked credits, packet size, time of last grant | `send`, `grant`, `set_packet_size`, `wait_for_credits`, forced credits | bytes arrive in order and complete; credits are conserved; the printer's buffer is overrun by forced credits only; every send ends, unless empty grants string it along |
| Printer client (`marklife_ble/client.py`) | subscriptions, waiters (`_pending`), print/fault flags | `start`, `stop`, queries, `print_bitmap`, RX/CX callbacks | no waiter outlives its request; an answer in time is taken; faults fail the print; nothing stays subscribed that could be unsubscribed; sessions end |
| Notification decoding (`marklife_ble/protocols/common.py`) | none | `parse_response` | answers are told apart |
| Device session owner (`marklife_ble/parser.py`) | device lock, kept link, readings, profile, reports, error count, listeners | `update_device` (battery, then status), `print_image`, `disconnect`, drop callback, `_resolve_profile` | one link at most, none leaked but by a `disconnect()` that fails or comes too early; what is heard is kept; failures are counted and stand; every operation gets its turn |
| Setup, unload, print service (`__init__.py`) | registry, domain lock, service registration | `async_setup_entry`, rollback, `async_unload_entry`, `marklife.print` | service and lock live as long as a printer is loaded; one BLE print at a time; unloaded printers are let go |
| Print sequences (`marklife_ble/protocols/l11.py`, `compressed.py`, `base.py`) | none | build a label's commands: density, enable, raster, feed, stop | the printer can tell data from commands; it prints the label asked for and is left disabled |
| Device profiles (`marklife_ble/models.py`, `marklife_ble/profiles/`) | registered profiles, prefix index | register, match an advertised name, check advertised services | the longest prefix wins whatever the order of registration, unsupported models are refused |
| Imaging and rendering (`marklife_ble/imaging.py`, `render.py`) | none | scale, dither, pack | no wider than the print head, never empty |
| Config flow (`config_flow.py`) | one form per flow | discovery and its confirmation, user step, manual step, options | one entry per printer, kept as it was made, for a supported model |
| Entities (`sensor.py`, `binary_sensor.py`, `image.py`, `entity.py`) | what was written last, the duration timer | added, removed, called by listeners and by the coordinator | connection, count, printing and readings shown are the device's; no timer is left behind |
| blesession, bleak, the printer | external | links, subscriptions, answers | assumed, see below |

How they interact: a poll or a print takes the device lock in `parser.py`, which
opens (or reuses) a link through `ble_session`, makes a fresh `MarklifeClient`
with a fresh flow controller for it, runs queries or a print, calls `stop()`, and
commits a report. A service call takes a domain-wide lock before the device
lock. Notifications call into client and controller while those are suspended.
Unloading calls `disconnect()` without any lock.

Config flows of one printer may run beside each other: one that discovery
started, others that users did. An entry's device learns its model and the width
of its print head only when its printer is awake.

The behaviours that are hard to test are the `hazards` of `PROJECT.json`, each
at its line: grants during a write, MTU changes during a write, starvation and
empty grants that hide it, controllers that follow one another on a kept link,
late answers, a drop and a timeout ready at once, subscribing and unsubscribing
that fail or are cut short, faults in the last wait, a lock object replaced while
someone waits on it, setups that break off or fail beside unloads, `disconnect()`
under an operation or without effect, listeners that are called at the wrong moment
or not at all, flows that end in another order than they began, printers that
sleep or change their name, the width of a first label.

## 2. The modules

| Module | Models | Composition |
|---|---|---|
| `ByteStream` | abstract: what `send()` promises | instantiated by `CreditFlow` |
| `Turns` | abstract: what a lock promises to those who work under it | instantiated by `PrinterDevice` and `PrintService` |
| `CreditFlow` | `flow.py`, the MTU clamp, the printer's side of the credit protocol | refines `ByteStream` |
| `CreditFlowHistory` | a clock observing `CreditFlow` | extends `CreditFlow` |
| `Wire` | `parse_response` by payload kind | used by `PrinterClient` |
| `PrinterClient` | `client.py` over successive sessions | extends `Wire`; a send is a step that ends, by `CreditFlow!SendEnds` |
| `Entities` | `sensor.py`, `binary_sensor.py`: what they have written, and when they are called | used by `PrinterDevice` |
| `PrinterDevice` | `parser.py` over one setup of a printer | extends `Entities`; a session is a stretch that ends, by `PrinterClient!SessionEnds` |
| `PrintService` | `__init__.py` | a print is a stretch that ends, by `PrinterDevice!OpsEnd` |
| `Profiles` | `models.py`: the prefix index and the match of names | used by `PrinterEntry` |
| `PrinterEntry` | `config_flow.py`, `_resolve_profile`, the width of a label | extends `Profiles`; an operation is its first step |
| `PrintJob` | a label's way through `imaging.py`, `protocols/` and the split into preamble and bulk, read by a printer | a command sent is a step; how its bytes are paced is `CreditFlow`, how its print ends `PrinterClient` |
| `*Proofs` | theorems about the module they extend | |
| `MC*` | small instances for TLC | |

The four machines `CreditFlow`, `PrinterClient`, `PrinterDevice` and
`PrintService` are layered: what one guarantees at its boundary is the
assumption of the next one up. The layering is an argument in this text and in
the fairness comments; it is not one composed specification (section 7).

### ByteStream and Turns

The two abstract specifications. `ByteStream` delivers bytes in order and ends a
call with all of them delivered, or fails. In `Turns` a caller waits, takes its
turn when nobody is at work, yields it and may ask for another, and ends once;
its end takes nobody else's turn with it. `PrinterDevice` maps an operation that
is queued for the device lock to `waiting`, one that connects or is in its
session to `working` (`Turn`, `OpsInTurn`); `PrintService` does so with a call
that is queued for the domain lock and one that prints (`CallsInTurn`). Between
two of its targets a call is neither. The lock itself is not in the mapping: it
is the mechanism, turns are what it is for.

### CreditFlow

`pc` is where `send()` is: "loop" between awaits; "writing" and "sent" inside
`await self._write`, before and after the packet reached the printer; "asleep"
and "due" inside a tick's sleep, before and after the tick passed. `offset`,
`credits`, `packetSize` and `silence` are the code's variables (`silence` is the
time since `_last_credit` in ticks, capped at the timeout, beyond which the code
does not tell times apart). The credit is taken and the position advanced in
`WriteDone`, after the await, from whatever grants have made of the counter.
`buffered`, `owed` and `lost` are the printer's side, external: it opens with a
grant of `Window`, owes a credit for each packet it digests, and notifications
may be late, merged or lost. `Abort` covers an exception of the write and a
cancellation at any await. `Reopen` is the next operation on a kept link: a new
controller without credits and at the full packet size, while the printer still
has its predecessor's packets. Credits that were banked and not spent are lost,
or the printer, asked for notifications anew, grants them again. `GrantNothing` is
a grant of zero: `grant()` restarts the starvation timer for it, too, and nothing
bounds how many there are.

### PrinterClient

`pc` names the await a session is at, or "ready" and "check", the stretches
between awaits. `pending` is `_pending`, each entry with the number of its
future: registration order is numeric order. `OnRx`, `OnCx` and `Resolve` are
the callbacks, including the fallback that hands an unparsed payload to a
pending query. `keep` is `keep_connection`: whether the link may outlive a
session. `Raise` is a failing write or a cancellation, with the whole `finally`.
The printer answers requests in the order it got them, at any time while the link
lasts, also after the request was given up; it may ignore them and report
conditions unasked. `heard`, `faultAt`, `pages` and `cut` observe or
record what properties need (`cut`: the link was down when the send began, so
the send can only raise). `live` are the characteristics whose notifications reach
this session's client, `subscribed` is `_subscribed`, and what is still live when
the session ends on a kept link is `stray`. `start_notify` may fail or be cancelled
before or after it took effect (`SubscribeFails`), a `stop_notify` may fail without
`stop()` knowing of it (`Unsubscribe`), and a cancellation may cut `stop()` short
(`StopCancelled`); `excused` are the characteristics that this befell.

### PrinterDevice and Entities

One setup of a printer: the first poll, then polls and prints in any order, then
`disconnect()`. Each operation is new, queued for the lock, connecting, in its
session, or done; how it ended and at which stage is recorded. A poll is in three
stretches: before it asked for the battery, before it asked for the status, and
after (`Ask`); it fails if it heard neither, and what it heard stays. `Leave` is
the `finally` clauses of `_operation` and `print_image` in their order: forget a
link not kept, commit the report unless cancelled, tell the listeners, release
the lock. A failed poll of a sleeping printer (`Asleep`) does not count.

`Entities` keeps `view`, what each group of entities has last written, and
`timer`, whether the duration sensor ticks. `PrinterDevice` does the calling:
the connection listeners (`Notify`) wherever the code calls them, the printing
listeners around a print, and every entity when the coordinator has polled
(`Told`). Platforms are added once the printer is registered (`Registered`: the
first refresh is over, however it went) and removed before `disconnect()`, whose
two halves around its await are `Disconnect` and `Disconnected`. They overlap
whatever operation is queued or running. `Disconnected` forgets the link whether
it was closed or not, for the code keeps an exception and a timeout to itself;
`DisconnectCancelled` is a cancellation at that await, which forgets nothing.
`leaving` records which link was told to close, whether it is still up, and how
many links had been made by then.

### PrintService

Each entry walks through setup, rollback and unload, one action per stretch
between awaits; `registry` is `hass.data[DOMAIN]`, `lock` the number of the Lock
object in `hass.data` (0 if none) and `held` the set of Lock objects held, so
that a call can wait on one object while another has replaced it. A call resolves
its targets, renders, queues, prints, and goes on with its next target.
`SetupBreaks` is an exception or a cancellation at the first await of a setup,
which stands before the `try`: nothing is undone, and the entry is "broken", from
where it may be set up again. So it is when a second cancellation ends a rollback
(`RollbackBreaks`); an unload that is cancelled (`UnloadBreaks`) leaves an entry
that cannot be set up again, like one that a platform refuses. `Disconnect` is the
device's `disconnect()`, which may leave the link up; `loose` are the links that
are up for this reason, or because a call connected a device after it was let go
(`LetGo`). A poll that is under way during an unload connects the same device in
the same way, so polls are left to `PrinterDevice`. `OverlapEntries` and
`OverlapJobs` restrict what the environment overlaps, to tell what holds always
from what holds only in turn.

### Profiles and PrinterEntry

A name is a short sequence of letters, a profile a record with its prefixes.
The index of `models.py` is a set: every prefix with the place of its
registration (`Pairs`), in the order `_reindex` sorts them in (`Precedes`);
`Find` is the match, the first entry of the index that fits. `Contradicts` is the
check of advertised services. `flow` is each config flow: its step, its
unique id and what its form offers, as it was when the form was shown; so a form
can be answered when the printer is no longer free. What is typed into a form
without offers is a printer's address in either case, a text without a colon
(`Texts`), which becomes an entry under itself, or something that is asked for
again (`Garbage`). Home Assistant's flow manager
is external: an entry aborts the other flows of its unique id (`CreateEntry`),
and one that is in progress keeps discovery from starting another. `run` is the
device of each entry: its profile, the name it goes by, its head width. `Learned`
is what the first step of an operation finds out (`_resolve_profile`), nothing
while the printer sleeps. `Render` reads the width before the session that learns
it, as `_print_on_entry` does.

### PrintJob

What is on the wire, where the machines above ask how it gets there. `Fit`,
`Raster`, `L11Sequence` and `CompressedSequence` are the pure functions of
`imaging.py` and `protocols/`: a command is its label, the operand bytes that
matter, its size and its bulk flag, so that 8-bit and 16-bit operands are cut as
the code cuts them while pixels and the zlib stream are only sizes. A print
sends the preamble, then everything from the first bulk command on
(`_split_at_bulk`), once per copy. `BreakOff` ends it before a command or one
byte into it or before its end. `Feed` and `Obey` are the printer, external:
it counts the bytes that a header declares, keeps darkness and "enabled" between
prints, and forgets a broken-off command when its link is lost. `Route` is the
choice between the kept link and a new one. `clean` records whether the printer
was at the start of a command when the print began.

## 3. What the runs check

All bounds are CONSTANTS of the `.cfg` files. Deadlock checking is off where the
bounded system comes to an end: all sends, sessions, setups, calls, operations or
prints allowed have been made. It is on in the two runs of `PrinterEntry`, where
something can always happen.

| Run | Instance | Shows |
|---|---|---|
| `credit_flow` | window 2, timeout 2 ticks, packets of 1 or 2 bytes, 2 sends, each by a controller of its own or by one, any number of empty grants; fair | `CreditConservation`, `NoOverrun` whatever the interleaving; the sender implements `ByteStream` (`StreamSpec`); forced credits are a timeout apart (`ForcedSpacing`); every send ends, also with a silent printer, unless the printer strings it along with empty grants for ever (`SendEnds`) |
| `client_sessions` | 2 sessions on a link each or on a kept one, up to 3 requests, 2 copies, 1 report; fair | waiters, answers, faults, copies, subscriptions: `WaiterDiscipline`, `NothingMissed`, `AnswerFits`, `OkMeansPrinted`, `FaultSticks`, `NoStrayHandler`; a page's confirmation is its own unless the link was kept (`ConfirmIsOwn`); every session ends (`SessionEnds`) |
| `print_service` | 2 printers, 2 calls, all overlaps, setups and unloads that break off, links that do not close; fair | `ServiceWhileLoaded`, `LockGone`, `OrphanClosed`, and every call ends (`JobsEnd`) |
| `print_service_in_turn` | 2 printers set up up to twice, 2 calls, nothing else while one is set up or unloaded | the service implements `Turns` (`CallsInTurn`); `SharedInTurn` |
| `device` | 2 polls and a print, platforms that come and go, `disconnect()` beside them all, which may fail or be cancelled; fair | the device implements `Turns` (`OpsInTurn`); one link and no leak (`LinkKnown`, `FreeWhenIdle`, `OrphansAreLate`); what is shown is what is (`ConnectionShown`, `PrintingShown`, `ReadingsShown`, `ErrorsCounted`); every operation ends (`OpsEnd`) |
| `print_job` | 2 prints of 0 or 2 copies, a printer of each family and density command | `LabelsAreOwn`, `CopiesPrinted`, `Understood` |
| `printer_entry` | 1 printer with four names, three profiles registered in two orders, 3 flows, a text that is no printer's address | `EntryKept`, `SupportedOnly`, `ProfileFits` |

Why the bounds are enough. In `credit_flow` a window of two allows one packet in
the buffer, one on the air and a grant of two at once; the second send starts
from banked credits, or from a new controller, and a printer that is not idle;
MTU values shrink, grow and exceed the packet size. In the client, a third
request follows one that was answered late and one given up, in a second session
on the same link; two polls are the least that tells a first wait from the last.
In the service, two printers are the least where "the last one" and "another
one" differ, and two setups the least where an old lock, device or link meets a
new one. In the device, three operations are the least where one succeeds between
a failure and the next, and where a lock passes on twice. In a print job, two
prints are the least where one inherits what another left; the images are not a
multiple of 8 wide, wider than every head and flat, or too high for the header,
one height is 256; a density is off the map and over a byte; a packed size is
over 16 bits. In `printer_entry` everything is indexed by the printer and flows
share nothing else, so one printer is enough; three flows are a discovery and two
users, or the other way round. Two of the prefixes begin with a third one, one is
written with a small letter, one belongs to an unsupported profile; a name
matches none. One text is enough, for texts are not told apart.

### Violations found

Five runs state what the code's comments, docs or tests say and find it violated
by what the code does:

- `client_late_answer` (`AnswerIsOwn`, `marklife_ble/client.py:48`): "anything
  unrecognised while such a query is pending is the answer to it". A late answer
  to a query that timed out is taken for the next query's answer; identity
  values are then cached for good.
- `client_fault_hidden` (`FaultReported`, `tests/.../test_client.py:164`): a
  fault that arrives in the last half-second wait, followed by a confirmation in
  the same wait, leaves the print successful: `_wait_for_print_result` returns
  without looking at `_fault` again. `FaultSticks` shows that this is the only
  way to miss one.
- `print_service_overlap` (`OneBleJob`, `__init__.py:251`): the last unload pops
  the lock while a call waits on the Lock object; after a new setup another call
  waits on its successor, and both print at once.
- `device_orphan` (`DisconnectFinal`, `tests/.../test_init.py:43`): `disconnect()`
  takes no lock, so an operation that is queued or connecting when the entry is
  unloaded connects afterwards, and with `keep_connection` the link stays up. The
  run excuses a link that would not close; `OrphansAreLate` in the `device` run
  shows that there is no third way.
- `label_width` (`FillsLabel`, `render.py:54`): "a payload that omits ``width``
  fills the label edge to edge". The width of a label is read before the session
  that resolves the profile (`__init__.py:234`), so the first label on a printer
  that slept through its setup is 384 dots wide on a head of 576.

Other deviations met on the way are hazards with notes in `PROJECT.json`:

- The starvation timer runs from the last grant, so the first forced credit of a
  dry spell may come without a wait (`docs/user-guide.md:60` says otherwise).
- `grant()` restarts the timer for an empty grant, too: a printer that sends one
  more often than the timeout holds `send()` for ever, and no credit is forced
  (`docs/user-guide.md:60`). `SendEnds` names this exception, and says that there
  is no other.
- `disconnect()` forgets a link that it could not close (`marklife_ble/parser.py:285`),
  `stop()` a characteristic it could not unsubscribe (`marklife_ble/client.py:122`):
  nothing in the code looks for them later, but a new setup closes stale links.
- A setup that fails or is cancelled at its first await (`__init__.py:100`) leaves
  the lock it has made (`LockGone` names this exception).
- The printing sensor is on from the moment a print has the device lock, through
  connecting and under a print that cannot connect; `docs/troubleshooting.md:34`
  has it on "while raster data is actively transmitting". `PrintingShown` says what
  the code does.
- A poll that is refused for want of a profile counts as an error, although it
  never had the connection `docs/troubleshooting.md:40` speaks of.
- A bare level byte of 75 or 79 parses as a confirmation.
- The rollback of a failed setup removes the lock and leaves the service, and
  either cleanup can take the lock from a setup in progress (`SharedInTurn` holds
  with one setup or unload at a time).
- A continuous label has no greatest height, and the header of a raster has 16
  bits for it, so an L11 printer reads the rows beyond as commands (`Understood`
  and `Tellable` name this exception).
- The manual step offers whatever is in sight under any supported model, an
  unsupported printer too (`docs/user-guide.md:40`: "the integration will
  explicitly inform you"), and takes any text without a colon for an address.
  `SupportedOnly` says that an entry's model is supported, not that it is the
  printer's or that there is a printer.
- A reload makes a new device, which takes the profile of the name its printer has
  by then (`ProfileFits` follows that name).
- Unique ids of entities contain the device's name (`entity.py:12`), which is a
  placeholder until the printer was heard; a status byte outside the table is
  named `unknown_xx`, which is no option of the status sensor (`sensor.py:44`).

## 4. Fairness

Weak fairness throughout, and only where the event loop, a timer or a timeout
justifies it.

- `CreditFlow` (`FairSpec`, and `HFairSpec` with the clock): the sender's steps
  (the loop runs what is ready), `Tick` (time passes), `Transmit` (a write without
  response is taken by the radio or raises). Nothing is assumed of the printer:
  no grant, no digestion, and not that it stops sending empty grants, for which
  `SendEnds` has its exception (`StrungAlong`).
- `PrinterClient`: the client's own steps. A send that cannot succeed raises
  (`SendRaises`); cancellation is never counted on, and the printer need not
  answer.
- `PrinterDevice`: each operation's steps and the end of a disconnect, which have
  timeouts underneath; no cancellation of a waiting operation is assumed.
- `PrintService`: each entry's and each call's steps; renders and prints end.
- `PrintJob` and `PrinterEntry` state safety only, and no fairness.

## 5. What is proved

TLAPS proves these for every value of the constants that satisfies the modules'
named ASSUMEs (types, disjointness, positive bounds).

`CreditFlowProofs`. `TypeCorrect`, `Conservation`, `Overrun`, `Ordered`, and
`Refinement` (`Spec => StreamSpec`), for profiles with and without credits and any
succession of controllers. The inductive invariant `IInv` adds to the types what
the checked invariants leave out: the packet in flight is the slice at the
position (`PacketOK`), bytes are left exactly while sending (`PositionOK`, why a
return means all was sent), a packet in flight has its credit banked (`Paced`,
why the counter never goes negative although it is decremented after the await),
how far the printer got (`ReceivedOK`, `ArrivedOK`) and how a failed send leaves
it (`FailedOK`). Conservation then follows from its own induction over grants and
writes. The refinement maps `Transmit` to `Deliver`, `WriteDone` of the last
packet to `Return`, `Abort` to `Fail`, everything else to stutters.

`CreditFlowHistoryProofs`. `ForcedApart`, an action property of the clock: a step
that forces a credit comes a timeout or more after the last forced one. The
invariant (`TimersOK`) bounds `silence` by the time since then: both start at 0
when a credit is forced, and only `silence` is ever set back.

`PrinterClientProofs`. `TypeCorrect`, `WaitersEnd`, `AnswersFit`, `FaultsStick`,
`OkPrinted`, `NoStray`; `Heard`, an action property (`NothingMissed`) with an
assumption of its own, `AnswersParse`: an answer parses as its kind or not at all
(a level byte of 75 breaks it: there the query really times out); and
`ConfirmedByOwn`. The invariant says that a running
request's waiter is registered, alone, until it is answered (`WaiterOK`), what
the control state says of flags and pages (`PrintOK`), and that a fault before
the last wait is still there for `CheckFault` (`FaultOK`). The payload sets and
the tables of `Wire` are used only as far as `Kind` goes, so the results hold for
any payloads. `ConfirmedByOwn` assumes that only a print is answered by a success
payload and that no report parses as one (`SuccessIsAnAnswer`); its invariant
(`OwnOK`) follows the printer's queue: on a link of the session's own, what is
still to be answered are the pages not yet confirmed. The numbers of futures
stay in range because copies still to come have theirs left (`CountsOK`).

`PrintServiceProofs`. `ServiceStays` and `LockGoes`, for any number of printers
and calls and any overlap: the invariant ties the registry to the stages of the
entries (`RegistryOK`) and a present lock to an entry that is not absent, which is
a broken one if all are gone (`LockOK`). `OrphansClosed` holds whatever overlaps,
breaks off or does not close: a device that has a link, or that a call means to
print on, was made by a setup that came to register it (`LinksOK`), and its link
is noted as loose when it outlives that, or comes after. `OneAtATime` assumes
`~OverlapJobs`, `SharedStays` assumes `~OverlapEntries`: what is held is held by
one call (`LocksOK`), a call that prints does so on the lock that is there
(`CallsOK`), and only one entry is in transition (`TurnsOK`). `LocksAreOwned` is
what remains of mutual exclusion whatever overlaps: every Lock object that is held
is held by exactly one call, which is printing, so no end of a call leaks one;
`print_service_overlap` fails only because there can be two. `TypeCorrect` needs a
count: a setup makes at most one lock, so there are no more locks than devices set
up so far (`SetUp`, `CountsOK`), and `Entries` must be finite. `TurnsAreTaken` is
the refinement: with `~OverlapJobs`, `StartPrint` is `Take`, for a lock that is
free is then the only one, `Printed` is `Yield` or `End`, and steps of entries are
stutters.

`PrinterDeviceProofs`. `PrintingIsShown`, `ReadingsAreShown`, `LinkIsKnown`,
`IsFreeWhenIdle`, `ConnectionIsShown` and `OrphansComeLate` need no assumption:
they hold while `disconnect()` overlaps operations, fails or is cancelled.
`LinkIsKnown` speaks of the time before it, `OrphansComeLate` of the time after.
The invariant says who holds the lock and what it makes of an operation's stage
(`OpsOK`), what a print shows (`PrintingOK`), that readings not yet written belong
to a poll that will write them (`ReadingsOK`), where a link may be at each stage
(`LinkOK`, `LeavingOK`) and when the view of it is up to date (`ConnectionOK`).
`ErrorsAreCounted` and `TypeCorrect` count sets, and hold whatever overlaps: the
error count is the cardinality of the failures that count, which a failing
operation, done for good, joins once (`ErrorsOK`), and each link was made by an
operation of its own (`MadeOK`). `TurnsAreTaken` (`Spec => OpsInTurn`) also holds
whatever overlaps: `disconnect()` may take the link from an operation, never its
turn.

`PrinterEntryProofs`. `EntriesStay`, an action property, for any printers, flows,
texts, names and profiles with distinct models. The invariant is about forms
(`FormOK`): a form shown earlier offers only what was supported then, and what it
offers does not change while the printer does; so an entry is for a supported
model or the name of one (`EntrySupported`). `FindFits` is about the match alone:
among the entries of the index that fit a name one comes first, since a name
bounds the length of what fits and places are numbers (`FirstFits`), so the
profile found has a longest fitting prefix, for every registry and name.
`ProfilesFit`, `OnlySupported` and `TypeCorrect` then follow a device
(`DeviceOK`): it has the supported profile of the model of its entry or of its own
name, and the head of that profile, through learning, renaming, removal and
reload; an entry and its device change together (`DeviceChanges`).

`PrintJobProofs`. `JobTyped`, `OwnLabels`, `AllCopies` and `NeverGarbled`, for any
printers, images, densities and copies. The lemmas about data come first: two and
four bytes give a number back (`TwoBytes`, `FourBytes`), so a printer reads in a
header what was put there (`HeaderTells`); what is fitted to a head can be
printed on it (`Fitted`); and at which place a sequence of either family sets the
density, enables the engine, prints, and disables it (`Shaped`), so that the bulk
stream begins at the raster (`BulkAtRaster`). The invariant follows a copy by the
number of commands it has sent (`Sent`): what is left is the rest of its sequence
(`TodoOK`), and on a clean link the engine is exactly that far (`EngineOK`).

Only model-checked: the four liveness properties (`SendEnds`, `SessionEnds`,
`JobsEnd`, `OpsEnd`), which need fairness and ENABLED. Every safety and action
property of the passing runs, and each of the three refinements, is a theorem.
What the five violations state is false, and no theorem; the theorems about the
same code say what holds instead, or under which hypothesis (`FaultsStick`,
`OneAtATime`, `LocksAreOwned`, `OrphansComeLate`). The hypotheses are the
switches of the environment that the runs set, too (`OverlapJobs`,
`OverlapEntries`), and the two on payloads above.

## 6. Assumptions and what is left out

- The libraries are external: `ble_session` hands over a link, reuses the offered
  one if it is up, and keeps or closes it afterwards; a link that goes down takes
  its subscriptions with it; a link that is subscribed anew calls the new handler
  (or `start_notify` raises). Disconnecting, subscribing and unsubscribing may
  fail, with or without effect. Home Assistant's flow manager and its coordinator
  are as `config_flow.py`, `__init__.py` and the entities rely on them.
- Cancellation is modelled at every await of a send, a query, a print,
  `start_notify`, `stop()`, a setup, its rollback and an unload, of
  `disconnect()`, while waiting for the device lock and while connecting. A link
  that `ble_session` keeps or closes when its session is cancelled is `Close` of
  `PrinterDevice`.
- `_query` awaits its cancelled helper tasks before it looks at the outcome
  (`marklife_ble/client.py:263`); the two are one step, which changes no outcome.
- The printer answers in the order it was asked. Duplicated notifications are not
  modelled: the GATT link delivers in order or drops.
- Timeouts are nondeterministic ("the timer may fire now"), except the starvation
  timer and the print deadline, whose lengths the properties depend on.
- A device's name is taken to be the name it advertises. A text without a colon
  that is typed for an address becomes an entry under itself, as in the code; that
  it could be another name of a printer that has an entry (its address without
  colons) is left out, and `EntryKept` is about unique ids of one spelling.
- Not modelled: callbacks for progress and status, debug output, the values of
  readings, identities and options, the image entity, device information, the
  value of the print duration, how service targets are resolved, pixels and
  dithering, rendering, and the commands no print uses (calibration, back-feed,
  self-test).
- The printer of `PrintJob` is as simple as the code's comments take it to be. It
  does not model what a printer does with the bytes it misreads, nor how its paper
  type outlasts a print (a continuous print of the compressed family sets none,
  `marklife_ble/protocols/compressed.py:121`).

## 7. Plan

Done, in this order: `ByteStream`, `CreditFlow` (with proofs and refinement),
`Wire`, `PrinterClient`, `PrintService`, `PrinterDevice`, `PrintJob`; then
controllers and sessions that follow one another on a kept link, `Entities`,
`Profiles` and `PrinterEntry`; then proofs for every component; then `Turns`, which
both locks implement, and proofs of every property that is not a liveness property.

Next:

1. A composed specification of `PrintService` and `PrinterDevice`, in which an
   unload calls the `disconnect()` of the device and a call its `print_image`, in
   place of the argument about layers in section 2.
2. For `label_width`, what does hold: a label fills the head once the printer was
   heard before it was rendered and is driven by the same profile still.
