------------------------- MODULE PrinterDeviceProofs -------------------------
(* Proofs about PrinterDevice for any number of polls and prints.             *)
EXTENDS PrinterDevice, FiniteSetTheorems, TLAPS

Active   == {"connecting"} \cup Inside
PcStates == Ended \cup {"queued"} \cup Active
Results  == {"none", "ok", "failed", "cancelled"}

(* Only the operation that holds the lock gets anywhere, and no operation has *)
(* a result before its end.                                                   *)
OpsOK ==
    /\ pc \in [Ops -> PcStates]
    /\ result \in [Ops -> Results]
    /\ \A o \in Ops : result[o] # "none" => pc[o] = "done"
    /\ lock \in Ops \cup {Nobody}
    /\ \A o \in Ops : lock = o <=> pc[o] \in Active

(* The flag and the timer follow the lock. *)
PrintingOK ==
    /\ printing \in BOOLEAN
    /\ printing <=> lock \in Prints
    /\ timer \in BOOLEAN
    /\ timer => entities = "added" /\ printing
    /\ entities = "added" => view.printing = printing

(* A reading that is not shown is one of a poll that is not over, or that was *)
(* cancelled.                                                                 *)
Fresh(shown, poll) ==
    \/ shown = poll
    \/ poll \in Polls /\ (pc[poll] \in Inside \/ result[poll] = "cancelled")

ReadingsOK ==
    /\ readings \in [battery : Polls \cup {Nobody}, status : Polls \cup {Nobody}]
    /\ entities = "added" =>
           /\ Fresh(view.battery, readings.battery)
           /\ Fresh(view.status, readings.status)

IInv == OpsOK /\ PrintingOK /\ ReadingsOK

(* Until disconnect() the one link that is up is the one the device knows and *)
(* the operation that holds the lock works on.  Without keep_connection every *)
(* link is that of a session, whatever disconnect() makes of it.              *)
LinkOK ==
    /\ link \in [Ops -> Nat] /\ client \in Nat /\ made \in Nat
    /\ leaving.pc = "no" =>
          /\ up \subseteq {client}
          /\ \A o \in Ops : pc[o] \in Active => link[o] = client
    /\ ~keep => \A l \in up : \E o \in Ops : pc[o] \in Inside /\ link[o] = l

(* From its first step on disconnect() has one link to close, and every other *)
(* one that comes up is newer.  The entities are gone by then.                *)
LeavingOK ==
    /\ leaving \in [pc : {"no", "closing", "gone"}, link : Nat, made : Nat]
    /\ leaving.pc # "no" =>
          /\ entities # "added"
          /\ leaving.made <= made
          /\ \A l \in up : l = leaving.link \/ l > leaving.made

ConnectionOK == entities = "added" => view.connected = (client \in up)

LinkIInv == OpsOK /\ LinkOK /\ LeavingOK /\ ConnectionOK

-----------------------------------------------------------------------------
LEMMA InitIInv == Init => IInv
<1> SUFFICES ASSUME Init PROVE IInv
  OBVIOUS
<1> USE PrinterDeviceAssumption DEF Init, EntitiesInit
<1>1. OpsOK
  BY DEF OpsOK, PcStates, Ended, Active, Inside, Results, Ops
<1>2. PrintingOK
  BY DEF PrintingOK
<1>3. ReadingsOK
  BY DEF ReadingsOK
<1> QED BY <1>1, <1>2, <1>3 DEF IInv

(* What the entities show after the listeners of the connection were called. *)
LEMMA NotifyShows ==
    ASSUME Notify, entities = "added"
    PROVE  /\ view'.connected = (client' \in up')
           /\ view'.errors = errors'
           /\ view'.printing = view.printing
           /\ view'.battery = view.battery
           /\ view'.status = view.status
  BY DEF Notify, Written, Look, ConnectionFields, PrintingFields, EveryField

(* And after the end of an operation: only a poll that was not cancelled has  *)
(* its readings shown.                                                        *)
LEMMA TellShows ==
    ASSUME NEW o \in Ops, NEW how, Tell(o, how), entities = "added"
    PROVE  /\ view'.connected = (client' \in up')
           /\ view'.errors = errors'
           /\ o \in Prints => view'.printing = printing'
           /\ o \in Polls => view'.printing = IF how = "cancelled" THEN view.printing
                                              ELSE printing'
           /\ o \in Polls /\ how # "cancelled" =>
                  view'.battery = readings'.battery /\ view'.status = readings'.status
           /\ o \in Prints \/ how = "cancelled" =>
                  view'.battery = view.battery /\ view'.status = view.status
<1> USE PrinterDeviceAssumption DEF Ops, ConnectionFields, PrintingFields, EveryField
<1>1. view' = Written(Told(o, how), Look')
  BY DEF Tell
<1>2. CASE o \in Prints
  BY <1>1, <1>2 DEF Written, Look, Told
<1>3. CASE o \in Polls /\ how = "cancelled"
  BY <1>1, <1>3 DEF Written, Look, Told
<1>4. CASE o \in Polls /\ how # "cancelled"
  BY <1>1, <1>4 DEF Written, Look, Told
<1> QED BY <1>2, <1>3, <1>4

-----------------------------------------------------------------------------
(* What each operation does to its own control state, and to the lock. *)
LEMMA OpsNext == OpsOK /\ [Next]_vars => OpsOK'
<1> SUFFICES ASSUME OpsOK, [Next]_vars PROVE OpsOK'
  OBVIOUS
<1> USE PrinterDeviceAssumption DEF Ops, PcStates, Results, Ended, Active, Inside
<1>1. ASSUME NEW o \in Ops, Request(o) \/ GiveUp(o) \/ Enter(o) PROVE OpsOK'
  <2>1. CASE Request(o)
    BY <2>1 DEF OpsOK, Request
  <2>2. CASE GiveUp(o)
    BY <2>2 DEF OpsOK, GiveUp
  <2>3. CASE Enter(o)
    BY <2>3 DEF OpsOK, Enter
  <2> QED BY <1>1, <2>1, <2>2, <2>3
<1>2. ASSUME NEW o \in Ops, NEW where \in {"unreachable", "session"}, Refuse(o, where)
      PROVE  OpsOK'
  BY <1>2 DEF OpsOK, Refuse, Leave
<1>3. ASSUME NEW o \in Ops, Reuse(o) \/ Connect(o) PROVE OpsOK'
  BY <1>3 DEF OpsOK, Reuse, Connect
<1>4. ASSUME NEW o \in Ops, NEW how \in {"failed", "cancelled"}, ConnectFails(o, how)
      PROVE  OpsOK'
  BY <1>4 DEF OpsOK, ConnectFails, Leave
<1>5. ASSUME NEW o \in Ops,
             Ask(o, "battery", "session", "status") \/ Ask(o, "status", "status", "read")
      PROVE  OpsOK'
  BY <1>5 DEF OpsOK, Ask
<1>6. ASSUME NEW o \in Ops, NEW how \in {"ok", "failed", "cancelled"}, Close(o, how)
      PROVE  OpsOK'
  BY <1>6 DEF OpsOK, Close, Leave
<1>7. CASE UNCHANGED <<ops, lock>>
  BY <1>7 DEF OpsOK, ops
<1>8. CASE \/ \E l \in up : Drop(l)
           \/ AddPlatforms \/ RemovePlatforms
           \/ Disconnect \/ Disconnected \/ DisconnectCancelled
  BY <1>7, <1>8 DEF Drop, AddPlatforms, RemovePlatforms, Disconnect, Disconnected,
                    DisconnectCancelled, ops
<1>9. CASE UNCHANGED vars
  BY <1>7, <1>9 DEF vars
<1> QED BY <1>1, <1>2, <1>3, <1>4, <1>5, <1>6, <1>8, <1>9 DEF Next, Step

-----------------------------------------------------------------------------
(* The printing flag and what shows it. *)
LEMMA PrintingNext == OpsOK /\ PrintingOK /\ [Next]_vars => PrintingOK'
<1> SUFFICES ASSUME OpsOK, PrintingOK, [Next]_vars PROVE PrintingOK'
  OBVIOUS
<1> USE PrinterDeviceAssumption DEF Ops, Ended, Active, Inside
<1>1. ASSUME NEW o \in Ops, Enter(o) PROVE PrintingOK'
  <2>1. lock' = o /\ entities' = entities /\ ~printing
    BY <1>1 DEF Enter, PrintingOK
  <2>2. CASE o \in Prints
    <3>1. printing' = TRUE
      BY <1>1, <2>2 DEF Enter
    <3>2. entities = "added" => view'.printing = printing' /\ timer' = TRUE
      BY <1>1, <2>2 DEF Enter, Written, Look, TimerAfter, PrintingFields,
                        ConnectionFields, EveryField
    <3>3. entities # "added" => timer' = FALSE
      BY <1>1, <2>2 DEF Enter, TimerAfter, PrintingOK
    <3> QED BY <2>1, <2>2, <3>1, <3>2, <3>3 DEF PrintingOK
  <2>3. CASE o \in Polls
    <3>a. o \notin Prints
      BY <2>3
    <3>1. o \notin Prints
      BY <2>3
    <3>2. printing' = (o \in Prints)
      BY <1>1 DEF Enter
    <3>3. printing' \in BOOLEAN
      BY <3>2
    <3>4. ~printing'
      BY <3>1, <3>2, Zenon
    <3>5. view' = view /\ timer' = timer
      BY <1>1, <3>1 DEF Enter
    <3>6. timer = FALSE
      BY <2>1 DEF PrintingOK
    <3> QED BY <2>1, <3>1, <3>3, <3>4, <3>5, <3>6 DEF PrintingOK
  <2> QED BY <2>2, <2>3
<1>2. ASSUME NEW o \in Ops, NEW how, NEW where, Leave(o, how, where),
             lock = o \/ lock = Nobody
      PROVE  PrintingOK'
  <2>1. printing' = FALSE /\ lock' = Nobody /\ entities' = entities
    BY <1>2 DEF Leave
  <2>2. timer' \in BOOLEAN /\ ~timer'
    <3>1. o \in Polls => timer' = timer /\ ~printing
      BY <1>2 DEF Leave, Tell, PrintingOK
    <3>2. o \in Prints => timer' = IF entities = "added" THEN FALSE ELSE timer
      BY <1>2 DEF Leave, Tell, TimerAfter
    <3>3. CASE o \in Polls
      BY <3>1, <3>3 DEF PrintingOK
    <3>4. CASE o \in Prints
      BY <3>2, <3>4 DEF PrintingOK
    <3> QED BY <3>3, <3>4
  <2>3. entities = "added" => view'.printing = FALSE
    <3> SUFFICES ASSUME entities = "added" PROVE view'.printing = FALSE
      OBVIOUS
    <3>1. Tell(o, how)
      BY <1>2 DEF Leave
    <3>2. o \in Polls => view.printing = FALSE
      BY <1>2 DEF PrintingOK
    <3> QED BY <2>1, <3>1, <3>2, TellShows
  <2> QED BY <2>1, <2>2, <2>3 DEF PrintingOK
<1>3. ASSUME NEW o \in Ops, NEW how, NEW where,
             Refuse(o, where) \/ ConnectFails(o, how) \/ Close(o, how)
      PROVE  PrintingOK'
  <2>1. lock = o \/ lock = Nobody
    BY <1>3 DEF OpsOK, Refuse, ConnectFails, Close
  <2> QED BY <1>2, <1>3, <2>1 DEF Refuse, ConnectFails, Close
<1>4. ASSUME Notify, UNCHANGED <<lock, printing, timer, entities>> PROVE PrintingOK'
  BY <1>4, NotifyShows DEF PrintingOK
<1>5. CASE UNCHANGED <<lock, printing, timer, entities, view>>
  BY <1>5 DEF PrintingOK
<1>6. ASSUME NEW o \in Ops, Request(o) \/ GiveUp(o) \/ Reuse(o) \/ Connect(o)
      PROVE  PrintingOK'
  BY <1>4, <1>5, <1>6 DEF Request, GiveUp, Reuse, Connect, entityVars
<1>7. ASSUME NEW o \in Ops,
             Ask(o, "battery", "session", "status") \/ Ask(o, "status", "status", "read")
      PROVE  PrintingOK'
  BY <1>5, <1>7 DEF Ask, entityVars
<1>8. CASE \/ \E l \in up : Drop(l)
           \/ Disconnect \/ Disconnected \/ DisconnectCancelled
  BY <1>4, <1>5, <1>8 DEF Drop, Disconnect, Disconnected, DisconnectCancelled,
                          entityVars
<1>9. CASE AddPlatforms \/ RemovePlatforms
  <2>1. CASE AddPlatforms
    <3>1. entities = "none" /\ view'.printing = printing
      BY <2>1 DEF AddPlatforms, AddEntities, Look
    <3>2. lock' = lock /\ printing' = printing /\ timer' = timer
      BY <2>1 DEF AddPlatforms, AddEntities
    <3>3. timer = FALSE
      BY <3>1 DEF PrintingOK
    <3> QED BY <3>1, <3>2, <3>3 DEF PrintingOK
  <2>2. CASE RemovePlatforms
    <3>1. entities' = "removed" /\ timer' = FALSE /\ lock' = lock /\ printing' = printing
      BY <2>2 DEF RemovePlatforms, RemoveEntities
    <3> QED BY <3>1 DEF PrintingOK
  <2> QED BY <1>9, <2>1, <2>2
<1>10. CASE UNCHANGED vars
  BY <1>5, <1>10 DEF vars, entityVars
<1> QED BY <1>1, <1>3, <1>6, <1>7, <1>8, <1>9, <1>10 DEF Next, Step
-----------------------------------------------------------------------------
(* A step that hears and shows nothing keeps the readings in order, as long   *)
(* as no poll but a cancelled one leaves its session.                         *)
Abides ==
    \A u \in Polls :
        /\ pc[u] \in Inside => pc'[u] \in Inside \/ result'[u] = "cancelled"
        /\ result[u] = "cancelled" => result'[u] = "cancelled"

LEMMA ReadingsStay ==
    ASSUME ReadingsOK, Abides, UNCHANGED <<entities, readings>>,
           entities = "added" => view'.battery = view.battery /\ view'.status = view.status
    PROVE  ReadingsOK'
<1> SUFFICES ASSUME entities = "added"
             PROVE  /\ Fresh(view.battery, readings.battery)'
                    /\ Fresh(view.status, readings.status)'
  BY DEF ReadingsOK
<1>1. Fresh(view.battery, readings.battery)'
  BY DEF ReadingsOK, Fresh, Abides
<1>2. Fresh(view.status, readings.status)'
  BY DEF ReadingsOK, Fresh, Abides
<1> QED BY <1>1, <1>2

(* What was heard, and what of it is shown. *)
LEMMA ReadingsNext == OpsOK /\ ReadingsOK /\ [Next]_vars => ReadingsOK'
<1> SUFFICES ASSUME OpsOK, ReadingsOK, [Next]_vars PROVE ReadingsOK'
  OBVIOUS
<1> USE PrinterDeviceAssumption DEF Ops, Ended, Active, Inside
<1>1. ASSUME NEW o \in Ops, Request(o) \/ GiveUp(o) PROVE ReadingsOK'
  <2>1. Abides
    BY <1>1 DEF Abides, OpsOK, Request, GiveUp
  <2>2. UNCHANGED <<entities, readings, view>>
    BY <1>1 DEF Request, GiveUp, entityVars
  <2> QED BY <2>1, <2>2, ReadingsStay
<1>2. ASSUME NEW o \in Ops, Enter(o) PROVE ReadingsOK'
  <2>1. Abides
    BY <1>2 DEF Abides, OpsOK, Enter
  <2>2. UNCHANGED <<entities, readings>>
    BY <1>2 DEF Enter
  <2>3. entities = "added" => view'.battery = view.battery /\ view'.status = view.status
    BY <1>2 DEF Enter, Written, PrintingFields, ConnectionFields, EveryField
  <2> QED BY <2>1, <2>2, <2>3, ReadingsStay
<1>3. ASSUME NEW o \in Ops, NEW how, NEW where, Leave(o, how, where), pc[o] # "done"
      PROVE  ReadingsOK'
  <2>1. Tell(o, how) /\ UNCHANGED <<entities, readings>>
    BY <1>3 DEF Leave
  <2>2. CASE o \in Polls /\ how # "cancelled"
    BY <2>1, <2>2, TellShows DEF ReadingsOK, Fresh
  <2>3. CASE o \in Prints \/ how = "cancelled"
    <3>1. Abides
      BY <1>3, <2>3 DEF Abides, OpsOK, Leave
    <3> QED BY <2>1, <2>3, <3>1, TellShows, ReadingsStay
  <2> QED BY <2>2, <2>3
<1>4. ASSUME NEW o \in Ops, NEW how, NEW where,
             Refuse(o, where) \/ ConnectFails(o, how) \/ Close(o, how)
      PROVE  ReadingsOK'
  BY <1>3, <1>4 DEF Refuse, ConnectFails, Close
<1>5. ASSUME NEW o \in Ops, Reuse(o) \/ Connect(o) PROVE ReadingsOK'
  <2>1. Abides
    BY <1>5 DEF Abides, OpsOK, Reuse, Connect
  <2>2. Notify /\ UNCHANGED <<entities, readings>>
    BY <1>5 DEF Reuse, Connect
  <2> QED BY <2>1, <2>2, NotifyShows, ReadingsStay
<1>6. ASSUME NEW u \in Ops,
             Ask(u, "battery", "session", "status") \/ Ask(u, "status", "status", "read")
      PROVE  ReadingsOK'
  <2>3. readings' \in [battery : Polls \cup {Nobody}, status : Polls \cup {Nobody}]
    <3>1. CASE Ask(u, "battery", "session", "status")
      BY <3>1 DEF ReadingsOK, Ask
    <3>2. CASE Ask(u, "status", "status", "read")
      BY <3>2 DEF ReadingsOK, Ask
    <3> QED BY <1>6, <3>1, <3>2
  <2> SUFFICES ASSUME entities = "added"
               PROVE  /\ Fresh(view.battery, readings.battery)'
                      /\ Fresh(view.status, readings.status)'
    BY <1>6, <2>3 DEF ReadingsOK, Ask, entityVars
  <2>1. /\ u \in Polls /\ pc'[u] \in Inside
        /\ \A p \in Polls : pc[p] \in Inside => pc'[p] \in Inside
        /\ UNCHANGED <<result, view>>
    BY <1>6 DEF Ask, OpsOK, entityVars
  <2>2. /\ readings'.battery = readings.battery \/ readings'.battery = u
        /\ readings'.status = readings.status \/ readings'.status = u
    BY <1>6 DEF Ask, ReadingsOK
  <2> QED BY <2>1, <2>2 DEF ReadingsOK, Fresh
<1>7. ASSUME Notify, UNCHANGED <<ops, readings, entities>> PROVE ReadingsOK'
  BY <1>7, NotifyShows, ReadingsStay DEF Abides, ops
<1>8. CASE UNCHANGED <<ops, readings, entities, view>>
  BY <1>8, ReadingsStay DEF Abides, ops
<1>9. CASE \/ \E l \in up : Drop(l)
           \/ Disconnect \/ Disconnected \/ DisconnectCancelled
  BY <1>7, <1>8, <1>9 DEF Drop, Disconnect, Disconnected, DisconnectCancelled,
                          entityVars
<1>10. CASE AddPlatforms
  BY <1>10 DEF AddPlatforms, AddEntities, Look, ReadingsOK, Fresh
<1>11. CASE RemovePlatforms
  BY <1>11 DEF RemovePlatforms, RemoveEntities, ReadingsOK
<1>12. CASE UNCHANGED vars
  BY <1>8, <1>12 DEF vars, entityVars
<1> QED BY <1>1, <1>2, <1>4, <1>5, <1>6, <1>9, <1>10, <1>11, <1>12 DEF Next, Step

-----------------------------------------------------------------------------
(* The strengthening is an invariant.                                         *)
THEOREM Invariance == Spec => []IInv
<1>1. IInv /\ [Next]_vars => IInv'
  BY OpsNext, PrintingNext, ReadingsNext DEF IInv
<1> QED BY InitIInv, <1>1, PTL DEF Spec

(* Whenever platforms come and go, the printing sensor is on exactly while a  *)
(* print holds the device's lock, and the duration sensor never ticks beyond  *)
(* that or after it was removed (parser.py:209, sensor.py:163).               *)
THEOREM PrintingIsShown == Spec => []PrintingShown
<1>1. IInv => PrintingShown
  BY DEF IInv, PrintingOK, PrintingShown
<1> QED BY Invariance, <1>1, PTL

(* Between polls the entities show what was heard last, unless the poll that  *)
(* heard it was cancelled (__init__.py:116).                                  *)
THEOREM ReadingsAreShown == Spec => []ReadingsShown
<1>1. IInv => ReadingsShown
  <2> SUFFICES ASSUME IInv, entities = "added", \A u \in Polls : pc[u] \notin Inside,
                      NEW key \in {"battery", "status"}, view[key] # readings[key]
               PROVE  result[readings[key]] = "cancelled"
    BY DEF ReadingsShown
  <2>1. Fresh(view[key], readings[key])
    BY DEF IInv, ReadingsOK
  <2> QED BY <2>1 DEF Fresh
<1> QED BY Invariance, <1>1, PTL
-----------------------------------------------------------------------------
(* The link, before disconnect() and after it.                                *)
LEMMA InitLink == Init => LinkOK /\ LeavingOK /\ ConnectionOK
  BY DEF Init, EntitiesInit, LinkOK, LeavingOK, ConnectionOK, Active, Inside, Ended

(* What the finally clauses leave of the link, whatever the session made of it. *)
LEMMA LeaveLink ==
    ASSUME OpsOK, LinkOK, ConnectionOK,
           NEW o \in Ops, NEW how, NEW where, Leave(o, how, where),
           lock = o \/ lock = Nobody, UNCHANGED <<keep, link, made, leaving>>,
           up' \subseteq up, ~keep => up' = {}
    PROVE  LinkOK' /\ ConnectionOK'
<1> USE PrinterDeviceAssumption DEF Ops, Ended, Active, Inside
<1>1. leaving'.pc = "no" => up' \subseteq {client'}
  BY DEF LinkOK, Leave, Forget
<1>2. \A p \in Ops : pc'[p] \notin Active
  BY DEF OpsOK, Leave
<1>3. LinkOK'
  <2>1. client' \in Nat
    BY DEF LinkOK, Leave, Forget
  <2>2. ~keep' => up' = {}
    OBVIOUS
  <2>3. link' \in [Ops -> Nat] /\ made' \in Nat
    BY DEF LinkOK
  <2> QED BY <1>1, <1>2, <2>1, <2>2, <2>3 DEF LinkOK
<1>4. ConnectionOK'
  BY TellShows DEF ConnectionOK, Leave
<1> QED BY <1>3, <1>4

LEMMA LinkNext ==
    ASSUME OpsOK, LinkOK, LeavingOK, ConnectionOK, [Next]_vars
    PROVE  LinkOK' /\ ConnectionOK'
<1> USE PrinterDeviceAssumption DEF Ops, Ended, Active, Inside
<1>1. ASSUME NEW o \in Ops, Request(o) \/ GiveUp(o) PROVE LinkOK' /\ ConnectionOK'
  <2>1. UNCHANGED <<keep, link, client, up, made, leaving, entities, view>>
    BY <1>1 DEF Request, GiveUp, entityVars, radio
  <2>2. \A p \in Ops : pc'[p] \in Active <=> pc[p] \in Active
    BY <1>1 DEF Request, GiveUp, OpsOK
  <2>3. \A p \in Ops : pc'[p] \in Inside <=> pc[p] \in Inside
    BY <1>1 DEF Request, GiveUp, OpsOK
  <2> QED BY <2>1, <2>2, <2>3 DEF LinkOK, ConnectionOK
<1>2. ASSUME NEW o \in Ops, Enter(o) PROVE LinkOK' /\ ConnectionOK'
  <2>1. UNCHANGED <<keep, client, up, made, leaving, entities>>
    BY <1>2 DEF Enter, radio
  <2>2. /\ link' \in [Ops -> Nat]
        /\ leaving.pc = "no" => \A p \in Ops : pc'[p] \in Active => link'[p] = client
    BY <1>2 DEF Enter, LinkOK, OpsOK
  <2>3. \A p \in Ops : pc[p] \in Inside => pc'[p] \in Inside /\ link'[p] = link[p]
    BY <1>2 DEF Enter, OpsOK, LinkOK
  <2>4. entities = "added" => view'.connected = view.connected
    BY <1>2 DEF Enter, Written, PrintingFields, ConnectionFields, EveryField
  <2>5. LinkOK'
    <3>1. ~keep => \A l \in up : \E p \in Ops : pc'[p] \in Inside /\ link'[p] = l
      BY <2>3 DEF LinkOK
    <3> QED BY <2>1, <2>2, <3>1 DEF LinkOK
  <2>6. ConnectionOK'
    BY <2>1, <2>4 DEF ConnectionOK
  <2> QED BY <2>5, <2>6
<1>3. ASSUME NEW o \in Ops,
             Ask(o, "battery", "session", "status") \/ Ask(o, "status", "status", "read")
      PROVE  LinkOK' /\ ConnectionOK'
  <2>1. UNCHANGED <<keep, link, client, up, made, leaving, entities, view>>
    BY <1>3 DEF Ask, entityVars, radio
  <2>2. \A p \in Ops : pc'[p] \in Active <=> pc[p] \in Active
    BY <1>3 DEF Ask, OpsOK
  <2>3. \A p \in Ops : pc'[p] \in Inside <=> pc[p] \in Inside
    BY <1>3 DEF Ask, OpsOK
  <2> QED BY <2>1, <2>2, <2>3 DEF LinkOK, ConnectionOK
<1>4. ASSUME NEW o \in Ops, NEW where, Refuse(o, where) PROVE LinkOK' /\ ConnectionOK'
  <2>1. ~keep => up = {}
    BY <1>4 DEF Refuse, OpsOK, LinkOK
  <2> QED BY <1>4, <2>1, LeaveLink DEF Refuse, radio
<1>5. ASSUME NEW o \in Ops, NEW how, ConnectFails(o, how) PROVE LinkOK' /\ ConnectionOK'
  <2>1. lock = o
    BY <1>5 DEF ConnectFails, OpsOK
  <2>2. ~keep => up = {}
    BY <1>5, <2>1 DEF ConnectFails, OpsOK, LinkOK
  <2> QED BY <1>5, <2>1, <2>2, LeaveLink DEF ConnectFails, radio
<1>6. ASSUME NEW o \in Ops, NEW how, Close(o, how) PROVE LinkOK' /\ ConnectionOK'
  <2>1. lock = o
    BY <1>6 DEF Close, OpsOK
  <2>2. up' \subseteq up /\ (~keep => link[o] \notin up')
    BY <1>6 DEF Close
  <2>3. ~keep => up' = {}
    BY <2>1, <2>2 DEF OpsOK, LinkOK
  <2> QED BY <1>6, <2>1, <2>2, <2>3, LeaveLink DEF Close
<1>7. ASSUME Notify, UNCHANGED entities PROVE ConnectionOK'
  BY <1>7, NotifyShows DEF ConnectionOK
<1>8. ASSUME NEW o \in Ops, Reuse(o) \/ Connect(o) PROVE LinkOK' /\ ConnectionOK'
  <2>1. /\ pc[o] = "connecting" /\ keep' = keep /\ leaving' = leaving
        /\ leaving.pc = "no" => link[o] = client
    BY <1>8 DEF LinkOK, Reuse, Connect
  <2>2. pc' = [pc EXCEPT ![o] = "session"]
    BY <1>8 DEF Reuse, Connect
  <2>3. \A p \in Ops : pc'[p] \in Active => p = o
    BY <2>1, <2>2 DEF OpsOK
  <2>4. pc'[o] \in Inside
    BY <2>2 DEF OpsOK
  <2>5. ~keep => up = {}
    BY <2>1 DEF OpsOK, LinkOK
  <2>6. ASSUME Reuse(o) PROVE LinkOK'
    BY <2>1, <2>3, <2>4, <2>5, <2>6 DEF Reuse, LinkOK, radio
  <2>7. ASSUME Connect(o) PROVE LinkOK'
    <3>1. link' \in [Ops -> Nat] /\ link'[o] = client' /\ client' \in Nat /\ made' \in Nat
      BY <2>7 DEF Connect, LinkOK
    <3>2. leaving.pc = "no" => up' \subseteq {client'}
      BY <2>1, <2>7 DEF Connect, LinkOK
    <3>3. ~keep => up' \subseteq {client'}
      BY <2>5, <2>7 DEF Connect
    <3> QED BY <2>1, <2>3, <2>4, <3>1, <3>2, <3>3 DEF LinkOK
  <2>8. LinkOK'
    BY <1>8, <2>6, <2>7
  <2>9. ConnectionOK'
    BY <1>7, <1>8 DEF Reuse, Connect
  <2> QED BY <2>8, <2>9
<1>9. ASSUME NEW l \in up, Drop(l) PROVE LinkOK' /\ ConnectionOK'
  <2>1. /\ UNCHANGED <<keep, pc, link, client, made, leaving, entities>>
        /\ up' \subseteq up /\ Notify
    BY <1>9 DEF Drop, ops
  <2> QED BY <1>7, <2>1 DEF LinkOK
<1>10. ASSUME Disconnect \/ Disconnected \/ DisconnectCancelled
       PROVE  LinkOK' /\ ConnectionOK'
  <2>1. UNCHANGED <<keep, pc, link, made, entities>> /\ client' \in {client, 0}
    BY <1>10 DEF Disconnect, Disconnected, DisconnectCancelled, ops, radio, entityVars
  <2>2. CASE Disconnect
    <3>1. up' = up /\ leaving'.pc # "no" /\ entities # "added"
      BY <2>2 DEF Disconnect, radio
    <3> QED BY <2>1, <3>1 DEF LinkOK, ConnectionOK
  <2>3. CASE Disconnected \/ DisconnectCancelled
    <3>1. LinkLeft
      BY <2>3 DEF Disconnected, DisconnectCancelled
    <3>2. up' \subseteq up /\ leaving'.pc = "gone" /\ entities # "added"
      BY <3>1 DEF LinkLeft, LeavingOK
    <3> QED BY <2>1, <3>2 DEF LinkOK, ConnectionOK
  <2> QED BY <1>10, <2>2, <2>3
<1>11. ASSUME AddPlatforms \/ RemovePlatforms PROVE LinkOK' /\ ConnectionOK'
  <2>1. UNCHANGED <<keep, pc, link, client, up, made, leaving>>
    BY <1>11 DEF AddPlatforms, RemovePlatforms, ops, radio
  <2>2. ConnectionOK'
    BY <1>11, <2>1 DEF AddPlatforms, RemovePlatforms, AddEntities, RemoveEntities, Look,
                       ConnectionOK
  <2> QED BY <2>1, <2>2 DEF LinkOK
<1>12. CASE UNCHANGED vars
  <2>1. UNCHANGED <<keep, pc, link, client, up, made, leaving, entities, view>>
    BY <1>12 DEF vars, ops, radio, entityVars
  <2> QED BY <2>1 DEF LinkOK, ConnectionOK
<1> QED BY <1>1, <1>2, <1>3, <1>4, <1>5, <1>6, <1>8, <1>9, <1>10, <1>11, <1>12
        DEF Next, Step

(* A link that comes up under or after disconnect() is numbered after those   *)
(* there were when it began.                                                  *)
LEMMA LeavingNext ==
    ASSUME OpsOK, LinkOK, LeavingOK, [Next]_vars
    PROVE  LeavingOK'
<1> USE PrinterDeviceAssumption DEF Ops
<1>1. ASSUME UNCHANGED <<leaving, made>>, up' \subseteq up,
             leaving.pc # "no" => entities' # "added"
      PROVE  LeavingOK'
  BY <1>1 DEF LeavingOK
<1>2. ASSUME NEW o \in Ops, Connect(o) PROVE LeavingOK'
  <2>1. /\ leaving' = leaving /\ entities' = entities
        /\ made' = made + 1 /\ up' = up \cup {made + 1}
    BY <1>2 DEF Connect
  <2> QED BY <2>1 DEF LeavingOK, LinkOK
<1>3. ASSUME NEW o \in Ops, Request(o) \/ GiveUp(o) \/ Enter(o) \/ Reuse(o) PROVE LeavingOK'
  <2>1. UNCHANGED <<leaving, made, up, entities>>
    BY <1>3 DEF Request, GiveUp, Enter, Reuse, radio, entityVars
  <2> QED BY <1>1, <2>1 DEF LeavingOK
<1>4. ASSUME NEW o \in Ops, NEW how, NEW where,
             Refuse(o, where) \/ ConnectFails(o, how) \/ Close(o, how)
      PROVE  LeavingOK'
  <2>1. UNCHANGED <<leaving, made, entities>> /\ up' \subseteq up
    BY <1>4 DEF Refuse, ConnectFails, Close, Leave, radio
  <2> QED BY <1>1, <2>1 DEF LeavingOK
<1>5. ASSUME NEW o \in Ops,
             Ask(o, "battery", "session", "status") \/ Ask(o, "status", "status", "read")
      PROVE  LeavingOK'
  <2>1. UNCHANGED <<leaving, made, up, entities>>
    BY <1>5 DEF Ask, radio, entityVars
  <2> QED BY <1>1, <2>1 DEF LeavingOK
<1>6. ASSUME NEW l \in up, Drop(l) PROVE LeavingOK'
  <2>1. UNCHANGED <<leaving, made, entities>> /\ up' \subseteq up
    BY <1>6 DEF Drop
  <2> QED BY <1>1, <2>1 DEF LeavingOK
<1>7. CASE Disconnect
  <2>1. UNCHANGED <<made, up, entities>> /\ entities # "added" /\ up \subseteq {client}
    BY <1>7 DEF Disconnect, radio, LinkOK
  <2>2. \/ leaving' = [pc |-> "closing", link |-> client, made |-> made]
        \/ leaving' = [pc |-> "gone", link |-> 0, made |-> made] /\ client \notin up
    BY <1>7 DEF Disconnect
  <2> QED BY <2>1, <2>2 DEF LeavingOK, LinkOK
<1>8. CASE Disconnected \/ DisconnectCancelled
  <2>1. /\ LinkLeft /\ UNCHANGED <<made, entities>>
    BY <1>8 DEF Disconnected, DisconnectCancelled, entityVars
  <2>2. /\ leaving.pc = "closing" /\ up' \in {up, up \ {leaving.link}}
        /\ leaving' = [pc   |-> "gone",
                       link |-> IF leaving.link \in up' THEN leaving.link ELSE 0,
                       made |-> leaving.made]
    BY <2>1 DEF LinkLeft, LeavingOK
  <2> QED BY <2>1, <2>2 DEF LeavingOK
<1>9. CASE AddPlatforms \/ RemovePlatforms
  <2>1. /\ UNCHANGED <<leaving, made, up>>
        /\ leaving.pc # "no" => entities' # "added"
    BY <1>9 DEF AddPlatforms, RemovePlatforms, RemoveEntities, radio
  <2> QED BY <1>1, <2>1
<1>10. CASE UNCHANGED vars
  <2>1. UNCHANGED <<leaving, made, up, entities>>
    BY <1>10 DEF vars, radio, entityVars
  <2> QED BY <1>1, <2>1 DEF LeavingOK
<1> QED BY <1>2, <1>3, <1>4, <1>5, <1>6, <1>7, <1>8, <1>9, <1>10 DEF Next, Step

-----------------------------------------------------------------------------
(* The strengthening is an invariant, whatever disconnect() overlaps.         *)
THEOREM LinkInvariance == Spec => []LinkIInv
<1>1. Init => LinkIInv
  BY InitLink, InitIInv DEF IInv, LinkIInv
<1>2. LinkIInv /\ [Next]_vars => LinkIInv'
  BY OpsNext, LinkNext, LeavingNext DEF LinkIInv
<1> QED BY <1>1, <1>2, PTL DEF Spec

(* Until disconnect() a link that is up is the one the device knows: there is *)
(* never a second one to the printer, and none that nobody would close        *)
(* (parser.py:217).                                                           *)
THEOREM LinkIsKnown == Spec => []LinkKnown
<1>1. LinkIInv => LinkKnown
  BY DEF LinkIInv, LinkOK, LinkKnown
<1> QED BY LinkInvariance, <1>1, PTL

(* Without keep_connection the printer is free whenever no operation holds    *)
(* the lock (parser.py:234), also after a disconnect() that failed.           *)
THEOREM IsFreeWhenIdle == Spec => []FreeWhenIdle
<1>1. LinkIInv => FreeWhenIdle
  BY PrinterDeviceAssumption DEF LinkIInv, LinkOK, OpsOK, FreeWhenIdle, Active, Ops
<1> QED BY LinkInvariance, <1>1, PTL

(* The connection sensor shows a link exactly while there is one, however     *)
(* links, operations and platforms come and go (binary_sensor.py:105).        *)
THEOREM ConnectionIsShown == Spec => []ConnectionShown
<1>1. LinkIInv => ConnectionShown
  <2> SUFFICES ASSUME LinkIInv, entities = "added" PROVE view.connected = (up # {})
    BY DEF ConnectionShown
  <2>1. leaving.pc = "no"
    BY DEF LinkIInv, LeavingOK
  <2>2. client \in up <=> up # {}
    BY <2>1 DEF LinkIInv, LinkOK
  <2> QED BY <2>2 DEF LinkIInv, ConnectionOK
<1> QED BY LinkInvariance, <1>1, PTL

(* When disconnect() is done, the one link of before that may be left is the  *)
(* one it failed to close; every other was made since it began, by an         *)
(* operation it did not wait for (parser.py:283-290).                         *)
THEOREM OrphansComeLate == Spec => []OrphansAreLate
<1>1. LinkIInv => OrphansAreLate
  BY DEF LinkIInv, LeavingOK, OrphansAreLate
<1> QED BY LinkInvariance, <1>1, PTL

-----------------------------------------------------------------------------
(* What is counted: operations that failed, and links that were made.         *)

(* The operations that count as failures. *)
Failures ==
    {o \in Ops : /\ result[o] = "failed"
                 /\ o \in Polls => stage[o] = "session"}

(* The operations that have been given a link, or are over without one. *)
Begun == {o \in Ops : pc[o] \in Inside \cup {"done"}}

Stages == {"none", "unreachable", "connect", "session"}

(* What an operation counts for is known from its end on; the sensors are     *)
(* told in the same breath.                                                   *)
ErrorsOK ==
    /\ stage \in [Ops -> Stages]
    /\ errors = Cardinality(Failures)
    /\ entities = "added" => view.errors = errors
    /\ errors > 0 => reports.failure \in Ops /\ result[reports.failure] = "failed"

(* Every link there is was made for an operation of its own. *)
MadeOK ==
    /\ made \in Nat /\ made <= Cardinality(Begun)
    /\ link \in [Ops -> 0..made] /\ client \in 0..made
    /\ up \subseteq 1..made
    /\ leaving \in [pc : {"no", "closing", "gone"}, link : 0..made, made : 0..made]

Views == [connected : BOOLEAN, errors : 0..Cardinality(Ops), printing : BOOLEAN,
          battery : Polls \cup {Nobody}, status : Polls \cup {Nobody}]

ShownOK ==
    /\ keep \in BOOLEAN
    /\ entities \in {"none", "added", "removed"}
    /\ view \in Views
    /\ reports \in [last : Ops \cup {Nobody}, failure : Ops \cup {Nobody},
                    print : Prints \cup {Nobody}]

TypeIInv == IInv /\ ErrorsOK /\ MadeOK /\ ShownOK

-----------------------------------------------------------------------------
LEMMA OpsFinite == IsFiniteSet(Ops) /\ Cardinality(Ops) \in Nat
  BY PrinterDeviceAssumption, FS_Union, FS_CardinalityType DEF Ops

LEMMA CountBounds ==
    /\ IsFiniteSet(Failures) /\ Cardinality(Failures) \in 0..Cardinality(Ops)
    /\ IsFiniteSet(Begun) /\ Cardinality(Begun) \in 0..Cardinality(Ops)
<1>1. Failures \in SUBSET Ops /\ Begun \in SUBSET Ops
  BY DEF Failures, Begun
<1>2. IsFiniteSet(Failures) /\ IsFiniteSet(Begun)
  BY <1>1, OpsFinite, FS_Subset
<1>3. Cardinality(Failures) \in Nat /\ Cardinality(Begun) \in Nat
  BY <1>2, FS_CardinalityType
<1>4. Cardinality(Failures) <= Cardinality(Ops) /\ Cardinality(Begun) <= Cardinality(Ops)
  BY <1>1, OpsFinite, FS_Subset
<1> QED BY <1>2, <1>3, <1>4, OpsFinite

LEMMA InitType == Init => ErrorsOK /\ MadeOK /\ ShownOK
<1> SUFFICES ASSUME Init PROVE ErrorsOK /\ MadeOK /\ ShownOK
  OBVIOUS
<1> USE PrinterDeviceAssumption DEF Init, EntitiesInit, Unseen
<1>1. Failures = {}
  BY DEF Failures
<1>2. ErrorsOK
  BY <1>1, FS_EmptySet DEF ErrorsOK, Stages
<1>3. MadeOK
  BY CountBounds DEF MadeOK
<1>4. ShownOK
  BY OpsFinite DEF ShownOK, Views
<1> QED BY <1>2, <1>3, <1>4

-----------------------------------------------------------------------------
(* The end of an operation: it counts as a failure exactly if the report says *)
(* so.                                                                        *)
LEMMA LeaveCounts ==
    ASSUME OpsOK, ErrorsOK, NEW o \in Ops, pc[o] # "done",
           NEW how \in {"ok", "failed", "cancelled"},
           NEW where \in {"unreachable", "connect", "session"},
           Leave(o, how, where)
    PROVE  ErrorsOK'
<1> USE PrinterDeviceAssumption DEF Ops
<1> DEFINE failed == how = "failed" /\ ~Asleep(o, where)
<1>1. /\ result' = [result EXCEPT ![o] = how] /\ stage' = [stage EXCEPT ![o] = where]
      /\ entities' = entities /\ Tell(o, how) /\ Commit(o, how, where)
  BY DEF Leave
<1>2. stage' \in [Ops -> Stages]
  BY <1>1 DEF ErrorsOK, Stages
<1>3. /\ result'[o] = how /\ stage'[o] = where
      /\ \A p \in Ops \ {o} : result'[p] = result[p] /\ stage'[p] = stage[p]
  BY <1>1 DEF OpsOK, ErrorsOK
<1>4. result[o] = "none"
  BY DEF OpsOK
<1>5. o \notin Failures
  BY <1>4 DEF Failures
<1>6. Failures' = IF failed THEN Failures \cup {o} ELSE Failures
  BY <1>3, <1>5 DEF Failures, Asleep
<1>7. errors' = IF failed THEN errors + 1 ELSE errors
  BY <1>1 DEF Commit, notes
<1>8. errors' = Cardinality(Failures')
  BY <1>5, <1>6, <1>7, CountBounds, FS_AddElement DEF ErrorsOK
<1>9. entities' = "added" => view'.errors = errors'
  BY <1>1, TellShows
<1>10. errors' > 0 => reports'.failure \in Ops /\ result'[reports'.failure] = "failed"
  <2>1. CASE failed
    <3>1. reports'.failure = o
      BY <1>1, <2>1 DEF Commit, Reported, notes
    <3> QED BY <1>3, <2>1, <3>1
  <2>2. CASE ~failed
    <3>1. reports'.failure = reports.failure /\ errors' = errors
      BY <1>1, <1>7, <2>2 DEF Commit, Reported, notes
    <3> QED BY <1>3, <1>4, <3>1 DEF ErrorsOK
  <2> QED BY <2>1, <2>2
<1> QED BY <1>2, <1>8, <1>9, <1>10 DEF ErrorsOK

(* What the operations failed at, the error count and the last failure.       *)
LEMMA ErrorsNext == OpsOK /\ ErrorsOK /\ [Next]_vars => ErrorsOK'
<1> SUFFICES ASSUME OpsOK, ErrorsOK, [Next]_vars PROVE ErrorsOK'
  OBVIOUS
<1> USE PrinterDeviceAssumption DEF Ops
<1>1. ASSUME UNCHANGED <<result, stage, reports, errors, entities>>,
             entities = "added" => view'.errors = errors
      PROVE  ErrorsOK'
  <2>1. Failures' = Failures
    BY <1>1 DEF Failures
  <2> QED BY <1>1, <2>1 DEF ErrorsOK
<1>2. ASSUME UNCHANGED <<result, stage, reports, errors, entities, view>> PROVE ErrorsOK'
  BY <1>1, <1>2 DEF ErrorsOK
<1>3. ASSUME UNCHANGED <<result, stage, reports, errors, entities>>, Notify PROVE ErrorsOK'
  BY <1>1, <1>3, NotifyShows
<1>4. ASSUME NEW o \in Ops, GiveUp(o) PROVE ErrorsOK'
  <2>1. result' = [result EXCEPT ![o] = "cancelled"] /\ result[o] = "none"
    BY <1>4 DEF GiveUp, OpsOK
  <2>2. UNCHANGED <<stage, reports, errors, entities, view>>
    BY <1>4 DEF GiveUp, notes, entityVars
  <2>3. /\ result'[o] = "cancelled"
        /\ \A p \in Ops \ {o} : result'[p] = result[p]
    BY <2>1 DEF OpsOK
  <2>4. Failures' = Failures
    BY <2>1, <2>2, <2>3 DEF Failures
  <2> QED BY <2>1, <2>2, <2>3, <2>4 DEF ErrorsOK
<1>5. ASSUME NEW o \in Ops, Enter(o) PROVE ErrorsOK'
  <2>1. UNCHANGED <<result, stage, reports, errors, entities>>
    BY <1>5 DEF Enter, notes
  <2>2. entities = "added" => view'.errors = view.errors
    BY <1>5 DEF Enter, Written, PrintingFields, ConnectionFields, EveryField
  <2> QED BY <1>1, <2>1, <2>2 DEF ErrorsOK
<1>6. ASSUME NEW o \in Ops, NEW where \in {"unreachable", "session"}, Refuse(o, where)
      PROVE  ErrorsOK'
  BY <1>6, LeaveCounts DEF Refuse
<1>7. ASSUME NEW o \in Ops, NEW how \in {"failed", "cancelled"}, ConnectFails(o, how)
      PROVE  ErrorsOK'
  BY <1>7, LeaveCounts DEF ConnectFails
<1>8. ASSUME NEW o \in Ops, NEW how \in {"ok", "failed", "cancelled"}, Close(o, how)
      PROVE  ErrorsOK'
  BY <1>8, LeaveCounts DEF Close, Inside
<1>9. ASSUME NEW o \in Ops, Reuse(o) \/ Connect(o) PROVE ErrorsOK'
  BY <1>3, <1>9 DEF Reuse, Connect, notes
<1>10. ASSUME NEW o \in Ops,
              \/ Request(o)
              \/ Ask(o, "battery", "session", "status") \/ Ask(o, "status", "status", "read")
       PROVE  ErrorsOK'
  BY <1>2, <1>10 DEF Request, Ask, notes, entityVars
<1>11. CASE \/ \E l \in up : Drop(l)
            \/ Disconnect \/ Disconnected \/ DisconnectCancelled
  BY <1>2, <1>3, <1>11 DEF Drop, Disconnect, Disconnected, DisconnectCancelled, ops,
                           notes, entityVars
<1>12. CASE AddPlatforms
  <2>1. UNCHANGED <<result, stage, reports, errors>> /\ view'.errors = errors
    BY <1>12 DEF AddPlatforms, AddEntities, Look, ops, notes
  <2>2. Failures' = Failures
    BY <2>1 DEF Failures
  <2> QED BY <2>1, <2>2 DEF ErrorsOK
<1>13. CASE RemovePlatforms
  <2>1. UNCHANGED <<result, stage, reports, errors>> /\ entities' = "removed"
    BY <1>13 DEF RemovePlatforms, RemoveEntities, ops, notes
  <2>2. Failures' = Failures
    BY <2>1 DEF Failures
  <2> QED BY <2>1, <2>2 DEF ErrorsOK
<1>14. CASE UNCHANGED vars
  BY <1>2, <1>14 DEF vars, ops, notes, entityVars
<1> QED BY <1>4, <1>5, <1>6, <1>7, <1>8, <1>9, <1>10, <1>11, <1>12, <1>13, <1>14
        DEF Next, Step

-----------------------------------------------------------------------------
(* What is known of the links that were made. *)
LEMMA MadeNext == OpsOK /\ MadeOK /\ [Next]_vars => MadeOK'
<1> SUFFICES ASSUME OpsOK, MadeOK, [Next]_vars PROVE MadeOK'
  OBVIOUS
<1> USE PrinterDeviceAssumption DEF Ops, Ended, Active, Inside
<1>1. ASSUME \A o \in Ops : pc[o] \in Inside \cup {"done"} => pc'[o] \in Inside \cup {"done"}
      PROVE  Cardinality(Begun) <= Cardinality(Begun')
  <2>1. Begun \in SUBSET Begun'
    BY <1>1 DEF Begun
  <2>2. IsFiniteSet(Begun')
    <3>1. Begun' \in SUBSET Ops
      BY DEF Begun
    <3> QED BY <3>1, OpsFinite, FS_Subset
  <2> QED BY <2>1, <2>2, FS_Subset
<1>2. ASSUME \A o \in Ops : pc[o] \in Inside \cup {"done"} => pc'[o] \in Inside \cup {"done"},
             made' = made, link' \in [Ops -> 0..made], client' \in 0..made,
             up' \subseteq up,
             leaving' \in [pc : {"no", "closing", "gone"}, link : 0..made, made : 0..made]
      PROVE  MadeOK'
  <2>1. Cardinality(Begun') \in Nat
    <3>1. Begun' \in SUBSET Ops
      BY DEF Begun
    <3> QED BY <3>1, OpsFinite, FS_Subset, FS_CardinalityType
  <2> QED BY <1>1, <1>2, <2>1, CountBounds DEF MadeOK
<1>3. CASE UNCHANGED <<pc, made, link, client, up, leaving>>
  BY <1>2, <1>3 DEF MadeOK
<1>4. ASSUME NEW o \in Ops, NEW how, NEW where, Leave(o, how, where),
             UNCHANGED <<link, made, leaving>>, up' \subseteq up
      PROVE  MadeOK'
  <2>1. client' \in 0..made
    BY <1>4 DEF Leave, Forget, MadeOK
  <2>2. \A p \in Ops : pc[p] \in Inside \cup {"done"} => pc'[p] \in Inside \cup {"done"}
    BY <1>4 DEF Leave, OpsOK
  <2> QED BY <1>2, <1>4, <2>1, <2>2 DEF MadeOK
<1>5. ASSUME NEW o \in Ops, NEW how, NEW where,
             Refuse(o, where) \/ ConnectFails(o, how) \/ Close(o, how)
      PROVE  MadeOK'
  BY <1>4, <1>5 DEF Refuse, ConnectFails, Close, radio
<1>6. ASSUME NEW o \in Ops, Request(o) \/ GiveUp(o) PROVE MadeOK'
  <2>1. UNCHANGED <<made, link, client, up, leaving>>
    BY <1>6 DEF Request, GiveUp, radio
  <2>2. \A p \in Ops : pc[p] \in Inside \cup {"done"} => pc'[p] \in Inside \cup {"done"}
    BY <1>6 DEF Request, GiveUp, OpsOK
  <2> QED BY <1>2, <2>1, <2>2 DEF MadeOK
<1>7. ASSUME NEW o \in Ops,
             Ask(o, "battery", "session", "status") \/ Ask(o, "status", "status", "read")
      PROVE  MadeOK'
  <2>1. UNCHANGED <<made, link, client, up, leaving>>
    BY <1>7 DEF Ask, radio
  <2>2. \A p \in Ops : pc[p] \in Inside \cup {"done"} => pc'[p] \in Inside \cup {"done"}
    BY <1>7 DEF Ask, OpsOK
  <2> QED BY <1>2, <2>1, <2>2 DEF MadeOK
<1>8. ASSUME NEW o \in Ops, Enter(o) PROVE MadeOK'
  <2>1. UNCHANGED <<made, client, up, leaving>> /\ link' \in [Ops -> 0..made]
    BY <1>8 DEF Enter, radio, MadeOK
  <2>2. \A p \in Ops : pc[p] \in Inside \cup {"done"} => pc'[p] \in Inside \cup {"done"}
    BY <1>8 DEF Enter, OpsOK
  <2> QED BY <1>2, <2>1, <2>2 DEF MadeOK
<1>9. ASSUME NEW o \in Ops, Reuse(o) PROVE MadeOK'
  <2>1. UNCHANGED <<made, link, up, leaving>> /\ client' \in 0..made
    BY <1>9 DEF Reuse, radio, MadeOK
  <2>2. \A p \in Ops : pc[p] \in Inside \cup {"done"} => pc'[p] \in Inside \cup {"done"}
    BY <1>9 DEF Reuse, OpsOK
  <2> QED BY <1>2, <2>1, <2>2 DEF MadeOK
<1>10. ASSUME NEW o \in Ops, Connect(o) PROVE MadeOK'
  <2>1. /\ made' = made + 1 /\ up' = up \cup {made + 1}
        /\ link' = [link EXCEPT ![o] = made + 1] /\ client' = made + 1
        /\ leaving' = leaving
    BY <1>10 DEF Connect
  <2>2. Begun' = Begun \cup {o} /\ o \notin Begun
    <3>1. pc' = [pc EXCEPT ![o] = "session"] /\ pc[o] = "connecting"
      BY <1>10 DEF Connect
    <3>2. pc'[o] = "session" /\ \A p \in Ops \ {o} : pc'[p] = pc[p]
      BY <3>1 DEF OpsOK
    <3> QED BY <3>1, <3>2 DEF Begun
  <2>3. Cardinality(Begun') = Cardinality(Begun) + 1
    BY <2>2, CountBounds, FS_AddElement
  <2>4. made' \in Nat /\ made' <= Cardinality(Begun')
    BY <2>1, <2>3, CountBounds DEF MadeOK
  <2>5. link' \in [Ops -> 0..made'] /\ client' \in 0..made'
    BY <2>1 DEF MadeOK
  <2>6. up' \subseteq 1..made'
    BY <2>1 DEF MadeOK
  <2>7. leaving' \in [pc : {"no", "closing", "gone"}, link : 0..made', made : 0..made']
    BY <2>1 DEF MadeOK
  <2> QED BY <2>4, <2>5, <2>6, <2>7 DEF MadeOK
<1>11. ASSUME NEW l \in up, Drop(l) PROVE MadeOK'
  BY <1>2, <1>11 DEF Drop, ops, MadeOK
<1>12. CASE Disconnect
  <2>1. UNCHANGED <<made, link, up, pc>>
    BY <1>12 DEF Disconnect, ops, radio
  <2>2. client' \in 0..made
    BY <1>12 DEF Disconnect, MadeOK
  <2>3. leaving' \in [pc : {"no", "closing", "gone"}, link : 0..made, made : 0..made]
    BY <1>12 DEF Disconnect, MadeOK
  <2> QED BY <1>2, <2>1, <2>2, <2>3 DEF MadeOK
<1>13. CASE Disconnected \/ DisconnectCancelled
  <2>1. UNCHANGED <<made, link, pc>> /\ up' \subseteq up /\ client' \in 0..made
    BY <1>13 DEF Disconnected, DisconnectCancelled, LinkLeft, ops, MadeOK
  <2>2. leaving' \in [pc : {"no", "closing", "gone"}, link : 0..made, made : 0..made]
    <3>1. LinkLeft
      BY <1>13 DEF Disconnected, DisconnectCancelled
    <3>2. leaving' = [pc   |-> "gone",
                      link |-> IF leaving.link \in up' THEN leaving.link ELSE 0,
                      made |-> leaving.made]
      BY <3>1 DEF LinkLeft, MadeOK
    <3> QED BY <3>2 DEF MadeOK
  <2> QED BY <1>2, <2>1, <2>2 DEF MadeOK
<1>14. CASE AddPlatforms \/ RemovePlatforms
  BY <1>3, <1>14 DEF AddPlatforms, RemovePlatforms, ops, radio
<1>15. CASE UNCHANGED vars
  BY <1>3, <1>15 DEF vars, ops, radio
<1> QED BY <1>5, <1>6, <1>7, <1>8, <1>9, <1>10, <1>11, <1>12, <1>13, <1>14, <1>15
        DEF Next, Step

-----------------------------------------------------------------------------
(* Whatever the entities write is of its type, for so is what they look at.   *)
LEMMA WrittenType ==
    ASSUME NEW fields, NEW seen \in Views, view \in Views
    PROVE  Written(fields, seen) \in Views
<1> USE DEF EveryField, ConnectionFields, PrintingFields
<1>1. CASE entities = "added"
  <2> DEFINE w == [f \in EveryField |-> IF f \in fields THEN seen[f] ELSE view[f]]
  <2>1. /\ w.connected \in BOOLEAN /\ w.errors \in 0..Cardinality(Ops)
        /\ w.printing \in BOOLEAN /\ w.battery \in Polls \cup {Nobody}
        /\ w.status \in Polls \cup {Nobody}
    BY DEF Views
  <2>2. w \in Views
    BY <2>1 DEF Views
  <2> QED BY <1>1, <2>2 DEF Written
<1>2. CASE entities # "added"
  BY <1>2 DEF Written
<1> QED BY <1>1, <1>2

LEMMA LookType == IInv /\ ErrorsOK => Look \in Views /\ errors \in 0..Cardinality(Ops)
  BY CountBounds DEF Look, Views, IInv, PrintingOK, ReadingsOK, ErrorsOK

(* The entities write what they see, and the reports name operations.         *)
LEMMA ShownNext ==
    ASSUME ShownOK, Look \in Views, Look' \in Views, [Next]_vars
    PROVE  ShownOK'
<1> USE PrinterDeviceAssumption DEF Ops
<1>1. keep' \in BOOLEAN /\ entities' \in {"none", "added", "removed"}
  <2>1. CASE UNCHANGED <<keep, entities>>
    BY <2>1 DEF ShownOK
  <2>2. CASE AddPlatforms \/ RemovePlatforms
    BY <2>2 DEF ShownOK, AddPlatforms, RemovePlatforms, AddEntities, RemoveEntities
  <2>3. ASSUME NEW o \in Ops,
               \/ Request(o) \/ GiveUp(o) \/ Enter(o) \/ Reuse(o) \/ Connect(o)
               \/ Ask(o, "battery", "session", "status") \/ Ask(o, "status", "status", "read")
        PROVE  UNCHANGED <<keep, entities>>
    BY <2>3 DEF Request, GiveUp, Enter, Reuse, Connect, Ask, entityVars
  <2>4. ASSUME NEW o \in Ops, NEW how, NEW where,
               Refuse(o, where) \/ ConnectFails(o, how) \/ Close(o, how)
        PROVE  UNCHANGED <<keep, entities>>
    BY <2>4 DEF Refuse, ConnectFails, Close, Leave
  <2>5. CASE \/ \E l \in up : Drop(l)
             \/ Disconnect \/ Disconnected \/ DisconnectCancelled \/ UNCHANGED vars
    BY <2>1, <2>5 DEF Drop, Disconnect, Disconnected, DisconnectCancelled, vars,
                      entityVars
  <2> QED BY <2>1, <2>2, <2>3, <2>4, <2>5 DEF Next, Step
<1>2. \A fields : Written(fields, Look') \in Views
  <2>1. PICK seen \in Views : seen = Look'
    OBVIOUS
  <2> QED BY <2>1, WrittenType DEF ShownOK
<1>3. ASSUME NEW o \in Ops, NEW how, NEW where, Leave(o, how, where)
      PROVE  /\ view' \in Views
             /\ reports' \in [last : Ops \cup {Nobody}, failure : Ops \cup {Nobody},
                              print : Prints \cup {Nobody}]
  <2>1. view' \in Views
    BY <1>2, <1>3 DEF Leave, Tell
  <2>2. reports' = reports \/ \E failed \in BOOLEAN : reports' = Reported(o, failed)
    BY <1>3 DEF Leave, Commit, notes
  <2> QED BY <2>1, <2>2 DEF Reported, ShownOK
<1>4. /\ view' \in Views
      /\ reports' \in [last : Ops \cup {Nobody}, failure : Ops \cup {Nobody},
                       print : Prints \cup {Nobody}]
  <2>1. CASE UNCHANGED <<view, reports>>
    BY <2>1 DEF ShownOK
  <2>2. CASE Notify /\ UNCHANGED reports
    BY <1>2, <2>2 DEF ShownOK, Notify
  <2>3. ASSUME NEW o \in Ops, Enter(o)
        PROVE  view' \in Views /\ reports' = reports
    BY <1>2, <2>3 DEF Enter, notes, ShownOK
  <2>4. ASSUME NEW o \in Ops, Request(o) \/ GiveUp(o) \/ Reuse(o) \/ Connect(o)
        PROVE  UNCHANGED reports /\ (Notify \/ UNCHANGED view)
    BY <2>4 DEF Request, GiveUp, Reuse, Connect, notes, entityVars
  <2>5. ASSUME NEW o \in Ops,
               Ask(o, "battery", "session", "status") \/ Ask(o, "status", "status", "read")
        PROVE  UNCHANGED <<view, reports>>
    BY <2>5 DEF Ask, notes, entityVars
  <2>6. CASE \/ \E l \in up : Drop(l)
             \/ Disconnect \/ Disconnected \/ DisconnectCancelled
    BY <2>1, <2>2, <2>6 DEF Drop, Disconnect, Disconnected, DisconnectCancelled, notes,
                            entityVars
  <2>7. CASE AddPlatforms \/ RemovePlatforms
    BY <2>7 DEF AddPlatforms, RemovePlatforms, AddEntities, RemoveEntities, notes, ShownOK
  <2>8. CASE UNCHANGED vars
    BY <2>1, <2>8 DEF vars, notes, entityVars
  <2>9. ASSUME NEW o \in Ops, NEW how, NEW where,
               Refuse(o, where) \/ ConnectFails(o, how) \/ Close(o, how)
        PROVE  \E w : Leave(o, how, w) \/ Leave(o, "failed", w)
    BY <2>9 DEF Refuse, ConnectFails, Close
  <2> QED BY <1>3, <2>1, <2>2, <2>3, <2>4, <2>5, <2>6, <2>7, <2>8, <2>9 DEF Next, Step, ShownOK
<1> QED BY <1>1, <1>4 DEF ShownOK

-----------------------------------------------------------------------------
(* The strengthening is an invariant.                                         *)
THEOREM TypeInvariance == Spec => []TypeIInv
<1>1. Init => ErrorsOK /\ MadeOK /\ ShownOK
  BY InitType
<1>2. ErrorsOK /\ IInv /\ [Next]_vars => ErrorsOK'
  BY ErrorsNext DEF IInv
<1>3. MadeOK /\ IInv /\ [Next]_vars => MadeOK'
  BY MadeNext DEF IInv
<1>4. IInv /\ ErrorsOK => Look \in Views
  BY LookType
<1>5. ShownOK /\ Look \in Views /\ (Look \in Views)' /\ [Next]_vars => ShownOK'
  BY ShownNext
<1>6. IInv /\ ErrorsOK /\ MadeOK /\ ShownOK <=> TypeIInv
  BY DEF TypeIInv
<1> QED BY <1>1, <1>2, <1>3, <1>4, <1>5, <1>6, Invariance, PTL DEF Spec

(* Every variable has its type.  That links never outnumber the operations,   *)
(* nor errors, takes the counting.                                            *)
THEOREM TypeCorrect == Spec => []TypeOK
<1>1. TypeIInv => TypeOK
  <2> SUFFICES ASSUME TypeIInv PROVE TypeOK
    OBVIOUS
  <2> USE PrinterDeviceAssumption DEF Ops
  <2>1. errors \in 0..Cardinality(Ops)
    BY LookType DEF TypeIInv
  <2>2. 0..made \subseteq Links /\ 1..made \subseteq Links \ {0} /\ made \in 0..made
    <3>1. made \in Nat /\ made <= Cardinality(Begun)
      BY DEF TypeIInv, MadeOK
    <3> QED BY <3>1, CountBounds, OpsFinite DEF Links
  <2>3. /\ made \in Links /\ client \in Links /\ link \in [Ops -> Links]
        /\ up \subseteq Links \ {0}
        /\ leaving \in [pc : {"no", "closing", "gone"}, link : Links, made : Links]
    BY <2>2 DEF TypeIInv, MadeOK
  <2>4. readings \in [{"battery", "status"} -> Polls \cup {Nobody}]
    BY DEF TypeIInv, IInv, ReadingsOK
  <2>5. /\ pc \in [Ops -> Ended \cup {"queued", "connecting"} \cup Inside]
        /\ result \in [Ops -> {"none", "ok", "failed", "cancelled"}]
        /\ lock \in Ops \cup {Nobody}
    BY DEF TypeIInv, IInv, OpsOK, PcStates, Results, Active
  <2>6. /\ printing \in BOOLEAN /\ timer \in BOOLEAN
        /\ stage \in [Ops -> {"none", "unreachable", "connect", "session"}]
    BY DEF TypeIInv, IInv, PrintingOK, ErrorsOK, Stages
  <2>7. /\ keep \in BOOLEAN /\ entities \in {"none", "added", "removed"}
        /\ reports \in [last : Ops \cup {Nobody}, failure : Ops \cup {Nobody},
                        print : Prints \cup {Nobody}]
        /\ view \in [connected : BOOLEAN, errors : 0..Cardinality(Ops), printing : BOOLEAN,
                     battery : Polls \cup {Nobody}, status : Polls \cup {Nobody}]
    BY DEF TypeIInv, ShownOK, Views
  <2> QED BY <2>1, <2>2, <2>3, <2>4, <2>5, <2>6, <2>7 DEF TypeOK
<1> QED BY <1>1, TypeInvariance, PTL

(* The error count is exactly the operations that failed and counted, the     *)
(* sensor shows it, and the last failure is a failed operation, whatever      *)
(* succeeded or was cancelled since (parser.py:254).                          *)
THEOREM ErrorsAreCounted == Spec => []ErrorsCounted
<1>1. TypeIInv => ErrorsCounted
  <2> SUFFICES ASSUME TypeIInv PROVE ErrorsCounted
    OBVIOUS
  <2>1. errors = Cardinality(Failures)
    BY DEF TypeIInv, ErrorsOK
  <2>2. entities = "added" => view.errors = errors
    BY DEF TypeIInv, ErrorsOK
  <2>3. errors > 0 => reports.failure # Nobody /\ result[reports.failure] = "failed"
    BY PrinterDeviceAssumption DEF TypeIInv, ErrorsOK, Ops
  <2> QED BY <2>1, <2>2, <2>3 DEF ErrorsCounted, Failures
<1> QED BY <1>1, TypeInvariance, PTL

-----------------------------------------------------------------------------
(* Refinement: each step of the device is a step of Turns or none.            *)

LEMMA InitTakesTurns == Init => Turn!Init
  BY DEF Init, Turn!Init, Inside

(* What one operation's move is to those who take turns. *)
LEMMA MoveInTurn ==
    ASSUME OpsOK, NEW o \in Ops, NEW x, pc' = [pc EXCEPT ![o] = x]
    PROVE  /\ pc[o] = "new" /\ x = "queued" => Turn!Wait(o)
           /\ pc[o] = "queued" /\ x = "connecting" /\ lock = Nobody => Turn!Take(o)
           /\ pc[o] # "done" /\ x = "done" => Turn!End(o)
           /\ pc[o] \in Active /\ x \in Active => UNCHANGED Turn!vars
<1> DEFINE waits == {u \in Ops : pc[u] = "queued"}
           works == {u \in Ops : pc[u] \in {"connecting"} \cup Inside}
           ended == {u \in Ops : pc[u] = "done"}
<1> USE DEF Inside, Active
<1>1. pc'[o] = x /\ \A u \in Ops \ {o} : pc'[u] = pc[u]
  BY DEF OpsOK
<1>2. CASE pc[o] = "new" /\ x = "queued"
  <2>1. waits' = waits \cup {o} /\ works' = works /\ ended' = ended
    BY <1>1, <1>2
  <2> QED BY <1>2, <2>1 DEF Turn!Wait
<1>3. CASE pc[o] = "queued" /\ x = "connecting" /\ lock = Nobody
  <2>1. works = {}
    BY <1>3, PrinterDeviceAssumption DEF OpsOK, Ops, PrinterDeviceAssumption
  <2>2. waits' = waits \ {o} /\ works' = {o} /\ ended' = ended
    BY <1>1, <1>3, <2>1
  <2> QED BY <1>3, <2>1, <2>2 DEF Turn!Take
<1>4. CASE pc[o] # "done" /\ x = "done"
  <2>1. waits' = waits \ {o} /\ works' = works \ {o} /\ ended' = ended \cup {o}
    BY <1>1, <1>4
  <2> QED BY <1>4, <2>1 DEF Turn!End
<1>5. CASE pc[o] \in Active /\ x \in Active
  <2>1. waits' = waits /\ works' = works /\ ended' = ended
    BY <1>1, <1>5
  <2> QED BY <1>5, <2>1 DEF Turn!vars
<1> QED BY <1>2, <1>3, <1>4, <1>5

LEMMA StepInTurn == OpsOK /\ [Next]_vars => [Turn!Next]_(Turn!vars)
<1> SUFFICES ASSUME OpsOK, [Next]_vars PROVE [Turn!Next]_(Turn!vars)
  OBVIOUS
<1> USE DEF Turn!Next
<1>1. ASSUME NEW o \in Ops, Request(o) PROVE Turn!Next
  BY <1>1, MoveInTurn DEF Request
<1>2. ASSUME NEW o \in Ops, GiveUp(o) PROVE Turn!Next
  BY <1>2, MoveInTurn DEF GiveUp
<1>3. ASSUME NEW o \in Ops, Enter(o) PROVE Turn!Next
  BY <1>3, MoveInTurn DEF Enter
<1>4. ASSUME NEW o \in Ops, NEW how, NEW where, pc[o] # "done", Leave(o, how, where)
      PROVE  Turn!Next
  BY <1>4, MoveInTurn DEF Leave
<1>5. ASSUME NEW o \in Ops, NEW where \in {"unreachable", "session"}, Refuse(o, where)
      PROVE  Turn!Next
  BY <1>4, <1>5 DEF Refuse
<1>6. ASSUME NEW o \in Ops, NEW how \in {"failed", "cancelled"}, ConnectFails(o, how)
      PROVE  Turn!Next
  BY <1>4, <1>6 DEF ConnectFails
<1>7. ASSUME NEW o \in Ops, NEW how \in {"ok", "failed", "cancelled"}, Close(o, how)
      PROVE  Turn!Next
  BY <1>4, <1>7 DEF Close, Inside
<1>8. ASSUME NEW o \in Ops,
             \/ Reuse(o) \/ Connect(o)
             \/ Ask(o, "battery", "session", "status")
             \/ Ask(o, "status", "status", "read")
      PROVE  UNCHANGED Turn!vars
  BY <1>8, MoveInTurn DEF Reuse, Connect, Ask, Active, Inside
<1>9. CASE \/ \E l \in up : Drop(l)
           \/ AddPlatforms \/ RemovePlatforms
           \/ Disconnect \/ Disconnected \/ DisconnectCancelled \/ UNCHANGED vars
  <2>1. pc' = pc
    BY <1>9 DEF Drop, AddPlatforms, RemovePlatforms, Disconnect, Disconnected,
                DisconnectCancelled, vars, ops
  <2> QED BY <2>1 DEF Turn!vars
<1> QED BY <1>1, <1>2, <1>3, <1>5, <1>6, <1>7, <1>8, <1>9 DEF Next, Step

(* Whatever overlaps, the polls and prints of a printer take turns: one goes  *)
(* to work only when no other is at work, and once it has ended it is over.   *)
THEOREM TurnsAreTaken == Spec => OpsInTurn
<1>1. Init => OpsOK
  BY InitIInv DEF IInv
<1>2. OpsOK /\ [Next]_vars => OpsOK'
  BY OpsNext
<1> QED BY <1>1, <1>2, InitTakesTurns, StepInTurn, PTL DEF Spec, OpsInTurn, Turn!Spec
=============================================================================
