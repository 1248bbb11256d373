------------------------- MODULE PrintServiceProofs -------------------------
(* Proofs about PrintService for any number of printers and calls: what holds *)
(* however they overlap, and what holds with one at a time.                   *)
EXTENDS PrintService, FiniteSetTheorems, TLAPS

States == {"absent", "broken", "refreshing", "forwarding", "loaded", "unrolling",
           "disconnecting", "unloading", "closing", "stuck"}

Registered   == {"forwarding", "loaded", "unloading"}
MayBeInTable == Registered \cup {"unrolling", "stuck"}

(* The registry holds the printers between their registration and their       *)
(* withdrawal; a setup that fails may or may not have come to register, and   *)
(* an unload that broke off may or may not have come to withdraw.             *)
RegistryOK ==
    /\ entry \in [Entries -> States]
    /\ registry \subseteq Entries
    /\ \A e \in Entries : entry[e] \in Registered => e \in registry
    /\ \A e \in registry : entry[e] \in MayBeInTable

(* A lock is there only for a printer that is not gone. *)
LockOK == lock # 0 => \E e \in Entries : entry[e] # "absent"

IInv == RegistryOK /\ LockOK /\ ServiceWhileLoaded

-----------------------------------------------------------------------------
LEMMA InitIInv == Init => IInv
  BY DEF Init, IInv, RegistryOK, LockOK, ServiceWhileLoaded, States, Registered,
         MayBeInTable

(* Steps of a setup or an unload short of its end. *)
LEMMA ProgressIInv ==
    ASSUME IInv, NEW e \in Entries,
           \/ Setup(e) \/ Unload(e) \/ Register(e) \/ Loaded(e) \/ SetupFails(e)
           \/ SetupBreaks(e) \/ Unroll(e) \/ RollbackBreaks(e)
           \/ UnloadRefused(e) \/ Withdraw(e) \/ UnloadBreaks(e)
    PROVE  IInv'
<1> USE DEF IInv, Enter, States, Registered, MayBeInTable
<1>1. entry' \in [Entries -> States] /\ entry'[e] # "absent"
  BY DEF RegistryOK, Setup, Unload, Register, Loaded, SetupFails, SetupBreaks,
         RollbackBreaks, UnloadBreaks, Unroll, UnloadRefused, Withdraw
<1>2. LockOK'
  BY <1>1 DEF LockOK
<1>3. RegistryOK'
  <2> USE DEF RegistryOK
  <2>1. CASE Register(e)
    <3>1. registry' = registry \cup {e} /\ entry' = [entry EXCEPT ![e] = "forwarding"]
      BY <2>1 DEF Register
    <3> QED BY <3>1
  <2>2. CASE Unroll(e)
    <3>1. registry' = registry \ {e} /\ entry' = [entry EXCEPT ![e] = "disconnecting"]
      BY <2>2 DEF Unroll
    <3> QED BY <3>1
  <2>3. CASE Withdraw(e)
    <3>1. registry' = registry \ {e} /\ entry' = [entry EXCEPT ![e] = "closing"]
      BY <2>3 DEF Withdraw
    <3> QED BY <3>1
  <2>4. CASE Setup(e) \/ Unload(e) \/ Loaded(e) \/ SetupFails(e)
    BY <2>4 DEF Setup, Unload, Loaded, SetupFails, Gone
  <2>5. CASE SetupBreaks(e) \/ UnloadRefused(e)
    BY <2>5 DEF SetupBreaks, UnloadRefused
  <2>6. CASE RollbackBreaks(e) \/ UnloadBreaks(e)
    BY <2>6 DEF RollbackBreaks, UnloadBreaks
  <2> QED BY <2>1, <2>2, <2>3, <2>4, <2>5, <2>6
<1>4. ServiceWhileLoaded'
  BY DEF RegistryOK, ServiceWhileLoaded, Setup, Unload, Register, Loaded,
         SetupFails, SetupBreaks, RollbackBreaks, UnloadBreaks, Unroll,
         UnloadRefused, Withdraw
<1> QED BY <1>2, <1>3, <1>4

(* The end of a failed setup or of an unload: the domain's share goes only if *)
(* the registry is empty, and then no printer is loaded.                      *)
LEMMA EndIInv ==
    ASSUME IInv, NEW e \in Entries, RolledBack(e) \/ Unloaded(e)
    PROVE  IInv'
<1> USE DEF IInv, Enter, States, Registered, MayBeInTable
<1>1. RegistryOK'
  BY DEF RegistryOK, RolledBack, Unloaded
<1>2. ServiceWhileLoaded'
  <2>1. \A f \in Entries : entry'[f] = "loaded" => entry[f] = "loaded" /\ f \in registry
    BY DEF RegistryOK, RolledBack, Unloaded
  <2>2. registry # {} => service' = service
    BY DEF RolledBack, Unloaded
  <2> QED BY <2>1, <2>2 DEF ServiceWhileLoaded
<1>3. LockOK'
  <2> SUFFICES ASSUME lock' # 0 PROVE \E f \in Entries : entry'[f] # "absent"
    BY DEF LockOK
  <2>1. registry # {}
    BY DEF RolledBack, Unloaded
  <2>2. PICK f \in registry : TRUE
    BY <2>1
  <2>3. f \in Entries /\ entry[f] \in MayBeInTable /\ f # e
    BY <2>2 DEF RegistryOK, RolledBack, Unloaded
  <2>4. entry'[f] = entry[f]
    BY <2>3 DEF RegistryOK, RolledBack, Unloaded
  <2> QED BY <2>3, <2>4
<1> QED BY <1>1, <1>2, <1>3

(* A call touches neither the registry nor what the domain shares. *)
LEMMA CallsLeaveEntries ==
    ASSUME NEW j \in Jobs, Call(j) \/ JobStep(j)
    PROVE  UNCHANGED <<entry, registry, lock, service>>
  BY DEF Call, JobStep, Preview, RenderFails, QueueForLock, StartPrint, Printed,
         PrintFails, Release

LEMMA NextIInv == IInv /\ [Next]_vars => IInv'
<1> SUFFICES ASSUME IInv, [Next]_vars PROVE IInv'
  OBVIOUS
<1>1. ASSUME NEW e \in Entries, Setup(e) \/ Unload(e) \/ EntryStep(e) PROVE IInv'
  BY <1>1, ProgressIInv, EndIInv DEF EntryStep
<1>2. ASSUME UNCHANGED <<entry, registry, lock, service>> PROVE IInv'
  BY <1>2 DEF IInv, RegistryOK, LockOK, ServiceWhileLoaded
<1>3. ASSUME NEW j \in Jobs, Call(j) \/ JobStep(j) PROVE IInv'
  BY <1>2, <1>3, CallsLeaveEntries
<1>4. CASE UNCHANGED vars
  BY <1>2, <1>4 DEF vars
<1> QED BY <1>1, <1>3, <1>4 DEF Next

THEOREM Invariance == Spec => []IInv
  BY InitIInv, NextIInv, PTL DEF Spec

(* The print service is registered as long as any printer is loaded. *)
THEOREM ServiceStays == Spec => []ServiceWhileLoaded
<1>1. IInv => ServiceWhileLoaded
  BY DEF IInv
<1> QED BY <1>1, Invariance, PTL

(* With the last printer gone the registry is empty and the lock is gone, but *)
(* for a lock that a setup left which broke off.                              *)
THEOREM LockGoes == Spec => []LockGone
<1>1. IInv => LockGone
  BY DEF IInv, RegistryOK, LockOK, LockGone, MayBeInTable, Registered, Gone
<1> QED BY <1>1, Invariance, PTL

-----------------------------------------------------------------------------
(* One print at a time on each Lock object, however things overlap.           *)
JobStates == Ended \cup {"rendering", "queued", "printing"}

Calls == [pc : JobStates, targets : SUBSET Entries,
          dev : (Entries \X Nat) \cup {NoDevice}, lock : Nat]

LocksOK ==
    /\ lock \in Nat /\ made \in Nat /\ gen \in [Entries -> Nat]
    /\ job \in [Jobs -> Calls]
    /\ \A j \in Jobs : job[j].pc = "printing" => job[j].lock \in held
    /\ \A j, k \in Jobs :
          job[j].pc = "printing" /\ job[k].pc = "printing" /\ job[j].lock = job[k].lock
          => j = k

LEMMA InitLocks == Init => LocksOK
  BY DEF Init, LocksOK, Calls, JobStates, Ended

(* What a step can make of the lock and the device a call knows. *)
Keeps(c, j) ==
    /\ c.lock \in {job[j].lock, lock, 0}
    /\ c.dev = job[j].dev \/ \E e \in registry : c.dev = Device(e)

(* What becomes of a call when its next target is looked up. *)
LEMMA NextTargetDoes ==
    ASSUME LocksOK, NEW j \in Jobs, NEW targets \in SUBSET Entries, NextTarget(j, targets)
    PROVE  \E c \in Calls :
              /\ job' = [job EXCEPT ![j] = c]
              /\ Keeps(c, j)
              /\ \/ c.pc \in Ended
                 \/ c.pc = "rendering" /\ \E e \in registry : c.dev = Device(e)
<1> USE DEF Calls, JobStates, Ended, Keeps
<1>1. job[j] \in Calls
  BY DEF LocksOK
<1>2. CASE job' = [job EXCEPT ![j].pc = "ok", ![j].targets = {}]
  <2> DEFINE c == [job[j] EXCEPT !.pc = "ok", !.targets = {}]
  <2>1. job' = [job EXCEPT ![j] = c]
    BY <1>2
  <2>2. c \in Calls /\ c.pc = "ok" /\ c.lock = job[j].lock /\ c.dev = job[j].dev
    BY <1>1
  <2> HIDE DEF c
  <2> QED BY <2>1, <2>2
<1>3. ASSUME NEW e \in targets,
             job' = [job EXCEPT ![j] =
                       [pc      |-> IF e \in registry THEN "rendering" ELSE "crashed",
                        targets |-> targets \ {e},
                        dev     |-> IF e \in registry THEN Device(e) ELSE @.dev,
                        lock    |-> 0]]
      PROVE  \E c \in Calls :
                /\ job' = [job EXCEPT ![j] = c]
                /\ Keeps(c, j)
                /\ \/ c.pc \in Ended
                   \/ c.pc = "rendering" /\ \E f \in registry : c.dev = Device(f)
  <2> DEFINE c == [pc      |-> IF e \in registry THEN "rendering" ELSE "crashed",
                   targets |-> targets \ {e},
                   dev     |-> IF e \in registry THEN Device(e) ELSE job[j].dev,
                   lock    |-> 0]
  <2>1. job' = [job EXCEPT ![j] = c]
    BY <1>3
  <2>2. Device(e) \in Entries \X Nat
    BY DEF Device, LocksOK
  <2>3. c \in Calls
    BY <1>1, <2>2
  <2>4. /\ c.lock = 0
        /\ \/ c.pc \in Ended /\ c.dev = job[j].dev
           \/ c.pc = "rendering" /\ \E f \in registry : c.dev = Device(f)
    OBVIOUS
  <2> HIDE DEF c
  <2> QED BY <2>1, <2>3, <2>4
<1> QED BY <1>2, <1>3 DEF NextTarget

(* The record of one call after a step of it. *)
LEMMA CallDoes ==
    ASSUME LocksOK, RegistryOK, NEW j \in Jobs, Call(j) \/ JobStep(j)
    PROVE  \E c \in Calls :
              /\ job' = [job EXCEPT ![j] = c]
              /\ Keeps(c, j)
              /\ \/ c.pc \in Ended
                 \/ c.pc = "rendering" /\ \E e \in registry : c.dev = Device(e)
                 \/ /\ c.pc = "queued" /\ job[j].pc = "rendering" /\ lock # 0
                    /\ c.lock = lock /\ c.dev = job[j].dev
                 \/ /\ c.pc = "printing" /\ job[j].pc = "queued"
                    /\ c.lock = job[j].lock /\ c.dev = job[j].dev
                    /\ c.lock \notin held /\ held' = held \cup {c.lock}
<1> USE DEF Ended
<1>1. job[j] \in Calls
  BY DEF LocksOK
<1>2. CASE Call(j)
  <2>1. CASE job' = [job EXCEPT ![j].pc = "failed"]
    <3> DEFINE c == [job[j] EXCEPT !.pc = "failed"]
    <3>1. job' = [job EXCEPT ![j] = c]
      BY <2>1
    <3>2. c \in Calls /\ c.pc = "failed" /\ Keeps(c, j)
      BY <1>1 DEF Calls, JobStates, Keeps
    <3> HIDE DEF c
    <3> QED BY <3>1, <3>2
  <2>2. ASSUME NEW targets \in SUBSET registry, NextTarget(j, targets)
        PROVE  \E c \in Calls :
                  /\ job' = [job EXCEPT ![j] = c]
                  /\ Keeps(c, j)
                  /\ \/ c.pc \in Ended
                     \/ c.pc = "rendering" /\ \E e \in registry : c.dev = Device(e)
    BY <2>2, NextTargetDoes DEF RegistryOK
  <2> QED BY <1>2, <2>1, <2>2 DEF Call
<1>3. CASE Preview(j) \/ Printed(j)
  <2>1. NextTarget(j, job[j].targets) /\ job[j].targets \in SUBSET Entries
    BY <1>1, <1>3 DEF Preview, Printed, Calls
  <2> QED BY <2>1, NextTargetDoes
<1>4. CASE RenderFails(j) \/ PrintFails(j)
  <2> DEFINE c == [job[j] EXCEPT !.pc = "failed"]
  <2>1. c \in Calls /\ c.pc = "failed" /\ Keeps(c, j)
    BY <1>1 DEF Calls, JobStates, Keeps
  <2>2. job' = [job EXCEPT ![j] = c]
    BY <1>4 DEF RenderFails, PrintFails
  <2> HIDE DEF c
  <2> QED BY <2>1, <2>2
<1>5. CASE QueueForLock(j)
  <2> DEFINE c == [job[j] EXCEPT !.pc = IF lock = 0 THEN "crashed" ELSE "queued",
                                 !.lock = lock]
  <2>1. job' = [job EXCEPT ![j] = c] /\ job[j].pc = "rendering"
    BY <1>5 DEF QueueForLock
  <2>2. /\ c \in Calls /\ c.lock = lock /\ c.dev = job[j].dev
        /\ c.pc = "crashed" \/ (c.pc = "queued" /\ lock # 0)
    BY <1>1 DEF Calls, JobStates, LocksOK
  <2> HIDE DEF c
  <2> QED BY <2>1, <2>2 DEF Keeps
<1>6. CASE StartPrint(j)
  <2> DEFINE c == [job[j] EXCEPT !.pc = "printing"]
  <2>1. /\ job' = [job EXCEPT ![j] = c] /\ job[j].pc = "queued"
        /\ job[j].lock \notin held /\ held' = held \cup {job[j].lock}
    BY <1>6 DEF StartPrint
  <2>2. c \in Calls /\ c.pc = "printing" /\ c.lock = job[j].lock /\ c.dev = job[j].dev
    BY <1>1 DEF Calls, JobStates
  <2> HIDE DEF c
  <2> QED BY <2>1, <2>2 DEF Keeps
<1> QED BY <1>2, <1>3, <1>4, <1>5, <1>6 DEF JobStep

(* A call leaves the links alone but for that of the device it prints on.     *)
LEMMA LinksOfCall ==
    ASSUME NEW j \in Jobs, Call(j) \/ JobStep(j)
    PROVE  \/ UNCHANGED links
           \/ /\ job[j].pc \in {"queued", "printing"}
              /\ \E link \in {{}, {job[j].dev}} : Connect(job[j].dev, link)
<1>1. CASE Call(j) \/ Preview(j) \/ RenderFails(j) \/ QueueForLock(j)
  BY <1>1 DEF Call, Preview, RenderFails, QueueForLock
<1>2. CASE StartPrint(j)
  BY <1>2 DEF StartPrint
<1>3. CASE Printed(j) \/ PrintFails(j)
  BY <1>3 DEF Printed, PrintFails, Release
<1> QED BY <1>1, <1>2, <1>3 DEF JobStep

LEMMA HeldDoes ==
    ASSUME NEW j \in Jobs, Call(j) \/ JobStep(j)
    PROVE  \/ held \subseteq held'
           \/ job[j].pc = "printing" /\ held' = held \ {job[j].lock}
  BY DEF Call, JobStep, Preview, RenderFails, QueueForLock, StartPrint, Printed,
         PrintFails, Release

LEMMA LocksNext == RegistryOK /\ LocksOK /\ [Next]_vars => LocksOK'
<1> SUFFICES ASSUME RegistryOK, LocksOK, [Next]_vars PROVE LocksOK'
  OBVIOUS
<1>1. ASSUME UNCHANGED <<lock, made, gen, job, held>> PROVE LocksOK'
  BY <1>1 DEF LocksOK
<1>2. ASSUME NEW e \in Entries, Setup(e) \/ Unload(e) \/ EntryStep(e) PROVE LocksOK'
  <2>1. lock' \in Nat /\ made' \in Nat /\ gen' \in [Entries -> Nat]
    BY <1>2 DEF LocksOK, Setup, Unload, EntryStep, Register, Loaded, SetupFails,
                SetupBreaks, RollbackBreaks, UnloadBreaks, Unroll, RolledBack,
                UnloadRefused, Withdraw, Unloaded
  <2>2. UNCHANGED <<job, held>>
    BY <1>2 DEF Setup, Unload, EntryStep, Register, Loaded, SetupFails,
                SetupBreaks, RollbackBreaks, UnloadBreaks, Unroll, RolledBack,
                UnloadRefused, Withdraw, Unloaded
  <2> QED BY <2>1, <2>2 DEF LocksOK
<1>3. ASSUME NEW j \in Jobs, Call(j) \/ JobStep(j) PROVE LocksOK'
  <2>1. UNCHANGED <<lock, made, gen>>
    BY <1>3 DEF Call, JobStep, Preview, RenderFails, QueueForLock, StartPrint,
                Printed, PrintFails, Release
  <2>2. PICK c \in Calls :
           /\ job' = [job EXCEPT ![j] = c]
           /\ c.pc = "printing" => c.lock \notin held /\ held' = held \cup {c.lock}
    BY <1>3, CallDoes DEF Ended
  <2>3. job' \in [Jobs -> Calls] /\ job'[j] = c /\ \A k \in Jobs \ {j} : job'[k] = job[k]
    BY <2>2 DEF LocksOK
  <2>4. \A k \in Jobs \ {j} : job[k].pc = "printing" => job[k].lock \in held'
    BY <1>3, HeldDoes DEF LocksOK
  <2> QED BY <2>1, <2>2, <2>3, <2>4 DEF LocksOK
<1>4. CASE UNCHANGED vars
  BY <1>1, <1>4 DEF vars
<1> QED BY <1>2, <1>3, <1>4 DEF Next

-----------------------------------------------------------------------------
(* With no setup or unload beside a call: a call under way finds every entry  *)
(* at rest, its device is that of a registered printer, and the Lock object   *)
(* it knows is still the one everybody uses.                                  *)
CallsOK ==
    /\ (\E e \in Entries : entry[e] \notin Resting) => \A j \in Jobs : job[j].pc \in Ended
    /\ \A j \in Jobs : job[j].pc \notin Ended => \E e \in registry : job[j].dev = Device(e)
    /\ \A j \in Jobs : job[j].pc \in {"queued", "printing"} => job[j].lock = lock

LEMMA InitCalls == Init => CallsOK
  BY DEF Init, CallsOK, Ended, Resting

LEMMA CallsNext ==
    ASSUME ~OverlapJobs, RegistryOK, LocksOK, CallsOK, [Next]_vars
    PROVE  CallsOK'
<1>1. ASSUME UNCHANGED <<entry, gen, registry, lock, job>> PROVE CallsOK'
  BY <1>1 DEF CallsOK, Device
<1>2. ASSUME NEW e \in Entries, Setup(e) \/ Unload(e) \/ EntryStep(e)
      PROVE  CallsOK'
  <2>1. job' = job /\ \A j \in Jobs : job[j].pc \in Ended
    <3>1. CASE Setup(e) \/ Unload(e)
      BY <3>1 DEF Setup, Unload, JobsFree
    <3>2. CASE EntryStep(e)
      BY <3>2 DEF EntryStep, Register, Loaded, SetupFails, SetupBreaks,
                  RollbackBreaks, UnloadBreaks, Unroll, RolledBack, UnloadRefused,
                  Withdraw, Unloaded, CallsOK, Resting, Gone
    <3> QED BY <1>2, <3>1, <3>2
  <2> QED BY <2>1 DEF CallsOK, Ended
<1>3. ASSUME NEW j \in Jobs, Call(j) \/ JobStep(j) PROVE CallsOK'
  <2>1. UNCHANGED <<entry, registry, lock, gen>>
    BY <1>3 DEF Call, JobStep, Preview, RenderFails, QueueForLock, StartPrint,
                Printed, PrintFails, Release
  <2>2. \A e \in Entries : entry[e] \in Resting
    BY <1>3 DEF Call, JobStep, Preview, RenderFails, QueueForLock, StartPrint,
                Printed, PrintFails, Release, CallsOK, Ended
  <2>3. PICK c \in Calls :
           /\ job' = [job EXCEPT ![j] = c]
           /\ c.pc \notin Ended => \E e \in registry : c.dev = Device(e)
           /\ c.pc \in {"queued", "printing"} => c.lock = lock
    BY <1>3, CallDoes DEF CallsOK, Ended
  <2>4. job'[j] = c /\ \A k \in Jobs \ {j} : job'[k] = job[k]
    BY <2>3 DEF LocksOK
  <2> QED BY <2>1, <2>2, <2>3, <2>4 DEF CallsOK, Device
<1>4. CASE UNCHANGED vars
  BY <1>1, <1>4 DEF vars
<1> QED BY <1>2, <1>3, <1>4 DEF Next

-----------------------------------------------------------------------------
(* Links.  A device that has a link, or that a call means to print on, was    *)
(* made by a setup of its entry, and that setup has come to register it.      *)
Known == open \cup {job[j].dev : j \in {k \in Jobs : job[k].pc \notin Ended}}

LinksOK ==
    /\ \A d \in Known :
          /\ d \in Entries \X Nat
          /\ d[2] <= gen[d[1]]
          /\ entry[d[1]] = "refreshing" => d # Device(d[1])
    /\ loose \subseteq open
    /\ OrphanClosed

LEMMA InitLinks == Init => LinksOK
  BY DEF Init, LinksOK, Known, OrphanClosed, Ended

(* A step that leaves the links alone and lets nobody go. *)
LEMMA NobodyLeaves ==
    ASSUME LinksOK, UNCHANGED <<gen, job, links>>,
           \A f \in Entries :
              /\ entry'[f] = "refreshing" => entry[f] = "refreshing"
              /\ entry'[f] \in Gone => entry[f] \in Gone \cup {"refreshing"}
    PROVE  LinksOK'
<1>1. Known' = Known /\ open' = open /\ loose' = loose
  BY DEF Known, links
<1>2. ASSUME NEW d \in Known
      PROVE  /\ d[1] \in Entries
             /\ entry'[d[1]] = "refreshing" => d # <<d[1], gen'[d[1]]>>
  <2>1. d[1] \in Entries
    BY DEF LinksOK
  <2>2. gen' = gen /\ (entry'[d[1]] = "refreshing" => entry[d[1]] = "refreshing")
    BY <2>1
  <2> QED BY <2>1, <2>2 DEF LinksOK, Device
<1>3. ASSUME NEW d \in open, LetGo(d)' PROVE d \in loose
  <2>1. d \in Known /\ d[1] \in Entries
    BY <1>2 DEF Known
  <2>2. gen' = gen
    OBVIOUS
  <2>3. LetGo(d)
    <3>1. CASE d # <<d[1], gen'[d[1]]>>
      BY <2>2, <3>1 DEF LetGo, Device
    <3>2. CASE entry'[d[1]] \in Gone
      BY <2>1, <3>2 DEF LetGo, LinksOK
    <3> QED BY <1>3, <3>1, <3>2 DEF LetGo, Device
  <2> QED BY <2>3 DEF LinksOK, OrphanClosed
<1> QED BY <1>1, <1>2, <1>3 DEF LinksOK, OrphanClosed, Device

(* disconnect() at the end of a setup or an unload. *)
LEMMA DisconnectLinks ==
    ASSUME LinksOK, NEW e \in Entries, Disconnect(e), UNCHANGED <<gen, job>>,
           entry'[e] # "refreshing",
           \A f \in Entries \ {e} : entry'[f] = entry[f]
    PROVE  LinksOK'
<1>1. PICK up \in {open \ {Device(e)}, open} :
         open' = up /\ loose' = (loose \cup {Device(e)}) \cap up
  BY DEF Disconnect, Linked
<1>2. Known' \subseteq Known
  BY <1>1 DEF Known
<1>3. \A d \in Known' : entry'[d[1]] = "refreshing" => d # <<d[1], gen'[d[1]]>>
  BY <1>2 DEF LinksOK, Device
<1>4. ASSUME NEW d \in open', LetGo(d)' PROVE d \in loose'
  <2>1. d \in open /\ d[1] \in Entries
    BY <1>1 DEF LinksOK, Known
  <2>2. CASE d = Device(e)
    BY <1>1, <2>2
  <2>3. CASE d # Device(e)
    <3>1. LetGo(d)
      BY <1>4, <2>1, <2>3 DEF LetGo, Device
    <3> QED BY <1>1, <2>1, <3>1 DEF LinksOK, OrphanClosed
  <2> QED BY <2>2, <2>3
<1> QED BY <1>1, <1>2, <1>3, <1>4 DEF LinksOK, OrphanClosed, Device

LEMMA SetupLinks ==
    ASSUME LinksOK, RegistryOK, LocksOK, NEW e \in Entries, Setup(e)
    PROVE  LinksOK'
<1>1. /\ gen' = [gen EXCEPT ![e] = gen[e] + 1] /\ gen[e] \in Nat
      /\ entry' = [entry EXCEPT ![e] = "refreshing"] /\ entry[e] \in Gone
      /\ UNCHANGED <<job, open, loose>>
  BY DEF Setup, Enter, LocksOK, links
<1>2. Known' = Known
  BY <1>1 DEF Known
<1>3. \A f \in Entries : gen[f] \in Nat /\ gen'[f] \in Nat
  BY <1>1 DEF LocksOK
<1>4. ASSUME NEW d \in Known
      PROVE  d[2] <= gen'[d[1]] /\ (entry'[d[1]] = "refreshing" => d # <<d[1], gen'[d[1]]>>)
  <2>1. d[1] \in Entries /\ d[2] \in Nat /\ d[2] <= gen[d[1]]
    BY DEF LinksOK
  <2>2. CASE d[1] = e
    <3>1. gen'[d[1]] = gen[d[1]] + 1
      BY <1>1, <2>1, <2>2 DEF LocksOK
    <3>2. d[2] < gen'[d[1]]
      BY <1>3, <2>1, <3>1
    <3>3. d # <<d[1], gen'[d[1]]>>
      BY <1>3, <2>1, <3>2
    <3> QED BY <1>3, <2>1, <3>2, <3>3
  <2>3. CASE d[1] # e
    <3>1. gen'[d[1]] = gen[d[1]] /\ entry'[d[1]] = entry[d[1]]
      BY <1>1, <2>1, <2>3 DEF LocksOK, RegistryOK
    <3> QED BY <2>1, <3>1 DEF LinksOK, Device
  <2> QED BY <2>2, <2>3
<1>5. ASSUME NEW d \in open, LetGo(d)' PROVE d \in loose
  <2>1. d[1] \in Entries
    BY DEF LinksOK, Known
  <2>2. LetGo(d)
    BY <1>1, <1>5, <2>1 DEF LetGo, Device, RegistryOK, LocksOK
  <2> QED BY <2>2 DEF LinksOK, OrphanClosed
<1> QED BY <1>1, <1>2, <1>4, <1>5 DEF LinksOK, OrphanClosed, Device

LEMMA RegisterLinks ==
    ASSUME LinksOK, RegistryOK, LocksOK, NEW e \in Entries, Register(e)
    PROVE  LinksOK'
<1>1. /\ UNCHANGED <<gen, job>> /\ entry' = [entry EXCEPT ![e] = "forwarding"]
      /\ \E stale \in SUBSET open, kept \in {{}, {Device(e)}} :
             Linked((open \ stale) \cup kept, {})
  BY DEF Register, Enter
<1>2. /\ open' \subseteq open \cup {Device(e)}
      /\ loose' = loose \cap open'
  BY <1>1 DEF Linked
<1>3. Known' \subseteq Known \cup {Device(e)}
  BY <1>1, <1>2 DEF Known
<1>4. Device(e) \in Entries \X Nat /\ Device(e)[1] = e /\ Device(e)[2] = gen[e]
      /\ gen[e] \in Nat /\ entry'[e] = "forwarding"
  BY <1>1 DEF Device, LocksOK, RegistryOK
<1>5. ASSUME NEW d \in Known'
      PROVE  /\ d \in Entries \X Nat /\ d[2] <= gen'[d[1]]
             /\ entry'[d[1]] = "refreshing" => d # <<d[1], gen'[d[1]]>>
  <2>1. CASE d = Device(e)
    BY <1>1, <1>4, <2>1
  <2>2. CASE d \in Known
    BY <1>1, <2>2 DEF LinksOK, Device, RegistryOK
  <2> QED BY <1>3, <2>1, <2>2
<1>6. ASSUME NEW d \in open', LetGo(d)' PROVE d \in loose'
  <2>1. d # Device(e)
    BY <1>1, <1>4, <1>6 DEF LetGo, Device, Gone
  <2>2. d \in open /\ d[1] \in Entries
    BY <1>2, <2>1 DEF LinksOK, Known
  <2>3. LetGo(d)
    BY <1>1, <1>6, <2>1, <2>2 DEF LetGo, Device, RegistryOK
  <2> QED BY <1>2, <2>2, <2>3 DEF LinksOK, OrphanClosed
<1> QED BY <1>2, <1>5, <1>6 DEF LinksOK, OrphanClosed, Device

LEMMA CallLinks ==
    ASSUME LinksOK, RegistryOK, LocksOK, NEW j \in Jobs, Call(j) \/ JobStep(j)
    PROVE  LinksOK'
<1>1. UNCHANGED <<entry, gen>>
  BY DEF Call, JobStep, Preview, RenderFails, QueueForLock, StartPrint, Printed,
         PrintFails, Release
<1>2. PICK c \in Calls :
         /\ job' = [job EXCEPT ![j] = c]
         /\ \/ c.pc \in Ended
            \/ \E e \in registry : c.dev = Device(e)
            \/ c.dev = job[j].dev /\ job[j].pc \notin Ended
  BY CallDoes DEF Ended
<1>3. job'[j] = c /\ \A k \in Jobs \ {j} : job'[k] = job[k]
  BY <1>2 DEF LocksOK
<1>4. /\ open' \subseteq Known
      /\ loose' \subseteq open'
      /\ \A d \in open' : LetGo(d) => d \in loose'
  <2>1. CASE UNCHANGED links
    BY <2>1 DEF links, LinksOK, OrphanClosed, Known
  <2>2. ASSUME NEW link \in {{}, {job[j].dev}}, Connect(job[j].dev, link),
               job[j].pc \in {"queued", "printing"}
        PROVE  /\ open' \subseteq Known
               /\ loose' \subseteq open'
               /\ \A d \in open' : LetGo(d) => d \in loose'
    <3>1. job[j].dev \in Known
      BY <2>2 DEF Known, Ended
    <3>2. /\ open' = (open \ {job[j].dev}) \cup link
          /\ loose' = (loose \cup (IF LetGo(job[j].dev) THEN link ELSE {})) \cap open'
      BY <2>2 DEF Connect, Linked
    <3> QED BY <3>1, <3>2 DEF LinksOK, OrphanClosed, Known
  <2> QED BY <2>1, <2>2, LinksOfCall
<1>5. \A e \in registry :
         /\ Device(e) \in Entries \X Nat /\ Device(e)[1] = e
         /\ Device(e)[2] = gen[e] /\ gen[e] \in Nat
         /\ entry[e] # "refreshing"
  BY DEF RegistryOK, MayBeInTable, Registered, Device, LocksOK
<1>6. ASSUME NEW d \in Known'
      PROVE  d \in Known \/ \E e \in registry : d = Device(e)
  <2>1. CASE d \in open'
    BY <1>4, <2>1
  <2>2. ASSUME NEW k \in Jobs, job'[k].pc \notin Ended, d = job'[k].dev
        PROVE  d \in Known \/ \E e \in registry : d = Device(e)
    <3>1. CASE k = j
      BY <1>2, <1>3, <2>2, <3>1 DEF Known
    <3>2. CASE k # j
      BY <1>3, <2>2, <3>2 DEF Known
    <3> QED BY <3>1, <3>2
  <2> QED BY <2>1, <2>2 DEF Known
<1>7. \A d \in Known' :
         /\ d \in Entries \X Nat /\ d[2] <= gen[d[1]]
         /\ entry[d[1]] = "refreshing" => d # Device(d[1])
  BY <1>5, <1>6 DEF LinksOK
<1>8. ASSUME NEW d \in open', LetGo(d)' PROVE d \in loose'
  <2>1. LetGo(d)
    BY <1>1, <1>8 DEF LetGo, Device
  <2> QED BY <1>4, <2>1
<1>9. \A d \in Known' :
         /\ d \in Entries \X Nat /\ d[2] <= gen'[d[1]]
         /\ entry'[d[1]] = "refreshing" => d # <<d[1], gen'[d[1]]>>
  BY <1>1, <1>7 DEF Device
<1> QED BY <1>4, <1>8, <1>9 DEF LinksOK, OrphanClosed, Device

LEMMA LinksNext ==
    ASSUME RegistryOK, LocksOK, LinksOK, [Next]_vars
    PROVE  LinksOK'
<1>1. ASSUME NEW e \in Entries, Unload(e) \/ EntryStep(e), ~Register(e)
      PROVE  LinksOK'
  <2>1. /\ UNCHANGED <<gen, job>>
        /\ \A f \in Entries \ {e} : entry'[f] = entry[f]
        /\ entry'[e] # "refreshing"
    BY <1>1 DEF RegistryOK, Enter, Unload, EntryStep, Register, Loaded,
                SetupFails, SetupBreaks, RollbackBreaks, UnloadBreaks, Unroll,
                RolledBack, UnloadRefused, Withdraw, Unloaded
  <2>2. CASE RolledBack(e) \/ RollbackBreaks(e) \/ Unloaded(e) \/ UnloadBreaks(e)
    BY <2>1, <2>2, DisconnectLinks DEF RolledBack, RollbackBreaks, Unloaded,
          UnloadBreaks
  <2>3. CASE \/ Unload(e) \/ Loaded(e) \/ SetupBreaks(e) \/ SetupFails(e) \/ Unroll(e)
             \/ UnloadRefused(e) \/ Withdraw(e)
    <3>1. /\ UNCHANGED links
          /\ entry'[e] \in Gone => entry[e] = "refreshing"
      BY <2>3 DEF RegistryOK, Enter, Unload, Loaded, SetupBreaks, SetupFails,
                  Unroll, UnloadRefused, Withdraw, Gone
    <3> QED BY <2>1, <3>1, NobodyLeaves
  <2> QED BY <1>1, <2>2, <2>3 DEF EntryStep
<1>2. CASE UNCHANGED vars
  BY <1>2, NobodyLeaves DEF vars
<1> QED BY <1>1, <1>2, SetupLinks, RegisterLinks, CallLinks DEF Next, EntryStep

-----------------------------------------------------------------------------
(* With one setup or unload at a time: whoever is not gone has a lock, and    *)
(* the service is there for somebody.                                         *)
TurnsOK ==
    /\ \A e, f \in Entries : entry[e] \notin Resting /\ entry[f] \notin Resting => e = f
    /\ \A e \in Entries : entry[e] \notin Gone \cup {"stuck"} => lock # 0
    /\ service => \E e \in Entries : entry[e] \in {"loaded", "stuck", "unloading", "closing"}

LEMMA InitTurns == Init => TurnsOK
  BY DEF Init, TurnsOK, Resting, Gone

LEMMA TurnsNext ==
    ASSUME ~OverlapEntries, RegistryOK, LocksOK, TurnsOK, [Next]_vars
    PROVE  TurnsOK'
<1>1. ASSUME UNCHANGED <<entry, lock, service>> PROVE TurnsOK'
  BY <1>1 DEF TurnsOK
<1>2. ASSUME NEW e \in Entries, Setup(e) \/ Unload(e) \/ EntryStep(e) PROVE TurnsOK'
  <2>1. \A f \in Entries \ {e} : entry'[f] = entry[f]
    BY <1>2 DEF RegistryOK, Enter, Setup, Unload, EntryStep, Register, Loaded,
                SetupFails, SetupBreaks, RollbackBreaks, UnloadBreaks, Unroll,
                RolledBack, UnloadRefused, Withdraw, Unloaded
  <2>2. \A f \in Entries \ {e} : entry[f] \in Resting
    <3>1. CASE Setup(e) \/ Unload(e)
      BY <3>1 DEF Setup, Unload, EntriesFree
    <3>2. CASE EntryStep(e)
      <4>1. entry[e] \notin Resting
        BY <3>2 DEF EntryStep, Register, Loaded, SetupFails, SetupBreaks,
                    RollbackBreaks, UnloadBreaks, Unroll, RolledBack,
                    UnloadRefused, Withdraw, Unloaded, Resting, Gone
      <4> QED BY <4>1 DEF TurnsOK
    <3> QED BY <1>2, <3>1, <3>2
  <2>3. CASE Setup(e)
    <3>1. lock' # 0 /\ service' = service /\ entry[e] \in Gone
      BY <2>3 DEF Setup, LocksOK
    <3> QED BY <2>1, <2>2, <3>1 DEF TurnsOK, Gone
  <2>4. CASE RolledBack(e) \/ Unloaded(e)
    <3>1. entry'[e] = "absent" /\ registry \subseteq Entries \ {e}
      BY <2>4 DEF RegistryOK, MayBeInTable, Registered, Enter, RolledBack, Unloaded
    <3>2. CASE registry = {}
      <4>1. \A f \in Entries : entry'[f] \in Gone \cup {"stuck"}
        BY <2>1, <2>2, <3>1, <3>2 DEF RegistryOK, Registered, Resting, Gone
      <4>2. CASE Unloaded(e)
        <5>1. ~service'
          BY <3>2, <4>2 DEF Unloaded
        <5> QED BY <4>1, <5>1 DEF TurnsOK, Resting
      <4>3. CASE RolledBack(e)
        <5>1. service' => \E f \in Entries :
                             entry'[f] \in {"loaded", "stuck", "unloading", "closing"}
          BY <2>1, <4>3 DEF RolledBack, TurnsOK
        <5> QED BY <4>1, <5>1 DEF TurnsOK, Resting
      <4> QED BY <2>4, <4>2, <4>3
    <3>3. CASE registry # {}
      <4>1. UNCHANGED <<lock, service>>
        BY <2>4, <3>3 DEF RolledBack, Unloaded
      <4>2. PICK f \in registry : TRUE
        BY <3>3
      <4>3. f \in Entries /\ entry'[f] \in {"loaded", "stuck"}
        BY <2>1, <2>2, <3>1, <4>2 DEF RegistryOK, MayBeInTable, Registered,
              Resting, Gone
      <4> QED BY <2>1, <2>2, <3>1, <4>1, <4>3 DEF TurnsOK, Resting, Gone
    <3> QED BY <3>2, <3>3
  <2>5. CASE Unload(e) \/ (EntryStep(e) /\ ~RolledBack(e) /\ ~Unloaded(e))
    <3>1. /\ lock' = lock /\ entry[e] \notin Gone \cup {"stuck"}
      BY <2>5 DEF Unload, EntryStep, Register, Loaded, SetupFails, SetupBreaks,
                  RollbackBreaks, UnloadBreaks, Unroll, RolledBack, UnloadRefused,
                  Withdraw, Unloaded, Gone
    <3>2. service' => \E f \in Entries :
                          entry'[f] \in {"loaded", "stuck", "unloading", "closing"}
      <4>1. CASE Loaded(e)
        BY <4>1 DEF Loaded, Enter, RegistryOK
      <4>2. CASE Register(e) \/ SetupFails(e) \/ SetupBreaks(e) \/ Unroll(e)
                 \/ RollbackBreaks(e)
        BY <2>1, <4>2 DEF Register, SetupFails, SetupBreaks, Unroll,
                          RollbackBreaks, TurnsOK
      <4>3. CASE Unload(e) \/ UnloadRefused(e) \/ Withdraw(e) \/ UnloadBreaks(e)
        BY <4>3 DEF Unload, UnloadRefused, Withdraw, UnloadBreaks, Enter, RegistryOK
      <4> QED BY <2>5, <4>1, <4>2, <4>3 DEF EntryStep
    <3> QED BY <2>1, <2>2, <3>1, <3>2 DEF TurnsOK
  <2> QED BY <1>2, <2>3, <2>4, <2>5 DEF EntryStep
<1>3. ASSUME NEW j \in Jobs, Call(j) \/ JobStep(j) PROVE TurnsOK'
  BY <1>1, <1>3, CallsLeaveEntries
<1>4. CASE UNCHANGED vars
  BY <1>1, <1>4 DEF vars
<1> QED BY <1>2, <1>3, <1>4 DEF Next

-----------------------------------------------------------------------------
LEMMA LocksInvariance == Spec => [](RegistryOK /\ LocksOK)
<1>1. Init => LocksOK
  BY InitLocks
<1>2. RegistryOK /\ LocksOK /\ [Next]_vars => LocksOK'
  BY LocksNext
<1>3. IInv => RegistryOK
  BY DEF IInv
<1> QED BY <1>1, <1>2, <1>3, Invariance, PTL DEF Spec

LEMMA CallsInvariance == ASSUME ~OverlapJobs PROVE Spec => [](LocksOK /\ CallsOK)
<1>1. Init => CallsOK
  BY InitCalls
<1>2. RegistryOK /\ LocksOK /\ CallsOK /\ [Next]_vars => CallsOK'
  BY CallsNext
<1> QED BY <1>1, <1>2, LocksInvariance, PTL DEF Spec

(* As long as no setup or unload overlaps a call, at most one call prints at  *)
(* any time, over all printers (__init__.py:251).                             *)
THEOREM OneAtATime == ASSUME ~OverlapJobs PROVE Spec => []OneBleJob
<1>1. LocksOK /\ CallsOK => OneBleJob
  <2> SUFFICES ASSUME LocksOK, CallsOK PROVE OneBleJob
    OBVIOUS
  <2> DEFINE P == {j \in Jobs : job[j].pc = "printing"}
  <2>1. \A j, k \in P : j = k
    BY DEF LocksOK, CallsOK
  <2>2. CASE P = {}
    BY <2>2, FS_EmptySet DEF OneBleJob
  <2>3. CASE P # {}
    <3>1. PICK j \in P : TRUE
      BY <2>3
    <3>2. P = {j}
      BY <2>1, <3>1
    <3>3. Cardinality(P) = 1
      BY <3>2, FS_Singleton
    <3> QED BY <3>3 DEF OneBleJob
  <2> QED BY <2>2, <2>3
<1> QED BY <1>1, CallsInvariance, PTL

(* However setups, unloads and calls overlap, a printer that was let go is    *)
(* left connected only where its own disconnect() failed or a call connected  *)
(* it afterwards.                                                             *)
THEOREM OrphansClosed == Spec => []OrphanClosed
<1>1. RegistryOK /\ LocksOK /\ LinksOK /\ [Next]_vars => LinksOK'
  BY LinksNext
<1>2. LinksOK => OrphanClosed
  BY DEF LinksOK
<1> QED BY <1>1, <1>2, InitLinks, LocksInvariance, PTL DEF Spec

(* With one setup or unload at a time, a loaded printer has a lock and the    *)
(* service goes with the last one (__init__.py:350).                          *)
THEOREM SharedStays == ASSUME ~OverlapEntries PROVE Spec => []SharedInTurn
<1>1. Init => TurnsOK
  BY InitTurns
<1>2. RegistryOK /\ LocksOK /\ TurnsOK /\ [Next]_vars => TurnsOK'
  BY TurnsNext
<1>3. TurnsOK => SharedInTurn
  BY DEF TurnsOK, SharedInTurn, Gone
<1> QED BY <1>1, <1>2, <1>3, LocksInvariance, PTL DEF Spec

-----------------------------------------------------------------------------
(* Who holds the Lock objects, whatever overlaps: every one that is held is   *)
(* held by a call that prints (none is leaked by a call that ended), and by   *)
(* one call only.  What fails when the lock is replaced (OneBleJob) is that   *)
(* there is one such object.                                                  *)
OnePerLock ==
    /\ \A l \in held : \E j \in Jobs : job[j].pc = "printing" /\ job[j].lock = l
    /\ \A j \in Jobs : job[j].pc = "printing" => job[j].lock \in held
    /\ \A j, k \in Jobs :
          job[j].pc = "printing" /\ job[k].pc = "printing" /\ job[j].lock = job[k].lock
          => j = k

(* A step of a call leaves the locks alone, or takes the one it queued for,   *)
(* or gives back the one it held.                                             *)
LEMMA LockMoves ==
    ASSUME LocksOK, NEW j \in Jobs, Call(j) \/ JobStep(j)
    PROVE  /\ \A k \in Jobs \ {j} : job'[k] = job[k]
           /\ \/ job[j].pc # "printing" /\ held' = held
              \/ /\ job'[j].pc = "printing" /\ job'[j].lock = job[j].lock
                 /\ job[j].pc # "printing" /\ held' = held \cup {job[j].lock}
              \/ job[j].pc = "printing" /\ held' = held \ {job[j].lock}
<1>1. \A k \in Jobs \ {j} : job'[k] = job[k]
  BY DEF LocksOK, Call, JobStep, Preview, RenderFails, QueueForLock, StartPrint,
         Printed, PrintFails, NextTarget
<1>2. CASE Call(j) \/ Preview(j) \/ RenderFails(j) \/ QueueForLock(j)
  BY <1>1, <1>2 DEF Call, Preview, RenderFails, QueueForLock
<1>3. CASE StartPrint(j)
  BY <1>1, <1>3 DEF StartPrint, LocksOK, Calls
<1>4. CASE Printed(j) \/ PrintFails(j)
  BY <1>1, <1>4 DEF Printed, PrintFails, Release
<1> QED BY <1>2, <1>3, <1>4 DEF JobStep

LEMMA OwnersNext ==
    ASSUME LocksOK, LocksOK', OnePerLock, [Next]_vars
    PROVE  OnePerLock'
<1> SUFFICES ASSUME NEW l \in held'
             PROVE  \E j \in Jobs : job'[j].pc = "printing" /\ job'[j].lock = l
  BY DEF OnePerLock, LocksOK
<1>1. CASE UNCHANGED <<job, held>>
  BY <1>1 DEF OnePerLock
<1>2. ASSUME NEW e \in Entries, Setup(e) \/ Unload(e) \/ EntryStep(e)
      PROVE  UNCHANGED <<job, held>>
  BY <1>2 DEF Setup, Unload, EntryStep, Register, Loaded, SetupFails, SetupBreaks,
              RollbackBreaks, UnloadBreaks, Unroll, RolledBack, UnloadRefused,
              Withdraw, Unloaded
<1>3. ASSUME NEW j \in Jobs, Call(j) \/ JobStep(j)
      PROVE  \E k \in Jobs : job'[k].pc = "printing" /\ job'[k].lock = l
  <2>1. CASE l \in held /\ (job[j].pc = "printing" => l # job[j].lock)
    <3>1. PICK k \in Jobs : job[k].pc = "printing" /\ job[k].lock = l
      BY <2>1 DEF OnePerLock
    <3> QED BY <1>3, <2>1, <3>1, LockMoves
  <2>2. CASE ~(l \in held /\ (job[j].pc = "printing" => l # job[j].lock))
    BY <1>3, <2>2, LockMoves
  <2> QED BY <2>1, <2>2
<1>4. CASE UNCHANGED vars
  BY <1>1, <1>4 DEF vars
<1> QED BY <1>1, <1>2, <1>3, <1>4 DEF Next

(* However setups, unloads and calls overlap, a call that ends has given its  *)
(* lock back, however it ended, and no two calls ever hold the same one       *)
(* (__init__.py:255-256).                                                     *)
THEOREM LocksAreOwned == Spec => []OnePerLock
<1>1. Init => OnePerLock
  BY DEF Init, OnePerLock, Ended
<1>2. LocksOK /\ LocksOK' /\ OnePerLock /\ [Next]_vars => OnePerLock'
  BY OwnersNext
<1> QED BY <1>1, <1>2, LocksInvariance, PTL DEF Spec

-----------------------------------------------------------------------------
(* How many Lock objects there can be.  A Lock is made by a setup, so no more *)
(* have been made than there have been setups.                                *)

SetUp == {d \in Devices : d[2] <= gen[d[1]]}

CountsOK ==
    /\ gen \in [Entries -> 0..MaxSetups]
    /\ \A e \in Entries : entry[e] # "absent" => gen[e] # 0
    /\ made <= Cardinality(SetUp) /\ lock <= made
    /\ \A j \in Jobs :
          /\ job[j].lock <= made
          /\ job[j].pc \in {"queued", "printing"} => job[j].lock # 0
          /\ job[j].pc \in {"rendering", "queued", "printing"} => job[j].dev \in Devices
          /\ job[j].dev \in Devices \cup {NoDevice}
    /\ held \subseteq 1..made
    /\ open \subseteq Devices /\ loose \subseteq open
    /\ service \in BOOLEAN

LEMMA DevicesFinite ==
    /\ IsFiniteSet(Devices)
    /\ Cardinality(Entries) \in Nat
    /\ Cardinality(Devices) = Cardinality(Entries) * MaxSetups
<1>1. IsFiniteSet(1..MaxSetups) /\ Cardinality(1..MaxSetups) = MaxSetups
  BY PrintServiceAssumption, FS_Interval DEF PrintServiceAssumption
<1>2. IsFiniteSet(Entries) /\ Cardinality(Entries) \in Nat
  BY PrintServiceAssumption, FS_CardinalityType DEF PrintServiceAssumption
<1> QED BY <1>1, <1>2, FS_Product DEF Devices

LEMMA SetUpFinite ==
    /\ IsFiniteSet(SetUp) /\ Cardinality(SetUp) \in Nat
    /\ Cardinality(SetUp) <= Cardinality(Entries) * MaxSetups
<1>1. SetUp \in SUBSET Devices
  BY DEF SetUp
<1> QED BY <1>1, DevicesFinite, FS_Subset, FS_CardinalityType

LEMMA InitCounts == Init => CountsOK
<1> SUFFICES ASSUME Init PROVE CountsOK
  OBVIOUS
<1>1. gen \in [Entries -> 0..MaxSetups] /\ \A e \in Entries : entry[e] = "absent"
  BY PrintServiceAssumption DEF Init, PrintServiceAssumption
<1>2. made <= Cardinality(SetUp) /\ lock <= made
  BY SetUpFinite DEF Init
<1> QED BY <1>1, <1>2 DEF Init, CountsOK

(* A setup adds the entry's new device to those that were set up. *)
LEMMA SetupCounts ==
    ASSUME RegistryOK, LocksOK, CountsOK, NEW e \in Entries, Setup(e)
    PROVE  CountsOK'
<1> DEFINE n == gen[e] + 1
<1>1. /\ gen' = [gen EXCEPT ![e] = n] /\ n \in 1..MaxSetups
      /\ gen' \in [Entries -> 0..MaxSetups]
  BY PrintServiceAssumption DEF Setup, CountsOK, PrintServiceAssumption
<1>2. SetUp' = SetUp \cup {<<e, n>>}
  <2>1. <<e, n>> \in Devices
    BY <1>1 DEF Devices
  <2>2. \A d \in Devices : d[2] <= gen'[d[1]] <=> d[2] <= gen[d[1]] \/ d = <<e, n>>
    <3> TAKE d \in Devices
    <3>1. d = <<d[1], d[2]>> /\ d[1] \in Entries /\ d[2] \in 1..MaxSetups
      BY DEF Devices
    <3>2. CASE d[1] = e
      <4>1. gen'[d[1]] = n
        BY <1>1, <3>2 DEF CountsOK
      <4>2. d = <<e, n>> <=> d[2] = n
        BY <3>1, <3>2
      <4> QED BY <1>1, <3>1, <3>2, <4>1, <4>2 DEF CountsOK
    <3>3. CASE d[1] # e
      BY <1>1, <3>1, <3>3 DEF CountsOK
    <3> QED BY <3>2, <3>3
  <2> QED BY <2>1, <2>2 DEF SetUp
<1>3. <<e, n>> \notin SetUp
  BY <1>1 DEF SetUp, CountsOK
<1>4. Cardinality(SetUp') = Cardinality(SetUp) + 1
  BY <1>2, <1>3, SetUpFinite, FS_AddElement
<1>5. Cardinality(SetUp)' = Cardinality(SetUp) + 1
  BY <1>4
<1>6. lock' <= made' /\ made <= made' /\ made' <= Cardinality(SetUp)' /\ made' \in Nat
  BY <1>5, SetUpFinite DEF Setup, CountsOK, LocksOK
<1>7. \A f \in Entries : entry'[f] # "absent" => gen'[f] # 0
  BY <1>1 DEF Setup, Enter, RegistryOK, CountsOK
<1>8. UNCHANGED <<job, held, open, loose, service>>
  BY DEF Setup, links
<1>9. \A j \in Jobs : job'[j].lock <= made'
  BY <1>6, <1>8 DEF CountsOK, LocksOK, Calls
<1>10. held' \subseteq 1..made'
  BY <1>6, <1>8 DEF CountsOK, LocksOK
<1> QED BY <1>1, <1>6, <1>7, <1>8, <1>9, <1>10 DEF CountsOK

LEMMA CountsNext == RegistryOK /\ LocksOK /\ CountsOK /\ [Next]_vars => CountsOK'
<1> SUFFICES ASSUME RegistryOK, LocksOK, CountsOK, [Next]_vars PROVE CountsOK'
  OBVIOUS
<1>1. ASSUME NEW e \in Entries, Unload(e) \/ EntryStep(e) PROVE CountsOK'
  <2>1. UNCHANGED <<gen, made, job, held>> /\ lock' \in {lock, 0} /\ entry[e] # "absent"
    BY <1>1 DEF Unload, EntryStep, Register, Loaded, SetupFails, SetupBreaks,
                RollbackBreaks, UnloadBreaks, Unroll, RolledBack, UnloadRefused,
                Withdraw, Unloaded
  <2>2. \A f \in Entries : entry'[f] # "absent" => gen'[f] # 0
    BY <1>1, <2>1 DEF RegistryOK, CountsOK, Enter, Unload, EntryStep, Register,
                      Loaded, SetupFails, SetupBreaks, RollbackBreaks,
                      UnloadBreaks, Unroll, RolledBack, UnloadRefused, Withdraw,
                      Unloaded
  <2>3. Device(e) \in Devices
    BY <2>1 DEF CountsOK, Device, Devices
  <2>4. open' \subseteq open \cup {Device(e)} /\ loose' \subseteq open'
    BY <1>1 DEF CountsOK, Disconnect, Linked, links, Unload, EntryStep, Register,
                Loaded, SetupFails, SetupBreaks, RollbackBreaks, UnloadBreaks,
                Unroll, RolledBack, UnloadRefused, Withdraw, Unloaded
  <2>5. service' \in BOOLEAN
    BY <1>1 DEF CountsOK, Unload, EntryStep, Register, Loaded, SetupFails,
                SetupBreaks, RollbackBreaks, UnloadBreaks, Unroll, RolledBack,
                UnloadRefused, Withdraw, Unloaded
  <2>6. SetUp' = SetUp /\ lock' <= made
    BY <2>1 DEF SetUp, CountsOK, LocksOK
  <2> QED BY <2>1, <2>2, <2>3, <2>4, <2>5, <2>6 DEF CountsOK
<1>2. ASSUME NEW j \in Jobs, Call(j) \/ JobStep(j) PROVE CountsOK'
  <2>1. UNCHANGED <<entry, gen, lock, made, service>>
    BY <1>2 DEF Call, JobStep, Preview, RenderFails, QueueForLock, StartPrint,
                Printed, PrintFails, Release
  <2>2. PICK c \in Calls :
           /\ job' = [job EXCEPT ![j] = c]
           /\ Keeps(c, j)
           /\ c.pc \in {"queued", "printing"} =>
                 job[j].pc \in {"rendering", "queued"} /\ c.dev = job[j].dev
           /\ c.pc = "queued" => c.lock = lock /\ lock # 0
           /\ c.pc = "printing" => c.lock = job[j].lock /\ job[j].pc = "queued"
           /\ c.pc = "rendering" => \E e \in registry : c.dev = Device(e)
    BY <1>2, CallDoes DEF Ended
  <2>3. job'[j] = c /\ \A k \in Jobs \ {j} : job'[k] = job[k]
    BY <2>2 DEF LocksOK
  <2>4. \A e \in registry : Device(e) \in Devices
    BY DEF RegistryOK, MayBeInTable, Registered, CountsOK, Device, Devices
  <2>5. /\ c.dev \in Devices \cup {NoDevice}
        /\ c.pc \in {"rendering", "queued", "printing"} => c.dev \in Devices
        /\ c.pc \in {"queued", "printing"} => c.lock # 0
    BY <2>2, <2>4 DEF Keeps, CountsOK
  <2>6. c.lock <= made
    BY <2>2 DEF Keeps, CountsOK, LocksOK
  <2>7. held' \subseteq 1..made
    <3>1. \/ held' \subseteq held
          \/ job[j].pc = "queued" /\ held' = held \cup {job[j].lock}
      BY <1>2 DEF Call, JobStep, Preview, RenderFails, QueueForLock, StartPrint,
                  Printed, PrintFails, Release
    <3>2. job[j].pc = "queued" => job[j].lock \in 1..made
      BY DEF CountsOK, LocksOK, Calls
    <3>3. held \subseteq 1..made
      BY DEF CountsOK
    <3> QED BY <3>1, <3>2, <3>3
  <2>8. open' \subseteq Devices /\ loose' \subseteq open'
    <3>1. CASE UNCHANGED links
      BY <3>1 DEF CountsOK, links
    <3>2. ASSUME job[j].pc \in {"queued", "printing"},
                 NEW link \in {{}, {job[j].dev}}, Connect(job[j].dev, link)
          PROVE  open' \subseteq Devices /\ loose' \subseteq open'
      BY <3>2 DEF CountsOK, Connect, Linked
    <3> QED BY <1>2, <3>1, <3>2, LinksOfCall
  <2>9. SetUp' = SetUp
    BY <2>1 DEF SetUp
  <2> QED BY <2>1, <2>3, <2>5, <2>6, <2>7, <2>8, <2>9 DEF CountsOK
<1>3. CASE UNCHANGED vars
  BY <1>3 DEF vars, links, CountsOK, SetUp
<1> QED BY <1>1, <1>2, <1>3, SetupCounts DEF Next

(* Every variable keeps its range: a call knows no other lock than one that   *)
(* was made, prints on no device but one that was set up, and there are no    *)
(* more locks than setups.                                                    *)
THEOREM TypeCorrect == Spec => []TypeOK
<1>1. RegistryOK /\ LocksOK /\ CountsOK => TypeOK
  <2> SUFFICES ASSUME RegistryOK, LocksOK, CountsOK PROVE TypeOK
    OBVIOUS
  <2>1. made \in Nat /\ made <= MaxSetups * Cardinality(Entries)
    BY PrintServiceAssumption, SetUpFinite, DevicesFinite
    DEF CountsOK, LocksOK, PrintServiceAssumption
  <2>2. MaxSetups * Cardinality(Entries) \in Nat
    BY PrintServiceAssumption, DevicesFinite DEF PrintServiceAssumption
  <2>3. made \in Locks \cup {0} /\ 1..made \subseteq Locks
    BY <2>1, <2>2 DEF Locks
  <2>4. \A j \in Jobs :
           job[j] \in [pc : Ended \cup {"rendering", "queued", "printing"},
                       targets : SUBSET Entries,
                       dev : Devices \cup {NoDevice},
                       lock : 0..made]
    BY <2>1 DEF LocksOK, CountsOK, Calls, JobStates
  <2>5. job \in [Jobs -> [pc : Ended \cup {"rendering", "queued", "printing"},
                          targets : SUBSET Entries,
                          dev : Devices \cup {NoDevice},
                          lock : 0..made]]
    BY <2>4 DEF LocksOK
  <2>6. lock \in 0..made
    BY <2>1 DEF LocksOK, CountsOK
  <2> QED BY <2>3, <2>5, <2>6 DEF TypeOK, CountsOK, RegistryOK, States
<1>2. Init => CountsOK
  BY InitCounts
<1>3. RegistryOK /\ LocksOK /\ CountsOK /\ [Next]_vars => CountsOK'
  BY CountsNext
<1> QED BY <1>1, <1>2, <1>3, LocksInvariance, PTL DEF Spec

-----------------------------------------------------------------------------
(* Refinement: each step of the service is a step of Turns or none.           *)

LEMMA InitTakesTurns == Init => Turn!Init
  BY DEF Init, Turn!Init, Ended

(* What one call's step is to those who take turns.  A call prints again only *)
(* after it has queued again.                                                 *)
LEMMA MoveInTurn ==
    ASSUME LocksOK, NEW j \in Jobs, NEW c \in Calls, job' = [job EXCEPT ![j] = c]
    PROVE  /\ job[j].pc = "rendering" /\ c.pc = "queued" => Turn!Wait(j)
           /\ /\ job[j].pc = "queued" /\ c.pc = "printing"
              /\ \A k \in Jobs : job[k].pc # "printing"
              => Turn!Take(j)
           /\ job[j].pc = "printing" /\ c.pc = "rendering" => Turn!Yield(j)
           /\ job[j].pc \notin Ended \ {"new"} /\ c.pc \in Ended \ {"new"} => Turn!End(j)
           /\ job[j].pc \in {"new", "rendering"} /\ c.pc = "rendering" =>
                 UNCHANGED Turn!vars
<1> DEFINE waits == {k \in Jobs : job[k].pc = "queued"}
           works == {k \in Jobs : job[k].pc = "printing"}
           ended == {k \in Jobs : job[k].pc \in Ended \ {"new"}}
<1> USE DEF Ended
<1>1. job'[j] = c /\ \A k \in Jobs \ {j} : job'[k] = job[k]
  BY DEF LocksOK
<1>2. CASE job[j].pc = "rendering" /\ c.pc = "queued"
  <2>1. waits' = waits \cup {j} /\ works' = works /\ ended' = ended
    BY <1>1, <1>2
  <2> QED BY <1>2, <2>1 DEF Turn!Wait
<1>3. CASE /\ job[j].pc = "queued" /\ c.pc = "printing"
           /\ \A k \in Jobs : job[k].pc # "printing"
  <2>1. waits' = waits \ {j} /\ works' = {j} /\ ended' = ended /\ works = {}
    BY <1>1, <1>3
  <2> QED BY <1>3, <2>1 DEF Turn!Take
<1>4. CASE job[j].pc = "printing" /\ c.pc = "rendering"
  <2>1. waits' = waits /\ works' = works \ {j} /\ ended' = ended
    BY <1>1, <1>4
  <2> QED BY <1>4, <2>1 DEF Turn!Yield
<1>5. CASE job[j].pc \notin Ended \ {"new"} /\ c.pc \in Ended \ {"new"}
  <2>1. waits' = waits \ {j} /\ works' = works \ {j} /\ ended' = ended \cup {j}
    BY <1>1, <1>5
  <2> QED BY <1>5, <2>1 DEF Turn!End
<1>6. CASE job[j].pc \in {"new", "rendering"} /\ c.pc = "rendering"
  <2>1. waits' = waits /\ works' = works /\ ended' = ended
    BY <1>1, <1>6
  <2> QED BY <1>6, <2>1 DEF Turn!vars
<1> QED BY <1>2, <1>3, <1>4, <1>5, <1>6

(* With the lock that is there free, nobody prints. *)
LEMMA TurnIsFree ==
    ASSUME CallsOK, LocksOK, NEW j \in Jobs, job[j].pc = "queued",
           job[j].lock \notin held
    PROVE  \A k \in Jobs : job[k].pc # "printing"
  BY DEF CallsOK, LocksOK

(* Where a call comes from, and that it does not go back to being new. *)
LEMMA CallComes ==
    ASSUME LocksOK, RegistryOK, NEW j \in Jobs, Call(j) \/ JobStep(j)
    PROVE  /\ job[j].pc \in {"new", "rendering", "queued", "printing"}
           /\ job'[j].pc # "new"
           /\ job'[j].pc = "rendering" => job[j].pc # "queued"
<1>1. job[j] \in Calls /\ job \in [Jobs -> Calls]
  BY DEF LocksOK
<1>2. ASSUME NEW targets, NextTarget(j, targets)
      PROVE  job'[j].pc \in {"ok", "rendering", "crashed"}
  BY <1>1, <1>2 DEF NextTarget, Calls
<1>3. CASE Call(j)
  BY <1>1, <1>2, <1>3 DEF Call, Calls
<1>4. CASE Preview(j) \/ Printed(j)
  BY <1>2, <1>4 DEF Preview, Printed, Release
<1>5. CASE RenderFails(j) \/ PrintFails(j)
  BY <1>1, <1>5 DEF RenderFails, PrintFails, Release, Calls
<1>6. CASE QueueForLock(j) \/ StartPrint(j)
  BY <1>1, <1>6 DEF QueueForLock, StartPrint, Calls
<1> QED BY <1>3, <1>4, <1>5, <1>6 DEF JobStep

LEMMA StepInTurn ==
    RegistryOK /\ LocksOK /\ CallsOK /\ [Next]_vars => [Turn!Next]_(Turn!vars)
<1> SUFFICES ASSUME RegistryOK, LocksOK, CallsOK, [Next]_vars
             PROVE  [Turn!Next]_(Turn!vars)
  OBVIOUS
<1>1. ASSUME job' = job PROVE UNCHANGED Turn!vars
  BY <1>1 DEF Turn!vars
<1>2. ASSUME NEW e \in Entries, Setup(e) \/ Unload(e) \/ EntryStep(e)
      PROVE  UNCHANGED Turn!vars
  BY <1>1, <1>2 DEF Setup, Unload, EntryStep, Register, Loaded, SetupFails,
                    SetupBreaks, RollbackBreaks, UnloadBreaks, Unroll, RolledBack,
                    UnloadRefused, Withdraw, Unloaded
<1>3. ASSUME NEW j \in Jobs, Call(j) \/ JobStep(j)
      PROVE  [Turn!Next]_(Turn!vars)
  <2>1. PICK c \in Calls :
           /\ job' = [job EXCEPT ![j] = c]
           /\ \/ c.pc \in Ended \/ c.pc = "rendering"
              \/ c.pc = "queued" /\ job[j].pc = "rendering"
              \/ /\ c.pc = "printing" /\ job[j].pc = "queued"
                 /\ job[j].lock \notin held
    BY <1>3, CallDoes
  <2>2. /\ job[j].pc \in {"new", "rendering", "queued", "printing"}
        /\ c.pc # "new"
        /\ c.pc = "rendering" => job[j].pc # "queued"
    BY <1>3, <2>1, CallComes DEF LocksOK
  <2>3. CASE c.pc \in Ended
    BY <2>1, <2>2, <2>3, MoveInTurn DEF Turn!Next, Ended
  <2>4. CASE c.pc = "rendering"
    BY <2>1, <2>2, <2>4, MoveInTurn DEF Turn!Next
  <2>5. CASE c.pc = "queued" /\ job[j].pc = "rendering"
    BY <2>1, <2>5, MoveInTurn DEF Turn!Next
  <2>6. CASE c.pc = "printing" /\ job[j].pc = "queued" /\ job[j].lock \notin held
    BY <2>1, <2>6, MoveInTurn, TurnIsFree DEF Turn!Next
  <2> QED BY <2>1, <2>3, <2>4, <2>5, <2>6
<1>4. CASE UNCHANGED vars
  BY <1>1, <1>4 DEF vars
<1> QED BY <1>2, <1>3, <1>4 DEF Next

(* As long as no setup or unload overlaps a call, the calls take turns on the *)
(* radio, over all printers and however many locks have been made.            *)
THEOREM TurnsAreTaken == ASSUME ~OverlapJobs PROVE Spec => CallsInTurn
<1>1. RegistryOK /\ LocksOK /\ CallsOK /\ [Next]_vars => [Turn!Next]_(Turn!vars)
  BY StepInTurn
<1> QED BY <1>1, InitTakesTurns, CallsInvariance, LocksInvariance, PTL
        DEF Spec, CallsInTurn, Turn!Spec
=============================================================================
