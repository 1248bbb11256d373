------------------------- MODULE PrinterEntryProofs -------------------------
(* Proofs about PrinterEntry for any printers, flows, names and profiles.     *)
EXTENDS PrinterEntry, WellFoundedInduction, TLAPS

(* A name to print by. *)
Known(name) == Supported(Find(Index, name))

(* A flow that waits to be confirmed is for a printer without an entry: it    *)
(* would have been aborted with the others.  Whatever a flow offers is the    *)
(* address of a printer in upper case and, unless a model is still to be      *)
(* chosen, a name to print by.                                                *)
FormOK(form) ==
    /\ form.pc = "confirm" =>
           /\ form.uid \in Typed \ Configured
           /\ form.uid[1] \in Printers /\ form.uid[2] = "upper" /\ Known(form.name)
    /\ \A offer \in form.offers :
           /\ offer.to \in Typed /\ offer.to[1] \in Printers /\ offer.to[2] = "upper"
           /\ form.pc = "user" => Known(offer.name)

(* The address of a printer is the upper-case one. *)
Proper(uid) == uid[1] \in Printers => uid[2] = "upper"

(* An entry is for a supported model or for the name of one. *)
EntrySupported(uid) ==
    /\ entries[uid].model # None => Supported(Get(registered, entries[uid].model))
    /\ entries[uid].model = None => uid[1] \in Printers /\ Known(entries[uid].title)

EntriesSupported == \A uid \in Configured : EntrySupported(uid)

IInv ==
    /\ registered \in Registries
    /\ flow = [f \in Flows |-> flow[f]] /\ entries = [uid \in Typed |-> entries[uid]]
    /\ \A f \in Flows : FormOK(flow[f])
    /\ \A uid \in Configured : Proper(uid)
    /\ EntriesSupported

(* No printer has another entry after a step than before it. *)
EntriesKept ==
    \A p \in Printers : EntryOf(p) # {} /\ EntryOf(p)' # {} => EntryOf(p)' = EntryOf(p)

LEMMA InitIInv == Init => IInv
<1> SUFFICES ASSUME Init PROVE IInv
  OBVIOUS
<1> USE DEF Init, NoFlow, NoEntry, Configured
<1>1. \A f \in Flows : FormOK(flow[f])
  BY DEF FormOK
<1>2. EntriesSupported
  BY DEF EntriesSupported
<1> QED BY <1>1, <1>2 DEF IInv

(* The selector's models are supported. *)
LEMMA ModelWorks ==
    ASSUME registered \in Registries, NEW model \in Models
    PROVE  model # None /\ Supported(Get(registered, model))
<1> USE PrinterEntryAssumption
<1>1. PICK j \in DOMAIN registered : registered[j].supported /\ model = registered[j].model
  BY DEF Models
<1>2. {i \in DOMAIN registered : registered[i].model = model} = {j}
  BY <1>1
<1>3. (CHOOSE i \in {j} : \A k \in {j} : i <= k) = j
  BY <1>1
<1> QED BY <1>1, <1>2, <1>3 DEF Get, Supported

(* A step that makes and removes no entry. *)
LEMMA FormShown ==
    ASSUME IInv, NEW f \in Flows, NEW form, FormOK(form), Show(f, form)
    PROVE  IInv' /\ EntriesKept
<1>1. UNCHANGED <<registered, entries>> /\ flow' = [flow EXCEPT ![f] = form]
  BY DEF Show
<1>2. UNCHANGED <<Index, Configured>>
  BY <1>1 DEF Index, Configured
<1>3. \A g \in Flows : FormOK(flow[g])'
  BY <1>1, <1>2 DEF FormOK, Known, IInv
<1>4. EntriesSupported'
  BY <1>1, <1>2 DEF EntriesSupported, EntrySupported, Known, IInv
<1>5. EntriesKept
  BY <1>1, <1>2 DEF EntriesKept, EntryOf
<1>6. flow' = [g \in Flows |-> flow'[g]]
  BY <1>1 DEF IInv
<1> QED BY <1>1, <1>2, <1>3, <1>4, <1>5, <1>6 DEF IInv

LEMMA FlowEnds ==
    ASSUME IInv, NEW f \in Flows, EndFlow(f)
    PROVE  IInv' /\ EntriesKept
<1>1. FormOK(Over)
  BY DEF FormOK, Over, NoFlow
<1> QED BY <1>1, FormShown DEF EndFlow, Show

LEMMA NothingMade ==
    ASSUME IInv, UNCHANGED <<registered, flow, entries>>
    PROVE  IInv' /\ EntriesKept
<1>1. UNCHANGED <<Index, Configured>>
  BY DEF Index, Configured
<1>2. \A g \in Flows : FormOK(flow[g])'
  BY <1>1 DEF FormOK, Known, IInv
<1>3. EntriesSupported'
  BY <1>1 DEF EntriesSupported, EntrySupported, Known, IInv
<1>4. EntriesKept
  BY <1>1 DEF EntriesKept, EntryOf
<1> QED BY <1>1, <1>2, <1>3, <1>4 DEF IInv

(* A printer that has no entry gets one. *)
LEMMA EntryMade ==
    ASSUME IInv, NEW f \in Flows, NEW uid \in Typed \ Configured, Proper(uid),
           NEW model, NEW title, CreateEntry(f, uid, model, title),
           IF model # None THEN Supported(Get(registered, model))
                           ELSE uid[1] \in Printers /\ Known(title)
    PROVE  IInv' /\ EntriesKept
<1>1. /\ registered' = registered
      /\ entries' = [entries EXCEPT ![uid] = [there |-> TRUE, model |-> model, title |-> title]]
      /\ flow' = [g \in Flows |-> IF g = f \/ flow[g].uid = uid THEN Over ELSE flow[g]]
  BY DEF CreateEntry
<1>2. Index' = Index
  BY <1>1 DEF Index
<1>3. /\ \A u \in Typed \ {uid} : entries'[u] = entries[u]
      /\ entries'[uid] = [there |-> TRUE, model |-> model, title |-> title]
  BY <1>1 DEF IInv
<1>4. Configured' = Configured \cup {uid}
  BY <1>3 DEF Configured
<1>5. \A g \in Flows : FormOK(flow[g])'
  <2> SUFFICES ASSUME NEW g \in Flows PROVE FormOK(flow[g])'
    OBVIOUS
  <2>1. CASE g = f \/ flow[g].uid = uid
    BY <1>1, <2>1 DEF FormOK, Over, NoFlow
  <2>2. CASE ~(g = f \/ flow[g].uid = uid)
    BY <1>1, <1>2, <1>4, <2>2 DEF FormOK, Known, IInv
  <2> QED BY <2>1, <2>2
<1>6. EntriesSupported'
  <2> SUFFICES ASSUME NEW u \in Configured' PROVE EntrySupported(u)'
    BY DEF EntriesSupported
  <2>1. CASE u = uid
    BY <1>1, <1>2, <1>3, <2>1 DEF EntrySupported, Known
  <2>2. CASE u # uid
    <3>1. u \in Configured /\ entries'[u] = entries[u]
      BY <1>3, <1>4, <2>2 DEF Configured
    <3> QED BY <1>1, <1>2, <3>1 DEF EntriesSupported, EntrySupported, Known, IInv
  <2> QED BY <2>1, <2>2
<1>7. EntriesKept
  <2> SUFFICES ASSUME NEW p \in Printers, EntryOf(p) # {}
               PROVE  EntryOf(p)' = EntryOf(p)
    BY DEF EntriesKept
  <2>1. PICK u \in Configured : u[1] = p
    BY DEF EntryOf
  <2>2. Proper(u) /\ u \in Typed
    BY DEF IInv, Configured
  <2>3. uid[1] # p
    BY <2>1, <2>2 DEF Proper, Typed
  <2> QED BY <1>3, <1>4, <2>3 DEF EntryOf, Configured
<1> QED BY <1>1, <1>4, <1>5, <1>6, <1>7 DEF IInv

(* An entry goes; what had to hold of flows and other entries still does.     *)
LEMMA EntryRemoved ==
    ASSUME IInv, NEW uid \in Typed, RemoveEntry(uid)
    PROVE  IInv' /\ EntriesKept
<1>1. UNCHANGED <<registered, flow>> /\ entries' = [entries EXCEPT ![uid] = NoEntry]
  BY DEF RemoveEntry
<1>2. Index' = Index
  BY <1>1 DEF Index
<1>3. \A u \in Typed \ {uid} : entries'[u] = entries[u]
  BY <1>1 DEF IInv
<1>4. Configured' = Configured \ {uid}
  BY <1>1, <1>3 DEF Configured, NoEntry, IInv
<1>5. \A g \in Flows : FormOK(flow[g])'
  BY <1>1, <1>2, <1>4 DEF FormOK, Known, IInv
<1>6. EntriesSupported'
  <2> SUFFICES ASSUME NEW u \in Configured' PROVE EntrySupported(u)'
    BY DEF EntriesSupported
  <2>1. u \in Configured /\ entries'[u] = entries[u]
    BY <1>3, <1>4 DEF Configured
  <2> QED BY <1>1, <1>2, <2>1 DEF EntriesSupported, EntrySupported, Known, IInv
<1>7. EntriesKept
  <2> SUFFICES ASSUME NEW p \in Printers, EntryOf(p) # {}, EntryOf(p)' # {}
               PROVE  EntryOf(p)' = EntryOf(p)
    BY DEF EntriesKept
  <2>1. PICK u \in Configured \ {uid} : u[1] = p
    BY <1>4 DEF EntryOf
  <2>2. CASE uid \in Configured
    <3>1. Proper(uid) /\ Proper(u) /\ u \in Typed
      BY <2>2 DEF IInv, Configured
    <3>2. uid[1] # p
      BY <2>1, <3>1 DEF Proper, Typed
    <3> QED BY <1>3, <1>4, <3>2 DEF EntryOf, Configured
  <2>3. CASE uid \notin Configured
    BY <2>3 DEF RemoveEntry, Configured
  <2> QED BY <2>2, <2>3
<1> QED BY <1>1, <1>4, <1>5, <1>6, <1>7 DEF IInv

-----------------------------------------------------------------------------
(* Each flow, handler by handler. *)
LEMMA FlowNext ==
    ASSUME IInv, NEW f \in Flows, FlowStep(f)
    PROVE  IInv' /\ EntriesKept
<1>1. ASSUME NEW p \in Printers, Discovered(f, p) PROVE IInv' /\ EntriesKept
  <2>1. CASE EndFlow(f)
    BY <2>1, FlowEnds
  <2>2. CASE ~EndFlow(f)
    <3> DEFINE form == [pc |-> "confirm", uid |-> Uid(p), name |-> seen[p].name,
                        offers |-> {}]
    <3>1. Show(f, form) /\ Uid(p) \notin Configured /\ Known(seen[p].name)
      BY <1>1, <2>2 DEF Discovered, Known
    <3>2. FormOK(form)
      BY <3>1 DEF FormOK, Uid, Typed, Spellings
    <3> QED BY <3>1, <3>2, FormShown
  <2> QED BY <2>1, <2>2
<1>2. ASSUME Confirm(f) PROVE IInv' /\ EntriesKept
  <2>1. /\ flow[f].uid \in Typed \ Configured
        /\ flow[f].uid[1] \in Printers /\ Proper(flow[f].uid) /\ Known(flow[f].name)
    BY <1>2 DEF Confirm, IInv, FormOK, Proper
  <2>2. CreateEntry(f, flow[f].uid, None, flow[f].name)
    BY <1>2 DEF Confirm
  <2> QED BY <2>1, <2>2, EntryMade
<1>3. FormOK(ManualForm)
  <2>1. ManualForm.pc = "manual"
    BY DEF ManualForm
  <2>2. \A offer \in ManualForm.offers : \E p \in Printers : offer.to = Uid(p)
    BY DEF ManualForm, Awake
  <2>3. \A p \in Printers : Uid(p) \in Typed /\ Uid(p)[1] \in Printers /\ Uid(p)[2] = "upper"
    BY DEF Uid, Typed, Spellings
  <2> QED BY <2>1, <2>2, <2>3 DEF FormOK
<1>4. ASSUME StartUser(f) PROVE IInv' /\ EntriesKept
  <2>1. CASE Show(f, ManualForm)
    BY <1>3, <2>1, FormShown
  <2>2. CASE ~Show(f, ManualForm)
    <3> DEFINE form == [pc |-> "user", uid |-> None, name |-> None,
                        offers |-> {[to |-> Uid(p), name |-> seen[p].name] : p \in Candidates}]
    <3>1. Show(f, form)
      BY <1>4, <2>2 DEF StartUser
    <3>2. form.pc = "user" /\ \A offer \in form.offers :
              \E p \in Candidates : offer.to = Uid(p) /\ offer.name = seen[p].name
      OBVIOUS
    <3>3. \A p \in Candidates :
              /\ Uid(p) \in Typed /\ Uid(p)[1] \in Printers /\ Uid(p)[2] = "upper"
              /\ Known(seen[p].name)
      BY DEF Candidates, Known, Uid, Typed, Spellings, Awake
    <3>4. FormOK(form)
      BY <3>2, <3>3 DEF FormOK
    <3> QED BY <3>1, <3>4, FormShown
  <2> QED BY <2>1, <2>2
<1>5. ASSUME NEW offer \in flow[f].offers, Pick(f, offer) PROVE IInv' /\ EntriesKept
  <2>1. CASE EndFlow(f)
    BY <2>1, FlowEnds
  <2>2. CASE ~EndFlow(f)
    <3>1. offer.to \notin Configured /\ CreateEntry(f, offer.to, None, offer.name)
      BY <1>5, <2>2 DEF Pick
    <3>2. /\ offer.to \in Typed /\ offer.to[1] \in Printers /\ Proper(offer.to)
          /\ Known(offer.name)
      BY <1>5 DEF Pick, IInv, FormOK, Proper
    <3> QED BY <3>1, <3>2, EntryMade
  <2> QED BY <2>1, <2>2
<1>6. ASSUME NEW typed \in Typed \cup {Garbage}, NEW model \in Models,
             Submit(f, typed, model)
      PROVE  IInv' /\ EntriesKept
  <2>1. CASE EndFlow(f) \/ Show(f, ManualForm)
    BY <1>3, <2>1, FlowEnds, FormShown
  <2>2. CASE ~(EndFlow(f) \/ Show(f, ManualForm))
    <3>1. /\ typed # Garbage /\ Normal(typed) \notin Configured
          /\ CreateEntry(f, Normal(typed), model, None)
      BY <1>6, <2>2 DEF Submit
    <3>2. Normal(typed) \in Typed /\ Proper(Normal(typed))
      BY <3>1 DEF Normal, Proper, Uid, Typed, Spellings
    <3>3. model # None /\ Supported(Get(registered, model))
      BY ModelWorks DEF IInv
    <3> QED BY <3>1, <3>2, <3>3, EntryMade
  <2> QED BY <2>1, <2>2
<1>7. ASSUME Dismiss(f) PROVE IInv' /\ EntriesKept
  BY <1>7, FlowEnds DEF Dismiss
<1> QED BY <1>1, <1>2, <1>4, <1>5, <1>6, <1>7 DEF FlowStep

LEMMA EntriesNext == IInv /\ [Next]_vars => IInv' /\ EntriesKept
<1> SUFFICES ASSUME IInv, [Next]_vars PROVE IInv' /\ EntriesKept
  OBVIOUS
<1>1. ASSUME NEW p \in Printers, Advertise(p) PROVE IInv' /\ EntriesKept
  BY <1>1, NothingMade DEF Advertise
<1>2. ASSUME NEW uid \in Typed, EntryStep(uid) PROVE IInv' /\ EntriesKept
  BY <1>2, EntryRemoved, NothingMade DEF EntryStep, Reload, Poll, Render
<1>3. CASE PrintLabel \/ PrintFails
  BY <1>3, NothingMade DEF PrintLabel, PrintFails
<1>4. CASE UNCHANGED vars
  BY <1>4, NothingMade DEF vars
<1> QED BY <1>1, <1>2, <1>3, <1>4, FlowNext DEF Next

(* The strengthening is an invariant. *)
THEOREM Invariance == Spec => []IInv
<1>1. IInv /\ [Next]_vars => IInv'
  BY EntriesNext
<1> QED BY InitIInv, <1>1, PTL DEF Spec

(* Whatever flows run beside each other, a printer keeps the entry it has and *)
(* gets no second one until the entry is removed (config_flow.py:161, 217, 294).    *)
THEOREM EntriesStay == Spec => EntryKept
<1>1. IInv /\ [Next]_vars => [EntriesKept]_entries
  BY EntriesNext
<1>2. [][EntriesKept]_entries => EntryKept
  BY PTL DEF EntriesKept, EntryKept
<1>3. Spec => [][EntriesKept]_entries
  BY Invariance, <1>1, PTL DEF Spec
<1> QED BY <1>2, <1>3, PTL
-----------------------------------------------------------------------------
(* The match of names, and what devices make of it. *)
LEMMA Least ==
    ASSUME NEW S \in SUBSET Nat, S # {}
    PROVE  \E m \in S : \A n \in S : m <= n
<1>1. PICK m \in S : \A n \in S : <<n, m>> \notin OpToRel(<, Nat)
  BY NatLessThanWellFounded, WFMin
<1>2. \A n \in S : ~(n < m)
  BY <1>1, Zenon DEF OpToRel
<1> QED BY <1>2

(* An entry of the index. *)
LEMMA PairsAre ==
    ASSUME NEW profiles \in Registries, NEW pair \in Pairs(profiles)
    PROVE  \E i \in DOMAIN profiles :
              \E j \in DOMAIN profiles[i].prefixes :
                  /\ i \in Nat /\ j \in Nat
                  /\ pair = [at |-> <<i, j>>, prefix |-> profiles[i].prefixes[j],
                             profile |-> profiles[i]]
                  /\ pair.prefix \in Seq(Letters)
<1>1. PICK i \in DOMAIN profiles : \E j \in DOMAIN profiles[i].prefixes :
         pair = [at |-> <<i, j>>, prefix |-> profiles[i].prefixes[j], profile |-> profiles[i]]
  BY DEF Pairs
<1>2. PICK j \in DOMAIN profiles[i].prefixes :
         pair = [at |-> <<i, j>>, prefix |-> profiles[i].prefixes[j], profile |-> profiles[i]]
  BY <1>1
<1>3. i \in Nat /\ profiles[i].prefixes \in Seq(Seq(Letters))
  BY PrinterEntryAssumption
<1>4. j \in Nat /\ profiles[i].prefixes[j] \in Seq(Letters)
  BY <1>3
<1> QED BY <1>2, <1>3, <1>4

LEMMA PairsDiffer ==
    ASSUME NEW profiles \in Registries, NEW a \in Pairs(profiles), NEW b \in Pairs(profiles),
           a # b
    PROVE  Precedes(a, b) \/ Precedes(b, a)
<1>1. PICK i, j :
         /\ i \in Nat /\ j \in Nat /\ a.prefix \in Seq(Letters)
         /\ a = [at |-> <<i, j>>, prefix |-> profiles[i].prefixes[j], profile |-> profiles[i]]
  BY PairsAre
<1>2. PICK k, l :
         /\ k \in Nat /\ l \in Nat /\ b.prefix \in Seq(Letters)
         /\ b = [at |-> <<k, l>>, prefix |-> profiles[k].prefixes[l], profile |-> profiles[k]]
  BY PairsAre
<1>3. i # k \/ j # l
  BY <1>1, <1>2
<1>4. \A word \in Seq(Letters) : Len(word) \in Nat
  OBVIOUS
<1>5. Len(a.prefix) \in Nat /\ Len(b.prefix) \in Nat
  BY <1>1, <1>2, <1>4, Zenon
<1>6. a.at[1] = i /\ a.at[2] = j /\ b.at[1] = k /\ b.at[2] = l
  BY <1>1, <1>2
<1>7. i \in Nat /\ j \in Nat /\ k \in Nat /\ l \in Nat
  BY <1>1, <1>2
<1> QED BY <1>3, <1>5, <1>6, <1>7 DEF Precedes, Earlier

LEMMA UpperLen ==
    ASSUME NEW name \in Seq(Letters)
    PROVE  Upper(name) \in Seq(Letters) /\ Len(Upper(name)) = Len(name)
  BY PrinterEntryAssumption DEF Upper

LEMMA FitsWithin ==
    ASSUME NEW name \in Seq(Letters), NEW prefix \in Seq(Letters), StartsWith(name, prefix)
    PROVE  Len(prefix) <= Len(name)
  BY UpperLen DEF StartsWith, IsPrefix

(* Among the prefixes that fit there is one that precedes all others.         *)
LEMMA FirstFits ==
    ASSUME NEW profiles \in Registries, NEW name \in Seq(Letters),
           Fitting(Pairs(profiles), name) # {}
    PROVE  \E pair \in Fitting(Pairs(profiles), name) :
              \A other \in Fitting(Pairs(profiles), name) \ {pair} : Precedes(pair, other)
<1> DEFINE F == Fitting(Pairs(profiles), name)
<1>1. \A pair \in F :
         /\ pair \in Pairs(profiles)
         /\ pair.prefix \in Seq(Letters)
         /\ Len(pair.prefix) \in Nat /\ Len(name) - Len(pair.prefix) \in Nat
         /\ pair.at[1] \in Nat /\ pair.at[2] \in Nat
  <2> SUFFICES ASSUME NEW pair \in F
               PROVE  /\ pair \in Pairs(profiles)
                      /\ pair.prefix \in Seq(Letters)
                      /\ Len(pair.prefix) \in Nat /\ Len(name) - Len(pair.prefix) \in Nat
                      /\ pair.at[1] \in Nat /\ pair.at[2] \in Nat
    OBVIOUS
  <2>1. pair \in Pairs(profiles) /\ StartsWith(name, pair.prefix)
    BY DEF Fitting
  <2>2. pair.prefix \in Seq(Letters) /\ pair.at[1] \in Nat /\ pair.at[2] \in Nat
    BY <2>1, PairsAre
  <2>3. Len(pair.prefix) <= Len(name)
    BY <2>1, <2>2, FitsWithin
  <2> QED BY <2>1, <2>2, <2>3
<1> HIDE DEF F
<1> DEFINE A == {pair \in F : \A o \in F : Len(o.prefix) <= Len(pair.prefix)}
           B == {pair \in A : \A o \in A : pair.at[1] <= o.at[1]}
           C == {pair \in B : \A o \in B : pair.at[2] <= o.at[2]}
<1>2. A # {}
  <2> DEFINE S == {Len(name) - Len(pair.prefix) : pair \in F}
  <2>1. S \in SUBSET Nat /\ S # {}
    BY <1>1 DEF F
  <2>2. PICK m \in S : \A n \in S : m <= n
    BY <2>1, Least
  <2>3. PICK pair \in F : m = Len(name) - Len(pair.prefix)
    BY <2>2
  <2>4. \A o \in F : Len(o.prefix) <= Len(pair.prefix)
    <3> SUFFICES ASSUME NEW o \in F PROVE Len(o.prefix) <= Len(pair.prefix)
      OBVIOUS
    <3>1. m <= Len(name) - Len(o.prefix)
      BY <2>2
    <3> QED BY <1>1, <2>3, <3>1
  <2> QED BY <2>4
<1>3. B # {}
  <2> DEFINE S == {pair.at[1] : pair \in A}
  <2>1. S \in SUBSET Nat /\ S # {}
    BY <1>1, <1>2
  <2>2. PICK m \in S : \A n \in S : m <= n
    BY <2>1, Least
  <2>3. PICK pair \in A : m = pair.at[1]
    BY <2>2
  <2> QED BY <2>2, <2>3
<1>4. C # {}
  <2> DEFINE S == {pair.at[2] : pair \in B}
  <2>1. S \in SUBSET Nat /\ S # {}
    BY <1>1, <1>3
  <2>2. PICK m \in S : \A n \in S : m <= n
    BY <2>1, Least
  <2>3. PICK pair \in B : m = pair.at[2]
    BY <2>2
  <2> QED BY <2>2, <2>3
<1>5. PICK pair \in C : TRUE
  BY <1>4
<1>6. ASSUME NEW other \in F, other # pair, Precedes(other, pair) PROVE Precedes(pair, other)
  BY <1>1, <1>5, <1>6 DEF Precedes, Earlier
<1>7. pair \in F /\ \A other \in F \ {pair} : Precedes(pair, other)
  BY <1>1, <1>5, <1>6, PairsDiffer
<1> QED BY <1>7 DEF F

(* The profile that is found is the most specific one.                        *)
THEOREM FindFits ==
    ASSUME NEW name \in Names, registered \in Registries, Find(Index, name) # None
    PROVE  MostSpecific(Find(Index, name), name) /\ Find(Index, name) \in Profile
<1> DEFINE F == Fitting(Index, name)
           First(pair) == \A other \in F \ {pair} : Precedes(pair, other)
<1>1. name \in Seq(Letters) /\ name # None
  BY PrinterEntryAssumption
<1>2. F # {} /\ Find(Index, name) = (CHOOSE pair \in F : First(pair)).profile
  BY <1>1 DEF Find
<1>3. \E pair \in F : First(pair)
  BY <1>1, <1>2, FirstFits DEF Index
<1>4. PICK best \in F : First(best) /\ Find(Index, name) = best.profile
  BY <1>2, <1>3
<1>5. \A pair \in F : pair \in Pairs(registered) /\ Len(pair.prefix) \in Nat
  BY PairsAre DEF Fitting, Index
<1>6. \A pair \in F : Len(pair.prefix) <= Len(best.prefix)
  BY <1>4, <1>5 DEF Precedes
<1>7. F = {pair \in Pairs(registered) : IsPrefix(Upper(pair.prefix), Upper(name))}
  BY DEF Fitting, Index, StartsWith
<1>8. best.profile \in Profile
  BY <1>4, <1>5, PairsAre DEF Profile
<1> HIDE DEF F, First
<1> QED BY <1>4, <1>6, <1>7, <1>8 DEF MostSpecific

LEMMA GetFits ==
    ASSUME registered \in Registries, NEW model, Get(registered, model) # None
    PROVE  /\ Get(registered, model).model = model
           /\ Get(registered, model) \in Profile
<1> DEFINE named == {i \in DOMAIN registered : registered[i].model = model}
<1>1. named # {} /\ named \in SUBSET Nat
  BY PrinterEntryAssumption DEF Get
<1>2. PICK i \in named : \A j \in named : i <= j
  BY <1>1, Least
<1>3. (CHOOSE k \in named : \A j \in named : k <= j) \in named
  BY <1>2
<1>4. PICK k \in named : Get(registered, model) = registered[k]
  BY <1>1, <1>3 DEF Get
<1> QED BY <1>4 DEF Profile

(* What a device goes by is what the model of its entry says, or else its own *)
(* name; it has a name exactly if it has a profile.                           *)
DeviceOK(device, model) ==
    IF device.profile = None THEN device.name = None /\ device.head \in Nat
    ELSE /\ device.name \in Names /\ Supported(device.profile)
         /\ device.head = device.profile.head
         /\ device.profile = IF model # None THEN Get(registered, model)
                             ELSE Find(Index, device.name)

FormType(form) ==
    /\ form.pc \in {"none", "confirm", "user", "manual", "over"}
    /\ form.uid \in Typed \cup {None} /\ form.name \in Names \cup {None}
    /\ form.offers \subseteq [to : Typed, name : Names \cup {None}]

EntryType == [there : BOOLEAN, model : Models \cup {None}, title : Names \cup {None}]

TypesOK ==
    /\ seen \in [Printers -> {None} \cup [name : Names, services : Services]]
    /\ \A f \in Flows : FormType(flow[f])
    /\ entries \in [Typed -> EntryType]
    /\ job = NoJob \/ job.entry \in Typed

DevicesOK ==
    /\ run = [uid \in Typed |-> run[uid]]
    /\ \A uid \in Typed : DeviceOK(run[uid], entries[uid].model)

DeviceIInv == IInv /\ TypesOK /\ DevicesOK

LEMMA InitDevices == Init => TypesOK /\ DevicesOK
<1> SUFFICES ASSUME Init PROVE TypesOK /\ DevicesOK
  OBVIOUS
<1> USE DEF Init, NoFlow, NoEntry, NoJob, NewDevice
<1>1. TypesOK
  BY DEF TypesOK, FormType, EntryType
<1>2. DevicesOK
  BY DEF DevicesOK, DeviceOK, DefaultHead
<1> QED BY <1>1, <1>2

(* A device that begins an operation learns what fits, and stays by it.       *)
LEMMA LearnedOK ==
    ASSUME registered \in Registries, TypesOK,
           NEW uid \in Typed, NEW device, NEW model, DeviceOK(device, model)
    PROVE  DeviceOK(Learned(device, uid, model), model)
<1>1. CASE uid[1] \notin Awake
  BY <1>1 DEF Learned
<1>2. CASE uid[1] \in Awake
  <2> DEFINE name == seen[uid[1]].name
             profile == Resolved(device, model, name)
  <2>1. name \in Names /\ name # None
    BY <1>2, PrinterEntryAssumption DEF Awake, TypesOK
  <2>2. CASE ~Supported(profile)
    BY <1>2, <2>2 DEF Learned
  <2>3. CASE Supported(profile)
    <3>1. Learned(device, uid, model) =
             [profile |-> profile, head |-> profile.head,
              name |-> IF device.name = None THEN name ELSE device.name]
      BY <1>2, <2>3 DEF Learned
    <3>2. profile # None
      BY <2>3 DEF Supported
    <3>3. CASE device.profile = None
      <4>1. device.name = None
        BY <3>3 DEF DeviceOK
      <4>2. profile = IF model # None THEN Get(registered, model) ELSE Find(Index, name)
        BY <3>3 DEF Resolved
      <4> HIDE DEF profile, name
      <4> QED BY <2>1, <2>3, <3>1, <3>2, <4>1, <4>2 DEF DeviceOK
    <3>4. CASE device.profile # None
      <4>1. profile = device.profile
        BY <3>4 DEF Resolved
      <4>2. device.name \in Names /\ device.name # None
        BY <3>4, PrinterEntryAssumption DEF DeviceOK
      <4> HIDE DEF profile, name
      <4> QED BY <2>3, <3>1, <3>2, <4>1, <4>2 DEF DeviceOK
    <3> QED BY <3>3, <3>4
  <2> QED BY <2>2, <2>3
<1> QED BY <1>1, <1>2

LEMMA NewDeviceOK == \A model : DeviceOK(NewDevice, model)
  BY DEF DeviceOK, NewDevice, DefaultHead

(* One device and its entry change together. *)
LEMMA DeviceChanges ==
    ASSUME DevicesOK, TypesOK, NEW uid \in Typed, NEW device, NEW e,
           registered' = registered,
           run' = [run EXCEPT ![uid] = device],
           entries' = [entries EXCEPT ![uid] = e], DeviceOK(device, e.model)
    PROVE  DevicesOK'
<1>1. Index' = Index
  BY DEF Index
<1>2. run' = [u \in Typed |-> run'[u]] /\ run'[uid] = device
  BY DEF DevicesOK
<1>3. entries'[uid] = e
  BY DEF TypesOK
<1>4. ASSUME NEW u \in Typed PROVE DeviceOK(run'[u], entries'[u].model)
  <2>1. CASE u = uid
    BY <1>2, <1>3, <2>1
  <2>2. CASE u # uid
    BY <2>2 DEF DevicesOK, TypesOK
  <2> QED BY <2>1, <2>2
<1> QED BY <1>1, <1>2, <1>4 DEF DevicesOK, DeviceOK

LEMMA DevicesStay ==
    ASSUME DevicesOK, UNCHANGED <<registered, run, entries>>
    PROVE  DevicesOK'
<1>1. Index' = Index
  BY DEF Index
<1> QED BY <1>1 DEF DevicesOK, DeviceOK

LEMMA MadeDevice ==
    ASSUME IInv, TypesOK, DevicesOK, NEW f \in Flows, NEW uid \in Typed, NEW model, NEW title,
           CreateEntry(f, uid, model, title)
    PROVE  DevicesOK'
<1>1. DeviceOK(Learned(NewDevice, uid, model), model)
  BY NewDeviceOK, LearnedOK DEF IInv
<1>2. [there |-> TRUE, model |-> model, title |-> title].model = model
  OBVIOUS
<1> QED BY <1>1, <1>2, DeviceChanges DEF CreateEntry

(* A device begins an operation, or is a new one and polls. *)
LEMMA BegunDevice ==
    ASSUME IInv, TypesOK, DevicesOK, NEW uid \in Typed, UNCHANGED <<registered, entries>>,
           \E device \in {run[uid], NewDevice} :
              run' = [run EXCEPT ![uid] = Learned(device, uid, entries[uid].model)]
    PROVE  DevicesOK'
<1>1. PICK device \in {run[uid], NewDevice} :
         run' = [run EXCEPT ![uid] = Learned(device, uid, entries[uid].model)]
  OBVIOUS
<1>2. DeviceOK(device, entries[uid].model)
  BY NewDeviceOK DEF DevicesOK
<1>3. DeviceOK(Learned(device, uid, entries[uid].model), entries[uid].model)
  BY <1>2, LearnedOK DEF IInv
<1>4. entries' = [entries EXCEPT ![uid] = entries[uid]]
  BY DEF IInv
<1> QED BY <1>1, <1>3, <1>4, DeviceChanges

LEMMA DevicesNext == IInv /\ TypesOK /\ DevicesOK /\ [Next]_vars => DevicesOK'
<1> SUFFICES ASSUME IInv, TypesOK, DevicesOK, [Next]_vars PROVE DevicesOK'
  OBVIOUS
<1>1. ASSUME NEW p \in Printers, Advertise(p) PROVE DevicesOK'
  BY <1>1, DevicesStay DEF Advertise, devices
<1>2. ASSUME NEW f \in Flows, FlowStep(f) PROVE DevicesOK'
  <2>1. ASSUME EndFlow(f) PROVE DevicesOK'
    BY <2>1, DevicesStay DEF EndFlow, devices
  <2>2. ASSUME NEW form, Show(f, form) PROVE DevicesOK'
    BY <2>2, DevicesStay DEF Show, devices
  <2>3. ASSUME NEW p \in Printers, Discovered(f, p) PROVE DevicesOK'
    BY <2>1, <2>2, <2>3 DEF Discovered
  <2>4. ASSUME Confirm(f) PROVE DevicesOK'
    <3>1. flow[f].uid \in Typed
      BY <2>4 DEF Confirm, IInv, FormOK
    <3> QED BY <2>4, <3>1, MadeDevice DEF Confirm
  <2>5. ASSUME StartUser(f) PROVE DevicesOK'
    BY <2>2, <2>5 DEF StartUser
  <2>6. ASSUME NEW offer \in flow[f].offers, Pick(f, offer) PROVE DevicesOK'
    <3>1. offer.to \in Typed
      BY <2>6 DEF IInv, FormOK
    <3> QED BY <2>1, <2>6, <3>1, MadeDevice DEF Pick
  <2>7. ASSUME NEW typed \in Typed \cup {Garbage}, NEW model \in Models, Submit(f, typed, model)
        PROVE  DevicesOK'
    <3>1. typed # Garbage => Normal(typed) \in Typed
      BY DEF Normal, Uid, Typed, Spellings
    <3> QED BY <2>1, <2>2, <2>7, <3>1, MadeDevice DEF Submit
  <2>8. ASSUME Dismiss(f) PROVE DevicesOK'
    BY <2>1, <2>8 DEF Dismiss
  <2> QED BY <1>2, <2>3, <2>4, <2>5, <2>6, <2>7, <2>8 DEF FlowStep
<1>3. ASSUME NEW uid \in Typed, RemoveEntry(uid) PROVE DevicesOK'
  BY <1>3, NewDeviceOK, DeviceChanges DEF RemoveEntry
<1>4. ASSUME NEW uid \in Typed, Reload(uid) \/ Poll(uid) PROVE DevicesOK'
  BY <1>4, BegunDevice DEF Reload, Poll, Begin
<1>5. ASSUME NEW uid \in Typed, Render(uid) PROVE DevicesOK'
  BY <1>5, DevicesStay DEF Render
<1>6. CASE PrintLabel
  <2>1. job.entry \in Typed
    BY <1>6 DEF PrintLabel, TypesOK, Awake, Typed
  <2> QED BY <1>6, <2>1, BegunDevice DEF PrintLabel, Begin
<1>7. CASE PrintFails
  BY <1>7, DevicesStay DEF PrintFails
<1>8. CASE UNCHANGED vars
  BY <1>8, DevicesStay DEF vars, devices
<1> QED BY <1>1, <1>2, <1>3, <1>4, <1>5, <1>6, <1>7, <1>8 DEF Next, EntryStep

-----------------------------------------------------------------------------
(* What is seen, offered and entered. *)
LEMMA FormsStay ==
    ASSUME TypesOK, UNCHANGED <<registered, flow, entries>>,
           seen' \in [Printers -> {None} \cup [name : Names, services : Services]],
           job' = NoJob \/ job'.entry \in Typed
    PROVE  TypesOK'
  BY DEF TypesOK, EntryType, Models

LEMMA FormTyped ==
    ASSUME IInv, TypesOK, NEW f \in Flows, NEW form, Show(f, form), FormType(form)
    PROVE  TypesOK'
<1>1. UNCHANGED <<registered, seen, entries, job>> /\ flow' = [flow EXCEPT ![f] = form]
  BY DEF Show, devices
<1>2. \A g \in Flows : FormType(flow'[g])
  BY <1>1 DEF IInv, TypesOK
<1> QED BY <1>1, <1>2 DEF TypesOK, EntryType, Models, FormType

LEMMA OverTyped == FormType(Over)
  BY DEF FormType, Over, NoFlow

LEMMA EntryTyped ==
    ASSUME IInv, TypesOK, NEW f \in Flows, NEW uid \in Typed,
           NEW model \in Models \cup {None}, NEW title \in Names \cup {None},
           CreateEntry(f, uid, model, title)
    PROVE  TypesOK'
<1>1. /\ UNCHANGED <<registered, seen, job>>
      /\ entries' = [entries EXCEPT ![uid] = [there |-> TRUE, model |-> model, title |-> title]]
      /\ flow' = [g \in Flows |-> IF g = f \/ flow[g].uid = uid THEN Over ELSE flow[g]]
  BY DEF CreateEntry
<1>2. \A g \in Flows : FormType(flow'[g])
  BY <1>1, OverTyped DEF TypesOK
<1>3. entries' \in [Typed -> EntryType]
  BY <1>1 DEF TypesOK, EntryType
<1> QED BY <1>1, <1>2, <1>3 DEF TypesOK, EntryType, Models, FormType

LEMMA ManualTyped == FormType(ManualForm)
<1>1. \A p \in Printers : Uid(p) \in Typed
  BY DEF Uid, Typed, Spellings
<1>2. ManualForm.offers \subseteq [to : Typed, name : Names \cup {None}]
  BY <1>1 DEF ManualForm, Awake
<1>3. ManualForm.pc = "manual" /\ ManualForm.uid = None /\ ManualForm.name = None
  BY DEF ManualForm
<1> QED BY <1>2, <1>3 DEF FormType

LEMMA TypesNext == IInv /\ TypesOK /\ [Next]_vars => TypesOK'
<1> SUFFICES ASSUME IInv, TypesOK, [Next]_vars PROVE TypesOK'
  OBVIOUS
<1>1. ASSUME NEW p \in Printers, Advertise(p) PROVE TypesOK'
  <2>1. seen' \in [Printers -> {None} \cup [name : Names, services : Services]]
    BY <1>1 DEF Advertise, TypesOK
  <2> QED BY <1>1, <2>1, FormsStay DEF Advertise, devices, TypesOK
<1>2. ASSUME NEW f \in Flows, FlowStep(f) PROVE TypesOK'
  <2>1. ASSUME EndFlow(f) PROVE TypesOK'
    BY <2>1, OverTyped, FormTyped DEF EndFlow, Show
  <2>2. ASSUME NEW p \in Printers, Discovered(f, p) PROVE TypesOK'
    <3>1. CASE EndFlow(f)
      BY <2>1, <3>1
    <3>2. CASE ~EndFlow(f)
      <4> DEFINE form == [pc |-> "confirm", uid |-> Uid(p), name |-> seen[p].name,
                          offers |-> {}]
      <4>1. Show(f, form) /\ p \in Awake
        BY <2>2, <3>2 DEF Discovered
      <4>2. FormType(form)
        BY <4>1 DEF FormType, Uid, Typed, Spellings, Awake, TypesOK
      <4> QED BY <4>1, <4>2, FormTyped
    <3> QED BY <3>1, <3>2
  <2>3. ASSUME Confirm(f) PROVE TypesOK'
    <3>1. flow[f].uid \in Typed /\ flow[f].name \in Names \cup {None}
      BY <2>3 DEF Confirm, IInv, FormOK, TypesOK, FormType
    <3> QED BY <2>3, <3>1, EntryTyped DEF Confirm
  <2>4. ASSUME StartUser(f) PROVE TypesOK'
    <3>1. CASE Show(f, ManualForm)
      BY <3>1, ManualTyped, FormTyped
    <3>2. CASE ~Show(f, ManualForm)
      <4> DEFINE form == [pc |-> "user", uid |-> None, name |-> None,
                          offers |-> {[to |-> Uid(p), name |-> seen[p].name] : p \in Candidates}]
      <4>1. Show(f, form)
        BY <2>4, <3>2 DEF StartUser
      <4>2. \A p \in Candidates : Uid(p) \in Typed /\ seen[p].name \in Names
        BY DEF Candidates, Uid, Typed, Spellings, Awake, TypesOK
      <4>3. FormType(form)
        BY <4>2 DEF FormType
      <4> QED BY <4>1, <4>3, FormTyped
    <3> QED BY <3>1, <3>2
  <2>5. ASSUME NEW offer \in flow[f].offers, Pick(f, offer) PROVE TypesOK'
    <3>1. offer.to \in Typed /\ offer.name \in Names \cup {None}
      BY <2>5 DEF TypesOK, FormType
    <3> QED BY <2>1, <2>5, <3>1, EntryTyped DEF Pick
  <2>6. ASSUME NEW typed \in Typed \cup {Garbage}, NEW model \in Models, Submit(f, typed, model)
        PROVE  TypesOK'
    <3>1. typed # Garbage => Normal(typed) \in Typed
      BY DEF Normal, Uid, Typed, Spellings
    <3> QED BY <2>1, <2>6, <3>1, EntryTyped, ManualTyped, FormTyped DEF Submit
  <2>7. ASSUME Dismiss(f) PROVE TypesOK'
    BY <2>1, <2>7 DEF Dismiss
  <2> QED BY <1>2, <2>2, <2>3, <2>4, <2>5, <2>6, <2>7 DEF FlowStep
<1>3. ASSUME NEW uid \in Typed, RemoveEntry(uid) PROVE TypesOK'
  <2>1. UNCHANGED <<registered, seen, flow, job>> /\ entries' = [entries EXCEPT ![uid] = NoEntry]
    BY <1>3 DEF RemoveEntry
  <2>2. entries' \in [Typed -> EntryType]
    BY <2>1 DEF TypesOK, EntryType, NoEntry
  <2> QED BY <2>1, <2>2 DEF TypesOK, EntryType, Models
<1>4. ASSUME NEW uid \in Typed, Reload(uid) \/ Poll(uid) PROVE TypesOK'
  BY <1>4, FormsStay DEF Reload, Poll, TypesOK
<1>5. ASSUME NEW uid \in Typed, Render(uid) PROVE TypesOK'
  BY <1>5, FormsStay DEF Render, TypesOK
<1>6. CASE PrintLabel \/ PrintFails
  BY <1>6, FormsStay DEF PrintLabel, PrintFails, TypesOK
<1>7. CASE UNCHANGED vars
  BY <1>7, FormsStay DEF vars, devices, TypesOK
<1> QED BY <1>1, <1>2, <1>3, <1>4, <1>5, <1>6, <1>7 DEF Next, EntryStep

-----------------------------------------------------------------------------
THEOREM DeviceInvariance == Spec => []DeviceIInv
<1>1. IInv /\ TypesOK /\ DevicesOK /\ [Next]_vars => TypesOK' /\ DevicesOK'
  BY TypesNext, DevicesNext
<1>2. DeviceIInv <=> IInv /\ TypesOK /\ DevicesOK
  BY DEF DeviceIInv
<1> QED BY InitDevices, <1>1, <1>2, Invariance, PTL DEF Spec

(* A device drives its printer by the profile of the model its entry was made *)
(* for, or else by the most specific profile for the name it goes by, and     *)
(* knows the head of that profile, however often the printer is renamed or    *)
(* its entry is removed, made anew or reloaded (parser.py:155, models.py:127).*)
THEOREM ProfilesFit == Spec => []ProfileFits
<1>1. DeviceIInv => ProfileFits
  <2> SUFFICES ASSUME DeviceIInv, NEW uid \in Typed, run[uid].profile # None
               PROVE  /\ run[uid].head = run[uid].profile.head
                      /\ IF entries[uid].model # None
                         THEN run[uid].profile.model = entries[uid].model
                         ELSE MostSpecific(run[uid].profile, run[uid].name)
    BY DEF ProfileFits
  <2>1. DeviceOK(run[uid], entries[uid].model) /\ registered \in Registries
    BY DEF DeviceIInv, DevicesOK, IInv
  <2> QED BY <2>1, GetFits, FindFits DEF DeviceOK
<1> QED BY DeviceInvariance, <1>1, PTL

(* Whichever flow made it, an entry is for a supported model or for a printer *)
(* found by the name of one (config_flow.py:165), and its device never goes   *)
(* by a profile that is not supported (parser.py:174).                        *)
THEOREM OnlySupported == Spec => []SupportedOnly
<1>1. DeviceIInv => SupportedOnly
  <2> SUFFICES ASSUME DeviceIInv, NEW uid \in Configured
               PROVE  /\ EntrySupported(uid)
                      /\ run[uid].profile # None => Supported(run[uid].profile)
    BY DEF SupportedOnly, EntrySupported, Known
  <2>1. EntrySupported(uid)
    BY DEF DeviceIInv, IInv, EntriesSupported
  <2>2. DeviceOK(run[uid], entries[uid].model)
    BY DEF DeviceIInv, DevicesOK, Configured
  <2> QED BY <2>1, <2>2 DEF DeviceOK
<1> QED BY DeviceInvariance, <1>1, PTL

(* Every variable has its type; among it, that the entries of printers have   *)
(* upper-case ids.                                                            *)
THEOREM TypeCorrect == Spec => []TypeOK
<1>1. DeviceIInv => TypeOK
  <2> SUFFICES ASSUME DeviceIInv PROVE TypeOK
    OBVIOUS
  <2>1. registered \in Registries
    BY DEF DeviceIInv, IInv
  <2>2. \A uid \in Typed :
           /\ run[uid].profile \in Profile /\ run[uid].name \in Names \cup {None}
           /\ run[uid].head \in Nat
    <3> SUFFICES ASSUME NEW uid \in Typed
                 PROVE  /\ run[uid].profile \in Profile /\ run[uid].name \in Names \cup {None}
                        /\ run[uid].head \in Nat
      OBVIOUS
    <3>1. DeviceOK(run[uid], entries[uid].model)
      BY DEF DeviceIInv, DevicesOK
    <3>2. CASE run[uid].profile = None
      BY <3>1, <3>2 DEF DeviceOK, Profile
    <3>3. CASE run[uid].profile # None
      <4>1. run[uid].name \in Names /\ run[uid].profile \in Profile
        BY <2>1, <3>1, <3>3, GetFits, FindFits DEF DeviceOK
      <4>2. run[uid].profile.head \in Nat
        BY <2>1, <3>3, <4>1, PrinterEntryAssumption DEF Profile
      <4> QED BY <3>1, <3>3, <4>1, <4>2 DEF DeviceOK
    <3> QED BY <3>2, <3>3
  <2>3. job.entry \in Typed \cup {None}
    BY DEF DeviceIInv, TypesOK, NoJob
  <2>4. \A uid \in Configured : uid[1] \in Printers => uid[2] = "upper"
    BY DEF DeviceIInv, IInv, Proper
  <2> QED BY <2>1, <2>2, <2>3, <2>4 DEF TypeOK, DeviceIInv, TypesOK, FormType, EntryType
<1> QED BY DeviceInvariance, <1>1, PTL
=============================================================================
