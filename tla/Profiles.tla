------------------------------ MODULE Profiles ------------------------------
(* Device profiles and the match of advertised names (marklife_ble/models.py). *)
(* A name is a sequence of letters, a profile a record [model, prefixes,       *)
(* supported, service, head].                                                  *)
EXTENDS Naturals, Sequences, SequencesExt

CONSTANTS
    Capitals,         \* upper(): a function from letters to letters
    None              \* no name, no profile, no model

Letters == DOMAIN Capitals

Upper(name) == [i \in DOMAIN name |-> Capitals[name[i]]]

(* Every prefix of a registered profile, and where it was registered. *)
Pairs(registered) ==
    UNION {{[at |-> <<i, j>>, prefix |-> registered[i].prefixes[j], profile |-> registered[i]] :
              j \in DOMAIN registered[i].prefixes} : i \in DOMAIN registered}

(* a was registered before b. *)
Earlier(a, b) == a.at[1] < b.at[1] \/ (a.at[1] = b.at[1] /\ a.at[2] < b.at[2])

(* Mutant: the first profile that was registered wins. *)
PrecedesAsRegistered(a, b) == Earlier(a, b)

(* The order _reindex sorts the index in: longest prefix first, otherwise in  *)
(* the order of registration.                                                 *)
Precedes(a, b) ==
    \/ Len(a.prefix) > Len(b.prefix)
    \/ Len(a.prefix) = Len(b.prefix) /\ Earlier(a, b)

(* Mutant: the prefix as it is written. *)
StartsAsWritten(name, prefix) == IsPrefix(prefix, Upper(name))

StartsWith(name, prefix) == IsPrefix(Upper(prefix), Upper(name))

Fitting(index, name) == {pair \in index : StartsWith(name, pair.prefix)}

(* find_profile_by_name: the first prefix of the index that fits. *)
Find(index, name) ==
    IF name = None \/ Fitting(index, name) = {} THEN None
    ELSE (CHOOSE pair \in Fitting(index, name) :
            \A other \in Fitting(index, name) \ {pair} : Precedes(pair, other)).profile

(* get_profile *)
Get(registered, model) ==
    LET named == {i \in DOMAIN registered : registered[i].model = model}
    IN  IF named = {} THEN None
        ELSE registered[CHOOSE i \in named : \A j \in named : i <= j]

(* advertisement_contradicts: services that are advertised, but not this one. *)
Contradicts(profile, services) == services # {} /\ profile.service \notin services

Supported(profile) == profile # None /\ profile.supported
=============================================================================
