----------------------------- MODULE ByteStream -----------------------------
(* What CreditFlowController.send promises its callers, whatever credits, MTU *)
(* announcements and starvation do underneath: the bytes of a payload reach   *)
(* the printer in order, none twice and none missing, and the call returns    *)
(* normally only once the printer has been given all of them.                 *)
EXTENDS Naturals, Sequences

CONSTANT Payloads        \* the byte strings callers may send

VARIABLES
    phase,               \* "idle", "sending", "failed"
    payload,             \* the argument of the current (or last) send
    arrived              \* the bytes of it the printer has been given so far

vars == <<phase, payload, arrived>>

Init ==
    /\ phase = "idle"
    /\ payload = <<>>
    /\ arrived = <<>>

(* A caller starts a send; an empty payload returns without effect. *)
Start(d) ==
    /\ phase = "idle"
    /\ d # <<>>
    /\ phase' = "sending"
    /\ payload' = d
    /\ arrived' = <<>>

(* The printer is given the next bytes, up to position n. *)
Deliver(n) ==
    /\ phase = "sending"
    /\ n > Len(arrived)
    /\ arrived' = SubSeq(payload, 1, n)
    /\ UNCHANGED <<phase, payload>>

Return ==
    /\ phase = "sending"
    /\ arrived = payload
    /\ phase' = "idle"
    /\ UNCHANGED <<payload, arrived>>

(* A write raised, or the task was cancelled. *)
Fail ==
    /\ phase = "sending"
    /\ phase' = "failed"
    /\ UNCHANGED <<payload, arrived>>

(* The next operation begins on the same link, with a stream of its own. *)
Reopen ==
    /\ phase \in {"idle", "failed"}
    /\ phase' = "idle"
    /\ payload' = <<>>
    /\ arrived' = <<>>

Next ==
    \/ \E d \in Payloads : Start(d)
    \/ \E n \in 1..Len(payload) : Deliver(n)
    \/ Return
    \/ Fail
    \/ Reopen

Spec == Init /\ [][Next]_vars
=============================================================================
