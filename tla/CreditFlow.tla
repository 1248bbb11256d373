----------------------------- MODULE CreditFlow -----------------------------
(* The credit-paced sender of marklife_ble/flow.py, the MTU clamp of          *)
(* marklife_ble/client.py that resizes its packets, and the printer's side of *)
(* the credit protocol (external: modelled from how flow.py uses it).         *)
(*                                                                            *)
(* The code is one asyncio coroutine beside notification callbacks.  Between  *)
(* two awaits it runs without interruption: control state "loop" is such a    *)
(* stretch, and nothing else may move while the sender is in it.  The awaits  *)
(* are "writing" and "sent" (inside `await self._write`, before and after the *)
(* packet reached the printer) and "asleep" and "due" (inside a tick's sleep, *)
(* before and after the tick has passed).                                     *)
(*                                                                            *)
(* A link outlives its sender: every operation makes a controller of its own  *)
(* (parser.py:219), and with keep_connection the next one finds the printer   *)
(* as the last one left it.                                                   *)
EXTENDS Integers, Sequences

CONSTANTS
    Byte,             \* byte values
    Payloads,         \* the byte strings callers send
    UsesCredits,      \* does the profile name a CX characteristic?
    Window,           \* packets the printer can buffer: its opening grant
    Starvation,       \* starvation timeout, in ticks
    PacketCap,        \* min(profile packet size, user's cap): the initial size
    Mtus,             \* MTU values the printer may announce
    MaxSends          \* bound on the sends over one link

ASSUME CreditFlowAssumption ==
    /\ Payloads \subseteq Seq(Byte)
    /\ UsesCredits \in BOOLEAN
    /\ Window \in Nat
    /\ Starvation \in Nat
    /\ PacketCap \in Nat \ {0}
    /\ Mtus \subseteq Nat
    /\ MaxSends \in Nat

VARIABLES
    pc,               \* where the sender is
    data, offset,     \* send()'s argument and its position in it
    chunk,            \* the packet handed to write(), <<>> outside a write
    packetSize,       \* _packet_size
    credits,          \* _credits
    silence,          \* ticks since _last_credit, counted up to Starvation
    received,         \* bytes of data the printer has been given
    buffered,         \* packets in the printer's buffer
    owed,             \* credits the printer owes: in its queue or on the air
    lost,             \* credits whose notification never arrived, or arrived
                      \* at a controller that is gone
    forced,           \* credits the sender gave itself
    sends             \* sends so far, for the bound

sender  == <<pc, data, offset, chunk>>
printer == <<received, buffered, owed, lost>>
vars    == <<sender, packetSize, credits, silence, printer, forced, sends>>

Smaller(m, n) == IF m < n THEN m ELSE n

-----------------------------------------------------------------------------
Init ==
    /\ pc = "idle"
    /\ data = <<>> /\ offset = 0 /\ chunk = <<>>
    /\ packetSize = PacketCap
    /\ credits = 0
    /\ silence = 0
    /\ received = <<>> /\ buffered = 0 /\ lost = 0
    /\ owed = IF UsesCredits THEN Window ELSE 0
    /\ forced = 0
    /\ sends = 0

(* send() is called: the position and the starvation timer are reset, the     *)
(* banked credits are kept.                                                   *)
Send(d) ==
    /\ pc = "idle"
    /\ d # <<>>
    /\ sends < MaxSends
    /\ pc' = "loop"
    /\ data' = d
    /\ offset' = 0
    /\ silence' = 0
    /\ received' = <<>>
    /\ sends' = sends + 1
    /\ UNCHANGED <<chunk, packetSize, credits, buffered, owed, lost, forced>>

Dry == UsesCredits /\ credits <= 0

(* Mutant: the timer is not restarted by a forced credit. *)
ForceCreditKeepingTimer ==
    /\ pc = "loop"
    /\ Dry
    /\ silence >= Starvation
    /\ credits' = 1
    /\ forced' = forced + 1
    /\ UNCHANGED <<sender, packetSize, silence, printer, sends>>

(* Out of credit for too long: the sender gives itself one. *)
ForceCredit ==
    /\ pc = "loop"
    /\ Dry
    /\ silence >= Starvation
    /\ credits' = 1
    /\ silence' = 0
    /\ forced' = forced + 1
    /\ UNCHANGED <<sender, packetSize, printer, sends>>

(* Mutant: a dry sender waits for the printer and for nothing else. *)
AwaitCreditOnly ==
    /\ pc = "loop"
    /\ Dry
    /\ pc' = "asleep"
    /\ UNCHANGED <<data, offset, chunk, packetSize, credits, silence, printer,
                   forced, sends>>

(* Out of credit: sleep one tick and look again. *)
AwaitCredit ==
    /\ pc = "loop"
    /\ Dry
    /\ silence < Starvation
    /\ pc' = "asleep"
    /\ UNCHANGED <<data, offset, chunk, packetSize, credits, silence, printer,
                   forced, sends>>

(* The slice data[offset : offset + packet_size] of Python. *)
Slice == SubSeq(data, offset + 1, Smaller(offset + packetSize, Len(data)))

(* A credit is banked (or none is needed): cut the next packet and write it. *)
Write ==
    /\ pc = "loop"
    /\ ~Dry
    /\ pc' = "writing"
    /\ chunk' = Slice
    /\ UNCHANGED <<data, offset, packetSize, credits, silence, printer, forced,
                   sends>>

(* Mutant: the position advances by the packet size in force after the await. *)
WriteDoneBySize ==
    /\ pc = "sent"
    /\ credits' = IF UsesCredits THEN credits - 1 ELSE credits
    /\ offset' = Smaller(offset + packetSize, Len(data))
    /\ chunk' = <<>>
    /\ pc' = IF offset' < Len(data) THEN "asleep" ELSE "idle"
    /\ UNCHANGED <<data, packetSize, silence, printer, forced, sends>>

(* Mutant: the packet's credit is not taken. *)
WriteDoneForFree ==
    /\ pc = "sent"
    /\ offset' = offset + Len(chunk)
    /\ chunk' = <<>>
    /\ pc' = IF offset' < Len(data) THEN "asleep" ELSE "idle"
    /\ UNCHANGED <<data, packetSize, credits, silence, printer, forced, sends>>

(* Mutant: the loop stops when no full packet is left. *)
WriteDoneEarly ==
    /\ pc = "sent"
    /\ credits' = IF UsesCredits THEN credits - 1 ELSE credits
    /\ offset' = offset + Len(chunk)
    /\ chunk' = <<>>
    /\ pc' = IF offset' + packetSize <= Len(data) THEN "asleep" ELSE "idle"
    /\ UNCHANGED <<data, packetSize, silence, printer, forced, sends>>

(* `await self._write` returns: only now is the credit taken, from whatever    *)
(* is banked by then, and the position advanced, by the length of the packet. *)
WriteDone ==
    /\ pc = "sent"
    /\ credits' = IF UsesCredits THEN credits - 1 ELSE credits
    /\ offset' = offset + Len(chunk)
    /\ chunk' = <<>>
    /\ pc' = IF offset' < Len(data) THEN "asleep" ELSE "idle"
    /\ UNCHANGED <<data, packetSize, silence, printer, forced, sends>>

(* The tick is over and the event loop resumes the sender. *)
Wake ==
    /\ pc = "due"
    /\ pc' = "loop"
    /\ UNCHANGED <<data, offset, chunk, packetSize, credits, silence, printer,
                   forced, sends>>

(* A write raised or the task was cancelled at an await.  The exception leaves *)
(* send(), and the operation ends.                                            *)
Abort ==
    /\ pc \in {"writing", "sent", "asleep", "due"}
    /\ pc' = "failed"
    /\ UNCHANGED <<data, offset, chunk, packetSize, credits, silence, printer,
                   forced, sends>>

(* The packet of the write in progress, or of the one that failed, is in the  *)
(* printer's buffer, its credit not yet taken.                                *)
Arrived == Len(received) > offset

(* What the sender has banked and the printer has seen nothing of. *)
Unspent == IF UsesCredits /\ Arrived THEN credits - 1 ELSE credits

(* Mutant: the next controller takes over the banked credits. *)
ReopenBanked ==
    /\ pc \in {"idle", "failed"}
    /\ pc' = "idle"
    /\ data' = <<>> /\ offset' = 0 /\ chunk' = <<>> /\ received' = <<>>
    /\ packetSize' = PacketCap
    /\ silence' = 0
    /\ \E n \in {0, lost + Unspent} :
          /\ owed' = owed + n
          /\ lost' = lost + Unspent - n
    /\ UNCHANGED <<credits, buffered, forced, sends>>

(* The next operation on a kept link makes a new controller: no credit, the   *)
(* full packet size, whatever the old one was told.  The printer, asked for   *)
(* notifications anew, may grant again what never reached a packet, or not.   *)
Reopen ==
    /\ pc \in {"idle", "failed"}
    /\ pc' = "idle"
    /\ data' = <<>> /\ offset' = 0 /\ chunk' = <<>> /\ received' = <<>>
    /\ packetSize' = PacketCap
    /\ credits' = 0
    /\ silence' = 0
    /\ \E n \in {0, lost + Unspent} :
          /\ owed' = owed + n
          /\ lost' = lost + Unspent - n
    /\ UNCHANGED <<buffered, forced, sends>>

-----------------------------------------------------------------------------
(* Notification callbacks run while the sender is suspended, and as long as   *)
(* its client is alive.                                                       *)
Suspended == pc \notin {"loop", "failed"}

(* Mutant: a grant replaces the banked credits. *)
GrantOverwrites(n) ==
    /\ Suspended
    /\ n \in 1..owed
    /\ credits' = n
    /\ silence' = 0
    /\ owed' = owed - n
    /\ UNCHANGED <<sender, packetSize, received, buffered, lost, forced, sends>>

(* A CX notification grants n credits: grant(). *)
Grant(n) ==
    /\ Suspended
    /\ n \in 1..owed
    /\ credits' = credits + n
    /\ silence' = 0
    /\ owed' = owed - n
    /\ UNCHANGED <<sender, packetSize, received, buffered, lost, forced, sends>>

(* A CX notification grants no credit: grant() restarts the timer all the     *)
(* same, as often as the printer sends one.                                   *)
GrantNothing ==
    /\ Suspended
    /\ UsesCredits
    /\ silence' = 0
    /\ UNCHANGED <<sender, packetSize, credits, printer, forced, sends>>

(* Mutant: the announced MTU is used as it is. *)
ApplyMtuUnclamped(mtu) ==
    /\ Suspended
    /\ mtu > 3
    /\ packetSize' = mtu - 3
    /\ UNCHANGED <<sender, credits, silence, printer, forced, sends>>

(* A CX notification announces an MTU: the packet size follows it, never above *)
(* the caps; an MTU without room for a byte is ignored.                       *)
ApplyMtu(mtu) ==
    /\ Suspended
    /\ mtu > 3
    /\ packetSize' = Smaller(mtu - 3, PacketCap)
    /\ UNCHANGED <<sender, credits, silence, printer, forced, sends>>

-----------------------------------------------------------------------------
(* The link and the printer. *)

(* The packet in flight reaches the printer. *)
Transmit ==
    /\ pc = "writing"
    /\ pc' = "sent"
    /\ received' = received \o chunk
    /\ buffered' = buffered + 1
    /\ UNCHANGED <<data, offset, chunk, packetSize, credits, silence, owed, lost,
                   forced, sends>>

(* The printer takes a packet out of its buffer and owes a credit for the room. *)
Digest ==
    /\ pc # "loop"
    /\ buffered > 0
    /\ buffered' = buffered - 1
    /\ owed' = IF UsesCredits THEN owed + 1 ELSE owed
    /\ UNCHANGED <<sender, packetSize, credits, silence, received, lost, forced,
                   sends>>

(* A grant's notification is lost, or comes when nobody listens. *)
LoseGrant ==
    /\ pc # "loop"
    /\ owed > 0
    /\ owed' = owed - 1
    /\ lost' = lost + 1
    /\ UNCHANGED <<sender, packetSize, credits, silence, received, buffered,
                   forced, sends>>

(* A tick of time passes during an await of send(). *)
Tick ==
    /\ pc \in {"writing", "sent", "asleep", "due"}
    /\ silence' = Smaller(silence + 1, Starvation)
    /\ pc' = IF pc = "asleep" THEN "due" ELSE pc
    /\ UNCHANGED <<data, offset, chunk, packetSize, credits, printer, forced,
                   sends>>

-----------------------------------------------------------------------------
Sender == ForceCredit \/ AwaitCredit \/ Write \/ WriteDone \/ Wake

Callback ==
    \/ \E n \in 1..owed : Grant(n)
    \/ GrantNothing
    \/ \E mtu \in Mtus : ApplyMtu(mtu)

Environment == Transmit \/ Digest \/ LoseGrant

Untimed ==
    \/ \E d \in Payloads : Send(d)
    \/ Sender
    \/ Abort
    \/ Reopen
    \/ Callback
    \/ Environment

Next == Untimed \/ Tick

Spec == Init /\ [][Next]_vars

(* The event loop runs what is ready, time passes, and a write without        *)
(* response is taken by the radio.  Nothing is assumed of the printer here:   *)
(* see SendEnds.                                                              *)
Fairness ==
    /\ WF_vars(Sender)
    /\ WF_vars(Tick)
    /\ WF_vars(Transmit)

FairSpec == Spec /\ Fairness

-----------------------------------------------------------------------------
TypeOK ==
    /\ pc \in {"idle", "loop", "writing", "sent", "asleep", "due", "failed"}
    /\ data \in Seq(Byte) /\ chunk \in Seq(Byte) /\ received \in Seq(Byte)
    /\ offset \in 0..Len(data)
    /\ packetSize \in 1..PacketCap
    /\ credits \in Nat
    /\ silence \in 0..Starvation
    /\ buffered \in Nat /\ owed \in Nat /\ lost \in Nat /\ forced \in Nat
    /\ sends \in 0..MaxSends

(* Credits are neither made nor lost by the interleaving of grants with       *)
(* writes, nor by a change of controllers on a kept link: what the sender has *)
(* banked, the printer owes or has in its buffer, and what was lost add up to *)
(* the opening window plus the forced credits.  A packet that has arrived and *)
(* whose write has not returned counts twice, since flow.py:119 takes its     *)
(* credit after the await.                                                    *)
CreditConservation ==
    UsesCredits =>
        credits + owed + buffered + lost =
            Window + forced + (IF Arrived THEN 1 ELSE 0)

(* The printer's buffer overflows by forced credits only: as long as flow.py  *)
(* has forced none, no interleaving of grants, losses and slow writes puts    *)
(* more packets in the buffer than the printer has room for.                  *)
NoOverrun == UsesCredits => buffered <= Window + forced

(* The printer has been given a prefix of the payload, up to the position the *)
(* sender believes it is at, even when an MTU announcement changes the packet *)
(* size while a packet is being written.                                      *)
InOrder ==
    pc # "failed" =>
        received = SubSeq(data, 1, offset)
                       \o (IF pc = "sent" THEN chunk ELSE <<>>)

(* What send() promises. *)
Stream == INSTANCE ByteStream WITH
    phase   <- IF pc \in {"idle", "failed"} THEN pc ELSE "sending",
    payload <- data,
    arrived <- received

StreamSpec == Stream!Spec

(* A printer that leaves the sender dry and keeps restarting its timer: empty *)
(* grants, time and again, for ever.                                          *)
StrungAlong == []<><<Dry /\ GrantNothing>>_vars

(* Every send ends, returning or raising, even with a printer that never      *)
(* grants another credit: starvation recovery limps forward (flow.py:108).    *)
(* The one exception: an empty grant restarts the timer too (flow.py:61-64),  *)
(* so a printer that strings the sender along holds it in send() for ever.    *)
SendEnds ==
    \/ (pc \notin {"idle", "failed"}) ~> (pc \in {"idle", "failed"})
    \/ StrungAlong
=============================================================================
