-------------------------- MODULE CreditFlowProofs --------------------------
(* Proofs about CreditFlow for every payload, window, timeout and packet size. *)
EXTENDS CreditFlow, SequenceTheorems, TLAPS

Sending == {"loop", "writing", "sent", "asleep", "due"}
InWrite == {"writing", "sent"}

(* The packet in a write is a nonempty slice of the payload at the sender's   *)
(* position; outside a write there is none.                                   *)
PacketOK ==
    /\ pc \in InWrite =>
          /\ Len(chunk) > 0
          /\ offset + Len(chunk) <= Len(data)
          /\ chunk = SubSeq(data, offset + 1, offset + Len(chunk))
    /\ pc \in {"idle", "loop", "asleep", "due"} => chunk = <<>>

(* Bytes are left to send while sending, and none when idle. *)
PositionOK ==
    /\ pc \in Sending => offset < Len(data)
    /\ pc = "idle" => offset = Len(data)

(* A packet in a write has its credit banked until the write returns. *)
Paced == pc \in InWrite /\ UsesCredits => credits > 0

(* How far the printer has got, by the sender's books. *)
Reached == IF pc = "sent" THEN offset + Len(chunk) ELSE offset

ReceivedOK == pc # "failed" => received = SubSeq(data, 1, Reached)

(* A packet that arrived before its write failed has its credit banked still. *)
FailedOK == pc = "failed" /\ Arrived /\ UsesCredits => credits > 0

IInv == TypeOK /\ PacketOK /\ PositionOK /\ Paced /\ ReceivedOK /\ FailedOK

-----------------------------------------------------------------------------
(* A nonempty slice that starts after position i and ends by position j. *)
LEMMA SliceProperties ==
    ASSUME NEW S, NEW s \in Seq(S), NEW i \in Nat, NEW j \in Nat,
           i < j, j <= Len(s)
    PROVE  /\ SubSeq(s, i + 1, j) \in Seq(S)
           /\ Len(SubSeq(s, i + 1, j)) = j - i
           /\ SubSeq(s, 1, i) \o SubSeq(s, i + 1, j) = SubSeq(s, 1, j)
<1>1. \A k \in (i + 1)..j : s[k] \in S
  BY ElementOfSeq
<1>2. /\ SubSeq(s, i + 1, j) \in Seq(S)
      /\ Len(SubSeq(s, i + 1, j)) = j - i
  BY <1>1, SubSeqProperties
<1>3. SubSeq(s, 1, i) \o SubSeq(s, i + 1, j) = SubSeq(s, 1, j)
  BY ConcatAdjacentSubSeq, 1 \in 1..Len(s) + 1
<1> QED BY <1>2, <1>3

(* A packet has arrived from its transmission to the end of its write.        *)
ArrivedOK ==
    /\ pc # "failed" => (Arrived <=> pc = "sent")
    /\ Arrived /\ UsesCredits => credits > 0

LEMMA ArrivedWhen == IInv => ArrivedOK
<1> SUFFICES ASSUME IInv PROVE ArrivedOK
  OBVIOUS
<1>1. /\ Len(data) \in Nat /\ Len(chunk) \in Nat /\ offset \in 0..Len(data)
      /\ data \in Seq(Byte)
  BY LenProperties DEF IInv, TypeOK
<1>2. ASSUME pc # "failed" PROVE Len(received) = Reached
  <2> DEFINE j == Reached
  <2>1. j \in 0..Len(data) /\ received = SubSeq(data, 1, j)
    BY <1>1, <1>2 DEF IInv, PacketOK, ReceivedOK, Reached, InWrite
  <2> HIDE DEF j
  <2>2. \A k \in 1..j : data[k] \in Byte
    BY <1>1, <2>1, ElementOfSeq
  <2>3. Len(SubSeq(data, 1, j)) = j
    BY <1>1, <2>1, <2>2, SubSeqProperties, 1 \in Int
  <2> QED BY <2>1, <2>3 DEF j
<1>3. pc # "failed" => (Arrived <=> pc = "sent")
  BY <1>1, <1>2 DEF IInv, PacketOK, InWrite, Arrived, Reached
<1> QED BY <1>3 DEF ArrivedOK, IInv, Paced, FailedOK, InWrite

LEMMA ArrivedNext == IInv' => ArrivedOK'
  BY ArrivedWhen, PTL

LEMMA InitIInv == Init => IInv
<1> SUFFICES ASSUME Init PROVE IInv
  OBVIOUS
<1> USE CreditFlowAssumption DEF Init
<1>1. <<>> \in Seq(Byte) /\ Len(<<>>) = 0
  BY EmptySeq
<1>2. TypeOK
  BY <1>1 DEF TypeOK
<1>3. SubSeq(<<>>, 1, 0) = <<>>
  BY SubSeqEmpty
<1> QED
  BY <1>1, <1>2, <1>3
     DEF IInv, PacketOK, PositionOK, Paced, ReceivedOK, Reached, FailedOK,
         Sending, InWrite

(* What the sender does at each of its steps. *)
LEMMA SendIInv == ASSUME IInv, NEW d \in Payloads, Send(d) PROVE IInv'
<1> USE CreditFlowAssumption DEF Send, IInv, printer
<1>1. d \in Seq(Byte) /\ Len(d) \in Nat \ {0} /\ <<>> \in Seq(Byte)
  BY EmptySeq
<1>2. TypeOK'
  BY <1>1 DEF TypeOK
<1>3. PacketOK' /\ PositionOK' /\ Paced' /\ FailedOK'
  BY <1>1 DEF PacketOK, PositionOK, Paced, FailedOK, Sending, InWrite
<1>4. ReceivedOK'
  BY SubSeqEmpty DEF ReceivedOK, Reached
<1> QED BY <1>2, <1>3, <1>4

LEMMA WriteIInv == ASSUME IInv, Write PROVE IInv'
<1> USE CreditFlowAssumption DEF Write, IInv, printer
<1> DEFINE j == Smaller(offset + packetSize, Len(data))
<1>1. /\ data \in Seq(Byte) /\ Len(data) \in Nat /\ offset \in Nat
      /\ packetSize \in Nat \ {0} /\ offset < Len(data)
  BY LenProperties DEF TypeOK, PositionOK, Sending
<1>2. j \in Nat /\ offset < j /\ j <= Len(data)
  BY <1>1 DEF Smaller
<1>3. chunk' = SubSeq(data, offset + 1, j)
  BY DEF Slice
<1> HIDE DEF j
<1>4. /\ SubSeq(data, offset + 1, j) \in Seq(Byte)
      /\ Len(SubSeq(data, offset + 1, j)) = j - offset
  BY <1>1, <1>2, SliceProperties
<1>5. TypeOK'
  BY <1>3, <1>4 DEF TypeOK
<1>6. PacketOK'
  <2>1. Len(chunk') = j - offset
    BY <1>3, <1>4
  <2>2. offset + Len(chunk') = j
    BY <2>1, <1>1, <1>2
  <2> QED BY <1>1, <1>2, <1>3, <2>1, <2>2 DEF PacketOK, InWrite
<1>7. PositionOK'
  BY <1>1 DEF PositionOK, Sending
<1>8. Paced' /\ FailedOK'
  BY DEF Paced, FailedOK, Dry, TypeOK
<1>9. ReceivedOK'
  BY DEF ReceivedOK, Reached
<1> QED BY <1>5, <1>6, <1>7, <1>8, <1>9

LEMMA TransmitIInv == ASSUME IInv, Transmit PROVE IInv'
<1> USE CreditFlowAssumption DEF Transmit, IInv, printer
<1> DEFINE j == offset + Len(chunk)
<1>1. /\ data \in Seq(Byte) /\ chunk \in Seq(Byte) /\ received \in Seq(Byte)
      /\ Len(data) \in Nat /\ Len(chunk) \in Nat /\ offset \in Nat
  BY LenProperties DEF TypeOK
<1>2. j \in Nat /\ offset < j /\ j <= Len(data)
  BY <1>1 DEF PacketOK, InWrite
<1>3. received' = SubSeq(data, 1, j)
  <2>1. received = SubSeq(data, 1, offset) /\ chunk = SubSeq(data, offset + 1, j)
    BY DEF ReceivedOK, Reached, PacketOK, InWrite
  <2> HIDE DEF j
  <2> QED BY <1>1, <1>2, <2>1, SliceProperties
<1>4. received' \in Seq(Byte)
  BY <1>1, ConcatProperties
<1>5. TypeOK'
  BY <1>4 DEF TypeOK
<1>6. PacketOK' /\ PositionOK' /\ Paced' /\ FailedOK'
  BY DEF PacketOK, PositionOK, Paced, FailedOK, Sending, InWrite
<1>7. ReceivedOK'
  BY <1>3 DEF ReceivedOK, Reached
<1> QED BY <1>5, <1>6, <1>7

LEMMA WriteDoneIInv == ASSUME IInv, WriteDone PROVE IInv'
<1> USE CreditFlowAssumption DEF WriteDone, IInv, printer
<1>1. /\ Len(data) \in Nat /\ Len(chunk) \in Nat /\ offset \in Nat
      /\ <<>> \in Seq(Byte)
  BY LenProperties, EmptySeq DEF TypeOK
<1>2. offset' \in 0..Len(data)
  BY <1>1 DEF PacketOK, InWrite
<1>3. credits' \in Nat
  BY DEF TypeOK, Paced, InWrite
<1>4. TypeOK'
  BY <1>1, <1>2, <1>3 DEF TypeOK
<1>5. PacketOK' /\ PositionOK' /\ Paced' /\ FailedOK'
  BY <1>1, <1>2 DEF PacketOK, PositionOK, Paced, FailedOK, Sending, InWrite
<1>6. ReceivedOK'
  BY DEF ReceivedOK, Reached
<1> QED BY <1>4, <1>5, <1>6

(* A new controller finds no credit it could owe. *)
LEMMA UnspentNat == ASSUME IInv PROVE Unspent \in Nat
  BY ArrivedWhen, CreditFlowAssumption DEF ArrivedOK, IInv, TypeOK, Unspent

LEMMA ReopenIInv == ASSUME IInv, Reopen PROVE IInv'
<1> USE CreditFlowAssumption DEF Reopen
<1>1. <<>> \in Seq(Byte) /\ Len(<<>>) = 0
  BY EmptySeq
<1>2. PICK n \in {0, lost + Unspent} :
          owed' = owed + n /\ lost' = lost + Unspent - n
  OBVIOUS
<1>3. owed' \in Nat /\ lost' \in Nat
  BY <1>2, UnspentNat DEF IInv, TypeOK
<1>4. TypeOK'
  BY <1>1, <1>3 DEF IInv, TypeOK
<1>5. SubSeq(<<>>, 1, 0) = <<>>
  BY SubSeqEmpty
<1> QED
  BY <1>1, <1>4, <1>5
     DEF IInv, PacketOK, PositionOK, Paced, ReceivedOK, Reached, FailedOK, Sending,
         InWrite

LEMMA AbortIInv == ASSUME IInv, Abort PROVE IInv'
<1>1. Arrived /\ UsesCredits => credits > 0
  BY ArrivedWhen DEF ArrivedOK
<1> QED
  BY <1>1
     DEF Abort, IInv, printer, Sending, InWrite, TypeOK, PacketOK, PositionOK,
         Paced, ReceivedOK, Reached, FailedOK, Arrived

(* Steps that leave the transfer where it is. *)
LEMMA OtherIInv ==
    ASSUME IInv,
           \/ ForceCredit \/ AwaitCredit \/ Wake \/ Tick
           \/ Digest \/ LoseGrant \/ Callback
           \/ UNCHANGED vars
    PROVE  IInv'
<1> USE CreditFlowAssumption
        DEF IInv, sender, printer, Sending, InWrite, Suspended, FailedOK,
            Arrived
<1>1. CASE ForceCredit
  BY <1>1 DEF ForceCredit, TypeOK, PacketOK, PositionOK, Paced, ReceivedOK, Reached, Dry
<1>2. CASE AwaitCredit
  BY <1>2 DEF AwaitCredit, TypeOK, PacketOK, PositionOK, Paced, ReceivedOK, Reached
<1>3. CASE Wake
  BY <1>3 DEF Wake, TypeOK, PacketOK, PositionOK, Paced, ReceivedOK, Reached
<1>5. CASE Tick
  BY <1>5 DEF Tick, Smaller, TypeOK, PacketOK, PositionOK, Paced, ReceivedOK, Reached
<1>6. CASE Digest
  BY <1>6 DEF Digest, TypeOK, PacketOK, PositionOK, Paced, ReceivedOK, Reached
<1>7. CASE LoseGrant
  BY <1>7 DEF LoseGrant, TypeOK, PacketOK, PositionOK, Paced, ReceivedOK, Reached
<1>8. CASE Callback
  <2>1. ASSUME NEW n \in 1..owed, Grant(n) PROVE IInv'
    BY <2>1 DEF Grant, TypeOK, PacketOK, PositionOK, Paced, ReceivedOK, Reached
  <2>2. CASE GrantNothing
    BY <2>2 DEF GrantNothing, TypeOK, PacketOK, PositionOK, Paced, ReceivedOK, Reached
  <2>3. ASSUME NEW mtu \in Mtus, ApplyMtu(mtu) PROVE IInv'
    BY <2>3 DEF ApplyMtu, Smaller, TypeOK, PacketOK, PositionOK, Paced, ReceivedOK,
                Reached
  <2> QED BY <1>8, <2>1, <2>2, <2>3 DEF Callback
<1>9. CASE UNCHANGED vars
  BY <1>9 DEF vars, TypeOK, PacketOK, PositionOK, Paced, ReceivedOK, Reached
<1> QED BY <1>1, <1>2, <1>3, <1>5, <1>6, <1>7, <1>8, <1>9

LEMMA NextIInv == IInv /\ [Next]_vars => IInv'
<1> SUFFICES ASSUME IInv, [Next]_vars PROVE IInv'
  OBVIOUS
<1> QED
  BY SendIInv, WriteIInv, TransmitIInv, WriteDoneIInv, ReopenIInv, AbortIInv, OtherIInv
     DEF Next, Untimed, Sender, Environment

THEOREM Invariance == Spec => []IInv
  BY InitIInv, NextIInv, PTL DEF Spec

(* The controller's variables keep their types: in particular the credits of  *)
(* flow.py never go below zero and the position never passes the payload,     *)
(* whatever arrives during an await.                                          *)
THEOREM TypeCorrect == Spec => []TypeOK
<1>1. IInv => TypeOK
  BY DEF IInv
<1> QED BY <1>1, Invariance, PTL

-----------------------------------------------------------------------------
LEMMA NextConservation ==
    IInv /\ CreditConservation /\ [Next]_vars => CreditConservation'
<1> SUFFICES ASSUME IInv, CreditConservation, [Next]_vars, UsesCredits
             PROVE  CreditConservation'
  BY DEF CreditConservation
<1> USE CreditFlowAssumption
        DEF IInv, TypeOK, CreditConservation, sender, printer, Suspended
<1>1. IInv'
  BY NextIInv
<1>2. pc # "failed" => (Arrived <=> pc = "sent")
  BY ArrivedWhen DEF ArrivedOK
<1>3. pc' # "failed" => (Arrived' <=> pc' = "sent")
  BY <1>1, ArrivedNext DEF ArrivedOK
<1>4. ASSUME UNCHANGED <<received, offset>> PROVE Arrived' = Arrived
  BY <1>4 DEF Arrived
<1>5. ASSUME NEW d \in Payloads, Send(d) PROVE CreditConservation'
  BY <1>2, <1>3, <1>5 DEF Send
<1>6. CASE ForceCredit
  BY <1>4, <1>6 DEF ForceCredit, Dry
<1>7. CASE AwaitCredit \/ Write \/ Wake \/ Abort \/ Tick
  <2>1. UNCHANGED <<credits, owed, buffered, lost, forced, received, offset>>
    BY <1>7 DEF AwaitCredit, Write, Wake, Abort, Tick
  <2> QED BY <1>4, <2>1
<1>8. CASE WriteDone
  BY <1>2, <1>3, <1>8 DEF WriteDone
<1>9. CASE Transmit
  BY <1>2, <1>3, <1>9 DEF Transmit
<1>10. CASE Reopen
  <2>1. PICK n \in {0, lost + Unspent} :
            owed' = owed + n /\ lost' = lost + Unspent - n
    BY <1>10 DEF Reopen
  <2>2. /\ ~Arrived'
        /\ credits' = 0 /\ buffered' = buffered /\ forced' = forced
    BY <1>3, <1>10 DEF Reopen
  <2>3. Unspent \in Nat /\ Unspent + owed + buffered + lost = Window + forced
    BY UnspentNat DEF Unspent
  <2>4. n \in Nat /\ lost \in Nat /\ owed \in Nat /\ buffered \in Nat
    BY <2>3
  <2>5. credits' + owed' + buffered' + lost' = Unspent + owed + buffered + lost
    BY <2>1, <2>2, <2>3, <2>4
  <2> QED BY <2>2, <2>3, <2>5
<1>11. CASE Digest
  BY <1>4, <1>11 DEF Digest
<1>12. CASE LoseGrant
  BY <1>4, <1>12 DEF LoseGrant
<1>13. ASSUME NEW n \in 1..owed, Grant(n) PROVE CreditConservation'
  BY <1>4, <1>13 DEF Grant
<1>14. CASE GrantNothing
  BY <1>4, <1>14 DEF GrantNothing
<1>15. ASSUME NEW mtu \in Mtus, ApplyMtu(mtu) PROVE CreditConservation'
  BY <1>4, <1>15 DEF ApplyMtu
<1>16. CASE UNCHANGED vars
  BY <1>4, <1>16 DEF vars
<1> QED
  BY <1>5, <1>6, <1>7, <1>8, <1>9, <1>10, <1>11, <1>12, <1>13, <1>14, <1>15, <1>16
     DEF Next, Untimed, Sender, Environment, Callback

(* The credit books balance, however grants, losses and writes interleave. *)
THEOREM Conservation == Spec => []CreditConservation
<1>1. Init => CreditConservation
  BY CreditFlowAssumption, EmptySeq DEF Init, CreditConservation, Arrived
<1> QED BY <1>1, NextConservation, Invariance, PTL DEF Spec

(* The printer's buffer overflows by at most one packet per forced credit,    *)
(* over all the controllers that follow each other on its link.               *)
THEOREM Overrun == Spec => []NoOverrun
<1>1. IInv /\ CreditConservation => NoOverrun
  BY ArrivedWhen, CreditFlowAssumption
     DEF ArrivedOK, IInv, TypeOK, CreditConservation, NoOverrun
<1> QED BY <1>1, Invariance, Conservation, PTL

(* The printer holds exactly the bytes up to the sender's position. *)
THEOREM Ordered == Spec => []InOrder
<1>1. IInv => InOrder
  <2> SUFFICES ASSUME IInv, pc # "failed" PROVE InOrder
    BY DEF InOrder
  <2>1. CASE pc = "sent"
    <3> DEFINE j == offset + Len(chunk)
    <3>1. /\ data \in Seq(Byte) /\ offset \in Nat /\ Len(chunk) \in Nat
          /\ offset < j /\ j <= Len(data)
          /\ chunk = SubSeq(data, offset + 1, j)
          /\ received = SubSeq(data, 1, j)
      BY <2>1, LenProperties
         DEF IInv, TypeOK, PacketOK, InWrite, ReceivedOK, Reached
    <3>2. j \in Nat
      BY <3>1
    <3> HIDE DEF j
    <3>3. SubSeq(data, 1, offset) \o SubSeq(data, offset + 1, j) = received
      BY <3>1, <3>2, SliceProperties
    <3> QED BY <2>1, <3>1, <3>3 DEF InOrder
  <2>2. CASE pc # "sent"
    <3>1. received = SubSeq(data, 1, offset) /\ received \in Seq(Byte)
      BY <2>2 DEF IInv, TypeOK, ReceivedOK, Reached
    <3> QED BY <2>2, <3>1, ConcatEmptySeq DEF InOrder
  <2> QED BY <2>1, <2>2
<1> QED BY <1>1, Invariance, PTL

-----------------------------------------------------------------------------
(* Refinement: each step of the sender is a step of ByteStream or none. *)

LEMMA InitRefines == Init => Stream!Init
  BY DEF Init, Stream!Init

LEMMA TransmitRefines == ASSUME IInv, Transmit PROVE \E n \in 1..Len(data) : Stream!Deliver(n)
<1> DEFINE j == offset + Len(chunk)
<1>1. /\ data \in Seq(Byte) /\ offset \in Nat /\ Len(chunk) \in Nat
      /\ Len(data) \in Nat
      /\ offset < j /\ j <= Len(data)
      /\ chunk = SubSeq(data, offset + 1, j)
      /\ received = SubSeq(data, 1, offset)
  BY LenProperties
     DEF Transmit, IInv, TypeOK, PacketOK, InWrite, ReceivedOK, Reached
<1>2. j \in 1..Len(data) /\ j \in Nat
  BY <1>1
<1>3. \A k \in 1..offset : data[k] \in Byte
  BY <1>1, ElementOfSeq
<1>4. Len(received) = offset
  BY <1>1, <1>3, SubSeqProperties, 1 \in Int
<1> HIDE DEF j
<1>5. SubSeq(data, 1, offset) \o SubSeq(data, offset + 1, j) = SubSeq(data, 1, j)
  BY <1>1, <1>2, SliceProperties
<1>6. received' = SubSeq(data, 1, j)
  BY <1>1, <1>5 DEF Transmit
<1>7. Stream!Deliver(j)
  BY <1>1, <1>4, <1>6 DEF Transmit, Stream!Deliver
<1> QED BY <1>2, <1>7

LEMMA WriteDoneRefines ==
    ASSUME IInv, WriteDone PROVE Stream!Return \/ UNCHANGED Stream!vars
<1>1. CASE offset' < Len(data)
  BY <1>1 DEF WriteDone, Stream!vars, printer
<1>2. CASE ~(offset' < Len(data))
  <2>1. offset + Len(chunk) = Len(data)
    BY <1>2, LenProperties DEF WriteDone, IInv, TypeOK, PacketOK, InWrite
  <2>2. received = data
    BY <2>1, SubSeqFull DEF WriteDone, IInv, TypeOK, ReceivedOK, Reached
  <2> QED BY <1>2, <2>2 DEF WriteDone, Stream!Return, printer
<1> QED BY <1>1, <1>2

LEMMA StepRefines == IInv /\ [Next]_vars => [Stream!Next]_(Stream!vars)
<1> SUFFICES ASSUME IInv, [Next]_vars PROVE [Stream!Next]_(Stream!vars)
  OBVIOUS
<1> USE DEF printer, sender
<1>1. ASSUME NEW d \in Payloads, Send(d) PROVE Stream!Next
  BY <1>1 DEF Send, Stream!Next, Stream!Start
<1>2. CASE Abort
  BY <1>2 DEF Abort, Stream!Next, Stream!Fail
<1>3. CASE Transmit
  BY <1>3, TransmitRefines DEF Stream!Next
<1>4. CASE WriteDone
  BY <1>4, WriteDoneRefines DEF Stream!Next
<1>5. CASE ForceCredit \/ AwaitCredit \/ Write \/ Wake \/ Tick
  BY <1>5 DEF ForceCredit, AwaitCredit, Write, Wake, Tick, Stream!vars
<1>6. CASE Digest \/ LoseGrant \/ GrantNothing
  BY <1>6 DEF Digest, LoseGrant, GrantNothing, Stream!vars
<1>7. ASSUME NEW n \in 1..owed, Grant(n) PROVE UNCHANGED Stream!vars
  BY <1>7 DEF Grant, Stream!vars
<1>8. ASSUME NEW mtu \in Mtus, ApplyMtu(mtu) PROVE UNCHANGED Stream!vars
  BY <1>8 DEF ApplyMtu, Stream!vars
<1>9. CASE Reopen
  BY <1>9 DEF Reopen, Stream!Next, Stream!Reopen
<1>10. CASE UNCHANGED vars
  BY <1>10 DEF vars, Stream!vars
<1> QED
  BY <1>1, <1>2, <1>3, <1>4, <1>5, <1>6, <1>7, <1>8, <1>9, <1>10
     DEF Next, Untimed, Sender, Environment, Callback

(* send() keeps its promise: bytes in order, none twice, none missing, and a  *)
(* normal return only when the printer has been given them all.               *)
THEOREM Refinement == Spec => StreamSpec
  BY InitRefines, StepRefines, Invariance, PTL DEF Spec, StreamSpec, Stream!Spec
=============================================================================
