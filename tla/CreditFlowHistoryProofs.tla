----------------------- MODULE CreditFlowHistoryProofs -----------------------
(* Forced credits are a starvation timeout apart, for any printer.            *)
EXTENDS CreditFlowHistory, TLAPS

(* Whatever restarts the clock restarts the code's timer, too, which many     *)
(* other things restart as well.                                              *)
TimersOK ==
    /\ silence \in 0..Starvation /\ sinceForced \in 0..Starvation
    /\ silence <= sinceForced

LEMMA InitTimers == HInit => TimersOK
  BY CreditFlowAssumption DEF HInit, Init, TimersOK

(* Steps other than ticks restart the timer or leave it; a credit is forced   *)
(* only when it has run out.                                                  *)
LEMMA UntimedKeeps ==
    ASSUME TimersOK, Untimed
    PROVE  /\ silence' \in {0, silence}
           /\ forced' # forced => silence >= Starvation /\ silence' = 0
<1> USE DEF vars, sender, printer
<1>1. CASE Sender
  BY <1>1 DEF Sender, ForceCredit, AwaitCredit, Write, WriteDone, Wake
<1>2. CASE Callback
  BY <1>2 DEF Callback, Grant, GrantNothing, ApplyMtu
<1>3. CASE Environment
  BY <1>3 DEF Environment, Transmit, Digest, LoseGrant
<1>4. CASE Abort \/ Reopen \/ \E d \in Payloads : Send(d)
  BY <1>4 DEF Abort, Reopen, Send
<1> QED BY <1>1, <1>2, <1>3, <1>4 DEF Untimed

LEMMA TimersNext == TimersOK /\ [HNext]_hvars => TimersOK'
<1> SUFFICES ASSUME TimersOK, [HNext]_hvars PROVE TimersOK'
  OBVIOUS
<1> USE CreditFlowAssumption
<1>1. CASE Untimed /\ sinceForced' = IF forced' # forced THEN 0 ELSE sinceForced
  BY <1>1, UntimedKeeps DEF TimersOK
<1>2. CASE Tick /\ sinceForced' = Smaller(sinceForced + 1, Starvation)
  BY <1>2 DEF Tick, TimersOK, Smaller
<1>3. CASE UNCHANGED hvars
  BY <1>3 DEF hvars, vars, TimersOK
<1> QED BY <1>1, <1>2, <1>3 DEF HNext

(* A credit is forced only when the whole timeout has passed since the last   *)
(* one was, over any number of sends and controllers (flow.py:107).           *)
THEOREM ForcedApart == HInit /\ [][HNext]_hvars => ForcedSpacing
<1>1. TimersOK /\ [HNext]_hvars => [forced' # forced => sinceForced >= Starvation]_hvars
  <2> SUFFICES ASSUME TimersOK, HNext, forced' # forced PROVE sinceForced >= Starvation
    BY DEF hvars
  <2>1. Untimed
    BY DEF HNext, Tick
  <2> QED BY <2>1, UntimedKeeps, CreditFlowAssumption DEF TimersOK
<1> QED BY <1>1, InitTimers, TimersNext, PTL DEF ForcedSpacing
=============================================================================
