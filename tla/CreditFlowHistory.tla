------------------------- MODULE CreditFlowHistory --------------------------
(* CreditFlow with a clock beside it, to say how often a credit is forced.    *)
(* It observes: no step of CreditFlow depends on it.                          *)
EXTENDS CreditFlow

VARIABLE sinceForced    \* ticks since the last forced credit, up to Starvation

hvars == <<vars, sinceForced>>

HInit == Init /\ sinceForced = Starvation

HNext ==
    \/ /\ Untimed
       /\ sinceForced' = IF forced' # forced THEN 0 ELSE sinceForced
    \/ /\ Tick
       /\ sinceForced' = Smaller(sinceForced + 1, Starvation)

HFairSpec == HInit /\ [][HNext]_hvars /\ Fairness

(* The sender limps at one forced packet per starvation timeout: between two  *)
(* forced credits the printer always gets the whole timeout to answer, over   *)
(* as many sends as there are (flow.py:107-112).                              *)
ForcedSpacing == [][forced' # forced => sinceForced >= Starvation]_hvars
=============================================================================
