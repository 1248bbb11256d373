---------------------------- MODULE MCCreditFlow ----------------------------
(* A small instance of CreditFlow, under its clock: payloads whose bytes are  *)
(* all different, so that a gap, a repetition or a swap shows.                *)
EXTENDS CreditFlowHistory

MCByte     == 1..4
MCPayloads == {<<>>, <<1, 2, 3, 4>>}
MCMtus     == {3, 4, 9}
=============================================================================
