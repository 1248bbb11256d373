-------------------------------- MODULE Wire --------------------------------
(* Decoding of the notifications of a Marklife printer: parse_response and    *)
(* its tables in marklife_ble/protocols/common.py.  A payload is a sequence   *)
(* of byte values.                                                            *)
EXTENDS Integers, Sequences

SuccessBytes == {170, 79, 75}          \* 0xAA, 'O', 'K'

StatusCodes ==
    <<"out_of_paper", "cover_open", "overheating", "low_battery",
      "cover_closed">>

StatusName(code) ==
    IF code \in DOMAIN StatusCodes THEN StatusCodes[code] ELSE "unknown"

FaultStatuses == {"out_of_paper", "cover_open", "overheating"}

(* The kind parse_response gives a payload, "none" where it returns None. *)
Kind(p) ==
    IF p = <<>> THEN "none"
    ELSE IF p[1] \in SuccessBytes THEN "success"
    ELSE IF p[1] = 1 /\ Len(p) >= 2 THEN "credit"
    ELSE IF p[1] = 2 /\ Len(p) >= 3 THEN "mtu"
    ELSE IF p[1] = 255 /\ Len(p) >= 2 THEN "status"
    ELSE "none"

(* The condition a status report names. *)
StatusValue(p) == StatusName(p[2])
=============================================================================
