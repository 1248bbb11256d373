--------------------------- MODULE MCPrinterClient ---------------------------
(* Small instances of PrinterClient. *)
EXTENDS PrinterClient

(* A level and an identity text that parse_response does not recognise, a     *)
(* good condition, a confirmation.                                            *)
MCAnswers ==
    [battery |-> {<<16, 80>>}, info |-> {<<77>>}, status |-> {<<255, 5>>},
     success |-> {<<170>>}]

(* Out of paper; low battery, which is no fault. *)
MCReports == {<<255, 1>>, <<255, 4>>}
=============================================================================
