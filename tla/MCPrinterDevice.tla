--------------------------- MODULE MCPrinterDevice ---------------------------
(* A small instance of PrinterDevice: two polls and a print. *)
EXTENDS PrinterDevice

CONSTANTS u1, u2, p1

MCPolls  == {u1, u2}
MCPrints == {p1}
=============================================================================
