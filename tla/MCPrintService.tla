--------------------------- MODULE MCPrintService ----------------------------
(* Small instances of PrintService: two printers and two calls. *)
EXTENDS PrintService, TLC

CONSTANTS p1, p2, j1, j2

MCEntries == {p1, p2}
MCJobs    == {j1, j2}

(* Nothing tells two printers or two calls apart. *)
Symmetry == Permutations(MCEntries) \cup Permutations(MCJobs)
=============================================================================
