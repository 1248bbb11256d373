--------------------------- MODULE MCPrinterEntry ---------------------------
(* A small instance of PrinterEntry: two prefixes begin with a third one, one *)
(* of them is unsupported and the other is written with a small letter.       *)
EXTENDS PrinterEntry

CONSTANTS p1, t1, f1, f2, f3

MCCapitals == [letter \in {"P", "8", "0", "s", "S"} |-> IF letter = "s" THEN "S" ELSE letter]

MCNames    == {<<"P", "S">>, <<"P", "8">>, <<"P", "0">>, <<"S">>}
MCServices == {{}, {"primary"}}

Narrow  == [model |-> "narrow", prefixes |-> <<<<"P">>>>, supported |-> TRUE,
            service |-> "primary", head |-> 384]
Wide    == [model |-> "wide", prefixes |-> <<<<"S", "S">>, <<"P", "s">>>>, supported |-> TRUE,
            service |-> "alt", head |-> 576]
Classic == [model |-> "classic", prefixes |-> <<<<"P", "8">>>>, supported |-> FALSE,
            service |-> "primary", head |-> 384]

MCRegistries == {<<Narrow, Wide, Classic>>, <<Classic, Narrow, Wide>>}
=============================================================================
