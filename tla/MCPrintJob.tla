----------------------------- MODULE MCPrintJob ------------------------------
(* Small instances of PrintJob: a printer of each kind of density command and *)
(* header, labels at the bounds of the head and of a byte.                    *)
EXTENDS PrintJob

P15 == [family |-> "l11", command |-> "set-thickness", map |-> <<>>, default |-> 2,
        head |-> 384]
P12 == [family |-> "l11", command |-> "set-density", map |-> <<>>, default |-> 2,
        head |-> 384]
M60 == [family |-> "compressed", command |-> "set-density", map |-> <<3, 8, 14>>,
        default |-> 2, head |-> 384]
P80 == [family |-> "compressed", command |-> "set-density", map |-> <<>>,
        default |-> 2, head |-> 576]

MCProfiles  == {P15, P12, M60, P80}
MCImages    == {[width |-> 9, height |-> 256], [width |-> 1600, height |-> 1],
                [width |-> 8, height |-> 65537]}
MCDensities == {1, 258}
MCCopies    == {0, 2}
MCPacked    == {300, 66000}
=============================================================================
