\* A printer with two buffer slots, packets of one or two bytes, and as many
\* controllers on one link as there are operations.
CONSTANTS
    Byte <- MCByte
    Payloads <- MCPayloads
    UsesCredits = TRUE
    Window = 2
    Starvation = 2
    PacketCap = 2
    Mtus <- MCMtus
    MaxSends = 2
SPECIFICATION HFairSpec
INVARIANTS TypeOK CreditConservation NoOverrun
PROPERTIES StreamSpec SendEnds ForcedSpacing
\* The connection ends after MaxSends sends.
CHECK_DEADLOCK FALSE
