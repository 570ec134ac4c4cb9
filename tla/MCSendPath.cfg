CONSTANTS
    Terminals = {t1}
    Center = center
    Chunks = {k1, k2, k3, k4}
    None = None
    SerialMod = 2
SPECIFICATION Spec
SYMMETRY ChunkSymmetry
CHECK_DEADLOCK FALSE
INVARIANTS
    TypeOK
    OneOwner
    AllAccounted
    FrontInFlight
    NoLostWakeup
    TerminalSerials
