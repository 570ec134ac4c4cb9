CONSTANTS
    Conns = {c1, c2, c3}
    Gateways = {g1}
    None = None
SPECIFICATION Spec
SYMMETRY Symmetry
INVARIANTS
    TypeOK
    EntryRight
    ServedIsShown
    GoneIsShown
