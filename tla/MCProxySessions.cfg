CONSTANTS
    Conns = {c1, c2, c3}
    Gateways = {g1}
    Centers = {k1, k2}
    None = None
SPECIFICATION FairSpec
INVARIANTS
    TypeOK
    RegistryRight
    ViewRight
    RemovesOwn
    NoSelfLock
    EntryIsOwn
PROPERTY ThreadsEnd
