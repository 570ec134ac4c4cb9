CONSTANTS
    Conns = {c1, c2, c3}
    Gateways = {g1}
    Centers = {k1}
    None = None
SPECIFICATION Spec
INVARIANT OfflineIsOffline
