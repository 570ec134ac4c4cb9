CONSTANTS
    Links = {l1, l2, l3}
    Enterprises = {e1}
    None = None
    LocalCommands = {a}
    RemoteCommands = {b, c}
    NoResult = NoResult
SPECIFICATION MCSpec
INVARIANTS
    TypeOK
    RegisteredIsLive
    LinkRight
PROPERTIES
    Settles
    Refines
    Answered
