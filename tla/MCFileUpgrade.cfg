CONSTANTS
    short = short
    long = long
    refused = refused
    huge = huge
    Terminals = {t1, t2}
    Versions = {short, long, refused, huge}
    Length <- MCLength
    AskLengths = {1, 3}
    Segment = 2
    MaxSize = 4
    Word = 8
    MaxFaults = 2
    None = None
SPECIFICATION Spec
CHECK_DEADLOCK FALSE
INVARIANTS
    OneVersion
PROPERTIES
    Completes
