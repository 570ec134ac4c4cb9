CONSTANTS
    BufSize = 11
    MinLen = 5
    ConstLen = 2
    MaxMsgs = 3
    Streams <- MCStreams
SPECIFICATION Spec
CHECK_DEADLOCK FALSE
INVARIANT CompleteMeansComplete
