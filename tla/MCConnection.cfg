CONSTANTS
    BufSize = 11
    MinLen = 5
    ConstLen = 2
    MaxMsgs = 3
    Streams <- MCStreams
    Conns = {c1, c2}
    WheelCount = 2
    Heartbeats <- MCHeartbeats
    TimeoutMax = 1
SPECIFICATION MCSpec
CHECK_DEADLOCK FALSE
INVARIANTS
    TypeOK
    ReadHasRoom
    UnreadInBuffer
    DeliveredInOrder
    RefusedOnlyAfterLoss
    NoMessageHeldBack
    WheelTypeOK
    OneTask
    
    SilentIsClosed
PROPERTIES
    EventuallyDelivered
    HeardIsKept
    SilenceEnds
