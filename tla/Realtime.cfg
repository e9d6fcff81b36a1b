SPECIFICATION RealtimeSpec
CONSTANTS
    i1 = i1
    i2 = i2
    Instances = {i1, i2}
    Recipients = {alice}
    Streams = {stream}
    Broadcasters = {"in_process", "nats", "redis"}
    MaxStreams = 1
    ReplyBuffer = 1
    ListenBuffer = 1
    MaxChanges = 2
    MaxRuns <- MCMaxRuns
    MaxRequests = 2
INVARIANTS
    ServedInFull
PROPERTIES
    StreamsEnd
CHECK_DEADLOCK FALSE
