\* A source and a sink: Shutdown does not stop a sink.
SPECIFICATION Spec
CONSTANTS
    Nodes <- SinkNodes
    Kind <- SinkKind
    In <- SinkIn
    Out <- SinkOut
    NumThreads <- SinkThreads
    Feeders = {poller}
    Feeds <- SinkFeeds
    Closers = {k1}
    Msgs <- SinkMsgs
    Origin <- SinkOrigin
    Id <- SinkId
    Signals = {}
    NoMsg = NoMsg
    Capacity = 1
PROPERTY ShutdownTerminates
CHECK_DEADLOCK FALSE
