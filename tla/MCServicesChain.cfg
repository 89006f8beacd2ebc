\* A chain that a stop signal ends, and a Shutdown that may come at any time.
SPECIFICATION Spec
CONSTANTS
    Nodes <- ChainNodes
    Kind <- ChainKind
    In <- ChainIn
    Out <- ChainOut
    NumThreads <- ChainThreads
    Feeders = {poller}
    Feeds <- ChainFeeds
    Closers = {k1}
    Msgs <- ChainMsgs
    Origin <- ChainOrigin
    Id <- ChainId
    Signals = {"s"}
    NoMsg = NoMsg
    Capacity = 1
PROPERTIES ShutdownTerminates FeedersReleased EventuallyDelivered SignalStopsChain
CHECK_DEADLOCK FALSE
