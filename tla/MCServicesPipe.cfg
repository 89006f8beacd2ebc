\* The application's pipeline, with three messages, two of one flow, and two
\* threads that shut it down.
SPECIFICATION Spec
CONSTANTS
    Nodes <- PipeNodes
    Kind <- PipeKind
    In <- PipeIn
    Out <- PipeOut
    NumThreads <- PipeThreads
    Feeders = {poller}
    Feeds <- PipeFeeds
    Closers = {k1, k2}
    Msgs <- PipeMsgs
    Origin <- PipeOrigin
    Id <- PipeId
    Signals = {}
    NoMsg = NoMsg
    Capacity = 1
INVARIANTS Accounted FlowOrder QuietWhenReleased
SYMMETRY Symmetry
CHECK_DEADLOCK FALSE
