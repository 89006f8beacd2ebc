\* Connecting, running and shutting down, in every order in which a node is
\* connected before its workers start.
SPECIFICATION Spec
CONSTANTS
    Nodes <- MixedNodes
    Kind <- MixedKind
    Name <- MixedName
    Reuses = {TRUE, FALSE}
    MaxConnects = 3
    MaxThreads = 3
INVARIANTS Wired NoLeak Balanced RunsOnce
CHECK_DEADLOCK FALSE
