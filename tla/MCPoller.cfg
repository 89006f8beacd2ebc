\* Two clients and one fd, registered once.
SPECIFICATION Spec
CONSTANTS
    Fds = {f1}
    PipeFd = pipe
    Clients = {c1, c2}
    NoClient = NoClient
    Timeouts <- AnyTimeout
    PollTimeout = 2
    MaxInterval = 3
    MaxRegisters = 1
    MaxData = 2
INVARIANTS TypeOK InSync
PROPERTIES NoReadAfterUnregister DataRead ChangesHandled ShutdownReturns
CHECK_DEADLOCK FALSE
