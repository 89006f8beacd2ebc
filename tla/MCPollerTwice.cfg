\* An fd is registered twice before the thread looks.
SPECIFICATION Spec
CONSTANTS
    Fds = {f1}
    PipeFd = pipe
    Clients = {c1}
    NoClient = NoClient
    Timeouts <- DuplexTimeout
    PollTimeout = 2
    MaxInterval = 3
    MaxRegisters = 2
    MaxData = 1
PROPERTY DataRead
CHECK_DEADLOCK FALSE
