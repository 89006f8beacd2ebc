\* A periodic and a oneshot timer, handlers that cancel and re-add, a timer that is refused.
SPECIFICATION Spec
CONSTANTS
    Timers <- ThreeTimers
    Expires <- ThreeExpires
    Oneshots = {"once"}
    Callback <- CallingBack
    Clients = {c1}
    NullPtr = NullPtr
    QueueSize = 1
    Wrap = 15
    MaxListed = 1
    MaxCancels = 0
INVARIANTS TypeOK NeverOverdue OneshotOnce
PROPERTIES NoFireAfterCancel CancelledErased HandlerCalled StopTerminates
CHECK_DEADLOCK FALSE
