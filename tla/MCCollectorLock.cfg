\* A worker in AddTimer, the tick thread and the pool thread wait for one another.
SPECIFICATION PromptSpec
CONSTANTS
    Workers = {w1}
    Pool = pool
    Arrivals <- TwoPackets
    Addresses = {"a", "b", "x"}
    Route <- Routes
    NullPtr = NullPtr
    Channels <- DownChannels
    UdpChannels = {"U"}
    BlockSize = 100
    Threshold = 50
    Overhead = 8
    Expire = 5
    QueueSize = 1
    Wrap = 10
    MaxListed = 1
PROPERTY EventuallyRelayed
CHECK_DEADLOCK FALSE
