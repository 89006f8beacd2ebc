\* The UDP node was connected before the encoder.
SPECIFICATION Spec
CONSTANTS
    Workers = {w1}
    Pool = pool
    Arrivals <- FivePackets
    Addresses = {"a", "b", "x"}
    Route <- Routes
    NullPtr = NullPtr
    Channels <- UdpFirst
    UdpChannels = {"U"}
    BlockSize = 100
    Threshold = 50
    Overhead = 8
    Expire = 5
    QueueSize = 1
    Wrap = 10
    MaxListed = 1
INVARIANT RightChannel
CHECK_DEADLOCK FALSE
