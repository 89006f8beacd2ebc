\* A worker and the timer's threads, packets for two nexthops, of all kinds.
SPECIFICATION Spec
CONSTANTS
    Workers = {w1}
    Pool = pool
    Arrivals <- FivePackets
    Addresses = {"a", "b", "x"}
    Route <- Routes
    NullPtr = NullPtr
    Channels <- DownChannels
    UdpChannels = {"U"}
    BlockSize = 100
    Threshold = 50
    Overhead = 8
    Expire = 5
    QueueSize = 1
    Wrap = 10
    MaxListed = 1
INVARIANTS Serialised Trimmed RightChannel RoutedHome FramesRestored
PROPERTIES HeldUpOnlyByGridlock ReleasedUnlessGridlock
CHECK_DEADLOCK FALSE
