CONSTANTS
    Key = {k1, k2, k3}
    NoKey = NoKey
    Size = 2
    MaxCounter = 2
    MaxWatchers = 2
    Packet = {p1, p2, p3}
    Nil = nil
    MaxSizePacketQueue = 2
SPECIFICATION PartsSpec
INVARIANTS TypeOK CachedTracked CacheBounded EntryWatched QueueSound
PROPERTIES EntryExpires KeepsPromise WaitEnds
CHECK_DEADLOCK FALSE
