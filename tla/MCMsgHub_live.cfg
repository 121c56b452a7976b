SPECIFICATION FairSpec
CONSTANTS
    m1 = m1
    m2 = m2
    w1 = w1
    w2 = w2
    Message = {m1, m2}
    Listener = {w1, w2}
    Watches <- WatchOne
    SkipsDeletes = {w2}
    HistoryLen = 2
    OpChanLen = 1
    QueueLen = 1
    CanBreak = FALSE
    CanStop = FALSE
    None = None
CHECK_DEADLOCK FALSE
INVARIANTS
    HistoryExact
    FeedsSound
PROPERTY
    EventsArrive
