SPECIFICATION Spec
CONSTANTS
    m1 = m1
    m2 = m2
    w1 = w1
    w2 = w2
    Message = {m1, m2}
    Listener = {w1}
    Watches <- WatchAll
    SkipsDeletes = {}
    HistoryLen = 2
    OpChanLen = 2
    QueueLen = 1
    CanBreak = TRUE
    CanStop = TRUE
    None = None
CHECK_DEADLOCK FALSE
INVARIANT
    ClosedIsLeaving
