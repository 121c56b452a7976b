SPECIFICATION FairSpec
CONSTANTS
    Client = {c1, c2}
    Mailbox = {mb1}
    Size = {1, 2}
    Cap = 0
    MaxSize = 3
    MaxIndex = 3
    Idle = Idle
CHECK_DEADLOCK FALSE
INVARIANTS
    BooksBalance
    ListCoversStore
    StaleViewSafe
PROPERTY
    CallsReturn
