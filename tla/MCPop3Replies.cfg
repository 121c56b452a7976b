SPECIFICATION FairRepliesSpec
CONSTANTS
    Session = {s1}
    TLSEnabled = TRUE
    ForceTLS = FALSE
    MaxId = 2
    Contents <- Various
    KeepsText = FALSE
    MaxTop = 2
CHECK_DEADLOCK FALSE
INVARIANTS
    DeletesAsPromised
    NumbersLast
    RepliesAreTrue
    TextAsTold
PROPERTY
    SessionEnds
