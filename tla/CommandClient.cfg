SPECIFICATION FairCliSpec
CONSTANTS
    Caller = {cli}
    Cli = cli
    MaxId = 3
    Garbled = {2}
CHECK_DEADLOCK FALSE
INVARIANTS
    AnswersAreHonest
    DeletedStaysDeleted
    CommandIsTrue
PROPERTY
    CommandEnds
