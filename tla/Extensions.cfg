SPECIFICATION FairSpec
CONSTANTS
    Emitter = {e1}
    AfterEvent = {v1}
    Names = {"hub"}
    Changing = {"before", "after"}
    Channel = {"notify"}
    MaxStates = 3
INVARIANTS
    PoolSound
    BrokersSound
PROPERTIES
    OnlyOldStatesMiss
    EventsReach
