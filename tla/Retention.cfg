SPECIFICATION FairSpec
CONSTANTS
    Box = {b1, b2}
    Msg = {m1, m2}
    Periods = {0, 2}
    Minute = 2
PROPERTIES
    OnlyExpiredGo
    ExpiredGoes
    JoinReturns
