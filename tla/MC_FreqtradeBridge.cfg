\* Two trades, two faults; the owner may change every parameter at any time.
SPECIFICATION FairSpec
CONSTANTS
    t1 = t1
    t2 = t2
    NoTrade = NoTrade
    Trade = {t1, t2}
    ProfitBps <- MCProfitBps
    RewardRange = {1}
    MinBpsRange = {10, 11}
    MaxVault = 1
    MaxFaults = 2
INVARIANTS DuplicatesNeedDoubt MarksAreAnswers
PROPERTIES ClosedIsMarked
