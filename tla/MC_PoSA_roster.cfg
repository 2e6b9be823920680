\* Three validators, two of them in genesis, room for two on the roster;
\* every caller of the two contracts active.
SPECIFICATION Spec
CONSTANTS
    v1 = v1
    v2 = v2
    v3 = v3
    Validator = {v1, v2, v3}
    GenesisRoster <- MCGenesis
    MIN_STAKE = 100
    MAX_VALIDATORS = 2
    SLASH_THRESHOLD = 2
    JAIL_DURATION_BLOCKS = 1
    Deposits = {99, 100}
    Percentages = {100}
    JailTerms = {1}
    MaxHeight = 3
    MaxBalance = 100
    MISDEMEANOR_THRESHOLD = 1
    FELONY_THRESHOLD = 3
    FELONY_SLASH_PERCENT = 5
    DOUBLE_SIGN_SLASH_PERCENT = 20
    DOUBLE_SIGN_JAIL = 2
    Evidence = {}
    MaxFelonies = 0
INVARIANT RosterInvariant
CHECK_DEADLOCK FALSE
