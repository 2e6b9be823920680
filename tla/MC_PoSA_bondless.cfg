\* One validator of genesis and an address that never registered; one piece of
\* evidence, and nobody slashes by percentages of the governor.
SPECIFICATION Spec
CONSTANTS
    v1 = v1
    v2 = v2
    v3 = v3
    Validator = {v1, v2}
    GenesisRoster <- MCGenesisOne
    MIN_STAKE = 100
    MAX_VALIDATORS = 3
    SLASH_THRESHOLD = 2
    JAIL_DURATION_BLOCKS = 1
    Deposits = {100}
    Percentages = {}
    JailTerms = {}
    MaxHeight = 4
    MaxBalance = 200
    MISDEMEANOR_THRESHOLD = 1
    FELONY_THRESHOLD = 3
    FELONY_SLASH_PERCENT = 5
    DOUBLE_SIGN_SLASH_PERCENT = 20
    DOUBLE_SIGN_JAIL = 2
    Evidence = {e1}
    MaxFelonies = 0
INVARIANT ActiveHaveBonds
CHECK_DEADLOCK FALSE
