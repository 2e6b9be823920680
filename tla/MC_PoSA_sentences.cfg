\* Both contracts with every count, felonies and two pieces of evidence; a governor
\* that jails for a block, also who is in jail, but slashes nobody.
SPECIFICATION FairSpec
CONSTANTS
    v1 = v1
    v2 = v2
    v3 = v3
    Validator = {v1, v2}
    GenesisRoster <- MCGenesisOne
    MIN_STAKE = 100
    MAX_VALIDATORS = 3
    SLASH_THRESHOLD = 2
    JAIL_DURATION_BLOCKS = 1
    Deposits = {99, 100}
    Percentages = {}
    JailTerms = {1}
    MaxHeight = 3
    MaxBalance = 200
    MISDEMEANOR_THRESHOLD = 1
    FELONY_THRESHOLD = 2
    FELONY_SLASH_PERCENT = 5
    DOUBLE_SIGN_SLASH_PERCENT = 20
    DOUBLE_SIGN_JAIL = 2
    Evidence = {e1, e2}
    MaxFelonies = 1
INVARIANT BondsCovered
PROPERTIES StakeFallsBySentence ImplementsLifecycle JailEnds
CHECK_DEADLOCK FALSE
