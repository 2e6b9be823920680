\* Two of three relayers, two deposits, two faults, a vault that starts empty.
SPECIFICATION FairSpec
CONSTANTS
    r1 = r1
    r2 = r2
    r3 = r3
    RelayerList <- MCRelayers
    THRESHOLD = 2
    TxHash <- AllHashes
    MaxVault = 2
    Sender = {alice}
    Target = {bob}
    Amounts = {1}
    PrintStep = 2
    VoteRecipients = {bob, eve}
    VoteAmounts = {1}
    Refusing = {eve}
    MaxBlock = 2
    MaxDeposits = 2
    MaxFaults = 2
INVARIANT ReleasedByThreshold
PROPERTIES ImplementsEscrow PrintedIsReleased
CHECK_DEADLOCK FALSE
