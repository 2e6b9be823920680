\* Two equal deposits in one block, and nothing that fails.
SPECIFICATION Spec
CONSTANTS
    r1 = r1
    r2 = r2
    r3 = r3
    RelayerList <- MCRelayers
    THRESHOLD = 2
    TxHash <- AllHashes
    MaxVault = 1
    Sender = {alice}
    Target = {bob}
    Amounts = {1}
    PrintStep = 1
    VoteRecipients = {}
    VoteAmounts = {}
    Refusing = {}
    MaxBlock = 2
    MaxDeposits = 2
    MaxFaults = 0
INVARIANT AllDepositsReleased
CHECK_DEADLOCK FALSE
