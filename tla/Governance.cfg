SPECIFICATION Spec
CONSTANTS
    Account = {ana, ben}
    InitialCoins = 3
    Amounts = {1, 2}
    MaxDepth = 2
    EndOfTime = 3
    MIN_VALIDATOR_STAKE = 2
    MIN_DELEGATION = 1
    MaxProposals = 1
    PROPOSAL_DURATION = 1
INVARIANTS StakeBacked CalledOnce ExecutedByVotes
PROPERTIES ImplementsBallot
CHECK_DEADLOCK FALSE
