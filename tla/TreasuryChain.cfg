\* Two halving epochs and the blocks past the last; a treasury that runs dry in
\* the second epoch and one that is ample; reorganisations of any depth.
SPECIFICATION ChainSpec
CONSTANTS
    TREASURY_ADDRESS = treasury
    Miner = {m1, m2}
    InitialSupplies = {11, 33}
    HALVING_INTERVAL = 2
    MAX_HALVINGS = 2
    INITIAL_BLOCK_REWARD = 8
    Fees = {0, 1}
    Donations = {0, 3}
    MaxBlock = 5
INVARIANTS PreMintedConserved EngineFollowsChain ClientsAgree NeverDepleted
PROPERTY QuoteIsPaid
CHECK_DEADLOCK FALSE
