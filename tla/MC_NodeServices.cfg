\* Three starts of the distributor for two recipients with three faults; two
\* indexers; a faucet with a cooldown of two hours; two miners, two challenges.
SPECIFICATION FairSpec
CONSTANTS
    Bodies <- MCBodies
    Recipient = {"r1", "r2"}
    NotAnAddress = "no address"
    Lists <- MCLists
    MaxRuns = 3
    MaxFaults = 3
    Process = {"p1", "p2"}
    DemoEvents <- MCDemoEvents
    OfflineHeight = 2
    MaxHeight = 2
    MaxErrors = 2
    Address = {"0xa", "0xb"}
    Spelling = {"0xa", "0xA", "0xb"}
    Lower <- MCLower
    COOLDOWN = 2
    MaxHours = 4
    MaxStarts = 1
    UserOp = {"sponsored", "other"}
    Sponsored = {"sponsored"}
    MaxBlock = 3
    MaxOps = 3
    Miner = {"m1", "m2"}
    Nonce = {0, 1, 2}
    Width = 3
    MaxUint = 7
    Keccak <- MCKeccak
    Sha256 <- MCSha256
    Difficulties = {1, 2}
    Rewards = {0, 2}
    MaxChallenges = 2
    MaxDonations = 1
INVARIANTS PaidOnce SimulatedIsStored EscrowCovered VerifiedIsAccepted
PROPERTIES PrintedIsMined ClaimsApart
CHECK_DEADLOCK FALSE
