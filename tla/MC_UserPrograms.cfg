\* Three tasks within two milliseconds; two agent objects and four processes;
\* a trade held for up to thirty-five minutes.  Two-byte secrets in up to three
\* shares; three entropies of which two have the same checksum; two processes
\* with two key managers; three signatories, two signatures and two transactions.
SPECIFICATION Spec
CONSTANTS
    Agent <- MCAgents
    Guarded = {"TreasuryAgent"}
    Signature = {"s1"}
    MaxTasks = 3
    MaxMs = 1
    Requests <- MCRequests
    Owner = {o1, o2}
    MaxProcesses = 4
    MaxProofs = 1
    Candle <- MCCandles
    Profit <- MCProfits
    MaxHeld = 35
    rsi_buy_min = 40
    rsi_buy_max = 70
    rsi_exit_max = 75
    Secret <- MCSecret
    Drawn = {0, 142}
    Thresholds = {0, 1, 2, 3, 4}
    Totals = {3}
    MaxCollected = 3
    Entropy = {1, 2, 3}
    Checksum <- MCChecksum
    HARDENED_OFFSET = 100
    Unusable <- MCUnusable
    Passphrase = {"", "worker"}
    CoinType = {26, 60}
    Path <- MCPath
    DefaultCoin = 26
    Seed = {"s1", "s2"}
    Password = {"right", "wrong"}
    Provider = {"auto", "aws"}
    MaxProcess = 1
    MaxManager = 2
    Signatory = {"a", "b", "c"}
    Owners <- MCOwners
    Threshold = {0, 2}
    TxHash = {"h1", "h2"}
    Proposed = "h1"
    Schemes = {"secp256k1", "ed25519", "ML-DSA-65"}
    MaxSigned = 2
INVARIANTS LostNeedsSameMillisecond OneBot
INVARIANTS SharesGiveTheSecret ToolsAgree FilesOpenToTheirKeys ApprovedByOwners
PROPERTIES ApprovedByName
CHECK_DEADLOCK FALSE
