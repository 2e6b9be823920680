\* Two clients, three requests in all, one answer lost; one code, so that a new
\* code takes the place of the one in use.
SPECIFICATION FairSpec
CONSTANTS
    JobId = {"JOB-1", "JOB-2"}
    ActiveNodes <- MCNodes
    CampaignId = {"CMP-0", "CMP-1"}
    DefaultCampaign = "CMP-0"
    RewardValue = {"50.0", "nan"}
    DefaultReward = "50.0"
    Code = {"REF-1"}
    Referrer = {"r1", "r2"}
    WrongType = "wrong type"
    Client = {"c1", "c2"}
    NoClient = "none"
    GetRequests <- MCGetRequests
    PostRequests <- MCPostRequests
    Workloads <- MCWorkloads
    MaxRequests = 3
    MaxLost = 1
INVARIANT BookedIsCredited
PROPERTIES EveryConnectionEnds
CHECK_DEADLOCK FALSE
