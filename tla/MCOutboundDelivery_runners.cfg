SPECIFICATION Spec
CONSTANTS
    Runners = {r1, r2}
    lead = lead
    Convs <- OneConversation
    AiMsgs = {a1}
    HumanMsgs = {}
    ConvOf <- AllInOne
    MaxAttempts = 3
    MaxClaims = 4
    Lease = 2
    HumanDelays = {1}
    BackoffBase = 1
    BackoffCap = 2
    StaleAfter = 1
    Day = 2
    QuietStart = 1
    QuietEnd = 0
    MaxAborts = 2
INVARIANTS OneLateReply ExclusiveClaim HonestRecords
SYMMETRY RunnerSymmetry
