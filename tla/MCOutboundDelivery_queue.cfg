SPECIFICATION FairSpec
CONSTANTS
    Runners = {r1}
    lead = lead
    Convs <- OneConversation
    AiMsgs = {a1}
    HumanMsgs = {h1}
    ConvOf <- AllInOne
    MaxAttempts = 3
    MaxClaims = 4
    Lease = 2
    HumanDelays = {1}
    BackoffBase = 2
    BackoffCap = 3
    StaleAfter = 2
    Day = 3
    QuietStart = 2
    QuietEnd = 0
    MaxAborts = 1
CONSTRAINT OneRow
INVARIANTS TypeOK
PROPERTIES ClosedForGood KeepsContract SettlesEveryRow
