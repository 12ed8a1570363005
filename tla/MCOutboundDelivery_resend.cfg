SPECIFICATION Spec
CONSTANTS
    Runners = {r1}
    lead = lead
    Convs <- OneConversation
    AiMsgs = {a1}
    HumanMsgs = {h1}
    ConvOf <- AllInOne
    MaxAttempts = 2
    MaxClaims = 3
    Lease = 1
    HumanDelays = {0}
    BackoffBase = 1
    BackoffCap = 1
    StaleAfter = 0
    Day = 1
    QuietStart = 0
    QuietEnd = 0
    MaxAborts = 0
PROPERTIES SentStaysSent
