SPECIFICATION FairSpec
CONSTANTS
    Msgs = {m1, m2}
    Deliveries = {e1, e2}
    MaxFaults = 1
INVARIANTS TypeOK OneAnswerPerMessage OneTurnAtATime StopIsRespected RejectingTurnIsSilent
PROPERTIES EveryMessageIsConsidered
