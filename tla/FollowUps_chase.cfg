SPECIFICATION FairSpec
CONSTANTS
    Msgs = {m1, m2}
    PromiseWorkers = {p1, p2}
    NurtureWorkers = {n1}
    NoMsg = NoMsg
    FirstFollowUp = 1
    SecondFollowUp = 2
    MinGap = 1
    SlotHours = {0}
    Day = 2
    MaxFollowUps = 2
    MaxLateness = 0
    MaxAttempts = 2
    Delays = {1}
    EventDates = {2}
    MaxTime = 2
    MaxChanges = 1
    MaxFaults = 1
INVARIANTS TypeOK OneMessagePerCommitment NotAfterAnAnswer CountedNudgeWasQueued
PROPERTIES PromiseEnds
