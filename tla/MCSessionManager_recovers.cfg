SPECIFICATION FairSpec
CONSTANTS
    Sessions = {s1, s2}
    NoSession = NoSession
    Callers = {c1}
    Requests = {"connect", "pause", "reset", "resume"}
    MaxReconnects = 1
    MaxFaults = 1
INVARIANTS TypeOK OneThingAtATime
PROPERTIES RecoversOrIsDropped
