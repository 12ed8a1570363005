\* The background services, one at a time.
SPECIFICATION BackgroundSpec
CONSTANTS
    Sessions = {s1, s2, s3}
    Calls = {c1, c2}
    Tasks = {r1, r2}
    Reminders = {r1}
    Workers = {w1, w2}
    Nobody = Nobody
    Forms = {f1, f2}
    FirstForm = f1
    Clients = {l1, l2}
    Doors = {poll, hook}
    MaxDeliveries = 2
    LastDue = 2
    MaxMoves = 1
    MaxUpsets = 2
    MaxReadings = 2
    MaxMishaps = 2
    MaxTries = 2
    MaxStumbles = 2
    MaxTime = 2
    MaxVersion = 2
    MaxUpheavals = 1
    Dues = {1, 2}
    Edits = 4
    History = 4
    Limit = 5
    Cap = 4
    PageSize = 2
    MaxPages = 2
    Backfill = TRUE
    MaxMisses = 1
    MaxAttempts = 2
    MaxTrouble = 2
    MaxBlows = 2
    Horizon = 2
    MaxFailures = 1
    Delay = 1
    LastTime = 1
    MaxSlips = 1
INVARIANTS TypesOK SoundFamilies RetiredWithVerdict PublishedWasTold InStep SelfHeals HistoryFirst CompletedMeansDone OneOpening ToldOnceAndNotLost RingsSparingly
PROPERTIES NeverStacked OnlyTheHolderEnds WorkEnds
CHECK_DEADLOCK FALSE
