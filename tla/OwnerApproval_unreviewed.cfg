SPECIFICATION Spec
CONSTANTS
    Reviewers = {d1}
    Turns = {t1}
    Readers = {r1}
    MaxTexts = 2
    MaxFaults = 0
INVARIANTS SentAsReviewed
