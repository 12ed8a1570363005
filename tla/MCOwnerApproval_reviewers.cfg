\* One person at a time with faults, or two and a reader without.
SPECIFICATION SettingSpec
CONSTANTS
    Reviewers = {d1, d2}
    Turns = {t1}
    Readers = {r1}
    MaxTexts = 3
    CrowdTexts = 2
    MaxFaults = 2
INVARIANTS TypeOK OneSendPerCard AloneSentAsReviewed AloneOpenCardIsTheGraphs AloneQuestionsAreNotDrafts
SYMMETRY ReviewerSymmetry
VIEW SettingView
