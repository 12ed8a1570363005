SPECIFICATION Spec
CONSTANTS
 Forms = {f1, f2}
 FirstForm = f1
 History = 0
 Limit = 4
 Cap = 1
 PageSize = 1
 MaxPages = 1
 Backfill = FALSE
 MaxMisses = 1
INVARIANT NothingOvertaken
