SPECIFICATION Spec
CONSTANTS
 Forms = {f1}
 FirstForm = f1
 History = 5
 Limit = 5
 Cap = 3
 PageSize = 2
 MaxPages = 2
 Backfill = TRUE
 MaxMisses = 0
INVARIANT HistoryIsRead
