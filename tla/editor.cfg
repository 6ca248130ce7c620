\* One popup over a vault with one one-time code; four requests, two open at a time.
SPECIFICATION EditorSpec
CONSTANTS
    Initial <- OneCode
    MaxCalls = 4
    MaxOpen = 2
    None = None
INVARIANTS TypeOK StoredEntriesSurvive DeletionIsFinal RowsMatchVault CodesAreCurrent
CHECK_DEADLOCK FALSE
