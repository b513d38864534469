SPECIFICATION Spec
CONSTANTS
    MaxTxs = 5
    MaxRuns <- MCMaxRuns
    MaxRestarts = 1
INVARIANTS
    SavedIsExported
    AddressSurvivesRestart
CHECK_DEADLOCK FALSE
