SPECIFICATION Spec
CONSTANTS
    MaxTxs = 5
    MaxRuns <- MCMaxRuns
    MaxRestarts = 1
INVARIANTS
    DeployComplete
CHECK_DEADLOCK FALSE
