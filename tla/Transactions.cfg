SPECIFICATION Spec
CONSTANTS
    noFile = noFile  bad = bad
    NoFile = noFile  Bad = bad
    Accounts <- ThreeAccounts
    Amounts = {1, 2}
    TotalTransactions = 2
    SurplusCredit = 1
    MaxRuns = 2
    MaxFaults = 1
    MaxLoops = 2
CONSTRAINT SecondRun
CHECK_DEADLOCK FALSE
INVARIANTS NeverOverdrawn DeltasRight DeltaFileRight TransfersWritten
PROPERTY EarlierKept
