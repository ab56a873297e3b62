CONSTANTS
    EW = 3
    SW = 4
    SoftExceptions = TRUE
SPECIFICATION BranchSpec
INVARIANT OperatorsMatchManual
