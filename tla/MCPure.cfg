CONSTANTS
    EW = 3
    SW = 4
    SoftExceptions = TRUE
SPECIFICATION PureSpec
INVARIANTS
    CondMatchesIeee
    NormalisePreservesValue
    DbccMatchesManual
    FbccBranchMatchesManual
    FrameRoundTrip
    OperandStepsMatchManual
    FmovemRoundTrip
    Host2MacKeepsDuration
    SortMatchesReference
    SelectorKeepsSelectionVisible
