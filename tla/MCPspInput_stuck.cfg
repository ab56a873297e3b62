CONSTANTS
    Buttons <- MCButtons
    ButtonMap <- MCButtonMap
    Imaps <- MCImaps
    NumFloppies = 1
    NumCdroms = 0
    FrameSkip = 2
    DanzeffLoaded = TRUE
    IrKeyboard = TRUE
    OskKeys <- MCOskKeys
    KbKeys <- MCKbKeys
    ScanLimit = 2
SPECIFICATION Spec
INVARIANT ButtonKeysReleased
