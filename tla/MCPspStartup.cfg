CONSTANTS
    NULL = NULL
    PlaceholderCd = PlaceholderCd
    PlaceholderFloppy = PlaceholderFloppy
    ExtfsDir = ExtfsDir
    H1 = H1
    H2 = H2
    C1 = C1
    D1 = D1
    D2 = D2
    D3 = D3
    D4 = D4
    EnvSet <- MCEnvSet
    InitPrefs <- MCInitPrefs
    InitFiles <- MCInitFiles
    NewFile <- MCNewFile
    IntValues <- MCIntValues
    MaxEdits = 1
    WaitLimit = 10
    PollLimit = 3
    Slots <- MCSlots
    OpenOrder <- MCOpenOrder
    FloppySlot = "floppy"
    CdromSlot = "cdrom"
    ReadOnlyArg <- MCReadOnlyArg
    FileInfo <- MCFileInfo
    GuiDefaults <- Defaults
    GuiMenus <- Menus
    GuiEntryHasText <- EntryHasText
    MenuFn <- PspLevelFn
    GuiLoad <- PrefsLoad
    GuiSave <- PrefsSave
SPECIFICATION Spec
INVARIANTS
    TypeOK
    EjectSticks
    ModeMatchesReadOnly
    ResumeRestoresDrives
    MenuMatchesDrives
    PaneFollowsOutput
PROPERTIES
    NetConnectReturns
CHECK_DEADLOCK FALSE
