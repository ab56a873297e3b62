CONSTANTS
    NULL = NULL
    PlaceholderCd = PlaceholderCd
    PlaceholderFloppy = PlaceholderFloppy
    ExtfsDir = ExtfsDir
    ExtfsPath = ExtfsPath
    H1 = H1
    H2 = H2
    C1 = C1
    D1 = D1
    D2 = D2
    D3 = D3
SPECIFICATION Spec
INVARIANTS
    EditorKeepsPrefs
CHECK_DEADLOCK FALSE
