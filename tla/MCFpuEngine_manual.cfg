CONSTANTS
    EW = 3
    SW = 4
    FpRegs = {0}
    LibValues <- MCLibValues
    LibFlags <- MCLibFlags
    Integral = TRUE
    DnValues <- MCDnValues
    QuotLsbs <- MCQuotLsbs
    OpCodes <- MCOpCodes
    RomOffsets <- MCRomOffsets
SPECIFICATION Spec
PROPERTIES
    InstructionsMatchManual
