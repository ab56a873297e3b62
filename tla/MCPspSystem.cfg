CONSTANTS
    Threads <- MCThreads
    Prio <- MCPrio
    IrqOrder <- MCIrqOrder
    CounterLimit = 1
SPECIFICATION SysSpec
INVARIANT TypeOK
PROPERTIES
    QuitCompletes
    AudioThreadsGoneAfterExit
    AudioAnsweredUnlessLost
    AudioStreamRefined
