CONSTANTS
    Threads <- MCThreads
    Prio <- MCPrio
    IrqOrder <- MCIrqOrder
    CounterLimit = 1
SPECIFICATION SysSpec
PROPERTY AudioRequestAnswered
