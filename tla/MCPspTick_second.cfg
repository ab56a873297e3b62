CONSTANTS
    Threads <- MCThreads
    Prio <- MCPrio
    IrqOrder <- MCIrqOrder
    CounterLimit = 60
SPECIFICATION TickSpec
CONSTRAINT HzBound
PROPERTY OneSecondPer60Ticks
