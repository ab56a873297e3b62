CONSTANTS
    MW = 12
    HW = 24
SPECIFICATION Spec
INVARIANT TimerKeepsTime
