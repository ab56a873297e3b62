CONSTANTS
    WaitLimit = 10
    PollLimit = 3
SPECIFICATION NetSpec
PROPERTY ButtonSkipsNetworking
