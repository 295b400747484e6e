SPECIFICATION Spec
CONSTANTS
    Pcs = {0, 1, 2, 3}
    Isr = 2
    Crash = 3
    Stub = 4
    Data = {"x", "y"}
    Code <- Loop
    BreakAt = {0, 1}
    WatchFor <- Watches
    NumBps = 2
    NumWps = 2
    MaxDetach = 1
INVARIANTS GdbTypeOK ArmedAsAsked  StepsOne
