CONSTANTS
    Receiver = {r1, r2}
    RegisterEvery = 2
    MaxReceived = 3
SPECIFICATION Spec
INVARIANTS
 NothingForgotten
CHECK_DEADLOCK FALSE
