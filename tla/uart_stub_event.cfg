SPECIFICATION StubSpec
CONSTANTS
    FifoDepth = 1
    Irqs = {"UART"}
    RingSizeRX = 2
    RingSizeTX = 2
    MaxTx = 2
    MaxRx = 1
    MaxStub = 1
INVARIANT StubKeepsTxEvent
