SPECIFICATION StubSpec
CONSTANTS
    FifoDepth = 1
    Irqs = {"UART"}
    RingSizeRX = 2
    RingSizeTX = 2
    MaxTx = 2
    MaxRx = 2
    MaxStub = 2
INVARIANTS StubTypeOK TxStreamThroughStub NoOverrunNorStall InterruptsRestored
