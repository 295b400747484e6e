SPECIFICATION Spec
CONSTANTS
    FifoDepth = 2
    Irqs = {"UART"}
    RingSizeRX = 4
    RingSizeTX = 2
    MaxTx = 0
    MaxRx = 3
INVARIANT RxHeldUntilRead
