SPECIFICATION Spec
CONSTANTS
    FifoDepth = 2
    Irqs = {"UART"}
    RingSizeRX = 4
    RingSizeTX = 2
    MaxTx = 1
    MaxRx = 6
INVARIANTS RxStream RxOrdered
