SPECIFICATION FairSpec
CONSTANTS
    FifoDepth = 1
    Irqs = {"UART"}
    RingSizeRX = 2
    RingSizeTX = 2
    MaxTx = 1
    MaxRx = 0
PROPERTY RebootResets
