SPECIFICATION FairSpec
CONSTANTS
    FifoDepth = 1
    Irqs = {"UART"}
    RingSizeRX = 2
    RingSizeTX = 4
    MaxTx = 6
    MaxRx = 1
INVARIANTS DriverTypeOK TxStream NoOverrun NoStall FlushedOnReboot
PROPERTIES TxRefinesStream
