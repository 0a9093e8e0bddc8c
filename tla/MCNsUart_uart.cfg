SPECIFICATION FairSpec
CONSTANTS
    UART_BUF_SIZE = 3
    SP_FIFO_SIZE = 2
    WriteSizes = {1, 4}
    ReadSizes = {1, 4}
    MaxWritten = 6
    MaxArrived = 5
INVARIANTS
    RxNewest
    TxInOrder
PROPERTY
    TxDrains
CHECK_DEADLOCK FALSE
