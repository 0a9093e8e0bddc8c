SPECIFICATION Spec
CONSTANTS
    Feed <- Samples
    Quality <- TwoDigits
    Date <- ServerDate
    Noise <- StackNoise
    MainMax = 1
    NbiotMax = 2
    UART_BUF_SIZE = 512
    MaxFaults = 2
    MaxBehind = 3
    MaxSpoiled = 5
INVARIANTS
    PublishedInOrder
    AckedIsPublished
    SoonInStep
PROPERTY
    ImplementsService
CHECK_DEADLOCK FALSE
