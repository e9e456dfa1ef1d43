CONSTANTS
    Objects = {"receive", "transmit"}
    CPUs = {c1, c2}
    BSP = c1
    Threads = {t1, t2}
    MaxSends = 2
    RxDescriptors = 3
    TxDescriptors = 3
    FrameSizes = {2}
    BufferSizes = {1, 2}
    MaxArrivals = 3
    MaxSent = 4
    MaxChanges = 1
    Drivers = {"tick", "disk 1", "disk 2", "nic"}
    Asked <- MCAsked
    InterruptOverrides <- MCInterruptOverrides
    VectorsPerIrql = 1
    Lines = {1, 2}
    NoOfPrtEntries = 2
    NoVector = NoVector
SPECIFICATION InterruptsSpec
INVARIANT FramesKeepTheirOrder
PROPERTIES AcceptedFramesAreTransmitted WaitingReceiverIsWoken
CHECK_DEADLOCK FALSE
