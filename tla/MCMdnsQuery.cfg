SPECIFICATION Spec
CONSTANTS
    Size <- MCSize
    ItemSize <- MCItemSize
    MaxPacket = 1460
    QueueLen = 2
    Setups <- MCSetups
INVARIANTS ReadBack OwnData ChangesReported
CHECK_DEADLOCK FALSE
