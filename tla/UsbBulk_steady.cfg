SPECIFICATION FairSpec
CONSTANTS
    Requests = {}
    MaxRequests = 0
    MaxBytes = 3
    MaxPacket = 2
    USB_CDC_TX_SPIN_LIMIT = 2
INVARIANTS
    TypeOK
    PacketKept
    FlushMeansDelivered
PROPERTIES
    ImplementsDataChannel
    EveryByteRead
