SPECIFICATION FairSpec
CONSTANTS
    Requests <- AllRequests
    MaxRequests = 3
    MaxBytes = 1
    MaxPacket = 1
    USB_CDC_TX_SPIN_LIMIT = 1
INVARIANTS
    OnlyHostBytes
    HaltsHold
    NeverDeaf
PROPERTIES
    MainReturns
