SPECIFICATION Spec
CONSTANTS
    Requests <- AllRequests
    MaxRequests = 1
    MaxBytes = 2
    MaxPacket = 2
    USB_CDC_TX_SPIN_LIMIT = 2
INVARIANTS
    AnswersIntact
PROPERTIES
    ImplementsDataChannel
