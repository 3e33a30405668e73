SPECIFICATION Spec
CONSTANTS
    Requests = {}
    MaxRequests = 0
    MaxBytes = 2
    MaxPacket = 1
    USB_CDC_TX_SPIN_LIMIT = 1
INVARIANTS
    OutBackpressure
