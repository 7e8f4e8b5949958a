\* Bytes have six values, so vectors hold 5 elements and data 35 bytes.
\* Slot 2 is not recent.
CONSTANTS
    BASE = 6
    MAX_LISTED = 4
    Operations <- MCOperations
    Recent = {1}
    Elsewhere <- MCElsewhere
SPECIFICATION WireSpec
\* A request ends.
CHECK_DEADLOCK FALSE
INVARIANTS
    WireTypeOK
    RoundTrip
    HonestDelivered
    ApprovalBinds
    OneEncoding
