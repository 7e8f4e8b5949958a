\* Signatures of 2 bytes, keys of 1 and table entries of 3 stand for 64, 33 and
\* 14; the numbers of a field go to 15, the order is 7.
CONSTANTS
    SIGNATURE_SIZE = 2
    PUBLIC_KEY_SIZE = 1
    SIGNATURE_OFFSETS_SIZE = 3
    DATA_START = 2
    U16_MAX = 20
    MAX_SIGNATURES = 2
    Transactions <- MCTransactions
    ORDER = 7
    FIELD_MAX = 15
    Clients <- MCClients
SPECIFICATION SdkSpec
\* A transaction ends.
CHECK_DEADLOCK FALSE
INVARIANTS
    PayloadVerified
    RawSlicesInBounds
    ParserComplete
PROPERTIES
    SdkSignatureAccepted
