\* 7 truncated slots stand for 1000, a window of 4 for 150 and 5 entries for
\* 512.  MAX_SLOT lets the truncated slot wrap around twice.
CONSTANTS
    MODULUS = 7
    WINDOW = 4
    MAX_ENTRIES = 5
    FIRST_SLOT = 1
    MAX_SLOT = 15
SPECIFICATION FairSysvarSpec
\* The bound MAX_SLOT ends every behaviour.
CHECK_DEADLOCK FALSE
INVARIANTS
    NonceExact
PROPERTIES
    ExpiryIsFinal
    ApprovalsLapse
