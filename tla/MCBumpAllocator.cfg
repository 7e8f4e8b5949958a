\* A heap of 40 bytes with a position word of 4 stands for 256 KiB and 8; the
\* frame of 24 is the default heap.  A size of 900 overflows usize.
CONSTANTS
    HEAP_START_ADDRESS = 16
    HEAP_LENGTH = 40
    WORD_SIZE = 4
    USIZE_MAX = 900
    Sizes = {1, 3, 8, 900}
    Aligns = {1, 2, 8}
    HEAP_FRAME = 24
    MAX_BLOCKS = 4
SPECIFICATION AllocatorSpec
\* The bound MAX_BLOCKS ends every behaviour.
CHECK_DEADLOCK FALSE
INVARIANTS
    AllocatorTypeOK
    BlocksDisjoint
    BlocksUsable
    FitsHeapFrame
