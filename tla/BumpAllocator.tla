--------------------------- MODULE BumpAllocator ---------------------------
(***************************************************************************)
(* The global allocator of the program (src/allocator.rs).  It hands out   *)
(* the heap upwards from its bottom, never frees, and keeps its position   *)
(* in the first word of the heap, which the runtime clears at the start of *)
(* every instruction.  Addresses are numbers; contents do not matter.      *)
(***************************************************************************)
EXTENDS Integers, Sequences

CONSTANTS
    HEAP_START_ADDRESS,  \* 0x300000000
    HEAP_LENGTH,         \* 8 * 32 * 1024
    WORD_SIZE,           \* size_of::<*mut u8>()
    USIZE_MAX,           \* 2^64 - 1
    Sizes,               \* the sizes asked for
    Aligns,              \* the alignments asked for, powers of two
    HEAP_FRAME,          \* the bytes of heap the transaction has requested
    MAX_BLOCKS           \* bound: allocations in one behaviour

TOP_ADDRESS == HEAP_START_ADDRESS + HEAP_LENGTH
BOTTOM_ADDRESS == HEAP_START_ADDRESS + WORD_SIZE

\* Layout never has size 0 here and never an alignment of 0.
ASSUME HeapAssumption ==
    /\ HEAP_START_ADDRESS \in Nat \ {0}
    /\ HEAP_LENGTH \in Nat /\ WORD_SIZE \in Nat \ {0} /\ USIZE_MAX \in Nat
    /\ HEAP_FRAME \in Nat /\ MAX_BLOCKS \in Nat
    /\ WORD_SIZE <= HEAP_LENGTH /\ HEAP_FRAME <= HEAP_LENGTH
    /\ Sizes \subseteq 1..USIZE_MAX
    /\ Aligns \subseteq Nat \ {0}
    /\ \A align \in Aligns : TOP_ADDRESS + align <= USIZE_MAX

VARIABLES
    pos,      \* *POS_PTR, the word at HEAP_START_ADDRESS
    blocks,   \* history: the blocks handed out, in order
    demand,   \* history: the bytes they take at worst, padding included
    aborted   \* an allocation has returned null, which ends the instruction

allocatorVars == <<pos, blocks, demand, aborted>>

Block == [start : Nat, size : Sizes, align : Aligns]
End(block) == block.start + block.size

AllocatorInit ==
    /\ pos = 0
    /\ blocks = <<>>
    /\ demand = 0
    /\ aborted = FALSE

\* The position, or the bottom of the heap before the first allocation.
cursor == IF pos = 0 THEN BOTTOM_ADDRESS ELSE pos

\* p + align - 1 with its low bits masked off.
align_up_unaligned(p, align) == p  \* mutant: no alignment
align_up_past(p, align) == p + align - (p % align)  \* mutant: moves always
align_up(p, align) == (p + align - 1) - ((p + align - 1) % align)

saturating_add(a, b) == IF a + b > USIZE_MAX THEN USIZE_MAX ELSE a + b

\* alloc; dealloc changes nothing.
AllocUnstored(size, align) ==  \* mutant: the position is not written back
    /\ ~aborted /\ Len(blocks) < MAX_BLOCKS
    /\ align_up(cursor, align) + size <= TOP_ADDRESS
    /\ blocks' = Append(blocks, [start |-> align_up(cursor, align),
                                 size |-> size, align |-> align])
    /\ demand' = demand + size + align - 1
    /\ UNCHANGED <<pos, aborted>>
Alloc(size, align) ==
    LET start == align_up(cursor, align)
        next_pos == saturating_add(start, size)
    IN  /\ ~aborted /\ Len(blocks) < MAX_BLOCKS
        /\ next_pos <= TOP_ADDRESS
        /\ pos' = next_pos
        /\ blocks' = Append(blocks, [start |-> start, size |-> size,
                                     align |-> align])
        /\ demand' = demand + size + align - 1
        /\ UNCHANGED aborted

\* alloc returns null and the allocation error handler aborts.
AllocNull(size, align) ==
    /\ ~aborted
    /\ saturating_add(align_up(cursor, align), size) > TOP_ADDRESS
    /\ aborted' = TRUE
    /\ UNCHANGED <<pos, blocks, demand>>

AllocatorNext ==
    \E size \in Sizes, align \in Aligns :
        Alloc(size, align) \/ AllocNull(size, align)

AllocatorSpec == AllocatorInit /\ [][AllocatorNext]_allocatorVars

(***************************************************************************)
(* Properties                                                              *)
(***************************************************************************)
\* Types; the position word is 0 exactly until the first block.
AllocatorTypeOK ==
    /\ pos \in Nat
    /\ blocks \in Seq(Block)
    /\ demand \in Nat
    /\ aborted \in BOOLEAN
    /\ pos = 0 <=> blocks = <<>>

\* BumpAllocator::alloc: no two blocks overlap, whatever the order of sizes
\* and alignments.
BlocksDisjoint ==
    \A i, j \in DOMAIN blocks :
        i < j => End(blocks[i]) <= blocks[j].start

\* BumpAllocator::alloc: every block is aligned as asked, spares the position
\* word and ends inside the heap.
BlocksUsable ==
    \A i \in DOMAIN blocks :
        /\ blocks[i].start % blocks[i].align = 0
        /\ blocks[i].start >= BOTTOM_ADDRESS
        /\ End(blocks[i]) <= TOP_ADDRESS

\* The header of allocator.rs: an instruction whose allocations fit the
\* default heap never touches memory above it, so it needs no requestHeapFrame.
FitsHeapFrame ==
    demand <= HEAP_FRAME - WORD_SIZE =>
        \A i \in DOMAIN blocks :
            End(blocks[i]) <= HEAP_START_ADDRESS + HEAP_FRAME

=============================================================================
