--------------------------- MODULE SupportProofs ----------------------------
(***************************************************************************)
(* Proofs about the parts that support the handlers: the creation of an    *)
(* account happens whole or not at all (AccountCreation), and the          *)
(* allocator hands out blocks that lie in the heap frame and do not        *)
(* overlap (BumpAllocator).                                                *)
(***************************************************************************)
EXTENDS AccountCreation, BumpAllocator, TLAPS

-----------------------------------------------------------------------------
(***************************************************************************)
(* WholeOrNothing for any payers, sizes and rents.  The invariant says for *)
(* every step of the handler how far the account has come, and that what a *)
(* failure would go back to is whole or absent.                            *)
(***************************************************************************)

Account ==
    [lamports : Nat, owner : {"system", "program"}, len : {0, SPACE}, header : BOOLEAN,
     contents : SUBSET Attempts, session : {"none", "within", "beyond"}]
Balances == [Payers -> Nat]

CreationTypeOK ==
    /\ account \in Account
    /\ balance \in Balances
    /\ before \in [account : Account, balance : Balances]
    /\ attempt \in Attempts
    /\ slice \in {0, SPACE}

(* How far an account has come.                                            *)
Paid(a) == Absent(a) /\ a.lamports >= RENT
Allocated(a) ==
    /\ a.len = SPACE /\ a.lamports >= RENT /\ a.owner = "system"
    /\ ~a.header /\ a.contents = {} /\ a.session = "none"
Assigned(a) == a.len = SPACE /\ a.lamports >= RENT /\ a.owner = "program"
Fresh(a) == Assigned(a) /\ a.session = "none"
Written(a) == Assigned(a) /\ a.header /\ a.contents = {attempt}
Keyed(a) == Written(a) /\ a.session = attempt.session /\ attempt.session # "beyond"

Progress ==
    /\ pc \in {"idle", "load", "transfer", "allocate", "assign", "reload", "header",
               "contents", "session", "verify", "commit"}
    /\ pc \notin {"idle", "load"} => attempt.loads
    /\ pc \in {"idle", "load"} => Absent(account) \/ Whole(account)
    /\ pc = "transfer" => Absent(account)
    /\ pc = "allocate" => Paid(account)
    /\ pc = "assign" => Allocated(account)
    /\ pc \in {"reload", "header"} => Fresh(account)
    /\ pc = "contents" => Fresh(account) /\ account.header
    /\ pc = "session" => Fresh(account) /\ Written(account)
    /\ pc = "verify" => Keyed(account)
    /\ pc = "commit" => Keyed(account) /\ attempt.signed

CreationInv ==
    /\ CreationTypeOK
    /\ Progress
    /\ pc # "idle" => Absent(before.account) \/ Whole(before.account)

-----------------------------------------------------------------------------
(* A donation changes only the lamports, and not downwards.                *)
LEMMA RicherAccount ==
    ASSUME NEW a \in Account, NEW n \in Nat
    PROVE  LET b == [a EXCEPT !.lamports = @ + n] IN
           /\ b \in Account /\ b.lamports >= n
           /\ Absent(a) => Absent(b)
           /\ Whole(a) => Whole(b)
  BY CreationAssumption DEF Account, Absent, Whole

(* Init establishes the invariant.                                         *)
LEMMA CreationInitially == CreationInit => CreationInv
  <1> SUFFICES ASSUME CreationInit PROVE CreationInv
      OBVIOUS
  <1>1. account \in Account /\ Absent(account)
        BY DEF CreationInit, EmptyAccount, Account, Absent
  <1>2. balance \in Balances
        BY CreationAssumption DEF CreationInit, Balances
  <1>3. before \in [account : Account, balance : Balances]
        BY <1>1, <1>2 DEF CreationInit, Snapshot
  <1>4. attempt \in Attempts /\ slice \in {0, SPACE} /\ pc = "idle"
        BY DEF CreationInit
  <1> QED  BY <1>1, <1>2, <1>3, <1>4 DEF CreationInv, CreationTypeOK, Progress

(* Donations and beginnings preserve the invariant.                        *)
LEMMA DonatePreserves ==
    ASSUME CreationInv, NEW p \in Payers, Donate(p)
    PROVE  CreationInv'
  <1>1. PICK amount \in {RENT_EMPTY, RENT} :
           /\ balance[p] >= amount
           /\ balance' = [balance EXCEPT ![p] = @ - amount]
           /\ account' = [account EXCEPT !.lamports = @ + amount]
        BY DEF Donate
  <1>2. amount \in Nat  BY CreationAssumption
  <1>3. account' \in Account /\ (Absent(account)' \/ Whole(account)')
    <2>1. account \in Account /\ (Absent(account) \/ Whole(account))
          BY DEF CreationInv, CreationTypeOK, Progress, Donate
    <2>2. account' \in Account /\ (Absent(account) => Absent(account'))
            /\ (Whole(account) => Whole(account'))
          BY <1>1, <1>2, <2>1, RicherAccount
    <2>3. Absent(account)' = Absent(account') /\ Whole(account)' = Whole(account')
          BY DEF Absent, Whole
    <2> QED  BY <2>1, <2>2, <2>3
  <1>4. balance' \in Balances
        BY <1>1, <1>2 DEF CreationInv, CreationTypeOK, Balances
  <1>5. pc = "idle" /\ UNCHANGED <<before, pc, attempt, slice>>  BY DEF Donate
  <1> QED  BY <1>3, <1>4, <1>5 DEF CreationInv, CreationTypeOK, Progress

\* A transaction begins: the snapshot is the present state.
LEMMA BeginPreserves ==
    ASSUME CreationInv, NEW p \in Payers, Begin(p)
    PROVE  CreationInv'
  <1>1. before' = Snapshot /\ pc = "idle" /\ pc' = "load" /\ UNCHANGED <<account, balance, slice>>
        BY DEF Begin
  <1>2. attempt' \in Attempts  BY DEF Begin
  <1>3. before' \in [account : Account, balance : Balances] /\ before'.account = account
        BY <1>1 DEF Snapshot, CreationInv, CreationTypeOK
  <1> QED
        BY <1>1, <1>2, <1>3 DEF CreationInv, CreationTypeOK, Progress, Absent, Whole

-----------------------------------------------------------------------------
(* Every step of the handler preserves it: the account moves on by one     *)
(* stage, and a failure goes back to what was there before.                *)
LEMMA StepsPreserve ==
    ASSUME CreationInv, Steps
    PROVE  CreationInv'
  <1> USE CreationAssumption
  <1>1. CASE Load
    BY <1>1 DEF Load, Go, Loadable, check_account_uninitialized, CreationInv, CreationTypeOK,
                Progress, Absent, Whole, Account
  <1>2. CASE TransferRent
    <2>1. /\ account' \in Account /\ account'.lamports >= RENT /\ Absent(account)'
          BY <1>2, RicherAccount DEF TransferRent, Go, CreationInv, CreationTypeOK, Progress, Absent
    <2>2. balance' \in Balances
          BY <1>2 DEF TransferRent, Go, Transferable, CreationInv, CreationTypeOK, Balances, Attempts
    <2> QED  BY <1>2, <2>1, <2>2
             DEF TransferRent, Go, CreationInv, CreationTypeOK, Progress, Paid, Absent, Whole
  <1>3. CASE AllocateSpace
    <2>1. account' \in Account /\ Allocated(account)'
          BY <1>3 DEF AllocateSpace, Go, CreationInv, CreationTypeOK, Progress, Paid, Absent,
                      Allocated, Account
    <2> QED  BY <1>3, <2>1
             DEF AllocateSpace, Go, CreationInv, CreationTypeOK, Progress, Absent, Whole
  <1>4. CASE AssignOwner
    <2>1. account' \in Account /\ Fresh(account)'
          BY <1>4 DEF AssignOwner, Go, CreationInv, CreationTypeOK, Progress, Allocated,
                      Fresh, Assigned, Account
    <2> QED  BY <1>4, <2>1
             DEF AssignOwner, Go, CreationInv, CreationTypeOK, Progress, Absent, Whole
  <1>5. CASE Reload
    BY <1>5 DEF Reload, Go, CreationInv, CreationTypeOK, Progress, Fresh, Assigned, Absent,
                Whole, Account
  <1>6. CASE InitializeHeader
    <2>1. account' \in Account /\ Fresh(account)' /\ account'.header
          BY <1>6 DEF InitializeHeader, Go, CreationInv, CreationTypeOK, Progress, Fresh,
                      Assigned, Account
    <2> QED  BY <1>6, <2>1
             DEF InitializeHeader, Go, CreationInv, CreationTypeOK, Progress, Absent, Whole
  <1>7. CASE InitializeContents
    <2>1. account' \in Account /\ Fresh(account)' /\ Written(account)'
          BY <1>7 DEF InitializeContents, Go, CreationInv, CreationTypeOK, Progress, Fresh,
                      Assigned, Written, Account
    <2> QED  BY <1>7, <2>1
             DEF InitializeContents, Go, CreationInv, CreationTypeOK, Progress, Absent, Whole
  <1>8. CASE SetSessionKey
    <2>1. account' \in Account /\ Keyed(account)'
          BY <1>8 DEF SetSessionKey, Go, WithinLimit, CreationInv, CreationTypeOK, Progress, Fresh,
                      Assigned, Written, Keyed, Account, Attempts
    <2> QED  BY <1>8, <2>1
             DEF SetSessionKey, Go, CreationInv, CreationTypeOK, Progress, Absent, Whole
  <1>9. CASE VerifyInitialization
    BY <1>9 DEF VerifyInitialization, Go, Verified, CreationInv, CreationTypeOK, Progress,
                Keyed, Written, Assigned, Absent, Whole
  <1>10. CASE CommitCreation
    <2>1. Whole(account)'
          BY <1>10 DEF CommitCreation, Go, CreationInv, Progress, Keyed, Written, Assigned, Whole
    <2> QED  BY <1>10, <2>1 DEF CommitCreation, Go, CreationInv, CreationTypeOK, Progress
  <1>11. CASE Abort
    <2>1. pc # "idle"  BY <1>11 DEF Abort, Blocked
    <2>2. account' = before.account /\ balance' = before.balance /\ pc' = "idle"
            /\ UNCHANGED <<before, attempt, slice>>
          BY <1>11 DEF Abort
    <2>3. account' \in Account /\ balance' \in Balances
          BY <2>2 DEF CreationInv, CreationTypeOK
    <2>4. Absent(account)' \/ Whole(account)'
          BY <2>1, <2>2 DEF CreationInv, Absent, Whole
    <2> QED  BY <2>2, <2>3, <2>4 DEF CreationInv, CreationTypeOK, Progress
  <1> QED  BY <1>1, <1>2, <1>3, <1>4, <1>5, <1>6, <1>7, <1>8, <1>9, <1>10, <1>11
           DEF Steps

(* initialize_external_account, whatever fails and whoever sends lamports: *)
(* between transactions the account is whole or absent.                    *)
THEOREM WholeOrNothingHolds == CreationSpec => []WholeOrNothing
  <1>1. CreationInv /\ [CreationNext]_creationVars => CreationInv'
    <2> SUFFICES ASSUME CreationInv, [CreationNext]_creationVars PROVE CreationInv'
          OBVIOUS
    <2>1. CASE UNCHANGED creationVars
          BY <2>1 DEF creationVars, CreationInv, CreationTypeOK, Progress, Absent, Whole, Paid,
                      Allocated, Fresh, Assigned, Written, Keyed
    <2>2. CASE \E p \in Payers : Donate(p) \/ Begin(p)
          BY <2>2, DonatePreserves, BeginPreserves
    <2>3. CASE Steps  BY <2>3, StepsPreserve
    <2> QED  BY <2>1, <2>2, <2>3 DEF CreationNext
  <1>2. CreationInv => WholeOrNothing
        BY DEF CreationInv, Progress, WholeOrNothing
  <1> QED  BY CreationInitially, <1>1, <1>2, PTL DEF CreationSpec

-----------------------------------------------------------------------------
(***************************************************************************)
(* The allocator is correct for every heap, every set of sizes and every   *)
(* set of alignments, and for any number of allocations.                   *)
(*                                                                         *)
(* The blocks alone are not inductive: that a new block overlaps no older  *)
(* one needs every block to end below the cursor, and the frame bound      *)
(* needs the cursor to stay within what has been asked for.                *)
(***************************************************************************)

\* Every block ends at or below the cursor, which stays inside the heap and
\* within the demand so far.
BelowCursor ==
    /\ \A i \in DOMAIN blocks : End(blocks[i]) <= cursor
    /\ cursor >= BOTTOM_ADDRESS
    /\ cursor <= TOP_ADDRESS
    /\ cursor <= BOTTOM_ADDRESS + demand

AllocatorInv ==
    /\ AllocatorTypeOK
    /\ BelowCursor
    /\ BlocksDisjoint
    /\ BlocksUsable

\* What is left of a number without its remainder is a multiple.
LEMMA MultipleLeft ==
    ASSUME NEW q \in Nat, NEW align \in Nat \ {0}
    PROVE  (q - (q % align)) % align = 0
PROOF
<1>1. q = align * (q \div align) + (q % align)
  BY Z3
<1>2. q \div align \in Nat /\ q % align \in Nat
  BY Z3
<1>3. \A k \in Nat : (align * k) % align = 0
  BY Z3
<1> QED
  BY <1>1, <1>2, <1>3

\* (pos + align - 1) & !(align - 1) never moves down, moves up by less than
\* the alignment, and is aligned.
LEMMA AlignUpFacts ==
    ASSUME NEW p \in Nat, NEW align \in Nat \ {0}
    PROVE  /\ align_up(p, align) \in Nat
           /\ p <= align_up(p, align)
           /\ align_up(p, align) <= p + align - 1
           /\ align_up(p, align) % align = 0
PROOF
<1> DEFINE q == p + align - 1
<1>1. q \in Nat /\ q % align \in 0..(align - 1)
  BY Z3
<1>2. align_up(p, align) = q - (q % align)
  BY DEF align_up
<1>3. (q - (q % align)) % align = 0
  BY <1>1, MultipleLeft
<1> QED
  BY <1>1, <1>2, <1>3

\* What the assumptions say of the constants, in the form the steps need.
LEMMA HeapFacts ==
    /\ TOP_ADDRESS \in Nat /\ BOTTOM_ADDRESS \in Nat \ {0}
    /\ BOTTOM_ADDRESS <= TOP_ADDRESS
    /\ \A size \in Sizes : size \in Nat \ {0}
    /\ \A align \in Aligns : align \in Nat \ {0}
BY HeapAssumption DEF TOP_ADDRESS, BOTTOM_ADDRESS

\* A block of the history ends at a number.
LEMMA EndIsNat == ASSUME NEW block \in Block PROVE End(block) \in Nat
BY HeapFacts DEF Block, End

LEMMA InitAllocatorInv == AllocatorInit => AllocatorInv
PROOF
<1> SUFFICES ASSUME AllocatorInit PROVE AllocatorInv
  OBVIOUS
<1>1. blocks = <<>> /\ DOMAIN blocks = {} /\ cursor = BOTTOM_ADDRESS /\ demand = 0
  BY DEF AllocatorInit, cursor
<1>2. AllocatorTypeOK
  <2>1. pos \in Nat /\ demand \in Nat /\ blocks \in Seq(Block)
    BY DEF AllocatorInit
  <2>2. aborted \in BOOLEAN /\ (pos = 0 <=> blocks = <<>>)
    BY Zenon DEF AllocatorInit
  <2> QED
    BY <2>1, <2>2 DEF AllocatorTypeOK
<1>3. BelowCursor
  BY <1>1, HeapFacts DEF BelowCursor
<1> QED
  BY <1>1, <1>2, <1>3 DEF AllocatorInv, BlocksDisjoint, BlocksUsable

\* A block that is handed out starts at or above the cursor.
LEMMA AllocPreserves ==
    ASSUME AllocatorInv, NEW size \in Sizes, NEW align \in Aligns,
           Alloc(size, align)
    PROVE  AllocatorInv'
PROOF
<1> DEFINE start == align_up(cursor, align)
           block == [start |-> start, size |-> size, align |-> align]
<1>1. /\ cursor \in Nat /\ align \in Nat \ {0} /\ size \in Nat \ {0}
      /\ TOP_ADDRESS \in Nat /\ BOTTOM_ADDRESS \in Nat \ {0}
      /\ TOP_ADDRESS <= USIZE_MAX /\ USIZE_MAX \in Nat
  BY HeapAssumption DEF AllocatorInv, AllocatorTypeOK, cursor, BOTTOM_ADDRESS,
     TOP_ADDRESS
<1>2. /\ start \in Nat /\ cursor <= start /\ start <= cursor + align - 1
      /\ start % align = 0
  BY <1>1, AlignUpFacts
<1>3. /\ start + size <= TOP_ADDRESS
      /\ pos' = start + size
      /\ blocks' = Append(blocks, block)
      /\ demand' = demand + size + align - 1
      /\ aborted' = aborted
  <2> HIDE DEF start
  <2>1. saturating_add(start, size) <= TOP_ADDRESS
    BY DEF Alloc, start
  <2>2. saturating_add(start, size) = start + size
    BY <2>1, <1>1, <1>2, HeapAssumption DEF saturating_add, TOP_ADDRESS
  <2> QED
    BY <2>1, <2>2 DEF Alloc, start
<1> HIDE DEF start
<1>4. block \in Block /\ block.start = start /\ block.size = size
      /\ block.align = align /\ End(block) = start + size
  BY <1>2 DEF Block, End
<1> HIDE DEF block
<1>5. blocks \in Seq(Block)
  BY DEF AllocatorInv, AllocatorTypeOK
<1>6. /\ Len(blocks) \in Nat
      /\ DOMAIN blocks = 1..Len(blocks)
      /\ DOMAIN blocks' = 1..(Len(blocks) + 1)
      /\ \A i \in 1..Len(blocks) : blocks'[i] = blocks[i]
      /\ blocks'[Len(blocks) + 1] = block
      /\ blocks' \in Seq(Block) /\ blocks' # <<>>
  BY <1>3, <1>4, <1>5
<1>7. cursor' = start + size
  BY <1>1, <1>2, <1>3 DEF cursor
<1>8. \A i \in DOMAIN blocks : blocks[i] \in Block /\ End(blocks[i]) \in Nat
  BY <1>5, EndIsNat
<1>9. AllocatorTypeOK'
  BY <1>1, <1>2, <1>3, <1>6 DEF AllocatorInv, AllocatorTypeOK
<1>10. BelowCursor'
  <2>1. \A i \in 1..Len(blocks) : End(blocks[i]) <= start + size
    BY <1>1, <1>2, <1>6, <1>8 DEF AllocatorInv, BelowCursor
  <2>2. \A i \in DOMAIN blocks' : End(blocks'[i]) <= cursor'
    BY <2>1, <1>1, <1>2, <1>4, <1>6, <1>7
  <2>3. cursor' >= BOTTOM_ADDRESS /\ cursor' <= TOP_ADDRESS
        /\ cursor' <= BOTTOM_ADDRESS + demand'
    BY <1>1, <1>2, <1>3, <1>7 DEF AllocatorInv, BelowCursor, AllocatorTypeOK
  <2> QED
    BY <2>2, <2>3 DEF BelowCursor, End, BOTTOM_ADDRESS, TOP_ADDRESS
<1>11. BlocksDisjoint'
  <2> SUFFICES ASSUME NEW i \in DOMAIN blocks', NEW j \in DOMAIN blocks', i < j
               PROVE  End(blocks'[i]) <= blocks'[j].start
    BY DEF BlocksDisjoint, End
  <2>1. i \in 1..Len(blocks) /\ blocks'[i] = blocks[i]
    BY <1>6
  <2>2. CASE j \in 1..Len(blocks)
    BY <2>1, <2>2, <1>6 DEF AllocatorInv, BlocksDisjoint
  <2>3. CASE j = Len(blocks) + 1
    <3>1. blocks'[j].start = start
      BY <2>3, <1>4, <1>6
    <3>2. End(blocks[i]) <= cursor
      BY <2>1, <1>6 DEF AllocatorInv, BelowCursor
    <3> QED
      BY <3>1, <3>2, <2>1, <1>1, <1>2, <1>6, <1>8
  <2> QED
    BY <2>2, <2>3, <1>6
<1>12. BlocksUsable'
  <2> SUFFICES ASSUME NEW i \in DOMAIN blocks'
               PROVE  /\ blocks'[i].start % blocks'[i].align = 0
                      /\ blocks'[i].start >= BOTTOM_ADDRESS
                      /\ End(blocks'[i]) <= TOP_ADDRESS
    BY DEF BlocksUsable, End, BOTTOM_ADDRESS, TOP_ADDRESS
  <2>1. CASE i \in 1..Len(blocks)
    BY <2>1, <1>6 DEF AllocatorInv, BlocksUsable
  <2>2. CASE i = Len(blocks) + 1
    <3>1. cursor >= BOTTOM_ADDRESS
      BY DEF AllocatorInv, BelowCursor
    <3>2. blocks'[i] = block
      BY <2>2, <1>6
    <3> QED
      BY <3>1, <3>2, <1>1, <1>2, <1>3, <1>4
  <2> QED
    BY <2>1, <2>2, <1>6
<1> QED
  BY <1>9, <1>10, <1>11, <1>12 DEF AllocatorInv

LEMMA NextAllocatorInv == AllocatorInv /\ [AllocatorNext]_allocatorVars => AllocatorInv'
PROOF
<1> SUFFICES ASSUME AllocatorInv, [AllocatorNext]_allocatorVars
             PROVE  AllocatorInv'
  OBVIOUS
<1>1. ASSUME NEW size \in Sizes, NEW align \in Aligns, Alloc(size, align)
      PROVE  AllocatorInv'
  BY <1>1, AllocPreserves
<1>2. ASSUME NEW size \in Sizes, NEW align \in Aligns, AllocNull(size, align)
      PROVE  AllocatorInv'
  BY <1>2 DEF AllocNull, AllocatorInv, AllocatorTypeOK, BelowCursor, cursor,
     BlocksDisjoint, BlocksUsable, End, BOTTOM_ADDRESS, TOP_ADDRESS
<1>3. CASE UNCHANGED allocatorVars
  BY <1>3 DEF allocatorVars, AllocatorInv, AllocatorTypeOK, BelowCursor, cursor,
     BlocksDisjoint, BlocksUsable, End, BOTTOM_ADDRESS, TOP_ADDRESS
<1> QED
  BY <1>1, <1>2, <1>3 DEF AllocatorNext

LEMMA AllocatorInvariant == AllocatorSpec => []AllocatorInv
PROOF
  BY InitAllocatorInv, NextAllocatorInv, PTL DEF AllocatorSpec

\* BumpAllocator::alloc: the word at the bottom of the heap is always 0 or a
\* position inside it, and every block has its type.
THEOREM AllocatorTypeCorrect == AllocatorSpec => []AllocatorTypeOK
PROOF
<1>1. AllocatorInv => AllocatorTypeOK
  BY DEF AllocatorInv
<1> QED
  BY <1>1, AllocatorInvariant, PTL

\* BumpAllocator::alloc: in every heap, no two live blocks share a byte.
THEOREM BlocksDisjointHolds == AllocatorSpec => []BlocksDisjoint
PROOF
<1>1. AllocatorInv => BlocksDisjoint
  BY DEF AllocatorInv
<1> QED
  BY <1>1, AllocatorInvariant, PTL

\* BumpAllocator::alloc: in every heap, blocks are aligned, spare the word at
\* the bottom and end inside the heap.
THEOREM BlocksUsableHolds == AllocatorSpec => []BlocksUsable
PROOF
<1>1. AllocatorInv => BlocksUsable
  BY DEF AllocatorInv
<1> QED
  BY <1>1, AllocatorInvariant, PTL

\* The header of allocator.rs: what fits the default heap frame stays in it.
THEOREM FitsHeapFrameHolds == AllocatorSpec => []FitsHeapFrame
PROOF
<1>1. AllocatorInv => FitsHeapFrame
  <2> SUFFICES ASSUME AllocatorInv, demand <= HEAP_FRAME - WORD_SIZE,
                      NEW i \in DOMAIN blocks
               PROVE  End(blocks[i]) <= HEAP_START_ADDRESS + HEAP_FRAME
    BY DEF FitsHeapFrame
  <2>1. End(blocks[i]) <= cursor /\ cursor <= BOTTOM_ADDRESS + demand
    BY DEF AllocatorInv, BelowCursor
  <2>2. blocks[i] \in Block
    BY DEF AllocatorInv, AllocatorTypeOK
  <2>3. End(blocks[i]) \in Nat /\ cursor \in Nat /\ demand \in Nat
    BY <2>2, EndIsNat, HeapFacts DEF AllocatorInv, AllocatorTypeOK, cursor
  <2> QED
    BY <2>1, <2>3, HeapAssumption DEF BOTTOM_ADDRESS
<1> QED
  BY <1>1, AllocatorInvariant, PTL
=============================================================================
