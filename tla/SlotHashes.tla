----------------------------- MODULE SlotHashes -----------------------------
(***************************************************************************)
(* The SlotHashes sysvar over time, and the nonces the program accepts     *)
(* from it.  The runtime (external) pushes one entry per produced block at *)
(* the front and drops the oldest beyond MAX_ENTRIES; slots whose leader   *)
(* produced no block are skipped, which is what makes the direct index of  *)
(* find_slot_hash_with_fallback miss.                                      *)
(***************************************************************************)
EXTENDS Nonce

CONSTANTS
    FIRST_SLOT,   \* height of the oldest block considered
    MAX_SLOT      \* bound: the last slot a behaviour reaches

ASSUME SlotAssumption == FIRST_SLOT \in Nat /\ MAX_SLOT \in Nat

VARIABLES
    slot_hashes,  \* the sysvar account, newest entry first
    produced      \* history: the heights of all blocks produced so far

sysvarVars == <<slot_hashes, produced>>

head == slot_hashes[1].height

SysvarInit ==
    /\ slot_hashes = <<Entry(FIRST_SLOT)>>
    /\ produced = {FIRST_SLOT}

\* A block is produced at the given height; the slots in between are skipped.
AdvanceSlot(height) ==
    /\ height > head
    /\ slot_hashes' = SubSeq(<<Entry(height)>> \o slot_hashes, 1,
                             IF Len(slot_hashes) < MAX_ENTRIES
                             THEN Len(slot_hashes) + 1 ELSE MAX_ENTRIES)
    /\ produced' = produced \cup {height}

SysvarNext == \E height \in FIRST_SLOT..MAX_SLOT : AdvanceSlot(height)

SysvarSpec == SysvarInit /\ [][SysvarNext]_sysvarVars

\* The cluster goes on producing blocks.
FairSysvarSpec == SysvarSpec /\ WF_sysvarVars(SysvarNext)

(***************************************************************************)
(* Properties                                                              *)
(***************************************************************************)
SlotHashEntry == [height : Nat, hash : {"bank hash"} \X Nat]

SysvarTypeOK ==
    /\ slot_hashes \in Seq(SlotHashEntry)
    /\ Len(slot_hashes) \in 1..MAX_ENTRIES
    /\ produced \subseteq Nat

\* What validate_nonce returns to a top-level instruction of a transaction
\* signed by the nonce signer.
Accepted(slot) == validate_nonce(slot_hashes, slot, 1, TRUE)

\* The hashes some truncated slot is accepted with.  u16 arguments of MODULUS
\* and above are represented by the value MODULUS.
AcceptedHashes == UNION {Accepted(slot) : slot \in 0..MODULUS}

\* The blocks the nonce document promises to accept: fewer than WINDOW slots
\* behind the newest one.
Recent == {h \in produced : head - h < WINDOW}

(***************************************************************************)
(* validate_nonce accepts a truncated slot exactly when a block of the     *)
(* last WINDOW slots has it, and then returns that block's hash: skipped   *)
(* slots between the block and the head, the wraparound of the truncated   *)
(* slot, a chain younger than the window and entries dropped from the      *)
(* sysvar make it neither miss a valid slot nor alias an older block.      *)
(***************************************************************************)
NonceExact ==
    \A slot \in 0..MODULUS :
        Accepted(slot) = {BankHash(h) : h \in {r \in Recent :
                                                TruncatedSlot(r) = slot}}

(***************************************************************************)
(* Once a slot hash has expired it stays expired: as the sysvar advances,  *)
(* no hash becomes acceptable again, the newly produced one excepted.      *)
(***************************************************************************)
ExpiryIsFinal ==
    [][AcceptedHashes' \subseteq AcceptedHashes \cup {BankHash(head')}]_sysvarVars

(***************************************************************************)
(* Every approval lapses: a block stops being acceptable, and for good,    *)
(* although its truncated slot comes round again and whatever slots are    *)
(* skipped.  The blocks considered are those a window before MAX_SLOT.     *)
(***************************************************************************)
ApprovalsLapse ==
    \A h \in FIRST_SLOT..(MAX_SLOT - WINDOW) :
        h \in produced ~> [](BankHash(h) \notin AcceptedHashes)
=============================================================================
