------------------------------- MODULE Nonce -------------------------------
(***************************************************************************)
(* The nonce lookup of src/utils/nonce.rs over the SlotHashes sysvar of    *)
(* src/utils/slothashes.rs, as constant-level operators.                   *)
(*                                                                         *)
(* A payload signed outside Solana names a recent slot by its last digits  *)
(* (TruncatedSlot, slot % 1000).  The program recovers the full slot from  *)
(* the newest entry of the sysvar and looks up that slot's hash.           *)
(*                                                                         *)
(* The sysvar is a sequence of [height, hash] records, newest first; the   *)
(* code's index i is position i + 1 here.  A Rust Result<T, _> is a set    *)
(* with at most one element: Ok(v) is {v}, every Err is {}.                *)
(***************************************************************************)
EXTENDS Integers, Sequences

CONSTANTS
    MODULUS,      \* 1000: a TruncatedSlot is slot % MODULUS
    WINDOW,       \* 150: a slot this old, or older, is expired
    MAX_ENTRIES   \* 512: the runtime keeps that many slot hashes (external)

ASSUME ModulusAssumption == MODULUS \in Nat \ {0}
ASSUME WindowAssumption == WINDOW \in 1..MODULUS
ASSUME EntriesAssumption == MAX_ENTRIES \in Nat /\ WINDOW <= MAX_ENTRIES

\* The bank hash of a slot: opaque and different for every slot.
BankHash(height) == <<"bank hash", height>>

Entry(height) == [height |-> height, hash |-> BankHash(height)]

(***************************************************************************)
(* TruncatedSlot                                                           *)
(***************************************************************************)
TruncatedSlot(untruncated_slot) == untruncated_slot % MODULUS

\* self - other on the circle of MODULUS truncated slots.
get_index_difference(self, other) ==
    IF self >= other THEN self - other ELSE self + (MODULUS - other)

(***************************************************************************)
(* Access to the sysvar                                                    *)
(***************************************************************************)
get_slot_hash(slot_hashes, index) ==
    IF index < Len(slot_hashes) THEN {slot_hashes[index + 1]} ELSE {}

\* Mutant: the loop starts one index too low.
reverse_linear_search_short(slot_hashes, expected_slot, search_end) ==
    LET hits == {p \in 1..(search_end - 1) : slot_hashes[p].height = expected_slot}
    IN  {slot_hashes[p] : p \in {q \in hits : \A r \in hits : r <= q}}

\* The loop over (0..search_end).rev(): the hit with the largest index wins.
reverse_linear_search_slot_hash(slot_hashes, expected_slot, search_end) ==
    LET hits == {p \in 1..search_end : slot_hashes[p].height = expected_slot}
    IN  {slot_hashes[p] : p \in {q \in hits : \A r \in hits : r <= q}}

\* Mutant: entries are compared by their truncated slot.
find_slot_hash_truncated(slot_hashes, expected_slot, expected_index) ==
    LET limit == IF expected_index < Len(slot_hashes)
                 THEN expected_index + 1 ELSE Len(slot_hashes)
        hits == {p \in 1..limit : TruncatedSlot(slot_hashes[p].height)
                                    = TruncatedSlot(expected_slot)}
    IN  {slot_hashes[p] : p \in {q \in hits : \A r \in hits : r <= q}}

find_slot_hash_with_fallback(slot_hashes, expected_slot, expected_index) ==
    LET direct == {e \in get_slot_hash(slot_hashes, expected_index) :
                        e.height = expected_slot}
        search_end == IF expected_index < Len(slot_hashes)
                      THEN expected_index ELSE Len(slot_hashes)
    IN  IF direct # {} THEN direct
        ELSE reverse_linear_search_slot_hash(slot_hashes, expected_slot,
                                             search_end)

(***************************************************************************)
(* validate_nonce: the hash of the named slot, or nothing if any check     *)
(* fails.  The instruction must be a top-level one (stack height 1) of a   *)
(* transaction that the nonce signer signed.                               *)
(***************************************************************************)
expected_slots_unexpiring(head, slot) ==  \* mutant: the window is not checked
    {s \in {head - get_index_difference(TruncatedSlot(head), slot)} : s >= 0}
expected_slots(head, slot) ==
    LET index_difference == get_index_difference(TruncatedSlot(head), slot)
    IN  {s \in {head - index_difference} : index_difference < WINDOW /\ s >= 0}

validate_nonce(slot_hashes, slot, stack_height, is_signer) ==
    IF slot >= MODULUS \/ stack_height > 1 \/ ~is_signer THEN {}
    ELSE UNION {UNION {{e.hash : e \in find_slot_hash_with_fallback(
                                          slot_hashes, s, newest.height - s)} :
                         s \in expected_slots(newest.height, slot)} :
                  newest \in get_slot_hash(slot_hashes, 0)}
=============================================================================
