---------------------------- MODULE MCSlotHashes ----------------------------
(* The SlotHashes sysvar and the nonce lookup on a small circle of slots.  *)
EXTENDS SlotHashes
=============================================================================
