------------------------- MODULE MCAccountCreation --------------------------
(* Two keys that race to create the account or send lamports to it.        *)
EXTENDS AccountCreation
=============================================================================
