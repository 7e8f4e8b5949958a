-------------------------- MODULE MCBumpAllocator --------------------------
(* Model checking of the allocator: its constants get values in the cfg.   *)
EXTENDS BumpAllocator
=============================================================================
