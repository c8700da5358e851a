----------------------------- MODULE MCAllocation -----------------------------
(* Small numbers for TLC. *)
EXTENDS Allocation
=============================================================================
