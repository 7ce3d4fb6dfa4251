---------------------------- MODULE MCIdleUnload ----------------------------
(* Small instance of IdleUnload for TLC. *)
EXTENDS IdleUnload

=============================================================================
