--------------------------- MODULE MCApprovalIpc ---------------------------
(* Small instances of ApprovalIpc for TLC. *)
EXTENDS ApprovalIpc, TLC

=============================================================================
