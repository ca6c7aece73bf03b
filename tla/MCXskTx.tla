------------------------------- MODULE MCXskTx -------------------------------
(* Instances of XskTx for TLC. *)
EXTENDS XskTx
=============================================================================
