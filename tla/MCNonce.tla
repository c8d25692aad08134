------------------------------- MODULE MCNonce -------------------------------
(* Small instances of Nonce. *)
EXTENDS Nonce
==============================================================================
