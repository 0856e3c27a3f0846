------------------------------ MODULE MCSigner ------------------------------
(* Small instances of Signer. *)
EXTENDS Signer
=============================================================================
