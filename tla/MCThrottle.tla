----------------------------- MODULE MCThrottle ------------------------------
(* Small instances of Throttle. *)
EXTENDS Throttle
=============================================================================
