-------------------------------- MODULE MCRelay --------------------------------
(* Small instances of Relay for TLC. *)
EXTENDS Relay, TLC
==============================================================================
