----------------------------- MODULE MCNegotiation -----------------------------
(***************************************************************************)
(* Small instances of Negotiation for TLC.                                 *)
(***************************************************************************)
EXTENDS Negotiation
==============================================================================
