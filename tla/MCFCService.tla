------------------------------ MODULE MCFCService ------------------------------
(***************************************************************************)
(* Small instances of FCService for TLC.                                   *)
(***************************************************************************)
EXTENDS FCService
==============================================================================
