-------------------------------- MODULE MCBoard --------------------------------
(* Small instances of Board for TLC. *)
EXTENDS Board, TLC

CONSTANTS c1, c2

\* Two cameras of one model.
MCModel == (c1 :> "m1") @@ (c2 :> "m1")
==============================================================================
