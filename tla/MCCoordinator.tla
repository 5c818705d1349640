----------------------------- MODULE MCCoordinator -----------------------------
(***************************************************************************)
(* Small instances of Coordinator for TLC.  Pipelines are interchangeable: *)
(* the symmetry is used by the runs that check invariants only.            *)
(***************************************************************************)
EXTENDS Coordinator, TLC

PipelineSymmetry == Permutations(Pipelines)
==============================================================================
