---------------------------- MODULE MCEngineWorker ----------------------------
(***************************************************************************)
(* Instances of EngineWorker for TLC.                                      *)
(***************************************************************************)
EXTENDS EngineWorker

CONSTANTS i1, i2, c1

=============================================================================
