------------------------------ MODULE MCUndoLog ------------------------------
(* Small instances of UndoLog for TLC.                                      *)
EXTENDS UndoLogRetention, TLC

BackendSymmetry == Permutations(Backends)
=============================================================================
