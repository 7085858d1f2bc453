------------------------------ MODULE RecorderMC -------------------------------
(***************************************************************************)
(* Small instances of Recorder.                                            *)
(***************************************************************************)
EXTENDS Recorder, TLC

CONSTANTS lights, garden

Symmetric == Permutations(Keys)
================================================================================
