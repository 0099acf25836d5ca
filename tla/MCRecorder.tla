----------------------------- MODULE MCRecorder -----------------------------
(* Instances of Recorder for TLC.                                           *)
EXTENDS Recorder, TLC

Symmetry == Permutations(Req)
=============================================================================
