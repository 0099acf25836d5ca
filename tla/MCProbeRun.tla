----------------------------- MODULE MCProbeRun -----------------------------
(* Instances of ProbeRun for TLC.                                           *)
EXTENDS ProbeRun

CONSTANTS p1, p2
=============================================================================
