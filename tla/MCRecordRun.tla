----------------------------- MODULE MCRecordRun -----------------------------
(* Instances of RecordRun for TLC.                                          *)
EXTENDS RecordRun, TLC

CONSTANTS chat, tools

Symmetry == Permutations(Proc)

One(append, force, bucket) ==
    [batch |-> FALSE, append |-> append, force |-> force, out |-> FALSE,
     bucket |-> bucket, names |-> <<chat>>]

Pack(force) ==
    [batch |-> TRUE, append |-> FALSE, force |-> force, out |-> FALSE,
     bucket |-> "auto", names |-> <<chat, tools>>]

(* A recording, a second turn, a re-recording, a pack, --out, and flags     *)
(* that exclude each other.                                                 *)
EveryUse ==
    {One(FALSE, FALSE, "auto"), One(TRUE, FALSE, "auto"), One(FALSE, TRUE, "nostream"),
     Pack(FALSE), Pack(TRUE),
     [One(TRUE, FALSE, "auto") EXCEPT !.out = TRUE],
     [One(FALSE, FALSE, "stream") EXCEPT !.out = TRUE],
     [Pack(FALSE) EXCEPT !.append = TRUE]}
=============================================================================
