----------------------------- MODULE MCMonitor -----------------------------
(* Small instances of Monitor for TLC.                                      *)
EXTENDS Monitor, TLC

\* Children are interchangeable (safety runs only).
ChildSymmetry == Permutations(Children)

=============================================================================
