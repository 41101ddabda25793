----------------------------- MODULE MCHistory -----------------------------
(* Instances of History for TLC.                                           *)
EXTENDS HistoryProps, TLC

Symmetry == Permutations(Turns)
=============================================================================
