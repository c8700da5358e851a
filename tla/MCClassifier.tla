---------------------------- MODULE MCClassifier ----------------------------
(* Two workers and one address more than the history holds, for TLC. *)
EXTENDS Classifier, TLC

CONSTANTS w1, w2, a1, a2, a3

MCWorker == {w1, w2}
MCAddress == {a1, a2, a3}
MCConfidence == 1..2
MCSymmetry == Permutations(MCWorker) \cup Permutations(MCAddress)
=============================================================================
