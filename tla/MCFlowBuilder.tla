---------------------------- MODULE MCFlowBuilder ----------------------------
(* Two uploads of the same flow and two types of threats for TLC. *)
EXTENDS FlowBuilder, TLC

CONSTANTS u1, u2, f1, t1, t2

MCUpload == {u1, u2}
MCFlow == {f1}
MCThreat == {t1, t2}
MCSymmetry == Permutations(MCUpload) \cup Permutations(MCThreat)
MCPacketsOf == u1 :> <<f1>> @@ u2 :> <<f1>>
=============================================================================
