--------------------------- MODULE MCFlowFirewall ---------------------------
(* Small instances of FlowFirewall for TLC. *)
EXTENDS FlowFirewall, TLC

CONSTANTS r1, r2, foreign

MCRule == {r1, r2, foreign}
MCLocalRule == {r1, r2}

MCOneRule == {r1}
=============================================================================
