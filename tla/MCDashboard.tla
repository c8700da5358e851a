----------------------------- MODULE MCDashboard -----------------------------
(* Two clients, one slot, two policies, one set of limits, an agent of two     *)
(* identities.                                                                 *)
EXTENDS Dashboard

CONSTANTS c1, c2, s1, s2, l1, i1, i2, p1

MCRequest == {c1, c2}
MCForm == {s1, s2}
MCLimits == {l1}
MCCapacity == {1, 2}
MCIdentity == {i1, i2}
MCReport == {p1}
=============================================================================
