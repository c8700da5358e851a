--------------------------- MODULE MCSingletonLock ---------------------------
(* A small host for TLC: two workers, and ids enough to replace them. *)
EXTENDS SingletonLock, TLC

CONSTANTS p1, p2, p3

MCPid == {p1, p2, p3}
=============================================================================
