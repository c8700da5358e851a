--------------------------- MODULE MCTelemetryPool ---------------------------
(* A small server for TLC: more uploads than permits, more permits than threads. *)
EXTENDS TelemetryPool, TLC

CONSTANTS u1, u2, u3

MCUpload == {u1, u2, u3}
=============================================================================
