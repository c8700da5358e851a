--------------------------- MODULE MCEnforcement ---------------------------
(* One flow, to the receiver of the demo event: the gate treats each flow   *)
(* by itself.  A demo server and one that also enforces live.               *)
EXTENDS Enforcement

CONSTANT demoFlow

MCFlow == {demoFlow}
MCModes == {{"flow", "demo"}, {"flow", "live", "demo"}}
=============================================================================
