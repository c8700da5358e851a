------------------------------ MODULE Delivery ------------------------------
(***************************************************************************)
(* What an agent and its server together promise about the packets that    *)
(* the agent captures, wherever these wait meanwhile: the server receives  *)
(* them without a gap and each only once, but for packets the agent has    *)
(* put at risk (excused) and for those it may send again (suspect).        *)
(***************************************************************************)
EXTENDS Integers

CONSTANT MaxPackets

VARIABLES captured,   (* how many packets were captured     *)
          received,   (* those the server has received      *)
          repeated,   (* those it has received again        *)
          excused, suspect

vars == <<captured, received, repeated, excused, suspect>>

Init == captured = 0 /\ received = {} /\ repeated = {} /\ excused = {} /\ suspect = {}

\* What is admitted is never taken back, and is of packets there are.
Admits == /\ excused \subseteq excused' /\ excused' \ excused \subseteq 1..captured'
          /\ suspect \subseteq suspect' /\ suspect' \ suspect \subseteq 1..captured'

\* A packet may be captured, and packets put at risk.
AtAgent == /\ captured' \in {captured, captured + 1} /\ captured' <= MaxPackets
           /\ Admits
           /\ UNCHANGED <<received, repeated>>

\* An upload is received.  Of what it repeats the agent has said so, and what is older
\* has been received or put at risk; of the upload itself it may now lose the answer.
Deliver(P) == /\ P \cap received \subseteq suspect
              /\ \A p \in P : 1..p \subseteq received \cup excused \cup P
              /\ received' = received \cup P
              /\ repeated' = repeated \cup (P \cap received)
              /\ suspect' \in {suspect, suspect \cup P}
              /\ UNCHANGED <<captured, excused>>

Next == AtAgent \/ \E P \in SUBSET (1..captured) : Deliver(P)

Spec == Init /\ [][Next]_vars
=============================================================================
