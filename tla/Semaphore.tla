------------------------------ MODULE Semaphore ------------------------------
(***************************************************************************)
(* What threading.BoundedSemaphore promises the code that admits work by   *)
(* acquire(blocking=False): the uploads of telemetry_handler.py and the    *)
(* streams of api_views.py.  A permit is free, or held by one client, or   *)
(* lost with a client that ended without giving it back.                   *)
(***************************************************************************)
EXTENDS Integers

CONSTANTS Client, Permits

VARIABLES free, held, lost

vars == <<free, held, lost>>

Init == free = Permits /\ held = {} /\ lost = 0

Acquire(c) == /\ free > 0 /\ c \notin held
              /\ free' = free - 1
              /\ held' = held \cup {c}
              /\ UNCHANGED lost

Release(c) == /\ c \in held
              /\ free' = free + 1
              /\ held' = held \ {c}
              /\ UNCHANGED lost

Lose(c) == /\ c \in held
           /\ held' = held \ {c}
           /\ lost' = lost + 1
           /\ UNCHANGED free

Next == \E c \in Client : Acquire(c) \/ Release(c) \/ Lose(c)

Spec == Init /\ [][Next]_vars
=============================================================================
