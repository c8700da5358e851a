---------------------------- MODULE MetricsStream ----------------------------
(***************************************************************************)
(* api_stream_metrics of dashboard/views/api_views.py: the server-sent     *)
(* events of one server process.                                           *)
(*                                                                         *)
(* The view takes a slot of _sse_semaphore without waiting, or answers     *)
(* 503.  The slot is given back by the finally of the generator that       *)
(* produces the events, which runs only if the response is iterated at     *)
(* least once.  The generator reads the metrics, counts the devices, sends *)
(* an event, sleeps, and looks at the stream's age before the next round.  *)
(***************************************************************************)
EXTENDS Integers, FiniteSets

CONSTANTS Viewer,          (* the clients that may ask for a stream            *)
          MaxConnections,  (* _SSE_MAX_CONNECTIONS                             *)
          MaxDuration      (* _SSE_MAX_DURATION_SECONDS, in rounds             *)

ASSUME StreamAssumption ==
       /\ IsFiniteSet(Viewer)
       /\ MaxConnections \in Nat /\ MaxDuration \in Nat

VARIABLES slots,    (* the semaphore's value                                   *)
          stream,   (* where the stream of each client is                      *)
          age,      (* the rounds it has slept                                 *)
          stalled,  (* clients that have stopped to read                       *)
          leaked    (* history, read by no action: slots never given back      *)

streamVars == <<slots, stream, age, stalled, leaked>>

\* Inside the try of event_stream.
Running == {"check", "reading", "sending", "sleeping"}
Started == Running \cup {"closing"}
Over == {"none", "abandoned"}
StreamPhases == Started \cup Over \cup {"opened"}

Streaming == {v \in Viewer : stream[v] \in Started \cup {"opened"}}

StreamInit == /\ slots = MaxConnections
              /\ stream = [v \in Viewer |-> "none"]
              /\ age = [v \in Viewer |-> 0]
              /\ stalled = {}
              /\ leaked = 0

Move(v, p) == stream' = [stream EXCEPT ![v] = p]

-----------------------------------------------------------------------------
OpenUnchecked(v) == /\ stream[v] \in Over
                    /\ slots' = IF slots > 0 THEN slots - 1 ELSE slots
                    /\ Move(v, "opened")
                    /\ UNCHANGED <<age, stalled, leaked>>

\* acquire(blocking=False) and the making of the response.  Without a slot the client
\* is answered 503 and may come again.
Open(v) == /\ stream[v] \in Over /\ slots > 0
           /\ slots' = slots - 1
           /\ Move(v, "opened")
           /\ UNCHANGED <<age, stalled, leaked>>

\* The client has gone, or the request is cancelled, before the server asks the
\* response for its first event: a generator that has not begun has no finally.
Abandon(v) == /\ stream[v] = "opened"
              /\ Move(v, "abandoned")
              /\ leaked' = leaked + 1
              /\ UNCHANGED <<slots, age, stalled>>

Start(v) == /\ stream[v] = "opened"
            /\ Move(v, "check")
            /\ UNCHANGED <<slots, age, stalled, leaked>>

CheckAge(v) == /\ stream[v] = "check"
               /\ Move(v, IF age[v] > MaxDuration THEN "closing" ELSE "reading")
               /\ UNCHANGED <<slots, age, stalled, leaked>>

\* The latest metrics and the number of active devices; an error is logged and the
\* round ends without an event.
Produce(v) == /\ stream[v] = "reading"
              /\ Move(v, "sending") \/ Move(v, "sleeping")
              /\ UNCHANGED <<slots, age, stalled, leaked>>

\* yield returns when the client has taken the event.
Take(v) == /\ stream[v] = "sending" /\ v \notin stalled
           /\ Move(v, "sleeping")
           /\ UNCHANGED <<slots, age, stalled, leaked>>

\* asyncio.sleep(1.0); the age is capped where CheckAge no longer tells.
Sleep(v) == /\ stream[v] = "sleeping"
            /\ Move(v, "check")
            /\ age' = [age EXCEPT ![v] = IF @ > MaxDuration THEN @ ELSE @ + 1]
            /\ UNCHANGED <<slots, stalled, leaked>>

LeaveUnnoticed(v) == /\ stream[v] \in {"reading", "sending", "sleeping"}
                     /\ Move(v, "abandoned")
                     /\ stalled' = stalled \ {v}
                     /\ leaked' = leaked + 1
                     /\ UNCHANGED <<slots, age>>

\* The server sees that the client has gone and ends the generator where it waits:
\* neither CancelledError nor GeneratorExit is an Exception.
Leave(v) == /\ stream[v] \in {"reading", "sending", "sleeping"}
            /\ Move(v, "closing")
            /\ stalled' = stalled \ {v}
            /\ UNCHANGED <<slots, age, leaked>>

\* finally: the slot goes back.
Close(v) == /\ stream[v] = "closing"
            /\ slots' = slots + 1
            /\ Move(v, "none")
            /\ age' = [age EXCEPT ![v] = 0]
            /\ UNCHANGED <<stalled, leaked>>

\* A client stops to read while an event waits to be sent, or reads on.
Stall(v) == /\ stream[v] = "sending"
            /\ stalled' = IF v \in stalled THEN stalled \ {v} ELSE stalled \cup {v}
            /\ UNCHANGED <<slots, stream, age, leaked>>

Go(v) == Start(v) \/ CheckAge(v) \/ Produce(v) \/ Take(v) \/ Sleep(v) \/ Close(v)

Behave(v) == Abandon(v) \/ Leave(v) \/ Stall(v)

-----------------------------------------------------------------------------
\* The types of the variables.
StreamTypeOK == /\ slots \in Nat
                /\ stream \in [Viewer -> StreamPhases]
                /\ age \in [Viewer -> 0..(MaxDuration + 1)]
                /\ stalled \subseteq Viewer
                /\ leaked \in Nat

\* The slots behave as the permits of a semaphore that a started stream gives back
\* and a response that is never iterated loses.
Slots == INSTANCE Semaphore WITH Client <- Viewer, Permits <- MaxConnections,
                                 free <- slots, held <- Streaming, lost <- leaked

StreamsImplementSemaphore == Slots!Spec

\* A stream that was begun gives its slot back, however long its client stays,
\* unless the client stops to read: the age is looked at between two events only.
SlotComesBack == \A v \in Viewer : stream[v] \in Started ~> stream[v] = "none" \/ v \in stalled
=============================================================================
