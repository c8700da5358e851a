---------------------------- MODULE Enforcement ----------------------------
(***************************************************************************)
(* How a flow comes to be blocked and what the dashboard says of it: the   *)
(* restrictions the server derives from the rows of FlowRecord             *)
(* (api_views.py), their way to one agent's firewall in the answer to an   *)
(* upload, the acknowledgement on its way back in the next one, and the    *)
(* alert of the decision support engine (dse.py) that reads it.            *)
(*                                                                         *)
(* The parts with modules of their own are taken here at the level of what *)
(* they promise: the firewall carries out what it is told (FlowFirewall    *)
(* has its failures), a packet that a worker takes up is counted once      *)
(* (FlowBuilder), a queued packet may be lost (TelemetryPool).             *)
(*                                                                         *)
(* Left out, each of which only removes behaviours from those here: the    *)
(* limits of the lists (30 rules, 100 reported rules, 10 flagged flows),   *)
(* the order in which they are cut, and the comparison of the event's id   *)
(* in the alert, since there is one event.                                 *)
(*                                                                         *)
(* A tick of the clock stands for a minute or so.  No request or answer is *)
(* under way for more than Delay ticks.  Assumed, since the code sets no   *)
(* limit to it: the worker threads need less than a tick for what is       *)
(* queued, their retries included, and so does the expiry thread.          *)
(***************************************************************************)
EXTENDS Integers, FiniteSets

CONSTANTS Flow,         (* outbound flows of the agent's host to private hosts *)
          DemoFlow,     (* those to the receiver of the demo event             *)
          Modes,        (* settings a server can run with, see mode            *)
          MinPackets,   (* packet_count__gte, 5                                *)
          Window,       (* how long a flow stays active, 30 s                  *)
          Recent,       (* how long a row counts as recent, 60 s               *)
          TTL,          (* lifetime of a rule without refresh, 120 s           *)
          Delay,        (* timeout of a request, 10 s                          *)
          None

Flags == {"flow", "demo", "live"}   (* NETINSIGHT_ENABLE_*_ENFORCEMENT          *)

ASSUME EnforcementAssumption ==
       /\ DemoFlow \subseteq Flow /\ Modes \subseteq SUBSET Flags
       /\ MinPackets \in Nat \ {0} /\ TTL \in Nat \ {0}
       /\ Window \in Nat /\ Recent \in Nat /\ Delay \in Nat

VARIABLES mode,      (* the settings of the running server                     *)
          rows,      (* of each flow, its rows that are recent                 *)
          pending,   (* packets queued for the worker threads                  *)
          reported,  (* Agent.active_flow_blocks in the database               *)
          pc,        (* where the agent's loop is                              *)
          enabled,   (* the agent's opt-in                                     *)
          event,     (* a demo event is announced in the agent's uploads       *)
          os, left,  (* the rules in the firewall and the time they have left  *)
          req,       (* the agent's request, then the answer to it             *)
          late,      (* a request its agent no longer waits for                *)
          idle,      (* history, read by no action: how long the server has    *)
                     (* had no reason to block each flow                       *)
          open       (* history, likewise: how long it has not been blocked    *)

agent == <<pc, enabled, event, os, left>>
server == <<mode, rows, pending, reported>>
vars == <<server, agent, req, late, idle, open>>

Row == [age : 0..Recent, count : 1..MinPackets, strong : BOOLEAN, demo : BOOLEAN]
Packet == [flow : Flow, demo : BOOLEAN]
Request == [report : SUBSET Flow, packets : SUBSET Flow, event : BOOLEAN, age : 0..Delay]
Answer == [rules : SUBSET Flow, age : 0..Delay]

ASSUME NoneAssumption == None \notin Request \cup Answer

Untracked == -1
Tracked == {f \in Flow : left[f] # Untracked}
LongIdle == TTL + Delay + 1      (* where the history stops to count            *)
LongOpen == Recent + Delay + 1
LeastOf(a, b) == IF a < b THEN a ELSE b

-----------------------------------------------------------------------------
(* The history.                                                             *)

\* XGBoost was sure of a threat, and such a flow may be blocked.
Evidence(f, rs, m) == \E r \in rs[f] : /\ r.strong /\ r.count = MinPackets
                                       /\ "flow" \in m
                                       /\ "live" \in m \/ ("demo" \in m /\ f \in DemoFlow /\ r.demo)

Later(passed) ==
  /\ idle' = [f \in Flow |-> IF Evidence(f, rows', mode') THEN 0 ELSE LeastOf(idle[f] + passed, LongIdle)]
  /\ open' = [f \in Flow |-> IF f \in os' THEN 0 ELSE LeastOf(open[f] + passed, LongOpen)]

-----------------------------------------------------------------------------
Init == /\ mode \in Modes
        /\ rows = [f \in Flow |-> {}] /\ pending = {} /\ reported = {}
        /\ pc = "off" /\ enabled = FALSE /\ event = FALSE
        /\ os = {} /\ left = [f \in Flow |-> Untracked]
        /\ req = None /\ late = None
        /\ idle = [f \in Flow |-> LongIdle] /\ open = [f \in Flow |-> LongOpen]

\* WindowsFlowFirewall(): the rules of an earlier process are cleared.
AgentStart == /\ pc = "off" /\ pc' = "loop"
              /\ enabled' \in BOOLEAN
              /\ os' = {}
              /\ UNCHANGED <<server, event, left, req, late>>
              /\ Later(0)

\* What the agent has sent may still be handled.
Abandon == /\ late' \in {late} \cup IF pc = "sent" THEN {req} ELSE {}
           /\ req' = None

\* handle_shutdown removes the rules, a kill leaves them.
AgentStops == /\ pc # "off" /\ pc' = "off"
              /\ os' \in {{}, os}
              /\ left' = [f \in Flow |-> Untracked]
              /\ enabled' = FALSE
              /\ Abandon
              /\ UNCHANGED <<server, event>>
              /\ Later(0)

\* The marker of a demo event is set, cleared or expires.
Announce == /\ pc = "loop" /\ event' = ~event
            /\ UNCHANGED <<server, pc, enabled, os, left, req, late>>
            /\ Later(0)

\* The server is started anew, perhaps with other settings; what was queued or
\* under way is gone.
ServerRestarts == /\ mode' \in Modes
                  /\ pending' = {} /\ late' = None
                  /\ IF pc \in {"sent", "handled"} THEN pc' = "loop" /\ req' = None
                                                   ELSE UNCHANGED <<pc, req>>
                  /\ UNCHANGED <<rows, reported, enabled, event, os, left>>
                  /\ Later(0)

-----------------------------------------------------------------------------
(* One turn of the agent's loop.                                            *)

\* The upload carries the active rules and packets, some from the offline file.
Upload(P) == /\ pc = "loop" /\ pc' = "sent"
             /\ req' = [report |-> Tracked, packets |-> P, event |-> event, age |-> 0]
             /\ UNCHANGED <<server, enabled, event, os, left, late>>
             /\ Later(0)

\* _validated_demo_event
Validated(e) == e /\ "demo" \in mode

\* While a demo event is on, its packets alone go on, with its mark.
Tagged(u) == IF Validated(u.event) THEN {[flow |-> f, demo |-> TRUE] : f \in u.packets \cap DemoFlow}
                                   ELSE {[flow |-> f, demo |-> FALSE] : f \in u.packets}

ReportKept(u) == /\ reported' = reported \cup u.report
                 /\ pending' = pending \cup Tagged(u)

\* handle_telemetry_ingestion: the whole row of the agent is saved, and the packets
\* are queued unless the pool is full; when the row cannot be saved, neither.
Ingest(u) == \/ /\ reported' = u.report
                /\ pending' \in {pending, pending \cup Tagged(u)}
             \/ UNCHANGED <<reported, pending>>

Receive == /\ pc = "sent" /\ pc' = "handled"
           /\ Ingest(req)
           /\ UNCHANGED <<mode, rows, enabled, event, os, left, req, late>>
           /\ Later(0)

Sure(r) == r.strong /\ r.count >= MinPackets

\* _get_flow_restrictions, of rows that are recent.
Listed(e) == {f \in Flow : \E r \in rows[f] :
                             /\ Sure(r) /\ "flow" \in mode
                             /\ IF e THEN f \in DemoFlow /\ r.demo ELSE "live" \in mode}

Respond == /\ pc = "handled" /\ pc' = "answered"
           /\ req' = [rules |-> Listed(Validated(req.event)), age |-> req.age]
           /\ UNCHANGED <<server, enabled, event, os, left, late>>
           /\ Later(0)

\* No answer in time: the agent goes on, and the server may still handle the request.
GiveUp == /\ pc \in {"sent", "handled", "answered"} /\ pc' = "loop"
          /\ Abandon
          /\ UNCHANGED <<server, enabled, event, os, left>>
          /\ Later(0)

LateReceive == /\ late # None /\ late' = None
               /\ Ingest(late)
               /\ UNCHANGED <<mode, rows, agent, req>>
               /\ Later(0)

SyncAddsOnly == /\ pc = "answered" /\ pc' = "loop" /\ req' = None
                /\ IF enabled THEN /\ os' = os \cup req.rules
                                   /\ left' = [f \in Flow |-> IF f \in os' THEN TTL ELSE Untracked]
                              ELSE UNCHANGED <<os, left>>
                /\ UNCHANGED <<server, enabled, event, late>>
                /\ Later(0)

\* WindowsFlowFirewall.sync: rules not listed go, those listed start anew.
Sync == /\ pc = "answered" /\ pc' = "loop" /\ req' = None
        /\ IF enabled THEN /\ os' = (os \ Tracked) \cup req.rules
                           /\ left' = [f \in Flow |-> IF f \in req.rules THEN TTL ELSE Untracked]
                      ELSE UNCHANGED <<os, left>>
        /\ UNCHANGED <<server, enabled, event, late>>
        /\ Later(0)

\* _expiry_loop
Expire(f) == /\ left[f] = 0
             /\ os' = os \ {f}
             /\ left' = [left EXCEPT ![f] = Untracked]
             /\ UNCHANGED <<server, pc, enabled, event, req, late>>
             /\ Later(0)

-----------------------------------------------------------------------------
NewRow(demo) == [age |-> 0, count |-> 1, strong |-> FALSE, demo |-> demo]
Counted(r, demo) == [r EXCEPT !.age = 0, !.count = LeastOf(@ + 1, MinPackets), !.demo = @ \/ demo]

\* The newest row of the flow, if it is active.
Active(f) == {r \in rows[f] : r.age <= Window /\ \A s \in rows[f] : r.age <= s.age}

\* A worker thread counts a packet in the flow's active row, or in a new one; from
\* MinPackets on XGBoost may call the flow a threat it is sure of, and any verdict
\* may be weaker than the one before.
Work(p) ==
  /\ p \in pending /\ pending' = pending \ {p}
  /\ \E r \in IF Active(p.flow) = {} THEN {NewRow(p.demo)}
              ELSE {Counted(a, p.demo) : a \in Active(p.flow)} :
       \E v \in {FALSE} \cup {r.count >= MinPackets} :
         rows' = [rows EXCEPT ![p.flow] = (@ \ Active(p.flow)) \cup {[r EXCEPT !.strong = v]}]
  /\ UNCHANGED <<mode, reported, agent, req, late>>
  /\ Later(0)

\* The clock.
Older(u) == IF u = None THEN None ELSE [u EXCEPT !.age = @ + 1]

Tick == /\ pending = {}
        /\ \A f \in Flow : left[f] # 0
        /\ \A u \in {req, late} \ {None} : u.age < Delay
        /\ rows' = [f \in Flow |-> {[r EXCEPT !.age = @ + 1] : r \in {r \in rows[f] : r.age < Recent}}]
        /\ left' = [f \in Flow |-> IF left[f] > 0 THEN left[f] - 1 ELSE left[f]]
        /\ req' = Older(req) /\ late' = Older(late)
        /\ UNCHANGED <<mode, pending, reported, pc, enabled, event, os>>
        /\ Later(1)

Next == \/ AgentStart \/ AgentStops \/ Announce \/ ServerRestarts
        \/ (\E P \in SUBSET Flow : Upload(P))
        \/ Receive \/ Respond \/ GiveUp \/ LateReceive \/ Sync
        \/ (\E f \in Flow : Expire(f))
        \/ (\E p \in Packet : Work(p))
        \/ Tick

Spec == Init /\ [][Next]_vars

-----------------------------------------------------------------------------
\* dse.py: the flow is flagged, and the agent's last report has a rule for it.
Flagged(f) == \E r \in rows[f] : r.strong
Claimed(f) == "flow" \in mode /\ Flagged(f) /\ f \in reported

\* The types of the variables.
TypeOK == /\ mode \in Modes
          /\ rows \in [Flow -> SUBSET Row]
          /\ pending \subseteq Packet
          /\ reported \subseteq Flow
          /\ pc \in {"off", "loop", "sent", "handled", "answered"}
          /\ enabled \in BOOLEAN /\ event \in BOOLEAN
          /\ os \subseteq Flow /\ left \in [Flow -> Untracked..TTL]
          /\ pc = "answered" => req \in Answer
          /\ pc \in {"sent", "handled"} => req \in Request
          /\ pc \in {"off", "loop"} => req = None
          /\ late \in Request \cup {None}
          /\ idle \in [Flow -> 0..LongIdle] /\ open \in [Flow -> 0..LongOpen]

\* While an agent runs, it blocks no flow for longer than a rule and an answer last
\* after the server has lost the reason to: rows that name a sure threat of enough
\* packets, in a mode that allows to block the flow.
BlockJustified == pc # "off" => \A f \in os : idle[f] <= TTL + Delay

\* The dashboard calls no flow blocked that has not been for longer than a row stays
\* recent and a request lasts.  A packet that waited longer for a worker than a tick
\* would make a row young, and the claim last, by as much again.
ClaimFresh == \A f \in Flow : Claimed(f) => open[f] <= Recent + Delay

-----------------------------------------------------------------------------
(* The inductive invariant behind BlockJustified and ClaimFresh.             *)

\* A running agent knows the rules in its firewall, a stopped one knows none.
FirewallInv == IF pc = "off" THEN Tracked = {} ELSE os = Tracked

\* Where the time goes for which a flow is blocked without a reason: the answer took
\* some of it, the rule has used up some of its life.
IdleInv == /\ \A f \in Flow : Evidence(f, rows, mode) => idle[f] = 0
           /\ pc = "answered" => \A f \in req.rules : idle[f] <= req.age
           /\ \A f \in Tracked : idle[f] + left[f] <= TTL + Delay

\* And for which it is called blocked and is not: the report was under way, the row
\* has aged since the upload of that report or of a later one made it young.
OpenInv == /\ \A f \in os : open[f] = 0
           /\ pc \in {"sent", "handled"} => \A f \in req.report : open[f] <= req.age
           /\ late # None => \A f \in late.report : open[f] <= late.age
           /\ \A f \in reported : /\ (\E p \in pending : p.flow = f) => open[f] <= Delay
                                  /\ \A r \in rows[f] : open[f] <= r.age + Delay

EInv == TypeOK /\ FirewallInv /\ IdleInv /\ OpenInv
=============================================================================
