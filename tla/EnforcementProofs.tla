--------------------------- MODULE EnforcementProofs ---------------------------
(* How long a block outlives its reason, and a claim its block, for any flows, *)
(* settings and time limits.                                                   *)
EXTENDS Enforcement, TLAPS

LEMMA Limits == /\ MinPackets \in Nat \ {0} /\ TTL \in Nat \ {0}
                /\ Window \in Nat /\ Recent \in Nat /\ Delay \in Nat
                /\ LongIdle \in Nat /\ LongOpen \in Nat /\ DemoFlow \subseteq Flow
BY EnforcementAssumption DEF LongIdle, LongOpen

\* The history grows with the clock and is set back where there is a reason or a block.
LEMMA LaterBounds ==
  ASSUME TypeOK, NEW d \in {0, 1}, Later(d)
  PROVE  /\ idle' \in [Flow -> 0..LongIdle] /\ open' \in [Flow -> 0..LongOpen]
         /\ \A f \in Flow : /\ idle'[f] <= idle[f] + d
                            /\ Evidence(f, rows', mode') => idle'[f] = 0
                            /\ open'[f] <= open[f] + d
                            /\ f \in os' => open'[f] = 0
<1>1. \A f \in Flow : idle[f] \in 0..LongIdle /\ open[f] \in 0..LongOpen
  BY DEF TypeOK
<1>2. \A f \in Flow : /\ LeastOf(idle[f] + d, LongIdle) \in 0..LongIdle
                      /\ LeastOf(idle[f] + d, LongIdle) <= idle[f] + d
                      /\ LeastOf(open[f] + d, LongOpen) \in 0..LongOpen
                      /\ LeastOf(open[f] + d, LongOpen) <= open[f] + d
  BY <1>1, Limits DEF LeastOf
<1>3. /\ idle' = [f \in Flow |-> IF Evidence(f, rows', mode') THEN 0 ELSE LeastOf(idle[f] + d, LongIdle)]
      /\ open' = [f \in Flow |-> IF f \in os' THEN 0 ELSE LeastOf(open[f] + d, LongOpen)]
  BY DEF Later
<1> QED
  BY <1>1, <1>2, <1>3, Limits

\* Nothing is recent, blocked or under way.
LEMMA InitEInv == Init => EInv
<1> SUFFICES ASSUME Init PROVE EInv
  OBVIOUS
<1> USE Limits DEF Init
<1>1. TypeOK
  <2>1. left \in [Flow -> Untracked..TTL]
    BY DEF Untracked
  <2>2. rows \in [Flow -> SUBSET Row] /\ pending \subseteq Packet /\ reported \subseteq Flow
    OBVIOUS
  <2>3. idle \in [Flow -> 0..LongIdle] /\ open \in [Flow -> 0..LongOpen]
    OBVIOUS
  <2> QED
    BY <2>1, <2>2, <2>3 DEF TypeOK
<1>2. FirewallInv
  BY DEF FirewallInv, Tracked
<1>3. IdleInv /\ OpenInv
  BY DEF IdleInv, OpenInv, Evidence, Tracked
<1> QED
  BY <1>1, <1>2, <1>3 DEF EInv

-----------------------------------------------------------------------------
(* Types.                                                                      *)

\* The rules in an answer are flows.
LEMMA ListedType == ASSUME NEW e PROVE Listed(e) \subseteq Flow
BY DEF Listed

LEMMA TaggedType == ASSUME NEW u \in Request PROVE Tagged(u) \subseteq Packet
<1>1. u.packets \subseteq Flow
  BY DEF Request
<1>2. ASSUME NEW f \in u.packets, NEW b \in BOOLEAN PROVE [flow |-> f, demo |-> b] \in Packet
  BY <1>1 DEF Packet
<1> QED
  BY <1>2 DEF Tagged

\* The rows a worker leaves.
LEMMA WorkRows ==
  ASSUME TypeOK, NEW p \in Packet, Work(p)
  PROVE  /\ rows' \in [Flow -> SUBSET Row]
         /\ \A f \in Flow \ {p.flow} : rows'[f] = rows[f]
         /\ \A r \in rows'[p.flow] : r \in rows[p.flow] \/ r.age = 0
<1>1. p.flow \in Flow /\ p.demo \in BOOLEAN
  BY DEF Packet
<1>2. Active(p.flow) \subseteq rows[p.flow] /\ rows[p.flow] \subseteq Row
  BY <1>1 DEF Active, TypeOK
<1>3. PICK r \in IF Active(p.flow) = {} THEN {NewRow(p.demo)}
                 ELSE {Counted(a, p.demo) : a \in Active(p.flow)} :
           \E v \in {FALSE} \cup {r.count >= MinPackets} :
             rows' = [rows EXCEPT ![p.flow] = (@ \ Active(p.flow)) \cup {[r EXCEPT !.strong = v]}]
  BY DEF Work
<1>4. NewRow(p.demo) \in Row /\ NewRow(p.demo).age = 0
  BY <1>1, Limits DEF NewRow, Row
<1>5. ASSUME NEW a \in Row PROVE Counted(a, p.demo) \in Row /\ Counted(a, p.demo).age = 0
  <2>1. LeastOf(a.count + 1, MinPackets) \in 1..MinPackets
    BY Limits DEF Row, LeastOf
  <2>2. (a.demo \/ p.demo) \in BOOLEAN
    BY <1>1
  <2>3. ASSUME NEW n \in 1..MinPackets, NEW b \in BOOLEAN,
               NEW c, c = [a EXCEPT !.age = 0, !.count = n, !.demo = b]
        PROVE  c \in Row /\ c.age = 0
    <3>1. /\ [a EXCEPT !.age = 0] \in Row /\ [a EXCEPT !.age = 0].age = 0
          /\ \A e \in Row : [e EXCEPT !.count = n] \in Row /\ [e EXCEPT !.count = n].age = e.age
          /\ \A e \in Row : [e EXCEPT !.demo = b] \in Row /\ [e EXCEPT !.demo = b].age = e.age
      BY Limits DEF Row
    <3>2. c = [[[a EXCEPT !.age = 0] EXCEPT !.count = n] EXCEPT !.demo = b]
      BY <2>3
    <3> QED
      BY <3>1, <3>2
  <2>4. Counted(a, p.demo) = [a EXCEPT !.age = 0, !.count = LeastOf(a.count + 1, MinPackets),
                                       !.demo = (a.demo \/ p.demo)]
    BY DEF Counted, Row
  <2> QED
    BY <2>1, <2>2, <2>3, <2>4
<1>6. r \in Row /\ r.age = 0
  BY <1>2, <1>3, <1>4, <1>5
<1>7. PICK v \in BOOLEAN :
        rows' = [rows EXCEPT ![p.flow] = (@ \ Active(p.flow)) \cup {[r EXCEPT !.strong = v]}]
  <2>1. (r.count >= MinPackets) \in BOOLEAN
    OBVIOUS
  <2> QED
    BY <1>3, <2>1
<1>8. [r EXCEPT !.strong = v] \in Row /\ [r EXCEPT !.strong = v].age = 0
  BY <1>6 DEF Row
<1> QED
  BY <1>1, <1>2, <1>7, <1>8 DEF TypeOK

\* The rows a minute later.
LEMMA OlderRows ==
  ASSUME TypeOK, Tick
  PROVE  /\ rows' \in [Flow -> SUBSET Row]
         /\ \A f \in Flow : \A r \in rows'[f] : \E s \in rows[f] : r.age = s.age + 1
<1>1. rows' = [f \in Flow |-> {[r EXCEPT !.age = @ + 1] : r \in {r \in rows[f] : r.age < Recent}}]
  BY DEF Tick
<1>2. ASSUME NEW r \in Row, r.age < Recent
      PROVE  [r EXCEPT !.age = @ + 1] \in Row /\ [r EXCEPT !.age = @ + 1].age = r.age + 1
  BY <1>2, Limits DEF Row
<1>3. \A f \in Flow : \A r \in rows[f] : r \in Row
  BY DEF TypeOK
<1> QED
  BY <1>1, <1>2, <1>3

\* A request or an answer a minute later.
LEMMA OlderType ==
  ASSUME NEW u \in Request \cup Answer, u.age < Delay
  PROVE  /\ u # None
         /\ Older(u).age = u.age + 1
         /\ u \in Request => Older(u) \in Request /\ Older(u).report = u.report
         /\ u \in Answer => Older(u) \in Answer /\ Older(u).rules = u.rules
<1>1. u # None
  BY NoneAssumption
<1>2. Older(u) = [u EXCEPT !.age = @ + 1]
  BY <1>1 DEF Older
<1>3. CASE u \in Request
  <2>1. Older(u) \in Request /\ Older(u).report = u.report /\ Older(u).age = u.age + 1
    BY <1>2, <1>3, Limits DEF Request
  <2>2. u \notin Answer
    BY <1>3 DEF Request, Answer
  <2> QED
    BY <1>1, <2>1, <2>2
<1>4. CASE u \in Answer
  <2>1. Older(u) \in Answer /\ Older(u).rules = u.rules /\ Older(u).age = u.age + 1
    BY <1>2, <1>4, Limits DEF Answer
  <2>2. u \notin Request
    BY <1>4 DEF Request, Answer
  <2> QED
    BY <1>1, <2>1, <2>2
<1> QED
  BY <1>3, <1>4
\* A step of the agent, of the server or between them: the rest of it is Later.
LEMMA TypeStep ==
  ASSUME EInv, Next
  PROVE  TypeOK'
<1> USE Limits DEF EInv
<1>1. /\ idle' \in [Flow -> 0..LongIdle] /\ open' \in [Flow -> 0..LongOpen]
  <2>1. Later(0) \/ Later(1)
    BY DEF Next, AgentStart, AgentStops, Announce, ServerRestarts, Upload, Receive, Respond,
           GiveUp, LateReceive, Sync, Expire, Work, Tick
  <2> QED
    BY <2>1, LaterBounds
<1>2. CASE AgentStart
  BY <1>1, <1>2 DEF AgentStart, TypeOK, server
<1>3. CASE AgentStops
  <2>1. late' \in Request \cup {None} /\ req' = None
    BY <1>3 DEF AgentStops, Abandon, TypeOK
  <2>2. os' \subseteq Flow /\ left' \in [Flow -> Untracked..TTL] /\ pc' = "off" /\ enabled' \in BOOLEAN
    <3>1. Untracked \in Untracked..TTL
      BY DEF Untracked
    <3>2. os' = {} \/ os' = os
      BY <1>3 DEF AgentStops
    <3> QED
      BY <1>3, <3>1, <3>2 DEF AgentStops, TypeOK
  <2> QED
    BY <1>1, <1>3, <2>1, <2>2 DEF AgentStops, TypeOK, server
<1>4. CASE Announce
  BY <1>1, <1>4 DEF Announce, TypeOK, server
<1>5. CASE ServerRestarts
  BY <1>1, <1>5 DEF ServerRestarts, TypeOK
<1>6. ASSUME NEW P \in SUBSET Flow, Upload(P) PROVE TypeOK'
  <2>1. req' \in Request /\ pc' = "sent"
    BY <1>6 DEF Upload, Request, TypeOK, Tracked
  <2> QED
    BY <1>1, <1>6, <2>1 DEF Upload, TypeOK, server
<1>7. ASSUME NEW u \in Request, Ingest(u) PROVE pending' \subseteq Packet /\ reported' \subseteq Flow
  BY <1>7, TaggedType DEF Ingest, TypeOK, Request
<1>8. CASE Receive
  BY <1>1, <1>7, <1>8 DEF Receive, TypeOK
<1>9. CASE LateReceive
  BY <1>1, <1>7, <1>9 DEF LateReceive, TypeOK, agent
<1>10. CASE Respond
  <2>1. req' \in Answer /\ pc' = "answered"
    BY <1>10, ListedType DEF Respond, TypeOK, Request, Answer
  <2> QED
    BY <1>1, <1>10, <2>1 DEF Respond, TypeOK, server
<1>11. CASE GiveUp
  BY <1>1, <1>11 DEF GiveUp, Abandon, TypeOK, server
<1>12. CASE Sync
  <2>1. pc = "answered" /\ req.rules \subseteq Flow
    BY <1>12 DEF Sync, TypeOK, Answer
  <2>2. os' \subseteq Flow /\ left' \in [Flow -> Untracked..TTL]
    BY <1>12, <2>1 DEF Sync, TypeOK, Untracked
  <2> QED
    BY <1>1, <1>12, <2>2 DEF Sync, TypeOK, server
<1>13. ASSUME NEW f \in Flow, Expire(f) PROVE TypeOK'
  BY <1>1, <1>13 DEF Expire, TypeOK, server, Untracked
<1>14. ASSUME NEW p \in Packet, Work(p) PROVE TypeOK'
  BY <1>1, <1>14, WorkRows DEF Work, TypeOK, agent
<1>15. CASE Tick
  <2>1. left' \in [Flow -> Untracked..TTL]
    BY <1>15 DEF Tick, TypeOK, Untracked
  <2>2. /\ pc = "answered" => req' \in Answer
        /\ pc \in {"sent", "handled"} => req' \in Request
    BY <1>15, OlderType, NoneAssumption DEF Tick, TypeOK
  <2>3. (pc \in {"off", "loop"} => req' = None) /\ late' \in Request \cup {None}
    BY <1>15, OlderType DEF Tick, TypeOK, Older
  <2> QED
    BY <1>1, <1>15, <2>1, <2>2, <2>3, OlderRows DEF Tick, TypeOK
<1> QED
  BY <1>2, <1>3, <1>4, <1>5, <1>6, <1>8, <1>9, <1>10, <1>11, <1>12, <1>13, <1>14, <1>15 DEF Next

-----------------------------------------------------------------------------
(* The rules, the reasons and the reports.                                     *)

LEMMA FirewallStep ==
  ASSUME EInv, Next
  PROVE  FirewallInv'
<1> USE DEF EInv, FirewallInv
<1>1. TTL # Untracked /\ \A f \in Flow : left[f] \in Int
  BY Limits DEF TypeOK, Untracked
<1>2. CASE AgentStart
  BY <1>2 DEF AgentStart, Tracked
<1>3. CASE AgentStops
  BY <1>3 DEF AgentStops, Tracked
<1>4. CASE Sync
  <2>1. req.rules \subseteq Flow /\ os = Tracked
    BY <1>4 DEF Sync, TypeOK, Answer
  <2> QED
    BY <1>1, <1>4, <2>1 DEF Sync, Tracked
<1>5. ASSUME NEW f \in Flow, Expire(f) PROVE FirewallInv'
  <2>1. f \in Tracked /\ Tracked' = Tracked \ {f}
    BY <1>5 DEF Expire, Tracked, Untracked, TypeOK
  <2> QED
    BY <1>5, <2>1 DEF Expire
<1>6. CASE Tick
  <2>1. Tracked' = Tracked
    BY <1>1, <1>6 DEF Tick, Tracked, Untracked, TypeOK
  <2> QED
    BY <1>6, <2>1 DEF Tick
<1>7. CASE Announce \/ ServerRestarts \/ (\E P \in SUBSET Flow : Upload(P)) \/ Receive \/ Respond
           \/ GiveUp \/ LateReceive \/ (\E p \in Packet : Work(p))
  <2>1. UNCHANGED <<os, left>> /\ (pc' = "off" <=> pc = "off")
    BY <1>7 DEF Announce, ServerRestarts, Upload, Receive, Respond, GiveUp, LateReceive, Work, agent
  <2> QED
    BY <2>1 DEF Tracked
<1> QED
  BY <1>2, <1>3, <1>4, <1>5, <1>6, <1>7 DEF Next

\* As long as no answer comes and no rule is refreshed, what is said of both stays so.
LEMMA IdleKept ==
  ASSUME EInv, Later(0),
         pc' = "answered" => pc = "answered" /\ req' = req,
         \A f \in Flow : left'[f] = left[f] \/ left'[f] = Untracked
  PROVE  IdleInv'
<1>1. \A f \in Flow : /\ idle'[f] <= idle[f] /\ idle[f] \in Nat /\ idle'[f] \in Nat
                      /\ Evidence(f, rows', mode') => idle'[f] = 0
  BY LaterBounds, Limits DEF EInv, TypeOK
<1>2. pc = "answered" => req.age \in Nat /\ req.rules \subseteq Flow
  BY Limits DEF EInv, TypeOK, Answer
<1>3. \A f \in Flow : left[f] \in Int
  BY Limits DEF EInv, TypeOK, Untracked
<1> QED
  BY <1>1, <1>2, <1>3, Limits DEF EInv, IdleInv, Tracked

LEMMA IdleStep ==
  ASSUME EInv, Next, TypeOK'
  PROVE  IdleInv'
<1> USE DEF EInv
<1>1. CASE Respond
  <2>1. \A f \in Listed(Validated(req.event)) : f \in Flow /\ Evidence(f, rows, mode)
    <3>1. \A f \in Flow : \A r \in rows[f] : r.count \in 1..MinPackets
      BY DEF TypeOK, Row
    <3> QED
      BY <3>1, Limits DEF Listed, Validated, Sure, Evidence
  <2>2. /\ \A f \in Flow : idle'[f] <= idle[f] /\ idle[f] \in Nat /\ idle'[f] \in Nat
        /\ \A f \in Flow : Evidence(f, rows', mode') => idle'[f] = 0
    BY <1>1, LaterBounds, Limits DEF Respond, TypeOK
  <2>3. pc' = "answered" /\ req'.rules = Listed(Validated(req.event)) /\ req'.age \in Nat
    BY <1>1, Limits DEF Respond, TypeOK, Answer
  <2>4. \A f \in req'.rules : idle'[f] <= req'.age
    BY <2>1, <2>2, <2>3 DEF IdleInv
  <2>5. left' = left /\ \A f \in Flow : left[f] \in Int
    BY <1>1, Limits DEF Respond, TypeOK, Untracked
  <2> QED
    BY <2>2, <2>4, <2>5, Limits DEF IdleInv, Tracked
<1>2. CASE Sync
  <2>1. \A f \in Flow : /\ idle'[f] <= idle[f] /\ idle[f] \in Nat /\ idle'[f] \in Nat
                        /\ Evidence(f, rows', mode') => idle'[f] = 0
    BY <1>2, LaterBounds, Limits DEF Sync, TypeOK
  <2>2. \A f \in req.rules : f \in Flow /\ idle[f] <= Delay
    BY <1>2, Limits DEF Sync, TypeOK, Answer, IdleInv
  <2>3. CASE enabled
    <3>1. \A f \in Tracked' : f \in req.rules /\ left'[f] = TTL
      BY <1>2, <2>3 DEF Sync, Tracked
    <3> QED
      BY <1>2, <2>1, <2>2, <3>1, Limits DEF Sync, IdleInv
  <2>4. CASE ~enabled
    BY <1>2, <2>4, IdleKept DEF Sync
  <2> QED
    BY <2>3, <2>4
<1>3. CASE Tick
  <2>1. \A f \in Flow : /\ idle'[f] <= idle[f] + 1 /\ idle[f] \in Nat /\ idle'[f] \in Nat
                        /\ Evidence(f, rows', mode') => idle'[f] = 0
    <3>1. TypeOK /\ Later(1)
      BY <1>3 DEF Tick
    <3>2. /\ idle' \in [Flow -> 0..LongIdle]
          /\ \A f \in Flow : idle'[f] <= idle[f] + 1 /\ (Evidence(f, rows', mode') => idle'[f] = 0)
      BY <3>1, LaterBounds
    <3> QED
      BY <3>1, <3>2, Limits DEF TypeOK
  <2>2. \A f \in Tracked' : f \in Tracked /\ left'[f] = left[f] - 1 /\ left[f] \in Nat
    BY <1>3, Limits DEF Tick, Tracked, TypeOK, Untracked
  <2>3. \A f \in Tracked' : idle'[f] + left'[f] <= TTL + Delay
    BY <2>1, <2>2, Limits DEF IdleInv, Tracked
  <2>4. ASSUME pc = "answered"
        PROVE  /\ req'.rules = req.rules /\ req.rules \subseteq Flow
               /\ req'.age = req.age + 1 /\ req.age \in Nat
    BY <1>3, <2>4, OlderType, NoneAssumption, Limits DEF Tick, TypeOK, Answer
  <2>5. pc' = "answered" => \A f \in req'.rules : idle'[f] <= req'.age
    <3> SUFFICES ASSUME pc' = "answered", NEW f \in req'.rules PROVE idle'[f] <= req'.age
      OBVIOUS
    <3>1. pc = "answered"
      BY <1>3 DEF Tick
    <3>2. f \in Flow /\ idle[f] <= req.age
      BY <2>4, <3>1 DEF IdleInv
    <3> QED
      BY <2>1, <2>4, <3>1, <3>2
  <2> QED
    BY <2>1, <2>3, <2>5 DEF IdleInv
<1>4. CASE AgentStart \/ AgentStops \/ Announce \/ ServerRestarts \/ (\E P \in SUBSET Flow : Upload(P))
           \/ Receive \/ GiveUp \/ LateReceive \/ (\E f \in Flow : Expire(f)) \/ (\E p \in Packet : Work(p))
  <2>1. Later(0)
    BY <1>4 DEF AgentStart, AgentStops, Announce, ServerRestarts, Upload, Receive, GiveUp, LateReceive,
                Expire, Work
  <2>2. pc' = "answered" => pc = "answered" /\ req' = req
    BY <1>4 DEF AgentStart, AgentStops, Announce, ServerRestarts, Upload, Receive, GiveUp, LateReceive,
                Expire, Work, agent
  <2>3. \A f \in Flow : left'[f] = left[f] \/ left'[f] = Untracked
    BY <1>4 DEF AgentStart, AgentStops, Announce, ServerRestarts, Upload, Receive, GiveUp, LateReceive,
                Expire, Work, agent, TypeOK
  <2> QED
    BY <2>1, <2>2, <2>3, IdleKept
<1> QED
  BY <1>1, <1>2, <1>3, <1>4 DEF Next
\* As long as nothing is reported and no packet counted, what is said of both stays so.
LEMMA OpenKept ==
  ASSUME EInv, TypeOK', Later(0), UNCHANGED rows, reported' = reported, pending' \subseteq pending,
         pc' \in {"sent", "handled"} => pc \in {"sent", "handled"} /\ req' = req,
         late' = late \/ late' = None \/ (pc = "sent" /\ late' = req)
  PROVE  OpenInv'
<1> USE DEF EInv
<1>1. \A f \in Flow : /\ open'[f] <= open[f] /\ open[f] \in Nat /\ open'[f] \in Nat
                      /\ f \in os' => open'[f] = 0
  BY LaterBounds, Limits DEF TypeOK
<1>2. \A u \in Request : u.report \subseteq Flow /\ u.age \in Nat
  BY Limits DEF Request
<1>3. /\ pc \in {"sent", "handled"} => req \in Request /\ \A f \in req.report : open[f] <= req.age
      /\ late # None => late \in Request /\ \A f \in late.report : open[f] <= late.age
  BY DEF OpenInv, TypeOK
<1>4. /\ pc' \in {"sent", "handled"} => \A f \in req'.report : open'[f] <= req'.age
      /\ late' # None => \A f \in late'.report : open'[f] <= late'.age
  BY <1>1, <1>2, <1>3
<1>5. \A f \in Flow : \A r \in rows[f] : r.age \in Nat
  BY Limits DEF TypeOK, Row
<1>6. \A f \in reported : f \in Flow /\ ((\E p \in pending : p.flow = f) => open[f] <= Delay)
                          /\ \A r \in rows[f] : open[f] <= r.age + Delay
  BY DEF OpenInv, TypeOK
<1>7. \A f \in reported' : /\ (\E p \in pending' : p.flow = f) => open'[f] <= Delay
                           /\ \A r \in rows'[f] : open'[f] <= r.age + Delay
  BY <1>1, <1>5, <1>6, Limits
<1>8. \A f \in os' : open'[f] = 0
  BY <1>1 DEF TypeOK
<1> QED
  BY <1>4, <1>7, <1>8 DEF OpenInv

\* A report that is ingested was true no longer ago than its request is old.
LEMMA OpenIngest ==
  ASSUME EInv, TypeOK', Later(0), UNCHANGED <<rows, req>>, NEW u \in Request, Ingest(u),
         \A f \in u.report : open[f] <= u.age,
         pc' \in {"sent", "handled"} => pc \in {"sent", "handled"},
         late' = late \/ late' = None
  PROVE  OpenInv'
<1> USE DEF EInv
<1>1. \A f \in Flow : /\ open'[f] <= open[f] /\ open[f] \in Nat /\ open'[f] \in Nat
                      /\ f \in os' => open'[f] = 0
  BY LaterBounds, Limits DEF TypeOK
<1>2. \A v \in Request : v.report \subseteq Flow /\ v.age \in Nat /\ v.age <= Delay
  BY Limits DEF Request
<1>3. /\ pc' \in {"sent", "handled"} => \A f \in req'.report : open'[f] <= req'.age
      /\ late' # None => \A f \in late'.report : open'[f] <= late'.age
  <2>1. /\ pc \in {"sent", "handled"} => req \in Request /\ \A f \in req.report : open[f] <= req.age
        /\ late # None => late \in Request /\ \A f \in late.report : open[f] <= late.age
    BY DEF OpenInv, TypeOK
  <2> QED
    BY <1>1, <1>2, <2>1
<1>4. \A f \in Flow : \A r \in rows[f] : r.age \in Nat
  BY Limits DEF TypeOK, Row
<1>5. CASE reported' = u.report
  <2>1. \A f \in reported' : f \in Flow /\ open'[f] <= Delay /\ open'[f] \in Nat
    BY <1>1, <1>2, <1>5, Limits
  <2>2. \A f \in reported' : \A r \in rows'[f] : open'[f] <= r.age + Delay
    BY <1>4, <2>1, Limits
  <2> QED
    BY <1>1, <1>3, <2>1, <2>2 DEF OpenInv, TypeOK
<1>6. CASE UNCHANGED <<reported, pending>>
  <2>1. \A f \in reported : f \in Flow /\ ((\E p \in pending : p.flow = f) => open[f] <= Delay)
                            /\ \A r \in rows[f] : open[f] <= r.age + Delay
    BY DEF OpenInv, TypeOK
  <2>2. \A f \in reported' : /\ (\E p \in pending' : p.flow = f) => open'[f] <= Delay
                             /\ \A r \in rows'[f] : open'[f] <= r.age + Delay
    BY <1>1, <1>4, <1>6, <2>1, Limits
  <2> QED
    BY <1>1, <1>3, <2>2 DEF OpenInv, TypeOK
<1> QED
  BY <1>5, <1>6 DEF Ingest
LEMMA OpenStep ==
  ASSUME EInv, Next, TypeOK'
  PROVE  OpenInv'
<1> USE DEF EInv
<1>1. ASSUME NEW P \in SUBSET Flow, Upload(P) PROVE OpenInv'
  <2>1. \A f \in Flow : /\ open'[f] <= open[f] /\ open[f] \in Nat /\ open'[f] \in Nat
                        /\ f \in os' => open'[f] = 0
    BY <1>1, LaterBounds, Limits DEF Upload, TypeOK
  <2>2. req'.report = os /\ req'.age = 0 /\ os \subseteq Flow /\ UNCHANGED <<os, late, rows, pending, reported>>
    BY <1>1 DEF Upload, FirewallInv, TypeOK, server
  <2>3. late # None => late.report \subseteq Flow /\ late.age \in Nat
    BY Limits DEF TypeOK, Request
  <2>4. \A f \in Flow : \A r \in rows[f] : r.age \in Nat
    BY Limits DEF TypeOK, Row
  <2>5. /\ \A f \in os' : open'[f] = 0
        /\ \A f \in req'.report : open'[f] <= req'.age
    BY <2>1, <2>2
  <2>6. late' # None => \A f \in late'.report : open'[f] <= late'.age
    BY <2>1, <2>2, <2>3 DEF OpenInv
  <2>7. \A f \in reported' : /\ (\E p \in pending' : p.flow = f) => open'[f] <= Delay
                             /\ \A r \in rows'[f] : open'[f] <= r.age + Delay
    <3>1. \A f \in reported : f \in Flow /\ ((\E p \in pending : p.flow = f) => open[f] <= Delay)
                              /\ \A r \in rows[f] : open[f] <= r.age + Delay
      BY DEF OpenInv, TypeOK
    <3> QED
      BY <2>1, <2>2, <2>4, <3>1, Limits
  <2> QED
    BY <2>5, <2>6, <2>7 DEF OpenInv
<1>2. CASE Receive
  <2>1. req \in Request /\ (\A f \in req.report : open[f] <= req.age) /\ Ingest(req) /\ Later(0)
    BY <1>2 DEF Receive, TypeOK, OpenInv
  <2>2. UNCHANGED <<rows, req>> /\ late' = late /\ pc = "sent"
    BY <1>2 DEF Receive
  <2> QED
    BY <2>1, <2>2, OpenIngest
<1>3. CASE LateReceive
  <2>1. late \in Request /\ (\A f \in late.report : open[f] <= late.age) /\ Ingest(late) /\ Later(0)
    BY <1>3 DEF LateReceive, TypeOK, OpenInv
  <2>2. UNCHANGED <<rows, req>> /\ late' = None /\ pc' = pc
    BY <1>3 DEF LateReceive, agent
  <2> QED
    BY <2>1, <2>2, OpenIngest
<1>4. ASSUME NEW p \in Packet, Work(p) PROVE OpenInv'
  <2>1. \A f \in Flow : /\ open'[f] <= open[f] /\ open[f] \in Nat /\ open'[f] \in Nat
                        /\ f \in os' => open'[f] = 0
    BY <1>4, LaterBounds, Limits DEF Work, TypeOK
  <2>2. p \in pending /\ pending' \subseteq pending /\ UNCHANGED <<reported, os, pc, req, late>>
    BY <1>4 DEF Work, agent
  <2>3. /\ pc \in {"sent", "handled"} => req.report \subseteq Flow /\ req.age \in Nat
        /\ late # None => late.report \subseteq Flow /\ late.age \in Nat
    BY Limits DEF TypeOK, Request
  <2>4. \A f \in Flow : \A r \in rows[f] \cup rows'[f] : r.age \in Nat
    BY Limits DEF TypeOK, Row
  <2>5. \A f \in reported : f \in Flow /\ ((\E q \in pending : q.flow = f) => open[f] <= Delay)
                            /\ \A r \in rows[f] : open[f] <= r.age + Delay
    BY DEF OpenInv, TypeOK
  <2>6. \A f \in reported : \A r \in rows'[f] : r \in rows[f] \/ (f = p.flow /\ r.age = 0)
    BY <1>4, <2>5, WorkRows
  <2>7. \A f \in reported' : /\ (\E q \in pending' : q.flow = f) => open'[f] <= Delay
                             /\ \A r \in rows'[f] : open'[f] <= r.age + Delay
    BY <2>1, <2>2, <2>4, <2>5, <2>6, Limits
  <2>8. /\ \A f \in os' : open'[f] = 0
        /\ pc' \in {"sent", "handled"} => \A f \in req'.report : open'[f] <= req'.age
        /\ late' # None => \A f \in late'.report : open'[f] <= late'.age
    BY <2>1, <2>2, <2>3 DEF OpenInv, TypeOK
  <2> QED
    BY <2>7, <2>8 DEF OpenInv
<1>5. CASE Tick
  <2>1. TypeOK /\ Later(1)
    BY <1>5 DEF Tick
  <2>2. \A f \in Flow : open'[f] <= open[f] + 1 /\ (f \in os' => open'[f] = 0)
    BY <2>1, LaterBounds
  <2>3. \A f \in Flow : open[f] \in Nat /\ open'[f] \in Nat
    BY Limits DEF TypeOK
  <2>4. ASSUME NEW u \in Request, u.age < Delay, \A f \in u.report : open[f] <= u.age
        PROVE  \A f \in Older(u).report : open'[f] <= Older(u).age
    <3>1. u.report \subseteq Flow /\ u.age \in Nat
      BY Limits DEF Request
    <3>2. Older(u).report = u.report /\ Older(u).age = u.age + 1
      BY <2>4, OlderType
    <3> QED
      BY <2>2, <2>3, <2>4, <3>1, <3>2
  <2>5. pc' \in {"sent", "handled"} => \A f \in req'.report : open'[f] <= req'.age
    <3> SUFFICES ASSUME pc \in {"sent", "handled"} PROVE \A f \in Older(req).report : open'[f] <= Older(req).age
      BY <1>5 DEF Tick
    <3>1. req \in Request /\ req # None /\ \A f \in req.report : open[f] <= req.age
      BY NoneAssumption DEF TypeOK, OpenInv
    <3>2. req.age < Delay
      BY <1>5, <3>1 DEF Tick
    <3> QED
      BY <2>4, <3>1, <3>2
  <2>6. late' # None => \A f \in late'.report : open'[f] <= late'.age
    <3> SUFFICES ASSUME late # None PROVE \A f \in Older(late).report : open'[f] <= Older(late).age
      BY <1>5 DEF Tick, Older
    <3>1. late \in Request /\ \A f \in late.report : open[f] <= late.age
      BY DEF TypeOK, OpenInv
    <3>2. late.age < Delay
      BY <1>5 DEF Tick
    <3> QED
      BY <2>4, <3>1, <3>2
  <2>7. \A f \in reported' : /\ (\E p \in pending' : p.flow = f) => open'[f] <= Delay
                             /\ \A r \in rows'[f] : open'[f] <= r.age + Delay
    <3>1. reported' = reported /\ pending' = {} /\ reported \subseteq Flow
      BY <1>5 DEF Tick, TypeOK
    <3>2. \A f \in reported : \A s \in rows[f] : open[f] <= s.age + Delay /\ s.age \in Nat
      BY Limits DEF OpenInv, TypeOK, Row
    <3>3. \A f \in Flow : \A r \in rows'[f] : \E s \in rows[f] : r.age = s.age + 1
      BY <1>5, OlderRows
    <3>4. ASSUME NEW f \in reported, NEW r \in rows'[f] PROVE open'[f] <= r.age + Delay
      <4>1. PICK s \in rows[f] : r.age = s.age + 1
        BY <3>1, <3>3
      <4> QED
        BY <2>2, <2>3, <3>1, <3>2, <4>1, Limits
    <3> QED
      BY <3>1, <3>4
  <2>8. \A f \in os' : open'[f] = 0
    BY <2>2 DEF TypeOK
  <2> QED
    BY <2>5, <2>6, <2>7, <2>8 DEF OpenInv
<1>6. CASE AgentStart \/ AgentStops \/ Announce \/ ServerRestarts \/ Respond \/ GiveUp \/ Sync
           \/ (\E f \in Flow : Expire(f))
  <2> USE DEF AgentStart, AgentStops, Announce, ServerRestarts, Respond, GiveUp, Sync, Expire, Abandon
  <2>1. Later(0) /\ UNCHANGED <<rows, reported>> /\ pending' \subseteq pending
    BY <1>6 DEF server
  <2>2. pc' \in {"sent", "handled"} => pc \in {"sent", "handled"} /\ req' = req
    BY <1>6
  <2>3. late' = late \/ late' = None \/ (pc = "sent" /\ late' = req)
    BY <1>6
  <2> QED
    BY <2>1, <2>2, <2>3, OpenKept
<1> QED
  BY <1>1, <1>2, <1>3, <1>4, <1>5, <1>6 DEF Next

-----------------------------------------------------------------------------
\* Whatever is lost, late or started anew on either side.
THEOREM EnforcementInvariant == Spec => []EInv
<1>1. EInv /\ [Next]_vars => EInv'
  <2> SUFFICES ASSUME EInv, [Next]_vars PROVE EInv'
    OBVIOUS
  <2>1. CASE Next
    BY <2>1, TypeStep, FirewallStep, IdleStep, OpenStep DEF EInv
  <2>2. CASE UNCHANGED vars
    BY <2>2 DEF vars, server, agent, EInv, TypeOK, FirewallInv, Tracked, IdleInv, OpenInv
  <2> QED
    BY <2>1, <2>2
<1> QED
  BY InitEInv, <1>1, PTL DEF Spec

\* Server, agent and what is under way keep their types.
THEOREM EnforcementTypeCorrect == Spec => []TypeOK
BY EnforcementInvariant, PTL DEF EInv

\* A running agent blocks a flow no longer than a rule and an answer last after the
\* reason for it is gone, for every choice of the time limits.
THEOREM BlocksAreJustified == Spec => []BlockJustified
<1>1. EInv => BlockJustified
  <2> SUFFICES ASSUME EInv, pc # "off", NEW f \in os PROVE idle[f] <= TTL + Delay
    BY DEF BlockJustified
  <2>1. f \in Tracked /\ f \in Flow
    BY DEF EInv, FirewallInv, Tracked
  <2>2. idle[f] \in Nat /\ left[f] \in Nat
    BY <2>1, Limits DEF EInv, TypeOK, Tracked, Untracked
  <2>3. idle[f] + left[f] <= TTL + Delay
    BY <2>1 DEF EInv, IdleInv
  <2> QED
    BY <2>2, <2>3, Limits
<1> QED
  BY EnforcementInvariant, <1>1, PTL

\* The dashboard calls a flow blocked no longer than a row stays recent and a request
\* lasts after it has ceased to be, for every choice of the time limits.
THEOREM ClaimsAreFresh == Spec => []ClaimFresh
<1>1. EInv => ClaimFresh
  <2> SUFFICES ASSUME EInv, NEW f \in Flow, Claimed(f) PROVE open[f] <= Recent + Delay
    BY DEF ClaimFresh
  <2>1. PICK r \in rows[f] : r.strong
    BY DEF Claimed, Flagged
  <2>2. r.age \in 0..Recent /\ open[f] \in Nat
    BY <2>1, Limits DEF EInv, TypeOK, Row
  <2>3. open[f] <= r.age + Delay
    BY <2>1 DEF EInv, OpenInv, Claimed
  <2> QED
    BY <2>2, <2>3, Limits
<1> QED
  BY EnforcementInvariant, <1>1, PTL
=============================================================================
