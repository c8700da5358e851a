----------------------------- MODULE FlowBuilder -----------------------------
(***************************************************************************)
(* netinsight/analytics/flow_builder.py and the classifier's choice of an  *)
(* engine: how the worker threads turn the packets of one agent's uploads  *)
(* into rows of FlowRecord and ThreatHistory.                              *)
(*                                                                         *)
(* For each packet a worker reads the newest row of the packet's flow that *)
(* is still active, counts the packet in its copy, has the flow classified *)
(* and writes the whole copy back; nothing locks the row in between.  For  *)
(* a threat it looks for a recent alert of the same type and adds one if   *)
(* there is none.                                                          *)
(* When the packets of the upload cannot be stored because the database is *)
(* locked, the worker starts again with its first packet.                  *)
(***************************************************************************)
EXTENDS Integers, Sequences, FiniteSets

CONSTANTS Upload,        (* the uploads, each handled by a worker thread       *)
          PacketsOf,     (* the flow of each packet of an upload, in order     *)
          Flow,          (* flow keys                                          *)
          Threat,        (* the labels of the classifier that name a threat    *)
          Normal,        (* the label of any other flow                        *)
          MinPackets,    (* packets XGBoost needs, 5                           *)
          Window,        (* how long a flow stays active, 30 s                 *)
          AlertWindow,   (* how long an alert suppresses the next one, 10 s    *)
          Skew,          (* how far a packet's clock may be off, 5 s           *)
          MaxAttempts,   (* attempts of _async_telemetry_worker, 5             *)
          MaxTime        (* bound of the clock                                 *)

ASSUME FlowAssumption ==
       /\ IsFiniteSet(Upload)
       /\ PacketsOf \in [Upload -> Seq(Flow)]
       /\ Normal \notin Threat
       /\ MinPackets \in Nat \ {0} /\ MaxAttempts \in Nat \ {0} /\ MaxTime \in Nat
       /\ Skew \in Nat /\ AlertWindow \in Nat
       /\ Window \in Nat /\ Window > 2 * Skew

VARIABLES now,
          rows,      (* the FlowRecord rows, in the order of their creation    *)
          alerts,    (* the agent's ThreatHistory rows, in that order          *)
          pc,        (* where each worker is                                   *)
          at,        (* the packet it is at                                    *)
          attempt,   (* the attempt it is at                                   *)
          base,      (* the row it read for the packet, 0 if there was none    *)
          copy,      (* its copy of the row, counted                           *)
          threat,    (* the threat it looks for an alert of, else Normal       *)
          saves,     (* history, read by no action but to fill stale: how often
                        each row was saved                                     *)
          seen,      (* history, likewise: saves of the row when it was read   *)
          stale      (* history, read by no action: flows of which a copy was
                        written back that was no longer up to date             *)

local == <<base, copy, threat, seen>>
vars == <<now, rows, alerts, pc, at, attempt, local, saves, stale>>

Labels == Threat \cup {Normal}
Engines == {"Unknown", "XGBoost", "Other"}
Time == (0 - Skew)..(MaxTime + Skew)
Row == [flow : Flow, start : Time, end : Time, count : Nat, label : Labels, engine : Engines]

Alert == [type : Threat, time : 0..MaxTime]

Packet(u) == PacketsOf[u][at[u]]

Init == /\ now = 0 /\ rows = <<>> /\ alerts = <<>>
        /\ pc = [u \in Upload |-> "lookup"]
        /\ at = [u \in Upload |-> 1]
        /\ attempt = [u \in Upload |-> 1]
        /\ base = [u \in Upload |-> 0]
        /\ copy = [u \in Upload |-> <<>>]
        /\ threat = [u \in Upload |-> Normal]
        /\ saves = <<>> /\ seen = [u \in Upload |-> 0] /\ stale = {}

-----------------------------------------------------------------------------
(* One packet in prepare_packet_record.                                     *)

TrustedTimes == Time

\* The packet's own time if it is close to the server's, else the server's.
PacketTimes == (now - Skew)..(now + Skew)

ActiveNow(f, ts) == {i \in 1..Len(rows) : rows[i].flow = f /\ rows[i].end >= ts}

Active(f, ts) == {i \in 1..Len(rows) : rows[i].flow = f /\ rows[i].end >= ts - Window}

\* order_by("-end_time").first()
Found(f, ts) == IF Active(f, ts) = {} THEN {0}
                ELSE {i \in Active(f, ts) : \A j \in Active(f, ts) : rows[j].end <= rows[i].end}

NewRow(f, ts) == [flow |-> f, start |-> ts, end |-> ts, count |-> 1, label |-> Normal,
                  engine |-> "Unknown"]

CountedTwice(i, f, ts) == IF i = 0 THEN NewRow(f, ts)
                          ELSE [rows[i] EXCEPT !.count = @ + 2, !.end = ts]

Counted(i, f, ts) == IF i = 0 THEN NewRow(f, ts)
                     ELSE [rows[i] EXCEPT !.count = @ + 1, !.end = ts]

\* TrafficClassifier.classify_packet_with_metadata: XGBoost answers only for a flow
\* of enough packets, and then unless it is not loaded or fails.
Verdicts(r) == {[label |-> l, engine |-> e] :
                   l \in Labels, e \in {"Other"} \cup IF r.count >= MinPackets THEN {"XGBoost"} ELSE {}}

Confirmed(r) == r.label # Normal /\ r.engine = "XGBoost"

ClassifiedAfresh(r, v) == [r EXCEPT !.label = v.label, !.engine = v.engine]

\* XGBoost does not take back what XGBoost has found.
Classified(r, v) == IF Confirmed(r) /\ v.label = Normal /\ v.engine = "XGBoost" THEN r
                    ELSE [r EXCEPT !.label = v.label, !.engine = v.engine]

\* The query and the counting.  A tick of the clock is long against the time from
\* the packet's time to the end of the query.
Lookup(u) == /\ pc[u] = "lookup" /\ at[u] <= Len(PacketsOf[u])
             /\ \E ts \in PacketTimes : \E i \in Found(Packet(u), ts) :
                  /\ base' = [base EXCEPT ![u] = i]
                  /\ seen' = [seen EXCEPT ![u] = IF i = 0 THEN 0 ELSE saves[i]]
                  /\ copy' = [copy EXCEPT ![u] = Counted(i, Packet(u), ts)]
             /\ pc' = [pc EXCEPT ![u] = "save"]
             /\ UNCHANGED <<now, rows, alerts, at, attempt, threat, saves, stale>>

Forget(u) == /\ base' = [base EXCEPT ![u] = 0]
             /\ copy' = [copy EXCEPT ![u] = <<>>]
             /\ seen' = [seen EXCEPT ![u] = 0]

NextPacket(u) == /\ Forget(u)
                 /\ threat' = [threat EXCEPT ![u] = Normal]
                 /\ pc' = [pc EXCEPT ![u] = "lookup"]
                 /\ at' = [at EXCEPT ![u] = @ + 1]

\* An error, or the attempts at a locked database are used up: the packet is given
\* up, with what was saved for it.
Skip(u) == /\ pc[u] \in {"lookup", "save", "check", "alert"} /\ at[u] <= Len(PacketsOf[u])
           /\ NextPacket(u)
           /\ UNCHANGED <<now, rows, alerts, attempt, saves, stale>>

\* Whether the query would give another answer by now.
OutOfDate(u) == \/ base[u] \notin Found(copy[u].flow, copy[u].end)
                \/ base[u] # 0 /\ saves[base[u]] # seen[u]

\* The classification, which reads nothing that changes, and flow.save(), which
\* writes every column.
Save(u) == /\ pc[u] = "save"
           /\ \E v \in Verdicts(copy[u]) :
                LET r == Classified(copy[u], v) IN
                /\ IF base[u] = 0
                   THEN /\ rows' = Append(rows, r) /\ saves' = Append(saves, 1)
                   ELSE /\ rows' = [rows EXCEPT ![base[u]] = r]
                        /\ saves' = [saves EXCEPT ![base[u]] = @ + 1]
                /\ IF r.label # Normal
                   THEN /\ Forget(u)
                        /\ threat' = [threat EXCEPT ![u] = r.label]
                        /\ pc' = [pc EXCEPT ![u] = "check"]
                        /\ UNCHANGED at
                   ELSE NextPacket(u)
           /\ stale' = IF OutOfDate(u) THEN stale \cup {copy[u].flow} ELSE stale
           /\ UNCHANGED <<now, alerts, attempt>>

\* An alert of the same type, at most AlertWindow old.
Suppresses(a, l) == a.type = l /\ a.time >= now - AlertWindow

AlertUnchecked(u) == /\ pc[u] = "check"
                     /\ pc' = [pc EXCEPT ![u] = "alert"]
                     /\ UNCHANGED <<now, rows, alerts, at, attempt, local, saves, stale>>

CheckAlert(u) == /\ pc[u] = "check"
                 /\ IF \E i \in 1..Len(alerts) : Suppresses(alerts[i], threat[u])
                    THEN NextPacket(u)
                    ELSE pc' = [pc EXCEPT ![u] = "alert"] /\ UNCHANGED <<at, local>>
                 /\ UNCHANGED <<now, rows, alerts, attempt, saves, stale>>

CreateAlert(u) == /\ pc[u] = "alert"
                  /\ alerts' = Append(alerts, [type |-> threat[u], time |-> now])
                  /\ NextPacket(u)
                  /\ UNCHANGED <<now, rows, attempt, saves, stale>>

-----------------------------------------------------------------------------
(* The rest of the worker, which module TelemetryPool has in full.          *)

Finish(u) == /\ pc[u] = "lookup" /\ at[u] > Len(PacketsOf[u])
             /\ pc' = [pc EXCEPT ![u] = "done"]
             /\ UNCHANGED <<now, rows, alerts, at, attempt, local, saves, stale>>

\* The database is locked when the packets or the metric are to be stored.
StoreFails(u) == /\ pc[u] = "lookup" /\ at[u] > Len(PacketsOf[u])
                 /\ attempt[u] < MaxAttempts
                 /\ attempt' = [attempt EXCEPT ![u] = @ + 1]
                 /\ at' = [at EXCEPT ![u] = 1]
                 /\ UNCHANGED <<now, rows, alerts, pc, local, saves, stale>>

Tick == /\ now < MaxTime
        /\ now' = now + 1
        /\ UNCHANGED <<rows, alerts, pc, at, attempt, local, saves, stale>>

Step(u) == \/ Lookup(u) \/ Skip(u) \/ Save(u) \/ CheckAlert(u) \/ CreateAlert(u)
           \/ Finish(u) \/ StoreFails(u)

Next == Tick \/ \E u \in Upload : Step(u)

Spec == Init /\ [][Next]_vars

-----------------------------------------------------------------------------
\* The types of the variables.
TypeOK == /\ now \in 0..MaxTime
          /\ rows \in Seq(Row)
          /\ alerts \in Seq(Alert)
          /\ pc \in [Upload -> {"lookup", "save", "check", "alert", "done"}]
          /\ at \in [Upload -> Nat]
          /\ \A u \in Upload : at[u] \in 1..(Len(PacketsOf[u]) + 1)
          /\ attempt \in [Upload -> 1..MaxAttempts]
          /\ base \in [Upload -> Nat]
          /\ \A u \in Upload : base[u] \in 0..Len(rows)
          /\ DOMAIN copy = Upload
          /\ \A u \in Upload : pc[u] = "save" => copy[u] \in Row
          /\ threat \in [Upload -> Labels]
          /\ \A u \in Upload : pc[u] \in {"check", "alert"} => threat[u] \in Threat
          /\ saves \in Seq(Nat \ {0}) /\ Len(saves) = Len(rows)
          /\ seen \in [Upload -> Nat]
          /\ stale \subseteq Flow

\* Unless two workers overlapped on the flow, a row counts each pass of a packet
\* through the builder once.
CountExact == \A i \in 1..Len(rows) : rows[i].flow \notin stale => rows[i].count = saves[i]

\* Unless two workers overlapped on the flow, its rows are apart by more than the
\* time a flow stays active, up to the error of the clocks.
RowsApart == \A i, j \in 1..Len(rows) :
               i < j /\ rows[i].flow = rows[j].flow /\ rows[i].flow \notin stale
                 => rows[j].start > rows[i].end + Window /\ rows[j].end > rows[i].end

\* The clocks of the packets may make a flow end before it starts, by no more than
\* the error of both as long as the query is not delayed.
DurationBounded == \A i \in 1..Len(rows) : rows[i].end - rows[i].start >= 0 - 2 * Skew

\* The rows start no later than the clocks allow.
StartInv == \A i \in 1..Len(rows) : rows[i].start <= now + Skew

\* What a worker holds between its query and its save: a row of its own, or a copy
\* that is one packet ahead of its row until another worker saves that row.
CopyInv(u) == /\ at[u] <= Len(PacketsOf[u])
              /\ copy[u].start <= now + Skew
              /\ copy[u].end - copy[u].start >= 0 - 2 * Skew
              /\ base[u] = 0 => copy[u].start = copy[u].end /\ copy[u].count = 1
              /\ base[u] # 0 => /\ copy[u].flow = rows[base[u]].flow
                                /\ seen[u] <= saves[base[u]]
              /\ base[u] # 0 /\ seen[u] = saves[base[u]]
                   => /\ copy[u].start = rows[base[u]].start
                      /\ copy[u].count = rows[base[u]].count + 1
                      /\ copy[u].label = rows[base[u]].label
                      /\ copy[u].engine = rows[base[u]].engine

\* The inductive invariant.
FlowInv == /\ TypeOK
           /\ \A u \in Upload : pc[u] \in {"check", "alert"} => at[u] <= Len(PacketsOf[u])
           /\ \A u \in Upload : pc[u] = "save" => CopyInv(u)
           /\ StartInv /\ CountExact /\ RowsApart /\ DurationBounded

\* A threat XGBoost has confirmed stands until another engine says otherwise, unless
\* two workers overlapped on the flow.
ConfirmedStays == [][\A i \in 1..Len(rows) :
                       Confirmed(rows[i]) /\ ~Confirmed(rows'[i])
                         => rows'[i].engine = "Other" \/ rows[i].flow \in stale']_vars

\* The alerts of type l within AlertWindow of t, and the workers about to add one.
AlertsFrom(l, t) == {i \in 1..Len(alerts) : /\ alerts[i].type = l
                                            /\ alerts[i].time \in t..(t + AlertWindow)}
Alerting(l) == {u \in Upload : pc[u] = "alert" /\ threat[u] = l}

\* However the workers overlap, there are no more alerts of one type within AlertWindow
\* of each other than there are workers.
AlertsBounded == \A l \in Threat, t \in 0..MaxTime :
                   Cardinality(AlertsFrom(l, t)) <= Cardinality(Upload)

\* From the first alert of a type on no worker finds none of it, until AlertWindow has
\* passed: those that did so before have their alert or are about to add it.
AlertInv == \A l \in Threat, t \in 0..MaxTime :
              AlertsFrom(l, t) # {} /\ now <= t + AlertWindow
                => Cardinality(AlertsFrom(l, t)) + Cardinality(Alerting(l))
                     <= Cardinality(Upload)
=============================================================================
