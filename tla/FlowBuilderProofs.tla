--------------------------- MODULE FlowBuilderProofs ---------------------------
(* What the rows of FlowRecord say as long as no two workers overlap on a flow, *)
(* for any uploads, clocks and limits.                                          *)
EXTENDS FlowBuilder, FiniteSetTheorems, TLAPS

LEMMA Limits == /\ MinPackets \in Nat \ {0} /\ MaxAttempts \in Nat \ {0} /\ MaxTime \in Nat
                /\ Skew \in Nat /\ AlertWindow \in Nat
                /\ Window \in Nat /\ Window > 2 * Skew
BY FlowAssumption

LEMMA UploadsAreSequences ==
  ASSUME NEW u \in Upload
  PROVE  /\ Len(PacketsOf[u]) \in Nat
         /\ \A k \in 1..Len(PacketsOf[u]) : PacketsOf[u][k] \in Flow
<1>1. PacketsOf[u] \in Seq(Flow)
  BY FlowAssumption
<1> QED
  BY <1>1

\* The packet's time is one of a row.
LEMMA PacketTimesAreTimes == now \in 0..MaxTime => PacketTimes \subseteq Time
BY Limits DEF PacketTimes, Time

\* What Init sets up is an empty table and no copies.
LEMMA InitFlowInv == Init => FlowInv
<1> SUFFICES ASSUME Init PROVE FlowInv
  OBVIOUS
<1> USE Limits, UploadsAreSequences DEF Init
<1>1. TypeOK
  <2>1. \A u \in Upload : at[u] \in 1..(Len(PacketsOf[u]) + 1) /\ base[u] \in 0..Len(rows)
    OBVIOUS
  <2>2. rows \in Seq(Row) /\ alerts \in Seq(Alert) /\ saves \in Seq(Nat \ {0})
    OBVIOUS
  <2>3. attempt \in [Upload -> 1..MaxAttempts] /\ Len(saves) = Len(rows)
    OBVIOUS
  <2>4. threat \in [Upload -> Labels]
    BY DEF Labels
  <2> QED
    BY <2>1, <2>2, <2>3, <2>4 DEF TypeOK
<1>2. StartInv /\ CountExact /\ RowsApart /\ DurationBounded
  BY DEF StartInv, CountExact, RowsApart, DurationBounded
<1> QED
  BY <1>1, <1>2 DEF FlowInv

-----------------------------------------------------------------------------
(* One packet.                                                              *)

\* What the query answers with is a row of the flow that is still active, the one
\* that ended last; it answers with none only if none is active.
LEMMA FoundRow ==
  ASSUME rows \in Seq(Row), NEW f \in Flow, NEW ts \in Int, NEW i \in Found(f, ts)
  PROVE  /\ i \in 0..Len(rows)
         /\ i # 0 => /\ rows[i].flow = f /\ rows[i].end >= ts - Window
                     /\ \A j \in 1..Len(rows) :
                          rows[j].flow = f /\ rows[j].end >= ts - Window
                            => rows[j].end <= rows[i].end
         /\ i = 0 => \A j \in 1..Len(rows) :
                       rows[j].flow = f => ~(rows[j].end >= ts - Window)
BY DEF Found, Active

\* Counting leaves everything but the count and the end as it is.
LEMMA CountedRow ==
  ASSUME rows \in Seq(Row), NEW f \in Flow, NEW ts \in Time, NEW i \in 0..Len(rows)
  PROVE  /\ Counted(i, f, ts) \in Row
         /\ i = 0 => /\ Counted(i, f, ts).flow = f
                     /\ Counted(i, f, ts).start = ts /\ Counted(i, f, ts).count = 1
         /\ Counted(i, f, ts).end = ts
         /\ i # 0 => /\ Counted(i, f, ts).flow = rows[i].flow
                     /\ Counted(i, f, ts).start = rows[i].start
                     /\ Counted(i, f, ts).count = rows[i].count + 1
                     /\ Counted(i, f, ts).label = rows[i].label
                     /\ Counted(i, f, ts).engine = rows[i].engine
<1>1. CASE i = 0
  BY <1>1 DEF Counted, NewRow, Row, Labels, Engines
<1>2. CASE i # 0
  <2>1. PICK r \in Row : r = rows[i]
    BY <1>2
  <2>2. PICK n \in Nat : n = r.count + 1
    BY <2>1 DEF Row
  <2> DEFINE d == [r EXCEPT !.count = n]
  <2>3. /\ d \in Row /\ d.flow = r.flow /\ d.start = r.start
        /\ d.count = n /\ d.label = r.label /\ d.engine = r.engine
    BY DEF Row
  <2>4. Counted(i, f, ts) = [d EXCEPT !.end = ts]
    BY <1>2, <2>1, <2>2 DEF Counted, Row
  <2> HIDE DEF d
  <2>5. Counted(i, f, ts) \in Row
    BY <2>3, <2>4 DEF Row
  <2> QED
    BY <1>2, <2>1, <2>2, <2>3, <2>4 DEF Row
<1> QED
  BY <1>1, <1>2

\* A verdict touches the label and the engine alone, and what XGBoost has confirmed
\* falls only to another engine.
LEMMA ClassifiedRow ==
  ASSUME NEW c \in Row, NEW v \in Verdicts(c), NEW r, r = Classified(c, v)
  PROVE  /\ r \in Row /\ r.flow = c.flow /\ r.start = c.start /\ r.end = c.end
         /\ r.count = c.count
         /\ Confirmed(c) => Confirmed(r) \/ r.engine = "Other"
<1>1. v \in [label : Labels, engine : {"Other", "XGBoost"}]
  BY DEF Verdicts
<1>2. CASE Confirmed(c) /\ v.label = Normal /\ v.engine = "XGBoost"
  BY <1>2 DEF Classified
<1>3. CASE ~(Confirmed(c) /\ v.label = Normal /\ v.engine = "XGBoost")
  <2>1. r = [c EXCEPT !.label = v.label, !.engine = v.engine]
    BY <1>3 DEF Classified
  <2>2. /\ r \in Row /\ r.flow = c.flow /\ r.start = c.start /\ r.end = c.end
        /\ r.count = c.count /\ r.label = v.label /\ r.engine = v.engine
    BY <1>1, <2>1 DEF Row, Labels, Engines
  <2>3. Confirmed(c) => v.label # Normal \/ v.engine = "Other"
    BY <1>1, <1>3
  <2> QED
    BY <1>1, <2>2, <2>3 DEF Confirmed
<1> QED
  BY <1>2, <1>3

-----------------------------------------------------------------------------
(* The steps that leave the rows alone.                                     *)

LocalTypes == /\ pc \in [Upload -> {"lookup", "save", "check", "alert", "done"}]
              /\ at \in [Upload -> Nat]
              /\ \A u \in Upload : at[u] \in 1..(Len(PacketsOf[u]) + 1)
              /\ base \in [Upload -> Nat] /\ DOMAIN copy = Upload
              /\ seen \in [Upload -> Nat]
              /\ threat \in [Upload -> Labels]

Others(u) == \A w \in Upload \ {u} : /\ pc'[w] = pc[w] /\ at'[w] = at[w] /\ base'[w] = base[w]
                                      /\ copy'[w] = copy[w] /\ seen'[w] = seen[w]
                                      /\ threat'[w] = threat[w]

\* To go on with the next packet is to forget the copy.
LEMMA NextPacketTypes ==
  ASSUME TypeOK, NEW u \in Upload, at[u] <= Len(PacketsOf[u]), NextPacket(u)
  PROVE  /\ LocalTypes' /\ Others(u)
         /\ pc'[u] = "lookup" /\ base'[u] = 0
BY UploadsAreSequences, SMTT(30) DEF TypeOK, LocalTypes, NextPacket, Forget, Others, Labels

LEMMA StartsAreIntegers ==
  ASSUME TypeOK, NEW i \in 1..Len(rows) PROVE rows[i] \in Row /\ rows[i].start \in Int
<1>1. rows[i] \in Row
  BY DEF TypeOK
<1> QED
  BY <1>1, Limits DEF Row, Time

\* Then the rows still say the same, now or later.
LEMMA SameRows ==
  ASSUME FlowInv, UNCHANGED <<rows, saves, stale>>, now' \in 0..MaxTime, now' >= now
  PROVE  (StartInv /\ CountExact /\ RowsApart /\ DurationBounded)'
<1>1. \A i \in 1..Len(rows) : rows[i].start \in Int
  BY StartsAreIntegers DEF FlowInv
<1> QED
  BY <1>1, Limits DEF FlowInv, TypeOK, StartInv, CountExact, RowsApart, DurationBounded

\* And so do the copies of the workers that do not move.
LEMMA SameCopies ==
  ASSUME FlowInv, UNCHANGED <<rows, saves>>, now' \in 0..MaxTime, now' >= now,
         NEW w \in Upload, pc'[w] = pc[w], at'[w] = at[w], base'[w] = base[w],
         copy'[w] = copy[w], seen'[w] = seen[w], pc[w] = "save"
  PROVE  CopyInv(w)'
<1>1. CopyInv(w) /\ copy[w] \in Row
  BY DEF FlowInv, TypeOK
<1>2. copy[w].start \in Int /\ now \in Int
  BY <1>1, Limits DEF Row, Time, FlowInv, TypeOK
<1> QED
  BY <1>1, <1>2, Limits DEF CopyInv

\* So a step that leaves the rows alone keeps the invariant if the worker that moves
\* has no copy afterwards, or a good one.
LEMMA QuietStep ==
  ASSUME FlowInv, UNCHANGED <<rows, saves, stale>>, now' \in 0..MaxTime, now' >= now,
         LocalTypes', alerts' \in Seq(Alert), attempt' \in [Upload -> 1..MaxAttempts],
         NEW u \in Upload, Others(u),
         base'[u] \in 0..Len(rows),
         pc'[u] = "save" => copy'[u] \in Row /\ CopyInv(u)',
         pc'[u] \in {"check", "alert"} => at'[u] <= Len(PacketsOf[u]) /\ threat'[u] \in Threat
  PROVE  FlowInv'
<1> USE DEF Others
<1>1. TypeOK'
  <2>1. \A w \in Upload : base'[w] \in 0..Len(rows')
    BY DEF FlowInv, TypeOK
  <2>2. \A w \in Upload : pc'[w] = "save" => copy'[w] \in Row
    BY DEF FlowInv, TypeOK
  <2>3. \A w \in Upload : pc'[w] \in {"check", "alert"} => threat'[w] \in Threat
    BY DEF FlowInv, TypeOK
  <2> QED
    BY <2>1, <2>2, <2>3 DEF FlowInv, TypeOK, LocalTypes
<1>2. \A w \in Upload : pc'[w] = "save" => CopyInv(w)'
  BY SameCopies
<1>3. \A w \in Upload : pc'[w] \in {"check", "alert"} => at'[w] <= Len(PacketsOf[w])
  BY DEF FlowInv
<1> QED
  BY <1>1, <1>2, <1>3, SameRows DEF FlowInv

\* The clock goes on.
LEMMA TickInv == ASSUME FlowInv, Tick PROVE FlowInv'
<1>1. TypeOK' /\ now' \in 0..MaxTime /\ now' >= now
  BY Limits DEF Tick, local, FlowInv, TypeOK
<1>2. \A w \in Upload : pc'[w] = "save" => CopyInv(w)'
  BY <1>1, SameCopies DEF Tick, local
<1>3. (StartInv /\ CountExact /\ RowsApart /\ DurationBounded)'
  BY <1>1, SameRows DEF Tick
<1> QED
  BY <1>1, <1>2, <1>3 DEF FlowInv, Tick, local

\* A packet is given up, its alert looked for or raised, or the upload goes round.
LEMMA OtherInv ==
  ASSUME FlowInv, NEW u \in Upload,
         Skip(u) \/ CheckAlert(u) \/ CreateAlert(u) \/ Finish(u) \/ StoreFails(u)
  PROVE  FlowInv'
<1> USE UploadsAreSequences
<1>1. TypeOK /\ now \in 0..MaxTime /\ Len(rows) \in Nat
  BY DEF FlowInv, TypeOK
<1>2. CASE Skip(u)
  <2>1. LocalTypes' /\ Others(u) /\ pc'[u] = "lookup" /\ base'[u] \in 0..Len(rows)
    BY <1>1, <1>2, NextPacketTypes DEF Skip
  <2>2. /\ UNCHANGED <<rows, saves, stale>> /\ now' \in 0..MaxTime /\ now' >= now
        /\ alerts' \in Seq(Alert) /\ attempt' \in [Upload -> 1..MaxAttempts]
    BY <1>1, <1>2 DEF Skip, TypeOK
  <2>3. pc'[u] \notin {"save", "check", "alert"}
    BY <2>1
  <2> QED
    BY <2>1, <2>2, <2>3, QuietStep
<1>3. CASE CheckAlert(u)
  <2>0. at[u] <= Len(PacketsOf[u])
    BY <1>3 DEF CheckAlert, FlowInv
  <2>1. CASE NextPacket(u)
    <3>1. LocalTypes' /\ Others(u) /\ pc'[u] = "lookup" /\ base'[u] \in 0..Len(rows)
      BY <1>1, <2>0, <2>1, NextPacketTypes
    <3>2. /\ UNCHANGED <<rows, saves, stale>> /\ now' \in 0..MaxTime /\ now' >= now
          /\ alerts' \in Seq(Alert) /\ attempt' \in [Upload -> 1..MaxAttempts]
      BY <1>1, <1>3 DEF CheckAlert, TypeOK
    <3>3. pc'[u] \notin {"save", "check", "alert"}
      BY <3>1
    <3> QED
      BY <3>1, <3>2, <3>3, QuietStep
  <2>2. CASE pc' = [pc EXCEPT ![u] = "alert"] /\ UNCHANGED <<at, local>>
    <3>1. LocalTypes' /\ Others(u) /\ pc'[u] = "alert" /\ base'[u] \in 0..Len(rows)
      BY <1>1, <2>2 DEF TypeOK, LocalTypes, Others, local
    <3>2. threat'[u] \in Threat /\ at' = at
      BY <1>1, <1>3, <2>2 DEF CheckAlert, TypeOK, local
    <3> QED
      BY <1>1, <1>3, <2>0, <2>2, <3>1, <3>2, QuietStep DEF CheckAlert, TypeOK
  <2> QED
    BY <1>3, <2>1, <2>2 DEF CheckAlert
<1>4. CASE CreateAlert(u)
  <2>0. [type |-> threat[u], time |-> now] \in Alert
    BY <1>1, <1>4 DEF CreateAlert, TypeOK, Alert
  <2>1. at[u] <= Len(PacketsOf[u]) /\ alerts' \in Seq(Alert)
    BY <1>1, <1>4, <2>0 DEF CreateAlert, FlowInv, TypeOK
  <2>2. LocalTypes' /\ Others(u) /\ pc'[u] = "lookup" /\ base'[u] \in 0..Len(rows)
    BY <1>1, <1>4, <2>1, NextPacketTypes DEF CreateAlert
  <2>3. /\ UNCHANGED <<rows, saves, stale>> /\ now' \in 0..MaxTime /\ now' >= now
        /\ attempt' \in [Upload -> 1..MaxAttempts]
    BY <1>1, <1>4 DEF CreateAlert, TypeOK
  <2>4. pc'[u] \notin {"save", "check", "alert"}
    BY <2>2
  <2> QED
    BY <2>1, <2>2, <2>3, <2>4, QuietStep
<1>5. CASE Finish(u)
  <2>1. LocalTypes' /\ Others(u) /\ pc'[u] = "done" /\ base'[u] \in 0..Len(rows)
    BY <1>1, <1>5 DEF Finish, TypeOK, LocalTypes, Others, local
  <2> QED
    BY <1>1, <1>5, <2>1, QuietStep DEF Finish, TypeOK
<1>6. CASE StoreFails(u)
  <2>1. LocalTypes' /\ Others(u) /\ pc'[u] = "lookup" /\ base'[u] \in 0..Len(rows)
    BY <1>1, <1>6, SMTT(30) DEF StoreFails, TypeOK, LocalTypes, Others, local
  <2>2. attempt' \in [Upload -> 1..MaxAttempts]
    <3>1. attempt \in [Upload -> 1..MaxAttempts] /\ attempt[u] < MaxAttempts
      BY <1>1, <1>6 DEF StoreFails, TypeOK
    <3>2. attempt[u] + 1 \in 1..MaxAttempts
      BY <3>1, Limits
    <3> QED
      BY <1>6, <3>1, <3>2 DEF StoreFails
  <2>3. /\ UNCHANGED <<rows, saves, stale>> /\ now' \in 0..MaxTime /\ now' >= now
        /\ alerts' \in Seq(Alert)
    BY <1>1, <1>6 DEF StoreFails, TypeOK
  <2>4. pc'[u] \notin {"save", "check", "alert"}
    BY <2>1
  <2> QED
    BY <2>1, <2>2, <2>3, <2>4, QuietStep
<1> QED
  BY <1>2, <1>3, <1>4, <1>5, <1>6

\* The query finds a row that is still active, whose end is late enough for the copy
\* not to end before it starts, up to the clocks.
LEMMA LookupInv == ASSUME FlowInv, NEW u \in Upload, Lookup(u) PROVE FlowInv'
<1> USE UploadsAreSequences, Limits
<1>1. TypeOK /\ now \in 0..MaxTime /\ now' = now /\ rows \in Seq(Row)
  BY DEF FlowInv, TypeOK, Lookup
<1>2. at[u] <= Len(PacketsOf[u]) /\ Packet(u) \in Flow
  BY <1>1 DEF Lookup, Packet, TypeOK
<1>3. PICK ts \in PacketTimes : \E i \in Found(Packet(u), ts) :
        /\ base' = [base EXCEPT ![u] = i]
        /\ seen' = [seen EXCEPT ![u] = IF i = 0 THEN 0 ELSE saves[i]]
        /\ copy' = [copy EXCEPT ![u] = Counted(i, Packet(u), ts)]
  BY DEF Lookup
<1>4. PICK i \in Found(Packet(u), ts) :
        /\ base' = [base EXCEPT ![u] = i]
        /\ seen' = [seen EXCEPT ![u] = IF i = 0 THEN 0 ELSE saves[i]]
        /\ copy' = [copy EXCEPT ![u] = Counted(i, Packet(u), ts)]
  BY <1>3
<1>5. ts \in Time /\ ts \in Int /\ now - Skew <= ts /\ ts <= now + Skew
  BY <1>1 DEF PacketTimes, Time
<1>6. i \in 0..Len(rows)
  BY <1>1, <1>2, <1>5, FoundRow
<1> DEFINE c == Counted(i, Packet(u), ts)
<1>7. /\ base'[u] = i /\ copy'[u] = c /\ seen'[u] = IF i = 0 THEN 0 ELSE saves[i]
      /\ pc'[u] = "save" /\ at'[u] = at[u] /\ Others(u)
  BY <1>1, <1>4 DEF Lookup, TypeOK, Others
<1>8. LocalTypes'
  <2>1. i # 0 => saves[i] \in Nat
    BY <1>1, <1>6 DEF TypeOK
  <2> QED
    BY <1>1, <1>4, <1>6, <2>1 DEF Lookup, LocalTypes, TypeOK
<1>9. c \in Row /\ CopyInv(u)'
  <2>1. /\ c \in Row
        /\ i = 0 => c.start = ts /\ c.count = 1
        /\ c.end = ts
        /\ i # 0 => /\ c.flow = rows[i].flow /\ c.start = rows[i].start
                    /\ c.count = rows[i].count + 1
                    /\ c.label = rows[i].label /\ c.engine = rows[i].engine
    BY <1>1, <1>2, <1>5, <1>6, CountedRow
  <2> HIDE DEF c
  <2>2. i # 0 => rows[i].start \in Int /\ rows[i].start <= now + Skew
    BY <1>1, <1>6, StartsAreIntegers DEF FlowInv, StartInv
  <2>3. c.start <= now + Skew /\ c.end - c.start >= 0 - 2 * Skew
    BY <1>1, <1>5, <1>6, <2>1, <2>2, SMTT(30)
  <2>4. i # 0 => saves[i] \in Nat
    BY <1>1, <1>6 DEF TypeOK
  <2>5. UNCHANGED <<rows, saves>> /\ at'[u] <= Len(PacketsOf[u])
    BY <1>2, <1>7 DEF Lookup
  <2>6. CASE i = 0
    BY <1>1, <1>7, <2>1, <2>3, <2>5, <2>6 DEF CopyInv
  <2>7. CASE i # 0
    BY <1>1, <1>7, <2>1, <2>3, <2>4, <2>5, <2>7 DEF CopyInv
  <2> QED
    BY <2>6, <2>7
<1> HIDE DEF c
<1> QED
  BY <1>1, <1>6, <1>7, <1>8, <1>9, QuietStep DEF Lookup, TypeOK

-----------------------------------------------------------------------------
(* The save.                                                                *)

\* What worker u writes: its copy with a verdict.
Writes(u, r) == /\ r \in Row /\ r.flow = copy[u].flow /\ r.start = copy[u].start
                /\ r.end = copy[u].end /\ r.count = copy[u].count
                /\ Confirmed(copy[u]) => Confirmed(r) \/ r.engine = "Other"
                /\ IF base[u] = 0
                   THEN rows' = Append(rows, r) /\ saves' = Append(saves, 1)
                   ELSE /\ rows' = [rows EXCEPT ![base[u]] = r]
                        /\ saves' = [saves EXCEPT ![base[u]] = @ + 1]
                /\ stale' = IF OutOfDate(u) THEN stale \cup {copy[u].flow} ELSE stale

LEMMA SaveWrites ==
  ASSUME FlowInv, NEW u \in Upload, Save(u)
  PROVE  /\ copy[u] \in Row /\ CopyInv(u) /\ base[u] \in 0..Len(rows) /\ seen[u] \in Nat
         /\ \E r : Writes(u, r)
<1>1. copy[u] \in Row /\ CopyInv(u) /\ base[u] \in 0..Len(rows) /\ seen[u] \in Nat
  BY DEF Save, FlowInv, TypeOK
<1>2. PICK v \in Verdicts(copy[u]) :
        IF base[u] = 0
        THEN rows' = Append(rows, Classified(copy[u], v)) /\ saves' = Append(saves, 1)
        ELSE /\ rows' = [rows EXCEPT ![base[u]] = Classified(copy[u], v)]
             /\ saves' = [saves EXCEPT ![base[u]] = @ + 1]
  BY DEF Save
<1> DEFINE r == Classified(copy[u], v)
<1>3. /\ r \in Row /\ r.flow = copy[u].flow /\ r.start = copy[u].start /\ r.end = copy[u].end
      /\ r.count = copy[u].count
      /\ Confirmed(copy[u]) => Confirmed(r) \/ r.engine = "Other"
  BY <1>1, ClassifiedRow
<1>4. stale' = IF OutOfDate(u) THEN stale \cup {copy[u].flow} ELSE stale
  BY DEF Save
<1>5. IF base[u] = 0
      THEN rows' = Append(rows, r) /\ saves' = Append(saves, 1)
      ELSE rows' = [rows EXCEPT ![base[u]] = r] /\ saves' = [saves EXCEPT ![base[u]] = @ + 1]
  BY <1>2
<1> HIDE DEF r
<1>6. Writes(u, r)
  BY <1>3, <1>4, <1>5 DEF Writes
<1> QED
  BY <1>1, <1>6

\* One row is new or replaced, and the others stay.
LEMMA RowsAfter ==
  ASSUME FlowInv, NEW u \in Upload, copy[u] \in Row, base[u] \in 0..Len(rows),
         NEW r, Writes(u, r),
         NEW b, b = IF base[u] = 0 THEN Len(rows) + 1 ELSE base[u]
  PROVE  /\ rows' \in Seq(Row) /\ saves' \in Seq(Nat \ {0}) /\ Len(saves') = Len(rows')
         /\ Len(rows') \in Nat /\ Len(rows') >= Len(rows) /\ b \in 1..Len(rows')
         /\ rows'[b] = r
         /\ base[u] = 0 => b = Len(rows') /\ saves'[b] = 1
         /\ base[u] # 0 => Len(rows') = Len(rows) /\ saves'[b] = saves[b] + 1
         /\ \A i \in 1..Len(rows') : i # b => /\ i \in 1..Len(rows)
                                             /\ rows'[i] = rows[i] /\ saves'[i] = saves[i]
         /\ stale \subseteq stale' /\ stale' \subseteq Flow
<1>1. /\ rows \in Seq(Row) /\ saves \in Seq(Nat \ {0}) /\ Len(saves) = Len(rows)
      /\ Len(rows) \in Nat /\ stale \subseteq Flow
  BY DEF FlowInv, TypeOK
<1>2. r \in Row /\ stale \subseteq stale' /\ stale' \subseteq Flow
  BY <1>1 DEF Writes, Row
<1>3. CASE base[u] = 0
  <2>1. rows' = Append(rows, r) /\ saves' = Append(saves, 1)
    BY <1>3 DEF Writes
  <2> QED
    BY <1>1, <1>2, <1>3, <2>1
<1>4. CASE base[u] # 0
  <2>1. rows' = [rows EXCEPT ![base[u]] = r] /\ saves' = [saves EXCEPT ![base[u]] = @ + 1]
    BY <1>4 DEF Writes
  <2> QED
    BY <1>1, <1>2, <1>4, <2>1
<1> QED
  BY <1>3, <1>4

\* A flow of which no copy was out of date: the query would still answer with the
\* same row, and nobody has saved it since.
LEMMA UpToDate ==
  ASSUME FlowInv, NEW u \in Upload, copy[u] \in Row, CopyInv(u), base[u] \in 0..Len(rows),
         NEW r, Writes(u, r), r.flow \notin stale'
  PROVE  /\ base[u] = 0 => \A j \in 1..Len(rows) :
                             rows[j].flow = r.flow => ~(rows[j].end >= r.end - Window)
         /\ base[u] # 0 => /\ rows[base[u]].flow = r.flow
                           /\ rows[base[u]].end >= r.end - Window
                           /\ \A j \in 1..Len(rows) :
                                rows[j].flow = r.flow /\ rows[j].end >= r.end - Window
                                  => rows[j].end <= rows[base[u]].end
                           /\ r.start = rows[base[u]].start
                           /\ r.count = rows[base[u]].count + 1
                           /\ Confirmed(rows[base[u]]) => Confirmed(r) \/ r.engine = "Other"
<1>1. r \in Row /\ r.flow = copy[u].flow /\ r.end = copy[u].end /\ r.start = copy[u].start
      /\ r.count = copy[u].count
  BY DEF Writes
<1>2. ~OutOfDate(u)
  BY <1>1 DEF Writes
<1>3. base[u] \in Found(copy[u].flow, copy[u].end) /\ (base[u] # 0 => saves[base[u]] = seen[u])
  BY <1>2 DEF OutOfDate
<1>4. copy[u].flow \in Flow /\ copy[u].end \in Int /\ rows \in Seq(Row)
  BY Limits DEF Row, Time, FlowInv, TypeOK
<1>5. base[u] # 0 => /\ copy[u].start = rows[base[u]].start
                     /\ copy[u].count = rows[base[u]].count + 1
                     /\ Confirmed(rows[base[u]]) => Confirmed(copy[u])
  BY <1>3 DEF CopyInv, Confirmed
<1>6. Confirmed(copy[u]) => Confirmed(r) \/ r.engine = "Other"
  BY DEF Writes
<1> QED
  BY <1>1, <1>3, <1>4, <1>5, <1>6, FoundRow

LEMMA RowIntegers ==
  ASSUME NEW r \in Row
  PROVE  r.start \in Int /\ r.end \in Int /\ r.count \in Nat /\ r.flow \in Flow
BY Limits DEF Row, Time

LEMMA SaveInv == ASSUME FlowInv, NEW u \in Upload, Save(u) PROVE FlowInv'
<1> USE Limits
<1>1. /\ copy[u] \in Row /\ CopyInv(u) /\ base[u] \in 0..Len(rows) /\ seen[u] \in Nat
      /\ now' = now /\ now \in 0..MaxTime /\ TypeOK
  BY SaveWrites DEF Save, FlowInv, TypeOK
<1>2. PICK r : Writes(u, r)
  BY SaveWrites
<1>3. PICK b : b = IF base[u] = 0 THEN Len(rows) + 1 ELSE base[u]
  OBVIOUS
<1>4. /\ rows' \in Seq(Row) /\ saves' \in Seq(Nat \ {0}) /\ Len(saves') = Len(rows')
      /\ Len(rows') \in Nat /\ Len(rows') >= Len(rows) /\ b \in 1..Len(rows')
      /\ rows'[b] = r
      /\ base[u] = 0 => b = Len(rows') /\ saves'[b] = 1
      /\ base[u] # 0 => Len(rows') = Len(rows) /\ saves'[b] = saves[b] + 1
      /\ \A i \in 1..Len(rows') : i # b => /\ i \in 1..Len(rows)
                                          /\ rows'[i] = rows[i] /\ saves'[i] = saves[i]
      /\ stale \subseteq stale' /\ stale' \subseteq Flow
  BY <1>1, <1>2, <1>3, RowsAfter
<1>5. /\ r \in Row /\ r.flow = copy[u].flow /\ r.start = copy[u].start /\ r.end = copy[u].end
      /\ r.count = copy[u].count
  BY <1>2 DEF Writes
<1>6. r.flow \notin stale' =>
        /\ base[u] = 0 => \A j \in 1..Len(rows) :
                             rows[j].flow = r.flow => ~(rows[j].end >= r.end - Window)
        /\ base[u] # 0 => /\ rows[base[u]].flow = r.flow
                          /\ rows[base[u]].end >= r.end - Window
                          /\ \A j \in 1..Len(rows) :
                                rows[j].flow = r.flow /\ rows[j].end >= r.end - Window
                                  => rows[j].end <= rows[base[u]].end
                          /\ r.start = rows[base[u]].start
                          /\ r.count = rows[base[u]].count + 1
  BY <1>1, <1>2, UpToDate
<1>7. /\ r.start \in Int /\ r.end \in Int /\ r.count \in Nat
      /\ r.start <= now + Skew /\ r.end - r.start >= 0 - 2 * Skew
      /\ base[u] = 0 => r.start = r.end /\ r.count = 1
  BY <1>1, <1>5, RowIntegers DEF CopyInv
<1>8. \A i \in 1..Len(rows) : /\ rows[i] \in Row /\ rows[i].start \in Int /\ rows[i].end \in Int
                              /\ saves[i] \in Nat
  BY <1>1, RowIntegers DEF TypeOK
<1>9. /\ LocalTypes' /\ Others(u) /\ pc'[u] \in {"lookup", "check"}
      /\ pc'[u] = "check" => at'[u] <= Len(PacketsOf[u]) /\ threat'[u] \in Threat
      /\ base'[u] = 0
  <2>1. at[u] <= Len(PacketsOf[u])
    BY <1>1 DEF CopyInv
  <2>2. CASE NextPacket(u)
    BY <1>1, <2>1, <2>2, NextPacketTypes
  <2>3. ASSUME NEW l \in Threat, Forget(u), threat' = [threat EXCEPT ![u] = l],
               pc' = [pc EXCEPT ![u] = "check"], UNCHANGED at
        PROVE  /\ LocalTypes' /\ Others(u) /\ pc'[u] = "check" /\ at'[u] = at[u]
               /\ threat'[u] = l /\ base'[u] = 0
    BY <1>1, <2>1, <2>3, SMTT(30) DEF TypeOK, LocalTypes, Others, Forget, Labels
  <2>4. PICK v \in Verdicts(copy[u]) :
          IF Classified(copy[u], v).label # Normal
          THEN /\ Forget(u)
               /\ threat' = [threat EXCEPT ![u] = Classified(copy[u], v).label]
               /\ pc' = [pc EXCEPT ![u] = "check"]
               /\ UNCHANGED at
          ELSE NextPacket(u)
    BY DEF Save
  <2>5. Classified(copy[u], v) \in Row
    BY <1>1, ClassifiedRow
  <2>6. CASE Classified(copy[u], v).label # Normal
    <3>1. Classified(copy[u], v).label \in Threat
      BY <2>5, <2>6 DEF Row, Labels
    <3> QED
      BY <2>1, <2>3, <2>4, <2>6, <3>1
  <2>7. CASE Classified(copy[u], v).label = Normal
    BY <2>2, <2>4, <2>7
  <2> QED
    BY <2>6, <2>7
<1>10. TypeOK'
  <2>1. \A w \in Upload : /\ base'[w] \in 0..Len(rows')
                          /\ pc'[w] = "save" => copy'[w] \in Row
    <3> SUFFICES ASSUME NEW w \in Upload
                 PROVE  base'[w] \in 0..Len(rows') /\ (pc'[w] = "save" => copy'[w] \in Row)
      OBVIOUS
    <3>1. CASE w = u
      BY <1>4, <1>9, <3>1
    <3>2. CASE w # u
      <4>1. base[w] \in 0..Len(rows) /\ (pc[w] = "save" => copy[w] \in Row)
        BY <1>1 DEF TypeOK
      <4>2. base'[w] = base[w] /\ pc'[w] = pc[w] /\ copy'[w] = copy[w]
        BY <1>9, <3>2 DEF Others
      <4> QED
        BY <1>4, <4>1, <4>2
    <3> QED
      BY <3>1, <3>2
  <2>2. alerts' \in Seq(Alert) /\ attempt' \in [Upload -> 1..MaxAttempts]
    BY <1>1 DEF Save, TypeOK
  <2>3. \A w \in Upload : pc'[w] \in {"check", "alert"} => threat'[w] \in Threat
    BY <1>1, <1>9 DEF TypeOK, Others
  <2> QED
    BY <1>1, <1>4, <1>9, <2>1, <2>2, <2>3 DEF TypeOK, LocalTypes
<1>11. \A w \in Upload : pc'[w] = "save" => CopyInv(w)'
  <2> SUFFICES ASSUME NEW w \in Upload, pc'[w] = "save" PROVE CopyInv(w)'
    OBVIOUS
  <2>1. /\ w # u /\ pc[w] = "save" /\ at'[w] = at[w] /\ base'[w] = base[w]
        /\ copy'[w] = copy[w] /\ seen'[w] = seen[w]
    BY <1>9 DEF Others
  <2>2. CopyInv(w) /\ base[w] \in 0..Len(rows) /\ seen[w] \in Nat
    BY <1>1, <2>1 DEF FlowInv, TypeOK
  <2>3. CASE base[w] = 0 \/ base[w] # b
    <3>1. base[w] # 0 => rows'[base[w]] = rows[base[w]] /\ saves'[base[w]] = saves[base[w]]
      BY <1>4, <2>2, <2>3
    <3> QED
      BY <1>1, <2>1, <2>2, <3>1 DEF CopyInv
  <2>4. CASE base[w] # 0 /\ base[w] = b
    <3>1. base[u] = b /\ base[u] # 0
      BY <1>1, <1>3, <2>2, <2>4 DEF TypeOK
    <3>2. r.flow = rows[b].flow /\ saves'[b] = saves[b] + 1 /\ saves[b] \in Nat
      BY <1>1, <1>4, <1>5, <1>8, <3>1 DEF CopyInv
    <3>3. copy[w].flow = rows'[b].flow /\ seen[w] <= saves'[b] /\ seen[w] # saves'[b]
      <4>1. copy[w].flow = rows[b].flow /\ seen[w] <= saves[b]
        BY <2>2, <2>4 DEF CopyInv
      <4> QED
        BY <1>4, <2>2, <3>2, <4>1
    <3> QED
      BY <1>1, <2>1, <2>2, <2>4, <3>3 DEF CopyInv
  <2> QED
    BY <2>3, <2>4
<1>12. StartInv' /\ DurationBounded'
  BY <1>1, <1>4, <1>7 DEF FlowInv, StartInv, DurationBounded
<1>13. CountExact'
  <2> SUFFICES ASSUME NEW i \in 1..Len(rows'), rows'[i].flow \notin stale'
               PROVE  rows'[i].count = saves'[i]
    BY DEF CountExact
  <2>1. CASE i # b
    BY <1>4, <2>1 DEF FlowInv, CountExact
  <2>2. CASE i = b /\ base[u] = 0
    BY <1>4, <1>7, <2>2
  <2>3. CASE i = b /\ base[u] # 0
    <3>1. rows[b].flow = r.flow /\ r.count = rows[b].count + 1 /\ b \in 1..Len(rows)
      BY <1>1, <1>3, <1>4, <1>6, <2>3
    <3>2. rows[b].count = saves[b]
      BY <1>4, <2>3, <3>1 DEF FlowInv, CountExact
    <3> QED
      BY <1>4, <2>3, <3>1, <3>2
  <2> QED
    BY <2>1, <2>2, <2>3
<1>14. RowsApart'
  <2> SUFFICES ASSUME NEW i \in 1..Len(rows'), NEW j \in 1..Len(rows'), i < j,
                      rows'[i].flow = rows'[j].flow, rows'[i].flow \notin stale'
               PROVE  rows'[j].start > rows'[i].end + Window /\ rows'[j].end > rows'[i].end
    BY DEF RowsApart
  <2>1. CASE i # b /\ j # b
    BY <1>4, <2>1 DEF FlowInv, RowsApart
  <2>2. CASE j = b /\ base[u] = 0
    <3>1. i \in 1..Len(rows) /\ rows'[i] = rows[i] /\ rows'[j] = r
      BY <1>3, <1>4, <2>2, SMTT(30)
    <3>2. rows[i].end \in Int /\ rows[i].flow = r.flow /\ r.flow \notin stale'
      BY <1>8, <3>1
    <3>3. ~(rows[i].end >= r.end - Window)
      BY <1>6, <2>2, <3>1, <3>2
    <3> QED
      BY <1>7, <2>2, <3>1, <3>2, <3>3
  <2>3. CASE j = b /\ base[u] # 0
    <3>1. /\ i \in 1..Len(rows) /\ rows'[i] = rows[i] /\ rows'[j] = r /\ b = base[u]
          /\ b \in 1..Len(rows)
      BY <1>1, <1>3, <1>4, <2>3
    <3>2. rows[b].flow = r.flow /\ r.start = rows[b].start
      BY <1>6, <2>3, <3>1
    <3>3. rows[b].start > rows[i].end + Window
      BY <1>4, <2>3, <3>1, <3>2, SMTT(30) DEF FlowInv, RowsApart
    <3>4. rows[i].end \in Int
      BY <1>8, <3>1
    <3>5. r.end > rows[i].end
      BY <1>7, <3>2, <3>3, <3>4, SMTT(30)
    <3> QED
      BY <3>1, <3>2, <3>3, <3>5
  <2>4. CASE i = b
    <3>1. /\ base[u] # 0 /\ b = base[u] /\ b \in 1..Len(rows) /\ j \in 1..Len(rows)
          /\ rows'[j] = rows[j] /\ rows'[i] = r
      BY <1>1, <1>3, <1>4, <2>4, SMTT(30)
    <3>2. rows[b].flow = r.flow /\ rows[b].end >= r.end - Window
      BY <1>6, <2>4, <3>1
    <3>3. rows[j].start > rows[b].end + Window /\ rows[j].end > rows[b].end
      BY <1>4, <2>4, <3>1, <3>2 DEF FlowInv, RowsApart
    <3>4. /\ rows[j].end \in Int /\ rows[b].end \in Int /\ rows[j].start \in Int
          /\ rows[j].flow = r.flow /\ r.flow \notin stale'
      BY <1>8, <3>1
    <3>5. ~(rows[j].end >= r.end - Window)
      BY <1>6, <3>1, <3>3, <3>4
    <3>6. FALSE
      BY <1>7, <3>2, <3>3, <3>4, <3>5, SMTT(30)
    <3> QED
      BY <3>6
  <2> QED
    BY <1>3, <2>1, <2>2, <2>3, <2>4
<1>15. \A w \in Upload : pc'[w] \in {"check", "alert"} => at'[w] <= Len(PacketsOf[w])
  BY <1>9 DEF FlowInv, Others
<1> QED
  BY <1>10, <1>11, <1>12, <1>13, <1>14, <1>15 DEF FlowInv

-----------------------------------------------------------------------------
(* The theorems.                                                            *)

LEMMA StutterInv == ASSUME FlowInv, UNCHANGED vars PROVE FlowInv'
BY DEF FlowInv, vars, local, TypeOK, CopyInv, StartInv, CountExact, RowsApart, DurationBounded

\* The invariant holds for any uploads, clocks and limits.
THEOREM FlowInvariant == Spec => []FlowInv
<1>1. FlowInv /\ [Next]_vars => FlowInv'
  BY TickInv, LookupInv, SaveInv, OtherInv, StutterInv DEF Next, Step
<1> QED
  BY InitFlowInv, <1>1, PTL DEF Spec

\* Every variable keeps its type: prepare_packet_record works on one packet of the
\* upload, on no row or one that exists.
THEOREM FlowTypeCorrect == Spec => []TypeOK
<1>1. FlowInv => TypeOK
  BY DEF FlowInv
<1> QED
  BY FlowInvariant, <1>1, PTL

\* Of a flow on which no two workers overlapped, packet_count is the number of times
\* prepare_packet_record saved the row.
THEOREM CountsAreExact == Spec => []CountExact
<1>1. FlowInv => CountExact
  BY DEF FlowInv
<1> QED
  BY FlowInvariant, <1>1, PTL

\* Of such a flow, the query for an active row never leaves one alone that it should
\* have continued.
THEOREM RowsAreApart == Spec => []RowsApart
<1>1. FlowInv => RowsApart
  BY DEF FlowInv
<1> QED
  BY FlowInvariant, <1>1, PTL

\* A negative duration is no longer than the error of two clocks.
THEOREM DurationsAreBounded == Spec => []DurationBounded
<1>1. FlowInv => DurationBounded
  BY DEF FlowInv
<1> QED
  BY FlowInvariant, <1>1, PTL

\* What XGBoost has confirmed is taken back only by another engine or by a worker that
\* overlapped with another.
THEOREM ConfirmationsStay == Spec => ConfirmedStays
<1> DEFINE Stays == \A i \in 1..Len(rows) :
                      Confirmed(rows[i]) /\ ~Confirmed(rows'[i])
                        => rows'[i].engine = "Other" \/ rows[i].flow \in stale'
<1>1. ASSUME FlowInv, NEW u \in Upload, Save(u) PROVE Stays
  <2>1. copy[u] \in Row /\ CopyInv(u) /\ base[u] \in 0..Len(rows)
    BY <1>1, SaveWrites
  <2>2. PICK r : Writes(u, r)
    BY <1>1, SaveWrites
  <2> SUFFICES ASSUME NEW i \in 1..Len(rows), Confirmed(rows[i]), ~Confirmed(rows'[i]),
                      rows[i].flow \notin stale'
               PROVE  rows'[i].engine = "Other"
    OBVIOUS
  <2>3. i = base[u] /\ rows'[i] = r
    BY <1>1, <2>1, <2>2, RowsAfter, SMTT(30)
  <2>4. rows[i].flow = r.flow
    BY <2>1, <2>2, <2>3 DEF Writes, CopyInv
  <2> QED
    BY <1>1, <2>1, <2>2, <2>3, <2>4, UpToDate
<1>2. ASSUME UNCHANGED rows PROVE Stays
  BY <1>2
<1>3. FlowInv /\ [Next]_vars => [Stays]_vars
  BY <1>1, <1>2 DEF Next, Step, Tick, Lookup, Skip, CheckAlert, CreateAlert, Finish, StoreFails, vars
<1> QED
  BY FlowInvariant, <1>3, PTL DEF Spec, ConfirmedStays

-----------------------------------------------------------------------------
(* Alerts.                                                                  *)

-----------------------------------------------------------------------------
(* Alerts.                                                                  *)

\* Only finitely many alerts and workers.
LEMMA AlertsFinite ==
  ASSUME TypeOK
  PROVE  /\ \A l, t : IsFiniteSet(AlertsFrom(l, t)) /\ Cardinality(AlertsFrom(l, t)) \in Nat
         /\ \A l : /\ IsFiniteSet(Alerting(l)) /\ Cardinality(Alerting(l)) \in Nat
                  /\ Cardinality(Alerting(l)) <= Cardinality(Upload)
         /\ Cardinality(Upload) \in Nat
<1>1. IsFiniteSet(1..Len(alerts))
  BY FS_Interval DEF TypeOK
<1>2. \A l, t : AlertsFrom(l, t) \subseteq 1..Len(alerts)
  BY DEF AlertsFrom
<1>3. \A l, t : IsFiniteSet(AlertsFrom(l, t)) /\ Cardinality(AlertsFrom(l, t)) \in Nat
  BY <1>1, <1>2, FS_Subset, FS_CardinalityType
<1>4. IsFiniteSet(Upload) /\ \A l : Alerting(l) \subseteq Upload
  BY FlowAssumption DEF Alerting
<1> QED
  BY <1>3, <1>4, FS_Subset, FS_CardinalityType

\* A step that adds no alert: no worker that looks for an alert of its threat misses
\* one that still counts.
LEMMA NoAlertStep ==
  ASSUME TypeOK, TypeOK', AlertsBounded, AlertInv, now <= now', alerts' = alerts,
         \A l \in Threat :
           \/ Alerting(l)' \subseteq Alerting(l)
           \/ now' = now /\ \A i \in 1..Len(alerts) : ~Suppresses(alerts[i], l)
  PROVE  AlertsBounded' /\ AlertInv'
<1>1. \A l, t : AlertsFrom(l, t)' = AlertsFrom(l, t)
  BY DEF AlertsFrom
<1>2. AlertsBounded'
  BY <1>1 DEF AlertsBounded
<1>3. ASSUME NEW l \in Threat, NEW t \in 0..MaxTime, AlertsFrom(l, t) # {},
             now' <= t + AlertWindow
      PROVE  Cardinality(AlertsFrom(l, t)) + Cardinality(Alerting(l)') <= Cardinality(Upload)
  <2>1. PICK i \in 1..Len(alerts) : /\ alerts[i].type = l
                                    /\ alerts[i].time \in t..(t + AlertWindow)
    BY <1>3 DEF AlertsFrom
  <2>2. now \in Int /\ now' \in Int /\ t \in Int /\ AlertWindow \in Nat
    BY Limits DEF TypeOK
  <2>3. Alerting(l)' \subseteq Alerting(l)
    BY <1>3, <2>1, <2>2 DEF Suppresses
  <2>4. Cardinality(Alerting(l)') <= Cardinality(Alerting(l)) /\ Cardinality(Alerting(l)') \in Nat
    BY <2>3, AlertsFinite, FS_Subset, FS_CardinalityType
  <2>5. Cardinality(AlertsFrom(l, t)) + Cardinality(Alerting(l)) <= Cardinality(Upload)
    BY <1>3, <2>2 DEF AlertInv
  <2> QED
    BY <2>4, <2>5, AlertsFinite
<1> QED
  BY <1>1, <1>2, <1>3 DEF AlertInv

\* A worker that adds an alert is no longer about to; the other types are not touched.
LEMMA CreateAlertStep ==
  ASSUME TypeOK, AlertsBounded, AlertInv, NEW u \in Upload, CreateAlert(u)
  PROVE  AlertsBounded' /\ AlertInv'
<1>0. PICK k \in Threat : k = threat[u]
  BY DEF CreateAlert, TypeOK
<1> DEFINE a == [type |-> k, time |-> now]
<1>1. /\ Alerting(k)' = Alerting(k) \ {u} /\ u \in Alerting(k)
      /\ \A l : l # k => Alerting(l)' = Alerting(l)
  <2>1. /\ pc[u] = "alert" /\ pc' = [pc EXCEPT ![u] = "lookup"]
        /\ threat' = [threat EXCEPT ![u] = Normal]
    BY DEF CreateAlert, NextPacket
  <2> QED
    BY <1>0, <2>1, Limits DEF Alerting, TypeOK
<1>2. Cardinality(Alerting(k)') = Cardinality(Alerting(k)) - 1 /\ Cardinality(Alerting(k)') \in Nat
  BY <1>1, AlertsFinite, FS_RemoveElement, FS_CardinalityType
<1>3. alerts' = Append(alerts, a) /\ now' = now /\ now \in Int /\ Len(alerts) \in Nat
  BY <1>0 DEF CreateAlert, TypeOK
<1>4. /\ Len(alerts') = Len(alerts) + 1 /\ alerts'[Len(alerts) + 1] = a
      /\ \A i \in 1..Len(alerts) : alerts'[i] = alerts[i]
  BY <1>3 DEF TypeOK
<1>5. a.type = k /\ a.time = now
  OBVIOUS
<1> HIDE DEF a
<1>6. ASSUME NEW l, NEW t \in 0..MaxTime, l # k \/ now \notin t..(t + AlertWindow)
      PROVE  AlertsFrom(l, t)' = AlertsFrom(l, t)
  BY <1>3, <1>4, <1>5, <1>6 DEF AlertsFrom
<1>7. ASSUME NEW t \in 0..MaxTime, now \in t..(t + AlertWindow)
      PROVE  Cardinality(AlertsFrom(k, t)') = Cardinality(AlertsFrom(k, t)) + 1
  <2>1. AlertsFrom(k, t)' = AlertsFrom(k, t) \cup {Len(alerts) + 1}
    BY <1>3, <1>4, <1>5, <1>7 DEF AlertsFrom
  <2>2. Len(alerts) + 1 \notin AlertsFrom(k, t)
    BY <1>3 DEF AlertsFrom
  <2> QED
    BY <2>1, <2>2, AlertsFinite, FS_AddElement
<1>8. ASSUME NEW t \in 0..MaxTime, now \in t..(t + AlertWindow)
      PROVE  Cardinality(AlertsFrom(k, t)') + Cardinality(Alerting(k)') <= Cardinality(Upload)
  <2>1. CASE AlertsFrom(k, t) = {}
    <3>1. Cardinality(AlertsFrom(k, t)) = 0
      BY <2>1, FS_EmptySet
    <3> QED
      BY <1>2, <1>7, <1>8, <3>1, AlertsFinite
  <2>2. CASE AlertsFrom(k, t) # {}
    <3>1. now <= t + AlertWindow
      BY <1>3, <1>8, Limits
    <3>2. Cardinality(AlertsFrom(k, t)) + Cardinality(Alerting(k)) <= Cardinality(Upload)
      BY <2>2, <3>1 DEF AlertInv
    <3> QED
      BY <1>2, <1>7, <1>8, <3>2, AlertsFinite
  <2> QED
    BY <2>1, <2>2
<1>9. AlertsBounded'
  <2>1. ASSUME NEW l \in Threat, NEW t \in 0..MaxTime
        PROVE  Cardinality(AlertsFrom(l, t)') <= Cardinality(Upload)
    <3>1. CASE l = k /\ now \in t..(t + AlertWindow)
      BY <1>2, <1>7, <1>8, <3>1, AlertsFinite
    <3>2. CASE l # k \/ now \notin t..(t + AlertWindow)
      BY <1>6, <3>2 DEF AlertsBounded
    <3> QED
      BY <3>1, <3>2
  <2> QED
    BY <2>1 DEF AlertsBounded
<1>10. AlertInv'
  <2>1. ASSUME NEW l \in Threat, NEW t \in 0..MaxTime, AlertsFrom(l, t)' # {},
               now <= t + AlertWindow
        PROVE  Cardinality(AlertsFrom(l, t)') + Cardinality(Alerting(l)') <= Cardinality(Upload)
    <3>1. CASE l = k /\ now \in t..(t + AlertWindow)
      BY <1>8, <3>1
    <3>2. CASE l # k \/ now \notin t..(t + AlertWindow)
      <4>1. /\ AlertsFrom(l, t)' = AlertsFrom(l, t)
            /\ Cardinality(AlertsFrom(l, t)) + Cardinality(Alerting(l)) <= Cardinality(Upload)
        BY <1>6, <2>1, <3>2 DEF AlertInv
      <4>2. /\ Cardinality(Alerting(l)') <= Cardinality(Alerting(l))
            /\ Cardinality(Alerting(l)') \in Nat
        <5>1. CASE l = k
          BY <1>2, <5>1, AlertsFinite
        <5>2. CASE l # k
          <6>1. Alerting(l)' = Alerting(l)
            BY <1>1, <5>2
          <6> QED
            BY <6>1, AlertsFinite
        <5> QED
          BY <5>1, <5>2
      <4> QED
        BY <4>1, <4>2, AlertsFinite
    <3> QED
      BY <3>1, <3>2
  <2> QED
    BY <1>3, <2>1 DEF AlertInv
<1> QED
  BY <1>9, <1>10

\* However the workers overlap, each adds one alert of a type at most within AlertWindow.
THEOREM AlertsAreBounded == Spec => []AlertsBounded
<1>1. Init => AlertsBounded /\ AlertInv
  <2> SUFFICES ASSUME Init PROVE AlertsBounded /\ AlertInv
    OBVIOUS
  <2>1. \A l, t : AlertsFrom(l, t) = {}
    BY DEF Init, AlertsFrom
  <2>2. Cardinality({}) = 0 /\ Cardinality(Upload) \in Nat
    BY FlowAssumption, FS_EmptySet, FS_CardinalityType
  <2>3. AlertsBounded
    BY <2>1, <2>2 DEF AlertsBounded
  <2>4. AlertInv
    BY <2>1 DEF AlertInv
  <2> QED
    BY <2>3, <2>4
<1>2. FlowInv /\ FlowInv' /\ AlertsBounded /\ AlertInv /\ [Next]_vars => AlertsBounded' /\ AlertInv'
  <2> SUFFICES ASSUME FlowInv, FlowInv', AlertsBounded, AlertInv, [Next]_vars
               PROVE  AlertsBounded' /\ AlertInv'
    OBVIOUS
  <2>1. TypeOK /\ TypeOK' /\ now \in Int
    BY DEF FlowInv, TypeOK
  <2>2. CASE Tick \/ UNCHANGED vars
    <3>1. now <= now' /\ alerts' = alerts /\ \A l : Alerting(l)' = Alerting(l)
      BY <2>1, <2>2 DEF Tick, vars, local, Alerting
    <3> QED
      BY <2>1, <3>1, NoAlertStep
  <2>3. ASSUME NEW u \in Upload, now' = now, alerts' = alerts, pc'[u] # "alert",
               \A w \in Upload \ {u} : pc'[w] = pc[w] /\ threat'[w] = threat[w]
        PROVE  AlertsBounded' /\ AlertInv'
    <3>1. \A l : Alerting(l)' \subseteq Alerting(l)
      BY <2>3 DEF Alerting
    <3> QED
      BY <2>1, <2>3, <3>1, NoAlertStep
  <2>4. ASSUME NEW u \in Upload,
               Lookup(u) \/ Skip(u) \/ Save(u) \/ Finish(u) \/ StoreFails(u)
        PROVE  AlertsBounded' /\ AlertInv'
    <3>1. now' = now /\ alerts' = alerts
      BY <2>4 DEF Lookup, Skip, Save, Finish, StoreFails
    <3>2. pc'[u] # "alert" /\ \A w \in Upload \ {u} : pc'[w] = pc[w] /\ threat'[w] = threat[w]
      BY <2>1, <2>4 DEF TypeOK, Lookup, Skip, Save, Finish, StoreFails, NextPacket, local
    <3> QED
      BY <2>3, <3>1, <3>2
  <2>5. ASSUME NEW u \in Upload, CheckAlert(u) PROVE AlertsBounded' /\ AlertInv'
    <3>1. now' = now /\ alerts' = alerts /\ pc[u] = "check"
      BY <2>5 DEF CheckAlert
    <3>2. CASE \E i \in 1..Len(alerts) : Suppresses(alerts[i], threat[u])
      <4>1. pc'[u] # "alert" /\ \A w \in Upload \ {u} : pc'[w] = pc[w] /\ threat'[w] = threat[w]
        BY <2>1, <2>5, <3>2 DEF TypeOK, CheckAlert, NextPacket
      <4> QED
        BY <2>3, <3>1, <4>1
    <3>3. CASE ~\E i \in 1..Len(alerts) : Suppresses(alerts[i], threat[u])
      <4>1. pc' = [pc EXCEPT ![u] = "alert"] /\ threat' = threat
        BY <2>5, <3>3 DEF CheckAlert, local
      <4>2. \A l : l # threat[u] => Alerting(l)' \subseteq Alerting(l)
        BY <2>1, <4>1 DEF TypeOK, Alerting
      <4> QED
        BY <2>1, <3>1, <3>3, <4>2, NoAlertStep
    <3> QED
      BY <3>2, <3>3
  <2> QED
    BY <2>1, <2>2, <2>4, <2>5, CreateAlertStep DEF Next, Step
<1> QED
  BY <1>1, <1>2, FlowInvariant, PTL DEF Spec
=============================================================================
