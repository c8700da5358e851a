--------------------------- MODULE DashboardProofs ---------------------------
(* What holds of Dashboard for every number of clients, forms, slots, rounds   *)
(* and values of an agent's row.                                               *)
EXTENDS Dashboard, FiniteSetTheorems, TLAPS

-----------------------------------------------------------------------------
(* The table of settings.                                                      *)

LEMMA CreatingFinite == IsFiniteSet(Creating) /\ Cardinality(Creating) \in Nat
                        /\ Cardinality(Creating) <= Cardinality(Request)
                        /\ Cardinality(Request) \in Nat
BY SettingsAssumption, FS_Subset, FS_CardinalityType DEF Creating

\* The row the model declares is whole, and so is what a form makes of a whole one.
LEMMA FirstRowWhole == FirstRow \in Row /\ Whole(FirstRow)
BY DEF FirstRow, Row, Whole, Policy

LEMMA FilledWhole ==
  ASSUME NEW s \in Row, Whole(s), s.priorities = Empty
  PROVE  [s EXCEPT !.priorities = Default] \in Row /\ Whole([s EXCEPT !.priorities = Default])
BY SettingsAssumption DEF Row, Whole, Policy

LEMMA SubmittedWhole ==
  ASSUME NEW s \in Row, NEW f \in Form,
         NEW t, t = [s EXCEPT !.priorities = f, !.qosMin = f, !.qosMax = f]
  PROVE  t \in Row /\ Whole(t)
BY DEF Row, Whole, Policy

LEMMA InitSettingsInv == SettingsInit => SettingsInv
<1> SUFFICES ASSUME SettingsInit PROVE SettingsInv
  OBVIOUS
<1>1. SettingsTypeOK
  BY FirstRowWhole DEF SettingsInit, SettingsTypeOK, Kinds
<1> QED
  BY <1>1, FirstRowWhole DEF SettingsInit, SettingsInv, PolicyWhole, CopyInv, CreatingInv, FormInv,
                              Loaded

LEMMA ResetTypes ==
  ASSUME SettingsTypeOK, NEW r \in Request, Reset(r)
  PROVE  /\ FormInv => FormInv'
         /\ at' \in [Request -> {"idle", "create", "loaded"}]
         /\ does' \in [Request -> Kinds] /\ form' \in [Request -> Limits \cup Form \cup {Default}]
         /\ row' \in [Request -> Nat] /\ copy' \in [Request -> Row]
         /\ at'[r] = "idle" /\ copy'[r] = FirstRow
         /\ \A q \in Request \ {r} : at'[q] = at[q] /\ row'[q] = row[q] /\ copy'[q] = copy[q]
BY FirstRowWhole DEF SettingsTypeOK, Reset, Kinds, FormInv

LEMMA LoadTypes ==
  ASSUME SettingsTypeOK, NEW r \in Request, NEW i \in Nat, NEW s \in Row, Load(r, i, s)
  PROVE  /\ at' \in [Request -> {"idle", "create", "loaded"}]
         /\ row' \in [Request -> Nat] /\ copy' \in [Request -> Row]
BY DEF SettingsTypeOK, Load

\* A request begins: it reads the first row, or finds none.
LEMMA FirstInv ==
  ASSUME SettingsInv, NEW r \in Request, NEW d \in Kinds, NEW f \in Limits \cup Form \cup {Default},
         d = "thresholds" => f \in Limits, d = "submit" => f \in Form, First(r, d, f)
  PROVE  SettingsInv'
<1> USE DEF SettingsInv, First, Load
<1>1. rows # <<>> => 1 \in 1..Len(rows) /\ rows[1] \in Row /\ Whole(rows[1])
  BY DEF SettingsTypeOK, PolicyWhole
<1>2. SettingsTypeOK'
  <2>1. does' \in [Request -> Kinds] /\ form' \in [Request -> Limits \cup Form \cup {Default}]
    BY DEF SettingsTypeOK
  <2>2. CASE rows = <<>>
    BY <2>1, <2>2 DEF SettingsTypeOK
  <2>3. CASE rows # <<>>
    <3>1. Load(r, 1, rows[1]) /\ SettingsTypeOK
      BY <2>3
    <3> HIDE DEF Load
    <3> QED
      BY <1>1, <2>1, <2>3, <3>1, LoadTypes DEF SettingsTypeOK
  <2> QED
    BY <2>2, <2>3
<1>3. PolicyWhole'
  BY DEF PolicyWhole
<1>4. CopyInv'
  <2>1. CASE rows = <<>>
    BY <2>1 DEF CopyInv, Loaded, SettingsTypeOK
  <2>2. CASE rows # <<>>
    BY <1>1, <2>2 DEF CopyInv, Loaded, SettingsTypeOK
  <2> QED
    BY <2>1, <2>2
<1>5. CreatingInv'
  <2>1. CASE rows = <<>>
    BY <2>1 DEF CreatingInv
  <2>2. CASE rows # <<>>
    <3>1. Creating' = Creating
      BY <2>2 DEF Creating, SettingsTypeOK
    <3> QED
      BY <2>2, <3>1 DEF CreatingInv
  <2> QED
    BY <2>1, <2>2
<1>6. FormInv'
  BY DEF FormInv, SettingsTypeOK
<1> QED
  BY <1>2, <1>3, <1>4, <1>5, <1>6

LEMMA CreateInv == ASSUME SettingsInv, NEW r \in Request, Create(r) PROVE SettingsInv'
<1> USE DEF SettingsInv, Create
<1> DEFINE n == Len(rows)
<1>1. /\ rows' \in Seq(Row) /\ Len(rows') = n + 1 /\ n \in Nat
      /\ rows'[n + 1] = FirstRow
      /\ \A i \in 1..n : rows'[i] = rows[i]
  BY FirstRowWhole DEF SettingsTypeOK
<1>2. SettingsTypeOK'
  <2>1. CASE does[r] = "view"
    BY <1>1, <2>1, ResetTypes DEF SettingsTypeOK
  <2>2. CASE does[r] # "view"
    <3>1. Load(r, n + 1, FirstRow) /\ UNCHANGED <<does, form>>
      BY <2>2
    <3>2. n + 1 \in Nat /\ SettingsTypeOK
      BY <1>1
    <3> HIDE DEF n
    <3> QED
      BY <1>1, <3>1, <3>2, FirstRowWhole, LoadTypes DEF SettingsTypeOK
  <2> QED
    BY <2>1, <2>2
<1>3. PolicyWhole'
  BY <1>1, FirstRowWhole DEF PolicyWhole
<1>4. CopyInv'
  <2> SUFFICES ASSUME NEW q \in Request
               PROVE  /\ Whole(copy'[q])
                      /\ Loaded(q)' => row'[q] \in 1..Len(rows')
                      /\ Loaded(q)' /\ q \notin overtaken' => copy'[q] = rows'[row'[q]]
    BY DEF CopyInv, Whole, Policy
  <2>1. CASE q # r
    BY <1>1, <2>1 DEF CopyInv, Loaded, SettingsTypeOK, Load, Reset
  <2>2. CASE q = r
    BY <1>1, <2>2, FirstRowWhole DEF CopyInv, Loaded, SettingsTypeOK, Load, Reset
  <2> QED
    BY <2>1, <2>2
<1>5. CreatingInv'
  <2>1. r \in Creating /\ Creating' = Creating \ {r}
    BY DEF Creating, SettingsTypeOK, Load, Reset
  <2>2. Cardinality(Creating') = Cardinality(Creating) - 1
    BY <2>1, CreatingFinite, FS_RemoveElement
  <2>3. rows = <<>> => n = 0
    BY DEF SettingsTypeOK
  <2> QED
    BY <1>1, <2>2, <2>3, CreatingFinite DEF CreatingInv
<1>6. FormInv'
  BY DEF FormInv, SettingsTypeOK, Reset
<1> QED
  BY <1>2, <1>3, <1>4, <1>5, <1>6

\* A save of a whole row s by r, whose copy, if it goes on with it, is s.
LEMMA SaveInv ==
  ASSUME SettingsInv, NEW r \in Request, Loaded(r), NEW s \in Row, Whole(s), SaveRow(r, s),
         SettingsTypeOK', FormInv',
         \/ at'[r] = "idle" /\ copy'[r] = FirstRow
         \/ at'[r] = "loaded" /\ row'[r] = row[r] /\ copy'[r] = s,
         \A q \in Request \ {r} : at'[q] = at[q] /\ row'[q] = row[q] /\ copy'[q] = copy[q]
  PROVE  SettingsInv'
<1> USE DEF SettingsInv, SaveRow
<1>1. /\ row[r] \in 1..Len(rows) /\ Len(rows') = Len(rows)
      /\ rows'[row[r]] = s
      /\ \A i \in 1..Len(rows) : i # row[r] => rows'[i] = rows[i]
  BY DEF CopyInv, SettingsTypeOK
<1>2. PolicyWhole'
  BY <1>1 DEF PolicyWhole
<1>3. CopyInv'
  <2> SUFFICES ASSUME NEW q \in Request
               PROVE  /\ Whole(copy'[q])
                      /\ Loaded(q)' => row'[q] \in 1..Len(rows')
                      /\ Loaded(q)' /\ q \notin overtaken' => copy'[q] = rows'[row'[q]]
    BY DEF CopyInv, Whole, Policy
  <2>1. CASE q # r
    BY <1>1, <2>1 DEF CopyInv, Loaded
  <2>2. CASE q = r
    BY <1>1, <2>2, FirstRowWhole DEF CopyInv, Loaded
  <2> QED
    BY <2>1, <2>2
<1>4. CreatingInv'
  <2>1. Creating' = Creating
    BY DEF Creating, Loaded
  <2>2. rows # <<>>
    BY <1>1 DEF SettingsTypeOK
  <2> QED
    BY <1>1, <2>1, <2>2 DEF CreatingInv
<1> QED
  BY <1>2, <1>3, <1>4

LEMMA SaveRowTypes ==
  ASSUME SettingsInv, NEW r \in Request, Loaded(r), NEW s \in Row, SaveRow(r, s)
  PROVE  rows' \in Seq(Row) /\ overtaken' \subseteq Request
<1>1. row[r] \in 1..Len(rows)
  BY DEF SettingsInv, CopyInv
<1> QED
  BY <1>1 DEF SettingsInv, SettingsTypeOK, SaveRow

\* The two forms and the default priorities.
LEMMA FormsInv ==
  ASSUME SettingsInv, NEW r \in Request, Fill(r) \/ SaveThresholds(r) \/ SavePolicy(r)
  PROVE  SettingsInv'
<1>1. /\ Loaded(r) /\ row[r] \in 1..Len(rows)
      /\ copy[r] \in Row /\ Whole(copy[r])
      /\ rows[row[r]] \in Row
  BY DEF SettingsInv, SettingsTypeOK, CopyInv, Fill, SaveThresholds, SavePolicy
<1>2. CASE Fill(r)
  <2> DEFINE s == [copy[r] EXCEPT !.priorities = Default]
  <2>1. s \in Row /\ Whole(s) /\ SaveRow(r, s)
    BY <1>1, <1>2, FilledWhole DEF Fill
  <2>2. /\ at'[r] = "loaded" /\ row'[r] = row[r] /\ copy'[r] = s
        /\ \A q \in Request \ {r} : at'[q] = at[q] /\ row'[q] = row[q] /\ copy'[q] = copy[q]
    BY <1>2 DEF Fill, Loaded, SettingsInv, SettingsTypeOK
  <2>3. copy' \in [Request -> Row] /\ UNCHANGED <<at, does, form, row>>
    BY <1>2, <2>1 DEF Fill, SettingsInv, SettingsTypeOK
  <2>4. SettingsTypeOK'
    <3> HIDE DEF s
    <3> QED
      BY <1>1, <2>1, <2>3, SaveRowTypes DEF SettingsInv, SettingsTypeOK
  <2>5. FormInv'
    BY <2>3 DEF SettingsInv, FormInv
  <2> HIDE DEF s
  <2> QED
    BY <1>1, <2>1, <2>2, <2>4, <2>5, SaveInv
<1>3. CASE SaveThresholds(r)
  <2> DEFINE s == [copy[r] EXCEPT !.thresholds = form[r]]
  <2>1. s \in Row /\ SaveRow(r, s) /\ Reset(r)
    BY <1>1, <1>3 DEF SaveThresholds, SettingsInv, FormInv, Row
  <2>2. Whole(s)
    BY <1>1 DEF Whole, Policy, Row
  <2> HIDE DEF s
  <2>3. SettingsTypeOK'
    BY <1>1, <2>1, ResetTypes, SaveRowTypes DEF SettingsInv, SettingsTypeOK
  <2> QED
    BY <1>1, <2>1, <2>2, <2>3, ResetTypes, SaveInv DEF SettingsInv
<1>4. CASE SavePolicy(r)
  <2> DEFINE f == form[r]
             s == [rows[row[r]] EXCEPT !.priorities = f, !.qosMin = f, !.qosMax = f]
  <2>1. SaveRow(r, s) /\ Reset(r) /\ f \in Form
    BY <1>4 DEF SavePolicy, SettingsInv, FormInv
  <2>2. s \in Row /\ Whole(s)
    BY <1>1, <2>1, SubmittedWhole
  <2> HIDE DEF s
  <2>3. SettingsTypeOK'
    BY <1>1, <2>1, <2>2, ResetTypes, SaveRowTypes DEF SettingsInv, SettingsTypeOK
  <2> QED
    BY <1>1, <2>1, <2>2, <2>3, ResetTypes, SaveInv DEF SettingsInv
<1> QED
  BY <1>2, <1>3, <1>4

LEMMA EndInv == ASSUME SettingsInv, NEW r \in Request, End(r) PROVE SettingsInv'
<1> USE DEF SettingsInv, End
<1>1. SettingsTypeOK'
  BY ResetTypes DEF SettingsTypeOK
<1>2. PolicyWhole'
  BY DEF PolicyWhole
<1>3. CopyInv'
  BY ResetTypes, FirstRowWhole DEF CopyInv, Loaded, Whole, Policy
<1>4. FormInv'
  BY ResetTypes
<1>5. CreatingInv'
  <2>1. Creating' \subseteq Creating
    BY ResetTypes DEF Creating
  <2>2. Cardinality(Creating') <= Cardinality(Creating) /\ Cardinality(Creating') \in Nat
    BY <2>1, CreatingFinite, FS_Subset, FS_CardinalityType
  <2> QED
    BY <2>2, CreatingFinite DEF CreatingInv, SettingsTypeOK
<1> QED
  BY <1>1, <1>2, <1>3, <1>4, <1>5

\* Whatever the clients ask for, and streams beside it.
THEOREM SettingsInvariant == Spec => []SettingsInv
<1>1. Init => SettingsInv
  BY InitSettingsInv DEF Init
<1>2. SettingsInv /\ [Next]_vars => SettingsInv'
  <2> SUFFICES ASSUME SettingsInv, [Next]_vars PROVE SettingsInv'
    OBVIOUS
  <2>1. ASSUME NEW r \in Request, Begin(r) PROVE SettingsInv'
    BY <2>1, FirstInv DEF Begin, Kinds
  <2>2. ASSUME NEW r \in Request, Serve(r) PROVE SettingsInv'
    BY <2>2, CreateInv, FormsInv, EndInv DEF Serve
  <2>3. CASE UNCHANGED settingsVars
    BY <2>3 DEF settingsVars, asked, SettingsInv, SettingsTypeOK, PolicyWhole, Whole, Policy,
                CopyInv, CreatingInv, Creating, FormInv, Loaded
  <2> QED
    BY <2>1, <2>2, <2>3 DEF Next, AskPage, ServePage, OpenStream, Stream, Visit, CallApi, ServeApi, vars
<1> QED
  BY <1>1, <1>2, PTL DEF Spec

\* The table and the requests keep their types.
THEOREM SettingsTypeCorrect == Spec => []SettingsTypeOK
BY SettingsInvariant, PTL DEF SettingsInv

\* Priorities and bounds are of one submission in every row, however requests overlap.
THEOREM PolicyIsWhole == Spec => []PolicyWhole
BY SettingsInvariant, PTL DEF SettingsInv

\* Requests that come first together add one row each at most; later ones none.
THEOREM FewRows == Spec => []RowsBounded
<1>1. SettingsInv => RowsBounded
  <2> SUFFICES ASSUME SettingsInv PROVE Len(rows) <= Cardinality(Request)
    BY DEF RowsBounded
  <2>1. rows = <<>> => Len(rows) = 0
    OBVIOUS
  <2>2. Len(rows) \in Nat
    BY DEF SettingsInv, SettingsTypeOK
  <2> QED
    BY <2>1, <2>2, CreatingFinite DEF SettingsInv, CreatingInv
<1> QED
  BY SettingsInvariant, <1>1, PTL

\* The page and the agents' answers derive the same from a row, because it is whole.
THEOREM PagesAgree == Spec => []PageAgrees
<1>1. ASSUME NEW s \in Row, Whole(s), NEW c \in Capacity
      PROVE  Shown(s, c) = Answer(s, c)
  <2>1. CASE \E f \in Form : Policy(s) = <<f, f, f>>
    <3>1. s.qosMin # Empty /\ s.qosMax # Empty
      BY <2>1, SettingsAssumption DEF Policy
    <3> QED
      BY <3>1 DEF Shown, Answer
  <2>2. CASE s.qosMin = Empty /\ s.qosMax = Empty
    BY <2>2 DEF Shown, Answer, OrDefault
  <2> QED
    BY <1>1, <2>1, <2>2 DEF Whole
<1>2. SettingsInv => PageAgrees
  BY <1>1 DEF PageAgrees, SettingsInv, SettingsTypeOK, CopyInv
<1> QED
  BY SettingsInvariant, <1>2, PTL

\* A save of a request that was not overtaken changes what its form is for and no more.
LEMMA SaveUndoesNothing ==
  ASSUME SettingsInv, rows # <<>>, NEW r \in Request, Serve(r)
  PROVE  /\ rows'[1].thresholds # rows[1].thresholds =>
              /\ Saves(r)
              /\ \/ does[r] = "thresholds" /\ rows'[1].thresholds = form[r]
                 \/ r \in overtaken
         /\ Policy(rows'[1]) # Policy(rows[1]) =>
              /\ Saves(r)
              /\ \/ does[r] = "submit" /\ Policy(rows'[1]) = <<form[r], form[r], form[r]>>
                 \/ does[r] \in Optimizes /\ rows[1].priorities = Empty
                    /\ Policy(rows'[1]) = <<Default, rows[1].qosMin, rows[1].qosMax>>
                 \/ r \in overtaken
<1>1. 1 \in 1..Len(rows) /\ rows[1] \in Row
  BY DEF SettingsInv, SettingsTypeOK
<1>2. /\ r \in DOMAIN at /\ r \in DOMAIN copy /\ copy[r] \in Row
      /\ Loaded(r) => row[r] \in 1..Len(rows)
      /\ Loaded(r) /\ r \notin overtaken => copy[r] = rows[row[r]]
  BY DEF SettingsInv, SettingsTypeOK, CopyInv
<1>3. ASSUME NEW s, SaveRow(r, s), Loaded(r)
      PROVE  rows'[1] = IF row[r] = 1 THEN s ELSE rows[1]
  BY <1>1, <1>2, <1>3 DEF SaveRow, SettingsInv, SettingsTypeOK
<1>4. CASE Create(r) \/ End(r)
  <2>1. rows'[1] = rows[1]
    BY <1>1, <1>4, FirstRowWhole DEF Create, End, SettingsInv, SettingsTypeOK
  <2> QED
    BY <2>1
<1>5. CASE Fill(r)
  <2>1. rows'[1] = IF row[r] = 1 THEN [copy[r] EXCEPT !.priorities = Default] ELSE rows[1]
    BY <1>3, <1>5 DEF Fill
  <2>2. copy'[r] # copy[r]
    BY <1>2, <1>5, SettingsAssumption DEF Fill, Row
  <2> QED
    BY <1>1, <1>2, <1>5, <2>1, <2>2 DEF Fill, Saves, Policy, Row
<1>6. CASE SaveThresholds(r)
  <2>1. rows'[1] = IF row[r] = 1 THEN [copy[r] EXCEPT !.thresholds = form[r]] ELSE rows[1]
    BY <1>3, <1>6 DEF SaveThresholds
  <2>2. at'[r] # at[r]
    BY <1>2, <1>6 DEF SaveThresholds, Reset, Loaded
  <2> QED
    BY <1>1, <1>2, <1>6, <2>1, <2>2 DEF SaveThresholds, Saves, Policy, Row
<1>7. CASE SavePolicy(r)
  <2>1. rows'[1] = IF row[r] = 1
                   THEN [rows[1] EXCEPT !.priorities = form[r], !.qosMin = form[r], !.qosMax = form[r]]
                   ELSE rows[1]
    BY <1>3, <1>7 DEF SavePolicy
  <2>2. at'[r] # at[r]
    BY <1>2, <1>7 DEF SavePolicy, Reset, Loaded
  <2> QED
    BY <1>1, <1>2, <1>7, <2>1, <2>2 DEF SavePolicy, Saves, Policy, Row
<1> QED
  BY <1>4, <1>5, <1>6, <1>7 DEF Serve

\* Without a request that another one overtook, no submission is undone but by the next
\* one of its form.
THEOREM NothingUndoneAlone == Spec => UndoNeedsOverlap
<1> DEFINE
    Kept == rows # <<>> =>
       /\ rows'[1].thresholds # rows[1].thresholds =>
            \E r \in Request : /\ Saves(r)
                               /\ \/ does[r] = "thresholds" /\ rows'[1].thresholds = form[r]
                                  \/ r \in overtaken
       /\ Policy(rows'[1]) # Policy(rows[1]) =>
            \E r \in Request : /\ Saves(r)
                               /\ \/ does[r] = "submit" /\ Policy(rows'[1]) = <<form[r], form[r], form[r]>>
                                  \/ does[r] \in Optimizes /\ rows[1].priorities = Empty
                                     /\ Policy(rows'[1]) = <<Default, rows[1].qosMin, rows[1].qosMax>>
                                  \/ r \in overtaken
<1>1. SettingsInv /\ [Next]_vars => [Kept]_settingsVars
  <2> SUFFICES ASSUME SettingsInv, [Next]_vars, rows # <<>> PROVE Kept \/ UNCHANGED settingsVars
    BY DEF Kept
  <2>1. CASE UNCHANGED rows
    BY <2>1
  <2>2. ASSUME NEW r \in Request, Begin(r) PROVE UNCHANGED rows
    BY <2>2 DEF Begin, First
  <2>3. ASSUME NEW r \in Request, Serve(r) PROVE Kept
    BY <2>3, SaveUndoesNothing
  <2> HIDE DEF Kept
  <2> QED
    BY <2>1, <2>2, <2>3 DEF Next, AskPage, ServePage, OpenStream, Stream, Visit, CallApi, ServeApi, vars, settingsVars
<1> QED
  BY SettingsInvariant, <1>1, PTL DEF Spec, UndoNeedsOverlap

-----------------------------------------------------------------------------
(* The streams.                                                                *)

LEMMA MoveType ==
  ASSUME StreamTypeOK, NEW v \in Viewer, NEW p \in StreamPhases, Move(v, p)
  PROVE  stream' \in [Viewer -> StreamPhases]
BY DEF StreamTypeOK, Move

\* Each step of a stream is a step of the semaphore or leaves it alone.
LEMMA StreamUsesSemaphore ==
  ASSUME StreamTypeOK, NEW v \in Viewer, Open(v) \/ Go(v) \/ Behave(v)
  PROVE  [Slots!Next]_(Slots!vars)
<1> USE DEF StreamTypeOK, Move, Started, Running, Over, Slots!Next, Slots!vars
<1>1. CASE Open(v)
  <2>1. v \notin Streaming /\ Streaming' = Streaming \cup {v}
    BY <1>1 DEF Open, Streaming
  <2>2. Slots!Acquire(v)
    BY <1>1, <2>1 DEF Open, Slots!Acquire
  <2> QED
    BY <2>2
<1>2. CASE Close(v)
  <2>1. v \in Streaming /\ Streaming' = Streaming \ {v}
    BY <1>2 DEF Close, Streaming
  <2>2. Slots!Release(v)
    BY <1>2, <2>1 DEF Close, Slots!Release
  <2> QED
    BY <2>2
<1>3. CASE Abandon(v)
  <2>1. v \in Streaming /\ Streaming' = Streaming \ {v}
    BY <1>3 DEF Abandon, Streaming
  <2>2. Slots!Lose(v)
    BY <1>3, <2>1 DEF Abandon, Slots!Lose
  <2> QED
    BY <2>2
<1>4. CASE Start(v) \/ CheckAge(v) \/ Produce(v) \/ Take(v) \/ Sleep(v) \/ Leave(v) \/ Stall(v)
  <2>1. Streaming' = Streaming /\ slots' = slots /\ leaked' = leaked
    BY <1>4 DEF Start, CheckAge, Produce, Take, Sleep, Leave, Stall, Streaming
  <2> QED
    BY <2>1
<1> QED
  BY <1>1, <1>2, <1>3, <1>4 DEF Go, Behave

LEMMA StreamTypes ==
  ASSUME StreamTypeOK, NEW v \in Viewer, Open(v) \/ Go(v) \/ Behave(v)
  PROVE  StreamTypeOK'
<1> USE StreamAssumption DEF StreamTypeOK
<1>1. stream' \in [Viewer -> StreamPhases]
  <2> USE MoveType DEF StreamPhases, Started, Running, Over
  <2>1. CASE Open(v) \/ Abandon(v) \/ Leave(v) \/ Stall(v)
    BY <2>1 DEF Open, Abandon, Leave, Stall
  <2>2. CASE Start(v) \/ CheckAge(v) \/ Produce(v) \/ Take(v) \/ Sleep(v) \/ Close(v)
    BY <2>2 DEF Start, CheckAge, Produce, Take, Sleep, Close
  <2> QED
    BY <2>1, <2>2 DEF Go, Behave
<1>2. age' \in [Viewer -> 0..(MaxDuration + 1)]
  BY DEF Open, Go, Behave, Start, CheckAge, Produce, Take, Sleep, Close, Abandon, Leave, Stall
<1>3. slots' \in Nat /\ stalled' \subseteq Viewer /\ leaked' \in Nat
  BY DEF Open, Go, Behave, Start, CheckAge, Produce, Take, Sleep, Close, Abandon, Leave, Stall
<1> QED
  BY <1>1, <1>2, <1>3

LEMMA StreamStep ==
  ASSUME [Next]_vars
  PROVE  \/ \E v \in Viewer : Open(v) \/ Go(v) \/ Behave(v)
         \/ UNCHANGED streamVars
BY DashboardAssumption DEF Next, AskPage, ServePage, OpenStream, Stream, Visit, CallApi, ServeApi, vars

THEOREM StreamTypeCorrect == Spec => []StreamTypeOK
<1>1. Init => StreamTypeOK
  BY StreamAssumption DEF Init, StreamInit, StreamTypeOK, StreamPhases, Over
<1>2. StreamTypeOK /\ [Next]_vars => StreamTypeOK'
  <2> SUFFICES ASSUME StreamTypeOK, [Next]_vars PROVE StreamTypeOK'
    OBVIOUS
  <2>1. CASE UNCHANGED streamVars
    BY <2>1 DEF streamVars, StreamTypeOK
  <2> QED
    BY <2>1, StreamStep, StreamTypes
<1> QED
  BY <1>1, <1>2, PTL DEF Spec

\* The streams implement the semaphore for any number of clients and slots: none is
\* taken, kept or given back out of turn, and only a response that was never iterated
\* loses one.
THEOREM StreamsUseSemaphore == Spec => StreamsImplementSemaphore
<1>1. Init => Slots!Init
  BY DEF Init, StreamInit, Slots!Init, Streaming, Started, Running
<1>2. StreamTypeOK /\ [Next]_vars => [Slots!Next]_(Slots!vars)
  <2> SUFFICES ASSUME StreamTypeOK, [Next]_vars PROVE [Slots!Next]_(Slots!vars)
    OBVIOUS
  <2>1. CASE UNCHANGED streamVars
    BY <2>1 DEF streamVars, Streaming, Slots!vars
  <2> QED
    BY <2>1, StreamStep, StreamUsesSemaphore
<1> QED
  BY <1>1, <1>2, StreamTypeCorrect, PTL DEF Spec, StreamsImplementSemaphore, Slots!Spec

-----------------------------------------------------------------------------
(* The row of an agent.                                                        *)

LEMMA ReadInv ==
  ASSUME AgentInv, NEW c \in Caller, NEW v, Read(c, "register", v) \/ Read(c, "upload", v),
         agent # NoAgent,
         Read(c, "register", v) => v \in Identity, Read(c, "upload", v) => v \in Report
  PROVE  AgentInv'
BY DEF AgentInv, AgentTypeOK, HeldInv, Read, Called

\* A call that ends leaves the others as they were.
LEMMA FinishKeeps ==
  ASSUME AgentInv, NEW c \in Caller, Finish(c)
  PROVE  /\ call' \in [Caller -> {"none", "register", "upload"}]
         /\ says' \in [Caller -> Identity \cup Report \cup {Unset}]
         /\ held' \in [Caller -> Agent \cup {NoAgent}]
         /\ call'[c] = "none"
         /\ \A d \in Caller \ {c} : call'[d] = call[d] /\ says'[d] = says[d] /\ held'[d] = held[d]
BY DEF AgentInv, AgentTypeOK, Finish

\* What a call saves is its copy but for the columns it knows of.
LEMMA SaveAgentInv ==
  ASSUME AgentInv, NEW c \in Caller, NEW s \in Agent, SaveAgent(c, s)
  PROVE  AgentInv'
<1>1. s # NoAgent
  BY AgentAssumption DEF Agent
<1>2. AgentTypeOK'
  BY FinishKeeps DEF SaveAgent, AgentInv, AgentTypeOK
<1>3. HeldInv'
  <2> SUFFICES ASSUME NEW d \in Caller, d # c, Called(d)
               PROVE  /\ agent' # NoAgent /\ held'[d] # NoAgent
                      /\ d \notin outrun' => held'[d] = agent'
                      /\ call'[d] = "register" => says'[d] \in Identity
                      /\ call'[d] = "upload" => says'[d] \in Report
    BY FinishKeeps DEF HeldInv, Called, SaveAgent
  <2> QED
    BY <1>1, FinishKeeps DEF SaveAgent, AgentInv, HeldInv
<1> QED
  BY <1>2, <1>3 DEF AgentInv

LEMMA ApplyInv == ASSUME AgentInv, NEW c \in Caller, Apply(c) PROVE AgentInv'
<1>1. Called(c) => held[c] \in Agent
  BY DEF AgentInv, AgentTypeOK, HeldInv
<1>2. CASE SaveIdentity(c)
  <2>1. held[c] \in Agent /\ says[c] \in Identity
    BY <1>1, <1>2 DEF SaveIdentity, Called, AgentInv, HeldInv
  <2>2. [held[c] EXCEPT !.identity = says[c]] \in Agent
    BY <2>1 DEF Agent
  <2> QED
    BY <1>2, <2>2, SaveAgentInv DEF SaveIdentity
<1>3. CASE SaveReport(c)
  <2>1. held[c] \in Agent /\ says[c] \in Report
    BY <1>1, <1>3 DEF SaveReport, Called, AgentInv, HeldInv
  <2>2. [held[c] EXCEPT !.report = says[c]] \in Agent
    BY <2>1 DEF Agent
  <2> QED
    BY <1>3, <2>2, SaveAgentInv DEF SaveReport
<1>4. CASE Fail(c)
  <2>1. AgentTypeOK'
    BY <1>4, FinishKeeps DEF Fail, AgentInv, AgentTypeOK
  <2>2. HeldInv'
    BY <1>4, FinishKeeps DEF Fail, AgentInv, HeldInv, Called
  <2> QED
    BY <2>1, <2>2 DEF AgentInv
<1> QED
  BY <1>2, <1>3, <1>4 DEF Apply

LEMMA SendInv == ASSUME AgentInv, NEW c \in Caller, Send(c) PROVE AgentInv'
<1>1. ASSUME NEW i \in Identity, Register(c, i) PROVE AgentInv'
  <2>1. CASE agent = NoAgent
    <3>1. agent' \in Agent /\ UNCHANGED <<call, says, held, outrun>>
      BY <1>1, <2>1 DEF Register, Agent
    <3>2. \A d \in Caller : ~Called(d)
      BY <2>1 DEF AgentInv, HeldInv
    <3> QED
      BY <3>1, <3>2 DEF AgentInv, AgentTypeOK, HeldInv, Called
  <2>2. CASE agent # NoAgent
    <3>1. Read(c, "register", i)
      BY <1>1, <2>2 DEF Register
    <3>2. ~Read(c, "upload", i)
      BY <3>1 DEF Read, AgentInv, AgentTypeOK
    <3> QED
      BY <2>2, <3>1, <3>2, ReadInv
  <2> QED
    BY <2>1, <2>2
<1>2. ASSUME NEW p \in Report, Upload(c, p) PROVE AgentInv'
  <2>1. Read(c, "upload", p) /\ agent # NoAgent
    BY <1>2 DEF Upload
  <2>2. ~Read(c, "register", p)
    BY <2>1 DEF Read, AgentInv, AgentTypeOK
  <2> QED
    BY <2>1, <2>2, ReadInv
<1> QED
  BY <1>1, <1>2 DEF Send

LEMMA AgentStep ==
  ASSUME [Next]_vars
  PROVE  \/ \E c \in Caller : Send(c) \/ Apply(c)
         \/ UNCHANGED agentVars
BY DashboardAssumption DEF Next, AskPage, ServePage, OpenStream, Stream, Visit, CallApi, ServeApi, vars

\* Whoever calls: a call under way holds what the row still is, or was outrun.
THEOREM AgentInvariant == Spec => []AgentInv
<1>1. Init => AgentInv
  BY DEF Init, AgentInit, AgentInv, AgentTypeOK, HeldInv, Called
<1>2. AgentInv /\ [Next]_vars => AgentInv'
  <2> SUFFICES ASSUME AgentInv, [Next]_vars PROVE AgentInv'
    OBVIOUS
  <2>1. CASE UNCHANGED agentVars
    BY <2>1 DEF agentVars, AgentInv, AgentTypeOK, HeldInv, Called
  <2> QED
    BY <2>1, AgentStep, ApplyInv, SendInv
<1> QED
  BY <1>1, <1>2, PTL DEF Spec

\* What a call that was not outrun saves changes the columns of its kind and no others.
LEMMA ApplyKeeps ==
  ASSUME AgentInv, agent # NoAgent, NEW c \in Caller, Apply(c)
  PROVE  /\ agent'.identity # agent.identity =>
              Ends(c) /\ \/ call[c] = "register" /\ agent'.identity = says[c]
                         \/ c \in outrun
         /\ agent'.report # agent.report =>
              Ends(c) /\ \/ call[c] = "upload" /\ agent'.report = says[c]
                         \/ c \in outrun
<1>1. CASE Fail(c)
  BY <1>1 DEF Fail
<1>2. CASE SaveIdentity(c) \/ SaveReport(c)
  <2>1. Called(c) /\ Finish(c)
    BY <1>2 DEF SaveIdentity, SaveReport, SaveAgent, Called
  <2>2. Ends(c)
    BY <2>1, FinishKeeps DEF Ends, Called
  <2>3. held[c] \in Agent /\ (c \notin outrun => held[c] = agent)
    BY <2>1 DEF AgentInv, AgentTypeOK, HeldInv
  <2>4. CASE SaveIdentity(c)
    BY <2>2, <2>3, <2>4 DEF SaveIdentity, SaveAgent, Agent
  <2>5. CASE SaveReport(c)
    BY <2>2, <2>3, <2>5 DEF SaveReport, SaveAgent, Agent
  <2> QED
    BY <1>2, <2>4, <2>5
<1> QED
  BY <1>1, <1>2 DEF Apply

\* Without calls that outrun each other, what a host registers and what it reports do
\* not undo one another.
THEOREM AgentRowIsKept == Spec => AgentRowKept
<1> DEFINE
    Kept == agent # NoAgent =>
       /\ agent'.identity # agent.identity =>
            \E c \in Caller : Ends(c) /\ \/ call[c] = "register" /\ agent'.identity = says[c]
                                         \/ c \in outrun
       /\ agent'.report # agent.report =>
            \E c \in Caller : Ends(c) /\ \/ call[c] = "upload" /\ agent'.report = says[c]
                                         \/ c \in outrun
<1>1. AgentInv /\ [Next]_vars => [Kept]_agentVars
  <2> SUFFICES ASSUME AgentInv, [Next]_vars, agent # NoAgent PROVE Kept \/ UNCHANGED agentVars
    BY DEF Kept
  <2>1. CASE UNCHANGED agent
    BY <2>1
  <2>2. ASSUME NEW c \in Caller, Send(c) PROVE UNCHANGED agent
    BY <2>2 DEF Send, Register, Upload, Read
  <2>3. ASSUME NEW c \in Caller, Apply(c) PROVE Kept
    BY <2>3, ApplyKeeps
  <2> HIDE DEF Kept
  <2> QED
    BY <2>1, <2>2, <2>3, AgentStep
<1> QED
  BY AgentInvariant, <1>1, PTL DEF Spec, AgentRowKept
=============================================================================
