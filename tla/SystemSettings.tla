---------------------------- MODULE SystemSettings ----------------------------
(***************************************************************************)
(* The table of SystemSettings and those who use it: the pages of          *)
(* dashboard/views/page_views.py with their two forms, and the answer to   *)
(* an upload of an agent in api_views.py; with the capacity of             *)
(* dashboard/speed_monitor.py, which both put beside it.                   *)
(*                                                                         *)
(* Each view takes first() and creates a row if there is none; it works on *)
(* that copy and saves it in the end, the settings form and the default    *)
(* priorities with every column, the optimization form with three.  No     *)
(* transaction spans these steps and nothing deletes a row.  Requests run  *)
(* in the threads of several worker processes; the capacity is a variable  *)
(* of each process.                                                        *)
(*                                                                         *)
(* A member of Limits stands for all the values of the settings form that  *)
(* a user sends at one time, a member of Form for those of the             *)
(* optimization form.                                                      *)
(***************************************************************************)
EXTENDS Integers, Sequences, FiniteSets

CONSTANTS Request,      (* the requests for pages that can be under way        *)
          Limits,       (* what users enter in the settings form               *)
          Form,         (* what they enter in the optimization form            *)
          Capacity,     (* what get_current_capacity() may return              *)
          Default,      (* the defaults of the model and of settings.py        *)
          Empty         (* []                                                  *)

ASSUME SettingsAssumption ==
       /\ IsFiniteSet(Request)
       /\ Default # Empty /\ Default \notin Form /\ Empty \notin Form

VARIABLES rows,       (* the table, in the order of the keys                   *)
          at,         (* where the handling of each request is                 *)
          does,       (* what it is for                                        *)
          form,       (* what it submits                                       *)
          row, copy,  (* the key of its settings_obj and the copy it works on  *)
          overtaken   (* history, read by no action: requests whose row was
                         saved by another one since they read it               *)

asked == <<at, does, form, row, copy, overtaken>>
settingsVars == <<rows, asked>>

Row == [thresholds : Limits \cup {Default},
        priorities : Form \cup {Default, Empty},
        qosMin : Form \cup {Empty}, qosMax : Form \cup {Empty}]

FirstRow == [thresholds |-> Default, priorities |-> Empty, qosMin |-> Empty, qosMax |-> Empty]

Policy(s) == <<s.priorities, s.qosMin, s.qosMax>>

\* GET of the index or settings page, GET of the optimization page, and POST of the
\* settings and of the optimization form.
Kinds == {"view", "policy", "thresholds", "submit"}
Optimizes == {"policy", "submit"}

SettingsInit == /\ rows = <<>>
                /\ at = [r \in Request |-> "idle"]
                /\ does = [r \in Request |-> "view"]
                /\ form = [r \in Request |-> Default]
                /\ row = [r \in Request |-> 0]
                /\ copy = [r \in Request |-> FirstRow]
                /\ overtaken = {}

-----------------------------------------------------------------------------
(* A request.                                                               *)

\* The response is made, or an error ends the request before it saves.
Reset(r) == /\ at' = [at EXCEPT ![r] = "idle"]
            /\ does' = [does EXCEPT ![r] = "view"]
            /\ form' = [form EXCEPT ![r] = Default]
            /\ row' = [row EXCEPT ![r] = 0]
            /\ copy' = [copy EXCEPT ![r] = FirstRow]

Load(r, i, s) == /\ at' = [at EXCEPT ![r] = "loaded"]
                 /\ row' = [row EXCEPT ![r] = i]
                 /\ copy' = [copy EXCEPT ![r] = s]

FirstOfFilled(r, d, f) ==
  /\ at[r] = "idle"
  /\ does' = [does EXCEPT ![r] = d]
  /\ form' = [form EXCEPT ![r] = f]
  /\ IF rows # <<>> /\ rows[1].priorities # Empty
     THEN Load(r, 1, rows[1])
     ELSE at' = [at EXCEPT ![r] = "create"] /\ UNCHANGED <<row, copy>>
  /\ UNCHANGED <<rows, overtaken>>

\* SystemSettings.objects.first(): the row of the lowest key.
First(r, d, f) ==
  /\ at[r] = "idle"
  /\ does' = [does EXCEPT ![r] = d]
  /\ form' = [form EXCEPT ![r] = f]
  /\ IF rows # <<>> THEN Load(r, 1, rows[1])
                    ELSE at' = [at EXCEPT ![r] = "create"] /\ UNCHANGED <<row, copy>>
  /\ UNCHANGED <<rows, overtaken>>

\* With a row there, a page of the first kind has nothing to do with the table.
Begin(r) == \/ rows = <<>> /\ First(r, "view", Default)
            \/ First(r, "policy", Default)
            \/ \E f \in Limits : First(r, "thresholds", f)
            \/ \E f \in Form : First(r, "submit", f)

Create(r) == /\ at[r] = "create"
             /\ rows' = Append(rows, FirstRow)
             /\ IF does[r] = "view" THEN Reset(r)
                ELSE Load(r, Len(rows) + 1, FirstRow) /\ UNCHANGED <<does, form>>
             /\ UNCHANGED overtaken

Loaded(r) == at[r] = "loaded"

\* What is saved in the row of r is news for the others that have read it.
SaveRow(r, s) ==
  /\ rows' = [rows EXCEPT ![row[r]] = s]
  /\ overtaken' = (overtaken \cup {q \in Request : Loaded(q) /\ row[q] = row[r]}) \ {r}

\* The optimization page without priorities: save() of the whole copy.
Fill(r) == /\ Loaded(r) /\ does[r] \in Optimizes /\ copy[r].priorities = Empty
           /\ copy' = [copy EXCEPT ![r].priorities = Default]
           /\ SaveRow(r, [copy[r] EXCEPT !.priorities = Default])
           /\ UNCHANGED <<at, does, form, row>>

SaveThresholdsAfresh(r) == /\ Loaded(r) /\ does[r] = "thresholds"
                           /\ SaveRow(r, [FirstRow EXCEPT !.thresholds = form[r]])
                           /\ Reset(r)

\* The settings form: save() of the whole copy.
SaveThresholds(r) == /\ Loaded(r) /\ does[r] = "thresholds"
                     /\ SaveRow(r, [copy[r] EXCEPT !.thresholds = form[r]])
                     /\ Reset(r)

SavePolicyWithoutMax(r) ==
  /\ Loaded(r) /\ does[r] = "submit" /\ copy[r].priorities # Empty
  /\ SaveRow(r, [rows[row[r]] EXCEPT !.priorities = form[r], !.qosMin = form[r]])
  /\ Reset(r)

\* The optimization form: save(update_fields=...), which leaves the other columns.
SavePolicy(r) ==
  /\ Loaded(r) /\ does[r] = "submit" /\ copy[r].priorities # Empty
  /\ SaveRow(r, [rows[row[r]] EXCEPT !.priorities = form[r], !.qosMin = form[r], !.qosMax = form[r]])
  /\ Reset(r)

\* A page that only shows is shown; values a form is refused for, an error of the
\* database, and the end of the process leave the table alone.
End(r) == /\ at[r] # "idle"
          /\ Reset(r)
          /\ overtaken' = overtaken \ {r}
          /\ UNCHANGED rows

Serve(r) == \/ Create(r) \/ Fill(r) \/ SaveThresholds(r) \/ SavePolicy(r) \/ End(r)

-----------------------------------------------------------------------------
(* What is derived from a row.                                              *)

Priorities(s) == IF s.priorities = Empty THEN Default ELSE s.priorities

\* The defaults, which are for 100 Mbps, in proportion to the capacity.
Scaled(b, c) == [base |-> b, capacity |-> c]

OrDefault(b) == IF b = Empty THEN Default ELSE b

\* api_agent_telemetry: what an agent's answer is computed from.
Answer(s, c) == [priorities |-> Priorities(s), capacity |-> c,
                 bounds |-> IF s.qosMin # Empty /\ s.qosMax # Empty THEN <<s.qosMin, s.qosMax>>
                            ELSE <<Scaled(Default, c), Scaled(Default, c)>>]

ShownUnscaled(s, c) == [priorities |-> Priorities(s), capacity |-> c,
                        bounds |-> <<OrDefault(s.qosMin), OrDefault(s.qosMax)>>]

\* optimization_view, a GET: what the page is computed from.
Shown(s, c) == [priorities |-> Priorities(s), capacity |-> c,
                bounds |-> IF s.qosMin = Empty \/ s.qosMax = Empty
                           THEN <<Scaled(OrDefault(s.qosMin), c), Scaled(OrDefault(s.qosMax), c)>>
                           ELSE <<s.qosMin, s.qosMax>>]

-----------------------------------------------------------------------------
\* The types of the variables.
SettingsTypeOK == /\ rows \in Seq(Row)
                  /\ at \in [Request -> {"idle", "create", "loaded"}]
                  /\ does \in [Request -> Kinds]
                  /\ form \in [Request -> Limits \cup Form \cup {Default}]
                  /\ row \in [Request -> Nat]
                  /\ copy \in [Request -> Row]
                  /\ overtaken \subseteq Request

\* However many requests are the first, there are never more rows than requests that
\* can be under way together: no later one adds a row.
RowsBounded == Len(rows) <= Cardinality(Request)

\* Priorities and bounds are of one submission, or none was made: no whole-row save of
\* an old copy and no default mixes two policies.
Whole(s) == \/ \E f \in Form : Policy(s) = <<f, f, f>>
            \/ s.priorities \in {Default, Empty} /\ s.qosMin = Empty /\ s.qosMax = Empty

PolicyWhole == \A i \in 1..Len(rows) : Whole(rows[i])

\* The optimization page and the agents' answers, which treat missing bounds in two
\* different ways, come to the same from the same row and the same capacity.
PageAgrees == \A r \in Request, c \in Capacity :
                Loaded(r) => Shown(copy[r], c) = Answer(copy[r], c)

\* Who saves the first row now.
Saves(r) == Loaded(r) /\ row[r] = 1 /\ (at'[r] # at[r] \/ copy'[r] # copy[r])

\* What a form has put into the row that is read stays until the same form is sent
\* again, or a request saves the row that read it before another one saved it.
UndoNeedsOverlap ==
  [][rows # <<>> =>
       /\ rows'[1].thresholds # rows[1].thresholds =>
            \E r \in Request : /\ Saves(r)
                               /\ \/ does[r] = "thresholds" /\ rows'[1].thresholds = form[r]
                                  \/ r \in overtaken
       /\ Policy(rows'[1]) # Policy(rows[1]) =>
            \E r \in Request : /\ Saves(r)
                               /\ \/ does[r] = "submit" /\ Policy(rows'[1]) = <<form[r], form[r], form[r]>>
                                  \/ does[r] \in Optimizes /\ rows[1].priorities = Empty
                                     /\ Policy(rows'[1]) = <<Default, rows[1].qosMin, rows[1].qosMax>>
                                  \/ r \in overtaken]_settingsVars

-----------------------------------------------------------------------------
(* The inductive invariant behind PolicyWhole, PageAgrees, UndoNeedsOverlap   *)
(* and RowsBounded.                                                           *)

\* A request that has read its row works on a copy of it, which is still what the
\* table holds unless the request was overtaken.
CopyInv == \A r \in Request :
             /\ Whole(copy[r])
             /\ Loaded(r) => row[r] \in 1..Len(rows)
             /\ Loaded(r) /\ r \notin overtaken => copy[r] = rows[row[r]]

\* Once there is a row, only those add one that found none.
Creating == {r \in Request : at[r] = "create"}
CreatingInv == rows # <<>> => Len(rows) + Cardinality(Creating) <= Cardinality(Request)

\* What is submitted was entered.
FormInv == \A r \in Request : /\ does[r] = "thresholds" => form[r] \in Limits
                              /\ does[r] = "submit" => form[r] \in Form

SettingsInv == SettingsTypeOK /\ PolicyWhole /\ CopyInv /\ CreatingInv /\ FormInv
=============================================================================
