------------------------------ MODULE Dashboard ------------------------------
(***************************************************************************)
(* The views of the server that keep state of their own: the pages of      *)
(* SystemSettings, the streams of MetricsStream and the two calls of       *)
(* AgentRow.  A client has one request under way.                          *)
(***************************************************************************)
EXTENDS SystemSettings, MetricsStream, AgentRow

ASSUME DashboardAssumption == Viewer = Request /\ Caller = Request

vars == <<settingsVars, streamVars, agentVars>>

Init == SettingsInit /\ StreamInit /\ AgentInit

Free(r) == at[r] = "idle" /\ stream[r] \in Over /\ ~Called(r)

AskPage(r) == Free(r) /\ Begin(r) /\ UNCHANGED <<streamVars, agentVars>>

OpenStream(r) == Free(r) /\ Open(r) /\ UNCHANGED <<settingsVars, agentVars>>

CallApi(r) == Free(r) /\ Send(r) /\ UNCHANGED <<settingsVars, streamVars>>

ServePage(r) == Serve(r) /\ UNCHANGED <<streamVars, agentVars>>

Stream(r) == Go(r) /\ UNCHANGED <<settingsVars, agentVars>>

Visit(r) == Behave(r) /\ UNCHANGED <<settingsVars, agentVars>>

ServeApi(r) == Apply(r) /\ UNCHANGED <<settingsVars, streamVars>>

Next == \E r \in Request : \/ AskPage(r) \/ ServePage(r)
                          \/ OpenStream(r) \/ Stream(r) \/ Visit(r)
                          \/ CallApi(r) \/ ServeApi(r)

Spec == Init /\ [][Next]_vars

\* The event loop runs what is ready, and nothing else is promised: a request may wait
\* for the database, a client need not come, read or leave.
FairSpec == Spec /\ \A r \in Request : WF_vars(Stream(r))
=============================================================================
