------------------------------- MODULE AgentRow -------------------------------
(***************************************************************************)
(* The row of one agent and the two calls that save it: api_register_agent *)
(* of dashboard/views/api_views.py, and api_agent_telemetry there with     *)
(* handle_telemetry_ingestion of analytics/telemetry_handler.py.           *)
(*                                                                         *)
(* Each reads the row, sets the columns it knows of in its copy and saves  *)
(* every column of that copy, without a transaction.  Calls for the same   *)
(* agent overlap when one has been given up by its client, or when the     *)
(* host runs a second agent.                                               *)
(***************************************************************************)
CONSTANTS Caller,    (* the calls that can be under way                        *)
          Identity,  (* hostname, device type, vendor and address              *)
          Report,    (* the statistics and the active rules of an upload       *)
          NoAgent,   (* there is no row with this hardware address             *)
          Unset      (* the model's defaults of what an upload reports         *)

ASSUME AgentAssumption == NoAgent \notin [identity : Identity, report : Report \cup {Unset}]

VARIABLES agent,    (* the row                                                 *)
          call,     (* which call of each caller is under way                  *)
          says,     (* what it has sent                                        *)
          held,     (* the copy of the row it works on                         *)
          outrun    (* history, read by no action: calls whose row was saved by
                       another one since they read it                          *)

agentVars == <<agent, call, says, held, outrun>>

Agent == [identity : Identity, report : Report \cup {Unset}]

Called(c) == call[c] # "none"

AgentInit == /\ agent = NoAgent
             /\ call = [c \in Caller |-> "none"]
             /\ says = [c \in Caller |-> Unset]
             /\ held = [c \in Caller |-> NoAgent]
             /\ outrun = {}

-----------------------------------------------------------------------------
\* The row is read, by get_or_create or by get.
Read(c, k, v) == /\ call' = [call EXCEPT ![c] = k]
                 /\ says' = [says EXCEPT ![c] = v]
                 /\ held' = [held EXCEPT ![c] = agent]
                 /\ UNCHANGED <<agent, outrun>>

Finish(c) == /\ call' = [call EXCEPT ![c] = "none"]
             /\ says' = [says EXCEPT ![c] = Unset]
             /\ held' = [held EXCEPT ![c] = NoAgent]

\* save() of the whole copy s, which is news for the other calls under way.
SaveAgent(c, s) == /\ agent' = s
                   /\ outrun' = (outrun \cup {d \in Caller : Called(d)}) \ {c}
                   /\ Finish(c)

\* The hardware address is unique: one call makes the row, with this identity, and has
\* no more to do.
Register(c, i) == /\ ~Called(c)
                  /\ \/ /\ agent = NoAgent
                        /\ agent' = [identity |-> i, report |-> Unset]
                        /\ UNCHANGED <<call, says, held, outrun>>
                     \/ agent # NoAgent /\ Read(c, "register", i)

\* Without a row the answer is 404.
Upload(c, p) == /\ ~Called(c) /\ agent # NoAgent
                /\ Read(c, "upload", p)

SaveIdentityAfresh(c) == /\ call[c] = "register"
                         /\ SaveAgent(c, [identity |-> says[c], report |-> Unset])

SaveIdentity(c) == /\ call[c] = "register"
                   /\ SaveAgent(c, [held[c] EXCEPT !.identity = says[c]])

\* The first of five attempts that finds the database unlocked.
SaveReport(c) == /\ call[c] = "upload"
                 /\ SaveAgent(c, [held[c] EXCEPT !.report = says[c]])

\* An error, of a number that is none or of the database, ends the call before its save.
Fail(c) == /\ Called(c)
           /\ Finish(c)
           /\ outrun' = outrun \ {c}
           /\ UNCHANGED agent

Send(c) == \/ \E i \in Identity : Register(c, i)
           \/ \E p \in Report : Upload(c, p)

Apply(c) == SaveIdentity(c) \/ SaveReport(c) \/ Fail(c)

-----------------------------------------------------------------------------
\* The types of the variables.
AgentTypeOK == /\ agent \in Agent \cup {NoAgent}
               /\ call \in [Caller -> {"none", "register", "upload"}]
               /\ says \in [Caller -> Identity \cup Report \cup {Unset}]
               /\ held \in [Caller -> Agent \cup {NoAgent}]
               /\ outrun \subseteq Caller

\* The call of c ends here.
Ends(c) == Called(c) /\ ~Called(c)'

\* An identity stays until the host registers another, and a report until the host
\* uploads another, unless a call saves the row that read it before another one saved it.
AgentRowKept ==
  [][agent # NoAgent =>
       /\ agent'.identity # agent.identity =>
            \E c \in Caller : Ends(c) /\ \/ call[c] = "register" /\ agent'.identity = says[c]
                                         \/ c \in outrun
       /\ agent'.report # agent.report =>
            \E c \in Caller : Ends(c) /\ \/ call[c] = "upload" /\ agent'.report = says[c]
                                         \/ c \in outrun]_agentVars

-----------------------------------------------------------------------------
(* The inductive invariant behind AgentRowKept: a call holds what the row     *)
(* still is, or was outrun.                                                   *)

HeldInv == \A c \in Caller :
             Called(c) => /\ agent # NoAgent /\ held[c] # NoAgent
                          /\ c \notin outrun => held[c] = agent
                          /\ call[c] = "register" => says[c] \in Identity
                          /\ call[c] = "upload" => says[c] \in Report

AgentInv == AgentTypeOK /\ HeldInv
=============================================================================
