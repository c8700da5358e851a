---------------------------- MODULE FlowFirewall ----------------------------
(***************************************************************************)
(* agent/flow_firewall.py: the rules one Windows agent keeps in the        *)
(* operating system's firewall.                                            *)
(*                                                                         *)
(* Two threads share the dict _active and the firewall: the main thread,   *)
(* which reports the active rules, reconciles them with each answer of the *)
(* server (sync) and runs the shutdown handler (stop), and the daemon      *)
(* thread of _expiry_loop.  _lock protects _active only: each PowerShell   *)
(* call is made between two critical sections, so the dict and the         *)
(* firewall can be changed by the other thread in between.                 *)
(*                                                                         *)
(* The expiry thread's critical sections are single steps that need the    *)
(* lock to be free.  The main thread's have a state of their own (see      *)
(* MainHoldsLock), because a signal handler can run inside them.           *)
(*                                                                         *)
(* Assumed: a PowerShell process that outlives its killed agent ends       *)
(* before the next agent clears the rules.  One that is slower would       *)
(* create or remove its rule behind the back of that agent.                *)
(***************************************************************************)
EXTENDS Integers, FiniteSets

CONSTANTS Rule,             (* the exact flows a server can ask to block      *)
          LocalRule,        (* those whose source is this host's address      *)
          TTL,              (* ttl_seconds, in ticks of the model's clock     *)
          NoRule,           (* the absence of a rule                          *)
          PowerShellFails   (* whether a PowerShell call may fail             *)

ASSUME FirewallAssumption ==
       /\ LocalRule \subseteq Rule
       /\ TTL \in Nat \ {0}
       /\ NoRule \notin Rule
       /\ PowerShellFails \in BOOLEAN

VARIABLES os,        (* the NetInsightFlowBlock-* rules in Windows Firewall   *)
          left,      (* _active: time left before expires_at, or Untracked    *)
          pc,        (* where the main thread is                              *)
          enabled,   (* the agent's opt-in to enforcement                     *)
          stopped,   (* the _stopped event                                    *)
          obsolete,  (* sync, stop: the rules still to be removed             *)
          desired,   (* sync: the rules still to be installed                 *)
          cur,       (* the rule the main thread is working on                *)
          child,     (* the PowerShell process that installs cur              *)
          expired,   (* the expiry thread: the rules of its current pass      *)
          xcur,      (* the one of them it has removed and not yet popped     *)
          suspect    (* history, read by no action: see Blame                 *)

mainVars == <<enabled, obsolete, desired, cur, child>>
expiryVars == <<expired, xcur>>
vars == <<os, left, pc, enabled, stopped, obsolete, desired, cur, child, expired, xcur, suspect>>

Untracked == -1

\* The names in _active.
Tracked == {r \in Rule : left[r] # Untracked}

\* The main thread is inside a "with self._lock" of active_rules, sync or stop,
\* or waits in stop for a lock that it holds itself.
LockHeld == {"report", "snapshot", "popping", "recording", "naming", "clearing", "wedged"}
MainHoldsLock == pc \in LockHeld

\* The main thread is in sync's loop over the desired rules.
InstallPcs == {"installing", "record", "recording"}

StopPcs == {"stop", "naming", "clear", "clearing", "join"}

Pcs == {"off", "exited", "loop", "remove", "pop", "install"} \cup LockHeld \cup InstallPcs \cup StopPcs

Up == pc \notin {"off", "exited"}

-----------------------------------------------------------------------------
(* The history variable.  A rule becomes suspect when the main thread is    *)
(* installing it while the expiry thread has it in its pass, when a         *)
(* PowerShell call fails to remove it or fails after having created it, and *)
(* when the shutdown signal arrives while it is being installed.            *)

Installing(p, r) == IF p \in InstallPcs THEN {r} ELSE {}

Blame(S) == suspect' = suspect \cup S \cup (Installing(pc', cur') \cap expired')

-----------------------------------------------------------------------------
Init == /\ os = {}
        /\ left = [r \in Rule |-> Untracked]
        /\ pc = "off"
        /\ enabled = FALSE
        /\ stopped = FALSE
        /\ obsolete = {}
        /\ desired = {}
        /\ cur = NoRule
        /\ child = "none"
        /\ expired = {}
        /\ xcur = NoRule
        /\ suspect = {}

\* WindowsFlowFirewall(): a new process removes every rule an earlier one left,
\* unless that PowerShell call fails, and starts the expiry thread.
Start == /\ ~Up
         /\ \/ os' = {} /\ suspect' = {}
            \/ PowerShellFails /\ os' = os /\ suspect' = os
         /\ enabled' \in BOOLEAN
         /\ left' = [r \in Rule |-> Untracked]
         /\ stopped' = FALSE
         /\ pc' = "loop"
         /\ obsolete' = {} /\ desired' = {} /\ cur' = NoRule /\ child' = "none"
         /\ expired' = {} /\ xcur' = NoRule

\* The process is killed: the firewall keeps its rules, the dict is lost.  Its PowerShell
\* child is not killed with it and may yet create the rule.
Crash == /\ Up
         /\ os' \in {os} \cup IF child = "running" THEN {os \cup {cur}} ELSE {}
         /\ pc' = "off"
         /\ left' = [r \in Rule |-> Untracked]
         /\ stopped' = FALSE
         /\ enabled' = FALSE
         /\ obsolete' = {} /\ desired' = {} /\ cur' = NoRule /\ child' = "none"
         /\ expired' = {} /\ xcur' = NoRule
         /\ UNCHANGED suspect

-----------------------------------------------------------------------------
\* active_rules(), called once in each turn of the agent's loop.
ReportBegin == /\ pc = "loop"
               /\ pc' = "report"
               /\ UNCHANGED <<os, left, stopped, mainVars, expiryVars>>
               /\ Blame({})

ReportEnd == /\ pc = "report"
             /\ pc' = "loop"
             /\ UNCHANGED <<os, left, stopped, mainVars, expiryVars>>
             /\ Blame({})

-----------------------------------------------------------------------------
\* sync(rules), called with what a successful answer of the server names.

\* The loop that builds "desired": a rule of another host is ignored.
DesiredOf(rules) == rules \cap LocalRule

SyncBegin(rules) == /\ pc = "loop"
                    /\ enabled
                    /\ desired' = DesiredOf(rules)
                    /\ pc' = "snapshot"
                    /\ UNCHANGED <<os, left, stopped, enabled, obsolete, cur, child, expiryVars>>
                    /\ Blame({})

\* existing_names, read under the lock.
SyncSnapshot == /\ pc = "snapshot"
                /\ obsolete' = Tracked \ desired
                /\ pc' = "remove"
                /\ UNCHANGED <<os, left, stopped, enabled, desired, cur, child, expiryVars>>
                /\ Blame({})

RemoveRuleSkipped(r) == /\ r \in Rule
                        /\ os' = os
                        /\ Blame({})

\* _remove_rule: a failure is logged and the caller goes on.
RemoveRule(r) == \/ /\ os' = os \ {r}
                    /\ Blame({})
                 \/ /\ PowerShellFails
                    /\ os' = os
                    /\ Blame({r})

SyncRemove(r) == /\ pc = "remove"
                 /\ r \in obsolete
                 /\ cur' = r
                 /\ obsolete' = obsolete \ {r}
                 /\ pc' = "pop"
                 /\ UNCHANGED <<left, stopped, enabled, desired, child, expiryVars>>
                 /\ RemoveRule(r)

SyncPopBegin == /\ pc = "pop"
                /\ pc' = "popping"
                /\ UNCHANGED <<os, left, stopped, mainVars, expiryVars>>
                /\ Blame({})

SyncPop == /\ pc = "popping"
           /\ left' = [left EXCEPT ![cur] = Untracked]
           /\ cur' = NoRule
           /\ pc' = "remove"
           /\ UNCHANGED <<os, stopped, enabled, obsolete, desired, child, expiryVars>>
           /\ Blame({})

SyncRemoved == /\ pc = "remove"
               /\ obsolete = {}
               /\ pc' = "install"
               /\ UNCHANGED <<os, left, stopped, mainVars, expiryVars>>
               /\ Blame({})

\* _install_rule starts a PowerShell process and waits for it.
SyncInstall(r) == /\ pc = "install"
                  /\ r \in desired
                  /\ cur' = r
                  /\ child' = "running"
                  /\ desired' = desired \ {r}
                  /\ pc' = "installing"
                  /\ UNCHANGED <<os, left, stopped, enabled, obsolete, expiryVars>>
                  /\ Blame({})

\* The PowerShell process creates the rule unless it exists.  It runs beside the
\* agent: also while a signal handler has interrupted the wait.
ChildInstalls == /\ child = "running"
                 /\ os' = os \cup {cur}
                 /\ child' = "done"
                 /\ UNCHANGED <<left, pc, stopped, enabled, obsolete, desired, cur, expiryVars>>
                 /\ Blame({})

\* It fails, or is killed at its timeout, before or after the rule was created.
ChildFails == /\ PowerShellFails
              /\ child = "running"
              /\ child' = "failed"
              /\ UNCHANGED <<left, pc, stopped, enabled, obsolete, desired, cur, expiryVars>>
              /\ \/ os' = os /\ Blame({})
                 \/ os' = os \cup {cur} /\ Blame({cur})

SyncInstalled == /\ pc = "installing"
                 /\ child = "done"
                 /\ child' = "none"
                 /\ pc' = "record"
                 /\ UNCHANGED <<os, left, stopped, enabled, obsolete, desired, cur, expiryVars>>
                 /\ Blame({})

SyncInstallFailedRecords == /\ pc = "installing"
                            /\ child = "failed"
                            /\ child' = "none"
                            /\ pc' = "record"
                            /\ UNCHANGED <<os, left, stopped, enabled, obsolete, desired, cur, expiryVars>>
                            /\ Blame({})

\* The installation failed: the error is logged and _active[name] is not touched.
SyncInstallFailed == /\ pc = "installing"
                     /\ child = "failed"
                     /\ child' = "none"
                     /\ cur' = NoRule
                     /\ pc' = "install"
                     /\ UNCHANGED <<os, left, stopped, enabled, obsolete, desired, expiryVars>>
                     /\ Blame({})

SyncRecordBegin == /\ pc = "record"
                   /\ pc' = "recording"
                   /\ UNCHANGED <<os, left, stopped, mainVars, expiryVars>>
                   /\ Blame({})

\* _active[name] = {..., expires_at: now + ttl}: a rule already there is refreshed.
SyncRecord == /\ pc = "recording"
              /\ left' = [left EXCEPT ![cur] = TTL]
              /\ cur' = NoRule
              /\ pc' = "install"
              /\ UNCHANGED <<os, stopped, enabled, obsolete, desired, child, expiryVars>>
              /\ Blame({})

SyncEnd == /\ pc = "install"
           /\ desired = {}
           /\ pc' = "loop"
           /\ UNCHANGED <<os, left, stopped, mainVars, expiryVars>>
           /\ Blame({})

-----------------------------------------------------------------------------
\* _expiry_loop, in a daemon thread.

ExpirySnapshotEarly == /\ Up
                       /\ enabled
                       /\ ~stopped
                       /\ ~MainHoldsLock
                       /\ expired = {}
                       /\ expired' = {r \in Rule : left[r] \in {0, 1}}
                       /\ expired' # {}
                       /\ UNCHANGED <<os, left, pc, stopped, mainVars, xcur>>
                       /\ Blame({})

ExpirySnapshot == /\ Up
                  /\ enabled
                  /\ ~stopped
                  /\ ~MainHoldsLock
                  /\ expired = {}
                  /\ expired' = {r \in Rule : left[r] = 0}
                  /\ expired' # {}
                  /\ UNCHANGED <<os, left, pc, stopped, mainVars, xcur>>
                  /\ Blame({})

ExpiryRemove(r) == /\ xcur = NoRule
                   /\ r \in expired
                   /\ xcur' = r
                   /\ UNCHANGED <<left, pc, stopped, mainVars, expired>>
                   /\ RemoveRule(r)

ExpiryPop == /\ xcur # NoRule
             /\ ~MainHoldsLock
             /\ left' = [left EXCEPT ![xcur] = Untracked]
             /\ expired' = expired \ {xcur}
             /\ xcur' = NoRule
             /\ UNCHANGED <<os, pc, stopped, mainVars>>
             /\ Blame({})

-----------------------------------------------------------------------------
\* handle_shutdown runs on the main thread, wherever that thread is, and calls stop.

\* Inside a critical section: stop waits for the lock that its own thread holds.
SignalInside == /\ MainHoldsLock
                /\ pc # "wedged"
                /\ stopped' = TRUE
                /\ pc' = "wedged"
                /\ UNCHANGED <<os, left, mainVars, expiryVars>>
                /\ Blame(Installing(pc, cur))

Signal == /\ Up
          /\ ~MainHoldsLock
          /\ stopped' = TRUE
          /\ pc' = "stop"
          /\ UNCHANGED <<os, left, mainVars, expiryVars>>
          /\ Blame(Installing(pc, cur))

StopNamesBegin == /\ pc = "stop"
                  /\ pc' = "naming"
                  /\ UNCHANGED <<os, left, stopped, mainVars, expiryVars>>
                  /\ Blame({})

StopNames == /\ pc = "naming"
             /\ obsolete' = Tracked
             /\ pc' = "clear"
             /\ UNCHANGED <<os, left, stopped, enabled, desired, cur, child, expiryVars>>
             /\ Blame({})

StopRemove(r) == /\ pc = "clear"
                 /\ r \in obsolete
                 /\ obsolete' = obsolete \ {r}
                 /\ UNCHANGED <<left, pc, stopped, enabled, desired, cur, child, expiryVars>>
                 /\ RemoveRule(r)

StopClearBeginEarly == /\ pc = "clear"
                       /\ pc' = "clearing"
                       /\ UNCHANGED <<os, left, stopped, mainVars, expiryVars>>
                       /\ Blame({})

StopClearBegin == /\ pc = "clear"
                  /\ obsolete = {}
                  /\ pc' = "clearing"
                  /\ UNCHANGED <<os, left, stopped, mainVars, expiryVars>>
                  /\ Blame({})

StopClear == /\ pc = "clearing"
             /\ left' = [r \in Rule |-> Untracked]
             /\ pc' = "join"
             /\ UNCHANGED <<os, stopped, mainVars, expiryVars>>
             /\ Blame({})

\* join(timeout=2) returns whether or not the expiry thread has ended, and
\* sys.exit ends the process and its daemon thread; on its way out of subprocess.run it
\* kills the PowerShell child.
StopJoin == /\ pc = "join"
            /\ pc' = "exited"
            /\ obsolete' = {} /\ desired' = {} /\ cur' = NoRule /\ child' = "none"
            /\ expired' = {} /\ xcur' = NoRule
            /\ enabled' = FALSE
            /\ UNCHANGED <<os, left, stopped, suspect>>

-----------------------------------------------------------------------------
\* The monotonic clock.
Tick == /\ Up
        /\ \E r \in Rule : left[r] > 0
        /\ left' = [r \in Rule |-> IF left[r] > 0 THEN left[r] - 1 ELSE left[r]]
        /\ UNCHANGED <<os, pc, stopped, mainVars, expiryVars>>
        /\ Blame({})

SyncStep == \/ SyncSnapshot \/ SyncPopBegin \/ SyncPop \/ SyncRemoved
            \/ SyncInstalled \/ SyncInstallFailed \/ SyncRecordBegin \/ SyncRecord \/ SyncEnd
            \/ \E r \in Rule : SyncRemove(r) \/ SyncInstall(r)

ExpiryStep == ExpirySnapshot \/ ExpiryPop \/ \E r \in Rule : ExpiryRemove(r)

StopStep == \/ StopNamesBegin \/ StopNames \/ StopClearBegin \/ StopClear \/ StopJoin
            \/ \E r \in Rule : StopRemove(r)

Next == \/ Start \/ Crash \/ Tick
        \/ ReportBegin \/ ReportEnd
        \/ \E rules \in SUBSET Rule : SyncBegin(rules)
        \/ SyncStep
        \/ ChildInstalls \/ ChildFails
        \/ ExpiryStep
        \/ Signal \/ SignalInside
        \/ StopStep

Spec == Init /\ [][Next]_vars

\* The clock and both threads go on, and PowerShell answers or times out; nothing
\* makes the agent start, crash, be told to stop or hear from the server.
Fairness == /\ WF_vars(Tick)
            /\ WF_vars(ReportEnd)
            /\ WF_vars(SyncStep)
            /\ WF_vars(ChildInstalls \/ ChildFails)
            /\ SF_vars(ExpirySnapshot)
            /\ SF_vars(ExpiryPop)
            /\ WF_vars(\E r \in Rule : ExpiryRemove(r))
            /\ WF_vars(StopStep)

FairSpec == Spec /\ Fairness

-----------------------------------------------------------------------------
\* The types of the variables, and what the cursors of the two threads point at.
TypeOK == /\ os \subseteq LocalRule
          /\ left \in [Rule -> Untracked..TTL]
          /\ pc \in Pcs
          /\ enabled \in BOOLEAN
          /\ stopped \in BOOLEAN
          /\ obsolete \subseteq Rule
          /\ desired \subseteq LocalRule
          /\ cur \in Rule \cup {NoRule}
          /\ child \in {"none", "running", "done", "failed"}
          /\ expired \subseteq Rule
          /\ xcur \in expired \cup {NoRule}
          /\ suspect \subseteq Rule

\* While the agent runs, a rule in the firewall that _active does not know, and
\* that therefore neither sync nor the expiry loop will remove, is one that sync
\* is installing at this moment, or one whose installation overlapped with the
\* expiry thread's pass, was cut by a signal, or met a failing PowerShell call.
\* Nothing else in sync, _expiry_loop and stop makes the two tables differ.
UntrackedExplained ==
  Up => os \subseteq Tracked \cup Installing(pc, cur) \cup suspect

\* What active_rules() reports to the server as blocked is blocked, but for a rule
\* the expiry thread is removing and for one it had in its pass during its
\* installation.
ReportedIsBlocked ==
  pc = "report" => Tracked \subseteq os \cup expired \cup suspect

\* After stop() has returned, no rule is left in the firewall but a suspect one.
ShutdownClears ==
  pc = "exited" => os \subseteq suspect

\* The expiry thread lifts a rule whose time has not run out only if sync refreshed
\* it while the thread had it in its pass.
NoEarlyLift ==
  [][\A r \in os \ os' : (pc' = pc /\ pc \notin StopPcs /\ left[r] > 0) => r \in suspect']_vars

\* When the server no longer answers, the rules are lifted: none but the suspect
\* ones stays in the firewall.
SilentServerLifts ==
  <>[](pc \in {"loop", "report"}) => <>[](os \subseteq suspect)

-----------------------------------------------------------------------------
(* What the documentation says of the program.                              *)

\* README.md: the rules "expire after 120 seconds without refresh".
RulesExpire ==
  <>[](pc \in {"loop", "report"}) => <>[](os = {})

\* README.md: the rules "are removed on normal agent shutdown", which ends the agent
\* or leaves it waiting for its own lock.
ShutdownRemovesRules ==
  [](pc \in {"exited", "wedged"} => os = {})

\* README.md makes both promises in one sentence.  Less than that, that each run of the
\* agents of a host keeps at least one of the two, is false only if neither is true.
OnePromiseKept == RulesExpire \/ ShutdownRemovesRules

-----------------------------------------------------------------------------
(* The inductive invariant behind UntrackedExplained, ReportedIsBlocked,    *)
(* ShutdownClears and NoEarlyLift.                                          *)

\* No signal has interrupted the main thread.
Undisturbed == Up /\ pc # "wedged" /\ pc \notin StopPcs

\* The PowerShell child exists only while sync waits for it or after a signal.
ChildInv == /\ child # "none" => pc = "installing" \/ pc = "wedged" \/ pc \in StopPcs
            /\ child = "running" => /\ cur \in LocalRule
                                    /\ pc = "installing" \/ cur \in suspect

\* What sync knows of the rule it is installing.
InstallInv == /\ pc \in InstallPcs => cur \in LocalRule
              /\ pc \in InstallPcs /\ cur \in expired => cur \in suspect
              /\ pc = "installing" /\ child # "done" /\ cur \in os => cur \in Tracked \cup suspect
              /\ pc = "installing" /\ child = "done" => cur \in os \cup suspect
              /\ pc \in {"record", "recording"} => cur \in os \cup suspect

\* What either thread has removed is out of the firewall when it pops it.
RemoveInv == /\ pc \in {"pop", "popping"} => cur \in Rule /\ (cur \in os => cur \in suspect)
             /\ xcur \in os => xcur \in suspect

\* The expiry thread's pass ends with the process, and holds rules whose time ran out.
ExpiryInv == /\ ~Up => expired = {}
             /\ \A r \in expired : left[r] > 0 => r \in suspect

TrackedInv ==
  Undisturbed =>
    \A r \in Tracked : \/ r \in os \cup expired \cup suspect
                       \/ pc \in {"pop", "popping"} /\ r = cur

StopInv == /\ pc = "clear" => os \subseteq obsolete \cup suspect
           /\ pc \in {"clearing", "join", "exited"} => os \subseteq suspect

IInv == /\ TypeOK
        /\ UntrackedExplained
        /\ ChildInv
        /\ InstallInv
        /\ RemoveInv
        /\ ExpiryInv
        /\ TrackedInv
        /\ StopInv
=============================================================================
