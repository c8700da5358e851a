------------------------- MODULE FlowFirewallProofs -------------------------
(* What holds of FlowFirewall for every set of rules and every TTL. *)
EXTENDS FlowFirewall, TLAPS

\* The mark of a rule that is not in _active is one of left's values.
LEMMA UntrackedType == Untracked \in Untracked..TTL
BY FirewallAssumption DEF Untracked

\* A freshly booted host, with no agent and no rule.
LEMMA InitIInv == Init => IInv
<1> SUFFICES ASSUME Init PROVE IInv
  OBVIOUS
<1> USE FirewallAssumption DEF Init, Pcs, LockHeld, InstallPcs, StopPcs
<1>1. TypeOK
  <2>1. left \in [Rule -> Untracked..TTL]
    BY UntrackedType
  <2> QED
    BY <2>1 DEF TypeOK
<1>2. UntrackedExplained /\ ChildInv /\ InstallInv /\ RemoveInv /\ ExpiryInv /\ StopInv
  BY DEF UntrackedExplained, ChildInv, InstallInv, RemoveInv, ExpiryInv, StopInv, Up
<1>3. TrackedInv
  BY DEF TrackedInv, Undisturbed, Up
<1> QED
  BY <1>1, <1>2, <1>3 DEF IInv

\* Starting, being killed, the passing of time and the report to the server.
LEMMA LifecycleIInv ==
  ASSUME IInv,
         Start \/ Crash \/ Tick \/ ReportBegin
         \/ ReportEnd
  PROVE  IInv'
<1> USE FirewallAssumption, UntrackedType DEF Pcs, LockHeld, InstallPcs, StopPcs, Installing,
         Blame, RemoveRule, DesiredOf, mainVars, expiryVars, MainHoldsLock, Up
<1>1. CASE Start
  BY <1>1 DEF Start, IInv, TypeOK, UntrackedExplained, ChildInv, InstallInv, RemoveInv,
         ExpiryInv, TrackedInv, StopInv, Undisturbed, Tracked
<1>2. CASE Crash
  BY <1>2 DEF Crash, IInv, TypeOK, UntrackedExplained, ChildInv, InstallInv, RemoveInv,
         ExpiryInv, TrackedInv, StopInv, Undisturbed, Tracked
<1>3. CASE Tick
  <2> USE <1>3 DEF Tick
  <2>1. left' \in [Rule -> Untracked..TTL]
    BY DEF IInv, TypeOK, Untracked
  <2>2. Tracked' = Tracked
    BY DEF IInv, TypeOK, Tracked, Untracked
  <2>3. \A r \in Rule : left'[r] > 0 => left[r] > 0
    BY DEF IInv, TypeOK, Untracked
  <2>4. TypeOK'
    BY <2>1 DEF IInv, TypeOK
  <2>5. ExpiryInv'
    BY <2>3 DEF IInv, TypeOK, ExpiryInv
  <2>6. InstallInv' /\ UntrackedExplained' /\ TrackedInv'
    BY <2>2 DEF IInv, TypeOK, InstallInv, UntrackedExplained, TrackedInv, Undisturbed
  <2> QED
    BY <2>4, <2>5, <2>6 DEF IInv, ChildInv, RemoveInv, StopInv
<1>4. CASE ReportBegin
  BY <1>4 DEF ReportBegin, IInv, TypeOK, UntrackedExplained, ChildInv, InstallInv, RemoveInv,
         ExpiryInv, TrackedInv, StopInv, Undisturbed, Tracked
<1>5. CASE ReportEnd
  BY <1>5 DEF ReportEnd, IInv, TypeOK, UntrackedExplained, ChildInv, InstallInv, RemoveInv,
         ExpiryInv, TrackedInv, StopInv, Undisturbed, Tracked
<1> QED
  BY <1>1, <1>2, <1>3, <1>4, <1>5

\* sync up to the end of its removals.
LEMMA SyncRemovalIInv ==
  ASSUME IInv,
         (\E rules \in SUBSET Rule : SyncBegin(rules)) \/ SyncSnapshot \/ (\E r \in Rule : SyncRemove(r)) \/ SyncPopBegin
         \/ SyncPop \/ SyncRemoved
  PROVE  IInv'
<1> USE FirewallAssumption, UntrackedType DEF Pcs, LockHeld, InstallPcs, StopPcs, Installing,
         Blame, RemoveRule, DesiredOf, mainVars, expiryVars, MainHoldsLock, Up
<1>1. CASE \E rules \in SUBSET Rule : SyncBegin(rules)
  BY <1>1 DEF SyncBegin, IInv, TypeOK, UntrackedExplained, ChildInv, InstallInv, RemoveInv,
         ExpiryInv, TrackedInv, StopInv, Undisturbed, Tracked
<1>2. CASE SyncSnapshot
  BY <1>2 DEF SyncSnapshot, IInv, TypeOK, UntrackedExplained, ChildInv, InstallInv, RemoveInv,
         ExpiryInv, TrackedInv, StopInv, Undisturbed, Tracked
<1>3. CASE \E r \in Rule : SyncRemove(r)
  BY <1>3 DEF SyncRemove, IInv, TypeOK, UntrackedExplained, ChildInv, InstallInv, RemoveInv,
         ExpiryInv, TrackedInv, StopInv, Undisturbed, Tracked
<1>4. CASE SyncPopBegin
  BY <1>4 DEF SyncPopBegin, IInv, TypeOK, UntrackedExplained, ChildInv, InstallInv, RemoveInv,
         ExpiryInv, TrackedInv, StopInv, Undisturbed, Tracked
<1>5. CASE SyncPop
  BY <1>5 DEF SyncPop, IInv, TypeOK, UntrackedExplained, ChildInv, InstallInv, RemoveInv,
         ExpiryInv, TrackedInv, StopInv, Undisturbed, Tracked
<1>6. CASE SyncRemoved
  BY <1>6 DEF SyncRemoved, IInv, TypeOK, UntrackedExplained, ChildInv, InstallInv, RemoveInv,
         ExpiryInv, TrackedInv, StopInv, Undisturbed, Tracked
<1> QED
  BY <1>1, <1>2, <1>3, <1>4, <1>5, <1>6

\* sync's installations and the PowerShell process it waits for.
LEMMA SyncInstallationIInv ==
  ASSUME IInv,
         (\E r \in Rule : SyncInstall(r)) \/ ChildInstalls \/ ChildFails \/ SyncInstalled
         \/ SyncInstallFailed \/ SyncRecordBegin \/ SyncRecord \/ SyncEnd
  PROVE  IInv'
<1> USE FirewallAssumption, UntrackedType DEF Pcs, LockHeld, InstallPcs, StopPcs, Installing,
         Blame, RemoveRule, DesiredOf, mainVars, expiryVars, MainHoldsLock, Up
<1>1. CASE \E r \in Rule : SyncInstall(r)
  BY <1>1 DEF SyncInstall, IInv, TypeOK, UntrackedExplained, ChildInv, InstallInv, RemoveInv,
         ExpiryInv, TrackedInv, StopInv, Undisturbed, Tracked
<1>2. CASE ChildInstalls
  <2> USE <1>2 DEF ChildInstalls
  <2>1. cur \in LocalRule /\ (pc = "installing" \/ cur \in suspect)
    BY DEF IInv, ChildInv
  <2>2. TypeOK' /\ ChildInv'
    BY <2>1 DEF IInv, TypeOK, ChildInv
  <2>3. UntrackedExplained' /\ InstallInv'
    BY <2>1 DEF IInv, TypeOK, UntrackedExplained, InstallInv, Tracked
  <2>4. RemoveInv'
    BY <2>1 DEF IInv, TypeOK, RemoveInv, ChildInv, InstallInv
  <2>5. StopInv'
    BY <2>1 DEF IInv, TypeOK, StopInv
  <2>6. TrackedInv' /\ ExpiryInv'
    BY DEF IInv, TypeOK, TrackedInv, Undisturbed, Tracked, ExpiryInv
  <2> QED
    BY <2>2, <2>3, <2>4, <2>5, <2>6 DEF IInv
<1>3. CASE ChildFails
  BY <1>3 DEF ChildFails, IInv, TypeOK, UntrackedExplained, ChildInv, InstallInv, RemoveInv,
         ExpiryInv, TrackedInv, StopInv, Undisturbed, Tracked
<1>4. CASE SyncInstalled
  BY <1>4 DEF SyncInstalled, IInv, TypeOK, UntrackedExplained, ChildInv, InstallInv, RemoveInv,
         ExpiryInv, TrackedInv, StopInv, Undisturbed, Tracked
<1>5. CASE SyncInstallFailed
  BY <1>5 DEF SyncInstallFailed, IInv, TypeOK, UntrackedExplained, ChildInv, InstallInv, RemoveInv,
         ExpiryInv, TrackedInv, StopInv, Undisturbed, Tracked
<1>6. CASE SyncRecordBegin
  BY <1>6 DEF SyncRecordBegin, IInv, TypeOK, UntrackedExplained, ChildInv, InstallInv, RemoveInv,
         ExpiryInv, TrackedInv, StopInv, Undisturbed, Tracked
<1>7. CASE SyncRecord
  <2> USE <1>7 DEF SyncRecord
  <2>1. cur \in LocalRule /\ (cur \in expired => cur \in suspect) /\ cur \in os \cup suspect
    BY DEF IInv, InstallInv
  <2>2. TypeOK' /\ left'[cur] = TTL
    BY <2>1 DEF IInv, TypeOK, Untracked
  <2>3. Tracked' = Tracked \cup {cur}
    BY <2>1 DEF IInv, TypeOK, Tracked, Untracked
  <2>4. UntrackedExplained'
    BY <2>3 DEF IInv, TypeOK, UntrackedExplained
  <2>5. ExpiryInv'
    BY <2>1 DEF IInv, TypeOK, ExpiryInv
  <2>6. TrackedInv'
    BY <2>1, <2>3 DEF IInv, TypeOK, TrackedInv, Undisturbed
  <2> QED
    BY <2>2, <2>4, <2>5, <2>6 DEF IInv, TypeOK, ChildInv, InstallInv, RemoveInv, StopInv
<1>8. CASE SyncEnd
  BY <1>8 DEF SyncEnd, IInv, TypeOK, UntrackedExplained, ChildInv, InstallInv, RemoveInv,
         ExpiryInv, TrackedInv, StopInv, Undisturbed, Tracked
<1> QED
  BY <1>1, <1>2, <1>3, <1>4, <1>5, <1>6, <1>7, <1>8

\* The expiry thread.
LEMMA ExpiryIInv ==
  ASSUME IInv,
         ExpirySnapshot \/ (\E r \in Rule : ExpiryRemove(r)) \/ ExpiryPop
  PROVE  IInv'
<1> USE FirewallAssumption, UntrackedType DEF Pcs, LockHeld, InstallPcs, StopPcs, Installing,
         Blame, RemoveRule, DesiredOf, mainVars, expiryVars, MainHoldsLock, Up
<1>1. CASE ExpirySnapshot
  BY <1>1 DEF ExpirySnapshot, IInv, TypeOK, UntrackedExplained, ChildInv, InstallInv, RemoveInv,
         ExpiryInv, TrackedInv, StopInv, Undisturbed, Tracked
<1>2. CASE \E r \in Rule : ExpiryRemove(r)
  BY <1>2 DEF ExpiryRemove, IInv, TypeOK, UntrackedExplained, ChildInv, InstallInv, RemoveInv,
         ExpiryInv, TrackedInv, StopInv, Undisturbed, Tracked
<1>3. CASE ExpiryPop
  <2> USE <1>3 DEF ExpiryPop
  <2>1. xcur \in expired /\ (xcur \in os => xcur \in suspect)
    BY DEF IInv, TypeOK, RemoveInv
  <2>2. TypeOK'
    BY <2>1 DEF IInv, TypeOK
  <2>3. Tracked' = Tracked \ {xcur}
    BY <2>1 DEF IInv, TypeOK, Tracked
  <2>4. UntrackedExplained' /\ InstallInv'
    BY <2>1, <2>3 DEF IInv, TypeOK, UntrackedExplained, InstallInv
  <2>5. ExpiryInv' /\ RemoveInv'
    BY <2>1 DEF IInv, TypeOK, ExpiryInv, RemoveInv, Untracked
  <2>6. TrackedInv'
    BY <2>3 DEF IInv, TypeOK, TrackedInv, Undisturbed
  <2> QED
    BY <2>2, <2>4, <2>5, <2>6 DEF IInv, ChildInv, StopInv
<1> QED
  BY <1>1, <1>2, <1>3

\* The shutdown handler.
LEMMA ShutdownIInv ==
  ASSUME IInv,
         Signal \/ SignalInside \/ StopNamesBegin \/ StopNames
         \/ (\E r \in Rule : StopRemove(r)) \/ StopClearBegin \/ StopClear \/ StopJoin
  PROVE  IInv'
<1> USE FirewallAssumption, UntrackedType DEF Pcs, LockHeld, InstallPcs, StopPcs, Installing,
         Blame, RemoveRule, DesiredOf, mainVars, expiryVars, MainHoldsLock, Up
<1>1. CASE Signal
  BY <1>1 DEF Signal, IInv, TypeOK, UntrackedExplained, ChildInv, InstallInv, RemoveInv,
         ExpiryInv, TrackedInv, StopInv, Undisturbed, Tracked
<1>2. CASE SignalInside
  BY <1>2 DEF SignalInside, IInv, TypeOK, UntrackedExplained, ChildInv, InstallInv, RemoveInv,
         ExpiryInv, TrackedInv, StopInv, Undisturbed, Tracked
<1>3. CASE StopNamesBegin
  BY <1>3 DEF StopNamesBegin, IInv, TypeOK, UntrackedExplained, ChildInv, InstallInv, RemoveInv,
         ExpiryInv, TrackedInv, StopInv, Undisturbed, Tracked
<1>4. CASE StopNames
  BY <1>4 DEF StopNames, IInv, TypeOK, UntrackedExplained, ChildInv, InstallInv, RemoveInv,
         ExpiryInv, TrackedInv, StopInv, Undisturbed, Tracked
<1>5. CASE \E r \in Rule : StopRemove(r)
  BY <1>5 DEF StopRemove, IInv, TypeOK, UntrackedExplained, ChildInv, InstallInv, RemoveInv,
         ExpiryInv, TrackedInv, StopInv, Undisturbed, Tracked
<1>6. CASE StopClearBegin
  BY <1>6 DEF StopClearBegin, IInv, TypeOK, UntrackedExplained, ChildInv, InstallInv, RemoveInv,
         ExpiryInv, TrackedInv, StopInv, Undisturbed, Tracked
<1>7. CASE StopClear
  BY <1>7 DEF StopClear, IInv, TypeOK, UntrackedExplained, ChildInv, InstallInv, RemoveInv,
         ExpiryInv, TrackedInv, StopInv, Undisturbed, Tracked
<1>8. CASE StopJoin
  BY <1>8 DEF StopJoin, IInv, TypeOK, UntrackedExplained, ChildInv, InstallInv, RemoveInv,
         ExpiryInv, TrackedInv, StopInv, Undisturbed, Tracked
<1> QED
  BY <1>1, <1>2, <1>3, <1>4, <1>5, <1>6, <1>7, <1>8

\* What sync, _expiry_loop, stop and a restart maintain together.
THEOREM Invariant == Spec => []IInv
<1>1. IInv /\ [Next]_vars => IInv'
  <2> SUFFICES ASSUME IInv, [Next]_vars PROVE IInv'
    OBVIOUS
  <2>1. CASE Next
    BY <2>1, LifecycleIInv, SyncRemovalIInv, SyncInstallationIInv, ExpiryIInv, ShutdownIInv
       DEF Next, SyncStep, ExpiryStep, StopStep
  <2>2. CASE UNCHANGED vars
    BY <2>2 DEF vars, IInv, TypeOK, UntrackedExplained, ChildInv, InstallInv, RemoveInv,
       ExpiryInv, TrackedInv, StopInv, Undisturbed, Tracked, Installing, Up
  <2> QED
    BY <2>1, <2>2
<1> QED
  BY InitIInv, <1>1, PTL DEF Spec

-----------------------------------------------------------------------------
(* The properties.                                                          *)

\* The variables keep their types, whatever the threads, the signals and
\* PowerShell do.
THEOREM TypeCorrect == Spec => []TypeOK
BY Invariant, PTL DEF IInv

\* sync, the expiry loop and stop leave a rule in the firewall that _active does
\* not know only through one of the events recorded in suspect.
THEOREM UntrackedIsExplained == Spec => []UntrackedExplained
BY Invariant, PTL DEF IInv

\* stop() leaves only suspect rules behind.
THEOREM ShutdownIsClean == Spec => []ShutdownClears
<1>1. IInv => ShutdownClears
  BY DEF IInv, StopInv, ShutdownClears
<1> QED
  BY Invariant, <1>1, PTL

\* The report to the server is right but for rules in the expiry thread's hands.
THEOREM ReportIsRight == Spec => []ReportedIsBlocked
<1>1. IInv => ReportedIsBlocked
  BY DEF IInv, TrackedInv, ReportedIsBlocked, Undisturbed, Up, StopPcs
<1> QED
  BY Invariant, <1>1, PTL

\* The expiry thread lifts a rule early only after an overlap with sync.
THEOREM NoRuleLiftedEarly == Spec => NoEarlyLift
<1> DEFINE Kept == \A r \in os \ os' :
                     (pc' = pc /\ pc \notin StopPcs /\ left[r] > 0) => r \in suspect'
<1>1. IInv /\ [Next]_vars => [Kept]_vars
  <2> SUFFICES ASSUME IInv, Next,
                      NEW r \in os \ os', pc' = pc, pc \notin StopPcs, left[r] > 0
               PROVE  r \in suspect'
    BY DEF vars
  <2>1. PICK q \in Rule : ExpiryRemove(q)
    BY DEF Next, SyncStep, ExpiryStep, StopStep, Start, Crash, Tick, ReportBegin, ReportEnd,
       SyncBegin, SyncSnapshot, SyncRemove, SyncPopBegin, SyncPop, SyncRemoved, SyncInstall,
       ChildInstalls, ChildFails, SyncInstalled, SyncInstallFailed, SyncRecordBegin,
       SyncRecord, SyncEnd, ExpirySnapshot, ExpiryPop, Signal, SignalInside,
       StopNamesBegin, StopNames, StopRemove, StopClearBegin, StopClear, StopJoin, Up, StopPcs
  <2>2. q = r /\ r \in expired
    BY <2>1 DEF ExpiryRemove, RemoveRule
  <2>3. r \in suspect
    BY <2>2 DEF IInv, ExpiryInv
  <2> QED
    BY <2>1, <2>3 DEF ExpiryRemove, RemoveRule, Blame
<1> QED
  BY Invariant, <1>1, PTL DEF Spec, NoEarlyLift
=============================================================================
