---------------------------- MODULE ServerProofs ----------------------------
(***************************************************************************)
(* What holds of the two mechanisms by which the work in the server is     *)
(* shared out: SingletonLock, which gives a background task to one of its  *)
(* processes, for every set of process ids and every number of workers,    *)
(* and TelemetryPool, which gives the uploads to its threads, for every    *)
(* number of permits, threads, attempts and uploads.                       *)
(***************************************************************************)
EXTENDS SingletonLock, TelemetryPool, FiniteSetTheorems, TLAPS

-----------------------------------------------------------------------------
(* SingletonLock                                                            *)

\* A host on which the task has never run.
LEMMA InitLockInv == LockInit => LockInv
BY LockAssumption DEF LockInit, LockInv, LockTypeOK, FileInv, RunnerIsNamed, AcquirerInv, States, Acquiring,
   Returned, Running, Runners

\* The history only grows, and tells of each overlap that a step leads to.
LEMMA PastGrows ==
  ASSUME NEW S, Remember(S)
  PROVE  /\ past \cup S \subseteq past'
         /\ Unraced' => Unraced /\ "unguarded" \notin S /\ ~Overlap(st')
BY DEF Remember, Unraced

\* Booting, crashing and the coming and going of unrelated processes.
LEMMA HostLockInv ==
  ASSUME LockInv, NEW p \in Pid, Boot(p) \/ Crash(p) \/ OtherStarts(p) \/ OtherExits(p)
  PROVE  LockInv'
<1> USE LockAssumption DEF States, Acquiring, Returned, Running
<1>1. LockTypeOK' /\ FileInv'
  <2> USE DEF LockInv, LockTypeOK, FileInv, Remember, Reuse, Events, WorkerPids
  <2>1. CASE Boot(p)
    BY <2>1 DEF Boot
  <2>2. CASE Crash(p)
    BY <2>2 DEF Crash
  <2>3. CASE OtherStarts(p) \/ OtherExits(p)
    BY <2>3 DEF OtherStarts, OtherExits
  <2> QED
    BY <2>1, <2>2, <2>3
<1>2. ASSUME Unraced' PROVE Unraced /\ ~Overlap(st') /\ st'[p] # "unguarded"
  BY <1>2, PastGrows DEF LockInv, LockTypeOK, Boot, Crash, OtherStarts, OtherExits
<1>3. file' = file /\ st'[p] \in {"open", "down", "other", "unguarded"}
      /\ \A q \in Pid \ {p} : st'[q] = st[q] /\ existing'[q] = existing[q]
  BY DEF LockInv, LockTypeOK, Boot, Crash, OtherStarts, OtherExits
<1>4. ASSUME Unraced' PROVE AcquirerInv' /\ \A q \in Pid : st'[q] # "unguarded"
  BY <1>2, <1>3, <1>4 DEF LockInv, AcquirerInv, Overlap, Runners
<1>5. RunnerIsNamed'
  BY <1>2, <1>3 DEF LockInv, RunnerIsNamed, Runners
<1> QED
  BY <1>1, <1>4, <1>5 DEF LockInv

\* acquire_singleton_lock.
LEMMA AcquireLockInv ==
  ASSUME LockInv, NEW p \in Pid, Acquire(p)
  PROVE  LockInv'
<1> USE LockAssumption DEF States, Acquiring, Returned, Running
<1>1. ASSUME Unraced' PROVE Unraced
  BY <1>1, PastGrows DEF Acquire, Open, WritePid, ReadPid, CheckPid, Truncate, Rewrite, RewriteFails
<1>2. CASE Open(p)
  <2>1. ASSUME Unraced PROVE file = NoFile => Runners = {}
    BY <2>1 DEF LockInv, RunnerIsNamed, Runners
  <2> QED
    BY <1>1, <1>2, <2>1 DEF Open, LockInv, LockTypeOK, FileInv, RunnerIsNamed, AcquirerInv, Runners, Remember, Events
<1>3. CASE WritePid(p)
  <2> USE <1>3 DEF WritePid
  <2>1. LockTypeOK' /\ FileInv'
    BY DEF LockInv, LockTypeOK, FileInv, Remember, Events
  <2>2. ASSUME Unraced' PROVE Runners' = {p}
    BY <1>1, <2>2 DEF LockInv, LockTypeOK, AcquirerInv, Runners
  <2>3. ASSUME Unraced' PROVE AcquirerInv' /\ \A q \in Pid : st'[q] # "unguarded"
    BY <1>1, <2>3 DEF LockInv, LockTypeOK, AcquirerInv
  <2>4. RunnerIsNamed'
    BY <2>2 DEF RunnerIsNamed
  <2> QED
    BY <2>1, <2>3, <2>4 DEF LockInv
<1>4. CASE ReadPid(p)
  BY <1>1, <1>4 DEF ReadPid, LockInv, LockTypeOK, FileInv, RunnerIsNamed, AcquirerInv, Runners, Remember, Events
<1>5. CASE CheckPid(p)
  <2>1. ASSUME Unraced, st'[p] = "stale" PROVE Runners = {}
    <3>1. existing[p] = file /\ ~(file # Empty /\ Alive(file))
      BY <1>5, <2>1 DEF CheckPid, LockInv, LockTypeOK, AcquirerInv
    <3> QED
      BY <2>1, <3>1 DEF LockInv, RunnerIsNamed, Runners, Alive
  <2> QED
    BY <1>1, <1>5, <2>1 DEF CheckPid, LockInv, LockTypeOK, FileInv, RunnerIsNamed, AcquirerInv, Runners, Remember, Events
<1>6. CASE Truncate(p)
  BY <1>1, <1>6 DEF Truncate, LockInv, LockTypeOK, FileInv, RunnerIsNamed, AcquirerInv, Runners, Remember, Events
<1>7. CASE Rewrite(p)
  BY <1>1, <1>7 DEF Rewrite, LockInv, LockTypeOK, FileInv, RunnerIsNamed, AcquirerInv, Runners, Remember, Events
<1>8. CASE RewriteFails(p)
  BY <1>1, <1>8 DEF RewriteFails, LockInv, LockTypeOK, FileInv, RunnerIsNamed, AcquirerInv, Runners, Remember, Events
<1> QED
  BY <1>2, <1>3, <1>4, <1>5, <1>6, <1>7, <1>8 DEF Acquire

\* What the workers, whatever happens to them, maintain together.
THEOREM LockInvariant == LockSpec => []LockInv
<1>1. LockInv /\ [LockNext]_lockVars => LockInv'
  <2> SUFFICES ASSUME LockInv, [LockNext]_lockVars PROVE LockInv'
    OBVIOUS
  <2>1. CASE LockNext
    BY <2>1, HostLockInv, AcquireLockInv DEF LockNext
  <2>2. CASE UNCHANGED lockVars
    BY <2>2 DEF lockVars, LockInv, LockTypeOK, FileInv, RunnerIsNamed, AcquirerInv, Runners, Unraced
  <2> QED
    BY <2>1, <2>2
<1> QED
  BY InitLockInv, <1>1, PTL DEF LockSpec

-----------------------------------------------------------------------------
\* The variables of the lock keep their types.
THEOREM LockTypeCorrect == LockSpec => []LockTypeOK
BY LockInvariant, PTL DEF LockInv

\* The file names the process that runs the task, unless two workers were inside
\* acquire_singleton_lock at once or .locks could not be made.
THEOREM RunnerNamed == LockSpec => []RunnerIsNamed
BY LockInvariant, PTL DEF LockInv

\* Under the same condition acquire_singleton_lock lets one process run the task.
THEOREM AtMostOneRunner == LockSpec => []OneRunner
<1>1. RunnerIsNamed => OneRunner
  BY DEF RunnerIsNamed, OneRunner
<1> QED
  BY RunnerNamed, <1>1, PTL

\* Only finitely many workers exist.
LEMMA WorkersFinite == IsFiniteSet(WorkerPids) /\ Cardinality(WorkerPids) \in Nat
BY LockAssumption, FS_Subset, FS_CardinalityType DEF WorkerPids

\* A host without workers: there is at least one to come.
LEMMA InitCoverInv == LockInit => CoverInv
<1> SUFFICES ASSUME LockInit PROVE CoverInv
  OBVIOUS
<1>1. WorkerPids = {}
  BY DEF LockInit, WorkerPids
<1> QED
  BY <1>1, LockAssumption, FS_EmptySet DEF LockInit, CoverInv

\* A worker that boots will run the task; while one that crashed is not replaced,
\* nothing is promised; an unrelated process can only take an id that is reused.
LEMMA HostCoverInv ==
  ASSUME LockInv, CoverInv, NEW p \in Pid,
         Boot(p) \/ Crash(p) \/ OtherStarts(p) \/ OtherExits(p)
  PROVE  CoverInv'
<1> USE LockAssumption DEF States, Acquiring, Returned, Running
<1>1. /\ past \subseteq past' /\ file' = file
      /\ "reuse" \notin past' /\ st[p] = "down" /\ st'[p] # "down" => file # p
  BY DEF LockInv, LockTypeOK, Boot, Crash, OtherStarts, OtherExits, Remember, Reuse
<1>0. /\ \A q \in Pid \ {p} : st'[q] = st[q] /\ existing'[q] = existing[q]
      /\ st'[p] = "down" \/ st[p] = "down"
      /\ st[p] = "down" => st'[p] # "down"
  BY DEF LockInv, LockTypeOK, Boot, Crash, OtherStarts, OtherExits, WorkerPids
<1>2. ASSUME "reuse" \notin past', file \in Pid PROVE st'[file] \in {"down", "owner"}
  <2>1. st[file] \in {"down", "owner"}
    BY <1>1, <1>2 DEF CoverInv
  <2>2. CASE file = p
    BY <1>0, <1>1, <1>2, <2>2
  <2> QED
    BY <1>0, <1>2, <2>1, <2>2
<1>3. CASE Boot(p)
  <2>1. WorkerPids' = WorkerPids \cup {p} /\ p \notin WorkerPids
    BY <1>3 DEF LockInv, LockTypeOK, Boot, WorkerPids
  <2>2. Cardinality(WorkerPids') = Cardinality(WorkerPids) + 1
    BY <2>1, WorkersFinite, FS_AddElement
  <2>3. Cardinality(WorkerPids') <= Workers
    BY <1>3, <2>2, WorkersFinite DEF Boot
  <2>4. WillRun(p)'
    BY <1>3 DEF LockInv, LockTypeOK, Boot, WillRun
  <2> QED
    BY <1>1, <1>2, <2>3, <2>4 DEF CoverInv
<1>4. CASE Crash(p)
  <2>1. WorkerPids' = WorkerPids \ {p} /\ p \in WorkerPids
    BY <1>4 DEF LockInv, LockTypeOK, Crash, WorkerPids
  <2>2. Cardinality(WorkerPids') = Cardinality(WorkerPids) - 1
    BY <2>1, WorkersFinite, FS_RemoveElement
  <2>3. Cardinality(WorkerPids') < Workers
    BY <2>2, WorkersFinite DEF CoverInv
  <2> QED
    BY <1>1, <1>2, <2>2, <2>3, WorkersFinite DEF CoverInv
<1>5. CASE OtherStarts(p) \/ OtherExits(p)
  <2>1. WorkerPids' = WorkerPids
    BY <1>5 DEF LockInv, LockTypeOK, OtherStarts, OtherExits, WorkerPids
  <2>2. ASSUME "reuse" \notin past', NEW q \in Pid, WillRun(q) PROVE WillRun(q)'
    <3>1. q # p
      BY <1>5, <2>2 DEF OtherStarts, OtherExits, WillRun
    <3>2. file \in Pid /\ ~Alive(file) => ~Alive(file)'
      BY <1>0, <1>1, <2>2 DEF Alive
    <3> QED
      BY <1>0, <1>1, <2>2, <3>1, <3>2 DEF WillRun
  <2> QED
    BY <1>1, <1>2, <2>1, <2>2 DEF CoverInv
<1> QED
  BY <1>3, <1>4, <1>5

\* acquire_singleton_lock: a worker skips the task only for one that runs it.
LEMMA AcquireCoverInv ==
  ASSUME LockInv, CoverInv, NEW p \in Pid, Acquire(p)
  PROVE  CoverInv'
<1> USE LockAssumption DEF States, Acquiring, Returned, Running
<1>1. WorkerPids' = WorkerPids
  BY DEF LockInv, LockTypeOK, WorkerPids, Acquire, Open, WritePid, ReadPid, CheckPid, Truncate,
         Rewrite, RewriteFails
<1>2. past \subseteq past' /\ \A q \in Pid \ {p} : st'[q] = st[q] /\ existing'[q] = existing[q]
  BY DEF LockInv, LockTypeOK, Acquire, Open, WritePid, ReadPid, CheckPid, Truncate, Rewrite,
         RewriteFails, Remember
<1>3. "reuse" \notin past' /\ file' \in Pid => st'[file'] \in {"down", "owner"}
  BY <1>2 DEF LockInv, LockTypeOK, CoverInv, Acquire, Open, WritePid, ReadPid, CheckPid, Truncate,
         Rewrite, RewriteFails
<1>4. SUFFICES ASSUME past' \cap {"reuse", "failure"} = {},
                      NEW r \in Pid, WillRun(r)
               PROVE  \E q \in Pid : WillRun(q)'
  BY <1>1, <1>2, <1>3 DEF CoverInv
<1>5. CASE Open(p) \/ WritePid(p) \/ Truncate(p) \/ Rewrite(p)
  <2>1. WillRun(p)'
    BY <1>5 DEF LockInv, LockTypeOK, Open, WritePid, Truncate, Rewrite, WillRun
  <2> QED
    BY <2>1
<1>6. CASE ReadPid(p)
  <2>1. file' = file /\ file # NoFile /\ st'[p] = "checking" /\ existing'[p] = file
    BY <1>6 DEF LockInv, LockTypeOK, FileInv, ReadPid
  <2>2. CASE file \in Pid /\ Alive(file)
    <3>1. st[file] = "owner" /\ file # p
      BY <1>2, <1>4, <1>6, <2>2 DEF CoverInv, Alive, ReadPid
    <3>2. WillRun(file)'
      BY <1>2, <2>1, <2>2, <3>1 DEF WillRun
    <3> QED
      BY <2>1, <2>2, <3>2
  <2>3. CASE ~(file \in Pid /\ Alive(file))
    <3>1. file \in Pid => file # p /\ st'[file] = st[file]
      BY <1>2, <1>6, <2>3 DEF ReadPid, Alive
    <3>2. WillRun(p)'
      BY <2>1, <2>3, <3>1 DEF WillRun, Alive
    <3> QED
      BY <3>2
  <2> QED
    BY <2>2, <2>3
<1>7. CASE CheckPid(p)
  <2>1. CASE r = p
    <3>1. existing[p] \in Pid => ~Alive(existing[p])
      BY <1>4, <1>7, <2>1 DEF CheckPid, WillRun
    <3>2. st'[p] = "stale"
      BY <1>7, <3>1 DEF LockInv, LockTypeOK, CheckPid
    <3> QED
      BY <3>2 DEF WillRun
  <2>2. CASE r # p
    <3>1. file \in Pid /\ file = p => Alive(file)
      BY <1>7 DEF CheckPid, Alive
    <3>2. WillRun(r)'
      BY <1>2, <1>4, <1>7, <2>2, <3>1 DEF CheckPid, WillRun, Alive
    <3> QED
      BY <3>2
  <2> QED
    BY <2>1, <2>2
<1>8. CASE RewriteFails(p)
  BY <1>4, <1>8 DEF RewriteFails, Remember
<1> QED
  BY <1>5, <1>6, <1>7, <1>8 DEF Acquire

\* As long as no worker is missing, one of them will run the task.
THEOREM CoverInvariant == LockSpec => []CoverInv
<1>1. LockInv /\ CoverInv /\ [LockNext]_lockVars => CoverInv'
  <2> SUFFICES ASSUME LockInv, CoverInv, [LockNext]_lockVars PROVE CoverInv'
    OBVIOUS
  <2>1. CASE LockNext
    BY <2>1, HostCoverInv, AcquireCoverInv DEF LockNext
  <2>2. CASE UNCHANGED lockVars
    BY <2>2 DEF lockVars, CoverInv, WorkerPids, WillRun, Alive
  <2> QED
    BY <2>1, <2>2
<1> QED
  BY InitCoverInv, LockInvariant, <1>1, PTL DEF LockSpec

\* A crashed worker never blocks the task for good: with every worker there and
\* through with acquire_singleton_lock, one runs it, unless the id in the file was
\* reused or a write failed.
THEOREM TaskCovered == LockSpec => []TaskIsCovered
<1>1. CoverInv => TaskIsCovered
  <2> SUFFICES ASSUME CoverInv, Settled, past \cap {"reuse", "failure"} = {}
               PROVE  Runners # {}
    BY DEF TaskIsCovered
  <2>1. PICK p \in Pid : WillRun(p)
    BY LockAssumption DEF CoverInv, Settled
  <2>2. p \in WorkerPids
    BY <2>1 DEF WillRun, WorkerPids, Running
  <2> QED
    BY <2>1, <2>2 DEF WillRun, Settled, Returned, Running, Runners
<1> QED
  BY CoverInvariant, <1>1, PTL

-----------------------------------------------------------------------------
(* TelemetryPool                                                            *)

\* Only finitely many permits can be held.
LEMMA HoldingFinite == IsFiniteSet(Holding) /\ Cardinality(Holding) \in Nat
BY PoolAssumption, FS_Subset, FS_CardinalityType DEF Holding, In

\* An upload that takes a permit adds one to those held.
LEMMA TakesPermit ==
  ASSUME NEW u \in Upload, u \notin Holding, Holding' = Holding \cup {u}
  PROVE  Cardinality(Holding') = Cardinality(Holding) + 1
BY HoldingFinite, FS_AddElement

\* An upload that gives its permit back, or loses it, takes one from those held.
LEMMA LeavesPermit ==
  ASSUME NEW u \in Upload, u \in Holding, Holding' = Holding \ {u}
  PROVE  /\ Cardinality(Holding') = Cardinality(Holding) - 1
         /\ Cardinality(Holding) > 0
<1>1. Cardinality(Holding \ {u}) = Cardinality(Holding) - 1
  BY HoldingFinite, FS_RemoveElement
<1>2. IsFiniteSet(Holding \ {u}) /\ Cardinality(Holding \ {u}) \in Nat
  BY HoldingFinite, FS_RemoveElement, FS_CardinalityType
<1> QED
  BY <1>1, <1>2, HoldingFinite

\* The server starts with all permits free.
LEMMA InitPoolInv == Init => PoolInv
<1> SUFFICES ASSUME Init PROVE PoolInv
  OBVIOUS
<1>1. Holding = {}
  BY DEF Init, Holding, In, HoldingPhases, InWorker, Executing
<1> QED
  BY <1>1, PoolAssumption, FS_EmptySet
     DEF Init, PoolInv, TypeOK, PermitsConserved, QueueOK, MetricInv, Phases, Finished

\* The phase an upload goes to, and what a failed attempt leaves, are of their types.
LEMMA GotoType ==
  ASSUME TypeOK, NEW u \in Upload, NEW p \in Phases, Goto(u, p)
  PROVE  phase' \in [Upload -> Phases]
BY DEF TypeOK, Goto

LEMMA RetryType ==
  ASSUME TypeOK, NEW u \in Upload, NEW p \in Phases, NEW q \in Phases, Retry(u, p, q)
  PROVE  /\ phase' \in [Upload -> Phases]
         /\ attempt' \in [Upload -> 0..(MaxAttempts - 1)]
<1>1. phase' \in [Upload -> Phases]
  BY GotoType DEF Retry
<1>2. \/ attempt' = [attempt EXCEPT ![u] = attempt[u] + 1] /\ attempt[u] < MaxAttempts - 1
      \/ attempt' = [attempt EXCEPT ![u] = 0]
  BY DEF Retry
<1>3. CASE attempt' = [attempt EXCEPT ![u] = attempt[u] + 1] /\ attempt[u] < MaxAttempts - 1
  BY <1>1, <1>3, PoolAssumption DEF TypeOK
<1>4. CASE attempt' = [attempt EXCEPT ![u] = 0]
  BY <1>1, <1>4, PoolAssumption DEF TypeOK
<1> QED
  BY <1>2, <1>3, <1>4

LEMMA RequestTypes == ASSUME TypeOK, NEW u \in Upload, Arrive(u) \/ Save(u) \/ SaveFails(u) PROVE TypeOK'
<1> USE DEF Phases, Finished, results
<1>1. CASE Arrive(u)
  BY <1>1, GotoType, PoolAssumption DEF TypeOK, Arrive
<1>2. CASE Save(u)
  BY <1>2, GotoType, PoolAssumption DEF TypeOK, Save
<1>3. CASE SaveFails(u)
  BY <1>3, RetryType DEF TypeOK, SaveFails
<1> QED
  BY <1>1, <1>2, <1>3

LEMMA ExecuteTypes ==
  ASSUME TypeOK, NEW u \in Upload, Process(u) \/ Store(u) \/ RecordMetric(u) \/ ExecuteFails(u)
  PROVE  TypeOK'
<1> USE DEF Phases, HoldingPhases, InWorker, Executing, results
<1>1. CASE Process(u)
  BY <1>1, GotoType DEF TypeOK, Process
<1>2. CASE Store(u)
  BY <1>2, GotoType DEF TypeOK, Store
<1>3. CASE RecordMetric(u)
  BY <1>3, GotoType DEF TypeOK, RecordMetric
<1>4. CASE ExecuteFails(u)
  BY <1>4, RetryType DEF TypeOK, ExecuteFails
<1> QED
  BY <1>1, <1>2, <1>3, <1>4

\* Whatever happens to an upload that is not queued leaves the queue in order.
LEMMA QueueUntouched ==
  ASSUME PoolInv, NEW u \in Upload, phase[u] # "queued", queue' = queue,
         \A v \in Upload \ {u} : phase'[v] = phase[v]
  PROVE  QueueOK'
<1>1. \A i \in 1..Len(queue) : queue[i] \in Upload /\ queue[i] # u
  BY SMTT(30) DEF PoolInv, TypeOK, QueueOK
<1> QED
  BY <1>1 DEF PoolInv, QueueOK

\* The arrival of an upload and its handling by the request thread.
LEMMA RequestPoolInv ==
  ASSUME PoolInv, NEW u \in Upload, Arrive(u) \/ Handle(u)
  PROVE  PoolInv'
<1> USE PoolAssumption DEF Goto, Phases, Finished, HoldingPhases, InWorker, Executing
<1>1. CASE Arrive(u) \/ Save(u) \/ SaveFails(u)
  <2> USE <1>1 DEF Arrive, Save, SaveFails, Retry, results
  <2>1. TypeOK'
    BY RequestTypes DEF PoolInv
  <2>2. MetricInv'
    BY DEF PoolInv, TypeOK, MetricInv
  <2>3. QueueOK'
    BY QueueUntouched DEF PoolInv, TypeOK
  <2>4. Holding' = Holding
    BY DEF PoolInv, TypeOK, Holding, In
  <2> QED
    BY <2>1, <2>2, <2>3, <2>4 DEF PoolInv, PermitsConserved
<1>2. CASE Admit(u)
  <2> USE <1>2 DEF Admit, results
  <2>1. TypeOK' /\ MetricInv' /\ QueueOK'
    <3>1. TypeOK'
      <4>1. phase' \in [Upload -> Phases]
        BY GotoType DEF PoolInv
      <4>2. permits' \in 0..Inflight
        BY DEF PoolInv, TypeOK
      <4> QED
        BY <4>1, <4>2 DEF PoolInv, TypeOK
    <3>2. MetricInv'
      BY DEF PoolInv, TypeOK, MetricInv
    <3>3. QueueOK'
      BY QueueUntouched DEF PoolInv, TypeOK
    <3> QED
      BY <3>1, <3>2, <3>3
  <2>2. CASE permits > 0
    <3>1. u \notin Holding /\ Holding' = Holding \cup {u} /\ permits' = permits - 1
      BY <2>2 DEF PoolInv, TypeOK, Holding, In
    <3>2. Cardinality(Holding') = Cardinality(Holding) + 1
      BY <3>1, TakesPermit
    <3>3. PermitsConserved'
      BY <3>1, <3>2, HoldingFinite DEF PoolInv, TypeOK, PermitsConserved
    <3> QED
      BY <2>1, <3>3 DEF PoolInv
  <2>3. CASE permits = 0
    <3>1. Holding' = Holding /\ permits' = permits
      BY <2>3 DEF PoolInv, TypeOK, Holding, In
    <3> QED
      BY <2>1, <3>1 DEF PoolInv, PermitsConserved
  <2> QED
    BY <2>2, <2>3
<1>3. CASE Submit(u)
  <2> USE <1>3 DEF Submit, results
  <2>1. \A i \in 1..Len(queue) : queue[i] # u
    BY DEF PoolInv, TypeOK, QueueOK
  <2>2. /\ queue' \in Seq(Upload)
        /\ Len(queue') = Len(queue) + 1
        /\ queue'[Len(queue')] = u
        /\ \A i \in 1..Len(queue) : queue'[i] = queue[i]
    BY DEF PoolInv, TypeOK
  <2>3. TypeOK' /\ MetricInv'
    BY <2>2 DEF PoolInv, TypeOK, MetricInv
  <2>4. QueueOK'
    <3>1. Len(queue) \in Nat /\ \A i \in 1..Len(queue') : i \in 1..Len(queue) \/ i = Len(queue')
      BY <2>2 DEF PoolInv, TypeOK
    <3>2. phase'[u] = "queued" /\ \A v \in Upload \ {u} : phase'[v] = phase[v]
      BY DEF PoolInv, TypeOK
    <3>3. \A i \in 1..Len(queue) : queue[i] \in Upload
      BY DEF PoolInv, TypeOK
    <3>4. \A i \in 1..Len(queue') : phase'[queue'[i]] = "queued"
      BY <2>1, <2>2, <3>1, <3>2, <3>3 DEF PoolInv, QueueOK
    <3>5. \A i, j \in 1..Len(queue') : i # j => queue'[i] # queue'[j]
      BY <2>1, <2>2, <3>1 DEF PoolInv, QueueOK
    <3> QED
      BY <3>4, <3>5 DEF QueueOK
  <2>5. Holding' = Holding
    BY DEF PoolInv, TypeOK, Holding, In
  <2> QED
    BY <2>3, <2>4, <2>5 DEF PoolInv, PermitsConserved
<1> QED
  BY <1>1, <1>2, <1>3 DEF Handle

\* A thread of the pool takes the first upload of the queue.
LEMMA PickUpPoolInv == ASSUME PoolInv, PickUp PROVE PoolInv'
<1> USE PoolAssumption DEF PickUp, Goto, Phases, Finished, HoldingPhases, InWorker, Executing, results
<1>1. /\ Head(queue) \in Upload /\ Head(queue) = queue[1]
      /\ queue' \in Seq(Upload)
      /\ Len(queue') = Len(queue) - 1
      /\ \A i \in 1..Len(queue') : queue'[i] = queue[i + 1] /\ i + 1 \in 2..Len(queue)
  BY DEF PoolInv, TypeOK
<1>2. phase[Head(queue)] = "queued"
  BY <1>1 DEF PoolInv, TypeOK, QueueOK
<1>3. TypeOK' /\ MetricInv'
  BY <1>1, <1>2 DEF PoolInv, TypeOK, MetricInv
<1>4. QueueOK'
  <2>1. \A i \in 1..Len(queue') : queue'[i] # Head(queue) /\ phase'[queue'[i]] = "queued"
    BY <1>1, SMTT(30) DEF PoolInv, TypeOK, QueueOK
  <2>2. \A i, j \in 1..Len(queue') : i # j => queue'[i] # queue'[j]
    BY <1>1 DEF PoolInv, TypeOK, QueueOK
  <2> QED
    BY <2>1, <2>2 DEF QueueOK
<1>5. Holding' = Holding
  BY <1>1, <1>2 DEF PoolInv, TypeOK, Holding, In
<1> QED
  BY <1>3, <1>4, <1>5 DEF PoolInv, PermitsConserved

\* The worker.
LEMMA WorkPoolInv ==
  ASSUME PoolInv, NEW u \in Upload, Work(u)
  PROVE  PoolInv'
<1> USE PoolAssumption DEF Goto, Phases, Finished, HoldingPhases, InWorker, Executing, results
<1>1. QueueOK'
  BY QueueUntouched
     DEF Work, Begin, Process, Store, RecordMetric, ExecuteFails, Release, Retry, PoolInv, TypeOK
<1>2. ASSUME phase[u] \in HoldingPhases, phase'[u] \in HoldingPhases,
             phase' = [phase EXCEPT ![u] = phase'[u]]
      PROVE  Holding' = Holding
  BY <1>2 DEF PoolInv, TypeOK, Holding, In
<1>3. ASSUME phase[u] \in HoldingPhases, phase'[u] \in Finished,
             phase' = [phase EXCEPT ![u] = phase'[u]]
      PROVE  u \in Holding /\ Holding' = Holding \ {u}
  BY <1>3 DEF PoolInv, TypeOK, Holding, In
<1>4. CASE Process(u) \/ Store(u) \/ RecordMetric(u) \/ ExecuteFails(u)
  <2> USE <1>4 DEF Process, Store, RecordMetric, ExecuteFails, Retry
  <2>1. TypeOK'
    BY ExecuteTypes DEF PoolInv
  <2>2. MetricInv'
    BY DEF PoolInv, TypeOK, MetricInv
  <2>3. Holding' = Holding
    BY <1>2 DEF PoolInv, TypeOK
  <2> QED
    BY <1>1, <2>1, <2>2, <2>3 DEF PoolInv, PermitsConserved
<1>5. CASE Begin(u) /\ phase'[u] = "execute"
  <2> USE <1>5 DEF Begin
  <2>1. TypeOK' /\ MetricInv' /\ leaked' = leaked
    BY DEF PoolInv, TypeOK, MetricInv
  <2>2. Holding' = Holding
    BY <1>2 DEF PoolInv, TypeOK
  <2> QED
    BY <1>1, <2>1, <2>2 DEF PoolInv, PermitsConserved
<1>6. CASE Begin(u) /\ phase'[u] = "lost"
  <2> USE <1>6 DEF Begin
  <2>1. TypeOK' /\ leaked' = leaked + 1
    <3>1. leaked' = leaked + 1 /\ UNCHANGED <<permits, queue, attempt, stored, metrics>>
      BY DEF PoolInv, TypeOK
    <3>2. phase' \in [Upload -> Phases]
      BY GotoType DEF PoolInv
    <3> QED
      BY <3>1, <3>2 DEF PoolInv, TypeOK
  <2>3. MetricInv'
    BY DEF PoolInv, TypeOK, MetricInv
  <2>2. u \in Holding /\ Holding' = Holding \ {u}
    BY <1>3 DEF PoolInv, TypeOK
  <2>4. Cardinality(Holding') = Cardinality(Holding) - 1
    BY <2>2, LeavesPermit
  <2>5. PermitsConserved'
    <3>1. permits' = permits
      BY DEF PoolInv
    <3>2. leaked' = leaked + 1 /\ permits \in Int /\ leaked \in Int
      BY <2>1 DEF PoolInv, TypeOK
    <3> HIDE <1>6 DEF Begin
    <3> QED
      BY <2>4, <3>1, <3>2, HoldingFinite DEF PoolInv, PermitsConserved
  <2> QED
    BY <1>1, <2>1, <2>3, <2>5 DEF PoolInv
<1>7. CASE Release(u)
  <2> USE <1>7 DEF Release
  <2>1. u \in Holding /\ Holding' = Holding \ {u}
    BY <1>3 DEF PoolInv, TypeOK
  <2>2. Cardinality(Holding') = Cardinality(Holding) - 1 /\ Cardinality(Holding) > 0
    BY <2>1, LeavesPermit
  <2>3. TypeOK' /\ MetricInv'
    BY <2>2, HoldingFinite, SMTT(30) DEF PoolInv, TypeOK, MetricInv, PermitsConserved
  <2>4. PermitsConserved'
    BY <2>2, HoldingFinite DEF PoolInv, TypeOK, PermitsConserved
  <2> QED
    BY <1>1, <2>3, <2>4 DEF PoolInv
<1> QED
  BY <1>4, <1>5, <1>6, <1>7 DEF Work, Begin, PoolInv, TypeOK

\* What request threads and pool threads maintain together.
THEOREM PoolInvariant == Spec => []PoolInv
<1>1. PoolInv /\ [Next]_vars => PoolInv'
  <2> SUFFICES ASSUME PoolInv, [Next]_vars PROVE PoolInv'
    OBVIOUS
  <2>1. CASE Next
    BY <2>1, RequestPoolInv, PickUpPoolInv, WorkPoolInv DEF Next
  <2>2. CASE UNCHANGED vars
    BY <2>2 DEF vars, PoolInv, TypeOK, PermitsConserved, QueueOK, MetricInv, Holding, In
  <2> QED
    BY <2>1, <2>2
<1> QED
  BY InitPoolInv, <1>1, PTL DEF Spec

-----------------------------------------------------------------------------
\* The variables of the pool keep their types.
THEOREM PoolTypeCorrect == Spec => []TypeOK
BY PoolInvariant, PTL DEF PoolInv

\* Every permit is free, held or was lost by a worker that raised before its try:
\* no request and no retry takes or gives one too many.
THEOREM PermitsAreConserved == Spec => []PermitsConserved
BY PoolInvariant, PTL DEF PoolInv

\* Each step of the ingestion is a step of its semaphore or leaves it alone.
LEMMA WorkUsesSemaphore ==
  ASSUME TypeOK, NEW u \in Upload, Handle(u) \/ Work(u) \/ Arrive(u)
  PROVE  [Inflights!Next]_(Inflights!vars)
<1> USE DEF TypeOK, Goto, Phases, Finished, HoldingPhases, InWorker, Executing, results,
            Inflights!Next, Inflights!vars
<1>1. CASE Admit(u) /\ permits > 0
  <2>1. u \notin Holding /\ Holding' = Holding \cup {u}
    BY <1>1 DEF Admit, Holding, In
  <2>2. Inflights!Acquire(u)
    BY <1>1, <2>1 DEF Admit, Inflights!Acquire
  <2> QED
    BY <2>2
<1>2. CASE Release(u)
  <2>1. u \in Holding /\ Holding' = Holding \ {u}
    BY <1>2 DEF Release, Holding, In
  <2>2. Inflights!Release(u)
    BY <1>2, <2>1 DEF Release, Inflights!Release
  <2> QED
    BY <2>2
<1>3. CASE Begin(u) /\ phase'[u] = "lost"
  <2>1. u \in Holding /\ Holding' = Holding \ {u}
    BY <1>3 DEF Begin, Holding, In
  <2>2. Inflights!Lose(u)
    BY <1>3, <2>1 DEF Begin, Inflights!Lose
  <2> QED
    BY <2>2
<1>4. CASE \/ Arrive(u) \/ Save(u) \/ SaveFails(u) \/ Submit(u) \/ (Admit(u) /\ permits = 0)
           \/ (Begin(u) /\ phase'[u] # "lost")
           \/ Process(u) \/ Store(u) \/ RecordMetric(u) \/ ExecuteFails(u)
  <2> USE DEF Arrive, Save, SaveFails, Submit, Admit, Begin, Process, Store, RecordMetric,
              ExecuteFails, Retry
  <2>1. phase[u] \in HoldingPhases <=> phase'[u] \in HoldingPhases
    BY <1>4
  <2>2. /\ phase' = [phase EXCEPT ![u] = phase'[u]]
        /\ permits' = permits /\ leaked' = leaked
    BY <1>4
  <2>3. Holding' = Holding
    BY <2>1, <2>2 DEF Holding, In
  <2> QED
    BY <2>2, <2>3
<1> QED
  BY <1>1, <1>2, <1>3, <1>4 DEF Handle, Work, Admit

\* The ingestion implements the semaphore for any number of uploads and permits: no
\* retry, failure or return of a worker takes, keeps or gives back one out of turn.
THEOREM UploadsUseSemaphore == Spec => UploadsImplementSemaphore
<1>1. Init => Inflights!Init
  BY DEF Init, Inflights!Init, Holding, In, HoldingPhases, InWorker, Executing
<1>2. PoolInv /\ [Next]_vars => [Inflights!Next]_(Inflights!vars)
  <2> SUFFICES ASSUME PoolInv, [Next]_vars PROVE [Inflights!Next]_(Inflights!vars)
    OBVIOUS
  <2>1. CASE PickUp
    <3>1. Head(queue) \in Upload /\ phase[Head(queue)] = "queued"
      BY <2>1 DEF PickUp, PoolInv, TypeOK, QueueOK
    <3>2. Holding' = Holding /\ permits' = permits /\ leaked' = leaked
      BY <2>1, <3>1 DEF PickUp, Goto, PoolInv, TypeOK, Holding, In, HoldingPhases, InWorker,
                        Executing, results
    <3> QED
      BY <3>2 DEF Inflights!vars
  <2>2. CASE \E u \in Upload : Arrive(u) \/ Handle(u) \/ Work(u)
    BY <2>2, WorkUsesSemaphore DEF PoolInv
  <2>3. CASE UNCHANGED vars
    BY <2>3 DEF vars, Holding, In, Inflights!vars
  <2> QED
    BY <2>1, <2>2, <2>3 DEF Next
<1> QED
  BY <1>1, <1>2, PoolInvariant, PTL DEF Spec, UploadsImplementSemaphore, Inflights!Spec

\* A full semaphore means that no upload is queued or with a worker.
THEOREM FullMeansIdle == Spec => []DrainMeansIdle
<1>1. PoolInv => DrainMeansIdle
  <2> SUFFICES ASSUME PoolInv, permits = Inflight PROVE Holding = {} /\ queue = <<>>
    BY DEF DrainMeansIdle
  <2>1. Holding = {}
    BY HoldingFinite, FS_EmptySet, PoolAssumption DEF PoolInv, TypeOK, PermitsConserved
  <2>2. Len(queue) = 0
    BY <2>1, SMTT(30) DEF PoolInv, TypeOK, QueueOK, Holding, In, HoldingPhases
  <2> QED
    BY <2>1, <2>2 DEF PoolInv, TypeOK
<1> QED
  BY PoolInvariant, <1>1, PTL

\* An upload leaves at most one metric record, however often its worker retries.
THEOREM AtMostOneMetric == Spec => []MetricOnce
<1>1. MetricInv => MetricOnce
  <2> SUFFICES ASSUME MetricInv, NEW u \in Upload
               PROVE  metrics[u] <= 1 /\ (metrics[u] = 1 => stored[u] > 0)
    BY DEF MetricOnce
  <2> QED
    BY DEF MetricInv
<1> QED
  BY PoolInvariant, <1>1, PTL DEF PoolInv
=============================================================================
