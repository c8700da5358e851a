---------------------------- MODULE SingletonLock ----------------------------
(***************************************************************************)
(* netinsight/dashboard/process_lock.py: the lock file with which the      *)
(* server's worker processes agree on the one that runs a background task  *)
(* (the speed monitor, the database pruner).                               *)
(*                                                                         *)
(* A worker calls acquire_singleton_lock once, while it boots.  The file   *)
(* is never removed: it outlives its owner, and the next worker to boot    *)
(* judges by the process id in it.  Process ids are reused, by workers and *)
(* by unrelated processes.  Every system call of the function is a step.   *)
(* Ids are taken to be of equal length, so that a write replaces an id     *)
(* and never mixes two.                                                    *)
(***************************************************************************)
EXTENDS Naturals, FiniteSets

CONSTANTS Pid,       (* the process ids of the host                            *)
          Workers,   (* the number of worker processes the master keeps        *)
          NoFile,    (* the lock file does not exist                           *)
          Empty,     (* it holds nothing that int() accepts                    *)
          IOFails    (* whether creating .locks or rewriting the file may fail *)

ASSUME LockAssumption ==
       /\ IsFiniteSet(Pid)
       /\ Workers \in Nat \ {0}
       /\ NoFile \notin Pid /\ Empty \notin Pid /\ NoFile # Empty
       /\ IOFails \in BOOLEAN

VARIABLES file,      (* the content of <name>.lock                              *)
          st,        (* what the process with each id is, or where it is        *)
          existing,  (* existing_pid, Empty standing for None                   *)
          past       (* history, read by no action: what has happened so far    *)

lockVars == <<file, st, existing, past>>

\* Inside acquire_singleton_lock.
Acquiring == {"open", "created", "exists", "checking", "stale", "truncated"}

\* Where acquire_singleton_lock has returned True, or False.
Running == {"owner", "unguarded"}
Returned == Running \cup {"skipped"}

States == {"down", "other"} \cup Acquiring \cup Returned

Alive(p) == st[p] # "down"
WorkerPids == {p \in Pid : st[p] \notin {"down", "other"}}
Runners == {p \in Pid : st[p] \in Running}

Events == {"overlap", "unguarded", "reuse", "failure"}

\* Two workers are inside acquire_singleton_lock.
Overlap(s) == \E p, q \in Pid : p # q /\ s[p] \in Acquiring /\ s[q] \in Acquiring

Remember(S) == past' = past \cup S \cup (IF Overlap(st') THEN {"overlap"} ELSE {})

LockInit == /\ file = NoFile
            /\ st = [p \in Pid |-> "down"]
            /\ existing = [p \in Pid |-> Empty]
            /\ past = {}

-----------------------------------------------------------------------------
(* The processes of the host.                                               *)

Reuse(p) == IF file = p THEN {"reuse"} ELSE {}

\* The master forks a worker, whose id may be the one in the file.  It makes the
\* directory first: when that fails it runs the task unguarded.
Boot(p) == /\ st[p] = "down"
           /\ Cardinality(WorkerPids) < Workers
           /\ \/ st' = [st EXCEPT ![p] = "open"] /\ Remember(Reuse(p))
              \/ /\ IOFails
                 /\ st' = [st EXCEPT ![p] = "unguarded"]
                 /\ Remember(Reuse(p) \cup {"unguarded"})
           /\ UNCHANGED <<file, existing>>

Crash(p) == /\ p \in WorkerPids
            /\ st' = [st EXCEPT ![p] = "down"]
            /\ existing' = [existing EXCEPT ![p] = Empty]
            /\ UNCHANGED file
            /\ Remember({})

OtherStarts(p) == /\ st[p] = "down"
                  /\ st' = [st EXCEPT ![p] = "other"]
                  /\ UNCHANGED <<file, existing>>
                  /\ Remember(Reuse(p))

OtherExits(p) == /\ st[p] = "other"
                 /\ st' = [st EXCEPT ![p] = "down"]
                 /\ UNCHANGED <<file, existing>>
                 /\ Remember({})

-----------------------------------------------------------------------------
(* acquire_singleton_lock                                                   *)

OpenNotExclusive(p) == /\ st[p] = "open"
                       /\ file' = Empty
                       /\ st' = [st EXCEPT ![p] = "created"]
                       /\ UNCHANGED existing
                       /\ Remember({})

\* os.open(O_CREAT | O_EXCL)
Open(p) == /\ st[p] = "open"
           /\ \/ /\ file = NoFile
                 /\ file' = Empty
                 /\ st' = [st EXCEPT ![p] = "created"]
              \/ /\ file # NoFile
                 /\ st' = [st EXCEPT ![p] = "exists"]
                 /\ UNCHANGED file
           /\ UNCHANGED existing
           /\ Remember({})

\* os.write of the id into the file just created
WritePid(p) == /\ st[p] = "created"
               /\ file' = p
               /\ st' = [st EXCEPT ![p] = "owner"]
               /\ UNCHANGED existing
               /\ Remember({})

ReadPidWaits(p) == /\ st[p] = "exists"
                   /\ file # Empty
                   /\ existing' = [existing EXCEPT ![p] = file]
                   /\ st' = [st EXCEPT ![p] = "checking"]
                   /\ UNCHANGED file
                   /\ Remember({})

\* read_text: a file that is still empty counts as one without an owner
ReadPid(p) == /\ st[p] = "exists"
              /\ existing' = [existing EXCEPT ![p] = file]
              /\ st' = [st EXCEPT ![p] = "checking"]
              /\ UNCHANGED file
              /\ Remember({})

CheckPidAnyPid(p) == /\ st[p] = "checking"
                     /\ st' = [st EXCEPT ![p] = IF existing[p] # Empty THEN "skipped" ELSE "stale"]
                     /\ existing' = [existing EXCEPT ![p] = Empty]
                     /\ UNCHANGED file
                     /\ Remember({})

\* _pid_is_running
CheckPid(p) == /\ st[p] = "checking"
               /\ st' = [st EXCEPT ![p] =
                           IF existing[p] # Empty /\ Alive(existing[p]) THEN "skipped" ELSE "stale"]
               /\ existing' = [existing EXCEPT ![p] = Empty]
               /\ UNCHANGED file
               /\ Remember({})

\* write_text opens the file for writing, which empties it ...
Truncate(p) == /\ st[p] = "stale"
               /\ file' = Empty
               /\ st' = [st EXCEPT ![p] = "truncated"]
               /\ UNCHANGED existing
               /\ Remember({})

\* ... and writes the id
Rewrite(p) == /\ st[p] = "truncated"
              /\ file' = p
              /\ st' = [st EXCEPT ![p] = "owner"]
              /\ UNCHANGED existing
              /\ Remember({})

\* Either fails: the worker does without the task.
RewriteFails(p) == /\ IOFails
                   /\ st[p] \in {"stale", "truncated"}
                   /\ st' = [st EXCEPT ![p] = "skipped"]
                   /\ UNCHANGED <<file, existing>>
                   /\ Remember({"failure"})

Acquire(p) == \/ Open(p) \/ WritePid(p) \/ ReadPid(p) \/ CheckPid(p)
              \/ Truncate(p) \/ Rewrite(p) \/ RewriteFails(p)

LockNext == \E p \in Pid : Boot(p) \/ Crash(p) \/ OtherStarts(p) \/ OtherExits(p) \/ Acquire(p)

LockSpec == LockInit /\ [][LockNext]_lockVars

\* A worker that boots gets on with it.
FairLockSpec == LockSpec /\ \A p \in Pid : WF_lockVars(Acquire(p))

-----------------------------------------------------------------------------
\* The types of the variables.
LockTypeOK == /\ file \in Pid \cup {NoFile, Empty}
              /\ st \in [Pid -> States]
              /\ existing \in [Pid -> Pid \cup {Empty}]
              /\ past \subseteq Events
              /\ \A p \in Pid : existing[p] # Empty => st[p] = "checking"

\* As long as no two workers have ever been inside acquire_singleton_lock at the
\* same time, and .locks could be made, the file names whatever process runs the task,
\* through any number of crashes, reused ids and failing writes: a worker that boots
\* later finds it, and a dead one is known by its id.
Unraced == past \cap {"overlap", "unguarded"} = {}
RunnerIsNamed == Unraced => \A p \in Runners : file = p

\* Hence it is one process at most.
OneRunner == Unraced => \A p, q \in Runners : p = q

\* "A crashed worker doesn't permanently block the task": once the master has
\* replaced it and every worker is through with acquire_singleton_lock, one of
\* them runs the task, races included, unless the id in the file was reused or a
\* write failed.
Settled == /\ Cardinality(WorkerPids) = Workers
           /\ \A p \in WorkerPids : st[p] \in Returned
TaskIsCovered ==
  Settled /\ past \cap {"reuse", "failure"} = {} => Runners # {}

\* Every worker gets through acquire_singleton_lock: it never waits for another.
BootEnds == \A p \in Pid : st[p] = "open" ~> st[p] \notin Acquiring

-----------------------------------------------------------------------------
(* What the documentation says of the program.                              *)

\* process_lock.py, module docstring: it "lets only one process win a named lock
\* and run the task; the others skip it".
OnlyOneWins == \A p, q \in Runners : p = q

-----------------------------------------------------------------------------
(* The inductive invariant behind OneRunner and RunnerIsNamed.              *)

\* At most one worker is inside acquire_singleton_lock, what it has read is still
\* what the file holds, and once it has found the file free no process runs the task.
AcquirerInv ==
  \A p \in Pid :
    /\ st[p] \in Acquiring => \A q \in Pid \ {p} : st[q] \notin Acquiring
    /\ st[p] = "checking" => existing[p] = file
    /\ st[p] \in {"created", "stale", "truncated"} => Runners = {}

\* Nothing removes the file.
FileInv ==
  \A p \in Pid : st[p] \in {"exists", "checking", "stale", "truncated"} => file # NoFile

LockInv == /\ LockTypeOK
           /\ FileInv
           /\ Unraced => AcquirerInv /\ (\A p \in Pid : st[p] # "unguarded")
           /\ RunnerIsNamed

-----------------------------------------------------------------------------
(* The inductive invariant behind TaskIsCovered.                            *)

\* A worker that runs the task or is on its way to: it has not read the file yet, or
\* read in it nothing that makes it skip the task.
WillRun(p) ==
  \/ st[p] \in Running \cup {"open", "created", "exists", "stale", "truncated"}
  \/ /\ st[p] = "checking" /\ existing[p] = file
     /\ file \in Pid => ~Alive(file)

\* Until its id is reused, a process that is named in the file runs the task or is
\* gone; and as long as no worker is missing one of them will run the task.
CoverInv ==
  /\ Cardinality(WorkerPids) <= Workers
  /\ "reuse" \notin past /\ file \in Pid => st[file] \in {"down", "owner"}
  /\ past \cap {"reuse", "failure"} = {} =>
       Cardinality(WorkerPids) < Workers \/ \E p \in Pid : WillRun(p)
=============================================================================
