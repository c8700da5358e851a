---------------------------- MODULE TelemetryPool ----------------------------
(***************************************************************************)
(* netinsight/analytics/telemetry_handler.py: how the server ingests       *)
(* uploads.                                                                *)
(*                                                                         *)
(* A request thread saves the agent's row and, if it gets a permit of      *)
(* _telemetry_inflight_semaphore without waiting, hands the upload to a    *)
(* pool of worker threads; without a permit the packets are dropped and    *)
(* the agent is answered all the same.  A worker runs                      *)
(* _execute_async_telemetry_worker from its beginning again each time the  *)
(* database is locked, and gives the permit back at the end.               *)
(***************************************************************************)
EXTENDS Integers, Sequences, FiniteSets

CONSTANTS Upload,        (* the uploads that can be under way                  *)
          Inflight,      (* _MAX_INFLIGHT_TELEMETRY_TASKS                      *)
          PoolSize,      (* max_workers of _telemetry_pool                     *)
          MaxAttempts,   (* the attempts of save and of the worker             *)
          CloseFails     (* whether the worker's first close_old_connections,
                            which no try protects, may raise                   *)

ASSUME PoolAssumption ==
       /\ IsFiniteSet(Upload)
       /\ Inflight \in Nat
       /\ PoolSize \in Nat \ {0}
       /\ MaxAttempts \in Nat \ {0}
       /\ CloseFails \in BOOLEAN

VARIABLES permits,   (* the semaphore's value                                  *)
          queue,     (* the pool's work queue                                  *)
          phase,     (* where the handling of each upload is                   *)
          attempt,   (* the attempts made at what the upload is at             *)
          stored,    (* how often the worker has inserted the packets          *)
          metrics,   (* how many metric records it has written                 *)
          leaked     (* history, read by no action: permits never given back   *)

vars == <<permits, queue, phase, attempt, stored, metrics, leaked>>
results == <<stored, metrics>>

\* In the worker, between the start of its try and the release.
Executing == {"execute", "store", "metric"}
InWorker == {"started", "releasing"} \cup Executing

\* A permit is held from its acquisition to its release.
HoldingPhases == {"admitted", "queued"} \cup InWorker
Finished == {"none", "failed", "dropped", "lost", "done"}
Phases == Finished \cup HoldingPhases \cup {"saving", "saved"}

In(P) == {u \in Upload : phase[u] \in P}
Holding == In(HoldingPhases)

Init == /\ permits = Inflight
        /\ queue = <<>>
        /\ phase = [u \in Upload |-> "none"]
        /\ attempt = [u \in Upload |-> 0]
        /\ stored = [u \in Upload |-> 0]
        /\ metrics = [u \in Upload |-> 0]
        /\ leaked = 0

Goto(u, p) == phase' = [phase EXCEPT ![u] = p]

\* A later upload takes the name of a finished one.
Arrive(u) == /\ phase[u] \in Finished
             /\ Goto(u, "saving")
             /\ attempt' = [attempt EXCEPT ![u] = 0]
             /\ stored' = [stored EXCEPT ![u] = 0]
             /\ metrics' = [metrics EXCEPT ![u] = 0]
             /\ UNCHANGED <<permits, queue, leaked>>

-----------------------------------------------------------------------------
(* handle_telemetry_ingestion, in a request thread.                         *)

\* An attempt fails: "locked" leads to another attempt while there is one left,
\* any other error ends the attempts.
Retry(u, again, over) ==
  \/ /\ attempt[u] < MaxAttempts - 1
     /\ attempt' = [attempt EXCEPT ![u] = @ + 1]
     /\ Goto(u, again)
  \/ /\ attempt' = [attempt EXCEPT ![u] = 0]
     /\ Goto(u, over)

Save(u) == /\ phase[u] = "saving"
           /\ Goto(u, "saved")
           /\ attempt' = [attempt EXCEPT ![u] = 0]
           /\ UNCHANGED <<permits, queue, results, leaked>>

SaveFails(u) == /\ phase[u] = "saving"
                /\ Retry(u, "saving", "failed")
                /\ UNCHANGED <<permits, queue, results, leaked>>

AdmitUnchecked(u) == /\ phase[u] = "saved"
                     /\ permits' = IF permits > 0 THEN permits - 1 ELSE permits
                     /\ Goto(u, "admitted")
                     /\ UNCHANGED <<queue, attempt, results, leaked>>

\* acquire(blocking=False)
Admit(u) == /\ phase[u] = "saved"
            /\ \/ /\ permits > 0
                  /\ permits' = permits - 1
                  /\ Goto(u, "admitted")
               \/ /\ permits = 0
                  /\ Goto(u, "dropped")
                  /\ UNCHANGED permits
            /\ UNCHANGED <<queue, attempt, results, leaked>>

Submit(u) == /\ phase[u] = "admitted"
             /\ queue' = Append(queue, u)
             /\ Goto(u, "queued")
             /\ UNCHANGED <<permits, attempt, results, leaked>>

-----------------------------------------------------------------------------
(* _async_telemetry_worker, in a thread of the pool.                        *)

PickUp == /\ queue # <<>>
          /\ Cardinality(In(InWorker)) < PoolSize
          /\ queue' = Tail(queue)
          /\ Goto(Head(queue), "started")
          /\ UNCHANGED <<permits, attempt, results, leaked>>

\* close_old_connections, before the try whose finally releases the permit.
Begin(u) == /\ phase[u] = "started"
            /\ \/ Goto(u, "execute") /\ UNCHANGED leaked
               \/ CloseFails /\ Goto(u, "lost") /\ leaked' = leaked + 1
            /\ UNCHANGED <<permits, queue, attempt, results>>

\* The agent's row is read and each packet goes through prepare_packet_record,
\* which lets no error out.  If the row is gone the worker returns.
Process(u) == /\ phase[u] = "execute"
              /\ \/ Goto(u, "store")
                 \/ Goto(u, "releasing")
              /\ UNCHANGED <<permits, queue, attempt, results, leaked>>

\* PacketRecord.objects.bulk_create, one transaction; nothing to do when every packet
\* was skipped, which counts as done.
Store(u) == /\ phase[u] = "store"
            /\ stored' = [stored EXCEPT ![u] = @ + 1]
            /\ Goto(u, "metric")
            /\ UNCHANGED <<permits, queue, attempt, metrics, leaked>>

RecordMetricAndFail(u) == /\ phase[u] = "metric"
                          /\ metrics' = [metrics EXCEPT ![u] = @ + 1]
                          /\ Retry(u, "execute", "releasing")
                          /\ UNCHANGED <<permits, queue, stored, leaked>>

\* The queries over the recent window and MetricRecord.objects.create.
RecordMetric(u) == /\ phase[u] = "metric"
                   /\ metrics' = [metrics EXCEPT ![u] = @ + 1]
                   /\ Goto(u, "releasing")
                   /\ UNCHANGED <<permits, queue, attempt, stored, leaked>>

ExecuteFailsForever(u) == /\ phase[u] \in Executing
                          /\ Goto(u, "execute")
                          /\ UNCHANGED <<permits, queue, attempt, results, leaked>>

\* Any of the three meets an error: the whole of it is tried again.
ExecuteFails(u) == /\ phase[u] \in Executing
                   /\ Retry(u, "execute", "releasing")
                   /\ UNCHANGED <<permits, queue, results, leaked>>

ReleaseTwice(u) == /\ phase[u] = "releasing"
                   /\ permits' = IF permits + 2 > Inflight THEN Inflight ELSE permits + 2
                   /\ Goto(u, "done")
                   /\ UNCHANGED <<queue, attempt, results, leaked>>

\* finally: the permit goes back.
Release(u) == /\ phase[u] = "releasing"
              /\ permits' = permits + 1
              /\ Goto(u, "done")
              /\ UNCHANGED <<queue, attempt, results, leaked>>

Handle(u) == Save(u) \/ SaveFails(u) \/ Admit(u) \/ Submit(u)

Work(u) == \/ Begin(u) \/ Process(u) \/ Store(u) \/ RecordMetric(u)
           \/ ExecuteFails(u) \/ Release(u)

Next == PickUp \/ \E u \in Upload : Arrive(u) \/ Handle(u) \/ Work(u)

Spec == Init /\ [][Next]_vars

\* Request threads and pool threads are scheduled; nothing makes uploads arrive.
FairSpec == /\ Spec
            /\ WF_vars(PickUp)
            /\ \A u \in Upload : WF_vars(Handle(u)) /\ WF_vars(Work(u))

-----------------------------------------------------------------------------
\* The types of the variables.
TypeOK == /\ permits \in 0..Inflight
          /\ queue \in Seq(Upload)
          /\ phase \in [Upload -> Phases]
          /\ attempt \in [Upload -> 0..(MaxAttempts - 1)]
          /\ stored \in [Upload -> Nat]
          /\ metrics \in [Upload -> Nat]
          /\ leaked \in Nat

\* A permit is free, held by one upload between acquire and release, or was lost
\* by a worker that raised before its try.  Hence the pool never holds more than
\* Inflight uploads, and the BoundedSemaphore is never released once too often.
PermitsConserved == permits + Cardinality(Holding) + leaked = Inflight

\* The uploads take, give back and lose permits one at a time, and only their own: they
\* use _telemetry_inflight_semaphore as Semaphore says.
Inflights == INSTANCE Semaphore WITH Client <- Upload, Permits <- Inflight,
                                     free <- permits, held <- Holding, lost <- leaked

UploadsImplementSemaphore == Inflights!Spec

\* drain_telemetry_pool takes a full semaphore for the end of all work: then no
\* upload waits for a worker or is with one.
DrainMeansIdle == permits = Inflight => Holding = {} /\ queue = <<>>

\* Whatever is tried again, an upload leaves at most one metric record, and only
\* after its packets are stored.
MetricOnce == \A u \in Upload : metrics[u] <= 1 /\ (metrics[u] = 1 => stored[u] > 0)

\* An upload that got a permit gives it back, or its worker raised before its try.
PermitComesBack == \A u \in Upload : u \in Holding ~> phase[u] \in {"done", "lost"}

-----------------------------------------------------------------------------
(* The inductive invariant behind PermitsConserved, DrainMeansIdle and       *)
(* MetricOnce.                                                               *)

\* The pool's queue holds each queued upload once.
QueueOK == /\ \A i \in 1..Len(queue) : phase[queue[i]] = "queued"
           /\ \A i, j \in 1..Len(queue) : i # j => queue[i] # queue[j]

\* The metric record is the last thing an attempt writes.
MetricInv == \A u \in Upload : /\ metrics[u] \in {0, 1}
                               /\ metrics[u] = 1 => phase[u] \in {"releasing", "done"} /\ stored[u] > 0
                               /\ phase[u] = "metric" => stored[u] > 0

PoolInv == TypeOK /\ PermitsConserved /\ QueueOK /\ MetricInv
=============================================================================
