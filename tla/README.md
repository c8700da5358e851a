# NetInsight-X: a TLA+ verification project

NetInsight-X watches a local network.  An *agent* on each host captures packets
and uploads them; a Django *server* turns them into flows, classifies the flows,
derives alerts and bandwidth allocations from them, and, when an operator has
opted in, asks the Windows agents to block single flows in the host's firewall.

This directory models the parts of the program where state is shared between
threads, processes or machines, checks the models with TLC and proves the safety
properties with TLAPS.  `PROJECT.json` lists, for machines, the
components, the runs, the source lines each definition translates, the hazards of
the code and the properties that cover them.

Read a module with the code beside it: definitions keep the names of the code or
of what it calls its steps, and the header of each module says what it abstracts.

Some definitions are used by no `Next`: `RemoveRuleSkipped`, `SaveIdMemoryFirst`,
`NextAscending` and so on.  Each stands in front of the definition it is a wrong
variant of (a dropped guard, a swapped order, a forgotten reset).  Put in place of
the right one, it makes TLC report the property it is listed with under `mutants`;
they show that no property holds for want of anything to check.

## Inventory

| Component | State it keeps | Operations | What is hard about it | What makes it correct |
|---|---|---|---|---|
| Agent flow firewall, `agent/flow_firewall.py` | the dict `_active` with an expiry for each rule; the rules in Windows Firewall; `_stopped` | clear at start, `active_rules`, `sync`, the expiry thread, `stop` | two threads and a signal handler; the lock covers the dict, never the PowerShell call; a call may fail or time out after it took effect; kill and restart | dict and firewall agree but for named races; no rule is lifted early; a silent server's rules go |
| Agent uplink, `agent/main.py`, `sender.py`, `sniffer.py` | the packet deque, the offline file, the id file, `agent_id` | capture, register, upload, keep, forget | a lost answer, a late request, a crash between emptying and writing a file, full buffers, a server that has forgotten the agent | no loss and no duplicate without a named cause; order kept; the agent comes to a known id |
| Server process lock, `dashboard/process_lock.py` | one file with a process id | `acquire_singleton_lock` | the file is made, read and rewritten in separate system calls; process ids are reused; nothing removes the file | one owner; a dead owner is replaced |
| Telemetry ingestion, `analytics/telemetry_handler.py` | a semaphore, the pool's queue, the agent's row, packets, metrics | save, admit, submit, work, retry, release, drain | permits taken in one thread and given back in another; retries that repeat finished work | permits conserved and returned; one metric record |
| Flow builder, `analytics/flow_builder.py` | `FlowRecord`, `ThreatHistory` | look up, count, classify, save, alert | read, count, write back without a lock, in several threads; clocks of several hosts; repeated attempts | counts, rows, durations, verdicts and alerts, each but for overlapping workers |
| Threat classifier, `classification/` | the history of each address, the engine and the confidence of the last answer | classify, count an address, read the threshold | one instance for all workers, whose attributes each answer overwrites; a full cache; packets of several clocks | a worker gets the engine and confidence of its own answer; a history spans no more than it should |
| Agent API, `dashboard/views/api_views.py` | none of its own: `Agent` rows | register, telemetry, demo event, restrictions | answers computed from rows that other requests change | a restriction has a reason; an answer matches its mode |
| Decision support, `analytics/dse.py` | none | alerts from metrics, flows and reports | it reads what several writers have left | what it claims about blocks is recent |
| Bandwidth optimizer, `optimization/solver.py` | none | `solve_allocation`, `_fallback_allocation` | infeasible bounds, exact boundaries | fits the capacity, keeps the bounds, wastes nothing, respects priorities |
| KKT verifier, `optimization/kkt.py` | none | `verify`: four conditions on a solution and its multipliers | conditions that must hold together to mean anything | what it accepts is best |
| Speed monitor, `dashboard/speed_monitor.py` | the measured capacity, in one process | measure, read | the other processes never see it | partly: its start, and the capacity as a value |
| Database pruner, in `telemetry_handler.py` | none | four deletions by age | runs beside the flow builder | partly: its start |
| Metrics stream, in `api_views.py` | a semaphore of slots | open, send, sleep, close | a slot is taken before the generator that returns it; clients leave or stall at any await | slots behave as permits; a started stream gives its slot back |
| Settings and pages, `page_views.py` | the table of `SystemSettings` | three pages that read and create, two forms that write | reads and writes without a transaction; one form saves the whole row it read; page and answer treat missing bounds differently | nothing is undone but by overlapping requests; policies whole; page and answer agree |
| Analytics engine, topology, singletons, collector, logging, configuration, schema, scripts | caches and constants | reads, creation, operating-system calls | nothing that a state machine would tell apart | not modelled |

How they interact: the agent's loop calls the sender, which calls the API; the API
saves the agent's row, hands packets to the ingestion's pool and computes the flow
restrictions for its answer; the loop gives these to the firewall's `sync`; the
firewall's `active_rules` goes up with the next upload and is what decision support
reads.  A pool worker calls the flow builder for each packet, which calls the
classifier.  The pages write the settings row that the answers to
the agents are computed from.  At the server's start each worker process asks the
process lock whether it runs the speed monitor and the pruner.

## The modules

### FlowFirewall (`agent/flow_firewall.py`)

`os` is what Windows Firewall holds, `left` is `_active` with the time each entry
has left, `pc` is where the main thread is.  `active_rules`, `sync` and `stop`
belong to the main thread, `Expiry*` to the daemon thread of `_expiry_loop`.  Each
`with self._lock` and each PowerShell call is a step.  The main thread's critical
sections are states of their own (`LockHeld`), because Python runs the handler of
SIGTERM, hence `stop`, between any two bytecodes of the main thread: outside them it
is `Signal`, inside them `SignalInside`, after which the thread waits for its own
non-reentrant lock.  The PowerShell process that installs a rule runs on by itself
while the handler works (`ChildInstalls`, `ChildFails`).  Killing the agent does not kill
it: it may still create its rule (`Crash`), and it is assumed to end before the next agent
clears the rules.  A PowerShell process slower than that restart would create or remove
its rule behind the new agent's back, which the properties do not cover.

`suspect` is a history variable.  A rule enters it when its installation overlaps
the expiry thread's pass, is cut by a signal, or meets a PowerShell failure.  The
properties say that nothing else makes dict and firewall differ; the documentation's
stronger claims fail exactly there (see Findings).

### SingletonLock (`dashboard/process_lock.py`)

`file` is the lock file, `st` what the process of each id is doing, `existing` what
a worker has read.  One step per system call: `os.open` with `O_EXCL`, `os.write`,
`read_text`, `_pid_is_running`, and `write_text` in two (it empties the file, then
writes).  Ids are reused by workers and by unrelated processes.  `past` remembers
which of the disturbing events have happened, and the properties name the ones they
exclude.  Ids are taken to have the same number of digits, so a write never leaves
a mix of two.

### TelemetryPool (`analytics/telemetry_handler.py`)

`phase[u]` follows an upload through the request thread, the queue and the worker.
`Retry` is the loop of five attempts, which only "locked" goes round.  `Begin` is the
`close_old_connections` before the `try`: if it raises, the permit is lost
(`leaked`).  `submit` itself raises only when the interpreter is going down, which
is not modelled.  A name of an upload is used again when it is finished, so a run has
any number of uploads.

### Semaphore

What a `threading.BoundedSemaphore` promises those who take it without waiting: a
permit is `free`, `held` by one client or `lost` with it.  It is the abstract
specification that TelemetryPool (`Inflights`) and MetricsStream (`Slots`) are shown to
implement, by `INSTANCE ... WITH` and the properties `UploadsImplementSemaphore` and
`StreamsImplementSemaphore`: no step of theirs touches the permits in any other way, and
a client without a permit returns none.

### AgentUplink (`agent/main.py`, `sender.py`, `sniffer.py`)

One agent and its row at the server.  Packets are numbers in the order of their
capture, so order, loss and duplication can be told.  `buffer` is the deque, `hand`
the loop's local list, `disk` and `diskState` the offline file (absent, whole, or
torn between its opening for writing and the end of `json.dump`).  `pc` goes through
one turn of `run`.  A request that its client has given up is kept in `late` and may
still be ingested.  `ServerReset` stands for a new database, after which the server
answers 404.  `excused` and `suspect` are history: the faults that may lose or repeat
a packet.

### Delivery

What agent and server together promise about the captured packets, with nothing of deque,
file, loop or network: the packets that the server has `received` have no gap, and none is
`repeated`, but for what was put at risk (`excused`) or may be sent again (`suspect`), and
an admission is never taken back.  It is the abstract specification that AgentUplink is
shown to implement (`Deliveries`, the property `UplinkImplementsDelivery`), with `received`
and `repeated` computed from how often the server got each packet.

### FlowBuilder (`analytics/flow_builder.py` with the classifier's choice of engine)

Each upload is a worker thread that goes through its packets: `Lookup` reads the
newest active row and counts in a copy, `Save` classifies and writes the whole copy
back, `CheckAlert` and `CreateAlert` are two queries about alerts of the packet's own type,
which the worker keeps as `threat`.  `StoreFails` is the locked
database that sends the worker back to its first packet.  `Verdicts` is any label of
any engine the classifier could use for the row; the special rule that XGBoost does
not take back what XGBoost confirmed is `Classified`.  `saves`, `seen` and `stale` are
history: a flow is stale once a copy was written back that was out of date.

### Classifier (`classification/classifier.py`)

The one `TrafficClassifier` that the workers of a process share.  `lock` is
`_inference_lock`, `engine` and `confidence` are the attributes that every inference
resets and overwrites, `ipHistory` is the ordered dict of addresses, of whose packets
only the times are kept.  A worker waits for the lock, asks XGBoost, the heuristics
(`Recorded`, then `Trimmed` when there are too many addresses) or the language model,
and returns what the attributes hold.  What an engine answers is any label and
confidence; a threat under the threshold is `Suppressed`, and the form that changes the
threshold may be sent at any time.  `own` and `lowest` are history: what the worker's own
inference wrote, and the lowest threshold in force meanwhile.

A packet waits for the lock while others ask the language model, so it may be counted
after packets that arrived later.  That is why `HistorySound` allows a history to span
`LongestSpan`, the larger of the window and of two clock errors and one wait, and not
just the window.

### Allocation (`optimization/solver.py`, `kkt.py`)

`Solved` takes any solution and multipliers that pass `KKTVerifier.verify`: `Verified`
is the conjunction of its four conditions, over the rows of `G` that `solve_allocation`
builds, and `Multipliers` the dual solution that goes with the multiplier of the
capacity; the code then clips the solution.  That CVXOPT's optimum meets the conditions is
an assumption: the code stores what `verify` finds and reports "optimal" all the same, so
`SolutionBest` says nothing of a solution whose verification fails.  `status` tells whether the result is
reported as optimal, which `SolutionBest` compares with every other feasible allocation.
`FallBack` computes the guaranteed shares, `Redistribute` hands slack to the classes in
the order of the priorities.  Numbers are exact, in units of one over the sum of the
priorities; floating point, the verifier's tolerance and the code's threshold of 0.001
are abstracted, so slack below a thousandth counts as none.  The solver's optimum is
taken at integer points, which the bounds and the capacity make its vertices.

### Enforcement (`api_views.py`, `dse.py` and one agent)

The way of a block: rows of `FlowRecord`, `Listed` (`_get_flow_restrictions`), the
answer, the firewall, the report in the next upload, the claim of decision support.
It composes the others at the level of what they promise: the firewall does what it
is told (its failures are in FlowFirewall), a packet taken up is counted once (see
FlowBuilder), a queued packet may be dropped (TelemetryPool).  It composes them by
restating those promises; showing that the detailed modules implement them is in the
plan.  `Tick` waits for queued packets: it is assumed that the workers need less than a tick
for what is queued, to which the code sets no limit (up to 16 uploads, each with retries);
the bound of `ClaimFresh` depends on it.  `idle` and `open` are history: how long the server has had no reason to block a
flow, and how long the flow has not been blocked.

### SystemSettings, MetricsStream, AgentRow and Dashboard (the views that keep state)

*SystemSettings* (`page_views.py`, and the policy of an answer in `api_views.py`): `rows`
is the table; a request reads `first()` (`First`), creates a row if there was none, and
works on `copy` of the row with the key `row`.  `Fill` and `SaveThresholds` save the whole
copy, `SavePolicy` three columns.  All the values of one form are one model value, since
the properties ask only which submission a column comes from.  `Shown` and `Answer` are
what the optimization page and the answer to an agent compute from a row and a capacity.
`overtaken` is history: requests whose row another one has saved since they read it.

*MetricsStream* (`api_stream_metrics`): `Open` takes the slot and makes the response,
`Start` is the first iteration of the generator, `CheckAge`, `Produce`, `Take`, `Sleep`
its round, `Close` its `finally`.  A client may leave where the generator awaits
(`Leave`), stop to read (`Stall`), or be gone before the first iteration (`Abandon`), in
which case no `finally` runs and the slot is `leaked`.

*AgentRow* (`api_register_agent`, `api_agent_telemetry` with the first part of
`handle_telemetry_ingestion`): the row of one agent, which both calls read, change in a
copy and save as a whole.

*Dashboard* composes the three for clients that have one request under way each.

## The runs

Every run finishes in under three minutes with two workers.

| Run | Instance | What it shows |
|---|---|---|
| `flow_firewall` | two local rules and a foreign one, lifetime 2, failing PowerShell; 275 thousand states | both threads, crash, signal anywhere: `UntrackedExplained`, `ReportedIsBlocked`, `ShutdownClears`, `NoEarlyLift`, `SilentServerLifts` |
| `flow_firewall_doc` | one rule, lifetime 1, no PowerShell failure | two promises of the documentation that one execution breaks |
| `singleton_lock` | three ids, two workers, failing writes; 19 thousand states | `RunnerIsNamed`, `TaskIsCovered`, `BootEnds` |
| `singleton_lock_doc` | the same without failures | the module's docstring is broken by overlapping boots |
| `telemetry_pool` | three uploads, two permits, one thread, two attempts; 37 thousand states | `UploadsImplementSemaphore`, `DrainMeansIdle`, `MetricOnce`, `PermitComesBack` |
| `agent_uplink` | three packets, batch 1, file 1, deque 2, two server rows, one crash, one late request; 1.8 million states | `LossExplained`, `DuplicateExplained`, `NoGap`, `IdSurvives`, `UplinkImplementsDelivery` |
| `agent_uplink_live` | two packets, deque 1, no late request, fairness; 52 thousand states | `Registers`, `PacketsArrive` |
| `flow_builder` | two uploads of one packet of the same flow, two attempts, two types of threats, XGBoost from three packets, clock error 1; 2.8 million states | `CountExact`, `RowsApart`, `DurationBounded`, `AlertsBounded`, `ConfirmedStays` |
| `classifier` | two workers, three addresses, a cache of two cut to one, two confidences, window 1, wait 2; 819 thousand states up to symmetry | `VerdictSound`, `HistorySound` |
| `allocation` | every priority in 1..2, bound in 0..2, capacity in 0..5; 2.9 million states | `FitsCapacity`, `BoundsKept`, `WorkConserving`, `PriorityRespected`, `SolutionBest` |
| `enforcement` | one flow, a demo server and one that also enforces live, all time limits 1 (activity 0); 2.1 million states | `BlockJustified`, `ClaimFresh` |
| `dashboard` | two clients, one slot, a stream of two rounds, two policies, one set of limits, two identities, one report; 816 thousand states | `RowsBounded`, `PolicyWhole`, `PageAgrees`, `UndoNeedsOverlap`, `StreamsImplementSemaphore`, `SlotComesBack`, `AgentRowKept` |

Why the bounds are enough.

- *Firewall.*  Rules interact only through the cursors of the two threads; two local
  rules let one be removed while the other is installed, the third is ignored by
  `sync`.  A lifetime of two ticks lets a refresh change a rule's time.
- *Lock.*  Two workers race; the third id is needed for a replacement whose
  predecessor's id is still in the file while another process bears it.
- *Pool.*  Three uploads exceed two permits, two permits exceed one thread, two
  attempts have a first and a last.
- *Uplink.*  Batch, file and deque of the smallest sizes at which all of them overflow:
  a third packet is left over after a full file and a full batch.  Packets are
  counted up to two, which is where a duplicate is told.
- *Builder.*  Races are between two workers.  Two uploads with two attempts are four passes
  of a packet, so XGBoost can confirm a threat at the third and be asked again at the
  fourth, and there may be more alerts than workers.  Two types show that an alert of one
  leaves the other alone.  The window of 3 is longer than two clock errors, as
  in the code (30 s against 5 s).  A row may end one tick before the clock's start and
  the next packet come one tick after its end at 2: four ticks apart, more than the
  window, so a flow can get a second row without a race.
- *Classifier.*  One address more than the cache holds makes it evict; cutting it to one
  takes away an address that is still fresh.  One worker may hold the lock while the
  other waits.  Waits and clock errors enter the bound on a span in the same way, so
  errors of 0 and a wait of 2 stand for both, and the wait is longer than the window.
- *Allocation.*  With values up to two every order of bound, share and capacity
  occurs, infeasible minima and reversed bounds included; the proofs cover the rest.
- *Enforcement.*  The gate treats each flow by itself.  What matters is which limits
  add up, and each is at least a tick but the activity window, which is shorter than
  all the others.
- *Dashboard.*  Every race is between two requests: two that create a row, a form
  against a form, a stream against another for the one slot.  Two policies tell a whole
  one from a mixed one; one set of limits differs from the defaults, which is enough to
  see it undone.  A stream that checks its age twice is once young and once too old.

The types of all modules are proved.

Deadlock is checked except where a system may stop: the workers of `flow_builder`
finish and its clock is bounded, an allocation ends, and in `enforcement` a server
whose agent never starts has nothing to do.  Symmetry is used over the two uploads of
`flow_builder` and its two types of threats, and over the workers and the addresses of `classifier`, which are alike,
and under safety properties only.

## Fairness

- *FlowFirewall*: the clock and both threads go on, PowerShell answers or is killed at
  its timeout.  The expiry thread's critical sections get strong fairness, since the
  main thread takes the same lock again and again for moments and a waiting thread
  gets it at some time.  Nothing makes the agent start, crash, receive a signal or hear
  from the server.
- *SingletonLock*: a worker that boots gets on with its call.
- *TelemetryPool*: request threads and pool threads are scheduled; no upload need
  arrive.
- *AgentUplink*: the loop is scheduled and finds its network again; a call that is
  tried for ever succeeds some time (strong fairness of saving the id, of an answer
  from the server, and of its arrival in time).  Without it an agent whose disk or
  network fails for ever makes no progress, which is no fault of the code.
- *Dashboard*: the event loop resumes a stream that can go on (weak fairness of
  `Stream`).  No client need come, read or leave, and no request for a page or call of an
  agent need be answered.

`FlowBuilder`, `Classifier`, `Allocation` and `Enforcement` have no liveness property.

## What is proved

For every value of the constants, from the assumptions named in the modules only.

- *FlowFirewallProofs*: `TypeCorrect`, `UntrackedIsExplained`, `ShutdownIsClean`,
  `ReportIsRight`, `NoRuleLiftedEarly`, for any set of rules and any lifetime, all from
  the invariant `IInv`.  `UntrackedExplained` is not inductive: whether a rule gets
  out of the dict without leaving the firewall depends on what the thread that pops
  it has seen.  `IInv` adds what each thread knows at each step: `RemoveInv` (what a
  thread pops it has removed), `InstallInv` (what `sync` records is installed),
  `ChildInv` (when a PowerShell child can exist), `ExpiryInv` (a pass holds rules whose
  time was up), `TrackedInv` and `StopInv` (what `stop` has still to remove).
- *ServerProofs*, the parts of one server process.  `RunnerNamed` and `AtMostOneRunner`,
  for any number of ids and workers, from `LockInv`: as long as boots do not overlap, what
  the one acquirer has read is still in the file (`AcquirerInv`), and a running worker is
  named by it.  `OneRunner` alone says nothing of the file, which decides the next boot.
  `TaskCovered`, where boots do overlap, from `CoverInv`: as long as no worker is missing
  there is one that runs the task or will find the file free (`WillRun`), since a file
  names a process that runs it or is gone.  `TaskIsCovered` speaks only of the moment when
  all have returned.
  `PermitsAreConserved`, `FullMeansIdle`, `AtMostOneMetric` and
  the refinement `UploadsUseSemaphore`, for any number of uploads, permits, threads and
  attempts, from `PoolInv`.  The sum of
  `PermitsConserved` is kept by each step only if the pool's queue holds an upload once
  and in its phase (`QueueOK`).
- *AgentUplinkProofs*: `LossesExplained`, `DuplicatesExplained`, `OrderKept`, `IdOnDisk`,
  for any number of packets, any sizes of deque, file and batch and any number of crashes,
  from `UplinkInv`.  None of the four properties is inductive: what may be lost or sent
  twice depends on where the loop is.  `PlacesInv` says when the loop's list and the file
  are empty; `LossInv` that until the file is replaced the loop holds what is in it or the
  server has it; `DuplicateInv` that what the server has, and no fault lets the agent send
  again, is only still in the hands of a loop that has not read its answer or in a file it
  is about to empty; `OrderInv` that file, list and deque are in that order.
  `NothingSkipped` and the refinement `UplinkDelivers` need `GapInv` besides, that an upload
  still on its way will leave no gap either, and `SentHasNoGap`: what is older than an upload
  is in it or done with, since the list was read behind the file and the deque is younger
  than both.  `LocalStep` and `ArrivalStep` are the two kinds of steps Delivery has.  The lemmas
  on parts and joins of sequences (`Smallest`, `Part`, `Joined`, `NewestPart`) stand first.
- *ClassifierProofs*: `VerdictIsSound`, for any number of workers, addresses and
  confidences, from `VerdictInv`: who is between the taking of the lock and its release
  holds it (`LockInv`), the attributes hold what it wrote, and `lowest` is below
  whichever threshold it may still read (`InferenceInv`).  `VerdictSound` speaks only of
  the moment of the return and is not inductive.  `ClassifierTypeCorrect` is for the
  variables but for the history, `HistoryIsSound` for that, for any cap, window, clock error
  and wait, from `HistoryInv`: no packet of the history is from further ahead than a clock
  error (`Orderly`), and one that is counted waited no longer than `Delay` (`TimesInv`),
  which together bound the span; and the packet counted last is the one that is there while
  the language model is asked (`CountedInv`).  `Ranks` and `AtPlaces` say what is left of a
  sequence when some of its places are kept, `TrimmedKeeps` what the eviction keeps.
- *AllocationProofs*: `NeverOverCapacity`, `BoundsAreKept`, `NothingWasted`,
  `StarvationIsFair`, for every bound of the inputs, from `AInv`: the shares keep bounds
  and order (`SharesInv`), and while slack is left the classes already visited have
  their maximum (`SlackInv`).  The lemmas about products, sums and shares stand first.
  `ReportedOptimaAreBest` is weak duality: under the four conditions no feasible
  allocation gains more on a class than the multipliers of its bounds and of the capacity
  charge for it (`GainOfOneClass`), so none gains on the sum (`VerifiedIsBest`); a
  feasible solution is not changed by the clipping.
- *EnforcementProofs*: `BlocksAreJustified` and `ClaimsAreFresh`, for any flows and time
  limits, from `EInv`: whatever could keep a block alive, a rule or an answer on its way,
  is younger than its own limit allows in the time since the server lost its reason
  (`IdleInv`); likewise a report for a claim (`OpenInv`); and the agent's table is what its
  firewall holds (`FirewallInv`).
- *FlowBuilderProofs*: `CountsAreExact`, `RowsAreApart`, `DurationsAreBounded`,
  `ConfirmationsStay`, for any number of uploads, packets and attempts, from `FlowInv`: a
  worker's copy is a row of its own or one packet ahead of the row it was read from until
  another worker saves that row (`CopyInv`), and no row starts later than the clocks allow
  (`StartInv`).  `AlertsAreBounded`, for any set of threat types, from `AlertInv`: after the
  first alert of a type in a window no worker finds none of that type, so its alerts and
  the workers about to add one are together no more than the workers.
- *DashboardProofs*: `PolicyIsWhole`, `FewRows`, `PagesAgree`, `NothingUndoneAlone` from
  `SettingsInv` (a copy is what the table holds unless the request was overtaken; once
  there is a row only the requests that found none add one), the refinement
  `StreamsUseSemaphore`, and `AgentRowIsKept` from `AgentInv`, for any number of clients,
  slots, forms, identities and reports.

The assumptions are the code's: at least one worker, permit, thread and attempt, limits
that are numbers, a batch and a file that hold a packet.

Only model-checked: all liveness (`SilentServerLifts`, `BootEnds`, `PermitComesBack`,
`Registers`, `PacketsArrive`, `SlotComesBack`), since the proof system does not treat
ENABLED.  Every safety property of the runs is proved.

## Findings

Three claims the repository makes that the code breaks, each with a run whose
counterexample shows how.

1. `README.md:121-122`, rules "expire after 120 seconds without refresh"
   (`RulesExpire`).  The expiry thread reads the expired names under the lock, then
   removes and pops each without it.  A `sync` in between reinstalls the rule, and the
   pop then deletes its fresh entry: the rule stays in the firewall for ever.
2. `README.md:121-123`, rules "are removed on normal agent shutdown"
   (`ShutdownRemovesRules`).  A signal inside a critical section of the main thread makes
   `stop` wait for a lock that its own thread holds: the agent neither exits nor removes
   its rules.  And outside of them, a signal between the installation of a rule and its
   entry in the dict leaves the rule behind.

   One run shows both: `flow_firewall_doc` checks the weaker `OnePromiseKept`, that one of
   the two holds of each execution.  TLC's counterexample has first an agent that is told
   to stop, twice, while it installs a rule, then a new agent whose rule never expires.
3. `process_lock.py:7-8`, "lets only one process win a named lock" (`OnlyOneWins`).  The
   file is empty between its creation and the write of the id, and a second worker
   that reads it then wins as well.

Read while modelling, and without a run, since it is a matter of which object is used
and not of any order of steps: the flow builder classifies with
`get_shared_classifier()` of `classifier.py:249-260`, whose comment calls it shared
"across threads/views", while decision support and the pages ask
`get_traffic_classifier()` of `config/singletons.py:45-57`, which makes a second
`TrafficClassifier`.  That one classifies nothing, so the engine and confidence the
dashboard shows, and the alert that decision support derives from them
(`dse.py:216-232`), do not reflect the answers of the workers.

## Not modelled, and why

- The packet parser, the numbers of the statistics and metrics, thresholds of decision
  support, prompts and answers of the language model: data without control.
- The machine-learning models: floating point.
- The topology, the analytics engine and what the pages show of other tables: they read
  only.
- The pruner's deletions: it takes packets older than ten minutes and the rest when older
  than a day, while the lookups of the modelled code go back some minutes at most.  Beside
  a worker that stalls for longer than that they would matter.
- The download test of the speed monitor and which process has which capacity: each
  process works with its own value, and no property relates two of them.
- The token check and the throttle of the API are the refusal of an upload in
  `AgentUplink`; what they compare is left out.
- Local bandwidth shaping of the agent (`main.py:102-142`): it calls PowerShell with what
  an answer says and keeps no state.
- Two calls of one agent at the same time, outside of `AgentRow` and other than a late
  upload: the loop sends one at a time.

## Plan

Done, in this order: FlowFirewall, SingletonLock, TelemetryPool, AgentUplink,
FlowBuilder, Classifier, Allocation, Enforcement, Semaphore with its two implementations,
SystemSettings, MetricsStream, AgentRow, Dashboard; proofs of the safety properties of all
of them; Delivery and its implementation.

What is left, the most useful first:

1. The firewall as Enforcement assumes it, implemented by FlowFirewall; a flow counter
   with one atomic step per packet, implemented by FlowBuilder while workers do not overlap.
2. The pruner, with ages short enough to meet a worker that stalls.
