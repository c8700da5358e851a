------------------------------ MODULE Classifier ------------------------------
(***************************************************************************)
(* netinsight/classification/classifier.py: the one TrafficClassifier that *)
(* the worker threads of a server process share.                           *)
(*                                                                         *)
(* A worker asks for a packet's label, engine and confidence.  Under       *)
(* _inference_lock XGBoost answers for a flow of enough packets; if it     *)
(* cannot, the heuristic rules answer from the history of the packet's     *)
(* source address, and if they see no threat the language model may be     *)
(* asked.  Engine and confidence are kept in the classifier's attributes.  *)
(*                                                                         *)
(* Of the history of an address only the times of its packets are kept.    *)
(* What the engines compute is any answer they can give.                   *)
(***************************************************************************)
EXTENDS Integers, Sequences, FiniteSets

CONSTANTS Worker,      (* threads of the telemetry pool                        *)
          Address,     (* source addresses                                     *)
          Confidence,  (* confidences and thresholds                           *)
          Default,     (* _DEFAULT_CONFIDENCE_THRESHOLD, 0.80                  *)
          Window,      (* window_duration, 10 s                                *)
          MaxCache,    (* MAX_IP_CACHE, 2000                                   *)
          Kept,        (* MAX_IP_CACHE - 500                                   *)
          Skew,        (* how far a packet's clock may be off, 5 s             *)
          Delay,       (* longest wait for _inference_lock                     *)
          Nobody,
          MaxTime      (* bound of the clock                                   *)

ASSUME ClassifierAssumption ==
       /\ Confidence \subseteq Nat \ {0} /\ Default \in Confidence
       /\ Window \in Nat \ {0} /\ Skew \in Nat /\ Delay \in Nat /\ MaxTime \in Nat
       /\ MaxCache \in Nat /\ Kept \in 1..MaxCache
       /\ Nobody \notin Worker

VARIABLES now,
          threshold,    (* SystemSettings.llm_confidence_threshold              *)
          lock,         (* the holder of _inference_lock                        *)
          engine,       (* last_engine_used                                     *)
          confidence,   (* last_llm_confidence                                  *)
          ipHistory,    (* ip_history, in the order of insertion                *)
          pc,           (* where each worker is                                 *)
          job,          (* the packet it classifies, and since when             *)
          label,        (* its variable of that name                            *)
          own,          (* history, read by no action: what the worker's own
                           inference wrote to engine and confidence             *)
          lowest        (* history, likewise: the lowest threshold in force
                           since that inference began                           *)

shared == <<lock, engine, confidence>>
locals == <<pc, job, label>>
vars == <<now, threshold, shared, ipHistory, locals, own, lowest>>

Inferring == {"xgboost", "heuristics", "llm", "return"}

NoConfidence == 0
Labels == {"Normal", "Threat"}
Engines == {"XGBoost", "Heuristics", "LLM"}
Time == (0 - Skew)..(MaxTime + Skew)
Job == [ip : Address, ts : Time, enough : BOOLEAN, since : 0..MaxTime]
Source == [engine : Engines, confidence : Confidence \cup {NoConfidence}]
History == [ip : Address, stamps : SUBSET Time, last : Time]

LeastOf(a, b) == IF a < b THEN a ELSE b

\* Of no inference.
NoSource == [engine |-> "Heuristics", confidence |-> NoConfidence]

Init == /\ now = 0 /\ threshold \in Confidence
        /\ lock = Nobody /\ engine = "XGBoost" /\ confidence = NoConfidence
        /\ ipHistory = <<>>
        /\ pc = [w \in Worker |-> "idle"]
        /\ job = [w \in Worker |-> Nobody]
        /\ label = [w \in Worker |-> "Normal"]
        /\ own = [w \in Worker |-> NoSource]
        /\ lowest = [w \in Worker |-> Default]

-----------------------------------------------------------------------------
(* update_ip_cache                                                          *)

PrunedNever(stamps, ts) == stamps

\* What is younger than the window, seen from the packet; the packet is, so the
\* code's branch for an empty history is never taken.
Pruned(stamps, ts) == {t \in stamps : t >= ts - Window}

\* The packet is added to its address, which keeps its place or comes last.
Recorded(c, ip, ts) ==
  IF \E i \in 1..Len(c) : c[i].ip = ip
  THEN [i \in 1..Len(c) |-> IF c[i].ip = ip
                            THEN [ip |-> ip, stamps |-> Pruned(c[i].stamps \cup {ts}, ts), last |-> ts]
                            ELSE c[i]]
  ELSE Append(c, [ip |-> ip, stamps |-> {ts}, last |-> ts])

\* What a sequence has at the places in I, in its order.
At(c, I) == [k \in 1..Cardinality(I) |-> c[CHOOSE i \in I : Cardinality({j \in I : j <= i}) = k]]

Fresh(c, ts) == At(c, {i \in 1..Len(c) : ts - c[i].last <= Window})

TrimmedOfStale(c, ts) == IF Len(c) <= MaxCache THEN c ELSE Fresh(c, ts)

\* Too many addresses: those whose last packet is too old go, and if that is not
\* enough, those that have been there longest.
Trimmed(c, ts) ==
  IF Len(c) <= MaxCache THEN c
  ELSE LET f == Fresh(c, ts) IN
       IF Len(f) <= MaxCache THEN f ELSE SubSeq(f, Len(f) - Kept + 1, Len(f))

-----------------------------------------------------------------------------
(* classify_packet_with_metadata                                            *)

\* The flow builder has a packet, of trusted time, counted and ready.
Arrive(w) ==
  /\ pc[w] = "idle"
  /\ \E ip \in Address, ts \in (now - Skew)..(now + Skew), enough \in BOOLEAN :
       job' = [job EXCEPT ![w] = [ip |-> ip, ts |-> ts, enough |-> enough, since |-> now]]
  /\ pc' = [pc EXCEPT ![w] = "waiting"]
  /\ UNCHANGED <<now, threshold, shared, ipHistory, label, own, lowest>>

Note(w, e, c) == /\ engine' = e /\ confidence' = c
                 /\ own' = [own EXCEPT ![w] = [engine |-> e, confidence |-> c]]

Goto(w, p) == pc' = [pc EXCEPT ![w] = p]

InferUnlocked(w) == /\ pc[w] = "waiting"
                    /\ lock' = w
                    /\ Note(w, "Heuristics", NoConfidence)
                    /\ lowest' = [lowest EXCEPT ![w] = LeastOf(threshold, Default)]
                    /\ Goto(w, IF job[w].enough THEN "xgboost" ELSE "heuristics")
                    /\ UNCHANGED <<now, threshold, ipHistory, job, label>>

\* The lock is taken and the attributes are reset.
Infer(w) == /\ pc[w] = "waiting" /\ lock = Nobody
            /\ lock' = w
            /\ Note(w, "Heuristics", NoConfidence)
            /\ lowest' = [lowest EXCEPT ![w] = LeastOf(threshold, Default)]
            /\ Goto(w, IF job[w].enough THEN "xgboost" ELSE "heuristics")
            /\ UNCHANGED <<now, threshold, ipHistory, job, label>>

\* _get_confidence_threshold: the default when the settings cannot be read.
Thresholds == {threshold, Default}

\* A threat of too little confidence is none; one without a confidence stands.
Suppressed(l, c) == {IF c # NoConfidence /\ c < t THEN "Normal" ELSE l : t \in Thresholds}

\* An engine has answered.
Answered(w, e, l, c) == /\ Note(w, e, c)
                        /\ \E s \in Suppressed(l, c) : label' = [label EXCEPT ![w] = s]
                        /\ Goto(w, "return")
                        /\ UNCHANGED <<now, threshold, lock, ipHistory, job, lowest>>

XgboostAnswers(w) == /\ pc[w] = "xgboost"
                     /\ \E l \in Labels, c \in Confidence : Answered(w, "XGBoost", l, c)

\* It is not loaded, or the prediction fails.
XgboostFails(w) == /\ pc[w] = "xgboost"
                   /\ Goto(w, "heuristics")
                   /\ UNCHANGED <<now, threshold, shared, ipHistory, job, label, own, lowest>>

\* _classify_rule_based, which counts the packet first; only for a flow of enough
\* packets may the language model be asked.
Heuristics(w) ==
  /\ pc[w] = "heuristics"
  /\ ipHistory' = Trimmed(Recorded(ipHistory, job[w].ip, job[w].ts), job[w].ts)
  /\ \E l \in Labels : /\ label' = [label EXCEPT ![w] = l]
                       /\ Goto(w, IF l = "Normal" /\ job[w].enough THEN "llm" ELSE "return")
  /\ UNCHANGED <<now, threshold, shared, job, own, lowest>>

LlmAnswers(w) == /\ pc[w] = "llm"
                 /\ \E l \in Labels, c \in Confidence \cup {NoConfidence} : Answered(w, "LLM", l, c)

\* No key, no answer, or one that is not a known label.
LlmFails(w) == /\ pc[w] = "llm"
               /\ Goto(w, "return")
               /\ UNCHANGED <<now, threshold, shared, ipHistory, job, label, own, lowest>>

\* The triple is returned and the lock released.
Return(w) == /\ pc[w] = "return"
             /\ lock' = Nobody
             /\ Goto(w, "idle")
             /\ job' = [job EXCEPT ![w] = Nobody]
             /\ label' = [label EXCEPT ![w] = "Normal"]
             /\ own' = [own EXCEPT ![w] = NoSource]
             /\ lowest' = [lowest EXCEPT ![w] = Default]
             /\ UNCHANGED <<now, threshold, engine, confidence, ipHistory>>

-----------------------------------------------------------------------------
\* settings_view
SetThreshold(t) == /\ t # threshold /\ threshold' = t
                   /\ lowest' = [w \in Worker |-> IF pc[w] \in Inferring THEN LeastOf(lowest[w], t)
                                                                         ELSE lowest[w]]
                   /\ UNCHANGED <<now, shared, ipHistory, locals, own>>

\* The engines in the process take no time; the language model does, and meanwhile
\* the other workers wait.
Tick == /\ now < MaxTime /\ now' = now + 1
        /\ \A w \in Worker : /\ pc[w] \notin {"xgboost", "heuristics"}
                             /\ pc[w] = "waiting" => now - job[w].since < Delay
        /\ UNCHANGED <<threshold, shared, ipHistory, locals, own, lowest>>

Next == \/ Tick \/ (\E t \in Confidence : SetThreshold(t))
        \/ \E w \in Worker : \/ Arrive(w) \/ Infer(w) \/ XgboostAnswers(w) \/ XgboostFails(w)
                             \/ Heuristics(w) \/ LlmAnswers(w) \/ LlmFails(w) \/ Return(w)

Spec == Init /\ [][Next]_vars

-----------------------------------------------------------------------------
\* The types of the variables but for the history, see HistorySound.
TypeOK == /\ now \in 0..MaxTime /\ threshold \in Confidence
          /\ lock \in Worker \cup {Nobody}
          /\ engine \in Engines /\ confidence \in Confidence \cup {NoConfidence}
          /\ pc \in [Worker -> {"idle", "waiting"} \cup Inferring]
          /\ job \in [Worker -> Job \cup {Nobody}]
          /\ \A w \in Worker : pc[w] # "idle" => job[w] \in Job
          /\ label \in [Worker -> Labels]
          /\ own \in [Worker -> Source]
          /\ lowest \in [Worker -> Confidence]

\* "Return a label and its engine/confidence atomically": a worker is given the
\* engine and the confidence of its own inference, whatever the others do; XGBoost and
\* the language model only for a flow of enough packets, and a threat of known
\* confidence only if that reaches a threshold in force during the inference.
VerdictSound ==
  \A w \in Worker : pc[w] = "return" =>
    /\ engine = own[w].engine /\ confidence = own[w].confidence
    /\ engine # "Heuristics" => job[w].enough
    /\ label[w] = "Threat" /\ confidence # NoConfidence => confidence >= lowest[w]

\* The history keeps to the cap of addresses, each once.  That of an address never spans
\* more than the window, or than the error of two clocks and the wait for the lock if
\* that is more.  And a trimming never takes away the packet for which it was done.
LongestSpan == IF Window < 2 * Skew + Delay THEN 2 * Skew + Delay ELSE Window

HistorySound ==
  /\ ipHistory \in Seq(History) /\ Len(ipHistory) <= MaxCache
  /\ \A i, j \in 1..Len(ipHistory) : i # j => ipHistory[i].ip # ipHistory[j].ip
  /\ \A i \in 1..Len(ipHistory) : \A s, t \in ipHistory[i].stamps : s - t <= LongestSpan
  /\ \A w \in Worker : pc[w] = "llm" =>
       \E i \in 1..Len(ipHistory) : ipHistory[i].ip = job[w].ip /\ job[w].ts \in ipHistory[i].stamps
=============================================================================
