-------------------------- MODULE ClassifierProofs --------------------------
(***************************************************************************)
(* What a worker is told, and what the history of addresses holds, for any *)
(* number of workers, addresses and confidences and any limits.            *)
(***************************************************************************)
EXTENDS Classifier, FiniteSetTheorems, SequenceTheorems, TLAPS

\* _inference_lock is held by whoever is between its taking and its release.
LockInv == \A w \in Worker : pc[w] \in Inferring => lock = w

\* What a worker inside knows: the attributes hold what it wrote, an engine that needs
\* many packets has them, and lowest is below both thresholds it may read.
InferenceInv ==
  \A w \in Worker : pc[w] \in Inferring =>
    /\ engine = own[w].engine /\ confidence = own[w].confidence
    /\ lowest[w] <= threshold /\ lowest[w] <= Default
    /\ pc[w] \in {"xgboost", "llm"} \/ engine # "Heuristics" => job[w].enough
    /\ pc[w] # "return" => engine = "Heuristics" /\ confidence = NoConfidence
    /\ label[w] = "Threat" /\ confidence # NoConfidence => confidence >= lowest[w]

VerdictInv == TypeOK /\ LockInv /\ InferenceInv

\* Confidences, the missing one included, and thresholds are numbers.
LEMMA ConfidenceNumber == \A c \in Confidence \cup {NoConfidence} : c \in Nat
BY ClassifierAssumption DEF NoConfidence

LEMMA Numbers ==
  /\ Default \in Nat
  /\ TypeOK => threshold \in Nat /\ \A w \in Worker : lowest[w] \in Nat
BY ClassifierAssumption, ConfidenceNumber DEF TypeOK

\* A classifier that has not been asked.
LEMMA InitVerdictInv == Init => VerdictInv
<1> SUFFICES ASSUME Init PROVE VerdictInv
  OBVIOUS
<1>1. NoSource \in Source
  BY DEF NoSource, Source, Engines
<1>2. TypeOK
  BY <1>1, ClassifierAssumption DEF Init, TypeOK, Labels, Engines
<1>3. LockInv /\ InferenceInv
  BY DEF Init, LockInv, InferenceInv, Inferring
<1> QED
  BY <1>2, <1>3 DEF VerdictInv

\* A packet arrives: its worker is not inside.
LEMMA ArriveInv ==
  ASSUME VerdictInv, NEW w \in Worker, Arrive(w)
  PROVE  VerdictInv'
<1> USE DEF VerdictInv, Arrive, shared
<1>1. PICK ip \in Address, ts \in (now - Skew)..(now + Skew), enough \in BOOLEAN :
        job' = [job EXCEPT ![w] = [ip |-> ip, ts |-> ts, enough |-> enough, since |-> now]]
  OBVIOUS
<1>2. [ip |-> ip, ts |-> ts, enough |-> enough, since |-> now] \in Job
  BY ClassifierAssumption DEF TypeOK, Job, Time
<1>3. TypeOK'
  BY <1>1, <1>2 DEF TypeOK
<1>4. \A v \in Worker : pc'[v] \in Inferring => pc[v] = pc'[v] /\ job'[v] = job[v]
  BY <1>1 DEF TypeOK, Inferring
<1>5. LockInv' /\ InferenceInv'
  BY <1>4 DEF LockInv, InferenceInv
<1> QED
  BY <1>3, <1>5

\* The lock is taken, so nobody else is inside.
LEMMA InferInv ==
  ASSUME VerdictInv, NEW w \in Worker, Infer(w)
  PROVE  VerdictInv'
<1> USE ClassifierAssumption DEF VerdictInv, Infer, Goto, Note
<1>1. [engine |-> "Heuristics", confidence |-> NoConfidence] \in Source
  BY DEF Source, Engines
<1>2. /\ LeastOf(threshold, Default) \in Confidence
      /\ LeastOf(threshold, Default) <= threshold /\ LeastOf(threshold, Default) <= Default
  BY DEF LeastOf, TypeOK
<1>3. TypeOK'
  BY <1>1, <1>2 DEF TypeOK, Inferring, Engines
<1>4. \A v \in Worker : pc'[v] \in Inferring => v = w
  BY DEF TypeOK, LockInv
<1>5. LockInv'
  BY <1>4 DEF LockInv
<1>6. InferenceInv'
  BY <1>2, <1>4 DEF InferenceInv, TypeOK, NoConfidence
<1> QED
  BY <1>3, <1>5, <1>6

\* An engine that may be asked here answers: what it wrote is what the attributes hold,
\* and a threat that is kept reached the threshold that was read.
LEMMA AnsweredInv ==
  ASSUME VerdictInv, NEW w \in Worker, NEW e \in {"XGBoost", "LLM"}, NEW l \in Labels,
         NEW c \in Confidence \cup {NoConfidence},
         pc[w] \in {"xgboost", "llm"}, Answered(w, e, l, c)
  PROVE  VerdictInv'
<1> USE ClassifierAssumption DEF VerdictInv, Answered, Goto, Note
<1>1. PICK s \in Suppressed(l, c) : label' = [label EXCEPT ![w] = s]
  OBVIOUS
<1>2. s \in Labels
  BY <1>1 DEF Suppressed, Labels
<1>3. [engine |-> e, confidence |-> c] \in Source
  BY DEF Source, Engines
<1>4. TypeOK'
  BY <1>1, <1>2, <1>3 DEF TypeOK, Inferring, Engines
<1>5. \A v \in Worker : pc'[v] \in Inferring => v = w
  BY DEF TypeOK, LockInv, Inferring
<1>6. LockInv'
  BY <1>5 DEF LockInv, Inferring
<1>7. s = "Threat" /\ c # NoConfidence => c >= lowest[w]
  <2>1. PICK t \in {threshold, Default} : s = IF c # NoConfidence /\ c < t THEN "Normal" ELSE l
    BY DEF Suppressed, Thresholds
  <2>2. lowest[w] <= t
    BY DEF InferenceInv, Inferring
  <2>3. lowest[w] \in Nat /\ t \in Nat /\ c \in Nat
    BY Numbers, ConfidenceNumber
  <2> QED
    BY <2>1, <2>2, <2>3
<1>8. job[w].enough
  BY DEF InferenceInv, Inferring
<1>9. InferenceInv'
  BY <1>1, <1>5, <1>7, <1>8 DEF InferenceInv, TypeOK, Inferring
<1> QED
  BY <1>4, <1>6, <1>9

\* A worker that goes on inside without an answer of an engine.
LEMMA InsideInv ==
  ASSUME VerdictInv, NEW w \in Worker,
         \/ XgboostFails(w) \/ Heuristics(w) \/ LlmFails(w)
  PROVE  VerdictInv'
<1> USE DEF VerdictInv, shared, Goto
<1>1. /\ pc[w] \in Inferring \ {"return"} /\ UNCHANGED <<now, threshold, shared, job, own, lowest>>
      /\ \E l \in Labels : label' = [label EXCEPT ![w] = l]
      /\ \E p \in {"heuristics", "llm", "return"} : pc' = [pc EXCEPT ![w] = p]
      /\ pc'[w] = "llm" => job[w].enough
  BY DEF XgboostFails, Heuristics, LlmFails, TypeOK, Inferring
<1>2. TypeOK'
  BY <1>1 DEF TypeOK, Inferring
<1>3. \A v \in Worker : pc'[v] \in Inferring => v = w
  BY <1>1 DEF TypeOK, LockInv, Inferring
<1>4. LockInv'
  BY <1>1, <1>3 DEF LockInv, Inferring
<1>5. InferenceInv'
  BY <1>1, <1>3 DEF InferenceInv, TypeOK, Inferring
<1> QED
  BY <1>2, <1>4, <1>5

\* The lock is released by the one that is inside.
LEMMA ReturnInv ==
  ASSUME VerdictInv, NEW w \in Worker, Return(w)
  PROVE  VerdictInv'
<1> USE ClassifierAssumption DEF VerdictInv, Return, Goto
<1>1. TypeOK'
  BY DEF TypeOK, Inferring, Labels, NoSource, Source, Engines
<1>2. \A v \in Worker : pc'[v] \notin Inferring
  BY DEF TypeOK, LockInv, Inferring
<1> QED
  BY <1>1, <1>2 DEF LockInv, InferenceInv

\* The threshold changes, and lowest with it for those inside.
LEMMA ThresholdInv ==
  ASSUME VerdictInv, NEW t \in Confidence, SetThreshold(t)
  PROVE  VerdictInv'
<1> USE ClassifierAssumption DEF VerdictInv, SetThreshold, shared, locals, LeastOf
<1>1. TypeOK'
  BY DEF TypeOK
<1>2. LockInv'
  BY DEF LockInv
<1>3. ASSUME NEW w \in Worker, pc[w] \in Inferring
      PROVE  lowest'[w] <= t /\ lowest'[w] <= lowest[w] /\ lowest'[w] \in Nat
  BY <1>3, Numbers, ConfidenceNumber DEF TypeOK
<1>4. InferenceInv'
  <2>1. ASSUME NEW w \in Worker, pc[w] \in Inferring
        PROVE  /\ lowest'[w] <= Default
               /\ label[w] = "Threat" /\ confidence # NoConfidence => confidence >= lowest'[w]
    <3>1. own[w] \in Source
      BY DEF TypeOK
    <3>2. own[w].confidence \in Confidence \cup {NoConfidence}
      BY <3>1 DEF Source
    <3>3. own[w].confidence \in Nat
      BY <3>2, ConfidenceNumber
    <3> QED
      BY <1>3, <2>1, <3>3, Numbers DEF InferenceInv
  <2> QED
    BY <1>3, <2>1 DEF InferenceInv
<1> QED
  BY <1>1, <1>2, <1>4

\* What the workers maintain together, whoever waits and whoever changes the threshold.
THEOREM VerdictInvariant == Spec => []VerdictInv
<1>1. VerdictInv /\ [Next]_vars => VerdictInv'
  <2> SUFFICES ASSUME VerdictInv, [Next]_vars PROVE VerdictInv'
    OBVIOUS
  <2>1. CASE Tick
    BY <2>1, ClassifierAssumption
    DEF Tick, shared, locals, VerdictInv, TypeOK, LockInv, InferenceInv
  <2>2. ASSUME NEW t \in Confidence, SetThreshold(t) PROVE VerdictInv'
    BY <2>2, ThresholdInv
  <2>3. ASSUME NEW w \in Worker, XgboostAnswers(w) PROVE VerdictInv'
    BY <2>3, AnsweredInv DEF XgboostAnswers
  <2>4. ASSUME NEW w \in Worker, LlmAnswers(w) PROVE VerdictInv'
    BY <2>4, AnsweredInv DEF LlmAnswers
  <2>5. CASE UNCHANGED vars
    BY <2>5 DEF vars, shared, locals, VerdictInv, TypeOK, LockInv, InferenceInv
  <2> QED
    BY <2>1, <2>2, <2>3, <2>4, <2>5, ArriveInv, InferInv, InsideInv, ReturnInv DEF Next
<1> QED
  BY InitVerdictInv, <1>1, PTL DEF Spec

\* The variables but for the history of addresses keep their types.
THEOREM ClassifierTypeCorrect == Spec => []TypeOK
BY VerdictInvariant, PTL DEF VerdictInv

\* A worker is given the engine and confidence of its own inference, from an engine that
\* may answer for the flow, and no threat below every threshold of that time.
THEOREM VerdictIsSound == Spec => []VerdictSound
<1>1. VerdictInv => VerdictSound
  BY DEF VerdictInv, InferenceInv, VerdictSound, Inferring
<1> QED
  BY VerdictInvariant, <1>1, PTL

-----------------------------------------------------------------------------
(* The history of addresses.                                                *)

\* Each address once, none spanning too much, no packet from too far ahead.
Orderly(c) ==
  /\ \A i, j \in 1..Len(c) : i # j => c[i].ip # c[j].ip
  /\ \A i \in 1..Len(c) : \A s, t \in c[i].stamps : s - t <= LongestSpan
  /\ \A i \in 1..Len(c) : \A s \in c[i].stamps : s <= now + Skew

\* What a worker knows of the time of its packet.
TimesInv ==
  \A w \in Worker :
    /\ pc[w] # "idle" => /\ job[w].since <= now
                         /\ job[w].ts \in (job[w].since - Skew)..(job[w].since + Skew)
    /\ pc[w] \in {"waiting", "xgboost", "heuristics"} => now - job[w].since <= Delay

\* While the language model is asked, the packet counted before is still there.
CountedInv ==
  \A w \in Worker : pc[w] = "llm" =>
    \E i \in 1..Len(ipHistory) : ipHistory[i].ip = job[w].ip /\ job[w].ts \in ipHistory[i].stamps

HistoryInv == /\ ipHistory \in Seq(History) /\ Len(ipHistory) <= MaxCache
              /\ Orderly(ipHistory)
              /\ TimesInv
              /\ CountedInv

\* The places below one of a set of places are no more than there are, and each place
\* has its own number of them: the numbers from 1 on, each once.
LEMMA Ranks ==
  ASSUME NEW n \in Nat, NEW I \in SUBSET (1..n)
  PROVE  /\ IsFiniteSet(I) /\ Cardinality(I) \in Nat /\ Cardinality(I) <= n
         /\ \A i \in I : Cardinality({j \in I : j <= i}) \in 1..Cardinality(I)
         /\ \A k \in 1..Cardinality(I) : \E i \in I : Cardinality({j \in I : j <= i}) = k
         /\ \A h, i \in I : Cardinality({j \in I : j <= h}) = Cardinality({j \in I : j <= i}) => h = i
<1> DEFINE Below(i) == {j \in I : j <= i}
           rank == [i \in I |-> Cardinality(Below(i))]
<1>1. IsFiniteSet(I) /\ Cardinality(I) \in Nat /\ Cardinality(I) <= n
  <2>1. IsFiniteSet(1..n) /\ Cardinality(1..n) = n
    BY FS_Interval
  <2> QED
    BY <2>1, FS_Subset, FS_CardinalityType
<1>2. ASSUME NEW i \in I
      PROVE  /\ IsFiniteSet(Below(i)) /\ Cardinality(Below(i)) \in 1..Cardinality(I)
  <2>1. Below(i) \subseteq I /\ i \in Below(i)
    OBVIOUS
  <2>2. IsFiniteSet(Below(i)) /\ Cardinality(Below(i)) <= Cardinality(I) /\ Cardinality(Below(i)) \in Nat
    BY <1>1, <2>1, FS_Subset, FS_CardinalityType
  <2>3. Cardinality(Below(i)) # 0
    BY <2>1, <2>2, FS_EmptySet
  <2> QED
    BY <1>1, <2>2, <2>3
<1>3. ASSUME NEW h \in I, NEW i \in I, h < i
      PROVE  Cardinality(Below(h)) # Cardinality(Below(i))
  <2>1. \A j \in I : j \in Int
    OBVIOUS
  <2>2. \A j \in I : j <= h => j <= i
    BY <1>3, <2>1
  <2>3. ~(i <= h) /\ i <= i
    BY <1>3, <2>1
  <2>4. Below(h) \subseteq Below(i) /\ i \in Below(i) /\ i \notin Below(h)
    BY <2>2, <2>3
  <2> QED
    BY <1>2, <2>4, FS_Subset
<1>4. ASSUME NEW h \in I, NEW i \in I, Cardinality(Below(h)) = Cardinality(Below(i))
      PROVE  h = i
  BY <1>3, <1>4
<1> HIDE DEF Below
<1>5. rank \in Surjection(I, 1..Cardinality(I))
  <2>1. rank \in Injection(I, 1..Cardinality(I))
    BY <1>2, <1>4 DEF Injection, IsInjective
  <2>2. IsFiniteSet(1..Cardinality(I)) /\ Cardinality(1..Cardinality(I)) = Cardinality(I)
    BY <1>1, FS_Interval
  <2> QED
    BY <2>1, <2>2, FS_Injection
<1>6. \A k \in 1..Cardinality(I) : \E i \in I : Cardinality(Below(i)) = k
  BY <1>5 DEF Surjection
<1> QED
  BY <1>1, <1>2, <1>4, <1>6 DEF Below

\* What is kept of a sequence: some of its entries, each once, the last one last.
LEMMA AtPlaces ==
  ASSUME NEW c \in Seq(History), NEW I \in SUBSET (1..Len(c))
  PROVE  /\ At(c, I) \in Seq(History) /\ Len(At(c, I)) = Cardinality(I)
         /\ Cardinality(I) \in Nat /\ Cardinality(I) <= Len(c)
         /\ \A k \in 1..Len(At(c, I)) : \E i \in I :
              At(c, I)[k] = c[i] /\ Cardinality({j \in I : j <= i}) = k
         /\ Len(c) \in I => Cardinality(I) > 0 /\ At(c, I)[Cardinality(I)] = c[Len(c)]
<1> DEFINE rank(i) == Cardinality({j \in I : j <= i})
           place(k) == CHOOSE i \in I : rank(i) = k
<1>1. Len(c) \in Nat
  BY LenProperties
<1>2. /\ Cardinality(I) \in Nat /\ Cardinality(I) <= Len(c)
      /\ \A i \in I : rank(i) \in 1..Cardinality(I)
      /\ \A k \in 1..Cardinality(I) : \E i \in I : rank(i) = k
      /\ \A h, i \in I : rank(h) = rank(i) => h = i
  BY <1>1, Ranks
<1>4. At(c, I) = [k \in 1..Cardinality(I) |-> c[place(k)]]
  BY DEF At
<1>8. Len(c) \in I => rank(Len(c)) = Cardinality(I)
  <2>1. \A j \in I : j <= Len(c)
    BY <1>1
  <2>2. {j \in I : j <= Len(c)} = I
    BY <2>1
  <2> QED
    BY <2>2
<1> HIDE DEF rank
<1>3. ASSUME NEW k \in 1..Cardinality(I)
      PROVE  place(k) \in I /\ rank(place(k)) = k
  <2>1. \E i \in I : rank(i) = k
    BY <1>2
  <2> QED
    BY <2>1
<1>5. ASSUME Len(c) \in I
      PROVE  Cardinality(I) \in 1..Cardinality(I) /\ place(Cardinality(I)) = Len(c)
  <2>1. Cardinality(I) \in 1..Cardinality(I)
    BY <1>2, <1>5, <1>8
  <2>2. place(Cardinality(I)) \in I /\ rank(place(Cardinality(I))) = rank(Len(c))
    BY <1>3, <1>5, <1>8, <2>1
  <2> QED
    BY <1>2, <1>5, <2>1, <2>2
<1> HIDE DEF place
<1>6. \A k \in 1..Cardinality(I) : c[place(k)] \in History
  BY <1>3, ElementOfSeq
<1>7. At(c, I) \in Seq(History) /\ Len(At(c, I)) = Cardinality(I)
  <2>1. At(c, I) \in [1..Cardinality(I) -> History]
    BY <1>4, <1>6
  <2>2. At(c, I) \in Seq(History)
    BY <1>2, <2>1, SeqDef
  <2> QED
    BY <1>2, <2>1, <2>2, LenProperties
<1>9. ASSUME NEW k \in 1..Len(At(c, I))
      PROVE  \E i \in I : At(c, I)[k] = c[i] /\ rank(i) = k
  BY <1>3, <1>4, <1>7, <1>9
<1>10. Len(c) \in I => Cardinality(I) > 0 /\ At(c, I)[Cardinality(I)] = c[Len(c)]
  BY <1>2, <1>4, <1>5
<1> QED
  BY <1>2, <1>7, <1>9, <1>10 DEF rank
\* Every entry of d is one of c, from a place of its own: what is in order stays so.
LEMMA PartOrderly ==
  ASSUME NEW c \in Seq(History), NEW d \in Seq(History), Orderly(c),
         NEW place \in [1..Len(d) -> 1..Len(c)],
         \A k \in 1..Len(d) : d[k] = c[place[k]],
         \A h, k \in 1..Len(d) : place[h] = place[k] => h = k
  PROVE  Orderly(d)
<1>1. \A k \in 1..Len(d) : place[k] \in 1..Len(c) /\ d[k] = c[place[k]]
  OBVIOUS
<1>2. ASSUME NEW h \in 1..Len(d), NEW k \in 1..Len(d), h # k
      PROVE  d[h].ip # d[k].ip
  <2>1. \A i, j \in 1..Len(c) : i # j => c[i].ip # c[j].ip
    BY DEF Orderly
  <2>2. place[h] # place[k]
    BY <1>2
  <2>3. c[place[h]].ip # c[place[k]].ip
    BY <1>1, <2>1, <2>2
  <2> QED
    BY <1>1, <2>3
<1>3. ASSUME NEW k \in 1..Len(d), NEW s \in d[k].stamps
      PROVE  s <= now + Skew /\ \A t \in d[k].stamps : s - t <= LongestSpan
  <2>1. place[k] \in 1..Len(c) /\ d[k].stamps = c[place[k]].stamps
    BY <1>1
  <2> QED
    BY <1>3, <2>1 DEF Orderly
<1> QED
  BY <1>2, <1>3 DEF Orderly

\* Of some of the places, each once.
LEMMA AtOrderly ==
  ASSUME NEW c \in Seq(History), NEW I \in SUBSET (1..Len(c)), Orderly(c)
  PROVE  Orderly(At(c, I))
<1> DEFINE d == At(c, I)
           from(k, i) == d[k] = c[i] /\ Cardinality({j \in I : j <= i}) = k
           place == [k \in 1..Len(d) |-> CHOOSE i \in I : from(k, i)]
<1>1. d \in Seq(History) /\ \A k \in 1..Len(d) : \E i \in I : from(k, i)
  BY AtPlaces
<1> HIDE DEF d
<1>2. ASSUME NEW k \in 1..Len(d)
      PROVE  place[k] \in I /\ from(k, place[k])
  <2>1. \E i \in I : from(k, i)
    BY <1>1
  <2>2. place[k] = CHOOSE i \in I : from(k, i)
    OBVIOUS
  <2> HIDE DEF from, place
  <2> QED
    BY <2>1, <2>2
<1>3. place \in [1..Len(d) -> 1..Len(c)]
  <2>1. \A k \in 1..Len(d) : place[k] \in 1..Len(c)
    BY <1>2
  <2> QED
    BY <2>1
<1>4. /\ \A k \in 1..Len(d) : d[k] = c[place[k]]
      /\ \A h, k \in 1..Len(d) : place[h] = place[k] => h = k
  <2> HIDE DEF place
  <2> QED
    BY <1>2
<1> HIDE DEF place
<1>5. Orderly(d)
  BY <1>1, <1>3, <1>4, PartOrderly
<1> QED
  BY <1>5 DEF d

\* Of the newest.
LEMMA NewestOrderly ==
  ASSUME NEW c \in Seq(History), NEW n \in 1..Len(c), Orderly(c)
  PROVE  LET d == SubSeq(c, Len(c) - n + 1, Len(c)) IN
         /\ d \in Seq(History) /\ Len(d) = n /\ Orderly(d) /\ d[n] = c[Len(c)]
<1> DEFINE m == Len(c) - n + 1
           d == SubSeq(c, m, Len(c))
           place == [k \in 1..n |-> m + k - 1]
<1>1. Len(c) \in Nat /\ m \in 1..Len(c) /\ n \in Nat
  BY LenProperties
<1>2. \A i \in m..Len(c) : c[i] \in History
  BY <1>1, ElementOfSeq
<1>3. d \in Seq(History) /\ Len(d) = n /\ \A k \in 1..n : d[k] = c[m + k - 1]
  BY <1>1, <1>2, SubSeqProperties
<1>4. place \in [1..Len(d) -> 1..Len(c)]
  <2>1. \A k \in 1..n : m + k - 1 \in 1..Len(c)
    BY <1>1
  <2> QED
    BY <1>3, <2>1
<1>5. \A k \in 1..Len(d) : d[k] = c[place[k]]
  BY <1>3
<1>6. \A h, k \in 1..Len(d) : place[h] = place[k] => h = k
  BY <1>1, <1>3
<1>7. d[n] = c[Len(c)]
  <2>1. n \in 1..n /\ m + n - 1 = Len(c)
    BY <1>1
  <2> QED
    BY <1>3, <2>1
<1> HIDE DEF d, place
<1>8. Orderly(d)
  BY <1>3, <1>4, <1>5, <1>6, PartOrderly
<1> QED
  BY <1>3, <1>7, <1>8 DEF d

\* A packet is counted with those of its address in the window, and no other address
\* comes before it that was not there; a new address comes last.
LEMMA RecordedPacket ==
  ASSUME NEW c \in Seq(History), Len(c) <= MaxCache, Orderly(c), now \in 0..MaxTime,
         NEW ip \in Address, NEW ts \in Time, ts <= now + Skew, now - ts <= Delay + Skew
  PROVE  LET d == Recorded(c, ip, ts) IN
         /\ d \in Seq(History) /\ Len(d) <= MaxCache + 1 /\ Orderly(d)
         /\ \E i \in 1..Len(d) : /\ d[i].ip = ip /\ ts \in d[i].stamps /\ d[i].last = ts
                                 /\ Len(d) > MaxCache => i = Len(d)
<1> DEFINE d == Recorded(c, ip, ts)
           P == /\ d \in Seq(History) /\ Len(d) <= MaxCache + 1 /\ Orderly(d)
                /\ \E i \in 1..Len(d) : /\ d[i].ip = ip /\ ts \in d[i].stamps /\ d[i].last = ts
                                        /\ Len(d) > MaxCache => i = Len(d)
<1> SUFFICES P
  OBVIOUS
<1> USE ClassifierAssumption
<1>1. Len(c) \in Nat /\ \A i \in 1..Len(c) : c[i] \in History
  BY LenProperties, ElementOfSeq
<1>2. \A i \in 1..Len(c) : /\ c[i].ip \in Address /\ c[i].stamps \in SUBSET Time /\ c[i].last \in Time
                           /\ c[i] = [ip |-> c[i].ip, stamps |-> c[i].stamps, last |-> c[i].last]
  BY <1>1 DEF History
<1>3. ts \in Int /\ now \in Int /\ Time \subseteq Int
  BY DEF Time
<1>4. LongestSpan \in Nat /\ Window <= LongestSpan /\ 2 * Skew + Delay <= LongestSpan
  BY DEF LongestSpan
<1>5. CASE \E i \in 1..Len(c) : c[i].ip = ip
  <2> DEFINE counted(i) == [ip |-> ip, stamps |-> Pruned(c[i].stamps \cup {ts}, ts), last |-> ts]
  <2>1. d = [i \in 1..Len(c) |-> IF c[i].ip = ip THEN counted(i) ELSE c[i]]
    BY <1>5 DEF Recorded
  <2>2. \A i \in 1..Len(c) : /\ counted(i) \in History
                             /\ ts \in Pruned(c[i].stamps \cup {ts}, ts)
    <3>1. ts >= ts - Window
      BY <1>3
    <3> QED
      BY <1>2, <3>1 DEF History, Pruned
  <2>3. d \in Seq(History) /\ Len(d) = Len(c)
    <3>1. d \in [1..Len(c) -> History]
      BY <1>1, <2>1, <2>2
    <3>2. d \in Seq(History)
      BY <1>1, <3>1, SeqDef
    <3> QED
      BY <1>1, <3>1, <3>2, LenProperties
  <2>4. \A i \in 1..Len(c) : d[i].ip = c[i].ip
    BY <2>1
  <2>5. ASSUME NEW i \in 1..Len(c), c[i].ip = ip, NEW s \in Pruned(c[i].stamps \cup {ts}, ts)
        PROVE  s \in Int /\ s <= now + Skew /\ ts - Window <= s
    <3>1. s \in Time /\ ts - Window <= s
      BY <1>2, <2>5 DEF Pruned
    <3>2. s \in c[i].stamps \/ s = ts
      BY <2>5 DEF Pruned
    <3> QED
      BY <1>3, <3>1, <3>2 DEF Orderly
  <2>6. ASSUME NEW i \in 1..Len(c), c[i].ip = ip,
               NEW s \in Pruned(c[i].stamps \cup {ts}, ts), NEW t \in Pruned(c[i].stamps \cup {ts}, ts)
        PROVE  s - t <= LongestSpan
    <3>1. s \in Int /\ s <= now + Skew /\ t \in Int /\ ts - Window <= t
      BY <2>5, <2>6
    <3>2. CASE s = ts
      BY <1>3, <1>4, <3>1, <3>2
    <3>3. CASE t = ts
      BY <1>3, <1>4, <3>1, <3>3
    <3>4. CASE s # ts /\ t # ts
      BY <3>4 DEF Pruned, Orderly
    <3> QED
      BY <3>2, <3>3, <3>4
  <2>7. \A i \in 1..Len(c) : IF c[i].ip = ip THEN d[i].stamps = Pruned(c[i].stamps \cup {ts}, ts) /\ d[i].last = ts
                                             ELSE d[i] = c[i]
    BY <2>1
  <2> HIDE DEF d
  <2>8. Orderly(d)
    <3>1. \A i, j \in 1..Len(c) : i # j => d[i].ip # d[j].ip
      BY <2>4 DEF Orderly
    <3>2. ASSUME NEW i \in 1..Len(c), NEW s \in d[i].stamps
          PROVE  s <= now + Skew /\ \A t \in d[i].stamps : s - t <= LongestSpan
      BY <3>2, <2>5, <2>6, <2>7 DEF Orderly
    <3> QED
      BY <2>3, <3>1, <3>2 DEF Orderly
  <2>9. \E i \in 1..Len(d) : d[i].ip = ip /\ ts \in d[i].stamps /\ d[i].last = ts
    BY <1>5, <2>2, <2>3, <2>4, <2>7
  <2>10. Len(d) <= MaxCache
    BY <2>3
  <2>11. ~(Len(d) > MaxCache) /\ Len(d) <= MaxCache + 1
    BY <1>1, <2>3, <2>10
  <2> QED
    BY <2>3, <2>8, <2>9, <2>11
<1>6. CASE ~ \E i \in 1..Len(c) : c[i].ip = ip
  <2> DEFINE e == [ip |-> ip, stamps |-> {ts}, last |-> ts]
  <2>1. d = Append(c, e) /\ e \in History
    BY <1>6 DEF Recorded, History
  <2>2. /\ d \in Seq(History) /\ Len(d) = Len(c) + 1
        /\ \A i \in 1..Len(c) : d[i] = c[i]
        /\ d[Len(c) + 1] = e
    BY <2>1, AppendProperties
  <2> HIDE DEF d
  <2>3. \A i \in 1..Len(d) : i \in 1..Len(c) \/ i = Len(c) + 1
    BY <1>1, <2>2
  <2>4. Orderly(d)
    <3>1. \A i, j \in 1..Len(d) : i # j => d[i].ip # d[j].ip
      BY <1>6, <2>2, <2>3, SMTT(30) DEF Orderly
    <3>2. ts - ts <= LongestSpan
      BY <1>3, <1>4
    <3>3. ASSUME NEW i \in 1..Len(d), NEW s \in d[i].stamps
          PROVE  s <= now + Skew /\ \A t \in d[i].stamps : s - t <= LongestSpan
      BY <2>2, <2>3, <3>2 DEF Orderly
    <3> QED
      BY <3>1, <3>3 DEF Orderly
  <2>5. Len(d) \in 1..Len(d) /\ d[Len(d)] = e
    BY <1>1, <2>2
  <2>6. d[Len(d)].ip = ip /\ ts \in d[Len(d)].stamps /\ d[Len(d)].last = ts
    BY <2>5
  <2>7. Len(d) <= MaxCache + 1
    BY <1>1, <2>2
  <2> QED
    BY <2>2, <2>4, <2>5, <2>6, <2>7
<1> QED
  BY <1>5, <1>6
\* A trimming keeps to the cap and to the order, and what was counted for it.
LEMMA TrimmedKeeps ==
  ASSUME NEW d \in Seq(History), Len(d) <= MaxCache + 1, Orderly(d),
         NEW ip \in Address, NEW ts \in Time,
         NEW i \in 1..Len(d), d[i].ip = ip, ts \in d[i].stamps, d[i].last = ts,
         Len(d) > MaxCache => i = Len(d)
  PROVE  LET t == Trimmed(d, ts) IN
         /\ t \in Seq(History) /\ Len(t) <= MaxCache /\ Orderly(t)
         /\ \E k \in 1..Len(t) : t[k].ip = ip /\ ts \in t[k].stamps
<1> DEFINE t == Trimmed(d, ts)
           P == /\ t \in Seq(History) /\ Len(t) <= MaxCache /\ Orderly(t)
                /\ \E k \in 1..Len(t) : t[k].ip = ip /\ ts \in t[k].stamps
<1> SUFFICES P
  OBVIOUS
<1> USE ClassifierAssumption
<1>1. Len(d) \in Nat
  BY LenProperties
<1>2. CASE Len(d) <= MaxCache
  BY <1>2 DEF Trimmed
<1>3. CASE ~(Len(d) <= MaxCache)
  <2> DEFINE I == {j \in 1..Len(d) : ts - d[j].last <= Window}
             f == Fresh(d, ts)
             n == Len(f)
  <2>1. i = Len(d) /\ Len(d) \in I
    <3>1. i = Len(d)
      BY <1>1, <1>3
    <3>2. ts - ts <= Window
      BY DEF Time
    <3> QED
      BY <3>1, <3>2
  <2>2. /\ f \in Seq(History) /\ n \in Nat /\ n > 0
        /\ Orderly(f) /\ f[n] = d[Len(d)]
    <3>1. f = At(d, I) /\ I \in SUBSET (1..Len(d))
      BY DEF Fresh
    <3> HIDE DEF f, I
    <3> QED
      BY <2>1, <3>1, AtPlaces, AtOrderly
  <2>3. f[n].ip = ip /\ ts \in f[n].stamps
    BY <2>1, <2>2
  <2>4. CASE n <= MaxCache
    <3>1. t = f
      BY <1>3, <2>4 DEF Trimmed
    <3> HIDE DEF t, f
    <3> QED
      BY <2>2, <2>3, <2>4, <3>1
  <2>5. CASE ~(n <= MaxCache)
    <3>1. t = SubSeq(f, n - Kept + 1, n)
      BY <1>3, <2>5 DEF Trimmed
    <3>2. Kept \in 1..n
      BY <2>2, <2>5
    <3> HIDE DEF t, f
    <3>3. t \in Seq(History) /\ Len(t) = Kept /\ Orderly(t) /\ t[Kept] = f[n]
      BY <2>2, <3>1, <3>2, NewestOrderly
    <3> QED
      BY <2>3, <3>2, <3>3
  <2> QED
    BY <2>4, <2>5
<1> QED
  BY <1>2, <1>3
LEMMA InitHistoryInv == Init => HistoryInv
<1> SUFFICES ASSUME Init PROVE HistoryInv
  OBVIOUS
<1>1. ipHistory \in Seq(History) /\ Len(ipHistory) = 0
  BY EmptySeq DEF Init
<1>2. Orderly(ipHistory)
  BY <1>1 DEF Orderly
<1>3. TimesInv /\ CountedInv
  BY DEF Init, TimesInv, CountedInv
<1> QED
  BY <1>1, <1>2, <1>3, ClassifierAssumption DEF HistoryInv

\* A step of one worker that does not touch the history: it may go on only with the
\* packet it had, and not into the language model.
LEMMA QuietStep ==
  ASSUME VerdictInv, HistoryInv, UNCHANGED <<now, ipHistory>>,
         \A w \in Worker : \/ pc'[w] = pc[w] /\ job'[w] = job[w]
                           \/ /\ pc[w] # "idle" /\ job'[w] = job[w]
                              /\ pc'[w] # "llm" /\ pc'[w] \in Inferring
                              /\ pc'[w] \in {"xgboost", "heuristics"} =>
                                   pc[w] \in {"waiting", "xgboost", "heuristics"}
                           \/ pc'[w] = "idle"
  PROVE  HistoryInv'
<1>1. TimesInv'
  BY DEF HistoryInv, TimesInv, Inferring
<1>2. CountedInv'
  BY DEF HistoryInv, CountedInv
<1>3. Orderly(ipHistory)'
  BY DEF HistoryInv, Orderly
<1> QED
  BY <1>1, <1>2, <1>3 DEF HistoryInv

\* A packet of trusted time starts to wait.
LEMMA ArriveHistory ==
  ASSUME VerdictInv, HistoryInv, NEW w \in Worker, Arrive(w)
  PROVE  HistoryInv'
<1>1. PICK ip \in Address, ts \in (now - Skew)..(now + Skew), enough \in BOOLEAN :
        job' = [job EXCEPT ![w] = [ip |-> ip, ts |-> ts, enough |-> enough, since |-> now]]
  BY DEF Arrive
<1>2. pc \in [Worker -> {"idle", "waiting"} \cup Inferring] /\ job \in [Worker -> Job \cup {Nobody}]
      /\ now \in Nat
  BY ClassifierAssumption DEF VerdictInv, TypeOK
<1>3. \A v \in Worker : v # w => pc'[v] = pc[v] /\ job'[v] = job[v]
  BY <1>1, <1>2 DEF Arrive
<1>4. pc'[w] = "waiting" /\ job'[w].since = now /\ job'[w].ts = ts /\ now' = now /\ ipHistory' = ipHistory
  BY <1>1, <1>2 DEF Arrive
<1>5. TimesInv'
  <2>1. now <= now /\ now - now <= Delay
    BY <1>2, ClassifierAssumption
  <2>2. ts \in (now - Skew)..(now + Skew)
    OBVIOUS
  <2> QED
    BY <1>3, <1>4, <2>1, <2>2 DEF HistoryInv, TimesInv
<1>6. CountedInv'
  BY <1>3, <1>4 DEF HistoryInv, CountedInv
<1>7. Orderly(ipHistory)'
  BY <1>4 DEF HistoryInv, Orderly
<1> QED
  BY <1>4, <1>5, <1>6, <1>7 DEF HistoryInv

\* The clock goes on: no wait gets too long, and nobody is about to count a packet.
LEMMA TickHistory ==
  ASSUME VerdictInv, HistoryInv, Tick
  PROVE  HistoryInv'
<1> USE ClassifierAssumption
<1>1. now \in Nat /\ now' = now + 1 /\ UNCHANGED <<ipHistory, pc, job>>
  BY DEF Tick, VerdictInv, TypeOK, locals
<1>2. ASSUME NEW w \in Worker, pc[w] # "idle"
      PROVE  job[w].since \in Nat
  BY <1>2 DEF VerdictInv, TypeOK, Job
<1>3. TimesInv'
  <2>1. ASSUME NEW w \in Worker, pc[w] # "idle"
        PROVE  /\ job[w].since <= now + 1
               /\ job[w].ts \in (job[w].since - Skew)..(job[w].since + Skew)
    BY <1>1, <1>2, <2>1 DEF HistoryInv, TimesInv
  <2>2. ASSUME NEW w \in Worker, pc[w] \in {"waiting", "xgboost", "heuristics"}
        PROVE  now + 1 - job[w].since <= Delay
    <3>1. pc[w] = "waiting" /\ now - job[w].since < Delay
      BY <2>2 DEF Tick
    <3> QED
      BY <1>1, <1>2, <3>1
  <2>3. pc' = pc /\ job' = job /\ now' = now + 1
    BY <1>1
  <2>4. ASSUME NEW w \in Worker, pc'[w] # "idle"
        PROVE  /\ job'[w].since <= now'
               /\ job'[w].ts \in (job'[w].since - Skew)..(job'[w].since + Skew)
    <3>1. pc[w] # "idle"
      BY <2>3, <2>4
    <3> QED
      BY <2>1, <2>3, <3>1
  <2>5. ASSUME NEW w \in Worker, pc'[w] \in {"waiting", "xgboost", "heuristics"}
        PROVE  now' - job'[w].since <= Delay
    <3>1. pc[w] \in {"waiting", "xgboost", "heuristics"} /\ job[w].since \in Nat
      BY <1>2, <2>3, <2>5
    <3>2. now + 1 - job[w].since <= Delay
      BY <2>2, <3>1
    <3> QED
      BY <1>1, <2>3, <3>1, <3>2
  <2> QED
    BY <2>4, <2>5 DEF TimesInv
<1>4. CountedInv'
  BY <1>1 DEF HistoryInv, CountedInv
<1>5. Orderly(ipHistory)'
  <2>1. ASSUME NEW i \in 1..Len(ipHistory), NEW s \in ipHistory[i].stamps
        PROVE  s \in Int /\ s <= now + Skew
    <3>1. ipHistory[i] \in History
      BY ElementOfSeq DEF HistoryInv
    <3> QED
      BY <3>1 DEF History, Time, HistoryInv, Orderly
  <2>2. \A i \in 1..Len(ipHistory) : \A s \in ipHistory[i].stamps : s <= now + 1 + Skew
    BY <1>1, <2>1
  <2> QED
    BY <1>1, <2>2 DEF HistoryInv, Orderly
<1> QED
  BY <1>1, <1>3, <1>4, <1>5 DEF HistoryInv

\* The rules count the packet; nobody else is inside to miss one that went.
LEMMA HeuristicsHistory ==
  ASSUME VerdictInv, HistoryInv, NEW w \in Worker, Heuristics(w)
  PROVE  HistoryInv'
<1> DEFINE ip == job[w].ip
           ts == job[w].ts
           d == Recorded(ipHistory, ip, ts)
<1> USE ClassifierAssumption
<1>1. job[w] \in Job /\ now \in 0..MaxTime
  BY DEF VerdictInv, TypeOK, Heuristics
<1>2. ip \in Address /\ ts \in Time /\ ts <= now + Skew /\ now - ts <= Delay + Skew
  <2>1. ip \in Address /\ ts \in Time /\ job[w].since \in 0..MaxTime
    BY <1>1 DEF Job
  <2>2. /\ job[w].since <= now /\ now - job[w].since <= Delay
        /\ ts \in (job[w].since - Skew)..(job[w].since + Skew)
    BY DEF HistoryInv, TimesInv, Heuristics
  <2> QED
    BY <1>1, <2>1, <2>2
<1>3. ipHistory' = Trimmed(d, ts) /\ now' = now /\ job' = job
  BY DEF Heuristics
<1>4. \A v \in Worker : v # w => pc'[v] = pc[v] /\ pc[v] \notin Inferring
  BY DEF Heuristics, Goto, VerdictInv, TypeOK, LockInv, Inferring
<1>5. pc'[w] \in {"llm", "return"}
  BY DEF Heuristics, Goto, VerdictInv, TypeOK
<1> HIDE DEF ip, ts
<1>6. /\ d \in Seq(History) /\ Len(d) <= MaxCache + 1 /\ Orderly(d)
      /\ \E i \in 1..Len(d) : /\ d[i].ip = ip /\ ts \in d[i].stamps /\ d[i].last = ts
                              /\ Len(d) > MaxCache => i = Len(d)
  <2>1. ipHistory \in Seq(History) /\ Len(ipHistory) <= MaxCache /\ Orderly(ipHistory)
    BY DEF HistoryInv
  <2> QED
    BY <1>1, <1>2, <2>1, RecordedPacket
<1> HIDE DEF d
<1>7. /\ ipHistory' \in Seq(History) /\ Len(ipHistory') <= MaxCache /\ Orderly(ipHistory')
      /\ \E k \in 1..Len(ipHistory') : ipHistory'[k].ip = ip /\ ts \in ipHistory'[k].stamps
  <2>1. PICK i \in 1..Len(d) : /\ d[i].ip = ip /\ ts \in d[i].stamps /\ d[i].last = ts
                               /\ Len(d) > MaxCache => i = Len(d)
    BY <1>6
  <2> QED
    BY <1>2, <1>3, <1>6, <2>1, TrimmedKeeps
<1>8. Orderly(ipHistory)'
  BY <1>3, <1>7 DEF Orderly
<1>9. TimesInv'
  BY <1>3, <1>4, <1>5 DEF HistoryInv, TimesInv, Heuristics
<1>10. CountedInv'
  BY <1>3, <1>4, <1>7 DEF CountedInv, Inferring, ip, ts
<1> QED
  BY <1>7, <1>8, <1>9, <1>10 DEF HistoryInv

\* The history of addresses stays within its cap and in order, and the packet that
\* caused a trimming survives it.
THEOREM HistoryIsSound == Spec => []HistorySound
<1>1. VerdictInv /\ HistoryInv /\ [Next]_vars => HistoryInv'
  <2> SUFFICES ASSUME VerdictInv, HistoryInv, [Next]_vars PROVE HistoryInv'
    OBVIOUS
  <2>1. CASE \E t \in Confidence : SetThreshold(t)
    BY <2>1, QuietStep DEF SetThreshold, locals
  <2>2. ASSUME NEW w \in Worker,
               \/ Infer(w) \/ XgboostAnswers(w) \/ XgboostFails(w)
               \/ LlmAnswers(w) \/ LlmFails(w) \/ Return(w)
        PROVE  HistoryInv'
    <3>1. UNCHANGED <<now, ipHistory>>
      BY <2>2 DEF Infer, XgboostAnswers, XgboostFails, LlmAnswers, LlmFails, Return, Answered
    <3>2. pc \in [Worker -> {"idle", "waiting"} \cup Inferring]
          /\ job \in [Worker -> Job \cup {Nobody}]
      BY DEF VerdictInv, TypeOK
    <3>3. \A v \in Worker : v # w => pc'[v] = pc[v] /\ job'[v] = job[v]
      BY <2>2, <3>2 DEF Infer, XgboostAnswers, XgboostFails, LlmAnswers, LlmFails, Return,
                        Answered, Goto
    <3>4. \/ pc'[w] = "idle"
          \/ /\ pc[w] # "idle" /\ job'[w] = job[w]
             /\ pc'[w] # "llm" /\ pc'[w] \in Inferring
             /\ pc'[w] \in {"xgboost", "heuristics"} => pc[w] \in {"waiting", "xgboost", "heuristics"}
      BY <2>2, <3>2 DEF Infer, XgboostAnswers, XgboostFails, LlmAnswers, LlmFails, Return,
                        Answered, Goto, Inferring
    <3> QED
      BY <3>1, <3>3, <3>4, QuietStep
  <2>3. CASE UNCHANGED vars
    BY <2>3, QuietStep DEF vars, locals
  <2> QED
    BY <2>1, <2>2, <2>3, ArriveHistory, TickHistory, HeuristicsHistory DEF Next
<1>2. HistoryInv => HistorySound
  BY DEF HistoryInv, HistorySound, Orderly, CountedInv
<1> QED
  BY VerdictInvariant, InitHistoryInv, <1>1, <1>2, PTL DEF Spec
=============================================================================
