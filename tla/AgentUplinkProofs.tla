-------------------------- MODULE AgentUplinkProofs --------------------------
(***************************************************************************)
(* What holds of AgentUplink for every size of its batches, of its buffer  *)
(* and of its offline file.                                                *)
(***************************************************************************)
EXTENDS AgentUplink, SequenceTheorems, TLAPS

-----------------------------------------------------------------------------
(* Sequences of packets.                                                    *)

\* The packets of a sequence.
LEMMA Packets ==
  ASSUME NEW s \in Seq(Packet)
  PROVE  /\ Len(s) \in Nat
         /\ ToSet(s) = {s[i] : i \in 1..Len(s)}
         /\ ToSet(s) \subseteq Packet
         /\ \A i \in 1..Len(s) : s[i] \in Int
<1>1. Len(s) \in Nat /\ DOMAIN s = 1..Len(s)
  BY LenProperties
<1>2. \A i \in 1..Len(s) : s[i] \in Packet
  BY ElementOfSeq
<1>3. ToSet(s) = {s[i] : i \in 1..Len(s)}
  BY <1>1 DEF ToSet
<1> QED
  BY <1>1, <1>2, <1>3 DEF Packet

\* No packet, and one.
LEMMA Smallest ==
  /\ <<>> \in Seq(Packet) /\ ToSet(<<>>) = {} /\ Ascending(<<>>)
  /\ \A p \in Packet : <<p>> \in Seq(Packet) /\ ToSet(<<p>>) = {p} /\ Ascending(<<p>>)
BY DEF ToSet, Ascending, Packet

\* A part of a sequence has some of its packets, in the same order.
LEMMA Part ==
  ASSUME NEW s \in Seq(Packet), NEW m \in Nat \ {0}, NEW n \in 0..Len(s)
  PROVE  /\ SubSeq(s, m, n) \in Seq(Packet)
         /\ Len(SubSeq(s, m, n)) = IF m <= n THEN n - m + 1 ELSE 0
         /\ ToSet(SubSeq(s, m, n)) = {s[i] : i \in m..n}
         /\ ToSet(SubSeq(s, m, n)) \subseteq ToSet(s)
         /\ Ascending(s) => Ascending(SubSeq(s, m, n))
<1> DEFINE t == SubSeq(s, m, n)
<1>1. Len(s) \in Nat /\ \A i \in m..n : s[i] \in Packet
  BY LenProperties, ElementOfSeq
<1>2. /\ t \in Seq(Packet)
      /\ Len(t) = IF m <= n THEN n - m + 1 ELSE 0
      /\ \A i \in 1..n - m + 1 : t[i] = s[m + i - 1]
  BY <1>1, SubSeqProperties
<1>3. 1..Len(t) = 1..n - m + 1 /\ \A i \in 1..Len(t) : t[i] = s[m + i - 1]
  BY <1>1, <1>2
<1> HIDE DEF t
<1>4. ToSet(t) = {s[i] : i \in m..n}
  <2>1. ASSUME NEW i \in m..n PROVE s[i] \in ToSet(t)
    <3>1. i - m + 1 \in 1..Len(t) /\ t[i - m + 1] = s[m + (i - m + 1) - 1]
      BY <1>1, <1>3
    <3>2. m + (i - m + 1) - 1 = i
      BY <1>1
    <3> QED
      BY <1>2, <3>1, <3>2, Packets
  <2>2. ASSUME NEW j \in 1..Len(t) PROVE \E i \in m..n : t[j] = s[i]
    BY <1>1, <1>3
  <2>3. ToSet(t) = {t[j] : j \in 1..Len(t)}
    BY <1>2, Packets
  <2> QED
    BY <2>1, <2>2, <2>3, ZenonT(30)
<1>5. ToSet(t) \subseteq ToSet(s)
  BY <1>1, <1>4, Packets
<1>6. ASSUME Ascending(s) PROVE Ascending(t)
  <2> SUFFICES ASSUME NEW i \in 1..Len(t), NEW j \in 1..Len(t), i < j PROVE t[i] < t[j]
    BY DEF Ascending
  <2>1. m + i - 1 \in 1..Len(s) /\ m + j - 1 \in 1..Len(s) /\ m + i - 1 < m + j - 1
    BY <1>1, <1>3
  <2> QED
    BY <1>3, <1>6, <2>1 DEF Ascending
<1> QED
  BY <1>2, <1>4, <1>5, <1>6 DEF t

\* One sequence in front of another.
LEMMA Joined ==
  ASSUME NEW s \in Seq(Packet), NEW t \in Seq(Packet)
  PROVE  /\ s \o t \in Seq(Packet)
         /\ ToSet(s \o t) = ToSet(s) \cup ToSet(t)
         /\ Ascending(s \o t) <=> Ascending(s) /\ Ascending(t) /\ Before(s, t)
<1> DEFINE u == s \o t
<1>1. /\ u \in Seq(Packet) /\ Len(u) = Len(s) + Len(t)
      /\ \A i \in 1..Len(s) + Len(t) : u[i] = IF i <= Len(s) THEN s[i] ELSE t[i - Len(s)]
      /\ Len(s) \in Nat /\ Len(t) \in Nat
  BY ConcatProperties, LenProperties
<1>2. /\ \A i \in 1..Len(s) : i \in 1..Len(u) /\ u[i] = s[i]
      /\ \A i \in 1..Len(t) : Len(s) + i \in 1..Len(u) /\ u[Len(s) + i] = t[i]
  BY <1>1
<1> HIDE DEF u
<1>3. ToSet(u) = ToSet(s) \cup ToSet(t)
  <2>1. /\ ToSet(u) = {u[i] : i \in 1..Len(u)}
        /\ ToSet(s) = {s[i] : i \in 1..Len(s)}
        /\ ToSet(t) = {t[i] : i \in 1..Len(t)}
    BY <1>1, Packets
  <2>2. ASSUME NEW i \in 1..Len(u) PROVE u[i] \in ToSet(s) \cup ToSet(t)
    <3>1. CASE i <= Len(s)
      BY <1>1, <2>1, <3>1
    <3>2. CASE ~(i <= Len(s))
      <4>1. i - Len(s) \in 1..Len(t) /\ u[i] = t[i - Len(s)]
        BY <1>1, <3>2
      <4> QED
        BY <2>1, <4>1
    <3> QED
      BY <3>1, <3>2
  <2> QED
    BY <1>2, <2>1, <2>2
<1>4. ASSUME Ascending(u) PROVE Ascending(s) /\ Ascending(t) /\ Before(s, t)
  <2>1. Ascending(s)
    BY <1>1, <1>2, <1>4 DEF Ascending
  <2>2. Ascending(t)
    <3> SUFFICES ASSUME NEW i \in 1..Len(t), NEW j \in 1..Len(t), i < j PROVE t[i] < t[j]
      BY DEF Ascending
    <3>1. Len(s) + i < Len(s) + j
      BY <1>1
    <3> QED
      BY <1>2, <1>4, <3>1 DEF Ascending
  <2>3. Before(s, t)
    <3> SUFFICES ASSUME NEW i \in 1..Len(s), NEW j \in 1..Len(t) PROVE s[i] < t[j]
      BY Packets DEF Before
    <3>1. i < Len(s) + j
      BY <1>1
    <3> QED
      BY <1>2, <1>4, <3>1 DEF Ascending
  <2> QED
    BY <2>1, <2>2, <2>3
<1>5. ASSUME Ascending(s), Ascending(t), Before(s, t) PROVE Ascending(u)
  <2> SUFFICES ASSUME NEW i \in 1..Len(u), NEW j \in 1..Len(u), i < j PROVE u[i] < u[j]
    BY DEF Ascending
  <2>1. CASE j <= Len(s)
    BY <1>1, <1>2, <1>5, <2>1 DEF Ascending
  <2>2. CASE i <= Len(s) /\ ~(j <= Len(s))
    <3>1. /\ i \in 1..Len(s) /\ u[i] = s[i]
          /\ j - Len(s) \in 1..Len(t) /\ u[j] = t[j - Len(s)]
      BY <1>1, <2>2
    <3>2. s[i] \in ToSet(s) /\ t[j - Len(s)] \in ToSet(t)
      BY <3>1, Packets
    <3> QED
      BY <1>5, <3>1, <3>2 DEF Before
  <2>3. CASE ~(i <= Len(s))
    <3>1. /\ i - Len(s) \in 1..Len(t) /\ u[i] = t[i - Len(s)]
          /\ j - Len(s) \in 1..Len(t) /\ u[j] = t[j - Len(s)]
          /\ i - Len(s) < j - Len(s)
      BY <1>1, <2>3
    <3> QED
      BY <1>5, <3>1 DEF Ascending
  <2> QED
    BY <1>1, <2>1, <2>2, <2>3
<1> QED
  BY <1>1, <1>3, <1>4, <1>5 DEF u

\* A packet captured after all those of a sequence goes to its end.
LEMMA Appended ==
  ASSUME NEW s \in Seq(Packet), NEW p \in Packet
  PROVE  /\ Append(s, p) \in Seq(Packet)
         /\ ToSet(Append(s, p)) = ToSet(s) \cup {p}
         /\ Ascending(s) /\ (\A q \in ToSet(s) : q < p) => Ascending(Append(s, p))
         /\ Len(Append(s, p)) > 0 /\ Append(s, p)[Len(Append(s, p))] = p
<1> DEFINE t == <<p>>
<1>1. Append(s, p) = s \o t
  BY AppendIsConcat
<1>2. t \in Seq(Packet) /\ ToSet(t) = {p} /\ Ascending(t)
  BY Smallest
<1> HIDE DEF t
<1>3. Before(s, t) <=> \A q \in ToSet(s) : q < p
  BY <1>2 DEF Before
<1>4. Len(Append(s, p)) > 0 /\ Append(s, p)[Len(Append(s, p))] = p
  BY AppendProperties, LenProperties
<1> QED
  BY <1>1, <1>2, <1>3, <1>4, Joined

\* A full deque, or a full file, gives up the oldest packets.
LEMMA NewestPart ==
  ASSUME NEW s \in Seq(Packet), NEW n \in Nat
  PROVE  /\ Newest(s, n) \in Seq(Packet)
         /\ Len(Newest(s, n)) <= n
         /\ ToSet(Newest(s, n)) \subseteq ToSet(s)
         /\ Ascending(s) => Ascending(Newest(s, n))
         /\ n > 0 /\ Len(s) > 0 => s[Len(s)] \in ToSet(Newest(s, n))
<1>1. Len(s) \in Nat
  BY LenProperties
<1>2. CASE Len(s) <= n
  BY <1>1, <1>2, Packets DEF Newest
<1>3. CASE ~(Len(s) <= n)
  <2>1. Newest(s, n) = SubSeq(s, Len(s) - n + 1, Len(s)) /\ Len(s) - n + 1 \in Nat \ {0}
    BY <1>1, <1>3 DEF Newest
  <2>2. ToSet(SubSeq(s, Len(s) - n + 1, Len(s))) = {s[i] : i \in (Len(s) - n + 1)..Len(s)}
    BY <1>1, <1>3, <2>1, Part
  <2>3. n > 0 => Len(s) \in (Len(s) - n + 1)..Len(s)
    BY <1>1
  <2> QED
    BY <1>1, <1>3, <2>1, <2>2, <2>3, Part
<1> QED
  BY <1>2, <1>3

\* An upload takes the oldest packets and leaves the rest; no packet is in both.
LEMMA OldestAndRest ==
  ASSUME NEW s \in Seq(Packet), NEW n \in Nat
  PROVE  /\ Rest(s, n) \in Seq(Packet)
         /\ ToSet(Oldest(s, n)) \cup ToSet(Rest(s, n)) = ToSet(s)
         /\ Ascending(s) => /\ Ascending(Rest(s, n))
                            /\ ToSet(Oldest(s, n)) \cap ToSet(Rest(s, n)) = {}
<1>1. /\ Len(s) \in Nat /\ MinOf(n, Len(s)) \in 0..Len(s)
      /\ 1..Len(s) = 1..MinOf(n, Len(s)) \cup (n + 1)..Len(s)
      /\ \A i \in 1..MinOf(n, Len(s)), j \in (n + 1)..Len(s) :
           i \in 1..Len(s) /\ j \in 1..Len(s) /\ i < j
  BY LenProperties DEF MinOf
<1>2. ToSet(s) = {s[i] : i \in 1..Len(s)} /\ \A i \in 1..Len(s) : s[i] \in Int
  BY Packets
<1>3. ToSet(Oldest(s, n)) = {s[i] : i \in 1..MinOf(n, Len(s))}
  BY <1>1, Part DEF Oldest
<1>4. /\ Rest(s, n) \in Seq(Packet) /\ ToSet(Rest(s, n)) = {s[i] : i \in (n + 1)..Len(s)}
      /\ Ascending(s) => Ascending(Rest(s, n))
  BY <1>1, Part DEF Rest
<1>5. ASSUME Ascending(s) PROVE ToSet(Oldest(s, n)) \cap ToSet(Rest(s, n)) = {}
  <2> SUFFICES ASSUME NEW i \in 1..MinOf(n, Len(s)), NEW j \in (n + 1)..Len(s) PROVE s[i] # s[j]
    BY <1>3, <1>4
  <2> QED
    BY <1>1, <1>2, <1>5 DEF Ascending
<1> QED
  BY <1>1, <1>2, <1>3, <1>4, <1>5

-----------------------------------------------------------------------------
(* The inductive invariant.                                                 *)

\* What an upload takes is part of what the loop holds, and leaves the rest.
LEMMA SentPart ==
  ASSUME hand \in Seq(Packet)
  PROVE  Sent \subseteq ToSet(hand) /\ Sent \subseteq Packet
<1>1. ToSet(Oldest(hand, Batch)) \cup ToSet(Rest(hand, Batch)) = ToSet(hand)
  BY UplinkAssumption, OldestAndRest
<1> QED
  BY <1>1, Packets DEF Sent

\* An agent that starts for the first time.
LEMMA InitUplinkInv == Init => UplinkInv
<1> SUFFICES ASSUME Init PROVE UplinkInv
  OBVIOUS
<1>1. buffer = <<>> /\ hand = <<>> /\ disk = <<>> /\ Len(<<>>) = 0
  BY DEF Init
<1>2. TypeOK
  BY <1>1, UplinkAssumption, Smallest DEF Init, TypeOK, Pcs, Replies, Id
<1>3. PlacesInv /\ IdInv
  BY <1>1, Smallest DEF Init, PlacesInv, IdInv, IdSurvives
<1>4. OrderInv
  BY <1>1, Smallest DEF Init, OrderInv, Before
<1>5. LossInv /\ DuplicateInv
  BY <1>1, Smallest DEF Init, LossInv, LossExplained, DuplicateInv, DuplicateExplained
<1> QED
  BY <1>2, <1>3, <1>4, <1>5 DEF UplinkInv

\* The steps of the loop that hold no packets.
Idle == {"down", "ssid", "register", "save", "write_id", "collect"}

\* A step that leaves every packet where it is.
LEMMA SamePackets ==
  ASSUME UplinkInv, UNCHANGED <<captured, buffer, hand, disks, got, history>>, late' \subseteq late,
         \/ pc' = pc
         \/ pc \in Idle /\ pc' \in Idle
         \/ pc = "send" /\ pc' = "waiting",
         \/ reply' = reply
         \/ pc = "waiting" /\ pc' = "waiting" /\ reply = "none" /\ reply' \in {"error", "gone"}
  PROVE  PlacesInv' /\ OrderInv' /\ LossInv' /\ DuplicateInv'
<1> USE DEF UplinkInv, disks, history, Idle
<1>1. Sent' = Sent
  BY DEF Sent
<1>2. PlacesInv'
  BY DEF PlacesInv
<1>3. OrderInv'
  BY DEF OrderInv, Before
<1>4. LossInv'
  BY <1>1 DEF LossInv, LossExplained, PlacesInv
<1>5. DuplicateInv'
  BY <1>1 DEF DuplicateInv, DuplicateExplained, PlacesInv
<1> QED
  BY <1>2, <1>3, <1>4, <1>5

\* Finding the network, registering and sending, and what the world does meanwhile.
LEMMA QuietUplinkInv ==
  ASSUME UplinkInv,
         \/ RightSsid \/ Register \/ RegisterAnswerLost \/ SaveId \/ WriteId \/ SaveIdFails
         \/ Send \/ Refuse \/ ServerReset \/ Restart \/ \E u \in late : LateLost(u)
  PROVE  UplinkInv'
<1> USE DEF UplinkInv, disks, ids, server, history
<1>1. PlacesInv' /\ OrderInv' /\ LossInv' /\ DuplicateInv'
  <2>1. UNCHANGED <<captured, buffer, hand, disks, got, history>> /\ late' \subseteq late
    BY DEF RightSsid, Register, RegisterAnswerLost, SaveId, WriteId, SaveIdFails, Send, Refuse,
           ServerReset, Restart, LateLost
  <2>2. \/ pc' = pc
        \/ pc \in Idle /\ pc' \in Idle
        \/ pc = "send" /\ pc' = "waiting"
    BY DEF RightSsid, Register, RegisterAnswerLost, SaveId, WriteId, SaveIdFails, Send, Refuse,
           ServerReset, Restart, LateLost, Idle
  <2>3. \/ reply' = reply
        \/ pc = "waiting" /\ pc' = "waiting" /\ reply = "none" /\ reply' \in {"error", "gone"}
    BY DEF RightSsid, Register, RegisterAnswerLost, SaveId, WriteId, SaveIdFails, Send, Refuse,
           ServerReset, Restart, LateLost
  <2> QED
    BY <2>1, <2>2, <2>3, SamePackets
<1>2. IdInv'
  BY DEF TypeOK, IdInv, IdSurvives, RightSsid, Register, RegisterAnswerLost, SaveId, WriteId,
         SaveIdFails, Send, Refuse, ServerReset, Restart, LateLost
<1>3. TypeOK'
  <2> USE DEF TypeOK, Pcs, Replies
  <2>1. 0 \in Id /\ \A m \in Id : m < MaxRows => m + 1 \in Id
    BY UplinkAssumption DEF Id
  <2>2. CASE RightSsid \/ Send \/ Refuse \/ ServerReset \/ Restart
    BY <2>1, <2>2 DEF RightSsid, Send, Refuse, ServerReset, Restart
  <2>3. CASE Register \/ RegisterAnswerLost
    BY <2>1, <2>3 DEF Register, RegisterAnswerLost, ServerRegisters
  <2>4. CASE SaveId \/ WriteId \/ SaveIdFails
    BY <2>1, <2>4 DEF SaveId, WriteId, SaveIdFails
  <2>5. CASE \E u \in late : LateLost(u)
    BY <2>5 DEF LateLost
  <2> QED
    BY <2>2, <2>3, <2>4, <2>5
<1> QED
  BY <1>1, <1>2, <1>3

\* The capture thread appends a packet, and may push the oldest out of the deque.
LEMMA CaptureUplinkInv ==
  ASSUME UplinkInv, Capture
  PROVE  UplinkInv'
<1> USE DEF UplinkInv, disks, ids, server, history, Capture, Excuse
<1> DEFINE n == captured + 1
<1>1. n \in Packet /\ captured \in Nat /\ captured' = n /\ n \in 0..MaxPackets
  BY UplinkAssumption DEF TypeOK, Packet
<1>2. buffer \in Seq(Packet) /\ Ascending(buffer) /\ \A q \in ToSet(buffer) : q < n
  BY <1>1 DEF TypeOK, OrderInv, PlacesInv
<1>3. /\ buffer' \in Seq(Packet) /\ Len(buffer') <= BufferCap /\ Ascending(buffer')
      /\ ToSet(buffer') \subseteq ToSet(buffer) \cup {n} /\ n \in ToSet(buffer')
  <2>1. PICK s \in Seq(Packet) : s = Append(buffer, n)
    BY <1>1, <1>2, Appended
  <2>2. buffer' = Newest(s, BufferCap) /\ BufferCap \in Nat /\ BufferCap > 0
    BY <2>1, UplinkAssumption
  <2>3. ToSet(s) = ToSet(buffer) \cup {n} /\ Ascending(s) /\ Len(s) > 0 /\ s[Len(s)] = n
    BY <1>1, <1>2, <2>1, Appended
  <2> QED
    BY <2>2, <2>3, NewestPart
<1> HIDE DEF n
<1>4. Sent' = Sent
  BY DEF Sent
<1>5. TypeOK'
  BY <1>1, <1>3, Packets DEF TypeOK
<1>6. PlacesInv'
  BY <1>1, <1>3 DEF PlacesInv, n
<1>7. IdInv'
  BY DEF IdInv, IdSurvives
<1>8. OrderInv'
  <2>1. Before(disk, buffer') /\ Before(hand, buffer')
    BY <1>1, <1>3 DEF OrderInv, PlacesInv, Before, n
  <2> QED
    BY <1>3, <2>1 DEF OrderInv
<1>9. LossInv'
  BY <1>1, <1>3, <1>4 DEF LossInv, LossExplained, n
<1>10. DuplicateInv'
  <2>1. ASSUME NEW p \in Packet \ suspect, got[p] > 0, p <= captured, p \notin ToSet(buffer)
        PROVE  p <= captured' /\ p \notin ToSet(buffer')
    BY <1>1, <1>3, <2>1 DEF n, Packet
  <2> QED
    BY <1>4, <2>1 DEF DuplicateInv, DuplicateExplained
<1> QED
  BY <1>5, <1>6, <1>7, <1>8, <1>9, <1>10

\* get_and_clear_packets: what is taken is what was in the buffer, or one new record.
LEMMA Taken ==
  ASSUME UplinkInv, NEW taken, TakeBuffer(taken)
  PROVE  /\ buffer' = <<>> /\ taken \in Seq(Packet) /\ Ascending(taken)
         /\ captured' \in 0..MaxPackets /\ captured <= captured'
         /\ ToSet(taken) \subseteq 1..captured'
         /\ \A p \in 1..captured' : p \in 1..captured \/ p \in ToSet(taken)
         /\ ToSet(buffer) \subseteq ToSet(taken)
         /\ \A p \in ToSet(taken) : p \in ToSet(buffer) \/ p > captured
<1> USE DEF UplinkInv, TakeBuffer
<1>1. CASE taken = buffer /\ UNCHANGED captured
  BY <1>1, UplinkAssumption DEF TypeOK, PlacesInv, OrderInv
<1>2. CASE buffer = <<>> /\ captured < MaxPackets /\ captured' = captured + 1 /\ taken = <<captured + 1>>
  <2> DEFINE n == captured + 1
  <2>1. n \in Packet /\ captured \in Nat /\ n \in 0..MaxPackets
    BY <1>2, UplinkAssumption DEF TypeOK, Packet
  <2>2. taken \in Seq(Packet) /\ ToSet(taken) = {n} /\ Ascending(taken) /\ ToSet(buffer) = {}
    BY <1>2, <2>1, Smallest
  <2> QED
    BY <1>2, <2>1, <2>2
<1> QED
  BY <1>1, <1>2

\* On the wrong network what was captured is thrown away.
LEMMA WrongSsidUplinkInv ==
  ASSUME UplinkInv, WrongSsid
  PROVE  UplinkInv'
<1> USE DEF UplinkInv, disks, ids, server, history, Excuse
<1>1. PICK taken \in Takes : TakeBuffer(taken) /\ excused' = excused \cup ToSet(taken)
  BY DEF WrongSsid
<1>2. /\ buffer' = <<>> /\ ToSet(buffer') = {} /\ Ascending(buffer') /\ buffer' \in Seq(Packet)
      /\ taken \in Seq(Packet) /\ ToSet(taken) \subseteq Packet
      /\ captured' \in 0..MaxPackets /\ captured' \in Nat /\ captured \in Nat /\ captured <= captured'
      /\ \A p \in 1..captured' : p \in 1..captured \/ p \in ToSet(taken)
      /\ ToSet(buffer) \subseteq ToSet(taken)
  <2>1. captured \in Nat /\ MaxPackets \in Nat
    BY UplinkAssumption DEF TypeOK
  <2>2. \A p \in 1..captured' : p \in 1..captured \/ p \in ToSet(taken)
    BY <1>1, Taken
  <2>3. /\ taken \in Seq(Packet) /\ captured' \in 0..MaxPackets /\ captured <= captured'
        /\ ToSet(buffer) \subseteq ToSet(taken) /\ buffer' = <<>>
    BY <1>1, Taken
  <2>4. ToSet(taken) \subseteq Packet
    BY <2>3, Packets
  <2> QED
    BY <2>1, <2>2, <2>3, <2>4, Smallest
<1>3. /\ pc = "ssid" /\ pc' = pc /\ hand = <<>>
      /\ UNCHANGED <<hand, disks, ids, reply, server, crashes, suspect>>
  BY DEF WrongSsid, PlacesInv
<1>4. TypeOK'
  BY <1>1, <1>2, <1>3, UplinkAssumption, EmptySeq DEF TypeOK
<1>5. PlacesInv' /\ IdInv'
  BY <1>2, <1>3 DEF PlacesInv, IdInv, IdSurvives
<1>6. OrderInv'
  BY <1>2, <1>3 DEF OrderInv, Before
<1>7. Sent' = Sent
  BY <1>3 DEF Sent
<1>8. LossInv'
  BY <1>1, <1>2, <1>3, <1>7 DEF LossInv, LossExplained, PlacesInv
<1>9. DuplicateInv'
  <2>1. ASSUME NEW p \in Packet \ suspect, got[p] > 0 PROVE p <= captured'
    BY <1>2, <2>1 DEF DuplicateInv, Packet
  <2> QED
    BY <1>2, <1>3, <1>7, <2>1 DEF DuplicateInv, DuplicateExplained
<1> QED
  BY <1>4, <1>5, <1>6, <1>8, <1>9

\* The loop empties the buffer.
LEMMA CollectUplinkInv ==
  ASSUME UplinkInv, Collect
  PROVE  UplinkInv'
<1> USE DEF UplinkInv, disks, ids, server, history
<1>1. PICK taken \in Takes : TakeBuffer(taken) /\ hand' = taken
  BY DEF Collect
<1>2. /\ buffer' = <<>> /\ ToSet(buffer') = {} /\ Ascending(buffer') /\ buffer' \in Seq(Packet)
      /\ hand' \in Seq(Packet) /\ Ascending(hand') /\ ToSet(hand') \subseteq 1..captured'
      /\ captured' \in 0..MaxPackets /\ captured' \in Nat /\ captured \in Nat /\ captured <= captured'
      /\ \A p \in 1..captured' : p \in 1..captured \/ p \in ToSet(hand')
      /\ ToSet(buffer) \subseteq ToSet(hand')
      /\ \A p \in ToSet(hand') : p \in ToSet(buffer) \/ p > captured
  <2>1. captured \in Nat /\ MaxPackets \in Nat
    BY UplinkAssumption DEF TypeOK
  <2>2. /\ \A p \in 1..captured' : p \in 1..captured \/ p \in ToSet(hand')
        /\ \A p \in ToSet(hand') : p \in ToSet(buffer) \/ p > captured
    BY <1>1, Taken
  <2>3. /\ hand' \in Seq(Packet) /\ Ascending(hand') /\ ToSet(hand') \subseteq 1..captured'
        /\ captured' \in 0..MaxPackets /\ captured <= captured'
        /\ ToSet(buffer) \subseteq ToSet(hand') /\ buffer' = <<>>
    BY <1>1, Taken
  <2> QED
    BY <2>1, <2>2, <2>3, Smallest
<1>3. /\ pc = "collect" /\ pc' = "read" /\ ToSet(hand) = {} /\ reply = "none"
      /\ UNCHANGED <<disks, ids, reply, server, crashes, history>>
  BY Smallest DEF Collect, PlacesInv
<1>4. TypeOK'
  BY <1>1, <1>2, <1>3, UplinkAssumption, EmptySeq DEF TypeOK, Pcs
<1>5. PlacesInv' /\ IdInv'
  BY <1>2, <1>3 DEF PlacesInv, IdInv, IdSurvives
<1>6. OrderInv'
  <2>1. Before(disk', hand')
    BY <1>2, <1>3 DEF OrderInv, PlacesInv, Before
  <2> QED
    BY <1>2, <1>3, <2>1 DEF OrderInv, Before
<1>7. LossInv'
  BY <1>2, <1>3 DEF LossInv, LossExplained
<1>8. DuplicateInv'
  <2>1. ASSUME NEW p \in Packet \ suspect, got[p] > 0
        PROVE  p <= captured' /\ p \notin ToSet(hand') /\ p \notin ToSet(disk)
    BY <1>2, <1>3, <2>1 DEF DuplicateInv, Packet
  <2> QED
    BY <1>2, <1>3, <2>1 DEF DuplicateInv, DuplicateExplained
<1> QED
  BY <1>4, <1>5, <1>6, <1>7, <1>8

\* The offline file goes in front, or cannot be read.
LEMMA ReadUplinkInv ==
  ASSUME UplinkInv, Read \/ ReadFails
  PROVE  UplinkInv'
<1> USE DEF UplinkInv, disks, ids, server, history, Excuse
<1>1. /\ pc = "read" /\ pc' = "send" /\ reply = "none" /\ excused \subseteq excused'
      /\ UNCHANGED <<captured, buffer, disks, ids, reply, server, crashes, suspect>>
  BY DEF Read, ReadFails, PlacesInv
<1>2. /\ hand \in Seq(Packet) /\ disk \in Seq(Packet) /\ Ascending(disk) /\ Ascending(hand)
      /\ Before(disk, hand) /\ ToSet(disk) \subseteq Packet /\ excused \subseteq Packet
      /\ diskState # "whole" => ToSet(disk) = {}
  BY <1>1, Packets, Smallest DEF TypeOK, OrderInv, PlacesInv
<1>3. /\ hand' \in Seq(Packet) /\ Ascending(hand') /\ excused' \subseteq Packet
      /\ ToSet(hand) \subseteq ToSet(hand') /\ ToSet(hand') \subseteq ToSet(hand) \cup ToSet(disk)
      /\ ToSet(disk) \subseteq ToSet(hand') \cup excused'
  <2>1. CASE Read
    <3>1. CASE diskState = "whole"
      <4>1. hand' = disk \o hand
        BY <2>1, <3>1 DEF Read
      <4>2. hand' \in Seq(Packet) /\ Ascending(hand') /\ ToSet(hand') = ToSet(disk) \cup ToSet(hand)
        BY <1>2, <4>1, Joined
      <4> QED
        BY <1>1, <1>2, <2>1, <4>2 DEF Read
    <3>2. CASE diskState # "whole"
      BY <1>2, <2>1, <3>2 DEF Read
    <3> QED
      BY <3>1, <3>2
  <2>2. CASE ReadFails
    BY <1>2, <2>2 DEF ReadFails
  <2> QED
    BY <2>1, <2>2
<1>4. TypeOK'
  BY <1>1, <1>3 DEF TypeOK, Pcs
<1>5. PlacesInv' /\ IdInv'
  BY <1>1, <1>3 DEF PlacesInv, IdInv, IdSurvives
<1>6. OrderInv'
  BY <1>1, <1>3 DEF OrderInv, Before
<1>7. LossInv'
  BY <1>1, <1>3 DEF LossInv, LossExplained
<1>8. DuplicateInv'
  <2>1. ASSUME NEW p \in Packet \ suspect, got[p] > 0
        PROVE  p \notin ToSet(hand') /\ p \notin ToSet(disk)
    BY <1>1, <1>3, <2>1 DEF DuplicateInv
  <2> QED
    BY <1>1, <2>1 DEF DuplicateInv, DuplicateExplained
<1> QED
  BY <1>4, <1>5, <1>6, <1>7, <1>8

\* The server ingests the upload the agent waits for.
LEMMA IngestUplinkInv ==
  ASSUME UplinkInv, Ingest
  PROVE  UplinkInv'
<1> USE DEF UplinkInv, disks, ids, history, Suspect
<1>1. /\ pc = "waiting" /\ pc' = "waiting" /\ reply = "none" /\ reply' \in {"ok", "error"}
      /\ UNCHANGED <<captured, buffer, hand, disks, ids, row, made, late, crashes, excused>>
      /\ suspect \subseteq suspect' /\ suspect' \subseteq suspect \cup Sent
      /\ reply' # "ok" => Sent \subseteq suspect'
  BY DEF Ingest
<1>2. Sent' = Sent /\ Sent \subseteq ToSet(hand) /\ Sent \subseteq Packet
  BY <1>1, SentPart DEF Sent, TypeOK
<1>3. /\ got' \in [Packet -> 0..2]
      /\ \A p \in Packet : got'[p] >= got[p] /\ (p \in Sent => got'[p] > 0)
      /\ \A p \in Packet : p \notin Sent => got'[p] = got[p]
      /\ \A p \in Packet : got[p] = 0 => got'[p] <= 1
  BY DEF Ingest, Ingested, MinOf, TypeOK
<1>4. TypeOK'
  BY <1>1, <1>2, <1>3 DEF TypeOK, Replies
<1>5. PlacesInv' /\ IdInv' /\ OrderInv'
  BY <1>1 DEF PlacesInv, IdInv, IdSurvives, OrderInv, Before
<1>6. LossInv'
  <2>1. LossExplained'
    <3> SUFFICES ASSUME NEW p \in 1..captured
                 PROVE  \/ got'[p] > 0
                        \/ p \in ToSet(buffer) \cup ToSet(hand) \cup ToSet(disk) \cup excused
      BY <1>1 DEF LossExplained
    <3>1. p \in Packet /\ got[p] \in 0..2 /\ got'[p] \in 0..2
      BY <1>3, UplinkAssumption DEF TypeOK, Packet
    <3> QED
      BY <1>3, <3>1 DEF LossInv, LossExplained
  <2> QED
    BY <1>1, <1>2, <1>3, <2>1 DEF LossInv
<1>7. DuplicateInv'
  <2>1. ASSUME NEW p \in Packet \ suspect', p \in Sent
        PROVE  /\ got[p] = 0 /\ reply' = "ok" /\ p <= captured /\ p \notin ToSet(buffer)
    <3>1. got[p] = 0 /\ reply' = "ok"
      <4>1. ~(got[p] > 0) /\ got[p] \in 0..2
        BY <1>1, <1>2, <2>1 DEF DuplicateInv, TypeOK
      <4> QED
        BY <1>1, <2>1, <4>1
    <3>2. p <= captured /\ p \notin ToSet(buffer)
      BY <1>2, <2>1 DEF PlacesInv, OrderInv, Before, TypeOK, Packet
    <3> QED
      BY <3>1, <3>2
  <2>2. DuplicateExplained'
    BY <1>1, <1>3, <2>1, SMTT(30) DEF DuplicateInv, DuplicateExplained, TypeOK
  <2>3. ASSUME NEW p \in Packet \ suspect', got'[p] > 0, p \notin Sent
        PROVE  p <= captured /\ p \notin ToSet(buffer) /\ p \notin ToSet(hand) /\ p \notin ToSet(disk)
    BY <1>1, <1>3, <2>3 DEF DuplicateInv
  <2> QED
    BY <1>1, <1>2, <2>1, <2>2, <2>3 DEF DuplicateInv
<1> QED
  BY <1>4, <1>5, <1>6, <1>7

\* An upload that was not answered 200: the newest packets are to be written.
LEMMA KeepUplinkInv ==
  ASSUME UplinkInv, GiveUp \/ Rejected \/ Forget \/ SendWithoutId
  PROVE  UplinkInv'
<1> USE DEF UplinkInv, disks, ids, server, history, Excuse, Suspect
<1>1. /\ pc \in {"send", "waiting"} /\ pc' = "open" /\ reply' = "none"
      /\ hand' = Newest(hand, Cap) /\ excused' = excused \cup (ToSet(hand) \ ToSet(hand'))
      /\ UNCHANGED <<captured, buffer, disks, answer, row, made, got, crashes>>
  BY DEF GiveUp, Rejected, Forget, SendWithoutId, Keep
<1>2. hand \in Seq(Packet) /\ ToSet(hand) \subseteq Packet /\ Sent \subseteq ToSet(hand)
  BY SentPart, Packets DEF TypeOK
<1>3. /\ hand' \in Seq(Packet) /\ Len(hand') <= Cap /\ ToSet(hand') \subseteq ToSet(hand)
      /\ Ascending(hand')
  BY <1>1, <1>2, NewestPart, UplinkAssumption DEF OrderInv
<1>4. /\ suspect \subseteq suspect' /\ suspect' \subseteq Packet
      /\ reply = "ok" => Sent \subseteq suspect'
  BY <1>2 DEF TypeOK, PlacesInv, GiveUp, Rejected, Forget, SendWithoutId
<1>5. /\ late' \in SUBSET [id : Id, packets : SUBSET Packet]
      /\ \A u \in late' : u \in late \/ u.packets \subseteq suspect'
  <2>1. CASE late' = late
    BY <2>1 DEF TypeOK
  <2>2. CASE GiveUp /\ late' = late \cup {LateUpload}
    <3>1. LateUpload \in [id : Id, packets : SUBSET Packet] /\ LateUpload.packets = Sent
      BY <1>2 DEF LateUpload, TypeOK
    <3> QED
      BY <2>2, <3>1 DEF GiveUp, TypeOK
  <2> QED
    BY <2>1, <2>2 DEF GiveUp, Rejected, Forget, SendWithoutId
<1>6. agentId' \in {agentId, 0} /\ (agentId' = 0 \/ idFile' = idFile) /\ idFile' \in {0, idFile}
  BY DEF GiveUp, Rejected, Forget, SendWithoutId
<1>7. TypeOK'
  <2>1. 0 \in Id
    BY UplinkAssumption DEF Id
  <2>2. idFile' \in Id /\ agentId' \in Id
    BY <1>6, <2>1 DEF TypeOK
  <2>3. excused' \subseteq Packet
    BY <1>1, <1>2 DEF TypeOK
  <2> QED
    BY <1>1, <1>3, <1>4, <1>5, <2>2, <2>3 DEF TypeOK, Pcs, Replies
<1>8. PlacesInv' /\ IdInv'
  BY <1>1, <1>3, <1>6 DEF PlacesInv, IdInv, IdSurvives
<1>9. OrderInv'
  BY <1>1, <1>3 DEF OrderInv, Before
<1>10. LossInv'
  BY <1>1, <1>3 DEF LossInv, LossExplained
<1>11. DuplicateInv'
  <2>1. ASSUME NEW p \in Packet \ suspect', got[p] > 0
        PROVE  /\ p <= captured /\ p \notin ToSet(buffer)
               /\ p \notin ToSet(hand) /\ p \notin ToSet(disk)
    BY <1>1, <1>4, <2>1 DEF DuplicateInv
  <2> QED
    BY <1>1, <1>3, <1>4, <1>5, <2>1 DEF DuplicateInv, DuplicateExplained
<1> QED
  BY <1>7, <1>8, <1>9, <1>10, <1>11

\* An upload that was answered 200: the newest of the rest are to be written.
LEMMA DeliveredUplinkInv ==
  ASSUME UplinkInv, Delivered
  PROVE  UplinkInv'
<1> USE DEF UplinkInv, disks, ids, server, history, Excuse
<1>1. /\ pc = "waiting" /\ reply = "ok" /\ reply' = "none"
      /\ pc' = "open" \/ (pc' = "discard" /\ hand' = <<>>)
      /\ hand' = Newest(Rest(hand, Batch), Cap)
      /\ excused' = excused \cup (ToSet(hand) \ (ToSet(hand') \cup Sent))
      /\ UNCHANGED <<captured, buffer, disks, ids, server, crashes, suspect>>
  BY DEF Delivered
<1>2. hand \in Seq(Packet) /\ ToSet(hand) \subseteq Packet /\ Ascending(hand)
  BY Packets DEF TypeOK, OrderInv
<1>3. /\ hand' \in Seq(Packet) /\ Len(hand') <= Cap /\ ToSet(hand') \subseteq ToSet(hand)
      /\ Ascending(hand') /\ Sent \cap ToSet(hand') = {}
  <2>1. PICK s \in Seq(Packet) : s = Rest(hand, Batch)
    BY <1>2, OldestAndRest, UplinkAssumption
  <2>2. ToSet(s) \subseteq ToSet(hand) /\ Ascending(s) /\ Sent \cap ToSet(s) = {}
    <3>1. /\ ToSet(Oldest(hand, Batch)) \cup ToSet(s) = ToSet(hand) /\ Ascending(s)
          /\ ToSet(Oldest(hand, Batch)) \cap ToSet(s) = {}
      BY <1>2, <2>1, OldestAndRest, UplinkAssumption
    <3> QED
      BY <3>1 DEF Sent
  <2>3. hand' = Newest(s, Cap) /\ Cap \in Nat
    BY <1>1, <2>1, UplinkAssumption
  <2> QED
    BY <2>2, <2>3, NewestPart
<1>4. TypeOK'
  BY <1>1, <1>2, <1>3 DEF TypeOK, Pcs, Replies
<1>5. PlacesInv' /\ IdInv'
  BY <1>1, <1>3 DEF PlacesInv, IdInv, IdSurvives
<1>6. OrderInv'
  BY <1>1, <1>3 DEF OrderInv, Before
<1>7. LossInv'
  BY <1>1, <1>3 DEF LossInv, LossExplained
<1>8. DuplicateInv'
  <2>1. ASSUME NEW p \in Packet \ suspect, got[p] > 0
        PROVE  p <= captured /\ p \notin ToSet(buffer) /\ p \notin ToSet(hand')
    BY <1>1, <1>3, <2>1 DEF DuplicateInv
  <2> QED
    BY <1>1, <2>1 DEF DuplicateInv, DuplicateExplained
<1> QED
  BY <1>4, <1>5, <1>6, <1>7, <1>8

\* The offline file is removed or replaced, or stays as it was.
LEMMA FileUplinkInv ==
  ASSUME UplinkInv, Discard \/ DiscardFails \/ Open \/ OpenFails \/ Write \/ WriteFails
  PROVE  UplinkInv'
<1> USE DEF UplinkInv, disks, ids, server, history, Excuse, Suspect
<1>1. /\ pc \in {"discard", "open", "write"} /\ pc' \in {"ssid", "write"}
      /\ pc' = "write" <=> Open
      /\ reply = "none" /\ reply' = "none"
      /\ UNCHANGED <<captured, buffer, ids, server, crashes>>
  BY DEF Discard, DiscardFails, Open, OpenFails, Write, WriteFails, PlacesInv
<1>2. /\ hand \in Seq(Packet) /\ Len(hand) <= Cap /\ ToSet(hand) \subseteq Packet
      /\ disk \in Seq(Packet) /\ Len(disk) <= Cap /\ ToSet(disk) \subseteq Packet
      /\ ToSet(<<>>) = {} /\ <<>> \in Seq(Packet) /\ Len(<<>>) = 0 /\ Ascending(<<>>)
  <2>1. hand \in Seq(Packet) /\ disk \in Seq(Packet) /\ Len(disk) <= Cap
    BY DEF TypeOK
  <2>2. <<>> \in Seq(Packet) /\ Len(<<>>) = 0
    BY EmptySeq
  <2>3. Len(hand) <= Cap
    BY <1>1, <2>2, UplinkAssumption DEF PlacesInv
  <2> QED
    BY <2>1, <2>2, <2>3, Packets, Smallest
<1>3. /\ (hand' = hand /\ Open) \/ hand' = <<>>
      /\ \/ disk' = disk /\ diskState' = diskState
         \/ disk' = <<>>
         \/ disk' = hand /\ diskState' = "whole"
      /\ Open => disk' = <<>>
      /\ diskState' \in {"absent", "whole", "torn"} /\ (diskState' = "whole" \/ disk' = <<>>)
  BY <1>1 DEF Discard, DiscardFails, Open, OpenFails, Write, WriteFails, PlacesInv, TypeOK
<1>4. /\ excused \subseteq excused' /\ excused' \subseteq Packet
      /\ suspect \subseteq suspect' /\ suspect' \subseteq Packet
  BY <1>2 DEF Discard, DiscardFails, Open, OpenFails, Write, WriteFails, TypeOK, Obsolete
<1>5. TypeOK'
  <2>1. hand' \in Seq(Packet)
    BY <1>2, <1>3
  <2>2. disk' \in Seq(Packet) /\ Len(disk') <= Cap
    <3>1. CASE disk' = <<>>
      BY <1>2, <3>1, UplinkAssumption
    <3>2. CASE disk' # <<>>
      BY <1>2, <1>3, <3>2
    <3> QED
      BY <3>1, <3>2
  <2>3. pc' \in Pcs
    BY <1>1 DEF Pcs
  <2> QED
    BY <1>1, <1>3, <1>4, <2>1, <2>2, <2>3 DEF TypeOK
<1>6. PlacesInv' /\ IdInv'
  <2>1. ToSet(hand') \subseteq ToSet(hand) /\ ToSet(disk') \subseteq ToSet(hand) \cup ToSet(disk)
    BY <1>2, <1>3
  <2>2. /\ pc' # "write" => hand' = <<>>
        /\ Len(hand') <= Cap
        /\ diskState' # "whole" \/ pc' = "write" => disk' = <<>>
    BY <1>1, <1>2, <1>3, UplinkAssumption
  <2>3. PlacesInv'
    BY <1>1, <2>1, <2>2 DEF PlacesInv
  <2> QED
    BY <1>1, <2>3 DEF IdInv, IdSurvives
<1>7. OrderInv'
  BY <1>1, <1>2, <1>3 DEF OrderInv, Before
<1>8. LossInv'
  <2>1. ASSUME NEW p, p \in ToSet(hand) \cup ToSet(disk)
        PROVE  got[p] > 0 \/ p \in ToSet(hand') \cup ToSet(disk') \cup excused'
    BY <1>2, <2>1 DEF Discard, DiscardFails, Open, OpenFails, Write, WriteFails, PlacesInv, LossInv
  <2> QED
    BY <1>1, <1>4, <2>1 DEF LossInv, LossExplained
<1>9. DuplicateInv'
  <2>1. ASSUME NEW p \in Packet \ suspect', got[p] > 0
        PROVE  p \notin ToSet(hand') /\ p \notin ToSet(disk')
    <3>1. p \notin ToSet(hand) /\ (p \in ToSet(disk) => pc \in {"discard", "open"})
      BY <1>1, <1>4, <2>1 DEF DuplicateInv
    <3> QED
      BY <1>2, <1>4, <2>1, <3>1
         DEF Discard, DiscardFails, Open, OpenFails, Write, WriteFails, Obsolete
  <2> QED
    BY <1>1, <1>4, <2>1 DEF DuplicateInv, DuplicateExplained
<1> QED
  BY <1>5, <1>6, <1>7, <1>8, <1>9

\* The server ingests an upload the agent no longer waits for.
LEMMA LateUplinkInv ==
  ASSUME UplinkInv, NEW u \in late, LateIngest(u)
  PROVE  UplinkInv'
<1> USE DEF UplinkInv, disks, ids, history
<1>1. /\ UNCHANGED <<captured, buffer, pc, hand, disks, ids, reply, row, made, crashes, history>>
      /\ late' \subseteq late /\ u.packets \subseteq suspect
  BY DEF LateIngest, DuplicateInv
<1>2. /\ got' \in [Packet -> 0..2]
      /\ \A p \in Packet : got'[p] >= got[p]
      /\ \A p \in Packet \ suspect : got'[p] = got[p]
  BY <1>1 DEF LateIngest, Ingested, MinOf, TypeOK
<1>3. Sent' = Sent /\ Sent \subseteq Packet /\ ToSet(disk) \subseteq Packet
  BY <1>1, SentPart, Packets DEF Sent, TypeOK
<1>4. TypeOK'
  BY <1>1, <1>2 DEF TypeOK
<1>5. PlacesInv' /\ IdInv' /\ OrderInv'
  BY <1>1 DEF PlacesInv, IdInv, IdSurvives, OrderInv, Before
<1>6. \A p \in Packet : got[p] > 0 => got'[p] > 0
  BY <1>2, SMTT(30) DEF TypeOK
<1>7. LossInv'
  <2>1. \A p \in 1..captured : p \in Packet
    BY UplinkAssumption DEF TypeOK, Packet
  <2> QED
    BY <1>1, <1>3, <1>6, <2>1 DEF LossInv, LossExplained
<1>8. DuplicateInv'
  BY <1>1, <1>2, <1>3 DEF DuplicateInv, DuplicateExplained
<1> QED
  BY <1>4, <1>5, <1>7, <1>8

\* The process ends: the file is all that is left to it.
LEMMA CrashUplinkInv ==
  ASSUME UplinkInv, Crash
  PROVE  UplinkInv'
<1> USE DEF UplinkInv, disks, ids, server, history, Excuse, Suspect
<1>1. /\ pc' = "down" /\ buffer' = <<>> /\ hand' = <<>> /\ agentId' = 0 /\ answer' = 0
      /\ reply' = "none" /\ crashes' = crashes + 1 /\ crashes < MaxCrashes
      /\ excused' = excused \cup ToSet(buffer) \cup (ToSet(hand) \ ToSet(disk))
      /\ suspect' = suspect \cup (IF pc = "waiting" THEN Sent
                                  ELSE IF pc \in {"discard", "open"} THEN Obsolete ELSE {})
      /\ UNCHANGED <<captured, disks, idFile, row, made, got>>
  BY DEF Crash
<1>2. /\ ToSet(hand) \subseteq Packet /\ ToSet(buffer) \subseteq Packet /\ ToSet(disk) \subseteq Packet
      /\ Sent \subseteq ToSet(hand)
      /\ ToSet(<<>>) = {} /\ <<>> \in Seq(Packet) /\ Len(<<>>) = 0 /\ Ascending(<<>>)
  BY SentPart, Packets, Smallest, EmptySeq DEF TypeOK
<1>3. suspect' \subseteq Packet /\ suspect \subseteq suspect'
  BY <1>1, <1>2 DEF Obsolete, TypeOK
<1>4. /\ late' \in SUBSET [id : Id, packets : SUBSET Packet]
      /\ \A u \in late' : u \in late \/ u.packets \subseteq suspect'
  <2>1. LateUpload \in [id : Id, packets : SUBSET Packet] /\ LateUpload.packets = Sent
    BY <1>2 DEF LateUpload, TypeOK
  <2>2. late' = late \/ (pc = "waiting" /\ late' = late \cup {LateUpload})
    BY DEF Crash
  <2> QED
    BY <1>1, <2>1, <2>2 DEF TypeOK
<1>5. TypeOK'
  <2>1. 0 \in Id /\ crashes' \in 0..MaxCrashes /\ BufferCap >= 0
    BY <1>1, UplinkAssumption DEF Id, TypeOK
  <2>2. excused' \subseteq Packet
    BY <1>1, <1>2 DEF TypeOK
  <2> QED
    BY <1>1, <1>2, <1>3, <1>4, <2>1, <2>2 DEF TypeOK, Pcs, Replies
<1>6. PlacesInv' /\ IdInv' /\ OrderInv'
  BY <1>1, <1>2 DEF PlacesInv, IdInv, IdSurvives, OrderInv, Before
<1>7. LossInv'
  BY <1>1, <1>2 DEF LossInv, LossExplained
<1>8. DuplicateInv'
  <2>1. ASSUME NEW p \in Packet \ suspect', got[p] > 0 PROVE p \notin ToSet(disk)
    BY <1>1, <2>1 DEF DuplicateInv, PlacesInv, Obsolete
  <2> QED
    BY <1>1, <1>2, <1>3, <1>4, <2>1 DEF DuplicateInv, DuplicateExplained
<1> QED
  BY <1>5, <1>6, <1>7, <1>8

\* What the capture thread, the loop, the server and the network maintain together.
THEOREM UplinkInvariant == Spec => []UplinkInv
<1>1. UplinkInv /\ [Next]_vars => UplinkInv'
  <2> SUFFICES ASSUME UplinkInv, [Next]_vars PROVE UplinkInv'
    OBVIOUS
  <2>1. CASE Capture
    BY <2>1, CaptureUplinkInv
  <2>2. CASE Loop
    BY <2>2, QuietUplinkInv, WrongSsidUplinkInv, CollectUplinkInv, ReadUplinkInv, KeepUplinkInv,
       DeliveredUplinkInv, FileUplinkInv DEF Loop
  <2>3. CASE World
    BY <2>3, QuietUplinkInv, IngestUplinkInv, CrashUplinkInv, LateUplinkInv DEF World
  <2>4. CASE UNCHANGED vars
    <3>1. IdInv' /\ TypeOK'
      BY <2>4 DEF UplinkInv, vars, disks, ids, server, history, IdInv, IdSurvives, TypeOK
    <3>2. PlacesInv' /\ OrderInv' /\ LossInv' /\ DuplicateInv'
      BY <2>4, SamePackets DEF vars, server
    <3> QED
      BY <3>1, <3>2 DEF UplinkInv
  <2> QED
    BY <2>1, <2>2, <2>3, <2>4 DEF Next
<1> QED
  BY InitUplinkInv, <1>1, PTL DEF Spec

-----------------------------------------------------------------------------
\* The variables keep their types, and the deque and the offline file their caps.
THEOREM UplinkTypeCorrect == Spec => []TypeOK
BY UplinkInvariant, PTL DEF UplinkInv

\* A captured packet that neither reached the server nor waits at the agent was lost
\* to a full buffer, a failed call, the end of the process or the wrong network.
THEOREM LossesExplained == Spec => []LossExplained
<1>1. UplinkInv => LossExplained
  BY DEF UplinkInv, LossInv
<1> QED
  BY UplinkInvariant, <1>1, PTL

\* No packet reaches the ingestion twice unless a fault lets the agent send it again.
THEOREM DuplicatesExplained == Spec => []DuplicateExplained
<1>1. UplinkInv => DuplicateExplained
  BY DEF UplinkInv, DuplicateInv
<1> QED
  BY UplinkInvariant, <1>1, PTL

\* The agent's copies stay in the order of their capture.
THEOREM OrderKept == Spec => []KeptInOrder
<1>1. UplinkInv => KeptInOrder
  BY Joined DEF UplinkInv, TypeOK, OrderInv, KeptInOrder
<1> QED
  BY UplinkInvariant, <1>1, PTL

\* An id in use is on disk.
THEOREM IdOnDisk == Spec => []IdSurvives
<1>1. UplinkInv => IdSurvives
  BY DEF UplinkInv, IdInv
<1> QED
  BY UplinkInvariant, <1>1, PTL

-----------------------------------------------------------------------------
(* What agent and server deliver.                                           *)

\* Of a sequence in order an upload takes nothing before what it leaves.
LEMMA OldestFirst ==
  ASSUME NEW s \in Seq(Packet), NEW n \in Nat, Ascending(s),
         NEW q \in ToSet(Oldest(s, n)), NEW p \in ToSet(s), p <= q
  PROVE  p \in ToSet(Oldest(s, n))
<1> DEFINE m == MinOf(n, Len(s))
<1>1. Len(s) \in Nat /\ m \in 0..Len(s)
  BY LenProperties DEF MinOf
<1>2. ToSet(Oldest(s, n)) = {s[i] : i \in 1..m}
  BY <1>1, Part DEF Oldest
<1>3. PICK i \in 1..m : q = s[i]
  BY <1>2
<1>4. PICK j \in 1..Len(s) : p = s[j]
  BY Packets
<1>5. s[i] \in Int /\ s[j] \in Int /\ i \in 1..Len(s)
  BY <1>1, Packets
<1>6. ~(i < j)
  BY <1>3, <1>4, <1>5 DEF Ascending
<1>7. j \in 1..m
  BY <1>1, <1>6
<1> QED
  BY <1>2, <1>4, <1>7

\* What is older than an upload under way is in it, or the server has it, or it was put
\* at risk: the loop took the offline file in front, and the deque is younger.
LEMMA SentHasNoGap ==
  ASSUME UplinkInv, pc = "waiting", NEW q \in Sent, NEW p \in 1..q
  PROVE  got[p] > 0 \/ p \in excused \cup Sent
<1> USE DEF UplinkInv
<1>1. hand \in Seq(Packet) /\ Ascending(hand) /\ q \in ToSet(hand) /\ q \in Packet
  BY SentPart DEF TypeOK, OrderInv
<1>2. q \in 1..captured
  BY <1>1 DEF PlacesInv
<1>3. p \in 1..captured /\ p <= q
  BY <1>2 DEF TypeOK
<1>4. got[p] > 0 \/ p \in ToSet(buffer) \cup ToSet(hand) \cup excused
  BY <1>3 DEF LossInv, LossExplained
<1>5. p \notin ToSet(buffer)
  <2>1. \A r \in ToSet(buffer) : q < r
    BY <1>1 DEF OrderInv, Before
  <2> QED
    BY <1>2, <1>3, <2>1
<1>6. p \in ToSet(hand) => p \in Sent
  BY <1>1, <1>3, OldestFirst, UplinkAssumption DEF Sent
<1> QED
  BY <1>4, <1>5, <1>6

\* All that a step changes of what Delivery speaks of, when nothing reaches the server.
Local == /\ got' = got
         /\ captured' \in {captured, captured + 1} /\ captured' <= MaxPackets
         /\ excused \subseteq excused' /\ excused' \ excused \subseteq 1..captured'
         /\ suspect \subseteq suspect' /\ suspect' \ suspect \subseteq 1..captured'
         /\ \A u \in late' : u \in late \/ (pc = "waiting" /\ u.packets = Sent)

LEMMA LocalStep ==
  ASSUME UplinkInv, [Next]_vars, ~Ingest, ~ \E u \in late : LateIngest(u)
  PROVE  Local
<1> USE DEF UplinkInv, disks, ids, server, history, Excuse, Suspect
<1>1. /\ captured \in Nat /\ MaxPackets \in Nat /\ captured <= MaxPackets
      /\ Sent \subseteq 1..captured
      /\ ToSet(buffer) \cup ToSet(hand) \cup ToSet(disk) \subseteq 1..captured
  BY UplinkAssumption, SentPart DEF TypeOK, PlacesInv
<1>2. CASE Capture
  <2>1. ToSet(buffer) \subseteq 1..captured'
    BY <1>1, <1>2 DEF Capture
  <2> QED
    BY <1>1, <1>2, <2>1 DEF Capture, Local
<1>3. CASE WrongSsid \/ Collect
  <2>1. PICK taken : /\ TakeBuffer(taken)
                     /\ excused' = excused \/ excused' = excused \cup ToSet(taken)
    BY <1>3 DEF WrongSsid, Collect
  <2>2. ToSet(taken) \subseteq 1..captured'
    BY <2>1, Taken
  <2>3. captured' \in {captured, captured + 1} /\ captured' <= MaxPackets
    BY <1>1, <2>1 DEF TakeBuffer
  <2>4. UNCHANGED <<got, late, suspect>>
    BY <1>3 DEF WrongSsid, Collect
  <2> QED
    BY <2>1, <2>2, <2>3, <2>4 DEF Local
<1>4. CASE GiveUp \/ Rejected \/ Forget \/ SendWithoutId
  <2>1. /\ UNCHANGED <<captured, got>>
        /\ excused' = excused \cup (ToSet(hand) \ ToSet(hand'))
        /\ suspect' \in {suspect, suspect \cup Sent}
        /\ \A u \in late' : u \in late \/ (pc = "waiting" /\ u.packets = Sent)
    BY <1>4 DEF GiveUp, Rejected, Forget, SendWithoutId, Keep, LateUpload
  <2> QED
    BY <1>1, <2>1 DEF Local
<1>5. CASE Crash
  <2>1. /\ UNCHANGED <<captured, got>>
        /\ excused' = excused \cup ToSet(buffer) \cup (ToSet(hand) \ ToSet(disk))
        /\ suspect' \in {suspect, suspect \cup Sent, suspect \cup Obsolete}
        /\ \A u \in late' : u \in late \/ (pc = "waiting" /\ u.packets = Sent)
    BY <1>5 DEF Crash, LateUpload
  <2> QED
    BY <1>1, <2>1 DEF Local, Obsolete
<1>6. CASE ReadFails \/ Delivered \/ DiscardFails \/ OpenFails \/ WriteFails
  BY <1>1, <1>6 DEF ReadFails, Delivered, DiscardFails, OpenFails, WriteFails, Local, Obsolete
<1>7. CASE \/ RightSsid \/ Register \/ SaveId \/ WriteId \/ SaveIdFails \/ Read \/ Send
           \/ Discard \/ Open \/ Write \/ Restart \/ RegisterAnswerLost \/ Refuse \/ ServerReset
           \/ (\E u \in late : LateLost(u)) \/ UNCHANGED vars
  <2>1. UNCHANGED <<captured, got, history>> /\ late' \subseteq late
    BY <1>7 DEF RightSsid, Register, SaveId, WriteId, SaveIdFails, Read, Send, Discard, Open, Write,
                Restart, RegisterAnswerLost, Refuse, ServerReset, LateLost, vars
  <2> QED
    BY <1>1, <2>1 DEF Local
<1> QED
  BY <1>2, <1>3, <1>4, <1>5, <1>6, <1>7 DEF Next, Loop, World

\* What reaches the server: the upload under way or a late one.
LEMMA ArrivalStep ==
  ASSUME UplinkInv, GapInv, Ingest \/ \E u \in late : LateIngest(u)
  PROVE  \E P \in SUBSET (1..captured) :
           /\ \A p \in P : p \in suspect \/ got[p] = 0
           /\ \A q \in P : \A p \in 1..q : got[p] > 0 \/ p \in excused \cup P
           /\ Ingested(P) /\ suspect' \in {suspect, suspect \cup P}
           /\ UNCHANGED <<captured, excused>> /\ late' \subseteq late
<1> USE DEF UplinkInv
<1>1. CASE Ingest
  <2>1. Sent \subseteq 1..captured /\ Sent \subseteq Packet /\ Sent \subseteq ToSet(hand)
    BY SentPart DEF TypeOK, PlacesInv
  <2>2. ASSUME NEW p \in Sent PROVE p \in suspect \/ got[p] = 0
    <3>1. got[p] \in 0..2
      BY <2>1 DEF TypeOK
    <3>2. p \notin suspect => ~(got[p] > 0)
      BY <1>1, <2>1 DEF Ingest, DuplicateInv
    <3> QED
      BY <3>1, <3>2
  <2>3. \A q \in Sent : \A p \in 1..q : got[p] > 0 \/ p \in excused \cup Sent
    BY <1>1, SentHasNoGap DEF Ingest
  <2>4. /\ Ingested(Sent) /\ suspect' \in {suspect, suspect \cup Sent}
        /\ UNCHANGED <<captured, excused>> /\ late' \subseteq late
    BY <1>1 DEF Ingest, Suspect
  <2> HIDE DEF Sent
  <2> QED
    BY <2>1, <2>2, <2>3, <2>4
<1>2. ASSUME NEW u \in late, LateIngest(u)
      PROVE  /\ u.packets \subseteq 1..captured /\ u.packets \subseteq suspect
             /\ \A q \in u.packets : \A p \in 1..q : got[p] > 0 \/ p \in excused \cup u.packets
             /\ Ingested(u.packets) /\ suspect' = suspect
             /\ UNCHANGED <<captured, excused>> /\ late' \subseteq late
  BY <1>2 DEF LateIngest, GapInv, DuplicateInv, history
<1> QED
  BY <1>1, <1>2

\* What Delivery calls received and repeated.
Received == {p \in Packet : got[p] > 0}
Repeated == {p \in Packet : got[p] > 1}

\* An ingestion in these terms.
LEMMA IngestedSets ==
  ASSUME TypeOK, NEW P \in SUBSET Packet, Ingested(P)
  PROVE  Received' = Received \cup P /\ Repeated' = Repeated \cup (P \cap Received)
<1>1. \A p \in Packet : got[p] \in {0, 1, 2} /\ got'[p] = IF p \in P THEN MinOf(got[p] + 1, 2) ELSE got[p]
  BY DEF TypeOK, Ingested
<1>2. \A p \in Packet : /\ got'[p] > 0 <=> (got[p] > 0 \/ p \in P)
                        /\ got'[p] > 1 <=> (got[p] > 1 \/ (p \in P /\ got[p] > 0))
  BY <1>1 DEF MinOf
<1> QED
  BY <1>2 DEF Received, Repeated

\* No step makes a gap, nor sends an upload that could.
THEOREM GapInvariant == Spec => []GapInv
<1>1. Init => GapInv
  BY DEF Init, GapInv, NoGap
<1>2. UplinkInv /\ GapInv /\ [Next]_vars => GapInv'
  <2> SUFFICES ASSUME UplinkInv, GapInv, [Next]_vars PROVE GapInv'
    OBVIOUS
  <2>1. CASE Ingest \/ \E u \in late : LateIngest(u)
    <3>1. PICK P \in SUBSET (1..captured) :
            /\ \A q \in P : \A p \in 1..q : got[p] > 0 \/ p \in excused \cup P
            /\ Ingested(P) /\ UNCHANGED <<captured, excused>> /\ late' \subseteq late
      BY <2>1, ArrivalStep
    <3>2. P \subseteq Packet /\ captured \in Nat /\ captured <= MaxPackets /\ TypeOK
      BY UplinkAssumption DEF UplinkInv, TypeOK, Packet
    <3>3. \A p \in Packet : got'[p] > 0 <=> (got[p] > 0 \/ p \in P)
      BY <3>1, <3>2, IngestedSets DEF Received
    <3>4. \A q \in Packet : \A p \in 1..q : p \in Packet
      BY UplinkAssumption DEF Packet
    <3>5. NoGap'
      BY <3>1, <3>3, <3>4 DEF GapInv, NoGap
    <3>6. ASSUME NEW u \in late', NEW q \in u.packets, NEW p \in 1..q
          PROVE  got'[p] > 0 \/ p \in excused' \cup u.packets
      <4>1. u \in late /\ q \in 1..captured
        BY <3>1, <3>6 DEF GapInv
      <4>2. q \in Packet
        BY <3>2, <4>1, UplinkAssumption DEF Packet
      <4> QED
        BY <3>1, <3>3, <3>4, <4>1, <4>2 DEF GapInv
    <3> QED
      BY <3>1, <3>5, <3>6 DEF GapInv
  <2>2. CASE ~Ingest /\ ~ \E u \in late : LateIngest(u)
    <3>1. Local
      BY <2>2, LocalStep
    <3>2. NoGap'
      BY <3>1 DEF Local, GapInv, NoGap
    <3>3. ASSUME NEW u \in late'
          PROVE  /\ u.packets \subseteq 1..captured
                 /\ \A q \in u.packets : \A p \in 1..q : got[p] > 0 \/ p \in excused \cup u.packets
      <4>1. CASE u \in late
        BY <4>1 DEF GapInv
      <4>2. CASE pc = "waiting" /\ u.packets = Sent
        <5>1. Sent \subseteq 1..captured
          BY SentPart DEF UplinkInv, TypeOK, PlacesInv
        <5> QED
          BY <4>2, <5>1, SentHasNoGap
      <4> QED
        BY <3>1, <4>1, <4>2 DEF Local
    <3>4. captured \in Nat /\ 1..captured \subseteq 1..captured'
      BY <3>1 DEF UplinkInv, TypeOK, Local
    <3> QED
      BY <3>1, <3>2, <3>3, <3>4 DEF Local, GapInv
  <2> QED
    BY <2>1, <2>2
<1> QED
  BY <1>1, <1>2, UplinkInvariant, PTL DEF Spec

\* The server receives packets without a gap, but for those put at risk.
THEOREM NothingSkipped == Spec => []NoGap
<1>1. GapInv => NoGap
  BY DEF GapInv
<1> QED
  BY GapInvariant, <1>1, PTL

\* The deque, the loop, the offline file, the network and the server implement Delivery.
THEOREM UplinkDelivers == Spec => UplinkImplementsDelivery
<1>1. Init => Deliveries!Init
  BY DEF Init, Deliveries!Init
<1>2. UplinkInv /\ GapInv /\ [Next]_vars => [Deliveries!Next]_(Deliveries!vars)
  <2> SUFFICES ASSUME UplinkInv, GapInv, [Next]_vars PROVE Deliveries!Next
    OBVIOUS
  <2>1. CASE Ingest \/ \E u \in late : LateIngest(u)
    <3>1. PICK P \in SUBSET (1..captured) :
            /\ \A p \in P : p \in suspect \/ got[p] = 0
            /\ \A q \in P : \A p \in 1..q : got[p] > 0 \/ p \in excused \cup P
            /\ Ingested(P) /\ suspect' \in {suspect, suspect \cup P}
            /\ UNCHANGED <<captured, excused>>
      BY <2>1, ArrivalStep
    <3>2. P \subseteq Packet /\ TypeOK
      BY UplinkAssumption DEF UplinkInv, TypeOK, Packet
    <3>3. Received' = Received \cup P /\ Repeated' = Repeated \cup (P \cap Received)
      BY <3>1, <3>2, IngestedSets
    <3>4. P \cap Received \subseteq suspect
      <4> SUFFICES ASSUME NEW p \in P, got[p] > 0 PROVE p \in suspect
        BY DEF Received
      <4>1. got[p] # 0
        OBVIOUS
      <4> QED
        BY <3>1, <4>1
    <3>5. \A q \in P : 1..q \subseteq Received \cup excused \cup P
      <4>1. \A q \in P : \A p \in 1..q : p \in Packet
        BY <3>2, UplinkAssumption DEF Packet
      <4> QED
        BY <3>1, <4>1 DEF Received
    <3>6. Deliveries!Deliver(P)
      BY <3>1, <3>3, <3>4, <3>5 DEF Deliveries!Deliver, Received, Repeated
    <3> QED
      BY <3>1, <3>6 DEF Deliveries!Next
  <2>2. CASE ~Ingest /\ ~ \E u \in late : LateIngest(u)
    <3>1. Local
      BY <2>2, LocalStep
    <3> QED
      BY <3>1 DEF Local, Deliveries!Next, Deliveries!AtAgent, Deliveries!Admits
  <2> QED
    BY <2>1, <2>2
<1> QED
  BY <1>1, <1>2, UplinkInvariant, GapInvariant, PTL DEF Spec, UplinkImplementsDelivery, Deliveries!Spec
=============================================================================
