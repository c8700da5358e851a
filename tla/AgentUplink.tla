----------------------------- MODULE AgentUplink -----------------------------
(***************************************************************************)
(* agent/main.py, agent/sender.py and the buffer of agent/sniffer.py: how  *)
(* captured packets reach the server.                                      *)
(*                                                                         *)
(* The capture thread appends to a bounded deque.  Each turn of the main   *)
(* loop empties it, puts what the last turns could not deliver (the        *)
(* offline file) in front, uploads the oldest Batch packets, and writes    *)
(* the newest Cap of the rest back to the file.  Without an agent id the   *)
(* loop registers first; a server that does not know the id answers 404,   *)
(* which makes the agent forget it.                                        *)
(*                                                                         *)
(* Packets are numbered in the order of their capture.  Agent ids are the  *)
(* numbers of the rows the server has created; 0 is no id.                 *)
(***************************************************************************)
EXTENDS Integers, SequencesExt

CONSTANTS Batch,        (* packets in an upload, 100                           *)
          Cap,          (* packets in the offline file, 200                    *)
          BufferCap,    (* maxlen of the deque, 10000                          *)
          SsidChecked,  (* whether config.HOTSPOT_SSID is set                  *)
          MaxPackets, MaxRows, MaxCrashes, MaxLate   (* bounds of the model    *)

ASSUME UplinkAssumption ==
       /\ Batch \in Nat \ {0} /\ Cap \in Nat \ {0} /\ BufferCap \in Nat \ {0}
       /\ SsidChecked \in BOOLEAN
       /\ MaxPackets \in Nat /\ MaxRows \in Nat /\ MaxCrashes \in Nat /\ MaxLate \in Nat

VARIABLES captured,   (* how many packets were captured                        *)
          buffer,     (* packet_buffer                                         *)
          pc,         (* where the main loop is                                *)
          hand,       (* the packets in the main loop's variables              *)
          disk,       (* what the offline file holds                           *)
          diskState,  (* whether that file is absent, whole or torn            *)
          idFile,     (* the id in AGENT_ID_FILE, 0 if it is absent or empty   *)
          agentId,    (* the sender's agent_id                                 *)
          answer,     (* the id in the answer to a registration                *)
          reply,      (* the answer to the upload under way                    *)
          row,        (* the id of this agent's row at the server              *)
          made,       (* how many rows the server has created for it           *)
          late,       (* uploads the agent no longer waits for                 *)
          got,        (* how often each packet reached the ingestion, up to 2  *)
          crashes,
          excused,    (* history, read by no action: packets a fault or a full
                         buffer puts at risk                                   *)
          suspect     (* history, read by no action: packets the agent may
                         upload again because of a fault                       *)

disks == <<disk, diskState>>
ids == <<idFile, agentId, answer>>
server == <<row, made, late, got>>
history == <<excused, suspect>>
vars == <<captured, buffer, pc, hand, disks, ids, reply, server, crashes, history>>

Packet == 1..MaxPackets
Id == 0..MaxRows
Pcs == {"down", "ssid", "register", "save", "write_id", "collect", "read", "send",
        "waiting", "discard", "open", "write"}
Replies == {"none", "ok", "gone", "error"}

Ascending(s) == \A i, j \in 1..Len(s) : i < j => s[i] < s[j]
MinOf(a, b) == IF a < b THEN a ELSE b
Oldest(s, n) == SubSeq(s, 1, MinOf(n, Len(s)))
Rest(s, n) == SubSeq(s, n + 1, Len(s))
Newest(s, n) == IF Len(s) <= n THEN s ELSE SubSeq(s, Len(s) - n + 1, Len(s))

SentNewest == ToSet(Newest(hand, Batch))

Sent == ToSet(Oldest(hand, Batch))

Init == /\ captured = 0 /\ buffer = <<>> /\ pc = "ssid" /\ hand = <<>>
        /\ disk = <<>> /\ diskState = "absent"
        /\ idFile = 0 /\ agentId = 0 /\ answer = 0 /\ reply = "none"
        /\ row = 0 /\ made = 0 /\ late = {} /\ got = [p \in Packet |-> 0]
        /\ crashes = 0 /\ excused = {} /\ suspect = {}

Excuse(P) == excused' = excused \cup P
Suspect(P) == suspect' = suspect \cup P

-----------------------------------------------------------------------------
(* PacketSniffer.                                                           *)

\* packet_callback, in the capture thread: a full deque drops its oldest packet.
Capture == /\ pc # "down" /\ captured < MaxPackets
           /\ captured' = captured + 1
           /\ buffer' = Newest(Append(buffer, captured + 1), BufferCap)
           /\ Excuse(ToSet(buffer) \ ToSet(buffer'))
           /\ UNCHANGED <<pc, hand, disks, ids, reply, server, crashes, suspect>>

\* get_and_clear_packets: with an empty buffer, perhaps one record made from the
\* counters of the operating system.
TakeBuffer(taken) ==
  /\ buffer' = <<>>
  /\ \/ taken = buffer /\ UNCHANGED captured
     \/ /\ buffer = <<>> /\ captured < MaxPackets
        /\ captured' = captured + 1
        /\ taken = <<captured + 1>>

Takes == {buffer, <<captured + 1>>}

-----------------------------------------------------------------------------
(* The loop of NetInsightAgent.run.                                         *)

\* Connected to another network: what was captured there is thrown away.
WrongSsid == /\ pc = "ssid" /\ SsidChecked
             /\ \E taken \in Takes : TakeBuffer(taken) /\ Excuse(ToSet(taken))
             /\ UNCHANGED <<pc, hand, disks, ids, reply, server, crashes, suspect>>

RightSsid == /\ pc = "ssid"
             /\ pc' = IF agentId = 0 THEN "register" ELSE "collect"
             /\ UNCHANGED <<captured, buffer, hand, disks, ids, reply, server, crashes, history>>

\* api_register_agent: get_or_create by the MAC address.
ServerRegisters == IF row = 0 THEN row' = made + 1 /\ made' = made + 1 /\ made < MaxRows
                              ELSE UNCHANGED <<row, made>>

\* TelemetrySender.register repeats its request until an answer brings an id;
\* an attempt that fails before the server sees it changes nothing.
Register == /\ pc = "register" /\ pc' = "save"
            /\ ServerRegisters
            /\ answer' = row'
            /\ UNCHANGED <<captured, buffer, hand, disks, idFile, agentId, reply, late, got,
                           crashes, history>>

RegisterAnswerLost == /\ pc = "register" /\ row = 0
                      /\ ServerRegisters
                      /\ UNCHANGED <<captured, buffer, pc, hand, disks, ids, reply, late, got,
                                     crashes, history>>

SaveIdMemoryFirst == /\ pc = "save" /\ pc' = "write_id"
                     /\ idFile' = 0 /\ agentId' = answer
                     /\ UNCHANGED <<captured, buffer, hand, disks, answer, reply, server, crashes,
                                    history>>

\* save_agent_id: opening the file for writing empties it ...
SaveId == /\ pc = "save" /\ pc' = "write_id"
          /\ idFile' = 0
          /\ UNCHANGED <<captured, buffer, hand, disks, agentId, answer, reply, server, crashes,
                         history>>

\* ... and only when the id is written is it kept in memory.
WriteId == /\ pc = "write_id" /\ pc' = "collect"
           /\ idFile' = answer /\ agentId' = answer /\ answer' = 0
           /\ UNCHANGED <<captured, buffer, hand, disks, reply, server, crashes, history>>

\* Either call fails: register returns True all the same.
SaveIdFails == /\ pc \in {"save", "write_id"} /\ pc' = "collect"
               /\ answer' = 0
               /\ UNCHANGED <<captured, buffer, hand, disks, idFile, agentId, reply, server, crashes,
                              history>>

Collect == /\ pc = "collect" /\ pc' = "read"
           /\ \E taken \in Takes : TakeBuffer(taken) /\ hand' = taken
           /\ UNCHANGED <<disks, ids, reply, server, crashes, history>>

ReadNewFirst == /\ pc = "read" /\ pc' = "send"
                /\ hand' = IF diskState = "whole" THEN hand \o disk ELSE hand
                /\ UNCHANGED <<captured, buffer, disks, ids, reply, server, crashes, history>>

ReadReplaces == /\ pc = "read" /\ pc' = "send"
                /\ hand' = IF diskState = "whole" THEN disk ELSE hand
                /\ UNCHANGED <<captured, buffer, disks, ids, reply, server, crashes, history>>

\* The offline file, if it can be read, goes in front of the new packets.
Read == /\ pc = "read" /\ pc' = "send"
        /\ hand' = IF diskState = "whole" THEN disk \o hand ELSE hand
        /\ UNCHANGED <<captured, buffer, disks, ids, reply, server, crashes, history>>

\* The error is logged and the loop goes on as if the file were empty.
ReadFails == /\ pc = "read" /\ pc' = "send" /\ diskState = "whole"
             /\ Excuse(ToSet(disk))
             /\ UNCHANGED <<captured, buffer, hand, disks, ids, reply, server, crashes, suspect>>

Send == /\ pc = "send" /\ agentId # 0 /\ pc' = "waiting"
        /\ UNCHANGED <<captured, buffer, hand, disks, ids, reply, server, crashes, history>>

-----------------------------------------------------------------------------
(* What happens to an upload, and send_telemetry's reading of it.           *)

Ingested(P) == got' = [p \in Packet |-> IF p \in P THEN MinOf(got[p] + 1, 2) ELSE got[p]]

\* api_agent_telemetry hands the packets (those of the demo event alone while one
\* is announced) to handle_telemetry_ingestion.  What it computes afterwards for
\* the answer can raise: then it answers 500.
Ingest == /\ pc = "waiting" /\ reply = "none" /\ agentId = row
          /\ Ingested(Sent)
          /\ \/ reply' = "ok" /\ UNCHANGED suspect
             \/ reply' = "error" /\ Suspect(Sent)
          /\ UNCHANGED <<captured, buffer, pc, hand, disks, ids, row, made, late, crashes, excused>>

\* 401, 403 or 500 before the packets are handed on; 404 for an unknown id.
Refuse == /\ pc = "waiting" /\ reply = "none"
          /\ reply' \in {"error"} \cup IF agentId # row THEN {"gone"} ELSE {}
          /\ UNCHANGED <<captured, buffer, pc, hand, disks, ids, server, crashes, history>>

LateUpload == [id |-> agentId, packets |-> Sent]

\* The failure branch: the newest Cap packets are to be written.
Keep == /\ hand' = Newest(hand, Cap)
        /\ Excuse(ToSet(hand) \ ToSet(hand'))
        /\ pc' = "open" /\ reply' = "none"

\* No answer within ten seconds, or a lost connection.  The server may have
\* handled the request, may still do so later, or never see it.
GiveUp == /\ pc = "waiting"
          /\ Keep
          /\ Suspect(Sent)
          /\ \/ UNCHANGED late
             \/ reply = "none" /\ Cardinality(late) < MaxLate /\ late' = late \cup {LateUpload}
          /\ UNCHANGED <<captured, buffer, disks, ids, row, made, got, crashes>>

Rejected == /\ pc = "waiting" /\ reply = "error"
            /\ Keep
            /\ UNCHANGED <<captured, buffer, disks, ids, server, crashes, suspect>>

ForgetNothing == /\ pc = "waiting" /\ reply = "gone"
                 /\ Keep
                 /\ UNCHANGED <<captured, buffer, disks, ids, server, crashes, suspect>>

\* 404: the id file is removed, which may fail, and the id forgotten.
Forget == /\ pc = "waiting" /\ reply = "gone"
          /\ Keep
          /\ idFile' \in {0, idFile}
          /\ agentId' = 0
          /\ UNCHANGED <<captured, buffer, disks, answer, server, crashes, suspect>>

\* send_telemetry refuses at once without an id.
SendWithoutId == /\ pc = "send" /\ agentId = 0
                 /\ Keep
                 /\ UNCHANGED <<captured, buffer, disks, ids, server, crashes, suspect>>

DeliveredKeepsAll == /\ pc = "waiting" /\ reply = "ok"
                     /\ hand' = Newest(hand, Cap)
                     /\ Excuse(ToSet(hand) \ (ToSet(hand') \cup Sent))
                     /\ pc' = IF hand' = <<>> THEN "discard" ELSE "open"
                     /\ reply' = "none"
                     /\ UNCHANGED <<captured, buffer, disks, ids, server, crashes, suspect>>

DeliveredDropsRest == /\ pc = "waiting" /\ reply = "ok"
                      /\ hand' = <<>> /\ pc' = "discard" /\ reply' = "none"
                      /\ UNCHANGED <<captured, buffer, disks, ids, server, crashes, history>>

\* 200: of what was not uploaded the newest Cap packets are to be written; the
\* file is to be removed if nothing remains.
Delivered == /\ pc = "waiting" /\ reply = "ok"
             /\ hand' = Newest(Rest(hand, Batch), Cap)
             /\ Excuse(ToSet(hand) \ (ToSet(hand') \cup Sent))
             /\ pc' = IF hand' = <<>> THEN "discard" ELSE "open"
             /\ reply' = "none"
             /\ UNCHANGED <<captured, buffer, disks, ids, server, crashes, suspect>>

-----------------------------------------------------------------------------
(* The offline file.                                                        *)

\* What the file holds and the loop meant to be rid of.
Obsolete == ToSet(disk) \ ToSet(hand)

Discard == /\ pc = "discard" /\ pc' = "ssid"
           /\ disk' = <<>> /\ diskState' = "absent"
           /\ UNCHANGED <<captured, buffer, hand, ids, reply, server, crashes, history>>

DiscardFails == /\ pc = "discard" /\ pc' = "ssid"
                /\ diskState # "absent"
                /\ Suspect(Obsolete)
                /\ UNCHANGED <<captured, buffer, hand, disks, ids, reply, server, crashes, excused>>

\* open(.., "w") empties the file.
Open == /\ pc = "open" /\ pc' = "write"
        /\ disk' = <<>> /\ diskState' = "torn"
        /\ UNCHANGED <<captured, buffer, hand, ids, reply, server, crashes, history>>

\* The old file stays as it was.
OpenFails == /\ pc = "open" /\ pc' = "ssid"
             /\ Suspect(Obsolete)
             /\ Excuse(ToSet(hand) \ ToSet(disk))
             /\ hand' = <<>>
             /\ UNCHANGED <<captured, buffer, disks, ids, reply, server, crashes>>

Write == /\ pc = "write" /\ pc' = "ssid"
         /\ disk' = hand /\ diskState' = "whole"
         /\ hand' = <<>>
         /\ UNCHANGED <<captured, buffer, ids, reply, server, crashes, history>>

\* json.dump fails half-way.
WriteFails == /\ pc = "write" /\ pc' = "ssid"
              /\ Excuse(ToSet(hand))
              /\ hand' = <<>>
              /\ UNCHANGED <<captured, buffer, disks, ids, reply, server, crashes, suspect>>

-----------------------------------------------------------------------------
(* The rest of the world.                                                   *)

LateIngest(u) == /\ u \in late /\ u.id = row
                 /\ Ingested(u.packets)
                 /\ late' = late \ {u}
                 /\ UNCHANGED <<captured, buffer, pc, hand, disks, ids, reply, row, made, crashes,
                                history>>

LateLost(u) == /\ u \in late
               /\ late' = late \ {u}
               /\ UNCHANGED <<captured, buffer, pc, hand, disks, ids, reply, row, made, got,
                              crashes, history>>

\* The server's database is set up anew.
ServerReset == /\ row # 0 /\ made < MaxRows
               /\ row' = 0
               /\ UNCHANGED <<captured, buffer, pc, hand, disks, ids, reply, made, late, got,
                              crashes, history>>

\* The process is killed, or handle_shutdown ends it in the main thread.
Crash == /\ pc # "down" /\ crashes < MaxCrashes
         /\ pc' = "down" /\ crashes' = crashes + 1
         /\ Excuse(ToSet(buffer) \cup (ToSet(hand) \ ToSet(disk)))
         /\ Suspect(IF pc = "waiting" THEN Sent
                    ELSE IF pc \in {"discard", "open"} THEN Obsolete ELSE {})
         /\ \/ pc = "waiting" /\ reply = "none" /\ Cardinality(late) < MaxLate
               /\ late' = late \cup {LateUpload}
            \/ UNCHANGED late
         /\ buffer' = <<>> /\ hand' = <<>> /\ agentId' = 0 /\ answer' = 0 /\ reply' = "none"
         /\ UNCHANGED <<captured, disks, idFile, row, made, got>>

\* load_agent_id, which may fail to read the file.
Restart == /\ pc = "down" /\ pc' = "ssid"
           /\ agentId' \in {0, idFile}
           /\ UNCHANGED <<captured, buffer, hand, disks, idFile, answer, reply, server, crashes,
                          history>>

-----------------------------------------------------------------------------
Loop == \/ RightSsid \/ WrongSsid \/ Register \/ SaveId \/ WriteId \/ SaveIdFails
        \/ Collect \/ Read \/ ReadFails \/ Send \/ SendWithoutId
        \/ GiveUp \/ Rejected \/ Forget \/ Delivered
        \/ Discard \/ DiscardFails \/ Open \/ OpenFails \/ Write \/ WriteFails \/ Restart

World == \/ RegisterAnswerLost \/ Ingest \/ Refuse \/ ServerReset \/ Crash
         \/ \E u \in late : LateIngest(u) \/ LateLost(u)

Next == Capture \/ Loop \/ World

Spec == Init /\ [][Next]_vars

\* The loop goes on and finds itself on its network again; tried again and again,
\* the id can be saved, an upload is answered 200, or 404 when that is the answer,
\* and the answer arrives in time.
Answered == (Ingest /\ reply' = "ok") \/ (Refuse /\ reply' = "gone")

FairSpec == /\ Spec
            /\ WF_vars(Loop) /\ WF_vars(RightSsid)
            /\ SF_vars(SaveId) /\ SF_vars(WriteId)
            /\ SF_vars(Answered) /\ SF_vars(Delivered \/ Forget)

-----------------------------------------------------------------------------
\* The types of the variables, the caps of the two buffers among them.
TypeOK == /\ captured \in 0..MaxPackets
          /\ buffer \in Seq(Packet) /\ Len(buffer) <= BufferCap
          /\ pc \in Pcs
          /\ hand \in Seq(Packet)
          /\ disk \in Seq(Packet) /\ Len(disk) <= Cap
          /\ diskState \in {"absent", "whole", "torn"}
          /\ idFile \in Id /\ agentId \in Id /\ answer \in Id
          /\ reply \in Replies
          /\ row \in Id /\ made \in Id
          /\ late \in SUBSET [id : Id, packets : SUBSET Packet]
          /\ got \in [Packet -> 0..2]
          /\ crashes \in 0..MaxCrashes
          /\ excused \in SUBSET Packet /\ suspect \in SUBSET Packet

\* A captured packet has reached the server or waits in the buffer, in the loop or
\* in the offline file, unless a buffer was full, a call failed, the process ended
\* or the network was another one.
LossExplained ==
  \A p \in 1..captured : \/ got[p] > 0
                         \/ p \in ToSet(buffer) \cup ToSet(hand) \cup ToSet(disk)
                         \/ p \in excused

\* No packet reaches the ingestion twice unless an answer was lost or an error came
\* after the ingestion, the offline file could not be replaced, or the process ended
\* between the upload and the file.
DuplicateExplained == \A p \in Packet : got[p] > 1 => p \in suspect

\* The agent's copies stay in the order of their capture, so an upload takes the
\* oldest packets and a full file gives up its oldest.
KeptInOrder == Ascending(disk \o buffer) /\ Ascending(hand \o buffer)

\* The server has no gap: what was captured before a packet that it has received it has
\* received too, unless that was put at risk.
NoGap == \A q \in Packet : got[q] > 0 => \A p \in 1..q : got[p] > 0 \/ p \in excused

\* Agent and server deliver packets as Delivery says, whatever is late, lost or repeated.
Deliveries == INSTANCE Delivery WITH received <- {p \in Packet : got[p] > 0},
                                     repeated <- {p \in Packet : got[p] > 1}
UplinkImplementsDelivery == Deliveries!Spec

\* An id in use is on disk: a restart goes on under the same id.
IdSurvives == agentId # 0 => idFile = agentId

\* An agent whose id the server does not know comes to one it knows.
Registered == agentId # 0 /\ agentId = row
Registers == ~Registered ~> Registered

\* A captured packet reaches the server, or a fault or a full buffer excuses it.
PacketsArrive == \A p \in Packet : captured >= p ~> (got[p] > 0 \/ p \in excused)

-----------------------------------------------------------------------------
(* The inductive invariant behind the safety properties.                    *)

\* What the loop holds, and what the offline file does, at each of its steps; only
\* packets that were captured are kept.
PlacesInv ==
  /\ pc \notin {"read", "send", "waiting", "open", "write"} => hand = <<>>
  /\ pc \in {"open", "write"} => Len(hand) <= Cap
  /\ diskState # "whole" \/ pc = "write" => disk = <<>>
  /\ reply # "none" => pc = "waiting"
  /\ ToSet(buffer) \cup ToSet(hand) \cup ToSet(disk) \subseteq 1..captured

\* No id is in use while one is asked for, or saved.
IdInv == IdSurvives /\ (pc \in {"register", "save", "write_id"} => agentId = 0)

\* Every packet of s was captured before every packet of t.
Before(s, t) == \A p \in ToSet(s), q \in ToSet(t) : p < q

\* What is read from the offline file is older than what was just collected.
OrderInv ==
  /\ Ascending(disk) /\ Ascending(hand) /\ Ascending(buffer)
  /\ Before(disk, buffer) /\ Before(hand, buffer)
  /\ pc = "read" => Before(disk, hand)

\* Until the offline file is replaced the loop holds what is in it, or the server has
\* it; the server has what it said it received.
LossInv ==
  /\ LossExplained
  /\ reply = "ok" => \A p \in Sent : got[p] > 0
  /\ pc \in {"send", "waiting"} => ToSet(disk) \subseteq ToSet(hand) \cup excused
  /\ pc \in {"discard", "open"} =>
       \A p \in ToSet(disk) : got[p] > 0 \/ p \in ToSet(hand) \cup excused

\* What the server has received, and no fault lets the agent send again, the agent no
\* longer has, except for the upload whose answer it has not read and for what it is
\* about to remove from the offline file.
DuplicateInv ==
  /\ DuplicateExplained
  /\ \A u \in late : u.packets \subseteq suspect
  /\ \A p \in Packet \ suspect : got[p] > 0 =>
       /\ p <= captured /\ p \notin ToSet(buffer)
       /\ p \in ToSet(hand) => reply = "ok" /\ p \in Sent
       /\ p \in ToSet(disk) => \/ reply = "ok" /\ p \in Sent
                               \/ pc \in {"discard", "open"} /\ p \notin ToSet(hand)

\* Whatever is received now leaves no gap, and neither do the uploads still on their way,
\* since what is older than their packets had been received or put at risk when they left.
GapInv ==
  /\ NoGap
  /\ \A u \in late : /\ u.packets \subseteq 1..captured
                     /\ \A q \in u.packets : \A p \in 1..q :
                          got[p] > 0 \/ p \in excused \cup u.packets

UplinkInv == TypeOK /\ PlacesInv /\ IdInv /\ OrderInv /\ LossInv /\ DuplicateInv
=============================================================================
