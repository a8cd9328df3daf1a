-------------------------- MODULE MqttSession_proofs --------------------------
(***************************************************************************)
(* Proofs about MqttSession, for every set of messages and commands and    *)
(* every width of packet identifiers.                                      *)
(***************************************************************************)
EXTENDS MqttSession, SequenceTheorems, TLAPS

Publishes == {i \in DOMAIN toBroker : toBroker[i].type = "PUBLISH"}

Pubacks == {i \in DOMAIN toDevice : toDevice[i].type = "PUBACK"}

(* Nothing of a publish is under way. *)
Quiet == Publishes = {} /\ Pubacks = {}

(* A call of MQTTPublish is in progress exactly while the task waits in it. *)
CallInProgress == op = "pub" <=> call.rc = "pending"

(* What the task may be blocked in inside and outside a session. *)
OpInSession ==
  /\ op \in {"pub", "yield"} => ~reconnect
  /\ op \in Subscribing => reconnect

(* Between two calls of one session nothing of a publish is under way. *)
QuietBetweenCalls == (op \in Subscribing \/ (~reconnect /\ op # "pub")) => Quiet

(* During a call, its PUBLISH or the PUBACK of it is under way, not both. *)
OneUnderWay ==
  op = "pub" =>
     /\ \A i \in Pubacks : toDevice[i].id = call.id /\ call.reached /\ Publishes = {}
     /\ \A i \in Publishes : toBroker[i].id = call.id /\ toBroker[i].body = call.msg
     /\ \A i, j \in Pubacks : i = j
     /\ \A i, j \in Publishes : i = j

NothingBeforeFirstCall == call.rc = "none" => Publishes = {}

Whole == {p \in Inbound : p.type # "GARBAGE"}

NoGarbage == toDevice \in Seq(Whole)

SessionInv ==
  /\ CallInProgress
  /\ OpInSession
  /\ QuietBetweenCalls
  /\ OneUnderWay
  /\ NothingBeforeFirstCall
  /\ NoGarbage

-----------------------------------------------------------------------------
(* Identifiers and packets. *)

(* getNextPacketId stays within an unsigned int, and what goes on the wire *)
(* within sixteen bits.                                                    *)
LEMMA NextIdInRange ==
  ASSUME next \in 0 .. UintMax
  PROVE  /\ NextId \in 0 .. UintMax
         /\ WireId(NextId) \in 0 .. MaxPacketId
<1>1. \A d \in Nat \ {0}, n \in Nat : n % d \in 0 .. d - 1
  OBVIOUS
<1>2. next + 1 \in Nat /\ UintMax + 1 \in Nat \ {0} /\ MaxPacketId + 1 \in Nat \ {0}
  BY SessionAssumption
<1>3. (next + 1) % (UintMax + 1) \in 0 .. UintMax
  <2>1. (next + 1) % (UintMax + 1) \in 0 .. (UintMax + 1) - 1
    BY <1>1, <1>2
  <2> QED
    BY <2>1, SessionAssumption
<1>4. NextId \in 0 .. UintMax
  BY <1>3, SessionAssumption DEF NextId
<1>5. NextId % (MaxPacketId + 1) \in 0 .. (MaxPacketId + 1) - 1
  BY <1>1, <1>2, <1>4, SessionAssumption
<1>6. WireId(NextId) \in 0 .. MaxPacketId
  BY <1>5, SessionAssumption DEF WireId
<1> QED
  BY <1>4, <1>6

LEMMA PktInPacket ==
  ASSUME NEW t \in Types, NEW i \in 0 .. MaxPacketId, NEW b \in Bodies
  PROVE  Pkt(t, i, b) \in Packet
BY DEF Pkt, Packet

(* The constant packets and bodies the actions name. *)
LEMMA ConstantPackets ==
  /\ 0 \in 0 .. MaxPacketId
  /\ Garbage \in Inbound
  /\ Pkt("PINGREQ", 0, "none") \in Packet
  /\ Pkt("PINGRESP", 0, "none") \in Inbound
  /\ \A b \in Bodies : Pkt("PUBACK", 0, b) \in Packet
  /\ \A c \in Cmds : Pkt("PUBLISH", 0, c) \in Inbound
BY SessionAssumption DEF Garbage, Pkt, Packet, Inbound, Types, Bodies

(* A prefix of a sequence is a sequence of the same elements. *)
LEMMA Prefix ==
  ASSUME NEW S, NEW s \in Seq(S), NEW k \in 0 .. Len(s)
  PROVE  /\ SubSeq(s, 1, k) \in Seq(S)
         /\ DOMAIN SubSeq(s, 1, k) \subseteq DOMAIN s
         /\ \A i \in DOMAIN SubSeq(s, 1, k) : SubSeq(s, 1, k)[i] = s[i]
BY SubSeqProperties

-----------------------------------------------------------------------------
(* Type correctness. *)

(* Ending a turn keeps the types of what it assigns. *)
LEMMA TurnTypes ==
  ASSUME TypeOK, TurnFails \/ TurnSucceeds
  PROVE  reconnect' \in BOOLEAN /\ retry' \in 0 .. MaxRetries - 1 /\ op' \in Ops
<1>1. CASE TurnSucceeds
  BY <1>1 DEF TurnSucceeds, TypeOK, Ops
<1>2. CASE TurnFails
  <2>1. \A d \in Nat \ {0}, n \in Nat : n % d \in 0 .. d - 1
    OBVIOUS
  <2>2. retry \in 0 .. MaxRetries - 1
    BY DEF TypeOK
  <2>3. retry + 1 \in Nat /\ MaxRetries \in Nat \ {0}
    BY <2>2, SessionAssumption
  <2>4. (retry + 1) % MaxRetries \in 0 .. MaxRetries - 1
    BY <2>1, <2>3
  <2> QED
    BY <1>2, <2>4 DEF TurnFails, Ops
<1> QED
  BY <1>1, <1>2

LEMMA CallTypes ==
  ASSUME TypeOK
  PROVE  /\ \A r \in {"ok", "fail"} : PublishReturns(r) =>
              call' \in Calls
         /\ CallFails =>
              /\ reconnect' \in BOOLEAN /\ retry' \in 0 .. MaxRetries - 1 /\ op' \in Ops
              /\ UNCHANGED <<pubCycle, pending>>
              /\ call' \in Calls
<1>1. \A r \in {"ok", "fail"} : PublishReturns(r) =>
              call' \in Calls
  <2>1. call \in Calls
    BY DEF TypeOK
  <2>2. \A r \in {"ok", "fail"} : [call EXCEPT !.rc = r] \in Calls
    BY <2>1 DEF Calls
  <2> QED
    BY <2>1, <2>2 DEF PublishReturns
<1> QED
  BY <1>1, TurnTypes DEF CallFails

(* Appending a packet to a stream, or to one that swallows it. *)
LEMMA StreamTypes ==
  ASSUME TypeOK
  PROVE  /\ \A p \in Packet : Sent(p) \in Seq(Packet)
         /\ \A p \in Inbound : Reply(p) \in Seq(Inbound)
         /\ toDevice # << >> => Head(toDevice) \in Inbound /\ Tail(toDevice) \in Seq(Inbound)
         /\ toBroker # << >> => Head(toBroker) \in Packet /\ Tail(toBroker) \in Seq(Packet)
BY DEF TypeOK, Sent, Reply

LEMMA ForgetTypes ==
  ASSUME TypeOK, ForgetSession
  PROVE  /\ toDevice' \in Seq(Inbound)
         /\ subs' \in [Filters -> {"none", "granted", "refused"}]
         /\ cmd' \in [Cmds -> {"new", "sent", "acked", "lost"}]
BY DEF TypeOK, ForgetSession

LEMMA ResetTypes ==
  ASSUME NEW connected \in BOOLEAN, ResetClient(connected)
  PROVE  isconnected' \in BOOLEAN /\ handler' \in BOOLEAN /\ ping' \in BOOLEAN
BY DEF ResetClient

(* The records a call starts from. *)
LEMMA CallStarts ==
  ASSUME NEW m \in Msgs \cup {NoMsg}, NEW i \in 0 .. MaxPacketId,
         NEW r \in {"none", "pending", "fail"}
  PROVE  [msg |-> m, id |-> i, reached |-> FALSE, rc |-> r] \in Calls
BY DEF Calls

LEMMA InitTypeOK == Init => TypeOK
<1> SUFFICES ASSUME Init PROVE TypeOK
  OBVIOUS
<1>1. 0 \in 0 .. MaxRetries - 1 /\ 0 \in 0 .. MaxPacketId
  BY SessionAssumption
<1> QED
  <2>1. call \in Calls
    BY <1>1, CallStarts DEF Init
  <2>2. /\ online \in BOOLEAN /\ reconnect \in BOOLEAN /\ pubCycle \in BOOLEAN
        /\ isconnected \in BOOLEAN /\ handler \in BOOLEAN /\ ping \in BOOLEAN
    BY DEF Init
  <2>3. toBroker \in Seq(Packet) /\ toDevice \in Seq(Inbound)
    BY DEF Init
  <2> QED
    BY <1>1, <2>1, <2>2, <2>3 DEF Init, TypeOK, Ops

(* The wait for a SUBACK or a PUBACK ends. *)
LEMMA SubackTypes ==
  ASSUME TypeOK, NEW granted \in BOOLEAN, SubackReceived(granted)
  PROVE  /\ handler' \in BOOLEAN /\ UNCHANGED <<pubCycle, pending, call, isconnected, ping>>
         /\ reconnect' \in BOOLEAN /\ retry' \in 0 .. MaxRetries - 1 /\ op' \in Ops
         /\ next' \in 0 .. UintMax /\ toBroker' \in Seq(Packet)
<1>1. /\ handler' \in BOOLEAN
      /\ UNCHANGED <<pubCycle, pending, call, isconnected, ping>>
  BY DEF SubackReceived, TypeOK
<1>2. NextId \in 0 .. UintMax /\ WireId(NextId) \in 0 .. MaxPacketId
  BY NextIdInRange DEF TypeOK
<1>3. Sent(Pkt("SUBSCRIBE", WireId(NextId), "dev")) \in Seq(Packet)
  BY <1>2, PktInPacket, StreamTypes DEF Types, Bodies, Filters
<1>4. CASE op = "sub_all"
  BY <1>2, <1>3, <1>4, TurnTypes DEF SubackReceived, TypeOK, Ops
<1>5. CASE op = "sub_dev"
  <2>1. 0 \in 0 .. MaxRetries - 1
    BY SessionAssumption
  <2> QED
    BY <1>5, <2>1 DEF SubackReceived, TypeOK, Ops
<1> QED
  BY <1>1, <1>4, <1>5 DEF SubackReceived

LEMMA PubackTypes ==
  ASSUME TypeOK, PubackReceived
  PROVE  /\ pending' \in Msgs \cup {NoMsg}
         /\ call' \in Calls
         /\ reconnect' \in BOOLEAN /\ retry' \in 0 .. MaxRetries - 1 /\ op' \in Ops
         /\ UNCHANGED <<pubCycle, next, isconnected, handler, ping, toBroker>>
BY CallTypes, TurnTypes DEF PubackReceived, client

LEMMA KeepaliveTypes ==
  ASSUME TypeOK, NEW outstanding \in BOOLEAN, Keepalive(outstanding)
  PROVE  ping' \in BOOLEAN /\ toBroker' \in Seq(Packet)
BY ConstantPackets, StreamTypes DEF Keepalive, TypeOK

LEMMA ReadTypeOK ==
  ASSUME TypeOK, Read
  PROVE  TypeOK'
<1> USE DEF task, client, net, broker
<1>1. /\ toDevice # << >>
      /\ Head(toDevice) \in Inbound
      /\ Tail(toDevice) \in Seq(Inbound)
  BY StreamTypes DEF Read, ReadAwaited, ReadOther, ReadCommand, ReadShort, ReadGarbage, Reading
<1>2. /\ <<Garbage>> \o Tail(toDevice) \in Seq(Inbound)
      /\ Len(toDevice) > 1 => <<Garbage>> \o Tail(Tail(toDevice)) \in Seq(Inbound)
  <2>1. <<Garbage>> \in Seq(Inbound)
    BY ConstantPackets
  <2>2. Len(toDevice) > 1 => Tail(Tail(toDevice)) \in Seq(Inbound)
    <3>1. toDevice \in Seq(Inbound)
      BY DEF TypeOK
    <3>2. Len(Tail(toDevice)) = Len(toDevice) - 1
      BY <1>1, <3>1, HeadTailProperties
    <3>3. Len(toDevice) > 1 => Tail(toDevice) # << >>
      BY <1>1, <3>1, <3>2, EmptySeq
    <3> QED
      BY <1>1, <3>3, HeadTailProperties
  <2> QED
    BY <1>1, <2>1, <2>2, ConcatProperties
<1>3. CASE ReadAwaited
  <2>1. /\ toDevice' \in Seq(Inbound)
        /\ UNCHANGED <<online, link, subs, cmd, handled>>
    BY <1>1, <1>3 DEF ReadAwaited
  <2>2. CASE SubackReceived(Head(toDevice).body # "refused")
    BY <2>1, <2>2, SubackTypes DEF TypeOK
  <2>3. CASE PubackReceived
    BY <2>1, <2>3, PubackTypes DEF TypeOK
  <2> QED
    BY <1>3, <2>2, <2>3 DEF ReadAwaited
<1>4. CASE ReadOther
  <2>1. (ping /\ Head(toDevice).type # "PINGRESP") \in BOOLEAN
    BY DEF TypeOK
  <2>2. ping' \in BOOLEAN /\ toBroker' \in Seq(Packet)
    BY <1>4, <2>1, KeepaliveTypes DEF ReadOther
  <2> QED
    BY <1>1, <1>4, <2>2 DEF ReadOther, TypeOK
<1>5. CASE ReadCommand
  <2> DEFINE c == Head(toDevice).body
  <2>1. c \in Bodies
    BY <1>1 DEF Packet, Inbound
  <2>2. Sent(Pkt("PUBACK", 0, c)) \in Seq(Packet)
    BY <2>1, ConstantPackets, StreamTypes
  <2>3. handled' \subseteq Cmds
    BY <1>1, <1>5 DEF ReadCommand, Inbound, TypeOK
  <2>4. /\ toDevice' \in Seq(Inbound)
        /\ UNCHANGED <<online, next, isconnected, handler, ping, link, subs, cmd>>
    BY <1>1, <1>5 DEF ReadCommand
  <2>5. CASE CallFails /\ UNCHANGED toBroker
    BY <2>3, <2>4, <2>5, CallTypes DEF TypeOK
  <2>6. CASE UNCHANGED task /\ (toBroker' = Sent(Pkt("PUBACK", 0, c)) \/ UNCHANGED toBroker)
    BY <2>2, <2>3, <2>4, <2>6 DEF TypeOK
  <2> QED
    BY <1>5, <2>5, <2>6 DEF ReadCommand
<1>6. CASE ReadShort
  <2>1. /\ toDevice' \in Seq(Inbound)
        /\ UNCHANGED <<online, link, subs, cmd, handled>>
    BY <1>1, <1>2, <1>6 DEF ReadShort, Remains
  <2>2. CASE /\ op = "yield" /\ TurnSucceeds
             /\ Keepalive(ping /\ Head(toDevice).type # "PINGRESP")
             /\ UNCHANGED <<pubCycle, pending, call, next, isconnected, handler>>
    <3>1. (ping /\ Head(toDevice).type # "PINGRESP") \in BOOLEAN
      BY DEF TypeOK
    <3>2. ping' \in BOOLEAN /\ toBroker' \in Seq(Packet)
      BY <2>2, <3>1, KeepaliveTypes
    <3> QED
      BY <2>1, <2>2, <3>2, TurnTypes DEF TypeOK
  <2>3. CASE /\ CallFails
             /\ handler' = (handler \/ (op \in Subscribing /\ Head(toDevice).type = "SUBACK"))
             /\ ping' \in {ping, ping /\ Head(toDevice).type # "PINGRESP"}
             /\ UNCHANGED <<next, isconnected, toBroker>>
    BY <2>1, <2>3, CallTypes DEF TypeOK
  <2>4. CASE PubackReceived
    BY <2>1, <2>4, PubackTypes DEF TypeOK
  <2> QED
    BY <1>6, <2>2, <2>3, <2>4 DEF ReadShort
<1>7. CASE ReadGarbage
  <2>1. /\ toDevice' \in Seq(Inbound)
        /\ UNCHANGED <<online, link, subs, cmd, handled>>
    BY <1>1, <1>2, <1>7 DEF ReadGarbage
  <2>2. CASE /\ \E outstanding \in {ping, FALSE} : Keepalive(outstanding)
             /\ UNCHANGED <<task, next, isconnected, handler>>
    <3>1. ping \in BOOLEAN
      BY DEF TypeOK
    <3>2. ping' \in BOOLEAN /\ toBroker' \in Seq(Packet)
      BY <2>2, <3>1, KeepaliveTypes
    <3> QED
      BY <2>1, <2>2, <3>2 DEF TypeOK
  <2>3. CASE CallFails /\ UNCHANGED <<client, toBroker>>
    BY <2>1, <2>3, CallTypes DEF TypeOK
  <2>4. CASE \E granted \in BOOLEAN : SubackReceived(granted)
    BY <2>1, <2>4, SubackTypes DEF TypeOK
  <2>5. CASE PubackReceived
    BY <2>1, <2>5, PubackTypes DEF TypeOK
  <2> QED
    BY <1>7, <2>2, <2>3, <2>4, <2>5 DEF ReadGarbage
<1> QED
  BY <1>3, <1>4, <1>5, <1>6, <1>7 DEF Read

LEMMA TaskTypeOK ==
  ASSUME TypeOK, Task
  PROVE  TypeOK'
<1> USE DEF task, client, net, broker
<1>1. CASE Wake
  BY <1>1 DEF Wake, TypeOK, Ops
<1>2. CASE TimeNotSet
  BY <1>2, TurnTypes DEF TimeNotSet, TypeOK
<1>3. CASE NoSocket
  BY <1>3, TurnTypes, ForgetTypes DEF NoSocket, TypeOK
<1>4. CASE NoConnack
  <2>1. isconnected' \in BOOLEAN /\ handler' \in BOOLEAN /\ ping' \in BOOLEAN
    BY <1>4, ResetTypes DEF NoConnack
  <2>2. toBroker' \in Seq(Packet)
    BY <1>4 DEF NoConnack
  <2> QED
    BY <1>4, <2>1, <2>2, TurnTypes, ForgetTypes DEF NoConnack, TypeOK
<1>5. CASE ConnectRefused
  <2>1. isconnected' \in BOOLEAN /\ handler' \in BOOLEAN /\ ping' \in BOOLEAN
    BY <1>5, ResetTypes DEF ConnectRefused
  <2>2. toBroker' \in Seq(Packet)
    BY <1>5 DEF ConnectRefused
  <2> QED
    BY <1>5, <2>1, <2>2, ForgetTypes DEF ConnectRefused, TypeOK
<1>6. CASE Connect
  <2>1. NextId \in 0 .. UintMax /\ WireId(NextId) \in 0 .. MaxPacketId
    BY NextIdInRange DEF TypeOK
  <2>2. Pkt("SUBSCRIBE", WireId(NextId), "all") \in Packet
    BY <2>1, PktInPacket DEF Types, Bodies, Filters
  <2>3. <<Pkt("SUBSCRIBE", WireId(NextId), "all")>> \in Seq(Packet)
    BY <2>2
  <2> QED
    BY <1>6, <2>1, <2>2, <2>3, ForgetTypes, ResetTypes DEF Connect, TypeOK, Ops
<1>7. CASE BeginPublish
  <2>1. NextId \in 0 .. UintMax /\ WireId(NextId) \in 0 .. MaxPacketId
    BY NextIdInRange DEF TypeOK
  <2>2. pending \in Msgs
    BY <1>7 DEF BeginPublish, TypeOK
  <2>3. Pkt("PUBLISH", WireId(NextId), pending) \in Packet
    BY <2>1, <2>2, PktInPacket DEF Types, Bodies
  <2>4. Sent(Pkt("PUBLISH", WireId(NextId), pending)) \in Seq(Packet)
    BY <2>3, StreamTypes
  <2>5. 0 \in 0 .. MaxPacketId
    BY ConstantPackets
  <2>6. CASE isconnected /\ pending \notin Oversized /\ CanSend
    <3>1. [msg |-> pending, id |-> WireId(NextId), reached |-> FALSE, rc |-> "pending"] \in Calls
      BY <2>1, <2>2, CallStarts
    <3> QED
      BY <1>7, <2>1, <2>4, <2>6, <3>1 DEF BeginPublish, TypeOK, Ops
  <2>7. CASE ~(isconnected /\ pending \notin Oversized /\ CanSend)
    <3>1. [msg |-> pending, id |-> 0, reached |-> FALSE, rc |-> "fail"] \in Calls
      BY <2>2, <2>5, CallStarts
    <3> QED
      BY <1>7, <2>1, <2>7, <3>1, TurnTypes DEF BeginPublish, TypeOK
  <2> QED
    BY <2>6, <2>7
<1>8. CASE BeginYield
  BY <1>8 DEF BeginYield, TypeOK, Ops
<1>9. CASE WaitExpires
  BY <1>9, CallTypes DEF WaitExpires, TypeOK
<1>10. CASE YieldExpires
  BY <1>10, TurnTypes, StreamTypes, ConstantPackets DEF YieldExpires, Keepalive, TypeOK
<1>11. CASE YieldFails
  BY <1>11, CallTypes DEF YieldFails, TypeOK
<1>12. CASE Read
  BY <1>12, ReadTypeOK
<1> QED
  BY <1>1, <1>2, <1>3, <1>4, <1>5, <1>6, <1>7, <1>8, <1>9, <1>10, <1>11, <1>12
     DEF Task, Initialize
LEMMA EnvironmentTypeOK ==
  ASSUME TypeOK, Environment
  PROVE  TypeOK'
<1> USE DEF task, client, net, broker
<1>1. ASSUME NEW m \in Msgs, Request(m) PROVE TypeOK'
  BY <1>1 DEF Request, TypeOK
<1>2. CASE BrokerAnswers
  <2> DEFINE p == Head(toBroker)
  <2>1. p \in Packet /\ Tail(toBroker) \in Seq(Packet) /\ toBroker # << >>
    BY <1>2, StreamTypes DEF BrokerAnswers
  <2>2. p.id \in 0 .. MaxPacketId
    BY <2>1 DEF Packet
  <2>3. \A b \in {"granted", "refused"} : Pkt("SUBACK", p.id, b) \in Inbound
    BY <2>2 DEF Pkt, Packet, Inbound, Types, Bodies
  <2>4. Pkt("PUBACK", p.id, "none") \in Inbound
    BY <2>2 DEF Pkt, Packet, Inbound, Types, Bodies
  <2>5. /\ toBroker' \in Seq(Packet)
        /\ UNCHANGED <<online, op, reconnect, retry, pubCycle, pending, client, link, handled>>
    BY <1>2, <2>1 DEF BrokerAnswers
  <2>6. CASE p.type = "SUBSCRIBE"
    <3>1. PICK a \in {"granted", "refused"} :
            /\ subs' = [subs EXCEPT ![p.body] = a]
            /\ UNCHANGED call
            /\ \/ /\ toDevice' = Reply(Pkt("SUBACK", p.id, a))
                  /\ UNCHANGED cmd
               \/ \E c \in Cmds :
                    /\ cmd' = [cmd EXCEPT ![c] = "sent"]
                    /\ toDevice' = toDevice \o <<Pkt("PUBLISH", 0, c), Pkt("SUBACK", p.id, a)>>
      BY <1>2, <2>6 DEF BrokerAnswers
    <3>2. subs' \in [Filters -> {"none", "granted", "refused"}]
      BY <3>1 DEF TypeOK
    <3>3. CASE toDevice' = Reply(Pkt("SUBACK", p.id, a)) /\ UNCHANGED cmd
      <4>1. toDevice' \in Seq(Inbound)
        BY <2>3, <3>3, StreamTypes
      <4> QED
        BY <2>5, <3>1, <3>2, <3>3, <4>1 DEF TypeOK
    <3>4. ASSUME NEW c \in Cmds,
                 cmd' = [cmd EXCEPT ![c] = "sent"],
                 toDevice' = toDevice \o <<Pkt("PUBLISH", 0, c), Pkt("SUBACK", p.id, a)>>
          PROVE  TypeOK'
      <4>1. <<Pkt("PUBLISH", 0, c), Pkt("SUBACK", p.id, a)>> \in Seq(Inbound)
        BY <2>3, ConstantPackets
      <4>2. toDevice' \in Seq(Inbound)
        BY <3>4, <4>1 DEF TypeOK
      <4> QED
        BY <2>5, <3>1, <3>2, <3>4, <4>2 DEF TypeOK
    <3> QED
      BY <3>1, <3>3, <3>4
  <2>7. CASE p.type = "PUBLISH"
    <3>1. toDevice' \in Seq(Inbound)
      BY <1>2, <2>4, <2>7, StreamTypes DEF BrokerAnswers
    <3>2. call' \in Calls
      <4>1. call \in Calls
        BY DEF TypeOK
      <4>2. call' = [call EXCEPT !.reached = @ \/ (p.id = call.id /\ p.body = call.msg)]
        BY <1>2, <2>7 DEF BrokerAnswers
      <4> QED
        BY <4>1, <4>2 DEF Calls
    <3> QED
      BY <1>2, <2>5, <2>7, <3>1, <3>2 DEF BrokerAnswers, TypeOK
  <2>8. CASE p.type = "PUBACK"
    BY <1>2, <2>5, <2>8 DEF BrokerAnswers, TypeOK
  <2>9. CASE p.type = "PINGREQ"
    <3>1. toDevice' \in Seq(Inbound)
      BY <1>2, <2>9, ConstantPackets, StreamTypes DEF BrokerAnswers
    <3> QED
      BY <1>2, <2>5, <2>9, <3>1 DEF BrokerAnswers, TypeOK
  <2> QED
    BY <1>2, <2>6, <2>7, <2>8, <2>9 DEF BrokerAnswers
<1>3. ASSUME NEW c \in Cmds, BrokerPublishes(c) PROVE TypeOK'
  <2>1. toDevice' \in Seq(Inbound)
    BY <1>3, ConstantPackets DEF BrokerPublishes, TypeOK
  <2> QED
    BY <1>3, <2>1 DEF BrokerPublishes, TypeOK
<1>4. CASE LinkBreaks
  <2>1. toBroker' \in Seq(Packet) /\ toDevice' \in Seq(Inbound)
    BY <1>4, Prefix DEF LinkBreaks, TypeOK
  <2> QED
    BY <1>4, <2>1 DEF LinkBreaks, TypeOK
<1>5. CASE NetChanges
  BY <1>5 DEF NetChanges, TypeOK
<1> QED
  BY <1>1, <1>2, <1>3, <1>4, <1>5 DEF Environment

(* The variables of a session always have values of the types the code     *)
(* gives them: the retry counter wraps, every identifier on the wire fits  *)
(* 16 bits, and messageArrived is called with commands only.               *)
THEOREM TypeCorrect == Spec => []TypeOK
<1>1. Init => TypeOK
  BY InitTypeOK
<1>2. TypeOK /\ [Next]_vars => TypeOK'
  <2> SUFFICES ASSUME TypeOK, [Next]_vars PROVE TypeOK'
    OBVIOUS
  <2>1. CASE Task
    BY <2>1, TaskTypeOK
  <2>2. CASE Environment
    BY <2>2, EnvironmentTypeOK
  <2>3. CASE UNCHANGED vars
    BY <2>3 DEF vars, task, client, net, broker, TypeOK
  <2> QED
    BY <2>1, <2>2, <2>3 DEF Next
<1> QED
  BY <1>1, <1>2, PTL DEF Spec

-----------------------------------------------------------------------------
(* Acknowledgements.  All that follows assumes that packets arrive whole:  *)
(* what is left of a packet cut short may be read as a PUBACK.             *)

(* What the task does with a packet, a timeout or a wakeup adds nothing to *)
(* the PUBLISHes and PUBACKs under way, but may shift them by one place.   *)
KeepsPublishes ==
  \E k \in {0, 1} : \A i \in Publishes' : i + k \in Publishes /\ toBroker'[i] = toBroker[i + k]

KeepsPubacks ==
  \E k \in {0, 1} : \A i \in Pubacks' : i + k \in Pubacks /\ toDevice'[i] = toDevice[i + k]

(* How a step may move the task when it keeps them. *)
Moves ==
  \/ UNCHANGED <<op, reconnect, call>>
  \/ op' \in {"backoff", "long"} /\ reconnect' = TRUE /\ PublishReturns("fail")
  \/ /\ op \notin {"pub"} \cup Subscribing
     /\ op' \in {"idle", "yield"}
     /\ op' = "yield" => ~reconnect
     /\ UNCHANGED <<reconnect, call>>
  \/ op \in Subscribing /\ op' = "idle" /\ reconnect' = FALSE /\ UNCHANGED call
  \/ op = "sub_all" /\ op' = "sub_dev" /\ UNCHANGED <<reconnect, call>>

LEMMA AppendKeeps ==
  ASSUME NEW S, NEW s \in Seq(S), NEW p \in S
  PROVE  \A i \in DOMAIN Append(s, p) :
            \/ i \in DOMAIN s /\ Append(s, p)[i] = s[i]
            \/ i = Len(s) + 1 /\ Append(s, p)[i] = p
BY AppendProperties

LEMMA TailKeeps ==
  ASSUME NEW S, NEW s \in Seq(S), s # << >>
  PROVE  \A i \in DOMAIN Tail(s) : i + 1 \in DOMAIN s /\ Tail(s)[i] = s[i + 1]
BY HeadTailProperties

(* A step that keeps both streams and moves the task as above preserves    *)
(* the invariant.                                                          *)
LEMMA KeepInv ==
  ASSUME TypeOK, TypeOK', SessionInv, KeepsPublishes, KeepsPubacks, NoGarbage', Moves
  PROVE  SessionInv'
<1>1. Quiet => Quiet'
  BY DEF Quiet, KeepsPublishes, KeepsPubacks
<1>2. CallInProgress' /\ OpInSession'
  <2>1. call \in Calls
    BY DEF TypeOK
  <2> QED
    BY <2>1 DEF SessionInv, CallInProgress, OpInSession, Moves, PublishReturns, Subscribing, Calls
<1>3. QuietBetweenCalls'
  BY <1>1 DEF SessionInv, QuietBetweenCalls, OpInSession, Moves, Subscribing
<1>4. OneUnderWay'
  <2> SUFFICES ASSUME op' = "pub" PROVE OneUnderWay'
    BY DEF OneUnderWay
  <2>1. op = "pub" /\ UNCHANGED call
    BY DEF Moves, Subscribing
  <2>2. PICK k \in {0, 1} : \A i \in Publishes' : i + k \in Publishes /\ toBroker'[i] = toBroker[i + k]
    BY DEF KeepsPublishes
  <2>3. PICK l \in {0, 1} : \A i \in Pubacks' : i + l \in Pubacks /\ toDevice'[i] = toDevice[i + l]
    BY DEF KeepsPubacks
  <2>4. Publishes' \subseteq Nat /\ Pubacks' \subseteq Nat
    BY DEF Publishes, Pubacks, TypeOK
  <2>5. Publishes = {} => Publishes' = {}
    BY <2>2
  <2>6. \A i, j \in Publishes' : i = j
    BY <2>1, <2>2, <2>4 DEF SessionInv, OneUnderWay
  <2>7. \A i, j \in Pubacks' : i = j
    BY <2>1, <2>3, <2>4 DEF SessionInv, OneUnderWay
  <2>8. \A i \in Pubacks' : toDevice'[i].id = call.id /\ call.reached /\ Publishes' = {}
    BY <2>1, <2>3, <2>5 DEF SessionInv, OneUnderWay
  <2>9. \A i \in Publishes' : toBroker'[i].id = call.id /\ toBroker'[i].body = call.msg
    BY <2>1, <2>2 DEF SessionInv, OneUnderWay
  <2> QED
    BY <2>1, <2>6, <2>7, <2>8, <2>9 DEF OneUnderWay
<1>5. NothingBeforeFirstCall'
  <2>1. call'.rc = "none" => call.rc = "none"
    <3>1. call \in Calls
      BY DEF TypeOK
    <3> QED
      BY <3>1 DEF Moves, PublishReturns, Calls
  <2> QED
    BY <2>1 DEF SessionInv, NothingBeforeFirstCall, KeepsPublishes
<1> QED
  BY <1>2, <1>3, <1>4, <1>5 DEF SessionInv

(* The ways the streams are kept. *)
LEMMA KeptStreams ==
  ASSUME TypeOK, NoGarbage
  PROVE  /\ UNCHANGED toBroker => KeepsPublishes
         /\ toBroker' = << >> => KeepsPublishes
         /\ \A p \in Packet : p.type # "PUBLISH" /\ toBroker' = Sent(p) => KeepsPublishes
         /\ toBroker # << >> /\ toBroker' = Tail(toBroker) => KeepsPublishes
         /\ \A k \in 0 .. Len(toBroker) : toBroker' = SubSeq(toBroker, 1, k) => KeepsPublishes
         /\ UNCHANGED toDevice => KeepsPubacks /\ NoGarbage'
         /\ toDevice' = << >> => KeepsPubacks /\ NoGarbage'
         /\ \A p \in Whole : toDevice' = Reply(p) =>
                NoGarbage' /\ (p.type # "PUBACK" => KeepsPubacks)
         /\ toDevice # << >> /\ toDevice' = Tail(toDevice) => KeepsPubacks /\ NoGarbage'
         /\ \A k \in 0 .. Len(toDevice) :
              toDevice' = SubSeq(toDevice, 1, k) => KeepsPubacks /\ NoGarbage'
<1>1. toBroker \in Seq(Packet) /\ toDevice \in Seq(Whole)
  BY DEF TypeOK, NoGarbage
<1>2. /\ DOMAIN toBroker \subseteq Nat /\ DOMAIN toDevice \subseteq Nat
      /\ \A n \in Nat : n + 0 = n
  BY <1>1
<1>3. /\ UNCHANGED toBroker => KeepsPublishes
      /\ UNCHANGED toDevice => KeepsPubacks /\ NoGarbage'
  BY <1>1, <1>2 DEF KeepsPublishes, KeepsPubacks, Publishes, Pubacks, NoGarbage
<1>4. /\ toBroker' = << >> => KeepsPublishes
      /\ toDevice' = << >> => KeepsPubacks /\ NoGarbage'
  <2>1. toBroker' = << >> => Publishes' = {}
    BY DEF Publishes
  <2>2. toDevice' = << >> => Pubacks' = {} /\ NoGarbage'
    BY DEF Pubacks, NoGarbage
  <2> QED
    BY <2>1, <2>2 DEF KeepsPublishes, KeepsPubacks
<1>5. ASSUME NEW p \in Packet, p.type # "PUBLISH", toBroker' = Sent(p) PROVE KeepsPublishes
  <2>1. CASE link = "up"
    <3>1. \A i \in Publishes' : i \in Publishes /\ toBroker'[i] = toBroker[i]
      BY <1>1, <1>5, <2>1, AppendKeeps DEF Sent, Publishes
    <3> QED
      BY <1>2, <3>1 DEF KeepsPublishes, Publishes
  <2> QED
    BY <1>3, <1>5, <2>1 DEF Sent
<1>6. ASSUME NEW p \in Whole, toDevice' = Reply(p)
      PROVE  NoGarbage' /\ (p.type # "PUBACK" => KeepsPubacks)
  <2>1. CASE link = "up"
    <3>1. toDevice' = Append(toDevice, p)
      BY <1>6, <2>1 DEF Reply
    <3>2. toDevice' \in Seq(Whole)
      BY <1>1, <3>1
    <3>3. p.type # "PUBACK" => \A i \in Pubacks' : i \in Pubacks /\ toDevice'[i] = toDevice[i]
      BY <1>1, <3>1, AppendKeeps DEF Pubacks
    <3> QED
      BY <1>2, <3>2, <3>3 DEF KeepsPubacks, Pubacks, NoGarbage
  <2> QED
    BY <1>3, <1>6, <2>1 DEF Reply
<1>7. ASSUME toBroker # << >>, toBroker' = Tail(toBroker) PROVE KeepsPublishes
  BY <1>1, <1>7, TailKeeps DEF KeepsPublishes, Publishes
<1>8. ASSUME toDevice # << >>, toDevice' = Tail(toDevice) PROVE KeepsPubacks /\ NoGarbage'
  BY <1>1, <1>8, TailKeeps DEF KeepsPubacks, Pubacks, NoGarbage
<1>9. ASSUME NEW k \in 0 .. Len(toBroker), toBroker' = SubSeq(toBroker, 1, k) PROVE KeepsPublishes
  <2>1. \A i \in Publishes' : i \in Publishes /\ toBroker'[i] = toBroker[i]
    BY <1>1, <1>9, Prefix DEF Publishes
  <2> QED
    BY <1>2, <2>1 DEF KeepsPublishes, Publishes
<1>10. ASSUME NEW k \in 0 .. Len(toDevice), toDevice' = SubSeq(toDevice, 1, k)
       PROVE  KeepsPubacks /\ NoGarbage'
  <2>1. \A i \in Pubacks' : i \in Pubacks /\ toDevice'[i] = toDevice[i]
    BY <1>1, <1>10, Prefix DEF Pubacks
  <2>2. toDevice' \in Seq(Whole)
    BY <1>1, <1>10, Prefix
  <2> QED
    BY <1>2, <2>1, <2>2 DEF KeepsPubacks, Pubacks, NoGarbage
<1> QED
  BY <1>3, <1>4, <1>5, <1>6, <1>7, <1>8, <1>9, <1>10

LEMMA InitSessionInv == Init => SessionInv
<1> SUFFICES ASSUME Init PROVE SessionInv
  OBVIOUS
<1>1. Publishes = {} /\ Pubacks = {}
  BY DEF Init, Publishes, Pubacks
<1>2. toDevice \in Seq(Whole) /\ call.rc = "none"
  BY DEF Init
<1> QED
  BY <1>1, <1>2 DEF Init, SessionInv, CallInProgress, OpInSession, QuietBetweenCalls, OneUnderWay,
                 NothingBeforeFirstCall, NoGarbage, Quiet, Subscribing

(* A new session starts with empty streams. *)
LEMMA ForgetInv ==
  ASSUME TypeOK, TypeOK', SessionInv, op = "idle", toBroker' = << >>, ForgetSession,
         UNCHANGED call, reconnect' = TRUE, op' \in {"idle", "backoff", "long"}
  PROVE  SessionInv'
<1>1. Publishes' = {} /\ Pubacks' = {}
  BY DEF ForgetSession, Publishes, Pubacks
<1>2. NoGarbage'
  BY DEF ForgetSession, NoGarbage
<1> QED
  BY <1>1, <1>2 DEF SessionInv, CallInProgress, OpInSession, QuietBetweenCalls, OneUnderWay,
                 NothingBeforeFirstCall, Subscribing, Quiet

LEMMA ConnectInv ==
  ASSUME TypeOK, TypeOK', SessionInv, Connect
  PROVE  SessionInv'
<1>1. toBroker' = <<Pkt("SUBSCRIBE", WireId(NextId), "all")>> /\ toDevice' = << >>
  BY DEF Connect, ForgetSession
<1>2. Pubacks' = {} /\ NoGarbage'
  BY <1>1 DEF Pubacks, NoGarbage
<1>3. Publishes' = {}
  BY <1>1 DEF Publishes, Pkt
<1>4. op = "idle" /\ op' = "sub_all" /\ reconnect /\ UNCHANGED <<reconnect, call>>
  BY DEF Connect, Reconnecting
<1> QED
  BY <1>2, <1>3, <1>4 DEF SessionInv, CallInProgress, OpInSession, QuietBetweenCalls, OneUnderWay,
                 NothingBeforeFirstCall, Subscribing, Quiet

(* A call begins when nothing of an earlier one is under way. *)
LEMMA BeginPublishInv ==
  ASSUME TypeOK, TypeOK', SessionInv, BeginPublish
  PROVE  SessionInv'
<1> DEFINE p == Pkt("PUBLISH", WireId(NextId), pending)
<1>1. Publishes = {} /\ Pubacks = {} /\ NoGarbage
  BY DEF BeginPublish, InSession, SessionInv, QuietBetweenCalls, Quiet
<1>2. Pubacks' = {} /\ NoGarbage'
  BY <1>1 DEF BeginPublish, Pubacks, NoGarbage
<1>3. CASE isconnected /\ pending \notin Oversized /\ CanSend
  <2>1. /\ toBroker' = Sent(p)
        /\ call' = [msg |-> pending, id |-> WireId(NextId), reached |-> FALSE, rc |-> "pending"]
        /\ op' = "pub" /\ ~reconnect /\ UNCHANGED reconnect
    BY <1>3 DEF BeginPublish, InSession
  <2>2. p \in Packet /\ toBroker \in Seq(Packet)
    <3>1. pending \in Msgs /\ WireId(NextId) \in 0 .. MaxPacketId
      BY NextIdInRange DEF BeginPublish, TypeOK
    <3> QED
      BY <3>1, PktInPacket DEF TypeOK, Types, Bodies
  <2>3. \A i \in Publishes' : i = Len(toBroker) + 1 /\ toBroker'[i] = p
    BY <1>1, <2>1, <2>2, AppendKeeps DEF Sent, Publishes
  <2>4. \A i, j \in Publishes' : i = j
    BY <2>3
  <2>5. p.id = call'.id /\ p.body = call'.msg /\ call'.rc = "pending"
    BY <2>1 DEF Pkt
  <2>6. OneUnderWay'
    BY <1>2, <2>3, <2>4, <2>5 DEF OneUnderWay
  <2> QED
    BY <1>2, <2>1, <2>5, <2>6 DEF SessionInv, CallInProgress, OpInSession, QuietBetweenCalls,
                               NothingBeforeFirstCall, Subscribing
<1>4. CASE ~(isconnected /\ pending \notin Oversized /\ CanSend)
  <2>1. /\ call' = [msg |-> pending, id |-> 0, reached |-> FALSE, rc |-> "fail"]
        /\ TurnFails
        /\ UNCHANGED toBroker
    BY <1>4 DEF BeginPublish
  <2>2. op' \in {"backoff", "long"} /\ reconnect' = TRUE /\ call'.rc = "fail"
    BY <2>1 DEF TurnFails
  <2> QED
    BY <1>2, <2>2 DEF SessionInv, CallInProgress, OpInSession, QuietBetweenCalls, OneUnderWay,
                     NothingBeforeFirstCall, Subscribing
<1> QED
  BY <1>3, <1>4

(* The PUBACK that ends a call is the only one: nothing is left behind. *)
LEMMA PubackInv ==
  ASSUME TypeOK, TypeOK', SessionInv, ReadAwaited, PubackReceived
  PROVE  SessionInv' /\ call.rc = "pending" /\ call.reached
<1>1. toDevice # << >> /\ toDevice' = Tail(toDevice) /\ Head(toDevice).type = "PUBACK" /\ op = "pub"
  BY DEF ReadAwaited, PubackReceived, Reading, Awaited
<1>2. toDevice \in Seq(Inbound)
  BY DEF TypeOK
<1>3. 1 \in Pubacks
  BY <1>1, <1>2 DEF Pubacks
<1>4. Pubacks = {1} /\ Publishes = {} /\ call.reached
  BY <1>1, <1>3 DEF SessionInv, OneUnderWay
<1>5. Pubacks' = {}
  <2>1. \A i \in Pubacks' : i + 1 \in Pubacks /\ i \in Nat \ {0}
    <3>1. toDevice' \in Seq(Inbound)
      BY DEF TypeOK
    <3> QED
      BY <1>1, <1>2, <3>1, TailKeeps DEF Pubacks
  <2> QED
    BY <1>4, <2>1
<1>6. Publishes' = {}
  BY <1>4 DEF PubackReceived, Publishes
<1>7. NoGarbage'
  BY <1>1, KeptStreams DEF SessionInv
<1>8. op' = "idle" /\ ~reconnect' /\ call'.rc = "ok" /\ call.rc = "pending"
  <2>1. call \in Calls
    BY DEF TypeOK
  <2> QED
    BY <1>1, <2>1 DEF PubackReceived, PublishReturns, TurnSucceeds, SessionInv, CallInProgress, OpInSession, Calls
<1> QED
  BY <1>4, <1>5, <1>6, <1>7, <1>8 DEF SessionInv, CallInProgress, OpInSession, QuietBetweenCalls,
             OneUnderWay, NothingBeforeFirstCall, Subscribing, Quiet

LEMMA TurnMoves ==
  ASSUME TypeOK, SessionInv
  PROVE  /\ CallFails => Moves
         /\ TurnFails /\ op # "pub" /\ UNCHANGED call => Moves
BY DEF CallFails, TurnFails, Moves, PublishReturns

LEMMA KeepaliveKeeps ==
  ASSUME TypeOK, NoGarbage, NEW outstanding, Keepalive(outstanding)
  PROVE  KeepsPublishes
<1>1. Pkt("PINGREQ", 0, "none") \in Packet /\ Pkt("PINGREQ", 0, "none").type # "PUBLISH"
  BY ConstantPackets DEF Pkt
<1> QED
  BY <1>1, KeptStreams DEF Keepalive

LEMMA SubackInv ==
  ASSUME TypeOK, TypeOK', SessionInv, ReadAwaited, op \in Subscribing,
         SubackReceived(Head(toDevice).body # "refused")
  PROVE  SessionInv'
<1>1. toDevice # << >> /\ toDevice' = Tail(toDevice)
  BY DEF ReadAwaited, Reading
<1>2. KeepsPubacks /\ NoGarbage'
  BY <1>1, KeptStreams DEF SessionInv
<1>3. CASE op = "sub_all"
  <2>1. WireId(NextId) \in 0 .. MaxPacketId
    BY NextIdInRange DEF TypeOK
  <2>2. /\ Pkt("SUBSCRIBE", WireId(NextId), "dev") \in Packet
        /\ Pkt("SUBSCRIBE", WireId(NextId), "dev").type # "PUBLISH"
    BY <2>1, PktInPacket DEF Types, Bodies, Filters, Pkt
  <2>3. KeepsPublishes
    BY <1>3, <2>2, KeptStreams DEF SubackReceived, SessionInv
  <2>4. Moves
    BY <1>3, TurnMoves DEF SubackReceived, Moves
  <2> QED
    BY <1>2, <2>3, <2>4, KeepInv
<1>4. CASE op = "sub_dev"
  <2>1. KeepsPublishes
    BY <1>4, KeptStreams DEF SubackReceived, SessionInv
  <2>2. Moves
    BY <1>4 DEF SubackReceived, Moves, Subscribing
  <2> QED
    BY <1>2, <2>1, <2>2, KeepInv
<1> QED
  BY <1>3, <1>4 DEF Subscribing

LEMMA TaskInv ==
  ASSUME TypeOK, TypeOK', SessionInv, ShortReads = 0, Task
  PROVE  SessionInv'
<1> USE DEF task, client, net, broker
<1>1. NoGarbage
  BY DEF SessionInv
<1>2. CASE Wake
  BY <1>1, <1>2, KeepInv, KeptStreams DEF Wake, Moves, Subscribing
<1>3. CASE TimeNotSet
  BY <1>1, <1>3, KeepInv, KeptStreams, TurnMoves DEF TimeNotSet, Reconnecting
<1>4. CASE NoSocket
  BY <1>4, ForgetInv DEF NoSocket, Reconnecting, TurnFails
<1>5. CASE NoConnack
  BY <1>5, ForgetInv DEF NoConnack, Reconnecting, TurnFails
<1>6. CASE ConnectRefused
  <2>1. reconnect' = TRUE
    BY <1>6 DEF ConnectRefused, Reconnecting, TypeOK
  <2> QED
    BY <1>6, <2>1, ForgetInv DEF ConnectRefused, Reconnecting
<1>7. CASE Connect
  BY <1>7, ConnectInv
<1>8. CASE BeginPublish
  BY <1>8, BeginPublishInv
<1>9. CASE BeginYield
  BY <1>1, <1>9, KeepInv, KeptStreams DEF BeginYield, InSession, Moves, Subscribing
<1>10. CASE WaitExpires
  BY <1>1, <1>10, KeepInv, KeptStreams, TurnMoves DEF WaitExpires
<1>11. CASE YieldExpires
  <2>1. KeepsPublishes
    BY <1>1, <1>11, KeepaliveKeeps DEF YieldExpires
  <2>2. Moves
    BY <1>11 DEF YieldExpires, TurnSucceeds, Moves, Subscribing
  <2> QED
    BY <1>1, <1>11, <2>1, <2>2, KeepInv, KeptStreams DEF YieldExpires
<1>12. CASE YieldFails
  BY <1>1, <1>12, KeepInv, KeptStreams, TurnMoves DEF YieldFails
<1>13. CASE ReadAwaited
  BY <1>13, SubackInv, PubackInv DEF ReadAwaited
<1>14. CASE ReadOther
  <2>1. toDevice # << >> /\ toDevice' = Tail(toDevice)
    BY <1>14 DEF ReadOther, Reading
  <2>2. KeepsPublishes
    BY <1>1, <1>14, KeepaliveKeeps DEF ReadOther
  <2> QED
    BY <1>1, <1>14, <2>1, <2>2, KeepInv, KeptStreams DEF ReadOther, Moves
<1>15. CASE ReadCommand
  <2> DEFINE p == Pkt("PUBACK", 0, Head(toDevice).body)
  <2>1. toDevice # << >> /\ toDevice' = Tail(toDevice)
    BY <1>15 DEF ReadCommand, Reading
  <2>2. p \in Packet /\ p.type # "PUBLISH"
    <3>1. Head(toDevice).body \in Bodies
      BY <2>1, StreamTypes DEF Inbound, Packet
    <3> QED
      BY <3>1, ConstantPackets DEF Pkt
  <2>3. toBroker' = Sent(p) \/ UNCHANGED toBroker
    BY <1>15 DEF ReadCommand
  <2>4. KeepsPublishes
    BY <1>1, <2>2, <2>3, KeptStreams
  <2>5. Moves
    BY <1>15, TurnMoves DEF ReadCommand, Moves
  <2> QED
    BY <1>1, <2>1, <2>4, <2>5, KeepInv, KeptStreams
<1>16. CASE ReadShort
  <2>1. Len(toDevice) \in Nat \ {0} /\ Len(toBroker) \in Nat
    BY <1>16, EmptySeq DEF ReadShort, Reading, TypeOK
  <2> QED
    BY <1>16, <2>1 DEF ReadShort
<1>17. CASE ReadGarbage
  <2>1. toDevice # << >> /\ toDevice \in Seq(Whole)
    BY <1>1, <1>17 DEF ReadGarbage, Reading, NoGarbage
  <2>2. Head(toDevice) \in Whole
    BY <2>1
  <2> QED
    BY <1>17, <2>2 DEF ReadGarbage, Whole
<1> QED
  BY <1>2, <1>3, <1>4, <1>5, <1>6, <1>7, <1>8, <1>9, <1>10, <1>11, <1>12, <1>13, <1>14, <1>15,
     <1>16, <1>17 DEF Task, Initialize, Read

(* The broker takes a PUBLISH in and acknowledges it. *)
LEMMA TakenInInv ==
  ASSUME TypeOK, TypeOK', SessionInv, BrokerAnswers, Head(toBroker).type = "PUBLISH"
  PROVE  /\ SessionInv'
         /\ call.rc # "none"
         /\ call' = [call EXCEPT !.reached = TRUE] \/ UNCHANGED call
<1> DEFINE p == Head(toBroker)
           a == Pkt("PUBACK", p.id, "none")
<1>1. /\ toBroker # << >> /\ toBroker' = Tail(toBroker) /\ toDevice' = Reply(a)
      /\ call' = [call EXCEPT !.reached = @ \/ (p.id = call.id /\ p.body = call.msg)]
      /\ UNCHANGED <<op, reconnect>>
  BY DEF BrokerAnswers
<1>2. toBroker \in Seq(Packet) /\ p \in Packet /\ call \in Calls /\ toDevice \in Seq(Inbound)
  BY <1>1, StreamTypes DEF TypeOK
<1>3. 1 \in Publishes /\ toBroker[1] = p
  BY <1>1, <1>2 DEF Publishes
<1>4. call.rc # "none"
  BY <1>3 DEF SessionInv, NothingBeforeFirstCall
<1>5. call' = [call EXCEPT !.reached = TRUE] \/ UNCHANGED call
  <2>1. CASE p.id = call.id /\ p.body = call.msg
    BY <1>1, <1>2, <2>1 DEF Calls
  <2>2. CASE ~(p.id = call.id /\ p.body = call.msg)
    BY <1>1, <1>2, <2>2 DEF Calls
  <2> QED
    BY <2>1, <2>2
<1>6. call'.rc = call.rc /\ call'.id = call.id /\ call'.msg = call.msg
  BY <1>2, <1>5 DEF Calls
<1>7. NoGarbage'
  <2>1. a \in Whole
    BY <1>2 DEF Pkt, Whole, Inbound, Packet, Types, Bodies
  <2> QED
    BY <1>1, <2>1, KeptStreams DEF SessionInv
<1>8. OneUnderWay'
  <2> SUFFICES ASSUME op = "pub" PROVE OneUnderWay'
    BY <1>1 DEF OneUnderWay
  <2>1. Publishes = {1} /\ Pubacks = {} /\ p.id = call.id /\ p.body = call.msg
    BY <1>3 DEF SessionInv, OneUnderWay
  <2>2. call'.reached
    BY <1>1, <1>2, <2>1 DEF Calls
  <2>3. Publishes' = {}
    <3>1. \A i \in Publishes' : i + 1 \in Publishes /\ i \in Nat \ {0}
      <4>1. toBroker' \in Seq(Packet)
        BY DEF TypeOK
      <4> QED
        BY <1>1, <1>2, <4>1, TailKeeps DEF Publishes
    <3> QED
      BY <2>1, <3>1
  <2>4. a \in Inbound /\ a.id = call.id
    BY <1>2, <2>1 DEF Pkt, Inbound, Packet, Types, Bodies
  <2>5. \A i \in Pubacks' : i = Len(toDevice) + 1 /\ toDevice'[i] = a
    BY <1>1, <1>2, <2>1, <2>4, AppendKeeps DEF Reply, Pubacks
  <2>6. \A i, j \in Pubacks' : i = j
    BY <2>5
  <2> QED
    BY <1>6, <2>2, <2>3, <2>4, <2>5, <2>6 DEF OneUnderWay
<1>9. ~Quiet /\ Publishes # {}
  BY <1>3 DEF Quiet
<1> QED
  BY <1>1, <1>4, <1>5, <1>6, <1>7, <1>8, <1>9 DEF SessionInv, CallInProgress, OpInSession,
     QuietBetweenCalls, NothingBeforeFirstCall

LEMMA EnvironmentInv ==
  ASSUME TypeOK, TypeOK', SessionInv, Environment
  PROVE  SessionInv'
<1> USE DEF task, client, net, broker
<1>1. NoGarbage
  BY DEF SessionInv
<1>2. ASSUME NEW m \in Msgs, Request(m) PROVE SessionInv'
  BY <1>1, <1>2, KeepInv, KeptStreams DEF Request, Moves
<1>3. CASE BrokerAnswers /\ Head(toBroker).type # "PUBLISH"
  <2> DEFINE p == Head(toBroker)
  <2>1. toBroker # << >> /\ toBroker' = Tail(toBroker) /\ UNCHANGED <<op, reconnect, call>>
    BY <1>3 DEF BrokerAnswers
  <2>2. KeepsPublishes
    BY <1>1, <2>1, KeptStreams
  <2>3. p.id \in 0 .. MaxPacketId /\ toDevice \in Seq(Whole)
    BY <1>1, <2>1, StreamTypes DEF Packet, NoGarbage
  <2>4. \A b \in {"granted", "refused"} :
          Pkt("SUBACK", p.id, b) \in Whole /\ Pkt("SUBACK", p.id, b).type # "PUBACK"
    BY <2>3 DEF Pkt, Whole, Inbound, Packet, Types, Bodies
  <2>5. Pkt("PINGRESP", 0, "none") \in Whole /\ Pkt("PINGRESP", 0, "none").type # "PUBACK"
    BY ConstantPackets DEF Pkt, Whole
  <2>6. ASSUME NEW c \in Cmds, NEW b \in {"granted", "refused"},
               toDevice' = toDevice \o <<Pkt("PUBLISH", 0, c), Pkt("SUBACK", p.id, b)>>
        PROVE  KeepsPubacks /\ NoGarbage'
    <3> DEFINE q == <<Pkt("PUBLISH", 0, c), Pkt("SUBACK", p.id, b)>>
    <3>1. Pkt("PUBLISH", 0, c) \in Whole /\ Pkt("PUBLISH", 0, c).type # "PUBACK"
      BY ConstantPackets DEF Pkt, Whole
    <3>2. q \in Seq(Whole) /\ Len(q) = 2 /\ q[1].type # "PUBACK" /\ q[2].type # "PUBACK"
      BY <2>4, <3>1
    <3>3. toDevice' \in Seq(Whole)
      BY <2>3, <2>6, <3>2, ConcatProperties
    <3>4. \A i \in Pubacks' : i \in Pubacks /\ toDevice'[i] = toDevice[i]
      BY <2>3, <2>6, <3>2, <3>3, ConcatProperties DEF Pubacks
    <3> QED
      BY <2>3, <3>3, <3>4 DEF KeepsPubacks, NoGarbage, Pubacks
  <2>7. KeepsPubacks /\ NoGarbage'
    BY <1>1, <1>3, <2>4, <2>5, <2>6, KeptStreams DEF BrokerAnswers
  <2> QED
    BY <2>1, <2>2, <2>7, KeepInv DEF Moves
<1>4. CASE BrokerAnswers /\ Head(toBroker).type = "PUBLISH"
  BY <1>4, TakenInInv
<1>5. ASSUME NEW c \in Cmds, BrokerPublishes(c) PROVE SessionInv'
  <2> DEFINE p == Pkt("PUBLISH", 0, c)
  <2>1. p \in Whole /\ p.type # "PUBACK" /\ toDevice' = Reply(p)
    BY <1>5, ConstantPackets DEF BrokerPublishes, Reply, Pkt, Whole
  <2> QED
    BY <1>1, <1>5, <2>1, KeepInv, KeptStreams DEF BrokerPublishes, Moves
<1>6. CASE LinkBreaks
  BY <1>1, <1>6, KeepInv, KeptStreams DEF LinkBreaks, Moves
<1>7. CASE NetChanges
  BY <1>1, <1>7, KeepInv, KeptStreams DEF NetChanges, Moves
<1> QED
  BY <1>2, <1>3, <1>4, <1>5, <1>6, <1>7 DEF Environment

LEMMA StutterInv ==
  ASSUME SessionInv, UNCHANGED vars
  PROVE  SessionInv'
BY DEF SessionInv, CallInProgress, OpInSession, QuietBetweenCalls, Quiet, OneUnderWay,
       NothingBeforeFirstCall, NoGarbage, Publishes, Pubacks, vars, task, client, net

(* The inductive invariant holds in every session. *)
LEMMA SessionInvariance ==
  ASSUME ShortReads = 0
  PROVE  Spec => [](TypeOK /\ SessionInv)
<1>1. Init => TypeOK /\ SessionInv
  BY InitTypeOK, InitSessionInv
<1>2. TypeOK /\ SessionInv /\ [Next]_vars => (TypeOK /\ SessionInv)'
  <2> SUFFICES ASSUME TypeOK, SessionInv, [Next]_vars PROVE (TypeOK /\ SessionInv)'
    OBVIOUS
  <2>1. CASE Task
    BY <2>1, TaskTypeOK, TaskInv
  <2>2. CASE Environment
    BY <2>2, EnvironmentTypeOK, EnvironmentInv
  <2>3. CASE UNCHANGED vars
    <3>1. TypeOK'
      BY <2>3 DEF vars, task, client, net, broker, TypeOK
    <3> QED
      BY <2>3, <3>1, StutterInv
  <2> QED
    BY <2>1, <2>2, <2>3 DEF Next
<1> QED
  BY <1>1, <1>2, PTL DEF Spec

(* While MQTTPublish waits, the only PUBACK in the stream is that of the   *)
(* packet it sent, for any width of identifiers, even with one identifier  *)
(* only: not comparing identifiers is safe, because every failed call ends *)
(* the session.                                                            *)
THEOREM PubackIsFresh ==
  ASSUME ShortReads = 0
  PROVE  Spec => []NoStalePuback
<1>1. TypeOK /\ SessionInv => NoStalePuback
  BY DEF SessionInv, OneUnderWay, NoStalePuback, Pubacks
<1> QED
  BY <1>1, SessionInvariance, PTL

-----------------------------------------------------------------------------
(* The session implements the publish contract. *)

LEMMA InitContract == Init => Contract!Init
BY DEF Init, Contract!Init

(* Updates of the abstract call record. *)
LEMMA AbstractUpdate ==
  ASSUME NEW m, NEW b, NEW r, NEW v
  PROVE  /\ [[msg |-> m, reached |-> b, rc |-> r] EXCEPT !.rc = v]
               = [msg |-> m, reached |-> b, rc |-> v]
         /\ [[msg |-> m, reached |-> b, rc |-> r] EXCEPT !.reached = v]
               = [msg |-> m, reached |-> v, rc |-> r]
OBVIOUS

LEMMA CallFailsContract ==
  ASSUME TypeOK, SessionInv, CallFails
  PROVE  Contract!Fail \/ UNCHANGED call
<1>1. call \in Calls
  BY DEF TypeOK
<1> QED
  BY <1>1 DEF CallFails, PublishReturns, SessionInv, CallInProgress, Contract!Fail, Calls

LEMMA StepContract ==
  ASSUME TypeOK, TypeOK', SessionInv, ShortReads = 0, [Next]_vars
  PROVE  \/ UNCHANGED call
         \/ Contract!Next
<1> USE DEF task, client, net, broker
<1>1. CASE BeginPublish
  <2>1. pending \in Msgs /\ call.rc # "pending"
    BY <1>1 DEF BeginPublish, InSession, TypeOK, SessionInv, CallInProgress
  <2>2. /\ call'.msg = pending /\ call'.reached = FALSE
        /\ call'.rc \in {"pending", "fail"}
    BY <1>1 DEF BeginPublish
  <2>3. Contract!Call(pending)
    BY <2>1, <2>2 DEF Contract!Call
  <2> QED
    BY <2>1, <2>3 DEF Contract!Next
<1>2. CASE ReadAwaited
  <2>1. CASE PubackReceived
    <3>1. call.rc = "pending" /\ call.reached /\ call \in Calls
      BY <1>2, <2>1, PubackInv DEF TypeOK
    <3>2. call' = [call EXCEPT !.rc = "ok"]
      BY <2>1 DEF PubackReceived, PublishReturns
    <3>3. call'.msg = call.msg /\ call'.reached = call.reached /\ call'.rc = "ok"
      BY <3>1, <3>2 DEF Calls
    <3>4. Contract!Succeed
      <4>1. [msg |-> call'.msg, reached |-> call'.reached, rc |-> call'.rc]
              = [[msg |-> call.msg, reached |-> call.reached, rc |-> call.rc] EXCEPT !.rc = "ok"]
        BY <3>3, AbstractUpdate
      <4> QED
        BY <3>1, <4>1 DEF Contract!Succeed
    <3> QED
      BY <3>4 DEF Contract!Next
  <2>2. CASE SubackReceived(Head(toDevice).body # "refused")
    BY <2>2 DEF SubackReceived
  <2> QED
    BY <1>2, <2>1, <2>2 DEF ReadAwaited
<1>3. CASE BrokerAnswers
  <2>1. CASE Head(toBroker).type = "PUBLISH"
    <3>1. call \in Calls
      BY DEF TypeOK
    <3>2. ASSUME call' = [call EXCEPT !.reached = TRUE] PROVE Contract!Reach
      <4>1. call'.msg = call.msg /\ call'.reached = TRUE /\ call'.rc = call.rc
        BY <3>1, <3>2 DEF Calls
      <4>2. [msg |-> call'.msg, reached |-> call'.reached, rc |-> call'.rc]
              = [[msg |-> call.msg, reached |-> call.reached, rc |-> call.rc]
                   EXCEPT !.reached = TRUE]
        <5>1. PICK t : t = TRUE
          OBVIOUS
        <5>2. call'.msg = call.msg /\ call'.reached = t /\ call'.rc = call.rc
          BY <4>1, <5>1
        <5>3. [msg |-> call'.msg, reached |-> call'.reached, rc |-> call'.rc]
                = [[msg |-> call.msg, reached |-> call.reached, rc |-> call.rc]
                     EXCEPT !.reached = t]
          BY <5>2, AbstractUpdate
        <5> QED
          BY <5>1, <5>3, Zenon
      <4>3. call.rc # "none"
        BY <1>3, <2>1, TakenInInv
      <4> QED
        BY <4>2, <4>3 DEF Contract!Reach
    <3> QED
      BY <1>3, <2>1, <3>2, TakenInInv DEF Contract!Next
  <2> QED
    BY <1>3, <2>1 DEF BrokerAnswers
<1>4. CASE ReadShort \/ ReadGarbage
  <2>1. toDevice # << >> /\ toDevice \in Seq(Whole)
    BY <1>4 DEF ReadShort, ReadGarbage, Reading, SessionInv, NoGarbage
  <2>2. Head(toDevice).type # "GARBAGE"
    BY <2>1 DEF Whole
  <2>3. Len(toDevice) \in Nat \ {0} /\ Len(toBroker) \in Nat
    BY <2>1, EmptySeq DEF TypeOK
  <2>4. ~ReadShort
    BY <2>3 DEF ReadShort
  <2>5. ~ReadGarbage
    BY <2>2 DEF ReadGarbage
  <2> QED
    BY <1>4, <2>4, <2>5
<1>5. CASE WaitExpires \/ YieldFails \/ ReadCommand
  <2>1. CallFails \/ UNCHANGED call
    BY <1>5 DEF WaitExpires, YieldFails, ReadCommand
  <2> QED
    BY <2>1, CallFailsContract DEF Contract!Next
<1>6. CASE Wake \/ Initialize \/ BeginYield \/ YieldExpires \/ ReadOther
  BY <1>6 DEF Wake, Initialize, TimeNotSet, NoSocket, NoConnack, ConnectRefused, Connect,
              BeginYield, YieldExpires, ReadOther
<1>7. CASE \/ \E m \in Msgs : Request(m)
           \/ \E c \in Cmds : BrokerPublishes(c)
           \/ LinkBreaks \/ NetChanges
  BY <1>7 DEF Request, BrokerPublishes, LinkBreaks, NetChanges
<1>8. CASE UNCHANGED vars
  BY <1>8 DEF vars
<1> QED
  BY <1>1, <1>2, <1>3, <1>4, <1>5, <1>6, <1>7, <1>8 DEF Next, Task, Environment, Read

(* A call of MQTTPublish that returns SUCCESS was taken in by the broker:  *)
(* every step of the session is a step of PublishContract or a stutter.    *)
THEOREM SessionImplementsContract ==
  ASSUME ShortReads = 0
  PROVE  Spec => ImplementsContract
<1>1. Init => Contract!Init
  BY InitContract
<1>2. /\ TypeOK /\ SessionInv /\ TypeOK'
      /\ [Next]_vars
      => [Contract!Next]_[msg |-> call.msg, reached |-> call.reached, rc |-> call.rc]
  BY StepContract
<1> QED
  BY <1>1, <1>2, SessionInvariance, PTL DEF Spec, ImplementsContract, Contract!Spec
-----------------------------------------------------------------------------
(* An outstanding ping. *)

PingUnderWay ==
  \/ \E i \in DOMAIN toBroker : toBroker[i].type = "PINGREQ"
  \/ \E i \in DOMAIN toDevice : toDevice[i].type = "PINGRESP"

(* What a stream holds besides its head is still there when that is gone.  *)
LEMMA BehindHead ==
  ASSUME NEW S, NEW s \in Seq(S), s # << >>, NEW i \in DOMAIN s, i # 1
  PROVE  i - 1 \in DOMAIN Tail(s) /\ Tail(s)[i - 1] = s[i]
<1>1. i \in 1 .. Len(s) /\ Len(s) \in Nat
  OBVIOUS
<1>2. i - 1 \in 1 .. Len(s) - 1 /\ (i - 1) + 1 = i
  BY <1>1
<1>3. Tail(s) \in Seq(S) /\ Len(Tail(s)) = Len(s) - 1 /\ \A j \in 1 .. Len(Tail(s)) : Tail(s)[j] = s[j + 1]
  BY HeadTailProperties
<1> QED
  BY <1>2, <1>3

LEMMA ConcatKeeps ==
  ASSUME NEW S, NEW s \in Seq(S), NEW t \in Seq(S)
  PROVE  /\ \A i \in DOMAIN s : i \in DOMAIN (s \o t) /\ (s \o t)[i] = s[i]
         /\ \A i \in DOMAIN (s \o t) :
              \/ i \in DOMAIN s
              \/ i - Len(s) \in DOMAIN t /\ (s \o t)[i] = t[i - Len(s)]
<1>1. s \o t \in Seq(S) /\ Len(s \o t) = Len(s) + Len(t) /\ Len(s) \in Nat /\ Len(t) \in Nat
  BY ConcatProperties
<1>2. \A i \in 1 .. Len(s) + Len(t) : (s \o t)[i] = IF i <= Len(s) THEN s[i] ELSE t[i - Len(s)]
  BY ConcatProperties
<1>3. DOMAIN s = 1 .. Len(s) /\ DOMAIN t = 1 .. Len(t) /\ DOMAIN (s \o t) = 1 .. Len(s) + Len(t)
  BY <1>1
<1> QED
  BY <1>1, <1>2, <1>3

LEMMA AppendHas ==
  ASSUME NEW S, NEW s \in Seq(S), NEW p \in S
  PROVE  /\ \A i \in DOMAIN s : i \in DOMAIN Append(s, p) /\ Append(s, p)[i] = s[i]
         /\ Len(s) + 1 \in DOMAIN Append(s, p) /\ Append(s, p)[Len(s) + 1] = p
BY AppendProperties

(* What a step may do to the two streams without losing a ping.  *)
KeepsRequest ==
  \/ UNCHANGED toBroker
  \/ \E p \in Packet : toBroker' = Sent(p)
  \/ toBroker # << >> /\ Head(toBroker).type # "PINGREQ" /\ toBroker' = Tail(toBroker)

KeepsResponse ==
  \/ UNCHANGED toDevice
  \/ \E p \in Inbound : toDevice' = Reply(p)
  \/ \E q \in Seq(Inbound) : toDevice' = toDevice \o q
  \/ toDevice # << >> /\ Head(toDevice).type # "PINGRESP" /\ toDevice' = Tail(toDevice)

LEMMA PingKept ==
  ASSUME TypeOK, PingUnderWay, KeepsRequest, KeepsResponse
  PROVE  PingUnderWay'
<1>1. toBroker \in Seq(Packet) /\ toDevice \in Seq(Inbound)
  BY DEF TypeOK
<1>2. ASSUME NEW i \in DOMAIN toBroker, toBroker[i].type = "PINGREQ"
      PROVE  \E j \in DOMAIN toBroker' : toBroker'[j].type = "PINGREQ"
  <2>1. CASE UNCHANGED toBroker
    BY <1>2, <2>1
  <2>2. ASSUME NEW p \in Packet, toBroker' = Sent(p)
        PROVE  \E j \in DOMAIN toBroker' : toBroker'[j].type = "PINGREQ"
    <3>1. toBroker' = toBroker \/ toBroker' = Append(toBroker, p)
      BY <2>2 DEF Sent
    <3>2. i \in DOMAIN Append(toBroker, p) /\ Append(toBroker, p)[i] = toBroker[i]
      BY <1>1, AppendHas
    <3> QED
      BY <1>2, <3>1, <3>2
  <2>3. CASE toBroker # << >> /\ Head(toBroker).type # "PINGREQ" /\ toBroker' = Tail(toBroker)
    <3>1. i # 1
      BY <1>1, <1>2, <2>3
    <3>2. i - 1 \in DOMAIN Tail(toBroker) /\ Tail(toBroker)[i - 1] = toBroker[i]
      BY <1>1, <2>3, <3>1, BehindHead
    <3> QED
      BY <1>2, <2>3, <3>2
  <2> QED
    BY <2>1, <2>2, <2>3 DEF KeepsRequest
<1>3. ASSUME NEW i \in DOMAIN toDevice, toDevice[i].type = "PINGRESP"
      PROVE  \E j \in DOMAIN toDevice' : toDevice'[j].type = "PINGRESP"
  <2>1. CASE UNCHANGED toDevice
    BY <1>3, <2>1
  <2>2. ASSUME NEW p \in Inbound, toDevice' = Reply(p)
        PROVE  \E j \in DOMAIN toDevice' : toDevice'[j].type = "PINGRESP"
    <3>1. toDevice' = toDevice \/ toDevice' = Append(toDevice, p)
      BY <2>2 DEF Reply
    <3>2. i \in DOMAIN Append(toDevice, p) /\ Append(toDevice, p)[i] = toDevice[i]
      BY <1>1, AppendHas
    <3> QED
      BY <1>3, <3>1, <3>2
  <2>3. ASSUME NEW q \in Seq(Inbound), toDevice' = toDevice \o q
        PROVE  \E j \in DOMAIN toDevice' : toDevice'[j].type = "PINGRESP"
    <3>1. i \in DOMAIN (toDevice \o q) /\ (toDevice \o q)[i] = toDevice[i]
      BY <1>1, ConcatKeeps
    <3> QED
      BY <1>3, <2>3, <3>1
  <2>4. CASE toDevice # << >> /\ Head(toDevice).type # "PINGRESP" /\ toDevice' = Tail(toDevice)
    <3>1. i # 1
      BY <1>1, <1>3, <2>4
    <3>2. i - 1 \in DOMAIN Tail(toDevice) /\ Tail(toDevice)[i - 1] = toDevice[i]
      BY <1>1, <2>4, <3>1, BehindHead
    <3> QED
      BY <1>3, <2>4, <3>2
  <2> QED
    BY <2>1, <2>2, <2>3, <2>4 DEF KeepsResponse
<1> QED
  BY <1>2, <1>3 DEF PingUnderWay

(* A step that neither sends a ping nor opens a connection.  *)
LEMMA PingQuiet ==
  ASSUME TypeOK, PingNotStuck, UNCHANGED <<ping, link>>, KeepsRequest, KeepsResponse
  PROVE  PingNotStuck'
BY PingKept DEF PingNotStuck, PingUnderWay

(* keepalive(): the ping that it sends on a working connection is under    *)
(* way, and the one it leaves outstanding still is.                        *)
LEMMA KeepalivePing ==
  ASSUME TypeOK, PingNotStuck, NEW outstanding, Keepalive(outstanding), UNCHANGED link,
         outstanding => ping /\ KeepsResponse
  PROVE  PingNotStuck'
<1>1. CASE ping' = outstanding /\ UNCHANGED toBroker
  BY <1>1, PingKept DEF PingNotStuck, PingUnderWay, KeepsRequest
<1>2. CASE toBroker' = Sent(Pkt("PINGREQ", 0, "none"))
  <2> DEFINE p == Pkt("PINGREQ", 0, "none")
  <2> SUFFICES ASSUME link' = "up" PROVE \E i \in DOMAIN toBroker' : toBroker'[i].type = "PINGREQ"
    BY DEF PingNotStuck
  <2>1. toBroker' = Append(toBroker, p) /\ toBroker \in Seq(Packet) /\ p \in Packet /\ p.type = "PINGREQ"
    BY <1>2, ConstantPackets DEF Sent, TypeOK, Pkt
  <2>2. Len(toBroker) + 1 \in DOMAIN Append(toBroker, p) /\ Append(toBroker, p)[Len(toBroker) + 1] = p
    BY <2>1, AppendHas
  <2> QED
    BY <2>1, <2>2
<1> QED
  BY <1>1, <1>2 DEF Keepalive

LEMMA TaskPing ==
  ASSUME TypeOK, NoGarbage, PingNotStuck, ShortReads = 0, Task
  PROVE  PingNotStuck'
<1> USE DEF task, client, net, broker
<1>1. CASE Wake \/ TimeNotSet \/ BeginYield \/ WaitExpires \/ YieldFails
  BY <1>1, PingQuiet DEF Wake, TimeNotSet, BeginYield, WaitExpires, YieldFails, KeepsRequest, KeepsResponse
<1>2. CASE NoSocket \/ NoConnack \/ ConnectRefused \/ Connect
  BY <1>2 DEF NoSocket, NoConnack, ConnectRefused, Connect, ResetClient, PingNotStuck
<1>3. CASE BeginPublish
  <2>1. KeepsRequest
    <3>1. pending \in Msgs /\ WireId(NextId) \in 0 .. MaxPacketId
      BY <1>3, NextIdInRange DEF BeginPublish, TypeOK
    <3>2. Pkt("PUBLISH", WireId(NextId), pending) \in Packet
      BY <3>1, PktInPacket DEF Types, Bodies
    <3> QED
      BY <1>3, <3>2 DEF BeginPublish, KeepsRequest
  <2> QED
    BY <1>3, <2>1, PingQuiet DEF BeginPublish, KeepsResponse
<1>4. CASE YieldExpires
  BY <1>4, KeepalivePing DEF YieldExpires, KeepsResponse
<1>5. CASE ReadAwaited
  <2>1. /\ toDevice # << >> /\ Head(toDevice).type = Awaited /\ toDevice' = Tail(toDevice)
        /\ UNCHANGED <<ping, link>>
    BY <1>5 DEF ReadAwaited, Reading, SubackReceived, PubackReceived
  <2>2. KeepsResponse
    BY <2>1 DEF Awaited, KeepsResponse
  <2>3. Pkt("SUBSCRIBE", WireId(NextId), "dev") \in Packet
    BY NextIdInRange, PktInPacket DEF TypeOK, Types, Bodies, Filters
  <2>4. KeepsRequest
    BY <1>5, <2>3 DEF ReadAwaited, SubackReceived, PubackReceived, KeepsRequest
  <2> QED
    BY <2>1, <2>2, <2>4, PingQuiet
<1>6. CASE ReadOther
  <2>1. toDevice # << >> /\ toDevice' = Tail(toDevice) /\ UNCHANGED link
    BY <1>6 DEF ReadOther, Reading
  <2>2. Keepalive(ping /\ Head(toDevice).type # "PINGRESP")
    BY <1>6 DEF ReadOther
  <2>3. (ping /\ Head(toDevice).type # "PINGRESP") => ping /\ KeepsResponse
    BY <2>1 DEF KeepsResponse
  <2> QED
    BY <2>1, <2>2, <2>3, KeepalivePing
<1>7. CASE ReadCommand
  <2>1. /\ toDevice # << >> /\ Head(toDevice).type = "PUBLISH" /\ toDevice' = Tail(toDevice)
        /\ UNCHANGED <<ping, link>>
    BY <1>7 DEF ReadCommand, Reading
  <2>2. Pkt("PUBACK", 0, Head(toDevice).body) \in Packet
    <3>1. Head(toDevice).body \in Bodies
      BY <2>1, StreamTypes DEF Inbound, Packet
    <3> QED
      BY <3>1, ConstantPackets
  <2> QED
    BY <1>7, <2>1, <2>2, PingQuiet DEF ReadCommand, KeepsRequest, KeepsResponse
<1>8. CASE ReadShort
  <2>1. Len(toDevice) \in Nat \ {0} /\ Len(toBroker) \in Nat
    BY <1>8, EmptySeq DEF ReadShort, Reading, TypeOK
  <2> QED
    BY <1>8, <2>1 DEF ReadShort
<1>9. CASE ReadGarbage
  <2>1. toDevice # << >> /\ toDevice \in Seq(Whole)
    BY <1>9 DEF ReadGarbage, Reading, NoGarbage
  <2>2. Head(toDevice) \in Whole
    BY <2>1
  <2> QED
    BY <1>9, <2>2 DEF ReadGarbage, Whole
<1> QED
  BY <1>1, <1>2, <1>3, <1>4, <1>5, <1>6, <1>7, <1>8, <1>9 DEF Task, Initialize, Read

LEMMA EnvironmentPing ==
  ASSUME TypeOK, PingNotStuck, Environment
  PROVE  PingNotStuck'
<1> USE DEF task, client, net, broker
<1>1. CASE (\E m \in Msgs : Request(m)) \/ NetChanges
  BY <1>1, PingQuiet DEF Request, NetChanges, KeepsRequest, KeepsResponse
<1>2. ASSUME NEW c \in Cmds, BrokerPublishes(c) PROVE PingNotStuck'
  <2>1. Pkt("PUBLISH", 0, c) \in Inbound /\ toDevice' = Reply(Pkt("PUBLISH", 0, c))
    BY <1>2, ConstantPackets DEF BrokerPublishes, Reply
  <2> QED
    BY <1>2, <2>1, PingQuiet DEF BrokerPublishes, KeepsRequest, KeepsResponse
<1>3. CASE LinkBreaks
  BY <1>3 DEF LinkBreaks, PingNotStuck
<1>4. CASE BrokerAnswers
  <2> DEFINE p == Head(toBroker)
  <2>1. toBroker # << >> /\ toBroker' = Tail(toBroker) /\ UNCHANGED <<ping, link>> /\ p.id \in 0 .. MaxPacketId
    BY <1>4, StreamTypes DEF BrokerAnswers, Packet
  <2>2. CASE p.type = "PINGREQ"
    <3> DEFINE a == Pkt("PINGRESP", 0, "none")
    <3>1. toDevice' = Reply(a)
      BY <1>4, <2>2 DEF BrokerAnswers
    <3> SUFFICES ASSUME link' = "up" PROVE \E i \in DOMAIN toDevice' : toDevice'[i].type = "PINGRESP"
      BY DEF PingNotStuck
    <3>2. toDevice' = Append(toDevice, a) /\ toDevice \in Seq(Inbound) /\ a \in Inbound /\ a.type = "PINGRESP"
      BY <2>1, <3>1, ConstantPackets DEF Reply, TypeOK, Pkt
    <3>3. Len(toDevice) + 1 \in DOMAIN Append(toDevice, a) /\ Append(toDevice, a)[Len(toDevice) + 1] = a
      BY <3>2, AppendHas
    <3> QED
      BY <3>2, <3>3
  <2>3. CASE p.type # "PINGREQ"
    <3>1. \A b \in {"granted", "refused"} : Pkt("SUBACK", p.id, b) \in Inbound
      BY <2>1 DEF Pkt, Inbound, Packet, Types, Bodies
    <3>2. Pkt("PUBACK", p.id, "none") \in Inbound
      BY <2>1 DEF Pkt, Inbound, Packet, Types, Bodies
    <3>3. \A c \in Cmds, b \in {"granted", "refused"} :
            <<Pkt("PUBLISH", 0, c), Pkt("SUBACK", p.id, b)>> \in Seq(Inbound)
      <4>1. \A c \in Cmds : Pkt("PUBLISH", 0, c) \in Inbound
        BY ConstantPackets
      <4> QED
        BY <3>1, <4>1
    <3>4. KeepsRequest
      BY <2>1, <2>3 DEF KeepsRequest
    <3>5. KeepsResponse
      BY <1>4, <2>3, <3>1, <3>2, <3>3 DEF BrokerAnswers, KeepsResponse
    <3> QED
      BY <2>1, <3>4, <3>5, PingQuiet
  <2> QED
    BY <2>2, <2>3
<1> QED
  BY <1>1, <1>2, <1>3, <1>4 DEF Environment

(* On a working connection an outstanding ping has its PINGREQ or its      *)
(* PINGRESP under way, so keepalive() is never silenced for the rest of a  *)
(* session, nor by an earlier one.                                         *)
THEOREM PingIsAnswered ==
  ASSUME ShortReads = 0
  PROVE  Spec => []PingNotStuck
<1>1. Init => PingNotStuck
  BY DEF Init, PingNotStuck
<1>2. TypeOK /\ SessionInv /\ PingNotStuck /\ [Next]_vars => PingNotStuck'
  <2> SUFFICES ASSUME TypeOK, SessionInv, PingNotStuck, [Next]_vars PROVE PingNotStuck'
    OBVIOUS
  <2>1. CASE Task
    BY <2>1, TaskPing DEF SessionInv
  <2>2. CASE Environment
    BY <2>2, EnvironmentPing
  <2>3. CASE UNCHANGED vars
    BY <2>3, PingQuiet DEF vars, client, net, KeepsRequest, KeepsResponse
  <2> QED
    BY <2>1, <2>2, <2>3 DEF Next
<1> QED
  BY <1>1, <1>2, SessionInvariance, PTL DEF Spec
-----------------------------------------------------------------------------
(* The subscriptions of a session. *)

Subscribes == {i \in DOMAIN toBroker : toBroker[i].type = "SUBSCRIBE"}

Subacks == {i \in DOMAIN toDevice : toDevice[i].type = "SUBACK"}

(* While one is waited for, it or its SUBACK is under way, not both.       *)
AskedOnce ==
  op \in Subscribing =>
     /\ \A i, j \in Subscribes : i = j
     /\ \A i, j \in Subacks : i = j
     /\ Subacks # {} => Subscribes = {}

(* In a session neither is, so no SUBACK is read that nobody waits for.    *)
NothingAsked == ~reconnect => Subscribes = {} /\ Subacks = {}

(* While the first is waited for, a SUBACK is the answer to it. *)
FirstAsked ==
  op = "sub_all" =>
     /\ \A i \in Subscribes : toBroker[i].body = "all"
     /\ Subacks # {} => subs["all"] # "none"

(* While the second is waited for, no other SUBACK can come than its own.  *)
SecondAsked ==
  op = "sub_dev" =>
     /\ subs["all"] # "none"
     /\ \A i \in Subscribes : toBroker[i].body = "dev"
     /\ Subacks # {} => subs["dev"] # "none"

AnswerInv ==
  /\ AskedOnce
  /\ NothingAsked
  /\ FirstAsked
  /\ SecondAsked
  /\ SessionAnswered

(* What a step may do to the two streams without asking or answering.      *)
KeepsAsked ==
  \/ UNCHANGED toBroker
  \/ \E p \in Packet : p.type # "SUBSCRIBE" /\ toBroker' = Sent(p)
  \/ toBroker # << >> /\ toBroker' = Tail(toBroker)
  \/ \E k \in 0 .. Len(toBroker) : toBroker' = SubSeq(toBroker, 1, k)

KeepsAnswers ==
  \/ UNCHANGED toDevice
  \/ \E p \in Inbound : p.type # "SUBACK" /\ toDevice' = Reply(p)
  \/ toDevice # << >> /\ toDevice' = Tail(toDevice)
  \/ \E k \in 0 .. Len(toDevice) : toDevice' = SubSeq(toDevice, 1, k)

LEMMA AskedKept ==
  ASSUME TypeOK, KeepsAsked
  PROVE  \E k \in {0, 1} : \A i \in Subscribes' : i + k \in Subscribes /\ toBroker'[i] = toBroker[i + k]
<1>1. toBroker \in Seq(Packet) /\ DOMAIN toBroker \subseteq Nat /\ \A n \in Nat : n + 0 = n
  BY DEF TypeOK
<1>2. CASE UNCHANGED toBroker
  BY <1>1, <1>2 DEF Subscribes
<1>3. ASSUME NEW p \in Packet, p.type # "SUBSCRIBE", toBroker' = Sent(p)
      PROVE  \A i \in Subscribes' : i \in Subscribes /\ toBroker'[i] = toBroker[i]
  BY <1>1, <1>3, AppendKeeps DEF Sent, Subscribes
<1>4. CASE toBroker # << >> /\ toBroker' = Tail(toBroker)
  BY <1>1, <1>4, TailKeeps DEF Subscribes
<1>5. ASSUME NEW k \in 0 .. Len(toBroker), toBroker' = SubSeq(toBroker, 1, k)
      PROVE  \A i \in Subscribes' : i \in Subscribes /\ toBroker'[i] = toBroker[i]
  BY <1>1, <1>5, Prefix DEF Subscribes
<1>6. ASSUME \A i \in Subscribes' : i \in Subscribes /\ toBroker'[i] = toBroker[i]
      PROVE  \A i \in Subscribes' : i + 0 \in Subscribes /\ toBroker'[i] = toBroker[i + 0]
  BY <1>1, <1>6 DEF Subscribes
<1> QED
  BY <1>2, <1>3, <1>4, <1>5, <1>6 DEF KeepsAsked

LEMMA AnswersKept ==
  ASSUME TypeOK, KeepsAnswers
  PROVE  \E k \in {0, 1} : \A i \in Subacks' : i + k \in Subacks
<1>1. toDevice \in Seq(Inbound) /\ DOMAIN toDevice \subseteq Nat /\ \A n \in Nat : n + 0 = n
  BY DEF TypeOK
<1>2. CASE UNCHANGED toDevice
  BY <1>1, <1>2 DEF Subacks
<1>3. ASSUME NEW p \in Inbound, p.type # "SUBACK", toDevice' = Reply(p)
      PROVE  \A i \in Subacks' : i \in Subacks
  BY <1>1, <1>3, AppendKeeps DEF Reply, Subacks
<1>4. CASE toDevice # << >> /\ toDevice' = Tail(toDevice)
  BY <1>1, <1>4, TailKeeps DEF Subacks
<1>5. ASSUME NEW k \in 0 .. Len(toDevice), toDevice' = SubSeq(toDevice, 1, k)
      PROVE  \A i \in Subacks' : i \in Subacks
  BY <1>1, <1>5, Prefix DEF Subacks
<1>6. ASSUME \A i \in Subacks' : i \in Subacks
      PROVE  \A i \in Subacks' : i + 0 \in Subacks
  BY <1>1, <1>6 DEF Subacks
<1> QED
  BY <1>2, <1>3, <1>4, <1>5, <1>6 DEF KeepsAnswers

(* How a step that neither asks nor is answered may move the task.         *)
Waits ==
  \/ UNCHANGED <<op, reconnect>>
  \/ op' \notin Subscribing /\ (reconnect' = reconnect \/ reconnect' = TRUE)

LEMMA AnswerKept ==
  ASSUME TypeOK, TypeOK', AnswerInv, KeepsAsked, KeepsAnswers, Waits, UNCHANGED subs
  PROVE  AnswerInv'
<1>1. PICK k \in {0, 1} : \A i \in Subscribes' : i + k \in Subscribes /\ toBroker'[i] = toBroker[i + k]
  BY AskedKept
<1>2. PICK l \in {0, 1} : \A i \in Subacks' : i + l \in Subacks
  BY AnswersKept
<1>3. Subscribes' \subseteq Nat /\ Subacks' \subseteq Nat
  BY DEF TypeOK, Subscribes, Subacks
<1>4. (Subscribes = {} => Subscribes' = {}) /\ (Subacks = {} => Subacks' = {})
  BY <1>1, <1>2
<1>5. FirstAsked'
  <2> SUFFICES ASSUME op' = "sub_all" PROVE FirstAsked'
    BY DEF FirstAsked
  <2>1. op = "sub_all"
    BY DEF Waits, Subscribing
  <2>2. \A i \in Subscribes' : toBroker'[i].body = "all"
    BY <1>1, <2>1 DEF AnswerInv, FirstAsked
  <2> QED
    BY <1>4, <2>1, <2>2 DEF AnswerInv, FirstAsked
<1>6. SecondAsked'
  <2> SUFFICES ASSUME op' = "sub_dev" PROVE SecondAsked'
    BY DEF SecondAsked
  <2>1. op = "sub_dev"
    BY DEF Waits, Subscribing
  <2>2. \A i \in Subscribes' : toBroker'[i].body = "dev"
    BY <1>1, <2>1 DEF AnswerInv, SecondAsked
  <2> QED
    BY <1>4, <2>1, <2>2 DEF AnswerInv, SecondAsked
<1>7. SessionAnswered' /\ NothingAsked'
  BY <1>4 DEF AnswerInv, SessionAnswered, NothingAsked, Waits
<1>8. AskedOnce'
  <2> SUFFICES ASSUME op' \in Subscribing PROVE AskedOnce'
    BY DEF AskedOnce
  <2>1. op \in Subscribing
    BY DEF Waits
  <2>2. \A i, j \in Subscribes' : i = j
    BY <1>1, <1>3, <2>1 DEF AnswerInv, AskedOnce
  <2>3. \A i, j \in Subacks' : i = j
    BY <1>2, <1>3, <2>1 DEF AnswerInv, AskedOnce
  <2> QED
    BY <1>4, <2>1, <2>2, <2>3 DEF AnswerInv, AskedOnce
<1> QED
  BY <1>5, <1>6, <1>7, <1>8 DEF AnswerInv

(* A session that ends, or one whose SUBSCRIBEs are yet to be sent.        *)
LEMMA NotAsked ==
  ASSUME op' \notin Subscribing, reconnect' = TRUE
  PROVE  AnswerInv'
BY DEF AnswerInv, AskedOnce, NothingAsked, FirstAsked, SecondAsked, SessionAnswered,
       Subscribing

LEMMA FirstSubackAnswer ==
  ASSUME TypeOK, TypeOK', SessionInv, AnswerInv, ReadAwaited, op = "sub_all",
         SubackReceived(Head(toDevice).body # "refused")
  PROVE  AnswerInv'
<1>1. /\ toDevice # << >> /\ toDevice' = Tail(toDevice) /\ Head(toDevice).type = "SUBACK"
      /\ UNCHANGED subs
  BY DEF ReadAwaited, Reading, Awaited, broker
<1>2. toDevice \in Seq(Inbound) /\ toBroker \in Seq(Packet) /\ toDevice' \in Seq(Inbound) /\ reconnect
  BY DEF TypeOK, SessionInv, OpInSession, Subscribing
<1>3. 1 \in Subacks
  BY <1>1, <1>2 DEF Subacks
<1>4. Subacks = {1} /\ Subscribes = {} /\ subs["all"] # "none"
  BY <1>3 DEF AnswerInv, AskedOnce, FirstAsked, Subscribing
<1>5. Subacks' = {}
  <2>1. \A i \in Subacks' : i + 1 \in Subacks /\ i \in Nat \ {0}
    BY <1>1, <1>2, TailKeeps DEF Subacks
  <2> QED
    BY <1>4, <2>1
<1> DEFINE p == Pkt("SUBSCRIBE", WireId(NextId), "dev")
<1>6. p \in Packet /\ p.body = "dev"
  BY NextIdInRange, PktInPacket DEF TypeOK, Types, Bodies, Filters, Pkt
<1>7. CASE CanSend
  <2>1. toBroker' = Sent(p) /\ op' = "sub_dev" /\ UNCHANGED reconnect
    BY <1>7 DEF SubackReceived
  <2>2. \A i \in Subscribes' : toBroker'[i].body = "dev" /\ i = Len(toBroker) + 1
    BY <1>2, <1>4, <1>6, <2>1, AppendKeeps DEF Sent, Subscribes
  <2>3. \A i, j \in Subscribes' : i = j
    BY <2>2
  <2> QED
    BY <1>1, <1>2, <1>4, <1>5, <2>1, <2>2, <2>3
       DEF AnswerInv, AskedOnce, NothingAsked, FirstAsked, SecondAsked, SessionAnswered
<1>8. CASE ~CanSend
  BY <1>8, NotAsked DEF SubackReceived, TurnFails, Subscribing
<1> QED
  BY <1>7, <1>8

LEMMA SecondSubackAnswer ==
  ASSUME TypeOK, TypeOK', AnswerInv, ReadAwaited, op = "sub_dev",
         SubackReceived(Head(toDevice).body # "refused")
  PROVE  AnswerInv'
<1>1. /\ toDevice # << >> /\ toDevice' = Tail(toDevice) /\ Head(toDevice).type = "SUBACK"
      /\ UNCHANGED <<subs, toBroker>>
  BY DEF ReadAwaited, Reading, Awaited, broker, SubackReceived
<1>2. 1 \in Subacks
  BY <1>1 DEF Subacks, TypeOK
<1>3. subs["all"] # "none" /\ subs["dev"] # "none"
  BY <1>2 DEF AnswerInv, SecondAsked
<1>4. op' = "idle"
  BY DEF SubackReceived
<1>5. Subacks = {1} /\ Subscribes = {}
  BY <1>2 DEF AnswerInv, AskedOnce, Subscribing
<1>6. Subacks' = {}
  <2>1. \A i \in Subacks' : i + 1 \in Subacks /\ i \in Nat \ {0}
    BY <1>1, TailKeeps DEF Subacks, TypeOK
  <2> QED
    BY <1>5, <2>1
<1>7. Subscribes' = {}
  BY <1>1, <1>5 DEF Subscribes
<1> QED
  BY <1>1, <1>3, <1>4, <1>6, <1>7
     DEF AnswerInv, AskedOnce, NothingAsked, FirstAsked, SecondAsked, SessionAnswered, Filters,
         Subscribing

LEMMA TaskAnswer ==
  ASSUME TypeOK, TypeOK', SessionInv, AnswerInv, ShortReads = 0, Task
  PROVE  AnswerInv'
<1> USE DEF task, client, net, broker
<1>1. CASE Wake \/ BeginYield \/ WaitExpires \/ YieldFails
  <2>1. Waits
    BY <1>1 DEF Wake, BeginYield, WaitExpires, YieldFails, CallFails, TurnFails, Waits, Subscribing
  <2> QED
    BY <1>1, <2>1, AnswerKept DEF Wake, BeginYield, WaitExpires, YieldFails, KeepsAsked, KeepsAnswers
<1>2. CASE TimeNotSet \/ NoSocket \/ NoConnack
  BY <1>2, NotAsked DEF TimeNotSet, NoSocket, NoConnack, TurnFails, Subscribing
<1>3. CASE ConnectRefused
  <2>1. reconnect' = TRUE /\ op' = "idle"
    BY <1>3 DEF ConnectRefused, Reconnecting, TypeOK
  <2> QED
    BY <2>1, NotAsked DEF Subscribing
<1>4. CASE Connect
  <2> DEFINE p == Pkt("SUBSCRIBE", WireId(NextId), "all")
  <2>1. /\ toBroker' = <<p>> /\ p.body = "all" /\ toDevice' = << >> /\ op' = "sub_all"
        /\ reconnect' = TRUE
    BY <1>4 DEF Connect, ForgetSession, Reconnecting, TypeOK, Pkt
  <2>2. Subacks' = {}
    BY <2>1 DEF Subacks
  <2>3. Subscribes' \subseteq {1} /\ toBroker'[1] = p
    BY <2>1 DEF Subscribes
  <2> QED
    BY <2>1, <2>2, <2>3
       DEF AnswerInv, AskedOnce, NothingAsked, FirstAsked, SecondAsked, SessionAnswered
<1>5. CASE BeginPublish
  <2>1. KeepsAsked
    <3>1. pending \in Msgs /\ WireId(NextId) \in 0 .. MaxPacketId
      BY <1>5, NextIdInRange DEF BeginPublish, TypeOK
    <3>2. /\ Pkt("PUBLISH", WireId(NextId), pending) \in Packet
          /\ Pkt("PUBLISH", WireId(NextId), pending).type # "SUBSCRIBE"
      BY <3>1, PktInPacket DEF Types, Bodies, Pkt
    <3> QED
      BY <1>5, <3>2 DEF BeginPublish, KeepsAsked
  <2>2. Waits
    BY <1>5 DEF BeginPublish, TurnFails, Waits, Subscribing
  <2> QED
    BY <1>5, <2>1, <2>2, AnswerKept DEF BeginPublish, KeepsAnswers
<1>6. ASSUME NEW outstanding, Keepalive(outstanding) PROVE KeepsAsked
  <2>1. Pkt("PINGREQ", 0, "none") \in Packet /\ Pkt("PINGREQ", 0, "none").type # "SUBSCRIBE"
    BY ConstantPackets DEF Pkt
  <2> QED
    BY <1>6, <2>1 DEF Keepalive, KeepsAsked
<1>7. CASE YieldExpires
  <2>1. KeepsAsked
    BY <1>6, <1>7 DEF YieldExpires
  <2>2. Waits
    BY <1>7 DEF YieldExpires, TurnSucceeds, Waits, Subscribing
  <2> QED
    BY <1>7, <2>1, <2>2, AnswerKept DEF YieldExpires, KeepsAnswers
<1>8. CASE ReadAwaited
  <2>1. CASE PubackReceived
    <3>1. KeepsAsked /\ UNCHANGED subs /\ Waits
      BY <1>8, <2>1 DEF ReadAwaited, PubackReceived, TurnSucceeds, KeepsAsked, Waits, Subscribing
    <3>2. KeepsAnswers
      BY <1>8 DEF ReadAwaited, Reading, KeepsAnswers
    <3> QED
      BY <3>1, <3>2, AnswerKept
  <2>2. CASE op \in Subscribing /\ SubackReceived(Head(toDevice).body # "refused")
    BY <1>8, <2>2, FirstSubackAnswer, SecondSubackAnswer DEF Subscribing
  <2> QED
    BY <1>8, <2>1, <2>2 DEF ReadAwaited
<1>9. CASE ReadOther
  <2>1. KeepsAsked
    BY <1>6, <1>9 DEF ReadOther
  <2>2. KeepsAnswers /\ Waits
    BY <1>9 DEF ReadOther, Reading, KeepsAnswers, Waits
  <2> QED
    BY <1>9, <2>1, <2>2, AnswerKept DEF ReadOther
<1>10. CASE ReadCommand
  <2> DEFINE p == Pkt("PUBACK", 0, Head(toDevice).body)
  <2>1. toDevice # << >> /\ toDevice' = Tail(toDevice) /\ UNCHANGED subs
    BY <1>10 DEF ReadCommand, Reading
  <2>2. p \in Packet /\ p.type # "SUBSCRIBE"
    <3>1. Head(toDevice).body \in Bodies
      BY <2>1, StreamTypes DEF Inbound, Packet
    <3> QED
      BY <3>1, ConstantPackets DEF Pkt
  <2>3. KeepsAsked
    BY <1>10, <2>2 DEF ReadCommand, KeepsAsked
  <2>4. Waits
    BY <1>10 DEF ReadCommand, CallFails, TurnFails, Waits, Subscribing
  <2> QED
    BY <2>1, <2>3, <2>4, AnswerKept DEF KeepsAnswers
<1>11. CASE ReadShort
  <2>1. Len(toDevice) \in Nat \ {0} /\ Len(toBroker) \in Nat
    BY <1>11, EmptySeq DEF ReadShort, Reading, TypeOK
  <2> QED
    BY <1>11, <2>1 DEF ReadShort
<1>12. CASE ReadGarbage
  <2>1. toDevice # << >> /\ toDevice \in Seq(Whole)
    BY <1>12 DEF ReadGarbage, Reading, SessionInv, NoGarbage
  <2>2. Head(toDevice) \in Whole
    BY <2>1
  <2> QED
    BY <1>12, <2>2 DEF ReadGarbage, Whole
<1> QED
  BY <1>1, <1>2, <1>3, <1>4, <1>5, <1>7, <1>8, <1>9, <1>10, <1>11, <1>12 DEF Task, Initialize, Read

(* The broker answers a SUBSCRIBE.  *)
LEMMA SubscribeAnswer ==
  ASSUME TypeOK, TypeOK', AnswerInv, BrokerAnswers, Head(toBroker).type = "SUBSCRIBE"
  PROVE  AnswerInv'
<1> DEFINE p == Head(toBroker)
<1>1. /\ toBroker # << >> /\ toBroker' = Tail(toBroker) /\ UNCHANGED <<op, reconnect>>
      /\ \E a \in {"granted", "refused"} : subs' = [subs EXCEPT ![p.body] = a]
  BY DEF BrokerAnswers
<1>2. toBroker \in Seq(Packet) /\ toBroker' \in Seq(Packet) /\ toDevice' \in Seq(Inbound)
  BY DEF TypeOK
<1>3. 1 \in Subscribes /\ toBroker[1] = p
  BY <1>1, <1>2 DEF Subscribes
<1>4. /\ \A f \in Filters : subs[f] # "none" => subs'[f] # "none"
      /\ \A f \in Filters : p.body = f => subs'[f] # "none"
  BY <1>1 DEF TypeOK
<1>5. \A i \in Subscribes' : i + 1 \in Subscribes /\ toBroker'[i] = toBroker[i + 1] /\ i \in Nat \ {0}
  BY <1>1, <1>2, TailKeeps DEF Subscribes
<1>6. op \in Subscribing => Subscribes = {1} /\ Subscribes' = {} /\ Subacks = {}
  <2>1. op \in Subscribing => Subscribes = {1} /\ Subacks = {}
    BY <1>3 DEF AnswerInv, AskedOnce
  <2> QED
    BY <1>5, <2>1
<1>7. AskedOnce'
  <2> SUFFICES ASSUME op \in Subscribing PROVE AskedOnce'
    BY <1>1 DEF AskedOnce
  <2>1. ASSUME NEW i \in Subacks', NEW j \in Subacks' PROVE i = j
    <3>1. PICK a \in {"granted", "refused"} :
            \/ toDevice' = Reply(Pkt("SUBACK", p.id, a))
            \/ \E c \in Cmds : toDevice' = toDevice \o <<Pkt("PUBLISH", 0, c), Pkt("SUBACK", p.id, a)>>
      BY DEF BrokerAnswers
    <3>2. p.id \in 0 .. MaxPacketId /\ toDevice \in Seq(Inbound)
      BY <1>1, StreamTypes DEF Packet, TypeOK
    <3>3. Pkt("SUBACK", p.id, a) \in Inbound
      BY <3>2 DEF Pkt, Inbound, Packet, Types, Bodies
    <3>4. CASE toDevice' = Reply(Pkt("SUBACK", p.id, a))
      BY <1>6, <2>1, <3>2, <3>3, <3>4, AppendKeeps DEF Reply, Subacks
    <3>5. ASSUME NEW c \in Cmds,
                 toDevice' = toDevice \o <<Pkt("PUBLISH", 0, c), Pkt("SUBACK", p.id, a)>>
          PROVE  i = j
      <4> DEFINE q == <<Pkt("PUBLISH", 0, c), Pkt("SUBACK", p.id, a)>>
      <4>1. Pkt("PUBLISH", 0, c) \in Inbound /\ Pkt("PUBLISH", 0, c).type # "SUBACK"
        BY ConstantPackets DEF Pkt
      <4>2. q \in Seq(Inbound) /\ Len(q) = 2 /\ q[1].type # "SUBACK" /\ DOMAIN q = {1, 2}
        BY <3>3, <4>1
      <4>3. Len(toDevice) \in Nat /\ DOMAIN (toDevice \o q) \subseteq Nat
        BY <3>2, <4>2
      <4> HIDE DEF q
      <4>4. \A m \in Subacks' : m - Len(toDevice) = 2 /\ m \in Nat
        BY <1>6, <3>2, <3>5, <4>2, <4>3, ConcatKeeps DEF Subacks, q
      <4> QED
        BY <2>1, <4>3, <4>4
    <3> QED
      BY <3>1, <3>4, <3>5
  <2> QED
    BY <1>6, <2>1 DEF AskedOnce
<1>8. NothingAsked'
  BY <1>1, <1>3 DEF AnswerInv, NothingAsked
<1>9. FirstAsked'
  <2> SUFFICES ASSUME op = "sub_all" PROVE FirstAsked'
    BY <1>1 DEF FirstAsked
  <2>1. p.body = "all"
    BY <1>3 DEF AnswerInv, FirstAsked
  <2>2. subs'["all"] # "none"
    BY <1>4, <2>1 DEF Filters
  <2> QED
    BY <1>6, <2>2 DEF FirstAsked, Subscribing
<1>10. SecondAsked'
  <2> SUFFICES ASSUME op = "sub_dev" PROVE SecondAsked'
    BY <1>1 DEF SecondAsked
  <2>1. p.body = "dev" /\ subs["all"] # "none"
    BY <1>3 DEF AnswerInv, SecondAsked
  <2>2. subs'["all"] # "none" /\ subs'["dev"] # "none"
    BY <1>4, <2>1 DEF Filters
  <2>3. \A i \in Subscribes' : toBroker'[i].body = "dev"
    BY <1>5 DEF AnswerInv, SecondAsked
  <2> QED
    BY <2>2, <2>3 DEF SecondAsked
<1>11. SessionAnswered'
  BY <1>1, <1>4 DEF AnswerInv, SessionAnswered
<1> QED
  BY <1>7, <1>8, <1>9, <1>10, <1>11 DEF AnswerInv

LEMMA EnvironmentAnswer ==
  ASSUME TypeOK, TypeOK', AnswerInv, Environment
  PROVE  AnswerInv'
<1> USE DEF task, client, net, broker
<1>1. CASE (\E m \in Msgs : Request(m)) \/ NetChanges
  BY <1>1, AnswerKept DEF Request, NetChanges, KeepsAsked, KeepsAnswers, Waits
<1>2. ASSUME NEW c \in Cmds, BrokerPublishes(c) PROVE AnswerInv'
  <2>1. /\ Pkt("PUBLISH", 0, c) \in Inbound /\ toDevice' = Reply(Pkt("PUBLISH", 0, c))
        /\ Pkt("PUBLISH", 0, c).type # "SUBACK"
    BY <1>2, ConstantPackets DEF BrokerPublishes, Reply, Pkt
  <2> QED
    BY <1>2, <2>1, AnswerKept DEF BrokerPublishes, KeepsAsked, KeepsAnswers, Waits
<1>3. CASE LinkBreaks
  BY <1>3, AnswerKept DEF LinkBreaks, KeepsAsked, KeepsAnswers, Waits
<1>4. CASE BrokerAnswers /\ Head(toBroker).type = "SUBSCRIBE"
  BY <1>4, SubscribeAnswer
<1>5. CASE BrokerAnswers /\ Head(toBroker).type # "SUBSCRIBE"
  <2> DEFINE p == Head(toBroker)
  <2>1. /\ toBroker # << >> /\ toBroker' = Tail(toBroker) /\ UNCHANGED <<op, reconnect, subs>>
        /\ p.id \in 0 .. MaxPacketId
    BY <1>5, StreamTypes DEF BrokerAnswers, Packet
  <2>2. Pkt("PUBACK", p.id, "none") \in Inbound /\ Pkt("PUBACK", p.id, "none").type # "SUBACK"
    BY <2>1 DEF Pkt, Inbound, Packet, Types, Bodies
  <2>3. Pkt("PINGRESP", 0, "none") \in Inbound /\ Pkt("PINGRESP", 0, "none").type # "SUBACK"
    BY ConstantPackets DEF Pkt
  <2>4. KeepsAnswers
    BY <1>5, <2>2, <2>3 DEF BrokerAnswers, KeepsAnswers
  <2> QED
    BY <2>1, <2>4, AnswerKept DEF KeepsAsked, Waits
<1> QED
  BY <1>1, <1>2, <1>3, <1>4, <1>5 DEF Environment

LEMMA AnswerInvariance ==
  ASSUME ShortReads = 0
  PROVE  Spec => [](TypeOK /\ SessionInv /\ AnswerInv)
<1>1. Init => AnswerInv
  BY DEF Init, AnswerInv, AskedOnce, NothingAsked, FirstAsked, SecondAsked, SessionAnswered,
         Subscribing
<1>2. TypeOK /\ SessionInv /\ AnswerInv /\ TypeOK' /\ [Next]_vars => AnswerInv'
  <2> SUFFICES ASSUME TypeOK, SessionInv, AnswerInv, TypeOK', [Next]_vars PROVE AnswerInv'
    OBVIOUS
  <2>1. CASE Task
    BY <2>1, TaskAnswer
  <2>2. CASE Environment
    BY <2>2, EnvironmentAnswer
  <2>3. CASE UNCHANGED vars
    BY <2>3, AnswerKept DEF vars, task, net, broker, KeepsAsked, KeepsAnswers, Waits
  <2> QED
    BY <2>1, <2>2, <2>3 DEF Next
<1> QED
  BY <1>1, <1>2, SessionInvariance, PTL DEF Spec

(* The session counts as established only after the broker has answered    *)
(* both SUBSCRIBEs on this connection, although the client compares no     *)
(* identifiers and gives up on an answer after a second.                   *)
THEOREM SubscriptionsAnswered ==
  ASSUME ShortReads = 0
  PROVE  Spec => []SessionAnswered
<1>1. AnswerInv => SessionAnswered
  BY DEF AnswerInv
<1> QED
  BY <1>1, AnswerInvariance, PTL

-----------------------------------------------------------------------------
(* Commands.  The broker publishes only once it has granted a filter, the  *)
(* SUBACK that says so precedes the commands in the stream, and reading it *)
(* installs messageArrived: no command is read without a handler.          *)

Granted(p) == p.type = "SUBACK" /\ p.body # "refused"

Grants == {j \in DOMAIN toDevice : Granted(toDevice[j])}

(* A command under way finds messageArrived installed when it is read.     *)
InstalledFirst ==
  \A i \in DOMAIN toDevice :
    toDevice[i].type = "PUBLISH" => handler \/ \E j \in Grants : j < i

(* So would the next command of the broker.  *)
GrantSeen ==
  (link = "up" /\ \E f \in Filters : subs[f] = "granted") => handler \/ Grants # {}

AcksHandled ==
  \A i \in DOMAIN toBroker : toBroker[i].type = "PUBACK" => toBroker[i].body \in handled

(* The task reads what the broker sends: in a session, and while it waits  *)
(* for the answers that make one.                                          *)
Listens == ~reconnect \/ op \in Subscribing

UnderWay(c) == \E i \in DOMAIN toDevice : toDevice[i].type = "PUBLISH" /\ toDevice[i].body = c

CommandKept ==
  \A c \in Cmds : (cmd[c] = "sent" /\ link = "up" /\ Listens) => c \in handled \/ UnderWay(c)

CommandInv ==
  /\ InstalledFirst
  /\ GrantSeen
  /\ AcksHandled
  /\ AckedWasHandled
  /\ CommandKept

(* What a step may do to the two streams without touching a command, a     *)
(* SUBACK under way or an acknowledgement of what was not handled.         *)
KeepsCommands ==
  \/ UNCHANGED toDevice
  \/ \E p \in Inbound : p.type # "PUBLISH" /\ toDevice' = Reply(p)
  \/ /\ toDevice # << >>
     /\ Head(toDevice).type \notin {"PUBLISH", "SUBACK"}
     /\ toDevice' = Tail(toDevice)

KeepsAcks ==
  \/ UNCHANGED toBroker
  \/ \E p \in Packet : (p.type = "PUBACK" => p.body \in handled') /\ toBroker' = Sent(p)
  \/ toBroker # << >> /\ toBroker' = Tail(toBroker)
  \/ \E k \in 0 .. Len(toBroker) : toBroker' = SubSeq(toBroker, 1, k)

LEMMA AcksKept ==
  ASSUME TypeOK, AcksHandled, handled \subseteq handled', KeepsAcks
  PROVE  AcksHandled'
<1>1. toBroker \in Seq(Packet)
  BY DEF TypeOK
<1>2. CASE UNCHANGED toBroker
  BY <1>2 DEF AcksHandled
<1>3. ASSUME NEW p \in Packet, p.type = "PUBACK" => p.body \in handled', toBroker' = Sent(p)
      PROVE  AcksHandled'
  BY <1>1, <1>3, AppendKeeps DEF Sent, AcksHandled
<1>4. CASE toBroker # << >> /\ toBroker' = Tail(toBroker)
  BY <1>1, <1>4, TailKeeps DEF AcksHandled
<1>5. ASSUME NEW k \in 0 .. Len(toBroker), toBroker' = SubSeq(toBroker, 1, k)
      PROVE  AcksHandled'
  BY <1>1, <1>5, Prefix DEF AcksHandled
<1> QED
  BY <1>2, <1>3, <1>4, <1>5 DEF KeepsAcks

(* The stream moves on by at most one packet, which is no granted SUBACK.  *)
LEMMA GrantsShift ==
  ASSUME TypeOK, TypeOK', InstalledFirst, NEW k \in {0, 1}, handler => handler',
         \A i \in DOMAIN toDevice' : toDevice'[i].type = "PUBLISH" =>
            i + k \in DOMAIN toDevice /\ toDevice'[i] = toDevice[i + k],
         \A j \in Grants : j - k \in Grants'
  PROVE  InstalledFirst' /\ (Grants # {} => Grants' # {})
<1>1. DOMAIN toDevice \subseteq Nat /\ DOMAIN toDevice' \subseteq Nat /\ Grants \subseteq Nat
  BY DEF TypeOK, Grants
<1>2. ASSUME NEW i \in DOMAIN toDevice', toDevice'[i].type = "PUBLISH", ~handler'
      PROVE  \E j \in Grants' : j < i
  <2>1. PICK j \in Grants : j < i + k
    BY <1>2 DEF InstalledFirst
  <2>2. j - k \in Grants' /\ j - k < i
    BY <1>1, <2>1
  <2> QED
    BY <2>2
<1> QED
  BY <1>2 DEF InstalledFirst

LEMMA CommandsKept ==
  ASSUME TypeOK, TypeOK', InstalledFirst, KeepsCommands, handler => handler'
  PROVE  /\ InstalledFirst'
         /\ Grants # {} => Grants' # {}
         /\ \A c \in Cmds : UnderWay(c) => UnderWay(c)'
<1>1. toDevice \in Seq(Inbound) /\ DOMAIN toDevice \subseteq Nat /\ Grants \subseteq Nat
  BY DEF TypeOK, Grants
<1>2. CASE UNCHANGED toDevice
  BY <1>1, <1>2 DEF InstalledFirst, Grants, UnderWay
<1>3. ASSUME NEW p \in Inbound, p.type # "PUBLISH", toDevice' = Append(toDevice, p)
      PROVE  /\ InstalledFirst'
             /\ Grants # {} => Grants' # {}
             /\ \A c \in Cmds : UnderWay(c) => UnderWay(c)'
  <2>1. \A i \in DOMAIN toDevice' : toDevice'[i].type = "PUBLISH" =>
            i + 0 \in DOMAIN toDevice /\ toDevice'[i] = toDevice[i + 0]
    <3>1. \A n \in Nat : n + 0 = n
      OBVIOUS
    <3> QED
      BY <1>1, <1>3, <3>1, AppendKeeps
  <2>2. \A j \in DOMAIN toDevice : j \in DOMAIN toDevice' /\ toDevice'[j] = toDevice[j]
    BY <1>1, <1>3, AppendHas
  <2>3. \A j \in Grants : j - 0 \in Grants'
    BY <1>1, <2>2 DEF Grants
  <2> QED
    BY <2>1, <2>2, <2>3, GrantsShift DEF UnderWay
<1>4. CASE /\ toDevice # << >>
           /\ Head(toDevice).type \notin {"PUBLISH", "SUBACK"}
           /\ toDevice' = Tail(toDevice)
  <2>1. \A i \in DOMAIN toDevice' : i + 1 \in DOMAIN toDevice /\ toDevice'[i] = toDevice[i + 1]
    BY <1>1, <1>4, TailKeeps
  <2>2. \A j \in DOMAIN toDevice : toDevice[j].type \in {"PUBLISH", "SUBACK"} => j # 1
    BY <1>1, <1>4
  <2>3. \A j \in DOMAIN toDevice : toDevice[j].type \in {"PUBLISH", "SUBACK"} =>
           j - 1 \in DOMAIN toDevice' /\ toDevice'[j - 1] = toDevice[j]
    BY <1>1, <1>4, <2>2, BehindHead
  <2>4. \A j \in Grants : j - 1 \in Grants'
    BY <2>3 DEF Grants, Granted
  <2> QED
    BY <2>1, <2>3, <2>4, GrantsShift DEF UnderWay
<1> QED
  BY <1>2, <1>3, <1>4 DEF KeepsCommands, Reply

(* A step that handles no command, and does not make the task listen.      *)
LEMMA CommandQuiet ==
  ASSUME TypeOK, TypeOK', CommandInv, KeepsCommands, KeepsAcks,
         UNCHANGED <<handler, link, subs, cmd, handled>>, Listens' => Listens
  PROVE  CommandInv'
<1>1. InstalledFirst' /\ GrantSeen'
  BY CommandsKept DEF CommandInv, GrantSeen
<1>2. AcksHandled'
  BY AcksKept DEF CommandInv
<1>3. AckedWasHandled'
  BY DEF CommandInv, AckedWasHandled
<1>4. CommandKept'
  BY CommandsKept DEF CommandInv, CommandKept
<1> QED
  BY <1>1, <1>2, <1>3, <1>4 DEF CommandInv

(* A session that is left behind takes its commands with it.  *)
LEMMA CommandForgotten ==
  ASSUME TypeOK, CommandInv, ForgetSession, UNCHANGED handled,
         \A i \in DOMAIN toBroker' : toBroker'[i].type # "PUBACK"
  PROVE  CommandInv'
<1>1. toDevice' = << >> /\ \A f \in Filters : subs'[f] = "none"
  BY DEF ForgetSession
<1>2. \A c \in Cmds : cmd'[c] # "sent" /\ (cmd'[c] = "acked" => cmd[c] = "acked")
  BY DEF ForgetSession, TypeOK
<1>3. InstalledFirst' /\ GrantSeen' /\ AcksHandled'
  BY <1>1 DEF InstalledFirst, GrantSeen, AcksHandled
<1>4. AckedWasHandled' /\ CommandKept'
  BY <1>2 DEF CommandInv, AckedWasHandled, CommandKept
<1> QED
  BY <1>3, <1>4 DEF CommandInv

(* The awaited SUBACK is read: a granted one installs messageArrived.      *)
LEMMA SubackCommand ==
  ASSUME TypeOK, TypeOK', CommandInv, ReadAwaited, op \in Subscribing,
         SubackReceived(Head(toDevice).body # "refused")
  PROVE  CommandInv'
<1> DEFINE p == Head(toDevice)
<1>1. /\ toDevice # << >> /\ toDevice' = Tail(toDevice) /\ p.type = "SUBACK"
      /\ UNCHANGED <<link, subs, cmd, handled>>
  BY DEF ReadAwaited, Reading, Awaited, Subscribing, broker
<1>2. toDevice \in Seq(Inbound) /\ DOMAIN toDevice \subseteq Nat
  BY DEF TypeOK
<1>3. handler' = (handler \/ p.body # "refused")
  BY DEF SubackReceived
<1>4. \A i \in DOMAIN toDevice' : i + 1 \in DOMAIN toDevice /\ toDevice'[i] = toDevice[i + 1]
  BY <1>1, <1>2, TailKeeps
<1>5. \A j \in DOMAIN toDevice : j # 1 => j - 1 \in DOMAIN toDevice' /\ toDevice'[j - 1] = toDevice[j]
  BY <1>1, <1>2, BehindHead
<1>6. InstalledFirst' /\ GrantSeen'
  <2>1. CASE handler'
    BY <2>1 DEF InstalledFirst, GrantSeen
  <2>2. CASE ~handler'
    <3>1. ~handler /\ p.body = "refused"
      BY <1>3, <2>2
    <3>2. \A j \in Grants : j - 1 \in Grants'
      BY <1>1, <1>2, <1>5, <3>1 DEF Grants, Granted
    <3>3. InstalledFirst' /\ (Grants # {} => Grants' # {})
      BY <1>4, <3>1, <3>2, GrantsShift DEF CommandInv
    <3> QED
      BY <1>1, <3>1, <3>3 DEF CommandInv, GrantSeen
  <2> QED
    BY <2>1, <2>2
<1>7. AcksHandled'
  <2>1. WireId(NextId) \in 0 .. MaxPacketId
    BY NextIdInRange DEF TypeOK
  <2>2. Pkt("SUBSCRIBE", WireId(NextId), "dev") \in Packet
    BY <2>1, PktInPacket DEF Types, Bodies, Filters
  <2>3. Pkt("SUBSCRIBE", WireId(NextId), "dev").type # "PUBACK"
    BY DEF Pkt
  <2>4. KeepsAcks
    BY <2>2, <2>3 DEF SubackReceived, KeepsAcks
  <2> QED
    BY <1>1, <2>4, AcksKept DEF CommandInv
<1>8. AckedWasHandled'
  BY <1>1 DEF CommandInv, AckedWasHandled
<1>9. CommandKept'
  <2>1. Listens
    BY DEF Listens
  <2>2. \A c \in Cmds : UnderWay(c) => UnderWay(c)'
    <3>1. \A j \in DOMAIN toDevice : toDevice[j].type = "PUBLISH" => j # 1
      BY <1>1, <1>2
    <3> QED
      BY <1>5, <3>1, Zenon DEF UnderWay
  <2> QED
    BY <1>1, <2>1, <2>2 DEF CommandInv, CommandKept
<1> QED
  BY <1>6, <1>7, <1>8, <1>9 DEF CommandInv

(* A command is read: messageArrived is installed, so it is handled before *)
(* its PUBACK goes out, whatever becomes of the PUBACK.                    *)
LEMMA ReadCommandHandles ==
  ASSUME TypeOK, TypeOK', OpInSession, CommandInv, ReadCommand
  PROVE  CommandInv'
<1> DEFINE p == Head(toDevice)
<1>1. /\ toDevice # << >> /\ toDevice' = Tail(toDevice) /\ p.type = "PUBLISH"
      /\ op \in Listening
      /\ UNCHANGED <<handler, link, subs, cmd>>
  BY DEF ReadCommand, Reading, client, broker
<1>2. toDevice \in Seq(Inbound) /\ DOMAIN toDevice \subseteq Nat /\ toDevice[1] = p
      /\ 1 \in DOMAIN toDevice
  BY <1>1 DEF TypeOK
<1>3. p.body \in Cmds /\ p.body \in Bodies
  BY <1>1, StreamTypes DEF Inbound, Packet
<1>4. handler
  <2>1. \A j \in Grants : ~(j < 1)
    BY <1>2 DEF Grants
  <2> QED
    BY <1>1, <1>2, <2>1 DEF CommandInv, InstalledFirst
<1>5. handled' = handled \cup {p.body}
  BY <1>4 DEF ReadCommand
<1>6. InstalledFirst' /\ GrantSeen'
  BY <1>1, <1>4 DEF InstalledFirst, GrantSeen
<1>7. AcksHandled'
  <2>1. Pkt("PUBACK", 0, p.body) \in Packet /\ Pkt("PUBACK", 0, p.body).body \in handled'
    BY <1>3, <1>5, ConstantPackets DEF Pkt
  <2>2. toBroker' = Sent(Pkt("PUBACK", 0, p.body)) \/ UNCHANGED toBroker
    BY DEF ReadCommand
  <2>3. KeepsAcks
    BY <2>1, <2>2 DEF KeepsAcks
  <2> QED
    BY <1>5, <2>3, AcksKept DEF CommandInv
<1>8. AckedWasHandled'
  BY <1>1, <1>5 DEF CommandInv, AckedWasHandled
<1>9. CommandKept'
  <2>1. \A j \in DOMAIN toDevice : j # 1 => j - 1 \in DOMAIN toDevice' /\ toDevice'[j - 1] = toDevice[j]
    BY <1>1, <1>2, BehindHead
  <2>2. \A c \in Cmds : UnderWay(c) => UnderWay(c)' \/ c \in handled'
    BY <1>2, <1>5, <2>1 DEF UnderWay
  <2>3. Listens
    BY <1>1 DEF Listens, Listening, Waiting, OpInSession
  <2> QED
    BY <1>1, <1>5, <2>2, <2>3 DEF CommandInv, CommandKept
<1> QED
  BY <1>6, <1>7, <1>8, <1>9 DEF CommandInv

(* Requests and calls that fail, end or begin. *)
LEMMA TaskCommand ==
  ASSUME TypeOK, TypeOK', SessionInv, AnswerInv, CommandInv, ShortReads = 0, Task
  PROVE  CommandInv'
<1> USE DEF task, client, net, broker
<1>0. OpInSession
  BY DEF SessionInv
<1>1. CASE Wake \/ TimeNotSet \/ BeginYield \/ WaitExpires \/ YieldFails
  <2>1. Listens' => Listens
    BY <1>1 DEF Wake, TimeNotSet, BeginYield, InSession, WaitExpires, YieldFails, CallFails, TurnFails,
                Listens, Subscribing
  <2> QED
    BY <1>1, <2>1, CommandQuiet DEF Wake, TimeNotSet, BeginYield, WaitExpires, YieldFails,
       KeepsCommands, KeepsAcks
<1>2. CASE NoSocket \/ NoConnack \/ ConnectRefused
  <2>1. ForgetSession /\ UNCHANGED handled /\ toBroker' = << >>
    BY <1>2 DEF NoSocket, NoConnack, ConnectRefused
  <2>2. \A i \in DOMAIN toBroker' : toBroker'[i].type # "PUBACK"
    BY <2>1
  <2> QED
    BY <2>1, <2>2, CommandForgotten
<1>3. CASE Connect
  <2>1. toBroker' = <<Pkt("SUBSCRIBE", WireId(NextId), "all")>>
    BY <1>3 DEF Connect
  <2>2. Pkt("SUBSCRIBE", WireId(NextId), "all").type # "PUBACK"
    BY DEF Pkt
  <2>3. \A i \in DOMAIN toBroker' : toBroker'[i].type # "PUBACK"
    BY <2>1, <2>2
  <2> QED
    BY <1>3, <2>3, CommandForgotten DEF Connect
<1>4. CASE BeginPublish
  <2>1. KeepsAcks
    <3>1. pending \in Msgs /\ WireId(NextId) \in 0 .. MaxPacketId
      BY <1>4, NextIdInRange DEF BeginPublish, TypeOK
    <3>2. /\ Pkt("PUBLISH", WireId(NextId), pending) \in Packet
          /\ Pkt("PUBLISH", WireId(NextId), pending).type # "PUBACK"
      BY <3>1, PktInPacket DEF Types, Bodies, Pkt
    <3> QED
      BY <1>4, <3>2 DEF BeginPublish, KeepsAcks
  <2>2. Listens
    BY <1>4 DEF BeginPublish, InSession, Listens
  <2>3. KeepsCommands /\ UNCHANGED <<handler, link, subs, cmd, handled>>
    BY <1>4 DEF BeginPublish, KeepsCommands
  <2> QED
    BY <2>1, <2>2, <2>3, CommandQuiet
<1>5. ASSUME NEW outstanding, Keepalive(outstanding) PROVE KeepsAcks
  <2>1. Pkt("PINGREQ", 0, "none") \in Packet /\ Pkt("PINGREQ", 0, "none").type # "PUBACK"
    BY ConstantPackets DEF Pkt
  <2> QED
    BY <1>5, <2>1 DEF Keepalive, KeepsAcks
<1>6. CASE YieldExpires
  <2>1. KeepsAcks
    BY <1>5, <1>6 DEF YieldExpires
  <2>2. Listens
    BY <1>0, <1>6 DEF YieldExpires, OpInSession, Listens
  <2>3. KeepsCommands /\ UNCHANGED <<handler, link, subs, cmd, handled>>
    BY <1>6 DEF YieldExpires, KeepsCommands
  <2> QED
    BY <2>1, <2>2, <2>3, CommandQuiet
<1>7. CASE ReadAwaited
  <2>1. CASE PubackReceived
    <3>1. op = "pub" /\ UNCHANGED <<handler, toBroker, reconnect>>
      BY <2>1 DEF PubackReceived, TurnSucceeds
    <3>2. /\ toDevice # << >> /\ toDevice' = Tail(toDevice) /\ Head(toDevice).type = "PUBACK"
          /\ UNCHANGED <<link, subs, cmd, handled>>
      BY <1>7, <3>1 DEF ReadAwaited, Reading, Awaited
    <3>3. Listens
      BY <1>0, <3>1 DEF OpInSession, Listens
    <3> QED
      BY <3>1, <3>2, <3>3, CommandQuiet DEF KeepsCommands, KeepsAcks
  <2>2. CASE op \in Subscribing /\ SubackReceived(Head(toDevice).body # "refused")
    BY <1>7, <2>2, SubackCommand
  <2> QED
    BY <1>7, <2>1, <2>2 DEF ReadAwaited
<1>8. CASE ReadOther
  <2>1. /\ toDevice # << >> /\ toDevice' = Tail(toDevice) /\ op \in Listening
        /\ Head(toDevice).type \in {"SUBACK", "PUBACK", "PINGRESP"}
        /\ UNCHANGED <<op, reconnect, handler, link, subs, cmd, handled>>
    BY <1>8 DEF ReadOther, Reading
  <2>2. Head(toDevice).type # "SUBACK"
    <3>1. CASE op \in Subscribing
      BY <1>8, <3>1 DEF ReadOther, Awaited, Subscribing, Waiting
    <3>2. CASE op \notin Subscribing
      <4>1. Subacks = {}
        BY <1>0, <2>1, <3>2 DEF AnswerInv, NothingAsked, OpInSession, Listening, Waiting
      <4> QED
        BY <2>1, <4>1 DEF Subacks, TypeOK
    <3> QED
      BY <3>1, <3>2
  <2>3. KeepsCommands
    BY <2>1, <2>2 DEF KeepsCommands
  <2>4. KeepsAcks
    BY <1>5, <1>8 DEF ReadOther
  <2> QED
    BY <2>1, <2>3, <2>4, CommandQuiet DEF Listens
<1>9. CASE ReadCommand
  BY <1>0, <1>9, ReadCommandHandles
<1>10. CASE ReadShort
  <2>1. Len(toDevice) \in Nat \ {0} /\ Len(toBroker) \in Nat
    BY <1>10, EmptySeq DEF ReadShort, Reading, TypeOK
  <2> QED
    BY <1>10, <2>1 DEF ReadShort
<1>11. CASE ReadGarbage
  <2>1. toDevice # << >> /\ toDevice \in Seq(Whole)
    BY <1>11 DEF ReadGarbage, Reading, SessionInv, NoGarbage
  <2>2. Head(toDevice) \in Whole
    BY <2>1
  <2> QED
    BY <1>11, <2>2 DEF ReadGarbage, Whole
<1> QED
  BY <1>1, <1>2, <1>3, <1>4, <1>6, <1>7, <1>8, <1>9, <1>10, <1>11 DEF Task, Initialize, Read

(* The broker publishes only behind a granted SUBACK.                      *)
LEMMA PublishCommand ==
  ASSUME TypeOK, TypeOK', CommandInv, NEW c \in Cmds, BrokerPublishes(c)
  PROVE  CommandInv'
<1> DEFINE p == Pkt("PUBLISH", 0, c)
<1>1. /\ toDevice' = Append(toDevice, p) /\ link = "up" /\ \E f \in Filters : subs[f] = "granted"
      /\ cmd' = [cmd EXCEPT ![c] = "sent"]
      /\ UNCHANGED <<op, reconnect, handler, link, toBroker, subs, handled>>
  BY DEF BrokerPublishes, task, client
<1>2. /\ toDevice \in Seq(Inbound) /\ p \in Inbound /\ p.type = "PUBLISH" /\ p.body = c
      /\ Len(toDevice) \in Nat /\ DOMAIN toDevice = 1 .. Len(toDevice)
  BY ConstantPackets DEF TypeOK, Pkt
<1> HIDE DEF p
<1>3. /\ \A i \in DOMAIN toDevice : i \in DOMAIN toDevice' /\ toDevice'[i] = toDevice[i]
      /\ Len(toDevice) + 1 \in DOMAIN toDevice' /\ toDevice'[Len(toDevice) + 1] = p
  BY <1>1, <1>2, AppendHas
<1>4. Grants \subseteq Grants' /\ \A j \in Grants : j < Len(toDevice) + 1
  BY <1>2, <1>3 DEF Grants
<1>5. handler \/ Grants # {}
  BY <1>1 DEF CommandInv, GrantSeen
<1>6. InstalledFirst'
  <2>1. \A i \in DOMAIN toDevice' :
          (i \in DOMAIN toDevice /\ toDevice'[i] = toDevice[i]) \/ i = Len(toDevice) + 1
    BY <1>1, <1>2, AppendKeeps
  <2> QED
    BY <1>1, <1>4, <1>5, <2>1 DEF CommandInv, InstalledFirst
<1>7. GrantSeen'
  BY <1>1, <1>4, <1>5 DEF GrantSeen
<1>8. AcksHandled' /\ AckedWasHandled'
  BY <1>1 DEF CommandInv, AcksHandled, AckedWasHandled, TypeOK
<1>9. CommandKept'
  <2>1. UnderWay(c)' /\ \A d \in Cmds : UnderWay(d) => UnderWay(d)'
    BY <1>2, <1>3 DEF UnderWay
  <2>2. \A d \in Cmds : d # c => cmd'[d] = cmd[d]
    BY <1>1 DEF TypeOK
  <2> QED
    BY <1>1, <2>1, <2>2 DEF CommandInv, CommandKept, Listens
<1> QED
  BY <1>6, <1>7, <1>8, <1>9 DEF CommandInv

(* What is lost with the connection is lost from some point on, so a grant *)
(* stays in front of the commands behind it.                               *)
LEMMA BreakCommand ==
  ASSUME TypeOK, TypeOK', CommandInv, LinkBreaks
  PROVE  CommandInv'
<1>1. /\ link' # "up" /\ UNCHANGED <<op, reconnect, handler, subs, cmd, handled>>
      /\ \E k \in 0 .. Len(toBroker) : toBroker' = SubSeq(toBroker, 1, k)
  BY DEF LinkBreaks, task, client, broker
<1>2. PICK k \in 0 .. Len(toDevice) : toDevice' = SubSeq(toDevice, 1, k)
  BY DEF LinkBreaks
<1>3. toDevice \in Seq(Inbound) /\ Len(toDevice) \in Nat /\ DOMAIN toDevice = 1 .. Len(toDevice)
  BY DEF TypeOK
<1>4. DOMAIN toDevice' = 1 .. k /\ \A i \in DOMAIN toDevice' : i \in DOMAIN toDevice /\ toDevice'[i] = toDevice[i]
  BY <1>2, <1>3, SubSeqProperties, Prefix
<1>5. ASSUME NEW i \in DOMAIN toDevice', toDevice'[i].type = "PUBLISH", ~handler
      PROVE  \E j \in Grants' : j < i
  <2>1. PICK j \in Grants : j < i
    BY <1>4, <1>5 DEF CommandInv, InstalledFirst
  <2>2. j \in DOMAIN toDevice'
    BY <1>3, <1>4, <2>1 DEF Grants
  <2> QED
    BY <1>4, <2>1, <2>2 DEF Grants
<1>6. InstalledFirst'
  BY <1>1, <1>5 DEF InstalledFirst
<1>7. AcksHandled'
  BY <1>1, AcksKept DEF CommandInv, KeepsAcks
<1> QED
  BY <1>1, <1>6, <1>7 DEF CommandInv, GrantSeen, AckedWasHandled, CommandKept

(* The answer to a SUBSCRIBE: a filter that is granted is announced.       *)
LEMMA AnswerCommand ==
  ASSUME TypeOK, TypeOK', CommandInv, ~EarlyPublish, BrokerAnswers, Head(toBroker).type = "SUBSCRIBE"
  PROVE  CommandInv'
<1> DEFINE p == Head(toBroker)
<1>1. /\ toBroker # << >> /\ toBroker' = Tail(toBroker)
      /\ UNCHANGED <<op, reconnect, handler, link, cmd, handled>>
  BY DEF BrokerAnswers, client
<1>2. PICK a \in {"granted", "refused"} :
        /\ subs' = [subs EXCEPT ![p.body] = a]
        /\ toDevice' = Reply(Pkt("SUBACK", p.id, a))
  BY DEF BrokerAnswers
<1> DEFINE q == Pkt("SUBACK", p.id, a)
<1>3. q \in Inbound /\ q.type = "SUBACK" /\ q.body = a
  <2>1. p.id \in 0 .. MaxPacketId
    BY <1>1, StreamTypes DEF Packet
  <2> QED
    BY <2>1 DEF Pkt, Inbound, Packet, Types, Bodies
<1>4. toDevice' = Reply(q)
  BY <1>2
<1> HIDE DEF q
<1>5. KeepsCommands
  BY <1>3, <1>4 DEF KeepsCommands
<1>6. InstalledFirst' /\ (Grants # {} => Grants' # {})
  BY <1>1, <1>5, CommandsKept DEF CommandInv
<1>7. GrantSeen'
  <2> SUFFICES ASSUME link = "up", NEW f \in Filters, subs'[f] = "granted", ~handler PROVE Grants' # {}
    BY <1>1 DEF GrantSeen
  <2>1. CASE subs[f] = "granted"
    BY <1>6, <2>1 DEF CommandInv, GrantSeen
  <2>2. CASE subs[f] # "granted"
    <3>1. a = "granted"
      BY <1>2, <2>2 DEF TypeOK
    <3>2. toDevice' = Append(toDevice, q)
      BY <1>4 DEF Reply
    <3>3. Len(toDevice) + 1 \in DOMAIN toDevice' /\ toDevice'[Len(toDevice) + 1] = q
      BY <1>3, <3>2, AppendHas DEF TypeOK
    <3> QED
      BY <1>3, <3>1, <3>3 DEF Grants, Granted
  <2> QED
    BY <2>1, <2>2
<1>8. AcksHandled'
  BY <1>1, AcksKept DEF CommandInv, KeepsAcks
<1>9. AckedWasHandled'
  BY <1>1 DEF CommandInv, AckedWasHandled
<1>10. CommandKept'
  BY <1>1, <1>5, CommandsKept DEF CommandInv, CommandKept, Listens
<1> QED
  BY <1>6, <1>7, <1>8, <1>9, <1>10 DEF CommandInv

LEMMA EnvironmentCommand ==
  ASSUME TypeOK, TypeOK', CommandInv, ~EarlyPublish, Environment
  PROVE  CommandInv'
<1> USE DEF task, client, net, broker
<1>1. CASE (\E m \in Msgs : Request(m)) \/ NetChanges
  BY <1>1, CommandQuiet DEF Request, NetChanges, KeepsCommands, KeepsAcks, Listens
<1>2. ASSUME NEW c \in Cmds, BrokerPublishes(c) PROVE CommandInv'
  BY <1>2, PublishCommand
<1>3. CASE LinkBreaks
  BY <1>3, BreakCommand
<1>4. CASE BrokerAnswers
  <2> DEFINE p == Head(toBroker)
  <2>1. /\ toBroker # << >> /\ toBroker' = Tail(toBroker)
        /\ UNCHANGED <<op, reconnect, handler, link, handled>>
        /\ p.id \in 0 .. MaxPacketId
    BY <1>4, StreamTypes DEF BrokerAnswers, Packet
  <2>2. CASE p.type = "SUBSCRIBE"
    BY <1>4, <2>2, AnswerCommand
  <2>3. CASE p.type \in {"PUBLISH", "PINGREQ"}
    <3>1. Pkt("PUBACK", p.id, "none") \in Inbound /\ Pkt("PUBACK", p.id, "none").type # "PUBLISH"
      BY <2>1 DEF Pkt, Inbound, Packet, Types, Bodies
    <3>2. Pkt("PINGRESP", 0, "none") \in Inbound /\ Pkt("PINGRESP", 0, "none").type # "PUBLISH"
      BY ConstantPackets DEF Pkt
    <3>3. KeepsCommands /\ UNCHANGED <<subs, cmd>>
      BY <1>4, <2>3, <3>1, <3>2 DEF BrokerAnswers, KeepsCommands
    <3> QED
      BY <2>1, <3>3, CommandQuiet DEF KeepsAcks, Listens
  <2>4. CASE p.type = "PUBACK"
    <3>1. cmd' = [cmd EXCEPT ![p.body] = "acked"] /\ UNCHANGED <<toDevice, subs>>
      BY <1>4, <2>4 DEF BrokerAnswers
    <3>2. p.body \in handled
      BY <2>1, <2>4 DEF CommandInv, AcksHandled, TypeOK
    <3>3. AckedWasHandled'
      BY <2>1, <3>1, <3>2 DEF CommandInv, AckedWasHandled, TypeOK
    <3>4. CommandKept'
      BY <2>1, <3>1, <3>2 DEF CommandInv, CommandKept, TypeOK, UnderWay, Listens
    <3>5. InstalledFirst' /\ GrantSeen'
      BY <2>1, <3>1 DEF CommandInv, InstalledFirst, GrantSeen, Grants
    <3>6. AcksHandled'
      BY <2>1, AcksKept DEF CommandInv, KeepsAcks
    <3> QED
      BY <3>3, <3>4, <3>5, <3>6 DEF CommandInv
  <2> QED
    BY <1>4, <2>2, <2>3, <2>4 DEF BrokerAnswers
<1> QED
  BY <1>1, <1>2, <1>3, <1>4 DEF Environment

LEMMA CommandInvariance ==
  ASSUME ShortReads = 0, ~EarlyPublish
  PROVE  Spec => []CommandInv
<1>1. Init => CommandInv
  BY DEF Init, CommandInv, InstalledFirst, GrantSeen, AcksHandled, AckedWasHandled, CommandKept
<1>2. /\ TypeOK /\ SessionInv /\ AnswerInv /\ CommandInv /\ TypeOK' /\ [Next]_vars
      => CommandInv'
  <2> SUFFICES ASSUME TypeOK, SessionInv, AnswerInv, CommandInv, TypeOK', [Next]_vars
               PROVE  CommandInv'
    OBVIOUS
  <2>1. CASE Task
    BY <2>1, TaskCommand
  <2>2. CASE Environment
    BY <2>2, EnvironmentCommand
  <2>3. CASE UNCHANGED vars
    BY <2>3, CommandQuiet DEF vars, task, client, net, broker, KeepsCommands, KeepsAcks, Listens
  <2> QED
    BY <2>1, <2>2, <2>3 DEF Next
<1> QED
  BY <1>1, <1>2, AnswerInvariance, PTL DEF Spec

(* A command the broker counts as acknowledged was given to messageArrived, *)
(* although the PUBACK is sent whether or not a handler is installed: the  *)
(* first granted SUBACK installs it, and no command precedes that SUBACK.  *)
THEOREM AckMeansHandled ==
  ASSUME ShortReads = 0, ~EarlyPublish
  PROVE  Spec => []AckedWasHandled
<1>1. CommandInv => AckedWasHandled
  BY DEF CommandInv
<1> QED
  BY <1>1, CommandInvariance, PTL

(* While a session lasts on a working connection, a command the broker sent *)
(* in it is still in the stream or has been handled: trading publishing off *)
(* with listening, waiting in MQTTPublish and sending pings miss nothing.   *)
THEOREM CommandsReachHandler ==
  ASSUME ShortReads = 0, ~EarlyPublish
  PROVE  Spec => []NoCommandMissed
<1>1. CommandInv => NoCommandMissed
  BY DEF CommandInv, CommandKept, NoCommandMissed, UnderWay, Listens
<1> QED
  BY <1>1, CommandInvariance, PTL
=============================================================================
