----------------------------- MODULE MqttSession -----------------------------
(***************************************************************************)
(* One MQTT session of the node: the client library (MQTTClient.c over     *)
(* MQTTCC3200.c), the turn of vMQTTTask in main.c that drives it, and the  *)
(* broker and the TLS connection as its environment.                       *)
(*                                                                         *)
(* A step of the task ends where the task blocks: in a sleep, or in        *)
(* sl_Select inside cycle().  "op" names the call the task is blocked in.  *)
(* An MQTT packet is a record; the stream of bytes is a sequence of them,  *)
(* and what remains of a packet of which only the header was read is one   *)
(* "GARBAGE" element.                                                      *)
(***************************************************************************)
EXTENDS Integers, Sequences

CONSTANTS
  Msgs,         \* messages the node publishes (data points and acks)
  Oversized,    \* those that do not fit in writeBuf (MAX_PLD_LENGTH, 250)
  Cmds,         \* commands other clients publish to the node, at QoS 1
  NoMsg,        \* nothing to publish
  MaxPacketId,  \* MAX_PACKET_ID, 65535 in the code: largest 16-bit identifier
  UintMax,      \* largest value of next_packetid, an unsigned int
  MaxRetries,   \* MAX_NUM_RETRIES, 5 in the code
  ShortReads,   \* bound: packets under way up to which a read may time out
                \* inside a packet; 0, and every packet arrives whole
  EarlyPublish  \* may the broker publish to a filter before its SUBACK?

ASSUME SessionAssumption ==
  /\ NoMsg \notin Msgs
  /\ Oversized \subseteq Msgs
  /\ MaxPacketId \in Nat \ {0}
  /\ UintMax \in Nat
  /\ UintMax >= MaxPacketId
  /\ MaxRetries \in Nat \ {0}
  /\ ShortReads \in Nat
  /\ EarlyPublish \in BOOLEAN

VARIABLES
  online,       \* Net_Status() == CONNECTED
  op,           \* what vMQTTTask is blocked in
  reconnect,    \* ucMQTTReconnectRequest
  retry,        \* ucRetryCounter
  pubCycle,     \* bPubCycle
  pending,      \* the message a set publish flag asks for
  call,         \* the latest call of MQTTPublish (history)
  next,         \* c->next_packetid
  isconnected,  \* c->isconnected
  handler,      \* c->defaultMessageHandler # NULL
  ping,         \* c->ping_outstanding
  link,         \* the TLS connection
  toBroker,     \* packets under way to the broker
  toDevice,     \* packets under way to the node
  subs,         \* what the broker answered to each SUBSCRIBE of the session
  cmd,          \* each command as the broker sees it
  handled       \* commands messageArrived was called with (history)

task   == <<op, reconnect, retry, pubCycle, pending, call>>
client == <<next, isconnected, handler, ping>>
net    == <<link, toBroker, toDevice>>
broker == <<subs, cmd>>
vars   == <<online, task, client, net, broker, handled>>

-----------------------------------------------------------------------------
(* Packets. *)

Filters == {"all", "dev"}  \* "airu/all" and "airu/<device ID>"

Types == {"SUBSCRIBE", "SUBACK", "PUBLISH", "PUBACK", "PINGREQ", "PINGRESP",
          "GARBAGE"}

Bodies == Msgs \cup Cmds \cup Filters \cup {"granted", "refused", "none"}

Packet == [type : Types, id : 0 .. MaxPacketId, body : Bodies]

(* What the broker sends: it publishes nothing but commands. *)
Inbound == {p \in Packet : p.type = "PUBLISH" => p.body \in Cmds}

Pkt(t, i, b) == [type |-> t, id |-> i, body |-> b]

Garbage == Pkt("GARBAGE", 0, "none")

Calls == [msg : Msgs \cup {NoMsg}, id : 0 .. MaxPacketId, reached : BOOLEAN,
          rc : {"none", "pending", "ok", "fail"}]

Ops == {"idle", "sub_all", "sub_dev", "pub", "yield", "backoff", "long"}

Subscribing == {"sub_all", "sub_dev"}

Waiting == Subscribing \cup {"pub"}  \* blocked in waitfor(), up to 1 s

Listening == Waiting \cup {"yield"}  \* blocked in a read of cycle()

(* The packet type a call of waitfor() returns on. *)
Awaited == IF op = "pub" THEN "PUBACK" ELSE "SUBACK"

(* getNextPacketId: the wrap is tested for equality, and the field is      *)
(* wider than the identifier on the wire.                                  *)
NextId == IF next = MaxPacketId THEN 1 ELSE (next + 1) % (UintMax + 1)

WireId(n) == n % (MaxPacketId + 1)

(* Fault: sendPacket transmits the buffer a second time. *)
SentTwice(p) == IF link = "up" THEN toBroker \o <<p, p>> ELSE toBroker

(* What a send leaves in the stream: a half-open link swallows it. *)
Sent(p) == IF link = "up" THEN Append(toBroker, p) ELSE toBroker

CanSend == link # "down"

Reply(p) == IF link = "up" THEN Append(toDevice, p) ELSE toDevice

-----------------------------------------------------------------------------
(* main() clears the globals; "ci" is a local of vMQTTTask that nothing    *)
(* initialises, so next_packetid starts with any value.                    *)
Init ==
  /\ online = FALSE
  /\ op = "idle"
  /\ reconnect = TRUE
  /\ retry = 0
  /\ pubCycle = TRUE
  /\ pending = NoMsg
  /\ call = [msg |-> NoMsg, id |-> 0, reached |-> FALSE, rc |-> "none"]
  /\ next \in 0 .. UintMax
  /\ isconnected = FALSE
  /\ handler = FALSE
  /\ ping = FALSE
  /\ link = "down"
  /\ toBroker = << >>
  /\ toDevice = << >>
  /\ subs = [f \in Filters |-> "none"]
  /\ cmd = [c \in Cmds |-> "new"]
  /\ handled = {}

-----------------------------------------------------------------------------
(* The end of a turn of vMQTTTask. *)

(* Fault: the counter of failures is not reset after the long sleep. *)
TurnFailsUncapped ==
  /\ reconnect' = TRUE
  /\ retry' = retry + 1
  /\ op' = IF retry' % MaxRetries = 0 THEN "long" ELSE "backoff"

(* rc < SUCCESS: ask for a new session and sleep, a minute every           *)
(* MaxRetries failures and a second otherwise.                             *)
TurnFails ==
  /\ reconnect' = TRUE
  /\ retry' = (retry + 1) % MaxRetries
  /\ op' = IF retry' = 0 THEN "long" ELSE "backoff"

TurnSucceeds ==
  /\ op' = "idle"
  /\ UNCHANGED <<reconnect, retry>>

(* The call in progress returns rc; only MQTTPublish leaves a trace. *)
PublishReturns(rc) == call' = IF op = "pub" THEN [call EXCEPT !.rc = rc] ELSE call

(* Fault: a failed call does not end the session. *)
CallFailsInSession ==
  /\ op' = "backoff"
  /\ PublishReturns("fail")
  /\ UNCHANGED <<reconnect, retry, pubCycle, pending>>

CallFails == TurnFails /\ PublishReturns("fail") /\ UNCHANGED <<pubCycle, pending>>

Wake ==
  /\ op \in {"backoff", "long"}
  /\ op' = "idle"
  /\ UNCHANGED <<online, reconnect, retry, pubCycle, pending, call, client, net,
                 broker, handled>>

-----------------------------------------------------------------------------
(* MQTTInitialize and the subscriptions. *)

Reconnecting == op = "idle" /\ online /\ reconnect

(* cc3200_disconnect: nothing of the old connection is read or sent again, *)
(* and with cleansession = 1 the broker forgets what it had not had        *)
(* acknowledged.                                                           *)
ForgetSession ==
  /\ toDevice' = << >>
  /\ subs' = [f \in Filters |-> "none"]
  /\ cmd' = [c \in Cmds |-> IF cmd[c] = "sent" THEN "lost" ELSE cmd[c]]

(* Fault: MQTTClient() forgets ping_outstanding. *)
ResetClientButPing(connected) ==
  /\ isconnected' = connected
  /\ handler' = FALSE
  /\ UNCHANGED ping

(* MQTTClient(): next_packetid keeps its value. *)
ResetClient(connected) ==
  /\ isconnected' = connected
  /\ handler' = FALSE
  /\ ping' = FALSE

(* TIME_SetSLDeviceTime fails: MQTTInitialize returns before it closes the *)
(* old socket.                                                             *)
TimeNotSet ==
  /\ Reconnecting
  /\ TurnFails
  /\ UNCHANGED <<online, pubCycle, pending, call, client, net, broker, handled>>

(* TLSConnectNetwork fails: the client keeps the state of the old session. *)
NoSocket ==
  /\ Reconnecting
  /\ TurnFails
  /\ link' = "down"
  /\ toBroker' = << >>
  /\ ForgetSession
  /\ UNCHANGED <<online, pubCycle, pending, call, client, handled>>

(* CONNECT could not be sent, or no CONNACK came within command_timeout_ms. *)
NoConnack ==
  /\ Reconnecting
  /\ TurnFails
  /\ link' = "down"
  /\ toBroker' = << >>
  /\ ForgetSession
  /\ ResetClient(FALSE)
  /\ UNCHANGED <<online, pubCycle, pending, call, next, handled>>

(* CONNACK carries a refusal, 1 to 5: MQTTConnect returns it, which is     *)
(* neither SUCCESS nor below SUCCESS, so the task tries again on its next  *)
(* turn without counting the failure or sleeping for it.                   *)
ConnectRefused ==
  /\ Reconnecting
  /\ link' = "down"
  /\ toBroker' = << >>
  /\ ForgetSession
  /\ ResetClient(FALSE)
  /\ UNCHANGED <<online, task, next, handled>>

(* CONNACK accepts, and MQTTSubscribeAll sends its first SUBSCRIBE. *)
Connect ==
  /\ Reconnecting
  /\ link' = "up"
  /\ ForgetSession
  /\ ResetClient(TRUE)
  /\ next' = NextId
  /\ toBroker' = <<Pkt("SUBSCRIBE", WireId(NextId), "all")>>
  /\ op' = "sub_all"
  /\ UNCHANGED <<online, reconnect, retry, pubCycle, pending, call, handled>>

(* Fault: the first SUBACK completes MQTTSubscribeAll. *)
SubackCompletes(granted) ==
  /\ op \in Subscribing
  /\ handler' = (handler \/ granted)
  /\ op' = "idle"
  /\ reconnect' = FALSE
  /\ retry' = 0
  /\ UNCHANGED <<pubCycle, pending, call, isconnected, ping, next, toBroker>>

(* waitfor() returned SUBACK.  Any answer but a refusal installs           *)
(* messageArrived, and a refusal, 0x80, is not below SUCCESS either: the   *)
(* next SUBSCRIBE follows, or the session counts as established.           *)
SubackReceived(granted) ==
  /\ handler' = (handler \/ granted)
  /\ UNCHANGED <<pubCycle, pending, call, isconnected, ping>>
  /\ \/ /\ op = "sub_all"
        /\ next' = NextId
        /\ toBroker' = Sent(Pkt("SUBSCRIBE", WireId(NextId), "dev"))
        /\ IF CanSend THEN op' = "sub_dev" /\ UNCHANGED <<reconnect, retry>>
                      ELSE TurnFails
     \/ /\ op = "sub_dev"
        /\ op' = "idle"
        /\ reconnect' = FALSE
        /\ retry' = 0
        /\ UNCHANGED <<next, toBroker>>

-----------------------------------------------------------------------------
(* The publish turn and the yield turn. *)

(* Some task asks for a message to be published (setMQTTPubFlag).  That it *)
(* may write its payload over while the flag is still set is in MqttTask.  *)
Request(m) ==
  /\ pending = NoMsg
  /\ pending' = m
  /\ UNCHANGED <<online, op, reconnect, retry, pubCycle, call, client, net,
                 broker, handled>>

InSession == op = "idle" /\ online /\ ~reconnect

(* MQTTPublish up to the wait for the acknowledgement.  It draws an        *)
(* identifier before it learns that the message does not fit.              *)
BeginPublish ==
  /\ InSession
  /\ pubCycle
  /\ pending # NoMsg
  /\ pubCycle' = FALSE
  /\ UNCHANGED <<online, pending, isconnected, handler, ping, link, toDevice,
                 broker, handled>>
  /\ IF isconnected THEN next' = NextId ELSE UNCHANGED next
  /\ IF isconnected /\ pending \notin Oversized /\ CanSend
     THEN /\ toBroker' = Sent(Pkt("PUBLISH", WireId(NextId), pending))
          /\ call' = [msg |-> pending, id |-> WireId(NextId), reached |-> FALSE,
                      rc |-> "pending"]
          /\ op' = "pub"
          /\ UNCHANGED <<reconnect, retry>>
     ELSE /\ call' = [msg |-> pending, id |-> 0, reached |-> FALSE, rc |-> "fail"]
          /\ TurnFails
          /\ UNCHANGED toBroker

BeginYield ==
  /\ InSession
  /\ ~(pubCycle /\ pending # NoMsg)
  /\ op' = "yield"
  /\ pubCycle' = TRUE
  /\ UNCHANGED <<online, reconnect, retry, pending, call, client, net, broker,
                 handled>>

(* waitfor() returned PUBACK.  Its identifier is read and not compared. *)
PubackReceived ==
  /\ op = "pub"
  /\ pending' = NoMsg
  /\ PublishReturns("ok")
  /\ TurnSucceeds
  /\ UNCHANGED <<pubCycle, client, toBroker>>

(* Fault: running out of time in waitfor() is reported as success. *)
WaitExpiresQuietly ==
  /\ op \in Waiting
  /\ TurnSucceeds
  /\ PublishReturns("fail")
  /\ UNCHANGED <<online, pubCycle, pending, client, net, broker, handled>>

(* The timer of the call ran out: success for MQTTYield, not for waitfor(). *)
WaitExpires ==
  /\ op \in Waiting
  /\ CallFails
  /\ UNCHANGED <<online, client, net, broker, handled>>

(* keepalive() ends every cycle(); "outstanding" is ping_outstanding as the *)
(* cycle left it.  Every send restarts the ping timer of 120 s, so it       *)
(* cannot run out in waitfor().                                             *)
Keepalive(outstanding) ==
  \/ ping' = outstanding /\ UNCHANGED toBroker
  \/ /\ op = "yield"
     /\ ~outstanding
     /\ CanSend
     /\ ping' = TRUE
     /\ toBroker' = Sent(Pkt("PINGREQ", 0, "none"))

YieldExpires ==
  /\ op = "yield"
  /\ TurnSucceeds
  /\ Keepalive(ping)
  /\ UNCHANGED <<online, pubCycle, pending, call, next, isconnected, handler,
                 link, toDevice, broker, handled>>

(* The socket reports an error: cc3200_read retries until its timer runs   *)
(* out and returns -1.  In waitfor() this is no different from silence.    *)
YieldFails ==
  /\ op = "yield"
  /\ link = "down"
  /\ toDevice = << >>
  /\ CallFails
  /\ UNCHANGED <<online, client, net, broker, handled>>

-----------------------------------------------------------------------------
(* cycle(): one packet is read and acted on. *)

Reading == op \in Listening /\ toDevice # << >>

(* Fault: what follows the awaited packet in the stream is thrown away. *)
ReadAwaitedAndFlush ==
  /\ Reading
  /\ op \in Waiting
  /\ Head(toDevice).type = Awaited
  /\ toDevice' = << >>
  /\ \/ op \in Subscribing /\ SubackReceived(Head(toDevice).body # "refused")
     \/ PubackReceived
  /\ UNCHANGED <<online, link, broker, handled>>

ReadAwaited ==
  /\ Reading
  /\ op \in Waiting
  /\ Head(toDevice).type = Awaited
  /\ toDevice' = Tail(toDevice)
  /\ \/ op \in Subscribing /\ SubackReceived(Head(toDevice).body # "refused")
     \/ PubackReceived
  /\ UNCHANGED <<online, link, broker, handled>>

(* A packet nobody waits for; a PINGRESP clears the outstanding ping. *)
ReadOther ==
  /\ Reading
  /\ Head(toDevice).type \in {"SUBACK", "PUBACK", "PINGRESP"}
  /\ ~(op \in Waiting /\ Head(toDevice).type = Awaited)
  /\ toDevice' = Tail(toDevice)
  /\ Keepalive(ping /\ Head(toDevice).type # "PINGRESP")
  /\ UNCHANGED <<online, task, next, isconnected, handler, link, broker, handled>>

(* Fault: the PUBACK goes out before the handler is called, and a send that *)
(* fails skips the handler.  *)
ReadCommandAckFirst ==
  /\ Reading
  /\ Head(toDevice).type = "PUBLISH"
  /\ toDevice' = Tail(toDevice)
  /\ toBroker' = Sent(Pkt("PUBACK", 0, Head(toDevice).body))
  /\ \/ handler /\ handled' = handled \cup {Head(toDevice).body} /\ UNCHANGED task
     \/ CallFails /\ UNCHANGED handled
  /\ UNCHANGED <<online, client, link, broker>>

(* A command: messageArrived if it is installed, then the PUBACK.  The     *)
(* call's own timer bounds the PUBACK too, so a handler that takes longer  *)
(* leaves it unsent and fails the call; so does a dead socket, except that *)
(* waitfor() then goes on until its timer runs out.                        *)
ReadCommand ==
  /\ Reading
  /\ Head(toDevice).type = "PUBLISH"
  /\ LET c == Head(toDevice).body
     IN  /\ handled' = IF handler THEN handled \cup {c} ELSE handled
         /\ \/ /\ CanSend
               /\ toBroker' = Sent(Pkt("PUBACK", 0, c))
               /\ UNCHANGED task
            \/ /\ CallFails
               /\ UNCHANGED toBroker
            \/ /\ ~CanSend
               /\ op \in Waiting
               /\ UNCHANGED <<task, toBroker>>
  /\ toDevice' = Tail(toDevice)
  /\ UNCHANGED <<online, client, link, broker>>

(* What remains in the stream after the header of the first packet was     *)
(* read and its body was not, or not in time.                              *)
Remains == {Tail(toDevice), <<Garbage>> \o Tail(toDevice)}

(* The timer runs out in the header or between it and the body.  In the    *)
(* header, cc3200_read has taken the byte and returns -1: a failed read.   *)
(* After it, readPacket returns 1, which nobody waits for, or the type of  *)
(* a packet with an empty body, which the deserialisers accept: a PUBACK   *)
(* counts, a SUBACK yields the initial grantedQoS -1, a PINGRESP clears    *)
(* the outstanding ping, a command is not recognisable.                    *)
ReadShort ==
  /\ Reading
  /\ Len(toBroker) + Len(toDevice) <= ShortReads
  /\ Head(toDevice).type # "GARBAGE"
  /\ toDevice' \in Remains
  /\ \/ /\ op = "yield"
        /\ TurnSucceeds
        /\ Keepalive(ping /\ Head(toDevice).type # "PINGRESP")
        /\ UNCHANGED <<pubCycle, pending, call, next, isconnected, handler>>
     \/ /\ CallFails
        /\ handler' = (handler \/ (op \in Subscribing /\ Head(toDevice).type = "SUBACK"))
        /\ ping' \in {ping, ping /\ Head(toDevice).type # "PINGRESP"}
        /\ UNCHANGED <<next, isconnected, toBroker>>
     \/ Head(toDevice).type = "PUBACK" /\ PubackReceived
  /\ UNCHANGED <<online, link, broker, handled>>

(* Leftover bytes are read as a packet of whatever type they spell.  It    *)
(* may reach into the packet that follows.  One leftover is read as one    *)
(* packet.                                                                 *)
ReadGarbage ==
  /\ Reading
  /\ Head(toDevice).type = "GARBAGE"
  /\ \/ toDevice' = Tail(toDevice)
     \/ /\ Len(toDevice) > 1
        /\ toDevice' = <<Garbage>> \o Tail(Tail(toDevice))
  /\ \/ /\ \E outstanding \in {ping, FALSE} : Keepalive(outstanding)
        /\ UNCHANGED <<task, next, isconnected, handler>>
     \/ /\ op = "yield"
        /\ CallFails
        /\ UNCHANGED <<client, toBroker>>
     \/ op \in Subscribing /\ \E granted \in BOOLEAN : SubackReceived(granted)
     \/ PubackReceived
  /\ UNCHANGED <<online, link, broker, handled>>

-----------------------------------------------------------------------------
(* The environment: the broker, the connection, the access point. *)

BrokerAnswers ==
  /\ toBroker # << >>
  /\ toBroker' = Tail(toBroker)
  /\ LET p == Head(toBroker)
     IN  \/ /\ p.type = "SUBSCRIBE"
            /\ \E a \in {"granted", "refused"} :
                 /\ subs' = [subs EXCEPT ![p.body] = a]
                 /\ \/ /\ toDevice' = Reply(Pkt("SUBACK", p.id, a))
                       /\ UNCHANGED cmd
                    \/ \E c \in Cmds :
                         /\ EarlyPublish /\ a = "granted" /\ link = "up"
                         /\ cmd[c] = "new"
                         /\ cmd' = [cmd EXCEPT ![c] = "sent"]
                         /\ toDevice' = toDevice \o <<Pkt("PUBLISH", 0, c),
                                                      Pkt("SUBACK", p.id, a)>>
            /\ UNCHANGED call
         \/ /\ p.type = "PUBLISH"
            /\ call' = [call EXCEPT !.reached =
                          @ \/ (p.id = call.id /\ p.body = call.msg)]
            /\ toDevice' = Reply(Pkt("PUBACK", p.id, "none"))
            /\ UNCHANGED broker
         \/ /\ p.type = "PUBACK"
            /\ cmd' = [cmd EXCEPT ![p.body] = "acked"]
            /\ UNCHANGED <<call, toDevice, subs>>
         \/ /\ p.type = "PINGREQ"
            /\ toDevice' = Reply(Pkt("PINGRESP", 0, "none"))
            /\ UNCHANGED <<call, broker>>
  /\ UNCHANGED <<online, op, reconnect, retry, pubCycle, pending, client, link,
                 handled>>

BrokerPublishes(c) ==
  /\ link = "up"
  /\ cmd[c] = "new"
  /\ \E f \in Filters : subs[f] = "granted"
  /\ cmd' = [cmd EXCEPT ![c] = "sent"]
  /\ toDevice' = Append(toDevice, Pkt("PUBLISH", 0, c))
  /\ UNCHANGED <<online, task, client, link, toBroker, subs, handled>>

(* The connection is cut, with or without the node being told; what was    *)
(* under way is lost from some point on.                                   *)
LinkBreaks ==
  /\ link # "down"
  /\ link' \in {"half", "down"} \ {link}
  /\ \E k \in 0 .. Len(toBroker) : toBroker' = SubSeq(toBroker, 1, k)
  /\ \E k \in 0 .. Len(toDevice) : toDevice' = SubSeq(toDevice, 1, k)
  /\ UNCHANGED <<online, task, client, broker, handled>>

NetChanges ==
  /\ online' = ~online
  /\ UNCHANGED <<task, client, net, broker, handled>>

-----------------------------------------------------------------------------
Initialize == \/ TimeNotSet \/ NoSocket \/ NoConnack \/ ConnectRefused \/ Connect

Read == ReadAwaited \/ ReadOther \/ ReadCommand \/ ReadShort \/ ReadGarbage

Task == \/ Wake \/ Initialize \/ BeginPublish \/ BeginYield
        \/ WaitExpires \/ YieldExpires \/ YieldFails \/ Read

Environment == \/ \E m \in Msgs : Request(m)
               \/ BrokerAnswers
               \/ \E c \in Cmds : BrokerPublishes(c)
               \/ LinkBreaks
               \/ NetChanges

Next == Task \/ Environment

Spec == Init /\ [][Next]_vars

-----------------------------------------------------------------------------
(***************************************************************************)
(* Properties.                                                             *)
(***************************************************************************)

(* Every variable holds a value of the range the code gives it. *)
TypeOK ==
  /\ online \in BOOLEAN
  /\ op \in Ops
  /\ reconnect \in BOOLEAN
  /\ retry \in 0 .. MaxRetries - 1
  /\ pubCycle \in BOOLEAN
  /\ pending \in Msgs \cup {NoMsg}
  /\ call \in Calls
  /\ next \in 0 .. UintMax
  /\ isconnected \in BOOLEAN
  /\ handler \in BOOLEAN
  /\ ping \in BOOLEAN
  /\ link \in {"up", "half", "down"}
  /\ toBroker \in Seq(Packet)
  /\ toDevice \in Seq(Inbound)
  /\ subs \in [Filters -> {"none", "granted", "refused"}]
  /\ cmd \in [Cmds -> {"new", "sent", "acked", "lost"}]
  /\ handled \subseteq Cmds

(* The contract's view of a call leaves the packet identifier out. *)
Contract == INSTANCE PublishContract
              WITH call <- [msg |-> call.msg, reached |-> call.reached, rc |-> call.rc]

(* A call of MQTTPublish that returns SUCCESS was taken in by the broker,  *)
(* although waitfor() accepts any PUBACK and MQTTPublish never compares    *)
(* the identifier: the session implements PublishContract.                 *)
ImplementsContract == Contract!Spec

(* The reason: while MQTTPublish waits, the only PUBACK that can be in the *)
(* stream is that of the packet it sent, whatever was sent, acknowledged   *)
(* late or lost before, because every failed call ends the session.        *)
NoStalePuback ==
  op = "pub" => \A i \in DOMAIN toDevice :
                  toDevice[i].type = "PUBACK" => toDevice[i].id = call.id /\ call.reached

(* The task leaves the reconnect branch only after the broker answered     *)
(* both SUBSCRIBEs of MQTTSubscribeAll on this connection; the client does *)
(* not compare the identifiers of SUBACKs either.                          *)
SessionAnswered == ~reconnect => \A f \in Filters : subs[f] # "none"

(* An outstanding ping on a working connection has its PINGREQ or its      *)
(* PINGRESP under way, so ping_outstanding cannot silence keepalive() for  *)
(* the rest of a session, nor be left over from an earlier one.            *)
PingNotStuck ==
  (ping /\ link = "up") =>
     \/ \E i \in DOMAIN toBroker : toBroker[i].type = "PINGREQ"
     \/ \E i \in DOMAIN toDevice : toDevice[i].type = "PINGRESP"

(* A command the broker counts as acknowledged was given to messageArrived. *)
AckedWasHandled == \A c \in Cmds : cmd[c] = "acked" => c \in handled

(* main.c: the task trades publishing off with listening "so we don't miss *)
(* anything".  While the session lasts, a command the broker sent is still *)
(* in the stream or has been handled.                                      *)
NoCommandMissed ==
  \A c \in Cmds :
    (cmd[c] = "sent" /\ link = "up" /\ ~reconnect) =>
       \/ c \in handled
       \/ \E i \in DOMAIN toDevice :
            toDevice[i].type = "PUBLISH" /\ toDevice[i].body = c

(* MQTTClient.h: "all failure return codes must be negative", so a session *)
(* counts as established, rc >= SUCCESS, only if no SUBSCRIBE failed.      *)
SessionSubscribed == ~reconnect => \A f \in Filters : subs[f] = "granted"

(* The task keeps running (its sleeps, waits and retries all end), and     *)
(* vPushDataPointTask asks for a publish every minute.                     *)
FairSpec == Spec /\ WF_vars(Task) /\ WF_vars(\E m \in Msgs : Request(m))

(* A dead or half-open connection is noticed, although keepalive() neither *)
(* reports a failed ping nor waits for its answer: a publish fails on it.  *)
BrokenLinkNoticed ==
  <>[]online => ((link # "up" /\ ~reconnect) ~> reconnect)

=============================================================================
