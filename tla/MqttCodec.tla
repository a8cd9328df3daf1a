------------------------------- MODULE MqttCodec -------------------------------
(***************************************************************************)
(* The packets of MQTT as bytes: what one side serializes, the other reads *)
(* from a connection that delivers it in pieces (MQTTPacket_readnb) and    *)
(* deserializes.  The client's side is that of the node; the library has   *)
(* the server's side too.                                                  *)
(*                                                                         *)
(* A byte is a number; a digit of a remaining length has LenBase values    *)
(* and a continuation bit, a byte of an integer twice as many.             *)
(***************************************************************************)
EXTENDS Integers, Sequences

CONSTANTS
  LenBase,  \* 128: values of a digit of the remaining length
  MqttPackets, \* the packets that are sent
  BufLens   \* lengths of the buffers

VARIABLES
  packet,   \* what is to be sent
  buflen,   \* the buffer there is for it
  coding,   \* "serialize", then "read", then "done" or "refused"
  wire,     \* what the connection still holds
  trp,      \* the MQTTTransport: state, len, multiplier, rem_len
  buf,      \* what was read
  result    \* what was deserialized

codecVars == <<packet, buflen, coding, wire, trp, buf, result>>

None == <<>>  \* a string that is not there
Refusal == [type |-> "none"]
Types == [CONNECT |-> 1, CONNACK |-> 2, PUBLISH |-> 3, PUBACK |-> 4, PUBREC |-> 5, PUBREL |-> 6,
          PUBCOMP |-> 7, SUBSCRIBE |-> 8, SUBACK |-> 9, UNSUBSCRIBE |-> 10, UNSUBACK |-> 11,
          PINGREQ |-> 12, DISCONNECT |-> 14]
Acks == {"PUBACK", "PUBREC", "PUBREL", "PUBCOMP", "UNSUBACK"}
Empty == {"PINGREQ", "DISCONNECT"}

Bit(b) == IF b THEN 1 ELSE 0
MQTTHeader(type, dup, qos, retain) == Types[type] * 16 + Bit(dup) * 8 + qos * 2 + Bit(retain)
Type(h) == h \div 16
Dup(h) == (h \div 8) % 2 = 1
Qos(h) == (h \div 2) % 4
Retain(h) == h % 2 = 1
--------------------------------------------------------------------------------
(* Writing.  *)
MQTTPacket_encode(n) ==
  LET digits[m \in 0 .. n] ==
        IF m < LenBase THEN <<m>> ELSE <<LenBase + (m % LenBase)>> \o digits[m \div LenBase]
  IN digits[n]

(* The header is counted with the remaining length, so that the length is  *)
(* one too many where a digit begins.                                      *)
MQTTPacket_len(rem) ==
  IF rem + 1 < LenBase THEN rem + 2
  ELSE IF rem + 1 < LenBase * LenBase THEN rem + 3
  ELSE IF rem + 1 < LenBase * LenBase * LenBase - 1 THEN rem + 4
  ELSE rem + 5

IntBase == 2 * LenBase
writeInt(n) == <<n \div IntBase, n % IntBase>>
writeMQTTString(s) == writeInt(Len(s)) \o s

(* What is written one after the other.  *)
Joined(ss) ==
  LET last[k \in 0 .. Len(ss)] == IF k = 0 THEN <<>> ELSE ss[Len(ss) - k + 1] \o last[k - 1]
  IN last[Len(ss)]

(* An option of a CONNECT: one string in a sequence, or none.  *)
OptionalString(o) == IF o = None THEN <<>> ELSE writeMQTTString(o[1])
ConnectFlags(p) ==
  Bit(p.username # None) * 128 + Bit(p.password # None) * 64
    + (IF p.will = None THEN 0 ELSE Bit(p.will[2]) * 32 + p.will[1] * 8 + 4)
    + Bit(p.cleansession) * 2

(* The name and the version of the protocol are one character each.  *)
MQTTSerialize_connect(p) ==
  writeMQTTString(p.protocol) \o <<p.version, ConnectFlags(p)>> \o writeInt(p.keepAlive)
    \o writeMQTTString(p.clientID)
    \o (IF p.will = None THEN <<>> ELSE writeMQTTString(p.will[3]) \o writeMQTTString(p.will[4]))
    \o OptionalString(p.username) \o OptionalString(p.password)

(* The bits of the session flag are those of the library's union.  *)
MQTTSerialize_connack(p) == <<Bit(p.session) * 128, p.code>>

MQTTSerialize_publish(p) ==
  writeMQTTString(p.topic) \o (IF p.qos > 0 THEN writeInt(p.id) ELSE <<>>) \o p.payload

MQTTSerialize_subscribe(p) ==
  writeInt(p.id)
    \o Joined([i \in 1 .. Len(p.filters) |-> writeMQTTString(p.filters[i]) \o <<p.qoss[i]>>])

MQTTSerialize_suback(p) == writeInt(p.id) \o p.granted

MQTTSerialize_unsubscribe(p) ==
  writeInt(p.id) \o Joined([i \in 1 .. Len(p.filters) |-> writeMQTTString(p.filters[i])])

MQTTSerialize_ack(p) == writeInt(p.id)

(* The header byte and the body of a packet.  *)
HeaderOf(p) ==
  IF p.type = "PUBLISH" THEN MQTTHeader(p.type, p.dup, p.qos, p.retain)
  ELSE IF p.type \in {"SUBSCRIBE", "UNSUBSCRIBE"} THEN MQTTHeader(p.type, p.dup, 1, FALSE)
  ELSE IF p.type = "PUBREL" THEN MQTTHeader(p.type, p.dup, 1, FALSE)
  ELSE MQTTHeader(p.type, FALSE, 0, FALSE)

Body(p) ==
  CASE p.type = "CONNECT" -> MQTTSerialize_connect(p)
    [] p.type = "CONNACK" -> MQTTSerialize_connack(p)
    [] p.type = "PUBLISH" -> MQTTSerialize_publish(p)
    [] p.type = "SUBSCRIBE" -> MQTTSerialize_subscribe(p)
    [] p.type = "SUBACK" -> MQTTSerialize_suback(p)
    [] p.type = "UNSUBSCRIBE" -> MQTTSerialize_unsubscribe(p)
    [] p.type \in Acks -> MQTTSerialize_ack(p)
    [] p.type \in Empty -> <<>>

(* MQTTPacket_checkVersion compares as many characters as there are.  *)
checkVersion(protocol, version) == <<protocol, version>> \in {<<<<4>>, 4>>, <<<<3>>, 3>>}

(* What the library is given: texts and identifiers whose length or value  *)
(* two bytes can say, the two protocols, and no more than four digits of a *)
(* remaining length can say.                                               *)
Ids == {n \in Nat : n < IntBase * IntBase}
Texts == {s \in Seq(Nat) : Len(s) \in Ids}
Options == {o \in Seq(Texts) : Len(o) <= 1}

Sendable(p) ==
  CASE p.type = "CONNECT" ->
         /\ p \in [type : {"CONNECT"}, protocol : Texts, version : Nat, cleansession : BOOLEAN,
                   keepAlive : Ids, clientID : Texts,
                   will : {None} \cup (0 .. 3) \X BOOLEAN \X Texts \X Texts,
                   username : Options, password : Options]
         /\ checkVersion(p.protocol, p.version)
    [] p.type = "CONNACK" -> p \in [type : {"CONNACK"}, session : BOOLEAN, code : Nat]
    [] p.type = "PUBLISH" ->
         /\ p \in [type : {"PUBLISH"}, dup : BOOLEAN, qos : 0 .. 3, retain : BOOLEAN,
                   topic : Texts, id : Ids, payload : Seq(Nat)]
         /\ p.qos = 0 => p.id = 0
    [] p.type = "SUBSCRIBE" ->
         /\ p \in [type : {"SUBSCRIBE"}, dup : BOOLEAN, id : Ids, filters : Seq(Texts), qoss : Seq(Nat)]
         /\ Len(p.qoss) = Len(p.filters)
    [] p.type = "UNSUBSCRIBE" -> p \in [type : {"UNSUBSCRIBE"}, dup : BOOLEAN, id : Ids, filters : Seq(Texts)]
    [] p.type = "SUBACK" -> p \in [type : {"SUBACK"}, id : Ids, granted : Seq(Nat)]
    [] p.type \in Acks -> p \in [type : Acks, dup : IF p.type = "PUBREL" THEN BOOLEAN ELSE {FALSE}, id : Ids]
    [] p.type \in Empty -> p \in [type : Empty]
    [] OTHER -> FALSE

ASSUME CodecAssumption ==
  /\ LenBase \in Nat /\ LenBase > 2
  /\ BufLens \subseteq Nat
  /\ \A p \in MqttPackets : Sendable(p) /\ Len(Body(p)) < LenBase * LenBase * LenBase * LenBase

(* The length a serializer asks for before it writes: the server's ones    *)
(* ask for less than they write.                                           *)
Asked(p, body) ==
  IF p.type \in {"CONNECT", "PUBLISH", "SUBSCRIBE", "UNSUBSCRIBE"} THEN MQTTPacket_len(Len(body))
  ELSE IF p.type = "SUBACK" THEN 2 + Len(p.granted)
  ELSE IF p.type \in {"CONNACK", "UNSUBACK"} \cup Empty THEN 2
  ELSE 4

Serialize ==
  LET body == Body(packet) IN
  /\ coding = "serialize"
  /\ IF Asked(packet, body) > buflen
     THEN coding' = "refused" /\ UNCHANGED wire
     ELSE /\ wire' = <<HeaderOf(packet)>> \o MQTTPacket_encode(Len(body)) \o body
          /\ coding' = "read"
  /\ UNCHANGED <<packet, buflen, trp, buf, result>>
--------------------------------------------------------------------------------
(* MQTTPacket_readnb: each call goes on where the last one stopped.  *)
Idle == [state |-> 0, len |-> 0, multiplier |-> 1, rem_len |-> 0]

ReadHeader ==
  /\ coding = "read" /\ trp.state = 0
  /\ buf' = <<Head(wire)>> /\ wire' = Tail(wire)
  /\ trp' = [trp EXCEPT !.state = 1, !.len = 0]
  /\ UNCHANGED <<packet, buflen, coding, result>>

(* MQTTPacket_decodenb, digit by digit.  The length is put into the buffer *)
(* anew once it is complete, and the packet refused if it does not fit.    *)
MQTTPacket_decodenb ==
  LET c == Head(wire)
      first == trp.len = 0
      mult == IF first THEN 1 ELSE trp.multiplier
      rem == (IF first THEN 0 ELSE trp.rem_len) + (c % LenBase) * mult
      digits == MQTTPacket_encode(rem)
  IN /\ coding = "read" /\ trp.state = 1 /\ trp.len < 4
     /\ wire' = Tail(wire)
     /\ IF c >= LenBase
        THEN /\ trp' = [trp EXCEPT !.len = @ + 1, !.multiplier = mult * LenBase, !.rem_len = rem]
             /\ UNCHANGED <<buf, coding>>
        ELSE /\ buf' = buf \o digits
             /\ IF rem + 1 + Len(digits) > buflen
                THEN trp' = Idle /\ coding' = "refused"
                ELSE /\ trp' = [state |-> 2, len |-> 1 + Len(digits), multiplier |-> 1, rem_len |-> rem]
                     /\ UNCHANGED coding
     /\ UNCHANGED <<packet, buflen, result>>

(* A faulty ReadRest that takes a piece of a packet for all of it.  *)
ReadRestAtOnce ==
  /\ coding = "read" /\ trp.state = 2 /\ trp.rem_len > 0
  /\ \E n \in 1 .. trp.rem_len :
       /\ buf' = buf \o SubSeq(wire, 1, n)
       /\ wire' = SubSeq(wire, n + 1, Len(wire))
       /\ trp' = [trp EXCEPT !.rem_len = 0, !.len = @ + n]
  /\ UNCHANGED <<packet, buflen, coding, result>>

ReadRest ==
  /\ coding = "read" /\ trp.state = 2 /\ trp.rem_len > 0
  /\ \E n \in 1 .. trp.rem_len :
       /\ buf' = buf \o SubSeq(wire, 1, n)
       /\ wire' = SubSeq(wire, n + 1, Len(wire))
       /\ trp' = [trp EXCEPT !.rem_len = @ - n, !.len = @ + n]
  /\ UNCHANGED <<packet, buflen, coding, result>>
--------------------------------------------------------------------------------
(* Reading.  A cursor is the bytes that are left and what was read, None   *)
(* when there are too few.                                                 *)
readInt(b) == b[1] * IntBase + b[2]
From(b, n) == SubSeq(b, n + 1, Len(b))

(* readMQTTLenString: the string, and the bytes after it.  *)
HasString(b) == Len(b) > 1 /\ Len(b) >= 2 + readInt(b)
StringOf(b) == SubSeq(b, 3, 2 + readInt(b))
AfterString(b) == From(b, 2 + readInt(b))

(* A flag of a CONNECT: the string must be there and have a character.  *)
HasOption(b) == Len(b) >= 3 /\ HasString(b)

(* Of the two options, a password must not come alone.  *)
Credentials(p, b, user, pass) ==
  LET q == [p EXCEPT !.username = <<StringOf(b)>>]
      c == AfterString(b)
  IN IF ~user THEN IF pass THEN Refusal ELSE p
     ELSE IF ~HasOption(b) THEN Refusal
     ELSE IF ~pass THEN q
     ELSE IF ~HasOption(c) THEN Refusal
     ELSE [q EXCEPT !.password = <<StringOf(c)>>]

WithWill(p, b, flags) ==
  LET c == AfterString(b)
      q == [p EXCEPT !.will = <<(flags \div 8) % 4, (flags \div 32) % 2 = 1, StringOf(b), StringOf(c)>>]
      user == flags \div 128 = 1
      pass == (flags \div 64) % 2 = 1
  IN IF (flags \div 4) % 2 = 0 THEN Credentials(p, b, user, pass)
     ELSE IF ~HasString(b) \/ ~HasString(c) THEN Refusal
     ELSE Credentials(q, AfterString(c), user, pass)

MQTTDeserialize_connect(b) ==
  LET c == AfterString(b)
      flags == c[2]
      d == From(c, 4)
  IN IF ~HasString(b) \/ ~checkVersion(StringOf(b), c[1]) \/ ~HasString(d) THEN Refusal
     ELSE WithWill([type |-> "CONNECT", protocol |-> StringOf(b), version |-> c[1],
                    cleansession |-> (flags \div 2) % 2 = 1, keepAlive |-> readInt(From(c, 2)),
                    clientID |-> StringOf(d), will |-> None, username |-> None, password |-> None],
                   AfterString(d), flags)

MQTTDeserialize_connack(b) ==
  IF Len(b) < 2 THEN Refusal ELSE [type |-> "CONNACK", session |-> b[1] \div 128 = 1, code |-> b[2]]

MQTTDeserialize_publish(h, b) ==
  LET c == AfterString(b)
      d == IF Qos(h) > 0 THEN From(c, 2) ELSE c
  IN IF ~HasString(b) THEN Refusal
     ELSE [type |-> "PUBLISH", dup |-> Dup(h), qos |-> Qos(h), retain |-> Retain(h), topic |-> StringOf(b),
           id |-> IF Qos(h) > 0 THEN readInt(c) ELSE 0, payload |-> d]

(* A pass reads a filter: the bytes left, the filters and the qualities    *)
(* read, and whether all is well.                                          *)
FilterPass(r, withQos) ==
  LET c == AfterString(r[1]) IN
  IF r[1] = <<>> THEN r
  ELSE IF ~HasString(r[1]) \/ (withQos /\ c = <<>>) THEN <<<<>>, r[2], r[3], FALSE>>
  ELSE IF withQos THEN <<From(c, 1), Append(r[2], StringOf(r[1])), Append(r[3], c[1]), TRUE>>
  ELSE <<c, Append(r[2], StringOf(r[1])), r[3], TRUE>>

(* No filter takes less than a byte.  *)
Filters(b, withQos) ==
  LET pass[k \in 0 .. Len(b)] ==
        IF k = 0 THEN <<b, <<>>, <<>>, TRUE>> ELSE FilterPass(pass[k - 1], withQos)
  IN pass[Len(b)]

MQTTDeserialize_subscribe(h, b) ==
  LET r == Filters(From(b, 2), TRUE)
  IN IF r[4] THEN [type |-> "SUBSCRIBE", dup |-> Dup(h), id |-> readInt(b), filters |-> r[2], qoss |-> r[3]]
     ELSE Refusal

MQTTDeserialize_unsubscribe(h, b) ==
  LET r == Filters(From(b, 2), FALSE)
  IN IF r[4] THEN [type |-> "UNSUBSCRIBE", dup |-> Dup(h), id |-> readInt(b), filters |-> r[2]]
     ELSE Refusal

MQTTDeserialize_suback(b) ==
  IF Len(b) < 2 THEN Refusal ELSE [type |-> "SUBACK", id |-> readInt(b), granted |-> From(b, 2)]

MQTTDeserialize_ack(type, h, b) ==
  IF Len(b) < 2 THEN Refusal ELSE [type |-> type, dup |-> Dup(h), id |-> readInt(b)]

Parsed(type, h, b) ==
  CASE type = "CONNECT" -> MQTTDeserialize_connect(b)
    [] type = "CONNACK" -> MQTTDeserialize_connack(b)
    [] type = "PUBLISH" -> MQTTDeserialize_publish(h, b)
    [] type = "SUBSCRIBE" -> MQTTDeserialize_subscribe(h, b)
    [] type = "SUBACK" -> MQTTDeserialize_suback(b)
    [] type = "UNSUBSCRIBE" -> MQTTDeserialize_unsubscribe(h, b)
    [] type \in Acks -> MQTTDeserialize_ack(type, h, b)
    [] type \in Empty -> [type |-> type]

(* The deserializers take the length from the buffer.  *)
BodyAt(b) == CHOOSE i \in 2 .. Len(b) : b[i] < LenBase /\ \A k \in 2 .. i - 1 : b[k] >= LenBase

Deserialize ==
  /\ coding = "read" /\ trp.state = 2 /\ trp.rem_len = 0
  /\ \E type \in DOMAIN Types :
       /\ Types[type] = Type(buf[1])
       /\ result' = Parsed(type, buf[1], From(buf, BodyAt(buf)))
  /\ coding' = "done"
  /\ trp' = Idle
  /\ UNCHANGED <<packet, buflen, wire, buf>>
--------------------------------------------------------------------------------
(* Nothing to send.  *)
CodecIdle ==
  /\ packet = Refusal /\ buflen = 0
  /\ coding = "done" /\ wire = <<>> /\ trp = Idle /\ buf = <<>> /\ result = Refusal

CodecInit ==
  /\ packet \in MqttPackets /\ buflen \in BufLens
  /\ coding = "serialize" /\ wire = <<>> /\ trp = Idle /\ buf = <<>> /\ result = Refusal

CodecNext == Serialize \/ ReadHeader \/ MQTTPacket_decodenb \/ ReadRest \/ Deserialize

CodecSpec == CodecInit /\ [][CodecNext]_codecVars
--------------------------------------------------------------------------------
(* A CONNECT the other side refuses: a password comes alone, or a name or  *)
(* a password that is there has no character.                              *)
BadCredentials(p) ==
  /\ p.type = "CONNECT"
  /\ \/ p.password # None /\ p.username = None
     \/ p.username = <<<<>>>> /\ p.password = None
     \/ p.password = <<<<>>>>

Size(p) == 1 + Len(MQTTPacket_encode(Len(Body(p)))) + Len(Body(p))

(* However the bytes come in, the packet that was sent is the packet read; *)
(* the bytes a client writes are within its buffer; and a packet is        *)
(* refused only when the buffer has at most its size                       *)
(* (the serializers, MQTTPacket_readnb, the deserializers).                *)
RoundTrip ==
  /\ coding = "done" =>
       wire = <<>> /\ result = (IF BadCredentials(packet) THEN Refusal ELSE packet)
  /\ coding = "read" /\ packet.type \notin {"CONNACK", "SUBACK", "UNSUBACK"} => Size(packet) <= buflen
  /\ coding = "refused" => buflen <= Size(packet)
================================================================================
