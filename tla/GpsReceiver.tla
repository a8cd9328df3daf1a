----------------------------- MODULE GpsReceiver -----------------------------
(***************************************************************************)
(* The GPS receiver (gps_if.c): the interrupt handler that collects its    *)
(* characters in a ring and parses a sentence when its newline comes, and  *)
(* the task vSyncTime_GPS (main.c), which asks for the time.  What an      *)
(* answer does to the clock is RtcAnswer of DeviceTime.                    *)
(*                                                                         *)
(* The ring has MaxLine places, but its index is one byte and comes round  *)
(* after IndexSpan; the parser goes round after MaxLine.                   *)
(***************************************************************************)
EXTENDS Integers, Sequences

CONSTANTS
  MaxLine,      \* MAXLINELENGTH: places of the ring and of the packet
  IndexSpan,    \* values of ucRingBufIndex
  SentLen,      \* characters of a sentence, with its '$' and newline
  MaxSentences, \* sentences that are modelled
  MaxLost       \* characters the interrupt may miss

ASSUME GpsAssumption ==
  /\ MaxLine \in Nat /\ IndexSpan \in 1 .. MaxLine - 1
  /\ SentLen \in Nat \ {0, 1} /\ MaxSentences \in Nat /\ MaxLost \in Nat

VARIABLES
  g_ucGPSRingBuf,
  ucRingBufIndex,
  bFoundMoney,
  uiTransStart,
  g_ucGPSReadyFlag,
  g_RTCDataReady,
  fix,        \* the sentence the coordinates are from, 0 for none
  sending,    \* the sentence being sent: number, kind and next character
  intact,     \* no character of it was missed (history)
  from,       \* the place its '$' went to (history)
  parsed,     \* the last sentence parsed (history)
  length,     \* characters last written to the packet, with the final zero
  lost,       \* characters missed
  asked,      \* a request for the time is with the receiver
  rtcTask     \* where vSyncTime_GPS is

gpsVars == <<g_ucGPSRingBuf, ucRingBufIndex, bFoundMoney, uiTransStart, g_ucGPSReadyFlag,
             g_RTCDataReady, fix, sending, intact, from, parsed, length, lost, asked, rtcTask>>

Nul == <<0, "none", 0>>
Kinds == {"PMTK010", "PMTK535", "GPGGA"}
Money(c) == c[3] = 1
Newline(c) == c[3] = SentLen

GpsInit ==
  /\ g_ucGPSRingBuf = [i \in 0 .. MaxLine - 1 |-> Nul]
  /\ ucRingBufIndex = 0 /\ bFoundMoney = FALSE /\ uiTransStart = 0
  /\ g_ucGPSReadyFlag = 0 /\ g_RTCDataReady = FALSE /\ fix = 0
  /\ sending = [no |-> 0, kind |-> "none", pos |-> SentLen + 1]
  /\ intact = FALSE /\ from = 0 /\ parsed = 0 /\ length = 0 /\ lost = 0
  /\ asked = FALSE /\ rtcTask = "sleep"
------------------------------------------------------------------------------
(* _receive_packet: from the '$' to the next newline, if the packet has    *)
(* room for them.  The '$' itself is not read from the ring.               *)
Packet(ring, i) ==
  LET At(k) == IF k = 1 THEN <<0, "none", 1>> ELSE ring[(i + k - 1) % MaxLine]
      ends == {n \in 2 .. MaxLine : Newline(At(n))}
  IN IF ends = {} THEN <<>>
     ELSE [k \in 1 .. CHOOSE n \in ends : \A e \in ends : n <= e |-> At(k)]

(* A checksum of mixed characters is taken never to match.  *)
_checksum_matches(p) ==
  Len(p) = SentLen /\ \A k \in 2 .. SentLen : p[k] = <<p[2][1], p[2][2], k>>

(* f = (f < 2) ? f++ : 2 assigns f twice: either may come last.  *)
ReadyFlags(f) == IF f < 2 THEN {f, f + 1} ELSE {2}

_parse_packet(p) ==
  LET kind == p[2][2] IN
  /\ g_ucGPSReadyFlag' \in IF kind = "PMTK010" THEN ReadyFlags(g_ucGPSReadyFlag) ELSE {g_ucGPSReadyFlag}
  /\ g_RTCDataReady' = (g_RTCDataReady \/ kind = "PMTK535")
  /\ fix' = IF kind = "GPGGA" THEN p[2][1] ELSE fix
  /\ parsed' = p[2][1]

Nothing == UNCHANGED <<g_ucGPSReadyFlag, g_RTCDataReady, fix, parsed>>

(* A faulty handler that keeps to the first '$' of two.  *)
_GPSIntHandlerFirst(c) ==
  LET ring == [g_ucGPSRingBuf EXCEPT ![ucRingBufIndex] = c]
      start == IF Money(c) /\ ~bFoundMoney THEN ucRingBufIndex ELSE uiTransStart
      found == bFoundMoney \/ Money(c)
      p == Packet(ring, start)
  IN /\ g_ucGPSRingBuf' = ring
     /\ uiTransStart' = start
     /\ bFoundMoney' = (found /\ ~Newline(c))
     /\ ucRingBufIndex' = (ucRingBufIndex + 1) % IndexSpan
     /\ length' = IF Newline(c) /\ found THEN Len(p) + 1 ELSE 0
     /\ IF Newline(c) /\ found /\ _checksum_matches(p) THEN _parse_packet(p) ELSE Nothing

(* The start is where the last '$' is.  *)
_GPSIntHandler(c) ==
  LET ring == [g_ucGPSRingBuf EXCEPT ![ucRingBufIndex] = c]
      start == IF Money(c) THEN ucRingBufIndex ELSE uiTransStart
      found == bFoundMoney \/ Money(c)
      p == Packet(ring, start)
  IN /\ g_ucGPSRingBuf' = ring
     /\ uiTransStart' = start
     /\ bFoundMoney' = (found /\ ~Newline(c))
     /\ ucRingBufIndex' = (ucRingBufIndex + 1) % IndexSpan
     /\ length' = IF Newline(c) /\ found THEN Len(p) + 1 ELSE 0
     /\ IF Newline(c) /\ found /\ _checksum_matches(p) THEN _parse_packet(p) ELSE Nothing
------------------------------------------------------------------------------
(* The receiver: it reports that it has started, answers a request for the *)
(* time, and tells its position.                                           *)
BeginSentence ==
  /\ sending.pos > SentLen /\ sending.no < MaxSentences
  /\ \E kind \in Kinds :
       /\ kind = "PMTK535" => asked
       /\ asked' = (asked /\ kind # "PMTK535")
       /\ sending' = [no |-> sending.no + 1, kind |-> kind, pos |-> 1]
  /\ intact' = TRUE
  /\ from' = ucRingBufIndex
  /\ UNCHANGED <<g_ucGPSRingBuf, ucRingBufIndex, bFoundMoney, uiTransStart, g_ucGPSReadyFlag,
                 g_RTCDataReady, fix, parsed, length, lost, rtcTask>>

Character ==
  /\ sending.pos <= SentLen
  /\ sending' = [sending EXCEPT !.pos = @ + 1]
  /\ _GPSIntHandler(<<sending.no, sending.kind, sending.pos>>)
  /\ UNCHANGED <<intact, from, lost, asked, rtcTask>>

(* A character comes before the last one was read.  *)
MissCharacter ==
  /\ sending.pos <= SentLen /\ lost < MaxLost
  /\ lost' = lost + 1
  /\ sending' = [sending EXCEPT !.pos = @ + 1]
  /\ intact' = FALSE
  /\ Nothing
  /\ UNCHANGED <<g_ucGPSRingBuf, ucRingBufIndex, bFoundMoney, uiTransStart, from, length, asked, rtcTask>>
------------------------------------------------------------------------------
RtcStep(s, t) ==
  /\ rtcTask = s /\ rtcTask' = t
  /\ UNCHANGED <<g_ucGPSRingBuf, ucRingBufIndex, bFoundMoney, uiTransStart, g_ucGPSReadyFlag,
                 fix, sending, intact, from, parsed, length, lost>>

(* GPS_SetPOSIXFromRTC.  *)
ClearRtc == RtcStep("sleep", "send") /\ g_RTCDataReady' = FALSE /\ UNCHANGED asked

(* GPS_SendCommand sends nothing to a receiver that did not start, and the *)
(* caller waits for the answer all the same; or the transmitter is full.   *)
GPS_SendCommand ==
  /\ RtcStep("send", "poll")
  /\ asked' = (asked \/ g_ucGPSReadyFlag = 2)
  /\ UNCHANGED g_RTCDataReady

TransmitterFull ==
  /\ RtcStep("send", "sleep")
  /\ g_ucGPSReadyFlag = 2
  /\ UNCHANGED <<asked, g_RTCDataReady>>

(* The answer is there, or 300 polls went by without it.  *)
RtcReturns == RtcStep("poll", "sleep") /\ UNCHANGED <<asked, g_RTCDataReady>>

vSyncTime_GPS == ClearRtc \/ GPS_SendCommand \/ TransmitterFull \/ RtcReturns

GpsNext == BeginSentence \/ Character \/ MissCharacter \/ vSyncTime_GPS

GpsSpec == GpsInit /\ [][GpsNext]_gpsVars
------------------------------------------------------------------------------
(* A sentence of which no character is missed is parsed, whatever came     *)
(* before it, unless it runs over the end of the index: then its rest goes *)
(* to the beginning of the ring and the parser reads on past the end       *)
(* (_GPSIntHandler, _receive_packet).                                      *)
SentencesParsed ==
  intact /\ sending.pos > SentLen =>
    (parsed = sending.no) = (from + SentLen <= IndexSpan)
==============================================================================
