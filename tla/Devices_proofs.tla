---------------------------- MODULE Devices_proofs ----------------------------
(***************************************************************************)
(* Proofs about the devices of the node, which share no state: the         *)
(* particulate sensor, the clock, the GPS receiver, the page that lists    *)
(* the networks of a scan, the conversions of the calendar, and the        *)
(* packets of MQTT as bytes.                                               *)
(***************************************************************************)
EXTENDS Pms, DeviceTime, GpsReceiver, ScanPage, Calendar, MqttCodec, WellFoundedInduction,
        SequenceTheorems, TLAPS

------------------------------------------------------------------------------
(***************************************************************************)
(* Proofs about Pms: for a ring of any size, packets of any length and any *)
(* characters that look like the beginning of one.                         *)
(***************************************************************************)

(* When vDataGatherTask is about to start the sums anew, it has just       *)
(* forgotten what was added while it slept, and nothing was since.         *)
ForgottenAtReset == gather = "reset" => ~heard

PmsInv == TypeOK /\ SamplesAreKept /\ ForgottenAtReset

(* What vDataGatherTask and PM_Tally share beside the ring. *)
TaskTypeOK ==
  /\ tally \in {"sleep", "parse", "clear"}
  /\ row \in Rows
  /\ cnt \in 0 .. 1
  /\ gather \in {"sleep", "reset"}
  /\ bad \in 0 .. 2
  /\ twice \in BOOLEAN
  /\ heard \in BOOLEAN

(* What the interrupt handler works on. *)
RingTypeOK ==
  /\ g_rb \in [Rows -> [Cols -> Chars \cup {Zero}]]
  /\ r_ptr \in Rows
  /\ c_ptr \in Cols
  /\ recv \in BOOLEAN
  /\ timer \in Packets

SensorTypeOK ==
  /\ next \in Chars \cup {<<MaxPacket + 1, 0>>}
  /\ losses \in 0 .. MaxLosses
  /\ since \in 0 .. 2
  /\ counted \subseteq Chars

LEMMA TypeParts == TypeOK <=> TaskTypeOK /\ RingTypeOK /\ SensorTypeOK
BY Zenon DEF TypeOK, TaskTypeOK, RingTypeOK, SensorTypeOK

-------------------------------------------------------------------------------
(* Where a row, a column or a packet is counted modulo their number.       *)
LEMMA Modulo == ASSUME NEW a \in Int, NEW n \in Nat \ {0} PROVE a % n \in 0 .. n - 1
OBVIOUS

LEMMA Zeros == 0 \in Rows /\ 0 \in Cols /\ 0 \in Packets
BY PmsAssumption DEF Rows, Cols, Packets

LEMMA EmptyRingType == Cleared \in [Cols -> Chars \cup {Zero}] /\ EmptyRing \in [Rows -> [Cols -> Chars \cup {Zero}]]
BY DEF Cleared, EmptyRing

(* _find_last_good_pm stays within the ring, although it counts in bytes.  *)
LEMMA LookedInRing == ASSUME r_ptr \in Rows, NEW i \in Rows PROVE Looked(i) \in Rows
<1>1. r_ptr \in Int /\ i \in Int /\ NumPkt \in Nat \ {0}
  BY PmsAssumption DEF Rows
<1>2. (r_ptr - i + 256) % 256 \in Int
  BY <1>1
<1> QED
  BY <1>1, <1>2, Modulo DEF Looked, Rows

LEMMA InitInv == Init => PmsInv
<1> SUFFICES ASSUME Init PROVE PmsInv
  OBVIOUS
<1>1. recv = FALSE /\ twice = FALSE /\ heard = FALSE
  BY DEF Init
<1>2. recv \in BOOLEAN /\ twice \in BOOLEAN /\ heard \in BOOLEAN
  BY <1>1, Zenon
<1>3. RingTypeOK
  BY <1>2, Zeros, EmptyRingType DEF Init, RingTypeOK
<1>4. TaskTypeOK
  BY <1>2, Zeros DEF Init, TaskTypeOK
<1>5. SensorTypeOK
  BY Zeros, PmsAssumption DEF Init, SensorTypeOK, Chars
<1>6. SamplesAreKept /\ ForgottenAtReset
  BY <1>1 DEF Init, SamplesAreKept, ForgottenAtReset
<1> QED
  BY <1>3, <1>4, <1>5, <1>6, TypeParts DEF PmsInv

-------------------------------------------------------------------------------
(* While the sensor sends, its character is one of a packet, and so is the *)
(* next one or the first after the last packet.                            *)
LEMMA SendType ==
  ASSUME SensorTypeOK, Send
  PROVE  next \in Chars /\ next' \in Chars \cup {<<MaxPacket + 1, 0>>}
<1>1. MaxPacket \in Nat /\ next[1] \in 0 .. MaxPacket
  BY PmsAssumption DEF Send, Packets
<1>2. next \in Chars
  BY <1>1 DEF SensorTypeOK
<1>3. next[1] \in Packets /\ next[2] \in Cols
  BY <1>2 DEF Chars
<1>4. CASE next[2] < PktLen - 1
  <2>1. next[2] + 1 \in Cols /\ next' = <<next[1], next[2] + 1>>
    BY <1>3, <1>4, PmsAssumption DEF Cols, Send
  <2> QED
    BY <1>2, <1>3, <2>1 DEF Chars
<1>5. CASE ~(next[2] < PktLen - 1)
  <2>1. next' = <<next[1] + 1, 0>> /\ (next[1] + 1 \in Packets \/ next[1] + 1 = MaxPacket + 1)
    BY <1>1, <1>5 DEF Send, Packets
  <2> QED
    BY <1>2, <2>1, Zeros DEF Chars
<1> QED
  BY <1>4, <1>5

LEMMA SinceType == ASSUME SensorTypeOK PROVE Since \in 0 .. 2
BY DEF Since, SensorTypeOK

(* The handler writes within the ring, and begins the next row within it.  *)
LEMMA HandlerInv == ASSUME PmsInv, PMSIntHandler PROVE PmsInv'
<1>1. TaskTypeOK /\ RingTypeOK /\ SensorTypeOK
  BY TypeParts DEF PmsInv
<1>2. next \in Chars /\ next' \in Chars \cup {<<MaxPacket + 1, 0>>}
  BY <1>1, SendType DEF PMSIntHandler
<1>3. SensorTypeOK'
  BY <1>1, <1>2, SinceType DEF PMSIntHandler, SensorTypeOK, history
<1>4. tally' = tally /\ row' = row /\ cnt' = cnt /\ gather' = gather /\ bad' = bad
  BY DEF PMSIntHandler, tallyVars, gatherVars
<1>5. twice' = twice /\ heard' = heard
  BY DEF PMSIntHandler, history
<1>6. TaskTypeOK'
  BY <1>1, <1>4, <1>5, Zenon DEF TaskTypeOK
<1>7. g_rb' \in [Rows -> [Cols -> Chars \cup {Zero}]]
  BY <1>1, <1>2 DEF PMSIntHandler, RingTypeOK
<1>8. r_ptr' \in Rows
  <2>1. r_ptr + 1 \in Int /\ NumPkt \in Nat \ {0}
    BY <1>1, PmsAssumption DEF RingTypeOK, Rows
  <2>2. (r_ptr + 1) % NumPkt \in Rows
    BY <2>1, Modulo DEF Rows
  <2> QED
    BY <1>1, <2>2 DEF PMSIntHandler, RingTypeOK
<1>9. c_ptr' \in Cols
  <2>1. c_ptr \in Cols /\ PktLen \in Nat \ {0, 1}
    BY <1>1, PmsAssumption DEF RingTypeOK
  <2>2. CASE Ends
    BY <2>2, Zeros DEF PMSIntHandler
  <2>3. CASE ~Ends
    <3>1. Stores => c_ptr + 1 # PktLen
      BY <2>3 DEF Ends
    <3>2. Stores => c_ptr + 1 \in Cols
      BY <2>1, <3>1 DEF Cols
    <3> QED
      BY <2>1, <2>3, <3>2 DEF PMSIntHandler
  <2> QED
    BY <2>2, <2>3
<1>10. recv' \in BOOLEAN
  BY Zenon DEF PMSIntHandler, Stores, Ends, IsB
<1>11. timer' \in Packets
  BY <1>1, <1>2, Zeros DEF PMSIntHandler, Began, RingTypeOK, Chars
<1>12. RingTypeOK'
  BY <1>7, <1>8, <1>9, <1>10, <1>11 DEF RingTypeOK
<1>13. (SamplesAreKept /\ ForgottenAtReset)'
  BY <1>4, <1>5 DEF PmsInv, SamplesAreKept, ForgottenAtReset
<1> QED
  BY <1>3, <1>6, <1>12, <1>13, TypeParts DEF PmsInv, TypeOK, TaskTypeOK, RingTypeOK, SensorTypeOK

LEMMA MissInv == ASSUME PmsInv, Miss PROVE PmsInv'
<1>1. TaskTypeOK /\ RingTypeOK /\ SensorTypeOK
  BY TypeParts DEF PmsInv
<1>2. next' \in Chars \cup {<<MaxPacket + 1, 0>>}
  BY <1>1, SendType DEF Miss
<1>3. SensorTypeOK'
  BY <1>1, <1>2, PmsAssumption DEF Miss, SensorTypeOK, history
<1>4. UNCHANGED <<ring, tallyVars, cnt, gatherVars, twice, heard>>
  BY DEF Miss, history
<1>5. RingTypeOK' /\ TaskTypeOK'
  BY <1>1, <1>4, Zenon DEF ring, tallyVars, gatherVars, RingTypeOK, TaskTypeOK
<1>6. (SamplesAreKept /\ ForgottenAtReset)'
  BY <1>4 DEF gatherVars, PmsInv, SamplesAreKept, ForgottenAtReset
<1> QED
  BY <1>3, <1>5, <1>6 DEF PmsInv, TypeOK, TaskTypeOK, RingTypeOK, SensorTypeOK

(* PM_Tally: what it adds makes the sums last until the next reset. *)
LEMMA TallyInv == ASSUME PmsInv, PM_Tally PROVE PmsInv'
<1>1. TaskTypeOK /\ RingTypeOK /\ SensorTypeOK
  BY TypeParts DEF PmsInv
<1>2. CASE FindRow
  <2>1. row' \in Rows /\ tally' = "parse"
    BY <1>1, <1>2, LookedInRing DEF FindRow, RingTypeOK
  <2>2. UNCHANGED <<ring, sensor, cnt, gatherVars, history>>
    BY <1>2 DEF FindRow
  <2>3. RingTypeOK' /\ SensorTypeOK'
    BY <1>1, <2>2, Zenon DEF ring, sensor, history, RingTypeOK, SensorTypeOK
  <2>4. TaskTypeOK'
    BY <1>1, <2>1, <2>2, Zenon DEF gatherVars, history, TaskTypeOK
  <2>5. (SamplesAreKept /\ ForgottenAtReset)'
    BY <2>2 DEF gatherVars, history, PmsInv, SamplesAreKept, ForgottenAtReset
  <2> QED
    BY <2>3, <2>4, <2>5 DEF PmsInv, TypeOK, TaskTypeOK, RingTypeOK, SensorTypeOK
<1>3. CASE NoRow
  BY <1>3, Zenon DEF NoRow, vars, ring, sensor, tallyVars, gatherVars, history, PmsInv, TypeOK,
     SamplesAreKept, ForgottenAtReset
<1>4. CASE AddToSums
  <2>1. cnt' = 1 /\ tally' = "clear" /\ heard' = (heard \/ gather = "sleep")
    BY <1>4 DEF AddToSums
  <2>2. UNCHANGED <<ring, sensor, row, gatherVars>>
    BY <1>4 DEF AddToSums
  <2>3. counted' \subseteq Chars /\ twice' \in BOOLEAN
    <3>1. counted' = counted \cup Content(row)
      BY <1>4 DEF AddToSums
    <3>2. twice' = (twice \/ Content(row) \cap counted # {})
      BY <1>4 DEF AddToSums
    <3>3. twice' \in BOOLEAN
      BY <3>2, Zenon
    <3> QED
      BY <1>1, <3>1, <3>3 DEF SensorTypeOK, Content
  <2>4. RingTypeOK'
    BY <1>1, <2>2, Zenon DEF ring, RingTypeOK
  <2>5. SensorTypeOK'
    BY <1>1, <2>2, <2>3 DEF sensor, SensorTypeOK
  <2>6. heard' \in BOOLEAN
    BY <2>1, Zenon
  <2>7. TaskTypeOK'
    BY <1>1, <2>1, <2>2, <2>3, <2>6 DEF gatherVars, TaskTypeOK
  <2>8. SamplesAreKept'
    BY <2>1 DEF SamplesAreKept
  <2>9. gather' = gather
    BY <2>2 DEF gatherVars
  <2>10. gather = "reset" => ~heard /\ gather # "sleep"
    BY DEF PmsInv, ForgottenAtReset
  <2>11. ForgottenAtReset'
    BY <2>1, <2>9, <2>10, Zenon DEF ForgottenAtReset
  <2> QED
    BY <2>4, <2>5, <2>7, <2>8, <2>11 DEF PmsInv, TypeOK, TaskTypeOK, RingTypeOK, SensorTypeOK
<1>5. CASE ClearRow
  <2>1. g_rb' = [g_rb EXCEPT ![row] = Cleared] /\ tally' = "sleep" /\ row' = 0
    BY <1>5 DEF ClearRow
  <2>2. UNCHANGED <<r_ptr, c_ptr, recv, timer, sensor, cnt, gatherVars, history>>
    BY <1>5 DEF ClearRow
  <2>3. g_rb' \in [Rows -> [Cols -> Chars \cup {Zero}]]
    BY <1>1, <2>1, EmptyRingType DEF RingTypeOK
  <2>4. RingTypeOK' /\ SensorTypeOK'
    BY <1>1, <2>2, <2>3, Zenon DEF sensor, history, RingTypeOK, SensorTypeOK
  <2>5. TaskTypeOK'
    BY <1>1, <2>1, <2>2, Zeros, Zenon DEF gatherVars, history, TaskTypeOK
  <2>6. (SamplesAreKept /\ ForgottenAtReset)'
    BY <2>2 DEF gatherVars, history, PmsInv, SamplesAreKept, ForgottenAtReset
  <2> QED
    BY <2>4, <2>5, <2>6 DEF PmsInv, TypeOK, TaskTypeOK, RingTypeOK, SensorTypeOK
<1> QED
  BY <1>2, <1>3, <1>4, <1>5 DEF PM_Tally

(* vDataGatherTask: what it takes is forgotten before the sums are reset.  *)
LEMMA GatherInv == ASSUME PmsInv, vDataGatherTask PROVE PmsInv'
<1>1. TaskTypeOK /\ RingTypeOK /\ SensorTypeOK
  BY TypeParts DEF PmsInv
<1>2. CASE TakeAverage
  <2>1. heard' = FALSE /\ gather' = "reset"
    BY <1>2 DEF TakeAverage
  <2>2. UNCHANGED <<ring, sensor, tallyVars, cnt, counted, twice>>
    BY <1>2 DEF TakeAverage
  <2>3. bad' \in 0 .. 2
    BY <1>1, <1>2 DEF TakeAverage, TaskTypeOK
  <2>4. RingTypeOK' /\ SensorTypeOK'
    BY <1>1, <2>2, Zenon DEF ring, sensor, RingTypeOK, SensorTypeOK
  <2>5. TaskTypeOK'
    BY <1>1, <2>1, <2>2, <2>3, Zenon DEF tallyVars, TaskTypeOK
  <2>6. (SamplesAreKept /\ ForgottenAtReset)'
    BY <2>1 DEF SamplesAreKept, ForgottenAtReset
  <2> QED
    BY <2>4, <2>5, <2>6 DEF PmsInv, TypeOK, TaskTypeOK, RingTypeOK, SensorTypeOK
<1>3. CASE ResetSums
  <2>1. gather = "reset" /\ cnt' = 0 /\ gather' = "sleep"
    BY <1>3 DEF ResetSums
  <2>2. UNCHANGED <<ring, sensor, tallyVars, bad, history>>
    BY <1>3 DEF ResetSums
  <2>3. RingTypeOK' /\ SensorTypeOK'
    BY <1>1, <2>2, Zenon DEF ring, sensor, history, RingTypeOK, SensorTypeOK
  <2>4. cnt' \in 0 .. 1
    BY <2>1
  <2>5. TaskTypeOK'
    BY <1>1, <2>1, <2>2, <2>4, Zenon DEF tallyVars, history, TaskTypeOK
  <2>6. (SamplesAreKept /\ ForgottenAtReset)'
    BY <2>1, <2>2 DEF history, PmsInv, SamplesAreKept, ForgottenAtReset
  <2> QED
    BY <2>3, <2>5, <2>6 DEF PmsInv, TypeOK, TaskTypeOK, RingTypeOK, SensorTypeOK
<1>4. CASE Reboot
  <2>1. /\ g_rb' = EmptyRing /\ r_ptr' = 0 /\ c_ptr' = 0 /\ recv' = FALSE /\ timer' = 0
        /\ bad' = 0 /\ since' = 0 /\ heard' = FALSE
    BY <1>4 DEF Reboot
  <2>2. UNCHANGED <<next, losses, tallyVars, cnt, gather, counted, twice>>
    BY <1>4 DEF Reboot
  <2>3. recv' \in BOOLEAN /\ heard' \in BOOLEAN
    BY <2>1, Zenon
  <2>4. RingTypeOK'
    BY <2>1, <2>3, Zeros, EmptyRingType DEF RingTypeOK
  <2>5. bad' \in 0 .. 2 /\ since' \in 0 .. 2
    BY <2>1
  <2>6. SensorTypeOK'
    BY <1>1, <2>2, <2>5, Zenon DEF SensorTypeOK
  <2>7. TaskTypeOK'
    BY <1>1, <2>2, <2>3, <2>5, Zenon DEF tallyVars, TaskTypeOK
  <2>8. (SamplesAreKept /\ ForgottenAtReset)'
    BY <2>1 DEF SamplesAreKept, ForgottenAtReset
  <2> QED
    BY <2>4, <2>6, <2>7, <2>8 DEF PmsInv, TypeOK, TaskTypeOK, RingTypeOK, SensorTypeOK
<1> QED
  BY <1>2, <1>3, <1>4 DEF vDataGatherTask

LEMMA NextInv == PmsInv /\ [Next]_vars => PmsInv'
<1> SUFFICES ASSUME PmsInv, [Next]_vars PROVE PmsInv'
  OBVIOUS
<1>1. CASE UNCHANGED vars
  BY <1>1, Zenon DEF vars, ring, sensor, tallyVars, gatherVars, history, PmsInv, TypeOK,
     SamplesAreKept, ForgottenAtReset
<1> QED
  BY <1>1, HandlerInv, MissInv, TallyInv, GatherInv DEF Next

LEMMA Invariance == Spec => []PmsInv
<1> QED
  BY InitInv, NextInv, PTL DEF Spec

-------------------------------------------------------------------------------
(* PMSIntHandler and _find_last_good_pm stay within the ring and within a  *)
(* row, whatever characters come or are missed.                            *)
THEOREM PmsTypeCorrect == Spec => []TypeOK
<1>1. PmsInv => TypeOK
  BY DEF PmsInv
<1> QED
  BY <1>1, Invariance, PTL

(* _srst takes nothing that was added while vDataGatherTask slept.  *)
THEOREM SamplesKept == Spec => []SamplesAreKept
<1>1. PmsInv => SamplesAreKept
  BY DEF PmsInv
<1> QED
  BY <1>1, Invariance, PTL

-------------------------------------------------------------------------------
(* In step with the sensor.  A packet is being received as soon as its     *)
(* first character is stored; a plain packet that is received from a       *)
(* character before ends within it, and the next one finds the handler     *)
(* waiting.                                                                *)
Framed ==
  /\ recv <=> c_ptr # 0
  /\ since = 1 => IF next[2] = 0 THEN ~recv
                  ELSE Plain(next[1]) /\ (recv => timer = next[1] /\ c_ptr >= next[2])
  /\ since = 2 => c_ptr = next[2] /\ (recv => timer = next[1])

LEMMA InitFramed == Init => Framed
<1> SUFFICES ASSUME Init PROVE Framed
  OBVIOUS
<1>1. ~recv /\ c_ptr = 0 /\ since \notin {1, 2}
  BY DEF Init
<1> QED
  BY <1>1 DEF Framed

(* The handler where it stores nothing, ends a packet or goes on.  *)
LEMMA HandlerCases ==
  ASSUME PmsInv, PMSIntHandler
  PROVE  /\ next \in Chars
         /\ Ends => c_ptr' = 0 /\ ~recv'
         /\ ~Ends /\ Stores => c_ptr' = c_ptr + 1 /\ recv' /\ timer' = Began
         /\ ~Ends /\ ~Stores => c_ptr' = c_ptr /\ ~recv'
<1>1. next \in Chars
  BY SendType, TypeParts DEF PmsInv, PMSIntHandler
<1>2. CASE Ends
  BY <1>1, <1>2, Zenon DEF PMSIntHandler
<1>3. CASE ~Ends
  <2>1. recv' = Stores /\ c_ptr' = (IF Stores THEN c_ptr + 1 ELSE c_ptr)
    BY <1>3, Zenon DEF PMSIntHandler
  <2>2. Stores => timer' = Began
    BY <1>3 DEF PMSIntHandler
  <2> QED
    BY <1>1, <1>3, <2>1, <2>2, Zenon
<1> QED
  BY <1>2, <1>3

LEMMA HandlerFramed == ASSUME PmsInv, Framed, PMSIntHandler PROVE Framed'
<1>1. /\ RingTypeOK /\ SensorTypeOK /\ since' = Since /\ next \in Chars /\ since \in 0 .. 2
      /\ Ends => c_ptr' = 0 /\ ~recv'
      /\ ~Ends /\ Stores => c_ptr' = c_ptr + 1 /\ recv' /\ timer' = Began
      /\ ~Ends /\ ~Stores => c_ptr' = c_ptr /\ ~recv'
  BY HandlerCases, TypeParts DEF PmsInv, PMSIntHandler, SensorTypeOK
<1>2. /\ next[1] \in Packets /\ next[2] \in Nat /\ next[2] < PktLen /\ c_ptr \in Nat /\ c_ptr < PktLen
      /\ PktLen \in Nat /\ PktLen >= 2 /\ next[1] \in Int
  BY <1>1, PmsAssumption DEF RingTypeOK, Chars, Cols, Packets
<1>3. /\ next[2] < PktLen - 1 => next'[1] = next[1] /\ next'[2] = next[2] + 1
      /\ next[2] = PktLen - 1 => next'[2] = 0
  BY <1>2 DEF PMSIntHandler, Send
<1>4. /\ recv <=> c_ptr # 0
      /\ since = 1 /\ next[2] = 0 => ~recv
      /\ since = 1 /\ next[2] # 0 => Plain(next[1]) /\ (recv => timer = next[1] /\ c_ptr >= next[2])
      /\ since = 2 => c_ptr = next[2] /\ (recv => timer = next[1])
  BY DEF Framed
<1>5. /\ Stores <=> recv \/ IsB(next)
      /\ Ends <=> Stores /\ (c_ptr + 1 = PktLen \/ next[1] # Began)
      /\ recv => Began = timer
      /\ ~recv => Began = next[1]
  BY Zenon DEF Stores, Ends, Began
<1>6. /\ next[2] = 0 => IsB(next)
      /\ next[2] # 0 /\ Plain(next[1]) => ~IsB(next)
  <2>1. next = <<next[1], next[2]>> /\ next[2] \in Cols
    BY <1>1 DEF Chars
  <2> QED
    BY <1>2, <2>1 DEF IsB, Plain
<1>7. recv' <=> c_ptr' # 0
  BY <1>1, <1>2, <1>4, <1>5
<1>8. CASE since' = 2
  <2>1. since = 2 \/ (since = 1 /\ next[2] = 0)
    BY <1>1, <1>8 DEF Since
  <2>2. c_ptr = next[2] /\ (recv => timer = next[1])
    BY <1>2, <1>4, <2>1
  <2>3. Stores /\ Began = next[1]
    BY <1>4, <1>5, <1>6, <2>2
  <2>4. c_ptr' = next'[2] /\ (recv' => timer' = next'[1])
    BY <1>1, <1>2, <1>3, <1>5, <2>2, <2>3
  <2> QED
    BY <1>7, <1>8, <2>4 DEF Framed
<1>9. CASE since' = 1
  <2>1. Plain(next[1]) /\ (next[2] # 0 /\ recv => timer = next[1] /\ c_ptr >= next[2])
    BY <1>1, <1>4, <1>9 DEF Since
  <2>2. recv' => timer' = next[1] /\ c_ptr' >= next[2] + 1
    BY <1>1, <1>2, <1>4, <1>5, <1>6, <2>1
  <2>3. next[2] = PktLen - 1 => ~recv'
    BY <1>1, <1>2, <1>4, <1>5, <1>6, <2>1
  <2>4. IF next'[2] = 0 THEN ~recv'
        ELSE Plain(next'[1]) /\ (recv' => timer' = next'[1] /\ c_ptr' >= next'[2])
    <3>1. CASE next[2] < PktLen - 1
      BY <1>2, <1>3, <2>1, <2>2, <3>1
    <3>2. CASE next[2] = PktLen - 1
      BY <1>3, <2>3, <3>2
    <3> QED
      BY <1>2, <3>1, <3>2
  <2> QED
    BY <1>7, <1>9, <2>4 DEF Framed
<1>10. CASE since' \notin {1, 2}
  BY <1>7, <1>10 DEF Framed
<1> QED
  BY <1>8, <1>9, <1>10

LEMMA NextFramed == PmsInv /\ Framed /\ [Next]_vars => Framed'
<1> SUFFICES ASSUME PmsInv, Framed, [Next]_vars PROVE Framed'
  OBVIOUS
<1>1. CASE Miss
  <2>1. since' = 0 /\ recv' = recv /\ c_ptr' = c_ptr
    BY <1>1 DEF Miss, ring
  <2> QED
    BY <2>1 DEF Framed
<1>2. CASE Reboot
  <2>1. since' = 0 /\ recv' = FALSE /\ c_ptr' = 0
    BY <1>2 DEF Reboot
  <2> QED
    BY <2>1 DEF Framed
<1>3. CASE PM_Tally \/ TakeAverage \/ ResetSums \/ UNCHANGED vars
  <2>1. UNCHANGED <<c_ptr, recv, timer, next, since>>
    BY <1>3 DEF PM_Tally, FindRow, NoRow, AddToSums, ClearRow, TakeAverage, ResetSums, vars, ring, sensor
  <2> QED
    BY <2>1 DEF Framed
<1> QED
  BY <1>1, <1>2, <1>3, HandlerFramed DEF Next, vDataGatherTask

(* Whatever characters are missed and whatever the packets hold, the first *)
(* plain packet is enough for PMSIntHandler to be in step again.           *)
THEOREM BackInStep == Spec => []InStepAgain
<1>1. PmsInv /\ Framed => InStepAgain
  BY DEF Framed, InStepAgain
<1> QED
  BY <1>1, InitInv, InitFramed, NextInv, NextFramed, PTL DEF Spec

-------------------------------------------------------------------------------
(* Every character is in one place of the ring at most, and those that     *)
(* have been added are only in the row that is about to be cleared.        *)
Sent(c, n) == c[1] < n[1] \/ (c[1] = n[1] /\ c[2] < n[2])

RingOnce ==
  \A i \in Rows, k \in Cols : g_rb[i][k] \in Chars =>
    /\ Sent(g_rb[i][k], next)
    /\ \A j \in Rows, l \in Cols : g_rb[j][l] = g_rb[i][k] => j = i /\ l = k
    /\ g_rb[i][k] \in counted => tally = "clear" /\ i = row

CountedSent == \A c \in counted : Sent(c, next)

SumsInv == RingOnce /\ CountedSent /\ twice = FALSE

LEMMA ZeroNoChar == Zero \notin Chars
BY PmsAssumption DEF Zero, Chars, Packets

LEMMA EmptyRingOnce == g_rb = EmptyRing => RingOnce
<1> SUFFICES ASSUME g_rb = EmptyRing, NEW i \in Rows, NEW k \in Cols PROVE g_rb[i][k] \notin Chars
  BY DEF RingOnce
<1>1. g_rb[i][k] = Zero
  BY DEF EmptyRing, Cleared
<1> QED
  BY <1>1, ZeroNoChar

LEMMA InitSums == Init => SumsInv
BY EmptyRingOnce DEF Init, SumsInv, CountedSent

(* The sensor sends a character once.  *)
LEMMA SendOnce ==
  ASSUME SensorTypeOK, Send
  PROVE  /\ next \in Chars /\ ~Sent(next, next) /\ Sent(next, next')
         /\ \A c \in Chars : Sent(c, next) => Sent(c, next')
<1>1. next \in Chars
  BY SendType
<1>2. next[1] \in Int /\ next[2] \in Int
  BY <1>1, PmsAssumption DEF Chars, Packets, Cols
<1>3. next' = <<next[1], next[2] + 1>> \/ next' = <<next[1] + 1, 0>>
  BY DEF Send
<1>4. ASSUME NEW c \in Chars, Sent(c, next) PROVE Sent(c, next')
  <2>1. c[1] \in Int /\ c[2] \in Int
    BY PmsAssumption DEF Chars, Packets, Cols
  <2> QED
    BY <1>2, <1>3, <1>4, <2>1 DEF Sent
<1>5. ~Sent(next, next) /\ Sent(next, next')
  BY <1>2, <1>3 DEF Sent
<1> QED
  BY <1>1, <1>4, <1>5

(* What is counted is not disturbed by a character that is sent.  *)
LEMMA SendCounted ==
  ASSUME SensorTypeOK, Send, CountedSent, counted' = counted PROVE CountedSent'
BY SendOnce DEF CountedSent, SensorTypeOK

LEMMA HandlerSums == ASSUME PmsInv, SumsInv, PMSIntHandler PROVE SumsInv'
<1>1. RingTypeOK /\ SensorTypeOK /\ Send
  BY TypeParts DEF PmsInv, PMSIntHandler
<1>2. UNCHANGED <<tally, row, counted, twice>>
  BY DEF PMSIntHandler, tallyVars, history
<1>3. /\ next \in Chars /\ ~Sent(next, next) /\ Sent(next, next')
      /\ \A c \in Chars : Sent(c, next) => Sent(c, next')
  BY <1>1, SendOnce
<1>4. next \notin counted
  BY <1>3 DEF SumsInv, CountedSent
<1>5. ASSUME NEW i \in Rows, NEW k \in Cols
      PROVE  \/ g_rb'[i][k] = g_rb[i][k]
             \/ g_rb'[i][k] = next /\ i = r_ptr /\ k = c_ptr
  BY <1>1 DEF PMSIntHandler, RingTypeOK
<1>6. ASSUME NEW i \in Rows, NEW k \in Cols PROVE g_rb[i][k] # next
  BY <1>3, <1>6 DEF SumsInv, RingOnce
<1>7. RingOnce'
  <2> SUFFICES ASSUME NEW i \in Rows, NEW k \in Cols, g_rb'[i][k] \in Chars
               PROVE  /\ Sent(g_rb'[i][k], next')
                      /\ \A j \in Rows, l \in Cols : g_rb'[j][l] = g_rb'[i][k] => j = i /\ l = k
                      /\ g_rb'[i][k] \in counted' => tally' = "clear" /\ i = row'
    BY DEF RingOnce
  <2>1. CASE g_rb'[i][k] = next /\ i = r_ptr /\ k = c_ptr
    BY <1>2, <1>3, <1>4, <1>5, <1>6, <2>1
  <2>2. CASE g_rb'[i][k] = g_rb[i][k]
    BY <1>2, <1>3, <1>5, <1>6, <2>2 DEF SumsInv, RingOnce
  <2> QED
    BY <1>5, <2>1, <2>2
<1>8. CountedSent'
  BY <1>1, <1>2, SendCounted DEF SumsInv
<1> QED
  BY <1>2, <1>7, <1>8 DEF SumsInv

LEMMA MissSums == ASSUME PmsInv, SumsInv, Miss PROVE SumsInv'
<1>1. SensorTypeOK /\ Send
  BY TypeParts DEF PmsInv, Miss
<1>2. UNCHANGED <<g_rb, tally, row, counted, twice>>
  BY DEF Miss, ring, tallyVars, history
<1>3. \A c \in Chars : Sent(c, next) => Sent(c, next')
  BY <1>1, SendOnce
<1>4. RingOnce' /\ CountedSent'
  BY <1>1, <1>2, <1>3, SendCounted DEF SumsInv, RingOnce
<1> QED
  BY <1>2, <1>4 DEF SumsInv

(* PM_Tally adds what it has not added, and clears what it has.  *)
LEMMA AddSums == ASSUME PmsInv, SumsInv, AddToSums PROVE SumsInv'
<1>1. /\ tally = "parse" /\ tally' = "clear" /\ UNCHANGED <<g_rb, next, row>>
      /\ counted' = counted \cup Content(row)
  BY DEF AddToSums, ring, sensor
<1>2. row \in Rows
  BY TypeParts DEF PmsInv, TaskTypeOK
<1>3. ASSUME NEW c \in Content(row) PROVE \E k \in Cols : c = g_rb[row][k] /\ c \in Chars
  BY DEF Content
<1>4. Content(row) \cap counted = {}
  BY <1>1, <1>2, <1>3 DEF SumsInv, RingOnce
<1>5. RingOnce'
  <2> SUFFICES ASSUME NEW i \in Rows, NEW k \in Cols, g_rb[i][k] \in Chars
               PROVE  g_rb[i][k] \in counted' => i = row
    BY <1>1 DEF SumsInv, RingOnce
  <2>1. g_rb[i][k] \notin counted
    BY <1>1 DEF SumsInv, RingOnce
  <2>2. g_rb[i][k] \in Content(row) => i = row
    BY <1>2, <1>3 DEF SumsInv, RingOnce
  <2> QED
    BY <1>1, <2>1, <2>2
<1>6. CountedSent'
  BY <1>1, <1>2, <1>3 DEF SumsInv, RingOnce, CountedSent
<1>7. twice' = FALSE
  <2>1. twice' = (twice \/ Content(row) \cap counted # {})
    BY DEF AddToSums
  <2>2. twice = FALSE
    BY DEF SumsInv
  <2> QED
    BY <1>4, <2>1, <2>2, Zenon
<1> QED
  BY <1>5, <1>6, <1>7 DEF SumsInv

LEMMA ClearSums == ASSUME PmsInv, SumsInv, ClearRow PROVE SumsInv'
<1>1. g_rb' = [g_rb EXCEPT ![row] = Cleared] /\ UNCHANGED <<next, counted, twice>>
  BY DEF ClearRow, sensor, history
<1>2. row \in Rows /\ RingTypeOK
  BY TypeParts DEF PmsInv, TaskTypeOK
<1>3. ASSUME NEW i \in Rows, NEW k \in Cols, g_rb'[i][k] \in Chars
      PROVE  g_rb'[i][k] = g_rb[i][k] /\ i # row
  BY <1>1, <1>2, <1>3, ZeroNoChar DEF RingTypeOK, Cleared
<1>4. RingOnce'
  <2> SUFFICES ASSUME NEW i \in Rows, NEW k \in Cols, g_rb'[i][k] \in Chars
               PROVE  /\ Sent(g_rb'[i][k], next')
                      /\ \A j \in Rows, l \in Cols : g_rb'[j][l] = g_rb'[i][k] => j = i /\ l = k
                      /\ g_rb'[i][k] \notin counted'
    BY DEF RingOnce
  <2>1. g_rb'[i][k] = g_rb[i][k] /\ i # row
    BY <1>3
  <2>2. ASSUME NEW j \in Rows, NEW l \in Cols, g_rb'[j][l] = g_rb'[i][k] PROVE g_rb[j][l] = g_rb[i][k]
    BY <1>3, <2>1, <2>2
  <2> QED
    BY <1>1, <2>1, <2>2 DEF SumsInv, RingOnce
<1> QED
  BY <1>1, <1>4 DEF SumsInv, CountedSent

LEMMA NextSums == PmsInv /\ SumsInv /\ [Next]_vars => SumsInv'
<1> SUFFICES ASSUME PmsInv, SumsInv, [Next]_vars PROVE SumsInv'
  OBVIOUS
<1>1. CASE Reboot
  <2>1. g_rb' = EmptyRing /\ UNCHANGED <<next, counted, twice>>
    BY <1>1 DEF Reboot
  <2>2. RingOnce'
    <3>1. ASSUME NEW i \in Rows, NEW k \in Cols PROVE g_rb'[i][k] \notin Chars
      BY <2>1, ZeroNoChar DEF EmptyRing, Cleared
    <3> QED
      BY <3>1 DEF RingOnce
  <2> QED
    BY <2>1, <2>2 DEF SumsInv, CountedSent
<1>2. CASE FindRow
  <2>1. tally = "sleep" /\ UNCHANGED <<g_rb, next, counted, twice>>
    BY <1>2 DEF FindRow, ring, sensor, history
  <2> QED
    BY <2>1 DEF SumsInv, RingOnce, CountedSent
<1>3. CASE NoRow \/ TakeAverage \/ ResetSums \/ UNCHANGED vars
  <2>1. UNCHANGED <<g_rb, next, tally, row, counted, twice>>
    BY <1>3 DEF NoRow, TakeAverage, ResetSums, vars, ring, sensor, tallyVars, history
  <2> QED
    BY <2>1 DEF SumsInv, RingOnce, CountedSent
<1> QED
  BY <1>1, <1>2, <1>3, HandlerSums, MissSums, AddSums, ClearSums DEF Next, PM_Tally, vDataGatherTask

(* The place where a character is stored, and the clearing of a row before *)
(* PM_Tally looks for another, are enough for nothing to be added twice,   *)
(* even where the handler writes into the row that is added and cleared.   *)
THEOREM NothingAddedTwice == Spec => []CountedOnce
<1>1. SumsInv => CountedOnce
  BY DEF SumsInv, CountedOnce
<1> QED
  BY <1>1, InitInv, InitSums, NextInv, NextSums, PTL DEF Spec

------------------------------------------------------------------------------
(***************************************************************************)
(* Proofs about DeviceTime: for any number of servers and sockets, any     *)
(* base of the bytes, and any number of seconds and synchronisations.      *)
(***************************************************************************)

(* What of the clock is assembled so far is what the timestamp is rounded  *)
(* down to, if not less.                                                   *)
BytesBelow ==
  sync = "assemble" => digit \in 1 .. Digits /\ ntp.elapsed <= reply \div Power(Digits - digit)

(* The timer interrupt leaves the clock alone just while it is assembled.  *)
UsedWhileAssembled == inUse <=> sync = "assemble"

ClockInv == AheadByLeapDay /\ reply <= now /\ BytesBelow /\ UsedWhileAssembled

(* The client has a socket from where it is opened to where it is closed,  *)
(* and those it has lost.                                                  *)
Holding == sync \in {"request", "assemble", "close"}

SocketInv ==
  /\ sockets = unnamed + IF Holding THEN 1 ELSE 0
  /\ sync \in {"open", "request"} => tried < NumServers

TimeInv == TimeTypeOK /\ ClockInv /\ SocketInv

ClockTypes ==
  /\ now \in Nat /\ ntp \in Clocks /\ gps \in Clocks /\ sdInfo \in Nat /\ inUse \in BOOLEAN

SyncTypes ==
  /\ sync \in {"wait", "open", "request", "assemble", "close", "update", "stamp", "failed"}
  /\ listIndex \in 0 .. NumServers - 1 /\ tried \in 0 .. NumServers
  /\ ip \in -1 .. NumServers - 1 /\ sockets \in 0 .. MaxSockets
  /\ reply \in Nat /\ digit \in 0 .. Digits /\ retries \in 0 .. 3
  /\ syncs \in 0 .. MaxSyncs /\ unnamed \in 0 .. MaxSockets

SdTypes ==
  /\ rtcs \in 0 .. MaxRtc /\ leapt \in BOOLEAN
  /\ sdAt \in {"sleep", "exists", "choose", "convert", "append"}
  /\ source \in {"none", "ntp", "gps"} /\ dated \in Nat
  /\ looked \in BOOLEAN /\ overlap \in BOOLEAN

LEMMA TimeTypeParts == TimeTypeOK <=> ClockTypes /\ SyncTypes /\ SdTypes
BY Zenon DEF TimeTypeOK, ClockTypes, SyncTypes, SdTypes

LEMMA TypePartsNext == TimeTypeOK' <=> ClockTypes' /\ SyncTypes' /\ SdTypes'
BY Zenon DEF TimeTypeOK, ClockTypes, SyncTypes, SdTypes

-------------------------------------------------------------------------------
(* Arithmetic. *)

LEMMA DivNat == ASSUME NEW a \in Nat, NEW b \in Nat \ {0} PROVE a \div b \in Nat /\ a % b \in 0 .. b - 1
OBVIOUS

LEMMA TimesNat == ASSUME NEW x \in Nat, NEW y \in Nat PROVE x * y \in Nat
OBVIOUS

LEMMA DivMod == ASSUME NEW a \in Nat, NEW b \in Nat \ {0} PROVE a = b * (a \div b) + (a % b)
OBVIOUS

LEMMA TimesMonotone ==
  ASSUME NEW x \in Nat, NEW y \in Nat, NEW b \in Nat, x <= y PROVE x * b <= y * b
OBVIOUS

LEMMA TimesPositive == ASSUME NEW x \in Nat \ {0}, NEW y \in Nat \ {0} PROVE x * y \in Nat \ {0}
OBVIOUS

(* A quotient is the greatest factor that stays below.  *)
LEMMA DivGreatest ==
  ASSUME NEW a \in Nat, NEW b \in Nat \ {0}, NEW k \in Nat, k * b <= a PROVE k <= a \div b
<1> DEFINE q == a \div b
<1>1. q \in Nat /\ a = b * q + (a % b) /\ a % b \in 0 .. b - 1
  BY DivNat, DivMod
<1> HIDE DEF q
<1>2. SUFFICES ASSUME k > q PROVE FALSE
  BY <1>1 DEF q
<1>3. q + 1 \in Nat /\ q + 1 <= k
  BY <1>1, <1>2
<1>4. (q + 1) * b <= k * b
  BY <1>3, TimesMonotone
<1>5. (q + 1) * b = b * q + b
  BY <1>1
<1> QED
  BY <1>1, <1>4, <1>5

(* Dividing by a product does not give more than dividing twice.  *)
LEMMA DivTwice ==
  ASSUME NEW a \in Nat, NEW b \in Nat \ {0}, NEW c \in Nat \ {0}
  PROVE  a \div (b * c) <= (a \div b) \div c
<1> DEFINE m == b * c
<1> DEFINE s == a \div m
<1>1. m \in Nat \ {0}
  BY TimesPositive
<1>2. ASSUME NEW x \in Nat PROVE (x * c) * b = m * x
  OBVIOUS
<1> HIDE DEF m
<1>3. s \in Nat /\ a = m * s + (a % m) /\ a % m \in Nat
  BY <1>1, DivNat, DivMod
<1> HIDE DEF s
<1>4. s * c \in Nat /\ m * s \in Nat
  BY <1>1, <1>3, TimesNat
<1>5. (s * c) * b <= a
  BY <1>2, <1>3, <1>4
<1>6. s * c <= a \div b
  BY <1>4, <1>5, DivGreatest
<1>7. a \div b \in Nat
  BY DivNat
<1> QED
  BY <1>3, <1>6, <1>7, DivGreatest DEF s, m

(* A quotient is not more than what is divided.  *)
LEMMA DivBelow == ASSUME NEW a \in Nat, NEW b \in Nat \ {0} PROVE a \div b <= a
<1>1. a \div b \in Nat /\ a = b * (a \div b) + (a % b) /\ a % b \in Nat
  BY DivNat, DivMod
<1>2. 1 * (a \div b) <= b * (a \div b)
  BY <1>1
<1>3. b * (a \div b) \in Nat
  BY <1>1, TimesNat
<1> QED
  BY <1>1, <1>2, <1>3

LEMMA PowerPositive == ASSUME NEW n \in 0 .. 3 PROVE Power(n) \in Nat \ {0}
<1>1. Base \in Nat \ {0}
  BY DeviceTimeAssumption
<1>2. Base * Base \in Nat \ {0}
  BY <1>1, TimesPositive
<1>3. Base * Base * Base \in Nat \ {0}
  BY <1>1, <1>2, TimesPositive
<1> QED
  BY <1>1, <1>2, <1>3 DEF Power

LEMMA PowerStep == ASSUME NEW n \in 0 .. 2 PROVE Power(n + 1) = Power(n) * Base
<1>1. Base \in Nat
  BY DeviceTimeAssumption
<1>2. n = 0 \/ n = 1 \/ n = 2
  OBVIOUS
<1> QED
  BY <1>1, <1>2 DEF Power

LEMMA ByteType ==
  ASSUME NEW t \in Nat, NEW k \in 1 .. Digits
  PROVE  /\ Power(Digits - k) \in Nat \ {0}
         /\ t \div Power(Digits - k) \in Nat
         /\ Byte(t, k) \in 0 .. Base - 1
         /\ Byte(t, k) <= t \div Power(Digits - k)
<1>1. Digits - k \in 0 .. 3
  BY DeviceTimeAssumption
<1>2. Power(Digits - k) \in Nat \ {0}
  BY <1>1, PowerPositive
<1> DEFINE q == t \div Power(Digits - k)
<1>3. q \in Nat
  BY <1>2, DivNat
<1>4. Base \in Nat \ {0}
  BY DeviceTimeAssumption
<1> HIDE DEF q
<1>5. q % Base \in 0 .. Base - 1 /\ q \div Base \in Nat /\ q = Base * (q \div Base) + (q % Base)
  BY <1>3, <1>4, DivNat, DivMod
<1>6. Base * (q \div Base) \in Nat
  BY <1>4, <1>5, TimesNat
<1>7. q % Base <= q
  BY <1>3, <1>4, <1>5, <1>6
<1> QED
  BY <1>2, <1>3, <1>5, <1>7 DEF q, Byte

(* One more byte: what was below the timestamp still is.  *)
LEMMA AppendByte ==
  ASSUME NEW t \in Nat, NEW e \in Nat, NEW k \in 1 .. Digits, k < Digits,
         e <= t \div Power(Digits - k)
  PROVE  /\ e * Base + Byte(t, k + 1) \in Nat
         /\ e * Base + Byte(t, k + 1) <= t \div Power(Digits - (k + 1))
<1>1. k + 1 \in 1 .. Digits /\ Digits - (k + 1) \in 0 .. 2 /\ Digits - k = Digits - (k + 1) + 1
  BY DeviceTimeAssumption
<1> DEFINE p == Power(Digits - (k + 1))
<1> DEFINE q == t \div p
<1>2. p \in Nat \ {0} /\ q \in Nat /\ Byte(t, k + 1) \in Nat
  BY <1>1, ByteType, DeviceTimeAssumption
<1>3. Power(Digits - k) = p * Base
  BY <1>1, PowerStep
<1>4. Byte(t, k + 1) = q % Base
  BY DEF Byte
<1>5. Base \in Nat \ {0}
  BY DeviceTimeAssumption
<1> HIDE DEF p
<1>6. t \div (p * Base) <= q \div Base
  BY <1>2, <1>5, DivTwice
<1> HIDE DEF q
<1>7. q \div Base \in Nat /\ q = Base * (q \div Base) + (q % Base)
  BY <1>2, <1>5, DivNat, DivMod
<1>8. p * Base \in Nat \ {0}
  BY <1>2, <1>5, TimesPositive
<1>9. t \div (p * Base) \in Nat
  BY <1>8, DivNat
<1>10. e <= q \div Base
  BY <1>3, <1>6, <1>7, <1>9
<1>11. e * Base <= (q \div Base) * Base
  BY <1>5, <1>7, <1>10, TimesMonotone
<1>12. (q \div Base) * Base = Base * (q \div Base) /\ e * Base \in Nat /\ Base * (q \div Base) \in Nat
  BY <1>5, <1>7, TimesNat
<1>13. e * Base + (q % Base) <= q
  BY <1>2, <1>4, <1>7, <1>11, <1>12
<1>14. q = t \div Power(Digits - (k + 1))
  BY DEF p, q
<1> QED
  BY <1>2, <1>4, <1>12, <1>13, <1>14

-------------------------------------------------------------------------------
LEMMA TimeInitInv == TimeInit => TimeInv
<1> SUFFICES ASSUME TimeInit PROVE TimeInv
  OBVIOUS
<1>1. inUse = FALSE /\ leapt = FALSE /\ looked = FALSE /\ overlap = FALSE
  BY DEF TimeInit
<1>2. inUse \in BOOLEAN /\ leapt \in BOOLEAN /\ looked \in BOOLEAN /\ overlap \in BOOLEAN
  BY <1>1, Zenon
<1>3. Unset \in Clocks /\ Unset.elapsed = 0
  BY DEF Unset, Clocks
<1>4. ClockTypes
  BY <1>2, <1>3, DeviceTimeAssumption DEF TimeInit, ClockTypes
<1>5. SyncTypes
  BY <1>2, DeviceTimeAssumption DEF TimeInit, SyncTypes
<1>6. SdTypes
  BY <1>2, DeviceTimeAssumption DEF TimeInit, SdTypes
<1>7. ClockInv
  BY <1>1, <1>3, DeviceTimeAssumption DEF TimeInit, ClockInv, AheadByLeapDay, BytesBelow, UsedWhileAssembled
<1>8. SocketInv
  BY DeviceTimeAssumption DEF TimeInit, SocketInv, Holding
<1> QED
  BY <1>4, <1>5, <1>6, <1>7, <1>8, TimeTypeParts DEF TimeInv

(* Every second, the clocks that are not being set go on with the time.    *)
LEMMA TickInv == ASSUME TimeInv, TIME_TimerIntHandler PROVE TimeInv'
<1>1. ClockTypes /\ SyncTypes /\ SdTypes /\ ClockInv
  BY TimeTypeParts DEF TimeInv
<1>2. /\ now' = now + 1 /\ inUse' = inUse /\ reply' = reply /\ sync' = sync /\ digit' = digit
      /\ leapt' = leapt
  BY DEF TIME_TimerIntHandler, syncVars, rtcVars
<1>3. ASSUME NEW c \in Clocks PROVE Second(c) \in Clocks /\ Second(c).elapsed = c.elapsed + 1
  BY DEF Second, Clocks
<1>4. gps' = Second(gps) /\ ntp' = IF inUse THEN ntp ELSE Second(ntp)
  BY DEF TIME_TimerIntHandler
<1>5. gps' \in Clocks /\ gps'.elapsed = gps.elapsed + 1
  BY <1>1, <1>3, <1>4 DEF ClockTypes
<1>6. ntp' \in Clocks /\ (inUse => ntp' = ntp) /\ ntp'.elapsed <= ntp.elapsed + 1
  <2>1. CASE inUse
    BY <1>1, <1>4, <2>1 DEF ClockTypes, Clocks
  <2>2. CASE ~inUse
    BY <1>1, <1>3, <1>4, <2>2 DEF ClockTypes, Clocks
  <2> QED
    BY <2>1, <2>2
<1>7. sdInfo' \in Nat
  BY <1>1 DEF TIME_TimerIntHandler, ClockTypes, Clocks
<1>8. inUse' \in BOOLEAN
  BY <1>1, <1>2, Zenon DEF ClockTypes
<1>9. ClockTypes'
  BY <1>1, <1>2, <1>5, <1>6, <1>7, <1>8 DEF ClockTypes
<1>10. SyncTypes' /\ SdTypes'
  BY <1>1, Zenon DEF TIME_TimerIntHandler, syncVars, rtcVars, sdVars, SyncTypes, SdTypes
<1>11. AheadByLeapDay' /\ reply' <= now'
  BY <1>1, <1>2, <1>5, <1>6, DeviceTimeAssumption
  DEF ClockInv, AheadByLeapDay, ClockTypes, Clocks, SyncTypes
<1>12. BytesBelow' /\ UsedWhileAssembled'
  BY <1>1, <1>2, <1>6 DEF ClockInv, BytesBelow, UsedWhileAssembled
<1>13. SocketInv'
  BY <1>2 DEF TIME_TimerIntHandler, syncVars, TimeInv, SocketInv, Holding
<1> QED
  BY <1>9, <1>10, <1>11, <1>12, <1>13, TypePartsNext DEF TimeInv, ClockInv

LEMMA StampedType ==
  ASSUME NEW c \in Clocks, NEW t \in Nat
  PROVE  Stamped(c, t) \in Clocks /\ Stamped(c, t).elapsed = t
BY DEF Stamped, Clocks

LEMMA ToldType ==
  ASSUME NEW t \in Nat
  PROVE  Told(t) \in Nat /\ t <= Told(t) /\ Told(t) <= t + IF t \in LeapMonths THEN DayLength ELSE 0
BY DeviceTimeAssumption DEF Told

LEMMA RtcInv == ASSUME TimeInv, RtcAnswer PROVE TimeInv'
<1>1. ClockTypes /\ SyncTypes /\ SdTypes /\ ClockInv
  BY TimeTypeParts DEF TimeInv
<1>2. UNCHANGED <<now, ntp, sdInfo, inUse, syncVars, sdVars>> /\ leapt' = (now \in LeapMonths)
  BY DEF RtcAnswer
<1>3. gps' \in Clocks /\ gps'.elapsed = Told(now)
  BY <1>1, ToldType, StampedType DEF RtcAnswer, ClockTypes
<1>4. ClockTypes'
  BY <1>1, <1>2, <1>3, Zenon DEF ClockTypes
<1>5. SyncTypes'
  BY <1>1, <1>2, Zenon DEF syncVars, SyncTypes
<1>6. rtcs' \in 0 .. MaxRtc /\ leapt' \in BOOLEAN
  <2>1. rtcs' \in 0 .. MaxRtc
    BY <1>1, DeviceTimeAssumption DEF RtcAnswer, SdTypes
  <2>2. leapt' = TRUE \/ leapt' = FALSE
    BY <1>2
  <2> QED
    BY <2>1, <2>2
<1>7. SdTypes'
  BY <1>1, <1>2, <1>6, Zenon DEF sdVars, SdTypes
<1>8. AheadByLeapDay'
  <2>1. now \in Nat
    BY <1>1 DEF ClockTypes
  <2>2. gps'.elapsed <= now + IF leapt' THEN DayLength ELSE 0
    BY <1>2, <1>3, <2>1, ToldType
  <2> QED
    BY <1>1, <1>2, <2>2 DEF ClockInv, AheadByLeapDay
<1>9. ClockInv'
  BY <1>1, <1>2, <1>8 DEF syncVars, ClockInv, BytesBelow, UsedWhileAssembled
<1>10. SocketInv'
  BY <1>2 DEF syncVars, TimeInv, SocketInv, Holding
<1> QED
  BY <1>4, <1>5, <1>7, <1>9, <1>10, TypePartsNext DEF TimeInv

-------------------------------------------------------------------------------
(* vSDStoreTask only looks at the clocks.  *)
LEMMA SdInv == ASSUME TimeInv, vSDStoreTask PROVE TimeInv'
<1>1. ClockTypes /\ SyncTypes /\ SdTypes /\ ClockInv /\ SocketInv
  BY TimeTypeParts DEF TimeInv
<1>2. UNCHANGED <<now, clockVars, syncVars, rtcVars>>
  BY DEF vSDStoreTask, SdWakes, AskExists, ChooseSource, TIME_GetDateFromSource, SdAppends, SdStep
<1>3. ClockTypes' /\ SyncTypes'
  BY <1>1, <1>2, Zenon DEF clockVars, syncVars, ClockTypes, SyncTypes
<1>4. sdAt' \in {"sleep", "exists", "choose", "convert", "append"} /\ source' \in {"none", "ntp", "gps"}
  BY <1>1 DEF vSDStoreTask, SdWakes, AskExists, ChooseSource, TIME_GetDateFromSource, SdAppends,
       SdStep, TIME_BestTimeSource, SdTypes
<1>5. dated' \in Nat
  BY <1>1 DEF vSDStoreTask, SdWakes, AskExists, ChooseSource, TIME_GetDateFromSource, SdAppends,
       SdStep, ClockTypes, Clocks, SdTypes
<1>6. looked' \in BOOLEAN /\ overlap' \in BOOLEAN
  <2>1. CASE SdWakes
    <3>1. looked' = (ntp.last > 0 \/ gps.last > 0) /\ overlap' = Setting
      BY <2>1, Zenon DEF SdWakes
    <3>2. overlap' = TRUE \/ overlap' = FALSE
      BY <3>1 DEF Setting
    <3>3. looked' \in BOOLEAN
      BY <3>1, Zenon
    <3> QED
      BY <3>2, <3>3, Zenon
  <2>2. CASE AskExists
    BY <1>1, <2>2, Zenon DEF AskExists, SdTypes
  <2>3. CASE ChooseSource
    BY <1>1, <2>3, Zenon DEF ChooseSource, SdTypes
  <2>4. CASE TIME_GetDateFromSource
    BY <1>1, <2>4, Zenon DEF TIME_GetDateFromSource, SdTypes
  <2>5. CASE SdAppends
    BY <2>5, Zenon DEF SdAppends
  <2> QED
    BY <2>1, <2>2, <2>3, <2>4, <2>5 DEF vSDStoreTask
<1>7. SdTypes'
  BY <1>1, <1>2, <1>4, <1>5, <1>6, Zenon DEF rtcVars, SdTypes
<1>8. ClockInv'
  BY <1>1, <1>2 DEF clockVars, syncVars, rtcVars, ClockInv, AheadByLeapDay, BytesBelow, UsedWhileAssembled
<1>9. SocketInv'
  BY <1>1, <1>2 DEF syncVars, SocketInv, Holding
<1> QED
  BY <1>3, <1>7, <1>8, <1>9, TypePartsNext DEF TimeInv

-------------------------------------------------------------------------------
(* A step of vSyncTime_NTP outside the assembly, that sets no clock.       *)
LEMMA QuietInv ==
  ASSUME TimeInv, SyncTypes', SocketInv', UNCHANGED <<now, clockVars, rtcVars, sdAt, source, dated, looked>>,
         reply' = reply, overlap' \in BOOLEAN, sync # "assemble", sync' # "assemble"
  PROVE  TimeInv'
<1>1. ClockTypes /\ SdTypes /\ ClockInv
  BY TimeTypeParts DEF TimeInv
<1>2. ClockTypes' /\ SdTypes'
  BY <1>1, Zenon DEF clockVars, rtcVars, ClockTypes, SdTypes
<1>3. ClockInv'
  BY <1>1 DEF clockVars, rtcVars, ClockInv, AheadByLeapDay, BytesBelow, UsedWhileAssembled
<1> QED
  BY <1>2, <1>3, TypePartsNext DEF TimeInv

LEMMA ServerType == ASSUME SyncTypes PROVE Server \in 0 .. NumServers - 1
<1>1. listIndex + tried \in Nat /\ NumServers \in Nat \ {0}
  BY DeviceTimeAssumption DEF SyncTypes
<1> QED
  BY <1>1, DivNat DEF Server

(* Giving up on a server loses the count of none.  *)
LEMMA GiveUpType ==
  ASSUME SyncTypes, SocketInv, sync \in {"open", "request"}, GiveUp
  PROVE  /\ tried' \in 0 .. NumServers /\ sync' \in {"open", "failed"}
         /\ sync' = "open" => tried' < NumServers
BY DeviceTimeAssumption DEF SyncTypes, SocketInv, GiveUp

LEMMA GiveUpInv ==
  ASSUME TimeInv, SocketFails \/ LookupFails \/ OptionFails \/ RequestFails
  PROVE  TimeInv'
<1>1. SyncTypes /\ SdTypes /\ SocketInv
  BY TimeTypeParts DEF TimeInv
<1>2. GiveUp /\ Trying /\ sync \in {"open", "request"}
  BY DEF SocketFails, LookupFails, OptionFails, RequestFails
<1>3. /\ tried' \in 0 .. NumServers /\ sync' \in {"open", "failed"}
      /\ sync' = "open" => tried' < NumServers
  BY <1>1, <1>2, GiveUpType
<1>4. ip' \in -1 .. NumServers - 1
  BY <1>1, ServerType DEF SyncTypes, SocketFails, LookupFails, OptionFails, RequestFails
<1>5. sockets' \in 0 .. MaxSockets
  BY <1>1, DeviceTimeAssumption DEF SyncTypes, SocketInv, Holding, SocketFails, LookupFails,
     OptionFails, RequestFails
<1>6. reply' = reply /\ digit' = digit
  BY DEF SocketFails, LookupFails, OptionFails, RequestFails
<1>7. unnamed' \in 0 .. MaxSockets
  BY <1>1, DeviceTimeAssumption DEF SyncTypes, SocketInv, Holding, SocketFails, LookupFails,
     OptionFails, RequestFails
<1>8. SyncTypes'
  <2>1. UNCHANGED <<listIndex, retries, syncs>>
    BY <1>2 DEF Trying
  <2> QED
    BY <1>1, <1>3, <1>4, <1>5, <1>6, <1>7, <2>1 DEF SyncTypes
<1>9. sockets' = unnamed'
  <2>1. sockets \in Nat /\ unnamed \in Nat
    BY <1>1, DeviceTimeAssumption DEF SyncTypes
  <2>2. CASE RequestFails
    BY <1>1, <2>1, <2>2 DEF SocketInv, Holding, RequestFails
  <2>3. CASE SocketFails \/ LookupFails \/ OptionFails
    BY <1>1, <2>1, <2>3 DEF SocketInv, Holding, SocketFails, LookupFails, OptionFails
  <2> QED
    BY <2>2, <2>3
<1>10. SocketInv'
  <2>1. ~Holding' /\ (sync' \in {"open", "request"} => tried' < NumServers)
    BY <1>3 DEF Holding
  <2>2. sockets' = unnamed' + 0
    <3>1. unnamed' \in Nat
      BY <1>7, DeviceTimeAssumption
    <3>2. ASSUME NEW n \in Nat PROVE n = n + 0
      OBVIOUS
    <3> QED
      BY <1>9, <3>1, <3>2
  <2> QED
    BY <2>1, <2>2 DEF SocketInv
<1>11. UNCHANGED <<now, clockVars, rtcVars, sdAt, source, dated, looked>> /\ overlap' = overlap
  <2>1. inUse' = inUse
    BY <1>2 DEF Trying
  <2> QED
    BY <1>2, <2>1 DEF Trying, clockVars, sdVars
<1>12. overlap' \in BOOLEAN
  BY <1>1, <1>11, Zenon DEF SdTypes
<1> QED
  BY <1>2, <1>3, <1>6, <1>8, <1>10, <1>11, <1>12, QuietInv

(* A synchronisation begins, opens its socket, or has failed.  *)
LEMMA NoClockInv ==
  ASSUME TimeInv, BeginSync \/ NoInternet \/ _open_socket \/ SyncFailed
  PROVE  TimeInv'
<1>1. SyncTypes /\ SdTypes /\ SocketInv
  BY TimeTypeParts DEF TimeInv
<1>2. sync' \in {"open", "failed", "request", "wait"} /\ sync # "assemble"
  BY DEF BeginSync, NoInternet, _open_socket, SyncFailed, SyncStep
<1>3. UNCHANGED <<now, clockVars, rtcVars, sdAt, source, dated, looked>> /\ overlap' = overlap
  <2>1. CASE BeginSync \/ NoInternet \/ SyncFailed
    BY <2>1 DEF BeginSync, NoInternet, SyncFailed, SyncStep, clockVars
  <2>2. CASE _open_socket
    <3>1. inUse' = inUse
      BY <2>2 DEF _open_socket, Trying
    <3> QED
      BY <2>2, <3>1 DEF _open_socket, Trying, clockVars, sdVars
  <2> QED
    BY <2>1, <2>2
<1>4. /\ tried' \in 0 .. NumServers /\ syncs' \in 0 .. MaxSyncs /\ retries' \in 0 .. 3
      /\ reply' = reply /\ digit' = digit /\ listIndex' = listIndex
  BY <1>1, DeviceTimeAssumption DEF BeginSync, NoInternet, _open_socket, SyncFailed, Trying, SyncTypes
<1>5. ip' \in -1 .. NumServers - 1
  BY <1>1, ServerType DEF SyncTypes, BeginSync, NoInternet, _open_socket, SyncFailed
<1>6. unnamed' = unnamed
  BY DEF BeginSync, NoInternet, _open_socket, SyncFailed
<1>7. sockets' \in 0 .. MaxSockets
  BY <1>1, DeviceTimeAssumption DEF SyncTypes, BeginSync, NoInternet, _open_socket, SyncFailed
<1>8. SyncTypes'
  <2>1. unnamed' \in 0 .. MaxSockets
    BY <1>1, <1>6 DEF SyncTypes
  <2> QED
    BY <1>1, <1>2, <1>4, <1>5, <1>7, <2>1 DEF SyncTypes
<1>9. SocketInv'
  <2>1. CASE BeginSync
    BY <1>1, <1>6, <2>1, DeviceTimeAssumption DEF BeginSync, SyncStep, SocketInv, Holding
  <2>2. CASE NoInternet \/ SyncFailed
    BY <1>1, <1>6, <2>2 DEF NoInternet, SyncFailed, SyncStep, SocketInv, Holding
  <2>3. CASE _open_socket
    BY <1>1, <1>6, <2>3 DEF _open_socket, SyncTypes, SocketInv, Holding
  <2> QED
    BY <2>1, <2>2, <2>3
<1>10. overlap' \in BOOLEAN
  BY <1>1, <1>3, Zenon DEF SdTypes
<1> QED
  BY <1>2, <1>3, <1>4, <1>8, <1>9, <1>10, QuietInv

-------------------------------------------------------------------------------
(* What a step of vSyncTime_NTP that sets the clock leaves as it is.  *)
LEMMA SetSdTypes ==
  ASSUME SdTypes, UNCHANGED <<rtcVars, sdAt, source, dated, looked>>, overlap' \in BOOLEAN
  PROVE  SdTypes'
BY Zenon DEF rtcVars, SdTypes

LEMMA WithElapsed ==
  ASSUME NEW c \in Clocks, NEW t \in Nat
  PROVE  [c EXCEPT !.elapsed = t] \in Clocks /\ [c EXCEPT !.elapsed = t].elapsed = t
BY DEF Clocks

(* The first byte: what lies above it is still below the timestamp.  *)
LEMMA AnsweredInv == ASSUME TimeInv, RequestAnswered PROVE TimeInv'
<1>1. ClockTypes /\ SyncTypes /\ SdTypes /\ ClockInv /\ SocketInv
  BY TimeTypeParts DEF TimeInv
<1>2. /\ sync = "request" /\ sync' = "assemble" /\ now' = now /\ gps' = gps /\ sdInfo' = sdInfo
      /\ reply' = now /\ digit' = 1 /\ inUse' = TRUE
      /\ ntp' = [ntp EXCEPT !.elapsed = Byte(now, 1)]
      /\ UNCHANGED <<rtcVars, sdAt, source, dated, looked>>
  BY DEF RequestAnswered, SyncStep
<1>3. UNCHANGED <<listIndex, tried, ip, sockets, retries, syncs, unnamed>>
  BY DEF RequestAnswered
<1>4. Byte(now, 1) \in Nat /\ Byte(now, 1) <= now \div Power(Digits - 1) /\ now \div Power(Digits - 1) <= now
  <2>1. now \in Nat /\ 1 \in 1 .. Digits
    BY <1>1, DeviceTimeAssumption DEF ClockTypes
  <2>2. Power(Digits - 1) \in Nat \ {0} /\ Byte(now, 1) \in Nat /\ Byte(now, 1) <= now \div Power(Digits - 1)
    BY <2>1, ByteType, DeviceTimeAssumption
  <2> QED
    BY <2>1, <2>2, DivBelow
<1>5. ntp' \in Clocks /\ ntp'.elapsed = Byte(now, 1)
  BY <1>1, <1>2, <1>4, WithElapsed DEF ClockTypes
<1>6. inUse' \in BOOLEAN
  BY <1>2, Zenon
<1>7. ClockTypes'
  BY <1>1, <1>2, <1>5, <1>6 DEF ClockTypes
<1>8. SyncTypes'
  BY <1>1, <1>2, <1>3, <1>6, DeviceTimeAssumption DEF ClockTypes, SyncTypes
<1>9. overlap' \in BOOLEAN
  BY Zenon DEF RequestAnswered, Overlaps
<1>10. AheadByLeapDay'
  <2>1. Byte(now, 1) <= now
    <3>1. now \div Power(Digits - 1) \in Nat
      BY <1>1, ByteType, DeviceTimeAssumption DEF ClockTypes
    <3> QED
      BY <1>1, <1>4, <3>1 DEF ClockTypes
  <2> QED
    BY <1>1, <1>2, <1>5, <2>1 DEF ClockInv, AheadByLeapDay, rtcVars
<1>11. BytesBelow'
  BY <1>2, <1>4, <1>5, DeviceTimeAssumption DEF BytesBelow
<1>12. UsedWhileAssembled' /\ reply' <= now'
  BY <1>1, <1>2 DEF UsedWhileAssembled, ClockTypes
<1>13. SocketInv'
  BY <1>1, <1>2, <1>3 DEF SocketInv, Holding
<1> QED
  BY <1>1, <1>2, <1>7, <1>8, <1>9, <1>10, <1>11, <1>12, <1>13, SetSdTypes, TypePartsNext
  DEF TimeInv, ClockInv

(* A further byte.  *)
LEMMA AssembleInv == ASSUME TimeInv, Assemble PROVE TimeInv'
<1>1. ClockTypes /\ SyncTypes /\ SdTypes /\ ClockInv /\ SocketInv
  BY TimeTypeParts DEF TimeInv
<1> DEFINE t == ntp.elapsed * Base + Byte(reply, digit + 1)
<1>2. /\ sync = "assemble" /\ sync' = "assemble" /\ now' = now /\ gps' = gps /\ sdInfo' = sdInfo
      /\ digit < Digits /\ digit' = digit + 1 /\ reply' = reply /\ inUse' = inUse
      /\ ntp' = [ntp EXCEPT !.elapsed = t]
      /\ UNCHANGED <<rtcVars, sdAt, source, dated, looked>> /\ overlap' = overlap
  BY DEF Assemble, SyncStep
<1>3. UNCHANGED <<listIndex, tried, ip, sockets, retries, syncs, unnamed>>
  BY DEF Assemble
<1>4. /\ reply \in Nat /\ ntp.elapsed \in Nat /\ digit \in 1 .. Digits
      /\ ntp.elapsed <= reply \div Power(Digits - digit)
  BY <1>1, <1>2 DEF ClockTypes, Clocks, SyncTypes, ClockInv, BytesBelow
<1>5. t \in Nat /\ t <= reply \div Power(Digits - (digit + 1))
  BY <1>2, <1>4, AppendByte
<1> HIDE DEF t
<1>6. ntp' \in Clocks /\ ntp'.elapsed = t
  BY <1>1, <1>2, <1>5, WithElapsed DEF ClockTypes
<1>7. inUse' \in BOOLEAN /\ overlap' \in BOOLEAN
  BY <1>1, <1>2, Zenon DEF ClockTypes, SdTypes
<1>8. ClockTypes'
  BY <1>1, <1>2, <1>6, <1>7 DEF ClockTypes
<1>9. digit + 1 \in 1 .. Digits
  BY <1>2, <1>4, DeviceTimeAssumption
<1>10. SyncTypes'
  BY <1>1, <1>2, <1>3, <1>7, <1>9 DEF SyncTypes
<1>11. t <= reply
  <2>1. Power(Digits - (digit + 1)) \in Nat \ {0} /\ reply \div Power(Digits - (digit + 1)) \in Nat
    BY <1>4, <1>9, ByteType
  <2>2. reply \div Power(Digits - (digit + 1)) <= reply
    BY <1>4, <2>1, DivBelow
  <2> QED
    BY <1>4, <1>5, <2>1, <2>2
<1>12. AheadByLeapDay' /\ reply' <= now'
  BY <1>1, <1>2, <1>4, <1>5, <1>6, <1>11 DEF ClockTypes, ClockInv, AheadByLeapDay, rtcVars
<1>13. BytesBelow'
  BY <1>2, <1>5, <1>6, <1>9 DEF BytesBelow
<1>14. UsedWhileAssembled'
  BY <1>1, <1>2 DEF ClockInv, UsedWhileAssembled
<1>15. SocketInv'
  BY <1>1, <1>2, <1>3 DEF SocketInv, Holding
<1> QED
  BY <1>1, <1>2, <1>7, <1>8, <1>10, <1>12, <1>13, <1>14, <1>15, SetSdTypes, TypePartsNext
  DEF TimeInv, ClockInv

(* The last byte is in its place, and the socket closed.  *)
LEMMA AssembledInv == ASSUME TimeInv, Assembled \/ _close_socket PROVE TimeInv'
<1>1. ClockTypes /\ SyncTypes /\ SdTypes /\ ClockInv /\ SocketInv
  BY TimeTypeParts DEF TimeInv
<1>2. /\ now' = now /\ gps' = gps /\ sdInfo' = sdInfo /\ ntp' = ntp
      /\ UNCHANGED <<rtcVars, sdAt, source, dated, looked>> /\ overlap' = overlap
  BY DEF Assembled, _close_socket, SyncStep
<1>3. /\ sync \in {"assemble", "close"} /\ sync' \in {"close", "update"}
      /\ sync = "assemble" => sync' = "close" /\ sockets' = sockets
      /\ sync = "close" => sync' = "update" /\ sockets' = sockets - 1
  BY DEF Assembled, _close_socket, SyncStep
<1>4. UNCHANGED <<tried, ip, retries, syncs, unnamed>>
  BY DEF Assembled, _close_socket
<1>5. inUse' = FALSE
  <2>1. CASE Assembled
    BY <2>1 DEF Assembled
  <2>2. CASE _close_socket
    BY <1>1, <2>2 DEF _close_socket, SyncStep, ClockInv, UsedWhileAssembled
  <2> QED
    BY <2>1, <2>2
<1>6. reply' \in Nat /\ reply' <= now' /\ digit' \in 0 .. Digits
  BY <1>1, <1>2, DeviceTimeAssumption DEF Assembled, _close_socket, ClockTypes, Clocks, SyncTypes,
     ClockInv, AheadByLeapDay
<1>7. listIndex' \in 0 .. NumServers - 1
  BY <1>1, ServerType DEF Assembled, _close_socket, SyncTypes
<1>8. inUse' \in BOOLEAN /\ overlap' \in BOOLEAN
  BY <1>1, <1>2, <1>5, Zenon DEF SdTypes
<1>9. ClockTypes'
  BY <1>1, <1>2, <1>8 DEF ClockTypes
<1>10. sockets' \in 0 .. MaxSockets
  BY <1>1, <1>3, DeviceTimeAssumption DEF SyncTypes, SocketInv, Holding
<1>11. SyncTypes'
  BY <1>1, <1>3, <1>4, <1>6, <1>7, <1>8, <1>10 DEF SyncTypes
<1>12. ClockInv'
  BY <1>1, <1>2, <1>3, <1>5, <1>6 DEF rtcVars, ClockInv, AheadByLeapDay, BytesBelow, UsedWhileAssembled
<1>13. SocketInv'
  BY <1>1, <1>3, <1>4 DEF SyncTypes, SocketInv, Holding
<1> QED
  BY <1>1, <1>2, <1>8, <1>9, <1>11, <1>12, <1>13, SetSdTypes, TypePartsNext DEF TimeInv

(* TIME_UpdateSystemTimeFromPOSIX sets what was read of the clock before.  *)
LEMMA UpdateInv == ASSUME TimeInv, UpdateElapsed \/ UpdateStamp PROVE TimeInv'
<1>1. ClockTypes /\ SyncTypes /\ SdTypes /\ ClockInv /\ SocketInv
  BY TimeTypeParts DEF TimeInv
<1>2. /\ now' = now /\ gps' = gps /\ sdInfo' = sdInfo /\ inUse' = inUse
      /\ UNCHANGED <<rtcVars, sdAt, source, dated, looked>> /\ overlap' = overlap
  BY DEF UpdateElapsed, UpdateStamp, SyncStep
<1>3. sync \in {"update", "stamp"} /\ sync' \in {"stamp", "wait"}
  BY DEF UpdateElapsed, UpdateStamp, SyncStep
<1>4. UNCHANGED <<listIndex, tried, ip, sockets, digit, syncs, unnamed>>
  BY DEF UpdateElapsed, UpdateStamp
<1>5. reply' \in {0, reply} /\ retries' \in {0, retries}
  BY DEF UpdateElapsed, UpdateStamp
<1>6. ntp' \in Clocks /\ ntp'.elapsed <= now
  <2>1. CASE UpdateElapsed
    BY <1>1, <2>1, WithElapsed DEF UpdateElapsed, ClockTypes, SyncTypes, ClockInv
  <2>2. CASE UpdateStamp
    <3>1. ntp \in Clocks /\ ntp.elapsed \in Nat /\ ntp.elapsed <= now
      BY <1>1 DEF ClockTypes, Clocks, ClockInv, AheadByLeapDay
    <3> QED
      BY <2>2, <3>1, StampedType DEF UpdateStamp
  <2> QED
    BY <2>1, <2>2
<1>7. inUse' \in BOOLEAN /\ overlap' \in BOOLEAN
  BY <1>1, <1>2, Zenon DEF ClockTypes, SdTypes
<1>8. ClockTypes'
  BY <1>1, <1>2, <1>6, <1>7 DEF ClockTypes
<1>9. SyncTypes'
  BY <1>1, <1>3, <1>4, <1>5, <1>7 DEF SyncTypes
<1>10. ClockInv'
  BY <1>1, <1>2, <1>3, <1>5, <1>6 DEF rtcVars, ClockTypes, SyncTypes, ClockInv, AheadByLeapDay, BytesBelow,
     UsedWhileAssembled
<1>11. SocketInv'
  BY <1>1, <1>3, <1>4 DEF SocketInv, Holding
<1> QED
  BY <1>1, <1>2, <1>7, <1>8, <1>9, <1>10, <1>11, SetSdTypes, TypePartsNext DEF TimeInv

-------------------------------------------------------------------------------
LEMMA TimeNextInv == TimeInv /\ [TimeNext]_timeVars => TimeInv'
<1> SUFFICES ASSUME TimeInv, [TimeNext]_timeVars PROVE TimeInv'
  OBVIOUS
<1>1. CASE TIME_SyncNTP
  BY <1>1, GiveUpInv, NoClockInv, AnsweredInv, AssembleInv, AssembledInv, UpdateInv DEF TIME_SyncNTP
<1>2. CASE UNCHANGED timeVars
  <2>1. UNCHANGED <<now, clockVars, syncVars, rtcVars, sdVars>>
    BY <1>2 DEF timeVars
  <2>2. ClockTypes' /\ SyncTypes' /\ SdTypes'
    BY <2>1, TimeTypeParts, Zenon DEF clockVars, syncVars, rtcVars, sdVars, TimeInv, ClockTypes, SyncTypes, SdTypes
  <2>3. ClockInv' /\ SocketInv'
    BY <2>1 DEF clockVars, syncVars, rtcVars, TimeInv, ClockInv, AheadByLeapDay, BytesBelow, UsedWhileAssembled,
       SocketInv, Holding
  <2> QED
    BY <2>2, <2>3, TypePartsNext DEF TimeInv
<1> QED
  BY <1>1, <1>2, TickInv, RtcInv, SdInv DEF TimeNext

LEMMA TimeInvariance == TimeSpec => []TimeInv
<1> QED
  BY TimeInitInv, TimeNextInv, PTL DEF TimeSpec

-------------------------------------------------------------------------------
(* The interrupt handlers and the tasks keep every variable in its range.  *)
THEOREM TimeTypeCorrect == TimeSpec => []TimeTypeOK
<1>1. TimeInv => TimeTypeOK
  BY DEF TimeInv
<1> QED
  BY <1>1, TimeInvariance, PTL

(* g_sSNTPDataInUse is enough: no clock runs ahead of the time, whatever   *)
(* step of the assembly the timer interrupt comes between, but for the     *)
(* leap day TIME_dt2posix counts too early when the receiver answers.      *)
THEOREM LeapDayAtMost == TimeSpec => []AheadByLeapDay
<1>1. TimeInv => AheadByLeapDay
  BY DEF TimeInv, ClockInv
<1> QED
  BY <1>1, TimeInvariance, PTL

(* TIME_SyncNTP gives back every socket but those whose look-up or option  *)
(* failed.                                                                 *)
THEOREM SocketsGivenBack == TimeSpec => []SocketsReturned
<1>1. TimeInv => SocketsReturned
  BY DeviceTimeAssumption DEF TimeInv, TimeTypeOK, SocketInv, Holding, SocketsReturned
<1> QED
  BY <1>1, TimeInvariance, PTL

-------------------------------------------------------------------------------
(* The day a file is named by.  Two facts of the node are needed: it is    *)
(* started after 2017, and a timestamp holds every time there is.          *)
StartsLate == Start > TIME2017
TimesFit == Start + MaxTicks < Base * Power(Digits - 1)

(* The clock of the GPS receiver counts the seconds since the start until  *)
(* it is set, and is not before the start from then on.                    *)
GpsSet ==
  /\ now \in Start .. Start + MaxTicks
  /\ IF gps.last = 0 THEN gps.elapsed = now - Start ELSE gps.elapsed >= Start

(* The clock of the servers too, but may lose seconds.  *)
NtpSet == ~Setting => IF ntp.last = 0 THEN ntp.elapsed <= now - Start ELSE ntp.elapsed >= Start

(* What is assembled is exact, and so is not before the start at the end.  *)
SettingExact ==
  /\ sync = "assemble" => reply >= Start /\ ntp.elapsed = reply \div Power(Digits - digit)
  /\ sync \in {"close", "update", "stamp"} => ntp.elapsed >= Start
  /\ sync = "update" => reply >= Start

Exist == TIME_Exists(ntp) \/ TIME_Exists(gps)

(* What vSDStoreTask has found out so far still holds where it uses it.    *)
Naming ==
  sdAt # "sleep" /\ ~overlap =>
    /\ ~Setting
    /\ looked => ntp.last > 0 \/ gps.last > 0
    /\ sdAt \in {"exists", "choose", "convert"} => dated = 0
    /\ sdAt = "choose" => Exist
    /\ sdAt = "convert" => TIME_Exists(IF source = "ntp" THEN ntp ELSE gps)
    /\ sdAt = "append" => (looked => dated > TIME2017) /\ (dated > 0 => dated > TIME2017)

DayInv == TimeInv /\ GpsSet /\ NtpSet /\ SettingExact /\ Naming

-------------------------------------------------------------------------------
(* Dividing by a product is dividing twice.  *)
LEMMA DivExact ==
  ASSUME NEW a \in Nat, NEW b \in Nat \ {0}, NEW c \in Nat \ {0}
  PROVE  a \div (b * c) = (a \div b) \div c
<1> DEFINE d == a \div b
<1> DEFINE q == d \div c
<1> DEFINE m == b * c
<1>1. m \in Nat \ {0} /\ d \in Nat
  BY TimesPositive, DivNat
<1>2. ASSUME NEW x \in Nat PROVE (x * c) * b = x * m /\ x * c \in Nat
  BY TimesNat
<1>3. a = b * d + (a % b) /\ a % b \in Nat /\ d * b = b * d /\ b * d \in Nat
  BY <1>1, DivNat, DivMod, TimesNat
<1>4. a \div m <= q
  BY DivTwice
<1> HIDE DEF d
<1>5. q \in Nat /\ d = c * q + (d % c) /\ d % c \in Nat /\ q * c = c * q
  BY <1>1, DivNat, DivMod
<1> HIDE DEF q
<1>6. q * c <= d /\ q * c \in Nat
  BY <1>1, <1>2, <1>5
<1>7. (q * c) * b <= d * b
  BY <1>1, <1>6, TimesMonotone
<1> HIDE DEF m
<1>8. q * m <= a
  <2>1. (q * c) * b = q * m
    BY <1>2, <1>5
  <2>2. q * m \in Nat
    BY <1>1, <1>5, TimesNat
  <2> QED
    BY <1>3, <1>7, <2>1, <2>2
<1> DEFINE r == a \div m
<1>9. q <= r /\ r \in Nat /\ r <= q
  BY <1>1, <1>4, <1>5, <1>8, DivGreatest, DivNat
<1> HIDE DEF r
<1>10. r = q
  BY <1>5, <1>9
<1> QED
  BY <1>10 DEF m, q, d, r

LEMMA DivLess ==
  ASSUME NEW a \in Nat, NEW b \in Nat \ {0}, NEW c \in Nat \ {0}, a < c * b PROVE a \div b < c
<1> DEFINE q == a \div b
<1>1. q \in Nat /\ a = b * q + (a % b) /\ a % b \in Nat
  BY DivNat, DivMod
<1> HIDE DEF q
<1>2. SUFFICES ASSUME c <= q PROVE FALSE
  BY <1>1 DEF q
<1>3. c * b <= q * b /\ q * b = b * q /\ b * q \in Nat /\ c * b \in Nat
  BY <1>1, <1>2, TimesMonotone, TimesNat
<1> QED
  BY <1>1, <1>3

(* The first byte is all that lies above the others.  *)
LEMMA FirstExact ==
  ASSUME NEW t \in Nat, t < Base * Power(Digits - 1)
  PROVE  Byte(t, 1) = t \div Power(Digits - 1)
<1> DEFINE p == Power(Digits - 1)
<1> DEFINE q == t \div p
<1>1. 1 \in 1 .. Digits /\ Base \in Nat \ {0}
  BY DeviceTimeAssumption
<1>2. p \in Nat \ {0}
  BY <1>1, ByteType
<1>3. q \in Nat /\ q < Base
  BY <1>1, <1>2, DivNat, DivLess
<1>4. Byte(t, 1) = q % Base
  BY DEF Byte
<1> HIDE DEF q
<1>5. q % Base = q
  BY <1>1, <1>3
<1> QED
  BY <1>4, <1>5 DEF q, p

(* A byte more is the timestamp with a byte less below it.  *)
LEMMA AppendExact ==
  ASSUME NEW t \in Nat, NEW k \in 1 .. Digits, k < Digits
  PROVE  (t \div Power(Digits - k)) * Base + Byte(t, k + 1) = t \div Power(Digits - (k + 1))
<1>1. k + 1 \in 1 .. Digits /\ Digits - (k + 1) \in 0 .. 2 /\ Digits - k = Digits - (k + 1) + 1
  BY DeviceTimeAssumption
<1> DEFINE p == Power(Digits - (k + 1))
<1> DEFINE q == t \div p
<1>2. p \in Nat \ {0} /\ q \in Nat
  BY <1>1, ByteType
<1>3. Power(Digits - k) = p * Base
  BY <1>1, PowerStep
<1>4. Byte(t, k + 1) = q % Base
  BY DEF Byte
<1>5. Base \in Nat \ {0}
  BY DeviceTimeAssumption
<1> HIDE DEF p
<1>6. t \div (p * Base) = q \div Base
  BY <1>2, <1>5, DivExact
<1>7. t \div Power(Digits - k) = q \div Base
  BY <1>3, <1>6
<1>8. q = t \div Power(Digits - (k + 1))
  BY DEF p, q
<1> HIDE DEF q
<1>9. q \div Base \in Nat /\ q % Base \in Nat /\ q = Base * (q \div Base) + (q % Base)
  <2>1. q \div Base \in Nat /\ q % Base \in 0 .. Base - 1
    BY <1>2, <1>5, DivNat
  <2>2. q = Base * (q \div Base) + (q % Base)
    BY <1>2, <1>5, DivMod
  <2>3. q % Base \in Nat
    BY <1>5, <2>1
  <2> QED
    BY <2>1, <2>2, <2>3
<1>10. (q \div Base) * Base = Base * (q \div Base)
  BY <1>5, <1>9
<1>11. (q \div Base) * Base + (q % Base) = q
  BY <1>9, <1>10
<1> QED
  BY <1>4, <1>7, <1>8, <1>11

-------------------------------------------------------------------------------
LEMMA InitDay == TimeInit => GpsSet /\ NtpSet /\ SettingExact /\ Naming
<1> SUFFICES ASSUME TimeInit PROVE GpsSet /\ NtpSet /\ SettingExact /\ Naming
  OBVIOUS
<1>1. gps.last = 0 /\ gps.elapsed = 0 /\ ntp.last = 0 /\ ntp.elapsed = 0 /\ now = Start /\ sync = "wait"
  BY DEF TimeInit, Unset
<1>2. sdAt = "sleep"
  BY DEF TimeInit
<1> QED
  BY <1>1, <1>2, DeviceTimeAssumption DEF GpsSet, NtpSet, SettingExact, Naming, Setting

(* A second more does not turn a time into none.  *)
LEMMA TickDay == ASSUME StartsLate, DayInv, TIME_TimerIntHandler PROVE GpsSet' /\ NtpSet' /\ SettingExact' /\ Naming'
<1>1. ClockTypes /\ UsedWhileAssembled
  BY TimeTypeParts DEF DayInv, TimeInv, ClockInv
<1>2. /\ now < Start + MaxTicks /\ now' = now + 1 /\ sync' = sync /\ digit' = digit /\ reply' = reply
      /\ gps' = Second(gps) /\ ntp' = IF inUse THEN ntp ELSE Second(ntp)
      /\ UNCHANGED <<sdAt, source, dated, looked, overlap>>
  BY DEF TIME_TimerIntHandler, syncVars, sdVars
<1>3. ASSUME NEW c \in Clocks PROVE Second(c).elapsed = c.elapsed + 1 /\ Second(c).last = c.last
  BY DEF Second, Clocks
<1>4. gps'.elapsed = gps.elapsed + 1 /\ gps'.last = gps.last
  BY <1>1, <1>2, <1>3 DEF ClockTypes
<1>5. CASE sync = "assemble"
  <2>1. ntp' = ntp
    BY <1>1, <1>2, <1>5 DEF UsedWhileAssembled
  <2>2. GpsSet' /\ NtpSet' /\ SettingExact'
    BY <1>1, <1>2, <1>4, <1>5, <2>1, DeviceTimeAssumption
    DEF DayInv, GpsSet, NtpSet, SettingExact, Setting, ClockTypes, Clocks
  <2>3. sdAt = "sleep" \/ overlap
    BY <1>5 DEF DayInv, Naming, Setting
  <2>4. Naming'
    BY <1>2, <2>3, Zenon DEF Naming
  <2> QED
    BY <2>2, <2>4
<1>6. CASE sync # "assemble"
  <2>1. ntp' = Second(ntp)
    BY <1>1, <1>2, <1>6 DEF UsedWhileAssembled
  <2>2. ntp'.elapsed = ntp.elapsed + 1 /\ ntp'.last = ntp.last
    BY <1>1, <1>3, <2>1 DEF ClockTypes
  <2>3. GpsSet' /\ NtpSet' /\ SettingExact'
    BY <1>1, <1>2, <1>4, <1>6, <2>2, DeviceTimeAssumption
    DEF DayInv, GpsSet, NtpSet, SettingExact, Setting, ClockTypes, Clocks
  <2>4. (TIME_Exists(ntp) => TIME_Exists(ntp')) /\ (TIME_Exists(gps) => TIME_Exists(gps'))
    BY <1>1, <1>4, <2>2, DeviceTimeAssumption DEF TIME_Exists, ClockTypes, Clocks
  <2>5. Naming'
    <3>1. Setting' = Setting /\ (Exist => Exist')
      BY <1>2, <2>4 DEF Setting, Exist, TIME_Exists
    <3>2. TIME_Exists(IF source = "ntp" THEN ntp ELSE gps) => TIME_Exists(IF source = "ntp" THEN ntp' ELSE gps')
      BY <2>4
    <3>3. ntp'.last = ntp.last /\ gps'.last = gps.last
      BY <1>4, <2>2
    <3> QED
      BY <1>2, <3>1, <3>2, <3>3 DEF DayInv, Naming, TIME_Exists
  <2> QED
    BY <2>3, <2>5
<1> QED
  BY <1>5, <1>6

(* The receiver's answer is a time that exists.  *)
LEMMA RtcDay == ASSUME StartsLate, DayInv, RtcAnswer PROVE GpsSet' /\ NtpSet' /\ SettingExact' /\ Naming'
<1>1. ClockTypes /\ now \in Nat /\ now >= Start /\ Start \in Nat /\ TIME2017 \in Nat
  BY TimeTypeParts, DeviceTimeAssumption DEF DayInv, TimeInv, ClockTypes, GpsSet
<1>2. /\ gps' = Stamped(gps, Told(now))
      /\ UNCHANGED <<now, ntp, sync, digit, reply, sdAt, source, dated, looked, overlap>>
  BY DEF RtcAnswer, syncVars, sdVars
<1>3. gps'.elapsed = Told(now) /\ gps'.last = Told(now) /\ Told(now) \in Nat /\ Told(now) >= now
  BY <1>1, <1>2, ToldType DEF Stamped
<1>4. GpsSet' /\ NtpSet' /\ SettingExact'
  BY <1>1, <1>2, <1>3 DEF StartsLate, DayInv, GpsSet, NtpSet, SettingExact, Setting
<1>5. TIME_Exists(gps')
  BY <1>1, <1>3 DEF StartsLate, TIME_Exists
<1>6. Naming'
  <2>1. Setting' = Setting /\ Exist' /\ gps'.last > 0
    BY <1>1, <1>2, <1>3, <1>5 DEF StartsLate, Setting, Exist, TIME_Exists
  <2>2. TIME_Exists(IF source = "ntp" THEN ntp ELSE gps) => TIME_Exists(IF source = "ntp" THEN ntp ELSE gps')
    BY <1>5
  <2> QED
    BY <1>2, <2>1, <2>2 DEF DayInv, Naming, TIME_Exists
<1> QED
  BY <1>4, <1>6

-------------------------------------------------------------------------------
(* vSDStoreTask: the clock it chooses has a time whenever one of them has. *)
LEMMA ChosenExists ==
  ASSUME StartsLate, ClockTypes, GpsSet, NtpSet, ~Setting, Exist
  PROVE  TIME_Exists(IF TIME_BestTimeSource = "ntp" THEN ntp ELSE gps)
<1>1. /\ ntp.last \in Nat /\ gps.last \in Nat /\ ntp.elapsed \in Nat /\ gps.elapsed \in Nat
      /\ Start \in Nat /\ TIME2017 \in Nat /\ now \in Nat
  BY DeviceTimeAssumption DEF ClockTypes, Clocks
<1>2. CASE ntp.last > gps.last
  <2>1. TIME_BestTimeSource = "ntp" /\ ntp.elapsed >= Start
    BY <1>1, <1>2 DEF TIME_BestTimeSource, NtpSet
  <2> QED
    BY <1>1, <2>1 DEF StartsLate, TIME_Exists
<1>3. CASE ~(ntp.last > gps.last)
  <2>1. TIME_BestTimeSource = "gps"
    BY <1>3 DEF TIME_BestTimeSource
  <2>2. CASE gps.last = 0
    <3>1. gps.elapsed = now - Start /\ ntp.elapsed <= now - Start
      BY <1>1, <1>3, <2>2 DEF GpsSet, NtpSet
    <3> QED
      BY <1>1, <2>1, <3>1 DEF Exist, TIME_Exists
  <2>3. CASE gps.last # 0
    BY <1>1, <2>1, <2>3 DEF GpsSet, StartsLate, TIME_Exists
  <2> QED
    BY <2>2, <2>3
<1> QED
  BY <1>2, <1>3

LEMMA SdDay == ASSUME StartsLate, DayInv, vSDStoreTask PROVE GpsSet' /\ NtpSet' /\ SettingExact' /\ Naming'
<1>1. ClockTypes /\ GpsSet /\ NtpSet /\ SettingExact /\ Naming
  BY TimeTypeParts DEF DayInv, TimeInv
<1>2. UNCHANGED <<now, ntp, gps, sync, digit, reply>>
  BY DEF vSDStoreTask, SdWakes, AskExists, ChooseSource, TIME_GetDateFromSource, SdAppends, SdStep,
     clockVars, syncVars
<1>3. GpsSet' /\ NtpSet' /\ SettingExact'
  BY <1>1, <1>2 DEF GpsSet, NtpSet, SettingExact, Setting
<1>4. Setting' = Setting /\ Exist' = Exist
  BY <1>2 DEF Setting, Exist, TIME_Exists
<1>5. CASE SdWakes
  <2>1. overlap' = Setting /\ looked' = (ntp.last > 0 \/ gps.last > 0)
    BY <1>5, Zenon DEF SdWakes
  <2>2. sdAt' = "exists" /\ dated' = 0
    BY <1>5 DEF SdWakes, SdStep
  <2> QED
    BY <1>2, <1>3, <1>4, <2>1, <2>2 DEF Naming
<1>6. CASE AskExists
  <2>1. /\ sdAt = "exists" /\ sdAt' = IF Exist THEN "choose" ELSE "append"
        /\ UNCHANGED <<source, dated, looked, overlap>>
    BY <1>6 DEF AskExists, SdStep, Exist
  <2>2. ~overlap /\ looked => Exist
    <3>1. SUFFICES ASSUME ~overlap, looked PROVE Exist
      OBVIOUS
    <3>2. ~Setting /\ (ntp.last > 0 \/ gps.last > 0)
      BY <1>1, <2>1, <3>1 DEF Naming
    <3>3. ntp.elapsed >= Start \/ gps.elapsed >= Start
      BY <1>1, <3>2 DEF GpsSet, NtpSet, ClockTypes, Clocks
    <3> QED
      BY <1>1, <3>3, DeviceTimeAssumption DEF StartsLate, Exist, TIME_Exists, ClockTypes, Clocks
  <2>3. Naming'
    BY <1>1, <1>2, <1>4, <2>1, <2>2 DEF Naming
  <2> QED
    BY <1>3, <2>3
<1>7. CASE ChooseSource
  <2>1. /\ sdAt = "choose" /\ sdAt' = "convert" /\ source' = TIME_BestTimeSource
        /\ UNCHANGED <<dated, looked, overlap>>
    BY <1>7 DEF ChooseSource, SdStep
  <2>2. ~overlap => TIME_Exists(IF TIME_BestTimeSource = "ntp" THEN ntp ELSE gps)
    BY <1>1, <2>1, ChosenExists DEF Naming
  <2>3. ~overlap => TIME_Exists(IF source' = "ntp" THEN ntp' ELSE gps')
    BY <1>2, <2>1, <2>2
  <2>4. Naming'
    BY <1>1, <1>2, <1>4, <2>1, <2>3 DEF Naming, TIME_Exists
  <2> QED
    BY <1>3, <2>4
<1>8. CASE TIME_GetDateFromSource
  <2>1. /\ sdAt = "convert" /\ sdAt' = "append" /\ dated' = IF source = "ntp" THEN ntp.elapsed ELSE gps.elapsed
        /\ UNCHANGED <<source, looked, overlap>>
    BY <1>8 DEF TIME_GetDateFromSource, SdStep
  <2>2. ~overlap => dated' > TIME2017
    BY <1>1, <2>1 DEF Naming, TIME_Exists
  <2>3. Naming'
    BY <1>1, <1>2, <1>4, <2>1, <2>2 DEF Naming
  <2> QED
    BY <1>3, <2>3
<1>9. CASE SdAppends
  BY <1>3, <1>9 DEF SdAppends, SdStep, Naming
<1> QED
  BY <1>5, <1>6, <1>7, <1>8, <1>9 DEF vSDStoreTask

-------------------------------------------------------------------------------
(* vSyncTime_NTP before and after it sets the clock.  *)
LEMMA QuietDay ==
  ASSUME DayInv, UNCHANGED <<now, ntp, gps, sdAt, source, dated, looked, overlap>>, ~Setting, ~Setting'
  PROVE  GpsSet' /\ NtpSet' /\ SettingExact' /\ Naming'
<1>1. GpsSet' /\ NtpSet' /\ SettingExact'
  BY DEF DayInv, GpsSet, NtpSet, SettingExact, Setting
<1>2. Exist' = Exist
  BY DEF Exist, TIME_Exists
<1>3. Naming'
  BY <1>2 DEF DayInv, Naming, TIME_Exists
<1> QED
  BY <1>1, <1>3

(* While it sets the clock, nothing is said of vSDStoreTask.  *)
LEMMA SettingDay ==
  ASSUME DayInv, Setting, UNCHANGED <<now, gps, sdAt, overlap>>
  PROVE  GpsSet' /\ Naming'
<1>1. sdAt = "sleep" \/ overlap
  BY DEF DayInv, Naming
<1> QED
  BY <1>1 DEF DayInv, GpsSet, Naming

LEMMA AnsweredDay ==
  ASSUME TimesFit, DayInv, RequestAnswered PROVE GpsSet' /\ NtpSet' /\ SettingExact' /\ Naming'
<1>1. /\ sync' = "assemble" /\ now' = now /\ gps' = gps /\ sdAt' = sdAt /\ reply' = now /\ digit' = 1
      /\ ntp' = [ntp EXCEPT !.elapsed = Byte(now, 1)]
  BY DEF RequestAnswered, SyncStep
<1>2. ClockTypes /\ GpsSet
  BY TimeTypeParts DEF DayInv, TimeInv
<1>3. 1 \in 1 .. Digits /\ now \in Nat /\ now <= Start + MaxTicks /\ now >= Start
  BY <1>2, DeviceTimeAssumption DEF ClockTypes, GpsSet
<1>4. Power(Digits - 1) \in Nat \ {0} /\ Base \in Nat
  BY <1>3, ByteType, DeviceTimeAssumption
<1>5. now < Base * Power(Digits - 1)
  <2>1. Base * Power(Digits - 1) \in Nat
    BY <1>4, TimesNat
  <2> QED
    BY <1>3, <2>1, DeviceTimeAssumption DEF TimesFit
<1>6. Byte(now, 1) = now \div Power(Digits - 1) /\ Byte(now, 1) \in Nat
  BY <1>3, <1>4, <1>5, FirstExact, DivNat
<1>7. ntp'.elapsed = now \div Power(Digits - 1)
  BY <1>1, <1>2, <1>6, WithElapsed DEF ClockTypes
<1>8. GpsSet' /\ NtpSet' /\ SettingExact'
  BY <1>1, <1>2, <1>3, <1>7 DEF GpsSet, NtpSet, SettingExact, Setting
<1>9. overlap' = (overlap \/ sdAt # "sleep")
  BY Zenon DEF RequestAnswered, Overlaps
<1>10. Naming'
  BY <1>1, <1>9 DEF Naming
<1> QED
  BY <1>8, <1>10

LEMMA AssembleDay == ASSUME DayInv, Assemble PROVE GpsSet' /\ NtpSet' /\ SettingExact' /\ Naming'
<1> DEFINE t == ntp.elapsed * Base + Byte(reply, digit + 1)
<1>1. /\ sync = "assemble" /\ sync' = "assemble" /\ now' = now /\ gps' = gps /\ sdAt' = sdAt
      /\ overlap' = overlap /\ reply' = reply /\ digit < Digits /\ digit' = digit + 1
      /\ ntp' = [ntp EXCEPT !.elapsed = t]
  BY DEF Assemble, SyncStep
<1>2. ClockTypes /\ SyncTypes /\ BytesBelow /\ SettingExact
  BY TimeTypeParts DEF DayInv, TimeInv, ClockInv
<1>3. /\ digit \in 1 .. Digits /\ reply \in Nat /\ reply >= Start
      /\ ntp.elapsed = reply \div Power(Digits - digit) /\ ntp.elapsed \in Nat
  BY <1>1, <1>2 DEF ClockTypes, Clocks, SyncTypes, BytesBelow, SettingExact
<1>4. t \in Nat /\ t = reply \div Power(Digits - (digit + 1))
  <2>1. t = reply \div Power(Digits - (digit + 1))
    BY <1>1, <1>3, AppendExact
  <2>2. digit + 1 \in 1 .. Digits
    BY <1>1, <1>3, DeviceTimeAssumption
  <2>3. reply \div Power(Digits - (digit + 1)) \in Nat
    BY <1>3, <2>2, ByteType
  <2> QED
    BY <2>1, <2>3
<1> HIDE DEF t
<1>5. ntp'.elapsed = reply' \div Power(Digits - digit')
  BY <1>1, <1>2, <1>4, WithElapsed DEF ClockTypes
<1>6. NtpSet' /\ SettingExact'
  BY <1>1, <1>3, <1>5 DEF NtpSet, SettingExact, Setting
<1>7. Setting
  BY <1>1 DEF Setting
<1> QED
  BY <1>1, <1>6, <1>7, SettingDay

(* The last byte: the clock is the time of the reply.  *)
LEMMA AssembledDay ==
  ASSUME DayInv, Assembled \/ _close_socket PROVE GpsSet' /\ NtpSet' /\ SettingExact' /\ Naming'
<1>1. /\ sync \in {"assemble", "close"} /\ now' = now /\ gps' = gps /\ ntp' = ntp /\ sdAt' = sdAt
      /\ overlap' = overlap
  BY DEF Assembled, _close_socket, SyncStep
<1>2. SyncTypes /\ SettingExact
  BY TimeTypeParts DEF DayInv, TimeInv
<1>3. Setting
  BY <1>1 DEF Setting
<1>4. CASE Assembled
  <2>1. sync = "assemble" /\ sync' = "close" /\ digit = Digits
    BY <1>4 DEF Assembled, SyncStep
  <2>2. Digits - digit = 0 /\ Power(0) = 1 /\ reply \in Nat
    BY <1>2, <2>1, DeviceTimeAssumption DEF Power, SyncTypes
  <2>3. ntp.elapsed = reply \div 1 /\ reply >= Start
    BY <1>2, <2>1, <2>2 DEF SettingExact
  <2>4. ntp.elapsed >= Start
    BY <2>2, <2>3
  <2>5. NtpSet' /\ SettingExact'
    BY <1>1, <2>1, <2>4 DEF NtpSet, SettingExact, Setting
  <2> QED
    BY <1>1, <1>3, <2>5, SettingDay
<1>5. CASE _close_socket
  <2>1. sync = "close" /\ sync' = "update" /\ reply' = ntp.elapsed
    BY <1>5 DEF _close_socket, SyncStep
  <2>2. NtpSet' /\ SettingExact'
    BY <1>1, <1>2, <2>1 DEF NtpSet, SettingExact, Setting
  <2> QED
    BY <1>1, <1>3, <2>2, SettingDay
<1> QED
  BY <1>4, <1>5

LEMMA UpdateDay ==
  ASSUME StartsLate, DayInv, UpdateElapsed \/ UpdateStamp
  PROVE  GpsSet' /\ NtpSet' /\ SettingExact' /\ Naming'
<1>1. sync \in {"update", "stamp"} /\ now' = now /\ gps' = gps /\ sdAt' = sdAt /\ overlap' = overlap
  BY DEF UpdateElapsed, UpdateStamp, SyncStep
<1>2. ClockTypes /\ SyncTypes /\ SettingExact
  BY TimeTypeParts DEF DayInv, TimeInv
<1>3. Setting
  BY <1>1 DEF Setting
<1>4. CASE UpdateElapsed
  <2>1. sync = "update" /\ sync' = "stamp" /\ ntp' = [ntp EXCEPT !.elapsed = reply]
    BY <1>4 DEF UpdateElapsed, SyncStep
  <2>2. ntp'.elapsed >= Start
    BY <1>2, <2>1, WithElapsed DEF ClockTypes, SyncTypes, SettingExact
  <2>3. NtpSet' /\ SettingExact'
    BY <2>1, <2>2 DEF NtpSet, SettingExact, Setting
  <2> QED
    BY <1>1, <1>3, <2>3, SettingDay
<1>5. CASE UpdateStamp
  <2>1. sync = "stamp" /\ sync' = "wait" /\ ntp' = Stamped(ntp, ntp.elapsed)
    BY <1>5 DEF UpdateStamp, SyncStep
  <2>2. ntp.elapsed >= Start /\ ntp.elapsed \in Nat /\ Start \in Nat /\ TIME2017 \in Nat
    BY <1>2, <2>1, DeviceTimeAssumption DEF ClockTypes, Clocks, SettingExact
  <2>3. ntp'.elapsed = ntp.elapsed /\ ntp'.last = ntp.elapsed
    BY <2>1 DEF Stamped
  <2>4. NtpSet' /\ SettingExact'
    BY <2>1, <2>2, <2>3 DEF StartsLate, NtpSet, SettingExact, Setting
  <2> QED
    BY <1>1, <1>3, <2>4, SettingDay
<1> QED
  BY <1>4, <1>5

LEMMA SyncDay ==
  ASSUME StartsLate, TimesFit, DayInv, TIME_SyncNTP PROVE GpsSet' /\ NtpSet' /\ SettingExact' /\ Naming'
<1>1. CASE BeginSync \/ NoInternet \/ SyncFailed
  BY <1>1, QuietDay DEF BeginSync, NoInternet, SyncFailed, SyncStep, Setting
<1>2. CASE SocketFails \/ LookupFails \/ OptionFails \/ _open_socket \/ RequestFails
  <2>1. UNCHANGED <<now, ntp, gps, sdAt, source, dated, looked, overlap>>
    BY <1>2 DEF SocketFails, LookupFails, OptionFails, _open_socket, RequestFails, Trying, sdVars
  <2>2. ~Setting /\ ~Setting'
    BY <1>2 DEF SocketFails, LookupFails, OptionFails, _open_socket, RequestFails, GiveUp, Setting
  <2> QED
    BY <2>1, <2>2, QuietDay
<1> QED
  BY <1>1, <1>2, AnsweredDay, AssembleDay, AssembledDay, UpdateDay DEF TIME_SyncNTP

LEMMA NextDay == ASSUME StartsLate, TimesFit PROVE DayInv /\ [TimeNext]_timeVars => DayInv'
<1> SUFFICES ASSUME DayInv, [TimeNext]_timeVars PROVE DayInv'
  OBVIOUS
<1>1. TimeInv'
  BY TimeNextInv DEF DayInv
<1>2. CASE UNCHANGED timeVars
  <2>1. UNCHANGED <<now, ntp, gps, sync, digit, reply, sdAt, source, dated, looked, overlap>>
    BY <1>2 DEF timeVars, clockVars, syncVars, sdVars
  <2>2. GpsSet' /\ NtpSet' /\ SettingExact'
    BY <2>1 DEF DayInv, GpsSet, NtpSet, SettingExact, Setting
  <2>3. Naming'
    BY <2>1 DEF DayInv, Naming, Setting, Exist, TIME_Exists
  <2> QED
    BY <1>1, <2>2, <2>3 DEF DayInv
<1>3. CASE TimeNext
  <2>1. GpsSet' /\ NtpSet' /\ SettingExact' /\ Naming'
    BY <1>3, TickDay, RtcDay, SdDay, SyncDay DEF TimeNext
  <2> QED
    BY <1>1, <2>1 DEF DayInv
<1> QED
  BY <1>2, <1>3

(* On a node that is started after 2017, with timestamps that hold every   *)
(* time, a data point goes to NODATE only if no clock was ever set, and is *)
(* filed under a time that exists: whatever comes between the three looks  *)
(* vSDStoreTask takes at the clocks, but a synchronisation that sets one.  *)
THEOREM FilesNamedByTheDay ==
  ASSUME Start > TIME2017, Start + MaxTicks < Base * Power(Digits - 1)
  PROVE  TimeSpec => []DayNamed
<1>1. StartsLate /\ TimesFit
  BY DEF StartsLate, TimesFit
<1>2. TimeInit => DayInv
  BY TimeInitInv, InitDay DEF DayInv
<1>3. DayInv /\ [TimeNext]_timeVars => DayInv'
  BY <1>1, NextDay
<1>4. DayInv => DayNamed
  BY DEF DayInv, Naming, DayNamed
<1> QED
  BY <1>2, <1>3, <1>4, PTL DEF TimeSpec

------------------------------------------------------------------------------
(***************************************************************************)
(* Proofs about GpsReceiver, for every length of the ring, of its index    *)
(* and of a sentence, and any number of sentences and missed characters.   *)
(***************************************************************************)

SentChars == Nat \X (Kinds \cup {"none"}) \X Nat

GpsTypeOK ==
  /\ g_ucGPSRingBuf \in [0 .. MaxLine - 1 -> SentChars]
  /\ ucRingBufIndex \in 0 .. IndexSpan - 1
  /\ uiTransStart \in 0 .. IndexSpan - 1
  /\ sending \in [no : Nat, kind : Kinds \cup {"none"}, pos : 1 .. SentLen + 1]
  /\ from \in 0 .. IndexSpan - 1
  /\ parsed \in Nat
  /\ bFoundMoney \in BOOLEAN /\ intact \in BOOLEAN

(* The places the index does not reach are never written.  *)
BeyondIndex == \A i \in IndexSpan .. MaxLine - 1 : g_ucGPSRingBuf[i] = Nul

(* Nothing of a sentence is in the ring before it is sent, and none is     *)
(* parsed before its last character.                                       *)
NothingEarly ==
  /\ \A i \in 0 .. MaxLine - 1 : g_ucGPSRingBuf[i][1] <= sending.no
  /\ parsed <= sending.no
  /\ sending.pos <= SentLen => parsed < sending.no

WithinIndex == from + SentLen <= IndexSpan

(* Before a sentence, and within one of which no character was missed: the *)
(* '$' is found, and what came so far lies behind it.                      *)
Collected ==
  intact /\ sending.pos <= SentLen =>
    /\ sending.pos = 1 => ucRingBufIndex = from
    /\ sending.pos > 1 => bFoundMoney /\ uiTransStart = from
    /\ WithinIndex =>
         /\ ucRingBufIndex = from + sending.pos - 1
         /\ \A k \in 1 .. sending.pos - 1 :
              g_ucGPSRingBuf[from + k - 1] = <<sending.no, sending.kind, k>>

GpsInv == GpsTypeOK /\ BeyondIndex /\ NothingEarly /\ Collected /\ SentencesParsed

-----------------------------------------------------------------------------
(* Operators.  *)

(* The place of a character of a packet in the ring.  *)
LEMMA PlaceInRing ==
  ASSUME NEW i \in Nat
  PROVE  i % MaxLine \in 0 .. MaxLine - 1 /\ (i < MaxLine => i % MaxLine = i)
BY GpsAssumption

LEMMA IndexInSpan ==
  ASSUME NEW i \in Nat
  PROVE  i % IndexSpan \in 0 .. IndexSpan - 1 /\ (i < IndexSpan => i % IndexSpan = i)
BY GpsAssumption

(* A set of numbers has a least one.  *)
LEMMA HasLeast ==
  ASSUME NEW S \in SUBSET Nat, S # {}
  PROVE  \E m \in S : \A n \in S : m <= n
<1> DEFINE R == OpToRel(<, Nat)
<1>1. IsWellFoundedOn(R, Nat)
  BY NatLessThanWellFounded
<1>2. \A m, n \in Nat : m < n => <<m, n>> \in R
  BY DEF OpToRel
<1> HIDE DEF R
<1>3. PICK m \in S : \A n \in S : ~(<<n, m>> \in R)
  BY <1>1, WFMin
<1>4. \A n \in S : ~(n < m)
  BY <1>2, <1>3
<1> QED
  BY <1>4

At(chars, i, k) == IF k = 1 THEN <<0, "none", 1>> ELSE chars[(i + k - 1) % MaxLine]

LineEnds(chars, i) == {n \in 2 .. MaxLine : Newline(At(chars, i, n))}

(* A packet ends with the first newline behind its '$'.  *)
LEMMA PacketIs ==
  ASSUME NEW chars, NEW i
  PROVE  IF LineEnds(chars, i) = {}
         THEN Packet(chars, i) = << >>
         ELSE \E last \in LineEnds(chars, i) :
                /\ \A e \in LineEnds(chars, i) : last <= e
                /\ Packet(chars, i) = [k \in 1 .. last |-> At(chars, i, k)]
<1> DEFINE E == LineEnds(chars, i)
           last == CHOOSE n \in E : \A e \in E : n <= e
<1>1. Packet(chars, i) = IF E = {} THEN << >> ELSE [k \in 1 .. last |-> At(chars, i, k)]
  BY DEF Packet, At, LineEnds
<1>2. E \in SUBSET Nat
  BY GpsAssumption DEF LineEnds
<1> HIDE DEF E
<1>3. E # {} => \E n \in E : \A e \in E : n <= e
  BY <1>2, HasLeast
<1>4. E # {} => last \in E /\ \A e \in E : last <= e
  BY <1>3
<1> HIDE DEF last
<1>5. CASE E = {}
  BY <1>1, <1>5 DEF E
<1>6. CASE E # {}
  BY <1>1, <1>4, <1>6 DEF E
<1> QED
  BY <1>5, <1>6

(* A packet of the length of a sentence has the characters of the ring     *)
(* behind its '$', from the second on.                                     *)
LEMMA PacketReads ==
  ASSUME NEW chars, NEW i, Len(Packet(chars, i)) = SentLen, NEW k \in 2 .. SentLen
  PROVE  Packet(chars, i)[k] = chars[(i + k - 1) % MaxLine]
<1>1. CASE LineEnds(chars, i) = {}
  <2>1. Len(Packet(chars, i)) = 0
    BY <1>1, PacketIs
  <2> QED
    BY <2>1, GpsAssumption
<1>2. CASE LineEnds(chars, i) # {}
  <2>1. PICK last \in LineEnds(chars, i) : Packet(chars, i) = [n \in 1 .. last |-> At(chars, i, n)]
    BY <1>2, PacketIs
  <2>2. last \in Nat
    BY GpsAssumption DEF LineEnds
  <2>3. last = SentLen
    BY <2>1, <2>2
  <2>4. Packet(chars, i)[k] = At(chars, i, k)
    BY <2>1, <2>3
  <2> QED
    BY <2>4 DEF At
<1> QED
  BY <1>1, <1>2

(* The last character of a sentence that fits is read back with the rest.  *)
LEMMA WholeSentence ==
  ASSUME NEW chars \in [0 .. MaxLine - 1 -> SentChars], NEW i \in 0 .. IndexSpan - 1,
         i + SentLen <= IndexSpan, NEW no \in Nat, NEW kind \in Kinds \cup {"none"},
         \A k \in 1 .. SentLen : chars[i + k - 1] = <<no, kind, k>>
  PROVE  _checksum_matches(Packet(chars, i)) /\ Packet(chars, i)[2] = <<no, kind, 2>>
<1>1. SentLen \in 2 .. MaxLine /\ i + SentLen < MaxLine + 1 /\ i \in Nat
  BY GpsAssumption
<1>2. \A k \in 2 .. SentLen : At(chars, i, k) = <<no, kind, k>>
  <2> TAKE k \in 2 .. SentLen
  <2>1. i + k - 1 \in Nat /\ i + k - 1 < MaxLine
    BY <1>1, GpsAssumption
  <2>2. (i + k - 1) % MaxLine = i + k - 1
    BY <2>1, PlaceInRing
  <2>3. k # 1 /\ k \in 1 .. SentLen
    OBVIOUS
  <2> QED
    BY <2>2, <2>3 DEF At
<1>3. SentLen \in LineEnds(chars, i)
  <2>1. SentLen \in 2 .. SentLen
    BY GpsAssumption
  <2>2. Newline(At(chars, i, SentLen))
    BY <1>2, <2>1 DEF Newline
  <2> QED
    BY <1>1, <2>2 DEF LineEnds
<1>4. \A n \in LineEnds(chars, i) : SentLen <= n
  <2> SUFFICES ASSUME NEW n \in LineEnds(chars, i), ~(SentLen <= n) PROVE FALSE
    OBVIOUS
  <2>1. n \in 2 .. SentLen /\ n # SentLen
    BY GpsAssumption DEF LineEnds
  <2>2. At(chars, i, n)[3] = n
    BY <1>2, <2>1
  <2> QED
    BY <2>1, <2>2 DEF LineEnds, Newline
<1>5. Packet(chars, i) = [k \in 1 .. SentLen |-> At(chars, i, k)]
  <2>1. PICK last \in LineEnds(chars, i) :
          /\ \A e \in LineEnds(chars, i) : last <= e
          /\ Packet(chars, i) = [k \in 1 .. last |-> At(chars, i, k)]
    BY <1>3, PacketIs
  <2>2. last \in Nat /\ SentLen \in Nat
    BY GpsAssumption DEF LineEnds
  <2>3. last <= SentLen /\ SentLen <= last
    BY <1>3, <1>4, <2>1
  <2>4. last = SentLen
    BY <2>2, <2>3
  <2> QED
    BY <2>1, <2>4
<1>6. Len(Packet(chars, i)) = SentLen
  BY <1>1, <1>5
<1>7. \A k \in 2 .. SentLen : Packet(chars, i)[k] = <<no, kind, k>>
  BY <1>1, <1>2, <1>5
<1>8. 2 \in 2 .. SentLen
  BY <1>1
<1>9. Packet(chars, i)[2] = <<no, kind, 2>>
  BY <1>7, <1>8
<1> QED
  BY <1>6, <1>7, <1>9 DEF _checksum_matches

(* One that runs over the end of the index is never whole: the parser      *)
(* reads a place that is never written.                                    *)
LEMMA BrokenSentence ==
  ASSUME NEW chars, NEW i \in 0 .. IndexSpan - 1, ~(i + SentLen <= IndexSpan),
         \A j \in IndexSpan .. MaxLine - 1 : chars[j] = Nul
  PROVE  ~_checksum_matches(Packet(chars, i))
<1> SUFFICES ASSUME _checksum_matches(Packet(chars, i)) PROVE FALSE
  OBVIOUS
<1> DEFINE k == IndexSpan - i + 1
<1>1. k \in 2 .. SentLen /\ i + k - 1 = IndexSpan /\ IndexSpan \in Nat /\ IndexSpan < MaxLine
  BY GpsAssumption
<1> HIDE DEF k
<1>2. Packet(chars, i)[k] = chars[(i + k - 1) % MaxLine]
  BY <1>1, PacketReads DEF _checksum_matches
<1>3. (i + k - 1) % MaxLine = IndexSpan
  BY <1>1, PlaceInRing
<1>4. Packet(chars, i)[k] = Nul
  BY <1>1, <1>2, <1>3, GpsAssumption
<1>5. Packet(chars, i)[k][3] = k
  BY <1>1 DEF _checksum_matches
<1> QED
  BY <1>1, <1>4, <1>5 DEF Nul

-----------------------------------------------------------------------------
(* The invariant.  *)

LEMMA InitGpsInv == GpsInit => GpsInv
<1> SUFFICES ASSUME GpsInit PROVE GpsInv
  OBVIOUS
<1>1. Nul \in SentChars /\ Nul[1] = 0
  BY DEF Nul, SentChars
<1>2. GpsTypeOK
  <2>1. SentLen + 1 \in 1 .. SentLen + 1 /\ 0 \in 0 .. IndexSpan - 1 /\ 0 \in Nat
    BY GpsAssumption
  <2>2. sending \in [no : Nat, kind : Kinds \cup {"none"}, pos : 1 .. SentLen + 1]
    BY <2>1 DEF GpsInit
  <2>3. g_ucGPSRingBuf \in [0 .. MaxLine - 1 -> SentChars]
    BY <1>1 DEF GpsInit
  <2> QED
    BY <2>1, <2>2, <2>3 DEF GpsInit, GpsTypeOK
<1>3. BeyondIndex /\ NothingEarly
  BY <1>1, GpsAssumption DEF GpsInit, BeyondIndex, NothingEarly
<1>4. Collected /\ SentencesParsed
  BY DEF GpsInit, Collected, SentencesParsed
<1> QED
  BY <1>2, <1>3, <1>4 DEF GpsInv

(* The '$' of a new sentence will go to where the index is.  *)
LEMMA BeginGps ==
  ASSUME GpsInv, BeginSentence
  PROVE  GpsInv'
<1>1. /\ sending'.no = sending.no + 1 /\ sending'.pos = 1 /\ sending'.kind \in Kinds
      /\ sending' \in [no : Nat, kind : Kinds \cup {"none"}, pos : 1 .. SentLen + 1]
      /\ from' = ucRingBufIndex /\ intact' = TRUE
      /\ UNCHANGED <<g_ucGPSRingBuf, ucRingBufIndex, uiTransStart, bFoundMoney, parsed>>
  BY GpsAssumption DEF BeginSentence, GpsInv, GpsTypeOK
<1>2. GpsTypeOK'
  BY <1>1 DEF GpsInv, GpsTypeOK
<1>3. BeyondIndex'
  BY <1>1 DEF GpsInv, BeyondIndex
<1>4. sending.no \in Nat /\ parsed \in Nat
      /\ \A i \in 0 .. MaxLine - 1 : g_ucGPSRingBuf[i][1] \in Nat
  BY DEF GpsInv, GpsTypeOK, SentChars
<1>5. NothingEarly'
  BY <1>1, <1>4 DEF GpsInv, NothingEarly
<1>6. Collected'
  BY <1>1, <1>2, GpsAssumption DEF Collected, GpsTypeOK
<1>7. SentencesParsed'
  BY <1>1, GpsAssumption DEF SentencesParsed
<1> QED
  BY <1>2, <1>3, <1>5, <1>6, <1>7 DEF GpsInv

(* A character of the sentence is gone.  *)
LEMMA SendingMoves ==
  ASSUME sending \in [no : Nat, kind : Kinds \cup {"none"}, pos : 1 .. SentLen + 1],
         sending.pos <= SentLen, sending' = [sending EXCEPT !.pos = sending.pos + 1]
  PROVE  /\ sending.pos \in 1 .. SentLen
         /\ sending' \in [no : Nat, kind : Kinds \cup {"none"}, pos : 1 .. SentLen + 1]
         /\ sending'.no = sending.no /\ sending'.kind = sending.kind
         /\ sending'.pos = sending.pos + 1
<1>1. sending.pos \in 1 .. SentLen + 1 /\ SentLen \in Nat
  BY GpsAssumption
<1>2. sending.pos \in 1 .. SentLen /\ sending.pos + 1 \in 1 .. SentLen + 1
  BY <1>1
<1> QED
  BY <1>2

LEMMA MissGps ==
  ASSUME GpsInv, MissCharacter
  PROVE  GpsInv'
<1>1. /\ sending' = [sending EXCEPT !.pos = sending.pos + 1] /\ sending.pos <= SentLen /\ intact' = FALSE
      /\ UNCHANGED <<g_ucGPSRingBuf, ucRingBufIndex, uiTransStart, bFoundMoney, parsed, from>>
  BY DEF MissCharacter, Nothing
<1>2. /\ sending' \in [no : Nat, kind : Kinds \cup {"none"}, pos : 1 .. SentLen + 1]
      /\ sending'.no = sending.no
  BY <1>1, SendingMoves DEF GpsInv, GpsTypeOK
<1>3. GpsTypeOK'
  BY <1>1, <1>2 DEF GpsInv, GpsTypeOK
<1>4. BeyondIndex' /\ NothingEarly'
  BY <1>1, <1>2 DEF GpsInv, BeyondIndex, NothingEarly
<1> QED
  BY <1>1, <1>3, <1>4 DEF GpsInv, Collected, SentencesParsed

(* What the interrupt handler does with a character of the sentence.  *)
LEMMA CharacterGps ==
  ASSUME GpsInv, Character
  PROVE  GpsInv'
<1> DEFINE q == sending.pos
           c == <<sending.no, sending.kind, q>>
           chars == [g_ucGPSRingBuf EXCEPT ![ucRingBufIndex] = c]
           start == IF q = 1 THEN ucRingBufIndex ELSE uiTransStart
           started == bFoundMoney \/ q = 1
           p == Packet(chars, start)
<1>1. /\ q \in 1 .. SentLen /\ sending' = [sending EXCEPT !.pos = q + 1]
      /\ UNCHANGED <<intact, from>>
  BY SendingMoves DEF Character, GpsInv, GpsTypeOK
<1>2. Money(c) = (q = 1) /\ Newline(c) = (q = SentLen)
  BY DEF Money, Newline
<1>3. _GPSIntHandler(c)
  BY DEF Character
<1>4. /\ g_ucGPSRingBuf' = chars
      /\ uiTransStart' = start
      /\ bFoundMoney' = (started /\ ~(q = SentLen))
      /\ ucRingBufIndex' = (ucRingBufIndex + 1) % IndexSpan
      /\ IF q = SentLen /\ started /\ _checksum_matches(p) THEN parsed' = p[2][1] ELSE parsed' = parsed
  BY <1>2, <1>3 DEF _GPSIntHandler, _parse_packet, Nothing
<1>5. /\ sending.no \in Nat /\ sending.kind \in Kinds \cup {"none"} /\ SentLen \in Nat
      /\ ucRingBufIndex \in 0 .. IndexSpan - 1 /\ uiTransStart \in 0 .. IndexSpan - 1
      /\ from \in 0 .. IndexSpan - 1 /\ parsed \in Nat /\ intact \in BOOLEAN
      /\ g_ucGPSRingBuf \in [0 .. MaxLine - 1 -> SentChars]
      /\ IndexSpan \in Nat /\ MaxLine \in Nat /\ IndexSpan < MaxLine /\ 1 < SentLen
  BY GpsAssumption DEF GpsInv, GpsTypeOK
<1>6. c \in SentChars /\ c[1] = sending.no
  BY <1>1, <1>5 DEF SentChars
<1>7. /\ sending' \in [no : Nat, kind : Kinds \cup {"none"}, pos : 1 .. SentLen + 1]
      /\ sending'.no = sending.no /\ sending'.kind = sending.kind /\ sending'.pos = q + 1
  BY SendingMoves DEF Character, GpsInv, GpsTypeOK
<1>8. chars \in [0 .. MaxLine - 1 -> SentChars] /\ start \in 0 .. IndexSpan - 1
  BY <1>5, <1>6
<1>9. /\ \A i \in 0 .. MaxLine - 1 : i # ucRingBufIndex => chars[i] = g_ucGPSRingBuf[i]
      /\ chars[ucRingBufIndex] = c
  BY <1>5
<1> HIDE DEF c, chars, start, started, p, q
<1>10. \A i \in 0 .. MaxLine - 1 : chars[i][1] \in Nat /\ chars[i][1] <= sending.no
  <2>1. \A i \in 0 .. MaxLine - 1 : g_ucGPSRingBuf[i][1] \in Nat /\ g_ucGPSRingBuf[i][1] <= sending.no
    BY <1>5 DEF SentChars, GpsInv, NothingEarly
  <2> QED
    BY <1>5, <1>6, <1>9, <2>1
<1>11. BeyondIndex'
  BY <1>4, <1>5, <1>9 DEF GpsInv, BeyondIndex
<1>12. parsed' \in Nat /\ parsed' <= sending.no
  <2>1. CASE parsed' = parsed
    BY <1>5, <2>1 DEF GpsInv, NothingEarly
  <2>2. CASE parsed' = p[2][1] /\ _checksum_matches(p)
    <3>1. p[2] = chars[(start + 2 - 1) % MaxLine]
      <4>1. 2 \in 2 .. SentLen
        BY <1>5
      <4> QED
        BY <2>2, <4>1, PacketReads DEF p, _checksum_matches
    <3>2. (start + 2 - 1) % MaxLine \in 0 .. MaxLine - 1
      <4>1. start + 2 - 1 \in Nat
        BY <1>5, <1>8
      <4> QED
        BY <4>1, PlaceInRing
    <3> QED
      BY <1>10, <2>2, <3>1, <3>2
  <2> QED
    BY <1>4, <2>1, <2>2
<1>13. GpsTypeOK'
  <2>1. ucRingBufIndex' \in 0 .. IndexSpan - 1
    <3>1. ucRingBufIndex + 1 \in Nat
      BY <1>5
    <3> QED
      BY <1>4, <3>1, IndexInSpan
  <2>2. bFoundMoney' \in BOOLEAN
    BY <1>4
  <2> QED
    BY <1>1, <1>4, <1>5, <1>7, <1>8, <1>12, <2>1, <2>2 DEF GpsTypeOK
<1>14. NothingEarly'
  <2>1. q + 1 <= SentLen => parsed' < sending.no
    BY <1>1, <1>4, <1>5 DEF GpsInv, NothingEarly, q
  <2> QED
    BY <1>4, <1>7, <1>10, <1>12, <2>1 DEF NothingEarly
<1>15. intact => start = from
  BY <1>1, <1>5 DEF GpsInv, Collected, start, q
<1>16. intact => started
  BY <1>1, <1>5 DEF GpsInv, Collected, started, q
<1>17. intact /\ WithinIndex =>
         /\ ucRingBufIndex = from + q - 1
         /\ \A k \in 1 .. q : chars[from + k - 1] = <<sending.no, sending.kind, k>>
  <2> SUFFICES ASSUME intact, WithinIndex
               PROVE  /\ ucRingBufIndex = from + q - 1
                      /\ \A k \in 1 .. q : chars[from + k - 1] = <<sending.no, sending.kind, k>>
    OBVIOUS
  <2>1. /\ ucRingBufIndex = from + q - 1
        /\ \A k \in 1 .. q - 1 : g_ucGPSRingBuf[from + k - 1] = <<sending.no, sending.kind, k>>
    BY <1>1 DEF GpsInv, Collected, q
  <2>2. ASSUME NEW k \in 1 .. q PROVE chars[from + k - 1] = <<sending.no, sending.kind, k>>
    <3>1. CASE k = q
      BY <1>9, <2>1, <3>1 DEF c
    <3>2. CASE k # q
      <4>1. from \in Nat /\ q \in Nat /\ k \in Nat /\ k < q /\ 1 <= k /\ from + q <= IndexSpan
        BY <1>1, <1>5, <2>2, <3>2 DEF WithinIndex
      <4>2. k \in 1 .. q - 1 /\ from + k - 1 \in 0 .. MaxLine - 1 /\ from + k - 1 # from + q - 1
        BY <1>5, <4>1
      <4> QED
        BY <1>9, <2>1, <4>2
    <3> QED
      BY <3>1, <3>2
  <2> QED
    BY <2>1, <2>2
<1>18. Collected'
  <2> SUFFICES ASSUME intact, q + 1 <= SentLen PROVE Collected'
    BY <1>1, <1>7 DEF Collected
  <2>1. bFoundMoney' /\ uiTransStart' = from'
    <3>1. q # SentLen
      BY <1>1, <1>5
    <3> QED
      BY <1>1, <1>4, <1>15, <1>16, <3>1
  <2>2. WithinIndex' => WithinIndex
    BY <1>1 DEF WithinIndex
  <2>3. ASSUME WithinIndex
        PROVE  /\ ucRingBufIndex' = from + (q + 1) - 1
               /\ \A k \in 1 .. (q + 1) - 1 : g_ucGPSRingBuf'[from + k - 1] = <<sending.no, sending.kind, k>>
    <3>1. ucRingBufIndex = from + q - 1
      BY <1>17, <2>3
    <3>2. ucRingBufIndex + 1 \in Nat /\ ucRingBufIndex + 1 < IndexSpan
      <4>1. from \in Nat /\ q \in Nat /\ from + q + 1 <= IndexSpan
        BY <1>1, <1>5, <2>3 DEF WithinIndex
      <4> QED
        BY <1>5, <3>1, <4>1
    <3>3. ucRingBufIndex' = ucRingBufIndex + 1
      BY <1>4, <3>2, IndexInSpan
    <3>4. (q + 1) - 1 = q /\ from + (q + 1) - 1 = (from + q - 1) + 1
      <4>1. from \in Nat /\ q \in Nat
        BY <1>1, <1>5
      <4> QED
        BY <4>1
    <3>5. ucRingBufIndex' = from + (q + 1) - 1
      BY <3>1, <3>3, <3>4
    <3> QED
      BY <1>4, <1>17, <2>3, <3>4, <3>5
  <2>4. q + 1 # 1
    BY <1>1
  <2> QED
    BY <1>1, <1>7, <2>1, <2>2, <2>3, <2>4 DEF Collected
<1>19. SentencesParsed'
  <2> SUFFICES ASSUME intact, q + 1 > SentLen
               PROVE  (parsed' = sending.no) = (from + SentLen <= IndexSpan)
    BY <1>1, <1>7 DEF SentencesParsed
  <2>1. q = SentLen /\ started /\ start = from
    BY <1>1, <1>5, <1>15, <1>16
  <2>2. parsed < sending.no
    BY <1>1 DEF GpsInv, NothingEarly, q
  <2>3. CASE WithinIndex
    <3>1. \A k \in 1 .. SentLen : chars[from + k - 1] = <<sending.no, sending.kind, k>>
      BY <1>17, <2>1, <2>3
    <3>2. _checksum_matches(p) /\ p[2] = <<sending.no, sending.kind, 2>>
      <4>1. from + SentLen <= IndexSpan
        BY <2>3 DEF WithinIndex
      <4>2. _checksum_matches(Packet(chars, from)) /\ Packet(chars, from)[2] = <<sending.no, sending.kind, 2>>
        <5>1. /\ chars \in [0 .. MaxLine - 1 -> SentChars] /\ from \in 0 .. IndexSpan - 1
              /\ sending.no \in Nat /\ sending.kind \in Kinds \cup {"none"}
          BY <1>5, <1>8
        <5> QED
          BY <3>1, <4>1, <5>1, WholeSentence
      <4> QED
        BY <2>1, <4>2 DEF p
    <3>3. parsed' = sending.no
      BY <1>4, <2>1, <3>2
    <3> QED
      BY <2>3, <3>3 DEF WithinIndex
  <2>4. CASE ~WithinIndex
    <3>1. \A j \in IndexSpan .. MaxLine - 1 : chars[j] = Nul
      BY <1>4, <1>11 DEF BeyondIndex
    <3>2. ~_checksum_matches(p)
      BY <1>5, <2>1, <2>4, <3>1, BrokenSentence DEF p, WithinIndex
    <3>3. parsed' = parsed
      BY <1>4, <3>2
    <3> QED
      BY <1>5, <2>2, <2>4, <3>3 DEF WithinIndex
  <2> QED
    BY <2>3, <2>4
<1> QED
  BY <1>11, <1>13, <1>14, <1>18, <1>19 DEF GpsInv

LEMMA GpsInvariance == GpsSpec => []GpsInv
<1>1. GpsInit => GpsInv
  BY InitGpsInv
<1>2. GpsInv /\ [GpsNext]_gpsVars => GpsInv'
  <2> SUFFICES ASSUME GpsInv, [GpsNext]_gpsVars PROVE GpsInv'
    OBVIOUS
  <2>1. CASE BeginSentence
    BY <2>1, BeginGps
  <2>2. CASE Character
    BY <2>2, CharacterGps
  <2>3. CASE MissCharacter
    BY <2>3, MissGps
  <2>4. CASE vSyncTime_GPS \/ UNCHANGED gpsVars
    <3>1. UNCHANGED <<g_ucGPSRingBuf, ucRingBufIndex, bFoundMoney, uiTransStart, sending, intact, from, parsed>>
      BY <2>4 DEF vSyncTime_GPS, ClearRtc, GPS_SendCommand, TransmitterFull, RtcReturns, RtcStep, gpsVars
    <3> QED
      BY <3>1 DEF GpsInv, GpsTypeOK, BeyondIndex, NothingEarly, Collected, WithinIndex, SentencesParsed
  <2> QED
    BY <2>1, <2>2, <2>3, <2>4 DEF GpsNext
<1> QED
  BY <1>1, <1>2, PTL DEF GpsSpec

(* A sentence of which the interrupt missed no character is parsed exactly *)
(* if it does not run over the end of the byte-wide index, whatever was    *)
(* sent, missed or broken off before it.                                   *)
THEOREM WholeSentencesAreParsed == GpsSpec => []SentencesParsed
<1>1. GpsInv => SentencesParsed
  BY DEF GpsInv
<1> QED
  BY <1>1, GpsInvariance, PTL

------------------------------------------------------------------------------
(***************************************************************************)
(* Proofs about ScanPage: whatever a scan finds, and however often the     *)
(* page asks for its tokens.                                               *)
(***************************************************************************)

Found == [ssid : DOMAIN SsidLen, rssi : Int]
Entry == [ssid : DOMAIN SsidLen, rssi : Int, len : 0 .. 32]
ListItem == [index : Nat, comma : BOOLEAN, end : Int]

PageTypeOK ==
  /\ found \in Seq(Found) /\ netEntries \in Seq(Entry)
  /\ page \in {"off", "compare", "sort", "idle", "list1", "list2"}
  /\ tmp1 \in Nat /\ tmp2 \in Nat /\ ptr \in Int
  /\ token1 \in Seq(ListItem) /\ token2 \in Seq(ListItem)

Live(i) == netEntries[i].len # 0

(* What is true of the entries in any order: where an entry comes from,    *)
(* and that the best of each name is there.                                *)
Genuine ==
  \A i \in DOMAIN netEntries :
    LET e == netEntries[i]
    IN /\ Live(i) => e.ssid # Hidden /\ e.len = SsidLen[e.ssid] /\ e.rssi > -128
       /\ ~Live(i) /\ e.ssid # Hidden => e.rssi = -128
       /\ Live(i) \/ e.ssid = Hidden => \E j \in DOMAIN found : found[j].ssid = e.ssid /\ found[j].rssi = e.rssi

BestIsLive ==
  \A j \in DOMAIN found : found[j].ssid # Hidden =>
    \E i \in DOMAIN netEntries :
      Live(i) /\ netEntries[i].ssid = found[j].ssid /\ netEntries[i].rssi >= found[j].rssi

(* The pairs that the loops have been through.  *)
Compared(i, j) ==
  \/ page \notin {"off", "compare"}
  \/ page = "compare" /\ (i < tmp1 \/ (i = tmp1 /\ j < tmp2))

NoTwins ==
  \A i, j \in DOMAIN netEntries : Compared(i, j) /\ Same(netEntries, i, j) => ~Live(i) \/ ~Live(j)

Sorted == page \in {"idle", "list1", "list2"}

InOrder ==
  Sorted => /\ \A i, j \in DOMAIN netEntries : i < j => netEntries[i].rssi >= netEntries[j].rssi
            /\ StrongestTells => Live(1)

Counters ==
  /\ page = "compare" => tmp1 \in DOMAIN netEntries /\ tmp2 \in DOMAIN netEntries
  /\ page \in {"list1", "list2"} => tmp1 \in 1 .. Len(netEntries) + 1
  /\ IF page = "off" THEN found = <<>> /\ netEntries = <<>> ELSE found \in Scans \ {<<>>}
  /\ ~Sorted => token1 = <<>> /\ token2 = <<>> /\ gets = {} /\ tokens = {}

(* A list in the making: of live entries in their order, as far as there   *)
(* is room.                                                                *)
Written(list) ==
  /\ \A k \in DOMAIN list :
       /\ list[k].index \in DOMAIN netEntries /\ Live(list[k].index)
       /\ StrongestTells => list[k].comma = (k > 1)
       /\ list[k].end <= 61
  /\ \A k, l \in DOMAIN list : k < l => list[k].index < list[l].index

(* The entries before the m-th that are in none of the lists had no room.  *)
Exhausted(list, listed, m) ==
  \A i \in DOMAIN netEntries : i < m /\ Live(i) /\ i \notin listed => ~Fits(End(list), netEntries[i])

Upto(token) == IF page = token THEN tmp1 ELSE Len(netEntries) + 1

Lists ==
  /\ Written(token1) /\ Written(token2)
  /\ Indices(token1) \cap Indices(token2) = {}
  /\ 1 \notin tokens => token1 = <<>>
  /\ 2 \notin tokens => token2 = <<>>
  /\ 1 \in tokens => Exhausted(token1, Indices(token1), Upto("list1"))
  /\ 2 \in tokens => Exhausted(token2, Indices(token1) \cup Indices(token2), Upto("list2"))

Making1 ==
  page = "list1" =>
    /\ ptr = End(token1) /\ gets = Indices(token1) /\ token2 = <<>> /\ tokens = {1}
    /\ \A i \in Indices(token1) : i < tmp1
    /\ StrongestTells => (token1 = <<>> <=> tmp1 = 1)

Making2 ==
  page = "list2" =>
    /\ ptr = End(token2) /\ gets = Indices(token1) /\ 2 \in tokens
    /\ \A i \in Indices(token2) : i < tmp1

Waiting == page = "idle" => gets \in {{}, Indices(token1)}

EntriesInv == Genuine /\ BestIsLive /\ NoTwins /\ InOrder
TokensInv == Lists /\ Making1 /\ Making2 /\ Waiting
PageInv == PageTypeOK /\ Counters /\ EntriesInv /\ TokensInv

-----------------------------------------------------------------------------
(* The entries. *)

LEMMA InitPage == PageInit => PageInv
<1> SUFFICES ASSUME PageInit PROVE PageInv
  OBVIOUS
<1>1. netEntries = <<>> /\ found = <<>> /\ token1 = <<>> /\ token2 = <<>>
  BY DEF PageInit
<1>2. PageTypeOK
  BY <1>1 DEF PageInit, PageTypeOK
<1>3. Counters /\ EntriesInv
  BY <1>1 DEF PageInit, Counters, EntriesInv, Genuine, BestIsLive, NoTwins, InOrder, Sorted
<1>4. TokensInv
  BY <1>1 DEF PageInit, TokensInv, Lists, Making1, Making2, Waiting, Written, Indices
<1> QED
  BY <1>2, <1>3, <1>4 DEF PageInv

(* What a scan finds becomes the entries.  *)
LEMMA ScanEntries == ASSUME PageInv, Wlan_Scan PROVE PageInv'
<1>1. PICK s \in Scans \ {<<>>} : found' = s /\ netEntries' = [i \in DOMAIN s |-> EntryOf(s[i])]
  BY DEF Wlan_Scan
<1>2. /\ page' = "compare" /\ tmp1' = 1 /\ tmp2' = 1 /\ ptr' = ptr /\ tokens' = tokens
      /\ token1' = token1 /\ token2' = token2 /\ gets' = gets /\ page = "off"
  BY DEF Wlan_Scan, listVars
<1>3. s \in Seq(Found) /\ \A i \in DOMAIN s : s[i] \in Found /\ s[i].rssi > -128
  <2>1. s \in Seq(Found) /\ \A i \in DOMAIN s : s[i].rssi > -128
    BY ScanAssumption DEF Found
  <2> QED
    BY <2>1
<1>4. \A f \in Found : EntryOf(f) \in Entry
  BY ScanAssumption DEF Found, Entry, EntryOf
<1>5. DOMAIN s = 1 .. Len(s) /\ Len(s) \in Nat /\ Len(s) # 0
  BY <1>1, <1>3
<1>6. netEntries' \in Seq(Entry) /\ Len(netEntries') = Len(s) /\ DOMAIN netEntries' = DOMAIN s
  BY <1>1, <1>3, <1>4, <1>5
<1>7. PageTypeOK'
  BY <1>1, <1>2, <1>3, <1>6 DEF PageInv, PageTypeOK
<1>8. \A i \in DOMAIN s : netEntries'[i] = EntryOf(s[i])
  BY <1>1
<1>9. Genuine'
  BY <1>1, <1>3, <1>6, <1>8, ScanAssumption DEF Genuine, Live, EntryOf, Found
<1>10. BestIsLive'
  BY <1>1, <1>3, <1>6, <1>8, ScanAssumption DEF BestIsLive, Live, EntryOf, Found
<1>11. NoTwins'
  BY <1>2, <1>5, <1>6 DEF NoTwins, Compared
<1>12. InOrder' /\ Counters'
  BY <1>1, <1>2, <1>5, <1>6 DEF InOrder, Sorted, Counters, PageInv
<1>13. TokensInv'
  BY <1>2 DEF TokensInv, Lists, Making1, Making2, Waiting, Written, Indices, PageInv, Counters, Sorted
<1> QED
  BY <1>7, <1>9, <1>10, <1>11, <1>12, <1>13 DEF PageInv, EntriesInv

(* Of two entries of one name, the one received no better can be removed.  *)
LEMMA RemoveEntry ==
  ASSUME PageTypeOK, Genuine, BestIsLive, NEW i \in DOMAIN netEntries, NEW j \in DOMAIN netEntries,
         Same(netEntries, i, j), netEntries[i].rssi <= netEntries[j].rssi,
         netEntries' = [netEntries EXCEPT ![i] = Removed(@)], found' = found
  PROVE  /\ netEntries' \in Seq(Entry) /\ DOMAIN netEntries' = DOMAIN netEntries /\ Len(netEntries') = Len(netEntries)
         /\ Genuine' /\ BestIsLive' /\ netEntries'[i].len = 0
         /\ \A k \in DOMAIN netEntries : netEntries'[k].ssid = netEntries[k].ssid /\ (netEntries'[k].len # 0 => netEntries[k].len # 0)
<1>1. DOMAIN netEntries = 1 .. Len(netEntries) /\ Len(netEntries) \in Nat
      /\ \A k \in DOMAIN netEntries : netEntries[k] \in Entry
  BY DEF PageTypeOK
<1>2. \A e \in Entry : Removed(e) \in Entry /\ Removed(e).ssid = e.ssid /\ Removed(e).rssi = -128 /\ Removed(e).len = 0
  BY DEF Entry, Removed
<1>3. netEntries' \in Seq(Entry) /\ DOMAIN netEntries' = DOMAIN netEntries /\ Len(netEntries') = Len(netEntries)
  BY <1>1, <1>2 DEF PageTypeOK
<1>4. netEntries'[i].ssid = netEntries[i].ssid /\ netEntries'[i].rssi = -128 /\ netEntries'[i].len = 0
  BY <1>1, <1>2
<1>5. \A k \in DOMAIN netEntries : k # i => netEntries'[k] = netEntries[k]
  BY <1>1
<1>6. Genuine'
  BY <1>3, <1>4, <1>5 DEF Genuine, Live, Same
<1>7. i # j /\ netEntries[i].ssid = netEntries[j].ssid /\ netEntries[i].ssid # Hidden
  BY DEF Same
<1>8. Live(i) => Live(j)
  BY <1>1, <1>7 DEF Genuine, Entry
<1>9. BestIsLive'
  <2> SUFFICES ASSUME NEW f \in DOMAIN found, found[f].ssid # Hidden
               PROVE  \E k \in DOMAIN netEntries' :
                        Live(k)' /\ netEntries'[k].ssid = found[f].ssid /\ netEntries'[k].rssi >= found[f].rssi
    BY DEF BestIsLive
  <2>1. PICK k \in DOMAIN netEntries :
          Live(k) /\ netEntries[k].ssid = found[f].ssid /\ netEntries[k].rssi >= found[f].rssi
    BY DEF BestIsLive
  <2>2. CASE k # i
    BY <1>3, <1>5, <2>1, <2>2 DEF Live
  <2>3. CASE k = i
    <3>1. Live(j) /\ netEntries'[j] = netEntries[j]
      BY <1>5, <1>7, <1>8, <2>1, <2>3
    <3>2. netEntries[j].rssi \in Int /\ netEntries[i].rssi \in Int /\ found[f].rssi \in Int
      <4>1. found[f] \in Found
        BY DEF PageTypeOK
      <4> QED
        BY <1>1, <4>1 DEF Entry, Found
    <3>3. netEntries[j].rssi >= found[f].rssi
      BY <2>1, <2>3, <3>2
    <3> QED
      BY <1>3, <1>7, <2>1, <2>3, <3>1, <3>3 DEF Live
  <2> QED
    BY <2>2, <2>3
<1> QED
  BY <1>3, <1>4, <1>5, <1>6, <1>9 DEF Live

(* One turn of the loops: a pair of entries is compared.  *)
LEMMA CompareEntries == ASSUME PageInv, _removeDuplicates PROVE PageInv'
<1> USE DEF PageInv, EntriesInv
<1>1. /\ page = "compare" /\ found' = found /\ ptr' = ptr /\ gets' = gets
      /\ token1' = token1 /\ token2' = token2 /\ tokens' = tokens
      /\ tmp1 \in DOMAIN netEntries /\ tmp2 \in DOMAIN netEntries
      /\ netEntries' = Compare(netEntries, tmp1, tmp2)
  BY DEF _removeDuplicates, Counters, listVars
<1>2. DOMAIN netEntries = 1 .. Len(netEntries) /\ Len(netEntries) \in Nat /\ tmp1 \in Nat /\ tmp2 \in Nat
      /\ \A k \in DOMAIN netEntries : netEntries[k] \in Entry
  BY DEF PageTypeOK
<1>3. /\ netEntries' \in Seq(Entry) /\ DOMAIN netEntries' = DOMAIN netEntries /\ Len(netEntries') = Len(netEntries)
      /\ Genuine' /\ BestIsLive'
      /\ \A k \in DOMAIN netEntries : netEntries'[k].ssid = netEntries[k].ssid /\ (netEntries'[k].len # 0 => netEntries[k].len # 0)
      /\ Same(netEntries, tmp1, tmp2) => netEntries'[tmp1].len = 0 \/ netEntries'[tmp2].len = 0
  <2>1. CASE ~Same(netEntries, tmp1, tmp2)
    <3>1. netEntries' = netEntries
      BY <1>1, <2>1 DEF Compare
    <3> QED
      BY <1>1, <2>1, <3>1 DEF PageTypeOK, Genuine, BestIsLive, Live
  <2>2. CASE Same(netEntries, tmp1, tmp2) /\ netEntries[tmp2].rssi > netEntries[tmp1].rssi
    <3>1. netEntries' = [netEntries EXCEPT ![tmp1] = Removed(@)] /\ netEntries[tmp1].rssi <= netEntries[tmp2].rssi
      BY <1>1, <1>2, <2>2 DEF Compare, Entry
    <3> QED
      BY <1>1, <2>2, <3>1, RemoveEntry
  <2>3. CASE Same(netEntries, tmp1, tmp2) /\ ~(netEntries[tmp2].rssi > netEntries[tmp1].rssi)
    <3>1. netEntries' = [netEntries EXCEPT ![tmp2] = Removed(@)] /\ netEntries[tmp2].rssi <= netEntries[tmp1].rssi
      BY <1>1, <1>2, <2>3 DEF Compare, Entry
    <3>2. Same(netEntries, tmp2, tmp1)
      BY <2>3 DEF Same
    <3> QED
      BY <1>1, <3>1, <3>2, RemoveEntry
  <2> QED
    BY <2>1, <2>2, <2>3
<1>4. \/ page' = "compare" /\ tmp1' = tmp1 /\ tmp2' = tmp2 + 1 /\ tmp2 < Len(netEntries)
      \/ page' = "compare" /\ tmp1' = tmp1 + 1 /\ tmp2' = 1 /\ tmp2 = Len(netEntries) /\ tmp1 < Len(netEntries)
      \/ page' = "sort" /\ tmp1' = tmp1 + 1 /\ tmp2' = 1 /\ tmp2 = Len(netEntries) /\ tmp1 = Len(netEntries)
  BY <1>1, <1>2 DEF _removeDuplicates
<1>5. PageTypeOK'
  <2>1. tmp1 + 1 \in Nat /\ tmp2 + 1 \in Nat
    BY <1>2
  <2>2. page' \in {"compare", "sort"}
    BY <1>4
  <2>3. tmp1' \in Nat /\ tmp2' \in Nat
    <3>1. tmp1 \in Nat /\ tmp2 \in Nat /\ 1 \in Nat
      BY <1>2
    <3>2. (tmp1' = tmp1 \/ tmp1' = tmp1 + 1) /\ (tmp2' = tmp2 + 1 \/ tmp2' = 1)
      BY <1>4
    <3> QED
      BY <2>1, <3>1, <3>2
  <2> QED
    BY <1>1, <1>3, <2>2, <2>3 DEF PageTypeOK
<1>6. Counters' /\ InOrder'
  BY <1>1, <1>2, <1>3, <1>4 DEF Counters, InOrder, Sorted
<1>7. NoTwins'
  <2> SUFFICES ASSUME NEW i \in DOMAIN netEntries, NEW j \in DOMAIN netEntries,
                      Compared(i, j)', Same(netEntries', i, j)
               PROVE  ~Live(i)' \/ ~Live(j)'
    BY <1>3 DEF NoTwins
  <2>1. Same(netEntries, i, j)
    BY <1>3 DEF Same
  <2>2. Compared(i, j) \/ (i = tmp1 /\ j = tmp2)
    BY <1>1, <1>2, <1>4 DEF Compared
  <2> QED
    BY <1>3, <2>1, <2>2 DEF NoTwins, Live
<1>8. TokensInv'
  BY <1>1, <1>4 DEF TokensInv, Lists, Making1, Making2, Waiting, Written, Indices, Counters, Sorted
<1> QED
  BY <1>3, <1>5, <1>6, <1>7, <1>8

(* Sorting: what is true of the entries in any order stays true.  *)
LEMMA SortEntries == ASSUME PageInv, _sortByRSSI PROVE PageInv'
<1> USE DEF PageInv, EntriesInv
<1> DEFINE n == Len(netEntries)
<1>1. PICK p \in [1 .. n -> 1 .. n] :
        /\ Onto(p, n) /\ \A i, k \in 1 .. n : i # k => p[i] # p[k]
        /\ \A i, k \in 1 .. n : i < k => netEntries[p[i]].rssi >= netEntries[p[k]].rssi
        /\ netEntries' = [i \in 1 .. n |-> netEntries[p[i]]]
  BY DEF _sortByRSSI
<1>2. /\ page = "sort" /\ page' = "idle" /\ found' = found /\ tmp1' = tmp1 /\ tmp2' = tmp2 /\ ptr' = ptr
      /\ gets' = {} /\ token1' = <<>> /\ token2' = <<>> /\ tokens' = {}
  BY DEF _sortByRSSI, listVars, Counters, Sorted
<1>3. DOMAIN netEntries = 1 .. n /\ n \in Nat /\ \A k \in DOMAIN netEntries : netEntries[k] \in Entry
  BY DEF PageTypeOK
<1>4. /\ netEntries' \in Seq(Entry) /\ DOMAIN netEntries' = 1 .. n /\ Len(netEntries') = n
      /\ \A i \in 1 .. n : p[i] \in 1 .. n /\ netEntries'[i] = netEntries[p[i]]
  <2> HIDE DEF n
  <2>1. \A i \in 1 .. n : p[i] \in 1 .. n /\ netEntries[p[i]] \in Entry
    BY <1>3
  <2>2. netEntries' = [i \in 1 .. n |-> netEntries[p[i]]]
    BY <1>1
  <2>3. netEntries' \in [1 .. n -> Entry] /\ \A i \in 1 .. n : netEntries'[i] = netEntries[p[i]]
    BY <2>1, <2>2
  <2>4. netEntries' \in Seq(Entry) /\ DOMAIN netEntries' = 1 .. n /\ Len(netEntries') = n
    BY <1>3, <2>3
  <2> QED BY <2>1, <2>3, <2>4
<1> HIDE DEF n
<1>5. PageTypeOK'
  BY <1>2, <1>4 DEF PageTypeOK
<1>6. Genuine'
  BY <1>2, <1>3, <1>4 DEF Genuine, Live
<1>7. BestIsLive'
  <2> SUFFICES ASSUME NEW f \in DOMAIN found, found[f].ssid # Hidden
               PROVE  \E k \in 1 .. n :
                        Live(k)' /\ netEntries'[k].ssid = found[f].ssid /\ netEntries'[k].rssi >= found[f].rssi
    BY <1>2, <1>4 DEF BestIsLive
  <2>1. PICK i \in 1 .. n : Live(i) /\ netEntries[i].ssid = found[f].ssid /\ netEntries[i].rssi >= found[f].rssi
    BY <1>3 DEF BestIsLive
  <2>2. PICK k \in 1 .. n : p[k] = i
    BY <1>1 DEF Onto
  <2> QED
    BY <1>4, <2>1, <2>2 DEF Live
<1>8. NoTwins'
  <2>1. \A i, j \in 1 .. n : Same(netEntries, i, j) => ~Live(i) \/ ~Live(j)
    BY <1>2, <1>3 DEF NoTwins, Compared
  <2> SUFFICES ASSUME NEW i \in 1 .. n, NEW j \in 1 .. n, Same(netEntries', i, j)
               PROVE  ~Live(i)' \/ ~Live(j)'
    BY <1>4 DEF NoTwins
  <2>2. Same(netEntries, p[i], p[j])
    BY <1>1, <1>4 DEF Same
  <2> QED
    BY <1>4, <2>1, <2>2 DEF Live
<1>9. InOrder'
  <2>1. \A i, j \in 1 .. n : i < j => netEntries'[i].rssi >= netEntries'[j].rssi
    BY <1>1, <1>4
  <2>2. ASSUME StrongestTells PROVE Live(1)'
    <3>1. PICK f \in DOMAIN found :
            found[f].ssid # Hidden /\ \A j \in DOMAIN found : found[j].ssid = Hidden => found[j].rssi < found[f].rssi
      BY <2>2 DEF StrongestTells
    <3>2. PICK w \in 1 .. n : Live(w)' /\ netEntries'[w].ssid = found[f].ssid /\ netEntries'[w].rssi >= found[f].rssi
      BY <1>2, <1>4, <1>7, <3>1 DEF BestIsLive
    <3>3. 1 \in 1 .. n
      BY <1>3, <3>2
    <3>4. \A i \in 1 .. n : netEntries'[i].rssi \in Int
      BY <1>3, <1>4 DEF Entry
    <3>5. \A f2 \in DOMAIN found : found[f2].rssi \in Int
      <4>1. \A f2 \in DOMAIN found : found[f2] \in Found
        BY DEF PageTypeOK
      <4> QED
        BY <4>1 DEF Found
    <3>6. netEntries'[1].rssi >= netEntries'[w].rssi
      BY <1>3, <2>1, <3>3, <3>4, <3>2
    <3>7. netEntries'[1].rssi > -128
      <4>1. netEntries'[w].rssi > -128
        BY <1>4, <1>6, <3>2 DEF Genuine, Live
      <4> QED
        BY <3>3, <3>4, <3>6, <4>1
    <3>8. Live(1)'
      <4> SUFFICES ASSUME ~Live(1)' PROVE FALSE
        OBVIOUS
      <4>1. netEntries'[1].ssid = Hidden
        <5>1. netEntries'[1].rssi # -128
          BY <3>3, <3>4, <3>7
        <5> QED
          BY <1>4, <1>6, <3>3, <5>1 DEF Genuine
      <4>2. PICK h \in DOMAIN found : found[h].ssid = Hidden /\ found[h].rssi = netEntries'[1].rssi
        BY <1>2, <1>4, <1>6, <3>3, <4>1 DEF Genuine
      <4>3. found[h].rssi < found[f].rssi
        BY <3>1, <4>2
      <4> QED
        BY <3>2, <3>3, <3>4, <3>5, <3>6, <4>2, <4>3
    <3> QED
      BY <3>8
  <2> QED
    BY <1>2, <1>4, <2>1, <2>2 DEF InOrder, StrongestTells
<1>10. Counters'
  BY <1>2 DEF Counters, Sorted
<1>11. TokensInv'
  BY <1>2 DEF TokensInv, Lists, Making1, Making2, Waiting, Written, Indices
<1> QED
  BY <1>5, <1>6, <1>7, <1>8, <1>9, <1>10, <1>11

-----------------------------------------------------------------------------
(* The lists. *)

LEMMA EmptyList ==
  /\ <<>> \in Seq(ListItem) /\ Written(<<>>) /\ Indices(<<>>) = {} /\ End(<<>>) = Header
BY DEF Written, Indices, End

LEMMA LongerList ==
  ASSUME NEW list \in Seq(ListItem), NEW x \in ListItem
  PROVE  LET more == Append(list, x)
         IN /\ more \in Seq(ListItem) /\ more # <<>> /\ Len(more) = Len(list) + 1 /\ DOMAIN more = 1 .. Len(list) + 1
            /\ more[Len(list) + 1] = x /\ \A k \in 1 .. Len(list) : more[k] = list[k]
            /\ Indices(more) = Indices(list) \cup {x.index} /\ End(more) = x.end
<1> DEFINE more == Append(list, x)
<1>1. more \in Seq(ListItem) /\ Len(more) = Len(list) + 1 /\ DOMAIN more = 1 .. Len(list) + 1
      /\ more[Len(list) + 1] = x /\ \A k \in 1 .. Len(list) : more[k] = list[k]
      /\ DOMAIN list = 1 .. Len(list) /\ Len(list) \in Nat
  OBVIOUS
<1> HIDE DEF more
<1>2. more # <<>>
  BY <1>1
<1>3. Indices(more) = Indices(list) \cup {x.index}
  BY <1>1 DEF Indices
<1>4. End(more) = x.end
  BY <1>1, <1>2 DEF End
<1> QED
  BY <1>1, <1>2, <1>3, <1>4 DEF more

(* The end of a list is the one of its last item.  *)
LEMMA EndOfList ==
  ASSUME PageTypeOK, NEW list \in Seq(ListItem), Written(list)
  PROVE  End(list) \in Int /\ End(list) <= 61
<1>1. CASE list = <<>>
  BY <1>1 DEF End, Header
<1>2. CASE list # <<>>
  <2>1. Len(list) \in DOMAIN list /\ list[Len(list)] \in ListItem
    BY <1>2
  <2> QED
    BY <1>2, <2>1 DEF End, Written, ListItem
<1> QED
  BY <1>1, <1>2

LEMMA ItemEnd ==
  ASSUME PageTypeOK, tmp1 \in DOMAIN netEntries, NEW c \in BOOLEAN PROVE ptr <= Item(c).end
<1> DEFINE len == netEntries[tmp1].len
<1>1. netEntries[tmp1] \in Entry /\ ptr \in Int
  BY DEF PageTypeOK
<1>2. len \in 0 .. 32
  BY <1>1 DEF Entry
<1>3. Item(c).end = ptr + len + IF c THEN 3 ELSE 2
  BY DEF Item
<1> HIDE DEF len
<1>4. Item(c).end = ptr + len + 3 \/ Item(c).end = ptr + len + 2
  BY <1>3, Zenon
<1> QED
  BY <1>1, <1>2, <1>4

(* A live entry that comes after those of a list can be written to its     *)
(* end, if it fits.                                                        *)
LEMMA ItemWritten ==
  ASSUME PageTypeOK, NEW list \in Seq(ListItem), Written(list), NEW c \in BOOLEAN,
         StrongestTells => c = (list # <<>>),
         tmp1 \in DOMAIN netEntries, Listed, ptr = End(list), \A i \in Indices(list) : i < tmp1
  PROVE  Item(c) \in ListItem /\ Item(c).index = tmp1 /\ Written(Append(list, Item(c)))
<1> DEFINE x == Item(c)  more == Append(list, x)  n == Len(list)
<1>1. netEntries[tmp1] \in Entry /\ tmp1 \in Nat /\ ptr \in Int
  BY DEF PageTypeOK
<1> DEFINE len == netEntries[tmp1].len
<1>2. len \in Int /\ 0 <= len /\ len <= 32
  <2>1. len \in 0 .. 32
    BY <1>1 DEF Entry
  <2> HIDE DEF len
  <2> QED
    BY <2>1
<1> DEFINE end == ptr + len + IF c THEN 3 ELSE 2
<1>0. end \in Int /\ end <= 61 /\ end = IF c THEN ptr + len + 3 ELSE ptr + len + 2
  <2>1. 6 + ptr + len <= 64
    BY DEF Listed, Fits, Closing, MAX_TOKEN_VALUE_LEN
  <2> HIDE DEF len
  <2>2. CASE c
    <3>1. end = ptr + len + 3
      BY <2>2, Zenon
    <3> HIDE DEF end
    <3>2. end \in Int /\ end <= 61
      BY <1>1, <1>2, <2>1, <3>1
    <3> QED
      BY <2>2, <3>1, <3>2, Zenon
  <2>3. CASE ~c
    <3>1. end = ptr + len + 2
      BY <2>3, Zenon
    <3> HIDE DEF end
    <3>2. end \in Int /\ end <= 61
      BY <1>1, <1>2, <2>1, <3>1
    <3> QED
      BY <2>3, <3>1, <3>2, Zenon
  <2> QED
    BY <2>2, <2>3
<1> HIDE DEF end
<1>3. x = [index |-> tmp1, comma |-> c, end |-> end]
  BY DEF Item, end
<1> HIDE DEF x, len
<1>4. x \in ListItem /\ x.index = tmp1 /\ x.comma = c /\ x.end = end
  BY <1>0, <1>1, <1>3 DEF ListItem
<1>5. /\ DOMAIN more = 1 .. n + 1 /\ more[n + 1] = x /\ \A k \in 1 .. n : more[k] = list[k]
      /\ n \in Nat /\ DOMAIN list = 1 .. n
  BY <1>4, LongerList
<1>6. StrongestTells => c = (n + 1 > 1)
  <2>1. (list # <<>>) <=> (n + 1 > 1)
    BY <1>5
  <2> QED
    BY <2>1
<1> HIDE DEF more, n
<1>7. \A k \in DOMAIN more :
       /\ more[k].index \in DOMAIN netEntries /\ Live(more[k].index)
       /\ StrongestTells => more[k].comma = (k > 1)
       /\ more[k].end <= 61
  <2> TAKE k \in DOMAIN more
  <2>1. CASE k \in 1 .. n
    <3>1. more[k] = list[k]
      BY <1>5, <2>1
    <3> QED
      BY <1>5, <2>1, <3>1 DEF Written
  <2>2. CASE k = n + 1
    <3>1. more[k] = x
      BY <1>5, <2>2
    <3>2. Live(tmp1)
      BY DEF Listed, Live
    <3>3. StrongestTells => x.comma = (k > 1)
      BY <1>4, <1>6, <2>2
    <3> QED
      BY <1>0, <1>4, <3>1, <3>2, <3>3
  <2> QED
    BY <1>5, <2>1, <2>2
<1>8. \A k, l \in DOMAIN more : k < l => more[k].index < more[l].index
  BY <1>4, <1>5 DEF Written, Indices
<1> QED
  BY <1>4, <1>7, <1>8 DEF Written, more, x

(* The tokens leave the entries alone.  *)
LEMMA SameEntries ==
  ASSUME PageInv, Sorted, Sorted', netEntries' = netEntries, found' = found
  PROVE  EntriesInv' /\ found' \in Scans \ {<<>>} /\ \A list : Written(list)' <=> Written(list)
<1>1. page # "off" /\ page' # "off" /\ page # "compare" /\ page' # "compare" /\ page' # "sort"
  BY DEF Sorted
<1>2. Genuine' /\ BestIsLive' /\ NoTwins' /\ InOrder'
  BY <1>1 DEF PageInv, EntriesInv, Genuine, BestIsLive, NoTwins, InOrder, Compared, Live,
              StrongestTells
<1>3. found' \in Scans \ {<<>>}
  BY <1>1 DEF PageInv, Counters
<1>4. \A list : Written(list)' <=> Written(list)
  BY DEF Written, Live, StrongestTells
<1> QED
  BY <1>2, <1>3, <1>4 DEF EntriesInv

LEMMA GetToken1Inv == ASSUME PageInv, GetToken1 PROVE PageInv'
<1>1. /\ page = "idle" /\ page' = "list1" /\ tmp1' = 1 /\ tmp2' = tmp2 /\ ptr' = Header /\ gets' = {}
      /\ token1' = <<>> /\ token2' = <<>> /\ tokens' = {1} /\ netEntries' = netEntries /\ found' = found
  BY DEF GetToken1, Begins, scanVars
<1>2. EntriesInv' /\ found' \in Scans \ {<<>>}
  BY <1>1, SameEntries DEF Sorted
<1>3. PageTypeOK'
  BY <1>1, EmptyList DEF PageInv, PageTypeOK, Header
<1>4. Counters'
  <2>1. 1 \in 1 .. Len(netEntries') + 1
    <3>1. Len(netEntries') \in Nat
      BY <1>3 DEF PageTypeOK
    <3> QED
      BY <3>1
  <2> QED
    BY <1>1, <1>2, <2>1 DEF Counters, Sorted
<1>5. Lists'
  <2>1. \A i \in DOMAIN netEntries' : ~(i < 1)
    BY <1>3 DEF PageTypeOK
  <2>2. Exhausted(token1, Indices(token1), Upto("list1"))'
    BY <1>1, <2>1 DEF Exhausted, Upto
  <2>3. Written(token1)' /\ Written(token2)' /\ Indices(token1)' = {} /\ 1 \in tokens' /\ 2 \notin tokens'
    BY <1>1 DEF Written, Indices
  <2> QED
    BY <1>1, <2>2, <2>3 DEF Lists
<1>6. Making1' /\ Making2' /\ Waiting'
  BY <1>1 DEF Making1, Making2, Waiting, Indices, End
<1> QED
  BY <1>2, <1>3, <1>4, <1>5, <1>6 DEF PageInv, TokensInv

LEMMA GetToken2Inv == ASSUME PageInv, GetToken2 PROVE PageInv'
<1>1. /\ page = "idle" /\ page' = "list2" /\ tmp1' = 1 /\ tmp2' = tmp2 /\ ptr' = Header /\ gets' = gets
      /\ token2' = <<>> /\ netEntries' = netEntries /\ found' = found
  BY DEF GetToken2, Begins, scanVars
<1>2. EntriesInv' /\ found' \in Scans \ {<<>>} /\ \A list : Written(list)' <=> Written(list)
  BY <1>1, SameEntries DEF Sorted
<1>3. Lists /\ Waiting /\ PageTypeOK
  BY DEF PageInv, TokensInv
<1>4. /\ token1' \in {<<>>, token1} /\ gets = Indices(token1)' /\ 2 \in tokens'
      /\ IF gets = {} THEN token1' = <<>> /\ tokens' = {2} ELSE token1' = token1 /\ tokens' = {1, 2} /\ 1 \in tokens
  <2>1. CASE gets = {}
    <3>1. token1' = <<>> /\ tokens' = {2}
      BY <2>1 DEF GetToken2
    <3> QED
      BY <2>1, <3>1 DEF Indices
  <2>2. CASE gets # {}
    <3>1. token1' = token1 /\ tokens' = {1, 2} /\ gets = Indices(token1)
      BY <1>1, <1>3, <2>2 DEF GetToken2, Waiting
    <3>2. 1 \in tokens
      BY <1>3, <2>2, <3>1 DEF Lists, Indices
    <3> QED
      BY <2>2, <3>1, <3>2 DEF Indices
  <2> QED
    BY <2>1, <2>2
<1>5. PageTypeOK'
  <2>1. token1' \in Seq(ListItem)
    BY <1>3, <1>4, EmptyList DEF PageTypeOK
  <2> QED
    BY <1>1, <1>3, <2>1, EmptyList DEF PageTypeOK, Header
<1>6. Counters'
  <2>1. 1 \in 1 .. Len(netEntries') + 1
    <3>1. Len(netEntries') \in Nat
      BY <1>5 DEF PageTypeOK
    <3> QED
      BY <3>1
  <2> QED
    BY <1>1, <1>2, <2>1 DEF Counters, Sorted
<1>7. Lists'
  <2>1. \A i \in DOMAIN netEntries' : ~(i < 1)
    BY <1>5 DEF PageTypeOK
  <2>2. Exhausted(token2, Indices(token1) \cup Indices(token2), Upto("list2"))'
    BY <1>1, <2>1 DEF Exhausted, Upto
  <2>3. Written(token1)' /\ Written(token2)'
    BY <1>1, <1>3, <1>4 DEF Lists, Written, Live, StrongestTells
  <2>4. Indices(token2)' = {}
    BY <1>1 DEF Indices
  <2>5. 1 \in tokens' => Exhausted(token1, Indices(token1), Upto("list1"))'
    <3> SUFFICES ASSUME 1 \in tokens' PROVE Exhausted(token1, Indices(token1), Upto("list1"))'
      OBVIOUS
    <3>1. token1' = token1 /\ Exhausted(token1, Indices(token1), Upto("list1"))
      BY <1>3, <1>4 DEF Lists
    <3> QED
      BY <1>1, <3>1 DEF Exhausted, Upto, Indices, Live, End, Fits
  <2>6. 1 \notin tokens' => token1' = <<>>
    BY <1>4
  <2> QED
    BY <1>1, <1>4, <2>2, <2>3, <2>4, <2>5, <2>6 DEF Lists
<1>8. Making1' /\ Making2' /\ Waiting'
  BY <1>1, <1>4 DEF Making1, Making2, Waiting, Indices, End
<1> QED
  BY <1>2, <1>5, <1>6, <1>7, <1>8 DEF PageInv, TokensInv

(* The first entry fits into a list: it is not passed over.  *)
LEMMA FirstListed ==
  ASSUME PageTypeOK, Live(1), 1 \in DOMAIN netEntries, tmp1 = 1, ptr = Header PROVE Listed
<1>1. netEntries[1] \in Entry
  BY DEF PageTypeOK
<1>2. netEntries[1].len \in 0 .. 32
  BY <1>1 DEF Entry
<1> QED
  BY <1>2 DEF Listed, Live, Fits, Header, Closing, MAX_TOKEN_VALUE_LEN

(* What every turn of a loop over the entries does.  *)
LEMMA TurnOfLoop ==
  ASSUME PageInv, NEW token \in {"list1", "list2"}, Turn(token), netEntries' = netEntries, found' = found
  PROVE  /\ Sorted /\ Sorted' /\ page = token /\ page' = token /\ tmp1 \in DOMAIN netEntries /\ tmp1' = tmp1 + 1
         /\ tmp1 \in Nat /\ tmp1' \in Nat /\ DOMAIN netEntries \subseteq Nat
         /\ EntriesInv' /\ Counters' /\ \A list : Written(list)' <=> Written(list)
<1>1. page = token /\ page' = token /\ tmp1 <= Len(netEntries) /\ tmp1' = tmp1 + 1 /\ Sorted /\ Sorted'
  BY DEF Turn, Sorted
<1>2. EntriesInv' /\ found' \in Scans \ {<<>>} /\ \A list : Written(list)' <=> Written(list)
  BY <1>1, SameEntries
<1>3. tmp1 \in 1 .. Len(netEntries) + 1 /\ tmp1 \in Nat
  BY <1>1 DEF PageInv, Counters, PageTypeOK
<1>4. Len(netEntries) \in Nat /\ DOMAIN netEntries = 1 .. Len(netEntries)
  BY DEF PageInv, PageTypeOK
<1>5. tmp1 \in DOMAIN netEntries /\ tmp1' \in 1 .. Len(netEntries) + 1 /\ tmp1' \in Nat /\ DOMAIN netEntries \subseteq Nat
  BY <1>1, <1>3, <1>4
<1>6. Counters'
  BY <1>1, <1>2, <1>5 DEF Counters, Sorted
<1> QED
  BY <1>1, <1>2, <1>3, <1>5, <1>6

LEMMA PassOverInv == ASSUME PageInv, PassOver PROVE PageInv'
<1>1. /\ netEntries' = netEntries /\ found' = found /\ ptr' = ptr /\ tmp2' = tmp2 /\ gets' = gets
      /\ token1' = token1 /\ token2' = token2 /\ tokens' = tokens
      /\ Listed => page = "list2" /\ tmp1 \in gets
  BY DEF PassOver, scanVars, listVars
<1>2. PICK token \in {"list1", "list2"} : Turn(token)
  BY DEF PassOver
<1>3. /\ page = token /\ page' = token /\ tmp1 \in DOMAIN netEntries /\ tmp1' = tmp1 + 1
      /\ tmp1 \in Nat /\ tmp1' \in Nat /\ DOMAIN netEntries \subseteq Nat
      /\ EntriesInv' /\ Counters' /\ \A list : Written(list)' <=> Written(list)
  BY <1>1, <1>2, TurnOfLoop
<1>4. PageTypeOK /\ Lists /\ Making1 /\ Making2 /\ InOrder
  BY DEF PageInv, EntriesInv, TokensInv
<1>5. PageTypeOK'
  BY <1>1, <1>3, <1>4 DEF PageTypeOK
<1>6. Lists'
  <2>1. CASE token = "list1"
    <3>1. 1 \in tokens => Exhausted(token1, Indices(token1), tmp1)
      BY <1>3, <1>4, <2>1 DEF Lists, Upto
    <3>2. Live(tmp1) => ~Fits(End(token1), netEntries[tmp1])
      BY <1>1, <1>3, <1>4, <2>1 DEF Listed, Making1, Live
    <3>3. 1 \in tokens => Exhausted(token1, Indices(token1), tmp1 + 1)
      BY <1>3, <3>1, <3>2 DEF Exhausted
    <3>4. 1 \in tokens' => Exhausted(token1, Indices(token1), Upto("list1"))'
      BY <1>1, <1>3, <2>1, <3>3 DEF Exhausted, Upto, Indices, Live, End, Fits
    <3>5. 2 \notin tokens'
      BY <1>1, <1>3, <1>4, <2>1 DEF Making1
    <3> QED
      BY <1>1, <1>3, <1>4, <3>4, <3>5 DEF Lists, Indices
  <2>2. CASE token = "list2"
    <3>1. 2 \in tokens => Exhausted(token2, Indices(token1) \cup Indices(token2), tmp1)
      BY <1>3, <1>4, <2>2 DEF Lists, Upto
    <3>2. Live(tmp1) => tmp1 \in Indices(token1) \/ ~Fits(End(token2), netEntries[tmp1])
      BY <1>1, <1>3, <1>4, <2>2 DEF Listed, Making2, Live
    <3>3. 2 \in tokens => Exhausted(token2, Indices(token1) \cup Indices(token2), tmp1 + 1)
      BY <1>3, <3>1, <3>2 DEF Exhausted
    <3>4. 2 \in tokens' => Exhausted(token2, Indices(token1) \cup Indices(token2), Upto("list2"))'
      BY <1>1, <1>3, <2>2, <3>3 DEF Exhausted, Upto, Indices, Live, End, Fits
    <3>5. 1 \in tokens' => Exhausted(token1, Indices(token1), Upto("list1"))'
      BY <1>1, <1>3, <1>4, <2>2 DEF Lists, Exhausted, Upto, Indices, Live, End, Fits
    <3> QED
      BY <1>1, <1>3, <1>4, <3>4, <3>5 DEF Lists, Indices
  <2> QED
    BY <2>1, <2>2
<1>7. Making1'
  <2> SUFFICES ASSUME page' = "list1" PROVE Making1'
    BY DEF Making1
  <2>1. /\ ptr = End(token1) /\ gets = Indices(token1) /\ token2 = <<>> /\ tokens = {1} /\ ~Listed
        /\ (\A i \in Indices(token1) : i < tmp1) /\ (StrongestTells => (token1 = <<>> <=> tmp1 = 1))
    BY <1>1, <1>3, <1>4 DEF Making1
  <2>2. StrongestTells => tmp1 # 1
    <3> SUFFICES ASSUME StrongestTells PROVE tmp1 # 1
      OBVIOUS
    <3>1. tmp1 = 1 => ptr = Header /\ Live(1)
      BY <1>3, <1>4, <2>1 DEF End, InOrder, Sorted
    <3> QED
      BY <1>3, <1>4, <2>1, <3>1, FirstListed
  <2>3. (StrongestTells => (token1' = <<>> <=> tmp1' = 1)) /\ \A i \in Indices(token1)' : i < tmp1'
    <3>1. StrongestTells => token1' # <<>> /\ tmp1' # 1
      BY <1>1, <1>3, <2>1, <2>2
    <3>2. Indices(token1)' = Indices(token1) /\ Indices(token1) \subseteq Nat
      BY <1>1, <1>3, <1>4 DEF Indices, Lists, Written
    <3>3. \A i \in Indices(token1)' : i < tmp1'
      BY <1>3, <2>1, <3>2
    <3> QED
      BY <3>1, <3>3
  <2> QED
    BY <1>1, <2>1, <2>3 DEF Making1, End, Indices, StrongestTells
<1>8. Making2'
  <2> SUFFICES ASSUME page' = "list2" PROVE Making2'
    BY DEF Making2
  <2>1. ptr = End(token2) /\ gets = Indices(token1) /\ 2 \in tokens /\ \A i \in Indices(token2) : i < tmp1
    BY <1>3, <1>4 DEF Making2
  <2>2. Indices(token2)' = Indices(token2) /\ Indices(token2) \subseteq Nat
    BY <1>1, <1>3, <1>4 DEF Indices, Lists, Written
  <2>3. \A i \in Indices(token2)' : i < tmp1'
    BY <1>3, <2>1, <2>2
  <2> QED
    BY <1>1, <2>1, <2>3 DEF Making2, End, Indices
<1>9. Waiting'
  BY <1>3 DEF Waiting
<1> QED
  BY <1>3, <1>5, <1>6, <1>7, <1>8, <1>9 DEF PageInv, TokensInv

LEMMA List1Inv == ASSUME PageInv, List1 PROVE PageInv'
<1> DEFINE c == tmp1 # 1  x == Item(c)
<1>1. /\ netEntries' = netEntries /\ found' = found /\ tmp2' = tmp2 /\ token2' = token2 /\ tokens' = tokens
      /\ Turn("list1") /\ Listed /\ gets' = gets \cup {tmp1}
      /\ token1' = Append(token1, x) /\ ptr' = x.end
  BY DEF List1, scanVars
<1>2. /\ page = "list1" /\ page' = "list1" /\ tmp1 \in DOMAIN netEntries /\ tmp1' = tmp1 + 1
      /\ tmp1 \in Nat /\ tmp1' \in Nat /\ DOMAIN netEntries \subseteq Nat
      /\ EntriesInv' /\ Counters' /\ \A list : Written(list)' <=> Written(list)
  BY <1>1, TurnOfLoop
<1>3. PageTypeOK /\ Lists
  BY DEF PageInv, TokensInv
<1>4. /\ ptr = End(token1) /\ gets = Indices(token1) /\ token2 = <<>> /\ tokens = {1}
      /\ (\A i \in Indices(token1) : i < tmp1) /\ (StrongestTells => (token1 = <<>> <=> tmp1 = 1))
  BY <1>2 DEF Making1, PageInv, TokensInv
<1>5. c \in BOOLEAN /\ (StrongestTells => c = (token1 # <<>>))
  BY <1>4
<1> HIDE DEF c
<1>6. x \in ListItem /\ x.index = tmp1 /\ Written(Append(token1, x))
  BY <1>1, <1>2, <1>3, <1>4, <1>5, ItemWritten DEF PageTypeOK, Lists
<1> HIDE DEF x
<1>7. /\ token1' \in Seq(ListItem) /\ token1' # <<>>
      /\ Indices(token1)' = Indices(token1) \cup {tmp1} /\ End(token1)' = x.end
  <2>1. token1 \in Seq(ListItem)
    BY <1>3 DEF PageTypeOK
  <2>2. LET more == Append(token1, x)
        IN more \in Seq(ListItem) /\ more # <<>> /\ Indices(more) = Indices(token1) \cup {tmp1} /\ End(more) = x.end
    BY <1>6, <2>1, LongerList
  <2>3. token1' \in Seq(ListItem) /\ token1' # <<>>
    BY <1>1, <2>2, Zenon
  <2>4. Indices(token1)' = Indices(token1) \cup {tmp1}
    BY <1>1, <2>2, Zenon DEF Indices
  <2>5. End(token1)' = x.end
    BY <1>1, <2>2, Zenon DEF End
  <2> QED
    BY <2>3, <2>4, <2>5
<1>8. PageTypeOK'
  <2>1. ptr' \in Int
    BY <1>1, <1>6 DEF ListItem
  <2> QED
    BY <1>1, <1>2, <1>3, <1>7, <2>1 DEF PageTypeOK
<1>9. Lists'
  <2>1. Written(token1)' /\ Written(token2)'
    BY <1>1, <1>2, <1>3, <1>6 DEF Lists, Written, Live, StrongestTells
  <2>2. Indices(token2)' = {}
    BY <1>1, <1>4 DEF Indices
  <2>3. Exhausted(token1, Indices(token1), tmp1)
    BY <1>2, <1>3, <1>4 DEF Lists, Upto
  <2>4. End(token1) <= x.end
    BY <1>2, <1>3, <1>4, <1>5, ItemEnd DEF x
  <2>5. Exhausted(token1, Indices(token1), Upto("list1"))'
    <3> SUFFICES ASSUME NEW i \in DOMAIN netEntries, i < tmp1 + 1, Live(i), i \notin Indices(token1)'
                 PROVE  ~(Closing + x.end + netEntries[i].len <= MAX_TOKEN_VALUE_LEN)
      BY <1>1, <1>2, <1>7 DEF Exhausted, Upto, Live, Fits
    <3>1. i < tmp1 /\ i \notin Indices(token1)
      BY <1>2, <1>7
    <3>2. ~(Closing + End(token1) + netEntries[i].len <= MAX_TOKEN_VALUE_LEN)
      BY <2>3, <3>1 DEF Exhausted, Fits
    <3>3. netEntries[i] \in Entry
      BY <1>3 DEF PageTypeOK
    <3>4. netEntries[i].len \in 0 .. 32 /\ x.end \in Int /\ End(token1) \in Int
      BY <1>3, <1>4, <1>6, <3>3 DEF Entry, ListItem, PageTypeOK
    <3> QED
      BY <2>4, <3>2, <3>4 DEF Closing, MAX_TOKEN_VALUE_LEN
  <2>6. 1 \in tokens' /\ 2 \notin tokens' /\ token2' = <<>>
    BY <1>1, <1>4
  <2> QED
    BY <2>1, <2>2, <2>5, <2>6 DEF Lists
<1>10. Making1'
  <2>1. \A i \in Indices(token1)' : i < tmp1'
    <3>1. Indices(token1) \subseteq Nat
      BY <1>2, <1>3 DEF Indices, Lists, Written
    <3> QED
      BY <1>2, <1>4, <1>7, <3>1
  <2>2. tmp1' # 1
    <3>1. tmp1 # 0
      BY <1>2, <1>3 DEF PageTypeOK
    <3> QED
      BY <1>2, <3>1
  <2>3. gets' = Indices(token1)' /\ ptr' = End(token1)' /\ token2' = <<>> /\ tokens' = {1}
    BY <1>1, <1>4, <1>7
  <2> QED
    BY <1>7, <2>1, <2>2, <2>3 DEF Making1
<1>11. Making2' /\ Waiting'
  BY <1>2 DEF Making2, Waiting
<1> QED
  BY <1>2, <1>8, <1>9, <1>10, <1>11 DEF PageInv, TokensInv

LEMMA List2Inv == ASSUME PageInv, List2 PROVE PageInv'
<1> DEFINE c == token2 # <<>>  x == Item(c)
<1>1. /\ netEntries' = netEntries /\ found' = found /\ tmp2' = tmp2 /\ gets' = gets /\ token1' = token1
      /\ tokens' = tokens /\ Turn("list2") /\ Listed /\ tmp1 \notin gets
      /\ token2' = Append(token2, x) /\ ptr' = x.end
  BY DEF List2, scanVars
<1>2. /\ page = "list2" /\ page' = "list2" /\ tmp1 \in DOMAIN netEntries /\ tmp1' = tmp1 + 1
      /\ tmp1 \in Nat /\ tmp1' \in Nat /\ DOMAIN netEntries \subseteq Nat
      /\ EntriesInv' /\ Counters' /\ \A list : Written(list)' <=> Written(list)
  BY <1>1, TurnOfLoop
<1>3. PageTypeOK /\ Lists
  BY DEF PageInv, TokensInv
<1>4. ptr = End(token2) /\ gets = Indices(token1) /\ \A i \in Indices(token2) : i < tmp1
  BY <1>2 DEF Making2, PageInv, TokensInv
<1>5. c \in BOOLEAN /\ c = (token2 # <<>>)
  OBVIOUS
<1> HIDE DEF c
<1>6. x \in ListItem /\ x.index = tmp1 /\ Written(Append(token2, x))
  BY <1>1, <1>2, <1>3, <1>4, <1>5, ItemWritten DEF PageTypeOK, Lists
<1> HIDE DEF x
<1>7. /\ token2' \in Seq(ListItem) /\ token2' # <<>>
      /\ Indices(token2)' = Indices(token2) \cup {tmp1} /\ End(token2)' = x.end
  <2>1. token2 \in Seq(ListItem)
    BY <1>3 DEF PageTypeOK
  <2>2. LET more == Append(token2, x)
        IN more \in Seq(ListItem) /\ more # <<>> /\ Indices(more) = Indices(token2) \cup {tmp1} /\ End(more) = x.end
    BY <1>6, <2>1, LongerList
  <2>3. token2' \in Seq(ListItem) /\ token2' # <<>>
    BY <1>1, <2>2, Zenon
  <2>4. Indices(token2)' = Indices(token2) \cup {tmp1}
    BY <1>1, <2>2, Zenon DEF Indices
  <2>5. End(token2)' = x.end
    BY <1>1, <2>2, Zenon DEF End
  <2> QED
    BY <2>3, <2>4, <2>5
<1>8. PageTypeOK'
  <2>1. ptr' \in Int
    BY <1>1, <1>6 DEF ListItem
  <2> QED
    BY <1>1, <1>2, <1>3, <1>7, <2>1 DEF PageTypeOK
<1>9. Lists'
  <2>1. Written(token1)' /\ Written(token2)'
    BY <1>1, <1>2, <1>3, <1>6 DEF Lists, Written, Live, StrongestTells
  <2>2. Indices(token1)' = Indices(token1) /\ Indices(token1) \cap Indices(token2)' = {}
    BY <1>1, <1>3, <1>4, <1>7 DEF Indices, Lists
  <2>3. 2 \in tokens => Exhausted(token2, Indices(token1) \cup Indices(token2), tmp1)
    BY <1>2, <1>3 DEF Lists, Upto
  <2>4. End(token2) <= x.end
    BY <1>2, <1>3, <1>4, <1>5, ItemEnd DEF x
  <2>5. 2 \in tokens' => Exhausted(token2, Indices(token1) \cup Indices(token2), Upto("list2"))'
    <3> SUFFICES ASSUME 2 \in tokens, NEW i \in DOMAIN netEntries, i < tmp1 + 1, Live(i),
                        i \notin Indices(token1), i \notin Indices(token2)'
                 PROVE  ~(Closing + x.end + netEntries[i].len <= MAX_TOKEN_VALUE_LEN)
      BY <1>1, <1>2, <1>7, <2>2 DEF Exhausted, Upto, Live, Fits
    <3>1. i < tmp1 /\ i \notin Indices(token2)
      BY <1>2, <1>7
    <3>2. ~(Closing + End(token2) + netEntries[i].len <= MAX_TOKEN_VALUE_LEN)
      BY <2>3, <3>1 DEF Exhausted, Fits
    <3>3. netEntries[i] \in Entry
      BY <1>3 DEF PageTypeOK
    <3>4. netEntries[i].len \in 0 .. 32 /\ x.end \in Int /\ End(token2) \in Int
      BY <1>3, <1>4, <1>6, <3>3 DEF Entry, ListItem, PageTypeOK
    <3> QED
      BY <2>4, <3>2, <3>4 DEF Closing, MAX_TOKEN_VALUE_LEN
  <2>6. 1 \in tokens' => Exhausted(token1, Indices(token1), Upto("list1"))'
    BY <1>1, <1>2, <1>3 DEF Lists, Exhausted, Upto, Indices, Live, End, Fits
  <2>7. 2 \in tokens
    BY <1>2 DEF Making2, PageInv, TokensInv
  <2> QED
    BY <1>1, <1>3, <2>1, <2>2, <2>5, <2>6, <2>7 DEF Lists
<1>10. Making2'
  <2>1. \A i \in Indices(token2)' : i < tmp1'
    <3>1. Indices(token2) \subseteq Nat
      BY <1>2, <1>3 DEF Indices, Lists, Written
    <3> QED
      BY <1>2, <1>4, <1>7, <3>1
  <2>2. gets' = Indices(token1)' /\ ptr' = End(token2)' /\ 2 \in tokens'
    <3>1. 2 \in tokens
      BY <1>2 DEF Making2, PageInv, TokensInv
    <3> QED
      BY <1>1, <1>4, <1>7, <3>1 DEF Indices
  <2> QED
    BY <2>1, <2>2 DEF Making2
<1>11. Making1' /\ Waiting'
  BY <1>2 DEF Making1, Waiting
<1> QED
  BY <1>2, <1>8, <1>9, <1>10, <1>11 DEF PageInv, TokensInv

LEMMA SendTokenInv == ASSUME PageInv, SendToken PROVE PageInv'
<1>1. /\ netEntries' = netEntries /\ found' = found /\ tmp1' = tmp1 /\ tmp2' = tmp2 /\ ptr' = ptr
      /\ token1' = token1 /\ token2' = token2 /\ tokens' = tokens /\ page' = "idle"
      /\ page \in {"list1", "list2"} /\ tmp1 > Len(netEntries)
      /\ gets' = IF page = "list2" THEN {} ELSE gets
  BY DEF SendToken, scanVars
<1>2. PageTypeOK /\ Lists /\ Making1 /\ Making2
  BY DEF PageInv, TokensInv
<1>3. EntriesInv' /\ found' \in Scans \ {<<>>}
  BY <1>1, SameEntries DEF Sorted
<1>4. PageTypeOK' /\ Counters'
  BY <1>1, <1>2, <1>3 DEF PageTypeOK, Counters, Sorted
<1>5. tmp1 = Len(netEntries) + 1
  <2>1. tmp1 \in 1 .. Len(netEntries) + 1 /\ Len(netEntries) \in Nat
    BY <1>1 DEF PageInv, Counters, PageTypeOK
  <2> QED
    BY <1>1, <2>1
<1>6. Lists'
  <2>1. Upto("list1")' = Upto("list1") /\ Upto("list2")' = Upto("list2")
    BY <1>1, <1>5 DEF Upto
  <2>2. Written(token1)' /\ Written(token2)'
    BY <1>1, <1>2 DEF Lists, Written, Live, StrongestTells
  <2>3. Indices(token1)' = Indices(token1) /\ Indices(token2)' = Indices(token2)
    BY <1>1 DEF Indices
  <2>4. 1 \in tokens' => Exhausted(token1, Indices(token1), Upto("list1"))'
    BY <1>1, <1>2, <2>1, <2>3 DEF Lists, Exhausted, Live, End, Fits
  <2>5. 2 \in tokens' => Exhausted(token2, Indices(token1) \cup Indices(token2), Upto("list2"))'
    BY <1>1, <1>2, <2>1, <2>3 DEF Lists, Exhausted, Live, End, Fits
  <2> QED
    BY <1>1, <1>2, <2>2, <2>3, <2>4, <2>5 DEF Lists
<1>7. Making1' /\ Making2' /\ Waiting'
  BY <1>1, <1>2 DEF Making1, Making2, Waiting, Indices
<1> QED
  BY <1>3, <1>4, <1>6, <1>7 DEF PageInv, TokensInv

LEMMA NextPage == PageInv /\ [PageNext]_pageVars => PageInv'
<1> SUFFICES ASSUME PageInv, [PageNext]_pageVars PROVE PageInv'
  OBVIOUS
<1>1. CASE Wlan_Scan
  BY <1>1, ScanEntries
<1>2. CASE _removeDuplicates
  BY <1>2, CompareEntries
<1>3. CASE _sortByRSSI
  BY <1>3, SortEntries
<1>4. CASE GetToken1
  BY <1>4, GetToken1Inv
<1>5. CASE GetToken2
  BY <1>5, GetToken2Inv
<1>6. CASE PassOver
  BY <1>6, PassOverInv
<1>7. CASE List1
  BY <1>7, List1Inv
<1>8. CASE List2
  BY <1>8, List2Inv
<1>9. CASE SendToken
  BY <1>9, SendTokenInv
<1>10. CASE UNCHANGED pageVars
  <2>1. /\ netEntries' = netEntries /\ found' = found /\ page' = page /\ tmp1' = tmp1 /\ tmp2' = tmp2 /\ ptr' = ptr
        /\ token1' = token1 /\ token2' = token2 /\ tokens' = tokens /\ gets' = gets
    BY <1>10 DEF pageVars, scanVars, listVars
  <2>2. PageTypeOK' /\ Counters' /\ Genuine' /\ BestIsLive' /\ InOrder'
    BY <2>1 DEF PageInv, EntriesInv, PageTypeOK, Counters, Genuine, BestIsLive, InOrder, Sorted, Live,
                  StrongestTells
  <2>3. NoTwins'
    BY <2>1 DEF PageInv, EntriesInv, NoTwins, Compared, Live
  <2>4. Written(token1)' /\ Written(token2)'
    BY <2>1 DEF PageInv, TokensInv, Lists, Written, Live, StrongestTells
  <2>5. Indices(token1)' = Indices(token1) /\ Indices(token2)' = Indices(token2)
    BY <2>1 DEF Indices
  <2>6. Exhausted(token1, Indices(token1), Upto("list1"))' = Exhausted(token1, Indices(token1), Upto("list1"))
    BY <2>1, <2>5 DEF Exhausted, Upto, Live, End, Fits
  <2>7. Exhausted(token2, Indices(token1) \cup Indices(token2), Upto("list2"))'
          = Exhausted(token2, Indices(token1) \cup Indices(token2), Upto("list2"))
    BY <2>1, <2>5 DEF Exhausted, Upto, Live, End, Fits
  <2>8. Lists'
    BY <2>1, <2>4, <2>5, <2>6, <2>7 DEF PageInv, TokensInv, Lists
  <2>9. Making1' /\ Making2' /\ Waiting'
    BY <2>1, <2>5 DEF PageInv, TokensInv, Making1, Making2, Waiting, End, StrongestTells
  <2> QED
    BY <2>2, <2>3, <2>8, <2>9 DEF PageInv, EntriesInv, TokensInv
<1> QED
  BY <1>1, <1>2, <1>3, <1>4, <1>5, <1>6, <1>7, <1>8, <1>9, <1>10 DEF PageNext, SimpleLinkHttpServerCallback

-----------------------------------------------------------------------------
(* What the lists say of what the scan found. *)

(* Live entries have names, and no two of them the same.  *)
LEMMA LiveNames ==
  ASSUME PageInv, Sorted
  PROVE  \A i \in DOMAIN netEntries : Live(i) =>
           /\ netEntries[i].ssid # Hidden /\ netEntries[i].len = SsidLen[netEntries[i].ssid]
           /\ \A j \in DOMAIN netEntries : Live(j) /\ netEntries[i].ssid = netEntries[j].ssid => i = j
<1>1. page \notin {"off", "compare"}
  BY DEF Sorted
<1> QED
  BY <1>1 DEF PageInv, EntriesInv, Genuine, NoTwins, Compared, Same

LEMMA ListIsRight ==
  ASSUME PageInv, Sorted, NEW list \in Seq(ListItem), Written(list)
  PROVE  /\ End(list) + 3 <= MAX_TOKEN_VALUE_LEN /\ Hidden \notin Names(list)
         /\ StrongestTells => WellFormed(list)
         /\ \A k, l \in DOMAIN list : k # l => Name(list[k]) # Name(list[l])
<1>1. End(list) \in Int /\ End(list) <= 61
  BY EndOfList DEF PageInv
<1>2. \A k \in DOMAIN list : list[k].index \in DOMAIN netEntries /\ Live(list[k].index)
  BY DEF Written
<1>3. End(list) + 3 <= MAX_TOKEN_VALUE_LEN
  BY <1>1 DEF MAX_TOKEN_VALUE_LEN
<1>4. Hidden \notin Names(list)
  BY <1>2, LiveNames DEF Name, Names
<1>5. StrongestTells => WellFormed(list)
  BY DEF Written, WellFormed
<1>6. \A k, l \in DOMAIN list : k # l => Name(list[k]) # Name(list[l])
  <2> SUFFICES ASSUME NEW k \in DOMAIN list, NEW l \in DOMAIN list, k # l, Name(list[k]) = Name(list[l])
               PROVE  FALSE
    OBVIOUS
  <2>1. list[k].index = list[l].index
    BY <1>2, LiveNames DEF Name
  <2>2. DOMAIN list \subseteq Int /\ list[k] \in ListItem /\ list[l] \in ListItem
    OBVIOUS
  <2>3. k < l \/ l < k
    BY <2>2
  <2>4. list[k].index < list[l].index \/ list[l].index < list[k].index
    BY <2>3 DEF Written
  <2> QED
    BY <2>1, <2>2, <2>4 DEF ListItem
<1> QED
  BY <1>3, <1>4, <1>5, <1>6

LEMMA ListIsSorted ==
  ASSUME PageInv, Sorted, NEW list \in Seq(ListItem), Written(list) PROVE StrongestFirst(list)
<1> SUFFICES ASSUME NEW k \in DOMAIN list, NEW l \in DOMAIN list, k < l,
                    NEW i \in DOMAIN found, found[i].ssid = Name(list[l])
             PROVE  \E j \in DOMAIN found : found[j].ssid = Name(list[k]) /\ found[j].rssi >= found[i].rssi
  BY DEF StrongestFirst
<1> DEFINE a == list[k].index  b == list[l].index
<1>1. a \in DOMAIN netEntries /\ b \in DOMAIN netEntries /\ Live(a) /\ Live(b) /\ a < b
  BY DEF Written
<1>2. Name(list[k]) = netEntries[a].ssid /\ Name(list[l]) = netEntries[b].ssid
  BY DEF Name
<1> HIDE DEF a, b
<1>3. netEntries[a].rssi >= netEntries[b].rssi
  BY <1>1 DEF PageInv, EntriesInv, InOrder
<1>4. PICK w \in DOMAIN netEntries :
        Live(w) /\ netEntries[w].ssid = found[i].ssid /\ netEntries[w].rssi >= found[i].rssi
  BY <1>1, <1>2, LiveNames DEF PageInv, EntriesInv, BestIsLive
<1>5. w = b
  BY <1>1, <1>2, <1>4, LiveNames
<1>6. PICK j \in DOMAIN found : found[j].ssid = netEntries[a].ssid /\ found[j].rssi = netEntries[a].rssi
  BY <1>1 DEF PageInv, EntriesInv, Genuine
<1>7. netEntries[a] \in Entry /\ netEntries[b] \in Entry /\ found[i] \in Found
  BY <1>1 DEF PageInv, PageTypeOK
<1>8. netEntries[a].rssi >= found[i].rssi
  <2>1. netEntries[a].rssi \in Int /\ netEntries[b].rssi \in Int /\ found[i].rssi \in Int
    BY <1>7 DEF Entry, Found
  <2> QED
    BY <1>3, <1>4, <1>5, <2>1
<1> QED
  BY <1>2, <1>6, <1>8

(* A network that is in no list had no room in the last.  *)
LEMMA OtherHadNoRoom ==
  ASSUME PageInv, Sorted, NEW list \in Seq(ListItem), Written(list), NEW listed,
         Exhausted(list, listed, Len(netEntries) + 1), NEW i \in DOMAIN found, found[i].ssid # Hidden
  PROVE  (\E k \in listed : k \in DOMAIN netEntries /\ netEntries[k].ssid = found[i].ssid) \/ NoRoom(list, found[i].ssid)
<1>1. PICK w \in DOMAIN netEntries : Live(w) /\ netEntries[w].ssid = found[i].ssid
  BY DEF PageInv, EntriesInv, BestIsLive
<1>2. CASE w \in listed
  BY <1>1, <1>2
<1>3. CASE w \notin listed
  <2>1. w < Len(netEntries) + 1 /\ netEntries[w] \in Entry
    BY DEF PageInv, PageTypeOK
  <2>2. ~(Closing + End(list) + netEntries[w].len <= MAX_TOKEN_VALUE_LEN)
    BY <1>1, <1>3, <2>1 DEF Exhausted, Fits
  <2>3. netEntries[w].len = SsidLen[found[i].ssid] /\ netEntries[w].len \in 0 .. 32 /\ End(list) \in Int
    BY <1>1, <2>1, LiveNames, EndOfList DEF Entry, PageInv
  <2> DEFINE end == End(list)  len == netEntries[w].len
  <2>4. len \in Int /\ end \in Int /\ ~(6 + end + len <= 64)
    <3>1. len \in 0 .. 32 /\ end \in Int /\ ~(6 + end + len <= 64)
      BY <2>2, <2>3 DEF Closing, MAX_TOKEN_VALUE_LEN
    <3> HIDE DEF end, len
    <3> QED
      BY <3>1
  <2>5. NoRoom(list, found[i].ssid) <=> end + 3 + len + 3 > 64
    BY <2>3 DEF NoRoom, MAX_TOKEN_VALUE_LEN
  <2> HIDE DEF end, len
  <2>6. end + 3 + len + 3 > 64
    BY <2>4
  <2> QED
    BY <2>5, <2>6
<1> QED
  BY <1>2, <1>3

LEMMA ListsAreRight == PageInv => NetworksListedOnce
<1> SUFFICES ASSUME PageInv PROVE NetworksListedOnce
  OBVIOUS
<1> USE DEF PageInv, TokensInv
<1>1. CASE ~Sorted
  <2>1. token1 = <<>> /\ token2 = <<>> /\ tokens = {} /\ page # "idle"
    BY <1>1 DEF Counters, Sorted
  <2> QED
    BY <2>1 DEF NetworksListedOnce, WellFormed, StrongestFirst, Names, End, Header, MAX_TOKEN_VALUE_LEN
<1>2. CASE Sorted
  <2>1. /\ token1 \in Seq(ListItem) /\ token2 \in Seq(ListItem) /\ Written(token1) /\ Written(token2)
        /\ Indices(token1) \cap Indices(token2) = {}
    BY DEF PageTypeOK, Lists
  <2>2. \A list \in {token1, token2} :
          /\ End(list) + 3 <= MAX_TOKEN_VALUE_LEN
          /\ Hidden \notin Names(list)
          /\ StrongestFirst(list)
          /\ \A k, l \in DOMAIN list : k # l => Name(list[k]) # Name(list[l])
          /\ StrongestTells => WellFormed(list)
    BY <1>2, <2>1, ListIsRight, ListIsSorted
  <2>3. \A list \in {token1, token2} : \A k \in DOMAIN list :
          list[k].index \in DOMAIN netEntries /\ Live(list[k].index) /\ list[k].index \in Indices(list)
    BY <2>1 DEF Written, Indices
  <2>4. Names(token1) \cap Names(token2) = {}
    <3> SUFFICES ASSUME NEW k \in DOMAIN token1, NEW l \in DOMAIN token2, Name(token1[k]) = Name(token2[l])
                 PROVE  FALSE
      BY DEF Names
    <3>1. token1[k].index = token2[l].index
      BY <1>2, <2>3, LiveNames DEF Name
    <3> QED
      BY <2>1, <2>3, <3>1
  <2>5. \A list \in {token1, token2} : \A k \in Indices(list) : netEntries[k].ssid \in Names(list)
    BY DEF Indices, Names, Name
  <2>6. ASSUME page = "idle", NEW i \in DOMAIN found, found[i].ssid # Hidden, 1 \in tokens
        PROVE  found[i].ssid \in Names(token1) \/ NoRoom(token1, found[i].ssid)
    <3>1. Exhausted(token1, Indices(token1), Len(netEntries) + 1)
      BY <2>6 DEF Lists, Upto
    <3>2. \/ \E k \in Indices(token1) : k \in DOMAIN netEntries /\ netEntries[k].ssid = found[i].ssid
          \/ NoRoom(token1, found[i].ssid)
      BY <1>2, <2>1, <2>6, <3>1, OtherHadNoRoom
    <3> QED
      BY <2>5, <3>2
  <2>7. ASSUME page = "idle", NEW i \in DOMAIN found, found[i].ssid # Hidden, 2 \in tokens
        PROVE  found[i].ssid \in Names(token1) \cup Names(token2) \/ NoRoom(token2, found[i].ssid)
    <3>1. Exhausted(token2, Indices(token1) \cup Indices(token2), Len(netEntries) + 1)
      BY <2>7 DEF Lists, Upto
    <3>2. \/ \E k \in Indices(token1) \cup Indices(token2) :
               k \in DOMAIN netEntries /\ netEntries[k].ssid = found[i].ssid
          \/ NoRoom(token2, found[i].ssid)
      BY <1>2, <2>1, <2>7, <3>1, OtherHadNoRoom
    <3> QED
      BY <2>5, <3>2
  <2> QED
    BY <2>2, <2>4, <2>6, <2>7 DEF NetworksListedOnce
<1> QED
  BY <1>1, <1>2

(* "Remove duplicates (keep best RSSI)": whatever a scan finds, the lists   *)
(* the page gets name networks, the strongest first, none of them twice,   *)
(* and one that is in neither had no room; if the strongest does not hide  *)
(* its name, they are well formed.                                         *)
THEOREM PageListsNetworks == PageSpec => []NetworksListedOnce
<1>1. PageInv /\ [PageNext]_pageVars => PageInv'
  BY NextPage
<1> QED
  BY <1>1, InitPage, ListsAreRight, PTL DEF PageSpec

------------------------------------------------------------------------------
(***************************************************************************)
(* Proofs about Calendar: for every second of every day from the second    *)
(* of 2017 to the last that the clock's 32 bits hold.  The years are found *)
(* by a function that recurs over the passes of a loop: what it finds is   *)
(* shown by induction over them.                                           *)
(***************************************************************************)

(* Induction over the naturals, for a set of them.  *)
Smaller == {p \in Nat \X Nat : p[1] < p[2]}

LEMMA Induction ==
  ASSUME NEW S, 0 \in S, \A n \in Nat : n \in S => n + 1 \in S
  PROVE  Nat \subseteq S
<1>1. IsWellFoundedOn(Smaller, Nat)
  BY NatLessThanWellFounded DEF OpToRel, Smaller
<1> SUFFICES ASSUME Nat \ S # {} PROVE FALSE
  OBVIOUS
<1>2. PICK x \in Nat \ S : \A y \in Nat \ S : <<y, x>> \notin Smaller
  BY <1>1, WFMin
<1>3. x - 1 \in Nat /\ x - 1 < x /\ x = x - 1 + 1
  BY <1>2
<1> QED BY <1>2, <1>3 DEF Smaller

(* The passes of the loop that finds the year, as a function of them.  *)
YearRun(g, t, N) == \A k \in 0 .. N : g[k] = IF k = 0 THEN <<YEAR2017, t>> ELSE YearPass(g[k - 1])
YearRuns(t, N) == \E g : YearRun(g, t, N)

LEMMA YearsRun ==
  ASSUME NEW t, NEW N \in Nat
  PROVE  YearRuns(t, N)
<1> DEFINE S == {n \in Nat : YearRuns(t, n)}
<1>1. 0 \in S
  <2> DEFINE g == [k \in 0 .. 0 |-> <<YEAR2017, t>>]
  <2>1. YearRun(g, t, 0)
    BY DEF YearRun
  <2> QED BY <2>1 DEF YearRuns
<1>2. ASSUME NEW n \in Nat, n \in S
      PROVE  n + 1 \in S
  <2>1. PICK g : YearRun(g, t, n)
    BY <1>2 DEF YearRuns
  <2> DEFINE h == [k \in 0 .. n + 1 |-> IF k = n + 1 THEN YearPass(g[n]) ELSE g[k]]
  <2>2. ASSUME NEW k \in 0 .. n + 1
        PROVE  h[k] = IF k = 0 THEN <<YEAR2017, t>> ELSE YearPass(h[k - 1])
    <3>1. CASE k = n + 1
      BY <3>1
    <3>2. CASE k = 0
      BY <3>2, <2>1 DEF YearRun
    <3>3. CASE k \in 1 .. n
      <4>1. h[k] = g[k] /\ h[k - 1] = g[k - 1] /\ k # 0
        BY <3>3
      <4>2. g[k] = YearPass(g[k - 1])
        BY <2>1, <3>3 DEF YearRun
      <4> QED BY <4>1, <4>2
    <3> QED BY <3>1, <3>2, <3>3
  <2> HIDE DEF h
  <2>3. YearRun(h, t, n + 1)
    BY <2>2 DEF YearRun
  <2> QED BY <2>3 DEF YearRuns
<1>3. N \in S
  <2> HIDE DEF S
  <2> QED BY <1>1, <1>2, Induction
<1> QED BY <1>3

LEMMA YearOfIs ==
  ASSUME NEW t \in Nat, NEW N \in Nat, N = t \div SEC_IN_YEAR
  PROVE  \E g : /\ YearOf(t) = g[N]
               /\ g[0] = <<YEAR2017, t>>
               /\ \A k \in 1 .. N : g[k] = YearPass(g[k - 1])
<1> DEFINE Def(g) == g = [k \in 0 .. t \div SEC_IN_YEAR |-> IF k = 0 THEN <<YEAR2017, t>> ELSE YearPass(g[k - 1])]
           pass == CHOOSE g : Def(g)
<1>1. \E g : Def(g)
  <2>1. PICK g : YearRun(g, t, N)
    BY YearsRun DEF YearRuns
  <2> DEFINE h == [k \in 0 .. N |-> g[k]]
  <2>2. \A k \in 0 .. N : h[k] = IF k = 0 THEN <<YEAR2017, t>> ELSE YearPass(h[k - 1])
    BY <2>1 DEF YearRun
  <2>3. Def(h)
    BY <2>2
  <2> QED BY <2>3
<1>2. Def(pass)
  BY <1>1
<1>3. YearOf(t) = pass[N]
  BY DEF YearOf
<1>4. \A k \in 0 .. N : pass[k] = IF k = 0 THEN <<YEAR2017, t>> ELSE YearPass(pass[k - 1])
  <2> HIDE DEF pass
  <2> QED BY <1>2
<1> HIDE DEF pass
<1>5. /\ pass[0] = <<YEAR2017, t>>
      /\ \A k \in 1 .. N : pass[k] = YearPass(pass[k - 1])
  BY <1>4
<1> QED BY <1>3, <1>5

(* The days the loop takes off for the years before y.  *)
TakenOff(y) == 365 * (y - 2017) + (y - 2016) \div 4

(* Where the loop may be: the year after the first one it has left.  *)
InYear(y, r, t) ==
  /\ y \in Nat /\ y >= 2017
  /\ r \in Nat /\ r = t - SEC_IN_DAY * TakenOff(y)
  /\ y # 2017 => r > IF y % 4 = 0 THEN 0 ELSE SEC_IN_DAY

LEMMA NextYear ==
  ASSUME NEW t \in Nat, NEW y, NEW r, InYear(y, r, t), r > SEC_IN_LEAP_YEAR
  PROVE  \E z, s : YearPass(<<y, r>>) = <<z, s>> /\ InYear(z, s, t) /\ s <= r - SEC_IN_YEAR
<1> DEFINE z == y + 1
           s == r - SEC_IN_YEAR - IF (y + 1) % 4 = 0 THEN SEC_IN_DAY ELSE 0
<1>1. YearPass(<<y, r>>) = <<z, s>>
  BY DEF YearPass
<1>2. y \in Nat /\ y >= 2017 /\ r \in Nat /\ r > 366 * 86400 /\ r = t - 86400 * TakenOff(y)
  BY DEF InYear, SEC_IN_LEAP_YEAR, SEC_IN_DAY
<1>3. TakenOff(z) = TakenOff(y) + 365 + IF z % 4 = 0 THEN 1 ELSE 0
  BY <1>2 DEF TakenOff
<1>4. TakenOff(y) \in Int
  BY <1>2 DEF TakenOff
<1>5. s = r - 86400 * (365 + IF z % 4 = 0 THEN 1 ELSE 0)
  BY <1>2 DEF SEC_IN_YEAR, SEC_IN_DAY
<1>6. InYear(z, s, t) /\ s <= r - SEC_IN_YEAR
  <2> HIDE DEF s
  <2>1. CASE z % 4 = 0
    BY <1>2, <1>3, <1>4, <1>5, <2>1 DEF InYear, SEC_IN_YEAR, SEC_IN_DAY
  <2>2. CASE z % 4 # 0
    BY <1>2, <1>3, <1>4, <1>5, <2>2 DEF InYear, SEC_IN_YEAR, SEC_IN_DAY
  <2> QED BY <2>1, <2>2
<1> QED BY <1>1, <1>6

(* The year found, and what is left of the time.  *)
LEMMA YearFound ==
  ASSUME NEW t \in Nat
  PROVE  \E y, r : YearOf(t) = <<y, r>> /\ InYear(y, r, t) /\ r <= SEC_IN_LEAP_YEAR
<1> DEFINE N == t \div SEC_IN_YEAR
           Left(r, k) == r <= SEC_IN_LEAP_YEAR \/ r + k * SEC_IN_YEAR <= t
<1>1. N \in Nat /\ t < (N + 1) * SEC_IN_YEAR
  BY DEF SEC_IN_YEAR, SEC_IN_DAY
<1>2. PICK g : YearOf(t) = g[N] /\ g[0] = <<YEAR2017, t>> /\ \A k \in 1 .. N : g[k] = YearPass(g[k - 1])
  BY <1>1, YearOfIs
<1> DEFINE Reached(k) == \E y, r : g[k] = <<y, r>> /\ InYear(y, r, t) /\ Left(r, k)
           S == {k \in Nat : k <= N => Reached(k)}
<1>3. 0 \in S
  <2>1. InYear(YEAR2017, t, t) /\ Left(t, 0)
    BY DEF InYear, YEAR2017, TakenOff, SEC_IN_DAY, SEC_IN_YEAR
  <2> QED BY <1>2, <2>1
<1>4. ASSUME NEW k \in Nat, k \in S
      PROVE  k + 1 \in S
  <2> SUFFICES ASSUME k + 1 <= N
               PROVE  Reached(k + 1)
    OBVIOUS
  <2>1. PICK y, r : g[k] = <<y, r>> /\ InYear(y, r, t) /\ Left(r, k)
    BY <1>1, <1>4
  <2>2. k + 1 \in 1 .. N /\ (k + 1) - 1 = k
    BY <1>1
  <2>3. g[k + 1] = YearPass(<<y, r>>)
    BY <1>2, <2>1, <2>2
  <2>4. CASE r > SEC_IN_LEAP_YEAR
    <3>1. PICK z, s : YearPass(<<y, r>>) = <<z, s>> /\ InYear(z, s, t) /\ s <= r - SEC_IN_YEAR
      BY <2>1, <2>4, NextYear
    <3>2. r \in Nat /\ s \in Nat
      BY <2>1, <3>1 DEF InYear
    <3>3. Left(s, k + 1)
      BY <2>1, <2>4, <3>1, <3>2 DEF SEC_IN_YEAR, SEC_IN_LEAP_YEAR, SEC_IN_DAY
    <3> QED BY <2>3, <3>1, <3>3
  <2>5. CASE ~(r > SEC_IN_LEAP_YEAR)
    <3>1. r \in Nat
      BY <2>1 DEF InYear
    <3>2. YearPass(<<y, r>>) = <<y, r>> /\ Left(r, k + 1)
      BY <2>5, <3>1 DEF YearPass, SEC_IN_LEAP_YEAR, SEC_IN_DAY
    <3> QED BY <2>1, <2>3, <3>2
  <2> QED BY <2>4, <2>5
<1>5. Reached(N)
  <2>1. N \in S
    <3> HIDE DEF S, N
    <3> QED BY <1>1, <1>3, <1>4, Induction
  <2> QED BY <1>1, <2>1
<1>6. PICK y, r : g[N] = <<y, r>> /\ InYear(y, r, t) /\ Left(r, N)
  BY <1>5
<1>7. r <= SEC_IN_LEAP_YEAR
  <2>1. r \in Nat
    BY <1>6 DEF InYear
  <2> HIDE DEF N
  <2> QED BY <1>1, <1>6, <2>1 DEF SEC_IN_YEAR, SEC_IN_LEAP_YEAR, SEC_IN_DAY
<1> QED BY <1>2, <1>6, <1>7

(* A sum over the months is a function of their number, whatever their     *)
(* lengths.                                                                *)
Summing(f, e) == f = [n \in 0 .. 12 |-> IF n = 0 THEN 0 ELSE f[n - 1] + e[n]]

LEMMA SumIs ==
  ASSUME NEW e, \A n \in 1 .. 12 : e[n] \in Nat, NEW f, f = CHOOSE g : Summing(g, e)
  PROVE  /\ f[0] = 0 /\ f[1] = e[1] /\ f[2] = f[1] + e[2] /\ f[3] = f[2] + e[3]
         /\ f[4] = f[3] + e[4] /\ f[5] = f[4] + e[5] /\ f[6] = f[5] + e[6]
         /\ f[7] = f[6] + e[7] /\ f[8] = f[7] + e[8] /\ f[9] = f[8] + e[9]
         /\ f[10] = f[9] + e[10] /\ f[11] = f[10] + e[11] /\ f[12] = f[11] + e[12]
<1>0. PICK s1, s2, s3, s4, s5, s6 : /\ s1 = e[1] /\ s2 = s1 + e[2] /\ s3 = s2 + e[3]
                                     /\ s4 = s3 + e[4] /\ s5 = s4 + e[5] /\ s6 = s5 + e[6]
  OBVIOUS
<1>1. PICK s7, s8, s9, s10, s11, s12 : /\ s7 = s6 + e[7] /\ s8 = s7 + e[8] /\ s9 = s8 + e[9]
                                        /\ s10 = s9 + e[10] /\ s11 = s10 + e[11] /\ s12 = s11 + e[12]
  OBVIOUS
<1> DEFINE h == [n \in 0 .. 12 |->
                  IF n = 0 THEN 0 ELSE IF n = 1 THEN s1 ELSE IF n = 2 THEN s2 ELSE IF n = 3 THEN s3
                  ELSE IF n = 4 THEN s4 ELSE IF n = 5 THEN s5 ELSE IF n = 6 THEN s6 ELSE IF n = 7 THEN s7
                  ELSE IF n = 8 THEN s8 ELSE IF n = 9 THEN s9 ELSE IF n = 10 THEN s10 ELSE IF n = 11 THEN s11
                  ELSE s12]
<1>2. h = [n \in 0 .. 12 |-> h[n]]
  OBVIOUS
<1>3. \A n \in 0 .. 12 : h[n] = IF n = 0 THEN 0 ELSE h[n - 1] + e[n]
  BY <1>0, <1>1
<1> HIDE DEF h
<1>4. Summing(h, e)
  BY <1>2, <1>3 DEF Summing
<1>5. Summing(f, e)
  BY <1>4
<1>6. \A n \in 0 .. 12 : f[n] = IF n = 0 THEN 0 ELSE f[n - 1] + e[n]
  BY <1>5 DEF Summing
<1> QED BY <1>6

LEMMA DaysUptoAre ==
  /\ DaysUpto[0] = 0 /\ DaysUpto[1] = 31 /\ DaysUpto[2] = 59 /\ DaysUpto[3] = 90
  /\ DaysUpto[4] = 120 /\ DaysUpto[5] = 151 /\ DaysUpto[6] = 181 /\ DaysUpto[7] = 212
  /\ DaysUpto[8] = 243 /\ DaysUpto[9] = 273 /\ DaysUpto[10] = 304 /\ DaysUpto[11] = 334
  /\ DaysUpto[12] = 365
<1>1. \A n \in 1 .. 12 : DaysPerMonth[n] \in Nat
  BY DEF DaysPerMonth
<1>2. DaysUpto = CHOOSE g : Summing(g, DaysPerMonth)
  BY DEF DaysUpto, Summing
<1> QED BY <1>1, <1>2, SumIs DEF DaysPerMonth

(* The months as they are: those behind February of a leap year begin a    *)
(* day later.                                                              *)
LEMMA BeforeMonthIs ==
  ASSUME NEW y \in Nat, NEW i \in 1 .. 12
  PROVE  BeforeMonth(y, i) = DaysUpto[i - 1] + IF i > 2 /\ Leap(y) THEN 1 ELSE 0
<1> DEFINE e == [n \in 1 .. 12 |-> Month(y, n)]
           Def(g) == g = [n \in 0 .. 12 |-> IF n = 0 THEN 0 ELSE g[n - 1] + Month(y, n)]
           upto == CHOOSE g : Def(g)
<1>1. \A g : Def(g) <=> Summing(g, e)
  BY DEF Summing
<1>2. upto = CHOOSE g : Summing(g, e)
  BY <1>1
<1>3. BeforeMonth(y, i) = upto[i - 1]
  BY DEF BeforeMonth
<1>4. /\ e[1] = 31 /\ e[2] = (IF Leap(y) THEN 29 ELSE 28) /\ e[3] = 31 /\ e[4] = 30 /\ e[5] = 31 /\ e[6] = 30
      /\ e[7] = 31 /\ e[8] = 31 /\ e[9] = 30 /\ e[10] = 31 /\ e[11] = 30 /\ e[12] = 31
  BY DEF Month, DaysPerMonth
<1> HIDE DEF e, upto
<1>5. \A n \in 1 .. 12 : e[n] \in Nat
  BY <1>4
<1>6. upto[0] = 0 /\ upto[1] = 31
  BY <1>2, <1>4, <1>5, SumIs
<1>7. \A n \in 2 .. 12 : upto[n] = DaysUpto[n] + IF Leap(y) THEN 1 ELSE 0
  BY <1>2, <1>4, <1>5, SumIs, DaysUptoAre
<1> QED BY <1>3, <1>6, <1>7, DaysUptoAre

LEMMA FindMonthIs ==
  ASSUME NEW day \in Nat, NEW i \in 0 .. 11, DaysUpto[i] <= day, day < DaysUpto[i + 1]
  PROVE  FindMonth(day) = <<i, day - DaysUpto[i]>>
<1> DEFINE lasting == {k \in 0 .. 11 : day < DaysUpto[k + 1]}
           first == CHOOSE k \in lasting : \A n \in lasting : k <= n
<1>1. \A k \in 0 .. 11 : k < i => ~(day < DaysUpto[k + 1])
  BY DaysUptoAre
<1>2. i \in lasting /\ \A n \in lasting : i <= n
  BY <1>1
<1>3. \A k \in lasting : (\A n \in lasting : k <= n) => k = i
  BY <1>2
<1>4. first = i
  BY <1>2, <1>3
<1>5. FindMonth(day) = IF lasting = {} THEN <<0, day - DaysUpto[12] + DaysPerMonth[1]>> ELSE <<first, day - DaysUpto[first]>>
  BY DEF FindMonth
<1> HIDE DEF lasting, first
<1> QED BY <1>2, <1>4, <1>5

(* The year and the month of a day, which are the only ones.  *)
YearHas(y, day) == y \in 2016 .. 2040 /\ Before(y) <= day /\ day < Before(y + 1)

(* The days of a month, counted within the year.  *)
MonthHas(y, m, q) == m \in 1 .. 12 /\ 0 <= q - BeforeMonth(y, m) /\ q - BeforeMonth(y, m) < Month(y, m)

LEMMA YearSteps ==
  ASSUME NEW y \in Nat, y >= 2016
  PROVE  Before(y) \in Int /\ Before(y + 1) = Before(y) + 365 + IF Leap(y) THEN 1 ELSE 0
BY DEF Before, Leap

LEMMA MonthIs ==
  ASSUME NEW y \in Nat, NEW m \in 1 .. 12
  PROVE  /\ BeforeMonth(y, m) = DaysUpto[m - 1] + IF m > 2 /\ Leap(y) THEN 1 ELSE 0
         /\ Month(y, m) = DaysUpto[m] - DaysUpto[m - 1] + IF m = 2 /\ Leap(y) THEN 1 ELSE 0
         /\ DaysUpto[m - 1] \in Nat /\ DaysUpto[m] \in Nat /\ DaysUpto[m] > DaysUpto[m - 1]
<1>1. BeforeMonth(y, m) = DaysUpto[m - 1] + IF m > 2 /\ Leap(y) THEN 1 ELSE 0
  BY BeforeMonthIs
<1>2. Month(y, m) = DaysUpto[m] - DaysUpto[m - 1] + IF m = 2 /\ Leap(y) THEN 1 ELSE 0
  BY DaysUptoAre DEF Month, DaysPerMonth
<1>3. DaysUpto[m - 1] \in Nat /\ DaysUpto[m] \in Nat /\ DaysUpto[m] > DaysUpto[m - 1]
  BY DaysUptoAre
<1> QED BY <1>1, <1>2, <1>3

LEMMA YearIsOne ==
  ASSUME NEW day \in Nat, NEW y, YearHas(y, day), NEW z, YearHas(z, day)
  PROVE  y = z
BY DEF YearHas, Before

(* A month ends before the next begins.  *)
LEMMA MonthsFollow ==
  ASSUME NEW y \in Nat, NEW m \in 1 .. 12, NEW k \in 1 .. 12, m < k
  PROVE  BeforeMonth(y, m) + Month(y, m) <= BeforeMonth(y, k) /\ BeforeMonth(y, m) \in Nat /\ Month(y, m) \in Nat
<1>1. \A i, j \in 0 .. 12 : i <= j => DaysUpto[i] <= DaysUpto[j]
  BY DaysUptoAre
<1>2. DaysUpto[m] <= DaysUpto[k - 1]
  BY <1>1
<1>3. /\ BeforeMonth(y, m) = DaysUpto[m - 1] + IF m > 2 /\ Leap(y) THEN 1 ELSE 0
      /\ Month(y, m) = DaysUpto[m] - DaysUpto[m - 1] + IF m = 2 /\ Leap(y) THEN 1 ELSE 0
      /\ BeforeMonth(y, k) = DaysUpto[k - 1] + IF k > 2 /\ Leap(y) THEN 1 ELSE 0
  BY MonthIs
<1>4. DaysUpto[m - 1] \in Nat /\ DaysUpto[m] \in Nat /\ DaysUpto[k - 1] \in Nat /\ DaysUpto[m] > DaysUpto[m - 1]
  BY MonthIs
<1> QED BY <1>2, <1>3, <1>4

LEMMA MonthIsOne ==
  ASSUME NEW y \in Nat, NEW q \in Int, NEW m, MonthHas(y, m, q), NEW k, MonthHas(y, k, q)
  PROVE  m = k
<1>1. m \in 1 .. 12 /\ k \in 1 .. 12
  BY DEF MonthHas
<1>2. ASSUME NEW i \in 1 .. 12, MonthHas(y, i, q), NEW j \in 1 .. 12, MonthHas(y, j, q), i < j
      PROVE  FALSE
  <2>1. BeforeMonth(y, i) + Month(y, i) <= BeforeMonth(y, j) /\ BeforeMonth(y, i) \in Nat /\ Month(y, i) \in Nat
    BY <1>2, MonthsFollow
  <2>2. BeforeMonth(y, j) \in Nat
    BY MonthIs
  <2> QED BY <1>2, <2>1, <2>2 DEF MonthHas
<1>3. ~(m < k) /\ ~(k < m)
  BY <1>1, <1>2
<1> QED BY <1>1, <1>3

LEMMA DateIs ==
  ASSUME NEW t \in Nat, t \div SEC_IN_DAY \in Nat, NEW y, NEW m, YearHas(y, t \div SEC_IN_DAY),
         NEW q \in Int, q = (t \div SEC_IN_DAY) - Before(y), MonthHas(y, m, q)
  PROVE  Date(t) = <<y, m, q - BeforeMonth(y, m) + 1, t % SEC_IN_DAY>>
<1> DEFINE day == t \div SEC_IN_DAY
           A(n) == Before(n) <= day /\ day < Before(n + 1)
           z == CHOOSE n \in 2016 .. 2040 : A(n)
           B(i) == LET r == day - Before(z) - BeforeMonth(z, i) IN 0 <= r /\ r < Month(z, i)
           k == CHOOSE i \in 1 .. 12 : B(i)
<1>1. Date(t) = <<z, k, day - Before(z) - BeforeMonth(z, k) + 1, t % SEC_IN_DAY>>
  BY DEF Date
<1>a. YearHas(y, day) /\ day \in Nat
  OBVIOUS
<1>2. ASSUME NEW n \in 2016 .. 2040, A(n)
      PROVE  n = y
  <2>1. YearHas(n, day)
    BY <1>2 DEF YearHas
  <2> HIDE DEF day
  <2> QED BY <1>a, <2>1, YearIsOne
<1> HIDE DEF day
<1>3. z = y
  <2>1. y \in 2016 .. 2040 /\ A(y)
    BY DEF YearHas, day
  <2> HIDE DEF A
  <2> QED BY <1>2, <2>1
<1> HIDE DEF z
<1>4. ASSUME NEW i \in 1 .. 12
      PROVE  B(i) <=> MonthHas(y, i, q)
  BY <1>3 DEF MonthHas, day
<1>5. \A i \in 1 .. 12 : B(i) => i = m
  <2>1. y \in Nat
    BY DEF YearHas
  <2> HIDE DEF B
  <2> QED BY <1>4, <2>1, MonthIsOne
<1>6. k = m
  <2>1. m \in 1 .. 12 /\ B(m)
    BY <1>4 DEF MonthHas
  <2> HIDE DEF B
  <2> QED BY <1>5, <2>1
<1> HIDE DEF k
<1> QED BY <1>1, <1>3, <1>6 DEF day

(* Every day until then has a year and a month.  *)
LEMMA YearExists ==
  ASSUME NEW day \in Nat, day <= 6975
  PROVE  \E y \in 2017 .. 2040 : YearHas(y, day)
<1> DEFINE j == (4 * day + 3) \div 1461
<1>1. j \in Nat /\ 1461 * j <= 4 * day + 3 /\ 4 * day + 3 < 1461 * j + 1461
  OBVIOUS
<1> HIDE DEF j
<1>2. 1461 * j <= 27903
  BY <1>1
<1>3. j <= 19
  BY <1>1, <1>2
<1>4. 365 * j + j \div 4 <= day /\ day < 365 * (j + 1) + (j + 1) \div 4
  BY <1>1
<1>5. PICK y \in 2017 .. 2040 : y = j + 2017
  BY <1>1, <1>3
<1>6. y - 2017 = j /\ y + 1 - 2017 = j + 1
  BY <1>1, <1>5
<1> QED BY <1>4, <1>6 DEF YearHas, Before

LEMMA MonthExists ==
  ASSUME NEW y \in Nat, NEW q \in Nat, q < 365 + IF Leap(y) THEN 1 ELSE 0
  PROVE  \E m \in 1 .. 12 : MonthHas(y, m, q)
<1>1. SUFFICES ASSUME \A m \in 1 .. 12 : ~MonthHas(y, m, q)
               PROVE  FALSE
  OBVIOUS
<1>2. \A m \in 1 .. 12 : BeforeMonth(y, m) = DaysUpto[m - 1] + IF m > 2 /\ Leap(y) THEN 1 ELSE 0
  BY MonthIs
<1>3. \A m \in 1 .. 12 : Month(y, m) = DaysUpto[m] - DaysUpto[m - 1] + IF m = 2 /\ Leap(y) THEN 1 ELSE 0
  BY MonthIs
<1>4. CASE Leap(y)
  BY <1>1, <1>2, <1>3, <1>4, DaysUptoAre DEF MonthHas
<1>5. CASE ~Leap(y)
  BY <1>1, <1>2, <1>3, <1>5, DaysUptoAre DEF MonthHas
<1> QED BY <1>4, <1>5

(* What Date says of the time t.  *)
DateOf(t, y, m, q) ==
  /\ y \in 2017 .. 2040 /\ q \in Nat /\ MonthHas(y, m, q)
  /\ t \div SEC_IN_DAY = Before(y) + q /\ q < 365 + IF Leap(y) THEN 1 ELSE 0
  /\ Date(t) = <<y, m, q - BeforeMonth(y, m) + 1, t % SEC_IN_DAY>>

LEMMA DateFound ==
  ASSUME NEW t \in Nat, t \div SEC_IN_DAY <= 6975
  PROVE  \E y, m, q : DateOf(t, y, m, q)
<1>0. PICK day \in Nat : day = t \div SEC_IN_DAY
  BY DEF SEC_IN_DAY
<1>1. PICK y \in 2017 .. 2040 : YearHas(y, day)
  BY <1>0, YearExists
<1>2. PICK q \in Nat : q = day - Before(y) /\ day = Before(y) + q
  <2>1. Before(y) \in Int /\ Before(y) <= day
    BY <1>1, YearSteps DEF YearHas
  <2> QED BY <1>0, <2>1
<1>3. q < 365 + IF Leap(y) THEN 1 ELSE 0
  <2>1. Before(y) \in Int /\ Before(y + 1) = Before(y) + 365 + IF Leap(y) THEN 1 ELSE 0
    BY YearSteps
  <2> QED BY <1>1, <1>2, <2>1 DEF YearHas
<1>4. PICK m \in 1 .. 12 : MonthHas(y, m, q)
  BY <1>3, MonthExists
<1>5. Date(t) = <<y, m, q - BeforeMonth(y, m) + 1, t % SEC_IN_DAY>>
  BY <1>0, <1>1, <1>2, <1>4, DateIs
<1>6. DateOf(t, y, m, q)
  BY <1>0, <1>2, <1>3, <1>4, <1>5 DEF DateOf
<1> QED BY <1>6

(* Where the loop's year begins: a day late in a leap year.  *)
LEMMA TakenOffIs ==
  ASSUME NEW y \in Nat, y >= 2017
  PROVE  TakenOff(y) \in Nat /\ TakenOff(y) = Before(y) + IF Leap(y) THEN 1 ELSE 0
BY DEF TakenOff, Before, Leap

LEMMA YearGiven ==
  ASSUME NEW day \in Nat, NEW y \in Nat, y >= 2017, NEW q \in Nat, day <= 6975,
         day = Before(y) + q, q < 365 + IF Leap(y) THEN 1 ELSE 0
  PROVE  YearHas(y, day)
<1>1. Before(y + 1) = Before(y) + 365 + IF Leap(y) THEN 1 ELSE 0
  BY YearSteps
<1>2. Before(y) \in Int /\ Before(y) <= 6975
  BY YearSteps
<1>3. y <= 2040
  BY <1>2 DEF Before
<1> QED BY <1>1, <1>2, <1>3 DEF YearHas

(* The day of the year Date finds is the one the day gives.  *)
LEMMA DayGiven ==
  ASSUME NEW t \in Nat, NEW day \in Nat, day = t \div SEC_IN_DAY, day <= 6975,
         NEW y, NEW m, NEW q, DateOf(t, y, m, q),
         NEW z \in Nat, z >= 2017, NEW d \in Nat, day = Before(z) + d, d < 365 + IF Leap(z) THEN 1 ELSE 0
  PROVE  y = z /\ q = d
<1>1. YearHas(z, day)
  BY YearGiven
<1>2. y \in 2017 .. 2040 /\ q \in Nat /\ day = Before(y) + q /\ q < 365 + IF Leap(y) THEN 1 ELSE 0
  BY DEF DateOf
<1>3. y \in Nat /\ y >= 2017
  BY <1>2
<1>4. YearHas(y, day)
  BY <1>2, <1>3, YearGiven
<1>5. y = z
  BY <1>1, <1>4, YearIsOne
<1>6. Before(z) \in Int
  BY YearSteps
<1> QED BY <1>2, <1>5, <1>6

(* TIME_posix2lt, given the year its loop finds and the month of the day.  *)
LocalParts(t, y, r, R, d, m, k, s) ==
  /\ YearOf(t) = <<y, r>> /\ r \in Nat /\ R \in Nat /\ R = r - 25200
  /\ d \in Nat /\ d <= 364 /\ d = R \div SEC_IN_DAY /\ s = R % SEC_IN_DAY
  /\ m \in 1 .. 12 /\ DaysUpto[m - 1] <= d /\ d < DaysUpto[m] /\ k = d - DaysUpto[m - 1] + 1

LEMMA LocalTimeIs ==
  ASSUME NEW t, NEW y, NEW r, NEW R, NEW d, NEW m, NEW k, NEW s, LocalParts(t, y, r, R, d, m, k, s)
  PROVE  TIME_posix2lt(t) = <<y, m, k, s>>
<1>0. /\ YearOf(t) = <<y, r>> /\ r \in Nat /\ R \in Nat /\ R = r - 25200
      /\ d \in Nat /\ d <= 364 /\ d = R \div SEC_IN_DAY /\ s = R % SEC_IN_DAY
      /\ m \in 1 .. 12 /\ DaysUpto[m - 1] <= d /\ d < DaysUpto[m] /\ k = d - DaysUpto[m - 1] + 1
  BY DEF LocalParts
<1>1. YearOf(t)[1] = y /\ YearOf(t)[2] - GMT_DIFF_TIME_HRS * SEC_IN_HOUR = R
  BY <1>0 DEF GMT_DIFF_TIME_HRS, SEC_IN_HOUR
<1>2. Days(R) = d /\ Secs(R) = s
  BY <1>0 DEF Days, Secs
<1>3. Rem(d, IF y % 4 = 0 THEN 366 ELSE 365) = d
  <2>1. d % 366 = d /\ d % 365 = d
    BY <1>0
  <2> QED BY <1>0, <2>1 DEF Rem
<1>4. PICK i \in 0 .. 11 : i = m - 1 /\ m = i + 1
  BY <1>0
<1>5. FindMonth(d) = <<i, d - DaysUpto[i]>>
  BY <1>0, <1>4, FindMonthIs
<1>6. PICK n \in Nat : n = d - DaysUpto[i] /\ n <= 364 /\ k = n + 1
  BY <1>0, <1>4, DaysUptoAre
<1>7. (n + 1) % 65536 = k
  BY <1>6
<1> QED BY <1>1, <1>2, <1>3, <1>4, <1>5, <1>6, <1>7 DEF TIME_posix2lt

LEMMA LocalIsRight ==
  ASSUME NEW t \in Nat, NEW T \in Nat, T = t - 25200, NEW day \in Nat, day = T \div SEC_IN_DAY, day <= 6975,
         ~LeapSpring(Date(T)), ~NewYear(Date(T))
  PROVE  TIME_posix2lt(t) = Date(T)
<1>1. PICK y, r : YearOf(t) = <<y, r>> /\ InYear(y, r, t) /\ r <= SEC_IN_LEAP_YEAR
  BY YearFound
<1>2. y \in Nat /\ y >= 2017 /\ r \in Nat /\ r = t - SEC_IN_DAY * TakenOff(y) /\ r <= 366 * 86400
  BY <1>1 DEF InYear, SEC_IN_LEAP_YEAR, SEC_IN_DAY
<1>3. PICK b \in Nat : b = TakenOff(y) /\ b = Before(y) + IF Leap(y) THEN 1 ELSE 0
  BY <1>2, TakenOffIs
<1>4. T = 86400 * b + r - 25200
  BY <1>2, <1>3 DEF SEC_IN_DAY
<1>5. 86400 * day <= T /\ T < 86400 * day + 86400 /\ T % SEC_IN_DAY = T - 86400 * day
  BY DEF SEC_IN_DAY
<1>6. PICK y0, m, q : DateOf(T, y0, m, q)
  BY DateFound
<1>7. Date(T) = <<y0, m, q - BeforeMonth(y0, m) + 1, T % SEC_IN_DAY>> /\ MonthHas(y0, m, q) /\ m \in 1 .. 12 /\ y0 \in Nat /\ q \in Nat
  BY <1>6 DEF DateOf, MonthHas
<1>8. ~(Leap(y0) /\ m <= 2)
  BY <1>7 DEF LeapSpring
<1>9. ~(m = 1 /\ q = 0 /\ T % SEC_IN_DAY <= 61200)
  <2>1. BeforeMonth(y0, 1) = 0
    BY <1>7, MonthIs, DaysUptoAre
  <2> QED BY <1>7, <2>1 DEF NewYear, GMT_DIFF_TIME_HRS, SEC_IN_HOUR
<1>10. q = 0 => m = 1
  <2>1. MonthHas(y0, 1, 0)
    <3>1. BeforeMonth(y0, 1) = 0 /\ Month(y0, 1) = 31
      BY <1>7, MonthIs, DaysUptoAre
    <3> QED BY <3>1 DEF MonthHas
  <2> QED BY <1>7, <2>1, MonthIsOne
<1>11. r >= 25200
  <2> SUFFICES ASSUME r < 25200
               PROVE  FALSE
    BY <1>2
  <2>1. y # 2017 /\ Leap(y)
    <3>1. y = 2017 => TakenOff(y) = 0
      BY DEF TakenOff
    <3>2. y # 2017
      BY <3>1, <1>2, <1>3, <1>4
    <3>3. r > IF y % 4 = 0 THEN 0 ELSE SEC_IN_DAY
      BY <3>2, <1>1 DEF InYear
    <3> QED BY <3>2, <3>3, <1>2 DEF Leap, SEC_IN_DAY
  <2>2. Before(y) \in Int /\ b = Before(y) + 1
    BY <1>2, <1>3, <2>1, YearSteps
  <2>3. day = Before(y)
    BY <1>2, <1>4, <1>5, <2>2
  <2>4. y0 = y /\ q = 0
    <3>1. day = Before(y) + 0 /\ 0 < 365 + IF Leap(y) THEN 1 ELSE 0
      BY <2>3
    <3> QED BY <3>1, <1>2, <1>6, DayGiven
  <2> QED BY <1>8, <1>10, <2>1, <2>4
<1>12. PICK R \in Nat : R = r - 25200
  BY <1>2, <1>11
<1>13. PICK d \in Nat : d = R \div SEC_IN_DAY /\ 86400 * d <= R /\ R < 86400 * d + 86400 /\ R % SEC_IN_DAY = R - 86400 * d
  BY DEF SEC_IN_DAY
<1>14. day = b + d /\ d <= 365
  BY <1>2, <1>4, <1>5, <1>12, <1>13
<1>15. T % SEC_IN_DAY = R % SEC_IN_DAY
  BY <1>4, <1>5, <1>12, <1>13, <1>14
<1>16. Before(y) \in Int /\ Before(y + 1) = Before(y) + 365 + IF Leap(y) THEN 1 ELSE 0
  BY <1>2, YearSteps
<1>17. d # 365
  <2> SUFFICES ASSUME d = 365
               PROVE  FALSE
    OBVIOUS
  <2>1. T % SEC_IN_DAY <= 61200
    BY <1>2, <1>12, <1>13, <1>15
  <2>2. PICK z \in Nat : z = y + 1
    BY <1>2
  <2>3. day = Before(z) + 0 /\ 0 < 365 + IF Leap(z) THEN 1 ELSE 0
    BY <1>3, <1>14, <1>16, <2>2
  <2>4. q = 0
    BY <1>2, <1>6, <2>2, <2>3, DayGiven
  <2> QED BY <1>9, <1>10, <2>1, <2>4
<1>18. d \in 0 .. 364
  BY <1>14, <1>17
<1>19. PICK e \in Nat : e = d + IF Leap(y) THEN 1 ELSE 0
  OBVIOUS
<1>20. y0 = y /\ q = e
  <2>1. day = Before(y) + e /\ e < 365 + IF Leap(y) THEN 1 ELSE 0
    BY <1>3, <1>14, <1>16, <1>18, <1>19
  <2> QED BY <1>2, <1>6, <2>1, DayGiven
<1>21. BeforeMonth(y, m) = DaysUpto[m - 1] + IF Leap(y) THEN 1 ELSE 0
  BY <1>2, <1>7, <1>8, <1>20, MonthIs
<1>22. Month(y, m) = DaysUpto[m] - DaysUpto[m - 1] /\ DaysUpto[m - 1] \in Nat /\ DaysUpto[m] \in Nat
  BY <1>2, <1>7, <1>8, <1>20, MonthIs
<1>23. DaysUpto[m - 1] <= d /\ d < DaysUpto[m]
  BY <1>7, <1>18, <1>19, <1>20, <1>21, <1>22 DEF MonthHas
<1>24. q - BeforeMonth(y, m) + 1 = d - DaysUpto[m - 1] + 1
  BY <1>18, <1>19, <1>20, <1>21, <1>22
<1>25. PICK k, s : k = d - DaysUpto[m - 1] + 1 /\ s = R % SEC_IN_DAY
  OBVIOUS
<1>26. TIME_posix2lt(t) = <<y, m, k, s>>
  <2>1. LocalParts(t, y, r, R, d, m, k, s)
    BY <1>1, <1>2, <1>7, <1>12, <1>13, <1>18, <1>23, <1>25 DEF LocalParts
  <2> QED BY <2>1, LocalTimeIs
<1> QED BY <1>7, <1>15, <1>20, <1>24, <1>25, <1>26

(* The date names a file.  *)
LEMMA NameIsRight ==
  ASSUME NEW t \in Nat, t \div SEC_IN_DAY <= 6975
  PROVE  create_name(TIME_GetDateISO8601(Date(t))) = "OK"
<1>1. PICK y, m, q : DateOf(t, y, m, q)
  BY DateFound
<1>2. y \in 2017 .. 2040 /\ m \in 1 .. 12 /\ q \in Nat /\ MonthHas(y, m, q)
  BY <1>1 DEF DateOf, MonthHas
<1>3. BeforeMonth(y, m) \in Nat /\ Month(y, m) \in 0 .. 31
  <2>1. y \in Nat
    BY <1>2
  <2>2. Month(y, m) \in 0 .. 31
    BY <1>2 DEF Month, DaysPerMonth
  <2> QED BY <1>2, <2>1, <2>2, MonthIs
<1>4. PICK d \in 1 .. 31 : d = q - BeforeMonth(y, m) + 1
  BY <1>2, <1>3 DEF MonthHas
<1>5. Date(t) = <<y, m, d, t % SEC_IN_DAY>>
  BY <1>1, <1>4 DEF DateOf
<1>6. (y - 2000) % 65536 = y - 2000 /\ y - 2000 < 100
  BY <1>2
<1>7. itoa((y - 2000) % 65536) = 2 /\ itoa(m) = 2 /\ itoa(d) = 2
  BY <1>2, <1>4, <1>6 DEF itoa
<1>8. TIME_GetDateISO8601(Date(t)) = 8
  BY <1>5, <1>7 DEF TIME_GetDateISO8601
<1> QED BY <1>8 DEF create_name

(* TIME_dt2posix counts the day a leap year ends with from its beginning.  *)
LEMMA ReceiverIsRight ==
  ASSUME NEW t \in Nat, t \div SEC_IN_DAY <= 6975
  PROVE  TIME_dt2posix(Date(t)) = t + IF LeapSpring(Date(t)) THEN SEC_IN_DAY ELSE 0
<1>0. PICK day \in Nat : day = t \div SEC_IN_DAY /\ t = 86400 * day + (t % SEC_IN_DAY)
  BY DEF SEC_IN_DAY
<1>1. PICK y, m, q : DateOf(t, y, m, q)
  BY DateFound
<1>2. /\ y \in Nat /\ y >= 2017 /\ m \in 1 .. 12 /\ q \in Nat
      /\ day = Before(y) + q
      /\ Date(t) = <<y, m, q - BeforeMonth(y, m) + 1, t % SEC_IN_DAY>>
  BY <1>0, <1>1 DEF DateOf, MonthHas
<1>3. (y - 1900) * 365 + (y - 1900) \div 4 - 42734 = TakenOff(y)
  BY <1>2 DEF TakenOff
<1>4. PICK b \in Nat : b = TakenOff(y) /\ b = Before(y) + IF Leap(y) THEN 1 ELSE 0
  BY <1>2, TakenOffIs
<1>5. BeforeMonth(y, m) = DaysUpto[m - 1] + (IF m > 2 /\ Leap(y) THEN 1 ELSE 0) /\ DaysUpto[m - 1] \in Nat
  BY <1>2, MonthIs
<1>6. Before(y) \in Int
  BY <1>2, YearSteps
<1>7. PICK n \in Int : n = (y - 1900) * 365 + (y - 1900) \div 4 + DaysUpto[m - 1] + (q - BeforeMonth(y, m) + 1) - 1 - 42734
  BY <1>2, <1>5
<1>8. n = day + IF Leap(y) /\ m <= 2 THEN 1 ELSE 0
  <2>1. n = b + DaysUpto[m - 1] + q - BeforeMonth(y, m)
    BY <1>2, <1>3, <1>4, <1>5, <1>7
  <2> QED BY <1>2, <1>4, <1>5, <1>6, <2>1
<1>9. TIME_dt2posix(Date(t)) = n * SEC_IN_DAY + (t % SEC_IN_DAY)
  BY <1>2, <1>7 DEF TIME_dt2posix
<1>10. t % SEC_IN_DAY \in Nat
  BY DEF SEC_IN_DAY
<1> QED BY <1>0, <1>2, <1>8, <1>9, <1>10 DEF LeapSpring, SEC_IN_DAY

(* The days and the moments of every instance.  *)
LEMMA TimesAre ==
  /\ \A day \in FirstDay .. LastDay : day \in Nat /\ day >= 1 /\ day <= 6975
  /\ \A s \in Moments : s \in Nat /\ s < 86400
BY CalendarAssumption

(* CalendarRight, of every time from FirstDay to LastDay: the local date   *)
(* and the name of its file, and the time the receiver tells, are right    *)
(* but for the days named (TIME_posix2lt, TIME_GetDateISO8601,             *)
(* TIME_dt2posix).                                                         *)
THEOREM CalendarIsRight == CalendarSpec => []CalendarRight
<1>1. ASSUME NEW day \in FirstDay .. LastDay, NEW s \in Moments, instant = day * SEC_IN_DAY + s
      PROVE  CalendarRight
  <2>1. day \in Nat /\ day >= 1 /\ day <= 6975 /\ s \in Nat /\ s < 86400
    BY TimesAre
  <2>2. PICK t \in Nat : t = instant /\ t >= 86400 /\ t < 6976 * 86400
    <3>1. PICK t \in Nat : t = day * 86400 + s /\ t >= 86400 /\ t < 6976 * 86400
      BY <2>1
    <3> QED BY <1>1, <3>1 DEF SEC_IN_DAY
  <2>3. PICK T \in Nat : T = t - 25200 /\ T <= t
    BY <2>2
  <2>4. t \div SEC_IN_DAY <= 6975
    BY <2>2 DEF SEC_IN_DAY
  <2>5. PICK local \in Nat : local = T \div SEC_IN_DAY /\ local <= 6975
    BY <2>2, <2>3 DEF SEC_IN_DAY
  <2>6. Local = Date(T)
    BY <2>2, <2>3 DEF Local, GMT_DIFF_TIME_HRS, SEC_IN_HOUR
  <2>7. ~LeapSpring(Date(T)) /\ ~NewYear(Date(T)) => TIME_posix2lt(t) = Date(T)
    BY <2>3, <2>5, LocalIsRight
  <2>8. create_name(TIME_GetDateISO8601(Date(T))) = "OK"
    BY <2>5, NameIsRight
  <2>9. TIME_dt2posix(Date(t)) = t + IF LeapSpring(Date(t)) THEN SEC_IN_DAY ELSE 0
    BY <2>4, ReceiverIsRight
  <2> QED BY <2>2, <2>6, <2>7, <2>8, <2>9 DEF CalendarRight
<1>2. CalendarInit => CalendarRight
  BY <1>1 DEF CalendarInit
<1>3. CalendarRight /\ [FALSE]_instant => CalendarRight'
  BY DEF CalendarRight, Local
<1> QED BY <1>2, <1>3, PTL DEF CalendarSpec

------------------------------------------------------------------------------
(***************************************************************************)
(* Proofs about MqttCodec: for any packets, any lengths of the buffers and *)
(* any base of the digits above two.  The operators that relate a sequence *)
(* to its parts are left unexpanded where the parts alone matter.          *)
(***************************************************************************)
Bytes == Seq(Nat)

(* What comes before is taken off. *)
Parts(b, s, r) ==
  /\ Len(b) = Len(s) + Len(r) /\ Len(s) \in Nat /\ Len(r) \in Nat
  /\ \A i \in 1 .. Len(s) : b[i] = s[i]
  /\ \A i \in 1 .. Len(r) : b[Len(s) + i] = r[i]
  /\ From(b, Len(s)) = r
  /\ SubSeq(b, 1, Len(s)) = s

LEMMA Cut ==
  ASSUME NEW S, NEW s \in Seq(S), NEW r \in Seq(S), NEW b, b = s \o r
  PROVE  b \in Seq(S) /\ Parts(b, s, r)
<1>1. /\ b \in Seq(S) /\ Len(b) = Len(s) + Len(r)
      /\ \A i \in 1 .. Len(s) + Len(r) : b[i] = IF i <= Len(s) THEN s[i] ELSE r[i - Len(s)]
  BY ConcatProperties
<1>2. Len(s) \in Nat /\ Len(r) \in Nat /\ Len(b) \in Nat
  BY <1>1, LenProperties
<1>3. /\ \A i \in 1 .. Len(s) : b[i] = s[i]
      /\ \A i \in 1 .. Len(r) : b[Len(s) + i] = r[i]
  BY <1>1, <1>2
<1>4. From(b, Len(s)) = r
  <2> DEFINE c == SubSeq(b, Len(s) + 1, Len(b))
  <2>1. /\ c \in Seq(S) /\ Len(c) = Len(r)
        /\ \A i \in 1 .. Len(b) - (Len(s) + 1) + 1 : c[i] = b[Len(s) + 1 + i - 1]
    <3>1. \A i \in Len(s) + 1 .. Len(b) : b[i] \in S
      BY <1>1, <1>2, ElementOfSeq
    <3>2. Len(s) + 1 \in Int /\ Len(b) \in Int
      BY <1>2
    <3> QED BY <1>1, <1>2, <3>1, <3>2, SubSeqProperties
  <2> HIDE DEF c
  <2>2. \A i \in 1 .. Len(c) : c[i] = r[i]
    <3> SUFFICES ASSUME NEW i \in 1 .. Len(c)
                 PROVE  c[i] = r[i]
      OBVIOUS
    <3>1. i \in 1 .. Len(b) - (Len(s) + 1) + 1 /\ Len(s) + 1 + i - 1 = Len(s) + i /\ i \in 1 .. Len(r)
      BY <1>1, <1>2, <2>1
    <3>2. c[i] = b[Len(s) + i]
      BY <2>1, <3>1
    <3> QED BY <1>3, <3>1, <3>2
  <2>3. c = r
    BY <2>1, <2>2, SeqEqual
  <2> QED BY <2>3 DEF c, From
<1>5. SubSeq(b, 1, Len(s)) = s
  <2> DEFINE c == SubSeq(b, 1, Len(s))
  <2>1. c \in Seq(S) /\ Len(c) = Len(s) /\ \A i \in 1 .. Len(s) : c[i] = b[i]
    <3>1. \A i \in 1 .. Len(s) : b[i] \in S
      BY <1>1, <1>2, ElementOfSeq
    <3> QED BY <1>1, <1>2, <3>1, SubSeqProperties
  <2>2. \A i \in 1 .. Len(c) : c[i] = s[i]
    BY <1>3, <2>1
  <2> HIDE DEF c
  <2>3. c = s
    BY <2>1, <2>2, SeqEqual
  <2> QED BY <2>3 DEF c
<1> QED BY <1>1, <1>2, <1>3, <1>4, <1>5 DEF Parts

(* What is between is taken out. *)
LEMMA Middle ==
  ASSUME NEW S, NEW w \in Seq(S), NEW s \in Seq(S), NEW r \in Seq(S),
         NEW c, c = s \o r, NEW b, b = w \o c
  PROVE  SubSeq(b, Len(w) + 1, Len(w) + Len(s)) = s
<1> DEFINE d == SubSeq(b, Len(w) + 1, Len(w) + Len(s))
<1>1. /\ c \in Seq(S) /\ Len(c) = Len(s) + Len(r) /\ Len(s) \in Nat /\ Len(r) \in Nat
      /\ \A i \in 1 .. Len(s) : c[i] = s[i]
  BY Cut DEF Parts
<1>2. /\ b \in Seq(S) /\ Len(b) = Len(w) + Len(c) /\ Len(w) \in Nat
      /\ \A i \in 1 .. Len(c) : b[Len(w) + i] = c[i]
  BY <1>1, Cut DEF Parts
<1>3. \A i \in Len(w) + 1 .. Len(w) + Len(s) : b[i] \in S
  <2>1. \A i \in 1 .. Len(b) : b[i] \in S
    BY <1>2, ElementOfSeq
  <2> QED BY <1>1, <1>2, <2>1
<1>4. /\ d \in Seq(S)
      /\ Len(d) = (IF Len(w) + 1 <= Len(w) + Len(s) THEN Len(w) + Len(s) - (Len(w) + 1) + 1 ELSE 0)
      /\ \A i \in 1 .. Len(w) + Len(s) - (Len(w) + 1) + 1 : d[i] = b[Len(w) + 1 + i - 1]
  <2>1. Len(w) + 1 \in Int /\ Len(w) + Len(s) \in Int
    BY <1>1, <1>2
  <2> QED BY <1>3, <2>1, SubSeqProperties
<1> HIDE DEF d
<1>5. Len(d) = Len(s)
  BY <1>1, <1>2, <1>4
<1>6. ASSUME NEW i \in 1 .. Len(d) PROVE d[i] = s[i]
  <2>1. i \in 1 .. Len(w) + Len(s) - (Len(w) + 1) + 1 /\ Len(w) + 1 + i - 1 = Len(w) + i
    BY <1>1, <1>2, <1>5
  <2>2. d[i] = b[Len(w) + i]
    BY <1>4, <2>1
  <2>3. b[Len(w) + i] = c[i] /\ c[i] = s[i]
    BY <1>1, <1>2, <1>5
  <2> QED BY <2>2, <2>3
<1>7. d = s
  BY <1>4, <1>5, <1>6, SeqEqual
<1> QED BY <1>7 DEF d

LEMMA OneType == ASSUME NEW S, NEW x \in S PROVE <<x>> \in Seq(S) /\ Len(<<x>>) = 1 /\ <<x>>[1] = x
OBVIOUS

(* The same for bytes, of which it need not be known here that they are    *)
(* numbers.                                                                *)
LEMMA BytesAre ==
  /\ <<>> \in Bytes /\ Len(<<>>) = 0
  /\ \A b \in Bytes : /\ Len(b) \in Nat /\ b \o <<>> = b /\ <<>> \o b = b
                      /\ \A i \in 1 .. Len(b) : b[i] \in Nat
                      /\ Len(b) = 0 => b = <<>>
  /\ \A x \in Nat : <<x>> \in Bytes /\ Len(<<x>>) = 1 /\ <<x>>[1] = x
<1>1. ASSUME NEW b \in Seq(Nat)
      PROVE  /\ Len(b) \in Nat /\ b \o <<>> = b /\ <<>> \o b = b
             /\ \A i \in 1 .. Len(b) : b[i] \in Nat
             /\ Len(b) = 0 => b = <<>>
  <2>1. b \o <<>> = b /\ <<>> \o b = b
    BY ConcatEmptySeq
  <2>2. Len(b) \in Nat /\ \A i \in 1 .. Len(b) : b[i] \in Nat
    BY LenProperties, ElementOfSeq
  <2>3. Len(b) = 0 => b = <<>>
    BY EmptySeq
  <2> QED BY <2>1, <2>2, <2>3
<1>2. <<>> \in Seq(Nat) /\ Len(<<>>) = 0
  OBVIOUS
<1>3. \A x \in Nat : <<x>> \in Seq(Nat) /\ Len(<<x>>) = 1 /\ <<x>>[1] = x
  BY OneType
<1> QED BY <1>1, <1>2, <1>3 DEF Bytes

(* b is s, of n bytes, and then r.  *)
Concat(b, s, r) == b = s \o r
Front(b, s, n, r) == b = s \o r /\ n = Len(s)

LEMMA CutBytes ==
  ASSUME NEW s \in Bytes, NEW r \in Bytes, NEW b, NEW n \in Nat, Front(b, s, n, r)
  PROVE  /\ b \in Bytes /\ Len(b) = n + Len(r) /\ Len(r) \in Nat
         /\ \A i \in 1 .. n : b[i] = s[i]
         /\ \A i \in 1 .. Len(r) : b[n + i] = r[i]
         /\ From(b, n) = r
         /\ SubSeq(b, 1, n) = s
<1>1. PICK S : S = Nat
  OBVIOUS
<1>2. Bytes = Seq(S)
  BY <1>1 DEF Bytes
<1>3. b = s \o r /\ n = Len(s)
  BY DEF Front
<1>4. /\ b \in Seq(S) /\ Len(b) = Len(s) + Len(r) /\ Len(s) \in Nat /\ Len(r) \in Nat
      /\ \A i \in 1 .. Len(s) : b[i] = s[i]
      /\ \A i \in 1 .. Len(r) : b[Len(s) + i] = r[i]
      /\ From(b, Len(s)) = r
      /\ SubSeq(b, 1, Len(s)) = s
  <2>1. b \in Seq(S) /\ Parts(b, s, r)
    BY <1>2, <1>3, Cut
  <2> QED BY <2>1 DEF Parts
<1>5. b \in Bytes /\ Len(b) = n + Len(r) /\ Len(r) \in Nat
  BY <1>2, <1>3, <1>4
<1>6. From(b, n) = r /\ SubSeq(b, 1, n) = s
  BY <1>3, <1>4
<1>7. \A i \in 1 .. n : b[i] = s[i]
  BY <1>3, <1>4
<1>8. \A i \in 1 .. Len(r) : b[n + i] = r[i]
  BY <1>3, <1>4
<1> QED BY <1>5, <1>6, <1>7, <1>8

(* b is w, s and r, and s is the bytes from m to n.  *)
Between(b, w, s, r, m, n) == b = w \o (s \o r) /\ m = Len(w) + 1 /\ n = Len(w) + Len(s)

LEMMA MiddleBytes ==
  ASSUME NEW w \in Bytes, NEW s \in Bytes, NEW r \in Bytes, NEW b, NEW m, NEW n, Between(b, w, s, r, m, n)
  PROVE  SubSeq(b, m, n) = s
<1>1. PICK S : S = Nat
  OBVIOUS
<1>2. Bytes = Seq(S)
  BY <1>1 DEF Bytes
<1> QED BY <1>2, Middle DEF Between

LEMMA TailBytes ==
  ASSUME NEW b \in Bytes, b # <<>>
  PROVE  Tail(b) = SubSeq(b, 2, Len(b)) /\ Head(b) = b[1]
<1>1. b \in Seq(Nat) => Tail(b) = SubSeq(b, 2, Len(b)) /\ Head(b) = b[1]
  BY TailIsSubSeq
<1> QED BY <1>1 DEF Bytes

LEMMA Assoc ==
  ASSUME NEW a \in Bytes, NEW b \in Bytes, NEW c \in Bytes, NEW d, NEW e, NEW f,
         Concat(d, a, b), Concat(e, d, c), Concat(f, b, c)
  PROVE  Concat(e, a, f) /\ d \in Bytes /\ e \in Bytes /\ f \in Bytes
<1>1. PICK S : S = Nat
  OBVIOUS
<1>2. Bytes = Seq(S)
  BY <1>1 DEF Bytes
<1> QED BY <1>2, ConcatAssociative, ConcatProperties DEF Concat

(* b is x, and then r.  *)
First(b, x, r) == b = <<x>> \o r

LEMMA One ==
  ASSUME NEW x \in Nat, NEW r \in Bytes, NEW b, First(b, x, r)
  PROVE  /\ b \in Bytes /\ Len(b) = 1 + Len(r) /\ Len(r) \in Nat /\ b[1] = x /\ From(b, 1) = r
         /\ b # <<>> /\ Head(b) = x /\ Tail(b) = r
<1>1. PICK s : s = <<x>>
  OBVIOUS
<1>2. s \in Bytes /\ Len(s) = 1 /\ s[1] = x /\ Front(b, s, 1, r)
  BY <1>1, BytesAre DEF Front, First
<1>3. /\ b \in Bytes /\ Len(b) = 1 + Len(r) /\ Len(r) \in Nat /\ b[1] = x /\ From(b, 1) = r
  BY <1>2, CutBytes
<1>4. b # <<>>
  BY <1>3, BytesAre
<1> QED BY <1>3, <1>4, TailBytes DEF From

(* Two bytes of an integer. *)
LEMMA IntBaseIs == IntBase \in Nat /\ IntBase > 5
BY CodecAssumption DEF IntBase

LEMMA Division ==
  ASSUME NEW n \in Nat, NEW b \in Nat, b > 0
  PROVE  n \div b \in Nat /\ n % b \in Nat /\ n % b < b /\ n = (n \div b) * b + (n % b)
OBVIOUS

(* b is the integer n in two bytes, and then r.  *)
IntFirst(b, n, r) == b = writeInt(n) \o r

LEMMA WrittenInt ==
  ASSUME NEW n \in Ids, NEW r \in Bytes, NEW b, IntFirst(b, n, r)
  PROVE  /\ b \in Bytes /\ Len(b) = 2 + Len(r) /\ Len(r) \in Nat /\ readInt(b) = n /\ From(b, 2) = r
         /\ writeInt(n) \in Bytes /\ Len(writeInt(n)) = 2
<1>1. n \in Nat
  BY DEF Ids
<1>2. n \div IntBase \in Nat /\ n % IntBase \in Nat /\ n = (n \div IntBase) * IntBase + (n % IntBase)
  BY <1>1, IntBaseIs, Division
<1>3. PICK s : s = writeInt(n)
  OBVIOUS
<1>4. s \in Bytes /\ Len(s) = 2 /\ s[1] = n \div IntBase /\ s[2] = n % IntBase
  BY <1>2, <1>3 DEF writeInt, Bytes
<1>5. Front(b, s, 2, r)
  BY <1>3, <1>4 DEF Front, IntFirst
<1>6. /\ b \in Bytes /\ Len(b) = 2 + Len(r) /\ Len(r) \in Nat /\ From(b, 2) = r
      /\ b[1] = s[1] /\ b[2] = s[2]
  BY <1>4, <1>5, CutBytes
<1>7. readInt(b) = n
  BY <1>2, <1>4, <1>6 DEF readInt
<1> QED BY <1>3, <1>4, <1>6, <1>7

LEMMA TextsAre == \A s \in Texts : s \in Bytes /\ Len(s) \in Ids /\ Len(s) \in Nat
BY DEF Texts, Bytes, Ids

(* b is the text s with its length, and then r.  *)
TextFirst(b, s, r) == b = writeMQTTString(s) \o r

LEMMA WrittenString ==
  ASSUME NEW s \in Texts, NEW r \in Bytes, NEW b, TextFirst(b, s, r)
  PROVE  /\ b \in Bytes /\ Len(b) = 2 + Len(s) + Len(r) /\ Len(s) \in Nat /\ Len(r) \in Nat
         /\ HasString(b) /\ StringOf(b) = s /\ AfterString(b) = r
         /\ writeMQTTString(s) \in Bytes /\ Len(writeMQTTString(s)) = 2 + Len(s)
<1>1. PICK l, w, c, ws : l = Len(s) /\ w = writeInt(l) /\ c = s \o r /\ ws = w \o s
  OBVIOUS
<1>2. s \in Bytes /\ l \in Ids /\ l \in Nat /\ Len(r) \in Nat
  BY <1>1, TextsAre, BytesAre
<1>3. c \in Bytes /\ Len(c) = l + Len(r)
  <2>1. Front(c, s, l, r)
    BY <1>1 DEF Front
  <2> QED BY <1>2, <2>1, CutBytes
<1>4. w \in Bytes /\ Len(w) = 2
  BY <1>1, <1>2, <1>3, WrittenInt DEF IntFirst
<1>5. ws \in Bytes /\ Len(ws) = 2 + l /\ ws = writeMQTTString(s)
  <2>1. Front(ws, w, 2, s)
    BY <1>1, <1>4 DEF Front
  <2> QED BY <1>1, <1>2, <1>4, <2>1, CutBytes DEF writeMQTTString
<1>6. b = w \o c
  <2>1. Concat(ws, w, s) /\ Concat(b, ws, r) /\ Concat(c, s, r)
    BY <1>1, <1>5 DEF Concat, TextFirst
  <2>2. Concat(b, w, c)
    BY <1>2, <1>4, <2>1, Assoc
  <2> QED BY <2>2 DEF Concat
<1>7. b \in Bytes /\ Len(b) = 2 + Len(c) /\ readInt(b) = l /\ From(b, 2) = c
  <2>1. IntFirst(b, l, c)
    BY <1>1, <1>6 DEF IntFirst
  <2> QED BY <1>2, <1>3, <2>1, WrittenInt
<1>8. HasString(b)
  BY <1>2, <1>3, <1>7 DEF HasString
<1>9. PICK m, n : m = 3 /\ n = 2 + l
  OBVIOUS
<1>10. From(b, n) = r
  <2>1. Front(b, ws, n, r) /\ n \in Nat
    BY <1>2, <1>5, <1>9 DEF TextFirst, Front
  <2> QED BY <1>5, <2>1, CutBytes
<1>11. SubSeq(b, m, n) = s
  <2>1. Between(b, w, s, r, m, n)
    BY <1>1, <1>4, <1>6, <1>9 DEF Between
  <2> QED BY <1>2, <1>4, <2>1, MiddleBytes
<1>12. StringOf(b) = s /\ AfterString(b) = r
  BY <1>7, <1>9, <1>10, <1>11 DEF StringOf, AfterString
<1> QED BY <1>1, <1>2, <1>3, <1>5, <1>7, <1>8, <1>12

(***************************************************************************)
(* The remaining length.                                                   *)
(***************************************************************************)
DigitsWritten(m, e) == IF m < LenBase THEN <<m>> ELSE <<LenBase + (m % LenBase)>> \o e
EncodeRun(g, N) == \A m \in 0 .. N : g[m] = DigitsWritten(m, g[m \div LenBase])
EncodeRuns(N) == \E g : EncodeRun(g, N)

LEMMA LessDigit ==
  ASSUME NEW m \in Nat, m >= LenBase
  PROVE  m \div LenBase \in Nat /\ m \div LenBase < m /\ m % LenBase \in Nat /\ m % LenBase < LenBase
         /\ m = LenBase * (m \div LenBase) + (m % LenBase)
<1>1. LenBase \in Nat /\ LenBase > 2
  BY CodecAssumption
<1>2. PICK q, d : q = m \div LenBase /\ d = m % LenBase
  OBVIOUS
<1>3. q \in Nat /\ d \in Nat /\ d < LenBase /\ m = LenBase * q + d
  BY <1>1, <1>2
<1>4. q < m
  <2>1. CASE q = 0
    BY <1>1, <2>1
  <2>2. CASE q > 0
    <3>1. 2 * q <= LenBase * q
      BY <1>1, <1>3
    <3> QED BY <1>1, <1>3, <2>2, <3>1
  <2> QED BY <1>3, <2>1, <2>2
<1> QED BY <1>2, <1>3, <1>4

LEMMA EncodesRun ==
  ASSUME NEW N \in Nat
  PROVE  EncodeRuns(N)
<1>0. LenBase \in Nat /\ LenBase > 2
  BY CodecAssumption
<1> DEFINE S == {n \in Nat : EncodeRuns(n)}
<1>1. 0 \in S
  <2> DEFINE g == [m \in 0 .. 0 |-> <<0>>]
  <2>1. EncodeRun(g, 0)
    BY <1>0 DEF EncodeRun, DigitsWritten
  <2> QED BY <2>1 DEF EncodeRuns
<1>2. ASSUME NEW n \in Nat, n \in S
      PROVE  n + 1 \in S
  <2>1. PICK g : EncodeRun(g, n)
    BY <1>2 DEF EncodeRuns
  <2> DEFINE h == [m \in 0 .. n + 1 |-> IF m = n + 1 THEN DigitsWritten(m, g[m \div LenBase]) ELSE g[m]]
  <2>2. ASSUME NEW m \in 0 .. n + 1
        PROVE  h[m] = DigitsWritten(m, h[m \div LenBase])
    <3>1. h[m] = DigitsWritten(m, g[m \div LenBase])
      BY <2>1 DEF EncodeRun
    <3>2. CASE m < LenBase
      BY <3>1, <3>2 DEF DigitsWritten
    <3>3. CASE ~(m < LenBase)
      <4>1. PICK q : q = m \div LenBase /\ q \in 0 .. n /\ q # n + 1
        BY <1>0, <3>3, LessDigit
      <4>2. h[q] = g[q]
        BY <4>1
      <4> HIDE DEF h
      <4> QED BY <3>1, <4>1, <4>2
    <3> QED BY <3>2, <3>3
  <2> HIDE DEF h
  <2>3. EncodeRun(h, n + 1)
    BY <2>2 DEF EncodeRun
  <2> QED BY <2>3 DEF EncodeRuns
<1>3. N \in S
  <2> HIDE DEF S
  <2> QED BY <1>1, <1>2, Induction
<1> QED BY <1>3

(* What is encoded does not depend on how far the function goes.  *)
LEMMA EncodeRunsAgree ==
  ASSUME NEW N \in Nat, NEW M \in Nat, NEW g, EncodeRun(g, N), NEW h, EncodeRun(h, M)
  PROVE  \A m \in 0 .. N : m \in 0 .. M => g[m] = h[m]
<1>0. LenBase \in Nat /\ LenBase > 2
  BY CodecAssumption
<1> DEFINE S == {k \in Nat : \A m \in 0 .. k : m <= N /\ m <= M => g[m] = h[m]}
<1>1. ASSUME NEW m \in Nat, m <= N, m <= M, m < LenBase \/ g[m \div LenBase] = h[m \div LenBase]
      PROVE  g[m] = h[m]
  <2>1. g[m] = DigitsWritten(m, g[m \div LenBase]) /\ h[m] = DigitsWritten(m, h[m \div LenBase])
    BY <1>1 DEF EncodeRun
  <2>2. CASE m < LenBase
    BY <2>1, <2>2 DEF DigitsWritten
  <2>3. CASE g[m \div LenBase] = h[m \div LenBase]
    BY <2>1, <2>3
  <2> QED BY <1>1, <2>2, <2>3
<1>2. 0 \in S
  <2>1. g[0] = h[0]
    BY <1>0, <1>1
  <2> QED BY <2>1
<1>3. ASSUME NEW k \in Nat, k \in S
      PROVE  k + 1 \in S
  <2> SUFFICES ASSUME k + 1 <= N, k + 1 <= M
               PROVE  g[k + 1] = h[k + 1]
    BY <1>3
  <2>1. PICK m : m = k + 1
    OBVIOUS
  <2>2. m \in Nat /\ m <= N /\ m <= M
    BY <2>1
  <2>3. CASE m < LenBase
    BY <1>1, <2>1, <2>2, <2>3
  <2>4. CASE ~(m < LenBase)
    <3>1. PICK q : q = m \div LenBase /\ q \in 0 .. k
      BY <1>0, <2>1, <2>2, <2>4, LessDigit
    <3>2. g[q] = h[q]
      BY <1>3, <2>1, <2>2, <3>1
    <3> QED BY <1>1, <2>1, <2>2, <3>1, <3>2
  <2> QED BY <2>3, <2>4
<1>4. \A k \in Nat : k \in S
  <2> HIDE DEF S
  <2> QED BY <1>2, <1>3, Induction
<1> QED BY <1>4

LEMMA EncodeIs ==
  ASSUME NEW n \in Nat
  PROVE  \E g : EncodeRun(g, n) /\ MQTTPacket_encode(n) = g[n]
<1> DEFINE Def(g) == g = [m \in 0 .. n |-> IF m < LenBase THEN <<m>> ELSE <<LenBase + (m % LenBase)>> \o g[m \div LenBase]]
           digits == CHOOSE g : Def(g)
<1>1. \E g : Def(g)
  <2>1. PICK g : EncodeRun(g, n)
    BY EncodesRun DEF EncodeRuns
  <2> DEFINE h == [m \in 0 .. n |-> g[m]]
  <2>2. ASSUME NEW m \in 0 .. n
        PROVE  h[m] = DigitsWritten(m, h[m \div LenBase])
    <3>1. h[m] = DigitsWritten(m, g[m \div LenBase])
      BY <2>1 DEF EncodeRun
    <3>2. CASE m < LenBase
      BY <3>1, <3>2 DEF DigitsWritten
    <3>3. CASE ~(m < LenBase)
      <4>1. PICK q : q = m \div LenBase /\ q \in 0 .. n
        BY <3>3, LessDigit, CodecAssumption
      <4>2. h[q] = g[q]
        BY <4>1
      <4> HIDE DEF h
      <4> QED BY <3>1, <4>1, <4>2
    <3> QED BY <3>2, <3>3
  <2>3. h = [m \in 0 .. n |-> IF m < LenBase THEN <<m>> ELSE <<LenBase + (m % LenBase)>> \o h[m \div LenBase]]
    <3>1. h = [m \in 0 .. n |-> h[m]]
      OBVIOUS
    <3> HIDE DEF h
    <3> QED BY <2>2, <3>1 DEF DigitsWritten
  <2> HIDE DEF h
  <2> QED BY <2>3
<1>2. Def(digits)
  BY <1>1
<1>3. MQTTPacket_encode(n) = digits[n]
  BY DEF MQTTPacket_encode
<1> HIDE DEF digits
<1>4. EncodeRun(digits, n)
  BY <1>2 DEF EncodeRun, DigitsWritten
<1> QED BY <1>3, <1>4

LEMMA Encode ==
  ASSUME NEW n \in Nat
  PROVE  /\ n < LenBase => MQTTPacket_encode(n) = <<n>>
         /\ n >= LenBase => First(MQTTPacket_encode(n), LenBase + (n % LenBase), MQTTPacket_encode(n \div LenBase))
<1>1. PICK g : EncodeRun(g, n) /\ MQTTPacket_encode(n) = g[n]
  BY EncodeIs
<1>2. g[n] = DigitsWritten(n, g[n \div LenBase])
  BY <1>1 DEF EncodeRun
<1>3. CASE n < LenBase
  BY <1>1, <1>2, <1>3, CodecAssumption DEF DigitsWritten
<1>4. CASE ~(n < LenBase)
  <2>1. PICK q : q = n \div LenBase /\ q \in Nat /\ q \in 0 .. n
    <3>1. n >= LenBase
      BY <1>4, CodecAssumption
    <3>2. n \div LenBase \in Nat /\ n \div LenBase < n
      BY <3>1, LessDigit
    <3> QED BY <3>2
  <2>2. PICK h : EncodeRun(h, q) /\ MQTTPacket_encode(q) = h[q]
    BY <2>1, EncodeIs
  <2>3. g[q] = h[q]
    BY <1>1, <2>1, <2>2, EncodeRunsAgree
  <2>4. MQTTPacket_encode(n) = <<LenBase + (n % LenBase)>> \o MQTTPacket_encode(q)
    BY <1>1, <1>2, <1>4, <2>1, <2>2, <2>3 DEF DigitsWritten
  <2> QED BY <1>4, <2>1, <2>4 DEF First
<1> QED BY <1>3, <1>4, CodecAssumption

(* All digits but the last have the bit that tells that there are more.  *)
Encoded(e) ==
  /\ e \in Bytes /\ Len(e) \in Nat /\ Len(e) > 0
  /\ \A i \in 1 .. Len(e) - 1 : e[i] >= LenBase
  /\ e[Len(e)] < LenBase

LEMMA LastDigit == ASSUME NEW n \in Nat, n < LenBase, NEW e, e = <<n>> PROVE Encoded(e) /\ Len(e) = 1
<1>1. e \in Bytes /\ Len(e) = 1 /\ e[1] = n
  BY BytesAre
<1>2. e[Len(e)] < LenBase
  BY <1>1
<1> QED BY <1>1, <1>2 DEF Encoded

LEMMA MoreDigits ==
  ASSUME NEW d \in Nat, NEW r, Encoded(r), NEW e, First(e, LenBase + d, r)
  PROVE  Encoded(e) /\ Len(e) = 1 + Len(r)
<1>1. LenBase \in Nat /\ LenBase + d \in Nat /\ r \in Bytes /\ Len(r) \in Nat /\ Len(r) > 0
  BY CodecAssumption DEF Encoded
<1>2. PICK x : x = LenBase + d
  OBVIOUS
<1>3. e \in Bytes /\ Len(e) = 1 + Len(r) /\ e[1] = x
  <2>1. x \in Nat /\ First(e, x, r)
    BY <1>1, <1>2
  <2> QED BY <1>1, <2>1, One
<1>4. \A i \in 1 .. Len(r) : e[1 + i] = r[i]
  <2>1. PICK s : s = <<x>>
    OBVIOUS
  <2>2. s \in Bytes /\ Front(e, s, 1, r)
    BY <1>1, <1>2, <2>1, BytesAre DEF Front, First
  <2> QED BY <1>1, <2>2, CutBytes
<1>5. \A i \in 1 .. Len(e) - 1 : e[i] >= LenBase
  <2> SUFFICES ASSUME NEW i \in 1 .. Len(e) - 1
               PROVE  e[i] >= LenBase
    OBVIOUS
  <2>1. CASE i = 1
    BY <1>1, <1>2, <1>3, <2>1
  <2>2. CASE i # 1
    <3>1. PICK k \in 1 .. Len(r) - 1 : i = 1 + k
      <4>1. i - 1 \in 1 .. Len(r) - 1 /\ i = 1 + (i - 1)
        BY <1>1, <1>3, <2>2
      <4> QED BY <4>1
    <3>2. e[i] = r[k] /\ r[k] >= LenBase
      BY <1>1, <1>4, <3>1 DEF Encoded
    <3> QED BY <3>2
  <2> QED BY <2>1, <2>2
<1>6. e[Len(e)] < LenBase
  <2>1. PICK l : l = Len(r) /\ l \in 1 .. Len(r)
    BY <1>1
  <2>2. e[1 + l] = r[l] /\ r[l] < LenBase /\ Len(e) = 1 + l
    BY <1>3, <1>4, <2>1 DEF Encoded
  <2> QED BY <2>2
<1>7. Len(e) \in Nat /\ Len(e) > 0
  BY <1>1, <1>3
<1> QED BY <1>3, <1>5, <1>6, <1>7 DEF Encoded

LEMMA EncodeType == \A n \in Nat : Encoded(MQTTPacket_encode(n))
<1> DEFINE S == {k \in Nat : \A n \in 0 .. k : Encoded(MQTTPacket_encode(n))}
<1>0. LenBase \in Nat /\ LenBase > 2
  BY CodecAssumption
<1>1. ASSUME NEW n \in Nat, n < LenBase
      PROVE  Encoded(MQTTPacket_encode(n))
  BY <1>1, Encode, LastDigit
<1>2. 0 \in S
  BY <1>0, <1>1
<1>3. ASSUME NEW k \in Nat, k \in S
      PROVE  k + 1 \in S
  <2>1. PICK n : n = k + 1
    OBVIOUS
  <2>2. n \in Nat
    BY <2>1
  <2>3. ASSUME n >= LenBase
        PROVE  Encoded(MQTTPacket_encode(n))
    <3>1. PICK q, d : q = n \div LenBase /\ d = n % LenBase /\ q \in 0 .. k /\ d \in Nat
      BY <2>1, <2>2, <2>3, LessDigit
    <3>2. Encoded(MQTTPacket_encode(q))
      BY <1>3, <3>1
    <3>3. First(MQTTPacket_encode(n), LenBase + d, MQTTPacket_encode(q))
      BY <2>2, <2>3, <3>1, Encode
    <3> QED BY <3>1, <3>2, <3>3, MoreDigits
  <2>4. Encoded(MQTTPacket_encode(n))
    BY <1>0, <1>1, <2>2, <2>3
  <2> QED BY <1>3, <2>1, <2>4
<1>4. \A k \in Nat : k \in S
  <2> HIDE DEF S
  <2> QED BY <1>2, <1>3, Induction
<1> QED BY <1>4

LEMMA EncodeDigit ==
  ASSUME NEW n \in Nat
  PROVE  /\ n < LenBase => Len(MQTTPacket_encode(n)) = 1
         /\ n >= LenBase => Len(MQTTPacket_encode(n)) = 1 + Len(MQTTPacket_encode(n \div LenBase))
<1>1. n < LenBase => Len(MQTTPacket_encode(n)) = 1
  BY Encode, LastDigit
<1>2. ASSUME n >= LenBase
      PROVE  Len(MQTTPacket_encode(n)) = 1 + Len(MQTTPacket_encode(n \div LenBase))
  <2>1. PICK q, d : q = n \div LenBase /\ d = n % LenBase /\ q \in Nat /\ d \in Nat
    BY <1>2, LessDigit
  <2>2. First(MQTTPacket_encode(n), LenBase + d, MQTTPacket_encode(q))
    BY <1>2, <2>1, Encode
  <2>3. Len(MQTTPacket_encode(n)) = 1 + Len(MQTTPacket_encode(q))
    BY <2>1, <2>2, EncodeType, MoreDigits
  <2> QED BY <2>1, <2>3
<1> QED BY <1>1, <1>2

(* The digits of a length below a bound.  *)
LEMMA Below ==
  ASSUME NEW n \in Nat, NEW b \in Nat, b > 0
  PROVE  n < LenBase * b <=> n \div LenBase < b
<1>1. LenBase \in Nat /\ LenBase > 2
  BY CodecAssumption
<1>2. PICK q, d : q = n \div LenBase /\ d = n % LenBase
  OBVIOUS
<1>3. q \in Nat /\ d \in Nat /\ d < LenBase /\ n = LenBase * q + d
  BY <1>1, <1>2
<1>4. CASE q < b
  <2>1. PICK k \in Nat : b = q + 1 + k
    <3>1. b - q - 1 \in Nat /\ b = q + 1 + (b - q - 1)
      BY <1>3, <1>4
    <3> QED BY <3>1
  <2>2. LenBase * b = LenBase * q + LenBase + LenBase * k /\ LenBase * k >= 0
    BY <1>1, <1>3, <2>1
  <2>3. LenBase * b \in Nat /\ LenBase * q \in Nat /\ LenBase * k \in Nat
    BY <1>1, <1>3, <2>1
  <2>4. n < LenBase * b
    BY <1>1, <1>3, <2>2, <2>3
  <2> QED BY <1>2, <1>4, <2>4
<1>5. CASE q >= b
  <2>1. PICK k \in Nat : q = b + k
    <3>1. q - b \in Nat /\ q = b + (q - b)
      BY <1>3, <1>5
    <3> QED BY <3>1
  <2>2. LenBase * q = LenBase * b + LenBase * k
    BY <1>1, <1>3, <2>1
  <2>3. LenBase * b \in Nat /\ LenBase * q \in Nat /\ LenBase * k \in Nat
    BY <1>1, <1>3, <2>1
  <2>4. n >= LenBase * b
    BY <1>1, <1>3, <2>2, <2>3
  <2> QED BY <1>2, <1>3, <1>5, <2>3, <2>4
<1> QED BY <1>3, <1>4, <1>5

(* A power of the base that is left opaque.  *)
Pow2 == LenBase * LenBase
Pow3 == LenBase * Pow2
Pow4 == LenBase * Pow3

LEMMA Powers ==
  /\ LenBase \in Nat /\ LenBase > 2
  /\ Pow2 \in Nat /\ Pow2 >= 3 * LenBase
  /\ Pow3 \in Nat /\ Pow3 >= 3 * Pow2
  /\ Pow4 \in Nat /\ Pow4 >= 3 * Pow3
<1>1. LenBase \in Nat /\ LenBase > 2
  BY CodecAssumption
<1>2. PICK k \in Nat : LenBase = 3 + k
  <2>1. LenBase - 3 \in Nat /\ LenBase = 3 + (LenBase - 3)
    BY <1>1
  <2> QED BY <2>1
<1>3. ASSUME NEW x \in Nat
      PROVE  LenBase * x \in Nat /\ LenBase * x >= 3 * x
  <2>1. LenBase * x = 3 * x + k * x /\ k * x \in Nat
    BY <1>2
  <2> QED BY <2>1
<1>4. Pow2 \in Nat /\ Pow2 >= 3 * LenBase
  BY <1>1, <1>3 DEF Pow2
<1>5. Pow3 \in Nat /\ Pow3 >= 3 * Pow2
  BY <1>3, <1>4 DEF Pow3
<1>6. Pow4 \in Nat /\ Pow4 >= 3 * Pow3
  BY <1>3, <1>5 DEF Pow4
<1> QED BY <1>1, <1>4, <1>5, <1>6

DigitsOf(n) == Len(MQTTPacket_encode(n))

LEMMA EncodeLength ==
  ASSUME NEW n \in Nat
  PROVE  /\ n < LenBase => DigitsOf(n) = 1
         /\ LenBase <= n /\ n < Pow2 => DigitsOf(n) = 2
         /\ Pow2 <= n /\ n < Pow3 => DigitsOf(n) = 3
         /\ Pow3 <= n /\ n < Pow4 => DigitsOf(n) = 4
<1>1. \A m \in Nat : m < LenBase => DigitsOf(m) = 1
  BY EncodeDigit DEF DigitsOf
<1>2. ASSUME NEW m \in Nat, m >= LenBase
      PROVE  \E q \in Nat : /\ DigitsOf(m) = 1 + DigitsOf(q)
                            /\ m < Pow2 <=> q < LenBase
                            /\ m < Pow3 <=> q < Pow2
                            /\ m < Pow4 <=> q < Pow3
  <2>1. PICK q : q = m \div LenBase /\ q \in Nat
    BY <1>2, LessDigit
  <2>2. DigitsOf(m) = 1 + DigitsOf(q)
    BY <1>2, <2>1, EncodeDigit DEF DigitsOf
  <2>3. m < Pow2 <=> q < LenBase
    BY <2>1, Below, Powers DEF Pow2
  <2>4. m < Pow3 <=> q < Pow2
    BY <2>1, Below, Powers DEF Pow3
  <2>5. m < Pow4 <=> q < Pow3
    BY <2>1, Below, Powers DEF Pow4
  <2> QED BY <2>1, <2>2, <2>3, <2>4, <2>5
<1>3. ASSUME NEW m \in Nat, LenBase <= m, m < Pow2
      PROVE  DigitsOf(m) = 2
  <2>1. m >= LenBase
    BY <1>3, Powers
  <2>2. PICK q \in Nat : /\ DigitsOf(m) = 1 + DigitsOf(q)
                         /\ m < Pow2 <=> q < LenBase
                         /\ m < Pow3 <=> q < Pow2
                         /\ m < Pow4 <=> q < Pow3
    BY <1>2, <2>1
  <2>3. DigitsOf(q) = 1
    BY <1>1, <1>3, <2>2, Powers
  <2> QED BY <2>2, <2>3
<1>4. ASSUME NEW m \in Nat, Pow2 <= m, m < Pow3
      PROVE  DigitsOf(m) = 3
  <2>1. m >= LenBase
    BY <1>4, Powers
  <2>2. PICK q \in Nat : /\ DigitsOf(m) = 1 + DigitsOf(q)
                         /\ m < Pow2 <=> q < LenBase
                         /\ m < Pow3 <=> q < Pow2
                         /\ m < Pow4 <=> q < Pow3
    BY <1>2, <2>1
  <2>3. DigitsOf(q) = 2
    BY <1>3, <1>4, <2>2, Powers
  <2> QED BY <2>2, <2>3
<1>5. ASSUME NEW m \in Nat, Pow3 <= m, m < Pow4
      PROVE  DigitsOf(m) = 4
  <2>1. m >= LenBase
    BY <1>5, Powers
  <2>2. PICK q \in Nat : /\ DigitsOf(m) = 1 + DigitsOf(q)
                         /\ m < Pow2 <=> q < LenBase
                         /\ m < Pow3 <=> q < Pow2
                         /\ m < Pow4 <=> q < Pow3
    BY <1>2, <2>1
  <2>3. DigitsOf(q) = 3
    BY <1>4, <1>5, <2>2, Powers
  <2> QED BY <2>2, <2>3
<1> QED BY <1>1, <1>3, <1>4, <1>5

(* What is asked for is what is written, or one more.  *)
LEMMA LengthAsked ==
  ASSUME NEW n \in Nat, n < Pow4
  PROVE  /\ MQTTPacket_len(n) \in Nat
         /\ MQTTPacket_len(n) >= 1 + Len(MQTTPacket_encode(n)) + n
         /\ MQTTPacket_len(n) <= 1 + Len(MQTTPacket_encode(n)) + n + 1
<1>1. PICK l, m : l = DigitsOf(n) /\ m = MQTTPacket_len(n)
  OBVIOUS
<1>2. LenBase * LenBase * LenBase = Pow3
  <2>1. LenBase * (LenBase * LenBase) = LenBase * LenBase * LenBase
    BY Powers
  <2> QED BY <2>1 DEF Pow3, Pow2
<1>3. m = IF n + 1 < LenBase THEN n + 2 ELSE IF n + 1 < Pow2 THEN n + 3
          ELSE IF n + 1 < Pow3 - 1 THEN n + 4 ELSE n + 5
  BY <1>1, <1>2 DEF MQTTPacket_len, Pow2
<1>4. /\ n < LenBase => l = 1
      /\ LenBase <= n /\ n < Pow2 => l = 2
      /\ Pow2 <= n /\ n < Pow3 => l = 3
      /\ Pow3 <= n /\ n < Pow4 => l = 4
  BY <1>1, EncodeLength
<1>5. l \in Nat /\ m \in Nat
  BY <1>3, <1>4, Powers
<1>6. m >= 1 + l + n /\ m <= 1 + l + n + 1
  BY <1>3, <1>4, Powers
<1> QED BY <1>1, <1>5, <1>6 DEF DigitsOf

(* The body begins after the first digit that has no bit. *)
LEMMA BodyFound ==
  ASSUME NEW h \in Nat, NEW e, Encoded(e), NEW body \in Bytes, NEW t, Concat(t, e, body), NEW b, First(b, h, t)
  PROVE  From(b, BodyAt(b)) = body
<1>1. PICK l : l = Len(e) /\ l \in Nat /\ l > 0 /\ e \in Bytes
  BY DEF Encoded
<1>2. /\ t \in Bytes /\ Len(t) = l + Len(body) /\ Len(body) \in Nat
      /\ \A i \in 1 .. l : t[i] = e[i]
  <2>1. Front(t, e, l, body)
    BY <1>1 DEF Concat, Front
  <2> QED BY <1>1, <2>1, CutBytes
<1>3. PICK x : x = <<h>>
  OBVIOUS
<1>4. x \in Bytes /\ Len(x) = 1
  BY <1>3, BytesAre
<1>5. /\ b \in Bytes /\ Len(b) = 1 + Len(t)
      /\ \A i \in 1 .. Len(t) : b[1 + i] = t[i]
  <2>1. Front(b, x, 1, t)
    BY <1>3, <1>4 DEF Front, First
  <2> QED BY <1>2, <1>4, <2>1, CutBytes
<1>6. \A i \in 1 .. l : b[1 + i] = e[i]
  <2> SUFFICES ASSUME NEW i \in 1 .. l
               PROVE  b[1 + i] = e[i]
    OBVIOUS
  <2>1. i \in 1 .. Len(t)
    BY <1>1, <1>2
  <2> QED BY <1>2, <1>5, <2>1
<1>7. PICK j : j = 1 + l
  OBVIOUS
<1> DEFINE P(i) == b[i] < LenBase /\ \A k \in 2 .. i - 1 : b[k] >= LenBase
<1>8. j \in 2 .. Len(b) /\ b[j] < LenBase
  <2>1. b[1 + l] = e[l] /\ e[l] < LenBase
    BY <1>1, <1>6 DEF Encoded
  <2> QED BY <1>1, <1>2, <1>5, <1>7, <2>1
<1>9. ASSUME NEW k \in 2 .. j - 1
      PROVE  b[k] >= LenBase /\ ~(b[k] < LenBase)
  <2>1. PICK i \in 1 .. l - 1 : k = 1 + i
    <3>1. k - 1 \in 1 .. l - 1 /\ k = 1 + (k - 1)
      BY <1>1, <1>7
    <3> QED BY <3>1
  <2>2. b[k] = e[i] /\ e[i] >= LenBase /\ e[i] \in Nat
    BY <1>1, <1>6, <2>1, BytesAre DEF Encoded
  <2> QED BY <2>2, CodecAssumption
<1>10. ASSUME NEW i \in 2 .. Len(b), P(i)
       PROVE  i = j
  <2>1. CASE i < j
    <3>1. i \in 2 .. j - 1
      BY <1>1, <1>7, <2>1
    <3> QED BY <1>9, <1>10, <3>1
  <2>2. CASE i > j
    <3>1. j \in 2 .. i - 1
      BY <1>1, <1>7, <2>2
    <3>2. b[j] >= LenBase
      BY <1>10, <3>1
    <3>3. b \in Bytes /\ j \in 1 .. Len(b)
      BY <1>5, <1>8
    <3>4. b[j] \in Nat
      BY <3>3, BytesAre
    <3> QED BY <1>8, <3>2, <3>4, CodecAssumption
  <2> QED BY <1>1, <1>7, <2>1, <2>2
<1>11. BodyAt(b) = j
  <2> DEFINE c == CHOOSE i \in 2 .. Len(b) : P(i)
  <2>1. P(j)
    BY <1>8, <1>9
  <2>2. c \in 2 .. Len(b) /\ P(c)
    <3> HIDE DEF P
    <3> QED BY <1>8, <2>1
  <2>3. c = j
    <3> HIDE DEF P, c
    <3> QED BY <1>10, <2>2
  <2> QED BY <2>3 DEF BodyAt
<1>12. From(b, j) = body
  <2>1. PICK d, f : Concat(d, x, e) /\ Concat(f, d, body)
    BY DEF Concat
  <2>2. Concat(f, x, t) /\ d \in Bytes
    BY <1>1, <1>4, <2>1, Assoc
  <2>3. f = b
    BY <1>3, <2>2 DEF Concat, First
  <2>4. Len(d) = j
    <3>1. Front(d, x, 1, e)
      BY <1>4, <2>1 DEF Concat, Front
    <3> QED BY <1>1, <1>4, <1>7, <3>1, CutBytes
  <2>5. Front(b, d, j, body) /\ j \in Nat
    BY <1>1, <1>7, <2>1, <2>3, <2>4 DEF Concat, Front
  <2> QED BY <2>2, <2>5, CutBytes
<1> QED BY <1>11, <1>12

(***************************************************************************)
(* The header.                                                             *)
(***************************************************************************)
LEMMA TypeCodes ==
  /\ \A t \in DOMAIN Types : Types[t] \in Nat
  /\ \A t, u \in DOMAIN Types : Types[t] = Types[u] => t = u
BY DEF Types

LEMMA Bits == \A b \in BOOLEAN : Bit(b) \in 0 .. 1 /\ (b <=> Bit(b) = 1)
BY DEF Bit

LEMMA HeaderBits ==
  ASSUME NEW t \in Nat, NEW d \in 0 .. 1, NEW q \in 0 .. 3, NEW r \in 0 .. 1, NEW h, h = t * 16 + d * 8 + q * 2 + r
  PROVE  h \in Nat /\ h \div 16 = t /\ (h \div 8) % 2 = d /\ (h \div 2) % 4 = q /\ h % 2 = r
<1>1. h \in Nat /\ h \div 16 = t
  OBVIOUS
<1>2. (h \div 8) % 2 = d
  <2>1. h \div 8 = t * 2 + d
    OBVIOUS
  <2> QED BY <2>1
<1>3. (h \div 2) % 4 = q
  <2>1. h \div 2 = t * 8 + d * 4 + q
    OBVIOUS
  <2> QED BY <2>1
<1>4. h % 2 = r
  OBVIOUS
<1> QED BY <1>1, <1>2, <1>3, <1>4

LEMMA HeaderRead ==
  ASSUME NEW type \in DOMAIN Types, NEW dup \in BOOLEAN, NEW qos \in 0 .. 3, NEW retain \in BOOLEAN,
         NEW h, h = MQTTHeader(type, dup, qos, retain)
  PROVE  h \in Nat /\ Type(h) = Types[type] /\ Dup(h) = dup /\ Qos(h) = qos /\ Retain(h) = retain
<1>1. PICK t, d, r : t = Types[type] /\ d = Bit(dup) /\ r = Bit(retain)
  OBVIOUS
<1>2. t \in Nat /\ d \in 0 .. 1 /\ r \in 0 .. 1 /\ (dup <=> d = 1) /\ (retain <=> r = 1)
  BY <1>1, TypeCodes, Bits
<1>3. h = t * 16 + d * 8 + qos * 2 + r
  BY <1>1 DEF MQTTHeader
<1>4. h \in Nat /\ h \div 16 = t /\ (h \div 8) % 2 = d /\ (h \div 2) % 4 = qos /\ h % 2 = r
  BY <1>2, <1>3, HeaderBits
<1>5. Dup(h) = dup
  <2>1. Dup(h) <=> dup
    BY <1>2, <1>4 DEF Dup
  <2>2. Dup(h) \in BOOLEAN
    BY Zenon DEF Dup
  <2> QED BY <2>1, <2>2, Zenon
<1>6. Retain(h) = retain
  <2>1. Retain(h) <=> retain
    BY <1>2, <1>4 DEF Retain
  <2>2. Retain(h) \in BOOLEAN
    BY Zenon DEF Retain
  <2> QED BY <2>1, <2>2, Zenon
<1> QED BY <1>1, <1>4, <1>5, <1>6 DEF Type, Qos

(***************************************************************************)
(* Lists of filters.                                                       *)
(***************************************************************************)
NoBytes == <<>>
LastJoined(ss, k, x) == ss[Len(ss) - k + 1] \o x
JoinedRun(g, ss, N) == g[0] = NoBytes /\ \A k \in 1 .. N : g[k] = LastJoined(ss, k, g[k - 1])
JoinedRuns(ss, N) == \E g : JoinedRun(g, ss, N)

LEMMA AllJoinedRun ==
  ASSUME NEW ss, NEW N \in Nat
  PROVE  JoinedRuns(ss, N)
<1> DEFINE S == {n \in Nat : JoinedRuns(ss, n)}
<1>1. 0 \in S
  <2> DEFINE g == [k \in 0 .. 0 |-> NoBytes]
  <2>1. JoinedRun(g, ss, 0)
    BY DEF JoinedRun
  <2> QED BY <2>1 DEF JoinedRuns
<1>2. ASSUME NEW n \in Nat, n \in S
      PROVE  n + 1 \in S
  <2>1. PICK g : JoinedRun(g, ss, n)
    BY <1>2 DEF JoinedRuns
  <2> DEFINE h == [k \in 0 .. n + 1 |-> IF k = n + 1 THEN LastJoined(ss, n + 1, g[n]) ELSE g[k]]
  <2>2. h[0] = NoBytes
    BY <2>1 DEF JoinedRun
  <2>3. ASSUME NEW k \in 1 .. n + 1
        PROVE  h[k] = LastJoined(ss, k, h[k - 1])
    <3>1. CASE k = n + 1
      <4>1. h[k] = LastJoined(ss, n + 1, g[n]) /\ h[k - 1] = g[n]
        BY <3>1
      <4> QED BY <3>1, <4>1
    <3>2. CASE k \in 1 .. n
      <4>1. h[k] = g[k] /\ h[k - 1] = g[k - 1]
        BY <3>2
      <4>2. g[k] = LastJoined(ss, k, g[k - 1])
        BY <2>1, <3>2 DEF JoinedRun
      <4> QED BY <4>1, <4>2
    <3> QED BY <3>1, <3>2
  <2> HIDE DEF h
  <2>4. JoinedRun(h, ss, n + 1)
    BY <2>2, <2>3 DEF JoinedRun
  <2> QED BY <2>4 DEF JoinedRuns
<1>3. N \in S
  <2> HIDE DEF S
  <2> QED BY <1>1, <1>2, Induction
<1> QED BY <1>3

LEMMA JoinedIs ==
  ASSUME NEW ss, Len(ss) \in Nat
  PROVE  \E g : JoinedRun(g, ss, Len(ss)) /\ Joined(ss) = g[Len(ss)]
<1> DEFINE Def(g) == g = [k \in 0 .. Len(ss) |-> IF k = 0 THEN NoBytes ELSE LastJoined(ss, k, g[k - 1])]
           last == CHOOSE g : Def(g)
<1>1. \E g : Def(g)
  <2>1. PICK g : JoinedRun(g, ss, Len(ss))
    BY AllJoinedRun DEF JoinedRuns
  <2> DEFINE h == [k \in 0 .. Len(ss) |-> g[k]]
  <2>2. \A k \in 0 .. Len(ss) : h[k] = IF k = 0 THEN NoBytes ELSE LastJoined(ss, k, h[k - 1])
    BY <2>1 DEF JoinedRun
  <2>3. Def(h)
    BY <2>2
  <2> QED BY <2>3
<1>2. Def(last)
  BY <1>1
<1>3. Joined(ss) = last[Len(ss)]
  BY DEF Joined, NoBytes, LastJoined
<1>4. JoinedRun(last, ss, Len(ss))
  <2> HIDE DEF last
  <2> QED BY <1>2 DEF JoinedRun
<1> HIDE DEF last
<1> QED BY <1>3, <1>4

Unread(b) == <<b, <<>>, <<>>, TRUE>>
FilterRun(g, b, withQos, N) ==
  g[0] = Unread(b) /\ \A k \in 1 .. N : g[k] = FilterPass(g[k - 1], withQos)
FilterRuns(b, withQos, N) == \E g : FilterRun(g, b, withQos, N)

LEMMA AllFilterRun ==
  ASSUME NEW b, NEW withQos, NEW N \in Nat
  PROVE  FilterRuns(b, withQos, N)
<1> DEFINE S == {n \in Nat : FilterRuns(b, withQos, n)}
<1>1. 0 \in S
  <2> DEFINE g == [k \in 0 .. 0 |-> Unread(b)]
  <2>1. FilterRun(g, b, withQos, 0)
    BY DEF FilterRun
  <2> QED BY <2>1 DEF FilterRuns
<1>2. ASSUME NEW n \in Nat, n \in S
      PROVE  n + 1 \in S
  <2>1. PICK g : FilterRun(g, b, withQos, n)
    BY <1>2 DEF FilterRuns
  <2> DEFINE h == [k \in 0 .. n + 1 |-> IF k = n + 1 THEN FilterPass(g[n], withQos) ELSE g[k]]
  <2>2. h[0] = Unread(b)
    BY <2>1 DEF FilterRun
  <2>3. ASSUME NEW k \in 1 .. n + 1
        PROVE  h[k] = FilterPass(h[k - 1], withQos)
    <3>1. CASE k = n + 1
      <4>1. h[k] = FilterPass(g[n], withQos) /\ h[k - 1] = g[n]
        BY <3>1
      <4> QED BY <4>1
    <3>2. CASE k \in 1 .. n
      <4>1. h[k] = g[k] /\ h[k - 1] = g[k - 1]
        BY <3>2
      <4>2. g[k] = FilterPass(g[k - 1], withQos)
        BY <2>1, <3>2 DEF FilterRun
      <4> QED BY <4>1, <4>2
    <3> QED BY <3>1, <3>2
  <2> HIDE DEF h
  <2>4. FilterRun(h, b, withQos, n + 1)
    BY <2>2, <2>3 DEF FilterRun
  <2> QED BY <2>4 DEF FilterRuns
<1>3. N \in S
  <2> HIDE DEF S
  <2> QED BY <1>1, <1>2, Induction
<1> QED BY <1>3

LEMMA FiltersAre ==
  ASSUME NEW b, Len(b) \in Nat, NEW withQos
  PROVE  \E g : FilterRun(g, b, withQos, Len(b)) /\ Filters(b, withQos) = g[Len(b)]
<1> DEFINE Def(g) == g = [k \in 0 .. Len(b) |->
                            IF k = 0 THEN Unread(b) ELSE FilterPass(g[k - 1], withQos)]
           pass == CHOOSE g : Def(g)
<1>1. \E g : Def(g)
  <2>1. PICK g : FilterRun(g, b, withQos, Len(b))
    BY AllFilterRun DEF FilterRuns
  <2> DEFINE h == [k \in 0 .. Len(b) |-> g[k]]
  <2>2. \A k \in 0 .. Len(b) : h[k] = IF k = 0 THEN Unread(b) ELSE FilterPass(h[k - 1], withQos)
    BY <2>1 DEF FilterRun
  <2>3. Def(h)
    BY <2>2
  <2> QED BY <2>3
<1>2. Def(pass)
  BY <1>1
<1>3. Filters(b, withQos) = pass[Len(b)]
  BY DEF Filters, Unread
<1>4. FilterRun(pass, b, withQos, Len(b))
  <2> HIDE DEF pass
  <2> QED BY <1>2 DEF FilterRun
<1> HIDE DEF pass
<1> QED BY <1>3, <1>4

(* A filter as it is written.  *)
FilterItem(x, s, y, withQos) == x = IF withQos THEN writeMQTTString(s) \o <<y>> ELSE writeMQTTString(s)

ItemThen(b, s, y, r, withQos) ==
  \E c \in Bytes : TextFirst(b, s, c) /\ IF withQos THEN First(c, y, r) ELSE c = r

LEMMA ItemFirst ==
  ASSUME NEW s \in Texts, NEW withQos \in BOOLEAN, NEW y, withQos => y \in Nat, NEW r \in Bytes,
         NEW x, FilterItem(x, s, y, withQos), NEW b, Concat(b, x, r)
  PROVE  /\ b \in Bytes /\ Len(b) \in Nat /\ Len(b) >= 2 + Len(r)
         /\ ItemThen(b, s, y, r, withQos)
<1>1. PICK w : w = writeMQTTString(s)
  OBVIOUS
<1>2. w \in Bytes
  <2>1. \E d : TextFirst(d, s, r)
    BY DEF TextFirst
  <2> QED BY <1>1, <2>1, WrittenString
<1>3. CASE withQos
  <2>1. PICK z, c : z = <<y>> /\ First(c, y, r)
    BY DEF First
  <2>2. z \in Bytes
    BY <1>3, <2>1, BytesAre
  <2>3. c \in Bytes /\ Len(c) = 1 + Len(r) /\ Len(r) \in Nat
    BY <1>3, <2>1, One
  <2>4. Concat(x, w, z) /\ Concat(c, z, r)
    BY <1>1, <1>3, <2>1 DEF FilterItem, Concat, First
  <2>5. Concat(b, w, c)
    BY <1>2, <2>2, <2>4, Assoc
  <2>6. TextFirst(b, s, c)
    BY <1>1, <2>5 DEF TextFirst, Concat
  <2>7. b \in Bytes /\ Len(b) = 2 + Len(s) + Len(c) /\ Len(s) \in Nat
    BY <2>3, <2>6, WrittenString
  <2>8. Len(b) \in Nat /\ Len(b) >= 2 + Len(r)
    BY <2>3, <2>7
  <2> QED BY <1>3, <2>1, <2>3, <2>6, <2>7, <2>8 DEF ItemThen
<1>4. CASE ~withQos
  <2>1. TextFirst(b, s, r)
    BY <1>1, <1>4 DEF TextFirst, Concat, FilterItem
  <2>2. b \in Bytes /\ Len(b) = 2 + Len(s) + Len(r) /\ Len(s) \in Nat /\ Len(r) \in Nat
    BY <2>1, WrittenString
  <2>3. Len(b) \in Nat /\ Len(b) >= 2 + Len(r)
    BY <2>2
  <2> QED BY <1>4, <2>1, <2>2, <2>3 DEF ItemThen
<1> QED BY <1>3, <1>4

(* What is left of the bytes and what was read.  *)
Reading(st, b, fs, qs) == st = <<b, fs, qs, TRUE>>
Also(t, s, x) == t = Append(s, x)

LEMMA FilterRead ==
  ASSUME NEW s \in Texts, NEW withQos \in BOOLEAN, NEW y, withQos => y \in Nat, NEW r \in Bytes,
         NEW x, FilterItem(x, s, y, withQos), NEW b, Concat(b, x, r),
         NEW st, NEW fs, NEW qs, Reading(st, b, fs, qs),
         NEW fs2, Also(fs2, fs, s), NEW qs2, IF withQos THEN Also(qs2, qs, y) ELSE qs2 = qs
  PROVE  Reading(FilterPass(st, withQos), r, fs2, qs2)
<1>1. b \in Bytes /\ Len(b) \in Nat /\ Len(b) >= 2 + Len(r) /\ Len(r) \in Nat
  BY ItemFirst, BytesAre
<1>2. PICK c \in Bytes : TextFirst(b, s, c) /\ IF withQos THEN First(c, y, r) ELSE c = r
  <2>1. ItemThen(b, s, y, r, withQos)
    BY ItemFirst
  <2> QED BY <2>1 DEF ItemThen
<1>3. HasString(b) /\ StringOf(b) = s /\ AfterString(b) = c
  BY <1>2, WrittenString
<1>4. b # <<>>
  BY <1>1, BytesAre
<1>5. st[1] = b /\ st[2] = fs /\ st[3] = qs
  BY DEF Reading
<1>6. CASE withQos
  <2>1. c # <<>> /\ c[1] = y /\ From(c, 1) = r
    BY <1>2, <1>6, One
  <2>2. FilterPass(st, withQos) = <<From(c, 1), Append(fs, s), Append(qs, c[1]), TRUE>>
    BY <1>3, <1>4, <1>5, <1>6, <2>1 DEF FilterPass
  <2> QED BY <1>6, <2>1, <2>2 DEF Reading, Also
<1>7. CASE ~withQos
  <2>1. FilterPass(st, withQos) = <<c, Append(fs, s), qs, TRUE>>
    BY <1>3, <1>4, <1>5, <1>7 DEF FilterPass
  <2> QED BY <1>2, <1>7, <2>1 DEF Reading, Also
<1> QED BY <1>6, <1>7

(* The first k members of a sequence.  *)
FirstOf(t, s, k) == Len(t) = k /\ \A i \in 1 .. k : t[i] = s[i]

LEMMA OneMore ==
  ASSUME NEW S, NEW t \in Seq(S), NEW s, NEW k \in Nat, FirstOf(t, s, k), s[k + 1] \in S, NEW u, Also(u, t, s[k + 1])
  PROVE  u \in Seq(S) /\ FirstOf(u, s, k + 1)
<1>1. PICK x : x = s[k + 1] /\ x \in S
  OBVIOUS
<1>2. /\ u \in Seq(S) /\ Len(u) = Len(t) + 1 /\ \A i \in 1 .. Len(t) : u[i] = t[i]
      /\ u[Len(t) + 1] = x
  BY <1>1, AppendProperties DEF Also
<1> QED BY <1>1, <1>2 DEF FirstOf

LEMMA AllOfThem ==
  ASSUME NEW S, NEW t \in Seq(S), NEW s \in Seq(S), FirstOf(t, s, Len(s))
  PROVE  t = s
BY SeqEqual DEF FirstOf

FiltersReadAt(st, b, withQos, f, q, k) ==
  \E fs, qs : /\ Reading(st, b, fs, qs)
              /\ fs \in Seq(Texts) /\ FirstOf(fs, f, k)
              /\ withQos => qs \in Bytes /\ FirstOf(qs, q, k)

LEMMA NextFilter ==
  ASSUME NEW withQos \in BOOLEAN, NEW f, NEW q, NEW k \in Nat, f[k + 1] \in Texts,
         withQos => q[k + 1] \in Nat,
         NEW r \in Bytes, NEW x, FilterItem(x, f[k + 1], q[k + 1], withQos), NEW b, Concat(b, x, r),
         NEW st, FiltersReadAt(st, b, withQos, f, q, k)
  PROVE  FiltersReadAt(FilterPass(st, withQos), r, withQos, f, q, k + 1)
<1>1. PICK fs, qs : /\ Reading(st, b, fs, qs)
                    /\ fs \in Seq(Texts) /\ FirstOf(fs, f, k)
                    /\ withQos => qs \in Bytes /\ FirstOf(qs, q, k)
  BY DEF FiltersReadAt
<1>2. PICK s, y : s = f[k + 1] /\ y = q[k + 1]
  OBVIOUS
<1>3. PICK fs2 : Also(fs2, fs, s)
  BY DEF Also
<1>4. PICK qs2 : IF withQos THEN Also(qs2, qs, y) ELSE qs2 = qs
  <2>1. \E z : Also(z, qs, y)
    BY DEF Also
  <2> QED BY <2>1
<1>5. Reading(FilterPass(st, withQos), r, fs2, qs2)
  BY <1>1, <1>2, <1>3, <1>4, FilterRead
<1>6. fs2 \in Seq(Texts) /\ FirstOf(fs2, f, k + 1)
  BY <1>1, <1>2, <1>3, OneMore
<1>7. withQos => qs2 \in Bytes /\ FirstOf(qs2, q, k + 1)
  <2>1. PICK S : S = Nat
    OBVIOUS
  <2>2. Bytes = Seq(S)
    BY <2>1 DEF Bytes
  <2>3. withQos => y \in S
    BY <1>2, <2>1
  <2> QED BY <1>1, <1>2, <1>4, <2>2, <2>3, OneMore
<1> QED BY <1>5, <1>6, <1>7 DEF FiltersReadAt

(* What is joined: the last k of the filters are that long at least.  *)
LEMMA JoinedBytes ==
  ASSUME NEW withQos \in BOOLEAN, NEW f \in Seq(Texts), NEW q, NEW n \in Nat, n = Len(f),
         withQos => \A i \in 1 .. n : q[i] \in Nat,
         NEW ss, Len(ss) = n, \A i \in 1 .. n : FilterItem(ss[i], f[i], q[i], withQos),
         NEW g, JoinedRun(g, ss, n)
  PROVE  \A k \in 0 .. n : g[k] \in Bytes /\ Len(g[k]) \in Nat /\ Len(g[k]) >= 2 * k
<1> DEFINE S == {k \in Nat : k <= n => g[k] \in Bytes /\ Len(g[k]) \in Nat /\ Len(g[k]) >= 2 * k}
<1>1. 0 \in S
  BY BytesAre DEF JoinedRun, NoBytes
<1>2. ASSUME NEW k \in Nat, k \in S
      PROVE  k + 1 \in S
  <2> SUFFICES ASSUME k + 1 <= n
               PROVE  g[k + 1] \in Bytes /\ Len(g[k + 1]) \in Nat /\ Len(g[k + 1]) >= 2 * (k + 1)
    OBVIOUS
  <2>1. PICK r, b, i : r = g[k] /\ b = g[k + 1] /\ i = n - k /\ i \in 1 .. n
    <3>1. n - k \in 1 .. n
      OBVIOUS
    <3> QED BY <3>1
  <2>2. r \in Bytes /\ Len(r) \in Nat /\ Len(r) >= 2 * k
    BY <1>2, <2>1
  <2>3. Concat(b, ss[i], r)
    <3>1. b = LastJoined(ss, k + 1, r)
      <4>1. k + 1 \in 1 .. n /\ k + 1 - 1 = k
        OBVIOUS
      <4> QED BY <2>1, <4>1 DEF JoinedRun
    <3>2. Len(ss) - (k + 1) + 1 = i
      BY <2>1
    <3> QED BY <3>1, <3>2 DEF LastJoined, Concat
  <2>4. PICK s, y, x : s = f[i] /\ y = q[i] /\ x = ss[i]
    OBVIOUS
  <2>5. s \in Texts /\ (withQos => y \in Nat) /\ FilterItem(x, s, y, withQos) /\ Concat(b, x, r)
    BY <2>1, <2>3, <2>4, ElementOfSeq
  <2>6. b \in Bytes /\ Len(b) \in Nat /\ Len(b) >= 2 + Len(r)
    BY <2>2, <2>5, ItemFirst
  <2> QED BY <2>1, <2>2, <2>6
<1>3. \A k \in Nat : k \in S
  <2> HIDE DEF S
  <2> QED BY <1>1, <1>2, Induction
<1> QED BY <1>3

LEMMA FiltersRead ==
  ASSUME NEW withQos \in BOOLEAN, NEW f \in Seq(Texts), NEW q, NEW n \in Nat, n = Len(f),
         withQos => q \in Bytes /\ Len(q) = n,
         NEW ss, Len(ss) = n, \A i \in 1 .. n : FilterItem(ss[i], f[i], q[i], withQos),
         NEW b, b = Joined(ss)
  PROVE  b \in Bytes /\ \E qs : Reading(Filters(b, withQos), <<>>, f, qs) /\ (withQos => qs = q)
<1>1. PICK g : JoinedRun(g, ss, n) /\ b = g[n]
  BY JoinedIs
<1>2. withQos => \A i \in 1 .. n : q[i] \in Nat
  BY BytesAre
<1>3. \A k \in 0 .. n : g[k] \in Bytes /\ Len(g[k]) \in Nat /\ Len(g[k]) >= 2 * k
  BY <1>1, <1>2, JoinedBytes
<1>4. PICK N : N = Len(b) /\ N \in Nat /\ N >= 2 * n /\ b \in Bytes
  BY <1>1, <1>3
<1>5. PICK p : FilterRun(p, b, withQos, N) /\ Filters(b, withQos) = p[N]
  BY <1>4, FiltersAre
<1> DEFINE S == {k \in Nat : k <= n => FiltersReadAt(p[k], g[n - k], withQos, f, q, k)}
<1>6. 0 \in S
  <2>1. p[0] = <<b, <<>>, <<>>, TRUE>>
    BY <1>5 DEF FilterRun, Unread
  <2>2. <<>> \in Seq(Texts) /\ FirstOf(<<>>, f, 0) /\ FirstOf(<<>>, q, 0)
    BY DEF FirstOf
  <2>3. Reading(p[0], g[n - 0], <<>>, <<>>)
    BY <1>1, <2>1 DEF Reading
  <2> QED BY <2>2, <2>3, BytesAre DEF FiltersReadAt
<1>7. ASSUME NEW k \in Nat, k \in S
      PROVE  k + 1 \in S
  <2> SUFFICES ASSUME k + 1 <= n
               PROVE  FiltersReadAt(p[k + 1], g[n - (k + 1)], withQos, f, q, k + 1)
    OBVIOUS
  <2>1. PICK r, d, x, st, j : /\ r = g[n - (k + 1)] /\ d = g[n - k] /\ x = ss[k + 1] /\ st = p[k]
                              /\ j = n - k /\ j \in 1 .. n
    <3>1. n - k \in 1 .. n
      OBVIOUS
    <3> QED BY <3>1
  <2>2. r \in Bytes
    <3>1. n - (k + 1) \in 0 .. n
      OBVIOUS
    <3> QED BY <1>3, <2>1, <3>1
  <2>3. Concat(d, x, r)
    <3>1. g[j] = LastJoined(ss, j, g[j - 1])
      BY <1>1, <2>1 DEF JoinedRun
    <3>2. j - 1 = n - (k + 1) /\ Len(ss) - j + 1 = k + 1
      BY <2>1
    <3>3. d = LastJoined(ss, j, r)
      BY <2>1, <3>1, <3>2
    <3> QED BY <2>1, <3>2, <3>3 DEF LastJoined, Concat
  <2>4. k + 1 \in 1 .. n
    OBVIOUS
  <2>5. f[k + 1] \in Texts /\ (withQos => q[k + 1] \in Nat) /\ FilterItem(x, f[k + 1], q[k + 1], withQos)
    BY <1>2, <2>1, <2>4, ElementOfSeq
  <2>6. FiltersReadAt(st, d, withQos, f, q, k)
    BY <1>7, <2>1
  <2>7. FiltersReadAt(FilterPass(st, withQos), r, withQos, f, q, k + 1)
    BY <2>2, <2>3, <2>5, <2>6, NextFilter
  <2>8. p[k + 1] = FilterPass(st, withQos)
    <3>1. k + 1 \in 1 .. N /\ k + 1 - 1 = k
      BY <1>4
    <3> QED BY <1>5, <2>1, <3>1 DEF FilterRun
  <2> QED BY <2>1, <2>7, <2>8
<1>8. FiltersReadAt(p[n], <<>>, withQos, f, q, n)
  <2>1. n \in S
    <3> HIDE DEF S
    <3> QED BY <1>6, <1>7, Induction
  <2>2. g[n - n] = <<>>
    BY <1>1 DEF JoinedRun, NoBytes
  <2> QED BY <2>1, <2>2
<1>9. PICK fs, qs : /\ Reading(p[n], <<>>, fs, qs)
                    /\ fs \in Seq(Texts) /\ FirstOf(fs, f, n)
                    /\ withQos => qs \in Bytes /\ FirstOf(qs, q, n)
  BY <1>8 DEF FiltersReadAt
<1>10. fs = f /\ (withQos => qs = q)
  <2>1. fs = f
    BY <1>9, AllOfThem
  <2>2. PICK S2 : S2 = Nat
    OBVIOUS
  <2>3. Bytes = Seq(S2)
    BY <2>2 DEF Bytes
  <2>4. withQos => qs = q
    BY <1>9, <2>3, AllOfThem
  <2> QED BY <2>1, <2>4
<1> DEFINE T == {k \in Nat : n + k <= N => p[n + k] = p[n]}
<1>11. 0 \in T
  OBVIOUS
<1>12. ASSUME NEW k \in Nat, k \in T
       PROVE  k + 1 \in T
  <2> SUFFICES ASSUME n + (k + 1) <= N
               PROVE  p[n + (k + 1)] = p[n]
    OBVIOUS
  <2>1. p[n + (k + 1)] = FilterPass(p[n + k], withQos)
    <3>1. n + (k + 1) \in 1 .. N /\ n + (k + 1) - 1 = n + k
      OBVIOUS
    <3> QED BY <1>5, <3>1 DEF FilterRun
  <2>2. p[n + k] = p[n]
    BY <1>4, <1>12
  <2>3. p[n][1] = <<>>
    BY <1>9 DEF Reading
  <2>4. FilterPass(p[n], withQos) = p[n]
    BY <2>3 DEF FilterPass
  <2> QED BY <2>1, <2>2, <2>4
<1>13. p[N] = p[n]
  <2>1. N - n \in Nat /\ n + (N - n) = N
    BY <1>4
  <2>2. N - n \in T
    <3> HIDE DEF T
    <3> QED BY <1>11, <1>12, <2>1, Induction
  <2> QED BY <2>1, <2>2
<1> QED BY <1>4, <1>5, <1>9, <1>10, <1>13

(***************************************************************************)
(* What each packet is read as.                                            *)
(***************************************************************************)
LEMMA SendableIs ==
  ASSUME NEW p, Sendable(p)
  PROVE  /\ p.type = "CONNECT" =>
              /\ p \in [type : {"CONNECT"}, protocol : Texts, version : Nat, cleansession : BOOLEAN,
                        keepAlive : Ids, clientID : Texts,
                        will : {None} \cup (0 .. 3) \X BOOLEAN \X Texts \X Texts,
                        username : Options, password : Options]
              /\ checkVersion(p.protocol, p.version)
         /\ p.type = "CONNACK" => p \in [type : {"CONNACK"}, session : BOOLEAN, code : Nat]
         /\ p.type = "PUBLISH" =>
              /\ p \in [type : {"PUBLISH"}, dup : BOOLEAN, qos : 0 .. 3, retain : BOOLEAN,
                        topic : Texts, id : Ids, payload : Seq(Nat)]
              /\ p.qos = 0 => p.id = 0
         /\ p.type = "SUBSCRIBE" =>
              /\ p \in [type : {"SUBSCRIBE"}, dup : BOOLEAN, id : Ids, filters : Seq(Texts), qoss : Seq(Nat)]
              /\ Len(p.qoss) = Len(p.filters)
         /\ p.type = "UNSUBSCRIBE" => p \in [type : {"UNSUBSCRIBE"}, dup : BOOLEAN, id : Ids, filters : Seq(Texts)]
         /\ p.type = "SUBACK" => p \in [type : {"SUBACK"}, id : Ids, granted : Seq(Nat)]
         /\ p.type \in Acks => p \in [type : Acks, dup : IF p.type = "PUBREL" THEN BOOLEAN ELSE {FALSE}, id : Ids]
         /\ p.type \in Empty => p \in [type : Empty]
         /\ p.type \in DOMAIN Types
BY DEF Sendable, Acks, Empty, Types

LEMMA BodyIs ==
  ASSUME NEW p
  PROVE  /\ p.type = "CONNECT" => Body(p) = MQTTSerialize_connect(p)
         /\ p.type = "CONNACK" => Body(p) = MQTTSerialize_connack(p)
         /\ p.type = "PUBLISH" => Body(p) = MQTTSerialize_publish(p)
         /\ p.type = "SUBSCRIBE" => Body(p) = MQTTSerialize_subscribe(p)
         /\ p.type = "SUBACK" => Body(p) = MQTTSerialize_suback(p)
         /\ p.type = "UNSUBSCRIBE" => Body(p) = MQTTSerialize_unsubscribe(p)
         /\ p.type \in Acks => Body(p) = MQTTSerialize_ack(p)
         /\ p.type \in Empty => Body(p) = <<>>
BY DEF Body, Acks, Empty

LEMMA ParsedIs ==
  ASSUME NEW h, NEW b
  PROVE  /\ Parsed("CONNECT", h, b) = MQTTDeserialize_connect(b)
         /\ Parsed("CONNACK", h, b) = MQTTDeserialize_connack(b)
         /\ Parsed("PUBLISH", h, b) = MQTTDeserialize_publish(h, b)
         /\ Parsed("SUBSCRIBE", h, b) = MQTTDeserialize_subscribe(h, b)
         /\ Parsed("SUBACK", h, b) = MQTTDeserialize_suback(b)
         /\ Parsed("UNSUBSCRIBE", h, b) = MQTTDeserialize_unsubscribe(h, b)
         /\ \A type \in Acks : Parsed(type, h, b) = MQTTDeserialize_ack(type, h, b)
         /\ \A type \in Empty : Parsed(type, h, b) = [type |-> type]
BY DEF Parsed, Acks, Empty

LEMMA ReadConnack ==
  ASSUME NEW p, Sendable(p), p.type = "CONNACK", NEW h, NEW b, b = Body(p)
  PROVE  b \in Bytes /\ Len(b) = 2 /\ Parsed("CONNACK", h, b) = p
<1>1. p \in [type : {"CONNACK"}, session : BOOLEAN, code : Nat]
  BY SendableIs
<1>2. b = <<Bit(p.session) * 128, p.code>>
  BY BodyIs DEF MQTTSerialize_connack
<1>3. PICK x, y : x = Bit(p.session) /\ x \in 0 .. 1 /\ (p.session <=> x = 1) /\ y = p.code /\ y \in Nat
  BY <1>1, Bits
<1>4. x * 128 \in Nat /\ (x * 128) \div 128 = x
  BY <1>3
<1>5. b \in Bytes /\ Len(b) = 2 /\ b[1] = x * 128 /\ b[2] = y
  BY <1>2, <1>3, <1>4 DEF Bytes
<1>6. (b[1] \div 128 = 1) = p.session
  <2>1. (b[1] \div 128 = 1) <=> p.session
    BY <1>3, <1>4, <1>5
  <2>2. p.session \in BOOLEAN
    BY <1>1
  <2> QED BY <2>1, <2>2, Zenon
<1>7. Parsed("CONNACK", h, b) = [type |-> "CONNACK", session |-> b[1] \div 128 = 1, code |-> b[2]]
  BY <1>5, ParsedIs DEF MQTTDeserialize_connack
<1>8. p = [type |-> "CONNACK", session |-> p.session, code |-> p.code]
  BY <1>1
<1> QED BY <1>3, <1>5, <1>6, <1>7, <1>8

LEMMA ReadEmpty ==
  ASSUME NEW p, Sendable(p), p.type \in Empty, NEW h, NEW b, b = Body(p)
  PROVE  b \in Bytes /\ Len(b) = 0 /\ Parsed(p.type, h, b) = p
<1>1. p \in [type : Empty]
  BY SendableIs
<1>2. b = <<>>
  BY BodyIs
<1>3. Parsed(p.type, h, b) = [type |-> p.type]
  BY ParsedIs
<1>4. p = [type |-> p.type]
  BY <1>1
<1> QED BY <1>2, <1>3, <1>4, BytesAre

LEMMA Alone ==
  ASSUME NEW n \in Ids, NEW b, b = writeInt(n)
  PROVE  b \in Bytes /\ Len(b) = 2 /\ readInt(b) = n
<1>1. b \in Bytes
  <2>1. \E c : IntFirst(c, n, <<>>)
    BY DEF IntFirst
  <2> QED BY <2>1, WrittenInt, BytesAre
<1>2. IntFirst(b, n, <<>>)
  BY <1>1, BytesAre DEF IntFirst
<1> QED BY <1>2, WrittenInt, BytesAre

LEMMA ReadAck ==
  ASSUME NEW p, Sendable(p), p.type \in Acks, NEW h, Dup(h) = p.dup, NEW b, b = Body(p)
  PROVE  b \in Bytes /\ Len(b) = 2 /\ Parsed(p.type, h, b) = p
<1>1. p \in [type : Acks, dup : IF p.type = "PUBREL" THEN BOOLEAN ELSE {FALSE}, id : Ids]
  BY SendableIs
<1>2. b = writeInt(p.id)
  BY BodyIs DEF MQTTSerialize_ack
<1>3. b \in Bytes /\ Len(b) = 2 /\ readInt(b) = p.id
  BY <1>1, <1>2, Alone
<1>4. Parsed(p.type, h, b) = [type |-> p.type, dup |-> Dup(h), id |-> readInt(b)]
  <2>1. ~(Len(b) < 2)
    BY <1>3
  <2>2. Parsed(p.type, h, b) = MQTTDeserialize_ack(p.type, h, b)
    BY ParsedIs
  <2> QED BY <2>1, <2>2 DEF MQTTDeserialize_ack
<1>5. p = [type |-> p.type, dup |-> p.dup, id |-> p.id]
  BY <1>1
<1> QED BY <1>3, <1>4, <1>5

LEMMA BytesEq == Bytes = Seq(Nat)
BY DEF Bytes

LEMMA ReadSuback ==
  ASSUME NEW p, Sendable(p), p.type = "SUBACK", NEW h, NEW b, b = Body(p)
  PROVE  b \in Bytes /\ Len(b) = 2 + Len(p.granted) /\ Len(p.granted) \in Nat /\ Parsed("SUBACK", h, b) = p
<1>1. p \in [type : {"SUBACK"}, id : Ids, granted : Bytes]
  BY SendableIs, BytesEq
<1>2. PICK n, g : n = p.id /\ g = p.granted /\ n \in Ids /\ g \in Bytes
  BY <1>1
<1>3. IntFirst(b, n, g)
  BY <1>2, BodyIs DEF MQTTSerialize_suback, IntFirst
<1>4. b \in Bytes /\ Len(b) = 2 + Len(g) /\ Len(g) \in Nat /\ readInt(b) = n /\ From(b, 2) = g
  BY <1>2, <1>3, WrittenInt
<1>5. ~(Len(b) < 2)
  BY <1>4
<1>6. Parsed("SUBACK", h, b) = [type |-> "SUBACK", id |-> n, granted |-> g]
  BY <1>4, <1>5, ParsedIs DEF MQTTDeserialize_suback
<1>7. p = [type |-> "SUBACK", id |-> p.id, granted |-> p.granted]
  BY <1>1
<1> QED BY <1>2, <1>4, <1>6, <1>7

LEMMA ReadPublish ==
  ASSUME NEW p, Sendable(p), p.type = "PUBLISH",
         NEW h, Dup(h) = p.dup, Qos(h) = p.qos, Retain(h) = p.retain, NEW b, b = Body(p)
  PROVE  b \in Bytes /\ Parsed("PUBLISH", h, b) = p
<1>1. /\ p \in [type : {"PUBLISH"}, dup : BOOLEAN, qos : 0 .. 3, retain : BOOLEAN,
                topic : Texts, id : Ids, payload : Bytes]
      /\ p.qos = 0 => p.id = 0
  BY SendableIs, BytesEq
<1>2. PICK t, n, q, m : t = p.topic /\ n = p.id /\ q = p.qos /\ m = p.payload
  OBVIOUS
<1>3. t \in Texts /\ n \in Ids /\ q \in 0 .. 3 /\ m \in Bytes /\ (q = 0 => n = 0)
  BY <1>1, <1>2
<1>4. PICK w, i, wi : w = writeMQTTString(t) /\ i = (IF q > 0 THEN writeInt(n) ELSE <<>>) /\ Concat(wi, w, i)
  BY DEF Concat
<1>5. w \in Bytes
  <2>1. \E c : TextFirst(c, t, m)
    BY DEF TextFirst
  <2> QED BY <1>3, <1>4, <2>1, WrittenString
<1>6. i \in Bytes
  BY <1>3, <1>4, Alone, BytesAre
<1>7. PICK c : Concat(c, i, m)
  BY DEF Concat
<1>8. Concat(b, wi, m)
  BY <1>2, <1>4, BodyIs DEF MQTTSerialize_publish, Concat
<1>9. Concat(b, w, c) /\ c \in Bytes
  BY <1>3, <1>4, <1>5, <1>6, <1>7, <1>8, Assoc
<1>10. b \in Bytes /\ HasString(b) /\ StringOf(b) = t /\ AfterString(b) = c
  <2>1. TextFirst(b, t, c)
    BY <1>4, <1>9 DEF Concat, TextFirst
  <2> QED BY <1>3, <1>9, <2>1, WrittenString
<1>11. CASE q > 0
  <2>1. IntFirst(c, n, m)
    BY <1>4, <1>7, <1>11 DEF Concat, IntFirst
  <2>2. readInt(c) = n /\ From(c, 2) = m
    BY <1>3, <2>1, WrittenInt
  <2>3. Parsed("PUBLISH", h, b) = [type |-> "PUBLISH", dup |-> Dup(h), qos |-> q, retain |-> Retain(h), topic |-> t,
                                   id |-> n, payload |-> m]
    BY <1>2, <1>10, <1>11, <2>2, ParsedIs DEF MQTTDeserialize_publish
  <2> QED BY <1>1, <1>2, <1>10, <2>3
<1>12. CASE ~(q > 0)
  <2>1. c = m /\ n = 0
    BY <1>3, <1>4, <1>7, <1>12, BytesAre DEF Concat
  <2>2. Parsed("PUBLISH", h, b) = [type |-> "PUBLISH", dup |-> Dup(h), qos |-> q, retain |-> Retain(h), topic |-> t,
                                   id |-> 0, payload |-> c]
    BY <1>2, <1>10, <1>12, ParsedIs DEF MQTTDeserialize_publish
  <2> QED BY <1>1, <1>2, <1>10, <2>1, <2>2
<1> QED BY <1>11, <1>12

LEMMA ReadSubscribe ==
  ASSUME NEW p, Sendable(p), p.type = "SUBSCRIBE", NEW h, Dup(h) = p.dup, NEW b, b = Body(p)
  PROVE  b \in Bytes /\ Parsed("SUBSCRIBE", h, b) = p
<1>1. /\ p \in [type : {"SUBSCRIBE"}, dup : BOOLEAN, id : Ids, filters : Seq(Texts), qoss : Bytes]
      /\ Len(p.qoss) = Len(p.filters)
  BY SendableIs, BytesEq
<1>2. PICK i, f, q, n : i = p.id /\ f = p.filters /\ q = p.qoss /\ n = Len(f)
  OBVIOUS
<1>3. i \in Ids /\ f \in Seq(Texts) /\ q \in Bytes /\ Len(q) = n /\ n \in Nat
  BY <1>1, <1>2
<1>4. PICK ss : ss = [k \in 1 .. Len(p.filters) |-> writeMQTTString(p.filters[k]) \o <<p.qoss[k]>>]
  OBVIOUS
<1>5. Len(ss) = n /\ \A k \in 1 .. n : FilterItem(ss[k], f[k], q[k], TRUE)
  BY <1>2, <1>3, <1>4 DEF FilterItem
<1>6. PICK j : j = Joined(ss)
  OBVIOUS
<1>7. j \in Bytes /\ \E qs : Reading(Filters(j, TRUE), <<>>, f, qs) /\ (TRUE => qs = q)
  BY <1>2, <1>3, <1>5, <1>6, FiltersRead
<1>8. IntFirst(b, i, j)
  BY <1>2, <1>4, <1>6, BodyIs DEF MQTTSerialize_subscribe, IntFirst
<1>9. b \in Bytes /\ readInt(b) = i /\ From(b, 2) = j
  BY <1>3, <1>7, <1>8, WrittenInt
<1>10. Parsed("SUBSCRIBE", h, b) = [type |-> "SUBSCRIBE", dup |-> Dup(h), id |-> i, filters |-> f, qoss |-> q]
  <2>1. PICK r : r = Filters(From(b, 2), TRUE)
    OBVIOUS
  <2>2. r[2] = f /\ r[3] = q /\ r[4] = TRUE
    <3>1. Reading(r, <<>>, f, q)
      BY <1>7, <1>9, <2>1, Zenon
    <3> QED BY <3>1 DEF Reading
  <2>3. MQTTDeserialize_subscribe(h, b) = [type |-> "SUBSCRIBE", dup |-> Dup(h), id |-> readInt(b),
                                           filters |-> r[2], qoss |-> r[3]]
    BY <2>1, <2>2 DEF MQTTDeserialize_subscribe
  <2> QED BY <1>9, <2>2, <2>3, ParsedIs
<1>11. p = [type |-> "SUBSCRIBE", dup |-> p.dup, id |-> p.id, filters |-> p.filters, qoss |-> p.qoss]
  BY <1>1
<1> QED BY <1>2, <1>9, <1>10, <1>11

LEMMA ReadUnsubscribe ==
  ASSUME NEW p, Sendable(p), p.type = "UNSUBSCRIBE", NEW h, Dup(h) = p.dup, NEW b, b = Body(p)
  PROVE  b \in Bytes /\ Parsed("UNSUBSCRIBE", h, b) = p
<1>1. p \in [type : {"UNSUBSCRIBE"}, dup : BOOLEAN, id : Ids, filters : Seq(Texts)]
  BY SendableIs
<1>2. PICK i, f, n : i = p.id /\ f = p.filters /\ n = Len(f)
  OBVIOUS
<1>3. i \in Ids /\ f \in Seq(Texts) /\ n \in Nat
  BY <1>1, <1>2
<1>4. PICK ss : ss = [k \in 1 .. Len(p.filters) |-> writeMQTTString(p.filters[k])]
  OBVIOUS
<1>5. Len(ss) = n /\ \A k \in 1 .. n : FilterItem(ss[k], f[k], f[k], FALSE)
  BY <1>2, <1>3, <1>4 DEF FilterItem
<1>6. PICK j : j = Joined(ss)
  OBVIOUS
<1>7. j \in Bytes /\ \E qs : Reading(Filters(j, FALSE), <<>>, f, qs)
  BY <1>2, <1>3, <1>5, <1>6, FiltersRead
<1>8. IntFirst(b, i, j)
  BY <1>2, <1>4, <1>6, BodyIs DEF MQTTSerialize_unsubscribe, IntFirst
<1>9. b \in Bytes /\ readInt(b) = i /\ From(b, 2) = j
  BY <1>3, <1>7, <1>8, WrittenInt
<1>10. Parsed("UNSUBSCRIBE", h, b) = [type |-> "UNSUBSCRIBE", dup |-> Dup(h), id |-> i, filters |-> f]
  <2>1. PICK r : r = Filters(From(b, 2), FALSE)
    OBVIOUS
  <2>2. r[2] = f /\ r[4] = TRUE
    <3>1. PICK qs : Reading(r, <<>>, f, qs)
      BY <1>7, <1>9, <2>1, Zenon
    <3> QED BY <3>1 DEF Reading
  <2>3. MQTTDeserialize_unsubscribe(h, b) = [type |-> "UNSUBSCRIBE", dup |-> Dup(h), id |-> readInt(b), filters |-> r[2]]
    BY <2>1, <2>2 DEF MQTTDeserialize_unsubscribe
  <2> QED BY <1>9, <2>2, <2>3, ParsedIs
<1>11. p = [type |-> "UNSUBSCRIBE", dup |-> p.dup, id |-> p.id, filters |-> p.filters]
  BY <1>1
<1> QED BY <1>2, <1>9, <1>10, <1>11

(***************************************************************************)
(* A CONNECT.                                                              *)
(***************************************************************************)
FlagsAre(f, u, w, r, q, v, c) == f = u * 128 + w * 64 + r * 32 + q * 8 + v * 4 + c * 2

LEMMA FlagsRead ==
  ASSUME NEW u \in 0 .. 1, NEW w \in 0 .. 1, NEW r \in 0 .. 1, NEW q \in 0 .. 3, NEW v \in 0 .. 1, NEW c \in 0 .. 1,
         NEW f, FlagsAre(f, u, w, r, q, v, c)
  PROVE  /\ f \in Nat /\ f \div 128 = u /\ (f \div 64) % 2 = w /\ (f \div 32) % 2 = r /\ (f \div 8) % 4 = q
         /\ (f \div 4) % 2 = v /\ (f \div 2) % 2 = c
<1> USE DEF FlagsAre
<1>1. f \in Nat /\ f \div 128 = u
  OBVIOUS
<1>2. (f \div 64) % 2 = w
  <2>1. f \div 64 = u * 2 + w
    OBVIOUS
  <2> QED BY <2>1
<1>3. (f \div 32) % 2 = r
  <2>1. f \div 32 = u * 4 + w * 2 + r
    OBVIOUS
  <2> QED BY <2>1
<1>4. (f \div 8) % 4 = q
  <2>1. f \div 8 = u * 16 + w * 8 + r * 4 + q
    OBVIOUS
  <2> QED BY <2>1
<1>5. (f \div 4) % 2 = v
  <2>1. f \div 4 = u * 32 + w * 16 + r * 8 + q * 2 + v
    OBVIOUS
  <2> QED BY <2>1
<1>6. (f \div 2) % 2 = c
  <2>1. f \div 2 = u * 64 + w * 32 + r * 16 + q * 4 + v * 2 + c
    OBVIOUS
  <2> QED BY <2>1
<1> QED BY <1>1, <1>2, <1>3, <1>4, <1>5, <1>6

LEMMA OptionIs ==
  ASSUME NEW o \in Options
  PROVE  \/ o = None
         \/ o # None /\ \E s \in Texts : o = <<s>> /\ o[1] = s
<1>1. o \in Seq(Texts) /\ Len(o) \in 0 .. 1
  <2>1. PICK n : n = Len(o)
    OBVIOUS
  <2>2. o \in Seq(Texts) /\ n <= 1
    BY <2>1 DEF Options
  <2>3. n \in Nat
    BY <2>1, <2>2, LenProperties
  <2>4. n \in 0 .. 1
    BY <2>2, <2>3
  <2> QED BY <2>1, <2>2, <2>4
<1>2. CASE Len(o) = 0
  BY <1>1, <1>2, EmptySeq DEF None
<1>3. CASE Len(o) = 1
  <2>1. PICK s : s = o[1] /\ s \in Texts
    BY <1>1, <1>3, ElementOfSeq
  <2>2. PICK t : t = <<s>>
    OBVIOUS
  <2>3. t \in Seq(Texts) /\ Len(t) = 1 /\ t[1] = s
    BY <2>1, <2>2, OneType
  <2>4. o = t
    BY <1>1, <1>3, <2>1, <2>3, SeqEqual
  <2>5. o # None
    BY <1>3, BytesAre DEF None
  <2> QED BY <2>1, <2>2, <2>4, <2>5
<1> QED BY <1>1, <1>2, <1>3

Connection(pr, v, cs, ka, id, w, u, k) ==
  [type |-> "CONNECT", protocol |-> pr, version |-> v, cleansession |-> cs, keepAlive |-> ka,
   clientID |-> id, will |-> w, username |-> u, password |-> k]

LEMMA ConnectionExcept ==
  ASSUME NEW pr, NEW v, NEW cs, NEW ka, NEW id, NEW w, NEW u, NEW k, NEW x
  PROVE  /\ [Connection(pr, v, cs, ka, id, w, u, k) EXCEPT !.username = x] = Connection(pr, v, cs, ka, id, w, x, k)
         /\ [Connection(pr, v, cs, ka, id, w, u, k) EXCEPT !.password = x] = Connection(pr, v, cs, ka, id, w, u, x)
         /\ [Connection(pr, v, cs, ka, id, w, u, k) EXCEPT !.will = x] = Connection(pr, v, cs, ka, id, x, u, k)
BY DEF Connection

(* The two options that are refused.  *)
BadPair(u, k) ==
  \/ k # None /\ u = None
  \/ u = <<<<>>>> /\ k = None
  \/ k = <<<<>>>>

LEMMA CredentialsRead ==
  ASSUME NEW pr, NEW v, NEW cs, NEW ka, NEW id, NEW w,
         NEW u \in Options, NEW k \in Options,
         NEW user, user = (u # None), NEW pass, pass = (k # None),
         NEW x, x = OptionalString(u), NEW y, y = OptionalString(k), NEW b, Concat(b, x, y),
         NEW p, p = Connection(pr, v, cs, ka, id, w, None, None)
  PROVE  /\ x \in Bytes /\ y \in Bytes /\ b \in Bytes
         /\ Credentials(p, b, user, pass) = IF BadPair(u, k) THEN Refusal ELSE Connection(pr, v, cs, ka, id, w, u, k)
<1>1. ASSUME NEW o \in Options, NEW z, z = OptionalString(o)
      PROVE  z \in Bytes
  <2>1. CASE o = None
    BY <1>1, <2>1, BytesAre DEF OptionalString
  <2>2. CASE o # None
    <3>1. PICK s \in Texts : o = <<s>> /\ o[1] = s
      BY <1>1, <2>2, OptionIs
    <3>2. \E d : TextFirst(d, s, <<>>)
      BY DEF TextFirst
    <3>3. z = writeMQTTString(s)
      BY <1>1, <2>2, <3>1 DEF OptionalString
    <3> QED BY <3>2, <3>3, WrittenString, BytesAre
  <2> QED BY <2>1, <2>2
<1>2. x \in Bytes /\ y \in Bytes
  BY <1>1
<1>3. b \in Bytes
  <2>1. \E n : Front(b, x, n, y) /\ n \in Nat
    BY <1>2, BytesAre DEF Front, Concat
  <2> QED BY <1>2, <2>1, CutBytes
<1>4. CASE u = None
  <2>1. ~user
    BY <1>4, Zenon
  <2>2. CASE k = None
    <3>1. ~pass
      BY <2>2, Zenon
    <3>2. ~BadPair(u, k)
      <4>1. None # <<<<>>>>
        BY DEF None
      <4> QED BY <1>4, <2>2, <4>1 DEF BadPair
    <3>3. Credentials(p, b, user, pass) = p
      BY <2>1, <3>1 DEF Credentials
    <3> QED BY <1>2, <1>3, <1>4, <2>2, <3>2, <3>3
  <2>3. CASE k # None
    <3>1. pass
      BY <2>3, Zenon
    <3>2. BadPair(u, k)
      BY <1>4, <2>3 DEF BadPair
    <3>3. Credentials(p, b, user, pass) = Refusal
      BY <2>1, <3>1 DEF Credentials
    <3> QED BY <1>2, <1>3, <3>2, <3>3
  <2> QED BY <2>2, <2>3
<1>5. CASE u # None
  <2>1. user
    BY <1>5, Zenon
  <2>2. PICK s \in Texts : u = <<s>> /\ u[1] = s
    BY <1>5, OptionIs
  <2>3. TextFirst(b, s, y)
    BY <1>5, <2>2 DEF TextFirst, Concat, OptionalString
  <2>4. /\ Len(b) = 2 + Len(s) + Len(y) /\ Len(s) \in Nat /\ Len(y) \in Nat
        /\ HasString(b) /\ StringOf(b) = s /\ AfterString(b) = y
    BY <1>2, <2>3, WrittenString
  <2>5. PICK q : q = [p EXCEPT !.username = <<StringOf(b)>>]
    OBVIOUS
  <2>6. q = Connection(pr, v, cs, ka, id, w, u, None)
    <3>1. <<StringOf(b)>> = u
      BY <2>2, <2>4
    <3> QED BY <2>5, <3>1, ConnectionExcept
  <2>7. s = <<>> <=> Len(s) = 0
    BY TextsAre, BytesAre
  <2>8. u = <<<<>>>> <=> s = <<>>
    BY <2>2
  <2>9. CASE k = None
    <3>1. ~pass /\ y = <<>> /\ Len(y) = 0
      BY <2>9, BytesAre DEF OptionalString
    <3>2. CASE s = <<>>
      <4>1. ~HasOption(b)
        BY <2>4, <2>7, <3>1, <3>2 DEF HasOption
      <4>2. Credentials(p, b, user, pass) = Refusal
        BY <2>1, <4>1 DEF Credentials
      <4>3. BadPair(u, k)
        BY <2>8, <2>9, <3>2 DEF BadPair
      <4> QED BY <1>2, <1>3, <4>2, <4>3
    <3>3. CASE s # <<>>
      <4>1. HasOption(b)
        BY <2>4, <2>7, <3>1, <3>3 DEF HasOption
      <4>2. Credentials(p, b, user, pass) = q
        BY <2>1, <2>5, <3>1, <4>1 DEF Credentials
      <4>3. ~BadPair(u, k)
        <5>1. None # <<<<>>>>
          BY DEF None
        <5> QED BY <1>5, <2>8, <2>9, <3>3, <5>1 DEF BadPair
      <4> QED BY <1>2, <1>3, <2>6, <2>9, <4>2, <4>3
    <3> QED BY <3>2, <3>3
  <2>10. CASE k # None
    <3>1. pass
      BY <2>10, Zenon
    <3>2. PICK t \in Texts : k = <<t>> /\ k[1] = t
      BY <2>10, OptionIs
    <3>3. TextFirst(y, t, <<>>)
      <4>1. y = writeMQTTString(t)
        BY <2>10, <3>2 DEF OptionalString
      <4> QED BY <1>2, <4>1, BytesAre DEF TextFirst
    <3>4. Len(y) = 2 + Len(t) /\ Len(t) \in Nat /\ HasString(y) /\ StringOf(y) = t
      <4>1. Len(y) = 2 + Len(t) + Len(<<>>) /\ Len(t) \in Nat /\ HasString(y) /\ StringOf(y) = t
        BY <3>3, WrittenString, BytesAre
      <4> QED BY <4>1, BytesAre
    <3>5. HasOption(b)
      BY <2>4, <3>4 DEF HasOption
    <3>6. t = <<>> <=> Len(t) = 0
      BY TextsAre, BytesAre
    <3>7. k = <<<<>>>> <=> t = <<>>
      BY <3>2
    <3>8. CASE t = <<>>
      <4>1. ~HasOption(y)
        BY <3>4, <3>6, <3>8 DEF HasOption
      <4>2. Credentials(p, b, user, pass) = Refusal
        BY <2>1, <2>4, <3>1, <3>5, <4>1 DEF Credentials
      <4>3. BadPair(u, k)
        BY <3>7, <3>8 DEF BadPair
      <4> QED BY <1>2, <1>3, <4>2, <4>3
    <3>9. CASE t # <<>>
      <4>1. HasOption(y)
        BY <3>4, <3>6, <3>9 DEF HasOption
      <4>2. Credentials(p, b, user, pass) = [q EXCEPT !.password = <<StringOf(y)>>]
        BY <2>1, <2>4, <2>5, <3>1, <3>5, <4>1 DEF Credentials
      <4>3. <<StringOf(y)>> = k
        BY <3>2, <3>4
      <4>4. Credentials(p, b, user, pass) = Connection(pr, v, cs, ka, id, w, u, k)
        <5>1. [q EXCEPT !.password = k] = Connection(pr, v, cs, ka, id, w, u, k)
          BY <2>6, ConnectionExcept
        <5> QED BY <4>2, <4>3, <5>1
      <4>5. ~BadPair(u, k)
        BY <1>5, <2>10, <3>7, <3>9 DEF BadPair
      <4> QED BY <1>2, <1>3, <4>4, <4>5
    <3> QED BY <3>8, <3>9
  <2> QED BY <2>9, <2>10
<1> QED BY <1>4, <1>5

Wills == (0 .. 3) \X BOOLEAN \X Texts \X Texts
WrittenWill(w) == IF w = None THEN <<>> ELSE writeMQTTString(w[3]) \o writeMQTTString(w[4])

(* What the flags say of a packet.  *)
FlagsSay(f, cs, w, u, k) ==
  /\ f \in Nat
  /\ (f \div 128 = 1) = (u # None)
  /\ ((f \div 64) % 2 = 1) = (k # None)
  /\ ((f \div 2) % 2 = 1) = cs
  /\ (f \div 4) % 2 = 0 <=> w = None
  /\ w # None => (f \div 8) % 4 = w[1] /\ ((f \div 32) % 2 = 1) = w[2]

LEMMA WillIs ==
  ASSUME NEW w \in {None} \cup Wills
  PROVE  \/ w = None
         \/ /\ w # None
            /\ \E a \in 0 .. 3, r \in BOOLEAN, s \in Texts, t \in Texts :
                 w = <<a, r, s, t>> /\ w[1] = a /\ w[2] = r /\ w[3] = s /\ w[4] = t
<1>1. ASSUME w \in Wills
      PROVE  \E a \in 0 .. 3, r \in BOOLEAN, s \in Texts, t \in Texts :
               w = <<a, r, s, t>> /\ w[1] = a /\ w[2] = r /\ w[3] = s /\ w[4] = t
  BY <1>1 DEF Wills
<1>2. ASSUME NEW a, NEW r, NEW s, NEW t
      PROVE  <<a, r, s, t>> # None
  BY DEF None
<1> QED BY <1>1, <1>2

LEMMA ConcatBytes ==
  ASSUME NEW a \in Bytes, NEW b \in Bytes, NEW c, Concat(c, a, b)
  PROVE  c \in Bytes
<1>1. Front(c, a, Len(a), b) /\ Len(a) \in Nat
  BY BytesAre DEF Front, Concat
<1> QED BY <1>1, CutBytes

LEMMA TextBytes ==
  ASSUME NEW s \in Texts
  PROVE  writeMQTTString(s) \in Bytes
<1>1. \E d : TextFirst(d, s, <<>>)
  BY DEF TextFirst
<1> QED BY <1>1, WrittenString, BytesAre

LEMMA WillRead ==
  ASSUME NEW pr, NEW v, NEW cs, NEW ka, NEW id, NEW w \in {None} \cup Wills,
         NEW u \in Options, NEW k \in Options, NEW f, FlagsSay(f, cs, w, u, k),
         NEW x, x = OptionalString(u), NEW y, y = OptionalString(k), NEW c, Concat(c, x, y),
         NEW z, z = WrittenWill(w), NEW b, Concat(b, z, c),
         NEW p, p = Connection(pr, v, cs, ka, id, None, None, None)
  PROVE  /\ x \in Bytes /\ y \in Bytes /\ z \in Bytes /\ c \in Bytes /\ b \in Bytes
         /\ WithWill(p, b, f) = IF BadPair(u, k) THEN Refusal ELSE Connection(pr, v, cs, ka, id, w, u, k)
<1>1. PICK user, pass : user = (f \div 128 = 1) /\ pass = ((f \div 64) % 2 = 1)
  OBVIOUS
<1>2. user = (u # None) /\ pass = (k # None)
  BY <1>1, Zenon DEF FlagsSay
<1>3. /\ x \in Bytes /\ y \in Bytes /\ c \in Bytes
      /\ \A q : q = Connection(pr, v, cs, ka, id, w, None, None) =>
           Credentials(q, c, user, pass) = IF BadPair(u, k) THEN Refusal ELSE Connection(pr, v, cs, ka, id, w, u, k)
  BY <1>2, CredentialsRead
<1>4. CASE w = None
  <2>1. z = <<>>
    BY <1>4 DEF WrittenWill
  <2>2. b = c
    BY <1>3, <2>1, BytesAre DEF Concat
  <2>3. (f \div 4) % 2 = 0
    BY <1>4 DEF FlagsSay
  <2>4. WithWill(p, b, f) = Credentials(p, c, user, pass)
    BY <1>1, <2>2, <2>3 DEF WithWill
  <2>5. p = Connection(pr, v, cs, ka, id, w, None, None)
    BY <1>4
  <2> QED BY <1>3, <2>1, <2>2, <2>4, <2>5, BytesAre
<1>5. CASE w # None
  <2>1. PICK a \in 0 .. 3, r \in BOOLEAN, s \in Texts, t \in Texts :
          w = <<a, r, s, t>> /\ w[1] = a /\ w[2] = r /\ w[3] = s /\ w[4] = t
    BY <1>5, WillIs
  <2>2. PICK ws, wt : ws = writeMQTTString(s) /\ wt = writeMQTTString(t)
    OBVIOUS
  <2>3. ws \in Bytes /\ wt \in Bytes
    BY <2>2, TextBytes
  <2>4. Concat(z, ws, wt)
    BY <1>5, <2>1, <2>2 DEF WrittenWill, Concat
  <2>5. PICK d : Concat(d, wt, c)
    BY DEF Concat
  <2>6. Concat(b, ws, d) /\ z \in Bytes /\ b \in Bytes /\ d \in Bytes
    <3>1. c \in Bytes
      BY <1>3
    <3> QED BY <2>3, <2>4, <2>5, <3>1, Assoc
  <2>7. HasString(b) /\ StringOf(b) = s /\ AfterString(b) = d
    <3>1. TextFirst(b, s, d)
      BY <2>2, <2>6 DEF TextFirst, Concat
    <3> QED BY <2>6, <3>1, WrittenString
  <2>8. HasString(d) /\ StringOf(d) = t /\ AfterString(d) = c
    <3>1. TextFirst(d, t, c)
      BY <2>2, <2>5 DEF TextFirst, Concat
    <3> QED BY <1>3, <3>1, WrittenString
  <2>9. (f \div 4) % 2 # 0 /\ (f \div 8) % 4 = a /\ ((f \div 32) % 2 = 1) = r
    BY <1>5, <2>1, Zenon DEF FlagsSay
  <2>10. PICK q : q = [p EXCEPT !.will = w]
    OBVIOUS
  <2>11. q = Connection(pr, v, cs, ka, id, w, None, None)
    BY <2>10 DEF Connection
  <2>12. <<(f \div 8) % 4, (f \div 32) % 2 = 1, StringOf(b), StringOf(AfterString(b))>> = w
    BY <2>1, <2>7, <2>8, <2>9, Zenon
  <2>13. WithWill(p, b, f) = Credentials(q, c, user, pass)
    <3>1. ~(~HasString(b) \/ ~HasString(AfterString(b))) /\ AfterString(AfterString(b)) = c
      BY <2>7, <2>8
    <3> QED BY <1>1, <2>9, <2>10, <2>12, <3>1 DEF WithWill
  <2> QED BY <1>3, <2>6, <2>11, <2>13
<1> QED BY <1>4, <1>5

LEMMA FlagsWritten ==
  ASSUME NEW cs \in BOOLEAN, NEW w \in {None} \cup Wills, NEW u, NEW k, NEW f,
         f = Bit(u # None) * 128 + Bit(k # None) * 64 + (IF w = None THEN 0 ELSE Bit(w[2]) * 32 + w[1] * 8 + 4)
               + Bit(cs) * 2
  PROVE  FlagsSay(f, cs, w, u, k)
<1>1. PICK user, pass : user = (u # None) /\ pass = (k # None)
  OBVIOUS
<1>2. user \in BOOLEAN /\ pass \in BOOLEAN
  BY <1>1
<1>3. PICK x, y, z : x = Bit(user) /\ y = Bit(pass) /\ z = Bit(cs)
  OBVIOUS
<1>4. /\ x \in 0 .. 1 /\ y \in 0 .. 1 /\ z \in 0 .. 1
      /\ (user <=> x = 1) /\ (pass <=> y = 1) /\ (cs <=> z = 1)
  BY <1>2, <1>3, Bits
<1>5. f = x * 128 + y * 64 + (IF w = None THEN 0 ELSE Bit(w[2]) * 32 + w[1] * 8 + 4) + z * 2
  BY <1>1, <1>3
<1>6. \E a \in 0 .. 3, m \in 0 .. 1, t \in 0 .. 1 :
        /\ f = x * 128 + y * 64 + m * 32 + a * 8 + t * 4 + z * 2
        /\ w = None => t = 0
        /\ w # None => t = 1 /\ a = w[1] /\ w[2] \in BOOLEAN /\ (w[2] <=> m = 1)
  <2>1. CASE w = None
    <3>1. f = x * 128 + y * 64 + 0 * 32 + 0 * 8 + 0 * 4 + z * 2
      BY <1>4, <1>5, <2>1
    <3> QED BY <2>1, <3>1
  <2>2. CASE w # None
    <3>1. PICK a \in 0 .. 3, r \in BOOLEAN : w[1] = a /\ w[2] = r
      BY <2>2, WillIs
    <3>2. PICK m \in 0 .. 1 : m = Bit(r) /\ (r <=> m = 1)
      BY Bits
    <3>3. f = x * 128 + y * 64 + m * 32 + a * 8 + 1 * 4 + z * 2
      BY <1>4, <1>5, <2>2, <3>1, <3>2
    <3> QED BY <2>2, <3>1, <3>2, <3>3
  <2> QED BY <2>1, <2>2
<1>7. PICK a \in 0 .. 3, m \in 0 .. 1, t \in 0 .. 1 :
        /\ f = x * 128 + y * 64 + m * 32 + a * 8 + t * 4 + z * 2
        /\ w = None => t = 0
        /\ w # None => t = 1 /\ a = w[1] /\ w[2] \in BOOLEAN /\ (w[2] <=> m = 1)
  BY <1>6
<1>8. /\ f \in Nat /\ f \div 128 = x /\ (f \div 64) % 2 = y /\ (f \div 32) % 2 = m /\ (f \div 8) % 4 = a
      /\ (f \div 4) % 2 = t /\ (f \div 2) % 2 = z
  <2>1. FlagsAre(f, x, y, m, a, t, z)
    BY <1>7 DEF FlagsAre
  <2> QED BY <1>4, <2>1, FlagsRead
<1>9. (f \div 128 = 1) = (u # None)
  <2>1. f \div 128 = 1 <=> user
    BY <1>4, <1>8
  <2> QED BY <1>1, <2>1, Zenon
<1>10. ((f \div 64) % 2 = 1) = (k # None)
  <2>1. (f \div 64) % 2 = 1 <=> pass
    BY <1>4, <1>8
  <2> QED BY <1>1, <2>1, Zenon
<1>11. ((f \div 2) % 2 = 1) = cs
  <2>1. (f \div 2) % 2 = 1 <=> cs
    BY <1>4, <1>8
  <2> QED BY <2>1, Zenon
<1>12. (f \div 4) % 2 = 0 <=> w = None
  BY <1>7, <1>8
<1>13. ASSUME w # None
       PROVE  (f \div 8) % 4 = w[1] /\ ((f \div 32) % 2 = 1) = w[2]
  <2>1. (f \div 8) % 4 = w[1] /\ ((f \div 32) % 2 = 1 <=> w[2])
    BY <1>7, <1>8, <1>13
  <2>2. w[2] \in BOOLEAN
    BY <1>7, <1>13
  <2> QED BY <2>1, <2>2, Zenon
<1> QED BY <1>8, <1>9, <1>10, <1>11, <1>12, <1>13, Zenon DEF FlagsSay

(* The fields of a CONNECT, one after the other.  *)
Join7(b, a1, a2, a3, a4, a5, a6, a7) == b = a1 \o a2 \o a3 \o a4 \o a5 \o a6 \o a7

LEMMA Assoc7 ==
  ASSUME NEW a1 \in Bytes, NEW a2 \in Bytes, NEW a3 \in Bytes, NEW a4 \in Bytes, NEW a5 \in Bytes, NEW a6 \in Bytes,
         NEW a7 \in Bytes, NEW b, Join7(b, a1, a2, a3, a4, a5, a6, a7)
  PROVE  \E c1, c2, c3, c4, c5 \in Bytes :
           /\ Concat(c5, a6, a7) /\ Concat(c4, a5, c5) /\ Concat(c3, a4, c4) /\ Concat(c2, a3, c3)
           /\ Concat(c1, a2, c2) /\ Concat(b, a1, c1)
<1>1. PICK d2 : Concat(d2, a1, a2)
  BY DEF Concat
<1>2. PICK d3 : Concat(d3, d2, a3)
  BY DEF Concat
<1>3. PICK d4 : Concat(d4, d3, a4)
  BY DEF Concat
<1>4. PICK d5 : Concat(d5, d4, a5)
  BY DEF Concat
<1>5. PICK d6 : Concat(d6, d5, a6)
  BY DEF Concat
<1>6. Concat(b, d6, a7)
  BY <1>1, <1>2, <1>3, <1>4, <1>5 DEF Join7, Concat
<1>7. d2 \in Bytes
  BY <1>1, ConcatBytes
<1>8. d3 \in Bytes
  BY <1>2, <1>7, ConcatBytes
<1>9. d4 \in Bytes
  BY <1>3, <1>8, ConcatBytes
<1>10. d5 \in Bytes
  BY <1>4, <1>9, ConcatBytes
<1>11. PICK c5 : Concat(c5, a6, a7)
  BY DEF Concat
<1>12. Concat(b, d5, c5) /\ c5 \in Bytes
  BY <1>5, <1>6, <1>10, <1>11, Assoc
<1>13. PICK c4 : Concat(c4, a5, c5)
  BY DEF Concat
<1>14. Concat(b, d4, c4) /\ c4 \in Bytes
  BY <1>4, <1>9, <1>12, <1>13, Assoc
<1>15. PICK c3 : Concat(c3, a4, c4)
  BY DEF Concat
<1>16. Concat(b, d3, c3) /\ c3 \in Bytes
  BY <1>3, <1>8, <1>14, <1>15, Assoc
<1>17. PICK c2 : Concat(c2, a3, c3)
  BY DEF Concat
<1>18. Concat(b, d2, c2) /\ c2 \in Bytes
  BY <1>2, <1>7, <1>16, <1>17, Assoc
<1>19. PICK c1 : Concat(c1, a2, c2)
  BY DEF Concat
<1>20. Concat(b, a1, c1) /\ c1 \in Bytes
  BY <1>1, <1>18, <1>19, Assoc
<1> QED BY <1>11, <1>12, <1>13, <1>14, <1>15, <1>16, <1>17, <1>18, <1>19, <1>20

LEMMA ReadConnect ==
  ASSUME NEW p, Sendable(p), p.type = "CONNECT", NEW h, NEW b, b = Body(p)
  PROVE  b \in Bytes /\ Parsed("CONNECT", h, b) = IF BadPair(p.username, p.password) THEN Refusal ELSE p
<1>1. /\ p \in [type : {"CONNECT"}, protocol : Texts, version : Nat, cleansession : BOOLEAN,
                keepAlive : Ids, clientID : Texts, will : {None} \cup Wills,
                username : Options, password : Options]
      /\ checkVersion(p.protocol, p.version)
  BY SendableIs DEF Wills
<1>2. PICK pr, v, cs, ka, id, w, u, k, f :
        /\ pr = p.protocol /\ v = p.version /\ cs = p.cleansession /\ ka = p.keepAlive
        /\ id = p.clientID /\ w = p.will /\ u = p.username /\ k = p.password /\ f = ConnectFlags(p)
  OBVIOUS
<1>3. /\ pr \in Texts /\ v \in Nat /\ cs \in BOOLEAN /\ ka \in Ids /\ id \in Texts /\ w \in {None} \cup Wills
      /\ u \in Options /\ k \in Options /\ checkVersion(pr, v)
  BY <1>1, <1>2
<1>4. FlagsSay(f, cs, w, u, k) /\ f \in Nat
  <2>1. f = Bit(u # None) * 128 + Bit(k # None) * 64 + (IF w = None THEN 0 ELSE Bit(w[2]) * 32 + w[1] * 8 + 4)
               + Bit(cs) * 2
    BY <1>2 DEF ConnectFlags
  <2>2. FlagsSay(f, cs, w, u, k)
    BY <1>3, <2>1, FlagsWritten
  <2> QED BY <2>2 DEF FlagsSay
<1>5. p = Connection(pr, v, cs, ka, id, w, u, k)
  <2>1. p = [type |-> "CONNECT", protocol |-> p.protocol, version |-> p.version, cleansession |-> p.cleansession,
             keepAlive |-> p.keepAlive, clientID |-> p.clientID, will |-> p.will, username |-> p.username,
             password |-> p.password]
    BY <1>1
  <2> QED BY <1>2, <2>1 DEF Connection
<1>6. PICK P, V, K, I, W, x, y :
        /\ P = writeMQTTString(pr) /\ V = <<v, f>> /\ K = writeInt(ka) /\ I = writeMQTTString(id)
        /\ W = WrittenWill(w) /\ x = OptionalString(u) /\ y = OptionalString(k)
  OBVIOUS
<1>7. P \in Bytes /\ I \in Bytes
  BY <1>3, <1>6, TextBytes
<1>8. V \in Bytes /\ Len(V) = 2 /\ V[1] = v /\ V[2] = f
  BY <1>3, <1>4, <1>6 DEF Bytes
<1>9. K \in Bytes /\ Len(K) = 2
  BY <1>3, <1>6, Alone
<1>10. /\ x \in Bytes /\ y \in Bytes /\ W \in Bytes
       /\ \A c, d, q : /\ Concat(c, x, y) /\ Concat(d, W, c)
                       /\ q = Connection(pr, v, cs, ka, id, None, None, None)
                       => WithWill(q, d, f) = IF BadPair(u, k) THEN Refusal ELSE p
  <2>1. ASSUME NEW c, NEW d, NEW q, Concat(c, x, y), Concat(d, W, c),
               q = Connection(pr, v, cs, ka, id, None, None, None)
        PROVE  /\ x \in Bytes /\ y \in Bytes /\ W \in Bytes
               /\ WithWill(q, d, f) = IF BadPair(u, k) THEN Refusal ELSE Connection(pr, v, cs, ka, id, w, u, k)
    BY <1>3, <1>4, <1>6, <2>1, WillRead
  <2>2. \E c, d : Concat(c, x, y) /\ Concat(d, W, c)
    BY DEF Concat
  <2> QED BY <1>5, <2>1, <2>2
<1>11. Join7(b, P, V, K, I, W, x, y)
  <2>1. b = MQTTSerialize_connect(p)
    BY BodyIs
  <2> QED BY <1>2, <1>6, <2>1 DEF MQTTSerialize_connect, WrittenWill, Join7
<1>12. PICK c1, c2, c3, c4, c5 \in Bytes :
          /\ Concat(c5, x, y) /\ Concat(c4, W, c5) /\ Concat(c3, I, c4) /\ Concat(c2, K, c3)
          /\ Concat(c1, V, c2) /\ Concat(b, P, c1)
  BY <1>7, <1>8, <1>9, <1>10, <1>11, Assoc7
<1>13. b \in Bytes /\ HasString(b) /\ StringOf(b) = pr /\ AfterString(b) = c1
  <2>1. TextFirst(b, pr, c1)
    BY <1>6, <1>12 DEF TextFirst, Concat
  <2> QED BY <1>3, <1>12, <2>1, WrittenString
<1>14. c1[1] = v /\ c1[2] = f /\ From(c1, 2) = c2
  <2>1. Front(c1, V, 2, c2)
    BY <1>8, <1>12 DEF Front, Concat
  <2>2. From(c1, 2) = c2 /\ \A i \in 1 .. 2 : c1[i] = V[i]
    BY <1>8, <1>12, <2>1, CutBytes
  <2> QED BY <1>8, <2>2
<1>15. readInt(c2) = ka
  <2>1. IntFirst(c2, ka, c3)
    BY <1>6, <1>12 DEF IntFirst, Concat
  <2> QED BY <1>3, <1>12, <2>1, WrittenInt
<1>16. From(c1, 4) = c3
  <2>1. PICK z : Concat(z, V, K)
    BY DEF Concat
  <2>2. PICK d : Concat(d, z, c3)
    BY DEF Concat
  <2>3. Concat(d, V, c2) /\ z \in Bytes
    BY <1>8, <1>9, <1>12, <2>1, <2>2, Assoc
  <2>4. d = c1
    BY <1>12, <2>3 DEF Concat
  <2>5. Len(z) = 4
    <3>1. PICK n \in Nat : n = 2
      OBVIOUS
    <3>2. Front(z, V, n, K)
      BY <1>8, <2>1, <3>1 DEF Front, Concat
    <3>3. V \in Bytes /\ K \in Bytes
      BY <1>8, <1>9
    <3>4. z \in Bytes /\ Len(z) = n + Len(K) /\ Len(K) \in Nat
      BY <3>2, <3>3, CutBytes
    <3> QED BY <1>9, <3>1, <3>4
  <2>6. Front(c1, z, 4, c3)
    BY <2>2, <2>4, <2>5 DEF Front, Concat
  <2> QED BY <1>12, <2>3, <2>6, CutBytes
<1>17. HasString(c3) /\ StringOf(c3) = id /\ AfterString(c3) = c4
  <2>1. TextFirst(c3, id, c4)
    BY <1>6, <1>12 DEF TextFirst, Concat
  <2> QED BY <1>3, <1>12, <2>1, WrittenString
<1>18. PICK q : q = Connection(pr, v, (f \div 2) % 2 = 1, ka, id, None, None, None)
  OBVIOUS
<1>19. MQTTDeserialize_connect(b) = WithWill(q, c4, f)
  BY <1>3, <1>13, <1>14, <1>15, <1>16, <1>17, <1>18 DEF MQTTDeserialize_connect, Connection
<1>20. q = Connection(pr, v, cs, ka, id, None, None, None)
  BY <1>4, <1>18, Zenon DEF FlagsSay
<1>21. WithWill(q, c4, f) = IF BadPair(u, k) THEN Refusal ELSE p
  BY <1>10, <1>12, <1>20
<1> QED BY <1>2, <1>13, <1>19, <1>21, ParsedIs

(***************************************************************************)
(* The header and the size of a packet.                                    *)
(***************************************************************************)
LEMMA HeaderOfRead ==
  ASSUME NEW p, Sendable(p), NEW h, h = HeaderOf(p)
  PROVE  /\ p.type \in DOMAIN Types /\ h \in Nat /\ Type(h) = Types[p.type]
         /\ p.type = "PUBLISH" => Dup(h) = p.dup /\ Qos(h) = p.qos /\ Retain(h) = p.retain
         /\ p.type \in {"SUBSCRIBE", "UNSUBSCRIBE"} \cup Acks => Dup(h) = p.dup
<1>1. p.type \in DOMAIN Types
  BY SendableIs
<1>2. CASE p.type = "PUBLISH"
  <2>1. p.dup \in BOOLEAN /\ p.qos \in 0 .. 3 /\ p.retain \in BOOLEAN
    <3>1. p \in [type : {"PUBLISH"}, dup : BOOLEAN, qos : 0 .. 3, retain : BOOLEAN,
                 topic : Texts, id : Ids, payload : Seq(Nat)]
      BY <1>2, SendableIs
    <3> QED BY <3>1
  <2>2. h = MQTTHeader(p.type, p.dup, p.qos, p.retain)
    BY <1>2 DEF HeaderOf
  <2>3. "PUBLISH" \notin {"SUBSCRIBE", "UNSUBSCRIBE"} \cup Acks
    BY DEF Acks
  <2> QED BY <1>1, <1>2, <2>1, <2>2, <2>3, HeaderRead
<1>3. CASE p.type \in {"SUBSCRIBE", "UNSUBSCRIBE", "PUBREL"}
  <2>1. p.dup \in BOOLEAN
    <3>1. CASE p.type = "SUBSCRIBE"
      <4>1. p \in [type : {"SUBSCRIBE"}, dup : BOOLEAN, id : Ids, filters : Seq(Texts), qoss : Seq(Nat)]
        BY <3>1, SendableIs
      <4> QED BY <4>1
    <3>2. CASE p.type = "UNSUBSCRIBE"
      <4>1. p \in [type : {"UNSUBSCRIBE"}, dup : BOOLEAN, id : Ids, filters : Seq(Texts)]
        BY <3>2, SendableIs
      <4> QED BY <4>1
    <3>3. CASE p.type = "PUBREL"
      <4>1. p.type \in Acks
        BY <3>3 DEF Acks
      <4>2. p \in [type : Acks, dup : IF p.type = "PUBREL" THEN BOOLEAN ELSE {FALSE}, id : Ids]
        BY <4>1, SendableIs
      <4> QED BY <3>3, <4>2
    <3> QED BY <1>3, <3>1, <3>2, <3>3
  <2>2. PICK t, d, q, r : t = p.type /\ d = p.dup /\ q = 1 /\ r = FALSE
    OBVIOUS
  <2>3. h = MQTTHeader(t, d, q, r)
    BY <1>3, <2>2 DEF HeaderOf
  <2>4. h \in Nat /\ Type(h) = Types[t] /\ Dup(h) = d
    <3>1. t \in DOMAIN Types /\ d \in BOOLEAN
      BY <1>1, <2>1, <2>2
    <3>2. q \in 0 .. 3
      BY <2>2
    <3>3. r \in BOOLEAN
      BY <2>2, Zenon
    <3> QED BY <2>3, <3>1, <3>2, <3>3, HeaderRead
  <2> QED BY <1>1, <1>3, <2>2, <2>4
<1>4. CASE p.type \notin {"PUBLISH", "SUBSCRIBE", "UNSUBSCRIBE", "PUBREL"}
  <2>1. PICK t, d, q, r : t = p.type /\ d = FALSE /\ q = 0 /\ r = FALSE
    OBVIOUS
  <2>2. h = MQTTHeader(t, d, q, r)
    BY <1>4, <2>1 DEF HeaderOf
  <2>3. h \in Nat /\ Type(h) = Types[t] /\ Dup(h) = d
    <3>1. t \in DOMAIN Types
      BY <1>1, <2>1
    <3>2. q \in 0 .. 3
      BY <2>1
    <3>3. d \in BOOLEAN /\ r \in BOOLEAN
      BY <2>1, Zenon
    <3> QED BY <2>2, <3>1, <3>2, <3>3, HeaderRead
  <2>4. ASSUME p.type \in Acks
        PROVE  p.dup = FALSE
    <3>1. p \in [type : Acks, dup : IF p.type = "PUBREL" THEN BOOLEAN ELSE {FALSE}, id : Ids]
      BY <2>4, SendableIs
    <3> QED BY <1>4, <3>1
  <2> QED BY <1>1, <1>4, <2>1, <2>3, <2>4
<1> QED BY <1>2, <1>3, <1>4

(* What is read is what was sent.  *)
LEMMA PacketRead ==
  ASSUME NEW p, Sendable(p), NEW h, h = HeaderOf(p), NEW b, b = Body(p)
  PROVE  b \in Bytes /\ Parsed(p.type, h, b) = IF BadCredentials(p) THEN Refusal ELSE p
<1>1. /\ p.type \in DOMAIN Types
      /\ p.type = "PUBLISH" => Dup(h) = p.dup /\ Qos(h) = p.qos /\ Retain(h) = p.retain
      /\ p.type \in {"SUBSCRIBE", "UNSUBSCRIBE"} \cup Acks => Dup(h) = p.dup
  BY HeaderOfRead
<1>2. CASE p.type = "CONNECT"
  <2>1. BadCredentials(p) <=> BadPair(p.username, p.password)
    BY <1>2 DEF BadCredentials, BadPair
  <2> QED BY <1>2, <2>1, ReadConnect
<1>3. CASE p.type # "CONNECT"
  <2>1. ~BadCredentials(p)
    BY <1>3 DEF BadCredentials
  <2>2. CASE p.type = "CONNACK"
    BY <2>1, <2>2, ReadConnack
  <2>3. CASE p.type = "PUBLISH"
    BY <1>1, <2>1, <2>3, ReadPublish
  <2>4. CASE p.type = "SUBSCRIBE"
    BY <1>1, <2>1, <2>4, ReadSubscribe
  <2>5. CASE p.type = "UNSUBSCRIBE"
    BY <1>1, <2>1, <2>5, ReadUnsubscribe
  <2>6. CASE p.type = "SUBACK"
    BY <2>1, <2>6, ReadSuback
  <2>7. CASE p.type \in Acks
    BY <1>1, <2>1, <2>7, ReadAck
  <2>8. CASE p.type \in Empty
    BY <2>1, <2>8, ReadEmpty
  <2> QED BY <1>1, <1>3, <2>2, <2>3, <2>4, <2>5, <2>6, <2>7, <2>8 DEF Types, Acks, Empty
<1> QED BY <1>2, <1>3

LEMMA Product == LenBase * LenBase * LenBase * LenBase = Pow4
<1>1. PICK B \in Nat : B = LenBase
  BY CodecAssumption
<1>2. B * B * B * B = B * (B * (B * B))
  OBVIOUS
<1> QED BY <1>1, <1>2 DEF Pow4, Pow3, Pow2

Clients == DOMAIN Types \ {"CONNACK", "SUBACK", "UNSUBACK"}

LEMMA AskedIs ==
  ASSUME NEW p \in MqttPackets, NEW b, b = Body(p)
  PROVE  /\ Asked(p, b) \in Nat /\ Size(p) \in Nat
         /\ Asked(p, b) <= Size(p) + 1
         /\ p.type \in Clients => Size(p) <= Asked(p, b)
<1>1. PICK n, l, m, a : n = Len(b) /\ l = Len(MQTTPacket_encode(n)) /\ m = MQTTPacket_len(n) /\ a = Asked(p, b)
  OBVIOUS
<1>2. Sendable(p) /\ b \in Bytes /\ n \in Nat /\ n < Pow4 /\ p.type \in DOMAIN Types
  <2>1. Sendable(p) /\ n < LenBase * LenBase * LenBase * LenBase
    BY <1>1, CodecAssumption
  <2>2. b \in Bytes
    BY <2>1, PacketRead
  <2> QED BY <1>1, <2>1, <2>2, Product, SendableIs, BytesAre
<1>3. m \in Nat /\ m >= 1 + l + n /\ m <= 1 + l + n + 1
  BY <1>1, <1>2, LengthAsked
<1>4. l \in Nat /\ l > 0
  BY <1>1, <1>2, EncodeType DEF Encoded
<1>5. n \in 0 .. 2 => l = 1
  <2>1. n < LenBase => l = 1
    BY <1>1, <1>2, EncodeDigit
  <2> QED BY <2>1, CodecAssumption
<1>6. Size(p) = 1 + l + n
  BY <1>1 DEF Size
<1> SUFFICES a \in Nat /\ a <= 1 + l + n + 1 /\ (p.type \in Clients => 1 + l + n <= a)
  BY <1>1, <1>2, <1>4, <1>6
<1>7. CASE p.type \in {"CONNECT", "PUBLISH", "SUBSCRIBE", "UNSUBSCRIBE"}
  <2>1. a = m
    BY <1>1, <1>7 DEF Asked
  <2> QED BY <1>2, <1>3, <1>4, <2>1
<1>8. CASE p.type = "SUBACK"
  <2>1. PICK k : k = Len(p.granted)
    OBVIOUS
  <2>2. n = 2 + k /\ k \in Nat
    BY <1>1, <1>2, <1>8, <2>1, ReadSuback
  <2>3. a = 2 + k
    BY <1>1, <1>8, <2>1 DEF Asked
  <2>4. p.type \notin Clients
    BY <1>8 DEF Clients
  <2> QED BY <1>4, <2>2, <2>3, <2>4
<1>9. CASE p.type = "CONNACK"
  <2>1. n = 2
    BY <1>1, <1>2, <1>9, ReadConnack
  <2>2. a = 2
    BY <1>1, <1>9 DEF Asked
  <2>3. p.type \notin Clients
    BY <1>9 DEF Clients
  <2> QED BY <1>4, <2>1, <2>2, <2>3
<1>10. CASE p.type \in Empty
  <2>1. n = 0
    BY <1>1, <1>2, <1>10, ReadEmpty
  <2>2. a = 2
    BY <1>1, <1>10 DEF Asked, Empty
  <2> QED BY <1>5, <2>1, <2>2
<1>11. CASE p.type \in Acks
  <2>1. n = 2
    <3>1. Dup(HeaderOf(p)) = p.dup
      BY <1>2, <1>11, HeaderOfRead
    <3> QED BY <1>1, <1>2, <1>11, <3>1, ReadAck
  <2>2. a = IF p.type = "UNSUBACK" THEN 2 ELSE 4
    BY <1>1, <1>11 DEF Asked, Acks, Empty
  <2>3. p.type = "UNSUBACK" => p.type \notin Clients
    BY DEF Clients
  <2> QED BY <1>5, <2>1, <2>2, <2>3
<1> QED BY <1>2, <1>7, <1>8, <1>9, <1>10, <1>11 DEF Types, Acks, Empty

(***************************************************************************)
(* What a connection holds while a packet is read.                         *)
(***************************************************************************)
(* w is the header h, the digits e and the bytes b.  *)
OnWire(w, h, e, b) == \E t : Concat(t, e, b) /\ First(w, h, t)

(* What the digits that are still to come say with the ones that were read. *)
DigitsLeft(t, n, q) ==
  \/ t.len = 0 /\ n = q
  \/ t.len # 0 /\ n = t.rem_len + t.multiplier * q

(* The packet p is read from w: nothing of it yet; its header; its length  *)
(* and some of its body.                                                   *)
ReadSoFar(p, t, w, r) ==
  LET h == HeaderOf(p)
      b == Body(p)
      n == Len(b)
  IN \/ t.state = 0 /\ OnWire(w, h, MQTTPacket_encode(n), b)
     \/ t.state = 1 /\ r = <<h>> /\ \E q \in Nat : Concat(w, MQTTPacket_encode(q), b) /\ DigitsLeft(t, n, q)
     \/ /\ t.state = 2 /\ t.rem_len = Len(w) /\ w \in Bytes
        /\ \E s \in Bytes : Concat(b, s, w) /\ OnWire(r, h, MQTTPacket_encode(n), s)

CodecInv ==
  /\ packet \in MqttPackets /\ buflen \in Nat
  /\ trp \in [state : Nat, len : Nat, multiplier : Nat, rem_len : Nat]
  /\ coding \in {"serialize", "read", "done", "refused"}
  /\ coding = "serialize" => trp = Idle
  /\ coding = "read" => /\ packet.type \in Clients => Size(packet) <= buflen
                        /\ ReadSoFar(packet, trp, wire, buf)
  /\ coding = "refused" => buflen <= Size(packet)
  /\ coding = "done" => wire = <<>> /\ result = IF BadCredentials(packet) THEN Refusal ELSE packet

LEMMA Pieces ==
  ASSUME NEW w \in Bytes, NEW k \in 1 .. Len(w), NEW s, s = SubSeq(w, 1, k), NEW r, r = SubSeq(w, k + 1, Len(w))
  PROVE  s \in Bytes /\ r \in Bytes /\ Concat(w, s, r) /\ Len(r) = Len(w) - k
<1>1. PICK S : S = Nat
  OBVIOUS
<1>2. Bytes = Seq(S)
  BY <1>1 DEF Bytes
<1>3. PICK l \in Nat : l = Len(w)
  BY BytesAre
<1>4. w \in Seq(S) /\ k \in 1 .. l /\ \A i \in 1 .. l : w[i] \in S
  BY <1>2, <1>3, ElementOfSeq
<1>5. s \in Seq(S)
  <2>1. \A i \in 1 .. k : w[i] \in S
    BY <1>4
  <2> QED BY <1>4, <2>1, SubSeqProperties
<1>6. r \in Seq(S) /\ Len(r) = l - k
  <2>1. \A i \in k + 1 .. l : w[i] \in S
    BY <1>4
  <2>2. k + 1 \in Int /\ l \in Int
    BY <1>4
  <2>3. r \in Seq(S) /\ Len(r) = IF k + 1 <= l THEN l - (k + 1) + 1 ELSE 0
    BY <1>3, <2>1, <2>2, SubSeqProperties
  <2> QED BY <1>4, <2>3
<1>7. s \o r = w
  <2>1. 1 \in 1 .. Len(w) + 1 /\ k \in 1 - 1 .. Len(w) /\ Len(w) \in k .. Len(w)
    BY <1>3, <1>4
  <2>2. SubSeq(w, 1, k) \o SubSeq(w, k + 1, Len(w)) = SubSeq(w, 1, Len(w))
    BY <1>4, <2>1, ConcatAdjacentSubSeq
  <2>3. SubSeq(w, 1, Len(w)) = w
    BY <1>4, SubSeqFull
  <2> QED BY <2>2, <2>3
<1> QED BY <1>2, <1>3, <1>5, <1>6, <1>7 DEF Concat

(* What is known of every packet.  *)
LEMMA PacketFacts ==
  ASSUME NEW p \in MqttPackets
  PROVE  /\ Sendable(p) /\ HeaderOf(p) \in Nat /\ Body(p) \in Bytes /\ Len(Body(p)) \in Nat
         /\ Encoded(MQTTPacket_encode(Len(Body(p)))) /\ MQTTPacket_encode(Len(Body(p))) \in Bytes
         /\ p.type \in DOMAIN Types
<1>1. Sendable(p)
  BY CodecAssumption
<1>2. HeaderOf(p) \in Nat /\ p.type \in DOMAIN Types
  BY <1>1, HeaderOfRead
<1>3. Body(p) \in Bytes
  BY <1>1, PacketRead
<1>4. Len(Body(p)) \in Nat
  BY <1>3, BytesAre
<1>5. Encoded(MQTTPacket_encode(Len(Body(p))))
  BY <1>4, EncodeType
<1> QED BY <1>1, <1>2, <1>3, <1>4, <1>5 DEF Encoded

LEMMA CodecInvInit == CodecInit => CodecInv
BY CodecAssumption DEF CodecInit, CodecInv, Idle

LEMMA CodecInvSerialize == CodecInv /\ Serialize => CodecInv'
<1> SUFFICES ASSUME CodecInv, Serialize
             PROVE  CodecInv'
  OBVIOUS
<1>1. packet \in MqttPackets /\ buflen \in Nat /\ trp = Idle
  BY DEF CodecInv, Serialize
<1>2. packet' = packet /\ buflen' = buflen /\ trp' = trp /\ buf' = buf
  BY DEF Serialize
<1>3. PICK b, h, n, e : b = Body(packet) /\ h = HeaderOf(packet) /\ n = Len(b) /\ e = MQTTPacket_encode(n)
  OBVIOUS
<1>4. b \in Bytes /\ h \in Nat /\ n \in Nat /\ e \in Bytes /\ packet.type \in DOMAIN Types
  BY <1>1, <1>3, PacketFacts
<1>5. PICK a : a = Asked(packet, b)
  OBVIOUS
<1>6. /\ a \in Nat /\ Size(packet) \in Nat /\ a <= Size(packet) + 1
      /\ packet.type \in Clients => Size(packet) <= a
  BY <1>1, <1>3, <1>5, AskedIs
<1>7. trp' \in [state : Nat, len : Nat, multiplier : Nat, rem_len : Nat]
  BY <1>1, <1>2 DEF Idle
<1>8. CASE a > buflen
  <2>1. coding' = "refused"
    BY <1>3, <1>5, <1>8 DEF Serialize
  <2>2. buflen <= Size(packet)
    BY <1>1, <1>6, <1>8
  <2> QED BY <1>1, <1>2, <1>7, <2>1, <2>2 DEF CodecInv
<1>9. CASE ~(a > buflen)
  <2>1. coding' = "read" /\ wire' = <<h>> \o e \o b
    BY <1>3, <1>5, <1>9 DEF Serialize
  <2>2. packet.type \in Clients => Size(packet) <= buflen
    BY <1>1, <1>6, <1>9
  <2>3. PICK x : x = <<h>>
    OBVIOUS
  <2>4. x \in Bytes
    BY <1>4, <2>3, BytesAre
  <2>5. PICK y, t : Concat(y, x, e) /\ Concat(t, e, b)
    BY DEF Concat
  <2>6. Concat(wire', y, b)
    BY <2>1, <2>3, <2>5 DEF Concat
  <2>7. Concat(wire', x, t)
    BY <1>4, <2>4, <2>5, <2>6, Assoc
  <2>8. OnWire(wire', h, e, b)
    BY <2>3, <2>5, <2>7 DEF OnWire, First, Concat
  <2>9. ReadSoFar(packet, trp, wire', buf)
    BY <1>1, <1>3, <2>8 DEF ReadSoFar, Idle
  <2> QED BY <1>1, <1>2, <1>7, <2>1, <2>2, <2>9 DEF CodecInv
<1> QED BY <1>8, <1>9

LEMMA CodecInvHeader == CodecInv /\ ReadHeader => CodecInv'
<1> SUFFICES ASSUME CodecInv, ReadHeader
             PROVE  CodecInv'
  OBVIOUS
<1>1. /\ packet \in MqttPackets /\ buflen \in Nat
      /\ trp \in [state : Nat, len : Nat, multiplier : Nat, rem_len : Nat] /\ trp.state = 0
      /\ coding = "read" /\ (packet.type \in Clients => Size(packet) <= buflen)
      /\ ReadSoFar(packet, trp, wire, buf)
  BY DEF CodecInv, ReadHeader
<1>2. /\ packet' = packet /\ buflen' = buflen /\ coding' = coding
      /\ trp' = [trp EXCEPT !.state = 1, !.len = 0]
      /\ buf' = <<Head(wire)>> /\ wire' = Tail(wire)
  BY DEF ReadHeader
<1>3. PICK b, h, n, e : b = Body(packet) /\ h = HeaderOf(packet) /\ n = Len(b) /\ e = MQTTPacket_encode(n)
  OBVIOUS
<1>4. b \in Bytes /\ h \in Nat /\ n \in Nat /\ e \in Bytes
  BY <1>1, <1>3, PacketFacts
<1>5. OnWire(wire, h, e, b)
  BY <1>1, <1>3 DEF ReadSoFar
<1>6. PICK t : Concat(t, e, b) /\ First(wire, h, t)
  BY <1>5 DEF OnWire
<1>7. t \in Bytes
  BY <1>4, <1>6, ConcatBytes
<1>8. Head(wire) = h /\ Tail(wire) = t
  BY <1>4, <1>6, <1>7, One
<1>9. trp' \in [state : Nat, len : Nat, multiplier : Nat, rem_len : Nat] /\ trp'.state = 1 /\ trp'.len = 0
  BY <1>1, <1>2
<1>10. DigitsLeft(trp', n, n)
  BY <1>9 DEF DigitsLeft
<1>11. Concat(wire', e, b) /\ buf' = <<h>>
  BY <1>2, <1>6, <1>8
<1>12. ReadSoFar(packet, trp', wire', buf')
  BY <1>3, <1>4, <1>9, <1>10, <1>11 DEF ReadSoFar
<1> QED BY <1>1, <1>2, <1>9, <1>12 DEF CodecInv

LEMMA DigitOf ==
  ASSUME NEW d \in Nat, d < LenBase
  PROVE  d % LenBase = d /\ (LenBase + d) % LenBase = d
<1>1. PICK B \in Nat : B = LenBase /\ B > 2
  BY CodecAssumption
<1>2. d % B = d
  BY <1>1
<1>3. (B + d) % B = d
  <2>1. PICK c \in Nat : c = B + d
    BY <1>1
  <2>2. PICK k, m : k = c \div B /\ m = c % B
    OBVIOUS
  <2>3. k \in Nat /\ m \in Nat /\ m < B /\ c = k * B + m
    BY <1>1, <2>1, <2>2, Division
  <2>4. k = 1
    <3>1. CASE k = 0
      BY <1>1, <2>1, <2>3, <3>1
    <3>2. CASE k >= 2
      <4>1. PICK j \in Nat : k = j + 2
        <5>1. k - 2 \in Nat /\ k = k - 2 + 2
          BY <2>3, <3>2
        <5> QED BY <5>1
      <4>2. k * B = j * B + 2 * B /\ j * B \in Nat
        BY <1>1, <4>1
      <4> QED BY <1>1, <2>1, <2>3, <4>2
    <3> QED BY <2>3, <3>1, <3>2
  <2> QED BY <1>1, <2>1, <2>2, <2>3, <2>4
<1> QED BY <1>1, <1>2, <1>3

(* A digit d is added to the sum r, and the rest is the number k.  *)
DigitAdded(n, r, m, q, d, k, rem, mm) ==
  n = r + m * q /\ q = LenBase * k + d /\ rem = r + d * m /\ mm = m * LenBase

LEMMA SumOfDigits ==
  ASSUME NEW n, NEW r \in Nat, NEW m \in Nat, NEW q \in Nat, NEW d \in Nat, NEW k \in Nat, NEW rem, NEW mm,
         DigitAdded(n, r, m, q, d, k, rem, mm)
  PROVE  n = rem + mm * k
<1>1. PICK B \in Nat : B = LenBase
  BY CodecAssumption
<1>2. r + m * (B * k + d) = (r + d * m) + (m * B) * k
  OBVIOUS
<1> QED BY <1>1, <1>2 DEF DigitAdded

LEMMA TransportExcept ==
  ASSUME NEW t \in [state : Nat, len : Nat, multiplier : Nat, rem_len : Nat],
         NEW l \in Nat, NEW m \in Nat, NEW r \in Nat, NEW u
  PROVE  /\ u = [t EXCEPT !.len = l, !.multiplier = m, !.rem_len = r] =>
              /\ u \in [state : Nat, len : Nat, multiplier : Nat, rem_len : Nat]
              /\ u.state = t.state /\ u.len = l /\ u.multiplier = m /\ u.rem_len = r
         /\ u = [t EXCEPT !.rem_len = r, !.len = l] =>
              /\ u \in [state : Nat, len : Nat, multiplier : Nat, rem_len : Nat]
              /\ u.state = t.state /\ u.rem_len = r
OBVIOUS

LEMMA CodecInvDecode == CodecInv /\ MQTTPacket_decodenb => CodecInv'
<1> SUFFICES ASSUME CodecInv, MQTTPacket_decodenb
             PROVE  CodecInv'
  OBVIOUS
<1>1. /\ packet \in MqttPackets /\ buflen \in Nat
      /\ trp \in [state : Nat, len : Nat, multiplier : Nat, rem_len : Nat] /\ trp.state = 1
      /\ coding = "read" /\ (packet.type \in Clients => Size(packet) <= buflen)
      /\ ReadSoFar(packet, trp, wire, buf)
  BY DEF CodecInv, MQTTPacket_decodenb
<1>2. packet' = packet /\ buflen' = buflen /\ wire' = Tail(wire)
  BY DEF MQTTPacket_decodenb
<1>3. PICK b, h, n, e : b = Body(packet) /\ h = HeaderOf(packet) /\ n = Len(b) /\ e = MQTTPacket_encode(n)
  OBVIOUS
<1>4. b \in Bytes /\ h \in Nat /\ n \in Nat /\ e \in Bytes
  BY <1>1, <1>3, PacketFacts
<1>5. buf = <<h>> /\ \E q \in Nat : Concat(wire, MQTTPacket_encode(q), b) /\ DigitsLeft(trp, n, q)
  BY <1>1, <1>3 DEF ReadSoFar
<1>6. PICK q \in Nat : Concat(wire, MQTTPacket_encode(q), b) /\ DigitsLeft(trp, n, q)
  BY <1>5
<1>7. PICK c, m, r : /\ c = Head(wire)
                     /\ m = IF trp.len = 0 THEN 1 ELSE trp.multiplier
                     /\ r = IF trp.len = 0 THEN 0 ELSE trp.rem_len
  OBVIOUS
<1>8. m \in Nat /\ r \in Nat
  BY <1>1, <1>7
<1>9. n = r + m * q
  BY <1>6, <1>7 DEF DigitsLeft
<1>10. PICK rem, digits : rem = r + (c % LenBase) * m /\ digits = MQTTPacket_encode(rem)
  OBVIOUS
<1>11. LenBase \in Nat /\ LenBase > 2
  BY CodecAssumption
<1>12. CASE q < LenBase
  <2>1. First(wire, q, b)
    <3>1. MQTTPacket_encode(q) = <<q>>
      BY <1>12, Encode
    <3> QED BY <1>6, <3>1 DEF First, Concat
  <2>2. c = q /\ Tail(wire) = b
    BY <1>4, <1>7, <2>1, One
  <2>3. c % LenBase = q
    BY <1>12, <2>2, DigitOf
  <2>4. rem = n
    <3>1. q * m = m * q
      BY <1>8
    <3> QED BY <1>9, <1>10, <2>3, <3>1
  <2>5. digits = e
    BY <1>3, <1>10, <2>4
  <2>6. /\ ~(c >= LenBase)
        /\ buf' = buf \o digits
        /\ IF rem + 1 + Len(digits) > buflen
           THEN trp' = Idle /\ coding' = "refused"
           ELSE /\ trp' = [state |-> 2, len |-> 1 + Len(digits), multiplier |-> 1, rem_len |-> rem]
                /\ coding' = coding
    <3>1. ~(c >= LenBase)
      BY <1>11, <1>12, <2>2
    <3> QED BY <1>7, <1>10, <3>1 DEF MQTTPacket_decodenb
  <2>7. Size(packet) = 1 + Len(e) + n /\ Len(e) \in Nat
    BY <1>3, <1>4, BytesAre DEF Size
  <2>8. CASE rem + 1 + Len(digits) > buflen
    <3>1. trp' \in [state : Nat, len : Nat, multiplier : Nat, rem_len : Nat] /\ coding' = "refused"
      BY <2>6, <2>8 DEF Idle
    <3>2. buflen <= Size(packet)
      BY <1>1, <1>4, <2>4, <2>5, <2>7, <2>8
    <3> QED BY <1>1, <1>2, <3>1, <3>2 DEF CodecInv
  <2>9. CASE ~(rem + 1 + Len(digits) > buflen)
    <3>1. trp' = [state |-> 2, len |-> 1 + Len(e), multiplier |-> 1, rem_len |-> n] /\ coding' = coding
      BY <2>4, <2>5, <2>6, <2>9
    <3>2. trp' \in [state : Nat, len : Nat, multiplier : Nat, rem_len : Nat] /\ trp'.state = 2 /\ trp'.rem_len = n
      BY <1>4, <2>7, <3>1
    <3>3. wire' = b
      BY <1>2, <2>2
    <3>4. <<>> \in Bytes /\ Concat(b, <<>>, b)
      BY <1>4, BytesAre DEF Concat
    <3>5. OnWire(buf', h, e, <<>>)
      <4>1. Concat(e, e, <<>>)
        BY <1>4, BytesAre DEF Concat
      <4>2. First(buf', h, e)
        BY <1>5, <2>5, <2>6 DEF First
      <4> QED BY <4>1, <4>2 DEF OnWire
    <3>6. ReadSoFar(packet, trp', wire', buf')
      BY <1>3, <1>4, <3>2, <3>3, <3>4, <3>5 DEF ReadSoFar
    <3> QED BY <1>1, <1>2, <3>1, <3>2, <3>6 DEF CodecInv
  <2> QED BY <2>8, <2>9
<1>13. CASE q >= LenBase
  <2>1. PICK k, d : /\ k = q \div LenBase /\ d = q % LenBase
                    /\ k \in Nat /\ d \in Nat /\ d < LenBase /\ q = LenBase * k + d
    BY <1>13, LessDigit
  <2>2. PICK f, t : f = MQTTPacket_encode(k) /\ Concat(t, f, b)
    BY DEF Concat
  <2>3. f \in Bytes
    BY <2>1, <2>2, EncodeType DEF Encoded
  <2>4. t \in Bytes
    BY <1>4, <2>2, <2>3, ConcatBytes
  <2>5. First(wire, LenBase + d, t)
    <3>1. First(MQTTPacket_encode(q), LenBase + d, f)
      BY <1>13, <2>1, <2>2, Encode
    <3>2. PICK x, y : x = <<LenBase + d>> /\ y = MQTTPacket_encode(q)
      OBVIOUS
    <3>3. x \in Bytes /\ Concat(y, x, f) /\ Concat(wire, y, b)
      <4>1. LenBase + d \in Nat
        BY <1>11, <2>1
      <4> QED BY <1>6, <3>1, <3>2, <4>1, BytesAre DEF First, Concat
    <3>4. Concat(wire, x, t)
      BY <1>4, <2>2, <2>3, <3>3, Assoc
    <3> QED BY <3>2, <3>4 DEF First, Concat
  <2>6. c = LenBase + d /\ wire' = t
    <3>1. LenBase + d \in Nat
      BY <1>11, <2>1
    <3> QED BY <1>2, <1>7, <2>4, <2>5, <3>1, One
  <2>7. c % LenBase = d /\ c >= LenBase
    BY <1>11, <2>1, <2>6, DigitOf
  <2>8. /\ trp' = [trp EXCEPT !.len = @ + 1, !.multiplier = m * LenBase, !.rem_len = rem]
        /\ buf' = buf /\ coding' = coding
    BY <1>7, <1>10, <2>7 DEF MQTTPacket_decodenb
  <2>9. PICK mm : mm = m * LenBase /\ mm \in Nat
    BY <1>8, <1>11
  <2>10. rem = r + d * m /\ rem \in Nat
    <3>1. d * m \in Nat
      BY <1>8, <2>1
    <3> QED BY <1>8, <1>10, <2>7, <3>1
  <2>11. /\ trp' \in [state : Nat, len : Nat, multiplier : Nat, rem_len : Nat]
         /\ trp'.state = 1 /\ trp'.len # 0 /\ trp'.multiplier = mm /\ trp'.rem_len = rem
    <3>1. PICK l : l = trp.len + 1 /\ l \in Nat /\ l # 0
      BY <1>1
    <3>2. trp' = [trp EXCEPT !.len = l, !.multiplier = mm, !.rem_len = rem]
      BY <2>8, <2>9, <3>1
    <3> QED BY <1>1, <2>9, <2>10, <3>1, <3>2, TransportExcept
  <2>12. n = rem + mm * k
    <3>1. DigitAdded(n, r, m, q, d, k, rem, mm)
      BY <1>9, <2>1, <2>9, <2>10 DEF DigitAdded
    <3> QED BY <1>8, <2>1, <3>1, SumOfDigits
  <2>13. DigitsLeft(trp', n, k)
    BY <2>11, <2>12 DEF DigitsLeft
  <2>14. Concat(wire', MQTTPacket_encode(k), b) /\ buf' = <<h>>
    BY <1>5, <2>2, <2>6, <2>8
  <2>15. ReadSoFar(packet, trp', wire', buf')
    BY <1>3, <2>1, <2>11, <2>13, <2>14 DEF ReadSoFar
  <2> QED BY <1>1, <1>2, <2>8, <2>11, <2>15 DEF CodecInv
<1> QED BY <1>11, <1>12, <1>13

LEMMA CodecInvRest == CodecInv /\ ReadRest => CodecInv'
<1> SUFFICES ASSUME CodecInv, ReadRest
             PROVE  CodecInv'
  OBVIOUS
<1>1. /\ packet \in MqttPackets /\ buflen \in Nat
      /\ trp \in [state : Nat, len : Nat, multiplier : Nat, rem_len : Nat] /\ trp.state = 2
      /\ coding = "read" /\ (packet.type \in Clients => Size(packet) <= buflen)
      /\ ReadSoFar(packet, trp, wire, buf)
  BY DEF CodecInv, ReadRest
<1>2. packet' = packet /\ buflen' = buflen /\ coding' = coding
  BY DEF ReadRest
<1>3. PICK b, h, n, e : b = Body(packet) /\ h = HeaderOf(packet) /\ n = Len(b) /\ e = MQTTPacket_encode(n)
  OBVIOUS
<1>4. b \in Bytes /\ h \in Nat /\ n \in Nat /\ e \in Bytes
  BY <1>1, <1>3, PacketFacts
<1>5. /\ trp.rem_len = Len(wire) /\ wire \in Bytes
      /\ \E s \in Bytes : Concat(b, s, wire) /\ OnWire(buf, h, e, s)
  BY <1>1, <1>3 DEF ReadSoFar
<1>6. PICK s \in Bytes : Concat(b, s, wire) /\ OnWire(buf, h, e, s)
  BY <1>5
<1>7. PICK k \in 1 .. Len(wire) :
        /\ buf' = buf \o SubSeq(wire, 1, k)
        /\ wire' = SubSeq(wire, k + 1, Len(wire))
        /\ trp' = [trp EXCEPT !.rem_len = @ - k, !.len = @ + k]
  BY <1>5 DEF ReadRest
<1>8. PICK x, y : x = SubSeq(wire, 1, k) /\ y = SubSeq(wire, k + 1, Len(wire))
  OBVIOUS
<1>9. x \in Bytes /\ y \in Bytes /\ Concat(wire, x, y) /\ Len(y) = Len(wire) - k
  BY <1>5, <1>8, Pieces
<1>10. Len(wire) \in Nat
  BY <1>5, BytesAre
<1>11. /\ trp' \in [state : Nat, len : Nat, multiplier : Nat, rem_len : Nat]
       /\ trp'.state = 2 /\ trp'.rem_len = Len(wire')
  <2>1. PICK r, l : r = trp.rem_len - k /\ l = trp.len + k /\ r \in Nat /\ l \in Nat /\ r = Len(wire) - k
    BY <1>1, <1>5, <1>10
  <2>2. trp' = [trp EXCEPT !.rem_len = r, !.len = l]
    BY <1>7, <2>1
  <2>3. /\ trp' \in [state : Nat, len : Nat, multiplier : Nat, rem_len : Nat]
        /\ trp'.state = trp.state /\ trp'.rem_len = r
    BY <1>1, <2>1, <2>2, TransportExcept
  <2> QED BY <1>1, <1>7, <1>8, <1>9, <2>1, <2>3
<1>12. PICK u : Concat(u, s, x)
  BY DEF Concat
<1>13. u \in Bytes
  BY <1>9, <1>12, ConcatBytes
<1>14. Concat(b, u, wire')
  <2>1. PICK z : Concat(z, u, y)
    BY DEF Concat
  <2>2. Concat(z, s, wire)
    BY <1>9, <1>12, <2>1, Assoc
  <2> QED BY <1>6, <1>7, <1>8, <2>1, <2>2 DEF Concat
<1>15. OnWire(buf', h, e, u)
  <2>1. PICK t : Concat(t, e, s) /\ First(buf, h, t)
    BY <1>6 DEF OnWire
  <2>2. t \in Bytes
    BY <1>4, <2>1, ConcatBytes
  <2>3. PICK v : Concat(v, t, x)
    BY DEF Concat
  <2>4. Concat(v, e, u)
    BY <1>4, <1>9, <1>12, <2>1, <2>3, Assoc
  <2>5. First(buf', h, v)
    <3>1. PICK hh : hh = <<h>>
      OBVIOUS
    <3>2. hh \in Bytes
      BY <1>4, <3>1, BytesAre
    <3>3. Concat(buf, hh, t) /\ Concat(buf', buf, x)
      BY <1>7, <1>8, <2>1, <3>1 DEF First, Concat
    <3>4. Concat(buf', hh, v)
      BY <1>9, <2>2, <2>3, <3>2, <3>3, Assoc
    <3> QED BY <3>1, <3>4 DEF First, Concat
  <2> QED BY <2>4, <2>5 DEF OnWire
<1>16. wire' \in Bytes
  BY <1>7, <1>8, <1>9
<1>17. ReadSoFar(packet, trp', wire', buf')
  BY <1>3, <1>11, <1>13, <1>14, <1>15, <1>16 DEF ReadSoFar
<1> QED BY <1>1, <1>2, <1>11, <1>17 DEF CodecInv

LEMMA CodecInvDeserialize == CodecInv /\ Deserialize => CodecInv'
<1> SUFFICES ASSUME CodecInv, Deserialize
             PROVE  CodecInv'
  OBVIOUS
<1>1. /\ packet \in MqttPackets /\ buflen \in Nat /\ trp.state = 2 /\ trp.rem_len = 0
      /\ ReadSoFar(packet, trp, wire, buf)
  BY DEF CodecInv, Deserialize
<1>2. packet' = packet /\ buflen' = buflen /\ coding' = "done" /\ trp' = Idle /\ wire' = wire
  BY DEF Deserialize
<1>3. PICK b, h, n, e : b = Body(packet) /\ h = HeaderOf(packet) /\ n = Len(b) /\ e = MQTTPacket_encode(n)
  OBVIOUS
<1>4. /\ Sendable(packet) /\ b \in Bytes /\ h \in Nat /\ n \in Nat /\ Encoded(e) /\ e \in Bytes
      /\ packet.type \in DOMAIN Types
  BY <1>1, <1>3, PacketFacts
<1>5. /\ trp.rem_len = Len(wire) /\ wire \in Bytes
      /\ \E s \in Bytes : Concat(b, s, wire) /\ OnWire(buf, h, e, s)
  BY <1>1, <1>3 DEF ReadSoFar
<1>6. wire = <<>>
  BY <1>1, <1>5, BytesAre
<1>7. OnWire(buf, h, e, b)
  <2>1. PICK s \in Bytes : Concat(b, s, wire) /\ OnWire(buf, h, e, s)
    BY <1>5
  <2>2. b = s
    BY <1>6, <2>1, BytesAre DEF Concat
  <2> QED BY <2>1, <2>2
<1>8. PICK t : Concat(t, e, b) /\ First(buf, h, t)
  BY <1>7 DEF OnWire
<1>9. From(buf, BodyAt(buf)) = b
  BY <1>4, <1>8, BodyFound
<1>10. buf[1] = h
  <2>1. t \in Bytes
    BY <1>4, <1>8, ConcatBytes
  <2> QED BY <1>4, <1>8, <2>1, One
<1>11. PICK type \in DOMAIN Types :
         Types[type] = Type(buf[1]) /\ result' = Parsed(type, buf[1], From(buf, BodyAt(buf)))
  BY DEF Deserialize
<1>12. type = packet.type
  <2>1. Types[type] = Types[packet.type]
    BY <1>3, <1>4, <1>10, <1>11, HeaderOfRead
  <2> QED BY <1>4, <1>11, <2>1, TypeCodes
<1>13. result' = IF BadCredentials(packet) THEN Refusal ELSE packet
  BY <1>3, <1>4, <1>9, <1>10, <1>11, <1>12, PacketRead
<1>14. trp' \in [state : Nat, len : Nat, multiplier : Nat, rem_len : Nat]
  BY <1>2 DEF Idle
<1> QED BY <1>1, <1>2, <1>6, <1>13, <1>14 DEF CodecInv

LEMMA CodecInvRoundTrip == CodecInv => RoundTrip
<1> SUFFICES ASSUME CodecInv
             PROVE  RoundTrip
  OBVIOUS
<1>1. packet \in MqttPackets
  BY DEF CodecInv
<1>2. packet.type \notin {"CONNACK", "SUBACK", "UNSUBACK"} => packet.type \in Clients
  BY <1>1, PacketFacts DEF Clients
<1> QED BY <1>2 DEF CodecInv, RoundTrip

(* However the bytes of a packet come in, it is the packet that was sent   *)
(* that is deserialized, whatever its texts, filters and options; a client *)
(* writes no more than its buffer holds; and no packet is refused that is  *)
(* shorter than the buffer (the serializers, MQTTPacket_readnb, the         *)
(* deserializers).                                                         *)
THEOREM PacketsReadBack == CodecSpec => []RoundTrip
<1>1. CodecInit => CodecInv
  BY CodecInvInit
<1>2. CodecInv /\ [CodecNext]_codecVars => CodecInv'
  <2> SUFFICES ASSUME CodecInv, [CodecNext]_codecVars
               PROVE  CodecInv'
    OBVIOUS
  <2>1. CASE Serialize
    BY <2>1, CodecInvSerialize
  <2>2. CASE ReadHeader
    BY <2>2, CodecInvHeader
  <2>3. CASE MQTTPacket_decodenb
    BY <2>3, CodecInvDecode
  <2>4. CASE ReadRest
    BY <2>4, CodecInvRest
  <2>5. CASE Deserialize
    BY <2>5, CodecInvDeserialize
  <2>6. CASE UNCHANGED codecVars
    BY <2>6 DEF codecVars, CodecInv
  <2> QED BY <2>1, <2>2, <2>3, <2>4, <2>5, <2>6 DEF CodecNext
<1>3. CodecInv => RoundTrip
  BY CodecInvRoundTrip
<1> QED BY <1>1, <1>2, <1>3, PTL DEF CodecSpec
===============================================================================
