--------------------------------- MODULE Pms ---------------------------------
(***************************************************************************)
(* The particulate sensor (pms_if.c): the interrupt handler that collects  *)
(* the sensor's packets in a ring of rows, the task PM_Tally that adds one *)
(* packet a second to the sums, and vDataGatherTask (main.c), which takes  *)
(* the averages once a minute.                                             *)
(*                                                                         *)
(* The interrupt may come between any two steps of the tasks, and PM_Tally *)
(* between any two of vDataGatherTask, whose priority is lower: while      *)
(* PM_Tally is at work, vDataGatherTask waits.                             *)
(***************************************************************************)
EXTENDS Integers

CONSTANTS
  NumPkt,     \* NUM_PKT: rows of the ring
  PktLen,     \* PM_PKT_LEN: characters of a packet
  MaxPacket,  \* the number of the last of the sensor's packets
  LooksLikeB, \* characters that have the value 'B' within a packet
  MaxLosses   \* characters the interrupt may miss

ASSUME PmsAssumption ==
  /\ NumPkt \in Nat \ {0}
  /\ PktLen \in Nat \ {0, 1}
  /\ MaxPacket \in Nat
  /\ LooksLikeB \subseteq (0 .. MaxPacket) \X (1 .. PktLen - 1)
  /\ MaxLosses \in Nat

VARIABLES
  g_rb,      \* the ring
  r_ptr,     \* the row being filled
  c_ptr,     \* the column to be filled
  recv,      \* a packet is being received
  timer,     \* the packet during which it began, 0 if recv is FALSE
  next,      \* the next character of the sensor
  losses,    \* characters missed so far
  since,     \* how far the handler is back in step since then (history)
  tally,     \* where PM_Tally is
  row,       \* the row it has found, 0 while it sleeps
  cnt,       \* g_spmdata._cnt, 1 for any number of packets
  gather,    \* where vDataGatherTask is in PMS_GetPMData
  bad,       \* bad_pm_cnt
  counted,   \* characters added to the sums (history)
  twice,     \* one of them was added a second time (history)
  heard      \* a packet was added while vDataGatherTask slept (history)

ring == <<g_rb, r_ptr, c_ptr, recv, timer>>
sensor == <<next, losses, since>>
tallyVars == <<tally, row>>
gatherVars == <<gather, bad>>
history == <<counted, twice, heard>>
vars == <<ring, sensor, tallyVars, cnt, gatherVars, history>>

Packets == 0 .. MaxPacket
Rows == 0 .. NumPkt - 1
Cols == 0 .. PktLen - 1

(* A character is known by the packet and the place it comes from.  *)
Chars == Packets \X Cols
Zero == <<-1, 0>>
IsB(c) == c[1] \in Packets /\ (c[2] = 0 \/ c \in LooksLikeB)

(* A packet whose beginning cannot be mistaken.  *)
Plain(n) == \A k \in Cols : <<n, k>> \notin LooksLikeB

Cleared == [k \in Cols |-> Zero]

(* _checksum: the characters of one packet, whatever 'B' it begins with.  *)
Whole(r, n) == IsB(r[0]) /\ \A k \in Cols \ {0} : r[k] = <<n, k>>
_checksum(r) == \E n \in Packets : Whole(r, n)

(* The rows _find_last_good_pm looks at.  Its 8-bit subtraction goes from  *)
(* row 0 to row 255 % NUM_PKT.                                             *)
Looked(i) == ((r_ptr - i + 256) % 256) % NumPkt

(* What PMS_Init leaves in the ring.  *)
EmptyRing == [i \in Rows |-> Cleared]

Init ==
  /\ g_rb = EmptyRing
  /\ r_ptr = 0
  /\ c_ptr = 0
  /\ recv = FALSE
  /\ timer = 0
  /\ next = <<0, 0>>
  /\ losses = 0
  /\ since = 0
  /\ tally = "sleep"
  /\ row = 0
  /\ cnt = 0
  /\ gather = "sleep"
  /\ bad = 0
  /\ counted = {}
  /\ twice = FALSE
  /\ heard = FALSE

-----------------------------------------------------------------------------
(* The sensor goes on to its next character.  *)
Send ==
  /\ next[1] \in Packets
  /\ next' = IF next[2] < PktLen - 1 THEN <<next[1], next[2] + 1>> ELSE <<next[1] + 1, 0>>

(* Since the handler missed a character or was started: 1 from the first   *)
(* plain packet on that it sees begin, and 2 from the one after it.        *)
Since ==
  IF next[2] # 0 \/ since = 2 \/ (since = 0 /\ ~ Plain(next[1])) THEN since ELSE since + 1

(* PMSIntHandler.  A packet takes 25 ms and packets are further apart than *)
(* 50 ms: the time is over when the character is one of a later packet.    *)
Stores == recv \/ IsB(next)
Began == IF recv THEN timer ELSE next[1]
Ends == Stores /\ (c_ptr + 1 = PktLen \/ next[1] # Began)

(* Fault: the end of a packet that took too long leaves the flag set.  *)
PMSIntHandlerStuck ==
  /\ Send
  /\ g_rb' = IF Stores THEN [g_rb EXCEPT ![r_ptr][c_ptr] = next] ELSE g_rb
  /\ timer' = IF Stores /\ ~ Ends THEN Began ELSE 0
  /\ IF Ends
       THEN r_ptr' = (r_ptr + 1) % NumPkt /\ c_ptr' = 0 /\ recv' = (next[1] # Began)
       ELSE r_ptr' = r_ptr /\ c_ptr' = (IF Stores THEN c_ptr + 1 ELSE c_ptr) /\ recv' = Stores
  /\ since' = Since
  /\ UNCHANGED <<losses, tallyVars, cnt, gatherVars, history>>

PMSIntHandler ==
  /\ Send
  /\ g_rb' = IF Stores THEN [g_rb EXCEPT ![r_ptr][c_ptr] = next] ELSE g_rb
  /\ timer' = IF Stores /\ ~ Ends THEN Began ELSE 0
  /\ IF Ends
       THEN r_ptr' = (r_ptr + 1) % NumPkt /\ c_ptr' = 0 /\ recv' = FALSE
       ELSE r_ptr' = r_ptr /\ c_ptr' = (IF Stores THEN c_ptr + 1 ELSE c_ptr) /\ recv' = Stores
  /\ since' = Since
  /\ UNCHANGED <<losses, tallyVars, cnt, gatherVars, history>>

(* The flag of the interrupt is cleared at the end of the handler: a       *)
(* character that came meanwhile is missed.                                *)
Miss ==
  /\ losses < MaxLosses
  /\ losses' = losses + 1
  /\ since' = 0
  /\ Send
  /\ UNCHANGED <<ring, tallyVars, cnt, gatherVars, history>>

-----------------------------------------------------------------------------
(* PM_Tally wakes and looks for a row: the first that is whole, beginning  *)
(* with the one being filled.                                              *)
FindRow ==
  /\ tally = "sleep"
  /\ \E i \in Rows :
       /\ _checksum(g_rb[Looked(i)])
       /\ \A j \in 0 .. i - 1 : ~ _checksum(g_rb[Looked(j)])
       /\ row' = Looked(i)
  /\ tally' = "parse"
  /\ UNCHANGED <<ring, sensor, cnt, gatherVars, history>>

(* Fault: the sums start anew when there is nothing to add.  *)
NoRowResets ==
  /\ tally = "sleep"
  /\ \A i \in Rows : ~ _checksum(g_rb[Looked(i)])
  /\ cnt' = 0
  /\ UNCHANGED <<ring, sensor, tallyVars, gatherVars, history>>

(* _fail_cnt, which nothing reads, is left out.  *)
NoRow ==
  /\ tally = "sleep"
  /\ \A i \in Rows : ~ _checksum(g_rb[Looked(i)])
  /\ UNCHANGED vars

(* The characters of a row, but the one it begins with.  *)
Content(i) == {g_rb[i][k] : k \in Cols \ {0}} \cap Chars

(* _buf_parse: the row is read again, and may have been written meanwhile. *)
(* The sums are started anew after 10000 packets, which would take far     *)
(* longer than vDataGatherTask sleeps.                                     *)
AddToSums ==
  /\ tally = "parse"
  /\ cnt' = 1
  /\ counted' = counted \cup Content(row)
  /\ twice' = (twice \/ Content(row) \cap counted # {})
  /\ heard' = (heard \/ gather = "sleep")
  /\ tally' = "clear"
  /\ UNCHANGED <<ring, sensor, row, gatherVars>>

(* Fault: the row is left as it is.  *)
KeepRow ==
  /\ tally = "clear"
  /\ tally' = "sleep"
  /\ row' = 0
  /\ UNCHANGED <<ring, sensor, cnt, gatherVars, history>>

ClearRow ==
  /\ tally = "clear"
  /\ g_rb' = [g_rb EXCEPT ![row] = Cleared]
  /\ tally' = "sleep"
  /\ row' = 0
  /\ UNCHANGED <<r_ptr, c_ptr, recv, timer, sensor, cnt, gatherVars, history>>

-----------------------------------------------------------------------------
(* vDataGatherTask wakes: PMS_GetPMData, first half.  *)
TakeAverage ==
  /\ tally = "sleep"
  /\ gather = "sleep"
  /\ cnt > 0 \/ bad < 2
  /\ bad' = IF cnt > 0 THEN 0 ELSE bad + 1
  /\ heard' = FALSE
  /\ gather' = "reset"
  /\ UNCHANGED <<ring, sensor, tallyVars, cnt, counted, twice>>

(* _srst *)
ResetSums ==
  /\ tally = "sleep"
  /\ gather = "reset"
  /\ cnt' = 0
  /\ gather' = "sleep"
  /\ UNCHANGED <<ring, sensor, tallyVars, bad, history>>

(* The third minute without a packet: RebootMCU, and the node starts anew. *)
Reboot ==
  /\ tally = "sleep"
  /\ gather = "sleep"
  /\ cnt = 0 /\ bad = 2
  /\ g_rb' = EmptyRing
  /\ r_ptr' = 0 /\ c_ptr' = 0 /\ recv' = FALSE /\ timer' = 0
  /\ bad' = 0
  /\ since' = 0
  /\ heard' = FALSE
  /\ UNCHANGED <<next, losses, tallyVars, cnt, gather, counted, twice>>

-----------------------------------------------------------------------------
PM_Tally == FindRow \/ NoRow \/ AddToSums \/ ClearRow

vDataGatherTask == TakeAverage \/ ResetSums \/ Reboot

Next == PMSIntHandler \/ Miss \/ PM_Tally \/ vDataGatherTask

Spec == Init /\ [][Next]_vars

-----------------------------------------------------------------------------
(* Every variable has its type: in particular the handler writes within    *)
(* the ring.                                                               *)
TypeOK ==
  /\ g_rb \in [Rows -> [Cols -> Chars \cup {Zero}]]
  /\ r_ptr \in Rows
  /\ c_ptr \in Cols
  /\ recv \in BOOLEAN
  /\ timer \in Packets
  /\ next \in Chars \cup {<<MaxPacket + 1, 0>>}
  /\ losses \in 0 .. MaxLosses
  /\ since \in 0 .. 2
  /\ tally \in {"sleep", "parse", "clear"}
  /\ row \in Rows
  /\ cnt \in 0 .. 1
  /\ gather \in {"sleep", "reset"}
  /\ bad \in 0 .. 2
  /\ counted \subseteq Chars
  /\ twice \in BOOLEAN
  /\ heard \in BOOLEAN

(* Nothing of a packet is added to the sums twice, although it stays in    *)
(* the ring for several packets and may be overwritten while it is added.  *)
CountedOnce == ~ twice

(* The averages are missing only after a minute in which no packet was     *)
(* added, and so the node reboots only after three of them: the sums lose  *)
(* nothing that was added while vDataGatherTask slept.                     *)
SamplesAreKept == heard => cnt > 0

(* From the packet on that follows the first plain one after a character   *)
(* was missed, or after a start in the middle of a packet, the handler is  *)
(* in step with the sensor again, and further on takes no character within *)
(* a packet for a beginning.                                               *)
InStepAgain == since = 2 => c_ptr = next[2] /\ (recv <=> next[2] # 0)
=============================================================================
