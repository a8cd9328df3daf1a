--------------------------- MODULE NetConfig_proofs ---------------------------
(***************************************************************************)
(* Proofs about NetConfig: an access point is never taken for a node on    *)
(* the internet, and a manager that idles has left the node in use.        *)
(***************************************************************************)
EXTENDS NetConfig, TLAPS

(* Where the task is within a turn tells its state and the mode of the     *)
(* network processor.                                                      *)
WhereInTurn ==
  /\ pc \in {"clearCheck", "readPressed", "clearPressed", "choose"} => state = "IDLE"
  /\ pc \in {"await", "ping"} => state = "TRY_STA" /\ role = "sta"
  /\ pc \in {"scan", "awaitIP", "clearRequest", "startTimer"} => state = "TRY_AP"
  /\ pc \in {"awaitIP", "clearRequest", "startTimer"} => role = "ap"
  /\ pc \in {"clearRequest", "startTimer"} => ip

(* IdleIsSettled, from the moment a turn has led to IDLE.  *)
Settled ==
  (pc \in {"top", "lock", "bottom"} /\ state = "IDLE" /\ "check" \notin request) =>
     \/ role = "ap" /\ ip
     \/ role = "sta" /\ internet

NetInv ==
  /\ WhereInTurn
  /\ Settled
  /\ role = "ap" => ~ internet

-----------------------------------------------------------------------------
LEMMA StoredAreSSIDs ==
  ASSUME NEW p \in [Slots -> SSIDs \cup {None}]
  PROVE  Stored(p) \subseteq SSIDs
BY DEF Stored

LEMMA DeleteTypes ==
  ASSUME TypeOK, NEW slots, DeleteProfiles(slots)
  PROVE  profile' \in [Slots -> SSIDs \cup {None}] /\ untried' \subseteq SSIDs
<1>1. profile' \in [Slots -> SSIDs \cup {None}]
  BY DEF TypeOK, DeleteProfiles
<1>2. untried' \subseteq SSIDs
  BY DEF TypeOK, DeleteProfiles
<1> QED
  BY <1>1, <1>2

LEMMA InitNet == Init => TypeOK /\ NetInv
<1> SUFFICES ASSUME Init PROVE TypeOK /\ NetInv
  OBVIOUS
<1>1. untried \subseteq SSIDs
  BY StoredAreSSIDs DEF Init
<1> QED
  BY <1>1 DEF Init, TypeOK, States, Bits, NetInv, WhereInTurn, Settled

(* Every value an action assigns has the type of its variable. *)
LEMMA StepTypes == TypeOK /\ [Next]_vars => TypeOK'
<1> SUFFICES ASSUME TypeOK, [Next]_vars PROVE TypeOK'
  OBVIOUS
<1> USE DEF TypeOK, States, Bits, flagVars, timers, link, table
<1>1. CASE UNCHANGED vars
  BY <1>1 DEF vars
<1>2. CASE Top
  BY <1>2 DEF Top
<1>3. CASE TakeRequest
  BY <1>3 DEF TakeRequest
<1>4. CASE ClearCheck
  BY <1>4 DEF ClearCheck
<1>5. CASE UserPressed
  BY <1>5 DEF UserPressed
<1>6. CASE ClearPressed
  BY <1>6 DEF ClearPressed
<1>7. CASE ChooseMode
  BY <1>7 DEF ChooseMode
<1>8. CASE ReconnectAsStation
  BY <1>8 DEF ReconnectAsStation, Turn
<1>9. CASE StayIdle
  BY <1>9 DEF StayIdle, Turn
<1>10. CASE StartStation
  BY <1>10 DEF StartStation, Wlan_ConfigureMode
<1>11. CASE Connected
  BY <1>11 DEF Connected
<1>12. CASE ConnectTimeout
  BY <1>12 DEF ConnectTimeout
<1>13. CASE PingSucceeds
  BY <1>13 DEF PingSucceeds
<1>14. CASE PingFails
  BY <1>14 DEF PingFails
<1>15. CASE ScanFirst
  BY <1>15 DEF ScanFirst
<1>16. CASE StartAP
  BY <1>16 DEF StartAP, Wlan_ConfigureMode
<1>17. CASE APReady
  BY <1>17 DEF APReady
<1>18. CASE ClearRequest
  BY <1>18 DEF ClearRequest
<1>19. CASE StartTimer
  BY <1>19 DEF StartTimer, sl_ProfilesExist
<1>20. CASE EndOfTurn
  BY <1>20 DEF EndOfTurn
<1>21. CASE TimerExpires
  <2>1. profile' \in [Slots -> SSIDs \cup {None}] /\ untried' \subseteq SSIDs
    BY <1>21, DeleteTypes DEF TimerExpires
  <2> QED
    BY <1>21, <2>1 DEF TimerExpires
<1>22. CASE Joins
  BY <1>22 DEF Joins
<1>23. CASE Leaves
  <2>1. conn' = FALSE /\ ip' = FALSE
    BY <1>23 DEF Leaves
  <2>2. UNCHANGED <<state, pc, flagVars, timers, role, internet, table>>
    BY <1>23 DEF Leaves
  <2>3. conn' \in BOOLEAN /\ ip' \in BOOLEAN
    BY <2>1
  <2> QED
    BY <2>2, <2>3
<1>24. CASE AcquiresIP
  BY <1>24 DEF AcquiresIP
<1>25. CASE ClientChanges
  BY <1>25 DEF ClientChanges
<1>26. ASSUME NEW ssid \in SSIDs, Press(ssid) PROVE TypeOK'
  <2>1. profile' \in [Slots -> SSIDs \cup {None}] /\ untried' \subseteq SSIDs
    BY <1>26 DEF Press
  <2> QED
    BY <1>26, <2>1 DEF Press
<1>27. CASE RemoveProfiles
  <2>1. profile' \in [Slots -> SSIDs \cup {None}] /\ untried' \subseteq SSIDs
    BY <1>27, DeleteTypes DEF RemoveProfiles
  <2> QED
    BY <1>27, <2>1 DEF RemoveProfiles
<1> QED
  BY <1>1, <1>2, <1>3, <1>4, <1>5, <1>6, <1>7, <1>8, <1>9, <1>10, <1>11, <1>12, <1>13,
     <1>14, <1>15, <1>16, <1>17, <1>18, <1>19, <1>20, <1>21, <1>22, <1>23, <1>24, <1>25,
     <1>26, <1>27
     DEF Next, Task, Network

(* Only a station that passed the test, and an access point that has its   *)
(* address, lead to IDLE; a restart clears what was true of the last mode. *)
LEMMA StepNet == TypeOK /\ NetInv /\ [Next]_vars => NetInv'
<1> SUFFICES ASSUME TypeOK, NetInv, [Next]_vars PROVE NetInv'
  OBVIOUS
<1> USE DEF TypeOK, Bits, NetInv, WhereInTurn, Settled, flagVars, timers, link, table
<1>1. CASE UNCHANGED vars
  BY <1>1 DEF vars
<1>2. CASE Top
  BY <1>2 DEF Top
<1>3. CASE TakeRequest
  BY <1>3 DEF TakeRequest
<1>4. CASE ClearCheck
  BY <1>4 DEF ClearCheck
<1>5. CASE UserPressed
  BY <1>5 DEF UserPressed
<1>6. CASE ClearPressed
  BY <1>6 DEF ClearPressed
<1>7. CASE ChooseMode
  BY <1>7 DEF ChooseMode
<1>8. CASE ReconnectAsStation
  BY <1>8 DEF ReconnectAsStation, Turn
<1>9. CASE StayIdle
  BY <1>9 DEF StayIdle, Turn
<1>10. CASE StartStation
  BY <1>10 DEF StartStation, Wlan_ConfigureMode
<1>11. CASE Connected
  BY <1>11 DEF Connected
<1>12. CASE ConnectTimeout
  BY <1>12 DEF ConnectTimeout
<1>13. CASE PingSucceeds
  BY <1>13 DEF PingSucceeds
<1>14. CASE PingFails
  BY <1>14 DEF PingFails
<1>15. CASE ScanFirst
  BY <1>15 DEF ScanFirst
<1>16. CASE StartAP
  BY <1>16 DEF StartAP, Wlan_ConfigureMode
<1>17. CASE APReady
  BY <1>17 DEF APReady
<1>18. CASE ClearRequest
  BY <1>18 DEF ClearRequest
<1>19. CASE StartTimer
  BY <1>19 DEF StartTimer, sl_ProfilesExist
<1>20. CASE EndOfTurn
  BY <1>20 DEF EndOfTurn
<1>21. CASE TimerExpires
  BY <1>21 DEF TimerExpires
<1>22. CASE Joins
  BY <1>22 DEF Joins
<1>23. CASE Leaves
  BY <1>23 DEF Leaves
<1>24. CASE AcquiresIP
  BY <1>24 DEF AcquiresIP
<1>25. CASE ClientChanges
  BY <1>25 DEF ClientChanges
<1>26. ASSUME NEW ssid \in SSIDs, Press(ssid) PROVE NetInv'
  BY <1>26 DEF Press
<1>27. CASE RemoveProfiles
  BY <1>27 DEF RemoveProfiles
<1> QED
  BY <1>1, <1>2, <1>3, <1>4, <1>5, <1>6, <1>7, <1>8, <1>9, <1>10, <1>11, <1>12, <1>13,
     <1>14, <1>15, <1>16, <1>17, <1>18, <1>19, <1>20, <1>21, <1>22, <1>23, <1>24, <1>25,
     <1>26, <1>27
     DEF Next, Task, Network

LEMMA NetInvariant == Spec => [](TypeOK /\ NetInv)
<1>1. TypeOK /\ NetInv /\ [Next]_vars => (TypeOK /\ NetInv)'
  BY StepTypes, StepNet
<1> QED
  BY InitNet, <1>1, PTL DEF Spec

(* An access point never counts as being on the internet, whatever clients *)
(* join it and whatever the user and the broker ask for meanwhile.         *)
THEOREM AccessPointIsOffline == Spec => []NoInternetAsAP
<1>1. TypeOK /\ NetInv => NoInternetAsAP
  BY DEF NetInv, NoInternetAsAP, Net_Status
<1> QED
  BY NetInvariant, <1>1, PTL

(* A manager that idles without a request has left an access point with an *)
(* address, or a station that passed the connection test.                  *)
THEOREM IdleMeansSettled == Spec => []IdleIsSettled
<1>1. TypeOK /\ NetInv => IdleIsSettled
  BY DEF NetInv, Settled, IdleIsSettled
<1> QED
  BY NetInvariant, <1>1, PTL

(* The types of the network manager's state.  *)
THEOREM NetTypeCorrect == Spec => []TypeOK
BY NetInvariant, PTL
=============================================================================
