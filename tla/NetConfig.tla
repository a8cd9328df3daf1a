------------------------------ MODULE NetConfig ------------------------------
(***************************************************************************)
(* The network manager: vNetworkConfigTask (main.c), Wlan_Connect and the  *)
(* event handlers it shares its flags with (internet_if.c), and the table  *)
(* of connection profiles (simplelink_if.c).                               *)
(*                                                                         *)
(* The event handlers run in the spawn task, whose priority is above that  *)
(* of the network manager: a handler is one step, and may come between any *)
(* two memory accesses of the manager.  The manager's update of the        *)
(* request flags is therefore a load and a store.                          *)
(***************************************************************************)
EXTENDS Naturals

CONSTANTS
  SSIDs,     \* names of access points the user may choose
  None,      \* an empty slot of the table
  NumSlots   \* slots of the table (7 in the network processor)

ASSUME NetConfigAssumption == None \notin SSIDs /\ NumSlots \in Nat

VARIABLES
  state,     \* state of vNetworkConfigTask
  pc,        \* where in its turn it is
  request,   \* the bits that are set in g_ucNetworkCheckProfiles
  loaded,    \* the copy of them in a register
  lastAdded, \* lastProfileInfo.last_added_profile
  good,      \* lastProfileInfo.profile_good
  timer,     \* the 6 seconds given to a new profile
  staTimer,  \* sta_reconnect_timer_active
  scan,      \* whether to scan before the next access point mode
  role,      \* mode of the network processor
  conn, ip,  \* STATUS_BIT_CONNECTION, STATUS_BIT_IP_AQUIRED
  internet,  \* g_iInternetAccess = SUCCESS
  profile,   \* the table of profiles
  untried    \* profiles stored since the last attempt as a station (history)

flagVars == <<request, loaded, lastAdded, good>>
timers == <<timer, staTimer, scan>>
link == <<role, conn, ip, internet>>
table == <<profile, untried>>
vars == <<state, pc, flagVars, timers, link, table>>

Slots == 0 .. NumSlots - 1
States == {"IDLE", "TRY_STA", "TRY_AP"}
Bits == {"check", "pressed"}

Stored(p) == {p[i] : i \in Slots} \ {None}
Used == {i \in Slots : profile[i] # None}

sl_ProfilesExist == Used # {}

(* The comparison with the name is followed by a stray semicolon: the      *)
(* first slot in use is the answer, whatever it holds.                     *)
sl_GetProfileIndex(ssid) ==
  IF Used = {} THEN {} ELSE {CHOOSE i \in Used : \A j \in Used : i <= j}

Net_Status == conn /\ ip /\ internet

(* The network processor starts in the mode it was last left in, with the  *)
(* profiles it has kept.                                                   *)
Init ==
  /\ state = "IDLE"
  /\ pc = "top"
  /\ request = {"check"}
  /\ loaded = {}
  /\ lastAdded = None
  /\ good = FALSE
  /\ timer = "off"
  /\ staTimer = FALSE
  /\ scan = TRUE
  /\ role \in {"sta", "ap"}
  /\ conn = FALSE
  /\ ip = FALSE
  /\ internet = FALSE
  /\ profile \in [Slots -> SSIDs \cup {None}]
  /\ untried = Stored(profile)

-----------------------------------------------------------------------------
(* The turn of the task begins: it waits for the network lock.  *)
Top ==
  /\ pc = "top"
  /\ pc' = "lock"
  /\ UNCHANGED <<state, flagVars, timers, link, table>>

(* A turn in a state: the work is done, the check of the timer follows.  *)
Turn(s, next) == pc = "lock" /\ state = s /\ state' = next /\ pc' = "bottom"

-----------------------------------------------------------------------------
(* State IDLE.  A request is taken: its bit is cleared by a load and a     *)
(* store.                                                                  *)
TakeRequest ==
  /\ pc = "lock" /\ state = "IDLE"
  /\ "check" \in request
  /\ loaded' = request
  /\ pc' = "clearCheck"
  /\ UNCHANGED <<state, request, lastAdded, good, timers, link, table>>

ClearCheck ==
  /\ pc = "clearCheck"
  /\ request' = loaded \ {"check"}
  /\ pc' = "readPressed"
  /\ UNCHANGED <<state, loaded, lastAdded, good, timers, link, table>>

(* The user pressed connect: the profile gets 6 seconds.  *)
UserPressed ==
  /\ pc = "readPressed"
  /\ "pressed" \in request
  /\ timer' = "started"
  /\ loaded' = request
  /\ pc' = "clearPressed"
  /\ UNCHANGED <<state, request, lastAdded, good, staTimer, scan, link, table>>

ClearPressed ==
  /\ pc = "clearPressed"
  /\ request' = loaded \ {"pressed"}
  /\ good' = FALSE
  /\ pc' = "choose"
  /\ UNCHANGED <<state, loaded, lastAdded, timers, link, table>>

(* Fault: the state that the task's switch has no case for.  *)
ChooseModeUnknown ==
  /\ \/ pc = "choose"
     \/ pc = "readPressed" /\ "pressed" \notin request
  /\ state' = IF sl_ProfilesExist THEN "CHECK_PROF" ELSE "TRY_AP"
  /\ pc' = "bottom"
  /\ UNCHANGED <<flagVars, timers, link, table>>

ChooseMode ==
  /\ \/ pc = "choose"
     \/ pc = "readPressed" /\ "pressed" \notin request
  /\ state' = IF sl_ProfilesExist THEN "TRY_STA" ELSE "TRY_AP"
  /\ pc' = "bottom"
  /\ UNCHANGED <<flagVars, timers, link, table>>

ReconnectAsStation ==
  /\ Turn("IDLE", "TRY_STA")
  /\ "check" \notin request
  /\ staTimer
  /\ staTimer' = FALSE
  /\ UNCHANGED <<flagVars, timer, scan, link, table>>

StayIdle ==
  /\ Turn("IDLE", "IDLE")
  /\ "check" \notin request
  /\ UNCHANGED <<flagVars, timers, link, table>>

-----------------------------------------------------------------------------
(* Wlan_ConfigureMode: the network processor is stopped, the status bits   *)
(* are cleared, and it starts in the new mode.                             *)
Wlan_ConfigureMode(mode) == role' = mode /\ conn' = FALSE /\ ip' = FALSE

(* State TRY_STA: Wlan_Connect(ROLE_STA).  *)
StartStation ==
  /\ pc = "lock" /\ state = "TRY_STA"
  /\ internet' = FALSE
  /\ Wlan_ConfigureMode("sta")
  /\ untried' = {}
  /\ pc' = "await"
  /\ UNCHANGED <<state, flagVars, timers, profile>>

Connected ==
  /\ pc = "await"
  /\ conn /\ ip
  /\ pc' = "ping"
  /\ UNCHANGED <<state, flagVars, timers, link, table>>

ConnectTimeout ==
  /\ pc = "await"
  /\ ~ (conn /\ ip)
  /\ conn' = FALSE /\ ip' = FALSE
  /\ state' = "TRY_AP"
  /\ pc' = "bottom"
  /\ UNCHANGED <<flagVars, timers, role, internet, table>>

(* ConnectionTest: the connection may be gone by the time it returns.  *)
PingSucceeds ==
  /\ pc = "ping"
  /\ internet' = TRUE
  /\ good' = TRUE
  /\ state' = "IDLE"
  /\ pc' = "bottom"
  /\ UNCHANGED <<request, loaded, lastAdded, timers, role, conn, ip, table>>

(* Fault: a station without internet access will do.  *)
PingFailsUnnoticed ==
  /\ pc = "ping"
  /\ internet' = FALSE
  /\ state' = "IDLE"
  /\ pc' = "bottom"
  /\ UNCHANGED <<flagVars, timers, role, conn, ip, table>>

PingFails ==
  /\ pc = "ping"
  /\ internet' = FALSE
  /\ state' = "TRY_AP"
  /\ pc' = "bottom"
  /\ UNCHANGED <<flagVars, timers, role, conn, ip, table>>

-----------------------------------------------------------------------------
(* State TRY_AP: Wlan_Connect(ROLE_AP).  Wlan_Scan restarts the network    *)
(* processor as a station, with no connection policy, and sleeps.          *)
ScanFirst ==
  /\ pc = "lock" /\ state = "TRY_AP"
  /\ scan
  /\ internet' = FALSE
  /\ role' = "sta"
  /\ pc' = "scan"
  /\ UNCHANGED <<state, flagVars, timers, conn, ip, table>>

(* Fault: the result of the last connection test is kept.  *)
StartAPKeeping ==
  /\ \/ pc = "lock" /\ state = "TRY_AP" /\ ~ scan
     \/ pc = "scan"
  /\ Wlan_ConfigureMode("ap")
  /\ pc' = "awaitIP"
  /\ UNCHANGED <<state, flagVars, timers, internet, table>>

StartAP ==
  /\ \/ pc = "lock" /\ state = "TRY_AP" /\ ~ scan
     \/ pc = "scan"
  /\ internet' = FALSE
  /\ Wlan_ConfigureMode("ap")
  /\ pc' = "awaitIP"
  /\ UNCHANGED <<state, flagVars, timers, table>>

(* The spin on the status bit ends: clearing the request flag begins.  *)
APReady ==
  /\ pc = "awaitIP"
  /\ ip
  /\ loaded' = request
  /\ pc' = "clearRequest"
  /\ UNCHANGED <<state, request, lastAdded, good, timers, link, table>>

ClearRequest ==
  /\ pc = "clearRequest"
  /\ request' = loaded \ {"check"}
  /\ scan' = FALSE
  /\ pc' = "startTimer"
  /\ UNCHANGED <<state, loaded, lastAdded, good, timer, staTimer, link, table>>

(* Fault: a node that serves as an access point waits for the user.  *)
StartNoTimer ==
  /\ pc = "startTimer"
  /\ state' = "IDLE"
  /\ pc' = "bottom"
  /\ UNCHANGED <<flagVars, timers, link, table>>

StartTimer ==
  /\ pc = "startTimer"
  /\ staTimer' = (staTimer \/ sl_ProfilesExist)
  /\ state' = "IDLE"
  /\ pc' = "bottom"
  /\ UNCHANGED <<flagVars, timer, scan, link, table>>

-----------------------------------------------------------------------------
(* The end of a turn.  The 6 seconds cannot be over in the turn that       *)
(* started them.                                                           *)
EndOfTurn ==
  /\ pc = "bottom"
  /\ timer' = IF timer = "started" THEN "running" ELSE timer
  /\ pc' = "top"
  /\ UNCHANGED <<state, flagVars, staTimer, scan, link, table>>

(* sl_WlanProfileDel on each of the slots  *)
DeleteProfiles(slots) ==
  /\ profile' = [i \in Slots |-> IF i \in slots THEN None ELSE profile[i]]
  /\ untried' = untried \cap Stored(profile')

TimerExpires ==
  /\ pc = "bottom"
  /\ timer = "running"
  /\ timer' = "off"
  /\ DeleteProfiles(IF good THEN {} ELSE sl_GetProfileIndex(lastAdded))
  /\ pc' = "top"
  /\ UNCHANGED <<state, flagVars, staTimer, scan, link>>

-----------------------------------------------------------------------------
(* Events of the network processor (SimpleLinkWlanEventHandler and         *)
(* SimpleLinkNetAppEventHandler).  A station joins an access point if it   *)
(* has a profile; while it scans it does not.                              *)
Joins ==
  /\ role = "sta" /\ pc # "scan"
  /\ sl_ProfilesExist
  /\ conn' = TRUE
  /\ UNCHANGED <<state, pc, flagVars, timers, role, ip, internet, table>>

Leaves ==
  /\ role = "sta" /\ conn
  /\ conn' = FALSE /\ ip' = FALSE
  /\ UNCHANGED <<state, pc, flagVars, timers, role, internet, table>>

AcquiresIP ==
  /\ role = "sta" => conn
  /\ ip' = TRUE
  /\ UNCHANGED <<state, pc, flagVars, timers, role, conn, internet, table>>

(* A client of the node's own access point comes or goes.  *)
ClientChanges ==
  /\ role = "ap" /\ ip
  /\ conn' = ~ conn
  /\ UNCHANGED <<state, pc, flagVars, timers, role, ip, internet, table>>

(* The user enters a network on the node's page: the network processor     *)
(* stores it, if the table has room, and SimpleLinkHttpServerCallback      *)
(* asks for it to be tried.                                                *)
Press(ssid) ==
  /\ conn /\ ip /\ pc # "scan"
  /\ IF \E i \in Slots : profile[i] \in {None, ssid}
       THEN /\ \E i \in Slots :
                 /\ IF ssid \in Stored(profile) THEN profile[i] = ssid ELSE profile[i] = None
                 /\ profile' = [profile EXCEPT ![i] = ssid]
            /\ untried' = untried \cup {ssid}
       ELSE UNCHANGED table
  /\ lastAdded' = ssid
  /\ good' = FALSE
  /\ request' = Bits
  /\ UNCHANGED <<state, pc, loaded, timers, link>>

(* The command "rmp" of messageArrived, which runs under the network lock. *)
RemoveProfiles ==
  /\ pc \in {"top", "lock"}
  /\ Net_Status
  /\ \/ DeleteProfiles(Slots)
     \/ \E ssid \in SSIDs : DeleteProfiles(sl_GetProfileIndex(ssid))
  /\ UNCHANGED <<state, pc, flagVars, timers, link>>

-----------------------------------------------------------------------------
Task ==
  \/ Top \/ TakeRequest \/ ClearCheck \/ UserPressed \/ ClearPressed \/ ChooseMode
  \/ ReconnectAsStation \/ StayIdle
  \/ StartStation \/ Connected \/ ConnectTimeout \/ PingSucceeds \/ PingFails
  \/ ScanFirst \/ StartAP \/ APReady \/ ClearRequest \/ StartTimer
  \/ EndOfTurn \/ TimerExpires

Network ==
  \/ Joins \/ Leaves \/ AcquiresIP \/ ClientChanges
  \/ \E ssid \in SSIDs : Press(ssid)
  \/ RemoveProfiles

Next == Task \/ Network

Spec == Init /\ [][Next]_vars

(* The task runs, the network processor gives itself an address as an      *)
(* access point, and 30 seconds of idling pass.                            *)
FairSpec ==
  /\ Spec
  /\ WF_vars(Task)
  /\ WF_vars(role = "ap" /\ ~ ip /\ AcquiresIP)
  /\ SF_vars(ReconnectAsStation)

-----------------------------------------------------------------------------
(* Every variable has its type: in particular the task's state is one its  *)
(* switch has a case for.                                                  *)
TypeOK ==
  /\ state \in States
  /\ pc \in {"top", "lock", "clearCheck", "readPressed", "clearPressed", "choose", "await",
             "ping", "scan", "awaitIP", "clearRequest", "startTimer", "bottom"}
  /\ request \subseteq Bits
  /\ loaded \subseteq Bits
  /\ lastAdded \in SSIDs \cup {None}
  /\ good \in BOOLEAN
  /\ timer \in {"off", "started", "running"}
  /\ staTimer \in BOOLEAN
  /\ scan \in BOOLEAN
  /\ role \in {"sta", "ap"}
  /\ conn \in BOOLEAN
  /\ ip \in BOOLEAN
  /\ internet \in BOOLEAN
  /\ profile \in [Slots -> SSIDs \cup {None}]
  /\ untried \subseteq SSIDs

(* A node that serves as an access point never counts as being on the      *)
(* internet, although a client that joins it sets the bit of a connection  *)
(* and the address it gave itself that of an address (Net_Status gates     *)
(* every other task that uses the network).                                *)
NoInternetAsAP == role = "ap" => ~ Net_Status

(* When the manager idles with no request pending, the node is of use: it  *)
(* is an access point the user can reach, or a station that has passed     *)
(* the connection test since it was last started.                          *)
IdleIsSettled ==
  (pc \in {"top", "lock"} /\ state = "IDLE" /\ "check" \notin request) =>
     \/ role = "ap" /\ ip
     \/ role = "sta" /\ internet

(* Every profile that is stored is tried as a station, or deleted, even    *)
(* though the bit of the request may be lost between the load and the      *)
(* store of the flags.                                                     *)
ProfilesAreTried == \A ssid \in SSIDs : (ssid \in untried) ~> (ssid \notin untried)

(* A profile that is deleted because it did not connect in time is the one *)
(* the user added last ("Deleting bad profile", main.c).                   *)
OnlyLastAddedDeleted == [][pc = "bottom" => Stored(profile) \ Stored(profile') \subseteq {lastAdded}]_vars
=============================================================================
