------------------------------ MODULE NodeTasks ------------------------------
(***************************************************************************)
(* The tasks main() creates, as the scheduler sees them: their priorities, *)
(* the synchronisation objects they start on, the network lock they share, *)
(* and the watchdog the least of them feeds (main.c, wdt_if.c).            *)
(*                                                                         *)
(* The scheduler is preemptive, by priority; a task that waits for the     *)
(* network processor leaves the processor to the others, one that spins    *)
(* does not.  What a task does in its turn is the subject of the other     *)
(* modules; here a turn has the outcomes that decide what it does to the   *)
(* others.                                                                 *)
(***************************************************************************)
EXTENDS Naturals

CONSTANT Workers  \* tasks that only sleep and work

VARIABLES
  at,       \* where each task is
  lock,     \* who holds g_NetworkLockRequest
  signals,  \* synchronisation objects that have been signalled
  netState, \* state of vNetworkConfigTask
  access,   \* g_iInternetAccess = SUCCESS
  link,     \* the status bits of a station that is connected
  synced,   \* g_ucTimeSynced
  dog,      \* periods of the watchdog since it was last acknowledged
  cause     \* PRCMSysResetCauseGet: the watchdog, or any other

taskVars == <<at, lock, signals, netState, access, link, synced, dog, cause>>
netVars == <<netState, access, link>>

Lockers == {"ConfNet", "MQTTTask", "Sync Device Time"}
Tasks == Lockers \cup {"Blinky"} \cup Workers

(* Fault: the task that feeds the watchdog is put above all others. *)
PriorityBlinkFirst(t) ==
  CASE t = "Blinky" -> 9
    [] t = "ConfNet" -> 8
    [] t = "MQTTTask" -> 5
    [] t = "PM_Tally" -> 4
    [] t = "DataGatherTask" -> 1
    [] OTHER -> 3

Priority(t) ==
  CASE t = "ConfNet" -> 8
    [] t = "MQTTTask" -> 5
    [] t = "PM_Tally" -> 4
    [] t \in {"DataGatherTask", "Blinky"} -> 1
    [] OTHER -> 3

(* What a task is at when it does not wait for anything.  *)
Spins == {"spin", "errorLoop"}
Runnable == {"ready", "retry", "own", "done", "hurry", "good", "tell"} \cup Spins

MayRun(t) ==
  /\ cause # "WDT"
  /\ at[t] \in Runnable
  /\ \A u \in Tasks : at[u] \in Runnable => Priority(u) <= Priority(t)

(* A turn that does not spin is over before anybody's sleep is.  *)
TimePasses == cause # "WDT" /\ \A t \in Tasks : MayRun(t) => at[t] \in Spins

Net_Status == access /\ link

(* Three tasks start on a synchronisation object, the publisher as well. *)
Started ==
  [t \in Tasks |-> IF t = "ConfNet" THEN "ready"
                   ELSE IF t \in Lockers \cup {"PubTask"} THEN "waitNet" ELSE "asleep"]

NodeInit ==
  /\ at = Started
  /\ lock = "free"
  /\ signals = {}
  /\ netState = "IDLE"
  /\ access = FALSE /\ link = FALSE /\ synced = FALSE
  /\ dog = 0
  /\ cause = "HIB"

(* main() starts again, every variable of the program with it.  *)
Restart(c) ==
  /\ at' = Started
  /\ lock' = "free"
  /\ signals' = {}
  /\ netState' = "IDLE"
  /\ access' = FALSE /\ link' = FALSE /\ synced' = FALSE
  /\ dog' = 0
  /\ cause' = c

RebootNode == Restart("HIB")

(* A reset by the watchdog leaves the network processor as it was: main()  *)
(* hibernates before it creates a task.                                    *)
CleanBoot == cause = "WDT" /\ RebootNode

Go(t, where) == at' = [at EXCEPT ![t] = where]

-----------------------------------------------------------------------------
(* The scheduler and its objects. *)

Wake(t) ==
  /\ TimePasses
  /\ \/ at[t] = "asleep" /\ Go(t, "ready")
     \/ at[t] = "nap" /\ Go(t, "done")
  /\ UNCHANGED <<lock, signals, netVars, synced, dog, cause>>

SyncObj(t) ==
  IF at[t] = "waitTime" THEN "TimeUpdate"
  ELSE CASE t = "Sync Device Time" -> "ConnectedNTP"
         [] t = "MQTTTask" -> "ConnectedMQTT"
         [] OTHER -> "ConnectedPublish"

(* osi_SyncObjWait returns; vMQTTTask has two to wait for.  *)
SyncObjTaken(t) ==
  /\ at[t] \in {"waitNet", "waitTime"}
  /\ SyncObj(t) \in signals
  /\ signals' = signals \ {SyncObj(t)}
  /\ Go(t, CASE t = "MQTTTask" /\ at[t] = "waitNet" -> "waitTime"
             [] t = "Sync Device Time" -> "ready"
             [] OTHER -> "asleep")
  /\ UNCHANGED <<lock, netVars, synced, dog, cause>>

(* osi_LockObjLock.  vMQTTTask asks for the lock only when it sees the     *)
(* internet, and does not look again when it gets it.                      *)
Lock(t) ==
  /\ MayRun(t)
  /\ \/ at[t] = "retry"
     \/ at[t] = "ready" /\ (t = "MQTTTask" => Net_Status)
  /\ IF lock = "free" THEN lock' = t /\ Go(t, "own") ELSE UNCHANGED lock /\ Go(t, "lock")
  /\ UNCHANGED <<signals, netVars, synced, dog, cause>>

NotOnline ==
  /\ MayRun("MQTTTask")
  /\ at["MQTTTask"] = "ready"
  /\ ~Net_Status
  /\ Go("MQTTTask", "asleep")
  /\ UNCHANGED <<lock, signals, netVars, synced, dog, cause>>

(* osi_LockObjUnlock makes the first of those who wait ready to try again, *)
(* which is not yet to have the lock; then the holder goes to rest.        *)
Release(t, rest) ==
  /\ MayRun(t)
  /\ lock' = "free"
  /\ LET waiting == {u \in Lockers : at[u] = "lock"}
         first == {u \in waiting : \A v \in waiting : Priority(v) <= Priority(u)}
     IN at' = [u \in Tasks |-> IF u = t THEN rest ELSE IF u \in first THEN "retry" ELSE at[u]]
  /\ UNCHANGED <<signals, netVars, synced, dog, cause>>

(* Fault: vMQTTTask takes the lock again without a sleep in between. *)
UnlockSleepless(t) ==
  \/ at[t] = "done" /\ Release(t, IF t = "MQTTTask" THEN "ready" ELSE "asleep")
  \/ at[t] = "hurry" /\ Release(t, "ready")
  \/ at[t] = "good" /\ Release(t, "tell")

(* OSI_SLEEP is 0 where the network manager changes its state: a sleep of  *)
(* 0 yields to nobody of lower priority.                                   *)
Unlock(t) ==
  \/ at[t] = "done" /\ Release(t, "asleep")
  \/ at[t] = "hurry" /\ Release(t, "ready")
  \/ at[t] = "good" /\ Release(t, "tell")

-----------------------------------------------------------------------------
(* vNetworkConfigTask: what NetConfig is about, as its turns take time.  *)

(* IDLE: nothing to do, a request, or the timer that was set in AP mode. *)
IdleTurn ==
  /\ MayRun("ConfNet") /\ at["ConfNet"] = "own" /\ netState = "IDLE"
  /\ \/ UNCHANGED netState /\ Go("ConfNet", "done")
     \/ netState' \in {"TRY_STA", "TRY_AP"} /\ Go("ConfNet", "hurry")
     \/ netState' = "TRY_STA" /\ Go("ConfNet", "done")
  /\ UNCHANGED <<lock, signals, access, link, synced, dog, cause>>

(* Wlan_Connect: g_iInternetAccess is reset, the mode is set and the       *)
(* network processor restarted.  If it was an access point, the task spins *)
(* until that has an address, before it tries again.                       *)
Wlan_Connect ==
  /\ MayRun("ConfNet") /\ at["ConfNet"] = "own" /\ netState \in {"TRY_STA", "TRY_AP"}
  /\ access' = FALSE /\ link' = FALSE
  /\ \/ Go("ConfNet", "call")
     \/ netState = "TRY_STA" /\ Go("ConfNet", "spin")
  /\ UNCHANGED <<lock, signals, netState, synced, dog, cause>>

StationReturns(ok) ==
  /\ at["ConfNet"] = "call" /\ netState = "TRY_STA"
  /\ access' = ok /\ link' = ok
  /\ netState' = IF ok THEN "IDLE" ELSE "TRY_AP"
  /\ Go("ConfNet", IF ok THEN "done" ELSE "hurry")
  /\ signals' = IF ok THEN signals \cup {"ConnectedNTP", "ConnectedPublish", "ConnectedMQTT"} ELSE signals
  /\ UNCHANGED <<lock, synced, dog, cause>>

(* As an access point, the task spins until there is an address.  The mode *)
(* may not have been taken over: then TRY_AP is tried again.               *)
AccessPointReturns ==
  /\ at["ConfNet"] = "call" /\ netState = "TRY_AP"
  /\ at' \in {[at EXCEPT !["ConfNet"] = w] : w \in {"spin", "done"}}
  /\ UNCHANGED <<lock, signals, netVars, synced, dog, cause>>

(* An error of the network processor ends in ERROR_LOOP.  *)
ErrorLoop ==
  /\ at["ConfNet"] = "call"
  /\ Go("ConfNet", "errorLoop")
  /\ UNCHANGED <<lock, signals, netVars, synced, dog, cause>>

-----------------------------------------------------------------------------
(* Events of the network processor, in the spawn task, which has priority  *)
(* over all the others.                                                    *)

IpAcquired ==
  /\ cause # "WDT"
  /\ at["ConfNet"] = "spin"
  /\ IF netState = "TRY_AP" THEN netState' = "IDLE" /\ Go("ConfNet", "done")
                            ELSE UNCHANGED netState /\ Go("ConfNet", "call")
  /\ UNCHANGED <<lock, signals, access, link, synced, dog, cause>>

(* A station loses its connection, or gets it back.  *)
LinkChanges ==
  /\ access
  /\ link' = ~link
  /\ UNCHANGED <<at, lock, signals, netState, access, synced, dog, cause>>

-----------------------------------------------------------------------------
(* vSyncTime_NTP and vMQTTTask: a call of the network processor with the   *)
(* lock held.                                                              *)
Call(t) ==
  /\ MayRun(t) /\ at[t] = "own" /\ t # "ConfNet"
  /\ Go(t, "call")
  /\ UNCHANGED <<lock, signals, netVars, synced, dog, cause>>

(* Fault: the task that waits for the time is told of an attempt. *)
SyncReturnsAnyway(ok) ==
  /\ at["Sync Device Time"] = "call"
  /\ Go("Sync Device Time", IF ok THEN "good" ELSE "done")
  /\ signals' = signals \cup {"TimeUpdate"}
  /\ UNCHANGED <<lock, netVars, synced, dog, cause>>

SyncReturns(ok) ==
  /\ at["Sync Device Time"] = "call"
  /\ Go("Sync Device Time", IF ok THEN "good" ELSE "done")
  /\ UNCHANGED <<lock, signals, netVars, synced, dog, cause>>

TimeUpdate ==
  /\ MayRun("Sync Device Time") /\ at["Sync Device Time"] = "tell"
  /\ synced' = TRUE
  /\ signals' = signals \cup {"TimeUpdate"}
  /\ Go("Sync Device Time", "asleep")
  /\ UNCHANGED <<lock, netVars, dog, cause>>

(* After a failure vMQTTTask sleeps, up to a minute, with the lock held.   *)
MqttReturns(ok) ==
  /\ at["MQTTTask"] = "call"
  /\ Go("MQTTTask", IF ok THEN "done" ELSE "nap")
  /\ UNCHANGED <<lock, signals, netVars, synced, dog, cause>>

MqttReboots == at["MQTTTask"] = "call" /\ RebootNode

-----------------------------------------------------------------------------
(* The tasks without the lock. *)

Work(t) ==
  /\ MayRun(t)
  /\ at[t] = "ready"
  /\ Go(t, "asleep")
  /\ UNCHANGED <<lock, signals, netVars, synced, dog, cause>>

(* A third reading in a row that fails reboots the node: any reading may,  *)
(* Pms does not say which.                                                 *)
GatherReboots == MayRun("DataGatherTask") /\ at["DataGatherTask"] = "ready" /\ RebootNode

Blink ==
  /\ MayRun("Blinky")
  /\ at["Blinky"] = "ready"
  /\ dog' = 0
  /\ Go("Blinky", "asleep")
  /\ UNCHANGED <<lock, signals, netVars, synced, cause>>

(* The watchdog is not acknowledged for a period; after the second it      *)
(* resets the processor.                                                   *)
Watchdog ==
  /\ TimePasses
  /\ at["Blinky"] = "ready"
  /\ IF dog = 0 THEN dog' = 1 /\ UNCHANGED <<at, lock, signals, netVars, synced, cause>>
                ELSE Restart("WDT")

-----------------------------------------------------------------------------
CallReturns ==
  \/ \E ok \in BOOLEAN : StationReturns(ok) \/ SyncReturns(ok) \/ MqttReturns(ok)
  \/ AccessPointReturns
  \/ ErrorLoop
  \/ MqttReboots

Turn(t) ==
  \/ t \in Lockers /\ (Lock(t) \/ Unlock(t) \/ Call(t))
  \/ t = "ConfNet" /\ (IdleTurn \/ Wlan_Connect)
  \/ t = "MQTTTask" /\ NotOnline
  \/ t = "Sync Device Time" /\ TimeUpdate
  \/ t \in Workers /\ Work(t)
  \/ t = "DataGatherTask" /\ GatherReboots
  \/ t = "Blinky" /\ Blink

NodeNext ==
  \/ \E t \in Tasks : Wake(t) \/ SyncObjTaken(t) \/ Turn(t)
  \/ CallReturns
  \/ IpAcquired \/ LinkChanges
  \/ Watchdog \/ CleanBoot

(* The task that may run does, a call returns, and the watchdog counts; a  *)
(* sleep ends, of which the two named matter.  Nothing says that an        *)
(* address is ever acquired.                                               *)
NodeFairness ==
  /\ WF_taskVars(\E t \in Tasks : Turn(t))
  /\ WF_taskVars(CallReturns)
  /\ WF_taskVars(Watchdog)
  /\ SF_taskVars(Wake("MQTTTask"))
  /\ SF_taskVars(Wake("Blinky"))

NodeSpec == NodeInit /\ [][NodeNext]_taskVars /\ NodeFairness

-----------------------------------------------------------------------------
(***************************************************************************)
(* Properties.                                                             *)
(***************************************************************************)

(* Every variable of the scheduler holds a value of its range.  *)
NodeTypeOK ==
  /\ at \in [Tasks -> Runnable \cup {"asleep", "nap", "lock", "call", "waitNet", "waitTime"}]
  /\ lock \in Lockers \cup {"free"}
  /\ signals \subseteq {"ConnectedNTP", "ConnectedPublish", "ConnectedMQTT", "TimeUpdate"}
  /\ netState \in {"IDLE", "TRY_STA", "TRY_AP"}
  /\ access \in BOOLEAN /\ link \in BOOLEAN /\ synced \in BOOLEAN
  /\ dog \in 0 .. 1
  /\ cause \in {"HIB", "WDT"}

(* The network manager spins for an address, or in ERROR_LOOP, above every *)
(* task but the spawn task.  It does not do so for ever: if nothing comes, *)
(* nobody feeds the watchdog.                                              *)
SpinEnds == at["ConfNet"] \in Spins ~> at["ConfNet"] \notin Spins

(* Whoever waits for the network lock gets it, or the node restarts: the   *)
(* others sleep between two turns, and what they do with the lock comes to *)
(* an end.  That holds for the least of the three, the clock, only if the  *)
(* network manager settles: while it is asked for one attempt after the    *)
(* other, it and vMQTTTask may pass the lock between them.                 *)
LockIsGranted ==
  /\ \A t \in {"ConfNet", "MQTTTask"} : at[t] \in {"lock", "retry"} ~> at[t] \notin {"lock", "retry"}
  /\ <>[](netState = "IDLE") =>
       at["Sync Device Time"] \in {"lock", "retry"} ~> at["Sync Device Time"] \notin {"lock", "retry"}

(* The certificate of the broker can be checked only with the time set:    *)
(* vMQTTTask is past its two waits only when it is.                        *)
ClockBeforeTLS == at["MQTTTask"] \notin {"waitNet", "waitTime"} => synced
=============================================================================
