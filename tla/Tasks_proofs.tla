----------------------------- MODULE Tasks_proofs -----------------------------
(***************************************************************************)
(* Proofs about the tasks of main.c.  About their flags (MqttTask): for    *)
(* any set of commands, and any number of data points.  About the          *)
(* scheduler, the network lock and the watchdog (NodeTasks): whatever      *)
(* tasks there are beside the named ones, and whatever their turns and the *)
(* network processor do.                                                   *)
(***************************************************************************)
EXTENDS MqttTask, NodeTasks, TLAPS

-----------------------------------------------------------------------------
(* The flags. *)


(* The flag that asks for a reboot is the work of a command heard since    *)
(* the node started.                                                       *)
Asked == reboot => heard \cap Rebooting # {}

TaskInv == TypeOK /\ Asked

Payloads == [sample : 0 .. MaxSample, part : {"empty", "half", "text", "whole"}]

LEMMA EmptyPayload == [sample |-> 0, part |-> "empty"] \in Payloads
BY TaskAssumption DEF Payloads

-------------------------------------------------------------------------------
LEMMA InitInv == Init => TaskInv
<1> SUFFICES ASSUME Init PROVE TaskInv
  OBVIOUS
<1>1. reboot = FALSE /\ session = FALSE /\ cycle = TRUE
  BY DEF Init
<1>2. reboot \in BOOLEAN /\ session \in BOOLEAN /\ cycle \in BOOLEAN
  BY <1>1, Zenon
<1>3. {payload, copied} \subseteq Payloads
  BY EmptyPayload DEF Init
<1>4. TypeOK
  BY <1>2, <1>3 DEF Init, TypeOK, Payloads, Flags, Calls
<1>5. Asked
  BY <1>1 DEF Asked
<1> QED
  BY <1>4, <1>5 DEF TaskInv

(* A step of vPushDataPointTask asks for nothing, and hears nothing. *)
LEMMA PushInv == ASSUME TaskInv, Push PROVE TaskInv'
<1>1. reboot' = reboot /\ session' = session /\ cycle' = cycle /\ heard' = heard
  BY DEF Push, ClearPayload, PrintPayload, LoadFlag, StoreFlag, mqttTask
<1>2. text' = text /\ op' = op /\ copied' = copied
  BY DEF Push, ClearPayload, PrintPayload, LoadFlag, StoreFlag, mqttTask
<1>3. reboot' \in BOOLEAN /\ session' \in BOOLEAN /\ cycle' \in BOOLEAN
  BY <1>1, Zenon DEF TaskInv, TypeOK
<1>4. payload' \in Payloads
  <2>1. payload \in Payloads
    BY DEF TaskInv, TypeOK, Payloads
  <2>2. CASE ClearPayload
    BY <2>1, <2>2, TaskAssumption DEF ClearPayload, Payloads
  <2>3. CASE PrintPayload
    BY <2>1, <2>3 DEF PrintPayload, Payloads
  <2>4. CASE LoadFlag \/ StoreFlag
    BY <2>1, <2>4 DEF LoadFlag, StoreFlag
  <2> QED
    BY <2>2, <2>3, <2>4 DEF Push
<1>5. flag' \subseteq Flags /\ reg' \subseteq Flags /\ push' \in {"sleep", "print", "load", "store"}
  BY DEF TaskInv, TypeOK, Push, ClearPayload, PrintPayload, LoadFlag, StoreFlag, Flags
<1>6. TypeOK'
  BY <1>1, <1>2, <1>3, <1>4, <1>5 DEF TaskInv, TypeOK, Payloads
<1>7. Asked'
  BY <1>1 DEF TaskInv, Asked
<1> QED
  BY <1>6, <1>7 DEF TaskInv

(* Nor does the beginning or the end of a call. *)
LEMMA CallInv ==
  ASSUME TaskInv, Begin \/ \E ok \in BOOLEAN : Return(ok)
  PROVE  TaskInv'
<1>1. reboot' = reboot /\ heard' = heard /\ text' = text
  BY DEF Begin, Subscribe, PublishPoint, PublishDebug, Yield, Return, Subscribed, PointReturns,
         DebugReturns, YieldReturns
<1>2. payload' = payload /\ push' = push /\ reg' = reg
  BY DEF Begin, Subscribe, PublishPoint, PublishDebug, Yield, Return, Subscribed, PointReturns,
         DebugReturns, YieldReturns, pushTask
<1>3. session' \in BOOLEAN /\ cycle' \in BOOLEAN
  BY Zenon DEF Begin, Subscribe, PublishPoint, PublishDebug, Yield, Return, Subscribed,
         PointReturns, DebugReturns, YieldReturns, TaskInv, TypeOK
<1>4. reboot' \in BOOLEAN
  BY <1>1, Zenon DEF TaskInv, TypeOK
<1>5. flag' \subseteq Flags /\ op' \in Calls
  BY DEF Begin, Subscribe, PublishPoint, PublishDebug, Yield, Return, Subscribed, PointReturns,
         DebugReturns, YieldReturns, TaskInv, TypeOK, Calls
<1>6. copied' \in Payloads
  BY DEF Begin, Subscribe, PublishPoint, PublishDebug, Yield, Return, Subscribed, PointReturns,
         DebugReturns, YieldReturns, TaskInv, TypeOK, Payloads
<1>7. TypeOK'
  BY <1>1, <1>2, <1>3, <1>4, <1>5, <1>6 DEF TaskInv, TypeOK, Payloads
<1>8. Asked'
  BY <1>1 DEF TaskInv, Asked
<1> QED
  BY <1>7, <1>8 DEF TaskInv

(* A reboot takes the request with it. *)
LEMMA RebootInv == ASSUME TaskInv, RebootMCU PROVE TaskInv'
<1>1. reboot' = FALSE /\ session' = FALSE /\ cycle' = TRUE
  BY DEF RebootMCU
<1>2. reboot' \in BOOLEAN /\ session' \in BOOLEAN /\ cycle' \in BOOLEAN
  BY <1>1, Zenon
<1>3. {payload', copied'} \subseteq Payloads
  BY EmptyPayload DEF RebootMCU
<1>4. TypeOK'
  BY <1>2, <1>3 DEF RebootMCU, TypeOK, Payloads, Flags, Calls
<1>5. Asked'
  BY <1>1 DEF Asked
<1> QED
  BY <1>4, <1>5 DEF TaskInv

(* messageArrived is where a reboot is asked for. *)
LEMMA ArrivedInv == ASSUME TaskInv, NEW c \in Cmds, messageArrived(c) PROVE TaskInv'
<1>1. /\ payload' = payload /\ push' = push /\ reg' = reg
      /\ session' = session /\ cycle' = cycle /\ op' = op /\ copied' = copied
  BY DEF messageArrived, pushTask, mqttTask
<1>2. reboot' = (reboot \/ c \in Rebooting) /\ heard' = heard \cup {c}
  BY DEF messageArrived, MQTT_PUB_ACK
<1>3. reboot' \in BOOLEAN /\ session' \in BOOLEAN /\ cycle' \in BOOLEAN
  BY <1>1, <1>2, Zenon DEF TaskInv, TypeOK
<1>4. flag' \subseteq Flags /\ text' \in Answered \cup {NoText} /\ heard' \subseteq Cmds
  BY DEF messageArrived, MQTT_PUB_ACK, TaskInv, TypeOK, Flags
<1>5. TypeOK'
  BY <1>1, <1>3, <1>4 DEF TaskInv, TypeOK
<1>6. Asked'
  BY <1>2 DEF TaskInv, Asked
<1> QED
  BY <1>5, <1>6 DEF TaskInv

LEMMA NextInv == TaskInv /\ [Next]_vars => TaskInv'
<1> SUFFICES ASSUME TaskInv, [Next]_vars PROVE TaskInv'
  OBVIOUS
<1>1. CASE Push
  BY <1>1, PushInv
<1>2. CASE Begin \/ \E ok \in BOOLEAN : Return(ok)
  BY <1>2, CallInv
<1>3. CASE RebootMCU
  BY <1>3, RebootInv
<1>4. CASE \E c \in Cmds : messageArrived(c)
  BY <1>4, ArrivedInv
<1>5. CASE UNCHANGED vars
  BY <1>5 DEF vars, pushTask, mqttTask, TaskInv, TypeOK, Asked
<1> QED
  BY <1>1, <1>2, <1>3, <1>4, <1>5 DEF Next

LEMMA Invariance == Spec => []TaskInv
<1> QED
  BY InitInv, NextInv, PTL DEF Spec

-------------------------------------------------------------------------------
(* vMQTTTask and vPushDataPointTask keep every variable in its range.  *)
THEOREM TaskTypeCorrect == Spec => []TypeOK
<1>1. TaskInv => TypeOK
  BY DEF TaskInv
<1> QED
  BY <1>1, Invariance, PTL

(* The node reboots only when a command of this boot has asked for it,     *)
(* whichever commands there are.                                           *)
THEOREM RebootOnlyIfAsked == Spec => RebootWasAsked
<1>1. TaskInv => [(reboot /\ ~reboot') => heard \cap Rebooting # {}]_vars
  BY DEF TaskInv, Asked
<1> QED
  BY <1>1, Invariance, PTL DEF RebootWasAsked

-----------------------------------------------------------------------------
(* The scheduler, the network lock and the watchdog. *)


(* The time is set before anybody is told that it is, and vMQTTTask goes   *)
(* on only when it is told.                                                *)
TimeIsTold == "TimeUpdate" \in signals => synced

NodeInv == NodeTypeOK /\ TimeIsTold /\ ClockBeforeTLS

-------------------------------------------------------------------------------
(* Where a task may be. *)
Places == Runnable \cup {"asleep", "nap", "lock", "call", "waitNet", "waitTime"}

LEMMA StartedType ==
  /\ Started \in [Tasks -> Places]
  /\ Started["MQTTTask"] = "waitNet"
BY DEF Started, Tasks, Lockers, Places, Runnable, Spins

LEMMA NodeInitInv == NodeInit => NodeInv
<1> SUFFICES ASSUME NodeInit PROVE NodeInv
  OBVIOUS
<1>1. at \in [Tasks -> Places] /\ at["MQTTTask"] = "waitNet"
  BY StartedType DEF NodeInit
<1>2. /\ access = FALSE /\ link = FALSE /\ synced = FALSE /\ signals = {} /\ dog = 0
      /\ lock = "free" /\ netState = "IDLE" /\ cause = "HIB"
  BY DEF NodeInit
<1>3. access \in BOOLEAN /\ link \in BOOLEAN /\ synced \in BOOLEAN
  BY <1>2, Zenon
<1>4. lock \in Lockers \cup {"free"} /\ signals \subseteq {"ConnectedNTP", "ConnectedPublish", "ConnectedMQTT", "TimeUpdate"}
  BY <1>2
<1>5. netState \in {"IDLE", "TRY_STA", "TRY_AP"} /\ dog \in 0 .. 1 /\ cause \in {"HIB", "WDT"}
  BY <1>2
<1>6. NodeTypeOK
  BY <1>1, <1>3, <1>4, <1>5, Zenon DEF NodeTypeOK, Places
<1>7. TimeIsTold /\ ClockBeforeTLS
  BY <1>1, <1>2 DEF TimeIsTold, ClockBeforeTLS
<1> QED
  BY <1>6, <1>7 DEF NodeInv

(* Moving one task changes the place of no other. *)
LEMMA GoType ==
  ASSUME NodeTypeOK, NEW t, NEW w \in Places, Go(t, w)
  PROVE  /\ at' \in [Tasks -> Places]
         /\ t # "MQTTTask" => at'["MQTTTask"] = at["MQTTTask"]
         /\ t \in Tasks => at'[t] = w
<1>1. at \in [Tasks -> Places] /\ at' = [at EXCEPT ![t] = w]
  BY DEF NodeTypeOK, Go, Places
<1>2. "MQTTTask" \in Tasks
  BY DEF Tasks, Lockers
<1> QED
  BY <1>1, <1>2

LEMMA RestartInv == ASSUME NEW c \in {"HIB", "WDT"}, Restart(c) PROVE NodeInv'
<1>1. at' \in [Tasks -> Places] /\ at'["MQTTTask"] = "waitNet"
  BY StartedType DEF Restart
<1>2. /\ access' = FALSE /\ link' = FALSE /\ synced' = FALSE /\ signals' = {} /\ dog' = 0
      /\ lock' = "free" /\ netState' = "IDLE" /\ cause' = c
  BY DEF Restart
<1>3. access' \in BOOLEAN /\ link' \in BOOLEAN /\ synced' \in BOOLEAN
  BY <1>2, Zenon
<1>4. lock' \in Lockers \cup {"free"} /\ signals' \subseteq {"ConnectedNTP", "ConnectedPublish", "ConnectedMQTT", "TimeUpdate"}
  BY <1>2
<1>5. netState' \in {"IDLE", "TRY_STA", "TRY_AP"} /\ dog' \in 0 .. 1 /\ cause' \in {"HIB", "WDT"}
  BY <1>2
<1>6. NodeTypeOK'
  BY <1>1, <1>3, <1>4, <1>5, Zenon DEF NodeTypeOK, Places
<1>7. TimeIsTold' /\ ClockBeforeTLS'
  BY <1>1, <1>2 DEF TimeIsTold, ClockBeforeTLS
<1> QED
  BY <1>6, <1>7 DEF NodeInv

-------------------------------------------------------------------------------
(* A step that moves one task that is past its waits, or another than      *)
(* vMQTTTask, and tells nobody the time.                                   *)
LEMMA MoveInv ==
  ASSUME NodeInv, NEW t \in Tasks, NEW w \in Places, Go(t, w),
         t = "MQTTTask" => at[t] \notin {"waitNet", "waitTime"},
         signals' \subseteq signals \cup {"ConnectedNTP", "ConnectedPublish", "ConnectedMQTT"},
         lock' \in Lockers \cup {"free"}, netState' \in {"IDLE", "TRY_STA", "TRY_AP"},
         access' \in BOOLEAN, link' \in BOOLEAN, UNCHANGED synced,
         dog' \in 0 .. 1, cause' \in {"HIB", "WDT"}
  PROVE  NodeInv'
<1>1. at' \in [Tasks -> Places]
  BY GoType DEF NodeInv
<1>2. t # "MQTTTask" => at'["MQTTTask"] = at["MQTTTask"]
  BY GoType DEF NodeInv
<1>3. NodeTypeOK'
  BY <1>1 DEF NodeInv, NodeTypeOK, Places
<1>4. TimeIsTold'
  BY DEF NodeInv, TimeIsTold
<1>5. ClockBeforeTLS'
  BY <1>2 DEF NodeInv, ClockBeforeTLS
<1> QED
  BY <1>3, <1>4, <1>5 DEF NodeInv

LEMMA WakeInv == ASSUME NodeInv, NEW t \in Tasks, Wake(t) PROVE NodeInv'
<1>1. PICK w \in {"ready", "done"} : Go(t, w) /\ at[t] \in {"asleep", "nap"}
  BY DEF Wake
<1>2. w \in Places
  BY DEF Places, Runnable
<1> QED
  BY <1>1, <1>2, MoveInv DEF Wake, netVars, NodeInv, NodeTypeOK

(* osi_SyncObjWait: the one step that ends the waits of vMQTTTask.  *)
LEMMA SyncObjTakenInv == ASSUME NodeInv, NEW t \in Tasks, SyncObjTaken(t) PROVE NodeInv'
<1> DEFINE w == CASE t = "MQTTTask" /\ at[t] = "waitNet" -> "waitTime"
                  [] t = "Sync Device Time" -> "ready"
                  [] OTHER -> "asleep"
<1>1. w \in {"waitTime", "ready", "asleep"} /\ Go(t, w)
  BY DEF SyncObjTaken
<1>2. w \in Places
  BY <1>1 DEF Places, Runnable
<1>3. /\ at' \in [Tasks -> Places]
      /\ t # "MQTTTask" => at'["MQTTTask"] = at["MQTTTask"]
      /\ at'[t] = w
  <2> HIDE DEF w
  <2> QED BY <1>1, <1>2, GoType DEF NodeInv
<1>4. NodeTypeOK'
  BY <1>3 DEF SyncObjTaken, NodeInv, NodeTypeOK, netVars, Places
<1>5. TimeIsTold'
  BY DEF SyncObjTaken, NodeInv, TimeIsTold
<1>6. ClockBeforeTLS'
  <2>1. CASE t = "MQTTTask" /\ at[t] = "waitTime"
    BY <2>1 DEF SyncObjTaken, SyncObj, NodeInv, TimeIsTold, ClockBeforeTLS
  <2>2. CASE t = "MQTTTask" /\ at[t] = "waitNet"
    BY <2>2, <1>3 DEF ClockBeforeTLS
  <2>3. CASE t # "MQTTTask"
    BY <2>3, <1>3 DEF SyncObjTaken, NodeInv, ClockBeforeTLS
  <2> QED
    BY <2>1, <2>2, <2>3 DEF SyncObjTaken
<1> QED
  BY <1>4, <1>5, <1>6 DEF NodeInv

LEMMA ReleaseInv ==
  ASSUME NodeInv, NEW t \in Lockers, NEW rest \in {"asleep", "ready", "tell"}, Release(t, rest)
  PROVE  NodeInv'
<1> DEFINE first == {u \in Lockers : at[u] = "lock" /\ \A v \in {x \in Lockers : at[x] = "lock"} : Priority(v) <= Priority(u)}
<1>1. at' = [u \in Tasks |-> IF u = t THEN rest ELSE IF u \in first THEN "retry" ELSE at[u]]
  BY DEF Release
<1>2. at[t] \in Runnable
  BY DEF Release, MayRun
<1>3. \A u \in first : at[u] = "lock"
  OBVIOUS
<1> HIDE DEF first
<1>4. at' \in [Tasks -> Places]
  BY <1>1 DEF NodeInv, NodeTypeOK, Places, Runnable
<1>5. at["MQTTTask"] \in {"waitNet", "waitTime"} => at'["MQTTTask"] = at["MQTTTask"]
  BY <1>1, <1>2, <1>3 DEF Runnable, Spins, Tasks, Lockers
<1>6. NodeTypeOK'
  BY <1>4 DEF Release, NodeInv, NodeTypeOK, netVars, Places
<1>7. TimeIsTold' /\ ClockBeforeTLS'
  BY <1>5 DEF Release, NodeInv, TimeIsTold, ClockBeforeTLS
<1> QED
  BY <1>6, <1>7 DEF NodeInv
-------------------------------------------------------------------------------
LEMMA TurnInv == ASSUME NodeInv, NEW t \in Tasks, Turn(t) PROVE NodeInv'
<1> USE DEF netVars
<1>1. CASE t \in Lockers /\ Lock(t)
  <2>1. at[t] \in {"retry", "ready"} /\ lock' \in {lock, t} /\ (Go(t, "own") \/ Go(t, "lock"))
    BY <1>1 DEF Lock
  <2>2. "own" \in Places /\ "lock" \in Places
    BY DEF Places, Runnable
  <2>3. UNCHANGED <<signals, netState, access, link, synced, dog, cause>>
    BY <1>1 DEF Lock
  <2>4. lock' \in Lockers \cup {"free"}
    BY <1>1, <2>1 DEF NodeInv, NodeTypeOK
  <2> QED
    BY <2>1, <2>2, <2>3, <2>4, MoveInv DEF NodeInv, NodeTypeOK
<1>2. CASE t \in Lockers /\ Unlock(t)
  BY <1>2, ReleaseInv DEF Unlock
<1>3. CASE t \in Lockers /\ Call(t)
  <2>1. "call" \in Places
    BY DEF Places
  <2> QED
    BY <1>3, <2>1, MoveInv DEF Call, NodeInv, NodeTypeOK
<1>4. CASE t = "ConfNet" /\ IdleTurn
  <2>1. PICK w \in {"done", "hurry"} : Go("ConfNet", w)
    BY <1>4 DEF IdleTurn
  <2>2. w \in Places
    BY DEF Places, Runnable
  <2>3. netState' \in {"IDLE", "TRY_STA", "TRY_AP"}
    BY <1>4 DEF IdleTurn, NodeInv, NodeTypeOK
  <2> QED
    BY <1>4, <2>1, <2>2, <2>3, MoveInv DEF IdleTurn, NodeInv, NodeTypeOK
<1>5. CASE t = "ConfNet" /\ Wlan_Connect
  <2>1. PICK w \in {"call", "spin"} : Go("ConfNet", w)
    BY <1>5 DEF Wlan_Connect
  <2>2. w \in Places
    BY DEF Places, Runnable, Spins
  <2> QED
    BY <1>5, <2>1, <2>2, MoveInv DEF Wlan_Connect, NodeInv, NodeTypeOK
<1>6. CASE t = "MQTTTask" /\ NotOnline
  <2>1. "asleep" \in Places
    BY DEF Places
  <2> QED
    BY <1>6, <2>1, MoveInv DEF NotOnline, NodeInv, NodeTypeOK
<1>7. CASE t = "Sync Device Time" /\ TimeUpdate
  <2>1. "asleep" \in Places
    BY DEF Places
  <2>2. Go(t, "asleep")
    BY <1>7 DEF TimeUpdate
  <2>3. at' \in [Tasks -> Places]
    BY <2>1, <2>2, GoType DEF NodeInv
  <2> QED
    BY <1>7, <2>3 DEF TimeUpdate, NodeInv, NodeTypeOK, TimeIsTold, ClockBeforeTLS, Places
<1>8. CASE t \in Workers /\ Work(t)
  <2>1. "asleep" \in Places
    BY DEF Places
  <2> QED
    BY <1>8, <2>1, MoveInv DEF Work, NodeInv, NodeTypeOK
<1>9. CASE t = "DataGatherTask" /\ GatherReboots
  BY <1>9, RestartInv DEF GatherReboots, RebootNode
<1>10. CASE t = "Blinky" /\ Blink
  <2>1. "asleep" \in Places
    BY DEF Places
  <2> QED
    BY <1>10, <2>1, MoveInv DEF Blink, NodeInv, NodeTypeOK
<1> QED
  BY <1>1, <1>2, <1>3, <1>4, <1>5, <1>6, <1>7, <1>8, <1>9, <1>10 DEF Turn

LEMMA CallReturnsInv == ASSUME NodeInv, CallReturns PROVE NodeInv'
<1> USE DEF netVars
<1>0. {"ConfNet", "MQTTTask", "Sync Device Time"} \subseteq Tasks
  BY DEF Tasks, Lockers
<1>1. ASSUME NEW ok \in BOOLEAN, StationReturns(ok) PROVE NodeInv'
  <2>1. PICK w \in {"done", "hurry"} : Go("ConfNet", w)
    BY <1>1 DEF StationReturns
  <2>2. w \in Places
    BY DEF Places, Runnable
  <2>3. netState' \in {"IDLE", "TRY_STA", "TRY_AP"} /\ access' \in BOOLEAN /\ link' \in BOOLEAN
    BY <1>1 DEF StationReturns
  <2>4. signals' \subseteq signals \cup {"ConnectedNTP", "ConnectedPublish", "ConnectedMQTT"}
    BY <1>1 DEF StationReturns
  <2> QED
    BY <1>0, <1>1, <2>1, <2>2, <2>3, <2>4, MoveInv DEF StationReturns, NodeInv, NodeTypeOK
<1>2. ASSUME NEW ok \in BOOLEAN, SyncReturns(ok) PROVE NodeInv'
  <2>1. PICK w \in {"good", "done"} : Go("Sync Device Time", w)
    BY <1>2 DEF SyncReturns
  <2>2. w \in Places
    BY DEF Places, Runnable
  <2> QED
    BY <1>0, <1>2, <2>1, <2>2, MoveInv DEF SyncReturns, NodeInv, NodeTypeOK
<1>3. ASSUME NEW ok \in BOOLEAN, MqttReturns(ok) PROVE NodeInv'
  <2>1. PICK w \in {"nap", "done"} : Go("MQTTTask", w)
    BY <1>3 DEF MqttReturns
  <2>2. w \in Places
    BY DEF Places, Runnable
  <2> QED
    BY <1>0, <1>3, <2>1, <2>2, MoveInv DEF MqttReturns, NodeInv, NodeTypeOK
<1>4. CASE AccessPointReturns
  <2>1. PICK w \in {"spin", "done"} : Go("ConfNet", w)
    BY <1>4 DEF AccessPointReturns, Go
  <2>2. w \in Places
    BY DEF Places, Runnable, Spins
  <2> QED
    BY <1>0, <1>4, <2>1, <2>2, MoveInv DEF AccessPointReturns, NodeInv, NodeTypeOK
<1>5. CASE ErrorLoop
  <2>1. "errorLoop" \in Places
    BY DEF Places, Runnable, Spins
  <2> QED
    BY <1>0, <1>5, <2>1, MoveInv DEF ErrorLoop, NodeInv, NodeTypeOK
<1>6. CASE MqttReboots
  BY <1>6, RestartInv DEF MqttReboots, RebootNode
<1> QED
  BY <1>1, <1>2, <1>3, <1>4, <1>5, <1>6 DEF CallReturns

LEMMA NodeNextInv == NodeInv /\ [NodeNext]_taskVars => NodeInv'
<1> SUFFICES ASSUME NodeInv, [NodeNext]_taskVars PROVE NodeInv'
  OBVIOUS
<1>1. ASSUME NEW t \in Tasks, Wake(t) \/ SyncObjTaken(t) \/ Turn(t) PROVE NodeInv'
  BY <1>1, WakeInv, SyncObjTakenInv, TurnInv
<1>2. CASE CallReturns
  BY <1>2, CallReturnsInv
<1>3. CASE IpAcquired
  <2>1. PICK w \in {"done", "call"} : Go("ConfNet", w)
    BY <1>3 DEF IpAcquired
  <2>2. w \in Places /\ "ConfNet" \in Tasks
    BY DEF Places, Runnable, Tasks, Lockers
  <2>3. netState' \in {"IDLE", "TRY_STA", "TRY_AP"}
    BY <1>3 DEF IpAcquired, NodeInv, NodeTypeOK
  <2> QED
    BY <1>3, <2>1, <2>2, <2>3, MoveInv DEF IpAcquired, NodeInv, NodeTypeOK
<1>4. CASE LinkChanges
  BY <1>4 DEF LinkChanges, NodeInv, NodeTypeOK, TimeIsTold, ClockBeforeTLS
<1>5. CASE Watchdog
  <2>1. CASE dog = 0
    <3>1. dog' = 1 /\ UNCHANGED <<at, lock, signals, netVars, synced, cause>>
      BY <1>5, <2>1 DEF Watchdog
    <3> QED
      BY <3>1 DEF NodeInv, NodeTypeOK, TimeIsTold, ClockBeforeTLS, netVars
  <2>2. CASE dog # 0
    BY <1>5, <2>2, RestartInv DEF Watchdog
  <2> QED
    BY <2>1, <2>2
<1>6. CASE CleanBoot
  BY <1>6, RestartInv DEF CleanBoot, RebootNode
<1>7. CASE UNCHANGED taskVars
  BY <1>7 DEF taskVars, netVars, NodeInv, NodeTypeOK, TimeIsTold, ClockBeforeTLS
<1> QED
  BY <1>1, <1>2, <1>3, <1>4, <1>5, <1>6, <1>7 DEF NodeNext

LEMMA NodeInvariance == NodeSpec => []NodeInv
BY NodeInitInv, NodeNextInv, PTL DEF NodeSpec

(* main.c: the tasks, the lock and the signals are always in order,        *)
(* whatever other tasks main() creates.                                    *)
THEOREM NodeTypeCorrect == NodeSpec => []NodeTypeOK
<1>1. NodeInv => NodeTypeOK
  BY DEF NodeInv
<1> QED
  BY <1>1, NodeInvariance, PTL

(* vMQTTTask opens no TLS connection before the time is set, however often *)
(* synchronisations fail and the node restarts.                            *)
THEOREM TimeBeforeTLS == NodeSpec => []ClockBeforeTLS
<1>1. NodeInv => ClockBeforeTLS
  BY DEF NodeInv
<1> QED
  BY <1>1, NodeInvariance, PTL
===============================================================================
