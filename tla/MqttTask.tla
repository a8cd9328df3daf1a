------------------------------- MODULE MqttTask -------------------------------
(***************************************************************************)
(* The flags through which vPushDataPointTask and messageArrived ask       *)
(* vMQTTTask to publish or to reboot (main.c, MQTTClient.c).               *)
(*                                                                         *)
(* vMQTTTask has the higher priority: a step of it lasts until it blocks   *)
(* in a call ("op"), and may come between any two of the memory accesses   *)
(* of vPushDataPointTask, which are therefore steps of their own ("push"). *)
(* messageArrived runs inside a call of vMQTTTask.  What becomes of a call *)
(* is the subject of MqttSession; here it succeeds or fails.               *)
(***************************************************************************)
EXTENDS Integers

CONSTANTS
  Cmds,       \* messages that may arrive: a word, and what follows it
  NoText,     \* dbg_payload cleared, or holding a text that is not published
  MaxSample   \* bound: data points taken in one boot

ASSUME TaskAssumption ==
  /\ NoText \notin Cmds
  /\ MaxSample \in Nat

VARIABLES
  flag,       \* the publish flags, bits of one char
  reboot,     \* bRebootFlag
  text,       \* dbg_payload: the command it answers
  payload,    \* the data point: its number and how much of it is written
  push, reg,  \* vPushDataPointTask: its next step, the flags it has loaded
  op,         \* the call vMQTTTask is blocked in
  session,    \* ~ucMQTTReconnectRequest
  cycle,      \* bPubCycle
  copied,     \* the data point as MQTTPublish copied it last (history)
  heard       \* commands messageArrived was called with in this boot (history)

pushTask == <<push, reg, payload>>
mqttTask == <<op, session, cycle, copied>>
vars == <<flag, reboot, text, heard, pushTask, mqttTask>>

Flags == {"DATAPOINT", "DEBUG"}

Calls == {"sleep", "subscribe", "point", "debug", "yield"}

Init ==
  /\ flag = {}
  /\ reboot = FALSE
  /\ text = NoText
  /\ payload = [sample |-> 0, part |-> "empty"]
  /\ push = "sleep"
  /\ reg = {}
  /\ op = "sleep"
  /\ session = FALSE
  /\ cycle = TRUE
  /\ copied = payload
  /\ heard = {}

-----------------------------------------------------------------------------
(* vPushDataPointTask: memset, sprintf, payloadlen, and setMQTTPubFlag as  *)
(* a load and a store.                                                     *)

ClearPayload ==
  /\ push = "sleep"
  /\ payload.sample < MaxSample
  /\ payload' = [sample |-> payload.sample + 1, part |-> "empty"]
  /\ push' = "print"
  /\ UNCHANGED <<flag, reboot, text, heard, reg, mqttTask>>

(* sprintf may be interrupted half-way; payloadlen is computed last. *)
PrintPayload ==
  /\ push = "print"
  /\ \/ payload.part = "empty" /\ payload' = [payload EXCEPT !.part = "half"] /\ UNCHANGED push
     \/ payload.part = "half" /\ payload' = [payload EXCEPT !.part = "text"] /\ UNCHANGED push
     \/ payload.part = "text" /\ payload' = [payload EXCEPT !.part = "whole"] /\ push' = "load"
  /\ UNCHANGED <<flag, reboot, text, heard, reg, mqttTask>>

LoadFlag ==
  /\ push = "load"
  /\ reg' = flag
  /\ push' = "store"
  /\ UNCHANGED <<flag, reboot, text, heard, payload, mqttTask>>

(* Fault: the flag is assigned instead of or-ed, which drops DEBUG. *)
StoreOnlyPoint ==
  /\ push = "store"
  /\ flag' = {"DATAPOINT"}
  /\ push' = "sleep"
  /\ reg' = {}
  /\ UNCHANGED <<reboot, text, heard, payload, mqttTask>>

StoreFlag ==
  /\ push = "store"
  /\ flag' = reg \cup {"DATAPOINT"}
  /\ push' = "sleep"
  /\ reg' = {}
  /\ UNCHANGED <<reboot, text, heard, payload, mqttTask>>

-----------------------------------------------------------------------------
(* What a command asks for.  These words are answered, whatever follows.   *)
AnsweredWords == {"ip", "mics", "dnl", "del", "ping", "reboot", "ack"}

(* "ota" is answered when there is a program to try, "rmp" when there is a *)
(* profile to delete: neither "rmp", "rmp -r" nor "rmp all".               *)
Attempts == {<<"ota", "installed">>, <<"ota", "failed">>, <<"rmp", "stored">>, <<"rmp", "stored -r">>}

(* "led", "rm" and what is no command leave dbg_payload as it is, or fill  *)
(* it in and do not ask to publish it.                                     *)
Answered == {c \in Cmds : c[1] \in AnsweredWords \/ c \in Attempts}

Rebooting == Cmds \cap {<<"reboot", "">>, <<"ota", "installed">>, <<"rmp", "stored -r">>}

(* Fault: text that follows "reboot" is not looked at. *)
MQTT_PUB_ACKHasty(c) ==
  /\ text' = IF c \in Answered THEN c ELSE NoText
  /\ flag' = IF c \in Answered THEN flag \cup {"DEBUG"} ELSE flag
  /\ reboot' = (reboot \/ c[1] = "reboot")

(* Only an answered command sets DEBUG; the flag is not stored to by any   *)
(* other task in between.                                                  *)
MQTT_PUB_ACK(c) ==
  /\ text' = IF c \in Answered THEN c ELSE NoText
  /\ flag' = IF c \in Answered THEN flag \cup {"DEBUG"} ELSE flag
  /\ reboot' = (reboot \/ c \in Rebooting)

(* messageArrived: every message clears dbg_payload, the handler fills it  *)
(* in, and what it holds is an answer only if it is to be published.       *)
messageArrived(c) ==
  /\ op \in Calls \ {"sleep"}
  /\ heard' = heard \cup {c}
  /\ MQTT_PUB_ACK(c)
  /\ UNCHANGED <<pushTask, mqttTask>>

-----------------------------------------------------------------------------
(* The turn of vMQTTTask. *)

Subscribe ==
  /\ op = "sleep" /\ ~session
  /\ op' = "subscribe"
  /\ UNCHANGED <<flag, reboot, text, heard, pushTask, session, cycle, copied>>

(* MQTTInitialize and MQTTSubscribeAll return. *)
Subscribed(ok) ==
  /\ op = "subscribe"
  /\ op' = "sleep"
  /\ session' = ok
  /\ UNCHANGED <<flag, reboot, text, heard, pushTask, cycle, copied>>

PublishTurn == op = "sleep" /\ session /\ cycle /\ flag # {}

(* MQTTPublish copies the payload before it blocks.  A data point goes     *)
(* first.                                                                  *)
PublishPoint ==
  /\ PublishTurn
  /\ "DATAPOINT" \in flag
  /\ op' = "point"
  /\ copied' = payload
  /\ cycle' = FALSE
  /\ UNCHANGED <<flag, reboot, text, heard, pushTask, session>>

PointReturns(ok) ==
  /\ op = "point"
  /\ op' = "sleep"
  /\ session' = ok
  /\ flag' = IF ok THEN flag \ {"DATAPOINT"} ELSE flag
  /\ UNCHANGED <<reboot, text, heard, pushTask, cycle, copied>>

PublishDebug ==
  /\ PublishTurn
  /\ "DATAPOINT" \notin flag
  /\ op' = "debug"
  /\ cycle' = FALSE
  /\ UNCHANGED <<flag, reboot, text, heard, pushTask, session, copied>>

(* Fault: the reboot flag is looked at only if the publish failed. *)
DebugReturnsHappily(ok) ==
  /\ op = "debug"
  /\ reboot => ok
  /\ op' = "sleep"
  /\ session' = ok
  /\ flag' = IF ok THEN flag \ {"DEBUG"} ELSE flag
  /\ UNCHANGED <<reboot, text, heard, pushTask, cycle, copied>>

DebugReturns(ok) ==
  /\ op = "debug"
  /\ ~reboot
  /\ op' = "sleep"
  /\ session' = ok
  /\ flag' = IF ok THEN flag \ {"DEBUG"} ELSE flag
  /\ UNCHANGED <<reboot, text, heard, pushTask, cycle, copied>>

(* Whether or not the acknowledgement was published, a requested reboot    *)
(* follows the attempt: RebootMCU, and main() starts again.                *)
RebootMCU ==
  /\ op = "debug"
  /\ reboot
  /\ flag' = {}
  /\ reboot' = FALSE
  /\ text' = NoText
  /\ payload' = [sample |-> 0, part |-> "empty"]
  /\ push' = "sleep"
  /\ reg' = {}
  /\ op' = "sleep"
  /\ session' = FALSE
  /\ cycle' = TRUE
  /\ copied' = payload'
  /\ heard' = {}

Yield ==
  /\ op = "sleep" /\ session
  /\ ~(cycle /\ flag # {})
  /\ op' = "yield"
  /\ cycle' = TRUE
  /\ UNCHANGED <<flag, reboot, text, heard, pushTask, session, copied>>

YieldReturns(ok) ==
  /\ op = "yield"
  /\ op' = "sleep"
  /\ session' = ok
  /\ UNCHANGED <<flag, reboot, text, heard, pushTask, cycle, copied>>

-----------------------------------------------------------------------------
Push == ClearPayload \/ PrintPayload \/ LoadFlag \/ StoreFlag

Begin == Subscribe \/ PublishPoint \/ PublishDebug \/ Yield

Return(ok) == Subscribed(ok) \/ PointReturns(ok) \/ DebugReturns(ok) \/ YieldReturns(ok)

Next == \/ Push
        \/ Begin
        \/ \E ok \in BOOLEAN : Return(ok)
        \/ RebootMCU
        \/ \E c \in Cmds : messageArrived(c)

Spec == Init /\ [][Next]_vars

(* Calls begin and return; those that publish or subscribe do not fail     *)
(* forever.                                                                *)
Fairness ==
  /\ WF_vars(Begin \/ RebootMCU \/ \E ok \in BOOLEAN : Return(ok))
  /\ SF_vars(Subscribed(TRUE))
  /\ SF_vars(PointReturns(TRUE))

FairSpec == Spec /\ Fairness

-----------------------------------------------------------------------------
(***************************************************************************)
(* Properties.                                                             *)
(***************************************************************************)

(* Every variable holds a value of the range the code gives it; dbg_payload *)
(* never keeps the text of a message that is not answered.                  *)
TypeOK ==
  /\ flag \subseteq Flags /\ reg \subseteq Flags
  /\ reboot \in BOOLEAN /\ session \in BOOLEAN /\ cycle \in BOOLEAN
  /\ text \in Answered \cup {NoText}
  /\ {payload, copied} \subseteq
       [sample : 0 .. MaxSample, part : {"empty", "half", "text", "whole"}]
  /\ push \in {"sleep", "print", "load", "store"}
  /\ op \in Calls
  /\ heard \subseteq Cmds

(* vMQTTTask reboots the node only if a command of this boot asked for it, *)
(* whatever flags outlive a call, a lost session or a race.  (The reboot   *)
(* of vDataGatherTask and that of the watchdog are in NodeTasks.)          *)
RebootWasAsked == [][(reboot /\ ~reboot') => heard \cap Rebooting # {}]_vars

(* The reboot flag is looked at after a debug message only.  A request     *)
(* made while vPushDataPointTask holds no copy of the flags is obeyed in   *)
(* the end, whether the publishing that comes first succeeds or fails.     *)
RebootObeyed == (reboot /\ "DEBUG" \in flag /\ push # "store") ~> ~reboot

(* main.c, vPushDataPointTask: "Signal that the datapoint payload is ready *)
(* to be published".  What MQTTPublish copies is a finished payload.       *)
ReadyWhenSignalled == op = "point" => copied.part = "whole"
=============================================================================
