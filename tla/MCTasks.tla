------------------------------- MODULE MCTasks -------------------------------
(***************************************************************************)
(* The tasks of main.c in one run, seen twice: their flags (MqttTask), and *)
(* the scheduler, the network lock and the watchdog (NodeTasks).  The two  *)
(* views share no state; a behaviour is one of one of them, while nothing  *)
(* of the other is enabled.                                                *)
(***************************************************************************)
EXTENDS MCMqttTask, NodeTasks

FlagsOff == op = "off" /\ push = "off" /\ flag = {} /\ reboot = FALSE /\ text = NoText
            /\ payload = [sample |-> 0, part |-> "empty"] /\ reg = {} /\ session = FALSE
            /\ cycle = FALSE /\ copied = payload /\ heard = {}

SchedulerOff == at = [t \in Tasks |-> "off"] /\ lock = "free" /\ signals = {} /\ netState = "IDLE"
                /\ access = FALSE /\ link = FALSE /\ synced = TRUE /\ dog = 0 /\ cause = "HIB"

TasksInit == (Init /\ SchedulerOff) \/ (NodeInit /\ FlagsOff)

TasksNext == (Next /\ UNCHANGED taskVars) \/ (NodeNext /\ UNCHANGED vars)

TasksSpec == TasksInit /\ [][TasksNext]_<<vars, taskVars>> /\ Fairness /\ NodeFairness
=============================================================================
