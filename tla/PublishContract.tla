--------------------------- MODULE PublishContract ---------------------------
(***************************************************************************)
(* What the MQTT client promises to the task that publishes: a call of     *)
(* MQTTPublish that reports success was taken in by the broker.  The call  *)
(* may fail at any time, and a message whose call failed may still arrive. *)
(* The specification says nothing of sockets, packet identifiers or        *)
(* acknowledgements; MqttSession implements it.                            *)
(***************************************************************************)
CONSTANTS Msgs,  \* the messages the device may publish
          NoMsg  \* no call has been made yet

VARIABLE call    \* the latest call: its message, whether the broker took the
                 \* message in, and what the call has returned

ReturnCodes == {"none", "pending", "ok", "fail"}

(* The types of the contract. *)
TypeOK == call \in [msg : Msgs \cup {NoMsg}, reached : BOOLEAN, rc : ReturnCodes]

Init == call = [msg |-> NoMsg, reached |-> FALSE, rc |-> "none"]

(* A new call starts once the previous one has returned.  A message that   *)
(* cannot be sent fails in the same step.                                  *)
Call(m) ==
  /\ call.rc # "pending"
  /\ \E r \in {"pending", "fail"} :
        call' = [msg |-> m, reached |-> FALSE, rc |-> r]

(* The broker takes the message of the latest call in, late or not. *)
Reach ==
  /\ call.rc # "none"
  /\ call' = [call EXCEPT !.reached = TRUE]

Succeed ==
  /\ call.rc = "pending"
  /\ call.reached
  /\ call' = [call EXCEPT !.rc = "ok"]

Fail ==
  /\ call.rc = "pending"
  /\ call' = [call EXCEPT !.rc = "fail"]

Next == \/ \E m \in Msgs : Call(m)
        \/ Reach
        \/ Succeed
        \/ Fail

Spec == Init /\ [][Next]_call
=============================================================================
