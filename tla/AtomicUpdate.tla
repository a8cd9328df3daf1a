----------------------------- MODULE AtomicUpdate -----------------------------
(***************************************************************************)
(* What OTA_UpdateAppBin promises ("Downloads and updates application      *)
(* binary", "Success [0] or Failure [<0]"): the program that boots next    *)
(* changes in one step, to the program asked for, exactly when the update  *)
(* reports success.  The node may lose power at any time.                  *)
(***************************************************************************)
CONSTANT Versions  \* programs the server has

VARIABLES boots,   \* the program that would boot now
          asked,   \* the program the latest update is to install
          rc       \* what the latest update has returned

vars == <<boots, asked, rc>>

Init == boots \in Versions /\ asked = boots /\ rc = "none"

Ask(v) == rc # "busy" /\ asked' = v /\ rc' = "busy" /\ UNCHANGED boots

Install == rc = "busy" /\ rc' = "success" /\ boots' = asked /\ UNCHANGED asked

Fail == rc = "busy" /\ rc' = "fail" /\ UNCHANGED <<boots, asked>>

Restart == rc' = "none" /\ asked' = boots /\ UNCHANGED boots

Next == (\E v \in Versions : Ask(v)) \/ Install \/ Fail \/ Restart

Spec == Init /\ [][Next]_vars
=============================================================================
