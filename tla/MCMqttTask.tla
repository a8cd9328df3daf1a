------------------------------ MODULE MCMqttTask ------------------------------
(* Values for TLC: a command that is answered, one that reboots the node   *)
(* as well, the same followed by a word that forbids it, and one that      *)
(* only clears dbg_payload.                                                *)
EXTENDS MqttTask

MCCmds == {<<"ping", "">>, <<"reboot", "">>, <<"reboot", "later">>, <<"led", "on">>}
=============================================================================
