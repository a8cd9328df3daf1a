---------------------------- MODULE MCMqttSession ----------------------------
(* Values for TLC.  With identifiers 1 and 2 getNextPacketId wraps within  *)
(* one session, and an initial next_packetid of 3 to 5 passes the equality *)
(* test of the wrap by.                                                    *)
EXTENDS MqttSession

CONSTANTS m1, m2, c1

MCMsgs == {m1, m2}
MCOneMsg == {m1}
MCCmds == {c1}
MCOversized == {m2}
=============================================================================
