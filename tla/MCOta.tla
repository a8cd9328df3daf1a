-------------------------------- MODULE MCOta --------------------------------
(* Values for TLC: two programs, so that an update may install another one *)
(* or the same one again.                                                  *)
EXTENDS Ota

CONSTANTS v1, v2

MCVersions == {v1, v2}
MCUnreported == {"unread", "status", "closing", "aborted", "unwritten", "repeat"}
MCStatus == {"status"}
=============================================================================
