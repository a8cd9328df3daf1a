----------------------------- MODULE MCNetConfig -----------------------------
(* Values for TLC: two networks, and a table they fill.  *)
EXTENDS NetConfig

CONSTANTS home, office

MCSSIDs == {home, office}
=============================================================================
