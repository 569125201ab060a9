---------------------------- MODULE MCWxSensors ----------------------------
(* Between two temperatures there is no jump, a jump, or an error.          *)
(* Stations with a Modbus slave and without are checked together: what      *)
(* either can be told in one round.                                         *)
EXTENDS WxSensors

MCTemps == {28, 38, 41}
MCRtu == {"FULL", "DEGRADED", "NAVB", NoSource}
=============================================================================
