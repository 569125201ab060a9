---------------------------- MODULE MCUmbMaster ----------------------------
(* A station with a wind and a temperature channel, and one with only the   *)
(* temperature.                                                             *)
EXTENDS UmbMaster

MCStations == {<<"WIND", "TEMPERATURE">>, <<NoChannel, "TEMPERATURE">>}
=============================================================================
