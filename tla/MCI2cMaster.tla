---------------------------- MODULE MCI2cMaster ----------------------------
(* The instance of I2cMaster that TLC checks: a command of one byte, the    *)
(* set-up of the humidity sensor, which has the only three or more bytes    *)
(* that are sent at once, and a measurement.                                *)
EXTENDS I2cMaster
=============================================================================
