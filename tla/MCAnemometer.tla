---------------------------- MODULE MCAnemometer ----------------------------
(* Three pulses to a batch; a wind whose batches fit into a period of the   *)
(* timer (interval 2) and one whose batches do not (interval 4).            *)
EXTENDS Anemometer
=============================================================================
