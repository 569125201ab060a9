------------------------------- MODULE MCDigi -------------------------------
(* Two digipeaters, of which both hear everything or miss it, and a tracker *)
(* that sends a frame of one kind.                                          *)
EXTENDS Digi

CONSTANTS D1, D2, T

TrackerFrame(id, tracker, long, known, path) ==
  [src |-> T, id |-> id, tracker |-> tracker, long |-> long, known |-> known,
   path |-> path, info |-> id, torn |-> FALSE]

Far   == TrackerFrame(1, TRUE, FALSE, TRUE, <<"WIDE1-1", "WIDE2-2">>)
Other == TrackerFrame(2, FALSE, FALSE, FALSE, <<"WIDE1-1">>)
Near  == TrackerFrame(3, TRUE, FALSE, FALSE, <<"WIDE1-1", "WIDE2-1">>)
Long  == TrackerFrame(4, TRUE, TRUE, TRUE, <<"WIDE1-1">>)

MCTraffic == {{Far}, {Other}, {Near}, {Long}}

MCOwnPath == <<"WIDE1-1">>

MCConfigs == {[d \in {D1, D2} |-> IF d = D1 THEN "ON_ALL" ELSE m] :
                m \in {"ON_ALL", "ON_SSID", "VISCOUS_ALL"}}
=============================================================================
