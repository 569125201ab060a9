----------------------------- MODULE Reception ------------------------------
(***************************************************************************)
(* What the receiving half of the serial driver promises its clients: a     *)
(* reception they arm waits, takes bytes one at a time, as many as its      *)
(* buffer has room for, and is done or fails; it then stays so, with as     *)
(* many bytes, until they arm another one or open or close the port.        *)
(***************************************************************************)
EXTENDS Naturals

CONSTANT Size   \* the length of the receive buffer

VARIABLES
  phase,     \* what the client sees of the reception
  count,     \* how many bytes it has taken
  instant    \* its timeout runs from the start, whatever comes of it

view == <<phase, count, instant>>

Init == phase = "NOT_CONFIG" /\ count = 0 /\ instant \in BOOLEAN

Open ==
  /\ phase \in {"NOT_CONFIG", "DONE", "ERROR"} /\ phase' = "IDLE"
  /\ UNCHANGED <<count, instant>>

Close ==
  /\ phase # "ARMING" /\ phase' = "NOT_CONFIG"
  /\ UNCHANGED <<count, instant>>

Arm ==
  /\ phase \in {"IDLE", "WAITING_TO_RX", "DONE", "ERROR"} /\ phase' = "ARMING"
  /\ count' \in {count, 0} /\ instant' \in BOOLEAN

(* Within the call that arms the reception the interrupts may do their part *)
(* already; the client sees what has come of it when the call returns.      *)
Arming ==
  /\ phase = "ARMING" /\ count' \in 0 .. Size
  /\ phase' \in {"ARMING", "WAITING_TO_RX", "RXING", "DONE", "ERROR"}
  /\ UNCHANGED instant

Takes ==
  /\ phase \in {"WAITING_TO_RX", "RXING"} /\ count < Size /\ count' = count + 1
  /\ phase' \in {"RXING", "DONE", "ERROR"}
  /\ UNCHANGED instant

Ends ==
  /\ phase = "RXING" /\ phase' = "DONE"
  /\ UNCHANGED <<count, instant>>

TimesOut ==
  /\ phase \in {"WAITING_TO_RX", "RXING"} \/ (phase = "DONE" /\ instant)
  /\ phase' = "ERROR"
  /\ UNCHANGED <<count, instant>>

Next == Open \/ Close \/ Arm \/ Arming \/ Takes \/ Ends \/ TimesOut

Spec == Init /\ [][Next]_view
=============================================================================
