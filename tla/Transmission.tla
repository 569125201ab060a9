---------------------------- MODULE Transmission ----------------------------
(***************************************************************************)
(* What the transmitting half of the serial driver promises its clients: a  *)
(* transmission that was asked for puts its bytes on the line, one after    *)
(* the other and none too many, is over when the last one is out, and not   *)
(* before; the RS-485 driver is on only while it goes on, and nothing is on *)
(* the line while none goes on.                                             *)
(***************************************************************************)
EXTENDS Integers

CONSTANT Size   \* the length of the transmit buffer

VARIABLES
  phase,    \* what the client sees of the transmission
  length,   \* how many bytes it has asked for
  broken,   \* the frame was asked for again too late and is broken off
  out,      \* how many of them are out
  driving   \* the RS-485 driver is on

view == <<phase, length, broken, out, driving>>

(* A length that does not fit the buffer, and a frame that is broken off,   *)
(* are promised nothing but an end.                                         *)
Fits == length \in 1 .. Size - 1 /\ ~broken

Init == phase = "NOT_CONFIG" /\ length = 0 /\ broken = FALSE /\ out = 0 /\ ~driving

Open ==
  /\ phase \in {"NOT_CONFIG", "IDLE"} /\ phase' = "IDLE"
  /\ UNCHANGED <<length, broken, out, driving>>

Close ==
  /\ phase = "IDLE" /\ phase' = "NOT_CONFIG"
  /\ UNCHANGED <<length, broken, out, driving>>

(* At once, or after the delay of the port.  The last byte of a             *)
(* transmission that was cut short may still be on the line; it is counted  *)
(* before the first one.                                                    *)
Send ==
  /\ phase = "IDLE" /\ length' \in Nat /\ broken' = FALSE
  /\ \/ phase' = "TXING" /\ (out' = 0 \/ (~Fits /\ out' = -1))
     \/ phase' = "WAITING" /\ UNCHANGED out
  /\ UNCHANGED driving

(* Another frame is asked for instead of the one that waits.                *)
SendInstead ==
  /\ phase = "WAITING" /\ length' \in Nat
  /\ UNCHANGED <<phase, broken, out, driving>>

(* It is asked for when the one that waited has just begun, or is over.     *)
SendTooLate ==
  /\ phase \in {"TXING", "IDLE"} /\ phase' = "WAITING"
  /\ broken' = (broken \/ phase = "TXING")
  /\ UNCHANGED <<length, out, driving>>

Begin ==
  /\ phase = "WAITING" /\ phase' = "TXING" /\ (out' = 0 \/ (~Fits /\ out' = -1))
  /\ UNCHANGED <<length, broken, driving>>

DriverOn ==
  /\ phase = "TXING" /\ driving' = TRUE
  /\ UNCHANGED <<phase, length, broken, out>>

ByteOut ==
  /\ Fits => phase = "TXING" /\ out < length
  /\ out' = out + 1
  /\ UNCHANGED <<phase, length, broken, driving>>

End ==
  /\ phase = "TXING" /\ (Fits => out = length)
  /\ phase' = "IDLE" /\ driving' = FALSE
  /\ UNCHANGED <<length, broken, out>>

Next == Open \/ Close \/ Send \/ SendInstead \/ SendTooLate \/ Begin \/ DriverOn \/ ByteOut \/ End

Spec == Init /\ [][Next]_view
=============================================================================
