---------------------------- MODULE SerialRxProps ----------------------------
(***************************************************************************)
(* What the receiving half of the serial driver promises, and what its     *)
(* comments say of it.                                                     *)
(***************************************************************************)
EXTENDS SerialRx

(* Every field keeps its type. *)
TypeOK ==
  /\ protocol \in Protocols
  /\ rxState \in RxStates /\ errReason \in ErrReasons
  /\ counter \in Nat /\ req \in Nat /\ lenAddr \in Nat /\ lenMod \in Nat
  /\ startTrigger \in Byte /\ stopTrigger \in Byte
  /\ term \in BOOLEAN /\ calcStarted \in BOOLEAN
  /\ toEnable \in BOOLEAN /\ waitEnable \in BOOLEAN
  /\ rxAge \in 0 .. Expired /\ waitAge \in 0 .. Expired
  /\ re \in BOOLEAN /\ rxie \in BOOLEAN
  /\ dr \in Byte \cup {NoByte} /\ flags \in SUBSET {"ORE", "IDLE"}
  /\ mpc \in MainPcs /\ mreq \in protocol
  /\ ipc \in {"idle", "rxing", "waiting", "clear"} /\ ticked \in BOOLEAN

(* No byte is stored outside the receive buffer and the number of bytes     *)
(* reported to the client never exceeds it, wherever the interrupts fall in *)
(* an arming function and whatever lengths the frames announce.             *)
BufferNeverOverrun ==
  /\ (ipc = "rxing" /\ counter < req) => counter < BufLn
  /\ ipc = "waiting" => counter < BufLn
  /\ counter <= BufLn

(* What the client sees of a reception: nothing while it is being armed,    *)
(* and while the interrupt takes a byte what it saw before.                 *)
Seen ==
  IF mpc # "idle" THEN "ARMING"
  ELSE IF ipc \in {"rxing", "clear"} THEN "RXING"
  ELSE IF ipc = "waiting" THEN "WAITING_TO_RX" ELSE rxState

(* The driver implements the promise of Reception: a reception runs from    *)
(* its arming to SRL_RX_DONE or SRL_RX_ERROR and stays there; a completed   *)
(* frame is the client's until it arms again or closes or reopens the port, *)
(* and neither an interrupt nor a timeout changes the state or the byte     *)
(* count under the parser that works on the buffer.  (Only the variant with *)
(* an instant timeout may turn a completed frame into an error: it starts   *)
(* the timeout after the state is set.)                                     *)
R == INSTANCE Reception WITH
       Size <- BufLn, phase <- Seen, count <- counter, instant <- (mreq.kind = "instant")

ImplementsReception == R!Spec

(* A port on which a timeout may run while a reception waits for its start  *)
(* byte, such as the one KISS and UMB share.                                *)
TimedStart ==
  \E r \in protocol :
    /\ r.kind # "callback" /\ Triggered(r)
    /\ r.kind = "instant" \/ \E s \in protocol : s.waits

(* An armed reception that hears nothing: the receiver or its interrupt is  *)
(* off, so no byte will ever move it on.                                    *)
Deaf == mpc = "idle" /\ rxState \in {"WAITING_TO_RX", "RXING"} /\ ~(re /\ rxie)

(* A reception, waiting or in progress, listens to the line, on every port  *)
(* and whatever the interrupts interleave with the arming; it comes to be   *)
(* deaf in one way only: SysTick preempts the USART interrupt that has      *)
(* already chosen its branch for the start byte, the timeout ends the       *)
(* reception and turns the receiver off, and the interrupt then stores      *)
(* SRL_RXING all the same (serial.c:612-628).                               *)
ReceivingMeansListening ==
  [][Deaf' /\ ~Deaf => ipc = "waiting" /\ ticked /\ rxState = "ERROR" /\ TimedStart]_vars

(* A reception in progress that one of the two timeouts guards comes to an  *)
(* end, however the bytes arrive or stop arriving, unless its client        *)
(* switches the timeout off, or the one for the first byte before any       *)
(* further byte has come.                                                   *)
Guarded == toEnable /\ (calcStarted \/ waitEnable)

ReceptionEnds ==
  \A c \in 0 .. BufLn :
    (rxState = "RXING" /\ mpc = "idle" /\ ipc = "idle" /\ Guarded /\ counter = c)
      ~> (rxState # "RXING" \/ ~toEnable \/ (counter = c /\ ~Guarded))
=============================================================================
