---------------------------- MODULE SerialTxProps ----------------------------
(***************************************************************************)
(* What the transmitting half of the serial driver promises.               *)
(***************************************************************************)
EXTENDS SerialTx

(* Every field keeps its type. *)
TypeOK ==
  /\ port \in Ports
  /\ txState \in {"NOT_CONFIG", "IDLE", "WAITING", "TXING"}
  /\ counter \in 0 .. BufLn + 1 /\ req \in 0 .. 2^16 - 1
  /\ age \in 0 .. Off /\ cut \in BOOLEAN
  /\ cr1 \in SUBSET {"TE", "TXEIE", "TCIE"} /\ saved \in SUBSET {"TE", "TXEIE", "TCIE"}
  /\ drFull \in BOOLEAN /\ shifting \in BOOLEAN /\ tc \in BOOLEAN /\ pin \in BOOLEAN
  /\ sent \in Nat \cup {-1}
  /\ mpc \in {"idle", "again", "stamp", "readTXEIE", "writeTXEIE", "readTCIE", "writeTCIE"}
  /\ ipc \in {"idle", "poll"}

(* The driver implements the promise of Transmission: the bytes that were   *)
(* asked for, no fewer and no more, are on the line when it reports         *)
(* SRL_TX_IDLE, the moment at which its clients turn to reception or        *)
(* overwrite the buffer; none leaves the shift register after that; and the *)
(* RS-485 driver is on at no other time, or the slave's reply would collide *)
(* with it.  (A length that does not fit the buffer is cut short, and so is *)
(* a frame that is asked for again in the moment in which its delay ends.)  *)
T == INSTANCE Transmission WITH
       Size <- BufLn, phase <- txState, length <- req, broken <- cut, out <- sent,
       driving <- pin

ImplementsTransmission == T!Spec

(* No byte is fetched from beyond the transmit buffer, whatever the length. *)
NeverPastBuffer == txState = "TXING" => counter < BufLn

(* A transmit interrupt that nothing serves is entered again for ever and  *)
(* the main loop does not run.                                              *)
Unserved == ipc = "idle" /\ IrqPending /\ txState # "TXING"

(* It comes to that in three cases only.  The first interrupt ends a frame  *)
(* of a single byte, as Davis sends, and may do so between the main loop's  *)
(* load of CR1 and its store of CR1 with TXEIE; a frame that does not fit   *)
(* the buffer is ended the same way with a byte on the line; and a frame    *)
(* that waits is asked for again when SysTick has just begun it.  No other  *)
(* frame leaves the interrupt enabled, wherever it falls.                   *)
InterruptIsServed ==
  [][Unserved' /\ ~Unserved =>
       \/ mpc \in {"writeTXEIE", "writeTCIE"} /\ txState = "IDLE" /\ req < 2
       \/ req >= BufLn
       \/ cut]_vars

(* A transmission comes to an end, unless it is asked for again for ever    *)
(* while it waits: the main loop polls for it without a timeout in          *)
(* srl_wait_for_tx_completion.                                              *)
TransmissionEnds ==
  []<>(mpc = "again") \/ (txState \in {"WAITING", "TXING"} ~> txState = "IDLE")
=============================================================================
