------------------------------ MODULE SerialTx ------------------------------
(***************************************************************************)
(* The transmitting half of the serial driver, src/system/src/drivers/      *)
(* serial.c, for one srl_context_t: srl_start_tx and srl_send_data in the   *)
(* main loop, the TXE half of the USART interrupt, srl_keep_tx_delay in     *)
(* SysTick, and the USART itself (a data register in front of a shift       *)
(* register).  The bytes are counted, not told apart.                       *)
(*                                                                          *)
(* CR1 is changed with |= and &=, a load and a store: the interrupt can     *)
(* come between the two and the main loop then writes back what it read.    *)
(* The start functions take less time than one byte on the line.            *)
(***************************************************************************)
EXTENDS Integers, FiniteSets

CONSTANTS
  BufLn,      \* length of the transmit buffers
  Lengths,    \* for each port, the lengths its clients pass
  DelayTicks  \* SRL_TX_DELAY_IN_MS in SysTick periods

(* The KISS port receives while it transmits, starts at once and passes on  *)
(* the -1 of a frame that did not fit its buffer.  The RS-485 port does one *)
(* or the other and may delay its transmissions.                            *)
Ports == {"kiss", "rs485"}

ASSUME TxConstants ==
  /\ BufLn \in Nat /\ BufLn > 1 /\ BufLn < 2^15
  /\ Lengths \in [Ports -> SUBSET (-1 .. BufLn)] /\ -1 \notin Lengths["rs485"]
  /\ DelayTicks \in Nat \ {0}

Off == DelayTicks + 1   \* the magic 0xFFFFFFFF of srl_tx_start_time

VARIABLES
  port,       \* the port of this context
  txState,    \* srl_tx_state
  counter,    \* srl_tx_bytes_counter
  req,        \* srl_tx_bytes_req
  age,        \* master_time - srl_tx_start_time in ticks, or Off
  cr1,        \* the transmitter's bits of CR1 that are set
  drFull,     \* the data register holds a byte: TXE is clear
  shifting,   \* a byte is on the line
  tc,         \* the TC flag
  pin,        \* te_pin: the RS-485 driver is on
  sent,       \* bytes of this transmission that left the shift register
  mpc,        \* where the main loop is in a start function
  saved,      \* the CR1 it has read
  ipc,        \* the interrupt is idle or polls TC
  cut         \* history: a frame was asked for again when its delay had just ended

hw   == <<drFull, shifting, tc, sent>>
vars == <<port, txState, counter, req, age, cr1, hw, pin, mpc, saved, ipc, cut>>

Init ==
  /\ port \in Ports
  /\ txState = "NOT_CONFIG" /\ counter = 0 /\ req = 0  /\ age = Off
  /\ cr1 = {} /\ drFull = FALSE /\ shifting = FALSE /\ tc = FALSE /\ pin = FALSE /\ sent = 0
  /\ mpc = "idle" /\ saved = {} /\ ipc = "idle" /\ cut = FALSE

TXE == ~drFull
IrqPending == (TXE /\ "TXEIE" \in cr1) \/ (tc /\ "TCIE" \in cr1)
MainRuns   == ipc = "idle" /\ ~IrqPending

(* A byte written to the data register goes on to an empty shift register   *)
(* and clears TC.                                                           *)
WriteDr == drFull' = shifting /\ shifting' = TRUE /\ tc' = FALSE

----------------------------------------------------------------------------
(* The main loop *)

(* Opened and closed by clients that have nothing left to send: the call in *)
(* rtu_serial_pool returns early, since reception is idle from the last     *)
(* srl_init until the request is out.                                       *)
SrlInit ==
  /\ MainRuns /\ mpc = "idle" /\ txState \in {"NOT_CONFIG", "IDLE"}
  /\ txState' = "IDLE" /\ age' = Off /\ tc' = FALSE
  /\ cr1' = cr1 \ {"TE"}
  /\ UNCHANGED <<port, counter, req, drFull, shifting, sent, pin, mpc, saved, ipc, cut>>

SrlClose ==
  /\ MainRuns /\ mpc = "idle" /\ txState = "IDLE"
  /\ txState' = "NOT_CONFIG" /\ pin' = FALSE
  /\ cr1' = {} /\ drFull' = FALSE /\ shifting' = FALSE /\ tc' = FALSE
  /\ UNCHANGED <<port, counter, req, age, sent, mpc, saved, ipc, cut>>

(* srl_switch_tx_delay: the start time becomes 0, which is long ago, also   *)
(* for a transmission that waits.  No client turns the delay off then.      *)
SrlSwitchTxDelay(on) ==
  /\ port = "rs485" /\ (on \/ txState # "WAITING")
  /\ MainRuns /\ mpc = "idle"
  /\ age' = IF on THEN DelayTicks ELSE Off
  /\ UNCHANGED <<port, txState, counter, req, cr1, hw, pin, mpc, saved, ipc, cut>>

(* The first byte goes out and the transmission is on; the two interrupts   *)
(* are enabled next.  Nothing looks at the fields before the state says     *)
(* SRL_TXING.  The last byte of a transmission that was cut short may still *)
(* be on the line and is not counted for this one.                          *)
FirstByte ==
  /\ counter' = 1 /\ txState' = "TXING"
  /\ sent' = (IF shifting THEN -1 ELSE 0) /\ WriteDr

StoredLength(leng) == leng % 2^16

Callable(leng) == MainRuns /\ mpc = "idle" /\ txState \in {"IDLE", "WAITING"} /\ leng < BufLn

(* srl_start_tx.  A short is compared with a uint16_t and stored in one: a  *)
(* negative length passes and becomes 2^16 - 1.  Of a port that is idle     *)
(* SysTick wants nothing: it may as well come before the function.          *)
SrlStartTx(leng) ==
  /\ Callable(leng)
  /\ req' = StoredLength(leng)
  /\ \/ /\ txState = "IDLE" /\ age = Off
        /\ FirstByte /\ cr1' = cr1 \cup {"TE"} /\ mpc' = "readTXEIE" /\ cut' = FALSE
     \/ /\ txState = "IDLE" /\ age # Off
        /\ txState' = "WAITING" /\ mpc' = "stamp" /\ cut' = FALSE
        /\ UNCHANGED <<counter, cr1, hw>>
     \/ /\ txState = "WAITING" /\ mpc' = "again"
        /\ UNCHANGED <<txState, counter, cr1, hw, cut>>
  /\ UNCHANGED <<port, age, pin, saved, ipc>>

(* A frame that waits is asked for again: SysTick may have begun it between *)
(* the test of the state and its store, and is cut short by the store.      *)
WaitAgain ==
  /\ MainRuns /\ mpc = "again"
  /\ txState' = "WAITING" /\ mpc' = "stamp" /\ cut' = (cut \/ txState = "TXING")
  /\ UNCHANGED <<port, counter, req, age, cr1, hw, pin, saved, ipc>>

(* The pre-transmission delay counts from here, one store after the state.  *)
StoreStartTime ==
  /\ MainRuns /\ mpc = "stamp"
  /\ age' = 0 /\ mpc' = "idle"
  /\ UNCHANGED <<port, txState, counter, req, cr1, hw, pin, saved, ipc, cut>>

(* srl_send_data from a copy of the data.  It ignores the delay; only the   *)
(* Davis client calls it, on the KISS port, which has none.  (No client     *)
(* sends from a buffer of its own, internal_external = 1.)                  *)
SrlSendData(leng) ==
  /\ port = "kiss" /\ leng >= 0 /\ Callable(leng)
  /\ req' = leng
  /\ FirstByte /\ cr1' = cr1 \cup {"TE"} /\ mpc' = "readTXEIE" /\ cut' = FALSE
  /\ UNCHANGED <<port, age, pin, saved, ipc>>

ReadCr1 ==
  /\ MainRuns
  /\ \/ mpc = "readTXEIE" /\ mpc' = "writeTXEIE"
     \/ mpc = "readTCIE" /\ mpc' = "writeTCIE"
  /\ saved' = cr1
  /\ UNCHANGED <<port, txState, counter, req, age, cr1, hw, pin, ipc, cut>>

WriteTXEIE ==
  /\ MainRuns /\ mpc = "writeTXEIE"
  /\ cr1' = saved \cup {"TXEIE"}
  \* the interrupt may be taken before or after the next load of CR1
  /\ \/ mpc' = "readTCIE" /\ UNCHANGED saved
     \/ mpc' = "writeTCIE" /\ saved' = cr1'
  /\ UNCHANGED <<port, txState, counter, req, age, hw, pin, ipc, cut>>

WriteTCIE ==
  /\ MainRuns /\ mpc = "writeTCIE"
  /\ cr1' = saved \cup {"TCIE"} /\ mpc' = "idle"
  /\ UNCHANGED <<port, txState, counter, req, age, hw, pin, saved, ipc, cut>>

----------------------------------------------------------------------------
(* SysTick: srl_keep_tx_delay *)
Older(a) == IF a >= DelayTicks THEN a ELSE a + 1

(* mutant: the transmission is started without its interrupts *)
SysTickStartsSilently ==
  /\ age' = Older(age)
  /\ \/ /\ txState = "WAITING" /\ age' = DelayTicks
        /\ FirstByte /\ cr1' = cr1 \cup {"TE"}
     \/ /\ ~(txState = "WAITING" /\ age' = DelayTicks)
        /\ UNCHANGED <<txState, counter, cr1, hw>>
  /\ UNCHANGED <<port, req, pin, mpc, saved, ipc, cut>>

SysTick ==
  /\ age' = Older(age)
  /\ \/ /\ txState = "WAITING" /\ age' = DelayTicks
        /\ FirstByte /\ cr1' = cr1 \cup {"TE", "TXEIE", "TCIE"}
     \/ /\ ~(txState = "WAITING" /\ age' = DelayTicks)
        /\ UNCHANGED <<txState, counter, cr1, hw>>
  /\ UNCHANGED <<port, req, pin, mpc, saved, ipc, cut>>

----------------------------------------------------------------------------
(* The line: a byte leaves the shift register. *)
ShiftDone ==
  /\ shifting /\ (mpc = "idle" \/ ipc = "poll")
  /\ sent' = sent + 1
  /\ shifting' = drFull /\ drFull' = FALSE /\ tc' = (tc \/ ~drFull)
  /\ UNCHANGED <<port, txState, counter, req, age, cr1, pin, mpc, saved, ipc, cut>>

----------------------------------------------------------------------------
(* The TXE half of srl_irq_handler.  It also runs when the interrupt is one *)
(* of the receiver.                                                         *)
Entered == ipc = "idle" /\ TXE /\ txState = "TXING" /\ (IrqPending \/ port = "kiss")

(* mutant: the byte after the last one of the buffer is sent too *)
PastBufferByOne(c) == c > BufLn
PastBuffer(c) == c >= BufLn \/ req >= BufLn

IrqSendByte ==
  /\ Entered /\ counter < req
  /\ counter' = counter + 1
  /\ IF PastBuffer(counter + 1)
     THEN \* the transmitter is turned off: the byte on the line is its last
          /\ cr1' = {} /\ txState' = "IDLE" /\ pin' = FALSE
          /\ drFull' = FALSE /\ shifting' = TRUE /\ tc' = FALSE
     ELSE WriteDr /\ pin' = TRUE /\ UNCHANGED <<cr1, txState>>
  /\ UNCHANGED <<port, req, age, sent, mpc, saved, ipc, cut>>

(* mutant: the transmission ends without the poll of TC *)
IrqEndsAtOnce ==
  /\ Entered /\ counter >= req
  /\ txState' = "IDLE" /\ pin' = FALSE /\ cr1' = {} /\ tc' = FALSE
  /\ UNCHANGED <<port, counter, req, age, drFull, shifting, sent, ipc, mpc, saved, cut>>

IrqPollTc ==
  /\ Entered /\ counter >= req
  /\ ipc' = "poll"
  /\ UNCHANGED <<port, txState, counter, req, age, cr1, hw, pin, mpc, saved, cut>>

(* mutant: TXEIE stays enabled *)
IrqFinishKeepsTXEIE ==
  /\ ipc = "poll" /\ tc
  /\ ipc' = "idle" /\ txState' = "IDLE" /\ pin' = FALSE
  /\ cr1' = cr1 \ {"TE", "TCIE"} /\ tc' = FALSE
  /\ UNCHANGED <<port, counter, req, age, drFull, shifting, sent, mpc, saved, cut>>

IrqFinish ==
  /\ ipc = "poll" /\ tc
  /\ ipc' = "idle" /\ txState' = "IDLE" /\ pin' = FALSE
  /\ cr1' = {} /\ tc' = FALSE
  /\ UNCHANGED <<port, counter, req, age, drFull, shifting, sent, mpc, saved, cut>>

Starting == WaitAgain \/ StoreStartTime \/ ReadCr1 \/ WriteTXEIE \/ WriteTCIE
Irq      == IrqSendByte \/ IrqPollTc \/ IrqFinish

Next ==
  \/ SrlInit \/ SrlClose
  \/ \E on \in BOOLEAN : SrlSwitchTxDelay(on)
  \/ \E leng \in Lengths[port] : SrlStartTx(leng) \/ SrlSendData(leng)
  \/ Starting \/ SysTick \/ ShiftDone \/ Irq

Spec == Init /\ [][Next]_vars

Fairness == WF_vars(SysTick) /\ WF_vars(ShiftDone) /\ WF_vars(Irq) /\ WF_vars(Starting)

FairSpec == Spec /\ Fairness
=============================================================================
