------------------------------ MODULE SerialRx ------------------------------
(***************************************************************************)
(* The receiving half of the serial driver, src/system/src/drivers/serial.c *)
(* for one srl_context_t.  Three contexts touch it:                         *)
(*   - the main loop, which arms a reception (srl_receive_data and its two  *)
(*     variants), switches the timeouts, opens and closes the port;         *)
(*   - the USART interrupt (priority 9 or 10, it_handlers.c), which         *)
(*     preempts the main loop between any two of its stores;                *)
(*   - SysTick (priority 5), which preempts both every 10 ms and runs       *)
(*     srl_keep_timeout to its end.                                         *)
(* The arming functions are split at the stores the two interrupts read.    *)
(* The firmware is built with -Og, which keeps the stores in source order.  *)
(*                                                                          *)
(* Time: a stamp taken from master_time is represented by its age in ticks, *)
(* cut off at TimeoutTicks + 1, the first age at which the timeout has      *)
(* expired.                                                                 *)
(***************************************************************************)
EXTENDS Naturals

CONSTANTS
  BufLn,         \* srl_rx_buf_ln
  ByteMax,       \* the values of a received byte are 0 .. ByteMax
  Protocols,     \* for each use of a port, the receptions its client asks for
  TimeoutTicks   \* srl_rx_timeout_trigger_value_in_msec, in SysTick periods

Byte == 0 .. ByteMax

(* A reception the main loop asks for.  A start or stop byte of 0 means     *)
(* none, a lenAddr of 0 means that no byte of the frame holds its length.   *)
(* waits tells the clients that switch on the timeout for the first byte    *)
(* once the reception is armed (UMB, Modbus), duplex the client that arms   *)
(* a reception while it transmits (KISS).                                   *)
Request == [kind    : {"data", "instant", "callback"},
            num     : Nat,
            start   : Byte,
            stop    : Byte,
            lenAddr : Nat,
            lenMod  : Nat,
            waits   : BOOLEAN,
            duplex  : BOOLEAN]

ASSUME ConstantsAssumption ==
  /\ BufLn \in Nat /\ BufLn >= 2
  /\ ByteMax \in Nat
  /\ TimeoutTicks \in Nat /\ TimeoutTicks >= 1
  /\ Protocols \subseteq SUBSET Request /\ {} \notin Protocols

NoByte == ByteMax + 1      \* the data register holds nothing unread
Expired == TimeoutTicks + 1

VARIABLES
  protocol,      \* the use of this port, fixed at start by the configuration
  rxState,       \* srl_rx_state
  counter,       \* srl_rx_bytes_counter
  req,           \* srl_rx_bytes_req
  lenAddr,       \* srl_rx_lenght_param_addres
  lenMod,        \* srl_rx_lenght_param_modifier
  startTrigger,  \* srl_start_trigger
  stopTrigger,   \* srl_stop_trigger, 0 while srl_triggered_stop is 0
  term,          \* srl_rx_term is set
  calcStarted,   \* srl_rx_timeout_calc_started
  toEnable,      \* srl_rx_timeout_enable
  waitEnable,    \* srl_rx_timeout_waiting_enable
  rxAge,         \* master_time - srl_rx_start_time, in ticks
  waitAge,       \* master_time - srl_rx_waiting_start_time, in ticks
  errReason,     \* srl_rx_error_reason
  re,            \* USART_CR1_RE: the receiver is on
  rxie,          \* USART_CR1_RXNEIE: a received byte raises the interrupt
  dr,            \* the unread byte of the data register, or NoByte
  flags,         \* USART_SR_ORE and USART_SR_IDLE
  mpc,           \* where the main loop is in an arming function
  mreq,          \* the request it is arming, or armed last
  ipc,           \* where the USART interrupt is
  ticked         \* SysTick has preempted this activation of the interrupt

rxvars   == <<rxState, counter, req, lenAddr, lenMod, startTrigger, stopTrigger, term>>
timevars == <<calcStarted, toEnable, waitEnable, rxAge, waitAge, errReason>>
hwvars   == <<re, rxie, dr, flags>>
ctlvars  == <<protocol, mpc, mreq, ipc, ticked>>
vars     == <<rxvars, timevars, hwvars, ctlvars>>

RxStates   == {"NOT_CONFIG", "IDLE", "WAITING_TO_RX", "RXING", "DONE", "ERROR"}
ErrReasons == {"NONE", "TIMEOUT_WAITING", "TIMEOUT_RECEIVING", "OVERFLOW"}
MainPcs    == {"idle", "state", "wait", "counter", "length", "calc", "enable", "stamp"}

Init ==
  /\ protocol \in Protocols
  /\ rxState = "NOT_CONFIG" /\ counter = 0 /\ req = 0
  /\ lenAddr = 0 /\ lenMod = 0
  /\ startTrigger = 0 /\ stopTrigger = 0 /\ term = FALSE
  /\ calcStarted = FALSE /\ toEnable = FALSE /\ waitEnable = FALSE
  /\ rxAge = Expired /\ waitAge = Expired /\ errReason = "NONE"
  /\ re = FALSE /\ rxie = FALSE /\ dr = NoByte /\ flags = {}
  /\ mpc = "idle" /\ mreq \in protocol /\ ipc = "idle" /\ ticked = FALSE

(***************************************************************************)
(* The USART interrupt is pending when the handler would be entered again;  *)
(* while it is, or while it runs, the main loop makes no step.              *)
(***************************************************************************)
IrqPending == rxie /\ (dr # NoByte \/ "ORE" \in flags)
MainRuns   == ipc = "idle" /\ ~IrqPending

----------------------------------------------------------------------------
(* The main loop *)

(* srl_init returns at once from SRL_RX_IDLE; no caller reopens a port in   *)
(* the middle of a reception.  USART_Init with Mode_Rx leaves the receiver  *)
(* on, and does not touch RXNEIE.                                           *)
SrlInit ==
  /\ MainRuns /\ mpc = "idle" /\ rxState \in {"NOT_CONFIG", "DONE", "ERROR"}
  /\ rxState' = "IDLE" /\ errReason' = "NONE" /\ re' = TRUE
  /\ calcStarted' = FALSE /\ toEnable' = FALSE /\ waitEnable' = FALSE
  /\ rxAge' = Expired /\ waitAge' = Expired
  /\ UNCHANGED <<counter, req, lenAddr, lenMod, startTrigger, stopTrigger, term,
                 rxie, dr, flags, ctlvars>>

(* srl_close: USART_DeInit resets every register of the port. *)
SrlClose ==
  /\ MainRuns /\ mpc = "idle"
  /\ rxState' = "NOT_CONFIG"
  /\ re' = FALSE /\ rxie' = FALSE /\ dr' = NoByte /\ flags' = {}
  /\ UNCHANGED <<counter, req, lenAddr, lenMod, startTrigger, stopTrigger, term,
                 timevars, ctlvars>>

SrlSwitchTimeout(on) ==
  /\ MainRuns /\ mpc = "idle" /\ rxState # "NOT_CONFIG"
  /\ toEnable' = on
  /\ UNCHANGED <<rxvars, calcStarted, waitEnable, rxAge, waitAge, errReason, hwvars, ctlvars>>

(* Its clients call this one when they have armed a reception.  (None of    *)
(* them switches a timeout off again, though both functions can.)           *)
SrlSwitchTimeoutForWaiting(on) ==
  /\ MainRuns /\ mpc = "idle" /\ rxState \notin {"NOT_CONFIG", "IDLE"} /\ mreq.waits
  /\ waitEnable' = on
  /\ UNCHANGED <<rxvars, calcStarted, toEnable, rxAge, waitAge, errReason, hwvars, ctlvars>>

Triggered(r)        == r.start # 0 \/ r.stop # 0
WrongCombination(r) == Triggered(r) /\ r.num < 3

(* srl_receive_data and srl_receive_data_with_instant_timeout up to the     *)
(* store of the state: the guards, the triggers, and the return on a wrong  *)
(* combination of parameters, which comes after the triggers are changed.   *)
(* The variant with an instant timeout resets neither the error reason nor, *)
(* without a start byte, the start trigger.                                 *)
BeginReceive(r) ==
  /\ MainRuns /\ mpc = "idle" /\ rxState # "NOT_CONFIG"
  /\ r.kind \in {"data", "instant"}
  /\ rxState # "RXING" /\ r.num < BufLn
  /\ errReason' = IF r.kind = "data" THEN "NONE" ELSE errReason
  /\ startTrigger' = IF r.kind = "data" \/ r.start # 0 THEN r.start ELSE startTrigger
  /\ stopTrigger' = r.stop
  /\ mpc' = IF WrongCombination(r) THEN "idle" ELSE "state"
  /\ mreq' = IF WrongCombination(r) THEN mreq ELSE r
  /\ UNCHANGED <<rxState, counter, req, lenAddr, lenMod, term, calcStarted, toEnable,
                 waitEnable, rxAge, waitAge, hwvars, ipc, ticked, protocol>>

(* srl_receive_data_with_callback up to the store of the state.  The length *)
(* address is a uint8_t, so BufLn - 1 is cut to eight bits.                 *)
BeginReceiveWithCallback(r) ==
  /\ MainRuns /\ mpc = "idle" /\ rxState # "NOT_CONFIG"
  /\ r.kind = "callback" /\ rxState # "RXING"
  /\ term' = TRUE /\ req' = BufLn - 1 /\ counter' = 0
  /\ lenAddr' = (BufLn - 1) % 256 /\ lenMod' = 0
  /\ stopTrigger' = 0 /\ calcStarted' = FALSE
  /\ mpc' = "state" /\ mreq' = r
  /\ UNCHANGED <<rxState, startTrigger, toEnable, waitEnable, rxAge, waitAge, errReason,
                 hwvars, ipc, ticked, protocol>>

StoreState ==
  /\ MainRuns /\ mpc = "state"
  /\ \/ /\ mreq.kind # "callback" /\ Triggered(mreq)
        /\ rxState' = "WAITING_TO_RX" /\ mpc' = "wait"
     \/ /\ mreq.kind # "callback" /\ ~Triggered(mreq)
        /\ rxState' = "RXING" /\ mpc' = "counter"
     \/ /\ mreq.kind = "callback"
        /\ rxState' = "RXING" /\ mpc' = "enable"
  /\ UNCHANGED <<counter, req, lenAddr, lenMod, startTrigger, stopTrigger, term,
                 timevars, hwvars, mreq, ipc, ticked, protocol>>

StoreWaitingStart ==
  /\ MainRuns /\ mpc = "wait"
  /\ waitAge' = 0 /\ mpc' = "counter"
  /\ UNCHANGED <<rxvars, calcStarted, toEnable, waitEnable, rxAge, errReason, hwvars,
                 mreq, ipc, ticked, protocol>>

ClearCounter ==
  /\ MainRuns /\ mpc = "counter"
  /\ counter' = 0 /\ mpc' = "length"
  /\ UNCHANGED <<rxState, req, lenAddr, lenMod, startTrigger, stopTrigger, term,
                 timevars, hwvars, mreq, ipc, ticked, protocol>>

StoreLength ==
  /\ MainRuns /\ mpc = "length"
  /\ req' = mreq.num
  /\ lenAddr' = (IF mreq.lenAddr # 0 THEN mreq.lenAddr ELSE mreq.num + 1) % 256
  /\ lenMod' = mreq.lenMod
  /\ mpc' = "calc"
  /\ UNCHANGED <<rxState, counter, startTrigger, stopTrigger, term, timevars, hwvars,
                 mreq, ipc, ticked, protocol>>

(* srl_receive_data stops the timeout until the first byte, the variant     *)
(* with an instant timeout starts it now.                                   *)
StoreCalcStarted ==
  /\ MainRuns /\ mpc = "calc"
  /\ calcStarted' = (mreq.kind = "instant")
  /\ rxAge' = IF mreq.kind = "instant" THEN 0 ELSE rxAge
  /\ mpc' = "enable"
  /\ UNCHANGED <<rxvars, toEnable, waitEnable, waitAge, errReason, hwvars, mreq, ipc, ticked, protocol>>

(* mutant: RXNEIE left to the reception before *)
EnableReceiverOnly ==
  /\ MainRuns /\ mpc = "enable"
  /\ re' = TRUE /\ rxie' = rxie
  /\ mpc' = IF mreq.kind = "callback" THEN "stamp" ELSE "idle"
  /\ UNCHANGED <<rxvars, timevars, dr, flags, mreq, ipc, ticked, protocol>>

EnableReceiver ==
  /\ MainRuns /\ mpc = "enable"
  /\ re' = TRUE /\ rxie' = TRUE
  /\ mpc' = IF mreq.kind = "callback" THEN "stamp" ELSE "idle"
  /\ UNCHANGED <<rxvars, timevars, dr, flags, mreq, ipc, ticked, protocol>>

StoreStamps ==
  /\ MainRuns /\ mpc = "stamp"
  /\ waitAge' = 0 /\ rxAge' = 0 /\ mpc' = "idle"
  /\ UNCHANGED <<rxvars, calcStarted, toEnable, waitEnable, errReason, hwvars, mreq, ipc, ticked, protocol>>

----------------------------------------------------------------------------
(* SysTick: master_time advances, then srl_keep_timeout.                    *)

(* mutant: an age that is not cut off *)
OlderForever(age) == age + 1
Older(age) == IF age = Expired THEN Expired ELSE age + 1

(* mutant: the timeout runs on after the last byte *)
TimedOutAlways == rxState # "NOT_CONFIG" /\ toEnable /\ Older(rxAge) = Expired
ReceivingTimedOut ==
  rxState # "NOT_CONFIG" /\ toEnable /\ calcStarted /\ Older(rxAge) = Expired

(* mutant: no timeout for the first byte of a reception without a start byte *)
WaitingTimedOutBeforeStart ==
  ~ReceivingTimedOut /\ rxState = "WAITING_TO_RX" /\ waitEnable /\ Older(waitAge) = Expired
WaitingTimedOut ==
  /\ ~ReceivingTimedOut
  /\ rxState \in {"WAITING_TO_RX", "RXING"} /\ waitEnable /\ Older(waitAge) = Expired

(* The handler lasts less than one period, so SysTick preempts one          *)
(* activation of it at most once.                                           *)
SysTick ==
  /\ ipc # "idle" => ~ticked
  /\ rxAge' = Older(rxAge) /\ waitAge' = Older(waitAge)
  /\ ticked' = (ipc # "idle")
  /\ \/ /\ ReceivingTimedOut
        /\ rxState' = "ERROR" /\ errReason' = "TIMEOUT_RECEIVING" /\ re' = FALSE /\ rxie' = FALSE
     \/ /\ WaitingTimedOut
        /\ rxState' = "ERROR" /\ errReason' = "TIMEOUT_WAITING" /\ re' = FALSE /\ rxie' = FALSE
     \/ /\ ~ReceivingTimedOut /\ ~WaitingTimedOut
        /\ UNCHANGED <<rxState, errReason, re, rxie>>
  /\ UNCHANGED <<counter, req, lenAddr, lenMod, startTrigger, stopTrigger, term,
                 calcStarted, toEnable, waitEnable, dr, flags, mpc, mreq, ipc, protocol>>

----------------------------------------------------------------------------
(* The line and the port's registers *)

(* A byte arrives while the receiver is on.  When the one before is still   *)
(* unread it is lost and the overrun flag is raised.                        *)
ByteArrives(b) ==
  /\ re
  /\ dr' = IF dr = NoByte THEN b ELSE dr
  /\ flags' = IF dr = NoByte THEN flags ELSE flags \cup {"ORE"}
  /\ UNCHANGED <<rxvars, timevars, re, rxie, ctlvars>>

LineIdle ==
  /\ re /\ "IDLE" \notin flags
  /\ flags' = flags \cup {"IDLE"}
  /\ UNCHANGED <<rxvars, timevars, re, rxie, dr, ctlvars>>

----------------------------------------------------------------------------
(* The USART interrupt, srl_irq_handler.  It is entered for a byte or an    *)
(* overrun, and also whenever its transmitting half has work, whatever the  *)
(* state of the receiver.                                                   *)
Entered == ipc = "idle" /\ (IrqPending \/ mpc = "idle" \/ mreq.duplex)

(* With an idle line or an overrun flagged the handler reads the data       *)
(* register away, which clears the flags and whatever byte was there.       *)
IrqDiscard ==
  /\ Entered /\ flags # {}
  /\ flags' = {} /\ dr' = NoByte
  /\ UNCHANGED <<rxvars, timevars, re, rxie, ctlvars>>

(* The branch of the RXNE half is chosen by the state at this instant.  In  *)
(* the states other than these two the byte stays in the data register.     *)
IrqEnter ==
  /\ Entered /\ flags = {} /\ dr # NoByte
  /\ \/ rxState = "RXING" /\ ipc' = "rxing"
     \/ rxState = "WAITING_TO_RX" /\ ipc' = "waiting"
  /\ ticked' = FALSE
  /\ UNCHANGED <<rxvars, timevars, hwvars, mpc, mreq, protocol>>

(* What the byte b does to the reception: stored at counter; the callback   *)
(* may end the frame; the byte at lenAddr replaces req, or ends the frame   *)
(* with an error when the announced length does not fit the buffer.         *)
LengthByte      == lenAddr = counter
Announced(b)    == b + lenMod
(* mutant: the length modifier left out of the comparison *)
OverflowsUnmodified(b) == LengthByte /\ b >= BufLn
Overflows(b)    == LengthByte /\ Announced(b) >= BufLn
NewReq(b)       == IF LengthByte /\ ~Overflows(b) THEN Announced(b) ELSE req

(* The outcome of one byte in RXING, with cbStop what the callback said.    *)
IsLast(b, cbStop) ==
  \/ stopTrigger # 0 /\ ~cbStop /\ b = stopTrigger
  \/ counter + 1 >= NewReq(b)

IrqStoreByte(cbStop) ==
  /\ ipc = "rxing" /\ counter < req
  /\ cbStop => term
  /\ counter' = counter + 1
  /\ req' = NewReq(dr)
  /\ rxState' = IF IsLast(dr, cbStop) THEN "DONE"
                ELSE IF Overflows(dr) THEN "ERROR"
                ELSE IF cbStop THEN "DONE"
                ELSE rxState
  /\ errReason' = IF Overflows(dr) THEN "OVERFLOW" ELSE errReason
  /\ stopTrigger' = IF cbStop THEN 0 ELSE stopTrigger
  /\ LET stop == IsLast(dr, cbStop) \/ Overflows(dr) \/ cbStop
     IN  /\ calcStarted' = ~stop
         /\ re' = (re /\ ~stop) /\ rxie' = (rxie /\ ~stop)
  /\ dr' = NoByte /\ rxAge' = 0 /\ waitEnable' = FALSE
  /\ ipc' = "idle" /\ ticked' = FALSE
  /\ UNCHANGED <<lenAddr, lenMod, startTrigger, term, toEnable, waitAge, flags, mpc, mreq, protocol>>

(* Nothing is left to receive: the byte is not read, the frame is done.     *)
IrqNothingLeft ==
  /\ ipc = "rxing" /\ counter >= req
  /\ rxState' = "DONE"
  /\ calcStarted' = FALSE /\ re' = FALSE /\ rxie' = FALSE
  /\ rxAge' = 0 /\ waitEnable' = FALSE
  /\ ipc' = "idle" /\ ticked' = FALSE
  /\ UNCHANGED <<counter, req, lenAddr, lenMod, startTrigger, stopTrigger, term, toEnable,
                 waitAge, errReason, dr, flags, mpc, mreq, protocol>>

IrqWaiting ==
  /\ ipc = "waiting"
  /\ dr' = NoByte
  /\ \/ /\ dr = startTrigger
        /\ counter' = counter + 1 /\ rxState' = "RXING" /\ ipc' = "clear"
        /\ UNCHANGED ticked
     \/ /\ dr # startTrigger
        /\ ipc' = "idle" /\ ticked' = FALSE
        /\ UNCHANGED <<counter, rxState>>
  /\ UNCHANGED <<req, lenAddr, lenMod, startTrigger, stopTrigger, term, timevars,
                 re, rxie, flags, mpc, mreq, protocol>>

(* The start byte was taken: the waiting timeout is switched off.           *)
IrqClearWaiting ==
  /\ ipc = "clear"
  /\ waitEnable' = FALSE /\ ipc' = "idle" /\ ticked' = FALSE
  /\ UNCHANGED <<rxvars, calcStarted, toEnable, rxAge, waitAge, errReason, hwvars, mpc, mreq, protocol>>

----------------------------------------------------------------------------
Arming ==
  \/ StoreState \/ StoreWaitingStart \/ ClearCounter \/ StoreLength
  \/ StoreCalcStarted \/ EnableReceiver \/ StoreStamps

Irq ==
  \/ IrqDiscard \/ IrqEnter \/ IrqNothingLeft \/ IrqWaiting \/ IrqClearWaiting
  \/ \E cbStop \in BOOLEAN : IrqStoreByte(cbStop)

Next ==
  \/ SrlInit \/ SrlClose
  \/ \E on \in BOOLEAN : SrlSwitchTimeout(on) \/ SrlSwitchTimeoutForWaiting(on)
  \/ \E r \in protocol : BeginReceive(r) \/ BeginReceiveWithCallback(r)
  \/ Arming
  \/ SysTick
  \/ \E b \in Byte : ByteArrives(b)
  \/ LineIdle
  \/ Irq

Spec == Init /\ [][Next]_vars

(* SysTick never stops, a pending interrupt is served and an arming         *)
(* function the main loop has entered runs on.                              *)
Fairness == WF_vars(SysTick) /\ WF_vars(Irq) /\ WF_vars(Arming)

FairSpec == Spec /\ Fairness
=============================================================================
