----------------------------- MODULE I2cMaster -----------------------------
(***************************************************************************)
(* The I2C driver of the pressure and humidity sensors, drivers/i2c.c: a    *)
(* transfer is started by the main loop, carried by the event interrupt     *)
(* (priority 2), given up by the error interrupt (priority 11) or by the    *)
(* timeout in SysTick (priority 5), and awaited by the sensor drivers in a  *)
(* loop on i2c_state (ms5611.c:41, bme280.c:62).                            *)
(*                                                                          *)
(* An interrupt of higher priority comes between two steps of one of lower  *)
(* priority, never the other way round; the main loop goes on when none     *)
(* runs.  The peripheral and the slave are external: what they do is known  *)
(* from the flags the handlers look at.                                     *)
(***************************************************************************)
EXTENDS Naturals

CONSTANTS
  SendLengths,     \* numbers of bytes the sensor drivers send ...
  ReceiveLengths,  \* ... and receive
  Timeout,         \* I2C_TIMEOUT, in periods of SysTick
  MaxErrors        \* MAX_I2C_ERRORS_PER_COMM

ASSUME I2cConstants ==
  /\ SendLengths \subseteq 1 .. 31 /\ ReceiveLengths \subseteq 1 .. 31
  /\ Timeout \in Nat \ {0} /\ MaxErrors \in 0 .. 253

VARIABLES
  state,      \* i2c_state
  mode,       \* i2c_txing, i2c_rxing
  counter,    \* i2c_trx_data_counter
  len,        \* i2c_tx_queue_len or i2c_rx_bytes_number
  errors,     \* i2c_error_counter
  age,        \* master_time - i2cStartTime
  on,         \* the peripheral and its two interrupts are enabled
  sr1,        \* the flags of the peripheral
  bus,        \* what goes on on the bus
  erPending,  \* the error interrupt is pending
  main, ev, er, tick,  \* where the main loop and the three handlers are
  saved,      \* the counter that the error interrupt has loaded
  held,       \* the slave holds the clock, for good
  acked,      \* history: the slave has answered to its address in this transfer
  first       \* history: the counter this transfer started with

driver  == <<state, mode, counter, len, errors, age>>
hw      == <<on, sr1, bus, erPending>>
history == <<acked, first>>
vars    == <<driver, hw, main, ev, er, tick, saved, held, history>>

Init ==
  /\ state = "IDLE" /\ mode = "NO" /\ counter = 0 /\ len = 0 /\ errors = 0 /\ age = 0
  /\ on = TRUE /\ sr1 = {} /\ bus = "FREE" /\ erPending = FALSE
  /\ main = "FREE" /\ ev = "NO" /\ er = "NO" /\ tick = "NO" /\ saved = 0
  /\ held = FALSE /\ acked = FALSE /\ first = 0

Byte(n) == n % 256

(* i2cStop, and what becomes of the flags when the peripheral is disabled. *)
Stop ==
  /\ mode' = "NO" /\ counter' = 0 /\ len' = 0
  /\ on' = FALSE /\ sr1' = {} /\ bus' = "FREE"

(* mutant: the error state is stored first, and i2cStop stores its own *)
ErrorFirst == "IDLE"
StateAfterFailure == "ERROR"

(* i2cReinit, i2cStop and the error state *)
GiveUp == Stop /\ state' = StateAfterFailure /\ UNCHANGED <<errors, age, erPending>>

----------------------------------------------------------------------------
(* The main loop: i2c_send_data and i2c_receive_data.  Before i2cStart the  *)
(* interrupts are off, and the timeout cannot have expired between the      *)
(* store of the state and it.  Sending leaves the counter as it is,         *)
(* receiving the number of errors.                                          *)
Started(m, n, from) ==
  /\ mode' = m /\ len' = n /\ age' = 0 /\ on' = TRUE /\ bus' = "START"
  /\ main' = "WAIT" /\ acked' = FALSE /\ first' = from /\ counter' = from
  /\ UNCHANGED <<sr1, erPending, ev, er, tick, saved, held>>

SendData ==
  \E n \in SendLengths :
    /\ main \in {"FREE", "SENT"} /\ Started("TX", n, counter)
    /\ state' = "TXING" /\ errors' = 0

(* The sensor drivers read what they have asked for, if that went well. *)
ReceiveData ==
  \E n \in ReceiveLengths :
    /\ main = "SENT" /\ Started("RX", n, 0)
    /\ state' = "RXING" /\ UNCHANGED errors

NoInterrupt == ev = "NO" /\ er = "NO" /\ tick = "NO"

Awaited ==
  /\ main = "WAIT" /\ NoInterrupt /\ state \in {"IDLE", "ERROR"}
  /\ main' = IF state = "IDLE" THEN "SENT" ELSE "FREE"
  /\ UNCHANGED <<driver, hw, ev, er, tick, saved, held, history>>

----------------------------------------------------------------------------
(* The event interrupt: i2cIrqHandler.                                      *)

Event(flag) == on /\ ev = "NO" /\ flag \in sr1 /\ sr1' = sr1 \ {flag}

(* All bytes are out, also before the first: STOP is requested. *)
AllSent(c) == mode = "TX" /\ c = len

EvEnds(c) ==
  /\ counter' = c
  /\ IF AllSent(c) THEN mode' = "NO" /\ ev' = "STOPPING" ELSE UNCHANGED <<mode, ev>>

EvStart ==
  /\ Event("SB") /\ mode # "NO" /\ bus' = "ADDRESS" /\ EvEnds(counter)
  /\ UNCHANGED <<state, len, errors, age, on, erPending, main, er, tick, saved, held, history>>

EvAddress ==
  /\ Event("ADDR") /\ mode # "NO" /\ EvEnds(counter)
  /\ bus' = IF mode = "TX" THEN "EMPTY" ELSE "DATA"
  /\ UNCHANGED <<state, len, errors, age, on, erPending, main, er, tick, saved, held, history>>

(* A BTF, whose branch loads the next byte in the same call, is taken for   *)
(* another TXE.  A master never sees STOPF.                                 *)
EvTransmit ==
  /\ Event("TXE") /\ mode = "TX" /\ bus' = "DATA" /\ EvEnds(Byte(counter + 1))
  /\ UNCHANGED <<state, len, errors, age, on, erPending, main, er, tick, saved, held, history>>

EvReceive ==
  /\ Event("RXNE") /\ mode = "RX"
  /\ counter' = Byte(counter + 1)
  /\ ev' = IF counter' = len THEN "STOPPING" ELSE "NO"
  /\ UNCHANGED <<state, mode, len, errors, age, on, bus, erPending, main, er, tick, saved,
                 held, history>>

(* The handler waits for the STOP bit to be cleared (:183, :209), which it  *)
(* is not while the slave holds the clock; SysTick waits for the handler.   *)
(* A last byte that is not acknowledged leaves its error pending.           *)
EvStop ==
  /\ ev = "STOPPING" /\ ~held /\ ev' = "NO"
  /\ Stop /\ state' = "IDLE" /\ erPending' \in {erPending, erPending \/ mode = "NO"}
  /\ UNCHANGED <<errors, age, main, er, tick, saved, held, history>>

EventInterrupt == EvStart \/ EvAddress \/ EvTransmit \/ EvReceive \/ EvStop

----------------------------------------------------------------------------
(* The error interrupt: i2cErrIrqHandler.                                   *)

ErRuns == ev = "NO" /\ tick = "NO"

(* Neither the address nor a byte was acknowledged: the transfer is started *)
(* again, or the counter goes back by one, in a load and a store.           *)
ErEnters ==
  /\ ErRuns /\ er = "NO" /\ on /\ erPending /\ erPending' = FALSE
  /\ sr1' = sr1 \ {"AF"} /\ saved' = counter
  /\ \/ "AF" \in sr1 /\ counter = 0 /\ er' = "STOPPING" /\ UNCHANGED errors
     \/ "AF" \in sr1 /\ counter # 0 /\ er' = "STORE" /\ errors' = Byte(errors + 1)
     \/ "AF" \notin sr1 /\ er' = "COUNT" /\ UNCHANGED errors
  /\ UNCHANGED <<state, mode, counter, len, age, on, bus, main, ev, tick, held, history>>

(* SysTick may have reset the peripheral in the meantime: START is then     *)
(* without effect.                                                          *)
ErRestarts ==
  /\ ErRuns /\ er = "STOPPING" /\ (~held \/ ~on) /\ er' = "COUNT"
  /\ errors' = Byte(errors + 1) /\ bus' = IF on THEN "START" ELSE bus
  /\ UNCHANGED <<state, mode, counter, len, age, on, sr1, erPending, main, ev, tick, saved,
                 held, history>>

ErStores ==
  /\ ErRuns /\ er = "STORE" /\ er' = "COUNT" /\ counter' = Byte(saved + 255)
  /\ UNCHANGED <<state, mode, len, errors, age, hw, main, ev, tick, saved, held, history>>

LimitPassed(n) == n > MaxErrors

ErCounts ==
  /\ ErRuns /\ er = "COUNT"
  /\ errors' = IF "BERR" \in sr1 THEN MaxErrors + 2 ELSE Byte(errors + 1)
  /\ er' = IF LimitPassed(errors') THEN "GIVING_UP" ELSE "NO"
  /\ UNCHANGED <<state, mode, counter, len, age, hw, main, ev, tick, saved, held, history>>

ErGivesUp ==
  /\ ErRuns /\ er = "GIVING_UP" /\ er' = "NO" /\ GiveUp
  /\ UNCHANGED <<main, ev, tick, saved, held, history>>

ErrorInterrupt == ErEnters \/ ErRestarts \/ ErStores \/ ErCounts \/ ErGivesUp

----------------------------------------------------------------------------
(* SysTick: i2cKeepTimeout.                                                 *)

(* mutant: only a transmission is guarded *)
GuardedTx == state = "TXING"
Guarded == state \in {"RXING", "TXING"}

KeepTimeout ==
  /\ ev = "NO" /\ tick = "NO"
  /\ age' = IF age > Timeout THEN age ELSE age + 1
  /\ tick' = IF Guarded /\ age' > Timeout THEN "GIVING_UP" ELSE "NO"
  /\ UNCHANGED <<state, mode, counter, len, errors, hw, main, ev, er, saved, held, history>>

TimeoutGivesUp ==
  /\ ev = "NO" /\ tick = "GIVING_UP" /\ tick' = "NO" /\ GiveUp
  /\ UNCHANGED <<main, ev, er, saved, held, history>>

SysTick == KeepTimeout \/ TimeoutGivesUp

----------------------------------------------------------------------------
(* The peripheral and the slave.                                            *)

Bus(from, to) == on /\ ~held /\ bus = from /\ bus' = to

StartSent ==
  /\ Bus("START", "STARTED") /\ sr1' = sr1 \cup {"SB"} /\ UNCHANGED <<erPending, acked>>

Addressed ==
  \/ Bus("ADDRESS", "ADDRESSED") /\ sr1' = sr1 \cup {"ADDR"} /\ acked' = TRUE /\ UNCHANGED erPending
  \/ Bus("ADDRESS", "REFUSED") /\ sr1' = sr1 \cup {"AF"} /\ erPending' = TRUE /\ UNCHANGED acked

(* The data register is empty from the start; a byte that is not            *)
(* acknowledged may or may not make room for the next.                      *)
ByteOut ==
  /\ mode = "TX" /\ UNCHANGED acked
  /\ \/ Bus("EMPTY", "FULL") /\ sr1' = sr1 \cup {"TXE"} /\ UNCHANGED erPending
     \/ \E f \in {{"TXE"}, {"AF"}, {"TXE", "AF"}} :
          /\ Bus("DATA", IF "TXE" \in f THEN "FULL" ELSE "REFUSED") /\ sr1' = sr1 \cup f
          /\ erPending' = (erPending \/ "AF" \in f)

ByteIn ==
  /\ mode = "RX" /\ "RXNE" \notin sr1 /\ Bus("DATA", "DATA")
  /\ sr1' = sr1 \cup {"RXNE"} /\ UNCHANGED <<erPending, acked>>

BusError ==
  /\ on /\ bus # "FREE" /\ UNCHANGED <<bus, acked>>
  /\ sr1' = sr1 \cup {"BERR"} /\ erPending' = TRUE

Peripheral ==
  /\ StartSent \/ Addressed \/ ByteOut \/ ByteIn \/ BusError
  /\ UNCHANGED <<driver, on, main, ev, er, tick, saved, held, first>>

HoldClock ==
  /\ bus # "FREE" /\ ~held /\ held' = TRUE
  /\ UNCHANGED <<driver, hw, main, ev, er, tick, saved, history>>

Next ==
  \/ SendData \/ ReceiveData \/ Awaited
  \/ EventInterrupt \/ ErrorInterrupt \/ SysTick \/ Peripheral \/ HoldClock

Spec == Init /\ [][Next]_vars

(* Interrupts are served, the caller polls, SysTick comes every 10 ms.      *)
(* Nothing is assumed of the slave.                                         *)
FairSpec ==
  /\ Spec /\ WF_vars(EventInterrupt) /\ WF_vars(ErrorInterrupt)
  /\ WF_vars(SysTick) /\ WF_vars(Awaited)

----------------------------------------------------------------------------
TypeOK ==
  /\ state \in {"IDLE", "RXING", "TXING", "ERROR"} /\ mode \in {"NO", "TX", "RX"}
  /\ counter \in 0 .. 255 /\ len \in {0} \cup SendLengths \cup ReceiveLengths
  /\ errors \in 0 .. 255 /\ age \in 0 .. Timeout + 1 /\ on \in BOOLEAN
  /\ sr1 \subseteq {"SB", "ADDR", "TXE", "RXNE", "AF", "BERR"}
  /\ bus \in {"FREE", "START", "STARTED", "ADDRESS", "ADDRESSED", "REFUSED", "EMPTY", "FULL",
              "DATA"}
  /\ erPending \in BOOLEAN /\ main \in {"FREE", "SENT", "WAIT"}
  /\ ev \in {"NO", "STOPPING"} /\ tick \in {"NO", "GIVING_UP"}
  /\ er \in {"NO", "STOPPING", "STORE", "COUNT", "GIVING_UP"}
  /\ saved \in 0 .. 255 /\ held \in BOOLEAN /\ acked \in BOOLEAN /\ first \in 0 .. 255

(* A transfer that the sensor driver takes for successful has reached a     *)
(* slave, whatever interrupts came between which steps: "if reset was       *)
(* successfull enable a driver" (ms5611.c:43-44).  It is not so for one     *)
(* that does not start with its first byte: the timeout or the last event   *)
(* between the load and the store of the counter in the error interrupt     *)
(* (i2c.c:241) leaves a counter that i2c_send_data does not clear.          *)
SuccessIsReal == (main = "WAIT" /\ NoInterrupt /\ state = "IDLE") => acked \/ first # 0

(* A caller that waits goes on: what the bus or the slave does not end, the *)
(* timeout does.  Only the event interrupt has no timeout of its own, and   *)
(* SysTick cannot interrupt it.                                             *)
TransferEnds == (main = "WAIT") ~> (main # "WAIT" \/ (held /\ ev = "STOPPING"))
=============================================================================
