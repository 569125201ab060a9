---------------------------- MODULE ModbusMaster ----------------------------
(***************************************************************************)
(* The Modbus RTU master, system/src/modbus_rtu/rtu_serial_io.c, with the   *)
(* parser of the replies (rtu_parser.c) and the part of the main loop that  *)
(* drives it.  The serial port is what its client sees of SerialRx and      *)
(* SerialTx: a transmission ends, a reception ends with a frame or with an  *)
(* error.  A slave answers a request at once, late, or never; a reply that  *)
(* comes while the master listens for another one is taken for that one.    *)
(*                                                                          *)
(* The main loop asks for blocking I/O (main.c:366): it then stays in       *)
(* rtu_serial_blocking_io until the exchange is over.  The other mode is    *)
(* modelled too, as the module offers it.                                   *)
(***************************************************************************)
EXTENDS Naturals, FiniteSets

CONSTANTS
  QueueLength,   \* RTU_POOL_QUEUE_LENGHT
  Networks,      \* the configurations: the slave each queue element asks, or NoSlave
  NoSlave,
  Registers,     \* how many registers each queue element asks for
  ErrorsToTrig,  \* RTU_NUMBER_OF_ERRORS_TO_TRIG_STATUS
  MaxUint8,      \* the largest value of the error counter
  MaxRestarts,   \* bound: cycles started while one is under way
  MaxLate        \* bound: replies on their way at a time

Elements == 0 .. QueueLength - 1

ASSUME ModbusConstants ==
  /\ QueueLength \in Nat \ {0}
  /\ \A slave \in Networks : DOMAIN slave = Elements
  /\ Registers \in [Elements -> Nat]
  /\ ErrorsToTrig \in Nat \ {0} /\ MaxUint8 \in Nat /\ MaxUint8 > ErrorsToTrig
  /\ MaxRestarts \in Nat /\ MaxLate \in Nat

VARIABLES
  slave,      \* the configuration
  blocking,   \* rtu_blocking_io
  pool,       \* rtu_pool_state
  it,         \* rtu_used_queue->it
  regs,       \* number_of_registers of each element's rtu_register_data_t
  value,      \* whose reply the registers_values of an element come from
  errors,     \* rte_rtu_number_of_serial_io_errors, a uint8_t
  trigger,    \* rte_main_trigger_modbus_status
  reboot,     \* rte_main_reboot_req
  silent,     \* more than INTERFRAME_SP since the last good reply
  port,       \* the serial port as its client sees it
  frame,      \* the reply in the receive buffer
  late,       \* replies still to come from the slaves
  mpc,        \* where the main loop is
  asked,      \* history: the elements asked for since the queue was rewound
  restarts    \* history: cycles cut short

config == <<slave, blocking>>
serial == <<port, frame, late>>
pooler == <<pool, it, regs, value, errors, silent, asked>>
vars   == <<config, pooler, trigger, reboot, serial, mpc, restarts>>

(* A reply: the element it answers, how many registers it was asked for,    *)
(* and whether it is data, an exception, or a frame the parser refuses (too *)
(* short, of another function, or one that only fills the buffer).          *)
Reply   == [of : Elements, n : Nat, kind : {"data", "exception", "other"}]
Nobody  == QueueLength
NoReply == [of |-> Nobody, n |-> 0, kind |-> "other"]

Init ==
  /\ slave \in Networks /\ blocking \in BOOLEAN
  /\ pool = "IDLE" /\ it = 0
  /\ regs = Registers /\ value = [i \in Elements |-> Nobody]
  /\ errors = 0 /\ trigger = FALSE /\ reboot = FALSE /\ silent = TRUE
  /\ port = "open" /\ frame = NoReply /\ late = {}
  /\ mpc = "top" /\ asked = {} /\ restarts = 0

----------------------------------------------------------------------------
(* The main loop: the reboot request is looked at first, then the pooler is *)
(* called, then a new cycle may be due.                                     *)

(* NVIC_SystemReset.  The slaves do not notice. *)
Reset ==
  /\ mpc = "top" /\ reboot
  /\ pool' = "IDLE" /\ it' = 0
  /\ regs' = Registers /\ value' = [i \in Elements |-> Nobody]
  /\ errors' = 0 /\ trigger' = FALSE /\ reboot' = FALSE /\ silent' = TRUE
  /\ port' = "open" /\ frame' = NoReply
  /\ asked' = {}
  /\ UNCHANGED <<config, late, mpc, restarts>>

Reboots(n) == n >= MaxUint8 - ErrorsToTrig

(* The beginning of rtu_serial_pool: the error status, and the end of the   *)
(* queue.                                                                   *)
PoolEntry ==
  /\ mpc = "top" /\ ~reboot /\ mpc' = "pool"
  /\ LET due == errors > 0 /\ errors % ErrorsToTrig = 0
     IN  /\ trigger' = (trigger \/ due)
         /\ errors' = IF due THEN (errors + 1) % (MaxUint8 + 1) ELSE errors
         /\ reboot' = (due /\ Reboots(errors'))
  /\ IF it >= QueueLength THEN it' = 0 /\ pool' = "STOP" /\ asked' = {}
     ELSE UNCHANGED <<it, pool, asked>>
  /\ UNCHANGED <<config, regs, value, silent, serial, restarts>>

(* RTU_POOL_IDLE.  srl_init returns at once when the port is idle; its      *)
(* transmission can then still be under way and srl_start_tx refuses.       *)
PoolIdle ==
  /\ mpc = "pool" /\ pool = "IDLE"
  /\ \/ /\ slave[it] = NoSlave
        /\ pool' = "STOP" /\ it' = 0 /\ asked' = {}
        /\ port' = IF port = "tx" THEN "tx" ELSE "open"
        /\ mpc' = "rest"
     \/ /\ slave[it] # NoSlave
        /\ IF port = "tx" THEN mpc' = "rest" /\ UNCHANGED <<pool, port, asked>>
           ELSE /\ port' = "tx" /\ asked' = asked \cup {it}
                /\ IF blocking THEN mpc' = "sending" /\ UNCHANGED pool
                   ELSE mpc' = "rest" /\ pool' = "TRANSMITTING"
        /\ UNCHANGED it
  /\ UNCHANGED <<config, regs, value, errors, silent, trigger, reboot,
                 frame, late, restarts>>

(* rtu_serial_blocking_io: the two waits. *)
BlockingSent ==
  /\ mpc = "sending" /\ port = "sent"
  /\ port' = "rx" /\ mpc' = "listening"
  /\ UNCHANGED <<config, pooler, trigger, reboot, frame, late, restarts>>

BlockingReceived ==
  /\ mpc = "listening" /\ port \in {"done", "error"}
  /\ pool' = IF port = "done" THEN "RECEIVING" ELSE "ERROR"
  /\ mpc' = "rest"
  /\ UNCHANGED <<config, it, regs, value, errors, silent, asked, trigger, reboot,
                 serial, restarts>>

PoolTransmitting ==
  /\ mpc = "pool" /\ pool = "TRANSMITTING" /\ mpc' = "rest"
  /\ IF port = "tx" THEN UNCHANGED <<pool, port>>
     ELSE pool' = "RECEIVING" /\ port' = "rx"
  /\ UNCHANGED <<config, it, regs, value, errors, silent, asked, trigger, reboot,
                 frame, late, restarts>>

(* mutant: the slave address is not looked at *)
AcceptsAnyone(f) == f.kind = "data"
(* rtu_parser_03_04_registers: the data of a reply are taken when it comes  *)
(* from the slave the element asks.                                         *)
Accepts(f) == f.kind = "data" /\ slave[f.of] = slave[it]

Good(f) == f.kind = "exception" \/ Accepts(f)

(* RTU_POOL_RECEIVING with SRL_RX_DONE.  The element takes over the number  *)
(* of registers of the reply and asks for as many the next time.  The time  *)
(* of a reply that is refused is kept as that of a good one.                *)
PoolReceived ==
  /\ mpc = "pool" /\ pool = "RECEIVING" /\ port = "done" /\ mpc' = "rest"
  /\ value' = IF Accepts(frame) THEN [value EXCEPT ![it] = frame.of] ELSE value
  /\ regs' = IF Accepts(frame) THEN [regs EXCEPT ![it] = frame.n] ELSE regs
  /\ pool' = IF Good(frame) THEN "WAIT" ELSE "ERROR"
  /\ silent' = FALSE /\ port' = "closed" /\ frame' = NoReply
  /\ UNCHANGED <<config, it, errors, asked, trigger, reboot, late, restarts>>

(* RTU_POOL_RECEIVING otherwise: waiting, or an error.                      *)
PoolNotReceived ==
  /\ mpc = "pool" /\ pool = "RECEIVING" /\ port # "done" /\ mpc' = "rest"
  /\ IF port \in {"closed", "error"} THEN pool' = "ERROR" /\ port' = "closed"
     ELSE UNCHANGED <<pool, port>>
  /\ UNCHANGED <<config, it, regs, value, errors, silent, asked, trigger, reboot,
                 frame, late, restarts>>

(* mutant: the element stays the same after its reply *)
PoolWaitSameElement ==
  /\ mpc = "pool" /\ pool = "WAIT" /\ mpc' = "rest"
  /\ IF silent THEN pool' = "IDLE" ELSE UNCHANGED pool
  /\ UNCHANGED <<config, it, regs, value, errors, silent, asked, trigger, reboot,
                 serial, restarts>>

(* mutant: an element is skipped *)
PoolWaitMovesTwice ==
  /\ mpc = "pool" /\ pool = "WAIT" /\ mpc' = "rest"
  /\ IF silent THEN pool' = "IDLE" /\ it' = it + 2 ELSE UNCHANGED <<pool, it>>
  /\ UNCHANGED <<config, regs, value, errors, silent, asked, trigger, reboot,
                 serial, restarts>>

(* RTU_POOL_WAIT_AFTER_RECEIVE *)
PoolWait ==
  /\ mpc = "pool" /\ pool = "WAIT" /\ mpc' = "rest"
  /\ IF silent THEN pool' = "IDLE" /\ it' = it + 1 ELSE UNCHANGED <<pool, it>>
  /\ UNCHANGED <<config, regs, value, errors, silent, asked, trigger, reboot,
                 serial, restarts>>

(* RTU_POOL_RECEIVE_ERROR *)
PoolError ==
  /\ mpc = "pool" /\ pool = "ERROR" /\ mpc' = "rest"
  /\ pool' = "IDLE" /\ it' = it + 1
  /\ errors' = (errors + 1) % (MaxUint8 + 1)
  /\ UNCHANGED <<config, regs, value, silent, asked, trigger, reboot, serial, restarts>>

PoolStop ==
  /\ mpc = "pool" /\ pool = "STOP" /\ mpc' = "rest"
  /\ UNCHANGED <<config, pooler, trigger, reboot, serial, restarts>>

(* The rest of an iteration of the main loop, in most of them nothing ...   *)
Continue ==
  /\ mpc = "rest" /\ mpc' = "top"
  /\ UNCHANGED <<config, pooler, trigger, reboot, serial, restarts>>

(* ... and every 65 seconds rtu_serial_start and the status message.        *)
(* Usually the cycle before is over by then.                                *)
SerialStart ==
  /\ mpc = "rest" /\ mpc' = "top"
  /\ pool # "STOP" => restarts < MaxRestarts
  /\ restarts' = IF pool # "STOP" THEN restarts + 1 ELSE restarts
  /\ pool' = "IDLE" /\ trigger' = FALSE
  /\ UNCHANGED <<config, it, regs, value, errors, silent, asked, reboot, serial>>

----------------------------------------------------------------------------
(* The serial port and the slaves *)

(* The request is out.  The slave it is for answers, or does not.           *)
RequestSent ==
  /\ port = "tx" /\ port' = "sent"
  /\ \/ /\ Cardinality(late) < MaxLate
        /\ \E k \in {"data", "exception", "other"} :
             late' = late \cup {[of |-> it, n |-> regs[it], kind |-> k]}
     \/ UNCHANGED late
  /\ UNCHANGED <<config, pooler, trigger, reboot, frame, mpc, restarts>>

ReplyReceived(f) ==
  /\ f \in late /\ late' = late \ {f}
  /\ port = "rx" /\ port' = "done" /\ frame' = f
  /\ UNCHANGED <<config, pooler, trigger, reboot, mpc, restarts>>

(* A reply that is garbled, or comes when nobody listens, is gone.          *)
ReplyLost(f) ==
  /\ f \in late /\ late' = late \ {f}
  /\ UNCHANGED <<config, pooler, trigger, reboot, port, frame, mpc, restarts>>

Timeout ==
  /\ port = "rx" /\ port' = "error"
  /\ UNCHANGED <<config, pooler, trigger, reboot, frame, late, mpc, restarts>>

Silence ==
  /\ ~silent /\ silent' = TRUE
  /\ UNCHANGED <<config, pool, it, regs, value, errors, asked, trigger, reboot,
                 serial, mpc, restarts>>

Pool ==
  \/ PoolEntry \/ PoolIdle \/ BlockingSent \/ BlockingReceived \/ PoolTransmitting
  \/ PoolReceived \/ PoolNotReceived \/ PoolWait \/ PoolError \/ PoolStop

Main == Reset \/ Pool \/ Continue \/ SerialStart

Next ==
  \/ Main
  \/ RequestSent
  \/ \E f \in late : ReplyReceived(f) \/ ReplyLost(f)
  \/ Timeout
  \/ Silence

Spec == Init /\ [][Next]_vars

(* The main loop goes round, a transmission ends, SysTick ends a reception  *)
(* and counts the silence.                                                  *)
FairSpec ==
  /\ Spec
  /\ WF_vars(Main) /\ WF_vars(RequestSent) /\ WF_vars(Timeout) /\ WF_vars(Silence)

----------------------------------------------------------------------------
(* Every field keeps its type. *)
TypeOK ==
  /\ slave \in Networks /\ blocking \in BOOLEAN
  /\ pool \in {"IDLE", "TRANSMITTING", "RECEIVING", "WAIT", "ERROR", "STOP"}
  /\ it \in 0 .. QueueLength
  /\ regs \in [Elements -> Nat] /\ value \in [Elements -> Elements \cup {Nobody}]
  /\ errors \in 0 .. MaxUint8
  /\ trigger \in BOOLEAN /\ reboot \in BOOLEAN /\ silent \in BOOLEAN
  /\ port \in {"closed", "open", "tx", "sent", "rx", "done", "error"}
  /\ frame \in Reply \cup {NoReply} /\ late \in SUBSET Reply
  /\ mpc \in {"top", "pool", "sending", "listening", "rest"}
  /\ asked \in SUBSET Elements
  /\ restarts \in 0 .. MaxRestarts

(* Whatever comes late, twice or instead of another reply: the registers of *)
(* an element hold what its own slave said, and the element asks for a      *)
(* number of registers that is configured for that slave.  With one element *)
(* per slave these are its own value and its own number.  (With several,    *)
(* the late reply to one of them is taken for the next and also changes how *)
(* many registers that one asks for from then on.)                          *)
RegistersOfItsSlave ==
  \A i \in Elements :
    /\ value[i] # Nobody => slave[value[i]] = slave[i]
    /\ \E j \in Elements : slave[j] = slave[i] /\ regs[i] = Registers[j]

(* A cycle ends only when every element of the queue up to the first one    *)
(* that is not configured has been asked for since the queue was rewound.   *)
CycleAsksAll ==
  [][(pool # "STOP" /\ pool' = "STOP")
       => asked = {i \in Elements : \A j \in 0 .. i : slave[j] # NoSlave}]_vars

(* A cycle ends, whatever the slaves do, when it is not started over and    *)
(* over again.                                                              *)
CycleEnds == pool # "STOP" ~> pool = "STOP"
=============================================================================
