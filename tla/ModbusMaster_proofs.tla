------------------------- MODULE ModbusMaster_proofs -------------------------
(***************************************************************************)
(* Proof that the registers of a queue element hold what its own slave      *)
(* said, for every queue, every configuration and any number of late        *)
(* replies.                                                                 *)
(*                                                                          *)
(* The invariant follows a reply from its request on: the request is made   *)
(* for the element in use, whose number of registers is one of its slave's; *)
(* the element in use does not change while the request is under way; and   *)
(* the parser takes the reply only for an element of the same slave.  Two   *)
(* more follow: a cycle asks every element, and a pooler that waits waits   *)
(* for a port that is at work for it.                                       *)
(***************************************************************************)
EXTENDS ModbusMaster, TLAPS

Replies == late \cup (IF frame \in Reply THEN {frame} ELSE {})

OfSlave(i, n) == \E j \in Elements : slave[j] = slave[i] /\ n = Registers[j]

(* A reply has as many registers as some element of its slave asks for. *)
RepliesFit == \A f \in Replies : OfSlave(f.of, f.n)

(* The pooler works on an element of the queue ... *)
ElementInUse == mpc \in {"pool", "sending", "listening"} => it \in Elements

(* ... that stays the same while its request is being transmitted. *)
RequestOfElement ==
  port = "tx" => it \in Elements /\ pool \in {"IDLE", "TRANSMITTING", "STOP"}

Numbers == it \in 0 .. QueueLength /\ errors \in 0 .. MaxUint8 /\ restarts \in 0 .. MaxRestarts

Switches == blocking \in BOOLEAN /\ trigger \in BOOLEAN /\ reboot \in BOOLEAN /\ silent \in BOOLEAN

Names ==
  /\ pool \in {"IDLE", "TRANSMITTING", "RECEIVING", "WAIT", "ERROR", "STOP"}
  /\ port \in {"closed", "open", "tx", "sent", "rx", "done", "error"}
  /\ mpc \in {"top", "pool", "sending", "listening", "rest"}

Data ==
  /\ slave \in Networks /\ asked \in SUBSET Elements
  /\ regs \in [Elements -> Nat] /\ value \in [Elements -> Elements \cup {Nobody}]
  /\ frame \in Reply \cup {NoReply} /\ late \in SUBSET Reply

IInv ==
  /\ Numbers /\ Switches /\ Names /\ Data
  /\ RegistersOfItsSlave /\ RepliesFit /\ ElementInUse /\ RequestOfElement

LEMMA TypesTogether == TypeOK <=> Numbers /\ Switches /\ Names /\ Data
BY DEF TypeOK, Numbers, Switches, Names, Data

LEMMA QueueIsPositive == QueueLength \in Nat /\ QueueLength > 0
BY ModbusConstants

LEMMA NoReplyIsNone == NoReply \notin Reply
BY QueueIsPositive DEF NoReply, Reply, Nobody, Elements

LEMMA InitHolds == Init => IInv
<1> SUFFICES ASSUME Init
             PROVE  IInv
  OBVIOUS
<1>1. Numbers
  BY ModbusConstants, QueueIsPositive DEF Init, Numbers
<1>2. Switches /\ Names /\ ElementInUse /\ RequestOfElement
  BY DEF Init, Switches, Names, ElementInUse, RequestOfElement
<1>3. Data
  BY ModbusConstants DEF Init, Data
<1>4. RegistersOfItsSlave
  BY DEF Init, RegistersOfItsSlave
<1>5. RepliesFit
  BY NoReplyIsNone DEF Init, RepliesFit, Replies
<1>6. QED
  BY <1>1, <1>2, <1>3, <1>4, <1>5 DEF IInv

(* What keeps the registers and the replies keeps what is said of them. *)
LEMMA DataKept ==
  ASSUME IInv, UNCHANGED <<slave, regs, value, frame, late>>, asked' \in SUBSET Elements
  PROVE  Data' /\ RegistersOfItsSlave' /\ RepliesFit'
BY DEF IInv, Data, RegistersOfItsSlave, RepliesFit, Replies, OfSlave

LEMMA ErrorsWrap ==
  ASSUME NEW n \in 0 .. MaxUint8
  PROVE  (n + 1) % (MaxUint8 + 1) \in 0 .. MaxUint8
BY ModbusConstants

(* The pooler and the main loop, where no reply is taken. *)
LEMMA PoolEntryKeeps ==
  ASSUME IInv, PoolEntry
  PROVE  IInv'
<1>1. Numbers'
  BY QueueIsPositive, ErrorsWrap DEF PoolEntry, IInv, Numbers
<1>2. Switches' /\ Names'
  BY DEF PoolEntry, IInv, Switches, Names, config, serial
<1>3. asked' \in SUBSET Elements
  BY DEF PoolEntry, IInv, Data
<1>4. Data' /\ RegistersOfItsSlave' /\ RepliesFit'
  BY <1>3, DataKept DEF PoolEntry, config, serial
<1>5. ElementInUse' /\ RequestOfElement'
  BY QueueIsPositive DEF PoolEntry, IInv, Numbers, ElementInUse, RequestOfElement, Elements, serial
<1>6. QED
  BY <1>1, <1>2, <1>4, <1>5 DEF IInv

LEMMA PoolIdleKeeps ==
  ASSUME IInv, PoolIdle
  PROVE  IInv'
<1>1. it \in Elements /\ (it' = it \/ it' = 0) /\ 0 \in Elements
  BY QueueIsPositive DEF PoolIdle, IInv, ElementInUse, Elements
<1>2. Numbers'
  BY <1>1, QueueIsPositive DEF PoolIdle, IInv, Numbers
<1>3. Switches' /\ Names'
  BY DEF PoolIdle, IInv, Switches, Names, config
<1>4. asked' \in SUBSET Elements
  BY <1>1 DEF PoolIdle, IInv, Data
<1>5. Data' /\ RegistersOfItsSlave' /\ RepliesFit'
  BY <1>4, DataKept DEF PoolIdle, config
<1>6. it' \in Elements
  BY <1>1
<1>7. ElementInUse' /\ RequestOfElement'
  BY <1>6 DEF PoolIdle, ElementInUse, RequestOfElement
<1>8. QED
  BY <1>2, <1>3, <1>5, <1>7 DEF IInv

LEMMA PoolKeeps ==
  ASSUME IInv,
         \/ BlockingSent \/ BlockingReceived \/ PoolTransmitting \/ PoolNotReceived
         \/ PoolWait \/ PoolError \/ PoolStop \/ Continue \/ SerialStart
  PROVE  IInv'
<1>1. asked' = asked /\ UNCHANGED <<config, regs, value, frame, late>>
  BY DEF BlockingSent, BlockingReceived, PoolTransmitting, PoolNotReceived, PoolWait, PoolError,
         PoolStop, Continue, SerialStart, config, pooler, serial
<1>2. Data' /\ RegistersOfItsSlave' /\ RepliesFit'
  BY <1>1, DataKept DEF IInv, Data, config
<1>3. Switches' /\ Names'
  BY DEF IInv, Switches, Names, BlockingSent, BlockingReceived, PoolTransmitting, PoolNotReceived,
         PoolWait, PoolError, PoolStop, Continue, SerialStart, config, pooler, serial
<1>4. CASE BlockingSent \/ BlockingReceived \/ PoolTransmitting \/ PoolNotReceived \/ PoolStop
  <2>1. UNCHANGED <<it, errors, restarts>>
    BY <1>4 DEF BlockingSent, BlockingReceived, PoolTransmitting, PoolNotReceived, PoolStop, pooler
  <2>2. ElementInUse' /\ RequestOfElement'
    BY <1>4, <2>1 DEF BlockingSent, BlockingReceived, PoolTransmitting, PoolNotReceived, PoolStop, IInv,
       ElementInUse, RequestOfElement, pooler, serial
  <2>3. QED
    BY <1>2, <1>3, <2>1, <2>2 DEF IInv, Numbers
<1>5. CASE PoolWait \/ PoolError
  <2>1. it \in Elements /\ port # "tx" /\ mpc' = "rest" /\ port' = port
    BY <1>5 DEF PoolWait, PoolError, IInv, ElementInUse, RequestOfElement, serial
  <2>2. Numbers'
    BY <1>5, <2>1, QueueIsPositive, ErrorsWrap DEF PoolWait, PoolError, IInv, Numbers, Elements
  <2>3. QED
    BY <1>2, <1>3, <2>1, <2>2 DEF IInv, ElementInUse, RequestOfElement
<1>6. CASE Continue \/ SerialStart
  <2>1. Numbers'
    BY <1>6, ModbusConstants DEF Continue, SerialStart, IInv, Numbers, pooler
  <2>2. ElementInUse' /\ RequestOfElement'
    BY <1>6 DEF Continue, SerialStart, IInv, ElementInUse, RequestOfElement, pooler, serial
  <2>3. QED
    BY <1>2, <1>3, <2>1, <2>2 DEF IInv
<1>7. QED
  BY <1>4, <1>5, <1>6

(* A reply is taken by an element of the slave that it comes from. *)
LEMMA PoolReceivedKeeps ==
  ASSUME IInv, PoolReceived
  PROVE  IInv'
<1>1. it \in Elements /\ slave' = slave
  BY DEF IInv, ElementInUse, PoolReceived, config
<1>2. ASSUME Accepts(frame)
      PROVE  /\ frame.of \in Elements /\ frame.n \in Nat
             /\ slave[frame.of] = slave[it] /\ OfSlave(it, frame.n)
  <2>1. frame \in Reply
    BY <1>2 DEF IInv, Data, Accepts, NoReply
  <2>2. OfSlave(frame.of, frame.n)
    BY <2>1 DEF IInv, RepliesFit, Replies
  <2>3. QED
    BY <1>2, <2>1, <2>2 DEF Accepts, OfSlave, Reply
<1>3. Numbers' /\ Switches' /\ Names'
  BY DEF IInv, Numbers, Switches, Names, PoolReceived, config
<1>4. Data'
  BY <1>1, <1>2 DEF IInv, Data, PoolReceived, config
<1>5. RegistersOfItsSlave'
  <2>1. ASSUME NEW i \in Elements
        PROVE  value'[i] # Nobody => slave[value'[i]] = slave[i]
    BY <1>1, <1>2 DEF IInv, Data, RegistersOfItsSlave, PoolReceived
  <2>2. ASSUME NEW i \in Elements
        PROVE  \E j \in Elements : slave[j] = slave[i] /\ regs'[i] = Registers[j]
    BY <1>1, <1>2 DEF IInv, Data, RegistersOfItsSlave, PoolReceived, OfSlave
  <2>3. QED
    BY <1>1, <2>1, <2>2 DEF RegistersOfItsSlave
<1>6. RepliesFit'
  BY NoReplyIsNone DEF IInv, PoolReceived, config, RepliesFit, Replies, OfSlave
<1>7. ElementInUse' /\ RequestOfElement'
  BY DEF PoolReceived, ElementInUse, RequestOfElement
<1>8. QED
  BY <1>3, <1>4, <1>5, <1>6, <1>7 DEF IInv

LEMMA ResetKeeps ==
  ASSUME IInv, Reset
  PROVE  IInv'
<1>1. Numbers'
  BY ModbusConstants, QueueIsPositive DEF IInv, Numbers, Reset
<1>2. Switches' /\ Names' /\ ElementInUse' /\ RequestOfElement'
  BY DEF IInv, Switches, Names, Reset, config, ElementInUse, RequestOfElement
<1>3. Data'
  BY ModbusConstants DEF IInv, Data, Reset, config
<1>4. RegistersOfItsSlave'
  BY DEF Reset, config, RegistersOfItsSlave
<1>5. RepliesFit'
  BY NoReplyIsNone DEF IInv, Reset, config, RepliesFit, Replies, OfSlave
<1>6. QED
  BY <1>1, <1>2, <1>3, <1>4, <1>5 DEF IInv

(* The request that is out was made for the element in use. *)
LEMMA RequestSentKeeps ==
  ASSUME IInv, RequestSent
  PROVE  IInv'
<1>1. it \in Elements /\ regs[it] \in Nat /\ OfSlave(it, regs[it])
  BY DEF IInv, Data, RequestSent, RequestOfElement, RegistersOfItsSlave, OfSlave
<1>2. \/ late' = late
      \/ \E f \in Reply : late' = late \cup {f} /\ OfSlave(f.of, f.n)
  <2>1. CASE \E k \in {"data", "exception", "other"} :
               late' = late \cup {[of |-> it, n |-> regs[it], kind |-> k]}
    <3>1. PICK k \in {"data", "exception", "other"} :
             late' = late \cup {[of |-> it, n |-> regs[it], kind |-> k]}
      BY <2>1
    <3>2. [of |-> it, n |-> regs[it], kind |-> k] \in Reply
      BY <1>1 DEF Reply
    <3>3. QED
      BY <1>1, <3>1, <3>2
  <2>2. QED
    BY <2>1 DEF RequestSent
<1>3. Numbers' /\ Switches' /\ Names' /\ ElementInUse' /\ RequestOfElement'
  BY DEF IInv, Numbers, Switches, Names, ElementInUse, RequestOfElement, RequestSent, config, pooler
<1>4. Data'
  BY <1>2 DEF IInv, Data, RequestSent, config, pooler
<1>5. RegistersOfItsSlave'
  BY DEF IInv, RequestSent, config, pooler, RegistersOfItsSlave
<1>6. RepliesFit'
  BY <1>2 DEF IInv, RequestSent, config, pooler, RepliesFit, Replies, OfSlave
<1>7. QED
  BY <1>3, <1>4, <1>5, <1>6 DEF IInv

LEMMA LineKeeps ==
  ASSUME IInv,
         \/ \E f \in late : ReplyReceived(f) \/ ReplyLost(f)
         \/ Timeout \/ Silence \/ UNCHANGED vars
  PROVE  IInv'
<1>1. UNCHANGED <<config, pool, it, regs, value, errors, asked, trigger, reboot, mpc, restarts>>
  BY DEF ReplyReceived, ReplyLost, Timeout, Silence, vars, pooler
<1>2. /\ port' = port \/ port' \in {"done", "error"}
      /\ silent' = silent \/ silent' = TRUE
      /\ Replies' \subseteq Replies
  BY DEF Replies, ReplyReceived, ReplyLost, Timeout, Silence, vars, pooler, serial
<1>3. frame' \in Reply \cup {NoReply} /\ late' \in SUBSET Reply
  BY DEF IInv, Data, ReplyReceived, ReplyLost, Timeout, Silence, vars, serial
<1>4. Numbers' /\ Names' /\ ElementInUse' /\ RequestOfElement'
  BY <1>1, <1>2 DEF IInv, Numbers, Names, ElementInUse, RequestOfElement
<1>5. Switches'
  BY <1>1, <1>2 DEF IInv, Switches, config
<1>6. Data' /\ RegistersOfItsSlave' /\ RepliesFit'
  BY <1>1, <1>2, <1>3 DEF IInv, Data, RegistersOfItsSlave, RepliesFit, OfSlave, config
<1>7. QED
  BY <1>4, <1>5, <1>6 DEF IInv

LEMMA IInvInductive ==
  ASSUME IInv, [Next]_vars
  PROVE  IInv'
BY PoolEntryKeeps, PoolIdleKeeps, PoolKeeps, PoolReceivedKeeps, ResetKeeps, RequestSentKeeps,
   LineKeeps DEF Next, Main, Pool

LEMMA IInvHolds == Spec => []IInv
<1>1. IInv /\ [Next]_vars => IInv'
  BY IInvInductive
<1>2. QED
  BY InitHolds, <1>1, PTL DEF Spec

(* Every field keeps its type. *)
THEOREM TypeCorrect == Spec => []TypeOK
<1>1. IInv => TypeOK
  BY TypesTogether DEF IInv
<1>2. QED
  BY IInvHolds, <1>1, PTL

(* Whatever comes late or instead of another reply, the registers of an     *)
(* element come from its own slave (rtu_parser_03_04_registers).            *)
THEOREM RegistersStayWithSlave == Spec => []RegistersOfItsSlave
<1>1. IInv => RegistersOfItsSlave
  BY DEF IInv
<1>2. QED
  BY IInvHolds, <1>1, PTL

----------------------------------------------------------------------------
(* CycleAsksAll.  The iterator leaves an element only after its request, so *)
(* what has been asked since the queue was rewound is what is before the    *)
(* iterator, and perhaps the element it stands at.                          *)
AskedInOrder ==
  /\ \A i \in Elements : i < it => i \in asked
  /\ \A i \in asked : i <= it /\ slave[i] # NoSlave

WorksOnAsked ==
  pool \in {"TRANSMITTING", "RECEIVING", "WAIT", "ERROR"} \/ mpc \in {"sending", "listening"}
    => it \in asked

CycleInv == AskedInOrder /\ WorksOnAsked

LEMMA CycleInvInit == Init => CycleInv
BY QueueIsPositive DEF Init, CycleInv, AskedInOrder, WorksOnAsked, Elements

LEMMA CycleInvInductive ==
  ASSUME IInv, CycleInv, [Next]_vars
  PROVE  CycleInv'
<1> USE DEF CycleInv, AskedInOrder, WorksOnAsked, config, pooler, serial
<1>n. /\ it \in 0 .. QueueLength /\ asked \in SUBSET Elements
      /\ mpc \in {"pool", "sending", "listening"} => it \in Elements
  BY DEF IInv, Numbers, Data, ElementInUse
<1>e. \A i \in Elements : i \in Nat
  BY DEF Elements
<1>1. CASE Reset
  BY <1>1, <1>e DEF Reset
<1>2. CASE PoolEntry
  <2>1. /\ mpc = "top" /\ mpc' = "pool" /\ UNCHANGED slave
        /\ \/ it' = 0 /\ pool' = "STOP" /\ asked' = {}
           \/ UNCHANGED <<it, pool, asked>>
    BY <1>2 DEF PoolEntry
  <2>2. QED
    BY <1>n, <1>e, <2>1
<1>3. CASE PoolIdle
  <2>1. mpc = "pool" /\ it \in Elements /\ it \in Nat /\ UNCHANGED slave
    BY <1>3, <1>n, <1>e DEF PoolIdle
  <2>2. CASE it' = 0 /\ asked' = {} /\ pool' = "STOP" /\ mpc' = "rest"
    BY <1>e, <2>1, <2>2
  <2>3. CASE UNCHANGED <<it, asked>> /\ pool' = "IDLE" /\ mpc' = "rest"
    BY <2>1, <2>3
  <2>4. CASE slave[it] # NoSlave /\ it' = it /\ asked' = asked \cup {it}
    BY <2>1, <2>4
  <2>5. QED
    BY <1>3, <2>2, <2>3, <2>4 DEF PoolIdle
<1>4. CASE BlockingSent \/ BlockingReceived
  BY <1>4 DEF BlockingSent, BlockingReceived
<1>5. CASE PoolTransmitting \/ PoolReceived \/ PoolNotReceived \/ PoolStop
  BY <1>5 DEF PoolTransmitting, PoolReceived, PoolNotReceived, PoolStop
<1>6. CASE PoolWait \/ PoolError
  <2>1. /\ it \in asked /\ mpc' = "rest" /\ UNCHANGED <<slave, asked>>
        /\ \/ it' = it /\ pool' = pool
           \/ it' = it + 1 /\ pool' = "IDLE"
    BY <1>6 DEF PoolWait, PoolError
  <2>2. \A i \in asked : i \in Nat
    BY <1>n, <1>e
  <2>3. QED
    BY <1>n, <1>e, <2>1, <2>2
<1>7. CASE Continue \/ SerialStart
  BY <1>7 DEF Continue, SerialStart
<1>8. CASE RequestSent \/ Timeout \/ Silence \/ \E f \in late : ReplyReceived(f) \/ ReplyLost(f)
  BY <1>8 DEF RequestSent, Timeout, Silence, ReplyReceived, ReplyLost
<1>9. CASE UNCHANGED vars
  BY <1>9 DEF vars
<1>10. QED
  BY <1>1, <1>2, <1>3, <1>4, <1>5, <1>6, <1>7, <1>8, <1>9 DEF Next, Main, Pool

(* A cycle of the pooler ends only when every configured element up to the  *)
(* first one that is not has been asked, also when rtu_serial_start comes   *)
(* in the middle of it.                                                     *)
THEOREM CycleIsWhole == Spec => CycleAsksAll
<1> DEFINE Configured == {i \in Elements : \A j \in 0 .. i : slave[j] # NoSlave}
<1>1. ASSUME IInv, CycleInv, [Next]_vars
      PROVE  [(pool # "STOP" /\ pool' = "STOP") => asked = Configured]_vars
  <2> SUFFICES ASSUME Next, pool # "STOP", pool' = "STOP"
               PROVE  asked = Configured
    BY <1>1
  <2>n. it \in 0 .. QueueLength /\ asked \in SUBSET Elements /\ \A i \in Elements : i \in Nat
    BY <1>1 DEF IInv, Numbers, Data, Elements
  <2>1. \/ it >= QueueLength
        \/ it \in Elements /\ slave[it] = NoSlave
    <3>1. PoolEntry \/ PoolIdle
      BY DEF Next, Main, Pool, Reset, BlockingSent, BlockingReceived, PoolTransmitting, PoolReceived,
         PoolNotReceived, PoolWait, PoolError, PoolStop, Continue, SerialStart, RequestSent, Timeout,
         Silence, ReplyReceived, ReplyLost, config, pooler
    <3>2. QED
      BY <1>1, <3>1 DEF PoolEntry, PoolIdle, IInv, ElementInUse
  <2>2. \A i \in Elements : i \in asked <=> i < it
    BY <1>1, <2>1, <2>n, QueueIsPositive DEF CycleInv, AskedInOrder, Elements
  <2>3. \A i \in Elements : i < it => slave[i] # NoSlave
    BY <1>1, <2>2 DEF CycleInv, AskedInOrder
  <2>4. ASSUME NEW i \in Elements
        PROVE  i < it <=> \A j \in 0 .. i : slave[j] # NoSlave
    <3>1. \A j \in 0 .. i : j \in Elements
      BY QueueIsPositive DEF Elements
    <3>2. CASE i < it
      BY <2>3, <2>n, <3>1, <3>2
    <3>3. CASE ~(i < it)
      <4>1. it \in 0 .. i /\ it \in Elements
        BY <2>n, <3>3, QueueIsPositive DEF Elements
      <4>2. slave[it] = NoSlave
        BY <2>1, <2>n, <4>1, QueueIsPositive DEF Elements
      <4>3. QED
        BY <3>3, <4>1, <4>2
    <3>4. QED
      BY <3>2, <3>3
  <2>5. QED
    BY <2>2, <2>4, <2>n
<1>2. IInv /\ CycleInv /\ [Next]_vars => CycleInv'
  BY CycleInvInductive
<1>3. QED
  BY IInvHolds, CycleInvInit, <1>1, <1>2, PTL DEF Spec, CycleAsksAll
----------------------------------------------------------------------------
(* The pooler and the port it waits for keep step.  The two loops of        *)
(* rtu_serial_blocking_io have no end of their own: while they turn, the    *)
(* request of the element is on its way out or out, and then a reception is *)
(* open, has ended with a reply, or with an error.  The same holds of the   *)
(* two states in which the pooler waits without blocking, also when         *)
(* rtu_serial_start or the reboot comes in the middle of an exchange.       *)
WaitsForItsPort ==
  /\ mpc = "sending" \/ pool = "TRANSMITTING" => port \in {"tx", "sent"}
  /\ mpc = "listening" \/ pool = "RECEIVING" => port \in {"rx", "done", "error"}

(* The blocking exchange begins with the pooler idle and leaves it so.      *)
BlockingFromIdle == mpc \in {"sending", "listening"} => pool = "IDLE"

(* No wait of the pooler is for a port that is closed or does something     *)
(* else, for every queue, configuration and behaviour of the slaves: what   *)
(* CycleEnds needs besides the transmission and the timeout that end.       *)
THEOREM NoIdleWait == Spec => []WaitsForItsPort
<1> DEFINE PortInv == WaitsForItsPort /\ BlockingFromIdle
<1> USE DEF WaitsForItsPort, BlockingFromIdle, config, pooler, serial
<1>1. Init => PortInv
  BY DEF Init
<1>2. PortInv /\ [Next]_vars => PortInv'
  <2> SUFFICES ASSUME PortInv, [Next]_vars PROVE PortInv'
    OBVIOUS
  <2>1. CASE Reset
    BY <2>1 DEF Reset
  <2>2. CASE PoolEntry
    BY <2>2 DEF PoolEntry
  <2>3. CASE PoolIdle
    BY <2>3 DEF PoolIdle
  <2>4. CASE BlockingSent \/ BlockingReceived
    BY <2>4 DEF BlockingSent, BlockingReceived
  <2>5. CASE PoolTransmitting
    BY <2>5 DEF PoolTransmitting
  <2>6. CASE PoolReceived \/ PoolNotReceived
    BY <2>6 DEF PoolReceived, PoolNotReceived
  <2>7. CASE PoolWait \/ PoolError \/ PoolStop
    BY <2>7 DEF PoolWait, PoolError, PoolStop
  <2>8. CASE Continue \/ SerialStart
    BY <2>8 DEF Continue, SerialStart
  <2>9. CASE RequestSent \/ Timeout \/ Silence
    BY <2>9 DEF RequestSent, Timeout, Silence
  <2>10. CASE \E f \in late : ReplyReceived(f) \/ ReplyLost(f)
    BY <2>10 DEF ReplyReceived, ReplyLost
  <2>11. CASE UNCHANGED vars
    BY <2>11 DEF vars
  <2>12. QED
    BY <2>1, <2>2, <2>3, <2>4, <2>5, <2>6, <2>7, <2>8, <2>9, <2>10, <2>11 DEF Next, Main, Pool
<1>3. QED
  BY <1>1, <1>2, PTL DEF Spec
=============================================================================
