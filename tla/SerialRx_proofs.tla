--------------------------- MODULE SerialRx_proofs ---------------------------
(***************************************************************************)
(* The receive buffer is never overrun, for every buffer length, byte range *)
(* and set of clients, wherever the interrupts fall; and the driver         *)
(* implements the reception that its clients see, the module Reception.     *)
(* What a client sees changes in the middle of an arming function; the      *)
(* refinement needs that the state which the function has stored, or is     *)
(* about to store, is the one the interrupts act on.                        *)
(***************************************************************************)
EXTENDS SerialRxProps, TLAPS

(* What keeps the counter inside the buffer while an arming function is     *)
(* halfway.  The state WAITING_TO_RX is stored before the counter is        *)
(* cleared, so until then the start byte may count on the counter of the    *)
(* frame before; and the state is only WAITING_TO_RX in the interrupt when  *)
(* the interrupt has just read it.                                          *)
Uncleared  == mpc \in {"wait", "counter"}
TakesStart == rxState = "WAITING_TO_RX" \/ ipc = "waiting"

ArmedLength ==
  /\ mpc \in {"wait", "counter", "length"} => mreq.kind # "callback" /\ mreq.num < BufLn
  /\ (mpc = "state" /\ mreq.kind # "callback") => mreq.num < BufLn

CounterInside ==
  /\ req < BufLn /\ counter <= BufLn
  /\ ~Uncleared => counter < BufLn
  /\ (Uncleared /\ TakesStart) => counter < BufLn
  /\ (~Uncleared /\ TakesStart) => counter = 0
  /\ ipc = "rxing" => rxState # "WAITING_TO_RX"

IInv == TypeOK /\ ArmedLength /\ CounterInside

----------------------------------------------------------------------------
(* The ages and the receive lengths are natural numbers. *)
LEMMA NumberConstants ==
  /\ BufLn \in Nat /\ BufLn >= 2
  /\ Expired \in Nat /\ Expired >= 2
  /\ 0 \in Byte
BY ConstantsAssumption DEF Expired, Byte

(* Every request of a protocol has typed fields. *)
LEMMA RequestFields ==
  ASSUME TypeOK, NEW r \in protocol
  PROVE  /\ r.kind \in {"data", "instant", "callback"}
         /\ r.num \in Nat /\ r.start \in Byte /\ r.stop \in Byte
         /\ r.lenAddr \in Nat /\ r.lenMod \in Nat /\ r.waits \in BOOLEAN
BY ConstantsAssumption DEF TypeOK, Request

(* The remainders the length address is cut to are natural numbers. *)
LEMMA CutToByte == \A n \in Nat : n % 256 \in Nat
BY SMT

(* The Boolean fields apart: the provers settle them better alone. *)
Booleans ==
  /\ term \in BOOLEAN /\ calcStarted \in BOOLEAN /\ toEnable \in BOOLEAN
  /\ waitEnable \in BOOLEAN /\ re \in BOOLEAN /\ rxie \in BOOLEAN /\ ticked \in BOOLEAN

LEMMA TypeInit == Init => TypeOK
<1>1. Init => Booleans
  BY DEF Init, Booleans
<1>2. QED
  BY <1>1, NumberConstants
  DEF Booleans, Init, TypeOK, RxStates, ErrReasons, MainPcs, rxvars, timevars, hwvars, ctlvars

LEMMA TypeStep == TypeOK /\ [Next]_vars => TypeOK'
<1> SUFFICES ASSUME TypeOK, [Next]_vars PROVE TypeOK'
  OBVIOUS
<1> USE DEF TypeOK, RxStates, ErrReasons, MainPcs, rxvars, timevars, hwvars, ctlvars
<1>a. /\ mreq.kind \in {"data", "instant", "callback"} /\ mreq.num \in Nat
      /\ mreq.lenAddr \in Nat /\ mreq.lenMod \in Nat
  BY RequestFields
<1>1. CASE SrlInit
  <2>1. Booleans'
    BY <1>1 DEF Booleans, SrlInit
  <2>2. QED
    BY <1>1, NumberConstants, <2>1
    DEF Booleans, SrlInit
<1>2. CASE SrlClose
  BY <1>2 DEF SrlClose
<1>3. ASSUME NEW on \in BOOLEAN, SrlSwitchTimeout(on) PROVE TypeOK'
  BY <1>3 DEF SrlSwitchTimeout
<1>4. ASSUME NEW on \in BOOLEAN, SrlSwitchTimeoutForWaiting(on) PROVE TypeOK'
  BY <1>4 DEF SrlSwitchTimeoutForWaiting
<1>5. CASE StoreState
  BY <1>5 DEF StoreState, Triggered
<1>6. CASE StoreWaitingStart
  BY <1>6, NumberConstants DEF StoreWaitingStart
<1>7. CASE ClearCounter
  BY <1>7 DEF ClearCounter
<1>8. CASE StoreLength
  BY <1>8, <1>a, CutToByte DEF StoreLength
<1>9. CASE StoreCalcStarted
  BY <1>9, NumberConstants DEF StoreCalcStarted
<1>10. CASE EnableReceiver
  BY <1>10 DEF EnableReceiver
<1>11. CASE StoreStamps
  BY <1>11, NumberConstants DEF StoreStamps
<1>12. CASE SysTick
  <2>1. Booleans'
    BY <1>12 DEF Booleans, SysTick, Older, ReceivingTimedOut, WaitingTimedOut
  <2>2. QED
    BY <1>12, NumberConstants, <2>1
    DEF Booleans, SysTick, Older, ReceivingTimedOut, WaitingTimedOut
<1>13. CASE LineIdle
  BY <1>13 DEF LineIdle
<1>14. CASE IrqDiscard
  BY <1>14 DEF IrqDiscard, Entered
<1>15. CASE IrqEnter
  BY <1>15 DEF IrqEnter, Entered
<1>16. CASE IrqNothingLeft
  <2>1. Booleans'
    BY <1>16 DEF Booleans, IrqNothingLeft
  <2>2. QED
    BY <1>16, NumberConstants, <2>1
    DEF Booleans, IrqNothingLeft
<1>17. CASE IrqWaiting
  <2>1. Booleans'
    BY <1>17 DEF Booleans, IrqWaiting
  <2>2. QED
    BY <1>17, <2>1
    DEF Booleans, IrqWaiting
<1>18. CASE IrqClearWaiting
  <2>1. Booleans'
    BY <1>18 DEF Booleans, IrqClearWaiting
  <2>2. QED
    BY <1>18, <2>1
    DEF Booleans, IrqClearWaiting
<1>19. ASSUME NEW r \in protocol, BeginReceive(r) PROVE TypeOK'
  BY <1>19, <1>a, NumberConstants, RequestFields DEF BeginReceive, WrongCombination, Triggered
<1>20. ASSUME NEW r \in protocol, BeginReceiveWithCallback(r) PROVE TypeOK'
  <2>1. Booleans'
    BY <1>20 DEF Booleans, BeginReceiveWithCallback
  <2>2. QED
    BY <1>20, <1>a, NumberConstants, CutToByte, <2>1
    DEF Booleans, BeginReceiveWithCallback
<1>21. ASSUME NEW b \in Byte, ByteArrives(b) PROVE TypeOK'
  BY <1>21 DEF ByteArrives
<1>22. ASSUME NEW cbStop \in BOOLEAN, IrqStoreByte(cbStop) PROVE TypeOK'
  <2>1. Booleans'
    BY <1>22 DEF Booleans, IrqStoreByte, IsLast, NewReq, Overflows, Announced, LengthByte
  <2>2. NewReq(dr) \in Nat
    BY <1>a, ConstantsAssumption
    DEF NewReq, Overflows, Announced, LengthByte, Byte, NoByte
  <2>3. (counter \in Nat /\ req \in Nat)'
    BY <1>22, <2>2 DEF IrqStoreByte
  <2>4. (rxState \in RxStates /\ errReason \in ErrReasons)'
    BY <1>22 DEF IrqStoreByte
  <2>5. (stopTrigger \in Byte /\ dr \in Byte \cup {NoByte} /\ rxAge \in 0 .. Expired)'
    BY <1>22, NumberConstants DEF IrqStoreByte
  <2>6. QED
    BY <1>22, <1>a, <2>1, <2>3, <2>4, <2>5
    DEF Booleans, IrqStoreByte
<1>23. CASE UNCHANGED vars
  BY <1>23 DEF vars
<1>24. QED
  BY <1>1, <1>2, <1>3, <1>4, <1>5, <1>6, <1>7, <1>8, <1>9, <1>10, <1>11, <1>12, <1>13,
     <1>14, <1>15, <1>16, <1>17, <1>18, <1>19, <1>20, <1>21, <1>22, <1>23
  DEF Next, Arming, Irq

(* Every field keeps its type in every run: no arming step, tick or         *)
(* interrupt of serial.c stores a value its field does not have.            *)
THEOREM TypeCorrect == Spec => []TypeOK
<1>1. QED
  BY TypeInit, TypeStep, PTL DEF Spec

----------------------------------------------------------------------------
LEMMA InvInit == Init => IInv
BY TypeInit, ConstantsAssumption
   DEF Init, IInv, ArmedLength, CounterInside, Uncleared, TakesStart

LEMMA InvStep == IInv /\ [Next]_vars => IInv'
<1> SUFFICES ASSUME IInv, [Next]_vars PROVE IInv'
  OBVIOUS
<1> TypeOK /\ TypeOK'
  BY TypeStep DEF IInv
<1> USE DEF MainRuns, ArmedLength, CounterInside, Uncleared, TakesStart,
            rxvars, timevars, hwvars, ctlvars
<1> SUFFICES (ArmedLength /\ CounterInside)'
  BY DEF IInv
<1>a. /\ BufLn \in Nat /\ BufLn >= 2
      /\ counter \in Nat /\ req \in Nat
      /\ ArmedLength /\ CounterInside
  BY ConstantsAssumption DEF IInv, TypeOK
<1>b. /\ mreq.kind \in {"data", "instant", "callback"} /\ mreq.num \in Nat
  BY RequestFields DEF TypeOK
<1>1. CASE SrlInit
  BY <1>1, <1>a, <1>b DEF SrlInit
<1>2. CASE SrlClose
  BY <1>2, <1>a, <1>b DEF SrlClose
<1>3. ASSUME NEW on \in BOOLEAN, SrlSwitchTimeout(on) PROVE (ArmedLength /\ CounterInside)'
  BY <1>3, <1>a, <1>b DEF SrlSwitchTimeout
<1>4. ASSUME NEW on \in BOOLEAN, SrlSwitchTimeoutForWaiting(on) PROVE (ArmedLength /\ CounterInside)'
  BY <1>4, <1>a, <1>b DEF SrlSwitchTimeoutForWaiting
<1>5. CASE StoreState
  BY <1>5, <1>a, <1>b DEF StoreState, Triggered
<1>6. CASE StoreWaitingStart
  BY <1>6, <1>a, <1>b DEF StoreWaitingStart
<1>7. CASE ClearCounter
  BY <1>7, <1>a, <1>b DEF ClearCounter
<1>8. CASE StoreLength
  BY <1>8, <1>a, <1>b DEF StoreLength
<1>9. CASE StoreCalcStarted
  BY <1>9, <1>a, <1>b DEF StoreCalcStarted
<1>10. CASE EnableReceiver
  BY <1>10, <1>a, <1>b DEF EnableReceiver
<1>11. CASE StoreStamps
  BY <1>11, <1>a, <1>b DEF StoreStamps
<1>12. CASE SysTick
  BY <1>12, <1>a, <1>b DEF SysTick, Older, ReceivingTimedOut, WaitingTimedOut
<1>13. CASE LineIdle
  BY <1>13, <1>a, <1>b DEF LineIdle
<1>14. CASE IrqDiscard
  BY <1>14, <1>a, <1>b DEF IrqDiscard, Entered
<1>15. CASE IrqEnter
  BY <1>15, <1>a, <1>b DEF IrqEnter, Entered
<1>16. CASE IrqNothingLeft
  BY <1>16, <1>a, <1>b DEF IrqNothingLeft
<1>17. CASE IrqWaiting
  BY <1>17, <1>a, <1>b DEF IrqWaiting
<1>18. CASE IrqClearWaiting
  BY <1>18, <1>a, <1>b DEF IrqClearWaiting
<1>19. ASSUME NEW r \in protocol, BeginReceive(r) PROVE (ArmedLength /\ CounterInside)'
  BY <1>19, <1>a, <1>b, RequestFields DEF BeginReceive, WrongCombination, Triggered
<1>20. ASSUME NEW r \in protocol, BeginReceiveWithCallback(r) PROVE (ArmedLength /\ CounterInside)'
  BY <1>20, <1>a, <1>b DEF BeginReceiveWithCallback
<1>21. ASSUME NEW b \in Byte, ByteArrives(b) PROVE (ArmedLength /\ CounterInside)'
  BY <1>21, <1>a, <1>b DEF ByteArrives
<1>22. ASSUME NEW cbStop \in BOOLEAN, IrqStoreByte(cbStop) PROVE (ArmedLength /\ CounterInside)'
  BY <1>22, <1>a, <1>b DEF IrqStoreByte, IsLast, NewReq, Overflows, Announced, LengthByte
<1>23. CASE UNCHANGED vars
  BY <1>23, <1>a, <1>b DEF vars
<1>24. QED
  BY <1>1, <1>2, <1>3, <1>4, <1>5, <1>6, <1>7, <1>8, <1>9, <1>10, <1>11, <1>12, <1>13,
     <1>14, <1>15, <1>16, <1>17, <1>18, <1>19, <1>20, <1>21, <1>22, <1>23
  DEF Next, Arming, Irq

LEMMA InvImpliesSafety == IInv => BufferNeverOverrun
BY ConstantsAssumption
   DEF IInv, TypeOK, CounterInside, Uncleared, TakesStart, BufferNeverOverrun

(* No byte is stored past the end of the receive buffer, whatever lengths   *)
(* the frames announce and wherever the interrupts preempt the arming       *)
(* functions of serial.c.                                                   *)
THEOREM BufferSafe == Spec => []BufferNeverOverrun
<1>1. QED
  BY InvInit, InvStep, InvImpliesSafety, PTL DEF Spec

----------------------------------------------------------------------------
(* What the interrupt and SysTick may find.  The branch the interrupt chose *)
(* is still that of the state unless SysTick has ended the reception; a     *)
(* state that waits for a start byte was armed by a request with one; the   *)
(* timeouts run only where a client switched them on, and not over a        *)
(* completed frame.                                                         *)
AfterArming == mpc \in {"idle", "enable", "stamp"}
ForStart(r) == r.kind # "callback" /\ Triggered(r)

BranchOfState ==
  /\ ipc = "rxing"   => rxState \in {"RXING", "ERROR"}
  /\ ipc = "waiting" => rxState \in {"WAITING_TO_RX", "ERROR"}
  /\ ipc = "clear"   => rxState \in {"RXING", "ERROR"}

StartAsked ==
  /\ (rxState = "WAITING_TO_RX" \/ ipc = "waiting") => \E r \in protocol : ForStart(r)
  /\ (rxState = "WAITING_TO_RX" /\ mpc \in {"wait", "counter", "length", "calc"}) => ForStart(mreq)
  /\ waitEnable => \E s \in protocol : s.waits

FrameUntimed ==
  (rxState = "DONE" /\ AfterArming /\ mreq.kind # "instant") => ~calcStarted

(* On a port without a TimedStart no timeout runs before the start byte, so *)
(* none ends a reception under the interrupt that takes that byte.          *)
StartUntimed ==
  ~TimedStart =>
    /\ (rxState = "WAITING_TO_RX" /\ AfterArming) => ~calcStarted
    /\ (mpc \in {"idle", "stamp"} /\ ipc = "waiting") => rxState = "WAITING_TO_RX"

(* A reception with a callback waits for no start byte, and its receiver is *)
(* on while its stamps are stored; and only SysTick ends a reception under  *)
(* the interrupt that takes the start byte.                                 *)
Listening ==
  /\ mpc \in {"wait", "counter", "length", "calc"} => mreq.kind # "callback"
  /\ mpc = "stamp" => mreq.kind = "callback"
  /\ (mpc \in {"enable", "stamp"} /\ mreq.kind = "callback")
       => rxState # "WAITING_TO_RX" /\ ipc # "waiting"
  /\ (mpc = "stamp" /\ rxState = "RXING") => re /\ rxie
  /\ (ipc = "waiting" /\ rxState = "ERROR") => ticked

ListenInv == BranchOfState /\ StartAsked /\ FrameUntimed /\ StartUntimed /\ Listening

LEMMA ListenInit == Init => ListenInv
BY DEF Init, ListenInv, BranchOfState, StartAsked, FrameUntimed, StartUntimed,
       Listening, AfterArming

(* The requests of a port do not change, so neither does what they allow.   *)
LEMMA ProtocolFixed == [Next]_vars => protocol' = protocol
<1> SUFFICES ASSUME [Next]_vars PROVE protocol' = protocol
  OBVIOUS
<1> USE DEF rxvars, timevars, hwvars, ctlvars
<1>1. CASE SrlInit \/ SrlClose
               \/ \E on \in BOOLEAN : SrlSwitchTimeout(on) \/ SrlSwitchTimeoutForWaiting(on)
  BY <1>1 DEF SrlInit, SrlClose, SrlSwitchTimeout, SrlSwitchTimeoutForWaiting
<1>2. CASE \E r \in protocol : BeginReceive(r) \/ BeginReceiveWithCallback(r)
  BY <1>2 DEF BeginReceive, BeginReceiveWithCallback
<1>3. CASE Arming
  BY <1>3 DEF Arming, StoreState, StoreWaitingStart, ClearCounter, StoreLength,
              StoreCalcStarted, EnableReceiver, StoreStamps
<1>4. CASE SysTick \/ LineIdle \/ \E b \in Byte : ByteArrives(b)
  BY <1>4 DEF SysTick, LineIdle, ByteArrives
<1>5. CASE Irq
  BY <1>5 DEF Irq, IrqDiscard, IrqEnter, IrqNothingLeft, IrqWaiting, IrqClearWaiting, IrqStoreByte
<1>6. CASE UNCHANGED vars
  BY <1>6 DEF vars
<1>7. QED
  BY <1>1, <1>2, <1>3, <1>4, <1>5, <1>6 DEF Next

LEMMA ListenStep == TypeOK /\ ListenInv /\ [Next]_vars => ListenInv'
<1> SUFFICES ASSUME TypeOK, ListenInv, [Next]_vars PROVE ListenInv'
  OBVIOUS
<1>p. protocol' = protocol /\ TimedStart' = TimedStart
  BY ProtocolFixed DEF TimedStart, Triggered
<1>m. /\ mreq \in protocol
      /\ mreq.kind \in {"data", "instant", "callback"}
  BY RequestFields DEF TypeOK
<1>t. (~TimedStart /\ \E r \in protocol : ForStart(r))
        => /\ ~waitEnable
           /\ ForStart(mreq) => mreq.kind = "data"
  BY <1>m DEF ListenInv, StartAsked, TimedStart, ForStart
<1> USE <1>p, <1>m, <1>t DEF MainRuns, ListenInv, BranchOfState, StartAsked, FrameUntimed,
            StartUntimed, Listening, AfterArming, rxvars, timevars, hwvars, ctlvars
<1>1. CASE SrlInit
  BY <1>1 DEF SrlInit
<1>2. CASE SrlClose
  BY <1>2 DEF SrlClose
<1>3. ASSUME NEW on \in BOOLEAN, SrlSwitchTimeout(on) PROVE ListenInv'
  BY <1>3 DEF SrlSwitchTimeout
<1>4. ASSUME NEW on \in BOOLEAN, SrlSwitchTimeoutForWaiting(on) PROVE ListenInv'
  BY <1>4 DEF SrlSwitchTimeoutForWaiting
<1>5. CASE StoreState
  BY <1>5 DEF StoreState, ForStart
<1>6. CASE StoreWaitingStart
  BY <1>6 DEF StoreWaitingStart
<1>7. CASE ClearCounter
  BY <1>7 DEF ClearCounter
<1>8. CASE StoreLength
  BY <1>8 DEF StoreLength
<1>9. CASE StoreCalcStarted
  BY <1>9 DEF StoreCalcStarted, ForStart
<1>10. CASE EnableReceiver
  BY <1>10 DEF EnableReceiver
<1>11. CASE StoreStamps
  BY <1>11 DEF StoreStamps
<1>12. CASE SysTick
  <2>1. /\ rxState' = rxState /\ re' = re /\ rxie' = rxie
        \/ rxState' = "ERROR"
    BY <1>12 DEF SysTick
  <2>2. UNCHANGED <<calcStarted, waitEnable, mpc, mreq, ipc>>
    BY <1>12 DEF SysTick
  <2>3. ipc = "waiting" => ticked'
    BY <1>12 DEF SysTick
  <2>4. (BranchOfState /\ StartAsked /\ FrameUntimed)'
    BY <2>1, <2>2
  <2>5. ~TimedStart => ~(ipc = "waiting" /\ rxState # rxState' /\ mpc \in {"idle", "stamp"})
    BY <1>12 DEF SysTick, ReceivingTimedOut, WaitingTimedOut
  <2>6. StartUntimed'
    BY <2>1, <2>2, <2>5
  <2>7. Listening'
    BY <2>1, <2>2, <2>3
  <2>8. QED
    BY <2>4, <2>6, <2>7
<1>13. CASE LineIdle
  BY <1>13 DEF LineIdle
<1>14. CASE IrqDiscard
  BY <1>14 DEF IrqDiscard, Entered
<1>15. CASE IrqEnter
  BY <1>15 DEF IrqEnter, Entered
<1>16. CASE IrqNothingLeft
  BY <1>16 DEF IrqNothingLeft
<1>17. CASE IrqWaiting
  BY <1>17 DEF IrqWaiting
<1>18. CASE IrqClearWaiting
  BY <1>18 DEF IrqClearWaiting
<1>19. ASSUME NEW r \in protocol, BeginReceive(r) PROVE ListenInv'
  BY <1>19 DEF BeginReceive, WrongCombination
<1>20. ASSUME NEW r \in protocol, BeginReceiveWithCallback(r) PROVE ListenInv'
  BY <1>20 DEF BeginReceiveWithCallback
<1>21. ASSUME NEW b \in Byte, ByteArrives(b) PROVE ListenInv'
  BY <1>21 DEF ByteArrives
<1>22. ASSUME NEW cbStop \in BOOLEAN, IrqStoreByte(cbStop) PROVE ListenInv'
  BY <1>22 DEF IrqStoreByte, IsLast
<1>23. CASE UNCHANGED vars
  BY <1>23 DEF vars
<1>24. QED
  BY <1>1, <1>2, <1>3, <1>4, <1>5, <1>6, <1>7, <1>8, <1>9, <1>10, <1>11, <1>12, <1>13,
     <1>14, <1>15, <1>16, <1>17, <1>18, <1>19, <1>20, <1>21, <1>22, <1>23
  DEF Next, Arming, Irq

(* One step of the driver leaves an armed reception its receiver and its    *)
(* interrupt, but for the one that takes a start byte too late.             *)
LEMMA DeafStep ==
  TypeOK /\ ListenInv /\ [Next]_vars
    => [Deaf' /\ ~Deaf => ipc = "waiting" /\ ticked /\ rxState = "ERROR" /\ TimedStart]_vars
<1> SUFFICES ASSUME TypeOK, ListenInv, Next, Deaf', ~Deaf
             PROVE  ipc = "waiting" /\ ticked /\ rxState = "ERROR" /\ TimedStart
  BY DEF vars
<1> USE DEF Deaf, rxvars, timevars, hwvars, ctlvars
<1>1. CASE SrlInit \/ SrlClose
            \/ \E on \in BOOLEAN : SrlSwitchTimeout(on) \/ SrlSwitchTimeoutForWaiting(on)
  BY <1>1 DEF SrlInit, SrlClose, SrlSwitchTimeout, SrlSwitchTimeoutForWaiting
<1>2. CASE \E r \in protocol : BeginReceive(r) \/ BeginReceiveWithCallback(r)
  BY <1>2 DEF BeginReceive, BeginReceiveWithCallback
<1>3. CASE Arming
  BY <1>3 DEF Arming, StoreState, StoreWaitingStart, ClearCounter, StoreLength,
              StoreCalcStarted, EnableReceiver, StoreStamps, ListenInv, Listening
<1>4. CASE SysTick \/ LineIdle \/ \E b \in Byte : ByteArrives(b)
  BY <1>4 DEF SysTick, LineIdle, ByteArrives
<1>5. CASE IrqWaiting
  <2>1. mpc = "idle" /\ dr = startTrigger /\ ipc = "waiting" /\ re' = re /\ rxie' = rxie
    BY <1>5 DEF IrqWaiting
  <2>2. rxState # "WAITING_TO_RX"
    BY <2>1
  <2>3. rxState = "ERROR" /\ ticked
    BY <2>1, <2>2 DEF ListenInv, BranchOfState, Listening
  <2>4. TimedStart
    BY <2>1, <2>2 DEF ListenInv, StartUntimed
  <2>5. QED
    BY <2>1, <2>3, <2>4
<1>6. CASE IrqDiscard \/ IrqEnter \/ IrqNothingLeft \/ IrqClearWaiting
  BY <1>6 DEF IrqDiscard, IrqEnter, IrqNothingLeft, IrqClearWaiting
<1>7. ASSUME NEW cbStop \in BOOLEAN, IrqStoreByte(cbStop) PROVE FALSE
  BY <1>7 DEF IrqStoreByte, ListenInv, BranchOfState
<1>8. QED
  BY <1>1, <1>2, <1>3, <1>4, <1>5, <1>6, <1>7 DEF Next, Irq

(* An armed reception, waiting for its first byte or in progress, has its   *)
(* receiver and its interrupt on, on every port and wherever the interrupts *)
(* fall; the one step that leaves it without them is that of the interrupt  *)
(* which takes the start byte after a timeout, preempting it, has already   *)
(* ended the reception (serial.c:612-628), and that on a port where a       *)
(* timeout may run before the start byte only.                              *)
THEOREM ReceptionListens == Spec => ReceivingMeansListening
<1>1. QED
  BY TypeInit, TypeStep, ListenInit, ListenStep, DeafStep, PTL DEF Spec, ReceivingMeansListening

(* A completed frame is the client's until it arms again or closes or       *)
(* reopens the port.                                                        *)
CompletedFrameUntouched ==
  [][rxState = "DONE" /\ mpc' = "idle" /\ mreq.kind # "instant"
       => counter' = counter /\ rxState' \in {"DONE", "NOT_CONFIG", "IDLE"}]_vars

(* No step takes a completed frame from its client: only srl_init,          *)
(* srl_close and the client's next reception leave SRL_RX_DONE.             *)
LEMMA FrameStep ==
  TypeOK /\ ListenInv /\ [Next]_vars
    => [rxState = "DONE" /\ mpc' = "idle" /\ mreq.kind # "instant"
          => counter' = counter /\ rxState' \in {"DONE", "NOT_CONFIG", "IDLE"}]_vars
<1> SUFFICES ASSUME TypeOK, ListenInv, Next,
                    rxState = "DONE", mpc' = "idle", mreq.kind # "instant"
             PROVE  counter' = counter /\ rxState' \in {"DONE", "NOT_CONFIG", "IDLE"}
  BY DEF vars
<1> USE DEF rxvars, timevars, hwvars, ctlvars
<1>1. CASE SrlInit \/ SrlClose
               \/ \E on \in BOOLEAN : SrlSwitchTimeout(on) \/ SrlSwitchTimeoutForWaiting(on)
  BY <1>1 DEF SrlInit, SrlClose, SrlSwitchTimeout, SrlSwitchTimeoutForWaiting
<1>2. CASE \E r \in protocol : BeginReceive(r) \/ BeginReceiveWithCallback(r)
  BY <1>2 DEF BeginReceive, BeginReceiveWithCallback
<1>3. CASE Arming
  BY <1>3 DEF Arming, StoreState, StoreWaitingStart, ClearCounter, StoreLength,
              StoreCalcStarted, EnableReceiver, StoreStamps
<1>4. CASE SysTick
  <2>1. mpc = "idle"
    BY <1>4 DEF SysTick
  <2>2. ~calcStarted
    BY <2>1 DEF ListenInv, FrameUntimed, AfterArming
  <2>3. QED
    BY <1>4, <2>2 DEF SysTick, ReceivingTimedOut, WaitingTimedOut
<1>5. CASE LineIdle \/ \E b \in Byte : ByteArrives(b)
  BY <1>5 DEF LineIdle, ByteArrives
<1>6. CASE Irq
  BY <1>6 DEF Irq, IrqDiscard, IrqEnter, IrqNothingLeft, IrqWaiting, IrqClearWaiting,
              IrqStoreByte, ListenInv, BranchOfState
<1>7. QED
  BY <1>1, <1>2, <1>3, <1>4, <1>5, <1>6 DEF Next

(* A completed frame stays its client's in every run. *)
THEOREM FrameStaysUntouched == Spec => CompletedFrameUntouched
<1>1. QED
  BY TypeInit, TypeStep, ListenInit, ListenStep, FrameStep, PTL DEF Spec, CompletedFrameUntouched
----------------------------------------------------------------------------
(* Each step of the driver is a step of Reception or none: the client's     *)
(* calls, the stores of the arming function, the timeouts, and what the     *)
(* interrupt does when it is over.                                          *)
MainLoop ==
  \/ SrlInit \/ SrlClose
  \/ \E on \in BOOLEAN : SrlSwitchTimeout(on) \/ SrlSwitchTimeoutForWaiting(on)
  \/ \E r \in protocol : BeginReceive(r) \/ BeginReceiveWithCallback(r)

(* The state an arming function leaves behind is not that of a closed or of *)
(* an unused port, and on an unused port no timeout runs.                   *)
StateStored ==
  /\ mpc \notin {"idle", "state"} => rxState \notin {"NOT_CONFIG", "IDLE"}
  /\ rxState = "IDLE" => ~calcStarted

LEMMA StateStoredInit == Init => StateStored
BY DEF Init, StateStored

LEMMA StateStoredStep == TypeOK /\ ListenInv /\ StateStored /\ [Next]_vars => StateStored'
<1> SUFFICES ASSUME TypeOK, ListenInv, StateStored, [Next]_vars PROVE StateStored'
  OBVIOUS
<1> USE DEF StateStored, rxvars, timevars, hwvars, ctlvars
<1>1. CASE MainLoop
  BY <1>1 DEF MainLoop, SrlInit, SrlClose, SrlSwitchTimeout, SrlSwitchTimeoutForWaiting,
              BeginReceive, BeginReceiveWithCallback
<1>2. CASE Arming
  BY <1>2 DEF Arming, StoreState, StoreWaitingStart, ClearCounter, StoreLength,
              StoreCalcStarted, EnableReceiver, StoreStamps
<1>3. CASE SysTick \/ LineIdle \/ \E b \in Byte : ByteArrives(b)
  BY <1>3 DEF SysTick, LineIdle, ByteArrives
<1>4. CASE Irq
  BY <1>4 DEF Irq, IrqDiscard, IrqEnter, IrqNothingLeft, IrqWaiting, IrqClearWaiting, IrqStoreByte,
              ListenInv, BranchOfState
<1>5. CASE UNCHANGED vars
  BY <1>5 DEF vars
<1>6. QED
  BY <1>1, <1>2, <1>3, <1>4, <1>5 DEF Next, MainLoop

LEMMA CallsRefine ==
  ASSUME TypeOK, MainLoop
  PROVE  [R!Next]_(R!view)
<1>1. mpc = "idle" /\ ipc = "idle" /\ Seen = rxState
  BY DEF MainLoop, MainRuns, SrlInit, SrlClose, SrlSwitchTimeout, SrlSwitchTimeoutForWaiting,
         BeginReceive, BeginReceiveWithCallback, Seen
<1> USE DEF rxvars, timevars, hwvars, ctlvars
<1>2. CASE SrlInit
  BY <1>1, <1>2 DEF SrlInit, Seen, R!Open, R!Next
<1>3. CASE SrlClose
  BY <1>1, <1>3 DEF SrlClose, Seen, R!Close, R!Next, TypeOK, RxStates
<1>4. CASE \E on \in BOOLEAN : SrlSwitchTimeout(on) \/ SrlSwitchTimeoutForWaiting(on)
  BY <1>1, <1>4 DEF SrlSwitchTimeout, SrlSwitchTimeoutForWaiting, Seen, R!view
<1>5. ASSUME NEW r \in protocol, BeginReceive(r), WrongCombination(r)
      PROVE  UNCHANGED R!view
  BY <1>1, <1>5 DEF BeginReceive, Seen, R!view
<1>6. ASSUME NEW r \in protocol, BeginReceiveWithCallback(r) \/ (BeginReceive(r) /\ ~WrongCombination(r))
      PROVE  R!Arm
  <2>1. rxState \in {"IDLE", "WAITING_TO_RX", "DONE", "ERROR"}
    BY <1>6 DEF BeginReceive, BeginReceiveWithCallback, TypeOK, RxStates
  <2>2. mpc' = "state" /\ counter' \in {counter, 0}
    BY <1>6 DEF BeginReceive, BeginReceiveWithCallback
  <2>3. QED
    BY <1>1, <2>1, <2>2 DEF Seen, R!Arm
<1>7. QED
  BY <1>2, <1>3, <1>4, <1>5, <1>6 DEF MainLoop, R!Next

(* Within an arming function the client sees nothing yet; when it is over,  *)
(* the interrupt is.                                                        *)
LEMMA ArmingRefines ==
  ASSUME IInv', StateStored, mpc # "idle", mreq' = mreq,
         mpc' = "idle" => ipc' = "idle" /\ rxState' = rxState /\ mpc # "state"
  PROVE  R!Next
<1>1. counter' \in 0 .. BufLn
  BY NumberConstants DEF IInv, TypeOK, CounterInside
<1>2. Seen = "ARMING"
  BY DEF Seen
<1>3. Seen' \in {"ARMING", "WAITING_TO_RX", "RXING", "DONE", "ERROR"}
  BY DEF IInv, TypeOK, RxStates, StateStored, Seen
<1>4. QED
  BY <1>1, <1>2, <1>3 DEF R!Arming, R!Next

LEMMA WithinArming ==
  ASSUME IInv', StateStored, mpc # "idle", Next
  PROVE  R!Next
<1>1. ~MainLoop
  BY DEF MainLoop, SrlInit, SrlClose, SrlSwitchTimeout, SrlSwitchTimeoutForWaiting,
         BeginReceive, BeginReceiveWithCallback
<1> USE DEF rxvars, timevars, hwvars, ctlvars
<1>2. CASE Arming
  BY <1>2, ArmingRefines DEF Arming, MainRuns, StoreState, StoreWaitingStart, ClearCounter,
     StoreLength, StoreCalcStarted, EnableReceiver, StoreStamps
<1>3. CASE SysTick \/ LineIdle \/ \E b \in Byte : ByteArrives(b)
  BY <1>3, ArmingRefines DEF SysTick, LineIdle, ByteArrives
<1>4. CASE Irq
  BY <1>4, ArmingRefines
     DEF Irq, IrqDiscard, IrqEnter, IrqNothingLeft, IrqWaiting, IrqClearWaiting, IrqStoreByte
<1>5. QED
  BY <1>1, <1>2, <1>3, <1>4 DEF Next, MainLoop

(* A timeout ends a reception in progress, or one that was completed with   *)
(* an instant timeout; while the interrupt works on a byte its client sees  *)
(* that later.                                                              *)
LEMMA TickRefines ==
  ASSUME TypeOK, ListenInv, StateStored, mpc = "idle", SysTick
  PROVE  [R!Next]_(R!view)
<1> USE DEF rxvars, timevars, hwvars, ctlvars
<1>1. mpc' = "idle" /\ UNCHANGED <<ipc, mreq, counter>>
  BY DEF SysTick
<1>2. CASE ipc # "idle" \/ rxState' = rxState
  BY <1>1, <1>2 DEF Seen, R!view, TypeOK
<1>3. CASE ipc = "idle" /\ rxState' # rxState
  <2>1. rxState' = "ERROR" /\ (ReceivingTimedOut \/ WaitingTimedOut)
    BY <1>3 DEF SysTick
  <2>2. rxState \in {"WAITING_TO_RX", "RXING"} \/ (rxState = "DONE" /\ mreq.kind = "instant")
    BY <1>3, <2>1 DEF ReceivingTimedOut, WaitingTimedOut, TypeOK, RxStates, ListenInv,
       FrameUntimed, AfterArming, StateStored
  <2>3. QED
    BY <1>1, <1>3, <2>1, <2>2 DEF Seen, R!TimesOut, R!Next
<1>4. QED
  BY <1>2, <1>3

LEMMA InterruptRefines ==
  ASSUME IInv, TypeOK, ListenInv, mpc = "idle", Irq
  PROVE  [R!Next]_(R!view)
<1> USE DEF rxvars, timevars, hwvars, ctlvars
<1>1. CASE IrqDiscard \/ IrqEnter
  BY <1>1 DEF IrqDiscard, IrqEnter, Entered, Seen, R!view
<1>2. ASSUME NEW cbStop \in BOOLEAN, IrqStoreByte(cbStop)
      PROVE  R!Takes
  <2>1. counter \in Nat /\ counter < BufLn /\ counter' = counter + 1
    BY <1>2, InvImpliesSafety DEF IrqStoreByte, BufferNeverOverrun, TypeOK
  <2>2. Seen = "RXING" /\ Seen' = rxState' /\ mreq' = mreq
    BY <1>2 DEF IrqStoreByte, Seen
  <2>3. rxState' \in {"RXING", "DONE", "ERROR"}
    BY <1>2 DEF IrqStoreByte, ListenInv, BranchOfState
  <2>4. QED
    BY <2>1, <2>2, <2>3 DEF R!Takes
<1>3. CASE IrqNothingLeft
  BY <1>3 DEF IrqNothingLeft, Seen, R!Ends, R!Next
<1>4. CASE IrqWaiting
  <2>1. counter \in Nat /\ counter < BufLn
    BY <1>4, InvImpliesSafety DEF IrqWaiting, BufferNeverOverrun, TypeOK
  <2>2. CASE dr = startTrigger
    BY <1>4, <2>1, <2>2 DEF IrqWaiting, Seen, R!Takes, R!Next
  <2>3. CASE dr # startTrigger
    <3>1. Seen = "WAITING_TO_RX" /\ Seen' \in {"WAITING_TO_RX", "ERROR"}
      BY <1>4, <2>3 DEF IrqWaiting, Seen, ListenInv, BranchOfState
    <3>2. counter' = counter /\ mreq' = mreq
      BY <1>4, <2>3 DEF IrqWaiting
    <3>3. QED
      BY <3>1, <3>2 DEF R!TimesOut, R!Next, R!view
  <2>4. QED
    BY <2>2, <2>3
<1>5. CASE IrqClearWaiting
  BY <1>5 DEF IrqClearWaiting, Seen, ListenInv, BranchOfState, R!TimesOut, R!Next, R!view
<1>6. QED
  BY <1>1, <1>2, <1>3, <1>4, <1>5 DEF Irq, R!Next

LEMMA StepsOfReception ==
  IInv /\ ListenInv /\ StateStored /\ [Next]_vars => [R!Next]_(R!view)
<1> SUFFICES ASSUME IInv, ListenInv, StateStored, [Next]_vars
             PROVE  [R!Next]_(R!view)
  OBVIOUS
<1>1. TypeOK /\ IInv'
  BY InvStep DEF IInv
<1>2. CASE UNCHANGED vars
  BY <1>2 DEF vars, rxvars, timevars, hwvars, ctlvars, Seen, R!view
<1>3. CASE MainLoop
  BY <1>1, <1>3, CallsRefine
<1>4. CASE Next /\ mpc # "idle"
  BY <1>1, <1>4, WithinArming
<1>5. CASE Next /\ ~MainLoop /\ mpc = "idle"
  <2>1. SysTick \/ Irq \/ LineIdle \/ \E b \in Byte : ByteArrives(b)
    BY <1>5 DEF Next, MainLoop, Arming, StoreState, StoreWaitingStart, ClearCounter,
       StoreLength, StoreCalcStarted, EnableReceiver, StoreStamps
  <2>2. CASE LineIdle \/ \E b \in Byte : ByteArrives(b)
    BY <2>2 DEF LineIdle, ByteArrives, rxvars, timevars, ctlvars, Seen, R!view
  <2>3. QED
    BY <1>1, <1>5, <2>1, <2>2, TickRefines, InterruptRefines
<1>6. QED
  BY <1>2, <1>3, <1>4, <1>5

(* The driver implements Reception for every buffer, byte range, timeout    *)
(* and set of clients: whatever the interrupts interleave with the stores   *)
(* of an arming function, and SysTick with the interrupt, a client sees a   *)
(* reception run its course once and a completed frame stay as it is.       *)
THEOREM ReceptionImplemented == Spec => ImplementsReception
<1>1. Init => R!Init
  BY DEF Init, Seen, R!Init
<1>2. QED
  BY InvInit, InvStep, TypeInit, TypeStep, ListenInit, ListenStep, StateStoredInit,
     StateStoredStep, StepsOfReception, <1>1, PTL DEF Spec, IInv, ImplementsReception, R!Spec
=============================================================================
