--------------------------- MODULE SerialTx_proofs ---------------------------
(***************************************************************************)
(* Proofs about the transmitting half of the serial driver, for every       *)
(* length of the buffer, every delay and whatever lengths the clients pass. *)
(*                                                                          *)
(* That a frame is complete needs an account of the bytes that have been    *)
(* fetched: each has left the shift register, is in it, or is in the data   *)
(* register.  The rest of the invariant says what is left in the two        *)
(* registers when no transmission goes on, and what the TC flag means.      *)
(* With it the driver implements the transmission that its clients and the  *)
(* bus see, the module Transmission, and never waits for an interrupt that  *)
(* does not come.                                                           *)
(***************************************************************************)
EXTENDS SerialTxProps, TLAPS

(* TC is set when both registers are empty, and the data register is filled *)
(* in front of a full shift register.                                       *)
Registers ==
  /\ tc => ~shifting
  /\ drFull => shifting

(* A frame that was asked for again just when it had begun waits with its   *)
(* first bytes in the registers.                                            *)
CutShort == txState = "WAITING" /\ cut

(* Nothing is left of a frame that fitted the buffer; of another one, only  *)
(* the byte on the line.                                                    *)
RegistersAtRest ==
  /\ txState = "NOT_CONFIG" => ~shifting
  /\ (txState \in {"IDLE", "WAITING"} /\ ~CutShort) => ~drFull
  /\ (txState = "IDLE" /\ req < BufLn) => ~shifting

(* The RS-485 driver never stays on when no transmission goes on, except of *)
(* a frame that was cut short, nor goes off before the last byte of a frame *)
(* left the shift register.                                                 *)
BusDirection ==
  /\ pin => txState = "TXING" \/ CutShort
  /\ (txState = "IDLE" /\ req \in 1 .. BufLn - 1) => ~shifting /\ ~drFull

(* The whole frame is on the line when the driver reports the end of its    *)
(* transmission.                                                            *)
FrameComplete ==
  [][(txState = "TXING" /\ txState' = "IDLE" /\ req \in 1 .. BufLn - 1) => sent = req]_vars

OnTheWay == (IF shifting THEN 1 ELSE 0) + (IF drFull THEN 1 ELSE 0)

(* The bytes fetched from the buffer are all accounted for. *)
Accounted ==
  txState = "TXING" => /\ counter = sent + OnTheWay
                       /\ req >= 1 => counter <= req

(* The interrupt waits for TC when it has fetched the last byte. *)
PollsAtEnd == ipc = "poll" => txState = "TXING" /\ counter >= req

PinMeansSending == pin => txState = "TXING" \/ CutShort

Numbers ==
  /\ counter \in 0 .. BufLn + 1 /\ req \in 0 .. 2^16 - 1
  /\ age \in 0 .. Off /\ sent \in Nat \cup {-1}

Switches == drFull \in BOOLEAN /\ shifting \in BOOLEAN /\ tc \in BOOLEAN /\ pin \in BOOLEAN
            /\ cut \in BOOLEAN

Names ==
  /\ port \in Ports
  /\ txState \in {"NOT_CONFIG", "IDLE", "WAITING", "TXING"}
  /\ cr1 \in SUBSET {"TE", "TXEIE", "TCIE"} /\ saved \in SUBSET {"TE", "TXEIE", "TCIE"}
  /\ mpc \in {"idle", "again", "stamp", "readTXEIE", "writeTXEIE", "readTCIE", "writeTCIE"}
  /\ ipc \in {"idle", "poll"}

IInv ==
  /\ Numbers /\ Switches /\ Names /\ NeverPastBuffer
  /\ Registers /\ RegistersAtRest /\ Accounted /\ PollsAtEnd /\ PinMeansSending

LEMMA TypesTogether == TypeOK <=> Numbers /\ Switches /\ Names
BY DEF TypeOK, Numbers, Switches, Names

LEMMA DelayIsNumber == DelayTicks \in Nat /\ Off \in Nat /\ Off = DelayTicks + 1 /\ DelayTicks > 0
BY TxConstants DEF Off

LEMMA BufferIsNumber == BufLn \in Nat /\ BufLn > 1
BY TxConstants

LEMMA InitHolds == Init => IInv
<1> SUFFICES ASSUME Init
             PROVE  IInv
  OBVIOUS
<1>1. Numbers
  BY DelayIsNumber, BufferIsNumber DEF Init, Numbers
<1>2. Switches /\ Names
  BY DEF Init, Switches, Names, Ports
<1>3. NeverPastBuffer /\ Registers /\ RegistersAtRest /\ Accounted /\ PollsAtEnd /\ PinMeansSending
  BY DEF Init, NeverPastBuffer, Registers, RegistersAtRest, CutShort, Accounted, PollsAtEnd,
         PinMeansSending
<1>4. QED
  BY <1>1, <1>2, <1>3 DEF IInv

(* A transmission starts with one byte in the shift register or behind the  *)
(* one that is still there.                                                 *)
LEMMA FirstByteKeeps ==
  ASSUME IInv, txState \in {"IDLE", "WAITING"}, FirstByte,
         req' \in 0 .. 2^16 - 1, age' \in 0 .. Off, cut' \in BOOLEAN,
         cr1' \in SUBSET {"TE", "TXEIE", "TCIE"}, UNCHANGED <<port, pin, saved, ipc>>,
         mpc' \in {"idle", "again", "stamp", "readTXEIE", "writeTXEIE", "readTCIE", "writeTCIE"}
  PROVE  IInv'
<1>1. Numbers'
  BY BufferIsNumber DEF Numbers, FirstByte
<1>2. Switches' /\ Names'
  BY DEF IInv, Switches, Names, FirstByte, WriteDr
<1>3. NeverPastBuffer'
  BY BufferIsNumber DEF NeverPastBuffer, FirstByte
<1>4. ipc = "idle"
  BY DEF IInv, PollsAtEnd, Names
<1>5. Registers' /\ RegistersAtRest' /\ PollsAtEnd' /\ PinMeansSending'
  BY <1>4 DEF Registers, RegistersAtRest, PollsAtEnd, PinMeansSending, FirstByte, WriteDr
<1>6. Accounted'
  BY <1>4 DEF Accounted, OnTheWay, FirstByte, WriteDr
<1>7. QED
  BY <1>1, <1>2, <1>3, <1>5, <1>6 DEF IInv

LEMMA LengthsFit ==
  ASSUME Names, NEW leng \in Lengths[port]
  PROVE  leng \in -1 .. BufLn /\ leng % 2^16 \in 0 .. 2^16 - 1
<1>1. leng \in -1 .. BufLn
  BY TxConstants DEF Names
<1>2. QED
  BY <1>1, BufferIsNumber

LEMMA StartKeeps ==
  ASSUME IInv, NEW leng \in Lengths[port], SrlStartTx(leng) \/ SrlSendData(leng)
  PROVE  IInv'
<1>1. /\ txState \in {"IDLE", "WAITING"} /\ UNCHANGED <<port, age, pin, saved, ipc>>
      /\ mpc' \in {"again", "stamp", "readTXEIE"} /\ cut' \in {FALSE, cut}
  <2>1. CASE SrlStartTx(leng)
    BY <2>1 DEF SrlStartTx, Callable
  <2>2. CASE SrlSendData(leng)
    BY <2>2 DEF SrlSendData, Callable
  <2>3. QED
    BY <2>1, <2>2
<1>2. req' \in 0 .. 2^16 - 1 /\ age' \in 0 .. Off /\ cut' \in BOOLEAN
  <2>1. leng \in -1 .. BufLn /\ leng % 2^16 \in 0 .. 2^16 - 1
    BY LengthsFit DEF IInv
  <2>2. BufLn \in Nat /\ BufLn < 2^15
    BY TxConstants
  <2>3. req' \in 0 .. 2^16 - 1
    BY <2>1, <2>2 DEF SrlStartTx, SrlSendData, StoredLength
  <2>4. age' \in 0 .. Off
    BY <1>1 DEF IInv, Numbers
  <2>5. cut' \in BOOLEAN
    BY <1>1 DEF IInv, Switches
  <2>6. QED
    BY <2>3, <2>4, <2>5
<1>3. CASE FirstByte /\ cr1' = cr1 \cup {"TE"}
  <2>1. cr1' \in SUBSET {"TE", "TXEIE", "TCIE"}
    BY <1>3 DEF IInv, Names
  <2>2. QED
    BY <1>1, <1>2, <1>3, <2>1, FirstByteKeeps
<1>4. CASE txState' = "WAITING" /\ UNCHANGED <<counter, cr1, hw>>
  <2>1. Numbers' /\ Switches' /\ Names'
    BY <1>1, <1>2, <1>4 DEF IInv, Numbers, Switches, Names, hw
  <2>2. CutShort => CutShort'
    BY <1>1, <1>4 DEF CutShort, SrlStartTx, SrlSendData, FirstByte
  <2>3. /\ NeverPastBuffer' /\ Registers' /\ RegistersAtRest' /\ Accounted' /\ PollsAtEnd'
        /\ PinMeansSending'
    BY <1>1, <1>4, <2>2 DEF IInv, NeverPastBuffer, Registers, RegistersAtRest, Accounted,
       PollsAtEnd, PinMeansSending, CutShort, hw
  <2>4. QED
    BY <2>1, <2>3 DEF IInv
<1>5. QED
  BY <1>3, <1>4 DEF SrlStartTx, SrlSendData

(* What leaves the transmission as it is keeps what is said of it. *)
LEMMA TransmissionKept ==
  ASSUME IInv, UNCHANGED <<txState, counter, req, hw, pin, ipc, cut>>
  PROVE  /\ Switches'
         /\ NeverPastBuffer' /\ Registers' /\ RegistersAtRest' /\ Accounted' /\ PollsAtEnd'
         /\ PinMeansSending'
BY DEF IInv, Switches, NeverPastBuffer, Registers, RegistersAtRest, Accounted, PollsAtEnd,
       PinMeansSending, CutShort, OnTheWay, hw

(* The rest of the main loop opens, closes, and stores states, times, CR1.  *)
LEMMA MainKeeps ==
  ASSUME IInv,
         \/ SrlInit \/ SrlClose \/ Starting
         \/ \E on \in BOOLEAN : SrlSwitchTxDelay(on)
  PROVE  IInv'
<1>1. Numbers'
  BY DelayIsNumber DEF IInv, Numbers, SrlInit, SrlClose, Starting, SrlSwitchTxDelay, WaitAgain,
     StoreStartTime, ReadCr1, WriteTXEIE, WriteTCIE, hw
<1>2. Names'
  BY DEF IInv, Names, SrlInit, SrlClose, Starting, SrlSwitchTxDelay, WaitAgain, StoreStartTime,
     ReadCr1, WriteTXEIE, WriteTCIE
<1>3. CASE SrlInit \/ SrlClose
  <2>1. ipc' = "idle" /\ txState' \in {"IDLE", "NOT_CONFIG"}
    BY <1>3 DEF SrlInit, SrlClose, MainRuns
  <2>2. ~pin'
    BY <1>3 DEF SrlInit, SrlClose, IInv, PinMeansSending, CutShort
  <2>3. Switches'
    BY <1>3, <2>2 DEF SrlInit, SrlClose, IInv, Switches
  <2>4. Registers' /\ RegistersAtRest'
    BY <1>3 DEF SrlInit, SrlClose, IInv, Registers, RegistersAtRest, CutShort
  <2>5. NeverPastBuffer' /\ Accounted' /\ PollsAtEnd' /\ PinMeansSending'
    BY <2>1, <2>2 DEF NeverPastBuffer, Accounted, PollsAtEnd, PinMeansSending
  <2>6. QED
    BY <1>1, <1>2, <2>3, <2>4, <2>5 DEF IInv
<1>4. CASE (Starting /\ ~WaitAgain) \/ \E on \in BOOLEAN : SrlSwitchTxDelay(on)
  <2>1. UNCHANGED <<txState, counter, req, hw, pin, ipc, cut>>
    BY <1>4 DEF Starting, SrlSwitchTxDelay, StoreStartTime, ReadCr1, WriteTXEIE, WriteTCIE
  <2>2. QED
    BY <1>1, <1>2, <2>1, TransmissionKept DEF IInv
<1>5. CASE WaitAgain
  <2>1. Switches' /\ Registers'
    BY <1>5 DEF WaitAgain, IInv, Switches, Registers, hw
  <2>2. NeverPastBuffer' /\ Accounted' /\ PollsAtEnd'
    BY <1>5 DEF WaitAgain, MainRuns, NeverPastBuffer, Accounted, PollsAtEnd
  <2>3. RegistersAtRest' /\ PinMeansSending'
    BY <1>5 DEF WaitAgain, IInv, Names, Registers, RegistersAtRest, PinMeansSending, CutShort, hw
  <2>4. QED
    BY <1>1, <1>2, <2>1, <2>2, <2>3 DEF IInv
<1>6. QED
  BY <1>3, <1>4, <1>5

LEMMA SysTickKeeps ==
  ASSUME IInv, SysTick
  PROVE  IInv'
<1>1. age' \in 0 .. Off /\ cut' \in BOOLEAN
  BY DelayIsNumber DEF IInv, Numbers, Switches, SysTick, Older
<1>2. CASE txState = "WAITING" /\ FirstByte /\ cr1' = cr1 \cup {"TE", "TXEIE", "TCIE"}
  BY <1>1, <1>2, FirstByteKeeps DEF SysTick, IInv, Numbers, Names
<1>3. CASE UNCHANGED <<txState, counter, cr1, hw>>
  <2>1. Numbers' /\ Names'
    BY <1>1, <1>3 DEF SysTick, IInv, Numbers, Names, hw
  <2>2. QED
    BY <1>3, <2>1, TransmissionKept DEF SysTick, IInv
<1>4. QED
  BY <1>2, <1>3 DEF SysTick

LEMMA ShiftDoneKeeps ==
  ASSUME IInv, ShiftDone
  PROVE  IInv'
<1>1. Numbers' /\ Names'
  BY DEF ShiftDone, IInv, Numbers, Names
<1>2. Switches' /\ Registers' /\ RegistersAtRest'
  BY DEF ShiftDone, IInv, Switches, Registers, RegistersAtRest, CutShort
<1>3. OnTheWay' = OnTheWay - 1
  BY DEF ShiftDone, IInv, Switches, OnTheWay
<1>4. Accounted'
  BY <1>3 DEF ShiftDone, IInv, Numbers, Accounted, OnTheWay
<1>5. NeverPastBuffer' /\ PollsAtEnd' /\ PinMeansSending'
  BY DEF ShiftDone, IInv, NeverPastBuffer, PollsAtEnd, PinMeansSending, CutShort
<1>6. QED
  BY <1>1, <1>2, <1>4, <1>5 DEF IInv

(* The transmitter is turned off at the end of the buffer only for a frame  *)
(* that does not fit it.                                                    *)
LEMMA IrqSendByteKeeps ==
  ASSUME IInv, IrqSendByte
  PROVE  IInv'
<1>1. txState = "TXING" /\ ipc = "idle" /\ ~drFull
  BY DEF IrqSendByte, Entered, TXE
<1>2. Numbers'
  BY <1>1, BufferIsNumber DEF IrqSendByte, IInv, Numbers, NeverPastBuffer
<1>3. Switches' /\ Names' /\ Registers' /\ PollsAtEnd'
  BY <1>1 DEF IrqSendByte, WriteDr, IInv, Switches, Names, Registers, PollsAtEnd
<1>4. CASE PastBuffer(counter + 1)
  <2>1. req >= BufLn
    BY <1>1, <1>4, BufferIsNumber DEF IrqSendByte, PastBuffer, IInv, Numbers
  <2>2. NeverPastBuffer' /\ Accounted' /\ PinMeansSending'
    BY <1>4 DEF IrqSendByte, NeverPastBuffer, Accounted, PinMeansSending
  <2>3. RegistersAtRest'
    BY <1>4, <2>1, BufferIsNumber DEF IrqSendByte, RegistersAtRest, CutShort, IInv, Numbers
  <2>4. QED
    BY <1>2, <1>3, <2>2, <2>3 DEF IInv
<1>5. CASE ~PastBuffer(counter + 1)
  <2>1. NeverPastBuffer' /\ RegistersAtRest' /\ PinMeansSending'
    BY <1>1, <1>5, BufferIsNumber DEF IrqSendByte, PastBuffer, NeverPastBuffer, RegistersAtRest,
       CutShort, PinMeansSending, IInv, Numbers
  <2>2. OnTheWay' = OnTheWay + 1
    BY <1>1, <1>5 DEF IrqSendByte, WriteDr, OnTheWay, IInv, Switches
  <2>3. Accounted'
    BY <1>1, <1>5, <2>2 DEF IrqSendByte, Accounted, OnTheWay, IInv, Numbers
  <2>4. QED
    BY <1>2, <1>3, <2>1, <2>3 DEF IInv
<1>6. QED
  BY <1>4, <1>5

LEMMA IrqEndKeeps ==
  ASSUME IInv, IrqPollTc \/ IrqFinish
  PROVE  IInv'
<1>1. Numbers' /\ Switches' /\ Names'
  BY DEF IrqPollTc, IrqFinish, IInv, Numbers, Switches, Names, hw
<1>2. CASE IrqPollTc
  BY <1>1, <1>2 DEF IrqPollTc, Entered, IInv, NeverPastBuffer, Registers, RegistersAtRest, Accounted,
     PollsAtEnd, PinMeansSending, CutShort, OnTheWay, hw
<1>3. CASE IrqFinish
  BY <1>1, <1>3 DEF IrqFinish, IInv, NeverPastBuffer, Registers, RegistersAtRest, Accounted,
     PollsAtEnd, PinMeansSending, CutShort
<1>4. QED
  BY <1>2, <1>3

LEMMA IInvInductive ==
  ASSUME IInv, [Next]_vars
  PROVE  IInv'
<1>1. CASE UNCHANGED vars
  BY <1>1, TransmissionKept DEF vars, IInv, Numbers, Names, hw
<1>2. QED
  BY <1>1, StartKeeps, MainKeeps, SysTickKeeps, ShiftDoneKeeps, IrqSendByteKeeps, IrqEndKeeps
     DEF Next, Irq

LEMMA IInvHolds == Spec => []IInv
<1>1. IInv /\ [Next]_vars => IInv'
  BY IInvInductive
<1>2. QED
  BY InitHolds, <1>1, PTL DEF Spec

(* Every field keeps its type. *)
THEOREM TypeCorrect == Spec => []TypeOK
<1>1. IInv => TypeOK
  BY TypesTogether DEF IInv
<1>2. QED
  BY IInvHolds, <1>1, PTL

(* The transmit interrupt (serial.c, the TXE half of srl_irq_handler) never *)
(* fetches a byte from beyond the buffer, also for the length -1 that the   *)
(* KISS client passes.                                                      *)
THEOREM BufferSafe == Spec => []NeverPastBuffer
<1>1. IInv => NeverPastBuffer
  BY DEF IInv
<1>2. QED
  BY IInvHolds, <1>1, PTL

(* The RS-485 driver is on only while a transmission goes on, and goes off  *)
(* when the last byte of the frame is out.                                  *)
THEOREM BusHeldAsLong == Spec => []BusDirection
<1>1. IInv => BusDirection
  <2> SUFFICES ASSUME IInv
               PROVE  BusDirection
    OBVIOUS
  <2>1. pin => txState = "TXING" \/ CutShort
    BY DEF IInv, PinMeansSending
  <2>2. ASSUME txState = "IDLE", req \in 1 .. BufLn - 1
        PROVE  ~shifting /\ ~drFull
    BY <2>2, BufferIsNumber DEF IInv, Registers, RegistersAtRest
  <2>3. QED
    BY <2>1, <2>2 DEF BusDirection
<1>2. QED
  BY IInvHolds, <1>1, PTL

(* A transmission that is reported as ended has put every byte of its frame *)
(* on the line, whatever interrupts came between which steps.               *)
THEOREM FrameIsComplete == Spec => FrameComplete
<1> DEFINE Complete ==
      (txState = "TXING" /\ txState' = "IDLE" /\ req \in 1 .. BufLn - 1) => sent = req
<1>1. ASSUME IInv, [Next]_vars
      PROVE  [Complete]_vars
  <2> SUFFICES ASSUME Next, txState = "TXING", txState' = "IDLE", req \in 1 .. BufLn - 1
               PROVE  sent = req
    BY <1>1
  <2>1. IrqFinish \/ IrqSendByte
    BY DEF Next, SrlInit, SrlClose, SrlSwitchTxDelay, SrlStartTx, SrlSendData, Callable,
           FirstByte, Starting, WaitAgain, StoreStartTime, ReadCr1, WriteTXEIE, WriteTCIE, SysTick,
           ShiftDone, Irq, IrqPollTc
  <2>2. ASSUME IrqSendByte
        PROVE  FALSE
    BY <1>1, <2>2, BufferIsNumber DEF IrqSendByte, PastBuffer, IInv, Numbers, NeverPastBuffer
  <2>3. CASE IrqFinish
    <3>1. ~shifting /\ ~drFull /\ counter >= req
      BY <1>1, <2>3 DEF IrqFinish, IInv, PollsAtEnd, Registers
    <3>2. QED
      BY <1>1, <3>1, BufferIsNumber DEF IInv, Numbers, Accounted, OnTheWay
  <2>4. QED
    BY <2>1, <2>2, <2>3
<1>2. QED
  BY IInvHolds, <1>1, PTL DEF Spec, FrameComplete

----------------------------------------------------------------------------
(* The interrupt enables.  A frame of two bytes or more outlasts its start  *)
(* function: until that is over the transmission is at its first byte, or   *)
(* has filled the data register and waits for the line.  So its end finds   *)
(* the main loop out of the function and clears CR1 for good.               *)
Fits          == req \in 2 .. BufLn - 1
AtFirstBytes  == ipc = "idle" /\ shifting /\ (counter = 1 \/ drFull)
InCr1         == mpc \in {"readTXEIE", "writeTXEIE", "readTCIE", "writeTCIE"}

StartOutlasted ==
  InCr1 => /\ txState \in {"TXING", "IDLE"}
           /\ Fits => txState = "TXING" /\ AtFirstBytes

(* Only the RS-485 port delays its transmissions, and its lengths fit the   *)
(* buffer, so nothing is on its line while it waits, if the frame that      *)
(* waits was not cut short.                                                 *)
DelayedPort ==
  /\ port = "kiss" => age = Off /\ mpc \notin {"again", "stamp"} /\ txState # "WAITING" /\ ~cut
  /\ port = "rs485" => req < BufLn
  /\ (port = "rs485" /\ txState # "TXING" /\ ~CutShort) => ~shifting /\ ~tc
  /\ txState = "WAITING" => ~InCr1
  /\ mpc = "again" => txState # "NOT_CONFIG"

(* A transmission that waits, or is about to, has a start time.             *)
HasStartTime == (txState = "WAITING" \/ mpc \in {"again", "stamp"}) => age <= DelayTicks

StartInv == StartOutlasted /\ DelayedPort /\ HasStartTime

LEMMA StartInvInit == Init => StartInv
BY DelayIsNumber, BufferIsNumber
   DEF Init, StartInv, StartOutlasted, DelayedPort, HasStartTime, Ports, InCr1, CutShort

LEMMA StartsKeepStart ==
  ASSUME IInv, StartInv, NEW leng \in Lengths[port], SrlStartTx(leng) \/ SrlSendData(leng)
  PROVE  StartInv'
<1>1. port = "rs485" => leng \in 0 .. BufLn
  BY LengthsFit, TxConstants DEF IInv
<1>2. port = "rs485" => req' < BufLn
  BY <1>1, BufferIsNumber, TxConstants DEF SrlStartTx, SrlSendData, StoredLength, Callable
<1>3. CASE FirstByte /\ mpc' = "readTXEIE"
  <2>1. txState = "IDLE" \/ port = "kiss"
    BY <1>3 DEF SrlStartTx, SrlSendData
  <2>2. cut' = FALSE /\ UNCHANGED <<port, age, ipc>> /\ ipc = "idle"
    BY <1>3 DEF SrlStartTx, SrlSendData, Callable, MainRuns, FirstByte
  <2>3. QED
    BY <1>2, <1>3, <2>1, <2>2 DEF StartInv, StartOutlasted, DelayedPort, HasStartTime,
       AtFirstBytes, InCr1, CutShort, FirstByte, WriteDr
<1>4. CASE SrlStartTx(leng) /\ txState' = "WAITING" /\ UNCHANGED hw
  <2>1. port = "rs485"
    BY <1>4 DEF SrlStartTx, FirstByte, IInv, Names, Ports, StartInv, DelayedPort
  <2>2. age' <= DelayTicks
    BY <1>4, DelayIsNumber DEF SrlStartTx, IInv, Numbers, StartInv, HasStartTime, FirstByte
  <2>3. mpc' \in {"again", "stamp"} /\ UNCHANGED port /\ (CutShort => CutShort')
    BY <1>4 DEF SrlStartTx, CutShort, FirstByte
  <2>4. (~shifting /\ ~tc) \/ CutShort'
    <3>1. txState # "TXING"
      BY <1>4 DEF SrlStartTx, Callable
    <3>2. (~shifting /\ ~tc) \/ CutShort
      BY <2>1, <3>1 DEF StartInv, DelayedPort
    <3>3. QED
      BY <2>3, <3>2
  <2>5. QED
    BY <1>2, <1>4, <2>1, <2>2, <2>3, <2>4 DEF StartInv, StartOutlasted, DelayedPort, HasStartTime,
       InCr1, hw
<1>5. QED
  BY <1>3, <1>4 DEF SrlStartTx, SrlSendData, FirstByte, hw

LEMMA MainKeepsStart ==
  ASSUME IInv, StartInv,
         \/ SrlInit \/ SrlClose \/ Starting
         \/ \E on \in BOOLEAN : SrlSwitchTxDelay(on)
  PROVE  StartInv'
<1> USE DEF StartInv, StartOutlasted, DelayedPort, HasStartTime, AtFirstBytes, InCr1, CutShort,
            Fits, hw
<1>1. CASE SrlInit
  BY <1>1 DEF SrlInit
<1>2. CASE SrlClose
  BY <1>2 DEF SrlClose
<1>3. ASSUME NEW on \in BOOLEAN, SrlSwitchTxDelay(on)
      PROVE  StartInv'
  BY <1>3, DelayIsNumber DEF SrlSwitchTxDelay
<1>4. CASE WaitAgain
  BY <1>4 DEF WaitAgain, IInv, Names, Ports, Switches
<1>5. CASE StoreStartTime
  BY <1>5, DelayIsNumber DEF StoreStartTime
<1>6. CASE ReadCr1
  BY <1>6 DEF ReadCr1
<1>7. CASE WriteTXEIE
  BY <1>7 DEF WriteTXEIE
<1>8. CASE WriteTCIE
  BY <1>8 DEF WriteTCIE
<1>9. QED
  BY <1>1, <1>2, <1>3, <1>4, <1>5, <1>6, <1>7, <1>8 DEF Starting

LEMMA SysTickKeepsStart ==
  ASSUME IInv, StartInv, SysTick
  PROVE  StartInv'
<1>1. /\ port = "kiss" => age' = Off
      /\ age <= DelayTicks => age' <= DelayTicks
  BY DelayIsNumber DEF SysTick, Older, IInv, Numbers, StartInv, DelayedPort
<1>2. CASE txState = "WAITING" /\ FirstByte
  BY <1>1, <1>2 DEF SysTick, FirstByte, WriteDr, StartInv, StartOutlasted, DelayedPort,
     HasStartTime, InCr1
<1>3. CASE UNCHANGED <<txState, counter, cr1, hw>>
  BY <1>1, <1>3 DEF SysTick, StartInv, StartOutlasted, DelayedPort, HasStartTime, InCr1,
     AtFirstBytes, CutShort, Fits, hw
<1>4. QED
  BY <1>2, <1>3 DEF SysTick

LEMMA LineAndIrqKeepStart ==
  ASSUME IInv, StartInv, ShiftDone \/ Irq
  PROVE  StartInv'
<1> USE DEF StartInv, StartOutlasted, DelayedPort, HasStartTime, AtFirstBytes, InCr1, CutShort,
            Fits, hw
<1>n. /\ counter \in Nat /\ req \in Nat
      /\ Registers
  BY DEF IInv, Numbers
<1>1. CASE ShiftDone
  <2>1. ipc = "poll" => txState = "TXING"
    BY DEF IInv, PollsAtEnd
  <2>2. QED
    BY <1>1, <1>n, <2>1 DEF ShiftDone, Registers
<1>2. CASE IrqSendByte
  <2>1. Fits \/ port = "rs485" => ~PastBuffer(counter + 1)
    BY <1>2, <1>n, BufferIsNumber DEF IrqSendByte, PastBuffer
  <2>2. QED
    BY <1>2, <1>n, <2>1 DEF IrqSendByte, WriteDr, Entered, TXE
<1>3. CASE IrqPollTc
  BY <1>3, <1>n DEF IrqPollTc, Entered, TXE
<1>4. CASE IrqFinish
  <2>1. txState = "TXING"
    BY <1>4 DEF IrqFinish, IInv, PollsAtEnd
  <2>2. QED
    BY <1>4, <1>n, <2>1 DEF IrqFinish, Registers
<1>5. QED
  BY <1>1, <1>2, <1>3, <1>4 DEF Irq

LEMMA StartInvInductive ==
  ASSUME IInv, StartInv, [Next]_vars
  PROVE  StartInv'
<1>1. CASE UNCHANGED vars
  BY <1>1 DEF vars, StartInv, StartOutlasted, DelayedPort, HasStartTime, AtFirstBytes, InCr1,
     CutShort, Fits, hw
<1>2. QED
  BY <1>1, StartsKeepStart, MainKeepsStart, SysTickKeepsStart, LineAndIrqKeepStart DEF Next

LEMMA StartInvHolds == Spec => []StartInv
<1>1. IInv /\ StartInv /\ [Next]_vars => StartInv'
  BY StartInvInductive
<1>2. QED
  BY IInvHolds, StartInvInit, <1>1, PTL DEF Spec

(* The line raises no interrupt that nothing serves, unless it is the last  *)
(* byte of a frame that did not fit or that was cut short.                  *)
LEMMA LineIsServed ==
  ASSUME IInv, StartInv, ShiftDone, txState # "TXING"
  PROVE  req >= BufLn \/ cut
<1> SUFFICES ASSUME req < BufLn, ~cut
             PROVE  FALSE
  BY BufferIsNumber DEF IInv, Numbers
<1>1. shifting /\ txState \in {"NOT_CONFIG", "IDLE", "WAITING"}
  BY DEF ShiftDone, IInv, Names
<1>2. QED
  BY <1>1 DEF IInv, Names, Ports, RegistersAtRest, StartInv, DelayedPort, CutShort

(* A store of CR1 that comes after the end of the transmission is one of a  *)
(* frame of a single byte, or of one that did not fit the buffer.           *)
LEMMA StoreIsServed ==
  ASSUME IInv, StartInv, WriteTXEIE \/ WriteTCIE, txState # "TXING"
  PROVE  \/ mpc \in {"writeTXEIE", "writeTCIE"} /\ txState = "IDLE" /\ req < 2
         \/ req >= BufLn
<1>1. mpc \in {"writeTXEIE", "writeTCIE"}
  BY DEF WriteTXEIE, WriteTCIE
<1>2. txState = "IDLE" /\ ~Fits
  BY <1>1 DEF StartInv, StartOutlasted, InCr1
<1>3. QED
  BY <1>1, <1>2, BufferIsNumber DEF Fits, IInv, Numbers

(* The transmit interrupt is left enabled with nothing to serve only by the *)
(* store of CR1 after the end of a frame of one byte, by a frame that does  *)
(* not fit the buffer, or by one cut short: wherever the interrupts fall    *)
(* between the loads and the stores of srl_start_tx and srl_send_data.      *)
THEOREM InterruptServed == Spec => InterruptIsServed
<1> DEFINE Served ==
      Unserved' /\ ~Unserved =>
        \/ mpc \in {"writeTXEIE", "writeTCIE"} /\ txState = "IDLE" /\ req < 2
        \/ req >= BufLn
        \/ cut
<1>1. ASSUME IInv, StartInv, [Next]_vars
      PROVE  [Served]_vars
  <2> SUFFICES ASSUME Next, Unserved', ~Unserved
               PROVE  \/ mpc \in {"writeTXEIE", "writeTCIE"} /\ txState = "IDLE" /\ req < 2
                      \/ req >= BufLn
                      \/ cut
    BY <1>1
  <2> USE DEF Unserved, IrqPending, TXE, hw
  <2>1. CASE \/ SrlInit \/ SrlClose
             \/ \E on \in BOOLEAN : SrlSwitchTxDelay(on)
             \/ \E leng \in Lengths[port] : SrlStartTx(leng) \/ SrlSendData(leng)
    BY <2>1 DEF SrlInit, SrlClose, SrlSwitchTxDelay, SrlStartTx, SrlSendData, Callable, FirstByte,
       MainRuns
  <2>2. CASE WaitAgain \/ StoreStartTime \/ ReadCr1
    BY <2>2 DEF WaitAgain, StoreStartTime, ReadCr1, MainRuns
  <2>3. CASE WriteTXEIE \/ WriteTCIE
    <3>1. txState # "TXING"
      BY <2>3 DEF WriteTXEIE, WriteTCIE
    <3>2. QED
      BY <1>1, <2>3, <3>1, StoreIsServed
  <2>4. CASE SysTick
    BY <2>4 DEF SysTick, FirstByte
  <2>5. CASE ShiftDone
    <3>1. txState # "TXING"
      BY <2>5 DEF ShiftDone
    <3>2. QED
      BY <1>1, <2>5, <3>1, LineIsServed
  <2>6. CASE Irq
    BY <2>6 DEF Irq, IrqSendByte, IrqPollTc, IrqFinish, Entered
  <2>7. QED
    BY <2>1, <2>2, <2>3, <2>4, <2>5, <2>6 DEF Next, Starting
<1>2. QED
  BY IInvHolds, StartInvHolds, <1>1, PTL DEF Spec, InterruptIsServed
----------------------------------------------------------------------------
(* A transmission always has something to come: the one that waits, its     *)
(* start time and so SysTick; the one that goes on, the transmit interrupt, *)
(* once the start function is over; and the interrupt's loop on TC, a byte  *)
(* on the line or TC itself.                                                *)
GoesOn ==
  /\ txState = "WAITING" => age <= DelayTicks
  /\ txState = "TXING" => shifting \/ tc
  /\ (txState = "TXING" /\ mpc \in {"again", "stamp", "idle"}) => "TXEIE" \in cr1

(* The main loop stores the enables it has read back. *)
EnablesKept ==
  txState = "TXING" => /\ mpc = "readTCIE" => "TXEIE" \in cr1
                       /\ mpc = "writeTCIE" => "TXEIE" \in saved

GoInv == GoesOn /\ EnablesKept

LEMMA GoInvInit == Init => GoInv
BY DEF Init, GoInv, GoesOn, EnablesKept

LEMMA MainKeepsGoing ==
  ASSUME IInv, StartInv, GoInv, MainRuns,
         \/ SrlInit \/ SrlClose \/ Starting
         \/ \E on \in BOOLEAN : SrlSwitchTxDelay(on)
         \/ \E leng \in Lengths[port] : SrlStartTx(leng) \/ SrlSendData(leng)
  PROVE  GoInv'
<1> USE DEF GoInv, GoesOn, EnablesKept, hw
<1>1. CASE SrlInit \/ SrlClose
  BY <1>1 DEF SrlInit, SrlClose
<1>2. ASSUME NEW on \in BOOLEAN, SrlSwitchTxDelay(on)
      PROVE  GoInv'
  BY <1>2, DelayIsNumber DEF SrlSwitchTxDelay
<1>3. ASSUME NEW leng \in Lengths[port], SrlStartTx(leng) \/ SrlSendData(leng)
      PROVE  GoInv'
  <2>1. CASE FirstByte /\ mpc' = "readTXEIE"
    BY <2>1 DEF FirstByte, WriteDr
  <2>2. CASE txState' = "WAITING" /\ mpc' \in {"again", "stamp"}
    BY <1>3, <2>2, DelayIsNumber DEF SrlStartTx, SrlSendData, FirstByte, IInv, Numbers
  <2>3. QED
    BY <1>3, <2>1, <2>2 DEF SrlStartTx, SrlSendData
<1>4. CASE WaitAgain
  BY <1>4 DEF WaitAgain, StartInv, HasStartTime
<1>5. CASE StoreStartTime
  BY <1>5, DelayIsNumber DEF StoreStartTime
<1>6. CASE ReadCr1
  BY <1>6 DEF ReadCr1
<1>7. CASE WriteTXEIE
  BY <1>7 DEF WriteTXEIE
<1>8. CASE WriteTCIE
  BY <1>8 DEF WriteTCIE
<1>9. QED
  BY <1>1, <1>2, <1>3, <1>4, <1>5, <1>6, <1>7, <1>8 DEF Starting

LEMMA SysTickKeepsGoing ==
  ASSUME IInv, StartInv, GoInv, SysTick
  PROVE  GoInv'
<1> USE DEF GoInv, GoesOn, EnablesKept, hw
<1>1. CASE txState = "WAITING" /\ FirstByte
  BY <1>1 DEF SysTick, FirstByte, WriteDr, StartInv, DelayedPort, InCr1
<1>2. CASE UNCHANGED <<txState, counter, cr1, hw>>
  <2>1. age <= DelayTicks => age' <= DelayTicks
    BY DelayIsNumber DEF SysTick, Older, IInv, Numbers
  <2>2. QED
    BY <1>2, <2>1 DEF SysTick
<1>3. QED
  BY <1>1, <1>2 DEF SysTick

LEMMA GoInvInductive ==
  ASSUME IInv, StartInv, GoInv, [Next]_vars
  PROVE  GoInv'
<1> USE DEF GoInv, GoesOn, EnablesKept, hw
<1>1. CASE UNCHANGED vars
  BY <1>1 DEF vars
<1>2. CASE MainRuns /\ ~(SysTick \/ ShiftDone \/ Irq)
  BY <1>1, <1>2, MainKeepsGoing DEF Next
<1>3. CASE ShiftDone
  BY <1>3 DEF ShiftDone
<1>4. CASE Irq
  BY <1>4 DEF Irq, IrqSendByte, IrqPollTc, IrqFinish, Entered, TXE, WriteDr
<1>5. MainRuns \/ SysTick \/ ShiftDone \/ Irq \/ UNCHANGED vars
  BY DEF Next, SrlInit, SrlClose, SrlSwitchTxDelay, SrlStartTx, SrlSendData, Callable,
         Starting, WaitAgain, StoreStartTime, ReadCr1, WriteTXEIE, WriteTCIE
<1>6. QED
  BY <1>1, <1>2, <1>3, <1>4, <1>5, SysTickKeepsGoing

(* No transmission waits for nothing, for every buffer, delay and length:   *)
(* what srl_wait_for_tx_completion polls for is always under way.           *)
THEOREM TransmissionGoesOn == Spec => []GoesOn
<1>1. IInv /\ StartInv /\ GoInv /\ [Next]_vars => GoInv'
  BY GoInvInductive
<1>2. GoInv => GoesOn
  BY DEF GoInv
<1>3. QED
  BY IInvHolds, StartInvHolds, GoInvInit, <1>1, <1>2, PTL DEF Spec

----------------------------------------------------------------------------
(* Each step of the driver is a step of Transmission or none.               *)
LEMMA StartSends ==
  ASSUME IInv, StartInv, NEW leng \in Lengths[port], SrlStartTx(leng) \/ SrlSendData(leng),
         IInv'
  PROVE  T!Send \/ T!SendInstead
<1>1. /\ txState \in {"IDLE", "WAITING"} /\ req' \in Nat /\ pin' = pin
      /\ txState = "IDLE" => cut' = FALSE
  BY DEF SrlStartTx, SrlSendData, Callable, IInv, Numbers
<1>2. CASE FirstByte
  <2>1. txState = "IDLE"
    BY <1>1, <1>2 DEF SrlStartTx, SrlSendData, StartInv, DelayedPort, FirstByte
  <2>2. shifting => ~T!Fits
    BY <2>1, BufferIsNumber DEF IInv, RegistersAtRest, T!Fits
  <2>3. QED
    BY <1>1, <1>2, <2>1, <2>2 DEF FirstByte, T!Send
<1>3. CASE txState = "IDLE" /\ txState' = "WAITING" /\ UNCHANGED hw
  BY <1>1, <1>3 DEF T!Send, hw
<1>4. CASE txState = "WAITING" /\ UNCHANGED <<txState, hw, cut>>
  BY <1>1, <1>4 DEF T!SendInstead, hw
<1>5. QED
  BY <1>2, <1>3, <1>4 DEF SrlStartTx, SrlSendData

LEMMA TickBegins ==
  ASSUME IInv, StartInv, SysTick
  PROVE  T!Begin \/ UNCHANGED T!view
<1>1. CASE txState = "WAITING" /\ FirstByte
  <2>1. shifting => cut
    BY <1>1 DEF IInv, Names, Ports, StartInv, DelayedPort, CutShort
  <2>2. T!Begin
    BY <1>1, <2>1 DEF SysTick, FirstByte, T!Begin, T!Fits
  <2>3. QED
    BY <2>2
<1>2. CASE UNCHANGED <<txState, counter, cr1, hw>>
  BY <1>2 DEF SysTick, hw, T!view
<1>3. QED
  BY <1>1, <1>2 DEF SysTick

LEMMA LineSends ==
  ASSUME IInv, StartInv, ShiftDone
  PROVE  T!ByteOut
<1>1. shifting /\ sent' = sent + 1 /\ UNCHANGED <<txState, req, pin, cut>>
  BY DEF ShiftDone
<1>2. ASSUME req \in 1 .. BufLn - 1, ~cut
      PROVE  txState = "TXING" /\ sent < req
  <2>1. txState \notin {"IDLE", "NOT_CONFIG"}
    BY <1>1, <1>2, BufferIsNumber DEF IInv, RegistersAtRest
  <2>2. txState # "WAITING"
    BY <1>1, <1>2 DEF IInv, Names, Ports, StartInv, DelayedPort, CutShort
  <2>3. txState = "TXING"
    BY <2>1, <2>2 DEF IInv, Names
  <2>4. counter = sent + OnTheWay /\ counter <= req /\ OnTheWay \in {1, 2}
    BY <1>1, <1>2, <2>3, BufferIsNumber DEF IInv, Accounted, OnTheWay
  <2>5. QED
    BY <2>3, <2>4, <1>2 DEF IInv, Numbers
<1>3. QED
  BY <1>1, <1>2 DEF T!ByteOut, T!Fits

LEMMA InterruptEnds ==
  ASSUME IInv, Irq
  PROVE  T!DriverOn \/ T!End \/ UNCHANGED T!view
<1>1. CASE IrqSendByte /\ PastBuffer(counter + 1)
  <2>1. req >= BufLn
    BY <1>1, BufferIsNumber DEF IrqSendByte, Entered, PastBuffer, IInv, Numbers, NeverPastBuffer
  <2>2. QED
    BY <1>1, <2>1, BufferIsNumber DEF IrqSendByte, Entered, T!End, T!Fits, IInv, Numbers
<1>2. CASE IrqSendByte /\ ~PastBuffer(counter + 1)
  BY <1>2 DEF IrqSendByte, Entered, WriteDr, T!DriverOn
<1>3. CASE IrqPollTc
  BY <1>3 DEF IrqPollTc, hw, T!view
<1>4. CASE IrqFinish
  <2>1. txState = "TXING" /\ ~shifting /\ ~drFull /\ counter >= req
    BY <1>4 DEF IrqFinish, IInv, PollsAtEnd, Registers
  <2>2. req \in 1 .. BufLn - 1 => sent = req
    BY <2>1, BufferIsNumber DEF IInv, Numbers, Accounted, OnTheWay
  <2>3. QED
    BY <1>4, <2>1, <2>2 DEF IrqFinish, T!End, T!Fits
<1>5. QED
  BY <1>1, <1>2, <1>3, <1>4 DEF Irq

LEMMA StepsOfTransmission ==
  ASSUME IInv, StartInv, [Next]_vars
  PROVE  [T!Next]_(T!view)
<1>1. CASE UNCHANGED vars
  BY <1>1 DEF vars, hw, T!view
<1>2. CASE SrlInit
  BY <1>2 DEF SrlInit, T!Next, T!Open
<1>3. CASE SrlClose
  <2>1. pin' = pin
    BY <1>3 DEF SrlClose, IInv, PinMeansSending, CutShort, Switches
  <2>2. QED
    BY <1>3, <2>1 DEF SrlClose, T!Next, T!Close
<1>4. CASE (Starting /\ ~WaitAgain) \/ \E on \in BOOLEAN : SrlSwitchTxDelay(on)
  BY <1>4 DEF Starting, SrlSwitchTxDelay, StoreStartTime, ReadCr1, WriteTXEIE, WriteTCIE, hw, T!view
<1>5. ASSUME NEW leng \in Lengths[port], SrlStartTx(leng) \/ SrlSendData(leng)
      PROVE  T!Next
  BY <1>5, StartSends, IInvInductive DEF T!Next
<1>6. CASE SysTick
  BY <1>6, TickBegins DEF T!Next
<1>7. CASE ShiftDone
  BY <1>7, LineSends DEF T!Next
<1>8. CASE Irq
  BY <1>8, InterruptEnds DEF T!Next
<1>9. CASE WaitAgain
  <2>1. txState \in {"TXING", "IDLE", "WAITING"}
    BY <1>9 DEF WaitAgain, IInv, Names, StartInv, DelayedPort
  <2>2. CASE txState = "WAITING"
    BY <1>9, <2>2 DEF WaitAgain, IInv, Switches, hw, T!view
  <2>3. CASE txState \in {"TXING", "IDLE"}
    BY <1>9, <2>3 DEF WaitAgain, hw, T!SendTooLate, T!Next
  <2>4. QED
    BY <2>1, <2>2, <2>3
<1>10. QED
  BY <1>1, <1>2, <1>3, <1>4, <1>5, <1>6, <1>7, <1>8, <1>9 DEF Next, Starting

(* The driver implements Transmission for every buffer, delay and length:   *)
(* the interrupts, the delay and the two registers of the USART are its     *)
(* own business, and a client sees a frame go out whole or not yet.         *)
THEOREM TransmissionImplemented == Spec => ImplementsTransmission
<1>1. Init => T!Init
  BY DEF Init, T!Init
<1>2. IInv /\ StartInv /\ [Next]_vars => [T!Next]_(T!view)
  BY StepsOfTransmission
<1>3. QED
  BY IInvHolds, StartInvHolds, <1>1, <1>2, PTL DEF Spec, ImplementsTransmission, T!Spec
=============================================================================
