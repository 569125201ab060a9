--------------------------- MODULE Sensors_proofs ---------------------------
(***************************************************************************)
(* The sensors.                                                             *)
(*                                                                          *)
(* I2C: a transfer that is taken for successful has reached a slave, for    *)
(* every set of lengths, timeout and number of errors.  SuccessIsReal is    *)
(* not inductive: it needs that a transfer that no slave has heard of has   *)
(* made no progress the event interrupt could take for its end, and that    *)
(* nothing of a transfer that is over is left in the peripheral.  And a     *)
(* transfer that is awaited is never overdue.                               *)
(*                                                                          *)
(* The thermometer and the DHT22: the modem is masked by an exchange only,  *)
(* a humidity that is shown as good is that of the last transfer, nobody    *)
(* waits for the counter of the two while it is switched off, and what      *)
(* the telemetry and the reboot say of the thermometer is earned.           *)
(*                                                                          *)
(* The anemometer: full quality is not given to a corrected batch, and the  *)
(* interval that is made of a batch lies between two true times between its *)
(* pulses.  The loops over a batch are functions defined by recursion over  *)
(* its numbers; what they compute is proved by induction, which is drawn    *)
(* here from the fact that the natural numbers are well founded.            *)
(***************************************************************************)
EXTENDS I2cMaster, WxSensors, Anemometer, SequenceTheorems, WellFoundedInduction, TLAPS

Transfers == {"TXING", "RXING"}

(* When no transfer is under way, the peripheral raises no interrupt. *)
PeripheralRests ==
  state \notin Transfers =>
    sr1 = {} /\ bus = "FREE" /\ (on => ~erPending /\ er = "NO")

(* The main loop starts a transfer when nothing of the last one goes on. *)
NothingGoesOn == main # "WAIT" => NoInterrupt /\ state \notin Transfers

NotHeard == main = "WAIT" /\ ~acked /\ first = 0

(* Under way with nothing sent or received, or given up. *)
NoProgress ==
  \/ state = "ERROR"
  \/ /\ state \in Transfers /\ mode # "NO" /\ len # 0
     /\ bus \in {"START", "STARTED", "ADDRESS", "REFUSED"}
     /\ sr1 \subseteq {"SB", "AF", "BERR"}

Unheard == NotHeard => counter = 0 /\ ev = "NO" /\ er # "STORE" /\ NoProgress

IInv == PeripheralRests /\ NothingGoesOn /\ Unheard

(* The main loop starts transfers of at least one byte. *)
LEMMA StartKeeps ==
  ASSUME IInv, SendData \/ ReceiveData
  PROVE  IInv'
<1>1. PICK n \in Nat : /\ n # 0 /\ main # "WAIT" /\ state' \in Transfers
                       /\ \/ Started("TX", n, counter)
                          \/ Started("RX", n, 0)
  BY I2cConstants DEF SendData, ReceiveData, Transfers
<1>2. NoInterrupt /\ sr1 = {}
  BY <1>1 DEF IInv, NothingGoesOn, PeripheralRests
<1>3. PeripheralRests' /\ NothingGoesOn'
  BY <1>1 DEF Started, PeripheralRests, NothingGoesOn
<1>4. Unheard'
  BY <1>1, <1>2 DEF Started, NoInterrupt, Unheard, NotHeard, NoProgress
<1>5. QED
  BY <1>3, <1>4 DEF IInv

LEMMA AwaitedKeeps ==
  ASSUME IInv, Awaited
  PROVE  IInv'
BY DEF IInv, PeripheralRests, NothingGoesOn, Unheard, NotHeard, Awaited, NoInterrupt, Transfers,
       driver, hw, history

(* The event interrupt ends only what has made progress. *)
LEMMA EventKeeps ==
  ASSUME IInv, EventInterrupt
  PROVE  IInv'
<1> USE DEF IInv, PeripheralRests, NothingGoesOn, NoInterrupt, Unheard, NotHeard, NoProgress, Transfers
<1>1. CASE EvStart
  BY <1>1 DEF EvStart, Event, EvEnds, AllSent, history
<1>2. CASE EvAddress
  BY <1>2 DEF EvAddress, Event, EvEnds, AllSent, history
<1>3. CASE EvTransmit
  BY <1>3 DEF EvTransmit, Event, EvEnds, AllSent, history
<1>4. CASE EvReceive
  BY <1>4 DEF EvReceive, Event, history
<1>5. CASE EvStop
  BY <1>5 DEF EvStop, Stop, history
<1>6. QED
  BY <1>1, <1>2, <1>3, <1>4, <1>5 DEF EventInterrupt

(* The error interrupt takes back only what has been counted. *)
LEMMA ErrorKeeps ==
  ASSUME IInv, ErrorInterrupt
  PROVE  IInv'
<1> USE DEF IInv, PeripheralRests, NothingGoesOn, NoInterrupt, Unheard, NotHeard, NoProgress, Transfers
<1>1. CASE ErEnters
  BY <1>1 DEF ErEnters, ErRuns, history
<1>2. CASE ErRestarts
  BY <1>2 DEF ErRestarts, ErRuns, history
<1>3. CASE ErStores
  BY <1>3 DEF ErStores, ErRuns, hw, history
<1>4. CASE ErCounts
  BY <1>4 DEF ErCounts, ErRuns, hw, history
<1>5. CASE ErGivesUp
  BY <1>5 DEF ErGivesUp, ErRuns, GiveUp, Stop, StateAfterFailure, history
<1>6. QED
  BY <1>1, <1>2, <1>3, <1>4, <1>5 DEF ErrorInterrupt

LEMMA SysTickKeeps ==
  ASSUME IInv, SysTick
  PROVE  IInv'
<1> USE DEF IInv, PeripheralRests, NothingGoesOn, NoInterrupt, Unheard, NotHeard, NoProgress, Transfers
<1>1. CASE KeepTimeout
  BY <1>1 DEF KeepTimeout, Guarded, hw, history
<1>2. CASE TimeoutGivesUp
  BY <1>2 DEF TimeoutGivesUp, GiveUp, Stop, StateAfterFailure, history
<1>3. QED
  BY <1>1, <1>2 DEF SysTick

LEMMA PeripheralKeeps ==
  ASSUME IInv, Peripheral
  PROVE  IInv'
<1> USE DEF IInv, PeripheralRests, NothingGoesOn, NoInterrupt, Unheard, NotHeard, NoProgress, Transfers,
            Peripheral, Bus, driver
<1>1. CASE StartSent
  BY <1>1 DEF StartSent
<1>2. CASE Addressed
  BY <1>2 DEF Addressed
<1>3. CASE ByteOut
  BY <1>3 DEF ByteOut
<1>4. CASE ByteIn
  BY <1>4 DEF ByteIn
<1>5. CASE BusError
  BY <1>5 DEF BusError
<1>6. QED
  BY <1>1, <1>2, <1>3, <1>4, <1>5

LEMMA IInvInductive ==
  ASSUME IInv, [Next]_vars
  PROVE  IInv'
<1>1. CASE HoldClock \/ UNCHANGED vars
  BY <1>1 DEF HoldClock, vars, driver, hw, history, IInv, PeripheralRests, NothingGoesOn,
              NoInterrupt, Unheard, NotHeard, NoProgress
<1>2. QED
  BY <1>1, StartKeeps, AwaitedKeeps, EventKeeps, ErrorKeeps, SysTickKeeps, PeripheralKeeps DEF Next

(* What a sensor driver takes for a successful transfer (ms5611.c:43) has   *)
(* reached a slave, wherever the three interrupts fall, unless the transfer *)
(* began with the counter of another one.                                   *)
THEOREM SuccessReachedSlave == Spec => []SuccessIsReal
<1>1. Init => IInv
  BY DEF Init, IInv, PeripheralRests, NothingGoesOn, NoInterrupt, Unheard, NotHeard, Transfers
<1>2. IInv /\ [Next]_vars => IInv'
  BY IInvInductive
<1>3. IInv => SuccessIsReal
  BY DEF IInv, Unheard, NotHeard, NoProgress, Transfers, SuccessIsReal
<1>4. QED
  BY <1>1, <1>2, <1>3, PTL DEF Spec

----------------------------------------------------------------------------
(* TypeCorrect.  The counters are bytes, and the limit of errors leaves     *)
(* room above it in theirs.                                                 *)
LEMMA CountersAreBytes == \A n \in Nat : Byte(n) \in 0 .. 255
BY SMT DEF Byte

LEMMA ConstantsAreBytes ==
  /\ SendLengths \cup ReceiveLengths \subseteq 1 .. 31
  /\ Timeout \in Nat /\ MaxErrors \in Nat /\ MaxErrors + 2 \in 0 .. 255
BY I2cConstants

Numbers ==
  /\ {counter, errors, saved, first} \subseteq 0 .. 255
  /\ len \in {0} \cup SendLengths \cup ReceiveLengths /\ age \in 0 .. Timeout + 1

Switches ==
  on \in BOOLEAN /\ erPending \in BOOLEAN /\ held \in BOOLEAN /\ acked \in BOOLEAN

Handlers ==
  /\ state \in {"IDLE", "RXING", "TXING", "ERROR"} /\ mode \in {"NO", "TX", "RX"}
  /\ main \in {"FREE", "SENT", "WAIT"} /\ ev \in {"NO", "STOPPING"}
  /\ er \in {"NO", "STOPPING", "STORE", "COUNT", "GIVING_UP"} /\ tick \in {"NO", "GIVING_UP"}

Flags ==
  /\ sr1 \in SUBSET {"SB", "ADDR", "TXE", "RXNE", "AF", "BERR"}
  /\ bus \in {"FREE", "START", "STARTED", "ADDRESS", "ADDRESSED", "REFUSED", "EMPTY", "FULL",
              "DATA"}

Typed == Numbers /\ Switches /\ Handlers /\ Flags

LEMMA TypesTogether == TypeOK <=> Typed
BY DEF TypeOK, Typed, Numbers, Switches, Handlers, Flags

LEMMA NextIsByte ==
  ASSUME Numbers
  PROVE  /\ Byte(counter + 1) \in 0 .. 255 /\ Byte(errors + 1) \in 0 .. 255
         /\ Byte(saved + 255) \in 0 .. 255
<1>1. counter + 1 \in Nat /\ errors + 1 \in Nat /\ saved + 255 \in Nat
  BY DEF Numbers
<1>2. QED
  BY <1>1, CountersAreBytes

LEMMA MainTyped ==
  ASSUME Typed, SendData \/ ReceiveData \/ Awaited
  PROVE  Typed'
<1> USE DEF Typed
<1>1. Numbers'
  BY ConstantsAreBytes DEF Numbers, SendData, ReceiveData, Started, Awaited, driver, history
<1>2. Switches'
  BY DEF Switches, SendData, ReceiveData, Started, Awaited, hw, history
<1>3. Handlers' /\ Flags'
  BY DEF Handlers, Flags, SendData, ReceiveData, Started, Awaited, driver, hw
<1>4. QED
  BY <1>1, <1>2, <1>3

LEMMA EventTyped ==
  ASSUME Typed, EventInterrupt
  PROVE  Typed'
<1> USE DEF Typed, EventInterrupt, EvStart, EvAddress, EvTransmit, EvReceive, EvStop, Event,
        EvEnds, Stop
<1>1. Byte(counter + 1) \in 0 .. 255
  BY NextIsByte
<1>2. Numbers'
  BY <1>1 DEF Numbers, history
<1>3. Switches'
  BY DEF Switches, history
<1>4. Handlers' /\ Flags'
  BY DEF Handlers, Flags
<1>5. QED
  BY <1>2, <1>3, <1>4

LEMMA ErrorTyped ==
  ASSUME Typed, ErrorInterrupt
  PROVE  Typed'
<1> USE DEF Typed, ErrorInterrupt, ErEnters, ErRestarts, ErStores, ErCounts, ErGivesUp, GiveUp,
        Stop, StateAfterFailure, hw
<1>1. /\ Byte(errors + 1) \in 0 .. 255 /\ Byte(saved + 255) \in 0 .. 255
      /\ MaxErrors + 2 \in 0 .. 255
  BY NextIsByte, ConstantsAreBytes
<1>2. Numbers'
  BY <1>1 DEF Numbers, history
<1>3. Switches'
  BY DEF Switches, history
<1>4. Handlers'
  BY DEF Handlers
<1>5. Flags'
  BY DEF Flags
<1>6. QED
  BY <1>2, <1>3, <1>4, <1>5

LEMMA SysTickTyped ==
  ASSUME Typed, SysTick
  PROVE  Typed'
<1> USE DEF Typed, SysTick, KeepTimeout, TimeoutGivesUp, GiveUp, Stop, StateAfterFailure, hw
<1>1. Numbers'
  BY ConstantsAreBytes DEF Numbers, history
<1>2. Switches'
  BY DEF Switches, history
<1>3. Handlers' /\ Flags'
  BY DEF Handlers, Flags
<1>4. QED
  BY <1>1, <1>2, <1>3

LEMMA PeripheralTyped ==
  ASSUME Typed, Peripheral
  PROVE  Typed'
<1> USE DEF Typed, Peripheral, StartSent, Addressed, ByteOut, ByteIn, BusError, Bus
<1>1. Numbers'
  BY DEF Numbers, driver
<1>2. Switches'
  BY DEF Switches
<1>3. Handlers'
  BY DEF Handlers, driver
<1>4. Flags'
  BY DEF Flags
<1>5. QED
  BY <1>1, <1>2, <1>3, <1>4

(* Every field of the driver and of the peripheral keeps its type: the data *)
(* counter, the error counter and the counter the error interrupt has       *)
(* loaded are bytes (i2c.c:14-30), wherever the interrupts fall.            *)
THEOREM TypeCorrect == Spec => []TypeOK
<1>1. Init => Typed
  <2> SUFFICES ASSUME Init
               PROVE  Typed
    OBVIOUS
  <2>1. Numbers
    BY ConstantsAreBytes DEF Init, Numbers
  <2>2. Switches
    BY DEF Init, Switches
  <2>3. Handlers /\ Flags
    BY DEF Init, Handlers, Flags
  <2>4. QED
    BY <2>1, <2>2, <2>3 DEF Typed
<1>2. Typed /\ [Next]_vars => Typed'
  <2> SUFFICES ASSUME Typed, [Next]_vars
               PROVE  Typed'
    OBVIOUS
  <2>1. CASE HoldClock \/ UNCHANGED vars
    <3>1. UNCHANGED <<driver, hw, main, ev, er, tick, saved, history>> /\ held' \in {held, TRUE}
      BY <2>1 DEF HoldClock, vars
    <3>2. Numbers' /\ Switches'
      BY <3>1 DEF driver, hw, history, Typed, Numbers, Switches
    <3>3. Handlers' /\ Flags'
      BY <3>1 DEF driver, hw, Typed, Handlers, Flags
    <3>4. QED
      BY <3>2, <3>3 DEF Typed
  <2>2. QED
    BY <2>1, MainTyped, EventTyped, ErrorTyped, SysTickTyped, PeripheralTyped DEF Next
<1>3. QED
  BY <1>1, <1>2, TypesTogether, PTL DEF Spec

----------------------------------------------------------------------------
(* The timeout is in time: while a sensor driver waits for a transfer that  *)
(* neither the event nor the error interrupt has ended, the transfer is not *)
(* older than the timeout, or SysTick is just giving it up.                 *)
TimeoutInTime == state \in Transfers => age <= Timeout \/ tick = "GIVING_UP"

(* What the bus does not end, i2cKeepTimeout does (i2c.c:308-316), for      *)
(* every timeout and every length: a transfer that the error interrupt      *)
(* starts again is given no more time, and the next one none of the last.   *)
(* This is what TransferEnds needs besides a SysTick that comes.            *)
THEOREM TransferIsTimed == Spec => []TimeoutInTime
<1>1. Init => TimeoutInTime
  BY DEF Init, TimeoutInTime, Transfers
<1>2. TypeOK /\ TimeoutInTime /\ [Next]_vars => TimeoutInTime'
  <2> SUFFICES ASSUME TypeOK, TimeoutInTime, [Next]_vars PROVE TimeoutInTime'
    OBVIOUS
  <2> USE DEF TimeoutInTime, Transfers, driver, hw
  <2>1. CASE SendData \/ ReceiveData
    BY <2>1, I2cConstants DEF SendData, ReceiveData, Started
  <2>2. CASE Awaited \/ Peripheral \/ HoldClock
    BY <2>2 DEF Awaited, Peripheral, HoldClock
  <2>3. CASE EventInterrupt
    BY <2>3 DEF EventInterrupt, EvStart, EvAddress, EvTransmit, EvReceive, EvStop, Event
  <2>4. CASE ErrorInterrupt
    BY <2>4 DEF ErrorInterrupt, ErEnters, ErRestarts, ErStores, ErCounts, ErGivesUp, GiveUp,
       StateAfterFailure
  <2>5. CASE KeepTimeout
    <3>1. age \in Nat /\ Timeout \in Nat
      BY I2cConstants DEF TypeOK
    <3>2. QED
      BY <2>5, <3>1 DEF KeepTimeout, Guarded
  <2>6. CASE TimeoutGivesUp
    BY <2>6 DEF TimeoutGivesUp, GiveUp, StateAfterFailure
  <2>7. CASE UNCHANGED vars
    BY <2>7 DEF vars
  <2>8. QED
    BY <2>1, <2>2, <2>3, <2>4, <2>5, <2>6, <2>7 DEF Next, SysTick
<1>3. QED
  BY <1>1, <1>2, TypeCorrect, PTL DEF Spec

----------------------------------------------------------------------------
(* The anemometer: a correction that get_qf has not told is in a flag that  *)
(* get_qf has still to read.                                                *)
UntoldIsFlagged ==
  untold => \/ asked = "NO" /\ (slew \/ bounced)
            \/ asked = "SLEW_CLEAR" /\ bounced

(* Full quality is not given while the correction of the last batch has not *)
(* been told, for every length of a batch, timer and wind, unless the       *)
(* interrupt of that batch fell into a call of get_qf.                      *)
THEOREM FullIsUncorrected == WindSpec => FullMeansUncorrected
<1>1. WindInit => UntoldIsFlagged
  BY DEF WindInit, UntoldIsFlagged
<1>2. UntoldIsFlagged /\ [WindNext]_windVars => UntoldIsFlagged'
  <2> SUFFICES ASSUME UntoldIsFlagged, [WindNext]_windVars PROVE UntoldIsFlagged'
    OBVIOUS
  <2> USE DEF UntoldIsFlagged, flags
  <2>1. CASE Tick
    BY <2>1 DEF Tick
  <2>2. CASE Pulse
    BY <2>2 DEF Pulse
  <2>3. CASE WindSteadies
    BY <2>3 DEF WindSteadies
  <2>4. CASE TimerIrq
    BY <2>4 DEF TimerIrq
  <2>5. CASE DmaIrqDrops
    BY <2>5 DEF DmaIrqDrops
  <2>6. CASE DmaIrqMeasures
    <3>1. PICK d \in {Debounced(Measured)} : \E s \in {SlewLimited(d)} :
            /\ slew' = (s # d)
            /\ untold' = ((Bounces # {} \/ s # d) /\ asked = "NO")
      BY <2>6 DEF DmaIrqMeasures
    <3>2. bounced' = (Bounces # {}) /\ asked' = asked
      BY <2>6 DEF DmaIrqMeasures
    <3>3. QED
      BY <3>1, <3>2
  <2>7. CASE DmaIrqEnds
    BY <2>7 DEF DmaIrqEnds
  <2>8. CASE GetQfStarts
    BY <2>8 DEF GetQfStarts
  <2>9. CASE GetQfTests
    BY <2>9 DEF GetQfTests
  <2>10. CASE GetQfClears
    BY <2>10 DEF GetQfClears
  <2>11. CASE GetQfReturns
    BY <2>11 DEF GetQfReturns
  <2>12. CASE UNCHANGED windVars
    BY <2>12 DEF windVars
  <2>13. QED
    BY <2>1, <2>2, <2>3, <2>4, <2>5, <2>6, <2>7, <2>8, <2>9, <2>10, <2>11, <2>12
       DEF WindNext, DmaIrq, GetQf
<1>3. UntoldIsFlagged /\ [WindNext]_windVars =>
        [asked = "SLEW_CLEAR" /\ asked' = "FULL" => ~untold]_windVars
  <2> SUFFICES ASSUME UntoldIsFlagged, WindNext, asked = "SLEW_CLEAR", asked' = "FULL"
               PROVE  ~untold
    OBVIOUS
  <2>1. GetQfTests
    BY DEF WindNext, Tick, Pulse, WindSteadies, TimerIrq, DmaIrq, DmaIrqDrops, DmaIrqMeasures,
           DmaIrqEnds, GetQf, GetQfStarts, GetQfClears, GetQfReturns
  <2>2. ~bounced
    BY <2>1 DEF GetQfTests, BounceRead
  <2>3. QED
    BY <2>2 DEF UntoldIsFlagged
<1>4. QED
  BY <1>1, <1>2, <1>3, PTL DEF WindSpec, FullMeansUncorrected

----------------------------------------------------------------------------
(* Induction over a range of numbers, and the functions that are defined by *)
(* recursion over it.                                                       *)
LEMMA SmallestOf ==
  ASSUME NEW T \in SUBSET Nat, T # {}
  PROVE  \E x \in T : \A y \in T : x <= y
<1>1. PICK x \in T : \A y \in T : ~ (<<y, x>> \in OpToRel(<, Nat))
  BY WFMin, NatLessThanWellFounded
<1>2. \A y \in T : ~(y < x)
  BY <1>1 DEF OpToRel
<1>3. QED
  BY <1>2

LEMMA RangeInduction ==
  ASSUME NEW n \in Nat, NEW T, 0 \in T, \A m \in 0 .. n : m \in T /\ m < n => m + 1 \in T
  PROVE  \A m \in 0 .. n : m \in T
<1> DEFINE U == (0 .. n) \ T
<1>1. SUFFICES ASSUME U # {} PROVE FALSE
  OBVIOUS
<1>2. PICK x \in U : \A y \in U : x <= y
  <2>1. U \in SUBSET Nat
    OBVIOUS
  <2> HIDE DEF U
  <2>2. QED
    BY <1>1, <2>1, SmallestOf
<1>3. x # 0 /\ x - 1 \in 0 .. n /\ x - 1 < n /\ (x - 1) + 1 = x
  BY <1>2
<1>4. x - 1 \in T
  BY <1>2, <1>3
<1>5. QED
  BY <1>2, <1>3, <1>4

Iterates(f, n, S, base, step) ==
  /\ f \in [0 .. n -> S] /\ f[0] = base
  /\ \A i \in 1 .. n : f[i] = step[i][f[i - 1]]

LEMMA RecursionExists ==
  ASSUME NEW n \in Nat, NEW S, NEW base \in S, NEW step \in [1 .. n -> [S -> S]]
  PROVE  \E f : Iterates(f, n, S, base, step)
<1> DEFINE Follows(f, m) == f[0] = base /\ \A i \in 1 .. m : f[i] = step[i][f[i - 1]]
<1> DEFINE T == {m \in 0 .. n : \E f \in [0 .. m -> S] : Follows(f, m)}
<1>1. 0 \in T
  <2>1. PICK f \in [0 .. 0 -> S] : f = [i \in 0 .. 0 |-> base]
    OBVIOUS
  <2>2. f[0] = base /\ 1 .. 0 = {}
    BY <2>1
  <2>3. Follows(f, 0) /\ 0 \in 0 .. n
    BY <2>2
  <2>4. QED
    BY <2>3
<1>2. ASSUME NEW m \in 0 .. n, m \in T, m < n PROVE m + 1 \in T
  <2>1. PICK f \in [0 .. m -> S] : Follows(f, m)
    BY <1>2
  <2>2. PICK v \in S : v = step[m + 1][f[m]]
    <3>1. m + 1 \in 1 .. n /\ f[m] \in S
      BY <1>2
    <3>2. QED
      BY <3>1
  <2>3. PICK g \in [0 .. m + 1 -> S] : g = [i \in 0 .. m + 1 |-> IF i = m + 1 THEN v ELSE f[i]]
    <3>1. \A i \in 0 .. m + 1 : i # m + 1 => i \in 0 .. m
      OBVIOUS
    <3>2. \A i \in 0 .. m + 1 : (IF i = m + 1 THEN v ELSE f[i]) \in S
      BY <3>1
    <3>3. QED
      BY <3>2
  <2>4. g[0] = base
    BY <2>1, <2>3
  <2>5. ASSUME NEW i \in 1 .. m + 1 PROVE g[i] = step[i][g[i - 1]]
    <3>1. CASE i = m + 1
      <4>1. g[i] = v /\ g[i - 1] = f[m]
        BY <2>3, <3>1
      <4>2. QED
        BY <2>2, <3>1, <4>1
    <3>2. CASE i # m + 1
      <4>1. i \in 1 .. m /\ g[i] = f[i] /\ g[i - 1] = f[i - 1]
        BY <2>3, <3>2
      <4>2. QED
        BY <2>1, <4>1
    <3>3. QED
      BY <3>1, <3>2
  <2>6. m + 1 \in 0 .. n
    BY <1>2
  <2>7. Follows(g, m + 1)
    BY <2>4, <2>5
  <2>8. QED
    BY <2>3, <2>6, <2>7
<1>3. \A m \in 0 .. n : m \in T
  <2> HIDE DEF T
  <2> QED
    BY <1>1, <1>2, RangeInduction
<1>4. n \in T
  <2> HIDE DEF T
  <2> QED
    BY <1>3
<1>5. QED
  BY <1>4 DEF Iterates

----------------------------------------------------------------------------
(* What the corrections make of a batch: a bounce stays one, and another    *)
(* interval stays between two that were measured.                           *)
Batches == [1 .. Intervals -> Nat]

Between(s, d) ==
  \A i \in 1 .. Intervals :
    /\ s[i] = 0 <=> d[i] = 0
    /\ s[i] # 0 => \E a, b \in 1 .. Intervals :
                     d[a] # 0 /\ d[b] # 0 /\ d[a] <= s[i] /\ s[i] <= d[b]

LEMMA LimitedBetween ==
  ASSUME NEW d \in Batches, NEW s \in Batches, Between(s, d), NEW i \in 2 .. Intervals
  PROVE  Limited(s, i) \in Batches /\ Between(Limited(s, i), d)
<1>1. i \in 1 .. Intervals /\ i - 1 \in 1 .. Intervals /\ i # i - 1 /\ Intervals \in Int
  BY AnemometerConstants DEF Intervals
<1>2. s[i] \in Nat /\ s[i - 1] \in Nat
  BY <1>1 DEF Batches
<1>3. PICK l \in Nat : l = SlewRateLimit(IF s[i - 1] < s[i] THEN s[i - 1] ELSE s[i])
  BY <1>2 DEF SlewRateLimit
<1>4. ASSUME NEW x \in 1 .. Intervals, NEW y \in 1 .. Intervals, x # y,
             s[x] # 0, s[y] # 0, s[x] - s[y] > l
      PROVE  [s EXCEPT ![x] = s[y] + l] \in Batches /\ Between([s EXCEPT ![x] = s[y] + l], d)
  <2>1. s[x] \in Nat /\ s[y] \in Nat /\ s[y] <= s[y] + l /\ s[y] + l <= s[x] /\ s[y] + l # 0
    BY <1>4 DEF Batches
  <2>2. PICK r \in Batches : r = [s EXCEPT ![x] = s[y] + l]
    <3>1. s[y] + l \in Nat
      BY <2>1
    <3>2. QED
      BY <3>1 DEF Batches
  <2>3. r[x] = s[y] + l /\ \A j \in 1 .. Intervals : j # x => r[j] = s[j]
    BY <2>2 DEF Batches
  <2>4. PICK a \in 1 .. Intervals : d[a] # 0 /\ d[a] <= s[y]
    BY <1>4 DEF Between
  <2>5. PICK b \in 1 .. Intervals : d[b] # 0 /\ s[x] <= d[b]
    BY <1>4 DEF Between
  <2>6. d[a] \in Nat /\ d[b] \in Nat
    BY DEF Batches
  <2>7. d[a] <= r[x] /\ r[x] <= d[b] /\ r[x] # 0
    BY <2>1, <2>3, <2>4, <2>5, <2>6
  <2>8. d[x] # 0
    BY <1>4 DEF Between
  <2>9. Between(r, d)
    <3> SUFFICES ASSUME NEW j \in 1 .. Intervals
                 PROVE  /\ r[j] = 0 <=> d[j] = 0
                        /\ r[j] # 0 => \E p, q \in 1 .. Intervals :
                                         d[p] # 0 /\ d[q] # 0 /\ d[p] <= r[j] /\ r[j] <= d[q]
      BY DEF Between
    <3>1. CASE j = x
      BY <2>4, <2>5, <2>7, <2>8, <3>1
    <3>2. CASE j # x
      <4>1. r[j] = s[j]
        BY <2>3, <3>2
      <4>2. QED
        BY <4>1 DEF Between
    <3>3. QED
      BY <3>1, <3>2
  <2>10. QED
    BY <2>2, <2>9
<1>5. CASE 0 \in {s[i - 1], s[i]}
  BY <1>5 DEF Limited
<1>6. CASE s[i - 1] # 0 /\ s[i] # 0
  <2>1. Limited(s, i) = IF s[i] - s[i - 1] > l THEN [s EXCEPT ![i] = s[i - 1] + l]
                        ELSE IF s[i - 1] - s[i] > l THEN [s EXCEPT ![i - 1] = s[i] + l] ELSE s
    BY <1>3, <1>6 DEF Limited
  <2>2. CASE s[i] - s[i - 1] > l
    BY <1>1, <1>4, <1>6, <2>1, <2>2
  <2>3. CASE ~(s[i] - s[i - 1] > l) /\ s[i - 1] - s[i] > l
    BY <1>1, <1>4, <1>6, <2>1, <2>3
  <2>4. CASE ~(s[i] - s[i - 1] > l) /\ ~(s[i - 1] - s[i] > l)
    BY <2>1, <2>4
  <2>5. QED
    BY <2>2, <2>3, <2>4
<1>7. QED
  BY <1>5, <1>6

LEMMA SlewLimitedBetween ==
  ASSUME NEW d \in Batches
  PROVE  SlewLimited(d) \in Batches /\ Between(SlewLimited(d), d)
<1> DEFINE Cut(f) == f = [i \in 0 .. Intervals |-> IF i < 2 THEN d ELSE Limited(f[i - 1], i)]
<1> DEFINE cut[i \in 0 .. Intervals] == IF i < 2 THEN d ELSE Limited(cut[i - 1], i)
<1> DEFINE S == {s \in Batches : Between(s, d)}
<1>1. Intervals \in Nat /\ Intervals > 1
  BY AnemometerConstants DEF Intervals
<1>2. d \in S
  BY DEF Between, Batches
<1>3. \E f : Cut(f)
  <2> DEFINE step == [i \in 1 .. Intervals |-> [s \in S |-> IF i < 2 THEN s ELSE Limited(s, i)]]
  <2>1. ASSUME NEW i \in 1 .. Intervals, NEW s \in S
        PROVE  (IF i < 2 THEN s ELSE Limited(s, i)) \in S
    <3>1. CASE i < 2
      BY <3>1
    <3>2. CASE ~(i < 2)
      <4>1. i \in 2 .. Intervals
        BY <1>1, <3>2
      <4>2. QED
        BY <3>2, <4>1, LimitedBetween
    <3>3. QED
      BY <3>1, <3>2
  <2>2. step \in [1 .. Intervals -> [S -> S]]
    <3> HIDE DEF S
    <3> QED
      BY <2>1
  <2>3. PICK f : Iterates(f, Intervals, S, d, step)
    <3> HIDE DEF S, step
    <3> QED
      BY <1>1, <1>2, <2>2, RecursionExists
  <2>4. /\ f \in [0 .. Intervals -> S] /\ f[0] = d
        /\ \A i \in 1 .. Intervals : f[i] = step[i][f[i - 1]]
    <3> HIDE DEF S, step
    <3> QED
      BY <2>3 DEF Iterates
  <2>5. \A i \in 1 .. Intervals : f[i] = IF i < 2 THEN f[i - 1] ELSE Limited(f[i - 1], i)
    <3> SUFFICES ASSUME NEW i \in 1 .. Intervals
                 PROVE  f[i] = IF i < 2 THEN f[i - 1] ELSE Limited(f[i - 1], i)
      OBVIOUS
    <3> HIDE DEF S
    <3>1. f[i - 1] \in S
      BY <1>1, <2>4
    <3>2. QED
      BY <2>4, <3>1
  <2>6. Cut(f)
    <3>1. \A i \in 0 .. Intervals : f[i] = IF i < 2 THEN d ELSE Limited(f[i - 1], i)
      <4> SUFFICES ASSUME NEW i \in 0 .. Intervals
                   PROVE  f[i] = IF i < 2 THEN d ELSE Limited(f[i - 1], i)
        OBVIOUS
      <4>1. CASE i = 0
        BY <2>4, <4>1
      <4>2. CASE i = 1
        BY <1>1, <2>4, <2>5, <4>2
      <4>3. CASE i > 1
        BY <1>1, <2>5, <4>3
      <4>4. QED
        BY <1>1, <4>1, <4>2, <4>3
    <3> HIDE DEF S
    <3>2. f = [i \in 0 .. Intervals |-> f[i]]
      BY <2>4
    <3>3. QED
      BY <3>1, <3>2
  <2>7. QED
    BY <2>6
<1>4. cut = CHOOSE f : Cut(f)
  OBVIOUS
<1>5. Cut(cut)
  <2> HIDE DEF Cut, cut, S
  <2> QED
    BY <1>3, <1>4
<1>6. \A m \in 0 .. Intervals : m \in {i \in 0 .. Intervals : cut[i] \in S}
  <2> HIDE DEF cut
  <2>1. cut[0] = d /\ \A i \in 1 .. Intervals :
          cut[i] = IF i < 2 THEN d ELSE Limited(cut[i - 1], i)
    BY <1>1, <1>5
  <2>2. ASSUME NEW m \in 0 .. Intervals, cut[m] \in S, m < Intervals
        PROVE  cut[m + 1] \in S
    <3>1. CASE m = 0
      BY <1>1, <1>2, <2>1, <3>1
    <3>2. CASE m # 0
      <4>1. m + 1 \in 2 .. Intervals /\ cut[m + 1] = Limited(cut[m], m + 1)
        BY <1>1, <2>1, <2>2, <3>2
      <4>2. QED
        BY <2>2, <4>1, LimitedBetween
    <3>3. QED
      BY <3>1, <3>2
  <2> HIDE DEF S
  <2>3. \A m \in 0 .. Intervals :
          m \in {i \in 0 .. Intervals : cut[i] \in S} /\ m < Intervals
            => m + 1 \in {i \in 0 .. Intervals : cut[i] \in S}
    BY <1>1, <2>2
  <2>4. 0 \in {i \in 0 .. Intervals : cut[i] \in S}
    BY <1>1, <1>2, <2>1
  <2>5. QED
    BY <1>1, <2>3, <2>4, RangeInduction
<1>7. SlewLimited(d) = cut[Intervals]
  BY DEF SlewLimited
<1>8. cut[Intervals] \in S
  <2> HIDE DEF cut, S
  <2> QED
    BY <1>1, <1>6
<1>9. QED
  BY <1>7, <1>8

----------------------------------------------------------------------------
(* The shortest and the longest interval, and what either was before, are   *)
(* intervals of the batch, bounces left out, or their first values.         *)
Extreme == [min : Nat, pmin : Nat, max : Nat, pmax : Nat]

Among(v, s, m) == v # 0 /\ \E i \in 1 .. m : s[i] = v

Found(e, s, m) ==
  /\ e \in Extreme
  /\ \/ e = NoExtremes /\ \A i \in 1 .. m : s[i] = 0
     \/ Among(e.min, s, m) /\ Among(e.pmin, s, m) /\ Among(e.max, s, m) /\ Among(e.pmax, s, m)

LEMMA WithTyped ==
  ASSUME NEW e \in Extreme, NEW p \in Nat
  PROVE  With(e, p) \in Extreme
BY DEF With, Extreme

LEMMA WithFound ==
  ASSUME NEW s \in [1 .. Intervals -> 0 .. Period], NEW m \in 0 .. Intervals - 1, NEW e,
         Found(e, s, m)
  PROVE  Found(With(e, s[m + 1]), s, m + 1)
<1>1. m + 1 \in 1 .. Intervals /\ Period \in Nat /\ Period # 0
  BY AnemometerConstants DEF Intervals
<1>2. PICK p \in 0 .. Period : p = s[m + 1]
  BY <1>1
<1>3. With(e, p) \in Extreme
  BY <1>1, WithTyped DEF Found
<1>4. \A v : Among(v, s, m) => Among(v, s, m + 1)
  BY DEF Among
<1>5. p # 0 => Among(p, s, m + 1)
  BY <1>2 DEF Among
<1>6. CASE p = 0
  <2>1. With(e, p) = e
    BY <1>6 DEF With
  <2>2. \A i \in 1 .. m + 1 : i \in 1 .. m \/ i = m + 1
    OBVIOUS
  <2>3. QED
    BY <1>2, <1>4, <1>6, <2>1, <2>2 DEF Found
<1>7. CASE p # 0 /\ e = NoExtremes
  <2>1. With(e, p) = [min |-> p, pmin |-> p, max |-> p, pmax |-> p]
    BY <1>1, <1>7 DEF With, NoExtremes
  <2>2. QED
    BY <1>2, <1>3, <1>5, <1>7, <2>1 DEF Found
<1>8. CASE p # 0 /\ e # NoExtremes
  <2>1. /\ Among(e.min, s, m + 1) /\ Among(e.pmin, s, m + 1)
        /\ Among(e.max, s, m + 1) /\ Among(e.pmax, s, m + 1)
    BY <1>4, <1>8 DEF Found
  <2>2. /\ With(e, p).min \in {p, e.min} /\ With(e, p).pmin \in {p, e.min, e.pmin}
        /\ With(e, p).max \in {p, e.max} /\ With(e, p).pmax \in {p, e.max, e.pmax}
    BY <1>8 DEF With
  <2>3. QED
    BY <1>2, <1>3, <1>5, <1>8, <2>1, <2>2 DEF Found
<1>9. QED
  BY <1>6, <1>7, <1>8

LEMMA ExtremesFound ==
  ASSUME NEW s \in [1 .. Intervals -> 0 .. Period]
  PROVE  Found(Extremes(s), s, Intervals)
<1> DEFINE Ext(f) ==
      f = [i \in 0 .. Intervals |-> IF i = 0 THEN NoExtremes ELSE With(f[i - 1], s[i])]
<1> DEFINE ext[i \in 0 .. Intervals] == IF i = 0 THEN NoExtremes ELSE With(ext[i - 1], s[i])
<1>1. Intervals \in Nat /\ Intervals > 1 /\ Period \in Nat
  BY AnemometerConstants DEF Intervals
<1>2. NoExtremes \in Extreme
  BY <1>1 DEF NoExtremes, Extreme
<1>3. \E f : Ext(f)
  <2> DEFINE step == [i \in 1 .. Intervals |-> [e \in Extreme |-> With(e, s[i])]]
  <2>1. \A i \in 1 .. Intervals : \A e \in Extreme : With(e, s[i]) \in Extreme
    BY <1>1, WithTyped
  <2>2. step \in [1 .. Intervals -> [Extreme -> Extreme]]
    BY <2>1
  <2>3. PICK f : Iterates(f, Intervals, Extreme, NoExtremes, step)
    <3> HIDE DEF step
    <3> QED
      BY <1>1, <1>2, <2>2, RecursionExists
  <2>4. /\ f \in [0 .. Intervals -> Extreme] /\ f[0] = NoExtremes
        /\ \A i \in 1 .. Intervals : f[i] = step[i][f[i - 1]]
    <3> HIDE DEF step
    <3> QED
      BY <2>3 DEF Iterates
  <2>5. ASSUME NEW i \in 1 .. Intervals PROVE f[i] = With(f[i - 1], s[i])
    <3>1. f[i - 1] \in Extreme
      BY <1>1, <2>4
    <3>2. QED
      BY <2>4, <3>1
  <2>6. \A i \in 0 .. Intervals : f[i] = IF i = 0 THEN NoExtremes ELSE With(f[i - 1], s[i])
    BY <1>1, <2>4, <2>5
  <2>7. f = [i \in 0 .. Intervals |-> f[i]]
    BY <2>4
  <2>8. Ext(f)
    BY <2>6, <2>7
  <2>9. QED
    BY <2>8
<1>4. ext = CHOOSE f : Ext(f)
  OBVIOUS
<1>5. Ext(ext)
  <2> HIDE DEF Ext, ext
  <2> QED
    BY <1>3, <1>4
<1>6. ext[0] = NoExtremes /\ \A i \in 1 .. Intervals : ext[i] = With(ext[i - 1], s[i])
  <2> HIDE DEF ext
  <2> QED
    BY <1>1, <1>5
<1>7. \A m \in 0 .. Intervals : m \in {i \in 0 .. Intervals : Found(ext[i], s, i)}
  <2> HIDE DEF ext
  <2>1. Found(ext[0], s, 0)
    BY <1>2, <1>6 DEF Found
  <2>2. ASSUME NEW m \in 0 .. Intervals, Found(ext[m], s, m), m < Intervals
        PROVE  Found(ext[m + 1], s, m + 1)
    <3>1. m \in 0 .. Intervals - 1 /\ m + 1 \in 1 .. Intervals /\ (m + 1) - 1 = m
      BY <1>1, <2>2
    <3>2. ext[m + 1] = With(ext[m], s[m + 1])
      BY <1>6, <3>1
    <3>3. QED
      BY <2>2, <3>1, <3>2, WithFound
  <2>3. \A m \in 0 .. Intervals :
          m \in {i \in 0 .. Intervals : Found(ext[i], s, i)} /\ m < Intervals
            => m + 1 \in {i \in 0 .. Intervals : Found(ext[i], s, i)}
    BY <1>1, <2>2
  <2>4. 0 \in {i \in 0 .. Intervals : Found(ext[i], s, i)}
    BY <1>1, <2>1
  <2>5. QED
    BY <1>1, <2>3, <2>4, RangeInduction
<1>8. Extremes(s) = ext[Intervals]
  BY DEF Extremes
<1>9. Found(ext[Intervals], s, Intervals)
  <2> HIDE DEF ext
  <2> QED
    BY <1>1, <1>7
<1>10. QED
  BY <1>8, <1>9

LEMMA MiddleBetween ==
  ASSUME NEW x \in Nat, NEW y \in Nat, NEW p \in Nat, NEW q \in Nat,
         p <= x, p <= y, x <= q, y <= q
  PROVE  p <= (x + y) \div 2 /\ (x + y) \div 2 <= q
OBVIOUS

(* The interval that is made of a batch, corrected, lies between two of the *)
(* times that were measured, bounces left out.                              *)
LEMMA MeanBetween ==
  ASSUME NEW d \in [1 .. Intervals -> 0 .. Period]
  PROVE  \/ /\ \A i \in 1 .. Intervals : d[i] = 0
            /\ Mean(SlewLimited(d)) = Period \div 2
         \/ \E a, b \in 1 .. Intervals :
              /\ d[a] # 0 /\ d[b] # 0
              /\ d[a] <= Mean(SlewLimited(d)) /\ Mean(SlewLimited(d)) <= d[b]
<1>1. d \in Batches /\ Period \in Nat
  BY AnemometerConstants DEF Batches
<1>2. PICK s \in Batches : s = SlewLimited(d) /\ Between(s, d)
  BY <1>1, SlewLimitedBetween
<1>3. s \in [1 .. Intervals -> 0 .. Period]
  <2>1. ASSUME NEW i \in 1 .. Intervals PROVE s[i] \in 0 .. Period
    <3>1. s[i] \in Nat /\ \A b \in 1 .. Intervals : d[b] \in 0 .. Period
      BY DEF Batches
    <3>2. QED
      BY <1>1, <1>2, <3>1 DEF Between
  <2>2. QED
    BY <2>1 DEF Batches
<1>4. PICK e : e = Extremes(s) /\ Found(e, s, Intervals)
  BY <1>3, ExtremesFound
<1>5. Mean(s) = (e.pmax + e.pmin) \div 2
  BY <1>4 DEF Mean
<1>6. CASE e = NoExtremes /\ \A i \in 1 .. Intervals : s[i] = 0
  <2>1. \A i \in 1 .. Intervals : d[i] = 0
    BY <1>2, <1>6 DEF Between
  <2>2. Mean(s) = Period \div 2
    BY <1>1, <1>5, <1>6 DEF NoExtremes
  <2>3. QED
    BY <1>2, <2>1, <2>2
<1>7. CASE Among(e.pmin, s, Intervals) /\ Among(e.pmax, s, Intervals)
  <2>1. PICK i, j \in 1 .. Intervals : s[i] = e.pmin /\ s[j] = e.pmax /\ s[i] # 0 /\ s[j] # 0
    BY <1>7 DEF Among
  <2>2. PICK a1, b1 \in 1 .. Intervals :
          d[a1] # 0 /\ d[b1] # 0 /\ d[a1] <= s[i] /\ s[i] <= d[b1]
    BY <1>2, <2>1 DEF Between
  <2>3. PICK a2, b2 \in 1 .. Intervals :
          d[a2] # 0 /\ d[b2] # 0 /\ d[a2] <= s[j] /\ s[j] <= d[b2]
    BY <1>2, <2>1 DEF Between
  <2>4. /\ s[i] \in Nat /\ s[j] \in Nat /\ d[a1] \in Nat /\ d[a2] \in Nat
        /\ d[b1] \in Nat /\ d[b2] \in Nat
    BY <1>1 DEF Batches
  <2>5. PICK a \in {a1, a2} : d[a] <= s[i] /\ d[a] <= s[j]
    BY <2>2, <2>3, <2>4
  <2>6. PICK b \in {b1, b2} : s[i] <= d[b] /\ s[j] <= d[b]
    BY <2>2, <2>3, <2>4
  <2>7. Mean(s) = (s[j] + s[i]) \div 2
    BY <1>5, <2>1
  <2>8. d[a] \in Nat /\ d[b] \in Nat /\ a \in 1 .. Intervals /\ b \in 1 .. Intervals
    BY <2>4, <2>5, <2>6
  <2>9. d[a] <= (s[j] + s[i]) \div 2 /\ (s[j] + s[i]) \div 2 <= d[b]
    BY <2>4, <2>5, <2>6, <2>8, MiddleBetween
  <2>10. d[a] # 0 /\ d[b] # 0
    BY <2>2, <2>3, <2>5, <2>6
  <2>11. QED
    BY <1>2, <2>7, <2>8, <2>9, <2>10
<1>8. QED
  BY <1>4, <1>6, <1>7 DEF Found

----------------------------------------------------------------------------
(* The inductive invariant of the timer and its DMA. *)
WindTyped ==
  /\ count \in 0 .. Period /\ since \in 0 .. Period + 1
  /\ captured \in Seq(0 .. Period) /\ Len(captured) <= Pulses
  /\ dma = "PENDING" <=> Len(captured) = Pulses

(* A pulse between the two restarts is known for what it is. *)
EarlyPulseSplits == dma = "RESTARTED" /\ captured # <<>> => split

(* While the timer neither ran round nor was set to zero, what the DMA has  *)
(* stored tells the true times between the pulses.                          *)
GapsSeen ==
  captured # <<>> /\ ~split /\ ~round /\ ~fired =>
    /\ count = captured[Len(captured)] + since
    /\ \A i \in 1 .. Len(captured) - 1 : captured[i] <= captured[i + 1]
    /\ gaps = {captured[i + 1] - captured[i] : i \in 1 .. Len(captured) - 1}

BatchInv == WindTyped /\ EarlyPulseSplits /\ GapsSeen

LEMMA PulseKeepsBatch ==
  ASSUME BatchInv, Pulse
  PROVE  BatchInv'
<1> USE DEF BatchInv
<1>1. /\ captured' = Append(captured, count) /\ since' = 0
      /\ dma' = IF Len(captured') = Pulses THEN "PENDING" ELSE dma
      /\ gaps' = IF captured = <<>> THEN {} ELSE gaps \cup {since}
      /\ split' = (dma = "RESTARTED" \/ (split /\ captured # <<>>))
      /\ UNCHANGED <<count, round, fired>>
  BY DEF Pulse
<1>2. /\ captured' \in Seq(0 .. Period) /\ Len(captured') = Len(captured) + 1
      /\ captured'[Len(captured) + 1] = count
      /\ \A i \in 1 .. Len(captured) : captured'[i] = captured[i]
  BY <1>1 DEF WindTyped
<1>3. dma # "PENDING" /\ Len(captured) \in Nat /\ Len(captured) < Pulses
  BY AnemometerConstants DEF Pulse, WindTyped
<1>4. dma = "RESTARTED" => Len(captured') # Pulses
  BY <1>2, <1>3, AnemometerConstants DEF Pulse
<1>5. WindTyped'
  BY <1>1, <1>2, <1>3, <1>4, AnemometerConstants DEF WindTyped
<1>6. EarlyPulseSplits'
  BY <1>1, <1>3 DEF EarlyPulseSplits
<1>7. GapsSeen'
  <2> SUFFICES ASSUME ~split', ~round', ~fired'
               PROVE  /\ count' = captured'[Len(captured')] + since'
                      /\ \A i \in 1 .. Len(captured') - 1 : captured'[i] <= captured'[i + 1]
                      /\ gaps' = {captured'[i + 1] - captured'[i] : i \in 1 .. Len(captured') - 1}
    BY DEF GapsSeen
  <2>1. count' = captured'[Len(captured')] + since'
    BY <1>1, <1>2 DEF WindTyped
  <2>2. CASE captured = <<>>
    <3>1. Len(captured') - 1 = 0 /\ gaps' = {}
      BY <1>1, <1>2, <2>2
    <3>2. 1 .. 0 = {}
      OBVIOUS
    <3>3. QED
      BY <2>1, <3>1, <3>2
  <2>3. CASE captured # <<>>
    <3>1. /\ count = captured[Len(captured)] + since
          /\ \A i \in 1 .. Len(captured) - 1 : captured[i] <= captured[i + 1]
          /\ gaps = {captured[i + 1] - captured[i] : i \in 1 .. Len(captured) - 1}
      BY <1>1, <2>3 DEF GapsSeen
    <3>2. PICK n \in Nat : n = Len(captured) /\ n # 0
      BY <2>3 DEF WindTyped
    <3>3. /\ captured[n] \in 0 .. Period /\ count \in 0 .. Period
          /\ captured'[n] = captured[n] /\ captured'[n + 1] = count /\ Len(captured') - 1 = n
      <4>1. n \in 1 .. Len(captured) /\ captured \in Seq(0 .. Period)
        BY <3>2 DEF WindTyped
      <4>2. captured[n] \in 0 .. Period
        BY <4>1, ElementOfSeq
      <4>3. QED
        BY <1>2, <3>2, <4>1, <4>2 DEF WindTyped
    <3>4. captured'[n + 1] - captured'[n] = since /\ captured'[n] <= captured'[n + 1]
      BY <3>1, <3>2, <3>3 DEF WindTyped
    <3>5. \A i \in 1 .. n - 1 : captured'[i] = captured[i] /\ captured'[i + 1] = captured[i + 1]
      BY <1>2, <3>2
    <3>6. \A i \in 1 .. n : i = n \/ i \in 1 .. n - 1
      BY <3>2
    <3>7. \A i \in 1 .. n : captured'[i] <= captured'[i + 1]
      BY <3>1, <3>2, <3>4, <3>5, <3>6
    <3>8. gaps' = gaps \cup {since}
      BY <1>1, <2>3
    <3>9. gaps' = {captured'[i + 1] - captured'[i] : i \in 1 .. n}
      <4>1. ASSUME NEW g \in gaps PROVE \E i \in 1 .. n : g = captured'[i + 1] - captured'[i]
        <5>1. PICK i \in 1 .. n - 1 : g = captured[i + 1] - captured[i]
          BY <3>1, <3>2
        <5>2. i \in 1 .. n
          BY <3>2
        <5>3. QED
          BY <3>5, <5>1, <5>2
      <4>2. ASSUME NEW i \in 1 .. n - 1 PROVE captured'[i + 1] - captured'[i] \in gaps
        BY <3>1, <3>2, <3>5
      <4>3. n \in 1 .. n
        BY <3>2
      <4>4. QED
        BY <3>4, <3>6, <3>8, <4>1, <4>2, <4>3
    <3>10. QED
      BY <2>1, <3>3, <3>7, <3>9
  <2>4. QED
    BY <2>2, <2>3
<1>8. QED
  BY <1>5, <1>6, <1>7

LEMMA StepKeepsBatch ==
  ASSUME BatchInv, [WindNext]_windVars
  PROVE  BatchInv'
<1> USE DEF BatchInv
<1>1. CASE Tick
  <2>1. /\ count' = IF count = Period THEN 0 ELSE count + 1
        /\ round' = (count = Period)
        /\ since' = IF since > Period THEN since ELSE since + 1
        /\ UNCHANGED <<fired, dma, captured, gaps, split>>
    BY <1>1 DEF Tick, batch
  <2>2. WindTyped'
    BY <2>1, AnemometerConstants DEF WindTyped
  <2>3. EarlyPulseSplits'
    BY <2>1 DEF EarlyPulseSplits
  <2>4. GapsSeen'
    <3> SUFFICES ASSUME captured # <<>>, ~split, ~round', ~fired
                 PROVE  /\ count' = captured[Len(captured)] + since'
                        /\ \A i \in 1 .. Len(captured) - 1 : captured[i] <= captured[i + 1]
                        /\ gaps = {captured[i + 1] - captured[i] : i \in 1 .. Len(captured) - 1}
      BY <2>1 DEF GapsSeen
    <3>1. ~round
      BY <1>1 DEF Tick
    <3>2. /\ count = captured[Len(captured)] + since
          /\ \A i \in 1 .. Len(captured) - 1 : captured[i] <= captured[i + 1]
          /\ gaps = {captured[i + 1] - captured[i] : i \in 1 .. Len(captured) - 1}
      BY <3>1 DEF GapsSeen
    <3>3. captured[Len(captured)] \in 0 .. Period
      <4>1. Len(captured) \in 1 .. Len(captured)
        BY EmptySeq DEF WindTyped
      <4>2. QED
        BY <4>1, ElementOfSeq DEF WindTyped
    <3>4. count' = count + 1 /\ since' = since + 1
      <4>1. count # Period
        BY <2>1
      <4>2. ~(since > Period)
        BY <3>2, <3>3, AnemometerConstants DEF WindTyped
      <4>3. QED
        BY <2>1, <4>1, <4>2
    <3>5. count' = captured[Len(captured)] + since'
      BY <3>2, <3>3, <3>4 DEF WindTyped
    <3>6. QED
      BY <3>2, <3>5
  <2>5. QED
    BY <2>2, <2>3, <2>4
<1>2. CASE Pulse
  BY <1>2, PulseKeepsBatch
<1>3. CASE TimerIrq
  <2>1. fired' /\ UNCHANGED <<count, dma, since, captured, gaps, split>>
    BY <1>3 DEF TimerIrq, batch
  <2>2. QED
    BY <2>1 DEF WindTyped, EarlyPulseSplits, GapsSeen
<1>4. CASE DmaIrqDrops \/ DmaIrqMeasures
  <2>1. /\ captured' = <<>> /\ dma' \in {"NO", "RESTARTED"}
        /\ UNCHANGED <<count, since>>
    BY <1>4 DEF DmaIrqDrops, DmaIrqMeasures
  <2>2. captured' \in Seq(0 .. Period) /\ Len(captured') = 0
    BY <2>1
  <2>3. QED
    BY <2>1, <2>2, AnemometerConstants DEF WindTyped, EarlyPulseSplits, GapsSeen
<1>5. CASE DmaIrqEnds
  <2>1. /\ dma = "RESTARTED" /\ dma' = "NO" /\ count' = 0 /\ (split' <=> captured # <<>>)
        /\ since' = since /\ captured' = captured
    BY <1>5 DEF DmaIrqEnds, ResetTimer
  <2>2. WindTyped'
    BY <2>1, AnemometerConstants DEF WindTyped
  <2>3. EarlyPulseSplits' /\ GapsSeen'
    <3>1. captured' # <<>> => split'
      BY <2>1, Zenon
    <3>2. QED
      BY <3>1, Zenon DEF EarlyPulseSplits, GapsSeen
  <2>4. QED
    BY <2>2, <2>3
<1>6. CASE WindSteadies \/ GetQf \/ UNCHANGED windVars
  <2>1. UNCHANGED <<count, round, fired, dma, since, captured, gaps, split>>
    BY <1>6 DEF WindSteadies, GetQf, GetQfStarts, GetQfTests, GetQfClears, GetQfReturns, windVars, batch
  <2>2. QED
    BY <2>1 DEF WindTyped, EarlyPulseSplits, GapsSeen
<1>7. QED
  BY <1>1, <1>2, <1>3, <1>4, <1>5, <1>6 DEF WindNext, DmaIrq

LEMMA BatchMeasured ==
  ASSUME BatchInv, DmaIrqMeasures, ~round, ~split
  PROVE  \/ True = {} /\ interval' = Period \div 2
         \/ \E a, b \in True : a <= interval' /\ interval' <= b
<1>1. /\ captured \in Seq(0 .. Period) /\ Len(captured) = Pulses /\ captured # <<>> /\ ~fired
  BY AnemometerConstants DEF BatchInv, WindTyped, DmaIrqMeasures, RanRound
<1>2. Intervals \in Nat /\ Len(captured) - 1 = Intervals /\ Period \in Nat /\ MinPulse \in Nat /\ MinPulse # 0
  BY <1>1, AnemometerConstants DEF Intervals
<1>3. /\ \A i \in 1 .. Intervals : captured[i] <= captured[i + 1]
      /\ gaps = {captured[i + 1] - captured[i] : i \in 1 .. Intervals}
  BY <1>1, <1>2 DEF BatchInv, GapsSeen
<1>4. PICK m \in [1 .. Intervals -> 0 .. Period] :
        m = Measured /\ \A i \in 1 .. Intervals : m[i] = captured[i + 1] - captured[i]
  <2>1. ASSUME NEW i \in 1 .. Intervals
        PROVE  /\ captured[i + 1] - captured[i] \in 0 .. Period
               /\ (captured[i + 1] - captured[i]) % Width = captured[i + 1] - captured[i]
    <3>1. i \in 1 .. Len(captured) /\ i + 1 \in 1 .. Len(captured)
      BY <1>1, <1>2
    <3>2. captured[i] \in 0 .. Period /\ captured[i + 1] \in 0 .. Period
      BY <1>1, <3>1, ElementOfSeq
    <3>3. PICK x \in 0 .. Period : x = captured[i + 1] - captured[i]
      BY <1>2, <1>3, <3>2
    <3>4. x % Width = x
      BY <1>2, AnemometerConstants
    <3>5. QED
      BY <3>3, <3>4
  <2>2. Measured = [i \in 1 .. Intervals |-> captured[i + 1] - captured[i]]
    BY <2>1 DEF Measured
  <2>3. Measured \in [1 .. Intervals -> 0 .. Period]
    BY <2>1, <2>2
  <2>4. \A i \in 1 .. Intervals : Measured[i] = captured[i + 1] - captured[i]
    BY <2>2
  <2>5. QED
    BY <2>3, <2>4
<1>5. gaps = {m[i] : i \in 1 .. Intervals}
  BY <1>3, <1>4
<1>6. PICK d \in [1 .. Intervals -> 0 .. Period] :
        /\ d = Debounced(m)
        /\ \A i \in 1 .. Intervals : d[i] = IF m[i] < MinPulse THEN 0 ELSE m[i]
  <2>1. Debounced(m) = [i \in 1 .. Intervals |-> IF m[i] < MinPulse THEN 0 ELSE m[i]]
    BY DEF Debounced
  <2>2. \A i \in 1 .. Intervals : (IF m[i] < MinPulse THEN 0 ELSE m[i]) \in 0 .. Period
    BY <1>2
  <2>3. Debounced(m) \in [1 .. Intervals -> 0 .. Period]
    BY <2>1, <2>2
  <2>4. \A i \in 1 .. Intervals : Debounced(m)[i] = IF m[i] < MinPulse THEN 0 ELSE m[i]
    BY <2>1
  <2>5. QED
    BY <2>3, <2>4
<1>7. interval' = Mean(SlewLimited(d))
  BY <1>4, <1>6 DEF DmaIrqMeasures
<1>8. \A i \in 1 .. Intervals : d[i] # 0 => d[i] \in True
  BY <1>5, <1>6, <1>2 DEF True
<1>9. CASE (\A i \in 1 .. Intervals : d[i] = 0) /\ Mean(SlewLimited(d)) = Period \div 2
  <2>1. \A i \in 1 .. Intervals : ~(m[i] >= MinPulse)
    BY <1>2, <1>6, <1>9
  <2>2. True = {}
    BY <1>5, <2>1 DEF True
  <2>3. QED
    BY <1>7, <1>9, <2>2
<1>10. CASE \E a, b \in 1 .. Intervals :
              /\ d[a] # 0 /\ d[b] # 0
              /\ d[a] <= Mean(SlewLimited(d)) /\ Mean(SlewLimited(d)) <= d[b]
  BY <1>7, <1>8, <1>10
<1>11. QED
  BY <1>9, <1>10, MeanBetween

(* The interval made of a batch lies between the shortest and the longest   *)
(* true time between two of its pulses, bounces left out, for every number  *)
(* of pulses, every period and width of the timer, every limit of the slew  *)
(* rate and every wind.                                                     *)
THEOREM BatchIsMeasured == WindSpec => MeasuredBetweenGaps
<1>1. WindInit => BatchInv
  <2> SUFFICES ASSUME WindInit PROVE BatchInv
    OBVIOUS
  <2>1. captured \in Seq(0 .. Period) /\ Len(captured) = 0
    BY DEF WindInit
  <2>2. QED
    BY <2>1, AnemometerConstants DEF WindInit, BatchInv, WindTyped, EarlyPulseSplits, GapsSeen
<1>2. BatchInv /\ [WindNext]_windVars => BatchInv'
  BY StepKeepsBatch
<1>3. BatchInv /\ [WindNext]_windVars =>
        [dma = "PENDING" /\ dma' = "RESTARTED" =>
           \/ round \/ split
           \/ True = {} /\ interval' = Period \div 2
           \/ \E a, b \in True : a <= interval' /\ interval' <= b]_windVars
  <2> SUFFICES ASSUME BatchInv, WindNext, dma = "PENDING", dma' = "RESTARTED", ~round, ~split
               PROVE  \/ True = {} /\ interval' = Period \div 2
                      \/ \E a, b \in True : a <= interval' /\ interval' <= b
    OBVIOUS
  <2>1. DmaIrqMeasures
    BY DEF WindNext, Tick, Pulse, WindSteadies, TimerIrq, DmaIrq, DmaIrqDrops, DmaIrqEnds,
           GetQf, GetQfStarts, GetQfTests, GetQfClears, GetQfReturns
  <2>2. QED
    BY <2>1, BatchMeasured
<1>4. QED
  BY <1>1, <1>2, <1>3, PTL DEF WindSpec, MeasuredBetweenGaps

----------------------------------------------------------------------------
(* The thermometer and the DHT22: ConfigTimer and DeconfigTimer stand at    *)
(* both ends of every exchange.                                             *)

(* The interrupts of the modem are masked during an exchange only, however  *)
(* many edges a transfer has and wherever they, the keeper, the query and   *)
(* a reset fall.                                                            *)
THEOREM MaskedByExchange == WxSpec => []ModemMaskedByExchange
<1>1. WxInit => ModemMaskedByExchange
  BY DEF WxInit, ModemMaskedByExchange
<1>2. ModemMaskedByExchange /\ [WxNext]_wxVars => ModemMaskedByExchange'
  <2> SUFFICES ASSUME ModemMaskedByExchange, [WxNext]_wxVars PROVE ModemMaskedByExchange'
    OBVIOUS
  <2> USE DEF ModemMaskedByExchange, Exchanging, timing, dhtVars, line, dallas, told,
              ConfigTimer, DeconfigTimer
  <2>1. CASE Query
    BY <2>1 DEF Query, BeginQuery, SetDelay, DelayOver, EndQuery
  <2>2. CASE NothingDue \/ Reset \/ MinutePoll \/ WatchdogReset \/ Tim2Tick \/ TimerRunsDown
    BY <2>2 DEF NothingDue, Reset, MinutePoll, WatchdogReset, Restart, Tim2Tick, TimerRunsDown
  <2>3. CASE KeeperTests \/ KeeperGivesUp
    BY <2>3 DEF KeeperTests, KeeperGivesUp
  <2>4. CASE StartPulse \/ PulseOver \/ NoResponse
    BY <2>4 DEF StartPulse, PulseOver, NoResponse
  <2>5. CASE Response \/ EnableInterrupt \/ LeaveComm
    BY <2>5 DEF Response, EnableInterrupt, LeaveComm
  <2>6. CASE Decode \/ Publish \/ Unavailable \/ NothingToDo
    BY <2>6 DEF Decode, Publish, Unavailable, NothingToDo
  <2>7. CASE Sensor \/ Disturbance
    BY <2>7 DEF Sensor, Edge, Missed, Disturbance, Counts, Ignores
  <2>8. CASE UNCHANGED wxVars
    BY <2>8 DEF wxVars
  <2>9. QED
    BY <2>1, <2>2, <2>3, <2>4, <2>5, <2>6, <2>7, <2>8 DEF WxNext, Main, PoolDht22
<1>3. QED
  BY <1>1, <1>2, PTL DEF WxSpec

----------------------------------------------------------------------------
(* The inductive invariant of the humidity.  From its start to its          *)
(* interrupt a transfer has the main loop for itself.                       *)
CommHoldsLoop == loop \in {"PULSE", "RESPONSE", "ENABLE"} <=> dht = "COMMS"

(* A transfer is started in the round of the query before it, and so its    *)
(* start never meets the next measurement.                                  *)
StartedByQuery ==
  /\ dht \in {"IDLE", "COMMS"} => calm = 0 /\ ~due
  /\ dht = "IDLE" => loop \in {"BOOT", "QUERY", "WAIT", "LOOP", "POOL", "SWITCH"}

(* The keeper is overtaken by the last edge and by nothing else. *)
KeeperOfOpen == loop = "KEEPER" => dht \in {"COMMS_IRQ", "DATA_RDY"}

(* The bits of a transfer that went wrong do not become a full quality. *)
BadIsDecodedBad ==
  last = "BAD" => /\ dht = "DATA_RDY" => ~whole
                  /\ dht = "DATA_DECD" => humidity # "FULL"

(* A timeout that the pool has not looked at yet is not met by a query: it  *)
(* is a keeper's, in this round, or a missing response's, a round before    *)
(* the next measurement can be due.                                         *)
UnlookedTimeout ==
  (valid = "FULL" /\ last = "BAD" /\ dht = "TIMEOUT") =>
    /\ loop \in {"TOP", "LOOP", "POOL", "SWITCH"}
    /\ loop = "TOP" => calm = 0 /\ ~due

HumidityInv ==
  /\ CommHoldsLoop /\ StartedByQuery /\ KeeperOfOpen
  /\ BadIsDecodedBad /\ UnlookedTimeout /\ HumidityIsCurrent

LEMMA HumidityInvHolds == WxSpec => []HumidityInv
<1>1. WxInit => HumidityInv
  BY DEF WxInit, HumidityInv, CommHoldsLoop, StartedByQuery, KeeperOfOpen, BadIsDecodedBad,
         UnlookedTimeout, HumidityIsCurrent
<1>2. HumidityInv /\ [WxNext]_wxVars => HumidityInv'
  <2> SUFFICES ASSUME HumidityInv, [WxNext]_wxVars PROVE HumidityInv'
    OBVIOUS
  <2> USE DEF HumidityInv, CommHoldsLoop, StartedByQuery, KeeperOfOpen, BadIsDecodedBad,
              UnlookedTimeout, HumidityIsCurrent, timing, dhtVars, line, dallas, told
  <2>1. CASE BeginQuery
    BY <2>1 DEF BeginQuery, ConfigTimer
  <2>2. CASE SetDelay \/ DelayOver
    BY <2>2 DEF SetDelay, DelayOver
  <2>3. CASE EndQuery
    <3>1. /\ loop = "QUERY" /\ loop' = "LOOP" /\ due' = FALSE /\ calm' = 0
          /\ dht' = IF dht \in {"DONE", "TIMEOUT"} THEN "IDLE" ELSE dht
          /\ UNCHANGED <<humidity, valid, whole, last>>
      BY <2>3 DEF EndQuery
    <3>2. QED
      BY <3>1
  <2>4. CASE NothingDue
    BY <2>4 DEF NothingDue
  <2>5. CASE Reset \/ WatchdogReset
    BY <2>5 DEF Reset, WatchdogReset, Restart
  <2>6. CASE MinutePoll \/ Tim2Tick \/ KeeperTests
    BY <2>6 DEF MinutePoll, Tim2Tick, KeeperTests, Expired
  <2>7. CASE TimerRunsDown
    BY <2>7, WxSensorsConstants DEF TimerRunsDown
  <2>8. CASE KeeperGivesUp
    BY <2>8 DEF KeeperGivesUp
  <2>9. CASE StartPulse \/ PulseOver
    BY <2>9 DEF StartPulse, PulseOver
  <2>10. CASE NoResponse
    BY <2>10 DEF NoResponse
  <2>11. CASE Response \/ EnableInterrupt \/ LeaveComm
    BY <2>11 DEF Response, EnableInterrupt, LeaveComm
  <2>12. CASE Decode
    BY <2>12 DEF Decode, Checked
  <2>13. CASE Publish \/ Unavailable \/ NothingToDo
    BY <2>13 DEF Publish, Unavailable, NothingToDo
  <2>14. CASE Edge \/ Disturbance
    <3>1. /\ calm' \in {calm, 0}
          /\ UNCHANGED <<loop, due, humidity, valid>>
      BY <2>14 DEF Edge, Disturbance
    <3>2. CASE \E good \in BOOLEAN : Counts(good)
      <4>1. PICK good \in BOOLEAN : Counts(good)
        BY <3>2
      <4>2. /\ dht = "COMMS_IRQ"
            /\ \/ UNCHANGED <<dht, last>>
               \/ /\ dht' = "DATA_RDY"
                  /\ last' = IF whole' THEN "GOOD" ELSE "BAD"
        BY <4>1 DEF Counts
      <4>3. QED
        BY <3>1, <4>2
    <3>3. CASE Ignores
      BY <3>1, <3>3 DEF Ignores
    <3>4. QED
      BY <2>14, <3>2, <3>3 DEF Edge, Disturbance
  <2>15. CASE Missed
    BY <2>15 DEF Missed
  <2>16. CASE UNCHANGED wxVars
    BY <2>16 DEF wxVars
  <2>17. QED
    BY <2>1, <2>2, <2>3, <2>4, <2>5, <2>6, <2>7, <2>8, <2>9, <2>10, <2>11, <2>12, <2>13,
       <2>14, <2>15, <2>16 DEF WxNext, Main, Query, PoolDht22, Sensor
<1>3. QED
  BY <1>1, <1>2, PTL DEF WxSpec

(* A humidity that is valid with full quality is that of the last transfer  *)
(* as soon as the pool has looked at its end, for every length of the       *)
(* transfer, every number of edges that are missed or added and every       *)
(* number of calm rounds that is not zero.                                  *)
THEOREM HumidityCurrent == WxSpec => []HumidityIsCurrent
<1>1. HumidityInv => HumidityIsCurrent
  BY DEF HumidityInv
<1>2. QED
  BY <1>1, HumidityInvHolds, PTL

----------------------------------------------------------------------------
(* One counter for two sensors.  Whoever waits for delay_5us waits with     *)
(* TIM2 switched on: the query and the start of a transfer, which the main  *)
(* loop waits for where it stands and without another way out, and the      *)
(* transfer that the keeper is to give up.                                  *)
TimerAwaited ==
  loop \in {"QUERY", "WAIT", "PULSE", "RESPONSE", "ENABLE"} \/ dht = "COMMS_IRQ" => timer

(* No query begins while a transfer is open, whose last edge would switch   *)
(* the timer off that the query waits for (_dht22.c:174).                   *)
TransferAlone == dht = "COMMS_IRQ" => ~due /\ loop \notin {"BOOT", "QUERY", "WAIT"}

(* A transfer that has come to a stand lasts until the keeper of the same   *)
(* round: only a disturbance prolongs it, and that is not a calm round.     *)
OneCalmRound ==
  /\ calm \in Nat
  /\ dht = "COMMS_IRQ" => calm <= 1
  /\ dht = "COMMS_IRQ" /\ calm = 1 =>
       loop \in {"LOOP", "POOL", "KEEPER"} /\ edges = 0 /\ delay = 0

TimerInv == TimerAwaited /\ TransferAlone /\ OneCalmRound

LEMMA TimerInvInductive ==
  ASSUME CalmRounds > 1, HumidityInv, TimerInv, [WxNext]_wxVars
  PROVE  TimerInv'
<1> USE DEF TimerInv, TimerAwaited, TransferAlone, OneCalmRound, timing, dhtVars, line, dallas,
            told, ConfigTimer, DeconfigTimer
<1>h. CommHoldsLoop /\ StartedByQuery
  BY DEF HumidityInv
<1>1. CASE BeginQuery
  BY <1>1 DEF BeginQuery
<1>2. CASE SetDelay \/ DelayOver
  BY <1>2 DEF SetDelay, DelayOver
<1>3. CASE EndQuery
  <2>1. /\ loop = "QUERY" /\ loop' = "LOOP" /\ due' = FALSE /\ calm' = 0
        /\ dht' = IF dht \in {"DONE", "TIMEOUT"} THEN "IDLE" ELSE dht
    BY <1>3 DEF EndQuery
  <2>2. QED
    BY <2>1
<1>4. CASE NothingDue
  <2>1. /\ loop = "TOP" /\ loop' = "LOOP" /\ ~due
        /\ UNCHANGED <<timing, dht, edges, due>>
        /\ calm' = IF ~Quiet THEN 0 ELSE IF calm < CalmRounds THEN calm + 1 ELSE calm
    BY <1>4 DEF NothingDue
  <2>2. CASE dht # "COMMS_IRQ"
    BY <2>1, <2>2
  <2>3. CASE dht = "COMMS_IRQ"
    <3>1. timer /\ calm = 0
      BY <2>1, <2>3
    <3>2. calm' = 0 \/ (calm' = 1 /\ edges = 0 /\ delay = 0)
      BY <2>1, <3>1, WxSensorsConstants DEF Quiet
    <3>3. QED
      BY <2>1, <2>3, <3>1, <3>2
  <2>4. QED
    BY <2>2, <2>3
<1>5. CASE Reset \/ WatchdogReset
  BY <1>5 DEF Reset, WatchdogReset, Restart
<1>6. CASE MinutePoll \/ Tim2Tick \/ KeeperTests
  BY <1>6 DEF MinutePoll, Tim2Tick, KeeperTests, Expired
<1>7. CASE TimerRunsDown
  BY <1>7 DEF TimerRunsDown
<1>8. CASE KeeperGivesUp
  BY <1>8 DEF KeeperGivesUp
<1>9. CASE StartPulse \/ PulseOver \/ NoResponse
  BY <1>9 DEF StartPulse, PulseOver, NoResponse
<1>10. CASE Response \/ LeaveComm
  BY <1>10, <1>h DEF Response, LeaveComm, CommHoldsLoop
<1>11. CASE EnableInterrupt
  BY <1>11, <1>h DEF EnableInterrupt, CommHoldsLoop, StartedByQuery
<1>12. CASE Decode \/ Publish \/ Unavailable \/ NothingToDo
  BY <1>12 DEF Decode, Publish, Unavailable, NothingToDo
<1>13. CASE Edge \/ Disturbance
  <2>1. /\ UNCHANGED <<loop, due>>
        /\ \/ edges > 0 /\ calm' = calm
           \/ calm' = 0
    BY <1>13 DEF Edge, Disturbance
  <2>2. CASE \E good \in BOOLEAN : Counts(good)
    <3>1. /\ dht = "COMMS_IRQ"
          /\ \/ UNCHANGED <<timer, dht>>
             \/ dht' = "DATA_RDY"
      BY <2>2 DEF Counts
    <3>2. calm' = 0
      BY <2>1, <3>1
    <3>3. loop \notin {"QUERY", "WAIT", "PULSE", "RESPONSE", "ENABLE"}
      BY <1>h, <3>1 DEF CommHoldsLoop
    <3>4. CASE UNCHANGED <<timer, dht>>
      <4>1. timer'
        BY <3>1, <3>4
      <4>2. QED
        BY <2>1, <3>1, <3>2, <3>4, <4>1
    <3>5. CASE dht' = "DATA_RDY"
      BY <2>1, <3>2, <3>3, <3>5
    <3>6. QED
      BY <3>1, <3>4, <3>5
  <2>3. CASE Ignores
    BY <2>1, <2>3 DEF Ignores
  <2>4. QED
    BY <1>13, <2>2, <2>3 DEF Edge, Disturbance
<1>14. CASE Missed
  BY <1>14 DEF Missed
<1>15. CASE UNCHANGED wxVars
  BY <1>15 DEF wxVars
<1>16. QED
  BY <1>1, <1>2, <1>3, <1>4, <1>5, <1>6, <1>7, <1>8, <1>9, <1>10, <1>11, <1>12, <1>13, <1>14,
     <1>15 DEF WxNext, Main, Query, PoolDht22, Sensor

(* Nobody waits for a timer that is off, for every length of a transfer and *)
(* every number of edges missed or added, when the 65 seconds to the next   *)
(* measurement hold more than one calm round: what ExchangesEnd needs       *)
(* besides a timer that counts.  The watchdog grants four of them.          *)
THEOREM NobodyWaitsUntimed ==
  ASSUME CalmRounds > 1
  PROVE  WxSpec => []TimerAwaited
<1>1. WxInit => TimerInv
  BY DEF WxInit, TimerInv, TimerAwaited, TransferAlone, OneCalmRound
<1>2. HumidityInv /\ TimerInv /\ [WxNext]_wxVars => TimerInv'
  BY TimerInvInductive
<1>3. TimerInv => TimerAwaited
  BY DEF TimerInv
<1>4. QED
  BY <1>1, <1>2, <1>3, HumidityInvHolds, PTL DEF WxSpec

----------------------------------------------------------------------------
(* What the thermometer's two quality factors are worth between two         *)
(* telemetry frames.                                                        *)
QualityRange ==
  /\ error \in {"UNKNOWN", "DEGRADED", "NOT_AVAILABLE"}
  /\ current \in {"UNKNOWN", "FULL", "DEGRADED", "NOT_AVAILABLE"}

Earned ==
  /\ error = "UNKNOWN" => trouble = {}
  /\ error = "NOT_AVAILABLE" => "FAIL" \in trouble
  /\ current = "UNKNOWN" => error = "UNKNOWN"
  /\ current = "NOT_AVAILABLE" =>
       "FAIL" \in trouble \/ ~(used \in Int /\ used \in -50 .. 120)

ToldInv == QualityRange /\ Earned

(* The telemetry says "full" when every query since the one before was      *)
(* answered without a jump, and "not available" when one was not answered   *)
(* or no temperature at all, for every set of temperatures and every        *)
(* quality of the Modbus slave.                                             *)
THEOREM ToldEarned == WxSpec => []ToldIsEarned
<1>1. WxInit => ToldInv
  BY DEF WxInit, ToldInv, QualityRange, Earned
<1>2. ToldInv /\ [WxNext]_wxVars => ToldInv'
  <2> SUFFICES ASSUME ToldInv, [WxNext]_wxVars PROVE ToldInv'
    OBVIOUS
  <2>1. CASE UNCHANGED <<current, error, trouble, used>>
    BY <2>1 DEF ToldInv, QualityRange, Earned
  <2>2. CASE EndQuery
    <3>1. PICK t \in Temps \cup {None}, r \in Rtu :
            /\ error' = UnifiedError(QueryError(t, r), r)
            /\ current' = UnifiedCurrent(QueryError(t, r), r,
                                         IF t = None THEN "NOT_AVAILABLE" ELSE Quality(t))
            /\ trouble' = Troubles(t, r)
            /\ used' = IF IsUsed(t, r) THEN t ELSE used
      BY <2>2 DEF EndQuery
    <3>2. t = None \/ (t \in Int /\ t # None)
      BY WxSensorsConstants
    <3>3. r \in {"FULL", "DEGRADED", "NAVB", NoSource}
      BY WxSensorsConstants
    <3>4. t # None => Quality(t) \in {"FULL", "DEGRADED", "NOT_AVAILABLE"}
      BY DEF Quality
    <3>5. t # None /\ Quality(t) = "NOT_AVAILABLE" => t \notin -50 .. 120
      BY <3>2 DEF Quality
    <3>6. QualityRange'
      BY <3>1, <3>3, <3>4, WxSensorsConstants
         DEF ToldInv, QualityRange, UnifiedError, UnifiedCurrent, QueryError
    <3>7. CASE r = "FULL"
      <4>1. QueryError(t, r) = "NOT_AVAILABLE" /\ r # NoSource
        BY <3>7, WxSensorsConstants DEF QueryError, IsUsed
      <4>2. error' = "UNKNOWN" /\ current' = "FULL" /\ trouble' = {}
        BY <3>1, <3>7, <4>1 DEF UnifiedError, UnifiedCurrent, Troubles
      <4>3. QED
        BY <3>6, <4>2 DEF ToldInv, Earned
    <3>8. CASE r # "FULL" /\ t = None
      <4>1. QueryError(t, r) = "NOT_AVAILABLE" /\ "FAIL" \in trouble'
        BY <3>1, <3>8 DEF QueryError, IsUsed, Troubles
      <4>2. error' # "UNKNOWN" /\ current' # "UNKNOWN"
        BY <3>1, <3>3, <3>8, <4>1, WxSensorsConstants DEF UnifiedError, UnifiedCurrent
      <4>3. QED
        BY <3>6, <4>1, <4>2 DEF ToldInv, Earned
    <3>9. CASE r # "FULL" /\ t # None
      <4>1. used' = t
        BY <3>1, <3>9 DEF IsUsed
      <4>2. /\ QueryError(t, r) = IF TooFast(t) THEN "DEGRADED" ELSE error
            /\ trouble' = trouble \cup (IF TooFast(t) THEN {"JUMP"} ELSE {})
        BY <3>1, <3>9 DEF QueryError, IsUsed, Troubles
      <4>3. QueryError(t, r) = "NOT_AVAILABLE" => "FAIL" \in trouble'
        BY <4>2 DEF ToldInv, Earned
      <4>4. error' = "NOT_AVAILABLE" => "FAIL" \in trouble'
        BY <3>1, <3>9, <4>3 DEF UnifiedError
      <4>5. error' = "UNKNOWN" => trouble' = {}
        <5>1. error' = "UNKNOWN" => QueryError(t, r) = "UNKNOWN"
          BY <3>1, <3>9 DEF UnifiedError
        <5>2. QED
          BY <4>2, <5>1 DEF ToldInv, Earned
      <4>6. current' # "UNKNOWN"
        BY <3>1, <3>3, <3>4, <3>9, WxSensorsConstants DEF UnifiedCurrent
      <4>7. current' = "NOT_AVAILABLE" =>
              QueryError(t, r) = "NOT_AVAILABLE" \/ Quality(t) = "NOT_AVAILABLE"
        BY <3>1, <3>9 DEF UnifiedCurrent
      <4>8. QED
        BY <3>5, <3>6, <3>9, <4>1, <4>3, <4>4, <4>5, <4>6, <4>7 DEF ToldInv, Earned
    <3>10. QED
      BY <3>7, <3>8, <3>9
  <2>3. CASE MinutePoll
    BY <2>3 DEF MinutePoll, ToldInv, QualityRange, Earned
  <2>4. CASE Reset \/ WatchdogReset
    BY <2>4 DEF Reset, WatchdogReset, Restart, ToldInv, QualityRange, Earned
  <2>5. CASE PoolDht22
    <3>1. UNCHANGED <<dallas, told>>
      BY <2>5 DEF PoolDht22, KeeperTests, KeeperGivesUp, StartPulse, PulseOver, NoResponse,
                  Response, EnableInterrupt, LeaveComm, Decode, Publish, Unavailable, NothingToDo
    <3>2. QED
      BY <2>1, <3>1 DEF dallas, told
  <2>6. QED
    BY <2>1, <2>2, <2>3, <2>4, <2>5
       DEF WxNext, Main, Query, BeginQuery, SetDelay, DelayOver, NothingDue, Tim2Tick,
           TimerRunsDown, Sensor, Edge, Missed, Disturbance, dallas, told, wxVars
<1>3. ToldInv => ToldIsEarned
  BY DEF ToldInv, QualityRange, Earned, ToldIsEarned, Told
<1>4. QED
  BY <1>1, <1>2, <1>3, PTL DEF WxSpec

----------------------------------------------------------------------------
(* The value a reading is compared with lies by one degree from the reading *)
(* used before it.                                                          *)
StoredIsNear ==
  /\ temp \in Int
  /\ used # None => used \in Int /\ temp - used \in -1 .. 1

(* A reboot is requested by two readings, used one after the other, that    *)
(* lie more than eleven degrees apart, or by the first one, for every set   *)
(* of temperatures.                                                         *)
THEOREM RebootsOnJump == WxSpec => RebootMeansJump
<1> USE DEF StoredIsNear
<1>1. WxInit => StoredIsNear
  BY DEF WxInit
<1>2. ASSUME StoredIsNear, EndQuery
      PROVE  /\ StoredIsNear'
             /\ ~reboot /\ reboot' =>
                  used = None \/ used' - used > 11 \/ used' - used < -11
  <2>1. PICK t \in Temps \cup {None}, r \in Rtu :
          /\ temp' = IF IsUsed(t, r) THEN Stored(t) ELSE temp
          /\ reboot' = (reboot \/ (IsUsed(t, r) /\ HardError(t)))
          /\ used' = IF IsUsed(t, r) THEN t ELSE used
    BY <1>2 DEF EndQuery
  <2>2. IsUsed(t, r) => t \in Int
    BY WxSensorsConstants DEF IsUsed
  <2>3. StoredIsNear'
    BY <1>2, <2>1, <2>2 DEF Stored
  <2>4. ASSUME ~reboot, reboot', used # None
        PROVE  used' - used > 11 \/ used' - used < -11
    <3>1. IsUsed(t, r) /\ HardError(t)
      BY <2>1, <2>4
    <3>2. t \in Int /\ used' = t
      BY <2>1, <2>2, <3>1
    <3>3. t - temp > 12 \/ t - temp < -12
      BY <3>1 DEF HardError, Slew
    <3>4. QED
      BY <1>2, <2>4, <3>2, <3>3
  <2>5. QED
    BY <2>3, <2>4
<1>3. ASSUME StoredIsNear, [WxNext]_wxVars, ~EndQuery
      PROVE  /\ StoredIsNear'
             /\ reboot' => reboot
  <2>1. CASE Reset \/ WatchdogReset
    BY <2>1 DEF Reset, WatchdogReset, Restart
  <2>2. CASE MinutePoll
    BY <1>3, <2>2 DEF MinutePoll
  <2>3. CASE UNCHANGED <<dallas, told>>
    BY <1>3, <2>3 DEF dallas, told
  <2>4. CASE PoolDht22
    <3>1. UNCHANGED <<dallas, told>>
      BY <2>4 DEF PoolDht22, KeeperTests, KeeperGivesUp, StartPulse, PulseOver, NoResponse,
                  Response, EnableInterrupt, LeaveComm, Decode, Publish, Unavailable, NothingToDo
    <3>2. QED
      BY <2>3, <3>1
  <2>5. QED
    BY <1>3, <2>1, <2>2, <2>3, <2>4
       DEF WxNext, Main, Query, BeginQuery, SetDelay, DelayOver, NothingDue, Tim2Tick,
           TimerRunsDown, Sensor, Edge, Missed, Disturbance, wxVars
<1>4. StoredIsNear /\ [WxNext]_wxVars => StoredIsNear'
  BY <1>2, <1>3
<1>5. StoredIsNear /\ [WxNext]_wxVars =>
        [(~reboot /\ reboot') =>
           \/ used = None
           \/ used' - used > 11 \/ used' - used < -11]_wxVars
  BY <1>2, <1>3
<1>6. QED
  BY <1>1, <1>4, <1>5, PTL DEF WxSpec, RebootMeansJump
=============================================================================
