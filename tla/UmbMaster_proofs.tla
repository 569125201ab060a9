-------------------------- MODULE UmbMaster_proofs --------------------------
(***************************************************************************)
(* NoResetLoop for every station, every period and every behaviour of the   *)
(* bus.  The UMB master drives the supply of WxPower: every step of it is a *)
(* step of WxPower, or leaves its variables alone.  So what WxPower         *)
(* promises under any use of its timers holds here.  Then: the timer that a *)
(* reply refreshes is that of its channel, and a long silence is told.      *)
(***************************************************************************)
EXTENDS UmbMaster, TLAPS

LEMMA CappedType ==
  ASSUME NEW age \in 0 .. WatchdogPeriod
  PROVE  /\ Capped(age) \in 0 .. WatchdogPeriod
         /\ \A b \in 0 .. WatchdogPeriod : age <= b => Capped(age) <= Capped(b)
BY WxPowerConstants DEF Capped

(* The power supply keeps its types. *)
THEOREM PwrTypeCorrect == PwrSpec => []PwrTypeOK
<1>1. PwrInit => PwrTypeOK
  BY WxPowerConstants DEF PwrInit, PwrTypeOK
<1>2. PwrTypeOK /\ [PwrNext]_pwrVars => PwrTypeOK'
  <2> SUFFICES ASSUME PwrTypeOK, [PwrNext]_pwrVars PROVE PwrTypeOK'
    OBVIOUS
  <2> USE DEF PwrTypeOK
  <2>1. CASE PwrTick
    BY <2>1, CappedType DEF PwrTick
  <2>2. ASSUME NEW m \in Measurements, UpdateLastMeasurementTimers(m) PROVE PwrTypeOK'
    BY <2>2, WxPowerConstants DEF UpdateLastMeasurementTimers, Refreshed
  <2>3. CASE WxPwrPeriodicHandle
    BY <2>3, WxPowerConstants DEF WxPwrPeriodicHandle, Restarted, pwrVars
  <2>4. CASE UNCHANGED pwrVars
    BY <2>4 DEF pwrVars
  <2> QED BY <2>1, <2>2, <2>3, <2>4 DEF PwrNext
<1> QED BY <1>1, <1>2, PTL DEF PwrSpec

(* What keeps the reset loop away: no timer is older than the time since    *)
(* the power was taken away, because taking it away restarts both.          *)
YoungerThanReset == \A m \in Measurements : goodAge[m] <= sinceReset

LEMMA YoungerThanResetHolds == PwrSpec => []YoungerThanReset
<1>1. PwrInit => YoungerThanReset
  BY DEF PwrInit, YoungerThanReset
<1>2. PwrTypeOK /\ YoungerThanReset /\ [PwrNext]_pwrVars => YoungerThanReset'
  <2> SUFFICES ASSUME PwrTypeOK, YoungerThanReset, [PwrNext]_pwrVars PROVE YoungerThanReset'
    OBVIOUS
  <2> USE DEF PwrTypeOK, YoungerThanReset
  <2>1. CASE PwrTick
    BY <2>1, CappedType DEF PwrTick
  <2>2. ASSUME NEW m \in Measurements, UpdateLastMeasurementTimers(m)
        PROVE  YoungerThanReset'
    BY <2>2 DEF UpdateLastMeasurementTimers, Refreshed
  <2>3. CASE WxPwrPeriodicHandle
    BY <2>3 DEF WxPwrPeriodicHandle, Restarted, pwrVars
  <2>4. CASE UNCHANGED pwrVars
    BY <2>4 DEF pwrVars
  <2> QED BY <2>1, <2>2, <2>3, <2>4 DEF PwrNext
<1> QED BY <1>1, <1>2, PwrTypeCorrect, PTL DEF PwrSpec

(* The supply alone never loops, whoever refreshes the timers. *)
THEOREM SupplyNeverLoops == PwrSpec => NoResetLoop
<1>1. PwrTypeOK /\ YoungerThanReset /\ [PwrNext]_pwrVars
        => [TakesPowerAway => sinceReset >= WatchdogPeriod]_pwrVars
  <2> SUFFICES ASSUME PwrTypeOK, YoungerThanReset, PwrNext, TakesPowerAway
               PROVE  sinceReset >= WatchdogPeriod
    OBVIOUS
  <2>1. Expired
    BY DEF TakesPowerAway, PwrNext, PwrTick, UpdateLastMeasurementTimers,
           WxPwrPeriodicHandle, pwrVars
  <2> QED BY <2>1, WxPowerConstants DEF Expired, PwrTypeOK, YoungerThanReset
<1> QED BY <1>1, PwrTypeCorrect, YoungerThanResetHolds, PTL DEF PwrSpec, NoResetLoop

----------------------------------------------------------------------------
LEMMA CallbackRefreshes ==
  ASSUME OfflineDataCallback
  PROVE  [PwrNext]_pwrVars
<1>1. CASE TimerToRefresh \in Measurements
  BY <1>1 DEF OfflineDataCallback, PwrNext
<1>2. CASE TimerToRefresh \notin Measurements
  BY <1>2 DEF OfflineDataCallback, UpdateLastMeasurementTimers, Refreshed, pwrVars
<1> QED BY <1>1, <1>2

LEMMA ReceiveDrivesSupply ==
  ASSUME PoolReceive
  PROVE  [PwrNext]_pwrVars
<1>1. CASE PoolReceiveIdle
  <2>1. CASE MasterCallback
    <3>1. CASE OfflineDataCallback
      BY <3>1, CallbackRefreshes
    <3>2. CASE UNCHANGED pwrVars
      BY <3>2
    <3> QED BY <2>1, <3>1, <3>2 DEF MasterCallback, StatusCallback
  <2>2. CASE Ignores(TRUE)
    BY <2>2 DEF Ignores
  <2> QED BY <1>1, <2>1, <2>2 DEF PoolReceiveIdle
<1>2. CASE PoolReceiveError
  BY <1>2 DEF PoolReceiveError, Ignores
<1>3. CASE UNCHANGED pwrVars
  BY <1>3
<1> QED BY <1>1, <1>2, <1>3 DEF PoolReceive

(* The UMB master, on any bus, drives the supply as WxPower allows. *)
THEOREM DrivesSupply == Spec => PwrSpec
<1>1. Init => PwrInit
  BY DEF Init
<1>2. [Next]_vars => [PwrNext]_pwrVars
  <2> SUFFICES ASSUME [Next]_vars PROVE [PwrNext]_pwrVars
    OBVIOUS
  <2>1. CASE PoolReceive
    BY <2>1, ReceiveDrivesSupply
  <2>2. CASE TimedPools
    BY <2>2 DEF TimedPools, PwrNext
  <2>3. CASE Tick
    BY <2>3 DEF Tick, PwrNext
  <2>4. CASE RadioFrame \/ StatusRequest
    BY <2>4 DEF RadioFrame, StatusRequest
  <2>5. CASE PoolTransmitIdle
    BY <2>5 DEF PoolTransmitIdle, Ignores
  <2>6. CASE Sent \/ ReplyReceived \/ ReplyLost \/ RxTimeout
    BY <2>6 DEF Sent, ReplyReceived, ReplyLost, RxTimeout
  <2>7. CASE UNCHANGED vars
    BY <2>7 DEF vars
  <2> QED BY <2>1, <2>2, <2>3, <2>4, <2>5, <2>6, <2>7 DEF Next, MainLoop
<1> QED BY <1>1, <1>2, PTL DEF Spec, PwrSpec

(* The sensors of a UMB station are never cycled faster than the watchdog   *)
(* period.                                                                  *)
THEOREM StationNeverLoops == Spec => NoResetLoop
BY DrivesSupply, SupplyNeverLoops

----------------------------------------------------------------------------
(* TypeCorrect.  The types of the supply come with the refinement.          *)
Ages ==
  /\ nokAge \in 0 .. TenMinutes /\ timeoutAge \in 0 .. TenMinutes
  /\ successAge \in 0 .. TenMinutes + 1

Requests ==
  /\ routine \in {"STATUS", "DATA"}
  /\ current \in Measurements \cup {NoChannel} /\ asked \in Measurements \cup {NoChannel}
  /\ frame \in Reply \cup {Garbled} /\ replies \in SUBSET Reply

Iterator == channels \in Stations /\ it \in 1 .. Len(channels) + 1

States ==
  /\ state \in {"IDLE", "READY_TO_SEND", "SENDING_REQUEST", "WAITING_FOR_RESPONSE",
                "RESPONSE_AVALIABLE", "ERROR", "ERROR_WRONG_RID"}
  /\ qf \in {"UNINITIALIZED", "FULL", "DEGRADED", "NOT_AVALIABLE"}
  /\ sending \in {"NOTHING", "REQUEST", "OTHER", "MIXTURE"}
  /\ rx \in {"IDLE", "KISS", "KISS_FRAME", "WAITING", "RECEIVING", "DONE", "ERROR"}
  /\ loop \in {"RADIO", "RECEIVE", "TRANSMIT", "STATUS", "POOLS"}
  /\ due \in BOOLEAN /\ replaced \in BOOLEAN /\ frames \in 0 .. MaxFrames

Typed == Ages /\ Requests /\ Iterator /\ States

LEMMA TypesTogether == TypeOK <=> PwrTypeOK /\ Ages /\ Requests /\ States
                                  /\ it \in 1 .. Len(channels) + 1
BY DEF TypeOK, Ages, Requests, States

LEMMA PlaceIsInside ==
  ASSUME Iterator
  PROVE  /\ Len(channels) \in Nat /\ Place \in 1 .. Len(channels)
         /\ Place + 1 \in 1 .. Len(channels) + 1
         /\ channels[Place] \in Measurements \cup {NoChannel}
<1>1. channels \in Seq(Measurements \cup {NoChannel}) /\ Len(channels) \in Nat /\ Len(channels) > 0
  BY UmbConstants DEF Iterator
<1>2. Place \in 1 .. Len(channels)
  BY <1>1 DEF Place, Iterator
<1>3. QED
  BY <1>1, <1>2

LEMMA RequestTyped ==
  ASSUME Requests, NEW r \in {"STATUS", "DATA"}, NEW c \in Measurements \cup {NoChannel},
         Requested(r, c)
  PROVE  /\ routine' \in {"STATUS", "DATA"} /\ asked' \in Measurements \cup {NoChannel}
         /\ replies' \in SUBSET Reply
BY DEF Requested, Requests, Reply

LEMMA ReceiveTyped ==
  ASSUME Typed, PoolReceive
  PROVE  Typed'
<1> USE DEF PoolReceive, PoolReceiveIdle, PoolReceiveError, MasterCallback, OfflineDataCallback,
        StatusCallback, Ignores, BackToIdle, Typed
<1>1. Ages'
  BY UmbConstants DEF Ages, ages
<1>2. Requests'
  BY DEF Requests, umb
<1>3. Iterator'
  BY DEF Iterator, umb, config
<1>4. States'
  BY DEF States, umb, Goes
<1>5. QED
  BY <1>1, <1>2, <1>3, <1>4

LEMMA TransmitTyped ==
  ASSUME Typed, PoolTransmitIdle \/ RadioFrame
  PROVE  Typed'
<1> USE DEF PoolTransmitIdle, Armed, RadioFrame, Ignores, BackToIdle, Typed, umb, ages
<1>1. Ages'
  BY DEF Ages
<1>2. Requests'
  BY DEF Requests
<1>3. Iterator'
  BY DEF Iterator, config
<1>4. States'
  BY UmbConstants DEF States, Goes, Clobbered
<1>5. QED
  BY <1>1, <1>2, <1>3, <1>4

LEMMA StatusTyped ==
  ASSUME Typed, StatusRequest
  PROVE  Typed'
<1> USE DEF StatusRequest, Typed, umb
<1>1. Ages'
  BY DEF Ages, ages
<1>2. Requests'
  BY RequestTyped DEF Requests
<1>3. Iterator'
  BY DEF Iterator, config, Requested
<1>4. States'
  BY DEF States, Goes, Requested
<1>5. QED
  BY <1>1, <1>2, <1>3, <1>4

LEMMA PoolsTyped ==
  ASSUME Typed, TimedPools
  PROVE  Typed'
<1> USE DEF TimedPools, Typed, umb
<1>1. Ages'
  BY DEF Ages, ages
<1>2. Requests'
  BY PlaceIsInside, RequestTyped DEF Requests, ChannelPool
<1>3. Iterator'
  BY PlaceIsInside DEF Iterator, config, ChannelPool
<1>4. States'
  BY DEF States, Goes, ChannelPool, Requested, CurrentQf
<1>5. QED
  BY <1>1, <1>2, <1>3, <1>4

LEMMA BusTyped ==
  ASSUME Typed, Sent \/ ReplyReceived \/ ReplyLost \/ RxTimeout
  PROVE  Typed'
<1> USE DEF Sent, ReplyReceived, ReplyLost, RxTimeout, Typed, umb
<1>1. Ages'
  BY DEF Ages, ages
<1>2. Requests'
  <2>1. CASE Sent
    <3>1. \A k \in {"OK", "NOK", "REFUSED"} :
            [routine |-> routine, channel |-> asked, kind |-> k, late |-> FALSE] \in Reply
      BY DEF Requests, Reply
    <3>2. QED
      BY <2>1, <3>1 DEF Requests
  <2>2. CASE ReplyReceived \/ ReplyLost \/ RxTimeout
    BY <2>2 DEF Requests
  <2>3. QED
    BY <2>1, <2>2
<1>3. Iterator'
  BY DEF Iterator, config
<1>4. States'
  BY DEF States
<1>5. QED
  BY <1>1, <1>2, <1>3, <1>4

LEMMA TickTyped ==
  ASSUME Typed, Tick
  PROVE  Typed'
<1> USE DEF Tick, Typed, umb, port, config
<1>1. Ages'
  BY UmbConstants DEF Ages, Older
<1>2. Requests' /\ Iterator'
  BY DEF Requests, Iterator
<1>3. States'
  BY DEF States
<1>4. QED
  BY <1>1, <1>2, <1>3

LEMMA TypedHolds == Spec => []Typed
<1>1. Init => Typed
  <2> SUFFICES ASSUME Init
               PROVE  Typed
    OBVIOUS
  <2>1. Ages /\ Requests
    BY UmbConstants DEF Init, Ages, Requests
  <2>2. Iterator
    BY UmbConstants DEF Init, Iterator
  <2>3. States
    <3>1. due \in BOOLEAN /\ replaced \in BOOLEAN
      BY DEF Init
    <3>2. frames \in 0 .. MaxFrames
      BY UmbConstants DEF Init
    <3>3. QED
      BY <3>1, <3>2 DEF Init, States
  <2>4. QED
    BY <2>1, <2>2, <2>3 DEF Typed
<1>2. Typed /\ [Next]_vars => Typed'
  <2> SUFFICES ASSUME Typed, [Next]_vars
               PROVE  Typed'
    OBVIOUS
  <2>1. CASE UNCHANGED vars
    BY <2>1 DEF vars, umb, config, ages, port, Typed, Ages, Requests, Iterator, States
  <2>2. QED
    BY <2>1, ReceiveTyped, TransmitTyped, StatusTyped, PoolsTyped, BusTyped, TickTyped
    DEF Next, MainLoop
<1>3. QED
  BY <1>1, <1>2, PTL DEF Spec

(* Every field of the UMB master keeps its type, and the iterator stays     *)
(* inside the list of channels or one behind it (umb_channel_pool.c:11-16). *)
THEOREM TypeCorrect == Spec => []TypeOK
<1>1. Typed /\ PwrTypeOK => TypeOK
  BY TypesTogether DEF Typed, Iterator
<1>2. QED
  BY <1>1, TypedHolds, DrivesSupply, PwrTypeCorrect, PTL

----------------------------------------------------------------------------
(* TimerOfItsChannel.  A reply is either marked late or answers the request *)
(* in progress; it is in the receive buffer only until the next call of the *)
(* handler, which comes before any other request; and the current channel   *)
(* is the one asked for until the pool replaces it.                         *)
InProgress ==
  /\ rx \in {"WAITING", "RECEIVING"} => state = "WAITING_FOR_RESPONSE"
  /\ frame # Garbled => rx = "DONE" /\ state = "WAITING_FOR_RESPONSE"

Answers(r) == r.late \/ r.channel = asked

AnswersRequest ==
  /\ \A r \in replies : Answers(r)
  /\ frame # Garbled => Answers(frame)

CurrentAsked == routine = "DATA" /\ ~replaced => current = asked

PollInv == InProgress /\ AnswersRequest /\ CurrentAsked

(* A new request makes every reply on its way a late one. *)
LEMMA RequestKeepsPoll ==
  ASSUME Typed, PollInv, Accepts, NEW r, NEW c, Requested(r, c),
         r = "DATA" => current' = c, UNCHANGED <<rx, frame>>
  PROVE  PollInv'
<1>1. state \notin {"WAITING_FOR_RESPONSE"}
  BY DEF Accepts
<1>2. InProgress'
  BY <1>1 DEF PollInv, InProgress
<1>3. \A x \in replies' : x.late
  BY DEF Requested, Typed, Requests, Reply
<1>4. AnswersRequest'
  BY <1>1, <1>3 DEF PollInv, InProgress, AnswersRequest, Answers
<1>5. CurrentAsked'
  BY DEF Requested, CurrentAsked
<1>6. QED
  BY <1>2, <1>4, <1>5 DEF PollInv

LEMMA PollInvInductive ==
  ASSUME Typed, PollInv, [Next]_vars
  PROVE  PollInv'
<1> USE DEF PollInv, InProgress, AnswersRequest, Answers, CurrentAsked, umb
<1>1. CASE PoolReceive
  <2>1. UNCHANGED <<routine, current, asked, replaced, rx, replies>>
    BY <1>1 DEF PoolReceive, PoolReceiveIdle, PoolReceiveError, Ignores
  <2>2. frame' = Garbled \/ (frame' = frame /\ (state = "WAITING_FOR_RESPONSE" => state' = state))
    BY <1>1 DEF PoolReceive, PoolReceiveIdle, PoolReceiveError, Ignores, BackToIdle, Understood
  <2>3. rx \in {"WAITING", "RECEIVING"} => state' = state
    BY <1>1 DEF PoolReceive
  <2>4. QED
    BY <2>1, <2>2, <2>3
<1>2. CASE PoolTransmitIdle
  BY <1>2 DEF PoolTransmitIdle, Armed, Ignores, BackToIdle
<1>3. CASE StatusRequest
  <2>1. CASE Accepts /\ Requested("STATUS", NoChannel)
    BY <1>3, <2>1, RequestKeepsPoll DEF StatusRequest
  <2>2. CASE UNCHANGED <<umb, replies>>
    BY <1>3, <2>2 DEF StatusRequest
  <2>3. QED
    BY <1>3, <2>1, <2>2 DEF StatusRequest
<1>4. CASE TimedPools
  <2>1. UNCHANGED <<rx, frame>>
    BY <1>4 DEF TimedPools
  <2>2. CASE UNCHANGED <<umb, replies>>
    BY <2>1, <2>2
  <2>3. ASSUME ChannelPool
        PROVE  PollInv'
    <3> DEFINE c == channels[Place]
    <3>1. CASE c # NoChannel /\ Accepts
      <4>1. Requested("DATA", c) /\ current' = c
        BY <2>3, <3>1 DEF ChannelPool
      <4> HIDE DEF c
      <4>2. QED
        BY <2>1, <3>1, <4>1, RequestKeepsPoll
    <3>2. CASE ~(c # NoChannel /\ Accepts)
      BY <2>1, <2>3, <3>2 DEF ChannelPool
    <3>3. QED
      BY <3>1, <3>2
  <2>4. QED
    BY <1>4, <2>2, <2>3 DEF TimedPools
<1>5. CASE Sent
  BY <1>5 DEF Sent
<1>6. CASE ReplyReceived
  BY <1>6 DEF ReplyReceived
<1>7. CASE RadioFrame \/ ReplyLost \/ RxTimeout \/ Tick
  <2>1. /\ UNCHANGED <<umb, frame>> /\ replies' \subseteq replies
        /\ rx' = rx \/ (rx \in {"WAITING", "KISS_FRAME"} /\ rx' = "ERROR")
    BY <1>7 DEF RadioFrame, ReplyLost, RxTimeout, Tick, port
  <2>2. QED
    BY <2>1
<1>8. CASE UNCHANGED vars
  BY <1>8 DEF vars, port
<1>9. QED
  BY <1>1, <1>2, <1>3, <1>4, <1>5, <1>6, <1>7, <1>8 DEF Next, MainLoop

(* The timer of a channel is refreshed by a reply of that channel           *)
(* (umb_0x23_offline_data_callback), unless the pool has moved the current  *)
(* channel on meanwhile or the reply belongs to an older request.           *)
THEOREM TimerIsItsChannels == Spec => TimerOfItsChannel
<1> DEFINE Own == \A m \in Measurements :
                    loop = "RECEIVE" /\ rx = "DONE" /\ goodAge'[m] < goodAge[m]
                      => frame.channel = m \/ replaced \/ frame.late
<1>1. Init => PollInv
  BY DEF Init, PollInv, InProgress, AnswersRequest, CurrentAsked
<1>2. Typed /\ PollInv /\ [Next]_vars => PollInv'
  BY PollInvInductive
<1>3. ASSUME TypeOK, PollInv, [Next]_vars
      PROVE  [Own]_vars
  <2> SUFFICES ASSUME Next, NEW m \in Measurements, loop = "RECEIVE", rx = "DONE",
                      goodAge'[m] < goodAge[m]
               PROVE  frame.channel = m \/ replaced \/ frame.late
    BY <1>3
  <2>1. goodAge[m] \in Nat
    BY <1>3 DEF TypeOK, PwrTypeOK
  <2>2. goodAge' # goodAge
    BY <2>1
  <2>3. PoolReceive
    BY <2>2 DEF Next, MainLoop, RadioFrame, PoolTransmitIdle, StatusRequest, TimedPools, Goes,
       Sent, ReplyReceived, ReplyLost, RxTimeout, Tick, pwrVars, Ignores
  <2>4. PoolReceiveIdle /\ Understood /\ MasterCallback
    BY <2>2, <2>3 DEF PoolReceive, PoolReceiveIdle, Ignores, pwrVars
  <2>5. routine = "DATA" /\ UpdateLastMeasurementTimers(current)
    BY <2>2, <2>4 DEF MasterCallback, StatusCallback, OfflineDataCallback, TimerToRefresh, pwrVars
  <2>6. m = current
    BY <1>3, <2>1, <2>5 DEF UpdateLastMeasurementTimers, Refreshed, TypeOK, PwrTypeOK
  <2>7. QED
    BY <1>3, <2>4, <2>5, <2>6 DEF PollInv, AnswersRequest, Answers, CurrentAsked, Understood
<1>4. QED
  BY <1>1, <1>2, <1>3, TypedHolds, TypeCorrect, PTL DEF Spec, TimerOfItsChannel
----------------------------------------------------------------------------
(* SilenceIsTold without its fairness: once the pool of ten seconds has     *)
(* been served, a sensor that has not been heard of for ten minutes is      *)
(* reported as not available, whatever errors, timeouts, garbled replies    *)
(* or radio frames came in the meantime, and also when no poll ever ends.   *)
ServedSilenceTold == successAge > TenMinutes /\ ~due => qf = "NOT_AVALIABLE"

(* For every station, every duration and any number of replies and frames.  *)
THEOREM SilenceToldInTime == Spec => []ServedSilenceTold
<1>1. Init => ServedSilenceTold
  BY UmbConstants DEF Init, ServedSilenceTold
<1>2. Typed /\ ServedSilenceTold /\ [Next]_vars => ServedSilenceTold'
  <2> SUFFICES ASSUME Typed, ServedSilenceTold, [Next]_vars PROVE ServedSilenceTold'
    OBVIOUS
  <2> USE DEF ServedSilenceTold, ages, port
  <2>1. CASE RadioFrame
    BY <2>1 DEF RadioFrame
  <2>2. CASE PoolReceive
    <3>1. UNCHANGED <<qf, due>> /\ successAge' \in {successAge, 0}
      BY <2>2 DEF PoolReceive, PoolReceiveIdle, PoolReceiveError, MasterCallback, Ignores
    <3>2. QED
      BY <3>1, UmbConstants
  <2>3. CASE PoolTransmitIdle
    <3>1. UNCHANGED <<qf, due, successAge>>
      BY <2>3 DEF PoolTransmitIdle, Ignores
    <3>2. QED
      BY <3>1
  <2>4. CASE StatusRequest
    BY <2>4 DEF StatusRequest
  <2>5. CASE TimedPools
    BY <2>5 DEF TimedPools, CurrentQf
  <2>6. CASE Sent \/ ReplyReceived \/ ReplyLost \/ RxTimeout
    BY <2>6 DEF Sent, ReplyReceived, ReplyLost, RxTimeout
  <2>7. CASE Tick
    BY <2>7 DEF Tick
  <2>8. CASE UNCHANGED vars
    BY <2>8 DEF vars
  <2>9. QED
    BY <2>1, <2>2, <2>3, <2>4, <2>5, <2>6, <2>7, <2>8 DEF Next, MainLoop
<1>3. QED
  BY <1>1, <1>2, TypedHolds, PTL DEF Spec
=============================================================================
