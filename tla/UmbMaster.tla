----------------------------- MODULE UmbMaster -----------------------------
(***************************************************************************)
(* The UMB master, system/src/umb_master/: the pooling handler, the status  *)
(* and the offline data routine, the channel pool and the quality factor,   *)
(* with the part of the main loop that calls them and that feeds the port.  *)
(*                                                                          *)
(* The serial port is what its client sees of SerialRx and SerialTx.  On    *)
(* the first board revision the KISS interface uses the same port and the   *)
(* same transmit buffer (main.c:281-283): a frame heard on the radio is put *)
(* there whatever is being sent (main.c:638-645).  On the later ones the    *)
(* UMB bus has a port of its own, but the request is still written into the *)
(* buffer of the first port (umb_master.c:196), so what is sent is not it.  *)
(*                                                                          *)
(* A tick is ten seconds: an exchange on the bus, whose timeout is 1.2 s,   *)
(* may take any number of rounds of the main loop between two ticks.        *)
(***************************************************************************)
EXTENDS WxPower, Sequences, FiniteSets

CONSTANTS
  Stations,     \* the configurations: channel_numbers, a sequence of channels
  NoChannel,    \* 0 or 0xFFFF in channel_numbers
  TenMinutes,   \* TEN_MINUTES, in ticks
  MaxFrames,    \* bound: radio frames passed to the KISS host
  MaxReplies    \* bound: replies on their way at a time

ASSUME UmbConstants ==
  /\ \A s \in Stations : s \in Seq(Measurements \cup {NoChannel}) /\ Len(s) > 0
  /\ NoChannel \notin Measurements
  /\ TenMinutes \in Nat \ {0} /\ MaxFrames \in Nat /\ MaxReplies \in Nat

VARIABLES
  channels,    \* channel_numbers
  shared,      \* the KISS interface uses the port of the UMB bus
  state,       \* ctx->state
  routine,     \* ctx->current_routine
  current,     \* ctx->current_channel
  it,          \* ctx->channel_number_it, counted from 1
  asked,       \* the channel in the frame that is to be sent or was sent
  nokAge, timeoutAge, successAge,  \* the ages of the three time_of_last_... fields
  qf,          \* rte_wx_umb_qf
  sending,     \* what the transmitter of the port sends
  rx,          \* srl_rx_state of the port, KISS and KISS_FRAME for a host's frame
  frame,       \* what is in its receive buffer
  replies,     \* replies of the slave that are on their way
  loop,        \* where the main loop is
  due,         \* the timers of the pools of two and of ten seconds have run out
  replaced,    \* history: current was replaced since the request was accepted
  frames       \* history: radio frames so far

config == <<channels, shared>>
ages   == <<nokAge, timeoutAge, successAge>>
port   == <<sending, rx, frame, replies>>
umb    == <<state, routine, current, it, asked, replaced>>
vars   == <<config, umb, ages, qf, port, loop, due, frames, pwrVars>>

(* A reply: the routine and the channel it answers, what its content is (a  *)
(* value, an error status, a value the master refuses), and whether its     *)
(* request has been given up in the meantime.                               *)
Reply == [routine : {"STATUS", "DATA"}, channel : Measurements \cup {NoChannel},
          kind : {"OK", "NOK", "REFUSED"}, late : BOOLEAN]
Garbled == [routine |-> "NONE"]   \* umb_parse_serial_buffer_to_frame is not UMB_OK

Older(age, cap) == IF age < cap THEN age + 1 ELSE cap

Init ==
  /\ PwrInit
  /\ channels \in Stations /\ shared \in BOOLEAN
  /\ state = "READY_TO_SEND" /\ routine = "STATUS"   \* main.c:584-586
  /\ current = NoChannel /\ it = 1 /\ asked = NoChannel
  /\ nokAge = TenMinutes /\ timeoutAge = TenMinutes  \* 0xFFFFFFFF: never, as long ago
  /\ successAge = 0
  /\ qf = "UNINITIALIZED"
  /\ sending \in IF shared THEN {"NOTHING", "OTHER"} ELSE {"NOTHING"}   \* main.c:523
  /\ rx = IF shared THEN "KISS" ELSE "IDLE"   \* main.c:570
  /\ frame = Garbled /\ replies = {}
  /\ loop = "RADIO" /\ due = FALSE /\ replaced = FALSE /\ frames = 0

Goes(from, to) == loop = from /\ loop' = to

----------------------------------------------------------------------------
(* umb_pooling_handler, once for each reason the main loop calls it for.    *)

(* The three ways out that do not look at the reason, or only at one.       *)
BackToIdle(reasonIsReceiveIdle) ==
  \/ state \in {"ERROR", "ERROR_WRONG_RID"}
  \/ state = "RESPONSE_AVALIABLE" /\ reasonIsReceiveIdle

Ignores(reasonIsReceiveIdle) ==
  /\ state' = IF BackToIdle(reasonIsReceiveIdle) THEN "IDLE" ELSE state
  /\ UNCHANGED <<routine, current, it, asked, replaced, ages, pwrVars>>

(* The place of the next channel in channel_numbers. *)
Place == IF it > Len(channels) THEN 1 ELSE it

(* mutant: the channel the iterator stands at, which has moved on already *)
TimerAtIterator == channels[Place]
TimerToRefresh == current

(* umb_0x23_offline_data_callback: its own error states are overwritten by  *)
(* the handler, which only sees that the routine was the one asked for.     *)
OfflineDataCallback ==
  /\ nokAge' = IF frame.kind = "NOK" THEN 0 ELSE nokAge
  /\ IF frame.kind = "OK" THEN UpdateLastMeasurementTimers(TimerToRefresh)
     ELSE UNCHANGED pwrVars

(* umb_0x26_status_callback *)
StatusCallback ==
  /\ nokAge' = IF frame.kind = "NOK" THEN 0 ELSE nokAge
  /\ UNCHANGED pwrVars

(* umb_master_callback, and what the handler makes of its result. *)
MasterCallback ==
  IF frame.routine # routine
    THEN /\ state' = "ERROR" /\ UNCHANGED <<nokAge, successAge, pwrVars>>
    ELSE /\ state' = "RESPONSE_AVALIABLE" /\ successAge' = 0
         /\ IF routine = "DATA" THEN OfflineDataCallback ELSE StatusCallback

(* mutant: a reply of another routine is left in the buffer, as one that    *)
(* does not parse is                                                        *)
UnderstoodIfExpected == frame # Garbled /\ frame.routine = routine
Understood == frame # Garbled

(* REASON_RECEIVE_IDLE and REASON_RECEIVE_ERROR: a reception that is done   *)
(* stays so until the next one is armed, so one of the two calls is made.   *)
PoolReceiveIdle ==
  IF state = "WAITING_FOR_RESPONSE" /\ Understood
    THEN /\ MasterCallback
         /\ frame' = Garbled   \* nobody reads it again
         /\ UNCHANGED <<routine, current, it, asked, replaced, timeoutAge>>
    ELSE Ignores(TRUE) /\ UNCHANGED frame

PoolReceiveError ==
  IF state = "WAITING_FOR_RESPONSE"
    THEN /\ state' = "ERROR" /\ timeoutAge' = 0
         /\ UNCHANGED <<routine, current, it, asked, replaced,
                        nokAge, successAge, pwrVars>>
    ELSE Ignores(FALSE)

PoolReceive ==
  /\ Goes("RECEIVE", "TRANSMIT")
  /\ \/ rx = "DONE" /\ PoolReceiveIdle
     \/ rx = "ERROR" /\ PoolReceiveError /\ UNCHANGED frame
     \/ rx \notin {"DONE", "ERROR"} /\ UNCHANGED <<umb, ages, pwrVars, frame>>
  /\ UNCHANGED <<config, qf, sending, rx, replies, due, frames>>

(* srl_receive_data refuses while bytes come in; a reception that is under  *)
(* way at that time can only be the one armed for a KISS frame at the       *)
(* start, which gets the timeouts of the master with it (:211-215).         *)
Armed == IF rx = "KISS_FRAME" THEN rx ELSE "WAITING"

PoolTransmitIdle ==
  /\ Goes("TRANSMIT", "STATUS")
  /\ \/ /\ sending = "NOTHING" /\ state = "READY_TO_SEND"
        /\ state' = "SENDING_REQUEST"
        /\ sending' = IF shared THEN "REQUEST" ELSE "OTHER"
        /\ UNCHANGED <<rx, frame, routine, current, it, asked, replaced, ages, pwrVars>>
     \/ /\ sending = "NOTHING" /\ state = "SENDING_REQUEST"
        /\ state' = "WAITING_FOR_RESPONSE"
        /\ rx' = Armed /\ frame' = Garbled   \* srl_receive_data empties the buffer
        /\ UNCHANGED <<sending, routine, current, it, asked, replaced, ages, pwrVars>>
     \/ /\ sending = "NOTHING" /\ state \notin {"READY_TO_SEND", "SENDING_REQUEST"}
        /\ Ignores(FALSE) /\ UNCHANGED <<sending, rx, frame>>
     \/ /\ sending # "NOTHING"
        /\ UNCHANGED <<umb, ages, pwrVars, sending, rx, frame>>
  /\ UNCHANGED <<config, qf, replies, due, frames>>

----------------------------------------------------------------------------
(* The rest of the main loop.                                               *)

(* A frame from the radio goes to the KISS host: the transmit buffer is     *)
(* emptied and filled again, also while the port still sends from it, and   *)
(* srl_start_tx refuses only then.                                          *)
Clobbered == IF sending = "NOTHING" THEN "OTHER" ELSE "MIXTURE"

RadioFrame ==
  /\ Goes("RADIO", "RECEIVE")
  /\ \/ /\ frames < MaxFrames /\ shared
        /\ frames' = frames + 1
        /\ sending' = Clobbered
     \/ UNCHANGED <<frames, sending>>
  /\ UNCHANGED <<config, umb, ages, qf, rx, frame, replies, due, pwrVars>>

Accepts == state \in {"IDLE", "ERROR"}

Requested(r, c) ==
  /\ state' = "READY_TO_SEND" /\ routine' = r /\ asked' = c /\ replaced' = FALSE
  /\ replies' = {[x EXCEPT !.late = TRUE] : x \in replies}

(* umb_0x26_status_request: every 65 seconds, which drift over the pools of *)
(* ten seconds.                                                             *)
StatusRequest ==
  /\ Goes("STATUS", "POOLS")
  /\ \/ /\ Accepts /\ Requested("STATUS", NoChannel)
        /\ UNCHANGED <<current, it>>
     \/ UNCHANGED <<umb, replies>>
  /\ UNCHANGED <<config, ages, qf, sending, rx, frame, due, frames, pwrVars>>

(* umb_channel_pool, with umb_0x23_offline_data_request in it. *)
ChannelPool ==
  LET c == channels[Place]
  IN  /\ current' = c /\ it' = Place + 1
      /\ IF c # NoChannel /\ Accepts THEN Requested("DATA", c)
         ELSE replaced' = TRUE /\ UNCHANGED <<state, routine, asked, replies>>

(* mutant: a recent timeout is looked at before the long silence *)
CurrentQfDegradedFirst ==
  IF nokAge < TenMinutes \/ timeoutAge < TenMinutes THEN "DEGRADED"
  ELSE IF successAge > TenMinutes THEN "NOT_AVALIABLE" ELSE "FULL"

(* umb_get_current_qf *)
CurrentQf ==
  IF successAge > TenMinutes THEN "NOT_AVALIABLE"
  ELSE IF nokAge < TenMinutes \/ timeoutAge < TenMinutes THEN "DEGRADED" ELSE "FULL"

(* The pool of two seconds, which may come more often than once a tick, and *)
(* the pool of ten seconds: they share no variable.                         *)
TimedPools ==
  /\ Goes("POOLS", "RADIO")
  /\ WxPwrPeriodicHandle \/ (~due /\ UNCHANGED pwrVars)
  /\ IF due THEN ChannelPool /\ qf' = CurrentQf ELSE UNCHANGED <<umb, qf, replies>>
  /\ due' = FALSE
  /\ UNCHANGED <<config, ages, sending, rx, frame, frames>>

----------------------------------------------------------------------------
(* The port, the bus and the time.                                          *)

(* The last byte of a transmission has left.  The slave may answer a        *)
(* request that is whole, if it has power.                                  *)
Sent ==
  /\ sending # "NOTHING" /\ sending' = "NOTHING"
  /\ \/ UNCHANGED replies
     \/ /\ sending = "REQUEST" /\ pwr = "ON" /\ Cardinality(replies) < MaxReplies
        /\ \E k \in {"OK", "NOK", "REFUSED"} :
             replies' = replies \cup {[routine |-> routine, channel |-> asked,
                                       kind |-> k, late |-> FALSE]}
  /\ UNCHANGED <<config, umb, ages, qf, rx, frame, loop, due, frames, pwrVars>>

(* A reply comes: whole, garbled, or only its beginning, after which no     *)
(* timeout runs (SerialRx).  What comes when nobody listens is lost.  While *)
(* the port waits for a KISS frame, a reply may hold the byte that begins   *)
(* one, and the one that ends it.                                           *)
ReplyReceived ==
  \E r \in replies :
    /\ replies' = replies \ {r}
    /\ \/ rx = "WAITING" /\ rx' = "DONE" /\ frame' \in {r, Garbled}
       \/ rx = "WAITING" /\ rx' = "RECEIVING" /\ UNCHANGED frame
       \/ rx = "RECEIVING" /\ rx' = "DONE" /\ frame' = Garbled
       \/ rx = "KISS" /\ rx' \in {"KISS", "KISS_FRAME", "DONE"} /\ UNCHANGED frame
       \/ rx = "KISS_FRAME" /\ rx' \in {"KISS_FRAME", "DONE"} /\ UNCHANGED frame
       \/ rx \in {"IDLE", "DONE", "ERROR"} /\ UNCHANGED <<rx, frame>>
    /\ UNCHANGED <<config, umb, ages, qf, sending, loop, due, frames, pwrVars>>

ReplyLost ==
  \E r \in replies :
    /\ replies' = replies \ {r}
    /\ UNCHANGED <<config, umb, ages, qf, sending, rx, frame, loop, due, frames, pwrVars>>

RxTimeout ==
  /\ rx = "WAITING" \/ (rx = "KISS_FRAME" /\ state = "WAITING_FOR_RESPONSE")
  /\ rx' = "ERROR"
  /\ UNCHANGED <<config, umb, ages, qf, sending, frame, replies, loop, due, frames, pwrVars>>

(* Time passes while the loop works on a frame from the radio, which may    *)
(* take seconds, and else too fast to be seen between two calls.  The loop  *)
(* is never held up for longer than ten seconds, or the watchdog (13 s,     *)
(* main.c:404-421) would restart the board.                                 *)
Tick ==
  /\ loop = "RADIO" /\ ~due /\ due' = TRUE
  /\ nokAge' = Older(nokAge, TenMinutes) /\ timeoutAge' = Older(timeoutAge, TenMinutes)
  /\ successAge' = Older(successAge, TenMinutes + 1)
  /\ PwrTick
  /\ UNCHANGED <<config, umb, qf, port, loop, frames>>

MainLoop == RadioFrame \/ PoolReceive \/ PoolTransmitIdle \/ StatusRequest \/ TimedPools

Next == MainLoop \/ Sent \/ ReplyReceived \/ ReplyLost \/ RxTimeout \/ Tick

Spec == Init /\ [][Next]_vars

(* The loop goes round, a transmission ends, the timeout comes, time goes   *)
(* on.  Nothing is assumed of the slave.                                    *)
FairSpec == Spec /\ WF_vars(MainLoop) /\ WF_vars(Sent) /\ WF_vars(RxTimeout) /\ WF_vars(Tick)

----------------------------------------------------------------------------
TypeOK ==
  /\ PwrTypeOK
  /\ state \in {"IDLE", "READY_TO_SEND", "SENDING_REQUEST", "WAITING_FOR_RESPONSE",
                "RESPONSE_AVALIABLE", "ERROR", "ERROR_WRONG_RID"}
  /\ routine \in {"STATUS", "DATA"}
  /\ current \in Measurements \cup {NoChannel} /\ asked \in Measurements \cup {NoChannel}
  /\ it \in 1 .. Len(channels) + 1
  /\ nokAge \in 0 .. TenMinutes /\ timeoutAge \in 0 .. TenMinutes
  /\ successAge \in 0 .. TenMinutes + 1
  /\ qf \in {"UNINITIALIZED", "FULL", "DEGRADED", "NOT_AVALIABLE"}
  /\ sending \in {"NOTHING", "REQUEST", "OTHER", "MIXTURE"}
  /\ rx \in {"IDLE", "KISS", "KISS_FRAME", "WAITING", "RECEIVING", "DONE", "ERROR"}
  /\ frame \in Reply \cup {Garbled}
  /\ replies \subseteq Reply
  /\ loop \in {"RADIO", "RECEIVE", "TRANSMIT", "STATUS", "POOLS"} /\ due \in BOOLEAN
  /\ replaced \in BOOLEAN /\ frames \in 0 .. MaxFrames

(* A timer that says when a channel was last read is refreshed by the reply *)
(* of that channel.  The reply itself names its channel, but the timer is   *)
(* that of the channel last asked for: the pool moves it on when a request  *)
(* is refused (umb_channel_pool.c:16), and a late reply belongs to an older *)
(* request; but for these two, the two agree.                               *)
TimerOfItsChannel ==
  [][\A m \in Measurements :
       loop = "RECEIVE" /\ rx = "DONE" /\ goodAge'[m] < goodAge[m]
         => frame.channel = m \/ replaced \/ frame.late]_vars

(* What spoils a poll for ever: a reply that does not parse is parsed again *)
(* in every round, and a reply that stops after its start byte is awaited   *)
(* without a timeout.                                                       *)
Spoiled ==
  /\ state = "WAITING_FOR_RESPONSE"
  /\ (rx = "DONE" /\ frame = Garbled) \/ rx = "RECEIVING"

(* Every request comes to its end, whatever the slave answers, when it      *)
(* answers late or not at all, and when a radio frame takes the port or     *)
(* overwrites the request: the next routine can start.  Only a spoiled      *)
(* reply ends the polls (umb_master.c:231-253).                             *)
PollEnds == (~Accepts) ~> (Accepts \/ Spoiled)

(* Whatever goes wrong on the bus, also when the polls have stopped for     *)
(* ever: a sensor that has not been heard of for ten minutes is reported as *)
(* not available, so that wx_get_all_measurements takes none of its values. *)
SilenceIsTold == (successAge > TenMinutes) ~> (qf = "NOT_AVALIABLE" \/ successAge = 0)
=============================================================================
