----------------------------- MODULE WxSensors -----------------------------
(***************************************************************************)
(* The two sensors that are timed by one counter, delay_5us of TIM2: the    *)
(* DS18B20 thermometer (drivers/dallas.c), which the main loop waits for    *)
(* where it stands, and the DHT22 (drivers/_dht22.c), which the main loop   *)
(* starts and whose falling edges an interrupt counts while the loop goes   *)
(* on; and what the weather handler and the telemetry make of them          *)
(* (src/src/wx_handler.c, packet_tx_handler.c).  Both sensors switch TIM2   *)
(* on and off, and with it, the other way round, the interrupts of the      *)
(* modem.                                                                   *)
(*                                                                          *)
(* The counter is a small number of periods.  EXTI4 (priority 8) and TIM2   *)
(* (1) preempt the main loop between its steps.                             *)
(***************************************************************************)
EXTENDS Integers

CONSTANTS
  Edges,       \* falling edges of a DHT22 transfer: 41 in the firmware
  Interrupt,   \* DHT22_INTERRUPT_DURATION, in periods of delay_5us
  Waits,       \* waits for delay_5us in one dallas_query
  Temps,       \* temperatures the thermometer can answer
  Rtu,         \* what the Modbus slave says of its temperature, NoSource for none
  CalmRounds,  \* rounds without anything going on before the next measurement
  MaxFaults,   \* bound on edges that are missed or that nobody sent
  None, NoSource

ASSUME WxSensorsConstants ==
  /\ Edges \in Nat \ {0} /\ Interrupt \in Nat \ {0} /\ Waits \in Nat \ {0}
  /\ Temps \subseteq Int /\ Rtu \subseteq {"FULL", "DEGRADED", "NAVB", NoSource}
  /\ NoSource \notin {"FULL", "DEGRADED", "NAVB"}
  /\ CalmRounds \in Nat \ {0} /\ MaxFaults \in Nat /\ None \notin Int

VARIABLES
  loop,                \* where the main loop is
  waits,               \* waits that are left in the query
  delay, timer,        \* delay_5us, and TIM2 counts
  modem,               \* the interrupts of TIM4 and TIM7 are enabled
  dht, bit,            \* dht22State, currentBit
  humidity, valid,     \* qf of rte_wx_dht and of rte_wx_dht_valid
  edges, faults,       \* edges the DHT22 is still to send; faults so far
  due,                 \* main_wx_sensors_pool_timer has run down
  temp, inhibit,       \* rte_wx_temperature_dallas_valid, wx_inhibit_slew_rate_check
  current, error,      \* rte_wx_current_dallas_qf, rte_wx_error_dallas_qf
  reboot,              \* rte_main_reboot_req
  whole,               \* history: no edge of this transfer was missed, added or mistimed
  last,                \* history: how the last transfer ended
  calm,                \* rounds of the main loop in a row with nothing going on
  trouble, used        \* history: queries that went wrong since the telemetry; the reading used last

timing  == <<delay, timer, modem>>
dhtVars == <<dht, bit, humidity, valid>>
line    == <<edges, faults>>
dallas  == <<temp, inhibit, current, error, reboot>>
told    == <<trouble, used>>
wxVars  == <<loop, waits, timing, dhtVars, line, due, dallas, whole, last, calm, told>>

WxInit ==
  /\ loop = "BOOT" /\ waits = 0
  /\ delay = 0 /\ timer = FALSE /\ modem = TRUE
  /\ dht = "IDLE" /\ bit = 0 /\ humidity = "UNKNOWN" /\ valid = "UNKNOWN"
  /\ edges = 0 /\ faults = 0 /\ due = FALSE
  /\ temp = 0 /\ inhibit = TRUE /\ current = "UNKNOWN" /\ error = "UNKNOWN" /\ reboot = FALSE
  /\ whole = FALSE /\ last = "NONE" /\ calm = 0
  /\ trouble = {} /\ used = None

ConfigTimer   == timer' = TRUE /\ modem' = FALSE
(* mutant: the modem is left masked *)
LeftMasked    == timer' = FALSE /\ UNCHANGED modem
DeconfigTimer == timer' = FALSE /\ modem' = TRUE

(* TIM2_IRQHandler *)
Tim2Tick ==
  /\ timer /\ delay > 0 /\ delay' = delay - 1
  /\ UNCHANGED <<loop, waits, timer, modem, dhtVars, line, due, dallas, whole, last, calm,
                 told>>

----------------------------------------------------------------------------
(* The DS18B20.  At the start the query runs before the loop (main.c:552). *)
BeginQuery ==
  /\ loop = "BOOT" \/ (loop = "TOP" /\ ~reboot /\ due)
  /\ loop' = "QUERY" /\ waits' = Waits /\ ConfigTimer
  /\ UNCHANGED <<delay, dhtVars, line, due, dallas, whole, last, calm, told>>

SetDelay ==
  /\ loop = "QUERY" /\ waits > 0
  /\ loop' = "WAIT" /\ delay' = 1
  /\ UNCHANGED <<waits, timer, modem, dhtVars, line, due, dallas, whole, last, calm,
                 told>>

DelayOver ==
  /\ loop = "WAIT" /\ delay = 0
  /\ loop' = "QUERY" /\ waits' = waits - 1
  /\ UNCHANGED <<timing, dhtVars, line, due, dallas, whole, last, calm, told>>

Quality(t) ==
  IF t < -50 \/ t > 120 THEN "NOT_AVAILABLE"
  ELSE IF t < -25 \/ t > 38 THEN "DEGRADED" ELSE "FULL"

Slew(t) == t - temp
TooFast(t) == ~inhibit /\ (Slew(t) > 4 \/ Slew(t) < -4)
(* mutant: the limit of a jump is taken for that of an error *)
SmallError(t) == TooFast(t)
HardError(t) == ~inhibit /\ (Slew(t) > 12 \/ Slew(t) < -12)

(* The reading itself is moved on by one degree, not the value before it. *)
Stored(t) == IF ~TooFast(t) THEN t ELSE IF Slew(t) > 0 THEN t + 1 ELSE t - 1

(* A good reply of the Modbus slave takes precedence over the reading. *)
IsUsed(t, r) == t # None /\ r # "FULL"

(* mutant: a good reading forgets the failure before it *)
LastError(t, r) ==
  IF ~IsUsed(t, r) THEN "NOT_AVAILABLE" ELSE IF TooFast(t) THEN "DEGRADED" ELSE "UNKNOWN"
QueryError(t, r) ==
  IF ~IsUsed(t, r) THEN "NOT_AVAILABLE" ELSE IF TooFast(t) THEN "DEGRADED" ELSE error

(* wx_get_all_measurements unifies the two sources where the sensor has     *)
(* failed.                                                                  *)
UnifiedError(e, r) ==
  IF e # "NOT_AVAILABLE" \/ r = NoSource THEN e
  ELSE IF r = "FULL" THEN "UNKNOWN" ELSE "DEGRADED"

UnifiedCurrent(e, r, c) ==
  IF e # "NOT_AVAILABLE" \/ r = NoSource THEN c
  ELSE IF r = "NAVB" THEN "NOT_AVAILABLE" ELSE r

(* A good reply of the Modbus slave clears the errors before it. *)
Troubles(t, r) ==
  IF r = "FULL" THEN {}
  ELSE trouble \cup (IF t = None THEN {"FAIL"} ELSE IF TooFast(t) THEN {"JUMP"} ELSE {})

(* The rest of wx_get_all_measurements: the reading is checked and stored,  *)
(* and a DHT22 that is done is started again.                               *)
EndQuery ==
  /\ loop = "QUERY" /\ waits = 0
  /\ loop' = "LOOP" /\ DeconfigTimer
  /\ \E t \in Temps \cup {None}, r \in Rtu :
       /\ temp' = IF IsUsed(t, r) THEN Stored(t) ELSE temp
       /\ reboot' = (reboot \/ (IsUsed(t, r) /\ HardError(t)))
       /\ error' = UnifiedError(QueryError(t, r), r)
       /\ current' = UnifiedCurrent(QueryError(t, r), r,
                                    IF t = None THEN "NOT_AVAILABLE" ELSE Quality(t))
       /\ trouble' = Troubles(t, r)
       /\ used' = IF IsUsed(t, r) THEN t ELSE used
  /\ inhibit' = FALSE /\ due' = FALSE /\ calm' = 0
  /\ dht' = IF dht \in {"DONE", "TIMEOUT"} THEN "IDLE" ELSE dht
  /\ UNCHANGED <<waits, delay, bit, humidity, valid, line, whole, last>>

----------------------------------------------------------------------------
(* The rest of the main loop.  The next measurement is due after 65         *)
(* seconds.  The watchdog (main.c:412, :819) lets no round take longer than *)
(* 13 of them, and what goes on between the rounds takes milliseconds, so   *)
(* that some rounds in a row come to their end with nothing going on.       *)
Quiet == edges = 0 /\ (timer => delay = 0)

NothingDue ==
  /\ loop = "TOP" /\ ~reboot /\ ~due
  /\ loop' = "LOOP"
  /\ calm' = IF ~Quiet THEN 0 ELSE IF calm < CalmRounds THEN calm + 1 ELSE calm
  /\ UNCHANGED <<waits, timing, dhtVars, line, due, dallas, whole, last, told>>

TimerRunsDown ==
  /\ ~due /\ calm = CalmRounds /\ due' = TRUE
  /\ UNCHANGED <<loop, waits, timing, dhtVars, line, dallas, whole, last, calm, told>>

(* The board starts again, the sensor does not. *)
Restart ==
  /\ loop' = "BOOT" /\ waits' = 0
  /\ delay' = 0 /\ timer' = FALSE /\ modem' = TRUE
  /\ dht' = "IDLE" /\ bit' = 0 /\ humidity' = "UNKNOWN" /\ valid' = "UNKNOWN"
  /\ due' = FALSE
  /\ temp' = 0 /\ inhibit' = TRUE /\ current' = "UNKNOWN" /\ error' = "UNKNOWN"
  /\ reboot' = FALSE
  /\ whole' = FALSE /\ last' = "NONE" /\ calm' = 0
  /\ trouble' = {} /\ used' = None /\ UNCHANGED line

(* NVIC_SystemReset at the top of the loop *)
Reset == loop = "TOP" /\ reboot /\ Restart

(* The watchdog, when another component holds the loop up. *)
WatchdogReset == loop = "LOOP" /\ Restart

(* The quality factor that the telemetry reports, packet_tx_handler. *)
Told ==
  IF error = "UNKNOWN" THEN current
  ELSE IF current \in {"FULL", "DEGRADED"} THEN "DEGRADED" ELSE "NOT_AVAILABLE"

(* The minute poll, with the telemetry or without it. *)
MinutePoll ==
  /\ loop = "LOOP" /\ loop' = "POOL"
  /\ \/ current' = "UNKNOWN" /\ error' = "UNKNOWN" /\ trouble' = {}
     \/ UNCHANGED <<current, error, trouble>>
  /\ UNCHANGED <<waits, timing, dhtVars, line, due, temp, inhibit, reboot, whole, last, calm,
                 used>>

----------------------------------------------------------------------------
(* The DHT22 in the main loop: wx_pool_dht22 with dht22_timeout_keeper,     *)
(* which the interrupt may overtake between its test and its stores.        *)
(* mutant: only the start of a transfer is kept *)
StartExpired == dht = "COMMS" /\ delay = 0
Expired == dht \in {"COMMS", "COMMS_IRQ"} /\ delay = 0

KeeperTests ==
  /\ loop = "POOL"
  /\ loop' = IF Expired THEN "KEEPER" ELSE "SWITCH"
  /\ UNCHANGED <<waits, timing, dhtVars, line, due, dallas, whole, last, calm, told>>

KeeperGivesUp ==
  /\ loop = "KEEPER" /\ loop' = "SWITCH"
  /\ dht' = "TIMEOUT" /\ bit' = 0 /\ DeconfigTimer /\ last' = "BAD" /\ whole' = FALSE
  /\ UNCHANGED <<waits, delay, humidity, valid, line, due, dallas, calm, told>>

(* dht22_init and the start pulse of dht22_comm *)
StartPulse ==
  /\ loop = "SWITCH" /\ dht = "IDLE"
  /\ loop' = "PULSE" /\ dht' = "COMMS" /\ bit' = 0 /\ ConfigTimer /\ delay' = 1
  /\ UNCHANGED <<waits, humidity, valid, line, due, dallas, whole, last, calm, told>>

PulseOver ==
  /\ loop = "PULSE" /\ delay = 0
  /\ loop' = "RESPONSE" /\ delay' = 1
  /\ UNCHANGED <<waits, timer, modem, dhtVars, line, due, dallas, whole, last, calm,
                 told>>

NoResponse ==
  /\ loop = "RESPONSE" /\ delay = 0
  /\ loop' = "TOP" /\ dht' = "TIMEOUT" /\ DeconfigTimer
  /\ humidity' = "NOT_AVAILABLE" /\ last' = "BAD"
  /\ UNCHANGED <<waits, delay, bit, valid, line, due, dallas, whole, calm, told>>

(* The sensor answers and will send its edges. *)
Response ==
  /\ loop = "RESPONSE" /\ delay = 0
  /\ loop' = "ENABLE" /\ edges' = Edges /\ whole' = TRUE
  /\ UNCHANGED <<waits, timing, dhtVars, faults, due, dallas, last, calm, told>>

EnableInterrupt ==
  /\ loop = "ENABLE" /\ loop' = "ENABLED" /\ dht' = "COMMS_IRQ"
  /\ UNCHANGED <<waits, timing, bit, humidity, valid, line, due, dallas, whole, last, calm,
                 told>>

LeaveComm ==
  /\ loop = "ENABLED" /\ loop' = "TOP" /\ delay' = Interrupt
  /\ UNCHANGED <<waits, timer, modem, dhtVars, line, due, dallas, whole, last, calm,
                 told>>

(* The checksum is good for what was sent and for nothing else. *)
(* mutant: the checksum is not compared *)
Unchecked == "FULL"
Checked == IF whole THEN "FULL" ELSE "DEGRADED"

(* dht22_decode *)
Decode ==
  /\ loop = "SWITCH" /\ dht = "DATA_RDY"
  /\ loop' = "TOP" /\ dht' = "DATA_DECD"
  /\ humidity' = Checked
  /\ whole' = FALSE
  /\ UNCHANGED <<waits, timing, bit, valid, line, due, dallas, last, calm, told>>

Publish ==
  /\ loop = "SWITCH" /\ dht = "DATA_DECD"
  /\ loop' = "TOP" /\ dht' = "DONE" /\ valid' = humidity
  /\ UNCHANGED <<waits, timing, bit, humidity, line, due, dallas, whole, last, calm, told>>

Unavailable ==
  /\ loop = "SWITCH" /\ dht = "TIMEOUT"
  /\ loop' = "TOP" /\ valid' = "NOT_AVAILABLE"
  /\ UNCHANGED <<waits, timing, dht, bit, humidity, line, due, dallas, whole, last, calm, told>>

NothingToDo ==
  /\ loop = "SWITCH" /\ dht \notin {"IDLE", "DATA_RDY", "DATA_DECD", "TIMEOUT"}
  /\ loop' = "TOP"
  /\ UNCHANGED <<waits, timing, dhtVars, line, due, dallas, whole, last, calm, told>>

----------------------------------------------------------------------------
(* dht22_irq_handler *)
LastEdge == bit + 1 >= Edges

Counts(good) ==
  /\ dht = "COMMS_IRQ" /\ delay' = Interrupt /\ whole' = (whole /\ good)
  /\ \/ /\ ~LastEdge /\ bit' = bit + 1
        /\ UNCHANGED <<timer, modem, dht, last>>
     \/ /\ LastEdge /\ bit' = 0 /\ dht' = "DATA_RDY" /\ DeconfigTimer
        /\ last' = IF whole' THEN "GOOD" ELSE "BAD"

(* An edge before the state is stored, or after the transfer was given up *)
Ignores ==
  /\ dht # "COMMS_IRQ" /\ whole' = FALSE
  /\ UNCHANGED <<timing, dht, bit, last>>

Edge ==
  /\ edges > 0 /\ edges' = edges - 1
  /\ Counts(TRUE) \/ Ignores
  /\ UNCHANGED <<loop, waits, humidity, valid, faults, due, dallas, calm, told>>

(* An edge is missed, or the sensor falls silent. *)
Missed ==
  /\ edges > 0 /\ faults < MaxFaults /\ faults' = faults + 1
  /\ edges' \in {0, edges - 1} /\ whole' = FALSE
  /\ UNCHANGED <<loop, waits, timing, dhtVars, due, dallas, last, calm, told>>

(* A disturbance looks like an edge. *)
Disturbance ==
  /\ faults < MaxFaults /\ faults' = faults + 1
  /\ Counts(FALSE) /\ calm' = 0
  /\ UNCHANGED <<loop, waits, edges, humidity, valid, due, dallas, told>>

Query == BeginQuery \/ SetDelay \/ DelayOver \/ EndQuery
PoolDht22 ==
  \/ KeeperTests \/ KeeperGivesUp \/ StartPulse \/ PulseOver \/ NoResponse \/ Response
  \/ EnableInterrupt \/ LeaveComm \/ Decode \/ Publish \/ Unavailable \/ NothingToDo
Main == Query \/ NothingDue \/ Reset \/ MinutePoll \/ PoolDht22
Sensor == Edge \/ Missed

WxNext == Main \/ WatchdogReset \/ Tim2Tick \/ TimerRunsDown \/ Sensor \/ Disturbance

WxSpec == WxInit /\ [][WxNext]_wxVars

(* The main loop goes on unless it waits, TIM2 counts while it is on, the   *)
(* sensor sends its edges or falls silent.                                  *)
WxFairSpec == WxSpec /\ WF_wxVars(Main) /\ WF_wxVars(Tim2Tick) /\ WF_wxVars(Sensor)

----------------------------------------------------------------------------
Exchanging == loop \in {"QUERY", "WAIT", "PULSE", "RESPONSE", "ENABLE"} \/ dht = "COMMS_IRQ"

(* Both sensors come to an end: the main loop leaves its waits for the      *)
(* thermometer, and the transfer of the DHT22 is completed or given up,     *)
(* whatever edges are missed.  It would not be so if a query could begin    *)
(* while a transfer is open: its last edge stops the timer the query waits  *)
(* for (_dht22.c:174).                                                      *)
ExchangesEnd ==
  /\ loop = "QUERY" ~> loop = "LOOP"
  /\ dht = "COMMS_IRQ" ~> dht # "COMMS_IRQ"

(* The interrupts of the modem are masked during an exchange only: each of  *)
(* its ends lets the modem go on, the response that fails, the keeper and   *)
(* the last edge, in whatever order they come.                              *)
ModemMaskedByExchange == ~modem => Exchanging

(* A humidity that is valid with full quality is that of the last transfer, *)
(* as soon as the pool has looked at its end: a timeout is not turned into  *)
(* IDLE for the next measurement (wx_handler.c:397) before.                 *)
HumidityIsCurrent ==
  (valid = "FULL" /\ last = "BAD")
     => dht \in {"DATA_RDY", "DATA_DECD", "TIMEOUT"}

(* What the telemetry says of the thermometer since the telemetry before:   *)
(* "full" when every query was answered without a jump, "not available"     *)
(* when one was not answered or no temperature at all                       *)
(* (packet_tx_handler.c:192-218).  A good reply of the Modbus slave, which  *)
(* takes precedence, clears what was before it.                             *)
ToldIsEarned ==
  /\ Told = "FULL" => trouble = {}
  /\ Told = "NOT_AVAILABLE" => "FAIL" \in trouble \/ ~(used \in Int /\ used \in -50 .. 120)

(* A reboot is requested for "a hard sensor error" only (wx_handler.c:255): *)
(* two readings used one after the other lie more than eleven degrees       *)
(* apart.  The exception is the first reading that is used when it was not  *)
(* the first query: it is compared with the zero of the start.              *)
RebootMeansJump ==
  [][(~reboot /\ reboot') =>
       \/ used = None
       \/ used' - used > 11 \/ used' - used < -11]_wxVars
=============================================================================
