----------------------------- MODULE Anemometer -----------------------------
(***************************************************************************)
(* The speed of the analogue anemometer, drivers/analog_anemometer.c: TIM17 *)
(* latches the time of each pulse, the DMA stores them, and when it has     *)
(* stored a batch its interrupt makes one interval of them, starts the DMA  *)
(* again and sets the timer to zero.  The interrupt of the timer tells that *)
(* the timer has run round.  Both have the highest priority, so that        *)
(* neither preempts the other and both preempt the main loop; the DMA and   *)
(* the timer go on during either (it_handlers.c:137-153).                   *)
(*                                                                          *)
(* Time is in counts of the timer, 1 ms.  An interrupt takes less, so that  *)
(* a count that falls into one matters only when the timer runs round.      *)
(***************************************************************************)
EXTENDS Integers, Sequences

CONSTANTS
  Pulses,    \* ANALOG_ANEMOMETER_SPEED_PULSES_N
  Period,    \* TIM_Period, and the first value of the two minima: 60000
  Width,     \* 2^16, where a uint16_t runs round
  MinPulse,  \* MINUM_PULSE_LN
  Slow,      \* inter-pulse times of 1000 and ...
  Fast,      \* ... of 200
  Winds      \* intervals between the pulses of a steady wind

ASSUME AnemometerConstants ==
  /\ Pulses \in Nat /\ Pulses > 2 /\ Period \in Nat /\ Width \in Nat /\ Width > Period + 1
  /\ MinPulse \in 2 .. Period /\ Fast \in Nat /\ Slow \in Nat /\ Fast < Slow
  /\ Winds \subseteq MinPulse .. Period

VARIABLES
  count,            \* the counter of TIM17
  round,            \* its update interrupt is pending
  fired,            \* analog_anemometer_timer_has_been_fired
  captured,         \* what the DMA has stored in analog_anemometer_windspeed_pulses_time
  dma,              \* its interrupt: NO, PENDING, or has started the DMA again (RESTARTED)
  interval,         \* rte_wx_windspeed_pulses
  slew, bounced,    \* analog_anemometer_slew_limit_fired and _deboucing_fired
  asked,            \* where the main loop is in analog_anemometer_get_qf, NO outside it
  wind,             \* external: the interval of a steady wind, 0 for a gusty one
  since,            \* external: the time since the last pulse that was stored
  gaps,             \* history: the true times between the pulses of this batch
  split,            \* history: the timer was set to zero within this batch
  untold            \* history: the last batch was corrected outside get_qf, which has not told it

flags    == <<slew, bounced>>
batch    == <<captured, gaps, split>>
windVars == <<count, round, fired, dma, interval, flags, asked, wind, since, batch, untold>>

WindInit ==
  /\ count = 0 /\ round = FALSE /\ fired = FALSE
  /\ captured = <<>> /\ dma = "NO" /\ interval = 0
  /\ slew = FALSE /\ bounced = FALSE /\ asked = "NO"
  /\ wind = 0 /\ since = Period + 1 /\ gaps = {} /\ split = FALSE
  /\ untold = FALSE

----------------------------------------------------------------------------
(* The timer and the DMA. *)

(* The next pulse of a steady wind is not late. *)
InTime == wind = 0 \/ since < wind

Tick ==
  /\ ~round /\ InTime
  /\ dma = "NO" \/ (dma = "RESTARTED" /\ count = Period)
  /\ count' = IF count = Period THEN 0 ELSE count + 1
  /\ round' = (count = Period)
  /\ since' = IF since > Period THEN since ELSE since + 1
  /\ UNCHANGED <<fired, dma, interval, flags, asked, wind, batch, untold>>

(* A pulse that comes while the DMA is off is lost, or is the first one     *)
(* when it is on again.                                                     *)
Pulse ==
  /\ dma # "PENDING"
  /\ wind # 0 => since >= wind
  /\ dma = "RESTARTED" => Len(captured) + 1 < Pulses
  /\ captured' = Append(captured, count)
  /\ dma' = IF Len(captured') = Pulses THEN "PENDING" ELSE dma
  /\ gaps' = IF captured = <<>> THEN {} ELSE gaps \cup {since}
  /\ split' = (dma = "RESTARTED" \/ (split /\ captured # <<>>))
  /\ since' = 0
  /\ UNCHANGED <<count, round, fired, interval, flags, asked, wind, untold>>

(* A gusty wind, with bounces and lulls, becomes a steady one. *)
WindSteadies ==
  /\ wind = 0 /\ wind' \in Winds
  /\ UNCHANGED <<count, round, fired, dma, interval, flags, asked, since, batch, untold>>

----------------------------------------------------------------------------
(* analog_anemometer_timer_irq.  When both are pending, that of the DMA,    *)
(* which has the lower number, is served first.                             *)
TimerIrq ==
  /\ round /\ dma = "NO"
  /\ round' = FALSE /\ fired' = TRUE
  /\ UNCHANGED <<count, dma, interval, flags, asked, wind, since, batch, untold>>

(* The times between the pulses as the interrupt sees them.  The array has  *)
(* one more, which stays 0 and is passed over like a bounce (:290, :324).   *)
Intervals == Pulses - 1
Measured == [i \in 1 .. Intervals |-> (captured[i + 1] - captured[i]) % Width]

(* Two pulses within one count make an interval of 0, a bounce like others. *)
Bounces == {i \in 1 .. Intervals : Measured[i] < MinPulse}

Debounced(s) == [i \in DOMAIN s |-> IF s[i] < MinPulse THEN 0 ELSE s[i]]

SlewRateLimit(p) == IF p >= Slow THEN p ELSE IF p >= Fast THEN p \div 2 ELSE p \div 4

(* Of two neighbours the longer one is cut down. *)
Limited(s, i) ==
  LET l == SlewRateLimit(IF s[i - 1] < s[i] THEN s[i - 1] ELSE s[i])
  IN  IF 0 \in {s[i - 1], s[i]} THEN s
      ELSE IF s[i] - s[i - 1] > l THEN [s EXCEPT ![i] = s[i - 1] + l]
      ELSE IF s[i - 1] - s[i] > l THEN [s EXCEPT ![i - 1] = s[i] + l] ELSE s

SlewLimited(s) ==
  LET cut[i \in 0 .. Intervals] == IF i < 2 THEN s ELSE Limited(cut[i - 1], i)
  IN  cut[Intervals]

(* The shortest and the longest, and what either was before. *)
With(e, p) ==
  IF p = 0 THEN e
  ELSE [min  |-> IF p < e.min THEN p ELSE e.min,
        pmin |-> IF p >= e.min THEN e.pmin ELSE IF e.pmin = Period THEN p ELSE e.min,
        max  |-> IF p > e.max THEN p ELSE e.max,
        pmax |-> IF p <= e.max THEN e.pmax ELSE IF e.pmax = 0 THEN p ELSE e.max]

NoExtremes == [min |-> Period, pmin |-> Period, max |-> 0, pmax |-> 0]

Extremes(s) ==
  LET e[i \in 0 .. Intervals] == IF i = 0 THEN NoExtremes ELSE With(e[i - 1], s[i])
  IN  e[Intervals]

Mean(s) == LET e == Extremes(s) IN (e.pmax + e.pmin) \div 2

(* mutant: the flag of the timer is not looked at *)
NeverRanRound == FALSE
RanRound == fired

(* analog_anemometer_dma_irq.  A batch in which the timer has run round is  *)
(* thrown away; its interval of 1 is taken for no wind (:398-401).          *)
DmaIrqDrops ==
  /\ dma = "PENDING" /\ RanRound
  /\ interval' = 1 /\ fired' = FALSE /\ slew' = FALSE /\ bounced' = FALSE
  /\ captured' = <<>> /\ gaps' = {} /\ split' = FALSE /\ dma' = "NO" /\ untold' = FALSE
  /\ UNCHANGED <<count, round, asked, wind, since>>

DmaIrqMeasures ==
  /\ dma = "PENDING" /\ ~RanRound
  /\ bounced' = (Bounces # {})
  /\ \E d \in {Debounced(Measured)} : \E s \in {SlewLimited(d)} :
       /\ slew' = (s # d)
       /\ interval' = Mean(s)
       /\ untold' = ((Bounces # {} \/ s # d) /\ asked = "NO")
  /\ captured' = <<>> /\ gaps' = {} /\ split' = FALSE /\ fired' = FALSE
  /\ dma' = "RESTARTED"
  /\ UNCHANGED <<count, round, asked, wind, since>>

(* mutant: the timer goes on *)
TimerNotReset == count
ResetTimer == 0

DmaIrqEnds ==
  /\ dma = "RESTARTED" /\ dma' = "NO" /\ count' = ResetTimer
  /\ split' = (captured # <<>>)
  /\ UNCHANGED <<round, fired, interval, flags, asked, wind, since, captured, gaps, untold>>

DmaIrq == DmaIrqDrops \/ DmaIrqMeasures \/ DmaIrqEnds

----------------------------------------------------------------------------
(* The main loop: analog_anemometer_get_qf reads one flag after the other,  *)
(* and clears them one after the other.  A direction that does not work     *)
(* spoils the quality as well.                                              *)
GetQfStarts ==
  /\ asked = "NO" /\ dma = "NO"
  /\ asked' = IF slew THEN "NOT_FULL" ELSE "SLEW_CLEAR"
  /\ untold' = (untold /\ ~slew)
  /\ UNCHANGED <<count, round, fired, dma, interval, flags, wind, since, batch>>

(* mutant: the second flag is not looked at *)
BounceUnread == FALSE
BounceRead == bounced

GetQfTests ==
  /\ asked = "SLEW_CLEAR" /\ dma = "NO"
  /\ \/ ~BounceRead /\ asked' = "FULL"
     \/ asked' = "NOT_FULL"
  /\ untold' = FALSE
  /\ UNCHANGED <<count, round, fired, dma, interval, flags, wind, since, batch>>

GetQfClears ==
  /\ asked \in {"FULL", "NOT_FULL"} /\ dma = "NO" /\ asked' = "SLEW_GONE" /\ slew' = FALSE
  /\ UNCHANGED <<count, round, fired, dma, interval, bounced, wind, since, batch, untold>>

GetQfReturns ==
  /\ asked = "SLEW_GONE" /\ dma = "NO" /\ asked' = "NO" /\ bounced' = FALSE
  /\ UNCHANGED <<count, round, fired, dma, interval, slew, wind, since, batch, untold>>

GetQf == GetQfStarts \/ GetQfTests \/ GetQfClears \/ GetQfReturns

WindNext == Tick \/ Pulse \/ WindSteadies \/ TimerIrq \/ DmaIrq \/ GetQf

WindSpec == WindInit /\ [][WindNext]_windVars

(* Time goes on, a steady wind turns the cups, the interrupts are served.   *)
WindFairSpec ==
  /\ WindSpec /\ WF_windVars(Tick) /\ WF_windVars(Pulse /\ wind # 0) /\ WF_windVars(TimerIrq)
  /\ WF_windVars(DmaIrq)

----------------------------------------------------------------------------
(* The interval the interrupt makes of a batch lies between the shortest    *)
(* and the longest true time between two of its pulses, bounces left out:   *)
(* no lull, no run of the timer and no correction gets into it.  There are  *)
(* two exceptions: the timer ran round just before the last pulse, so that  *)
(* its interrupt has not been served, and a pulse came between the restart  *)
(* of the DMA and that of the timer (analog_anemometer.c:372-378).          *)
True == {g \in gaps : g >= MinPulse}

MeasuredBetweenGaps ==
  [][dma = "PENDING" /\ dma' = "RESTARTED" =>
       \/ round \/ split
       \/ True = {} /\ interval' = Period \div 2
       \/ \E a, b \in True : a <= interval' /\ interval' <= b]_windVars

(* A steady wind is measured in the end, exactly, whatever lulls, bounces   *)
(* and lost batches came before it: the batches move along the timer until  *)
(* one fits between two of its ends.  The exception is a timer that runs    *)
(* round within the interrupt again and again: each time a batch is lost.   *)
(* A wind too slow for a batch to fit is no wind.                           *)
RoundWithinIrq == dma = "RESTARTED" /\ round

SteadyWindIsMeasured ==
  \A g \in Winds :
    /\ g * Pulses <= Period
         => (<>[](wind = g) => <>[](interval = g) \/ []<>RoundWithinIrq)
    /\ g * (Pulses - 1) > Period => (<>[](wind = g) => <>[](interval = 1))

(* A full quality factor is not given while the correction of the last      *)
(* batch has not been told.  The exception is a batch whose interrupt falls *)
(* into a call of get_qf (:520-577): between the two tests it may set the   *)
(* flag that was clear and clear the one that was set, and before the flags *)
(* are cleared its own are lost with them.                                  *)
FullMeansUncorrected ==
  [][asked = "SLEW_CLEAR" /\ asked' = "FULL" => ~untold]_windVars
=============================================================================
