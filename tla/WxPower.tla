------------------------------ MODULE WxPower ------------------------------
(***************************************************************************)
(* The supply of the weather sensors: wx_pwr_periodic_handle of             *)
(* src/src/wx_handler.c, which takes their power away for one round when a  *)
(* measurement has not been good for WX_WATCHDOG_PERIOD, and the timers of  *)
(* the last good measurements (src/src/rte_wx.c), which every source of     *)
(* measurements refreshes.  A timer is its age in ticks of time, cut off    *)
(* where only "expired" matters.                                            *)
(***************************************************************************)
EXTENDS Naturals

CONSTANT WatchdogPeriod   \* WX_WATCHDOG_PERIOD, in ticks

ASSUME WxPowerConstants == WatchdogPeriod \in Nat \ {0}

VARIABLES
  pwr,          \* wx_pwr_state
  goodAge,      \* the ages of wx_last_good_temperature_time and wx_last_good_wind_time
  sinceReset    \* history: ticks since the power was last taken away, or since the start

pwrVars == <<pwr, goodAge, sinceReset>>

Measurements == {"TEMPERATURE", "WIND"}
Capped(age) == IF age < WatchdogPeriod THEN age + 1 ELSE WatchdogPeriod

(* main calls wx_pwr_init and the handler once before its loop, so that the *)
(* loop begins with the power on.                                           *)
PwrInit ==
  /\ pwr = "ON"
  /\ goodAge = [m \in Measurements |-> 0]
  /\ sinceReset = 0

Refreshed(m) == IF m \in Measurements THEN [goodAge EXCEPT ![m] = 0] ELSE goodAge

(* rte_wx_update_last_measuremenet_timers, and the stores of the sensors    *)
(* that are no bus devices.                                                 *)
UpdateLastMeasurementTimers(m) ==
  /\ goodAge' = Refreshed(m)
  /\ UNCHANGED <<pwr, sinceReset>>

PwrTick ==
  /\ goodAge' = [m \in Measurements |-> Capped(goodAge[m])]
  /\ sinceReset' = Capped(sinceReset)
  /\ UNCHANGED pwr

(* Nobody ever stores the 0xFFFFFFFF that would switch the check of one     *)
(* measurement off (the call at wx_handler.c:500 is commented out).         *)
Expired == \E m \in Measurements : goodAge[m] >= WatchdogPeriod

(* mutant: only the timer that has expired starts again *)
RestartedOne == [m \in Measurements |-> IF m = "WIND" THEN goodAge[m] ELSE 0]
Restarted == [m \in Measurements |-> 0]

(* That an expired wind also makes rte_wx_wind_qf degraded until the next   *)
(* query stores it (:660) is left out: nothing here depends on it.          *)
WxPwrPeriodicHandle ==
  \/ /\ pwr = "ON" /\ Expired
     /\ pwr' = "UNDER_RESET" /\ goodAge' = Restarted /\ sinceReset' = 0
  \/ /\ pwr = "ON" /\ ~Expired
     /\ UNCHANGED pwrVars
  \/ /\ pwr = "UNDER_RESET"
     /\ pwr' = "ON" /\ UNCHANGED <<goodAge, sinceReset>>

PwrNext ==
  \/ PwrTick
  \/ \E m \in Measurements : UpdateLastMeasurementTimers(m)
  \/ WxPwrPeriodicHandle

PwrSpec == PwrInit /\ [][PwrNext]_pwrVars

----------------------------------------------------------------------------
PwrTypeOK ==
  /\ pwr \in {"ON", "UNDER_RESET"}
  /\ goodAge \in [Measurements -> 0 .. WatchdogPeriod]
  /\ sinceReset \in 0 .. WatchdogPeriod

TakesPowerAway == pwr = "ON" /\ pwr' = "UNDER_RESET"

(* The sensors keep their power for a whole watchdog period after it was    *)
(* taken away, whichever of the two measurements fails: the timers are set  *)
(* "to prevent reset loop" (wx_handler.c:674-676), and a sensor that needs   *)
(* a while to start would otherwise never deliver a value again.            *)
NoResetLoop == [][TakesPowerAway => sinceReset >= WatchdogPeriod]_pwrVars
=============================================================================
