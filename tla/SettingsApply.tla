---------------------------- MODULE SettingsApply ----------------------------
(***************************************************************************)
(* How settings reach the hardware (src/main/wifi_http.c, bitaxe_hw.c).    *)
(*                                                                         *)
(* A request replaces the RAM configuration first and then brings voltage, *)
(* frequency, the regulator's thresholds and the fan to it, in an order    *)
(* that depends on which of them rise; an error on the way puts the old    *)
(* configuration back and the hardware after it.  Meanwhile the power      *)
(* monitor judges the output by the RAM configuration, compensates the     *)
(* voltage for the temperature and, under auto-clock, moves voltage and    *)
(* frequency itself.                                                       *)
(*                                                                         *)
(* Voltages and frequencies are small numbers: a frequency f needs at      *)
(* least the voltage f.  A transition of the ASIC is one action: it runs   *)
(* under g_asic_transition_lock.                                           *)
(***************************************************************************)
EXTENDS Integers

CONSTANTS
    Configs,   \* records [lo, hi, volt, clock, fan, auto]: the ASIC voltage
               \* limits (hi is excluded), the tuning, the fan's override
    Presets,   \* records [volt, clock] auto-clock chooses from
    MaxPosts,  \* bound: requests
    MaxBusFaults  \* bound: failing bus accesses

Allows(c, volt) == c.lo <= volt /\ volt < c.hi

ASSUME SettingsAssumption ==
    /\ \A c \in Configs : /\ {c.lo, c.hi, c.volt, c.clock} \subseteq Nat
                          /\ c.auto \in BOOLEAN
                          /\ c.clock <= c.volt
                          /\ Allows(c, c.volt)  \* safety_settings_valid_for_tune
    /\ \A p \in Presets : {p.volt, p.clock} \subseteq Nat /\ p.clock <= p.volt
    /\ MaxPosts \in Nat /\ MaxBusFaults \in Nat

VARIABLES
    conf,      \* g_config
    vout,      \* the output: the regulator's VOUT_COMMAND
    commanded, \* g_commanded_voltage_mv
    clock,     \* the ASIC's frequency
    window,    \* the ASIC voltage thresholds in the regulator: a configuration's
    fanAt,     \* the fan's override
    known,     \* g_power_snapshot's commanded voltage
    cold,      \* compensation adds to the voltage
    stopped,   \* the monitor shut the regulator down
    postAt,    \* where the request is
    from, to,  \* the arguments of apply_hardware_settings
    live, goal,  \* its voltages and frequencies: [volt, clock]
    reverting,   \* the second call, after an error
    monAt, monSeen, monGoal,  \* the monitor: where, its snapshot, its target
    posts, busFaults,  \* so far
    \* History: the configuration was replaced while the monitor held a copy
    \* of it; a request read a voltage other than the output; a revert failed.
    late, misread, unreverted

postVars == <<postAt, from, to, live, goal, reverting, posts>>
monitorVars == <<monAt, monSeen, monGoal, cold>>
chipVars == <<vout, commanded, clock, window, fanAt, known>>
applyHistory == <<late, misread, unreverted>>
settingsVars == <<conf, chipVars, stopped, postVars, monitorVars, busFaults, applyHistory>>

NoTune == [volt |-> 0, clock |-> 0]

\* m45_config_effective_asic_voltage_mv_for_temp
Compensated(c) == IF cold /\ c.volt + 1 < c.hi THEN c.volt + 1 ELSE c.volt

SettingsInit ==
    /\ conf \in {c \in Configs : ~c.auto}
    /\ vout = conf.volt /\ commanded = conf.volt /\ clock = conf.clock
    /\ window = conf /\ fanAt = conf.fan /\ known = conf.volt
    /\ cold = FALSE /\ stopped = FALSE
    /\ postAt = "idle" /\ from = conf /\ to = conf
    /\ live = NoTune /\ goal = NoTune /\ reverting = FALSE
    /\ monAt = "idle" /\ monSeen = 0 /\ monGoal = NoTune
    /\ posts = 0 /\ busFaults = 0
    /\ late = FALSE /\ misread = FALSE /\ unreverted = FALSE

BusFails == busFaults < MaxBusFaults /\ busFaults' = busFaults + 1

\* bitaxe_gamma602_set_voltage_mv_for_config_unlocked: TPS546_set_vout refuses
\* what its thresholds exclude, the wait for the output stops the chip when it
\* cannot read it or reads what the RAM configuration excludes.  With the
\* regulator off the voltage is only noted.
InWindow(volt) == window.lo <= volt /\ volt <= window.hi

CommandSucceeds(volt) ==
    /\ stopped \/ (InWindow(volt) /\ Allows(conf, volt))
    /\ commanded' = volt
    /\ vout' = IF stopped THEN vout ELSE volt
    /\ known' = IF stopped THEN known ELSE volt
    /\ UNCHANGED <<stopped, busFaults>>

CommandFails(volt) ==
    /\ ~stopped
    /\ \/ ~InWindow(volt) /\ UNCHANGED <<vout, stopped, busFaults>>
       \/ InWindow(volt) /\ BusFails /\ vout' \in {vout, volt} /\ UNCHANGED stopped
       \/ InWindow(volt) /\ BusFails /\ vout' = volt /\ stopped' = TRUE
       \/ InWindow(volt) /\ ~Allows(conf, volt) /\ vout' = volt /\ stopped' = TRUE
             /\ UNCHANGED busFaults
    /\ UNCHANGED <<known, commanded>>

-----------------------------------------------------------------------------
(* The request: settings_post_handler, espminer_system_patch_handler and   *)
(* runtime_tune_handler from m45_config_set_runtime on.                    *)

\* A monitor past its own copy of the configuration goes on with that copy.
MonitorHolds == monAt = "tune"

Post ==
    /\ postAt = "idle" /\ posts < MaxPosts
    /\ posts' = posts + 1
    /\ \E c \in Configs \ {conf} : conf' = c /\ to' = c
    /\ from' = conf
    /\ reverting' = FALSE
    /\ late' = MonitorHolds
    /\ postAt' = "a.plan"
    /\ UNCHANGED <<chipVars, stopped, live, goal, monitorVars, busFaults, misread,
                   unreverted>>

\* For the checks of the properties: without the comparison with the limits.
OwnsAlways == to.auto

\* apply_hardware_settings: what the hardware has and what it shall have.
OwnsTune == to.auto /\ Allows(to, known)

Plan ==
    /\ postAt = "a.plan"
    /\ live' = [volt |-> known, clock |-> clock]
    /\ goal' = IF OwnsTune THEN live' ELSE [volt |-> Compensated(to), clock |-> to.clock]
    /\ misread' = (misread \/ (known # vout /\ ~stopped))
    /\ postAt' = "a.early"
    /\ UNCHANGED <<conf, chipVars, stopped, from, to, reverting, posts, monitorVars,
                   busFaults, late, unreverted>>

LimitsChange == from.lo # to.lo \/ from.hi # to.hi

\* For the checks of the properties: the thresholds always change last.
NeverEarly == FALSE

NeedsNewLimits == LimitsChange /\ ~Allows(from, goal.volt)

\* For the checks of the properties: the hardware is left where it is.
RevertsSettingsOnly ==
    /\ conf' = from /\ postAt' = "idle" /\ late' = (late \/ MonitorHolds)
    /\ UNCHANGED <<from, to, reverting, unreverted>>

\* An error return: the old configuration comes back, then the hardware.
ApplyFails ==
    IF reverting
    THEN /\ unreverted' = TRUE
         /\ postAt' = "idle"
         /\ UNCHANGED <<conf, from, to, reverting, late>>
    ELSE /\ conf' = from /\ from' = to /\ to' = from
         /\ reverting' = TRUE
         /\ late' = (late \/ MonitorHolds)
         /\ postAt' = "a.plan"
         /\ UNCHANGED unreverted

ApplyUnchanged == UNCHANGED <<stopped, live, goal, posts, monitorVars, misread>>
NoError == UNCHANGED <<conf, from, to, reverting, late, unreverted, busFaults>>

\* bitaxe_gamma602_apply_safety_limits, before or after the voltage.
SetWindow(here, needed, next) ==
    /\ postAt = here
    /\ \/ ~needed /\ postAt' = next /\ NoError /\ UNCHANGED window
       \/ needed /\ postAt' = next /\ NoError /\ window' = IF stopped THEN window ELSE to
       \/ needed /\ BusFails /\ ApplyFails /\ UNCHANGED window
    /\ UNCHANGED <<vout, commanded, clock, fanAt, known>> /\ ApplyUnchanged

EarlyLimits == SetWindow("a.early", NeedsNewLimits, "a.lower")
LateLimits == SetWindow("a.late", LimitsChange /\ ~NeedsNewLimits, "a.raise")

SetClock(here, needed, next) ==
    /\ postAt = here
    /\ clock' = IF needed THEN goal.clock ELSE clock
    /\ postAt' = next
    /\ NoError /\ UNCHANGED <<vout, commanded, window, fanAt, known>> /\ ApplyUnchanged

LowerClock == SetClock("a.lower", goal.clock < live.clock, "a.volt")
RaiseClock == SetClock("a.raise", goal.clock > live.clock, "a.fan")

\* bitaxe_gamma602_set_voltage_mv_for_config
SetVoltage ==
    /\ postAt = "a.volt"
    /\ \/ /\ goal.volt = live.volt
          /\ postAt' = "a.late" /\ NoError /\ UNCHANGED <<vout, commanded, known, stopped>>
       \/ /\ goal.volt # live.volt /\ Allows(to, goal.volt)
          /\ CommandSucceeds(goal.volt)
          /\ postAt' = "a.late"
          /\ UNCHANGED <<conf, from, to, reverting, late, unreverted>>
       \/ /\ goal.volt # live.volt /\ Allows(to, goal.volt)
          /\ CommandFails(goal.volt) /\ ApplyFails
       \/ /\ goal.volt # live.volt /\ ~Allows(to, goal.volt)
          /\ ApplyFails /\ UNCHANGED <<vout, commanded, known, stopped, busFaults>>
    /\ UNCHANGED <<clock, window, fanAt, live, goal, posts, monitorVars, misread>>

SetFan ==
    /\ postAt = "a.fan"
    /\ \/ /\ fanAt' = (IF from.fan # to.fan THEN to.fan ELSE fanAt)
          /\ postAt' = (IF reverting THEN "idle" ELSE "save") /\ NoError
       \/ /\ from.fan # to.fan /\ BusFails /\ ApplyFails /\ UNCHANGED fanAt
    /\ UNCHANGED <<vout, commanded, clock, window, known>> /\ ApplyUnchanged

\* m45_config_save, in requests that save.
ApplySettings ==
    /\ postAt = "save"
    /\ \/ postAt' = "idle" /\ NoError
       \/ BusFails /\ ApplyFails
    /\ UNCHANGED chipVars /\ ApplyUnchanged

PostStep == Plan \/ EarlyLimits \/ LowerClock \/ SetVoltage \/ LateLimits \/ RaiseClock
                \/ SetFan \/ ApplySettings

-----------------------------------------------------------------------------
(* The power monitor.                                                      *)

MonitorUnchanged == UNCHANGED <<conf, fanAt, window, postVars, cold, misread, unreverted>>

Capture ==
    /\ monAt = "idle" /\ ~stopped
    /\ monSeen' = vout /\ known' = vout
    /\ monAt' = "validate"
    /\ MonitorUnchanged
    /\ UNCHANGED <<vout, commanded, clock, stopped, monGoal, busFaults, late>>

\* validate_regulator_safety; then the averaged snapshot is stored.
Validate ==
    /\ monAt = "validate"
    /\ IF Allows(conf, monSeen)
       THEN /\ known' = monSeen /\ monAt' = "choose"
            /\ UNCHANGED <<stopped, monSeen>>
       ELSE /\ stopped' = TRUE
            /\ monAt' = "idle" /\ monSeen' = 0
            /\ UNCHANGED known
    /\ MonitorUnchanged
    /\ UNCHANGED <<vout, commanded, clock, monGoal, busFaults, late>>

\* For the checks of the properties: compensation does nothing.
ChooseNothing ==
    /\ monAt = "choose" /\ monAt' = "tune" /\ monSeen' = 0
    /\ monGoal' = NoTune
    /\ MonitorUnchanged
    /\ UNCHANGED <<vout, commanded, clock, known, stopped, busFaults, late>>

\* The targets of apply_temperature_voltage_compensation or
\* apply_auto_clock_control, from a copy of the configuration.
Choose ==
    /\ monAt = "choose"
    /\ monGoal' \in IF conf.auto
                    THEN {p \in Presets : Allows(conf, p.volt)} \cup {NoTune}
                    ELSE {[volt |-> Compensated(conf), clock |-> 0]}
    /\ monAt' = "tune" /\ monSeen' = 0
    /\ MonitorUnchanged
    /\ UNCHANGED <<vout, commanded, clock, known, stopped, busFaults, late>>

\* The transition: compensation moves the voltage, auto_clock_apply_preset
\* both, the voltage first if both rise.
VoltageFirst == monGoal.volt > commanded /\ monGoal.clock > clock

Compensate ==
    /\ monGoal.clock = 0 /\ monGoal.volt # 0
    /\ \/ (monGoal.volt = commanded \/ ~Allows(conf, monGoal.volt))
          /\ UNCHANGED <<vout, commanded, known, stopped, busFaults>>
       \/ /\ monGoal.volt # commanded /\ Allows(conf, monGoal.volt)
          /\ (CommandSucceeds(monGoal.volt) \/ CommandFails(monGoal.volt))
    /\ UNCHANGED clock

SetPreset ==
    /\ monGoal.clock # 0
    /\ \/ CommandSucceeds(monGoal.volt) /\ clock' = monGoal.clock
       \/ CommandFails(monGoal.volt) /\ clock' = IF VoltageFirst THEN clock ELSE monGoal.clock

TuneVoltage ==
    /\ monAt = "tune"
    /\ \/ Compensate
       \/ SetPreset
       \/ monGoal = NoTune /\ UNCHANGED <<vout, commanded, clock, known, stopped, busFaults>>
    /\ monAt' = "idle" /\ monGoal' = NoTune
    /\ MonitorUnchanged
    /\ UNCHANGED <<monSeen, late>>

\* The gate before both: without mining, or without a reading of the chip's
\* temperature, the voltage stays.
Wait ==
    /\ monAt = "choose"
    /\ monAt' = "idle" /\ monSeen' = 0
    /\ MonitorUnchanged
    /\ UNCHANGED <<vout, commanded, clock, known, stopped, monGoal, busFaults, late>>

MonitorStep == Capture \/ Validate \/ Choose \/ Wait \/ TuneVoltage

\* The chip cools down, once.
Cool ==
    /\ ~cold /\ cold' = TRUE
    /\ UNCHANGED <<conf, chipVars, stopped, postVars, monAt, monSeen, monGoal, busFaults,
                   applyHistory>>

SettingsNext == Post \/ PostStep \/ MonitorStep \/ Cool

-----------------------------------------------------------------------------

Settled == postAt = "idle" /\ ~stopped /\ ~late /\ ~unreverted

\* A valid request ends with the settings on the hardware or, for a failing
\* access only, with those in force before.  The thresholds, the voltage and
\* the frequency change in an order that never refuses the next step, and
\* between requests the thresholds, the fan and, without auto-clock, the
\* frequency are the RAM configuration's.  Excepted are a revert that failed
\* too and a use of the configuration the request replaced by auto-clock
\* (wifi_http.c:1509-1593).
HardwareFollowsSettings ==
    /\ reverting => busFaults > 0 \/ stopped \/ late
    /\ Settled =>
           /\ window.lo = conf.lo /\ window.hi = conf.hi
           /\ fanAt = conf.fan
           /\ ~conf.auto => clock = conf.clock

\* Once a request is over, whether it was applied or put back, the output is
\* inside the limits in force: a monitor that reads it from then on does not
\* stop the chip for the settings (wifi_http.c:2538-2545).
VoltageInLimits == Settled /\ ~misread => Allows(conf, vout)

\* Without auto-clock the output comes to the voltage of the settings, though a
\* request may have found a stale reading and left it alone, provided the miner
\* mines at some of the monitor's passes for ever
\* (wifi_http.c:1461-1485, bitaxe_hw.c:934-955).
VoltageFollowsSettings ==
    []<><<Choose>>_settingsVars =>
        ((~stopped /\ busFaults = 0 /\ ~conf.auto /\ vout # Compensated(conf))
            ~> (stopped \/ busFaults > 0 \/ conf.auto \/ vout = Compensated(conf)))

\* A request runs to its end; requests need not come.
SettingsFairness == WF_settingsVars(PostStep)
=============================================================================
