------------------------------ MODULE AutoClock ------------------------------
(***************************************************************************)
(* The automatic clock of main/bitaxe_hw.c (apply_auto_clock_control).     *)
(* Every five seconds the power monitor picks a preset from temperature    *)
(* and power and moves towards it: one preset up after a few evaluations   *)
(* that agree, several down, at once when it is hot.  The evaluation reads  *)
(* settings and clock, the change takes the transition lock: a settings    *)
(* save can come between them.                                             *)
(*                                                                         *)
(* Presets are 0 .. Top.  A preset is usable when its voltage fits the     *)
(* safety limits; since the stock preset has a higher voltage than its     *)
(* neighbours the usable ones need not be contiguous.  What power, current *)
(* and input voltage allow is a choice of the environment.                 *)
(***************************************************************************)
EXTENDS Integers, FiniteSets, FiniteSetsExt

CONSTANTS
    Top,           \* the highest preset
    UsableSets,    \* what the safety limits may leave usable
    UpDwell, DownDwell, StepsUp, StepsDown, StepsDownHot,
    MaxTunes,      \* bound: clock settings saved by the user
    MaxClockFaults \* bound: changes that are refused or fail

ASSUME AutoClockAssumption ==
    /\ Top \in Nat /\ \A u \in UsableSets : u \subseteq 0 .. Top
    /\ {UpDwell, DownDwell, StepsUp, StepsDown, StepsDownHot} \subseteq Nat \ {0}

VARIABLES
    usable,        \* presets whose voltage fits the limits
    preset,        \* the preset of actual_frequency
    enabled,       \* auto_clock_enabled, with overclock and a fixed fan
    mining,        \* auto_clock_startup_gate_ready: mining, for long enough
    upDwell, downDwell,  \* g_auto_clock_up_dwell_ticks, g_auto_clock_down_dwell_ticks
    heat,          \* the control temperature against target and failsafe
    change,        \* the change the evaluation asks for: a preset, -1 for none
    tunes, clockFaults

clockVars == <<usable, preset, enabled, mining, upDwell, downDwell, heat, change,
               tunes, clockFaults>>

\* Below the target less its hysteresis, around the target, above it by the
\* hysteresis, above it by the hot margin, at the failsafe temperature.
Heats == {"cool", "near", "warm", "hot", "failsafe"}

LowestUsable == Min(usable)
HighestUsable == Max(usable)

ClockInit ==
    /\ usable \in UsableSets /\ preset \in 0 .. Top /\ enabled = TRUE /\ mining = FALSE
    /\ upDwell = 0 /\ downDwell = 0 /\ heat = "cool" /\ change = -1
    /\ tunes = 0 /\ clockFaults = 0

-----------------------------------------------------------------------------
(* The evaluation *)

\* Not active, no telemetry or not mining long enough: the dwells start over.
NotReady ==
    /\ change = -1 /\ ~(enabled /\ mining)
    /\ upDwell' = 0 /\ downDwell' = 0
    /\ UNCHANGED <<usable, preset, enabled, mining, heat, change, tunes, clockFaults>>

\* Mining starts, stops or has been stable for half a minute.
MiningChanges ==
    /\ mining' = ~mining
    /\ UNCHANGED <<usable, preset, enabled, upDwell, downDwell, heat, change, tunes, clockFaults>>

\* The temperature moves with the chip, the room and the fan.
HeatChanges(h) ==
    /\ h # heat
    /\ heat' = h
    /\ UNCHANGED <<usable, preset, enabled, mining, upDwell, downDwell, change,
                   tunes, clockFaults>>

\* Mutant: the clock is brought into the range from below only.
HereFromBelow == IF preset < LowestUsable THEN LowestUsable ELSE preset

\* The clock, brought into the range of the usable presets.
Here == IF preset < LowestUsable THEN LowestUsable
        ELSE IF preset > HighestUsable THEN HighestUsable
        ELSE preset

OneLower == IF Here > 0 THEN Here - 1 ELSE 0

\* Where to go, when power would allow the preset allowed.
Target(allowed) ==
    LET wanted == CASE heat = "failsafe" -> LowestUsable
                    [] heat \in {"hot", "warm"} -> IF allowed >= Here THEN OneLower ELSE allowed
                    [] heat = "near" /\ allowed > Here -> Here
                    [] OTHER -> allowed
    IN IF wanted < LowestUsable THEN LowestUsable ELSE wanted

\* The measured power is above the configured maximum: as urgent as heat.
Urgent(overWatts, target) ==
    heat \in {"hot", "failsafe"} \/ (overWatts /\ target < Here)

Toward(target, urgent) ==
    LET most == IF urgent THEN StepsDownHot ELSE StepsDown IN
    CASE target > Here -> Min({target, Here + StepsUp})
      [] target < Here -> Max({target, Here - most})
      [] OTHER -> Here

Next1(n, limit) == IF n < limit THEN n + 1 ELSE n

\* The dwell counters, and the preset they let through.
DwellUp == downDwell' = 0 /\ upDwell' = Next1(upDwell, UpDwell)

DwellDown(urgent) ==
    /\ upDwell' = 0
    /\ downDwell' = IF urgent THEN downDwell ELSE Next1(downDwell, DownDwell)

Stay == upDwell' = 0 /\ downDwell' = 0

\* The change to ask for: none when the preset and its voltage are in force,
\* none when the next preset is not usable (the evaluation then fails).
Ask(next, voltageDiffers) ==
    change' = IF next \in usable /\ (next # preset \/ voltageDiffers) THEN next ELSE -1

Evaluate(allowed, overWatts, voltageDiffers) ==
    /\ change = -1 /\ enabled /\ mining /\ usable # {}
    /\ LET target == Target(allowed)
           urgent == Urgent(overWatts, target)
           next == Toward(target, urgent)
       IN
       \/ /\ next > Here
          /\ DwellUp
          /\ Ask(IF upDwell' < UpDwell THEN Here ELSE next, voltageDiffers)
       \/ /\ next < Here
          /\ DwellDown(urgent)
          /\ Ask(IF ~urgent /\ downDwell' < DownDwell THEN Here ELSE next, voltageDiffers)
       \/ /\ next = Here
          /\ Stay
          /\ Ask(next, voltageDiffers)
    /\ UNCHANGED <<usable, preset, enabled, mining, heat, tunes, clockFaults>>

\* No preset fits the limits.
EvaluateFails ==
    /\ change = -1 /\ enabled /\ mining /\ usable = {}
    /\ upDwell' = 0 /\ downDwell' = 0
    /\ UNCHANGED <<usable, preset, enabled, mining, heat, change, tunes, clockFaults>>

-----------------------------------------------------------------------------
(* The change *)

\* auto_clock_apply_preset, under the transition lock.
ApplyPreset ==
    /\ change # -1
    /\ preset' = change /\ change' = -1
    /\ upDwell' = 0 /\ downDwell' = 0
    /\ UNCHANGED <<usable, enabled, mining, heat, tunes, clockFaults>>

\* The lock is taken (the evaluation does not wait), or one of the two
\* writes fails: the first, or the second with the clock changed already.
ApplyPresetFails ==
    /\ change # -1 /\ clockFaults < MaxClockFaults
    /\ clockFaults' = clockFaults + 1
    /\ preset' \in {preset, change} /\ change' = -1
    /\ UNCHANGED <<usable, enabled, mining, upDwell, downDwell, heat, tunes>>

\* A save sets the clock and the mode; the control starts over
\* (bitaxe_gamma602_reset_auto_clock_control).  A change that was asked for
\* before is applied all the same.
Tune(chosen, auto) ==
    /\ tunes < MaxTunes
    /\ tunes' = tunes + 1
    /\ preset' = chosen /\ enabled' = auto
    /\ upDwell' = 0 /\ downDwell' = 0 /\ mining' = FALSE
    /\ UNCHANGED <<usable, heat, change, clockFaults>>

ClockStep ==
    \/ NotReady
    \/ \E allowed \in usable, overWatts, voltageDiffers \in BOOLEAN :
         Evaluate(allowed, overWatts, voltageDiffers)
    \/ EvaluateFails \/ ApplyPreset \/ ApplyPresetFails

ClockNext ==
    \/ ClockStep \/ MiningChanges
    \/ \E h \in Heats : HeatChanges(h)
    \/ \E chosen \in 0 .. Top, auto \in BOOLEAN : Tune(chosen, auto)

\* The monitor task ticks.
ClockFairness == WF_clockVars(ClockStep)

-----------------------------------------------------------------------------
(* Properties *)

NoGaps == \A u \in usable, v \in usable : u .. v \subseteq usable

\* A chip that stays at the failsafe temperature is brought down to the
\* lowest usable preset, however the changes fail and whatever is saved in
\* between.  Excepted are limits that leave a gap between usable presets:
\* a step that lands in the gap is refused and the chip is left where it is.
FailsafeReachesLowest ==
    <>[](heat = "failsafe" /\ enabled /\ mining) /\ usable # {} /\ NoGaps
        => <>[](usable # {} /\ preset = LowestUsable)
=============================================================================
