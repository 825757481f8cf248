-------------------------- MODULE MonitorDeadlines ---------------------------
(***************************************************************************)
(* The deadlines of the power monitor (src/main/bitaxe_hw.c): the grace    *)
(* time of the ASIC's temperature, and the lost-domain watchdog with its   *)
(* grace time, its check interval, its recovery time and its cool-down.    *)
(*                                                                         *)
(* All are ticks of xTaskGetTickCount, which counts milliseconds in 32     *)
(* bits (CONFIG_FREERTOS_HZ=1000) and starts over after 49.7 days.  The    *)
(* watchdog compares by the sign of the difference, which holds for half   *)
(* of the range; the temperature's grace compares the numbers.  What the   *)
(* monitor does between the two, and power transitions step by step, are   *)
(* AsicPower's.                                                            *)
(***************************************************************************)
EXTENDS Integers

CONSTANTS
    TickRange,      \* the ticks of the counter (code: 2^32)
    TempGrace,      \* ASIC_TEMP_STARTUP_GRACE_MS (code: 3 s)
    DomainGrace,    \* DOMAIN_REBOOT_STARTUP_GRACE_MS (code: 60 s)
    CheckEvery,     \* DOMAIN_REBOOT_CHECK_INTERVAL_MS (code: 15 s)
    Recovery,       \* DOMAIN_REBOOT_RECOVERY_MS (code: 60 s)
    Cooldown,       \* DOMAIN_REBOOT_COOLDOWN_MS (code: 300 s)
    Domains,        \* the chip's hash domains
    MaxChanges      \* bound: what chip, user and pools change

ASSUME DeadlinesAssumption ==
    /\ {TickRange, TempGrace, DomainGrace, CheckEvery, Recovery, Cooldown} \subseteq Nat \ {0}
    /\ Cooldown + Recovery + 2 * CheckEvery < TickRange \div 2
    /\ DomainGrace <= Cooldown /\ CheckEvery <= Cooldown

VARIABLES
    now,          \* xTaskGetTickCount
    chip,         \* "off", "up" (g_regulator_enabled, ASIC_initalized), "cycling"
    fault,        \* hardware_fault
    tempGrace,    \* g_asic_temp_grace_until
    domainGrace, cooldown, nextCheck, \* g_domain_reboot_..., 0: none
    lowSince,     \* g_domain_reboot_low_since, 0: not low
    watchdog,     \* auto_domain_reboot_enabled
    telemetry,    \* mining_telemetry_ready
    lost,         \* the domains below the threshold
    reading,      \* the chip's temperature: "fine", "hot", "missing", "none"
    looked,       \* the monitor has looked at this tick
    sinceUp,      \* history: ticks since the chip came up,
    sinceCycle,   \* ... and since the watchdog power-cycled it
    lostFor,      \* history: ticks a domain has been lost under the watchdog's eyes
    hotFor,       \* history: looks in a row that found the running chip too hot
    changes

domainVars == <<domainGrace, cooldown, nextCheck, lowSince>>
surroundings == <<watchdog, telemetry, lost, reading>>
deadlineVars == <<now, chip, fault, tempGrace, domainVars, surroundings, looked,
                  sinceUp, sinceCycle, lostFor, hotFor, changes>>

NotLow == [d \in Domains |-> 0]

DeadlinesInit ==
    /\ now = 0 /\ chip = "off" /\ fault = FALSE
    /\ tempGrace = 0 /\ domainGrace = 0 /\ cooldown = 0 /\ nextCheck = 0
    /\ lowSince = NotLow
    /\ watchdog = TRUE /\ telemetry = TRUE /\ lost = {} /\ reading = "fine"
    /\ looked = FALSE
    /\ sinceUp = 0 /\ sinceCycle = 0 /\ lostFor = NotLow /\ hotFor = 0
    /\ changes = 0

-----------------------------------------------------------------------------
(* Ticks *)

After(ticks) == (now + ticks) % TickRange
Elapsed(since) == (now - since) % TickRange

\* tick_before: 0 is no deadline, and the sign of the difference decides.
TickBefore(target) == target # 0 /\ Elapsed(target) >= TickRange \div 2

\* What the histories tell apart ends here.
Capped(n) == IF n < TickRange \div 2 THEN n ELSE TickRange \div 2

\* The monitor looks several times a second, so at every tick of the model.
TickPasses ==
    /\ chip # "up" \/ looked
    /\ now' = After(1)
    /\ looked' = FALSE
    /\ sinceUp' = IF chip = "up" THEN Capped(sinceUp + 1) ELSE 0
    /\ sinceCycle' = IF cooldown # 0 THEN Capped(sinceCycle + 1) ELSE 0
    /\ lostFor' = [d \in Domains |->
           IF chip = "up" /\ watchdog /\ telemetry /\ d \in lost
           THEN Capped(lostFor[d] + 1) ELSE 0]
    /\ UNCHANGED <<chip, fault, tempGrace, domainVars, surroundings, hotFor, changes>>

-----------------------------------------------------------------------------
(* The watchdog: apply_domain_reboot_watchdog *)

\* Switched off, it forgets everything but its grace time.
WatchdogOff ==
    /\ ~watchdog
    /\ lowSince' = NotLow /\ cooldown' = 0 /\ nextCheck' = 0
    /\ UNCHANGED domainGrace

Waits == TickBefore(cooldown) \/ TickBefore(domainGrace) \/ TickBefore(nextCheck)

WatchdogWaits ==
    /\ watchdog /\ Waits
    /\ lowSince' = IF TickBefore(domainGrace) THEN NotLow ELSE lowSince
    /\ UNCHANGED <<domainGrace, cooldown, nextCheck>>

\* The domains that have been low for long enough.
Unrecovered ==
    {d \in lost : lowSince[d] # 0 /\ Elapsed(lowSince[d]) >= Recovery}

Checks == watchdog /\ ~Waits

\* Mutant: every check takes the loss for a new one.
ChecksAnew ==
    /\ Checks /\ (~telemetry \/ Unrecovered = {})
    /\ nextCheck' = After(CheckEvery)
    /\ lowSince' = [d \in Domains |-> IF telemetry /\ d \in lost THEN now ELSE 0]
    /\ UNCHANGED <<domainGrace, cooldown>>

\* A check that finds nothing to recover, or no telemetry to judge by.
WatchdogChecks ==
    /\ Checks /\ (~telemetry \/ Unrecovered = {})
    /\ nextCheck' = After(CheckEvery)
    /\ lowSince' = [d \in Domains |->
           IF ~telemetry \/ d \notin lost THEN 0
           ELSE IF lowSince[d] = 0 THEN now ELSE lowSince[d]]
    /\ UNCHANGED <<domainGrace, cooldown>>

WatchdogStep == WatchdogOff \/ WatchdogWaits \/ WatchdogChecks

\* The chip is switched off, and on again after a second; the rest of the look
\* is skipped.
WatchdogReboots ==
    /\ chip = "up" /\ ~looked
    /\ Checks /\ telemetry /\ Unrecovered # {}
    /\ lowSince' = NotLow /\ nextCheck' = 0
    /\ cooldown' = After(Cooldown)
    /\ chip' = "cycling" /\ looked' = TRUE
    /\ sinceCycle' = 0 /\ hotFor' = 0
    /\ UNCHANGED <<now, fault, tempGrace, domainGrace, surroundings, sinceUp, lostFor, changes>>

-----------------------------------------------------------------------------
(* The temperature: update_asic_temperature, after the watchdog *)

\* domain_reboot_recovery_pending, as the watchdog has left it
Pending == watchdog /\ lowSince' # NotLow

InTempGrace == now < tempGrace

\* A value that is no reading is ignored at any time; one that is missing also
\* while a domain is being recovered.
Tolerated ==
    \/ reading \in {"fine", "none"}
    \/ reading = "missing" /\ Pending
    \/ InTempGrace

\* safety_shutdown
Look ==
    /\ chip = "up" /\ ~looked
    /\ WatchdogStep
    /\ IF Tolerated THEN UNCHANGED <<chip, fault>> ELSE chip' = "off" /\ fault' = TRUE
    /\ looked' = TRUE
    /\ hotFor' = IF Tolerated /\ reading = "hot" THEN Capped(hotFor + 1) ELSE 0
    /\ UNCHANGED <<now, tempGrace, surroundings, sinceUp, sinceCycle, lostFor, changes>>

-----------------------------------------------------------------------------
(* Power, and what chip, pools and user change *)

Change == changes < MaxChanges /\ changes' = changes + 1

\* set_asic_power(on), start_hardware_unlocked
ComesUp ==
    /\ chip' = "up" /\ looked' = FALSE
    /\ tempGrace' = After(TempGrace) /\ domainGrace' = After(DomainGrace)
    /\ nextCheck' = 0 /\ lowSince' = NotLow
    /\ sinceUp' = 0 /\ lostFor' = NotLow /\ hotFor' = 0
    /\ UNCHANGED <<now, fault, cooldown, surroundings, sinceCycle>>

PowerOn == chip = "off" /\ ~fault /\ ComesUp /\ UNCHANGED changes
CycleEnds == chip = "cycling" /\ ComesUp /\ UNCHANGED changes

PowerOff ==
    /\ chip = "up" /\ Change
    /\ chip' = "off" /\ nextCheck' = 0 /\ lowSince' = NotLow
    /\ hotFor' = 0
    /\ UNCHANGED <<now, fault, tempGrace, domainGrace, cooldown, surroundings, looked,
                   sinceUp, sinceCycle, lostFor>>

\* What the watchdog must answer starts anew when it, the telemetry or the
\* domains change.
SurroundingsChange ==
    /\ Change
    /\ lostFor' = [d \in Domains |->
           IF watchdog' /\ telemetry' /\ d \in lost' THEN lostFor[d] ELSE 0]
    /\ UNCHANGED <<now, chip, fault, tempGrace, domainVars, looked, sinceUp, sinceCycle,
                   hotFor>>

WatchdogSwitched ==
    watchdog' = ~watchdog /\ UNCHANGED <<telemetry, lost, reading>> /\ SurroundingsChange

TelemetryChanges ==
    telemetry' = ~telemetry /\ UNCHANGED <<watchdog, lost, reading>> /\ SurroundingsChange

DomainChanges(d) ==
    /\ lost' = IF d \in lost THEN lost \ {d} ELSE lost \cup {d}
    /\ UNCHANGED <<watchdog, telemetry, reading>> /\ SurroundingsChange

ReadingChanges(r) ==
    /\ r # reading /\ reading' = r
    /\ UNCHANGED <<watchdog, telemetry, lost>> /\ SurroundingsChange

DeadlinesNext ==
    \/ TickPasses \/ WatchdogReboots \/ Look
    \/ PowerOn \/ CycleEnds \/ PowerOff
    \/ WatchdogSwitched \/ TelemetryChanges
    \/ \E d \in Domains : DomainChanges(d)
    \/ \E r \in {"fine", "hot", "missing", "none"} : ReadingChanges(r)

-----------------------------------------------------------------------------
(* Properties *)

\* docs/json-endpoints.md:207: "the ASIC is power-cycled if a domain remains
\* below 75% of expected per-domain hashrate for at least 60 seconds".  It is,
\* at the latest when a cool-down has ended and the checks have seen the
\* recovery time pass (apply_domain_reboot_watchdog).  Excepted is half of the
\* tick counter's range after the chip's start or the last power cycle: the
\* deadline set then counts as ahead again, and the watchdog rests for the
\* other half.
LostDomainIsRecovered ==
    \A d \in Domains :
        /\ chip = "up"
        /\ sinceUp < TickRange \div 2 /\ sinceCycle < TickRange \div 2
        => lostFor[d] <= Cooldown + Recovery + 2 * CheckEvery

\* README.md:190-193: "The firmware holds ASIC reset low and turns TPS546
\* output off if a critical condition is detected", "ASIC temperature reaches
\* `69 C`" among them: a running chip is never found too hot for longer than
\* the grace time of its start (update_asic_temperature).
HotChipStops == hotFor <= TempGrace
=============================================================================
