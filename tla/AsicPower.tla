------------------------------ MODULE AsicPower ------------------------------
(***************************************************************************)
(* Power, reset and emergency stop of the ASIC (src/main/bitaxe_hw.c).     *)
(*                                                                         *)
(* The boot task, the power monitor and the workers of HTTP requests turn  *)
(* the regulator on and off and retune it.  Each transition runs under     *)
(* g_asic_transition_lock.  An emergency stop (safety_shutdown) does not   *)
(* take the lock: it may run in the middle of another task's transition.   *)
(*                                                                         *)
(* Every access to a flag, the reset line or the regulator that another    *)
(* task can see is a step of its own.  A critical reading stays abstract:  *)
(* the environment makes the regulator's or the chip's readings critical   *)
(* and takes that back at any moment.                                      *)
(***************************************************************************)
EXTENDS Integers

CONSTANTS
    Boot,       \* hardware_task
    Monitor,    \* power_monitor_task
    Users,      \* workers of HTTP requests: power on, power off, retune
    Free,       \* "no task holds the lock"
    Requests,   \* what users ask for: a subset of {"on", "off", "tune"}
    Retunes,    \* TRUE if compensation or auto-clock moves the voltage
    Watchdog,   \* config.auto_domain_reboot_enabled
    PromptFaults, \* TRUE if a fault that is decided is latched before another
                \* task checks for one
    MaxOps,     \* bound: user requests
    MaxFaults   \* bound: onsets of a critical reading, failing bus accesses

Tasks == Users \cup {Boot, Monitor}

ASSUME PowerAssumption ==
    /\ Boot # Monitor /\ Boot \notin Users /\ Monitor \notin Users
    /\ Free \notin Tasks
    /\ Requests \subseteq {"on", "off", "tune"}
    /\ {Retunes, Watchdog, PromptFaults} \subseteq BOOLEAN
    /\ MaxOps \in Nat /\ MaxFaults \in Nat

VARIABLES
    lock,      \* g_asic_transition_lock: its holder, or Free
    fault,     \* SYSTEM_MODULE.hardware_fault and whose message it carries
    enabled,   \* g_regulator_enabled
    inited,    \* ASIC_initalized
    ready,     \* g_tps546_ready
    watching,  \* g_power_monitor_started
    released,  \* ASIC_RESET_GPIO is high
    out,       \* the TPS546's OPERATION register says ON
    stuck,     \* the last command to turn the output off was lost on the bus
    grace,     \* before g_asic_temp_grace_until
    critical,  \* whose readings are beyond a limit
    pc,        \* where each task is
    bad,       \* the monitor's snapshot: it shows a fault
    ops,       \* user requests so far
    faults     \* critical onsets and failed accesses so far

flagVars == <<fault, enabled, inited, ready, watching>>
pinVars == <<released, out, stuck>>
envVars == <<grace, critical, faults>>
vars == <<lock, flagVars, pinVars, envVars, pc, bad, ops>>

\* Subroutines and, in them, where a task may be.
Stopping == {"s.fault", "s.uninit", "s.disable", "s.reset", "s.off"}
TurningOn == {"on.lock", "on.check", "on.hold", "on.fan", "st.init", "st.vout",
              "st.enable", "st.wait", "st.watch", "st.low", "st.high", "st.detect",
              "st.inited"}
TurningOff == {"off.lock", "off.disable", "off.uninit", "off.reset", "off.vout"}
Retuning == {"v.lock", "v.check", "v.command", "v.wait"}
Watching == {"m.sleep", "m.capture", "m.lost", "m.recheck", "m.chip", "m.guard",
             "m.temp", "m.tune", "m.cycled"}
Returning == {"done", "off.done", "failed"}
Resting == {"idle", "start", "latch", "over"}
Labels == Stopping \cup TurningOn \cup TurningOff \cup Retuning \cup Watching
              \cup Returning \cup Resting

Goto(t, label) == pc' = [pc EXCEPT ![t] = label]

\* An access to the I2C bus, the serial line or the heap fails.
Fails == faults < MaxFaults /\ faults' = faults + 1

Faulted == fault # "none"

\* A snapshot of the regulator that its validation refuses.
Refused == critical = "regulator" \/ ~out

Init ==
    /\ lock = Free
    /\ fault \in {"none", "board"}   \* app_main refuses foreign hardware
    /\ enabled = FALSE /\ inited = FALSE /\ ready = FALSE /\ watching = FALSE
    /\ released = FALSE
    /\ out \in BOOLEAN   \* a restart of the ESP32 does not turn it off
    /\ stuck = FALSE /\ grace = FALSE
    /\ critical = "none"
    /\ pc = [t \in Tasks |-> IF t = Boot THEN IF Faulted THEN "over" ELSE "start"
                             ELSE "idle"]
    /\ bad = FALSE
    /\ ops = 0 /\ faults = 0

-----------------------------------------------------------------------------
(* The emergency stop: safety_shutdown from "s.fault", shutdown_regulator  *)
(* alone from "s.disable".  The transition it interrupts returns an error. *)

StopFault(t) ==
    /\ pc[t] = "s.fault"
    /\ fault' = "stop"
    /\ Goto(t, "s.uninit")
    /\ UNCHANGED <<lock, enabled, inited, ready, watching, pinVars, envVars, bad, ops>>

StopUninit(t) ==
    /\ pc[t] = "s.uninit"
    /\ inited' = FALSE
    /\ Goto(t, "s.disable")
    /\ UNCHANGED <<lock, fault, enabled, ready, watching, pinVars, envVars, bad, ops>>

StopDisable(t) ==
    /\ pc[t] = "s.disable"
    /\ enabled' = FALSE
    /\ Goto(t, "s.reset")
    /\ UNCHANGED <<lock, fault, inited, ready, watching, pinVars, envVars, bad, ops>>

StopReset(t) ==
    /\ pc[t] = "s.reset"
    /\ released' = FALSE
    /\ Goto(t, "s.off")
    /\ UNCHANGED <<lock, flagVars, out, stuck, envVars, bad, ops>>

\* TPS546_set_vout(0): skipped before the regulator was found.
OutputOff ==
    \/ ready /\ out' = FALSE /\ stuck' = FALSE /\ UNCHANGED faults
    \/ ready /\ Fails /\ stuck' = TRUE /\ UNCHANGED out
    \/ ~ready /\ UNCHANGED <<out, stuck, faults>>

StopOff(t) ==
    /\ pc[t] = "s.off"
    /\ OutputOff
    /\ Goto(t, IF lock = t THEN "failed" ELSE "m.sleep")
    /\ UNCHANGED <<lock, flagVars, released, grace, critical, bad, ops>>

StopStep(t) ==
    \/ StopFault(t) \/ StopUninit(t) \/ StopDisable(t) \/ StopReset(t) \/ StopOff(t)

-----------------------------------------------------------------------------
(* Transitions.  They return through "done", "off.done" or "failed".       *)

TakeLock(t) ==
    /\ lock = Free
    /\ \/ pc[t] = "start" /\ Goto(t, "st.init")
       \/ pc[t] = "on.lock" /\ Goto(t, "on.check")
       \/ pc[t] = "off.lock" /\ Goto(t, "off.disable")
       \/ pc[t] = "v.lock" /\ Goto(t, "v.check")
    /\ lock' = t
    /\ UNCHANGED <<flagVars, pinVars, envVars, bad, ops>>

\* What the caller does with the result.
Continuation(t, result) ==
    CASE t \in Users -> "idle"
      [] t = Boot -> IF result = "failed" THEN "latch" ELSE "over"
      [] t = Monitor -> IF result = "off.done" THEN "m.cycled" ELSE "m.sleep"

\* Mutant: an early return of an error keeps the lock.
GiveLockOnSuccess(t) ==
    /\ pc[t] \in Returning
    /\ lock' = IF pc[t] = "failed" THEN lock ELSE Free
    /\ Goto(t, Continuation(t, pc[t]))
    /\ UNCHANGED <<flagVars, pinVars, envVars, bad, ops>>

GiveLock(t) ==
    /\ pc[t] \in Returning
    /\ lock' = Free
    /\ Goto(t, Continuation(t, pc[t]))
    /\ UNCHANGED <<flagVars, pinVars, envVars, bad, ops>>

\* Nobody is between a decision and the fault: the monitor between its last look
\* at the flags and safety_shutdown, the boot task after it gave the lock back.
NothingDecided == \A u \in Tasks : pc[u] \notin {"m.temp", "s.fault", "latch"}

\* A fault refuses power; a chip that is up needs nothing.
OnCheck(t) ==
    /\ pc[t] = "on.check" /\ (PromptFaults => NothingDecided)
    /\ Goto(t, CASE Faulted -> "failed"
                 [] ~Faulted /\ inited /\ enabled -> "done"
                 [] OTHER -> "on.hold")
    /\ UNCHANGED <<lock, flagVars, pinVars, envVars, bad, ops>>

OnHold(t) ==
    /\ pc[t] = "on.hold"
    /\ released' = FALSE
    /\ Goto(t, "on.fan")
    /\ UNCHANGED <<lock, flagVars, out, stuck, envVars, bad, ops>>

\* The second that must have passed since the last power-off outlasts a round of
\* the monitor, or a stop, that began before it.
OffLongEnough ==
    /\ \A u \in Tasks : pc[u] \notin Stopping
    /\ pc[Monitor] \notin {"m.capture", "m.lost", "m.recheck", "m.chip", "m.guard",
                           "m.temp", "m.tune"}

OnFan(t) ==
    /\ pc[t] = "on.fan" /\ OffLongEnough
    /\ \/ Goto(t, "st.init") /\ grace' = TRUE /\ UNCHANGED faults
       \/ Fails /\ Goto(t, "failed") /\ UNCHANGED grace
    /\ UNCHANGED <<lock, flagVars, pinVars, critical, bad, ops>>

\* bitaxe_gamma602_start_hardware_unlocked begins: the fan, then TPS546_init,
\* which writes OPERATION_OFF somewhere on its way.
StartInit(t) ==
    /\ pc[t] = "st.init"
    /\ \/ ready' = TRUE /\ out' = FALSE /\ Goto(t, "st.vout") /\ UNCHANGED faults
       \/ Fails /\ out' \in {out, FALSE} /\ Goto(t, "s.disable") /\ UNCHANGED ready
       \/ Fails /\ Goto(t, "failed") /\ UNCHANGED <<out, ready>>
    /\ UNCHANGED <<lock, fault, enabled, inited, watching, released, stuck, grace, critical,
                   bad, ops>>

\* Mutant: the error is returned without turning the output off.
StartVoutReturn(t) ==
    /\ pc[t] = "st.vout"
    /\ \/ out' = TRUE /\ Goto(t, "st.enable") /\ UNCHANGED faults
       \/ Fails /\ out' \in {out, TRUE} /\ Goto(t, "failed")
    /\ UNCHANGED <<lock, flagVars, released, stuck, grace, critical, bad, ops>>

\* TPS546_set_vout(volts): it may fail before or after the output is on.
StartVout(t) ==
    /\ pc[t] = "st.vout"
    /\ \/ out' = TRUE /\ Goto(t, "st.enable") /\ UNCHANGED faults
       \/ Fails /\ out' \in {out, TRUE} /\ Goto(t, "s.disable")
    /\ UNCHANGED <<lock, flagVars, released, stuck, grace, critical, bad, ops>>

StartEnable(t) ==
    /\ pc[t] = "st.enable"
    /\ enabled' = TRUE
    /\ Goto(t, "st.wait")
    /\ UNCHANGED <<lock, fault, inited, ready, watching, pinVars, envVars, bad, ops>>

\* wait_for_regulator_after_enable: reads until the output has settled.
Settles(t, label, then) ==
    /\ pc[t] = label
    /\ \/ ~Refused /\ Goto(t, then) /\ UNCHANGED faults
       \/ Refused /\ Goto(t, "s.fault") /\ UNCHANGED faults
       \/ Fails /\ Goto(t, "s.fault")
    /\ UNCHANGED <<lock, flagVars, pinVars, grace, critical, bad, ops>>

StartWatch(t) ==
    /\ pc[t] = "st.watch"
    /\ \/ /\ watching' = TRUE
          /\ pc' = [pc EXCEPT ![t] = "st.low",
                              ![Monitor] = IF watching THEN @ ELSE "m.sleep"]
          /\ UNCHANGED faults
       \/ /\ ~watching /\ Fails
          /\ Goto(t, "s.disable")
          /\ UNCHANGED watching
    /\ UNCHANGED <<lock, fault, enabled, inited, ready, pinVars, grace, critical, bad, ops>>

\* asic_reset_pulse.
StartLow(t) ==
    /\ pc[t] = "st.low"
    /\ released' = FALSE
    /\ Goto(t, "st.high")
    /\ UNCHANGED <<lock, flagVars, out, stuck, envVars, bad, ops>>

StartHigh(t) ==
    /\ pc[t] = "st.high"
    /\ released' = TRUE
    /\ Goto(t, "st.detect")
    /\ UNCHANGED <<lock, flagVars, out, stuck, envVars, bad, ops>>

\* The chip answers when it has power and is out of reset.
Answers == out /\ released

\* The pulse's two delays of 100 ms outlast the few bus accesses of a stop that
\* another task has begun: detection starts before such a stop or after it.
PulseOver == \A u \in Tasks : pc[u] \notin Stopping

\* Mutant: "no BM1370 detected" is returned without a shutdown.
StartDetectReturn(t) ==
    /\ pc[t] = "st.detect" /\ PulseOver
    /\ \/ Answers /\ Goto(t, "st.inited") /\ UNCHANGED faults
       \/ ~Answers /\ Goto(t, "failed") /\ UNCHANGED faults
       \/ Fails /\ Goto(t, "failed")
    /\ UNCHANGED <<lock, flagVars, pinVars, grace, critical, bad, ops>>

StartDetect(t) ==
    /\ pc[t] = "st.detect" /\ PulseOver
    /\ \/ Answers /\ Goto(t, "st.inited") /\ UNCHANGED faults
       \/ ~Answers /\ Goto(t, "s.disable") /\ UNCHANGED faults
       \/ Fails /\ Goto(t, "s.disable")
    /\ UNCHANGED <<lock, flagVars, pinVars, grace, critical, bad, ops>>

StartInited(t) ==
    /\ pc[t] = "st.inited"
    /\ inited' = TRUE /\ grace' = TRUE
    /\ Goto(t, "done")
    /\ UNCHANGED <<lock, fault, enabled, ready, watching, pinVars, critical, faults, bad, ops>>

OnStep(t) ==
    \/ OnCheck(t) \/ OnHold(t) \/ OnFan(t) \/ StartInit(t) \/ StartVout(t) \/ StartEnable(t)
    \/ Settles(t, "st.wait", "st.watch") \/ StartWatch(t) \/ StartLow(t) \/ StartHigh(t)
    \/ StartDetect(t) \/ StartInited(t)

OffDisable(t) ==
    /\ pc[t] = "off.disable"
    /\ enabled' = FALSE
    /\ Goto(t, "off.uninit")
    /\ UNCHANGED <<lock, fault, inited, ready, watching, pinVars, envVars, bad, ops>>

OffUninit(t) ==
    /\ pc[t] = "off.uninit"
    /\ inited' = FALSE
    /\ Goto(t, "off.reset")
    /\ UNCHANGED <<lock, fault, enabled, ready, watching, pinVars, envVars, bad, ops>>

OffReset(t) ==
    /\ pc[t] = "off.reset"
    /\ released' = FALSE
    /\ Goto(t, "off.vout")
    /\ UNCHANGED <<lock, flagVars, out, stuck, envVars, bad, ops>>

OffVout(t) ==
    /\ pc[t] = "off.vout"
    /\ OutputOff
    /\ Goto(t, IF faults' = faults THEN "off.done" ELSE "failed")
    /\ UNCHANGED <<lock, flagVars, released, grace, critical, bad, ops>>

OffStep(t) == OffDisable(t) \/ OffUninit(t) \/ OffReset(t) \/ OffVout(t)

\* bitaxe_gamma602_set_voltage_mv_for_config_unlocked: without power the value
\* is only remembered.
TuneCheck(t) ==
    /\ pc[t] = "v.check"
    /\ Goto(t, IF ready /\ enabled THEN "v.command" ELSE "done")
    /\ UNCHANGED <<lock, flagVars, pinVars, envVars, bad, ops>>

\* TPS546_set_vout(volts) turns the output on, whatever it was.
TuneCommand(t) ==
    /\ pc[t] = "v.command"
    /\ \/ out' = TRUE /\ Goto(t, "v.wait") /\ UNCHANGED faults
       \/ Fails /\ out' \in {out, TRUE} /\ Goto(t, "failed")
    /\ UNCHANGED <<lock, flagVars, released, stuck, grace, critical, bad, ops>>

TuneStep(t) == TuneCheck(t) \/ TuneCommand(t) \/ Settles(t, "v.wait", "done")

-----------------------------------------------------------------------------
(* The power monitor's loop.                                               *)

MonitorGoto(label, next) == pc[Monitor] = label /\ Goto(Monitor, next)

MonWake ==
    /\ enabled /\ MonitorGoto("m.sleep", "m.capture")
    /\ UNCHANGED <<lock, flagVars, pinVars, envVars, bad, ops>>

MonCapture ==
    /\ \/ bad' = Refused /\ MonitorGoto("m.capture", "m.recheck") /\ UNCHANGED faults
       \/ Fails /\ MonitorGoto("m.capture", "m.lost") /\ UNCHANGED bad
    /\ UNCHANGED <<lock, flagVars, pinVars, grace, critical, ops>>

\* An unreadable regulator is a fault unless it is meant to be off.
MonLost ==
    /\ MonitorGoto("m.lost", IF enabled THEN "s.fault" ELSE "m.sleep")
    /\ UNCHANGED <<lock, flagVars, pinVars, envVars, bad, ops>>

\* Mutant: the flag is not looked at again after the snapshot.
MonRecheckNever ==
    /\ MonitorGoto("m.recheck", IF bad THEN "s.fault" ELSE "m.chip")
    /\ bad' = FALSE
    /\ UNCHANGED <<lock, flagVars, pinVars, envVars, ops>>

\* A transition may have begun while the snapshot was in flight.
MonRecheck ==
    /\ MonitorGoto("m.recheck", CASE ~enabled -> "m.sleep"
                                  [] enabled /\ bad -> "s.fault"
                                  [] OTHER -> "m.chip")
    /\ bad' = FALSE
    /\ UNCHANGED <<lock, flagVars, pinVars, envVars, ops>>

\* The watchdog judges the hash rate, which is not modelled.
MonChip ==
    /\ \/ ~inited /\ MonitorGoto("m.chip", "m.sleep")
       \/ inited /\ MonitorGoto("m.chip", "m.guard")
       \/ Watchdog /\ ~Faulted /\ inited /\ enabled /\ MonitorGoto("m.chip", "off.lock")
    /\ UNCHANGED <<lock, flagVars, pinVars, envVars, bad, ops>>

\* apply_domain_reboot_watchdog, between its power-off and its power-on.
MonCycled ==
    /\ MonitorGoto("m.cycled", IF Faulted THEN "m.sleep" ELSE "on.lock")
    /\ UNCHANGED <<lock, flagVars, pinVars, envVars, bad, ops>>

MonGuard ==
    /\ MonitorGoto("m.guard", IF Faulted \/ ~inited \/ ~enabled THEN "m.sleep" ELSE "m.temp")
    /\ UNCHANGED <<lock, flagVars, pinVars, envVars, bad, ops>>

\* Mutant: a lost domain excuses a high temperature too, not only a failed read.
MonTempExcused ==
    /\ \/ critical # "chip" /\ MonitorGoto("m.temp", "m.tune") /\ UNCHANGED faults
       \/ /\ critical = "chip" /\ UNCHANGED faults
          /\ MonitorGoto("m.temp", IF grace \/ Watchdog THEN "m.sleep" ELSE "s.fault")
       \/ Fails /\ ~grace /\ MonitorGoto("m.temp", "s.fault")
       \/ Fails /\ (grace \/ Watchdog) /\ MonitorGoto("m.temp", "m.sleep")
    /\ UNCHANGED <<lock, flagVars, pinVars, grace, critical, bad, ops>>

\* A bad or failed reading is ignored during the grace time, a failed one also
\* while the watchdog waits for a lost domain.
MonTemp ==
    /\ \/ critical # "chip" /\ MonitorGoto("m.temp", "m.tune") /\ UNCHANGED faults
       \/ /\ critical = "chip" /\ UNCHANGED faults
          /\ MonitorGoto("m.temp", IF grace THEN "m.sleep" ELSE "s.fault")
       \/ Fails /\ ~grace /\ MonitorGoto("m.temp", "s.fault")
       \/ Fails /\ (grace \/ Watchdog) /\ MonitorGoto("m.temp", "m.sleep")
    /\ UNCHANGED <<lock, flagVars, pinVars, grace, critical, bad, ops>>

\* Voltage compensation waits for the lock, auto-clock only tries it.
MonTune ==
    /\ \/ MonitorGoto("m.tune", "m.sleep") /\ UNCHANGED lock
       \/ Retunes /\ MonitorGoto("m.tune", "v.lock") /\ UNCHANGED lock
       \/ Retunes /\ lock = Free /\ lock' = Monitor /\ MonitorGoto("m.tune", "v.check")
    /\ UNCHANGED <<flagVars, pinVars, envVars, bad, ops>>

MonStep ==
    MonWake \/ MonCapture \/ MonLost \/ MonRecheck \/ MonChip \/ MonCycled \/ MonGuard
    \/ MonTemp \/ MonTune

-----------------------------------------------------------------------------
(* Requests, the end of the boot task, and the environment.                *)

\* The boot task takes the lock before a client can have reached the server.
Request(u) ==
    /\ pc[u] = "idle" /\ pc[Boot] # "start"
    /\ ops < MaxOps /\ ops' = ops + 1
    /\ \/ "on" \in Requests /\ Goto(u, "on.lock")
       \/ "off" \in Requests /\ Goto(u, "off.lock")
       \/ "tune" \in Requests /\ Goto(u, "v.lock")
    /\ UNCHANGED <<lock, flagVars, pinVars, envVars, bad>>

\* hardware_task after a failed start.
BootLatch ==
    /\ pc[Boot] = "latch"
    /\ fault' = IF Faulted THEN fault ELSE "init"
    /\ inited' = (Faulted /\ inited)
    /\ Goto(Boot, "over")
    /\ UNCHANGED <<lock, enabled, ready, watching, pinVars, envVars, bad, ops>>

CriticalBegins ==
    /\ critical = "none" /\ critical' \in {"regulator", "chip"}
    /\ Fails
    /\ UNCHANGED <<lock, flagVars, pinVars, grace, pc, bad, ops>>

CriticalEnds ==
    /\ critical # "none" /\ critical' = "none"
    /\ UNCHANGED <<lock, flagVars, pinVars, grace, faults, pc, bad, ops>>

GraceEnds ==
    /\ grace /\ grace' = FALSE
    /\ UNCHANGED <<lock, flagVars, pinVars, critical, faults, pc, bad, ops>>

TaskStep(t) == TakeLock(t) \/ GiveLock(t) \/ StopStep(t) \/ OnStep(t) \/ OffStep(t) \/ TuneStep(t)

Next ==
    \/ \E t \in Tasks : TaskStep(t)
    \/ MonStep
    \/ \E u \in Users : Request(u)
    \/ BootLatch \/ CriticalBegins \/ CriticalEnds \/ GraceEnds

Spec == Init /\ [][Next]_vars

\* Every task runs when it can: each sleeps or waits for the bus between its
\* steps.  Strong fairness stands for waits that end: the lock goes to a task
\* that keeps waiting for it (FreeRTOS hands a mutex to its waiter of the highest
\* priority, requests come one after another from the HTTP server, the monitor
\* sleeps between two uses), and the delays of PulseOver, OffLongEnough and
\* PromptFaults run out while the monitor goes on.  The grace time ends.
Fairness ==
    /\ \A t \in Tasks : SF_vars(TaskStep(t))
    /\ WF_vars(MonStep) /\ WF_vars(BootLatch) /\ WF_vars(GraceEnds)

LiveSpec == Spec /\ Fairness
-----------------------------------------------------------------------------
(* Properties.                                                             *)

\* No transition and no emergency stop is under way.
Quiet == lock = Free /\ \A t \in Tasks : pc[t] \notin Stopping

\* Every variable has its type, the lock's holder is in a transition, and no
\* other task is inside one (take_asic_transition_lock, give_..._lock).
TypeOK ==
    /\ lock \in Tasks \cup {Free}
    /\ {enabled, inited, ready, watching, released, out, stuck, grace, bad}
          \subseteq BOOLEAN
    /\ fault \in {"none", "board", "init", "stop"}
    /\ critical \in {"none", "regulator", "chip"}
    /\ pc \in [Tasks -> Labels]
    /\ ops \in 0 .. MaxOps /\ faults \in 0 .. MaxFaults
    /\ \A t \in Tasks :
          pc[t] \in (TurningOn \cup TurningOff \cup Retuning \cup Returning)
                     \ {"on.lock", "off.lock", "v.lock"} => lock = t

\* A stop is final: once it has run, the chip stays in reset and the regulator
\* counts as off, although the stop takes no lock and may have run in the middle
\* of a power-on that raises the reset line (bitaxe_hw.c:748-770, 1796-1831).
Stopped == fault = "stop" /\ Quiet /\ ready /\ ~stuck
StopHolds == Stopped => ~released /\ ~enabled

\* README.md:190: the firmware "holds ASIC reset low and turns TPS546 output off
\* if a critical condition is detected" (safety_shutdown, bitaxe_hw.c:758-770).
OutputStaysOff == Stopped => ~out

\* Without a fault, the flags other components read, the reset line and the
\* regulator tell the same story between transitions, after failed ones and
\* watchdog cycles too (bitaxe_hw.c:1859-1962, 1465-1471).
FlagsAgree ==
    ~Faulted /\ Quiet /\ ready /\ ~stuck =>
        out = enabled /\ inited = enabled /\ released = enabled

\* While every reading is good and no access fails, nothing is mistaken for a
\* fault: the monitor's snapshots race with intended power-offs and power-ons,
\* and bitaxe_hw.c:1588-1590 says they must not be taken for one.
NoFalseStop == faults = 0 => fault # "stop"

\* Every request to change the chip's power or voltage is answered: whatever
\* fails under way, the lock is given back (bitaxe_hw.c:1960-1961, 2037-2038).
RequestsReturn == \A u \in Users : pc[u] # "idle" ~> pc[u] = "idle"

\* A critical reading that lasts ends in a stop: no transition, retune or
\* watchdog cycle keeps the monitor from it (bitaxe_hw.c:1568-1663).
CriticalStops ==
    /\ critical = "regulator" /\ enabled ~> critical # "regulator" \/ ~enabled
    /\ critical = "chip" /\ enabled /\ inited ~> critical # "chip" \/ ~enabled
=============================================================================
