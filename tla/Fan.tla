--------------------------------- MODULE Fan ---------------------------------
(***************************************************************************)
(* The fan controller of main/bitaxe_fan.c.  Two tasks drive the fan: the  *)
(* power monitor (bitaxe_fan_update_auto, every tick while the chip is     *)
(* powered) and a control task (a settings save, a power switch, a         *)
(* shutdown).  Nothing serialises them.  Each writes the duty to the       *)
(* EMC2101 and then notes it in fan_perc, from which the next tick decides *)
(* whether there is anything to write.                                     *)
(*                                                                         *)
(* Percentages are levels 0 .. Full; a temperature is what the thresholds  *)
(* make of it; the filters, the integral term and the sample counters only *)
(* choose when the automatic mode moves, and are a choice here.            *)
(***************************************************************************)
EXTENDS Naturals, Sequences

CONSTANTS
    Full,        \* FAN_MAX_PERCENT
    Lowest,      \* FAN_AUTO_MIN_PERCENT, the lowest automatic level but off
    FanConfigs,  \* settings a save may install: [override, level, mayStop]
    MaxFanOps,   \* bound: operations of the control task
    MaxFanFaults \* bound: failed writes on the bus

ASSUME FanAssumption ==
    Full \in Nat /\ Lowest \in 1 .. Full /\ MaxFanOps \in Nat /\ MaxFanFaults \in Nat

VARIABLES
    duty,        \* what the EMC2101 drives
    fanPerc,     \* POWER_MANAGEMENT_MODULE.fan_perc
    latched,     \* g_fan_failsafe_latched
    autoOff,     \* g_fan_auto_off_active
    fanConf,     \* the fan settings in use
    powered,     \* the regulator is on and no fault is flagged: the monitor ticks
    tick,        \* the monitor's tick: [at, current, writes], whether it is the
                 \* auto-clock that forces the fan, and whether it is undisturbed
                 \* so far by the control task (history)
    control,     \* the control task: [at, op, level]
    torn,        \* history: the last write fell between another's write and note
    hotTick,     \* history: the last thing done to the fan was a failsafe tick
    fanOps, fanFaults

fanVars == <<duty, fanPerc, latched, autoOff, fanConf, powered, tick, control, torn,
             hotTick, fanOps, fanFaults>>

Levels == 0 .. Full
NoTick == [at |-> "idle", current |-> 0, writes |-> <<>>, alone |-> TRUE, forces |-> FALSE]
NoControl == [at |-> "idle", op |-> "none", level |-> 0]
NoFan(c) == c.override /\ c.level = 0

\* bitaxe_fan_init and the start of the hardware have run.
FanInit ==
    /\ duty = Full /\ fanPerc = Full /\ latched = FALSE /\ autoOff = FALSE
    /\ fanConf \in FanConfigs /\ powered = TRUE
    /\ tick = NoTick /\ control = NoControl
    /\ torn = FALSE /\ hotTick = FALSE /\ fanOps = 0 /\ fanFaults = 0

-----------------------------------------------------------------------------
(* The monitor's tick *)

\* bitaxe_fan_update_auto reads the level it believes in and latches or
\* releases the failsafe: "on" is the chip or the regulator above its upper
\* threshold, "off" both below the lower ones.
TickStarts(sensed) ==
    /\ tick.at = "idle" /\ powered
    /\ latched' = CASE sensed = "on" -> TRUE [] sensed = "off" -> FALSE [] OTHER -> latched
    /\ tick' = [NoTick EXCEPT !.at = "decide", !.current = fanPerc,
                              !.alone = control.at # "note"]
    /\ hotTick' = FALSE
    /\ UNCHANGED <<duty, fanPerc, autoOff, fanConf, powered, control, torn, fanOps, fanFaults>>

\* The auto-clock's failsafe, which is evaluated by the monitor and for a fixed
\* fan only: full speed, whatever the level is believed to be.
TickForces ==
    /\ tick.at = "idle" /\ powered /\ fanConf.override /\ ~NoFan(fanConf)
    /\ tick' = [NoTick EXCEPT !.at = "write", !.current = Full, !.writes = <<Full>>,
                              !.alone = control.at # "note", !.forces = TRUE]
    /\ hotTick' = FALSE
    /\ UNCHANGED <<duty, fanPerc, latched, autoOff, fanConf, powered, control, torn, fanOps,
                   fanFaults>>

FailsafeWrites == IF tick.current = Full THEN <<>> ELSE <<Full>>

OverrideWrites == IF tick.current = fanConf.level THEN <<>> ELSE <<fanConf.level>>

\* One step towards the target, or none: dead bands and sample counters.
StepWrites ==
    {<<>>} \cup {<<n>> : n \in {l \in Lowest .. Full :
                                  l = tick.current + 1 \/ l = tick.current - 1
                                  \/ (tick.current = 0 /\ l = Lowest)}}

\* Off and on again, twice at most, when the tachometer shows no rotation.
Pulses == <<0, Full, 0, Full>>

Tick(writes, off, latch) ==
    /\ tick' = IF writes = <<>> THEN NoTick ELSE [tick EXCEPT !.at = "write", !.writes = writes]
    /\ autoOff' = off /\ latched' = latch
    /\ hotTick' = (latch /\ writes = <<>> /\ tick.alone)
    /\ UNCHANGED <<duty, fanPerc, fanConf, powered, control, torn, fanOps, fanFaults>>

TickDecides ==
    /\ tick.at = "decide"
    /\ IF NoFan(fanConf) THEN Tick(OverrideWrites, FALSE, FALSE)
       ELSE IF latched THEN Tick(FailsafeWrites, FALSE, TRUE)
       ELSE IF fanConf.override THEN Tick(OverrideWrites, FALSE, FALSE)
       ELSE \/ /\ fanConf.mayStop                 \* cold for long: off
               /\ Tick(IF tick.current = 0 THEN <<>> ELSE <<0>>, TRUE, FALSE)
            \/ IF autoOff                         \* a start from rest at full speed
               THEN \E next \in StepWrites : Tick(<<Full>> \o next, FALSE, FALSE)
               ELSE \E writes \in StepWrites \cup {Pulses} : Tick(writes, FALSE, FALSE)
            \/ Tick(<<>>, autoOff, FALSE)         \* cold, not for long enough yet

TickWrites ==
    /\ tick.at = "write"
    /\ duty' = Head(tick.writes)
    /\ tick' = [tick EXCEPT !.at = "note"]
    /\ torn' = (control.at = "note")
    /\ UNCHANGED <<fanPerc, latched, autoOff, fanConf, powered, control, hotTick, fanOps, fanFaults>>

\* The rest of the tick is abandoned; a start that failed stays a start.
TickFails ==
    /\ tick.at = "write" /\ fanFaults < MaxFanFaults
    /\ fanFaults' = fanFaults + 1
    /\ tick' = NoTick
    /\ autoOff' = (autoOff \/ (tick.current = 0 /\ tick.writes[1] = Full /\ ~latched))
    /\ UNCHANGED <<duty, fanPerc, latched, fanConf, powered, control, torn, hotTick, fanOps>>

\* A first pulse that helped makes the second unnecessary.
MayEnd(rest) == rest \in {<<>>, <<0, Full>>}

\* Broken variant: only the full level of a pulse is noted.
TickNotesFull ==
    /\ tick.at = "note"
    /\ latched' = (latched \/ tick.forces) /\ autoOff' = (autoOff /\ ~tick.forces)
    /\ LET rest == Tail(tick.writes) IN
       \E ended \in {MayEnd(rest), rest = <<>>} :
         /\ tick' = IF ended THEN NoTick ELSE [tick EXCEPT !.at = "write", !.writes = rest]
         /\ hotTick' = (ended /\ latched' /\ tick.alone)
    /\ fanPerc' = IF Head(tick.writes) = 0 THEN fanPerc ELSE Head(tick.writes)
    /\ UNCHANGED <<duty, fanConf, powered, control, torn, fanOps, fanFaults>>

TickNotes ==
    /\ tick.at = "note"
    /\ latched' = (latched \/ tick.forces) /\ autoOff' = (autoOff /\ ~tick.forces)
    /\ LET rest == Tail(tick.writes) IN
       \E ended \in {MayEnd(rest), rest = <<>>} :
         /\ tick' = IF ended THEN NoTick ELSE [tick EXCEPT !.at = "write", !.writes = rest]
         /\ hotTick' = (ended /\ latched' /\ tick.alone)
    /\ fanPerc' = Head(tick.writes)
    /\ UNCHANGED <<duty, fanConf, powered, control, torn, fanOps, fanFaults>>

TickStep ==
    \/ \E sensed \in {"on", "between", "off"} : TickStarts(sensed)
    \/ TickForces \/ TickDecides \/ TickWrites \/ TickFails \/ TickNotes

-----------------------------------------------------------------------------
(* The control task *)

ControlBegins(op, level) ==
    /\ control' = [at |-> "write", op |-> op, level |-> level]
    /\ UNCHANGED <<duty, fanPerc, latched, autoOff, tick, torn, hotTick, fanFaults>>

\* A save with other fan settings; only an override is applied at once
\* (bitaxe_fan_apply_config).
SaveFan(c) ==
    /\ control.at = "idle" /\ fanOps < MaxFanOps /\ c # fanConf
    /\ fanOps' = fanOps + 1 /\ fanConf' = c
    /\ UNCHANGED powered
    /\ LET applied == c.override /\ <<c.override, c.level>> # <<fanConf.override, fanConf.level>> IN
       IF applied /\ fanPerc # c.level
       THEN ControlBegins("apply", c.level)
       ELSE /\ autoOff' = (autoOff /\ ~applied)
            /\ UNCHANGED <<duty, fanPerc, latched, tick, control, torn, hotTick, fanFaults>>

\* The power switch, fan included (bitaxe_fan_stop_for_asic), and a shutdown
\* of the regulator (bitaxe_fan_force_max_if_allowed).
StopFan ==
    /\ control.at = "idle" /\ fanOps < MaxFanOps /\ powered
    /\ fanOps' = fanOps + 1 /\ powered' = FALSE /\ UNCHANGED fanConf
    /\ ControlBegins("stop", 0)

ForceMax ==
    /\ control.at = "idle" /\ fanOps < MaxFanOps /\ powered
    /\ fanOps' = fanOps + 1 /\ powered' = FALSE /\ UNCHANGED fanConf
    /\ IF NoFan(fanConf)
       THEN UNCHANGED <<duty, fanPerc, latched, autoOff, tick, control, torn, hotTick, fanFaults>>
       ELSE ControlBegins("force", Full)

\* Power on: full speed before the regulator is enabled
\* (bitaxe_fan_start_for_asic), or the override of a board without a fan.
StartFan ==
    /\ control.at = "idle" /\ fanOps < MaxFanOps /\ ~powered
    /\ fanOps' = fanOps + 1 /\ UNCHANGED <<fanConf, powered>>
    /\ IF NoFan(fanConf) THEN ControlBegins("startNoFan", 0) ELSE ControlBegins("start", Full)

ControlWrites ==
    /\ control.at = "write"
    /\ control.op = "startNoFan" => fanPerc # 0     \* nothing to write otherwise
    /\ duty' = control.level
    /\ control' = [control EXCEPT !.at = "note"]
    /\ torn' = (tick.at = "note")
    /\ hotTick' = FALSE
    /\ tick' = IF tick.at = "idle" THEN NoTick ELSE [tick EXCEPT !.alone = FALSE]
    /\ UNCHANGED <<fanPerc, latched, autoOff, fanConf, powered, fanOps, fanFaults>>

ControlFails ==
    /\ control.at = "write" /\ fanFaults < MaxFanFaults
    /\ fanFaults' = fanFaults + 1
    /\ control' = NoControl
    /\ UNCHANGED <<duty, fanPerc, latched, autoOff, fanConf, powered, tick, torn, hotTick, fanOps>>

ControlNotes ==
    /\ control.at = "note"
    /\ fanPerc' = control.level
    /\ latched' = CASE control.op = "force" -> TRUE
                    [] control.op \in {"apply", "startNoFan"} -> latched
                    [] OTHER -> FALSE
    /\ autoOff' = FALSE
    /\ powered' = (powered \/ control.op \in {"start", "startNoFan"})
    /\ control' = NoControl
    /\ hotTick' = FALSE
    /\ UNCHANGED <<duty, fanConf, tick, torn, fanOps, fanFaults>>

ControlHasNothingToWrite ==
    /\ control.at = "write" /\ control.op = "startNoFan" /\ fanPerc = 0
    /\ powered' = TRUE /\ autoOff' = FALSE /\ control' = NoControl
    /\ UNCHANGED <<duty, fanPerc, latched, fanConf, tick, torn, hotTick, fanOps, fanFaults>>

ControlStep ==
    \/ ControlHasNothingToWrite
    \/ \E c \in FanConfigs : SaveFan(c)
    \/ StopFan \/ ForceMax \/ StartFan \/ ControlWrites \/ ControlFails \/ ControlNotes

FanNext == TickStep \/ ControlStep

-----------------------------------------------------------------------------
(* Properties *)

\* When a tick with the failsafe latched has ended, without a bus error and
\* without the control task in its way, the fan really is at full speed, not
\* only believed to be: the tick writes nothing when fan_perc says so already,
\* so every failed or half-done sequence before it must have noted what the
\* fan was left at.  Excepted is a duty that one task has written between the
\* other's write and note: until the next write the belief may be wrong.
HotFanIsFull == (hotTick /\ ~torn) => duty = Full
=============================================================================
