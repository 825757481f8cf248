---------------------------- MODULE AsicPowerProofs ----------------------------
(***************************************************************************)
(* The power transitions of AsicPower, for every number of HTTP workers    *)
(* and every bound: types and the lock, what the flags say while nothing   *)
(* is wrong, that a stop holds, and that nothing stops without a cause.    *)
(***************************************************************************)
EXTENDS AsicPower, TLAPS

\* Labels of a transition past its lock.
Inside == (TurningOn \cup TurningOff \cup Retuning \cup Returning)
             \ {"on.lock", "off.lock", "v.lock"}
Starting == {"st.init", "st.vout", "st.enable", "st.wait", "st.watch", "st.low",
             "st.high", "st.detect", "st.inited"}

\* Who may be where.  Only the monitor stops what another task started.
Roles ==
    /\ lock = Free \/ pc[lock] \in Inside \cup Stopping
    /\ \A t \in Tasks : pc[t] \in {"start", "latch", "over"} => t = Boot
    /\ \A t \in Tasks : pc[t] \in Watching => t = Monitor
    /\ \A t \in Tasks : pc[t] \in Stopping /\ t # Monitor => lock = t
    /\ pc[Boot] \in {"start", "latch", "over", "done", "failed"} \cup Starting \cup Stopping
    /\ ~watching => pc[Monitor] = "idle"
    /\ pc[Boot] = "start" => /\ lock = Free /\ fault = "none" /\ ~watching /\ ~enabled
                             /\ \A t \in Tasks \ {Boot} : pc[t] = "idle"

\* No stop has run, and hardware_task has not given the chip up.
Sound == fault \in {"none", "board"}

Down == ~enabled /\ ~inited /\ ~released
OffIfSure == ready /\ ~stuck => ~out
Steady == inited = enabled /\ released = enabled /\ (~enabled => OffIfSure)

\* What the holder of the lock has done so far, by where it is.
AtStage(label) ==
    /\ label \in {"on.check", "off.disable", "v.check", "done", "off.done", "failed"} => Steady
    /\ label \in {"v.command", "v.wait"} => Steady /\ enabled
    /\ label \in {"on.hold", "on.fan", "st.init"} => Down /\ OffIfSure
    /\ label \in {"st.vout", "st.enable"} => Down /\ ready
    /\ label = "st.enable" => out
    /\ label \in {"st.wait", "st.watch", "st.low", "st.high", "st.detect", "st.inited"}
          => enabled /\ ~inited
    /\ label \in {"st.wait", "st.watch", "st.low", "st.high"} => ~released
    /\ label \in {"st.detect", "st.inited"} => released
    /\ label \in {"s.disable", "s.reset", "s.off"} => ~inited
    /\ label \in {"s.reset", "s.off"} => ~enabled
    /\ label = "s.off" => ~released
    /\ label \in {"off.uninit", "off.reset", "off.vout"} => ~enabled
    /\ label \in {"off.reset", "off.vout"} => ~inited
    /\ label = "off.vout" => ~released

Story ==
    Sound => /\ enabled => ready /\ out
             /\ lock = Free => Steady
             /\ \A t \in Tasks : lock = t => AtStage(pc[t])
             /\ \A t \in Tasks : pc[t] # "s.uninit"
             /\ \A t \in Tasks : pc[t] \in Stopping \ {"s.fault"} => lock = t

\* A start before and after its output is enabled.
Early == {"on.hold", "on.fan", "st.init", "st.vout", "st.enable"}
Late == {"st.wait", "st.watch", "st.low", "st.high", "st.detect"}

\* An early start has no fault to run into, and nobody is about to latch one.
Undisturbed ==
    \A t \in Tasks : pc[t] \in Early => fault = "none" /\ NothingDecided

\* What is on after a stop is about to be turned off.
SomeAt(labels) == \E u \in Tasks : pc[u] \in labels
Certain == ready /\ ~stuck
Final ==
    /\ SomeAt({"s.off"}) /\ released => SomeAt({"st.detect"})
    /\ SomeAt({"off.vout"}) => ~released
    /\ fault = "stop" =>
          /\ enabled => SomeAt({"s.uninit", "s.disable"})
          /\ released /\ Certain
                => SomeAt({"s.uninit", "s.disable", "s.reset", "st.detect"})
          /\ SomeAt(Late) /\ out /\ Certain => SomeAt(Stopping)

\* Nothing failed and no reading was bad so far.
Untroubled ==
    /\ \A t \in Tasks : pc[t] \notin Stopping \cup {"m.lost"}
    /\ pc[Boot] \notin {"failed", "latch"}
    /\ pc[Monitor] = "m.recheck" /\ bad => ~enabled
    /\ \A t \in Tasks : pc[t] \in {"st.init", "st.vout", "st.enable"}
          => pc[Monitor] \notin {"m.capture", "m.recheck"}
Clean == faults = 0 => Sound /\ critical = "none" /\ ~stuck /\ Untroubled

PowerInv == TypeOK /\ Roles /\ Story /\ Clean /\ (PromptFaults => Undisturbed /\ Final)

-----------------------------------------------------------------------------

USE DEF Stopping, TurningOn, TurningOff, Retuning, Watching, Returning, Resting, Labels,
        Inside, Starting, Early, Late

LEMMA Members == Boot \in Tasks /\ Monitor \in Tasks /\ Users \subseteq Tasks
                 /\ Boot # Monitor /\ Boot \notin Users /\ Monitor \notin Users
                 /\ Free \notin Tasks
BY PowerAssumption DEF Tasks

LEMMA Moves ==
  ASSUME TypeOK, NEW t \in Tasks, NEW label \in Labels, Goto(t, label)
  PROVE  /\ pc' \in [Tasks -> Labels] /\ pc'[t] = label
         /\ \A u \in Tasks \ {t} : pc'[u] = pc[u]
BY DEF TypeOK, Goto

LEMMA PowerInit == Init => PowerInv
<1> SUFFICES ASSUME Init PROVE PowerInv OBVIOUS
<1>1. TypeOK
  <2>1. {enabled, inited, ready, watching, released, out, stuck, grace, bad} \subseteq BOOLEAN
    BY DEF Init
  <2>2. pc \in [Tasks -> Labels] BY DEF Init
  <2>3. \A t \in Tasks : pc[t] \notin Inside BY DEF Init
  <2>4. ops \in 0 .. MaxOps /\ faults \in 0 .. MaxFaults
    BY PowerAssumption DEF Init
  <2> QED BY <2>1, <2>2, <2>3, <2>4 DEF Init, TypeOK
<1>2. Roles BY Members DEF Init, Roles, Faulted
<1>3. Story BY Members DEF Init, Story, Steady, OffIfSure, Faulted
<1>4. Clean BY Members DEF Init, Clean, Untroubled, Sound, Faulted
<1>5. Undisturbed /\ Final
  BY Members DEF Init, Undisturbed, Final, SomeAt, Faulted
<1> QED BY <1>1, <1>2, <1>3, <1>4, <1>5 DEF PowerInv

-----------------------------------------------------------------------------
(* Types, the lock, and who may be where.                                   *)

Values ==
    /\ {enabled, inited, ready, watching, released, out, stuck, grace, bad} \subseteq BOOLEAN
    /\ fault \in {"none", "board", "init", "stop"}
    /\ critical \in {"none", "regulator", "chip"}
    /\ ops \in 0 .. MaxOps /\ faults \in 0 .. MaxFaults

LEMMA ValuesNext == ASSUME TypeOK, Next PROVE Values'
<1> USE DEF TypeOK, Values
<1>0. ASSUME Fails PROVE faults' \in 0 .. MaxFaults
  BY <1>0, PowerAssumption DEF Fails
<1>1. ASSUME NEW t \in Tasks, TakeLock(t) \/ GiveLock(t) \/ StopStep(t)
      PROVE  Values'
  BY <1>0, <1>1 DEF TakeLock, GiveLock, StopStep, StopFault, StopUninit, StopDisable,
     StopReset, StopOff, OutputOff, flagVars, pinVars, envVars
<1>2. ASSUME NEW t \in Tasks, OnStep(t) PROVE Values'
  BY <1>0, <1>2 DEF OnStep, OnCheck, OnHold, OnFan, StartInit, StartVout, StartEnable,
     Settles, StartWatch, StartLow, StartHigh, StartDetect, StartInited,
     flagVars, pinVars, envVars
<1>3. ASSUME NEW t \in Tasks, OffStep(t) \/ TuneStep(t) PROVE Values'
  BY <1>0, <1>3 DEF OffStep, OffDisable, OffUninit, OffReset, OffVout, OutputOff,
     TuneStep, TuneCheck, TuneCommand, Settles, flagVars, pinVars, envVars
<1>4. CASE MonStep
  BY <1>0, <1>4 DEF MonStep, MonWake, MonCapture, MonLost, MonRecheck, MonChip, MonCycled,
     MonGuard, MonTemp, MonTune, Refused, flagVars, pinVars, envVars
<1>5. ASSUME NEW u \in Users, Request(u) PROVE Values'
  BY <1>5, PowerAssumption DEF Request, flagVars, pinVars, envVars
<1>6. CASE BootLatch \/ CriticalBegins \/ CriticalEnds \/ GraceEnds
  BY <1>0, <1>6 DEF BootLatch, CriticalBegins, CriticalEnds, GraceEnds, Faulted, flagVars,
     pinVars, envVars
<1> QED BY <1>1, <1>2, <1>3, <1>4, <1>5, <1>6 DEF Next, TaskStep

\* A step of the task that holds the lock, inside its transition.
HolderStep(t) ==
    /\ lock = t /\ lock' = lock /\ UNCHANGED <<watching, fault>>
    /\ pc[t] \in Inside \ Returning
    /\ \E label \in Inside \cup Stopping :
          /\ Goto(t, label) /\ label # "s.uninit"
          /\ pc[t] \in Starting => label \in Starting \cup Stopping \cup {"done", "failed"}

LEMMA Holders ==
  ASSUME TypeOK, NEW t \in Tasks, OnStep(t) \/ OffStep(t) \/ TuneStep(t), ~StartWatch(t)
  PROVE  HolderStep(t)
<1> USE DEF TypeOK, HolderStep, flagVars
<1>1. CASE OnCheck(t) \/ OnHold(t) \/ OnFan(t)
  BY <1>1 DEF OnCheck, OnHold, OnFan
<1>2. CASE StartInit(t) \/ StartVout(t) \/ StartEnable(t) \/ StartInited(t)
  BY <1>2 DEF StartInit, StartVout, StartEnable, StartInited
<1>3. CASE Settles(t, "st.wait", "st.watch") \/ Settles(t, "v.wait", "done")
  BY <1>3 DEF Settles
<1>4. CASE StartLow(t) \/ StartHigh(t) \/ StartDetect(t)
  BY <1>4 DEF StartLow, StartHigh, StartDetect
<1>5. CASE OffStep(t)
  BY <1>5 DEF OffStep, OffDisable, OffUninit, OffReset, OffVout
<1>6. CASE TuneCheck(t) \/ TuneCommand(t)
  BY <1>6 DEF TuneCheck, TuneCommand
<1> QED BY <1>1, <1>2, <1>3, <1>4, <1>5, <1>6 DEF OnStep, TuneStep

LockTypes ==
    /\ lock \in Tasks \cup {Free} /\ pc \in [Tasks -> Labels]
    /\ \A t \in Tasks : pc[t] \in Inside => lock = t

LEMMA TypeParts == TypeOK <=> Values /\ LockTypes
BY DEF TypeOK, Values, LockTypes

LEMMA RolesHolder ==
  ASSUME TypeOK, Roles, NEW t \in Tasks, HolderStep(t)
  PROVE  LockTypes' /\ Roles'
<1>1. PICK label \in Inside \cup Stopping :
        /\ Goto(t, label)
        /\ pc[t] \in Starting => label \in Starting \cup Stopping \cup {"done", "failed"}
  BY DEF HolderStep
<1>2. /\ pc' \in [Tasks -> Labels] /\ pc'[t] = label
      /\ \A u \in Tasks \ {t} : pc'[u] = pc[u]
  BY <1>1, Moves
<1>3. lock = t /\ lock' = t /\ UNCHANGED <<watching, fault>> /\ pc[t] \in Inside \ Returning
  BY DEF HolderStep
<1>4. LockTypes' BY <1>2, <1>3 DEF LockTypes, TypeOK
<1>5. t = Boot => pc[t] \in Starting BY <1>3 DEF Roles
<1>6. pc[Boot] # "start" BY <1>3, Members DEF Roles
<1>7. Roles' BY <1>1, <1>2, <1>3, <1>5, <1>6, Members DEF Roles
<1> QED BY <1>4, <1>7

LEMMA RolesStop ==
  ASSUME TypeOK, Roles, NEW t \in Tasks, StopStep(t)
  PROVE  LockTypes' /\ Roles'
<1>1. /\ pc[t] \in Stopping /\ lock' = lock /\ UNCHANGED watching
      /\ \E label \in Stopping \cup {"failed", "m.sleep"} :
            /\ Goto(t, label)
            /\ label = "failed" => lock = t
            /\ label = "m.sleep" => lock # t
  BY DEF StopStep, StopFault, StopUninit, StopDisable, StopReset, StopOff, flagVars
<1>2. PICK label \in Stopping \cup {"failed", "m.sleep"} :
            /\ Goto(t, label)
            /\ label = "failed" => lock = t
            /\ label = "m.sleep" => lock # t
  BY <1>1
<1>3. /\ pc' \in [Tasks -> Labels] /\ pc'[t] = label
      /\ \A u \in Tasks \ {t} : pc'[u] = pc[u]
  BY <1>2, Moves
<1>4. LockTypes' BY <1>1, <1>2, <1>3 DEF LockTypes, TypeOK
<1>5. (lock = t \/ t = Monitor) /\ lock \in Tasks \cup {Free} BY <1>1 DEF Roles, TypeOK
<1>6. pc[Boot] # "start" BY <1>1, <1>5, Members DEF Roles
<1>7. Roles' BY <1>1, <1>2, <1>3, <1>5, <1>6, Members DEF Roles
<1> QED BY <1>4, <1>7

LEMMA RolesWatch ==
  ASSUME TypeOK, Roles, NEW t \in Tasks, StartWatch(t)
  PROVE  LockTypes' /\ Roles'
<1>1. pc[t] = "st.watch" /\ lock = t /\ lock' = t /\ fault' = fault
  BY DEF StartWatch, TypeOK
<1>2. pc[Boot] # "start" BY <1>1, Members DEF Roles
<1>3. CASE watching' = TRUE /\ pc' = [pc EXCEPT ![t] = "st.low",
                              ![Monitor] = IF watching THEN @ ELSE "m.sleep"]
  <2>1. /\ pc' \in [Tasks -> Labels] /\ pc'[t] = "st.low"
        /\ pc'[Monitor] = IF watching THEN IF t = Monitor THEN "st.low" ELSE pc[Monitor]
                          ELSE "m.sleep"
        /\ \A u \in Tasks \ {t, Monitor} : pc'[u] = pc[u]
        /\ pc[Monitor] # "idle" => watching
    BY <1>1, <1>3, Members DEF TypeOK, Roles
  <2>2. LockTypes' BY <1>1, <2>1, Members DEF LockTypes, TypeOK
  <2>3. Roles' BY <1>1, <1>2, <1>3, <2>1, Members DEF Roles
  <2> QED BY <2>2, <2>3
<1>4. CASE ~watching /\ Goto(t, "s.disable") /\ UNCHANGED watching
  <2>1. /\ pc' \in [Tasks -> Labels] /\ pc'[t] = "s.disable"
        /\ \A u \in Tasks \ {t} : pc'[u] = pc[u]
    BY <1>4, Moves
  <2>2. LockTypes' BY <1>1, <2>1 DEF LockTypes, TypeOK
  <2>3. Roles' BY <1>1, <1>2, <1>4, <2>1, Members DEF Roles
  <2> QED BY <2>2, <2>3
<1> QED BY <1>3, <1>4 DEF StartWatch

LEMMA RolesLock ==
  ASSUME TypeOK, Roles, NEW t \in Tasks, TakeLock(t) \/ GiveLock(t)
  PROVE  LockTypes' /\ Roles'
<1>1. CASE TakeLock(t)
  <2>1. PICK label \in {"st.init", "on.check", "off.disable", "v.check"} :
          /\ Goto(t, label)
          /\ pc[t] \in {"start", "on.lock", "off.lock", "v.lock"}
          /\ label = "st.init" <=> pc[t] = "start"
    BY <1>1 DEF TakeLock
  <2>2. lock = Free /\ lock' = t /\ UNCHANGED <<watching, fault>>
    BY <1>1 DEF TakeLock, flagVars
  <2>3. /\ pc' \in [Tasks -> Labels] /\ pc'[t] = label
        /\ \A u \in Tasks \ {t} : pc'[u] = pc[u]
    BY <2>1, Moves
  <2>4. \A u \in Tasks : pc[u] \notin Inside BY <2>2, Members DEF TypeOK
  <2>5. \A u \in Tasks \ {t} : pc[u] \in Stopping => u = Monitor
    BY <2>2, Members DEF Roles
  <2>6. LockTypes' BY <2>2, <2>3, <2>4 DEF LockTypes
  <2>7. t = Boot <=> pc[t] = "start" BY <2>1, <2>2, Members DEF Roles
  <2>8. pc'[Boot] # "start" BY <2>1, <2>3, <2>7, Members DEF Roles
  <2>9. Roles' BY <2>1, <2>2, <2>3, <2>5, <2>7, <2>8, Members DEF Roles
  <2> QED BY <2>6, <2>9
<1>2. CASE GiveLock(t)
  <2>1. lock = t /\ lock' = Free /\ UNCHANGED <<watching, fault>> /\ pc[t] \in Returning
    BY <1>2 DEF GiveLock, TypeOK, flagVars
  <2> DEFINE label == Continuation(t, pc[t])
  <2>2. /\ t \in Users => label = "idle"
        /\ t = Boot => label \in {"latch", "over"}
        /\ t = Monitor => label \in {"m.cycled", "m.sleep"}
        /\ t \in Users \/ t = Boot \/ t = Monitor
        /\ Goto(t, label)
    BY <1>2, Members DEF Continuation, Tasks, GiveLock
  <2> HIDE DEF label
  <2>3. /\ pc' \in [Tasks -> Labels] /\ pc'[t] = label
        /\ \A u \in Tasks \ {t} : pc'[u] = pc[u]
    BY <2>2, Moves
  <2>4. LockTypes' BY <2>1, <2>2, <2>3 DEF LockTypes, TypeOK
  <2>5. pc'[Boot] # "start" BY <2>1, <2>2, <2>3, Members DEF Roles
  <2>6. Roles' BY <2>1, <2>2, <2>3, <2>5, Members DEF Roles
  <2> QED BY <2>4, <2>6
<1> QED BY <1>1, <1>2

\* A step of the monitor between transitions.
MonitorStep ==
    /\ pc[Monitor] \in Watching /\ UNCHANGED <<watching, fault>>
    /\ \/ /\ lock' = lock
          /\ \E label \in Watching \cup {"off.lock", "on.lock", "v.lock", "s.fault"} :
                Goto(Monitor, label)
       \/ lock = Free /\ lock' = Monitor /\ Goto(Monitor, "v.check")

LEMMA MonitorMoves == MonStep => MonitorStep
BY DEF MonitorStep, MonStep, MonWake, MonCapture, MonLost, MonRecheck, MonChip, MonCycled,
       MonGuard, MonTemp, MonTune, MonitorGoto, flagVars

LEMMA RolesMonitor ==
  ASSUME TypeOK, Roles, MonitorStep
  PROVE  LockTypes' /\ Roles'
<1>1. lock # Monitor /\ lock \in Tasks \cup {Free} BY Members DEF MonitorStep, Roles, TypeOK
<1>2. watching = TRUE /\ watching' = TRUE BY DEF MonitorStep, Roles, TypeOK
<1>3. pc[Boot] # "start" BY <1>2 DEF Roles, TypeOK
<1>4. PICK label \in Watching \cup {"off.lock", "on.lock", "v.lock", "s.fault", "v.check"} :
        Goto(Monitor, label) /\ (label = "v.check" <=> lock' = Monitor)
  BY <1>1, Members DEF MonitorStep
<1>5. /\ pc' \in [Tasks -> Labels] /\ pc'[Monitor] = label
      /\ \A u \in Tasks \ {Monitor} : pc'[u] = pc[u]
  BY <1>4, Moves, Members
<1>6. LockTypes' BY <1>1, <1>4, <1>5, Members DEF LockTypes, TypeOK, MonitorStep
<1>7. Roles' BY <1>1, <1>2, <1>3, <1>4, <1>5, Members DEF Roles, MonitorStep
<1> QED BY <1>6, <1>7

LEMMA RolesOther ==
  ASSUME TypeOK, Roles,
         \/ \E u \in Users : Request(u)
         \/ BootLatch \/ CriticalBegins \/ CriticalEnds \/ GraceEnds
  PROVE  LockTypes' /\ Roles'
<1>1. ASSUME NEW u \in Users, Request(u) PROVE LockTypes' /\ Roles'
  <2>1. PICK label \in {"on.lock", "off.lock", "v.lock"} : Goto(u, label)
    BY <1>1 DEF Request
  <2>2. /\ pc' \in [Tasks -> Labels] /\ pc'[u] = label
        /\ \A v \in Tasks \ {u} : pc'[v] = pc[v]
    BY <2>1, Moves, Members
  <2>3. pc[u] = "idle" /\ pc[Boot] # "start" /\ UNCHANGED <<lock, watching, fault>>
    BY <1>1 DEF Request, flagVars
  <2>4. LockTypes' BY <2>2, <2>3 DEF LockTypes, TypeOK
  <2>5. lock # u /\ lock \in Tasks \cup {Free} BY <2>3, Members DEF Roles, TypeOK
  <2>6. Roles' BY <2>1, <2>2, <2>3, <2>5, Members DEF Roles
  <2> QED BY <2>4, <2>6
<1>2. CASE BootLatch
  <2>1. /\ pc' \in [Tasks -> Labels] /\ pc'[Boot] = "over"
        /\ \A v \in Tasks \ {Boot} : pc'[v] = pc[v]
    BY <1>2, Moves, Members DEF BootLatch
  <2>2. pc[Boot] = "latch" /\ UNCHANGED <<lock, watching>> BY <1>2 DEF BootLatch
  <2>3. LockTypes' BY <2>1, <2>2 DEF LockTypes, TypeOK
  <2>4. lock # Boot /\ lock \in Tasks \cup {Free} BY <2>2, Members DEF Roles, TypeOK
  <2>5. Roles' BY <2>1, <2>2, <2>4, Members DEF Roles
  <2> QED BY <2>3, <2>5
<1>3. CASE CriticalBegins \/ CriticalEnds \/ GraceEnds
  <2>1. UNCHANGED <<lock, watching, fault, pc, enabled>>
    BY <1>3 DEF CriticalBegins, CriticalEnds, GraceEnds, flagVars
  <2> QED BY <2>1 DEF LockTypes, TypeOK, Roles
<1> QED BY <1>1, <1>2, <1>3

LEMMA RolesNext == ASSUME TypeOK, Roles, Next PROVE TypeOK' /\ Roles'
<1>1. LockTypes' /\ Roles'
  <2>1. ASSUME NEW t \in Tasks, TaskStep(t) PROVE LockTypes' /\ Roles'
    BY <2>1, Holders, RolesHolder, RolesStop, RolesWatch, RolesLock DEF TaskStep
  <2>2. CASE MonStep BY <2>2, MonitorMoves, RolesMonitor
  <2> QED BY <2>1, <2>2, RolesOther DEF Next
<1>2. Values' BY ValuesNext
<1>3. TypeOK' BY <1>1, <1>2 DEF TypeOK, Values, LockTypes
<1> QED BY <1>1, <1>3

-----------------------------------------------------------------------------
(* The story the flags tell while no stop has run.                          *)

LEMMA StoryHolder ==
  ASSUME TypeOK, Roles, Story, NEW t \in Tasks, HolderStep(t),
         NEW label \in Inside \cup Stopping, Goto(t, label),
         Sound => (enabled' => ready' /\ out') /\ AtStage(label)'
  PROVE  Story'
<1>1. /\ pc' \in [Tasks -> Labels] /\ pc'[t] = label
      /\ \A u \in Tasks \ {t} : pc'[u] = pc[u]
  BY Moves
<1>2. lock = t /\ lock' = t /\ fault' = fault /\ label # "s.uninit"
  <2>1. lock = t /\ lock' = t /\ fault' = fault BY DEF HolderStep
  <2>2. PICK other : Goto(t, other) /\ other # "s.uninit" BY DEF HolderStep
  <2> QED BY <1>1, <2>1, <2>2 DEF Goto, TypeOK
<1>3. Sound' <=> Sound BY <1>2 DEF Sound
<1>4. t # Free BY Members
<1>5. ASSUME Sound, NEW u \in Tasks
      PROVE  pc'[u] # "s.uninit" /\ (pc'[u] \in Stopping \ {"s.fault"} => u = t)
  BY <1>1, <1>2, <1>5 DEF Story
<1>6. AtStage(label)' <=> AtStage(pc[t])' BY <1>1
<1> QED BY <1>1, <1>2, <1>3, <1>4, <1>5, <1>6 DEF Story

LEMMA StoryHolders ==
  ASSUME TypeOK, Roles, Story, NEW t \in Tasks, OnStep(t) \/ OffStep(t) \/ TuneStep(t),
         ~StartWatch(t)
  PROVE  Story'
<1>1. HolderStep(t) BY Holders
<1>2. lock = t BY <1>1 DEF HolderStep
<1>3. PICK label \in Inside \cup Stopping : Goto(t, label) BY <1>1 DEF HolderStep
<1>4. pc'[t] = label BY <1>3, Moves
<1>5. SUFFICES ASSUME Sound PROVE (enabled' => ready' /\ out') /\ AtStage(label)'
  BY <1>1, <1>3, StoryHolder
<1>6. (enabled => ready /\ out) /\ AtStage(pc[t]) BY <1>2, <1>5 DEF Story
<1>0. /\ pc \in [Tasks -> Labels] /\ enabled \in BOOLEAN /\ inited \in BOOLEAN
      /\ ready \in BOOLEAN /\ released \in BOOLEAN /\ out \in BOOLEAN /\ stuck \in BOOLEAN
  BY DEF TypeOK
<1> USE DEF AtStage, Steady, Down, OffIfSure, flagVars, pinVars
<1>7. CASE OnCheck(t) \/ OnHold(t) \/ OnFan(t)
  BY <1>0, <1>4, <1>5, <1>6, <1>7 DEF Goto, OnCheck, OnHold, OnFan, Sound, Faulted
<1>8. CASE StartInit(t)
  <2>1. /\ pc[t] = "st.init" /\ label \in {"st.vout", "s.disable", "failed"}
        /\ label = "st.vout" => ready' = TRUE
        /\ label = "failed" => UNCHANGED <<out, ready>>
    BY <1>0, <1>4, <1>8 DEF Goto, StartInit
  <2>2. UNCHANGED <<enabled, inited, released, stuck>> BY <1>8 DEF StartInit
  <2> QED BY <1>0, <1>6, <2>1, <2>2
<1>9. CASE StartVout(t)
  <2>1. pc[t] = "st.vout" /\ label \in {"st.enable", "s.disable"}
        /\ (label = "st.enable" => out' = TRUE)
    BY <1>0, <1>4, <1>9 DEF Goto, StartVout
  <2>2. UNCHANGED <<enabled, inited, ready, released>> BY <1>9 DEF StartVout
  <2> QED BY <1>0, <1>6, <2>1, <2>2
<1>10. CASE StartEnable(t) BY <1>0, <1>4, <1>6, <1>10 DEF Goto, StartEnable
<1>11. CASE Settles(t, "st.wait", "st.watch") \/ Settles(t, "v.wait", "done")
  BY <1>0, <1>4, <1>6, <1>11 DEF Goto, Settles
<1>12. CASE StartLow(t) \/ StartHigh(t) BY <1>0, <1>4, <1>6, <1>12 DEF Goto, StartLow, StartHigh
<1>13. CASE StartDetect(t) BY <1>0, <1>4, <1>6, <1>13 DEF Goto, StartDetect
<1>14. CASE StartInited(t) BY <1>0, <1>4, <1>6, <1>14 DEF Goto, StartInited
<1>15. CASE OffDisable(t) \/ OffUninit(t) \/ OffReset(t)
  BY <1>0, <1>4, <1>6, <1>15 DEF Goto, OffDisable, OffUninit, OffReset
<1>16. CASE OffVout(t) BY <1>0, <1>4, <1>6, <1>16 DEF Goto, OffVout, OutputOff
<1>17. CASE TuneCheck(t) BY <1>0, <1>4, <1>6, <1>17 DEF Goto, TuneCheck
<1>18. CASE TuneCommand(t)
  <2>1. pc[t] = "v.command" /\ label \in {"v.wait", "failed"} /\ out' \in {out, TRUE}
    BY <1>0, <1>4, <1>18 DEF Goto, TuneCommand
  <2>2. UNCHANGED <<enabled, inited, ready, released, stuck>> BY <1>18 DEF TuneCommand
  <2>3. out = TRUE /\ out' = TRUE BY <1>0, <1>6, <2>1
  <2> QED BY <1>0, <1>6, <2>1, <2>2, <2>3
<1> QED BY <1>7, <1>8, <1>9, <1>10, <1>11, <1>12, <1>13, <1>14, <1>15, <1>16, <1>17,
       <1>18 DEF OnStep, OffStep, TuneStep

LEMMA StoryStop ==
  ASSUME TypeOK, Roles, Story, NEW t \in Tasks, StopStep(t)
  PROVE  Story'
<1>0. /\ pc \in [Tasks -> Labels] /\ enabled \in BOOLEAN /\ inited \in BOOLEAN
      /\ ready \in BOOLEAN /\ released \in BOOLEAN /\ out \in BOOLEAN /\ stuck \in BOOLEAN
  BY DEF TypeOK
<1>1. SUFFICES ASSUME Sound, Sound' PROVE Story'
  BY DEF Story, StopStep, StopFault, StopUninit, StopDisable, StopReset, StopOff, Sound,
         flagVars
<1>2. pc[t] \in {"s.disable", "s.reset", "s.off"}
  BY <1>1 DEF StopStep, StopFault, StopUninit, StopDisable, StopReset, StopOff, Sound, Story
<1>3. lock = t BY <1>1, <1>2 DEF Story
<1>4. AtStage(pc[t]) /\ (enabled => ready /\ out) BY <1>1, <1>3 DEF Story
<1>5. PICK label \in {"s.reset", "s.off", "failed"} : Goto(t, label) /\ lock' = t
  BY <1>2, <1>3 DEF StopStep, StopFault, StopUninit, StopDisable, StopReset, StopOff
<1>6. /\ pc'[t] = label
      /\ \A u \in Tasks \ {t} : pc'[u] = pc[u]
  BY <1>5, Moves
<1>7. (enabled' => ready' /\ out') /\ AtStage(label)'
  <2> USE DEF AtStage, Steady, OffIfSure, flagVars, pinVars
  <2>1. CASE StopDisable(t) BY <1>0, <1>4, <1>6, <2>1 DEF StopDisable, Goto
  <2>2. CASE StopReset(t) BY <1>0, <1>4, <1>6, <2>2 DEF StopReset, Goto
  <2>3. CASE StopOff(t)
    <3>1. pc[t] = "s.off" /\ label = "failed" BY <1>0, <1>3, <1>6, <2>3 DEF StopOff, Goto
    <3>2. UNCHANGED <<enabled, inited, ready, released>> BY <2>3 DEF StopOff
    <3>3. ready' /\ ~stuck' => ~out' BY <1>0, <2>3 DEF StopOff, OutputOff
    <3> QED BY <1>0, <1>4, <3>1, <3>2, <3>3
  <2> QED BY <1>2, <2>1, <2>2, <2>3 DEF StopStep, StopFault, StopUninit
<1>8. t # Free BY Members
<1>9. AtStage(label)' <=> AtStage(pc[t])' BY <1>6
<1>10. \A u \in Tasks : pc'[u] # "s.uninit" /\ (pc'[u] \in Stopping \ {"s.fault"} => u = t)
  BY <1>1, <1>3, <1>5, <1>6 DEF Story
<1> QED BY <1>1, <1>5, <1>6, <1>7, <1>8, <1>9, <1>10 DEF Story

LEMMA StoryWatch ==
  ASSUME TypeOK, Roles, Story, NEW t \in Tasks, StartWatch(t)
  PROVE  Story'
<1>1. pc[t] = "st.watch" /\ lock = t /\ lock' = t /\ fault' = fault
  BY DEF StartWatch, TypeOK
<1>2. SUFFICES ASSUME Sound PROVE Story' BY <1>1 DEF Story, Sound
<1>3. AtStage(pc[t]) /\ (enabled => ready /\ out) BY <1>1, <1>2 DEF Story
<1>4. UNCHANGED <<enabled, inited, ready, released, out>>
  BY DEF StartWatch, pinVars
<1>5. /\ pc'[t] \in {"st.low", "s.disable"}
      /\ \A u \in Tasks \ {t} : pc'[u] \in {pc[u], "m.sleep"}
  <2>1. CASE pc' = [pc EXCEPT ![t] = "st.low",
                              ![Monitor] = IF watching THEN @ ELSE "m.sleep"]
    <3>1. t = Monitor => watching = TRUE BY <1>1, <2>1 DEF Roles, TypeOK
    <3> QED BY <2>1, <3>1, Members DEF TypeOK
  <2>2. CASE Goto(t, "s.disable") BY <2>2, Moves
  <2> QED BY <2>1, <2>2 DEF StartWatch
<1>6. AtStage(pc[t])'
  <2>1. PICK label \in {"st.low", "s.disable"} : pc'[t] = label BY <1>5
  <2>2. AtStage(label)' BY <1>1, <1>3, <1>4, <2>1 DEF AtStage
  <2> QED BY <2>1, <2>2
<1>7. enabled' => ready' /\ out' BY <1>3, <1>4
<1>8. \A u \in Tasks : pc'[u] # "s.uninit" /\ (pc'[u] \in Stopping \ {"s.fault"} => u = t)
  BY <1>1, <1>2, <1>5 DEF Story
<1>9. t # Free BY Members
<1> QED BY <1>1, <1>6, <1>7, <1>8, <1>9 DEF Story

LEMMA StoryLock ==
  ASSUME TypeOK, Roles, Story, NEW t \in Tasks, TakeLock(t) \/ GiveLock(t)
  PROVE  Story'
<1>1. UNCHANGED <<fault, enabled, inited, ready, released, out, stuck>>
  BY DEF TakeLock, GiveLock, flagVars, pinVars
<1>2. SUFFICES ASSUME Sound PROVE Story' BY <1>1 DEF Story, Sound
<1>3. CASE TakeLock(t)
  <2>1. PICK label \in {"st.init", "on.check", "off.disable", "v.check"} :
          /\ Goto(t, label)
          /\ label = "st.init" <=> pc[t] = "start"
    BY <1>3 DEF TakeLock
  <2>2. lock = Free /\ lock' = t BY <1>3 DEF TakeLock
  <2>3. /\ pc'[t] = label
        /\ \A u \in Tasks \ {t} : pc'[u] = pc[u]
    BY <2>1, Moves
  <2>4. Steady /\ (enabled => ready /\ out) BY <1>2, <2>2 DEF Story
  <2>5. label = "st.init" => ~enabled
    <3>1. label = "st.init" => pc[Boot] = "start" BY <2>1 DEF Roles
    <3> QED BY <3>1 DEF Roles
  <2>6. AtStage(label)'
    BY <1>1, <2>1, <2>4, <2>5 DEF AtStage, Steady, OffIfSure, Down
  <2>7. AtStage(label)' <=> AtStage(pc[t])' BY <2>3
  <2>8. \A u \in Tasks : pc'[u] # "s.uninit" /\ ~(pc'[u] \in Stopping \ {"s.fault"})
    BY <1>2, <2>1, <2>2, <2>3, Members DEF Story
  <2> QED BY <1>1, <2>2, <2>4, <2>6, <2>7, <2>8, Members DEF Story
<1>4. CASE GiveLock(t)
  <2>1. pc[t] \in Returning /\ lock = t /\ lock' = Free BY <1>4 DEF GiveLock, TypeOK
  <2>2. Steady /\ (enabled => ready /\ out) BY <1>2, <2>1 DEF Story, AtStage
  <2>3. PICK label \in {"idle", "latch", "over", "m.cycled", "m.sleep"} : Goto(t, label)
    BY <1>4, Members DEF GiveLock, Continuation, Tasks
  <2>4. /\ pc'[t] = label
        /\ \A u \in Tasks \ {t} : pc'[u] = pc[u]
    BY <2>3, Moves
  <2>5. \A u \in Tasks : pc'[u] # "s.uninit" /\ ~(pc'[u] \in Stopping \ {"s.fault"})
    BY <1>2, <2>1, <2>3, <2>4 DEF Story
  <2>6. Steady' BY <1>1, <2>2 DEF Steady, OffIfSure
  <2>7. \A u \in Tasks : lock' # u BY <2>1, Members
  <2>8. enabled' => ready' /\ out' BY <1>1, <2>2
  <2> QED BY <2>5, <2>6, <2>7, <2>8 DEF Story
<1> QED BY <1>3, <1>4

LEMMA StoryMonitor ==
  ASSUME TypeOK, Roles, Story, MonStep
  PROVE  Story'
<1>1. UNCHANGED <<fault, enabled, inited, ready, released, out, stuck>>
  BY DEF MonStep, MonWake, MonCapture, MonLost, MonRecheck, MonChip, MonCycled,
     MonGuard, MonTemp, MonTune, MonitorGoto, flagVars, pinVars
<1>2. SUFFICES ASSUME Sound PROVE Story' BY <1>1 DEF Story, Sound
<1>3. MonitorStep BY MonitorMoves
<1>4. pc[Monitor] \in Watching /\ lock # Monitor /\ lock \in Tasks \cup {Free}
  BY <1>3, Members DEF MonitorStep, Roles, TypeOK
<1>5. PICK label \in Watching \cup {"off.lock", "on.lock", "v.lock", "s.fault", "v.check"} :
        /\ Goto(Monitor, label)
        /\ \/ lock' = lock
           \/ label = "v.check" /\ lock = Free /\ lock' = Monitor
  BY <1>3 DEF MonitorStep
<1>6. /\ pc'[Monitor] = label
      /\ \A u \in Tasks \ {Monitor} : pc'[u] = pc[u]
  BY <1>5, Moves, Members
<1>7. \A u \in Tasks : pc'[u] # "s.uninit" /\ (pc'[u] \in Stopping \ {"s.fault"} => lock' = u)
  BY <1>2, <1>4, <1>5, <1>6, Members DEF Story
<1>8. enabled' => ready' /\ out' BY <1>1, <1>2 DEF Story
<1>9. CASE lock' = lock
  <2>1. ASSUME lock = Free PROVE Steady'
    <3>1. Steady BY <1>2, <2>1 DEF Story
    <3> QED BY <1>1, <3>1 DEF Steady, OffIfSure
  <2>2. ASSUME NEW u \in Tasks, lock = u PROVE AtStage(pc[u])'
    <3>1. PICK stage : stage = pc[u] OBVIOUS
    <3>2. pc'[u] = stage BY <1>4, <1>6, <2>2, <3>1
    <3>3. AtStage(stage) BY <1>2, <2>2, <3>1 DEF Story
    <3>4. AtStage(stage)' BY <1>1, <3>3 DEF AtStage, Steady, Down, OffIfSure
    <3> QED BY <3>2, <3>4
  <2> QED BY <1>7, <1>8, <1>9, <2>1, <2>2 DEF Story
<1>10. CASE label = "v.check" /\ lock = Free /\ lock' = Monitor
  <2>1. Steady BY <1>2, <1>10 DEF Story
  <2>2. AtStage(label)' BY <1>1, <1>10, <2>1 DEF AtStage, Steady, OffIfSure
  <2>3. AtStage(pc[Monitor])' BY <1>6, <2>2
  <2> QED BY <1>7, <1>8, <1>10, <2>3, Members DEF Story
<1> QED BY <1>5, <1>9, <1>10

LEMMA StoryOther ==
  ASSUME TypeOK, Roles, Story,
         \/ \E u \in Users : Request(u)
         \/ BootLatch \/ CriticalBegins \/ CriticalEnds \/ GraceEnds
  PROVE  Story'
<1>1. CASE BootLatch
  <2>1. SUFFICES ASSUME Sound, Faulted PROVE Story'
    BY <1>1 DEF BootLatch, Sound, Story
  <2>2. UNCHANGED <<lock, fault, enabled, ready, released, out, stuck>> /\ inited' = inited
    BY <1>1, <2>1 DEF BootLatch, pinVars, TypeOK
  <2>3. /\ pc'[Boot] = "over" /\ pc[Boot] = "latch"
        /\ \A u \in Tasks \ {Boot} : pc'[u] = pc[u]
    BY <1>1, Moves, Members DEF BootLatch
  <2>4. lock # Boot BY <2>3, Members DEF Roles
  <2>5. \A u \in Tasks : pc'[u] # "s.uninit" /\ (pc'[u] \in Stopping \ {"s.fault"} => lock' = u)
    BY <2>1, <2>2, <2>3 DEF Story
  <2>6. ASSUME lock = Free PROVE Steady'
    <3>1. Steady BY <2>1, <2>6 DEF Story
    <3> QED BY <2>2, <3>1 DEF Steady, OffIfSure
  <2>7. ASSUME NEW u \in Tasks, lock = u PROVE AtStage(pc[u])'
    <3>1. PICK stage : stage = pc[u] OBVIOUS
    <3>2. pc'[u] = stage BY <2>3, <2>4, <2>7, <3>1
    <3>3. AtStage(stage) BY <2>1, <2>7, <3>1 DEF Story
    <3>4. AtStage(stage)' BY <2>2, <3>3 DEF AtStage, Steady, Down, OffIfSure
    <3> QED BY <3>2, <3>4
  <2>8. enabled' => ready' /\ out' BY <2>1, <2>2 DEF Story
  <2> QED BY <2>2, <2>5, <2>6, <2>7, <2>8 DEF Story
<1>2. CASE (\E u \in Users : Request(u)) \/ CriticalBegins \/ CriticalEnds \/ GraceEnds
  <2>1. UNCHANGED <<lock, fault, enabled, inited, ready, released, out, stuck>>
    BY <1>2 DEF Request, CriticalBegins, CriticalEnds, GraceEnds, flagVars, pinVars
  <2>2. SUFFICES ASSUME Sound PROVE Story' BY <2>1 DEF Story, Sound
  <2>3. \A u \in Tasks : \/ pc'[u] = pc[u]
                         \/ lock # u /\ pc'[u] \in {"on.lock", "off.lock", "v.lock"}
    <3>1. ASSUME NEW u \in Users, Request(u)
          PROVE  /\ lock # u /\ pc'[u] \in {"on.lock", "off.lock", "v.lock"}
                 /\ \A v \in Tasks \ {u} : pc'[v] = pc[v]
      <4>1. pc[u] = "idle" /\ lock # u BY <3>1, Members DEF Request, Roles
      <4> QED BY <3>1, <4>1, Members, Moves DEF Request
    <3>2. CASE UNCHANGED pc BY <3>2
    <3> QED BY <1>2, <3>1, <3>2 DEF CriticalBegins, CriticalEnds, GraceEnds
  <2>4. \A u \in Tasks : pc'[u] # "s.uninit" /\ (pc'[u] \in Stopping \ {"s.fault"} => lock' = u)
    BY <2>1, <2>2, <2>3 DEF Story
  <2>5. ASSUME lock = Free PROVE Steady'
    <3>1. Steady BY <2>2, <2>5 DEF Story
    <3> QED BY <2>1, <3>1 DEF Steady, OffIfSure
  <2>6. ASSUME NEW u \in Tasks, lock = u PROVE AtStage(pc[u])'
    <3>1. PICK stage : stage = pc[u] OBVIOUS
    <3>2. pc'[u] = stage BY <2>3, <2>6, <3>1
    <3>3. AtStage(stage) BY <2>2, <2>6, <3>1 DEF Story
    <3>4. AtStage(stage)' BY <2>1, <3>3 DEF AtStage, Steady, Down, OffIfSure
    <3> QED BY <3>2, <3>4
  <2>7. enabled' => ready' /\ out' BY <2>1, <2>2 DEF Story
  <2> QED BY <2>1, <2>4, <2>5, <2>6, <2>7 DEF Story
<1> QED BY <1>1, <1>2

LEMMA StoryNext == ASSUME TypeOK, Roles, Story, Next PROVE Story'
<1>1. ASSUME NEW t \in Tasks, TaskStep(t) PROVE Story'
  BY <1>1, StoryHolders, StoryStop, StoryWatch, StoryLock DEF TaskStep
<1> QED BY <1>1, StoryMonitor, StoryOther DEF Next

-----------------------------------------------------------------------------
(* Nothing stops without a cause.                                           *)

LEMMA NoFailure ==
  ASSUME TypeOK, Fails PROVE faults' # 0
BY PowerAssumption DEF TypeOK, Fails

LEMMA CleanHolders ==
  ASSUME TypeOK, Roles, Story, Clean, NEW t \in Tasks, OnStep(t) \/ OffStep(t) \/ TuneStep(t),
         faults' = 0, faults = 0
  PROVE  Untroubled' /\ fault' = fault /\ critical' = critical /\ ~stuck'
<1>0. /\ pc \in [Tasks -> Labels] /\ enabled \in BOOLEAN /\ ~stuck /\ critical = "none"
      /\ Sound /\ Untroubled /\ out \in BOOLEAN /\ released \in BOOLEAN
  BY DEF TypeOK, Clean
<1>1. lock = t /\ pc[t] \in Inside \ Returning
  BY Holders DEF StartWatch, TypeOK, HolderStep
<1>2. AtStage(pc[t]) /\ (enabled => ready /\ out) BY <1>0, <1>1 DEF Story
<1>3. ~Fails BY NoFailure
<1>4. t = Boot => pc[t] \in Starting BY <1>1 DEF Roles
<1>5. t = Monitor => pc[Monitor] \notin {"m.capture", "m.recheck"} BY <1>1
<1>6. CASE StartWatch(t)
  <2>1. /\ pc' = [pc EXCEPT ![t] = "st.low", ![Monitor] = IF watching THEN @ ELSE "m.sleep"]
        /\ UNCHANGED <<enabled, bad, fault, critical, stuck>>
    BY <1>3, <1>6 DEF StartWatch, pinVars
  <2>2. \A u \in Tasks : pc'[u] \in {pc[u], "st.low", "m.sleep"}
    BY <1>0, <2>1, Members
  <2>3. pc'[Monitor] \in {pc[Monitor], "st.low", "m.sleep"} BY <2>2, Members
  <2>4. pc'[Boot] \in {pc[Boot], "st.low", "m.sleep"} BY <2>2, Members
  <2> QED BY <1>0, <2>1, <2>2, <2>3, <2>4 DEF Untroubled
<1>7. CASE ~StartWatch(t)
  <2>1. PICK label \in Inside \cup Stopping : Goto(t, label) BY <1>7, Holders DEF HolderStep
  <2>2. pc'[t] = label /\ \A u \in Tasks \ {t} : pc'[u] = pc[u] BY <2>1, Moves
  <2>3. bad' = bad /\ fault' = fault /\ critical' = critical /\ ~stuck'
    <3>1. CASE OnStep(t)
      <4>1. UNCHANGED <<bad, fault, critical, stuck>>
        BY <1>7, <3>1
        DEF OnStep, OnCheck, OnHold, OnFan, StartInit, StartVout, StartEnable, Settles, StartLow,
            StartHigh, StartDetect, StartInited, flagVars, pinVars, envVars
      <4> QED BY <1>0, <4>1
    <3>2. CASE OffDisable(t) \/ OffUninit(t) \/ OffReset(t)
      BY <1>0, <3>2 DEF OffDisable, OffUninit, OffReset, flagVars, pinVars, envVars
    <3>3. CASE OffVout(t)
      <4>1. OutputOff /\ UNCHANGED <<bad, fault, critical>> BY <3>3 DEF OffVout, flagVars
      <4>2. ~stuck' BY <1>0, <1>3, <4>1 DEF OutputOff
      <4> QED BY <4>1, <4>2
    <3>4. CASE TuneStep(t)
      <4>1. UNCHANGED <<bad, fault, critical, stuck>>
        BY <3>4 DEF TuneStep, TuneCheck, TuneCommand, Settles, flagVars, pinVars, envVars
      <4> QED BY <1>0, <4>1
    <3> QED BY <3>1, <3>2, <3>3, <3>4 DEF OffStep
  <2>4. /\ label \notin Stopping
        /\ label = "failed" => pc[t] \notin Starting
        /\ label \in {"st.init", "st.vout", "st.enable"} =>
              pc[Monitor] \notin {"m.capture", "m.recheck"}
        /\ pc[Monitor] = "m.recheck" /\ enabled' => enabled
    <3> USE DEF Goto
    <3>1. CASE OnCheck(t) \/ OnHold(t)
      BY <1>0, <2>2, <3>1 DEF OnCheck, OnHold, flagVars
    <3>2. CASE OnFan(t)
      BY <1>0, <1>3, <2>2, <3>2, Members DEF OnFan, OffLongEnough, flagVars
    <3>3. CASE StartInit(t) \/ StartVout(t)
      BY <1>0, <1>3, <2>2, <3>3 DEF StartInit, StartVout, flagVars, Untroubled
    <3>4. CASE StartEnable(t) BY <1>0, <2>2, <3>4 DEF StartEnable, Untroubled
    <3>5. CASE Settles(t, "st.wait", "st.watch") \/ Settles(t, "v.wait", "done")
      <4>1. ~Refused BY <1>0, <1>2, <3>5 DEF Refused, AtStage, Settles
      <4> QED BY <1>0, <1>3, <2>2, <3>5, <4>1 DEF Settles, flagVars
    <3>6. CASE StartLow(t) \/ StartHigh(t) \/ StartInited(t)
      BY <1>0, <2>2, <3>6 DEF StartLow, StartHigh, StartInited, flagVars
    <3>7. CASE StartDetect(t)
      <4>1. Answers BY <1>0, <1>2, <3>7 DEF Answers, AtStage, StartDetect
      <4> QED BY <1>0, <1>3, <2>2, <3>7, <4>1 DEF StartDetect, flagVars
    <3>8. CASE OffStep(t)
      BY <1>0, <2>2, <3>8 DEF OffStep, OffDisable, OffUninit, OffReset, OffVout, flagVars
    <3>9. CASE TuneCheck(t)
      <4>1. pc[t] = "v.check" /\ label \in {"v.command", "done"} /\ enabled' = enabled
        BY <1>0, <2>2, <3>9 DEF TuneCheck, flagVars
      <4> QED BY <4>1
    <3>10. CASE TuneCommand(t)
      <4>1. pc[t] = "v.command" /\ label \in {"v.wait", "failed"} /\ enabled' = enabled
        BY <1>0, <2>2, <3>10 DEF TuneCommand, flagVars
      <4> QED BY <4>1
    <3> QED BY <3>10, <1>7, <3>1, <3>2, <3>3, <3>4, <3>5, <3>6, <3>7, <3>8, <3>9
            DEF OnStep, TuneStep
  <2>5. label # "m.lost" /\ label # "latch" BY <2>1
  <2>6. pc'[Monitor] \in {"m.capture", "m.recheck"} => pc'[Monitor] = pc[Monitor]
    BY <2>1, <2>2, Members
  <2>7. pc'[Boot] \notin {"failed", "latch"} BY <1>0, <1>4, <2>2, <2>4, <2>5, Members DEF Untroubled
  <2>8. \A u \in Tasks : pc'[u] \notin Stopping \cup {"m.lost"}
    BY <1>0, <2>2, <2>4, <2>5 DEF Untroubled
  <2>9. (pc[Monitor] = "m.recheck" /\ bad => ~enabled)'
    BY <1>0, <2>3, <2>4, <2>6 DEF Untroubled
  <2>10. \A u \in Tasks : pc'[u] \in {"st.init", "st.vout", "st.enable"}
            => pc'[Monitor] \notin {"m.capture", "m.recheck"}
    BY <1>0, <2>2, <2>4, <2>6 DEF Untroubled
  <2> QED BY <2>3, <2>7, <2>8, <2>9, <2>10 DEF Untroubled
<1> QED BY <1>6, <1>7

LEMMA FaultsGrow == ASSUME TypeOK, Next, faults' = 0 PROVE faults = 0 /\ ~Fails
<1>0. ~Fails BY NoFailure
<1>1. ASSUME NEW t \in Tasks, TakeLock(t) \/ GiveLock(t) \/ StopStep(t)
      PROVE  faults' = faults
  BY <1>0, <1>1 DEF TakeLock, GiveLock, StopStep, StopFault, StopUninit, StopDisable,
     StopReset, StopOff, OutputOff, envVars
<1>2. ASSUME NEW t \in Tasks, OnStep(t) PROVE faults' = faults
  BY <1>0, <1>2 DEF OnStep, OnCheck, OnHold, OnFan, StartInit, StartVout, StartEnable,
     Settles, StartWatch, StartLow, StartHigh, StartDetect, StartInited, envVars
<1>3. ASSUME NEW t \in Tasks, OffStep(t) \/ TuneStep(t) PROVE faults' = faults
  BY <1>0, <1>3 DEF OffStep, OffDisable, OffUninit, OffReset, OffVout, OutputOff,
     TuneStep, TuneCheck, TuneCommand, Settles, envVars
<1>4. ASSUME MonStep PROVE faults' = faults
  BY <1>0, <1>4 DEF MonStep, MonWake, MonCapture, MonLost, MonRecheck, MonChip, MonCycled,
     MonGuard, MonTemp, MonTune, envVars
<1>5. ASSUME NEW u \in Users, Request(u) PROVE faults' = faults
  BY <1>5 DEF Request, envVars
<1>6. CASE BootLatch \/ CriticalBegins \/ CriticalEnds \/ GraceEnds
  BY <1>0, <1>6 DEF BootLatch, CriticalBegins, CriticalEnds, GraceEnds, envVars
<1> QED BY <1>0, <1>1, <1>2, <1>3, <1>4, <1>5, <1>6 DEF Next, TaskStep

LEMMA CleanLock ==
  ASSUME TypeOK, Roles, Untroubled, NEW t \in Tasks, TakeLock(t) \/ GiveLock(t)
  PROVE  Untroubled'
<1>1. UNCHANGED <<enabled, bad>> BY DEF TakeLock, GiveLock, flagVars
<1>2. PICK label \in {"st.init", "on.check", "off.disable", "v.check",
                      "idle", "over", "m.cycled", "m.sleep"} :
        Goto(t, label) /\ (label = "st.init" => pc[t] = "start")
  <2>1. CASE TakeLock(t) BY <2>1 DEF TakeLock
  <2>2. CASE GiveLock(t)
    <3>1. t = Boot => pc[t] # "failed" BY DEF Untroubled
    <3>2. pc[t] \in Returning /\ Goto(t, Continuation(t, pc[t])) BY <2>2 DEF GiveLock
    <3>3. Continuation(t, pc[t]) \in {"idle", "over", "m.cycled", "m.sleep"}
      BY <3>1, Members DEF Continuation, Tasks
    <3> QED BY <3>2, <3>3
  <2> QED BY <2>1, <2>2
<1>3. /\ pc'[t] = label
      /\ \A u \in Tasks \ {t} : pc'[u] = pc[u]
  BY <1>2, Moves
<1>4. label = "st.init" => \A u \in Tasks \ {t} : pc[u] = "idle"
  BY <1>2, Members DEF Roles
<1>5. pc'[Monitor] \in {"m.capture", "m.recheck"} => pc'[Monitor] = pc[Monitor]
  BY <1>2, <1>3, Members
<1> QED BY <1>1, <1>2, <1>3, <1>4, <1>5, Members DEF Untroubled

LEMMA CleanMonitor ==
  ASSUME TypeOK, Roles, Story, Clean, MonStep, faults = 0, ~Fails
  PROVE  Untroubled'
<1>0. /\ pc \in [Tasks -> Labels] /\ Sound /\ Untroubled /\ enabled \in BOOLEAN
      /\ critical = "none" /\ out \in BOOLEAN
  BY DEF TypeOK, Clean
<1>1. enabled' = enabled
  BY DEF MonStep, MonWake, MonCapture, MonLost, MonRecheck, MonChip, MonCycled,
     MonGuard, MonTemp, MonTune, flagVars
<1>2. PICK label \in Watching \cup {"off.lock", "on.lock", "v.lock", "s.fault", "v.check"} :
        Goto(Monitor, label)
  BY MonitorMoves DEF MonitorStep
<1>3. /\ pc'[Monitor] = label
      /\ \A u \in Tasks \ {Monitor} : pc'[u] = pc[u]
  BY <1>2, Moves, Members
<1>4. enabled => out BY <1>0 DEF Story
<1>5. ASSUME NEW u \in Tasks, pc[u] \in {"st.init", "st.vout", "st.enable"} PROVE ~enabled
  <2>1. lock = u BY <1>5 DEF TypeOK
  <2>2. AtStage(pc[u]) BY <1>0, <2>1 DEF Story
  <2> QED BY <1>5, <2>2 DEF AtStage, Down
<1>6. /\ label \notin {"s.fault", "m.lost"}
      /\ label = "m.recheck" /\ bad' => ~enabled
      /\ label \in {"m.capture", "m.recheck"} =>
            enabled \/ pc[Monitor] \in {"m.capture", "m.recheck"}
  <2> USE DEF MonitorGoto, Goto
  <2>1. CASE MonWake
    <3>1. label = "m.capture" /\ enabled BY <1>0, <1>3, <2>1, Members DEF MonWake
    <3> QED BY <3>1
  <2>2. CASE MonCapture
    <3>1. label = "m.recheck" /\ bad' = Refused /\ pc[Monitor] = "m.capture"
      BY <1>0, <1>3, <2>2, Members DEF MonCapture
    <3> QED BY <1>0, <1>4, <3>1 DEF Refused
  <2>3. CASE MonLost
    <3>1. pc[Monitor] = "m.lost" BY <2>3 DEF MonLost
    <3> QED BY <1>0, <3>1, Members DEF Untroubled
  <2>4. CASE MonRecheck
    <3>1. pc[Monitor] = "m.recheck" BY <2>4 DEF MonRecheck
    <3>2. ~(enabled /\ bad) BY <1>0, <3>1 DEF Untroubled
    <3>3. label \in {"m.sleep", "m.chip"} BY <1>0, <1>3, <2>4, <3>2, Members DEF MonRecheck
    <3> QED BY <3>3
  <2>5. CASE MonChip \/ MonCycled \/ MonGuard
    <3>1. label \in {"m.sleep", "m.guard", "off.lock", "on.lock", "m.temp"}
      BY <1>0, <1>3, <2>5, Members DEF MonChip, MonCycled, MonGuard
    <3> QED BY <3>1
  <2>6. CASE MonTemp \/ MonTune
    <3>1. label \in {"m.tune", "m.sleep", "v.lock", "v.check"}
      BY <1>0, <1>3, <2>6, Members DEF MonTemp, MonTune
    <3> QED BY <3>1
  <2> QED BY <2>1, <2>2, <2>3, <2>4, <2>5, <2>6 DEF MonStep
<1>7. \A u \in Tasks : pc'[u] \notin Stopping \cup {"m.lost"}
  BY <1>0, <1>2, <1>3, <1>6 DEF Untroubled
<1>8. pc'[Boot] \notin {"failed", "latch"} BY <1>0, <1>3, Members DEF Untroubled
<1>9. (pc[Monitor] = "m.recheck" /\ bad => ~enabled)' BY <1>1, <1>3, <1>6
<1>10. \A u \in Tasks : pc'[u] \in {"st.init", "st.vout", "st.enable"}
          => pc'[Monitor] \notin {"m.capture", "m.recheck"}
  BY <1>0, <1>2, <1>3, <1>5, <1>6, Members DEF Untroubled
<1> QED BY <1>7, <1>8, <1>9, <1>10 DEF Untroubled

LEMMA CleanNext == ASSUME TypeOK, Roles, Story, Clean, Next PROVE Clean'
<1> SUFFICES ASSUME faults' = 0
    PROVE Untroubled' /\ Sound' /\ critical' = "none" /\ ~stuck'
  BY DEF Clean
<1>1. faults = 0 /\ ~Fails BY FaultsGrow
<1>2. Sound /\ Untroubled /\ critical = "none" /\ ~stuck BY <1>1 DEF Clean
<1>3. ASSUME NEW t \in Tasks, TaskStep(t)
      PROVE  Untroubled' /\ fault' = fault /\ critical' = critical /\ ~stuck'
  <2>1. CASE TakeLock(t) \/ GiveLock(t)
    <3>1. UNCHANGED <<fault, critical, stuck>>
      BY <2>1 DEF TakeLock, GiveLock, flagVars, pinVars, envVars
    <3> QED BY <1>2, <2>1, <3>1, CleanLock
  <2>2. CASE StopStep(t)
    <3>1. pc[t] \in Stopping
      BY <2>2 DEF StopStep, StopFault, StopUninit, StopDisable, StopReset, StopOff
    <3> QED BY <1>2, <3>1 DEF Untroubled
  <2>3. CASE OnStep(t) \/ OffStep(t) \/ TuneStep(t) BY <1>1, <2>3, CleanHolders
  <2> QED BY <1>3, <2>1, <2>2, <2>3 DEF TaskStep
<1>4. CASE MonStep
  <2>1. UNCHANGED <<fault, critical, stuck>>
    BY <1>4 DEF MonStep, MonWake, MonCapture, MonLost, MonRecheck, MonChip, MonCycled,
       MonGuard, MonTemp, MonTune, flagVars, pinVars, envVars
  <2> QED BY <1>1, <1>2, <1>4, <2>1, CleanMonitor DEF Sound
<1>5. ASSUME NEW u \in Users, Request(u)
      PROVE Untroubled' /\ UNCHANGED <<fault, critical, stuck>>
  <2>1. UNCHANGED <<fault, critical, stuck, bad, enabled>>
    BY <1>5 DEF Request, flagVars, pinVars, envVars
  <2>2. PICK label \in {"on.lock", "off.lock", "v.lock"} : Goto(u, label)
    BY <1>5 DEF Request
  <2>3. pc'[u] = label /\ (\A v \in Tasks \ {u} : pc'[v] = pc[v])
    BY <2>2, Moves, Members
  <2>4. u # Boot /\ u # Monitor BY Members
  <2> QED BY <1>2, <2>1, <2>2, <2>3, <2>4, Members DEF Untroubled
<1>6. ~BootLatch BY <1>2 DEF BootLatch, Untroubled
<1>7. ~CriticalBegins /\ ~CriticalEnds BY <1>1, <1>2 DEF CriticalBegins, CriticalEnds
<1>8. CASE GraceEnds
  BY <1>2, <1>8 DEF GraceEnds, flagVars, pinVars, Untroubled, Sound
<1> QED BY <1>2, <1>3, <1>4, <1>5, <1>6, <1>7, <1>8 DEF Next, Sound

-----------------------------------------------------------------------------
(* A stop holds.                                                            *)

\* While a start is early nobody comes to decide on a fault.
LEMMA NobodyDecides ==
  ASSUME TypeOK, Roles, Story, Undisturbed, Next, NEW t \in Tasks, pc[t] \in Early
  PROVE  fault' = "none" /\ NothingDecided'
<1>0. /\ pc \in [Tasks -> Labels] /\ lock = t /\ t # Free
      /\ fault = "none" /\ NothingDecided
  BY Members DEF TypeOK, Undisturbed
<1>1. AtStage(pc[t]) BY <1>0 DEF Story, Sound
<1>2. ~enabled /\ ~inited BY <1>0, <1>1 DEF AtStage, Down
<1>3. ASSUME NEW u \in Tasks, TaskStep(u) PROVE fault' = "none" /\ NothingDecided'
  <2>1. ~TakeLock(u) BY <1>0 DEF TakeLock
  <2>2. ~GiveLock(u) BY <1>0 DEF GiveLock, TypeOK
  <2>3. CASE StopStep(u)
    <3>1. PICK label \in (Stopping \ {"s.fault"}) \cup {"failed", "m.sleep"} : Goto(u, label)
      BY <2>3 DEF StopStep, StopFault, StopUninit, StopDisable, StopReset, StopOff
    <3>2. fault' = "none"
      BY <1>0, <2>3 DEF StopStep, StopFault, StopUninit, StopDisable, StopReset, StopOff,
         NothingDecided, flagVars
    <3>3. \A v \in Tasks : pc'[v] \in {pc[v], label} BY <3>1, Moves
    <3> QED BY <1>0, <3>1, <3>2, <3>3 DEF NothingDecided
  <2>4. CASE OnStep(u) \/ OffStep(u) \/ TuneStep(u)
    <3>1. ~StartWatch(u) BY <1>0 DEF StartWatch, TypeOK
    <3>2. fault' = "none" /\ lock = u BY <1>0, <2>4, <3>1, Holders DEF HolderStep
    <3>3. u = t BY <1>0, <3>2
    <3>4. \E label \in Labels \ {"m.temp", "s.fault", "latch"} : Goto(t, label)
      BY <1>0, <2>4, <3>3
      DEF OnStep, OnCheck, OnHold, OnFan, StartInit, StartVout, StartEnable, Settles,
          StartWatch, StartLow, StartHigh, StartDetect, StartInited, OffStep, OffDisable,
          OffUninit, OffReset, OffVout, TuneStep, TuneCheck, TuneCommand
    <3>5. PICK label \in Labels \ {"m.temp", "s.fault", "latch"} : Goto(t, label) BY <3>4
    <3>6. \A v \in Tasks : pc'[v] \in {pc[v], label} BY <3>5, Moves
    <3> QED BY <1>0, <3>2, <3>5, <3>6 DEF NothingDecided
  <2> QED BY <1>3, <2>1, <2>2, <2>3, <2>4 DEF TaskStep
<1>4. CASE MonStep
  <2>1. fault' = "none" /\ pc[Monitor] # "m.temp"
    BY <1>0, <1>4, MonitorMoves, Members DEF MonitorStep, NothingDecided
  <2>2. PICK label \in Labels \ {"m.temp", "s.fault", "latch"} : Goto(Monitor, label)
    BY <1>2, <1>4, <2>1 DEF MonStep, MonWake, MonCapture, MonLost, MonRecheck, MonChip,
       MonCycled, MonGuard, MonTemp, MonTune, MonitorGoto
  <2>3. \A v \in Tasks : pc'[v] \in {pc[v], label} BY <2>2, Moves, Members
  <2> QED BY <1>0, <2>1, <2>2, <2>3 DEF NothingDecided
<1>5. ASSUME NEW u \in Users, Request(u) PROVE fault' = "none" /\ NothingDecided'
  <2>1. fault' = "none" BY <1>0, <1>5 DEF Request, flagVars
  <2>2. PICK label \in {"on.lock", "off.lock", "v.lock"} : Goto(u, label)
    BY <1>5 DEF Request
  <2>3. \A v \in Tasks : pc'[v] \in {pc[v], label} BY <2>2, Moves, Members
  <2> QED BY <1>0, <2>1, <2>2, <2>3 DEF NothingDecided
<1>6. ~BootLatch BY <1>0, Members DEF BootLatch, NothingDecided
<1>7. CASE CriticalBegins \/ CriticalEnds \/ GraceEnds
  BY <1>0, <1>7 DEF CriticalBegins, CriticalEnds, GraceEnds, flagVars, NothingDecided
<1> QED BY <1>3, <1>4, <1>5, <1>6, <1>7 DEF Next

\* A start begins where nobody has decided on a fault.
LEMMA StartsUndisturbed ==
  ASSUME TypeOK, Roles, PromptFaults, Next, NEW t \in Tasks, pc[t] \notin Early,
         pc'[t] \in Early
  PROVE  fault' = "none" /\ NothingDecided'
<1>0. pc \in [Tasks -> Labels] BY DEF TypeOK
<1>1. ASSUME NEW u \in Tasks, TaskStep(u) PROVE TakeLock(t) \/ OnCheck(t)
  <2>1. CASE u # t
    <3>1. pc'[t] \in {pc[t], "m.sleep"}
      <4>1. CASE StartWatch(u)
        BY <1>0, <2>1, <4>1, Members, Moves DEF StartWatch
      <4>2. CASE ~StartWatch(u)
        <5>1. \E label : Goto(u, label)
          BY <1>1, <4>2 DEF TaskStep, TakeLock, GiveLock, StopStep, StopFault, StopUninit,
             StopDisable, StopReset, StopOff, OnStep, OnCheck, OnHold, OnFan, StartInit,
             StartVout, StartEnable, Settles, StartLow, StartHigh, StartDetect, StartInited,
             OffStep, OffDisable, OffUninit, OffReset, OffVout, TuneStep, TuneCheck,
             TuneCommand
        <5> QED BY <1>0, <2>1, <5>1 DEF Goto
      <4> QED BY <4>1, <4>2
    <3> QED BY <3>1
  <2>2. CASE u = t
    <3> USE DEF Goto
    <3>1. ~GiveLock(t) BY <1>0, Members DEF GiveLock, Continuation, Tasks
    <3>2. ~StopStep(t)
      BY <1>0 DEF StopStep, StopFault, StopUninit, StopDisable, StopReset, StopOff
    <3>3. OnStep(t) => OnCheck(t)
      <4>1. ~OnHold(t) /\ ~OnFan(t) /\ ~StartInit(t) /\ ~StartVout(t) /\ ~StartEnable(t)
        BY DEF OnHold, OnFan, StartInit, StartVout, StartEnable
      <4>2. ~Settles(t, "st.wait", "st.watch") /\ ~StartLow(t) /\ ~StartHigh(t)
        BY <1>0 DEF Settles, StartLow, StartHigh
      <4>3. ~StartDetect(t) /\ ~StartInited(t) BY <1>0 DEF StartDetect, StartInited
      <4>4. ~StartWatch(t) BY <1>0, Members DEF StartWatch
      <4> QED BY <4>1, <4>2, <4>3, <4>4 DEF OnStep
    <3>4. ~OffStep(t) /\ ~TuneStep(t)
      BY <1>0 DEF OffStep, OffDisable, OffUninit, OffReset, OffVout, TuneStep, TuneCheck,
         TuneCommand, Settles
    <3> QED BY <1>1, <2>2, <3>1, <3>2, <3>3, <3>4 DEF TaskStep
  <2> QED BY <2>1, <2>2
<1>2. ~MonStep
  <2>1. ASSUME MonStep
        PROVE  \E label \in Labels \ Early : Goto(Monitor, label)
    BY <2>1, MonitorMoves DEF MonitorStep
  <2> QED BY <1>0, <2>1, Members DEF Goto
<1>3. \A u \in Users : ~Request(u) BY <1>0, Members DEF Request, Goto
<1>4. ~BootLatch BY <1>0, Members DEF BootLatch, Goto
<1>5. ~CriticalBegins /\ ~CriticalEnds /\ ~GraceEnds
  BY DEF CriticalBegins, CriticalEnds, GraceEnds
<1>6. CASE TakeLock(t)
  <2>1. pc[t] = "start" /\ pc'[t] = "st.init" /\ fault' = fault
    BY <1>0, <1>6 DEF TakeLock, Goto, flagVars
  <2>2. fault = "none" /\ \A u \in Tasks \ {t} : pc[u] = "idle" BY <2>1 DEF Roles
  <2>3. \A u \in Tasks \ {t} : pc'[u] = pc[u] BY <1>0, <1>6 DEF TakeLock, Goto
  <2> QED BY <2>1, <2>2, <2>3 DEF NothingDecided
<1>7. CASE OnCheck(t)
  <2>1. pc'[t] = "on.hold" /\ fault' = fault BY <1>0, <1>7 DEF OnCheck, Goto, flagVars
  <2>2. ~Faulted /\ NothingDecided BY <1>0, <1>7, <2>1 DEF OnCheck, Goto
  <2>3. \A u \in Tasks \ {t} : pc'[u] = pc[u] BY <1>0, <1>7 DEF OnCheck, Goto
  <2> QED BY <2>1, <2>2, <2>3 DEF NothingDecided, Faulted
<1> QED BY <1>1, <1>2, <1>3, <1>4, <1>5, <1>6, <1>7 DEF Next

LEMMA UndisturbedNext ==
  ASSUME TypeOK, Roles, Story, Undisturbed, PromptFaults, Next
  PROVE  Undisturbed'
<1>1. ASSUME NEW t \in Tasks, pc'[t] \in Early PROVE fault' = "none" /\ NothingDecided'
  BY <1>1, NobodyDecides, StartsUndisturbed
<1> QED BY <1>1 DEF Undisturbed

\* A step by which nobody leaves a stop or the detection, nothing comes on, and
\* nobody is about to turn the output off with the reset line up.
LEMMA FinalCalm ==
  ASSUME Final,
         NEW t \in Tasks, pc[t] \notin Stopping \cup {"st.detect"},
         \A u \in Tasks \ {t} :
            pc'[u] = pc[u] \/ (pc[u] = "idle" /\ pc'[u] = "m.sleep"),
         released' => released,
         pc'[t] # "s.off",
         pc'[t] = "off.vout" => ~released',
         fault' = "stop" => fault = "stop" /\ (enabled' => enabled),
         fault' = "stop" /\ released' /\ Certain' => Certain,
         fault' = "stop" /\ SomeAt(Late)' /\ out' /\ Certain' => SomeAt(Late) /\ out /\ Certain
  PROVE  Final'
<1> USE DEF SomeAt
<1>1. ASSUME NEW u \in Tasks, pc[u] \in Stopping \cup {"st.detect"} PROVE pc'[u] = pc[u]
  BY <1>1
<1>2. ASSUME NEW u \in Tasks, pc'[u] \in {"s.off", "off.vout"}
      PROVE  pc'[u] = pc[u] \/ (u = t /\ pc'[u] = "off.vout")
  BY <1>2
<1>3. (SomeAt({"s.off"}) /\ released => SomeAt({"st.detect"}))'
  BY <1>1, <1>2 DEF Final
<1>4. (SomeAt({"off.vout"}) => ~released)'
  BY <1>2 DEF Final
<1>5. ASSUME fault' = "stop", enabled' PROVE SomeAt({"s.uninit", "s.disable"})'
  BY <1>1, <1>5 DEF Final
<1>6. ASSUME fault' = "stop", released', Certain'
      PROVE  SomeAt({"s.uninit", "s.disable", "s.reset", "st.detect"})'
  BY <1>1, <1>6 DEF Final
<1>7. ASSUME fault' = "stop", SomeAt(Late)', out', Certain' PROVE SomeAt(Stopping)'
  <2>1. SomeAt(Stopping) BY <1>7 DEF Final
  <2> QED BY <1>1, <2>1
<1> QED BY <1>3, <1>4, <1>5, <1>6, <1>7 DEF Final

LEMMA FinalHolders ==
  ASSUME TypeOK, Roles, Story, Undisturbed, Final, NEW t \in Tasks,
         OnStep(t) \/ OffStep(t) \/ TuneStep(t), ~StartHigh(t), ~StartDetect(t)
  PROVE  Final'
<1>0. /\ pc \in [Tasks -> Labels] /\ enabled \in BOOLEAN /\ released \in BOOLEAN
      /\ out \in BOOLEAN /\ stuck \in BOOLEAN /\ ready \in BOOLEAN
  BY DEF TypeOK
<1>1. lock = t /\ pc[t] \in Inside \ {"st.detect"}
  BY DEF TypeOK, OnStep, OnCheck, OnHold, OnFan, StartInit, StartVout, StartEnable, Settles,
     StartWatch, StartLow, StartInited, OffStep, OffDisable, OffUninit, OffReset, OffVout,
     TuneStep, TuneCheck, TuneCommand
<1>2. \A u \in Tasks \ {t} : pc[u] \notin Late BY <1>1 DEF TypeOK
<1>3. fault' = fault /\ (released' => released)
  <2>1. fault' = fault
    BY Holders DEF HolderStep, StartWatch
  <2>2. CASE OnHold(t) \/ StartLow(t) BY <2>1, <2>2 DEF OnHold, StartLow
  <2>3. CASE OffReset(t) BY <2>1, <2>3 DEF OffReset
  <2>4. ASSUME OnStep(t), ~OnHold(t), ~StartLow(t) PROVE released' = released
    BY <2>4 DEF OnStep, OnCheck, OnFan, StartInit, StartVout, StartEnable,
       Settles, StartWatch, StartInited, pinVars
  <2>5. ASSUME OffStep(t), ~OffReset(t) PROVE released' = released
    BY <2>5 DEF OffStep, OffDisable, OffUninit, OffVout, pinVars
  <2>6. ASSUME TuneStep(t) PROVE released' = released
    BY <2>6 DEF TuneStep, TuneCheck, TuneCommand, Settles, pinVars
  <2> QED BY <2>1, <2>2, <2>3, <2>4, <2>5, <2>6
<1>4. ASSUME NEW u \in Tasks \ {t}
      PROVE  pc'[u] = pc[u] \/ (pc[u] = "idle" /\ pc'[u] = "m.sleep")
  <2>1. CASE StartWatch(t)
    <3>1. watching \in BOOLEAN /\ (~watching => pc[Monitor] = "idle") BY DEF Roles, TypeOK
    <3>2. CASE pc' = [pc EXCEPT ![t] = "st.low",
                                ![Monitor] = IF watching THEN @ ELSE "m.sleep"]
      <4>1. u # Monitor => pc'[u] = pc[u]
        BY <1>0, <3>2
      <4>2. u = Monitor => pc'[u] = IF watching THEN pc[u] ELSE "m.sleep"
        BY <1>0, <3>2, Members
      <4> QED BY <3>1, <4>1, <4>2
    <3>3. CASE Goto(t, "s.disable") BY <3>3, Moves
    <3> QED BY <2>1, <3>2, <3>3 DEF StartWatch
  <2>2. CASE ~StartWatch(t)
    <3>1. PICK label \in Inside \cup Stopping : Goto(t, label)
      BY <2>2, Holders DEF HolderStep
    <3> QED BY <3>1, Moves
  <2> QED BY <2>1, <2>2
<1>5. fault = "stop" => pc[t] \notin Early BY DEF Undisturbed
<1> DEFINE kept == fault = "stop" =>
      /\ enabled' => enabled
      /\ released' /\ Certain' => Certain
      /\ pc'[t] \in Late /\ out' /\ Certain' => pc[t] \in Late /\ out /\ Certain
<1>6. /\ pc'[t] # "s.off"
      /\ pc'[t] = "off.vout" => ~released'
      /\ kept
  <2> USE DEF Goto
  <2>1. CASE OnCheck(t) \/ OnHold(t) \/ OnFan(t)
    BY <1>0, <2>1 DEF OnCheck, OnHold, OnFan, flagVars, pinVars, Certain
  <2>2. CASE StartInit(t) \/ StartVout(t) \/ StartEnable(t)
    BY <1>0, <1>5, <2>2 DEF StartInit, StartVout, StartEnable
  <2>3. CASE Settles(t, "st.wait", "st.watch") \/ Settles(t, "v.wait", "done")
    BY <1>0, <2>3 DEF Settles, flagVars, pinVars, Certain
  <2>4. CASE StartWatch(t)
    <3>1. pc'[t] \in {"st.low", "m.sleep", "s.disable"} /\ pc[t] = "st.watch"
      BY <1>0, <2>4, Members DEF StartWatch
    <3>2. UNCHANGED <<enabled, released, ready, out, stuck>> BY <2>4 DEF StartWatch, pinVars
    <3> QED BY <3>1, <3>2 DEF Certain
  <2>5. CASE StartLow(t) BY <1>0, <2>5 DEF StartLow, flagVars, pinVars, Certain
  <2>6. CASE StartInited(t) BY <1>0, <2>6 DEF StartInited, pinVars, Certain
  <2>7. CASE OffDisable(t) \/ OffUninit(t) \/ OffReset(t)
    BY <1>0, <2>7 DEF OffDisable, OffUninit, OffReset, flagVars, pinVars, Certain
  <2>8. CASE OffVout(t)
    <3>1. ~released BY <2>8 DEF Final, SomeAt, OffVout
    <3>2. pc'[t] \in {"off.done", "failed"} /\ UNCHANGED <<enabled, released>>
      BY <1>0, <2>8 DEF OffVout, flagVars
    <3> QED BY <3>1, <3>2
  <2>9. CASE TuneCheck(t) BY <1>0, <2>9 DEF TuneCheck, flagVars, pinVars, Certain
  <2>10. CASE TuneCommand(t)
    <3>1. pc'[t] \in {"v.wait", "failed"} BY <1>0, <2>10 DEF TuneCommand
    <3>2. UNCHANGED <<enabled, released, ready, stuck>> BY <2>10 DEF TuneCommand, flagVars
    <3> QED BY <3>1, <3>2 DEF Certain
  <2> QED BY <2>1, <2>2, <2>3, <2>4, <2>5, <2>6, <2>7, <2>8, <2>9, <2>10
          DEF OnStep, OffStep, TuneStep
<1>7. ASSUME fault = "stop", SomeAt(Late)', out', Certain'
      PROVE  SomeAt(Late) /\ out /\ Certain
  <2>1. pc'[t] \in Late BY <1>2, <1>4, <1>7 DEF SomeAt
  <2> QED BY <1>6, <1>7, <2>1 DEF SomeAt
<1>8. pc[t] \notin Stopping \cup {"st.detect"} BY <1>1
<1> QED BY <1>3, <1>4, <1>6, <1>7, <1>8, FinalCalm

LEMMA FinalStop ==
  ASSUME TypeOK, Final, NEW t \in Tasks, StopStep(t)
  PROVE  Final'
<1> USE DEF SomeAt
<1>0. pc \in [Tasks -> Labels] BY DEF TypeOK
<1>1. PICK label \in Stopping \cup {"failed", "m.sleep"} : Goto(t, label)
  BY DEF StopStep, StopFault, StopUninit, StopDisable, StopReset, StopOff
<1>2. /\ pc'[t] = label
      /\ \A u \in Tasks \ {t} : pc'[u] = pc[u]
  BY <1>1, Moves
<1>3. /\ released' => released
      /\ pc[t] \in Stopping
  BY DEF StopStep, StopFault, StopUninit, StopDisable, StopReset, StopOff, pinVars
<1>4. (SomeAt({"off.vout"}) => ~released)' BY <1>1, <1>2, <1>3 DEF Final
<1>5. CASE StopFault(t) \/ StopUninit(t)
  <2>1. label \in {"s.uninit", "s.disable"} BY <1>0, <1>2, <1>5 DEF StopFault, StopUninit, Goto
  <2>2. (SomeAt({"s.off"}) /\ released => SomeAt({"st.detect"}))'
    BY <1>2, <1>3, <2>1 DEF Final
  <2> QED BY <1>2, <1>4, <2>1, <2>2 DEF Final
<1>6. CASE StopDisable(t)
  <2>1. label = "s.reset" /\ ~enabled' BY <1>0, <1>2, <1>6 DEF StopDisable, Goto
  <2>2. (SomeAt({"s.off"}) /\ released => SomeAt({"st.detect"}))'
    BY <1>2, <1>3, <2>1 DEF Final
  <2> QED BY <1>2, <1>4, <2>1, <2>2 DEF Final
<1>7. CASE StopReset(t)
  <2>1. /\ label = "s.off" /\ ~released' /\ pc[t] = "s.reset"
        /\ UNCHANGED <<fault, enabled>>
    BY <1>0, <1>2, <1>7 DEF StopReset, Goto, flagVars
  <2> QED BY <1>2, <1>4, <2>1 DEF Final
<1>8. CASE StopOff(t)
  <2>1. label \in {"failed", "m.sleep"} /\ UNCHANGED <<fault, enabled, released>>
    BY <1>0, <1>2, <1>8 DEF StopOff, Goto, flagVars
  <2>2. pc[t] = "s.off" BY <1>8 DEF StopOff
  <2>3. released => SomeAt({"st.detect"}) BY <2>2 DEF Final
  <2>4. released' => SomeAt({"st.detect"})'
    BY <1>2, <2>1, <2>2, <2>3
  <2>5. ~(out' /\ Certain') BY <1>8 DEF StopOff, OutputOff, Certain, flagVars
  <2>6. ASSUME fault' = "stop", enabled' PROVE SomeAt({"s.uninit", "s.disable"})'
    BY <1>2, <2>1, <2>2, <2>6 DEF Final
  <2> QED BY <1>4, <2>4, <2>5, <2>6 DEF Final
<1> QED BY <1>5, <1>6, <1>7, <1>8 DEF StopStep

LEMMA FinalHigh ==
  ASSUME TypeOK, Final, NEW t \in Tasks, StartHigh(t)
  PROVE  Final'
<1> USE DEF SomeAt
<1>1. /\ pc[t] = "st.high" /\ pc'[t] = "st.detect"
      /\ \A u \in Tasks \ {t} : pc'[u] = pc[u]
  BY Moves DEF StartHigh
<1>2. UNCHANGED <<fault, enabled, ready, out, stuck>> BY DEF StartHigh, flagVars
<1>3. \A u \in Tasks : pc[u] # "off.vout"
  <2>1. lock = t BY <1>1 DEF TypeOK
  <2> QED BY <1>1, <2>1 DEF TypeOK
<1>4. (SomeAt({"off.vout"}) => ~released)' BY <1>1, <1>3
<1>5. ASSUME fault' = "stop", enabled' PROVE SomeAt({"s.uninit", "s.disable"})'
  BY <1>1, <1>2, <1>5 DEF Final
<1>6. ASSUME fault' = "stop", out', Certain' PROVE SomeAt(Stopping)'
  <2>1. SomeAt(Stopping) BY <1>1, <1>2, <1>6 DEF Final, Certain
  <2> QED BY <1>1, <2>1
<1>7. SomeAt({"st.detect"})' BY <1>1
<1> QED BY <1>1, <1>4, <1>5, <1>6, <1>7 DEF Final

LEMMA FinalDetect ==
  ASSUME TypeOK, Final, NEW t \in Tasks, StartDetect(t)
  PROVE  Final'
<1> USE DEF SomeAt
<1>1. PICK label \in {"st.inited", "s.disable"} :
        Goto(t, label) /\ (label = "st.inited" => Answers)
  BY DEF StartDetect
<1>2. /\ pc[t] = "st.detect" /\ pc'[t] = label
      /\ \A u \in Tasks \ {t} : pc'[u] = pc[u]
  BY <1>1, Moves DEF StartDetect
<1>3. UNCHANGED <<fault, enabled, ready, released, out, stuck>>
  BY DEF StartDetect, flagVars, pinVars
<1>4. \A u \in Tasks : pc[u] \notin Stopping BY DEF StartDetect, PulseOver
<1>5. \A u \in Tasks \ {t} : pc[u] \notin Late \cup {"off.vout"}
  <2>1. lock = t BY <1>2 DEF TypeOK
  <2> QED BY <2>1 DEF TypeOK
<1>6. ~SomeAt({"s.off"})' /\ ~SomeAt({"off.vout"})' /\ ~SomeAt(Late)'
  BY <1>1, <1>2, <1>4, <1>5
<1>7. ASSUME fault' = "stop" PROVE ~enabled' BY <1>3, <1>4, <1>7 DEF Final
<1>8. ASSUME fault' = "stop", released', Certain' PROVE label = "s.disable"
  <2>1. ~out BY <1>2, <1>3, <1>4, <1>8 DEF Final, Certain
  <2> QED BY <1>1, <2>1 DEF Answers
<1>9. label = "s.disable" => SomeAt({"s.uninit", "s.disable", "s.reset", "st.detect"})'
  BY <1>2
<1> QED BY <1>6, <1>7, <1>8, <1>9 DEF Final

LEMMA FinalNext ==
  ASSUME TypeOK, Roles, Story, Undisturbed, Final, Next
  PROVE  Final'
<1>1. ASSUME NEW t \in Tasks, NEW label \in Labels \ (Stopping \cup Late \cup {"off.vout"}),
             Goto(t, label), pc[t] \notin Stopping \cup {"st.detect"},
             UNCHANGED <<enabled, ready, pinVars>>, fault' = "stop" => fault = "stop"
      PROVE  Final'
  <2>1. pc'[t] = label /\ \A u \in Tasks \ {t} : pc'[u] = pc[u] BY <1>1, Moves
  <2>2. UNCHANGED <<enabled, ready, released, out, stuck>> BY <1>1 DEF pinVars
  <2>3. Certain' = Certain BY <2>2 DEF Certain
  <2>4. SomeAt(Late)' => SomeAt(Late) BY <1>1, <2>1 DEF SomeAt
  <2> QED BY <1>1, <2>1, <2>2, <2>3, <2>4, FinalCalm
<1>2. ASSUME NEW t \in Tasks, TaskStep(t) PROVE Final'
  <2>1. CASE TakeLock(t)
    <3>1. PICK label \in {"st.init", "on.check", "off.disable", "v.check"} :
            Goto(t, label) /\ pc[t] \in {"start", "on.lock", "off.lock", "v.lock"}
      BY <2>1 DEF TakeLock
    <3> QED BY <1>1, <2>1, <3>1 DEF TakeLock, flagVars
  <2>2. CASE GiveLock(t)
    <3>1. PICK label \in {"idle", "latch", "over", "m.cycled", "m.sleep"} : Goto(t, label)
      BY <2>2, Members DEF GiveLock, Continuation, Tasks
    <3> QED BY <1>1, <2>2, <3>1 DEF GiveLock, flagVars
  <2>3. CASE StopStep(t) BY <2>3, FinalStop
  <2>4. CASE OnStep(t) \/ OffStep(t) \/ TuneStep(t)
    BY <2>4, FinalHolders, FinalHigh, FinalDetect
  <2> QED BY <1>2, <2>1, <2>2, <2>3, <2>4 DEF TaskStep
<1>3. CASE MonStep
  <2>1. UNCHANGED <<fault, enabled, ready, pinVars>>
    BY <1>3 DEF MonStep, MonWake, MonCapture, MonLost, MonRecheck, MonChip, MonCycled,
       MonGuard, MonTemp, MonTune, flagVars, pinVars
  <2>2. PICK label \in Watching \cup {"off.lock", "on.lock", "v.lock", "s.fault", "v.check"} :
          Goto(Monitor, label) /\ pc[Monitor] \in Watching
    BY <1>3, MonitorMoves DEF MonitorStep
  <2>3. CASE label # "s.fault" BY <1>1, <2>1, <2>2, <2>3, Members
  <2>4. CASE label = "s.fault"
    <3>1. pc'[Monitor] = label /\ \A u \in Tasks \ {Monitor} : pc'[u] = pc[u]
      BY <2>2, Moves, Members
    <3>2. Certain' = Certain BY <2>1 DEF Certain, pinVars
    <3>3. SomeAt(Late)' => SomeAt(Late) BY <2>2, <2>4, <3>1 DEF SomeAt
    <3> QED BY <2>1, <2>2, <2>4, <3>1, <3>2, <3>3, FinalCalm, Members DEF pinVars
  <2> QED BY <2>3, <2>4
<1>4. ASSUME NEW u \in Users, Request(u) PROVE Final'
  <2>1. PICK label \in {"on.lock", "off.lock", "v.lock"} : Goto(u, label) /\ pc[u] = "idle"
    BY <1>4 DEF Request
  <2> QED BY <1>1, <1>4, <2>1, Members DEF Request, flagVars
<1>5. CASE BootLatch
  <2>1. fault' = "stop" => fault = "stop" BY <1>5 DEF BootLatch
  <2> QED BY <1>1, <1>5, <2>1, Members DEF BootLatch
<1>6. CASE CriticalBegins \/ CriticalEnds \/ GraceEnds
  BY <1>6 DEF CriticalBegins, CriticalEnds, GraceEnds, flagVars, pinVars, Final, SomeAt, Certain
<1> QED BY <1>2, <1>3, <1>4, <1>5, <1>6 DEF Next

-----------------------------------------------------------------------------
(* The theorems.                                                            *)

LEMMA PowerStep == PowerInv /\ [Next]_vars => PowerInv'
<1>1. ASSUME PowerInv, Next PROVE PowerInv'
  <2>1. TypeOK' /\ Roles' BY <1>1, RolesNext DEF PowerInv
  <2>2. Story' BY <1>1, StoryNext DEF PowerInv
  <2>3. Clean' BY <1>1, CleanNext DEF PowerInv
  <2>4. PromptFaults => Undisturbed' /\ Final'
    BY <1>1, UndisturbedNext, FinalNext DEF PowerInv
  <2> QED BY <2>1, <2>2, <2>3, <2>4 DEF PowerInv
<1>2. ASSUME PowerInv, UNCHANGED vars PROVE PowerInv'
  BY <1>2 DEF vars, flagVars, pinVars, envVars, PowerInv, TypeOK, Roles, Story, Clean, AtStage,
     Steady, Down, OffIfSure, Sound, Untroubled, Undisturbed, NothingDecided, Final, SomeAt,
     Certain
<1> QED BY <1>1, <1>2

\* Who holds the transition lock is who changes the flags, and the flags, the output
\* and the stop are as that task has left them, in every reachable state
\* (take_asic_transition_lock, the transitions of bitaxe_hw.c).
THEOREM PowerInvariance == Spec => []PowerInv
BY PowerInit, PowerStep, PTL DEF Spec

\* Types, and the transition lock: its holder is inside a transition and no other
\* task is (take_asic_transition_lock and the returns of each transition).
THEOREM PowerTypeCorrect == Spec => []TypeOK
<1>1. PowerInv => TypeOK BY DEF PowerInv
<1> QED BY <1>1, PowerInvariance, PTL

\* While the board has no fault, the flags, the reset line and the regulator's
\* output agree between transitions, failed ones included
\* (bitaxe_hw.c:1859-1962, 1465-1471).
THEOREM FlagsTellOneStory == Spec => []FlagsAgree
<1>1. PowerInv => FlagsAgree
  <2>1. SUFFICES ASSUME PowerInv, ~Faulted, Quiet, ready, ~stuck
        PROVE  out = enabled /\ inited = enabled /\ released = enabled
    BY DEF FlagsAgree
  <2>2. Sound BY <2>1 DEF Faulted, Sound
  <2>3. Steady /\ (enabled => out) BY <2>1, <2>2 DEF PowerInv, Story, Quiet
  <2>4. ~enabled => ~out BY <2>1, <2>3 DEF Steady, OffIfSure
  <2>5. enabled \in BOOLEAN /\ out \in BOOLEAN BY <2>1 DEF PowerInv, TypeOK
  <2> QED BY <2>3, <2>4, <2>5 DEF Steady
<1> QED BY <1>1, PowerInvariance, PTL

\* With good readings and working buses no transition, in any order with the
\* monitor's snapshots, ends in an emergency stop (bitaxe_hw.c:1588-1590).
THEOREM NoStopWithoutCause == Spec => []NoFalseStop
<1>1. PowerInv => NoFalseStop BY DEF PowerInv, Clean, Sound, NoFalseStop
<1> QED BY <1>1, PowerInvariance, PTL

\* After an emergency stop, which takes no lock, the reset line stays low and the
\* regulator counts as off, if a fault that is decided on is latched before
\* another task checks for one (bitaxe_hw.c:748-770, 1796-1831).
THEOREM StopIsFinal ==
  ASSUME PromptFaults
  PROVE  Spec => []StopHolds
<1>1. PowerInv => StopHolds
  <2>1. SUFFICES ASSUME PowerInv, Stopped PROVE ~released /\ ~enabled BY DEF StopHolds
  <2>2. TypeOK /\ Final BY <2>1 DEF PowerInv
  <2>3. \A t \in Tasks : pc[t] \notin Stopping \cup {"st.detect"}
    BY <2>1, <2>2, Members DEF Stopped, Quiet, TypeOK
  <2> QED BY <2>1, <2>2, <2>3 DEF Final, SomeAt, Certain, Stopped
<1> QED BY <1>1, PowerInvariance, PTL
=============================================================================
