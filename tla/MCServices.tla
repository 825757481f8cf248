------------------------------ MODULE MCServices ------------------------------
(* Small instances of six components that must keep working.  They share no *)
(* state in the model, so a behaviour moves the one it starts with and       *)
(* leaves the others where they began.                                       *)
EXTENDS PoolSession, SettingsApply, WifiLink, LogBuffer, AutoClock, Swarm

VARIABLE moving

vars == <<moving, poolVars, settingsVars, wifiVars, logVars, clockVars, swarmVars>>

TwoPools == {"rolling", "fixed"}
FixedPool == {"fixed"}

Limits(lo, hi, volt, freq, fan, auto) ==
    [lo |-> lo, hi |-> hi, volt |-> volt, clock |-> freq, fan |-> fan, auto |-> auto]
TwoConfigs == {Limits(2, 4, 2, 2, 1, FALSE), Limits(3, 5, 4, 3, 2, TRUE)}
TwoPresets == {[volt |-> 3, clock |-> 3], [volt |-> 4, clock |-> 4]}

Net(ssid, key) == [ssid |-> ssid, key |-> key]
Nowhere == Net("", "")
AtHome == Net("home", "a")
ThreeNetworks == {AtHome, Net("new", "c"), Net("mute", "d")}
GoodNetworks == {AtHome, Net("new", "c")}
MuteNetworks == {Net("mute", "d")}

UsableChoices == {0..5, 1..2, {0, 1, 3, 4, 5}, {}}

\* The components that stand still start in one state.
Init ==
    /\ moving \in {"pool", "settings", "wifi", "log", "clock", "swarm"}
    /\ PoolInit /\ (moving # "pool" => setting = "rolling")
    /\ SettingsInit /\ (moving # "settings" => conf = Limits(2, 4, 2, 2, 1, FALSE))
    /\ WifiInit /\ (moving # "wifi" => saved = None)
    /\ LogInit
    /\ ClockInit /\ (moving # "clock" => usable = {} /\ preset = 0)
    /\ SwarmInit /\ (moving # "swarm" => answering = {})

\* The component that moves leaves the others where they are.
OthersStand ==
    /\ UNCHANGED moving
    /\ IF moving = "pool" THEN TRUE ELSE UNCHANGED poolVars
    /\ IF moving = "settings" THEN TRUE ELSE UNCHANGED settingsVars
    /\ IF moving = "wifi" THEN TRUE ELSE UNCHANGED wifiVars
    /\ IF moving = "log" THEN TRUE ELSE UNCHANGED logVars
    /\ IF moving = "clock" THEN TRUE ELSE UNCHANGED clockVars
    /\ IF moving = "swarm" THEN TRUE ELSE UNCHANGED swarmVars

Next ==
    \/ moving = "pool" /\ PoolNext /\ OthersStand
    \/ moving = "settings" /\ SettingsNext /\ OthersStand
    \/ moving = "wifi" /\ WifiNext /\ OthersStand
    \/ moving = "log" /\ LogNext /\ OthersStand
    \/ moving = "clock" /\ ClockNext /\ OthersStand
    \/ moving = "swarm" /\ SwarmNext /\ OthersStand

\* Where their components stand still none of the fair steps is enabled.
Spec ==
    /\ Init /\ [][Next]_vars
    /\ PoolFairness /\ SettingsFairness /\ WifiFairness /\ LogFairness /\ ClockFairness
    /\ SwarmFairness
=============================================================================
