------------------------------- MODULE MCDevice -------------------------------
(* Small instances of nine components that keep what others rely on.  They   *)
(* share no state in the model, so a behaviour moves the one it starts with  *)
(* and leaves the others where they began.                                   *)
EXTENDS ConfigStore, OtaInstall, FaultLog, Fan, AsicParameters, PoolScheduler,
        MonitorDeadlines, PoolSettings, BlockPayout

VARIABLE moving

vars == <<moving, configVars, otaVars, faultVars, fanVars, asicParamVars, schedulerVars,
          deadlineVars, poolSettingsVars, payoutVars>>

OneAxeos == {"foreign"}

Image(app, merged, whole) == [app |-> app, merged |-> merged, whole |-> whole]
FourFiles == {Image("m45", TRUE, TRUE), Image("m45", FALSE, FALSE),
              Image("older", FALSE, TRUE), Image("axeos", FALSE, TRUE)}

FanMode(override, level, mayStop) ==
    [override |-> override, level |-> level, mayStop |-> mayStop]
ThreeFans == {FanMode(FALSE, 0, TRUE), FanMode(TRUE, 0, FALSE), FanMode(TRUE, 2, FALSE)}

TwoPools == {1, 2}
FourWeightings == {<<50, 50>>, <<1, 99>>, <<70, 30>>, <<25, 10>>}

Row(host, user, weight) == [host |-> host, user |-> user, weight |-> weight]
PoolConf(multi, host, user, suggest, a, b) ==
    [multi |-> multi, host |-> host, user |-> user, suggest |-> suggest, aux |-> <<a, b>>]
StillConfig == PoolConf(FALSE, "A", "me", 1, Row("B", "", 1), Row("C", "you", 1))
FourPoolConfigs ==
    {StillConfig,
     PoolConf(TRUE, "A", "me", 1, Row("B", "", 1), Row("C", "you", 1)),
     PoolConf(TRUE, "A", "us", 1, Row("B", "", 1), Row("C", "you", 2)),
     PoolConf(TRUE, "A", "", 2, Row("D", "", 1), Row("C", "you", 1))}

\* One block pays the login just below and just above the limit's rounding, one
\* pays mostly others, one does not parse.
Pays(to, value, others) ==
    <<[to |-> to, value |-> value], [to |-> "pool", value |-> others]>>
FourCoinbases ==
    [b \in 1 .. 4 |-> [w \in {"me", "odd"} |->
        CASE b = 1 -> Pays(w, 96995, 3005)
          [] b = 2 -> Pays("me", 5, 95)
          [] b = 3 -> Pays("me", 96994, 3006)
          [] b = 4 -> << >>]]

\* The components that stand still start in one state.
Init ==
    /\ moving \in {"config", "ota", "faults", "fan", "parameters", "scheduler",
                  "deadlines", "poolsettings", "payout"}
    /\ ConfigInit /\ (moving # "config" => flash = Erased)
    /\ OtaInit /\ (moving # "ota" => running = "factory" /\ images["ota_0"] = NoImage)
    /\ FaultLogInit
    /\ FanInit /\ (moving # "fan" => ~fanConf.override)
    /\ AsicInit /\ (moving # "parameters" => mined = {0} /\ announced[0].diff = 1)
    /\ SchedulerInit /\ (moving # "scheduler" => weights = <<50, 50>>)
    /\ DeadlinesInit
    /\ PoolSettingsInit /\ (moving # "poolsettings" => poolConf = StillConfig)
    /\ PayoutInit /\ (moving # "payout" => wallet = "me")

\* The component that moves leaves the others where they are.
OthersStand ==
    /\ UNCHANGED moving
    /\ IF moving = "config" THEN TRUE ELSE UNCHANGED configVars
    /\ IF moving = "ota" THEN TRUE ELSE UNCHANGED otaVars
    /\ IF moving = "faults" THEN TRUE ELSE UNCHANGED faultVars
    /\ IF moving = "fan" THEN TRUE ELSE UNCHANGED fanVars
    /\ IF moving = "parameters" THEN TRUE ELSE UNCHANGED asicParamVars
    /\ IF moving = "scheduler" THEN TRUE ELSE UNCHANGED schedulerVars
    /\ IF moving = "deadlines" THEN TRUE ELSE UNCHANGED deadlineVars
    /\ IF moving = "poolsettings" THEN TRUE ELSE UNCHANGED poolSettingsVars
    /\ IF moving = "payout" THEN TRUE ELSE UNCHANGED payoutVars

Next ==
    \/ moving = "config" /\ ConfigNext /\ OthersStand
    \/ moving = "ota" /\ OtaNext /\ OthersStand
    \/ moving = "faults" /\ FaultLogNext /\ OthersStand
    \/ moving = "fan" /\ FanNext /\ OthersStand
    \/ moving = "parameters" /\ AsicNext /\ OthersStand
    \/ moving = "scheduler" /\ SchedulerNext /\ OthersStand
    \/ moving = "deadlines" /\ DeadlinesNext /\ OthersStand
    \/ moving = "poolsettings" /\ PoolSettingsNext /\ OthersStand
    \/ moving = "payout" /\ PayoutNext /\ OthersStand

Spec == Init /\ [][Next]_vars
=============================================================================
