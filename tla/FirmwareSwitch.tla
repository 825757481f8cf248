---------------------------- MODULE FirmwareSwitch ----------------------------
(***************************************************************************)
(* What a firmware update promises, without slots, steps of an upload or   *)
(* boot loader: what a start would run changes at one instant, to an upload *)
(* that is whole and of the kind that was asked for, and until then any     *)
(* power cut starts what ran.  Only an older firmware that is to run next   *)
(* costs the settings.                                                      *)
(***************************************************************************)
CONSTANTS Places, Apps

VARIABLES
    firmware, \* what runs: [at, app]
    next,     \* what a start would run
    waiting,  \* an update waits for the next start
    settings, \* "newer": of this firmware's epoch, or "erased"
    offered   \* the upload at hand, if any: [axeos, app, whole]

switchVars == <<firmware, next, waiting, settings, offered>>

Firmware == [at : Places, app : Apps]
Offers == [axeos : BOOLEAN, app : Apps, whole : BOOLEAN]

SwitchInit ==
    /\ firmware \in Firmware /\ firmware.app = "m45" /\ next = firmware
    /\ waiting = FALSE /\ settings = "newer" /\ offered = {}

Receive ==
    /\ firmware.app = "m45" /\ offered = {} /\ \E o \in Offers : offered' = {o}
    /\ UNCHANGED <<firmware, next, waiting, settings>>

Drop ==
    /\ offered' = {}
    /\ UNCHANGED <<firmware, next, waiting, settings>>

\* What runs is never replaced; it stays where it is.
Becomes(app) ==
    /\ firmware.app = "m45"
    /\ next' \in Firmware /\ next'.app = app /\ next'.at # firmware.at
    /\ waiting' = TRUE
    /\ UNCHANGED <<firmware, settings, offered>>

\* The upload is what the next start runs; or an AxeOS image kept from before is.
Take ==
    \E o \in offered : o.whole /\ (o.axeos <=> o.app = "axeos") /\ Becomes(o.app)

Return == offered = {} /\ Becomes("axeos")

\* Firmware of an older epoch is not to find the settings; if they cannot be
\* erased, the update is taken back.
IsForOlder == waiting /\ next.app = "older" /\ \E o \in offered : o.app = "older"

EraseSettings ==
    /\ IsForOlder
    /\ settings' = "erased" /\ UNCHANGED <<firmware, next, waiting, offered>>

TakeBack ==
    /\ IsForOlder
    /\ next' = firmware /\ waiting' = FALSE /\ offered' = {}
    /\ UNCHANGED <<firmware, settings>>

\* An upload may take the place of one that waits for its start.
Overtake ==
    /\ waiting /\ offered # {}
    /\ next' \in Firmware
    /\ UNCHANGED <<firmware, waiting, settings, offered>>

\* A restart or a power cut.  What was overtaken may be waiting still.
StartNext ==
    /\ firmware' = next /\ waiting' \in {FALSE, waiting} /\ offered' = {}
    /\ settings' = IF next.app = "m45" THEN "newer" ELSE settings
    /\ UNCHANGED next

\* Other firmware installs this one.
OtherFirmware ==
    /\ firmware.app # "m45"
    /\ firmware' \in Firmware /\ firmware'.app = "m45" /\ next' = firmware'
    /\ waiting' = FALSE /\ settings' = "newer" /\ UNCHANGED offered

SwitchNext == \/ Receive \/ Drop \/ Take \/ Return \/ EraseSettings \/ TakeBack
              \/ Overtake \/ StartNext \/ OtherFirmware

SwitchSpec == SwitchInit /\ [][SwitchNext]_switchVars
=============================================================================
