------------------------------ MODULE OtaInstall ------------------------------
(***************************************************************************)
(* Firmware uploads (src/main/wifi_http.c): the slot an image goes to, the *)
(* upload, its acceptance, the boot selection, the erasure of settings an  *)
(* older image cannot read, and the return to a retained AxeOS image;      *)
(* with power cuts at any step.                                            *)
(*                                                                         *)
(* An image is what its description names and whether all of it is there.  *)
(* The boot loader and the OTA library are external.  Other firmware runs  *)
(* until it installs this one again.                                       *)
(***************************************************************************)
EXTENDS Integers, Sequences, FiniteSets

CONSTANTS
    Files,       \* uploads: records [app, merged, whole]
    Foreign,     \* the board is not the one this firmware is for
    MaxUploads,  \* bound: uploads, by this and by other firmware
    MaxPowerLosses,  \* bound: power cuts
    MaxFlashFaults  \* bound: failures of flash and heap

Apps == {"m45", "older", "axeos"}  \* "older": of an older configuration epoch

ASSUME OtaAssumption ==
    /\ Files \subseteq [app : Apps, merged : BOOLEAN, whole : BOOLEAN]
    /\ Foreign \in BOOLEAN
    /\ MaxUploads \in Nat /\ MaxPowerLosses \in Nat /\ MaxFlashFaults \in Nat

\* The application partitions of partitions-*.csv.
OtaSlots == {"ota_0", "ota_1"}
Slots == OtaSlots \cup {"factory"}

VARIABLES
    images,    \* per slot: [app, whole]; app "none": no description
    running,   \* the slot that runs
    selected,  \* the slot otadata selects
    settings,  \* "newer": of this configuration epoch, or "erased"
    nvsUp,     \* nvs_flash is initialised
    upAt,      \* where the upload is
    upload,    \* its handler, file, X-Preserve-AxeOS and slot
    rebootDue, \* reboot_task runs
    uploads, powerLosses, flashFaults,  \* so far
    \* History: an upload took the slot that waits for the restart; the last
    \* start was not the one an upload planned; slots with a whole AxeOS image
    \* when the present upload began.
    overtaken, unplanned, retainedBefore

otaHistory == <<overtaken, unplanned, retainedBefore>>
otaCounts == <<uploads, powerLosses, flashFaults>>
otaVars == <<images, running, selected, settings, nvsUp, upAt, upload, rebootDue, otaCounts,
             otaHistory>>

NoImage == [app |-> "none", whole |-> FALSE]
NoUpload == [axeos |-> FALSE, app |-> "none", merged |-> FALSE, whole |-> FALSE,
             preserve |-> FALSE, slot |-> "none"]

WholeAxeos == {s \in Slots :
                  s # running /\ images[s] = [app |-> "axeos", whole |-> TRUE]}

\* First boot after an installation from AxeOS's update page or over USB.
OtaInit ==
    /\ running \in {"factory", "ota_0"}
    /\ \E spare \in {NoImage, [app |-> "axeos", whole |-> TRUE]} :
          images = [s \in Slots |->
                       IF s = running THEN [app |-> "m45", whole |-> TRUE] ELSE spare]
    /\ selected = running
    /\ settings = "newer" /\ nvsUp = TRUE
    /\ upAt = "idle" /\ upload = NoUpload /\ rebootDue = FALSE
    /\ uploads = 0 /\ powerLosses = 0 /\ flashFaults = 0
    /\ overtaken = FALSE /\ unplanned = FALSE /\ retainedBefore = {}

ThisRuns == images[running].app = "m45"
FlashFails == flashFaults < MaxFlashFaults /\ flashFaults' = flashFaults + 1

-----------------------------------------------------------------------------
(* Slots.                                                                  *)

\* esp_ota_get_next_update_partition.
NextSlot == IF running = "ota_0" THEN "ota_1" ELSE "ota_0"

\* partition_is_axeos reads the description only.
IsAxeos(slot) == images[slot].app = "axeos"
Retained == {s \in Slots : s # running /\ IsAxeos(s)}

\* select_ota_update_partition.
Targets(preserve) ==
    IF ~preserve \/ ~IsAxeos(NextSlot) \/ Cardinality(Retained) > 1
    THEN {NextSlot}
    ELSE {s \in OtaSlots : s # running /\ s # NextSlot /\ ~IsAxeos(s)}

\* find_retained_axeos_partition: an OTA slot before the factory slot.
RetainedFirst ==
    CASE "ota_0" \in Retained -> "ota_0"
      [] "ota_0" \notin Retained /\ "ota_1" \in Retained -> "ota_1"
      [] OTHER -> "factory"

\* The boot loader: the selected slot, then those before it, then those after.
BootOrder(slot) ==
    CASE slot = "factory" -> <<"factory", "ota_0", "ota_1">>
      [] slot = "ota_0" -> <<"ota_0", "factory", "ota_1">>
      [] slot = "ota_1" -> <<"ota_1", "ota_0", "factory">>

Bootable == {s \in Slots : images[s].whole}
BootChoice ==
    LET order == BootOrder(selected)
        first == CHOOSE i \in 1 .. 3 :
                     order[i] \in Bootable /\ \A k \in 1 .. i - 1 : order[k] \notin Bootable
    IN order[first]

-----------------------------------------------------------------------------
(* ota_install_handler.                                                    *)

OtaOnly == UNCHANGED <<running, settings, nvsUp, rebootDue, uploads, powerLosses, unplanned>>

Request ==
    /\ ThisRuns /\ upAt = "idle" /\ uploads < MaxUploads /\ uploads' = uploads + 1
    /\ \E file \in Files, axeos, wish \in BOOLEAN :
          LET preserve == wish /\ ~axeos IN
          \E slot \in Targets(preserve) :
             upload' = [axeos |-> axeos, app |-> file.app, merged |-> file.merged,
                        whole |-> file.whole, preserve |-> preserve, slot |-> slot]
    /\ upAt' = (IF upload'.merged THEN "head" ELSE "body")
    /\ retainedBefore' = WholeAxeos
    /\ UNCHANGED <<images, running, selected, settings, nvsUp, rebootDue, powerLosses, flashFaults,
                   overtaken, unplanned>>

\* esp_ota_begin erases the slot, and the first bytes are written: those of the
\* boot loader, which heads a merged file, or the description of the image.
BeginUpload(app) ==
    /\ images' = [images EXCEPT ![upload.slot] = [app |-> app, whole |-> FALSE]]
    /\ overtaken' = (overtaken \/ upload.slot = selected)

Head0 ==
    /\ upAt = "head" /\ upAt' = "table"
    /\ BeginUpload("none")
    /\ OtaOnly /\ UNCHANGED <<selected, upload, flashFaults, retainedBefore>>

\* The partition table of a merged file: the image starts again further on.
Table ==
    /\ upAt = "table" /\ upAt' = "body"
    /\ OtaOnly /\ UNCHANGED <<images, selected, upload, flashFaults, overtaken, retainedBefore>>

Body ==
    /\ upAt = "body" /\ upAt' = "rest"
    /\ BeginUpload(upload.app)
    /\ OtaOnly /\ UNCHANGED <<selected, upload, flashFaults, retainedBefore>>

Rest ==
    /\ upAt = "rest" /\ upAt' = "accept"
    /\ images' = [images EXCEPT ![upload.slot].whole = upload.whole]
    /\ OtaOnly /\ UNCHANGED <<selected, upload, flashFaults, overtaken, retainedBefore>>

Refuse == upAt' = "idle" /\ upload' = NoUpload /\ retainedBefore' = {}

\* A timeout, a lost connection or a failing write: esp_ota_abort.
Breaks ==
    /\ upAt \in {"head", "table", "body", "rest"}
    /\ Refuse
    /\ OtaOnly /\ UNCHANGED <<images, selected, flashFaults, overtaken>>

\* For the checks of the properties: the image is not validated.
AcceptByName ==
    /\ upAt = "accept"
    /\ upAt' = "select" /\ UNCHANGED <<upload, retainedBefore>>
    /\ OtaOnly /\ UNCHANGED <<images, selected, flashFaults, overtaken>>

\* esp_ota_end, validate_axeos_identity and validate_ota_identity.
Accept ==
    /\ upAt = "accept"
    /\ IF images[upload.slot].whole /\ (upload.axeos <=> upload.app = "axeos")
       THEN upAt' = "select" /\ UNCHANGED <<upload, retainedBefore>>
       ELSE Refuse
    /\ OtaOnly /\ UNCHANGED <<images, selected, flashFaults, overtaken>>

\* For the checks of the properties: the settings stay.
SelectOnly ==
    /\ upAt = "select"
    /\ selected' = upload.slot /\ upAt' = "reboot"
    /\ OtaOnly /\ UNCHANGED <<images, upload, flashFaults, overtaken, retainedBefore>>

\* esp_ota_set_boot_partition, which validates the image once more.
Select ==
    /\ upAt = "select"
    /\ \/ /\ selected' = upload.slot
          /\ upAt' = (IF upload.app = "older" THEN "erase" ELSE "reboot")
          /\ UNCHANGED <<upload, retainedBefore, flashFaults>>
       \/ FlashFails /\ Refuse /\ UNCHANGED selected
    /\ OtaOnly /\ UNCHANGED <<images, overtaken>>

\* nvs_flash_deinit and nvs_flash_erase; an error selects the old slot again.
Erase ==
    /\ upAt = "erase"
    /\ \/ /\ nvsUp /\ nvsUp' = FALSE /\ settings' = "erased"
          /\ upAt' = "reboot"
          /\ UNCHANGED <<upload, retainedBefore, selected, flashFaults>>
       \/ /\ FlashFails
          /\ nvsUp' \in {nvsUp, FALSE} /\ selected' = running
          /\ Refuse /\ UNCHANGED settings
       \/ /\ ~nvsUp /\ selected' = running
          /\ Refuse /\ UNCHANGED <<nvsUp, settings, flashFaults>>
    /\ UNCHANGED <<images, running, rebootDue, uploads, powerLosses, overtaken, unplanned>>

\* reboot_task, unless the heap is short.
Schedule ==
    /\ upAt = "reboot"
    /\ Refuse
    /\ \/ rebootDue' = TRUE /\ UNCHANGED flashFaults
       \/ FlashFails /\ UNCHANGED rebootDue
    /\ UNCHANGED <<images, running, selected, settings, nvsUp, uploads, powerLosses, overtaken,
                   unplanned>>

UploadStep == Head0 \/ Table \/ Body \/ Rest \/ Breaks \/ Accept \/ Select \/ Erase \/ Schedule

-----------------------------------------------------------------------------
(* The return to AxeOS, restarts, and other firmware.                      *)

\* axeos_return_handler; the selection validates the image.
AxeosReturn ==
    /\ ThisRuns /\ Foreign /\ upAt = "idle" /\ ~rebootDue
    /\ Retained # {} /\ images[RetainedFirst].whole
    /\ selected' = RetainedFirst /\ rebootDue' = TRUE
    /\ UNCHANGED <<images, running, settings, nvsUp, upAt, upload, otaCounts, otaHistory>>

\* A start writes settings of the firmware's own epoch.
StartSlot(slot) ==
    /\ running' = slot
    /\ settings' = IF images[slot].app = "m45" THEN "newer" ELSE settings
    /\ nvsUp' = TRUE /\ rebootDue' = FALSE
    /\ upAt' = "idle" /\ upload' = NoUpload /\ retainedBefore' = {}
    /\ overtaken' = (overtaken /\ slot # selected)

\* reboot_task, or POST /api/reboot; the server handles one request at a time,
\* but reboot_task does not wait for it.
StartSelected ==
    /\ ThisRuns /\ (rebootDue \/ upAt = "idle") /\ running # BootChoice
    /\ StartSlot(BootChoice)
    /\ unplanned' = (selected # BootChoice \/ upAt # "idle" \/ overtaken)
    /\ UNCHANGED <<images, selected, uploads, powerLosses, flashFaults>>

PowerCut ==
    /\ powerLosses < MaxPowerLosses /\ powerLosses' = powerLosses + 1
    /\ StartSlot(BootChoice)
    /\ unplanned' = TRUE
    /\ UNCHANGED <<images, selected, uploads, flashFaults>>

\* Other firmware installs this one into its next slot.
OtherInstalls ==
    /\ ~ThisRuns /\ uploads < MaxUploads /\ uploads' = uploads + 1
    /\ images' = [images EXCEPT ![NextSlot] = [app |-> "m45", whole |-> TRUE]]
    /\ selected' = NextSlot /\ running' = NextSlot
    /\ settings' = "newer" /\ nvsUp' = TRUE /\ rebootDue' = FALSE
    /\ overtaken' = FALSE /\ unplanned' = FALSE
    /\ UNCHANGED <<upAt, upload, powerLosses, flashFaults, retainedBefore>>

OtaNext == Request \/ UploadStep \/ AxeosReturn \/ StartSelected \/ PowerCut \/ OtherInstalls

-----------------------------------------------------------------------------

\* The selected slot holds a whole image at every step of every upload, so that
\* a power cut boots what ran or what was accepted, unless an upload began in
\* the half second between the acceptance of another and its restart, or after
\* a restart that could not be scheduled (wifi_http.c:2898-3130).
SelectedIsWhole == images[selected].whole \/ overtaken

\* Firmware of an older configuration epoch never starts on newer settings,
\* unless power failed, an upload overtook a restart or the boot loader fell
\* back to it (wifi_http.c:3098-3121, README.md:103-104).
OlderFindsErased == images[running].app = "older" /\ settings = "newer" => unplanned

InSlot(slot) == [at |-> slot, app |-> images[slot].app]
OfferAtHand ==
    IF upAt = "idle" THEN {}
    ELSE {[axeos |-> upload.axeos, app |-> upload.app, whole |-> upload.whole]}

Switch == INSTANCE FirmwareSwitch WITH
    Places <- Slots, firmware <- InSlot(running),
    next <- InSlot(BootChoice), waiting <- selected # running, offered <- OfferAtHand

\* However an upload is cut, refused or taken back, and whenever power fails, what
\* the next start runs changes at one instant, to an upload that was whole and of
\* the kind asked for, or not at all; and the settings are erased only for older
\* firmware that runs next (ota_install_handler, axeos_return_handler).
UploadsSwitchAtOnce == Switch!SwitchSpec

\* docs/json-endpoints.md:412-413: X-Preserve-AxeOS requires "that at least one
\* validated retained AxeOS/ESP-Miner application remain after the update"
\* (wifi_http.c:163-183).
PreservedAxeosRemains ==
    upload.preserve /\ upAt \in {"select", "erase", "reboot"} /\ retainedBefore # {} => WholeAxeos # {}
=============================================================================
