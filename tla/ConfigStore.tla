----------------------------- MODULE ConfigStore -----------------------------
(***************************************************************************)
(* The configuration: one copy in RAM and one in flash (m45_config.c).     *)
(*                                                                         *)
(* A reader takes a whole copy of the RAM configuration and a writer puts  *)
(* a whole one back, each in a critical section of its own.  Requests run  *)
(* one after the other in the HTTP server's task; a receive task caches a  *)
(* pool's address and the result task records the best difficulty while a  *)
(* request is under way.  A write to flash takes effect key by key, may    *)
(* fail, and the power may go at any moment.                               *)
(*                                                                         *)
(* The settings are one value, the request they come from; a save's keys   *)
(* are four: the first one, which tells a boot that there are settings,    *)
(* the ones between, the schema version and the imported board's identity. *)
(***************************************************************************)
EXTENDS Integers

CONSTANTS Boards,       \* boards AxeOS's namespace may name; "none": there is none
          MaxRequests,  \* bound: HTTP requests
          MaxBest,      \* bound: the best difficulty
          MaxCuts       \* bound: power failures and failing flash accesses

ASSUME ConfigAssumption ==
    /\ Boards \subseteq {"none", "602", "foreign"}
    /\ MaxRequests \in Nat /\ MaxBest \in Nat /\ MaxCuts \in Nat

VARIABLES
    runtime,   \* g_config
    flash,     \* the NVS namespace of M45
    identity,  \* g_imported_board_version, or "none" without an identity
    axeos,     \* the board AxeOS's namespace names, or "none" without one
    best,      \* g_best_diff
    up,        \* the configuration is loaded and the tasks are running
    httpAt, rxAt, resultAt,  \* where each task is; httpAt also the boot's
    request,   \* what the HTTP server's task is asked for
    new, old,  \* the request's configuration and the one it replaces
    rebooting, \* a reboot task waits for its delay
    rxCopy,    \* the receive task's copy
    resCopy, diff,           \* the result task's copy; the difficulty it records
    requests, cuts,          \* so far
    \* History: the settings the last request left in force; those the last
    \* save made durable, or Gone; the tasks whose copy is older than a store
    \* of a request; whether such a copy was stored; whether a reset of the
    \* best difficulty met a record or a copy, or its key is not written;
    \* whether the identity's write was cut or the user erased it.
    intended, durable, aged, overlapped, raced, identityCut

requestVars == <<request, new, old, rebooting, requests>>
partialVars == <<rxAt, resultAt, rxCopy, resCopy, diff>>
configHistory == <<intended, durable, aged, overlapped, raced, identityCut>>
configVars == <<runtime, flash, identity, axeos, best, up, httpAt, requestVars,
                partialVars, cuts, configHistory>>

Gone == -1
Defaults == [settings |-> 0, best |-> 0]   \* defaults, or imported settings
Erased == [first |-> FALSE, settings |-> Gone, schema |-> "none", board |-> "none",
           best |-> 0]

ConfigInit ==
    /\ axeos \in Boards
    /\ flash \in {Erased} \cup [first : {TRUE}, settings : {0}, board : {axeos},
                               schema : {"older", "current", "newer"}, best : {1}]
    /\ runtime = Defaults /\ identity = "none" /\ best = 0 /\ up = FALSE
    /\ httpAt = "boot" /\ rxAt = "idle" /\ resultAt = "idle"
    /\ request = "none" /\ rebooting = FALSE
    /\ new = Defaults /\ old = Defaults /\ rxCopy = Defaults /\ resCopy = Defaults
    /\ diff = 0 /\ requests = 0 /\ cuts = 0
    /\ intended = 0 /\ durable = Gone /\ aged = {}
    /\ overlapped = FALSE /\ raced = FALSE /\ identityCut = FALSE

\* A write of the key, or what happens if it fails.
Write(key, value) == flash' = [flash EXCEPT ![key] = value] /\ UNCHANGED cuts
WriteFails == cuts < MaxCuts /\ cuts' = cuts + 1 /\ UNCHANGED flash

Done == httpAt' = "idle" /\ request' = "none" /\ new' = Defaults /\ old' = Defaults

\* A request replaces the configuration under the copies the others hold.
AgeCopies ==
    aged' = aged \cup (IF rxAt = "r.store" THEN {"rx"} ELSE {})
                 \cup (IF resultAt = "b.store" THEN {"result"} ELSE {})

\* Where a save, an erasure or a boot has keys left to write.
SavingAt == {"s.settings", "s.schema", "s.board", "f.first"}

-----------------------------------------------------------------------------
(* A boot: m45_config_load, and a restart.  An error aborts the boot.      *)

HasConfig == flash.schema # "none" \/ flash.first

\* A boot has written a first key and not yet the identity's.
IdentityAtRisk == ~up /\ httpAt \in {"s.settings", "s.schema", "s.board", "b.board"}

Restart ==
    /\ up' = FALSE /\ httpAt' = "boot" /\ rxAt' = "idle" /\ resultAt' = "idle"
    /\ runtime' = Defaults /\ identity' = "none" /\ best' = 0
    /\ request' = "none" /\ rebooting' = FALSE
    /\ new' = Defaults /\ old' = Defaults /\ rxCopy' = Defaults /\ resCopy' = Defaults
    /\ diff' = 0 /\ aged' = {} /\ overlapped' = FALSE /\ raced' = (raced /\ ~HasConfig)
    /\ identityCut' = (identityCut \/ IdentityAtRisk)
    /\ UNCHANGED <<flash, axeos, requests, intended>>

PowerFails ==
    /\ cuts < MaxCuts /\ cuts' = cuts + 1
    /\ durable' = IF httpAt \in SavingAt THEN Gone ELSE durable
    /\ Restart

\* reboot_task, factory_reset_reboot_task
Reboot ==
    /\ rebooting
    /\ durable' = IF httpAt \in SavingAt THEN Gone ELSE durable
    /\ Restart /\ UNCHANGED cuts

Start(loaded) ==
    /\ runtime' = loaded /\ best' = loaded.best /\ intended' = loaded.settings
    /\ up' = TRUE /\ httpAt' = "idle"

Loaded == [settings |-> IF flash.settings = Gone THEN 0 ELSE flash.settings,
           best |-> flash.best]

BootUnchanged == UNCHANGED <<axeos, requestVars, partialVars, durable, aged,
                             overlapped, raced, identityCut>>

BootImport ==
    /\ httpAt = "boot" /\ ~HasConfig /\ axeos # "none"
    /\ identity' = axeos
    /\ runtime' = Defaults
    /\ httpAt' = "s.first"
    /\ BootUnchanged /\ UNCHANGED <<flash, best, up, cuts, intended>>

BootLoad ==
    /\ httpAt = "boot" /\ (HasConfig \/ axeos = "none")
    /\ identity' = flash.board
    /\ IF flash.schema = "current"
       THEN Start(Loaded)
       ELSE /\ httpAt' = IF flash.schema = "newer" THEN "b.erase" ELSE "b.migrate"
            /\ UNCHANGED <<runtime, best, up, intended>>
    /\ BootUnchanged /\ UNCHANGED <<flash, cuts>>

BootErase ==
    /\ httpAt = "b.erase"
    /\ flash' = Erased
    /\ httpAt' = "b.schema"
    /\ BootUnchanged /\ UNCHANGED <<runtime, identity, best, up, cuts, intended>>

BootSchema ==
    /\ httpAt = "b.schema"
    /\ Write("schema", "current")
    /\ httpAt' = "b.board"
    /\ BootUnchanged /\ UNCHANGED <<runtime, identity, best, up, intended>>

BootBoardForgets ==   \* mutant: an erased downgrade drops the identity
    /\ httpAt = "b.board"
    /\ Start(Defaults)
    /\ BootUnchanged /\ UNCHANGED <<flash, identity, cuts>>

BootBoard ==
    /\ httpAt = "b.board"
    /\ Write("board", identity)
    /\ Start(Defaults)
    /\ BootUnchanged /\ UNCHANGED identity

BootMigrate ==
    /\ httpAt = "b.migrate"
    /\ Write("schema", "current")
    /\ Start(Loaded)
    /\ BootUnchanged /\ UNCHANGED identity

BootStep == BootImport \/ BootLoad \/ BootErase \/ BootSchema \/ BootBoard \/ BootMigrate

-----------------------------------------------------------------------------
(* m45_config_save, of a request or of a boot's import.                    *)

SaveUnchanged == UNCHANGED <<runtime, identity, axeos, best, up, requestVars,
                             partialVars, aged, overlapped, raced, identityCut>>

SaveFirst ==
    /\ httpAt = "s.first"
    /\ Write("first", TRUE)
    /\ durable' = Gone /\ httpAt' = "s.settings"
    /\ SaveUnchanged /\ UNCHANGED intended

SaveSettingsAnyway ==   \* mutant: the result of a key is not checked
    /\ httpAt = "s.settings"
    /\ Write("settings", new.settings) \/ WriteFails
    /\ httpAt' = "s.schema"
    /\ SaveUnchanged /\ UNCHANGED <<intended, durable>>

SaveSettingsAndBest ==   \* mutant: the best difficulty is saved with the settings
    /\ httpAt = "s.settings"
    /\ flash' = [flash EXCEPT !.settings = new.settings, !.best = new.best] /\ UNCHANGED cuts
    /\ httpAt' = "s.schema"
    /\ SaveUnchanged /\ UNCHANGED <<intended, durable>>

SaveSettings ==
    /\ httpAt = "s.settings"
    /\ Write("settings", new.settings)
    /\ httpAt' = "s.schema"
    /\ SaveUnchanged /\ UNCHANGED <<intended, durable>>

SaveSchema ==
    /\ httpAt = "s.schema"
    /\ Write("schema", "current")
    /\ httpAt' = "s.board"
    /\ SaveUnchanged /\ UNCHANGED <<intended, durable>>

SaveBoard ==
    /\ httpAt = "s.board"
    /\ IF identity = "none" THEN UNCHANGED <<flash, cuts>> ELSE Write("board", identity)
    /\ httpAt' = "s.best"
    /\ SaveUnchanged /\ UNCHANGED <<intended, durable>>

\* The best difficulty of the moment, and the store; the request succeeds.
SaveBest ==
    /\ httpAt = "s.best"
    /\ new' = [new EXCEPT !.best = runtime.best]
    /\ httpAt' = "s.store"
    /\ UNCHANGED <<runtime, flash, identity, axeos, best, up, request, old, rebooting,
                   requests, partialVars, cuts, configHistory>>

SaveStore ==
    /\ httpAt = "s.store"
    /\ runtime' = new /\ best' = (IF up THEN best ELSE new.best) /\ up' = TRUE
    /\ intended' = new.settings /\ durable' = new.settings
    /\ AgeCopies
    /\ rebooting' = (rebooting \/ request = "setup")
    /\ Done
    /\ UNCHANGED <<flash, identity, axeos, requests, partialVars, cuts, overlapped,
                   raced, identityCut>>

SaveStep == SaveFirst \/ SaveSettings \/ SaveSchema \/ SaveBoard \/ SaveBest \/ SaveStore

\* An access fails: a settings request reverts, a setup request just fails, a
\* boot aborts.
SaveFails ==
    /\ httpAt \in {"s.first"} \cup SavingAt /\ httpAt # "f.first" /\ up
    /\ WriteFails
    /\ IF request = "settings"
       THEN httpAt' = "v.best" /\ UNCHANGED <<request, new, old>>
       ELSE Done
    /\ UNCHANGED <<runtime, identity, axeos, best, up, rebooting, requests, partialVars,
                   configHistory>>

BootFails ==
    /\ ~up
    /\ cuts < MaxCuts /\ cuts' = cuts + 1
    /\ UNCHANGED durable
    /\ Restart

-----------------------------------------------------------------------------
(* Requests: settings_post_handler and espminer_system_patch_handler       *)
(* ("settings"), runtime_tune_handler ("tune"), setup_post_handler         *)
(* ("setup"), settings_factory_reset_handler and best_diff_reset_handler.  *)

HttpUnchanged == UNCHANGED <<flash, identity, axeos, best, up, rebooting, partialVars, cuts>>

\* The snapshot, with the settings of the request merged into it.
Begin(kind, first) ==
    /\ up /\ httpAt = "idle" /\ requests < MaxRequests
    /\ requests' = requests + 1
    /\ request' = kind /\ httpAt' = first
    /\ new' = IF kind \in {"settings", "tune", "setup"}
              THEN [runtime EXCEPT !.settings = requests'] ELSE new
    /\ UNCHANGED <<runtime, old, configHistory>> /\ HttpUnchanged

TakeOld ==
    /\ httpAt = "h.old"
    /\ old' = runtime
    /\ httpAt' = "h.best"
    /\ UNCHANGED <<runtime, request, new, requests, configHistory>> /\ HttpUnchanged

\* m45_config_set_runtime: the present best difficulty, then the store.
SetRuntimeBest ==
    /\ httpAt \in {"h.best", "v.best"}
    /\ IF httpAt = "h.best"
       THEN new' = [new EXCEPT !.best = runtime.best] /\ httpAt' = "h.store" /\ UNCHANGED old
       ELSE old' = [old EXCEPT !.best = runtime.best] /\ httpAt' = "v.store" /\ UNCHANGED new
    /\ UNCHANGED <<runtime, request, requests, configHistory>> /\ HttpUnchanged

SetRuntimeStore ==
    /\ httpAt = "h.store"
    /\ runtime' = new
    /\ AgeCopies
    /\ httpAt' = "h.apply"
    /\ UNCHANGED <<request, new, old, requests, intended, durable, overlapped, raced,
                   identityCut>>
    /\ HttpUnchanged

ApplyNoRevert ==   \* mutant: the error path leaves the new settings in force
    /\ httpAt = "h.apply"
    /\ \/ /\ request = "settings"
          /\ httpAt' = "s.first" /\ UNCHANGED <<intended, request, new, old>>
       \/ /\ request = "tune"
          /\ intended' = new.settings /\ Done
       \/ Done /\ UNCHANGED intended
    /\ UNCHANGED <<runtime, requests, durable, aged, overlapped, raced, identityCut>>
    /\ HttpUnchanged

\* apply_hardware_settings succeeds, or fails and the settings are reverted.
Apply ==
    /\ httpAt = "h.apply"
    /\ \/ /\ request = "settings"
          /\ httpAt' = "s.first" /\ UNCHANGED <<intended, request, new, old>>
       \/ /\ request = "tune"
          /\ intended' = new.settings /\ Done
       \/ httpAt' = "v.best" /\ UNCHANGED <<intended, request, new, old>>
    /\ UNCHANGED <<runtime, requests, durable, aged, overlapped, raced, identityCut>>
    /\ HttpUnchanged

Revert ==
    /\ httpAt = "v.store"
    /\ runtime' = old
    /\ AgeCopies
    /\ Done
    /\ UNCHANGED <<requests, intended, durable, overlapped, raced, identityCut>>
    /\ HttpUnchanged

\* stratum_minimal_reset_best_diff
ResetWrite ==
    /\ httpAt = "d.write"
    /\ \/ Write("best", 0) /\ httpAt' = "d.copy" /\ UNCHANGED request
       \/ WriteFails /\ httpAt' = "idle" /\ request' = "none"
    /\ raced' = (raced \/ resultAt # "idle" \/ rxAt # "idle")
    /\ UNCHANGED <<runtime, identity, axeos, best, up, new, old, rebooting, requests,
                   partialVars, intended, durable, aged, overlapped, identityCut>>

ResetCopy ==
    /\ httpAt = "d.copy"
    /\ new' = [runtime EXCEPT !.best = 0]
    /\ httpAt' = "d.store"
    /\ UNCHANGED <<runtime, request, old, requests, configHistory>> /\ HttpUnchanged

ResetStore ==
    /\ httpAt = "d.store"
    /\ runtime' = new
    /\ httpAt' = "d.zero"
    /\ UNCHANGED <<request, new, old, requests, configHistory>> /\ HttpUnchanged

ResetZero ==
    /\ httpAt = "d.zero"
    /\ best' = 0
    /\ Done
    /\ UNCHANGED <<runtime, flash, identity, axeos, up, rebooting, requests, partialVars,
                   cuts, configHistory>>

\* m45_config_factory_reset
FactoryErase ==
    /\ httpAt = "f.erase"
    /\ flash' = Erased
    /\ durable' = Gone /\ raced' = TRUE /\ identityCut' = TRUE
    /\ httpAt' = "f.first"
    /\ UNCHANGED <<runtime, identity, axeos, best, up, requestVars, partialVars, cuts,
                   intended, aged, overlapped>>

FactoryFirst ==
    /\ httpAt = "f.first"
    /\ \/ Write("first", TRUE) /\ httpAt' = "f.store" /\ UNCHANGED <<request, new, old>>
       \/ WriteFails /\ Done
    /\ UNCHANGED <<runtime, identity, axeos, best, up, rebooting, requests, partialVars,
                   configHistory>>

FactoryStore ==
    /\ httpAt = "f.store"
    /\ runtime' = Defaults /\ intended' = 0
    /\ AgeCopies
    /\ rebooting' = TRUE /\ Done
    /\ UNCHANGED <<flash, identity, axeos, best, up, requests, partialVars, cuts, durable,
                   overlapped, raced, identityCut>>

HttpStep ==
    \/ \E kind \in {"settings", "tune"} : Begin(kind, "h.old")
    \/ Begin("setup", "s.first") \/ Begin("resetBest", "d.write") \/ Begin("factory", "f.erase")
    \/ TakeOld \/ SetRuntimeBest \/ SetRuntimeStore \/ Apply \/ Revert
    \/ ResetWrite \/ ResetCopy \/ ResetStore \/ ResetZero
    \/ FactoryErase \/ FactoryFirst \/ FactoryStore

-----------------------------------------------------------------------------
(* The partial updates of the receive and the result task.                 *)

PartialUnchanged == UNCHANGED <<identity, axeos, up, httpAt, requestVars, intended,
                                durable, identityCut>>

\* A copy is put back: it may undo what a request stored since.
PutBack(task, copy) ==
    /\ runtime' = copy
    /\ overlapped' = (overlapped \/ task \in aged)
    /\ aged' = aged \ {task}

\* m45_config_set_pool_ip_cache, m45_config_set_aux_pool_ip_cache
CacheCopy ==
    /\ up /\ rxAt = "idle"
    /\ rxCopy' = runtime
    /\ rxAt' = "r.store"
    /\ raced' = (raced \/ request = "resetBest")
    /\ PartialUnchanged
    /\ UNCHANGED <<runtime, flash, best, resultAt, resCopy, diff, cuts, aged, overlapped>>

CacheStore ==
    /\ rxAt = "r.store"
    /\ PutBack("rx", rxCopy)
    /\ rxAt' = "idle" /\ rxCopy' = Defaults
    /\ PartialUnchanged
    /\ UNCHANGED <<flash, best, resultAt, resCopy, diff, cuts, raced>>

CacheFails ==
    /\ rxAt = "r.store"
    /\ WriteFails
    /\ rxAt' = "idle" /\ rxCopy' = Defaults /\ aged' = aged \ {"rx"}
    /\ PartialUnchanged
    /\ UNCHANGED <<runtime, best, resultAt, resCopy, diff, overlapped, raced>>

\* record_best_diff, then m45_config_set_best_diff
RecordBest ==
    /\ up /\ resultAt = "idle" /\ best < MaxBest
    /\ diff' \in (best + 1)..MaxBest
    /\ best' = diff'
    /\ resultAt' = "b.compare"
    /\ raced' = (raced \/ request = "resetBest")
    /\ PartialUnchanged
    /\ UNCHANGED <<runtime, flash, rxAt, rxCopy, resCopy, cuts, aged, overlapped>>

CompareBest ==
    /\ resultAt = "b.compare"
    /\ IF diff <= runtime.best
       THEN resultAt' = "idle" /\ diff' = 0
       ELSE resultAt' = "b.write" /\ UNCHANGED diff
    /\ PartialUnchanged
    /\ UNCHANGED <<runtime, flash, best, rxAt, rxCopy, resCopy, cuts, aged, overlapped, raced>>

WriteBest ==
    /\ resultAt = "b.write"
    /\ \/ Write("best", diff) /\ resultAt' = "b.copy" /\ UNCHANGED <<diff, raced>>
       \/ WriteFails /\ resultAt' = "idle" /\ diff' = 0 /\ raced' = TRUE
    /\ PartialUnchanged
    /\ UNCHANGED <<runtime, best, rxAt, rxCopy, resCopy, aged, overlapped>>

CopyBest ==
    /\ resultAt = "b.copy"
    /\ resCopy' = runtime
    /\ resultAt' = "b.store"
    /\ PartialUnchanged
    /\ UNCHANGED <<runtime, flash, best, rxAt, rxCopy, diff, cuts, aged, overlapped, raced>>

StoreBest ==
    /\ resultAt = "b.store"
    /\ IF diff > resCopy.best
       THEN PutBack("result", [resCopy EXCEPT !.best = diff])
       ELSE aged' = aged \ {"result"} /\ UNCHANGED <<runtime, overlapped>>
    /\ resultAt' = "idle" /\ resCopy' = Defaults /\ diff' = 0
    /\ PartialUnchanged
    /\ UNCHANGED <<flash, best, rxAt, rxCopy, cuts, raced>>

PartialStep ==
    \/ CacheCopy \/ CacheStore \/ CacheFails
    \/ RecordBest \/ CompareBest \/ WriteBest \/ CopyBest \/ StoreBest

ConfigNext == BootStep \/ SaveStep \/ SaveFails \/ BootFails \/ HttpStep \/ PartialStep
                  \/ PowerFails \/ Reboot

-----------------------------------------------------------------------------

\* Between requests the RAM configuration holds the settings the last one left
\* in force, whether it succeeded or was reverted, except after a partial
\* update stored a copy older than a request's store (m45_config.c:1217).
SettingsHoldUnlessOverlapped ==
    up /\ httpAt = "idle" /\ ~overlapped => runtime.settings = intended

\* What a save acknowledged is what the next boot loads, whatever the partial
\* updates did to the RAM configuration meanwhile, and whatever the migration
\* of the schema does, until another save begins (m45_config.c:918-1152).
SavedSettingsBoot ==
    httpAt = "idle" /\ durable # Gone =>
        /\ HasConfig /\ flash.schema = "current"
        /\ Loaded.settings = durable

\* With no record or reset under way the best difficulty in flash is the one
\* the miner counts with, unless a reset met a record or an older copy, or the
\* write failed (stratum_minimal.c:1516-1535, m45_config.c:1297-1330).
BestPersists ==
    up /\ resultAt = "idle" /\ request # "resetBest" /\ ~raced => flash.best = best

\* An imported board that is no Gamma 602 is known as such as long as no boot
\* was cut between a namespace's first key and its identity, and the user
\* erased nothing (m45_config.c:464-473, 1131-1139).
ForeignBoardKnown == up /\ axeos = "foreign" /\ ~identityCut => identity = "foreign"
=============================================================================
