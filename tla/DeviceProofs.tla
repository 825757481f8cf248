---------------------------- MODULE DeviceProofs ----------------------------
(***************************************************************************)
(* What MCDevice checks of these components on small instances holds for   *)
(* every value of their constants.  The components share no state: each    *)
(* part states a specification of its component, the inductive invariant,  *)
(* what each action does to it, and the theorems.                          *)
(***************************************************************************)
EXTENDS ConfigStore, OtaInstall, FaultLog, Fan, AsicParameters, MonitorDeadlines, BlockPayout,
        PoolSettings, PoolScheduler, FiniteSetTheorems, TLAPS

-----------------------------------------------------------------------------
(* The configuration store.  Settings and best difficulty have copies in   *)
(* RAM, in the requests and in the tasks; the invariant says which of them *)
(* agree at which step of a save, a tuning, a reset or a boot.             *)

ConfigSpec == ConfigInit /\ [][ConfigNext]_configVars

RamCopies == [settings : Int, best : Nat]
BoardNames == Boards \cup {"none"}
BootLabels == {"boot", "b.erase", "b.schema", "b.board", "b.migrate"}
SaveLabels == {"s.first", "s.settings", "s.schema", "s.board", "s.best", "s.store"}
TuneLabels == {"h.old", "h.best", "h.store", "h.apply", "v.best", "v.store"}
ResetLabels == {"d.write", "d.copy", "d.store", "d.zero"}

ConfTypes ==
    /\ runtime \in RamCopies /\ new \in RamCopies /\ old \in RamCopies
    /\ rxCopy \in RamCopies /\ resCopy \in RamCopies
    /\ flash \in [first : BOOLEAN, settings : Int, board : BoardNames,
                  schema : {"none", "older", "current", "newer"}, best : Nat]
    /\ axeos \in Boards /\ identity \in BoardNames
    /\ best \in Nat /\ diff \in Nat /\ requests \in Nat
    /\ up \in BOOLEAN /\ overlapped \in BOOLEAN /\ raced \in BOOLEAN
    /\ identityCut \in BOOLEAN

\* Where the tasks are: before the configuration is loaded there is only the boot,
\* which may save an import; afterwards a request has labels of its own.
ConfControl ==
    /\ httpAt \in BootLabels \cup SaveLabels \cup TuneLabels \cup ResetLabels
                    \cup {"idle", "f.erase", "f.first", "f.store"}
    /\ ~up => /\ httpAt \in BootLabels \cup SaveLabels
              /\ request = "none" /\ rxAt = "idle" /\ resultAt = "idle" /\ old = Defaults
    /\ httpAt \in BootLabels => ~up /\ new = Defaults
    /\ up /\ httpAt \in SaveLabels => request \in {"settings", "setup"}
    /\ httpAt \in TuneLabels => request \in {"settings", "tune"}
    /\ request = "resetBest" <=> httpAt \in ResetLabels
    /\ rxAt \in {"idle", "r.store"} /\ (rxAt = "idle" => rxCopy = Defaults)
    /\ resultAt \in {"idle", "b.compare", "b.write", "b.copy", "b.store"}
    /\ resultAt # "b.store" => resCopy = Defaults

\* The request's settings are in force until it is over, or are to be put back.
Replaced == \/ httpAt \in {"h.apply", "v.best", "v.store"}
            \/ httpAt \in SaveLabels /\ request = "settings"

\* As long as no stale copy was stored, every copy has the settings in RAM, and these
\* are the ones in force or the request knows those to go back to.
SettingsFollow == ~overlapped =>
    /\ rxAt = "r.store" /\ "rx" \notin aged => rxCopy.settings = runtime.settings
    /\ resultAt = "b.store" /\ "result" \notin aged => resCopy.settings = runtime.settings
    /\ up /\ ~Replaced => runtime.settings = intended
    /\ Replaced \/ httpAt \in {"h.best", "h.store"} => old.settings = intended
    /\ httpAt = "h.apply" => runtime.settings = new.settings
    /\ httpAt = "d.store" => new.settings = runtime.settings

\* What is durable is in flash under the current schema; a save in progress has
\* given it up and has written the keys before the next one.
DurableIsWritten ==
    /\ durable # Gone => flash.schema = "current" /\ flash.settings = durable
    /\ httpAt \in (SaveLabels \ {"s.first"}) \cup {"b.erase"} => durable = Gone
    /\ httpAt \in SaveLabels \ {"s.first", "s.settings"} => flash.settings = new.settings
    /\ httpAt \in SaveLabels \ {"s.first", "s.settings", "s.schema"} => flash.schema = "current"

\* Unless it raced, a record is above every copy until it has been compared, and flash
\* has the best difficulty but for the steps of a record or a reset.
BestIsKept == ~raced =>
    /\ up \/ httpAt = "b.board" => HasConfig
    /\ up /\ resultAt \notin {"b.compare", "b.write"}
          /\ httpAt \notin {"d.copy", "d.store", "d.zero"} => flash.best = best
    /\ resultAt # "idle" => diff = best
    /\ up => \A copy \in {runtime, new, old, rxCopy, resCopy} :
                copy.best <= best /\ (resultAt = "b.compare" => copy.best < best)
    /\ httpAt \in {"d.copy", "d.store", "d.zero"} =>
          resultAt = "idle" /\ rxAt = "idle" /\ flash.best = 0
    /\ httpAt = "d.store" => new.best = 0
    /\ httpAt = "d.zero" => runtime.best = 0
    /\ ~HasConfig \/ httpAt \in {"b.schema", "b.board"} => flash.best = 0
    /\ ~up /\ httpAt \in SaveLabels => flash.best = 0 /\ runtime.best = 0
    /\ ~up /\ httpAt = "s.store" => new.best = 0

\* A foreign board is known from the moment a boot has looked, and is in flash where
\* there are settings, but for the stretch a crash would be noted in.
BoardIsKept == axeos = "foreign" /\ ~identityCut =>
    /\ httpAt # "boot" => identity = "foreign"
    /\ up \/ httpAt \in {"b.migrate", "s.best", "s.store"} => flash.board = "foreign"
    /\ HasConfig /\ ~IdentityAtRisk => flash.board = "foreign"

ConfInv == /\ ConfTypes /\ ConfControl
           /\ SettingsFollow /\ DurableIsWritten /\ BestIsKept /\ BoardIsKept

BeginsTask ==
    \/ \E kind \in {"settings", "tune"} : Begin(kind, "h.old")
    \/ Begin("setup", "s.first") \/ Begin("resetBest", "d.write") \/ Begin("factory", "f.erase")

LEMMA ConfInvInit == ConfigInit => ConfInv
<1> SUFFICES ASSUME ConfigInit PROVE ConfInv OBVIOUS
<1> USE ConfigAssumption
<1>1. Defaults \in RamCopies /\ Defaults.best = 0 BY DEF Defaults, RamCopies
<1>2. flash \in [first : BOOLEAN, settings : Int, board : BoardNames,
                schema : {"none", "older", "current", "newer"}, best : Nat]
  <2>1. CASE flash = Erased BY <2>1 DEF Erased, Gone, BoardNames
  <2>2. CASE flash # Erased
    <3>1. flash \in [first : {TRUE}, settings : {0}, board : {axeos},
                   schema : {"older", "current", "newer"}, best : {1}]
      BY <2>2 DEF ConfigInit
    <3>2. axeos \in BoardNames BY DEF ConfigInit, BoardNames
    <3>3. /\ flash = [first |-> flash.first, settings |-> flash.settings,
                      board |-> flash.board, schema |-> flash.schema, best |-> flash.best]
      BY <3>1
    <3>4. flash.first \in {TRUE} BY <3>1
    <3>5. flash.first \in BOOLEAN BY <3>4
    <3>6. /\ flash.settings \in Int /\ flash.board = axeos
          /\ flash.schema \in {"none", "older", "current", "newer"} /\ flash.best \in Nat
      BY <3>1
    <3> QED BY <3>2, <3>3, <3>5, <3>6
  <2> QED BY <2>1, <2>2
<1>3. (~HasConfig => flash.best = 0) /\ (axeos = "foreign" /\ HasConfig => flash.board = "foreign")
  <2>1. CASE flash = Erased BY <2>1 DEF Erased, HasConfig
  <2>2. CASE flash # Erased BY <2>2 DEF ConfigInit, HasConfig
  <2> QED BY <2>1, <2>2
<1>5. ConfTypes BY <1>1, <1>2 DEF ConfigInit, ConfTypes, BoardNames
<1>6. ConfControl
  BY DEF ConfigInit, ConfControl, BootLabels, SaveLabels, TuneLabels, ResetLabels
<1>7. SettingsFollow BY DEF ConfigInit, SettingsFollow, Replaced, SaveLabels
<1>8. DurableIsWritten BY DEF ConfigInit, DurableIsWritten, SaveLabels
<1>9. BestIsKept BY <1>3 DEF ConfigInit, BestIsKept, SaveLabels
<1>10. BoardIsKept BY <1>3 DEF ConfigInit, BoardIsKept
<1> QED BY <1>5, <1>6, <1>7, <1>8, <1>9, <1>10 DEF ConfInv

\* What every step keeps, one part of the invariant at a time: the types.
LEMMA ConfTypesNext == ASSUME ConfInv, ConfigNext PROVE ConfTypes'
<1> USE ConfigAssumption
    DEF ConfInv, ConfTypes, RamCopies, BoardNames, ConfControl, Gone, Defaults, Erased, BootLabels,
        SaveLabels, TuneLabels, ResetLabels, HasConfig, requestVars, partialVars,
        configHistory, Write, WriteFails, Done, AgeCopies, PutBack, Start, BootUnchanged,
        SaveUnchanged, HttpUnchanged, PartialUnchanged
<1>1. CASE BootImport BY <1>1 DEF BootImport
<1>2. CASE BootLoad
  <2>1. Loaded \in RamCopies BY DEF Loaded
  <2>2. /\ UNCHANGED <<flash, axeos, new, old, rxCopy, resCopy, diff, requests, overlapped,
                       raced, identityCut>>
        /\ identity' = flash.board /\ up' \in BOOLEAN
        /\ runtime' \in {runtime, Loaded} /\ best' \in {best, Loaded.best}
    BY <1>2 DEF BootLoad
  <2> QED BY <2>1, <2>2
<1>3. CASE BootErase BY <1>3 DEF BootErase
<1>4. CASE BootSchema BY <1>4 DEF BootSchema
<1>5. CASE BootBoard BY <1>5 DEF BootBoard
<1>6. CASE BootMigrate BY <1>6 DEF BootMigrate, Loaded
<1>7. CASE SaveFirst BY <1>7 DEF SaveFirst
<1>8. CASE SaveSettings BY <1>8 DEF SaveSettings
<1>9. CASE SaveSchema BY <1>9 DEF SaveSchema
<1>10. CASE SaveBoard BY <1>10 DEF SaveBoard
<1>11. CASE SaveBest BY <1>11 DEF SaveBest
<1>12. CASE SaveStore BY <1>12 DEF SaveStore
<1>13. CASE SaveFails BY <1>13 DEF SaveFails, SavingAt
<1>14. CASE Restart
  <2>1. /\ {runtime', new', old', rxCopy', resCopy'} = {Defaults}
        /\ UNCHANGED <<flash, axeos, requests>> /\ identity' = "none"
        /\ best' = 0 /\ diff' = 0 /\ up' = FALSE /\ overlapped' = FALSE
    BY <1>14 DEF Restart
  <2>2. Defaults \in RamCopies OBVIOUS
  <2>3. raced' \in BOOLEAN /\ identityCut' \in BOOLEAN BY <1>14 DEF Restart
  <2> QED BY <2>1, <2>2, <2>3
<1>15. CASE BeginsTask BY <1>15 DEF BeginsTask, Begin
<1>16. CASE TakeOld BY <1>16 DEF TakeOld
<1>17. CASE SetRuntimeBest BY <1>17 DEF SetRuntimeBest
<1>18. CASE SetRuntimeStore BY <1>18 DEF SetRuntimeStore
<1>19. CASE Apply BY <1>19 DEF Apply
<1>20. CASE Revert BY <1>20 DEF Revert
<1>21. CASE ResetWrite BY <1>21 DEF ResetWrite
<1>22. CASE ResetCopy BY <1>22 DEF ResetCopy
<1>23. CASE ResetStore BY <1>23 DEF ResetStore
<1>24. CASE ResetZero BY <1>24 DEF ResetZero
<1>25. CASE FactoryErase BY <1>25 DEF FactoryErase
<1>26. CASE FactoryFirst
  <2>1. UNCHANGED <<runtime, identity, axeos, best, up, rxCopy, resCopy, diff, requests,
                    overlapped, raced, identityCut>>
    BY <1>26 DEF FactoryFirst
  <2>2. /\ new' \in {new, Defaults} /\ old' \in {old, Defaults}
        /\ flash' = flash \/ flash' = [flash EXCEPT !.first = TRUE]
    BY <1>26 DEF FactoryFirst
  <2>3. flash' \in [first : BOOLEAN, settings : Int, board : BoardNames,
                   schema : {"none", "older", "current", "newer"}, best : Nat]
    BY <2>2
  <2> QED BY <2>1, <2>2, <2>3
<1>27. CASE FactoryStore BY <1>27 DEF FactoryStore
<1>28. CASE CacheCopy BY <1>28 DEF CacheCopy
<1>29. CASE CacheStore BY <1>29 DEF CacheStore
<1>30. CASE CacheFails BY <1>30 DEF CacheFails
<1>31. CASE RecordBest BY <1>31 DEF RecordBest
<1>32. CASE CompareBest BY <1>32 DEF CompareBest
<1>33. CASE WriteBest
  <2>1. UNCHANGED <<runtime, new, old, identity, axeos, best, up, rxCopy, resCopy, requests,
                    overlapped, identityCut>>
    BY <1>33 DEF WriteBest
  <2>2. /\ diff' \in {diff, 0} /\ (raced' = raced \/ raced' = TRUE)
        /\ flash' = flash \/ flash' = [flash EXCEPT !.best = diff]
    BY <1>33 DEF WriteBest
  <2>3. flash' \in [first : BOOLEAN, settings : Int, board : BoardNames,
                   schema : {"none", "older", "current", "newer"}, best : Nat]
    BY <2>2
  <2>4. diff' \in Nat BY <2>2
  <2>5. raced' \in BOOLEAN BY <2>2
  <2> QED BY <2>1, <2>3, <2>4, <2>5
<1>34. CASE CopyBest BY <1>34 DEF CopyBest
<1>35. CASE StoreBest BY <1>35 DEF StoreBest
<1> QED BY <1>1, <1>2, <1>3, <1>4, <1>5, <1>6, <1>7, <1>8, <1>9, <1>10, <1>11, <1>12,
       <1>13, <1>14, <1>15, <1>16, <1>17, <1>18, <1>19, <1>20, <1>21, <1>22, <1>23, <1>24,
       <1>25, <1>26, <1>27, <1>28, <1>29, <1>30, <1>31, <1>32, <1>33, <1>34, <1>35 DEF
       ConfigNext, BootStep, SaveStep, HttpStep, PartialStep, BeginsTask, BootFails,
       PowerFails, Reboot

\* Where the tasks can be.
LEMMA ConfControlNext == ASSUME ConfInv, ConfigNext PROVE ConfControl'
<1> USE ConfigAssumption
    DEF ConfInv, ConfTypes, RamCopies, BoardNames, ConfControl, Gone, Defaults, Erased, BootLabels,
        SaveLabels, TuneLabels, ResetLabels, HasConfig, requestVars, partialVars,
        configHistory, Write, WriteFails, Done, AgeCopies, PutBack, Start, BootUnchanged,
        SaveUnchanged, HttpUnchanged, PartialUnchanged
<1>1. CASE BootImport BY <1>1 DEF BootImport
<1>2. CASE BootLoad BY <1>2 DEF BootLoad, Loaded
<1>3. CASE BootErase BY <1>3 DEF BootErase
<1>4. CASE BootSchema BY <1>4 DEF BootSchema
<1>5. CASE BootBoard BY <1>5 DEF BootBoard
<1>6. CASE BootMigrate BY <1>6 DEF BootMigrate, Loaded
<1>7. CASE SaveFirst BY <1>7 DEF SaveFirst
<1>8. CASE SaveSettings BY <1>8 DEF SaveSettings
<1>9. CASE SaveSchema BY <1>9 DEF SaveSchema
<1>10. CASE SaveBoard BY <1>10 DEF SaveBoard
<1>11. CASE SaveBest BY <1>11 DEF SaveBest
<1>12. CASE SaveStore BY <1>12 DEF SaveStore
<1>13. CASE SaveFails BY <1>13 DEF SaveFails, SavingAt
<1>14. CASE Restart BY <1>14 DEF Restart
<1>15. CASE BeginsTask BY <1>15 DEF BeginsTask, Begin
<1>16. CASE TakeOld BY <1>16 DEF TakeOld
<1>17. CASE SetRuntimeBest BY <1>17 DEF SetRuntimeBest
<1>18. CASE SetRuntimeStore BY <1>18 DEF SetRuntimeStore
<1>19. CASE Apply BY <1>19 DEF Apply
<1>20. CASE Revert BY <1>20 DEF Revert
<1>21. CASE ResetWrite BY <1>21 DEF ResetWrite
<1>22. CASE ResetCopy BY <1>22 DEF ResetCopy
<1>23. CASE ResetStore BY <1>23 DEF ResetStore
<1>24. CASE ResetZero BY <1>24 DEF ResetZero
<1>25. CASE FactoryErase BY <1>25 DEF FactoryErase
<1>26. CASE FactoryFirst BY <1>26 DEF FactoryFirst
<1>27. CASE FactoryStore BY <1>27 DEF FactoryStore
<1>28. CASE CacheCopy BY <1>28 DEF CacheCopy
<1>29. CASE CacheStore BY <1>29 DEF CacheStore
<1>30. CASE CacheFails BY <1>30 DEF CacheFails
<1>31. CASE RecordBest BY <1>31 DEF RecordBest
<1>32. CASE CompareBest BY <1>32 DEF CompareBest
<1>33. CASE WriteBest BY <1>33 DEF WriteBest
<1>34. CASE CopyBest BY <1>34 DEF CopyBest
<1>35. CASE StoreBest BY <1>35 DEF StoreBest
<1> QED BY <1>1, <1>2, <1>3, <1>4, <1>5, <1>6, <1>7, <1>8, <1>9, <1>10, <1>11, <1>12,
       <1>13, <1>14, <1>15, <1>16, <1>17, <1>18, <1>19, <1>20, <1>21, <1>22, <1>23, <1>24,
       <1>25, <1>26, <1>27, <1>28, <1>29, <1>30, <1>31, <1>32, <1>33, <1>34, <1>35 DEF
       ConfigNext, BootStep, SaveStep, HttpStep, PartialStep, BeginsTask, BootFails,
       PowerFails, Reboot

\* The settings of the copies and the ones in force.
LEMMA SettingsFollowNext == ASSUME ConfInv, ConfigNext PROVE SettingsFollow'
<1> USE ConfigAssumption
    DEF ConfInv, ConfTypes, RamCopies, BoardNames, ConfControl, Gone, Defaults, Erased, BootLabels,
        SaveLabels, TuneLabels, ResetLabels, HasConfig, requestVars, partialVars,
        configHistory, Write, WriteFails, Done, AgeCopies, PutBack, Start, BootUnchanged,
        SaveUnchanged, HttpUnchanged, PartialUnchanged
<1>1. CASE BootImport BY <1>1 DEF BootImport, SettingsFollow, Replaced
<1>2. CASE BootLoad BY <1>2 DEF BootLoad, Loaded, SettingsFollow, Replaced
<1>3. CASE BootErase BY <1>3 DEF BootErase, SettingsFollow, Replaced
<1>4. CASE BootSchema BY <1>4 DEF BootSchema, SettingsFollow, Replaced
<1>5. CASE BootBoard BY <1>5 DEF BootBoard, SettingsFollow, Replaced
<1>6. CASE BootMigrate BY <1>6 DEF BootMigrate, Loaded, SettingsFollow, Replaced
<1>7. CASE SaveFirst BY <1>7 DEF SaveFirst, SettingsFollow, Replaced
<1>8. CASE SaveSettings BY <1>8 DEF SaveSettings, SettingsFollow, Replaced
<1>9. CASE SaveSchema BY <1>9 DEF SaveSchema, SettingsFollow, Replaced
<1>10. CASE SaveBoard BY <1>10 DEF SaveBoard, SettingsFollow, Replaced
<1>11. CASE SaveBest BY <1>11 DEF SaveBest, SettingsFollow, Replaced
<1>12. CASE SaveStore BY <1>12 DEF SaveStore, SettingsFollow, Replaced
<1>13. CASE SaveFails BY <1>13 DEF SaveFails, SavingAt, SettingsFollow, Replaced
<1>14. CASE Restart BY <1>14 DEF Restart, SettingsFollow, Replaced
<1>15. CASE BeginsTask BY <1>15 DEF BeginsTask, Begin, SettingsFollow, Replaced
<1>16. CASE TakeOld BY <1>16 DEF TakeOld, SettingsFollow, Replaced
<1>17. CASE SetRuntimeBest BY <1>17 DEF SetRuntimeBest, SettingsFollow, Replaced
<1>18. CASE SetRuntimeStore BY <1>18 DEF SetRuntimeStore, SettingsFollow, Replaced
<1>19. CASE Apply BY <1>19 DEF Apply, SettingsFollow, Replaced
<1>20. CASE Revert BY <1>20 DEF Revert, SettingsFollow, Replaced
<1>21. CASE ResetWrite BY <1>21 DEF ResetWrite, SettingsFollow, Replaced
<1>22. CASE ResetCopy BY <1>22 DEF ResetCopy, SettingsFollow, Replaced
<1>23. CASE ResetStore BY <1>23 DEF ResetStore, SettingsFollow, Replaced
<1>24. CASE ResetZero BY <1>24 DEF ResetZero, SettingsFollow, Replaced
<1>25. CASE FactoryErase BY <1>25 DEF FactoryErase, SettingsFollow, Replaced
<1>26. CASE FactoryFirst BY <1>26 DEF FactoryFirst, SettingsFollow, Replaced
<1>27. CASE FactoryStore BY <1>27 DEF FactoryStore, SettingsFollow, Replaced
<1>28. CASE CacheCopy BY <1>28 DEF CacheCopy, SettingsFollow, Replaced
<1>29. CASE CacheStore BY <1>29 DEF CacheStore, SettingsFollow, Replaced
<1>30. CASE CacheFails BY <1>30 DEF CacheFails, SettingsFollow, Replaced
<1>31. CASE RecordBest BY <1>31 DEF RecordBest, SettingsFollow, Replaced
<1>32. CASE CompareBest BY <1>32 DEF CompareBest, SettingsFollow, Replaced
<1>33. CASE WriteBest BY <1>33 DEF WriteBest, SettingsFollow, Replaced
<1>34. CASE CopyBest BY <1>34 DEF CopyBest, SettingsFollow, Replaced
<1>35. CASE StoreBest BY <1>35 DEF StoreBest, SettingsFollow, Replaced
<1> QED BY <1>1, <1>2, <1>3, <1>4, <1>5, <1>6, <1>7, <1>8, <1>9, <1>10, <1>11, <1>12,
       <1>13, <1>14, <1>15, <1>16, <1>17, <1>18, <1>19, <1>20, <1>21, <1>22, <1>23, <1>24,
       <1>25, <1>26, <1>27, <1>28, <1>29, <1>30, <1>31, <1>32, <1>33, <1>34, <1>35 DEF
       ConfigNext, BootStep, SaveStep, HttpStep, PartialStep, BeginsTask, BootFails,
       PowerFails, Reboot

\* What is durable.
LEMMA DurableIsWrittenNext == ASSUME ConfInv, ConfigNext PROVE DurableIsWritten'
<1> USE ConfigAssumption
    DEF ConfInv, ConfTypes, RamCopies, BoardNames, ConfControl, Gone, Defaults, Erased, BootLabels,
        SaveLabels, TuneLabels, ResetLabels, HasConfig, requestVars, partialVars,
        configHistory, Write, WriteFails, Done, AgeCopies, PutBack, Start, BootUnchanged,
        SaveUnchanged, HttpUnchanged, PartialUnchanged
<1>1. CASE BootImport BY <1>1 DEF BootImport, DurableIsWritten
<1>2. CASE BootLoad BY <1>2 DEF BootLoad, Loaded, DurableIsWritten
<1>3. CASE BootErase BY <1>3 DEF BootErase, DurableIsWritten
<1>4. CASE BootSchema BY <1>4 DEF BootSchema, DurableIsWritten
<1>5. CASE BootBoard BY <1>5 DEF BootBoard, DurableIsWritten
<1>6. CASE BootMigrate BY <1>6 DEF BootMigrate, Loaded, DurableIsWritten
<1>7. CASE SaveFirst BY <1>7 DEF SaveFirst, DurableIsWritten
<1>8. CASE SaveSettings BY <1>8 DEF SaveSettings, DurableIsWritten
<1>9. CASE SaveSchema BY <1>9 DEF SaveSchema, DurableIsWritten
<1>10. CASE SaveBoard BY <1>10 DEF SaveBoard, DurableIsWritten
<1>11. CASE SaveBest BY <1>11 DEF SaveBest, DurableIsWritten
<1>12. CASE SaveStore BY <1>12 DEF SaveStore, DurableIsWritten
<1>13. CASE SaveFails BY <1>13 DEF SaveFails, SavingAt, DurableIsWritten
<1>14. CASE BootFails BY <1>14 DEF BootFails, Restart, SavingAt, DurableIsWritten
<1>15. CASE PowerFails BY <1>15 DEF PowerFails, Restart, SavingAt, DurableIsWritten
<1>16. CASE Reboot BY <1>16 DEF Reboot, Restart, SavingAt, DurableIsWritten
<1>17. CASE BeginsTask BY <1>17 DEF BeginsTask, Begin, DurableIsWritten
<1>18. CASE TakeOld BY <1>18 DEF TakeOld, DurableIsWritten
<1>19. CASE SetRuntimeBest BY <1>19 DEF SetRuntimeBest, DurableIsWritten
<1>20. CASE SetRuntimeStore BY <1>20 DEF SetRuntimeStore, DurableIsWritten
<1>21. CASE Apply BY <1>21 DEF Apply, DurableIsWritten
<1>22. CASE Revert BY <1>22 DEF Revert, DurableIsWritten
<1>23. CASE ResetWrite BY <1>23 DEF ResetWrite, DurableIsWritten
<1>24. CASE ResetCopy BY <1>24 DEF ResetCopy, DurableIsWritten
<1>25. CASE ResetStore BY <1>25 DEF ResetStore, DurableIsWritten
<1>26. CASE ResetZero BY <1>26 DEF ResetZero, DurableIsWritten
<1>27. CASE FactoryErase BY <1>27 DEF FactoryErase, DurableIsWritten
<1>28. CASE FactoryFirst BY <1>28 DEF FactoryFirst, DurableIsWritten
<1>29. CASE FactoryStore BY <1>29 DEF FactoryStore, DurableIsWritten
<1>30. CASE CacheCopy BY <1>30 DEF CacheCopy, DurableIsWritten
<1>31. CASE CacheStore BY <1>31 DEF CacheStore, DurableIsWritten
<1>32. CASE CacheFails BY <1>32 DEF CacheFails, DurableIsWritten
<1>33. CASE RecordBest BY <1>33 DEF RecordBest, DurableIsWritten
<1>34. CASE CompareBest BY <1>34 DEF CompareBest, DurableIsWritten
<1>35. CASE WriteBest BY <1>35 DEF WriteBest, DurableIsWritten
<1>36. CASE CopyBest BY <1>36 DEF CopyBest, DurableIsWritten
<1>37. CASE StoreBest BY <1>37 DEF StoreBest, DurableIsWritten
<1> QED BY <1>1, <1>2, <1>3, <1>4, <1>5, <1>6, <1>7, <1>8, <1>9, <1>10, <1>11, <1>12,
       <1>13, <1>14, <1>15, <1>16, <1>17, <1>18, <1>19, <1>20, <1>21, <1>22, <1>23, <1>24,
       <1>25, <1>26, <1>27, <1>28, <1>29, <1>30, <1>31, <1>32, <1>33, <1>34, <1>35, <1>36,
       <1>37 DEF ConfigNext, BootStep, SaveStep, HttpStep, PartialStep, BeginsTask

\* The best difficulty.
LEMMA BestIsKeptNext == ASSUME ConfInv, ConfigNext PROVE BestIsKept'
<1> USE ConfigAssumption
    DEF ConfInv, ConfTypes, RamCopies, BoardNames, ConfControl, Gone, Defaults, Erased, BootLabels,
        SaveLabels, TuneLabels, ResetLabels, HasConfig, requestVars, partialVars,
        configHistory, Write, WriteFails, Done, AgeCopies, PutBack, Start, BootUnchanged,
        SaveUnchanged, HttpUnchanged, PartialUnchanged
<1>1. CASE BootImport BY <1>1 DEF BootImport, BestIsKept
<1>2. CASE BootLoad
  <2>1. /\ UNCHANGED <<flash, new, old, rxCopy, resCopy, rxAt, resultAt, raced>> /\ httpAt = "boot"
        /\ resultAt = "idle" /\ {new, old, rxCopy, resCopy} = {Defaults}
    BY <1>2 DEF BootLoad
  <2>2. Loaded.best = flash.best BY DEF Loaded
  <2>3. CASE flash.schema = "current"
    <3>1. /\ runtime' = Loaded /\ best' = Loaded.best /\ up' = TRUE /\ httpAt' = "idle"
      BY <1>2, <2>3 DEF BootLoad
    <3>2. HasConfig' BY <2>1, <2>3
    <3> QED BY <2>1, <2>2, <3>1, <3>2 DEF BestIsKept
  <2>4. CASE flash.schema # "current"
    <3>1. httpAt' \in {"b.erase", "b.migrate"} /\ UNCHANGED <<runtime, best, up>>
      BY <1>2, <2>4 DEF BootLoad
    <3> QED BY <2>1, <3>1 DEF BestIsKept
  <2> QED BY <2>3, <2>4
<1>3. CASE BootErase BY <1>3 DEF BootErase, BestIsKept
<1>4. CASE BootSchema BY <1>4 DEF BootSchema, BestIsKept
<1>5. CASE BootBoard
  <2>1. /\ httpAt = "b.board" /\ UNCHANGED <<new, old, rxCopy, resCopy, rxAt, resultAt, raced>>
        /\ resultAt = "idle" /\ {new, old, rxCopy, resCopy} = {Defaults}
        /\ runtime' = Defaults /\ best' = 0 /\ up' = TRUE /\ httpAt' = "idle"
        /\ flash' = [flash EXCEPT !.board = identity]
    BY <1>5 DEF BootBoard
  <2>2. flash'.best = flash.best /\ (HasConfig => HasConfig') BY <2>1
  <2> QED BY <2>1, <2>2 DEF BestIsKept
<1>6. CASE BootMigrate
  <2>1. /\ httpAt = "b.migrate" /\ UNCHANGED <<new, old, rxCopy, resCopy, rxAt, resultAt, raced>>
        /\ resultAt = "idle" /\ {new, old, rxCopy, resCopy} = {Defaults}
        /\ runtime' = Loaded /\ best' = Loaded.best /\ up' = TRUE /\ httpAt' = "idle"
        /\ flash' = [flash EXCEPT !.schema = "current"]
    BY <1>6 DEF BootMigrate
  <2>2. flash'.best = flash.best /\ HasConfig' BY <2>1
  <2>3. Loaded.best = flash.best BY DEF Loaded
  <2> QED BY <2>1, <2>2, <2>3 DEF BestIsKept
<1>7. CASE SaveFirst BY <1>7 DEF SaveFirst, BestIsKept
<1>8. CASE SaveSettings BY <1>8 DEF SaveSettings, BestIsKept
<1>9. CASE SaveSchema BY <1>9 DEF SaveSchema, BestIsKept
<1>10. CASE SaveBoard BY <1>10 DEF SaveBoard, BestIsKept
<1>11. CASE SaveBest BY <1>11 DEF SaveBest, BestIsKept
<1>12. CASE SaveStore
  <2>1. /\ httpAt = "s.store" /\ httpAt' = "idle" /\ runtime' = new /\ up' = TRUE
        /\ new' = Defaults /\ old' = Defaults
        /\ best' = (IF up THEN best ELSE new.best)
        /\ UNCHANGED <<flash, rxCopy, resCopy, rxAt, resultAt, diff, raced>>
    BY <1>12 DEF SaveStore
  <2>2. flash.schema = "current" /\ HasConfig /\ HasConfig'
    BY <2>1 DEF DurableIsWritten
  <2>3. CASE up BY <2>1, <2>2, <2>3 DEF BestIsKept
  <2>4. CASE ~up
    <3>1. resultAt = "idle" /\ rxCopy = Defaults /\ resCopy = Defaults BY <2>4
    <3> QED BY <2>1, <2>2, <2>4, <3>1 DEF BestIsKept
  <2> QED BY <2>3, <2>4
<1>13. CASE SaveFails BY <1>13 DEF SaveFails, SavingAt, BestIsKept
<1>14. CASE Restart BY <1>14 DEF Restart, BestIsKept
<1>15. CASE BeginsTask BY <1>15 DEF BeginsTask, Begin, BestIsKept
<1>16. CASE TakeOld BY <1>16 DEF TakeOld, BestIsKept
<1>17. CASE SetRuntimeBest BY <1>17 DEF SetRuntimeBest, BestIsKept
<1>18. CASE SetRuntimeStore BY <1>18 DEF SetRuntimeStore, BestIsKept
<1>19. CASE Apply BY <1>19 DEF Apply, BestIsKept
<1>20. CASE Revert BY <1>20 DEF Revert, BestIsKept
<1>21. CASE ResetWrite BY <1>21 DEF ResetWrite, BestIsKept
<1>22. CASE ResetCopy BY <1>22 DEF ResetCopy, BestIsKept
<1>23. CASE ResetStore BY <1>23 DEF ResetStore, BestIsKept
<1>24. CASE ResetZero BY <1>24 DEF ResetZero, BestIsKept
<1>25. CASE FactoryErase BY <1>25 DEF FactoryErase, BestIsKept
<1>26. CASE FactoryFirst BY <1>26 DEF FactoryFirst, BestIsKept
<1>27. CASE FactoryStore BY <1>27 DEF FactoryStore, BestIsKept
<1>28. CASE CacheCopy BY <1>28 DEF CacheCopy, BestIsKept
<1>29. CASE CacheStore BY <1>29 DEF CacheStore, BestIsKept
<1>30. CASE CacheFails BY <1>30 DEF CacheFails, BestIsKept
<1>31. CASE RecordBest
  <2>1. /\ up /\ resultAt = "idle" /\ best' = diff' /\ diff' \in Nat /\ diff' > best
        /\ resultAt' = "b.compare" /\ raced' = (raced \/ request = "resetBest")
        /\ UNCHANGED <<runtime, flash, new, old, rxAt, rxCopy, resCopy, up, httpAt, request>>
    BY <1>31 DEF RecordBest
  <2>2. ASSUME ~raced', NEW copy \in {runtime, new, old, rxCopy, resCopy}
        PROVE  copy.best < best'
    <3>1. copy.best \in Nat /\ copy.best <= best BY <2>1, <2>2 DEF BestIsKept
    <3> QED BY <2>1, <3>1
  <2>3. ~raced' => httpAt \notin ResetLabels BY <2>1
  <2> QED BY <2>1, <2>2, <2>3 DEF BestIsKept
<1>32. CASE CompareBest BY <1>32 DEF CompareBest, BestIsKept
<1>33. CASE WriteBest BY <1>33 DEF WriteBest, BestIsKept
<1>34. CASE CopyBest BY <1>34 DEF CopyBest, BestIsKept
<1>35. CASE StoreBest BY <1>35 DEF StoreBest, BestIsKept
<1> QED BY <1>1, <1>2, <1>3, <1>4, <1>5, <1>6, <1>7, <1>8, <1>9, <1>10, <1>11, <1>12,
       <1>13, <1>14, <1>15, <1>16, <1>17, <1>18, <1>19, <1>20, <1>21, <1>22, <1>23, <1>24,
       <1>25, <1>26, <1>27, <1>28, <1>29, <1>30, <1>31, <1>32, <1>33, <1>34, <1>35 DEF
       ConfigNext, BootStep, SaveStep, HttpStep, PartialStep, BeginsTask, BootFails,
       PowerFails, Reboot

\* The imported board's identity.
LEMMA BoardIsKeptNext == ASSUME ConfInv, ConfigNext PROVE BoardIsKept'
<1> USE ConfigAssumption
    DEF ConfInv, ConfTypes, RamCopies, BoardNames, ConfControl, Gone, Defaults, Erased, BootLabels,
        SaveLabels, TuneLabels, ResetLabels, HasConfig, requestVars, partialVars,
        configHistory, Write, WriteFails, Done, AgeCopies, PutBack, Start, BootUnchanged,
        SaveUnchanged, HttpUnchanged, PartialUnchanged
<1>1. CASE BootImport BY <1>1 DEF BootImport, IdentityAtRisk, BoardIsKept
<1>2. CASE BootLoad BY <1>2 DEF BootLoad, Loaded, IdentityAtRisk, BoardIsKept
<1>3. CASE BootErase BY <1>3 DEF BootErase, IdentityAtRisk, BoardIsKept
<1>4. CASE BootSchema BY <1>4 DEF BootSchema, IdentityAtRisk, BoardIsKept
<1>5. CASE BootBoard BY <1>5 DEF BootBoard, IdentityAtRisk, BoardIsKept
<1>6. CASE BootMigrate BY <1>6 DEF BootMigrate, Loaded, IdentityAtRisk, BoardIsKept
<1>7. CASE SaveFirst BY <1>7 DEF SaveFirst, IdentityAtRisk, BoardIsKept
<1>8. CASE SaveSettings BY <1>8 DEF SaveSettings, IdentityAtRisk, BoardIsKept
<1>9. CASE SaveSchema BY <1>9 DEF SaveSchema, IdentityAtRisk, BoardIsKept
<1>10. CASE SaveBoard BY <1>10 DEF SaveBoard, IdentityAtRisk, BoardIsKept
<1>11. CASE SaveBest BY <1>11 DEF SaveBest, IdentityAtRisk, BoardIsKept
<1>12. CASE SaveStore BY <1>12 DEF SaveStore, IdentityAtRisk, BoardIsKept
<1>13. CASE SaveFails BY <1>13 DEF SaveFails, SavingAt, IdentityAtRisk, BoardIsKept
<1>14. CASE Restart
  <2>1. /\ httpAt' = "boot" /\ up' = FALSE /\ UNCHANGED <<flash, axeos>>
        /\ identityCut' = (identityCut \/ IdentityAtRisk)
    BY <1>14 DEF Restart
  <2>2. SUFFICES ASSUME axeos = "foreign", ~identityCut', HasConfig
                 PROVE  flash.board = "foreign"
    BY <2>1 DEF BoardIsKept
  <2>3. ~identityCut /\ ~IdentityAtRisk BY <2>1, <2>2
  <2> QED BY <2>2, <2>3 DEF BoardIsKept, IdentityAtRisk
<1>15. CASE BeginsTask BY <1>15 DEF BeginsTask, Begin, IdentityAtRisk, BoardIsKept
<1>16. CASE TakeOld BY <1>16 DEF TakeOld, IdentityAtRisk, BoardIsKept
<1>17. CASE SetRuntimeBest BY <1>17 DEF SetRuntimeBest, IdentityAtRisk, BoardIsKept
<1>18. CASE SetRuntimeStore BY <1>18 DEF SetRuntimeStore, IdentityAtRisk, BoardIsKept
<1>19. CASE Apply BY <1>19 DEF Apply, IdentityAtRisk, BoardIsKept
<1>20. CASE Revert BY <1>20 DEF Revert, IdentityAtRisk, BoardIsKept
<1>21. CASE ResetWrite BY <1>21 DEF ResetWrite, IdentityAtRisk, BoardIsKept
<1>22. CASE ResetCopy BY <1>22 DEF ResetCopy, IdentityAtRisk, BoardIsKept
<1>23. CASE ResetStore BY <1>23 DEF ResetStore, IdentityAtRisk, BoardIsKept
<1>24. CASE ResetZero BY <1>24 DEF ResetZero, IdentityAtRisk, BoardIsKept
<1>25. CASE FactoryErase BY <1>25 DEF FactoryErase, IdentityAtRisk, BoardIsKept
<1>26. CASE FactoryFirst BY <1>26 DEF FactoryFirst, IdentityAtRisk, BoardIsKept
<1>27. CASE FactoryStore BY <1>27 DEF FactoryStore, IdentityAtRisk, BoardIsKept
<1>28. CASE CacheCopy BY <1>28 DEF CacheCopy, IdentityAtRisk, BoardIsKept
<1>29. CASE CacheStore BY <1>29 DEF CacheStore, IdentityAtRisk, BoardIsKept
<1>30. CASE CacheFails BY <1>30 DEF CacheFails, IdentityAtRisk, BoardIsKept
<1>31. CASE RecordBest BY <1>31 DEF RecordBest, IdentityAtRisk, BoardIsKept
<1>32. CASE CompareBest BY <1>32 DEF CompareBest, IdentityAtRisk, BoardIsKept
<1>33. CASE WriteBest BY <1>33 DEF WriteBest, IdentityAtRisk, BoardIsKept
<1>34. CASE CopyBest BY <1>34 DEF CopyBest, IdentityAtRisk, BoardIsKept
<1>35. CASE StoreBest BY <1>35 DEF StoreBest, IdentityAtRisk, BoardIsKept
<1> QED BY <1>1, <1>2, <1>3, <1>4, <1>5, <1>6, <1>7, <1>8, <1>9, <1>10, <1>11, <1>12,
       <1>13, <1>14, <1>15, <1>16, <1>17, <1>18, <1>19, <1>20, <1>21, <1>22, <1>23, <1>24,
       <1>25, <1>26, <1>27, <1>28, <1>29, <1>30, <1>31, <1>32, <1>33, <1>34, <1>35 DEF
       ConfigNext, BootStep, SaveStep, HttpStep, PartialStep, BeginsTask, BootFails,
       PowerFails, Reboot

LEMMA ConfInvNext == ConfInv /\ [ConfigNext]_configVars => ConfInv'
<1> SUFFICES ASSUME ConfInv, [ConfigNext]_configVars PROVE ConfInv' OBVIOUS
<1>1. CASE UNCHANGED configVars
  BY <1>1 DEF configVars, requestVars, partialVars, configHistory, ConfInv, ConfTypes,
     ConfControl, SettingsFollow, Replaced, DurableIsWritten, BestIsKept, HasConfig,
     BoardIsKept, IdentityAtRisk
<1>2. CASE ConfigNext
  BY <1>2, ConfTypesNext, ConfControlNext, SettingsFollowNext, DurableIsWrittenNext,
     BestIsKeptNext, BoardIsKeptNext DEF ConfInv
<1> QED BY <1>1, <1>2

LEMMA ConfInvHolds == ConfigSpec => []ConfInv
BY ConfInvInit, ConfInvNext, PTL DEF ConfigSpec

\* Between requests the RAM configuration has the settings the last request left in
\* force, applied or reverted, whatever the receive and the result task put back, save
\* for the overlap m45_config_set_runtime leaves open (m45_config.c).
THEOREM SettingsAreThoseInForce == ConfigSpec => []SettingsHoldUnlessOverlapped
<1>1. ConfInv => SettingsHoldUnlessOverlapped
  BY DEF ConfInv, SettingsFollow, Replaced, SaveLabels, SettingsHoldUnlessOverlapped
<1> QED BY <1>1, ConfInvHolds, PTL

\* What m45_config_save acknowledged is in flash, whole and under the schema a boot
\* loads, until another save begins, through every crash and failed access.
THEOREM AcknowledgedSavesBoot == ConfigSpec => []SavedSettingsBoot
<1>1. ConfInv => SavedSettingsBoot
  BY DEF ConfInv, DurableIsWritten, SavedSettingsBoot, HasConfig, Loaded
<1> QED BY <1>1, ConfInvHolds, PTL

\* The best difficulty in flash is the one counted with whenever no record or reset is
\* under way, unless two of them met or a write failed (record_best_diff,
\* m45_config_set_best_diff, stratum_minimal_reset_best_diff).
THEOREM BestDifficultyPersists == ConfigSpec => []BestPersists
<1>1. ConfInv => BestPersists
  BY DEF ConfInv, ConfControl, BestIsKept, BestPersists, ResetLabels
<1> QED BY <1>1, ConfInvHolds, PTL

\* An imported foreign board is never taken for a Gamma 602, however boots, imports,
\* migrations and erased downgrades are cut, but where the identity itself was cut.
THEOREM ForeignBoardStaysKnown == ConfigSpec => []ForeignBoardKnown
<1>1. ConfInv => ForeignBoardKnown
  BY DEF ConfInv, ConfControl, BoardIsKept, ForeignBoardKnown, BootLabels
<1> QED BY <1>1, ConfInvHolds, PTL

-----------------------------------------------------------------------------
(* The OTA update.  What has been accepted is whole before it is selected, *)
(* and a selection of older firmware has an erasure that follows.          *)

OtaSpec == OtaInit /\ [][OtaNext]_otaVars

Phases == {"idle", "head", "table", "body", "rest", "accept", "select", "erase", "reboot"}

OtaTypeOK ==
    /\ images \in [Slots -> [app : Apps \cup {"none"}, whole : BOOLEAN]]
    /\ running \in Slots /\ selected \in Slots
    /\ settings \in {"newer", "erased"} /\ upAt \in Phases
    /\ upload \in [axeos : BOOLEAN, app : Apps \cup {"none"}, merged : BOOLEAN,
                   whole : BOOLEAN, preserve : BOOLEAN, slot : OtaSlots \cup {"none"}]
    /\ overtaken \in BOOLEAN /\ unplanned \in BOOLEAN

\* An upload leaves alone what runs, and what it has accepted is there.
UploadInv ==
    /\ images[running].whole
    /\ upAt # "idle" => ThisRuns /\ upload.slot \in OtaSlots \ {running}
    /\ upAt \in {"rest", "accept", "select"} => images[upload.slot].app = upload.app
    /\ upAt \in {"table", "rest", "accept"} => (upload.slot = selected => overtaken)
    /\ upAt = "select" => images[upload.slot].whole

\* A selection of older firmware is one that the erasure of the settings follows.
OlderIsPlanned ==
    selected # running /\ images[selected].app = "older" =>
        overtaken \/ settings = "erased" \/ upAt = "erase"

OtaInv == OtaTypeOK /\ UploadInv /\ SelectedIsWhole /\ OlderIsPlanned /\ OlderFindsErased

\* The boot loader starts a whole image, the selected one if that is whole.
LEMMA BootIsWhole ==
    ASSUME OtaTypeOK, images[running].whole
    PROVE  /\ BootChoice \in Slots /\ images[BootChoice].whole
           /\ images[selected].whole => BootChoice = selected
<1> DEFINE order == BootOrder(selected)
           P(i) == order[i] \in Bootable /\ \A k \in 1 .. i - 1 : order[k] \notin Bootable
           first == CHOOSE i \in 1 .. 3 : P(i)
<1>1. running \in Bootable /\ selected \in Slots BY DEF OtaTypeOK, Bootable
<1>2. /\ order[1] = selected
      /\ \A s \in Slots : s \in {order[1], order[2], order[3]}
  BY <1>1 DEF BootOrder, Slots, OtaSlots
<1>3. order[1] \in Bootable \/ order[2] \in Bootable \/ order[3] \in Bootable
  BY <1>1, <1>2 DEF Bootable
<1> HIDE DEF order
<1>4. \E i \in 1 .. 3 : P(i)
  <2>1. CASE order[1] \in Bootable
    <3>1. P(1) BY <2>1
    <3> QED BY <3>1
  <2>2. CASE order[1] \notin Bootable /\ order[2] \in Bootable
    <3>1. \A k \in 1 .. 2 - 1 : k = 1 OBVIOUS
    <3>2. P(2) BY <2>2, <3>1
    <3> QED BY <3>2
  <2>3. CASE order[1] \notin Bootable /\ order[2] \notin Bootable
    <3>1. \A k \in 1 .. 3 - 1 : k = 1 \/ k = 2 OBVIOUS
    <3>2. P(3) BY <1>3, <2>3, <3>1
    <3> QED BY <3>2
  <2> QED BY <2>1, <2>2, <2>3
<1>5. first \in 1 .. 3 /\ P(first)
  <2> HIDE DEF P
  <2> QED BY <1>4
<1>6. BootChoice = order[first] BY DEF BootChoice, order
<1>7. BootChoice \in Bootable BY <1>5, <1>6
<1>8. ASSUME images[selected].whole PROVE BootChoice = selected
  <2>1. order[1] \in Bootable BY <1>1, <1>2, <1>8 DEF Bootable
  <2>2. first = 1
    <3> HIDE DEF first
    <3>1. first # 1 => 1 \in 1 .. first - 1 BY <1>5
    <3> QED BY <1>5, <2>1, <3>1
  <2> QED BY <1>2, <1>6, <2>2
<1> QED BY <1>7, <1>8 DEF Bootable

LEMMA OtaInvInit == OtaInit => OtaInv
<1> SUFFICES ASSUME OtaInit PROVE OtaInv OBVIOUS
<1>1. running \in Slots BY DEF OtaInit, Slots, OtaSlots
<1>2. PICK spare \in {NoImage, [app |-> "axeos", whole |-> TRUE]} :
          images = [s \in Slots |->
                       IF s = running THEN [app |-> "m45", whole |-> TRUE] ELSE spare]
  BY DEF OtaInit
<1>3. [app |-> "m45", whole |-> TRUE] \in [app : Apps \cup {"none"}, whole : BOOLEAN]
  BY DEF Apps
<1>4. spare \in [app : Apps \cup {"none"}, whole : BOOLEAN]
  <2>1. NoImage \in [app : Apps \cup {"none"}, whole : BOOLEAN] BY DEF NoImage
  <2>2. [app |-> "axeos", whole |-> TRUE] \in [app : Apps \cup {"none"}, whole : BOOLEAN]
    BY DEF Apps
  <2> QED BY <2>1, <2>2
<1>5. images[running] = [app |-> "m45", whole |-> TRUE] BY <1>1, <1>2
<1>6. images \in [Slots -> [app : Apps \cup {"none"}, whole : BOOLEAN]]
  BY <1>2, <1>3, <1>4
<1>7. OtaTypeOK
  BY <1>1, <1>6 DEF OtaInit, OtaTypeOK, NoUpload, Phases
<1>8. UploadInv /\ SelectedIsWhole BY <1>5 DEF OtaInit, UploadInv, SelectedIsWhole
<1>9. OlderIsPlanned /\ OlderFindsErased
  BY <1>5 DEF OtaInit, OlderIsPlanned, OlderFindsErased
<1> QED BY <1>7, <1>8, <1>9 DEF OtaInv

\* What a step of the upload leaves when it refuses or ends.
LEMMA RefusalTyped ==
    ASSUME Refuse
    PROVE  upAt' = "idle" /\ upload'.slot = "none"
           /\ upload' \in [axeos : BOOLEAN, app : Apps \cup {"none"}, merged : BOOLEAN,
                   whole : BOOLEAN, preserve : BOOLEAN, slot : OtaSlots \cup {"none"}]
BY DEF Refuse, NoUpload

LEMMA OtaRequest == ASSUME OtaInv, Request PROVE OtaInv'
<1> USE DEF OtaInv
<1>0. PICK file \in Files, isAxeos \in BOOLEAN, wish \in BOOLEAN :
         \E slot \in Targets(wish /\ ~isAxeos) :
           upload' = [axeos |-> isAxeos, app |-> file.app, merged |-> file.merged,
                      whole |-> file.whole, preserve |-> wish /\ ~isAxeos, slot |-> slot]
  BY DEF Request
<1>1. PICK slot \in Targets(wish /\ ~isAxeos) :
         upload' = [axeos |-> isAxeos, app |-> file.app, merged |-> file.merged,
                    whole |-> file.whole, preserve |-> wish /\ ~isAxeos, slot |-> slot]
  BY <1>0
<1>2. slot \in OtaSlots \ {running} BY <1>1 DEF Targets, NextSlot, OtaSlots
<1>3. /\ file.app \in Apps /\ file.merged \in BOOLEAN /\ file.whole \in BOOLEAN
      /\ (wish /\ ~isAxeos) \in BOOLEAN
  BY OtaAssumption
<1>4. /\ UNCHANGED <<images, running, selected, settings, overtaken, unplanned>>
      /\ ThisRuns /\ upAt = "idle" /\ upAt' \in {"head", "body"}
  BY DEF Request
<1>5. OtaTypeOK'
  <2>1. upload' \in [axeos : BOOLEAN, app : Apps \cup {"none"}, merged : BOOLEAN,
                   whole : BOOLEAN, preserve : BOOLEAN, slot : OtaSlots \cup {"none"}]
    BY <1>1, <1>2, <1>3
  <2> QED BY <1>4, <2>1 DEF OtaTypeOK, Phases
<1>6. UploadInv'
  <2>1. upload'.slot = slot BY <1>1
  <2> QED BY <1>2, <1>4, <2>1 DEF UploadInv, ThisRuns
<1> QED BY <1>4, <1>5, <1>6 DEF SelectedIsWhole, OlderIsPlanned, OlderFindsErased

LEMMA OtaBegins ==
    ASSUME OtaInv, Head0 \/ Body
    PROVE  OtaInv'
<1> USE DEF OtaInv
<1> DEFINE s == upload.slot
           app == IF upAt = "head" THEN "none" ELSE upload.app
<1>1. /\ upAt \in {"head", "body"} /\ BeginUpload(app)
      /\ upAt' = (IF upAt = "head" THEN "table" ELSE "rest")
      /\ UNCHANGED <<running, settings, unplanned, selected, upload>>
  BY DEF Head0, Body, OtaOnly
<1>2. s \in OtaSlots \ {running} /\ s \in Slots /\ ThisRuns /\ app \in Apps \cup {"none"}
  BY <1>1 DEF UploadInv, OtaSlots, Slots, OtaTypeOK
<1>3. /\ images' = [images EXCEPT ![s] = [app |-> app, whole |-> FALSE]]
      /\ overtaken' = (overtaken \/ s = selected)
  BY <1>1 DEF BeginUpload
<1> HIDE DEF s, app
<1>4. OtaTypeOK' BY <1>1, <1>2, <1>3 DEF OtaTypeOK, Phases
<1>5. /\ images'[running] = images[running]
      /\ s # selected => images'[selected] = images[selected]
      /\ images'[s].app = app
  BY <1>2, <1>3 DEF OtaTypeOK
<1>6. UploadInv' BY <1>1, <1>2, <1>3, <1>5 DEF UploadInv, ThisRuns, s, app
<1>7. SelectedIsWhole' BY <1>1, <1>3, <1>5 DEF SelectedIsWhole, OtaTypeOK
<1>8. OlderIsPlanned' BY <1>1, <1>3, <1>5 DEF OlderIsPlanned, OtaTypeOK
<1>9. OlderFindsErased' BY <1>1, <1>5 DEF OlderFindsErased
<1> QED BY <1>4, <1>6, <1>7, <1>8, <1>9

LEMMA OtaRest == ASSUME OtaInv, Rest PROVE OtaInv'
<1> USE DEF OtaInv
<1> DEFINE s == upload.slot
<1>1. /\ upAt = "rest" /\ upAt' = "accept"
      /\ images' = [images EXCEPT ![s].whole = upload.whole]
      /\ UNCHANGED <<running, settings, unplanned, selected, upload, overtaken>>
  BY DEF Rest, OtaOnly
<1>2. s \in OtaSlots \ {running} /\ s \in Slots /\ ThisRuns
      /\ (s = selected => overtaken) /\ images[s].app = upload.app
      /\ upload.whole \in BOOLEAN
  BY <1>1 DEF UploadInv, OtaSlots, Slots, OtaTypeOK
<1>3. images' = [images EXCEPT ![s] = [images[s] EXCEPT !.whole = upload.whole]] BY <1>1
<1>4. images[s] \in [app : Apps \cup {"none"}, whole : BOOLEAN] BY <1>2 DEF OtaTypeOK
<1> HIDE DEF s
<1>5. /\ images'[running] = images[running]
      /\ s # selected => images'[selected] = images[selected]
      /\ images'[s].app = images[s].app
  BY <1>2, <1>3, <1>4 DEF OtaTypeOK
<1>6. OtaTypeOK' BY <1>1, <1>2, <1>3, <1>4 DEF OtaTypeOK, Phases
<1>7. UploadInv' BY <1>1, <1>2, <1>5 DEF UploadInv, ThisRuns, s
<1>8. SelectedIsWhole' BY <1>1, <1>2, <1>5 DEF SelectedIsWhole
<1>9. OlderIsPlanned' BY <1>1, <1>2, <1>5 DEF OlderIsPlanned
<1>10. OlderFindsErased' BY <1>1, <1>5 DEF OlderFindsErased
<1> QED BY <1>6, <1>7, <1>8, <1>9, <1>10

LEMMA OtaTableOrBreak == ASSUME OtaInv, Table \/ Breaks PROVE OtaInv'
<1> USE DEF OtaInv
<1>1. UNCHANGED <<images, running, settings, unplanned, selected, overtaken>>
  BY DEF Table, Breaks, OtaOnly
<1>2. \/ upAt = "table" /\ upAt' = "body" /\ upload' = upload
      \/ upAt # "erase" /\ Refuse
  BY DEF Table, Breaks
<1>3. OtaTypeOK' BY <1>1, <1>2, RefusalTyped DEF OtaTypeOK, Phases
<1>4. UploadInv' BY <1>1, <1>2, RefusalTyped DEF UploadInv, ThisRuns
<1> QED BY <1>1, <1>2, <1>3, <1>4, RefusalTyped
    DEF SelectedIsWhole, OlderIsPlanned, OlderFindsErased

LEMMA OtaAccept == ASSUME OtaInv, Accept PROVE OtaInv'
<1> USE DEF OtaInv
<1>1. UNCHANGED <<images, running, settings, unplanned, selected, overtaken>>
  BY DEF Accept, OtaOnly
<1>2. /\ upAt = "accept"
      /\ \/ upAt' = "select" /\ upload' = upload /\ images[upload.slot].whole
         \/ Refuse
  BY DEF Accept
<1>3. OtaTypeOK' BY <1>1, <1>2, RefusalTyped DEF OtaTypeOK, Phases
<1>4. UploadInv' BY <1>1, <1>2, RefusalTyped DEF UploadInv, ThisRuns
<1> QED BY <1>1, <1>2, <1>3, <1>4, RefusalTyped
    DEF SelectedIsWhole, OlderIsPlanned, OlderFindsErased

LEMMA OtaSelect == ASSUME OtaInv, Select PROVE OtaInv'
<1> USE DEF OtaInv
<1>1. UNCHANGED <<images, running, settings, unplanned, overtaken>> /\ upAt = "select"
  BY DEF Select, OtaOnly
<1>2. CASE Refuse /\ UNCHANGED selected
  <2>1. OtaTypeOK' BY <1>1, <1>2, RefusalTyped DEF OtaTypeOK, Phases
  <2>2. UploadInv' BY <1>1, <1>2, RefusalTyped DEF UploadInv, ThisRuns
  <2> QED BY <1>1, <1>2, <2>1, <2>2, RefusalTyped
      DEF SelectedIsWhole, OlderIsPlanned, OlderFindsErased
<1>3. CASE /\ selected' = upload.slot /\ upload' = upload
           /\ upAt' = (IF upload.app = "older" THEN "erase" ELSE "reboot")
  <2>1. upload.slot \in Slots BY <1>1 DEF UploadInv, OtaSlots, Slots
  <2>2. OtaTypeOK' BY <1>1, <1>3, <2>1 DEF OtaTypeOK, Phases
  <2>3. UploadInv' BY <1>1, <1>3 DEF UploadInv, ThisRuns
  <2>4. SelectedIsWhole' BY <1>1, <1>3 DEF UploadInv, SelectedIsWhole
  <2>5. OlderIsPlanned' BY <1>1, <1>3 DEF UploadInv, OlderIsPlanned
  <2> QED BY <1>1, <2>2, <2>3, <2>4, <2>5 DEF OlderFindsErased
<1> QED BY <1>2, <1>3 DEF Select

LEMMA OtaErase == ASSUME OtaInv, Erase PROVE OtaInv'
<1> USE DEF OtaInv
<1>1. UNCHANGED <<images, running, unplanned, overtaken>> /\ upAt = "erase"
  BY DEF Erase
<1>2. CASE /\ settings' = "erased" /\ upAt' = "reboot" /\ UNCHANGED <<upload, selected>>
  <2>1. OtaTypeOK' BY <1>1, <1>2 DEF OtaTypeOK, Phases
  <2>2. UploadInv' BY <1>1, <1>2 DEF UploadInv, ThisRuns
  <2> QED BY <1>1, <1>2, <2>1, <2>2 DEF SelectedIsWhole, OlderIsPlanned, OlderFindsErased
<1>3. CASE selected' = running /\ Refuse /\ UNCHANGED settings
  <2>1. OtaTypeOK' BY <1>1, <1>3, RefusalTyped DEF OtaTypeOK, Phases
  <2>2. UploadInv' BY <1>1, <1>3, RefusalTyped DEF UploadInv, ThisRuns
  <2>3. SelectedIsWhole' BY <1>1, <1>3 DEF SelectedIsWhole, UploadInv
  <2> QED BY <1>1, <1>3, <2>1, <2>2, <2>3 DEF OlderIsPlanned, OlderFindsErased
<1> QED BY <1>2, <1>3 DEF Erase

LEMMA OtaSchedule == ASSUME OtaInv, Schedule PROVE OtaInv'
<1> USE DEF OtaInv
<1>1. UNCHANGED <<images, running, selected, settings, unplanned, overtaken>>
      /\ upAt = "reboot" /\ Refuse
  BY DEF Schedule
<1>2. OtaTypeOK' BY <1>1, RefusalTyped DEF OtaTypeOK, Phases
<1>3. UploadInv' BY <1>1, RefusalTyped DEF UploadInv, ThisRuns
<1> QED BY <1>1, <1>2, <1>3, RefusalTyped DEF SelectedIsWhole, OlderIsPlanned, OlderFindsErased

LEMMA OtaReturn == ASSUME OtaInv, AxeosReturn PROVE OtaInv'
<1> USE DEF OtaInv
<1>1. /\ UNCHANGED <<images, running, settings, upAt, upload, unplanned, overtaken>>
      /\ upAt = "idle" /\ selected' = RetainedFirst /\ images[RetainedFirst].whole
  BY DEF AxeosReturn, otaHistory
<1>2. RetainedFirst \in Retained
  <2>1. Retained # {} BY DEF AxeosReturn
  <2>2. \A s \in Retained : s \in {"ota_0", "ota_1", "factory"}
    BY DEF Retained, Slots, OtaSlots
  <2> QED BY <2>1, <2>2 DEF RetainedFirst
<1>3. RetainedFirst \in Slots /\ images[RetainedFirst].app = "axeos"
  BY <1>2 DEF Retained, IsAxeos
<1>4. OtaTypeOK' BY <1>1, <1>3 DEF OtaTypeOK
<1>5. UploadInv' BY <1>1 DEF UploadInv, ThisRuns
<1>6. OlderIsPlanned' BY <1>1, <1>3 DEF OlderIsPlanned
<1> QED BY <1>1, <1>4, <1>5, <1>6 DEF SelectedIsWhole, OlderFindsErased

\* A start: what was selected runs, or an upload had overtaken it.
LEMMA OtaStarts ==
    ASSUME OtaInv, StartSlot(BootChoice), UNCHANGED <<images, selected>>,
           unplanned' \in BOOLEAN,
           ~unplanned' => running # BootChoice /\ selected = BootChoice /\ upAt = "idle"
                          /\ ~overtaken
    PROVE  OtaInv'
<1> USE DEF OtaInv
<1>1. /\ running' = BootChoice /\ upAt' = "idle" /\ upload' = NoUpload
      /\ settings' = IF images[BootChoice].app = "m45" THEN "newer" ELSE settings
      /\ overtaken' = (overtaken /\ BootChoice # selected)
  BY DEF StartSlot
<1>2. /\ BootChoice \in Slots /\ images[BootChoice].whole
      /\ images[selected].whole => BootChoice = selected
  BY BootIsWhole DEF UploadInv
<1>3. upload' \in [axeos : BOOLEAN, app : Apps \cup {"none"}, merged : BOOLEAN,
                   whole : BOOLEAN, preserve : BOOLEAN, slot : OtaSlots \cup {"none"}]
  BY <1>1 DEF NoUpload
<1>4. OtaTypeOK' BY <1>1, <1>2, <1>3 DEF OtaTypeOK, Phases
<1>5. UploadInv' BY <1>1, <1>2 DEF UploadInv, NoUpload
<1>6. SelectedIsWhole' BY <1>1, <1>2 DEF SelectedIsWhole
<1>7. OlderIsPlanned' BY <1>1, <1>2 DEF OlderIsPlanned, SelectedIsWhole
<1>8. OlderFindsErased'
  <2> SUFFICES ASSUME images[BootChoice].app = "older", settings' = "newer", ~unplanned'
      PROVE  FALSE
    BY <1>1 DEF OlderFindsErased
  <2>1. settings = "newer" BY <1>1
  <2> QED BY <2>1 DEF OlderIsPlanned
<1> QED BY <1>4, <1>5, <1>6, <1>7, <1>8

LEMMA OtaOther == ASSUME OtaInv, OtherInstalls PROVE OtaInv'
<1> USE DEF OtaInv
<1>1. /\ images' = [images EXCEPT ![NextSlot] = [app |-> "m45", whole |-> TRUE]]
      /\ selected' = NextSlot /\ running' = NextSlot /\ settings' = "newer"
      /\ overtaken' = FALSE /\ unplanned' = FALSE
      /\ UNCHANGED <<upAt, upload>> /\ ~ThisRuns
  BY DEF OtherInstalls
<1>2. NextSlot \in Slots BY DEF NextSlot, Slots, OtaSlots
<1>3. upAt = "idle" BY <1>1 DEF UploadInv
<1>4. images'[NextSlot] = [app |-> "m45", whole |-> TRUE] BY <1>1, <1>2 DEF OtaTypeOK
<1>5. OtaTypeOK' BY <1>1, <1>2 DEF OtaTypeOK, Apps
<1>6. UploadInv' BY <1>1, <1>3, <1>4 DEF UploadInv
<1> QED BY <1>1, <1>4, <1>5, <1>6 DEF SelectedIsWhole, OlderIsPlanned, OlderFindsErased

LEMMA OtaInvNext == OtaInv /\ [OtaNext]_otaVars => OtaInv'
<1> SUFFICES ASSUME OtaInv, [OtaNext]_otaVars PROVE OtaInv' OBVIOUS
<1>1. CASE Request BY <1>1, OtaRequest
<1>2. CASE UploadStep
  BY <1>2, OtaBegins, OtaRest, OtaTableOrBreak, OtaAccept, OtaSelect, OtaErase, OtaSchedule
  DEF UploadStep
<1>3. CASE AxeosReturn BY <1>3, OtaReturn
<1>4. CASE StartSelected
  <2>1. (selected # BootChoice \/ upAt # "idle" \/ overtaken) \in BOOLEAN
    BY DEF OtaInv, OtaTypeOK
  <2> QED BY <1>4, <2>1, OtaStarts DEF StartSelected
<1>5. CASE PowerCut BY <1>5, OtaStarts DEF PowerCut
<1>6. CASE OtherInstalls BY <1>6, OtaOther
<1>7. CASE UNCHANGED otaVars
  <2>1. UNCHANGED <<images, running, selected, settings, upAt, upload, overtaken, unplanned>>
    BY <1>7 DEF otaVars, otaHistory
  <2> QED BY <2>1 DEF OtaInv, OtaTypeOK, UploadInv, ThisRuns, SelectedIsWhole, OlderIsPlanned,
      OlderFindsErased
<1> QED BY <1>1, <1>2, <1>3, <1>4, <1>5, <1>6, <1>7 DEF OtaNext

\* At every step of every upload the selected slot holds a whole image: a power cut
\* at any of them boots what ran or what was accepted (ota_install_handler), unless an
\* upload overtook a restart that was due.
THEOREM SelectionIsWhole == OtaSpec => []SelectedIsWhole
<1>1. OtaInv => SelectedIsWhole BY DEF OtaInv
<1> QED BY <1>1, OtaInvInit, OtaInvNext, PTL DEF OtaSpec

\* Firmware of an older configuration epoch that an upload selected starts on erased
\* settings, whatever uploads, failures and restarts came before.
THEOREM OlderStartsErased == OtaSpec => []OlderFindsErased
<1>1. OtaInv => OlderFindsErased BY DEF OtaInv
<1> QED BY <1>1, OtaInvInit, OtaInvNext, PTL DEF OtaSpec

\* What an upload was when it was accepted it is when it is selected, and what can
\* start has a name.
SwitchInv ==
    /\ OtaInv
    /\ \A s \in Slots : images[s].whole => images[s].app \in Apps
    /\ upAt # "idle" => upload.app \in Apps
    /\ upAt \in {"accept", "select"} => images[upload.slot].whole = upload.whole
    /\ upAt = "select" => (upload.axeos <=> upload.app = "axeos")
    /\ upAt = "erase" => /\ selected = upload.slot /\ upload.app = "older"
                         /\ images[selected] = [app |-> "older", whole |-> TRUE]

SwitchSteps == Switch!SwitchNext \/ UNCHANGED Switch!switchVars

LEMMA SwitchInvInit == OtaInit => SwitchInv
<1> SUFFICES ASSUME OtaInit PROVE SwitchInv OBVIOUS
<1>1. OtaInv BY OtaInvInit
<1>2. PICK spare \in {NoImage, [app |-> "axeos", whole |-> TRUE]} :
          images = [s \in Slots |->
                       IF s = running THEN [app |-> "m45", whole |-> TRUE] ELSE spare]
  BY DEF OtaInit
<1>3. ASSUME NEW s \in Slots, images[s].whole PROVE images[s].app \in Apps
  <2>1. images[s] = [app |-> "m45", whole |-> TRUE] \/ images[s] = spare BY <1>2
  <2> QED BY <1>3, <2>1 DEF NoImage, Apps
<1>4. upAt = "idle" BY DEF OtaInit
<1> QED BY <1>1, <1>3, <1>4 DEF SwitchInv

\* What can be started is a whole image with a name, and it is the one that runs
\* when no other is selected.
StartsFirmware ==
    /\ InSlot(BootChoice) \in Switch!Firmware
    /\ BootChoice \in Slots /\ images[BootChoice].whole
    /\ selected = running => BootChoice = running
    /\ images[selected].whole => BootChoice = selected

LEMMA NextIsFirmware == SwitchInv => StartsFirmware
<1> SUFFICES ASSUME SwitchInv PROVE StartsFirmware OBVIOUS
<1>1. /\ BootChoice \in Slots /\ images[BootChoice].whole
      /\ images[selected].whole => BootChoice = selected
      /\ images[running].whole
  BY BootIsWhole DEF SwitchInv, OtaInv, UploadInv
<1>2. images[BootChoice].app \in Apps BY <1>1 DEF SwitchInv
<1> QED BY <1>1, <1>2 DEF StartsFirmware, InSlot, Switch!Firmware

LEMMA ThenStartsFirmware ==
    ASSUME SwitchInv'
    PROVE  /\ InSlot(BootChoice)' \in Switch!Firmware
           /\ selected' = running' => BootChoice' = running'
           /\ images'[selected'].whole => BootChoice' = selected'
<1>1. SwitchInv' => StartsFirmware' BY NextIsFirmware, PTL
<1> QED BY <1>1 DEF StartsFirmware, Switch!Firmware

LEMMA SwitchRequest == ASSUME SwitchInv, SwitchInv', Request PROVE SwitchSteps
<1>1. /\ UNCHANGED <<images, running, selected, settings>> /\ ThisRuns /\ upAt = "idle"
      /\ upAt' # "idle"
  BY DEF Request
<1>2. UNCHANGED <<InSlot(running), InSlot(BootChoice), selected # running, settings>>
  BY <1>1 DEF InSlot, BootChoice, Bootable
<1> DEFINE o == [axeos |-> upload.axeos, app |-> upload.app, whole |-> upload.whole]
<1>3. o' \in Switch!Offers
  <2>1. upload'.app \in Apps BY <1>1 DEF SwitchInv
  <2>2. upload'.axeos \in BOOLEAN /\ upload'.whole \in BOOLEAN
    BY DEF SwitchInv, OtaInv, OtaTypeOK
  <2> QED BY <2>1, <2>2 DEF Switch!Offers
<1>4. OfferAtHand = {} /\ OfferAtHand' = {o'} BY <1>1 DEF OfferAtHand
<1>5. InSlot(running).app = "m45" BY <1>1 DEF InSlot, ThisRuns
<1>6. Switch!Receive BY <1>2, <1>3, <1>4, <1>5 DEF Switch!Receive
<1> QED BY <1>6 DEF SwitchSteps, Switch!SwitchNext

\* Writing to the slot of an upload does not touch what runs.
LEMMA SwitchWrites == ASSUME SwitchInv, SwitchInv', Head0 \/ Body \/ Rest PROVE SwitchSteps
<1>1. /\ UNCHANGED <<running, selected, settings, upload>> /\ upAt # "idle" /\ upAt' # "idle"
  BY DEF Head0, Body, Rest, OtaOnly
<1>2. upload.slot # running BY <1>1 DEF SwitchInv, OtaInv, UploadInv
<1>3. images'[running] = images[running]
  <2>1. running \in Slots BY DEF SwitchInv, OtaInv, OtaTypeOK
  <2>2. \A s \in Slots : s # upload.slot => images'[s] = images[s]
    BY DEF SwitchInv, OtaInv, OtaTypeOK, Head0, Body, Rest, BeginUpload
  <2> QED BY <1>2, <2>1, <2>2
<1>4. UNCHANGED <<InSlot(running), selected # running, settings, OfferAtHand>>
  BY <1>1, <1>3 DEF InSlot, OfferAtHand
<1>5. CASE selected = running
  <2>1. BootChoice = running /\ BootChoice' = running'
    BY <1>1, <1>5, NextIsFirmware, ThenStartsFirmware DEF StartsFirmware
  <2>2. UNCHANGED InSlot(BootChoice) BY <1>1, <1>3, <2>1 DEF InSlot
  <2> QED BY <1>4, <2>2 DEF SwitchSteps, Switch!switchVars
<1>6. CASE selected # running
  <2>1. InSlot(BootChoice)' \in Switch!Firmware BY ThenStartsFirmware
  <2>2. OfferAtHand # {} BY <1>1 DEF OfferAtHand
  <2>3. Switch!Overtake BY <1>4, <1>6, <2>1, <2>2 DEF Switch!Overtake
  <2> QED BY <2>3 DEF SwitchSteps, Switch!SwitchNext
<1> QED BY <1>5, <1>6

\* A step that leaves slots and selection alone leaves the next start alone.
LEMMA SameStart ==
    ASSUME UNCHANGED <<images, running, selected>>
    PROVE  UNCHANGED <<InSlot(running), InSlot(BootChoice), selected # running>>
BY DEF InSlot, BootChoice, Bootable

LEMMA SwitchDrops ==
    ASSUME UNCHANGED <<images, running, selected, settings>>,
           UNCHANGED OfferAtHand \/ upAt' = "idle"
    PROVE  SwitchSteps
<1>1. UNCHANGED <<InSlot(running), InSlot(BootChoice), selected # running, settings>>
  BY SameStart
<1>2. CASE UNCHANGED OfferAtHand BY <1>1, <1>2 DEF SwitchSteps, Switch!switchVars
<1>3. CASE upAt' = "idle"
  <2>1. OfferAtHand' = {} BY <1>3 DEF OfferAtHand
  <2>2. Switch!Drop BY <1>1, <2>1 DEF Switch!Drop
  <2> QED BY <2>2 DEF SwitchSteps, Switch!SwitchNext
<1> QED BY <1>2, <1>3

LEMMA SwitchSelect == ASSUME SwitchInv, SwitchInv', Select PROVE SwitchSteps
<1>1. /\ UNCHANGED <<images, running, settings>> /\ upAt = "select" BY DEF Select, OtaOnly
<1>2. CASE Refuse /\ UNCHANGED selected
  BY <1>1, <1>2, SwitchDrops DEF Refuse
<1>3. CASE selected' = upload.slot /\ upload' = upload /\ upAt' # "idle"
  <2> DEFINE o == [axeos |-> upload.axeos, app |-> upload.app, whole |-> upload.whole]
             s == upload.slot
  <2>1. /\ s # running /\ ThisRuns /\ images[s].whole /\ images[s].app = upload.app
        /\ upload.whole = images[s].whole /\ (upload.axeos <=> upload.app = "axeos")
    BY <1>1 DEF SwitchInv, OtaInv, UploadInv
  <2>2. OfferAtHand = {o} /\ OfferAtHand' = OfferAtHand
    BY <1>1, <1>3 DEF OfferAtHand
  <2>3. BootChoice' = s /\ InSlot(BootChoice)' \in Switch!Firmware
    BY <1>1, <1>3, <2>1, ThenStartsFirmware
  <2>4. InSlot(BootChoice)'.app = upload.app /\ InSlot(BootChoice)'.at = s
        /\ InSlot(running)' = InSlot(running) /\ InSlot(running).at = running
        /\ InSlot(running).app = "m45"
    BY <1>1, <2>1, <2>3 DEF InSlot, ThisRuns
  <2>5. (selected # running)' = TRUE BY <1>1, <1>3, <2>1
  <2>6. Switch!Becomes(upload.app) BY <1>1, <2>1, <2>2, <2>3, <2>4, <2>5 DEF Switch!Becomes
  <2>7. o \in OfferAtHand /\ o.whole /\ (o.axeos <=> o.app = "axeos") /\ Switch!Becomes(o.app)
    BY <2>1, <2>2, <2>6
  <2>8. Switch!Take BY <2>7 DEF Switch!Take
  <2> QED BY <2>8 DEF SwitchSteps, Switch!SwitchNext
<1> QED BY <1>2, <1>3 DEF Select

LEMMA SwitchErase == ASSUME SwitchInv, SwitchInv', Erase PROVE SwitchSteps
<1>1. UNCHANGED <<images, running>> /\ upAt = "erase" BY DEF Erase
<1> DEFINE o == [axeos |-> upload.axeos, app |-> upload.app, whole |-> upload.whole]
<1>2. Switch!IsForOlder
  <2>1. /\ selected # running /\ BootChoice = selected
        /\ images[selected].app = "older" /\ upload.app = "older"
    BY <1>1, NextIsFirmware DEF StartsFirmware, SwitchInv, OtaInv, UploadInv
  <2>2. o \in OfferAtHand /\ o.app = "older" BY <1>1, <2>1 DEF OfferAtHand
  <2>3. InSlot(BootChoice).app = "older" BY <2>1 DEF InSlot
  <2> QED BY <2>1, <2>2, <2>3 DEF Switch!IsForOlder
<1>3. CASE settings' = "erased" /\ upAt' = "reboot" /\ UNCHANGED <<upload, selected>>
  <2>1. UNCHANGED <<InSlot(running), InSlot(BootChoice), selected # running>>
    BY <1>1, <1>3, SameStart
  <2>2. UNCHANGED OfferAtHand BY <1>1, <1>3 DEF OfferAtHand
  <2>3. Switch!EraseSettings BY <1>2, <1>3, <2>1, <2>2 DEF Switch!EraseSettings
  <2> QED BY <2>3 DEF SwitchSteps, Switch!SwitchNext
<1>4. CASE selected' = running /\ Refuse /\ UNCHANGED settings
  <2>1. selected' = running' /\ OfferAtHand' = {} BY <1>1, <1>4 DEF Refuse, OfferAtHand
  <2>2. BootChoice' = running
    BY <1>1, <2>1, ThenStartsFirmware
  <2>3. InSlot(BootChoice)' = InSlot(running) /\ InSlot(running)' = InSlot(running)
    BY <1>1, <2>2 DEF InSlot
  <2>4. (selected # running)' = FALSE BY <2>1
  <2>5. Switch!TakeBack BY <1>2, <1>4, <2>1, <2>3, <2>4 DEF Switch!TakeBack
  <2> QED BY <2>5 DEF SwitchSteps, Switch!SwitchNext
<1> QED BY <1>3, <1>4 DEF Erase

LEMMA SwitchReturn == ASSUME SwitchInv, SwitchInv', AxeosReturn PROVE SwitchSteps
<1>1. /\ UNCHANGED <<images, running, settings, upAt, upload>> /\ upAt = "idle" /\ ThisRuns
      /\ selected' = RetainedFirst /\ images[RetainedFirst].whole
  BY DEF AxeosReturn, otaHistory
<1>2. RetainedFirst \in Slots \ {running} /\ images[RetainedFirst].app = "axeos"
  <2>1. Retained # {} BY DEF AxeosReturn
  <2>2. \A s \in Retained : s \in {"ota_0", "ota_1", "factory"}
    BY DEF Retained, Slots, OtaSlots
  <2>3. RetainedFirst \in Retained BY <2>1, <2>2 DEF RetainedFirst
  <2> QED BY <2>3 DEF Retained, IsAxeos
<1>3. BootChoice' = RetainedFirst /\ InSlot(BootChoice)' \in Switch!Firmware
  BY <1>1, ThenStartsFirmware
<1>4. /\ InSlot(BootChoice)'.app = "axeos" /\ InSlot(BootChoice)'.at = RetainedFirst
      /\ InSlot(running)' = InSlot(running) /\ InSlot(running).at = running
      /\ InSlot(running).app = "m45"
  BY <1>1, <1>2, <1>3 DEF InSlot, ThisRuns
<1>5. (selected # running)' = TRUE BY <1>1, <1>2
<1>6. OfferAtHand = {} /\ OfferAtHand' = {} BY <1>1 DEF OfferAtHand
<1>7. Switch!Becomes("axeos") BY <1>1, <1>2, <1>3, <1>4, <1>5, <1>6 DEF Switch!Becomes
<1>8. Switch!Return BY <1>6, <1>7 DEF Switch!Return
<1> QED BY <1>8 DEF SwitchSteps, Switch!SwitchNext

LEMMA SwitchStarts ==
    ASSUME SwitchInv, StartSlot(BootChoice), UNCHANGED <<images, selected>> PROVE SwitchSteps
<1>1. /\ running' = BootChoice /\ upAt' = "idle"
      /\ settings' = IF images[BootChoice].app = "m45" THEN "newer" ELSE settings
  BY DEF StartSlot
<1>2. BootChoice' = BootChoice BY DEF BootChoice, Bootable
<1>3. InSlot(running)' = InSlot(BootChoice) /\ InSlot(BootChoice)' = InSlot(BootChoice)
  BY <1>1, <1>2 DEF InSlot
<1>4. OfferAtHand' = {} BY <1>1 DEF OfferAtHand
<1>5. (selected # running)' = FALSE \/ (selected # running)' = (selected # running)
  <2>1. CASE selected' = running'
    <3>1. (selected # running)' = FALSE BY <2>1
    <3> QED BY <3>1
  <2>2. CASE selected' # running'
    <3>1. selected # BootChoice BY <1>1, <2>2
    <3>2. selected # running BY <3>1, NextIsFirmware DEF StartsFirmware
    <3>3. (selected # running) = TRUE /\ (selected # running)' = TRUE BY <2>2, <3>2
    <3> QED BY <3>3
  <2> QED BY <2>1, <2>2
<1>6. InSlot(BootChoice).app = images[BootChoice].app BY DEF InSlot
<1>7. (selected # running)' \in {FALSE, selected # running} BY <1>5
<1>8. Switch!StartNext BY <1>1, <1>3, <1>4, <1>6, <1>7 DEF Switch!StartNext
<1> QED BY <1>8 DEF SwitchSteps, Switch!SwitchNext

LEMMA SwitchOther == ASSUME SwitchInv, SwitchInv', OtherInstalls PROVE SwitchSteps
<1>1. /\ images' = [images EXCEPT ![NextSlot] = [app |-> "m45", whole |-> TRUE]]
      /\ selected' = NextSlot /\ running' = NextSlot /\ settings' = "newer"
      /\ UNCHANGED <<upAt, upload>> /\ ~ThisRuns
  BY DEF OtherInstalls
<1>2. InSlot(running).app # "m45" BY <1>1 DEF InSlot, ThisRuns
<1>3. BootChoice' = running' /\ InSlot(BootChoice)' \in Switch!Firmware
  BY <1>1, ThenStartsFirmware
<1>4. InSlot(running)' = InSlot(BootChoice)' BY <1>3 DEF InSlot
<1>5. InSlot(running)'.app = "m45"
  <2>1. NextSlot \in Slots BY DEF NextSlot, Slots, OtaSlots
  <2> QED BY <1>1, <2>1 DEF InSlot, SwitchInv, OtaInv, OtaTypeOK
<1>6. (selected # running)' = FALSE BY <1>1
<1>7. UNCHANGED OfferAtHand BY <1>1 DEF OfferAtHand
<1>8. Switch!OtherFirmware BY <1>1, <1>2, <1>3, <1>4, <1>5, <1>6, <1>7 DEF Switch!OtherFirmware
<1> QED BY <1>8 DEF SwitchSteps, Switch!SwitchNext

\* An image with a name does not lose it where no upload writes.
LEMMA SwitchInvKept ==
    ASSUME SwitchInv, OtaInv', images' = images, upAt' = "idle"
    PROVE  SwitchInv'
BY DEF SwitchInv

LEMMA SwitchInvRequest == ASSUME SwitchInv, Request, OtaInv' PROVE SwitchInv'
<1>1. PICK file \in Files, isAxeos \in BOOLEAN, wish \in BOOLEAN :
         \E slot \in Targets(wish /\ ~isAxeos) :
           upload' = [axeos |-> isAxeos, app |-> file.app, merged |-> file.merged,
                      whole |-> file.whole, preserve |-> wish /\ ~isAxeos, slot |-> slot]
  BY DEF Request
<1>2. upload'.app = file.app BY <1>1
<1>3. upload'.app \in Apps BY <1>2, OtaAssumption
<1>4. images' = images /\ upAt' \in {"head", "body"} BY DEF Request
<1> QED BY <1>3, <1>4 DEF SwitchInv

LEMMA SwitchInvWrites == ASSUME SwitchInv, Head0 \/ Body \/ Rest, OtaInv' PROVE SwitchInv'
<1> DEFINE s == upload.slot
<1>1. /\ upload' = upload /\ upAt # "idle" /\ upAt' \in {"table", "rest", "accept"}
      /\ upload.app \in Apps
  BY DEF Head0, Body, Rest, OtaOnly, SwitchInv
<1>2. s \in Slots BY <1>1 DEF SwitchInv, OtaInv, UploadInv, OtaSlots, Slots
<1>3. CASE Head0 \/ Body
  <2>1. PICK app : images' = [images EXCEPT ![s] = [app |-> app, whole |-> FALSE]]
    BY <1>3 DEF Head0, Body, BeginUpload
  <2>2. upAt' \in {"table", "rest"} BY <1>3 DEF Head0, Body
  <2>3. ASSUME NEW t \in Slots, images'[t].whole PROVE images'[t].app \in Apps
    <3>1. t # s BY <1>2, <2>1, <2>3 DEF SwitchInv, OtaInv, OtaTypeOK
    <3>2. images'[t] = images[t]
      BY <2>1, <3>1 DEF SwitchInv, OtaInv, OtaTypeOK
    <3> QED BY <2>3, <3>2 DEF SwitchInv
  <2> QED BY <1>1, <2>2, <2>3 DEF SwitchInv
<1>4. CASE Rest
  <2>1. /\ images' = [images EXCEPT ![s] = [images[s] EXCEPT !.whole = upload.whole]]
        /\ upAt' = "accept" /\ images[s].app = upload.app
    BY <1>4 DEF Rest, SwitchInv, OtaInv, UploadInv
  <2>2. images[s] \in [app : Apps \cup {"none"}, whole : BOOLEAN]
    BY <1>2 DEF SwitchInv, OtaInv, OtaTypeOK
  <2>3. images'[s] = [images[s] EXCEPT !.whole = upload.whole]
    BY <1>2, <2>1 DEF SwitchInv, OtaInv, OtaTypeOK
  <2>4. images'[s].app = upload.app /\ images'[s].whole = upload.whole
    BY <2>1, <2>2, <2>3
  <2>5. ASSUME NEW t \in Slots, images'[t].whole PROVE images'[t].app \in Apps
    <3>1. CASE t = s BY <1>1, <2>4, <3>1
    <3>2. CASE t # s
      <4>1. images'[t] = images[t]
        BY <2>1, <3>2 DEF SwitchInv, OtaInv, OtaTypeOK
      <4> QED BY <2>5, <4>1 DEF SwitchInv
    <3> QED BY <3>1, <3>2
  <2> QED BY <1>1, <2>1, <2>4, <2>5 DEF SwitchInv
<1> QED BY <1>3, <1>4

LEMMA SwitchInvErase == ASSUME SwitchInv, Erase, OtaInv' PROVE SwitchInv'
<1>1. images' = images /\ (upAt' = "idle" \/ (upAt' = "reboot" /\ upload' = upload))
      /\ upAt = "erase"
  BY DEF Erase, Refuse
<1> QED BY <1>1 DEF SwitchInv

LEMMA SwitchInvSelect == ASSUME SwitchInv, Select, OtaInv' PROVE SwitchInv'
<1>1. images' = images /\ upAt = "select" BY DEF Select, OtaOnly
<1>2. CASE Refuse BY <1>1, <1>2, SwitchInvKept DEF Refuse
<1>3. CASE /\ selected' = upload.slot /\ upload' = upload
           /\ upAt' = (IF upload.app = "older" THEN "erase" ELSE "reboot")
  <2>1. upload.slot \in Slots /\ images[upload.slot].whole
        /\ images[upload.slot].app = upload.app
    BY <1>1 DEF SwitchInv, OtaInv, UploadInv, OtaSlots, Slots
  <2>2. images[upload.slot] \in [app : Apps \cup {"none"}, whole : BOOLEAN]
    BY <2>1 DEF SwitchInv, OtaInv, OtaTypeOK
  <2>3. upload.app = "older" => images[upload.slot] = [app |-> "older", whole |-> TRUE]
    BY <2>1, <2>2
  <2> QED BY <1>1, <1>3, <2>3 DEF SwitchInv
<1> QED BY <1>2, <1>3 DEF Select

LEMMA SwitchInvOther == ASSUME SwitchInv, OtherInstalls, OtaInv' PROVE SwitchInv'
<1>1. /\ images' = [images EXCEPT ![NextSlot] = [app |-> "m45", whole |-> TRUE]]
      /\ upAt' = upAt /\ ~ThisRuns
  BY DEF OtherInstalls
<1>2. upAt = "idle" BY <1>1 DEF SwitchInv, OtaInv, UploadInv
<1>3. ASSUME NEW t \in Slots, images'[t].whole PROVE images'[t].app \in Apps
  <2>1. CASE t = NextSlot
    <3>1. images'[t] = [app |-> "m45", whole |-> TRUE]
      BY <1>1, <2>1 DEF SwitchInv, OtaInv, OtaTypeOK
    <3> QED BY <3>1 DEF Apps
  <2>2. CASE t # NextSlot
    <3>1. images'[t] = images[t] BY <1>1, <2>2 DEF SwitchInv, OtaInv, OtaTypeOK
    <3> QED BY <1>3, <3>1 DEF SwitchInv
  <2> QED BY <2>1, <2>2
<1> QED BY <1>1, <1>2, <1>3 DEF SwitchInv

LEMMA SwitchInvNext == SwitchInv /\ [OtaNext]_otaVars => SwitchInv'
<1> SUFFICES ASSUME SwitchInv, [OtaNext]_otaVars PROVE SwitchInv' OBVIOUS
<1>0. OtaInv' BY OtaInvNext DEF SwitchInv
<1>1. CASE Request BY <1>0, <1>1, SwitchInvRequest
<1>2. CASE UploadStep
  <2>1. CASE Head0 \/ Body \/ Rest BY <1>0, <2>1, SwitchInvWrites
  <2>2. CASE Table
    <3>1. images' = images /\ upload' = upload /\ upAt = "table" /\ upAt' = "body"
      BY <2>2 DEF Table
    <3> QED BY <1>0, <3>1 DEF SwitchInv
  <2>3. CASE Breaks \/ Schedule
    <3>1. images' = images /\ upAt' = "idle" BY <2>3 DEF Breaks, Schedule, Refuse
    <3> QED BY <1>0, <3>1, SwitchInvKept
  <2>4. CASE Accept
    <3>1. images' = images /\ upAt = "accept" BY <2>4 DEF Accept
    <3>2. CASE Refuse BY <1>0, <3>1, <3>2, SwitchInvKept DEF Refuse
    <3>3. CASE upAt' = "select" /\ upload' = upload
               /\ (upload.axeos <=> upload.app = "axeos")
      BY <1>0, <3>1, <3>3 DEF SwitchInv
    <3> QED BY <2>4, <3>2, <3>3 DEF Accept
  <2>5. CASE Select BY <1>0, <2>5, SwitchInvSelect
  <2>6. CASE Erase BY <1>0, <2>6, SwitchInvErase
  <2> QED BY <1>2, <2>1, <2>2, <2>3, <2>4, <2>5, <2>6 DEF UploadStep
<1>3. CASE AxeosReturn
  <2>1. images' = images /\ upAt' = "idle" BY <1>3 DEF AxeosReturn
  <2> QED BY <1>0, <2>1, SwitchInvKept
<1>4. CASE StartSelected \/ PowerCut
  <2>1. images' = images /\ upAt' = "idle" BY <1>4 DEF StartSelected, PowerCut, StartSlot
  <2> QED BY <1>0, <2>1, SwitchInvKept
<1>5. CASE OtherInstalls BY <1>0, <1>5, SwitchInvOther
<1>6. CASE UNCHANGED otaVars
  <2>1. UNCHANGED <<images, running, selected, upAt, upload>> BY <1>6 DEF otaVars
  <2> QED BY <1>0, <2>1 DEF SwitchInv
<1> QED BY <1>1, <1>2, <1>3, <1>4, <1>5, <1>6 DEF OtaNext

\* Every step of the update is a step of the switch, or leaves it alone.
LEMMA SwitchNextImplemented ==
    SwitchInv /\ SwitchInv' /\ [OtaNext]_otaVars => SwitchSteps
<1> SUFFICES ASSUME SwitchInv, SwitchInv', [OtaNext]_otaVars PROVE SwitchSteps OBVIOUS
<1>1. CASE Request BY <1>1, SwitchRequest
<1>2. CASE UploadStep
  <2>1. CASE Head0 \/ Body \/ Rest BY <2>1, SwitchWrites
  <2>2. CASE Table
    <3>1. UNCHANGED <<images, running, selected, settings, upload>> /\ upAt = "table"
          /\ upAt' = "body"
      BY <2>2 DEF Table, OtaOnly
    <3>2. OfferAtHand' = OfferAtHand BY <3>1 DEF OfferAtHand
    <3> QED BY <3>1, <3>2, SwitchDrops
  <2>3. CASE Breaks \/ Schedule
    <3>1. UNCHANGED <<images, running, selected, settings>> /\ upAt' = "idle"
      BY <2>3 DEF Breaks, Schedule, Refuse, OtaOnly
    <3> QED BY <3>1, SwitchDrops
  <2>4. CASE Accept
    <3>1. UNCHANGED <<images, running, selected, settings>> /\ upAt = "accept"
      BY <2>4 DEF Accept, OtaOnly
    <3>2. CASE Refuse BY <3>1, <3>2, SwitchDrops DEF Refuse
    <3>3. CASE upAt' = "select" /\ upload' = upload
      <4>1. OfferAtHand' = OfferAtHand BY <3>1, <3>3 DEF OfferAtHand
      <4> QED BY <3>1, <4>1, SwitchDrops
    <3> QED BY <2>4, <3>2, <3>3 DEF Accept
  <2>5. CASE Select BY <2>5, SwitchSelect
  <2>6. CASE Erase BY <2>6, SwitchErase
  <2> QED BY <1>2, <2>1, <2>2, <2>3, <2>4, <2>5, <2>6 DEF UploadStep
<1>3. CASE AxeosReturn BY <1>3, SwitchReturn
<1>4. CASE StartSelected \/ PowerCut
  <2>1. StartSlot(BootChoice) /\ UNCHANGED <<images, selected>>
    BY <1>4 DEF StartSelected, PowerCut
  <2> QED BY <2>1, SwitchStarts
<1>5. CASE OtherInstalls BY <1>5, SwitchOther
<1>6. CASE UNCHANGED otaVars
  <2>1. UNCHANGED <<images, running, selected, settings, upAt, upload>> BY <1>6 DEF otaVars
  <2>2. OfferAtHand' = OfferAtHand BY <2>1 DEF OfferAtHand
  <2> QED BY <2>1, <2>2, SwitchDrops
<1> QED BY <1>1, <1>2, <1>3, <1>4, <1>5, <1>6 DEF OtaNext

LEMMA SwitchInitImplemented == OtaInit => Switch!SwitchInit
<1> SUFFICES ASSUME OtaInit PROVE Switch!SwitchInit OBVIOUS
<1>1. SwitchInv /\ StartsFirmware BY SwitchInvInit, NextIsFirmware
<1>2. selected = running /\ settings = "newer" /\ upAt = "idle" BY DEF OtaInit
<1>3. BootChoice = running BY <1>1, <1>2 DEF StartsFirmware
<1>4. InSlot(BootChoice) = InSlot(running) /\ InSlot(running) \in Switch!Firmware
  BY <1>1, <1>3 DEF StartsFirmware
<1>5. InSlot(running).app = "m45"
  <2>1. PICK spare \in {NoImage, [app |-> "axeos", whole |-> TRUE]} :
          images = [s \in Slots |->
                       IF s = running THEN [app |-> "m45", whole |-> TRUE] ELSE spare]
    BY DEF OtaInit
  <2>2. running \in Slots BY DEF OtaInit, Slots, OtaSlots
  <2> QED BY <2>1, <2>2 DEF InSlot
<1>6. OfferAtHand = {} BY <1>2 DEF OfferAtHand
<1>7. (selected # running) = FALSE BY <1>2
<1> QED BY <1>2, <1>4, <1>5, <1>6, <1>7 DEF Switch!SwitchInit

\* However an upload is cut, refused or taken back, and whenever power fails, what the
\* next start runs changes at one instant, to an upload that was whole and of the kind
\* asked for; only for older firmware that runs next are the settings erased
\* (ota_install_handler, axeos_return_handler).
THEOREM UpdateImplementsSwitch == OtaSpec => UploadsSwitchAtOnce
<1>1. SwitchInv /\ SwitchInv' /\ [OtaNext]_otaVars => [Switch!SwitchNext]_Switch!switchVars
  BY SwitchNextImplemented DEF SwitchSteps
<1> QED BY <1>1, SwitchInvInit, SwitchInvNext, SwitchInitImplemented, PTL
    DEF OtaSpec, UploadsSwitchAtOnce, Switch!SwitchSpec

-----------------------------------------------------------------------------
(* The fault log.  An identifier names one fault in all its copies: in     *)
(* memory, in flash and on a page however old.                             *)

FaultLogSpec == FaultLogInit /\ [][FaultLogNext]_faultVars

Fault == [id : Nat, message : Messages, uptime : Nat, fault : Nat]

FaultTypeOK ==
    /\ faults \in Seq(Fault) /\ nextId \in Nat
    /\ stored \in [faults : Seq(Fault), nextId : Nat]
    /\ uptime \in Nat /\ recorded \in Nat /\ page \subseteq Fault
    /\ mistaken \in BOOLEAN /\ rewound \in BOOLEAN

\* Every copy of an entry there is: in memory, in flash and on the page.
Copies == Range(faults) \cup Range(stored.faults) \cup page

\* Memory and flash give no identifier they have given.
IdsAhead ==
    /\ stored.nextId <= nextId
    /\ \A f \in Range(faults) : f.id < nextId
    /\ \A f \in Range(stored.faults) : f.id < stored.nextId

\* Unless a boot took identifiers back, an identifier names one fault, on however
\* old a page, and the next one names none.
OneFaultEach ==
    /\ \A f \in Copies : f.id < nextId
    /\ \A f, g \in Copies : f.id = g.id => f.fault = g.fault

FaultInv == FaultTypeOK /\ IdsAhead /\ (~rewound => OneFaultEach /\ ~mistaken)

LEMMA RangeTyped == ASSUME NEW S, NEW q \in Seq(S) PROVE Range(q) \subseteq S
<1>1. \A i \in DOMAIN q : q[i] \in S OBVIOUS
<1> QED BY <1>1 DEF Range

LEMMA CopiesTyped == FaultTypeOK => Copies \subseteq Fault
<1> SUFFICES ASSUME FaultTypeOK PROVE Copies \subseteq Fault OBVIOUS
<1>1. faults \in Seq(Fault) /\ stored.faults \in Seq(Fault) /\ page \subseteq Fault
  BY DEF FaultTypeOK
<1> QED BY <1>1, RangeTyped DEF Copies

LEMMA ResetTyped == Reset \in [faults : Seq(Fault), nextId : Nat]
<1>1. <<>> \in Seq(Fault) OBVIOUS
<1> QED BY <1>1 DEF Reset

LEMMA AppendRange ==
    ASSUME NEW S, NEW q \in Seq(S), NEW x
    PROVE  Range(Append(q, x)) = Range(q) \cup {x}
<1>1. ASSUME NEW i \in DOMAIN Append(q, x) PROVE Append(q, x)[i] \in Range(q) \cup {x}
  <2>1. CASE i = Len(q) + 1 BY <2>1
  <2>2. CASE i # Len(q) + 1 BY <2>2 DEF Range
  <2> QED BY <2>1, <2>2
<1>2. ASSUME NEW i \in DOMAIN q PROVE q[i] \in Range(Append(q, x))
  <2>1. i \in DOMAIN Append(q, x) /\ Append(q, x)[i] = q[i] OBVIOUS
  <2> QED BY <2>1 DEF Range
<1>3. x \in Range(Append(q, x))
  <2>1. Len(q) + 1 \in DOMAIN Append(q, x) /\ Append(q, x)[Len(q) + 1] = x OBVIOUS
  <2> QED BY <2>1 DEF Range
<1> QED BY <1>1, <1>2, <1>3 DEF Range

LEMMA TailRange ==
    ASSUME NEW S, NEW q \in Seq(S), q # <<>>
    PROVE  Tail(q) \in Seq(S) /\ Range(Tail(q)) \subseteq Range(q)
<1>1. ASSUME NEW i \in DOMAIN Tail(q) PROVE Tail(q)[i] \in Range(q)
  <2>1. i + 1 \in DOMAIN q /\ Tail(q)[i] = q[i + 1] OBVIOUS
  <2> QED BY <2>1 DEF Range
<1> QED BY <1>1 DEF Range

LEMMA RemoveRange ==
    ASSUME NEW S, NEW q \in Seq(S), NEW i \in DOMAIN q
    PROVE  RemoveAt(q, i) \in Seq(S) /\ Range(RemoveAt(q, i)) \subseteq Range(q)
<1> DEFINE front == SubSeq(q, 1, i - 1)
           back == SubSeq(q, i + 1, Len(q))
<1>1. /\ front \in Seq(S) /\ Len(front) = i - 1
      /\ \A j \in 1 .. i - 1 : front[j] = q[j]
  OBVIOUS
<1>2. /\ back \in Seq(S) /\ Len(back) = Len(q) - i
      /\ \A j \in 1 .. Len(q) - i : back[j] = q[i + j]
  OBVIOUS
<1>3. RemoveAt(q, i) = front \o back BY DEF RemoveAt
<1> HIDE DEF front, back
<1>4. ASSUME NEW j \in DOMAIN (front \o back) PROVE (front \o back)[j] \in Range(q)
  <2>1. CASE j <= i - 1
    <3>1. j \in DOMAIN q /\ (front \o back)[j] = q[j] BY <1>1, <1>2, <2>1
    <3> QED BY <3>1 DEF Range
  <2>2. CASE j > i - 1
    <3>1. j + 1 \in DOMAIN q /\ (front \o back)[j] = q[j + 1] BY <1>1, <1>2, <2>2
    <3> QED BY <3>1 DEF Range
  <2> QED BY <1>1, <1>2, <2>1, <2>2
<1> QED BY <1>1, <1>2, <1>3, <1>4 DEF Range

LEMMA FaultLogStarts == FaultLogInit => FaultInv
<1> SUFFICES ASSUME FaultLogInit PROVE FaultInv OBVIOUS
<1>1. <<>> \in Seq(Fault) /\ stored \in [faults : Seq(Fault), nextId : Nat]
  BY ResetTyped DEF FaultLogInit
<1>4. FaultTypeOK BY <1>1 DEF FaultLogInit, FaultTypeOK
<1>2. Copies = {} BY DEF FaultLogInit, Copies, Range, Reset
<1>3. IdsAhead BY DEF FaultLogInit, IdsAhead, Reset, Range
<1> QED BY <1>2, <1>3, <1>4 DEF FaultInv, OneFaultEach, FaultLogInit

\* What a step must show: nothing new but one fault, which takes the next
\* identifier, is written and kept.
LEMMA FaultsAllotted ==
    ASSUME FaultInv, FaultTypeOK', IdsAhead', NEW f \in Fault,
           Copies' \subseteq Copies \cup {f}, f.id = nextId, nextId' = nextId + 1,
           UNCHANGED <<mistaken, rewound>>
    PROVE  FaultInv'
<1>1. ASSUME ~rewound PROVE OneFaultEach'
  <2>1. OneFaultEach /\ nextId \in Nat BY <1>1 DEF FaultInv, FaultTypeOK
  <2>2. \A g \in Copies : g.id \in Nat BY CopiesTyped DEF FaultInv, Fault
  <2>3. \A g \in Copies' : g.id < nextId' BY <2>1, <2>2 DEF OneFaultEach
  <2>4. \A g, h \in Copies' : g.id = h.id => g.fault = h.fault
    BY <2>1, <2>2 DEF OneFaultEach
  <2> QED BY <2>3, <2>4 DEF OneFaultEach
<1> QED BY <1>1 DEF FaultInv

\* A step that brings no entry.
LEMMA FaultsKept ==
    ASSUME FaultInv, FaultTypeOK', IdsAhead', Copies' \subseteq Copies, nextId' = nextId,
           rewound' = rewound, rewound \/ mistaken' = mistaken
    PROVE  FaultInv'
<1>1. ASSUME OneFaultEach PROVE OneFaultEach' BY <1>1 DEF OneFaultEach
<1> QED BY <1>1 DEF FaultInv

LEMMA FaultRecorded ==
    ASSUME FaultInv, NEW message \in Messages, RecordFault(message)
    PROVE  FaultInv'
<1>0. FaultTypeOK /\ IdsAhead /\ recorded' = recorded + 1 /\ UNCHANGED <<uptime, boots, page,
         mistaken, rewound>>
  BY DEF FaultInv, RecordFault
<1>1. CASE IsRepeat(message)
  <2>1. UNCHANGED <<faults, nextId, stored>> BY <1>1 DEF RecordFault
  <2>2. FaultTypeOK' BY <1>0, <2>1 DEF FaultTypeOK
  <2>3. IdsAhead' /\ Copies' = Copies BY <1>0, <2>1 DEF IdsAhead, Copies
  <2> QED BY <1>0, <2>1, <2>2, <2>3, FaultsKept
<1>2. CASE ~IsRepeat(message)
  <2> DEFINE kept == IF Len(faults) = Capacity THEN Tail(faults) ELSE faults
             f == [id |-> nextId, message |-> message, uptime |-> uptime,
                   fault |-> recorded]
  <2>1. Save(Append(kept, f), nextId + 1) BY <1>2 DEF RecordFault
  <2>2. f \in Fault /\ f.id = nextId BY <1>0 DEF FaultTypeOK, Fault
  <2>3. kept \in Seq(Fault) /\ Range(kept) \subseteq Range(faults)
    <3>1. Len(faults) = Capacity => faults # <<>>
      BY <1>0, FaultLogAssumption DEF FaultTypeOK
    <3> QED BY <1>0, <3>1, TailRange DEF FaultTypeOK
  <2> HIDE DEF kept, f
  <2>4. Append(kept, f) \in Seq(Fault) /\ Range(Append(kept, f)) = Range(kept) \cup {f}
    BY <2>2, <2>3, AppendRange
  <2>5. /\ faults' = Append(kept, f) /\ nextId' = nextId + 1
        /\ \/ stored' = stored
           \/ stored'.faults = faults' /\ stored'.nextId = nextId'
    BY <2>1 DEF Save
  <2>9. stored' \in [faults : Seq(Fault), nextId : Nat]
    <3>1. stored \in [faults : Seq(Fault), nextId : Nat] /\ nextId + 1 \in Nat
      BY <1>0 DEF FaultTypeOK
    <3>2. [faults |-> Append(kept, f), nextId |-> nextId + 1]
              \in [faults : Seq(Fault), nextId : Nat]
      BY <2>4, <3>1
    <3>3. stored' \in {stored, [faults |-> Append(kept, f), nextId |-> nextId + 1]}
      BY <2>1 DEF Save
    <3> QED BY <3>1, <3>2, <3>3
  <2>6. FaultTypeOK' BY <1>0, <2>4, <2>5, <2>9 DEF FaultTypeOK
  <2>7. Copies' \subseteq Copies \cup {f}
    <3>1. Range(faults') \subseteq Range(faults) \cup {f} BY <2>3, <2>4, <2>5
    <3>2. Range(stored'.faults) \subseteq Range(stored.faults) \cup Range(faults')
      BY <2>5
    <3> QED BY <1>0, <3>1, <3>2 DEF Copies
  <2>8. IdsAhead'
    <3>1. \A g \in Range(faults) : g.id \in Nat
      BY <1>0, CopiesTyped DEF Copies, Fault
    <3>2. nextId \in Nat /\ stored.nextId \in Nat BY <1>0 DEF FaultTypeOK
    <3>3. \A g \in Range(faults') : g.id < nextId'
      BY <1>0, <2>2, <2>3, <2>4, <2>5, <3>1, <3>2 DEF IdsAhead
    <3>4. CASE stored' = stored BY <1>0, <2>5, <3>2, <3>3, <3>4 DEF IdsAhead
    <3>5. CASE stored'.faults = faults' /\ stored'.nextId = nextId'
      BY <2>5, <3>2, <3>3, <3>5 DEF IdsAhead
    <3> QED BY <2>5, <3>4, <3>5
  <2> QED BY <1>0, <2>2, <2>5, <2>6, <2>7, <2>8, FaultsAllotted
<1> QED BY <1>1, <1>2

LEMMA FaultsSaved ==
    ASSUME FaultInv, NEW entries \in Seq(Fault), Save(entries, nextId),
           Range(entries) \subseteq Range(faults), page' \subseteq page,
           UNCHANGED <<uptime, recorded, rewound>>, mistaken' \in BOOLEAN
    PROVE  /\ FaultTypeOK' /\ IdsAhead' /\ Copies' \subseteq Copies /\ nextId' = nextId
           /\ rewound \/ mistaken' = mistaken => FaultInv'
<1>0. FaultTypeOK /\ IdsAhead BY DEF FaultInv
<1>1. /\ faults' = entries /\ nextId' = nextId
      /\ stored' = stored \/ stored' = [faults |-> entries, nextId |-> nextId]
  BY DEF Save
<1>2. FaultTypeOK' BY <1>0, <1>1 DEF FaultTypeOK
<1>3. Copies' \subseteq Copies BY <1>1 DEF Copies
<1>4. IdsAhead' BY <1>0, <1>1 DEF IdsAhead, FaultTypeOK
<1> QED BY <1>1, <1>2, <1>3, <1>4, FaultsKept

LEMMA FaultRemoved ==
    ASSUME FaultInv, NEW listed \in page, RemoveFault(listed)
    PROVE  FaultInv'
<1>0. FaultTypeOK BY DEF FaultInv
<1>1. PICK i \in DOMAIN faults :
        /\ faults[i].id = listed.id
        /\ Save(RemoveAt(faults, i), nextId)
        /\ mistaken' = (mistaken \/ faults[i].fault # listed.fault)
  BY DEF RemoveFault
<1>2. page' \subseteq page /\ UNCHANGED <<uptime, recorded, rewound>>
  BY <1>0 DEF RemoveFault, FaultTypeOK, FaultLogNext
<1>3. RemoveAt(faults, i) \in Seq(Fault) /\ Range(RemoveAt(faults, i)) \subseteq Range(faults)
  BY <1>0, RemoveRange DEF FaultTypeOK
<1>4. ASSUME ~rewound PROVE mistaken' = mistaken
  <2>1. faults[i] \in Copies /\ listed \in Copies BY DEF Copies, Range
  <2> QED BY <1>1, <1>4, <2>1, <1>0 DEF FaultInv, OneFaultEach, FaultTypeOK
<1>5. mistaken' \in BOOLEAN BY <1>0, <1>1 DEF FaultTypeOK
<1> QED BY <1>1, <1>2, <1>3, <1>4, <1>5, FaultsSaved

\* A boot that does not take identifiers back finds memory as it was written, or
\* finds nothing and has given none.
LEMMA FaultBoot ==
    ASSUME FaultInv, FaultReboot
    PROVE  FaultInv'
<1>0. FaultTypeOK /\ IdsAhead /\ page' = page /\ mistaken' = mistaken /\ recorded' = recorded
      /\ uptime' = 0
  BY DEF FaultInv, FaultReboot
<1>1. PICK loaded \in {stored, Reset} :
        /\ faults' = loaded.faults /\ nextId' = loaded.nextId /\ stored' = loaded
        /\ rewound' = (rewound \/ loaded.nextId < nextId)
  BY DEF FaultReboot
<1>2. loaded \in [faults : Seq(Fault), nextId : Nat]
  BY <1>0, ResetTyped DEF FaultTypeOK
<1>3. FaultTypeOK' BY <1>0, <1>1, <1>2 DEF FaultTypeOK
<1>4. \A f \in Range(loaded.faults) : f.id < loaded.nextId
  <2>1. CASE loaded = stored BY <1>0, <2>1 DEF IdsAhead
  <2>2. CASE loaded = Reset BY <2>2 DEF Reset, Range
  <2> QED BY <2>1, <2>2
<1>5. IdsAhead' BY <1>1, <1>2, <1>4 DEF IdsAhead
<1>6. ASSUME ~rewound' PROVE OneFaultEach' /\ ~mistaken'
  <2>1. ~rewound /\ ~(loaded.nextId < nextId) BY <1>1, <1>6, <1>0 DEF FaultTypeOK
  <2>2. OneFaultEach /\ ~mistaken BY <2>1 DEF FaultInv
  <2>3. nextId \in Nat /\ loaded.nextId \in Nat /\ nextId <= loaded.nextId
    BY <1>0, <1>2, <2>1 DEF FaultTypeOK
  <2>4. Copies' \subseteq Copies
    <3>1. CASE loaded = stored BY <1>0, <1>1, <3>1 DEF Copies
    <3>2. CASE loaded = Reset
      BY <1>0, <1>1, <3>2 DEF Copies, Reset, Range
    <3> QED BY <3>1, <3>2
  <2>5. \A f \in Copies : f.id \in Nat BY <1>0, CopiesTyped DEF Fault
  <2> QED BY <1>0, <1>1, <2>2, <2>3, <2>4, <2>5 DEF OneFaultEach
<1> QED BY <1>3, <1>5, <1>6 DEF FaultInv

LEMMA FaultInvNext == FaultInv /\ [FaultLogNext]_faultVars => FaultInv'
<1> SUFFICES ASSUME FaultInv, [FaultLogNext]_faultVars PROVE FaultInv' OBVIOUS
<1>0. FaultTypeOK /\ IdsAhead BY DEF FaultInv
<1>1. ASSUME NEW message \in Messages, RecordFault(message) PROVE FaultInv'
  BY <1>1, FaultRecorded
<1>2. ASSUME NEW listed \in page, RemoveFault(listed) PROVE FaultInv'
  BY <1>2, FaultRemoved
<1>3. CASE ClearFaults
  <2>1. Save(<<>>, nextId) /\ UNCHANGED <<page, uptime, recorded, rewound, mistaken>>
    BY <1>3 DEF ClearFaults
  <2>2. <<>> \in Seq(Fault) /\ Range(<<>>) = {} BY DEF Range
  <2> QED BY <1>0, <2>1, <2>2, FaultsSaved DEF FaultTypeOK
<1>4. CASE FaultReboot BY <1>4, FaultBoot
<1>5. CASE ListFaults
  <2>1. page' = Range(faults)
        /\ UNCHANGED <<faults, nextId, stored, uptime, mistaken, rewound, recorded>>
    BY <1>5 DEF ListFaults
  <2>2. FaultTypeOK' BY <1>0, <2>1 DEF FaultTypeOK, Range
  <2>3. IdsAhead' /\ Copies' \subseteq Copies BY <1>0, <2>1 DEF IdsAhead, Copies
  <2> QED BY <2>1, <2>2, <2>3, FaultsKept
<1>6. CASE TimePasses \/ UNCHANGED faultVars
  <2>1. UNCHANGED <<faults, nextId, stored, page, mistaken, rewound, recorded>>
        /\ uptime' \in {uptime, uptime + 1}
    BY <1>6 DEF TimePasses, faultVars
  <2>2. FaultTypeOK' BY <1>0, <2>1 DEF FaultTypeOK
  <2>3. IdsAhead' /\ Copies' \subseteq Copies BY <1>0, <2>1 DEF IdsAhead, Copies
  <2> QED BY <2>1, <2>2, <2>3, FaultsKept
<1> QED BY <1>1, <1>2, <1>3, <1>4, <1>5, <1>6 DEF FaultLogNext

\* A removal takes the fault its page listed, on however old a page, after any
\* clears, drops, failed writes and restarts, unless a boot took identifiers back.
THEOREM RemovalIsOfListed == FaultLogSpec => []RemovesTheListedFault
<1>1. FaultInv => RemovesTheListedFault BY DEF FaultInv, RemovesTheListedFault
<1> QED BY <1>1, FaultLogStarts, FaultInvNext, PTL DEF FaultLogSpec

-----------------------------------------------------------------------------
(* The fan.  The duty last noted is the one written, or a task is about to *)
(* note it.                                                                *)

FanSpec == FanInit /\ [][FanNext]_fanVars

FanShape ==
    /\ tick = [at |-> tick.at, current |-> tick.current, writes |-> tick.writes,
               alone |-> tick.alone, forces |-> tick.forces]
    /\ tick.at \in {"idle", "decide", "write", "note"}
    /\ tick.alone \in BOOLEAN /\ tick.forces \in BOOLEAN
    /\ control = [at |-> control.at, op |-> control.op, level |-> control.level]
    /\ control.at \in {"idle", "write", "note"}
    /\ torn \in BOOLEAN /\ hotTick \in BOOLEAN /\ latched \in BOOLEAN

\* The belief is the duty, or the task that has written is about to note it; if both
\* have, the fan is torn.
BeliefHolds ==
    ~torn => /\ tick.at # "note" \/ control.at # "note"
             /\ tick.at = "note" => duty = Head(tick.writes)
             /\ control.at = "note" => duty = control.level
             /\ tick.at # "note" /\ control.at # "note" => fanPerc = duty

\* A tick the control task leaves alone still sees what it saw when it started, and
\* with the failsafe it has nothing to write but full speed.
TickAlone ==
    /\ tick.at # "idle" => ~hotTick
    /\ tick.at = "decide" => ~tick.forces
    /\ tick.at # "idle" /\ tick.alone => control.at # "note"
    /\ tick.at = "decide" /\ tick.alone => tick.current = fanPerc
    /\ tick.at \in {"write", "note"} /\ tick.alone /\ (latched \/ tick.forces)
           => tick.writes = <<Full>>

FanInv == FanShape /\ BeliefHolds /\ TickAlone /\ HotFanIsFull

LEMMA FanInvInit == FanInit => FanInv
<1> SUFFICES ASSUME FanInit PROVE FanInv OBVIOUS
<1>1. /\ tick.at = "idle" /\ tick.alone = TRUE /\ tick.forces = FALSE
      /\ tick = [at |-> tick.at, current |-> tick.current, writes |-> tick.writes,
                 alone |-> tick.alone, forces |-> tick.forces]
  BY DEF FanInit, NoTick
<1>2. /\ control.at = "idle"
      /\ control = [at |-> control.at, op |-> control.op, level |-> control.level]
  BY DEF FanInit, NoControl
<1>3. fanPerc = duty /\ torn = FALSE /\ hotTick = FALSE /\ latched = FALSE BY DEF FanInit
<1> QED BY <1>1, <1>2, <1>3 DEF FanInv, FanShape, BeliefHolds, TickAlone, HotFanIsFull

\* What a decision of the tick keeps.
LEMMA FanDecides ==
    ASSUME FanInv, tick.at = "decide", NEW writes, NEW off, NEW latch \in BOOLEAN,
           Tick(writes, off, latch), latch => writes = FailsafeWrites
    PROVE  FanInv'
<1> USE DEF FanInv
<1>1. /\ tick' = IF writes = <<>> THEN NoTick
                 ELSE [tick EXCEPT !.at = "write", !.writes = writes]
      /\ latched' = latch /\ hotTick' = (latch /\ writes = <<>> /\ tick.alone)
      /\ UNCHANGED <<duty, fanPerc, control, torn>>
  BY DEF Tick
<1>2. /\ tick'.at \in {"idle", "write"} /\ tick'.alone \in BOOLEAN /\ tick'.forces = FALSE
      /\ tick'.at = "write" => tick'.writes = writes /\ tick'.alone = tick.alone
                               /\ writes # <<>>
      /\ tick' = [at |-> tick'.at, current |-> tick'.current, writes |-> tick'.writes,
                  alone |-> tick'.alone, forces |-> tick'.forces]
  BY <1>1 DEF FanShape, TickAlone, NoTick
<1>3. hotTick' \in BOOLEAN BY <1>1 DEF FanShape
<1>4. FanShape' BY <1>1, <1>2, <1>3 DEF FanShape
<1>5. BeliefHolds' BY <1>1, <1>2 DEF BeliefHolds
<1>6. tick'.at = "write" => ~hotTick' BY <1>1, <1>2
<1>7. latch => writes = <<>> \/ writes = <<Full>> BY DEF FailsafeWrites
<1>8. TickAlone' BY <1>1, <1>2, <1>6, <1>7 DEF TickAlone
<1>9. HotFanIsFull'
  <2> SUFFICES ASSUME hotTick', ~torn PROVE duty = Full BY <1>1 DEF HotFanIsFull
  <2>1. latch /\ writes = <<>> /\ tick.alone BY <1>1
  <2>2. tick.current = Full BY <2>1 DEF FailsafeWrites
  <2>3. fanPerc = Full /\ control.at # "note" BY <2>1, <2>2 DEF TickAlone
  <2> QED BY <2>3 DEF BeliefHolds
<1> QED BY <1>4, <1>5, <1>8, <1>9

LEMMA FanTick == ASSUME FanInv, TickStep PROVE FanInv'
<1> USE DEF FanInv
<1>1. ASSUME NEW sensed \in {"on", "between", "off"}, TickStarts(sensed) PROVE FanInv'
  <2>1. /\ tick.at = "idle" /\ latched' \in BOOLEAN /\ hotTick' = FALSE
        /\ tick' = [NoTick EXCEPT !.at = "decide", !.current = fanPerc,
                                  !.alone = control.at # "note"]
        /\ UNCHANGED <<duty, fanPerc, control, torn>>
    BY <1>1 DEF TickStarts, FanShape
  <2>2. tick' = [at |-> "decide", current |-> fanPerc, writes |-> <<>>,
                 alone |-> control.at # "note", forces |-> FALSE]
    BY <2>1 DEF NoTick
  <2>3. (control.at # "note") \in BOOLEAN OBVIOUS
  <2>4. /\ tick'.at = "decide" /\ tick'.current = fanPerc /\ tick'.forces = FALSE
        /\ tick'.alone = (control.at # "note")
    BY <2>2
  <2>5. FanShape' BY <2>1, <2>2, <2>3, <2>4 DEF FanShape
  <2>6. BeliefHolds' BY <2>1, <2>4 DEF BeliefHolds
  <2>7. TickAlone' BY <2>1, <2>4 DEF TickAlone
  <2> QED BY <2>1, <2>5, <2>6, <2>7 DEF HotFanIsFull
<1>2. CASE TickForces
  <2>1. /\ tick.at = "idle" /\ hotTick' = FALSE
        /\ tick' = [NoTick EXCEPT !.at = "write", !.current = Full, !.writes = <<Full>>,
                              !.alone = control.at # "note", !.forces = TRUE]
        /\ UNCHANGED <<duty, fanPerc, control, torn, latched>>
    BY <1>2 DEF TickForces
  <2>2. tick' = [at |-> "write", current |-> Full, writes |-> <<Full>>,
                 alone |-> control.at # "note", forces |-> TRUE]
    BY <2>1 DEF NoTick
  <2> QED BY <2>1, <2>2 DEF FanShape, BeliefHolds, TickAlone, HotFanIsFull
<1>3. CASE TickDecides
  <2>1. tick.at = "decide" BY <1>3 DEF TickDecides
  <2>2. \E writes, off : \/ Tick(writes, off, FALSE)
                         \/ Tick(FailsafeWrites, off, TRUE)
    BY <1>3 DEF TickDecides
  <2> QED BY <2>1, <2>2, FanDecides
<1>4. CASE TickWrites
  <2>1. /\ tick.at = "write" /\ duty' = Head(tick.writes)
        /\ tick' = [tick EXCEPT !.at = "note"]
        /\ torn' = (control.at = "note")
        /\ UNCHANGED <<fanPerc, latched, control, hotTick>>
    BY <1>4 DEF TickWrites
  <2>2. tick' = [at |-> "note", current |-> tick.current, writes |-> tick.writes,
                 alone |-> tick.alone, forces |-> tick.forces]
    BY <2>1 DEF FanShape
  <2> QED BY <2>1, <2>2 DEF FanShape, BeliefHolds, TickAlone, HotFanIsFull
<1>5. CASE TickFails
  <2>1. /\ tick.at = "write" /\ tick' = NoTick
        /\ UNCHANGED <<duty, fanPerc, latched, control, torn, hotTick>>
    BY <1>5 DEF TickFails
  <2> QED BY <2>1 DEF FanShape, BeliefHolds, TickAlone, HotFanIsFull, NoTick
<1>6. CASE TickNotes
  <2>1. PICK ended \in {MayEnd(Tail(tick.writes)), Tail(tick.writes) = <<>>} :
         /\ tick' = IF ended THEN NoTick
                    ELSE [tick EXCEPT !.at = "write", !.writes = Tail(tick.writes)]
         /\ hotTick' = (ended /\ latched' /\ tick.alone)
    BY <1>6 DEF TickNotes
  <2>2. /\ tick.at = "note" /\ latched' = (latched \/ tick.forces)
        /\ fanPerc' = Head(tick.writes) /\ UNCHANGED <<duty, control, torn>>
    BY <1>6 DEF TickNotes
  <2>3. ended \in BOOLEAN
    <3>1. MayEnd(Tail(tick.writes)) \in BOOLEAN BY DEF MayEnd
    <3>2. (Tail(tick.writes) = <<>>) \in BOOLEAN OBVIOUS
    <3> QED BY <2>1, <3>1, <3>2
  <2>4. ASSUME tick.alone, latched' PROVE tick.writes = <<Full>> /\ ended
    <3>1. tick.writes = <<Full>> BY <2>2, <2>4 DEF TickAlone
    <3>2. Tail(tick.writes) = <<>> BY <3>1
    <3> QED BY <2>1, <3>1, <3>2 DEF MayEnd
  <2>5. CASE ended
    <3>1. FanShape' BY <2>1, <2>2, <2>3, <2>5 DEF FanShape, NoTick
    <3>2. BeliefHolds' /\ TickAlone' BY <2>1, <2>2, <2>5 DEF BeliefHolds, TickAlone, NoTick
    <3>3. HotFanIsFull'
      <4> SUFFICES ASSUME hotTick', ~torn PROVE duty = Full BY <2>2 DEF HotFanIsFull
      <4>1. tick.writes = <<Full>> BY <2>1, <2>4
      <4>2. Head(tick.writes) = Full BY <4>1
      <4> QED BY <2>2, <4>2 DEF BeliefHolds
    <3> QED BY <3>1, <3>2, <3>3
  <2>6. CASE ~ended
    <3>1. tick' = [at |-> "write", current |-> tick.current, writes |-> Tail(tick.writes),
                   alone |-> tick.alone, forces |-> tick.forces]
      BY <2>1, <2>6 DEF FanShape
    <3>2. ~hotTick' /\ hotTick' \in BOOLEAN BY <2>1, <2>6
    <3>3. FanShape' BY <2>2, <3>1, <3>2 DEF FanShape
    <3>4. BeliefHolds' BY <2>2, <3>1 DEF BeliefHolds
    <3>5. ~(tick.alone /\ latched') BY <2>4, <2>6
    <3>6. TickAlone' BY <2>2, <3>1, <3>2, <3>5 DEF TickAlone
    <3> QED BY <3>2, <3>3, <3>4, <3>6 DEF HotFanIsFull
  <2> QED BY <2>3, <2>5, <2>6
<1> QED BY <1>1, <1>2, <1>3, <1>4, <1>5, <1>6 DEF TickStep

LEMMA FanControl == ASSUME FanInv, ControlStep PROVE FanInv'
<1> USE DEF FanInv
\* The control task decides what to write, or gives up.
<1>1. ASSUME NEW op, NEW level, control.at # "note", ControlBegins(op, level) PROVE FanInv'
  BY <1>1 DEF ControlBegins, FanShape, BeliefHolds, TickAlone, HotFanIsFull
<1>2. ASSUME control.at # "note", UNCHANGED <<duty, fanPerc, latched, tick, torn, hotTick>>,
             control' \in {control, NoControl}
      PROVE  FanInv'
  BY <1>2 DEF NoControl, FanShape, BeliefHolds, TickAlone, HotFanIsFull
<1>3. ASSUME NEW c \in FanConfigs, SaveFan(c) PROVE FanInv'
  <2>1. control.at # "note" BY <1>3 DEF SaveFan
  <2>2. \/ ControlBegins("apply", c.level)
        \/ UNCHANGED <<duty, fanPerc, latched, tick, control, torn, hotTick>>
    BY <1>3 DEF SaveFan
  <2> QED BY <1>1, <1>2, <2>1, <2>2
<1>4. CASE StopFan BY <1>1, <1>4 DEF StopFan
<1>5. CASE ForceMax BY <1>1, <1>2, <1>5 DEF ForceMax
<1>6. CASE StartFan BY <1>1, <1>6 DEF StartFan
<1>7. CASE ControlWrites
  <2>1. /\ control.at = "write" /\ duty' = control.level
        /\ control' = [control EXCEPT !.at = "note"]
        /\ torn' = (tick.at = "note") /\ hotTick' = FALSE
        /\ tick' = IF tick.at = "idle" THEN NoTick ELSE [tick EXCEPT !.alone = FALSE]
        /\ UNCHANGED <<fanPerc, latched>>
    BY <1>7 DEF ControlWrites
  <2>2. control' = [at |-> "note", op |-> control.op, level |-> control.level]
    BY <2>1 DEF FanShape
  <2>3. CASE tick.at = "idle"
    BY <2>1, <2>2, <2>3 DEF NoTick, FanShape, BeliefHolds, TickAlone, HotFanIsFull
  <2>4. CASE tick.at # "idle"
    <3>1. tick' = [at |-> tick.at, current |-> tick.current, writes |-> tick.writes,
                   alone |-> FALSE, forces |-> tick.forces]
      BY <2>1, <2>4 DEF FanShape
    <3> QED BY <2>1, <2>2, <2>4, <3>1 DEF FanShape, BeliefHolds, TickAlone, HotFanIsFull
  <2> QED BY <2>3, <2>4
<1>8. CASE ControlFails BY <1>2, <1>8 DEF ControlFails
<1>9. CASE ControlNotes
  <2>1. /\ control.at = "note" /\ fanPerc' = control.level /\ latched' \in BOOLEAN
        /\ control' = NoControl /\ hotTick' = FALSE /\ UNCHANGED <<duty, tick, torn>>
    BY <1>9 DEF ControlNotes, FanShape
  <2>2. tick.at # "idle" => ~tick.alone BY <2>1 DEF TickAlone
  <2> QED BY <2>1, <2>2 DEF NoControl, FanShape, BeliefHolds, TickAlone, HotFanIsFull
<1>10. CASE ControlHasNothingToWrite BY <1>2, <1>10 DEF ControlHasNothingToWrite
<1> QED BY <1>3, <1>4, <1>5, <1>6, <1>7, <1>8, <1>9, <1>10 DEF ControlStep

LEMMA FanInvNext == FanInv /\ [FanNext]_fanVars => FanInv'
<1> SUFFICES ASSUME FanInv, [FanNext]_fanVars PROVE FanInv' OBVIOUS
<1>1. CASE UNCHANGED fanVars
  BY <1>1 DEF fanVars, FanInv, FanShape, BeliefHolds, TickAlone, HotFanIsFull
<1> QED BY <1>1, FanTick, FanControl DEF FanNext

\* When a tick with the failsafe latched has ended, without a bus error and without
\* the control task in its way, the fan really is at full speed, whatever sequences
\* of writes, failures and notes came before, unless two writes were torn apart.
THEOREM FailsafeIsFull == FanSpec => []HotFanIsFull
<1>1. FanInv => HotFanIsFull BY DEF FanInv
<1> QED BY <1>1, FanInvInit, FanInvNext, PTL DEF FanSpec

-----------------------------------------------------------------------------
(* The ASIC parameters jobs are judged by.  The cache is right about a     *)
(* register nobody is at, unless two tasks crossed there.                  *)

AsicParamSpec == AsicInit /\ [][AsicNext]_asicParamVars

Callers == {"rx", "job"}
JobParams == [mask : VersionMasks, diff : Difficulties]
MaskLabels == {"mask", "writeMask", "storeMask"}
CallerLabels == MaskLabels \cup {"idle", "diff", "writeDiff", "reset", "send"}

ParamTypes ==
    /\ announced \in [mined -> JobParams]
    /\ work \in [mined -> JobParams \cup {NoWork}]
    /\ cache \in [mask : VersionMasks, diff : Difficulties \cup {0}]
    /\ register \in [mask : VersionMasks, diff : Difficulties \cup {ChipDifficulty}]
    /\ caller \in [Callers -> [at : CallerLabels, pool : mined \cup {0},
                              wants : JobParams \cup {NoWork}, then : {"idle", "reset", "send"}]]
    /\ alone \in [Callers -> BOOLEAN]
    /\ superseded \in BOOLEAN

\* Where each task goes, and with what.  Only in single-pool mode does the receive
\* task touch the chip, and a new mask always ends in a reset.
CallersFit ==
    /\ caller["rx"].at # "send" /\ caller["job"].at # "reset"
    /\ caller["rx"].at # "idle" => /\ caller["rx"].pool \in mined
                                   /\ caller["rx"].wants = announced[caller["rx"].pool]
                                   /\ caller["rx"].then \in {"idle", "reset"}
    /\ caller["rx"].at \in MaskLabels \cup {"reset"} => caller["rx"].then = "reset"
    /\ caller["rx"].at \notin {"idle", "reset"} => Single
    /\ caller["job"].at # "idle" => /\ caller["job"].pool \in mined
                                    /\ caller["job"].wants \in JobParams
                                    /\ caller["job"].then = "send"

\* A task that is alone at a register has not been crossed, and with no task at it the
\* register is what the cache says or the cache is known to be wrong about it.
Coherent ==
    /\ \A t \in Callers : alone[t] /\ caller[t].at \in Steps["mask"] =>
          /\ power = "up" /\ \A u \in Callers \ {t} : caller[u].at \notin Steps["mask"]
          /\ caller[t].at = "storeMask" => register.mask = caller[t].wants.mask
    /\ \A t \in Callers : alone[t] /\ caller[t].at \in Steps["diff"] =>
          /\ power = "up" /\ \A u \in Callers \ {t} : caller[u].at \notin Steps["diff"]
          /\ cache.diff = caller[t].wants.diff
    /\ power = "up" /\ "mask" \notin stale
         /\ (\A t \in Callers : caller[t].at \notin Steps["mask"]) => register.mask = cache.mask
    /\ power = "up" /\ "diff" \notin stale
         /\ (\A t \in Callers : caller[t].at \notin Steps["diff"])
           => register.diff = cache.diff \/ cache.diff = 0

\* The receive task is about to reset pool p's work.
ResetDue(p) == caller["rx"].at # "idle" /\ caller["rx"].then = "reset" /\ caller["rx"].pool = p

\* Unless a reset is due, the cache keeps what a job in the making has asked for.
JobsCovered ==
    /\ \A p \in mined : work[p] # NoWork => announced[p].diff <= work[p].diff \/ ResetDue(p)
    /\ caller["job"].at # "idle" /\ ~superseded =>
          \/ announced[caller["job"].pool].diff <= caller["job"].wants.diff
          \/ ResetDue(caller["job"].pool)
    /\ caller["job"].at \in {"diff", "writeDiff", "send"} /\ ~superseded =>
          cache.mask = caller["job"].wants.mask \/ ResetDue(caller["job"].pool)
    /\ caller["job"].at \in {"writeDiff", "send"} =>
          /\ cache.diff # 0
          /\ superseded \/ cache.diff <= caller["job"].wants.diff
                \/ ResetDue(caller["job"].pool)

AsicParamInv == ParamTypes /\ CallersFit /\ Coherent /\ JobsCovered

LEMMA NobodyAlone ==
    ASSUME NEW a, a = [rx |-> FALSE, job |-> FALSE]
    PROVE  a \in [Callers -> BOOLEAN] /\ \A t \in Callers : ~a[t]
<1>1. DOMAIN a = Callers BY DEF Callers
<1>2. a["rx"] = FALSE /\ a["job"] = FALSE OBVIOUS
<1>3. \A t \in Callers : a[t] = FALSE BY <1>2 DEF Callers
<1>4. a = [t \in Callers |-> a[t]] BY <1>1
<1> QED BY <1>3, <1>4

LEMMA AsicParamInit == AsicInit => AsicParamInv
<1> SUFFICES ASSUME AsicInit PROVE AsicParamInv OBVIOUS
<1>1. /\ caller = [rx |-> Idle, job |-> Idle] /\ work = [p \in mined |-> NoWork]
      /\ announced \in [mined -> [mask : {AnyMask}, diff : Difficulties]]
      /\ cache = NoWork /\ register = Written /\ stale = {}
      /\ alone = [rx |-> FALSE, job |-> FALSE] /\ superseded = FALSE
  BY DEF AsicInit
<1>2. AnyMask \in VersionMasks /\ NoWork.diff = 0 /\ NoWork.mask = AnyMask
      /\ Written.mask = AnyMask
  BY ParametersAssumption DEF NoWork, Written
<1>3. caller["rx"] = Idle /\ caller["job"] = Idle /\ Idle.at = "idle" BY <1>1 DEF Idle
<1>4. Idle \in [at : CallerLabels, pool : mined \cup {0},
               wants : JobParams \cup {NoWork}, then : {"idle", "reset", "send"}]
  BY DEF Idle, CallerLabels
<1>5. caller \in [Callers -> [at : CallerLabels, pool : mined \cup {0},
               wants : JobParams \cup {NoWork}, then : {"idle", "reset", "send"}]]
  BY <1>1, <1>4 DEF Callers
<1>6. alone \in [Callers -> BOOLEAN] /\ ~alone["rx"] /\ ~alone["job"]
  BY <1>1, NobodyAlone DEF Callers
<1>7. announced \in [mined -> JobParams] BY <1>1, <1>2 DEF JobParams
<1>8. cache \in [mask : VersionMasks, diff : Difficulties \cup {0}]
  BY <1>1, <1>2 DEF NoWork
<1>9. register \in [mask : VersionMasks, diff : Difficulties \cup {ChipDifficulty}]
  BY <1>1, <1>2 DEF Written
<1>10. ParamTypes BY <1>1, <1>5, <1>6, <1>7, <1>8, <1>9 DEF ParamTypes
<1>11. CallersFit BY <1>3 DEF CallersFit, MaskLabels
<1>12. Coherent BY <1>1, <1>2, <1>3, <1>6 DEF Coherent, Callers
<1>13. JobsCovered BY <1>1, <1>3 DEF JobsCovered
<1> QED BY <1>10, <1>11, <1>12, <1>13 DEF AsicParamInv

\* A task goes to a label and changes nothing else of itself, or of the other.
LEMMA CallerGoes ==
    ASSUME ParamTypes, NEW t \in Callers, NEW label \in CallerLabels, CallerAt(t, label)
    PROVE  /\ caller'[t].at = label /\ caller'[t].pool = caller[t].pool
           /\ caller'[t].wants = caller[t].wants /\ caller'[t].then = caller[t].then
           /\ \A u \in Callers \ {t} : caller'[u] = caller[u]
           /\ caller' \in [Callers -> [at : CallerLabels, pool : mined \cup {0},
                              wants : JobParams \cup {NoWork},
                              then : {"idle", "reset", "send"}]]
BY DEF ParamTypes, CallerAt

LEMMA CompareMaskKeeps == ASSUME AsicParamInv, NEW t \in Callers, CompareMask(t) PROVE AsicParamInv'
<1> USE DEF AsicParamInv
<1>1. /\ caller[t].at = "mask"
      /\ UNCHANGED <<mined, announced, work, power, superseded, cache, register, stale>>
  BY DEF CompareMask, EnsureUnchanged
<1> DEFINE next == IF t = "job" THEN "diff" ELSE caller[t].then
<1>2. next \in CallerLabels /\ (t = "rx" => next = "reset") /\ next \notin {"writeMask", "storeMask"}
      /\ (t = "job" => next = "diff")
  BY <1>1 DEF Callers, CallersFit, MaskLabels, CallerLabels
<1> HIDE DEF next
<1>3. CASE cache.mask = caller[t].wants.mask
  <2>1. CallerAt(t, next) /\ UNCHANGED alone
    BY <1>3, <1>1 DEF CompareMask, MaskReturns, Returns, next
  <2>2. /\ caller'[t].at = next /\ caller'[t].pool = caller[t].pool
        /\ caller'[t].wants = caller[t].wants /\ caller'[t].then = caller[t].then
        /\ \A u \in Callers \ {t} : caller'[u] = caller[u]
    BY <2>1, <1>2, CallerGoes
  <2>3. ParamTypes' BY <2>1, <1>1, <1>2, CallerGoes DEF ParamTypes
  <2>4. CallersFit' BY <2>2, <1>1, <1>2 DEF CallersFit, Callers, MaskLabels, Single
  <2>5. Coherent' BY <2>1, <2>2, <1>1, <1>2 DEF Coherent, Callers, Steps
  <2>6. JobsCovered'
    BY <2>2, <1>1, <1>2, <1>3 DEF JobsCovered, Callers, ResetDue, CallersFit, MaskLabels
  <2> QED BY <2>3, <2>4, <2>5, <2>6
<1>4. CASE cache.mask # caller[t].wants.mask
  <2>1. CallerAt(t, "writeMask") /\ Begins(t, "mask") BY <1>4 DEF CompareMask
  <2>2. /\ caller'[t].at = "writeMask" /\ caller'[t].pool = caller[t].pool
        /\ caller'[t].wants = caller[t].wants /\ caller'[t].then = caller[t].then
        /\ \A u \in Callers \ {t} : caller'[u] = caller[u]
    BY <2>1, CallerGoes DEF CallerLabels, MaskLabels
  <2>3. /\ alone' \in [Callers -> BOOLEAN]
        /\ alone'[t] => power = "up" /\ \A u \in Callers \ {t} : caller[u].at \notin Steps["mask"]
        /\ \A u \in Callers \ {t} : alone'[u] => alone[u] /\ caller[u].at \notin Steps["mask"]
    BY <2>1 DEF Begins, Callers, ParamTypes
  <2>4. ParamTypes' BY <2>1, <2>3, <1>1, CallerGoes DEF ParamTypes, CallerLabels, MaskLabels
  <2>5. CallersFit' BY <2>2, <1>1 DEF CallersFit, Callers, MaskLabels, Single
  <2>6. Coherent' BY <2>2, <2>3, <1>1 DEF Coherent, Callers, Steps
  <2>7. JobsCovered' BY <2>2, <1>1 DEF JobsCovered, Callers, ResetDue
  <2> QED BY <2>4, <2>5, <2>6, <2>7
<1> QED BY <1>3, <1>4

LEMMA WriteMaskKeeps == ASSUME AsicParamInv, NEW t \in Callers, WriteMask(t) PROVE AsicParamInv'
<1> USE DEF AsicParamInv
<1>1. /\ caller[t].at = "writeMask" /\ CallerAt(t, "storeMask")
      /\ UNCHANGED <<mined, announced, work, power, superseded, cache, alone, stale>>
  BY DEF WriteMask, EnsureUnchanged
<1>2. /\ caller'[t].at = "storeMask" /\ caller'[t].pool = caller[t].pool
      /\ caller'[t].wants = caller[t].wants /\ caller'[t].then = caller[t].then
      /\ \A u \in Callers \ {t} : caller'[u] = caller[u]
  BY <1>1, CallerGoes DEF CallerLabels, MaskLabels
<1>3. caller[t].wants \in JobParams
  BY <1>1 DEF Callers, CallersFit, ParamTypes
<1>4. /\ register' \in [mask : VersionMasks, diff : Difficulties \cup {ChipDifficulty}]
      /\ register'.diff = register.diff
      /\ power = "up" => register'.mask = caller[t].wants.mask
  BY <1>3 DEF WriteMask, WriteRegister, ParamTypes, JobParams
<1>5. ParamTypes' BY <1>1, <1>4, CallerGoes DEF ParamTypes, CallerLabels, MaskLabels
<1>6. CallersFit' BY <1>2, <1>1 DEF CallersFit, Callers, MaskLabels, Single
<1>7. Coherent' BY <1>1, <1>2, <1>4 DEF Coherent, Callers, Steps
<1>8. JobsCovered' BY <1>2, <1>1 DEF JobsCovered, Callers, ResetDue
<1> QED BY <1>5, <1>6, <1>7, <1>8

LEMMA StoreMaskKeeps == ASSUME AsicParamInv, NEW t \in Callers, StoreMask(t) PROVE AsicParamInv'
<1> USE DEF AsicParamInv
<1>1. /\ caller[t].at = "storeMask" /\ Ends(t, "mask")
      /\ cache' = [cache EXCEPT !.mask = caller[t].wants.mask]
      /\ UNCHANGED <<mined, announced, work, power, superseded, register, alone>>
  BY DEF StoreMask, EnsureUnchanged
<1> DEFINE next == IF t = "job" THEN "diff" ELSE caller[t].then
<1>2. next \in CallerLabels /\ (t = "rx" => next = "reset") /\ next \notin {"writeMask", "storeMask"}
      /\ (t = "job" => next = "diff")
  BY <1>1 DEF Callers, CallersFit, MaskLabels, CallerLabels
<1>3. CallerAt(t, next) BY DEF StoreMask, MaskReturns, Returns
<1> HIDE DEF next
<1>4. /\ caller'[t].at = next /\ caller'[t].pool = caller[t].pool
      /\ caller'[t].wants = caller[t].wants /\ caller'[t].then = caller[t].then
      /\ \A u \in Callers \ {t} : caller'[u] = caller[u]
  BY <1>3, <1>2, CallerGoes
<1>5. caller[t].wants \in JobParams BY <1>1 DEF Callers, CallersFit, ParamTypes
<1>6. /\ cache' \in [mask : VersionMasks, diff : Difficulties \cup {0}]
      /\ cache'.mask = caller[t].wants.mask /\ cache'.diff = cache.diff
  BY <1>1, <1>5 DEF ParamTypes, JobParams
<1>7. ParamTypes' BY <1>1, <1>2, <1>3, <1>6, CallerGoes DEF ParamTypes
<1>8. CallersFit' BY <1>4, <1>1, <1>2 DEF CallersFit, Callers, MaskLabels, Single
<1>9. "mask" \notin stale' => alone[t] BY <1>1 DEF Ends
<1>10. "diff" \in stale' <=> "diff" \in stale BY <1>1 DEF Ends
<1>11. Coherent' BY <1>1, <1>2, <1>4, <1>6, <1>9, <1>10 DEF Coherent, Callers, Steps
<1>12. t = "rx" /\ caller["job"].at # "idle" => ResetDue(caller["job"].pool)'
  BY <1>1, <1>2, <1>4 DEF ResetDue, Callers, CallersFit, MaskLabels, Single
<1>13. JobsCovered' BY <1>1, <1>2, <1>4, <1>6, <1>12 DEF JobsCovered, Callers, ResetDue
<1> QED BY <1>7, <1>8, <1>11, <1>13

LEMMA StoreDifficultyKeeps ==
    ASSUME AsicParamInv, NEW t \in Callers, StoreDifficulty(t) PROVE AsicParamInv'
<1> USE DEF AsicParamInv
<1>1. /\ caller[t].at = "diff" /\ cache' = [cache EXCEPT !.diff = caller[t].wants.diff]
      /\ UNCHANGED <<mined, announced, work, power, superseded, register, stale>>
  BY DEF StoreDifficulty, EnsureUnchanged
<1>2. caller[t].wants \in JobParams
  BY <1>1 DEF Callers, CallersFit, ParamTypes
<1>3. caller[t].wants.diff \in Nat \ {0} BY <1>2, ParametersAssumption DEF JobParams
<1>4. /\ cache' \in [mask : VersionMasks, diff : Difficulties \cup {0}]
      /\ cache'.mask = cache.mask /\ cache'.diff = caller[t].wants.diff
  BY <1>1, <1>2 DEF ParamTypes, JobParams
<1>5. caller[t].then \in {"idle", "reset", "send"} /\ (t = "rx" => caller[t].then # "send")
      /\ (t = "job" => caller[t].then = "send")
  BY <1>1 DEF Callers, CallersFit, ParamTypes
\* What the receive task stores is no more than an undisturbed job asked for.
<1>6. t = "rx" /\ caller["job"].at # "idle" /\ ~superseded =>
         \/ caller[t].wants.diff <= caller["job"].wants.diff
         \/ caller["rx"].then = "reset" /\ caller["rx"].pool = caller["job"].pool
  BY <1>1 DEF CallersFit, JobsCovered, ResetDue, Single
<1>7. CASE cache.diff = caller[t].wants.diff
  <2>1. CallerAt(t, caller[t].then) /\ UNCHANGED alone BY <1>7 DEF StoreDifficulty, Returns
  <2>2. /\ caller'[t].at = caller[t].then /\ caller'[t].pool = caller[t].pool
        /\ caller'[t].wants = caller[t].wants /\ caller'[t].then = caller[t].then
        /\ \A u \in Callers \ {t} : caller'[u] = caller[u]
    BY <2>1, <1>5, CallerGoes DEF CallerLabels
  <2>3. ParamTypes' BY <2>1, <1>1, <1>4, <1>5, CallerGoes DEF ParamTypes, CallerLabels
  <2>4. CallersFit' BY <2>2, <1>1, <1>5 DEF CallersFit, Callers, MaskLabels, Single
  <2>5. Coherent' BY <2>1, <2>2, <1>1, <1>4, <1>5, <1>7 DEF Coherent, Callers, Steps
  <2>6. ASSUME NEW p, ResetDue(p) PROVE ResetDue(p)'
    BY <2>2, <2>6, <1>5, <1>1 DEF ResetDue, Callers
  <2>7. JobsCovered'
    BY <2>2, <2>6, <1>1, <1>3, <1>4, <1>5, <1>7 DEF JobsCovered, Callers, CallersFit
  <2> QED BY <2>3, <2>4, <2>5, <2>7
<1>8. CASE cache.diff # caller[t].wants.diff
  <2>1. CallerAt(t, "writeDiff") /\ Begins(t, "diff") BY <1>8 DEF StoreDifficulty
  <2>2. /\ caller'[t].at = "writeDiff" /\ caller'[t].pool = caller[t].pool
        /\ caller'[t].wants = caller[t].wants /\ caller'[t].then = caller[t].then
        /\ \A u \in Callers \ {t} : caller'[u] = caller[u]
    BY <2>1, CallerGoes DEF CallerLabels
  <2>3. /\ alone' \in [Callers -> BOOLEAN]
        /\ alone'[t] => power = "up" /\ \A u \in Callers \ {t} : caller[u].at \notin Steps["diff"]
        /\ \A u \in Callers \ {t} : alone'[u] => alone[u] /\ caller[u].at \notin Steps["diff"]
    BY <2>1 DEF Begins, Callers, ParamTypes
  <2>4. ParamTypes' BY <2>1, <2>3, <1>1, <1>4, CallerGoes DEF ParamTypes, CallerLabels
  <2>5. CallersFit' BY <2>2, <1>1 DEF CallersFit, Callers, MaskLabels, Single
  <2>6. Coherent' BY <2>2, <2>3, <1>1, <1>4 DEF Coherent, Callers, Steps
  <2>7. JobsCovered'
    BY <2>2, <1>1, <1>3, <1>4, <1>6 DEF JobsCovered, Callers, ResetDue
  <2> QED BY <2>4, <2>5, <2>6, <2>7
<1> QED BY <1>7, <1>8

LEMMA WriteDifficultyKeeps ==
    ASSUME AsicParamInv, NEW t \in Callers, WriteDifficulty(t) PROVE AsicParamInv'
<1> USE DEF AsicParamInv
<1>1. /\ caller[t].at = "writeDiff" /\ Ends(t, "diff") /\ CallerAt(t, caller[t].then)
      /\ UNCHANGED <<mined, announced, work, power, superseded, cache, alone>>
  BY DEF WriteDifficulty, EnsureUnchanged, Returns
<1>2. caller[t].wants \in JobParams
  BY <1>1 DEF Callers, CallersFit, ParamTypes
<1>3. caller[t].then \in {"idle", "reset", "send"} /\ (t = "rx" => caller[t].then # "send")
      /\ (t = "job" => caller[t].then = "send")
  BY <1>1 DEF Callers, CallersFit, ParamTypes
<1>4. /\ caller'[t].at = caller[t].then /\ caller'[t].pool = caller[t].pool
      /\ caller'[t].wants = caller[t].wants /\ caller'[t].then = caller[t].then
      /\ \A u \in Callers \ {t} : caller'[u] = caller[u]
  BY <1>1, <1>3, CallerGoes DEF CallerLabels
<1>5. /\ register' \in [mask : VersionMasks, diff : Difficulties \cup {ChipDifficulty}]
      /\ register'.mask = register.mask
      /\ power = "up" => register'.diff = caller[t].wants.diff
  BY <1>2 DEF WriteDifficulty, WriteRegister, ParamTypes, JobParams
<1>6. ParamTypes' BY <1>1, <1>3, <1>5, CallerGoes DEF ParamTypes, CallerLabels
<1>7. CallersFit' BY <1>4, <1>1, <1>3 DEF CallersFit, Callers, MaskLabels, Single
<1>8. "diff" \notin stale' => alone[t] BY <1>1 DEF Ends
<1>9. "mask" \in stale' <=> "mask" \in stale BY <1>1 DEF Ends
<1>10. Coherent' BY <1>1, <1>3, <1>4, <1>5, <1>8, <1>9 DEF Coherent, Callers, Steps
<1>11. ASSUME NEW p, ResetDue(p) PROVE ResetDue(p)'
  BY <1>4, <1>11, <1>3, <1>1 DEF ResetDue, Callers
<1>12. JobsCovered' BY <1>1, <1>3, <1>4, <1>11 DEF JobsCovered, Callers
<1> QED BY <1>6, <1>7, <1>10, <1>12

\* The session is told; the receive task has the news for the chip.
LEMMA AnnounceKeeps ==
    ASSUME AsicParamInv, NEW p \in mined, NEW params \in JobParams,
           NEW start \in {"mask", "diff"}, NEW end \in {"idle", "reset"},
           start = "mask" => end = "reset",
           end = "idle" => params.diff <= announced[p].diff,
           Announce(p, params, start, end)
    PROVE  AsicParamInv'
<1> USE DEF AsicParamInv
<1>1. /\ caller["rx"].at = "idle" /\ announced' = [announced EXCEPT ![p] = params]
      /\ caller' = [caller EXCEPT !["rx"] = [at |-> IF Single THEN start ELSE end,
                                            pool |-> p, wants |-> params, then |-> end]]
      /\ UNCHANGED <<mined, work, cache, register, power, superseded, stale, alone>>
  BY DEF Announce, AnnounceUnchanged
<1>2. /\ caller'["rx"].at = (IF Single THEN start ELSE end) /\ caller'["rx"].pool = p
      /\ caller'["rx"].wants = params /\ caller'["rx"].then = end
      /\ caller'["job"] = caller["job"]
  BY <1>1 DEF ParamTypes, Callers
<1>3. /\ announced' \in [mined -> JobParams] /\ announced'[p] = params
      /\ \A q \in mined \ {p} : announced'[q] = announced[q]
  BY <1>1 DEF ParamTypes
<1>4. caller' \in [Callers -> [at : CallerLabels, pool : mined \cup {0},
             wants : JobParams \cup {NoWork}, then : {"idle", "reset", "send"}]]
  BY <1>1 DEF ParamTypes, Callers, CallerLabels, MaskLabels
<1>5. ParamTypes' BY <1>1, <1>3, <1>4 DEF ParamTypes
<1>6. CallersFit' BY <1>1, <1>2, <1>3 DEF CallersFit, MaskLabels, Single
<1>7. Coherent' BY <1>1, <1>2 DEF Coherent, Callers, Steps
<1>8. \A q : ~ResetDue(q) BY <1>1 DEF ResetDue
<1>9. ResetDue(p)' \/ params.diff <= announced[p].diff BY <1>2 DEF ResetDue
<1>10. ASSUME NEW q \in mined, NEW n \in Nat, announced[q].diff <= n
       PROVE  announced'[q].diff <= n \/ ResetDue(q)'
  <2>1. announced[q].diff \in Nat /\ params.diff \in Nat
    BY ParametersAssumption DEF ParamTypes, JobParams
  <2> QED BY <2>1, <1>3, <1>9, <1>10
<1>11. ASSUME NEW q \in mined, work'[q] # NoWork
       PROVE  announced'[q].diff <= work'[q].diff \/ ResetDue(q)'
  <2>1. work[q].diff \in Nat /\ announced[q].diff <= work[q].diff
    BY <1>1, <1>8, <1>11, ParametersAssumption DEF JobsCovered, ParamTypes, JobParams
  <2> QED BY <2>1, <1>1, <1>10
<1>12. ASSUME caller["job"].at # "idle", ~superseded
       PROVE  \/ announced'[caller["job"].pool].diff <= caller["job"].wants.diff
              \/ ResetDue(caller["job"].pool)'
  <2>1. /\ caller["job"].wants.diff \in Nat /\ caller["job"].pool \in mined
        /\ announced[caller["job"].pool].diff <= caller["job"].wants.diff
    BY <1>8, <1>12, ParametersAssumption DEF JobsCovered, CallersFit, JobParams
  <2> DEFINE q == caller["job"].pool
  <2>2. announced'[q].diff <= caller["job"].wants.diff \/ (ResetDue(caller["job"].pool))'
    BY <2>1, <1>2, <1>3, <1>9, <1>10 DEF ResetDue
  <2> QED BY <2>2
<1>13. JobsCovered'
  BY <1>1, <1>2, <1>8, <1>11, <1>12 DEF JobsCovered, ResetDue
<1> QED BY <1>5, <1>6, <1>7, <1>13

LEMMA RxKeeps ==
    ASSUME AsicParamInv,
           \/ ResetWork
           \/ \E p \in mined : \/ \E m \in VersionMasks : AnnounceMask(p, m)
                               \/ \E d \in Difficulties : AnnounceDifficulty(p, d)
                               \/ QueueWork(p)
    PROVE  AsicParamInv'
<1> USE DEF AsicParamInv
<1>1. ASSUME NEW p \in mined, NEW m \in VersionMasks, AnnounceMask(p, m) PROVE AsicParamInv'
  <2>1. [announced[p] EXCEPT !.mask = m] \in JobParams BY DEF ParamTypes, JobParams
  <2> QED BY <1>1, <2>1, AnnounceKeeps DEF AnnounceMask
<1>2. ASSUME NEW p \in mined, NEW d \in Difficulties, AnnounceDifficulty(p, d)
      PROVE  AsicParamInv'
  <2>1. [announced[p] EXCEPT !.diff = d] \in JobParams
        /\ [announced[p] EXCEPT !.diff = d].diff = d
    BY DEF ParamTypes, JobParams
  <2>2. announced[p].diff \in Nat /\ d \in Nat
    BY ParametersAssumption DEF ParamTypes, JobParams
  <2>3. CASE d > announced[p].diff
    BY <1>2, <2>1, <2>3, AnnounceKeeps DEF AnnounceDifficulty
  <2>4. CASE ~(d > announced[p].diff)
    <3>1. [announced[p] EXCEPT !.diff = d].diff <= announced[p].diff BY <2>1, <2>2, <2>4
    <3>2. Announce(p, [announced[p] EXCEPT !.diff = d], "diff", "idle")
      BY <1>2, <2>4 DEF AnnounceDifficulty
    <3> QED BY <3>1, <3>2, <2>1, AnnounceKeeps
  <2> QED BY <2>3, <2>4
<1>3. ASSUME NEW p \in mined, QueueWork(p) PROVE AsicParamInv'
  <2>1. /\ caller["rx"].at = "idle" /\ work' = [work EXCEPT ![p] = announced[p]]
        /\ UNCHANGED <<mined, announced, caller, superseded, cache, register, power, stale,
                       alone>>
    BY <1>3 DEF QueueWork, AnnounceUnchanged
  <2>2. ParamTypes' BY <2>1 DEF ParamTypes
  <2>3. CallersFit' BY <2>1 DEF CallersFit, Single
  <2>4. Coherent' BY <2>1 DEF Coherent
  <2>5. announced[p].diff \in Nat BY ParametersAssumption DEF ParamTypes, JobParams
  <2>6. \A q \in mined : work'[q] = (IF q = p THEN announced[p] ELSE work[q])
    BY <2>1 DEF ParamTypes
  <2>7. JobsCovered' BY <2>1, <2>5, <2>6 DEF JobsCovered, ResetDue
  <2> QED BY <2>2, <2>3, <2>4, <2>7
<1>4. CASE ResetWork
  <2>1. /\ caller["rx"].at = "reset" /\ work' = [work EXCEPT ![caller["rx"].pool] = NoWork]
        /\ superseded' = (superseded \/ caller["rx"].pool = caller["job"].pool)
        /\ caller' = [caller EXCEPT !["rx"] = Idle]
        /\ UNCHANGED <<mined, announced, cache, register, power, stale, alone>>
    BY <1>4 DEF ResetWork, AnnounceUnchanged
  <2>2. caller'["rx"] = Idle /\ Idle.at = "idle" /\ caller'["job"] = caller["job"]
        /\ caller'["rx"].at = "idle"
    BY <2>1 DEF ParamTypes, Callers, Idle
  <2>3. Idle \in [at : CallerLabels, pool : mined \cup {0},
               wants : JobParams \cup {NoWork}, then : {"idle", "reset", "send"}]
    BY DEF Idle, CallerLabels
  <2>4. superseded' \in BOOLEAN BY <2>1 DEF ParamTypes
  <2>5. work' \in [mined -> JobParams \cup {NoWork}]
    BY <2>1 DEF ParamTypes
  <2>6. ParamTypes' BY <2>1, <2>3, <2>4, <2>5 DEF ParamTypes
  <2>7. CallersFit' BY <2>1, <2>2 DEF CallersFit, MaskLabels, Single
  <2>8. Coherent' BY <2>1, <2>2 DEF Coherent, Callers, Steps
  <2>9. \A q \in mined : work'[q] = (IF q = caller["rx"].pool THEN NoWork ELSE work[q])
    BY <2>1 DEF ParamTypes
  <2>10. \A q : ResetDue(q) => q = caller["rx"].pool BY DEF ResetDue
  <2>11. JobsCovered' BY <2>1, <2>2, <2>9, <2>10 DEF JobsCovered
  <2> QED BY <2>6, <2>7, <2>8, <2>11
<1> QED BY <1>1, <1>2, <1>3, <1>4

LEMMA JobKeeps ==
    ASSUME AsicParamInv, SendJob \/ \E p \in mined : PickWork(p) PROVE AsicParamInv'
<1> USE DEF AsicParamInv
<1>1. CASE SendJob
  <2>1. /\ caller' = [caller EXCEPT !["job"] = Idle] /\ superseded' = FALSE
        /\ caller["job"].at = "send"
        /\ UNCHANGED <<mined, announced, work, cache, register, power, stale, alone>>
    BY <1>1 DEF SendJob, JobUnchanged
  <2>2. caller'["job"] = Idle /\ caller'["job"].at = "idle" /\ caller'["rx"] = caller["rx"]
    BY <2>1 DEF ParamTypes, Callers, Idle
  <2>3. Idle \in [at : CallerLabels, pool : mined \cup {0},
               wants : JobParams \cup {NoWork}, then : {"idle", "reset", "send"}]
    BY DEF Idle, CallerLabels
  <2>4. ParamTypes' BY <2>1, <2>3 DEF ParamTypes
  <2>5. CallersFit' BY <2>1, <2>2 DEF CallersFit, Single
  <2>6. Coherent' BY <2>1, <2>2 DEF Coherent, Callers, Steps
  <2>7. JobsCovered' BY <2>1, <2>2 DEF JobsCovered, ResetDue
  <2> QED BY <2>4, <2>5, <2>6, <2>7
<1>2. ASSUME NEW p \in mined, PickWork(p) PROVE AsicParamInv'
  <2>1. /\ caller["job"].at = "idle" /\ work[p] # NoWork /\ superseded' = FALSE
        /\ caller' = [caller EXCEPT !["job"] =
                        [at |-> "mask", pool |-> p, wants |-> work[p], then |-> "send"]]
        /\ UNCHANGED <<mined, announced, work, cache, register, power, stale, alone>>
    BY <1>2 DEF PickWork, JobUnchanged
  <2>2. /\ caller'["job"].at = "mask" /\ caller'["job"].pool = p
        /\ caller'["job"].wants = work[p] /\ caller'["job"].then = "send"
        /\ caller'["rx"] = caller["rx"]
    BY <2>1 DEF ParamTypes, Callers
  <2>3. work[p] \in JobParams BY <2>1 DEF ParamTypes
  <2>4. caller' \in [Callers -> [at : CallerLabels, pool : mined \cup {0},
             wants : JobParams \cup {NoWork}, then : {"idle", "reset", "send"}]]
    BY <2>1, <2>3 DEF ParamTypes, Callers, CallerLabels, MaskLabels
  <2>5. ParamTypes' BY <2>1, <2>4 DEF ParamTypes
  <2>6. CallersFit' BY <2>1, <2>2, <2>3 DEF CallersFit, Single
  <2>7. Coherent' BY <2>1, <2>2 DEF Coherent, Callers, Steps
  <2>8. JobsCovered' BY <2>1, <2>2 DEF JobsCovered, ResetDue
  <2> QED BY <2>5, <2>6, <2>7, <2>8
<1> QED BY <1>1, <1>2

LEMMA PowerCycleKeeps ==
    ASSUME AsicParamInv, SwitchOff \/ InitChip \/ ChipUp PROVE AsicParamInv'
<1> USE DEF AsicParamInv
<1>1. UNCHANGED <<mined, announced, work, cache, caller, superseded>>
  BY DEF SwitchOff, InitChip, ChipUp, PowerUnchanged
<1>2. CallersFit' /\ JobsCovered' BY <1>1 DEF CallersFit, JobsCovered, ResetDue, Single
<1>3. CASE SwitchOff
  <2>1. /\ power' = "off" /\ alone' = [rx |-> FALSE, job |-> FALSE] /\ UNCHANGED register
    BY <1>3 DEF SwitchOff
  <2>2. alone' \in [Callers -> BOOLEAN] /\ \A t \in Callers : ~alone'[t] BY <2>1, NobodyAlone
  <2>3. ParamTypes' BY <1>1, <2>1, <2>2 DEF ParamTypes
  <2>4. Coherent' BY <2>1, <2>2 DEF Coherent
  <2> QED BY <1>2, <2>3, <2>4
<1>4. CASE InitChip
  <2>1. /\ power = "off" /\ power' = "starting" /\ register' = Written /\ UNCHANGED alone
    BY <1>4 DEF InitChip
  <2>2. Written \in [mask : VersionMasks, diff : Difficulties \cup {ChipDifficulty}]
    BY ParametersAssumption DEF Written
  <2>3. ParamTypes' BY <1>1, <2>1, <2>2 DEF ParamTypes
  <2>4. Coherent' BY <1>1, <2>1 DEF Coherent
  <2> QED BY <1>2, <2>3, <2>4
<1>5. CASE ChipUp
  <2>1. /\ power = "starting" /\ power' = "up" /\ UNCHANGED <<register, alone>>
        /\ stale' = stale \cup {r \in {"mask", "diff"} : register[r] # cache[r]}
    BY <1>5 DEF ChipUp
  <2>2. ParamTypes' BY <1>1, <2>1 DEF ParamTypes
  <2>3. /\ "mask" \notin stale' => register.mask = cache.mask
        /\ "diff" \notin stale' => register.diff = cache.diff
    BY <2>1
  <2>4. Coherent' BY <1>1, <2>1, <2>3 DEF Coherent
  <2> QED BY <1>2, <2>2, <2>4
<1> QED BY <1>3, <1>4, <1>5

LEMMA AsicParamNext == AsicParamInv /\ [AsicNext]_asicParamVars => AsicParamInv'
<1> SUFFICES ASSUME AsicParamInv, [AsicNext]_asicParamVars PROVE AsicParamInv' OBVIOUS
<1>1. CASE UNCHANGED asicParamVars
  BY <1>1 DEF asicParamVars, AsicParamInv, ParamTypes, CallersFit, Coherent, JobsCovered,
              ResetDue, Single
<1>2. CASE EnsureStep
  BY <1>2, CompareMaskKeeps, WriteMaskKeeps, StoreMaskKeeps, StoreDifficultyKeeps,
     WriteDifficultyKeeps DEF EnsureStep, Callers
<1> QED BY <1>1, <1>2, RxKeeps, JobKeeps, PowerCycleKeeps DEF AsicNext

LEMMA JobsUnderTheirSettingsHolds == AsicParamInv => JobsUnderTheirSettings
<1> SUFFICES ASSUME AsicParamInv, caller["job"].at = "send", ~superseded, power = "up",
                    caller["rx"].at = "idle"
             PROVE  /\ register.mask = caller["job"].wants.mask \/ "mask" \in stale
                    /\ register.diff <= caller["job"].wants.diff \/ "diff" \in stale
  BY DEF JobsUnderTheirSettings
<1>1. cache.mask = caller["job"].wants.mask /\ cache.diff <= caller["job"].wants.diff
      /\ cache.diff # 0
  BY DEF AsicParamInv, JobsCovered, ResetDue
<1>2. \A t \in Callers : caller[t].at \notin Steps["mask"] \cup Steps["diff"]
  BY DEF Callers, Steps
<1>3. "mask" \notin stale => register.mask = cache.mask BY <1>2 DEF AsicParamInv, Coherent
<1>4. "diff" \notin stale => register.diff = cache.diff
  BY <1>1, <1>2 DEF AsicParamInv, Coherent
<1> QED BY <1>1, <1>3, <1>4

\* A job is sent to a chip that rolls its version bits and reports at its difficulty or
\* below, whichever pools are mined and whatever they announce while the receive task
\* and job_task compare, write and note the registers without a lock, and however often
\* the chip is powered down (ensure_asic_version_mask, ensure_asic_job_difficulty);
\* excepted are the registers the caches are wrong about.
THEOREM JobsHaveTheirSettings == AsicParamSpec => []JobsUnderTheirSettings
<1>1. AsicParamInv /\ [AsicNext]_asicParamVars => AsicParamInv' BY AsicParamNext
<1>2. AsicParamSpec => []AsicParamInv BY <1>1, AsicParamInit, PTL DEF AsicParamSpec
<1> QED BY <1>2, JobsUnderTheirSettingsHolds, PTL

-----------------------------------------------------------------------------
(* The deadlines of the power monitor.  Ticks wrap, and the remainders are *)
(* put as differences first; then a check is never missed, a noted loss is *)
(* dealt with in time and one that is not noted soon is.                   *)

DeadlinesSpec == DeadlinesInit /\ [][DeadlinesNext]_deadlineVars

Ticks == 0..(TickRange - 1)
HalfRange == TickRange \div 2

\* The ticks since and until t, and until the next check.
Since(t) == IF now >= t THEN now - t ELSE now - t + TickRange
Until(t) == IF t >= now THEN t - now ELSE t - now + TickRange
UntilCheck == IF nextCheck = 0 THEN 0 ELSE Until(nextCheck)

\* t is ticks after a moment that lies past ticks back.
SetBefore(t, past, ticks) ==
    LET x == now - past + ticks IN t = x \/ t = x - TickRange \/ t = x + TickRange

DeadlineTypes ==
    /\ {now, domainGrace, cooldown, nextCheck} \subseteq Ticks
    /\ lowSince \in [Domains -> Ticks]
    /\ chip \in {"off", "up", "cycling"}
    /\ {sinceUp, sinceCycle} \subseteq 0..HalfRange
    /\ lostFor \in [Domains -> 0..HalfRange]
    /\ {looked, watchdog, telemetry} \subseteq BOOLEAN

\* Neither the start nor the last power cycle is half of the counter's range ago.
Fresh == /\ chip = "up" /\ sinceUp < HalfRange
         /\ cooldown # 0 => sinceCycle < HalfRange

Resting == \/ domainGrace # 0 /\ sinceUp < DomainGrace
           \/ cooldown # 0 /\ sinceCycle < Cooldown

\* The deadlines are where the start and the power cycle have set them.
DeadlinesFit ==
    /\ chip = "up" /\ sinceUp < HalfRange => SetBefore(domainGrace, sinceUp, DomainGrace)
    /\ cooldown # 0 /\ sinceCycle < HalfRange => SetBefore(cooldown, sinceCycle, Cooldown)
    /\ Fresh /\ cooldown # 0 => sinceUp <= sinceCycle

\* The next check is never missed, and nothing has been noted in a rest.
CheckComes == Fresh =>
    /\ nextCheck # 0 => /\ ~Resting
                        /\ Until(nextCheck) <= CheckEvery
                        /\ looked => Until(nextCheck) # 0
    /\ \A d \in Domains : lowSince[d] # 0 => ~Resting

\* A loss that is noted is dealt with in time.
NotedInTime == Fresh => \A d \in Domains : lowSince[d] # 0 =>
    /\ Since(lowSince[d]) + UntilCheck < Recovery + CheckEvery
    /\ looked /\ nextCheck = 0 => Since(lowSince[d]) < Recovery
    /\ lostFor[d] <= Cooldown + CheckEvery + Since(lowSince[d])

\* A loss that is not noted is seen by the next check, or by the one after it when
\* the check is at tick 0.
SeenInTime == Fresh => \A d \in Domains : lowSince[d] = 0 =>
    \/ /\ lostFor[d] + UntilCheck <= Cooldown
       /\ looked /\ nextCheck = 0 => lostFor[d] < Cooldown
    \/ nextCheck = CheckEvery /\ now <= CheckEvery /\ lostFor[d] <= Cooldown + now

CountedIsLost ==
    /\ \A d \in Domains : ~(watchdog /\ telemetry /\ d \in lost) => lostFor[d] = 0
    /\ Fresh => \A d \in Domains : lostFor[d] <= sinceUp

DeadlinesInv ==
    DeadlineTypes /\ DeadlinesFit /\ CheckComes /\ NotedInTime /\ SeenInTime /\ CountedIsLost

-----------------------------------------------------------------------------

LEMMA RemainderIs == ASSUME NEW n \in Nat \ {0}, NEW a \in 0..(n - 1)
                     PROVE  a % n = a /\ (a + n) % n = a /\ (a - n) % n = a
<1>1. a % n = a BY Z3
<1>2. (a + n) % n = a BY Z3
<1>3. (a - n) % n = a BY Z3
<1>4. QED BY <1>1, <1>2, <1>3

LEMMA HalvesFit == /\ TickRange \in Nat \ {0} /\ HalfRange \in Nat
                   /\ 2 * HalfRange <= TickRange /\ TickRange <= 2 * HalfRange + 1
                   /\ {DomainGrace, CheckEvery, Recovery, Cooldown} \subseteq Nat \ {0}
                   /\ Cooldown + Recovery + 2 * CheckEvery < HalfRange
                   /\ DomainGrace <= Cooldown /\ CheckEvery <= Cooldown
<1>1. TickRange \in Nat \ {0} BY DeadlinesAssumption DEF DeadlinesAssumption
<1>2. /\ HalfRange \in Nat
      /\ 2 * HalfRange <= TickRange /\ TickRange <= 2 * HalfRange + 1
    BY <1>1, Z3 DEF HalfRange
<1>3. QED BY <1>1, <1>2, DeadlinesAssumption DEF DeadlinesAssumption, HalfRange

LEMMA ElapsedIs == ASSUME now \in Ticks, NEW t \in Ticks
                   PROVE  /\ Elapsed(t) = Since(t) /\ Since(t) \in Ticks
                          /\ TickBefore(t) <=> t # 0 /\ Since(t) >= HalfRange
<1>1. CASE now >= t
    <2>1. now - t \in 0..(TickRange - 1)
        BY <1>1, HalvesFit DEF Ticks
    <2>2. (now - t) % TickRange = now - t
        BY <2>1, HalvesFit, RemainderIs
    <2>3. QED
        BY <1>1, <2>1, <2>2 DEF Elapsed, Since, TickBefore, HalfRange, Ticks
<1>2. CASE now < t
    <2>1. now - t + TickRange \in 0..(TickRange - 1)
        BY <1>2, HalvesFit DEF Ticks
    <2>2. PICK a \in 0..(TickRange - 1) : a = now - t + TickRange
        BY <2>1
    <2>3. (a - TickRange) % TickRange = a
        BY HalvesFit, RemainderIs
    <2>4. a - TickRange = now - t /\ ~(now >= t)
        BY <1>2, <2>2, HalvesFit DEF Ticks
    <2>5. QED
        BY <2>1, <2>2, <2>3, <2>4 DEF Elapsed, Since, TickBefore, HalfRange, Ticks
<1>3. QED
    BY <1>1, <1>2, HalvesFit DEF Ticks

LEMMA AfterIs == ASSUME now \in Ticks, NEW k \in Ticks
                 PROVE  /\ After(k) = IF now + k < TickRange THEN now + k ELSE now + k - TickRange
                        /\ After(k) \in Ticks
<1>1. CASE now + k < TickRange
    <2>1. now + k \in 0..(TickRange - 1)
        BY <1>1, HalvesFit DEF Ticks
    <2>2. QED
        BY <1>1, <2>1, HalvesFit, RemainderIs DEF After, Ticks
<1>2. CASE ~(now + k < TickRange)
    <2>1. now + k - TickRange \in 0..(TickRange - 1)
        BY <1>2, HalvesFit DEF Ticks
    <2>2. (now + k - TickRange + TickRange) % TickRange = now + k - TickRange
        BY <2>1, HalvesFit, RemainderIs
    <2>3. now + k - TickRange + TickRange = now + k
        BY HalvesFit DEF Ticks
    <2>4. QED
        BY <1>2, <2>1, <2>2, <2>3 DEF After, Ticks
<1>3. QED
    BY <1>1, <1>2

LEMMA DelaysAreTicks == {1, DomainGrace, CheckEvery, Recovery, Cooldown} \subseteq Ticks
BY HalvesFit DEF Ticks

\* The watchdog rests for as long as it is meant to.
LEMMA RestIs == ASSUME DeadlinesInv, Fresh
                PROVE  TickBefore(domainGrace) \/ TickBefore(cooldown) <=> Resting
<1> USE DEF DeadlinesInv, DeadlineTypes
<1>1. TickBefore(domainGrace) <=> domainGrace # 0 /\ sinceUp < DomainGrace
    <2>1. SetBefore(domainGrace, sinceUp, DomainGrace) /\ sinceUp < HalfRange
        BY DEF DeadlinesFit, Fresh
    <2>2. Since(domainGrace) >= HalfRange <=> sinceUp < DomainGrace
        BY <2>1, HalvesFit DEF SetBefore, Since, Ticks
    <2>3. QED
        BY <2>2, ElapsedIs
<1>2. TickBefore(cooldown) <=> cooldown # 0 /\ sinceCycle < Cooldown
    <2>1. CASE cooldown # 0
        <3>1. SetBefore(cooldown, sinceCycle, Cooldown) /\ sinceCycle < HalfRange
            BY <2>1 DEF DeadlinesFit, Fresh
        <3>2. Since(cooldown) >= HalfRange <=> sinceCycle < Cooldown
            BY <3>1, HalvesFit DEF SetBefore, Since, Ticks
        <3>3. QED
            BY <3>2, ElapsedIs
    <2>2. CASE cooldown = 0
        BY <2>2 DEF TickBefore
    <2>3. QED BY <2>1, <2>2
<1>3. QED
    BY <1>1, <1>2 DEF Resting

LEMMA DeadlinesStart == ASSUME DeadlinesInit PROVE DeadlinesInv
<1> USE HalvesFit DEF DeadlinesInit, NotLow
<1>1. DeadlineTypes
    <2>1. 0 \in Ticks /\ 0 \in 0..HalfRange
        BY DEF Ticks
    <2>2. lowSince \in [Domains -> Ticks] /\ lostFor \in [Domains -> 0..HalfRange]
        BY <2>1
    <2>3. QED
        BY <2>1, <2>2 DEF DeadlineTypes
<1>2. ~Fresh
    BY DEF Fresh
<1>3. DeadlinesFit /\ CheckComes /\ NotedInTime /\ SeenInTime /\ CountedIsLost
    BY <1>2 DEF DeadlinesFit, CheckComes, NotedInTime, SeenInTime, CountedIsLost
<1>4. QED
    BY <1>1, <1>3 DEF DeadlinesInv

\* A tick: every deadline is nearer and everything noted older by one.
LEMMA TickKeeps == ASSUME DeadlinesInv, TickPasses PROVE DeadlinesInv'
<1> USE DEF DeadlinesInv
<1>a. UNCHANGED <<chip, fault, tempGrace, domainVars, surroundings, hotFor, changes>>
    BY DEF TickPasses
<1>b. /\ chip = "up" => looked
      /\ looked' = FALSE
      /\ sinceUp' = IF chip = "up" THEN Capped(sinceUp + 1) ELSE 0
      /\ sinceCycle' = IF cooldown # 0 THEN Capped(sinceCycle + 1) ELSE 0
      /\ lostFor' = [d \in Domains |->
             IF chip = "up" /\ watchdog /\ telemetry /\ d \in lost THEN Capped(lostFor[d] + 1) ELSE 0]
    BY DEF TickPasses, DeadlineTypes
<1>c. now' = (IF now = TickRange - 1 THEN 0 ELSE now + 1) /\ now' \in Ticks
    <2>1. now' = After(1)
        BY DEF TickPasses
    <2>2. QED
        BY <2>1, AfterIs, DelaysAreTicks, HalvesFit DEF DeadlineTypes, Ticks
<1>d. \A n \in 0..HalfRange : /\ Capped(n + 1) \in 0..HalfRange /\ Capped(n + 1) <= n + 1
                              /\ Capped(n + 1) < HalfRange => Capped(n + 1) = n + 1
    BY HalvesFit DEF Capped, HalfRange
<1>1. DeadlineTypes'
    <2>1. sinceUp' \in 0..HalfRange /\ sinceCycle' \in 0..HalfRange
        BY <1>b, <1>d, HalvesFit DEF DeadlineTypes
    <2>2. lostFor' \in [Domains -> 0..HalfRange]
        BY <1>b, <1>d, HalvesFit DEF DeadlineTypes
    <2>3. QED
        BY <1>a, <1>b, <1>c, <2>1, <2>2 DEF DeadlineTypes, domainVars, surroundings
<1>2. cooldown # 0 /\ sinceCycle' < HalfRange => sinceCycle < HalfRange /\ sinceCycle' = sinceCycle + 1
    BY <1>b, <1>d, HalvesFit DEF DeadlineTypes
<1>3. Fresh' => Fresh /\ sinceUp' = sinceUp + 1
    BY <1>a, <1>b, <1>d, <1>2, HalvesFit DEF Fresh, DeadlineTypes, domainVars
<1>4. Resting' => Resting \/ ~Fresh'
    BY <1>a, <1>2, <1>3, HalvesFit DEF Resting, Fresh, DeadlineTypes, domainVars
<1>5. DeadlinesFit'
    <2>1. (chip = "up" /\ sinceUp < HalfRange => SetBefore(domainGrace, sinceUp, DomainGrace))'
        BY <1>a, <1>b, <1>c, <1>d, HalvesFit DEF DeadlinesFit, SetBefore, DeadlineTypes, domainVars, Ticks
    <2>2. cooldown' # 0 /\ sinceCycle' < HalfRange => SetBefore(cooldown, sinceCycle, Cooldown)'
        BY <1>a, <1>c, <1>2, HalvesFit DEF DeadlinesFit, SetBefore, DeadlineTypes, domainVars, Ticks
    <2>3. Fresh' /\ cooldown' # 0 => (sinceUp <= sinceCycle)'
        BY <1>a, <1>2, <1>3, HalvesFit DEF DeadlinesFit, Fresh, DeadlineTypes, domainVars
    <2>4. QED
        BY <2>1, <2>2, <2>3 DEF DeadlinesFit
<1>6. ASSUME Fresh', nextCheck # 0
      PROVE  Until(nextCheck)' = Until(nextCheck) - 1 /\ Until(nextCheck) \in 1..CheckEvery
    <2>1. Until(nextCheck) \in 1..CheckEvery
        BY <1>b, <1>3, <1>6, HalvesFit DEF CheckComes, Until, DeadlineTypes, Ticks, Fresh
    <2>2. QED
        BY <1>a, <1>c, <1>6, <2>1, HalvesFit DEF Until, DeadlineTypes, Ticks, domainVars
<1>7. CheckComes'
    BY <1>a, <1>b, <1>3, <1>4, <1>6, HalvesFit DEF CheckComes, domainVars
<1>8. ASSUME Fresh', NEW d \in Domains, lowSince[d] # 0
      PROVE  /\ Since(lowSince[d])' = Since(lowSince[d]) + 1
             /\ Since(lowSince[d]) + UntilCheck < Recovery + CheckEvery
             /\ Since(lowSince[d]) \in Nat
             /\ nextCheck = 0 => Since(lowSince[d]) < Recovery
             /\ lostFor[d] <= Cooldown + CheckEvery + Since(lowSince[d])
    <2>1. /\ Since(lowSince[d]) + UntilCheck < Recovery + CheckEvery
          /\ nextCheck = 0 => Since(lowSince[d]) < Recovery
          /\ lostFor[d] <= Cooldown + CheckEvery + Since(lowSince[d])
        BY <1>b, <1>3, <1>8 DEF NotedInTime, Fresh
    <2>2. UntilCheck \in Nat
        BY <1>6, <1>8 DEF UntilCheck
    <2>3. lowSince[d] \in Ticks /\ lowSince'[d] = lowSince[d]
        BY <1>a DEF DeadlineTypes, domainVars
    <2>4. Since(lowSince[d]) \in Nat
        BY <2>3, HalvesFit DEF Since, DeadlineTypes, Ticks
    <2>5. Since(lowSince[d])' = Since(lowSince[d]) + 1
        BY <1>c, <2>1, <2>2, <2>3, HalvesFit DEF Since, DeadlineTypes, Ticks
    <2>6. QED
        BY <2>1, <2>4, <2>5
<1>9. \A d \in Domains : lostFor'[d] <= lostFor[d] + 1 /\ lostFor[d] \in Nat /\ lostFor'[d] \in Nat
    BY <1>b, <1>d, HalvesFit DEF DeadlineTypes
<1>10. NotedInTime'
    <2> SUFFICES ASSUME Fresh', NEW d \in Domains, lowSince[d] # 0
                 PROVE  /\ Since(lowSince[d])' + UntilCheck' < Recovery + CheckEvery
                        /\ (lostFor[d] <= Cooldown + CheckEvery + Since(lowSince[d]))'
        BY <1>a, <1>b DEF NotedInTime, domainVars
    <2>1. UntilCheck' = IF nextCheck = 0 THEN 0 ELSE UntilCheck - 1
        BY <1>a, <1>6 DEF UntilCheck, domainVars
    <2>2. nextCheck # 0 => UntilCheck \in Nat
        BY <1>6 DEF UntilCheck
    <2>3. nextCheck = 0 => UntilCheck = 0
        BY DEF UntilCheck
    <2>4. QED
        BY <1>8, <1>9, <2>1, <2>2, <2>3, HalvesFit
<1>11. SeenInTime'
    <2> SUFFICES ASSUME Fresh', NEW d \in Domains, lowSince[d] = 0
                 PROVE  \/ (lostFor[d] + UntilCheck <= Cooldown)'
                        \/ nextCheck = CheckEvery /\ now' <= CheckEvery /\ lostFor'[d] <= Cooldown + now'
        BY <1>a, <1>b DEF SeenInTime, domainVars
    <2>1. UntilCheck' = IF nextCheck = 0 THEN 0 ELSE UntilCheck - 1
        BY <1>a, <1>6 DEF UntilCheck, domainVars
    <2>2. nextCheck # 0 => UntilCheck \in 1..CheckEvery
        BY <1>6 DEF UntilCheck
    <2>3. nextCheck = 0 => UntilCheck = 0
        BY DEF UntilCheck
    <2>4. CASE /\ lostFor[d] + UntilCheck <= Cooldown
               /\ looked /\ nextCheck = 0 => lostFor[d] < Cooldown
        BY <1>b, <1>3, <1>9, <2>1, <2>2, <2>3, <2>4, HalvesFit DEF Fresh
    <2>5. CASE nextCheck = CheckEvery /\ now <= CheckEvery /\ lostFor[d] <= Cooldown + now
        <3>1. now < CheckEvery
            BY <1>6, <2>5, HalvesFit DEF Until, DeadlineTypes, Ticks
        <3>2. now' = now + 1
            BY <1>c, <3>1, HalvesFit DEF DeadlineTypes, Ticks
        <3>3. QED
            BY <1>9, <2>5, <3>1, <3>2, HalvesFit DEF DeadlineTypes, Ticks
    <2>6. QED
        BY <1>3, <2>4, <2>5 DEF SeenInTime
<1>12. CountedIsLost'
    <2>1. \A d \in Domains : ~(watchdog /\ telemetry /\ d \in lost) => lostFor'[d] = 0
        BY <1>b
    <2>2. Fresh' => \A d \in Domains : lostFor'[d] <= sinceUp'
        BY <1>3, <1>9, HalvesFit DEF CountedIsLost, DeadlineTypes
    <2>3. QED
        BY <1>a, <2>1, <2>2 DEF CountedIsLost, surroundings
<1>13. QED
    BY <1>1, <1>5, <1>7, <1>10, <1>11, <1>12

LEMMA RebootKeeps == ASSUME DeadlinesInv, WatchdogReboots PROVE DeadlinesInv'
<1> USE DEF DeadlinesInv
<1>1. /\ UNCHANGED <<now, domainGrace, watchdog, telemetry, lost, sinceUp, lostFor>>
      /\ lowSince' = NotLow /\ nextCheck' = 0 /\ cooldown' = After(Cooldown)
      /\ chip' = "cycling" /\ looked' = TRUE /\ sinceCycle' = 0
    BY DEF WatchdogReboots, surroundings
<1>2. /\ After(Cooldown) = IF now + Cooldown < TickRange THEN now + Cooldown ELSE now + Cooldown - TickRange
      /\ After(Cooldown) \in Ticks /\ 0 \in Ticks
    BY AfterIs, DelaysAreTicks, HalvesFit DEF DeadlineTypes, Ticks
<1>3. DeadlineTypes'
    <2>1. lowSince' \in [Domains -> Ticks]
        BY <1>1, <1>2 DEF NotLow
    <2>2. QED
        BY <1>1, <1>2, <2>1, HalvesFit DEF DeadlineTypes
<1>4. ~Fresh'
    BY <1>1 DEF Fresh
<1>5. SetBefore(cooldown, sinceCycle, Cooldown)'
    BY <1>1, <1>2, HalvesFit DEF SetBefore, DeadlineTypes, Ticks
<1>6. (\A d \in Domains : ~(watchdog /\ telemetry /\ d \in lost) => lostFor[d] = 0)'
    BY <1>1 DEF CountedIsLost
<1>7. QED
    BY <1>1, <1>3, <1>4, <1>5, <1>6 DEF DeadlinesFit, CheckComes, NotedInTime, SeenInTime, CountedIsLost

LEMMA PowerOffKeeps == ASSUME DeadlinesInv, PowerOff PROVE DeadlinesInv'
<1> USE DEF DeadlinesInv
<1>1. /\ UNCHANGED <<now, domainGrace, cooldown, watchdog, telemetry, lost, looked, sinceUp,
                     sinceCycle, lostFor>>
      /\ lowSince' = NotLow /\ nextCheck' = 0 /\ chip' = "off"
    BY DEF PowerOff, surroundings
<1>2. DeadlineTypes'
    <2>1. 0 \in Ticks
        BY HalvesFit DEF Ticks
    <2>2. lowSince' \in [Domains -> Ticks]
        BY <1>1, <2>1 DEF NotLow
    <2>3. QED
        BY <1>1, <2>1, <2>2 DEF DeadlineTypes
<1>3. ~Fresh'
    BY <1>1 DEF Fresh
<1>4. (cooldown # 0 /\ sinceCycle < HalfRange => SetBefore(cooldown, sinceCycle, Cooldown))'
    BY <1>1 DEF DeadlinesFit, SetBefore
<1>5. (\A d \in Domains : ~(watchdog /\ telemetry /\ d \in lost) => lostFor[d] = 0)'
    BY <1>1 DEF CountedIsLost
<1>6. QED
    BY <1>1, <1>2, <1>3, <1>4, <1>5 DEF DeadlinesFit, CheckComes, NotedInTime, SeenInTime, CountedIsLost

LEMMA ComesUpKeeps == ASSUME DeadlinesInv, ComesUp PROVE DeadlinesInv'
<1> USE DEF DeadlinesInv
<1>1. /\ UNCHANGED <<now, cooldown, watchdog, telemetry, lost, sinceCycle>>
      /\ chip' = "up" /\ looked' = FALSE /\ domainGrace' = After(DomainGrace)
      /\ nextCheck' = 0 /\ lowSince' = NotLow /\ sinceUp' = 0 /\ lostFor' = NotLow
    BY DEF ComesUp, surroundings
<1>2. /\ After(DomainGrace) = IF now + DomainGrace < TickRange THEN now + DomainGrace
                              ELSE now + DomainGrace - TickRange
      /\ After(DomainGrace) \in Ticks /\ 0 \in Ticks
    BY AfterIs, DelaysAreTicks, HalvesFit DEF DeadlineTypes, Ticks
<1>3. \A d \in Domains : lowSince'[d] = 0 /\ lostFor'[d] = 0
    BY <1>1 DEF NotLow
<1>4. DeadlineTypes'
    <2>1. lowSince' \in [Domains -> Ticks] /\ lostFor' \in [Domains -> 0..HalfRange]
        BY <1>1, <1>2, HalvesFit DEF NotLow
    <2>2. {now', domainGrace', cooldown', nextCheck'} \subseteq Ticks
        BY <1>1, <1>2 DEF DeadlineTypes
    <2>3. {sinceUp', sinceCycle'} \subseteq 0..HalfRange
        BY <1>1, HalvesFit DEF DeadlineTypes
    <2>4. {looked', watchdog', telemetry'} \subseteq BOOLEAN
        BY <1>1 DEF DeadlineTypes
    <2>5. QED
        BY <1>1, <2>1, <2>2, <2>3, <2>4 DEF DeadlineTypes
<1>5. DeadlinesFit'
    <2>1. SetBefore(domainGrace, sinceUp, DomainGrace)'
        BY <1>1, <1>2, HalvesFit DEF SetBefore, DeadlineTypes, Ticks
    <2>2. (cooldown # 0 /\ sinceCycle < HalfRange => SetBefore(cooldown, sinceCycle, Cooldown))'
        BY <1>1 DEF DeadlinesFit, SetBefore
    <2>3. (sinceUp <= sinceCycle)'
        BY <1>1, HalvesFit DEF DeadlineTypes
    <2>4. QED
        BY <2>1, <2>2, <2>3 DEF DeadlinesFit
<1>6. CheckComes' /\ NotedInTime'
    BY <1>1, <1>3 DEF CheckComes, NotedInTime
<1>7. SeenInTime'
    BY <1>1, <1>3, HalvesFit DEF SeenInTime, UntilCheck
<1>8. CountedIsLost'
    BY <1>1, <1>3 DEF CountedIsLost
<1>9. QED
    BY <1>4, <1>5, <1>6, <1>7, <1>8

LEMMA SurroundingsKeep == ASSUME DeadlinesInv, SurroundingsChange, watchdog' \in BOOLEAN, telemetry' \in BOOLEAN
                          PROVE  DeadlinesInv'
<1> USE DEF DeadlinesInv
<1>1. /\ UNCHANGED <<now, chip, domainGrace, cooldown, nextCheck, lowSince, looked, sinceUp, sinceCycle>>
      /\ lostFor' = [d \in Domains |->
             IF watchdog' /\ telemetry' /\ d \in lost' THEN lostFor[d] ELSE 0]
    BY DEF SurroundingsChange, domainVars
<1>2. \A d \in Domains : /\ lostFor[d] \in 0..HalfRange /\ (lostFor'[d] = lostFor[d] \/ lostFor'[d] = 0)
                         /\ ~(watchdog' /\ telemetry' /\ d \in lost') => lostFor'[d] = 0
    BY <1>1 DEF DeadlineTypes
<1>3. DeadlineTypes'
    <2>1. lostFor' \in [Domains -> 0..HalfRange]
        BY <1>1, HalvesFit DEF DeadlineTypes
    <2>2. QED
        BY <1>1, <2>1 DEF DeadlineTypes
<1>4. Fresh' = Fresh /\ Resting' = Resting /\ UntilCheck' = UntilCheck
    BY <1>1 DEF Fresh, Resting, UntilCheck, Until
<1>5. DeadlinesFit'
    BY <1>1, <1>4 DEF DeadlinesFit, SetBefore
<1>6. CheckComes'
    BY <1>1, <1>4 DEF CheckComes, Until
<1>7. \A d \in Domains : Since(lowSince[d])' = Since(lowSince[d]) /\ Since(lowSince[d]) \in Nat
    BY <1>1, HalvesFit DEF Since, DeadlineTypes, Ticks
<1>8. NotedInTime'
    <2> SUFFICES ASSUME Fresh, NEW d \in Domains, lowSince[d] # 0
                 PROVE  lostFor'[d] <= Cooldown + CheckEvery + Since(lowSince[d])
        BY <1>1, <1>4, <1>7 DEF NotedInTime
    <2>1. QED
        BY <1>2, <1>7, HalvesFit DEF NotedInTime
<1>9. UntilCheck \in Nat
    BY HalvesFit DEF UntilCheck, Until, DeadlineTypes, Ticks
<1>10. SeenInTime'
    <2> SUFFICES ASSUME Fresh, NEW d \in Domains, lowSince[d] = 0
                 PROVE  \/ /\ lostFor'[d] + UntilCheck <= Cooldown
                           /\ looked /\ nextCheck = 0 => lostFor'[d] < Cooldown
                        \/ nextCheck = CheckEvery /\ now <= CheckEvery /\ lostFor'[d] <= Cooldown + now
        BY <1>1, <1>4 DEF SeenInTime
    <2>1. UntilCheck <= CheckEvery
        BY HalvesFit DEF CheckComes, UntilCheck
    <2>2. lostFor'[d] = lostFor[d] \/ lostFor'[d] = 0
        BY <1>2
    <2>3. CASE lostFor'[d] = lostFor[d]
        BY <2>3 DEF SeenInTime
    <2>4. CASE lostFor'[d] = 0
        BY <1>9, <2>1, <2>4, HalvesFit
    <2>5. QED
        BY <2>2, <2>3, <2>4
<1>11. CountedIsLost'
    <2>1. Fresh => \A d \in Domains : lostFor'[d] <= sinceUp
        BY <1>2, HalvesFit DEF CountedIsLost, DeadlineTypes
    <2>2. QED
        BY <1>1, <1>2, <1>4, <2>1 DEF CountedIsLost
<1>12. QED
    BY <1>3, <1>5, <1>6, <1>8, <1>10, <1>11

\* A look: whatever the watchdog does, the next check is ahead or there is none, and
\* a loss the check has seen is noted but at tick 0.
LEMMA LookKeeps == ASSUME DeadlinesInv, Look PROVE DeadlinesInv'
<1> USE DEF DeadlinesInv
<1>1. /\ UNCHANGED <<now, domainGrace, watchdog, telemetry, lost, sinceUp, sinceCycle, lostFor>>
      /\ chip = "up" /\ ~looked /\ looked' = TRUE /\ (chip' = chip \/ chip' = "off")
    BY DEF Look, surroundings, WatchdogStep, WatchdogOff, WatchdogWaits, WatchdogChecks
<1>2. 0 \in Ticks /\ (\A d \in Domains : lowSince[d] \in Ticks /\ lostFor[d] \in Nat) /\ now \in Ticks
    BY HalvesFit DEF DeadlineTypes, Ticks
<1>3. cooldown' = cooldown \/ cooldown' = 0
    BY DEF Look, WatchdogStep, WatchdogOff, WatchdogWaits, WatchdogChecks
<1>4. Fresh' => Fresh \/ cooldown' # cooldown
    BY <1>1 DEF Fresh
<1>5. DeadlinesFit'
    <2>1. (chip = "up" /\ sinceUp < HalfRange => SetBefore(domainGrace, sinceUp, DomainGrace))'
        BY <1>1 DEF DeadlinesFit, SetBefore
    <2>2. (cooldown # 0 /\ sinceCycle < HalfRange => SetBefore(cooldown, sinceCycle, Cooldown))'
        BY <1>1, <1>3 DEF DeadlinesFit, SetBefore
    <2>3. (Fresh /\ cooldown # 0 => sinceUp <= sinceCycle)'
        BY <1>1, <1>3, <1>4 DEF DeadlinesFit
    <2>4. QED
        BY <2>1, <2>2, <2>3 DEF DeadlinesFit
<1>6. CountedIsLost'
    <2>1. (\A d \in Domains : ~(watchdog /\ telemetry /\ d \in lost) => lostFor[d] = 0)'
        BY <1>1 DEF CountedIsLost
    <2>2. Fresh' => \A d \in Domains : lostFor'[d] <= sinceUp'
        <3>1. CASE cooldown' = cooldown
            BY <1>1, <1>4, <3>1 DEF CountedIsLost
        <3>2. CASE cooldown' # cooldown
            <4>1. ~watchdog
                BY <3>2 DEF Look, WatchdogStep, WatchdogOff, WatchdogWaits, WatchdogChecks
            <4>2. QED
                BY <1>1, <4>1, HalvesFit DEF CountedIsLost, DeadlineTypes
        <3>3. QED BY <3>1, <3>2
    <2>3. QED
        BY <2>1, <2>2 DEF CountedIsLost
<1>7. ASSUME WatchdogOff PROVE DeadlineTypes' /\ CheckComes' /\ NotedInTime' /\ SeenInTime'
    <2>1. lowSince' = NotLow /\ cooldown' = 0 /\ nextCheck' = 0 /\ ~watchdog
        BY <1>7 DEF WatchdogOff
    <2>2. \A d \in Domains : lowSince'[d] = 0 /\ lostFor'[d] = 0
        BY <1>1, <2>1 DEF NotLow, CountedIsLost
    <2>3. lowSince' \in [Domains -> Ticks]
        BY <1>2, <2>1 DEF NotLow
    <2>4. DeadlineTypes'
        BY <1>1, <1>2, <2>1, <2>3 DEF DeadlineTypes
    <2>5. CheckComes' /\ NotedInTime'
        BY <2>1, <2>2 DEF CheckComes, NotedInTime
    <2>6. SeenInTime'
        BY <2>1, <2>2, HalvesFit DEF SeenInTime, UntilCheck
    <2>7. QED
        BY <2>4, <2>5, <2>6
<1>8. ASSUME WatchdogWaits PROVE DeadlineTypes' /\ CheckComes' /\ NotedInTime' /\ SeenInTime'
    <2>1. /\ UNCHANGED <<domainGrace, cooldown, nextCheck>> /\ Waits
          /\ lowSince' = IF TickBefore(domainGrace) THEN NotLow ELSE lowSince
        BY <1>8 DEF WatchdogWaits
    <2>2. \A d \in Domains : lowSince'[d] \in {0, lowSince[d]}
        BY <2>1 DEF NotLow
    <2>3. lowSince' \in [Domains -> Ticks]
        BY <1>2, <2>1 DEF NotLow, DeadlineTypes
    <2>4. DeadlineTypes'
        BY <1>1, <2>1, <2>3 DEF DeadlineTypes
    <2>5. Fresh' => Fresh /\ (TickBefore(nextCheck) \/ Resting)
        BY <1>4, <2>1, RestIs DEF Waits
    <2>6. UntilCheck' = UntilCheck /\ Resting' = Resting
        BY <1>1, <2>1 DEF UntilCheck, Until, Resting
    <2>7. Fresh' /\ nextCheck # 0 => Until(nextCheck) # 0 /\ TickBefore(nextCheck)
        <3>1. Fresh' /\ nextCheck # 0 => TickBefore(nextCheck)
            BY <2>5 DEF CheckComes
        <3>2. TickBefore(nextCheck) => Until(nextCheck) # 0
            BY ElapsedIs, HalvesFit DEF Since, Until, DeadlineTypes, Ticks
        <3>3. QED BY <3>1, <3>2
    <2>8. CheckComes'
        BY <1>1, <2>1, <2>2, <2>5, <2>6, <2>7 DEF CheckComes, Until
    <2>9. Fresh' /\ nextCheck = 0 => Resting
        BY <2>5 DEF TickBefore
    <2>10. NotedInTime'
        <3> SUFFICES ASSUME Fresh', NEW d \in Domains, lowSince'[d] # 0
                     PROVE  /\ Since(lowSince[d]) + UntilCheck < Recovery + CheckEvery
                            /\ nextCheck # 0
                            /\ lostFor[d] <= Cooldown + CheckEvery + Since(lowSince[d])
            BY <1>1, <2>1, <2>2, <2>6 DEF NotedInTime, Since
        <3>1. lowSince[d] # 0
            BY <2>2
        <3>2. QED
            BY <2>5, <2>9, <3>1 DEF NotedInTime, CheckComes
    <2>11. SeenInTime'
        <3> SUFFICES ASSUME Fresh', NEW d \in Domains, lowSince'[d] = 0
                     PROVE  \/ /\ lostFor[d] + UntilCheck <= Cooldown
                               /\ nextCheck = 0 => lostFor[d] < Cooldown
                            \/ nextCheck = CheckEvery /\ now <= CheckEvery /\ lostFor[d] <= Cooldown + now
            BY <1>1, <2>1, <2>6 DEF SeenInTime
        <3>1. CASE nextCheck = 0
            <4>1. lostFor[d] <= sinceUp /\ Resting
                BY <2>5, <2>9, <3>1 DEF CountedIsLost
            <4>2. lostFor[d] < Cooldown
                BY <1>2, <2>5, <4>1, HalvesFit DEF Resting, DeadlinesFit, DeadlineTypes
            <4>3. QED
                BY <1>2, <3>1, <4>2, HalvesFit DEF UntilCheck
        <3>2. CASE nextCheck # 0
            <4>1. ~Resting
                BY <2>5, <3>2 DEF CheckComes
            <4>2. ~TickBefore(domainGrace)
                BY <2>5, <4>1, RestIs
            <4>3. lowSince[d] = 0
                BY <2>1, <4>2
            <4>4. QED
                BY <2>5, <3>2, <4>3 DEF SeenInTime
        <3>3. QED BY <3>1, <3>2
    <2>12. QED
        BY <2>4, <2>8, <2>10, <2>11
<1>9. ASSUME WatchdogChecks PROVE DeadlineTypes' /\ CheckComes' /\ NotedInTime' /\ SeenInTime'
    <2>1. /\ UNCHANGED <<domainGrace, cooldown>> /\ nextCheck' = After(CheckEvery)
          /\ watchdog /\ ~Waits /\ (~telemetry \/ Unrecovered = {})
          /\ lowSince' = [d \in Domains |->
                 IF ~telemetry \/ d \notin lost THEN 0
                 ELSE IF lowSince[d] = 0 THEN now ELSE lowSince[d]]
        BY <1>9 DEF WatchdogChecks, Checks
    <2>2. /\ nextCheck' = IF now + CheckEvery < TickRange THEN now + CheckEvery ELSE now + CheckEvery - TickRange
          /\ nextCheck' \in Ticks
        BY <1>2, <2>1, AfterIs, DelaysAreTicks
    <2>3. lowSince' \in [Domains -> Ticks]
        BY <1>2, <2>1
    <2>4. DeadlineTypes'
        BY <1>1, <2>1, <2>2, <2>3 DEF DeadlineTypes
    <2>5. Fresh' => Fresh /\ ~Resting /\ ~TickBefore(nextCheck)
        BY <1>4, <2>1, RestIs DEF Waits
    <2>6. /\ Until(nextCheck)' = CheckEvery /\ Resting' = Resting
          /\ nextCheck' = 0 => now # 0
          /\ UntilCheck' <= CheckEvery /\ UntilCheck' \in Nat
        BY <1>1, <1>2, <2>1, <2>2, HalvesFit DEF Until, UntilCheck, Resting, Ticks
    <2>7. CheckComes'
        BY <2>5, <2>6, HalvesFit DEF CheckComes
    <2>8. Fresh' => UntilCheck = 0
        <3>1. SUFFICES ASSUME Fresh', nextCheck # 0 PROVE Until(nextCheck) = 0
            BY DEF UntilCheck
        <3>2. Until(nextCheck) <= CheckEvery
            BY <2>5, <3>1 DEF CheckComes
        <3>3. Since(nextCheck) < HalfRange
            BY <1>2, <2>5, <3>1, ElapsedIs, HalvesFit DEF DeadlineTypes, Ticks
        <3>4. QED
            BY <3>1, <3>2, <3>3, HalvesFit DEF Since, Until, DeadlineTypes, Ticks
    <2>9. NotedInTime'
        <3> SUFFICES ASSUME Fresh', NEW d \in Domains, lowSince'[d] # 0
                     PROVE  /\ Since(lowSince[d])' < Recovery
                            /\ lostFor[d] <= Cooldown + CheckEvery + Since(lowSince[d])'
                            /\ Since(lowSince[d])' \in Nat
            BY <1>1, <2>6, HalvesFit DEF NotedInTime
        <3>1. telemetry /\ d \in lost
            BY <2>1
        <3>2. CASE lowSince[d] = 0
            <4>1. lowSince'[d] = now /\ now # 0
                BY <2>1, <3>1, <3>2
            <4>2. Since(lowSince[d])' = 0
                BY <1>1, <1>2, <4>1, HalvesFit DEF Since, Ticks
            <4>3. lostFor[d] <= Cooldown + CheckEvery
                BY <1>2, <2>5, <2>8, <3>2, HalvesFit DEF SeenInTime, Ticks
            <4>4. QED
                BY <4>2, <4>3, <1>2, HalvesFit
        <3>3. CASE lowSince[d] # 0
            <4>1. lowSince'[d] = lowSince[d]
                BY <2>1, <3>1, <3>3
            <4>2. Since(lowSince[d])' = Since(lowSince[d])
                BY <1>1, <4>1 DEF Since
            <4>3. Elapsed(lowSince[d]) = Since(lowSince[d]) /\ Since(lowSince[d]) \in Ticks
                BY <1>2, ElapsedIs
            <4>4. ~(Elapsed(lowSince[d]) >= Recovery)
                BY <2>1, <3>1, <3>3 DEF Unrecovered
            <4>5. lostFor[d] <= Cooldown + CheckEvery + Since(lowSince[d])
                BY <2>5, <3>3 DEF NotedInTime
            <4>6. QED
                BY <4>2, <4>3, <4>4, <4>5, HalvesFit DEF Ticks
        <3>4. QED BY <3>2, <3>3
    <2>10. SeenInTime'
        <3> SUFFICES ASSUME Fresh', NEW d \in Domains, lowSince'[d] = 0
                     PROVE  \/ /\ lostFor[d] + UntilCheck' <= Cooldown
                               /\ lostFor[d] < Cooldown
                            \/ nextCheck' = CheckEvery /\ now <= CheckEvery /\ lostFor[d] <= Cooldown + now
            BY <1>1 DEF SeenInTime
        <3>1. CASE telemetry /\ d \in lost
            <4>1. lowSince[d] = 0 /\ now = 0
                BY <2>1, <3>1
            <4>2. nextCheck' = CheckEvery
                BY <2>2, <4>1, HalvesFit
            <4>3. lostFor[d] <= Cooldown
                BY <1>2, <2>5, <2>8, <4>1, HalvesFit DEF SeenInTime, Ticks
            <4>4. QED
                BY <4>1, <4>2, <4>3, HalvesFit
        <3>2. CASE ~(telemetry /\ d \in lost)
            <4>1. lostFor[d] = 0
                BY <3>2 DEF CountedIsLost
            <4>2. QED
                BY <2>6, <4>1, HalvesFit
        <3>3. QED BY <3>1, <3>2
    <2>11. QED
        BY <2>4, <2>7, <2>9, <2>10
<1>10. QED
    BY <1>5, <1>6, <1>7, <1>8, <1>9 DEF Look, WatchdogStep

LEMMA DeadlinesInvNext == ASSUME DeadlinesInv, [DeadlinesNext]_deadlineVars PROVE DeadlinesInv'
<1>1. CASE TickPasses BY <1>1, TickKeeps
<1>2. CASE WatchdogReboots BY <1>2, RebootKeeps
<1>3. CASE Look BY <1>3, LookKeeps
<1>4. CASE PowerOn \/ CycleEnds BY <1>4, ComesUpKeeps DEF PowerOn, CycleEnds
<1>5. CASE PowerOff BY <1>5, PowerOffKeeps
<1>6. CASE SurroundingsChange /\ watchdog' \in BOOLEAN /\ telemetry' \in BOOLEAN
    BY <1>6, SurroundingsKeep
<1>7. CASE UNCHANGED deadlineVars
    BY <1>7 DEF DeadlinesInv, DeadlineTypes, DeadlinesFit, CheckComes, NotedInTime, SeenInTime,
                CountedIsLost, Fresh, Resting, UntilCheck, Until, Since, SetBefore, deadlineVars,
                domainVars, surroundings
<1>8. watchdog \in BOOLEAN /\ telemetry \in BOOLEAN
    BY DEF DeadlinesInv, DeadlineTypes
<1>9. CASE \/ WatchdogSwitched \/ TelemetryChanges
           \/ \E d \in Domains : DomainChanges(d)
           \/ \E r \in {"fine", "hot", "missing", "none"} : ReadingChanges(r)
    BY <1>6, <1>8, <1>9 DEF WatchdogSwitched, TelemetryChanges, DomainChanges, ReadingChanges
<1>10. QED
    BY <1>1, <1>2, <1>3, <1>4, <1>5, <1>7, <1>9 DEF DeadlinesNext

\* A running chip is power-cycled before a domain has been lost for longer than a
\* cool-down, the recovery time and two checks, whenever the 32-bit tick counter starts
\* over and whichever deadline falls on tick 0, the one that means none; but where start
\* or power cycle is half of the counter's range ago (apply_domain_reboot_watchdog).
THEOREM LossIsBounded == DeadlinesSpec => []LostDomainIsRecovered
<1>1. DeadlinesInit => DeadlinesInv
    BY DeadlinesStart
<1>2. DeadlinesInv /\ [DeadlinesNext]_deadlineVars => DeadlinesInv'
    BY DeadlinesInvNext
<1>3. DeadlinesInv => LostDomainIsRecovered
    <2> SUFFICES ASSUME DeadlinesInv, NEW d \in Domains, chip = "up",
                        sinceUp < TickRange \div 2, sinceCycle < TickRange \div 2
                 PROVE  lostFor[d] <= Cooldown + Recovery + 2 * CheckEvery
        BY DEF LostDomainIsRecovered
    <2> USE DEF DeadlinesInv
    <2>1. Fresh
        BY DEF Fresh, HalfRange
    <2>2. lostFor[d] \in Nat /\ lowSince[d] \in Ticks /\ UntilCheck \in Nat /\ Since(lowSince[d]) \in Nat
        BY HalvesFit DEF UntilCheck, Until, Since, DeadlineTypes, Ticks
    <2>3. CASE lowSince[d] = 0
        BY <2>1, <2>2, <2>3, HalvesFit DEF SeenInTime, DeadlineTypes, Ticks
    <2>4. CASE lowSince[d] # 0
        BY <2>1, <2>2, <2>4, HalvesFit DEF NotedInTime
    <2>5. QED
        BY <2>3, <2>4
<1>4. QED
    BY <1>1, <1>2, <1>3, PTL DEF DeadlinesSpec

-----------------------------------------------------------------------------
(* The payout shown.  What is told is of the block, the login and the      *)
(* wallet, or the receive task is about to look again.                     *)

PayoutSpec == PayoutInit /\ [][PayoutNext]_payoutVars

PayoutTypeOK ==
    /\ link \in {"down", "login", "up", "closed"}
    /\ notify \in [at : {"line", "copy", "evaluate", "tell"}, for : Wallets]
    /\ saving \in {"idle", "apply", "close"}
    /\ wallet \in Wallets /\ oldWallet \in Wallets /\ takenBack \subseteq Wallets

\* The wallet w was or may have been judged by is the one in the settings, or one
\* whose save is about to end, or one whose save was refused.
Excused(w) ==
    link = "up" => \/ w = wallet \/ w \in takenBack
                   \/ saving # "idle" /\ w = oldWallet

\* Before a connection is up, and before the first block, nothing is told.
QuietUntilWork ==
    link \in {"down", "login"} \/ block = NoBlock => notify.at = "line" /\ payout = Unchecked

\* What is told is of the present block and login, unless the receive task is
\* about to look again.
ToldOfWork ==
    notify.at # "copy" =>
        \/ payout \in {Unchecked, ParseError}
        \/ payout = Evaluate(judgedFor, Coinbases[block][loginAs]) /\ Excused(judgedFor)

WillTell == notify.at = "tell" => Excused(notify.for)

PayoutInv == PayoutTypeOK /\ QuietUntilWork /\ ToldOfWork /\ WillTell

LEMMA PayoutInvInit == PayoutInit => PayoutInv
BY DEF PayoutInit, PayoutInv, PayoutTypeOK, QuietUntilWork, ToldOfWork, WillTell, Waiting,
   Unchecked

LEMMA PayoutInvNext == PayoutInv /\ [PayoutNext]_payoutVars => PayoutInv'
<1> SUFFICES ASSUME PayoutInv, [PayoutNext]_payoutVars PROVE PayoutInv' OBVIOUS
<1> USE DEF PayoutInv, PayoutTypeOK, QuietUntilWork, ToldOfWork, WillTell, Excused,
            blockVars, linkVarsOfPayout, saveVars, SavesUnchanged, BetweenJobs, HandlerOnly
<1>1. ASSUME NEW b \in Blocks, NotesBlock(b) PROVE PayoutInv'
  <2>1. /\ notify.at = "line" /\ link \in {"up", "closed"} /\ block' = b /\ b # NoBlock
        /\ UNCHANGED <<linkVarsOfPayout, payout, judgedFor, saveVars>>
    BY <1>1, PayoutAssumption DEF NotesBlock
  <2>2. notify' = IF UpdatesPayout(b # block /\ block # NoBlock)
                  THEN [notify EXCEPT !.at = "copy"] ELSE notify
    BY <1>1 DEF NotesBlock
  <2>3. CASE UpdatesPayout(b # block /\ block # NoBlock) BY <2>1, <2>2, <2>3
  <2>4. CASE ~UpdatesPayout(b # block /\ block # NoBlock)
    <3>1. b = block BY <2>1, <2>4 DEF UpdatesPayout
    <3> QED BY <2>1, <2>2, <2>4, <3>1
  <2> QED BY <2>3, <2>4
<1>2. CASE CopiesCoinbase BY <1>2 DEF CopiesCoinbase
<1>3. CASE TakesWallet BY <1>3 DEF TakesWallet
<1>4. CASE TellsPayout BY <1>4 DEF TellsPayout
<1>5. CASE LogsInForWork BY <1>5 DEF LogsInForWork
<1>6. CASE LinkComesUp BY <1>6 DEF LinkComesUp
<1>7. CASE IsSubscribed BY <1>7 DEF IsSubscribed
<1>8. CASE LinkEnds BY <1>8 DEF LinkEnds
<1>9. ASSUME NEW w \in Wallets, SavesWallet(w) PROVE PayoutInv' BY <1>9 DEF SavesWallet
<1>10. CASE SaveEnds BY <1>10 DEF SaveEnds
<1>11. CASE ClosesLink BY <1>11 DEF ClosesLink
<1>12. CASE UNCHANGED payoutVars BY <1>12 DEF payoutVars
<1> QED BY <1>1, <1>2, <1>3, <1>4, <1>5, <1>6, <1>7, <1>8, <1>9, <1>10, <1>11, <1>12
    DEF PayoutNext

\* Whatever payout is shown on an open connection is that of the miner's block, of
\* the login it has made and of the wallet in the settings, for every coinbase, every
\* order of blocks and every interleaving of a save with a check.
THEOREM ShownPayoutIsOfWork == PayoutSpec => []PayoutIsOfWork
<1>1. PayoutInv => PayoutIsOfWork
  BY DEF PayoutInv, ToldOfWork, Excused, PayoutIsOfWork
<1> QED BY <1>1, PayoutInvInit, PayoutInvNext, PTL DEF PayoutSpec

-----------------------------------------------------------------------------
(* The pool settings and the sessions.  Sessions that are being made must  *)
(* fit too, so that they do when they are open, and so must, during a      *)
(* save, all those the handler will not close.                             *)

PoolSettingsSpec == PoolSettingsInit /\ [][PoolSettingsNext]_poolSettingsVars

Config == [multi : BOOLEAN, host : STRING, user : STRING, suggest : Nat, aux : AuxRows]

Session == [at : {"top", "dial", "login", "open", "closed"},
            host : STRING, user : STRING, suggest : Nat]

SettingsTypeOK ==
    /\ poolConf \in Config /\ previous \in Config
    /\ sessions \in [Sessions -> Session]
    /\ toClose \subseteq Sessions

Live(p) == sessions[p].at \in {"dial", "login", "open"}

\* A session fits the running settings, or it is still to be closed, or it was
\* missed.
FitUnlessClosed ==
    \A p \in (Sessions \ missed) \ toClose : Live(p) => Fits(poolConf, p)

IdleIsDone == handler = "idle" => toClose = {}

FitInv == SettingsTypeOK /\ FitUnlessClosed /\ IdleIsDone

LEMMA ConfigsTyped == PoolConfigs \subseteq Config
BY PoolSettingsAssumption DEF Config

LEMMA FieldsTyped ==
    ASSUME NEW conf \in Config, NEW p \in Sessions
    PROVE  UserOf(conf, p) \in STRING /\ HostOf(conf, p) \in STRING /\ conf.suggest \in Nat
BY DEF Config, AuxRows, Sessions, UserOf, HostOf

LEMMA FitInit == PoolSettingsInit => FitInv
BY ConfigsTyped, PoolSettingsAssumption
   DEF PoolSettingsInit, FitInv, SettingsTypeOK, FitUnlessClosed, IdleIsDone, Live,
       NoSession, Session

\* What the comparison of two settings does not name, the new ones fit as well.
LEMMA UnnamedStillFits ==
    ASSUME NEW before \in Config, NEW after \in Config, NEW p \in Sessions,
           p \notin ReconnectMask(before, after), Fits(before, p)
    PROVE  Fits(after, p)
<1>1. Configured(before, p) /\ before.suggest = after.suggest
  BY DEF Fits, ReconnectMask, SuggestionChanged
<1>2. before.multi = after.multi
  BY <1>1 DEF ReconnectMask, ModeChanged, Configured, HostOf, Config
<1>3. Configured(after, p) /\ HostOf(after, p) = HostOf(before, p)
      /\ UserOf(after, p) = UserOf(before, p)
  <2>1. CASE p = 0
    BY <1>1, <1>2, <2>1 DEF ReconnectMask, PrimaryChanged, Configured, HostOf, UserOf
  <2>2. CASE p # 0
    <3>1. /\ p \in AuxPools /\ Configured(after, p) /\ before.aux[p] = after.aux[p]
          /\ before.user = after.user \/ after.aux[p].user # NoUser
      BY <1>1, <2>2 DEF ReconnectMask, AuxChanged, Sessions
    <3> QED BY <2>2, <3>1 DEF HostOf, UserOf
  <2> QED BY <2>1, <2>2
<1> QED BY <1>1, <1>3 DEF Fits

\* A receive task only makes its session fit better.
LEMMA ReceiveKeepsFit ==
    ASSUME FitInv, NEW p \in Sessions,
           Dials(p) \/ LogsIn(p) \/ Attaches(p) \/ SessionEnds(p)
    PROVE  FitInv'
<1>1. UNCHANGED <<poolConf, handler, previous, toClose>>
  BY DEF Dials, LogsIn, Attaches, SessionEnds, ConfigurationOnly
<1>2. sessions \in [Sessions -> Session] /\ poolConf \in Config
  BY DEF FitInv, SettingsTypeOK
<1>3. PICK s \in Session : sessions' = [sessions EXCEPT ![p] = s]
  BY <1>2, FieldsTyped, PoolSettingsAssumption
     DEF Dials, LogsIn, Attaches, SessionEnds, Moves, NoSession, Session
<1>4. \A q \in Sessions \ {p} : sessions'[q] = sessions[q]
  BY <1>2, <1>3
<1>5. missed \subseteq missed' \cup {p}
  BY DEF Dials, LogsIn, Attaches, SessionEnds
<1>6. (p \notin missed' /\ p \notin toClose /\ Live(p)') => Fits(poolConf, p)'
  <2>1. CASE Dials(p)
    BY <2>1, <1>1, <1>2 DEF Dials, Moves, NoSession, Fits, Live, Configured, HostOf, UserOf
  <2>2. CASE LogsIn(p) \/ Attaches(p)
    <3>1. missed' = missed /\ Live(p)
      BY <2>2 DEF LogsIn, Attaches, Live
    <3>2. /\ sessions'[p].host = sessions[p].host
          /\ \/ sessions[p].at # "dial" /\ sessions'[p].user = sessions[p].user
                /\ sessions'[p].suggest = sessions[p].suggest
             \/ sessions'[p].user = UserOf(poolConf, p)
                /\ sessions'[p].suggest = poolConf.suggest
      <4>1. CASE LogsIn(p)
        <5> DEFINE made == [sessions[p] EXCEPT !.at = "login", !.user = UserOf(poolConf, p),
                                               !.suggest = poolConf.suggest]
        <5>1. sessions'[p] = made
          BY <4>1, <1>2 DEF LogsIn, Moves
        <5>2. sessions[p] \in Session
          BY <1>2
        <5>3. made.host = sessions[p].host /\ made.user = UserOf(poolConf, p)
              /\ made.suggest = poolConf.suggest
          BY <5>2 DEF Session
        <5> QED BY <5>1, <5>3
      <4>2. CASE Attaches(p)
        BY <4>2, <1>2 DEF Attaches, Moves, Session
      <4> QED BY <2>2, <4>1, <4>2
    <3>3. (p \notin missed /\ p \notin toClose) => Fits(poolConf, p)
      BY <3>1 DEF FitInv, FitUnlessClosed
    <3> QED BY <3>1, <3>2, <3>3, <1>1 DEF Fits, Configured, HostOf, UserOf
  <2>3. CASE SessionEnds(p)
    BY <2>3, <1>2 DEF SessionEnds, Moves, NoSession, Live
  <2> QED BY <2>1, <2>2, <2>3
<1>7. \A q \in (Sessions \ missed') \ toClose : q # p /\ Live(q)' => Fits(poolConf, q)'
  <2> SUFFICES ASSUME NEW q \in Sessions, q \notin missed', q \notin toClose, q # p, Live(q)'
               PROVE  Fits(poolConf, q)'
    OBVIOUS
  <2>1. sessions'[q] = sessions[q] /\ q \notin missed
    BY <1>4, <1>5
  <2>2. Fits(poolConf, q)
    BY <2>1 DEF FitInv, FitUnlessClosed, Live
  <2> QED BY <2>1, <2>2, <1>1 DEF Fits, Configured, HostOf, UserOf
<1> QED BY <1>1, <1>2, <1>3, <1>6, <1>7 DEF FitInv, SettingsTypeOK, FitUnlessClosed, IdleIsDone

LEMMA ChangeKeepsFit ==
    ASSUME FitInv, NEW conf \in PoolConfigs, ChangesPools(conf)
    PROVE  FitInv'
<1>1. /\ toClose = {} /\ poolConf' = conf /\ previous' = poolConf
      /\ toClose' = ReconnectMask(poolConf, conf) /\ handler' = "apply"
      /\ UNCHANGED <<sessions, missed>>
  BY DEF ChangesPools, FitInv, IdleIsDone
<1>2. conf \in Config /\ poolConf \in Config
  BY ConfigsTyped DEF FitInv, SettingsTypeOK
<1>3. ReconnectMask(poolConf, conf) \subseteq Sessions
  BY DEF ReconnectMask, ModeChanged, PrimaryChanged, AuxChanged, SuggestionChanged, Sessions
<1>4. ASSUME NEW p \in (Sessions \ missed) \ toClose', Live(p)
      PROVE  Fits(conf, p)
  <2>1. Fits(poolConf, p)
    BY <1>1, <1>4 DEF FitInv, FitUnlessClosed
  <2> QED BY <1>1, <1>2, <1>4, <2>1, UnnamedStillFits
<1>5. FitUnlessClosed'
  BY <1>1, <1>4 DEF FitUnlessClosed, Live, Fits, Configured, HostOf, UserOf
<1> QED BY <1>1, <1>2, <1>3, <1>5 DEF FitInv, SettingsTypeOK, IdleIsDone

LEMMA RefusalKeepsFit ==
    ASSUME FitInv, Refused
    PROVE  FitInv'
<1>1. /\ poolConf' = previous /\ toClose' = {} /\ UNCHANGED <<sessions, previous>>
      /\ missed' = missed \cup {p \in Sessions : Live(p) /\ ~Fits(previous, p)}
  BY DEF Refused, Live
<1>2. FitUnlessClosed'
  BY <1>1 DEF FitUnlessClosed, Live, Fits, Configured, HostOf, UserOf
<1> QED BY <1>1, <1>2 DEF FitInv, SettingsTypeOK, IdleIsDone

\* A close takes the transport of a session that has one; those without are
\* missed if they do not fit.
LEMMA CloseKeepsFit ==
    ASSUME FitInv, NEW pools \in SUBSET Sessions, Closes(pools)
    PROVE  FitInv'
<1>1. /\ UNCHANGED <<poolConf, handler, previous>>
      /\ toClose' = toClose \ pools
      /\ missed' = missed \cup {p \in pools : sessions[p].at \in {"dial", "login"}
                                              /\ ~Fits(poolConf, p)}
  BY DEF Closes
<1>2. \A p \in Sessions : sessions[p] \in Session
  BY DEF FitInv, SettingsTypeOK
<1>3. \A p \in Sessions : [sessions[p] EXCEPT !.at = "closed"] \in Session
                          /\ [sessions[p] EXCEPT !.at = "closed"].at = "closed"
  BY <1>2 DEF Session
<1>4. /\ sessions' \in [Sessions -> Session]
      /\ \A p \in Sessions :
            \/ p \in pools /\ sessions[p].at = "open" /\ sessions'[p].at = "closed"
            \/ ~(p \in pools /\ sessions[p].at = "open") /\ sessions'[p] = sessions[p]
  <2> DEFINE Closed(p) == [sessions[p] EXCEPT !.at = "closed"]
  <2>1. sessions' = [p \in Sessions |-> IF p \in pools /\ sessions[p].at = "open"
                                       THEN Closed(p) ELSE sessions[p]]
    BY DEF Closes
  <2>2. \A p \in Sessions : Closed(p) \in Session /\ Closed(p).at = "closed"
    BY <1>3
  <2> HIDE DEF Closed
  <2> QED BY <1>2, <2>1, <2>2
<1>5. ASSUME NEW p \in (Sessions \ missed') \ toClose', Live(p)'
      PROVE  Fits(poolConf, p)'
  <2>1. sessions'[p] = sessions[p] /\ ~(p \in pools /\ sessions[p].at = "open") /\ Live(p)
    BY <1>4, <1>5 DEF Live
  <2>2. Fits(poolConf, p)
    <3>1. CASE p \in pools
      BY <1>1, <1>5, <2>1, <3>1 DEF Live
    <3>2. CASE p \notin pools
      BY <1>1, <1>5, <2>1, <3>2 DEF FitInv, FitUnlessClosed
    <3> QED BY <3>1, <3>2
  <2> QED BY <1>1, <2>1, <2>2 DEF Fits, Configured, HostOf, UserOf
<1>6. FitUnlessClosed'
  BY <1>5 DEF FitUnlessClosed
<1> QED BY <1>1, <1>4, <1>6 DEF FitInv, SettingsTypeOK, IdleIsDone

LEMMA HandlerKeepsFit ==
    ASSUME FitInv, Applied \/ HandlerDone \/ UNCHANGED poolSettingsVars
    PROVE  FitInv'
<1>1. /\ UNCHANGED <<poolConf, sessions, previous, toClose, missed>>
      /\ handler' = "idle" => toClose = {}
  BY DEF Applied, HandlerDone, poolSettingsVars, FitInv, IdleIsDone
<1> QED BY <1>1 DEF FitInv, SettingsTypeOK, FitUnlessClosed, IdleIsDone, Live, Fits,
                    Configured, HostOf, UserOf

LEMMA FitInductive == FitInv /\ [PoolSettingsNext]_poolSettingsVars => FitInv'
<1> SUFFICES ASSUME FitInv, [PoolSettingsNext]_poolSettingsVars PROVE FitInv'
  OBVIOUS
<1>1. ASSUME NEW p \in Sessions, Dials(p) \/ LogsIn(p) \/ Attaches(p) \/ SessionEnds(p)
      PROVE  FitInv'
  BY <1>1, ReceiveKeepsFit
<1>2. ASSUME NEW p \in Sessions, ClosesPool(p) PROVE FitInv'
  BY <1>2, CloseKeepsFit DEF ClosesPool
<1>3. CASE ClosesAll
  BY <1>3, CloseKeepsFit DEF ClosesAll
<1>4. ASSUME NEW conf \in PoolConfigs, ChangesPools(conf) PROVE FitInv'
  BY <1>4, ChangeKeepsFit
<1>5. CASE Refused
  BY <1>5, RefusalKeepsFit
<1>6. CASE Applied \/ HandlerDone \/ UNCHANGED poolSettingsVars
  BY <1>6, HandlerKeepsFit
<1> QED BY <1>1, <1>2, <1>3, <1>4, <1>5, <1>6 DEF PoolSettingsNext

LEMMA FitIsEnough == FitInv => SessionsFitSettings
BY DEF FitInv, FitUnlessClosed, IdleIsDone, Live, SessionsFitSettings

\* Once a save is over every open session was made with what the settings give
\* its pool, but for those the handler missed: the comparison names every pool
\* that the change touches (active_pool_settings_reconnect_mask).
THEOREM OpenSessionsFit == PoolSettingsSpec => []SessionsFitSettings
<1>1. PoolSettingsSpec => []FitInv
  BY FitInit, FitInductive, PTL DEF PoolSettingsSpec
<1> QED BY <1>1, FitIsEnough, PTL

-----------------------------------------------------------------------------
(* The scheduler over two weighted pools.  A part of the frame is fair, its *)
(* slices are even, and the round robin keeps them level; so no pool gets   *)
(* further ahead than a slice, and a frame that is sent has been shared.    *)

SchedulerSpec == SchedulerInit /\ [][SchedulerNext]_schedulerVars

LEMMA DivMod ==
  ASSUME NEW a \in Nat, NEW b \in Nat \ {0}
  PROVE  /\ a \div b \in Nat /\ a % b \in Nat
         /\ a = b * (a \div b) + (a % b)
         /\ a % b < b
OBVIOUS

\* The fold over two pools is a sum of two terms.
LEMMA SumOverTwo ==
  ASSUME NEW f, NEW S \in SUBSET {1, 2}, \A p \in S : f[p] \in Int
  PROVE  SumOver(f, S) = (IF 1 \in S THEN f[1] ELSE 0) + (IF 2 \in S THEN f[2] ELSE 0)
<1> DEFINE choose(s) == CHOOSE x \in s : TRUE
           iter == CHOOSE g : g = [s \in SUBSET S |-> IF s = {} THEN 0 ELSE f[choose(s)] + g[s \ {choose(s)}]]
           val(s) == (IF 1 \in s THEN f[1] ELSE 0) + (IF 2 \in s THEN f[2] ELSE 0)
           vals == [s \in SUBSET S |-> val(s)]
<1>1. SumOver(f, S) = iter[S]
  BY DEF SumOver, MapThenSumSet, MapThenFoldSet
<1>2. ASSUME NEW s \in SUBSET S, s # {}
      PROVE  choose(s) \in s /\ s \ {choose(s)} \in SUBSET S
  BY <1>2
<1>3. ASSUME NEW s \in SUBSET S, s # {}
      PROVE  val(s) = f[choose(s)] + val(s \ {choose(s)})
  <2> HIDE DEF choose
  <2>1. choose(s) \in s BY <1>2, <1>3
  <2>2. CASE choose(s) = 1
    <3>1. 1 \in s /\ 1 \notin s \ {1} /\ (2 \in s <=> 2 \in s \ {1}) BY <2>1, <2>2
    <3>2. f[1] \in Int /\ (2 \in s => f[2] \in Int) BY <3>1
    <3>3. val(s) = f[1] + (IF 2 \in s THEN f[2] ELSE 0) BY <3>1
    <3>4. val(s \ {1}) = (IF 2 \in s THEN f[2] ELSE 0) BY <3>1, <3>2
    <3> HIDE DEF val
    <3> QED BY <2>2, <3>3, <3>4
  <2>3. CASE choose(s) = 2
    <3>1. 2 \in s /\ 2 \notin s \ {2} /\ (1 \in s <=> 1 \in s \ {2}) BY <2>1, <2>3
    <3>2. f[2] \in Int /\ (1 \in s => f[1] \in Int) BY <3>1
    <3>3. val(s) = (IF 1 \in s THEN f[1] ELSE 0) + f[2] BY <3>1
    <3>4. val(s \ {2}) = (IF 1 \in s THEN f[1] ELSE 0) BY <3>1, <3>2
    <3> HIDE DEF val
    <3>5. (IF 1 \in s THEN f[1] ELSE 0) \in Int BY <3>2
    <3> QED BY <2>3, <3>2, <3>3, <3>4, <3>5
  <2> QED BY <2>1, <2>2, <2>3
<1>4. vals = [s \in SUBSET S |-> IF s = {} THEN 0 ELSE f[choose(s)] + vals[s \ {choose(s)}]]
  <2>1. ASSUME NEW s \in SUBSET S
        PROVE  vals[s] = IF s = {} THEN 0 ELSE f[choose(s)] + vals[s \ {choose(s)}]
    <3>1. CASE s = {} BY <3>1
    <3>2. CASE s # {}
       <4>1. s \ {choose(s)} \in SUBSET S BY <1>2, <3>2
       <4>2. vals[s \ {choose(s)}] = val(s \ {choose(s)}) BY <4>1
       <4> HIDE DEF val, choose
       <4> QED BY <4>2, <1>3, <3>2
    <3> QED BY <3>1, <3>2
  <2> HIDE DEF val, choose
  <2> QED BY <2>1
<1>5. iter = [s \in SUBSET S |-> IF s = {} THEN 0 ELSE f[choose(s)] + iter[s \ {choose(s)}]]
  <2> HIDE DEF vals, choose, val
  <2> QED BY <1>4
<1>6. ASSUME NEW s \in SUBSET S
      PROVE  iter[s] = IF s = {} THEN 0 ELSE f[choose(s)] + iter[s \ {choose(s)}]
  <2> HIDE DEF iter, choose, val
  <2> QED BY <1>5
<1> HIDE DEF iter, vals
<1>7. iter[{}] = 0 BY <1>6
<1>8. ASSUME NEW p \in S PROVE iter[{p}] = f[p]
  <2>1. choose({p}) = p OBVIOUS
  <2>0. {p} \in SUBSET S /\ {p} # {} OBVIOUS
  <2> HIDE DEF choose
  <2>2. iter[{p}] = f[choose({p})] + iter[{p} \ {choose({p})}] BY <1>6, <2>0
  <2>3. {p} \ {p} = {} OBVIOUS
  <2>4. f[p] \in Int OBVIOUS
  <2> QED BY <2>1, <2>2, <2>3, <2>4, <1>7
<1>9. CASE S = {1, 2}
  <2>1. choose({1,2}) \in {1,2} OBVIOUS
  <2>2. {1,2} \ {1} = {2} /\ {1,2} \ {2} = {1} OBVIOUS
  <2>3. iter[{1,2}] = f[choose({1,2})] + iter[{1,2} \ {choose({1,2})}]  BY <1>6, <1>9
  <2> HIDE DEF choose
  <2>4. iter[{1}] = f[1] /\ iter[{2}] = f[2] /\ f[1] \in Int /\ f[2] \in Int BY <1>8, <1>9
  <2>5. CASE choose({1, 2}) = 1 BY <2>5, <2>2, <2>3, <2>4, <1>1, <1>9
  <2>6. CASE choose({1, 2}) = 2
    <3>1. iter[{1, 2}] = f[2] + f[1] BY <2>6, <2>2, <2>3, <2>4
    <3>2. SumOver(f, {1, 2}) = f[1] + f[2] BY <3>1, <2>4, <1>1, <1>9
    <3> QED BY <3>2, <1>9
  <2> QED BY <2>1, <2>5, <2>6
<1>10. CASE S = {1}
  <2>1. 1 \in S /\ 2 \notin S /\ iter[{1}] = f[1] /\ f[1] \in Int BY <1>8, <1>10
  <2> QED BY <2>1, <1>1, <1>10
<1>11. CASE S = {2}
  <2>1. 2 \in S /\ 1 \notin S /\ iter[{2}] = f[2] /\ f[2] \in Int BY <1>8, <1>11
  <2> QED BY <2>1, <1>1, <1>11
<1>12. CASE S = {} BY <1>12, <1>1, <1>7
<1> QED BY <1>9, <1>10, <1>11, <1>12

LEMMA TotalOfTwo ==
  ASSUME NEW f, DOMAIN f = {1, 2}, f[1] \in Int, f[2] \in Int
  PROVE  Total(f) = f[1] + f[2]
BY SumOverTwo DEF Total

\* The number of pools ahead of one of two pools.
LEMMA RankOfTwo ==
  ASSUME NEW f, DOMAIN f = {1, 2}, f[1] \in Int, f[2] \in Int
  PROVE  /\ Rank(f, 1) = IF f[2] > f[1] THEN 1 ELSE 0
         /\ Rank(f, 2) = IF f[1] >= f[2] THEN 1 ELSE 0
<1> DEFINE ahead(p) == {q \in DOMAIN f : f[q] > f[p] \/ (f[q] = f[p] /\ q < p)}
<1>1. ahead(1) = IF f[2] > f[1] THEN {2} ELSE {} OBVIOUS
<1>2. ahead(2) = IF f[1] >= f[2] THEN {1} ELSE {} OBVIOUS
<1>3. Cardinality({}) = 0 /\ Cardinality({1}) = 1 /\ Cardinality({2}) = 1
  BY FS_EmptySet, FS_Singleton
<1>4. Rank(f, 1) = Cardinality(ahead(1)) /\ Rank(f, 2) = Cardinality(ahead(2)) BY DEF Rank
<1> HIDE DEF ahead
<1> QED BY <1>1, <1>2, <1>3, <1>4

\* Which of two pools gets the leftover job.
LEMMA LeastOfTwo ==
  ASSUME NEW empty \in SUBSET {1, 2}, NEW left \in {0, 1},
         empty # {1, 2}, left = 0 => empty = {}
  PROVE  {p \in empty : Cardinality({q \in empty : q < p}) < left} = empty
<1>1. Cardinality({}) = 0 BY FS_EmptySet
<1>2. CASE empty = {} BY <1>2
<1>3. CASE empty # {}
  <2>1. ASSUME NEW p \in empty PROVE {q \in empty : q < p} = {}
    <3>1. CASE empty = {1} BY <3>1
    <3>2. CASE empty = {2} BY <3>2
    <3> QED BY <1>3, <3>1, <3>2
  <2>2. left = 1 BY <1>3
  <2> DEFINE before(p) == {q \in empty : q < p}
  <2>3. \A p \in empty : Cardinality(before(p)) = 0 BY <2>1, <1>1, Zenon
  <2> HIDE DEF before
  <2>4. \A p \in empty : Cardinality(before(p)) < left BY <2>2, <2>3
  <2>5. {p \in empty : Cardinality(before(p)) < left} = empty BY <2>4, Zenon
  <2> QED BY <2>5 DEF before
<1> QED BY <1>2, <1>3

\* Parts of a frame that are within one job of the weights; no pool of some weight
\* goes without.
FairParts(w, jobs) ==
    /\ jobs \in [{1, 2} -> Nat] /\ jobs[1] + jobs[2] = FrameJobs
    /\ \A p \in {1, 2} : /\ jobs[p] * (w[1] + w[2]) - FrameJobs * w[p] < w[1] + w[2]
                         /\ FrameJobs * w[p] - jobs[p] * (w[1] + w[2]) < w[1] + w[2]
                         /\ w[p] > 0 <=> jobs[p] > 0

\* pool_slice_scheduler_build_frame divides the frame so.
LEMMA ApportionIsFair ==
  ASSUME NEW w \in [{1, 2} -> Nat], w[1] + w[2] > 0
  PROVE  FairParts(w, Apportion(w))
<1> DEFINE W == w[1] + w[2]
           quota == [p \in {1, 2} |-> (w[p] * FrameJobs) \div W]
           remainder == [p \in {1, 2} |-> (w[p] * FrameJobs) % W]
           left == FrameJobs - (quota[1] + quota[2])
           empty == {p \in {1, 2} : w[p] > 0 /\ quota[p] = 0}
           rest == left - Cardinality(empty)
           jobs == [p \in {1, 2} |-> quota[p] + (IF p \in empty THEN 1 ELSE 0)
                                     + (IF w[p] > 0 /\ Rank(remainder, p) < rest THEN 1 ELSE 0)]
<1> USE SchedulerAssumption
<1>1. ASSUME NEW p \in {1, 2}
      PROVE  /\ quota[p] \in Nat /\ remainder[p] \in Nat /\ remainder[p] < W
             /\ w[p] * FrameJobs = W * quota[p] + remainder[p]
             /\ (w[p] = 0 => quota[p] = 0 /\ remainder[p] = 0)
             /\ (p \in empty => remainder[p] > 0)
  <2>1. w[p] * FrameJobs \in Nat /\ W \in Nat \ {0} OBVIOUS
  <2> DEFINE a == w[p] * FrameJobs
  <2>2. quota[p] = a \div W /\ remainder[p] = a % W OBVIOUS
  <2>3. w[p] = 0 => a = 0 OBVIOUS
  <2>4. w[p] > 0 => a > 0 OBVIOUS
  <2> HIDE DEF a, W, quota, remainder
  <2>5. /\ quota[p] \in Nat /\ remainder[p] \in Nat /\ remainder[p] < W
        /\ a = W * quota[p] + remainder[p]
    <3>1. a \in Nat BY <2>1 DEF a
    <3> QED BY <2>1, <2>2, <3>1, DivMod
  <2>6. w[p] = 0 => quota[p] = 0 /\ remainder[p] = 0
    <3> SUFFICES ASSUME w[p] = 0 PROVE quota[p] = 0 /\ remainder[p] = 0 OBVIOUS
    <3>1. W * quota[p] + remainder[p] = 0 BY <2>3, <2>5
    <3>2. W * quota[p] >= quota[p] BY <2>1, <2>5
    <3>3. W * quota[p] \in Nat BY <2>1, <2>5
    <3>4. ASSUME NEW wq \in Nat, NEW q \in Nat, NEW r \in Nat, wq + r = 0, wq >= q
          PROVE  q = 0 /\ r = 0
      BY <3>4
    <3> QED BY <3>1, <3>2, <3>3, <3>4, <2>5
  <2>7. p \in empty => remainder[p] > 0 BY <2>4, <2>5, <2>1
  <2> QED BY <2>5, <2>6, <2>7 DEF a
<1>2. Total(quota) = quota[1] + quota[2]
  <2> HIDE DEF W
  <2> QED BY <1>1, TotalOfTwo
<1>3. Total(w) = W BY TotalOfTwo
<1>4. W * left = remainder[1] + remainder[2]
  <2>1. W * FrameJobs = W * quota[1] + remainder[1] + (W * quota[2] + remainder[2])
    <3>1. W * FrameJobs = w[1] * FrameJobs + w[2] * FrameJobs OBVIOUS
    <3>2. w[1] * FrameJobs \in Nat /\ w[2] * FrameJobs \in Nat OBVIOUS
    <3> HIDE DEF W, quota, remainder
    <3> QED BY <1>1, <3>1, <3>2
  <2>2. W \in Nat /\ quota[1] \in Nat /\ quota[2] \in Nat
    <3>1. \A p \in {1, 2} : quota[p] \in Nat BY <1>1
    <3> HIDE DEF quota
    <3> QED BY <3>1
  <2>3. remainder[1] \in Nat /\ remainder[2] \in Nat BY <1>1
  <2> HIDE DEF W, quota, remainder
  <2> QED BY <2>1, <2>2, <2>3
<1>5. left \in {0, 1}
  <2>1. W \in Nat \ {0} /\ left \in Int
    <3>1. quota[1] \in Nat /\ quota[2] \in Nat BY <1>1
    <3> HIDE DEF quota
    <3> QED BY <3>1
  <2>2. W * left >= 0 /\ W * left < 2 * W
    <3>1. \A p \in {1, 2} : remainder[p] \in Nat /\ remainder[p] < W BY <1>1
    <3> HIDE DEF W, left, remainder
    <3> QED BY <2>1, <3>1, <1>4
  <2> HIDE DEF W, left
  <2>3. left > -1 BY <2>1, <2>2
  <2>4. left < 2
    <3>1. ASSUME left >= 2 PROVE FALSE
      <4>1. W * left >= W * 2 BY <3>1, <2>1
      <4> QED BY <4>1, <2>1, <2>2
    <3> QED BY <3>1, <2>1
  <2> QED BY <2>1, <2>3, <2>4
<1>6. empty # {1, 2} /\ (left = 0 => empty = {})
  <2>1. ASSUME empty = {1, 2} PROVE FALSE
    <3>1. quota[1] = 0 /\ quota[2] = 0 BY <2>1
    <3> HIDE DEF quota
    <3> QED BY <3>1, <1>5
  <2>2. ASSUME left = 0 PROVE empty = {}
    <3>1. W * left = 0 BY <2>2
    <3>2. remainder[1] = 0 /\ remainder[2] = 0
      <4> HIDE DEF W, left, remainder
      <4> QED BY <3>1, <1>1, <1>4
    <3> HIDE DEF W, left, remainder, quota
    <3> QED BY <3>2, <1>1
  <2> QED BY <2>1, <2>2
<1>7. Apportion(w) = jobs
  <2>1. DOMAIN w = {1, 2} OBVIOUS
  <2>2. {p \in empty : Cardinality({q \in empty : q < p}) < left} = empty
    <3> HIDE DEF left
    <3> QED BY <1>5, <1>6, LeastOfTwo
  <2> DEFINE quotaD == [p \in DOMAIN w |-> (w[p] * FrameJobs) \div Total(w)]
             remainderD == [p \in DOMAIN w |-> (w[p] * FrameJobs) % Total(w)]
             leftD == FrameJobs - Total(quotaD)
             emptyD == {p \in DOMAIN w : w[p] > 0 /\ quotaD[p] = 0}
             leastD == {p \in emptyD : Cardinality({q \in emptyD : q < p}) < leftD}
             restD == leftD - Cardinality(leastD)
  <2>3. Apportion(w) = [p \in DOMAIN w |-> quotaD[p] + (IF p \in leastD THEN 1 ELSE 0)
                        + (IF w[p] > 0 /\ Rank(remainderD, p) < restD THEN 1 ELSE 0)]
    BY DEF Apportion
  <2>4. quotaD = quota /\ remainderD = remainder BY <1>3, <2>1
  <2> HIDE DEF quotaD, remainderD, quota, remainder, W
  <2>5. leftD = left BY <2>4, <1>2
  <2>6. emptyD = empty BY <2>1, <2>4
  <2> HIDE DEF leftD, left, emptyD, empty
  <2>7. leastD = empty BY <2>2, <2>5, <2>6
  <2> HIDE DEF leastD
  <2>8. restD = rest BY <2>5, <2>7
  <2> HIDE DEF restD, rest
  <2> QED BY <2>1, <2>3, <2>4, <2>7, <2>8
<1>8. empty = {} \/ empty = {1} \/ empty = {2} BY <1>6
<1>9. Cardinality({}) = 0 /\ Cardinality({1}) = 1 /\ Cardinality({2}) = 1
  BY FS_EmptySet, FS_Singleton
<1>10. /\ Rank(remainder, 1) = IF remainder[2] > remainder[1] THEN 1 ELSE 0
       /\ Rank(remainder, 2) = IF remainder[1] >= remainder[2] THEN 1 ELSE 0
  <2>1. DOMAIN remainder = {1, 2} OBVIOUS
  <2>2. remainder[1] \in Int /\ remainder[2] \in Int BY <1>1
  <2> HIDE DEF remainder
  <2> QED BY <2>1, <2>2, RankOfTwo
\* Each job left over goes to one pool with a remainder.
<1>11. /\ jobs[1] + jobs[2] = FrameJobs
       /\ \A p \in {1, 2} : \/ jobs[p] = quota[p] /\ p \notin empty
                            \/ jobs[p] = quota[p] + 1 /\ remainder[p] > 0
  <2> DEFINE given(p) == IF w[p] > 0 /\ Rank(remainder, p) < rest THEN 1 ELSE 0
  <2>1. \A p \in {1, 2} : jobs[p] = quota[p] + (IF p \in empty THEN 1 ELSE 0) + given(p)
    OBVIOUS
  <2>2. /\ quota[1] \in Nat /\ quota[2] \in Nat /\ quota[1] + quota[2] = FrameJobs - left
        /\ remainder[1] \in Nat /\ remainder[2] \in Nat
    <3>1. \A p \in {1, 2} : quota[p] \in Nat /\ remainder[p] \in Nat BY <1>1
    <3> HIDE DEF quota, remainder
    <3> QED BY <3>1
  <2>3. \A p \in {1, 2} : (w[p] = 0 => remainder[p] = 0) /\ (p \in empty => remainder[p] > 0)
    BY <1>1
  <2>4. w[1] \in Nat /\ w[2] \in Nat OBVIOUS
  <2>5. left = 1 => remainder[1] + remainder[2] > 0
    <3>1. W \in Nat /\ W > 0 OBVIOUS
    <3> HIDE DEF W, left, remainder
    <3> QED BY <3>1, <1>4
  <2>6. rest = left - Cardinality(empty) OBVIOUS
  <2> HIDE DEF jobs, quota, remainder, left, empty, rest, W
  <2>7. CASE left = 0
    <3>0. Cardinality(empty) = 0 BY <2>7, <1>6, <1>9, Zenon
    <3>1. rest = 0 BY <2>6, <2>7, <3>0
    <3>2. given(1) = 0 /\ given(2) = 0 BY <3>1, <1>10
    <3> QED BY <3>2, <2>1, <2>2, <2>7, <1>6
  <2>8. CASE left = 1 /\ empty # {}
    <3>0. Cardinality(empty) = 1 BY <2>8, <1>8, <1>9, Zenon
    <3>1. rest = 0 BY <2>6, <2>8, <3>0
    <3>2. given(1) = 0 /\ given(2) = 0 BY <3>1, <1>10
    <3> HIDE DEF given
    <3>3. CASE empty = {1} BY <3>2, <3>3, <2>1, <2>2, <2>3, <2>8
    <3>4. CASE empty = {2} BY <3>2, <3>4, <2>1, <2>2, <2>3, <2>8
    <3> QED BY <3>3, <3>4, <2>8, <1>8
  <2>9. CASE left = 1 /\ empty = {}
    <3>0. Cardinality(empty) = 0 BY <2>9, <1>9, Zenon
    <3>1. rest = 1 BY <2>6, <2>9, <3>0
    <3>2. CASE remainder[1] >= remainder[2]
      <4>1. remainder[1] > 0 /\ w[1] > 0 BY <3>2, <2>2, <2>3, <2>4, <2>5, <2>9
      <4>2. given(1) = 1 /\ given(2) = 0 BY <3>1, <3>2, <4>1, <1>10, <2>2
      <4> HIDE DEF given
      <4> QED BY <4>1, <4>2, <2>1, <2>2, <2>9
    <3>3. CASE remainder[2] > remainder[1]
      <4>1. remainder[2] > 0 /\ w[2] > 0 BY <3>3, <2>2, <2>3, <2>4, <2>5, <2>9
      <4>2. given(2) = 1 /\ given(1) = 0 BY <3>1, <3>3, <4>1, <1>10, <2>2
      <4> HIDE DEF given
      <4> QED BY <4>1, <4>2, <2>1, <2>2, <2>9
    <3> QED BY <3>2, <3>3, <2>2
  <2> QED BY <2>7, <2>8, <2>9, <1>5
<1>12. ASSUME NEW p \in {1, 2}
       PROVE  /\ jobs[p] \in Nat
              /\ jobs[p] * W - FrameJobs * w[p] < W
              /\ FrameJobs * w[p] - jobs[p] * W < W
              /\ w[p] > 0 <=> jobs[p] > 0
  <2>1. /\ quota[p] \in Nat /\ remainder[p] \in Nat /\ remainder[p] < W
        /\ w[p] * FrameJobs = W * quota[p] + remainder[p]
        /\ (w[p] = 0 => quota[p] = 0 /\ remainder[p] = 0)
    BY <1>1
  <2>2. W \in Nat /\ w[p] \in Nat OBVIOUS
  <2>3. p \notin empty => w[p] = 0 \/ quota[p] # 0 BY <2>1, <2>2
  <2>4. FrameJobs * w[p] = W * quota[p] + remainder[p] BY <2>1, <2>2
  <2>5. W * (quota[p] + 1) = W * quota[p] + W BY <2>1, <2>2
  <2> HIDE DEF jobs, quota, remainder, empty, W
  <2>6. CASE jobs[p] = quota[p] /\ p \notin empty
    <3>1. jobs[p] * W = W * quota[p] BY <2>1, <2>2, <2>6
    <3>2. W * quota[p] \in Nat BY <2>1, <2>2
    <3> DEFINE Wq == W * quota[p]
               Fw == FrameJobs * w[p]
               jW == jobs[p] * W
    <3>3. /\ jW = Wq /\ Fw = Wq + remainder[p] /\ Wq \in Nat
      BY <2>4, <3>1, <3>2
    <3>4. w[p] > 0 <=> jobs[p] > 0 BY <2>1, <2>2, <2>3, <2>6
    <3>5. jobs[p] \in Nat BY <2>1, <2>6
    <3> HIDE DEF Wq, Fw, jW
    <3>6. jW - Fw < W /\ Fw - jW < W
      <4>1. remainder[p] \in Nat /\ remainder[p] < W BY <2>1
      <4> QED BY <4>1, <2>2, <3>3
    <3> QED BY <3>4, <3>5, <3>6 DEF Fw, jW
  <2>7. CASE jobs[p] = quota[p] + 1 /\ remainder[p] > 0
    <3>1. jobs[p] * W = W * quota[p] + W BY <2>1, <2>2, <2>5, <2>7
    <3>2. W * quota[p] \in Nat BY <2>1, <2>2
    <3> DEFINE Wq == W * quota[p]
               Fw == FrameJobs * w[p]
               jW == jobs[p] * W
    <3>3. /\ jW = Wq + W /\ Fw = Wq + remainder[p] /\ Wq \in Nat
      BY <2>4, <3>1, <3>2
    <3>4. w[p] > 0 <=> jobs[p] > 0
      <4>1. w[p] # 0 BY <2>1, <2>7
      <4>2. w[p] > 0 BY <4>1, <2>2
      <4>3. jobs[p] > 0 BY <2>1, <2>7
      <4> QED BY <4>2, <4>3
    <3>5. jobs[p] \in Nat BY <2>1, <2>7
    <3> HIDE DEF Wq, Fw, jW
    <3>6. jW - Fw < W /\ Fw - jW < W
      <4>1. remainder[p] \in Nat /\ remainder[p] < W BY <2>1
      <4> QED BY <4>1, <2>2, <2>7, <3>3
    <3> QED BY <3>4, <3>5, <3>6 DEF Fw, jW
  <2> QED BY <1>11, <2>6, <2>7
<1> QED
  <2>1. jobs = [p \in {1, 2} |-> jobs[p]] OBVIOUS
  <2> HIDE DEF jobs
  <2>2. jobs \in [{1, 2} -> Nat] BY <2>1, <1>12
  <2> QED BY <1>7, <1>11, <1>12, <2>2 DEF FairParts

\* A pool's part is cut into as few slices as hold it.
LEMMA ChunksHold ==
  ASSUME NEW j \in Nat, j <= FrameJobs
  PROVE  /\ Chunks(j) \in 0 .. 7 /\ j <= SliceMaxJobs * Chunks(j)
         /\ SliceMaxJobs * Chunks(j) < j + SliceMaxJobs
         /\ Chunks(j) <= j
<1> DEFINE M == SliceMaxJobs
           a == j + M - 1
           C == a \div M
<1>1. M \in Nat /\ M >= 8 /\ a \in Nat
      /\ FrameJobs \in Nat /\ FrameJobs <= 7 * M
  BY SchedulerAssumption
<1>2. C \in Nat /\ a % M \in Nat /\ a = M * C + (a % M) /\ a % M < M BY <1>1, DivMod
<1>3. Chunks(j) = C BY DEF Chunks
<1>4. j <= M * C /\ M * C < j + M
  <2> DEFINE MC == M * C
  <2>1. MC \in Nat BY <1>1, <1>2
  <2>2. j + M - 1 = MC + (a % M) BY <1>2
  <2> HIDE DEF MC
  <2>3. ASSUME NEW r \in Nat, r < M, j + M - 1 = MC + r PROVE j <= MC /\ MC < j + M
    BY <2>1, <2>3, <1>1
  <2> QED BY <2>2, <2>3, <1>2 DEF MC
<1>5. C <= 7
  <2>1. ASSUME C >= 8 PROVE FALSE
    <3>1. M * C >= M * 8 BY <2>1, <1>1, <1>2
    <3>2. ASSUME NEW mc \in Nat, mc < j + M PROVE mc < 8 * M BY <3>2, <1>1
    <3>3. M * C \in Nat BY <1>1, <1>2
    <3> QED BY <3>1, <3>2, <3>3, <1>1, <1>2, <1>4
  <2> QED BY <2>1, <1>2
<1>6. C <= j
  <2>1. CASE j = 0
    <3>1. M * C < M
      <4>1. ASSUME NEW mc \in Nat, mc < j + M PROVE mc < M BY <4>1, <2>1, <1>1
      <4>2. M * C \in Nat BY <1>1, <1>2
      <4> QED BY <4>1, <4>2, <1>4
    <3>2. ASSUME C >= 1 PROVE FALSE
      <4>1. M * C >= M BY <3>2, <1>1, <1>2
      <4> QED BY <3>1, <4>1, <1>1, <1>2
    <3> QED BY <3>2, <2>1, <1>2
  <2>2. CASE j > 0
    <3>1. ASSUME C > j PROVE FALSE
      <4>1. M * C >= M * (j + 1) BY <3>1, <1>1, <1>2
      <4>2. M * (j + 1) = M * j + M BY <1>1
      <4>3. M * j >= j BY <1>1
      <4>4. M * j \in Nat /\ M * C \in Nat BY <1>1, <1>2
      <4> QED BY <4>1, <4>2, <4>3, <4>4, <1>1, <1>4
    <3> QED BY <3>1, <1>2
  <2> QED BY <2>1, <2>2
<1> QED BY <1>2, <1>3, <1>4, <1>5, <1>6

\* Where a pool stands in its part of j jobs and C slices, with jl and cl of them
\* left: its slices are even, the longer ones first.
Even(j, C, jl, cl) ==
    /\ jl \in 0 .. j /\ cl \in 0 .. C
    /\ C > 0 => /\ (j \div C) * cl <= jl
                /\ j - jl <= (j \div C + 1) * (C - cl)
                /\ jl * C <= cl * j

\* An even part of what is left leaves the rest even.
LEMMA SliceIsEven ==
  ASSUME NEW j \in Nat, NEW C \in Nat, NEW jl, NEW cl, Even(j, C, jl, cl), C <= j, cl > 0
  PROVE  LET slice == (jl + cl - 1) \div cl IN
         slice \in Nat /\ slice > 0 /\ slice <= jl /\ Even(j, C, jl - slice, cl - 1)
<1> DEFINE a == j \div C
           slice == (jl + cl - 1) \div cl
<1>1. /\ jl \in Nat /\ cl \in Nat /\ cl > 0 /\ C \in Nat /\ C > 0 /\ cl <= C
      /\ a * cl <= jl /\ j - jl <= (a + 1) * (C - cl) /\ jl * C <= cl * j
  BY DEF Even
<1>2. a \in Nat /\ a > 0 /\ j < (a + 1) * C
  <2>1. a \in Nat /\ j % C \in Nat /\ j = C * a + (j % C) /\ j % C < C BY <1>1, DivMod
  <2>2. ASSUME NEW r \in Nat, r < C, NEW q \in Nat, j = C * q + r
        PROVE  q > 0 /\ j < (q + 1) * C
    <3>1. (q + 1) * C = C * q + C BY <1>1
    <3>2. q = 0 => j < C BY <2>2, <1>1
    <3>3. C * q \in Nat BY <1>1
    <3> QED BY <2>2, <3>1, <3>2, <3>3, <1>1
  <2> QED BY <2>1, <2>2
<1>3. jl <= (a + 1) * cl
  <2>1. ASSUME jl > (a + 1) * cl PROVE FALSE
    <3>1. cl * j < cl * ((a + 1) * C) BY <1>1, <1>2
    <3>2. jl * C > ((a + 1) * cl) * C BY <2>1, <1>1, <1>2
    <3>3. cl * ((a + 1) * C) = ((a + 1) * cl) * C BY <1>1, <1>2
    <3>4. jl * C \in Nat /\ cl * j \in Nat /\ cl * ((a + 1) * C) \in Nat BY <1>1, <1>2
    <3> QED BY <3>1, <3>2, <3>3, <3>4, <1>1
  <2>2. (a + 1) * cl \in Nat BY <1>1, <1>2
  <2> QED BY <2>1, <2>2, <1>1
<1>4. /\ slice \in Nat /\ cl * slice <= jl + cl - 1 /\ jl <= cl * slice
  <2>1. jl + cl - 1 \in Nat BY <1>1
  <2>2. /\ slice \in Nat /\ (jl + cl - 1) % cl \in Nat
        /\ jl + cl - 1 = cl * slice + ((jl + cl - 1) % cl) /\ (jl + cl - 1) % cl < cl
    BY <1>1, <2>1, DivMod
  <2>3. ASSUME NEW r \in Nat, r < cl, NEW q \in Nat, jl + cl - 1 = cl * q + r
        PROVE  cl * q <= jl + cl - 1 /\ jl <= cl * q
    <3>1. cl * q \in Nat BY <1>1
    <3> QED BY <2>3, <3>1, <1>1
  <2> QED BY <2>2, <2>3
<1> HIDE DEF a, slice
<1>5. slice = a \/ slice = a + 1
  <2>1. ASSUME slice < a PROVE FALSE
    <3>1. cl * (slice + 1) <= cl * a BY <2>1, <1>1, <1>2, <1>4
    <3>2. cl * (slice + 1) = cl * slice + cl BY <1>1, <1>4
    <3>3. cl * a = a * cl BY <1>1, <1>2
    <3>4. cl * slice \in Nat /\ a * cl \in Nat BY <1>1, <1>2, <1>4
    <3> QED BY <3>1, <3>2, <3>3, <3>4, <1>1, <1>4
  <2>2. ASSUME slice > a + 1 PROVE FALSE
    <3>1. cl * slice >= cl * (a + 2) BY <2>2, <1>1, <1>2, <1>4
    <3>2. cl * (a + 2) = (a + 1) * cl + cl BY <1>1, <1>2
    <3>3. cl * slice \in Nat /\ (a + 1) * cl \in Nat BY <1>1, <1>2, <1>4
    <3> QED BY <3>1, <3>2, <3>3, <1>1, <1>3, <1>4
  <2> QED BY <2>1, <2>2, <1>2, <1>4
<1>6. slice = a + 1 => a * cl < jl
  <2> SUFFICES ASSUME slice = a + 1 PROVE a * cl < jl OBVIOUS
  <2>1. cl * (a + 1) = a * cl + cl BY <1>1, <1>2
  <2>2. a * cl \in Nat BY <1>1, <1>2
  <2> QED BY <2>1, <2>2, <1>1, <1>4
<1>7. slice <= jl /\ a * (cl - 1) <= jl - slice
  <2>1. a * (cl - 1) = a * cl - a BY <1>1, <1>2
  <2>2. a * cl >= a /\ a * cl \in Nat BY <1>1, <1>2
  <2> QED BY <2>1, <2>2, <1>1, <1>2, <1>5, <1>6
<1>8. j - (jl - slice) <= (a + 1) * (C - (cl - 1))
  <2>1. (a + 1) * (C - (cl - 1)) = (a + 1) * (C - cl) + (a + 1) BY <1>1, <1>2
  <2>2. (a + 1) * (C - cl) \in Int BY <1>1, <1>2
  <2> QED BY <2>1, <2>2, <1>1, <1>2, <1>5
<1>9. (jl - slice) * C <= (cl - 1) * j
  <2>1. cl * (jl - slice) <= (cl - 1) * jl
    <3>1. cl * (jl - slice) = cl * jl - cl * slice BY <1>1, <1>4
    <3>2. (cl - 1) * jl = cl * jl - jl BY <1>1
    <3>3. cl * jl \in Nat /\ cl * slice \in Nat BY <1>1, <1>4
    <3> QED BY <3>1, <3>2, <3>3, <1>1, <1>4
  <2>2. (cl * (jl - slice)) * C <= ((cl - 1) * jl) * C
    BY <2>1, <1>1, <1>4
  <2>3. (cl - 1) * (jl * C) <= (cl - 1) * (cl * j) BY <1>1
  <2>4. /\ (cl * (jl - slice)) * C = cl * ((jl - slice) * C)
        /\ ((cl - 1) * jl) * C = (cl - 1) * (jl * C)
        /\ (cl - 1) * (cl * j) = cl * ((cl - 1) * j)
    BY <1>1, <1>4
  <2>5. cl * ((jl - slice) * C) <= cl * ((cl - 1) * j)
    <3>1. (cl - 1) * (jl * C) \in Int /\ cl * ((jl - slice) * C) \in Int /\ cl * ((cl - 1) * j) \in Int
      BY <1>1, <1>4
    <3> QED BY <2>2, <2>3, <2>4, <3>1
  <2>6. ASSUME NEW x \in Int, NEW y \in Int, cl * x <= cl * y PROVE x <= y
    <3>1. ASSUME x >= y + 1 PROVE FALSE
      <4>1. cl * x >= cl * (y + 1) BY <3>1, <1>1
      <4>2. cl * (y + 1) = cl * y + cl BY <1>1
      <4>3. cl * x \in Int /\ cl * y \in Int BY <1>1
      <4> QED BY <4>1, <4>2, <4>3, <2>6, <1>1
    <3> QED BY <3>1
  <2> QED BY <2>5, <2>6, <1>1, <1>4
<1> QED
  <2>1. slice > 0 BY <1>2, <1>4, <1>5
  <2>2. jl - slice \in Nat /\ cl - 1 \in 0 .. C BY <1>1, <1>4, <1>7
  <2>3. Even(j, C, jl - slice, cl - 1) BY <2>2, <1>7, <1>8, <1>9 DEF Even, a
  <2> QED BY <2>1, <2>3, <1>4, <1>7 DEF slice

\* How far two pools with parts cut evenly can get out of step, when their slices
\* are as far along as the credit of the round robin lets them be.
LEMMA SlicesInStep ==
  ASSUME NEW M \in Nat, M >= 8,
         NEW j1 \in Nat, NEW j2 \in Nat, NEW g1 \in Nat, NEW g2 \in Nat,
         NEW C1 \in 1 .. 7, NEW C2 \in 1 .. 7, NEW x1 \in 0 .. C1, NEW x2 \in 0 .. C2,
         j1 <= M * C1, j2 <= M * C2,
         g1 * C1 <= x1 * (j1 + C1 - x1), x2 * j2 <= g2 * C2,
         8 * (C2 * x1 - C1 * x2) <= 5 * (C1 + C2)
  PROVE  g1 * j2 - g2 * j1 + (j1 + j2) <= M * (j1 + j2)
<1> DEFINE K == C2 * x1 - C1 * x2
           D == C1 * C2
           P == j1 * j2
           F == j1 + j2
           G == g1 * j2 - g2 * j1
<1>1. /\ K \in Int /\ D \in Nat /\ P \in Nat /\ F \in Nat /\ G \in Int /\ D > 0
      /\ D * F \in Nat /\ M * (D * F) \in Nat /\ D * j2 \in Nat
  OBVIOUS
<1>2. 4 * (C2 * (x1 * (C1 - x1)) * j2) <= 7 * (D * j2)
  <2>1. 4 * (x1 * (C1 - x1)) <= 7 * C1
    <3>1. /\ C1 = 1 \/ C1 = 2 \/ C1 = 3 \/ C1 = 4 \/ C1 = 5 \/ C1 = 6 \/ C1 = 7
          /\ x1 = 0 \/ x1 = 1 \/ x1 = 2 \/ x1 = 3 \/ x1 = 4 \/ x1 = 5 \/ x1 = 6 \/ x1 = 7
      OBVIOUS
    <3> QED BY <3>1
  <2>2. C2 * (4 * (x1 * (C1 - x1))) <= C2 * (7 * C1) BY <2>1
  <2>3. (C2 * (4 * (x1 * (C1 - x1)))) * j2 <= (C2 * (7 * C1)) * j2 BY <2>2
  <2>4. /\ (C2 * (4 * (x1 * (C1 - x1)))) * j2 = 4 * (C2 * (x1 * (C1 - x1)) * j2)
        /\ (C2 * (7 * C1)) * j2 = 7 * (D * j2)
    OBVIOUS
  <2> QED BY <2>3, <2>4
<1>3. D * G <= K * P + C2 * (x1 * (C1 - x1)) * j2
  <2>1. (C2 * j2) * (g1 * C1) <= (C2 * j2) * (x1 * (j1 + C1 - x1)) OBVIOUS
  <2>2. (C1 * j1) * (x2 * j2) <= (C1 * j1) * (g2 * C2) OBVIOUS
  <2>3. D * G = (C2 * j2) * (g1 * C1) - (C1 * j1) * (g2 * C2) OBVIOUS
  <2>4. (C2 * j2) * (x1 * (j1 + C1 - x1)) - (C1 * j1) * (x2 * j2)
          = K * P + C2 * (x1 * (C1 - x1)) * j2
    OBVIOUS
  <2>5. /\ (C2 * j2) * (g1 * C1) \in Int /\ (C2 * j2) * (x1 * (j1 + C1 - x1)) \in Int
        /\ (C1 * j1) * (x2 * j2) \in Int /\ (C1 * j1) * (g2 * C2) \in Int
    OBVIOUS
  <2> QED BY <2>1, <2>2, <2>3, <2>4, <2>5
<1>4. (C1 + C2) * P <= M * (D * F)
  <2>1. (C1 * j1) * j2 <= (C1 * j1) * (M * C2) OBVIOUS
  <2>2. (C2 * j2) * j1 <= (C2 * j2) * (M * C1) OBVIOUS
  <2>3. (C1 + C2) * P = (C1 * j1) * j2 + (C2 * j2) * j1 OBVIOUS
  <2>4. M * (D * F) = (C1 * j1) * (M * C2) + (C2 * j2) * (M * C1) OBVIOUS
  <2>5. /\ (C1 * j1) * j2 \in Nat /\ (C1 * j1) * (M * C2) \in Nat
        /\ (C2 * j2) * j1 \in Nat /\ (C2 * j2) * (M * C1) \in Nat
    OBVIOUS
  <2> QED BY <2>1, <2>2, <2>3, <2>4, <2>5
<1>5. 8 * (K * P) <= 5 * (M * (D * F))
  <2>1. (8 * K) * P <= (5 * (C1 + C2)) * P BY <1>1
  <2>2. (8 * K) * P = 8 * (K * P) /\ (5 * (C1 + C2)) * P = 5 * ((C1 + C2) * P) BY <1>1
  <2>3. K * P \in Int /\ (C1 + C2) * P \in Int BY <1>1
  <2> HIDE DEF K, P, D, F
  <2> QED BY <2>1, <2>2, <2>3, <1>1, <1>4
<1>6. D * j2 <= D * F BY <1>1
<1>7. 8 * (D * G) <= 5 * (M * (D * F)) + 14 * (D * F)
  <2> DEFINE E == C2 * (x1 * (C1 - x1)) * j2
             KP == K * P
             DG == D * G
             DF == D * F
             MDF == M * DF
             Dj == D * j2
  <2>1. E \in Int /\ KP \in Int /\ DG \in Int BY <1>1
  <2>2. 4 * E <= 7 * Dj /\ DG <= KP + E /\ 8 * KP <= 5 * MDF /\ Dj <= DF
    BY <1>2, <1>3, <1>5, <1>6
  <2>3. DF \in Nat /\ MDF \in Nat /\ Dj \in Nat BY <1>1
  <2> HIDE DEF E, KP, DG, DF, MDF, Dj
  <2>4. 8 * DG <= 5 * MDF + 14 * DF BY <2>1, <2>2, <2>3
  <2> QED BY <2>4 DEF DG, DF, MDF
<1>8. D * (G + F) <= D * (M * F)
  <2> DEFINE DF == D * F
             MDF == M * DF
             DG == D * G
  <2>1. D * (G + F) = DG + DF /\ D * (M * F) = MDF BY <1>1
  <2>2. 8 * DF <= MDF BY <1>1
  <2>3. DG \in Int /\ DF \in Nat /\ MDF \in Nat BY <1>1
  <2>4. 8 * DG <= 5 * MDF + 14 * DF BY <1>7
  <2> HIDE DEF DF, MDF, DG, D, G, F
  <2>5. DG + DF <= MDF BY <2>2, <2>3, <2>4
  <2> QED BY <2>1, <2>5
<1>9. G + F <= M * F
  <2>1. ASSUME NEW d \in Nat, d > 0, NEW x \in Int, NEW y \in Int, d * x <= d * y
        PROVE  x <= y
    <3>1. ASSUME x >= y + 1 PROVE FALSE
      <4>1. d * x >= d * (y + 1) BY <3>1, <2>1
      <4>2. d * (y + 1) = d * y + d BY <2>1
      <4>3. d * x \in Int /\ d * y \in Int BY <2>1
      <4> QED BY <4>1, <4>2, <4>3, <2>1
    <3> QED BY <3>1
  <2>2. G + F \in Int /\ M * F \in Int BY <1>1
  <2> HIDE DEF D, G, F
  <2> QED BY <2>1, <2>2, <1>1, <1>8
<1> QED BY <1>9

\* What that means for the weights, whose parts of the frame are fair.
LEMMA WeightsInStep ==
  ASSUME NEW M \in Nat, NEW w1 \in Nat, NEW w2 \in Nat,
         NEW j1 \in Nat, NEW j2 \in Nat, j1 + j2 > 0,
         NEW g1 \in Nat, NEW g2 \in Nat, g1 <= j1, g2 <= j2,
         (j1 + j2) * w2 - j2 * (w1 + w2) < w1 + w2,
         j1 * (w1 + w2) - (j1 + j2) * w1 < w1 + w2,
         g1 * j2 - g2 * j1 + (j1 + j2) <= M * (j1 + j2)
  PROVE  g1 * w2 - g2 * w1 <= M * (w1 + w2)
<1> DEFINE F == j1 + j2
           W == w1 + w2
           A == g1 * w2 - g2 * w1
<1>1. F \in Nat /\ F > 0 /\ W \in Nat /\ A \in Int OBVIOUS
<1>2. g1 * (F * w2) <= g1 * ((j2 + 1) * W)
  <2>1. F * w2 <= (j2 + 1) * W
    <3>1. (j2 + 1) * W = j2 * W + W BY <1>1
    <3>2. F * w2 \in Nat /\ j2 * W \in Nat BY <1>1
    <3> HIDE DEF F, W
    <3> QED BY <3>1, <3>2, <1>1 DEF F, W
  <2> QED BY <2>1, <1>1
<1>3. g2 * ((j1 - 1) * W) <= g2 * (F * w1)
  <2>1. (j1 - 1) * W <= F * w1
    <3>1. (j1 - 1) * W = j1 * W - W BY <1>1
    <3>2. F * w1 \in Nat /\ j1 * W \in Nat BY <1>1
    <3> HIDE DEF F, W
    <3> QED BY <3>1, <3>2, <1>1 DEF F, W
  <2> QED BY <2>1, <1>1
<1>4. F * A = g1 * (F * w2) - g2 * (F * w1) BY <1>1
<1>5. g1 * ((j2 + 1) * W) - g2 * ((j1 - 1) * W) = W * (g1 * j2 - g2 * j1 + (g1 + g2)) BY <1>1
<1>6. W * (g1 * j2 - g2 * j1 + (g1 + g2)) <= W * (M * F)
  <2>1. g1 * j2 - g2 * j1 + (g1 + g2) <= M * F
    <3>1. g1 * j2 - g2 * j1 \in Int /\ M * F \in Int OBVIOUS
    <3> DEFINE G == g1 * j2 - g2 * j1
               MF == M * F
    <3>2. G \in Int /\ MF \in Int /\ G + (j1 + j2) <= MF BY <3>1
    <3> HIDE DEF G, MF
    <3>3. G + (g1 + g2) <= MF BY <3>2
    <3> QED BY <3>3 DEF G, MF
  <2>2. g1 * j2 - g2 * j1 + (g1 + g2) \in Int /\ M * F \in Int OBVIOUS
  <2> QED BY <2>1, <2>2, <1>1
<1>7. F * A <= F * (M * W)
  <2>1. W * (M * F) = F * (M * W) BY <1>1
  <2>2. /\ g1 * (F * w2) \in Int /\ g1 * ((j2 + 1) * W) \in Int /\ g2 * ((j1 - 1) * W) \in Int
        /\ g2 * (F * w1) \in Int /\ W * (M * F) \in Int
        /\ W * (g1 * j2 - g2 * j1 + (g1 + g2)) \in Int
    BY <1>1
  <2> QED BY <2>1, <2>2, <1>2, <1>3, <1>4, <1>5, <1>6
<1>8. A <= M * W
  <2>1. M * W \in Int BY <1>1
  <2>2. ASSUME A >= M * W + 1 PROVE FALSE
    <3>1. F * A >= F * (M * W + 1) BY <2>1, <2>2, <1>1
    <3>2. F * (M * W + 1) = F * (M * W) + F BY <1>1
    <3>3. F * (M * W) \in Int /\ F * A \in Int BY <1>1
    <3> QED BY <3>1, <3>2, <3>3, <1>1, <1>7
  <2> QED BY <2>1, <2>2, <1>1
<1> QED BY <1>8

\* Smooth weighted round robin over two pools whose weights are the slices they
\* have left: where it can be while both have some, from seven or eight slices in
\* all, as slices left and the first pool's credit.
Turns(C1, C2, c1, c2, s) ==
    \/ C1 = 1 /\ C2 = 6 /\ <<c1, c2, s>> \in {<<1, 6, 0>>, <<1, 5, 1>>, <<1, 4, 2>>}
    \/ C1 = 2 /\ C2 = 5 /\ <<c1, c2, s>> \in {<<2, 5, 0>>, <<2, 4, 2>>, <<1, 4, -2>>,
          <<1, 3, -1>>, <<1, 2, 0>>, <<1, 1, 1>>}
    \/ C1 = 3 /\ C2 = 4 /\ <<c1, c2, s>> \in {<<3, 4, 0>>, <<3, 3, 3>>, <<2, 3, 0>>,
          <<2, 2, 2>>, <<1, 2, 0>>, <<1, 1, 1>>}
    \/ C1 = 4 /\ C2 = 3 /\ <<c1, c2, s>> \in {<<4, 3, 0>>, <<3, 3, -3>>, <<3, 2, 0>>,
          <<2, 2, -2>>, <<2, 1, 0>>, <<1, 1, -1>>}
    \/ C1 = 5 /\ C2 = 2 /\ <<c1, c2, s>> \in {<<5, 2, 0>>, <<4, 2, -2>>, <<4, 1, 2>>,
          <<3, 1, 1>>, <<2, 1, 0>>, <<1, 1, -1>>}
    \/ C1 = 6 /\ C2 = 1 /\ <<c1, c2, s>> \in {<<6, 1, 0>>, <<5, 1, -1>>, <<4, 1, -2>>}
    \/ C1 = 1 /\ C2 = 7 /\ <<c1, c2, s>> \in {<<1, 7, 0>>, <<1, 6, 1>>, <<1, 5, 2>>}
    \/ C1 = 2 /\ C2 = 6 /\ <<c1, c2, s>> \in {<<2, 6, 0>>, <<2, 5, 2>>, <<1, 5, -3>>,
          <<1, 4, -2>>, <<1, 3, -1>>, <<1, 2, 0>>, <<1, 1, 1>>}
    \/ C1 = 3 /\ C2 = 5 /\ <<c1, c2, s>> \in {<<3, 5, 0>>, <<3, 4, 3>>, <<2, 4, -1>>,
          <<2, 3, 1>>, <<1, 3, -2>>, <<1, 2, -1>>, <<1, 1, 0>>}
    \/ C1 = 4 /\ C2 = 4 /\ <<c1, c2, s>> \in {<<4, 4, 0>>, <<3, 4, -4>>, <<3, 3, -1>>,
          <<3, 2, 2>>, <<2, 2, 0>>, <<1, 2, -2>>, <<1, 1, -1>>}
    \/ C1 = 5 /\ C2 = 3 /\ <<c1, c2, s>> \in {<<5, 3, 0>>, <<4, 3, -3>>, <<4, 2, 1>>,
          <<3, 2, -1>>, <<3, 1, 2>>, <<2, 1, 1>>, <<1, 1, 0>>}
    \/ C1 = 6 /\ C2 = 2 /\ <<c1, c2, s>> \in {<<6, 2, 0>>, <<5, 2, -2>>, <<5, 1, 3>>,
          <<4, 1, 2>>, <<3, 1, 1>>, <<2, 1, 0>>, <<1, 1, -1>>}
    \/ C1 = 7 /\ C2 = 1 /\ <<c1, c2, s>> \in {<<7, 1, 0>>, <<6, 1, -1>>, <<5, 1, -2>>,
          <<4, 1, -3>>}

\* The slices given to either pool are about as far along as the other's.
Level(C1, C2, c1, c2) == /\ 8 * (C1 * c2 - C2 * c1) <= 5 * (C1 + C2)
                         /\ 8 * (C2 * c1 - C1 * c2) <= 5 * (C1 + C2)

\* Of C1 and C2 slices c1 and c2 are left; s is the first pool's credit.
RoundRobin(C1, C2, c1, c2, s) ==
    Level(C1, C2, c1, c2) /\ (c1 > 0 /\ c2 > 0 => Turns(C1, C2, c1, c2, s))

\* A new frame begins a course of the table, and a turn goes on to its next line.
LEMMA RoundBegins ==
  ASSUME NEW C1 \in 1 .. 7, NEW C2 \in 1 .. 7, C1 + C2 \in {7, 8}
  PROVE  RoundRobin(C1, C2, C1, C2, 0)
<1>1. C1 = 1 \/ C1 = 2 \/ C1 = 3 \/ C1 = 4 \/ C1 = 5 \/ C1 = 6 \/ C1 = 7 OBVIOUS
<1>2. C2 = 7 - C1 \/ C2 = 8 - C1 OBVIOUS
<1>3. Turns(C1, C2, C1, C2, 0) BY <1>1, <1>2 DEF Turns
<1>4. C1 * C2 = C2 * C1 OBVIOUS
<1> QED BY <1>3, <1>4 DEF RoundRobin, Level

LEMMA RoundGoesOn ==
  ASSUME NEW C1 \in 0 .. 7, NEW C2 \in 0 .. 7, NEW c1 \in 0 .. C1, NEW c2 \in 0 .. C2,
         NEW s \in Int, RoundRobin(C1, C2, c1, c2, s)
  PROVE  /\ c1 > 0 /\ c2 > 0 /\ s + c1 >= c2 - s => RoundRobin(C1, C2, c1 - 1, c2, s - c2)
         /\ c1 > 0 /\ c2 > 0 /\ s + c1 <= c2 - s /\ s + c1 # c2 - s
              => RoundRobin(C1, C2, c1, c2 - 1, s + c1)
         /\ c1 > 0 /\ c2 = 0 => RoundRobin(C1, C2, c1 - 1, c2, s)
         /\ c1 = 0 /\ c2 > 0 => RoundRobin(C1, C2, c1, c2 - 1, s)
<1>1. CASE c1 > 0 /\ c2 > 0
  <2>1. Turns(C1, C2, c1, c2, s) BY <1>1 DEF RoundRobin
  <2> QED BY <2>1, <1>1, SMTT(60) DEF Turns, RoundRobin, Level
<1>2. CASE c1 > 0 /\ c2 = 0
  <2>1. 8 * (C2 * c1) <= 5 * (C1 + C2) BY <1>2 DEF RoundRobin, Level
  <2>2. C2 * (c1 - 1) <= C2 * c1 OBVIOUS
  <2>3. C1 * c2 = 0 BY <1>2
  <2>4. C2 * c1 \in Nat /\ C2 * (c1 - 1) \in Nat BY <1>2
  <2>5. Level(C1, C2, c1 - 1, c2) BY <2>1, <2>2, <2>3, <2>4 DEF Level
  <2> QED BY <2>5, <1>2 DEF RoundRobin
<1>3. CASE c1 = 0 /\ c2 > 0
  <2>1. 8 * (C1 * c2) <= 5 * (C1 + C2) BY <1>3 DEF RoundRobin, Level
  <2>2. C1 * (c2 - 1) <= C1 * c2 OBVIOUS
  <2>3. C2 * c1 = 0 BY <1>3
  <2>4. C1 * c2 \in Nat /\ C1 * (c2 - 1) \in Nat BY <1>3
  <2>5. Level(C1, C2, c1, c2 - 1) BY <2>1, <2>2, <2>3, <2>4 DEF Level
  <2> QED BY <2>5, <1>3 DEF RoundRobin
<1> QED BY <1>1, <1>2, <1>3

\* What a pool was given lies between even slices and slices one job longer.
LEMMA EvenBounds ==
  ASSUME NEW j \in Nat, NEW C \in Nat, C > 0, NEW jl, NEW cl, Even(j, C, jl, cl)
  PROVE  /\ (j - jl) * C <= (C - cl) * (j + C - (C - cl))
         /\ (C - cl) * j <= (j - jl) * C
<1> DEFINE a == j \div C
           b == j % C
           x == C - cl
           g == j - jl
<1>1. /\ jl \in Nat /\ cl \in Nat /\ x \in Nat /\ g \in Nat
      /\ a * cl <= jl /\ g <= (a + 1) * x /\ jl * C <= cl * j
  BY DEF Even
<1>2. a \in Nat /\ b \in Nat /\ j = C * a + b /\ b < C BY DivMod
<1>3. x * j <= g * C
  <2>1. x * j = C * j - cl * j /\ g * C = C * j - jl * C BY <1>1
  <2>2. C * j \in Nat /\ cl * j \in Nat /\ jl * C \in Nat BY <1>1
  <2> QED BY <2>1, <2>2, <1>1
<1> HIDE DEF a, b
<1>4. CASE b <= x
  <2>1. g * C <= (j - a * cl) * C
    <3>1. g <= j - a * cl /\ j - a * cl \in Int BY <1>1, <1>2
    <3> QED BY <3>1, <1>1
  <2>2. (j - a * cl) * C = x * j + b * cl
    <3>1. (j - a * cl) * C = j * C - (C * a) * cl BY <1>1, <1>2
    <3>2. (C * a) * cl = (j - b) * cl BY <1>2
    <3>3. (j - b) * cl = j * cl - b * cl /\ x * j = j * C - j * cl BY <1>1, <1>2
    <3>4. j * C \in Nat /\ b * cl \in Nat /\ j * cl \in Nat BY <1>1, <1>2
    <3> QED BY <3>1, <3>2, <3>3, <3>4
  <2>3. b * cl <= x * cl BY <1>4, <1>1, <1>2
  <2>4. x * (j + C - x) = x * j + x * cl BY <1>1
  <2>5. /\ g * C \in Int /\ (j - a * cl) * C \in Int /\ x * j \in Int /\ b * cl \in Int
        /\ x * cl \in Int
    BY <1>1, <1>2
  <2>6. g * C <= x * (j + C - x) BY <2>1, <2>2, <2>3, <2>4, <2>5
  <2> QED BY <2>6, <1>3
<1>5. CASE b > x
  <2>1. g * C <= ((a + 1) * x) * C BY <1>1, <1>2
  <2>2. ((a + 1) * x) * C = x * j + x * (C - b)
    <3>1. ((a + 1) * x) * C = x * (C * a) + x * C BY <1>1, <1>2
    <3>2. x * (C * a) = x * (j - b) BY <1>2
    <3>3. x * (j - b) = x * j - x * b /\ x * (C - b) = x * C - x * b BY <1>1, <1>2
    <3>4. x * j \in Nat /\ x * b \in Nat /\ x * C \in Nat BY <1>1, <1>2
    <3> QED BY <3>1, <3>2, <3>3, <3>4
  <2>3. x * (C - b) <= x * (C - x) BY <1>5, <1>1, <1>2
  <2>4. x * (j + C - x) = x * j + x * (C - x) BY <1>1
  <2>5. /\ g * C \in Int /\ ((a + 1) * x) * C \in Int /\ x * j \in Int /\ x * (C - b) \in Int
        /\ x * (C - x) \in Int
    BY <1>1, <1>2
  <2>6. g * C <= x * (j + C - x) BY <2>1, <2>2, <2>3, <2>4, <2>5
  <2> QED BY <2>6, <1>3
<1> QED BY <1>4, <1>5, <1>1, <1>2

SchedTypes ==
    /\ weights \in Weightings /\ readyPools \in SUBSET {1, 2}
    /\ frameWeight \in [{1, 2} -> Nat]
    /\ sliceOf \in {0, 1, 2} /\ sliceJobs \in Nat /\ (sliceOf = 0 => sliceJobs = 0)
    /\ served \in [{1, 2} -> Nat] /\ cutShort \in BOOLEAN

\* A frame for the weights w of which f is left.
FrameInv(w, f) ==
    LET part == Apportion(w) IN
    /\ f.jobs \in [{1, 2} -> Nat] /\ f.chunks \in [{1, 2} -> Nat]
    /\ \A p \in {1, 2} : Even(part[p], Chunks(part[p]), f.jobs[p], f.chunks[p])
    /\ RoundRobin(Chunks(part[1]), Chunks(part[2]), f.chunks[1], f.chunks[2], f.smooth[1])
    /\ f.smooth \in [{1, 2} -> Int] /\ f.smooth[1] + f.smooth[2] = 0

Left == [jobs |-> jobsLeft, chunks |-> chunksLeft, smooth |-> smooth]

\* What a pool has been sent of its slices, and will be when the last one is over.
PendingJobs(p) == IF sliceOf = p THEN sliceJobs ELSE 0
Counts == \A p \in {1, 2} : served[p] + PendingJobs(p) + jobsLeft[p] = Apportion(frameWeight)[p]
InStep == LET whole == frameWeight[1] + frameWeight[2] IN
    /\ (served[1] + PendingJobs(1)) * frameWeight[2] - served[2] * frameWeight[1]
         <= SliceMaxJobs * whole
    /\ (served[2] + PendingJobs(2)) * frameWeight[1] - served[1] * frameWeight[2]
         <= SliceMaxJobs * whole

NoFrameYet == frameWeight = Zero /\ jobsLeft = Zero /\ served = Zero /\ sliceOf = 0

\* Unless a slice was given up, every job of the frame is sent, pending or left, and
\* the pools stay in step counting the slice that is pending.
SchedInv ==
    /\ SchedTypes
    /\ NoFrameYet \/ /\ frameWeight[1] + frameWeight[2] > 0
                     /\ FrameInv(frameWeight, Left)
                     /\ ~cutShort => Counts /\ InStep

\* A pool has slices left as long as it has jobs left.
LEMMA SlicesAndJobs ==
  ASSUME NEW w \in [{1, 2} -> Nat], w[1] + w[2] > 0, NEW f, FrameInv(w, f), NEW p \in {1, 2}
  PROVE  /\ f.jobs[p] > 0 <=> f.chunks[p] > 0
         /\ f.jobs[p] > 0 => w[p] > 0
<1> DEFINE j == Apportion(w)[p]
           C == Chunks(j)
           jl == f.jobs[p]
           cl == f.chunks[p]
<1>1. j \in Nat /\ j <= FrameJobs /\ (w[p] > 0 <=> j > 0)
  <2>1. FairParts(w, Apportion(w)) BY ApportionIsFair
  <2> DEFINE part == Apportion(w)
  <2>2. part[1] \in Nat /\ part[2] \in Nat /\ part[1] + part[2] = FrameJobs
    BY <2>1 DEF FairParts
  <2>3. w[p] > 0 <=> part[p] > 0 BY <2>1 DEF FairParts
  <2> HIDE DEF part
  <2>4. part[p] \in Nat /\ part[p] <= FrameJobs BY <2>2, SchedulerAssumption
  <2> QED BY <2>3, <2>4 DEF part
<1>2. /\ C \in 0 .. 7 /\ C <= j /\ j <= SliceMaxJobs * C BY <1>1, ChunksHold
<1>3. Even(j, C, jl, cl) BY DEF FrameInv
<1> HIDE DEF j, C, jl, cl
<1>4. jl \in 0 .. j /\ cl \in 0 .. C BY <1>3 DEF Even
<1>5. CASE C = 0
  <2>1. j = 0 BY <1>1, <1>2, <1>5, SchedulerAssumption
  <2> QED BY <2>1, <1>1, <1>4, <1>5 DEF jl, cl
<1>6. CASE C > 0 /\ cl = 0
  <2>1. jl * C <= 0 BY <1>1, <1>3, <1>6 DEF Even
  <2>2. jl = 0
    <3>1. ASSUME jl >= 1 PROVE FALSE
      <4>1. jl * C >= C BY <3>1, <1>1, <1>2, <1>4
      <4>2. jl * C \in Nat BY <1>1, <1>2, <1>4
      <4> QED BY <2>1, <4>1, <4>2, <1>2, <1>6
    <3> QED BY <3>1, <1>1, <1>4
  <2> QED BY <2>2, <1>6 DEF jl, cl
<1>7. CASE C > 0 /\ cl > 0
  <2>1. LET slice == (jl + cl - 1) \div cl IN slice \in Nat /\ slice > 0 /\ slice <= jl
    BY <1>1, <1>2, <1>3, <1>7, SliceIsEven
  <2>2. jl > 0 BY <2>1, <1>1, <1>4
  <2> QED BY <2>2, <1>1, <1>4, <1>7 DEF jl, cl
<1> QED BY <1>2, <1>4, <1>5, <1>6, <1>7

\* The frame that ChooseSlice goes on with, and the one it builds.
LEMMA NewFrameStands ==
  ASSUME NEW w \in [{1, 2} -> Nat], w[1] + w[2] > 0,
         NEW f, f = [jobs |-> Apportion(w),
                     chunks |-> [p \in {1, 2} |-> Chunks(Apportion(w)[p])],
                     smooth |-> [p \in {1, 2} |-> 0]]
  PROVE  FrameInv(w, f)
<1> DEFINE part == Apportion(w)
           C(p) == Chunks(part[p])
<1>0. FairParts(w, part) BY ApportionIsFair
<1> HIDE DEF part
<1>1. /\ part \in [{1, 2} -> Nat] /\ part[1] + part[2] = FrameJobs
      /\ part[1] \in Nat /\ part[2] \in Nat /\ (w[1] = 0 => part[1] = 0) /\ (w[2] = 0 => part[2] = 0)
  BY <1>0 DEF FairParts
<1>2. ASSUME NEW p \in {1, 2}
      PROVE  /\ C(p) \in 0 .. 7 /\ part[p] <= SliceMaxJobs * C(p)
             /\ SliceMaxJobs * C(p) < part[p] + SliceMaxJobs /\ C(p) <= part[p]
  <2>1. part[p] \in Nat /\ part[p] <= FrameJobs BY <1>1, SchedulerAssumption
  <2> QED BY <2>1, ChunksHold
<1>3. ASSUME NEW p \in {1, 2} PROVE Even(part[p], C(p), part[p], C(p))
  <2> DEFINE j == part[p]
             D == C(p)
             a == j \div D
  <2>1. j \in Nat /\ D \in Nat BY <1>1, <1>2
  <2>2. CASE D > 0
    <3>1. a \in Nat /\ j % D \in Nat /\ j = D * a + (j % D) BY <2>1, <2>2, DivMod
    <3> HIDE DEF j, D
    <3>2. a * D <= j BY <2>1, <3>1
    <3>4. j * D <= D * j BY <2>1
    <3> HIDE DEF a
    <3>5. Even(j, D, j, D) BY <2>1, <2>2, <3>1, <3>2, <3>4 DEF Even, a
    <3> QED BY <3>5 DEF j, D
  <2>3. CASE D = 0 BY <2>1, <2>3 DEF Even
  <2> QED BY <2>1, <2>2, <2>3
<1>4. RoundRobin(C(1), C(2), C(1), C(2), 0)
  <2> DEFINE C1 == C(1)
             C2 == C(2)
  <2>1. C1 \in 0 .. 7 /\ C2 \in 0 .. 7 BY <1>2
  <2>2. CASE C1 = 0 \/ C2 = 0
    <3> HIDE DEF C
    <3> QED BY <2>1, <2>2 DEF RoundRobin, Level
  <2>3. CASE C1 > 0 /\ C2 > 0
    <3>1. C1 + C2 \in {7, 8}
      <4> DEFINE M == SliceMaxJobs
      <4>1. M \in Nat /\ M >= 8 /\ FrameJobs \in Nat /\ 6 * M < FrameJobs /\ FrameJobs <= 7 * M
        BY SchedulerAssumption
      <4>2. /\ part[1] <= M * C1 /\ part[2] <= M * C2
            /\ M * C1 < part[1] + M /\ M * C2 < part[2] + M
        BY <1>2
      <4>3. M * C1 \in Nat /\ M * C2 \in Nat /\ M * (C1 + C2) = M * C1 + M * C2 BY <2>1, <4>1
      <4> HIDE DEF M, C
      <4>4. M * (C1 + C2) > 6 * M /\ M * (C1 + C2) < 9 * M
        <5>1. ASSUME NEW x \in Nat, NEW y \in Nat, part[1] <= x, part[2] <= y,
                     x < part[1] + M, y < part[2] + M
              PROVE  x + y > 6 * M /\ x + y < 9 * M
          BY <5>1, <1>1, <4>1
        <5> QED BY <5>1, <4>2, <4>3
      <4>5. C1 + C2 > 6
        <5>1. ASSUME C1 + C2 <= 6 PROVE FALSE
          <6>1. M * (C1 + C2) <= M * 6 BY <5>1, <2>1, <4>1
          <6> QED BY <6>1, <4>1, <4>4, <2>1
        <5> QED BY <5>1, <2>1
      <4>6. C1 + C2 < 9
        <5>1. ASSUME C1 + C2 >= 9 PROVE FALSE
          <6>1. M * (C1 + C2) >= M * 9 BY <5>1, <2>1, <4>1
          <6> QED BY <6>1, <4>1, <4>4, <2>1
        <5> QED BY <5>1, <2>1
      <4> QED BY <4>5, <4>6, <2>1
    <3> HIDE DEF C
    <3> QED BY <3>1, <2>1, <2>3, RoundBegins
  <2> QED BY <2>1, <2>2, <2>3
<1>5. \A p \in {1, 2} : f.chunks[p] = C(p) /\ f.jobs[p] = part[p] /\ f.smooth[p] = 0
  BY DEF part
<1>6. f.chunks \in [{1, 2} -> Nat] /\ f.jobs \in [{1, 2} -> Nat] /\ f.smooth \in [{1, 2} -> Int]
  <2>1. \A p \in {1, 2} : C(p) \in Nat BY <1>2
  <2>2. f.jobs = part /\ f.chunks = [p \in {1, 2} |-> C(p)] BY DEF part
  <2> HIDE DEF C
  <2> QED BY <2>1, <2>2, <1>1
<1> HIDE DEF C
<1>7. /\ \A p \in {1, 2} : Even(part[p], C(p), f.jobs[p], f.chunks[p])
      /\ RoundRobin(C(1), C(2), f.chunks[1], f.chunks[2], f.smooth[1])
  BY <1>3, <1>4, <1>5
<1>8. f.smooth[1] + f.smooth[2] = 0 BY <1>5
<1> QED BY <1>6, <1>7, <1>8 DEF FrameInv, part, C

\* Neither pool is more than a slice ahead of its part, counting the slices given.
LEMMA FrameInStep ==
  ASSUME NEW w \in [{1, 2} -> Nat], w[1] + w[2] > 0, NEW f, FrameInv(w, f),
         NEW g \in [{1, 2} -> Nat],
         \A p \in {1, 2} : g[p] + f.jobs[p] = Apportion(w)[p]
  PROVE  /\ g[1] * w[2] - g[2] * w[1] <= SliceMaxJobs * (w[1] + w[2])
         /\ g[2] * w[1] - g[1] * w[2] <= SliceMaxJobs * (w[1] + w[2])
<1> DEFINE part == Apportion(w)
           C(p) == Chunks(part[p])
           x(p) == C(p) - f.chunks[p]
           M == SliceMaxJobs
<1>0. FairParts(w, part) BY ApportionIsFair
<1>1. /\ part[1] \in Nat /\ part[2] \in Nat /\ part[1] + part[2] = FrameJobs
      /\ w[1] \in Nat /\ w[2] \in Nat /\ g[1] \in Nat /\ g[2] \in Nat
      /\ M \in Nat /\ M >= 8 /\ FrameJobs \in Nat /\ FrameJobs > 0
      /\ (w[1] > 0 <=> part[1] > 0) /\ (w[2] > 0 <=> part[2] > 0)
  <2>1. part[1] \in Nat /\ part[2] \in Nat BY <1>0 DEF FairParts
  <2> QED BY <2>1, <1>0, SchedulerAssumption DEF FairParts
<1>2. ASSUME NEW p \in {1, 2}
      PROVE  /\ C(p) \in 0 .. 7 /\ part[p] <= M * C(p)
             /\ f.chunks[p] \in 0 .. C(p) /\ x(p) \in 0 .. C(p)
             /\ f.jobs[p] \in Nat /\ g[p] = part[p] - f.jobs[p] /\ g[p] <= part[p]
             /\ part[p] > 0 => /\ C(p) > 0
                               /\ g[p] * C(p) <= x(p) * (part[p] + C(p) - x(p))
                               /\ x(p) * part[p] <= g[p] * C(p)
  <2> DEFINE j == part[p]
             jl == f.jobs[p]
             cl == f.chunks[p]
             D == C(p)
  <2>1. j \in Nat /\ j <= FrameJobs /\ g[p] \in Nat
    <3> HIDE DEF part
    <3> QED BY <1>1
  <2>2. D \in 0 .. 7 /\ j <= M * D BY <2>1, ChunksHold
  <2>3. Even(j, D, jl, cl) BY DEF FrameInv
  <2>4. g[p] + jl = j OBVIOUS
  <2> HIDE DEF j, jl, cl, D
  <2>5. jl \in 0 .. j /\ cl \in 0 .. D BY <2>3 DEF Even
  <2>6. D - cl \in 0 .. D BY <2>2, <2>5
  <2>7. g[p] = j - jl /\ g[p] <= j BY <2>1, <2>4, <2>5
  <2>8. j > 0 => D > 0
    <3>1. ASSUME D = 0 PROVE j = 0
      <4>1. M * D = 0 BY <3>1, <1>1
      <4> QED BY <4>1, <2>1, <2>2
    <3> QED BY <3>1, <2>1, <2>2
  <2>9. D > 0 => /\ (j - jl) * D <= (D - cl) * (j + D - (D - cl))
                 /\ (D - cl) * j <= (j - jl) * D
    <3>1. D \in Nat /\ j \in Nat BY <2>1, <2>2
    <3> QED BY <2>3, <3>1, EvenBounds
  <2>10. j > 0 => /\ D > 0 /\ g[p] * D <= (D - cl) * (j + D - (D - cl))
                  /\ (D - cl) * j <= g[p] * D
    BY <2>7, <2>8, <2>9
  <2> QED BY <2>1, <2>2, <2>5, <2>6, <2>7, <2>10 DEF j, jl, cl, D
<1>3. CASE w[1] = 0 \/ w[2] = 0
  <2>1. \A p \in {1, 2} : w[p] = 0 => g[p] = 0
    <3>1. ASSUME NEW p \in {1, 2}, w[p] = 0 PROVE g[p] = 0
      <4>1. part[p] = 0 /\ g[p] \in Nat /\ g[p] <= part[p]
        <5>1. g[p] <= part[p] BY <1>2
        <5> HIDE DEF part
        <5> QED BY <3>1, <1>1, <5>1
      <4> HIDE DEF part
      <4> QED BY <4>1
    <3> QED BY <3>1
  <2>2. M * (w[1] + w[2]) \in Nat BY <1>1
  <2>3. CASE w[1] = 0
    <3>1. g[1] = 0 BY <2>1, <2>3
    <3>2. g[1] * w[2] = 0 /\ g[2] * w[1] = 0 BY <1>1, <2>3, <3>1
    <3> QED BY <2>2, <3>2
  <2>4. CASE w[2] = 0
    <3>1. g[2] = 0 BY <2>1, <2>4
    <3>2. g[1] * w[2] = 0 /\ g[2] * w[1] = 0 BY <1>1, <2>4, <3>1
    <3> QED BY <2>2, <3>2
  <2> QED BY <1>3, <2>3, <2>4
<1>4. CASE w[1] > 0 /\ w[2] > 0
  <2> DEFINE j1 == part[1]
             j2 == part[2]
             C1 == C(1)
             C2 == C(2)
             x1 == x(1)
             x2 == x(2)
  <2>1. /\ j1 \in Nat /\ j2 \in Nat /\ j1 > 0 /\ j2 > 0 /\ j1 + j2 = FrameJobs
        /\ g[1] \in Nat /\ g[2] \in Nat /\ w[1] \in Nat /\ w[2] \in Nat
        /\ M \in Nat /\ M >= 8
    <3> HIDE DEF part
    <3> QED BY <1>1, <1>4
  <2>2. /\ C1 \in 1 .. 7 /\ C2 \in 1 .. 7 /\ x1 \in 0 .. C1 /\ x2 \in 0 .. C2
        /\ j1 <= M * C1 /\ j2 <= M * C2 /\ g[1] <= j1 /\ g[2] <= j2
        /\ g[1] * C1 <= x1 * (j1 + C1 - x1) /\ x1 * j1 <= g[1] * C1
        /\ g[2] * C2 <= x2 * (j2 + C2 - x2) /\ x2 * j2 <= g[2] * C2
    <3>1. ASSUME NEW p \in {1, 2}, part[p] > 0
          PROVE  /\ C(p) \in 1 .. 7 /\ x(p) \in 0 .. C(p)
                 /\ part[p] <= M * C(p) /\ g[p] <= part[p]
                 /\ g[p] * C(p) <= x(p) * (part[p] + C(p) - x(p))
                 /\ x(p) * part[p] <= g[p] * C(p)
      <4>1. C(p) \in 0 .. 7 /\ C(p) > 0 BY <3>1, <1>2
      <4>2. C(p) \in 1 .. 7
        <5> HIDE DEF C
        <5> QED BY <4>1
      <4> QED BY <3>1, <4>2, <1>2
    <3> HIDE DEF C, x, part
    <3> QED BY <3>1, <2>1 DEF j1, j2, C1, C2, x1, x2
  <2>3. /\ 8 * (C2 * x1 - C1 * x2) <= 5 * (C1 + C2)
        /\ 8 * (C1 * x2 - C2 * x1) <= 5 * (C2 + C1)
    <3> DEFINE c1 == f.chunks[1]
               c2 == f.chunks[2]
    <3>1. Level(C1, C2, c1, c2) BY DEF FrameInv, RoundRobin
    <3>2. x1 = C1 - c1 /\ x2 = C2 - c2 OBVIOUS
    <3>3. c1 \in Nat /\ c2 \in Nat BY DEF FrameInv
    <3> HIDE DEF C1, C2, x1, x2, c1, c2
    <3>4. /\ C2 * x1 - C1 * x2 = C1 * c2 - C2 * c1
          /\ C1 * x2 - C2 * x1 = C2 * c1 - C1 * c2
      BY <2>2, <3>2, <3>3
    <3> QED BY <2>2, <3>1, <3>4 DEF Level
  <2>4. ASSUME NEW p \in {1, 2}
        PROVE  /\ part[p] * (w[1] + w[2]) - FrameJobs * w[p] < w[1] + w[2]
               /\ FrameJobs * w[p] - part[p] * (w[1] + w[2]) < w[1] + w[2]
    BY <1>0 DEF FairParts
  <2>5. /\ j1 * (w[1] + w[2]) - (j1 + j2) * w[1] < w[1] + w[2]
        /\ (j1 + j2) * w[1] - j1 * (w[1] + w[2]) < w[1] + w[2]
        /\ j2 * (w[1] + w[2]) - (j1 + j2) * w[2] < w[1] + w[2]
        /\ (j1 + j2) * w[2] - j2 * (w[1] + w[2]) < w[1] + w[2]
    <3> HIDE DEF part
    <3> QED BY <2>1, <2>4
  <2> HIDE DEF j1, j2, C1, C2, x1, x2, M
  <2>6. g[1] * j2 - g[2] * j1 + (j1 + j2) <= M * (j1 + j2)
    BY <2>1, <2>2, <2>3, SlicesInStep
  <2>7. g[2] * j1 - g[1] * j2 + (j2 + j1) <= M * (j2 + j1)
    BY <2>1, <2>2, <2>3, SlicesInStep
  <2>8. g[1] * w[2] - g[2] * w[1] <= M * (w[1] + w[2])
    <3>1. j1 + j2 > 0 BY <2>1
    <3> QED BY <2>1, <2>2, <2>5, <2>6, <3>1, WeightsInStep
  <2>9. g[2] * w[1] - g[1] * w[2] <= M * (w[2] + w[1])
    <3>1. w[1] + w[2] = w[2] + w[1] /\ j1 + j2 = j2 + j1 BY <2>1
    <3>2. /\ (j2 + j1) * w[1] - j1 * (w[2] + w[1]) < w[2] + w[1]
          /\ j2 * (w[2] + w[1]) - (j2 + j1) * w[2] < w[2] + w[1]
      BY <2>5, <3>1
    <3>3. j2 + j1 > 0 BY <2>1
    <3> QED BY <2>1, <2>2, <2>7, <3>2, <3>3, WeightsInStep
  <2>10. w[1] + w[2] = w[2] + w[1] BY <2>1
  <2> QED BY <2>8, <2>9, <2>10 DEF M
<1> QED BY <1>1, <1>3, <1>4

\* One turn of the round robin: of the pools that have slices left, next is the one
\* of the most credit, and g is what is left of f when its slice is taken.
Turn(f, able, gained, next, slice, g) ==
    /\ able \in SUBSET {1, 2} /\ able = {p \in {1, 2} : f.chunks[p] > 0}
    /\ gained = [p \in {1, 2} |-> IF p \in able THEN f.smooth[p] + f.chunks[p]
                                                ELSE f.smooth[p]]
    /\ next \in able
    /\ \A q \in able : gained[q] < gained[next] \/ (gained[q] = gained[next] /\ next <= q)
    /\ slice = (f.jobs[next] + f.chunks[next] - 1) \div f.chunks[next]
    /\ g = [jobs |-> [f.jobs EXCEPT ![next] = @ - slice],
            chunks |-> [f.chunks EXCEPT ![next] = @ - 1],
            smooth |-> [gained EXCEPT ![next] = @ - SumOver(f.chunks, able)]]

\* A turn takes an even part of the chosen pool's jobs and keeps the frame in order.
LEMMA SliceChosen ==
  ASSUME NEW w \in [{1, 2} -> Nat], w[1] + w[2] > 0, NEW f, FrameInv(w, f),
         NEW able, NEW gained, NEW next, NEW slice, NEW g,
         Turn(f, able, gained, next, slice, g)
  PROVE  slice \in Nat /\ slice > 0 /\ slice <= f.jobs[next] /\ FrameInv(w, g)
<1> USE DEF Turn
<1> DEFINE part == Apportion(w)
           C(p) == Chunks(part[p])
           c1 == f.chunks[1]
           c2 == f.chunks[2]
           s == f.smooth[1]
           sum == SumOver(f.chunks, able)
<1>0. /\ f.jobs \in [{1, 2} -> Nat] /\ f.chunks \in [{1, 2} -> Nat] /\ f.smooth \in [{1, 2} -> Int]
      /\ \A p \in {1, 2} : Even(part[p], C(p), f.jobs[p], f.chunks[p])
      /\ RoundRobin(C(1), C(2), c1, c2, s)
      /\ s \in Int /\ f.smooth[2] \in Int /\ s + f.smooth[2] = 0 /\ c1 \in Nat /\ c2 \in Nat
      /\ next \in {1, 2} /\ f.chunks[next] > 0
  BY DEF FrameInv
<1>1. \A p \in {1, 2} : part[p] \in Nat /\ part[p] <= FrameJobs
  <2>1. FairParts(w, part) BY ApportionIsFair
  <2> HIDE DEF part
  <2> QED BY <2>1, SchedulerAssumption DEF FairParts
<1>2. \A p \in {1, 2} : C(p) \in 0 .. 7 /\ C(p) <= part[p] /\ f.chunks[p] \in 0 .. C(p)
  <2> SUFFICES ASSUME NEW p \in {1, 2}
               PROVE  C(p) \in 0 .. 7 /\ C(p) <= part[p] /\ f.chunks[p] \in 0 .. C(p)
    OBVIOUS
  <2>1. C(p) \in 0 .. 7 /\ C(p) <= part[p] BY <1>1, ChunksHold
  <2>2. f.chunks[p] \in 0 .. C(p) BY <1>0 DEF Even
  <2> QED BY <2>1, <2>2
<1>3. sum = (IF 1 \in able THEN c1 ELSE 0) + (IF 2 \in able THEN c2 ELSE 0)
  <2>1. \A p \in able : f.chunks[p] \in Int BY <1>0
  <2> QED BY <2>1, SumOverTwo
<1> HIDE DEF sum
<1>4. /\ slice \in Nat /\ slice > 0 /\ slice <= f.jobs[next]
      /\ Even(part[next], C(next), f.jobs[next] - slice, f.chunks[next] - 1)
  <2> DEFINE j == part[next]
             D == C(next)
             jl == f.jobs[next]
             cl == f.chunks[next]
  <2>1. j \in Nat /\ D \in Nat /\ D <= j /\ Even(j, D, jl, cl) /\ cl > 0
    <3> HIDE DEF part, C
    <3>1. next \in {1, 2} /\ cl > 0 BY <1>0
    <3>2. j \in Nat /\ D \in 0 .. 7 /\ D <= j BY <1>1, <1>2, <3>1
    <3>3. Even(j, D, jl, cl) BY <1>0, <3>1
    <3> QED BY <3>1, <3>2, <3>3
  <2>2. slice = (jl + cl - 1) \div cl OBVIOUS
  <2> HIDE DEF j, D, jl, cl
  <2>3. slice \in Nat /\ slice > 0 /\ slice <= jl /\ Even(j, D, jl - slice, cl - 1)
    BY <2>1, <2>2, SliceIsEven
  <2> QED BY <2>3 DEF j, D, jl, cl
<1>5. /\ g.jobs \in [{1, 2} -> Nat] /\ g.chunks \in [{1, 2} -> Nat]
      /\ \A p \in {1, 2} : p # next => g.jobs[p] = f.jobs[p] /\ g.chunks[p] = f.chunks[p]
      /\ g.jobs[next] = f.jobs[next] - slice /\ g.chunks[next] = f.chunks[next] - 1
  <2>1. f.jobs[next] - slice \in Nat /\ f.chunks[next] - 1 \in Nat BY <1>0, <1>4
  <2> QED BY <1>0, <2>1
<1>6. \A p \in {1, 2} : Even(part[p], C(p), g.jobs[p], g.chunks[p])
  <2> HIDE DEF C, part
  <2> QED BY <1>0, <1>4, <1>5
<1>7. /\ g.smooth \in [{1, 2} -> Int] /\ g.smooth[1] + g.smooth[2] = 0
      /\ RoundRobin(C(1), C(2), g.chunks[1], g.chunks[2], g.smooth[1])
  <2>1. /\ gained[1] = (IF c1 > 0 THEN s + c1 ELSE s)
        /\ gained[2] = (IF c2 > 0 THEN c2 - s ELSE 0 - s)
        /\ sum = c1 + c2 /\ gained[1] \in Int /\ gained[2] \in Int
    <3>1. (1 \in able <=> c1 > 0) /\ (2 \in able <=> c2 > 0) OBVIOUS
    <3>2. /\ gained[1] = (IF 1 \in able THEN f.smooth[1] + c1 ELSE f.smooth[1])
          /\ gained[2] = (IF 2 \in able THEN f.smooth[2] + c2 ELSE f.smooth[2])
      OBVIOUS
    <3>3. f.smooth[2] = 0 - s /\ c1 \in Nat /\ c2 \in Nat /\ s \in Int BY <1>0
    <3> HIDE DEF c1, c2
    <3> QED BY <3>1, <3>2, <3>3, <1>3
  <2>2. g.smooth = [gained EXCEPT ![next] = @ - sum] BY DEF sum
  <2>3. gained \in [{1, 2} -> Int] /\ sum \in Int /\ next \in {1, 2} BY <2>1, <1>0
  <2>4. /\ next = 1 => g.smooth[1] = gained[1] - (c1 + c2) /\ g.smooth[2] = gained[2]
        /\ next = 2 => g.smooth[2] = gained[2] - (c1 + c2) /\ g.smooth[1] = gained[1]
        /\ g.smooth \in [{1, 2} -> Int]
    <3> DEFINE smooths == g.smooth
    <3>1. smooths = [gained EXCEPT ![next] = @ - sum] BY <2>2
    <3>2. sum = c1 + c2 BY <2>1
    <3> HIDE DEF smooths, c1, c2
    <3>3. gained[1] - sum \in Int /\ gained[2] - sum \in Int BY <2>3
    <3>4. smooths \in [{1, 2} -> Int] BY <2>3, <3>1, <3>3
    <3>5. next = 1 => smooths[1] = gained[1] - sum /\ smooths[2] = gained[2] BY <2>3, <3>1
    <3>6. next = 2 => smooths[2] = gained[2] - sum /\ smooths[1] = gained[1] BY <2>3, <3>1
    <3> QED BY <3>2, <3>4, <3>5, <3>6 DEF smooths
  <2>5. c1 > 0 /\ c2 > 0 => /\ next = 1 => s + c1 >= c2 - s
                            /\ next = 2 => s + c1 <= c2 - s /\ s + c1 # c2 - s
    <3>1. ASSUME c1 > 0, c2 > 0 PROVE 1 \in able /\ 2 \in able BY <3>1
    <3>2. ASSUME c1 > 0, c2 > 0, next = 1 PROVE s + c1 >= c2 - s
      <4>1. gained[2] < gained[1] \/ gained[2] = gained[1] BY <3>1, <3>2
      <4> QED BY <4>1, <3>2, <2>1, <1>0
    <3>3. ASSUME c1 > 0, c2 > 0, next = 2 PROVE s + c1 <= c2 - s /\ s + c1 # c2 - s
      <4>1. gained[1] < gained[2] \/ 2 <= 1 BY <3>1, <3>3
      <4> QED BY <4>1, <3>3, <2>1, <1>0
    <3> QED BY <3>2, <3>3
  <2>6. C(1) \in 0 .. 7 /\ C(2) \in 0 .. 7 /\ c1 \in 0 .. C(1) /\ c2 \in 0 .. C(2) BY <1>2
  <2>7. RoundRobin(C(1), C(2), c1, c2, s) BY <1>0
  <2>8. /\ next = 1 => c1 > 0 /\ g.chunks[1] = c1 - 1 /\ g.chunks[2] = c2
        /\ next = 2 => c2 > 0 /\ g.chunks[2] = c2 - 1 /\ g.chunks[1] = c1
    BY <1>0, <1>5
  <2> DEFINE C1 == C(1)
             C2 == C(2)
  <2> HIDE DEF C1, C2, c1, c2, s
  <2>9. /\ c1 > 0 /\ c2 > 0 /\ s + c1 >= c2 - s => RoundRobin(C1, C2, c1 - 1, c2, s - c2)
        /\ c1 > 0 /\ c2 > 0 /\ s + c1 <= c2 - s /\ s + c1 # c2 - s
              => RoundRobin(C1, C2, c1, c2 - 1, s + c1)
        /\ c1 > 0 /\ c2 = 0 => RoundRobin(C1, C2, c1 - 1, c2, s)
        /\ c1 = 0 /\ c2 > 0 => RoundRobin(C1, C2, c1, c2 - 1, s)
    <3>1. C1 \in 0 .. 7 /\ C2 \in 0 .. 7 /\ c1 \in 0 .. C1 /\ c2 \in 0 .. C2 /\ s \in Int
          /\ RoundRobin(C1, C2, c1, c2, s)
      BY <2>6, <2>7, <1>0 DEF C1, C2
    <3> QED BY <3>1, RoundGoesOn
  <2>10. c1 \in Nat /\ c2 \in Nat /\ s \in Int BY <1>0
  <2>11. /\ next = 1 => (c2 > 0 => g.smooth[1] = s - c2) /\ (c2 = 0 => g.smooth[1] = s)
         /\ next = 2 => (c1 > 0 => g.smooth[1] = s + c1) /\ (c1 = 0 => g.smooth[1] = s)
         /\ g.smooth[1] + g.smooth[2] = 0
    <3>1. next = 1 \/ next = 2 BY <1>0
    <3> QED BY <3>1, <2>1, <2>4, <2>8, <2>10
  <2>12. RoundRobin(C1, C2, g.chunks[1], g.chunks[2], g.smooth[1])
    <3>1. CASE next = 1
      <4>1. CASE c2 > 0 BY <3>1, <4>1, <2>5, <2>8, <2>9, <2>11
      <4>2. CASE c2 = 0 BY <3>1, <4>2, <2>5, <2>8, <2>9, <2>11
      <4> QED BY <4>1, <4>2, <2>10
    <3>2. CASE next = 2
      <4>1. CASE c1 > 0 BY <3>2, <4>1, <2>5, <2>8, <2>9, <2>11
      <4>2. CASE c1 = 0 BY <3>2, <4>2, <2>5, <2>8, <2>9, <2>11
      <4> QED BY <4>1, <4>2, <2>10
    <3> QED BY <3>1, <3>2, <1>0
  <2> QED BY <2>4, <2>11, <2>12 DEF C1, C2
<1>8. FrameInv(w, g)
  <2> HIDE DEF part, C
  <2>1. /\ \A p \in {1, 2} : Even(part[p], C(p), g.jobs[p], g.chunks[p])
        /\ RoundRobin(C(1), C(2), g.chunks[1], g.chunks[2], g.smooth[1])
    BY <1>6, <1>7
  <2> QED BY <2>1, <1>5, <1>7 DEF FrameInv, part, C
<1> QED BY <1>4, <1>8

\* The pools that are ready are those of some effective weight.
LEMMA Effective ==
  ASSUME SchedTypes
  PROVE  /\ WeightedPool = {1, 2} /\ EffectiveWeights \in [{1, 2} -> Nat]
         /\ \A p \in {1, 2} : EffectiveWeights[p] > 0 <=> p \in readyPools
         /\ readyPools # {} => EffectiveWeights[1] + EffectiveWeights[2] > 0
         /\ Zero = [p \in {1, 2} |-> 0]
<1>1. weights \in [{1, 2} -> Nat \ {0}] /\ WeightedPool = {1, 2}
  BY SchedulerAssumption DEF SchedTypes, WeightedPool
<1>2. EffectiveWeights = [p \in {1, 2} |-> IF p \in readyPools THEN weights[p] ELSE 0]
  BY <1>1 DEF EffectiveWeights
<1>3. \A p \in {1, 2} : weights[p] \in Nat /\ weights[p] > 0 BY <1>1
<1>4. EffectiveWeights \in [{1, 2} -> Nat] BY <1>2, <1>3
<1>5. \A p \in {1, 2} : EffectiveWeights[p] > 0 <=> p \in readyPools BY <1>2, <1>3
<1>6. readyPools # {} => EffectiveWeights[1] + EffectiveWeights[2] > 0
  <2>1. readyPools # {} => 1 \in readyPools \/ 2 \in readyPools BY DEF SchedTypes
  <2> HIDE DEF EffectiveWeights
  <2>2. EffectiveWeights[1] \in Nat /\ EffectiveWeights[2] \in Nat BY <1>4
  <2> QED BY <2>1, <2>2, <1>5
<1> QED BY <1>1, <1>4, <1>5, <1>6 DEF Zero

\* The frame a slice is taken from stands: the one at hand, or the one built.
LEMMA FrameStands ==
  ASSUME SchedInv, readyPools # {}
  PROVE  /\ FrameInv(EffectiveWeights, Frame)
         /\ NewFrame => Frame.jobs = Apportion(EffectiveWeights)
         /\ ~NewFrame => Frame = Left /\ frameWeight = EffectiveWeights /\ ~NoFrameYet
<1>0. SchedTypes BY DEF SchedInv
<1>1. CASE NewFrame
  <2> DEFINE jobs == Apportion(EffectiveWeights)
             built == [jobs |-> jobs, chunks |-> [p \in {1, 2} |-> Chunks(jobs[p])],
                     smooth |-> [p \in {1, 2} |-> 0]]
  <2>1. Frame = built BY <1>0, <1>1, Effective, Zenon DEF Frame
  <2>2. FrameInv(EffectiveWeights, built) BY <1>0, Effective, NewFrameStands
  <2>3. Frame.jobs = jobs BY <2>1
  <2> QED BY <1>1, <2>1, <2>2, <2>3
<1>2. CASE ~NewFrame
  <2>1. Frame = Left BY <1>2 DEF Frame, Left
  <2>2. frameWeight = EffectiveWeights /\ HasWork BY <1>2 DEF NewFrame
  <2>3. ~NoFrameYet
    <3>1. \E p \in {1, 2} : jobsLeft[p] > 0 BY <1>0, <2>2, Effective DEF HasWork
    <3> QED BY <3>1, <1>0, Effective DEF NoFrameYet
  <2> QED BY <1>2, <2>1, <2>2, <2>3 DEF SchedInv
<1> QED BY <1>1, <1>2

\* What pool_slice_scheduler_next returns and leaves.
LEMMA SliceIsTaken ==
  ASSUME SchedInv, readyPools # {}, NextSlice
  PROVE  \E next \in {1, 2}, slice \in Nat :
            /\ slice > 0 /\ sliceOf' = next /\ sliceJobs' = slice
            /\ slice <= Frame.jobs[next]
            /\ jobsLeft' = [Frame.jobs EXCEPT ![next] = @ - slice]
            /\ FrameInv(EffectiveWeights, Left')
<1> DEFINE f == Frame
           w == EffectiveWeights
           able == {p \in readyPools : f.jobs[p] > 0 /\ f.chunks[p] > 0}
           gained == [p \in {1, 2} |-> IF p \in able THEN f.smooth[p] + f.chunks[p]
                                                    ELSE f.smooth[p]]
           Slice(next) == (f.jobs[next] + f.chunks[next] - 1) \div f.chunks[next]
<1>0. SchedTypes BY DEF SchedInv
<1>1. /\ w \in [{1, 2} -> Nat] /\ w[1] + w[2] > 0 /\ WeightedPool = {1, 2}
      /\ \A p \in {1, 2} : w[p] > 0 <=> p \in readyPools
      /\ FrameInv(w, f)
  BY <1>0, Effective, FrameStands
<1>2. PICK next \in able :
        /\ \A q \in able : gained[q] < gained[next] \/ (gained[q] = gained[next] /\ next <= q)
        /\ sliceOf' = next /\ sliceJobs' = Slice(next)
        /\ jobsLeft' = [f.jobs EXCEPT ![next] = @ - Slice(next)]
        /\ chunksLeft' = [f.chunks EXCEPT ![next] = @ - 1]
        /\ smooth' = [gained EXCEPT ![next] = @ - SumOver(f.chunks, able)]
  <2>1. WeightedPool = {1, 2} BY <1>1
  <2> QED BY <2>1, Zenon DEF NextSlice
<1> DEFINE slice == Slice(next)
           g == [jobs |-> [f.jobs EXCEPT ![next] = @ - slice],
                 chunks |-> [f.chunks EXCEPT ![next] = @ - 1],
                 smooth |-> [gained EXCEPT ![next] = @ - SumOver(f.chunks, able)]]
<1> HIDE DEF f, w
<1>3. able \in SUBSET {1, 2} /\ able = {p \in {1, 2} : f.chunks[p] > 0}
  <2>1. \A p \in {1, 2} : /\ f.jobs[p] > 0 <=> f.chunks[p] > 0
                          /\ f.jobs[p] > 0 => w[p] > 0
    BY <1>1, SlicesAndJobs
  <2>2. \A p \in {1, 2} : p \in able <=> f.chunks[p] > 0 BY <1>1, <2>1
  <2>3. able \in SUBSET {1, 2} BY <1>0 DEF SchedTypes
  <2> HIDE DEF able
  <2> QED BY <2>2, <2>3
<1>4. slice \in Nat /\ slice > 0 /\ slice <= f.jobs[next] /\ FrameInv(w, g)
  <2> DEFINE ables == able
             gains == gained
  <2>1. Turn(f, ables, gains, next, slice, g) BY <1>2, <1>3 DEF Turn
  <2> HIDE DEF slice, g, ables, gains
  <2> QED BY <1>1, <2>1, SliceChosen
<1>5. Left' = g BY <1>2 DEF Left, f
<1>6. next \in {1, 2} BY <1>3
<1>7. /\ sliceOf' = next /\ sliceJobs' = slice
      /\ jobsLeft' = [f.jobs EXCEPT ![next] = @ - slice]
  BY <1>2
<1> HIDE DEF slice, g
<1> QED BY <1>4, <1>5, <1>6, <1>7 DEF f, w

LEMMA SchedInvStarts == SchedulerInit => SchedInv
<1> SUFFICES ASSUME SchedulerInit PROVE SchedInv OBVIOUS
<1>1. weights \in [{1, 2} -> Nat \ {0}] /\ WeightedPool = {1, 2}
  BY SchedulerAssumption DEF SchedulerInit, WeightedPool
<1>2. Zero \in [{1, 2} -> Nat] BY <1>1 DEF Zero
<1>3. SchedTypes BY <1>1, <1>2 DEF SchedTypes, SchedulerInit
<1> QED BY <1>3 DEF SchedInv, NoFrameYet, SchedulerInit

\* What a step does to the pools' counts when it leaves the frame alone.
LEMMA CountsKept ==
  ASSUME SchedInv, SchedTypes', UNCHANGED frameVars, UNCHANGED weights,
         \/ NoFrameYet'
         \/ /\ ~NoFrameYet
            /\ cutShort' = cutShort \/ cutShort'
            /\ ~cutShort' => UNCHANGED served /\ \A p \in {1, 2} : PendingJobs(p)' = PendingJobs(p)
  PROVE  SchedInv'
<1>1. CASE NoFrameYet' BY <1>1 DEF SchedInv
<1>2. CASE /\ ~NoFrameYet
           /\ cutShort' = cutShort \/ cutShort'
           /\ ~cutShort' => UNCHANGED served /\ \A p \in {1, 2} : PendingJobs(p)' = PendingJobs(p)
  <2>1. /\ frameWeight[1] + frameWeight[2] > 0 /\ FrameInv(frameWeight, Left)
        /\ ~cutShort => Counts /\ InStep
    BY <1>2 DEF SchedInv
  <2>2. frameWeight' = frameWeight /\ jobsLeft' = jobsLeft /\ Left' = Left
    BY DEF frameVars, Left
  <2>3. FrameInv(frameWeight, Left)' BY <2>1, <2>2 DEF FrameInv
  <2>4. ASSUME ~cutShort' PROVE Counts' /\ InStep'
    <3>1. Counts /\ InStep /\ served' = served
          /\ \A p \in {1, 2} : PendingJobs(p)' = PendingJobs(p)
      BY <1>2, <2>1, <2>4
    <3>2. Counts' BY <2>2, <3>1 DEF Counts
    <3>3. InStep' BY <2>2, <3>1 DEF InStep
    <3> QED BY <3>2, <3>3
  <2> QED BY <2>1, <2>2, <2>3, <2>4 DEF SchedInv
<1> QED BY <1>1, <1>2

\* A slice is taken only when none is being served.
LEMMA ChoosingKeeps == SchedInv /\ ChooseSlice => SchedInv'
<1> SUFFICES ASSUME SchedInv, ChooseSlice PROVE SchedInv' OBVIOUS
<1> DEFINE w == EffectiveWeights
           f == Frame
<1>0. SchedTypes /\ readyPools # {} /\ sliceJobs = 0 /\ NextSlice /\ frameWeight' = w
      /\ weights' = weights /\ readyPools' = readyPools
      /\ (NewFrame => served' = Zero /\ cutShort' = FALSE)
      /\ (~NewFrame => served' = served /\ cutShort' = cutShort)
  BY DEF SchedInv, ChooseSlice
<1>1. /\ w \in [{1, 2} -> Nat] /\ w[1] + w[2] > 0 /\ Zero = [p \in {1, 2} |-> 0]
  BY <1>0, Effective
<1>2. /\ FrameInv(w, f)
      /\ NewFrame => f.jobs = Apportion(w)
      /\ ~NewFrame => f = Left /\ frameWeight = w /\ ~NoFrameYet
  BY <1>0, FrameStands
<1>3. PICK next \in {1, 2}, slice \in Nat :
        /\ slice > 0 /\ sliceOf' = next /\ sliceJobs' = slice
        /\ slice <= f.jobs[next]
        /\ jobsLeft' = [f.jobs EXCEPT ![next] = @ - slice]
        /\ FrameInv(w, Left')
  BY <1>0, SliceIsTaken
<1> HIDE DEF w, f
<1>4. /\ served' \in [{1, 2} -> Nat] /\ cutShort' \in BOOLEAN
  BY <1>0, <1>1 DEF SchedTypes
<1>5. SchedTypes'
  <2>1. frameWeight' \in [{1, 2} -> Nat] BY <1>0, <1>1
  <2> QED BY <1>0, <1>3, <1>4, <2>1 DEF SchedTypes
<1>6. /\ \A p \in {1, 2} : f.jobs[p] \in Nat
      /\ \A p \in {1, 2} : jobsLeft'[p] = f.jobs[p] - (IF p = next THEN slice ELSE 0)
      /\ \A p \in {1, 2} : PendingJobs(p)' = IF p = next THEN slice ELSE 0
  <2>1. f.jobs \in [{1, 2} -> Nat] BY <1>2 DEF FrameInv
  <2> QED BY <2>1, <1>3 DEF PendingJobs
<1>7. ASSUME ~cutShort'
      PROVE  /\ \A p \in {1, 2} : served'[p] + f.jobs[p] = Apportion(w)[p]
             /\ served'[1] * w[2] - served'[2] * w[1] <= SliceMaxJobs * (w[1] + w[2])
             /\ served'[2] * w[1] - served'[1] * w[2] <= SliceMaxJobs * (w[1] + w[2])
  <2>1. CASE NewFrame
    <3>1. served' = [p \in {1, 2} |-> 0] BY <1>0, <1>1, <2>1
    <3>2. \A p \in {1, 2} : served'[p] + f.jobs[p] = Apportion(w)[p]
      BY <1>2, <1>6, <2>1, <3>1
    <3>3. w[1] \in Nat /\ w[2] \in Nat /\ SliceMaxJobs * (w[1] + w[2]) \in Nat
      BY <1>1, SchedulerAssumption
    <3>4. served'[1] = 0 /\ served'[2] = 0 BY <3>1
    <3>5. served'[1] * w[2] = 0 /\ served'[2] * w[1] = 0 BY <3>3, <3>4
    <3> QED BY <3>2, <3>3, <3>5
  <2>2. CASE ~NewFrame
    <3>1. frameWeight = w /\ f = Left /\ served' = served /\ ~cutShort /\ ~NoFrameYet
      BY <1>0, <1>2, <1>7, <2>2
    <3>2. Counts /\ InStep BY <3>1 DEF SchedInv
    <3>3. \A p \in {1, 2} : PendingJobs(p) = 0 BY <1>0 DEF PendingJobs
    <3>4. f.jobs = jobsLeft BY <3>1 DEF Left
    <3>5. \A p \in {1, 2} : served[p] \in Nat /\ w[p] \in Nat BY <1>0, <1>1 DEF SchedTypes
    <3>6. \A p \in {1, 2} : served[p] + f.jobs[p] = Apportion(w)[p]
      <4> SUFFICES ASSUME NEW p \in {1, 2} PROVE served[p] + f.jobs[p] = Apportion(w)[p]
        OBVIOUS
      <4>1. served[p] + PendingJobs(p) + jobsLeft[p] = Apportion(w)[p]
        BY <3>1, <3>2 DEF Counts
      <4> QED BY <4>1, <3>3, <3>4, <3>5
    <3>7. /\ served[1] + PendingJobs(1) = served[1] /\ served[2] + PendingJobs(2) = served[2]
      BY <3>3, <3>5
    <3>8. /\ served[1] * w[2] - served[2] * w[1] <= SliceMaxJobs * (w[1] + w[2])
          /\ served[2] * w[1] - served[1] * w[2] <= SliceMaxJobs * (w[1] + w[2])
      BY <3>1, <3>2, <3>7 DEF InStep
    <3> QED BY <3>1, <3>6, <3>8
  <2> QED BY <2>1, <2>2
<1>8. ASSUME ~cutShort' PROVE Counts' /\ InStep'
  <2> DEFINE g == [p \in {1, 2} |-> served'[p] + (IF p = next THEN slice ELSE 0)]
             h == Left'
             s1 == served'[1]
             s2 == served'[2]
  <2>1. g \in [{1, 2} -> Nat] /\ s1 \in Nat /\ s2 \in Nat BY <1>4
  <2>2. /\ \A p \in {1, 2} : g[p] = served'[p] + PendingJobs(p)'
    BY <1>6
  <2>3. \A p \in {1, 2} : g[p] + jobsLeft'[p] = Apportion(w)[p]
    <3> SUFFICES ASSUME NEW p \in {1, 2} PROVE g[p] + jobsLeft'[p] = Apportion(w)[p]
      OBVIOUS
    <3>1. served'[p] + f.jobs[p] = Apportion(w)[p] BY <1>7, <1>8
    <3>2. served'[p] \in Nat /\ f.jobs[p] \in Nat BY <1>4, <1>6
    <3> QED BY <3>1, <3>2, <1>6
  <2>4. Counts' BY <1>0, <2>2, <2>3 DEF Counts
  <2>5. FrameInv(w, h) /\ \A p \in {1, 2} : g[p] + h.jobs[p] = Apportion(w)[p]
    BY <1>3, <2>3 DEF Left
  <2> HIDE DEF g, h
  <2>6. /\ g[1] * w[2] - g[2] * w[1] <= SliceMaxJobs * (w[1] + w[2])
        /\ g[2] * w[1] - g[1] * w[2] <= SliceMaxJobs * (w[1] + w[2])
    BY <1>1, <2>1, <2>5, FrameInStep
  <2>7. /\ s1 * w[2] - s2 * w[1] <= SliceMaxJobs * (w[1] + w[2])
        /\ s2 * w[1] - s1 * w[2] <= SliceMaxJobs * (w[1] + w[2])
    BY <1>7, <1>8
  <2>8. /\ next = 1 => g[1] = s1 + slice /\ g[2] = s2
        /\ next = 2 => g[2] = s2 + slice /\ g[1] = s1
    BY <2>1 DEF g
  <2>9. /\ g[1] * w[2] - s2 * w[1] <= SliceMaxJobs * (w[1] + w[2])
        /\ g[2] * w[1] - s1 * w[2] <= SliceMaxJobs * (w[1] + w[2])
    <3>1. CASE next = 1
      <4>1. g[1] = s1 + slice /\ g[2] = s2 BY <2>8, <3>1
      <4> QED BY <4>1, <2>6, <2>7
    <3>2. CASE next = 2
      <4>1. g[2] = s2 + slice /\ g[1] = s1 BY <2>8, <3>2
      <4> QED BY <4>1, <2>6, <2>7
    <3> QED BY <3>1, <3>2
  <2>10. InStep'
    <3>1. g[1] = served'[1] + PendingJobs(1)' /\ g[2] = served'[2] + PendingJobs(2)' BY <2>2
    <3> QED BY <2>9, <3>1, <1>0 DEF InStep
  <2> QED BY <2>4, <2>10
<1>9. frameWeight'[1] + frameWeight'[2] > 0 /\ FrameInv(frameWeight, Left)'
  <2>1. FrameInv(frameWeight', Left') BY <1>0, <1>3
  <2> QED BY <1>0, <1>1, <2>1 DEF FrameInv
<1> QED BY <1>5, <1>8, <1>9 DEF SchedInv

LEMMA SendingKeeps == SchedInv /\ SendSliceJob => SchedInv'
<1> SUFFICES ASSUME SchedInv, SendSliceJob PROVE SchedInv' OBVIOUS
<1>0. SchedTypes /\ ~NoFrameYet /\ sliceJobs > 0 /\ sliceOf \in {1, 2}
      /\ sliceJobs' = sliceJobs - 1 /\ served' = [served EXCEPT ![sliceOf] = @ + 1]
      /\ UNCHANGED <<weights, readyPools, frameVars, sliceOf, cutShort>>
  BY DEF SchedInv, SchedTypes, SendSliceJob, NoFrameYet
<1>1. SchedTypes'
  <2>1. served \in [{1, 2} -> Nat] /\ sliceJobs \in Nat BY <1>0 DEF SchedTypes
  <2>2. served' \in [{1, 2} -> Nat] /\ sliceJobs' \in Nat BY <1>0, <2>1
  <2> QED BY <1>0, <2>2 DEF SchedTypes, frameVars
<1>2. frameWeight' = frameWeight /\ jobsLeft' = jobsLeft /\ Left' = Left
  BY <1>0 DEF frameVars, Left
<1>3. /\ frameWeight[1] + frameWeight[2] > 0 /\ FrameInv(frameWeight, Left)
      /\ ~cutShort => Counts /\ InStep
  BY <1>0 DEF SchedInv
<1>4. FrameInv(frameWeight, Left)' BY <1>2, <1>3 DEF FrameInv
<1>5. \A p \in {1, 2} : /\ served[p] \in Nat /\ served'[p] \in Nat /\ PendingJobs(p) \in Nat
                        /\ served'[p] + PendingJobs(p)' = served[p] + PendingJobs(p)
                        /\ served'[p] >= served[p]
  <2> SUFFICES ASSUME NEW p \in {1, 2}
               PROVE  /\ served[p] \in Nat /\ served'[p] \in Nat /\ PendingJobs(p) \in Nat
                      /\ served'[p] + PendingJobs(p)' = served[p] + PendingJobs(p)
                      /\ served'[p] >= served[p]
    OBVIOUS
  <2>1. served \in [{1, 2} -> Nat] /\ sliceJobs \in Nat BY <1>0 DEF SchedTypes
  <2>2. CASE p = sliceOf BY <1>0, <2>1, <2>2 DEF PendingJobs
  <2>3. CASE p # sliceOf BY <1>0, <2>1, <2>3 DEF PendingJobs
  <2> QED BY <2>2, <2>3
<1>6. ASSUME ~cutShort' PROVE Counts' /\ InStep'
  <2>1. Counts /\ InStep BY <1>0, <1>3, <1>6
  <2>2. Counts' BY <1>2, <1>5, <2>1 DEF Counts
  <2> DEFINE w == frameWeight
             M == SliceMaxJobs * (w[1] + w[2])
  <2>3. w[1] \in Nat /\ w[2] \in Nat /\ M \in Nat
    BY <1>0, SchedulerAssumption DEF SchedTypes
  <2>4. /\ (served[1] + PendingJobs(1)) * w[2] - served[2] * w[1] <= M
        /\ (served[2] + PendingJobs(2)) * w[1] - served[1] * w[2] <= M
    BY <2>1 DEF InStep
  <2>5. served[2] * w[1] <= served'[2] * w[1] /\ served[1] * w[2] <= served'[1] * w[2]
    <3>1. ASSUME NEW a \in Nat, NEW b \in Nat, NEW c \in Nat, b >= a PROVE a * c <= b * c
      <4>1. b * c = a * c + (b - a) * c BY <3>1
      <4>2. (b - a) * c \in Nat /\ a * c \in Nat /\ b * c \in Nat BY <3>1
      <4> QED BY <4>1, <4>2
    <3> HIDE DEF w
    <3> QED BY <3>1, <2>3, <1>5
  <2>6. ASSUME NEW a \in Nat, NEW b \in Nat, NEW c \in Nat, NEW d \in Nat, NEW e \in Nat,
               NEW k \in Nat, a * b - d <= k, d <= e
        PROVE  a * b - e <= k
    <3>1. a * b \in Nat BY <2>6
    <3> HIDE DEF w, M
    <3> QED BY <2>6, <3>1
  <2>7. /\ (served'[1] + PendingJobs(1)') * w[2] - served'[2] * w[1] <= M
        /\ (served'[2] + PendingJobs(2)') * w[1] - served'[1] * w[2] <= M
    <3> HIDE DEF w, M
    <3>1. /\ served[1] + PendingJobs(1) \in Nat /\ served[2] + PendingJobs(2) \in Nat
          /\ served[2] * w[1] \in Nat /\ served'[2] * w[1] \in Nat
          /\ served[1] * w[2] \in Nat /\ served'[1] * w[2] \in Nat
      BY <2>3, <1>5
    <3>2. /\ (served[1] + PendingJobs(1)) * w[2] - served'[2] * w[1] <= M
          /\ (served[2] + PendingJobs(2)) * w[1] - served'[1] * w[2] <= M
      BY <2>3, <2>4, <2>5, <2>6, <3>1
    <3> QED BY <3>2, <1>5
  <2>8. InStep' BY <2>7, <1>2 DEF InStep
  <2> QED BY <2>2, <2>8
<1> QED BY <1>1, <1>2, <1>3, <1>4, <1>6 DEF SchedInv

\* A slice given up leaves the counts as they are, or cuts the frame short.
LEMMA GivingUpKeeps == SchedInv /\ sliceOf # 0 /\ GiveSliceUp => SchedInv'
<1> SUFFICES ASSUME SchedInv, sliceOf # 0, GiveSliceUp PROVE SchedInv' OBVIOUS
<1>0. SchedTypes /\ ~NoFrameYet BY DEF SchedInv, NoFrameYet
<1>1. SchedTypes' BY <1>0 DEF SchedTypes, GiveSliceUp, frameVars
<1>2. ~cutShort' => UNCHANGED served /\ \A p \in {1, 2} : PendingJobs(p)' = PendingJobs(p)
  <2>1. SUFFICES ASSUME ~cutShort'
                 PROVE  served' = served /\ \A p \in {1, 2} : PendingJobs(p)' = PendingJobs(p)
    OBVIOUS
  <2>2. sliceJobs \in Nat /\ ~(sliceJobs > 0) /\ sliceJobs' = 0 /\ served' = served
    BY <1>0, <2>1 DEF GiveSliceUp, SchedTypes
  <2>3. sliceJobs = 0 BY <2>2
  <2> QED BY <2>2, <2>3 DEF PendingJobs
<1>3. cutShort' = cutShort \/ cutShort' BY <1>0, <1>1 DEF GiveSliceUp, SchedTypes
<1> QED BY <1>0, <1>1, <1>2, <1>3, CountsKept DEF GiveSliceUp

LEMMA SchedInvKept == SchedInv /\ [SchedulerNext]_schedulerVars => SchedInv'
<1> SUFFICES ASSUME SchedInv, [SchedulerNext]_schedulerVars PROVE SchedInv' OBVIOUS
<1>0. SchedTypes BY DEF SchedInv
<1>1. CASE ChooseSlice BY <1>1, ChoosingKeeps
<1>2. CASE SendSliceJob BY <1>2, SendingKeeps
<1>3. CASE SliceLost BY <1>3, GivingUpKeeps DEF SliceLost
<1>4. CASE SendFails BY <1>4, GivingUpKeeps DEF SendFails
<1>5. ASSUME UNCHANGED <<frameVars, sliceVars, served, cutShort>>,
             weights' \in Weightings, readyPools' \in SUBSET {1, 2}
      PROVE  SchedInv'
  <2>1. /\ frameWeight' = frameWeight /\ jobsLeft' = jobsLeft /\ Left' = Left
        /\ sliceOf' = sliceOf /\ sliceJobs' = sliceJobs /\ served' = served
        /\ cutShort' = cutShort
    BY <1>5 DEF frameVars, sliceVars, Left
  <2>2. SchedTypes' BY <1>0, <1>5, <2>1 DEF SchedTypes
  <2>3. Zero' = Zero
    <3>1. weights \in [{1, 2} -> Nat \ {0}] /\ weights' \in [{1, 2} -> Nat \ {0}]
      BY <1>0, <1>5, SchedulerAssumption DEF SchedTypes
    <3>2. WeightedPool = {1, 2} /\ WeightedPool' = {1, 2} BY <3>1 DEF WeightedPool
    <3> QED BY <3>2 DEF Zero
  <2>4. NoFrameYet => NoFrameYet' BY <2>1, <2>3 DEF NoFrameYet
  <2>5. ASSUME ~NoFrameYet PROVE SchedInv'
    <3>1. /\ frameWeight[1] + frameWeight[2] > 0 /\ FrameInv(frameWeight, Left)
          /\ ~cutShort => Counts /\ InStep
      BY <2>5 DEF SchedInv
    <3>2. FrameInv(frameWeight, Left)' BY <2>1, <3>1 DEF FrameInv
    <3>3. \A p \in {1, 2} : PendingJobs(p)' = PendingJobs(p) BY <2>1 DEF PendingJobs
    <3>4. Counts => Counts' BY <2>1, <3>3 DEF Counts
    <3>5. InStep => InStep' BY <2>1, <3>3 DEF InStep
    <3> QED BY <2>1, <2>2, <3>1, <3>2, <3>4, <3>5 DEF SchedInv
  <2> QED BY <2>2, <2>4, <2>5 DEF SchedInv
<1>6. ASSUME NEW p \in WeightedPool, ReadinessChanges(p) PROVE SchedInv'
  <2>1. p \in {1, 2} BY <1>0, Effective
  <2>2. readyPools' \in SUBSET {1, 2} BY <1>0, <1>6, <2>1 DEF ReadinessChanges, SchedTypes
  <2>3. weights' \in Weightings BY <1>0, <1>6 DEF ReadinessChanges, SchedTypes
  <2> QED BY <2>2, <2>3, <1>5, <1>6 DEF ReadinessChanges
<1>7. ASSUME NEW w \in Weightings, SaveWeights(w) PROVE SchedInv'
  <2>1. weights' \in Weightings /\ readyPools' \in SUBSET {1, 2}
    BY <1>0, <1>7 DEF SaveWeights, SchedTypes
  <2> QED BY <2>1, <1>5, <1>7 DEF SaveWeights
<1>8. CASE UNCHANGED schedulerVars
  <2>1. weights' \in Weightings /\ readyPools' \in SUBSET {1, 2}
    BY <1>0, <1>8 DEF schedulerVars, SchedTypes
  <2> QED BY <2>1, <1>5, <1>8 DEF schedulerVars
<1> QED BY <1>1, <1>2, <1>3, <1>4, <1>6, <1>7, <1>8 DEF SchedulerNext

\* When the whole frame is sent nothing is pending or left, so the parts are sent.
LEMMA SharesFromInv == SchedInv => SharesFollowWeights
<1> SUFFICES ASSUME SchedInv, ~cutShort PROVE SharesFollowWeights
  BY DEF SharesFollowWeights
<1> DEFINE w == frameWeight
           s == served
           W == w[1] + w[2]
           S == s[1] + s[2]
<1>0. SchedTypes BY DEF SchedInv
<1>1. /\ w \in [{1, 2} -> Nat] /\ s \in [{1, 2} -> Nat] /\ WeightedPool = {1, 2}
      /\ w[1] \in Nat /\ w[2] \in Nat /\ s[1] \in Nat /\ s[2] \in Nat
  BY <1>0, Effective DEF SchedTypes
<1>2. Total(frameWeight) = W /\ Total(served) = S BY <1>1, TotalOfTwo
<1>3. /\ s[1] * W - S * w[1] = s[1] * w[2] - s[2] * w[1]
      /\ s[2] * W - S * w[2] = s[2] * w[1] - s[1] * w[2]
  <2>1. ASSUME NEW a \in Nat, NEW b \in Nat, NEW c \in Nat, NEW d \in Nat
        PROVE  /\ a * (c + d) - (a + b) * c = a * d - b * c
               /\ b * (c + d) - (a + b) * d = b * c - a * d
    OBVIOUS
  <2> HIDE DEF w, s
  <2> QED BY <1>1, <2>1
<1>4. /\ s[1] * w[2] - s[2] * w[1] <= SliceMaxJobs * W
      /\ s[2] * w[1] - s[1] * w[2] <= SliceMaxJobs * W
      /\ S = FrameJobs =>
           \A p \in {1, 2} : /\ s[p] * W - S * w[p] < W /\ S * w[p] - s[p] * W < W
                             /\ w[p] > 0 => s[p] > 0
  <2>1. CASE NoFrameYet
    <3>1. w[1] = 0 /\ w[2] = 0 /\ s[1] = 0 /\ s[2] = 0 BY <2>1, <1>0, Effective DEF NoFrameYet
    <3>2. s[1] * w[2] = 0 /\ s[2] * w[1] = 0 /\ SliceMaxJobs * W = 0 /\ S # FrameJobs
      BY <3>1, SchedulerAssumption
    <3> HIDE DEF w, s
    <3> QED BY <3>2
  <2>2. CASE ~NoFrameYet
    <3> DEFINE part == Apportion(w)
    <3>1. /\ W > 0 /\ FrameInv(w, Left) /\ Counts /\ InStep BY <2>2 DEF SchedInv
    <3>2. FairParts(w, part) BY <1>1, <3>1, ApportionIsFair
    <3>3. \A p \in {1, 2} : /\ jobsLeft[p] \in Nat /\ PendingJobs(p) \in Nat
                            /\ s[p] + PendingJobs(p) + jobsLeft[p] = part[p]
      <4>1. jobsLeft \in [{1, 2} -> Nat] BY <3>1 DEF FrameInv, Left
      <4>2. \A p \in {1, 2} : PendingJobs(p) \in Nat BY <1>0 DEF PendingJobs, SchedTypes
      <4> HIDE DEF part
      <4> QED BY <4>1, <4>2, <3>1 DEF Counts, part
    <3>4. /\ (s[1] + PendingJobs(1)) * w[2] - s[2] * w[1] <= SliceMaxJobs * W
          /\ (s[2] + PendingJobs(2)) * w[1] - s[1] * w[2] <= SliceMaxJobs * W
      BY <3>1 DEF InStep
    <3>5. ASSUME NEW a \in Nat, NEW p \in Nat, NEW b \in Nat, NEW d \in Nat, NEW k \in Nat,
                 (a + p) * b - d <= k
          PROVE  a * b - d <= k
      <4>1. (a + p) * b = a * b + p * b BY <3>5
      <4>2. p * b \in Nat /\ a * b \in Nat BY <3>5
      <4> QED BY <3>5, <4>1, <4>2
    <3>6. /\ s[1] * w[2] - s[2] * w[1] <= SliceMaxJobs * W
          /\ s[2] * w[1] - s[1] * w[2] <= SliceMaxJobs * W
      <4>1. s[2] * w[1] \in Nat /\ s[1] * w[2] \in Nat /\ SliceMaxJobs * W \in Nat
        BY <1>1, SchedulerAssumption
      <4>2. PendingJobs(1) \in Nat /\ PendingJobs(2) \in Nat BY <3>3
      <4> HIDE DEF w, s
      <4> QED BY <1>1, <3>4, <3>5, <4>1, <4>2
    <3>7. ASSUME S = FrameJobs, NEW p \in {1, 2}
          PROVE  /\ s[p] * W - S * w[p] < W /\ S * w[p] - s[p] * W < W
                 /\ w[p] > 0 => s[p] > 0
      <4> HIDE DEF part, w, s
      <4>1. part[1] \in Nat /\ part[2] \in Nat /\ part[1] + part[2] = FrameJobs
        BY <3>2 DEF FairParts
      <4>2. s[1] <= part[1] /\ s[2] <= part[2] BY <1>1, <3>3, <4>1
      <4>3. s[1] = part[1] /\ s[2] = part[2] BY <1>1, <3>7, <4>1, <4>2
      <4>4. s[p] = part[p] BY <3>7, <4>3
      <4>5. /\ part[p] * W - FrameJobs * w[p] < W /\ FrameJobs * w[p] - part[p] * W < W
            /\ w[p] > 0 <=> part[p] > 0
        BY <3>2, <3>7 DEF FairParts
      <4> QED BY <4>4, <4>5, <3>7
    <3> QED BY <3>6, <3>7
  <2> QED BY <2>1, <2>2
<1>5. ASSUME NEW p \in {1, 2}
      PROVE  /\ s[p] * W - S * w[p] <= SliceMaxJobs * W
             /\ S = FrameJobs => /\ s[p] * W - S * w[p] < W /\ s[p] * W - S * w[p] > -W
                                 /\ w[p] > 0 => s[p] > 0
  <2>1. s[p] * W - S * w[p] <= SliceMaxJobs * W BY <1>3, <1>4
  <2>2. /\ s[p] * W \in Nat /\ S * w[p] \in Nat /\ W \in Nat BY <1>1
  <2>3. S = FrameJobs => /\ s[p] * W - S * w[p] < W /\ S * w[p] - s[p] * W < W
                         /\ w[p] > 0 => s[p] > 0
    BY <1>4
  <2>4. S * w[p] - s[p] * W < W => s[p] * W - S * w[p] > -W
    <3>1. ASSUME NEW a \in Nat, NEW b \in Nat, NEW c \in Nat, b - a < c PROVE a - b > -c
      BY <3>1
    <3> HIDE DEF W, S
    <3> QED BY <3>1, <2>2
  <2> QED BY <2>1, <2>3, <2>4
<1> HIDE DEF w, s, W, S
<1>6. \A p \in WeightedPool :
        /\ s[p] * W - S * w[p] <= SliceMaxJobs * W
        /\ S = FrameJobs => /\ s[p] * W - S * w[p] < W /\ s[p] * W - S * w[p] > -W
                            /\ w[p] > 0 => s[p] > 0
  BY <1>1, <1>5
<1> QED BY <1>2, <1>6 DEF SharesFollowWeights, w, s

\* Over a frame none of whose slices was given up, both pools are sent their part of
\* the jobs by weight to within one job and neither is left out; on the way neither
\* is more than a slice ahead (pool_slice_scheduler_next, job_task).
THEOREM SharesAreByWeight == SchedulerSpec => []SharesFollowWeights
<1>1. SchedulerInit => SchedInv BY SchedInvStarts
<1>2. SchedInv /\ [SchedulerNext]_schedulerVars => SchedInv' BY SchedInvKept
<1>3. SchedInv => SharesFollowWeights BY SharesFromInv
<1> QED BY <1>1, <1>2, <1>3, PTL DEF SchedulerSpec
=============================================================================
