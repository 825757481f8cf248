-------------------------- MODULE WorkSafetyProofs ---------------------------
(***************************************************************************)
(* SafeDispatch is an invariant of WorkPipeline, so no stale job outlives  *)
(* its reset and a paused miner is quiet, for every number of pools, slots *)
(* and control tasks; and every present job fits its pool's session.       *)
(*                                                                         *)
(* Most steps are outside the lock, or inside it without touching an epoch *)
(* or a job: OutsideLock and InsideLock deal with all of them at once.     *)
(***************************************************************************)
EXTENDS WorkPipelineProofs

-----------------------------------------------------------------------------

LEMMA NamesApart ==
  /\ \A t \in Tasks : t # Free /\ t # JobTask
  /\ JobTask # Free
  /\ \A p \in Pools, c \in Controls : p # c
  /\ \A p \in Pools : p # All /\ p \in Tasks
  /\ \A c \in Controls : c \in Tasks
BY NamesAssumption DEF Tasks

\* What the safety of dispatch depends on, tasks' places apart.
dispatchVars == <<workEpoch, poolEpoch, lock, paused, slots, jpc, held, curEpoch, job>>

\* Only the place of task t changes.
OnlyMoves(t) ==
  /\ UNCHANGED dispatchVars
  /\ pc' \in [Tasks -> Labels]
  /\ \A u \in Tasks \ {t} : pc'[u] = pc[u] /\ after'[u] = after[u] /\ scope'[u] = scope[u]

\* A task that neither holds the lock nor is about to empty the table may go
\* anywhere that is outside the lock too.
LEMMA OutsideLock ==
  ASSUME TypeOK, SafeDispatch, NEW t \in Tasks, OnlyMoves(t),
         pc[t] \notin Holding \cup {"quiesce"}, pc'[t] \notin Holding \cup {"quiesce"}
  PROVE  SafeDispatch'
<1> USE DEF OnlyMoves, dispatchVars
<1>1. LockOwner'
  BY DEF SafeDispatch, LockOwner
<1>2. FullReset'
  BY DEF SafeDispatch, FullReset, Holding, Reclaiming
<1>3. JobFresh'
  <2>1. \A u \in Tasks : pc[u] \in Reclaiming => u # t BY DEF Holding
  <2> QED BY <2>1 DEF SafeDispatch, JobFresh, Reclaimed, Current, Superseded
<1>4. OfEpoch' BY DEF SafeDispatch, OfEpoch
<1>5. SendCurrent' BY DEF SafeDispatch, SendCurrent, Current
<1>6. PausedIsQuiet'
  <2>1. PausePending => PausePending'
    BY NamesApart DEF PausePending, Holding
  <2> QED BY <2>1 DEF SafeDispatch, PausedIsQuiet, JobsOnChip
<1> QED BY <1>1, <1>2, <1>3, <1>4, <1>5, <1>6 DEF SafeDispatch

\* The lock's holder goes on with the same reset.
LEMMA InsideLock ==
  ASSUME TypeOK, SafeDispatch, NEW t \in Tasks, OnlyMoves(t),
         scope'[t] = scope[t], after'[t] = after[t],
         pc[t] \in Reclaiming, pc'[t] \in Reclaiming \ {"bumpPools"}
  PROVE  SafeDispatch'
<1> USE DEF OnlyMoves, dispatchVars
<1>1. LockOwner'
  <2>1. pc[t] \in Holding /\ pc'[t] \in Holding BY DEF Holding
  <2> QED BY <2>1 DEF SafeDispatch, LockOwner
<1>2. FullReset'
  BY DEF SafeDispatch, FullReset
<1>3. JobFresh'
  <2>1. \A u \in Tasks : pc[u] \in Reclaiming => pc'[u] \in Reclaiming OBVIOUS
  <2>2. \A u \in Tasks : scope'[u] = scope[u] OBVIOUS
  <2> QED BY <2>1, <2>2 DEF SafeDispatch, JobFresh, Reclaimed, Current, Superseded
<1>4. OfEpoch' BY DEF SafeDispatch, OfEpoch
<1>5. SendCurrent' BY DEF SafeDispatch, SendCurrent, Current
<1>6. PausedIsQuiet'
  <2>1. PausePending => PausePending'
    BY NamesApart DEF PausePending, Reclaiming
  <2> QED BY <2>1 DEF SafeDispatch, PausedIsQuiet, JobsOnChip
<1> QED BY <1>1, <1>2, <1>3, <1>4, <1>5, <1>6 DEF SafeDispatch

-----------------------------------------------------------------------------

LEMMA SafeInit == Init => SafeDispatch
<1> SUFFICES ASSUME Init PROVE SafeDispatch OBVIOUS
<1> USE DEF Init
<1>1. LockOwner BY NamesApart DEF LockOwner, Holding, Reclaiming
<1>2. FullReset BY DEF FullReset
<1>3. JobFresh BY DEF JobFresh
<1>4. OfEpoch BY DEF OfEpoch
<1>5. SendCurrent BY DEF SendCurrent
<1>6. PausedIsQuiet BY DEF PausedIsQuiet
<1> QED BY <1>1, <1>2, <1>3, <1>4, <1>5, <1>6 DEF SafeDispatch

\* No one else holds the lock while t does.
LEMMA OneHolder ==
  ASSUME SafeDispatch, NEW t \in Tasks, pc[t] \in Holding
  PROVE  /\ lock = t /\ jpc \notin {"locked", "send"}
         /\ \A u \in Tasks : u # t => pc[u] \notin Holding
BY NamesApart DEF SafeDispatch, LockOwner

\* While the lock is free every job on the chip is current.
LEMMA FreeIsFresh ==
  ASSUME SafeDispatch, lock \notin Tasks
  PROVE  \A s \in Slots : slots[s] # None => Current(slots[s])
BY DEF SafeDispatch, LockOwner, JobFresh, Reclaimed, Holding

LEMMA SafeResetStep ==
  ASSUME TypeOK, SafeDispatch, NEW t \in Tasks, ResetStep(t) PROVE SafeDispatch'
<1> USE DEF Goto, taskVars, chipVars, epochVars, rxVars, jobVars, countVars
<1>1. CASE Bump(t)
  <2>1. /\ pc[t] = "bump" /\ lock = Free /\ lock' = t
        /\ \/ pc' = [pc EXCEPT ![t] = "bumpPools"] /\ scope[t] = All
           \/ pc' = [pc EXCEPT ![t] = "count"]
    BY <1>1 DEF Bump
  <2>2. UNCHANGED <<jpc, held, curEpoch, job, slots, paused, after, scope>>
    BY <1>1 DEF Bump
  <2>3. pc \in [Tasks -> Labels] BY DEF TypeOK, TypeTasks
  <2>4. LockOwner'
    BY <2>1, <2>2, <2>3, NamesApart DEF SafeDispatch, LockOwner, Holding, Reclaiming
  <2>5. FullReset' BY <2>1, <2>2, <2>3 DEF SafeDispatch, FullReset
  <2>6. JobFresh'
    <3> SUFFICES ASSUME NEW s \in Slots, slots[s] # None,
                        ~Superseded(t, slots[s])
                 PROVE  Current(slots[s])'
      BY <2>1, <2>2, <2>3 DEF JobFresh, Reclaimed, Superseded, Reclaiming
    <3>1. Current(slots[s]) BY <2>1, FreeIsFresh, NamesApart
    <3>2. slots[s].pool \in Pools BY DEF TypeOK, TypeShared, Item
    <3>3. /\ scope[t] # All /\ workEpoch' = workEpoch
          /\ poolEpoch'[slots[s].pool] = poolEpoch[slots[s].pool]
      BY <1>1, <3>2 DEF Bump, Superseded, TypeOK, TypeShared
    <3> QED BY <3>1, <3>3, <2>2 DEF Current
  <2>7. OfEpoch' BY <2>2 DEF SafeDispatch, OfEpoch
  <2>8. jpc # "send" BY <2>1, NamesApart DEF SafeDispatch, LockOwner
  <2>9. SendCurrent' BY <2>2, <2>8 DEF SendCurrent
  <2>10. PausedIsQuiet'
    <3>1. PausePending => PausePending' BY <2>1, <2>2, <2>3 DEF PausePending, Tasks
    <3> QED BY <3>1, <2>2 DEF SafeDispatch, PausedIsQuiet, JobsOnChip
  <2> QED BY <2>4, <2>5, <2>6, <2>7, <2>9, <2>10 DEF SafeDispatch
<1>2. CASE BumpPools(t)
  <2>1. /\ pc[t] = "bumpPools"
        /\ pc' = pc \/ pc' = [pc EXCEPT ![t] = "drain"]
    BY <1>2 DEF BumpPools
  <2>2. UNCHANGED <<workEpoch, jpc, held, curEpoch, job, slots, paused, lock, after, scope>>
    BY <1>2 DEF BumpPools
  <2>3. pc \in [Tasks -> Labels] BY DEF TypeOK, TypeTasks
  <2>4. pc[t] \in Holding /\ pc'[t] \in Reclaiming /\ pc'[t] \in Holding
    BY <2>1, <2>3 DEF Holding, Reclaiming
  <2>5. LockOwner' BY <2>1, <2>2, <2>3, <2>4 DEF SafeDispatch, LockOwner
  <2>6. scope[t] = All BY <2>1 DEF SafeDispatch, FullReset
  <2>7. FullReset' BY <2>1, <2>2, <2>3 DEF SafeDispatch, FullReset
  <2>8. JobFresh' BY <2>2, <2>4, <2>6 DEF JobFresh, Reclaimed, Superseded
  <2>9. OfEpoch' BY <2>2 DEF SafeDispatch, OfEpoch
  <2>10. SendCurrent' BY <2>2, <2>4, OneHolder DEF SendCurrent
  <2>11. PausedIsQuiet'
    <3>1. PausePending => PausePending' BY <2>1, <2>2, <2>3 DEF PausePending, Tasks
    <3> QED BY <3>1, <2>2 DEF SafeDispatch, PausedIsQuiet, JobsOnChip
  <2> QED BY <2>5, <2>7, <2>8, <2>9, <2>10, <2>11 DEF SafeDispatch
<1>3. CASE Drain(t)
  <2>1. OnlyMoves(t)
    BY <1>3, TypeResetStep DEF OnlyMoves, dispatchVars, Drain, ResetStep, TypeOK, TypeTasks
  <2>2. pc[t] \in Reclaiming /\ pc'[t] \in Reclaiming \ {"bumpPools"}
    BY <1>3 DEF Drain, TypeOK, TypeTasks, Reclaiming
  <2>3. scope'[t] = scope[t] /\ after'[t] = after[t] BY <1>3 DEF Drain
  <2> QED BY <2>1, <2>2, <2>3, InsideLock
<1>4. CASE Clear(t)
  <2>1. pc[t] = "clear" /\ pc' = [pc EXCEPT ![t] = "mark"] BY <1>4 DEF Clear
  <2>2. UNCHANGED <<workEpoch, poolEpoch, jpc, held, curEpoch, job, paused, lock, after, scope>>
    BY <1>4 DEF Clear
  <2>3. pc \in [Tasks -> Labels] BY DEF TypeOK, TypeTasks
  <2>4. pc[t] \in Holding /\ pc'[t] \in Holding BY <2>1, <2>3 DEF Holding, Reclaiming
  <2>5. LockOwner' BY <2>1, <2>2, <2>3, <2>4 DEF SafeDispatch, LockOwner
  <2>6. FullReset' BY <2>1, <2>2, <2>3 DEF SafeDispatch, FullReset
  <2>7. \A s \in Slots : slots'[s] = IF Superseded(t, slots[s]) THEN None ELSE slots[s]
    BY <1>4 DEF Clear
  <2>8. JobFresh'
    <3> SUFFICES ASSUME NEW s \in Slots, slots'[s] # None PROVE Current(slots[s])
      BY <2>2, <2>7 DEF JobFresh, Reclaimed, Current
    <3>1. slots[s] # None /\ ~Superseded(t, slots[s]) BY <2>7
    <3>2. \A u \in Tasks : pc[u] \in Reclaiming => u = t BY <2>4, OneHolder DEF Holding
    <3> QED BY <3>1, <3>2 DEF SafeDispatch, JobFresh, Reclaimed
  <2>9. OfEpoch' BY <2>2 DEF SafeDispatch, OfEpoch
  <2>10. SendCurrent' BY <2>2, <2>4, OneHolder DEF SendCurrent
  <2>11. PausedIsQuiet'
    <3>1. PausePending => PausePending' BY <2>1, <2>2, <2>3 DEF PausePending, Tasks
    <3>2. JobsOnChip = {} => JobsOnChip' = {} BY <2>7 DEF JobsOnChip
    <3> QED BY <3>1, <3>2, <2>2 DEF SafeDispatch, PausedIsQuiet
  <2> QED BY <2>5, <2>6, <2>8, <2>9, <2>10, <2>11 DEF SafeDispatch
<1>5. CASE MarkAndGive(t)
  <2>1. /\ pc[t] = "mark" /\ pc' = [pc EXCEPT ![t] = after[t]] /\ lock' = Free
        /\ after' = [after EXCEPT ![t] = "idle"]
        /\ scope' = [scope EXCEPT ![t] = All]
    BY <1>5 DEF MarkAndGive
  <2>2. UNCHANGED <<workEpoch, poolEpoch, jpc, held, curEpoch, job, paused, slots>>
    BY <1>5 DEF MarkAndGive
  <2>3. /\ pc \in [Tasks -> Labels] /\ after \in [Tasks -> Labels]
        /\ scope \in [Tasks -> Pools \cup {All}]
    BY DEF TypeOK, TypeTasks
  <2>4. pc[t] \in Holding /\ pc[t] \notin Reclaiming BY <2>1 DEF Holding, Reclaiming
  <2>5. after[t] \notin Holding /\ after[t] # "quiesce"
    BY DEF TypeOK, InHand, ReturnKnown, Returns, Holding, Reclaiming
  <2>6. LockOwner'
    BY <2>1, <2>2, <2>3, <2>4, <2>5, OneHolder, NamesApart DEF SafeDispatch, LockOwner
  <2>7. FullReset' BY <2>1, <2>3, <2>5 DEF SafeDispatch, FullReset, Holding, Reclaiming
  <2>8. JobFresh'
    <3>1. \A u \in Tasks : pc[u] \notin Reclaiming BY <2>4, OneHolder DEF Holding
    <3> QED BY <2>2, <3>1 DEF SafeDispatch, JobFresh, Reclaimed, Current
  <2>9. OfEpoch' BY <2>2 DEF SafeDispatch, OfEpoch
  <2>10. SendCurrent' BY <2>2, <2>4, OneHolder DEF SendCurrent
  <2>11. PausedIsQuiet'
    <3>1. PausePending => PausePending' BY <2>1, <2>3 DEF PausePending, Tasks
    <3> QED BY <3>1, <2>2 DEF SafeDispatch, PausedIsQuiet, JobsOnChip
  <2> QED BY <2>6, <2>7, <2>8, <2>9, <2>10, <2>11 DEF SafeDispatch
<1> QED BY <1>1, <1>2, <1>3, <1>4, <1>5 DEF ResetStep

LEMMA SafeRotateStep ==
  ASSUME TypeOK, SafeDispatch, NEW t \in Tasks, RotateStep(t) PROVE SafeDispatch'
<1> USE DEF Goto, taskVars, chipVars, epochVars, rxVars, jobVars, countVars
<1>1. pc' \in [Tasks -> Labels] BY TypeRotateStep DEF TypeOK, TypeTasks
<1>2. pc \in [Tasks -> Labels] BY DEF TypeOK, TypeTasks
<1>3. OnlyMoves(t) /\ scope'[t] = scope[t] /\ after'[t] = after[t]
  BY <1>1, <1>2 DEF RotateStep, Count, RotateTake, RotatePut, RotateEnd, OnlyMoves,
                    dispatchVars
<1>4. CASE pc[t] \in {"count", "rotate", "rotatePut"}
  <2>1. pc[t] \in Reclaiming /\ pc'[t] \in Reclaiming \ {"bumpPools"}
    BY <1>2, <1>4 DEF RotateStep, Count, RotateTake, RotatePut, RotateEnd, Reclaiming
  <2> QED BY <1>3, <2>1, InsideLock
<1>5. CASE pc[t] \notin {"count", "rotate", "rotatePut"}
  <2>1. pc[t] \notin Holding \cup {"quiesce"} /\ pc'[t] \notin Holding \cup {"quiesce"}
    BY <1>2, <1>5
    DEF RotateStep, Count, RotateTake, RotatePut, RotateEnd, Holding, Reclaiming
  <2> QED BY <1>3, <2>1, OutsideLock
<1> QED BY <1>4, <1>5

LEMMA SafeRxStep ==
  ASSUME TypeOK, SafeDispatch, NEW p \in Pools, RxStep(p) PROVE SafeDispatch'
<1> USE DEF Goto, StartReset, NewMsg, taskVars, chipVars, epochVars, rxVars, jobVars,
            countVars
<1>1. p \in Tasks BY DEF Tasks
<1>2. pc' \in [Tasks -> Labels] BY TypeRxStep DEF TypeOK, TypeTasks
<1>3. /\ pc \in [Tasks -> Labels] /\ after \in [Tasks -> Labels]
      /\ scope \in [Tasks -> Pools \cup {All}]
  BY DEF TypeOK, TypeTasks
<1>4. OnlyMoves(p)
  BY <1>1, <1>2, <1>3
  DEF RxStep, RxDial, RxSetup, RxConnected, RxGiveUp, RxLinkLost, RxSubscribed,
      RxSetExtranonce, RxStoreExtranonce, RxSetDifficulty, RxVersionMask, RxUnusableMask,
      RxCloseSelf, RxNotify, EnqEpoch, EnqSession, EnqSend, OnlyMoves, dispatchVars
<1>5. pc[p] \notin Holding \cup {"quiesce"} /\ pc'[p] \notin Holding \cup {"quiesce"}
  BY <1>1, <1>3
  DEF RxStep, RxDial, RxSetup, RxConnected, RxGiveUp, RxLinkLost, RxSubscribed,
      RxSetExtranonce, RxStoreExtranonce, RxSetDifficulty, RxVersionMask, RxUnusableMask,
      RxCloseSelf, RxNotify, EnqEpoch, EnqSession, EnqSend, Holding, Reclaiming
<1> QED BY <1>1, <1>4, <1>5, OutsideLock

LEMMA SafeCtlStep ==
  ASSUME TypeOK, SafeDispatch, NEW c \in Controls, CtlStep(c) PROVE SafeDispatch'
<1> USE DEF Goto, StartReset, NewOp, taskVars, chipVars, epochVars, rxVars, jobVars,
            countVars
<1>1. c \in Tasks BY DEF Tasks
<1>2. pc' \in [Tasks -> Labels] BY TypeCtlStep DEF TypeOK, TypeTasks
<1>3. /\ pc \in [Tasks -> Labels] /\ after \in [Tasks -> Labels]
      /\ scope \in [Tasks -> Pools \cup {All}]
  BY DEF TypeOK, TypeTasks
<1>4. CASE \/ CtlSettings(c) \/ CtlReconnectAll(c) \/ CtlReconnectMask(c)
           \/ CtlReconnectNext(c) \/ CtlClose(c)
  <2>1. OnlyMoves(c)
    BY <1>1, <1>2, <1>3, <1>4
    DEF CtlSettings, CtlReconnectAll, CtlReconnectMask, CtlReconnectNext,
        CtlClose, OnlyMoves, dispatchVars
  <2>2. pc[c] \notin Holding \cup {"quiesce"} /\ pc'[c] \notin Holding \cup {"quiesce"}
    BY <1>1, <1>3, <1>4
    DEF CtlSettings, CtlReconnectAll, CtlReconnectMask, CtlReconnectNext,
        CtlClose, Holding, Reclaiming
  <2> QED BY <1>1, <2>1, <2>2, OutsideLock
<1>5. ASSUME \/ CtlPause(c) \/ CtlResume(c) \/ CtlQuiesceLock(c) \/ CtlQuiesceClear(c)
             \/ CtlResumed(c)
      PROVE  /\ UNCHANGED <<workEpoch, poolEpoch, jpc, held, curEpoch, job, scope>>
             /\ \A t \in Tasks \ {c} : pc'[t] = pc[t] /\ after'[t] = after[t]
             /\ pc[c] \notin Reclaiming /\ pc'[c] \notin Reclaiming
  <2>1. after[c] \notin Reclaiming
    BY <1>1 DEF TypeOK, InHand, ReturnKnown, Returns, Reclaiming
  <2> QED BY <1>1, <1>3, <1>5, <2>1
          DEF CtlPause, CtlResume, CtlQuiesceLock, CtlQuiesceClear, CtlResumed, Reclaiming
<1>6. ASSUME \/ CtlPause(c) \/ CtlResume(c) \/ CtlQuiesceLock(c) \/ CtlQuiesceClear(c)
             \/ CtlResumed(c),
             LockOwner', PausedIsQuiet', \A s \in Slots : slots'[s] \in {slots[s], None}
      PROVE  SafeDispatch'
  <2>1. FullReset' BY <1>5, <1>6 DEF SafeDispatch, FullReset, Reclaiming
  <2>2. \A t \in Tasks : pc[t] \in Reclaiming => pc'[t] \in Reclaiming BY <1>5, <1>6
  <2>3. JobFresh' BY <1>5, <1>6, <2>2 DEF SafeDispatch, JobFresh, Reclaimed, Current, Superseded
  <2>4. OfEpoch' BY <1>5, <1>6 DEF SafeDispatch, OfEpoch
  <2>5. SendCurrent' BY <1>5, <1>6 DEF SafeDispatch, SendCurrent, Current
  <2> QED BY <1>6, <2>1, <2>3, <2>4, <2>5 DEF SafeDispatch
<1>7. CASE CtlPause(c)
  <2>1. /\ pc[c] = "idle" /\ pc' = [pc EXCEPT ![c] = "quiesce"] /\ slots' = slots
        /\ lock' = lock /\ after'[c] # "resume"
    BY <1>1, <1>3, <1>7 DEF CtlPause
  <2>2. LockOwner'
    BY <1>1, <1>3, <1>5, <1>7, <2>1 DEF SafeDispatch, LockOwner, Holding, Reclaiming
  <2>3. PausedIsQuiet' BY <1>1, <1>3, <2>1 DEF PausedIsQuiet, PausePending
  <2> QED BY <1>6, <1>7, <2>1, <2>2, <2>3
<1>8. CASE CtlResume(c)
  <2>1. /\ pc[c] \in {"idle", "tune"} /\ pc' = [pc EXCEPT ![c] = "quiesce"]
        /\ UNCHANGED <<slots, lock, paused>>
    BY <1>8 DEF CtlResume
  <2>2. LockOwner'
    BY <1>1, <1>3, <1>5, <1>8, <2>1 DEF SafeDispatch, LockOwner, Holding, Reclaiming
  <2>3. PausePending => PausePending' BY <1>1, <1>3, <1>5, <1>8, <2>1 DEF PausePending, Tasks
  <2>4. PausedIsQuiet'
    BY <1>5, <1>8, <2>1, <2>3 DEF SafeDispatch, PausedIsQuiet, JobsOnChip
  <2> QED BY <1>6, <1>8, <2>1, <2>2, <2>4
<1>9. CASE CtlQuiesceLock(c)
  <2>1. /\ pc[c] = "quiesce" /\ pc' = [pc EXCEPT ![c] = "quiesceClear"]
        /\ lock = Free /\ lock' = c /\ UNCHANGED <<slots, paused, after>>
    BY <1>9 DEF CtlQuiesceLock
  <2>2. LockOwner'
    BY <1>1, <1>3, <1>5, <1>9, <2>1, NamesApart
    DEF SafeDispatch, LockOwner, Holding, Reclaiming
  <2>3. PausePending => PausePending' BY <1>1, <1>3, <1>5, <1>9, <2>1 DEF PausePending, Tasks
  <2>4. PausedIsQuiet'
    BY <1>5, <1>9, <2>1, <2>3 DEF SafeDispatch, PausedIsQuiet, JobsOnChip
  <2> QED BY <1>6, <1>9, <2>1, <2>2, <2>4
<1>10. CASE CtlQuiesceClear(c)
  <2>1. /\ pc[c] = "quiesceClear" /\ pc' = [pc EXCEPT ![c] = after[c]] /\ lock' = Free
        /\ \A s \in Slots : slots'[s] = None
    BY <1>10 DEF CtlQuiesceClear
  <2>2. pc[c] \in Holding BY <2>1 DEF Holding
  <2>3. after[c] \notin Holding
    BY <1>1 DEF TypeOK, InHand, ReturnKnown, Returns, Holding, Reclaiming
  <2>4. LockOwner'
    BY <1>1, <1>3, <1>5, <1>10, <2>1, <2>2, <2>3, OneHolder, NamesApart
    DEF SafeDispatch, LockOwner
  <2>5. jpc' # "send" BY <1>1, <1>5, <1>10, <2>2, OneHolder
  <2>6. PausedIsQuiet' BY <2>1, <2>5 DEF PausedIsQuiet, JobsOnChip
  <2> QED BY <1>6, <1>10, <2>1, <2>4, <2>6
<1>11. CASE CtlResumed(c)
  <2>1. /\ pc[c] = "resume" /\ pc' = [pc EXCEPT ![c] = "idle"] /\ paused' = FALSE
        /\ UNCHANGED <<slots, lock>>
    BY <1>11 DEF CtlResumed
  <2>2. LockOwner'
    BY <1>1, <1>3, <1>5, <1>11, <2>1 DEF SafeDispatch, LockOwner, Holding, Reclaiming
  <2>3. PausedIsQuiet' BY <2>1 DEF PausedIsQuiet
  <2> QED BY <1>6, <1>11, <2>1, <2>2, <2>3
<1> QED BY <1>4, <1>7, <1>8, <1>9, <1>10, <1>11 DEF CtlStep

\* The job task moves no other task and no epoch.
LEMMA JobFrame ==
  ASSUME JobStep
  PROVE  UNCHANGED <<workEpoch, poolEpoch, pc, after, scope, paused>>
BY DEF JobStep, JobReceive, JobSync, JobApply, JobQueueEmpty, JobSelect, JobNothingToSend,
       JobLock, JobRecheck, JobSend, taskVars, epochVars

\* So a step that leaves the lock and the chip alone, does not send and keeps
\* the work it holds of its epoch is safe.
LEMMA JobPrepares ==
  ASSUME TypeOK, SafeDispatch, JobStep, UNCHANGED <<lock, slots>>,
         jpc \notin {"locked", "send"}, jpc' \notin {"locked", "send"}, OfEpoch'
  PROVE  SafeDispatch'
<1>1. LockOwner' BY JobFrame DEF SafeDispatch, LockOwner
<1>2. FullReset' BY JobFrame DEF SafeDispatch, FullReset
<1>3. JobFresh' BY JobFrame DEF SafeDispatch, JobFresh, Reclaimed, Current, Superseded
<1>4. SendCurrent' BY DEF SendCurrent
<1>5. PausedIsQuiet' BY JobFrame DEF SafeDispatch, PausedIsQuiet, PausePending, JobsOnChip
<1> QED BY <1>1, <1>2, <1>3, <1>4, <1>5 DEF SafeDispatch

LEMMA SafeJobStep ==
  ASSUME TypeOK, SafeDispatch, JobStep PROVE SafeDispatch'
<1> USE DEF JobGoto, taskVars, chipVars, epochVars, rxVars, jobVars, countVars
<1>1. OfEpoch BY DEF SafeDispatch
<1>2. /\ held \in [Pools -> Item \cup {None}] /\ jpc \in JobLabels
      /\ slots \in [Slots -> Item \cup {None}] /\ slot \in Slots
  BY DEF TypeOK, TypeJob, TypeShared
<1>3. CASE JobReceive
  <2>1. OfEpoch' BY <1>1, <1>3 DEF JobReceive, OfEpoch
  <2> QED BY <1>3, <2>1, JobPrepares DEF JobReceive
<1>4. CASE JobSync
  <2>1. OfEpoch' BY <1>1, <1>4 DEF JobSync, SyncEpoch, NothingHeld, OfEpoch
  <2> QED BY <1>4, <2>1, JobPrepares DEF JobSync
<1>5. CASE JobApply
  <2>1. /\ jpc = "apply" /\ jpc' = "recv"
        /\ \/ held' = NothingHeld
           \/ curEpoch' = curEpoch /\ held' = [held EXCEPT ![incoming.pool] = None]
           \/ curEpoch' = curEpoch /\ held' = held
           \/ /\ curEpoch' = curEpoch /\ incoming.epoch = curEpoch
              /\ held' = [held EXCEPT ![incoming.pool] = incoming]
    BY <1>5 DEF JobApply
  <2>2. OfEpoch' BY <1>1, <1>2, <2>1 DEF OfEpoch, NothingHeld
  <2> QED BY <1>5, <2>2, JobPrepares DEF JobApply
<1>6. CASE JobQueueEmpty
  <2>1. OfEpoch' BY <1>1, <1>6 DEF JobQueueEmpty, SyncEpoch, NothingHeld, OfEpoch
  <2> QED BY <1>6, <2>1, JobPrepares DEF JobQueueEmpty
<1>7. ASSUME NEW p \in Pools, JobSelect(p) PROVE SafeDispatch'
  <2>1. OfEpoch' BY <1>1, <1>7 DEF JobSelect, Ready, OfEpoch
  <2> QED BY <1>7, <2>1, JobPrepares DEF JobSelect
<1>8. CASE JobNothingToSend
  <2>1. OfEpoch' BY <1>1, <1>8 DEF JobNothingToSend, OfEpoch
  <2> QED BY <1>8, <2>1, JobPrepares DEF JobNothingToSend
<1>9. CASE JobLock
  <2>1. /\ jpc = "built" /\ jpc' = "locked" /\ lock = Free /\ lock' = JobTask
        /\ UNCHANGED <<held, curEpoch, job, slots>>
    BY <1>9 DEF JobLock
  <2>2. LockOwner' BY <2>1, JobFrame, NamesApart DEF SafeDispatch, LockOwner
  <2>3. FullReset' BY JobFrame DEF SafeDispatch, FullReset
  <2>4. JobFresh' BY <2>1, JobFrame DEF SafeDispatch, JobFresh, Reclaimed, Current, Superseded
  <2>5. OfEpoch' BY <1>1, <2>1 DEF OfEpoch
  <2>6. SendCurrent' BY <2>1 DEF SendCurrent
  <2>7. PausedIsQuiet'
    BY <2>1, JobFrame DEF SafeDispatch, PausedIsQuiet, PausePending, JobsOnChip
  <2> QED BY <2>2, <2>3, <2>4, <2>5, <2>6, <2>7 DEF SafeDispatch
<1>10. CASE JobRecheck
  <2>1. /\ jpc = "locked" /\ UNCHANGED <<held, curEpoch, slots>>
        /\ \/ MaySend /\ jpc' = "send" /\ UNCHANGED <<lock, job>>
           \/ lock' = Free /\ jpc' = "recv"
    BY <1>10 DEF JobRecheck
  <2>2. LockOwner' BY <2>1, JobFrame, NamesApart DEF SafeDispatch, LockOwner
  <2>3. FullReset' BY JobFrame DEF SafeDispatch, FullReset
  <2>4. JobFresh' BY <2>1, JobFrame DEF SafeDispatch, JobFresh, Reclaimed, Current, Superseded
  <2>5. OfEpoch' BY <1>1, <2>1 DEF OfEpoch
  <2>6. SendCurrent' BY <1>1, <2>1, JobFrame DEF SendCurrent, OfEpoch, MaySend, Current
  <2>7. PausedIsQuiet'
    BY <2>1, JobFrame DEF SafeDispatch, PausedIsQuiet, PausePending, JobsOnChip, MaySend
  <2> QED BY <2>2, <2>3, <2>4, <2>5, <2>6, <2>7 DEF SafeDispatch
<1>11. CASE JobSend
  <2>1. /\ jpc = "send" /\ jpc' = "recv" /\ lock' = Free
        /\ UNCHANGED <<held, curEpoch>>
        /\ \A s \in Slots : slots'[s] \in {slots[s], job}
    BY <1>2, <1>11 DEF JobSend
  <2>2. lock = JobTask BY <2>1 DEF SafeDispatch, LockOwner
  <2>3. LockOwner' BY <2>1, <2>2, JobFrame, NamesApart DEF SafeDispatch, LockOwner
  <2>4. FullReset' BY JobFrame DEF SafeDispatch, FullReset
  <2>5. JobFresh'
    <3>1. Current(job) BY <2>1 DEF SafeDispatch, SendCurrent
    <3>2. \A s \in Slots : slots[s] # None => Current(slots[s])
      BY <2>2, FreeIsFresh, NamesApart
    <3> QED BY <2>1, <3>1, <3>2, JobFrame DEF JobFresh, Reclaimed, Current
  <2>6. OfEpoch' BY <1>1, <2>1 DEF OfEpoch
  <2>7. SendCurrent' BY <2>1 DEF SendCurrent
  <2>8. PausedIsQuiet' BY <2>1, JobFrame DEF SafeDispatch, PausedIsQuiet, PausePending
  <2> QED BY <2>3, <2>4, <2>5, <2>6, <2>7, <2>8 DEF SafeDispatch
<1> QED BY <1>3, <1>4, <1>5, <1>6, <1>7, <1>8, <1>9, <1>10, <1>11 DEF JobStep

LEMMA SafeNext == TypeOK /\ SafeDispatch /\ [Next]_vars => SafeDispatch'
<1> SUFFICES ASSUME TypeOK, SafeDispatch, [Next]_vars PROVE SafeDispatch'
  OBVIOUS
<1>1. ASSUME NEW t \in Tasks, ResetStep(t) PROVE SafeDispatch' BY <1>1, SafeResetStep
<1>2. ASSUME NEW t \in Tasks, RotateStep(t) PROVE SafeDispatch' BY <1>2, SafeRotateStep
<1>3. ASSUME NEW p \in Pools, RxStep(p) PROVE SafeDispatch' BY <1>3, SafeRxStep
<1>4. ASSUME NEW c \in Controls, CtlStep(c) PROVE SafeDispatch' BY <1>4, SafeCtlStep
<1>5. CASE JobStep BY <1>5, SafeJobStep
<1>6. CASE UNCHANGED vars
  BY <1>6
  DEF vars, taskVars, chipVars, epochVars, rxVars, jobVars, countVars, SafeDispatch,
      LockOwner, FullReset, JobFresh, Reclaimed, OfEpoch, SendCurrent, Current, Superseded,
      PausedIsQuiet, PausePending, JobsOnChip
<1> QED BY <1>1, <1>2, <1>3, <1>4, <1>5, <1>6 DEF Next

-----------------------------------------------------------------------------

\* Between taking g_work_reset_lock and giving it back no task leaves the chip a
\* job the lock's holder would not know of (reset_work_state, pause_work,
\* generate_and_send_work).
THEOREM DispatchSafe == Spec => []SafeDispatch
<1>1. Init => SafeDispatch BY SafeInit
<1>2. TypeOK /\ SafeDispatch /\ [Next]_vars => SafeDispatch' BY SafeNext
<1> QED BY <1>1, <1>2, TypeCorrect, PTL DEF Spec

\* Whatever the order of pool messages, lost connections, settings saves and
\* tunings, the ASIC's job table holds no job of a superseded epoch once the
\* reset lock is free (reset_work_state, reset_pool_work_state).
THEOREM NoStaleJobs == Spec => []NoStaleJob
<1>1. SafeDispatch => NoStaleJob
  BY NamesApart, FreeIsFresh DEF NoStaleJob, JobsOnChip
<1> QED BY <1>1, DispatchSafe, PTL

\* Once every stratum_minimal_pause_work has returned and none was resumed, the
\* table is empty and no job is on its way into it: a frequency or voltage change
\* that follows meets a quiet chip.
THEOREM PausedChipIsQuiet == Spec => []PausedIsQuiet
<1>1. SafeDispatch => PausedIsQuiet BY DEF SafeDispatch
<1> QED BY <1>1, DispatchSafe, PTL

-----------------------------------------------------------------------------
(* JobsMatchSession.  Work is followed from the receive task that builds   *)
(* it to the chip: wherever it lies, work of the present epochs fits its   *)
(* session, or the session's task has changed the session and is about to  *)
(* supersede it.  A work that is not of the present never becomes so.      *)

\* A draft that carries the session's parameters.
Filled == Drafting \ {"enqPool"}

\* Work on its way from a receive task to the chip, wherever it is.
InPlay(w) ==
    \/ \E i \in 1 .. Len(queue) : queue[i] = w
    \/ \E t \in Tasks : hand[t] = w
    \/ \E q \in Pools : held[q] = w
    \/ \E s \in Slots : slots[s] = w
    \/ incoming = w \/ job = w
    \/ \E p \in Pools : pc[p] \in Filled /\ draft[p] = w
Works == {w \in Item : w.kind = "work" /\ InPlay(w)}

\* A receive task that resets, past the bump.
AfterBump == Reclaiming \cup {"mark"}

\* What a work of the present epochs must be: fit for its session, or about to be
\* superseded by the session's own task.
Fits(w) ==
    Current(w) => /\ BuiltForSession(w) \/ pc[w.pool] = "bump"
                  /\ pc[w.pool] \notin AfterBump \cup {"setXn"}
Known(w) == w.epoch <= workEpoch /\ w.poolEpoch <= poolEpoch[w.pool]
WorksFit == \A w \in Works : Known(w) /\ Fits(w)

\* Where a receive task is while its session has no connection, and what a reset
\* of its supersedes.
Offline(p) == \/ pc[p] \in {"idle", "dialled", "setup"}
              \/ pc[p] \in AfterBump \cup {"bump"} /\ after[p] \in {"idle", "dialled"}
Sessions == \A p \in Pools : /\ scope[p] \in {p, All}
                             /\ Offline(p) => ~sess[p].connected
Drafts == \A p \in Pools : pc[p] \in Drafting =>
              /\ draft[p].kind = "work" /\ draft[p].pool = p
              /\ draft[p].epoch <= workEpoch /\ ~sess[p].disabled
OnlyWork == /\ \A q \in Pools : held[q] # None => held[q].kind = "work"
            /\ \A s \in Slots : slots[s] # None => slots[s].kind = "work"
            /\ job # None => job.kind = "work"
MatchInv == WorksFit /\ Sessions /\ Drafts /\ OnlyWork

USE DEF AfterBump, Reclaiming, Filled, Drafting

LEMMA EpochsGrow ==
  ASSUME TypeOK, Next
  PROVE  workEpoch <= workEpoch' /\ \A p \in Pools : poolEpoch[p] <= poolEpoch'[p]
<1>0. workEpoch \in Nat /\ poolEpoch \in [Pools -> Nat] BY DEF TypeOK, TypeShared
<1>1. ASSUME NEW t \in Tasks, Bump(t)
      PROVE  workEpoch <= workEpoch' /\ \A p \in Pools : poolEpoch[p] <= poolEpoch'[p]
  BY <1>0, <1>1 DEF Bump
<1>2. ASSUME NEW t \in Tasks, BumpPools(t)
      PROVE  workEpoch <= workEpoch' /\ \A p \in Pools : poolEpoch[p] <= poolEpoch'[p]
  BY <1>0, <1>2 DEF BumpPools
<1>3. ASSUME UNCHANGED epochVars
      PROVE  workEpoch <= workEpoch' /\ \A p \in Pools : poolEpoch[p] <= poolEpoch'[p]
  BY <1>0, <1>3 DEF epochVars
<1>4. ASSUME NEW t \in Tasks, ResetStep(t), ~Bump(t), ~BumpPools(t) PROVE UNCHANGED epochVars
  BY <1>4 DEF ResetStep, Drain, Clear, MarkAndGive
<1>5. ASSUME NEW t \in Tasks, RotateStep(t) PROVE UNCHANGED epochVars
  BY <1>5 DEF RotateStep, Count, RotateTake, RotatePut, RotateEnd
<1>6. ASSUME NEW p \in Pools, RxStep(p) PROVE UNCHANGED epochVars
  BY <1>6 DEF RxStep, RxDial, RxSetup, RxConnected, RxGiveUp, RxLinkLost, RxSubscribed,
      RxSetExtranonce, RxStoreExtranonce, RxSetDifficulty, RxVersionMask, RxUnusableMask,
      RxCloseSelf, RxNotify, EnqEpoch, EnqSession, EnqSend
<1>7. ASSUME NEW c \in Controls, CtlStep(c) PROVE UNCHANGED epochVars
  BY <1>7 DEF CtlStep, CtlSettings, CtlReconnectAll, CtlReconnectMask, CtlReconnectNext,
     CtlClose, CtlPause, CtlResume, CtlQuiesceLock, CtlQuiesceClear, CtlResumed
<1>8. ASSUME JobStep PROVE UNCHANGED epochVars
  BY <1>8 DEF JobStep, JobReceive, JobSync, JobApply, JobQueueEmpty, JobSelect,
     JobNothingToSend, JobLock, JobRecheck, JobSend
<1> QED BY <1>1, <1>2, <1>3, <1>4, <1>5, <1>6, <1>7, <1>8 DEF Next

\* A known work never becomes current again.
LEMMA StaysStale ==
  ASSUME TypeOK, TypeOK', Next, NEW w \in Item, Known(w)
  PROVE  Known(w)' /\ (Current(w)' => Current(w))
<1>1. /\ w.pool \in Pools /\ w.epoch \in Nat /\ w.poolEpoch \in Nat
      /\ workEpoch \in Nat /\ workEpoch' \in Nat
      /\ poolEpoch[w.pool] \in Nat /\ poolEpoch'[w.pool] \in Nat
  BY DEF Item, TypeOK, TypeShared
<1>2. workEpoch <= workEpoch' /\ poolEpoch[w.pool] <= poolEpoch'[w.pool]
  BY <1>1, EpochsGrow
<1> QED BY <1>1, <1>2 DEF Known, Current

\* Where work is kept, by place: a step that puts nowhere a work that was in none
\* of them makes none.
LEMMA WorksKept ==
  ASSUME \A i \in 1 .. Len(queue') : InPlay(queue'[i]) \/ queue'[i].kind # "work",
         \A t \in Tasks : hand'[t] = None \/ InPlay(hand'[t]),
         \A q \in Pools : held'[q] = None \/ InPlay(held'[q]),
         \A s \in Slots : slots'[s] = None \/ InPlay(slots'[s]),
         incoming' = None \/ InPlay(incoming'), job' = None \/ InPlay(job'),
         \A p \in Pools : pc'[p] \in Filled => InPlay(draft'[p])
  PROVE  Works' \subseteq Works
<1> SUFFICES ASSUME NEW w \in Item, w.kind = "work", InPlay(w)' PROVE InPlay(w)
  BY DEF Works
<1>1. w # None BY NoneAssumption
<1>2. CASE \E i \in 1 .. Len(queue') : queue'[i] = w BY <1>2
<1>3. CASE \E t \in Tasks : hand'[t] = w BY <1>1, <1>3
<1>4. CASE \E q \in Pools : held'[q] = w BY <1>1, <1>4
<1>5. CASE \E s \in Slots : slots'[s] = w BY <1>1, <1>5
<1>6. CASE incoming' = w \/ job' = w BY <1>1, <1>6
<1>7. CASE \E p \in Pools : pc'[p] \in Filled /\ draft'[p] = w BY <1>7
<1> QED BY <1>2, <1>3, <1>4, <1>5, <1>6, <1>7 DEF InPlay

LEMMA TailParts ==
  ASSUME queue \in Seq(Item), queue # <<>>
  PROVE  /\ \A i \in 1 .. Len(Tail(queue)) : InPlay(Tail(queue)[i])
         /\ InPlay(Head(queue))
<1>1. ASSUME NEW i \in 1 .. Len(Tail(queue)) PROVE InPlay(Tail(queue)[i])
  <2>1. i + 1 \in 1 .. Len(queue) /\ Tail(queue)[i] = queue[i + 1] OBVIOUS
  <2> QED BY <2>1 DEF InPlay
<1>2. 1 \in 1 .. Len(queue) /\ Head(queue) = queue[1] OBVIOUS
<1> QED BY <1>1, <1>2 DEF InPlay

LEMMA AppendParts ==
  ASSUME queue \in Seq(Item), NEW x, NEW i \in 1 .. Len(Append(queue, x))
  PROVE  Append(queue, x)[i] = x \/ InPlay(Append(queue, x)[i])
<1>1. CASE i = Len(queue) + 1 BY <1>1
<1>2. CASE i # Len(queue) + 1
  <2>1. i \in 1 .. Len(queue) /\ Append(queue, x)[i] = queue[i] BY <1>2
  <2> QED BY <2>1 DEF InPlay
<1> QED BY <1>1, <1>2

\* Every place keeps what it has, but for those named in a step.
LEMMA PlacesKept ==
  /\ \A i \in 1 .. Len(queue) : InPlay(queue[i])
  /\ \A t \in Tasks : InPlay(hand[t])
  /\ \A q \in Pools : InPlay(held[q])
  /\ \A s \in Slots : InPlay(slots[s])
  /\ InPlay(incoming) /\ InPlay(job)
  /\ \A p \in Pools : pc[p] \in Filled => InPlay(draft[p])
BY DEF InPlay

DraftsKept == \A p \in Pools : pc'[p] \in Filled => pc[p] \in Filled /\ draft'[p] = draft[p]

LEMMA WorksStill ==
  ASSUME UNCHANGED <<queue, hand, held, slots, incoming, job>>, DraftsKept
  PROVE  Works' \subseteq Works
<1> QED BY PlacesKept, WorksKept DEF DraftsKept

LEMMA WorksReset ==
  ASSUME TypeOK, NEW t \in Tasks, ResetStep(t)
  PROVE  Works' \subseteq Works
<1> USE DEF Goto
<1>0. /\ pc \in [Tasks -> Labels] /\ queue \in Seq(Item) /\ Pools \subseteq Tasks
      /\ after[t] \in Returns
  BY DEF TypeOK, TypeTasks, TypeShared, Tasks, InHand, ReturnKnown
<1>1. DraftsKept
  BY <1>0 DEF ResetStep, Bump, BumpPools, Drain, Clear, MarkAndGive, Returns, DraftsKept, rxVars
<1>2. UNCHANGED <<hand, held, incoming, job>>
  BY DEF ResetStep, Bump, BumpPools, Drain, Clear, MarkAndGive, jobVars
<1>3. CASE Bump(t) \/ BumpPools(t)
  BY <1>1, <1>2, <1>3, WorksStill DEF Bump, BumpPools, chipVars
<1>4. CASE Drain(t)
  <2>1. slots' = slots /\ (queue' = queue \/ (queue # <<>> /\ queue' = Tail(queue)))
    BY <1>4 DEF Drain, chipVars
  <2>2. \A i \in 1 .. Len(queue') : InPlay(queue'[i])
    BY <1>0, <2>1, TailParts, PlacesKept
  <2> QED BY <1>1, <1>2, <2>1, <2>2, PlacesKept, WorksKept DEF DraftsKept
<1>5. CASE Clear(t)
  <2>1. queue' = queue /\ \A s \in Slots : slots'[s] \in {None, slots[s]} BY <1>5 DEF Clear
  <2> QED BY <1>1, <1>2, <2>1, PlacesKept, WorksKept DEF DraftsKept
<1>6. CASE MarkAndGive(t)
  <2>1. slots' = slots BY <1>6 DEF MarkAndGive, chipVars
  <2>2. \/ queue' = queue
        \/ \E m : m.kind # "work" /\ queue' = Append(queue, m)
    BY <1>6 DEF MarkAndGive, Marker
  <2>3. ASSUME NEW i \in 1 .. Len(queue') PROVE InPlay(queue'[i]) \/ queue'[i].kind # "work"
    BY <1>0, <2>2, AppendParts, PlacesKept
  <2> QED BY <1>1, <1>2, <2>1, <2>3, PlacesKept, WorksKept DEF DraftsKept
<1> QED BY <1>3, <1>4, <1>5, <1>6 DEF ResetStep

LEMMA WorksRotate ==
  ASSUME TypeOK, NEW t \in Tasks, RotateStep(t)
  PROVE  Works' \subseteq Works
<1> USE DEF Goto
<1>0. /\ pc \in [Tasks -> Labels] /\ queue \in Seq(Item) /\ Pools \subseteq Tasks
      /\ hand \in [Tasks -> Item \cup {None}]
  BY DEF TypeOK, TypeTasks, TypeShared, Tasks
<1>1. DraftsKept
  BY <1>0 DEF RotateStep, Count, RotateTake, RotatePut, RotateEnd, DraftsKept, rxVars
<1>2. UNCHANGED <<slots, held, incoming, job>>
  BY DEF RotateStep, Count, RotateTake, RotatePut, RotateEnd, jobVars, chipVars
<1>3. CASE Count(t) \/ RotateEnd(t)
  BY <1>1, <1>2, <1>3, WorksStill DEF Count, RotateEnd
<1>4. CASE RotateTake(t)
  <2>1. /\ queue # <<>> /\ queue' = Tail(queue)
        /\ \A u \in Tasks : hand'[u] \in {hand[u], Head(queue)}
    BY <1>0, <1>4 DEF RotateTake, RotationDone
  <2>2. \A i \in 1 .. Len(queue') : InPlay(queue'[i]) BY <1>0, <2>1, TailParts
  <2>3. \A u \in Tasks : InPlay(hand'[u]) BY <1>0, <2>1, TailParts, PlacesKept
  <2> QED BY <1>1, <1>2, <2>2, <2>3, PlacesKept, WorksKept DEF DraftsKept
<1>5. CASE RotatePut(t)
  <2>1. /\ queue' = queue \/ queue' = Append(queue, hand[t])
        /\ \A u \in Tasks : hand'[u] \in {hand[u], None}
    BY <1>0, <1>5 DEF RotatePut
  <2>2. \A i \in 1 .. Len(queue') : InPlay(queue'[i])
    BY <1>0, <2>1, AppendParts, PlacesKept
  <2> QED BY <1>1, <1>2, <2>1, <2>2, PlacesKept, WorksKept DEF DraftsKept
<1> QED BY <1>3, <1>4, <1>5 DEF RotateStep

LEMMA WorksCtl ==
  ASSUME TypeOK, NEW c \in Controls, CtlStep(c)
  PROVE  Works' \subseteq Works
<1> USE DEF Goto
<1>0. /\ pc \in [Tasks -> Labels] /\ c \in Tasks /\ Pools \subseteq Tasks /\ c \notin Pools
  BY NamesAssumption DEF TypeOK, TypeTasks, Tasks
<1>1. \A p \in Pools : pc'[p] = pc[p]
  BY <1>0 DEF CtlStep, CtlSettings, CtlReconnectAll, CtlReconnectMask, CtlReconnectNext,
     CtlClose, CtlPause, CtlResume, CtlQuiesceLock, CtlQuiesceClear, CtlResumed, StartReset
<1>2. UNCHANGED <<queue, hand, held, incoming, job, draft>>
  BY DEF CtlStep, CtlSettings, CtlReconnectAll, CtlReconnectMask, CtlReconnectNext,
     CtlClose, CtlPause, CtlResume, CtlQuiesceLock, CtlQuiesceClear, CtlResumed, jobVars, rxVars
<1>3. \A s \in Slots : slots'[s] \in {slots[s], None}
  BY DEF CtlStep, CtlSettings, CtlReconnectAll, CtlReconnectMask, CtlReconnectNext,
     CtlClose, CtlPause, CtlResume, CtlQuiesceLock, CtlQuiesceClear, CtlResumed, chipVars
<1> QED BY <1>1, <1>2, <1>3, PlacesKept, WorksKept

LEMMA WorksJob ==
  ASSUME TypeOK, JobStep
  PROVE  Works' \subseteq Works
<1>0. /\ queue \in Seq(Item) /\ held \in [Pools -> Item \cup {None}]
      /\ slots \in [Slots -> Item \cup {None}]
  BY DEF TypeOK, TypeShared, TypeJob
<1>1. UNCHANGED <<pc, draft, hand>>
  BY DEF JobStep, JobReceive, JobSync, JobApply, JobQueueEmpty, JobSelect, JobNothingToSend,
     JobLock, JobRecheck, JobSend, taskVars, rxVars
<1>2. CASE JobReceive
  <2>1. /\ queue # <<>> /\ queue' = Tail(queue) /\ incoming' = Head(queue)
        /\ UNCHANGED <<held, job, slots>>
    BY <1>2 DEF JobReceive, chipVars
  <2> QED BY <1>0, <1>1, <2>1, TailParts, PlacesKept, WorksKept
<1>3. CASE ~JobReceive
  <2>1. queue' = queue /\ incoming' \in {None, incoming}
    BY <1>3 DEF JobStep, JobSync, JobApply, JobQueueEmpty, JobSelect, JobNothingToSend,
       JobLock, JobRecheck, JobSend
  <2>2. \A q \in Pools : held'[q] \in {None, held[q], incoming}
    <3>1. CASE JobSync \/ JobQueueEmpty
      BY <3>1 DEF JobSync, JobQueueEmpty, SyncEpoch, NothingHeld
    <3>2. CASE JobApply BY <1>0, <3>2 DEF JobApply, NothingHeld
    <3>3. ASSUME ~JobSync, ~JobQueueEmpty, ~JobApply PROVE held' = held
      BY <1>3, <3>3 DEF JobStep, JobSelect, JobNothingToSend, JobLock, JobRecheck, JobSend
    <3> QED BY <3>1, <3>2, <3>3
  <2>3. job' \in {None, job} \/ \E q \in Pools : job' = held[q]
    BY <1>3 DEF JobStep, JobSync, JobApply, JobQueueEmpty, JobSelect, JobNothingToSend,
       JobLock, JobRecheck, JobSend
  <2>4. \A s \in Slots : slots'[s] \in {slots[s], job}
    BY <1>0, <1>3 DEF JobStep, JobSync, JobApply, JobQueueEmpty, JobSelect, JobNothingToSend,
       JobLock, JobRecheck, JobSend, chipVars
  <2> QED BY <1>1, <2>1, <2>2, <2>3, <2>4, PlacesKept, WorksKept
<1> QED BY <1>2, <1>3

\* Only a receive task makes work, from its session.
LEMMA WorksRx ==
  ASSUME TypeOK, NEW p \in Pools, RxStep(p), NEW w \in Works'
  PROVE  w \in Works \/ (EnqSession(p) /\ Subscribed(p) /\ w = draft'[p])
<1> USE DEF Goto
<1>0. /\ pc \in [Tasks -> Labels] /\ p \in Tasks /\ Pools \subseteq Tasks
      /\ queue \in Seq(Item) /\ draft \in [Pools -> Item \cup {None}]
  BY DEF TypeOK, TypeTasks, TypeShared, Tasks
<1>1. UNCHANGED <<hand, held, slots, incoming, job>>
  BY DEF RxStep, RxDial, RxSetup, RxConnected, RxGiveUp, RxLinkLost, RxSubscribed,
      RxSetExtranonce, RxStoreExtranonce, RxSetDifficulty, RxVersionMask, RxUnusableMask,
      RxCloseSelf, RxNotify, EnqEpoch, EnqSession, EnqSend, chipVars, jobVars, taskVars
<1>2. CASE EnqSend(p)
  <2>1. pc[p] \in Filled /\ (queue' = queue \/ queue' = Append(queue, draft[p]))
    BY <1>2 DEF EnqSend
  <2>2. \A i \in 1 .. Len(queue') : InPlay(queue'[i])
    BY <1>0, <2>1, AppendParts, PlacesKept
  <2>3. DraftsKept BY <1>0, <1>2 DEF EnqSend, DraftsKept
  <2> QED BY <1>1, <2>2, <2>3, PlacesKept, WorksKept DEF DraftsKept
<1>3. CASE EnqSession(p)
  <2>1. CASE Subscribed(p)
    <3>1. /\ queue' = queue /\ \A u \in Pools \ {p} : pc'[u] = pc[u] /\ draft'[u] = draft[u]
      BY <1>0, <1>3 DEF EnqSession
    <3>2. ASSUME w # draft'[p] PROVE InPlay(w)
      BY <1>1, <3>1, <3>2 DEF Works, InPlay
    <3> QED BY <1>3, <2>1, <3>2 DEF Works
  <2>2. CASE ~Subscribed(p)
    <3>1. queue' = queue BY <1>3 DEF EnqSession
    <3>2. DraftsKept BY <1>0, <1>3, <2>2 DEF EnqSession, DraftsKept
    <3> QED BY <1>1, <3>1, <3>2, WorksStill
  <2> QED BY <2>1, <2>2
<1>4. CASE EnqEpoch(p)
  <2>1. queue' = queue BY <1>4 DEF EnqEpoch
  <2>2. DraftsKept BY <1>0, <1>4 DEF EnqEpoch, DraftsKept
  <2> QED BY <1>1, <2>1, <2>2, WorksStill
<1>5. CASE ~EnqSend(p) /\ ~EnqSession(p) /\ ~EnqEpoch(p)
  <2>1. queue' = queue /\ draft' = draft
    BY <1>5 DEF RxStep, RxDial, RxSetup, RxConnected, RxGiveUp, RxLinkLost, RxSubscribed,
      RxSetExtranonce, RxStoreExtranonce, RxSetDifficulty, RxVersionMask, RxUnusableMask,
      RxCloseSelf, RxNotify, rxVars
  <2>2. \A u \in Pools : pc'[u] \in Filled => pc[u] \in Filled
    BY <1>0, <1>5 DEF RxStep, RxDial, RxSetup, RxConnected, RxGiveUp, RxLinkLost, RxSubscribed,
      RxSetExtranonce, RxStoreExtranonce, RxSetDifficulty, RxVersionMask, RxUnusableMask,
      RxCloseSelf, RxNotify, StartReset, taskVars
  <2> QED BY <1>1, <2>1, <2>2, WorksStill DEF DraftsKept
<1> QED BY <1>2, <1>3, <1>4, <1>5

\* A session keeps what its jobs are built from; a control task may enable it.
SessionKept(p) ==
    /\ sess'[p].connected = sess[p].connected /\ sess'[p].ready = sess[p].ready
    /\ sess'[p].par = sess[p].par /\ sess'[p].disabled \in {sess[p].disabled, FALSE}
Elsewhere(p) ==
    /\ pc'[p] = pc[p] /\ after'[p] = after[p] /\ scope'[p] = scope[p]
    /\ draft'[p] = draft[p] /\ SessionKept(p)

LEMMA EnabledSession ==
  ASSUME sess \in [Pools -> Session], NEW P, NEW p \in Pools
  PROVE  /\ Enabled(P)[p].connected = sess[p].connected /\ Enabled(P)[p].ready = sess[p].ready
         /\ Enabled(P)[p].par = sess[p].par
         /\ Enabled(P)[p].disabled \in {sess[p].disabled, FALSE}
         /\ Closed(P)[p].connected = sess[p].connected /\ Closed(P)[p].ready = sess[p].ready
         /\ Closed(P)[p].par = sess[p].par /\ Closed(P)[p].disabled = sess[p].disabled
BY DEF Enabled, Closed, Session

\* A step of another task leaves pool p's receive task and its session alone.
LEMMA OthersLeave ==
  ASSUME TypeOK, Next, NEW p \in Pools, ~RxStep(p), ~ResetStep(p), ~RotateStep(p)
  PROVE  Elsewhere(p)
<1> USE DEF Goto
<1>0. /\ pc \in [Tasks -> Labels] /\ after \in [Tasks -> Labels] /\ p \in Tasks
      /\ scope \in [Tasks -> Pools \cup {All}] /\ sess \in [Pools -> Session]
      /\ draft \in [Pools -> Item \cup {None}] /\ Pools \subseteq Tasks
  BY DEF TypeOK, TypeTasks, TypeShared, Tasks
<1>1. ASSUME NEW t \in Tasks, t # p, ResetStep(t) \/ RotateStep(t) PROVE Elsewhere(p)
  <2>1. UNCHANGED <<sess, draft>>
    BY <1>1 DEF ResetStep, Bump, BumpPools, Drain, Clear, MarkAndGive,
       RotateStep, Count, RotateTake, RotatePut, RotateEnd, rxVars
  <2>2. pc'[p] = pc[p] /\ after'[p] = after[p] /\ scope'[p] = scope[p]
    BY <1>0, <1>1 DEF ResetStep, Bump, BumpPools, Drain, Clear, MarkAndGive,
       RotateStep, Count, RotateTake, RotatePut, RotateEnd
  <2> QED BY <2>1, <2>2 DEF Elsewhere, SessionKept
<1>2. ASSUME NEW u \in Pools, u # p, RxStep(u) PROVE Elsewhere(p)
  <2>1. u \in Tasks BY <1>0
  <2>2. pc'[p] = pc[p] /\ after'[p] = after[p] /\ scope'[p] = scope[p]
    BY <1>0, <1>2, <2>1
    DEF RxStep, RxDial, RxSetup, RxConnected, RxGiveUp, RxLinkLost, RxSubscribed,
      RxSetExtranonce, RxStoreExtranonce, RxSetDifficulty, RxVersionMask, RxUnusableMask,
      RxCloseSelf, RxNotify, EnqEpoch, EnqSession, EnqSend, StartReset, taskVars
  <2>3. draft'[p] = draft[p]
    BY <1>0, <1>2
    DEF RxStep, RxDial, RxSetup, RxConnected, RxGiveUp, RxLinkLost, RxSubscribed,
      RxSetExtranonce, RxStoreExtranonce, RxSetDifficulty, RxVersionMask, RxUnusableMask,
      RxCloseSelf, RxNotify, EnqEpoch, EnqSession, EnqSend, rxVars
  <2>4. sess'[p] = sess[p]
    BY <1>0, <1>2
    DEF RxStep, RxDial, RxSetup, RxConnected, RxGiveUp, RxLinkLost, RxSubscribed,
      RxSetExtranonce, RxStoreExtranonce, RxSetDifficulty, RxVersionMask, RxUnusableMask,
      RxCloseSelf, RxNotify, EnqEpoch, EnqSession, EnqSend
  <2> QED BY <2>2, <2>3, <2>4 DEF Elsewhere, SessionKept
<1>3. ASSUME NEW c \in Controls, CtlStep(c) PROVE Elsewhere(p)
  <2>1. c \in Tasks /\ c # p BY NamesAssumption DEF Tasks
  <2>2. pc'[p] = pc[p] /\ after'[p] = after[p] /\ scope'[p] = scope[p] /\ draft' = draft
    BY <1>0, <1>3, <2>1
    DEF CtlStep, CtlSettings, CtlReconnectAll, CtlReconnectMask, CtlReconnectNext,
     CtlClose, CtlPause, CtlResume, CtlQuiesceLock, CtlQuiesceClear, CtlResumed, StartReset,
     rxVars
  <2>3. \/ sess'[p] = sess[p]
        \/ \E P : sess'[p] = Enabled(P)[p] \/ sess'[p] = Closed(P)[p]
    BY <1>3
    DEF CtlStep, CtlSettings, CtlReconnectAll, CtlReconnectMask, CtlReconnectNext,
     CtlClose, CtlPause, CtlResume, CtlQuiesceLock, CtlQuiesceClear, CtlResumed
  <2>4. ASSUME NEW P, sess'[p] = Enabled(P)[p] PROVE SessionKept(p)
    <3>1. /\ Enabled(P)[p].connected = sess[p].connected
          /\ Enabled(P)[p].ready = sess[p].ready /\ Enabled(P)[p].par = sess[p].par
          /\ Enabled(P)[p].disabled \in {sess[p].disabled, FALSE}
      BY <1>0, EnabledSession
    <3> QED BY <2>4, <3>1 DEF SessionKept
  <2>5. ASSUME NEW P, sess'[p] = Closed(P)[p] PROVE SessionKept(p)
    <3>1. /\ Closed(P)[p].connected = sess[p].connected
          /\ Closed(P)[p].ready = sess[p].ready /\ Closed(P)[p].par = sess[p].par
          /\ Closed(P)[p].disabled \in {sess[p].disabled, FALSE}
      BY <1>0, EnabledSession
    <3> QED BY <2>5, <3>1 DEF SessionKept
  <2>6. SessionKept(p) BY <2>3, <2>4, <2>5 DEF SessionKept
  <2> QED BY <2>2, <2>6 DEF Elsewhere
<1>4. ASSUME JobStep PROVE Elsewhere(p)
  <2>1. UNCHANGED <<pc, after, scope, draft, sess>>
    BY <1>4 DEF JobStep, JobReceive, JobSync, JobApply, JobQueueEmpty, JobSelect,
       JobNothingToSend, JobLock, JobRecheck, JobSend, taskVars, rxVars
  <2> QED BY <2>1 DEF Elsewhere, SessionKept
<1> QED BY <1>1, <1>2, <1>3, <1>4 DEF Next

LEMMA OnlyWorkNext ==
  ASSUME TypeOK, OnlyWork, Next
  PROVE  OnlyWork'
<1>0. /\ held \in [Pools -> Item \cup {None}] /\ slots \in [Slots -> Item \cup {None}]
      /\ slot \in Slots
  BY DEF TypeOK, TypeShared, TypeJob
<1>1. ASSUME NEW t \in Tasks, ResetStep(t) \/ RotateStep(t) PROVE OnlyWork'
  <2>1. held' = held /\ job' = job
    BY <1>1 DEF ResetStep, Bump, BumpPools, Drain, Clear, MarkAndGive,
       RotateStep, Count, RotateTake, RotatePut, RotateEnd, jobVars
  <2>2. \A s \in Slots : slots'[s] \in {slots[s], None}
    BY <1>1 DEF ResetStep, Bump, BumpPools, Drain, Clear, MarkAndGive,
       RotateStep, Count, RotateTake, RotatePut, RotateEnd, chipVars
  <2> QED BY <2>1, <2>2 DEF OnlyWork
<1>2. ASSUME NEW p \in Pools, RxStep(p) PROVE OnlyWork'
  <2>1. UNCHANGED <<held, job, slots>>
    BY <1>2 DEF RxStep, RxDial, RxSetup, RxConnected, RxGiveUp, RxLinkLost, RxSubscribed,
      RxSetExtranonce, RxStoreExtranonce, RxSetDifficulty, RxVersionMask, RxUnusableMask,
      RxCloseSelf, RxNotify, EnqEpoch, EnqSession, EnqSend, jobVars, chipVars
  <2> QED BY <2>1 DEF OnlyWork
<1>3. ASSUME NEW c \in Controls, CtlStep(c) PROVE OnlyWork'
  <2>1. held' = held /\ job' = job
    BY <1>3 DEF CtlStep, CtlSettings, CtlReconnectAll, CtlReconnectMask, CtlReconnectNext,
     CtlClose, CtlPause, CtlResume, CtlQuiesceLock, CtlQuiesceClear, CtlResumed, jobVars
  <2>2. \A s \in Slots : slots'[s] \in {slots[s], None}
    BY <1>3 DEF CtlStep, CtlSettings, CtlReconnectAll, CtlReconnectMask, CtlReconnectNext,
     CtlClose, CtlPause, CtlResume, CtlQuiesceLock, CtlQuiesceClear, CtlResumed, chipVars
  <2> QED BY <2>1, <2>2 DEF OnlyWork
<1>4. CASE JobApply
  <2>1. incoming \in Item BY <1>4 DEF JobApply, TypeOK, InHand, JobHeld
  <2>2. UNCHANGED <<slots, job>> BY <1>4 DEF JobApply, chipVars
  <2>3. \A q \in Pools : held'[q] \in {None, held[q]} \/ (held'[q] = incoming /\ incoming.kind = "work")
    BY <1>0, <1>4, <2>1 DEF JobApply, NothingHeld, Item
  <2> QED BY <2>2, <2>3 DEF OnlyWork
<1>5. CASE JobSync \/ JobQueueEmpty
  BY <1>5 DEF JobSync, JobQueueEmpty, SyncEpoch, NothingHeld, OnlyWork, chipVars
<1>6. CASE JobSend
  <2>1. held' = held /\ job' = None /\ \A s \in Slots : slots'[s] \in {slots[s], job}
    BY <1>0, <1>6 DEF JobSend
  <2> QED BY <2>1 DEF OnlyWork
<1>7. ASSUME NEW p \in Pools, JobSelect(p) PROVE OnlyWork'
  <2>1. held' = held /\ slots' = slots /\ job' \in {job, held[p]}
    BY <1>7 DEF JobSelect, chipVars
  <2> QED BY <2>1 DEF OnlyWork
<1>8. CASE JobReceive \/ JobNothingToSend \/ JobLock \/ JobRecheck
  <2>1. held' = held /\ slots' = slots /\ job' \in {job, None}
    BY <1>8 DEF JobReceive, JobNothingToSend, JobLock, JobRecheck, chipVars
  <2> QED BY <2>1 DEF OnlyWork
<1> QED BY <1>1, <1>2, <1>3, <1>4, <1>5, <1>6, <1>7, <1>8 DEF Next, JobStep

LEMMA SessionsNext ==
  ASSUME TypeOK, Sessions, Next
  PROVE  Sessions'
<1> USE DEF Goto
<1>0. /\ pc \in [Tasks -> Labels] /\ after \in [Tasks -> Labels]
      /\ scope \in [Tasks -> Pools \cup {All}] /\ sess \in [Pools -> Session]
      /\ Pools \subseteq Tasks
  BY DEF TypeOK, TypeTasks, TypeShared, Tasks
<1> SUFFICES ASSUME NEW p \in Pools
    PROVE scope'[p] \in {p, All} /\ (Offline(p)' => ~sess'[p].connected)
  BY DEF Sessions
<1>1. scope[p] \in {p, All} /\ (Offline(p) => ~sess[p].connected) BY DEF Sessions
<1>2. p \in Tasks /\ after[p] \in Returns /\ PoolScope(p) \in {p, All}
  BY <1>0 DEF TypeOK, InHand, ReturnKnown, PoolScope
<1>3. CASE ~RxStep(p) /\ ~ResetStep(p) /\ ~RotateStep(p)
  <2>1. Elsewhere(p) BY <1>3, OthersLeave
  <2> QED BY <1>1, <2>1 DEF Elsewhere, SessionKept, Offline
<1>4. CASE ResetStep(p)
  <2>1. sess' = sess BY <1>4 DEF ResetStep, Bump, BumpPools, Drain, Clear, MarkAndGive
  <2>2. scope'[p] \in {scope[p], All}
    BY <1>0, <1>2, <1>4 DEF ResetStep, Bump, BumpPools, Drain, Clear, MarkAndGive
  <2>3. CASE MarkAndGive(p)
    <3>1. pc[p] = "mark" /\ pc'[p] = after[p] BY <1>0, <1>2, <2>3 DEF MarkAndGive
    <3>2. Offline(p)' => after[p] \in {"idle", "dialled"} BY <1>2, <3>1 DEF Offline, Returns
    <3> QED BY <1>1, <2>1, <2>2, <3>1, <3>2 DEF Offline
  <2>4. CASE ~MarkAndGive(p)
    <3>1. /\ {pc[p], pc'[p]} \subseteq AfterBump \cup {"bump"} /\ after'[p] = after[p]
      BY <1>0, <1>2, <1>4, <2>4 DEF ResetStep, Bump, BumpPools, Drain, Clear
    <3> QED BY <1>1, <2>1, <2>2, <3>1 DEF Offline
  <2> QED BY <2>3, <2>4
<1>5. CASE RotateStep(p)
  <2>1. UNCHANGED <<sess, scope, after>>
    BY <1>5 DEF RotateStep, Count, RotateTake, RotatePut, RotateEnd
  <2>2. pc'[p] \in AfterBump => pc[p] \in AfterBump
    BY <1>0, <1>2, <1>5 DEF RotateStep, Count, RotateTake, RotatePut, RotateEnd
  <2>3. pc'[p] \notin {"idle", "dialled", "setup", "bump"}
    BY <1>0, <1>2, <1>5 DEF RotateStep, Count, RotateTake, RotatePut, RotateEnd
  <2> QED BY <1>1, <2>1, <2>2, <2>3 DEF Offline
<1>6. CASE RxStep(p)
  <2>1. CASE RxDial(p) \/ RxGiveUp(p)
    <3>1. pc[p] \in {"idle", "dialled", "setup"} /\ sess' = sess
      BY <2>1 DEF RxDial, RxGiveUp
    <3>2. scope'[p] \in {scope[p], PoolScope(p)}
      BY <1>0, <1>2, <2>1 DEF RxDial, RxGiveUp, StartReset
    <3> QED BY <1>1, <1>2, <3>1, <3>2 DEF Offline
  <2>2. CASE RxSetup(p)
    <3>1. /\ pc[p] = "dialled" /\ scope' = scope
          /\ sess'[p].connected = sess[p].connected
      BY <1>0, <2>2 DEF RxSetup, Session
    <3> QED BY <1>1, <3>1 DEF Offline
  <2>3. CASE RxLinkLost(p)
    <3>1. ~sess'[p].connected /\ scope'[p] = PoolScope(p)
      BY <1>0, <1>2, <2>3 DEF RxLinkLost, StartReset, Session
    <3> QED BY <1>2, <3>1
  <2>4. CASE \/ RxConnected(p) \/ RxSubscribed(p) \/ RxStoreExtranonce(p)
             \/ RxCloseSelf(p) \/ EnqEpoch(p) \/ EnqSession(p) \/ EnqSend(p)
    <3>1. scope' = scope /\ pc'[p] \in {"online", "enqPool", "send", "full"}
      BY <1>0, <1>2, <2>4 DEF RxConnected, RxSubscribed, RxStoreExtranonce,
         RxCloseSelf, EnqEpoch, EnqSession, EnqSend, taskVars
    <3> QED BY <1>1, <3>1 DEF Offline
  <2>5. CASE \/ RxSetExtranonce(p) \/ RxSetDifficulty(p) \/ RxVersionMask(p)
             \/ RxUnusableMask(p) \/ RxNotify(p)
    <3>1. /\ scope'[p] \in {scope[p], PoolScope(p)}
          /\ \/ pc'[p] \in {"online", "enqueue"}
             \/ pc'[p] = "bump" /\ after'[p] \in {"online", "enqueue", "setXn", "closeSelf"}
      BY <1>0, <1>2, <2>5 DEF RxSetExtranonce, RxSetDifficulty, RxVersionMask,
         RxUnusableMask, RxNotify, StartReset
    <3> QED BY <1>1, <1>2, <3>1 DEF Offline
  <2> QED BY <1>6, <2>1, <2>2, <2>3, <2>4, <2>5 DEF RxStep
<1> QED BY <1>3, <1>4, <1>5, <1>6

LEMMA DraftsNext ==
  ASSUME TypeOK, TypeOK', Drafts, Next
  PROVE  Drafts'
<1> USE DEF Goto
<1>0. /\ pc \in [Tasks -> Labels] /\ sess \in [Pools -> Session]
      /\ draft \in [Pools -> Item \cup {None}] /\ Pools \subseteq Tasks
      /\ workEpoch \in Nat /\ workEpoch' \in Nat /\ workEpoch <= workEpoch'
  BY EpochsGrow DEF TypeOK, TypeTasks, TypeShared, Tasks
<1> SUFFICES ASSUME NEW p \in Pools, pc'[p] \in Drafting
    PROVE /\ draft'[p].kind = "work" /\ draft'[p].pool = p
          /\ draft'[p].epoch <= workEpoch' /\ ~sess'[p].disabled
  BY DEF Drafts
<1>1. p \in Tasks /\ after[p] \in Returns BY <1>0 DEF TypeOK, InHand, ReturnKnown
<1>2. ASSUME pc[p] \in Drafting, draft'[p] = draft[p], SessionKept(p)
      PROVE  /\ draft'[p].kind = "work" /\ draft'[p].pool = p
             /\ draft'[p].epoch <= workEpoch' /\ ~sess'[p].disabled
  <2>1. /\ draft[p].kind = "work" /\ draft[p].pool = p
        /\ draft[p].epoch <= workEpoch /\ ~sess[p].disabled
        /\ draft[p] \in Item
    BY <1>2 DEF Drafts, TypeOK, InHand, DraftHeld
  <2>2. draft[p].epoch \in Nat BY <2>1 DEF Item
  <2>3. ~sess'[p].disabled BY <1>2, <2>1 DEF SessionKept
  <2> QED BY <1>0, <1>2, <2>1, <2>2, <2>3
<1>3. CASE ~RxStep(p) /\ ~ResetStep(p) /\ ~RotateStep(p)
  <2>1. Elsewhere(p) BY <1>3, OthersLeave
  <2> QED BY <1>2, <2>1 DEF Elsewhere
<1>4. CASE ResetStep(p)
  <2>1. pc'[p] \notin Drafting
    BY <1>0, <1>1, <1>4
    DEF ResetStep, Bump, BumpPools, Drain, Clear, MarkAndGive, Returns
  <2> QED BY <2>1
<1>5. CASE RotateStep(p)
  <2>1. UNCHANGED <<sess, draft>>
    BY <1>5 DEF RotateStep, Count, RotateTake, RotatePut, RotateEnd, rxVars
  <2>2. pc[p] \in Drafting
    BY <1>0, <1>1, <1>5 DEF RotateStep, Count, RotateTake, RotatePut, RotateEnd
  <2> QED BY <1>2, <2>1, <2>2 DEF SessionKept
<1>6. CASE RxStep(p)
  <2>1. CASE EnqEpoch(p)
    <3>1. ~sess[p].disabled /\ sess' = sess /\ draft'[p].kind = "work"
          /\ draft'[p].pool = p /\ draft'[p].epoch = workEpoch
      BY <1>0, <1>1, <2>1 DEF EnqEpoch
    <3> QED BY <1>0, <3>1
  <2>2. CASE EnqSession(p)
    <3>1. pc[p] \in Drafting /\ sess' = sess BY <2>2 DEF EnqSession
    <3>2. /\ draft[p].kind = "work" /\ draft[p].pool = p
          /\ draft[p].epoch <= workEpoch /\ ~sess[p].disabled
          /\ draft[p] \in Item
      BY <3>1 DEF Drafts, TypeOK, InHand, DraftHeld
    <3>3. Subscribed(p) BY <1>0, <1>1, <2>2 DEF EnqSession
    <3>4. draft'[p] = [draft[p] EXCEPT !.poolEpoch = poolEpoch[p],
                  !.par = [xn |-> sess[p].par.xn, diff |-> sess[p].par.diff,
                           mask |-> MaskFor(p)]]
      BY <1>0, <2>2, <3>3 DEF EnqSession
    <3>5. /\ draft'[p].kind = draft[p].kind /\ draft'[p].pool = draft[p].pool
          /\ draft'[p].epoch = draft[p].epoch
      BY <3>2, <3>4 DEF Item
    <3>6. draft[p].epoch \in Nat BY <3>2 DEF Item
    <3> QED BY <1>0, <3>1, <3>2, <3>5, <3>6
  <2>3. CASE EnqSend(p)
    <3>1. pc[p] \in Drafting /\ sess' = sess /\ draft' = draft
      BY <1>0, <1>1, <2>3 DEF EnqSend
    <3> QED BY <1>2, <3>1 DEF SessionKept
  <2>4. CASE ~EnqEpoch(p) /\ ~EnqSession(p) /\ ~EnqSend(p)
    <3>1. pc'[p] \notin Drafting
      BY <1>0, <1>1, <1>6, <2>4
      DEF RxStep, RxDial, RxSetup, RxConnected, RxGiveUp, RxLinkLost, RxSubscribed,
      RxSetExtranonce, RxStoreExtranonce, RxSetDifficulty, RxVersionMask, RxUnusableMask,
      RxCloseSelf, RxNotify, StartReset, taskVars
    <3> QED BY <3>1
  <2> QED BY <2>1, <2>2, <2>3, <2>4
<1> QED BY <1>3, <1>4, <1>5, <1>6

\* A session that keeps its parameters keeps a job fit.
LEMMA StaysBuilt ==
  ASSUME NEW w \in Item, BuiltForSession(w), SessionKept(w.pool)
  PROVE  BuiltForSession(w)'
BY DEF BuiltForSession, SessionKept

\* The session's own task: what it tells its session either leaves the work that
\* is under way fit, or takes the task to the reset.
LEMMA FitRx ==
  ASSUME TypeOK, Sessions, NEW w \in Item, RxStep(w.pool),
         BuiltForSession(w) \/ pc[w.pool] = "bump",
         pc[w.pool] \notin AfterBump \cup {"setXn"}
  PROVE  /\ BuiltForSession(w)' \/ pc'[w.pool] = "bump"
         /\ pc'[w.pool] \notin AfterBump \cup {"setXn"}
<1> USE DEF Goto
<1> DEFINE p == w.pool
<1>0. /\ pc \in [Tasks -> Labels] /\ sess \in [Pools -> Session] /\ p \in Pools
      /\ Pools \subseteq Tasks /\ w.par \in Param
  BY DEF TypeOK, TypeTasks, TypeShared, Tasks, Item
<1>1. p \in Tasks /\ sess[p] \in Session /\ sess[p].par \in SessionParam
  BY <1>0 DEF Session
<1>2. BuiltForSession(w)
  BY DEF RxStep, RxDial, RxSetup, RxConnected, RxGiveUp, RxLinkLost, RxSubscribed,
      RxSetExtranonce, RxStoreExtranonce, RxSetDifficulty, RxVersionMask, RxUnusableMask,
      RxCloseSelf, RxNotify, EnqEpoch, EnqSession, EnqSend
<1>3. ~Offline(p) BY <1>0, <1>2 DEF Sessions, BuiltForSession
<1>4. CASE RxDial(p) \/ RxGiveUp(p) \/ RxSetup(p) \/ RxConnected(p)
  BY <1>3, <1>4 DEF Offline, RxDial, RxGiveUp, RxSetup, RxConnected
<1>5. CASE RxSubscribed(p) \/ RxStoreExtranonce(p)
  BY <1>2, <1>5 DEF RxSubscribed, RxStoreExtranonce, BuiltForSession
<1>6. CASE RxLinkLost(p) \/ RxSetExtranonce(p) \/ RxUnusableMask(p)
  BY <1>0, <1>1, <1>6 DEF RxLinkLost, RxSetExtranonce, RxUnusableMask, StartReset
<1>7. CASE RxSetDifficulty(p)
  <2>1. PICK d \in 1 .. MaxDiff :
            /\ sess' = [sess EXCEPT ![p].par.diff = d]
            /\ IF Raised(p, d) THEN StartReset(p, PoolScope(p), "online")
                              ELSE UNCHANGED <<pc, scope, after>>
    BY <1>7 DEF RxSetDifficulty
  <2>2. CASE Raised(p, d) BY <1>0, <1>1, <2>1, <2>2 DEF StartReset
  <2>3. CASE ~Raised(p, d)
    <3>1. pc'[p] = "online" BY <1>7, <2>1, <2>3 DEF RxSetDifficulty
    <3>2. sess'[p] = [sess[p] EXCEPT !.par = [sess[p].par EXCEPT !.diff = d]]
      BY <1>0, <2>1
    <3>3. /\ sess'[p].connected = sess[p].connected /\ sess'[p].ready = sess[p].ready
          /\ sess'[p].disabled = sess[p].disabled
          /\ sess'[p].par = [sess[p].par EXCEPT !.diff = d]
      BY <1>1, <3>2 DEF Session
    <3>4. /\ sess'[p].par.xn = sess[p].par.xn /\ sess'[p].par.diff = d
          /\ sess'[p].par.mask = sess[p].par.mask
      BY <1>1, <3>3 DEF SessionParam
    <3>5. d \in Int /\ w.par.diff \in Int /\ sess[p].par.diff \in Int
      BY <1>0, <1>1 DEF Param, SessionParam
    <3>6. w.par.diff >= d BY <1>2, <2>3, <3>5 DEF Raised, BuiltForSession
    <3> QED BY <1>2, <3>1, <3>3, <3>4, <3>6 DEF BuiltForSession
  <2> QED BY <2>2, <2>3
<1>8. CASE RxVersionMask(p)
  <2>1. PICK m \in Masks :
            /\ sess' = [sess EXCEPT ![p].par.mask = m]
            /\ IF m # sess[p].par.mask THEN StartReset(p, PoolScope(p), "online")
                                      ELSE UNCHANGED <<pc, scope, after>>
    BY <1>8 DEF RxVersionMask
  <2>2. CASE m # sess[p].par.mask BY <1>0, <1>1, <2>1, <2>2 DEF StartReset
  <2>3. CASE m = sess[p].par.mask
    <3>1. pc'[p] = "online" BY <1>8, <2>1, <2>3 DEF RxVersionMask
    <3>2. sess'[p] = [sess[p] EXCEPT !.par = [sess[p].par EXCEPT !.mask = m]]
      BY <1>0, <2>1
    <3>3. /\ sess'[p].connected = sess[p].connected /\ sess'[p].ready = sess[p].ready
          /\ sess'[p].disabled = sess[p].disabled
          /\ sess'[p].par = [sess[p].par EXCEPT !.mask = m]
      BY <1>1, <3>2 DEF Session
    <3>4. /\ sess'[p].par.xn = sess[p].par.xn /\ sess'[p].par.mask = m
          /\ sess'[p].par.diff = sess[p].par.diff
      BY <1>1, <3>3 DEF SessionParam
    <3> QED BY <1>2, <2>3, <3>1, <3>3, <3>4 DEF BuiltForSession
  <2> QED BY <2>2, <2>3
<1>9. CASE RxCloseSelf(p)
  <2>1. pc'[p] = "online" /\ sess'[p] = [sess[p] EXCEPT !.closing = TRUE]
    BY <1>0, <1>1, <1>9 DEF RxCloseSelf
  <2>2. SessionKept(p) BY <1>1, <2>1 DEF SessionKept, Session
  <2> QED BY <1>2, <2>1, <2>2, StaysBuilt
<1>10. CASE RxNotify(p) \/ EnqEpoch(p) \/ EnqSession(p) \/ EnqSend(p)
  <2>1. sess' = sess /\ pc'[p] \in {"bump", "enqueue", "online", "enqPool", "send", "full"}
    BY <1>0, <1>1, <1>10 DEF RxNotify, EnqEpoch, EnqSession, EnqSend, StartReset
  <2>2. SessionKept(p) BY <2>1 DEF SessionKept
  <2> QED BY <1>2, <2>1, <2>2, StaysBuilt
<1> QED BY <1>4, <1>5, <1>6, <1>7, <1>8, <1>9, <1>10 DEF RxStep

\* Work that is under way stays fit, or is no longer of the present.
LEMMA FitOld ==
  ASSUME TypeOK, TypeOK', MatchInv, Next, NEW w \in Works
  PROVE  Known(w)' /\ Fits(w)'
<1> USE DEF Goto
<1> DEFINE p == w.pool
<1>0. /\ pc \in [Tasks -> Labels] /\ sess \in [Pools -> Session] /\ p \in Pools
      /\ Pools \subseteq Tasks /\ w \in Item /\ workEpoch \in Nat
      /\ poolEpoch \in [Pools -> Nat] /\ w.epoch \in Nat /\ w.poolEpoch \in Nat
  BY DEF TypeOK, TypeTasks, TypeShared, Tasks, Item, Works
<1>1. p \in Tasks /\ after[p] \in Returns /\ Known(w) /\ Fits(w) /\ scope[p] \in {p, All}
  BY <1>0 DEF TypeOK, InHand, ReturnKnown, MatchInv, WorksFit, Sessions
<1>2. Known(w)' /\ (Current(w)' => Current(w)) BY <1>0, <1>1, StaysStale
<1> SUFFICES ASSUME Current(w)'
    PROVE  /\ BuiltForSession(w)' \/ pc'[p] = "bump"
           /\ pc'[p] \notin AfterBump \cup {"setXn"}
  BY <1>2 DEF Fits
<1>3. /\ BuiltForSession(w) \/ pc[p] = "bump"
      /\ pc[p] \notin AfterBump \cup {"setXn"}
      /\ Current(w)
  BY <1>1, <1>2 DEF Fits
<1>4. CASE ~RxStep(p) /\ ~ResetStep(p) /\ ~RotateStep(p)
  <2>1. Elsewhere(p) BY <1>0, <1>4, OthersLeave
  <2>2. BuiltForSession(w) => BuiltForSession(w)' BY <1>0, <2>1, StaysBuilt DEF Elsewhere
  <2> QED BY <1>3, <2>1, <2>2 DEF Elsewhere
<1>5. CASE ResetStep(p)
  <2>0. /\ w.epoch = workEpoch /\ w.poolEpoch = poolEpoch[p]
        /\ w.epoch = workEpoch' /\ w.poolEpoch = poolEpoch'[p]
    BY <1>3 DEF Current
  <2>1. Bump(p)
    BY <1>3, <1>5 DEF ResetStep, BumpPools, Drain, Clear, MarkAndGive
  <2>2. CASE scope[p] = All
    <3>1. workEpoch' = workEpoch + 1 BY <2>1, <2>2 DEF Bump
    <3> QED BY <1>0, <2>0, <3>1
  <2>3. CASE scope[p] # All
    <3>1. scope[p] = p BY <1>1, <2>3
    <3>2. poolEpoch'[p] = poolEpoch[p] + 1 BY <1>0, <2>1, <2>3, <3>1 DEF Bump
    <3> QED BY <1>0, <2>0, <3>2
  <2> QED BY <2>2, <2>3
<1>6. CASE RotateStep(p)
  <2>1. sess' = sess /\ pc[p] # "bump"
    BY <1>6 DEF RotateStep, Count, RotateTake, RotatePut, RotateEnd
  <2>2. pc'[p] \notin AfterBump \cup {"setXn"}
    BY <1>0, <1>1, <1>3, <1>6 DEF RotateStep, Count, RotateTake, RotatePut, RotateEnd
  <2>3. SessionKept(p) BY <2>1 DEF SessionKept
  <2> QED BY <1>0, <1>3, <2>1, <2>2, <2>3, StaysBuilt
<1>7. CASE RxStep(p)
  BY <1>0, <1>3, <1>7, FitRx DEF MatchInv
<1> QED BY <1>4, <1>5, <1>6, <1>7

\* The work a receive task makes carries what its session has been told.
LEMMA FitNew ==
  ASSUME TypeOK, TypeOK', MatchInv, Next, NEW p \in Pools,
         EnqSession(p), Subscribed(p), NEW w \in Item, w = draft'[p]
  PROVE  Known(w)' /\ Fits(w)'
<1> USE DEF Goto
<1>0. /\ pc \in [Tasks -> Labels] /\ sess \in [Pools -> Session] /\ p \in Tasks
      /\ draft \in [Pools -> Item \cup {None}] /\ workEpoch \in Nat
      /\ poolEpoch \in [Pools -> Nat]
  BY DEF TypeOK, TypeTasks, TypeShared, Tasks
<1>1. /\ pc[p] \in Drafting /\ sess' = sess /\ pc'[p] = "send" /\ UNCHANGED epochVars
      /\ draft'[p] = [draft[p] EXCEPT !.poolEpoch = poolEpoch[p],
                  !.par = [xn |-> sess[p].par.xn, diff |-> sess[p].par.diff,
                           mask |-> MaskFor(p)]]
  BY <1>0 DEF EnqSession
<1>2. /\ draft[p].pool = p /\ draft[p].epoch <= workEpoch /\ ~sess[p].disabled
      /\ draft[p] \in Item
  BY <1>1 DEF MatchInv, Drafts, TypeOK, InHand, DraftHeld
<1>3. /\ w.pool = p /\ w.epoch = draft[p].epoch /\ w.poolEpoch = poolEpoch[p]
      /\ w.par = [xn |-> sess[p].par.xn, diff |-> sess[p].par.diff, mask |-> MaskFor(p)]
  BY <1>1, <1>2 DEF Item
<1>4. Known(w)'
  BY <1>0, <1>1, <1>2, <1>3 DEF Known, epochVars
<1>5. sess[p].par.diff \in Int BY <1>0 DEF Session, SessionParam
<1>6. BuiltForSession(w)'
  BY <1>1, <1>2, <1>3, <1>5 DEF BuiltForSession, Subscribed, MaskFor
<1> QED BY <1>1, <1>3, <1>4, <1>6 DEF Fits

LEMMA WorksFitNext ==
  ASSUME TypeOK, TypeOK', MatchInv, Next
  PROVE  WorksFit'
<1> SUFFICES ASSUME NEW w \in Works' PROVE Known(w)' /\ Fits(w)' BY DEF WorksFit
<1>1. CASE w \in Works BY <1>1, FitOld
<1>2. CASE \E p \in Pools : EnqSession(p) /\ Subscribed(p) /\ w = draft'[p]
  BY <1>2, FitNew DEF Works
<1>3. ASSUME w \notin Works
      PROVE  \E p \in Pools : EnqSession(p) /\ Subscribed(p) /\ w = draft'[p]
  BY <1>3, WorksReset, WorksRotate, WorksCtl, WorksJob, WorksRx DEF Next
<1> QED BY <1>1, <1>2, <1>3

LEMMA MatchInit == Init => MatchInv
<1> SUFFICES ASSUME Init PROVE MatchInv OBVIOUS
<1>1. Works = {}
  <2> SUFFICES ASSUME NEW w \in Item, InPlay(w) PROVE FALSE BY DEF Works
  <2>1. w # None BY NoneAssumption
  <2>2. \A p \in Pools : pc[p] = "idle" BY DEF Init, Tasks
  <2> QED BY <2>1, <2>2 DEF InPlay, Init
<1>2. Sessions BY DEF Init, Sessions, Tasks
<1>3. \A p \in Pools : pc[p] = "idle" BY DEF Init, Tasks
<1>4. Drafts BY <1>3 DEF Drafts
<1>5. OnlyWork BY DEF Init, OnlyWork
<1> QED BY <1>1, <1>2, <1>4, <1>5 DEF MatchInv, WorksFit

LEMMA MatchStutter ==
  ASSUME MatchInv, UNCHANGED vars
  PROVE  MatchInv'
<1>1. UNCHANGED <<queue, hand, held, slots, incoming, job, pc, draft, sess, scope, after,
                  workEpoch, poolEpoch>>
  BY DEF vars, taskVars, rxVars, jobVars, chipVars, epochVars
<1>2. Works' = Works BY <1>1 DEF Works, InPlay
<1>3. \A w \in Works : Known(w)' /\ Fits(w)'
  BY <1>1 DEF MatchInv, WorksFit, Known, Fits, Current, BuiltForSession
<1>4. WorksFit' BY <1>2, <1>3 DEF WorksFit
<1>5. Sessions' BY <1>1 DEF MatchInv, Sessions, Offline
<1>6. Drafts' BY <1>1 DEF MatchInv, Drafts
<1>7. OnlyWork' BY <1>1 DEF MatchInv, OnlyWork
<1> QED BY <1>4, <1>5, <1>6, <1>7 DEF MatchInv

\* Whatever the order in which pools change a block, a difficulty, a mask or an
\* extranonce, links fail, settings are saved and work is built, queued and sent:
\* a job of the present epochs in the ASIC's table was built from what its pool's
\* session has now, or the session's own task is waiting to supersede it.
THEOREM JobsFollowSession == Spec => []JobsMatchSession
<1>1. Init => MatchInv BY MatchInit
<1>2. ASSUME TypeOK, TypeOK', MatchInv, [Next]_vars PROVE MatchInv'
  <2>1. CASE Next
    <3>1. WorksFit' BY <1>2, <2>1, WorksFitNext
    <3>2. Sessions' /\ OnlyWork' /\ Drafts'
      BY <1>2, <2>1, SessionsNext, OnlyWorkNext, DraftsNext DEF MatchInv
    <3> QED BY <3>1, <3>2 DEF MatchInv
  <2>2. CASE UNCHANGED vars BY <1>2, <2>2, MatchStutter
  <2> QED BY <1>2, <2>1, <2>2
<1>3. ASSUME TypeOK, MatchInv PROVE JobsMatchSession
  <2> SUFFICES ASSUME NEW s \in Slots, slots[s] # None, Current(slots[s])
      PROVE  BuiltForSession(slots[s]) \/ pc[slots[s].pool] = "bump"
    BY DEF JobsMatchSession, JobsOnChip
  <2>1. slots[s] \in Item /\ slots[s].kind = "work"
    BY <1>3 DEF TypeOK, TypeShared, MatchInv, OnlyWork
  <2>2. slots[s] \in Works BY <2>1 DEF Works, InPlay
  <2> QED BY <1>3, <2>2 DEF MatchInv, WorksFit, Fits
<1> QED BY <1>1, <1>2, <1>3, TypeCorrect, PTL DEF Spec

=============================================================================
