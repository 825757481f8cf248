------------------------ MODULE WorkRefinementProofs -------------------------
(***************************************************************************)
(* WorkPipeline implements WorkOrders: every step of the pipeline is one   *)
(* step of the orders, or none.                                            *)
(***************************************************************************)
EXTENDS WorkSafetyProofs

-----------------------------------------------------------------------------

\* No order, era or pause changes.
Stutters == UNCHANGED <<PresentEras, CountingOrders, paused, IsQuiet>>

\* No order changes when no epoch, no slot and no reset's reach does.
LEMMA SameOrders ==
  ASSUME UNCHANGED <<workEpoch, poolEpoch, slots>>,
         \A w : Reclaimed(w)' <=> Reclaimed(w)
  PROVE  UNCHANGED <<PresentEras, CountingOrders, JobsOnChip>>
BY DEF PresentEras, CountingOrders, Counting, JobsOnChip

LEMMA OutsideStutters ==
  ASSUME TypeOK, SafeDispatch, NEW t \in Tasks, OnlyMoves(t),
         pc[t] \notin Reclaiming, pc'[t] \notin Reclaiming
  PROVE  Stutters
<1>1. \A w : Reclaimed(w)' <=> Reclaimed(w)
  BY DEF Reclaimed, OnlyMoves, Superseded
<1>2. UNCHANGED <<workEpoch, poolEpoch, slots, paused, jpc>> BY DEF OnlyMoves, dispatchVars
<1> QED BY <1>1, <1>2, SameOrders DEF Stutters, IsQuiet

LEMMA InsideStutters ==
  ASSUME TypeOK, SafeDispatch, NEW t \in Tasks, OnlyMoves(t), scope'[t] = scope[t],
         pc[t] \in Reclaiming, pc'[t] \in Reclaiming
  PROVE  Stutters
<1>1. \A w : Reclaimed(w)' <=> Reclaimed(w)
  BY DEF Reclaimed, OnlyMoves, Superseded
<1>2. UNCHANGED <<workEpoch, poolEpoch, slots, paused, jpc>> BY DEF OnlyMoves, dispatchVars
<1> QED BY <1>1, <1>2, SameOrders DEF Stutters, IsQuiet

-----------------------------------------------------------------------------

LEMMA OrdersInit == Init => Orders!OInit
<1> SUFFICES ASSUME Init PROVE Orders!OInit OBVIOUS
<1>1. PresentEras \in [Pools -> Nat \X Nat] BY DEF Init, PresentEras
<1>2. CountingOrders = Orders!Empty
  BY DEF Init, CountingOrders, Counting, Orders!Empty
<1>3. paused = FALSE /\ IsQuiet = FALSE BY DEF Init, IsQuiet
<1> QED BY <1>1, <1>2, <1>3 DEF Orders!OInit

\* A job that counts shows as an order.
LEMMA OrderShows ==
  ASSUME TypeOK, NEW s \in Slots, Counting(slots[s])
  PROVE  CountingOrders[s] # None /\ CountingOrders[s].pool = slots[s].pool
<1>1. slots[s] \in Item BY DEF TypeOK, TypeShared, Counting
<1>2. CountingOrders[s] \in Order
  BY <1>1 DEF CountingOrders, Order, Item
<1> QED BY <1>2, NoneAssumption DEF CountingOrders

\* The supersession of pools P: their epochs change, no slot does, and the
\* reset that starts is the only one.
LEMMA SupersedePools ==
  ASSUME TypeOK, TypeOK', NEW P \in SUBSET Pools, UNCHANGED <<slots, paused, jpc>>,
         \A p \in Pools : p \in P <=> PresentEras'[p] # PresentEras[p],
         \A s \in Slots : Counting(slots[s])' <=>
                          Counting(slots[s]) /\ slots[s].pool \notin P
  PROVE  Orders!Supersede(P)
<1>1. PresentEras' \in [Pools -> Nat \X Nat] BY DEF TypeOK, TypeShared, PresentEras
<1>2. \A s \in Slots : Counting(slots[s]) <=> CountingOrders[s] # None
  BY OrderShows DEF CountingOrders
<1>3. CountingOrders' = [s \in Slots |->
         IF CountingOrders[s] # None /\ CountingOrders[s].pool \in P
         THEN None ELSE CountingOrders[s]]
  <2>1. \A s \in Slots : Counting(slots[s]) => CountingOrders[s].pool = slots[s].pool
    BY OrderShows
  <2>2. \A s \in Slots : CountingOrders'[s] =
           IF CountingOrders[s] # None /\ CountingOrders[s].pool \in P
           THEN None ELSE CountingOrders[s]
    BY <1>2, <2>1 DEF CountingOrders
  <2> QED BY <2>2 DEF CountingOrders
<1>4. UNCHANGED <<paused, IsQuiet>> BY DEF IsQuiet, JobsOnChip
<1> QED BY <1>1, <1>3, <1>4 DEF Orders!Supersede

LEMMA ResetRefines ==
  ASSUME TypeOK, TypeOK', SafeDispatch, SafeDispatch', NEW t \in Tasks, ResetStep(t)
  PROVE  Orders!ONext \/ Stutters
<1> USE DEF Goto, taskVars, chipVars, epochVars, rxVars, jobVars, countVars
<1>1. /\ pc \in [Tasks -> Labels] /\ scope \in [Tasks -> Pools \cup {All}]
      /\ slots \in [Slots -> Item \cup {None}]
  BY DEF TypeOK, TypeTasks, TypeShared
<1>2. CASE Bump(t)
  <2>1. \A u \in Tasks : pc[u] \notin Reclaiming
    BY <1>2, NamesApart DEF Bump, SafeDispatch, LockOwner, Holding
  <2>2. /\ pc' = [pc EXCEPT ![t] = pc'[t]] /\ pc'[t] \in Reclaiming
        /\ UNCHANGED <<scope, slots, paused, jpc>>
    BY <1>1, <1>2 DEF Bump, Reclaiming
  <2>3. \A w : Reclaimed(w)' <=> Superseded(t, w)
    BY <1>1, <2>1, <2>2 DEF Reclaimed, Superseded
  <2>4. \A w : ~Reclaimed(w) BY <2>1 DEF Reclaimed
  <2>5. CASE scope[t] = All
    <3>1. \A p \in Pools : PresentEras'[p] # PresentEras[p]
      BY <1>2, <2>5 DEF Bump, PresentEras, TypeOK, TypeShared
    <3>2. \A s \in Slots : slots[s] # None => slots[s].pool \in Pools BY <1>1 DEF Item
    <3>3. Orders!Supersede(Pools)
      BY <2>2, <2>3, <2>5, <3>1, <3>2, SupersedePools DEF Counting, Superseded
    <3>4. Pools # {} BY PrimaryPool
    <3> QED BY <3>3, <3>4 DEF Orders!ONext
  <2>6. CASE scope[t] # All
    <3>1. scope[t] \in Pools BY <1>1, <2>6
    <3>2. /\ workEpoch' = workEpoch
          /\ poolEpoch' = [poolEpoch EXCEPT ![scope[t]] = @ + 1]
      BY <1>2, <2>6 DEF Bump
    <3>3. poolEpoch \in [Pools -> Nat] BY DEF TypeOK, TypeShared
    <3>4. \A p \in Pools : p \in {scope[t]} <=> PresentEras'[p] # PresentEras[p]
      BY <3>1, <3>2, <3>3 DEF PresentEras
    <3>5. \A s \in Slots : Counting(slots[s])' <=>
                           Counting(slots[s]) /\ slots[s].pool \notin {scope[t]}
      BY <2>2, <2>3, <2>4, <2>6 DEF Counting, Superseded
    <3>6. Orders!Supersede({scope[t]}) BY <2>2, <3>1, <3>4, <3>5, SupersedePools
    <3> QED BY <3>1, <3>6 DEF Orders!ONext
  <2> QED BY <2>5, <2>6
<1>3. CASE BumpPools(t)
  <2>1. /\ pc[t] = "bumpPools" /\ pc'[t] \in Reclaiming
        /\ UNCHANGED <<workEpoch, scope, slots, paused, jpc>>
    BY <1>1, <1>3 DEF BumpPools, Reclaiming
  <2>2. scope[t] = All BY <2>1 DEF SafeDispatch, FullReset
  <2>3. pc[t] \in Reclaiming BY <2>1 DEF Reclaiming
  <2>4. \A s \in Slots : ~Counting(slots[s]) /\ ~Counting(slots[s])'
    BY <2>1, <2>2, <2>3 DEF Counting, Reclaimed, Superseded
  <2>5. poolEpoch' = [poolEpoch EXCEPT ![cursor[t]] = @ + 1] BY <1>3 DEF BumpPools
  <2>6. poolEpoch \in [Pools -> Nat] BY DEF TypeOK, TypeShared
  <2>7. CASE cursor[t] \in Pools
    <3>1. \A p \in Pools : p \in {cursor[t]} <=> PresentEras'[p] # PresentEras[p]
      BY <2>1, <2>5, <2>6, <2>7 DEF PresentEras
    <3>2. Orders!Supersede({cursor[t]}) BY <2>1, <2>4, <2>7, <3>1, SupersedePools
    <3> QED BY <2>7, <3>2 DEF Orders!ONext
  <2>8. CASE cursor[t] \notin Pools
    <3>1. poolEpoch' = poolEpoch BY <2>5, <2>6, <2>8
    <3> QED BY <2>1, <2>4, <3>1
            DEF Stutters, PresentEras, CountingOrders, IsQuiet, JobsOnChip
  <2> QED BY <2>7, <2>8
<1>4. CASE Drain(t)
  <2>1. OnlyMoves(t) BY <1>1, <1>4 DEF OnlyMoves, dispatchVars, Drain, TypeOK, TypeTasks
  <2>2. pc[t] \in Reclaiming /\ pc'[t] \in Reclaiming /\ scope'[t] = scope[t]
    BY <1>1, <1>4 DEF Drain, Reclaiming
  <2> QED BY <2>1, <2>2, InsideStutters
<1>5. CASE Clear(t)
  <2>1. /\ pc[t] = "clear" /\ pc' = [pc EXCEPT ![t] = "mark"]
        /\ UNCHANGED <<workEpoch, poolEpoch, scope, paused, jpc>>
    BY <1>5 DEF Clear
  <2>2. pc[t] \in Reclaiming /\ pc[t] \in Holding BY <2>1 DEF Reclaiming, Holding
  <2>3. \A u \in Tasks : pc[u] \in Reclaiming <=> u = t BY <2>2, OneHolder DEF Holding
  <2>4. \A u \in Tasks : pc'[u] \notin Reclaiming BY <1>1, <2>1, <2>3 DEF Reclaiming
  <2>5. \A w : Reclaimed(w) <=> Superseded(t, w) BY <2>3 DEF Reclaimed
  <2>6. \A w : ~Reclaimed(w)' BY <2>4 DEF Reclaimed
  <2>7. \A s \in Slots : slots'[s] = IF Superseded(t, slots[s]) THEN None ELSE slots[s]
    BY <1>5 DEF Clear
  <2>8. CountingOrders' = CountingOrders
    BY <2>5, <2>6, <2>7 DEF CountingOrders, Counting
  <2>9. PresentEras' = PresentEras BY <2>1 DEF PresentEras
  <2>10. JobsOnChip = {} => JobsOnChip' = {} BY <2>7 DEF JobsOnChip
  <2>11. CASE IsQuiet' = IsQuiet BY <2>1, <2>8, <2>9, <2>11 DEF Stutters
  <2>12. CASE IsQuiet' # IsQuiet
    <3>1. IsQuiet' /\ paused BY <2>1, <2>10, <2>12 DEF IsQuiet
    <3>2. CountingOrders' = Orders!Empty
      BY <3>1 DEF IsQuiet, JobsOnChip, CountingOrders, Counting, Orders!Empty
    <3>3. IsQuiet' = TRUE BY <3>1 DEF IsQuiet
    <3> QED BY <2>1, <2>9, <3>1, <3>2, <3>3 DEF Orders!ONext, Orders!Quieten
  <2> QED BY <2>11, <2>12
<1>6. CASE MarkAndGive(t)
  <2>1. /\ pc[t] = "mark" /\ pc' = [pc EXCEPT ![t] = after[t]]
        /\ scope' = [scope EXCEPT ![t] = All]
        /\ UNCHANGED <<workEpoch, poolEpoch, slots, paused, jpc>>
    BY <1>6 DEF MarkAndGive
  <2>2. after[t] \notin Reclaiming
    BY DEF TypeOK, InHand, ReturnKnown, Returns, Reclaiming
  <2>3. \A w : Reclaimed(w)' <=> Reclaimed(w)
    BY <1>1, <2>1, <2>2 DEF Reclaimed, Superseded, Reclaiming
  <2> QED BY <2>1, <2>3, SameOrders DEF Stutters, IsQuiet
<1> QED BY <1>2, <1>3, <1>4, <1>5, <1>6 DEF ResetStep

LEMMA RotateRefines ==
  ASSUME TypeOK, TypeOK', SafeDispatch, NEW t \in Tasks, RotateStep(t) PROVE Stutters
<1> USE DEF Goto, taskVars, chipVars, epochVars, rxVars, jobVars, countVars
<1>1. pc \in [Tasks -> Labels] /\ pc' \in [Tasks -> Labels] BY DEF TypeOK, TypeTasks
<1>2. OnlyMoves(t) /\ scope'[t] = scope[t]
  BY <1>1 DEF RotateStep, Count, RotateTake, RotatePut, RotateEnd, OnlyMoves, dispatchVars
<1>3. pc[t] \in Reclaiming <=> pc'[t] \in Reclaiming
  BY <1>1 DEF RotateStep, Count, RotateTake, RotatePut, RotateEnd, Reclaiming
<1> QED BY <1>2, <1>3, InsideStutters, OutsideStutters

LEMMA RxRefines ==
  ASSUME TypeOK, TypeOK', SafeDispatch, NEW p \in Pools, RxStep(p) PROVE Stutters
<1> USE DEF Goto, StartReset, NewMsg, taskVars, chipVars, epochVars, rxVars, jobVars,
            countVars
<1>1. p \in Tasks BY DEF Tasks
<1>2. /\ pc \in [Tasks -> Labels] /\ after \in [Tasks -> Labels]
      /\ scope \in [Tasks -> Pools \cup {All}] /\ pc' \in [Tasks -> Labels]
  BY DEF TypeOK, TypeTasks
<1>3. OnlyMoves(p)
  BY <1>1, <1>2
  DEF RxStep, RxDial, RxSetup, RxConnected, RxGiveUp, RxLinkLost, RxSubscribed,
      RxSetExtranonce, RxStoreExtranonce, RxSetDifficulty, RxVersionMask, RxUnusableMask,
      RxCloseSelf, RxNotify, EnqEpoch, EnqSession, EnqSend, OnlyMoves, dispatchVars
<1>4. pc[p] \notin Reclaiming /\ pc'[p] \notin Reclaiming
  BY <1>1, <1>2
  DEF RxStep, RxDial, RxSetup, RxConnected, RxGiveUp, RxLinkLost, RxSubscribed,
      RxSetExtranonce, RxStoreExtranonce, RxSetDifficulty, RxVersionMask, RxUnusableMask,
      RxCloseSelf, RxNotify, EnqEpoch, EnqSession, EnqSend, Reclaiming
<1> QED BY <1>1, <1>3, <1>4, OutsideStutters

LEMMA CtlRefines ==
  ASSUME TypeOK, TypeOK', SafeDispatch, SafeDispatch', NEW c \in Controls, CtlStep(c)
  PROVE  Orders!ONext \/ Stutters
<1> USE DEF Goto, StartReset, NewOp, taskVars, chipVars, epochVars, rxVars, jobVars,
            countVars
<1>1. c \in Tasks BY DEF Tasks
<1>2. /\ pc \in [Tasks -> Labels] /\ after \in [Tasks -> Labels]
      /\ scope \in [Tasks -> Pools \cup {All}] /\ pc' \in [Tasks -> Labels]
  BY DEF TypeOK, TypeTasks
<1>3. CASE \/ CtlSettings(c) \/ CtlReconnectAll(c) \/ CtlReconnectMask(c)
           \/ CtlReconnectNext(c) \/ CtlClose(c)
  <2>1. OnlyMoves(c)
    BY <1>1, <1>2, <1>3
    DEF CtlSettings, CtlReconnectAll, CtlReconnectMask, CtlReconnectNext,
        CtlClose, OnlyMoves, dispatchVars
  <2>2. pc[c] \notin Reclaiming /\ pc'[c] \notin Reclaiming
    BY <1>1, <1>2, <1>3
    DEF CtlSettings, CtlReconnectAll, CtlReconnectMask, CtlReconnectNext,
        CtlClose, Reclaiming
  <2> QED BY <1>1, <2>1, <2>2, OutsideStutters
<1>4. ASSUME \/ CtlPause(c) \/ CtlResume(c) \/ CtlQuiesceLock(c) \/ CtlQuiesceClear(c)
             \/ CtlResumed(c)
      PROVE  /\ UNCHANGED <<workEpoch, poolEpoch, jpc, PresentEras>>
             /\ \A w : Reclaimed(w)' <=> Reclaimed(w)
  <2>1. after[c] \notin Reclaiming
    BY <1>1 DEF TypeOK, InHand, ReturnKnown, Returns, Reclaiming
  <2>2. /\ UNCHANGED <<workEpoch, poolEpoch, jpc, scope>>
        /\ pc[c] \notin Reclaiming /\ pc'[c] \notin Reclaiming
        /\ \A u \in Tasks \ {c} : pc'[u] = pc[u]
    BY <1>1, <1>2, <1>4, <2>1
    DEF CtlPause, CtlResume, CtlQuiesceLock, CtlQuiesceClear, CtlResumed, Reclaiming
  <2> QED BY <2>2 DEF Reclaimed, Superseded, PresentEras
<1>5. CASE CtlPause(c)
  <2>1. slots' = slots /\ paused' = TRUE BY <1>5 DEF CtlPause
  <2>2. CountingOrders' = CountingOrders BY <1>4, <1>5, <2>1, SameOrders
  <2>3. CASE JobsOnChip = {} /\ jpc # "send"
    <3>1. CountingOrders = Orders!Empty
      BY <2>3 DEF JobsOnChip, CountingOrders, Counting, Orders!Empty
    <3> QED BY <1>4, <1>5, <2>1, <2>2, <3>1 DEF Orders!ONext, Orders!AskPause
  <2>4. CASE ~(JobsOnChip = {} /\ jpc # "send")
    <3>1. IsQuiet' = IsQuiet BY <1>4, <1>5, <2>1, <2>4 DEF IsQuiet, JobsOnChip
    <3> QED BY <1>4, <1>5, <2>1, <2>2, <3>1 DEF Orders!ONext, Orders!AskPause
  <2> QED BY <2>3, <2>4
<1>6. CASE CtlResume(c) \/ CtlQuiesceLock(c)
  <2>1. UNCHANGED <<slots, paused>> BY <1>6 DEF CtlResume, CtlQuiesceLock
  <2> QED BY <1>4, <1>6, <2>1, SameOrders DEF Stutters, IsQuiet
<1>7. CASE CtlQuiesceClear(c)
  <2>1. paused' = paused /\ \A s \in Slots : slots'[s] = None BY <1>7 DEF CtlQuiesceClear
  <2>2. pc[c] \in Holding BY <1>7 DEF CtlQuiesceClear, Holding
  <2>3. jpc' # "send" BY <1>1, <1>4, <1>7, <2>2, OneHolder
  <2>4. CountingOrders' = Orders!Empty
    BY <2>1 DEF CountingOrders, Counting, Orders!Empty
  <2>5. JobsOnChip' = {} BY <2>1 DEF JobsOnChip
  <2>6. CASE paused
    <3>1. IsQuiet' = TRUE BY <2>1, <2>3, <2>5, <2>6 DEF IsQuiet
    <3> QED BY <1>4, <1>7, <2>1, <2>4, <2>6, <3>1 DEF Orders!ONext, Orders!Quieten
  <2>7. CASE ~paused
    <3>1. IsQuiet' = IsQuiet BY <2>1, <2>7 DEF IsQuiet
    <3> QED BY <1>4, <1>7, <2>1, <2>4, <3>1 DEF Orders!ONext, Orders!Recall
  <2> QED BY <2>6, <2>7
<1>8. CASE CtlResumed(c)
  <2>1. slots' = slots /\ paused' = FALSE BY <1>8 DEF CtlResumed
  <2>2. CountingOrders' = CountingOrders BY <1>4, <1>8, <2>1, SameOrders
  <2>3. IsQuiet' = FALSE BY <2>1 DEF IsQuiet
  <2> QED BY <1>4, <1>8, <2>1, <2>2, <2>3 DEF Orders!ONext, Orders!Resume
<1> QED BY <1>3, <1>5, <1>6, <1>7, <1>8 DEF CtlStep

LEMMA JobRefines ==
  ASSUME TypeOK, TypeOK', SafeDispatch, SafeDispatch', JobStep
  PROVE  Orders!ONext \/ Stutters
<1> USE DEF JobGoto, taskVars, chipVars, epochVars, rxVars, jobVars, countVars
<1>1. \A w : Reclaimed(w)' <=> Reclaimed(w) BY JobFrame DEF Reclaimed, Superseded
<1>2. PresentEras' = PresentEras BY JobFrame DEF PresentEras
<1>3. CASE ~JobSend
  <2>1. /\ slots' = slots
        /\ \/ jpc # "send" /\ jpc' # "send"
           \/ ~paused
    BY <1>3 DEF JobStep, JobReceive, JobSync, JobApply, JobQueueEmpty, JobSelect,
                JobNothingToSend, JobLock, JobRecheck, MaySend
  <2>2. IsQuiet' = IsQuiet BY <2>1, JobFrame DEF IsQuiet, JobsOnChip
  <2> QED BY <1>1, <1>2, <2>1, <2>2, JobFrame, SameOrders DEF Stutters
<1>4. CASE JobSend
  <2>1. /\ jpc = "send" /\ job \in Item /\ slot \in Slots
        /\ slots \in [Slots -> Item \cup {None}]
        /\ slots' = [slots EXCEPT ![slot] = job]
    BY <1>4 DEF JobSend, TypeOK, InHand, JobHeld, TypeShared
  <2>2. job # None BY <2>1, NoneAssumption
  <2>3. \A u \in Tasks : pc[u] \notin Reclaiming
    BY <2>1, NamesApart DEF SafeDispatch, LockOwner, Holding
  <2>4. \A w : ~Reclaimed(w) BY <2>3 DEF Reclaimed
  <2>5. Current(job) BY <2>1 DEF SafeDispatch, SendCurrent
  <2>6. job.pool \in Pools BY <2>1 DEF Item
  <2>7. CountingOrders' =
          [CountingOrders EXCEPT ![slot] = [pool |-> job.pool, era |-> PresentEras[job.pool]]]
    <3>1. PresentEras[job.pool] = <<job.epoch, job.poolEpoch>>
      BY <2>5, <2>6 DEF Current, PresentEras
    <3> DEFINE order == [pool |-> job.pool, era |-> <<job.epoch, job.poolEpoch>>]
    <3>2. \A s \in Slots :
            CountingOrders'[s] = IF s = slot THEN order ELSE CountingOrders[s]
      BY <1>1, <2>1, <2>2, <2>4 DEF CountingOrders, Counting
    <3>3. CountingOrders' = [s \in Slots |-> CountingOrders'[s]]
          /\ CountingOrders = [s \in Slots |-> CountingOrders[s]]
      BY DEF CountingOrders
    <3> HIDE DEF order
    <3>4. CountingOrders' = [CountingOrders EXCEPT ![slot] = order]
      BY <2>1, <3>2, <3>3
    <3> QED BY <3>1, <3>4 DEF order
  <2>8. ~IsQuiet BY <2>1 DEF IsQuiet
  <2>9. ~IsQuiet' BY <2>1, <2>2 DEF IsQuiet, JobsOnChip
  <2>10. IsQuiet' = IsQuiet BY <2>8, <2>9 DEF IsQuiet
  <2>11. Orders!Dispatch(slot, job.pool)
    BY <1>2, <2>7, <2>8, <2>10, JobFrame DEF Orders!Dispatch
  <2> QED BY <2>1, <2>6, <2>11 DEF Orders!ONext
<1> QED BY <1>3, <1>4

LEMMA NextRefines ==
  ASSUME TypeOK, TypeOK', SafeDispatch, SafeDispatch', [Next]_vars
  PROVE  [Orders!ONext]_Orders!ovars
<1>1. ASSUME Stutters PROVE UNCHANGED Orders!ovars BY <1>1 DEF Stutters, Orders!ovars
<1>2. ASSUME NEW t \in Tasks, ResetStep(t) PROVE Orders!ONext \/ Stutters
  BY <1>2, ResetRefines
<1>3. ASSUME NEW t \in Tasks, RotateStep(t) PROVE Orders!ONext \/ Stutters
  BY <1>3, RotateRefines
<1>4. ASSUME NEW p \in Pools, RxStep(p) PROVE Orders!ONext \/ Stutters
  BY <1>4, RxRefines
<1>5. ASSUME NEW c \in Controls, CtlStep(c) PROVE Orders!ONext \/ Stutters
  BY <1>5, CtlRefines
<1>6. CASE JobStep BY <1>1, <1>6, JobRefines
<1>7. CASE UNCHANGED vars
  <2>1. UNCHANGED <<workEpoch, poolEpoch, slots, pc, scope, paused, jpc>>
    BY <1>7 DEF vars, taskVars, chipVars, epochVars, rxVars, jobVars, countVars
  <2>2. \A w : Reclaimed(w)' <=> Reclaimed(w) BY <2>1 DEF Reclaimed, Superseded
  <2> QED BY <1>1, <2>1, <2>2, SameOrders DEF Stutters, IsQuiet
<1> QED BY <1>1, <1>2, <1>3, <1>4, <1>5, <1>6, <1>7 DEF Next

-----------------------------------------------------------------------------

\* Queue, tasks and lock together are no more than the instantaneous orders of
\* WorkOrders: a bump of an epoch is the moment the old work is void, only
\* present work is dispatched, and a quiet miner stays so until it is resumed.
THEOREM PipelineImplementsOrders == Spec => ImplementsOrders
<1>1. Init => Orders!OInit BY OrdersInit
<1>2. TypeOK /\ TypeOK' /\ SafeDispatch /\ SafeDispatch' /\ [Next]_vars
         => [Orders!ONext]_Orders!ovars
  BY NextRefines
<1> QED BY <1>1, <1>2, TypeCorrect, DispatchSafe, PTL DEF Spec, ImplementsOrders, Orders!OSpec

=============================================================================
