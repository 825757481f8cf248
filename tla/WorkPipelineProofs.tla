------------------------- MODULE WorkPipelineProofs --------------------------
(***************************************************************************)
(* Proofs about WorkPipeline, for every number of pools, slots and control *)
(* tasks and every bound.                                                  *)
(***************************************************************************)
EXTENDS WorkPipeline, TLAPS

-----------------------------------------------------------------------------
(* Every variable keeps its type.                                          *)

LEMMA NoParamType == NoParam \in Param
<1>1. \E par \in Param : TRUE
  <2>1. PICK x \in Extranonces : TRUE BY ParamsAssumption
  <2>2. PICK m \in Masks : TRUE BY ParamsAssumption
  <2>3. [xn |-> x, diff |-> 1, mask |-> m] \in Param
    BY SizesAssumption DEF Param
  <2> QED BY <2>3
<1> QED BY <1>1 DEF NoParam

LEMMA PrimaryPool == Primary \in Pools
BY SizesAssumption DEF Primary, Pools

LEMMA MarkerType ==
  ASSUME TypeOK, NEW p \in Pools, NEW kind \in {"pool", "all"}
  PROVE  Marker(kind, p) \in Item
BY NoParamType DEF TypeOK, TypeShared, Marker, Item

LEMMA ScopeType ==
  ASSUME NEW p \in Pools PROVE PoolScope(p) \in Pools \cup {All}
BY DEF PoolScope

LEMMA EnabledType ==
  ASSUME sess \in [Pools -> Session], NEW P PROVE Enabled(P) \in [Pools -> Session]
<1>1. \A p \in Pools : [sess[p] EXCEPT !.disabled = FALSE] \in Session BY DEF Session
<1> QED BY <1>1 DEF Enabled

LEMMA EnabledKeeps ==
  ASSUME sess \in [Pools -> Session], NEW P, NEW p \in Pools
  PROVE  Enabled(P)[p].par = sess[p].par /\ Enabled(P)[p].ready = sess[p].ready
BY DEF Enabled, Session

LEMMA ClosedType ==
  ASSUME sess \in [Pools -> Session], NEW P PROVE Closed(P) \in [Pools -> Session]
<1>1. \A p \in Pools : [sess[p] EXCEPT !.closing = TRUE] \in Session BY DEF Session
<1> QED BY <1>1 DEF Closed

LEMMA TypeInit == Init => TypeOK
<1> SUFFICES ASSUME Init PROVE TypeOK OBVIOUS
<1>1. sess \in [Pools -> Session]
  <2>1. [xn |-> None, diff |-> 1, mask |-> None] \in SessionParam
    BY SizesAssumption DEF SessionParam
  <2> QED BY <2>1 DEF Init, Session
<1>2. slot \in Slots BY SizesAssumption DEF Init, Slots
<1>3. multi \in BOOLEAN BY SizesAssumption DEF Init
<1>4. queue \in Seq(Item) BY DEF Init
<1>5. slots \in [Slots -> Item \cup {None}]
  <2>1. slots = [s \in Slots |-> None] BY DEF Init
  <2> QED BY <2>1
<1>6. poolEpoch \in [Pools -> Nat] /\ workEpoch \in Nat /\ lock = Free BY DEF Init
<1>7. paused \in BOOLEAN /\ stateMask \in Masks /\ msgs \in Nat /\ ops \in Nat
  BY DEF Init
<1>8. TypeShared BY <1>1, <1>2, <1>3, <1>4, <1>5, <1>6, <1>7 DEF TypeShared
<1>9. "idle" \in Labels BY DEF Labels
<1>10. TypeTasks BY <1>9 DEF Init, TypeTasks
<1>11. TypeJob BY DEF Init, TypeJob, JobLabels
<1>12. InHand
  BY ParamsAssumption DEF Init, InHand, HandHeld, ReturnKnown, DraftHeld, XnHeld, JobHeld,
                          Putting, Drafting, Returns, Pools, Tasks
<1> QED BY <1>8, <1>10, <1>11, <1>12 DEF TypeOK

LEMMA TypeResetStep ==
  ASSUME TypeOK, NEW t \in Tasks, ResetStep(t) PROVE TypeOK'
<1> USE DEF Goto, JobGoto, taskVars, chipVars, epochVars, rxVars, jobVars, countVars
<1>1. CASE Bump(t)
  <2>1. {"bumpPools", "count"} \subseteq Labels BY DEF Labels
  <2>2. poolEpoch' \in [Pools -> Nat] BY <1>1 DEF Bump, TypeOK, TypeShared, TypeTasks
  <2>3. lock' \in Tasks \cup {JobTask, Free} BY <1>1 DEF Bump, TypeOK, TypeShared, TypeTasks
  <2>4. pc' \in [Tasks -> Labels] BY <1>1, <2>1 DEF Bump, TypeOK, TypeTasks
  <2>5. cursor' \in [Tasks -> Nat] BY <1>1 DEF Bump, TypeOK, TypeTasks
  <2>6. TypeShared' BY <1>1, <2>2, <2>3 DEF Bump, TypeOK, TypeShared
  <2>7. TypeTasks' BY <1>1, <2>4, <2>5 DEF Bump, TypeOK, TypeTasks
  <2>8. TypeJob' BY <1>1 DEF Bump, TypeOK, TypeJob
  <2>9. InHand'
    <3>1. HandHeld' BY <1>1 DEF Bump, TypeOK, InHand, TypeTasks, HandHeld, Putting
    <3>2. ReturnKnown'
      BY <1>1 DEF Bump, TypeOK, InHand, TypeTasks, ReturnKnown, Returns, Away
    <3>3. DraftHeld' BY <1>1 DEF Bump, TypeOK, InHand, Tasks, TypeTasks, DraftHeld, Drafting
    <3>4. XnHeld'
      BY <1>1 DEF Bump, TypeOK, InHand, Tasks, TypeShared, TypeTasks, XnHeld, ReturnKnown,
                  Away
    <3> QED BY <1>1, <3>1, <3>2, <3>3, <3>4 DEF Bump, TypeOK, InHand, JobHeld
  <2> QED BY <2>6, <2>7, <2>8, <2>9 DEF TypeOK
<1>2. CASE BumpPools(t)
  <2>1. {"drain"} \subseteq Labels BY DEF Labels
  <2>2. poolEpoch' \in [Pools -> Nat]
    <3>1. poolEpoch \in [Pools -> Nat] BY DEF TypeOK, TypeShared
    <3>2. poolEpoch' = [poolEpoch EXCEPT ![cursor[t]] = @ + 1] BY <1>2 DEF BumpPools
    <3>3. CASE cursor[t] \in Pools BY <3>1, <3>2, <3>3
    <3>4. CASE cursor[t] \notin Pools BY <3>1, <3>2, <3>4
    <3> QED BY <3>3, <3>4
  <2>3. pc' \in [Tasks -> Labels] BY <1>2, <2>1 DEF BumpPools, TypeOK, TypeTasks
  <2>4. cursor' \in [Tasks -> Nat] BY <1>2 DEF BumpPools, TypeOK, TypeTasks
  <2>5. TypeShared' BY <1>2, <2>2 DEF BumpPools, TypeOK, TypeShared
  <2>6. TypeTasks' BY <1>2, <2>3, <2>4 DEF BumpPools, TypeOK, TypeTasks
  <2>7. TypeJob' BY <1>2 DEF BumpPools, TypeOK, TypeJob
  <2>8. InHand'
    <3>1. HandHeld' BY <1>2 DEF BumpPools, TypeOK, InHand, TypeTasks, HandHeld, Putting
    <3>2. ReturnKnown'
      BY <1>2 DEF BumpPools, TypeOK, InHand, TypeTasks, ReturnKnown, Returns, Away
    <3>3. DraftHeld'
      BY <1>2 DEF BumpPools, TypeOK, InHand, Tasks, TypeTasks, DraftHeld, Drafting
    <3>4. XnHeld'
      BY <1>2 DEF BumpPools, TypeOK, InHand, Tasks, TypeShared, TypeTasks, XnHeld,
                  ReturnKnown, Away
    <3> QED BY <1>2, <3>1, <3>2, <3>3, <3>4 DEF BumpPools, TypeOK, InHand, JobHeld
  <2> QED BY <2>5, <2>6, <2>7, <2>8 DEF TypeOK
<1>3. CASE Drain(t)
  <2>1. {"clear"} \subseteq Labels BY DEF Labels
  <2>2. queue' \in Seq(Item)
    <3>1. queue \in Seq(Item) BY DEF TypeOK, TypeShared
    <3>2. queue' = queue \/ (queue # <<>> /\ queue' = Tail(queue)) BY <1>3 DEF Drain
    <3> QED BY <3>1, <3>2
  <2>3. pc' \in [Tasks -> Labels] BY <1>3, <2>1 DEF Drain, TypeOK, TypeTasks
  <2>4. TypeShared' BY <1>3, <2>2 DEF Drain, TypeOK, TypeShared
  <2>5. TypeTasks' BY <1>3, <2>3 DEF Drain, TypeOK, TypeTasks
  <2>6. TypeJob' BY <1>3 DEF Drain, TypeOK, TypeJob
  <2>7. InHand'
    <3>1. HandHeld' BY <1>3 DEF Drain, TypeOK, InHand, TypeTasks, HandHeld, Putting
    <3>2. ReturnKnown'
      BY <1>3 DEF Drain, TypeOK, InHand, TypeTasks, ReturnKnown, Returns, Away
    <3>3. DraftHeld'
      BY <1>3 DEF Drain, TypeOK, InHand, Tasks, TypeTasks, DraftHeld, Drafting
    <3>4. XnHeld'
      BY <1>3 DEF Drain, TypeOK, InHand, Tasks, TypeShared, TypeTasks, XnHeld, ReturnKnown,
                  Away
    <3> QED BY <1>3, <3>1, <3>2, <3>3, <3>4 DEF Drain, TypeOK, InHand, JobHeld
  <2> QED BY <2>4, <2>5, <2>6, <2>7 DEF TypeOK
<1>4. CASE Clear(t)
  <2>1. {"mark"} \subseteq Labels BY DEF Labels
  <2>2. slots' \in [Slots -> Item \cup {None}]
    BY <1>4 DEF Clear, TypeOK, TypeJob, TypeShared
  <2>3. pc' \in [Tasks -> Labels] BY <1>4, <2>1 DEF Clear, TypeOK, TypeTasks
  <2>4. TypeShared' BY <1>4, <2>2 DEF Clear, TypeOK, TypeShared
  <2>5. TypeTasks' BY <1>4, <2>3 DEF Clear, TypeOK, TypeTasks
  <2>6. TypeJob' BY <1>4 DEF Clear, TypeOK, TypeJob
  <2>7. InHand'
    BY <1>4 DEF Clear, TypeOK, TypeTasks, TypeShared, TypeJob, InHand, HandHeld,
                ReturnKnown, DraftHeld, XnHeld, JobHeld, Putting, Drafting, Returns, Away
  <2> QED BY <2>4, <2>5, <2>6, <2>7 DEF TypeOK
<1>5. CASE MarkAndGive(t)
  <2>1. {"idle", "tune", "resume"} \subseteq Labels BY DEF Labels
  <2>2. queue' \in Seq(Item)
    <3>1. queue \in Seq(Item) BY DEF TypeOK, TypeShared
    <3>2. Marker("all", Primary) \in Item BY MarkerType, PrimaryPool
    <3>3. scope[t] # All => Marker("pool", scope[t]) \in Item
      BY MarkerType DEF TypeOK, TypeTasks
    <3>4. \/ queue' = queue \/ queue' = Append(queue, Marker("all", Primary))
          \/ scope[t] # All /\ queue' = Append(queue, Marker("pool", scope[t]))
      BY <1>5 DEF MarkAndGive
    <3> QED BY <3>1, <3>2, <3>3, <3>4
  <2>3. lock' \in Tasks \cup {JobTask, Free}
    BY <1>5 DEF MarkAndGive, TypeOK, TypeShared, TypeTasks
  <2>4. pc' \in [Tasks -> Labels] BY <1>5, <2>1 DEF MarkAndGive, TypeOK, TypeTasks
  <2>5. after' \in [Tasks -> Labels] BY <1>5, <2>1 DEF MarkAndGive, TypeOK, TypeTasks
  <2>6. scope' \in [Tasks -> Pools \cup {All}] BY <1>5 DEF MarkAndGive, TypeOK, TypeTasks
  <2>7. TypeShared' BY <1>5, <2>2, <2>3 DEF MarkAndGive, TypeOK, TypeShared
  <2>8. TypeTasks' BY <1>5, <2>4, <2>5, <2>6 DEF MarkAndGive, TypeOK, TypeTasks
  <2>9. TypeJob' BY <1>5 DEF MarkAndGive, TypeOK, TypeJob
  <2>10. InHand'
    <3>1. HandHeld'
      BY <1>5 DEF MarkAndGive, TypeOK, InHand, TypeTasks, HandHeld, Putting, ReturnKnown,
                  Returns, Away
    <3>2. ReturnKnown'
      BY <1>5 DEF MarkAndGive, TypeOK, InHand, TypeTasks, ReturnKnown, Returns, Away
    <3>3. DraftHeld'
      BY <1>5 DEF MarkAndGive, TypeOK, InHand, Tasks, TypeTasks, DraftHeld, Drafting,
                  ReturnKnown, Returns, Away
    <3>4. XnHeld'
      BY <1>5 DEF MarkAndGive, TypeOK, InHand, Tasks, TypeShared, TypeTasks, XnHeld,
                  ReturnKnown, Returns, Away
    <3> QED BY <1>5, <3>1, <3>2, <3>3, <3>4 DEF MarkAndGive, TypeOK, InHand, JobHeld
  <2> QED BY <2>7, <2>8, <2>9, <2>10 DEF TypeOK
<1> QED BY <1>1, <1>2, <1>3, <1>4, <1>5 DEF ResetStep

LEMMA TypeRotateStep ==
  ASSUME TypeOK, NEW t \in Tasks, RotateStep(t) PROVE TypeOK'
<1> USE DEF Goto, JobGoto, taskVars, chipVars, epochVars, rxVars, jobVars, countVars
<1>1. CASE Count(t)
  <2>1. {"count", "rotate", "seek"} \subseteq Labels BY DEF Labels
  <2>2. pc' \in [Tasks -> Labels] BY <1>1, <2>1 DEF Count, TypeOK, TypeTasks
  <2>3. cursor' \in [Tasks -> Nat] BY <1>1 DEF Count, TypeOK, TypeTasks
  <2>4. TypeShared' BY <1>1 DEF Count, TypeOK, TypeShared
  <2>5. TypeTasks' BY <1>1, <2>2, <2>3 DEF Count, TypeOK, TypeTasks
  <2>6. TypeJob' BY <1>1 DEF Count, TypeOK, TypeJob
  <2>7. InHand'
    BY <1>1 DEF Count, TypeOK, TypeTasks, TypeShared, TypeJob, InHand, HandHeld,
                ReturnKnown, DraftHeld, XnHeld, JobHeld, Putting, Drafting, Returns, Away
  <2> QED BY <2>4, <2>5, <2>6, <2>7 DEF TypeOK
<1>2. CASE RotateTake(t)
  <2>1. {"rotate", "rotatePut", "seek", "seekPut", "passPut"} \subseteq Labels BY DEF Labels
  <2>2. queue' \in Seq(Item)
    <3>1. queue \in Seq(Item) BY DEF TypeOK, TypeShared
    <3>2. queue # <<>> /\ queue' = Tail(queue) BY <1>2 DEF RotateTake, RotationDone
    <3> QED BY <3>1, <3>2
  <2>3. pc' \in [Tasks -> Labels]
    BY <1>2, <2>1 DEF RotateTake, RotationDone, TypeOK, TypeTasks
  <2>4. hand' \in [Tasks -> Item \cup {None}]
    <3>1. queue \in Seq(Item) /\ queue # <<>>
      BY <1>2 DEF RotateTake, RotationDone, TypeOK, TypeShared
    <3>2. Head(queue) \in Item BY <3>1
    <3> QED BY <1>2, <3>2 DEF RotateTake, TypeOK, TypeTasks
  <2>5. TypeShared' BY <1>2, <2>2 DEF RotateTake, RotationDone, TypeOK, TypeShared
  <2>6. TypeTasks' BY <1>2, <2>3, <2>4 DEF RotateTake, RotationDone, TypeOK, TypeTasks
  <2>7. TypeJob' BY <1>2 DEF RotateTake, RotationDone, TypeOK, TypeJob
  <2>8. InHand'
    BY <1>2 DEF RotateTake, RotationDone, TypeOK, TypeTasks, TypeShared, TypeJob, InHand,
                HandHeld, ReturnKnown, DraftHeld, XnHeld, JobHeld, Putting, Drafting,
                Returns, Away
  <2> QED BY <2>5, <2>6, <2>7, <2>8 DEF TypeOK
<1>3. CASE RotatePut(t)
  <2>1. {"rotatePut", "rotate", "seekPut", "seek", "pass"} \subseteq Labels BY DEF Labels
  <2>2. queue' \in Seq(Item)
    <3>1. queue \in Seq(Item) /\ hand[t] \in Item
      BY <1>3 DEF RotatePut, TypeOK, TypeShared, InHand, HandHeld, Putting
    <3>2. queue' = queue \/ queue' = Append(queue, hand[t]) BY <1>3 DEF RotatePut
    <3> QED BY <3>1, <3>2
  <2>3. pc' \in [Tasks -> Labels] BY <1>3, <2>1 DEF RotatePut, TypeOK, TypeTasks
  <2>4. cursor' \in [Tasks -> Nat]
    BY <1>3 DEF RotatePut, TypeOK, InHand, TypeTasks, HandHeld, Putting
  <2>5. hand' \in [Tasks -> Item \cup {None}]
    BY <1>3 DEF RotatePut, TypeOK, InHand, TypeShared, TypeTasks, HandHeld, DraftHeld,
                XnHeld, JobHeld, Putting, Drafting
  <2>6. TypeShared' BY <1>3, <2>2 DEF RotatePut, TypeOK, TypeShared
  <2>7. TypeTasks' BY <1>3, <2>3, <2>4, <2>5 DEF RotatePut, TypeOK, TypeTasks
  <2>8. TypeJob' BY <1>3 DEF RotatePut, TypeOK, TypeJob
  <2>9. InHand'
    BY <1>3 DEF RotatePut, TypeOK, TypeTasks, TypeShared, TypeJob, InHand, HandHeld,
                ReturnKnown, DraftHeld, XnHeld, JobHeld, Putting, Drafting, Returns, Away
  <2> QED BY <2>6, <2>7, <2>8, <2>9 DEF TypeOK
<1>4. CASE RotateEnd(t)
  <2>1. {"rotate", "clear", "resend"} \subseteq Labels BY DEF Labels
  <2>2. pc' \in [Tasks -> Labels]
    BY <1>4, <2>1 DEF RotateEnd, RotationDone, TypeOK, TypeTasks
  <2>3. cursor' \in [Tasks -> Nat] BY <1>4 DEF RotateEnd, RotationDone, TypeOK, TypeTasks
  <2>4. TypeShared' BY <1>4 DEF RotateEnd, RotationDone, TypeOK, TypeShared
  <2>5. TypeTasks' BY <1>4, <2>2, <2>3 DEF RotateEnd, RotationDone, TypeOK, TypeTasks
  <2>6. TypeJob' BY <1>4 DEF RotateEnd, RotationDone, TypeOK, TypeJob
  <2>7. InHand'
    BY <1>4 DEF RotateEnd, RotationDone, TypeOK, TypeTasks, TypeShared, TypeJob, InHand,
                HandHeld, ReturnKnown, DraftHeld, XnHeld, JobHeld, Putting, Drafting,
                Returns, Away
  <2> QED BY <2>4, <2>5, <2>6, <2>7 DEF TypeOK
<1> QED BY <1>1, <1>2, <1>3, <1>4 DEF RotateStep

LEMMA TypeRxStep ==
  ASSUME TypeOK, NEW p \in Pools, RxStep(p) PROVE TypeOK'
<1> USE DEF Goto, JobGoto, taskVars, chipVars, epochVars, rxVars, jobVars, countVars
<1> p \in Tasks BY DEF Tasks
<1>1. CASE RxDial(p)
  <2>1. {"dialled", "bump"} \subseteq Labels BY DEF Labels
  <2>2. pc' \in [Tasks -> Labels]
    BY <1>1, <2>1 DEF RxDial, NewMsg, StartReset, TypeOK, TypeTasks
  <2>3. after' \in [Tasks -> Labels]
    BY <1>1, <2>1 DEF RxDial, NewMsg, StartReset, TypeOK, TypeTasks
  <2>4. scope' \in [Tasks -> Pools \cup {All}]
    BY <1>1, ScopeType DEF RxDial, NewMsg, StartReset, TypeOK, TypeTasks
  <2>5. TypeShared' BY <1>1 DEF RxDial, NewMsg, StartReset, TypeOK, TypeShared
  <2>6. TypeTasks'
    BY <1>1, <2>2, <2>3, <2>4 DEF RxDial, NewMsg, StartReset, TypeOK, TypeTasks
  <2>7. TypeJob' BY <1>1 DEF RxDial, NewMsg, StartReset, TypeOK, TypeJob
  <2>8. InHand'
    <3>1. HandHeld'
      BY <1>1 DEF RxDial, NewMsg, StartReset, TypeOK, InHand, TypeTasks, HandHeld, Putting
    <3>2. ReturnKnown'
      BY <1>1 DEF RxDial, NewMsg, StartReset, TypeOK, InHand, TypeTasks, ReturnKnown,
                  Returns, Away
    <3>3. DraftHeld'
      BY <1>1 DEF RxDial, NewMsg, StartReset, TypeOK, InHand, Tasks, TypeTasks, DraftHeld,
                  Drafting
    <3>4. XnHeld'
      BY <1>1 DEF RxDial, NewMsg, StartReset, TypeOK, InHand, Tasks, TypeShared, TypeTasks,
                  XnHeld, ReturnKnown, Away
    <3> QED
      BY <1>1, <3>1, <3>2, <3>3, <3>4
      DEF RxDial, NewMsg, StartReset, TypeOK, InHand, JobHeld
  <2> QED BY <2>5, <2>6, <2>7, <2>8 DEF TypeOK
<1>2. CASE RxSetup(p)
  <2>1. {"setup"} \subseteq Labels BY DEF Labels
  <2>2. sess' \in [Pools -> Session]
    <3>1. sess \in [Pools -> Session] BY DEF TypeOK, TypeShared
    <3>2. sess' = [sess EXCEPT ![p].par.diff = 1] BY <1>2 DEF RxSetup
    <3> QED BY <3>1, <3>2, SizesAssumption DEF Session, SessionParam
  <2>3. pc' \in [Tasks -> Labels] BY <1>2, <2>1 DEF RxSetup, TypeOK, TypeTasks
  <2>4. TypeShared' BY <1>2, <2>2 DEF RxSetup, TypeOK, TypeShared
  <2>5. TypeTasks' BY <1>2, <2>3 DEF RxSetup, TypeOK, TypeTasks
  <2>6. TypeJob' BY <1>2 DEF RxSetup, TypeOK, TypeJob
  <2>7. InHand'
    <3>1. HandHeld' BY <1>2 DEF RxSetup, TypeOK, InHand, TypeTasks, HandHeld, Putting
    <3>2. ReturnKnown'
      BY <1>2 DEF RxSetup, TypeOK, InHand, TypeTasks, ReturnKnown, Returns, Away
    <3>3. DraftHeld'
      BY <1>2 DEF RxSetup, TypeOK, InHand, Tasks, TypeTasks, DraftHeld, Drafting
    <3>4. XnHeld'
      BY <1>2 DEF RxSetup, TypeOK, InHand, Tasks, TypeShared, TypeTasks, XnHeld,
                  ReturnKnown, Away
    <3> QED BY <1>2, <3>1, <3>2, <3>3, <3>4 DEF RxSetup, TypeOK, InHand, JobHeld
  <2> QED BY <2>4, <2>5, <2>6, <2>7 DEF TypeOK
<1>3. CASE RxConnected(p)
  <2>1. {"online"} \subseteq Labels BY DEF Labels
  <2>2. sess' \in [Pools -> Session]
    <3>1. sess \in [Pools -> Session] BY DEF TypeOK, TypeShared
    <3>2. sess' = [sess EXCEPT ![p] = [@ EXCEPT !.connected = TRUE, !.ready = FALSE,
                                     !.disabled = FALSE, !.closing = FALSE]]
                                       BY <1>3 DEF RxConnected
    <3>4. [sess[p] EXCEPT !.connected = TRUE, !.ready = FALSE,
                                     !.disabled = FALSE, !.closing = FALSE] \in Session
                                       BY <3>1 DEF Session, SessionParam
    <3> QED BY <3>1, <3>2, <3>4
  <2>3. pc' \in [Tasks -> Labels] BY <1>3, <2>1 DEF RxConnected, TypeOK, TypeTasks
  <2>4. TypeShared' BY <1>3, <2>2 DEF RxConnected, TypeOK, TypeShared
  <2>5. TypeTasks' BY <1>3, <2>3 DEF RxConnected, TypeOK, TypeTasks
  <2>6. TypeJob' BY <1>3 DEF RxConnected, TypeOK, TypeJob
  <2>7. InHand'
    <3>1. HandHeld' BY <1>3 DEF RxConnected, TypeOK, InHand, TypeTasks, HandHeld, Putting
    <3>2. ReturnKnown'
      BY <1>3 DEF RxConnected, TypeOK, InHand, TypeTasks, ReturnKnown, Returns, Away
    <3>3. DraftHeld'
      BY <1>3 DEF RxConnected, TypeOK, InHand, Tasks, TypeTasks, DraftHeld, Drafting
    <3>4. XnHeld'
      BY <1>3 DEF RxConnected, TypeOK, InHand, Tasks, TypeShared, TypeTasks, XnHeld,
                  ReturnKnown, Away
    <3> QED BY <1>3, <3>1, <3>2, <3>3, <3>4 DEF RxConnected, TypeOK, InHand, JobHeld
  <2> QED BY <2>4, <2>5, <2>6, <2>7 DEF TypeOK
<1>4. CASE RxGiveUp(p)
  <2>1. {"idle", "bump"} \subseteq Labels BY DEF Labels
  <2>2. pc' \in [Tasks -> Labels]
    BY <1>4, <2>1 DEF RxGiveUp, NewMsg, StartReset, TypeOK, TypeTasks
  <2>3. after' \in [Tasks -> Labels]
    BY <1>4, <2>1 DEF RxGiveUp, NewMsg, StartReset, TypeOK, TypeTasks
  <2>4. scope' \in [Tasks -> Pools \cup {All}]
    BY <1>4, ScopeType DEF RxGiveUp, NewMsg, StartReset, TypeOK, TypeTasks
  <2>5. TypeShared' BY <1>4 DEF RxGiveUp, NewMsg, StartReset, TypeOK, TypeShared
  <2>6. TypeTasks'
    BY <1>4, <2>2, <2>3, <2>4 DEF RxGiveUp, NewMsg, StartReset, TypeOK, TypeTasks
  <2>7. TypeJob' BY <1>4 DEF RxGiveUp, NewMsg, StartReset, TypeOK, TypeJob
  <2>8. InHand'
    <3>1. HandHeld'
      BY <1>4 DEF RxGiveUp, NewMsg, StartReset, TypeOK, InHand, TypeTasks, HandHeld, Putting
    <3>2. ReturnKnown'
      BY <1>4 DEF RxGiveUp, NewMsg, StartReset, TypeOK, InHand, TypeTasks, ReturnKnown,
                  Returns, Away
    <3>3. DraftHeld'
      BY <1>4 DEF RxGiveUp, NewMsg, StartReset, TypeOK, InHand, Tasks, TypeTasks, DraftHeld,
                  Drafting
    <3>4. XnHeld'
      BY <1>4 DEF RxGiveUp, NewMsg, StartReset, TypeOK, InHand, Tasks, TypeShared,
                  TypeTasks, XnHeld, ReturnKnown, Away
    <3> QED
      BY <1>4, <3>1, <3>2, <3>3, <3>4
      DEF RxGiveUp, NewMsg, StartReset, TypeOK, InHand, JobHeld
  <2> QED BY <2>5, <2>6, <2>7, <2>8 DEF TypeOK
<1>5. CASE RxLinkLost(p)
  <2>1. {"idle", "bump"} \subseteq Labels BY DEF Labels
  <2>2. sess' \in [Pools -> Session]
    <3>1. sess \in [Pools -> Session] BY DEF TypeOK, TypeShared
    <3>2. sess' = [sess EXCEPT ![p] = [@ EXCEPT !.connected = FALSE, !.ready = FALSE,
                                     !.closing = FALSE]] BY <1>5 DEF RxLinkLost
    <3>4. [sess[p] EXCEPT !.connected = FALSE, !.ready = FALSE,
                                     !.closing = FALSE] \in Session
                                       BY <3>1 DEF Session, SessionParam
    <3> QED BY <3>1, <3>2, <3>4
  <2>3. pc' \in [Tasks -> Labels]
    BY <1>5, <2>1 DEF RxLinkLost, NewMsg, StartReset, TypeOK, TypeTasks
  <2>4. after' \in [Tasks -> Labels]
    BY <1>5, <2>1 DEF RxLinkLost, NewMsg, StartReset, TypeOK, TypeTasks
  <2>5. scope' \in [Tasks -> Pools \cup {All}]
    BY <1>5, ScopeType DEF RxLinkLost, NewMsg, StartReset, TypeOK, TypeTasks
  <2>6. TypeShared' BY <1>5, <2>2 DEF RxLinkLost, NewMsg, StartReset, TypeOK, TypeShared
  <2>7. TypeTasks'
    BY <1>5, <2>3, <2>4, <2>5 DEF RxLinkLost, NewMsg, StartReset, TypeOK, TypeTasks
  <2>8. TypeJob' BY <1>5 DEF RxLinkLost, NewMsg, StartReset, TypeOK, TypeJob
  <2>9. InHand'
    <3>1. HandHeld'
      BY <1>5 DEF RxLinkLost, NewMsg, StartReset, TypeOK, InHand, TypeTasks, HandHeld,
                  Putting
    <3>2. ReturnKnown'
      BY <1>5 DEF RxLinkLost, NewMsg, StartReset, TypeOK, InHand, TypeTasks, ReturnKnown,
                  Returns, Away
    <3>3. DraftHeld'
      BY <1>5 DEF RxLinkLost, NewMsg, StartReset, TypeOK, InHand, Tasks, TypeTasks,
                  DraftHeld, Drafting
    <3>4. XnHeld'
      BY <1>5 DEF RxLinkLost, NewMsg, StartReset, TypeOK, InHand, Tasks, TypeShared,
                  TypeTasks, XnHeld, ReturnKnown, Away
    <3> QED
      BY <1>5, <3>1, <3>2, <3>3, <3>4
      DEF RxLinkLost, NewMsg, StartReset, TypeOK, InHand, JobHeld
  <2> QED BY <2>6, <2>7, <2>8, <2>9 DEF TypeOK
<1>6. CASE RxSubscribed(p)
  <2>1. sess' \in [Pools -> Session]
    <3>1. sess \in [Pools -> Session] BY DEF TypeOK, TypeShared
    <3>2. PICK xn \in Extranonces : sess' = [sess EXCEPT ![p] = [@ EXCEPT !.par.xn = xn, !.ready = TRUE]]
      BY <1>6 DEF RxSubscribed
    <3>4. [sess[p] EXCEPT !.par.xn = xn, !.ready = TRUE] \in Session
      BY <3>1 DEF Session, SessionParam
    <3> QED BY <3>1, <3>2, <3>4
  <2>2. TypeShared' BY <1>6, <2>1 DEF RxSubscribed, NewMsg, TypeOK, TypeShared
  <2>3. TypeTasks' BY <1>6 DEF RxSubscribed, NewMsg, TypeOK, TypeTasks
  <2>4. TypeJob' BY <1>6 DEF RxSubscribed, NewMsg, TypeOK, TypeJob
  <2>5. InHand'
    BY <1>6 DEF RxSubscribed, NewMsg, TypeOK, TypeTasks, TypeShared, TypeJob, InHand,
                HandHeld, ReturnKnown, DraftHeld, XnHeld, JobHeld, Putting, Drafting,
                Returns, Away
  <2> QED BY <2>2, <2>3, <2>4, <2>5 DEF TypeOK
<1>7. CASE RxSetExtranonce(p)
  <2>1. {"setXn", "bump"} \subseteq Labels BY DEF Labels
  <2>2. pc' \in [Tasks -> Labels]
    BY <1>7, <2>1 DEF RxSetExtranonce, NewMsg, StartReset, TypeOK, TypeTasks
  <2>3. after' \in [Tasks -> Labels]
    BY <1>7, <2>1 DEF RxSetExtranonce, NewMsg, StartReset, TypeOK, TypeTasks
  <2>4. scope' \in [Tasks -> Pools \cup {All}]
    BY <1>7, ScopeType DEF RxSetExtranonce, NewMsg, StartReset, TypeOK, TypeTasks
  <2>5. newXn' \in [Pools -> Extranonces \cup {None}]
    BY <1>7 DEF RxSetExtranonce, NewMsg, StartReset, TypeOK, TypeTasks
  <2>6. TypeShared' BY <1>7 DEF RxSetExtranonce, NewMsg, StartReset, TypeOK, TypeShared
  <2>7. TypeTasks'
    BY <1>7, <2>2, <2>3, <2>4, <2>5
    DEF RxSetExtranonce, NewMsg, StartReset, TypeOK, TypeTasks
  <2>8. TypeJob' BY <1>7 DEF RxSetExtranonce, NewMsg, StartReset, TypeOK, TypeJob
  <2>9. InHand'
    BY <1>7 DEF RxSetExtranonce, NewMsg, StartReset, TypeOK, TypeTasks, TypeShared, TypeJob,
                InHand, HandHeld, ReturnKnown, DraftHeld, XnHeld, JobHeld, Putting,
                Drafting, Returns, Away
  <2> QED BY <2>6, <2>7, <2>8, <2>9 DEF TypeOK
<1>8. CASE RxStoreExtranonce(p)
  <2>1. {"online"} \subseteq Labels BY DEF Labels
  <2>2. sess' \in [Pools -> Session]
    <3>1. sess \in [Pools -> Session] BY DEF TypeOK, TypeShared
    <3>2. sess' = [sess EXCEPT ![p] = [@ EXCEPT !.par.xn = newXn[p], !.ready = TRUE]]
      BY <1>8 DEF RxStoreExtranonce
    <3>3. newXn[p] \in Extranonces BY <1>8 DEF RxStoreExtranonce, TypeOK, InHand, XnHeld
    <3>4. [sess[p] EXCEPT !.par.xn = newXn[p], !.ready = TRUE] \in Session
      BY <3>1, <3>3 DEF Session, SessionParam
    <3> QED BY <3>1, <3>2, <3>4
  <2>3. pc' \in [Tasks -> Labels] BY <1>8, <2>1 DEF RxStoreExtranonce, TypeOK, TypeTasks
  <2>4. newXn' \in [Pools -> Extranonces \cup {None}]
    BY <1>8 DEF RxStoreExtranonce, TypeOK, InHand, TypeTasks, HandHeld, DraftHeld, XnHeld,
                JobHeld, Putting, Drafting
  <2>5. TypeShared' BY <1>8, <2>2 DEF RxStoreExtranonce, TypeOK, TypeShared
  <2>6. TypeTasks' BY <1>8, <2>3, <2>4 DEF RxStoreExtranonce, TypeOK, TypeTasks
  <2>7. TypeJob' BY <1>8 DEF RxStoreExtranonce, TypeOK, TypeJob
  <2>8. InHand'
    <3>1. HandHeld'
      BY <1>8 DEF RxStoreExtranonce, TypeOK, InHand, TypeTasks, HandHeld, Putting
    <3>2. ReturnKnown'
      BY <1>8 DEF RxStoreExtranonce, TypeOK, InHand, TypeTasks, ReturnKnown, Returns, Away
    <3>3. DraftHeld'
      BY <1>8 DEF RxStoreExtranonce, TypeOK, InHand, Tasks, TypeTasks, DraftHeld, Drafting
    <3>4. XnHeld'
      <4> SUFFICES ASSUME NEW q \in Pools
                   PROVE  /\ "setXn" \in {pc'[q], after'[q]} => newXn'[q] \in Extranonces
                          /\ sess'[q].ready => sess'[q].par.xn \in Extranonces
        BY DEF XnHeld
      <4>1. XnHeld /\ ReturnKnown BY DEF TypeOK, InHand
      <4>2. q \in Tasks BY DEF Tasks
      <4>3. CASE q # p
        BY <1>8, <4>1, <4>2, <4>3
        DEF RxStoreExtranonce, TypeOK, TypeTasks, TypeShared, XnHeld
      <4>4. CASE q = p
        <5>1. sess'[p] = [sess[p] EXCEPT !.par.xn = newXn[p], !.ready = TRUE]
          BY <1>8 DEF RxStoreExtranonce, TypeOK, TypeShared
        <5>2. sess'[p].par.xn = newXn[p]
          BY <5>1 DEF TypeOK, TypeShared, Session, SessionParam
        <5>3. newXn[p] \in Extranonces BY <1>8, <4>1 DEF RxStoreExtranonce, XnHeld
        <5>4. pc'[p] = "online" /\ after'[p] = "idle"
          BY <1>8, <4>1 DEF RxStoreExtranonce, TypeOK, TypeTasks, ReturnKnown, Away
        <5> QED BY <4>4, <5>2, <5>3, <5>4
      <4> QED BY <4>3, <4>4
    <3> QED BY <1>8, <3>1, <3>2, <3>3, <3>4 DEF RxStoreExtranonce, TypeOK, InHand, JobHeld
  <2> QED BY <2>5, <2>6, <2>7, <2>8 DEF TypeOK
<1>9. CASE RxSetDifficulty(p)
  <2>1. {"online", "bump"} \subseteq Labels BY DEF Labels
  <2>2. sess' \in [Pools -> Session]
    <3>1. sess \in [Pools -> Session] BY DEF TypeOK, TypeShared
    <3>2. PICK d \in 1 .. MaxDiff : sess' = [sess EXCEPT ![p].par.diff = d]
      BY <1>9 DEF RxSetDifficulty
    <3> QED BY <3>1, <3>2 DEF Session, SessionParam
  <2>3. pc' \in [Tasks -> Labels]
    BY <1>9, <2>1 DEF RxSetDifficulty, NewMsg, StartReset, TypeOK, TypeTasks
  <2>4. after' \in [Tasks -> Labels]
    BY <1>9, <2>1 DEF RxSetDifficulty, NewMsg, StartReset, TypeOK, TypeTasks
  <2>5. scope' \in [Tasks -> Pools \cup {All}]
    BY <1>9, ScopeType DEF RxSetDifficulty, NewMsg, StartReset, TypeOK, TypeTasks
  <2>6. TypeShared'
    BY <1>9, <2>2 DEF RxSetDifficulty, NewMsg, StartReset, TypeOK, TypeShared
  <2>7. TypeTasks'
    BY <1>9, <2>3, <2>4, <2>5 DEF RxSetDifficulty, NewMsg, StartReset, TypeOK, TypeTasks
  <2>8. TypeJob' BY <1>9 DEF RxSetDifficulty, NewMsg, StartReset, TypeOK, TypeJob
  <2>9. InHand'
    <3>1. HandHeld'
      BY <1>9 DEF RxSetDifficulty, NewMsg, StartReset, TypeOK, InHand, TypeTasks, HandHeld,
                  Putting
    <3>2. ReturnKnown'
      BY <1>9 DEF RxSetDifficulty, NewMsg, StartReset, TypeOK, InHand, TypeTasks,
                  ReturnKnown, Returns, Away
    <3>3. DraftHeld'
      BY <1>9 DEF RxSetDifficulty, NewMsg, StartReset, TypeOK, InHand, Tasks, TypeTasks,
                  DraftHeld, Drafting
    <3>4. XnHeld'
      BY <1>9 DEF RxSetDifficulty, NewMsg, StartReset, TypeOK, InHand, Tasks, TypeShared,
                  TypeTasks, XnHeld, ReturnKnown, Away
    <3> QED
      BY <1>9, <3>1, <3>2, <3>3, <3>4
      DEF RxSetDifficulty, NewMsg, StartReset, TypeOK, InHand, JobHeld
  <2> QED BY <2>6, <2>7, <2>8, <2>9 DEF TypeOK
<1>10. CASE RxVersionMask(p)
  <2>1. {"online", "bump"} \subseteq Labels BY DEF Labels
  <2>2. sess' \in [Pools -> Session]
    <3>1. sess \in [Pools -> Session] BY DEF TypeOK, TypeShared
    <3>2. PICK m \in Masks : sess' = [sess EXCEPT ![p].par.mask = m]
      BY <1>10 DEF RxVersionMask
    <3> QED BY <3>1, <3>2 DEF Session, SessionParam
  <2>3. stateMask' \in Masks
    BY <1>10 DEF RxVersionMask, NewMsg, StartReset, TypeOK, TypeJob, TypeShared
  <2>4. pc' \in [Tasks -> Labels]
    BY <1>10, <2>1 DEF RxVersionMask, NewMsg, StartReset, TypeOK, TypeTasks
  <2>5. after' \in [Tasks -> Labels]
    BY <1>10, <2>1 DEF RxVersionMask, NewMsg, StartReset, TypeOK, TypeTasks
  <2>6. scope' \in [Tasks -> Pools \cup {All}]
    BY <1>10, ScopeType DEF RxVersionMask, NewMsg, StartReset, TypeOK, TypeTasks
  <2>7. TypeShared'
    BY <1>10, <2>2, <2>3 DEF RxVersionMask, NewMsg, StartReset, TypeOK, TypeShared
  <2>8. TypeTasks'
    BY <1>10, <2>4, <2>5, <2>6 DEF RxVersionMask, NewMsg, StartReset, TypeOK, TypeTasks
  <2>9. TypeJob' BY <1>10 DEF RxVersionMask, NewMsg, StartReset, TypeOK, TypeJob
  <2>10. InHand'
    <3>1. HandHeld'
      BY <1>10 DEF RxVersionMask, NewMsg, StartReset, TypeOK, InHand, TypeTasks, HandHeld,
                   Putting
    <3>2. ReturnKnown'
      BY <1>10 DEF RxVersionMask, NewMsg, StartReset, TypeOK, InHand, TypeTasks,
                   ReturnKnown, Returns, Away
    <3>3. DraftHeld'
      BY <1>10 DEF RxVersionMask, NewMsg, StartReset, TypeOK, InHand, Tasks, TypeTasks,
                   DraftHeld, Drafting
    <3>4. XnHeld'
      BY <1>10 DEF RxVersionMask, NewMsg, StartReset, TypeOK, InHand, Tasks, TypeShared,
                   TypeTasks, XnHeld, ReturnKnown, Away
    <3> QED
      BY <1>10, <3>1, <3>2, <3>3, <3>4
      DEF RxVersionMask, NewMsg, StartReset, TypeOK, InHand, JobHeld
  <2> QED BY <2>7, <2>8, <2>9, <2>10 DEF TypeOK
<1>11. CASE RxUnusableMask(p)
  <2>1. {"closeSelf", "bump"} \subseteq Labels BY DEF Labels
  <2>2. sess' \in [Pools -> Session]
    BY <1>11 DEF RxUnusableMask, NewMsg, StartReset, TypeOK, TypeShared, Session,
                 SessionParam
  <2>3. pc' \in [Tasks -> Labels]
    BY <1>11, <2>1 DEF RxUnusableMask, NewMsg, StartReset, TypeOK, TypeTasks
  <2>4. after' \in [Tasks -> Labels]
    BY <1>11, <2>1 DEF RxUnusableMask, NewMsg, StartReset, TypeOK, TypeTasks
  <2>5. scope' \in [Tasks -> Pools \cup {All}]
    BY <1>11, ScopeType DEF RxUnusableMask, NewMsg, StartReset, TypeOK, TypeTasks
  <2>6. TypeShared'
    BY <1>11, <2>2 DEF RxUnusableMask, NewMsg, StartReset, TypeOK, TypeShared
  <2>7. TypeTasks'
    BY <1>11, <2>3, <2>4, <2>5 DEF RxUnusableMask, NewMsg, StartReset, TypeOK, TypeTasks
  <2>8. TypeJob' BY <1>11 DEF RxUnusableMask, NewMsg, StartReset, TypeOK, TypeJob
  <2>9. InHand'
    <3>1. HandHeld'
      BY <1>11 DEF RxUnusableMask, NewMsg, StartReset, TypeOK, InHand, TypeTasks, HandHeld,
                   Putting
    <3>2. ReturnKnown'
      BY <1>11 DEF RxUnusableMask, NewMsg, StartReset, TypeOK, InHand, TypeTasks,
                   ReturnKnown, Returns, Away
    <3>3. DraftHeld'
      BY <1>11 DEF RxUnusableMask, NewMsg, StartReset, TypeOK, InHand, Tasks, TypeTasks,
                   DraftHeld, Drafting
    <3>4. XnHeld'
      BY <1>11 DEF RxUnusableMask, NewMsg, StartReset, TypeOK, InHand, Tasks, TypeShared,
                   TypeTasks, XnHeld, ReturnKnown, Away
    <3> QED
      BY <1>11, <3>1, <3>2, <3>3, <3>4
      DEF RxUnusableMask, NewMsg, StartReset, TypeOK, InHand, JobHeld
  <2> QED BY <2>6, <2>7, <2>8, <2>9 DEF TypeOK
<1>12. CASE RxCloseSelf(p)
  <2>1. {"online"} \subseteq Labels BY DEF Labels
  <2>2. sess' \in [Pools -> Session]
    BY <1>12 DEF RxCloseSelf, NewMsg, TypeOK, TypeShared, Session, SessionParam
  <2>3. pc' \in [Tasks -> Labels] BY <1>12, <2>1 DEF RxCloseSelf, NewMsg, TypeOK, TypeTasks
  <2>4. TypeShared' BY <1>12, <2>2 DEF RxCloseSelf, NewMsg, TypeOK, TypeShared
  <2>5. TypeTasks' BY <1>12, <2>3 DEF RxCloseSelf, NewMsg, TypeOK, TypeTasks
  <2>6. TypeJob' BY <1>12 DEF RxCloseSelf, NewMsg, TypeOK, TypeJob
  <2>7. InHand'
    <3>1. HandHeld'
      BY <1>12 DEF RxCloseSelf, NewMsg, TypeOK, InHand, TypeTasks, HandHeld, Putting
    <3>2. ReturnKnown'
      BY <1>12 DEF RxCloseSelf, NewMsg, TypeOK, InHand, TypeTasks, ReturnKnown, Returns,
                   Away
    <3>3. DraftHeld'
      BY <1>12 DEF RxCloseSelf, NewMsg, TypeOK, InHand, Tasks, TypeTasks, DraftHeld,
                   Drafting
    <3>4. XnHeld'
      BY <1>12 DEF RxCloseSelf, NewMsg, TypeOK, InHand, Tasks, TypeShared, TypeTasks,
                   XnHeld, ReturnKnown, Away
    <3> QED
      BY <1>12, <3>1, <3>2, <3>3, <3>4 DEF RxCloseSelf, NewMsg, TypeOK, InHand, JobHeld
  <2> QED BY <2>4, <2>5, <2>6, <2>7 DEF TypeOK
<1>13. CASE RxNotify(p)
  <2>1. {"enqueue", "bump"} \subseteq Labels BY DEF Labels
  <2>2. pc' \in [Tasks -> Labels]
    BY <1>13, <2>1 DEF RxNotify, NewMsg, StartReset, TypeOK, TypeTasks
  <2>3. after' \in [Tasks -> Labels]
    BY <1>13, <2>1 DEF RxNotify, NewMsg, StartReset, TypeOK, TypeTasks
  <2>4. scope' \in [Tasks -> Pools \cup {All}]
    BY <1>13, ScopeType DEF RxNotify, NewMsg, StartReset, TypeOK, TypeTasks
  <2>5. TypeShared' BY <1>13 DEF RxNotify, NewMsg, StartReset, TypeOK, TypeShared
  <2>6. TypeTasks'
    BY <1>13, <2>2, <2>3, <2>4 DEF RxNotify, NewMsg, StartReset, TypeOK, TypeTasks
  <2>7. TypeJob' BY <1>13 DEF RxNotify, NewMsg, StartReset, TypeOK, TypeJob
  <2>8. InHand'
    <3>1. HandHeld'
      BY <1>13 DEF RxNotify, NewMsg, StartReset, TypeOK, InHand, TypeTasks, HandHeld,
                   Putting
    <3>2. ReturnKnown'
      BY <1>13 DEF RxNotify, NewMsg, StartReset, TypeOK, InHand, TypeTasks, ReturnKnown,
                   Returns, Away
    <3>3. DraftHeld'
      BY <1>13 DEF RxNotify, NewMsg, StartReset, TypeOK, InHand, Tasks, TypeTasks,
                   DraftHeld, Drafting
    <3>4. XnHeld'
      BY <1>13 DEF RxNotify, NewMsg, StartReset, TypeOK, InHand, Tasks, TypeShared,
                   TypeTasks, XnHeld, ReturnKnown, Away
    <3> QED
      BY <1>13, <3>1, <3>2, <3>3, <3>4
      DEF RxNotify, NewMsg, StartReset, TypeOK, InHand, JobHeld
  <2> QED BY <2>5, <2>6, <2>7, <2>8 DEF TypeOK
<1>14. CASE EnqEpoch(p)
  <2>1. {"online", "enqPool"} \subseteq Labels BY DEF Labels
  <2>2. pc' \in [Tasks -> Labels] BY <1>14, <2>1 DEF EnqEpoch, TypeOK, TypeTasks
  <2>3. draft' \in [Pools -> Item \cup {None}] /\ (pc'[p] = "enqPool" => draft'[p] \in Item)
    <3>1. [kind |-> "work", pool |-> p, epoch |-> workEpoch, poolEpoch |-> 0,
           par |-> NoParam] \in Item
      BY NoParamType DEF Item, TypeOK, TypeShared
    <3> QED BY <1>14, <3>1 DEF EnqEpoch, TypeOK, TypeTasks
  <2>4. TypeShared' BY <1>14 DEF EnqEpoch, TypeOK, TypeShared
  <2>5. TypeTasks' BY <1>14, <2>2, <2>3 DEF EnqEpoch, TypeOK, TypeTasks
  <2>6. TypeJob' BY <1>14 DEF EnqEpoch, TypeOK, TypeJob
  <2>7. InHand'
    <3>1. HandHeld' BY <1>14 DEF EnqEpoch, TypeOK, InHand, TypeTasks, HandHeld, Putting
    <3>2. ReturnKnown'
      BY <1>14 DEF EnqEpoch, TypeOK, InHand, TypeTasks, ReturnKnown, Returns, Away
    <3>3. DraftHeld'
      <4> SUFFICES ASSUME NEW q \in Pools, pc'[q] \in Drafting PROVE draft'[q] \in Item
        BY DEF DraftHeld
      <4>1. pc \in [Tasks -> Labels] /\ draft \in [Pools -> Item \cup {None}] /\ DraftHeld
        BY DEF TypeOK, TypeTasks, InHand
      <4>2. pc' = [pc EXCEPT ![p] = "enqPool"] \/ pc' = [pc EXCEPT ![p] = "online"]
        BY <1>14 DEF EnqEpoch
      <4>3. CASE q = p BY <2>3, <4>1, <4>2, <4>3 DEF Drafting
      <4>4. CASE q # p
        <5>1. draft'[q] = draft[q] BY <1>14, <4>1, <4>4 DEF EnqEpoch
        <5>2. pc'[q] = pc[q] BY <4>1, <4>2, <4>4 DEF Tasks
        <5> QED BY <4>1, <5>1, <5>2 DEF DraftHeld
      <4> QED BY <4>3, <4>4
    <3>4. XnHeld'
      BY <1>14 DEF EnqEpoch, TypeOK, InHand, Tasks, TypeShared, TypeTasks, XnHeld,
                   ReturnKnown, Away
    <3> QED BY <1>14, <3>1, <3>2, <3>3, <3>4 DEF EnqEpoch, TypeOK, InHand, JobHeld
  <2> QED BY <2>4, <2>5, <2>6, <2>7 DEF TypeOK
<1>15. CASE EnqSession(p)
  <2>1. {"send", "online"} \subseteq Labels BY DEF Labels
  <2>2. pc' \in [Tasks -> Labels] BY <1>15, <2>1 DEF EnqSession, TypeOK, TypeTasks
  <2>3. draft' \in [Pools -> Item \cup {None}] /\ (pc'[p] = "send" => draft'[p] \in Item)
    <3> DEFINE par == [xn |-> sess[p].par.xn, diff |-> sess[p].par.diff, mask |-> MaskFor(p)]
    <3>1. sess[p] \in Session /\ stateMask \in Masks /\ poolEpoch[p] \in Nat
      BY DEF TypeOK, TypeShared
    <3>2. MaskFor(p) \in Masks BY <3>1 DEF MaskFor, Session, SessionParam
    <3>3. sess[p].ready => sess[p].par.xn \in Extranonces BY DEF TypeOK, InHand, XnHeld
    <3>4. sess[p].ready => par \in Param
      BY <3>1, <3>2, <3>3 DEF Session, SessionParam, Param
    <3>5. draft \in [Pools -> Item \cup {None}] /\ draft[p] \in Item
      BY <1>15 DEF EnqSession, TypeOK, TypeTasks, InHand, DraftHeld, Drafting
    <3>6. sess[p].ready => [draft[p] EXCEPT !.poolEpoch = poolEpoch[p], !.par = par] \in Item
      BY <3>1, <3>4, <3>5 DEF Item
    <3>7. \/ draft' = [draft EXCEPT ![p] = None]
          \/ /\ sess[p].ready
             /\ draft' = [draft EXCEPT ![p] = [@ EXCEPT !.poolEpoch = poolEpoch[p], !.par = par]]
      BY <1>15 DEF EnqSession, Subscribed
    <3> HIDE DEF par
    <3>8. \/ /\ pc' = [pc EXCEPT ![p] = "send"] /\ sess[p].ready
             /\ draft' = [draft EXCEPT ![p] = [@ EXCEPT !.poolEpoch = poolEpoch[p], !.par = par]]
          \/ pc' = [pc EXCEPT ![p] = "online"]
      <4>1. CASE sess[p].connected /\ sess[p].ready
        BY <1>15, <4>1, Zenon DEF EnqSession, Subscribed, par
      <4>2. CASE ~(sess[p].connected /\ sess[p].ready) BY <1>15, <4>2 DEF EnqSession, Subscribed
      <4> QED BY <4>1, <4>2
    <3>9. pc \in [Tasks -> Labels] BY DEF TypeOK, TypeTasks
    <3> QED BY <3>5, <3>6, <3>7, <3>8, <3>9
  <2>4. TypeShared' BY <1>15 DEF EnqSession, TypeOK, TypeShared
  <2>5. TypeTasks' BY <1>15, <2>2, <2>3 DEF EnqSession, TypeOK, TypeTasks
  <2>6. TypeJob' BY <1>15 DEF EnqSession, TypeOK, TypeJob
  <2>7. InHand'
    <3>1. HandHeld' BY <1>15 DEF EnqSession, TypeOK, InHand, TypeTasks, HandHeld, Putting
    <3>2. ReturnKnown'
      BY <1>15 DEF EnqSession, TypeOK, InHand, TypeTasks, ReturnKnown, Returns, Away
    <3>3. DraftHeld'
      <4> SUFFICES ASSUME NEW q \in Pools, pc'[q] \in Drafting PROVE draft'[q] \in Item
        BY DEF DraftHeld
      <4>1. pc \in [Tasks -> Labels] /\ draft \in [Pools -> Item \cup {None}] /\ DraftHeld
        BY DEF TypeOK, TypeTasks, InHand
      <4>2. pc' = [pc EXCEPT ![p] = "send"] \/ pc' = [pc EXCEPT ![p] = "online"]
        BY <1>15 DEF EnqSession
      <4>3. CASE q = p BY <2>3, <4>1, <4>2, <4>3 DEF Drafting
      <4>4. CASE q # p
        <5>1. draft'[q] = draft[q] BY <1>15, <4>1, <4>4 DEF EnqSession
        <5>2. pc'[q] = pc[q] BY <4>1, <4>2, <4>4 DEF Tasks
        <5> QED BY <4>1, <5>1, <5>2 DEF DraftHeld
      <4> QED BY <4>3, <4>4
    <3>4. XnHeld'
      BY <1>15 DEF EnqSession, TypeOK, InHand, Tasks, TypeShared, TypeTasks, XnHeld,
                   ReturnKnown, Away
    <3> QED BY <1>15, <3>1, <3>2, <3>3, <3>4 DEF EnqSession, TypeOK, InHand, JobHeld
  <2> QED BY <2>4, <2>5, <2>6, <2>7 DEF TypeOK
<1>16. CASE EnqSend(p)
  <2>1. {"online", "full"} \subseteq Labels BY DEF Labels
  <2>2. queue' \in Seq(Item)
    <3>1. queue \in Seq(Item) /\ draft[p] \in Item
      BY <1>16 DEF EnqSend, TypeOK, TypeShared, InHand, DraftHeld, Drafting
    <3>2. queue' = queue \/ queue' = Append(queue, draft[p]) BY <1>16 DEF EnqSend
    <3> QED BY <3>1, <3>2
  <2>3. pc' \in [Tasks -> Labels] BY <1>16, <2>1 DEF EnqSend, TypeOK, TypeTasks
  <2>4. draft' \in [Pools -> Item \cup {None}]
    BY <1>16 DEF EnqSend, TypeOK, InHand, TypeTasks, HandHeld, DraftHeld, XnHeld, JobHeld,
                 Putting, Drafting
  <2>5. TypeShared' BY <1>16, <2>2 DEF EnqSend, TypeOK, TypeShared
  <2>6. TypeTasks' BY <1>16, <2>3, <2>4 DEF EnqSend, TypeOK, TypeTasks
  <2>7. TypeJob' BY <1>16 DEF EnqSend, TypeOK, TypeJob
  <2>8. InHand'
    <3>1. HandHeld' BY <1>16 DEF EnqSend, TypeOK, InHand, TypeTasks, HandHeld, Putting
    <3>2. ReturnKnown'
      BY <1>16 DEF EnqSend, TypeOK, InHand, TypeTasks, ReturnKnown, Returns, Away
    <3>3. DraftHeld'
      BY <1>16 DEF EnqSend, TypeOK, InHand, Tasks, TypeTasks, DraftHeld, Drafting
    <3>4. XnHeld'
      BY <1>16 DEF EnqSend, TypeOK, InHand, Tasks, TypeShared, TypeTasks, XnHeld,
                   ReturnKnown, Away
    <3> QED BY <1>16, <3>1, <3>2, <3>3, <3>4 DEF EnqSend, TypeOK, InHand, JobHeld
  <2> QED BY <2>5, <2>6, <2>7, <2>8 DEF TypeOK
<1> QED
  BY <1>1, <1>2, <1>3, <1>4, <1>5, <1>6, <1>7, <1>8, <1>9, <1>10, <1>11, <1>12, <1>13,
     <1>14, <1>15, <1>16
  DEF RxStep

LEMMA TypeCtlStep ==
  ASSUME TypeOK, NEW c \in Controls, CtlStep(c) PROVE TypeOK'
<1> USE DEF Goto, JobGoto, taskVars, chipVars, epochVars, rxVars, jobVars, countVars
<1> c \in Tasks BY DEF Tasks
<1>1. CASE CtlSettings(c)
  <2>1. {"reconnect"} \subseteq Labels BY DEF Labels
  <2>2. pc' \in [Tasks -> Labels] BY <1>1, <2>1 DEF CtlSettings, NewOp, TypeOK, TypeTasks
  <2>3. todo' \in [Controls -> SUBSET Pools]
    BY <1>1 DEF CtlSettings, NewOp, TypeOK, TypeTasks
  <2>4. TypeShared' BY <1>1, SizesAssumption DEF CtlSettings, NewOp, TypeOK, TypeShared
  <2>5. TypeTasks' BY <1>1, <2>2, <2>3 DEF CtlSettings, NewOp, TypeOK, TypeTasks
  <2>6. TypeJob' BY <1>1 DEF CtlSettings, NewOp, TypeOK, TypeJob
  <2>7. InHand'
    BY <1>1 DEF CtlSettings, NewOp, TypeOK, TypeTasks, TypeShared, TypeJob, InHand,
                HandHeld, ReturnKnown, DraftHeld, XnHeld, JobHeld, Putting, Drafting,
                Returns, Away
  <2> QED BY <2>4, <2>5, <2>6, <2>7 DEF TypeOK
<1>2. CASE CtlReconnectAll(c)
  <2>1. {"closeAll", "bump"} \subseteq Labels BY DEF Labels
  <2>2. sess' \in [Pools -> Session]
    <3>1. sess \in [Pools -> Session] BY DEF TypeOK, TypeShared
    <3>2. sess' = Enabled(Pools) BY <1>2 DEF CtlReconnectAll
    <3> QED BY <3>1, <3>2, EnabledType
  <2>3. pc' \in [Tasks -> Labels]
    BY <1>2, <2>1 DEF CtlReconnectAll, StartReset, Enabled, TypeOK, TypeTasks
  <2>4. after' \in [Tasks -> Labels]
    BY <1>2, <2>1 DEF CtlReconnectAll, StartReset, Enabled, TypeOK, TypeTasks
  <2>5. scope' \in [Tasks -> Pools \cup {All}]
    BY <1>2 DEF CtlReconnectAll, StartReset, Enabled, TypeOK, TypeTasks
  <2>6. todo' \in [Controls -> SUBSET Pools]
    BY <1>2 DEF CtlReconnectAll, StartReset, Enabled, TypeOK, TypeTasks
  <2>7. TypeShared'
    BY <1>2, <2>2 DEF CtlReconnectAll, StartReset, Enabled, TypeOK, TypeShared
  <2>8. TypeTasks'
    BY <1>2, <2>3, <2>4, <2>5, <2>6
    DEF CtlReconnectAll, StartReset, Enabled, TypeOK, TypeTasks
  <2>9. TypeJob' BY <1>2 DEF CtlReconnectAll, StartReset, Enabled, TypeOK, TypeJob
  <2>10. InHand'
    <3>1. HandHeld'
      BY <1>2 DEF CtlReconnectAll, StartReset, Enabled, TypeOK, InHand, TypeTasks, HandHeld,
                  Putting
    <3>2. ReturnKnown'
      BY <1>2 DEF CtlReconnectAll, StartReset, Enabled, TypeOK, InHand, TypeTasks,
                  ReturnKnown, Returns, Away
    <3>3. DraftHeld'
      BY <1>2 DEF CtlReconnectAll, StartReset, Enabled, TypeOK, InHand, Tasks, TypeTasks,
                  DraftHeld, Drafting
    <3>4. XnHeld'
      BY <1>2, EnabledKeeps DEF CtlReconnectAll, StartReset, TypeOK, InHand, Tasks,
                                TypeShared, TypeTasks, XnHeld, ReturnKnown, Away
    <3> QED
      BY <1>2, <3>1, <3>2, <3>3, <3>4
      DEF CtlReconnectAll, StartReset, Enabled, TypeOK, InHand, JobHeld
  <2> QED BY <2>7, <2>8, <2>9, <2>10 DEF TypeOK
<1>3. CASE CtlReconnectMask(c)
  <2>1. {"reconnectNext"} \subseteq Labels BY DEF Labels
  <2>2. pc' \in [Tasks -> Labels] BY <1>3, <2>1 DEF CtlReconnectMask, TypeOK, TypeTasks
  <2>3. TypeShared' BY <1>3 DEF CtlReconnectMask, TypeOK, TypeShared
  <2>4. TypeTasks' BY <1>3, <2>2 DEF CtlReconnectMask, TypeOK, TypeTasks
  <2>5. TypeJob' BY <1>3 DEF CtlReconnectMask, TypeOK, TypeJob
  <2>6. InHand'
    BY <1>3 DEF CtlReconnectMask, TypeOK, TypeTasks, TypeShared, TypeJob, InHand, HandHeld,
                ReturnKnown, DraftHeld, XnHeld, JobHeld, Putting, Drafting, Returns, Away
  <2> QED BY <2>3, <2>4, <2>5, <2>6 DEF TypeOK
<1>4. CASE CtlReconnectNext(c)
  <2>1. {"idle", "close", "bump"} \subseteq Labels BY DEF Labels
  <2>2. sess' \in [Pools -> Session]
    <3>1. sess \in [Pools -> Session] BY DEF TypeOK, TypeShared
    <3>2. sess' = sess \/ \E p \in todo[c] : sess' = Enabled({p})
      BY <1>4 DEF CtlReconnectNext
    <3> QED BY <3>1, <3>2, EnabledType
  <2>3. pc' \in [Tasks -> Labels]
    BY <1>4, <2>1 DEF CtlReconnectNext, StartReset, Enabled, TypeOK, TypeTasks
  <2>4. after' \in [Tasks -> Labels]
    BY <1>4, <2>1 DEF CtlReconnectNext, StartReset, Enabled, TypeOK, TypeTasks
  <2>5. scope' \in [Tasks -> Pools \cup {All}]
    BY <1>4, ScopeType DEF CtlReconnectNext, StartReset, Enabled, TypeOK, TypeTasks
  <2>6. TypeShared'
    BY <1>4, <2>2 DEF CtlReconnectNext, StartReset, Enabled, TypeOK, TypeShared
  <2>7. TypeTasks'
    BY <1>4, <2>3, <2>4, <2>5 DEF CtlReconnectNext, StartReset, Enabled, TypeOK, TypeTasks
  <2>8. TypeJob' BY <1>4 DEF CtlReconnectNext, StartReset, Enabled, TypeOK, TypeJob
  <2>9. InHand'
    <3>1. HandHeld'
      BY <1>4 DEF CtlReconnectNext, StartReset, Enabled, TypeOK, InHand, TypeTasks,
                  HandHeld, Putting
    <3>2. ReturnKnown'
      BY <1>4 DEF CtlReconnectNext, StartReset, Enabled, TypeOK, InHand, TypeTasks,
                  ReturnKnown, Returns, Away
    <3>3. DraftHeld'
      BY <1>4 DEF CtlReconnectNext, StartReset, Enabled, TypeOK, InHand, Tasks, TypeTasks,
                  DraftHeld, Drafting
    <3>4. XnHeld'
      <4>1. \A q \in Pools : sess'[q].par = sess[q].par /\ sess'[q].ready = sess[q].ready
        <5>1. sess \in [Pools -> Session] BY DEF TypeOK, TypeShared
        <5>2. sess' = sess \/ \E p \in todo[c] : sess' = Enabled({p})
          BY <1>4 DEF CtlReconnectNext
        <5>3. CASE sess' = sess BY <5>3
        <5>4. ASSUME NEW r, sess' = Enabled({r}), NEW q \in Pools
              PROVE  sess'[q].par = sess[q].par /\ sess'[q].ready = sess[q].ready
          BY <5>1, <5>4, EnabledKeeps
        <5> QED BY <5>2, <5>3, <5>4
      <4>2. \A q \in Pools : "setXn" \in {pc'[q], after'[q]} => "setXn" \in {pc[q], after[q]}
        BY <1>4 DEF CtlReconnectNext, StartReset, TypeOK, TypeTasks, Tasks
      <4>3. newXn' = newXn BY <1>4 DEF CtlReconnectNext
      <4> QED BY <4>1, <4>2, <4>3 DEF TypeOK, InHand, XnHeld
    <3> QED
      BY <1>4, <3>1, <3>2, <3>3, <3>4
      DEF CtlReconnectNext, StartReset, Enabled, TypeOK, InHand, JobHeld
  <2> QED BY <2>6, <2>7, <2>8, <2>9 DEF TypeOK
<1>6. CASE CtlClose(c)
  <2>1. {"closeAll", "idle", "reconnectNext"} \subseteq Labels BY DEF Labels
  <2>2. sess' \in [Pools -> Session]
    <3>1. sess \in [Pools -> Session] BY DEF TypeOK, TypeShared
    <3>2. PICK P \in SUBSET todo[c] : sess' = Closed(P) BY <1>6 DEF CtlClose
    <3> QED BY <3>1, <3>2, ClosedType
  <2>3. pc' \in [Tasks -> Labels] BY <1>6, <2>1 DEF CtlClose, Closed, TypeOK, TypeTasks
  <2>4. todo' \in [Controls -> SUBSET Pools] BY <1>6 DEF CtlClose, Closed, TypeOK, TypeTasks
  <2>5. TypeShared' BY <1>6, <2>2 DEF CtlClose, Closed, TypeOK, TypeShared
  <2>6. TypeTasks' BY <1>6, <2>3, <2>4 DEF CtlClose, Closed, TypeOK, TypeTasks
  <2>7. TypeJob' BY <1>6 DEF CtlClose, Closed, TypeOK, TypeJob
  <2>8. InHand'
    <3>1. HandHeld'
      BY <1>6 DEF CtlClose, Closed, TypeOK, InHand, TypeTasks, HandHeld, Putting
    <3>2. ReturnKnown'
      BY <1>6 DEF CtlClose, Closed, TypeOK, InHand, TypeTasks, ReturnKnown, Returns, Away
    <3>3. DraftHeld'
      BY <1>6 DEF CtlClose, Closed, TypeOK, InHand, Tasks, TypeTasks, DraftHeld, Drafting
    <3>4. XnHeld'
      BY <1>6 DEF CtlClose, Closed, TypeOK, InHand, Tasks, TypeShared, TypeTasks, XnHeld,
                  ReturnKnown, Away
    <3> QED BY <1>6, <3>1, <3>2, <3>3, <3>4 DEF CtlClose, Closed, TypeOK, InHand, JobHeld
  <2> QED BY <2>5, <2>6, <2>7, <2>8 DEF TypeOK
<1>7. CASE CtlPause(c)
  <2>1. {"quiesce", "idle", "tune", "resume"} \subseteq Labels BY DEF Labels
  <2>2. pc' \in [Tasks -> Labels] BY <1>7, <2>1 DEF CtlPause, NewOp, TypeOK, TypeTasks
  <2>3. after' \in [Tasks -> Labels] BY <1>7, <2>1 DEF CtlPause, NewOp, TypeOK, TypeTasks
  <2>4. TypeShared' BY <1>7 DEF CtlPause, NewOp, TypeOK, TypeShared
  <2>5. TypeTasks' BY <1>7, <2>2, <2>3 DEF CtlPause, NewOp, TypeOK, TypeTasks
  <2>6. TypeJob' BY <1>7 DEF CtlPause, NewOp, TypeOK, TypeJob
  <2>7. InHand'
    BY <1>7 DEF CtlPause, NewOp, TypeOK, TypeTasks, TypeShared, TypeJob, InHand, HandHeld,
                ReturnKnown, DraftHeld, XnHeld, JobHeld, Putting, Drafting, Returns, Away
  <2> QED BY <2>4, <2>5, <2>6, <2>7 DEF TypeOK
<1>8. CASE CtlResume(c)
  <2>1. {"quiesce", "idle", "tune", "resume"} \subseteq Labels BY DEF Labels
  <2>2. pc' \in [Tasks -> Labels] BY <1>8, <2>1 DEF CtlResume, NewOp, TypeOK, TypeTasks
  <2>3. after' \in [Tasks -> Labels] BY <1>8, <2>1 DEF CtlResume, NewOp, TypeOK, TypeTasks
  <2>4. TypeShared' BY <1>8 DEF CtlResume, NewOp, TypeOK, TypeShared
  <2>5. TypeTasks' BY <1>8, <2>2, <2>3 DEF CtlResume, NewOp, TypeOK, TypeTasks
  <2>6. TypeJob' BY <1>8 DEF CtlResume, NewOp, TypeOK, TypeJob
  <2>7. InHand'
    BY <1>8 DEF CtlResume, NewOp, TypeOK, TypeTasks, TypeShared, TypeJob, InHand, HandHeld,
                ReturnKnown, DraftHeld, XnHeld, JobHeld, Putting, Drafting, Returns, Away
  <2> QED BY <2>4, <2>5, <2>6, <2>7 DEF TypeOK
<1>9. CASE CtlQuiesceLock(c)
  <2>1. {"quiesceClear"} \subseteq Labels BY DEF Labels
  <2>2. lock' \in Tasks \cup {JobTask, Free}
    BY <1>9 DEF CtlQuiesceLock, TypeOK, TypeShared, TypeTasks
  <2>3. pc' \in [Tasks -> Labels] BY <1>9, <2>1 DEF CtlQuiesceLock, TypeOK, TypeTasks
  <2>4. TypeShared' BY <1>9, <2>2 DEF CtlQuiesceLock, TypeOK, TypeShared
  <2>5. TypeTasks' BY <1>9, <2>3 DEF CtlQuiesceLock, TypeOK, TypeTasks
  <2>6. TypeJob' BY <1>9 DEF CtlQuiesceLock, TypeOK, TypeJob
  <2>7. InHand'
    BY <1>9 DEF CtlQuiesceLock, TypeOK, TypeTasks, TypeShared, TypeJob, InHand, HandHeld,
                ReturnKnown, DraftHeld, XnHeld, JobHeld, Putting, Drafting, Returns, Away
  <2> QED BY <2>4, <2>5, <2>6, <2>7 DEF TypeOK
<1>10. CASE CtlQuiesceClear(c)
  <2>1. {"idle", "tune", "resume"} \subseteq Labels BY DEF Labels
  <2>2. lock' \in Tasks \cup {JobTask, Free}
    BY <1>10 DEF CtlQuiesceClear, TypeOK, TypeShared, TypeTasks
  <2>3. slots' \in [Slots -> Item \cup {None}]
    BY <1>10 DEF CtlQuiesceClear, TypeOK, TypeJob, TypeShared
  <2>4. pc' \in [Tasks -> Labels] BY <1>10, <2>1 DEF CtlQuiesceClear, TypeOK, TypeTasks
  <2>5. after' \in [Tasks -> Labels] BY <1>10, <2>1 DEF CtlQuiesceClear, TypeOK, TypeTasks
  <2>6. TypeShared' BY <1>10, <2>2, <2>3 DEF CtlQuiesceClear, TypeOK, TypeShared
  <2>7. TypeTasks' BY <1>10, <2>4, <2>5 DEF CtlQuiesceClear, TypeOK, TypeTasks
  <2>8. TypeJob' BY <1>10 DEF CtlQuiesceClear, TypeOK, TypeJob
  <2>9. InHand'
    <3>1. HandHeld'
      BY <1>10 DEF CtlQuiesceClear, TypeOK, InHand, TypeTasks, HandHeld, Putting,
                   ReturnKnown, Returns, Away
    <3>2. ReturnKnown'
      BY <1>10 DEF CtlQuiesceClear, TypeOK, InHand, TypeTasks, ReturnKnown, Returns, Away
    <3>3. DraftHeld'
      BY <1>10 DEF CtlQuiesceClear, TypeOK, InHand, Tasks, TypeTasks, DraftHeld, Drafting,
                   ReturnKnown, Returns, Away
    <3>4. XnHeld'
      BY <1>10 DEF CtlQuiesceClear, TypeOK, InHand, Tasks, TypeShared, TypeTasks, XnHeld,
                   ReturnKnown, Returns, Away
    <3> QED BY <1>10, <3>1, <3>2, <3>3, <3>4 DEF CtlQuiesceClear, TypeOK, InHand, JobHeld
  <2> QED BY <2>6, <2>7, <2>8, <2>9 DEF TypeOK
<1>11. CASE CtlResumed(c)
  <2>1. {"idle"} \subseteq Labels BY DEF Labels
  <2>2. pc' \in [Tasks -> Labels] BY <1>11, <2>1 DEF CtlResumed, TypeOK, TypeTasks
  <2>3. TypeShared' BY <1>11 DEF CtlResumed, TypeOK, TypeShared
  <2>4. TypeTasks' BY <1>11, <2>2 DEF CtlResumed, TypeOK, TypeTasks
  <2>5. TypeJob' BY <1>11 DEF CtlResumed, TypeOK, TypeJob
  <2>6. InHand'
    BY <1>11 DEF CtlResumed, TypeOK, TypeTasks, TypeShared, TypeJob, InHand, HandHeld,
                 ReturnKnown, DraftHeld, XnHeld, JobHeld, Putting, Drafting, Returns, Away
  <2> QED BY <2>3, <2>4, <2>5, <2>6 DEF TypeOK
<1> QED BY <1>1, <1>2, <1>3, <1>4, <1>6, <1>7, <1>8, <1>9, <1>10, <1>11 DEF CtlStep

LEMMA TypeJobStep ==
  ASSUME TypeOK, JobStep PROVE TypeOK'
<1> USE DEF Goto, JobGoto, taskVars, chipVars, epochVars, rxVars, jobVars, countVars
<1>1. CASE JobReceive
  <2>1. queue' \in Seq(Item)
    <3>1. queue \in Seq(Item) BY DEF TypeOK, TypeShared
    <3>2. queue # <<>> /\ queue' = Tail(queue) BY <1>1 DEF JobReceive
    <3> QED BY <3>1, <3>2
  <2>2. jpc' \in JobLabels BY <1>1 DEF JobReceive, TypeOK, TypeJob, JobLabels
  <2>3. incoming' \in Item \cup {None}
    <3>1. queue \in Seq(Item) /\ queue # <<>> BY <1>1 DEF JobReceive, TypeOK, TypeShared
    <3>2. incoming' = Head(queue) BY <1>1 DEF JobReceive
    <3> QED BY <3>1, <3>2
  <2>4. TypeShared' BY <1>1, <2>1 DEF JobReceive, TypeOK, TypeShared
  <2>5. TypeTasks' BY <1>1 DEF JobReceive, TypeOK, TypeTasks
  <2>6. TypeJob' BY <1>1, <2>2, <2>3 DEF JobReceive, TypeOK, TypeJob
  <2>7. InHand'
    BY <1>1 DEF JobReceive, TypeOK, TypeTasks, TypeShared, TypeJob, InHand, HandHeld,
                ReturnKnown, DraftHeld, XnHeld, JobHeld, Putting, Drafting, Returns, Away
  <2> QED BY <2>4, <2>5, <2>6, <2>7 DEF TypeOK
<1>2. CASE JobSync
  <2>1. jpc' \in JobLabels BY <1>2 DEF JobSync, SyncEpoch, TypeOK, TypeJob, JobLabels
  <2>2. held' \in [Pools -> Item \cup {None}]
    BY <1>2 DEF JobSync, SyncEpoch, TypeOK, InHand, TypeJob, TypeShared, NothingHeld,
                HandHeld, DraftHeld, XnHeld, JobHeld, Putting, Drafting
  <2>3. curEpoch' \in Nat
    BY <1>2 DEF JobSync, SyncEpoch, TypeOK, InHand, TypeJob, TypeShared, HandHeld,
                DraftHeld, XnHeld, JobHeld, Putting, Drafting
  <2>4. TypeShared' BY <1>2 DEF JobSync, SyncEpoch, TypeOK, TypeShared
  <2>5. TypeTasks' BY <1>2 DEF JobSync, SyncEpoch, TypeOK, TypeTasks
  <2>6. TypeJob' BY <1>2, <2>1, <2>2, <2>3 DEF JobSync, SyncEpoch, TypeOK, TypeJob
  <2>7. InHand'
    BY <1>2 DEF JobSync, SyncEpoch, TypeOK, TypeTasks, TypeShared, TypeJob, InHand,
                HandHeld, ReturnKnown, DraftHeld, XnHeld, JobHeld, Putting, Drafting,
                Returns, Away
  <2> QED BY <2>4, <2>5, <2>6, <2>7 DEF TypeOK
<1>3. CASE JobApply
  <2>1. jpc' \in JobLabels BY <1>3 DEF JobApply, NothingHeld, TypeOK, TypeJob, JobLabels
  <2>2. held' \in [Pools -> Item \cup {None}]
    BY <1>3 DEF JobApply, NothingHeld, TypeOK, InHand, TypeJob, TypeShared, HandHeld,
                DraftHeld, XnHeld, JobHeld, Putting, Drafting
  <2>3. curEpoch' \in Nat
    BY <1>3 DEF JobApply, NothingHeld, TypeOK, InHand, TypeJob, TypeShared, HandHeld,
                DraftHeld, XnHeld, JobHeld, Putting, Drafting
  <2>4. incoming' \in Item \cup {None}
    BY <1>3 DEF JobApply, NothingHeld, TypeOK, InHand, TypeJob, TypeShared, HandHeld,
                DraftHeld, XnHeld, JobHeld, Putting, Drafting
  <2>5. TypeShared' BY <1>3 DEF JobApply, NothingHeld, TypeOK, TypeShared
  <2>6. TypeTasks' BY <1>3 DEF JobApply, NothingHeld, TypeOK, TypeTasks
  <2>7. TypeJob' BY <1>3, <2>1, <2>2, <2>3, <2>4 DEF JobApply, NothingHeld, TypeOK, TypeJob
  <2>8. InHand'
    BY <1>3 DEF JobApply, NothingHeld, TypeOK, TypeTasks, TypeShared, TypeJob, InHand,
                HandHeld, ReturnKnown, DraftHeld, XnHeld, JobHeld, Putting, Drafting,
                Returns, Away
  <2> QED BY <2>5, <2>6, <2>7, <2>8 DEF TypeOK
<1>4. CASE JobQueueEmpty
  <2>1. jpc' \in JobLabels BY <1>4 DEF JobQueueEmpty, SyncEpoch, TypeOK, TypeJob, JobLabels
  <2>2. held' \in [Pools -> Item \cup {None}]
    BY <1>4 DEF JobQueueEmpty, SyncEpoch, TypeOK, InHand, TypeJob, TypeShared, NothingHeld,
                HandHeld, DraftHeld, XnHeld, JobHeld, Putting, Drafting
  <2>3. curEpoch' \in Nat
    BY <1>4 DEF JobQueueEmpty, SyncEpoch, TypeOK, InHand, TypeJob, TypeShared, HandHeld,
                DraftHeld, XnHeld, JobHeld, Putting, Drafting
  <2>4. TypeShared' BY <1>4 DEF JobQueueEmpty, SyncEpoch, TypeOK, TypeShared
  <2>5. TypeTasks' BY <1>4 DEF JobQueueEmpty, SyncEpoch, TypeOK, TypeTasks
  <2>6. TypeJob' BY <1>4, <2>1, <2>2, <2>3 DEF JobQueueEmpty, SyncEpoch, TypeOK, TypeJob
  <2>7. InHand'
    BY <1>4 DEF JobQueueEmpty, SyncEpoch, TypeOK, TypeTasks, TypeShared, TypeJob, InHand,
                HandHeld, ReturnKnown, DraftHeld, XnHeld, JobHeld, Putting, Drafting,
                Returns, Away
  <2> QED BY <2>4, <2>5, <2>6, <2>7 DEF TypeOK
<1>5. ASSUME NEW p \in Pools, JobSelect(p) PROVE TypeOK'
  <2>1. stateMask' \in Masks
    <3>1. Ready(p) => held[p] \in Item BY DEF Ready, TypeOK, TypeJob
    <3>2. Ready(p) => held[p].par.mask \in Masks BY <3>1 DEF Item, Param
    <3> QED BY <1>5, <3>2 DEF JobSelect, TypeOK, TypeShared
  <2>2. jpc' \in JobLabels BY <1>5 DEF JobSelect, TypeOK, TypeJob, JobLabels
  <2>3. job' \in Item \cup {None}
    BY <1>5 DEF JobSelect, TypeOK, InHand, TypeJob, TypeShared, HandHeld, DraftHeld, XnHeld,
                JobHeld, Putting, Drafting
  <2>4. TypeShared' BY <1>5, <2>1 DEF JobSelect, TypeOK, TypeShared
  <2>5. TypeTasks' BY <1>5 DEF JobSelect, TypeOK, TypeTasks
  <2>6. TypeJob' BY <1>5, <2>2, <2>3 DEF JobSelect, TypeOK, TypeJob
  <2>7. InHand'
    <3>1. JobHeld' BY <1>5 DEF JobSelect, TypeOK, InHand, TypeJob, JobHeld, Ready
    <3> QED
      BY <1>5, <3>1 DEF JobSelect, TypeOK, InHand, HandHeld, ReturnKnown, DraftHeld, XnHeld
  <2> QED BY <2>4, <2>5, <2>6, <2>7 DEF TypeOK
<1>6. CASE JobNothingToSend
  <2>1. jpc' \in JobLabels BY <1>6 DEF JobNothingToSend, TypeOK, TypeJob, JobLabels
  <2>2. TypeShared' BY <1>6 DEF JobNothingToSend, TypeOK, TypeShared
  <2>3. TypeTasks' BY <1>6 DEF JobNothingToSend, TypeOK, TypeTasks
  <2>4. TypeJob' BY <1>6, <2>1 DEF JobNothingToSend, TypeOK, TypeJob
  <2>5. InHand'
    BY <1>6 DEF JobNothingToSend, TypeOK, TypeTasks, TypeShared, TypeJob, InHand, HandHeld,
                ReturnKnown, DraftHeld, XnHeld, JobHeld, Putting, Drafting, Returns, Away
  <2> QED BY <2>2, <2>3, <2>4, <2>5 DEF TypeOK
<1>7. CASE JobLock
  <2>1. lock' \in Tasks \cup {JobTask, Free}
    BY <1>7 DEF JobLock, TypeOK, InHand, TypeShared, TypeTasks, HandHeld, DraftHeld, XnHeld,
                JobHeld, Putting, Drafting
  <2>2. jpc' \in JobLabels BY <1>7 DEF JobLock, TypeOK, TypeJob, JobLabels
  <2>3. TypeShared' BY <1>7, <2>1 DEF JobLock, TypeOK, TypeShared
  <2>4. TypeTasks' BY <1>7 DEF JobLock, TypeOK, TypeTasks
  <2>5. TypeJob' BY <1>7, <2>2 DEF JobLock, TypeOK, TypeJob
  <2>6. InHand'
    BY <1>7 DEF JobLock, TypeOK, TypeTasks, TypeShared, TypeJob, InHand, HandHeld,
                ReturnKnown, DraftHeld, XnHeld, JobHeld, Putting, Drafting, Returns, Away
  <2> QED BY <2>3, <2>4, <2>5, <2>6 DEF TypeOK
<1>8. CASE JobRecheck
  <2>1. lock' \in Tasks \cup {JobTask, Free}
    BY <1>8 DEF JobRecheck, TypeOK, InHand, TypeShared, TypeTasks, HandHeld, DraftHeld,
                XnHeld, JobHeld, Putting, Drafting
  <2>2. jpc' \in JobLabels BY <1>8 DEF JobRecheck, TypeOK, TypeJob, JobLabels
  <2>3. job' \in Item \cup {None}
    BY <1>8 DEF JobRecheck, TypeOK, InHand, TypeJob, TypeShared, HandHeld, DraftHeld,
                XnHeld, JobHeld, Putting, Drafting
  <2>4. TypeShared' BY <1>8, <2>1 DEF JobRecheck, TypeOK, TypeShared
  <2>5. TypeTasks' BY <1>8 DEF JobRecheck, TypeOK, TypeTasks
  <2>6. TypeJob' BY <1>8, <2>2, <2>3 DEF JobRecheck, TypeOK, TypeJob
  <2>7. InHand'
    BY <1>8 DEF JobRecheck, TypeOK, TypeTasks, TypeShared, TypeJob, InHand, HandHeld,
                ReturnKnown, DraftHeld, XnHeld, JobHeld, Putting, Drafting, Returns, Away
  <2> QED BY <2>4, <2>5, <2>6, <2>7 DEF TypeOK
<1>9. CASE JobSend
  <2>1. lock' \in Tasks \cup {JobTask, Free}
    BY <1>9 DEF JobSend, TypeOK, InHand, TypeShared, TypeTasks, HandHeld, DraftHeld, XnHeld,
                JobHeld, Putting, Drafting
  <2>2. slots' \in [Slots -> Item \cup {None}]
    BY <1>9 DEF JobSend, TypeOK, InHand, TypeJob, TypeShared, HandHeld, DraftHeld, XnHeld,
                JobHeld, Putting, Drafting
  <2>3. slot' \in Slots
    BY <1>9, SizesAssumption
    DEF JobSend, TypeOK, InHand, TypeShared, Slots, HandHeld, DraftHeld, XnHeld, JobHeld,
        Putting, Drafting
  <2>4. jpc' \in JobLabels BY <1>9 DEF JobSend, TypeOK, TypeJob, JobLabels
  <2>5. job' \in Item \cup {None}
    BY <1>9 DEF JobSend, TypeOK, InHand, TypeJob, TypeShared, HandHeld, DraftHeld, XnHeld,
                JobHeld, Putting, Drafting
  <2>6. TypeShared' BY <1>9, <2>1, <2>2, <2>3 DEF JobSend, TypeOK, TypeShared
  <2>7. TypeTasks' BY <1>9 DEF JobSend, TypeOK, TypeTasks
  <2>8. TypeJob' BY <1>9, <2>4, <2>5 DEF JobSend, TypeOK, TypeJob
  <2>9. InHand'
    BY <1>9 DEF JobSend, TypeOK, TypeTasks, TypeShared, TypeJob, InHand, HandHeld,
                ReturnKnown, DraftHeld, XnHeld, JobHeld, Putting, Drafting, Returns, Away
  <2> QED BY <2>6, <2>7, <2>8, <2>9 DEF TypeOK
<1> QED BY <1>1, <1>2, <1>3, <1>4, <1>5, <1>6, <1>7, <1>8, <1>9 DEF JobStep

LEMMA TypeNext == TypeOK /\ [Next]_vars => TypeOK'
<1> SUFFICES ASSUME TypeOK, [Next]_vars PROVE TypeOK'
  OBVIOUS
<1>1. ASSUME NEW t \in Tasks, ResetStep(t) PROVE TypeOK' BY <1>1, TypeResetStep
<1>2. ASSUME NEW t \in Tasks, RotateStep(t) PROVE TypeOK' BY <1>2, TypeRotateStep
<1>3. ASSUME NEW p \in Pools, RxStep(p) PROVE TypeOK' BY <1>3, TypeRxStep
<1>4. ASSUME NEW c \in Controls, CtlStep(c) PROVE TypeOK' BY <1>4, TypeCtlStep
<1>5. CASE JobStep BY <1>5, TypeJobStep
<1>6. CASE UNCHANGED vars
  <2> USE <1>6 DEF vars, taskVars, chipVars, epochVars, rxVars, jobVars, countVars
  <2>1. TypeShared' BY DEF TypeOK, TypeShared
  <2>2. TypeTasks' BY DEF TypeOK, TypeTasks
  <2>3. TypeJob' BY DEF TypeOK, TypeJob
  <2>4. InHand'
    BY DEF TypeOK, InHand, HandHeld, ReturnKnown, DraftHeld, XnHeld, JobHeld
  <2> QED BY <2>1, <2>2, <2>3, <2>4 DEF TypeOK
<1> QED BY <1>1, <1>2, <1>3, <1>4, <1>5, <1>6 DEF Next

\* In every state the pipeline reaches, for any number of pools, tasks and
\* messages, a task that is about to use an item, a draft, an extranonce or a
\* job has one: no step dereferences a NULL work.
THEOREM TypeCorrect == Spec => []TypeOK
<1>1. Init => TypeOK BY TypeInit
<1>2. TypeOK /\ [Next]_vars => TypeOK' BY TypeNext
<1> QED BY <1>1, <1>2, PTL DEF Spec

=============================================================================
