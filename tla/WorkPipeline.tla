---------------------------- MODULE WorkPipeline ----------------------------
(***************************************************************************)
(* How work travels from the mining pools to the ASIC, and how every task  *)
(* that may supersede it takes it back (src/main/stratum_minimal.c).       *)
(*                                                                         *)
(* One receive task per pool session puts work on a FreeRTOS queue; the    *)
(* job task takes it off, keeps one work per pool, builds jobs from it and *)
(* writes them into the ASIC's job table.  A new block, a raised           *)
(* difficulty, a lost connection, a settings change or a frequency change  *)
(* makes work stale: the task that notices bumps an epoch, takes the       *)
(* queued work and the table's jobs away and leaves a reset marker, all    *)
(* under g_work_reset_lock, which neither end of the queue takes.          *)
(*                                                                         *)
(* Every shared access that another task can see is a step of its own.     *)
(***************************************************************************)
EXTENDS Integers, Sequences

CONSTANTS
    NPools,       \* pool sessions: STRATUM_POOL_SESSION_MAX
    Controls,     \* tasks that reconfigure: HTTP handlers, tuner, watchdog
    JobTask,      \* job_task
    Free,         \* "no task holds the lock"
    None,         \* "no work here": a NULL pointer
    All,          \* the scope of a full reset
    QueueCap,     \* depth of g_work_queue
    NSlots,       \* slots of the ASIC job table that send_work cycles through
    Extranonces,  \* extranonce prefixes a pool may assign
    MaxDiff,      \* pool difficulties are 1 .. MaxDiff
    Masks,        \* usable version masks
    Modes,        \* the values of multi_pool_enabled the user may save
    MaxMsgs,      \* bound: dials, pool messages and link failures
    MaxOps        \* bound: control operations

Primary == 0
Pools == 0 .. NPools - 1
Tasks == Pools \cup Controls
Slots == 0 .. NSlots - 1

ASSUME SizesAssumption ==
    /\ NPools \in Nat \ {0} /\ NSlots \in Nat \ {0} /\ QueueCap \in Nat \ {0}
    /\ MaxDiff \in Nat \ {0} /\ MaxMsgs \in Nat /\ MaxOps \in Nat
    /\ Modes \subseteq BOOLEAN

ASSUME ParamsAssumption ==
    /\ Extranonces # {} /\ Masks # {} /\ None \notin Extranonces \cup Masks

ASSUME NamesAssumption ==
    /\ Controls \cap Pools = {}
    /\ JobTask \notin Tasks /\ Free \notin Tasks \cup {JobTask}
    /\ All \notin Pools

VARIABLES
    multi,      \* config.multi_pool_enabled
    workEpoch,  \* g_work_epoch
    poolEpoch,  \* g_pool_work_epoch
    queue,      \* g_work_queue
    lock,       \* g_work_reset_lock: its holder, or Free
    paused,     \* g_work_paused
    sess,       \* g_pool_sessions
    stateMask,  \* g_state->version_mask: what a pool without a mask gets
    slots,      \* active_jobs, one entry per slot the id counter visits
    slot,       \* BM1370_send_work's next slot
    pc,         \* where each receive or control task is
    after,      \* where it continues when the subroutine it runs returns
    scope,      \* what its reset supersedes: a pool or All
    cursor,     \* its loop counter in a reset or a queue rotation
    hand,       \* the item it took off the queue and has not put back
    draft,      \* a receive task's queued_work_t under construction
    newXn,      \* the extranonce of the message it handles
    todo,       \* the rest of a control task's reconnect mask
    jpc,        \* where the job task is
    held,       \* job_task's pools[]: the work it dispatches from
    curEpoch,   \* job_task's current_epoch
    incoming,   \* the item the job task has just received
    job,        \* the job it is about to send
    msgs,       \* dials, pool messages, link failures so far
    ops         \* control operations so far

rxVars == <<draft, newXn>>
taskVars == <<pc, after, scope, cursor, hand, todo>>
jobVars == <<jpc, held, curEpoch, incoming, job>>
epochVars == <<workEpoch, poolEpoch>>
chipVars == <<slots, slot>>
countVars == <<msgs, ops>>
vars == <<multi, epochVars, queue, lock, paused, sess, stateMask, chipVars, taskVars,
          rxVars, jobVars, countVars>>

-----------------------------------------------------------------------------
(* What the queue, the job task and the ASIC hold.                         *)

\* What a pool has told its session: every job must be built from it.
Param == [xn : Extranonces, diff : 1 .. MaxDiff, mask : Masks]
SessionParam == [xn : Extranonces \cup {None}, diff : 1 .. MaxDiff,
                 mask : Masks \cup {None}]

\* A queued_work_t: work of a pool, or a marker left by a reset.
Item == [kind : {"work", "pool", "all"}, pool : Pools, epoch : Nat,
         poolEpoch : Nat, par : Param]

\* A work order is a pool in one of its eras.
Order == [pool : Pools, era : Nat \X Nat]

ASSUME NoneAssumption == None \notin Item \cup Order

Session == [connected : BOOLEAN, ready : BOOLEAN, disabled : BOOLEAN,
            closing : BOOLEAN, \* the transport was closed under the session
            par : SessionParam]

\* An item still speaks for the present.
Current(w) == w.epoch = workEpoch /\ w.poolEpoch = poolEpoch[w.pool]

\* pool_session_configured: single mode uses the primary, multi mode the others.
Configured(p) == multi <=> (p # Primary)

\* reset_pool_or_single_work_state: the primary alone means everything.
PoolScope(p) == IF p = Primary /\ ~multi THEN All ELSE p

HasRoom == Len(queue) < QueueCap

\* A reset or pause marker carries no parameters of its own.
NoParam == CHOOSE par \in Param : TRUE
Marker(kind, p) == [kind |-> kind, pool |-> p, epoch |-> workEpoch,
                    poolEpoch |-> IF kind = "all" THEN 0 ELSE poolEpoch[p],
                    par |-> NoParam]

Goto(t, label) == pc' = [pc EXCEPT ![t] = label]

\* Enter the reset subroutine; it continues at label then.
StartReset(t, sc, then) ==
    /\ Goto(t, "bump")
    /\ scope' = [scope EXCEPT ![t] = sc]
    /\ after' = [after EXCEPT ![t] = then]

Init ==
    /\ multi \in Modes
    /\ workEpoch = 0 /\ poolEpoch = [p \in Pools |-> 0]
    /\ queue = <<>> /\ lock = Free /\ paused = FALSE
    /\ stateMask \in Masks
    /\ sess = [p \in Pools |->
                 [connected |-> FALSE, ready |-> FALSE, disabled |-> FALSE,
                  closing |-> FALSE, par |-> [xn |-> None, diff |-> 1, mask |-> None]]]
    /\ slots = [s \in Slots |-> None] /\ slot = 0
    /\ pc = [t \in Tasks |-> "idle"]
    /\ after = [t \in Tasks |-> "idle"]
    /\ scope = [t \in Tasks |-> All]
    /\ cursor = [t \in Tasks |-> 0]
    /\ hand = [t \in Tasks |-> None]
    /\ todo = [c \in Controls |-> {}]
    /\ draft = [p \in Pools |-> None]
    /\ newXn = [p \in Pools |-> None]
    /\ jpc = "recv" /\ held = [p \in Pools |-> None] /\ curEpoch = 0
    /\ incoming = None /\ job = None
    /\ msgs = 0 /\ ops = 0

-----------------------------------------------------------------------------
(* The reset subroutine: reset_work_state when the scope is All,           *)
(* reset_pool_work_state when it is one pool.  The epochs move first; the  *)
(* queue, the job table and the marker follow, all under the lock.         *)

Bump(t) ==
    /\ pc[t] = "bump" /\ lock = Free
    /\ lock' = t
    /\ IF scope[t] = All
       THEN /\ workEpoch' = workEpoch + 1
            /\ cursor' = [cursor EXCEPT ![t] = 0]
            /\ Goto(t, "bumpPools")
            /\ UNCHANGED poolEpoch
       ELSE /\ poolEpoch' = [poolEpoch EXCEPT ![scope[t]] = @ + 1]
            /\ Goto(t, "count")
            /\ UNCHANGED <<workEpoch, cursor>>
    /\ UNCHANGED <<multi, queue, paused, sess, stateMask, chipVars, after, scope,
                   hand, todo, rxVars, jobVars, countVars>>

BumpPools(t) ==
    /\ pc[t] = "bumpPools"
    /\ poolEpoch' = [poolEpoch EXCEPT ![cursor[t]] = @ + 1]
    /\ IF cursor[t] + 1 = NPools
       THEN cursor' = [cursor EXCEPT ![t] = 0] /\ Goto(t, "drain")
       ELSE cursor' = [cursor EXCEPT ![t] = @ + 1] /\ UNCHANGED pc
    /\ UNCHANGED <<multi, workEpoch, queue, lock, paused, sess, stateMask, chipVars,
                   after, scope, hand, todo, rxVars, jobVars, countVars>>

\* drain_work_queue, one item at a time.
Drain(t) ==
    /\ pc[t] = "drain"
    /\ IF queue = <<>> THEN Goto(t, "clear") /\ UNCHANGED queue
                       ELSE queue' = Tail(queue) /\ UNCHANGED pc
    /\ UNCHANGED <<multi, epochVars, lock, paused, sess, stateMask, chipVars, after,
                   scope, cursor, hand, todo, rxVars, jobVars, countVars>>

\* bitaxe_gamma602_clear_jobs, bitaxe_gamma602_clear_pool_jobs.
Superseded(t, w) == w # None /\ (scope[t] = All \/ w.pool = scope[t])
Clear(t) ==
    /\ pc[t] = "clear"
    /\ slots' = [s \in Slots |-> IF Superseded(t, slots[s]) THEN None ELSE slots[s]]
    /\ Goto(t, "mark")
    /\ UNCHANGED <<multi, epochVars, queue, lock, paused, sess, stateMask, slot, after,
                   scope, cursor, hand, todo, rxVars, jobVars, countVars>>

\* Mutant: the lock is not given back.
MarkAndKeep(t) ==
    /\ pc[t] = "mark"
    /\ queue' = IF HasRoom THEN Append(queue, Marker("all", Primary)) ELSE queue
    /\ Goto(t, after[t])
    /\ after' = [after EXCEPT ![t] = "idle"]
    /\ scope' = [scope EXCEPT ![t] = All]
    /\ UNCHANGED <<multi, epochVars, lock, paused, sess, stateMask, chipVars, cursor,
                   hand, todo, rxVars, jobVars, countVars>>

\* queue_work_reset_marker, lost when the queue is full; then the lock goes.
MarkAndGive(t) ==
    /\ pc[t] = "mark"
    /\ queue' = IF ~HasRoom THEN queue
                ELSE Append(queue, IF scope[t] = All THEN Marker("all", Primary)
                                                     ELSE Marker("pool", scope[t]))
    /\ lock' = Free
    /\ Goto(t, after[t])
    /\ after' = [after EXCEPT ![t] = "idle"]
    /\ scope' = [scope EXCEPT ![t] = All]
    /\ UNCHANGED <<multi, epochVars, paused, sess, stateMask, chipVars, cursor, hand,
                   todo, rxVars, jobVars, countVars>>

-----------------------------------------------------------------------------
(* Queue rotation: take an item off the head, drop it or put it back at    *)
(* the tail, as many times as the queue was long.  A pool's reset does it  *)
(* under the lock ("rotate"); a receive task that finds the queue full     *)
(* does it without ("seek" until it has dropped one, then "pass").         *)

\* uxQueueMessagesWaiting.
Count(t) ==
    /\ pc[t] \in {"count", "full"}
    /\ cursor' = [cursor EXCEPT ![t] = Len(queue)]
    /\ Goto(t, IF pc[t] = "count" THEN "rotate" ELSE "seek")
    /\ UNCHANGED <<multi, epochVars, queue, lock, paused, sess, stateMask, chipVars,
                   after, scope, hand, todo, rxVars, jobVars, countVars>>

RotationDone(t) == cursor[t] = 0 \/ queue = <<>>

RotateTake(t) ==
    /\ pc[t] \in {"rotate", "seek", "pass"} /\ ~RotationDone(t)
    /\ hand' = [hand EXCEPT ![t] = Head(queue)]
    /\ queue' = Tail(queue)
    /\ Goto(t, CASE pc[t] = "rotate" -> "rotatePut"
                 [] pc[t] = "seek"   -> "seekPut"
                 [] OTHER            -> "passPut")
    /\ UNCHANGED <<multi, epochVars, lock, paused, sess, stateMask, chipVars, after,
                   scope, cursor, todo, rxVars, jobVars, countVars>>

\* Which items the loop frees: drain_work_queue_for_pool frees every item of
\* the pool and every full-reset marker, drop_one_queued_work_for_pool the
\* first item of the pool.
Discards(t) ==
    \/ pc[t] = "rotatePut" /\ (hand[t].kind = "all" \/ hand[t].pool = scope[t])
    \/ pc[t] = "seekPut" /\ hand[t].kind # "all" /\ hand[t].pool = t

RotatePut(t) ==
    /\ pc[t] \in {"rotatePut", "seekPut", "passPut"}
    /\ queue' = IF Discards(t) \/ ~HasRoom THEN queue ELSE Append(queue, hand[t])
    /\ hand' = [hand EXCEPT ![t] = None]
    /\ cursor' = [cursor EXCEPT ![t] = @ - 1]
    /\ Goto(t, CASE pc[t] = "rotatePut"                -> "rotate"
                 [] pc[t] = "seekPut" /\ ~Discards(t)  -> "seek"
                 [] OTHER                              -> "pass")
    /\ UNCHANGED <<multi, epochVars, lock, paused, sess, stateMask, chipVars, after,
                   scope, todo, rxVars, jobVars, countVars>>

RotateEnd(t) ==
    /\ pc[t] \in {"rotate", "seek", "pass"} /\ RotationDone(t)
    /\ Goto(t, IF pc[t] = "rotate" THEN "clear" ELSE "resend")
    /\ cursor' = [cursor EXCEPT ![t] = 0]
    /\ UNCHANGED <<multi, epochVars, queue, lock, paused, sess, stateMask, chipVars,
                   after, scope, hand, todo, rxVars, jobVars, countVars>>

ResetStep(t) == Bump(t) \/ BumpPools(t) \/ Drain(t) \/ Clear(t) \/ MarkAndGive(t)
RotateStep(t) == Count(t) \/ RotateTake(t) \/ RotatePut(t) \/ RotateEnd(t)

-----------------------------------------------------------------------------
(* The receive task of pool p (stratum_rx_task): connect, read messages    *)
(* until the connection ends, start again.                                 *)

NewMsg == msgs < MaxMsgs /\ msgs' = msgs + 1

\* The primary supersedes all it had before it dials; the others do not.
RxDial(p) ==
    /\ pc[p] = "idle" /\ Configured(p) /\ ~sess[p].disabled
    /\ NewMsg
    /\ IF p = Primary
       THEN StartReset(p, PoolScope(p), "dialled")
       ELSE Goto(p, "dialled") /\ UNCHANGED <<scope, after>>
    /\ UNCHANGED <<multi, epochVars, queue, lock, paused, sess, stateMask, chipVars,
                   cursor, hand, todo, rxVars, jobVars, ops>>

\* send_setup_messages assumes the suggested difficulty until told another.
RxSetup(p) ==
    /\ pc[p] = "dialled"
    /\ sess' = [sess EXCEPT ![p].par.diff = 1]
    /\ Goto(p, "setup")
    /\ UNCHANGED <<multi, epochVars, queue, lock, paused, stateMask, chipVars, after,
                   scope, cursor, hand, todo, rxVars, jobVars, countVars>>

\* set_session_transport, set_session_connected.
RxConnected(p) ==
    /\ pc[p] = "setup"
    /\ sess' = [sess EXCEPT ![p] = [@ EXCEPT !.connected = TRUE, !.ready = FALSE,
                                           !.disabled = FALSE, !.closing = FALSE]]
    /\ Goto(p, "online")
    /\ UNCHANGED <<multi, epochVars, queue, lock, paused, stateMask, chipVars, after,
                   scope, cursor, hand, todo, rxVars, jobVars, countVars>>

\* set_session_disconnected when the connection was never made (no Wi-Fi, DNS,
\* connect or setup failure): only the primary resets.
RxGiveUp(p) ==
    /\ pc[p] \in {"idle", "dialled", "setup"}
    /\ NewMsg
    /\ IF p = Primary
       THEN StartReset(p, PoolScope(p), "idle")
       ELSE Goto(p, "idle") /\ UNCHANGED <<scope, after>>
    /\ UNCHANGED <<multi, epochVars, queue, lock, paused, sess, stateMask, chipVars,
                   cursor, hand, todo, rxVars, jobVars, ops>>

\* The connection ends: the peer, the network, Wi-Fi or a requested close.
RxLinkLost(p) ==
    /\ pc[p] = "online"
    /\ IF sess[p].closing THEN UNCHANGED msgs ELSE NewMsg
    /\ sess' = [sess EXCEPT ![p] = [@ EXCEPT !.connected = FALSE, !.ready = FALSE,
                                           !.closing = FALSE]]
    /\ StartReset(p, PoolScope(p), "idle")
    /\ UNCHANGED <<multi, epochVars, queue, lock, paused, stateMask, chipVars, cursor,
                   hand, todo, rxVars, jobVars, ops>>

\* The answer to mining.subscribe; the request is sent once per connection.
RxSubscribed(p) ==
    /\ pc[p] = "online" /\ ~sess[p].ready
    /\ NewMsg
    /\ \E xn \in Extranonces :
           sess' = [sess EXCEPT ![p] = [@ EXCEPT !.par.xn = xn, !.ready = TRUE]]
    /\ UNCHANGED <<multi, epochVars, queue, lock, paused, stateMask, chipVars, taskVars,
                   rxVars, jobVars, ops>>

\* mining.set_extranonce: supersede first, then store (a pool answers
\* mining.extranonce.subscribe, sent last, after mining.subscribe).
RxSetExtranonce(p) ==
    /\ pc[p] = "online" /\ sess[p].ready
    /\ NewMsg
    /\ \E xn \in Extranonces : newXn' = [newXn EXCEPT ![p] = xn]
    /\ StartReset(p, PoolScope(p), "setXn")
    /\ UNCHANGED <<multi, epochVars, queue, lock, paused, sess, stateMask, chipVars,
                   cursor, hand, todo, draft, jobVars, ops>>

RxStoreExtranonce(p) ==
    /\ pc[p] = "setXn"
    /\ sess' = [sess EXCEPT ![p] = [@ EXCEPT !.par.xn = newXn[p], !.ready = TRUE]]
    /\ newXn' = [newXn EXCEPT ![p] = None]
    /\ Goto(p, "online")
    /\ UNCHANGED <<multi, epochVars, queue, lock, paused, stateMask, chipVars, after,
                   scope, cursor, hand, todo, draft, jobVars, countVars>>

\* set_pool_session_difficulty: work already sent out may be too easy.
LoweredOnly(p, d) == d < sess[p].par.diff  \* Mutant: the comparison is swapped.
Raised(p, d) == d > sess[p].par.diff

\* mining.set_difficulty: store first, then supersede when it was raised.
RxSetDifficulty(p) ==
    /\ pc[p] = "online"
    /\ NewMsg
    /\ \E d \in 1 .. MaxDiff :
           /\ sess' = [sess EXCEPT ![p].par.diff = d]
           /\ IF Raised(p, d)
              THEN StartReset(p, PoolScope(p), "online")
              ELSE UNCHANGED <<pc, scope, after>>
    /\ UNCHANGED <<multi, epochVars, queue, lock, paused, stateMask, chipVars, cursor,
                   hand, todo, rxVars, jobVars, ops>>

\* update_version_mask: a usable mask is stored, then superseding happens when
\* it changed.
RxVersionMask(p) ==
    /\ pc[p] = "online"
    /\ NewMsg
    /\ \E m \in Masks :
           /\ sess' = [sess EXCEPT ![p].par.mask = m]
           /\ stateMask' = IF p = Primary THEN m ELSE stateMask
           /\ IF m # sess[p].par.mask
              THEN StartReset(p, PoolScope(p), "online")
              ELSE UNCHANGED <<pc, scope, after>>
    /\ UNCHANGED <<multi, epochVars, queue, lock, paused, chipVars, cursor, hand, todo,
                   rxVars, jobVars, ops>>

\* update_version_mask with no usable bit: the session is disabled at run time,
\* its work superseded and its transport closed.
RxUnusableMask(p) ==
    /\ pc[p] = "online"
    /\ NewMsg
    /\ sess' = [sess EXCEPT ![p].disabled = TRUE]
    /\ StartReset(p, PoolScope(p), "closeSelf")
    /\ UNCHANGED <<multi, epochVars, queue, lock, paused, stateMask, chipVars, cursor,
                   hand, todo, rxVars, jobVars, ops>>

\* The close of request_pool_transport_close, or client.reconnect's own.
RxCloseSelf(p) ==
    /\ \/ pc[p] = "closeSelf" /\ UNCHANGED msgs
       \/ pc[p] = "online" /\ NewMsg
    /\ sess' = [sess EXCEPT ![p].closing = TRUE]
    /\ Goto(p, "online")
    /\ UNCHANGED <<multi, epochVars, queue, lock, paused, stateMask, chipVars, after,
                   scope, cursor, hand, todo, rxVars, jobVars, ops>>

\* mining.notify: a new block or clean_jobs supersedes before the enqueue.
RxNotify(p) ==
    /\ pc[p] = "online"
    /\ NewMsg
    /\ \/ StartReset(p, PoolScope(p), "enqueue")
       \/ Goto(p, "enqueue") /\ UNCHANGED <<scope, after>>
    /\ UNCHANGED <<multi, epochVars, queue, lock, paused, sess, stateMask, chipVars,
                   cursor, hand, todo, rxVars, jobVars, ops>>

-----------------------------------------------------------------------------
(* enqueue_work: the epochs are read before the session is, and neither    *)
(* under the reset lock.                                                   *)

EnqEpoch(p) ==
    /\ pc[p] = "enqueue"
    /\ IF sess[p].disabled
       THEN Goto(p, "online") /\ UNCHANGED draft
       ELSE /\ draft' = [draft EXCEPT ![p] =
                  [kind |-> "work", pool |-> p, epoch |-> workEpoch,
                   poolEpoch |-> 0, par |-> NoParam]]
            /\ Goto(p, "enqPool")
    /\ UNCHANGED <<multi, epochVars, queue, lock, paused, sess, stateMask, chipVars,
                   after, scope, cursor, hand, todo, newXn, jobVars, countVars>>

\* A pool that announced no mask is given the one the state holds.
MaskFor(p) == IF sess[p].par.mask = None THEN stateMask ELSE sess[p].par.mask

ConnectedOnly(p) == sess[p].connected  \* Mutant: no wait for the subscription.
Subscribed(p) == sess[p].connected /\ sess[p].ready

\* g_pool_work_epoch, then the session under the transport lock; only this
\* task writes the session's parameters.
EnqSession(p) ==
    /\ pc[p] = "enqPool"
    /\ IF Subscribed(p)
       THEN /\ draft' = [draft EXCEPT ![p] =
                  [@ EXCEPT !.poolEpoch = poolEpoch[p],
                            !.par = [xn |-> sess[p].par.xn, diff |-> sess[p].par.diff,
                                     mask |-> MaskFor(p)]]]
            /\ Goto(p, "send")
       ELSE Goto(p, "online") /\ draft' = [draft EXCEPT ![p] = None]
    /\ UNCHANGED <<multi, epochVars, queue, lock, paused, sess, stateMask, chipVars,
                   after, scope, cursor, hand, todo, newXn, jobVars, countVars>>

\* The first send ("send") makes room and tries again ("resend") when the queue
\* is full; the second gives up.
EnqSend(p) ==
    /\ pc[p] \in {"send", "resend"}
    /\ IF HasRoom \/ pc[p] = "resend"
       THEN /\ queue' = IF HasRoom THEN Append(queue, draft[p]) ELSE queue
            /\ draft' = [draft EXCEPT ![p] = None]
            /\ Goto(p, "online")
       ELSE Goto(p, "full") /\ UNCHANGED <<queue, draft>>
    /\ UNCHANGED <<multi, epochVars, lock, paused, sess, stateMask, chipVars, after,
                   scope, cursor, hand, todo, newXn, jobVars, countVars>>

RxStep(p) ==
    \/ RxDial(p) \/ RxSetup(p) \/ RxConnected(p) \/ RxGiveUp(p) \/ RxLinkLost(p)
    \/ RxSubscribed(p) \/ RxSetExtranonce(p) \/ RxStoreExtranonce(p)
    \/ RxSetDifficulty(p) \/ RxVersionMask(p) \/ RxUnusableMask(p) \/ RxCloseSelf(p)
    \/ RxNotify(p)
    \/ EnqEpoch(p) \/ EnqSession(p) \/ EnqSend(p)

-----------------------------------------------------------------------------
(* The control tasks: HTTP handlers, the tuner and the watchdog.           *)

NewOp(c) == pc[c] = "idle" /\ ops < MaxOps /\ ops' = ops + 1

\* A settings save: the mode, then stratum_minimal_reconnect_pools(mask).
CtlSettings(c) ==
    /\ NewOp(c)
    /\ multi' \in Modes
    /\ \E mask \in SUBSET Pools : todo' = [todo EXCEPT ![c] = mask]
    /\ Goto(c, "reconnect")
    /\ UNCHANGED <<epochVars, queue, lock, paused, sess, stateMask, chipVars, after,
                   scope, cursor, hand, rxVars, jobVars, msgs>>

Enabled(P) == [p \in Pools |-> IF p \in P THEN [sess[p] EXCEPT !.disabled = FALSE]
                                         ELSE sess[p]]
Closed(P) == [p \in Pools |-> IF p \in P /\ sess[p].connected
                              THEN [sess[p] EXCEPT !.closing = TRUE] ELSE sess[p]]
Lowest(p, P) == p \in P /\ \A q \in P : p <= q

\* Mutant: the work is superseded but the transports stay open.
CtlResetAll(c) ==
    /\ pc[c] = "reconnect" /\ ~multi /\ Primary \in todo[c]
    /\ sess' = Enabled(Pools)
    /\ todo' = [todo EXCEPT ![c] = {}]
    /\ StartReset(c, All, "idle")
    /\ UNCHANGED <<multi, epochVars, queue, lock, paused, stateMask, chipVars, cursor,
                   hand, rxVars, jobVars, countVars>>

\* Single mode and the primary in the mask: stratum_minimal_reconnect.
CtlReconnectAll(c) ==
    /\ pc[c] = "reconnect" /\ ~multi /\ Primary \in todo[c]
    /\ sess' = Enabled(Pools)
    /\ todo' = [todo EXCEPT ![c] = Pools]
    /\ StartReset(c, All, "closeAll")
    /\ UNCHANGED <<multi, epochVars, queue, lock, paused, stateMask, chipVars, cursor,
                   hand, rxVars, jobVars, countVars>>

CtlReconnectMask(c) ==
    /\ pc[c] = "reconnect" /\ (multi \/ Primary \notin todo[c])
    /\ Goto(c, "reconnectNext")
    /\ UNCHANGED <<multi, epochVars, queue, lock, paused, sess, stateMask, chipVars,
                   after, scope, cursor, hand, todo, rxVars, jobVars, countVars>>

\* clear_pool_runtime_state, then request_pool_transport_close: reset and close,
\* for the next pool of the mask.
CtlReconnectNext(c) ==
    /\ pc[c] = "reconnectNext"
    /\ \/ todo[c] = {} /\ Goto(c, "idle") /\ UNCHANGED <<scope, after, sess>>
       \/ \E p \in todo[c] :
              /\ Lowest(p, todo[c])
              /\ sess' = Enabled({p})
              /\ StartReset(c, PoolScope(p), "close")
    /\ UNCHANGED <<multi, epochVars, queue, lock, paused, stateMask, chipVars, cursor,
                   hand, todo, rxVars, jobVars, countVars>>

\* esp_transport_close on every session ("closeAll") or on the one just reset:
\* a session that has a transport will find it closed when it reads next.
CtlClose(c) ==
    /\ pc[c] \in {"close", "closeAll"}
    /\ \E P \in SUBSET todo[c] :
           /\ IF pc[c] = "closeAll" THEN P = todo[c]
                                    ELSE \E p \in todo[c] : P = {p} /\ Lowest(p, todo[c])
           /\ sess' = Closed(P)
           /\ todo' = [todo EXCEPT ![c] = @ \ P]
    /\ Goto(c, IF pc[c] = "closeAll" THEN "idle" ELSE "reconnectNext")
    /\ UNCHANGED <<multi, epochVars, queue, lock, paused, stateMask, chipVars, after,
                   scope, cursor, hand, rxVars, jobVars, countVars>>

\* stratum_minimal_pause_work stores the flag, then empties the job table; a
\* user's pause ends there, a frequency change and a power cycle resume later.
CtlPause(c) ==
    /\ NewOp(c)
    /\ paused' = TRUE
    /\ \E then \in {"idle", "tune"} : after' = [after EXCEPT ![c] = then]
    /\ Goto(c, "quiesce")
    /\ UNCHANGED <<multi, epochVars, queue, lock, sess, stateMask, chipVars, scope,
                   cursor, hand, todo, rxVars, jobVars, msgs>>

\* stratum_minimal_resume_work empties the table, then stores the flag.
CtlResume(c) ==
    /\ \/ NewOp(c)
       \/ pc[c] = "tune" /\ UNCHANGED ops
    /\ after' = [after EXCEPT ![c] = "resume"]
    /\ Goto(c, "quiesce")
    /\ UNCHANGED <<multi, epochVars, queue, lock, paused, sess, stateMask, chipVars,
                   scope, cursor, hand, todo, rxVars, jobVars, msgs>>

CtlQuiesceLock(c) ==
    /\ pc[c] = "quiesce" /\ lock = Free
    /\ lock' = c
    /\ Goto(c, "quiesceClear")
    /\ UNCHANGED <<multi, epochVars, queue, paused, sess, stateMask, chipVars, after,
                   scope, cursor, hand, todo, rxVars, jobVars, countVars>>

CtlQuiesceClear(c) ==
    /\ pc[c] = "quiesceClear"
    /\ slots' = [s \in Slots |-> None]
    /\ lock' = Free
    /\ Goto(c, after[c])
    /\ after' = [after EXCEPT ![c] = "idle"]
    /\ UNCHANGED <<multi, epochVars, queue, paused, sess, stateMask, slot, scope,
                   cursor, hand, todo, rxVars, jobVars, countVars>>

CtlResumed(c) ==
    /\ pc[c] = "resume"
    /\ paused' = FALSE
    /\ Goto(c, "idle")
    /\ UNCHANGED <<multi, epochVars, queue, lock, sess, stateMask, chipVars, after,
                   scope, cursor, hand, todo, rxVars, jobVars, countVars>>

CtlStep(c) ==
    \/ CtlSettings(c) \/ CtlReconnectAll(c) \/ CtlReconnectMask(c)
    \/ CtlReconnectNext(c) \/ CtlClose(c)
    \/ CtlPause(c) \/ CtlResume(c) \/ CtlQuiesceLock(c) \/ CtlQuiesceClear(c) \/ CtlResumed(c)

-----------------------------------------------------------------------------
(* job_task: receive what is queued, then dispatch one job.                *)

JobGoto(label) == jpc' = label
NothingHeld == [p \in Pools |-> None]

\* Mutant: the epoch is noted, the work of the old one kept.
SyncEpochOnly == curEpoch' = workEpoch /\ UNCHANGED held

\* job_task_sync_epoch and job_task_clear_all.
SyncEpoch ==
    IF workEpoch # curEpoch THEN held' = NothingHeld /\ curEpoch' = workEpoch
                            ELSE UNCHANGED <<held, curEpoch>>

JobReceive ==
    /\ jpc = "recv" /\ queue # <<>>
    /\ incoming' = Head(queue)
    /\ queue' = Tail(queue)
    /\ JobGoto("sync")
    /\ UNCHANGED <<multi, epochVars, lock, paused, sess, stateMask, chipVars, taskVars,
                   rxVars, held, curEpoch, job, countVars>>

JobSync ==
    /\ jpc = "sync"
    /\ SyncEpoch
    /\ JobGoto("apply")
    /\ UNCHANGED <<multi, epochVars, queue, lock, paused, sess, stateMask, chipVars,
                   taskVars, rxVars, incoming, job, countVars>>

\* job_task_apply_incoming after its sync.  A marker clears whatever is held
\* when it arrives, however old the reset that left it.
JobApply ==
    /\ jpc = "apply"
    /\ CASE incoming.kind = "all" ->
                held' = NothingHeld /\ curEpoch' = workEpoch
         [] incoming.kind = "pool" ->
                /\ held' = [held EXCEPT ![incoming.pool] = None]
                /\ UNCHANGED curEpoch
         [] OTHER ->
                /\ held' = IF /\ incoming.epoch = curEpoch
                              /\ incoming.poolEpoch = poolEpoch[incoming.pool]
                           THEN [held EXCEPT ![incoming.pool] = incoming]
                           ELSE held
                /\ UNCHANGED curEpoch
    /\ incoming' = None
    /\ JobGoto("recv")
    /\ UNCHANGED <<multi, epochVars, queue, lock, paused, sess, stateMask, chipVars,
                   taskVars, rxVars, job, countVars>>

\* The queue is empty, at once or until the timeout.
JobQueueEmpty ==
    /\ jpc = "recv" /\ queue = <<>>
    /\ SyncEpoch
    /\ JobGoto("select")
    /\ UNCHANGED <<multi, epochVars, queue, lock, paused, sess, stateMask, chipVars,
                   taskVars, rxVars, incoming, job, countVars>>

\* job_pool_ready.
Ready(p) ==
    /\ held[p] # None /\ held[p].poolEpoch = poolEpoch[p]
    /\ Configured(p) /\ sess[p].connected /\ ~sess[p].disabled

\* The scheduler picks a ready pool; generate_and_send_work's first checks
\* come without the lock, and ensure_asic_version_mask stores the job's mask
\* unless that is the one it last gave the chip.
JobSelect(p) ==
    /\ jpc = "select" /\ ~paused /\ Ready(p)
    /\ IF curEpoch = workEpoch
       THEN /\ job' = held[p] /\ JobGoto("built")
            /\ stateMask' \in {stateMask, held[p].par.mask}
       ELSE JobGoto("recv") /\ UNCHANGED <<job, stateMask>>
    /\ UNCHANGED <<multi, epochVars, queue, lock, paused, sess, chipVars, taskVars,
                   rxVars, held, curEpoch, incoming, countVars>>

JobNothingToSend ==
    /\ jpc = "select" /\ (paused \/ \A p \in Pools : ~Ready(p))
    /\ JobGoto("recv")
    /\ UNCHANGED <<multi, epochVars, queue, lock, paused, sess, stateMask, chipVars,
                   taskVars, rxVars, held, curEpoch, incoming, job, countVars>>

JobLock ==
    /\ jpc = "built" /\ lock = Free
    /\ lock' = JobTask
    /\ JobGoto("locked")
    /\ UNCHANGED <<multi, epochVars, queue, paused, sess, stateMask, chipVars, taskVars,
                   rxVars, held, curEpoch, incoming, job, countVars>>

\* Mutants: the checks made before the lock are relied on.
MaySendUnlessPaused == ~paused
MaySendEvenPaused == curEpoch = workEpoch /\ job.poolEpoch = poolEpoch[job.pool]

\* The checks of generate_and_send_work under the lock.
MaySend == curEpoch = workEpoch /\ job.poolEpoch = poolEpoch[job.pool] /\ ~paused
JobRecheck ==
    /\ jpc = "locked"
    /\ IF MaySend
       THEN JobGoto("send") /\ UNCHANGED <<lock, job>>
       ELSE lock' = Free /\ job' = None /\ JobGoto("recv")
    /\ UNCHANGED <<multi, epochVars, queue, paused, sess, stateMask, chipVars, taskVars,
                   rxVars, held, curEpoch, incoming, countVars>>

\* BM1370_send_work: the next slot's job is replaced; then the lock goes.
JobSend ==
    /\ jpc = "send"
    /\ slots' = [slots EXCEPT ![slot] = job]
    /\ slot' = (slot + 1) % NSlots
    /\ job' = None
    /\ lock' = Free
    /\ JobGoto("recv")
    /\ UNCHANGED <<multi, epochVars, queue, paused, sess, stateMask, taskVars, rxVars,
                   held, curEpoch, incoming, countVars>>

JobStep ==
    \/ JobReceive \/ JobSync \/ JobApply \/ JobQueueEmpty
    \/ (\E p \in Pools : JobSelect(p))
    \/ JobNothingToSend \/ JobLock \/ JobRecheck \/ JobSend

-----------------------------------------------------------------------------
Next ==
    \/ \E t \in Tasks : ResetStep(t) \/ RotateStep(t)
    \/ \E p \in Pools : RxStep(p)
    \/ \E c \in Controls : CtlStep(c)
    \/ JobStep

Spec == Init /\ [][Next]_vars

\* Fairness.  A running task keeps running: its next step is not put off for
\* ever.  FreeRTOS wakes the waiting task of highest priority when a mutex is
\* given, and job_task, which takes the reset lock most often, waits an interval
\* on the queue between two jobs: whoever waits for the lock gets it.  A receive
\* task whose transport was closed finds out at its next read.  Nothing makes a
\* pool send, a link fail or an operator act.
EnqStep(p) == \/ EnqEpoch(p) \/ EnqSession(p) \/ EnqSend(p) \/ RxStoreExtranonce(p)
              \/ pc[p] = "closeSelf" /\ RxCloseSelf(p)
CtlContinue(c) == pc[c] # "idle" /\ CtlStep(c)

Fairness ==
    /\ \A t \in Tasks : /\ WF_vars(ResetStep(t) \/ RotateStep(t))
                        /\ SF_vars(Bump(t))
    /\ \A p \in Pools : /\ WF_vars(EnqStep(p))
                        /\ WF_vars(sess[p].closing /\ RxLinkLost(p))
    /\ \A c \in Controls : WF_vars(CtlContinue(c)) /\ SF_vars(CtlQuiesceLock(c))
    /\ WF_vars(JobStep) /\ SF_vars(JobLock)

LiveSpec == Spec /\ Fairness

-----------------------------------------------------------------------------
(* Properties.                                                             *)

Labels == {"idle", "bump", "bumpPools", "drain", "clear", "mark", "count", "rotate",
           "rotatePut", "full", "seek", "seekPut", "pass", "passPut", "resend",
           "dialled", "setup", "online", "setXn", "closeSelf", "enqueue", "enqPool", "send",
           "reconnect", "reconnectNext", "close", "closeAll", "tune", "quiesce", "quiesceClear", "resume"}
JobLabels == {"recv", "sync", "apply", "select", "built", "locked", "send"}

TypeShared ==
    /\ multi \in BOOLEAN /\ paused \in BOOLEAN
    /\ workEpoch \in Nat /\ poolEpoch \in [Pools -> Nat]
    /\ queue \in Seq(Item)
    /\ lock \in Tasks \cup {JobTask, Free}
    /\ sess \in [Pools -> Session] /\ stateMask \in Masks
    /\ slots \in [Slots -> Item \cup {None}] /\ slot \in Slots
    /\ msgs \in Nat /\ ops \in Nat

TypeTasks ==
    /\ pc \in [Tasks -> Labels] /\ after \in [Tasks -> Labels]
    /\ scope \in [Tasks -> Pools \cup {All}]
    /\ cursor \in [Tasks -> Nat]
    /\ hand \in [Tasks -> Item \cup {None}]
    /\ draft \in [Pools -> Item \cup {None}]
    /\ newXn \in [Pools -> Extranonces \cup {None}]
    /\ todo \in [Controls -> SUBSET Pools]

TypeJob ==
    /\ jpc \in JobLabels
    /\ held \in [Pools -> Item \cup {None}] /\ curEpoch \in Nat
    /\ incoming \in Item \cup {None} /\ job \in Item \cup {None}

\* Where a reset or a quiescing may return to, where it is under way, and where
\* an item is out of the queue or a draft is not yet in it.
Returns == {"idle", "dialled", "online", "setXn", "closeSelf", "enqueue", "close",
            "closeAll", "tune", "resume"}
Away == {"bump", "bumpPools", "drain", "clear", "mark", "count", "rotate", "rotatePut",
         "quiesce", "quiesceClear"}
Putting == {"rotatePut", "seekPut", "passPut"}
Drafting == {"enqPool", "send", "full", "seek", "seekPut", "pass", "passPut", "resend"}

HandHeld == \A t \in Tasks : pc[t] \in Putting => hand[t] \in Item /\ cursor[t] > 0
ReturnKnown == \A t \in Tasks : /\ after[t] \in Returns
                                /\ pc[t] \notin Away => after[t] = "idle"
DraftHeld == \A p \in Pools : pc[p] \in Drafting => draft[p] \in Item
XnHeld == \A p \in Pools : /\ "setXn" \in {pc[p], after[p]} => newXn[p] \in Extranonces
                           /\ sess[p].ready => sess[p].par.xn \in Extranonces
JobHeld == /\ jpc \in {"sync", "apply"} => incoming \in Item
           /\ jpc \in {"built", "locked", "send"} => job \in Item
InHand == HandHeld /\ ReturnKnown /\ DraftHeld /\ XnHeld /\ JobHeld

\* Every variable holds a value the program can give it, and a task that is
\* about to use what it took, built or was told does have it.
TypeOK == TypeShared /\ TypeTasks /\ TypeJob /\ InHand

JobsOnChip == {slots[s] : s \in Slots} \ {None}

\* Whenever no task is in the middle of superseding work, every job in the
\* ASIC's table belongs to the present epochs: a nonce can be attributed to
\* stale work only while a reset is under way.
NoStaleJob == lock = Free => \A w \in JobsOnChip : Current(w)

PausePending ==
    \E c \in Controls : pc[c] \in {"quiesce", "quiesceClear"} /\ after[c] # "resume"

\* Once every pause_work call has returned and none was resumed, the table is
\* empty and no job is on its way into it: the frequency or the power may change.
PausedIsQuiet ==
    paused /\ ~PausePending => JobsOnChip = {} /\ jpc # "send"

\* Why the two hold: the tasks that hold the reset lock are the ones that are
\* where the code holds it; a job that lost its epoch is one the holder is about
\* to take away; the job task's work and its job are of the epoch it has seen,
\* and past the recheck its job stays current.
Reclaiming == {"bumpPools", "drain", "count", "rotate", "rotatePut", "clear"}
Holding == Reclaiming \cup {"mark", "quiesceClear"}
Reclaimed(w) == \E t \in Tasks : pc[t] \in Reclaiming /\ Superseded(t, w)
LockOwner == /\ \A t \in Tasks : pc[t] \in Holding <=> lock = t
             /\ jpc \in {"locked", "send"} <=> lock = JobTask
FullReset == \A t \in Tasks : pc[t] = "bumpPools" => scope[t] = All
JobFresh == \A s \in Slots : slots[s] # None =>
                Current(slots[s]) \/ Reclaimed(slots[s])
OfEpoch == /\ \A p \in Pools : held[p] # None => held[p].epoch = curEpoch
           /\ jpc \in {"built", "locked", "send"} => job.epoch = curEpoch
SendCurrent == jpc = "send" => Current(job)

\* No step of any task between taking the lock and giving it back lets a job
\* onto the chip that the lock's holder would not know of.
SafeDispatch ==
    LockOwner /\ FullReset /\ JobFresh /\ OfEpoch /\ SendCurrent /\ PausedIsQuiet

\* The session a job was built for still has the parameters it was built from:
\* the pool will recognise a share found with it and it meets the difficulty.
BuiltForSession(w) ==
    LET s == sess[w.pool] IN
    /\ s.connected /\ s.ready /\ ~s.disabled
    /\ w.par.xn = s.par.xn /\ w.par.diff >= s.par.diff
    /\ s.par.mask \in {None, w.par.mask}

\* A job of the present epochs matches its pool's session, unless the pool's
\* own task has just changed the session and is waiting for the reset lock.
JobsMatchSession ==
    \A w \in JobsOnChip :
        Current(w) => BuiltForSession(w) \/ pc[w.pool] = "bump"

\* A task that has noticed stale work gets to supersede it, and returns from the
\* reset with the lock given back: no order of resets, sends and quiescing
\* leaves anyone waiting for the lock for ever.
Superseding(t) == pc[t] \in {"bump", "bumpPools", "drain", "clear", "mark", "count",
                             "rotate", "rotatePut"}
ResetsComplete ==
    \A t \in Tasks : pc[t] = "bump" ~> ~Superseding(t)

-----------------------------------------------------------------------------
(* What the pipeline implements.  A pool's era is the pair of its epochs,  *)
(* so it changes at the first bump; a job counts until a reset that will   *)
(* take it away holds the lock; and mining is quiet once the flag is set,  *)
(* the table empty and no job past the check of the flag.                  *)

PresentEras == [p \in Pools |-> <<workEpoch, poolEpoch[p]>>]
Counting(w) == w # None /\ ~Reclaimed(w)
CountingOrders ==
    [s \in Slots |-> IF Counting(slots[s])
                     THEN [pool |-> slots[s].pool,
                           era |-> <<slots[s].epoch, slots[s].poolEpoch>>]
                     ELSE None]
IsQuiet == paused /\ JobsOnChip = {} /\ jpc # "send"

Orders == INSTANCE WorkOrders WITH
    Eras <- Nat \X Nat, era <- PresentEras, chip <- CountingOrders,
    asked <- paused, quiet <- IsQuiet

\* Every interleaving of the tasks is one in which work is superseded at one
\* instant and only present work is ever dispatched, never to a quiet miner.
ImplementsOrders == Orders!OSpec

=============================================================================
