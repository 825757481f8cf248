----------------------------- MODULE ShareLedger -----------------------------
(***************************************************************************)
(* From a nonce to a counted answer (src/main/stratum_minimal.c).          *)
(*                                                                         *)
(* result_task writes a share on the transport of its pool, and only then  *)
(* notes its request id in a ring; the receive task of the pool finds the  *)
(* id there when the answer arrives and counts it.  A second ring notes    *)
(* when each request was sent.  The receive task owns the transport: it    *)
(* connects it, takes it out of the session and destroys it, while         *)
(* result_task may be writing on it.                                       *)
(*                                                                         *)
(* Pools answer, in any order, requests they received on the connection    *)
(* the answer arrives on, each at most once.  The time a request was sent  *)
(* is abstracted to the connection it was sent on; the sums over all pools  *)
(* (g_submitted, g_accepted, g_rejected) are left out.                     *)
(***************************************************************************)
EXTENDS Integers, Sequences, FiniteSets

CONSTANTS
    Pools,          \* pool ids; 0 is STRATUM_PRIMARY_POOL_ID
    Setups,         \* ids 1..Setups are the setup requests' (code: 5)
    ShareSlots,     \* SHARE_ID_SLOTS (code: 16)
    ResponseSlots,  \* RESPONSE_ID_SLOTS (code: 16)
    MaxShares,      \* bound: shares found
    MaxConnections  \* bound: connections made

ASSUME LedgerAssumption ==
    /\ 0 \in Pools /\ Pools \subseteq Nat
    /\ Setups \in Nat \ {0} /\ ShareSlots \in Nat \ {0} /\ ResponseSlots \in Nat \ {0}
    /\ MaxShares \in Nat /\ MaxConnections \in Nat

VARIABLES
    locked,       \* result_task holds g_transport_lock across a write
    session,      \* g_pool_sessions[p].transport: its connection, 0 if NULL
    link,         \* the transport that exists, in or out of the session, or 0
    connections,  \* connections made so far
    unanswered,   \* requests a pool received on its link and did not answer
    nextId,       \* g_next_uid
    shareIds,     \* g_pending_share_ids, g_pending_share_pool_ids
    noted,        \* the share ids ever noted, in order (g_pending_share_id_next)
    responses,    \* g_pending_response_ids and its companions
    responseNext, \* g_pending_response_id_next
    measured,     \* g_pool_response_time_ms: where its request was sent, or 0
    submitted,    \* g_pool_submitted
    answered,     \* g_pool_accepted, g_pool_rejected
    rx,           \* where each receive task is, and the answer it handles
    res           \* where result_task is, and its share

ringVars == <<shareIds, noted, responses, responseNext>>
countVars == <<submitted, answered>>
linkVars == <<session, link, connections>>
vars == <<locked, linkVars, unanswered, nextId, ringVars, measured, countVars,
          rx, res>>

Answers == {"accepted", "rejected"}
NoId == [id |-> 0, pool |-> 0]
NoRequest == [id |-> 0, pool |-> 0, sent |-> 0]
IsShare(id) == id > Setups

RxAt(p, label) == rx' = [rx EXCEPT ![p].pc = label]
ResAt(label) == res' = [res EXCEPT !.pc = label]

\* A task between two answers, or two nonces, has no locals that matter.
RxWaiting(label) == [pc |-> label, id |-> 0, answer |-> "accepted", credit |-> 0]
ResWaiting == [pc |-> "idle", id |-> 0, pool |-> 0, sent |-> 0]
RxDone(p) == rx' = [rx EXCEPT ![p] = RxWaiting("loop")]
ResDone == res' = ResWaiting

Init ==
    /\ locked = FALSE
    /\ session = [p \in Pools |-> 0]
    /\ link = [p \in Pools |-> 0]
    /\ connections = 0
    /\ unanswered = [p \in Pools |-> {}]
    /\ nextId = Setups + 1
    /\ shareIds = [i \in 0..ShareSlots - 1 |-> NoId]
    /\ noted = <<>>
    /\ responses = [i \in 0..ResponseSlots - 1 |-> NoRequest]
    /\ responseNext = 0
    /\ measured = [p \in Pools |-> 0]
    /\ submitted = [p \in Pools |-> 0]
    /\ answered = [p \in Pools |-> [a \in Answers |-> 0]]
    /\ rx = [p \in Pools |-> RxWaiting("down")]
    /\ res = ResWaiting

-----------------------------------------------------------------------------
(* The two rings.  Each operator is one critical section.                   *)

\* Fault: the index moves on between the id and the pool.
NoteShareSkewed(id, p) ==
    /\ shareIds' = [shareIds EXCEPT ![Len(noted) % ShareSlots].id = id,
                                    ![(Len(noted) + 1) % ShareSlots].pool = p]
    /\ noted' = Append(noted, id)

\* mark_share_request
NoteShare(id, p) ==
    /\ shareIds' = [shareIds EXCEPT ![Len(noted) % ShareSlots] =
                                        [id |-> id, pool |-> p]]
    /\ noted' = Append(noted, id)

Pending(id) == {i \in DOMAIN shareIds : shareIds[i].id = id}

\* take_share_request: the id is given up and says whom to credit.
TakeShare(i) == shareIds' = [shareIds EXCEPT ![i] = NoId]

\* mark_response_request, mark_response_request_at
NoteRequest(p, id, connection) ==
    /\ responses' = [responses EXCEPT ![responseNext % ResponseSlots] =
                         [id |-> id, pool |-> p, sent |-> connection]]
    /\ responseNext' = responseNext + 1

\* take_response_request_ms, record_response_time_ms: the first slot that
\* holds the id for this pool.
Matching(p, id) ==
    {i \in DOMAIN responses : responses[i].id = id /\ responses[i].pool = p}

MeasureResponse(p, id) ==
    \/ Matching(p, id) = {} /\ UNCHANGED <<responses, measured>>
    \/ \E i \in Matching(p, id) :
          /\ \A j \in Matching(p, id) : i <= j
          /\ measured' = [measured EXCEPT ![p] = responses[i].sent]
          /\ responses' = [responses EXCEPT ![i] = NoRequest]

-----------------------------------------------------------------------------
(* The receive task of a pool: its connection.                              *)

\* esp_transport_connect and send_setup_messages' write.
RxConnect(p) ==
    /\ rx[p].pc = "down"
    /\ connections < MaxConnections
    /\ connections' = connections + 1
    /\ link' = [link EXCEPT ![p] = connections + 1]
    /\ unanswered' = [unanswered EXCEPT ![p] = 1..Setups]
    /\ rx' = [rx EXCEPT ![p].pc = "setup", ![p].id = 1]
    /\ UNCHANGED <<locked, session, nextId, ringVars, measured, countVars, res>>

\* send_setup_messages: its requests are noted one after the other.
RxNoteSetup(p) ==
    /\ rx[p].pc = "setup"
    /\ NoteRequest(p, rx[p].id, link[p])
    /\ rx' = [rx EXCEPT ![p].id = @ + 1,
                        ![p].pc = IF rx[p].id = Setups THEN "attach" ELSE @]
    /\ UNCHANGED <<locked, linkVars, unanswered, nextId, shareIds, noted, measured,
                   countVars, res>>

\* Fault: a new connection forgets all pending shares, other pools' too.
RxAttachForget(p) ==
    /\ rx[p].pc = "attach"
    /\ ~locked
    /\ session' = [session EXCEPT ![p] = link[p]]
    /\ measured' = [measured EXCEPT ![p] = 0]
    /\ shareIds' = [i \in DOMAIN shareIds |-> NoId]
    /\ RxDone(p)
    /\ UNCHANGED <<locked, link, connections, unanswered, nextId, noted, responses,
                   responseNext, countVars, res>>

\* set_session_transport, set_session_connected, the gauge's reset.
RxAttach(p) ==
    /\ rx[p].pc = "attach"
    /\ ~locked
    /\ session' = [session EXCEPT ![p] = link[p]]
    /\ measured' = [measured EXCEPT ![p] = 0]
    /\ RxDone(p)
    /\ UNCHANGED <<locked, link, connections, unanswered, nextId, ringVars,
                   countVars, res>>

\* Fault: the transport leaves the session without the lock.
RxDetachUnlocked(p) ==
    /\ rx[p].pc = "loop"
    /\ session' = [session EXCEPT ![p] = 0]
    /\ RxAt(p, "destroy")
    /\ UNCHANGED <<locked, link, connections, unanswered, nextId, ringVars, measured,
                   countVars, res>>

\* The link is lost, a setting changed, or the primary endpoint is back: the
\* transport leaves the session under g_transport_lock.
RxDetach(p) ==
    /\ rx[p].pc = "loop"
    /\ ~locked
    /\ session' = [session EXCEPT ![p] = 0]
    /\ RxAt(p, "destroy")
    /\ UNCHANGED <<locked, link, connections, unanswered, nextId, ringVars, measured,
                   countVars, res>>

\* set_session_disconnected, esp_transport_destroy
RxDestroy(p) ==
    /\ rx[p].pc = "destroy"
    /\ link' = [link EXCEPT ![p] = 0]
    /\ unanswered' = [unanswered EXCEPT ![p] = {}]
    /\ measured' = [measured EXCEPT ![p] = 0]
    /\ RxAt(p, "down")
    /\ UNCHANGED <<locked, session, connections, nextId, ringVars, countVars, res>>

-----------------------------------------------------------------------------
(* The receive task of a pool: an answer.                                   *)

\* handle_stratum_line: the fast path is for the ids of shares.
RxReceive(p) ==
    /\ rx[p].pc = "loop"
    /\ \E id \in unanswered[p], answer \in Answers :
          /\ unanswered' = [unanswered EXCEPT ![p] = @ \ {id}]
          /\ rx' = [rx EXCEPT ![p] = [pc |-> IF IsShare(id) THEN "fast" ELSE "slow",
                                      id |-> id, answer |-> answer, credit |-> 0]]
    /\ UNCHANGED <<locked, linkVars, nextId, ringVars, measured, countVars, res>>

\* fast_handle_share_response: take_share_request, or fall back.
RxFast(p) ==
    /\ rx[p].pc = "fast"
    /\ \/ \E i \in Pending(rx[p].id) :
             /\ TakeShare(i)
             /\ rx' = [rx EXCEPT ![p].pc = "time", ![p].credit = shareIds[i].pool]
       \/ /\ Pending(rx[p].id) = {}
          /\ RxAt(p, "slow")
          /\ UNCHANGED shareIds
    /\ UNCHANGED <<locked, linkVars, unanswered, nextId, noted, responses,
                   responseNext, measured, countVars, res>>

\* Either path: the response time.  After it the fast path counts, the slow
\* path is done with a setup answer and looks for the share otherwise.
RxTime(p) ==
    /\ rx[p].pc \in {"time", "slow"}
    /\ MeasureResponse(p, rx[p].id)
    /\ \/ rx[p].pc = "time" /\ RxAt(p, "count")
       \/ rx[p].pc = "slow" /\ IsShare(rx[p].id) /\ RxAt(p, "take")
       \/ rx[p].pc = "slow" /\ ~IsShare(rx[p].id) /\ RxDone(p)
    /\ UNCHANGED <<locked, linkVars, unanswered, nextId, shareIds, noted,
                   responseNext, countVars, res>>

\* handle_response: take_share_request, or "setup response".
RxTake(p) ==
    /\ rx[p].pc = "take"
    /\ \/ \E i \in Pending(rx[p].id) :
             /\ TakeShare(i)
             /\ rx' = [rx EXCEPT ![p].pc = "count", ![p].credit = shareIds[i].pool]
       \/ /\ Pending(rx[p].id) = {}
          /\ RxDone(p)
          /\ UNCHANGED shareIds
    /\ UNCHANGED <<locked, linkVars, unanswered, nextId, noted, responses,
                   responseNext, measured, countVars, res>>

\* g_pool_accepted or g_pool_rejected
RxCount(p) ==
    /\ rx[p].pc = "count"
    /\ answered' = [answered EXCEPT ![rx[p].credit][rx[p].answer] = @ + 1]
    /\ RxDone(p)
    /\ UNCHANGED <<locked, linkVars, unanswered, nextId, ringVars, measured,
                   submitted, res>>

RxStep(p) ==
    \/ RxConnect(p) \/ RxNoteSetup(p) \/ RxAttach(p) \/ RxDetach(p) \/ RxDestroy(p)
    \/ RxReceive(p) \/ RxFast(p) \/ RxTime(p) \/ RxTake(p) \/ RxCount(p)

-----------------------------------------------------------------------------
(* result_task                                                              *)

\* A nonce meets the difficulty of a job of pool p; next_uid.
ResFind(p) ==
    /\ res.pc = "idle"
    /\ nextId <= Setups + MaxShares
    /\ res' = [pc |-> "lock", id |-> nextId, pool |-> p, sent |-> 0]
    /\ nextId' = nextId + 1
    /\ UNCHANGED <<locked, linkVars, unanswered, ringVars, measured, countVars, rx>>

\* submit_share_pool_transport: the lock, and the session's transport.
ResLock ==
    /\ res.pc = "lock"
    /\ ~locked
    /\ locked' = (session[res.pool] # 0)
    /\ res' = IF session[res.pool] # 0
                THEN [res EXCEPT !.pc = "write", !.sent = session[res.pool]]
                ELSE ResWaiting
    /\ UNCHANGED <<linkVars, unanswered, nextId, ringVars, measured, countVars, rx>>

\* submit_share: the write fails, or it reports no error; then the share is
\* taken for sent, though a write that timed out may have sent nothing.
ResWrite ==
    /\ res.pc = "write"
    /\ locked' = FALSE
    /\ \/ ResDone /\ UNCHANGED unanswered
       \/ ResAt("note") /\ UNCHANGED unanswered
       \/ /\ ResAt("note")
          /\ unanswered' = [unanswered EXCEPT ![res.pool] = @ \cup {res.id}]
    /\ UNCHANGED <<linkVars, nextId, ringVars, measured, countVars, rx>>

\* mark_share_request
ResNote ==
    /\ res.pc = "note"
    /\ NoteShare(res.id, res.pool)
    /\ ResAt("request")
    /\ UNCHANGED <<locked, linkVars, unanswered, nextId, responses, responseNext,
                   measured, countVars, rx>>

\* mark_response_request
ResRequest ==
    /\ res.pc = "request"
    /\ NoteRequest(res.pool, res.id, res.sent)
    /\ ResAt("count")
    /\ UNCHANGED <<locked, linkVars, unanswered, nextId, shareIds, noted, measured,
                   countVars, rx>>

\* g_pool_submitted
ResCount ==
    /\ res.pc = "count"
    /\ submitted' = [submitted EXCEPT ![res.pool] = @ + 1]
    /\ ResDone
    /\ UNCHANGED <<locked, linkVars, unanswered, nextId, ringVars, measured,
                   answered, rx>>

ResStep ==
    \/ \E p \in Pools : ResFind(p)
    \/ ResLock \/ ResWrite \/ ResNote \/ ResRequest \/ ResCount

Next == ResStep \/ \E p \in Pools : RxStep(p)

Spec == Init /\ [][Next]_vars

-----------------------------------------------------------------------------
(* Properties                                                               *)

ShareIdSpace == Setups + 1..Setups + MaxShares
RxLabels == {"down", "setup", "attach", "loop", "destroy", "fast", "time", "slow",
             "take", "count"}
ResLabels == {"idle", "lock", "write", "note", "request", "count"}

Id == 0..Setups + MaxShares
Connection == 0..MaxConnections
ShareNote == [id : {0} \cup ShareIdSpace, pool : Pools]
RequestNote == [id : Id, pool : Pools, sent : Connection]
Receiving == [pc : RxLabels, id : Id \cup {Setups + 1}, answer : Answers, credit : Pools]
Submitting == [pc : ResLabels, id : {0} \cup ShareIdSpace, pool : Pools,
               sent : Connection]

\* Types; and g_transport_lock is held exactly while a share is written, so
\* that submit_share_pool_transport gives it back on every path.
TypeOK ==
    /\ locked \in BOOLEAN
    /\ locked <=> res.pc = "write"
    /\ session \in [Pools -> Connection]
    /\ link \in [Pools -> Connection]
    /\ connections \in Connection
    /\ unanswered \in [Pools -> SUBSET Id]
    /\ nextId \in Setups + 1..Setups + MaxShares + 1
    /\ shareIds \in [0..ShareSlots - 1 -> ShareNote]
    /\ noted \in Seq(ShareIdSpace)
    /\ responses \in [0..ResponseSlots - 1 -> RequestNote]
    /\ responseNext \in Nat
    /\ measured \in [Pools -> Connection]
    /\ submitted \in [Pools -> Nat]
    /\ answered \in [Pools -> [Answers -> Nat]]
    /\ rx \in [Pools -> Receiving]
    /\ res \in Submitting

\* result_task writes only on a transport that still exists: the receive task
\* takes it out of the session, under the lock, before it destroys it.
WritesOnLiveTransport ==
    res.pc = "write" => res.sent # 0 /\ link[res.pool] = res.sent

\* The answer to a share is lost to the counters in two cases only: it is
\* handled before result_task noted the id of the share, or SHARE_ID_SLOTS
\* shares were noted after it.  Reconnects and the answers of other pools
\* lose none.
NotYetNoted(id) == \A n \in 1..Len(noted) : noted[n] # id
Overwritten(id) ==
    \E n \in 1..Len(noted) : noted[n] = id /\ Len(noted) - n >= ShareSlots

AnswerIsCounted ==
    \A p \in Pools :
        rx[p].pc \in {"fast", "take"} /\ Pending(rx[p].id) = {}
            => NotYetNoted(rx[p].id) \/ Overwritten(rx[p].id)

\* No pool is credited with more answers than it was sent shares, a share the
\* counters of which are still being raised included: an answer is counted
\* once, and for the pool the share went to.
AnswersFollowShares ==
    \A p \in Pools :
        answered[p]["accepted"] + answered[p]["rejected"]
            <= submitted[p]
               + IF res.pc \in {"request", "count"} /\ res.pool = p
                   THEN 1 ELSE 0

=============================================================================
