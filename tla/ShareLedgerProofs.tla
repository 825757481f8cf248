-------------------------- MODULE ShareLedgerProofs --------------------------
(***************************************************************************)
(* ShareLedger keeps its types, writes only on transports that exist,      *)
(* counts the answers its ring remembers, and credits no pool with more    *)
(* answers than shares, for every set of pools, ring size and bound.       *)
(***************************************************************************)
EXTENDS ShareLedger, FiniteSetTheorems, TLAPS

\* What the types of a step depend on: a task past its first step holds an id.
Holds ==
    /\ res.pc # "idle" => res.id \in ShareIdSpace
    /\ \A p \in Pools : rx[p].pc = "setup" => rx[p].id \in 1..Setups

\* A transport in a session is the one its receive task made, and that task is
\* receiving on it; a writer holds the lock and the session's transport.
Attached == {"loop", "fast", "time", "slow", "take", "count"}
Ownership ==
    /\ \A p \in Pools :
          session[p] # 0 => session[p] = link[p] /\ rx[p].pc \in Attached
    /\ res.pc = "write" => res.sent # 0 /\ session[res.pool] = res.sent

LedgerInv == TypeOK /\ Holds /\ Ownership

-----------------------------------------------------------------------------

LEMMA Zeros ==
  /\ 0 \in Pools /\ 0 \in Id /\ 0 \in Connection
  /\ RxWaiting("down") \in Receiving /\ RxWaiting("loop") \in Receiving
  /\ ResWaiting \in Submitting
  /\ NoId \in ShareNote /\ NoRequest \in RequestNote
  /\ 1..Setups \in SUBSET Id /\ ShareIdSpace \subseteq Id
<1>1. 0 \in Pools /\ 0 \in Id /\ 0 \in Connection
  BY LedgerAssumption DEF Id, Connection
<1>2. RxWaiting("down") \in Receiving /\ RxWaiting("loop") \in Receiving
  BY <1>1 DEF RxWaiting, Receiving, RxLabels, Answers
<1>3. ResWaiting \in Submitting BY <1>1 DEF ResWaiting, Submitting, ResLabels
<1>4. NoId \in ShareNote BY <1>1 DEF NoId, ShareNote
<1>5. NoRequest \in RequestNote BY <1>1 DEF NoRequest, RequestNote
<1>6. 1..Setups \in SUBSET Id /\ ShareIdSpace \subseteq Id
  BY LedgerAssumption DEF Id, ShareIdSpace
<1> QED BY <1>1, <1>2, <1>3, <1>4, <1>5, <1>6

LEMMA LedgerInit == Init => LedgerInv
<1> SUFFICES ASSUME Init PROVE LedgerInv OBVIOUS
<1> USE DEF Init
<1>1. noted \in Seq(ShareIdSpace) OBVIOUS
<1>2. nextId \in Setups + 1..Setups + MaxShares + 1 BY LedgerAssumption
<1>3. ~locked /\ res.pc # "write" /\ res.pc = "idle" BY DEF ResWaiting
<1>4. TypeOK BY <1>1, <1>2, <1>3, Zeros DEF TypeOK
<1>5. Holds /\ Ownership BY <1>3 DEF Holds, Ownership, RxWaiting
<1> QED BY <1>4, <1>5 DEF LedgerInv

-----------------------------------------------------------------------------
(* The rings keep their types.                                              *)

LEMMA NoteShareType ==
  ASSUME TypeOK, NEW id \in ShareIdSpace, NEW p \in Pools, NoteShare(id, p)
  PROVE  shareIds' \in [0..ShareSlots - 1 -> ShareNote] /\ noted' \in Seq(ShareIdSpace)
<1>1. [id |-> id, pool |-> p] \in ShareNote BY DEF ShareNote
<1>2. noted' \in Seq(ShareIdSpace)
  <2>1. noted \in Seq(ShareIdSpace) BY DEF TypeOK
  <2> QED BY <2>1 DEF NoteShare
<1>3. shareIds' \in [0..ShareSlots - 1 -> ShareNote]
  <2>1. shareIds \in [0..ShareSlots - 1 -> ShareNote] BY DEF TypeOK
  <2> QED BY <1>1, <2>1 DEF NoteShare
<1> QED BY <1>2, <1>3

LEMMA TakeShareType ==
  ASSUME TypeOK, NEW i \in DOMAIN shareIds, TakeShare(i)
  PROVE  shareIds' \in [0..ShareSlots - 1 -> ShareNote] /\ shareIds[i].pool \in Pools
<1>1. shareIds \in [0..ShareSlots - 1 -> ShareNote] BY DEF TypeOK
<1>2. shareIds[i] \in ShareNote BY <1>1
<1>3. shareIds[i].pool \in Pools BY <1>2 DEF ShareNote
<1>4. shareIds' \in [0..ShareSlots - 1 -> ShareNote] BY <1>1, Zeros DEF TakeShare
<1> QED BY <1>3, <1>4

LEMMA NoteRequestType ==
  ASSUME TypeOK, NEW p \in Pools, NEW id \in Id, NEW c \in Connection,
         NoteRequest(p, id, c)
  PROVE  responses' \in [0..ResponseSlots - 1 -> RequestNote] /\ responseNext' \in Nat
<1>1. [id |-> id, pool |-> p, sent |-> c] \in RequestNote BY DEF RequestNote
<1>2. responses \in [0..ResponseSlots - 1 -> RequestNote] /\ responseNext \in Nat
  BY DEF TypeOK
<1>3. responseNext' \in Nat BY <1>2 DEF NoteRequest
<1>4. responses' \in [0..ResponseSlots - 1 -> RequestNote]
  BY <1>1, <1>2 DEF NoteRequest
<1> QED BY <1>3, <1>4

LEMMA MeasureResponseType ==
  ASSUME TypeOK, NEW p \in Pools, NEW id, MeasureResponse(p, id)
  PROVE  /\ responses' \in [0..ResponseSlots - 1 -> RequestNote]
         /\ measured' \in [Pools -> Connection]
<1>1. responses \in [0..ResponseSlots - 1 -> RequestNote]
      /\ measured \in [Pools -> Connection]
  BY DEF TypeOK
<1>2. CASE UNCHANGED <<responses, measured>> BY <1>1, <1>2
<1>3. ASSUME NEW i \in Matching(p, id),
             measured' = [measured EXCEPT ![p] = responses[i].sent],
             responses' = [responses EXCEPT ![i] = NoRequest]
      PROVE  /\ responses' \in [0..ResponseSlots - 1 -> RequestNote]
             /\ measured' \in [Pools -> Connection]
  <2>1. responses[i] \in RequestNote BY <1>1 DEF Matching
  <2>2. responses[i].sent \in Connection BY <2>1 DEF RequestNote
  <2> QED BY <1>1, <1>3, <2>2, Zeros
<1> QED BY <1>2, <1>3 DEF MeasureResponse

-----------------------------------------------------------------------------
(* The receive tasks.                                                       *)

LEMMA RxType ==
  ASSUME TypeOK, NEW p \in Pools, NEW label \in RxLabels,
         \/ RxAt(p, label)
         \/ label = "loop" /\ RxDone(p)
         \/ \E c \in Pools : rx' = [rx EXCEPT ![p].pc = label, ![p].credit = c]
  PROVE  /\ rx' \in [Pools -> Receiving]
         /\ \A q \in Pools \ {p} : rx'[q] = rx[q]
         /\ rx'[p].pc = label
<1>1. rx \in [Pools -> Receiving] BY DEF TypeOK
<1>2. CASE RxAt(p, label)
  BY <1>1, <1>2 DEF RxAt, Receiving
<1>3. CASE label = "loop" /\ RxDone(p)
  <2>1. RxWaiting("loop").pc = "loop" BY DEF RxWaiting
  <2> QED BY <1>1, <1>3, <2>1, Zeros DEF RxDone
<1>4. CASE \E c \in Pools : rx' = [rx EXCEPT ![p].pc = label, ![p].credit = c]
  <2>1. PICK c \in Pools : rx' = [rx EXCEPT ![p].pc = label, ![p].credit = c]
    BY <1>4
  <2>2. rx' = [rx EXCEPT ![p] = [[rx[p] EXCEPT !.pc = label] EXCEPT !.credit = c]]
    BY <1>1, <2>1
  <2>3. rx[p] \in Receiving BY <1>1
  <2>4. [[rx[p] EXCEPT !.pc = label] EXCEPT !.credit = c] \in Receiving
        /\ [[rx[p] EXCEPT !.pc = label] EXCEPT !.credit = c].pc = label
    BY <2>3 DEF Receiving
  <2> QED BY <1>1, <2>2, <2>4
<1> QED BY <1>2, <1>3, <1>4

\* A step of receive task p that leaves sessions and transports alone.
LEMMA RxKeeps ==
  ASSUME TypeOK, Holds, Ownership, NEW p \in Pools,
         UNCHANGED <<session, link, res>>,
         \A q \in Pools \ {p} : rx'[q] = rx[q],
         rx'[p].pc # "setup", rx[p].pc \in Attached => rx'[p].pc \in Attached
  PROVE  Holds' /\ Ownership'
BY DEF Holds, Ownership

LEMMA RxLinkSteps ==
  ASSUME LedgerInv, NEW p \in Pools,
         RxConnect(p) \/ RxNoteSetup(p) \/ RxAttach(p) \/ RxDetach(p) \/ RxDestroy(p)
  PROVE  LedgerInv'
<1> USE DEF LedgerInv
<1>1. CASE RxConnect(p)
  <2>1. connections + 1 \in Connection
    <3>1. connections \in 0..MaxConnections BY DEF TypeOK, Connection
    <3>2. connections < MaxConnections BY <1>1 DEF RxConnect
    <3> QED BY <3>1, <3>2, LedgerAssumption DEF Connection
  <2>2. 1 \in Id /\ 1 \in 1..Setups BY LedgerAssumption DEF Id
  <2>3. rx' \in [Pools -> Receiving] /\ rx'[p].pc = "setup" /\ rx'[p].id = 1
        /\ \A q \in Pools \ {p} : rx'[q] = rx[q]
    BY <1>1, <2>2 DEF RxConnect, TypeOK, RxLabels, Receiving
  <2>4. unanswered' \in [Pools -> SUBSET Id]
    BY <1>1, Zeros DEF RxConnect, TypeOK
  <2>5. link' \in [Pools -> Connection] BY <1>1, <2>1 DEF RxConnect, TypeOK
  <2>6. TypeOK'
    BY <1>1, <2>1, <2>3, <2>4, <2>5 DEF RxConnect, TypeOK, ringVars, countVars
  <2>7. Holds' BY <1>1, <2>2, <2>3 DEF RxConnect, Holds
  <2>8. session[p] = 0 BY <1>1 DEF RxConnect, Ownership, Attached
  <2>9. \A q \in Pools \ {p} : link'[q] = link[q] BY <1>1 DEF RxConnect, TypeOK
  <2>10. Ownership'
    BY <1>1, <2>3, <2>8, <2>9 DEF RxConnect, Ownership
  <2> QED BY <2>6, <2>7, <2>10
<1>2. CASE RxNoteSetup(p)
  <2>1. rx[p].id \in 1..Setups BY <1>2 DEF RxNoteSetup, Holds
  <2>2. rx[p].id \in Id /\ rx[p].id + 1 \in Id \cup {Setups + 1}
    BY <2>1, LedgerAssumption DEF Id
  <2>3. link[p] \in Connection BY DEF TypeOK
  <2>4. responses' \in [0..ResponseSlots - 1 -> RequestNote] /\ responseNext' \in Nat
    BY <1>2, <2>2, <2>3, NoteRequestType DEF RxNoteSetup
  <2>5. /\ rx' \in [Pools -> Receiving]
        /\ \A q \in Pools \ {p} : rx'[q] = rx[q]
        /\ rx'[p].id = rx[p].id + 1
        /\ rx'[p].pc = IF rx[p].id = Setups THEN "attach" ELSE "setup"
    <3> DEFINE label == IF rx[p].id = Setups THEN "attach" ELSE "setup"
               next == [[rx[p] EXCEPT !.id = @ + 1] EXCEPT !.pc = label]
    <3>1. rx \in [Pools -> Receiving] BY DEF TypeOK
    <3>2. rx[p].pc = "setup" BY <1>2 DEF RxNoteSetup
    <3>3. rx' = [rx EXCEPT ![p] = next] BY <1>2, <3>1, <3>2 DEF RxNoteSetup
    <3>4. label \in RxLabels BY DEF RxLabels
    <3>5. rx[p] \in Receiving BY <3>1
    <3> HIDE DEF label
    <3>6. next \in Receiving /\ next.pc = label /\ next.id = rx[p].id + 1
      BY <2>2, <3>4, <3>5 DEF Receiving
    <3> HIDE DEF next
    <3>7. rx' \in [Pools -> Receiving] /\ rx'[p] = next
          /\ \A q \in Pools \ {p} : rx'[q] = rx[q]
      BY <3>1, <3>3, <3>6
    <3> QED BY <3>6, <3>7 DEF label
  <2>6. TypeOK'
    BY <1>2, <2>4, <2>5 DEF RxNoteSetup, TypeOK, linkVars, countVars
  <2>7. Holds' BY <1>2, <2>1, <2>5, LedgerAssumption DEF RxNoteSetup, Holds
  <2>8. Ownership'
    BY <1>2, <2>5 DEF RxNoteSetup, Ownership, Attached, linkVars
  <2> QED BY <2>6, <2>7, <2>8
<1>3. CASE RxAttach(p)
  <2>1. /\ rx' \in [Pools -> Receiving] /\ rx'[p].pc = "loop"
        /\ \A q \in Pools \ {p} : rx'[q] = rx[q]
    BY <1>3, RxType DEF RxAttach, RxLabels
  <2>2. session' \in [Pools -> Connection] /\ measured' \in [Pools -> Connection]
    BY <1>3, Zeros DEF RxAttach, TypeOK
  <2>3. TypeOK'
    BY <1>3, <2>1, <2>2 DEF RxAttach, TypeOK, ringVars, countVars
  <2>4. Holds' BY <1>3, <2>1 DEF RxAttach, Holds
  <2>5. Ownership'
    BY <1>3, <2>1 DEF RxAttach, Ownership, TypeOK, Attached
  <2> QED BY <2>3, <2>4, <2>5
<1>4. CASE RxDetach(p)
  <2>1. /\ rx' \in [Pools -> Receiving] /\ rx'[p].pc = "destroy"
        /\ \A q \in Pools \ {p} : rx'[q] = rx[q]
    BY <1>4, RxType DEF RxDetach, RxLabels
  <2>2. session' \in [Pools -> Connection]
    BY <1>4, Zeros DEF RxDetach, TypeOK
  <2>3. TypeOK'
    BY <1>4, <2>1, <2>2 DEF RxDetach, TypeOK, ringVars, countVars
  <2>4. Holds' BY <1>4, <2>1 DEF RxDetach, Holds
  <2>5. Ownership'
    BY <1>4, <2>1 DEF RxDetach, Ownership, TypeOK, Attached
  <2> QED BY <2>3, <2>4, <2>5
<1>5. CASE RxDestroy(p)
  <2>1. /\ rx' \in [Pools -> Receiving] /\ rx'[p].pc = "down"
        /\ \A q \in Pools \ {p} : rx'[q] = rx[q]
    BY <1>5, RxType DEF RxDestroy, RxLabels
  <2>2. /\ link' \in [Pools -> Connection] /\ measured' \in [Pools -> Connection]
        /\ unanswered' \in [Pools -> SUBSET Id]
    BY <1>5, Zeros DEF RxDestroy, TypeOK
  <2>3. TypeOK'
    BY <1>5, <2>1, <2>2 DEF RxDestroy, TypeOK, ringVars, countVars
  <2>4. Holds' BY <1>5, <2>1 DEF RxDestroy, Holds
  <2>5. session[p] = 0 BY <1>5 DEF RxDestroy, Ownership, Attached
  <2>6. \A q \in Pools \ {p} : link'[q] = link[q] BY <1>5 DEF RxDestroy, TypeOK
  <2>7. Ownership' BY <1>5, <2>1, <2>5, <2>6 DEF RxDestroy, Ownership
  <2> QED BY <2>3, <2>4, <2>7
<1> QED BY <1>1, <1>2, <1>3, <1>4, <1>5

LEMMA RxAnswerSteps ==
  ASSUME LedgerInv, NEW p \in Pools,
         RxReceive(p) \/ RxFast(p) \/ RxTime(p) \/ RxTake(p) \/ RxCount(p)
  PROVE  LedgerInv'
<1> USE DEF LedgerInv
<1>1. CASE RxReceive(p)
  <2>1. PICK id \in unanswered[p], answer \in Answers :
          /\ unanswered' = [unanswered EXCEPT ![p] = @ \ {id}]
          /\ rx' = [rx EXCEPT ![p] = [pc |-> IF IsShare(id) THEN "fast" ELSE "slow",
                                      id |-> id, answer |-> answer, credit |-> 0]]
    BY <1>1 DEF RxReceive
  <2>2. id \in Id BY DEF TypeOK
  <2>3. [pc |-> IF IsShare(id) THEN "fast" ELSE "slow", id |-> id, answer |-> answer,
         credit |-> 0] \in Receiving
    BY <2>2, Zeros DEF Receiving, RxLabels
  <2>4. /\ rx' \in [Pools -> Receiving] /\ rx'[p].pc \in {"fast", "slow"}
        /\ \A q \in Pools \ {p} : rx'[q] = rx[q]
    BY <2>1, <2>3 DEF TypeOK
  <2>5. unanswered' \in [Pools -> SUBSET Id] BY <2>1 DEF TypeOK
  <2>6. TypeOK'
    BY <1>1, <2>4, <2>5 DEF RxReceive, TypeOK, linkVars, ringVars, countVars
  <2>7. Holds' /\ Ownership'
    BY <1>1, <2>4, RxKeeps DEF RxReceive, linkVars, Attached
  <2> QED BY <2>6, <2>7
<1>2. CASE RxFast(p)
  <2>1. \E label \in {"time", "slow"} :
          /\ \/ RxAt(p, label)
             \/ \E c \in Pools : rx' = [rx EXCEPT ![p].pc = label, ![p].credit = c]
          /\ shareIds' \in [0..ShareSlots - 1 -> ShareNote]
    BY <1>2, TakeShareType DEF RxFast, Pending, TypeOK
  <2>2. /\ rx' \in [Pools -> Receiving] /\ rx'[p].pc \in {"time", "slow"}
        /\ \A q \in Pools \ {p} : rx'[q] = rx[q]
    BY <2>1, RxType DEF RxLabels
  <2>3. TypeOK' BY <1>2, <2>1, <2>2 DEF RxFast, TypeOK, linkVars, countVars
  <2>4. Holds' /\ Ownership'
    BY <1>2, <2>2, RxKeeps DEF RxFast, linkVars, Attached
  <2> QED BY <2>3, <2>4
<1>3. CASE RxTime(p)
  <2>1. RxAt(p, "count") \/ RxAt(p, "take") \/ RxDone(p) BY <1>3 DEF RxTime
  <2>2. /\ rx' \in [Pools -> Receiving] /\ rx'[p].pc \in {"count", "take", "loop"}
        /\ \A q \in Pools \ {p} : rx'[q] = rx[q]
    BY <2>1, RxType DEF RxLabels
  <2>3. /\ responses' \in [0..ResponseSlots - 1 -> RequestNote]
        /\ measured' \in [Pools -> Connection]
    BY <1>3, MeasureResponseType DEF RxTime
  <2>4. TypeOK' BY <1>3, <2>2, <2>3 DEF RxTime, TypeOK, linkVars, countVars
  <2>5. Holds' /\ Ownership'
    BY <1>3, <2>2, RxKeeps DEF RxTime, linkVars, Attached
  <2> QED BY <2>4, <2>5
<1>4. CASE RxTake(p)
  <2>1. /\ \/ RxDone(p)
           \/ \E c \in Pools : rx' = [rx EXCEPT ![p].pc = "count", ![p].credit = c]
        /\ shareIds' \in [0..ShareSlots - 1 -> ShareNote]
    BY <1>4, TakeShareType DEF RxTake, Pending, TypeOK
  <2>2. /\ rx' \in [Pools -> Receiving] /\ rx'[p].pc \in {"count", "loop"}
        /\ \A q \in Pools \ {p} : rx'[q] = rx[q]
    BY <2>1, RxType DEF RxLabels
  <2>3. TypeOK' BY <1>4, <2>1, <2>2 DEF RxTake, TypeOK, linkVars, countVars
  <2>4. Holds' /\ Ownership'
    BY <1>4, <2>2, RxKeeps DEF RxTake, linkVars, Attached
  <2> QED BY <2>3, <2>4
<1>5. CASE RxCount(p)
  <2>1. RxDone(p) BY <1>5 DEF RxCount
  <2>2. /\ rx' \in [Pools -> Receiving] /\ rx'[p].pc = "loop"
        /\ \A q \in Pools \ {p} : rx'[q] = rx[q]
    BY <2>1, RxType DEF RxLabels
  <2>3. answered' \in [Pools -> [Answers -> Nat]]
    <3>1. rx[p] \in Receiving BY DEF TypeOK
    <3>2. rx[p].credit \in Pools /\ rx[p].answer \in Answers BY <3>1 DEF Receiving
    <3>3. answered \in [Pools -> [Answers -> Nat]] BY DEF TypeOK
    <3> QED BY <1>5, <3>2, <3>3 DEF RxCount
  <2>4. TypeOK' BY <1>5, <2>2, <2>3 DEF RxCount, TypeOK, linkVars, ringVars
  <2>5. Holds' /\ Ownership'
    BY <1>5, <2>2, RxKeeps DEF RxCount, linkVars, Attached
  <2> QED BY <2>4, <2>5
<1> QED BY <1>1, <1>2, <1>3, <1>4, <1>5

-----------------------------------------------------------------------------
(* result_task.                                                             *)

LEMMA ResSteps == ASSUME LedgerInv, ResStep PROVE LedgerInv'
<1> USE DEF LedgerInv
<1>0. res \in Submitting BY DEF TypeOK
<1>1. CASE \E p \in Pools : ResFind(p)
  <2>1. PICK p \in Pools : ResFind(p) BY <1>1
  <2>2. nextId \in Setups + 1..Setups + MaxShares + 1 BY DEF TypeOK
  <2>3. nextId \in ShareIdSpace BY <2>1, <2>2, LedgerAssumption DEF ResFind, ShareIdSpace
  <2>4. nextId' \in Setups + 1..Setups + MaxShares + 1
    BY <2>1, <2>2, LedgerAssumption DEF ResFind
  <2>5. res' \in Submitting /\ res'.pc = "lock" /\ res'.id \in ShareIdSpace
    BY <2>1, <2>3, Zeros DEF ResFind, Submitting, ResLabels
  <2>6. ~locked BY <2>1 DEF ResFind, TypeOK
  <2>7. TypeOK'
    BY <2>1, <2>4, <2>5, <2>6 DEF ResFind, TypeOK, linkVars, ringVars, countVars
  <2>8. Holds' /\ Ownership'
    BY <2>1, <2>5 DEF ResFind, Holds, Ownership, linkVars
  <2> QED BY <2>7, <2>8
<1>2. CASE ResLock
  <2>1. res.pool \in Pools BY <1>0 DEF Submitting
  <2>2. CASE session[res.pool] # 0
    <3>1. session[res.pool] \in Connection BY <2>1 DEF TypeOK
    <3>2. /\ res' \in Submitting /\ res'.pc = "write" /\ res'.id = res.id
          /\ res'.pool = res.pool /\ res'.sent = session[res.pool] /\ locked' = TRUE
      BY <1>0, <1>2, <2>2, <3>1 DEF ResLock, Submitting, ResLabels
    <3>3. TypeOK'
      BY <1>2, <3>2 DEF ResLock, TypeOK, linkVars, ringVars, countVars
    <3>4. Holds' /\ Ownership'
      BY <1>2, <2>2, <3>2 DEF ResLock, Holds, Ownership, linkVars
    <3> QED BY <3>3, <3>4
  <2>3. CASE session[res.pool] = 0
    <3>1. res' \in Submitting /\ res'.pc = "idle" /\ locked' = FALSE
      BY <1>2, <2>3, Zeros DEF ResLock, ResWaiting
    <3>2. TypeOK'
      BY <1>2, <3>1 DEF ResLock, TypeOK, linkVars, ringVars, countVars
    <3>3. Holds' /\ Ownership'
      BY <1>2, <3>1 DEF ResLock, Holds, Ownership, linkVars
    <3> QED BY <3>2, <3>3
  <2> QED BY <2>2, <2>3
<1>3. CASE ResWrite
  <2>1. /\ res' \in Submitting /\ res'.pc \in {"idle", "note"}
        /\ res'.pc = "note" => res'.id = res.id
    <3>1. CASE ResDone BY <3>1, Zeros DEF ResDone, ResWaiting
    <3>2. CASE ResAt("note") BY <1>0, <3>2 DEF ResAt, Submitting, ResLabels
    <3> QED BY <1>3, <3>1, <3>2 DEF ResWrite
  <2>2. res.id \in Id BY <1>3, Zeros DEF ResWrite, Holds
  <2>3. unanswered' \in [Pools -> SUBSET Id]
    <3>1. unanswered \in [Pools -> SUBSET Id] BY DEF TypeOK
    <3> QED BY <1>3, <2>2, <3>1 DEF ResWrite
  <2>4. TypeOK'
    BY <1>3, <2>1, <2>3 DEF ResWrite, TypeOK, linkVars, ringVars, countVars
  <2>5. Holds' /\ Ownership'
    BY <1>3, <2>1 DEF ResWrite, Holds, Ownership, linkVars
  <2> QED BY <2>4, <2>5
<1>4. CASE ResNote
  <2>1. res.id \in ShareIdSpace /\ res.pool \in Pools
    BY <1>0, <1>4 DEF ResNote, Holds, Submitting
  <2>2. shareIds' \in [0..ShareSlots - 1 -> ShareNote] /\ noted' \in Seq(ShareIdSpace)
    BY <1>4, <2>1, NoteShareType DEF ResNote
  <2>3. res' \in Submitting /\ res'.pc = "request" /\ res'.id = res.id
    BY <1>0, <1>4 DEF ResNote, ResAt, Submitting, ResLabels
  <2>4. TypeOK' BY <1>4, <2>2, <2>3 DEF ResNote, TypeOK, linkVars, countVars
  <2>5. Holds' /\ Ownership'
    BY <1>4, <2>1, <2>3 DEF ResNote, Holds, Ownership, linkVars
  <2> QED BY <2>4, <2>5
<1>5. CASE ResRequest
  <2>1. res.id \in ShareIdSpace /\ res.pool \in Pools /\ res.sent \in Connection
    BY <1>0, <1>5 DEF ResRequest, Holds, Submitting
  <2>2. res.id \in Id BY <2>1, Zeros
  <2>3. responses' \in [0..ResponseSlots - 1 -> RequestNote] /\ responseNext' \in Nat
    BY <1>5, <2>1, <2>2, NoteRequestType DEF ResRequest
  <2>4. res' \in Submitting /\ res'.pc = "count" /\ res'.id = res.id
    BY <1>0, <1>5 DEF ResRequest, ResAt, Submitting, ResLabels
  <2>5. TypeOK' BY <1>5, <2>3, <2>4 DEF ResRequest, TypeOK, linkVars, countVars
  <2>6. Holds' /\ Ownership'
    BY <1>5, <2>1, <2>4 DEF ResRequest, Holds, Ownership, linkVars
  <2> QED BY <2>5, <2>6
<1>6. CASE ResCount
  <2>1. res.pool \in Pools BY <1>0 DEF Submitting
  <2>2. submitted' \in [Pools -> Nat] BY <1>6, <2>1 DEF ResCount, TypeOK
  <2>3. res' \in Submitting /\ res'.pc = "idle"
    BY <1>6, Zeros DEF ResCount, ResDone, ResWaiting
  <2>4. TypeOK' BY <1>6, <2>2, <2>3 DEF ResCount, TypeOK, linkVars, ringVars
  <2>5. Holds' /\ Ownership'
    BY <1>6, <2>3 DEF ResCount, Holds, Ownership, linkVars
  <2> QED BY <2>4, <2>5
<1> QED BY <1>1, <1>2, <1>3, <1>4, <1>5, <1>6 DEF ResStep

-----------------------------------------------------------------------------

LEMMA LedgerNext == ASSUME LedgerInv, [Next]_vars PROVE LedgerInv'
<1>1. CASE UNCHANGED vars
  BY <1>1 DEF vars, linkVars, ringVars, countVars, LedgerInv, TypeOK, Holds, Ownership
<1>2. CASE ResStep BY <1>2, ResSteps
<1>3. ASSUME NEW p \in Pools, RxStep(p) PROVE LedgerInv'
  BY <1>3, RxLinkSteps, RxAnswerSteps DEF RxStep
<1> QED BY <1>1, <1>2, <1>3 DEF Next

\* Every variable keeps its type, and g_transport_lock is held exactly while a
\* share is written.
THEOREM LedgerTypeCorrect == Spec => []TypeOK
<1>1. LedgerInv => TypeOK BY DEF LedgerInv
<1> QED BY <1>1, LedgerInit, LedgerNext, PTL DEF Spec

\* A share is only ever written on a transport that its receive task has not
\* destroyed, however connects, losses and submissions interleave.
THEOREM TransportsOutliveWrites == Spec => []WritesOnLiveTransport
<1>1. LedgerInv => WritesOnLiveTransport
  <2> SUFFICES ASSUME LedgerInv, res.pc = "write"
               PROVE  res.sent # 0 /\ link[res.pool] = res.sent
    BY DEF WritesOnLiveTransport
  <2>1. res.pool \in Pools BY DEF LedgerInv, TypeOK, Submitting
  <2> QED BY <2>1 DEF LedgerInv, Ownership
<1> QED BY <1>1, LedgerInit, LedgerNext, PTL DEF Spec

-----------------------------------------------------------------------------
(* The ids of shares.  An id is given once, so it is noted once and is      *)
(* awaited from one pool at most; the last ShareSlots ids that were noted   *)
(* and are still awaited stand in the slots they were written to.           *)

InHand(p) == IF rx[p].pc \in {"fast", "slow", "take"} THEN {rx[p].id} ELSE {}
Awaited(p) == {id \in unanswered[p] \cup InHand(p) : IsShare(id)}

NotedOnce ==
    /\ \A m, n \in 1..Len(noted) : noted[m] = noted[n] => m = n
    /\ \A n \in 1..Len(noted) : noted[n] < nextId
    /\ res.pc # "idle" => res.id < nextId
    /\ res.pc \in {"lock", "write", "note"} => NotYetNoted(res.id)

AwaitedOnce ==
    /\ res.pc \in {"lock", "write"} => \A p \in Pools : res.id \notin Awaited(p)
    /\ \A p \in Pools : \A id \in Awaited(p) : id < nextId
    /\ \A p, q \in Pools : p # q => Awaited(p) \cap Awaited(q) = {}
    /\ \A p \in Pools : \A id \in InHand(p) : IsShare(id) => id \notin unanswered[p]
    /\ \A p \in Pools : rx[p].pc \in {"fast", "take"} => IsShare(rx[p].id)

IsAwaited(id) == \E p \in Pools : id \in Awaited(p)
RingHolds ==
    \A n \in 1..Len(noted) :
        IsAwaited(noted[n]) /\ Len(noted) - n < ShareSlots
            => shareIds[(n - 1) % ShareSlots].id = noted[n]

RingInv == LedgerInv /\ NotedOnce /\ AwaitedOnce /\ RingHolds

LEMMA SlotsDiffer ==
  ASSUME NEW S \in Nat \ {0}, NEW a \in Nat, NEW b \in Nat, a < b, b - a < S
  PROVE  a % S # b % S
<1> DEFINE u == a \div S
           v == b \div S
<1>1. u \in Int /\ v \in Int /\ a = S * u + (a % S) /\ b = S * v + (b % S)
  OBVIOUS
<1>2. ASSUME a % S = b % S PROVE FALSE
  <2> HIDE DEF u, v
  <2>1. b - a = S * (v - u) BY <1>1, <1>2
  <2>2. CASE v - u <= 0 BY <2>1, <2>2, <1>1
  <2>3. CASE v - u >= 1 BY <2>1, <2>3, <1>1
  <2> QED BY <1>1, <2>2, <2>3
<1> QED BY <1>2

LEMMA SlotOf ==
  ASSUME NEW a \in Nat
  PROVE  a % ShareSlots \in 0..ShareSlots - 1
BY LedgerAssumption

LEMMA NotedTypes ==
  ASSUME TypeOK
  PROVE  /\ noted \in Seq(ShareIdSpace) /\ Len(noted) \in Nat
         /\ \A n \in 1..Len(noted) : noted[n] \in Int
         /\ nextId \in Int
<1>1. noted \in Seq(ShareIdSpace) /\ Len(noted) \in Nat BY DEF TypeOK
<1>2. \A n \in 1..Len(noted) : noted[n] \in ShareIdSpace BY <1>1
<1>3. nextId \in Int BY LedgerAssumption DEF TypeOK
<1> QED BY <1>1, <1>2, <1>3, LedgerAssumption DEF ShareIdSpace

LEMMA RingInit == Init => RingInv
<1> SUFFICES ASSUME Init PROVE RingInv OBVIOUS
<1>1. noted = <<>> /\ Len(noted) = 0 BY DEF Init
<1>2. res.pc = "idle" BY DEF Init, ResWaiting
<1>3. \A p \in Pools : Awaited(p) = {} /\ InHand(p) = {} /\ rx[p].pc = "down"
  BY DEF Init, Awaited, InHand, RxWaiting
<1>4. NotedOnce BY <1>1, <1>2 DEF NotedOnce
<1>5. AwaitedOnce BY <1>2, <1>3 DEF AwaitedOnce
<1>6. RingHolds BY <1>1 DEF RingHolds
<1> QED BY <1>4, <1>5, <1>6, LedgerInit DEF RingInv

\* A step that gives no id, notes none, and awaits nothing new.
LEMMA IdsKept ==
  ASSUME NotedOnce, AwaitedOnce, UNCHANGED <<noted, nextId>>,
         UNCHANGED res,
         NEW p \in Pools,
         \A q \in Pools \ {p} : rx'[q] = rx[q] /\ unanswered'[q] = unanswered[q],
         Awaited(p)' \subseteq Awaited(p),
         \A id \in InHand(p)' : IsShare(id) => id \notin unanswered'[p],
         rx'[p].pc \in {"fast", "take"} => IsShare(rx'[p].id)
  PROVE  /\ NotedOnce' /\ AwaitedOnce'
         /\ \A id : IsAwaited(id)' => IsAwaited(id)
<1>1. NotedOnce' BY DEF NotedOnce, NotYetNoted
<1>2. \A q \in Pools \ {p} : Awaited(q)' = Awaited(q) /\ InHand(q)' = InHand(q)
  BY DEF Awaited, InHand, IsShare
<1>3. \A q \in Pools : Awaited(q)' \subseteq Awaited(q) BY <1>2
<1>4. AwaitedOnce'
  <2>1. (res.pc \in {"lock", "write"} => \A q \in Pools : res.id \notin Awaited(q))'
    BY <1>3 DEF AwaitedOnce
  <2>2. (\A q \in Pools : \A id \in Awaited(q) : id < nextId)'
    BY <1>3 DEF AwaitedOnce
  <2>3. (\A q, r \in Pools : q # r => Awaited(q) \cap Awaited(r) = {})'
    BY <1>3 DEF AwaitedOnce
  <2>4. (\A q \in Pools : \A id \in InHand(q) : IsShare(id) => id \notin unanswered[q])'
    BY <1>2 DEF AwaitedOnce, IsShare
  <2>5. (\A q \in Pools : rx[q].pc \in {"fast", "take"} => IsShare(rx[q].id))'
    BY DEF AwaitedOnce, IsShare
  <2> QED BY <2>1, <2>2, <2>3, <2>4, <2>5 DEF AwaitedOnce
<1>5. \A id : IsAwaited(id)' => IsAwaited(id) BY <1>3 DEF IsAwaited
<1> QED BY <1>1, <1>4, <1>5

LEMMA RingKept ==
  ASSUME RingHolds, UNCHANGED <<noted, shareIds>>,
         \A n \in 1..Len(noted) : IsAwaited(noted[n])' => IsAwaited(noted[n])
  PROVE  RingHolds'
BY DEF RingHolds

\* Where a step of a receive task leaves it.
LEMMA RxMoves ==
  ASSUME TypeOK, NEW p \in Pools, NEW label \in RxLabels,
         \/ RxAt(p, label)
         \/ \E c \in Pools : rx' = [rx EXCEPT ![p].pc = label, ![p].credit = c]
  PROVE  /\ rx'[p].pc = label /\ rx'[p].id = rx[p].id /\ rx'[p].answer = rx[p].answer
         /\ RxAt(p, label) => rx'[p].credit = rx[p].credit
         /\ \A c \in Pools : rx' = [rx EXCEPT ![p].pc = label, ![p].credit = c]
               => rx'[p].credit = c
         /\ \A q \in Pools \ {p} : rx'[q] = rx[q]
<1>1. rx \in [Pools -> Receiving] BY DEF TypeOK
<1>2. rx[p] \in Receiving BY <1>1
<1>3. CASE RxAt(p, label)
  <2> DEFINE next == [rx[p] EXCEPT !.pc = label]
  <2>1. rx' = [rx EXCEPT ![p] = next] BY <1>1, <1>3 DEF RxAt
  <2>2. next.pc = label /\ next.id = rx[p].id /\ next.answer = rx[p].answer
        /\ next.credit = rx[p].credit
    BY <1>2 DEF Receiving
  <2> HIDE DEF next
  <2>3. rx'[p] = next /\ \A q \in Pools \ {p} : rx'[q] = rx[q] BY <1>1, <2>1
  <2>4. ASSUME NEW c \in Pools, rx' = [rx EXCEPT ![p].pc = label, ![p].credit = c]
        PROVE  rx'[p].credit = c
    <3> DEFINE after == [[rx[p] EXCEPT !.pc = label] EXCEPT !.credit = c]
    <3>1. rx' = [rx EXCEPT ![p] = after] BY <1>1, <2>4
    <3>2. after.credit = c BY <1>2 DEF Receiving
    <3> HIDE DEF after
    <3> QED BY <1>1, <3>1, <3>2
  <2> QED BY <2>2, <2>3, <2>4
<1>4. ASSUME NEW c \in Pools, rx' = [rx EXCEPT ![p].pc = label, ![p].credit = c]
      PROVE  /\ rx'[p].pc = label /\ rx'[p].id = rx[p].id /\ rx'[p].answer = rx[p].answer
             /\ rx'[p].credit = c
             /\ \A q \in Pools \ {p} : rx'[q] = rx[q]
  <2> DEFINE next == [[rx[p] EXCEPT !.pc = label] EXCEPT !.credit = c]
  <2>1. rx' = [rx EXCEPT ![p] = next] BY <1>1, <1>4
  <2>2. next.pc = label /\ next.id = rx[p].id /\ next.answer = rx[p].answer
        /\ next.credit = c
    BY <1>2 DEF Receiving
  <2> HIDE DEF next
  <2>3. rx'[p] = next /\ \A q \in Pools \ {p} : rx'[q] = rx[q] BY <1>1, <2>1
  <2> QED BY <2>2, <2>3
<1>5. CASE ~RxAt(p, label) BY <1>4, <1>5
<1> QED BY <1>3, <1>4, <1>5

LEMMA RxIsDone ==
  ASSUME TypeOK, NEW p \in Pools, RxDone(p)
  PROVE  rx'[p].pc = "loop" /\ \A q \in Pools \ {p} : rx'[q] = rx[q]
<1>1. RxWaiting("loop").pc = "loop" BY DEF RxWaiting
<1> QED BY <1>1 DEF RxDone, TypeOK

\* Taking the share of the answer in hand leaves the slots of the others.
LEMMA RingAfterTake ==
  ASSUME RingInv, NEW p \in Pools, rx[p].pc \in {"fast", "take"},
         NEW i \in Pending(rx[p].id), TakeShare(i), noted' = noted,
         \A id : IsAwaited(id)' => IsAwaited(id) /\ id # rx[p].id
  PROVE  RingHolds'
<1> USE DEF RingInv
<1>1. shareIds[i].id = rx[p].id BY DEF Pending
<1>2. SUFFICES ASSUME NEW n \in 1..Len(noted), IsAwaited(noted[n])',
                      Len(noted) - n < ShareSlots
               PROVE  shareIds'[(n - 1) % ShareSlots].id = noted[n]
  BY DEF RingHolds
<1>3. IsAwaited(noted[n]) /\ noted[n] # rx[p].id
  BY <1>2
<1>4. shareIds[(n - 1) % ShareSlots].id = noted[n] BY <1>2, <1>3 DEF RingHolds
<1>5. (n - 1) % ShareSlots # i BY <1>1, <1>3, <1>4
<1>6. (n - 1) % ShareSlots \in 0..ShareSlots - 1 BY NotedTypes, SlotOf DEF LedgerInv
<1> QED BY <1>4, <1>5, <1>6 DEF TakeShare, LedgerInv, TypeOK

LEMMA RingRx ==
  ASSUME RingInv, NEW p \in Pools, RxStep(p)
  PROVE  NotedOnce' /\ AwaitedOnce' /\ RingHolds'
<1> USE DEF RingInv, LedgerInv
<1>0. unanswered \in [Pools -> SUBSET Id] /\ rx \in [Pools -> Receiving] BY DEF TypeOK
<1>1. CASE RxConnect(p)
  <2>1. rx'[p].pc = "setup" /\ \A q \in Pools \ {p} : rx'[q] = rx[q]
    <3>1. 1 \in Id BY LedgerAssumption DEF Id
    <3> QED BY <1>0, <1>1, <3>1 DEF RxConnect, Receiving
  <2>2. unanswered'[p] = 1..Setups /\ \A q \in Pools \ {p} : unanswered'[q] = unanswered[q]
    BY <1>0, <1>1 DEF RxConnect
  <2>3. InHand(p)' = {} /\ Awaited(p)' = {}
    BY <2>1, <2>2, LedgerAssumption DEF InHand, Awaited, IsShare
  <2>4. UNCHANGED <<noted, nextId, shareIds, res>> BY <1>1 DEF RxConnect, ringVars
  <2> QED BY <2>1, <2>2, <2>3, <2>4, IdsKept, RingKept
<1>2. CASE RxNoteSetup(p) \/ RxAttach(p) \/ RxDetach(p)
  <2>1. /\ rx'[p].pc \in {"setup", "attach", "loop", "destroy"}
        /\ \A q \in Pools \ {p} : rx'[q] = rx[q]
    <3>1. CASE RxNoteSetup(p)
      <4> DEFINE label == IF rx[p].id = Setups THEN "attach" ELSE "setup"
                 next == [[rx[p] EXCEPT !.id = @ + 1] EXCEPT !.pc = label]
      <4>1. rx[p].pc = "setup" BY <3>1 DEF RxNoteSetup
      <4>2. rx' = [rx EXCEPT ![p] = next] BY <1>0, <3>1, <4>1 DEF RxNoteSetup
      <4>3. rx[p] \in Receiving BY <1>0
      <4> HIDE DEF label
      <4>4. next.pc = label BY <4>3 DEF Receiving
      <4> HIDE DEF next
      <4>5. rx'[p] = next /\ \A q \in Pools \ {p} : rx'[q] = rx[q] BY <1>0, <4>2
      <4> QED BY <4>4, <4>5 DEF label
    <3>2. CASE RxAttach(p) BY <3>2, RxIsDone DEF RxAttach
    <3>3. CASE RxDetach(p) BY <3>3, RxMoves DEF RxDetach, RxLabels
    <3> QED BY <1>2, <3>1, <3>2, <3>3
  <2>2. UNCHANGED <<noted, nextId, shareIds, res, unanswered>>
    BY <1>2 DEF RxNoteSetup, RxAttach, RxDetach, ringVars
  <2>3. InHand(p)' = {} /\ Awaited(p)' \subseteq Awaited(p)
    BY <2>1, <2>2 DEF InHand, Awaited, IsShare
  <2> QED BY <2>1, <2>2, <2>3, IdsKept, RingKept
<1>3. CASE RxDestroy(p)
  <2>1. rx'[p].pc = "down" /\ \A q \in Pools \ {p} : rx'[q] = rx[q]
    BY <1>3, RxMoves DEF RxDestroy, RxLabels
  <2>2. unanswered'[p] = {} /\ \A q \in Pools \ {p} : unanswered'[q] = unanswered[q]
    BY <1>0, <1>3 DEF RxDestroy
  <2>3. InHand(p)' = {} /\ Awaited(p)' = {} BY <2>1, <2>2 DEF InHand, Awaited
  <2>4. UNCHANGED <<noted, nextId, shareIds, res>> BY <1>3 DEF RxDestroy, ringVars
  <2> QED BY <2>1, <2>2, <2>3, <2>4, IdsKept, RingKept
<1>4. CASE RxReceive(p)
  <2>1. PICK id \in unanswered[p], answer \in Answers :
          /\ unanswered' = [unanswered EXCEPT ![p] = @ \ {id}]
          /\ rx' = [rx EXCEPT ![p] = [pc |-> IF IsShare(id) THEN "fast" ELSE "slow",
                                      id |-> id, answer |-> answer, credit |-> 0]]
    BY <1>4 DEF RxReceive
  <2>2. /\ rx'[p].id = id /\ rx'[p].pc = IF IsShare(id) THEN "fast" ELSE "slow"
        /\ \A q \in Pools \ {p} : rx'[q] = rx[q]
    BY <1>0, <2>1
  <2>3. /\ unanswered'[p] = unanswered[p] \ {id}
        /\ \A q \in Pools \ {p} : unanswered'[q] = unanswered[q]
    BY <1>0, <2>1
  <2>4. InHand(p)' = {id} /\ Awaited(p)' \subseteq Awaited(p)
    BY <2>2, <2>3 DEF InHand, Awaited, IsShare
  <2>5. UNCHANGED <<noted, nextId, shareIds, res>> BY <1>4 DEF RxReceive, ringVars
  <2> QED BY <2>2, <2>3, <2>4, <2>5, IdsKept, RingKept DEF IsShare
<1>5. CASE RxFast(p) \/ RxTake(p)
  <2>1. UNCHANGED <<noted, nextId, res, unanswered>>
    BY <1>5 DEF RxFast, RxTake
  <2>2. rx[p].pc \in {"fast", "take"} BY <1>5 DEF RxFast, RxTake
  <2>3. CASE UNCHANGED shareIds /\ (RxAt(p, "slow") \/ RxDone(p))
    <3>1. /\ (rx'[p].pc = "slow" /\ rx'[p].id = rx[p].id) \/ rx'[p].pc = "loop"
          /\ \A q \in Pools \ {p} : rx'[q] = rx[q]
      BY <2>3, RxMoves, RxIsDone DEF RxLabels
    <3>2. InHand(p)' \subseteq InHand(p) /\ Awaited(p)' \subseteq Awaited(p)
      BY <2>1, <2>2, <3>1 DEF InHand, Awaited, IsShare
    <3>3. \A id \in InHand(p)' : IsShare(id) => id \notin unanswered'[p]
      BY <2>1, <3>2 DEF AwaitedOnce
    <3> QED BY <2>1, <2>3, <3>1, <3>2, <3>3, IdsKept, RingKept
  <2>4. ASSUME NEW i \in Pending(rx[p].id), TakeShare(i), NEW label \in {"time", "count"},
               rx' = [rx EXCEPT ![p].pc = label, ![p].credit = shareIds[i].pool]
        PROVE  NotedOnce' /\ AwaitedOnce' /\ RingHolds'
    <3>1. shareIds[i].pool \in Pools BY <2>4, TakeShareType DEF Pending
    <3>2. rx'[p].pc = label /\ \A q \in Pools \ {p} : rx'[q] = rx[q]
      BY <2>4, <3>1, RxMoves DEF RxLabels
    <3>3. InHand(p)' = {} /\ Awaited(p)' \subseteq Awaited(p)
      BY <2>1, <3>2 DEF InHand, Awaited, IsShare
    <3>4. NotedOnce' /\ AwaitedOnce' /\ \A id : IsAwaited(id)' => IsAwaited(id)
      BY <2>1, <3>2, <3>3, IdsKept
    <3>5. ASSUME NEW q \in Pools, rx[p].id \in Awaited(q)' PROVE FALSE
      <4>1. IsShare(rx[p].id) /\ rx[p].id \in InHand(p) BY <2>2 DEF AwaitedOnce, InHand
      <4>2. rx[p].id \in Awaited(p) /\ rx[p].id \notin unanswered[p]
        BY <4>1 DEF AwaitedOnce, Awaited
      <4>3. CASE q = p BY <2>1, <3>3, <3>5, <4>2, <4>3 DEF Awaited
      <4>4. CASE q # p
        <5>1. Awaited(q)' = Awaited(q)
          BY <2>1, <3>2, <4>4 DEF Awaited, InHand, IsShare
        <5> QED BY <3>5, <4>2, <4>4, <5>1 DEF AwaitedOnce
      <4> QED BY <4>3, <4>4
    <3>6. \A id : IsAwaited(id)' => IsAwaited(id) /\ id # rx[p].id
      BY <3>4, <3>5 DEF IsAwaited
    <3>7. RingHolds' BY <2>1, <2>2, <2>4, <3>6, RingAfterTake
    <3> QED BY <3>4, <3>7
  <2> QED BY <1>5, <2>3, <2>4 DEF RxFast, RxTake
<1>6. CASE RxTime(p)
  <2>1. UNCHANGED <<noted, nextId, res, unanswered, shareIds>>
    BY <1>6 DEF RxTime
  <2>2. /\ \/ rx'[p].pc \in {"count", "loop"}
           \/ rx'[p].pc = "take" /\ rx'[p].id = rx[p].id /\ IsShare(rx[p].id)
              /\ rx[p].pc = "slow"
        /\ \A q \in Pools \ {p} : rx'[q] = rx[q]
    BY <1>6, RxMoves, RxIsDone DEF RxTime, RxLabels
  <2>3. InHand(p)' \subseteq InHand(p) /\ Awaited(p)' \subseteq Awaited(p)
    BY <2>1, <2>2 DEF InHand, Awaited, IsShare
  <2>4. \A id \in InHand(p)' : IsShare(id) => id \notin unanswered'[p]
    BY <2>1, <2>3 DEF AwaitedOnce
  <2> QED BY <2>1, <2>2, <2>3, <2>4, IdsKept, RingKept
<1>7. CASE RxCount(p)
  <2>1. UNCHANGED <<noted, nextId, res, unanswered, shareIds>>
    BY <1>7 DEF RxCount, ringVars
  <2>2. rx'[p].pc = "loop" /\ \A q \in Pools \ {p} : rx'[q] = rx[q]
    BY <1>7, RxIsDone DEF RxCount
  <2>3. InHand(p)' = {} /\ Awaited(p)' \subseteq Awaited(p)
    BY <2>1, <2>2 DEF InHand, Awaited, IsShare
  <2> QED BY <2>1, <2>2, <2>3, IdsKept, RingKept
<1> QED BY <1>1, <1>2, <1>3, <1>4, <1>5, <1>6, <1>7 DEF RxStep

LEMMA RingRes ==
  ASSUME RingInv, ResStep
  PROVE  NotedOnce' /\ AwaitedOnce' /\ RingHolds'
<1> USE DEF RingInv, LedgerInv
<1>0. /\ unanswered \in [Pools -> SUBSET Id] /\ res \in Submitting
      /\ nextId \in Int /\ Len(noted) \in Nat /\ noted \in Seq(ShareIdSpace)
      /\ \A n \in 1..Len(noted) : noted[n] \in Int
  BY NotedTypes DEF TypeOK
<1>1. CASE \E p \in Pools : ResFind(p)
  <2>1. PICK p \in Pools : ResFind(p) BY <1>1
  <2>2. /\ res'.pc = "lock" /\ res'.id = nextId /\ nextId' = nextId + 1
        /\ UNCHANGED <<noted, shareIds, unanswered, rx>>
    BY <2>1 DEF ResFind, ringVars
  <2>3. \A q \in Pools : Awaited(q)' = Awaited(q) /\ InHand(q)' = InHand(q)
    BY <2>2 DEF Awaited, InHand, IsShare
  <2>4. \A q \in Pools : \A id \in Awaited(q) : id \in Int /\ id < nextId
    <3>1. \A q \in Pools : \A id \in Awaited(q) : id \in Int
      <4>1. \A q \in Pools : rx[q] \in Receiving BY DEF TypeOK
      <4> QED BY <1>0, <4>1, LedgerAssumption DEF Awaited, InHand, Receiving, Id
    <3> QED BY <3>1 DEF AwaitedOnce
  <2>5. NotedOnce' BY <1>0, <2>2 DEF NotedOnce, NotYetNoted
  <2>6. AwaitedOnce' BY <1>0, <2>2, <2>3, <2>4 DEF AwaitedOnce, IsShare
  <2>7. RingHolds' BY <2>2, <2>3 DEF RingHolds, IsAwaited
  <2> QED BY <2>5, <2>6, <2>7
<1>2. CASE ResLock
  <2>1. /\ \/ res'.pc = "write" /\ res'.id = res.id
           \/ res'.pc = "idle"
        /\ res.pc = "lock"
        /\ UNCHANGED <<noted, nextId, shareIds, unanswered, rx>>
    BY <1>0, <1>2 DEF ResLock, ringVars, ResWaiting, Submitting
  <2>2. \A q \in Pools : Awaited(q)' = Awaited(q) /\ InHand(q)' = InHand(q)
    BY <2>1 DEF Awaited, InHand, IsShare
  <2>3. NotedOnce' BY <2>1 DEF NotedOnce, NotYetNoted
  <2>4. AwaitedOnce' BY <2>1, <2>2 DEF AwaitedOnce, IsShare
  <2>5. RingHolds' BY <2>1, <2>2 DEF RingHolds, IsAwaited
  <2> QED BY <2>3, <2>4, <2>5
<1>3. CASE ResWrite
  <2>1. /\ \/ res'.pc = "note" /\ res'.id = res.id
           \/ res'.pc = "idle"
        /\ res.pc = "write" /\ res.id < nextId /\ NotYetNoted(res.id)
        /\ UNCHANGED <<noted, nextId, shareIds, rx>>
    BY <1>0, <1>3
    DEF ResWrite, ringVars, ResWaiting, ResDone, ResAt, Submitting, NotedOnce
  <2>2. /\ \A q \in Pools : InHand(q)' = InHand(q)
        /\ \/ UNCHANGED unanswered
           \/ unanswered' = [unanswered EXCEPT ![res.pool] = @ \cup {res.id}]
    BY <1>3, <2>1 DEF InHand, ResWrite
  <2>3. \A q \in Pools : /\ Awaited(q)' \subseteq Awaited(q) \cup {res.id}
                         /\ res.id \in Awaited(q)' => q = res.pool
                         /\ unanswered'[q] \subseteq unanswered[q] \cup {res.id}
    <3>1. \A q \in Pools : res.id \notin Awaited(q) BY <2>1 DEF AwaitedOnce
    <3> QED BY <1>0, <2>2, <3>1 DEF Awaited, IsShare
  <2>4. NotedOnce' BY <2>1 DEF NotedOnce, NotYetNoted
  <2>5. AwaitedOnce'
    <3>1. (\A p \in Pools : \A id \in Awaited(p) : id < nextId)'
      BY <2>1, <2>3 DEF AwaitedOnce
    <3>2. (\A p, q \in Pools : p # q => Awaited(p) \cap Awaited(q) = {})'
      BY <2>1, <2>3 DEF AwaitedOnce
    <3>3. (\A p \in Pools : \A id \in InHand(p) : IsShare(id) => id \notin unanswered[p])'
      <4>1. \A p \in Pools : IsShare(res.id) => res.id \notin InHand(p)
        BY <2>1 DEF AwaitedOnce, Awaited
      <4> QED BY <2>2, <2>3, <4>1 DEF AwaitedOnce, IsShare
    <3>4. (\A p \in Pools : rx[p].pc \in {"fast", "take"} => IsShare(rx[p].id))'
      BY <2>1 DEF AwaitedOnce, IsShare
    <3> QED BY <2>1, <3>1, <3>2, <3>3, <3>4 DEF AwaitedOnce
  <2>6. RingHolds'
    <3>1. \A n \in 1..Len(noted) : IsAwaited(noted[n])' => IsAwaited(noted[n])
      <4> SUFFICES ASSUME NEW n \in 1..Len(noted), NEW q \in Pools, noted'[n] \in Awaited(q)'
                   PROVE  IsAwaited(noted[n])
        BY DEF IsAwaited
      <4>1. noted[n] # res.id BY <2>1 DEF NotYetNoted
      <4> QED BY <2>1, <2>3, <4>1 DEF IsAwaited
    <3> QED BY <2>1, <3>1, RingKept
  <2> QED BY <2>4, <2>5, <2>6
<1>4. CASE ResNote
  <2>1. /\ res'.pc = "request" /\ res'.id = res.id /\ res.pc = "note"
        /\ NoteShare(res.id, res.pool)
        /\ UNCHANGED <<nextId, unanswered, rx>>
    BY <1>0, <1>4 DEF ResNote, ResAt, Submitting
  <2>2. \A q \in Pools : Awaited(q)' = Awaited(q) /\ InHand(q)' = InHand(q)
    BY <2>1 DEF Awaited, InHand, IsShare
  <2>3. NotYetNoted(res.id) /\ res.id < nextId BY <2>1 DEF NotedOnce
  <2>4. /\ Len(noted)' = Len(noted) + 1 /\ noted'[Len(noted) + 1] = res.id
        /\ \A n \in 1..Len(noted) : noted'[n] = noted[n]
    <3>1. res.id \in ShareIdSpace BY <2>1 DEF Holds
    <3> QED BY <1>0, <2>1, <3>1 DEF NoteShare
  <2>5. NotedOnce'
    <3>1. (\A m, n \in 1..Len(noted) : noted[m] = noted[n] => m = n)'
      BY <1>0, <2>3, <2>4 DEF NotedOnce, NotYetNoted
    <3>2. (\A n \in 1..Len(noted) : noted[n] < nextId)'
      BY <1>0, <2>1, <2>3, <2>4 DEF NotedOnce
    <3> QED BY <2>1, <2>3, <3>1, <3>2 DEF NotedOnce
  <2>6. AwaitedOnce' BY <2>1, <2>2 DEF AwaitedOnce, IsShare
  <2>7. RingHolds'
    <3> SUFFICES ASSUME NEW n \in 1..Len(noted)', IsAwaited(noted[n])',
                        Len(noted)' - n < ShareSlots
                 PROVE  shareIds'[(n - 1) % ShareSlots].id = noted'[n]
      BY DEF RingHolds
    <3> DEFINE slot == Len(noted) % ShareSlots
               note == [id |-> res.id, pool |-> res.pool]
    <3>1. shareIds' = [shareIds EXCEPT ![slot] = note] BY <2>1 DEF NoteShare
    <3>2. slot \in 0..ShareSlots - 1 BY <1>0, SlotOf
    <3>3. shareIds \in [0..ShareSlots - 1 -> ShareNote] BY DEF TypeOK
    <3>4. CASE n = Len(noted) + 1
      <4>1. n - 1 = Len(noted) BY <1>0, <3>4
      <4> QED BY <2>4, <3>1, <3>2, <3>3, <3>4, <4>1
    <3>5. CASE n # Len(noted) + 1
      <4>1. n \in 1..Len(noted) /\ noted'[n] = noted[n] BY <1>0, <2>4, <3>5
      <4>2. Len(noted) - n < ShareSlots /\ IsAwaited(noted[n])
        BY <1>0, <2>2, <2>4, <4>1, LedgerAssumption DEF IsAwaited
      <4>3. shareIds[(n - 1) % ShareSlots].id = noted[n] BY <4>1, <4>2 DEF RingHolds
      <4>4. n - 1 \in Nat /\ n - 1 < Len(noted) /\ Len(noted) - (n - 1) < ShareSlots
        BY <1>0, <2>4, <4>1, LedgerAssumption
      <4>5. (n - 1) % ShareSlots # slot BY <1>0, <4>4, SlotsDiffer, LedgerAssumption
      <4>6. (n - 1) % ShareSlots \in 0..ShareSlots - 1 BY <4>4, SlotOf
      <4> HIDE DEF slot, note
      <4> QED BY <3>1, <3>2, <3>3, <4>1, <4>3, <4>5, <4>6
    <3> QED BY <3>4, <3>5
  <2> QED BY <2>5, <2>6, <2>7
<1>5. CASE ResRequest \/ ResCount
  <2>1. /\ \/ res'.pc = "count" /\ res'.id = res.id /\ res.pc = "request"
           \/ res'.pc = "idle"
        /\ UNCHANGED <<noted, nextId, shareIds, unanswered, rx>>
    BY <1>0, <1>5 DEF ResRequest, ResCount, ResAt, ResDone, ResWaiting, ringVars, Submitting
  <2>2. \A q \in Pools : Awaited(q)' = Awaited(q) /\ InHand(q)' = InHand(q)
    BY <2>1 DEF Awaited, InHand, IsShare
  <2>3. NotedOnce' BY <2>1 DEF NotedOnce, NotYetNoted
  <2>4. AwaitedOnce' BY <2>1, <2>2 DEF AwaitedOnce, IsShare
  <2>5. RingHolds' BY <2>1, <2>2 DEF RingHolds, IsAwaited
  <2> QED BY <2>3, <2>4, <2>5
<1> QED BY <1>1, <1>2, <1>3, <1>4, <1>5 DEF ResStep

LEMMA RingNext == ASSUME RingInv, [Next]_vars PROVE RingInv'
<1>1. LedgerInv' BY LedgerNext DEF RingInv
<1>2. CASE UNCHANGED vars
  BY <1>1, <1>2 DEF vars, ringVars, RingInv, NotedOnce, NotYetNoted, AwaitedOnce, RingHolds,
                    IsAwaited, Awaited, InHand, IsShare
<1>3. CASE ResStep BY <1>1, <1>3, RingRes DEF RingInv
<1>4. ASSUME NEW p \in Pools, RxStep(p) PROVE RingInv'
  BY <1>1, <1>4, RingRx DEF RingInv
<1> QED BY <1>2, <1>3, <1>4 DEF Next

\* An answer that finds no pending id was handled before the id was noted, or
\* came ShareSlots shares too late: reconnects and other pools lose none.
THEOREM NoAnswerIsLost == Spec => []AnswerIsCounted
<1>1. RingInv => AnswerIsCounted
  <2> SUFFICES ASSUME RingInv, NEW p \in Pools, rx[p].pc \in {"fast", "take"},
                      Pending(rx[p].id) = {}, ~NotYetNoted(rx[p].id)
               PROVE  Overwritten(rx[p].id)
    BY DEF AnswerIsCounted
  <2> USE DEF RingInv
  <2>1. PICK n \in 1..Len(noted) : noted[n] = rx[p].id BY DEF NotYetNoted
  <2>2. IsAwaited(noted[n]) BY <2>1 DEF AwaitedOnce, IsAwaited, Awaited, InHand
  <2>3. Len(noted) \in Nat /\ shareIds \in [0..ShareSlots - 1 -> ShareNote]
    BY NotedTypes DEF LedgerInv, TypeOK
  <2>4. (n - 1) % ShareSlots \in DOMAIN shareIds BY <2>3, SlotOf
  <2>5. ~(Len(noted) - n < ShareSlots) BY <2>1, <2>2, <2>4 DEF RingHolds, Pending
  <2>6. Len(noted) - n >= ShareSlots BY <2>3, <2>5, LedgerAssumption
  <2> QED BY <2>1, <2>6 DEF Overwritten
<1> QED BY <1>1, RingInit, RingNext, PTL DEF Spec

-----------------------------------------------------------------------------
(* The counters.  What a pool is credited with was a share of its own: it   *)
(* stands in the ring, is in the hand of a receive task, or is counted.     *)

InRing(p) == {i \in 0..ShareSlots - 1 : shareIds[i].id # 0 /\ shareIds[i].pool = p}
Taken(p) == {q \in Pools : rx[q].pc \in {"time", "count"} /\ rx[q].credit = p}
Sent(p) == submitted[p] + IF res.pc \in {"request", "count"} /\ res.pool = p THEN 1 ELSE 0
Counted(p) == answered[p]["accepted"] + answered[p]["rejected"]

CreditInv ==
    /\ RingInv
    /\ \A p \in Pools :
          /\ IsFiniteSet(Taken(p))
          /\ Counted(p) + Cardinality(InRing(p)) + Cardinality(Taken(p)) <= Sent(p)

LEMMA CreditTypes ==
  ASSUME TypeOK, NEW p \in Pools
  PROVE  /\ IsFiniteSet(InRing(p)) /\ Cardinality(InRing(p)) \in Nat
         /\ IsFiniteSet(Taken(p)) => Cardinality(Taken(p)) \in Nat
         /\ Counted(p) \in Nat /\ submitted[p] \in Nat /\ Sent(p) \in Nat
<1>1. IsFiniteSet(0..ShareSlots - 1) BY LedgerAssumption, FS_Interval
<1>2. InRing(p) \in SUBSET (0..ShareSlots - 1) BY DEF InRing
<1>3. IsFiniteSet(InRing(p)) BY <1>1, <1>2, FS_Subset
<1>4. Cardinality(InRing(p)) \in Nat BY <1>3, FS_CardinalityType
<1>5. IsFiniteSet(Taken(p)) => Cardinality(Taken(p)) \in Nat BY FS_CardinalityType
<1>6. Counted(p) \in Nat
  <2>1. answered[p] \in [Answers -> Nat] BY DEF TypeOK
  <2>2. answered[p]["accepted"] \in Nat /\ answered[p]["rejected"] \in Nat
    BY <2>1 DEF Answers
  <2> QED BY <2>2 DEF Counted
<1>7. submitted[p] \in Nat BY DEF TypeOK
<1>8. Sent(p) \in Nat BY <1>7 DEF Sent
<1> QED BY <1>3, <1>4, <1>5, <1>6, <1>7, <1>8

LEMMA CreditInit == Init => CreditInv
<1> SUFFICES ASSUME Init PROVE CreditInv OBVIOUS
<1>1. RingInv BY RingInit
<1>2. ASSUME NEW p \in Pools
      PROVE  /\ IsFiniteSet(Taken(p))
             /\ Counted(p) + Cardinality(InRing(p)) + Cardinality(Taken(p)) <= Sent(p)
  <2>1. Taken(p) = {} BY DEF Init, Taken, RxWaiting
  <2>2. InRing(p) = {} BY DEF Init, InRing, NoId
  <2>3. Counted(p) = 0 /\ Sent(p) = 0 BY DEF Init, Counted, Sent, Answers, ResWaiting
  <2> QED BY <2>1, <2>2, <2>3, FS_EmptySet
<1> QED BY <1>1, <1>2 DEF CreditInv

\* What a step does to the account of one pool.
LEMMA AccountKept ==
  ASSUME CreditInv, TypeOK', NEW p \in Pools,
         Taken(p)' = Taken(p), InRing(p)' \subseteq InRing(p),
         Counted(p)' = Counted(p), Sent(p)' >= Sent(p)
  PROVE  /\ IsFiniteSet(Taken(p)')
         /\ Counted(p)' + Cardinality(InRing(p)') + Cardinality(Taken(p)') <= Sent(p)'
<1>1. TypeOK BY DEF CreditInv, RingInv, LedgerInv
<1>2. /\ IsFiniteSet(InRing(p)) /\ Cardinality(InRing(p)) \in Nat
      /\ IsFiniteSet(Taken(p)) /\ Cardinality(Taken(p)) \in Nat
      /\ Counted(p) \in Nat /\ Sent(p) \in Nat
      /\ Counted(p) + Cardinality(InRing(p)) + Cardinality(Taken(p)) <= Sent(p)
  BY <1>1, CreditTypes DEF CreditInv
<1>3. Cardinality(InRing(p)') <= Cardinality(InRing(p)) /\ IsFiniteSet(InRing(p)')
  BY <1>2, FS_Subset
<1>4. Cardinality(InRing(p)') \in Nat BY <1>3, FS_CardinalityType
<1>5. Sent(p)' \in Nat
  <2>1. submitted'[p] \in Nat BY DEF TypeOK
  <2> QED BY <2>1 DEF Sent
<1> QED BY <1>2, <1>3, <1>4, <1>5

LEMMA CreditRx ==
  ASSUME CreditInv, TypeOK', NEW p \in Pools, RxStep(p), NEW c \in Pools
  PROVE  /\ IsFiniteSet(Taken(c)')
         /\ Counted(c)' + Cardinality(InRing(c)') + Cardinality(Taken(c)') <= Sent(c)'
<1> USE DEF CreditInv, RingInv, LedgerInv
<1>0. /\ rx \in [Pools -> Receiving]
      /\ shareIds \in [0..ShareSlots - 1 -> ShareNote]
      /\ answered \in [Pools -> [Answers -> Nat]]
      /\ rx' \in [Pools -> Receiving]
  BY DEF TypeOK
<1>1. Sent(c)' = Sent(c)
  BY DEF RxStep, RxConnect, RxNoteSetup, RxAttach, RxDetach, RxDestroy, RxReceive, RxFast,
         RxTime, RxTake, RxCount, countVars, Sent
<1>2. Sent(c) \in Nat /\ Sent(c)' \in Nat BY <1>1, CreditTypes
<1>3. CASE \/ RxConnect(p) \/ RxNoteSetup(p) \/ RxAttach(p) \/ RxDetach(p) \/ RxDestroy(p)
           \/ RxReceive(p)
  <2>1. UNCHANGED <<shareIds, answered>>
    BY <1>3 DEF RxConnect, RxNoteSetup, RxAttach, RxDetach, RxDestroy, RxReceive,
                countVars, ringVars
  <2>2. /\ rx[p].pc \notin {"time", "count"} /\ rx'[p].pc \notin {"time", "count"}
        /\ \A q \in Pools \ {p} : rx'[q] = rx[q]
    <3>1. CASE RxConnect(p)
      <4>1. 1 \in Id BY LedgerAssumption DEF Id
      <4> QED BY <1>0, <3>1, <4>1 DEF RxConnect, Receiving
    <3>2. CASE RxNoteSetup(p)
      <4> DEFINE label == IF rx[p].id = Setups THEN "attach" ELSE "setup"
                 next == [[rx[p] EXCEPT !.id = @ + 1] EXCEPT !.pc = label]
      <4>1. rx[p].pc = "setup" BY <3>2 DEF RxNoteSetup
      <4>2. rx' = [rx EXCEPT ![p] = next] BY <1>0, <3>2, <4>1 DEF RxNoteSetup
      <4>3. rx[p] \in Receiving BY <1>0
      <4> HIDE DEF label
      <4>4. next.pc = label BY <4>3 DEF Receiving
      <4> HIDE DEF next
      <4>5. rx'[p] = next /\ \A q \in Pools \ {p} : rx'[q] = rx[q] BY <1>0, <4>2
      <4> QED BY <4>1, <4>4, <4>5 DEF label
    <3>3. CASE RxAttach(p) BY <3>3, RxIsDone DEF RxAttach
    <3>4. CASE RxDetach(p) BY <3>4, RxMoves DEF RxDetach, RxLabels
    <3>5. CASE RxDestroy(p) BY <3>5, RxMoves DEF RxDestroy, RxLabels
    <3>6. CASE RxReceive(p) BY <1>0, <3>6 DEF RxReceive
    <3> QED BY <1>3, <3>1, <3>2, <3>3, <3>4, <3>5, <3>6
  <2>3. Taken(c)' = Taken(c) /\ InRing(c)' = InRing(c) /\ Counted(c)' = Counted(c)
    BY <2>1, <2>2 DEF Taken, InRing, Counted
  <2> QED BY <1>1, <1>2, <2>3, AccountKept
<1>4. CASE RxFast(p) \/ RxTake(p)
  <2>1. UNCHANGED answered /\ rx[p].pc \in {"fast", "take"}
    BY <1>4 DEF RxFast, RxTake, countVars
  <2>2. CASE UNCHANGED shareIds /\ (RxAt(p, "slow") \/ RxDone(p))
    <3>1. rx'[p].pc \in {"slow", "loop"} /\ \A q \in Pools \ {p} : rx'[q] = rx[q]
      BY <2>2, RxMoves, RxIsDone DEF RxLabels
    <3>2. Taken(c)' = Taken(c) /\ InRing(c)' = InRing(c) /\ Counted(c)' = Counted(c)
      BY <2>1, <2>2, <3>1 DEF Taken, InRing, Counted
    <3> QED BY <1>1, <1>2, <3>2, AccountKept
  <2>3. ASSUME NEW i \in Pending(rx[p].id), TakeShare(i), NEW label \in {"time", "count"},
               rx' = [rx EXCEPT ![p].pc = label, ![p].credit = shareIds[i].pool]
        PROVE  /\ IsFiniteSet(Taken(c)')
               /\ Counted(c)' + Cardinality(InRing(c)') + Cardinality(Taken(c)') <= Sent(c)'
    <3>1. shareIds[i].pool \in Pools /\ i \in 0..ShareSlots - 1
          /\ shareIds[i].id = rx[p].id
      BY <1>0, <2>3, TakeShareType DEF Pending
    <3>2. /\ rx'[p].pc = label /\ rx'[p].credit = shareIds[i].pool
          /\ \A q \in Pools \ {p} : rx'[q] = rx[q]
      BY <2>3, <3>1, RxMoves DEF RxLabels
    <3>3. shareIds[i].id # 0
      BY <2>1, <3>1, LedgerAssumption DEF AwaitedOnce, IsShare
    <3>4. InRing(c)' = InRing(c) \ {i}
      BY <1>0, <2>3, Zeros DEF InRing, TakeShare, NoId
    <3>5. Counted(c)' = Counted(c) BY <2>1 DEF Counted
    <3>6. CASE c = shareIds[i].pool
      <4>1. i \in InRing(c) BY <3>1, <3>3, <3>6 DEF InRing
      <4>2. Taken(c)' = Taken(c) \cup {p} /\ p \notin Taken(c)
        BY <2>1, <3>2, <3>6 DEF Taken
      <4>3. IsFiniteSet(Taken(c)) /\ IsFiniteSet(InRing(c)) BY CreditTypes
      <4>4. /\ IsFiniteSet(Taken(c)')
            /\ Cardinality(Taken(c)') = Cardinality(Taken(c)) + 1
        BY <4>2, <4>3, FS_AddElement
      <4>5. Cardinality(InRing(c)') = Cardinality(InRing(c)) - 1
        BY <3>4, <4>1, <4>3, FS_RemoveElement
      <4>6. /\ Cardinality(InRing(c)) \in Nat /\ Cardinality(Taken(c)) \in Nat
            /\ Counted(c) \in Nat
        BY <4>3, CreditTypes
      <4> QED BY <1>1, <1>2, <3>5, <4>4, <4>5, <4>6
    <3>7. CASE c # shareIds[i].pool
      <4>1. Taken(c)' = Taken(c) BY <2>1, <3>2, <3>7 DEF Taken
      <4> QED BY <1>1, <1>2, <3>4, <3>5, <4>1, AccountKept
    <3> QED BY <3>6, <3>7
  <2> QED BY <1>4, <2>2, <2>3 DEF RxFast, RxTake
<1>5. CASE RxTime(p)
  <2>1. UNCHANGED <<answered, shareIds>> BY <1>5 DEF RxTime, countVars
  <2>2. /\ \/ /\ rx[p].pc = "time" /\ rx'[p].pc = "count" /\ rx'[p].credit = rx[p].credit
           \/ rx[p].pc = "slow" /\ rx'[p].pc \in {"take", "loop"}
        /\ \A q \in Pools \ {p} : rx'[q] = rx[q]
    BY <1>5, RxMoves, RxIsDone DEF RxTime, RxLabels
  <2>3. Taken(c)' = Taken(c) /\ InRing(c)' = InRing(c) /\ Counted(c)' = Counted(c)
    BY <2>1, <2>2 DEF Taken, InRing, Counted
  <2> QED BY <1>1, <1>2, <2>3, AccountKept
<1>6. CASE RxCount(p)
  <2>1. UNCHANGED shareIds /\ rx[p].pc = "count" BY <1>6 DEF RxCount, ringVars
  <2>2. rx'[p].pc = "loop" /\ \A q \in Pools \ {p} : rx'[q] = rx[q]
    BY <1>6, RxIsDone DEF RxCount
  <2>3. InRing(c)' = InRing(c) BY <2>1 DEF InRing
  <2>4. rx[p] \in Receiving BY <1>0
  <2>5. rx[p].credit \in Pools /\ rx[p].answer \in Answers BY <2>4 DEF Receiving
  <2>6. answered' = [answered EXCEPT ![rx[p].credit][rx[p].answer] = @ + 1]
    BY <1>6 DEF RxCount
  <2>7. CASE c = rx[p].credit
    <3>1. Counted(c)' = Counted(c) + 1
      <4>1. answered[c] \in [Answers -> Nat] BY <1>0
      <4>2. answered'[c] = [answered[c] EXCEPT ![rx[p].answer] = @ + 1]
        BY <1>0, <2>5, <2>6, <2>7
      <4>3. answered[c]["accepted"] \in Nat /\ answered[c]["rejected"] \in Nat
        BY <4>1 DEF Answers
      <4>4. CASE rx[p].answer = "accepted"
        <5>1. /\ answered'[c]["accepted"] = answered[c]["accepted"] + 1
              /\ answered'[c]["rejected"] = answered[c]["rejected"]
          BY <4>1, <4>2, <4>4 DEF Answers
        <5> QED BY <4>3, <5>1 DEF Counted
      <4>5. CASE rx[p].answer = "rejected"
        <5>1. /\ answered'[c]["rejected"] = answered[c]["rejected"] + 1
              /\ answered'[c]["accepted"] = answered[c]["accepted"]
          BY <4>1, <4>2, <4>5 DEF Answers
        <5> QED BY <4>3, <5>1 DEF Counted
      <4> QED BY <2>5, <4>4, <4>5 DEF Answers
    <3>2. Taken(c)' = Taken(c) \ {p} /\ p \in Taken(c)
      BY <2>1, <2>2, <2>7 DEF Taken
    <3>3. IsFiniteSet(Taken(c)) OBVIOUS
    <3>4. /\ IsFiniteSet(Taken(c)')
          /\ Cardinality(Taken(c)') = Cardinality(Taken(c)) - 1
      BY <3>2, <3>3, FS_RemoveElement
    <3>5. /\ Cardinality(InRing(c)) \in Nat /\ Cardinality(Taken(c)) \in Nat
          /\ Counted(c) \in Nat
      BY <3>3, CreditTypes
    <3> QED BY <1>1, <1>2, <2>3, <3>1, <3>4, <3>5
  <2>8. CASE c # rx[p].credit
    <3>1. answered'[c] = answered[c] BY <1>0, <2>5, <2>6, <2>8
    <3>2. Counted(c)' = Counted(c) BY <3>1 DEF Counted
    <3>3. Taken(c)' = Taken(c) BY <2>1, <2>2, <2>8 DEF Taken
    <3> QED BY <1>1, <1>2, <2>3, <3>2, <3>3, AccountKept
  <2> QED BY <2>7, <2>8
<1> QED BY <1>3, <1>4, <1>5, <1>6 DEF RxStep

LEMMA CreditRes ==
  ASSUME CreditInv, TypeOK', ResStep, NEW c \in Pools
  PROVE  /\ IsFiniteSet(Taken(c)')
         /\ Counted(c)' + Cardinality(InRing(c)') + Cardinality(Taken(c)') <= Sent(c)'
<1> USE DEF CreditInv, RingInv, LedgerInv
<1>0. /\ shareIds \in [0..ShareSlots - 1 -> ShareNote] /\ Len(noted) \in Nat
      /\ submitted \in [Pools -> Nat] /\ res \in Submitting
      /\ IsFiniteSet(Taken(c)) /\ IsFiniteSet(InRing(c))
      /\ Cardinality(InRing(c)) \in Nat /\ Cardinality(Taken(c)) \in Nat
      /\ Counted(c) \in Nat /\ Sent(c) \in Nat
  BY CreditTypes, NotedTypes DEF TypeOK
<1>1. res.pool \in Pools BY <1>0 DEF Submitting
<1>2. UNCHANGED <<answered, rx>>
  BY DEF ResStep, ResFind, ResLock, ResWrite, ResNote, ResRequest, ResCount, countVars
<1>3. Taken(c)' = Taken(c) /\ Counted(c)' = Counted(c) BY <1>2 DEF Taken, Counted
<1>4. CASE (\E p \in Pools : ResFind(p)) \/ ResLock \/ ResWrite
  <2>1. UNCHANGED <<shareIds, submitted>> /\ res.pc \notin {"request", "count"}
    BY <1>4 DEF ResFind, ResLock, ResWrite, countVars, ringVars
  <2>2. InRing(c)' = InRing(c) BY <2>1 DEF InRing
  <2>3. Sent(c)' >= Sent(c) BY <1>0, <2>1 DEF Sent
  <2> QED BY <1>3, <2>2, <2>3, AccountKept
<1>5. CASE ResNote
  <2> DEFINE slot == Len(noted) % ShareSlots
             note == [id |-> res.id, pool |-> res.pool]
  <2>1. res.pc = "note" /\ res'.pc = "request" /\ res'.pool = res.pool
        /\ UNCHANGED submitted /\ shareIds' = [shareIds EXCEPT ![slot] = note]
    BY <1>0, <1>5 DEF ResNote, ResAt, NoteShare, countVars, Submitting
  <2>2. slot \in 0..ShareSlots - 1 BY <1>0, SlotOf
  <2>3. note.pool = res.pool OBVIOUS
  <2> HIDE DEF slot, note
  <2>4. CASE c = res.pool
    <3>1. InRing(c)' \in SUBSET (InRing(c) \cup {slot})
      BY <1>0, <2>1, <2>2 DEF InRing
    <3>2. Cardinality(InRing(c) \cup {slot}) <= Cardinality(InRing(c)) + 1
          /\ IsFiniteSet(InRing(c) \cup {slot})
      <4>1. /\ IsFiniteSet(InRing(c) \cup {slot})
            /\ Cardinality(InRing(c) \cup {slot})
                 = IF slot \in InRing(c) THEN Cardinality(InRing(c))
                                         ELSE Cardinality(InRing(c)) + 1
        BY <1>0, FS_AddElement
      <4>2. Cardinality(InRing(c)) \in Nat BY <1>0
      <4> QED BY <4>1, <4>2
    <3>3. IsFiniteSet(InRing(c)')
          /\ Cardinality(InRing(c)') <= Cardinality(InRing(c) \cup {slot})
      BY <3>1, <3>2, FS_Subset
    <3>4. Cardinality(InRing(c)') \in Nat /\ Cardinality(InRing(c) \cup {slot}) \in Nat
      BY <3>2, <3>3, FS_CardinalityType
    <3>5. Sent(c)' = Sent(c) + 1 BY <1>0, <2>1, <2>4 DEF Sent
    <3> QED BY <1>0, <1>3, <3>2, <3>3, <3>4, <3>5
  <2>5. CASE c # res.pool
    <3>1. InRing(c)' \subseteq InRing(c) BY <1>0, <2>1, <2>2, <2>3, <2>5 DEF InRing
    <3>2. Sent(c)' = Sent(c) BY <2>1, <2>5 DEF Sent
    <3> QED BY <1>0, <1>3, <3>1, <3>2, AccountKept
  <2> QED BY <2>4, <2>5
<1>6. CASE ResRequest
  <2>1. /\ res.pc = "request" /\ res'.pc = "count" /\ res'.pool = res.pool
        /\ UNCHANGED <<shareIds, submitted>>
    BY <1>0, <1>6 DEF ResRequest, ResAt, countVars, Submitting
  <2>2. InRing(c)' = InRing(c) /\ Sent(c)' = Sent(c) BY <2>1 DEF InRing, Sent
  <2> QED BY <1>0, <1>3, <2>2, AccountKept
<1>7. CASE ResCount
  <2>1. /\ res.pc = "count" /\ res'.pc = "idle" /\ UNCHANGED shareIds
        /\ submitted' = [submitted EXCEPT ![res.pool] = @ + 1]
    BY <1>7 DEF ResCount, ResDone, ResWaiting, ringVars
  <2>2. InRing(c)' = InRing(c) BY <2>1 DEF InRing
  <2>3. Sent(c)' = Sent(c)
    <3>1. submitted[c] \in Nat BY <1>0
    <3>2. CASE c = res.pool
      <4>1. submitted'[c] = submitted[c] + 1 BY <1>0, <1>1, <2>1, <3>2
      <4> QED BY <2>1, <3>1, <3>2, <4>1 DEF Sent
    <3>3. CASE c # res.pool
      <4>1. submitted'[c] = submitted[c] BY <1>0, <1>1, <2>1, <3>3
      <4> QED BY <2>1, <3>1, <3>3, <4>1 DEF Sent
    <3> QED BY <3>2, <3>3
  <2> QED BY <1>0, <1>3, <2>2, <2>3, AccountKept
<1> QED BY <1>4, <1>5, <1>6, <1>7 DEF ResStep

LEMMA CreditNext == ASSUME CreditInv, [Next]_vars PROVE CreditInv'
<1>1. RingInv' BY RingNext DEF CreditInv
<1>2. TypeOK' BY <1>1 DEF RingInv, LedgerInv
<1>3. ASSUME NEW c \in Pools
      PROVE  /\ IsFiniteSet(Taken(c)')
             /\ Counted(c)' + Cardinality(InRing(c)') + Cardinality(Taken(c)') <= Sent(c)'
  <2>1. CASE UNCHANGED vars
    <3>1. /\ Taken(c)' = Taken(c) /\ InRing(c)' = InRing(c) /\ Counted(c)' = Counted(c)
          /\ Sent(c)' = Sent(c)
      BY <2>1 DEF vars, ringVars, countVars, Taken, InRing, Counted, Sent
    <3> QED BY <3>1 DEF CreditInv
  <2>2. CASE ResStep BY <1>2, <2>2, CreditRes
  <2>3. ASSUME NEW p \in Pools, RxStep(p)
        PROVE  /\ IsFiniteSet(Taken(c)')
               /\ Counted(c)' + Cardinality(InRing(c)') + Cardinality(Taken(c)') <= Sent(c)'
    BY <1>2, <2>3, CreditRx
  <2> QED BY <2>1, <2>2, <2>3 DEF Next
<1> QED BY <1>1, <1>3 DEF CreditInv

\* A pool is credited with no more answers than it was sent shares: an answer
\* is counted once, and for the pool the share went to.
THEOREM CreditsFollowShares == Spec => []AnswersFollowShares
<1>1. CreditInv => AnswersFollowShares
  <2> SUFFICES ASSUME CreditInv, NEW p \in Pools PROVE Counted(p) <= Sent(p)
    BY DEF AnswersFollowShares, Counted, Sent
  <2>1. TypeOK /\ IsFiniteSet(Taken(p)) BY DEF CreditInv, RingInv, LedgerInv
  <2>2. /\ Cardinality(InRing(p)) \in Nat /\ Cardinality(Taken(p)) \in Nat
        /\ Counted(p) \in Nat /\ Sent(p) \in Nat
    BY <2>1, CreditTypes
  <2> QED BY <2>2 DEF CreditInv
<1> QED BY <1>1, CreditInit, CreditNext, PTL DEF Spec
=============================================================================
