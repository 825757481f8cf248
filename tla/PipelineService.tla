--------------------------- MODULE PipelineService ---------------------------
(***************************************************************************)
(* WorkPipeline with a history variable that records what was last put on  *)
(* the queue for a pool.  It constrains no step.                           *)
(***************************************************************************)
EXTENDS WorkPipeline

VARIABLE fed   \* the epochs of the last work that reached the queue, by pool

hvars == <<vars, fed>>

\* A successful xQueueSend in enqueue_work.
Queues(p) == pc[p] \in {"send", "resend"} /\ queue' # queue /\ draft'[p] = None

RecordFed ==
    fed' = [p \in Pools |->
              IF Queues(p) THEN <<draft[p].epoch, draft[p].poolEpoch>> ELSE fed[p]]

HInit == Init /\ fed = [p \in Pools |-> <<>>]
HSpec == HInit /\ [][Next /\ RecordFed]_hvars
HLiveSpec == HSpec /\ Fairness

-----------------------------------------------------------------------------

\* The queue was given work for p that no reset has superseded since.
Fed(p) == fed[p] = <<workEpoch, poolEpoch[p]>>
Mining(p) == \E w \in JobsOnChip : w.pool = p /\ Current(w)

\* With one pool, work that reaches the queue and stays current is dispatched,
\* unless mining is left paused: no marker, drain or rotation of the queue
\* leaves the miner idle on live work.  (handle_mining_notify_work, job_task)
FreshWorkIsMined ==
    <>[]~paused => \A p \in Pools : Fed(p) ~> (Mining(p) \/ ~Fed(p))

=============================================================================
