---------------------------- MODULE PoolScheduler ----------------------------
(***************************************************************************)
(* Which pool the next job is for, in multi-pool mode                      *)
(* (src/main/stratum_minimal.c: job_task, pool_slice_scheduler_next).      *)
(*                                                                         *)
(* Jobs are handed out in frames of FrameJobs, apportioned to the pools    *)
(* that are ready by their weights; a pool's part is cut into slices of at *)
(* most SliceMaxJobs, and the slices of the pools are interleaved by       *)
(* smooth weighted round robin.  A frame starts over when the weights of   *)
(* the ready pools change.  Pools become ready and unready at any time,    *)
(* weights are saved, mining pauses and sends fail.                        *)
(***************************************************************************)
EXTENDS Integers, FiniteSetsExt

CONSTANTS
    FrameJobs,     \* STRATUM_POOL_SCHEDULER_FRAME_JOBS (code: 80)
    SliceMaxJobs,  \* STRATUM_POOL_SLICE_MAX_JOBS (code: 12)
    Weightings,    \* the weights of the pools a user may save
    MaxDisturbances \* bound: pools lost or found, saves, pauses, failed sends

\* Only the two auxiliary pools have weights while multi-pool mode is on
\* (configured_pool_weight), and a frame is cut into seven or eight slices.
ASSUME SchedulerAssumption ==
    /\ FrameJobs \in Nat /\ SliceMaxJobs \in Nat /\ MaxDisturbances \in Nat
    /\ 8 <= SliceMaxJobs /\ 6 * SliceMaxJobs < FrameJobs /\ FrameJobs <= 7 * SliceMaxJobs
    /\ Weightings \subseteq [{1, 2} -> Nat \ {0}]

VARIABLES
    weights,      \* the configured weights, by pool
    readyPools,   \* the pools job_pool_ready holds of
    frameWeight, jobsLeft, chunksLeft, smooth, \* pool_slice_scheduler_t
    sliceOf, sliceJobs, \* active_pool (0: none), active_slice_jobs
    served,       \* history: jobs sent since the frame was built, by pool
    cutShort,     \* history: a slice of this frame was given up
    disturbances

frameVars == <<frameWeight, jobsLeft, chunksLeft, smooth>>
sliceVars == <<sliceOf, sliceJobs>>
schedulerVars == <<weights, readyPools, frameVars, sliceVars, served, cutShort,
                   disturbances>>

WeightedPool == DOMAIN weights
SumOver(f, pools) == MapThenSumSet(LAMBDA p : f[p], pools)
Total(f) == SumOver(f, DOMAIN f)
Zero == [p \in WeightedPool |-> 0]

SchedulerInit ==
    /\ weights \in Weightings
    /\ readyPools = WeightedPool
    /\ frameWeight = Zero /\ jobsLeft = Zero /\ chunksLeft = Zero /\ smooth = Zero
    /\ sliceOf = 0 /\ sliceJobs = 0
    /\ served = Zero /\ cutShort = FALSE
    /\ disturbances = 0

-----------------------------------------------------------------------------
(* A frame *)

\* ready_pool_weights
EffectiveWeights == [p \in WeightedPool |-> IF p \in readyPools THEN weights[p] ELSE 0]

Rank(f, p) == Cardinality({q \in DOMAIN f : f[q] > f[p] \/ (f[q] = f[p] /\ q < p)})

\* Mutant: the jobs that are left over go to the last pools.
LeftoversToLast(w) ==
    LET quota == [p \in DOMAIN w |-> (w[p] * FrameJobs) \div Total(w)]
        left == FrameJobs - Total(quota)
    IN [p \in DOMAIN w |-> quota[p] + (IF p = Cardinality(DOMAIN w) THEN left ELSE 0)]

\* Quotas rounded down; a pool that got none gets one while jobs are left
\* over; the rest of them go to the largest remainders, the first pool first.
\* (Jobs never exceed the frame, so none are taken back.)
Apportion(w) ==
    LET quota == [p \in DOMAIN w |-> (w[p] * FrameJobs) \div Total(w)]
        remainder == [p \in DOMAIN w |-> (w[p] * FrameJobs) % Total(w)]
        left == FrameJobs - Total(quota)
        empty == {p \in DOMAIN w : w[p] > 0 /\ quota[p] = 0}
        least == {p \in empty : Cardinality({q \in empty : q < p}) < left}
        rest == left - Cardinality(least)
    IN [p \in DOMAIN w |-> quota[p] + (IF p \in least THEN 1 ELSE 0)
                                    + (IF w[p] > 0 /\ Rank(remainder, p) < rest THEN 1 ELSE 0)]

Chunks(jobs) == (jobs + SliceMaxJobs - 1) \div SliceMaxJobs

HasWork == \E p \in WeightedPool : jobsLeft[p] > 0 /\ chunksLeft[p] > 0
NewFrame == frameWeight # EffectiveWeights \/ ~HasWork

\* What pool_slice_scheduler_next chooses from: the frame it found, or the one
\* it builds.
Frame ==
    IF NewFrame
    THEN LET jobs == Apportion(EffectiveWeights) IN
         [jobs |-> jobs, chunks |-> [p \in WeightedPool |-> Chunks(jobs[p])], smooth |-> Zero]
    ELSE [jobs |-> jobsLeft, chunks |-> chunksLeft, smooth |-> smooth]

-----------------------------------------------------------------------------
(* job_task *)

\* The choice: every pool gains the chunks it has left, the one with the most
\* is served and pays for all.  Its slice is an even part of what it has left.
NextSlice ==
    LET f == Frame
        able == {p \in readyPools : f.jobs[p] > 0 /\ f.chunks[p] > 0}
        gained == [p \in WeightedPool |-> IF p \in able THEN f.smooth[p] + f.chunks[p]
                                                        ELSE f.smooth[p]]
    IN
    \E next \in able :
      /\ \A q \in able : gained[q] < gained[next] \/ (gained[q] = gained[next] /\ next <= q)
      /\ LET slice == (f.jobs[next] + f.chunks[next] - 1) \div f.chunks[next] IN
         /\ sliceOf' = next
         /\ sliceJobs' = slice
         /\ jobsLeft' = [f.jobs EXCEPT ![next] = @ - slice]
         /\ chunksLeft' = [f.chunks EXCEPT ![next] = @ - 1]
         /\ smooth' = [gained EXCEPT ![next] = @ - SumOver(f.chunks, able)]

\* A job is due and no slice is being served.
ChooseSlice ==
    /\ readyPools # {} /\ sliceJobs = 0
    /\ NextSlice
    /\ frameWeight' = EffectiveWeights
    /\ IF NewFrame THEN served' = Zero /\ cutShort' = FALSE ELSE UNCHANGED <<served, cutShort>>
    /\ UNCHANGED <<weights, readyPools, disturbances>>

\* generate_and_send_work sends a job of the slice.
SendSliceJob ==
    /\ sliceJobs > 0 /\ sliceOf \in readyPools
    /\ sliceJobs' = sliceJobs - 1
    /\ served' = [served EXCEPT ![sliceOf] = @ + 1]
    /\ UNCHANGED <<weights, readyPools, frameVars, sliceOf, cutShort, disturbances>>

GiveSliceUp ==
    /\ sliceOf' = 0 /\ sliceJobs' = 0
    /\ cutShort' = (cutShort \/ sliceJobs > 0)
    /\ UNCHANGED <<weights, readyPools, frameVars, served>>

\* The pool of the slice is not ready any more.
SliceLost ==
    /\ sliceOf # 0 /\ sliceOf \notin readyPools
    /\ GiveSliceUp /\ UNCHANGED disturbances

Disturb == disturbances < MaxDisturbances /\ disturbances' = disturbances + 1

\* The send is refused, or mining is paused or nothing is ready.  The frame
\* goes on where it was.
SendFails == sliceOf # 0 /\ Disturb /\ GiveSliceUp

\* The work of a pool is superseded, its connection lost; or new work arrives.
ReadinessChanges(p) ==
    /\ Disturb
    /\ readyPools' = IF p \in readyPools THEN readyPools \ {p} ELSE readyPools \cup {p}
    /\ UNCHANGED <<weights, frameVars, sliceVars, served, cutShort>>

SaveWeights(w) ==
    /\ Disturb /\ w # weights
    /\ weights' = w
    /\ UNCHANGED <<readyPools, frameVars, sliceVars, served, cutShort>>

SchedulerNext ==
    \/ ChooseSlice \/ SendSliceJob \/ SliceLost \/ SendFails
    \/ \E p \in WeightedPool : ReadinessChanges(p)
    \/ \E w \in Weightings : SaveWeights(w)

-----------------------------------------------------------------------------
(* Properties *)

\* Over a frame no slice of which was given up, each pool is sent its part of
\* the jobs by weight to within one job, and none that is ready goes without;
\* on the way no pool is more than a slice ahead of its part
\* (pool_slice_scheduler_build_frame, pool_slice_scheduler_next).
SharesFollowWeights ==
    LET whole == Total(frameWeight)
        sent == Total(served)
        Part(p) == served[p] * whole - sent * frameWeight[p]
    IN
    ~cutShort => \A p \in WeightedPool :
        /\ Part(p) <= SliceMaxJobs * whole
        /\ sent = FrameJobs => /\ Part(p) < whole /\ Part(p) > -whole
                               /\ frameWeight[p] > 0 => served[p] > 0
=============================================================================
