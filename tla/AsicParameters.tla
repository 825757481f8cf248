--------------------------- MODULE AsicParameters ----------------------------
(***************************************************************************)
(* The version mask and the ticket difficulty of the chip                  *)
(* (src/main/stratum_minimal.c: ensure_asic_version_mask,                  *)
(* ensure_asic_job_difficulty).                                            *)
(*                                                                         *)
(* The program keeps a cache of what it last wrote to each register and    *)
(* writes when the cache differs from what a job needs: job_task before    *)
(* each job and, in single-pool mode, the receive task when the pool       *)
(* changes the parameter.  Neither takes a lock across the comparison, the *)
(* write and the cache.  Power-on writes the defaults to the registers and *)
(* does not tell the caches.                                               *)
(***************************************************************************)
EXTENDS Naturals

CONSTANTS
    WeightedPools, \* the pools of multi-pool mode; 0 is the one of single-pool mode
    VersionMasks, AnyMask,  \* the masks pools announce; STRATUM_DEFAULT_VERSION_MASK
    Difficulties, ChipDifficulty, \* the pools' difficulties; the chip family's
    MaxAnnouncements, \* bound: parameters announced
    MaxPowerCycles    \* bound: times the chip is switched off

ASSUME ParametersAssumption ==
    /\ Difficulties \subseteq Nat \ {0} /\ ChipDifficulty \in Nat
    /\ AnyMask \in VersionMasks /\ 0 \notin WeightedPools

VARIABLES
    mined,     \* the pools of the mode
    announced, \* pool_difficulty and version_mask of each session
    work,      \* job_task's work: the parameters it was queued with, by pool
    cache,     \* g_current_asic_version_mask, g_current_asic_job_difficulty
    register,  \* what the chip has
    power,     \* "off", "starting", "up" (ASIC_initalized)
    caller,    \* a receive task and job_task: where each is in the functions
    superseded,\* a reset ran since job_task picked its work
    stale,     \* history: the registers the cache may be wrong about
    alone,     \* history: the task had the functions and the chip to itself
    announcements, powerCycles

asicParamVars == <<mined, announced, work, cache, register, power, caller, superseded,
                   stale, alone, announcements, powerCycles>>

Single == mined = {0}
NoWork == [mask |-> AnyMask, diff |-> 0]
Written == [mask |-> AnyMask, diff |-> ChipDifficulty]
Idle == [at |-> "idle", pool |-> 0, wants |-> NoWork, then |-> "idle"]

\* stratum_minimal_start, after the chip came up: the cache knows the mask
\* BM1370_init wrote, and no difficulty.
AsicInit ==
    /\ mined \in {{0}, WeightedPools}
    /\ announced \in [mined -> [mask : {AnyMask}, diff : Difficulties]]
    /\ work = [p \in mined |-> NoWork]
    /\ cache = NoWork
    /\ register = Written
    /\ power = "up"
    /\ caller = [rx |-> Idle, job |-> Idle]
    /\ superseded = FALSE
    /\ stale = {} /\ alone = [rx |-> FALSE, job |-> FALSE]
    /\ announcements = 0 /\ powerCycles = 0

-----------------------------------------------------------------------------
(* The two functions.  Task t needs caller[t].wants and goes on to           *)
(* caller[t].then.                                                           *)

CallerAt(t, label) == caller' = [caller EXCEPT ![t].at = label]
Returns(t) == CallerAt(t, caller[t].then)
\* job_task calls both, the mask's first.
MaskReturns(t) == IF t = "job" THEN CallerAt(t, "diff") ELSE Returns(t)

EnsureUnchanged ==
    UNCHANGED <<mined, announced, work, power, superseded, announcements, powerCycles>>

\* A task that brings the chip a new value does so alone when the chip is up
\* and the other task is not at it too, to the end.
Steps == [mask |-> {"writeMask", "storeMask"}, diff |-> {"writeDiff"}]

Begins(t, r) ==
    LET crossed == {u \in {"rx", "job"} \ {t} : caller[u].at \in Steps[r]} IN
    alone' = [u \in {"rx", "job"} |->
                 IF u = t THEN power = "up" /\ crossed = {}
                          ELSE alone[u] /\ u \notin crossed]

\* What a task brings alone ends what the cache may be wrong about.
Ends(t, r) == stale' = IF alone[t] THEN stale \ {r} ELSE stale \cup {r}

\* The cache says the chip has the mask: nothing to do.
CompareMask(t) ==
    /\ caller[t].at = "mask"
    /\ IF cache.mask = caller[t].wants.mask
       THEN MaskReturns(t) /\ UNCHANGED alone
       ELSE CallerAt(t, "writeMask") /\ Begins(t, "mask")
    /\ EnsureUnchanged /\ UNCHANGED <<cache, register, stale>>

\* BM1370_set_version_mask, BM1370_set_job_difficulty: only on an initialised chip.
WriteRegister(t, r) ==
    register' = IF power = "up" THEN [register EXCEPT ![r] = caller[t].wants[r]]
                ELSE register

WriteMask(t) ==
    /\ caller[t].at = "writeMask"
    /\ WriteRegister(t, "mask")
    /\ CallerAt(t, "storeMask")
    /\ EnsureUnchanged /\ UNCHANGED <<cache, stale, alone>>

\* Mutant: the cache is not told.
StoreNothing(t) ==
    /\ caller[t].at = "storeMask"
    /\ Ends(t, "mask")
    /\ MaskReturns(t)
    /\ EnsureUnchanged /\ UNCHANGED <<cache, register, alone>>

StoreMask(t) ==
    /\ caller[t].at = "storeMask"
    /\ cache' = [cache EXCEPT !.mask = caller[t].wants.mask]
    /\ Ends(t, "mask")
    /\ MaskReturns(t)
    /\ EnsureUnchanged /\ UNCHANGED <<register, alone>>

\* Compared and stored in one critical section, written after it.
StoreDifficulty(t) ==
    /\ caller[t].at = "diff"
    /\ cache' = [cache EXCEPT !.diff = caller[t].wants.diff]
    /\ IF cache.diff = caller[t].wants.diff
       THEN Returns(t) /\ UNCHANGED alone
       ELSE CallerAt(t, "writeDiff") /\ Begins(t, "diff")
    /\ EnsureUnchanged /\ UNCHANGED <<register, stale>>

WriteDifficulty(t) ==
    /\ caller[t].at = "writeDiff"
    /\ WriteRegister(t, "diff")
    /\ Ends(t, "diff")
    /\ Returns(t)
    /\ EnsureUnchanged /\ UNCHANGED <<cache, alone>>

EnsureStep ==
    \E t \in {"rx", "job"} :
        CompareMask(t) \/ WriteMask(t) \/ StoreMask(t)
            \/ StoreDifficulty(t) \/ WriteDifficulty(t)

-----------------------------------------------------------------------------
(* A receive task *)

AnnounceUnchanged == UNCHANGED <<mined, cache, register, power, stale, alone, powerCycles>>

\* The session is told first; in single-pool mode the chip is next.
Announce(p, params, first, then) ==
    /\ caller["rx"].at = "idle" /\ announcements < MaxAnnouncements
    /\ announced' = [announced EXCEPT ![p] = params]
    /\ announcements' = announcements + 1
    /\ caller' = [caller EXCEPT !["rx"] =
                     [at |-> IF Single THEN first ELSE then,
                      pool |-> p, wants |-> params, then |-> then]]
    /\ AnnounceUnchanged /\ UNCHANGED <<work, superseded>>

\* update_version_mask: a change ends in a reset of the pool's work.
AnnounceMask(p, m) ==
    /\ m # announced[p].mask
    /\ Announce(p, [announced[p] EXCEPT !.mask = m], "mask", "reset")

\* set_pool_session_difficulty and mining.set_difficulty: only a raise does.
AnnounceDifficulty(p, d) ==
    /\ d # announced[p].diff
    /\ Announce(p, [announced[p] EXCEPT !.diff = d], "diff",
                IF d > announced[p].diff THEN "reset" ELSE "idle")

\* reset_pool_or_single_work_state
ResetWork ==
    /\ caller["rx"].at = "reset"
    /\ work' = [work EXCEPT ![caller["rx"].pool] = NoWork]
    /\ superseded' = (superseded \/ caller["rx"].pool = caller["job"].pool)
    /\ caller' = [caller EXCEPT !["rx"] = Idle]
    /\ AnnounceUnchanged /\ UNCHANGED <<announced, announcements>>

\* mining.notify: work with what the session says (enqueue_work).
QueueWork(p) ==
    /\ caller["rx"].at = "idle"
    /\ work' = [work EXCEPT ![p] = announced[p]]
    /\ AnnounceUnchanged /\ UNCHANGED <<announced, announcements, caller, superseded>>

-----------------------------------------------------------------------------
(* job_task: generate_and_send_work *)

JobUnchanged ==
    UNCHANGED <<mined, announced, work, cache, register, power, stale, alone,
                announcements, powerCycles>>

PickWork(p) ==
    /\ caller["job"].at = "idle" /\ work[p] # NoWork /\ power = "up"
    /\ caller' = [caller EXCEPT !["job"] =
                     [at |-> "mask", pool |-> p, wants |-> work[p], then |-> "send"]]
    /\ superseded' = FALSE
    /\ JobUnchanged

\* BM1370_send_work, or not when the work was superseded.
SendJob ==
    /\ caller["job"].at = "send"
    /\ caller' = [caller EXCEPT !["job"] = Idle]
    /\ superseded' = FALSE
    /\ JobUnchanged

-----------------------------------------------------------------------------
(* Power *)

PowerUnchanged ==
    UNCHANGED <<mined, announced, work, cache, caller, superseded, announcements>>

SwitchOff ==
    /\ power = "up" /\ powerCycles < MaxPowerCycles
    /\ power' = "off" /\ powerCycles' = powerCycles + 1
    /\ alone' = [rx |-> FALSE, job |-> FALSE]
    /\ PowerUnchanged /\ UNCHANGED <<register, stale>>

\* BM1370_init
InitChip ==
    /\ power = "off"
    /\ power' = "starting" /\ register' = Written
    /\ PowerUnchanged /\ UNCHANGED <<stale, alone, powerCycles>>

\* ASIC_initalized.  The caches still hold what was written before.
ChipUp ==
    /\ power = "starting"
    /\ power' = "up"
    /\ stale' = stale \cup {r \in {"mask", "diff"} : register[r] # cache[r]}
    /\ PowerUnchanged /\ UNCHANGED <<register, alone, powerCycles>>

AsicNext ==
    \/ EnsureStep \/ ResetWork \/ SendJob
    \/ \E p \in mined :
         \/ \E m \in VersionMasks : AnnounceMask(p, m)
         \/ \E d \in Difficulties : AnnounceDifficulty(p, d)
         \/ QueueWork(p) \/ PickWork(p)
    \/ SwitchOff \/ InitChip \/ ChipUp

-----------------------------------------------------------------------------
(* Properties *)

\* A job goes to a chip that rolls the job's version bits and reports at the
\* job's difficulty or below, whichever pool was served before and whatever
\* its pool announced meanwhile (ensure_asic_version_mask,
\* ensure_asic_job_difficulty).  Excepted are the registers the cache is wrong
\* about, until a job needs another value: after a power cycle, which writes
\* the defaults behind the cache's back, after a write the chip was not up
\* for, and after the receive task and job_task wrote at once.
JobsUnderTheirSettings ==
    caller["job"].at = "send" /\ ~superseded /\ power = "up" /\ caller["rx"].at = "idle"
        => /\ register.mask = caller["job"].wants.mask \/ "mask" \in stale
           /\ register.diff <= caller["job"].wants.diff \/ "diff" \in stale
=============================================================================
