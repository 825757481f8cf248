----------------------------- MODULE WorkOrders ------------------------------
(***************************************************************************)
(* What the work pipeline promises, without its queue, tasks and lock: the *)
(* pools' orders are superseded at one instant, and from that instant none *)
(* of the jobs made from them counts; and a miner that has become quiet    *)
(* gets no job until someone resumes mining.                               *)
(***************************************************************************)
CONSTANTS Pools, Slots, Eras, None

VARIABLES
    era,    \* the present era of each pool
    chip,   \* the jobs that count: [pool, era] or None, by slot
    asked,  \* someone asked for a pause and no one has resumed since
    quiet   \* the pause has taken effect

ovars == <<era, chip, asked, quiet>>

Order == [pool : Pools, era : Eras]
Empty == [s \in Slots |-> None]

OInit == era \in [Pools -> Eras] /\ chip = Empty /\ asked = FALSE /\ quiet = FALSE

\* The pools P start a new era: their jobs are void.  That may leave a miner
\* that was asked to pause without any.
Supersede(P) ==
    /\ era' \in [Pools -> Eras]
    /\ \A p \in Pools : p \in P <=> era'[p] # era[p]
    /\ chip' = [s \in Slots |-> IF chip[s] # None /\ chip[s].pool \in P
                                THEN None ELSE chip[s]]
    /\ UNCHANGED <<asked, quiet>>

\* A job of the present era goes into a slot of a miner that is not quiet.
Dispatch(s, p) ==
    /\ ~quiet
    /\ chip' = [chip EXCEPT ![s] = [pool |-> p, era |-> era[p]]]
    /\ UNCHANGED <<era, asked, quiet>>

\* Jobs are taken back while their era lasts: a resume empties the chip too.
Recall == chip' = Empty /\ UNCHANGED <<era, asked, quiet>>

\* A pause is asked for, and may take effect at once on an empty chip.
AskPause == asked' = TRUE /\ (quiet' = quiet \/ chip = Empty) /\ UNCHANGED <<era, chip>>
Quieten == asked /\ quiet' = TRUE /\ chip' = Empty /\ UNCHANGED <<era, asked>>
Resume == asked' = FALSE /\ quiet' = FALSE /\ UNCHANGED <<era, chip>>

ONext ==
    \/ \E P \in (SUBSET Pools) \ {{}} : Supersede(P)
    \/ \E s \in Slots, p \in Pools : Dispatch(s, p)
    \/ Recall \/ AskPause \/ Quieten \/ Resume

OSpec == OInit /\ [][ONext]_ovars

-----------------------------------------------------------------------------

\* Jobs on the chip are of the present era, and a quiet chip is an empty chip
\* that someone asked for.
OrdersStand ==
    /\ \A s \in Slots : chip[s] # None => chip[s].era = era[chip[s].pool]
    /\ quiet => asked /\ chip = Empty

=============================================================================
