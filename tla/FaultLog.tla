------------------------------- MODULE FaultLog -------------------------------
(***************************************************************************)
(* The fault history of main/m45_fault_log.c: the last Capacity faults, in *)
(* memory and, written as a whole after each change, in flash.  A write     *)
(* that fails leaves memory ahead of flash until the next one.  The page   *)
(* that lists the faults and asks to remove one holds its list for as long *)
(* as it likes, across restarts.                                           *)
(***************************************************************************)
EXTENDS Naturals, Sequences, FiniteSets, SequencesExt

CONSTANTS
    Capacity,       \* M45_FAULT_LOG_CAPACITY
    Messages,       \* fault messages
    SameFault,      \* the five seconds in which a repeated message is one fault
    MaxUptime,      \* bound: uptime of a boot
    MaxFaults,      \* bound: faults recorded in a behaviour
    MaxBoots        \* bound: boots

ASSUME FaultLogAssumption ==
    Capacity \in Nat \ {0} /\ SameFault \in Nat /\ MaxFaults \in Nat /\ MaxBoots \in Nat

VARIABLES
    faults,         \* g_faults.entries, oldest first
    nextId,         \* g_faults.next_id
    stored,         \* the blob in NVS
    uptime, boots,  \* seconds since this boot; boots so far
    page,           \* the entries of the page's list (faults_get_handler)
    mistaken,       \* history: a removal took another fault than the listed one
    rewound,        \* history: identifiers already given were taken back
    recorded        \* history: faults recorded so far

faultVars == <<faults, nextId, stored, uptime, boots, page, mistaken, rewound, recorded>>

Reset == [faults |-> <<>>, nextId |-> 1]

FaultLogInit ==
    /\ faults = <<>> /\ nextId = 1 /\ stored = Reset
    /\ uptime = 0 /\ boots = 1 /\ page = {}
    /\ mistaken = FALSE /\ rewound = FALSE /\ recorded = 0

\* fault_store_save_locked: the write may fail; the caller only warns.
Save(entries, id) ==
    /\ faults' = entries /\ nextId' = id
    /\ stored' \in {stored, [faults |-> entries, nextId |-> id]}

IsRepeat(message) ==
    /\ faults # <<>>
    /\ LET latest == Last(faults) IN
         /\ latest.message = message
         /\ uptime \in latest.uptime .. latest.uptime + SameFault

RecordFault(message) ==
    /\ recorded < MaxFaults
    /\ recorded' = recorded + 1
    /\ IF IsRepeat(message)
       THEN UNCHANGED <<faults, nextId, stored>>
       ELSE LET kept == IF Len(faults) = Capacity THEN Tail(faults) ELSE faults IN
            Save(Append(kept, [id |-> nextId, message |-> message, uptime |-> uptime,
                               fault |-> recorded]),
                 nextId + 1)
    /\ UNCHANGED <<uptime, boots, page, mistaken, rewound>>

\* The page reads the list, newest first: the order carries nothing here.
ListFaults ==
    /\ page' = Range(faults)
    /\ UNCHANGED <<faults, nextId, stored, uptime, boots, mistaken, rewound, recorded>>

\* The page asks for a listed entry to be removed; only its id travels.
RemoveFault(listed) ==
    /\ listed \in page
    /\ \E i \in DOMAIN faults :
         /\ faults[i].id = listed.id
         /\ \A k \in 1 .. i - 1 : faults[k].id # listed.id
         /\ Save(RemoveAt(faults, i), nextId)
         /\ mistaken' = (mistaken \/ faults[i].fault # listed.fault)
    /\ page' = page \ {listed}
    /\ UNCHANGED <<uptime, boots, rewound, recorded>>

\* Broken variant: the history starts over, identifiers included.
ClearFaultsAndIds ==
    /\ Save(<<>>, 1)
    /\ UNCHANGED <<uptime, boots, page, mistaken, rewound, recorded>>

ClearFaults ==
    /\ Save(<<>>, nextId)
    /\ UNCHANGED <<uptime, boots, page, mistaken, rewound, recorded>>

\* A restart reads the blob back (m45_fault_log_init); a factory reset or a
\* downgrade has erased it, and a blob that is not valid counts for nothing.
FaultReboot ==
    /\ boots < MaxBoots
    /\ boots' = boots + 1 /\ uptime' = 0
    /\ \E loaded \in {stored, Reset} :
         /\ faults' = loaded.faults /\ nextId' = loaded.nextId
         /\ stored' = loaded
         /\ rewound' = (rewound \/ loaded.nextId < nextId)
    /\ UNCHANGED <<page, mistaken, recorded>>

TimePasses ==
    /\ uptime < MaxUptime
    /\ uptime' = uptime + 1
    /\ UNCHANGED <<faults, nextId, stored, boots, page, mistaken, rewound, recorded>>

FaultLogNext ==
    \/ \E message \in Messages : RecordFault(message)
    \/ ListFaults \/ ClearFaults \/ FaultReboot \/ TimePasses
    \/ \E listed \in page : RemoveFault(listed)

-----------------------------------------------------------------------------
(* Properties *)

\* Removing an entry of the list takes the fault that was listed, however old
\* the list is and whatever was cleared, dropped or lost since
\* (m45_fault_log_remove goes by id, m45_fault_log_clear keeps next_id).  The
\* exception is a boot that started with an earlier next_id, after a failed
\* write or an erased flash: the ids it gives have been given before.
RemovesTheListedFault == mistaken => rewound
=============================================================================
