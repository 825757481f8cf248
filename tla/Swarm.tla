-------------------------------- MODULE Swarm --------------------------------
(***************************************************************************)
(* The table of peers of src/main/wifi_swarm.c.  A request starts a task   *)
(* that asks every host of the local /24, then the peers added by hand,    *)
(* and at last drops the entries that are neither added by hand nor were   *)
(* seen by this scan; another request starts a task that asks one address  *)
(* and lists it as added by hand.  A peer may go or come at any time.      *)
(*                                                                         *)
(* What a peer tells of itself is left out, and so is the order of the     *)
(* table, where no address is twice.  The mutex is held for a few          *)
(* instructions only: that one of its one-second waits fails is left out.  *)
(***************************************************************************)
EXTENDS Naturals, FiniteSets, Functions

CONSTANTS
    Hosts,           \* addresses of the local network, 1 .. Hosts
    Remote,          \* addresses outside it
    TableSize,       \* SWARM_MAX_DEVICES
    MaxPeerChanges,  \* bound: peers that come or go
    MaxAdded         \* bound: addresses added by hand

ASSUME SwarmAssumption ==
    /\ Hosts \in Nat /\ TableSize \in Nat /\ Remote \cap 1 .. Hosts = {}

VARIABLES
    answering,     \* the peers that answer
    devices,       \* g_devices, by ip: [manual, and whether seen since the scan began]
    scanRunning,   \* g_scan_running
    scanAt,        \* the scan task: "none", "begin", "host", "manual" or "prune"
    scanLeft,      \* what it has still to ask
    added,         \* add tasks that have an answer and are to store it
    found, byHand, \* history: what this scan has stored, what was ever added by hand
    peerChanges, additions

scanVars == <<scanRunning, scanAt, scanLeft>>
swarmVars == <<answering, devices, scanVars, added, found, byHand, peerChanges, additions>>

Peers == 1 .. Hosts \cup Remote

SwarmInit ==
    /\ answering \in SUBSET Peers
    /\ devices = << >>                      \* the function of no arguments
    /\ scanRunning = FALSE /\ scanAt = "none" /\ scanLeft = {}
    /\ added = {} /\ found = {} /\ byHand = {}
    /\ peerChanges = 0 /\ additions = 0

Device(ip, manual, seen) == [ip |-> ip, manual |-> manual, seen |-> seen]

IsListed(ip) == ip \in DOMAIN devices
HasRoom == Cardinality(DOMAIN devices) < TableSize

\* What an entry that is stored again keeps: that it was added by hand.
Stored(device, ip) ==
    [manual |-> device.manual \/ (IsListed(ip) /\ devices[ip].manual), seen |-> device.seen]

\* store_device: an entry is replaced, a full table refuses a new one.
Store(device) ==
    devices' =
        IF IsListed(device.ip) \/ HasRoom
        THEN [ip \in DOMAIN devices \cup {device.ip} |->
                 IF ip = device.ip THEN Stored(device, ip) ELSE devices[ip]]
        ELSE devices

-----------------------------------------------------------------------------
(* The scan *)

OthersStay == UNCHANGED <<answering, added, byHand, peerChanges, additions>>

\* start_scan: one scan at a time.
StartScan ==
    /\ ~scanRunning
    /\ scanRunning' = TRUE /\ scanAt' = "begin"
    /\ OthersStay /\ UNCHANGED <<devices, scanLeft, found>>

\* No memory for the task.
ScanNotCreated ==
    /\ scanAt = "begin"
    /\ scanRunning' = FALSE /\ scanAt' = "none"
    /\ OthersStay /\ UNCHANGED <<devices, scanLeft, found>>

\* scan_task notes the time it began.
BeginScan ==
    /\ scanAt = "begin"
    /\ devices' = [ip \in DOMAIN devices |-> [devices[ip] EXCEPT !.seen = FALSE]]
    /\ added' = {[device EXCEPT !.seen = FALSE] : device \in added}
    /\ scanAt' = "host" /\ scanLeft' = 1 .. Hosts /\ found' = {}
    /\ UNCHANGED <<answering, scanRunning, byHand, peerChanges, additions>>

\* A host of the network, or a peer added by hand, is asked and answers or not.
AskPeer(ip, manual) ==
    /\ scanLeft' = scanLeft \ {ip}
    /\ IF ip \in answering
       THEN /\ Store(Device(ip, manual, TRUE))
            /\ found' = found \cup ({ip} \cap DOMAIN devices')
       ELSE UNCHANGED <<devices, found>>
    /\ OthersStay /\ UNCHANGED <<scanRunning, scanAt>>

AskHost ==
    /\ scanAt = "host"
    /\ \E ip \in scanLeft : (\A other \in scanLeft : ip <= other) /\ AskPeer(ip, FALSE)

AskManual == scanAt = "manual" /\ \E ip \in scanLeft : AskPeer(ip, TRUE)

\* manual_ips is copied.
HostsAsked ==
    /\ scanAt = "host" /\ scanLeft = {}
    /\ scanLeft' = {ip \in DOMAIN devices : devices[ip].manual}
    /\ scanAt' = "manual"
    /\ OthersStay /\ UNCHANGED <<devices, scanRunning, found>>

\* For the checks of the properties: who did not answer is kept, as last known.
KeepLastKnown == devices

\* The entries a scan leaves.
Kept == Restrict(devices, {ip \in DOMAIN devices : devices[ip].manual \/ devices[ip].seen})

Prune ==
    /\ scanAt = "manual" /\ scanLeft = {}
    /\ devices' = Kept
    /\ scanAt' = "prune"
    /\ OthersStay /\ UNCHANGED <<scanRunning, scanLeft, found>>

ScanDone ==
    /\ scanAt = "prune"
    /\ scanRunning' = FALSE /\ scanAt' = "none"
    /\ OthersStay /\ UNCHANGED <<devices, scanLeft, found>>

ScanStep == BeginScan \/ AskHost \/ AskManual \/ HostsAsked \/ Prune \/ ScanDone

-----------------------------------------------------------------------------
(* Addresses added by hand, and the peers themselves *)

\* add_task has asked the address; without an answer nothing comes of it.
AddressAnswers(ip) ==
    /\ ip \in answering /\ additions < MaxAdded
    /\ additions' = additions + 1
    /\ added' = added \cup {Device(ip, TRUE, TRUE)}
    /\ UNCHANGED <<answering, devices, scanVars, found, byHand, peerChanges>>

AddressStored(device) ==
    /\ Store(device)
    /\ added' = added \ {device}
    /\ byHand' = byHand \cup ({device.ip} \cap DOMAIN devices')
    /\ UNCHANGED <<answering, scanVars, found, peerChanges, additions>>

PeerComesOrGoes(ip) ==
    /\ peerChanges < MaxPeerChanges /\ peerChanges' = peerChanges + 1
    /\ answering' = IF ip \in answering THEN answering \ {ip} ELSE answering \cup {ip}
    /\ UNCHANGED <<devices, scanVars, added, found, byHand, additions>>

SwarmNext ==
    \/ StartScan \/ ScanNotCreated \/ ScanStep
    \/ \E ip \in Peers : AddressAnswers(ip) \/ PeerComesOrGoes(ip)
    \/ \E device \in added : AddressStored(device)

\* The tasks run, and every fetch times out.
SwarmFairness ==
    /\ WF_swarmVars(ScanStep)
    /\ WF_swarmVars(\E device \in added : AddressStored(device))

-----------------------------------------------------------------------------
(* Properties *)

\* What a scan has stored is listed until the next one begins, and what was added by
\* hand for ever, though scan and add tasks store over each other's entries: an older
\* answer to an add task may replace a newer one of the scan, and a scan that finds a
\* peer added by hand stores it as found (store_device, the end of scan_task).
StoredPeersStay == found \cup byHand \subseteq DOMAIN devices

\* What the table must have room for: who answers on the local network, and
\* what was added by hand.
Wanted == (answering \cap 1 .. Hosts) \cup {ip \in DOMAIN devices : devices[ip].manual}

\* A peer of the local network that answers is finally listed and stays so, if
\* the table has room for those that answer and those added by hand, and scans
\* are begun again and again (the page does it while it is open): entries of
\* peers that are gone, which may have filled the table when this one came, do
\* not keep it out (scan_task, store_device, docs/json-endpoints.md:550-560).
PeerIsListed ==
    []<>(scanAt = "host") /\ <>[](Cardinality(Wanted) <= TableSize)
        => \A ip \in 1 .. Hosts : <>[](ip \in answering) => <>[]IsListed(ip)
=============================================================================
