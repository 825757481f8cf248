------------------------------- MODULE WifiLink -------------------------------
(***************************************************************************)
(* The station link (src/main/wifi_http.c): the Wi-Fi event handler with   *)
(* its retries and the back-off task, the connection test a new network    *)
(* must pass before it is saved, and the task that rejoins after a save.   *)
(* All of them command one driver, which answers with events.              *)
(*                                                                         *)
(* A network is a name and a key.  The driver is external: it is modelled  *)
(* from how the code uses it.                                              *)
(***************************************************************************)
EXTENDS Integers, Sequences

CONSTANTS
    Networks,  \* records [ssid, key] a user may enter
    Good,      \* those an address can be had from
    Mute,      \* those that can be joined and give no address
    Home,      \* the network saved at first
    None,      \* no network: an empty SSID
    MaxRetry,  \* WIFI_MAX_RETRY
    Attempts,  \* WIFI_TEST_ATTEMPTS
    MaxDrops,  \* bound: failed attempts at good networks, and lost links
    MaxTests,  \* bound: connection tests
    MaxSaves   \* bound: saves and restarts

ASSUME WifiAssumption ==
    /\ Good \subseteq Networks /\ Mute \subseteq Networks \ Good /\ Home \in Good \cup {None} /\ None \notin Networks
    /\ MaxRetry \in Nat /\ Attempts \in Nat \ {0}
    /\ MaxDrops \in Nat /\ MaxTests \in Nat /\ MaxSaves \in Nat

VARIABLES
    saved,      \* wifi_ssid and wifi_password of the configuration
    staConf,    \* the network in the driver's configuration
    drv, link,  \* the driver's state, and the network it is at
    events,     \* from the driver, not yet handled: [kind, net]
    connected,  \* g_connected
    retries,    \* g_retry_count
    pending,    \* g_wifi_retry_backoff_pending
    backoff,    \* the back-off task is past its delay
    rejoinAt,   \* where wifi_reconnect_task is
    testAt, testNet, testSaved, attempt,  \* the test task and its locals
    active, waiting, ignore,  \* g_wifi_test_active, _waiting, _ignore_assoc_leave
    bits,       \* WIFI_TEST_CONNECTED_BIT, WIFI_TEST_FAIL_BIT
    proven,     \* g_last_wifi_test: the network that passed, or None
    drops, tests, saves,  \* so far
    \* History: the network the address that passed the test was from; what may
    \* have led the station astray since the start: "rejoin", the rejoin task
    \* was there during a test; "patch", the configuration was changed without
    \* a rejoin; "timeout", a test gave up an attempt under way; "refused", the
    \* driver refused a configuration.
    proof, astray

linkVars == <<staConf, drv, link, events>>
stationVars == <<connected, retries, pending, backoff>>
testVars == <<testAt, testNet, testSaved, attempt, active, waiting, ignore, bits, proven, proof>>
wifiVars == <<saved, linkVars, stationVars, rejoinAt, testVars, drops, tests, saves, astray>>

\* wifi_http_start up to WIFI_EVENT_STA_START, with the network net saved.
Started(net) ==
    /\ saved' = net /\ staConf' = net
    /\ drv' = (IF net = None THEN "down" ELSE "connecting") /\ link' = net
    /\ events' = << >>
    /\ connected' = FALSE /\ retries' = 0 /\ pending' = FALSE /\ backoff' = FALSE
    /\ rejoinAt' = "idle"
    /\ testAt' = "idle" /\ testNet' = None /\ testSaved' = None /\ attempt' = 0
    /\ active' = FALSE /\ waiting' = FALSE /\ ignore' = FALSE /\ bits' = {}
    /\ proven' = None /\ proof' = None
    /\ astray' = {}

WifiInit ==
    /\ saved \in {None, Home} /\ staConf = saved
    /\ drv = (IF saved = None THEN "down" ELSE "connecting") /\ link = saved
    /\ events = << >>
    /\ connected = FALSE /\ retries = 0 /\ pending = FALSE /\ backoff = FALSE
    /\ rejoinAt = "idle"
    /\ testAt = "idle" /\ testNet = None /\ testSaved = None /\ attempt = 0
    /\ active = FALSE /\ waiting = FALSE /\ ignore = FALSE /\ bits = {}
    /\ proven = None /\ proof = None
    /\ drops = 0 /\ tests = 0 /\ saves = 0
    /\ astray = {}

-----------------------------------------------------------------------------
(* The driver.                                                             *)

DriverOnly == UNCHANGED <<saved, staConf, stationVars, rejoinAt, testVars, tests, saves,
                          astray>>

Joins ==
    /\ drv = "connecting" /\ link \in Good \cup Mute
    /\ drv' = "joined"
    /\ DriverOnly /\ UNCHANGED <<link, events, drops>>

GetsAddress ==
    /\ drv = "joined" /\ link \in Good
    /\ drv' = "up" /\ events' = Append(events, [kind |-> "gotip", net |-> link])
    /\ DriverOnly /\ UNCHANGED <<link, drops>>

Drop ==
    /\ \/ drv = "connecting" /\ link \notin Good \cup Mute /\ UNCHANGED drops
       \/ drv # "down" /\ link \in Good \cup Mute /\ drops < MaxDrops /\ drops' = drops + 1
    /\ drv' = "down" /\ link' = None /\ events' = Append(events, [kind |-> "failed", net |-> None])
    /\ DriverOnly

\* set_sta_config; a driver that is connecting may refuse it.
Configure(net) ==
    \/ staConf' = net /\ UNCHANGED astray
    \/ drv = "connecting" /\ UNCHANGED staConf /\ astray' = astray \cup {"refused"}

\* esp_wifi_disconnect; its event carries WIFI_REASON_ASSOC_LEAVE.
Disconnect ==
    IF drv = "down"
    THEN UNCHANGED <<drv, link, events>>
    ELSE drv' = "down" /\ link' = None /\ events' = Append(events, [kind |-> "leave", net |-> None])

\* esp_wifi_connect; it has no effect on a driver that is not down, and nothing
\* to join without a name.
ConnectWith(queue) ==
    /\ events' = queue
    /\ IF drv = "down" /\ staConf # None
       THEN drv' = "connecting" /\ link' = staConf
       ELSE UNCHANGED <<drv, link>>

-----------------------------------------------------------------------------
(* The event handler and the back-off task.                                *)

GotAddress ==
    /\ events # << >> /\ Head(events).kind = "gotip"
    /\ connected' = TRUE /\ retries' = 0 /\ ignore' = FALSE
    /\ bits' = IF active /\ waiting THEN bits \cup {"ok"} ELSE bits
    /\ proof' = IF active /\ waiting THEN Head(events).net ELSE proof
    /\ events' = Tail(events)
    /\ UNCHANGED <<saved, staConf, drv, link, pending, backoff, rejoinAt, testAt, testNet,
                   testSaved, attempt, active, waiting, proven, drops, tests, saves,
                   astray>>

LostInTest ==
    /\ events # << >> /\ Head(events).kind # "gotip" /\ active
    /\ connected' = FALSE /\ ignore' = FALSE
    /\ bits' = IF waiting /\ ~(ignore /\ Head(events).kind = "leave")
               THEN bits \cup {"fail"} ELSE bits
    /\ events' = Tail(events)
    /\ UNCHANGED <<saved, staConf, drv, link, retries, pending, backoff, rejoinAt, testAt,
                   testNet, testSaved, attempt, active, waiting, proven, proof, drops, tests,
                   saves, astray>>

\* For the checks of the properties: after the last retry nothing is scheduled.
LostAndDone ==
    /\ events # << >> /\ Head(events).kind # "gotip" /\ ~active
    /\ connected' = FALSE
    /\ IF saved # None /\ retries < MaxRetry
       THEN retries' = retries + 1 /\ ConnectWith(Tail(events))
       ELSE events' = Tail(events) /\ UNCHANGED <<retries, drv, link>>
    /\ UNCHANGED <<saved, staConf, pending, backoff, rejoinAt, testVars, drops, tests, saves,
                   astray>>

\* A retry, or schedule_wifi_retry_backoff, which retries at once when the task
\* cannot be created.
Lost ==
    /\ events # << >> /\ Head(events).kind # "gotip" /\ ~active
    /\ connected' = FALSE
    /\ \/ /\ saved # None /\ retries < MaxRetry
          /\ retries' = retries + 1
          /\ ConnectWith(Tail(events)) /\ UNCHANGED pending
       \/ /\ saved # None /\ retries >= MaxRetry
          /\ pending' = TRUE
          /\ events' = Tail(events) /\ UNCHANGED <<drv, link, retries>>
       \/ /\ saved # None /\ retries >= MaxRetry /\ ~pending
          /\ ConnectWith(Tail(events)) /\ UNCHANGED <<pending, retries>>
       \/ /\ saved = None
          /\ events' = Tail(events) /\ UNCHANGED <<drv, link, retries, pending>>
    /\ UNCHANGED <<saved, staConf, backoff, rejoinAt, testVars, drops, tests, saves,
                   astray>>

Handle == GotAddress \/ LostInTest \/ Lost

\* The end of wifi_retry_backoff_task's delay, then its check and its retry.
BackoffWakes ==
    /\ pending /\ ~backoff
    /\ pending' = FALSE /\ backoff' = TRUE
    /\ UNCHANGED <<saved, linkVars, connected, retries, rejoinAt, testVars, drops, tests, saves,
                   astray>>

BackoffRetries ==
    /\ backoff /\ backoff' = FALSE
    /\ IF active \/ connected \/ saved = None
       THEN UNCHANGED <<drv, link, events, retries>>
       ELSE retries' = 0 /\ ConnectWith(events)
    /\ UNCHANGED <<saved, staConf, connected, pending, rejoinAt, testVars, drops, tests, saves,
                   astray>>

-----------------------------------------------------------------------------
(* The connection test: run_wifi_connection_test.  Each of its delays is   *)
(* long enough for the event task, which outranks it, to empty its queue.  *)

TestOnly == UNCHANGED <<saved, pending, backoff, rejoinAt, drops, saves>>

\* For the checks of the properties: without a look at the access point.
SavedIsEnough(net) == connected /\ saved = net

\* wifi_test_handler and the start of the task.  The mutex is held until the
\* test is over.  A station that already is on the saved network passes.
OnSaved(net) == connected /\ saved = net /\ drv \in {"joined", "up"} /\ link.ssid = net.ssid

TestStart ==
    /\ testAt = "idle" /\ tests < MaxTests /\ tests' = tests + 1
    /\ \E net \in Networks :
          IF OnSaved(net)
          THEN /\ proven' = net /\ proof' = link /\ UNCHANGED astray
               /\ UNCHANGED <<testAt, testNet, testSaved, active, waiting, ignore, bits,
                              drv, link, events>>
          ELSE /\ proven' = None /\ proof' = None
               /\ testAt' = "conf" /\ testNet' = net /\ testSaved' = saved
               /\ active' = TRUE /\ waiting' = FALSE /\ ignore' = TRUE /\ bits' = {}
               /\ astray' = IF rejoinAt = "idle" THEN astray ELSE astray \cup {"rejoin"}
               /\ Disconnect
    /\ attempt' = 0
    /\ TestOnly /\ UNCHANGED <<staConf, connected, retries>>

TestConfigure ==
    /\ testAt = "conf" /\ events = << >>
    /\ Configure(testNet) /\ testAt' = "try" /\ attempt' = 1
    /\ TestOnly
    /\ UNCHANGED <<drv, link, events, connected, retries, testNet, testSaved, active, waiting,
                   ignore, bits, proven, proof, tests>>

\* esp_wifi_connect may refuse when the driver is not down.
TestTry ==
    /\ testAt = "try" /\ events = << >>
    /\ connected' = FALSE /\ retries' = 0 /\ bits' = {}
    /\ \/ waiting' = TRUE /\ testAt' = "wait" /\ ConnectWith(events) /\ UNCHANGED ignore
       \/ /\ drv # "down"
          /\ waiting' = TRUE /\ ignore' = FALSE /\ testAt' = "end"
          /\ UNCHANGED <<drv, link, events>>
    /\ TestOnly
    /\ UNCHANGED <<staConf, testNet, testSaved, attempt, active, proven, proof, tests, astray>>

TestPasses ==
    /\ testAt = "wait" /\ "ok" \in bits
    /\ testAt' = "end" /\ bits' = {}
    /\ waiting' = FALSE /\ ignore' = FALSE
    /\ proven' = testNet
    /\ TestOnly
    /\ UNCHANGED <<linkVars, connected, retries, testNet, testSaved, attempt, active, proof,
                   tests, astray>>

\* The failure bit, or the timeout while the driver is still at it.
TestFails ==
    /\ testAt = "wait" /\ "ok" \notin bits /\ ("fail" \in bits \/ drv # "down")
    /\ bits' = {} /\ waiting' = FALSE
    /\ IF attempt < Attempts
       THEN /\ attempt' = attempt + 1 /\ ignore' = TRUE /\ testAt' = "try"
            /\ Disconnect /\ UNCHANGED astray
       ELSE /\ ignore' = FALSE /\ testAt' = "end"
            /\ astray' = IF "fail" \in bits THEN astray ELSE astray \cup {"timeout"}
            /\ UNCHANGED <<attempt, drv, link, events>>
    /\ TestOnly
    /\ UNCHANGED <<staConf, connected, retries, testNet, testSaved, active, proven, proof, tests>>

TestLeaves ==
    /\ testAt = "end"
    /\ waiting' = FALSE /\ ignore' = FALSE
    /\ testAt' = "restore"
    /\ IF connected THEN Disconnect ELSE UNCHANGED <<drv, link, events>>
    /\ TestOnly
    /\ UNCHANGED <<staConf, connected, retries, testNet, testSaved, attempt, active, bits,
                   proven, proof, tests, astray>>

TestEnded ==
    /\ testAt' = "idle" /\ testNet' = None /\ testSaved' = None /\ attempt' = 0
    /\ active' = FALSE /\ bits' = {} /\ retries' = 0
    /\ TestOnly
    /\ UNCHANGED <<connected, waiting, ignore, proven, proof, tests>>

TestRestores ==
    /\ testAt = "restore" /\ (events = << >> \/ ~connected)
    /\ Configure(testSaved)
    /\ IF testSaved # None /\ drv = "down"
       THEN drv' = "connecting" /\ link' = testSaved /\ UNCHANGED events
       ELSE UNCHANGED <<drv, link, events>>
    /\ TestEnded

TestStep == TestConfigure \/ TestTry \/ TestPasses \/ TestFails \/ TestLeaves \/ TestRestores

-----------------------------------------------------------------------------
(* Saves, and wifi_reconnect_task.                                         *)

SaveOnly == UNCHANGED <<linkVars, stationVars, testVars, drops, tests>>

\* settings_post_handler: another network needs its proof, which cannot be read
\* during a test; another hostname does not.
SaveNetwork ==
    /\ rejoinAt = "idle" /\ saves < MaxSaves /\ saves' = saves + 1
    /\ saved' \in {saved} \cup (IF testAt = "idle" THEN {proven} \ {None} ELSE {})
    /\ rejoinAt' = "sleeping"
    /\ SaveOnly /\ UNCHANGED astray

\* espminer_system_patch_handler: no proof, and no rejoin when the network changes.
Patch ==
    /\ saves < MaxSaves /\ saves' = saves + 1
    /\ \E net \in Networks \ {saved} : saved' = net
    /\ astray' = astray \cup {"patch"}
    /\ UNCHANGED rejoinAt /\ SaveOnly

\* setup_post_handler needs the proof and restarts; a user restarts at will.
\* The half second before a restart is left out.
SaveSetup ==
    /\ testAt = "idle" /\ proven # None
    /\ saves < MaxSaves /\ saves' = saves + 1
    /\ Started(proven)
    /\ UNCHANGED <<drops, tests>>

StationRestarts ==
    /\ saves < MaxSaves /\ saves' = saves + 1
    /\ Started(saved)
    /\ UNCHANGED <<drops, tests>>

RejoinOnly == UNCHANGED <<saved, connected, pending, backoff, testVars, drops, tests, saves>>

RejoinConfigures ==
    /\ rejoinAt = "sleeping" /\ rejoinAt' = "leave"
    /\ \/ staConf' = saved
          /\ astray' = IF active THEN astray \cup {"rejoin"} ELSE astray
       \/ /\ drv = "connecting" /\ UNCHANGED staConf
          /\ astray' = astray \cup {"refused"}
    /\ RejoinOnly /\ UNCHANGED <<drv, link, events, retries>>

RejoinLeaves ==
    /\ rejoinAt = "leave" /\ rejoinAt' = "join"
    /\ Disconnect
    /\ RejoinOnly /\ UNCHANGED <<staConf, retries, astray>>

RejoinConnects ==
    /\ rejoinAt = "join" /\ rejoinAt' = "idle"
    /\ IF saved # None
       THEN retries' = 0 /\ ConnectWith(events)
       ELSE UNCHANGED <<retries, drv, link, events>>
    /\ RejoinOnly /\ UNCHANGED <<staConf, astray>>

RejoinStep == RejoinConfigures \/ RejoinLeaves \/ RejoinConnects

WifiNext ==
    \/ Joins \/ GetsAddress \/ Drop
    \/ Handle \/ BackoffWakes \/ BackoffRetries
    \/ TestStart \/ TestStep
    \/ SaveNetwork \/ Patch \/ SaveSetup \/ StationRestarts
    \/ RejoinStep

-----------------------------------------------------------------------------

\* A network passes the test by an address had from that network, unless the
\* station was led astray before (wifi_http.c:736-843,
\* docs/json-endpoints.md:110, 237).
ProofIsOfNetwork == proven # None => proof = proven \/ astray # {}

\* A station whose saved network can be joined comes to it, unless it is led
\* astray: whatever the retries, the back-off, the tests and the rejoins do to
\* each other, they leave no dead link behind with nobody to bring it up
\* (wifi_http.c:984-1014, 1622-1672).
StationReturns == (saved \in Good) ~> \/ drv = "up" /\ link = saved
                                      \/ saved \notin Good \/ astray # {}

\* The driver and the tasks run; drops are bounded; nobody need save or test.
WifiFairness ==
    /\ WF_wifiVars(Joins) /\ WF_wifiVars(GetsAddress)
    /\ WF_wifiVars(drv = "connecting" /\ link \notin Good \cup Mute /\ Drop)
    /\ WF_wifiVars(Handle) /\ WF_wifiVars(BackoffWakes) /\ WF_wifiVars(BackoffRetries)
    /\ WF_wifiVars(TestStep) /\ WF_wifiVars(RejoinStep)
=============================================================================
