---------------------------- MODULE PoolSettings -----------------------------
(***************************************************************************)
(* The sessions of all pools under a save of the pool settings             *)
(* (src/main/wifi_http.c, src/main/stratum_minimal.c).  A request handler  *)
(* compares the settings with those in force, makes the new ones the       *)
(* running configuration, applies the rest of them to the hardware and     *)
(* writes the flash, and only then closes the connections of the pools the *)
(* comparison named; the receive tasks meanwhile come and go, and each     *)
(* reads the running configuration twice: for the endpoint, and for what   *)
(* it logs in with.                                                        *)
(*                                                                         *)
(* Host, port, TLS and the enabled flag of a pool are one endpoint; the    *)
(* part of the suggested difficulty that a pool's share of the weights     *)
(* scales is left out.  One connection step by step is PoolSession's.      *)
(***************************************************************************)
EXTENDS Naturals

CONSTANTS
    AuxPools,         \* the pools of the weighted mode
    PoolConfigs,      \* the settings a user saves, the first start's included
    NoHost, NoUser,   \* an empty or disabled row, an empty user
    MaxPoolChanges,   \* bound: saves
    MaxRefusals       \* bound: saves the hardware or the flash refuses

\* A row of the weighted mode has its own host, user and weight.
AuxRows == [AuxPools -> [host : STRING, user : STRING, weight : Nat]]

ASSUME PoolSettingsAssumption ==
    /\ AuxPools \subseteq Nat \ {0}
    /\ NoHost \in STRING /\ NoUser \in STRING
    /\ PoolConfigs \subseteq [multi : BOOLEAN, host : STRING, user : STRING,
                             suggest : Nat, aux : AuxRows]

VARIABLES
    poolConf,     \* the running configuration's pools
    sessions,     \* each session: where it is and what it is made with
    handler,      \* the request: "idle", "apply", "close"
    previous,     \* its old_config
    toClose,      \* pool_reconnect_mask, as far as it is not done
    missed,       \* history: sessions being made while the handler closed its pool,
                  \* or made under settings that were taken back
    poolChanges, refusals

poolSettingsVars == <<poolConf, sessions, handler, previous, toClose, missed,
                      poolChanges, refusals>>

Sessions == {0} \cup AuxPools

NoSession == [at |-> "top", host |-> NoHost, user |-> NoUser, suggest |-> 0]

PoolSettingsInit ==
    /\ poolConf \in PoolConfigs
    /\ sessions = [p \in Sessions |-> NoSession]
    /\ handler = "idle" /\ previous = poolConf /\ toClose = {}
    /\ missed = {}
    /\ poolChanges = 0 /\ refusals = 0

-----------------------------------------------------------------------------
(* What a configuration gives a pool *)

\* pool_credentials
UserOf(conf, p) ==
    IF p # 0 /\ conf.aux[p].user # NoUser THEN conf.aux[p].user ELSE conf.user

HostOf(conf, p) == IF p = 0 THEN conf.host ELSE conf.aux[p].host

\* pool_session_configured, aux_pool_configured; aux_pool_active_for_config
Configured(conf, p) ==
    /\ conf.multi <=> p # 0
    /\ HostOf(conf, p) # NoHost
    /\ p # 0 => UserOf(conf, p) # NoUser

\* What a session was made with so far is what the configuration gives.
Fits(conf, p) ==
    LET s == sessions[p] IN
    /\ Configured(conf, p) /\ s.host = HostOf(conf, p)
    /\ s.at # "dial" => s.user = UserOf(conf, p) /\ s.suggest = conf.suggest

\* active_pool_settings_reconnect_mask, of the two modes
ModeChanged(before, after) ==
    IF before.multi = after.multi THEN {}
    ELSE {p \in Sessions :
              IF p = 0 THEN \E c \in {before, after} : ~c.multi /\ c.host # NoHost
              ELSE Configured(before, p) \/ Configured(after, p)}

PrimaryChanged(before, after) ==
    IF before.host # after.host \/ before.user # after.user THEN {0} ELSE {}

\* Mutant: a row without a user of its own does not notice the default's change.
AuxRowChanged(before, after) ==
    {p \in AuxPools :
        /\ Configured(before, p) \/ Configured(after, p)
        /\ before.aux[p] # after.aux[p]}

\* ... of the rows: activity, endpoint, credentials, default user and weight
AuxChanged(before, after) ==
    {p \in AuxPools :
        /\ Configured(before, p) \/ Configured(after, p)
        /\ \/ Configured(before, p) # Configured(after, p)
           \/ before.aux[p] # after.aux[p]
           \/ Configured(after, p) /\ before.user # after.user /\ after.aux[p].user = NoUser}

\* pool_difficulty_settings_changed, configured_pool_reconnect_mask
SuggestionChanged(before, after) ==
    IF before.suggest = after.suggest THEN {}
    ELSE {p \in Sessions : Configured(before, p) \/ Configured(after, p)}

\* runtime_reconnect_flags
ReconnectMask(before, after) ==
    ModeChanged(before, after) \cup PrimaryChanged(before, after)
        \cup AuxChanged(before, after) \cup SuggestionChanged(before, after)

-----------------------------------------------------------------------------
(* The receive tasks *)

ConfigurationOnly ==
    UNCHANGED <<poolConf, handler, previous, toClose, poolChanges, refusals>>

Moves(p, session) == sessions' = [sessions EXCEPT ![p] = session]

\* select_next_pool_endpoint
Dials(p) ==
    /\ sessions[p].at = "top" /\ Configured(poolConf, p)
    /\ Moves(p, [NoSession EXCEPT !.at = "dial", !.host = HostOf(poolConf, p)])
    /\ missed' = missed \ {p}
    /\ ConfigurationOnly

\* esp_transport_connect, and send_setup_messages, which reads the
\* configuration again.
LogsIn(p) ==
    /\ sessions[p].at = "dial"
    /\ Moves(p, [sessions[p] EXCEPT !.at = "login", !.user = UserOf(poolConf, p),
                                    !.suggest = poolConf.suggest])
    /\ UNCHANGED missed /\ ConfigurationOnly

\* set_session_transport
Attaches(p) ==
    /\ sessions[p].at = "login"
    /\ Moves(p, [sessions[p] EXCEPT !.at = "open"])
    /\ UNCHANGED missed /\ ConfigurationOnly

\* An attempt fails, a connection is lost, or the task finds its transport
\* closed.
SessionEnds(p) ==
    /\ sessions[p].at \in {"dial", "login", "open", "closed"}
    /\ Moves(p, NoSession)
    /\ UNCHANGED missed /\ ConfigurationOnly

-----------------------------------------------------------------------------
(* The request handler *)

\* The comparison, and m45_config_set_runtime.
ChangesPools(conf) ==
    /\ handler = "idle" /\ poolChanges < MaxPoolChanges /\ conf # poolConf
    /\ poolChanges' = poolChanges + 1
    /\ previous' = poolConf /\ poolConf' = conf
    /\ toClose' = ReconnectMask(poolConf, conf)
    /\ handler' = "apply"
    /\ UNCHANGED <<sessions, missed, refusals>>

\* The hardware has taken the rest of the settings, and the flash all of them.
Applied ==
    /\ handler = "apply"
    /\ handler' = "close"
    /\ UNCHANGED <<poolConf, sessions, previous, toClose, missed, poolChanges, refusals>>

\* The settings in force before come back, and nothing is reconnected.
Refused ==
    /\ handler = "apply" /\ refusals < MaxRefusals
    /\ refusals' = refusals + 1
    /\ poolConf' = previous /\ toClose' = {} /\ handler' = "idle"
    /\ missed' = missed \cup {p \in Sessions : sessions[p].at \in {"dial", "login", "open"}
                                                /\ ~Fits(previous, p)}
    /\ UNCHANGED <<sessions, previous, poolChanges>>

\* A close finds a transport in the session, or none.
Closes(pools) ==
    /\ sessions' = [p \in Sessions |->
           IF p \in pools /\ sessions[p].at = "open"
           THEN [sessions[p] EXCEPT !.at = "closed"] ELSE sessions[p]]
    /\ missed' = missed \cup {p \in pools : sessions[p].at \in {"dial", "login"}
                                              /\ ~Fits(poolConf, p)}
    /\ toClose' = toClose \ pools
    /\ UNCHANGED <<poolConf, handler, previous, poolChanges, refusals>>

\* In the single mode a change closes every connection there is.
WholeReconnect == ~poolConf.multi /\ 0 \in toClose

\* stratum_minimal_reconnect, request_stratum_transport_close
ClosesAll == handler = "close" /\ WholeReconnect /\ Closes(Sessions)

\* stratum_minimal_reconnect_pools, request_pool_transport_close
ClosesPool(p) ==
    /\ handler = "close" /\ ~WholeReconnect
    /\ p \in toClose /\ \A q \in toClose : p <= q
    /\ Closes({p})

HandlerDone ==
    /\ handler = "close" /\ toClose = {}
    /\ handler' = "idle"
    /\ UNCHANGED <<poolConf, sessions, previous, toClose, missed, poolChanges, refusals>>

PoolSettingsNext ==
    \/ \E p \in Sessions : Dials(p) \/ LogsIn(p) \/ Attaches(p) \/ SessionEnds(p) \/ ClosesPool(p)
    \/ \E conf \in PoolConfigs : ChangesPools(conf)
    \/ Applied \/ Refused \/ ClosesAll \/ HandlerDone

-----------------------------------------------------------------------------
(* Properties *)

\* Once a save is over, every open session is of a pool the settings name and
\* was made with the endpoint, the user and the suggested difficulty they give
\* it, in either mode and across a change of it, though most saves reconnect
\* only some of the pools (active_pool_settings_reconnect_mask).  Excepted are
\* sessions that were being made while the handler looked for a transport to
\* close, and those made in the time in which settings held that were then
\* refused: nobody reconnects them.
SessionsFitSettings ==
    handler = "idle" =>
        \A p \in Sessions \ missed : sessions[p].at = "open" => Fits(poolConf, p)
=============================================================================
