----------------------------- MODULE PoolSession -----------------------------
(***************************************************************************)
(* One pool session's connection (src/main/stratum_minimal.c): its receive *)
(* task selects the endpoint, connects, publishes the transport, reads     *)
(* lines into the session's buffer and handles them, until the connection  *)
(* ends; meanwhile a request handler saves other pool settings and closes  *)
(* the transport it finds in the session, Wi-Fi comes and goes, and the    *)
(* pools come and go.                                                      *)
(*                                                                         *)
(* A line is the endpoint that sent it and whether it came over the        *)
(* present connection; what a line does to the work is WorkPipeline's.     *)
(* Rotation to a backup pool and the probe of the primary are left out:    *)
(* backup_pool_configured is FALSE in this program.                        *)
(***************************************************************************)
EXTENDS Naturals, Sequences

CONSTANTS
    Endpoints,    \* the endpoints a user may configure
    Unusable,     \* those whose version mask the chip cannot roll
    NoPool,       \* this session is not configured
    ChunkLines,   \* bound: lines that end in one read
    MaxPoolSaves, \* bound: saves that change this session's pool
    MaxBreaks     \* bound: connections lost, set-ups and allocations that fail

ASSUME ChunkAssumption == ChunkLines \in Nat

VARIABLES
    setting,    \* the running configuration's endpoint of this session
    wifi,       \* wifi_http_connected
    up,         \* the endpoints that accept connections
    disabled,   \* runtime_disabled
    transport,  \* the session's transport: "none", "open" or "closed"
    sessionUp,  \* the session's connected
    peer,       \* the other end: "up", "reset" (an error is seen) or "silent"
    at, using,  \* where the receive task is, and its copy of the endpoint
    buffer,     \* whole lines in the receive buffer
    tail,       \* <<the last, unfinished line of it>>, or <<>>
    user,       \* where the request handler is
    kept,       \* history: a connection ended and its bytes stayed in the buffer
    poolSaves, breaks

networkVars == <<wifi, up>>
bufferVars == <<buffer, tail>>
sessionVars == <<transport, sessionUp, peer>>
userVars == <<setting, user, poolSaves>>
poolVars == <<networkVars, disabled, sessionVars, at, using, bufferVars, userVars,
              kept, breaks>>

PoolInit ==
    /\ setting \in Endpoints
    /\ wifi = FALSE /\ up = Endpoints
    /\ disabled = FALSE
    /\ transport = "none" /\ sessionUp = FALSE /\ peer = "reset"
    /\ at = "top" /\ using = NoPool
    /\ buffer = <<>> /\ tail = <<>>
    /\ user = "idle"
    /\ kept = FALSE
    /\ poolSaves = 0 /\ breaks = 0

-----------------------------------------------------------------------------
(* The receive task *)

RxUnchanged == UNCHANGED <<networkVars, userVars>>

\* select_next_pool_endpoint: not without Wi-Fi, not when nothing is
\* configured, not when the pool was given up.
SelectEndpoint ==
    /\ at = "top" /\ wifi /\ setting # NoPool /\ ~disabled
    /\ using' = setting
    /\ at' = "connect"
    /\ RxUnchanged /\ UNCHANGED <<disabled, sessionVars, bufferVars, kept, breaks>>

\* Resolve and esp_transport_connect.
ConnectPool ==
    /\ at = "connect"
    /\ IF using \in up THEN at' = "setup" /\ peer' = "up"
                       ELSE at' = "top" /\ UNCHANGED peer
    /\ RxUnchanged
    /\ UNCHANGED <<disabled, transport, sessionUp, using, bufferVars, kept, breaks>>

\* send_setup_messages; a dead peer may or may not be noticed.
SendSetup ==
    /\ at = "setup"
    /\ peer # "reset"
    /\ at' = "attach"
    /\ RxUnchanged
    /\ UNCHANGED <<disabled, sessionVars, using, bufferVars, kept, breaks>>

SetupFails ==
    /\ at = "setup"
    /\ IF peer = "reset" THEN UNCHANGED breaks
       ELSE breaks < MaxBreaks /\ breaks' = breaks + 1
    /\ at' = "top"
    /\ RxUnchanged
    /\ UNCHANGED <<disabled, sessionVars, using, bufferVars, kept>>

\* set_session_transport
AttachTransport ==
    /\ at = "attach"
    /\ transport' = "open"
    /\ at' = "attached"
    /\ RxUnchanged
    /\ UNCHANGED <<disabled, sessionUp, peer, using, bufferVars, kept, breaks>>

\* set_session_connected, which also takes the pool back into service.
SetConnected ==
    /\ at = "attached"
    /\ sessionUp' = TRUE /\ disabled' = FALSE
    /\ at' = "loop"
    /\ RxUnchanged
    /\ UNCHANGED <<transport, peer, using, bufferVars, kept, breaks>>

ReadOn(label) ==
    /\ at = "loop" /\ wifi
    /\ at' = label
    /\ RxUnchanged
    /\ UNCHANGED <<disabled, sessionVars, using, bufferVars, kept, breaks>>

\* receive_jsonrpc_line finds a line in the buffer, or must read.
NextLine == buffer # <<>> /\ ReadOn("handle")
MustRead == buffer = <<>> /\ ReadOn("read")

\* A read brings the rest of the unfinished line, more lines, or a part of one.
ReceiveBytes(n, rest) ==
    /\ at = "read" /\ transport = "open" /\ peer = "up" /\ wifi
    /\ LET own == [from |-> using, fresh |-> TRUE]
           first == IF tail = <<>> THEN own ELSE tail[1]
       IN
       /\ buffer' = [i \in 1 .. n |-> IF i = 1 THEN first ELSE own]
       /\ tail' = IF n > 0 THEN (IF rest THEN <<own>> ELSE <<>>) ELSE <<first>>
    /\ n > 0 \/ rest
    /\ at' = IF n > 0 THEN "handle" ELSE "read"
    /\ RxUnchanged /\ UNCHANGED <<disabled, sessionVars, using, kept, breaks>>

DropBuffer == buffer' = <<>> /\ tail' = <<>> /\ kept' = FALSE

\* The read fails: the transport was closed or the peer reset it.
ReadFails ==
    /\ at = "read"
    /\ transport = "closed" \/ peer = "reset" \/ ~wifi
    /\ DropBuffer
    /\ at' = "detach"
    /\ RxUnchanged /\ UNCHANGED <<disabled, sessionVars, using, breaks>>

\* Mutant: an idle connection is given up with its bytes in the buffer.
IdleKeepsBuffer ==
    /\ at = "read"
    /\ at' = "detach"
    /\ RxUnchanged /\ UNCHANGED <<disabled, sessionVars, using, bufferVars, kept, breaks>>

\* Mutant: silence is only noticed on a connection that still works.
IdleWhenUp ==
    /\ at = "read" /\ peer = "up"
    /\ DropBuffer
    /\ at' = "detach"
    /\ RxUnchanged /\ UNCHANGED <<disabled, sessionVars, using, breaks>>

\* Nothing was received for STRATUM_IDLE_TIMEOUT_MS.
IdleTimeout ==
    /\ at = "read"
    /\ DropBuffer
    /\ at' = "detach"
    /\ RxUnchanged /\ UNCHANGED <<disabled, sessionVars, using, breaks>>

\* rx_buffer_reserve fails, or the line is too long.
ReserveFails ==
    /\ at = "read" /\ breaks < MaxBreaks
    /\ breaks' = breaks + 1
    /\ DropBuffer
    /\ at' = "detach"
    /\ RxUnchanged /\ UNCHANGED <<disabled, sessionVars, using>>

\* Wi-Fi is lost: seen by the loop or by a read that brought nothing.  The
\* buffer stays as it is.
WifiLost ==
    /\ at \in {"loop", "read"} /\ ~wifi
    /\ kept' = (kept \/ buffer # <<>> \/ tail # <<>>)
    /\ at' = "detach"
    /\ RxUnchanged /\ UNCHANGED <<disabled, sessionVars, using, bufferVars, breaks>>

\* handle_stratum_line, consume_jsonrpc_line: most lines, client.reconnect
\* (which closes the transport), or a mask the chip cannot roll.
HandleLine ==
    /\ at = "handle"
    /\ buffer' = Tail(buffer)
    /\ transport' \in {transport, "closed"}
    /\ at' = "loop"
    /\ RxUnchanged
    /\ UNCHANGED <<disabled, sessionUp, peer, using, tail, kept, breaks>>

\* update_version_mask gives the pool up ...
DisablePool ==
    /\ at = "handle" /\ Head(buffer).from \in Unusable
    /\ disabled' = TRUE
    /\ at' = "refuse"
    /\ RxUnchanged
    /\ UNCHANGED <<sessionVars, using, bufferVars, kept, breaks>>

\* ... and closes its transport.
RefusePool ==
    /\ at = "refuse"
    /\ transport' = "closed"
    /\ buffer' = Tail(buffer)
    /\ at' = "loop"
    /\ RxUnchanged
    /\ UNCHANGED <<disabled, sessionUp, peer, using, tail, kept, breaks>>

Aged(seq) == [i \in DOMAIN seq |-> [seq[i] EXCEPT !.fresh = FALSE]]

\* set_session_transport(NULL), set_session_disconnected, destroy.
DetachTransport ==
    /\ at = "detach"
    /\ transport' = "none" /\ sessionUp' = FALSE
    /\ buffer' = Aged(buffer) /\ tail' = Aged(tail)
    /\ at' = "top"
    /\ RxUnchanged /\ UNCHANGED <<disabled, peer, using, kept, breaks>>

PoolRxStep ==
    \/ SelectEndpoint \/ ConnectPool \/ SendSetup \/ SetupFails
    \/ AttachTransport \/ SetConnected \/ NextLine \/ MustRead
    \/ \E n \in 0 .. ChunkLines, rest \in BOOLEAN : ReceiveBytes(n, rest)
    \/ ReadFails \/ IdleTimeout \/ ReserveFails \/ WifiLost
    \/ HandleLine \/ DisablePool \/ RefusePool \/ DetachTransport

-----------------------------------------------------------------------------
(* The request handler, the network, the pools *)

OthersUnchanged == UNCHANGED <<sessionUp, at, using, bufferVars, kept, breaks>>

\* A save changes this session's pool; active_pool_settings_reconnect_mask
\* sees it.
SavePool(e) ==
    /\ user = "idle" /\ poolSaves < MaxPoolSaves /\ e # setting
    /\ setting' = e /\ poolSaves' = poolSaves + 1
    /\ user' = "clear"
    /\ OthersUnchanged /\ UNCHANGED <<networkVars, disabled, transport, peer>>

\* clear_pool_runtime_state
ClearRuntime ==
    /\ user = "clear"
    /\ disabled' = FALSE
    /\ user' = "close"
    /\ OthersUnchanged
    /\ UNCHANGED <<networkVars, setting, poolSaves, transport, peer>>

\* request_pool_transport_close, after the work reset.
CloseTransport ==
    /\ user = "close"
    /\ transport' = IF transport = "open" THEN "closed" ELSE transport
    /\ user' = "idle"
    /\ OthersUnchanged
    /\ UNCHANGED <<networkVars, disabled, setting, poolSaves, peer>>

WifiChanges ==
    /\ wifi' = ~wifi
    /\ OthersUnchanged
    /\ UNCHANGED <<userVars, up, disabled, transport, peer>>

PoolsChange ==
    /\ up' \in SUBSET Endpoints /\ up' # up
    /\ OthersUnchanged
    /\ UNCHANGED <<userVars, wifi, disabled, transport, peer>>

\* A pool ends the connection, or the path to it breaks without a word.
PeerGoes ==
    /\ peer = "up" /\ peer' \in {"reset", "silent"}
    /\ breaks < MaxBreaks /\ breaks' = breaks + 1
    /\ UNCHANGED <<networkVars, userVars, disabled, transport, sessionUp, at, using,
                   bufferVars, kept>>

PoolUserStep == ClearRuntime \/ CloseTransport

PoolNext ==
    \/ PoolRxStep \/ PoolUserStep
    \/ \E e \in Endpoints \cup {NoPool} : SavePool(e)
    \/ WifiChanges \/ PoolsChange \/ PeerGoes

\* The receive task runs, and its read ends in the idle timeout at the latest.
PoolFairness == WF_poolVars(PoolRxStep)

-----------------------------------------------------------------------------
(* Properties *)

\* A line is handled on the connection it came over: whatever ends a
\* connection drops what is left in the buffer of the session (read errors,
\* the idle timeout, a failed allocation in receive_jsonrpc_line).  Excepted
\* are bytes kept when Wi-Fi was lost, the one end that does not drop them.
LinesOfConnection == at \in {"handle", "refuse"} => Head(buffer).fresh \/ kept

\* With Wi-Fi, a configured pool that is in service and pools that accept
\* connections, the session always comes back to a connection whose other end
\* is there, whatever ended the last one and however silently
\* (stratum_rx_task).
SessionReturns ==
    <>[](wifi /\ up = Endpoints /\ setting # NoPool /\ ~disabled)
        => []<>(sessionUp /\ peer = "up")
=============================================================================
