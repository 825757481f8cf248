----------------------------- MODULE BlockPayout -----------------------------
(***************************************************************************)
(* One pool's block and the payout the dashboard shows for it              *)
(* (src/main/stratum_minimal.c, src/main/stratum_payout.c).  The receive   *)
(* task notes the block of every job, ignores the work of blocks it has    *)
(* left behind, and checks on the first job of a connection and of every   *)
(* block whether the coinbase pays the wallet in the settings; meanwhile   *)
(* the connection comes and goes and a request handler saves another       *)
(* wallet, applies it, and closes the connection.                          *)
(*                                                                         *)
(* A coinbase is what it pays to whom, as the pool composes it for a block *)
(* and the wallet a connection has logged in with.  That a pool pays       *)
(* others in a later job of the same block is left out: it is not noticed  *)
(* before the next block.                                                  *)
(***************************************************************************)
EXTENDS Naturals, Sequences, SequencesExt

CONSTANTS
    Blocks,        \* previous-block hashes
    NoBlock,       \* the empty hash
    Wallets,       \* what a user saves
    Supported,     \* those payout_wallet_text_script knows a script for
    Coinbases,     \* by block and login: the outputs, <<>> if they do not parse
    RecentBlocks,  \* STRATUM_RECENT_BLOCK_HASHES
    MinPercent     \* STRATUM_PAYOUT_MIN_PERCENT_X100

ASSUME PayoutAssumption ==
    /\ NoBlock \notin Blocks /\ Supported \subseteq Wallets
    /\ RecentBlocks \in Nat \ {0} /\ MinPercent \in Nat

VARIABLES
    block,       \* g_pool_block_hashes: the block worked on
    recent,      \* the ring of the blocks before it ...
    nextRecent,  \* ... and its next slot
    subscribed,  \* the extranonce is known; kept from one connection to the next
    link,        \* the connection: "down", "login", "up" or "closed"
    loginAs,     \* the wallet it has logged in with
    payout,      \* the status and the percentage, in hundredths
    notify,      \* the receive task: where it is with a job, and what it holds
    wallet,      \* the running configuration's
    saving,      \* the request handler: "idle", "apply", "close"
    oldWallet,   \* its old_config's
    judgedFor,   \* history: the wallet payout was evaluated for
    takenBack    \* history: wallets whose save was refused

blockVars == <<block, recent, nextRecent>>
linkVarsOfPayout == <<subscribed, link, loginAs>>
saveVars == <<wallet, saving, oldWallet, takenBack>>
payoutVars == <<blockVars, linkVarsOfPayout, payout, notify, judgedFor, saveVars>>

Told(status, percent) == [status |-> status, percent |-> percent]
Unchecked == Told("unchecked", 0)
ParseError == Told("parse_error", 0)

Waiting(w) == [at |-> "line", for |-> w]

PayoutInit ==
    /\ wallet \in Wallets /\ oldWallet = wallet /\ judgedFor = wallet
    /\ saving = "idle" /\ takenBack = {}
    /\ block = NoBlock /\ recent = [i \in 0 .. RecentBlocks - 1 |-> NoBlock]
    /\ nextRecent = 0
    /\ subscribed = FALSE /\ link = "down" /\ loginAs = wallet
    /\ payout = Unchecked /\ notify = Waiting(wallet)

-----------------------------------------------------------------------------
(* stratum_payout_evaluate *)

ValueOf(outputs) == FoldLeft(LAMBDA sum, o : sum + o.value, 0, outputs)

ValueTo(user, outputs) == ValueOf(SelectSeq(outputs, LAMBDA o : o.to = user))

\* In hundredths of a percent, rounded to the nearest.
PercentOf(mine, total) == (mine * 10000 + total \div 2) \div total

Evaluate(user, outputs) ==
    LET total == ValueOf(outputs)
        mine == ValueTo(user, outputs)
    IN
    CASE user \notin Supported -> Told("unsupported_wallet", 0)
      [] user \in Supported /\ total = 0 -> ParseError
      [] user \in Supported /\ total > 0 /\ mine = 0 -> Told("missing", 0)
      [] OTHER ->
            Told(IF PercentOf(mine, total) < MinPercent THEN "low" ELSE "ok",
                 PercentOf(mine, total))

-----------------------------------------------------------------------------
(* The receive task: a job *)

SavesUnchanged == UNCHANGED saveVars

\* Mutant: a payout once told is kept for the connection.
OnlyWhenUnchecked(newBlock) == payout = Unchecked

\* update_payout of handle_mining_notify_work
UpdatesPayout(newBlock) == newBlock \/ payout = Unchecked

Known(b) == \E i \in DOMAIN recent : recent[i] = b

\* stratum_note_current_block, and the decision about the payout.  The first
\* block of all does not count as a new one.
NotesBlock(b) ==
    /\ notify.at = "line" /\ link \in {"up", "closed"}
    /\ b = block \/ ~Known(b)
    /\ block' = b
    /\ IF b = block \/ block = NoBlock THEN UNCHANGED <<recent, nextRecent>>
       ELSE /\ recent' = [recent EXCEPT ![nextRecent] = block]
            /\ nextRecent' = (nextRecent + 1) % RecentBlocks
    /\ notify' = IF UpdatesPayout(b # block /\ block # NoBlock)
                 THEN [notify EXCEPT !.at = "copy"] ELSE notify
    /\ SavesUnchanged /\ UNCHANGED <<linkVarsOfPayout, payout, judgedFor>>

\* stratum_copy_coinbase_from_notify: without an extranonce there is nothing to
\* check yet, and without memory, or for a coinbase too long, nothing to read.
CopiesCoinbase ==
    /\ notify.at = "copy"
    /\ \/ payout' = Unchecked
          /\ notify' = [notify EXCEPT !.at = IF subscribed THEN "evaluate" ELSE "line"]
       \/ subscribed /\ payout' = ParseError /\ notify' = [notify EXCEPT !.at = "line"]
    /\ SavesUnchanged /\ UNCHANGED <<blockVars, linkVarsOfPayout, judgedFor>>

\* After the work is queued: pool_user_wallet ...
TakesWallet ==
    /\ notify.at = "evaluate"
    /\ notify' = [at |-> "tell", for |-> wallet]
    /\ SavesUnchanged /\ UNCHANGED <<blockVars, linkVarsOfPayout, payout, judgedFor>>

\* ... and set_pool_payout_status.
TellsPayout ==
    /\ notify.at = "tell"
    /\ payout' = Evaluate(notify.for, Coinbases[block][loginAs])
    /\ judgedFor' = notify.for
    /\ notify' = [notify EXCEPT !.at = "line"]
    /\ SavesUnchanged /\ UNCHANGED <<blockVars, linkVarsOfPayout>>

-----------------------------------------------------------------------------
(* The receive task: the connection *)

BetweenJobs == notify.at = "line" /\ UNCHANGED <<blockVars, notify, judgedFor, saveVars>>

\* send_setup_messages
LogsInForWork ==
    /\ link = "down" /\ BetweenJobs
    /\ link' = "login" /\ loginAs' = wallet
    /\ UNCHANGED <<subscribed, payout>>

\* set_session_transport, set_session_connected
LinkComesUp ==
    /\ link = "login" /\ BetweenJobs
    /\ link' = "up" /\ payout' = Unchecked
    /\ UNCHANGED <<subscribed, loginAs>>

\* The answer to mining.subscribe: update_extranonce_values
IsSubscribed ==
    /\ link \in {"up", "closed"} /\ BetweenJobs
    /\ subscribed' = TRUE
    /\ UNCHANGED <<link, loginAs, payout>>

\* set_session_disconnected
LinkEnds ==
    /\ link \in {"login", "up", "closed"} /\ BetweenJobs
    /\ link' = "down" /\ payout' = Unchecked
    /\ UNCHANGED <<subscribed, loginAs>>

-----------------------------------------------------------------------------
(* The request handler *)

HandlerOnly == UNCHANGED <<blockVars, subscribed, loginAs, payout, notify, judgedFor>>

\* m45_config_set_runtime
SavesWallet(w) ==
    /\ saving = "idle" /\ w # wallet
    /\ wallet' = w /\ oldWallet' = wallet /\ saving' = "apply"
    /\ HandlerOnly /\ UNCHANGED <<link, takenBack>>

\* The rest of the settings and the flash: then the reconnect, or the revert,
\* which does not reconnect.
SaveEnds ==
    /\ saving = "apply"
    /\ \/ saving' = "close" /\ UNCHANGED <<wallet, takenBack>>
       \/ saving' = "idle" /\ wallet' = oldWallet /\ takenBack' = takenBack \cup {wallet}
    /\ HandlerOnly /\ UNCHANGED <<link, oldWallet>>

\* stratum_minimal_reconnect_pools
ClosesLink ==
    /\ saving = "close"
    /\ link' = IF link = "up" THEN "closed" ELSE link
    /\ saving' = "idle"
    /\ HandlerOnly /\ UNCHANGED <<wallet, oldWallet, takenBack>>

PayoutNext ==
    \/ \E b \in Blocks : NotesBlock(b)
    \/ CopiesCoinbase \/ TakesWallet \/ TellsPayout
    \/ LogsInForWork \/ LinkComesUp \/ IsSubscribed \/ LinkEnds
    \/ \E w \in Wallets : SavesWallet(w)
    \/ SaveEnds \/ ClosesLink

-----------------------------------------------------------------------------
(* Properties *)

\* Whatever payout is shown while a connection is up is that of the block the
\* miner works on, for the login of this connection and the wallet in the
\* settings, though it is checked once per block only, the wallet is read after
\* the work is queued, and blocks come back: a job that changes the block is
\* checked again, and a connection starts unchecked (handle_mining_notify_work).
\* Excepted are a coinbase there was no memory for, shown as a parse error for
\* the whole block, and the verdict on a wallet whose save was then refused:
\* it stays until the next block.
PayoutIsOfWork ==
    link = "up" /\ notify.at = "line" /\ saving = "idle" =>
        \/ payout \in {Unchecked, ParseError}
        \/ payout = Evaluate(wallet, Coinbases[block][loginAs])
        \/ judgedFor # wallet /\ judgedFor \in takenBack
=============================================================================
