--------------------------- MODULE ServicesProofs ---------------------------
(***************************************************************************)
(* What MCServices checks of these components on small instances holds for *)
(* every value of their constants.  The components share no state: each    *)
(* part states a specification of its component, the inductive invariant,  *)
(* what each action does to it, and the theorems.                          *)
(***************************************************************************)
EXTENDS PoolSession, SettingsApply, WifiLink, LogBuffer, Swarm, TLAPS

-----------------------------------------------------------------------------
(* A pool session's receive buffer, for any endpoints, any number of lines *)
(* in a read and any number of saves and breaks.                           *)

PoolSpec == PoolInit /\ [][PoolNext]_poolVars

Lines == [from : Endpoints \cup {NoPool}, fresh : BOOLEAN]

\* Where the receive task has a connection it reads from.
Reading == {"attached", "loop", "read", "handle", "refuse"}

AllFresh(seq) == \A i \in 1 .. Len(seq) : seq[i].fresh

BufferTypeOK ==
    /\ setting \in Endpoints \cup {NoPool} /\ using \in Endpoints \cup {NoPool}
    /\ buffer \in Seq(Lines)
    /\ tail = <<>> \/ \E line \in Lines : tail = <<line>>
    /\ kept \in BOOLEAN

\* Without bytes kept, what is in the buffer came over the connection that is
\* read from, and between connections there is nothing.
BufferOfConnection ==
    ~kept => IF at \in Reading THEN AllFresh(buffer) /\ AllFresh(tail)
                               ELSE buffer = <<>> /\ tail = <<>>

LineAtHand == at \in {"handle", "refuse"} => buffer # <<>>

BufferInv == BufferTypeOK /\ BufferOfConnection /\ LineAtHand

LEMMA BufferInit == PoolInit => BufferInv
<1>1. <<>> \in Seq(Lines)
  OBVIOUS
<1> QED BY <1>1 DEF PoolInit, BufferInv, BufferTypeOK, BufferOfConnection, LineAtHand, Reading

\* A read of n queue, the first of which may have begun before.
LEMMA ReadLines ==
    ASSUME NEW own \in Lines, NEW first \in Lines, NEW n \in Nat,
           own.fresh
    PROVE  LET queue == [i \in 1 .. n |-> IF i = 1 THEN first ELSE own] IN
           /\ queue \in Seq(Lines) /\ Len(queue) = n
           /\ first.fresh => AllFresh(queue)
<1> DEFINE queue == [i \in 1 .. n |-> IF i = 1 THEN first ELSE own]
<1>1. queue \in Seq(Lines)
  OBVIOUS
<1>2. Len(queue) = n
  OBVIOUS
<1>3. first.fresh => AllFresh(queue)
  BY <1>2 DEF AllFresh
<1> QED BY <1>1, <1>2, <1>3

LEMMA RestOfLines ==
    ASSUME NEW queue \in Seq(Lines), queue # <<>>
    PROVE  Tail(queue) \in Seq(Lines) /\ (AllFresh(queue) => AllFresh(Tail(queue)))
BY DEF AllFresh

LEMMA ReceiveKeeps ==
    ASSUME BufferInv, NEW n \in 0 .. ChunkLines, NEW rest \in BOOLEAN,
           ReceiveBytes(n, rest)
    PROVE  BufferInv'
<1> DEFINE own == [from |-> using, fresh |-> TRUE]
           first == IF tail = <<>> THEN own ELSE tail[1]
<1>1. n \in Nat
  BY ChunkAssumption
<1>2. own \in Lines /\ own.fresh /\ first \in Lines
  BY DEF BufferInv, BufferTypeOK, Lines
<1>3. ~kept => first.fresh
  BY DEF BufferInv, BufferTypeOK, BufferOfConnection, Reading, AllFresh, ReceiveBytes
<1>4. /\ buffer' \in Seq(Lines) /\ Len(buffer') = n
      /\ first.fresh => AllFresh(buffer')
  <2> HIDE DEF own, first
  <2>1. buffer' = [i \in 1 .. n |-> IF i = 1 THEN first ELSE own]
    BY DEF ReceiveBytes, own, first
  <2> QED BY <1>1, <1>2, <2>1, ReadLines
<1>5. /\ tail' = <<>> \/ \E line \in Lines : tail' = <<line>>
      /\ first.fresh => AllFresh(tail')
  <2> HIDE DEF own, first
  <2>1. tail' \in {<<>>, <<own>>, <<first>>} /\ (tail' = <<first>> \/ tail' = <<own>> \/ tail' = <<>>)
    BY DEF ReceiveBytes, own, first
  <2> QED BY <2>1, <1>2 DEF AllFresh
<1>6. /\ at' \in {"handle", "read"} /\ (at' = "handle" => n > 0)
      /\ UNCHANGED <<setting, using, kept>>
  BY <1>1 DEF ReceiveBytes, RxUnchanged, userVars
<1> HIDE DEF own, first
<1> QED BY <1>1, <1>3, <1>4, <1>5, <1>6
        DEF BufferInv, BufferTypeOK, BufferOfConnection, LineAtHand, Reading

\* A line that is done with leaves the buffer.
LEMMA ConsumeKeeps ==
    ASSUME BufferInv, HandleLine \/ RefusePool
    PROVE  BufferInv'
<1>1. /\ at \in {"handle", "refuse"} /\ at' = "loop"
      /\ buffer' = Tail(buffer)
      /\ UNCHANGED <<tail, setting, using, kept>>
  BY DEF HandleLine, RefusePool, RxUnchanged, userVars
<1>2. buffer # <<>>
  BY <1>1 DEF BufferInv, LineAtHand
<1>3. buffer' \in Seq(Lines) /\ (AllFresh(buffer) => AllFresh(buffer'))
  BY <1>1, <1>2, RestOfLines DEF BufferInv, BufferTypeOK
<1> QED BY <1>1, <1>3 DEF BufferInv, BufferTypeOK, BufferOfConnection, LineAtHand, Reading

\* A connection that ends empties the buffer, or remembers that it did not.
LEMMA EndKeeps ==
    ASSUME BufferInv, ReadFails \/ IdleTimeout \/ ReserveFails \/ WifiLost
    PROVE  BufferInv'
<1>1. at' = "detach" /\ UNCHANGED <<setting, using>>
  BY DEF ReadFails, IdleTimeout, ReserveFails, WifiLost, RxUnchanged, userVars
<1>2. \/ buffer' = <<>> /\ tail' = <<>> /\ kept' = FALSE
      \/ /\ UNCHANGED <<buffer, tail>>
         /\ kept' = (kept \/ buffer # <<>> \/ tail # <<>>)
  BY DEF ReadFails, IdleTimeout, ReserveFails, WifiLost, DropBuffer, bufferVars
<1>3. <<>> \in Seq(Lines)
  OBVIOUS
<1> QED BY <1>1, <1>2, <1>3
        DEF BufferInv, BufferTypeOK, BufferOfConnection, LineAtHand, Reading

LEMMA AgedLines ==
    ASSUME NEW seq \in Seq(Lines)
    PROVE  /\ Aged(seq) \in Seq(Lines) /\ Len(Aged(seq)) = Len(seq)
           /\ seq = <<>> => Aged(seq) = <<>>
<1>1. ASSUME NEW line \in Lines
      PROVE  [line EXCEPT !.fresh = FALSE] \in Lines
  BY DEF Lines
<1>2. \A i \in 1 .. Len(seq) : [seq[i] EXCEPT !.fresh = FALSE] \in Lines
  BY <1>1
<1> DEFINE Old(i) == [seq[i] EXCEPT !.fresh = FALSE]
<1>3. Aged(seq) = [i \in 1 .. Len(seq) |-> Old(i)]
  BY DEF Aged
<1>4. \A i \in 1 .. Len(seq) : Old(i) \in Lines
  BY <1>2
<1> HIDE DEF Old
<1>5. Aged(seq) \in Seq(Lines) /\ Len(Aged(seq)) = Len(seq)
  BY <1>3, <1>4
<1>6. seq = <<>> => Aged(seq) = <<>>
  BY <1>5
<1> QED BY <1>5, <1>6

LEMMA DetachKeeps ==
    ASSUME BufferInv, DetachTransport
    PROVE  BufferInv'
<1>1. /\ at = "detach" /\ at' = "top"
      /\ buffer' = Aged(buffer) /\ tail' = Aged(tail)
      /\ UNCHANGED <<setting, using, kept>>
  BY DEF DetachTransport, RxUnchanged, userVars
<1>2. buffer' \in Seq(Lines) /\ (buffer = <<>> => buffer' = <<>>)
  BY <1>1, AgedLines DEF BufferInv, BufferTypeOK
<1>3. tail' = <<>> \/ \E line \in Lines : tail' = <<line>>
  <2>1. CASE tail = <<>>
    BY <1>1, <2>1 DEF Aged
  <2>2. ASSUME NEW line \in Lines, tail = <<line>>
        PROVE  \E other \in Lines : tail' = <<other>>
    <3>1. tail \in Seq(Lines) /\ Len(tail) = 1
      BY <2>2
    <3>2. tail' \in Seq(Lines) /\ Len(tail') = 1
      BY <1>1, <3>1, AgedLines
    <3>3. tail' = <<tail'[1]>> /\ tail'[1] \in Lines
      BY <3>2
    <3> QED BY <3>3
  <2> QED BY <2>1, <2>2 DEF BufferInv, BufferTypeOK
<1>4. tail = <<>> => tail' = <<>>
  BY <1>1 DEF Aged
<1> QED BY <1>1, <1>2, <1>3, <1>4
        DEF BufferInv, BufferTypeOK, BufferOfConnection, LineAtHand, Reading

\* The other steps of the receive task read the buffer at most; a connection
\* begins with an empty one.
LEMMA OtherRxKeeps ==
    ASSUME BufferInv,
           \/ SelectEndpoint \/ ConnectPool \/ SendSetup \/ SetupFails
           \/ AttachTransport \/ SetConnected \/ NextLine \/ MustRead \/ DisablePool
    PROVE  BufferInv'
<1>1. /\ UNCHANGED <<buffer, tail, kept, setting>>
      /\ using' \in {using, setting}
  BY DEF SelectEndpoint, ConnectPool, SendSetup, SetupFails, AttachTransport, SetConnected,
         NextLine, MustRead, ReadOn, DisablePool, RxUnchanged, userVars, bufferVars
<1>2. at' \in Reading => at \in Reading \/ (buffer = <<>> /\ tail = <<>>) \/ kept
  BY DEF BufferInv, BufferOfConnection
<1>3. at' \notin Reading => at \notin Reading
  BY DEF SelectEndpoint, ConnectPool, SendSetup, SetupFails, AttachTransport, SetConnected,
         NextLine, MustRead, ReadOn, DisablePool, Reading
<1>4. at' \in {"handle", "refuse"} => buffer # <<>>
  BY DEF SelectEndpoint, ConnectPool, SendSetup, SetupFails, AttachTransport, SetConnected,
         NextLine, MustRead, ReadOn, DisablePool, BufferInv, LineAtHand
<1>5. AllFresh(<<>>)
  BY DEF AllFresh
<1> QED BY <1>1, <1>2, <1>3, <1>4, <1>5
        DEF BufferInv, BufferTypeOK, BufferOfConnection, LineAtHand

\* Handler, Wi-Fi and pools leave the buffer and the receive task alone.
LEMMA SurroundingsKeep ==
    ASSUME BufferInv,
           \/ PoolUserStep \/ (\E e \in Endpoints \cup {NoPool} : SavePool(e))
           \/ WifiChanges \/ PoolsChange \/ PeerGoes \/ UNCHANGED poolVars
    PROVE  BufferInv'
<1>1. UNCHANGED <<at, using, buffer, tail, kept>>
  BY DEF PoolUserStep, ClearRuntime, CloseTransport, SavePool, WifiChanges, PoolsChange,
         PeerGoes, OthersUnchanged, bufferVars, poolVars
<1>2. setting' \in {setting} \cup Endpoints \cup {NoPool}
  BY DEF PoolUserStep, ClearRuntime, CloseTransport, SavePool, WifiChanges, PoolsChange,
         PeerGoes, userVars, poolVars
<1> QED BY <1>1, <1>2 DEF BufferInv, BufferTypeOK, BufferOfConnection, LineAtHand

LEMMA BufferInductive == BufferInv /\ [PoolNext]_poolVars => BufferInv'
<1> SUFFICES ASSUME BufferInv, [PoolNext]_poolVars PROVE BufferInv'
  OBVIOUS
<1>1. CASE \E n \in 0 .. ChunkLines, rest \in BOOLEAN : ReceiveBytes(n, rest)
  BY <1>1, ReceiveKeeps
<1>2. CASE HandleLine \/ RefusePool
  BY <1>2, ConsumeKeeps
<1>3. CASE ReadFails \/ IdleTimeout \/ ReserveFails \/ WifiLost
  BY <1>3, EndKeeps
<1>4. CASE DetachTransport
  BY <1>4, DetachKeeps
<1>5. CASE \/ SelectEndpoint \/ ConnectPool \/ SendSetup \/ SetupFails
           \/ AttachTransport \/ SetConnected \/ NextLine \/ MustRead \/ DisablePool
  BY <1>5, OtherRxKeeps
<1>6. CASE \/ PoolUserStep \/ (\E e \in Endpoints \cup {NoPool} : SavePool(e))
           \/ WifiChanges \/ PoolsChange \/ PeerGoes \/ UNCHANGED poolVars
  BY <1>6, SurroundingsKeep
<1> QED BY <1>1, <1>2, <1>3, <1>4, <1>5, <1>6 DEF PoolNext, PoolRxStep

LEMMA BufferIsEnough == BufferInv => LinesOfConnection
BY DEF BufferInv, BufferTypeOK, BufferOfConnection, LineAtHand, LinesOfConnection, Reading,
       AllFresh

\* A line is handled on the connection it came over, but for bytes kept when
\* Wi-Fi was lost (receive_jsonrpc_line, stratum_rx_task).
THEOREM LinesKeepToConnection == PoolSpec => []LinesOfConnection
<1>1. PoolSpec => []BufferInv
  BY BufferInit, BufferInductive, PTL DEF PoolSpec
<1> QED BY <1>1, BufferIsEnough, PTL

-----------------------------------------------------------------------------
(* The settings applied to the hardware.  At each step of a request or of  *)
(* the power monitor the regulator and the clock are at, or on a way       *)
(* between, limits that hold both.                                         *)

SettingsSpec == SettingsInit /\ [][SettingsNext]_settingsVars

Tunes == [volt : Nat, clock : Nat]
ApplyLabels == {"a.plan", "a.early", "a.lower", "a.volt", "a.late", "a.raise", "a.fan", "save"}

ApplyTypes ==
    /\ conf \in Configs /\ from \in Configs /\ to \in Configs /\ window \in Configs
    /\ vout \in Nat /\ known \in Nat /\ clock \in Nat /\ busFaults \in Nat /\ monSeen \in Nat
    /\ live \in Tunes /\ goal \in Tunes /\ monGoal.volt \in Nat /\ monGoal.clock \in Nat
    /\ postAt \in ApplyLabels \cup {"idle"}
    /\ monAt \in {"idle", "validate", "choose", "tune"}
    /\ stopped \in BOOLEAN /\ reverting \in BOOLEAN /\ late \in BOOLEAN
    /\ misread \in BOOLEAN /\ unreverted \in BOOLEAN
    /\ postAt # "idle" => conf = to

SameLimits(c, d) == c.lo = d.lo /\ c.hi = d.hi

\* The only way to an error return is a failing access or a regulator that was shut
\* down: the thresholds are the old ones until they are set and the new ones after it.
WindowFits ==
    /\ reverting \/ unreverted => busFaults > 0 \/ stopped
    /\ ~unreverted /\ ~stopped =>
        /\ postAt = "idle" => SameLimits(window, conf)
        /\ postAt # "idle" => SameLimits(window, from) \/ SameLimits(window, to)
        /\ ~reverting /\ \/ postAt \in {"a.plan", "a.early"}
                         \/ postAt \in {"a.lower", "a.volt", "a.late"} /\ ~NeedsNewLimits
              => SameLimits(window, from)
        /\ postAt \in {"a.lower", "a.volt", "a.late"} /\ NeedsNewLimits => SameLimits(window, to)
        /\ postAt \in {"a.raise", "a.fan", "save"} => SameLimits(window, to)

\* What a request aims at is within the limits it brings.
GoalFits ==
    postAt \notin {"idle", "a.plan"} =>
        Allows(to, goal.volt) /\ (~to.auto => goal.clock = to.clock)

FanFits == ~unreverted =>
    /\ postAt = "idle" => fanAt = conf.fan
    /\ postAt # "idle" => fanAt = from.fan \/ fanAt = to.fan
    /\ postAt = "save" => fanAt = to.fan

\* A monitor that took its target from the configuration in force moves the frequency
\* only under auto-clock, and to a voltage within the limits.
MonitorFits ==
    ~late /\ monAt = "tune" /\ monGoal.clock # 0 => conf.auto /\ Allows(conf, monGoal.volt)

ClockFits == ~late /\ ~unreverted /\ ~conf.auto =>
    /\ postAt = "idle" => clock = conf.clock
    /\ postAt \in {"a.early", "a.lower"} => clock = live.clock
    /\ postAt \in {"a.volt", "a.late", "a.raise"} /\ goal.clock <= live.clock => clock = goal.clock
    /\ postAt \in {"a.fan", "save"} => clock = goal.clock

VoltFits == ~late /\ ~unreverted /\ ~stopped /\ ~misread =>
    /\ postAt \in {"a.early", "a.lower", "a.volt"} => vout = live.volt \/ Allows(conf, vout)
    /\ postAt \in {"a.late", "a.raise", "a.fan", "save", "idle"} => Allows(conf, vout)

ApplyInv == ApplyTypes /\ WindowFits /\ GoalFits /\ FanFits /\ MonitorFits /\ ClockFits /\ VoltFits





LEMMA ApplyInvInit == SettingsInit => ApplyInv
<1> SUFFICES ASSUME SettingsInit PROVE ApplyInv OBVIOUS
<1>1. conf \in Configs /\ {conf.lo, conf.hi, conf.volt, conf.clock} \subseteq Nat
      /\ Allows(conf, conf.volt)
  BY SettingsAssumption DEF SettingsInit
<1>2. NoTune \in Tunes /\ NoTune.clock = 0 /\ NoTune.volt = 0 BY DEF NoTune, Tunes
<1>3. ApplyTypes
  <2>1. /\ vout = conf.volt /\ clock = conf.clock /\ window = conf /\ known = conf.volt
        /\ stopped = FALSE /\ postAt = "idle" /\ from = conf /\ to = conf
        /\ live = NoTune /\ goal = NoTune /\ reverting = FALSE
        /\ monAt = "idle" /\ monSeen = 0 /\ monGoal = NoTune /\ busFaults = 0
        /\ late = FALSE /\ misread = FALSE /\ unreverted = FALSE
    BY DEF SettingsInit
  <2>2. conf.volt \in Nat /\ conf.clock \in Nat BY <1>1
  <2>3. /\ stopped \in BOOLEAN /\ reverting \in BOOLEAN /\ late \in BOOLEAN
        /\ misread \in BOOLEAN /\ unreverted \in BOOLEAN
    BY <2>1
  <2> QED BY <1>1, <1>2, <2>1, <2>2, <2>3 DEF ApplyTypes
<1>4. WindowFits /\ GoalFits /\ FanFits /\ MonitorFits /\ ClockFits /\ VoltFits
  BY <1>1, <1>2 DEF SettingsInit, WindowFits, SameLimits, GoalFits, FanFits, MonitorFits,
     ClockFits, VoltFits
<1> QED BY <1>3, <1>4 DEF ApplyInv

\* The compensated voltage is within the limits of its settings.
LEMMA CompensatedFits ==
    ASSUME NEW c \in Configs PROVE Compensated(c) \in Nat /\ Allows(c, Compensated(c))
BY SettingsAssumption DEF Compensated, Allows

\* What a command to the regulator does, accepted or not.
LEMMA CommandDoes ==
    ASSUME ApplyTypes, NEW volt \in Nat
    PROVE  /\ CommandSucceeds(volt) =>
                 /\ UNCHANGED <<stopped, busFaults>> /\ vout' \in Nat /\ known' \in Nat
                 /\ stopped \/ (Allows(conf, volt) /\ vout' = volt)
           /\ CommandFails(volt) =>
                 /\ vout' \in {vout, volt} /\ UNCHANGED known /\ stopped' \in BOOLEAN
                 /\ busFaults' \in Nat /\ busFaults' >= busFaults /\ ~stopped
                 /\ InWindow(volt) => busFaults' > 0 \/ stopped'
<1>1. ASSUME CommandSucceeds(volt)
      PROVE  /\ UNCHANGED <<stopped, busFaults>> /\ vout' \in Nat /\ known' \in Nat
             /\ stopped \/ (Allows(conf, volt) /\ vout' = volt)
  BY <1>1 DEF ApplyTypes, CommandSucceeds
<1>2. ASSUME CommandFails(volt)
      PROVE  /\ vout' \in {vout, volt} /\ UNCHANGED known /\ ~stopped
             /\ stopped' = stopped \/ stopped' = TRUE
             /\ busFaults' = busFaults \/ busFaults' = busFaults + 1
             /\ InWindow(volt) => busFaults' = busFaults + 1 \/ stopped'
  BY <1>2 DEF CommandFails, BusFails
<1>3. ASSUME CommandFails(volt)
      PROVE  /\ stopped' \in BOOLEAN /\ busFaults' \in Nat /\ busFaults' >= busFaults
             /\ InWindow(volt) => busFaults' > 0 \/ stopped'
  <2>1. busFaults \in Nat BY DEF ApplyTypes
  <2>2. stopped' \in BOOLEAN BY <1>2, <1>3 DEF ApplyTypes
  <2> QED BY <1>2, <1>3, <2>1, <2>2
<1> QED BY <1>1, <1>2, <1>3

\* The two ways on from SetVoltage; with a goal within its limits there is no third.
LEMMA SetVoltageDoes ==
    ASSUME ApplyTypes, GoalFits, SetVoltage
    PROVE  /\ postAt = "a.volt"
           /\ UNCHANGED <<clock, window, fanAt, live, goal, posts, monitorVars, misread>>
           /\ \/ /\ UNCHANGED <<conf, from, to, reverting, late, unreverted, stopped, busFaults>>
                 /\ postAt' = "a.late" /\ vout' \in Nat /\ known' \in Nat
                 /\ \/ goal.volt = live.volt /\ vout' = vout
                    \/ stopped
                    \/ Allows(conf, goal.volt) /\ vout' = goal.volt
              \/ /\ ApplyFails /\ CommandFails(goal.volt) /\ Allows(to, goal.volt)
<1> USE DEF ApplyTypes
<1>1. /\ postAt = "a.volt"
      /\ UNCHANGED <<clock, window, fanAt, live, goal, posts, monitorVars, misread>>
  BY DEF SetVoltage
<1>2. Allows(to, goal.volt) /\ goal.volt \in Nat BY <1>1 DEF GoalFits, Tunes
<1>3. CASE goal.volt = live.volt BY <1>1, <1>3 DEF SetVoltage, NoError
<1>4. CASE goal.volt # live.volt /\ CommandSucceeds(goal.volt) /\ ~ApplyFails
  <2>1. /\ postAt' = "a.late" /\ UNCHANGED <<conf, from, to, reverting, late, unreverted>>
    BY <1>2, <1>4 DEF SetVoltage
  <2> QED BY <1>1, <1>2, <1>4, <2>1, CommandDoes
<1>5. CASE goal.volt # live.volt /\ ~(CommandSucceeds(goal.volt) /\ ~ApplyFails)
  <2>1. \/ /\ CommandSucceeds(goal.volt) /\ postAt' = "a.late"
           /\ UNCHANGED <<conf, from, to, reverting, late, unreverted>>
        \/ CommandFails(goal.volt) /\ ApplyFails
    BY <1>2, <1>5 DEF SetVoltage
  <2> QED BY <1>1, <1>2, <2>1, CommandDoes
<1> QED BY <1>3, <1>4, <1>5

\* What a transition of the monitor does.
LEMMA TuneVoltageDoes ==
    ASSUME ApplyTypes, TuneVoltage
    PROVE  /\ monAt = "tune" /\ monAt' = "idle" /\ monGoal' = NoTune
           /\ UNCHANGED <<conf, fanAt, window, postVars, cold, misread, unreverted, monSeen, late>>
           /\ vout' \in Nat /\ known' \in Nat /\ busFaults' \in Nat /\ stopped' \in BOOLEAN
           /\ busFaults' >= busFaults /\ (stopped => stopped')
           /\ clock' = clock \/ (monGoal.clock # 0 /\ clock' = monGoal.clock)
           /\ ~stopped' => \/ vout' = vout
                           \/ vout' = monGoal.volt
                                 /\ (Allows(conf, vout') \/ monGoal.clock # 0)
<1> DEFINE volt == monGoal.volt
<1>1. volt \in Nat /\ monGoal.clock \in Nat BY DEF ApplyTypes, Tunes
<1>2. monAt = "tune" /\ monAt' = "idle" /\ monGoal' = NoTune
      /\ UNCHANGED <<conf, fanAt, window, postVars, cold, misread, unreverted, monSeen, late>>
  BY DEF TuneVoltage, MonitorUnchanged
<1>3. ASSUME UNCHANGED <<vout, known, stopped, busFaults>>
      PROVE  /\ vout' \in Nat /\ known' \in Nat /\ busFaults' \in Nat /\ stopped' \in BOOLEAN
             /\ busFaults' >= busFaults /\ (stopped => stopped') /\ vout' = vout
  BY <1>3 DEF ApplyTypes
<1>4. ASSUME CommandSucceeds(volt) \/ CommandFails(volt)
      PROVE  /\ vout' \in Nat /\ known' \in Nat /\ busFaults' \in Nat /\ stopped' \in BOOLEAN
             /\ busFaults' >= busFaults /\ (stopped => stopped')
             /\ ~stopped' => vout' \in {vout, volt}
  BY <1>1, <1>4, CommandDoes DEF ApplyTypes
<1>5. CASE Compensate
  <2>1. /\ UNCHANGED clock
        /\ \/ UNCHANGED <<vout, known, stopped, busFaults>>
           \/ Allows(conf, volt) /\ (CommandSucceeds(volt) \/ CommandFails(volt))
    BY <1>5 DEF Compensate
  <2> QED BY <1>2, <1>3, <1>4, <2>1
<1>6. CASE SetPreset
  <2>1. /\ monGoal.clock # 0 /\ clock' \in {clock, monGoal.clock}
        /\ CommandSucceeds(volt) \/ CommandFails(volt)
    BY <1>6 DEF SetPreset
  <2> QED BY <1>2, <1>4, <2>1
<1>7. CASE UNCHANGED <<vout, commanded, clock, known, stopped, busFaults>>
  BY <1>2, <1>3, <1>7
<1> QED BY <1>5, <1>6, <1>7 DEF TuneVoltage

\* Where a request goes on, or goes back from an error.
LEMMA RequestTypes ==
    ASSUME ApplyTypes, postAt # "idle",
           \/ /\ UNCHANGED <<conf, from, to, reverting, late, unreverted>>
              /\ postAt' \in ApplyLabels \cup {"idle"}
           \/ ApplyFails
    PROVE  /\ conf' \in Configs /\ from' \in Configs /\ to' \in Configs
           /\ postAt' \in ApplyLabels \cup {"idle"} /\ (postAt' # "idle" => conf' = to')
           /\ reverting' \in BOOLEAN /\ late' \in BOOLEAN /\ unreverted' \in BOOLEAN
<1>1. CASE UNCHANGED <<conf, from, to, reverting, late, unreverted>>
           /\ postAt' \in ApplyLabels \cup {"idle"}
  BY <1>1 DEF ApplyTypes
<1>2. CASE ApplyFails /\ reverting BY <1>2 DEF ApplyFails, ApplyTypes
<1>3. CASE ApplyFails /\ ~reverting
  <2>1. /\ conf' = from /\ from' = to /\ to' = from /\ postAt' = "a.plan" /\ unreverted' = unreverted
        /\ reverting' = TRUE /\ late' = (late \/ MonitorHolds)
    BY <1>3 DEF ApplyFails
  <2>2. late' \in BOOLEAN BY <2>1 DEF ApplyTypes
  <2> QED BY <2>1, <2>2 DEF ApplyTypes, ApplyLabels
<1> QED BY <1>1, <1>2, <1>3

LEMMA ApplyTypesNext == ASSUME ApplyInv, SettingsNext PROVE ApplyTypes'
<1> USE SettingsAssumption, CompensatedFits
    DEF ApplyInv, ApplyTypes, Tunes, ApplyLabels, Allows, postVars, monitorVars, chipVars,
        applyHistory, ApplyUnchanged, NoError, ApplyFails, BusFails, MonitorHolds,
        MonitorUnchanged
<1>1. CASE Post BY <1>1 DEF Post
<1>2. CASE Plan BY <1>2 DEF Plan, OwnsTune
<1>3. CASE EarlyLimits
  <2>1. /\ postAt # "idle" /\ window' \in {window, to}
        /\ UNCHANGED <<vout, commanded, clock, fanAt, known>> /\ ApplyUnchanged
    BY <1>3 DEF EarlyLimits, SetWindow
  <2>2. \/ NoError /\ postAt' \in ApplyLabels
        \/ BusFails /\ ApplyFails
    BY <1>3 DEF EarlyLimits, SetWindow
  <2>3. \/ /\ UNCHANGED <<conf, from, to, reverting, late, unreverted>>
           /\ postAt' \in ApplyLabels \cup {"idle"}
        \/ ApplyFails
    BY <2>2
  <2>4. /\ conf' \in Configs /\ from' \in Configs /\ to' \in Configs
        /\ postAt' \in ApplyLabels \cup {"idle"} /\ (postAt' # "idle" => conf' = to')
        /\ reverting' \in BOOLEAN /\ late' \in BOOLEAN /\ unreverted' \in BOOLEAN
    BY <2>1, <2>3, RequestTypes
  <2>5. busFaults' \in Nat BY <2>2
  <2> QED BY <2>1, <2>4, <2>5
<1>4. CASE LowerClock BY <1>4 DEF LowerClock, SetClock
<1>5. CASE SetVoltage
  <2>1. busFaults' \in Nat /\ vout' \in Nat /\ known' \in Nat /\ stopped' \in BOOLEAN
    BY <1>5, SetVoltageDoes, CommandDoes
  <2>2. postAt # "idle" /\ UNCHANGED <<clock, window, live, goal, monitorVars, misread>>
    BY <1>5, SetVoltageDoes
  <2>3. \/ UNCHANGED <<conf, from, to, reverting, late, unreverted>> /\ postAt' \in ApplyLabels
        \/ ApplyFails
    BY <1>5, SetVoltageDoes
  <2> QED BY <2>1, <2>2, <2>3, RequestTypes
<1>6. CASE LateLimits
  <2>1. /\ postAt # "idle" /\ window' \in {window, to}
        /\ UNCHANGED <<vout, commanded, clock, fanAt, known>> /\ ApplyUnchanged
    BY <1>6 DEF LateLimits, SetWindow
  <2>2. \/ NoError /\ postAt' \in ApplyLabels
        \/ BusFails /\ ApplyFails
    BY <1>6 DEF LateLimits, SetWindow
  <2>3. \/ /\ UNCHANGED <<conf, from, to, reverting, late, unreverted>>
           /\ postAt' \in ApplyLabels \cup {"idle"}
        \/ ApplyFails
    BY <2>2
  <2>4. /\ conf' \in Configs /\ from' \in Configs /\ to' \in Configs
        /\ postAt' \in ApplyLabels \cup {"idle"} /\ (postAt' # "idle" => conf' = to')
        /\ reverting' \in BOOLEAN /\ late' \in BOOLEAN /\ unreverted' \in BOOLEAN
    BY <2>1, <2>3, RequestTypes
  <2>5. busFaults' \in Nat BY <2>2
  <2> QED BY <2>1, <2>4, <2>5
<1>7. CASE RaiseClock BY <1>7 DEF RaiseClock, SetClock
<1>8. CASE SetFan
  <2>1. postAt # "idle" /\ UNCHANGED <<vout, commanded, clock, window, known>> /\ ApplyUnchanged
    BY <1>8 DEF SetFan
  <2>2. \/ NoError /\ postAt' \in {"idle", "save"}
        \/ BusFails /\ ApplyFails
    BY <1>8 DEF SetFan
  <2>3. \/ /\ UNCHANGED <<conf, from, to, reverting, late, unreverted>>
           /\ postAt' \in ApplyLabels \cup {"idle"}
        \/ ApplyFails
    BY <2>2
  <2>4. /\ conf' \in Configs /\ from' \in Configs /\ to' \in Configs
        /\ postAt' \in ApplyLabels \cup {"idle"} /\ (postAt' # "idle" => conf' = to')
        /\ reverting' \in BOOLEAN /\ late' \in BOOLEAN /\ unreverted' \in BOOLEAN
    BY <2>1, <2>3, RequestTypes
  <2>5. busFaults' \in Nat BY <2>2
  <2> QED BY <2>1, <2>4, <2>5
<1>9. CASE ApplySettings
  <2>1. postAt # "idle" /\ UNCHANGED chipVars /\ ApplyUnchanged
    BY <1>9 DEF ApplySettings
  <2>2. \/ NoError /\ postAt' = "idle"
        \/ BusFails /\ ApplyFails
    BY <1>9 DEF ApplySettings
  <2>3. \/ /\ UNCHANGED <<conf, from, to, reverting, late, unreverted>>
           /\ postAt' \in ApplyLabels \cup {"idle"}
        \/ ApplyFails
    BY <2>2
  <2>4. /\ conf' \in Configs /\ from' \in Configs /\ to' \in Configs
        /\ postAt' \in ApplyLabels \cup {"idle"} /\ (postAt' # "idle" => conf' = to')
        /\ reverting' \in BOOLEAN /\ late' \in BOOLEAN /\ unreverted' \in BOOLEAN
    BY <2>1, <2>3, RequestTypes
  <2>5. busFaults' \in Nat BY <2>2
  <2> QED BY <2>1, <2>4, <2>5
<1>10. CASE Capture BY <1>10 DEF Capture
<1>11. CASE Validate
  <2>1. /\ known' \in {known, monSeen} /\ monSeen' \in {monSeen, 0}
        /\ monAt' \in {"choose", "idle"} /\ (stopped' = stopped \/ stopped' = TRUE)
        /\ UNCHANGED <<conf, window, postVars, misread, unreverted, vout, clock, monGoal,
                       busFaults, late>>
    BY <1>11 DEF Validate
  <2>2. stopped' \in BOOLEAN BY <2>1
  <2> QED BY <2>1, <2>2
<1>12. CASE Choose
  <2>1. monGoal' \in Presets \cup {NoTune, [volt |-> Compensated(conf), clock |-> 0]}
    BY <1>12 DEF Choose
  <2>2. Compensated(conf) \in Nat OBVIOUS
  <2>3. monGoal'.volt \in Nat /\ monGoal'.clock \in Nat BY <2>1, <2>2 DEF NoTune
  <2>4. /\ monAt' = "tune" /\ monSeen' = 0
        /\ UNCHANGED <<conf, window, postVars, misread, unreverted, vout, known, clock, stopped,
                       busFaults, late>>
    BY <1>12 DEF Choose
  <2> QED BY <2>3, <2>4
<1>13. CASE Wait BY <1>13 DEF Wait
<1>14. CASE TuneVoltage
  <2>1. clock' \in Nat BY <1>14, TuneVoltageDoes
  <2>2. NoTune.volt = 0 /\ NoTune.clock = 0 BY DEF NoTune
  <2> QED BY <1>14, <2>1, <2>2, TuneVoltageDoes
<1>15. CASE Cool BY <1>15 DEF Cool
<1> QED BY <1>1, <1>2, <1>3, <1>4, <1>5, <1>6, <1>7, <1>8, <1>9, <1>10, <1>11, <1>12,
       <1>13, <1>14, <1>15 DEF SettingsNext, PostStep, MonitorStep

LEMMA WindowFitsNext == ASSUME ApplyInv, SettingsNext PROVE WindowFits'
<1> USE SettingsAssumption, CompensatedFits
    DEF ApplyInv, ApplyTypes, Tunes, ApplyLabels, Allows, postVars, monitorVars, chipVars,
        applyHistory, ApplyUnchanged, NoError, ApplyFails, BusFails, MonitorHolds,
        MonitorUnchanged
<1>1. CASE Post
  BY <1>1 DEF Post, WindowFits, SameLimits, NeedsNewLimits, LimitsChange, InWindow
<1>2. CASE Plan
  BY <1>2 DEF Plan, OwnsTune, WindowFits, SameLimits, NeedsNewLimits, LimitsChange, InWindow
<1>3. CASE EarlyLimits
  BY <1>3 DEF EarlyLimits, SetWindow, WindowFits, SameLimits, NeedsNewLimits, LimitsChange, InWindow
<1>4. CASE LowerClock
  BY <1>4 DEF LowerClock, SetClock, WindowFits, SameLimits, NeedsNewLimits, LimitsChange, InWindow
<1>5. CASE SetVoltage
  <2>1. postAt = "a.volt" /\ UNCHANGED <<window, goal>> BY <1>5, SetVoltageDoes
  <2>2. CASE ApplyFails
    <3>1. CommandFails(goal.volt) /\ Allows(to, goal.volt) /\ goal.volt \in Nat
      BY <1>5, <2>2, SetVoltageDoes
    <3>2. /\ ~stopped /\ busFaults' \in Nat /\ busFaults' >= busFaults
          /\ InWindow(goal.volt) => busFaults' > 0 \/ stopped'
      BY <3>1, CommandDoes
    <3>3. busFaults' > 0 \/ stopped'
      <4>1. SUFFICES ASSUME busFaults = 0 PROVE InWindow(goal.volt) BY <3>2
      <4>2. ~reverting /\ ~unreverted BY <4>1, <3>2 DEF WindowFits
      <4>3. NeedsNewLimits => SameLimits(window, to) BY <2>1, <3>2, <4>2 DEF WindowFits
      <4>4. ~NeedsNewLimits => SameLimits(window, from) BY <2>1, <3>2, <4>2 DEF WindowFits
      <4> QED BY <3>1, <4>3, <4>4 DEF InWindow, SameLimits, NeedsNewLimits, LimitsChange
    <3> QED BY <2>1, <2>2, <3>2, <3>3 DEF WindowFits, SameLimits
  <2>3. CASE ~ApplyFails
    <3>1. /\ UNCHANGED <<conf, from, to, reverting, unreverted, stopped, busFaults>>
          /\ postAt' = "a.late"
      BY <1>5, <2>3, SetVoltageDoes
    <3> QED BY <2>1, <3>1 DEF WindowFits, SameLimits, NeedsNewLimits, LimitsChange
  <2> QED BY <2>2, <2>3
<1>6. CASE LateLimits
  BY <1>6 DEF LateLimits, SetWindow, WindowFits, SameLimits, NeedsNewLimits, LimitsChange, InWindow
<1>7. CASE RaiseClock
  BY <1>7 DEF RaiseClock, SetClock, WindowFits, SameLimits, NeedsNewLimits, LimitsChange, InWindow
<1>8. CASE SetFan
  BY <1>8 DEF SetFan, WindowFits, SameLimits, NeedsNewLimits, LimitsChange, InWindow
<1>9. CASE ApplySettings
  BY <1>9 DEF ApplySettings, WindowFits, SameLimits, NeedsNewLimits, LimitsChange, InWindow
<1>10. CASE Capture
  BY <1>10 DEF Capture, WindowFits, SameLimits, NeedsNewLimits, LimitsChange, InWindow
<1>11. CASE Validate
  BY <1>11 DEF Validate, WindowFits, SameLimits, NeedsNewLimits, LimitsChange, InWindow
<1>12. CASE Choose
  BY <1>12 DEF Choose, WindowFits, SameLimits, NeedsNewLimits, LimitsChange, InWindow
<1>13. CASE Wait
  BY <1>13 DEF Wait, WindowFits, SameLimits, NeedsNewLimits, LimitsChange, InWindow
<1>14. CASE TuneVoltage
  BY <1>14 DEF TuneVoltage, Compensate, SetPreset, CommandSucceeds, CommandFails, WindowFits, SameLimits, NeedsNewLimits, LimitsChange, InWindow
<1>15. CASE Cool
  BY <1>15 DEF Cool, WindowFits, SameLimits, NeedsNewLimits, LimitsChange, InWindow
<1> QED BY <1>1, <1>2, <1>3, <1>4, <1>5, <1>6, <1>7, <1>8, <1>9, <1>10, <1>11, <1>12,
       <1>13, <1>14, <1>15 DEF SettingsNext, PostStep, MonitorStep

LEMMA GoalFitsNext == ASSUME ApplyInv, SettingsNext PROVE GoalFits'
<1> USE SettingsAssumption, CompensatedFits
    DEF ApplyInv, ApplyTypes, Tunes, ApplyLabels, Allows, postVars, monitorVars, chipVars,
        applyHistory, ApplyUnchanged, NoError, ApplyFails, BusFails, MonitorHolds,
        MonitorUnchanged
<1>1. CASE Post BY <1>1 DEF Post, GoalFits
<1>2. CASE Plan BY <1>2 DEF Plan, OwnsTune, GoalFits
<1>3. CASE EarlyLimits BY <1>3 DEF EarlyLimits, SetWindow, GoalFits
<1>4. CASE LowerClock BY <1>4 DEF LowerClock, SetClock, GoalFits
<1>5. CASE SetVoltage BY <1>5 DEF SetVoltage, CommandSucceeds, CommandFails, GoalFits
<1>6. CASE LateLimits BY <1>6 DEF LateLimits, SetWindow, GoalFits
<1>7. CASE RaiseClock BY <1>7 DEF RaiseClock, SetClock, GoalFits
<1>8. CASE SetFan BY <1>8 DEF SetFan, GoalFits
<1>9. CASE ApplySettings BY <1>9 DEF ApplySettings, GoalFits
<1>10. CASE Capture BY <1>10 DEF Capture, GoalFits
<1>11. CASE Validate BY <1>11 DEF Validate, GoalFits
<1>12. CASE Choose BY <1>12 DEF Choose, GoalFits
<1>13. CASE Wait BY <1>13 DEF Wait, GoalFits
<1>14. CASE TuneVoltage
  BY <1>14 DEF TuneVoltage, Compensate, SetPreset, CommandSucceeds, CommandFails, GoalFits
<1>15. CASE Cool BY <1>15 DEF Cool, GoalFits
<1> QED BY <1>1, <1>2, <1>3, <1>4, <1>5, <1>6, <1>7, <1>8, <1>9, <1>10, <1>11, <1>12,
       <1>13, <1>14, <1>15 DEF SettingsNext, PostStep, MonitorStep

LEMMA FanFitsNext == ASSUME ApplyInv, SettingsNext PROVE FanFits'
<1> USE SettingsAssumption, CompensatedFits
    DEF ApplyInv, ApplyTypes, Tunes, ApplyLabels, Allows, postVars, monitorVars, chipVars,
        applyHistory, ApplyUnchanged, NoError, ApplyFails, BusFails, MonitorHolds,
        MonitorUnchanged
<1>1. CASE Post BY <1>1 DEF Post, FanFits
<1>2. CASE Plan BY <1>2 DEF Plan, OwnsTune, FanFits
<1>3. CASE EarlyLimits BY <1>3 DEF EarlyLimits, SetWindow, FanFits
<1>4. CASE LowerClock BY <1>4 DEF LowerClock, SetClock, FanFits
<1>5. CASE SetVoltage BY <1>5 DEF SetVoltage, CommandSucceeds, CommandFails, FanFits
<1>6. CASE LateLimits BY <1>6 DEF LateLimits, SetWindow, FanFits
<1>7. CASE RaiseClock BY <1>7 DEF RaiseClock, SetClock, FanFits
<1>8. CASE SetFan BY <1>8 DEF SetFan, FanFits
<1>9. CASE ApplySettings BY <1>9 DEF ApplySettings, FanFits
<1>10. CASE Capture BY <1>10 DEF Capture, FanFits
<1>11. CASE Validate BY <1>11 DEF Validate, FanFits
<1>12. CASE Choose BY <1>12 DEF Choose, FanFits
<1>13. CASE Wait BY <1>13 DEF Wait, FanFits
<1>14. CASE TuneVoltage
  BY <1>14 DEF TuneVoltage, Compensate, SetPreset, CommandSucceeds, CommandFails, FanFits
<1>15. CASE Cool BY <1>15 DEF Cool, FanFits
<1> QED BY <1>1, <1>2, <1>3, <1>4, <1>5, <1>6, <1>7, <1>8, <1>9, <1>10, <1>11, <1>12,
       <1>13, <1>14, <1>15 DEF SettingsNext, PostStep, MonitorStep

LEMMA MonitorFitsNext == ASSUME ApplyInv, SettingsNext PROVE MonitorFits'
<1> USE SettingsAssumption, CompensatedFits
    DEF ApplyInv, ApplyTypes, Tunes, ApplyLabels, Allows, postVars, monitorVars, chipVars,
        applyHistory, ApplyUnchanged, NoError, ApplyFails, BusFails, MonitorHolds,
        MonitorUnchanged
<1>1. CASE Post BY <1>1 DEF Post, MonitorFits, NoTune
<1>2. CASE Plan BY <1>2 DEF Plan, OwnsTune, MonitorFits, NoTune
<1>3. CASE EarlyLimits BY <1>3 DEF EarlyLimits, SetWindow, MonitorFits, NoTune
<1>4. CASE LowerClock BY <1>4 DEF LowerClock, SetClock, MonitorFits, NoTune
<1>5. CASE SetVoltage
  BY <1>5 DEF SetVoltage, CommandSucceeds, CommandFails, MonitorFits, NoTune
<1>6. CASE LateLimits BY <1>6 DEF LateLimits, SetWindow, MonitorFits, NoTune
<1>7. CASE RaiseClock BY <1>7 DEF RaiseClock, SetClock, MonitorFits, NoTune
<1>8. CASE SetFan BY <1>8 DEF SetFan, MonitorFits, NoTune
<1>9. CASE ApplySettings BY <1>9 DEF ApplySettings, MonitorFits, NoTune
<1>10. CASE Capture BY <1>10 DEF Capture, MonitorFits, NoTune
<1>11. CASE Validate BY <1>11 DEF Validate, MonitorFits, NoTune
<1>12. CASE Choose BY <1>12 DEF Choose, MonitorFits, NoTune
<1>13. CASE Wait BY <1>13 DEF Wait, MonitorFits, NoTune
<1>14. CASE TuneVoltage
  BY <1>14 DEF TuneVoltage, Compensate, SetPreset, CommandSucceeds, CommandFails, MonitorFits, NoTune
<1>15. CASE Cool BY <1>15 DEF Cool, MonitorFits, NoTune
<1> QED BY <1>1, <1>2, <1>3, <1>4, <1>5, <1>6, <1>7, <1>8, <1>9, <1>10, <1>11, <1>12,
       <1>13, <1>14, <1>15 DEF SettingsNext, PostStep, MonitorStep

LEMMA ClockFitsNext == ASSUME ApplyInv, SettingsNext PROVE ClockFits'
<1> USE SettingsAssumption, CompensatedFits
    DEF ApplyInv, ApplyTypes, Tunes, ApplyLabels, Allows, postVars, monitorVars, chipVars,
        applyHistory, ApplyUnchanged, NoError, ApplyFails, BusFails, MonitorHolds,
        MonitorUnchanged
<1>1. CASE Post BY <1>1 DEF Post, ClockFits
<1>2. CASE Plan BY <1>2 DEF Plan, OwnsTune, ClockFits
<1>3. CASE EarlyLimits BY <1>3 DEF EarlyLimits, SetWindow, ClockFits
<1>4. CASE LowerClock BY <1>4 DEF LowerClock, SetClock, ClockFits
<1>5. CASE SetVoltage BY <1>5 DEF SetVoltage, CommandSucceeds, CommandFails, ClockFits
<1>6. CASE LateLimits BY <1>6 DEF LateLimits, SetWindow, ClockFits
<1>7. CASE RaiseClock BY <1>7 DEF RaiseClock, SetClock, ClockFits
<1>8. CASE SetFan
  <2>1. CASE NoError
    <3>1. UNCHANGED <<conf, to, late, unreverted, clock, goal>> /\ postAt' \in {"idle", "save"}
          /\ postAt \in {"a.fan", "save"}
      BY <1>8, <2>1 DEF SetFan
    <3> QED BY <3>1 DEF ClockFits, GoalFits
  <2>2. CASE ApplyFails BY <2>2 DEF ClockFits
  <2> QED BY <1>8, <2>1, <2>2 DEF SetFan
<1>9. CASE ApplySettings
  <2>1. CASE NoError
    <3>1. UNCHANGED <<conf, to, late, unreverted, clock, goal>> /\ postAt' \in {"idle", "save"}
          /\ postAt \in {"a.fan", "save"}
      BY <1>9, <2>1 DEF ApplySettings
    <3> QED BY <3>1 DEF ClockFits, GoalFits
  <2>2. CASE ApplyFails BY <2>2 DEF ClockFits
  <2> QED BY <1>9, <2>1, <2>2 DEF ApplySettings
<1>10. CASE Capture BY <1>10 DEF Capture, ClockFits
<1>11. CASE Validate BY <1>11 DEF Validate, ClockFits
<1>12. CASE Choose BY <1>12 DEF Choose, ClockFits
<1>13. CASE Wait BY <1>13 DEF Wait, ClockFits
<1>14. CASE TuneVoltage
  <2>1. UNCHANGED <<conf, postAt, late, unreverted, live, goal>> BY <1>14, TuneVoltageDoes
  <2>2. ~late /\ ~conf.auto => clock' = clock BY <1>14, TuneVoltageDoes DEF MonitorFits
  <2> QED BY <2>1, <2>2 DEF ClockFits
<1>15. CASE Cool BY <1>15 DEF Cool, ClockFits
<1> QED BY <1>1, <1>2, <1>3, <1>4, <1>5, <1>6, <1>7, <1>8, <1>9, <1>10, <1>11, <1>12,
       <1>13, <1>14, <1>15 DEF SettingsNext, PostStep, MonitorStep

LEMMA VoltFitsNext == ASSUME ApplyInv, SettingsNext PROVE VoltFits'
<1> USE SettingsAssumption, CompensatedFits
    DEF ApplyInv, ApplyTypes, Tunes, ApplyLabels, Allows, postVars, monitorVars, chipVars,
        applyHistory, ApplyUnchanged, NoError, ApplyFails, BusFails, MonitorHolds,
        MonitorUnchanged
<1>1. CASE Post BY <1>1 DEF Post, VoltFits
<1>2. CASE Plan BY <1>2 DEF Plan, OwnsTune, VoltFits
<1>3. CASE EarlyLimits BY <1>3 DEF EarlyLimits, SetWindow, VoltFits
<1>4. CASE LowerClock BY <1>4 DEF LowerClock, SetClock, VoltFits
<1>5. CASE SetVoltage
  <2>1. postAt = "a.volt" /\ UNCHANGED <<goal, misread>> BY <1>5, SetVoltageDoes
  <2>2. CASE ApplyFails BY <2>2 DEF VoltFits
  <2>3. CASE ~ApplyFails
    <3>1. /\ UNCHANGED <<conf, late, unreverted, stopped>> /\ postAt' = "a.late"
          /\ \/ goal.volt = live.volt /\ vout' = vout
             \/ stopped
             \/ Allows(conf, goal.volt) /\ vout' = goal.volt
      BY <1>5, <2>3, SetVoltageDoes
    <3>2. Allows(conf, goal.volt) BY <2>1 DEF GoalFits
    <3> QED BY <2>1, <3>1, <3>2 DEF VoltFits
  <2> QED BY <2>2, <2>3
<1>6. CASE LateLimits BY <1>6 DEF LateLimits, SetWindow, VoltFits
<1>7. CASE RaiseClock BY <1>7 DEF RaiseClock, SetClock, VoltFits
<1>8. CASE SetFan BY <1>8 DEF SetFan, VoltFits
<1>9. CASE ApplySettings BY <1>9 DEF ApplySettings, VoltFits
<1>10. CASE Capture BY <1>10 DEF Capture, VoltFits
<1>11. CASE Validate BY <1>11 DEF Validate, VoltFits
<1>12. CASE Choose BY <1>12 DEF Choose, VoltFits
<1>13. CASE Wait BY <1>13 DEF Wait, VoltFits
<1>14. CASE TuneVoltage
  <2>1. UNCHANGED <<conf, postAt, late, unreverted, misread, live>> /\ (stopped => stopped')
    BY <1>14, TuneVoltageDoes
  <2>2. ~late /\ ~stopped' => vout' = vout \/ Allows(conf, vout')
    BY <1>14, TuneVoltageDoes DEF MonitorFits
  <2> QED BY <2>1, <2>2 DEF VoltFits
<1>15. CASE Cool BY <1>15 DEF Cool, VoltFits
<1> QED BY <1>1, <1>2, <1>3, <1>4, <1>5, <1>6, <1>7, <1>8, <1>9, <1>10, <1>11, <1>12,
       <1>13, <1>14, <1>15 DEF SettingsNext, PostStep, MonitorStep

LEMMA ApplyInvNext == ApplyInv /\ [SettingsNext]_settingsVars => ApplyInv'
<1> SUFFICES ASSUME ApplyInv, [SettingsNext]_settingsVars PROVE ApplyInv' OBVIOUS
<1>1. CASE UNCHANGED settingsVars
  <2>1. UNCHANGED <<conf, vout, known, clock, window, fanAt, stopped, postAt, from, to, live,
                    goal, reverting, monAt, monSeen, monGoal, busFaults, late, misread,
                    unreverted>>
    BY <1>1 DEF settingsVars, chipVars, postVars, monitorVars, applyHistory
  <2> QED BY <2>1 DEF ApplyInv, ApplyTypes, WindowFits, SameLimits, NeedsNewLimits, LimitsChange,
        GoalFits, FanFits, MonitorFits, ClockFits, VoltFits, Allows
<1>2. CASE SettingsNext
  BY <1>2, ApplyTypesNext, WindowFitsNext, GoalFitsNext, FanFitsNext, MonitorFitsNext,
     ClockFitsNext, VoltFitsNext DEF ApplyInv
<1> QED BY <1>1, <1>2

LEMMA ApplyInvHolds == SettingsSpec => []ApplyInv
BY ApplyInvInit, ApplyInvNext, PTL DEF SettingsSpec

\* A request of valid settings errs only for a failing access or a regulator that was
\* shut down, never for the order in which it moves the thresholds, the voltage and the
\* frequency; and when it is over thresholds, fan and frequency are those of the
\* settings in RAM, new or put back, for every set of settings
\* (apply_hardware_settings).
THEOREM HardwareIsAsSet == SettingsSpec => []HardwareFollowsSettings
<1>1. ApplyInv => HardwareFollowsSettings
  BY DEF ApplyInv, ApplyTypes, WindowFits, SameLimits, FanFits, ClockFits, HardwareFollowsSettings, Settled
<1> QED BY <1>1, ApplyInvHolds, PTL

\* Once a request is over the output is within the limits in force, though the monitor
\* compensates and retunes it meanwhile (apply_hardware_settings, the power monitor).
THEOREM OutputIsWithinLimits == SettingsSpec => []VoltageInLimits
<1>1. ApplyInv => VoltageInLimits
  BY DEF ApplyInv, ApplyTypes, VoltFits, VoltageInLimits, Settled
<1> QED BY <1>1, ApplyInvHolds, PTL

-----------------------------------------------------------------------------
(* The Wi-Fi station link.  From the attempt to the passing bit the driver *)
(* and its queue are of the network under test.                            *)

WifiSpec == WifiInit /\ [][WifiNext]_wifiVars

\* An access point has one key: two networks that can be joined differ by name.
OneKeyPerName == \A a, b \in Good \cup Mute : a.ssid = b.ssid => a = b

Nets == Networks \cup {None}
WifiEvents == [kind : {"gotip", "failed", "leave"}, net : Nets]
TestLabels == {"conf", "try", "wait", "end", "restore"}
\* The queue of a test that waits, and the one of a driver that is not down in a test.
OfTested == {e \in WifiEvents : e.kind = "gotip" => e.net = testNet /\ testNet \in Good}
Gotips == {e \in WifiEvents : e.kind = "gotip"}

WifiTypes ==
    /\ saved \in Nets /\ staConf \in Nets /\ link \in Nets /\ testNet \in Nets
    /\ testSaved \in Nets /\ proven \in Nets
    /\ drv \in {"down", "connecting", "joined", "up"}
    /\ drv \in {"joined", "up"} => link \in Good \cup Mute
    /\ drv = "up" => link \in Good
    /\ events \in Seq(WifiEvents)
    /\ rejoinAt \in {"idle", "sleeping", "leave", "join"}
    /\ testAt \in TestLabels \cup {"idle"}
    /\ active = (testAt # "idle")
    /\ connected \in BOOLEAN /\ waiting \in BOOLEAN /\ ignore \in BOOLEAN

\* The driver is the test's own: what it is at, and what it tells, is of the network
\* under test, from the attempt to the passing bit.
TestIsAlone == astray = {} =>
    /\ testAt # "idle" => rejoinAt \in {"idle", "sleeping"}
    /\ testAt \in {"conf", "try", "restore"} => drv = "down"
    /\ testAt \in {"try", "wait"} => staConf = testNet
    /\ testAt \in {"conf", "try", "wait"} => proven = None
    /\ waiting => testAt = "wait"
    /\ testAt = "wait" => /\ drv # "down" => link = testNet
                          /\ events \in Seq(OfTested)
                          /\ "fail" \in bits => drv = "down"
                          /\ "ok" \in bits => /\ proof = testNet /\ testNet \in Good
                                              /\ connected \/ drv = "down"
    /\ testAt \in {"wait", "end"} /\ drv # "down" => events \in Seq(Gotips)
    /\ testAt = "end" /\ drv # "down" => connected

\* What passed is what the address was from.  A saved network that gives no address
\* was saved before the start, and the station is nowhere else outside a test.
SavedIsHonest == astray = {} =>
    /\ proven # None => proof = proven
    /\ proven \in Good \cup {None, saved}
    /\ saved \notin Good \cup {None} =>
          /\ testAt # "idle" => testSaved = saved
          /\ testAt = "idle" => staConf = saved /\ (drv # "down" => link = saved)

WifiInv == WifiTypes /\ TestIsAlone /\ SavedIsHonest

-----------------------------------------------------------------------------

LEMMA QueueShrinks == ASSUME NEW S, NEW queue \in Seq(S), queue # << >>
                      PROVE  Head(queue) \in S /\ Tail(queue) \in Seq(S)
OBVIOUS

LEMMA QueueGrows == ASSUME NEW S, NEW queue \in Seq(S), NEW e \in S
                    PROVE  Append(queue, e) \in Seq(S)
OBVIOUS

LEMMA EmptyQueue == ASSUME NEW S PROVE << >> \in Seq(S)
OBVIOUS

LEMMA WifiInitInv == ASSUME WifiInit PROVE WifiInv
<1> USE WifiAssumption DEF WifiInit, WifiInv, Nets, WifiEvents, TestLabels
<1>1. WifiTypes
    BY EmptyQueue DEF WifiTypes
<1>2. TestIsAlone /\ SavedIsHonest
    BY EmptyQueue DEF TestIsAlone, SavedIsHonest
<1>3. QED
    BY <1>1, <1>2

LEMMA DisconnectFits == ASSUME WifiTypes, Disconnect
                        PROVE  /\ events' \in Seq(WifiEvents)
                               /\ drv' = "down" /\ link' \in Nets
<1> USE DEF WifiTypes
<1>1. CASE drv = "down"
    BY <1>1 DEF Disconnect
<1>2. CASE drv # "down"
    <2>1. [kind |-> "leave", net |-> None] \in WifiEvents
        BY DEF WifiEvents, Nets
    <2>2. events' = Append(events, [kind |-> "leave", net |-> None])
        BY <1>2 DEF Disconnect
    <2>3. events' \in Seq(WifiEvents)
        BY <2>1, <2>2, QueueGrows
    <2>4. QED
        BY <1>2, <2>3 DEF Disconnect, Nets
<1>3. QED
    BY <1>1, <1>2

LEMMA HandledFits == ASSUME WifiTypes, events # << >>
                     PROVE  Tail(events) \in Seq(WifiEvents) /\ Head(events) \in WifiEvents
BY QueueShrinks DEF WifiTypes

StartsWith(net) ==
    IF OnSaved(net)
    THEN /\ proven' = net /\ proof' = link /\ UNCHANGED astray
         /\ UNCHANGED <<testAt, testNet, testSaved, active, waiting, ignore, bits, drv, link, events>>
    ELSE /\ proven' = None /\ proof' = None
         /\ testAt' = "conf" /\ testNet' = net /\ testSaved' = saved
         /\ active' = TRUE /\ waiting' = FALSE /\ ignore' = TRUE /\ bits' = {}
         /\ astray' = IF rejoinAt = "idle" THEN astray ELSE astray \cup {"rejoin"}
         /\ Disconnect

LEMMA TestStartDoes == ASSUME TestStart
                       PROVE  testAt = "idle" /\ \E net \in Networks : StartsWith(net)
BY DEF TestStart, StartsWith

LEMMA WifiTypesNext == ASSUME WifiInv, WifiNext PROVE WifiTypes'
<1> USE WifiAssumption DEF WifiInv, WifiTypes, Nets, WifiEvents, TestLabels, linkVars, stationVars, testVars
<1>1. CASE Joins
    BY <1>1, QueueShrinks, QueueGrows, EmptyQueue DEF Joins, DriverOnly
<1>2. CASE GetsAddress
    BY <1>2, QueueShrinks, QueueGrows, EmptyQueue DEF GetsAddress, DriverOnly
<1>3. CASE Drop
    BY <1>3, QueueShrinks, QueueGrows, EmptyQueue DEF Drop, DriverOnly
<1>4. CASE GotAddress
    <2>1. events # << >> /\ events' = Tail(events)
        BY <1>4 DEF GotAddress
    <2>2. events' \in Seq(WifiEvents)
        BY <2>1, HandledFits
    <2>3. connected' \in BOOLEAN /\ ignore' \in BOOLEAN
        BY <1>4 DEF GotAddress
    <2>4. UNCHANGED <<saved, staConf, drv, link, testNet, testSaved, proven, rejoinAt, testAt,
                      active, waiting>>
        BY <1>4 DEF GotAddress
    <2>5. QED
        BY <2>2, <2>3, <2>4
<1>5. CASE LostInTest
    <2>1. events # << >> /\ events' = Tail(events)
        BY <1>5 DEF LostInTest
    <2>2. events' \in Seq(WifiEvents)
        BY <2>1, HandledFits
    <2>3. connected' \in BOOLEAN /\ ignore' \in BOOLEAN
        BY <1>5 DEF LostInTest
    <2>4. UNCHANGED <<saved, staConf, drv, link, testNet, testSaved, proven, rejoinAt, testAt,
                      active, waiting>>
        BY <1>5 DEF LostInTest
    <2>5. QED
        BY <2>2, <2>3, <2>4
<1>6. CASE Lost
    <2>1. events # << >> /\ events' = Tail(events)
        BY <1>6 DEF Lost, ConnectWith
    <2>2. events' \in Seq(WifiEvents)
        BY <2>1, HandledFits
    <2>3. \/ drv' = "connecting" /\ link' = staConf
          \/ drv' = drv /\ link' = link
        BY <1>6 DEF Lost, ConnectWith
    <2>4. connected' \in BOOLEAN
        BY <1>6 DEF Lost
    <2>5. UNCHANGED <<saved, staConf, testNet, testSaved, proven, rejoinAt, testAt, active, waiting, ignore>>
        BY <1>6 DEF Lost
    <2>6. QED
        BY <2>2, <2>3, <2>4, <2>5
<1>7. CASE BackoffWakes
    BY <1>7, QueueShrinks, QueueGrows, EmptyQueue DEF BackoffWakes
<1>8. CASE BackoffRetries
    BY <1>8, QueueShrinks, QueueGrows, EmptyQueue DEF BackoffRetries, ConnectWith
<1>9. CASE TestStart
    <2>1. UNCHANGED <<saved, staConf, connected, rejoinAt>>
        BY <1>9 DEF TestStart, TestOnly
    <2>2. PICK net \in Networks : StartsWith(net)
        BY <1>9, TestStartDoes
    <2>3. CASE OnSaved(net)
        <3>1. proven' = net /\ UNCHANGED <<testAt, testNet, testSaved, active, waiting, ignore,
                                           drv, link, events>>
            BY <2>2, <2>3 DEF StartsWith
        <3>2. QED
            BY <2>1, <3>1
    <2>4. CASE ~OnSaved(net)
        <3>1. /\ proven' = None /\ testAt' = "conf" /\ testNet' = net /\ testSaved' = saved
              /\ active' = TRUE /\ waiting' = FALSE /\ ignore' = TRUE /\ Disconnect
            BY <2>2, <2>4 DEF StartsWith
        <3>2. events' \in Seq(WifiEvents) /\ drv' = "down" /\ link' \in Nets
            BY <3>1, DisconnectFits
        <3>3. QED
            BY <2>1, <3>1, <3>2
    <2>5. QED
        BY <2>3, <2>4
<1>10. CASE TestConfigure
    BY <1>10, QueueShrinks, QueueGrows, EmptyQueue DEF TestConfigure, TestOnly, Configure
<1>11. CASE TestTry
    <2>1. UNCHANGED <<saved, staConf, testNet, testSaved, proven, rejoinAt, active, events>>
        BY <1>11 DEF TestTry, TestOnly, ConnectWith
    <2>2. testAt = "try" /\ testAt' \in {"wait", "end"}
        BY <1>11 DEF TestTry
    <2>3. connected' = FALSE /\ waiting' = TRUE /\ (ignore' = ignore \/ ignore' = FALSE)
        BY <1>11 DEF TestTry
    <2>4. \/ drv' = "connecting" /\ link' = staConf
          \/ drv' = drv /\ link' = link
        BY <1>11 DEF TestTry, ConnectWith
    <2>5. /\ drv' \in {"down", "connecting", "joined", "up"} /\ link' \in Nets
          /\ drv' \in {"joined", "up"} => link' \in Good \cup Mute
          /\ drv' = "up" => link' \in Good
        BY <2>4
    <2>6. active' = (testAt' # "idle")
        BY <2>1, <2>2
    <2>7. connected' \in BOOLEAN /\ waiting' \in BOOLEAN /\ ignore' \in BOOLEAN
        BY <2>3
    <2>8. QED
        BY <2>1, <2>2, <2>5, <2>6, <2>7
<1>12. CASE TestPasses
    BY <1>12, QueueShrinks, QueueGrows, EmptyQueue DEF TestPasses, TestOnly
<1>13. CASE TestFails
    BY <1>13, DisconnectFits DEF TestFails, TestOnly
<1>14. CASE TestLeaves
    BY <1>14, DisconnectFits DEF TestLeaves, TestOnly
<1>15. CASE TestRestores
    <2>1. UNCHANGED <<saved, proven, rejoinAt, connected, waiting, ignore>>
        BY <1>15 DEF TestRestores, TestOnly, TestEnded
    <2>2. testAt' = "idle" /\ active' = FALSE /\ testNet' = None /\ testSaved' = None
        BY <1>15 DEF TestRestores, TestEnded
    <2>3. staConf' \in Nets
        BY <1>15 DEF TestRestores, Configure
    <2>4. /\ events' = events
          /\ \/ drv' = "connecting" /\ link' = testSaved
             \/ drv' = drv /\ link' = link
        BY <1>15 DEF TestRestores
    <2>5. /\ drv' \in {"down", "connecting", "joined", "up"} /\ link' \in Nets
          /\ drv' \in {"joined", "up"} => link' \in Good \cup Mute
          /\ drv' = "up" => link' \in Good
        BY <2>4
    <2>6. active' = (testAt' # "idle")
        BY <2>2
    <2>7. QED
        BY <2>1, <2>2, <2>3, <2>4, <2>5, <2>6
<1>16. CASE SaveNetwork
    BY <1>16, QueueShrinks, QueueGrows, EmptyQueue DEF SaveNetwork, SaveOnly
<1>17. CASE Patch
    BY <1>17, QueueShrinks, QueueGrows, EmptyQueue DEF Patch, SaveOnly
<1>18. CASE SaveSetup
    BY <1>18, QueueShrinks, QueueGrows, EmptyQueue DEF SaveSetup, Started
<1>19. CASE StationRestarts
    BY <1>19, QueueShrinks, QueueGrows, EmptyQueue DEF StationRestarts, Started
<1>20. CASE RejoinConfigures
    BY <1>20, QueueShrinks, QueueGrows, EmptyQueue DEF RejoinConfigures, RejoinOnly
<1>21. CASE RejoinLeaves
    BY <1>21, DisconnectFits DEF RejoinLeaves, RejoinOnly
<1>22. CASE RejoinConnects
    BY <1>22, QueueShrinks, QueueGrows, EmptyQueue DEF RejoinConnects, RejoinOnly, ConnectWith
<1>23. QED
    BY <1>1, <1>2, <1>3, <1>4, <1>5, <1>6, <1>7, <1>8, <1>9, <1>10, <1>11, <1>12, <1>13, <1>14, <1>15, <1>16, <1>17, <1>18, <1>19, <1>20, <1>21, <1>22 DEF WifiNext, Handle, TestStep, RejoinStep

LEMMA TestIsAloneNext == ASSUME WifiInv, WifiNext PROVE TestIsAlone'
<1> USE WifiAssumption DEF WifiInv, WifiTypes, TestIsAlone, OfTested, Gotips, Nets, WifiEvents, TestLabels, linkVars, stationVars, testVars
<1>1. CASE Joins
    BY <1>1, QueueShrinks, QueueGrows, EmptyQueue DEF Joins, DriverOnly
<1>2. CASE GetsAddress
    BY <1>2, QueueShrinks, QueueGrows, EmptyQueue DEF GetsAddress, DriverOnly
<1>3. CASE Drop
    BY <1>3, QueueShrinks, QueueGrows, EmptyQueue DEF Drop, DriverOnly
<1>4. CASE GotAddress
    BY <1>4, QueueShrinks, QueueGrows, EmptyQueue DEF GotAddress
<1>5. CASE LostInTest
    BY <1>5, QueueShrinks, QueueGrows, EmptyQueue DEF LostInTest
<1>6. CASE Lost
    BY <1>6, QueueShrinks, QueueGrows, EmptyQueue DEF Lost, ConnectWith
<1>7. CASE BackoffWakes
    BY <1>7, QueueShrinks, QueueGrows, EmptyQueue DEF BackoffWakes
<1>8. CASE BackoffRetries
    <2>1. UNCHANGED <<saved, staConf, connected, rejoinAt, testVars, astray>>
        BY <1>8 DEF BackoffRetries
    <2>2. CASE active \/ connected \/ saved = None
        <3>1. UNCHANGED <<drv, link, events>>
            BY <1>8, <2>2 DEF BackoffRetries
        <3>2. QED
            BY <2>1, <3>1
    <2>3. CASE ~active
        <3>1. testAt = "idle"
            BY <2>3
        <3>2. QED
            BY <2>1, <3>1
    <2>4. QED
        BY <2>2, <2>3
<1>9. CASE TestStart
    <2>1. UNCHANGED <<saved, staConf, connected, rejoinAt>>
        BY <1>9 DEF TestStart, TestOnly
    <2>2. PICK net \in Networks : StartsWith(net)
        BY <1>9, TestStartDoes
    <2>3. testAt = "idle"
        BY <1>9, TestStartDoes
    <2>4. CASE OnSaved(net)
        <3>1. UNCHANGED <<testAt, testNet, waiting, bits, drv, link, events, astray>>
            BY <2>2, <2>4 DEF StartsWith
        <3>2. QED
            BY <2>1, <2>3, <3>1
    <2>5. CASE ~OnSaved(net)
        <3>1. /\ proven' = None /\ testAt' = "conf" /\ waiting' = FALSE /\ Disconnect
              /\ astray' = IF rejoinAt = "idle" THEN astray ELSE astray \cup {"rejoin"}
            BY <2>2, <2>5 DEF StartsWith
        <3>2. drv' = "down"
            BY <3>1, DisconnectFits
        <3>3. QED
            BY <2>1, <3>1, <3>2
    <2>6. QED
        BY <2>4, <2>5
<1>10. CASE TestConfigure
    BY <1>10, QueueShrinks, QueueGrows, EmptyQueue DEF TestConfigure, TestOnly, Configure
<1>11. CASE TestTry
    BY <1>11, QueueShrinks, QueueGrows, EmptyQueue DEF TestTry, TestOnly, ConnectWith
<1>12. CASE TestPasses
    BY <1>12, QueueShrinks, QueueGrows, EmptyQueue DEF TestPasses, TestOnly
<1>13. CASE TestFails
    BY <1>13, QueueShrinks, QueueGrows, EmptyQueue DEF TestFails, TestOnly, Disconnect
<1>14. CASE TestLeaves
    BY <1>14, QueueShrinks, QueueGrows, EmptyQueue DEF TestLeaves, TestOnly, Disconnect
<1>15. CASE TestRestores
    BY <1>15, QueueShrinks, QueueGrows, EmptyQueue DEF TestRestores, TestOnly, TestEnded, Configure
<1>16. CASE SaveNetwork
    BY <1>16, QueueShrinks, QueueGrows, EmptyQueue DEF SaveNetwork, SaveOnly
<1>17. CASE Patch
    BY <1>17, QueueShrinks, QueueGrows, EmptyQueue DEF Patch, SaveOnly
<1>18. CASE SaveSetup
    BY <1>18, QueueShrinks, QueueGrows, EmptyQueue DEF SaveSetup, Started
<1>19. CASE StationRestarts
    BY <1>19, QueueShrinks, QueueGrows, EmptyQueue DEF StationRestarts, Started
<1>20. CASE RejoinConfigures
    BY <1>20, QueueShrinks, QueueGrows, EmptyQueue DEF RejoinConfigures, RejoinOnly
<1>21. CASE RejoinLeaves
    BY <1>21, QueueShrinks, QueueGrows, EmptyQueue DEF RejoinLeaves, RejoinOnly, Disconnect
<1>22. CASE RejoinConnects
    BY <1>22, QueueShrinks, QueueGrows, EmptyQueue DEF RejoinConnects, RejoinOnly, ConnectWith
<1>23. QED
    BY <1>1, <1>2, <1>3, <1>4, <1>5, <1>6, <1>7, <1>8, <1>9, <1>10, <1>11, <1>12, <1>13, <1>14, <1>15, <1>16, <1>17, <1>18, <1>19, <1>20, <1>21, <1>22 DEF WifiNext, Handle, TestStep, RejoinStep

LEMMA SavedIsHonestNext == ASSUME WifiInv, WifiNext, OneKeyPerName PROVE SavedIsHonest'
<1> USE WifiAssumption DEF WifiInv, WifiTypes, TestIsAlone, SavedIsHonest, TestLabels, linkVars, stationVars, testVars
<1>1. CASE Joins
    BY <1>1 DEF Joins, DriverOnly
<1>2. CASE GetsAddress
    BY <1>2 DEF GetsAddress, DriverOnly
<1>3. CASE Drop
    BY <1>3 DEF Drop, DriverOnly
<1>4. CASE GotAddress
    BY <1>4 DEF GotAddress
<1>5. CASE LostInTest
    BY <1>5 DEF LostInTest
<1>6. CASE Lost
    BY <1>6 DEF Lost, ConnectWith
<1>7. CASE BackoffWakes
    BY <1>7 DEF BackoffWakes
<1>8. CASE BackoffRetries
    BY <1>8 DEF BackoffRetries, ConnectWith
<1>9. CASE TestStart
    <2>1. UNCHANGED <<saved, staConf, connected, rejoinAt>>
        BY <1>9 DEF TestStart, TestOnly
    <2>2. PICK net \in Networks : StartsWith(net)
        BY <1>9, TestStartDoes
    <2>3. testAt = "idle"
        BY <1>9, TestStartDoes
    <2>4. CASE OnSaved(net)
        <3>1. /\ proven' = net /\ proof' = link
              /\ UNCHANGED <<testAt, testSaved, drv, link, astray>>
            BY <2>2, <2>4 DEF StartsWith
        <3>2. saved = net /\ drv # "down" /\ link \in Good \cup Mute /\ link.ssid = net.ssid
            BY <2>4 DEF OnSaved
        <3>3. astray = {} => link = net
            <4>1. net \in Good => link = net
                BY <3>2, OneKeyPerName DEF OneKeyPerName
            <4>2. QED
                BY <2>3, <3>2, <4>1
        <3>4. QED
            BY <2>1, <2>3, <3>1, <3>2, <3>3
    <2>5. CASE ~OnSaved(net)
        <3>1. /\ proven' = None /\ testAt' = "conf" /\ testSaved' = saved
              /\ astray' = IF rejoinAt = "idle" THEN astray ELSE astray \cup {"rejoin"}
            BY <2>2, <2>5 DEF StartsWith
        <3>2. QED
            BY <2>1, <3>1
    <2>6. QED
        BY <2>4, <2>5
<1>10. CASE TestConfigure
    BY <1>10 DEF TestConfigure, TestOnly, Configure
<1>11. CASE TestTry
    BY <1>11 DEF TestTry, TestOnly, ConnectWith
<1>12. CASE TestPasses
    BY <1>12 DEF TestPasses, TestOnly
<1>13. CASE TestFails
    BY <1>13 DEF TestFails, TestOnly, Disconnect
<1>14. CASE TestLeaves
    BY <1>14 DEF TestLeaves, TestOnly, Disconnect
<1>15. CASE TestRestores
    BY <1>15 DEF TestRestores, TestOnly, TestEnded, Configure
<1>16. CASE SaveNetwork
    BY <1>16 DEF SaveNetwork, SaveOnly
<1>17. CASE Patch
    BY <1>17 DEF Patch, SaveOnly
<1>18. CASE SaveSetup
    BY <1>18 DEF SaveSetup, Started
<1>19. CASE StationRestarts
    BY <1>19 DEF StationRestarts, Started
<1>20. CASE RejoinConfigures
    BY <1>20 DEF RejoinConfigures, RejoinOnly
<1>21. CASE RejoinLeaves
    BY <1>21 DEF RejoinLeaves, RejoinOnly, Disconnect
<1>22. CASE RejoinConnects
    BY <1>22 DEF RejoinConnects, RejoinOnly, ConnectWith
<1>23. QED
    BY <1>1, <1>2, <1>3, <1>4, <1>5, <1>6, <1>7, <1>8, <1>9, <1>10, <1>11, <1>12, <1>13, <1>14, <1>15, <1>16, <1>17, <1>18, <1>19, <1>20, <1>21, <1>22 DEF WifiNext, Handle, TestStep, RejoinStep

LEMMA WifiInvNext == ASSUME OneKeyPerName, WifiInv, [WifiNext]_wifiVars PROVE WifiInv'
<1>1. CASE WifiNext
    BY <1>1, OneKeyPerName, WifiTypesNext, TestIsAloneNext, SavedIsHonestNext DEF WifiInv
<1>2. CASE UNCHANGED wifiVars
    BY <1>2 DEF WifiInv, WifiTypes, TestIsAlone, OfTested, SavedIsHonest, wifiVars, linkVars,
                stationVars, testVars
<1>3. QED
    BY <1>1, <1>2

\* A network passes the connection test only by an address had from that very
\* network, unless the station was led astray before: whatever the events of an
\* earlier connection, the retries and the rejoin task do meanwhile.  The code
\* compares the name of the access point the station is at, not its key, so no
\* two access points are to share a name (wifi_http.c:736-843).
THEOREM PassedIsProven == ASSUME OneKeyPerName PROVE WifiSpec => []ProofIsOfNetwork
<1>1. WifiInit => WifiInv
    BY WifiInitInv
<1>2. WifiInv /\ [WifiNext]_wifiVars => WifiInv'
    BY OneKeyPerName, WifiInvNext
<1>3. WifiInv => ProofIsOfNetwork
    BY DEF WifiInv, SavedIsHonest, ProofIsOfNetwork
<1>4. QED
    BY <1>1, <1>2, <1>3, PTL DEF WifiSpec

-----------------------------------------------------------------------------
(* The log buffer and its pages.  Rings are numbered, and a page asks for  *)
(* no more than its ring was given.                                        *)

LogSpec == LogInit /\ [][LogNext]_logVars

LogTypeOK ==
    /\ ring \in Nat /\ rings \in Nat /\ logSeq \in Nat /\ since \in Nat /\ sinceRing \in Nat
    /\ answer \in [missed : BOOLEAN, truncated : BOOLEAN, known : BOOLEAN]

\* Rings are numbered in turn, and a page never asks beyond what was written to
\* the ring it was answered from.
PageBehindRing ==
    /\ ring <= rings /\ sinceRing <= rings
    /\ ring # 0 /\ ring = sinceRing => since <= logSeq

LogInv == LogTypeOK /\ PageBehindRing /\ MissedLinesAreTold

\* What copy_since leaves out of the ring the page knows, it reports.
LEMMA CopyTells ==
    ASSUME LogTypeOK, since <= logSeq, since # 0, ~TooOld(since)
    PROVE  StartOf(since) = since /\ ~(StartOf(since) < Oldest)
<1>1. LogSize \in Nat /\ logSeq \in Nat /\ since \in Nat BY LogAssumption DEF LogTypeOK
<1>2. StartOf(since) = since BY <1>1 DEF StartOf, TooOld
<1>3. ~(since < Oldest) BY <1>1 DEF Oldest, TooOld
<1> QED BY <1>2, <1>3

LEMMA LogInvNext == LogInv /\ [LogNext]_logVars => LogInv'
<1> SUFFICES ASSUME LogInv, [LogNext]_logVars PROVE LogInv' OBVIOUS
<1> USE DEF LogInv, LogTypeOK, PageBehindRing, MissedLinesAreTold
<1>1. CASE AppendLogBytes BY <1>1 DEF AppendLogBytes
<1>2. CASE CaptureEnds BY <1>2 DEF CaptureEnds
<1>3. CASE Release BY <1>3 DEF Release
<1>4. CASE ReleaseRearms BY <1>4 DEF ReleaseRearms
<1>5. CASE KeepActiveLooks BY <1>5 DEF KeepActiveLooks, PollUnchanged
<1>6. CASE KeepActiveInstalls BY <1>6 DEF KeepActiveInstalls
<1>7. CASE KeepActiveStops BY <1>7 DEF KeepActiveStops, PollUnchanged
<1>8. CASE KeepActiveStarts BY <1>8 DEF KeepActiveStarts, PollUnchanged
<1>9. CASE CopySince
  <2>1. CASE ring = 0
    <3>1. since' = 0 /\ sinceRing' = 0 /\ answer' = NoAnswer /\ UNCHANGED <<ring, rings, logSeq>>
      BY <1>9, <2>1 DEF CopySince, PollUnchanged
    <3> QED BY <2>1, <3>1 DEF NoAnswer
  <2>2. CASE ring # 0
    <3>1. /\ since' = logSeq /\ sinceRing' = ring
          /\ UNCHANGED <<ring, rings, logSeq>>
          /\ answer' = [missed |-> Seen < StartOf(since) \/ StartOf(since) < Oldest,
                        truncated |-> since # 0 /\ TooOld(since),
                        known |-> since # 0 /\ ring = sinceRing]
      BY <1>9, <2>2 DEF CopySince, PollUnchanged
    <3>2. /\ (Seen < StartOf(since) \/ StartOf(since) < Oldest) \in BOOLEAN
          /\ (since # 0 /\ TooOld(since)) \in BOOLEAN
          /\ (since # 0 /\ ring = sinceRing) \in BOOLEAN
      BY DEF TooOld
    <3>3. LogTypeOK' BY <3>1, <3>2
    <3>4. ASSUME since # 0, ring = sinceRing, ~TooOld(since)
          PROVE  ~(Seen < StartOf(since) \/ StartOf(since) < Oldest)
      <4>1. Seen = since BY <3>4 DEF Seen
      <4>2. StartOf(since) = since /\ ~(StartOf(since) < Oldest) BY <2>2, <3>4, CopyTells
      <4> QED BY <4>1, <4>2
    <3>5. MissedLinesAreTold' BY <3>1, <3>4
    <3> QED BY <3>1, <3>3, <3>5
  <2> QED BY <2>1, <2>2
<1>10. CASE CopyFails BY <1>10 DEF CopyFails, PollUnchanged, NoAnswer
<1>11. CASE UNCHANGED logVars BY <1>11 DEF logVars
<1> QED BY <1>1, <1>2, <1>3, <1>4, <1>5, <1>6, <1>7, <1>8, <1>9, <1>10, <1>11 DEF LogNext

\* However the lines, the requests, the timer and the release of the ring follow
\* on each other, a page that goes on from a position of the ring it is answered
\* from is told when lines are missing in between.
THEOREM PageIsToldOfGaps == LogSpec => []MissedLinesAreTold
<1>1. LogInit => LogInv
  BY DEF LogInit, LogInv, LogTypeOK, PageBehindRing, MissedLinesAreTold, NoAnswer
<1>2. LogInv => MissedLinesAreTold BY DEF LogInv
<1> QED BY <1>1, <1>2, LogInvNext, PTL DEF LogSpec

-----------------------------------------------------------------------------
(* Swarm.  What a scan has stored is marked as seen or was added by hand.  *)

SwarmSpec == SwarmInit /\ [][SwarmNext]_swarmVars

Entries == [manual : BOOLEAN, seen : BOOLEAN]

SwarmInv ==
    /\ \A ip \in DOMAIN devices : devices[ip] \in Entries
    /\ \A device \in added : /\ device \in [ip : Peers, manual : BOOLEAN, seen : BOOLEAN]
                             /\ device.manual
    /\ \A ip \in found : IsListed(ip) /\ (devices[ip].manual \/ devices[ip].seen)
    /\ \A ip \in byHand : IsListed(ip) /\ devices[ip].manual

\* An entry goes to its address, keeps that it was added by hand, and displaces none.
LEMMA StoreKeeps ==
    ASSUME SwarmInv, NEW a, NEW manual \in BOOLEAN, NEW seen \in BOOLEAN,
           Store(Device(a, manual, seen))
    PROVE  /\ DOMAIN devices \subseteq DOMAIN devices'
           /\ \A ip \in DOMAIN devices' : devices'[ip] \in Entries
           /\ \A ip \in DOMAIN devices : /\ ip # a => devices'[ip] = devices[ip]
                                         /\ devices[ip].manual => devices'[ip].manual
           /\ a \in DOMAIN devices' => /\ devices'[a].seen = seen
                                       /\ manual => devices'[a].manual
<1> DEFINE device == Device(a, manual, seen)
<1>1. device.ip = a /\ device.manual = manual /\ device.seen = seen BY DEF Device
<1>2. CASE IsListed(a) \/ HasRoom
  <2>1. devices' = [ip \in DOMAIN devices \cup {a} |->
                       IF ip = a THEN Stored(device, ip) ELSE devices[ip]]
    BY <1>1, <1>2 DEF Store
  <2>2. Stored(device, a) = [manual |-> manual \/ (IsListed(a) /\ devices[a].manual),
                             seen |-> seen]
    BY <1>1 DEF Stored
  <2>3. Stored(device, a) \in Entries
    <3>1. (manual \/ (IsListed(a) /\ devices[a].manual)) \in BOOLEAN OBVIOUS
    <3> QED BY <2>2, <3>1 DEF Entries
  <2>4. /\ Stored(device, a).seen = seen
        /\ Stored(device, a).manual = (manual \/ (IsListed(a) /\ devices[a].manual))
    BY <2>2
  <2> HIDE DEF device
  <2>5. DOMAIN devices' = DOMAIN devices \cup {a} /\ devices'[a] = Stored(device, a)
        /\ \A ip \in DOMAIN devices : ip # a => devices'[ip] = devices[ip]
    BY <2>1
  <2>6. \A ip \in DOMAIN devices : devices[ip].manual => devices'[ip].manual
    BY <2>4, <2>5 DEF IsListed
  <2>7. manual => devices'[a].manual BY <2>4, <2>5
  <2>8. \A ip \in DOMAIN devices' : devices'[ip] \in Entries
    BY <2>3, <2>5 DEF SwarmInv
  <2> QED BY <2>4, <2>5, <2>6, <2>7, <2>8
<1>3. CASE ~(IsListed(a) \/ HasRoom)
  <2>1. devices' = devices BY <1>1, <1>3 DEF Store
  <2> QED BY <1>3, <2>1 DEF IsListed, SwarmInv
<1> QED BY <1>2, <1>3

LEMMA SwarmInvInit == SwarmInit => SwarmInv
BY DEF SwarmInit, SwarmInv

LEMMA AskKeeps ==
    ASSUME SwarmInv, NEW a, NEW manual \in BOOLEAN, AskPeer(a, manual)
    PROVE  SwarmInv'
<1>1. added' = added /\ byHand' = byHand BY DEF AskPeer, OthersStay
<1>2. CASE a \in answering
  <2>1. Store(Device(a, manual, TRUE)) /\ found' = found \cup ({a} \cap DOMAIN devices')
    BY <1>2 DEF AskPeer
  <2>2. /\ DOMAIN devices \subseteq DOMAIN devices'
        /\ \A ip \in DOMAIN devices' : devices'[ip] \in Entries
        /\ \A ip \in DOMAIN devices : /\ ip # a => devices'[ip] = devices[ip]
                                      /\ devices[ip].manual => devices'[ip].manual
        /\ a \in DOMAIN devices' => devices'[a].seen
    BY <2>1, StoreKeeps
  <2>3. \A ip \in found' : ip \in DOMAIN devices' /\ (devices'[ip].manual \/ devices'[ip].seen)
    BY <2>1, <2>2 DEF SwarmInv, IsListed
  <2>4. \A ip \in byHand : ip \in DOMAIN devices' /\ devices'[ip].manual
    BY <2>2 DEF SwarmInv, IsListed
  <2> QED BY <1>1, <2>2, <2>3, <2>4 DEF SwarmInv, IsListed
<1>3. CASE a \notin answering
  <2>1. UNCHANGED <<devices, found>> BY <1>3 DEF AskPeer
  <2> QED BY <1>1, <2>1 DEF SwarmInv, IsListed
<1> QED BY <1>2, <1>3

LEMMA AddKeeps ==
    ASSUME SwarmInv, NEW device \in added, AddressStored(device)
    PROVE  SwarmInv'
<1> DEFINE a == device.ip
<1>1. /\ Store(device) /\ added' = added \ {device} /\ found' = found
      /\ byHand' = byHand \cup ({a} \cap DOMAIN devices')
  BY DEF AddressStored
<1>2. /\ device \in [ip : Peers, manual : BOOLEAN, seen : BOOLEAN] /\ device.manual
      /\ device = Device(a, device.manual, device.seen)
  BY DEF SwarmInv, Device
<1>3. /\ DOMAIN devices \subseteq DOMAIN devices'
      /\ \A ip \in DOMAIN devices' : devices'[ip] \in Entries
      /\ \A ip \in DOMAIN devices : /\ ip # a => devices'[ip] = devices[ip]
                                    /\ devices[ip].manual => devices'[ip].manual
      /\ a \in DOMAIN devices' => devices'[a].manual
  <2>1. Store(Device(a, device.manual, device.seen)) BY <1>1, <1>2
  <2>2. device.manual \in BOOLEAN /\ device.seen \in BOOLEAN BY <1>2
  <2> HIDE DEF a
  <2> QED BY <1>2, <2>1, <2>2, StoreKeeps
<1> HIDE DEF a
<1>4. \A ip \in found : ip \in DOMAIN devices' /\ (devices'[ip].manual \/ devices'[ip].seen)
  BY <1>3 DEF SwarmInv, IsListed
<1>5. \A ip \in byHand' : ip \in DOMAIN devices' /\ devices'[ip].manual
  BY <1>1, <1>3 DEF SwarmInv, IsListed
<1> QED BY <1>1, <1>3, <1>4, <1>5 DEF SwarmInv, IsListed

\* A scan begins with nobody seen, and nobody found.
LEMMA BeginKeeps == SwarmInv /\ BeginScan => SwarmInv'
<1> SUFFICES ASSUME SwarmInv, BeginScan PROVE SwarmInv' OBVIOUS
<1>1. /\ devices' = [ip \in DOMAIN devices |-> [devices[ip] EXCEPT !.seen = FALSE]]
      /\ added' = {[device EXCEPT !.seen = FALSE] : device \in added}
      /\ found' = {} /\ byHand' = byHand
  BY DEF BeginScan
<1>2. \A ip \in DOMAIN devices : /\ devices'[ip] \in Entries
                                 /\ devices'[ip].manual = devices[ip].manual
  BY <1>1 DEF SwarmInv, Entries
<1>3. DOMAIN devices' = DOMAIN devices BY <1>1
<1>4. ASSUME NEW device \in added'
      PROVE  device \in [ip : Peers, manual : BOOLEAN, seen : BOOLEAN] /\ device.manual
  <2>1. PICK d \in added : device = [d EXCEPT !.seen = FALSE] BY <1>1
  <2>2. d \in [ip : Peers, manual : BOOLEAN, seen : BOOLEAN] /\ d.manual BY DEF SwarmInv
  <2> QED BY <2>1, <2>2
<1> QED BY <1>1, <1>2, <1>3, <1>4 DEF SwarmInv, IsListed

\* What is dropped was neither seen nor added by hand.
LEMMA PruneKeeps == SwarmInv /\ Prune => SwarmInv'
<1> SUFFICES ASSUME SwarmInv, Prune PROVE SwarmInv' OBVIOUS
<1> DEFINE K == {ip \in DOMAIN devices : devices[ip].manual \/ devices[ip].seen}
<1>1. devices' = [ip \in K |-> devices[ip]] /\ UNCHANGED <<added, found, byHand>>
  BY DEF Prune, Kept, Restrict, OthersStay
<1>2. \A ip \in found \cup byHand : ip \in K BY DEF SwarmInv, IsListed
<1>3. \A ip \in K : ip \in DOMAIN devices OBVIOUS
<1> HIDE DEF K
<1>4. DOMAIN devices' = K /\ \A ip \in K : devices'[ip] = devices[ip] BY <1>1
<1> QED BY <1>1, <1>2, <1>3, <1>4 DEF SwarmInv, IsListed

LEMMA SwarmInvNext == SwarmInv /\ [SwarmNext]_swarmVars => SwarmInv'
<1> SUFFICES ASSUME SwarmInv, [SwarmNext]_swarmVars PROVE SwarmInv' OBVIOUS
<1>1. CASE UNCHANGED <<devices, added, found, byHand>>
  BY <1>1 DEF SwarmInv, IsListed
<1>2. CASE StartScan \/ ScanNotCreated
  BY <1>1, <1>2 DEF StartScan, ScanNotCreated, OthersStay
<1>3. CASE ScanStep
  <2>1. CASE BeginScan BY <2>1, BeginKeeps
  <2>2. CASE AskHost
    <3>1. PICK ip \in scanLeft : AskPeer(ip, FALSE) BY <2>2 DEF AskHost
    <3> QED BY <3>1, AskKeeps
  <2>3. CASE AskManual
    <3>1. PICK ip \in scanLeft : AskPeer(ip, TRUE) BY <2>3 DEF AskManual
    <3> QED BY <3>1, AskKeeps
  <2>4. CASE HostsAsked \/ ScanDone BY <1>1, <2>4 DEF HostsAsked, ScanDone, OthersStay
  <2>5. CASE Prune BY <2>5, PruneKeeps
  <2> QED BY <1>3, <2>1, <2>2, <2>3, <2>4, <2>5 DEF ScanStep
<1>4. ASSUME NEW a \in Peers, AddressAnswers(a) PROVE SwarmInv'
  <2>1. added' = added \cup {Device(a, TRUE, TRUE)} /\ UNCHANGED <<devices, found, byHand>>
    BY <1>4 DEF AddressAnswers
  <2>2. /\ Device(a, TRUE, TRUE) \in [ip : Peers, manual : BOOLEAN, seen : BOOLEAN]
        /\ Device(a, TRUE, TRUE).manual
    BY DEF Device
  <2> QED BY <2>1, <2>2 DEF SwarmInv, IsListed
<1>5. CASE \E ip \in Peers : PeerComesOrGoes(ip) BY <1>1, <1>5 DEF PeerComesOrGoes
<1>6. CASE \E device \in added : AddressStored(device) BY <1>6, AddKeeps
<1>7. CASE UNCHANGED swarmVars BY <1>1, <1>7 DEF swarmVars
<1> QED BY <1>2, <1>3, <1>4, <1>5, <1>6, <1>7 DEF SwarmNext

\* What a scan has stored is listed until the next one begins, and what was added by
\* hand for ever, however scan and add tasks store over each other's entries
\* (store_device, scan_task).
THEOREM PeersStayListed == SwarmSpec => []StoredPeersStay
<1>1. SwarmInv => StoredPeersStay BY DEF SwarmInv, StoredPeersStay, IsListed
<1> QED BY <1>1, SwarmInvInit, SwarmInvNext, PTL DEF SwarmSpec
=============================================================================
