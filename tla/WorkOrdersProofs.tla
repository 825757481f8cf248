-------------------------- MODULE WorkOrdersProofs ---------------------------
(***************************************************************************)
(* What WorkOrders promises to whoever relies on it.                       *)
(***************************************************************************)
EXTENDS WorkOrders, TLAPS

Typed == /\ era \in [Pools -> Eras]
         /\ chip \in [Slots -> Order \cup {None}]

\* Orders on the chip are of the present era and a quiet chip is an empty chip
\* that someone asked for: the promise the pipeline's steps implement
\* (generate_and_send_work, reset_work_state, stratum_minimal_pause_work).
THEOREM OrdersAlwaysStand ==
  ASSUME None \notin Order
  PROVE  OSpec => []OrdersStand
<1> DEFINE Inv == Typed /\ OrdersStand
<1>1. OInit => Inv
  BY DEF OInit, Typed, OrdersStand, Empty
<1>2. Inv /\ [ONext]_ovars => Inv'
  <2> SUFFICES ASSUME Typed, OrdersStand, [ONext]_ovars PROVE Typed' /\ OrdersStand'
    OBVIOUS
  <2> USE DEF Typed, OrdersStand
  <2>1. ASSUME NEW P \in SUBSET Pools, Supersede(P) PROVE Typed' /\ OrdersStand'
    <3>1. \A s \in Slots : chip'[s] # None =>
             /\ chip[s] \in Order /\ chip'[s] = chip[s] /\ chip[s].pool \notin P
      BY <2>1 DEF Supersede
    <3>2. \A s \in Slots : chip'[s] # None => era'[chip[s].pool] = era[chip[s].pool]
      BY <2>1, <3>1 DEF Supersede, Order
    <3>3. Typed' BY <2>1 DEF Supersede
    <3>4. quiet' => asked' /\ chip' = Empty BY <2>1 DEF Supersede, Empty
    <3> QED BY <3>1, <3>2, <3>3, <3>4
  <2>2. ASSUME NEW s \in Slots, NEW p \in Pools, Dispatch(s, p) PROVE Typed' /\ OrdersStand'
    <3>1. [pool |-> p, era |-> era[p]] \in Order BY DEF Order
    <3>2. Typed' BY <2>2, <3>1 DEF Dispatch
    <3>3. \A r \in Slots : chip'[r] # None => chip'[r].era = era'[chip'[r].pool]
      BY <2>2 DEF Dispatch
    <3> QED BY <2>2, <3>2, <3>3 DEF Dispatch
  <2>3. CASE Recall BY <2>3 DEF Recall, Empty
  <2>4. CASE AskPause BY <2>4 DEF AskPause
  <2>5. CASE Quieten BY <2>5 DEF Quieten, Empty
  <2>6. CASE Resume BY <2>6 DEF Resume
  <2>7. CASE UNCHANGED ovars BY <2>7 DEF ovars
  <2> QED BY <2>1, <2>2, <2>3, <2>4, <2>5, <2>6, <2>7 DEF ONext
<1>3. Inv => OrdersStand OBVIOUS
<1> QED BY <1>1, <1>2, <1>3, PTL DEF OSpec

=============================================================================
