---------------------------- MODULE MCShareLedger ----------------------------
(* Small instances of ShareLedger for TLC. *)
EXTENDS ShareLedger

OnePool == {0}
TwoPools == {0, 1}
=============================================================================
