----------------------------- MODULE MCAsicPower -----------------------------
(* Small instances of AsicPower for TLC. *)
EXTENDS AsicPower

CONSTANTS u1, hw, mon

OneUser == {u1}
OnOff == {"on", "off"}
OnOffTune == {"on", "off", "tune"}
OnlyTune == {"tune"}
=============================================================================
