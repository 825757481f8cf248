--------------------------- MODULE MCPauseIntent ---------------------------
(* Model values and bounds for checking PauseIntent with TLC. *)
EXTENDS PauseIntent

CONSTANTS c1, c2, x1, x2, m1, m2

OneControl == {c1}
TwoControls == {c1, c2}
OneExtranonce == {x1}
TwoExtranonces == {x1, x2}
OneMask == {m1}
TwoMasks == {m1, m2}
SingleMode == {FALSE}
MultiMode == {TRUE}
BothModes == BOOLEAN

=============================================================================
