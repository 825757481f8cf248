-------------------------- MODULE MCMonitorDeadlines --------------------------
(* A small instance of MonitorDeadlines alone. *)
EXTENDS MonitorDeadlines

Spec == DeadlinesInit /\ [][DeadlinesNext]_deadlineVars
=============================================================================
