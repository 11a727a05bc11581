--------------------------- MODULE MCConnectorLogs ---------------------------
(* Model values for ConnectorLogs. PIDs are interchangeable.               *)
EXTENDS ConnectorLogs, TLC

PidSymmetry == Permutations(Daemons)
=============================================================================
