------------------------ MODULE MCConnectorLifecycle ------------------------
(* Model values for ConnectorLifecycle. PIDs are interchangeable.          *)
EXTENDS ConnectorLifecycle, TLC

PidSymmetry == Permutations(Daemons)
PidAndSessionSymmetry == Permutations(Daemons) \cup Permutations(Sessions)
=============================================================================
