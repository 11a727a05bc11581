----------------------------- MODULE MCDaemonIPC -----------------------------
(* Model values for DaemonIPC. Clients are interchangeable.                *)
EXTENDS DaemonIPC, TLC

ClientSymmetry == Permutations(Clients)
StdoutOnly == {"stdout"}
=============================================================================
