------------------------- MODULE ConnectorLogs_proofs -------------------------
(***************************************************************************)
(* The log of a connector one session starts and stops, for any number of  *)
(* daemons. Every step of the composition is a step of the lifecycle or    *)
(* leaves it alone, so that IInv and OneSessionInv hold of it; LogInv      *)
(* rests on what they say of a session past its running check: that no     *)
(* daemon is left which has not been sent a stop.                         *)
(***************************************************************************)
EXTENDS ConnectorLogs, OneSession_proofs

LEMMA LogStepIsStep == LogNext => [Next]_vars
  BY DEF LogNext, StatLog, RemovePrevLog, RenameLog, OpenLog, WriteLog, LifecycleStep, Proceed

\* Log files only watch: for any sessions and daemons, a behaviour with logs is
\* one of ConnectorLifecycle. No start waits for a rotation or is diverted by one.
THEOREM LogsOnlyWatch == LogSpec => Spec
<1>1. LogInit => Init
  BY DEF LogInit
<1>2. [LogNext]_allVars => [Next]_vars
  BY LogStepIsStep DEF allVars
<1> QED
  BY <1>1, <1>2, PTL DEF LogSpec, Spec

LEMMA LifecycleHolds == ASSUME Alone PROVE LogSpec => [](IInv /\ OneSessionInv)
  BY LogsOnlyWatch, AloneInvariant, PTL

LEMMA LogInitInv == LogInit => LogInv
  BY DEF LogInit, Init, LogInv, LogTypeOK, RunningDaemonIsLogged, FullLogIsKept, Sizes, Places,
    Alive, AliveStates, Booting, Listening

\* The steps of a rotation.
LEMMA RotationInv ==
  ASSUME Alone, IInv, OneSessionInv, LogInv, NEW c \in Sessions,
         StatLog(c) \/ RemovePrevLog(c) \/ RenameLog(c) \/ OpenLog(c)
  PROVE  LogInv'
<1>1. Sessions = {c} /\ pc \in [Sessions -> PcStates] /\ UNCHANGED vars
  BY DEF Alone, IInv, TypeOK, StatLog, RemovePrevLog, RenameLog, OpenLog, Proceed
<1>2. pc[c] = "spawn" /\ \A d \in Daemons : ~(Alive(d) /\ d \notin Told)
  BY DEF OneSessionInv, NoneLeft, Fresh, StatLog, RemovePrevLog, RenameLog, OpenLog, At
<1>3. RunningDaemonIsLogged'
  BY <1>1, <1>2 DEF RunningDaemonIsLogged, vars, daemonVars, requests, Told, Alive
<1> USE DEF LogInv, LogTypeOK, FullLogIsKept, Sizes, Places, At, Proceed, Unlinked, Renamed, vars, sessionVars
<1>4. CASE StatLog(c)
  BY <1>1, <1>2, <1>3, <1>4 DEF StatLog
<1>5. CASE RemovePrevLog(c)
  BY <1>1, <1>2, <1>3, <1>5 DEF RemovePrevLog
<1>6. CASE RenameLog(c)
  <2>1. mainLog = "big" /\ prevLog' = "big" /\ mainLog' = "absent"
    BY <1>6 DEF RenameLog
  <2>2. LogTypeOK' /\ FullLogIsKept'
    BY <1>6, <2>1 DEF RenameLog
  <2>3. logFile'[c] = "none"
    BY <1>1, <1>6 DEF RenameLog
  <2> QED
    BY <1>1, <1>2, <1>3, <1>6, <2>1, <2>2 DEF RenameLog
<1>7. CASE OpenLog(c)
  BY <1>1, <1>2, <1>3, <1>7 DEF OpenLog
<1> QED
  BY <1>4, <1>5, <1>6, <1>7

LEMMA WriteInv ==
  ASSUME LogInv, NEW d \in Daemons, WriteLog(d) PROVE LogInv'
  BY DEF WriteLog, LogInv, LogTypeOK, RunningDaemonIsLogged, FullLogIsKept, Sizes, Places, vars,
    daemonVars, requests, Told, sessionVars, Alive

\* Only Spawn makes a daemon that has not been sent a stop.
NoneStarts == \A d \in Daemons : Fresh(d)' => Fresh(d)

LEMMA SessionStarts ==
  ASSUME IInv, NEW c \in Sessions, Session(c), ~Spawn(c) PROVE NoneStarts
<1> USE DEF IInv, TypeOK, OperandsKnown, NoneStarts, Fresh, Told, daemonVars, requests, Goto, Alive, AliveStates, Booting, Listening,
  Answering, ProcStates
<1>1. StartCheck(c) => NoneStarts
  BY DEF StartCheck, InStart
<1>2. SpawnFails(c) => NoneStarts
  BY DEF SpawnFails, InStart
<1>3. Record(c) => NoneStarts
  BY DEF Record, InStart
<1>4. RecordFails(c) => NoneStarts
  BY DEF RecordFails, InStart
<1>5. Ready(c) => NoneStarts
  BY DEF Ready, Return, Reaped, InStart
<1>6. NotReady(c) => NoneStarts
  BY DEF NotReady, InStart
<1>7. KillRecorded(c) => NoneStarts
  BY DeadIsDead DEF KillRecorded, Kill, InStart
<1>8. Unrecord(c) => NoneStarts
  BY DEF Unrecord, InStart
<1>9. UnlinkSocket(c) => NoneStarts
  BY DEF UnlinkSocket, Return, Reaped, InStart
<1>10. StopDial(c) => NoneStarts
  BY DEF StopDial, InStart
<1>11. ReadClosed(c) => NoneStarts
  BY DEF ReadClosed, InStart
<1>12. ReadByte(c) => NoneStarts
  BY DEF ReadByte, InStart
<1>13. ReadDeadline(c) => NoneStarts
  BY DEF ReadDeadline, InStart
<1>14. StopNoSocket(c) => NoneStarts
  BY DEF StopNoSocket, InStart
<1>15. StopStatus(c) => NoneStarts
  BY DEF StopStatus, InStart
<1>16. StopTerm(c) => NoneStarts
  BY DeadIsDead DEF StopTerm, Terminate, Kill, InStart
<1>17. StopReap(c) => NoneStarts
  BY DEF StopReap, IsChild, InStart
<1>18. StopKill(c) => NoneStarts
  BY DeadIsDead DEF StopKill, Kill, InStart
<1> HIDE DEF IInv, NoneStarts
<1> QED
  BY <1>1, <1>2, <1>3, <1>4, <1>5, <1>6, <1>7, <1>8, <1>9, <1>10, <1>11, <1>12, <1>13, <1>14, <1>15, <1>16, <1>17, <1>18
  DEF Session, CommandSteps, StartSteps, StopSteps

LEMMA DaemonStarts ==
  ASSUME IInv, NEW d \in Daemons, DaemonSteps(d) PROVE NoneStarts
<1> USE DEF IInv, TypeOK, OperandsKnown, NoneStarts, Fresh, Told, daemonVars, requests, Goto, Alive, AliveStates, Booting, Listening,
  Answering, ProcStates
<1>1. BootFails(d) => NoneStarts
  BY DeadIsDead DEF BootFails, Unowned, InStart
<1>2. StartShim(d) => NoneStarts
  BY DEF StartShim, Unowned, InStart
<1>3. RemoveStale(d) => NoneStarts
  BY DEF RemoveStale, Unowned, InStart
<1>4. Listen(d) => NoneStarts
  BY DEF Listen, Unowned, InStart
<1>5. ListenFails(d) => NoneStarts
  BY DeadIsDead DEF ListenFails, Unowned, InStart
<1>6. Serve(d) => NoneStarts
  BY DEF Serve, Unowned, InStart
<1>7. Shutdown(d) => NoneStarts
  BY DEF Shutdown, Unowned, InStart
<1>8. ShimDone(d) => NoneStarts
  BY DEF ShimDone, Unowned, InStart
<1>9. ForceKillShim(d) => NoneStarts
  BY DEF ForceKillShim, Unowned, InStart
<1>10. Exit(d) => NoneStarts
  BY DeadIsDead DEF Exit, Unowned, InStart
<1> HIDE DEF IInv, NoneStarts
<1> QED
  BY <1>1, <1>2, <1>3, <1>4, <1>5, <1>6, <1>7, <1>8, <1>9, <1>10
  DEF DaemonSteps

LEMMA RequestStarts ==
  ASSUME NEW d \in Daemons, ReadRequest(d) PROVE NoneStarts
BY DEF NoneStarts, Fresh, Told, Alive, ReadRequest

LEMMA EnvironmentStarts ==
  ASSUME Alone, IInv, Environment PROVE NoneStarts
<1> USE DEF IInv, TypeOK, NoneStarts, Fresh, Told, daemonVars, requests, Alive, AliveStates, Booting, Listening
<1>1. ~ConnectForeground /\ \A d \in Daemons : ~InterruptForeground(d)
  BY DEF Alone, ConnectForeground, InterruptForeground
<1>2. \A d \in Daemons : DaemonKilled(d) => NoneStarts
  BY DeadIsDead DEF DaemonKilled, Kill
<1>3. \A d \in Daemons : RecyclePid(d) => NoneStarts
  BY DEF RecyclePid
<1>4. \A d \in Daemons : ShimExits(d) => NoneStarts
  BY DEF ShimExits, Unowned
<1>5. \A c \in Sessions : InterruptCommand(c) => NoneStarts
  BY DEF InterruptCommand, Return, Reaped
<1>6. \A d \in Daemons : LoseRequest(d) => NoneStarts
  BY DEF LoseRequest
<1> HIDE DEF IInv, NoneStarts
<1> QED
  BY <1>1, <1>2, <1>3, <1>4, <1>5, <1>6 DEF Environment

\* A daemon starts with the file its session opened last.
LEMMA StartsLogged ==
  ASSUME Alone, IInv, LogInv, LifecycleStep PROVE RunningDaemonIsLogged'
<1>1. CASE \E c \in Sessions : Spawn(c)
  <2>1. PICK c \in Sessions : Spawn(c)
    BY <1>1
  <2>2. PICK d \in Daemons : /\ proc[d] = "free" /\ proc' = [proc EXCEPT ![d] = "boot"]
                             /\ parent' = [parent EXCEPT ![d] = c]
    BY <2>1 DEF Spawn
  <2>3. pc[c] = "spawn" /\ pc'[c] = "record" /\ Told' = Told
    BY <2>1 DEF Spawn, Goto, IInv, TypeOK, requests, Told
  <2>4. logFile[c] = "main"
    BY <2>3 DEF LifecycleStep, LogInv
  <2>5. output'[d] = "main"
    BY <2>2, <2>4 DEF LifecycleStep, IInv, TypeOK
  <2>6. \A e \in Daemons \ {d} : Alive(e)' /\ e \notin Told' => output'[e] = "main"
    BY <2>2, <2>3 DEF LifecycleStep, LogInv, LogTypeOK, RunningDaemonIsLogged, IInv, TypeOK,
      Alive, AliveStates, Booting, Listening
  <2> QED
    BY <2>5, <2>6 DEF RunningDaemonIsLogged
<1>2. CASE ~\E c \in Sessions : Spawn(c)
  <2>1. NoneStarts
    BY <1>2, SessionStarts, DaemonStarts, RequestStarts, EnvironmentStarts DEF LifecycleStep, Next
  <2> QED
    BY <2>1 DEF NoneStarts, Fresh, Told, LifecycleStep, LogInv, RunningDaemonIsLogged, Alive,
      AliveStates, Booting, Listening
<1> QED
  BY <1>1, <1>2

LEMMA LifecycleInv ==
  ASSUME Alone, IInv, LogInv, LifecycleStep PROVE LogInv'
<1>1. RunningDaemonIsLogged'
  BY StartsLogged
<1> USE DEF LifecycleStep, LogInv, LogTypeOK, Sizes, Places
<1>2. LogTypeOK'
  OBVIOUS
<1>3. FullLogIsKept'
  BY DEF FullLogIsKept
<1> QED
  BY <1>1, <1>2, <1>3

LEMMA LogStepInv ==
  ASSUME Alone PROVE IInv /\ OneSessionInv /\ LogInv /\ [LogNext]_allVars => LogInv'
<1>1. LogInv /\ UNCHANGED allVars => LogInv'
  BY DEF allVars, vars, logVars, sessionVars, daemonVars, requests, LogInv, LogTypeOK, RunningDaemonIsLogged,
    FullLogIsKept, Alive, Told
<1> QED
  BY <1>1, RotationInv, WriteInv, LifecycleInv DEF LogNext

LEMMA LogInvariant == ASSUME Alone PROVE LogSpec => []LogInv
  BY LifecycleHolds, LogInitInv, LogStepInv, PTL DEF LogSpec

\* No start, successful or not, moves the file a daemon that has not been sent
\* a stop writes to: `c2c logs` shows the log of the daemon that runs.
THEOREM RunningLogIsNamed == ASSUME Alone PROVE LogSpec => []RunningDaemonIsLogged
<1>1. LogInv => RunningDaemonIsLogged
  BY DEF LogInv
<1> QED
  BY <1>1, LogInvariant, PTL

\* A rotation discards the older log only when a full one takes its place.
THEOREM RotationKeepsAFullLog == ASSUME Alone PROVE LogSpec => []FullLogIsKept
<1>1. LogInv => FullLogIsKept
  BY DEF LogInv
<1> QED
  BY <1>1, LogInvariant, PTL

=============================================================================
