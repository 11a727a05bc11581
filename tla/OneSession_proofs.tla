-------------------------- MODULE OneSession_proofs --------------------------
(***************************************************************************)
(* What a single session that waits for each of its commands can rely on,  *)
(* proved for any number of daemons. OneSessionInv is the strengthening:   *)
(* that the recorded daemon is the only one not sent a stop is preserved    *)
(* only together with where the session's own command stands.              *)
(***************************************************************************)
EXTENDS ConnectorLifecycle_proofs

\* One session, no connector in a terminal, and no command interrupted by
\* hand; daemons may still be killed and PIDs recycled.
Alone ==
  /\ \E c : Sessions = {c}
  /\ ~Foreground
  /\ MaxFaults = 0 \/ Sessions \subseteq LongLived

LEMMA AloneInit == Init => OneSessionInv
  BY ConstantsAssumption
  DEF Init, OneSessionInv, Fresh, Told, NoneLeft, Dialable, Alive, AliveStates, Booting, Listening

LEMMA AloneSession ==
  ASSUME Alone, IInv, OneSessionInv, NEW c \in Sessions, Session(c) PROVE OneSessionInv'
<1>0. TypeOK /\ ToldHaveListened /\ OperandsKnown /\ StaleSocketOnlyOfKilled /\ Sessions = {c}
  BY DEF Alone, IInv, FilesNameDaemons
<1> USE DEF TypeOK, ToldHaveListened, OperandsKnown, StaleSocketOnlyOfKilled
<1> USE DEF OneSessionInv, Fresh, Told, NoneLeft, Dialable, files, daemonVars, requests, sessionVars, Goto, PcStates, Outcomes,
  InStart, InStop, ProcStates, AliveStates, Booting, Listening, Answering, Alive
<1>1. ASSUME StartCheck(c) PROVE OneSessionInv'
  BY <1>1, <1>0, ConstantsAssumption DEF StartCheck, RecordedRunning, Running, Resting
<1>2. ASSUME Spawn(c) PROVE OneSessionInv'
  BY <1>2, <1>0, ConstantsAssumption DEF Spawn
<1>3. ASSUME SpawnFails(c) PROVE OneSessionInv'
  BY <1>3, <1>0, ConstantsAssumption DEF SpawnFails
<1>4. ASSUME Record(c) PROVE OneSessionInv'
  BY <1>4, <1>0, ConstantsAssumption DEF Record
<1>5. ASSUME RecordFails(c) PROVE OneSessionInv'
  BY <1>5, <1>0, ConstantsAssumption DEF RecordFails
<1>6. ASSUME Ready(c) PROVE OneSessionInv'
  BY <1>6, <1>0, ConstantsAssumption DEF Ready, Return, Reaped
<1>7. ASSUME NotReady(c) PROVE OneSessionInv'
  BY <1>7, <1>0, ConstantsAssumption DEF NotReady
<1>8. ASSUME KillRecorded(c) PROVE OneSessionInv'
  BY <1>8, <1>0, ConstantsAssumption, DeadIsDead DEF KillRecorded, Kill
<1>9. ASSUME Unrecord(c) PROVE OneSessionInv'
  BY <1>9, <1>0, ConstantsAssumption DEF Unrecord
<1>10. ASSUME UnlinkSocket(c) PROVE OneSessionInv'
  BY <1>10, <1>0, ConstantsAssumption DEF UnlinkSocket, Return, Reaped
<1>11. ASSUME StopDial(c) PROVE OneSessionInv'
  BY <1>11, <1>0, ConstantsAssumption DEF StopDial, Resting
<1>12. ASSUME ReadClosed(c) PROVE OneSessionInv'
  BY <1>12, <1>0, ConstantsAssumption DEF ReadClosed
<1>13. ASSUME ReadByte(c) PROVE OneSessionInv'
  BY <1>13, <1>0, ConstantsAssumption DEF ReadByte
<1>14. ASSUME ReadDeadline(c) PROVE OneSessionInv'
  BY <1>14, <1>0, ConstantsAssumption DEF ReadDeadline
<1>15. ASSUME StopNoSocket(c) PROVE OneSessionInv'
  BY <1>15, <1>0, ConstantsAssumption DEF StopNoSocket, Resting
<1>16. ASSUME StopStatus(c) PROVE OneSessionInv'
  BY <1>16, <1>0, ConstantsAssumption DEF StopStatus, RecordedRunning, Running
<1>17. ASSUME StopTerm(c) PROVE OneSessionInv'
  BY <1>17, <1>0, ConstantsAssumption, DeadIsDead DEF StopTerm, Terminate, Kill, Running
<1>18. ASSUME StopReap(c) PROVE OneSessionInv'
  BY <1>18, <1>0, ConstantsAssumption DEF StopReap, IsChild
<1>19. ASSUME StopKill(c) PROVE OneSessionInv'
  BY <1>19, <1>0, ConstantsAssumption, DeadIsDead DEF StopKill, Kill, IsChild
<1> QED
  BY <1>1, <1>2, <1>3, <1>4, <1>5, <1>6, <1>7, <1>8, <1>9, <1>10, <1>11, <1>12, <1>13, <1>14, <1>15, <1>16, <1>17, <1>18, <1>19
  DEF Session, CommandSteps, StartSteps, StopSteps

LEMMA AloneDaemon ==
  ASSUME Alone, IInv, OneSessionInv, NEW d \in Daemons, DaemonSteps(d) PROVE OneSessionInv'
<1>0. TypeOK /\ ToldHaveListened /\ OperandsKnown /\ StaleSocketOnlyOfKilled
  BY DEF IInv, FilesNameDaemons
<1> USE DEF TypeOK, ToldHaveListened, OperandsKnown, StaleSocketOnlyOfKilled
<1> USE DEF OneSessionInv, Fresh, Told, NoneLeft, Dialable, files, daemonVars, requests, sessionVars, Goto, PcStates, Outcomes,
  InStart, InStop, ProcStates, AliveStates, Booting, Listening, Answering, Alive
<1>1. ASSUME BootFails(d) PROVE OneSessionInv'
  BY <1>1, <1>0, ConstantsAssumption, DeadIsDead DEF BootFails, Unowned
<1>2. ASSUME StartShim(d) PROVE OneSessionInv'
  BY <1>2, <1>0, ConstantsAssumption DEF StartShim, Unowned
<1>3. ASSUME RemoveStale(d) PROVE OneSessionInv'
  BY <1>3, <1>0, ConstantsAssumption DEF RemoveStale, Unowned
<1>4. ASSUME Listen(d) PROVE OneSessionInv'
  BY <1>4, <1>0, ConstantsAssumption DEF Listen, Unowned
<1>5. ASSUME ListenFails(d) PROVE OneSessionInv'
  BY <1>5, <1>0, ConstantsAssumption, DeadIsDead DEF ListenFails, KillRunner, Unowned
<1>6. ASSUME Serve(d) PROVE OneSessionInv'
  BY <1>6, <1>0, ConstantsAssumption DEF Serve, Unowned
<1>7. ASSUME Shutdown(d) PROVE OneSessionInv'
  BY <1>7, <1>0, ConstantsAssumption DEF Shutdown, Unowned
<1>8. ASSUME ShimDone(d) PROVE OneSessionInv'
  BY <1>8, <1>0, ConstantsAssumption DEF ShimDone, Unowned
<1>9. ASSUME ForceKillShim(d) PROVE OneSessionInv'
  BY <1>9, <1>0, ConstantsAssumption DEF ForceKillShim, KillRunner, Unowned
<1>10. ASSUME Exit(d) PROVE OneSessionInv'
  BY <1>10, <1>0, ConstantsAssumption, DeadIsDead DEF Exit, Unowned
<1> QED
  BY <1>1, <1>2, <1>3, <1>4, <1>5, <1>6, <1>7, <1>8, <1>9, <1>10
  DEF DaemonSteps

LEMMA AloneRequest ==
  ASSUME IInv, OneSessionInv, NEW d \in Daemons, ReadRequest(d) \/ LoseRequest(d)
  PROVE OneSessionInv'
<1>1. Told' = Told /\ UNCHANGED <<files, proc, pc, own, peer>>
  BY DEF ReadRequest, LoseRequest, Told, Unowned, sessionVars
<1> QED
  BY <1>1 DEF OneSessionInv, Fresh, Dialable, Alive, files

LEMMA AloneEnvironment ==
  ASSUME Alone, IInv, OneSessionInv, Environment PROVE OneSessionInv'
<1>0. TypeOK /\ ToldHaveListened /\ OperandsKnown /\ StaleSocketOnlyOfKilled
  BY DEF IInv, FilesNameDaemons
<1> USE DEF TypeOK, ToldHaveListened, OperandsKnown, StaleSocketOnlyOfKilled
<1> USE DEF OneSessionInv, Fresh, Told, NoneLeft, Dialable, files, daemonVars, requests, sessionVars, Goto, PcStates, Outcomes,
  InStart, InStop, ProcStates, AliveStates, Booting, Listening, Answering, Alive
<1>1. ~ConnectForeground
  BY DEF Alone, ConnectForeground
<1>2. \A d \in Daemons : ~InterruptForeground(d)
  BY DEF Alone, InterruptForeground
<1>3. ASSUME NEW d \in Daemons, DaemonKilled(d) PROVE OneSessionInv'
  BY <1>3, <1>0, ConstantsAssumption, DeadIsDead DEF DaemonKilled, Kill
<1>4. ASSUME NEW d \in Daemons, RecyclePid(d) PROVE OneSessionInv'
  BY <1>4, <1>0, ConstantsAssumption DEF RecyclePid
<1>5. ASSUME NEW d \in Daemons, ShimExits(d) PROVE OneSessionInv'
  BY <1>5, <1>0, ConstantsAssumption DEF ShimExits, Unowned
<1>6. \A c \in Sessions : ~InterruptCommand(c)
  BY <1>0, ConstantsAssumption DEF Alone, InterruptCommand
<1> QED
  BY <1>1, <1>2, <1>3, <1>4, <1>5, <1>6, AloneRequest DEF Environment

LEMMA AloneStep == ASSUME Alone PROVE IInv /\ OneSessionInv /\ [Next]_vars => OneSessionInv'
<1>1. OneSessionInv /\ UNCHANGED vars => OneSessionInv'
  BY DEF vars, OneSessionInv, Fresh, Told, NoneLeft, Dialable, files, daemonVars, requests, sessionVars,
    AliveStates, Booting, Listening, Alive
<1> QED
  BY <1>1, AloneSession, AloneDaemon, AloneRequest, AloneEnvironment DEF Next

LEMMA AloneInvariant == ASSUME Alone PROVE Spec => [](IInv /\ OneSessionInv)
<1>1. IInv /\ OneSessionInv /\ [Next]_vars => (IInv /\ OneSessionInv)'
  BY StepInv, AloneStep
<1>2. Init => IInv /\ OneSessionInv
  BY InitInv, AloneInit
<1> QED
  BY <1>1, <1>2, PTL DEF Spec

\* No sequence of starts, stops, failed starts and slow exits loses track of a
\* daemon: one that has not been sent a stop is the one the PID file names, or
\* that of the start under way.
THEOREM NoDaemonIsLost == ASSUME Alone PROVE Spec => []SoleDaemonIsRecorded
<1>1. IInv /\ OneSessionInv => SoleDaemonIsRecorded
  BY DEF Alone, IInv, TypeOK, OneSessionInv, SoleDaemonIsRecorded, Fresh
<1> QED
  BY <1>1, AloneInvariant, PTL

\* A start that reports failure leaves no daemon, PID file or socket of its own.
THEOREM FailedStartCleansUp == ASSUME Alone PROVE Spec => []FailedStartLeavesNothing
<1>1. IInv /\ OneSessionInv => FailedStartLeavesNothing
  BY DEF IInv, TypeOK, OneSessionInv, FailedStartLeavesNothing
<1> QED
  BY <1>1, AloneInvariant, PTL

\* After a stop that reports success, or that nothing runs, there is no daemon that
\* no stop has ever been sent to, whatever the PID file said before.
THEOREM StopOverlooksNoDaemon == ASSUME Alone PROVE Spec => []NoDaemonIsOverlooked
<1>1. IInv /\ OneSessionInv => NoDaemonIsOverlooked
  BY DEF IInv, TypeOK, OneSessionInv, NoDaemonIsOverlooked, Fresh, NoneLeft
<1> QED
  BY <1>1, AloneInvariant, PTL

\* The socket path a starting daemon removes unseen is never one a daemon
\* listens on.
THEOREM RemovalIsSafe == ASSUME Alone PROVE Spec => OnlyStaleSocketsRemoved
<1>1. ASSUME IInv, OneSessionInv, NEW d \in Daemons, proc[d] = "shimUp" PROVE ~Dialable
  <2>1. PICK c : Sessions = {c}
    BY DEF Alone
  <2>2. Fresh(d)
    BY <1>1, <2>1 DEF IInv, TypeOK, Told, ToldHaveListened, OneSessionInv, Fresh, Alive, AliveStates, Booting
  <2>3. SUFFICES ASSUME Dialable PROVE FALSE
    OBVIOUS
  <2>4. sockFile \in Daemons /\ Alive(sockFile) /\ proc[sockFile] \in Listening
    BY <1>1, <2>3, ConstantsAssumption DEF IInv, TypeOK, Dialable, Alive, AliveStates
  <2>5. pc[c] \notin {"wait", "reap", "unrecord", "unlink"}
    BY <1>1, <2>1, <2>2 DEF OneSessionInv, NoneLeft
  <2>6. Fresh(sockFile)
    BY <1>1, <2>1, <2>3, <2>4, <2>5 DEF OneSessionInv, Fresh
  <2>7. sockFile = d
    BY <1>1, <2>1, <2>2, <2>4, <2>6 DEF OneSessionInv
  <2> QED
    BY <1>1, <2>4, <2>7 DEF Listening
<1>2. IInv /\ OneSessionInv =>
        \A d \in Daemons : proc[d] = "shimUp" /\ proc'[d] = "unlinked" => ~Dialable
  BY <1>1
<1> QED
  BY <1>2, AloneInvariant, PTL DEF OnlyStaleSocketsRemoved

=============================================================================
