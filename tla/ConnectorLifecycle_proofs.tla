---------------------- MODULE ConnectorLifecycle_proofs ----------------------
(***************************************************************************)
(* Proofs about ConnectorLifecycle, for every set of sessions and daemons. *)
(* IInv adds to the type invariant what ties a shim to the state of its    *)
(* daemon: without it NoOrphanRunner is not inductive, since nothing in it *)
(* says that a daemon about to end has waited for its runner.              *)
(***************************************************************************)
EXTENDS ConnectorLifecycle, TLAPS

LEMMA DeadIsDead == \A d : Dead(d) \in {"zombie", "gone"}
  BY DEF Dead

LEMMA InitInv == Init => IInv
  BY ConstantsAssumption
  DEF Init, IInv, TypeOK, Told, ToldHaveListened, OperandsKnown, ShimFollowsDaemon, FilesNameDaemons, StaleSocketOnlyOfKilled, StopIsDelivered,
  files, daemonVars, requests, sessionVars, Goto, PcStates, Outcomes, InStart, InStop,
  ProcStates, AliveStates, Booting, Listening, Answering, Alive

LEMMA SessionInv ==
  ASSUME IInv, NEW c \in Sessions, Session(c) PROVE IInv'
<1> USE DEF IInv, TypeOK, Told, ToldHaveListened, OperandsKnown, ShimFollowsDaemon, FilesNameDaemons, StaleSocketOnlyOfKilled, StopIsDelivered,
  files, daemonVars, requests, sessionVars, Goto, PcStates, Outcomes, InStart, InStop,
  ProcStates, AliveStates, Booting, Listening, Answering, Alive
<1>1. ASSUME StartCheck(c) PROVE IInv'
  BY <1>1, ConstantsAssumption DEF StartCheck, RecordedRunning, Resting
<1>2. ASSUME Spawn(c) PROVE IInv'
  BY <1>2, ConstantsAssumption DEF Spawn
<1>3. ASSUME SpawnFails(c) PROVE IInv'
  BY <1>3, ConstantsAssumption DEF SpawnFails
<1>4. ASSUME Record(c) PROVE IInv'
  BY <1>4, ConstantsAssumption DEF Record
<1>5. ASSUME RecordFails(c) PROVE IInv'
  BY <1>5, ConstantsAssumption DEF RecordFails
<1>6. ASSUME Ready(c) PROVE IInv'
  BY <1>6, ConstantsAssumption DEF Ready, Return, Reaped
<1>7. ASSUME NotReady(c) PROVE IInv'
  BY <1>7, ConstantsAssumption DEF NotReady
<1>8. ASSUME KillRecorded(c) PROVE IInv'
  BY <1>8, ConstantsAssumption, DeadIsDead DEF KillRecorded, Kill
<1>9. ASSUME Unrecord(c) PROVE IInv'
  BY <1>9, ConstantsAssumption DEF Unrecord
<1>10. ASSUME UnlinkSocket(c) PROVE IInv'
  BY <1>10, ConstantsAssumption DEF UnlinkSocket, Return, Reaped
<1>11. ASSUME StopDial(c) PROVE IInv'
  BY <1>11, ConstantsAssumption DEF StopDial, Dialable, Resting
<1>12. ASSUME ReadClosed(c) PROVE IInv'
  BY <1>12, ConstantsAssumption DEF ReadClosed
<1>13. ASSUME ReadByte(c) PROVE IInv'
  BY <1>13, ConstantsAssumption DEF ReadByte
<1>14. ASSUME ReadDeadline(c) PROVE IInv'
  BY <1>14, ConstantsAssumption DEF ReadDeadline
<1>15. ASSUME StopNoSocket(c) PROVE IInv'
  BY <1>15, ConstantsAssumption DEF StopNoSocket, Resting
<1>16. ASSUME StopStatus(c) PROVE IInv'
  BY <1>16, ConstantsAssumption DEF StopStatus, RecordedRunning, Running
<1>17. ASSUME StopTerm(c) PROVE IInv'
  BY <1>17, ConstantsAssumption, DeadIsDead DEF StopTerm, Terminate, Kill, Running
<1>18. ASSUME StopReap(c) PROVE IInv'
  BY <1>18, ConstantsAssumption DEF StopReap, IsChild
<1>19. ASSUME StopKill(c) PROVE IInv'
  BY <1>19, ConstantsAssumption, DeadIsDead DEF StopKill, Kill, IsChild
<1> QED
  BY <1>1, <1>2, <1>3, <1>4, <1>5, <1>6, <1>7, <1>8, <1>9, <1>10, <1>11, <1>12, <1>13, <1>14, <1>15, <1>16, <1>17, <1>18, <1>19
  DEF Session, CommandSteps, StartSteps, StopSteps

LEMMA DaemonInv ==
  ASSUME IInv, NEW d \in Daemons, DaemonSteps(d) PROVE IInv'
<1> USE DEF IInv, TypeOK, Told, ToldHaveListened, OperandsKnown, ShimFollowsDaemon, FilesNameDaemons, StaleSocketOnlyOfKilled, StopIsDelivered,
  files, daemonVars, requests, sessionVars, Goto, PcStates, Outcomes, InStart, InStop,
  ProcStates, AliveStates, Booting, Listening, Answering, Alive
<1>1. ASSUME BootFails(d) PROVE IInv'
  BY <1>1, ConstantsAssumption, DeadIsDead DEF BootFails, Unowned
<1>2. ASSUME StartShim(d) PROVE IInv'
  BY <1>2, ConstantsAssumption DEF StartShim, Unowned
<1>3. ASSUME RemoveStale(d) PROVE IInv'
  BY <1>3, ConstantsAssumption DEF RemoveStale, Unowned
<1>4. ASSUME Listen(d) PROVE IInv'
  BY <1>4, ConstantsAssumption DEF Listen, Unowned
<1>5. ASSUME ListenFails(d) PROVE IInv'
  BY <1>5, ConstantsAssumption, DeadIsDead DEF ListenFails, KillRunner, Unowned
<1>6. ASSUME Serve(d) PROVE IInv'
  BY <1>6, ConstantsAssumption DEF Serve, Unowned
<1>7. ASSUME Shutdown(d) PROVE IInv'
  BY <1>7, ConstantsAssumption DEF Shutdown, Unowned
<1>8. ASSUME ShimDone(d) PROVE IInv'
  BY <1>8, ConstantsAssumption DEF ShimDone, Unowned
<1>9. ASSUME ForceKillShim(d) PROVE IInv'
  BY <1>9, ConstantsAssumption DEF ForceKillShim, KillRunner, Unowned
<1>10. ASSUME Exit(d) PROVE IInv'
  BY <1>10, ConstantsAssumption, DeadIsDead DEF Exit, Unowned
<1> QED
  BY <1>1, <1>2, <1>3, <1>4, <1>5, <1>6, <1>7, <1>8, <1>9, <1>10
  DEF DaemonSteps

LEMMA RequestInv ==
  ASSUME IInv, NEW d \in Daemons, ReadRequest(d) \/ LoseRequest(d) PROVE IInv'
<1> USE DEF IInv, TypeOK, Told, ToldHaveListened, OperandsKnown, ShimFollowsDaemon, FilesNameDaemons,
  StaleSocketOnlyOfKilled, StopIsDelivered, files, daemonVars, requests, sessionVars, PcStates, Outcomes,
  InStart, InStop, ProcStates, AliveStates, Booting, Listening, Answering, Alive, Unowned
<1>1. CASE ReadRequest(d)
  BY <1>1, ConstantsAssumption DEF ReadRequest
<1>2. CASE LoseRequest(d)
  BY <1>2, ConstantsAssumption DEF LoseRequest
<1> QED
  BY <1>1, <1>2

LEMMA EnvironmentInv ==
  ASSUME IInv, Environment PROVE IInv'
<1> USE DEF IInv, TypeOK, Told, ToldHaveListened, OperandsKnown, ShimFollowsDaemon, FilesNameDaemons, StaleSocketOnlyOfKilled, StopIsDelivered,
  files, daemonVars, requests, sessionVars, Goto, PcStates, Outcomes, InStart, InStop,
  ProcStates, AliveStates, Booting, Listening, Answering, Alive
<1>1. ASSUME ConnectForeground PROVE IInv'
  BY <1>1, ConstantsAssumption DEF ConnectForeground
<1>2. ASSUME NEW d \in Daemons, InterruptForeground(d) PROVE IInv'
  BY <1>2, ConstantsAssumption, DeadIsDead DEF InterruptForeground, Terminate, Kill
<1>3. ASSUME NEW d \in Daemons, DaemonKilled(d) PROVE IInv'
  BY <1>3, ConstantsAssumption, DeadIsDead DEF DaemonKilled, Kill
<1>4. ASSUME NEW d \in Daemons, RecyclePid(d) PROVE IInv'
  BY <1>4, ConstantsAssumption DEF RecyclePid
<1>5. ASSUME NEW d \in Daemons, ShimExits(d) PROVE IInv'
  BY <1>5, ConstantsAssumption DEF ShimExits, Unowned
<1>6. ASSUME NEW c \in Sessions, InterruptCommand(c) PROVE IInv'
  BY <1>6, ConstantsAssumption DEF InterruptCommand, Return, Reaped, Resting
<1> QED
  BY <1>1, <1>2, <1>3, <1>4, <1>5, <1>6, RequestInv
  DEF Environment

LEMMA StepInv == IInv /\ [Next]_vars => IInv'
<1>1. IInv /\ UNCHANGED vars => IInv'
  BY DEF vars, IInv, TypeOK, Told, ToldHaveListened, OperandsKnown, ShimFollowsDaemon, FilesNameDaemons, StaleSocketOnlyOfKilled, StopIsDelivered,
    files, daemonVars, requests, sessionVars, Goto, PcStates, Outcomes, InStart, InStop,
    ProcStates, AliveStates, Booting, Listening, Answering, Alive
<1> QED
  BY <1>1, SessionInv, DaemonInv, RequestInv, EnvironmentInv DEF Next

THEOREM InductiveInvariant == Spec => []IInv
  BY InitInv, StepInv, PTL DEF Spec

\* Every variable keeps its type: in particular both files only ever name a
\* daemon, and no command waits for a daemon it has not been told of.
THEOREM TypeCorrect == Spec => []TypeOK
<1>1. IInv => TypeOK
  BY DEF IInv
<1> QED
  BY <1>1, InductiveInvariant, PTL

\* On no path out of runDaemon does the runner, the process it started, outlive a
\* daemon that was not killed; a plugin without its runner has no daemon either,
\* or one that only has to return.
THEOREM RunnerNeverOrphaned == Spec => []NoOrphanRunner
<1>1. IInv => NoOrphanRunner
  BY DEF IInv, ShimFollowsDaemon, NoOrphanRunner, Alive, AliveStates, Booting, Listening
<1> QED
  BY <1>1, InductiveInvariant, PTL

\* A socket file without a listener is always that of a killed daemon, however
\* many daemons and commands create and remove the file.
THEOREM StaleSocketMeansKilled == Spec => []StaleSocketOnlyOfKilled
<1>1. IInv => StaleSocketOnlyOfKilled
  BY DEF IInv, FilesNameDaemons
<1> QED
  BY <1>1, InductiveInvariant, PTL

\* What a stop has achieved at each point of it: a SIGTERM is never lost, a request
\* on the socket not while the stop waits, and after that only by a connection
\* closed unread.
THEOREM StopAlwaysDelivered == Spec => []StopIsDelivered
<1>1. IInv => StopIsDelivered
  BY DEF IInv
<1> QED
  BY <1>1, InductiveInvariant, PTL

(***************************************************************************)
(* Each daemon lives the life DaemonLife promises: a step of the detailed  *)
(* specification is a step of one daemon's life, or changes no life.       *)
(***************************************************************************)
Stutters == UNCHANGED <<[d \in Daemons |-> PhaseOf(d)], shim>>
Crashes(p) == p \in Daemons /\ Life!Crash(p)

LEMMA KillLife ==
  ASSUME IInv, NEW p \in Daemons, Kill(p) PROVE Stutters \/ Crashes(p)
<1> USE DEF IInv, TypeOK, OperandsKnown, ShimFollowsDaemon, FilesNameDaemons, daemonVars, requests, files, Stutters, Crashes, Life!Crash, Life!Become, PhaseOf, Alive, AliveStates, Booting, Listening, Answering, ProcStates
<1>1. CASE Alive(p)
  BY <1>1, DeadIsDead DEF Kill
<1>2. CASE ~Alive(p)
  BY <1>2 DEF Kill
<1> QED BY <1>1, <1>2

LEMMA SessionLife ==
  ASSUME IInv, NEW c \in Sessions, Session(c) PROVE Stutters \/ Life!LifeNext
<1> USE DEF IInv, TypeOK, OperandsKnown, ShimFollowsDaemon, FilesNameDaemons, daemonVars, requests, files, Stutters, Crashes, Life!Crash, Life!Become, PhaseOf, Alive, AliveStates, Booting, Listening, Answering, ProcStates
<1>1. StartCheck(c) => Stutters
  BY DEF StartCheck
<1>2. SpawnFails(c) => Stutters
  BY DEF SpawnFails
<1>3. Record(c) => Stutters
  BY DEF Record
<1>4. Ready(c) => Stutters
  BY DEF Ready, Return, Reaped
<1>5. NotReady(c) => Stutters
  BY DEF NotReady
<1>6. Unrecord(c) => Stutters
  BY DEF Unrecord
<1>7. UnlinkSocket(c) => Stutters
  BY DEF UnlinkSocket, Return, Reaped
<1>8. StopDial(c) => Stutters
  BY DEF StopDial
<1>9. ReadClosed(c) => Stutters
  BY DEF ReadClosed
<1>10. ReadByte(c) => Stutters
  BY DEF ReadByte
<1>11. ReadDeadline(c) => Stutters
  BY DEF ReadDeadline
<1>12. StopNoSocket(c) => Stutters
  BY DEF StopNoSocket
<1>13. StopStatus(c) => Stutters
  BY DEF StopStatus
<1>14. StopReap(c) => Stutters
  BY DEF StopReap
<1>15. Spawn(c) => \E d \in Daemons : Life!Begin(d)
  <2>1. SUFFICES ASSUME Spawn(c) PROVE \E d \in Daemons : Life!Begin(d)
    OBVIOUS
  <2>2. PICK d \in Daemons : proc[d] = "free" /\ proc' = [proc EXCEPT ![d] = "boot"]
    BY <2>1 DEF Spawn
  <2>3. Life!Begin(d)
    BY <2>1, <2>2 DEF Spawn, Life!Begin
  <2> QED BY <2>3
<1>16. RecordFails(c) => Stutters \/ Crashes(own[c])
  <2>1. SUFFICES ASSUME RecordFails(c) PROVE Stutters \/ Crashes(own[c])
    OBVIOUS
  <2>2. own[c] \in Daemons /\ proc[own[c]] # "free"
    BY <2>1 DEF RecordFails, InStart
  <2>3. CASE Alive(own[c])
    BY <2>1, <2>2, <2>3 DEF RecordFails
  <2>4. CASE ~Alive(own[c])
    BY <2>1, <2>2, <2>4 DEF RecordFails
  <2> QED BY <2>3, <2>4
<1>17. KillRecorded(c) => Stutters \/ Crashes(pidFile)
  BY KillLife, ConstantsAssumption DEF KillRecorded
<1>18. StopTerm(c) => Stutters \/ Crashes(peer[c])
  BY KillLife DEF StopTerm, Terminate
<1>19. StopKill(c) => Stutters \/ Crashes(peer[c])
  BY KillLife DEF StopKill
<1> HIDE DEF IInv, TypeOK, OperandsKnown, ShimFollowsDaemon, FilesNameDaemons, daemonVars, requests, files, Stutters, Crashes, Life!Crash, Life!Become, PhaseOf, Alive, AliveStates, Booting, Listening, Answering, ProcStates
<1> QED
  BY <1>1, <1>2, <1>3, <1>4, <1>5, <1>6, <1>7, <1>8, <1>9, <1>10, <1>11, <1>12, <1>13, <1>14, <1>15, <1>16, <1>17, <1>18, <1>19
  DEF Session, CommandSteps, StartSteps, StopSteps, Crashes, Life!LifeNext

LEMMA DaemonLives ==
  ASSUME IInv, NEW d \in Daemons, DaemonSteps(d) PROVE Stutters \/ Life!LifeNext
<1> USE DEF IInv, TypeOK, OperandsKnown, ShimFollowsDaemon, FilesNameDaemons, daemonVars, requests, files, Stutters, Crashes, Life!Crash, Life!Become, PhaseOf, Alive, AliveStates, Booting, Listening, Answering, ProcStates, Unowned
<1>1. BootFails(d) => Life!GiveUp(d)
  BY DeadIsDead DEF BootFails, Life!GiveUp
<1>2. StartShim(d) => Life!Attach(d)
  BY DEF StartShim, Life!Attach
<1>3. ListenFails(d) => Life!GiveUp(d)
  <2>1. SUFFICES ASSUME ListenFails(d) PROVE Life!GiveUp(d)
    OBVIOUS
  <2>2. PhaseOf(d) = "running" /\ shim[d] # "none"
    BY <2>1 DEF ListenFails
  <2>3. Life!Become(d, "ended")
    BY <2>1, DeadIsDead DEF ListenFails
  <2> QED
    BY <2>1, <2>2, <2>3 DEF ListenFails, KillRunner, Life!GiveUp
<1>4. Shutdown(d) => Life!Drain(d)
  BY DEF Shutdown, Life!Drain
<1>5. ForceKillShim(d) => Life!Detach(d) \/ Life!KillRunner(d)
  BY DEF ForceKillShim, KillRunner, Life!Detach, Life!KillRunner
<1>6. Exit(d) => Life!End(d)
  BY DeadIsDead DEF Exit, Life!End
<1>7. RemoveStale(d) => Stutters
  BY DEF RemoveStale
<1>8. Listen(d) => Stutters
  BY DEF Listen
<1>9. Serve(d) => Stutters
  BY DEF Serve
<1>10. ShimDone(d) => Stutters \/ Life!Drain(d)
  BY DEF ShimDone, Life!Drain
<1> HIDE DEF IInv, TypeOK, OperandsKnown, ShimFollowsDaemon, FilesNameDaemons, daemonVars, requests, files, Stutters, Crashes, Life!Crash, Life!Become, PhaseOf, Alive, AliveStates, Booting, Listening, Answering, ProcStates, Unowned
<1> QED
  BY <1>1, <1>2, <1>3, <1>4, <1>5, <1>6, <1>7, <1>8, <1>9, <1>10
  DEF DaemonSteps, Life!LifeNext

LEMMA EnvironmentLife ==
  ASSUME IInv, Environment PROVE Stutters \/ Life!LifeNext
<1> USE DEF IInv, TypeOK, OperandsKnown, ShimFollowsDaemon, FilesNameDaemons, daemonVars, requests, files, Stutters, Crashes, Life!Crash, Life!Become, PhaseOf, Alive, AliveStates, Booting, Listening, Answering, ProcStates
<1>1. ConnectForeground => \E d \in Daemons : Life!Begin(d)
  <2>1. SUFFICES ASSUME ConnectForeground PROVE \E d \in Daemons : Life!Begin(d)
    OBVIOUS
  <2>2. PICK d \in Daemons : proc[d] = "free" /\ proc' = [proc EXCEPT ![d] = "boot"]
    BY <2>1 DEF ConnectForeground
  <2>3. Life!Begin(d)
    BY <2>1, <2>2 DEF ConnectForeground, Life!Begin
  <2> QED BY <2>3
<1>2. (\E d \in Daemons : ShimExits(d)) => \E d \in Daemons : Life!Detach(d)
  BY DEF ShimExits, Unowned, Life!Detach
<1>3. (\E d \in Daemons : RecyclePid(d)) => Stutters
  BY DEF RecyclePid
<1>4. (\E d \in Daemons : InterruptForeground(d)) => Stutters \/ \E d \in Daemons : Crashes(d)
  BY KillLife DEF InterruptForeground, Terminate
<1>5. (\E d \in Daemons : DaemonKilled(d)) => Stutters \/ \E d \in Daemons : Crashes(d)
  BY KillLife DEF DaemonKilled
<1>6. (\E c \in Sessions : InterruptCommand(c)) => Stutters
  BY DEF InterruptCommand, Return, Reaped
<1>7. (\E d \in Daemons : LoseRequest(d)) => Stutters
  BY DEF LoseRequest
<1> HIDE DEF IInv, TypeOK, OperandsKnown, ShimFollowsDaemon, FilesNameDaemons, daemonVars, requests, files, Stutters, Crashes, Life!Crash, Life!Become, PhaseOf, Alive, AliveStates, Booting, Listening, Answering, ProcStates
<1> QED
  BY <1>1, <1>2, <1>3, <1>4, <1>5, <1>6, <1>7
  DEF Environment, Crashes, Life!LifeNext

LEMMA StepLife == IInv /\ [Next]_vars => [Life!LifeNext]_(Life!lifeVars)
<1>1. UNCHANGED vars => Stutters
  BY DEF vars, daemonVars, Stutters, PhaseOf, Alive
<1>2. (\E d \in Daemons : ReadRequest(d)) => Stutters
  BY DEF ReadRequest, Stutters, PhaseOf, Alive
<1> QED
  BY <1>1, <1>2, SessionLife, DaemonLives, EnvironmentLife DEF Next, Stutters, Life!lifeVars

LEMMA InitLife == Init => Life!LifeInit
  BY DEF Init, Life!LifeInit, PhaseOf, Alive, AliveStates, Booting, Listening

\* LifeSafety: whatever commands, signals and files do, for any number of
\* sessions and daemons, every daemon outlives its runner unless it is killed.
THEOREM ImplementsDaemonLife == Spec => LifeSafety
<1>1. Spec => []IInv
  BY InductiveInvariant
<1> QED
  BY <1>1, InitLife, StepLife, PTL DEF Spec, LifeSafety, Life!LifeSafety

-----------------------------------------------------------------------------
(* Children. While a server that has not waited for its child lives, the   *)
(* child stays a zombie when it dies, so that its PID is not reused.       *)

\* SIGKILL makes a zombie of a server's child, and of that of a start under way.
LEMMA KillKeepsChildren ==
  ASSUME TypeOK, ChildrenAreKept, NEW p \in Daemons, Kill(p)
  PROVE  /\ \A c \in LongLived, d \in Daemons :
              parent[d] = c /\ proc'[d] \in {"gone", "foreign"} => proc[d] \in {"gone", "foreign"}
         /\ \A c \in Sessions : pc[c] = "record" /\ proc'[own[c]] \in {"gone", "foreign"} =>
              proc[own[c]] \in {"gone", "foreign"}
<1> USE ConstantsAssumption DEF TypeOK, ChildrenAreKept, ProcStates, AliveStates, Booting, Listening
<1>1. CASE Alive(p)
  <2>1. proc' = [proc EXCEPT ![p] = Dead(p)]
    BY <1>1 DEF Kill
  <2>2. \A c \in LongLived : parent[p] = c => Dead(p) = "zombie"
    BY DEF Dead, ParentAlive
  <2>3. \A c \in Sessions : pc[c] = "record" /\ own[c] = p => Dead(p) = "zombie"
    BY DEF Dead, ParentAlive, InStart
  <2> QED
    BY <2>1, <2>2, <2>3, DeadIsDead
<1>2. CASE ~Alive(p)
  BY <1>2 DEF Kill
<1> QED
  BY <1>1, <1>2

LEMMA DeathKeepsChildren ==
  ASSUME TypeOK, ChildrenAreKept, NEW p \in Daemons, Alive(p), proc' = [proc EXCEPT ![p] = Dead(p)]
  PROVE  /\ \A c \in LongLived, d \in Daemons :
              parent[d] = c /\ proc'[d] \in {"gone", "foreign"} => proc[d] \in {"gone", "foreign"}
         /\ \A c \in Sessions : pc[c] = "record" /\ proc'[own[c]] \in {"gone", "foreign"} =>
              proc[own[c]] \in {"gone", "foreign"}
<1> USE ConstantsAssumption DEF TypeOK, ChildrenAreKept, ProcStates, AliveStates, Booting, Listening
<1>1. \A c \in LongLived : parent[p] = c => Dead(p) = "zombie"
  BY DEF Dead, ParentAlive
<1>2. \A c \in Sessions : pc[c] = "record" /\ own[c] = p => Dead(p) = "zombie"
  BY DEF Dead, ParentAlive, InStart
<1> QED
  BY <1>1, <1>2, DeadIsDead

LEMMA SessionKeepsChildren ==
  ASSUME IInv, ChildrenAreKept, NEW c \in Sessions, Session(c) PROVE ChildrenAreKept'
<1> USE ConstantsAssumption DEF IInv, TypeOK, OperandsKnown, FilesNameDaemons, ChildrenAreKept, files,
  daemonVars, requests, sessionVars, Goto, PcStates, Outcomes, InStart, InStop, ProcStates, AliveStates,
  Booting, Listening, Alive
<1>1. CASE StartCheck(c)
  BY <1>1 DEF StartCheck, Resting
<1>2. CASE Spawn(c)
  BY <1>2 DEF Spawn
<1>3. CASE SpawnFails(c)
  BY <1>3 DEF SpawnFails
<1>4. CASE Record(c)
  BY <1>4 DEF Record
<1>5. CASE RecordFails(c)
  BY <1>5 DEF RecordFails
<1>6. CASE Ready(c)
  BY <1>6 DEF Ready, Return, Reaped
<1>7. CASE NotReady(c)
  BY <1>7 DEF NotReady
<1>8. CASE KillRecorded(c)
  BY <1>8, KillKeepsChildren DEF KillRecorded
<1>9. CASE Unrecord(c)
  BY <1>9 DEF Unrecord
<1>10. CASE UnlinkSocket(c)
  BY <1>10 DEF UnlinkSocket, Return, Reaped
<1>11. CASE StopDial(c)
  BY <1>11 DEF StopDial, Resting
<1>12. CASE ReadClosed(c)
  BY <1>12 DEF ReadClosed
<1>13. CASE ReadByte(c)
  BY <1>13 DEF ReadByte
<1>14. CASE ReadDeadline(c)
  BY <1>14 DEF ReadDeadline
<1>15. CASE StopNoSocket(c)
  BY <1>15 DEF StopNoSocket, Resting
<1>16. CASE StopStatus(c)
  BY <1>16 DEF StopStatus, RecordedRunning, Running
<1>17. CASE StopTerm(c)
  BY <1>17, KillKeepsChildren DEF StopTerm, Terminate
<1>18. CASE StopReap(c)
  BY <1>18 DEF StopReap, IsChild
<1>19. CASE StopKill(c)
  BY <1>19, KillKeepsChildren DEF StopKill
<1> QED
  BY <1>1, <1>2, <1>3, <1>4, <1>5, <1>6, <1>7, <1>8, <1>9, <1>10, <1>11, <1>12, <1>13, <1>14, <1>15, <1>16, <1>17, <1>18, <1>19
  DEF Session, CommandSteps, StartSteps, StopSteps

LEMMA OthersKeepChildren ==
  ASSUME IInv, ChildrenAreKept, (\E d \in Daemons : DaemonSteps(d) \/ ReadRequest(d)) \/ Environment
  PROVE  ChildrenAreKept'
<1> USE ConstantsAssumption DEF IInv, TypeOK, OperandsKnown, FilesNameDaemons, ChildrenAreKept, files,
  daemonVars, requests, sessionVars, Goto, PcStates, Outcomes, InStart, InStop, ProcStates, AliveStates,
  Booting, Listening, Alive, Unowned
<1>1. ASSUME NEW d \in Daemons, BootFails(d) PROVE ChildrenAreKept'
  BY <1>1, DeathKeepsChildren DEF BootFails
<1>2. ASSUME NEW d \in Daemons, StartShim(d) PROVE ChildrenAreKept'
  BY <1>2 DEF StartShim
<1>3. ASSUME NEW d \in Daemons, RemoveStale(d) PROVE ChildrenAreKept'
  BY <1>3 DEF RemoveStale
<1>4. ASSUME NEW d \in Daemons, Listen(d) PROVE ChildrenAreKept'
  BY <1>4 DEF Listen
<1>5. ASSUME NEW d \in Daemons, ListenFails(d) PROVE ChildrenAreKept'
  BY <1>5, DeathKeepsChildren DEF ListenFails
<1>6. ASSUME NEW d \in Daemons, Serve(d) PROVE ChildrenAreKept'
  BY <1>6 DEF Serve
<1>7. ASSUME NEW d \in Daemons, Shutdown(d) PROVE ChildrenAreKept'
  BY <1>7 DEF Shutdown
<1>8. ASSUME NEW d \in Daemons, ShimDone(d) PROVE ChildrenAreKept'
  BY <1>8 DEF ShimDone
<1>9. ASSUME NEW d \in Daemons, ForceKillShim(d) PROVE ChildrenAreKept'
  BY <1>9 DEF ForceKillShim
<1>10. ASSUME NEW d \in Daemons, Exit(d) PROVE ChildrenAreKept'
  BY <1>10, DeathKeepsChildren DEF Exit
<1>11. ASSUME ConnectForeground PROVE ChildrenAreKept'
  BY <1>11 DEF ConnectForeground
<1>12. ASSUME NEW d \in Daemons, InterruptForeground(d) PROVE ChildrenAreKept'
  BY <1>12, KillKeepsChildren DEF InterruptForeground, Terminate
<1>13. ASSUME NEW d \in Daemons, DaemonKilled(d) PROVE ChildrenAreKept'
  BY <1>13, KillKeepsChildren DEF DaemonKilled
<1>14. ASSUME NEW d \in Daemons, RecyclePid(d) PROVE ChildrenAreKept'
  BY <1>14 DEF RecyclePid
<1>15. ASSUME NEW d \in Daemons, ShimExits(d) PROVE ChildrenAreKept'
  BY <1>15 DEF ShimExits
<1>16. ASSUME NEW e \in Sessions, InterruptCommand(e) PROVE ChildrenAreKept'
  BY <1>16 DEF InterruptCommand, Return, Reaped, Resting
<1>17. ASSUME NEW d \in Daemons, ReadRequest(d) \/ LoseRequest(d) PROVE ChildrenAreKept'
  BY <1>17 DEF ReadRequest, LoseRequest
<1> QED
  BY <1>1, <1>2, <1>3, <1>4, <1>5, <1>6, <1>7, <1>8, <1>9, <1>10, <1>11, <1>12, <1>13, <1>14, <1>15, <1>16, <1>17
  DEF DaemonSteps, Environment

LEMMA ChildrenStep == IInv /\ ChildrenAreKept /\ [Next]_vars => ChildrenAreKept'
<1>1. UNCHANGED vars /\ ChildrenAreKept => ChildrenAreKept'
  BY DEF vars, files, daemonVars, requests, sessionVars, ChildrenAreKept
<1> QED
  BY <1>1, SessionKeepsChildren, OthersKeepChildren DEF Next

LEMMA ChildrenInit == Init => ChildrenAreKept
  BY DEF Init, ChildrenAreKept, InStart

LEMMA ChildrenInvariant == Spec => []ChildrenAreKept
  BY ChildrenInit, ChildrenStep, InductiveInvariant, PTL DEF Spec

\* process.Wait and the SIGKILL after it are for the process the server started,
\* never for a program that was given its PID since.
THEOREM WaitIsForTheChild == Spec => []WaitsForItsChild
<1>1. IInv /\ ChildrenAreKept => WaitsForItsChild
  BY ConstantsAssumption DEF IInv, TypeOK, OperandsKnown, ChildrenAreKept, WaitsForItsChild, IsChild, Alive,
    ProcStates
<1> QED
  BY <1>1, ChildrenInvariant, InductiveInvariant, PTL

\* NobodyBlocks, for any sessions and daemons: no reachable state leaves a command
\* or a daemon on its way without a step to take. GuardsEnable says so where a
\* step's guard holds; that one always does needs no ENABLED.
THEOREM NobodyEverBlocks == Spec /\ []GuardsEnable => []NobodyBlocks
<1>1. IInv /\ WaitsForItsChild => \A c \in Sessions : ~Resting(c) => CommandReady(c)
  BY DEF WaitsForItsChild, CommandReady
<1>2. IInv => \A d \in Daemons : OnItsWay(d) => DaemonReady(d)
  BY DEF IInv, TypeOK, ShimFollowsDaemon, OnItsWay, DaemonReady, Alive, AliveStates, Booting, Listening
<1>3. IInv => \A d \in Daemons : Alive(d) /\ d \in unread => DaemonReady(d) \/ HandlerReady(d)
  BY DEF IInv, Told, ToldHaveListened, DaemonReady, HandlerReady, Alive, AliveStates, Booting, Listening,
    Answering
<1>4. IInv /\ WaitsForItsChild /\ GuardsEnable => NobodyBlocks
  BY <1>1, <1>2, <1>3 DEF GuardsEnable, NobodyBlocks
<1> QED
  BY <1>4, InductiveInvariant, WaitIsForTheChild, PTL

-----------------------------------------------------------------------------
(* Liveness.  What a process waits for is under way or has a deadline:     *)
(* with NobodyBlocks weak fairness means that a command that has not       *)
(* returned takes a step, and the proofs show that no command or daemon    *)
(* takes more than a few. GuardsEnable is the only premise besides.        *)

\* What the steps of others leave alone: a session's place and peer, the requests
\* to stop, and where a daemon is that does not die.
Apart(c) == pc'[c] = pc[c] /\ peer'[c] = peer[c]
KeepsPlace(d) == Alive(d) /\ Alive(d)' => proc'[d] = proc[d]
Leaves(c) ==
  /\ \A e \in Sessions : e # c => Apart(e)
  /\ asked \subseteq asked'
  /\ \A d \in Daemons : KeepsPlace(d)

LEMMA KillTouches ==
  ASSUME TypeOK, NEW p \in Daemons, Kill(p)
  PROVE requests' = requests /\ \A d \in Daemons : KeepsPlace(d)
  BY DeadIsDead DEF TypeOK, Kill, KeepsPlace, Alive, AliveStates, Booting, Listening

LEMMA SessionLeaves ==
  ASSUME IInv, NEW c \in Sessions, Session(c) PROVE Leaves(c)
<1> USE DEF IInv, TypeOK, Leaves, Apart, KeepsPlace, files, daemonVars, requests, sessionVars, Goto,
        Return, Reaped, Alive, AliveStates, Booting, Listening
<1>1. CASE StartCheck(c) BY <1>1 DEF StartCheck
<1>2. CASE Spawn(c) BY <1>2 DEF Spawn
<1>3. CASE SpawnFails(c) BY <1>3 DEF SpawnFails
<1>4. CASE Record(c) BY <1>4 DEF Record
<1>5. CASE RecordFails(c) BY <1>5 DEF RecordFails
<1>6. CASE Ready(c) BY <1>6 DEF Ready
<1>7. CASE NotReady(c) BY <1>7 DEF NotReady
<1>8. CASE KillRecorded(c)
  BY <1>8, KillTouches DEF KillRecorded
<1>9. CASE Unrecord(c) BY <1>9 DEF Unrecord
<1>10. CASE UnlinkSocket(c) BY <1>10 DEF UnlinkSocket
<1>11. CASE StopDial(c) BY <1>11 DEF StopDial
<1>12. CASE ReadClosed(c) BY <1>12 DEF ReadClosed
<1>13. CASE ReadByte(c) BY <1>13 DEF ReadByte
<1>14. CASE ReadDeadline(c) BY <1>14 DEF ReadDeadline
<1>15. CASE StopNoSocket(c) BY <1>15 DEF StopNoSocket
<1>16. CASE StopStatus(c) BY <1>16 DEF StopStatus
<1>17. CASE StopTerm(c)
  BY <1>17, KillTouches DEF StopTerm, Terminate, OperandsKnown
<1>18. CASE StopReap(c) BY <1>18 DEF StopReap
<1>19. CASE StopKill(c)
  BY <1>19, KillTouches DEF StopKill, OperandsKnown
<1> QED
  BY <1>1, <1>2, <1>3, <1>4, <1>5, <1>6, <1>7, <1>8, <1>9, <1>10, <1>11, <1>12, <1>13, <1>14,
     <1>15, <1>16, <1>17, <1>18, <1>19
  DEF Session, CommandSteps, StartSteps, StopSteps

LEMMA DaemonLeaves ==
  ASSUME IInv, NEW d \in Daemons, DaemonSteps(d)
  PROVE UNCHANGED <<pc, peer, requests>> /\ \A x \in Daemons : x # d => KeepsPlace(x)
<1> USE DEF IInv, TypeOK, KeepsPlace, files, requests, sessionVars, Unowned
<1>1. CASE BootFails(d) BY <1>1 DEF BootFails
<1>2. CASE StartShim(d) BY <1>2 DEF StartShim
<1>3. CASE RemoveStale(d) BY <1>3 DEF RemoveStale
<1>4. CASE Listen(d) BY <1>4 DEF Listen
<1>5. CASE ListenFails(d) BY <1>5 DEF ListenFails
<1>6. CASE Serve(d) BY <1>6 DEF Serve
<1>7. CASE Shutdown(d) BY <1>7 DEF Shutdown
<1>8. CASE ShimDone(d) BY <1>8 DEF ShimDone
<1>9. CASE ForceKillShim(d) BY <1>9 DEF ForceKillShim
<1>10. CASE Exit(d) BY <1>10 DEF Exit
<1> QED
  BY <1>1, <1>2, <1>3, <1>4, <1>5, <1>6, <1>7, <1>8, <1>9, <1>10 DEF DaemonSteps

LEMMA RequestLeaves ==
  ASSUME NEW d \in Daemons, ReadRequest(d) \/ LoseRequest(d)
  PROVE /\ UNCHANGED <<pc, peer, proc>> /\ asked \subseteq asked' /\ lost \subseteq lost'
        /\ \A x \in Daemons : x # d => (x \in unread <=> x \in unread')
  BY DEF ReadRequest, LoseRequest, Unowned, sessionVars

LEMMA EnvironmentLeaves ==
  ASSUME IInv, Environment
  PROVE /\ \A c \in Sessions : Apart(c) \/ Resting(c)'
        /\ asked \subseteq asked'
        /\ \A d \in Daemons : KeepsPlace(d)
<1> USE DEF IInv, TypeOK, Apart, KeepsPlace, files, requests, sessionVars, Unowned, Goto, Return, Reaped,
        Alive, AliveStates, Booting, Listening
<1>1. CASE ConnectForeground BY <1>1 DEF ConnectForeground
<1>2. CASE \E d \in Daemons : InterruptForeground(d)
  BY <1>2, KillTouches DEF InterruptForeground, Terminate
<1>3. CASE \E d \in Daemons : DaemonKilled(d)
  BY <1>3, KillTouches DEF DaemonKilled
<1>4. CASE \E d \in Daemons : RecyclePid(d) BY <1>4 DEF RecyclePid
<1>5. CASE \E d \in Daemons : ShimExits(d) BY <1>5 DEF ShimExits
<1>6. CASE \E c \in Sessions : InterruptCommand(c)
  BY <1>6 DEF InterruptCommand, Resting, Outcomes
<1>7. CASE \E d \in Daemons : LoseRequest(d)
  BY <1>7, RequestLeaves
<1> QED
  BY <1>1, <1>2, <1>3, <1>4, <1>5, <1>6, <1>7 DEF Environment

\* Death is final: a PID is not used for a second daemon.
Gone(d) == proc[d] # "free" /\ ~Alive(d)

LEMMA DeathIsFinal ==
  ASSUME IInv, [Next]_vars, NEW d \in Daemons, proc[d] # "free"
  PROVE proc'[d] # "free" /\ (Gone(d) => Gone(d)')
<1>1. IInv' /\ [Life!LifeNext]_(Life!lifeVars)
  BY StepInv, StepLife
<1>2. PhaseOf(d) # "unborn"
  BY DEF PhaseOf, IInv, ShimFollowsDaemon
<1>3. PhaseOf(d)' # "unborn" /\ (PhaseOf(d) \in {"ended", "crashed"} => PhaseOf(d)' = PhaseOf(d))
  BY <1>1, <1>2
  DEF Life!LifeNext, Life!lifeVars, Life!Begin, Life!Attach, Life!Detach, Life!KillRunner, Life!Drain,
      Life!GiveUp, Life!End, Life!Crash, Life!Become
<1>4. Gone(d) => PhaseOf(d) \in {"ended", "crashed"}
  BY DEF Gone, PhaseOf, Alive, AliveStates, Booting, Listening
<1>5. PhaseOf(d)' \in {"ended", "crashed"} => Gone(d)'
  BY <1>1 DEF Gone, PhaseOf, Alive, IInv, ShimFollowsDaemon
<1>6. PhaseOf(d)' # "unborn" => proc'[d] # "free"
  BY <1>1 DEF PhaseOf, IInv, ShimFollowsDaemon
<1> QED
  BY <1>3, <1>4, <1>5, <1>6

\* How many steps a command has left, at most.
StepsLeft(c) ==
  IF pc[c] \in {"spawn", "fallback"} THEN 6
  ELSE IF pc[c] \in {"record", "term"} THEN 5
  ELSE IF pc[c] = "poll" \/ (pc[c] = "reap" /\ Alive(peer[c])) THEN 4
  ELSE IF pc[c] \in {"kill", "wait", "reap"} THEN 3
  ELSE IF pc[c] \in {"failUnrecord", "unrecord", "nrUnrecord"} THEN 2 ELSE 1

Busy(c, n) == ~Resting(c) /\ StepsLeft(c) <= n

LEMMA CommandNeverGoesBack ==
  ASSUME IInv, [Next]_vars, NEW c \in Sessions, ~Resting(c)
  PROVE Resting(c)' \/ CommandSteps(c) \/ StepsLeft(c)' <= StepsLeft(c)
<1>1. Apart(c) => StepsLeft(c)' <= StepsLeft(c)
  <2> SUFFICES ASSUME Apart(c) PROVE StepsLeft(c)' <= StepsLeft(c)
    OBVIOUS
  <2>1. pc[c] = "reap" => (Alive(peer[c])' => Alive(peer[c]))
    BY DeathIsFinal DEF IInv, OperandsKnown, Gone, Apart, Alive
  <2> QED
    BY <2>1 DEF StepsLeft, Apart, Alive
<1>2. CASE UNCHANGED vars
  BY <1>1, <1>2 DEF vars, sessionVars, Apart
<1>3. CASE Session(c)
  BY <1>3 DEF Session, StartCheck, StopDial, StopNoSocket
<1>4. ASSUME NEW e \in Sessions, e # c, Session(e) PROVE Apart(c)
  BY <1>4, SessionLeaves DEF Leaves
<1>5. ASSUME NEW d \in Daemons, DaemonSteps(d) \/ ReadRequest(d) PROVE Apart(c)
  BY <1>5, DaemonLeaves, RequestLeaves DEF Apart
<1>6. CASE Environment
  BY <1>6, <1>1, EnvironmentLeaves
<1> QED
  BY <1>1, <1>2, <1>3, <1>4, <1>5, <1>6 DEF Next

LEMMA CommandStepCounts ==
  ASSUME IInv, NEW c \in Sessions, CommandSteps(c)
  PROVE Resting(c)' \/ StepsLeft(c)' < StepsLeft(c)
<1> USE DEF IInv, TypeOK, StepsLeft, Resting, Outcomes, files, daemonVars, requests, Goto, Return
<1>1. CASE Spawn(c) BY <1>1 DEF Spawn
<1>2. CASE SpawnFails(c) BY <1>2 DEF SpawnFails
<1>3. CASE Record(c) BY <1>3 DEF Record
<1>4. CASE RecordFails(c) BY <1>4 DEF RecordFails
<1>5. CASE Ready(c) BY <1>5 DEF Ready
<1>6. CASE NotReady(c) BY <1>6 DEF NotReady
<1>7. CASE KillRecorded(c) BY <1>7 DEF KillRecorded
<1>8. CASE Unrecord(c) BY <1>8 DEF Unrecord
<1>9. CASE UnlinkSocket(c) BY <1>9 DEF UnlinkSocket
<1>10. CASE ReadClosed(c) BY <1>10 DEF ReadClosed
<1>11. CASE ReadByte(c) BY <1>11 DEF ReadByte
<1>12. CASE ReadDeadline(c) BY <1>12 DEF ReadDeadline
<1>13. CASE StopStatus(c) BY <1>13 DEF StopStatus
<1>14. CASE StopTerm(c) BY <1>14 DEF StopTerm
<1>15. CASE StopReap(c) BY <1>15 DEF StopReap
<1>16. CASE StopKill(c)
  BY <1>16, DeadIsDead
  DEF StopKill, Kill, sessionVars, OperandsKnown, Alive, AliveStates, Booting, Listening
<1> QED
  BY <1>1, <1>2, <1>3, <1>4, <1>5, <1>6, <1>7, <1>8, <1>9, <1>10, <1>11, <1>12, <1>13, <1>14,
     <1>15, <1>16
  DEF CommandSteps, StartSteps, StopSteps

Nears(c, m, n) == Busy(c, m) ~> Busy(c, n) \/ Resting(c)

LEMMA AllHolds == FairSpec /\ []NobodyBlocks => /\ [](IInv /\ NobodyBlocks)
                                                /\ [][Next]_vars
  BY InductiveInvariant, PTL DEF FairSpec, Spec

LEMMA CommandsGoOn == ASSUME NEW c \in Sessions PROVE FairSpec => CommandGoesOn(c)
  BY DEF FairSpec, Fairness

LEMMA CommandNears ==
  ASSUME NEW c \in Sessions, NEW m \in Nat, NEW n \in Nat, m = n + 1
  PROVE FairSpec /\ []NobodyBlocks => Nears(c, m, n)
<1>1. IInv /\ Busy(c, m) /\ [Next]_vars => Busy(c, m)' \/ Busy(c, n)' \/ Resting(c)'
  <2> SUFFICES ASSUME IInv, Busy(c, m), [Next]_vars, ~Resting(c)' PROVE Busy(c, m)'
    OBVIOUS
  <2>1. StepsLeft(c)' <= StepsLeft(c)
    <3>1. StepsLeft(c) \in Nat /\ StepsLeft(c)' \in Nat
      BY DEF StepsLeft
    <3> QED
      BY <3>1, CommandNeverGoesBack, CommandStepCounts DEF Busy
  <2>2. StepsLeft(c) \in Nat /\ StepsLeft(c)' \in Nat
    BY DEF StepsLeft
  <2> QED
    BY <2>1, <2>2 DEF Busy
<1>2. IInv /\ Busy(c, m) /\ <<CommandSteps(c)>>_vars => Busy(c, n)' \/ Resting(c)'
  <2>1. StepsLeft(c) \in Nat /\ StepsLeft(c)' \in Nat
    BY DEF StepsLeft
  <2> QED
    BY <2>1, CommandStepCounts DEF Busy
<1>3. NobodyBlocks /\ Busy(c, m) => ENABLED <<CommandSteps(c)>>_vars
  BY DEF NobodyBlocks, Busy
<1> QED
  BY <1>1, <1>2, <1>3, AllHolds, CommandsGoOn, PTL DEF CommandGoesOn, Nears

\* EveryCommandReturns: whatever else runs, dies or is recycled, for any number of
\* sessions and daemons: after at most six steps a command is at its end.
THEOREM CommandsReturn == FairSpec /\ []GuardsEnable => EveryCommandReturns
<1>1. ASSUME NEW c \in Sessions
      PROVE FairSpec /\ []NobodyBlocks => (~Resting(c) ~> Resting(c))
  <2>1. FairSpec /\ []NobodyBlocks =>
          /\ Nears(c, 6, 5) /\ Nears(c, 5, 4) /\ Nears(c, 4, 3)
          /\ Nears(c, 3, 2) /\ Nears(c, 2, 1) /\ Nears(c, 1, 0)
    BY CommandNears
  <2>2. ~Resting(c) => Busy(c, 6)
    BY DEF Busy, StepsLeft
  <2>3. ~Busy(c, 0)
    BY DEF Busy, StepsLeft
  <2> QED
    BY <2>1, <2>2, <2>3, PTL DEF Nears
<1>2. FairSpec /\ []NobodyBlocks => EveryCommandReturns
  BY <1>1 DEF EveryCommandReturns
<1> QED
  BY <1>2, NobodyEverBlocks, PTL DEF FairSpec

\* A daemon that has been asked to stop, or is past the main select, ends in so
\* many steps at most.
Due(d) == Alive(d) /\ (d \in asked \/ proc[d] \in {"stopping", "closing"})
PlacesLeft(d) ==
  CASE proc[d] = "boot" -> 7 [] proc[d] = "shimUp" -> 6 [] proc[d] = "unlinked" -> 5
    [] proc[d] = "bound" -> 4 [] proc[d] = "serving" -> 3 [] proc[d] = "stopping" -> 2
    [] OTHER -> 1
Ending(d, n) == Due(d) /\ PlacesLeft(d) <= n
Approaches(d, m, n) == Ending(d, m) ~> Ending(d, n) \/ Gone(d)

LEMMA PlacesAreCounted ==
  \A d : PlacesLeft(d) \in 1..7 /\ PlacesLeft(d)' \in 1..7
  BY DEF PlacesLeft

LEMMA DaemonStepCounts ==
  ASSUME IInv, NEW d \in Daemons, Due(d), DaemonSteps(d)
  PROVE Gone(d)' \/ (Due(d)' /\ PlacesLeft(d)' < PlacesLeft(d))
<1> USE DeadIsDead
    DEF IInv, TypeOK, Due, Gone, PlacesLeft, Alive, AliveStates, Booting, Listening, requests, Unowned
<1>1. CASE BootFails(d) BY <1>1 DEF BootFails
<1>2. CASE StartShim(d) BY <1>2 DEF StartShim
<1>3. CASE RemoveStale(d) BY <1>3 DEF RemoveStale
<1>4. CASE Listen(d) BY <1>4 DEF Listen
<1>5. CASE ListenFails(d) BY <1>5 DEF ListenFails
<1>6. CASE Serve(d) BY <1>6 DEF Serve
<1>7. CASE Shutdown(d) BY <1>7 DEF Shutdown
<1>8. CASE ShimDone(d) BY <1>8 DEF ShimDone
<1>9. CASE ForceKillShim(d) BY <1>9 DEF ForceKillShim
<1>10. CASE Exit(d) BY <1>10 DEF Exit
<1> QED
  BY <1>1, <1>2, <1>3, <1>4, <1>5, <1>6, <1>7, <1>8, <1>9, <1>10 DEF DaemonSteps

LEMMA DaemonNeverGoesBack ==
  ASSUME IInv, [Next]_vars, NEW d \in Daemons, Due(d)
  PROVE Gone(d)' \/ (Due(d)' /\ PlacesLeft(d)' <= PlacesLeft(d))
<1>1. proc'[d] # "free"
  BY DeathIsFinal DEF Due, Alive, AliveStates, Booting, Listening
<1>2. ASSUME asked \subseteq asked', KeepsPlace(d)
      PROVE Gone(d)' \/ (Due(d)' /\ PlacesLeft(d)' <= PlacesLeft(d))
  <2>1. CASE ~Alive(d)'
    BY <1>1, <2>1 DEF Gone
  <2>2. CASE Alive(d)'
    <3>1. proc'[d] = proc[d]
      BY <1>2, <2>2 DEF KeepsPlace, Due
    <3>2. PlacesLeft(d)' = PlacesLeft(d)
      BY <3>1 DEF PlacesLeft
    <3> QED
      BY <1>2, <2>2, <3>1, <3>2, PlacesAreCounted DEF Due
  <2> QED
    BY <2>1, <2>2
<1>3. CASE DaemonSteps(d)
  BY <1>3, DaemonStepCounts, PlacesAreCounted
<1>4. ASSUME NEW x \in Daemons, (x # d /\ DaemonSteps(x)) \/ ReadRequest(x)
      PROVE asked \subseteq asked' /\ KeepsPlace(d)
  BY <1>4, DaemonLeaves, RequestLeaves DEF KeepsPlace, requests
<1>5. ASSUME NEW c \in Sessions, Session(c) PROVE asked \subseteq asked' /\ KeepsPlace(d)
  BY <1>5, SessionLeaves DEF Leaves
<1>6. ASSUME Environment PROVE asked \subseteq asked' /\ KeepsPlace(d)
  BY <1>6, EnvironmentLeaves
<1>7. ASSUME UNCHANGED vars PROVE asked \subseteq asked' /\ KeepsPlace(d)
  BY <1>7 DEF vars, daemonVars, requests, KeepsPlace
<1> QED
  BY <1>2, <1>3, <1>4, <1>5, <1>6, <1>7 DEF Next

LEMMA DaemonsGoOn == ASSUME NEW d \in Daemons PROVE FairSpec => DaemonGoesOn(d)
  BY DEF FairSpec, Fairness

LEMMA DaemonApproaches ==
  ASSUME NEW d \in Daemons, NEW m \in Nat, NEW n \in Nat, m = n + 1
  PROVE FairSpec /\ []NobodyBlocks => Approaches(d, m, n)
<1>1. IInv /\ Ending(d, m) /\ [Next]_vars => Ending(d, m)' \/ Ending(d, n)' \/ Gone(d)'
  BY DaemonNeverGoesBack, PlacesAreCounted DEF Ending
<1>2. IInv /\ Ending(d, m) /\ <<DaemonSteps(d)>>_vars => Ending(d, n)' \/ Gone(d)'
  BY DaemonStepCounts, PlacesAreCounted DEF Ending
<1>3. NobodyBlocks /\ Ending(d, m) => ENABLED <<DaemonSteps(d)>>_vars
  <2>1. Ending(d, m) => OnItsWay(d)
    BY DEF Ending, Due, OnItsWay
  <2> QED
    BY <2>1 DEF NobodyBlocks
<1> QED
  BY <1>1, <1>2, <1>3, AllHolds, DaemonsGoOn, PTL DEF DaemonGoesOn, Approaches

LEMMA DueDaemonEnds ==
  ASSUME NEW d \in Daemons PROVE FairSpec /\ []NobodyBlocks => (Due(d) ~> Gone(d))
<1>1. FairSpec /\ []NobodyBlocks =>
        /\ Approaches(d, 7, 6) /\ Approaches(d, 6, 5) /\ Approaches(d, 5, 4)
        /\ Approaches(d, 4, 3) /\ Approaches(d, 3, 2) /\ Approaches(d, 2, 1)
        /\ Approaches(d, 1, 0)
  BY DaemonApproaches
<1>2. Due(d) => Ending(d, 7)
  BY PlacesAreCounted DEF Ending
<1>3. ~Ending(d, 0)
  BY PlacesAreCounted DEF Ending
<1> QED
  BY <1>1, <1>2, <1>3, PTL DEF Approaches

\* No step but a handler's takes a request out of a socket.
LEMMA SessionSends ==
  ASSUME IInv, NEW c \in Sessions, Session(c) PROVE unread \subseteq unread'
<1> USE DEF daemonVars, requests
<1>1. \A p : Kill(p) => unread' = unread
  BY DEF Kill
<1>2. \A p : Terminate(p) => unread' = unread
  BY <1>1 DEF Terminate
<1>3. StartSteps(c) => unread' = unread
  BY <1>1 DEF StartSteps, Spawn, SpawnFails, Record, RecordFails, Ready, NotReady, KillRecorded
<1>4. StopSteps(c) => unread' = unread
  BY <1>1, <1>2
  DEF StopSteps, ReadClosed, ReadByte, ReadDeadline, StopStatus, StopTerm, StopReap, StopKill
<1>5. Unrecord(c) \/ UnlinkSocket(c) \/ StartCheck(c) \/ StopNoSocket(c) => unread' = unread
  BY DEF Unrecord, UnlinkSocket, StartCheck, StopNoSocket
<1>6. StopDial(c) => unread \subseteq unread'
  BY DEF StopDial
<1> QED
  BY <1>3, <1>4, <1>5, <1>6 DEF Session, CommandSteps

LEMMA EnvironmentSends ==
  ASSUME Environment, ~\E d \in Daemons : LoseRequest(d) PROVE unread' = unread
<1> USE DEF requests
<1>1. \A p : Kill(p) => unread' = unread
  BY DEF Kill
<1> QED
  BY <1>1
  DEF Environment, ConnectForeground, InterruptForeground, Terminate, DaemonKilled, RecyclePid,
      ShimExits, InterruptCommand, Unowned

\* From its accept loop on a daemon does not go back behind it.
LEMMA NeverBound ==
  ASSUME IInv, NEW d \in Daemons, DaemonSteps(d), proc[d] \in Listening
  PROVE proc'[d] # "bound"
BY DeadIsDead
DEF IInv, TypeOK, Listening, DaemonSteps, BootFails, StartShim, RemoveStale, Listen, ListenFails,
    Serve, Shutdown, ShimDone, ForceKillShim, Exit

\* A request in the socket of a daemon that is booting, and of one that has a
\* handler to read it.
Unheard(d) == Alive(d) /\ d \in unread /\ proc[d] = "bound"
Heard(d) == Alive(d) /\ d \in unread /\ proc[d] # "bound"
Settled(d) == Gone(d) \/ d \in lost \/ (Alive(d) /\ d \in asked)

LEMMA RequestStays ==
  ASSUME IInv, [Next]_vars, NEW d \in Daemons, Alive(d), d \in unread
  PROVE /\ Settled(d)' \/ (Alive(d)' /\ (d \in unread)')
        /\ Gone(d)' \/ proc'[d] = proc[d] \/ DaemonSteps(d)
<1> USE DEF Settled
<1>1. IInv' /\ proc[d] # "free" /\ proc'[d] # "free"
  BY StepInv, DeathIsFinal DEF Alive, AliveStates, Booting, Listening
<1>2. ~Alive(d)' => Gone(d)'
  BY <1>1 DEF Gone
<1>3. CASE UNCHANGED vars
  BY <1>3 DEF vars, daemonVars, requests, Alive
<1>4. ASSUME NEW c \in Sessions, Session(c) PROVE unread \subseteq unread' /\ KeepsPlace(d)
  BY <1>4, SessionLeaves, SessionSends DEF Leaves
<1>5. ASSUME NEW x \in Daemons, DaemonSteps(x)
      PROVE unread \subseteq unread' /\ (x # d => KeepsPlace(d))
  BY <1>5, DaemonLeaves DEF requests
<1>6. ASSUME NEW x \in Daemons, ReadRequest(x) \/ LoseRequest(x)
      PROVE proc' = proc /\ (d \in unread' \/ d \in lost' \/ d \in asked')
  BY <1>6 DEF ReadRequest, LoseRequest
<1>7. ASSUME Environment, ~\E x \in Daemons : LoseRequest(x)
      PROVE unread \subseteq unread' /\ KeepsPlace(d)
  BY <1>7, EnvironmentLeaves, EnvironmentSends
<1>8. CASE \E x \in Daemons : ReadRequest(x) \/ LoseRequest(x)
  BY <1>8, <1>6 DEF Alive
<1> QED
  BY <1>2, <1>3, <1>4, <1>5, <1>7, <1>8 DEF Next, KeepsPlace

\* What becomes of a request on a socket: while the daemon boots it waits, and the
\* handler reads it unless the connection is closed first.
LEMMA RequestSettles ==
  ASSUME NEW d \in Daemons
  PROVE FairSpec /\ []NobodyBlocks /\ []GuardsEnable =>
          (Alive(d) /\ d \in unread ~> Settled(d))
<1>1. IInv /\ Unheard(d) /\ [Next]_vars => Unheard(d)' \/ Heard(d)' \/ Settled(d)'
  BY RequestStays DEF Unheard, Heard
<1>2. IInv /\ Unheard(d) /\ [Next]_vars /\ <<DaemonSteps(d)>>_vars => Heard(d)' \/ Settled(d)'
  <2> SUFFICES ASSUME IInv, Unheard(d), [Next]_vars, DaemonSteps(d) PROVE Heard(d)' \/ Settled(d)'
    OBVIOUS
  <2>1. proc'[d] # "bound"
    BY NeverBound DEF Unheard, Listening
  <2> QED
    BY <2>1, RequestStays DEF Unheard, Heard
<1>3. IInv /\ GuardsEnable /\ Unheard(d) => ENABLED <<DaemonSteps(d)>>_vars
  BY DEF GuardsEnable, Unheard, DaemonReady, Booting
<1>4. IInv /\ Heard(d) /\ [Next]_vars => Heard(d)' \/ Settled(d)'
  <2> SUFFICES ASSUME IInv, Heard(d), [Next]_vars PROVE Heard(d)' \/ Settled(d)'
    OBVIOUS
  <2>1. proc[d] \in Listening
    BY DEF Heard, IInv, Told, ToldHaveListened, Alive, AliveStates, Booting, Listening
  <2> QED
    BY <2>1, RequestStays, NeverBound DEF Heard, Settled
<1>5. IInv /\ Heard(d) /\ [Next]_vars /\ <<ReadRequest(d)>>_vars => Settled(d)'
  BY DEF ReadRequest, Heard, Settled, Alive
<1>6. IInv /\ GuardsEnable /\ Heard(d) => ENABLED <<ReadRequest(d)>>_vars
  BY DEF GuardsEnable, Heard, HandlerReady, Answering, IInv, Told, ToldHaveListened, Alive, AliveStates,
    Booting, Listening
<1>7. FairSpec => DaemonGoesOn(d) /\ HandlerGoesOn(d)
  BY DEF FairSpec, Fairness
<1>8. Alive(d) /\ d \in unread => Unheard(d) \/ Heard(d)
  BY DEF Unheard, Heard
<1> QED
  BY <1>1, <1>2, <1>3, <1>4, <1>5, <1>6, <1>7, <1>8, AllHolds, PTL DEF DaemonGoesOn, HandlerGoesOn

\* AskedDaemonExits: a SIGTERM in sigCh is never forgotten and never waits for
\* good, and nor is a request on a socket whose connection stays open.
THEOREM AskedDaemonsExit == FairSpec /\ []GuardsEnable => AskedDaemonExits
<1>1. ASSUME NEW d \in Daemons
      PROVE FairSpec /\ []NobodyBlocks /\ []GuardsEnable =>
              /\ (Alive(d) /\ d \in asked ~> ~Alive(d))
              /\ (Alive(d) /\ d \in unread ~> ~Alive(d) \/ d \in lost)
  <2>1. Alive(d) /\ d \in asked => Due(d)
    BY DEF Due
  <2>2. Gone(d) => ~Alive(d)
    BY DEF Gone
  <2>3. Settled(d) => Gone(d) \/ d \in lost \/ (Alive(d) /\ d \in asked)
    BY DEF Settled
  <2> QED
    BY <2>1, <2>2, <2>3, DueDaemonEnds, RequestSettles, PTL
<1>2. FairSpec /\ []NobodyBlocks /\ []GuardsEnable => AskedDaemonExits
  BY <1>1 DEF AskedDaemonExits
<1> QED
  BY <1>2, NobodyEverBlocks, PTL DEF FairSpec

\* LifeSpec: the refinement with its liveness, a daemon that drains ends.
THEOREM ImplementsLifeSpec == FairSpec /\ []GuardsEnable => LifeSpec
<1>1. ASSUME NEW d \in Daemons PROVE FairSpec /\ []NobodyBlocks => Life!DrainEnds(d)
  <2>1. Life!Draining(d) => Due(d)
    BY DEF Life!Draining, PhaseOf, Due, Alive, AliveStates, Listening
  <2>2. Gone(d) => Life!Over(d)
    BY DEF Life!Over, PhaseOf, Gone, Alive, AliveStates, Listening
  <2> QED
    BY <2>1, <2>2, DueDaemonEnds, PTL DEF Life!DrainEnds
<1>2. FairSpec /\ []NobodyBlocks => \A d \in Daemons : Life!DrainEnds(d)
  BY <1>1
<1>3. FairSpec => Life!LifeSafety
  BY ImplementsDaemonLife, PTL DEF FairSpec, LifeSafety
<1>4. FairSpec /\ []NobodyBlocks => LifeSpec
  BY <1>2, <1>3 DEF LifeSpec, Life!LifeSpec
<1> QED
  BY <1>4, NobodyEverBlocks, PTL DEF FairSpec

=============================================================================
