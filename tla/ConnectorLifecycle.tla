------------------------- MODULE ConnectorLifecycle -------------------------
(***************************************************************************)
(* The life of ONE connector: the c2c commands that start, query and stop  *)
(* it (internal/executor/daemon.go), the daemon processes those commands   *)
(* spawn (runDaemon in cmd/daemon.go), the shim each daemon runs, and the  *)
(* two files they meet at: the PID file and the Unix socket file.          *)
(*                                                                         *)
(* A session is whoever issues commands one after the other: a shell, in   *)
(* which every command is a process of its own, or a `c2c mcp serve`       *)
(* process, which runs StartConnector and StopConnector inside itself and  *)
(* stays alive between them.  Two sessions interleave freely.              *)
(***************************************************************************)
EXTENDS Naturals

CONSTANTS
  Sessions,    \* who issues commands
  LongLived,   \* the sessions that are one `c2c mcp serve` process
  Daemons,     \* the pool of PIDs daemons get; bounds the number of starts
  None,        \* no file, no daemon
  Foreground,  \* may `c2c connect -f` also run the connector?
  Recycling,   \* may the kernel give a dead daemon's PID to another program?
  MaxFaults    \* bound on commands interrupted and daemons killed from outside

ASSUME ConstantsAssumption ==
  /\ LongLived \subseteq Sessions
  /\ None \notin Daemons \cup Sessions
  /\ Foreground \in BOOLEAN /\ Recycling \in BOOLEAN
  /\ MaxFaults \in Nat

VARIABLES
  pidFile,   \* the PID in pids/<name>.pid (and in pids/<name>.json), or None
  sockFile,  \* the daemon whose listening socket sockets/<name>.sock is, or None
  proc,      \* the state of the process with each PID
  shim,      \* the plugin of each daemon: the process runDaemon started for it is
             \* the runner (tsx), whose child the plugin is; "up" while the runner
             \* runs, "left" when the runner alone is gone, "done" when both are
  parent,    \* the session whose process spawned the daemon, or None
  asked,     \* daemons with a shutdown request in sigCh
  unread,    \* daemons with a shutdown request in a socket, not yet read
  lost,      \* daemons that closed a connection with a shutdown request unread
  killed,    \* daemons a signal ended before they could clean up
  pc,        \* where each session is in StartConnector or StopConnector
  own,       \* the daemon the session's last start spawned
  peer,      \* the daemon the session's last stop is aimed at
  faults     \* faults so far

files == <<pidFile, sockFile>>
requests == <<asked, unread, lost>>
daemonVars == <<proc, shim, parent, requests, killed>>
sessionVars == <<pc, own, peer>>
vars == <<files, daemonVars, sessionVars, faults>>

-----------------------------------------------------------------------------
(* Processes. The states from "boot" to "closing" are the places of        *)
(* runDaemon another process can tell apart.                               *)

Booting   == {"boot", "shimUp", "unlinked", "bound"} \* before signal.Notify
Listening == {"bound", "serving", "stopping", "closing"}
Answering == {"serving", "stopping", "closing"}      \* the accept loop runs
AliveStates == Booting \cup Listening
ProcStates == AliveStates \cup {"free", "zombie", "gone", "foreign"}

Alive(d) == proc[d] \in AliveStates

\* The daemons that have been sent a shutdown request, whatever became of it.
Told == asked \cup unread \cup lost

\* isProcessRunning: signal 0 succeeds for a zombie, and for any program that
\* has been given the PID since.
Running(p) == Alive(p) \/ proc[p] \in {"zombie", "foreign"}

\* What GetConnectorStatus concludes from the PID file.
RecordedRunning == pidFile # None /\ Running(pidFile)

\* Whether net.Dial on the socket path connects to anybody.
Dialable == sockFile # None /\ proc[sockFile] \in Listening

\* Outcomes of the last command; a session there may issue the next one.
Outcomes == {"idle", "refused", "started", "failed",
             "stopped", "notRunning", "stopFailed", "interrupted"}
InStart == {"record", "poll", "kill", "failUnrecord", "failUnlink"}
InStop  == {"wait", "fallback", "term", "reap", "unrecord", "unlink",
            "nrUnrecord", "nrUnlink"}
PcStates == Outcomes \cup {"spawn"} \cup InStart \cup InStop

Resting(c) == pc[c] \in Outcomes

\* Whether the process that spawned d still runs, so that d, once dead, stays
\* a zombie: nobody calls Wait after cmd.Process.Release.
ParentAlive(d) ==
  \E c \in Sessions : /\ parent[d] = c
                      /\ c \in LongLived \/ (pc[c] \in InStart /\ own[c] = d)

Dead(d) == IF ParentAlive(d) THEN "zombie" ELSE "gone"

\* What becomes of the processes when session c's command is over: the zombie
\* a shell command leaves behind goes to init, which reaps it.
Reaped(c) ==
  IF c \notin LongLived /\ own[c] # None /\ pc[c] \in InStart /\ proc[own[c]] = "zombie"
  THEN [proc EXCEPT ![own[c]] = "gone"] ELSE proc

\* SIGKILL to whatever has PID p now; a plugin is not told.
Kill(p) ==
  /\ proc' = IF Alive(p) THEN [proc EXCEPT ![p] = Dead(p)]
             ELSE IF proc[p] = "foreign" THEN [proc EXCEPT ![p] = "gone"] ELSE proc
  /\ killed' = IF Alive(p) THEN killed \cup {p} ELSE killed
  /\ UNCHANGED <<requests, shim>>

\* WRONG: a SIGTERM that arrives before signal.Notify is lost.
TerminateLosesEarly(p) ==
  /\ asked' = IF proc[p] \in Answering THEN asked \cup {p} ELSE asked
  /\ UNCHANGED <<proc, killed, shim, unread, lost>>

\* SIGTERM to whatever has PID p now: sigCh after signal.Notify, death before.
Terminate(p) ==
  \/ /\ proc[p] \notin Answering
     /\ Kill(p)
  \/ /\ proc[p] \in Answering
     /\ asked' = asked \cup {p}
     /\ UNCHANGED <<proc, killed, shim, unread, lost>>

-----------------------------------------------------------------------------
Init ==
  /\ pidFile = None /\ sockFile = None
  /\ proc = [d \in Daemons |-> "free"]
  /\ shim = [d \in Daemons |-> "none"]
  /\ parent = [d \in Daemons |-> None]
  /\ asked = {} /\ unread = {} /\ lost = {} /\ killed = {}
  /\ pc = [c \in Sessions |-> "idle"]
  /\ own = [c \in Sessions |-> None]
  /\ peer = [c \in Sessions |-> None]
  /\ faults = 0

Goto(c, l) == pc' = [pc EXCEPT ![c] = l]

\* The command returns: its process ends, unless the session is long-lived.
Return(c, outcome) == Goto(c, outcome) /\ proc' = Reaped(c)

-----------------------------------------------------------------------------
(* Wrong versions of steps below. No specification uses them: each is what *)
(* one property has to tell from the real step.                            *)

\* No "already running" check.
StartWithoutCheck(c) ==
  /\ Resting(c)
  /\ Goto(c, "refused") \/ Goto(c, "spawn")
  /\ own' = [own EXCEPT ![c] = None]
  /\ peer' = [peer EXCEPT ![c] = None]
  /\ UNCHANGED <<files, daemonVars, faults>>

\* os.Getpid() instead of the child's PID.
RecordOwnPid(c) ==
  /\ pc[c] = "record"
  /\ pidFile' = c
  /\ Goto(c, "poll")
  /\ UNCHANGED <<sockFile, daemonVars, own, peer, faults>>

\* Every retry moves the deadline.
NotReadyRetries(c) ==
  /\ pc[c] = "poll"
  /\ Goto(c, "poll")
  /\ UNCHANGED <<files, daemonVars, own, peer, faults>>

\* Only the files are cleaned up.
KillForgotten(c) ==
  /\ pc[c] = "kill"
  /\ Goto(c, "failUnrecord")
  /\ UNCHANGED <<files, daemonVars, own, peer, faults>>

\* No socket is taken to mean no daemon.
StopTrustsSocket(c) ==
  /\ pc[c] = "fallback"
  /\ Goto(c, "nrUnrecord")
  /\ UNCHANGED <<files, daemonVars, own, peer, faults>>

\* An early return past the Kill.
ListenFailsOrphaning(d) ==
  /\ proc[d] = "unlinked"
  /\ proc' = [proc EXCEPT ![d] = Dead(d)]
  /\ UNCHANGED <<files, shim, parent, requests, killed, sessionVars, faults>>

\* Nobody listens to doneCh after SIGTERM.
ShimDoneOnlyServing(d) ==
  /\ proc[d] = "serving"
  /\ shim[d] = "done"
  /\ proc' = [proc EXCEPT ![d] = "closing"]
  /\ UNCHANGED <<files, shim, parent, requests, killed, sessionVars, faults>>

\* The timeout returns instead of killing the shim.
TimeoutWithoutKill(d) ==
  /\ proc[d] = "stopping" /\ shim[d] = "up"
  /\ proc' = [proc EXCEPT ![d] = "closing"]
  /\ UNCHANGED <<files, shim, parent, requests, killed, sessionVars, faults>>

\* No timeout: a child that does not die is waited for.
WaitsForChild(c) ==
  /\ pc[c] = "reap"
  /\ UNCHANGED vars

\* No timeout: a shim that ignores SIGTERM is waited for.
NoForceKill(d) ==
  /\ proc[d] = "stopping" /\ shim[d] = "up"
  /\ UNCHANGED vars

\* SetUnlinkOnClose(false).
ExitKeepsSocket(d) ==
  /\ proc[d] = "closing"
  /\ proc' = [proc EXCEPT ![d] = Dead(d)]
  /\ UNCHANGED <<files, shim, parent, requests, killed, sessionVars, faults>>

-----------------------------------------------------------------------------
(* StartConnector                                                          *)

\* CheckPermissions and the PID-file check. The file is only read here; the
\* daemon is recorded several steps later.
StartCheck(c) ==
  /\ Resting(c)
  /\ \/ Goto(c, "refused")  \* permissions, storage or log directory, or running
     \/ /\ ~RecordedRunning
        /\ Goto(c, "spawn")
  /\ own' = [own EXCEPT ![c] = None]
  /\ peer' = [peer EXCEPT ![c] = None]
  /\ UNCHANGED <<files, daemonVars, faults>>

\* cmd.Start of `c2c _daemon <name>`.
Spawn(c) ==
  /\ pc[c] = "spawn"
  /\ \E d \in Daemons :
       /\ proc[d] = "free"
       /\ proc' = [proc EXCEPT ![d] = "boot"]
       /\ parent' = [parent EXCEPT ![d] = c]
       /\ own' = [own EXCEPT ![c] = d]
  /\ Goto(c, "record")
  /\ UNCHANGED <<files, shim, requests, killed, peer, faults>>

SpawnFails(c) ==
  /\ pc[c] = "spawn"
  /\ Goto(c, "refused")
  /\ UNCHANGED <<files, daemonVars, own, peer, faults>>

\* Both files are written, then cmd.Process.Release.
Record(c) ==
  /\ pc[c] = "record"
  /\ pidFile' = own[c]
  /\ Goto(c, "poll")
  /\ UNCHANGED <<sockFile, daemonVars, own, peer, faults>>

\* The cleanup closure: a file could not be written, so kill, Wait, clean up.
RecordFails(c) ==
  /\ pc[c] = "record"
  /\ proc' = [proc EXCEPT ![own[c]] = "gone"]
  /\ killed' = IF Alive(own[c]) THEN killed \cup {own[c]} ELSE killed
  /\ Goto(c, "failUnrecord")
  /\ UNCHANGED <<files, shim, parent, requests, own, peer, faults>>

\* waitForReady: whichever daemon the socket file leads to answers the ping.
Ready(c) ==
  /\ pc[c] = "poll"
  /\ sockFile # None
  /\ proc[sockFile] \in Answering
  /\ Return(c, "started")
  /\ UNCHANGED <<files, shim, parent, requests, killed, own, peer, faults>>

\* waitForReady: ten seconds without a pong. The registry queries runDaemon
\* makes before it listens can take longer than that.
NotReady(c) ==
  /\ pc[c] = "poll"
  /\ Goto(c, "kill")
  /\ UNCHANGED <<files, daemonVars, own, peer, faults>>

\* The PID file is read again and the process it names now gets SIGKILL.
KillRecorded(c) ==
  /\ pc[c] = "kill"
  /\ IF pidFile # None THEN Kill(pidFile) ELSE UNCHANGED <<proc, shim, requests, killed>>
  /\ Goto(c, "failUnrecord")
  /\ UNCHANGED <<files, parent, own, peer, faults>>

\* cleanupConnectorFiles, the PID and metadata files and then the socket, as
\* called by StartConnector and by both ways StopConnector ends.
Unrecord(c) ==
  /\ \E l \in {<<"failUnrecord", "failUnlink">>, <<"unrecord", "unlink">>,
               <<"nrUnrecord", "nrUnlink">>} :
       pc[c] = l[1] /\ Goto(c, l[2])
  /\ pidFile' = None
  /\ UNCHANGED <<sockFile, daemonVars, own, peer, faults>>

UnlinkSocket(c) ==
  /\ \E l \in {<<"failUnlink", "failed">>, <<"unlink", "stopped">>,
               <<"nrUnlink", "notRunning">>} :
       pc[c] = l[1] /\ Return(c, l[2])
  /\ sockFile' = None
  /\ UNCHANGED <<pidFile, shim, parent, requests, killed, own, peer, faults>>

-----------------------------------------------------------------------------
(* StopConnector                                                           *)

\* The socket answers: send the shutdown command, which waits in the socket for
\* the daemon to read it, and read one byte.
StopDial(c) ==
  /\ Resting(c)
  /\ Dialable
  /\ unread' = unread \cup {sockFile}
  /\ own' = [own EXCEPT ![c] = None]
  /\ peer' = [peer EXCEPT ![c] = sockFile]
  /\ Goto(c, "wait")
  /\ UNCHANGED <<files, proc, shim, parent, asked, lost, killed, faults>>

\* The read ends because the daemon closed the connection,
ReadClosed(c) ==
  /\ pc[c] = "wait"
  /\ proc[peer[c]] \notin AliveStates \ {"closing"}
  /\ Goto(c, "unrecord")
  /\ UNCHANGED <<files, daemonVars, own, peer, faults>>

\* because of one byte of anything the daemon broadcasts,
ReadByte(c) ==
  /\ pc[c] = "wait"
  /\ proc[peer[c]] \in Answering
  /\ shim[peer[c]] # "none"
  /\ Goto(c, "unrecord")
  /\ UNCHANGED <<files, daemonVars, own, peer, faults>>

\* or after seven seconds; the daemon gives its shim nine.
ReadDeadline(c) ==
  /\ pc[c] = "wait"
  /\ Goto(c, "unrecord")
  /\ UNCHANGED <<files, daemonVars, own, peer, faults>>

\* No socket file, or nobody listens on it: fall back to the PID file.
StopNoSocket(c) ==
  /\ Resting(c)
  /\ ~Dialable
  /\ Goto(c, "fallback")
  /\ own' = [own EXCEPT ![c] = None]
  /\ peer' = [peer EXCEPT ![c] = None]
  /\ UNCHANGED <<files, daemonVars, faults>>

StopStatus(c) ==
  /\ pc[c] = "fallback"
  /\ \/ pidFile = None /\ Goto(c, "notRunning") /\ UNCHANGED peer
     \/ pidFile # None /\ ~RecordedRunning /\ Goto(c, "nrUnrecord") /\ UNCHANGED peer
     \/ /\ RecordedRunning
        /\ peer' = [peer EXCEPT ![c] = pidFile]
        /\ Goto(c, "term")
  /\ UNCHANGED <<files, daemonVars, own, faults>>

\* SIGTERM, unless the process has gone since its status was read.
StopTerm(c) ==
  /\ pc[c] = "term"
  /\ \/ /\ ~Running(peer[c])
        /\ Goto(c, "stopFailed")
        /\ UNCHANGED <<proc, shim, requests, killed>>
     \/ /\ Running(peer[c])
        /\ Terminate(peer[c])
        /\ Goto(c, "reap")
  /\ UNCHANGED <<files, parent, own, peer, faults>>

IsChild(c, p) == c \in LongLived /\ parent[p] = c

\* process.Wait: a real wait for a child; for anyone else's process it fails
\* with ECHILD, the error is ignored and done is closed at once.
StopReap(c) ==
  /\ pc[c] = "reap"
  /\ IF IsChild(c, peer[c])
     THEN /\ proc[peer[c]] \in {"zombie", "gone"}
          /\ proc' = [proc EXCEPT ![peer[c]] = "gone"]
     ELSE UNCHANGED proc
  /\ Goto(c, "unrecord")
  /\ UNCHANGED <<files, shim, parent, requests, killed, own, peer, faults>>

\* Five seconds without the child's death.
StopKill(c) ==
  /\ pc[c] = "reap"
  /\ IsChild(c, peer[c]) /\ Alive(peer[c])
  /\ Kill(peer[c])
  /\ UNCHANGED <<files, parent, sessionVars, faults>>

-----------------------------------------------------------------------------
(* runDaemon                                                               *)

Unowned == UNCHANGED <<parent, sessionVars, faults>>

\* Manifest, checksum, store, pipes or pluginCmd.Start failed.
BootFails(d) ==
  /\ proc[d] = "boot"
  /\ proc' = [proc EXCEPT ![d] = Dead(d)]
  /\ Unowned /\ UNCHANGED <<files, shim, requests, killed>>

StartShim(d) ==
  /\ proc[d] = "boot"
  /\ proc' = [proc EXCEPT ![d] = "shimUp"]
  /\ shim' = [shim EXCEPT ![d] = "up"]
  /\ Unowned /\ UNCHANGED <<files, requests, killed>>

\* os.Remove(socketPath), whoever's socket it is.
RemoveStale(d) ==
  /\ proc[d] = "shimUp"
  /\ sockFile' = None
  /\ proc' = [proc EXCEPT ![d] = "unlinked"]
  /\ Unowned /\ UNCHANGED <<pidFile, shim, requests, killed>>

\* net.Listen fails if another daemon has bound the path since.
Listen(d) ==
  /\ proc[d] = "unlinked"
  /\ sockFile = None
  /\ sockFile' = d
  /\ proc' = [proc EXCEPT ![d] = "bound"]
  /\ Unowned /\ UNCHANGED <<pidFile, shim, requests, killed>>

\* pluginCmd.Process.Kill: SIGKILL to the runner, which cannot pass it on. The
\* plugin runs on, unless ResolveTsx found no tsx and the runner is node itself.
KillRunner(d) ==
  \E rest \in {"left", "done"} : shim' = [shim EXCEPT ![d] = rest]

ListenFails(d) ==
  /\ proc[d] = "unlinked"
  /\ proc' = [proc EXCEPT ![d] = Dead(d)]
  /\ IF shim[d] = "up" THEN KillRunner(d) ELSE UNCHANGED shim
  /\ Unowned /\ UNCHANGED <<files, requests, killed>>

\* signal.Notify and the accept loop: from here on requests are handled.
Serve(d) ==
  /\ proc[d] = "bound"
  /\ proc' = [proc EXCEPT ![d] = "serving"]
  /\ Unowned /\ UNCHANGED <<files, shim, requests, killed>>

\* The client handler reads the shutdown line and puts a SIGTERM in sigCh.
ReadRequest(d) ==
  /\ proc[d] \in Answering
  /\ d \in unread
  /\ unread' = unread \ {d}
  /\ asked' = asked \cup {d}
  /\ Unowned /\ UNCHANGED <<files, proc, shim, lost, killed>>

\* A broadcast comes first: the stop command has closed its end (one byte of
\* anything, a deadline or Ctrl-C made it return), so the write fails and the
\* connection is closed with the shutdown line in it.
LoseRequest(d) ==
  /\ proc[d] \in Answering
  /\ d \in unread
  /\ \A c \in Sessions : ~(pc[c] = "wait" /\ peer[c] = d)
  /\ unread' = unread \ {d}
  /\ lost' = lost \cup {d}
  /\ Unowned /\ UNCHANGED <<files, proc, shim, asked, killed>>

\* The main select takes a signal or shutdown command: SIGTERM to the runner,
\* which relays it to the plugin.
Shutdown(d) ==
  /\ proc[d] = "serving"
  /\ d \in asked
  /\ proc' = [proc EXCEPT ![d] = "stopping"]
  /\ Unowned /\ UNCHANGED <<files, shim, requests, killed>>

\* The plugin ends: of itself, on SIGTERM, or in a crash; its runner with it.
ShimExits(d) ==
  /\ shim[d] \in {"up", "left"}
  /\ shim' = [shim EXCEPT ![d] = "done"]
  /\ Unowned /\ UNCHANGED <<files, proc, requests, killed>>

\* <-doneCh, in the main select or after SIGTERM. A shim that failed makes
\* runDaemon return at once; the deferred Close runs either way.
ShimDone(d) ==
  /\ proc[d] \in {"serving", "stopping"}
  /\ shim[d] = "done"
  /\ proc' = [proc EXCEPT ![d] = "closing"]
  /\ Unowned /\ UNCHANGED <<files, shim, requests, killed>>

\* shimShutdownTimeout.
ForceKillShim(d) ==
  /\ proc[d] = "stopping"
  /\ shim[d] = "up"
  /\ KillRunner(d)
  /\ proc' = [proc EXCEPT ![d] = "closing"]
  /\ Unowned /\ UNCHANGED <<files, requests, killed>>

\* runDaemon returns: listener.Close unlinks the path it was bound to (Go's
\* default for a Unix listener), whoever's socket is there now.
Exit(d) ==
  /\ proc[d] = "closing"
  /\ sockFile' = None
  /\ proc' = [proc EXCEPT ![d] = Dead(d)]
  /\ Unowned /\ UNCHANGED <<pidFile, shim, requests, killed>>

-----------------------------------------------------------------------------
(* The environment                                                         *)

\* `c2c connect -f`: runDaemon in the terminal's process, and no PID file.
ConnectForeground ==
  /\ Foreground
  /\ \E d \in Daemons : /\ proc[d] = "free"
                        /\ proc' = [proc EXCEPT ![d] = "boot"]
  /\ UNCHANGED <<files, shim, parent, requests, killed, sessionVars, faults>>

\* Ctrl-C in that terminal.
InterruptForeground(d) ==
  /\ Foreground
  /\ Alive(d) /\ parent[d] = None
  /\ Terminate(d)
  /\ UNCHANGED <<files, parent, sessionVars, faults>>

\* Ctrl-C in a shell while a command runs: no command handles the signal.
InterruptCommand(c) ==
  /\ faults < MaxFaults
  /\ c \notin LongLived /\ ~Resting(c)
  /\ Return(c, "interrupted")
  /\ faults' = faults + 1
  /\ UNCHANGED <<files, shim, parent, requests, killed, own, peer>>

\* A daemon is killed from outside or crashes.
DaemonKilled(d) ==
  /\ faults < MaxFaults
  /\ Alive(d)
  /\ Kill(d)
  /\ faults' = faults + 1
  /\ UNCHANGED <<files, parent, sessionVars>>

\* The kernel gives the PID of a dead daemon to an unrelated program. Only
\* PIDs somebody still remembers matter.
RecyclePid(d) ==
  /\ Recycling
  /\ proc[d] = "gone"
  /\ pidFile = d \/ \E c \in Sessions : peer[c] = d /\ pc[c] \in {"term", "reap"}
  /\ proc' = [proc EXCEPT ![d] = "foreign"]
  /\ UNCHANGED <<files, shim, parent, requests, killed, sessionVars, faults>>

-----------------------------------------------------------------------------
StartSteps(c) ==
  \/ Spawn(c) \/ SpawnFails(c) \/ Record(c) \/ RecordFails(c)
  \/ Ready(c) \/ NotReady(c) \/ KillRecorded(c)

StopSteps(c) ==
  \/ ReadClosed(c) \/ ReadByte(c) \/ ReadDeadline(c)
  \/ StopStatus(c) \/ StopTerm(c) \/ StopReap(c) \/ StopKill(c)

\* The steps of a command under way.
CommandSteps(c) == StartSteps(c) \/ StopSteps(c) \/ Unrecord(c) \/ UnlinkSocket(c)

Session(c) == StartCheck(c) \/ StopDial(c) \/ StopNoSocket(c) \/ CommandSteps(c)

\* The steps of a daemon that nothing outside it has to cause.
DaemonSteps(d) ==
  \/ BootFails(d) \/ StartShim(d) \/ RemoveStale(d) \/ Listen(d) \/ ListenFails(d)
  \/ Serve(d) \/ Shutdown(d) \/ ShimDone(d) \/ ForceKillShim(d) \/ Exit(d)

Environment ==
  \/ ConnectForeground
  \/ \E d \in Daemons :
       \/ InterruptForeground(d) \/ DaemonKilled(d) \/ RecyclePid(d) \/ ShimExits(d)
       \/ LoseRequest(d)
  \/ \E c \in Sessions : InterruptCommand(c)

Next ==
  \/ \E c \in Sessions : Session(c)
  \/ \E d \in Daemons : DaemonSteps(d) \/ ReadRequest(d)
  \/ Environment

Spec == Init /\ [][Next]_vars

\* Every wait of a command has a deadline and every step of a daemon after
\* pluginCmd.Start is bounded (shimShutdownTimeout), so both go on, as does the
\* goroutine that reads a client's connection; nothing makes a user issue a
\* command or a plugin exit of itself.
CommandGoesOn(c) == WF_vars(CommandSteps(c))
DaemonGoesOn(d) == WF_vars(DaemonSteps(d))
HandlerGoesOn(d) == WF_vars(ReadRequest(d))

Fairness ==
  /\ \A c \in Sessions : CommandGoesOn(c)
  /\ \A d \in Daemons : DaemonGoesOn(d)
  /\ \A d \in Daemons : HandlerGoesOn(d)

FairSpec == Spec /\ Fairness

-----------------------------------------------------------------------------
TypeOK ==
  /\ pidFile \in Daemons \cup {None} /\ sockFile \in Daemons \cup {None}
  /\ proc \in [Daemons -> ProcStates]
  /\ shim \in [Daemons -> {"none", "up", "left", "done"}]
  /\ parent \in [Daemons -> Sessions \cup {None}]
  /\ Told \subseteq Daemons /\ killed \subseteq Daemons
  /\ pc \in [Sessions -> PcStates]
  /\ own \in [Sessions -> Daemons \cup {None}]
  /\ peer \in [Sessions -> Daemons \cup {None}]
  /\ faults \in 0..MaxFaults

\* The process runDaemon started for its plugin never outlives a daemon that
\* ended by itself: on every path out it is waited for or killed first, and only
\* a daemon that died of a signal leaves it running. The plugin under it has less
\* to rely on: a daemon on its way out may have left it behind ("left").
NoOrphanRunner ==
  \A d \in Daemons :
    /\ shim[d] = "up" => Alive(d) \/ d \in killed
    /\ shim[d] = "left" => ~Alive(d) \/ proc[d] = "closing"

\* A socket file nobody listens on is the trace of a daemon that was killed; a
\* daemon that ends by itself never leaves its own behind.
StaleSocketOnlyOfKilled ==
  sockFile # None => proc[sockFile] \in Listening \/ sockFile \in killed

\* What a stop has achieved, at each point of it: while it waits, the daemon it
\* is aimed at is dead or will be told; a SIGTERM is delivered, never lost. Once
\* it has stopped waiting, the daemon may also have closed the connection with
\* the request unread, and no other way is there to lose one.
StopIsDelivered ==
  \A c \in Sessions :
    /\ pc[c] \in {"wait", "reap", "unrecord", "unlink", "stopped"} => peer[c] # None
    /\ pc[c] = "wait" => ~Alive(peer[c]) \/ peer[c] \in asked \cup unread
    /\ pc[c] = "reap" => ~Alive(peer[c]) \/ peer[c] \in asked
    /\ pc[c] \in {"unrecord", "unlink", "stopped"} => ~Alive(peer[c]) \/ peer[c] \in Told

\* Why these three hold in every state, in a form each step preserves.
OperandsKnown ==
  \A c \in Sessions :
    /\ pc[c] \in InStart => own[c] \in Daemons /\ proc[own[c]] # "free"
    /\ pc[c] \in {"wait", "term", "reap", "unrecord", "unlink", "stopped"} =>
         peer[c] \in Daemons /\ proc[peer[c]] # "free"

ShimFollowsDaemon ==
  \A d \in Daemons :
    /\ proc[d] \in {"free", "boot"} => shim[d] = "none"
    /\ proc[d] \in {"shimUp", "unlinked", "bound", "serving", "stopping"} =>
         shim[d] \in {"up", "done"}
    /\ proc[d] = "closing" => shim[d] \in {"left", "done"}
    /\ proc[d] \in AliveStates \cup {"free"} => d \notin killed
    /\ ~Alive(d) /\ shim[d] = "up" => d \in killed

FilesNameDaemons ==
  /\ pidFile # None => proc[pidFile] # "free"
  /\ StaleSocketOnlyOfKilled

\* Only a daemon that listens can be sent a request.
ToldHaveListened == \A d \in Told : proc[d] \notin {"free", "boot", "shimUp", "unlinked"}

IInv ==
  TypeOK /\ ToldHaveListened /\ OperandsKnown /\ ShimFollowsDaemon /\ FilesNameDaemons /\ StopIsDelivered

(* What a single session that waits for each command can rely on.          *)

\* Of all daemons at most one has not been sent a stop, and unless its own start
\* is still under way it is the one the PID file names: no sequence of starts,
\* stops, failed starts and slow exits loses track of a daemon.
SoleDaemonIsRecorded ==
  \A d \in Daemons : Alive(d) /\ d \notin Told =>
    pidFile = d \/ \E c \in Sessions :
                     /\ own[c] = d
                     /\ pc[c] \in {"record", "failUnrecord", "failUnlink"}

\* A start that reports failure has left no daemon of its own, no PID file and
\* no socket file behind.
FailedStartLeavesNothing ==
  \A c \in Sessions : pc[c] = "failed" =>
    ~Alive(own[c]) /\ pidFile # own[c] /\ sockFile # own[c]

\* A stop that reports success, or that nothing runs, has overlooked no daemon:
\* every one still alive has been sent a shutdown request, by this stop or an
\* earlier one. It ends unless it closed the connection unread: then it serves
\* on, with neither PID file nor socket file.
NoDaemonIsOverlooked ==
  \A c \in Sessions : pc[c] \in {"stopped", "notRunning"} =>
    \A d \in Daemons : Alive(d) => d \in Told

\* "Clean up stale socket" (cmd/daemon.go): a daemon that starts removes the
\* socket path unseen, yet never one a daemon is listening on: a start waits
\* for the running daemon's stop, and the stop removes its socket first.
OnlyStaleSocketsRemoved ==
  [][\A d \in Daemons : proc[d] = "shimUp" /\ proc'[d] = "unlinked" => ~Dialable]_vars

\* Why a single session can: between its commands every daemon that has not been
\* sent a stop is the one in the PID file, and a socket somebody listens on is
\* such a daemon's.
Fresh(d) == Alive(d) /\ d \notin Told
NoneLeft == {"spawn", "failUnrecord", "failUnlink", "failed", "wait", "reap", "unrecord",
             "unlink", "stopped", "nrUnrecord", "nrUnlink", "notRunning"}

OneSessionInv ==
  \A c \in Sessions :
    /\ pc[c] \in NoneLeft => \A d \in Daemons : ~Fresh(d)
    /\ \A d \in Daemons : Fresh(d) => d = IF pc[c] = "record" THEN own[c] ELSE pidFile
    /\ pc[c] \in {"poll", "kill"} => pidFile = own[c]
    /\ pc[c] = "term" => pidFile = peer[c]
    /\ pc[c] \notin {"wait", "reap", "unrecord", "unlink"} /\ Dialable => sockFile \notin Told
    /\ pc[c] \in {"failUnrecord", "failUnlink", "failed"} => own[c] # None /\ ~Alive(own[c])
    /\ pc[c] \in {"failUnlink", "failed"} => pidFile = None
    /\ pc[c] = "failed" => sockFile = None

(* What must eventually happen.                                            *)

\* Nothing a command or a daemon waits for can be missing for good: whatever
\* the files say and whoever is dead, a command that has not returned can take
\* a step, and so can a daemon, unless it serves and nothing asks it to stop; if
\* what asks it is still in its socket, the handler can, once there is one.
OnItsWay(d) == Alive(d) /\ (proc[d] = "serving" => d \in asked \/ shim[d] = "done")
NobodyBlocks ==
  /\ \A c \in Sessions : ~Resting(c) => ENABLED <<CommandSteps(c)>>_vars
  /\ \A d \in Daemons : OnItsWay(d) => ENABLED <<DaemonSteps(d)>>_vars
  /\ \A d \in Daemons : Alive(d) /\ d \in unread =>
       ENABLED <<DaemonSteps(d)>>_vars \/ ENABLED <<ReadRequest(d)>>_vars

\* The same where in addition the guard of some step holds: all that ENABLED is
\* needed for.
CommandReady(c) ==
  /\ ~Resting(c)
  /\ pc[c] = "reap" /\ IsChild(c, peer[c]) =>
       Alive(peer[c]) \/ proc[peer[c]] \in {"zombie", "gone"}
DaemonReady(d) ==
  \/ proc[d] \in Booting \cup {"closing"}
  \/ proc[d] = "serving" /\ (d \in asked \/ shim[d] = "done")
  \/ proc[d] = "stopping" /\ shim[d] \in {"up", "done"}
HandlerReady(d) == proc[d] \in Answering /\ d \in unread

GuardsEnable ==
  /\ \A c \in Sessions : CommandReady(c) => ENABLED <<CommandSteps(c)>>_vars
  /\ \A d \in Daemons : DaemonReady(d) => ENABLED <<DaemonSteps(d)>>_vars
  /\ \A d \in Daemons : HandlerReady(d) => ENABLED <<ReadRequest(d)>>_vars

\* A server that stops a connector it started itself waits for, and kills, the
\* process it started: the PID is not given away before the server has waited.
WaitsForItsChild ==
  \A c \in Sessions : pc[c] = "reap" /\ IsChild(c, peer[c]) =>
    Alive(peer[c]) \/ proc[peer[c]] = "zombie"

\* Why: a server's child is reaped by the server only, and the PID file does not
\* name it any longer by the time the server looks at that file again.
ChildrenAreKept ==
  /\ \A c \in Sessions :
       /\ pc[c] \in InStart => parent[own[c]] = c
       /\ pc[c] = "record" => proc[own[c]] \notin {"gone", "foreign"} /\ pidFile # own[c]
  /\ \A c \in LongLived, d \in Daemons : parent[d] = c /\ proc[d] \in {"gone", "foreign"} =>
       /\ pidFile = d => pc[c] = "unrecord"
       /\ pc[c] \in {"term", "reap"} => peer[c] # d

\* Every command returns, whatever the daemons and the other commands do.
EveryCommandReturns ==
  \A c \in Sessions : ~Resting(c) ~> Resting(c)

\* A daemon with a shutdown request in sigCh exits, whether or not its plugin
\* obeys SIGTERM; one with a request in its socket does too, or has closed the
\* connection without reading it: no request is simply forgotten.
AskedDaemonExits ==
  \A d \in Daemons :
    /\ Alive(d) /\ d \in asked ~> ~Alive(d)
    /\ Alive(d) /\ d \in unread ~> ~Alive(d) \/ d \in lost

-----------------------------------------------------------------------------
(* The daemon alone, seen from its plugin's side.                          *)

PhaseOf(d) ==
  IF d \in killed THEN "crashed"
  ELSE IF proc[d] = "free" THEN "unborn"
  ELSE IF proc[d] \in {"stopping", "closing"} THEN "draining"
  ELSE IF Alive(d) THEN "running" ELSE "ended"

Life == INSTANCE DaemonLife WITH phase <- [d \in Daemons |-> PhaseOf(d)]

\* However commands, files and signals interleave, each daemon lives the life
\* DaemonLife promises: its runner is started once, and outlived unless the
\* daemon is killed; its plugin is left without a runner only by a kill of it.
LifeSafety == Life!LifeSafety

\* And once it drains it ends.
LifeSpec == Life!LifeSpec

-----------------------------------------------------------------------------
(* What the code or its documents say of the program and the program does  *)
(* not do; each is the subject of a run that finds a counterexample.       *)

\* "A deferred remove here would race with a newly started daemon's socket"
\* (cmd/daemon.go): a daemon that exits removes no socket but its own.
ExitSparesOtherSockets ==
  [][\A d \in Daemons : proc[d] = "closing" /\ ~Alive(d)' /\ killed' = killed =>
       sockFile \in {d, None}]_vars

\* "Daemon started but didn't become ready -- kill it" (StartConnector): of
\* two starts at once, one that fails has killed the daemon it spawned.
FailedStartKillsItsDaemon ==
  \A c \in Sessions : pc[c] = "failed" => ~Alive(own[c])

=============================================================================
