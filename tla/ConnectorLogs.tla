---------------------------- MODULE ConnectorLogs ----------------------------
(***************************************************************************)
(* The daemon log of one connector, composed with ConnectorLifecycle.      *)
(* StartConnector rotates logs/<name>.log between its running check and    *)
(* cmd.Start, in four steps of which none looks at what another process    *)
(* did meanwhile: Stat, Remove, Rename, OpenFile. A daemon keeps the file  *)
(* it was given open, wherever that file is moved.                         *)
(*                                                                         *)
(* A file is known by its name, and by whether it has reached maxLogSize:  *)
(* "main" is <name>.log, "prev" <name>.log.1, "gone" a file with no name.  *)
(***************************************************************************)
EXTENDS ConnectorLifecycle

VARIABLES
  mainLog,   \* how large <name>.log is
  prevLog,   \* how large <name>.log.1 is
  rot,       \* the next step of each session's rotation; "stat" outside one
  logFile,   \* where the file is that a session has opened for its daemon
  output     \* where the file is that each daemon writes, or wrote, to

logVars == <<mainLog, prevLog, rot, logFile, output>>
allVars == <<vars, logVars>>

Sizes == {"absent", "small", "big"}     \* "big": maxLogSize or more
Places == {"none", "main", "prev", "gone"}

LogInit ==
  /\ Init
  /\ mainLog = "absent" /\ prevLog = "absent"
  /\ rot = [c \in Sessions |-> "stat"]
  /\ logFile = [c \in Sessions |-> "none"]
  /\ output = [d \in Daemons |-> "none"]

\* Where a file is once <name>.log.1 is removed, and once <name>.log replaces it.
Unlinked(f) == [x \in DOMAIN f |-> IF f[x] = "prev" THEN "gone" ELSE f[x]]
Renamed(f) == [x \in DOMAIN f |-> IF f[x] = "main" THEN "prev" ELSE Unlinked(f)[x]]

At(c, step) == pc[c] = "spawn" /\ rot[c] = step
Proceed(c, step) == rot' = [rot EXCEPT ![c] = step] /\ UNCHANGED vars

-----------------------------------------------------------------------------
\* WRONG: rotates whatever the size.
StatWithoutSize(c) ==
  /\ At(c, "stat")
  /\ Proceed(c, IF mainLog = "absent" THEN "open" ELSE "remove")
  /\ UNCHANGED <<mainLog, prevLog, logFile, output>>

\* No file, or less than maxLogSize of it: nothing to rotate.
StatLog(c) ==
  /\ At(c, "stat")
  /\ Proceed(c, IF mainLog = "big" THEN "remove" ELSE "open")
  /\ UNCHANGED <<mainLog, prevLog, logFile, output>>

RemovePrevLog(c) ==
  /\ At(c, "remove")
  /\ Proceed(c, "rename")
  /\ prevLog' = "absent"
  /\ logFile' = Unlinked(logFile) /\ output' = Unlinked(output)
  /\ UNCHANGED mainLog

\* A Rename that fails, because another start has renamed the file, is a warning.
RenameLog(c) ==
  /\ At(c, "rename")
  /\ Proceed(c, "open")
  /\ IF mainLog = "absent" THEN UNCHANGED <<mainLog, prevLog, logFile, output>>
     ELSE /\ mainLog' = "absent" /\ prevLog' = mainLog
          /\ logFile' = Renamed(logFile) /\ output' = Renamed(output)

\* O_CREATE|O_APPEND
OpenLog(c) ==
  /\ At(c, "open")
  /\ Proceed(c, "opened")
  /\ mainLog' = IF mainLog = "absent" THEN "small" ELSE mainLog
  /\ logFile' = [logFile EXCEPT ![c] = "main"]
  /\ UNCHANGED <<prevLog, output>>

\* A daemon logs to its stderr, among others every line a client sends that it
\* cannot parse, until its file is that large.
WriteLog(d) ==
  /\ Alive(d)
  /\ \/ output[d] = "main" /\ mainLog' = "big" /\ UNCHANGED prevLog
     \/ output[d] = "prev" /\ prevLog' = "big" /\ UNCHANGED mainLog
  /\ UNCHANGED <<vars, rot, logFile, output>>

\* Every other step of the lifecycle. A spawned daemon inherits the opened file
\* as stdout and stderr; a connector in a terminal writes to the terminal.
LifecycleStep ==
  /\ Next
  /\ \A c \in Sessions : pc[c] = "spawn" =>
       /\ pc'[c] = "record" => rot[c] = "opened"
       /\ pc'[c] = "refused" => rot[c] \in {"open", "opened"}
  /\ rot' = [c \in Sessions |-> IF pc'[c] = "spawn" THEN rot[c] ELSE "stat"]
  /\ logFile' = [c \in Sessions |-> IF pc'[c] = "spawn" THEN logFile[c] ELSE "none"]
  /\ output' = [d \in Daemons |-> IF proc[d] = "free" /\ parent'[d] \in Sessions
                                  THEN logFile[parent'[d]] ELSE output[d]]
  /\ UNCHANGED <<mainLog, prevLog>>

LogNext ==
  \/ \E c \in Sessions : StatLog(c) \/ RemovePrevLog(c) \/ RenameLog(c) \/ OpenLog(c)
  \/ \E d \in Daemons : WriteLog(d)
  \/ LifecycleStep

LogSpec == LogInit /\ [][LogNext]_allVars

-----------------------------------------------------------------------------
LogTypeOK ==
  /\ mainLog \in Sizes /\ prevLog \in Sizes
  /\ rot \in [Sessions -> {"stat", "remove", "rename", "open", "opened"}]
  /\ logFile \in [Sessions -> Places]
  /\ output \in [Daemons -> Places]

\* `c2c logs` opens <name>.log: what it shows is the log of the daemon that
\* runs, for no start and no failed start moves the file a daemon that has not
\* been sent a stop is writing to.
RunningDaemonIsLogged ==
  \A d \in Daemons : Alive(d) /\ d \notin Told => output[d] = "main"

\* "Keeps one previous log as <name>.log.1" (rotateLogIfNeeded): once output has
\* been discarded, a full log of younger output is still there, however many
\* starts fail before or after their rotation.
FullLogIsKept ==
  (\E d \in Daemons : output[d] = "gone") => "big" \in {mainLog, prevLog}

\* Why both hold: a session that rotates has seen no daemon that would still run,
\* and a full log, and nobody else has rotated since.
LogInv ==
  /\ LogTypeOK /\ RunningDaemonIsLogged /\ FullLogIsKept
  /\ \A c \in Sessions :
       /\ logFile[c] = IF rot[c] = "opened" THEN "main" ELSE "none"
       /\ rot[c] \in {"remove", "rename"} => mainLog = "big"
=============================================================================
