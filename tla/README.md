# Claw2cli in TLA+

Claw2cli (`c2c`) runs OpenClaw plugins outside OpenClaw. A *skill* is a program
run once per call; a *connector* is a Node.js plugin kept alive by a background
daemon that relays newline-delimited JSON between the plugin and any number of
clients on a Unix socket. This directory models the parts of it where processes,
files and messages meet, checks the models with TLC and proves the central
facts with TLAPS.

## Inventory

| Component | State it keeps | Operations | Talks to |
|---|---|---|---|
| Connector lifecycle (`internal/executor/daemon.go`, `cmd/daemon.go`, `cmd/connect.go`, `cmd/stop.go`) | PID and metadata files, socket file, daemon and shim processes, `sigCh`, `doneCh` | start, wait for ready, stop by socket or by PID, status, list, attach, `_daemon` | the kernel (signals, wait), the file system, the shim |
| Daemon IPC (`cmd/daemon.go`, `internal/protocol`) | client connections, the stdin mutex, the shim's pipes, write deadlines | accept, ping, shutdown, list_tools, forward, read stdout and stderr, broadcast | clients, shim, registry |
| Tool registry (`internal/registry`) | tools per connector | store, get, delete, get all | daemon, MCP server |
| Plugin SDK shim (`shim/node_modules/@openclaw/plugin-sdk/index.js`, `shim/c2c-shim.js`) | pending requests, registered channel and tools | sendCommand, settle, abort on close, invoke_tool, dispatch reply, allowlists, discovery | daemon (stdin, stdout), the plugin |
| Clients (`cmd/call.go`, `cmd/attach.go`, `cmd/echo.go`, `internal/mcp/dynamic.go`, `internal/mcp/server.go`) | one connection and one outstanding request each | invoke a tool, discover tools, stream, reply | daemon |
| Plugin store (`cmd/install.go`, `cmd/update.go`, `internal/store`, `internal/nodeutil`) | plugin directory, manifest, local npm packages, the tsx runner | install, update, connect-time checks | npm registry, file system |
| Log files (`internal/executor/daemon.go`, `cmd/logs.go`) | `<name>.log`, `<name>.log.1`, who has which open | rotate and open at a start, append, read | connector lifecycle |
| Skill runner (`internal/executor/runner.go`, `cmd/run.go`) | captured output, timeout | run, limit output | the skill's processes and their pipes |
| Shim bootstrap (`shim/c2c-shim.js`, the registering half of the plugin SDK shim) | registered channel and tools, how far `main()` is | load, register, announce, log in, start gateways, wait for shutdown, dispatch a tool | the plugin, the daemon's registry |
| MCP server (`cmd/mcp.go`, `internal/mcp`) | table of tools, handlers | filter, convert, discover, serve, call by name | daemons, MCP client |
| Permissions, environment, sandbox, paths, manifest parsing | none | pure functions and file layout | every other part |

### What is hard

* Two commands, or a command and a slow exit, act on the same two files and
  hold no lock; a daemon's exit happens long after the command that caused it.
* A PID says nothing of identity: zombies answer signal 0, PIDs are reused.
* Every wait has a deadline, the deadlines disagree (7 s to stop, 9 s for the
  shim, 10 s to get ready), and a late event hits whoever is there by then.
* The daemon writes to a pipe under a mutex while it reads another pipe and
  writes to clients that may not read: a cycle of full buffers.
* The process the daemon starts is a wrapper (tsx) with the plugin below it. The
  wrapper relays SIGTERM; a SIGKILL ends the wrapper alone.
* Answers are broadcast and filtered by ID; they race with timeouts, closed
  connections and shutdown.
* Tools are known by name only, at four places (plugin, registry, server table,
  dispatch) that are filled at different times and never compared again.
* A skill's deadline ends one process; its output ends when all of them have.
* Install and update touch manifest, packages and registry one after the other
  and may stop in between.

### What makes each part correct

| Component | Correct when |
|---|---|
| Connector lifecycle | one shell never loses track of a daemon it has not sent a stop; a stop that reports success has been delivered, or lost in the one way the code has for it; the process started for a plugin outlives only a daemon that was killed; every command returns; a daemon that has taken a stop request exits |
| Daemon IPC | forwarded lines are never mixed; a client that is told of a tool finds it in the list; no connection stays in the map without a handler; no cycle of full buffers holds a forward for ever; a shutdown ends the process, and only once its runner has ended |
| Calls and requests | success is reported only of one's own call, served once and with success; every wait, on either side, ends; no goroutine is left behind |
| Plugin store | a connector that verifies a hash runs the source whose hash is on record, and the runtime of that version if npm had named one; an update that stopped half way is not taken for up to date |
| Log files | `c2c logs` shows the connector that runs; output is given up only for a full log of younger output |
| Skill runner | what is reported is what was printed, or an error; the size limit is exact; a run ends, unless a process the skill left holds its output for ever |
| Shim bootstrap | the daemon's registry holds what the plugin had announced, whatever order it registers in |
| MCP server | it comes up whatever the connectors do; it serves and calls nothing the filter keeps out; a call runs what was listed under its name |
| Permissions, environment, paths | pure functions, whose Go and JavaScript versions agree |

## Modules

| Module | Models | Abstract specification | Theorems |
|---|---|---|---|
| `ConnectorLifecycle` | `internal/executor/daemon.go`, `runDaemon`'s start and shutdown, `connect -f` | `DaemonLife` | `ConnectorLifecycle_proofs`, `OneSession_proofs` |
| `ConnectorLogs` | log rotation, composed with `ConnectorLifecycle` | | `ConnectorLogs_proofs` |
| `DaemonIPC` | the serving daemon between its clients and its shim, `internal/registry` | `DaemonLife` | `DaemonIPC_proofs` |
| `ShimRpc` | callers (`internal/mcp`, `cmd/call.go`), consumers (`cmd/echo.go`), the request half of the plugin SDK shim | `RemoteCall` | `ShimRpc_proofs` |
| `ShimBoot` | `main()` of the shim, registration and discovery lines, tool dispatch | | in `ToolServer_proofs` |
| `ToolServer` | `mcp serve`, composed with `ShimBoot` for several connectors | | `ToolServer_proofs` |
| `PluginStore` | `cmd/install.go`, `cmd/update.go`, `internal/store`, `internal/nodeutil`, the checks at the start of `runDaemon` | | `PluginStore_proofs` |
| `SkillRunner` | `internal/executor/runner.go`, `cmd/run.go`, `handleSkill` | | `SkillRunner_proofs` |
| `MCConnectorLifecycle`, `MCConnectorLogs`, `MCDaemonIPC`, `MCShimRpc`, `MCToolServer` | symmetry sets and the values of structured constants | | |

The modules around the daemon cut the same code at different depths.
`ConnectorLifecycle` sees a daemon as a sequence of places other processes can
tell apart and leaves out what it relays. `DaemonIPC` is one daemon after it has
bound its socket, goroutine by goroutine and buffer by buffer, and ends with the
process. `ShimRpc` takes the daemon as a relay that forwards, broadcasts, drops
clients and dies, and follows single calls from end to end. `ToolServer` takes
the relay and its calls as one step that reaches the shim or fails, and follows
tool *names* from a plugin's registration to the client's call. `PluginStore`
decides what `BootFails` or `StartShim` of `ConnectorLifecycle` stands for.

Definitions marked `WRONG` are mutations: each is a plausible mistake in the
definition after it, and is used nowhere else. `PROJECT.json` pairs each with the
property that catches it.

### ConnectorLifecycle

A *session* issues commands one after another. Each command of a shell is a
process of its own; a `c2c mcp serve` session (`LongLived`) runs them inside
itself, so daemons it spawned stay zombies. `pc[c]` is the place in
`StartConnector` or `StopConnector`; every read or write of the PID file, the
socket file or the process table is a step of its own, so that two sessions
interleave between any two of them. `proc[d]` goes from `boot` through `shimUp`
(plugin started), `unlinked` (stale socket removed), `bound` (listening) and
`serving` (`signal.Notify` done) to `stopping` and `closing`. SIGTERM before
`serving` kills, after it fills `sigCh` (`asked`). A dead daemon is a `zombie`,
`gone`, or its PID is `foreign`: given to another program.

A stop over the socket leaves its line in the connection (`unread`). The daemon's
handler reads it (`ReadRequest`), or, when the command has hung up already, a
broadcast that fails closes the connection with the line in it (`LoseRequest`,
`lost`). `shim[d]` is the plugin with the runner it was started by: `up`, `done`, or
`left` when its runner was killed and could not take it along (`KillRunner`, at
`cmd/daemon.go:148` and `:393`). Where `ResolveTsx` finds no tsx the runner is node
itself and nothing is left, so `KillRunner` allows both. That a signal from outside
hits the runner alone is not modelled.

`RemoveStale` and `Exit` both unlink the socket *path*, whoever's it is: the first
is `os.Remove`, the second the deferred `listener.Close()`.

`DaemonLife` is what a daemon promises about its plugin: it is started once, the
daemon ends with the plugin's runner gone unless a signal kills the daemon, only a
daemon on its way out leaves the plugin without its runner, and a draining daemon
ends. The refinement maps `proc` and `killed` to five phases. `DaemonIPC` implements
the same module for one daemon from the moment it serves, so that the two depths at
which the daemon is modelled agree on what it does with its plugin.

### ConnectorLogs

Extends `ConnectorLifecycle`: every step of it is either a lifecycle step with what
it does to the files open, or a step of the rotation (`StatLog`, `RemovePrevLog`,
`RenameLog`, `OpenLog`), which `StartConnector` makes between its running check and
`cmd.Start` (`pc[c] = "spawn"`). Files are known by their place, `main`, `prev` or
`gone`, so a rename moves every holder of the file along; sizes are below or at
`maxLogSize`. A daemon killed or still shutting down keeps the file it had. What
is in the file is what the daemon itself logs; in background mode the plugin's own
messages are only broadcast.

### DaemonIPC

Sockets and pipes are queues with a capacity; a write to a full one blocks. A
client's handler goroutine is at `scan`, at one of the answers it writes, or at
`lock`, `body`, `newline`, the three steps of forwarding under `stdinMu`. A
reader goroutine takes a line of stdout or stderr, registers tools first if it is
a discovery, and casts it to the clients in the map one by one, in any order and
with clients that come while it does, as `sync.Map.Range` allows. A write
deadline set by a broadcast stays on the connection (`deadline`), so it may hit
the next writer. The main goroutine waits for `sigCh` or the end of the runner.

The shim is `runner` (alive, with the plugin below it), `left` (alive without it), or
neither. A shim that is left reads what is still in its stdin and its output
reaches nobody; with its stdin closed it may end or live on, as it likes
(`ShimDies`). The end of the plugin and the return of `pluginCmd.Wait` are one step.

### ShimRpc

A call is `Issue`d by one of four kinds of code: `InvokeTool`, `DiscoverTools`,
the forwarding branch of `handleConnector`, and `c2c call`. They differ in when
they look at their timer and in what they make of a closed connection
(`Cancelled`, `PastDeadline`, `ScanEnds`). The reading goroutine (`scanner`), its
result channel and the waiting caller are separate. In the shim a message from
the platform becomes a request in `pending` with an `armed` timer and a `promise`,
settled by the first reply, the timer or the end of stdin.

`RemoteCall` promises a caller: refused, failed, timed out, or served once and
with success if success was reported. Serving may begin after the caller has
given up; the code offers no way to take a command back.

### PluginStore

One shell, one plugin name. A source whose name ends in `-cli` stands for two npm
packages with versions of their own: the source, whose hash is recorded and verified,
and its runtime. A version stands for its hash. Every question to npm is a step and
may fail; `Publish` puts new versions of either package between any two of them, and
an exact version the runtime does not have is an install that fails. A package
installed by its bare name, because npm answered no version, is in `bare`.
`Abort` ends a command anywhere, also in the middle of `os.WriteFile` or of npm.
`checksum`, `resolved` are what the running command was told, `recorded` is the
checksum in the manifest. The fields `resolved_version` and `integrity` are written
and read by nobody but `Store.Verify`, which nobody calls, and are left out.

### SkillRunner

One `RunSkill` with os/exec as it is used here: a child, the pipes, the copying
goroutines with their `limitedWriter`s, the context. The child may leave an `heir`
that has inherited the pipes; under the tsx wrapper the skill itself is one.
`ReturnAfterDelay` and the other `WRONG` operators show what the order *size,
deadline, exit code* of the checks at the end protects.

### ShimBoot and ToolServer

`ShimBoot` is one shim per connector from `main()` to its last line: which channel
and tools `register()` adds, in which order (`Offers`, `Channels`), what is
registered later (`Afterthoughts`), the discovery lines on their way to the
daemon's registry, the signal handlers, stop and start again. `ToolServer` is one
`mcp serve`: the filter, the static tools in the order of the plugins' names, the
question each running connector is asked with its timer, the table that results,
and calls by name, which `handleInvokeTool` resolves in the shim that runs *then*.
A table entry remembers, as history, whose schema it is and from which start.

## Runs

| Run | Instance | Shows |
|---|---|---|
| `lifecycle_sequential` | 1 shell, 3 PIDs, the log files | whatever starts, stops, failed starts and slow exits follow each other, at most one daemon has not been told to stop and it is the recorded one; a failed start leaves nothing; after a stop every daemon that is alive was sent one; only stale sockets are removed; the daemon that runs writes to the file `c2c logs` opens; output is discarded only for a full log |
| `lifecycle_live` | a shell and an MCP server, 1 PID, foreground, PID recycled, 1 fault | types, stale sockets only of killed daemons, what each stop has achieved; nobody lacks a next step; every command returns, an asked daemon exits unless it lost the request; `DaemonLife`, safety (no orphaned runner) and liveness |
| `socket_theft` | 1 shell, 3 PIDs | **violated**: an exiting daemon unlinks a newer daemon's socket |
| `concurrent_starts` | 2 shells, 2 PIDs | **violated**: a start that fails kills the other's daemon and leaves its own |
| `ipc_safety` | 2 clients, buffers of 1, one line of output (over-long or not), commands, list_tools, shutdown, over-long requests | types with the bounds of all queues, forwarded lines are whole, discovery never ahead of the registry, no leaked connection (6.8 million states) |
| `ipc_live` | 1 client, stdout, 4 lines, all queues of 1 | a broadcast and a shutdown always have a next step; a forward never sticks, a shutdown completes, the first one: a second into a full `sigCh` is in `ipc_safety`, and contention for the mutex too |
| `rpc_calls` | 2 calls of any kind | types, `RemoteCall`: answers are one's own, at most once |
| `rpc_requests` | 1 call, 1 consumer, 1 message | requests are backed; nobody lacks a next step; all waits end |
| `plugin_store` | a `-cli` source, 3 versions of each of its packages | types, verified connectors run what is on record, half-done updates are seen |
| `install_retry` | 2 versions | **violated**: a failed local install is never retried |
| `skill_runs` | 2 streams, limit 1, pipes of 2, 3 units of output each | types, a success is the whole output, the limit is exact, a run ends unless its output is held for ever |
| `tool_server` | connectors `chat` (2 starts) and `mail` (1), skill `search`, one call | types, registries hold what was announced, the filter holds, calls run what was listed, the server comes up |

### Bounds, and why they are enough

* *PIDs* (3, 2, 1): two daemons are needed for one to disturb the other, a third
  for a start after both; the theorems lift the bound for what they cover.
* *Sessions*: 1 where the property is about waiting for one's commands, else 2,
  of which one is long-lived. Every race found needs two.
* *MaxFaults* 1: one command interrupted or one daemon killed; it may be any.
* *PipeCap*, *SockCap* 1: the smallest buffers block earliest, and a line written
  in two fragments already does not fit. The proofs are for every capacity.
* *MaxEmit* 4 in `ipc_live`: stdout pipe, reader, socket and shim can all hold a
  line at once, which is what the cycle of full buffers takes; in `ipc_safety` one
  line is enough for a broadcast to meet every step of two handlers.
* *MaxSend* 1: one request per client; with two clients two requests race.
* *Callers* 2: one call and somebody else's answer to it.
* *MaxVersion* 3: recorded, installed and latest can all differ.
* *Limit* 1, *PipeCap* 2, *MaxPrint* 3: one chunk can end below, at and beyond the
  limit, and a stream can fill its pipe after its limit is reached.
* *Daemons* 3 with logs: the third start is the first that can discard output.
* `MCToolServer`: the plugins' lists hold a tool given twice, once without
  `execute`, and one named like a channel method's tool; both connectors and the
  skill use one name; `chat` can stop and come back with other tools while the
  server lists it or a call is under way. *MaxTools* 2 is the longest of the lists.

Deadlock is not checked for `DaemonIPC`, `ShimRpc`, `SkillRunner` and `ToolServer`
(a daemon that has ended stops for good, a call or a run is made once, starts are
bounded). In the other modules it is.

### Fairness

* `ConnectorLifecycle`: commands and daemons go on, because every wait in them has
  a deadline (seven seconds for stop, ten for readiness, nine for the shim).
  A handler reads what is in its connection, unless the connection is closed first
  (`ReadRequest`). Nobody has to issue a command; a shim need not exit.
* `DaemonIPC`: goroutines that can run do; a `sync.Mutex` in starvation mode goes
  to the longest waiter (strong fairness of `Lock`); write deadlines expire; the
  shim reads and writes when it can. Clients need not do anything.
* `ShimRpc`: goroutines, event loop and the shim's timers go on. Callers' own
  timers are not assumed, so that `CutEndsCall` can ask what ends a call without
  them; `CallsReturn` names them as its premise. Tools may run for ever, consumers
  need not answer.

* `SkillRunner`: the runner's goroutines go on and its timer fires; the skill need
  not exit, print or read anything.
* `ToolServer`: only the server's own listing goes on (its timers included), no
  connector and no client has to get anywhere.

## Proofs

TLAPS proves, for every value of the constants allowed by the `ASSUME`s:

* **ConnectorLifecycle**: `TypeOK`, `NoOrphanRunner`, `StaleSocketOnlyOfKilled`,
  `StopIsDelivered`, and that it implements `DaemonLife!LifeSafety`. The invariant
  adds that a command's operands are daemons that were really spawned
  (`OperandsKnown`) and which shim states go with which places of the daemon
  (`ShimFollowsDaemon`): without the latter `ForceKillShim` and the failing exits
  could leave a runner behind. `WaitsForItsChild`: a server that stops a connector it
  started itself waits for the process it started and not for a program that was
  given its PID since (`stop` reads the PID from a file, so this is not obvious).
  `ChildrenAreKept` is why: as long as the server lives only the server reaps the
  child, and when it has, the PID file does not name the child any longer by the time
  the server looks again.
* **DaemonIPC**: `TypeOK`, `LinesAreWhole`, `DiscoveryIsBacked`, `NoClientLeaks`, for
  any number of clients and any capacity. Wholeness of lines is not inductive: it
  needs that the mutex is held between the two writes (`MutexIsHeld`) and that a
  pipe ends in a body exactly while its writer owes the newline (`LastIsOwed`).
  `WritesAreTimed`: a broadcast under way to a client has a deadline there, also with
  the other reader and evictions in between. And `LivesItsLife`, the steps of
  `DaemonLife`: a daemon with clients, handlers and full queues around it ends only
  when its runner has. The mapping takes `stopping` and `closing` for draining; what it
  needs is `ClosingIsLast`: connections are closed after the runner has ended, and no
  shim is without its runner before. The bounds of the queues (`QueuesAreBounded`) are
  part of `TypeOK`.
* **ShimRpc**: `TypeOK`, `AnswerIsOwn`, `RequestsAreBacked`, and that it implements
  `RemoteCall!CallSafety`. The invariant follows a response backwards: wherever
  one is, its call was served with success (`ResponsesAreTrue`), and a command is
  in one place at most, its call then not yet served (`CommandsAreSentOnce`), which
  is what makes "at most once" hold. `CallsLeaveClean` and `ReturnsClose` say what a
  call leaves to its goroutine, whichever way it returns: a cancelled context, room
  for the result, a closed connection. `OnlyThePluginAsks` says that a goroutine never
  reads the command of a call, only requests of the plugin, and `SilenceIsLate` that a
  call whose goroutine ended without a result is a listing or late.
* **PluginStore**, for a source that names no version: `TypeOK`,
  `ConnectRunsVerified`, `HalfUpdatesAreSeen`. The code compares the recorded hash
  with the source's latest and never looks at the packages; the proof is the chain
  *recorded <= packages <= latest of the source*, for the packages npm had named a
  version for (`Covered`), kept by asking npm for the hash before the packages, and
  closed by verification's *recorded = latest*. The runtime is in it because it is
  installed at the source's exact version or not at all; its own latest plays no
  part, and one installed by its bare name is outside. It rests on the source's
  versions only going up on the registry.

* **OneSession** (assumption `Alone`: one session, no `connect -f`, no command
  interrupted by hand, which a long-lived session's cannot be; daemons may be
  killed and PIDs recycled): `SoleDaemonIsRecorded`, `FailedStartLeavesNothing`,
  `NoDaemonIsOverlooked`, `OnlyStaleSocketsRemoved`, for any number of
  daemons. None is inductive. `OneSessionInv` says, for each place of the session's
  command, whether a daemon can be left that was sent no shutdown request (`NoneLeft`),
  and which one it is otherwise; and that outside a stop a socket somebody listens
  on is that daemon's, which is why the next start's ping is answered by its own
  daemon, and why a daemon that removes the path unseen finds nobody there.
* **ConnectorLogs** (again `Alone`): `RunningDaemonIsLogged` and `FullLogIsKept`.
  Every step of the composition is a lifecycle step or leaves the lifecycle alone,
  (`LogsOnlyWatch`, for any sessions), so `IInv` and `OneSessionInv` carry over; `LogInv` adds that a session in the
  middle of a rotation has seen a full log. Without `Alone` both are false: a start
  that passed its check before another daemon was recorded renames that daemon's
  log, and two rotations at once discard the old log for a file just created.
* **SkillRunner**, for any streams, limit, pipe size and amount of output: `TypeOK`,
  `SuccessIsWhole`, `LimitIsExact`. `OutputAccounted` ties what a `limitedWriter` kept
  and whether it threw something away to how much has left the pipe; `StagesInOrder`
  says that once `cmd.Run` is back no writer is left and the pipes are empty.
* **ToolServer** with **ShimBoot**, for any connectors, plugins, offers, filters and
  calls: `TypeOK`, `RegistryIsWhole`, `FilterHolds`, `RunsWhatWasListed`. A shim
  announces only what its plugin has, a plugin only gains tools until it is started
  again, so an entry made in this start still names what it named (`EntryIsBacked`).

Each invariant was also an invariant of a TLC run before it was proved.

### Liveness

Ten theorems say what must happen, each from `FairSpec /\ []GuardsEnable`:

| Theorem | States | Argument |
|---|---|---|
| `CommandsReturn` | `EveryCommandReturns` | a command is at most 6 steps from its outcome (`StepsLeft`) |
| `AskedDaemonsExit`, `ImplementsLifeSpec` | `AskedDaemonExits`, `LifeSpec` | a daemon that is to end has at most 7 places ahead (`PlacesLeft`); an unread request is read or lost |
| `ShutdownsComplete`, `DrainingEnds` | `ShutdownCompletes`, the liveness of `DaemonLife` for `DaemonIPC` | `main` has at most four places to pass once it has been told (`PlacesLeft`) |
| `RequestsSettle` | `EveryRequestSettles` | the request's own timer |
| `TimersEndCalls` | `TimedCallsReturn`: `CallsReturn` for `InvokeTool`, `DiscoverTools` and `c2c call` | the caller's own timer, then one step |
| `GoroutinesEnd` | `ServersLeakNothing`: `ScannersEnd` without `c2c call` | a returned call has cancelled its goroutine's context and left room for its result (`CallsLeaveClean`), so it has two steps left |
| `CutCallsEnd` | `CutEndsCall` but for the induction: one line fewer, for every number of lines, and the return with none | the daemon sends nothing more, a line read is gone, and a goroutine ends silently only for a late call (`SilenceIsLate`) |
| `LeftGoroutinesEnd` | `ScannersEnd` but for the induction, `c2c call` included | the connection is closed (`ReturnsClose`), so nothing arrives any more |

Under weak fairness a process that can go on does. That it *can* go on is
`NobodyBlocks`, one state invariant per module, which names who waits for what and
says with `ENABLED` that a step ends the wait. The provers installed have no rule that
computes `ENABLED`; `NobodyEverBlocks` (a theorem of each of the three modules,
`Spec /\ []GuardsEnable => []NobodyBlocks`) reduces it to `GuardsEnable`: the
implications of `NobodyBlocks` with the guard of the step as a further hypothesis,
*a step whose guard holds can be taken*. That a guard always does hold is what
could go wrong in the code, and it is proved, for all constants:

* `ConnectorLifecycle`: a command that waits for a process waits for one that is
  alive or a zombie it may reap (`WaitsForItsChild`); a daemon that drains has a runner
  to wait for or to kill (`ShimFollowsDaemon`); a request is unread only where a handler
  answers.
* `DaemonIPC`: its `NobodyBlocks` speaks of places, its `GuardsEnable` of guards
  (`MainReady`, `ReaderReady`). The proof goes from one to the other: a cast has a client
  left to visit or owes nobody a visit, a write has room, fails, or waits at an armed
  or expired deadline (`WritesAreTimed`), a draining daemon has a runner to kill or
  none to wait for.
* `ShimRpc`: a goroutine that holds an answer has an empty channel, one left behind
  reads a closed connection (`CallsLeaveClean`, `ReturnsClose`), one that reads from a
  connection that was cut knows what to do with every line (`OnlyThePluginAsks`), and a
  request that waits has its timer (`RequestsAreBacked`).

`GuardsEnable` follows from `NobodyBlocks`, conjunct by conjunct, so TLC checks it
when it checks `NobodyBlocks` in `lifecycle_live`, `ipc_live` and `rpc_requests`. It is
the only thing the theorems take from a finite instance; the rest is proved: that
the number of steps left is never raised by anybody (the other commands, the daemons,
kills, recycled PIDs), that each fair step lowers it, and what holds at the end.

`NobodyBlocks` is where a missing deadline shows: it fails when a child that does
not die is waited for without `StopKill`, when a broadcast has no write deadline, and
when a result is put into a channel without room.

### Only model-checked

* `GuardsEnable`, which is about `ENABLED` (through `NobodyBlocks`, which implies it).
* `ForwardingNeverSticks`, the rest of `CallsReturn` (`handleConnector`, which returns
  when its goroutine does), `DeadlineEndsRun`, `ServerComesUp`: their variants count
  lines in a queue, output in a pipe or plugins in a list, whose length a constant
  bounds; that takes an induction over the numbers inside temporal logic, which the
  provers here do not have. The same induction is all that is missing of `CutEndsCall`
  and, for `c2c call`, of `ScannersEnd`: `CutCallsEnd` and `LeftGoroutinesEnd` prove its
  base (no lines) and its step (from n + 1 lines to n) for every n, and
  `LinesAreCounted` that every state they begin in has some number of lines. The other
  theorems have a variant with a fixed bound and are chained case by case.
* The three counterexamples.

`NoOrphanRunner`, `AnswerIsOwn` and the safety half of `DaemonLife` are theorems, and in
the runs they are part of `LifeSpec` and `CallSafety`, which imply them.

## Findings

1. **A daemon's exit removes a newer daemon's socket** (`socket_theft`). Stop
   returns when the daemon answers or after seven seconds; the daemon may take
   nine more; a start in between binds the path; the old `listener.Close()` then
   unlinks it. The comment at `cmd/daemon.go:156-158` means to prevent this, but a
   Go Unix listener unlinks its path on `Close`.
2. **A failing start kills whatever the PID file names** (`concurrent_starts`),
   `internal/executor/daemon.go:119-126`.
3. **A failed local install is not retried on connect** (`install_retry`), though
   the message and `docs/IMPLEMENTATION.md:112` say so; install, update and connect
   all refuse until a new version is published.

Seen while modelling, and in the models, but without a run:

* Stop over the socket counts *any* byte as the answer (`executor/daemon.go:185`;
  `:182` says "Wait for socket to close (daemon exited)"). A broadcast in flight ends
  the wait at once; if the next one finds the command gone before the handler has read
  the shutdown line, the daemon closes the connection with the line unread
  (`cmd/daemon.go:178-181`) and serves on, without PID file and socket file, while
  `cmd/stop.go:19` prints `Connector %q stopped.` `StopIsDelivered` and `AskedDaemonExits`
  name this outcome (`lost`) and exclude every other.
* Shutdown's last resort, and a failed `net.Listen`, kill `pluginCmd`, which is the tsx
  wrapper (`cmd/daemon.go:90`, `:101`, `:148`, `:393`). The wrapper cannot relay a SIGKILL, so
  the plugin may run on after its daemon; its stdin is closed, which may or may not
  end it. `docs/PITFALLS.md:303` relies on it: "SIGKILL 能确保进程退出" (SIGKILL makes sure
  that the process exits).
* `GetConnectorStatus` and stop's fallback trust signal 0: a zombie or a recycled
  PID is reported as running, and signalled.
* `connect -f` makes no running check: its `RemoveStale` can take a live daemon's
  socket (`OnlyStaleSocketsRemoved` is checked for background starts).
* A pong or an answer written after a broadcast's deadline has passed is lost and
  the error ignored.
* A line over 64 KB on stderr ends its reader for good; the shim then blocks when
  that pipe is full.
* `DiscoverTools` on a closed connection waits for its five-second timer.
* A message that reaches the plugin after stdin has closed waits five minutes for
  a reply that cannot come.
* A runtime package is never verified, only its source is. It follows the source's
  exact version; installed by its bare name, when npm names no version, it may be of
  any, and nothing asks again while the source stays the same.
* With no checksum on record (`--skip-verify`, or npm did not answer) connect verifies
  nothing, also between the two halves of an interrupted update.
* With a source that names a version (`pkg@1.2.3`), install records the hash of the
  *latest* version: `ConnectRunsVerified` is false with `Pin = 1`, and connect fails
  as "tampered" as soon as anything newer is published.

* Two starts at once can both rotate the log: the second moves the file the first
  has just created over the old one (two shells in `ConnectorLogs`; TLC finds
  `RunningDaemonIsLogged` and `FullLogIsKept` false there). `c2c logs -f` keeps
  following the old file after a rotation, and a daemon that is still shutting down
  writes to `<name>.log.1`.
* `RunSkill` never passes its `args` on (`runner.go:72`), though `README.md:93`,
  `docs/DESIGN.md:52` and `docs/IMPLEMENTATION.md:293` say it does; `handleSkill`
  reports a skill that exits with an error as a success. A timed-out run does not
  return while an heir holds the pipes, under tsx the skill itself, and not at all if
  it never lets go (`DeadlineEndsRun` says both), and a run that
  fails just before its deadline may be called timed out.
* `hasPermission` takes `network:x` for the network permission; the sandbox needs
  exactly `network`.
* The MCP server's table is made once. `docs/DESIGN.md:389-398`, `:478` and `:560`
  speak of live state and no stale tools; tools of connectors started or stopped
  later are neither added nor removed, and a connector asked half way through its
  boot stays partial. Two plugins with one name in SKILL.md, or a tool and a plugin,
  replace each other silently.
* A tool registered after `register()` returned can be called and is never listed; a
  tool without `execute` is listed and answers `UNKNOWN_TOOL`; a tool whose name ends
  in `_send_text` or `_send_media` is shadowed by the channel's method.
* A shim whose gateways run does not exit on SIGTERM (its stdin keeps the event loop
  alive), so a stop takes the nine seconds and the SIGKILL above, which ends its runner.
* `EnsureTsx` takes any file at `bin/tsx` for the wrapper, one torn by an interrupt
  too.

## Plan

What would come next:

1. `PluginStore` with two shells (two installs pass the directory check at once;
   two updates cross), and the tsx wrapper as a third file.
2. `PackageSpec`: `derivePluginName`, `stripVersion`, `ResolvePluginPackage` and the
   shim's `resolvePluginPackage` as operators on tokenised names, compared with each
   other; the prefix tests of permissions and environment likewise.
3. Accounts, login and allowlist files of the fake runtime.

## Not modelled

* Permission, environment and sandbox rules: prefix tests on strings and a profile
  for an external tool, without state. That a start or a run may be refused for its
  permissions is in `StartCheck` and `SkillRunner`.
* YAML, Markdown and JSON parsing (third party), terminal output, the display
  commands, the helpers of `nodeutil` that no command calls, `Store.Verify` and
  `Registry.GetAll` (no caller in the daemon).
* The helpers of the fake runtime (session files, text chunking, allowlists), which
  keep no state the daemon sees.
* The tsx wrapper is one process with its node child in `ShimBoot`, and in `ShimRpc`.
  `SkillRunner`, `ConnectorLifecycle` and `DaemonIPC` tell them apart, the last two for the
  kills the daemon makes; that something else ends the wrapper alone is in none.
* A daemon's death by SIGKILL is in `ConnectorLifecycle` and `ShimRpc`, not in
  `ToolServer`, where a connector stops with its daemon.
