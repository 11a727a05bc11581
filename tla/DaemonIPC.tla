------------------------------ MODULE DaemonIPC ------------------------------
(***************************************************************************)
(* A serving daemon (cmd/daemon.go) between its clients and its shim: one  *)
(* handler goroutine per client connection, which answers or forwards what *)
(* the client sends; the goroutines that read the shim's stdout and stderr *)
(* and broadcast what they read; the mutex on the shim's stdin; the tool   *)
(* registry (internal/registry); and the main goroutine that shuts down.   *)
(*                                                                         *)
(* Pipes and sockets are bounded queues of lines: a write to a full one    *)
(* blocks, which is what makes a cycle of blocked writers possible.        *)
(***************************************************************************)
EXTENDS Naturals, Sequences, FiniteSets

CONSTANTS
  Clients,   \* connections made to the daemon's socket
  Requests,  \* the kinds of lines they send
  Streams,   \* the shim output streams that are pipes: stdout, and stderr too
             \* unless in the foreground
  TooLong,   \* those on which a line longer than the reader's buffer may come
             \* (1 MB for stdout, 64 KB for stderr)
  PipeCap,   \* fragments or lines a pipe holds
  SockCap,   \* lines a socket holds in each direction
  MaxSend,   \* bound on the lines each client sends
  MaxEmit,   \* bound on the lines the shim emits of itself
  Nobody     \* not a client

ASSUME IPCAssumption ==
  /\ "stdout" \in Streams /\ Streams \subseteq {"stdout", "stderr"}
  /\ TooLong \subseteq Streams
  /\ Requests \subseteq {"ping", "list_tools", "shutdown", "command", "ignored", "toolong"}
  /\ PipeCap \in Nat \ {0} /\ SockCap \in Nat \ {0}
  /\ MaxSend \in Nat /\ MaxEmit \in Nat
  /\ Nobody \notin Clients

VARIABLES
  conn,      \* each connection as the daemon sees it
  clients,   \* the sync.Map of connections broadcasts go to
  toDaemon,  \* lines sent and not yet taken by the handler
  toClient,  \* lines written and not yet read by the client
  deadline,  \* the write deadline the last broadcast left on the connection
  handler,   \* where each client's handler goroutine is
  stdinMu,   \* who holds stdinMu
  stdin,     \* the shim's stdin: bodies of lines and newlines
  output,    \* the shim's output pipes
  reader,    \* the goroutine of each output pipe
  shim,      \* the process the daemon started (runner, tsx) and the shim it runs:
             \* whether it is left without its runner, what it has read of a line,
             \* what it has to write
  registry,  \* the tools registered
  main,      \* the main goroutine
  sigCh,     \* the buffered signal channel is full
  sent, emitted  \* counters behind MaxSend and MaxEmit

clientVars == <<conn, clients, toDaemon, toClient, deadline>>
shimVars == <<stdin, output, shim>>
daemonVars == <<handler, stdinMu, reader, registry, main, sigCh>>
bounds == <<sent, emitted>>
vars == <<clientVars, shimVars, daemonVars, bounds>>

Replies == {"pong", "tools", "error"}
Tools == 1..MaxEmit

\* A line to a client: who it answers (Nobody for what nobody asked) and the
\* tools it speaks of.
Line(t, for, tools) == [type |-> t, for |-> for, tools |-> tools]
Lines == [type : Replies \cup {"response", "log", "discovery", "toolong"},
          for : Clients \cup {Nobody}, tools : SUBSET Tools]

\* The two writes of a forwarded line: its body and its newline.
Fragment(c, end) == [from |-> c, end |-> end]
Fragments == [from : Clients, end : BOOLEAN]

\* Bodies and newlines alternate, each newline after the body of its client.
Follows(f, g) == IF f.end THEN ~g.end ELSE g = Fragment(f.from, TRUE)
Whole(q) ==
  /\ q # <<>> => ~q[1].end
  /\ \A i \in 1..(Len(q) - 1) : Follows(q[i], q[i + 1])

Handler(at) == [at |-> at, tools |-> {}]
At(c, where) == handler[c].at = where
Move(c, where) == handler' = [handler EXCEPT ![c].at = where]
Become(c, h) == handler' = [handler EXCEPT ![c] = h]
Forwarding == {"lock", "body", "newline"}

Scanning == [at |-> "scan", line |-> Line("log", Nobody, {}), to |-> Nobody,
             owed |-> {}, seen |-> {}]

Running == main # "ended"  \* the process: no goroutine outlives it

Init ==
  /\ conn = [c \in Clients |-> "queued"]
  /\ clients = {}
  /\ toDaemon = [c \in Clients |-> <<>>] /\ toClient = [c \in Clients |-> <<>>]
  /\ deadline = [c \in Clients |-> "none"]
  /\ handler = [c \in Clients |-> Handler("none")]
  /\ stdinMu = Nobody
  /\ stdin = <<>>
  /\ output = [s \in Streams |-> <<>>]
  /\ reader = [s \in Streams |-> Scanning]
  /\ shim = [runner |-> TRUE, left |-> FALSE, buffer |-> <<>>, pending |-> <<>>]
  /\ registry = {}
  /\ main = "serving" /\ sigCh = FALSE
  /\ sent = [c \in Clients |-> 0] /\ emitted = 0

-----------------------------------------------------------------------------
(* Clients                                                                 *)

Send(c, r) ==
  /\ conn[c] \in {"queued", "open"} /\ Running
  /\ Len(toDaemon[c]) < SockCap
  /\ sent[c] < MaxSend
  /\ sent' = [sent EXCEPT ![c] = @ + 1]
  /\ toDaemon' = [toDaemon EXCEPT ![c] = Append(@, r)]
  /\ UNCHANGED <<conn, clients, toClient, deadline, shimVars, daemonVars, emitted>>

Receive(c) ==
  /\ toClient[c] # <<>>
  /\ toClient' = [toClient EXCEPT ![c] = Tail(@)]
  /\ UNCHANGED <<conn, clients, toDaemon, deadline, shimVars, daemonVars, bounds>>

HangUp(c) ==
  /\ conn[c] \in {"queued", "open"}
  /\ conn' = [conn EXCEPT ![c] = "hungup"]
  /\ UNCHANGED <<clients, toDaemon, toClient, deadline, shimVars, daemonVars, bounds>>

-----------------------------------------------------------------------------
(* The accept loop and the handlers                                        *)

\* listener.Accept, clients.Store, and a handler of its own for the client,
\* which may have hung up before.
Accept(c) ==
  /\ conn[c] \in {"queued", "hungup"} /\ At(c, "none") /\ c \notin clients /\ Running
  /\ conn' = [conn EXCEPT ![c] = IF @ = "queued" THEN "open" ELSE @]
  /\ clients' = clients \cup {c}
  /\ Become(c, Handler("scan"))
  /\ UNCHANGED <<toDaemon, toClient, deadline, shimVars, stdinMu, reader, registry, main,
                 sigCh, bounds>>

\* scanner.Scan and the dispatch on the message type. The scanner reads ahead:
\* lines may still come after the daemon has closed the connection.
Take(c) ==
  /\ At(c, "scan") /\ toDaemon[c] # <<>> /\ Running
  /\ toDaemon' = [toDaemon EXCEPT ![c] = Tail(@)]
  /\ LET r == Head(toDaemon[c]) IN
     \/ r = "ignored" /\ UNCHANGED <<handler, sigCh>>  \* malformed, or of no known type
     \/ r = "ping" /\ Move(c, "pong") /\ UNCHANGED sigCh
     \/ r = "shutdown" /\ sigCh' = TRUE /\ UNCHANGED handler
     \/ r = "command" /\ Move(c, "lock") /\ UNCHANGED sigCh
     \/ /\ r = "list_tools"
        /\ Become(c, [Handler("tools") EXCEPT !.tools = registry])
        /\ UNCHANGED sigCh
  /\ UNCHANGED <<conn, clients, toClient, deadline, shimVars, stdinMu, reader, registry,
                 main, bounds>>

\* WRONG: forwards without taking the mutex.
LockNothing(c) ==
  /\ At(c, "lock") /\ Running
  /\ Move(c, "body")
  /\ UNCHANGED <<clientVars, shimVars, stdinMu, reader, registry, main, sigCh, bounds>>

Lock(c) ==
  /\ At(c, "lock") /\ stdinMu = Nobody /\ Running
  /\ stdinMu' = c
  /\ Move(c, "body")
  /\ UNCHANGED <<clientVars, shimVars, reader, registry, main, sigCh, bounds>>

\* pluginStdin.Write(line): blocks on a full pipe, fails once the runner is gone,
\* even if the shim is not: pluginCmd.Wait has closed the daemon's ends.
WriteBody(c) ==
  /\ At(c, "body") /\ Running
  /\ \/ /\ shim.runner /\ Len(stdin) < PipeCap
        /\ stdin' = Append(stdin, Fragment(c, FALSE))
        /\ Move(c, "newline")
     \/ /\ ~shim.runner
        /\ Move(c, "newline")
        /\ UNCHANGED stdin
  /\ UNCHANGED <<clientVars, output, shim, stdinMu, reader, registry, main, sigCh, bounds>>

\* pluginStdin.Write("\n") and Unlock; the client gets an error if it gave an ID.
WriteNewline(c) ==
  /\ At(c, "newline") /\ Running
  /\ \/ /\ shim.runner /\ Len(stdin) < PipeCap
        /\ stdin' = Append(stdin, Fragment(c, TRUE))
        /\ Become(c, Handler("scan"))
     \/ /\ ~shim.runner
        /\ \E next \in {"error", "scan"} : Become(c, Handler(next))
        /\ UNCHANGED stdin
  /\ stdinMu' = Nobody
  /\ UNCHANGED <<clientVars, output, shim, reader, registry, main, sigCh, bounds>>

Replying(c) == handler[c].at \in Replies

\* Writes fail on a closed connection and after its write deadline, whoever
\* has set that deadline: a handler sets none of its own.
Writable(c) == conn[c] = "open" /\ deadline[c] # "expired"

Reply(c) ==
  /\ Replying(c) /\ Writable(c) /\ Running
  /\ Len(toClient[c]) < SockCap
  /\ toClient' = [toClient EXCEPT ![c] = Append(@, Line(handler[c].at, c, handler[c].tools))]
  /\ Become(c, Handler("scan"))
  /\ UNCHANGED <<conn, clients, toDaemon, deadline, shimVars, stdinMu, reader, registry,
                 main, sigCh, bounds>>

\* What a handler does last: clients.Delete and conn.Close.
Close(c) ==
  /\ clients' = clients \ {c}
  /\ conn' = [conn EXCEPT ![c] = "closed"]

\* Only the answer to list_tools looks at the error; that handler returns.
ReplyFails(c) ==
  /\ Replying(c) /\ ~Writable(c) /\ Running
  /\ \/ At(c, "tools") /\ Close(c) /\ Become(c, Handler("none"))
     \/ ~At(c, "tools") /\ Become(c, Handler("scan")) /\ UNCHANGED <<clients, conn>>
  /\ UNCHANGED <<toDaemon, toClient, deadline, shimVars, stdinMu, reader, registry, main,
                 sigCh, bounds>>

\* scanner.Scan returns false: the connection is gone, or a line is too long.
ScanFails(c) ==
  \/ conn[c] = "closed"
  \/ conn[c] = "hungup" /\ toDaemon[c] = <<>>
  \/ conn[c] # "closed" /\ toDaemon[c] # <<>> /\ Head(toDaemon[c]) = "toolong"

\* WRONG: the deferred clients.Delete is missing.
HandlerLeaks(c) ==
  /\ At(c, "scan") /\ Running
  /\ ScanFails(c)
  /\ conn' = [conn EXCEPT ![c] = "closed"]
  /\ Become(c, Handler("none"))
  /\ UNCHANGED <<clients, toDaemon, toClient, deadline, shimVars, stdinMu, reader, registry,
                 main, sigCh, bounds>>

HandlerEnds(c) ==
  /\ At(c, "scan") /\ Running
  /\ ScanFails(c)
  /\ Close(c) /\ Become(c, Handler("none"))
  /\ UNCHANGED <<toDaemon, toClient, deadline, shimVars, stdinMu, reader, registry, main,
                 sigCh, bounds>>

-----------------------------------------------------------------------------
(* The goroutines that read the shim's output and broadcast it             *)

\* WRONG: the tools are stored when the broadcast is over.
ReadThenRegister(s) ==
  /\ Running
  /\ \/ /\ reader[s].at = "scan" /\ output[s] # <<>>
        /\ reader' = [reader EXCEPT ![s] = [at |-> "cast", line |-> Head(output[s]),
                                            to |-> Nobody, owed |-> clients, seen |-> {}]]
        /\ output' = [output EXCEPT ![s] = Tail(@)]
        /\ UNCHANGED registry
     \/ /\ reader[s].at = "cast" /\ reader[s].owed \cap clients \subseteq reader[s].seen
        /\ registry' = registry \cup reader[s].line.tools
        /\ UNCHANGED <<reader, output>>
  /\ UNCHANGED <<clientVars, stdin, shim, handler, stdinMu, main, sigCh, bounds>>

\* A line of output. The tools of a discovery are added to the registry (Get,
\* append, Store, by this goroutine only) before anybody is told.
ReadLine(s) ==
  /\ reader[s].at = "scan" /\ output[s] # <<>> /\ Running
  /\ Head(output[s]).type # "toolong"
  /\ output' = [output EXCEPT ![s] = Tail(@)]
  /\ LET line == Head(output[s]) IN
       /\ reader' = [reader EXCEPT ![s] = [at |-> "cast", line |-> line, to |-> Nobody,
                                           owed |-> clients, seen |-> {}]]
       /\ registry' = registry \cup line.tools
  /\ UNCHANGED <<clientVars, stdin, shim, handler, stdinMu, main, sigCh, bounds>>

\* WRONG: broadcasts with no write deadline.
CastWithoutDeadline(s, c) ==
  /\ reader[s].at = "cast" /\ c \in clients \ reader[s].seen /\ Running
  /\ reader' = [reader EXCEPT ![s].at = "write", ![s].to = c]
  /\ UNCHANGED <<clientVars, shimVars, handler, stdinMu, registry, main, sigCh, bounds>>

\* clients.Range visits every client there from the start and may visit others;
\* SetWriteDeadline moves the connection's deadline for all its writers.
Cast(s, c) ==
  /\ reader[s].at = "cast" /\ c \in clients \ reader[s].seen /\ Running
  /\ reader' = [reader EXCEPT ![s].at = "write", ![s].to = c]
  /\ deadline' = [deadline EXCEPT ![c] = "armed"]
  /\ UNCHANGED <<conn, clients, toDaemon, toClient, shimVars, handler, stdinMu, registry,
                 main, sigCh, bounds>>

Visited(s) ==
  reader' = [reader EXCEPT ![s].at = "cast", ![s].to = Nobody, ![s].seen = @ \cup {reader[s].to}]

\* WRONG: never blocks, keeps what does not fit.
CastBuffers(s) ==
  /\ reader[s].at = "write" /\ Running
  /\ LET c == reader[s].to IN
       /\ Writable(c)
       /\ toClient' = [toClient EXCEPT ![c] = Append(@, reader[s].line)]
  /\ Visited(s)
  /\ UNCHANGED <<conn, clients, toDaemon, deadline, shimVars, handler, stdinMu, registry,
                 main, sigCh, bounds>>

CastWrites(s) ==
  /\ reader[s].at = "write" /\ Running
  /\ LET c == reader[s].to IN
       /\ Writable(c) /\ Len(toClient[c]) < SockCap
       /\ toClient' = [toClient EXCEPT ![c] = Append(@, reader[s].line)]
  /\ Visited(s)
  /\ UNCHANGED <<conn, clients, toDaemon, deadline, shimVars, handler, stdinMu, registry,
                 main, sigCh, bounds>>

\* The write failed or timed out: the client is dropped.
CastFails(s) ==
  /\ reader[s].at = "write" /\ Running
  /\ ~Writable(reader[s].to)
  /\ Close(reader[s].to)
  /\ Visited(s)
  /\ UNCHANGED <<toDaemon, toClient, deadline, shimVars, handler, stdinMu, registry, main,
                 sigCh, bounds>>

CastDone(s) ==
  /\ reader[s].at = "cast" /\ Running
  /\ reader[s].owed \cap clients \subseteq reader[s].seen
  /\ reader' = [reader EXCEPT ![s] = Scanning]
  /\ UNCHANGED <<clientVars, shimVars, handler, stdinMu, registry, main, sigCh, bounds>>

\* End of file (pluginCmd.Wait closes the pipe, maybe with lines still in it), or a
\* line longer than the scanner's buffer, which ends the loop for good.
ReaderEnds(s) ==
  /\ reader[s].at = "scan" /\ Running
  /\ \/ ~shim.runner
     \/ shim.runner /\ output[s] # <<>> /\ Head(output[s]).type = "toolong"
  /\ reader' = [reader EXCEPT ![s].at = "eof"]
  /\ UNCHANGED <<clientVars, shimVars, handler, stdinMu, registry, main, sigCh, bounds>>

\* Five seconds pass.
DeadlineExpires(c) ==
  /\ deadline[c] = "armed" /\ Running
  /\ deadline' = [deadline EXCEPT ![c] = "expired"]
  /\ UNCHANGED <<conn, clients, toDaemon, toClient, shimVars, daemonVars, bounds>>

-----------------------------------------------------------------------------
(* The shim: one thread, which does not read while a write blocks it. The  *)
(* daemon's process is its runner (tsx), which ends with it and relays     *)
(* SIGTERM, but not SIGKILL: the shim may then be left without a runner.   *)

\* The plugin may answer a command or not.
ShimReads ==
  /\ shim.runner \/ shim.left
  /\ shim.pending = <<>> /\ stdin # <<>>
  /\ stdin' = Tail(stdin)
  /\ LET f == Head(stdin) IN
     \/ /\ ~f.end
        /\ shim' = [shim EXCEPT !.buffer = Append(@, f)]
     \/ /\ f.end
        /\ \E out \in {<<>>, <<[on |-> "stdout", line |-> Line("response", f.from, {})]>>} :
             shim' = [shim EXCEPT !.buffer = <<>>, !.pending = out]
  /\ UNCHANGED <<clientVars, output, daemonVars, bounds>>

\* A log line or event, or the discovery of one more tool.
ShimEmits(s) ==
  /\ shim.runner /\ shim.pending = <<>> /\ emitted < MaxEmit
  /\ emitted' = emitted + 1
  /\ \E line \in {Line("log", Nobody, {})}
                 \cup {Line("discovery", Nobody, {emitted + 1}) : o \in {s} \cap {"stdout"}}
                 \cup {Line("toolong", Nobody, {}) : o \in {s} \cap TooLong} :
       shim' = [shim EXCEPT !.pending = <<[on |-> s, line |-> line]>>]
  /\ UNCHANGED <<clientVars, stdin, output, daemonVars, sent>>

\* What a shim writes that is left without its runner reaches nobody.
ShimWrites ==
  /\ shim.pending # <<>>
  /\ LET p == Head(shim.pending) IN
     \/ /\ shim.runner /\ Len(output[p.on]) < PipeCap
        /\ output' = [output EXCEPT ![p.on] = Append(@, p.line)]
     \/ shim.left /\ UNCHANGED output
  /\ shim' = [shim EXCEPT !.pending = <<>>]
  /\ UNCHANGED <<clientVars, stdin, daemonVars, bounds>>

\* The shim ends and its runner with it, or it ends having been left.
ShimDies ==
  /\ shim.runner \/ shim.left
  /\ shim' = [shim EXCEPT !.runner = FALSE, !.left = FALSE]
  /\ UNCHANGED <<clientVars, stdin, output, daemonVars, bounds>>

-----------------------------------------------------------------------------
(* The main goroutine                                                      *)

\* A signal or a shutdown command: SIGTERM to the shim.
GetSignal ==
  /\ main = "serving" /\ sigCh
  /\ main' = "stopping" /\ sigCh' = FALSE
  /\ UNCHANGED <<clientVars, shimVars, handler, stdinMu, reader, registry, bounds>>

\* WRONG: the timeout only logs.
NoForceKill ==
  /\ main = "stopping" /\ shim.runner
  /\ UNCHANGED vars

\* shimShutdownTimeout: SIGKILL to the runner. The shim, whose stdin is closed by
\* that, may live on.
ForceKill ==
  /\ main = "stopping" /\ shim.runner
  /\ \E left \in BOOLEAN : shim' = [shim EXCEPT !.runner = FALSE, !.left = left]
  /\ UNCHANGED <<clientVars, stdin, output, daemonVars, bounds>>

\* <-doneCh, the runner has ended, then registry.Delete; a shim that failed while
\* the daemon was serving ends the process at once.
ShimDone ==
  /\ main \in {"serving", "stopping"} /\ ~shim.runner
  /\ \/ main' = "closing" /\ registry' = {}
     \/ main = "serving" /\ main' = "ended" /\ UNCHANGED registry
  /\ UNCHANGED <<clientVars, shimVars, handler, stdinMu, reader, sigCh, bounds>>

\* Close all client connections and return.
CloseClients ==
  /\ main = "closing"
  /\ conn' = [c \in Clients |-> IF c \in clients THEN "closed" ELSE conn[c]]
  /\ main' = "ended"
  /\ UNCHANGED <<clients, toDaemon, toClient, deadline, shimVars, handler, stdinMu, reader,
                 registry, sigCh, bounds>>

-----------------------------------------------------------------------------
HandlerSteps(c) ==
  \/ Take(c) \/ Lock(c) \/ WriteBody(c) \/ WriteNewline(c)
  \/ Reply(c) \/ ReplyFails(c) \/ HandlerEnds(c)

ReaderSteps(s) ==
  \/ ReadLine(s) \/ CastWrites(s) \/ CastFails(s) \/ CastDone(s) \/ ReaderEnds(s)
  \/ \E c \in Clients : Cast(s, c)

MainSteps == GetSignal \/ ForceKill \/ ShimDone \/ CloseClients

Next ==
  \/ \E c \in Clients :
       \/ Receive(c) \/ HangUp(c) \/ \E r \in Requests : Send(c, r)
       \/ Accept(c) \/ HandlerSteps(c) \/ DeadlineExpires(c)
  \/ \E s \in Streams : ReaderSteps(s) \/ ShimEmits(s)
  \/ ShimReads \/ ShimWrites \/ ShimDies
  \/ MainSteps

Spec == Init /\ [][Next]_vars

\* The Go scheduler runs every goroutine that can run, a sync.Mutex does not
\* starve a waiter, time passes, and the shim reads and writes when it can.
\* Nothing makes a client read, hang up or send.
MainGoesOn == WF_vars(MainSteps)

Fairness ==
  /\ \A c \in Clients : /\ WF_vars(HandlerSteps(c)) /\ SF_vars(Lock(c))
                        /\ WF_vars(DeadlineExpires(c))
  /\ \A s \in Streams : WF_vars(ReaderSteps(s))
  /\ WF_vars(ShimReads) /\ WF_vars(ShimWrites)
  /\ MainGoesOn

FairSpec == Spec /\ Fairness

-----------------------------------------------------------------------------
HandlerPlaces == {"none", "scan"} \cup Forwarding \cup Replies
HandlerStates == [at : HandlerPlaces, tools : SUBSET Tools]
ReaderStates == [at : {"scan", "cast", "write", "eof"}, line : Lines,
                 to : Clients \cup {Nobody}, owed : SUBSET Clients, seen : SUBSET Clients]
Outputs == [on : Streams, line : Lines]
ShimStates == [runner : BOOLEAN, left : BOOLEAN, buffer : Seq(Fragments),
               pending : Seq(Outputs)]

\* No queue holds more than the socket or the pipe it stands for: a write that
\* finds no room waits, whoever of the handlers, readers and shim makes it.
QueuesAreBounded ==
  /\ \A c \in Clients : Len(toDaemon[c]) <= SockCap /\ Len(toClient[c]) <= SockCap
  /\ Len(stdin) <= PipeCap
  /\ \A s \in Streams : Len(output[s]) <= PipeCap

TypeOK ==
  /\ conn \in [Clients -> {"queued", "open", "hungup", "closed"}]
  /\ clients \subseteq Clients
  /\ toDaemon \in [Clients -> Seq(Requests)] /\ toClient \in [Clients -> Seq(Lines)]
  /\ deadline \in [Clients -> {"none", "armed", "expired"}]
  /\ handler \in [Clients -> HandlerStates]
  /\ stdinMu \in Clients \cup {Nobody}
  /\ stdin \in Seq(Fragments)
  /\ output \in [Streams -> Seq(Lines)]
  /\ reader \in [Streams -> ReaderStates]
  /\ \A s \in Streams : reader[s].at = "write" => reader[s].to \in Clients
  /\ shim \in ShimStates
  /\ registry \subseteq Tools
  /\ main \in {"serving", "stopping", "closing", "ended"}
  /\ sigCh \in BOOLEAN
  /\ sent \in [Clients -> 0..MaxSend] /\ emitted \in 0..MaxEmit
  /\ QueuesAreBounded

\* What the shim reads is always one client's whole line after the other: no
\* handler's body or newline lands inside another's line, though every line is
\* written in two steps that may block.
LinesAreWhole == Whole(shim.buffer \o stdin)

\* While the daemon serves, whoever has been told of a tool, or is about to be,
\* gets it from list_tools too: the registry is never behind a broadcast.
DiscoveryIsBacked ==
  main = "serving" =>
    /\ \A c \in Clients : \A i \in 1..Len(toClient[c]) :
         toClient[c][i].tools \subseteq registry
    /\ \A s \in Streams : reader[s].at \in {"cast", "write"} =>
                             reader[s].line.tools \subseteq registry

\* Every connection broadcasts go to has a handler that will take it out of the
\* map when its client is gone, however evictions, hang-ups and failed answers
\* follow each other.
NoClientLeaks == \A c \in clients : Running => ~At(c, "none")

\* No broadcast and no shutdown waits for what may never come: the write to a
\* client that does not read has a deadline that can expire, and the main
\* goroutine, once asked to stop, needs nobody.
ShuttingDown == main \in {"stopping", "closing"} \/ (main = "serving" /\ sigCh)
Waiting(s) ==
  /\ reader[s].at = "write"
  /\ Writable(reader[s].to) /\ Len(toClient[reader[s].to]) >= SockCap
Casting(s) == reader[s].at \in {"cast", "write"} /\ ~Waiting(s)

NobodyBlocks ==
  /\ ShuttingDown => ENABLED <<MainSteps>>_vars
  /\ \A s \in Streams : Running =>
       /\ Casting(s) => ENABLED <<ReaderSteps(s)>>_vars
       /\ Waiting(s) => \E c \in Clients : c = reader[s].to /\ ENABLED <<DeadlineExpires(c)>>_vars

\* All that ENABLED is needed for: a goroutine at a place where one of its steps
\* has its guard can step.
MainReady ==
  \/ main = "serving" /\ sigCh
  \/ main = "stopping" /\ shim.runner
  \/ main = "stopping" /\ ~shim.runner
  \/ main = "closing"

ReaderReady(s) ==
  \/ reader[s].at = "cast" /\ \E c \in Clients : c \in clients \ reader[s].seen
  \/ reader[s].at = "cast" /\ reader[s].owed \cap clients \subseteq reader[s].seen
  \/ reader[s].at = "write" /\ ~Writable(reader[s].to)
  \/ /\ reader[s].at = "write" /\ Writable(reader[s].to)
     /\ Len(toClient[reader[s].to]) < SockCap

GuardsEnable ==
  /\ MainReady => ENABLED <<MainSteps>>_vars
  /\ \A s \in Streams : Running =>
       /\ ReaderReady(s) => ENABLED <<ReaderSteps(s)>>_vars
       /\ \A c \in Clients : Waiting(s) /\ c = reader[s].to /\ deadline[c] = "armed" =>
            ENABLED <<DeadlineExpires(c)>>_vars

\* Why no broadcast waits for ever: the client it writes to has a deadline, also
\* when another reader and evictions have come between.
WritesAreTimed ==
  \A s \in Streams : reader[s].at = "write" => deadline[reader[s].to] # "none"

\* A client that does not read cannot stop the traffic of the others: a handler
\* that forwards a line gets rid of it even if the pipes to and from the shim
\* and that client's socket are all full, because a broadcast gives up on it.
ForwardingNeverSticks ==
  \A c \in Clients : handler[c].at \in Forwarding ~> handler[c].at \notin Forwarding \/ ~Running

\* A shutdown command ends the process, whatever the shim and the clients do.
ShutdownCompletes == sigCh ~> ~Running

-----------------------------------------------------------------------------
(* The daemon lives the life of DaemonLife, from the moment it serves:     *)
(* ConnectorLifecycle says how it gets there, this module what happens     *)
(* around it then.                                                         *)

This == {"daemon"}
Phase ==
  CASE main = "serving" -> "running"
    [] main \in {"stopping", "closing"} -> "draining"
    [] main = "ended" -> "ended"
Life == INSTANCE DaemonLife
          WITH Daemons <- This, phase <- [d \in This |-> Phase],
               shim <- [d \in This |-> IF shim.runner THEN "up"
                                    ELSE IF shim.left THEN "left" ELSE "done"]

\* With clients, handlers, broadcasts and a full pipe around it, it drains on
\* request or when its shim has ended, and ends with the runner gone and no earlier;
\* only the kill of a runner that does not end in time may leave the shim behind.
LivesItsLife == [][Life!LifeNext]_(Life!lifeVars)

\* And once it drains it ends.
DrainEnds == \A d \in This : Life!DrainEnds(d)

-----------------------------------------------------------------------------
(* The inductive invariant                                                 *)

\* The mutex is held exactly between the two writes of a line.
MutexIsHeld == \A c \in Clients : handler[c].at \in {"body", "newline"} <=> stdinMu = c

\* The pipe ends in a body exactly while its writer has the newline to write.
LastIsOwed ==
  LET read == shim.buffer \o stdin IN
  shim.runner =>
    /\ \A c \in Clients : At(c, "newline") => /\ read # <<>>
                                             /\ read[Len(read)] = Fragment(c, FALSE)
    /\ read # <<>> /\ ~read[Len(read)].end => At(read[Len(read)].from, "newline")

\* No answer under way speaks of a tool that is not registered.
AnswersAreBacked ==
  main = "serving" => \A c \in Clients : handler[c].tools \subseteq registry

IInv ==
  /\ TypeOK
  /\ LinesAreWhole /\ MutexIsHeld /\ LastIsOwed
  /\ DiscoveryIsBacked /\ AnswersAreBacked
  /\ NoClientLeaks

=============================================================================
