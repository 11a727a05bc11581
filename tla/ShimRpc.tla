------------------------------- MODULE ShimRpc -------------------------------
(***************************************************************************)
(* Calls in both directions between the clients of a connector daemon and  *)
(* its plugin process.                                                     *)
(*                                                                         *)
(* Towards the plugin: InvokeTool and DiscoverTools (internal/mcp), the    *)
(* forwarding branch of handleConnector and `c2c call` send one command on *)
(* a connection of their own and wait for the line with its id, each with  *)
(* its own goroutine, timer and read deadline.                             *)
(*                                                                         *)
(* From the plugin: for every message it receives it asks for a reply      *)
(* (sendCommand in the plugin-sdk shim); the daemon broadcasts the request *)
(* and consumers such as `c2c echo` answer it.                             *)
(*                                                                         *)
(* DaemonIPC models the daemon's own goroutines and queues; here it is a   *)
(* relay that may die, lose its shim or drop a client.                     *)
(***************************************************************************)
EXTENDS Naturals, Sequences

CONSTANTS
  Callers,    \* calls made, each once
  Consumers,  \* `c2c echo`
  Messages    \* what the plugin receives from its platform

Clients == Callers \cup Consumers

ASSUME RpcAssumption ==
  Callers \cap Consumers = {} /\ Clients \cap Messages = {}

VARIABLES
  kind,     \* the code that makes each call
  call,     \* each call: "idle", "waiting", or what its caller was told
  late,     \* calls whose timer has fired (or that are over: context cancelled)
  scanner,  \* the goroutine that reads the connection: "none", "scan",
            \* what it holds for the result channel, or "done"
  result,   \* the result channel, of capacity one
  link,     \* each connection: "none", "open", "cut" by the daemon, "closed"
  inbox,    \* lines on their way to a client
  outbox,   \* lines on their way to the daemon
  daemon,   \* "up", "reaped" (it has waited for its shim) or "gone"
  toShim, fromShim,  \* the pipes
  shim,     \* "up" or "dead"
  stdoutClosed,  \* the shim has seen its stdin close
  pending,  \* pendingRequests: messages whose request awaits a reply
  armed,    \* messages whose five-minute timer has not fired
  promise,  \* what became of each request for a reply
  service   \* what became of each call in the shim (or the daemon)

callerVars == <<kind, call, late, scanner, result>>
wireVars == <<link, inbox, outbox>>
pipeVars == <<toShim, fromShim>>
requestVars == <<pending, armed, promise>>
vars == <<callerVars, wireVars, daemon, pipeVars, shim, stdoutClosed, requestVars, service>>

\* A line carries a type and the id of the call or request it belongs to.
Line(t, i) == [type |-> t, id |-> i]
Lines == [type : {"command", "response", "error"}, id : Callers \cup Messages]

Outcomes == {"ok", "failed", "timeout", "unanswered"}
Held == {"ok", "failed", "unanswered"}

\* InvokeTool is a tool handler of `c2c mcp serve`, DiscoverTools runs when the
\* server starts, handleConnector forwards an action of the plugin's own, and
\* "shell" is `c2c call`.
Kinds == {"InvokeTool", "DiscoverTools", "handleConnector", "shell"}
IsKind(c, k) == kind[c] = k
Lists(c) == IsKind(c, "DiscoverTools")
Forwards(c) == IsKind(c, "handleConnector")

\* Two of them check ctx.Done before each line, and all but the shell set a
\* read deadline.
Cancelled(c) == c \in late /\ (IsKind(c, "InvokeTool") \/ Lists(c))
PastDeadline(c) == c \in late /\ ~IsKind(c, "shell")

Init ==
  /\ kind = [c \in Callers |-> "shell"]
  /\ call = [c \in Callers |-> "idle"] /\ late = {}
  /\ scanner = [c \in Callers |-> "none"] /\ result = [c \in Callers |-> "empty"]
  /\ link = [x \in Clients |-> "none"]
  /\ inbox = [x \in Clients |-> <<>>] /\ outbox = [x \in Clients |-> <<>>]
  /\ daemon = "up" /\ toShim = <<>> /\ fromShim = <<>>
  /\ shim = "up" /\ stdoutClosed = FALSE
  /\ pending = {} /\ armed = {} /\ promise = [m \in Messages |-> "none"]
  /\ service = [c \in Callers |-> "none"]

\* Lines that nobody will read any more are not kept.
Reads(x) == link[x] = "open" /\ (x \in Callers => scanner[x] = "scan")
Receive(x, l) == IF Reads(x) THEN Append(inbox[x], l) ELSE inbox[x]
Deliver(x, l) == inbox' = [inbox EXCEPT ![x] = Receive(x, l)]

-----------------------------------------------------------------------------
(* Callers                                                                 *)

\* attachConnectorFn, and the command written on the new connection.
Issue(c) ==
  /\ call[c] = "idle" /\ daemon # "gone"
  /\ \E k \in Kinds : kind' = [kind EXCEPT ![c] = k]
  /\ call' = [call EXCEPT ![c] = "waiting"]
  /\ scanner' = [scanner EXCEPT ![c] = "scan"]
  /\ link' = [link EXCEPT ![c] = "open"]
  /\ outbox' = [outbox EXCEPT ![c] = <<Line("command", c)>>]
  /\ UNCHANGED <<late, result, inbox, daemon, pipeVars, shim, stdoutClosed, requestVars, service>>

Refused(c) ==
  /\ call[c] = "idle" /\ daemon = "gone"
  /\ call' = [call EXCEPT ![c] = "failed"]
  /\ UNCHANGED <<kind, late, scanner, result, wireVars, daemon, pipeVars, shim, stdoutClosed,
                 requestVars, service>>

\* The deferred calls: the context is cancelled and the connection closed.
Return(c, outcome) ==
  /\ call' = [call EXCEPT ![c] = outcome]
  /\ late' = late \cup {c}
  /\ link' = [link EXCEPT ![c] = "closed"]

\* WRONG: a channel closed without a value ends the wait like an answer.
TakeZero(c) ==
  /\ call[c] = "waiting" /\ (result[c] # "empty" \/ scanner[c] = "done")
  /\ Return(c, result[c])
  /\ UNCHANGED <<kind, scanner, result, inbox, outbox, daemon, pipeVars, shim, stdoutClosed,
                 requestVars, service>>

TakeResult(c) ==
  /\ call[c] = "waiting" /\ result[c] # "empty"
  /\ Return(c, result[c])
  /\ UNCHANGED <<kind, scanner, result, inbox, outbox, daemon, pipeVars, shim, stdoutClosed,
                 requestVars, service>>

\* The context's timer, time.After, or the read deadline of handleConnector.
TimerExpires(c) ==
  /\ call[c] = "waiting" /\ c \notin late
  /\ late' = late \cup {c}
  /\ UNCHANGED <<kind, call, scanner, result, wireVars, daemon, pipeVars, shim, stdoutClosed,
                 requestVars, service>>

\* WRONG: nothing but the result ends the wait.
NoTimeout(c) == FALSE /\ UNCHANGED vars

Timeout(c) ==
  /\ call[c] = "waiting" /\ c \in late /\ ~Forwards(c)
  /\ Return(c, "timeout")
  /\ UNCHANGED <<kind, scanner, result, inbox, outbox, daemon, pipeVars, shim, stdoutClosed,
                 requestVars, service>>

\* Ctrl-C in `c2c call`.
Interrupt(c) ==
  /\ IsKind(c, "shell") /\ call[c] = "waiting"
  /\ Return(c, "failed")
  /\ UNCHANGED <<kind, scanner, result, inbox, outbox, daemon, pipeVars, shim, stdoutClosed,
                 requestVars, service>>

-----------------------------------------------------------------------------
(* The goroutine that reads a caller's connection                          *)

NextLine(x) == inbox' = [inbox EXCEPT ![x] = Tail(@)]

Stops(c, with) ==
  /\ scanner' = [scanner EXCEPT ![c] = with]
  /\ inbox' = [inbox EXCEPT ![c] = <<>>]

GivesUp(c) ==
  /\ scanner[c] = "scan" /\ inbox[c] # <<>>
  /\ Cancelled(c)
  /\ Stops(c, "done")
  /\ UNCHANGED <<kind, call, late, result, link, outbox, daemon, pipeVars, shim, stdoutClosed,
                 requestVars, service>>

Scanned(c) ==
  /\ scanner[c] = "scan" /\ inbox[c] # <<>>
  /\ ~Cancelled(c)

\* WRONG: the first answer to come is taken for one's own.
TakeAny(c) ==
  /\ Scanned(c)
  /\ \/ Head(inbox[c]).type = "command" /\ NextLine(c) /\ UNCHANGED scanner
     \/ Head(inbox[c]).type = "response" /\ Stops(c, "ok")
     \/ Head(inbox[c]).type = "error" /\ Stops(c, "failed")
  /\ UNCHANGED <<kind, call, late, result, link, outbox, daemon, pipeVars, shim, stdoutClosed,
                 requestVars, service>>

\* Broadcasts of other calls and requests pass by.
ScanLine(c) ==
  /\ Scanned(c)
  /\ \/ Head(inbox[c]).id # c /\ NextLine(c) /\ UNCHANGED scanner
     \/ Head(inbox[c]) = Line("response", c) /\ Stops(c, "ok")
     \/ Head(inbox[c]) = Line("error", c) /\ Stops(c, "failed")
  /\ UNCHANGED <<kind, call, late, result, link, outbox, daemon, pipeVars, shim, stdoutClosed,
                 requestVars, service>>

\* WRONG: InvokeTool says nothing of a closed connection either.
SilentEnd(c) ==
  /\ scanner[c] = "scan"
  /\ \/ link[c] = "closed"
     \/ inbox[c] = <<>> /\ (link[c] = "cut" \/ PastDeadline(c))
  /\ Stops(c, "done")
  /\ UNCHANGED <<kind, call, late, result, link, outbox, daemon, pipeVars, shim, stdoutClosed,
                 requestVars, service>>

\* The connection or the read deadline ends the scan. DiscoverTools says
\* nothing, handleConnector takes an orderly end for an answer.
ScanEnds(c) ==
  /\ scanner[c] = "scan"
  /\ \/ link[c] = "closed"
     \/ inbox[c] = <<>> /\ (link[c] = "cut" \/ PastDeadline(c))
  /\ \/ Lists(c) /\ Stops(c, "done")
     \/ ~Lists(c) /\ Stops(c, "failed")
     \/ Forwards(c) /\ link[c] = "cut" /\ Stops(c, "unanswered")
  /\ UNCHANGED <<kind, call, late, result, link, outbox, daemon, pipeVars, shim, stdoutClosed,
                 requestVars, service>>

\* WRONG: an unbuffered channel, which needs its receiver.
PutUnbuffered(c) ==
  /\ scanner[c] \in Held /\ call[c] = "waiting"
  /\ result' = [result EXCEPT ![c] = scanner[c]]
  /\ scanner' = [scanner EXCEPT ![c] = "done"]
  /\ UNCHANGED <<kind, call, late, wireVars, daemon, pipeVars, shim, stdoutClosed, requestVars, service>>

\* resultCh has room for the one value that is ever sent.
PutResult(c) ==
  /\ scanner[c] \in Held /\ result[c] = "empty"
  /\ result' = [result EXCEPT ![c] = scanner[c]]
  /\ scanner' = [scanner EXCEPT ![c] = "done"]
  /\ UNCHANGED <<kind, call, late, wireVars, daemon, pipeVars, shim, stdoutClosed, requestVars, service>>

-----------------------------------------------------------------------------
(* Consumers                                                               *)

Attach(x) ==
  /\ x \in Consumers /\ link[x] = "none" /\ daemon # "gone"
  /\ link' = [link EXCEPT ![x] = "open"]
  /\ UNCHANGED <<callerVars, inbox, outbox, daemon, pipeVars, shim, stdoutClosed, requestVars,
                 service>>

\* It answers every request for a reply it reads, and ignores other lines.
Consume(x) ==
  /\ x \in Consumers /\ link[x] # "closed" /\ inbox[x] # <<>>
  /\ LET l == Head(inbox[x])
     IN  outbox' = IF l.type = "command" /\ link[x] = "open"
                     THEN [outbox EXCEPT ![x] = Append(@, Line("response", l.id))]
                     ELSE outbox
  /\ NextLine(x)
  /\ UNCHANGED <<callerVars, link, daemon, pipeVars, shim, stdoutClosed, requestVars, service>>

\* Ctrl-C, or the end of the connection.
Leave(x) ==
  /\ x \in Consumers /\ link[x] \in {"open", "cut"}
  /\ link' = [link EXCEPT ![x] = "closed"]
  /\ inbox' = [inbox EXCEPT ![x] = <<>>]
  /\ UNCHANGED <<callerVars, outbox, daemon, pipeVars, shim, stdoutClosed, requestVars,
                 service>>

-----------------------------------------------------------------------------
(* The daemon                                                              *)

\* WRONG: a line is written to the shim again after a write that failed late.
HandleTwice(x) ==
  /\ daemon # "gone" /\ outbox[x] # <<>> /\ shim = "up"
  /\ outbox' = [outbox EXCEPT ![x] = Tail(@)]
  /\ toShim' = toShim \o <<Head(outbox[x]), Head(outbox[x])>>
  /\ UNCHANGED <<callerVars, link, inbox, daemon, fromShim, shim, stdoutClosed, requestVars, service>>

\* A client's handler takes a line, which it may have read ahead. DiscoverTools is answered from the tool
\* registry, everything else goes to the shim's stdin; a line that cannot be
\* written there is answered with FORWARD_FAILED.
Handle(x) ==
  /\ daemon # "gone" /\ outbox[x] # <<>>
  /\ outbox' = [outbox EXCEPT ![x] = Tail(@)]
  /\ LET l == Head(outbox[x])
         local == x \in Callers /\ Lists(x)
     IN  \/ /\ local
            /\ service' = [service EXCEPT ![x] = "ok"]
            /\ Deliver(x, Line("response", x))
            /\ UNCHANGED toShim
         \/ /\ ~local /\ shim = "up"
            /\ toShim' = Append(toShim, l)
            /\ UNCHANGED <<inbox, service>>
         \/ /\ ~local /\ shim = "dead"
            /\ Deliver(x, Line("error", l.id))
            /\ UNCHANGED <<toShim, service>>
  /\ UNCHANGED <<callerVars, link, daemon, fromShim, shim, stdoutClosed, requestVars>>

\* The stdout reader takes a line and writes it to every client.
Broadcast ==
  /\ daemon # "gone" /\ fromShim # <<>>
  /\ fromShim' = Tail(fromShim)
  /\ inbox' = [x \in Clients |-> Receive(x, Head(fromShim))]
  /\ UNCHANGED <<callerVars, link, outbox, daemon, toShim, shim, stdoutClosed, requestVars, service>>

\* A write to a client failed.
Evict(x) ==
  /\ daemon # "gone" /\ link[x] = "open"
  /\ link' = [link EXCEPT ![x] = "cut"]
  /\ UNCHANGED <<callerVars, inbox, outbox, daemon, pipeVars, shim, stdoutClosed, requestVars,
                 service>>

\* pluginCmd.Wait returns, and closes the pipe with what is still in it.
Reap ==
  /\ daemon = "up" /\ shim = "dead"
  /\ daemon' = "reaped"
  /\ fromShim' = <<>>
  /\ UNCHANGED <<callerVars, wireVars, toShim, shim, stdoutClosed, requestVars, service>>

Cut ==
  /\ link' = [x \in Clients |-> IF link[x] = "open" THEN "cut" ELSE link[x]]
  /\ outbox' = [x \in Clients |-> <<>>]

\* The end of runDaemon.
CloseAll ==
  /\ daemon = "reaped"
  /\ daemon' = "gone"
  /\ Cut
  /\ UNCHANGED <<callerVars, inbox, pipeVars, shim, stdoutClosed, requestVars, service>>

\* The daemon is killed: its shim goes on, and reads what is in the pipe.
DaemonDies ==
  /\ daemon = "up"
  /\ daemon' = "gone"
  /\ fromShim' = <<>>
  /\ Cut
  /\ UNCHANGED <<callerVars, inbox, toShim, shim, stdoutClosed, requestVars, service>>

-----------------------------------------------------------------------------
(* The shim                                                                *)

ShimDies ==
  /\ shim = "up"
  /\ shim' = "dead"
  /\ toShim' = <<>>
  /\ UNCHANGED <<callerVars, wireVars, daemon, fromShim, stdoutClosed, requestVars, service>>

\* sendMessage: nobody reads the pipe of a daemon that is gone.
Emit(l) ==
  fromShim' = IF stdoutClosed \/ daemon = "gone" THEN fromShim ELSE Append(fromShim, l)

\* rl.on("line") with an invoke_tool command: handleInvokeTool starts a tool
\* or answers UNKNOWN_TOOL. With an action of its own (handleConnector) it
\* may also be one that nothing handles.
ReadCommand ==
  /\ shim = "up" /\ toShim # <<>> /\ Head(toShim).type = "command"
  /\ LET c == Head(toShim).id
     IN  \/ service' = [service EXCEPT ![c] = "running"] /\ UNCHANGED fromShim
         \/ Emit(Line("error", c)) /\ UNCHANGED service
         \/ Forwards(c) /\ UNCHANGED <<fromShim, service>>
  /\ toShim' = Tail(toShim)
  /\ UNCHANGED <<callerVars, wireVars, daemon, shim, stdoutClosed, requestVars>>

\* The tool's promise settles.
ToolEnds(c) ==
  /\ shim = "up" /\ service[c] = "running"
  /\ \/ service' = [service EXCEPT ![c] = "ok"] /\ Emit(Line("response", c))
     \/ service' = [service EXCEPT ![c] = "failed"] /\ Emit(Line("error", c))
  /\ UNCHANGED <<callerVars, wireVars, daemon, toShim, shim, stdoutClosed, requestVars>>

\* WRONG: sendCommand without a timeout of its own.
ArrivesUntimed(m) ==
  /\ shim = "up" /\ promise[m] = "none"
  /\ promise' = [promise EXCEPT ![m] = "waiting"]
  /\ pending' = pending \cup {m}
  /\ Emit(Line("command", m))
  /\ UNCHANGED <<callerVars, wireVars, daemon, toShim, shim, stdoutClosed, armed, service>>

\* dispatchReplyFromConfig calls sendCommand. After stdin has closed the line
\* goes nowhere and only the timer is left to end the wait.
MessageArrives(m) ==
  /\ shim = "up" /\ promise[m] = "none"
  /\ promise' = [promise EXCEPT ![m] = "waiting"]
  /\ pending' = pending \cup {m} /\ armed' = armed \cup {m}
  /\ Emit(Line("command", m))
  /\ UNCHANGED <<callerVars, wireVars, daemon, toShim, shim, stdoutClosed, service>>

\* rl.on("line") with a response: only the first one to a request counts.
ReadReply ==
  /\ shim = "up" /\ toShim # <<>> /\ Head(toShim).type = "response"
  /\ LET m == Head(toShim).id
     IN  /\ pending' = pending \ {m}
         /\ promise' = IF m \in pending THEN [promise EXCEPT ![m] = "replied"] ELSE promise
  /\ toShim' = Tail(toShim)
  /\ UNCHANGED <<callerVars, wireVars, daemon, fromShim, shim, stdoutClosed, armed, service>>

\* setTimeout in sendCommand, never cancelled.
TimerFires(m) ==
  /\ shim = "up" /\ m \in armed
  /\ armed' = armed \ {m}
  /\ pending' = pending \ {m}
  /\ promise' = IF m \in pending THEN [promise EXCEPT ![m] = "rejected"] ELSE promise
  /\ UNCHANGED <<callerVars, wireVars, daemon, pipeVars, shim, stdoutClosed, service>>

\* WRONG: the requests are forgotten instead of rejected.
ForgetRequests ==
  /\ shim = "up" /\ daemon = "gone" /\ toShim = <<>> /\ ~stdoutClosed
  /\ stdoutClosed' = TRUE
  /\ pending' = {}
  /\ UNCHANGED <<callerVars, wireVars, daemon, pipeVars, shim, armed, promise, service>>

\* rl.on("close").
StdinCloses ==
  /\ shim = "up" /\ daemon = "gone" /\ toShim = <<>> /\ ~stdoutClosed
  /\ stdoutClosed' = TRUE
  /\ promise' = [m \in Messages |-> IF m \in pending THEN "rejected" ELSE promise[m]]
  /\ pending' = {}
  /\ UNCHANGED <<callerVars, wireVars, daemon, pipeVars, shim, armed, service>>

-----------------------------------------------------------------------------
ScannerSteps(c) == GivesUp(c) \/ ScanLine(c) \/ ScanEnds(c) \/ PutResult(c)

Caller(c) ==
  \/ Issue(c) \/ Refused(c) \/ TakeResult(c) \/ TimerExpires(c) \/ Timeout(c) \/ Interrupt(c)
  \/ ScannerSteps(c)

Consumer(x) == Attach(x) \/ Consume(x) \/ Leave(x)

Daemon == (\E x \in Clients : Handle(x) \/ Evict(x)) \/ Broadcast \/ Reap \/ CloseAll \/ DaemonDies

Shim ==
  \/ ShimDies \/ ReadCommand \/ ReadReply \/ StdinCloses
  \/ \E c \in Callers : ToolEnds(c)
  \/ \E m \in Messages : MessageArrives(m) \/ TimerFires(m)

Next ==
  \/ \E c \in Callers : Caller(c)
  \/ \E x \in Consumers : Consumer(x)
  \/ Daemon \/ Shim

Spec == Init /\ [][Next]_vars

\* Goroutines and timers of the callers and of the shim go on; a caller's own
\* timer, which would end every wait, is left out so that it can be asked what
\* ends without it. Tools, consumers and clients promise nothing.
ScannerGoesOn(c) == WF_vars(ScannerSteps(c))
CallerGoesOn(c) == WF_vars(TakeResult(c) \/ Timeout(c))
CallTimed(c) == WF_vars(TimerExpires(c))
RequestTimed(m) == WF_vars(TimerFires(m))
ShimGoesOn == WF_vars(StdinCloses) /\ WF_vars(ReadCommand \/ ReadReply)

Fairness ==
  /\ \A c \in Callers : ScannerGoesOn(c) /\ CallerGoesOn(c)
  /\ \A m \in Messages : RequestTimed(m)
  /\ ShimGoesOn

FairSpec == Spec /\ Fairness

-----------------------------------------------------------------------------
TypeOK ==
  /\ kind \in [Callers -> Kinds]
  /\ call \in [Callers -> {"idle", "waiting"} \cup Outcomes]
  /\ late \subseteq Callers
  /\ scanner \in [Callers -> {"none", "scan", "done"} \cup Held]
  /\ result \in [Callers -> {"empty"} \cup Held]
  /\ link \in [Clients -> {"none", "open", "cut", "closed"}]
  /\ inbox \in [Clients -> Seq(Lines)] /\ outbox \in [Clients -> Seq(Lines)]
  /\ daemon \in {"up", "reaped", "gone"} /\ shim \in {"up", "dead"}
  /\ toShim \in Seq(Lines) /\ fromShim \in Seq(Lines)
  /\ stdoutClosed \in BOOLEAN
  /\ pending \subseteq Messages /\ armed \subseteq Messages
  /\ promise \in [Messages -> {"none", "waiting", "replied", "rejected"}]
  /\ service \in [Callers -> {"none", "running", "ok", "failed"}]

\* However broadcasts for several callers interleave, whoever dies and however
\* late an answer comes: a caller told of success was served with success.
AnswerIsOwn == \A c \in Callers : call[c] = "ok" => service[c] = "ok"

\* A request the plugin waits for is still in pendingRequests with its timer
\* running, so that a reply, the timer or the end of stdin can settle it.
RequestsAreBacked ==
  \A m \in Messages :
    /\ promise[m] = "waiting" <=> m \in pending
    /\ m \in pending => m \in armed

\* Why the first holds. A response exists only for a call served with success,
\* wherever it is by now; the command of a call is in one place at most, and
\* then the call has not been served.
Within(l, q) == \E i \in 1..Len(q) : q[i] = l

ResponsesAreTrue ==
  \A c \in Callers : service[c] # "ok" =>
    /\ scanner[c] # "ok" /\ result[c] # "ok" /\ call[c] # "ok"
    /\ ~Within(Line("response", c), fromShim)
    /\ \A x \in Clients : ~Within(Line("response", c), inbox[x])

IsCommand(l) == l.type = "command"
Once(q) == \A i, j \in 1..Len(q) : IsCommand(q[i]) /\ q[i] = q[j] => i = j

CommandsAreSentOnce ==
  /\ \A c \in Callers :
       /\ outbox[c] \in {<<>>, <<Line("command", c)>>}
       /\ outbox[c] # <<>> => /\ call[c] # "idle" /\ service[c] = "none"
                             /\ ~Within(Line("command", c), toShim)
  /\ \A x \in Consumers, l \in Lines : Within(l, outbox[x]) => ~IsCommand(l)
  /\ \A l \in Lines : Within(l, toShim) /\ IsCommand(l) =>
       l.id \in Callers /\ call[l.id] # "idle" /\ service[l.id] = "none"
  /\ Once(toShim)

NothingBeforeIssue == \A c \in Callers : call[c] = "idle" => service[c] = "none"

IInv ==
  /\ TypeOK /\ RequestsAreBacked /\ ResponsesAreTrue /\ CommandsAreSentOnce
  /\ NothingBeforeIssue /\ AnswerIsOwn

\* What a returned call leaves behind: a goroutine whose context is cancelled, with
\* room for its result as long as it has not put one; handleConnector, which has
\* no timer beside it, leaves none.
Returned(c) == call[c] \notin {"idle", "waiting"}
CallsLeaveClean ==
  \A c \in Callers :
    /\ call[c] = "idle" => scanner[c] = "none"
    /\ result[c] # "empty" => scanner[c] = "done"
    /\ Returned(c) /\ scanner[c] # "none" => c \in late
    /\ Returned(c) /\ Forwards(c) => scanner[c] \in {"none", "done"}

\* Nobody is left with something to do and no way to do it: a goroutine that holds
\* an answer finds room for it, also when its caller has gone, and one that still
\* reads when its call has returned, or a connection that is cut, goes on; a caller
\* waits only with a timer ahead of it, and returns once that has fired (handleConnector
\* by its goroutine alone) or there is a result; a request for a reply waits only
\* with a timer that can still fire.
NobodyBlocks ==
  /\ \A c \in Callers :
       /\ scanner[c] \in Held \/ (scanner[c] = "scan" /\ (Returned(c) \/ link[c] = "cut")) =>
            ENABLED <<ScannerSteps(c)>>_vars
       /\ call[c] = "waiting" /\ c \notin late => ENABLED <<TimerExpires(c)>>_vars
       /\ call[c] = "waiting" /\ (result[c] # "empty" \/ (c \in late /\ ~Forwards(c))) =>
            ENABLED <<TakeResult(c) \/ Timeout(c)>>_vars
  /\ \A m \in Messages : promise[m] = "waiting" /\ shim = "up" => ENABLED <<TimerFires(m)>>_vars

\* The same where in addition the guard of a step holds: all that ENABLED is
\* needed for.
ScannerReady(c) ==
  \/ scanner[c] \in Held /\ result[c] = "empty"
  \/ scanner[c] = "scan" /\ Returned(c) /\ link[c] = "closed"
  \/ scanner[c] = "scan" /\ link[c] = "cut" /\ ~Within(Line("command", c), inbox[c])

GuardsEnable ==
  /\ \A c \in Callers :
       /\ ScannerReady(c) => ENABLED <<ScannerSteps(c)>>_vars
       /\ call[c] = "waiting" /\ c \notin late => ENABLED <<TimerExpires(c)>>_vars
       /\ call[c] = "waiting" /\ (result[c] # "empty" \/ (c \in late /\ ~Forwards(c))) =>
            ENABLED <<TakeResult(c) \/ Timeout(c)>>_vars
  /\ \A m \in Messages : promise[m] = "waiting" /\ shim = "up" /\ m \in armed =>
       ENABLED <<TimerFires(m)>>_vars

\* Why a goroutine knows what to do with every line: the command of a call goes to
\* the shim only, and the shim sends requests of its own.
OnlyThePluginAsks ==
  /\ \A l \in Lines : Within(l, fromShim) /\ IsCommand(l) => l.id \in Messages
  /\ \A x \in Clients, l \in Lines : Within(l, inbox[x]) /\ IsCommand(l) => l.id \in Messages

\* Why a caller whose goroutine has ended without a result has a timer that fired:
\* only InvokeTool and DiscoverTools stop for a cancelled context, and of those that
\* come to the end of the connection only DiscoverTools says nothing.
SilenceIsLate ==
  \A c \in Callers :
    /\ call[c] = "waiting" => scanner[c] # "none"
    /\ scanner[c] = "done" /\ result[c] = "empty" => Lists(c) \/ (c \in late /\ ~Forwards(c))

\* Why a goroutine that still reads when its call has returned stops: the call
\* closes the connection on whatever way out it takes, and nothing opens it again.
ReturnsClose == \A c \in Callers : Returned(c) /\ scanner[c] # "none" => link[c] = "closed"

\* Every request for a reply settles while the shim lives, with or without a
\* daemon.
EveryRequestSettles ==
  \A m \in Messages :
    promise[m] = "waiting" ~> promise[m] \in {"replied", "rejected"} \/ shim = "dead"

\* Whatever a caller returns on, the goroutine it started ends.
ScannersEnd ==
  \A c \in Callers :
    Returned(c) ~> scanner[c] \in {"none", "done"}

\* With the timers of the callers every call returns.
CallsReturn ==
  (\A c \in Callers : CallTimed(c))
    => \A c \in Callers : call[c] = "waiting" ~> call[c] # "waiting"

\* Without them still, once the daemon has dropped the connection; only
\* DiscoverTools waits for its timer then.
CutEndsCall ==
  \A c \in Callers :
    call[c] = "waiting" /\ link[c] = "cut" /\ ~Lists(c) ~> call[c] # "waiting"

Remote == INSTANCE RemoteCall

\* Calls through the daemon are served at most once, and success is reported
\* only of those served with success.
CallSafety == Remote!CallSafety

=============================================================================
