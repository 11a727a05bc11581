--------------------------- MODULE DaemonIPC_proofs ---------------------------
(***************************************************************************)
(* Proofs about DaemonIPC, for every set of clients and every capacity of  *)
(* the queues. LinesAreWhole is not inductive: MutexIsHeld and LastIsOwed  *)
(* say who may write next to the pipe, given how it ends.                  *)
(***************************************************************************)
EXTENDS DaemonIPC, TLAPS

-----------------------------------------------------------------------------
(* Types                                                                   *)

LEMMA SequenceType ==
  ASSUME NEW S, NEW q \in Seq(S)
  PROVE  /\ \A e \in S : Append(q, e) \in Seq(S)
         /\ q # <<>> => Head(q) \in S /\ Tail(q) \in Seq(S)
OBVIOUS

LEMMA LineType ==
  ASSUME NEW t \in Replies \cup {"response", "log", "discovery", "toolong"},
         NEW c \in Clients \cup {Nobody}, NEW tools \in SUBSET Tools
  PROVE  Line(t, c, tools) \in Lines
BY DEF Line, Lines

LEMMA LineTools == \A line \in Lines : line.tools \subseteq Tools
BY DEF Lines

LEMMA LineOfReader == \A r \in ReaderStates : r.line \in Lines
BY DEF ReaderStates

LEMMA FragmentType ==
  \A c \in Clients, end \in BOOLEAN : Fragment(c, end) \in Fragments
BY DEF Fragment, Fragments

LEMMA HandlerType ==
  ASSUME NEW hs \in [Clients -> HandlerStates], NEW c \in Clients
  PROVE  /\ \A p \in HandlerPlaces : [hs EXCEPT ![c].at = p] \in [Clients -> HandlerStates]
         /\ \A p \in HandlerPlaces :
              [hs EXCEPT ![c] = Handler(p)] \in [Clients -> HandlerStates]
         /\ \A tools \in SUBSET Tools :
              [hs EXCEPT ![c] = [Handler("tools") EXCEPT !.tools = tools]]
                \in [Clients -> HandlerStates]
         /\ hs[c].at \in HandlerPlaces /\ hs[c].tools \subseteq Tools
BY DEF Handler, HandlerStates, HandlerPlaces, Replies

LEMMA Places ==
  {"none", "scan", "pong", "tools", "error", "lock", "body", "newline"} \subseteq HandlerPlaces
BY DEF HandlerPlaces, Forwarding, Replies

LEMMA ReaderType ==
  ASSUME NEW rs \in [Streams -> ReaderStates], NEW s \in Streams
  PROVE  /\ rs[s].line \in Lines /\ rs[s].to \in Clients \cup {Nobody}
         /\ rs[s].owed \subseteq Clients /\ rs[s].seen \subseteq Clients
         /\ \A c \in Clients :
              [rs EXCEPT ![s].at = "write", ![s].to = c] \in [Streams -> ReaderStates]
         /\ [rs EXCEPT ![s].at = "eof"] \in [Streams -> ReaderStates]
         /\ rs[s].to \in Clients =>
              [rs EXCEPT ![s].at = "cast", ![s].to = Nobody, ![s].seen = @ \cup {rs[s].to}]
                \in [Streams -> ReaderStates]
         /\ \A line \in Lines, owed \in SUBSET Clients :
              [rs EXCEPT ![s] = [at |-> "cast", line |-> line, to |-> Nobody, owed |-> owed,
                                 seen |-> {}]] \in [Streams -> ReaderStates]
BY DEF ReaderStates

LEMMA ScanningType == Scanning \in ReaderStates
BY LineType DEF Scanning, ReaderStates

LEMMA ShimType ==
  ASSUME NEW x \in ShimStates
  PROVE  /\ x.runner \in BOOLEAN /\ x.left \in BOOLEAN
         /\ x.buffer \in Seq(Fragments) /\ x.pending \in Seq(Outputs)
         /\ \A left \in BOOLEAN : [x EXCEPT !.runner = FALSE, !.left = left] \in ShimStates
         /\ \A p \in Seq(Outputs) : [x EXCEPT !.pending = p] \in ShimStates
         /\ \A b \in Seq(Fragments) : [x EXCEPT !.buffer = b] \in ShimStates
         /\ \A p \in Seq(Outputs) : [x EXCEPT !.buffer = <<>>, !.pending = p] \in ShimStates
<1> <<>> \in Seq(Fragments)
  OBVIOUS
<1> QED
  BY DEF ShimStates

LEMMA OutputType ==
  /\ \A s \in Streams, line \in Lines : <<[on |-> s, line |-> line]>> \in Seq(Outputs)
  /\ \A o \in Outputs : o.on \in Streams /\ o.line \in Lines
  /\ <<>> \in Seq(Outputs)
BY DEF Outputs

LEMMA TypeInit == Init => TypeOK
<1> SUFFICES ASSUME Init PROVE TypeOK
  OBVIOUS
<1>1. handler \in [Clients -> HandlerStates]
  BY DEF Init, Handler, HandlerStates, HandlerPlaces
<1>2. /\ reader \in [Streams -> ReaderStates]
      /\ \A s \in Streams : reader[s].at = "write" => reader[s].to \in Clients
  <2>1. Scanning.at = "scan"
    BY DEF Scanning
  <2> QED
    BY <2>1, ScanningType DEF Init
<1>3. shim \in ShimStates
  <2> <<>> \in Seq(Fragments) /\ <<>> \in Seq(Outputs)
    OBVIOUS
  <2> QED
    BY DEF Init, ShimStates
<1>4. /\ toDaemon \in [Clients -> Seq(Requests)] /\ toClient \in [Clients -> Seq(Lines)]
      /\ output \in [Streams -> Seq(Lines)] /\ stdin \in Seq(Fragments)
  BY DEF Init
<1>5. /\ conn \in [Clients -> {"queued", "open", "hungup", "closed"}]
      /\ clients \subseteq Clients
      /\ deadline \in [Clients -> {"none", "armed", "expired"}]
      /\ stdinMu \in Clients \cup {Nobody}
      /\ registry \subseteq Tools
      /\ main \in {"serving", "stopping", "closing", "ended"} /\ sigCh \in BOOLEAN
  BY DEF Init
<1>6. sent \in [Clients -> 0..MaxSend] /\ emitted \in 0..MaxEmit
  <2> 0 \in 0..MaxSend /\ 0 \in 0..MaxEmit
    BY IPCAssumption
  <2> QED
    BY DEF Init
<1>7. QueuesAreBounded
  <2> Len(<<>>) = 0 /\ 0 <= SockCap /\ 0 <= PipeCap
    BY IPCAssumption
  <2> QED
    BY DEF Init, QueuesAreBounded
<1> QED
  BY <1>1, <1>2, <1>3, <1>4, <1>5, <1>6, <1>7 DEF TypeOK

LEMMA QueueLengths ==
  ASSUME NEW S, NEW q \in Seq(S), NEW cap \in Nat
  PROVE  /\ Len(q) \in Nat
         /\ \A e \in S : Len(q) < cap => Len(Append(q, e)) <= cap
         /\ q # <<>> /\ Len(q) <= cap => Len(Tail(q)) <= cap
OBVIOUS

\* Only a write makes a queue longer, and it waits for room.
LEMMA QueuesStep == TypeOK /\ [Next]_vars => QueuesAreBounded'
<1> SUFFICES ASSUME TypeOK, [Next]_vars PROVE QueuesAreBounded'
  OBVIOUS
<1> /\ toDaemon \in [Clients -> Seq(Requests)] /\ toClient \in [Clients -> Seq(Lines)]
    /\ stdin \in Seq(Fragments) /\ output \in [Streams -> Seq(Lines)]
    /\ handler \in [Clients -> HandlerStates] /\ reader \in [Streams -> ReaderStates]
    /\ shim \in ShimStates /\ QueuesAreBounded
    /\ SockCap \in Nat /\ PipeCap \in Nat
  BY IPCAssumption DEF TypeOK
<1>1. ASSUME UNCHANGED <<toDaemon, toClient, stdin, output>> PROVE QueuesAreBounded'
  BY <1>1 DEF QueuesAreBounded
<1>2. ASSUME NEW c \in Clients, NEW r \in Requests, Send(c, r) PROVE QueuesAreBounded'
  <2>1. Len(Append(toDaemon[c], r)) <= SockCap
    BY <1>2, QueueLengths DEF Send
  <2> QED
    BY <1>2, <2>1 DEF Send, shimVars, QueuesAreBounded
<1>3. ASSUME NEW c \in Clients, Receive(c) PROVE QueuesAreBounded'
  <2>1. Len(Tail(toClient[c])) <= SockCap
    BY <1>3, QueueLengths DEF Receive, QueuesAreBounded
  <2> QED
    BY <1>3, <2>1 DEF Receive, shimVars, QueuesAreBounded
<1>4. ASSUME NEW c \in Clients, Take(c) PROVE QueuesAreBounded'
  <2>1. Len(Tail(toDaemon[c])) <= SockCap
    BY <1>4, QueueLengths DEF Take, QueuesAreBounded
  <2> QED
    BY <1>4, <2>1 DEF Take, shimVars, QueuesAreBounded
<1>5. ASSUME NEW c \in Clients, WriteBody(c) \/ WriteNewline(c) PROVE QueuesAreBounded'
  <2>1. ASSUME NEW end \in BOOLEAN, Len(stdin) < PipeCap, stdin' = Append(stdin, Fragment(c, end))
        PROVE  Len(stdin') <= PipeCap
    BY <2>1, FragmentType, QueueLengths
  <2>2. stdin' = stdin \/ Len(stdin') <= PipeCap
    BY <1>5, <2>1 DEF WriteBody, WriteNewline
  <2>3. UNCHANGED <<toDaemon, toClient, output>>
    BY <1>5 DEF WriteBody, WriteNewline, clientVars
  <2> QED
    BY <2>2, <2>3 DEF QueuesAreBounded
<1>6. ASSUME NEW c \in Clients, Reply(c) PROVE QueuesAreBounded'
  <2>1. Line(handler[c].at, c, handler[c].tools) \in Lines
    BY <1>6, LineType, HandlerType DEF Reply, Replying
  <2>2. Len(Append(toClient[c], Line(handler[c].at, c, handler[c].tools))) <= SockCap
    BY <1>6, <2>1, QueueLengths DEF Reply
  <2> QED
    BY <1>6, <2>2 DEF Reply, shimVars, QueuesAreBounded
<1>7. ASSUME NEW s \in Streams, ReadLine(s) PROVE QueuesAreBounded'
  <2>1. Len(Tail(output[s])) <= PipeCap
    BY <1>7, QueueLengths DEF ReadLine, QueuesAreBounded
  <2> QED
    BY <1>7, <2>1 DEF ReadLine, clientVars, QueuesAreBounded
<1>8. ASSUME NEW s \in Streams, CastWrites(s) PROVE QueuesAreBounded'
  <2>1. reader[s].line \in Lines /\ reader[s].to \in Clients
    BY <1>8, ReaderType DEF CastWrites, TypeOK
  <2>2. Len(Append(toClient[reader[s].to], reader[s].line)) <= SockCap
    BY <1>8, <2>1, QueueLengths DEF CastWrites
  <2> QED
    BY <1>8, <2>1, <2>2 DEF CastWrites, shimVars, QueuesAreBounded
<1>9. CASE ShimReads
  <2>1. Len(Tail(stdin)) <= PipeCap
    BY <1>9, QueueLengths DEF ShimReads, QueuesAreBounded
  <2> QED
    BY <1>9, <2>1 DEF ShimReads, clientVars, QueuesAreBounded
<1>10. CASE ShimWrites
  <2> DEFINE p == Head(shim.pending)
  <2>1. p.on \in Streams /\ p.line \in Lines
    BY <1>10, SequenceType, ShimType, OutputType DEF ShimWrites
  <2>2. ASSUME Len(output[p.on]) < PipeCap PROVE Len(Append(output[p.on], p.line)) <= PipeCap
    BY <2>1, <2>2, QueueLengths
  <2> QED
    BY <1>10, <2>1, <2>2 DEF ShimWrites, clientVars, QueuesAreBounded
<1>11. CASE \/ \E c \in Clients : \/ HangUp(c) \/ DeadlineExpires(c) \/ Accept(c) \/ Lock(c)
                                  \/ ReplyFails(c) \/ HandlerEnds(c)
                                  \/ \E s \in Streams : Cast(s, c)
            \/ \E s \in Streams : \/ CastFails(s) \/ CastDone(s) \/ ReaderEnds(s) \/ ShimEmits(s)
            \/ ShimDies \/ GetSignal \/ ForceKill \/ ShimDone \/ CloseClients
            \/ UNCHANGED vars
  BY <1>1, <1>11
  DEF HangUp, DeadlineExpires, Accept, Lock, ReplyFails, HandlerEnds, Cast, CastFails, CastDone,
      ReaderEnds, ShimEmits, ShimDies, GetSignal, ForceKill, ShimDone, CloseClients, vars,
      clientVars, shimVars
<1> QED
  BY <1>2, <1>3, <1>4, <1>5, <1>6, <1>7, <1>8, <1>9, <1>10, <1>11
  DEF Next, HandlerSteps, ReaderSteps, MainSteps

LEMMA TypeStep == TypeOK /\ [Next]_vars => TypeOK'
<1> SUFFICES ASSUME TypeOK, [Next]_vars PROVE TypeOK'
  OBVIOUS
<1> QueuesAreBounded'
  BY QueuesStep
<1>1. ASSUME NEW c \in Clients, NEW r \in Requests, Send(c, r) PROVE TypeOK'
  <2>1. (sent \in [Clients -> 0..MaxSend])'
    BY <1>1, IPCAssumption DEF TypeOK, Send, clientVars, shimVars, daemonVars,
      bounds
  <2>2. (toDaemon \in [Clients -> Seq(Requests)])'
    BY <1>1, IPCAssumption, SequenceType DEF TypeOK, Send, clientVars,
      shimVars, daemonVars, bounds
  <2> QED
    BY <1>1, <2>1, <2>2 DEF TypeOK, Send, clientVars, shimVars, daemonVars,
      bounds
<1>2. ASSUME NEW c \in Clients, Receive(c) PROVE TypeOK'
  <2>1. (toClient \in [Clients -> Seq(Lines)])'
    BY <1>2, IPCAssumption, SequenceType DEF TypeOK, Receive, clientVars,
      shimVars, daemonVars, bounds
  <2> QED
    BY <1>2, <2>1 DEF TypeOK, Receive, clientVars, shimVars, daemonVars,
      bounds
<1>3. ASSUME NEW c \in Clients, HangUp(c) PROVE TypeOK'
  <2>1. (conn \in [Clients -> {"queued", "open", "hungup", "closed"}])'
    BY <1>3, IPCAssumption DEF TypeOK, HangUp, clientVars, shimVars,
      daemonVars, bounds
  <2> QED
    BY <1>3, <2>1 DEF TypeOK, HangUp, clientVars, shimVars, daemonVars, bounds
<1>4. ASSUME NEW c \in Clients, Accept(c) PROVE TypeOK'
  <2>1. (conn \in [Clients -> {"queued", "open", "hungup", "closed"}])'
    BY <1>4, IPCAssumption DEF TypeOK, Accept, clientVars, shimVars,
      daemonVars, bounds
  <2>2. (clients \subseteq Clients)'
    BY <1>4, IPCAssumption DEF TypeOK, Accept, clientVars, shimVars,
      daemonVars, bounds
  <2>3. (handler \in [Clients -> HandlerStates])'
    BY <1>4, IPCAssumption, HandlerType, Places DEF TypeOK, Accept, Move,
      Become, clientVars, shimVars, daemonVars, bounds
  <2> QED
    BY <1>4, <2>1, <2>2, <2>3 DEF TypeOK, Accept, clientVars, shimVars,
      daemonVars, bounds
<1>5. ASSUME NEW c \in Clients, Take(c) PROVE TypeOK'
  <2>1. (toDaemon \in [Clients -> Seq(Requests)])'
    BY <1>5, IPCAssumption, SequenceType DEF TypeOK, Take, clientVars,
      shimVars, daemonVars, bounds
  <2>2. (handler \in [Clients -> HandlerStates])'
    <3>1. CASE handler' = handler
      BY <3>1 DEF TypeOK
    <3>2. ASSUME NEW p \in HandlerPlaces, handler' = [handler EXCEPT ![c].at = p]
          PROVE  handler' \in [Clients -> HandlerStates]
      BY <3>2, HandlerType DEF TypeOK
    <3>3. CASE handler' = [handler EXCEPT ![c] = [Handler("tools") EXCEPT !.tools = registry]]
      BY <3>3, HandlerType DEF TypeOK
    <3> QED
      BY <1>5, <3>1, <3>2, <3>3, Places DEF Take, Move, Become
  <2>3. (sigCh \in BOOLEAN)'
    BY <1>5, IPCAssumption DEF TypeOK, Take, clientVars, shimVars, daemonVars,
      bounds
  <2> QED
    BY <1>5, <2>1, <2>2, <2>3 DEF TypeOK, Take, clientVars, shimVars,
      daemonVars, bounds
<1>6. ASSUME NEW c \in Clients, Lock(c) PROVE TypeOK'
  <2>1. (stdinMu \in Clients \cup {Nobody})'
    BY <1>6, IPCAssumption DEF TypeOK, Lock, clientVars, shimVars, daemonVars,
      bounds
  <2>2. (handler \in [Clients -> HandlerStates])'
    BY <1>6, IPCAssumption, HandlerType, Places DEF TypeOK, Lock, Move,
      Become, clientVars, shimVars, daemonVars, bounds
  <2> QED
    BY <1>6, <2>1, <2>2 DEF TypeOK, Lock, clientVars, shimVars, daemonVars,
      bounds
<1>7. ASSUME NEW c \in Clients, WriteBody(c) PROVE TypeOK'
  <2>1. (stdin \in Seq(Fragments))'
    <3>1. CASE ~shim.runner
      BY <1>7, <3>1 DEF WriteBody, TypeOK
    <3>2. CASE stdin' = Append(stdin, Fragment(c, FALSE))
      BY <1>7, <3>2, SequenceType, FragmentType DEF TypeOK
    <3> QED
      BY <1>7, <3>1, <3>2 DEF WriteBody
  <2>2. (handler \in [Clients -> HandlerStates])'
    <3>1. handler' = [handler EXCEPT ![c].at = "newline"]
      BY <1>7 DEF WriteBody, Move
    <3> QED
      BY <3>1, HandlerType, Places DEF TypeOK
  <2> QED
    BY <1>7, <2>1, <2>2 DEF TypeOK, WriteBody, clientVars, shimVars,
      daemonVars, bounds
<1>8. ASSUME NEW c \in Clients, WriteNewline(c) PROVE TypeOK'
  <2>1. (stdin \in Seq(Fragments))'
    <3>1. CASE ~shim.runner
      BY <1>8, <3>1 DEF WriteNewline, TypeOK
    <3>2. CASE stdin' = Append(stdin, Fragment(c, TRUE))
      BY <1>8, <3>2, SequenceType, FragmentType DEF TypeOK
    <3> QED
      BY <1>8, <3>1, <3>2 DEF WriteNewline
  <2>2. (handler \in [Clients -> HandlerStates])'
    <3>1. PICK p \in {"error", "scan"} : handler' = [handler EXCEPT ![c] = Handler(p)]
      BY <1>8 DEF WriteNewline, Become
    <3> QED
      BY <3>1, HandlerType, Places DEF TypeOK
  <2>3. (stdinMu \in Clients \cup {Nobody})'
    BY <1>8, IPCAssumption DEF TypeOK, WriteNewline, clientVars, shimVars,
      daemonVars, bounds
  <2> QED
    BY <1>8, <2>1, <2>2, <2>3 DEF TypeOK, WriteNewline, clientVars, shimVars,
      daemonVars, bounds
<1>9. ASSUME NEW c \in Clients, Reply(c) PROVE TypeOK'
  <2>1. (toClient \in [Clients -> Seq(Lines)])'
    BY <1>9, IPCAssumption, SequenceType, LineType, HandlerType DEF TypeOK,
      Reply, Replying, Writable, clientVars, shimVars, daemonVars, bounds
  <2>2. (handler \in [Clients -> HandlerStates])'
    BY <1>9, IPCAssumption, HandlerType, Places, LineType DEF TypeOK, Reply,
      Replying, Writable, Move, Become, clientVars, shimVars, daemonVars,
      bounds
  <2> QED
    BY <1>9, <2>1, <2>2 DEF TypeOK, Reply, Replying, Writable, clientVars,
      shimVars, daemonVars, bounds
<1>10. ASSUME NEW c \in Clients, ReplyFails(c) PROVE TypeOK'
  <2>1. (clients \subseteq Clients)'
    BY <1>10, IPCAssumption DEF TypeOK, ReplyFails, Replying, Writable, Close,
      clientVars, shimVars, daemonVars, bounds
  <2>2. (conn \in [Clients -> {"queued", "open", "hungup", "closed"}])'
    BY <1>10, IPCAssumption DEF TypeOK, ReplyFails, Replying, Writable, Close,
      clientVars, shimVars, daemonVars, bounds
  <2>3. (handler \in [Clients -> HandlerStates])'
    <3>1. PICK p \in {"scan", "none"} : handler' = [handler EXCEPT ![c] = Handler(p)]
      BY <1>10 DEF ReplyFails, Become
    <3> QED
      BY <3>1, HandlerType, Places DEF TypeOK
  <2> QED
    BY <1>10, <2>1, <2>2, <2>3 DEF TypeOK, ReplyFails, Replying, Writable,
      Close, clientVars, shimVars, daemonVars, bounds
<1>11. ASSUME NEW c \in Clients, HandlerEnds(c) PROVE TypeOK'
  <2>1. (clients \subseteq Clients)'
    BY <1>11, IPCAssumption DEF TypeOK, HandlerEnds, Close, clientVars,
      shimVars, daemonVars, bounds
  <2>2. (conn \in [Clients -> {"queued", "open", "hungup", "closed"}])'
    BY <1>11, IPCAssumption DEF TypeOK, HandlerEnds, Close, clientVars,
      shimVars, daemonVars, bounds
  <2>3. (handler \in [Clients -> HandlerStates])'
    BY <1>11, IPCAssumption, HandlerType, Places DEF TypeOK, HandlerEnds,
      Close, Move, Become, clientVars, shimVars, daemonVars, bounds
  <2> QED
    BY <1>11, <2>1, <2>2, <2>3 DEF TypeOK, HandlerEnds, Close, clientVars,
      shimVars, daemonVars, bounds
<1>12. ASSUME NEW c \in Clients, DeadlineExpires(c) PROVE TypeOK'
  <2>1. (deadline \in [Clients -> {"none", "armed", "expired"}])'
    BY <1>12, IPCAssumption DEF TypeOK, DeadlineExpires, clientVars, shimVars,
      daemonVars, bounds
  <2> QED
    BY <1>12, <2>1 DEF TypeOK, DeadlineExpires, clientVars, shimVars,
      daemonVars, bounds
<1>13. ASSUME NEW s \in Streams, NEW c \in Clients, Cast(s, c) PROVE TypeOK'
  <2>1. (reader \in [Streams -> ReaderStates])'
    BY <1>13, IPCAssumption, ReaderType, LineType DEF TypeOK, Cast, Scanning,
      clientVars, shimVars, daemonVars, bounds
  <2>2. (deadline \in [Clients -> {"none", "armed", "expired"}])'
    BY <1>13, IPCAssumption DEF TypeOK, Cast, clientVars, shimVars,
      daemonVars, bounds
  <2>3. (\A r \in Streams : reader[r].at = "write" => reader[r].to \in Clients)'
    <3> /\ reader \in [Streams -> ReaderStates]
        /\ \A r \in Streams : reader[r].at = "write" => reader[r].to \in Clients
      BY DEF TypeOK
    <3> QED
      BY <1>13 DEF Cast, ReaderStates
  <2> QED
    BY <1>13, <2>1, <2>2, <2>3 DEF TypeOK, Cast, clientVars, shimVars,
      daemonVars, bounds
<1>14. ASSUME NEW s \in Streams, ReadLine(s) PROVE TypeOK'
  <2>1. (output \in [Streams -> Seq(Lines)])'
    BY <1>14, IPCAssumption, SequenceType DEF TypeOK, ReadLine, ShimStates,
      Outputs, clientVars, shimVars, daemonVars, bounds
  <2>2. (reader \in [Streams -> ReaderStates])'
    <3> Head(output[s]) \in Lines
      BY <1>14, SequenceType DEF TypeOK, ReadLine
    <3> QED
      BY <1>14, ReaderType DEF TypeOK, ReadLine
  <2>3. (registry \subseteq Tools)'
    BY <1>14, IPCAssumption, LineTools DEF TypeOK, ReadLine, clientVars,
      shimVars, daemonVars, bounds
  <2>4. (\A r \in Streams : reader[r].at = "write" => reader[r].to \in Clients)'
    <3> /\ reader \in [Streams -> ReaderStates]
        /\ \A r \in Streams : reader[r].at = "write" => reader[r].to \in Clients
      BY DEF TypeOK
    <3> QED
      BY <1>14 DEF ReadLine, ReaderStates
  <2> QED
    BY <1>14, <2>1, <2>2, <2>3, <2>4 DEF TypeOK, ReadLine, clientVars,
      shimVars, daemonVars, bounds
<1>15. ASSUME NEW s \in Streams, CastWrites(s) PROVE TypeOK'
  <2>1. (toClient \in [Clients -> Seq(Lines)])'
    <3>1. reader[s].line \in Lines /\ reader[s].to \in Clients
      BY <1>15, ReaderType DEF TypeOK, CastWrites
    <3> QED
      BY <1>15, <3>1, SequenceType DEF TypeOK, CastWrites
  <2>2. (reader \in [Streams -> ReaderStates])'
    BY <1>15, ReaderType DEF TypeOK, CastWrites, Visited
  <2>3. (\A r \in Streams : reader[r].at = "write" => reader[r].to \in Clients)'
    <3> /\ reader \in [Streams -> ReaderStates]
        /\ \A r \in Streams : reader[r].at = "write" => reader[r].to \in Clients
      BY DEF TypeOK
    <3> QED
      BY <1>15 DEF CastWrites, Visited, ReaderStates
  <2> QED
    BY <1>15, <2>1, <2>2, <2>3 DEF TypeOK, CastWrites, Visited, Writable,
      clientVars, shimVars, daemonVars, bounds
<1>16. ASSUME NEW s \in Streams, CastFails(s) PROVE TypeOK'
  <2>1. (clients \subseteq Clients)'
    BY <1>16, IPCAssumption, ReaderType, HandlerType DEF TypeOK, CastFails,
      Visited, Close, Writable, clientVars, shimVars, daemonVars, bounds
  <2>2. (conn \in [Clients -> {"queued", "open", "hungup", "closed"}])'
    BY <1>16, IPCAssumption, ReaderType, HandlerType DEF TypeOK, CastFails,
      Visited, Close, Writable, clientVars, shimVars, daemonVars, bounds
  <2>3. (reader \in [Streams -> ReaderStates])'
    BY <1>16, ReaderType DEF TypeOK, CastFails, Visited
  <2>4. (\A r \in Streams : reader[r].at = "write" => reader[r].to \in Clients)'
    <3> /\ reader \in [Streams -> ReaderStates]
        /\ \A r \in Streams : reader[r].at = "write" => reader[r].to \in Clients
      BY DEF TypeOK
    <3> QED
      BY <1>16 DEF CastFails, Visited, ReaderStates
  <2> QED
    BY <1>16, <2>1, <2>2, <2>3, <2>4 DEF TypeOK, CastFails, Visited, Close,
      Writable, clientVars, shimVars, daemonVars, bounds
<1>17. ASSUME NEW s \in Streams, CastDone(s) PROVE TypeOK'
  <2>1. (reader \in [Streams -> ReaderStates])'
    BY <1>17, ScanningType DEF TypeOK, CastDone
  <2>2. (\A r \in Streams : reader[r].at = "write" => reader[r].to \in Clients)'
    <3> /\ reader \in [Streams -> ReaderStates]
        /\ \A r \in Streams : reader[r].at = "write" => reader[r].to \in Clients
      BY DEF TypeOK
    <3> QED
      BY <1>17 DEF CastDone, Scanning, ReaderStates
  <2> QED
    BY <1>17, <2>1, <2>2 DEF TypeOK, CastDone, clientVars, shimVars,
      daemonVars, bounds
<1>18. ASSUME NEW s \in Streams, ReaderEnds(s) PROVE TypeOK'
  <2>1. (reader \in [Streams -> ReaderStates])'
    BY <1>18, IPCAssumption, ReaderType, LineType DEF TypeOK, ReaderEnds,
      Scanning, clientVars, shimVars, daemonVars, bounds
  <2>2. (\A r \in Streams : reader[r].at = "write" => reader[r].to \in Clients)'
    <3> /\ reader \in [Streams -> ReaderStates]
        /\ \A r \in Streams : reader[r].at = "write" => reader[r].to \in Clients
      BY DEF TypeOK
    <3> QED
      BY <1>18 DEF ReaderEnds, ReaderStates
  <2> QED
    BY <1>18, <2>1, <2>2 DEF TypeOK, ReaderEnds, clientVars, shimVars,
      daemonVars, bounds
<1>19. ASSUME NEW s \in Streams, ShimEmits(s) PROVE TypeOK'
  <2>1. (emitted \in 0..MaxEmit)'
    BY <1>19, IPCAssumption DEF TypeOK, ShimEmits, clientVars, shimVars,
      daemonVars, bounds
  <2>2. (shim \in ShimStates)'
    <3>1. PICK line \in Lines : shim' = [shim EXCEPT !.pending = <<[on |-> s, line |-> line]>>]
      <4>1. emitted + 1 \in Tools
        BY <1>19, IPCAssumption DEF TypeOK, ShimEmits, Tools
      <4>2. /\ Line("log", Nobody, {}) \in Lines
            /\ Line("discovery", Nobody, {emitted + 1}) \in Lines
            /\ Line("toolong", Nobody, {}) \in Lines
        BY <4>1, LineType
      <4> QED
        BY <1>19, <4>2 DEF ShimEmits
    <3> QED
      BY <1>19, <3>1, ShimType, OutputType DEF TypeOK
  <2> QED
    BY <1>19, <2>1, <2>2 DEF TypeOK, ShimEmits, clientVars, shimVars,
      daemonVars, bounds
<1>20. ASSUME ShimReads PROVE TypeOK'
  <2>1. (stdin \in Seq(Fragments))'
    BY <1>20, IPCAssumption, SequenceType DEF TypeOK, ShimReads, Fragment,
      Fragments, clientVars, shimVars, daemonVars, bounds
  <2>2. (shim \in ShimStates)'
    <3>1. Head(stdin) \in Fragments
      BY <1>20, SequenceType DEF TypeOK, ShimReads
    <3>2. CASE ~Head(stdin).end
      <4>1. Append(shim.buffer, Head(stdin)) \in Seq(Fragments)
        BY <3>1, ShimType, SequenceType DEF TypeOK
      <4>2. shim' = [shim EXCEPT !.buffer = Append(shim.buffer, Head(stdin))]
        BY <1>20, <3>2 DEF ShimReads
      <4> QED
        BY <4>1, <4>2, ShimType DEF TypeOK
    <3>3. CASE Head(stdin).end
      <4>1. Head(stdin).from \in Clients
        BY <3>1 DEF Fragments
      <4>2. Line("response", Head(stdin).from, {}) \in Lines
        BY <4>1, LineType
      <4>3. \E out \in Seq(Outputs) : shim' = [shim EXCEPT !.buffer = <<>>, !.pending = out]
        BY <1>20, <3>3, <4>2, OutputType, IPCAssumption DEF ShimReads
      <4> QED
        BY <4>3, ShimType DEF TypeOK
    <3> QED
      BY <3>2, <3>3
  <2> QED
    BY <1>20, <2>1, <2>2 DEF TypeOK, ShimReads, clientVars, shimVars,
      daemonVars, bounds
<1>21. ASSUME ShimWrites PROVE TypeOK'
  <2>1. (output \in [Streams -> Seq(Lines)])'
    <3> DEFINE p == Head(shim.pending)
    <3>1. p \in Outputs /\ output \in [Streams -> Seq(Lines)]
      BY <1>21, SequenceType, ShimType DEF TypeOK, ShimWrites
    <3>2. p.on \in Streams /\ Append(output[p.on], p.line) \in Seq(Lines)
      BY <3>1, SequenceType, OutputType
    <3>3. output' = output \/ output' = [output EXCEPT ![p.on] = Append(@, p.line)]
      BY <1>21 DEF ShimWrites
    <3> QED
      BY <3>1, <3>2, <3>3
  <2>2. (shim \in ShimStates)'
    BY <1>21, ShimType, OutputType DEF TypeOK, ShimWrites
  <2> QED
    BY <1>21, <2>1, <2>2 DEF TypeOK, ShimWrites, clientVars, shimVars,
      daemonVars, bounds
<1>22. ASSUME ShimDies PROVE TypeOK'
  <2>1. (shim \in ShimStates)'
    BY <1>22, IPCAssumption, SequenceType, LineType, LineTools DEF TypeOK,
      ShimDies, ShimStates, Outputs, clientVars, shimVars, daemonVars, bounds
  <2> QED
    BY <1>22, <2>1 DEF TypeOK, ShimDies, clientVars, shimVars, daemonVars,
      bounds
<1>23. ASSUME GetSignal PROVE TypeOK'
  <2>1. (main \in {"serving", "stopping", "closing", "ended"})'
    BY <1>23, IPCAssumption DEF TypeOK, GetSignal, clientVars, shimVars,
      daemonVars, bounds
  <2>2. (sigCh \in BOOLEAN)'
    BY <1>23, IPCAssumption DEF TypeOK, GetSignal, clientVars, shimVars,
      daemonVars, bounds
  <2> QED
    BY <1>23, <2>1, <2>2 DEF TypeOK, GetSignal, clientVars, shimVars,
      daemonVars, bounds
<1>24. ASSUME ForceKill PROVE TypeOK'
  <2>1. (shim \in ShimStates)'
    BY <1>24, ShimType DEF TypeOK, ForceKill
  <2> QED
    BY <1>24, <2>1 DEF TypeOK, ForceKill, clientVars, shimVars, daemonVars,
      bounds
<1>25. ASSUME ShimDone PROVE TypeOK'
  <2>1. (main \in {"serving", "stopping", "closing", "ended"})'
    BY <1>25, IPCAssumption DEF TypeOK, ShimDone, clientVars, shimVars,
      daemonVars, bounds
  <2>2. (registry \subseteq Tools)'
    BY <1>25, IPCAssumption, LineTools DEF TypeOK, ShimDone, clientVars,
      shimVars, daemonVars, bounds
  <2> QED
    BY <1>25, <2>1, <2>2 DEF TypeOK, ShimDone, clientVars, shimVars,
      daemonVars, bounds
<1>26. ASSUME CloseClients PROVE TypeOK'
  <2>1. (conn \in [Clients -> {"queued", "open", "hungup", "closed"}])'
    BY <1>26, IPCAssumption DEF TypeOK, CloseClients, clientVars, shimVars,
      daemonVars, bounds
  <2>2. (main \in {"serving", "stopping", "closing", "ended"})'
    BY <1>26, IPCAssumption DEF TypeOK, CloseClients, clientVars, shimVars,
      daemonVars, bounds
  <2> QED
    BY <1>26, <2>1, <2>2 DEF TypeOK, CloseClients, clientVars, shimVars,
      daemonVars, bounds
<1>27. ASSUME UNCHANGED vars PROVE TypeOK'
  BY <1>27 DEF TypeOK, vars, clientVars, shimVars, daemonVars, bounds
<1> QED
  BY <1>1, <1>2, <1>3, <1>4, <1>5, <1>6, <1>7, <1>8, <1>9, <1>10, <1>11,
    <1>12, <1>13, <1>14, <1>15, <1>16, <1>17, <1>18, <1>19, <1>20, <1>21,
    <1>22, <1>23, <1>24, <1>25, <1>26, <1>27 DEF Next, HandlerSteps,
    ReaderSteps, MainSteps

-----------------------------------------------------------------------------
(* The pipe to the shim: forwarded lines never mix                         *)

LEMMA MoveHead ==
  ASSUME NEW S, NEW b \in Seq(S), NEW q \in Seq(S), q # <<>>
  PROVE  Append(b, Head(q)) \o Tail(q) = b \o q
OBVIOUS

LEMMA ConcatAppend ==
  ASSUME NEW S, NEW b \in Seq(S), NEW q \in Seq(S), NEW e \in S
  PROVE  b \o Append(q, e) = Append(b \o q, e)
OBVIOUS

LEMMA NonEmpty ==
  ASSUME NEW S, NEW q \in Seq(S)
  PROVE  (q # <<>> <=> Len(q) > 0) /\ Len(q) \in Nat
OBVIOUS

LEMMA LastOfAppend ==
  ASSUME NEW S, NEW q \in Seq(S), NEW e \in S
  PROVE  Append(q, e) # <<>> /\ Append(q, e)[Len(Append(q, e))] = e
OBVIOUS

LEMMA WriterOfLast ==
  ASSUME NEW q \in Seq(Fragments), q # <<>>
  PROVE  q[Len(q)].from \in Clients
<1> q[Len(q)] \in Fragments
  BY NonEmpty
<1> QED
  BY DEF Fragments

LEMMA WholeAppend ==
  ASSUME NEW q \in Seq(Fragments), NEW f \in Fragments, Whole(q),
         IF q = <<>> THEN ~f.end ELSE Follows(q[Len(q)], f)
  PROVE  Whole(Append(q, f))
<1> DEFINE r == Append(q, f)
<1>1. /\ Len(r) = Len(q) + 1 /\ r[Len(q) + 1] = f /\ Len(q) \in Nat
      /\ \A i \in 1..Len(q) : r[i] = q[i]
      /\ q # <<>> <=> Len(q) > 0
  OBVIOUS
<1> HIDE DEF r
<1>2. ASSUME NEW i \in 1..Len(q) PROVE Follows(r[i], r[i + 1])
  <2>1. CASE i = Len(q)
    BY <1>1, <2>1
  <2>2. CASE i # Len(q)
    <3> i \in 1..(Len(q) - 1) /\ i + 1 \in 1..Len(q)
      BY <1>1, <2>2
    <3> QED
      BY <1>1 DEF Whole
  <2> QED
    BY <2>1, <2>2
<1>3. ~r[1].end
  BY <1>1 DEF Whole
<1>4. Whole(r)
  BY <1>1, <1>2, <1>3 DEF Whole
<1> QED
  BY <1>4 DEF r

LEMMA WholeSuffix ==
  ASSUME NEW b \in Seq(Fragments), NEW q \in Seq(Fragments), q # <<>>,
         Whole(b \o q), Head(q).end
  PROVE  /\ Whole(Tail(q))
         /\ Tail(q) # <<>> => Tail(q)[Len(Tail(q))] = (b \o q)[Len(b \o q)]
         /\ Tail(q) = <<>> => (b \o q)[Len(b \o q)].end
<1> DEFINE r == b \o q
           s == Tail(q)
           k == Len(b) + 1
<1>1. /\ Len(s) = Len(q) - 1 /\ Len(q) \in Nat \ {0} /\ Len(b) \in Nat
      /\ Len(r) = Len(b) + Len(q) /\ Len(s) \in Nat
  OBVIOUS
<1>2. s # <<>> <=> Len(s) > 0
  <2> s \in Seq(Fragments)
    OBVIOUS
  <2> QED
    BY NonEmpty
<1>3. \A i \in 1..Len(s) : s[i] = q[i + 1]
  OBVIOUS
<1>4. \A i \in 1..Len(q) : q[i] = r[Len(b) + i]
  OBVIOUS
<1>5. Head(q) = q[1]
  OBVIOUS
<1> HIDE DEF r, s
<1>6. r[k].end
  BY <1>1, <1>4, <1>5
<1>7. ASSUME NEW i \in 1..Len(s) PROVE s[i] = r[k + i]
  <2> i + 1 \in 1..Len(q) /\ Len(b) + (i + 1) = k + i
    BY <1>1
  <2> QED
    BY <1>3, <1>4
<1>8. ASSUME NEW i \in 1..(Len(r) - 1) PROVE Follows(r[i], r[i + 1])
  BY DEF Whole, r
<1>9. ASSUME NEW i \in 1..(Len(s) - 1) PROVE Follows(s[i], s[i + 1])
  <2> /\ i \in 1..Len(s) /\ i + 1 \in 1..Len(s)
      /\ k + i \in 1..(Len(r) - 1) /\ k + (i + 1) = k + i + 1
    BY <1>1
  <2> QED
    BY <1>7, <1>8
<1>10. s # <<>> => ~s[1].end
  <2> SUFFICES ASSUME s # <<>> PROVE ~s[1].end
    OBVIOUS
  <2> 1 \in 1..Len(s) /\ k \in 1..(Len(r) - 1)
    BY <1>1, <1>2
  <2> s[1] = r[k + 1] /\ Follows(r[k], r[k + 1])
    BY <1>7, <1>8
  <2> QED
    BY <1>6 DEF Follows
<1>11. Whole(s)
  BY <1>9, <1>10 DEF Whole
<1>12. s # <<>> => s[Len(s)] = r[Len(r)]
  <2> Len(s) > 0 => Len(s) \in 1..Len(s) /\ k + Len(s) = Len(r)
    BY <1>1
  <2> QED
    BY <1>2, <1>7
<1>13. s = <<>> => r[Len(r)].end
  BY <1>1, <1>2, <1>6
<1> QED
  BY <1>11, <1>12, <1>13 DEF r, s

LinesInv == LinesAreWhole /\ MutexIsHeld /\ LastIsOwed

LEMMA PipeType ==
  ASSUME TypeOK
  PROVE  /\ shim.buffer \in Seq(Fragments) /\ stdin \in Seq(Fragments)
         /\ shim.buffer \o stdin \in Seq(Fragments)
<1>1. shim.buffer \in Seq(Fragments)
  BY ShimType DEF TypeOK
<1>2. stdin \in Seq(Fragments)
  BY DEF TypeOK
<1> QED
  BY <1>1, <1>2

LEMMA AppendToPipe ==
  ASSUME TypeOK, NEW f \in Fragments
  PROVE  shim.buffer \o Append(stdin, f) = Append(shim.buffer \o stdin, f)
<1>1. \A b, q \in Seq(Fragments) : b \o Append(q, f) = Append(b \o q, f)
  BY ConcatAppend
<1> QED
  BY <1>1, PipeType

\* The daemon and the shim may do anything that leaves the pipe and the
\* handlers that write to it alone.
LEMMA HandlerAside ==
  ASSUME TypeOK, LinesInv, NEW c \in Clients, NEW h \in HandlerStates,
         handler' = [handler EXCEPT ![c] = h],
         handler[c].at \notin {"body", "newline"}, h.at \notin {"body", "newline"},
         UNCHANGED <<shim, stdin, stdinMu>>
  PROVE  LinesInv'
<1>1. handler \in [Clients -> HandlerStates]
  BY DEF TypeOK
<1>2. \A d \in Clients : /\ At(d, "newline")' <=> At(d, "newline")
                         /\ At(d, "body")' <=> At(d, "body")
  BY <1>1 DEF At
<1>3. LinesAreWhole' /\ MutexIsHeld'
  BY <1>2 DEF LinesInv, LinesAreWhole, MutexIsHeld, At
<1>4. LastIsOwed'
  <2>1. \A q : q \in Seq(Fragments) /\ q # <<>> => q[Len(q)].from \in Clients
    BY WriterOfLast
  <2>2. shim.buffer \o stdin \in Seq(Fragments)
    BY PipeType
  <2> QED
    BY <1>2, <2>1, <2>2 DEF LinesInv, LastIsOwed
<1> QED
  BY <1>3, <1>4 DEF LinesInv

LEMMA ShimAside ==
  ASSUME LinesInv, shim'.buffer = shim.buffer, shim'.runner => shim.runner,
         UNCHANGED <<stdin, handler, stdinMu>>
  PROVE  LinesInv'
BY DEF LinesInv, LinesAreWhole, MutexIsHeld, LastIsOwed, At

LEMMA WriteBodyLines ==
  ASSUME TypeOK, LinesInv, NEW c \in Clients, WriteBody(c)
  PROVE  LinesInv'
<1> DEFINE q == shim.buffer \o stdin
           f == Fragment(c, FALSE)
<1>1. /\ handler \in [Clients -> HandlerStates]
      /\ handler' = [handler EXCEPT ![c].at = "newline"]
      /\ handler[c].at = "body" /\ stdinMu = c
      /\ UNCHANGED <<shim, stdinMu>>
  BY DEF TypeOK, WriteBody, Move, At, LinesInv, MutexIsHeld
<1>2. MutexIsHeld'
  BY <1>1 DEF LinesInv, MutexIsHeld, HandlerStates
<1>3. CASE ~shim.runner
  BY <1>1, <1>2, <1>3 DEF WriteBody, LinesInv, LinesAreWhole, LastIsOwed
<1>4. CASE shim.runner
  <2>1. (shim.buffer \o stdin)' = Append(q, f)
    <3>1. stdin' = Append(stdin, f) /\ shim' = shim
      BY <1>1, <1>4 DEF WriteBody
    <3>2. f \in Fragments
      BY FragmentType
    <3>3. shim.buffer \o Append(stdin, f) = Append(q, f)
      BY <3>2, AppendToPipe
    <3> QED
      BY <3>1, <3>3
  <2>2. /\ q \in Seq(Fragments) /\ f \in Fragments
        /\ ~f.end /\ f.from = c
    BY PipeType, FragmentType DEF Fragment
  <2>3. q # <<>> => q[Len(q)].end
    <3> SUFFICES ASSUME q # <<>>, ~q[Len(q)].end PROVE FALSE
      OBVIOUS
    <3>1. q[Len(q)].from \in Clients
      BY <2>2, WriterOfLast
    <3>2. At(q[Len(q)].from, "newline")
      BY <1>4 DEF LinesInv, LastIsOwed
    <3>3. stdinMu = q[Len(q)].from
      BY <3>1, <3>2 DEF LinesInv, MutexIsHeld, At
    <3> QED
      BY <1>1, <3>2, <3>3 DEF At
  <2>4. LinesAreWhole'
    <3>1. Whole(q)
      BY DEF LinesInv, LinesAreWhole
    <3>2. Whole(Append(q, f))
      BY <2>2, <2>3, <3>1, WholeAppend DEF Follows
    <3> QED
      BY <2>1, <3>2 DEF LinesAreWhole
  <2>5. LastIsOwed'
    <3>1. /\ Append(q, f) # <<>> /\ Append(q, f)[Len(Append(q, f))] = f
      BY <2>2, LastOfAppend
    <3>2. \A d \in Clients : At(d, "newline")' => d = c
      BY <1>1, <1>2 DEF At, MutexIsHeld
    <3>3. At(c, "newline")'
      BY <1>1 DEF At, HandlerStates
    <3> QED
      BY <2>1, <2>2, <3>1, <3>2, <3>3 DEF LastIsOwed
  <2> QED
    BY <1>2, <2>4, <2>5 DEF LinesInv
<1> QED
  BY <1>3, <1>4

LEMMA WriteNewlineLines ==
  ASSUME TypeOK, LinesInv, NEW c \in Clients, WriteNewline(c)
  PROVE  LinesInv'
<1> DEFINE q == shim.buffer \o stdin
           f == Fragment(c, TRUE)
<1>1. /\ handler \in [Clients -> HandlerStates]
      /\ handler[c].at = "newline" /\ stdinMu = c
      /\ UNCHANGED shim /\ stdinMu' = Nobody
      /\ \E p \in {"scan", "error"} : handler' = [handler EXCEPT ![c] = Handler(p)]
  BY DEF TypeOK, WriteNewline, Become, At, LinesInv, MutexIsHeld
<1>2. \A d \in Clients : handler[d].at \in {"body", "newline"} => d = c
  BY <1>1 DEF LinesInv, MutexIsHeld
<1>3. \A d \in Clients : handler'[d].at \notin {"body", "newline"}
  BY <1>1, <1>2 DEF Handler
<1>4. MutexIsHeld'
  BY <1>1, <1>3, IPCAssumption DEF MutexIsHeld
<1>5. CASE ~shim.runner
  BY <1>1, <1>4, <1>5 DEF WriteNewline, LinesInv, LinesAreWhole, LastIsOwed
<1>6. CASE shim.runner
  <2>1. (shim.buffer \o stdin)' = Append(q, f)
    <3>1. stdin' = Append(stdin, f) /\ shim' = shim
      BY <1>1, <1>6 DEF WriteNewline
    <3>2. f \in Fragments
      BY FragmentType
    <3>3. shim.buffer \o Append(stdin, f) = Append(q, f)
      BY <3>2, AppendToPipe
    <3> QED
      BY <3>1, <3>3
  <2>2. q \in Seq(Fragments) /\ f \in Fragments /\ f.end
    BY PipeType, FragmentType DEF Fragment
  <2>3. q # <<>> /\ q[Len(q)] = Fragment(c, FALSE)
    BY <1>1, <1>6 DEF LinesInv, LastIsOwed, At
  <2>4. LinesAreWhole'
    <3>1. Follows(q[Len(q)], f)
      BY <2>3 DEF Follows, Fragment
    <3>2. Whole(q)
      BY DEF LinesInv, LinesAreWhole
    <3>3. Whole(Append(q, f))
      BY <2>2, <2>3, <3>1, <3>2, WholeAppend
    <3> QED
      BY <2>1, <3>3 DEF LinesAreWhole
  <2>5. LastIsOwed'
    <3>1. Append(q, f)[Len(Append(q, f))] = f
      BY <2>2, LastOfAppend
    <3> QED
      BY <1>3, <2>1, <2>2, <3>1 DEF LastIsOwed, At
  <2> QED
    BY <1>4, <2>4, <2>5 DEF LinesInv
<1> QED
  BY <1>5, <1>6

LEMMA ShimReadsLines ==
  ASSUME TypeOK, LinesInv, ShimReads
  PROVE  LinesInv'
<1> DEFINE b == shim.buffer
           q == stdin
<1>1. /\ b \in Seq(Fragments) /\ q \in Seq(Fragments) /\ b \o q \in Seq(Fragments)
      /\ q # <<>> /\ Whole(b \o q) /\ shim \in ShimStates
      /\ stdin' = Tail(q)
      /\ UNCHANGED <<handler, stdinMu>>
  BY PipeType DEF TypeOK, ShimReads, LinesInv, LinesAreWhole, daemonVars
<1>2. MutexIsHeld'
  BY <1>1 DEF LinesInv, MutexIsHeld
<1>3. CASE ~Head(q).end
  <2>1. shim'.buffer = Append(b, Head(q)) /\ shim'.runner = shim.runner
    BY <1>1, <1>3 DEF ShimReads, ShimStates
  <2>2. (shim.buffer \o stdin)' = shim.buffer \o stdin
    BY <1>1, <2>1, MoveHead
  <2> QED
    BY <1>1, <1>2, <2>1, <2>2 DEF LinesInv, LinesAreWhole, LastIsOwed, At
<1>4. CASE Head(q).end
  <2>1. shim'.buffer = <<>> /\ shim'.runner = shim.runner
    BY <1>1, <1>4 DEF ShimReads, ShimStates
  <2>2. (shim.buffer \o stdin)' = Tail(q)
    BY <1>1, <2>1
  <2>3. /\ Whole(Tail(q))
        /\ Tail(q) # <<>> => Tail(q)[Len(Tail(q))] = (b \o q)[Len(b \o q)]
        /\ Tail(q) = <<>> => (b \o q)[Len(b \o q)].end
    BY <1>1, <1>4, WholeSuffix
  <2>4. b \o q # <<>>
    BY <1>1
  <2>5. LinesAreWhole'
    BY <2>2, <2>3 DEF LinesAreWhole
  <2> SUFFICES ASSUME shim.runner PROVE LinesInv'
    BY <1>2, <2>1, <2>5 DEF LinesInv, LastIsOwed
  <2>6. \A c \in Clients : At(c, "newline") =>
          (b \o q)[Len(b \o q)] = Fragment(c, FALSE) /\ ~(b \o q)[Len(b \o q)].end
    BY <1>1 DEF LinesInv, LastIsOwed, Fragment
  <2>7. ~(b \o q)[Len(b \o q)].end => At((b \o q)[Len(b \o q)].from, "newline")
    BY <1>1, <2>4 DEF LinesInv, LastIsOwed
  <2>8. LastIsOwed'
    BY <1>1, <2>1, <2>2, <2>3, <2>6, <2>7 DEF LastIsOwed, At
  <2> QED
    BY <1>2, <2>5, <2>8 DEF LinesInv
<1> QED
  BY <1>3, <1>4

LEMMA LinesStep == TypeOK /\ LinesInv /\ [Next]_vars => LinesInv'
<1> SUFFICES ASSUME TypeOK, LinesInv, [Next]_vars PROVE LinesInv'
  OBVIOUS
<1> handler \in [Clients -> HandlerStates] /\ shim \in ShimStates
  BY DEF TypeOK
<1>1. CASE UNCHANGED <<shim, stdin, stdinMu, handler>>
  BY <1>1, ShimAside
<1>2. ASSUME NEW c \in Clients, Accept(c) PROVE LinesInv'
  <2>1. Handler("scan") \in HandlerStates /\ Handler("scan").at = "scan"
    BY DEF Handler, HandlerStates, HandlerPlaces
  <2> QED
    BY <1>2, <2>1, HandlerAside DEF Accept, Become, At, shimVars
<1>3. ASSUME NEW c \in Clients, Take(c) PROVE LinesInv'
  <2>1. CASE handler' = handler
    BY <1>3, <2>1, ShimAside DEF Take, shimVars
  <2>2. ASSUME NEW h \in HandlerStates, h.at \in {"pong", "tools", "lock"},
               handler' = [handler EXCEPT ![c] = h]
        PROVE  LinesInv'
    BY <1>3, <2>2, HandlerAside DEF Take, At, shimVars
  <2>3. \/ handler' = handler
        \/ \E h \in HandlerStates : /\ h.at \in {"pong", "tools", "lock"}
                                    /\ handler' = [handler EXCEPT ![c] = h]
    <3> DEFINE p == [handler[c] EXCEPT !.at = "pong"]
               l == [handler[c] EXCEPT !.at = "lock"]
               r == [Handler("tools") EXCEPT !.tools = registry]
    <3>1. registry \subseteq Tools
      BY DEF TypeOK
    <3>2. /\ p \in HandlerStates /\ p.at = "pong"
          /\ l \in HandlerStates /\ l.at = "lock"
          /\ r \in HandlerStates /\ r.at = "tools"
      BY <3>1 DEF Handler, HandlerStates, HandlerPlaces, Replies, Forwarding
    <3>3. \/ handler' = handler
          \/ handler' = [handler EXCEPT ![c] = p]
          \/ handler' = [handler EXCEPT ![c] = l]
          \/ handler' = [handler EXCEPT ![c] = r]
      BY <1>3 DEF Take, Move, Become
    <3> QED
      BY <3>2, <3>3
  <2> QED
    BY <2>1, <2>2, <2>3
<1>4. ASSUME NEW c \in Clients, Lock(c) PROVE LinesInv'
  <2>1. /\ handler[c].at = "lock" /\ stdinMu = Nobody /\ stdinMu' = c
        /\ handler' = [handler EXCEPT ![c].at = "body"]
        /\ UNCHANGED <<shim, stdin>>
    BY <1>4 DEF Lock, At, Move, shimVars
  <2>2. \A d \in Clients : handler[d].at \notin {"body", "newline"}
    BY <2>1, IPCAssumption DEF LinesInv, MutexIsHeld
  <2>3. /\ handler'[c].at = "body"
        /\ \A d \in Clients \ {c} : handler'[d] = handler[d]
    BY <2>1 DEF HandlerStates
  <2>4. MutexIsHeld' /\ LinesAreWhole'
    BY <2>1, <2>2, <2>3 DEF MutexIsHeld, LinesInv, LinesAreWhole
  <2>5. \A d \in Clients : ~At(d, "newline")'
    BY <2>2, <2>3 DEF At
  <2>6. LastIsOwed'
    <3>1. ASSUME shim.runner, shim.buffer \o stdin # <<>>
          PROVE  (shim.buffer \o stdin)[Len(shim.buffer \o stdin)].end
      <4> (shim.buffer \o stdin)[Len(shim.buffer \o stdin)].from \in Clients
        BY <3>1, WriterOfLast, PipeType
      <4> QED
        BY <2>2, <3>1 DEF LinesInv, LastIsOwed, At
    <3> QED
      BY <2>1, <2>5, <3>1 DEF LastIsOwed
  <2> QED
    BY <2>4, <2>6 DEF LinesInv
<1>5. ASSUME NEW c \in Clients, Reply(c) \/ ReplyFails(c) \/ HandlerEnds(c) PROVE LinesInv'
  <2>1. /\ handler[c].at \in Replies \cup {"scan"}
        /\ \E h \in {"scan", "none"} : handler' = [handler EXCEPT ![c] = Handler(h)]
        /\ UNCHANGED <<shim, stdin, stdinMu>>
    BY <1>5 DEF Reply, ReplyFails, HandlerEnds, Replying, Become, At, shimVars
  <2>2. \A h \in {"scan", "none"} : Handler(h) \in HandlerStates /\ Handler(h).at = h
    BY DEF Handler, HandlerStates, HandlerPlaces
  <2> QED
    BY <2>1, <2>2, HandlerAside DEF Replies
<1>6. ASSUME NEW s \in Streams, ShimEmits(s) PROVE LinesInv'
  BY <1>6, ShimAside DEF ShimEmits, ShimStates, daemonVars
<1>7. CASE ShimWrites
  BY <1>7, ShimAside DEF ShimWrites, ShimStates, daemonVars
<1>8. CASE ShimDies \/ ForceKill
  BY <1>8, ShimAside DEF ShimDies, ForceKill, ShimStates, daemonVars
<1>9. CASE \/ \E c \in Clients : \/ Receive(c) \/ HangUp(c) \/ DeadlineExpires(c)
                                 \/ \E r \in Requests : Send(c, r)
                                 \/ \E s \in Streams : Cast(s, c)
           \/ \E s \in Streams : \/ ReadLine(s) \/ CastWrites(s) \/ CastFails(s)
                                 \/ CastDone(s) \/ ReaderEnds(s)
           \/ GetSignal \/ ShimDone \/ CloseClients
           \/ UNCHANGED vars
  BY <1>1, <1>9
  DEF Receive, HangUp, DeadlineExpires, Send, Cast, ReadLine, CastWrites, CastFails,
      CastDone, ReaderEnds, GetSignal, ShimDone, CloseClients, vars, shimVars, daemonVars
<1> QED
  BY <1>2, <1>3, <1>4, <1>5, <1>6, <1>7, <1>8, <1>9,
     WriteBodyLines, WriteNewlineLines, ShimReadsLines
  DEF Next, HandlerSteps, ReaderSteps, MainSteps

-----------------------------------------------------------------------------
(* The registry is never behind a broadcast                                *)

RegistryInv == DiscoveryIsBacked /\ AnswersAreBacked

Told(q, tools) == \A i \in 1..Len(q) : q[i].tools \subseteq tools

LEMMA ToldAppend ==
  ASSUME NEW q \in Seq(Lines), NEW tools, Told(q, tools), NEW line \in Lines,
         line.tools \subseteq tools
  PROVE  Told(Append(q, line), tools)
<1> /\ Len(Append(q, line)) = Len(q) + 1 /\ Append(q, line)[Len(q) + 1] = line
    /\ \A i \in 1..Len(q) : Append(q, line)[i] = q[i]
    /\ Len(q) \in Nat
  OBVIOUS
<1> QED
  BY DEF Told

LEMMA ToldTail ==
  ASSUME NEW q \in Seq(Lines), NEW tools, Told(q, tools), q # <<>>
  PROVE  Told(Tail(q), tools)
<1> /\ Len(Tail(q)) = Len(q) - 1 /\ Len(q) \in Nat
    /\ \A i \in 1..Len(Tail(q)) : Tail(q)[i] = q[i + 1]
  OBVIOUS
<1> QED
  BY DEF Told

LEMMA BackedByTold ==
  DiscoveryIsBacked <=>
    (main = "serving" =>
       /\ \A c \in Clients : Told(toClient[c], registry)
       /\ \A s \in Streams : reader[s].at \in {"cast", "write"} => reader[s].line.tools \subseteq registry)
BY DEF DiscoveryIsBacked, Told

LEMMA RegistryStep == TypeOK /\ RegistryInv /\ [Next]_vars => RegistryInv'
<1> SUFFICES ASSUME TypeOK, RegistryInv, [Next]_vars PROVE RegistryInv'
  OBVIOUS
<1> /\ handler \in [Clients -> HandlerStates] /\ reader \in [Streams -> ReaderStates]
    /\ toClient \in [Clients -> Seq(Lines)] /\ registry \subseteq Tools
  BY DEF TypeOK
<1>1. main # "serving" => main' # "serving"
  BY DEF Next, vars, clientVars, shimVars, daemonVars, bounds, HandlerSteps, ReaderSteps,
         MainSteps, Receive, HangUp, DeadlineExpires, Send, Cast, ReadLine, CastWrites,
         CastFails, CastDone, ReaderEnds, GetSignal, ShimDone, CloseClients, ForceKill,
         ShimReads, ShimWrites, ShimDies, ShimEmits, Accept, Take, Lock, WriteBody,
         WriteNewline, Reply, ReplyFails, HandlerEnds
<1> SUFFICES ASSUME main = "serving", main' = "serving" PROVE RegistryInv'
  BY <1>1 DEF RegistryInv, DiscoveryIsBacked, AnswersAreBacked
<1>2. /\ \A c \in Clients : Told(toClient[c], registry) /\ handler[c].tools \subseteq registry
      /\ \A s \in Streams : reader[s].at \in {"cast", "write"} => reader[s].line.tools \subseteq registry
  BY BackedByTold DEF RegistryInv, AnswersAreBacked
<1>3. ASSUME UNCHANGED <<toClient, registry, reader>>,
             UNCHANGED handler \/ \E c \in Clients, h \in HandlerStates :
               h.tools \subseteq registry /\ handler' = [handler EXCEPT ![c] = h]
      PROVE  RegistryInv'
  <2>1. \A c \in Clients : handler'[c].tools \subseteq registry'
    BY <1>2, <1>3
  <2> QED
    BY <1>3, <2>1 DEF RegistryInv, DiscoveryIsBacked, AnswersAreBacked
<1>4. ASSUME UNCHANGED <<toClient, registry, handler>>, NEW s \in Streams, NEW x \in ReaderStates,
             reader' = [reader EXCEPT ![s] = x],
             x.at \in {"cast", "write"} => x.line.tools \subseteq registry
      PROVE  RegistryInv'
  BY <1>4 DEF RegistryInv, DiscoveryIsBacked, AnswersAreBacked
<1>5. ASSUME NEW c \in Clients, HandlerSteps(c) \/ Accept(c) PROVE RegistryInv'
  <2>1. /\ \A p \in HandlerPlaces : Handler(p) \in HandlerStates /\ Handler(p).tools = {}
        /\ \A p \in HandlerPlaces : [handler[c] EXCEPT !.at = p] \in HandlerStates
        /\ \A p \in HandlerPlaces : [handler[c] EXCEPT !.at = p].tools \subseteq registry
    BY <1>2 DEF Handler, HandlerStates
  <2>2. /\ [Handler("tools") EXCEPT !.tools = registry] \in HandlerStates
        /\ [Handler("tools") EXCEPT !.tools = registry].tools = registry
    BY DEF Handler, HandlerStates, HandlerPlaces, Replies
  <2>3. ASSUME Take(c) PROVE RegistryInv'
    <3>1. /\ UNCHANGED <<toClient, registry, reader>>
          /\ \/ handler' = handler
             \/ handler' = [handler EXCEPT ![c] = [handler[c] EXCEPT !.at = "pong"]]
             \/ handler' = [handler EXCEPT ![c] = [handler[c] EXCEPT !.at = "lock"]]
             \/ handler' = [handler EXCEPT ![c] = [Handler("tools") EXCEPT !.tools = registry]]
      BY <2>3 DEF Take, Move, Become
    <3> QED
      BY <1>3, <2>1, <2>2, <3>1, Places
  <2>4. ASSUME Lock(c) \/ WriteBody(c) PROVE RegistryInv'
    <3>1. /\ UNCHANGED <<toClient, registry, reader>>
          /\ \/ handler' = [handler EXCEPT ![c] = [handler[c] EXCEPT !.at = "body"]]
             \/ handler' = [handler EXCEPT ![c] = [handler[c] EXCEPT !.at = "newline"]]
      BY <2>4 DEF Lock, WriteBody, Move, clientVars
    <3> QED
      BY <1>3, <2>1, <3>1, Places
  <2>5. ASSUME WriteNewline(c) \/ ReplyFails(c) \/ HandlerEnds(c) \/ Accept(c)
        PROVE  RegistryInv'
    <3>1. /\ UNCHANGED <<toClient, registry, reader>>
          /\ \E p \in {"none", "scan", "error"} : handler' = [handler EXCEPT ![c] = Handler(p)]
      BY <2>5 DEF WriteNewline, ReplyFails, HandlerEnds, Accept, Become, clientVars
    <3> QED
      BY <1>3, <2>1, <3>1, Places
  <2>6. ASSUME Reply(c) PROVE RegistryInv'
    <3> DEFINE line == Line(handler[c].at, c, handler[c].tools)
    <3>1. line \in Lines /\ line.tools \subseteq registry
      <4>1. handler[c].at \in Replies /\ handler[c].tools \subseteq Tools
        BY <2>6 DEF Reply, Replying, HandlerStates
      <4>2. line \in Lines
        BY <4>1, LineType
      <4> QED
        BY <1>2, <4>2 DEF Line
    <3>2. Told(Append(toClient[c], line), registry)
      BY <1>2, <3>1, ToldAppend
    <3>3. /\ toClient' = [toClient EXCEPT ![c] = Append(@, line)]
          /\ handler' = [handler EXCEPT ![c] = Handler("scan")]
          /\ UNCHANGED <<registry, reader>>
      BY <2>6 DEF Reply, Become
    <3> HIDE DEF line
    <3>4. /\ \A d \in Clients : Told(toClient'[d], registry')
          /\ \A d \in Clients : handler'[d].tools \subseteq registry'
      BY <1>2, <2>1, <3>2, <3>3, Places
    <3> QED
      BY <1>2, <3>3, <3>4 DEF RegistryInv, DiscoveryIsBacked, AnswersAreBacked, Told
  <2> QED
    BY <1>5, <2>3, <2>4, <2>5, <2>6 DEF HandlerSteps
<1>6. ASSUME NEW c \in Clients, Receive(c) PROVE RegistryInv'
  <2>1. Told(Tail(toClient[c]), registry)
    BY <1>2, <1>6, ToldTail DEF Receive
  <2>2. \A d \in Clients : Told(toClient'[d], registry')
    BY <1>2, <1>6, <2>1 DEF Receive, daemonVars
  <2> QED
    BY <1>2, <1>6, <2>2
    DEF Receive, daemonVars, RegistryInv, DiscoveryIsBacked, AnswersAreBacked, Told
<1>7. ASSUME NEW s \in Streams, CastWrites(s) PROVE RegistryInv'
  <2> DEFINE c == reader[s].to
             line == reader[s].line
  <2>1. /\ c \in Clients /\ line \in Lines /\ line.tools \subseteq registry
        /\ reader[s].at = "write"
    BY <1>2, <1>7, ReaderType DEF TypeOK, CastWrites
  <2>2. Told(Append(toClient[c], line), registry)
    BY <1>2, <2>1, ToldAppend
  <2>3. /\ toClient' = [toClient EXCEPT ![c] = Append(@, line)]
        /\ UNCHANGED <<registry, handler>>
        /\ reader'[s].line = line
        /\ \A r \in Streams \ {s} : reader'[r] = reader[r]
    BY <1>7 DEF CastWrites, Visited, ReaderStates
  <2>4. \A d \in Clients : Told(toClient'[d], registry')
    BY <1>2, <2>1, <2>2, <2>3
  <2>5. \A r \in Streams : reader'[r].at \in {"cast", "write"} => reader'[r].line.tools \subseteq registry'
    BY <1>2, <2>1, <2>3
  <2> QED
    BY <1>2, <2>3, <2>4, <2>5 DEF RegistryInv, DiscoveryIsBacked, AnswersAreBacked, Told
<1>8. ASSUME NEW s \in Streams, ReadLine(s) PROVE RegistryInv'
  <2>1. /\ registry \subseteq registry' /\ UNCHANGED <<toClient, handler>>
        /\ reader'[s].line.tools \subseteq registry'
        /\ \A r \in Streams \ {s} : reader'[r] = reader[r]
    BY <1>8 DEF ReadLine, ReaderStates, clientVars
  <2>2. \A d \in Clients : Told(toClient'[d], registry')
    BY <1>2, <2>1 DEF Told
  <2>3. \A r \in Streams : reader'[r].at \in {"cast", "write"} => reader'[r].line.tools \subseteq registry'
    BY <1>2, <2>1
  <2> QED
    BY <1>2, <2>1, <2>2, <2>3 DEF RegistryInv, DiscoveryIsBacked, AnswersAreBacked, Told
<1>9. ASSUME NEW s \in Streams,
             CastFails(s) \/ CastDone(s) \/ ReaderEnds(s) \/ \E c \in Clients : Cast(s, c)
      PROVE  RegistryInv'
  <2>1. /\ UNCHANGED <<toClient, registry, handler>>
        /\ \A r \in Streams \ {s} : reader'[r] = reader[r]
        /\ \/ reader'[s].line = reader[s].line /\ reader[s].at \in {"cast", "write"}
           \/ reader'[s].at \in {"scan", "eof"}
    <3>1. CASE CastFails(s)
      BY <3>1 DEF CastFails, Visited, ReaderStates
    <3>2. CASE CastDone(s)
      BY <3>2 DEF CastDone, Scanning, clientVars
    <3>3. CASE ReaderEnds(s)
      BY <3>3 DEF ReaderEnds, ReaderStates, clientVars
    <3>4. ASSUME NEW c \in Clients, Cast(s, c)
          PROVE  /\ UNCHANGED <<toClient, registry, handler>>
                 /\ \A r \in Streams \ {s} : reader'[r] = reader[r]
                 /\ reader'[s].line = reader[s].line /\ reader[s].at = "cast"
      BY <3>4 DEF Cast, ReaderStates
    <3> QED
      BY <1>9, <3>1, <3>2, <3>3, <3>4
  <2> QED
    BY <1>2, <2>1 DEF RegistryInv, DiscoveryIsBacked, AnswersAreBacked
<1>10. ASSUME \/ \E c \in Clients : \/ HangUp(c) \/ DeadlineExpires(c)
                                    \/ \E r \in Requests : Send(c, r)
              \/ \E s \in Streams : ShimEmits(s)
              \/ ShimReads \/ ShimWrites \/ ShimDies \/ ForceKill
              \/ UNCHANGED vars
       PROVE  RegistryInv'
  <2> UNCHANGED <<toClient, registry, reader, handler>>
    BY <1>10 DEF HangUp, DeadlineExpires, Send, ShimEmits, ShimReads, ShimWrites, ShimDies,
      ForceKill, vars, clientVars, daemonVars
  <2> QED
    BY <1>3
<1>11. ~(ShimDone \/ GetSignal \/ CloseClients)
  BY DEF ShimDone, GetSignal, CloseClients
<1> QED
  BY <1>5, <1>6, <1>7, <1>8, <1>9, <1>10, <1>11 DEF Next, ReaderSteps, MainSteps
-----------------------------------------------------------------------------
(* No connection is left to broadcasts without a handler                   *)

LEMMA LeakStep == TypeOK /\ NoClientLeaks /\ [Next]_vars => NoClientLeaks'
<1> SUFFICES ASSUME TypeOK, NoClientLeaks, [Next]_vars PROVE NoClientLeaks'
  OBVIOUS
<1> handler \in [Clients -> HandlerStates] /\ clients \subseteq Clients
  BY DEF TypeOK
<1>1. ASSUME UNCHANGED <<clients, handler>>, main = "ended" => main' = "ended"
      PROVE  NoClientLeaks'
  BY <1>1 DEF NoClientLeaks, Running, At
<1>2. ASSUME NEW c \in Clients, NEW h \in HandlerStates, h.at # "none",
             handler' = [handler EXCEPT ![c] = h],
             clients' \subseteq clients \cup {c}, UNCHANGED main
      PROVE  NoClientLeaks'
  BY <1>2 DEF NoClientLeaks, Running, At
<1>3. ASSUME NEW c \in Clients, Close(c), UNCHANGED main,
             \/ UNCHANGED handler
             \/ handler' = [handler EXCEPT ![c] = Handler("none")]
      PROVE  NoClientLeaks'
  BY <1>3 DEF NoClientLeaks, Running, At, Close
<1>4. ASSUME NEW c \in Clients, HandlerSteps(c) PROVE NoClientLeaks'
  <2> /\ Handler("scan") \in HandlerStates /\ Handler("error") \in HandlerStates
      /\ Handler("scan").at # "none" /\ Handler("error").at # "none"
      /\ registry \subseteq Tools
    BY DEF TypeOK, Handler, HandlerStates, HandlerPlaces, Replies
  <2> DEFINE m(p) == [handler[c] EXCEPT !.at = p]
             r == [Handler("tools") EXCEPT !.tools = registry]
  <2>1. \A p \in HandlerPlaces \ {"none"} : m(p) \in HandlerStates /\ m(p).at # "none"
    BY DEF HandlerStates
  <2>2. r \in HandlerStates /\ r.at # "none"
    BY DEF Handler, HandlerStates, HandlerPlaces, Replies
  <2>3. ASSUME Take(c) PROVE NoClientLeaks'
    <3>1. /\ UNCHANGED <<clients, main>>
          /\ \/ handler' = handler
             \/ handler' = [handler EXCEPT ![c] = m("pong")]
             \/ handler' = [handler EXCEPT ![c] = m("lock")]
             \/ handler' = [handler EXCEPT ![c] = r]
      BY <2>3 DEF Take, Move, Become
    <3> HIDE DEF m, r
    <3> QED
      BY <1>1, <1>2, <2>1, <2>2, <3>1, Places
  <2>4. ASSUME Lock(c) \/ WriteBody(c) PROVE NoClientLeaks'
    <3>1. /\ UNCHANGED <<clients, main>>
          /\ \/ handler' = [handler EXCEPT ![c] = m("body")]
             \/ handler' = [handler EXCEPT ![c] = m("newline")]
      BY <2>4 DEF Lock, WriteBody, Move, clientVars
    <3> HIDE DEF m
    <3> QED
      BY <1>2, <2>1, <3>1, Places
  <2>5. ASSUME WriteNewline(c) \/ Reply(c) PROVE NoClientLeaks'
    <3>1. /\ UNCHANGED <<clients, main>>
          /\ \/ handler' = [handler EXCEPT ![c] = Handler("scan")]
             \/ handler' = [handler EXCEPT ![c] = Handler("error")]
      BY <2>5 DEF WriteNewline, Reply, Become, clientVars
    <3> QED
      BY <1>2, <3>1
  <2>6. ASSUME ReplyFails(c) PROVE NoClientLeaks'
    <3>1. CASE Close(c) /\ Become(c, Handler("none"))
      BY <1>3, <2>6, <3>1 DEF ReplyFails, Become
    <3>2. CASE UNCHANGED clients /\ Become(c, Handler("scan"))
      BY <1>2, <2>6, <3>2 DEF ReplyFails, Become
    <3> QED
      BY <2>6, <3>1, <3>2 DEF ReplyFails
  <2>7. ASSUME HandlerEnds(c) PROVE NoClientLeaks'
    BY <1>3, <2>7 DEF HandlerEnds, Become
  <2> QED
    BY <1>4, <2>3, <2>4, <2>5, <2>6, <2>7 DEF HandlerSteps
<1>5. ASSUME NEW c \in Clients, Accept(c) PROVE NoClientLeaks'
  <2> Handler("scan") \in HandlerStates /\ Handler("scan").at # "none"
    BY DEF Handler, HandlerStates, HandlerPlaces
  <2> QED
    BY <1>2, <1>5 DEF Accept, Become
<1>6. ASSUME NEW s \in Streams, CastFails(s) PROVE NoClientLeaks'
  <2> reader[s].to \in Clients
    BY <1>6 DEF CastFails, TypeOK
  <2> QED
    BY <1>3, <1>6 DEF CastFails
<1>7. ASSUME ShimDone \/ GetSignal \/ CloseClients PROVE NoClientLeaks'
  BY <1>1, <1>7 DEF ShimDone, GetSignal, CloseClients, clientVars
<1>8. ASSUME \/ \E c \in Clients : \/ Receive(c) \/ HangUp(c) \/ DeadlineExpires(c)
                                   \/ \E r \in Requests : Send(c, r)
                                   \/ \E s \in Streams : Cast(s, c)
             \/ \E s \in Streams : \/ ReadLine(s) \/ CastWrites(s) \/ CastDone(s)
                                   \/ ReaderEnds(s) \/ ShimEmits(s)
             \/ ShimReads \/ ShimWrites \/ ShimDies \/ ForceKill
             \/ UNCHANGED vars
      PROVE  NoClientLeaks'
  <2> UNCHANGED <<clients, handler, main>>
    BY <1>8 DEF Receive, HangUp, DeadlineExpires, Send, Cast, ReadLine, CastWrites,
      CastDone, ReaderEnds, ShimEmits, ShimReads, ShimWrites, ShimDies, ForceKill,
      vars, clientVars, daemonVars
  <2> QED
    BY <1>1
<1> QED
  BY <1>4, <1>5, <1>6, <1>7, <1>8 DEF Next, ReaderSteps, MainSteps

-----------------------------------------------------------------------------
(* The theorems                                                            *)

LEMMA InitInv == Init => IInv
<1> SUFFICES ASSUME Init PROVE IInv
  OBVIOUS
<1>1. TypeOK
  BY TypeInit
<1>2. shim.buffer \o stdin = <<>>
  BY DEF Init
<1>3. LinesAreWhole /\ LastIsOwed
  <2>1. Len(<<>>) = 0
    OBVIOUS
  <2>2. \A c \in Clients : ~At(c, "newline")
    BY DEF Init, At, Handler
  <2> QED
    BY <1>2, <2>1, <2>2 DEF LinesAreWhole, Whole, LastIsOwed
<1>4. MutexIsHeld /\ AnswersAreBacked /\ NoClientLeaks
  BY IPCAssumption DEF Init, MutexIsHeld, AnswersAreBacked, NoClientLeaks, Handler
<1>5. DiscoveryIsBacked
  BY DEF Init, DiscoveryIsBacked, Scanning
<1> QED
  BY <1>1, <1>3, <1>4, <1>5 DEF IInv

LEMMA StepInv == IInv /\ [Next]_vars => IInv'
BY TypeStep, LinesStep, RegistryStep, LeakStep DEF IInv, LinesInv, RegistryInv

\* The invariant that ties the mutex, the pipe's contents, the registry and the
\* client map together holds in every behaviour of the daemon.
THEOREM InductiveInvariant == Spec => []IInv
BY InitInv, StepInv, PTL DEF Spec

\* Every variable keeps its type, whatever the number of clients and the size
\* of the queues.
THEOREM TypeCorrect == Spec => []TypeOK
BY InductiveInvariant, PTL DEF IInv

\* The shim reads whole lines, one client's after the other, however the
\* handlers' two writes per line interleave and block (cmd/daemon.go, stdinMu).
THEOREM ForwardedLinesAreWhole == Spec => []LinesAreWhole
BY InductiveInvariant, PTL DEF IInv

\* Whoever has been told of a tool gets it from list_tools: the reader stores
\* tools before it broadcasts them and the registry only grows while it serves.
THEOREM RegistryNeverBehind == Spec => []DiscoveryIsBacked
BY InductiveInvariant, PTL DEF IInv

\* A connection that broadcasts go to has a handler that will remove it.
THEOREM ClientsAreNotLeaked == Spec => []NoClientLeaks
BY InductiveInvariant, PTL DEF IInv

-----------------------------------------------------------------------------
(* Deadlines. Every client a broadcast waits for has one.                  *)

\* Where a reader is after each of its moves; the other readers stay.
LEMMA ReaderMoves ==
  ASSUME NEW rs \in [Streams -> ReaderStates], NEW s \in Streams
  PROVE  /\ \A r : /\ [rs EXCEPT ![s] = r][s] = r
                   /\ \A z \in Streams : z # s => [rs EXCEPT ![s] = r][z] = rs[z]
         /\ \A c, x : /\ [rs EXCEPT ![s].at = "write", ![s].to = c][s].to = c
                      /\ [rs EXCEPT ![s].at = "cast", ![s].to = c, ![s].seen = x][s].at = "cast"
                      /\ \A z \in Streams : z # s =>
                           /\ [rs EXCEPT ![s].at = "write", ![s].to = c][z] = rs[z]
                           /\ [rs EXCEPT ![s].at = "cast", ![s].to = c, ![s].seen = x][z] = rs[z]
         /\ [rs EXCEPT ![s].at = "eof"][s].at = "eof"
BY DEF ReaderStates

LEMMA TimedInit == Init => WritesAreTimed
BY DEF Init, WritesAreTimed, Scanning

LEMMA TimedStep == TypeOK /\ WritesAreTimed /\ [Next]_vars => WritesAreTimed'
<1> SUFFICES ASSUME TypeOK, WritesAreTimed, [Next]_vars PROVE WritesAreTimed'
  OBVIOUS
<1>1. CASE UNCHANGED <<reader, deadline>>
  BY <1>1 DEF WritesAreTimed
<1>2. ASSUME NEW c \in Clients, DeadlineExpires(c) PROVE WritesAreTimed'
  BY <1>2 DEF DeadlineExpires, daemonVars, WritesAreTimed, TypeOK
<1>3. ASSUME NEW s \in Streams, ReaderSteps(s) PROVE WritesAreTimed'
  <2>1. CASE \E c \in Clients : Cast(s, c)
    <3>1. PICK c \in Clients : Cast(s, c)
      BY <2>1
    <3>2. /\ reader \in [Streams -> ReaderStates]
          /\ deadline \in [Clients -> {"none", "armed", "expired"}]
          /\ \A r \in Streams : reader[r].at = "write" => reader[r].to \in Clients
      BY DEF TypeOK
    <3>3. /\ deadline' = [deadline EXCEPT ![c] = "armed"]
          /\ reader'[s].to = c
          /\ \A z \in Streams : z # s => reader'[z] = reader[z]
      BY <3>1, <3>2, ReaderMoves DEF Cast
    <3> QED
      BY <3>2, <3>3 DEF WritesAreTimed
  <2>2. CASE \A c \in Clients : ~Cast(s, c)
    <3>1. /\ deadline' = deadline /\ reader'[s].at # "write"
          /\ \A z \in Streams : z # s => reader'[z] = reader[z]
      <4> USE ReaderMoves DEF TypeOK
      <4>1. CASE ReadLine(s) BY <4>1 DEF ReadLine, clientVars
      <4>2. CASE CastWrites(s) BY <4>2 DEF CastWrites, Visited
      <4>3. CASE CastFails(s) BY <4>3 DEF CastFails, Visited
      <4>4. CASE CastDone(s) BY <4>4 DEF CastDone, Scanning, clientVars
      <4>5. CASE ReaderEnds(s) BY <4>5 DEF ReaderEnds, clientVars
      <4> QED
        BY <1>3, <2>2, <4>1, <4>2, <4>3, <4>4, <4>5 DEF ReaderSteps
    <3> QED
      BY <3>1 DEF WritesAreTimed
  <2> QED
    BY <2>1, <2>2
<1>4. ASSUME NEW c \in Clients, HandlerSteps(c) PROVE UNCHANGED <<reader, deadline>>
  BY <1>4 DEF HandlerSteps, Take, Lock, WriteBody, WriteNewline, Reply, ReplyFails, HandlerEnds, clientVars
<1>5. ASSUME NEW c \in Clients, Receive(c) \/ HangUp(c) \/ (\E r \in Requests : Send(c, r)) \/ Accept(c)
      PROVE UNCHANGED <<reader, deadline>>
  BY <1>5 DEF Receive, HangUp, Send, Accept, daemonVars
<1>6. ASSUME ShimReads \/ ShimWrites \/ ShimDies \/ MainSteps \/ \E s \in Streams : ShimEmits(s)
      PROVE UNCHANGED <<reader, deadline>>
  BY <1>6 DEF ShimReads, ShimWrites, ShimDies, ShimEmits, MainSteps, GetSignal, ForceKill, ShimDone,
    CloseClients, clientVars, daemonVars
<1>7. UNCHANGED vars => UNCHANGED <<reader, deadline>>
  BY DEF vars, clientVars, daemonVars
<1> QED
  BY <1>1, <1>2, <1>3, <1>4, <1>5, <1>6, <1>7 DEF Next

\* A broadcast never writes without a deadline, whatever the other reader, the
\* handlers and the clients have done to the connection since it was set.
THEOREM BroadcastsAreTimed == Spec => []WritesAreTimed
BY TimedInit, TimedStep, TypeCorrect, PTL DEF Spec

\* NobodyBlocks, for any clients and any queues: a broadcast or a shutdown under
\* way is always at a place where some guard holds, or waits for a client that has
\* an armed deadline. GuardsEnable only says that a step whose guard holds can be
\* taken.
THEOREM NobodyEverBlocks == Spec /\ []GuardsEnable => []NobodyBlocks
<1>1. ASSUME TypeOK, WritesAreTimed, NEW s \in Streams, Waiting(s)
      PROVE  reader[s].to \in Clients /\ deadline[reader[s].to] = "armed"
  <2>1. reader[s].at = "write" /\ reader[s].to \in Clients /\ Writable(reader[s].to)
    BY <1>1 DEF TypeOK, Waiting
  <2>2. deadline[reader[s].to] \in {"none", "armed", "expired"}
    BY <1>1, <2>1 DEF TypeOK
  <2>3. deadline[reader[s].to] # "none"
    BY <1>1, <2>1 DEF WritesAreTimed
  <2>4. deadline[reader[s].to] # "expired"
    BY <2>1 DEF Writable
  <2> QED
    BY <2>1, <2>2, <2>3, <2>4
<1>2. ASSUME TypeOK, ShuttingDown PROVE MainReady
  BY <1>2 DEF TypeOK, ShuttingDown, MainReady
<1>3. ASSUME TypeOK, NEW s \in Streams, Casting(s) PROVE ReaderReady(s)
  <2>1. CASE reader[s].at = "cast"
    <3>1. clients \subseteq Clients
      BY <1>3 DEF TypeOK
    <3>2. CASE clients \subseteq reader[s].seen
      BY <2>1, <3>2 DEF ReaderReady
    <3>3. CASE \E c \in clients : c \notin reader[s].seen
      BY <2>1, <3>1, <3>3 DEF ReaderReady
    <3> QED
      BY <3>2, <3>3
  <2>2. CASE reader[s].at = "write"
    <3>1. Len(toClient[reader[s].to]) \in Nat /\ SockCap \in Nat
      BY <1>3, <2>2, QueueLengths, IPCAssumption DEF TypeOK
    <3>2. CASE Writable(reader[s].to)
      BY <1>3, <2>2, <3>1, <3>2 DEF Casting, Waiting, ReaderReady
    <3>3. CASE ~Writable(reader[s].to)
      BY <2>2, <3>3 DEF ReaderReady
    <3> QED
      BY <3>2, <3>3
  <2> QED
    BY <1>3, <2>1, <2>2 DEF Casting
<1>4. TypeOK /\ WritesAreTimed /\ GuardsEnable => NobodyBlocks
  <2> SUFFICES ASSUME TypeOK, WritesAreTimed, GuardsEnable PROVE NobodyBlocks
    OBVIOUS
  <2>1. ASSUME NEW s \in Streams, Running, Waiting(s)
        PROVE  \E c \in Clients : c = reader[s].to /\ ENABLED <<DeadlineExpires(c)>>_vars
    <3>1. PICK c \in Clients : c = reader[s].to /\ deadline[c] = "armed"
      BY <1>1, <2>1
    <3> QED
      BY <2>1, <3>1 DEF GuardsEnable
  <2>2. ShuttingDown => ENABLED <<MainSteps>>_vars
    BY <1>2 DEF GuardsEnable
  <2>3. ASSUME NEW s \in Streams, Running, Casting(s) PROVE ENABLED <<ReaderSteps(s)>>_vars
    BY <1>3, <2>3 DEF GuardsEnable
  <2> QED
    BY <2>1, <2>2, <2>3 DEF NobodyBlocks
<1> QED
  BY <1>4, BroadcastsAreTimed, TypeCorrect, PTL

-----------------------------------------------------------------------------
(* Liveness of the shutdown. The main goroutine can go on (NobodyBlocks)   *)
(* and has four places to pass. GuardsEnable is the only premise besides   *)
(* fairness.                                                               *)

\* The places main has left to pass, and how few they are at most.
PlacesLeft ==
  IF main = "serving" THEN 4
  ELSE IF main = "stopping" THEN IF shim.runner THEN 3 ELSE 2 ELSE 1
Stopping(n) == ShuttingDown /\ PlacesLeft <= n
Falls(m, n) == Stopping(m) ~> Stopping(n) \/ ~Running

\* What no other goroutine, client or shim does: move main, take the request
\* back, revive the runner or leave the shim without it.
LeaveMain ==
  /\ main' = main /\ (sigCh => sigCh')
  /\ \/ shim'.runner = shim.runner /\ shim'.left = shim.left
     \/ ~shim'.runner /\ ~shim'.left /\ (shim.runner \/ shim.left)

LEMMA ShimRunner ==
  ASSUME NEW x \in ShimStates
  PROVE  /\ \A q : /\ [x EXCEPT !.buffer = q].runner = x.runner
                  /\ [x EXCEPT !.buffer = q].left = x.left
         /\ \A p : /\ [x EXCEPT !.pending = p].runner = x.runner
                  /\ [x EXCEPT !.pending = p].left = x.left
         /\ \A q, p : /\ [x EXCEPT !.buffer = q, !.pending = p].runner = x.runner
                     /\ [x EXCEPT !.buffer = q, !.pending = p].left = x.left
         /\ \A left \in BOOLEAN :
              /\ ~[x EXCEPT !.runner = FALSE, !.left = left].runner
              /\ [x EXCEPT !.runner = FALSE, !.left = left].left = left
BY DEF ShimStates

LEMMA OthersLeaveMain == TypeOK /\ [Next]_vars => MainSteps \/ LeaveMain
<1> SUFFICES ASSUME TypeOK, [Next]_vars, ~MainSteps PROVE LeaveMain
  OBVIOUS
<1> USE DEF LeaveMain, clientVars, shimVars, daemonVars
<1>1. ASSUME NEW c \in Clients, HandlerSteps(c) PROVE LeaveMain
  <2>1. CASE Take(c) BY <2>1 DEF Take
  <2>2. CASE Lock(c) BY <2>2 DEF Lock
  <2>3. CASE WriteBody(c) BY <2>3 DEF WriteBody
  <2>4. CASE WriteNewline(c) BY <2>4 DEF WriteNewline
  <2>5. CASE Reply(c) BY <2>5 DEF Reply
  <2>6. CASE ReplyFails(c) BY <2>6 DEF ReplyFails
  <2>7. CASE HandlerEnds(c) BY <2>7 DEF HandlerEnds
  <2> QED
    BY <1>1, <2>1, <2>2, <2>3, <2>4, <2>5, <2>6, <2>7 DEF HandlerSteps
<1>2. ASSUME NEW s \in Streams, ReaderSteps(s) PROVE LeaveMain
  <2>1. CASE ReadLine(s) BY <2>1 DEF ReadLine
  <2>2. CASE CastWrites(s) BY <2>2 DEF CastWrites
  <2>3. CASE CastFails(s) BY <2>3 DEF CastFails
  <2>4. CASE CastDone(s) BY <2>4 DEF CastDone
  <2>5. CASE ReaderEnds(s) BY <2>5 DEF ReaderEnds
  <2>6. CASE \E c \in Clients : Cast(s, c) BY <2>6 DEF Cast
  <2> QED
    BY <1>2, <2>1, <2>2, <2>3, <2>4, <2>5, <2>6 DEF ReaderSteps
<1>3. ASSUME NEW c \in Clients, Receive(c) \/ HangUp(c) \/ (\E r \in Requests : Send(c, r))
               \/ Accept(c) \/ DeadlineExpires(c)
      PROVE LeaveMain
  BY <1>3 DEF Receive, HangUp, Send, Accept, DeadlineExpires
<1>4. ASSUME NEW s \in Streams, ShimEmits(s) PROVE LeaveMain
  <2>1. \E p : shim' = [shim EXCEPT !.pending = p]
    BY <1>4 DEF ShimEmits
  <2>2. main' = main /\ sigCh' = sigCh
    BY <1>4 DEF ShimEmits
  <2> QED
    BY <2>1, <2>2, ShimRunner DEF TypeOK
<1>5. CASE ShimReads
  <2>1. \/ \E q : shim' = [shim EXCEPT !.buffer = q]
        \/ \E q, p : shim' = [shim EXCEPT !.buffer = q, !.pending = p]
    BY <1>5 DEF ShimReads
  <2>2. main' = main /\ sigCh' = sigCh
    BY <1>5 DEF ShimReads
  <2>3. shim \in ShimStates
    BY DEF TypeOK
  <2>4. ASSUME NEW q, shim' = [shim EXCEPT !.buffer = q]
        PROVE  shim'.runner = shim.runner /\ shim'.left = shim.left
    BY <2>3, <2>4, ShimRunner
  <2>5. ASSUME NEW q, NEW p, shim' = [shim EXCEPT !.buffer = q, !.pending = p]
        PROVE  shim'.runner = shim.runner /\ shim'.left = shim.left
    BY <2>3, <2>5, ShimRunner
  <2> QED
    BY <2>1, <2>2, <2>4, <2>5
<1>6. CASE ShimWrites BY <1>6, ShimRunner DEF ShimWrites, TypeOK
<1>7. CASE ShimDies BY <1>7, ShimRunner DEF ShimDies, TypeOK
<1>8. CASE UNCHANGED vars BY <1>8 DEF vars
<1> QED
  BY <1>1, <1>2, <1>3, <1>4, <1>5, <1>6, <1>7, <1>8 DEF Next

LEMMA MainStepCounts ==
  ASSUME TypeOK, ShuttingDown, MainSteps
  PROVE  ~Running' \/ (ShuttingDown' /\ PlacesLeft' < PlacesLeft)
<1> USE DEF ShuttingDown, PlacesLeft, Running
<1>1. CASE GetSignal
  BY <1>1 DEF GetSignal, shimVars
<1>2. CASE ForceKill
  BY <1>2, ShimRunner DEF ForceKill, daemonVars, TypeOK
<1>3. CASE ShimDone
  BY <1>3 DEF ShimDone
<1>4. CASE CloseClients
  BY <1>4 DEF CloseClients
<1> QED
  BY <1>1, <1>2, <1>3, <1>4 DEF MainSteps

LEMMA ShutdownNeverGoesBack ==
  ASSUME TypeOK, ShuttingDown, [Next]_vars
  PROVE  ~Running' \/ (ShuttingDown' /\ PlacesLeft' <= PlacesLeft)
<1>1. PlacesLeft \in 1..4 /\ PlacesLeft' \in 1..4
  BY DEF PlacesLeft
<1>2. CASE MainSteps
  BY <1>1, <1>2, MainStepCounts
<1>3. CASE LeaveMain
  BY <1>3 DEF LeaveMain, ShuttingDown, PlacesLeft
<1> QED
  BY <1>2, <1>3, OthersLeaveMain

LEMMA ShutdownFalls ==
  ASSUME NEW m \in Nat, NEW n \in Nat, m = n + 1
  PROVE  FairSpec /\ []NobodyBlocks => Falls(m, n)
<1>1. PlacesLeft \in 1..4 /\ PlacesLeft' \in 1..4
  BY DEF PlacesLeft
<1>2. IInv /\ Stopping(m) /\ [Next]_vars => Stopping(m)' \/ Stopping(n)' \/ ~Running'
  BY <1>1, ShutdownNeverGoesBack DEF IInv, Stopping
<1>3. IInv /\ Stopping(m) /\ <<MainSteps>>_vars => Stopping(n)' \/ ~Running'
  BY <1>1, MainStepCounts DEF IInv, Stopping
<1>4. NobodyBlocks /\ Stopping(m) => ENABLED <<MainSteps>>_vars
  BY DEF NobodyBlocks, Stopping
<1>5. FairSpec => []IInv /\ [][Next]_vars /\ MainGoesOn
  BY InductiveInvariant, PTL DEF FairSpec, Spec, Fairness
<1> QED
  BY <1>2, <1>3, <1>4, <1>5, PTL DEF MainGoesOn, Falls

LEMMA ShutdownEnds == FairSpec /\ []NobodyBlocks => (ShuttingDown ~> ~Running)
<1>1. FairSpec /\ []NobodyBlocks =>
        Falls(4, 3) /\ Falls(3, 2) /\ Falls(2, 1) /\ Falls(1, 0)
  BY ShutdownFalls
<1>2. PlacesLeft \in 1..4
  BY DEF PlacesLeft
<1>3. ShuttingDown => Stopping(4)
  BY <1>2 DEF Stopping
<1>4. ~Stopping(0)
  BY <1>2 DEF Stopping
<1> QED
  BY <1>1, <1>3, <1>4, PTL DEF Falls

\* ShutdownCompletes: whatever clients and handlers do and whether or not the
\* shim obeys, a shutdown request ends the process.
THEOREM ShutdownsComplete == FairSpec /\ []GuardsEnable => ShutdownCompletes
<1>1. IInv /\ sigCh => ShuttingDown \/ ~Running
  BY DEF IInv, TypeOK, ShuttingDown, Running
<1>2. FairSpec /\ []NobodyBlocks => ShutdownCompletes
  BY <1>1, ShutdownEnds, InductiveInvariant, PTL DEF ShutdownCompletes, FairSpec
<1> QED
  BY <1>2, NobodyEverBlocks, PTL DEF FairSpec

-----------------------------------------------------------------------------
(* The life of the daemon: DaemonLife's steps are main's and the shim's.   *)

\* The connections are closed once the runner has ended, and only a daemon that
\* stops leaves a shim behind.
ClosingIsLast ==
  /\ main = "closing" => ~shim.runner
  /\ main = "serving" \/ shim.runner => ~shim.left

LEMMA ClosingStep == TypeOK /\ ClosingIsLast /\ [Next]_vars => ClosingIsLast'
<1> SUFFICES ASSUME TypeOK, ClosingIsLast, [Next]_vars PROVE ClosingIsLast'
  OBVIOUS
<1> USE DEF ClosingIsLast
<1>1. CASE LeaveMain
  BY <1>1 DEF LeaveMain
<1>2. CASE GetSignal \/ ShimDone \/ CloseClients
  BY <1>2 DEF GetSignal, ShimDone, CloseClients, shimVars
<1>3. CASE ForceKill
  BY <1>3, ShimRunner DEF ForceKill, daemonVars, TypeOK
<1> QED
  BY <1>1, <1>2, <1>3, OthersLeaveMain DEF MainSteps

LEMMA ClosingInvariant == Spec => []ClosingIsLast
<1>1. Init => ClosingIsLast
  BY DEF Init, ClosingIsLast
<1> QED
  BY <1>1, ClosingStep, TypeCorrect, PTL DEF Spec

\* What the steps of main and of the others are in DaemonLife.
LEMMA LifeStep ==
  ASSUME TypeOK, ClosingIsLast, [Next]_vars
  PROVE  [Life!LifeNext]_(Life!lifeVars)
<1> USE DEF This, Phase
<1>1. ASSUME main' = main, ~shim'.runner, ~shim'.left, shim.runner \/ shim.left
      PROVE  Life!LifeNext
  BY <1>1 DEF Life!LifeNext, Life!Detach
<1>2. ASSUME main' = main, shim'.runner = shim.runner, shim'.left = shim.left
      PROVE  UNCHANGED Life!lifeVars
  BY <1>2 DEF Life!lifeVars
<1>3. CASE LeaveMain
  BY <1>1, <1>2, <1>3 DEF LeaveMain
<1>4. CASE GetSignal
  BY <1>4 DEF GetSignal, shimVars, Life!LifeNext, Life!Drain, Life!Become
<1>5. CASE ForceKill
  <2>1. /\ main = "stopping" /\ main' = main
        /\ shim.runner /\ ~shim'.runner /\ shim'.left \in BOOLEAN
    BY <1>5, ShimRunner DEF ForceKill, daemonVars, TypeOK
  <2>2. CASE shim'.left
    BY <2>1, <2>2 DEF Life!LifeNext, Life!KillRunner
  <2>3. CASE ~shim'.left
    BY <1>1, <2>1, <2>3
  <2> QED
    BY <2>2, <2>3
<1>6. CASE ShimDone
  <2>1. ~shim.runner /\ shim' = shim
    BY <1>6 DEF ShimDone, shimVars
  <2>2. CASE main = "serving" /\ main' = "closing"
    BY <2>1, <2>2 DEF Life!LifeNext, Life!Drain, Life!Become
  <2>3. CASE main = "stopping" /\ main' = "closing"
    BY <2>1, <2>3 DEF Life!lifeVars
  <2>4. CASE main = "serving" /\ main' = "ended"
    BY <2>1, <2>4 DEF ClosingIsLast, Life!LifeNext, Life!GiveUp, Life!Become
  <2> QED
    BY <1>6, <2>2, <2>3, <2>4 DEF ShimDone
<1>7. CASE CloseClients
  BY <1>7 DEF CloseClients, ClosingIsLast, shimVars, Life!LifeNext, Life!End, Life!Become
<1> QED
  BY <1>3, <1>4, <1>5, <1>6, <1>7, OthersLeaveMain DEF MainSteps

\* LivesItsLife, for any clients and queues: what the daemon's goroutines and the
\* shim do to each other is what DaemonLife allows, so that the daemon ends only
\* when its shim's runner has.
THEOREM ImplementsDaemonLife == Spec => LivesItsLife
BY LifeStep, ClosingInvariant, TypeCorrect, PTL DEF Spec, LivesItsLife

\* Its liveness: a daemon that drains ends, whatever its clients do or do not.
THEOREM DrainingEnds == FairSpec /\ []GuardsEnable => DrainEnds
<1>1. ASSUME NEW d \in This PROVE FairSpec /\ []NobodyBlocks => Life!DrainEnds(d)
  <2>1. IInv /\ Life!Draining(d) => ShuttingDown
    BY DEF IInv, TypeOK, Life!Draining, Phase, This, ShuttingDown
  <2>2. IInv /\ ~Running => Life!Over(d)
    BY DEF IInv, TypeOK, Running, Life!Over, Phase, This
  <2> QED
    BY <2>1, <2>2, ShutdownEnds, InductiveInvariant, PTL DEF Life!DrainEnds, FairSpec
<1>2. FairSpec /\ []NobodyBlocks => DrainEnds
  BY <1>1 DEF DrainEnds
<1> QED
  BY <1>2, NobodyEverBlocks, PTL DEF FairSpec

=============================================================================
