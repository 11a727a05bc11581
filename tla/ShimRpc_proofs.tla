---------------------------- MODULE ShimRpc_proofs ----------------------------
(***************************************************************************)
(* Proofs about ShimRpc, for any number of callers, consumers and          *)
(* messages. That success is reported only of a call served with success   *)
(* needs ResponsesAreTrue, which follows a response through the pipe, the  *)
(* sockets and the goroutines; that a call is served once needs            *)
(* CommandsAreSentOnce, which follows its command to the shim.             *)
(***************************************************************************)
EXTENDS ShimRpc, TLAPS

-----------------------------------------------------------------------------
(* Sequences                                                               *)

LEMMA SequenceType ==
  ASSUME NEW S, NEW q \in Seq(S)
  PROVE  /\ \A e \in S : Append(q, e) \in Seq(S)
         /\ q # <<>> => Head(q) \in S /\ Tail(q) \in Seq(S)
OBVIOUS

LEMMA WithinAppend ==
  ASSUME NEW S, NEW q \in Seq(S), NEW e \in S, NEW l, Within(l, Append(q, e))
  PROVE  Within(l, q) \/ l = e
BY DEF Within

LEMMA WithinTail ==
  ASSUME NEW S, NEW q \in Seq(S), q # <<>>
  PROVE  /\ Within(Head(q), q)
         /\ \A l : Within(l, Tail(q)) => Within(l, q)
<1>1. Within(Head(q), q)
  <2>1. Head(q) = q[1] /\ 1 \in 1..Len(q)
    OBVIOUS
  <2> QED
    BY <2>1 DEF Within
<1>2. ASSUME NEW l, Within(l, Tail(q)) PROVE Within(l, q)
  <2>1. PICK i \in 1..Len(Tail(q)) : Tail(q)[i] = l
    BY <1>2 DEF Within
  <2>2. i + 1 \in 1..Len(q) /\ q[i + 1] = l
    BY <2>1
  <2> QED
    BY <2>2 DEF Within
<1> QED
  BY <1>1, <1>2

LEMMA WithinEmpty == \A l : ~Within(l, <<>>)
BY DEF Within

LEMMA OnceTail ==
  ASSUME NEW S, NEW q \in Seq(S), q # <<>>, Once(q)
  PROVE  /\ Once(Tail(q))
         /\ IsCommand(Head(q)) => ~Within(Head(q), Tail(q))
<1>1. \A i \in 1..Len(Tail(q)) : i + 1 \in 1..Len(q) /\ Tail(q)[i] = q[i + 1]
  OBVIOUS
<1>2. Once(Tail(q))
  BY <1>1 DEF Once
<1>3. ASSUME IsCommand(Head(q)), Within(Head(q), Tail(q)) PROVE FALSE
  <2>1. PICK i \in 1..Len(Tail(q)) : Tail(q)[i] = Head(q)
    BY <1>3 DEF Within
  <2>2. Head(q) = q[1] /\ 1 \in 1..Len(q)
    OBVIOUS
  <2> QED
    BY <1>1, <1>3, <2>1, <2>2 DEF Once
<1> QED
  BY <1>2, <1>3

LEMMA OnceAppend ==
  ASSUME NEW S, NEW q \in Seq(S), NEW e \in S, Once(q),
         IsCommand(e) => ~Within(e, q)
  PROVE  Once(Append(q, e))
<1> DEFINE r == Append(q, e)
<1>1. /\ Len(r) = Len(q) + 1 /\ r[Len(q) + 1] = e
      /\ \A i \in 1..Len(q) : r[i] = q[i]
      /\ \A i \in 1..Len(r) : i \in 1..Len(q) \/ i = Len(q) + 1
  OBVIOUS
<1> HIDE DEF r
<1>2. Once(r)
  BY <1>1 DEF Once, Within
<1> QED
  BY <1>2 DEF r

-----------------------------------------------------------------------------
(* Types                                                                   *)

LEMMA LineType ==
  ASSUME NEW i \in Callers \cup Messages
  PROVE  /\ Line("command", i) \in Lines /\ Line("response", i) \in Lines
         /\ Line("error", i) \in Lines
BY DEF Line, Lines

LEMMA IdType == \A l \in Lines : l.id \in Callers \cup Messages
BY DEF Lines

LEMMA QueueType ==
  ASSUME NEW box \in [Clients -> Seq(Lines)], NEW x \in Clients
  PROVE  /\ \A l \in Lines : [box EXCEPT ![x] = Append(@, l)] \in [Clients -> Seq(Lines)]
         /\ box[x] # <<>> => /\ [box EXCEPT ![x] = Tail(@)] \in [Clients -> Seq(Lines)]
                             /\ Head(box[x]) \in Lines
         /\ [box EXCEPT ![x] = <<>>] \in [Clients -> Seq(Lines)]
<1>1. box[x] \in Seq(Lines)
  OBVIOUS
<1>2. /\ \A l \in Lines : Append(box[x], l) \in Seq(Lines)
      /\ box[x] # <<>> => Tail(box[x]) \in Seq(Lines) /\ Head(box[x]) \in Lines
      /\ <<>> \in Seq(Lines)
  BY <1>1, SequenceType
<1> QED
  BY <1>2

LEMMA ReceiveType ==
  ASSUME NEW l \in Lines, inbox \in [Clients -> Seq(Lines)]
  PROVE  \A x \in Clients : Receive(x, l) \in Seq(Lines)
BY SequenceType DEF Receive

LEMMA DeliverType ==
  ASSUME NEW l \in Lines, NEW x \in Clients, inbox \in [Clients -> Seq(Lines)], Deliver(x, l)
  PROVE  inbox' \in [Clients -> Seq(Lines)]
BY ReceiveType DEF Deliver

LEMMA EmitType ==
  ASSUME NEW l \in Lines, fromShim \in Seq(Lines), Emit(l)
  PROVE  fromShim' \in Seq(Lines)
BY SequenceType DEF Emit

LEMMA TypeInit == Init => TypeOK
<1> SUFFICES ASSUME Init PROVE TypeOK
  OBVIOUS
<1>1. <<>> \in Seq(Lines)
  OBVIOUS
<1>2. /\ inbox \in [Clients -> Seq(Lines)] /\ outbox \in [Clients -> Seq(Lines)]
      /\ toShim \in Seq(Lines) /\ fromShim \in Seq(Lines)
  BY <1>1 DEF Init
<1> QED
  BY <1>2 DEF Init, TypeOK, Kinds, Outcomes, Held

LEMMA CallerTypes ==
  ASSUME TypeOK, NEW c \in Callers, Caller(c)
  PROVE  TypeOK'
<1> USE DEF TypeOK, callerVars, wireVars, pipeVars, requestVars, Outcomes, Held
<1>0. c \in Clients /\ Line("command", c) \in Lines
  BY LineType DEF Clients
<1>1. CASE Issue(c)
  <2>1. <<Line("command", c)>> \in Seq(Lines)
    BY <1>0
  <2> QED
    BY <1>0, <1>1, <2>1 DEF Issue, Kinds
<1>2. CASE Refused(c)
  BY <1>2 DEF Refused
<1>3. CASE TakeResult(c)
  BY <1>3 DEF TakeResult, Return
<1>4. CASE TimerExpires(c)
  BY <1>4 DEF TimerExpires
<1>5. CASE Timeout(c)
  BY <1>5 DEF Timeout, Return
<1>6. CASE Interrupt(c)
  BY <1>6 DEF Interrupt, Return
<1>7. CASE GivesUp(c)
  <2>1. inbox' \in [Clients -> Seq(Lines)]
    BY <1>0, <1>7, QueueType DEF GivesUp, Stops
  <2> QED
    BY <1>7, <2>1 DEF GivesUp, Stops
<1>8. CASE ScanLine(c)
  <2>1. inbox' \in [Clients -> Seq(Lines)]
    <3>1. inbox[c] # <<>>
      BY <1>8 DEF ScanLine, Scanned
    <3>2. CASE NextLine(c)
      BY <1>0, <3>1, <3>2, QueueType DEF NextLine
    <3>3. CASE inbox' = [inbox EXCEPT ![c] = <<>>]
      BY <1>0, <3>3, QueueType
    <3> QED
      BY <1>8, <3>2, <3>3 DEF ScanLine, Stops
  <2> QED
    BY <1>8, <2>1 DEF ScanLine, Stops
<1>9. CASE ScanEnds(c)
  <2>1. inbox' \in [Clients -> Seq(Lines)]
    <3>1. inbox' = [inbox EXCEPT ![c] = <<>>]
      BY <1>9 DEF ScanEnds, Stops
    <3> QED
      BY <1>0, <3>1, QueueType
  <2> QED
    BY <1>9, <2>1 DEF ScanEnds, Stops
<1>10. CASE PutResult(c)
  BY <1>10 DEF PutResult
<1> QED
  BY <1>1, <1>2, <1>3, <1>4, <1>5, <1>6, <1>7, <1>8, <1>9, <1>10 DEF Caller, ScannerSteps

LEMMA ConsumerTypes ==
  ASSUME TypeOK, NEW x \in Consumers, Consumer(x)
  PROVE  TypeOK'
<1> USE DEF TypeOK, callerVars, wireVars, pipeVars, requestVars
<1>0. x \in Clients
  BY DEF Clients
<1>1. CASE Attach(x)
  BY <1>1 DEF Attach
<1>2. CASE Consume(x)
  <2>1. inbox' \in [Clients -> Seq(Lines)] /\ Head(inbox[x]) \in Lines
    BY <1>0, <1>2, QueueType DEF Consume, NextLine
  <2>2. Line("response", Head(inbox[x]).id) \in Lines
    BY <2>1, IdType, LineType
  <2>3. outbox' \in [Clients -> Seq(Lines)]
    BY <1>0, <1>2, <2>2, QueueType DEF Consume
  <2> QED
    BY <1>2, <2>1, <2>3 DEF Consume
<1>3. CASE Leave(x)
  <2>1. inbox' \in [Clients -> Seq(Lines)]
    BY <1>0, <1>3, QueueType DEF Leave
  <2> QED
    BY <1>3, <2>1 DEF Leave
<1> QED
  BY <1>1, <1>2, <1>3 DEF Consumer

LEMMA DaemonTypes ==
  ASSUME TypeOK, Daemon
  PROVE  TypeOK'
<1> USE DEF TypeOK, callerVars, wireVars, pipeVars, requestVars
<1>1. ASSUME NEW x \in Clients, Handle(x) PROVE TypeOK'
  <2> DEFINE l == Head(outbox[x])
  <2>1. outbox' \in [Clients -> Seq(Lines)] /\ l \in Lines
    BY <1>1, QueueType DEF Handle
  <2>2. Line("error", l.id) \in Lines
    BY <2>1, IdType, LineType
  <2> HIDE DEF l
  <2>3. CASE /\ x \in Callers /\ service' = [service EXCEPT ![x] = "ok"]
             /\ Deliver(x, Line("response", x)) /\ UNCHANGED toShim
    <3>1. Line("response", x) \in Lines
      BY <2>3, LineType
    <3>2. inbox' \in [Clients -> Seq(Lines)]
      BY <1>1, <2>3, <3>1, DeliverType
    <3> QED
      BY <1>1, <2>1, <2>3, <3>2 DEF Handle
  <2>4. CASE toShim' = Append(toShim, l) /\ UNCHANGED <<inbox, service>>
    <3>1. toShim' \in Seq(Lines)
      BY <2>1, <2>4, SequenceType
    <3> QED
      BY <1>1, <2>1, <2>4, <3>1 DEF Handle
  <2>5. CASE Deliver(x, Line("error", l.id)) /\ UNCHANGED <<toShim, service>>
    <3>1. inbox' \in [Clients -> Seq(Lines)]
      BY <1>1, <2>2, <2>5, DeliverType
    <3> QED
      BY <1>1, <2>1, <2>5, <3>1 DEF Handle
  <2> QED
    BY <1>1, <2>3, <2>4, <2>5 DEF Handle, l
<1>2. ASSUME NEW x \in Clients, Evict(x) PROVE TypeOK'
  BY <1>2 DEF Evict
<1>3. CASE Broadcast
  <2>1. fromShim' \in Seq(Lines) /\ Head(fromShim) \in Lines
    BY <1>3, SequenceType DEF Broadcast
  <2>2. inbox' \in [Clients -> Seq(Lines)]
    BY <1>3, <2>1, ReceiveType DEF Broadcast
  <2> QED
    BY <1>3, <2>1, <2>2 DEF Broadcast
<1>4. CASE Reap
  BY <1>4 DEF Reap
<1>5. CASE CloseAll
  BY <1>5 DEF CloseAll, Cut
<1>6. CASE DaemonDies
  BY <1>6 DEF DaemonDies, Cut
<1> QED
  BY <1>1, <1>2, <1>3, <1>4, <1>5, <1>6 DEF Daemon

LEMMA ShimTypes ==
  ASSUME TypeOK, Shim, CommandsAreSentOnce
  PROVE  TypeOK'
<1> USE DEF TypeOK, callerVars, wireVars, pipeVars, requestVars
<1>1. CASE ShimDies
  BY <1>1 DEF ShimDies
<1>2. CASE ReadCommand
  <2> DEFINE c == Head(toShim).id
  <2>1. toShim' \in Seq(Lines) /\ Head(toShim) \in Lines
    BY <1>2, SequenceType DEF ReadCommand
  <2>2. c \in Callers
    BY <1>2, <2>1, WithinTail DEF ReadCommand, CommandsAreSentOnce, IsCommand
  <2> HIDE DEF c
  <2>3. CASE service' = [service EXCEPT ![c] = "running"] /\ UNCHANGED fromShim
    BY <1>2, <2>1, <2>2, <2>3 DEF ReadCommand
  <2>4. CASE Emit(Line("error", c)) /\ UNCHANGED service
    <3>1. fromShim' \in Seq(Lines)
      BY <2>2, <2>4, LineType, EmitType
    <3> QED
      BY <1>2, <2>1, <2>4, <3>1 DEF ReadCommand
  <2>5. CASE UNCHANGED <<fromShim, service>>
    BY <1>2, <2>1, <2>5 DEF ReadCommand
  <2> QED
    BY <1>2, <2>3, <2>4, <2>5 DEF ReadCommand, c
<1>3. CASE ReadReply
  <2>1. toShim' \in Seq(Lines)
    BY <1>3, SequenceType DEF ReadReply
  <2> QED
    BY <1>3, <2>1 DEF ReadReply
<1>4. CASE StdinCloses
  BY <1>4 DEF StdinCloses
<1>5. ASSUME NEW c \in Callers, ToolEnds(c) PROVE TypeOK'
  <2>1. fromShim' \in Seq(Lines)
    BY <1>5, LineType, EmitType DEF ToolEnds
  <2> QED
    BY <1>5, <2>1 DEF ToolEnds
<1>6. ASSUME NEW m \in Messages, MessageArrives(m) PROVE TypeOK'
  <2>1. fromShim' \in Seq(Lines)
    BY <1>6, LineType, EmitType DEF MessageArrives
  <2> QED
    BY <1>6, <2>1 DEF MessageArrives
<1>7. ASSUME NEW m \in Messages, TimerFires(m) PROVE TypeOK'
  BY <1>7 DEF TimerFires
<1> QED
  BY <1>1, <1>2, <1>3, <1>4, <1>5, <1>6, <1>7 DEF Shim

LEMMA TypeStep == TypeOK /\ CommandsAreSentOnce /\ [Next]_vars => TypeOK'
<1> SUFFICES ASSUME TypeOK, CommandsAreSentOnce, [Next]_vars PROVE TypeOK'
  OBVIOUS
<1>1. CASE UNCHANGED vars
  BY <1>1 DEF TypeOK, vars, callerVars, wireVars, pipeVars, requestVars
<1> QED
  BY <1>1, CallerTypes, ConsumerTypes, DaemonTypes, ShimTypes DEF Next

-----------------------------------------------------------------------------
(* What the plugin waits for                                               *)

LEMMA RequestsStep == TypeOK /\ RequestsAreBacked /\ [Next]_vars => RequestsAreBacked'
<1> SUFFICES ASSUME TypeOK, RequestsAreBacked, [Next]_vars PROVE RequestsAreBacked'
  OBVIOUS
<1>1. CASE UNCHANGED requestVars
  BY <1>1 DEF RequestsAreBacked, requestVars
<1>2. ASSUME NEW m \in Messages, MessageArrives(m) PROVE RequestsAreBacked'
  BY <1>2 DEF MessageArrives, RequestsAreBacked, TypeOK
<1>3. CASE ReadReply
  BY <1>3 DEF ReadReply, RequestsAreBacked, TypeOK
<1>4. ASSUME NEW m \in Messages, TimerFires(m) PROVE RequestsAreBacked'
  BY <1>4 DEF TimerFires, RequestsAreBacked, TypeOK
<1>5. CASE StdinCloses
  BY <1>5 DEF StdinCloses, RequestsAreBacked, TypeOK
<1>6. ASSUME NEW c \in Callers, Caller(c) PROVE UNCHANGED requestVars
  BY <1>6 DEF Caller, Issue, Refused, TakeResult, TimerExpires, Timeout, Interrupt,
              ScannerSteps, GivesUp, ScanLine, ScanEnds, PutResult
<1>7. ASSUME NEW x \in Consumers, Consumer(x) PROVE UNCHANGED requestVars
  BY <1>7 DEF Consumer, Attach, Consume, Leave
<1>8. ASSUME Daemon PROVE UNCHANGED requestVars
  BY <1>8 DEF Daemon, Handle, Evict, Broadcast, Reap, CloseAll, DaemonDies
<1>9. ASSUME ShimDies \/ ReadCommand \/ \E c \in Callers : ToolEnds(c)
      PROVE  UNCHANGED requestVars
  BY <1>9 DEF ShimDies, ReadCommand, ToolEnds
<1>10. UNCHANGED vars => UNCHANGED requestVars
  BY DEF vars
<1> QED
  BY <1>1, <1>2, <1>3, <1>4, <1>5, <1>6, <1>7, <1>8, <1>9, <1>10 DEF Next, Shim

-----------------------------------------------------------------------------
(* Calls are served once                                                   *)

\* What a step may do to the calls and their service, as RemoteCall has it.
ServedBy(c) ==
  /\ UNCHANGED call /\ call[c] # "idle"
  /\ \/ service[c] = "none" /\ service' \in {[service EXCEPT ![c] = "running"],
                                            [service EXCEPT ![c] = "ok"]}
     \/ service[c] = "running" /\ service' \in {[service EXCEPT ![c] = "ok"],
                                               [service EXCEPT ![c] = "failed"]}

Served == UNCHANGED service \/ \E c \in Callers : ServedBy(c)

ToldBy(c, o) ==
  /\ UNCHANGED service /\ call' = [call EXCEPT ![c] = o]
  /\ \/ call[c] = "idle" /\ o \in {"waiting", "failed"}
     \/ call[c] = "waiting" /\ o \in Outcomes /\ (o = "ok" => result[c] = "ok")

Told == UNCHANGED call \/ \E c \in Callers : \E o \in {"waiting"} \cup Outcomes : ToldBy(c, o)

LEMMA HeadOfToShim ==
  ASSUME TypeOK, CommandsAreSentOnce, toShim # <<>>, Head(toShim).type = "command"
  PROVE  /\ Head(toShim) \in Lines /\ Head(toShim).id \in Callers
         /\ call[Head(toShim).id] # "idle" /\ service[Head(toShim).id] = "none"
<1>1. Head(toShim) \in Lines /\ Within(Head(toShim), toShim)
  BY SequenceType, WithinTail DEF TypeOK
<1> QED
  BY <1>1 DEF CommandsAreSentOnce, IsCommand

LEMMA ServedStep ==
  TypeOK /\ CommandsAreSentOnce /\ NothingBeforeIssue /\ [Next]_vars => Served
<1> SUFFICES ASSUME TypeOK, CommandsAreSentOnce, NothingBeforeIssue, [Next]_vars
             PROVE  Served
  OBVIOUS
<1>1. ASSUME NEW x \in Clients, Handle(x) PROVE Served
  <2>1. CASE UNCHANGED service
    BY <2>1 DEF Served
  <2>2. CASE x \in Callers /\ service' = [service EXCEPT ![x] = "ok"]
    <3>1. call[x] # "idle" /\ service[x] = "none" /\ UNCHANGED call
      BY <1>1, <2>2 DEF Handle, CommandsAreSentOnce, callerVars
    <3> QED
      BY <2>2, <3>1 DEF Served, ServedBy
  <2> QED
    BY <1>1, <2>1, <2>2 DEF Handle
<1>2. CASE ReadCommand
  <2>1. UNCHANGED call
    BY <1>2 DEF ReadCommand, callerVars
  <2> QED
    BY <1>2, <2>1, HeadOfToShim DEF Served, ServedBy, ReadCommand
<1>3. ASSUME NEW c \in Callers, ToolEnds(c) PROVE Served
  <2>1. UNCHANGED call /\ call[c] # "idle"
    BY <1>3 DEF ToolEnds, callerVars, NothingBeforeIssue
  <2> QED
    BY <1>3, <2>1 DEF Served, ServedBy, ToolEnds
<1>4. ASSUME NEW c \in Callers, Caller(c) PROVE UNCHANGED service
  BY <1>4 DEF Caller, Issue, Refused, TakeResult, TimerExpires, Timeout, Interrupt,
              ScannerSteps, GivesUp, ScanLine, ScanEnds, PutResult
<1>5. ASSUME NEW x \in Consumers, Consumer(x) PROVE UNCHANGED service
  BY <1>5 DEF Consumer, Attach, Consume, Leave
<1>6. ASSUME NEW x \in Clients, Evict(x) PROVE UNCHANGED service
  BY <1>6 DEF Evict
<1>7. ASSUME Broadcast \/ Reap \/ CloseAll \/ DaemonDies \/ ShimDies \/ ReadReply \/ StdinCloses
      PROVE  UNCHANGED service
  BY <1>7 DEF Broadcast, Reap, CloseAll, DaemonDies, ShimDies, ReadReply, StdinCloses
<1>8. ASSUME NEW m \in Messages, MessageArrives(m) \/ TimerFires(m) PROVE UNCHANGED service
  BY <1>8 DEF MessageArrives, TimerFires
<1>9. UNCHANGED vars => UNCHANGED service
  BY DEF vars
<1>10. UNCHANGED service => Served
  BY DEF Served
<1> QED
  BY <1>1, <1>2, <1>3, <1>4, <1>5, <1>6, <1>7, <1>8, <1>9, <1>10 DEF Next, Daemon, Shim

LEMMA ToldStep == TypeOK /\ [Next]_vars => Told
<1> SUFFICES ASSUME TypeOK, [Next]_vars PROVE Told
  OBVIOUS
<1>1. ASSUME NEW c \in Callers, Issue(c) PROVE Told
  BY <1>1 DEF Told, ToldBy, Issue
<1>2. ASSUME NEW c \in Callers, Refused(c) PROVE Told
  BY <1>2 DEF Told, ToldBy, Refused, Outcomes
<1>3. ASSUME NEW c \in Callers, TakeResult(c) PROVE Told
  <2>1. result[c] \in Outcomes
    BY <1>3 DEF TakeResult, TypeOK, Held, Outcomes
  <2> QED
    BY <1>3, <2>1 DEF Told, ToldBy, TakeResult, Return
<1>4. ASSUME NEW c \in Callers, Timeout(c) \/ Interrupt(c) PROVE Told
  BY <1>4 DEF Told, ToldBy, Timeout, Interrupt, Return, Outcomes
<1>5. ASSUME NEW c \in Callers, TimerExpires(c) \/ ScannerSteps(c) PROVE UNCHANGED call
  BY <1>5 DEF TimerExpires, ScannerSteps, GivesUp, ScanLine, ScanEnds, PutResult
<1>6. ASSUME NEW x \in Consumers, Consumer(x) PROVE UNCHANGED call
  BY <1>6 DEF Consumer, Attach, Consume, Leave, callerVars
<1>7. ASSUME Daemon PROVE UNCHANGED call
  BY <1>7 DEF Daemon, Handle, Evict, Broadcast, Reap, CloseAll, DaemonDies, callerVars
<1>8. ASSUME Shim PROVE UNCHANGED call
  BY <1>8 DEF Shim, ShimDies, ReadCommand, ReadReply, StdinCloses, ToolEnds, MessageArrives,
              TimerFires, callerVars
<1>9. UNCHANGED vars => UNCHANGED call
  BY DEF vars, callerVars
<1>10. UNCHANGED call => Told
  BY DEF Told
<1> QED
  BY <1>1, <1>2, <1>3, <1>4, <1>5, <1>6, <1>7, <1>8, <1>9, <1>10 DEF Next, Caller

LEMMA NothingStep ==
  TypeOK /\ NothingBeforeIssue /\ Served /\ Told => NothingBeforeIssue'
BY DEF TypeOK, NothingBeforeIssue, Served, ServedBy, Told, ToldBy, Outcomes

\* A call once served with success stays so, and one once made stays made.
LEMMA Progress ==
  ASSUME TypeOK, Served, Told, NEW c \in Callers
  PROVE  /\ service'[c] # "ok" => service[c] # "ok"
         /\ call'[c] = "idle" => call[c] = "idle"
BY DEF TypeOK, Served, ServedBy, Told, ToldBy, Outcomes

-----------------------------------------------------------------------------
(* Responses tell the truth                                                *)

\* What is said of a call that has not been served with success.
NoResponse(c) ==
  /\ scanner[c] # "ok" /\ result[c] # "ok"
  /\ ~Within(Line("response", c), fromShim)
  /\ \A x \in Clients : ~Within(Line("response", c), inbox[x])

LEMMA NoResponseHandle ==
  ASSUME TypeOK, NEW c \in Callers, NoResponse(c), service'[c] # "ok",
         NEW x \in Clients, Handle(x)
  PROVE  NoResponse(c)'
<1>1. ASSUME NEW l \in Lines, l # Line("response", c), Deliver(x, l)
      PROVE  \A y \in Clients : ~Within(Line("response", c), inbox'[y])
  BY <1>1, WithinAppend DEF Deliver, Receive, NoResponse, TypeOK
<1>2. UNCHANGED inbox => \A y \in Clients : ~Within(Line("response", c), inbox'[y])
  BY DEF NoResponse
<1>3. CASE x \in Callers /\ service' = [service EXCEPT ![x] = "ok"] /\ Deliver(x, Line("response", x))
  <2>1. Line("response", x) \in Lines /\ Line("response", x) # Line("response", c)
    BY <1>3, LineType DEF TypeOK, Line
  <2> QED
    BY <1>1, <1>3, <2>1 DEF Handle, NoResponse, callerVars
<1>4. CASE Deliver(x, Line("error", Head(outbox[x]).id))
  <2>1. Head(outbox[x]) \in Lines
    BY QueueType DEF Handle, TypeOK
  <2>2. Line("error", Head(outbox[x]).id) \in Lines
    BY <2>1, IdType, LineType
  <2>3. Line("error", Head(outbox[x]).id) # Line("response", c)
    BY DEF Line
  <2> QED
    BY <1>1, <1>4, <2>2, <2>3 DEF Handle, NoResponse, callerVars
<1>5. CASE UNCHANGED inbox
  BY <1>2, <1>5 DEF Handle, NoResponse, callerVars
<1> QED
  BY <1>3, <1>4, <1>5 DEF Handle

LEMMA NoResponseDaemon ==
  ASSUME TypeOK, NEW c \in Callers, NoResponse(c), service'[c] # "ok", Daemon
  PROVE  NoResponse(c)'
<1>1. CASE Broadcast
  <2>1. /\ fromShim \in Seq(Lines) /\ fromShim # <<>>
        /\ Head(fromShim) \in Lines /\ Within(Head(fromShim), fromShim)
    BY <1>1, SequenceType, WithinTail DEF Broadcast, TypeOK
  <2>2. Head(fromShim) # Line("response", c)
    BY <2>1 DEF NoResponse
  <2>3. ~Within(Line("response", c), fromShim')
    BY <1>1, <2>1, WithinTail DEF Broadcast, NoResponse
  <2>4. \A x \in Clients : ~Within(Line("response", c), Receive(x, Head(fromShim)))
    BY <2>1, <2>2, WithinAppend DEF Receive, NoResponse, TypeOK
  <2> QED
    BY <1>1, <2>3, <2>4 DEF Broadcast, NoResponse, callerVars
<1>2. CASE Reap \/ DaemonDies
  BY <1>2, WithinEmpty DEF Reap, DaemonDies, NoResponse, callerVars, wireVars
<1>3. CASE CloseAll
  BY <1>3 DEF CloseAll, NoResponse, callerVars, pipeVars
<1>4. ASSUME NEW x \in Clients, Evict(x) PROVE NoResponse(c)'
  BY <1>4 DEF Evict, NoResponse, callerVars, pipeVars
<1> QED
  BY <1>1, <1>2, <1>3, <1>4, NoResponseHandle DEF Daemon

LEMMA NoResponseShim ==
  ASSUME TypeOK, CommandsAreSentOnce, NEW c \in Callers, NoResponse(c), service'[c] # "ok", Shim
  PROVE  NoResponse(c)'
<1>1. ASSUME NEW l \in Lines, l # Line("response", c), Emit(l)
      PROVE  ~Within(Line("response", c), fromShim')
  BY <1>1, WithinAppend DEF Emit, NoResponse, TypeOK
<1>2. CASE ReadCommand
  <2>1. Head(toShim).id \in Callers
    BY <1>2, HeadOfToShim DEF ReadCommand
  <2>2. Line("error", Head(toShim).id) \in Lines
    BY <2>1, LineType
  <2>3. ~Within(Line("response", c), fromShim')
    BY <1>1, <1>2, <2>2 DEF ReadCommand, Line, NoResponse
  <2> QED
    BY <1>2, <2>3 DEF ReadCommand, NoResponse, callerVars, wireVars
<1>3. ASSUME NEW d \in Callers, ToolEnds(d) PROVE NoResponse(c)'
  <2>1. CASE service' = [service EXCEPT ![d] = "ok"] /\ Emit(Line("response", d))
    <3>1. Line("response", d) # Line("response", c)
      BY <2>1 DEF TypeOK, Line
    <3> QED
      BY <1>1, <1>3, <2>1, <3>1, LineType DEF ToolEnds, NoResponse, callerVars, wireVars
  <2>2. CASE Emit(Line("error", d))
    <3>1. Line("error", d) # Line("response", c)
      BY DEF Line
    <3> QED
      BY <1>1, <1>3, <2>2, <3>1, LineType DEF ToolEnds, NoResponse, callerVars, wireVars
  <2> QED
    BY <1>3, <2>1, <2>2 DEF ToolEnds
<1>4. ASSUME NEW m \in Messages, MessageArrives(m) PROVE NoResponse(c)'
  <2>1. Line("command", m) # Line("response", c)
    BY DEF Line
  <2> QED
    BY <1>1, <1>4, <2>1, LineType DEF MessageArrives, NoResponse, callerVars, wireVars
<1>5. CASE ShimDies \/ ReadReply \/ StdinCloses
  BY <1>5 DEF ShimDies, ReadReply, StdinCloses, NoResponse, callerVars, wireVars, pipeVars
<1>6. ASSUME NEW m \in Messages, TimerFires(m) PROVE NoResponse(c)'
  BY <1>6 DEF TimerFires, NoResponse, callerVars, wireVars, pipeVars
<1> QED
  BY <1>2, <1>3, <1>4, <1>5, <1>6 DEF Shim

LEMMA NoResponseReading ==
  ASSUME TypeOK, NEW c \in Callers, NoResponse(c), NEW x \in Clients,
         \/ inbox' = [inbox EXCEPT ![x] = <<>>]
         \/ NextLine(x) /\ inbox[x] # <<>>
  PROVE  \A y \in Clients : ~Within(Line("response", c), inbox'[y])
<1> SUFFICES ASSUME NEW y \in Clients PROVE ~Within(Line("response", c), inbox'[y])
  OBVIOUS
<1>1. inbox[y] \in Seq(Lines) /\ ~Within(Line("response", c), inbox[y])
  BY DEF NoResponse, TypeOK
<1>2. CASE inbox' = [inbox EXCEPT ![x] = <<>>]
  <2>1. inbox'[y] \in {<<>>, inbox[y]}
    BY <1>2 DEF TypeOK
  <2> QED
    BY <1>1, <2>1, WithinEmpty
<1>3. CASE NextLine(x) /\ inbox[x] # <<>>
  <2>1. inbox'[y] = IF y = x THEN Tail(inbox[y]) ELSE inbox[y]
    BY <1>3 DEF NextLine, TypeOK
  <2>2. CASE y = x
    <3>1. \A l : Within(l, Tail(inbox[y])) => Within(l, inbox[y])
      BY <1>1, <1>3, <2>2, WithinTail
    <3> QED
      BY <1>1, <2>1, <2>2, <3>1
  <2> QED
    BY <1>1, <2>1, <2>2
<1> QED
  BY <1>2, <1>3

LEMMA NoResponseCaller ==
  ASSUME TypeOK, NEW c \in Callers, NoResponse(c), NEW d \in Callers, Caller(d)
  PROVE  NoResponse(c)'
<1>0. d \in Clients
  BY DEF Clients
<1>1. CASE Issue(d)
  BY <1>1 DEF Issue, NoResponse, pipeVars, TypeOK
<1>2. CASE Refused(d)
  BY <1>2 DEF Refused, NoResponse, pipeVars, wireVars
<1>3. CASE TakeResult(d) \/ Timeout(d) \/ Interrupt(d)
  BY <1>3 DEF TakeResult, Timeout, Interrupt, NoResponse, pipeVars
<1>4. CASE TimerExpires(d)
  BY <1>4 DEF TimerExpires, NoResponse, pipeVars, wireVars
<1>5. CASE PutResult(d)
  BY <1>5 DEF PutResult, NoResponse, pipeVars, wireVars, TypeOK
<1>6. CASE GivesUp(d)
  <2>1. \A y \in Clients : ~Within(Line("response", c), inbox'[y])
    BY <1>0, <1>6, NoResponseReading DEF GivesUp, Stops
  <2> QED
    BY <1>6, <2>1 DEF GivesUp, Stops, NoResponse, pipeVars, TypeOK
<1>7. CASE ScanEnds(d)
  <2>1. \A y \in Clients : ~Within(Line("response", c), inbox'[y])
    BY <1>0, <1>7, NoResponseReading DEF ScanEnds, Stops
  <2> QED
    BY <1>7, <2>1 DEF ScanEnds, Stops, NoResponse, pipeVars, TypeOK
<1>8. CASE ScanLine(d)
  <2>1. \A y \in Clients : ~Within(Line("response", c), inbox'[y])
    BY <1>0, <1>8, NoResponseReading DEF ScanLine, Scanned, Stops
  <2>2. inbox[d] \in Seq(Lines) /\ inbox[d] # <<>>
    BY <1>0, <1>8 DEF ScanLine, Scanned, TypeOK
  <2>3. Head(inbox[d]) = Line("response", d) => d # c
    BY <1>0, <2>2, WithinTail DEF NoResponse
  <2>4. scanner'[c] # "ok"
    BY <1>8, <2>3 DEF ScanLine, Stops, NoResponse, TypeOK
  <2> QED
    BY <1>8, <2>1, <2>4 DEF ScanLine, NoResponse, pipeVars
<1> QED
  BY <1>1, <1>2, <1>3, <1>4, <1>5, <1>6, <1>7, <1>8 DEF Caller, ScannerSteps

LEMMA NoResponseConsumer ==
  ASSUME TypeOK, NEW c \in Callers, NoResponse(c), NEW x \in Consumers, Consumer(x)
  PROVE  NoResponse(c)'
<1>0. x \in Clients
  BY DEF Clients
<1>1. CASE Attach(x)
  BY <1>1 DEF Attach, NoResponse, callerVars, pipeVars
<1>2. CASE Consume(x)
  BY <1>0, <1>2, NoResponseReading DEF Consume, NoResponse, callerVars, pipeVars
<1>3. CASE Leave(x)
  BY <1>0, <1>3, NoResponseReading DEF Leave, NoResponse, callerVars, pipeVars
<1> QED
  BY <1>1, <1>2, <1>3 DEF Consumer

LEMMA ResponsesStep ==
  ASSUME TypeOK, CommandsAreSentOnce, ResponsesAreTrue, Served, Told, [Next]_vars
  PROVE  ResponsesAreTrue'
<1> SUFFICES ASSUME NEW c \in Callers, service'[c] # "ok"
             PROVE  call'[c] # "ok" /\ NoResponse(c)'
  BY DEF ResponsesAreTrue, NoResponse
<1>1. service[c] # "ok" /\ NoResponse(c) /\ call[c] # "ok"
  BY Progress DEF ResponsesAreTrue, NoResponse
<1>2. call'[c] # "ok"
  BY <1>1 DEF Told, ToldBy, NoResponse, TypeOK
<1>3. CASE UNCHANGED vars
  BY <1>1, <1>3 DEF NoResponse, vars, callerVars, wireVars, pipeVars
<1> QED
  BY <1>1, <1>2, <1>3, NoResponseCaller, NoResponseConsumer, NoResponseDaemon, NoResponseShim
     DEF Next

-----------------------------------------------------------------------------
(* A command is in one place                                               *)

LEMMA LineEta ==
  /\ \A l \in Lines : l = Line(l.type, l.id)
  /\ \A t, i : IsCommand(Line(t, i)) <=> t = "command"
  /\ \A t, i : Line(t, i).id = i
BY DEF Lines, Line, IsCommand

LEMMA CommandsRest ==
  ASSUME TypeOK, CommandsAreSentOnce, Told, UNCHANGED <<outbox, toShim, service>>
  PROVE  CommandsAreSentOnce'
<1>1. \A c \in Callers : call[c] # "idle" => call'[c] # "idle"
  BY DEF Told, ToldBy, Outcomes, TypeOK
<1> QED
  BY <1>1 DEF CommandsAreSentOnce

LEMMA CommandsIssue ==
  ASSUME TypeOK, CommandsAreSentOnce, NothingBeforeIssue, NEW c \in Callers, Issue(c)
  PROVE  CommandsAreSentOnce'
<1>1. /\ call' = [call EXCEPT ![c] = "waiting"] /\ call[c] = "idle"
      /\ outbox' = [outbox EXCEPT ![c] = <<Line("command", c)>>]
      /\ UNCHANGED <<toShim, service>>
  BY DEF Issue, pipeVars
<1>2. service[c] = "none"
  BY <1>1 DEF NothingBeforeIssue
<1>3. ~Within(Line("command", c), toShim)
  BY <1>1, LineType, LineEta DEF CommandsAreSentOnce
<1>4. c \in Clients /\ \A x \in Consumers : x \in Clients /\ x # c
  BY RpcAssumption DEF Clients
<1>5. \A d \in Callers : call[d] # "idle" => call'[d] # "idle"
  BY <1>1 DEF TypeOK
<1>6. ASSUME NEW d \in Callers
      PROVE  /\ outbox'[d] \in {<<>>, <<Line("command", d)>>}
             /\ outbox'[d] # <<>> => /\ call'[d] # "idle" /\ service'[d] = "none"
                                    /\ ~Within(Line("command", d), toShim')
  <2>1. CASE d = c
    BY <1>1, <1>2, <1>3, <1>4, <2>1 DEF TypeOK
  <2>2. CASE d # c
    BY <1>1, <1>5, <2>2 DEF TypeOK, CommandsAreSentOnce, Clients
  <2> QED
    BY <2>1, <2>2
<1>7. \A x \in Consumers : outbox'[x] = outbox[x]
  BY <1>1, <1>4 DEF TypeOK
<1> QED
  BY <1>1, <1>5, <1>6, <1>7 DEF CommandsAreSentOnce

LEMMA CommandsConsume ==
  ASSUME TypeOK, CommandsAreSentOnce, NEW x \in Consumers, Consume(x)
  PROVE  CommandsAreSentOnce'
<1>1. UNCHANGED <<call, toShim, service>>
  BY DEF Consume, callerVars, pipeVars
<1>2. /\ \A c \in Callers : c \in Clients /\ c # x
      /\ \A y \in Consumers : y \in Clients
  BY RpcAssumption DEF Clients
<1>3. CASE outbox' = outbox
  BY <1>1, <1>3 DEF CommandsAreSentOnce
<1>4. CASE outbox' = [outbox EXCEPT ![x] = Append(@, Line("response", Head(inbox[x]).id))]
  <2> DEFINE r == Line("response", Head(inbox[x]).id)
  <2>1. Head(inbox[x]) \in Lines /\ r \in Lines /\ ~IsCommand(r)
    BY <1>2, QueueType, IdType, LineType, LineEta DEF Consume, TypeOK
  <2> HIDE DEF r
  <2>2. \A c \in Callers : outbox'[c] = outbox[c]
    BY <1>2, <1>4 DEF TypeOK
  <2>3. ASSUME NEW y \in Consumers, NEW l \in Lines, Within(l, outbox'[y])
        PROVE  ~IsCommand(l)
    <3>1. CASE y = x
      <4>1. outbox[x] \in Seq(Lines) /\ outbox'[y] = Append(outbox[x], r)
        BY <1>2, <1>4, <3>1 DEF TypeOK, r
      <4>2. Within(l, outbox[x]) \/ l = r
        BY <2>1, <2>3, <4>1, WithinAppend
      <4> QED
        BY <2>1, <4>2 DEF CommandsAreSentOnce
    <3>2. CASE y # x
      BY <1>2, <1>4, <2>3, <3>2 DEF TypeOK, CommandsAreSentOnce
    <3> QED
      BY <3>1, <3>2
  <2> QED
    BY <1>1, <2>2, <2>3 DEF CommandsAreSentOnce
<1> QED
  BY <1>3, <1>4 DEF Consume

LEMMA CommandsHandle ==
  ASSUME TypeOK, CommandsAreSentOnce, NEW x \in Clients, Handle(x)
  PROVE  CommandsAreSentOnce'
<1> DEFINE l == Head(outbox[x])
<1>1. /\ outbox[x] \in Seq(Lines) /\ outbox[x] # <<>>
      /\ outbox' = [outbox EXCEPT ![x] = Tail(@)] /\ UNCHANGED call
      /\ l \in Lines /\ Within(l, outbox[x])
  BY QueueType, WithinTail DEF Handle, TypeOK, callerVars
<1>2. /\ Callers \subseteq Clients /\ Consumers \subseteq Clients
      /\ x \in Callers \/ x \in Consumers
  BY DEF Clients
<1>3. x \in Callers => outbox[x] = <<Line("command", x)>> /\ outbox'[x] = <<>>
                        /\ l = Line("command", x)
  <2> SUFFICES ASSUME x \in Callers
               PROVE  /\ outbox[x] = <<Line("command", x)>> /\ outbox'[x] = <<>>
                      /\ l = Line("command", x)
    OBVIOUS
  <2> DEFINE k == Line("command", x)
  <2>1. outbox[x] = <<k>>
    BY <1>1 DEF CommandsAreSentOnce
  <2> HIDE DEF k
  <2>2. Head(<<k>>) = k /\ Tail(<<k>>) = <<>>
    OBVIOUS
  <2>3. outbox'[x] = Tail(outbox[x])
    BY <1>1 DEF TypeOK
  <2> QED
    BY <2>1, <2>2, <2>3 DEF k
<1> HIDE DEF l
<1>4. \A y \in Clients : y # x => outbox'[y] = outbox[y]
  BY <1>1 DEF TypeOK
<1>5. \A y \in Consumers, k \in Lines : Within(k, outbox'[y]) => ~IsCommand(k)
  <2> SUFFICES ASSUME NEW y \in Consumers, NEW k \in Lines, Within(k, outbox'[y])
               PROVE  ~IsCommand(k)
    OBVIOUS
  <2>1. CASE y = x
    <3>1. outbox'[y] = Tail(outbox[x])
      BY <1>1, <2>1 DEF TypeOK
    <3>2. Within(k, outbox[x])
      BY <1>1, <3>1, WithinTail
    <3> QED
      BY <2>1, <3>2 DEF CommandsAreSentOnce
  <2> QED
    BY <1>2, <1>4, <2>1 DEF CommandsAreSentOnce
<1>6. \A c \in Callers : c # x /\ outbox'[c] # <<>> =>
        /\ outbox[c] = <<Line("command", c)>> /\ outbox'[c] = outbox[c]
        /\ call'[c] # "idle" /\ service[c] = "none" /\ ~Within(Line("command", c), toShim)
  BY <1>1, <1>2, <1>4 DEF CommandsAreSentOnce
<1>7. CASE UNCHANGED <<toShim, service>>
  <2>1. \A c \in Callers :
          /\ outbox'[c] \in {<<>>, <<Line("command", c)>>}
          /\ outbox'[c] # <<>> => /\ call'[c] # "idle" /\ service'[c] = "none"
                                 /\ ~Within(Line("command", c), toShim')
    BY <1>3, <1>6, <1>7
  <2> QED
    BY <1>1, <1>5, <1>7, <2>1 DEF CommandsAreSentOnce
<1>8. CASE x \in Callers /\ service' = [service EXCEPT ![x] = "ok"] /\ UNCHANGED toShim
  <2>1. ~Within(Line("command", x), toShim)
    BY <1>1, <1>3, <1>8 DEF CommandsAreSentOnce
  <2>2. \A k \in Lines : Within(k, toShim) /\ IsCommand(k) => k.id # x
    BY <2>1, LineEta DEF IsCommand
  <2>3. \A c \in Callers : c # x => service'[c] = service[c]
    BY <1>8 DEF TypeOK
  <2>4. \A c \in Callers :
          /\ outbox'[c] \in {<<>>, <<Line("command", c)>>}
          /\ outbox'[c] # <<>> => /\ call'[c] # "idle" /\ service'[c] = "none"
                                 /\ ~Within(Line("command", c), toShim')
    BY <1>3, <1>6, <1>8, <2>3
  <2> QED
    BY <1>1, <1>5, <1>8, <2>2, <2>3, <2>4 DEF CommandsAreSentOnce
<1>9. CASE toShim' = Append(toShim, l) /\ UNCHANGED service
  <2>0. toShim \in Seq(Lines)
    BY DEF TypeOK
  <2>1. \A k : Within(k, toShim') => Within(k, toShim) \/ k = l
    BY <1>1, <1>9, <2>0, WithinAppend
  <2>2. IsCommand(l) => /\ x \in Callers /\ l = Line("command", x) /\ call[x] # "idle"
                        /\ service[x] = "none" /\ ~Within(l, toShim)
    BY <1>1, <1>2, <1>3 DEF CommandsAreSentOnce
  <2>3. Once(toShim')
    BY <1>1, <1>9, <2>0, <2>2, OnceAppend DEF CommandsAreSentOnce
  <2>4. \A k \in Lines : Within(k, toShim') /\ IsCommand(k) =>
          k.id \in Callers /\ call'[k.id] # "idle" /\ service'[k.id] = "none"
    BY <1>1, <1>9, <2>1, <2>2, LineEta DEF CommandsAreSentOnce
  <2>5. \A c \in Callers : c # x => Line("command", c) # l
    BY <2>2, LineEta
  <2>6. \A c \in Callers :
          /\ outbox'[c] \in {<<>>, <<Line("command", c)>>}
          /\ outbox'[c] # <<>> => /\ call'[c] # "idle" /\ service'[c] = "none"
                                 /\ ~Within(Line("command", c), toShim')
    BY <1>3, <1>6, <1>9, <2>1, <2>5
  <2> QED
    BY <1>5, <2>3, <2>4, <2>6 DEF CommandsAreSentOnce
<1> QED
  BY <1>7, <1>8, <1>9 DEF Handle, l

LEMMA CommandsCut ==
  ASSUME TypeOK, CommandsAreSentOnce, Told, Cut, UNCHANGED <<toShim, service>>
  PROVE  CommandsAreSentOnce'
<1>1. \A c \in Callers : call[c] # "idle" => call'[c] # "idle"
  BY DEF Told, ToldBy, Outcomes, TypeOK
<1>2. \A x \in Clients : outbox'[x] = <<>>
  BY DEF Cut
<1> QED
  BY <1>1, <1>2, WithinEmpty DEF CommandsAreSentOnce, Clients

LEMMA CommandsReadCommand ==
  ASSUME TypeOK, CommandsAreSentOnce, ReadCommand
  PROVE  CommandsAreSentOnce'
<1> DEFINE c == Head(toShim).id
<1>1. /\ toShim \in Seq(Lines) /\ toShim # <<>> /\ toShim' = Tail(toShim)
      /\ UNCHANGED <<call, outbox>> /\ Head(toShim) \in Lines /\ IsCommand(Head(toShim))
      /\ c \in Callers
  BY HeadOfToShim DEF ReadCommand, TypeOK, callerVars, wireVars, IsCommand
<1>2. \A d \in Callers : d # c => service'[d] = service[d]
  BY DEF ReadCommand, TypeOK
<1>3. Head(toShim) = Line("command", c)
  BY <1>1, LineEta DEF IsCommand
<1> HIDE DEF c
<1>4. \A k : Within(k, toShim') => Within(k, toShim)
  BY <1>1, WithinTail
<1>5. Once(toShim') /\ ~Within(Line("command", c), toShim')
  BY <1>1, <1>3, OnceTail DEF CommandsAreSentOnce
<1>6. \A k \in Lines : Within(k, toShim') /\ IsCommand(k) => k.id # c
  BY <1>5, LineEta DEF IsCommand
<1>7. outbox[c] = <<>>
  BY <1>1, <1>3, WithinTail DEF CommandsAreSentOnce
<1>8. \A d \in Callers :
        /\ outbox'[d] \in {<<>>, <<Line("command", d)>>}
        /\ outbox'[d] # <<>> => /\ call'[d] # "idle" /\ service'[d] = "none"
                               /\ ~Within(Line("command", d), toShim')
  BY <1>1, <1>2, <1>4, <1>7 DEF CommandsAreSentOnce
<1>9. \A k \in Lines : Within(k, toShim') /\ IsCommand(k) =>
        k.id \in Callers /\ call'[k.id] # "idle" /\ service'[k.id] = "none"
  BY <1>1, <1>2, <1>4, <1>6 DEF CommandsAreSentOnce
<1> QED
  BY <1>1, <1>5, <1>8, <1>9 DEF CommandsAreSentOnce

LEMMA CommandsReadReply ==
  ASSUME TypeOK, CommandsAreSentOnce, ReadReply
  PROVE  CommandsAreSentOnce'
<1>1. /\ toShim \in Seq(Lines) /\ toShim # <<>> /\ toShim' = Tail(toShim)
      /\ UNCHANGED <<call, outbox, service>>
  BY DEF ReadReply, TypeOK, callerVars, wireVars
<1>2. \A k : Within(k, toShim') => Within(k, toShim)
  BY <1>1, WithinTail
<1>3. Once(toShim')
  BY <1>1, OnceTail DEF CommandsAreSentOnce
<1> QED
  BY <1>1, <1>2, <1>3 DEF CommandsAreSentOnce

LEMMA CommandsToolEnds ==
  ASSUME TypeOK, CommandsAreSentOnce, NEW c \in Callers, ToolEnds(c)
  PROVE  CommandsAreSentOnce'
<1>1. /\ UNCHANGED <<call, outbox, toShim>> /\ service[c] = "running"
      /\ \A d \in Callers : d # c => service'[d] = service[d]
  BY DEF ToolEnds, callerVars, wireVars, TypeOK
<1> QED
  BY <1>1 DEF CommandsAreSentOnce

LEMMA CommandsStep ==
  ASSUME TypeOK, CommandsAreSentOnce, NothingBeforeIssue, Told, [Next]_vars
  PROVE  CommandsAreSentOnce'
<1>1. ASSUME NEW c \in Callers, Caller(c) PROVE CommandsAreSentOnce'
  <2>1. Issue(c) \/ UNCHANGED <<outbox, toShim, service>>
    BY <1>1 DEF Caller, Refused, TakeResult, TimerExpires, Timeout, Interrupt, ScannerSteps,
                GivesUp, ScanLine, ScanEnds, PutResult, wireVars, pipeVars
  <2> QED
    BY <2>1, CommandsIssue, CommandsRest
<1>2. ASSUME NEW x \in Consumers, Consumer(x) PROVE CommandsAreSentOnce'
  <2>1. Consume(x) \/ UNCHANGED <<outbox, toShim, service>>
    BY <1>2 DEF Consumer, Attach, Leave, pipeVars
  <2> QED
    BY <2>1, CommandsConsume, CommandsRest
<1>3. ASSUME NEW x \in Clients, Evict(x) PROVE CommandsAreSentOnce'
  BY <1>3, CommandsRest DEF Evict, pipeVars
<1>4. CASE CloseAll \/ DaemonDies
  BY <1>4, CommandsCut DEF CloseAll, DaemonDies, pipeVars
<1>5. CASE ShimDies
  <2>1. toShim' = <<>> /\ UNCHANGED <<call, outbox, service>>
    BY <1>5 DEF ShimDies, callerVars, wireVars
  <2>2. Once(<<>>)
    BY DEF Once
  <2> QED
    BY <2>1, <2>2, WithinEmpty DEF CommandsAreSentOnce
<1>6. ASSUME \/ Broadcast \/ Reap \/ StdinCloses
             \/ \E m \in Messages : MessageArrives(m) \/ TimerFires(m)
             \/ UNCHANGED vars
      PROVE  UNCHANGED <<outbox, toShim, service>>
  BY <1>6 DEF Broadcast, Reap, StdinCloses, MessageArrives, TimerFires, vars, wireVars, pipeVars
<1> QED
  BY <1>1, <1>2, <1>3, <1>4, <1>5, <1>6, CommandsRest, CommandsHandle, CommandsReadCommand,
     CommandsReadReply, CommandsToolEnds DEF Next, Daemon, Shim

-----------------------------------------------------------------------------
(* The theorems                                                            *)

LEMMA InvInit == Init => IInv
<1> SUFFICES ASSUME Init PROVE IInv
  OBVIOUS
<1>1. TypeOK
  BY TypeInit
<1>2. RequestsAreBacked /\ NothingBeforeIssue /\ AnswerIsOwn
  BY DEF Init, RequestsAreBacked, NothingBeforeIssue, AnswerIsOwn
<1>3. ResponsesAreTrue
  BY WithinEmpty DEF Init, ResponsesAreTrue
<1>4. CommandsAreSentOnce
  <2>1. Once(<<>>)
    BY DEF Once
  <2> QED
    BY <2>1, WithinEmpty DEF Init, CommandsAreSentOnce, Clients
<1> QED
  BY <1>1, <1>2, <1>3, <1>4 DEF IInv

LEMMA InvStep == IInv /\ [Next]_vars => IInv'
<1> SUFFICES ASSUME IInv, [Next]_vars PROVE IInv'
  OBVIOUS
<1>1. Served /\ Told
  BY ServedStep, ToldStep DEF IInv
<1>2. TypeOK'
  BY TypeStep DEF IInv
<1>3. RequestsAreBacked' /\ NothingBeforeIssue'
  BY <1>1, RequestsStep, NothingStep DEF IInv
<1>4. ResponsesAreTrue' /\ CommandsAreSentOnce'
  BY <1>1, ResponsesStep, CommandsStep DEF IInv
<1>5. AnswerIsOwn'
  BY <1>4 DEF ResponsesAreTrue, AnswerIsOwn
<1> QED
  BY <1>2, <1>3, <1>4, <1>5 DEF IInv

\* IInv holds in every state: the requests of the plugin are backed, responses
\* are true and commands are in one place.
THEOREM InductiveInvariant == Spec => []IInv
BY InvInit, InvStep, PTL DEF Spec

\* Every variable keeps its type.
THEOREM TypeCorrect == Spec => []TypeOK
<1>1. IInv => TypeOK
  BY DEF IInv
<1> QED
  BY <1>1, InductiveInvariant, PTL

\* A caller told of success was served with success, for any number of callers
\* and whatever dies or is late.
THEOREM AnswersAreOwn == Spec => []AnswerIsOwn
<1>1. IInv => AnswerIsOwn
  BY DEF IInv
<1> QED
  BY <1>1, InductiveInvariant, PTL

\* A request the plugin waits for is in pendingRequests with its timer running.
THEOREM RequestsStayBacked == Spec => []RequestsAreBacked
<1>1. IInv => RequestsAreBacked
  BY DEF IInv
<1> QED
  BY <1>1, InductiveInvariant, PTL

\* The daemon, its clients and its shim implement RemoteCall: a call is served
\* at most once, and success is told only after it was served with success.
THEOREM ImplementsRemoteCall == Spec => CallSafety
<1>1. Init => Remote!CallInit
  BY DEF Init, Remote!CallInit
<1>2. ASSUME IInv, [Next]_vars PROVE [Remote!CallNext]_(Remote!callVars)
  <2>1. Served /\ Told
    BY <1>2, ServedStep, ToldStep DEF IInv
  <2>2. ASSUME NEW c \in Callers, ServedBy(c) PROVE Remote!CallNext
    <3>1. Remote!Begin(c) \/ Remote!End(c)
      BY <2>2 DEF ServedBy, Remote!Begin, Remote!End, Remote!Serve
    <3> QED
      BY <3>1 DEF Remote!CallNext
  <2>3. ASSUME NEW c \in Callers, NEW o \in {"waiting"} \cup Outcomes, ToldBy(c, o)
        PROVE  Remote!CallNext
    <3>1. result[c] = "ok" => service[c] = "ok"
      BY <1>2 DEF IInv, ResponsesAreTrue
    <3>2. \/ Remote!Issue(c) \/ Remote!Refuse(c) \/ Remote!Succeed(c) \/ Remote!Fail(c)
      BY <2>3, <3>1 DEF ToldBy, Outcomes, Remote!Issue, Remote!Refuse, Remote!Succeed,
                        Remote!Fail, Remote!Tell, Remote!Failures
    <3> QED
      BY <3>2 DEF Remote!CallNext
  <2> QED
    BY <2>1, <2>2, <2>3 DEF Served, Told, Remote!callVars
<1> QED
  BY <1>1, <1>2, InductiveInvariant, PTL DEF Spec, CallSafety, Remote!CallSafety

-----------------------------------------------------------------------------
(* What the goroutine of a call can read                                   *)

Allowed(l) == IsCommand(l) => l.id \in Messages

\* What is new in the pipe and in the inboxes: nothing but lines from the pipe and
\* lines that may be anywhere.
PipeKept == \A l \in Lines : Within(l, fromShim') => Within(l, fromShim) \/ Allowed(l)
BoxesKept ==
  \A x \in Clients, l \in Lines :
    Within(l, inbox'[x]) => Within(l, inbox[x]) \/ Within(l, fromShim) \/ Allowed(l)

LEMMA KeptLines == ASSUME OnlyThePluginAsks, PipeKept, BoxesKept PROVE OnlyThePluginAsks'
BY DEF OnlyThePluginAsks, PipeKept, BoxesKept, Allowed

LEMMA UnchangedLines ==
  /\ UNCHANGED fromShim => PipeKept
  /\ UNCHANGED inbox => BoxesKept
BY DEF PipeKept, BoxesKept

\* A reader takes a line, or drops all.
LEMMA ReadingKeepsLines ==
  ASSUME TypeOK, NEW x \in Clients,
         \/ inbox' = [inbox EXCEPT ![x] = <<>>]
         \/ NextLine(x) /\ inbox[x] # <<>>
  PROVE  BoxesKept
<1> SUFFICES ASSUME NEW y \in Clients, NEW l \in Lines, Within(l, inbox'[y]) PROVE Within(l, inbox[y])
  BY DEF BoxesKept
<1>1. inbox[y] \in Seq(Lines)
  BY DEF TypeOK
<1>2. CASE inbox' = [inbox EXCEPT ![x] = <<>>]
  <2>1. inbox'[y] \in {<<>>, inbox[y]}
    BY <1>2 DEF TypeOK
  <2> QED
    BY <2>1, WithinEmpty
<1>3. CASE NextLine(x) /\ inbox[x] # <<>>
  <2>1. inbox'[y] = IF y = x THEN Tail(inbox[y]) ELSE inbox[y]
    BY <1>3 DEF NextLine, TypeOK
  <2> QED
    BY <1>1, <1>3, <2>1, WithinTail
<1> QED
  BY <1>2, <1>3

\* A line that is delivered, broadcast or emitted is added at the end.
LEMMA DeliveryKeepsLines ==
  ASSUME TypeOK, NEW x \in Clients, NEW k \in Lines, Allowed(k), Deliver(x, k)
  PROVE  BoxesKept
<1>1. \A y \in Clients : inbox'[y] = inbox[y] \/ inbox'[y] = Append(inbox[y], k)
  BY DEF Deliver, Receive, TypeOK
<1>2. ASSUME NEW y \in Clients, NEW l \in Lines, Within(l, inbox'[y])
      PROVE  Within(l, inbox[y]) \/ Allowed(l)
  <2>1. inbox[y] \in Seq(Lines)
    BY DEF TypeOK
  <2>2. Within(l, Append(inbox[y], k)) => Within(l, inbox[y]) \/ l = k
    BY <2>1, WithinAppend
  <2> QED
    BY <1>1, <1>2, <2>2
<1> QED
  BY <1>2 DEF BoxesKept

LEMMA EmittedIsAllowed ==
  ASSUME TypeOK, NEW k \in Lines, Allowed(k), Emit(k)
  PROVE  PipeKept
<1>1. fromShim \in Seq(Lines) /\ (fromShim' = fromShim \/ fromShim' = Append(fromShim, k))
  BY DEF Emit, TypeOK
<1>2. \A l \in Lines : Within(l, Append(fromShim, k)) => Within(l, fromShim) \/ l = k
  BY <1>1, WithinAppend
<1> QED
  BY <1>1, <1>2 DEF PipeKept

LEMMA AnswersAreAllowed ==
  \A i \in Callers \cup Messages :
    /\ Line("response", i) \in Lines /\ Allowed(Line("response", i))
    /\ Line("error", i) \in Lines /\ Allowed(Line("error", i))
    /\ Line("command", i) \in Lines /\ (i \in Messages => Allowed(Line("command", i)))
BY LineType, LineEta DEF Allowed

LEMMA DaemonAsks ==
  ASSUME TypeOK, Daemon
  PROVE  PipeKept /\ BoxesKept
<1>1. CASE Broadcast
  <2>1. /\ fromShim \in Seq(Lines) /\ fromShim # <<>> /\ fromShim' = Tail(fromShim)
        /\ Head(fromShim) \in Lines /\ Within(Head(fromShim), fromShim)
    BY <1>1, SequenceType, WithinTail DEF Broadcast, TypeOK
  <2>2. PipeKept
    BY <2>1, WithinTail DEF PipeKept
  <2>3. ASSUME NEW x \in Clients, NEW l \in Lines, Within(l, inbox'[x])
        PROVE  Within(l, inbox[x]) \/ Within(l, fromShim)
    <3>1. inbox'[x] = Receive(x, Head(fromShim)) /\ inbox[x] \in Seq(Lines)
      BY <1>1 DEF Broadcast, TypeOK
    <3>2. inbox'[x] = inbox[x] \/ inbox'[x] = Append(inbox[x], Head(fromShim))
      BY <3>1 DEF Receive
    <3>3. Within(l, Append(inbox[x], Head(fromShim))) => Within(l, inbox[x]) \/ l = Head(fromShim)
      BY <2>1, <3>1, WithinAppend
    <3> QED
      BY <2>1, <2>3, <3>2, <3>3
  <2> QED
    BY <2>2, <2>3 DEF BoxesKept
<1>2. CASE Reap \/ DaemonDies
  <2>1. fromShim' = <<>> /\ UNCHANGED inbox
    BY <1>2 DEF Reap, DaemonDies, wireVars
  <2> QED
    BY <2>1, UnchangedLines, WithinEmpty DEF PipeKept
<1>3. CASE CloseAll
  BY <1>3, UnchangedLines DEF CloseAll, pipeVars
<1>4. ASSUME NEW x \in Clients, Evict(x) PROVE PipeKept /\ BoxesKept
  BY <1>4, UnchangedLines DEF Evict, pipeVars
<1>5. ASSUME NEW x \in Clients, Handle(x) PROVE PipeKept /\ BoxesKept
  <2>1. PipeKept
    BY <1>5, UnchangedLines DEF Handle
  <2>2. Head(outbox[x]).id \in Callers \cup Messages
    BY <1>5, QueueType, IdType DEF Handle, TypeOK
  <2>3. UNCHANGED inbox \/ (x \in Callers /\ Deliver(x, Line("response", x)))
          \/ Deliver(x, Line("error", Head(outbox[x]).id))
    BY <1>5 DEF Handle
  <2> QED
    BY <2>1, <2>2, <2>3, UnchangedLines, AnswersAreAllowed, DeliveryKeepsLines
<1> QED
  BY <1>1, <1>2, <1>3, <1>4, <1>5 DEF Daemon

LEMMA ShimAsks ==
  ASSUME TypeOK, CommandsAreSentOnce, Shim
  PROVE  PipeKept /\ BoxesKept
<1>1. UNCHANGED inbox
  BY DEF Shim, ShimDies, ReadCommand, ReadReply, StdinCloses, ToolEnds, MessageArrives, TimerFires, wireVars
<1>2. CASE ReadCommand
  <2>1. Head(toShim).id \in Callers
    BY <1>2, HeadOfToShim DEF ReadCommand
  <2>2. UNCHANGED fromShim \/ Emit(Line("error", Head(toShim).id))
    BY <1>2 DEF ReadCommand
  <2> QED
    BY <1>1, <2>1, <2>2, UnchangedLines, AnswersAreAllowed, EmittedIsAllowed
<1>3. ASSUME NEW d \in Callers, ToolEnds(d) PROVE PipeKept
  BY <1>3, AnswersAreAllowed, EmittedIsAllowed DEF ToolEnds
<1>4. ASSUME NEW m \in Messages, MessageArrives(m) PROVE PipeKept
  BY <1>4, AnswersAreAllowed, EmittedIsAllowed DEF MessageArrives
<1>5. CASE ShimDies \/ ReadReply \/ StdinCloses \/ \E m \in Messages : TimerFires(m)
  BY <1>1, <1>5, UnchangedLines DEF ShimDies, ReadReply, StdinCloses, TimerFires, pipeVars
<1> QED
  BY <1>1, <1>2, <1>3, <1>4, <1>5, UnchangedLines DEF Shim

LEMMA ClientsAskNothing ==
  ASSUME TypeOK, (\E c \in Callers : Caller(c)) \/ (\E x \in Consumers : Consumer(x))
  PROVE  PipeKept /\ BoxesKept
<1> USE DEF Clients
<1>1. ASSUME NEW c \in Callers, Caller(c) PROVE PipeKept /\ BoxesKept
  <2>1. UNCHANGED fromShim
    BY <1>1 DEF Caller, Issue, Refused, TakeResult, TimerExpires, Timeout, Interrupt, ScannerSteps,
                GivesUp, ScanLine, ScanEnds, PutResult, pipeVars
  <2>2. \/ UNCHANGED inbox
        \/ inbox' = [inbox EXCEPT ![c] = <<>>]
        \/ NextLine(c) /\ inbox[c] # <<>>
    BY <1>1 DEF Caller, Issue, Refused, TakeResult, TimerExpires, Timeout, Interrupt, ScannerSteps,
                GivesUp, ScanLine, Scanned, ScanEnds, PutResult, Stops, wireVars
  <2> QED
    BY <2>1, <2>2, UnchangedLines, ReadingKeepsLines
<1>2. ASSUME NEW x \in Consumers, Consumer(x) PROVE PipeKept /\ BoxesKept
  <2>1. UNCHANGED fromShim
    BY <1>2 DEF Consumer, Attach, Consume, Leave, pipeVars
  <2>2. \/ UNCHANGED inbox
        \/ inbox' = [inbox EXCEPT ![x] = <<>>]
        \/ NextLine(x) /\ inbox[x] # <<>>
    BY <1>2 DEF Consumer, Attach, Consume, Leave
  <2> QED
    BY <2>1, <2>2, UnchangedLines, ReadingKeepsLines
<1> QED
  BY <1>1, <1>2

\* No goroutine ever reads the command of a call, its own or another's.
THEOREM OnlyRequestsComeBack == Spec => []OnlyThePluginAsks
<1>1. Init => OnlyThePluginAsks
  BY WithinEmpty DEF Init, OnlyThePluginAsks
<1>2. IInv /\ OnlyThePluginAsks /\ [Next]_vars => OnlyThePluginAsks'
  <2> SUFFICES ASSUME IInv, OnlyThePluginAsks, [Next]_vars PROVE OnlyThePluginAsks'
    OBVIOUS
  <2>1. UNCHANGED vars => UNCHANGED <<fromShim, inbox>>
    BY DEF vars, wireVars, pipeVars
  <2>2. PipeKept /\ BoxesKept
    BY <2>1, UnchangedLines, DaemonAsks, ShimAsks, ClientsAskNothing DEF IInv, Next
  <2> QED
    BY <2>2, KeptLines
<1> QED
  BY <1>1, <1>2, InductiveInvariant, PTL DEF Spec

-----------------------------------------------------------------------------
(* What a call leaves to its goroutine when it returns.                    *)

LEMMA CleanInit == Init => CallsLeaveClean
BY DEF Init, CallsLeaveClean, Returned

LEMMA OnlyCallersMove == ASSUME [Next]_vars PROVE (\E c \in Callers : Caller(c)) \/ UNCHANGED callerVars
<1>1. ASSUME NEW x \in Consumers, Consumer(x) PROVE UNCHANGED callerVars
  BY <1>1 DEF Consumer, Attach, Consume, Leave
<1>2. ASSUME Daemon PROVE UNCHANGED callerVars
  BY <1>2 DEF Daemon, Handle, Evict, Broadcast, Reap, CloseAll, DaemonDies
<1>3. ASSUME Shim PROVE UNCHANGED callerVars
  BY <1>3 DEF Shim, ShimDies, ReadCommand, ReadReply, StdinCloses, ToolEnds, MessageArrives, TimerFires
<1>4. UNCHANGED vars => UNCHANGED callerVars
  BY DEF vars
<1> QED
  BY <1>1, <1>2, <1>3, <1>4 DEF Next

LEMMA CleanStep == TypeOK /\ CallsLeaveClean /\ [Next]_vars => CallsLeaveClean'
<1> SUFFICES ASSUME TypeOK, CallsLeaveClean, [Next]_vars PROVE CallsLeaveClean'
  OBVIOUS
<1>1. CASE UNCHANGED callerVars
  BY <1>1 DEF callerVars, CallsLeaveClean, Returned, Forwards, IsKind
<1>2. ASSUME NEW e \in Callers, Caller(e) PROVE CallsLeaveClean'
  <2> USE DEF TypeOK, CallsLeaveClean, Returned, Forwards, IsKind
  <2>1. CASE Issue(e) BY <2>1 DEF Issue
  <2>2. CASE Refused(e) BY <2>2 DEF Refused
  <2>3. CASE TakeResult(e) BY <2>3 DEF TakeResult, Return, Held
  <2>4. CASE TimerExpires(e) BY <2>4 DEF TimerExpires
  <2>5. CASE Timeout(e) BY <2>5 DEF Timeout, Return
  <2>6. CASE Interrupt(e) BY <2>6 DEF Interrupt, Return
  <2>7. CASE GivesUp(e) BY <2>7 DEF GivesUp, Stops
  <2>8. CASE ScanLine(e) BY <2>8 DEF ScanLine, Scanned, NextLine, Stops
  <2>9. CASE ScanEnds(e) BY <2>9 DEF ScanEnds, Stops
  <2>10. CASE PutResult(e) BY <2>10 DEF PutResult, Held
  <2> QED
    BY <1>2, <2>1, <2>2, <2>3, <2>4, <2>5, <2>6, <2>7, <2>8, <2>9, <2>10 DEF Caller, ScannerSteps
<1> QED
  BY <1>1, <1>2, OnlyCallersMove

\* Every call leaves a cancelled goroutine at most, with room for its result.
THEOREM LeavingIsClean == Spec => []CallsLeaveClean
BY CleanInit, CleanStep, TypeCorrect, PTL DEF Spec

LEMMA SilenceInit == Init => SilenceIsLate
BY DEF Init, SilenceIsLate

LEMMA SilenceStep == TypeOK /\ CallsLeaveClean /\ SilenceIsLate /\ [Next]_vars => SilenceIsLate'
<1> SUFFICES ASSUME TypeOK, CallsLeaveClean, SilenceIsLate, [Next]_vars PROVE SilenceIsLate'
  OBVIOUS
<1>1. CASE UNCHANGED callerVars
  BY <1>1 DEF callerVars, SilenceIsLate, Lists, Forwards, IsKind
<1>2. ASSUME NEW e \in Callers, Caller(e) PROVE SilenceIsLate'
  <2> USE DEF TypeOK, SilenceIsLate, CallsLeaveClean, Lists, Forwards, IsKind
  <2>1. CASE Issue(e) BY <2>1 DEF Issue
  <2>2. CASE Refused(e) BY <2>2 DEF Refused
  <2>3. CASE TakeResult(e) BY <2>3 DEF TakeResult, Return, Held
  <2>4. CASE TimerExpires(e) BY <2>4 DEF TimerExpires
  <2>5. CASE Timeout(e) BY <2>5 DEF Timeout, Return
  <2>6. CASE Interrupt(e) BY <2>6 DEF Interrupt, Return
  <2>7. CASE GivesUp(e) BY <2>7 DEF GivesUp, Stops, Cancelled
  <2>8. CASE ScanLine(e) BY <2>8 DEF ScanLine, Scanned, NextLine, Stops
  <2>9. CASE ScanEnds(e) BY <2>9 DEF ScanEnds, Stops
  <2>10. CASE PutResult(e) BY <2>10 DEF PutResult, Held
  <2> QED
    BY <1>2, <2>1, <2>2, <2>3, <2>4, <2>5, <2>6, <2>7, <2>8, <2>9, <2>10 DEF Caller, ScannerSteps
<1> QED
  BY <1>1, <1>2, OnlyCallersMove

\* A caller whose goroutine has gone without a word is one whose timer has fired, or
\* DiscoverTools.
THEOREM SilenceHasATimer == Spec => []SilenceIsLate
BY SilenceInit, SilenceStep, TypeCorrect, LeavingIsClean, PTL DEF Spec

LEMMA ClosesInit == Init => ReturnsClose
BY DEF Init, ReturnsClose

LEMMA ClosesStep == TypeOK /\ CallsLeaveClean /\ ReturnsClose /\ [Next]_vars => ReturnsClose'
<1> SUFFICES ASSUME TypeOK, CallsLeaveClean, ReturnsClose, [Next]_vars PROVE ReturnsClose'
  OBVIOUS
<1> DEFINE LinksStay == \A c \in Callers : link[c] = "closed" => link'[c] = "closed"
<1>1. UNCHANGED callerVars /\ LinksStay => ReturnsClose'
  BY DEF callerVars, ReturnsClose, Returned
<1>2. ASSUME NEW e \in Callers, Caller(e) PROVE ReturnsClose'
  <2> USE DEF TypeOK, Clients, ReturnsClose, CallsLeaveClean, Returned, wireVars
  <2>1. CASE Issue(e) BY <2>1 DEF Issue
  <2>2. CASE Refused(e) BY <2>2 DEF Refused
  <2>3. CASE TakeResult(e) BY <2>3 DEF TakeResult, Return
  <2>4. CASE TimerExpires(e) BY <2>4 DEF TimerExpires
  <2>5. CASE Timeout(e) BY <2>5 DEF Timeout, Return
  <2>6. CASE Interrupt(e) BY <2>6 DEF Interrupt, Return
  <2>7. CASE GivesUp(e) BY <2>7 DEF GivesUp, Stops
  <2>8. CASE ScanLine(e) BY <2>8 DEF ScanLine, Scanned, NextLine, Stops
  <2>9. CASE ScanEnds(e) BY <2>9 DEF ScanEnds, Stops
  <2>10. CASE PutResult(e) BY <2>10 DEF PutResult, Held
  <2> QED
    BY <1>2, <2>1, <2>2, <2>3, <2>4, <2>5, <2>6, <2>7, <2>8, <2>9, <2>10 DEF Caller, ScannerSteps
<1>3. ASSUME NEW x \in Consumers, Consumer(x) PROVE UNCHANGED callerVars /\ LinksStay
  BY <1>3, RpcAssumption DEF Consumer, Attach, Consume, Leave, TypeOK, Clients
<1>4. ASSUME Daemon PROVE UNCHANGED callerVars /\ LinksStay
  BY <1>4 DEF Daemon, Handle, Evict, Broadcast, Reap, CloseAll, DaemonDies, Cut, TypeOK, Clients, wireVars
<1>5. ASSUME Shim PROVE UNCHANGED callerVars /\ LinksStay
  BY <1>5 DEF Shim, ShimDies, ReadCommand, ReadReply, StdinCloses, ToolEnds, MessageArrives,
    TimerFires, wireVars
<1>6. UNCHANGED vars => UNCHANGED callerVars /\ LinksStay
  BY DEF vars, wireVars
<1> QED
  BY <1>1, <1>2, <1>3, <1>4, <1>5, <1>6 DEF Next

\* A goroutine that a returned call leaves behind reads a closed connection.
THEOREM ReturningCloses == Spec => []ReturnsClose
BY ClosesInit, ClosesStep, TypeCorrect, LeavingIsClean, PTL DEF Spec

\* NobodyBlocks, for any callers and messages: whoever has something to do has a
\* step to take, however calls, timers and deaths interleave. GuardsEnable says so
\* where the step's guard holds; that it always does needs no ENABLED.
THEOREM NobodyEverBlocks == Spec /\ []GuardsEnable => []NobodyBlocks
<1>1. IInv /\ CallsLeaveClean /\ ReturnsClose /\ OnlyThePluginAsks /\ GuardsEnable => NobodyBlocks
  <2> SUFFICES ASSUME IInv, CallsLeaveClean, ReturnsClose, OnlyThePluginAsks, GuardsEnable
               PROVE  NobodyBlocks
    OBVIOUS
  <2>1. ASSUME NEW c \in Callers PROVE ~Within(Line("command", c), inbox[c])
    BY LineType, LineEta, RpcAssumption DEF OnlyThePluginAsks, Clients
  <2>2. ASSUME NEW c \in Callers,
               scanner[c] \in Held \/ (scanner[c] = "scan" /\ (Returned(c) \/ link[c] = "cut"))
        PROVE  ScannerReady(c)
    BY <2>1, <2>2 DEF CallsLeaveClean, ReturnsClose, ScannerReady, Held
  <2>3. ASSUME NEW c \in Callers,
               scanner[c] \in Held \/ (scanner[c] = "scan" /\ (Returned(c) \/ link[c] = "cut"))
        PROVE  ENABLED <<ScannerSteps(c)>>_vars
    BY <2>2, <2>3 DEF GuardsEnable
  <2>4. ASSUME NEW m \in Messages, promise[m] = "waiting" PROVE m \in armed
    BY <2>4 DEF IInv, RequestsAreBacked
  <2>5. ASSUME NEW m \in Messages, promise[m] = "waiting", shim = "up"
        PROVE  ENABLED <<TimerFires(m)>>_vars
    BY <2>4, <2>5 DEF GuardsEnable
  <2> QED
    BY <2>3, <2>5 DEF GuardsEnable, NobodyBlocks
<1> QED
  BY <1>1, InductiveInvariant, LeavingIsClean, ReturningCloses, OnlyRequestsComeBack, PTL

-----------------------------------------------------------------------------
(* Liveness. A timer that is needed can fire and a goroutine that is left  *)
(* can go on (NobodyBlocks); fairness means that they do. GuardsEnable is  *)
(* the only premise besides.                                               *)

Unsettled(m) == promise[m] = "waiting" /\ shim = "up"
Settled(m) == promise[m] \in {"replied", "rejected"} \/ shim = "dead"

LEMMA RequestsOnlySettle ==
  ASSUME TypeOK, [Next]_vars, NEW m \in Messages, Unsettled(m)
  PROVE  Unsettled(m)' \/ Settled(m)'
<1> USE DEF Unsettled, Settled, TypeOK
<1>1. CASE UNCHANGED <<promise, shim>>
  BY <1>1
<1>2. ASSUME NEW n \in Messages, MessageArrives(n) PROVE Unsettled(m)'
  BY <1>2 DEF MessageArrives
<1>3. CASE ReadReply
  BY <1>3 DEF ReadReply
<1>4. ASSUME NEW n \in Messages, TimerFires(n) PROVE Unsettled(m)' \/ Settled(m)'
  BY <1>4 DEF TimerFires
<1>5. CASE StdinCloses
  BY <1>5 DEF StdinCloses
<1>6. ASSUME NEW c \in Callers, Caller(c) PROVE UNCHANGED <<promise, shim>>
  BY <1>6 DEF Caller, Issue, Refused, TakeResult, TimerExpires, Timeout, Interrupt,
              ScannerSteps, GivesUp, ScanLine, ScanEnds, PutResult, requestVars
<1>7. ASSUME NEW x \in Consumers, Consumer(x) PROVE UNCHANGED <<promise, shim>>
  BY <1>7 DEF Consumer, Attach, Consume, Leave, requestVars
<1>8. ASSUME Daemon PROVE UNCHANGED <<promise, shim>>
  BY <1>8 DEF Daemon, Handle, Evict, Broadcast, Reap, CloseAll, DaemonDies, requestVars
<1>9. ASSUME ReadCommand \/ \E c \in Callers : ToolEnds(c) PROVE UNCHANGED <<promise, shim>>
  BY <1>9 DEF ReadCommand, ToolEnds, requestVars
<1>10. CASE ShimDies
  BY <1>10 DEF ShimDies
<1>11. UNCHANGED vars => UNCHANGED <<promise, shim>>
  BY DEF vars, requestVars
<1> QED
  BY <1>1, <1>2, <1>3, <1>4, <1>5, <1>6, <1>7, <1>8, <1>9, <1>10, <1>11 DEF Next, Shim

LEMMA RequestsAreTimed == ASSUME NEW m \in Messages PROVE FairSpec => RequestTimed(m)
BY DEF FairSpec, Fairness

LEMMA FairIsSafe == FairSpec => []IInv /\ [][Next]_vars
BY InductiveInvariant, PTL DEF FairSpec, Spec

\* EveryRequestSettles: with or without a daemon and whatever replies come, a
\* promise of the shim is settled by its five-minute timer at the latest.
THEOREM RequestsSettle == FairSpec /\ []GuardsEnable => EveryRequestSettles
<1>1. ASSUME NEW m \in Messages
      PROVE FairSpec /\ []NobodyBlocks =>
              (promise[m] = "waiting" ~> promise[m] \in {"replied", "rejected"} \/ shim = "dead")
  <2>1. IInv /\ Unsettled(m) /\ [Next]_vars => Unsettled(m)' \/ Settled(m)'
    BY RequestsOnlySettle DEF IInv
  <2>2. IInv /\ Unsettled(m) /\ <<TimerFires(m)>>_vars => Settled(m)'
    BY DEF IInv, TypeOK, RequestsAreBacked, Unsettled, Settled, TimerFires
  <2>3. NobodyBlocks /\ Unsettled(m) => ENABLED <<TimerFires(m)>>_vars
    BY DEF NobodyBlocks, Unsettled
  <2>4. IInv /\ promise[m] = "waiting" => Unsettled(m) \/ Settled(m)
    BY DEF IInv, TypeOK, Unsettled, Settled
  <2>5. Settled(m) => promise[m] \in {"replied", "rejected"} \/ shim = "dead"
    BY DEF Settled
  <2> QED
    BY <2>1, <2>2, <2>3, <2>4, <2>5, FairIsSafe, RequestsAreTimed, PTL DEF RequestTimed
<1>2. FairSpec /\ []NobodyBlocks => EveryRequestSettles
  BY <1>1 DEF EveryRequestSettles
<1> QED
  BY <1>2, NobodyEverBlocks, PTL DEF FairSpec

\* A call under way, and one whose timer has fired as well.
Waits(c) == call[c] = "waiting" /\ ~Forwards(c)
Overdue(c) == Waits(c) /\ c \in late
CameBack(c) == call[c] # "waiting"

LEMMA CallsOnlyReturn ==
  ASSUME TypeOK, [Next]_vars, NEW c \in Callers
  PROVE  /\ Waits(c) => Waits(c)' \/ CameBack(c)'
         /\ Overdue(c) => Overdue(c)' \/ CameBack(c)'
<1>1. ASSUME call'[c] = "waiting", call[c] = "waiting"
      PROVE  kind'[c] = kind[c] /\ late \subseteq late'
  <2>1. ASSUME NEW e \in Callers, Caller(e) PROVE kind'[c] = kind[c] /\ late \subseteq late'
    <3> USE DEF TypeOK
    <3>1. CASE Issue(e) BY <1>1, <3>1 DEF Issue
    <3>2. CASE Refused(e) BY <3>2 DEF Refused
    <3>3. CASE TakeResult(e) BY <3>3 DEF TakeResult, Return
    <3>4. CASE TimerExpires(e) BY <3>4 DEF TimerExpires
    <3>5. CASE Timeout(e) BY <3>5 DEF Timeout, Return
    <3>6. CASE Interrupt(e) BY <3>6 DEF Interrupt, Return
    <3>7. CASE ScannerSteps(e)
      BY <3>7 DEF ScannerSteps, GivesUp, ScanLine, ScanEnds, PutResult
    <3> QED
      BY <2>1, <3>1, <3>2, <3>3, <3>4, <3>5, <3>6, <3>7 DEF Caller
  <2>2. ASSUME NEW x \in Consumers, Consumer(x) PROVE UNCHANGED <<kind, late>>
    BY <2>2 DEF Consumer, Attach, Consume, Leave, callerVars
  <2>3. ASSUME Daemon PROVE UNCHANGED <<kind, late>>
    BY <2>3 DEF Daemon, Handle, Evict, Broadcast, Reap, CloseAll, DaemonDies, callerVars
  <2>4. ASSUME Shim PROVE UNCHANGED <<kind, late>>
    BY <2>4 DEF Shim, ShimDies, ReadCommand, ReadReply, StdinCloses, ToolEnds,
                MessageArrives, TimerFires, callerVars
  <2>5. UNCHANGED vars => UNCHANGED <<kind, late>>
    BY DEF vars, callerVars
  <2> QED
    BY <2>1, <2>2, <2>3, <2>4, <2>5 DEF Next
<1> QED
  BY <1>1 DEF Waits, Overdue, CameBack, Forwards, IsKind

LEMMA CallersGoOn == ASSUME NEW c \in Callers PROVE FairSpec => CallerGoesOn(c)
BY DEF FairSpec, Fairness

\* The part of CallsReturn that needs no induction on the lines still to be read:
\* InvokeTool, DiscoverTools and `c2c call` return when their timer fires, whatever
\* the daemon, the shim, the other calls and the goroutine that reads do.
TimedCallsReturn ==
  \A c \in Callers : CallTimed(c) =>
    (call[c] = "waiting" /\ ~Forwards(c) ~> call[c] # "waiting")

THEOREM TimersEndCalls == FairSpec /\ []GuardsEnable => TimedCallsReturn
<1>1. ASSUME NEW c \in Callers
      PROVE FairSpec /\ []NobodyBlocks =>
              (CallTimed(c) => (call[c] = "waiting" /\ ~Forwards(c) ~> call[c] # "waiting"))
  <2>1. IInv /\ Waits(c) /\ [Next]_vars => Waits(c)' \/ CameBack(c)'
    BY CallsOnlyReturn DEF IInv
  <2>2. IInv /\ Overdue(c) /\ [Next]_vars => Overdue(c)' \/ CameBack(c)'
    BY CallsOnlyReturn DEF IInv
  <2>3. IInv /\ Waits(c) /\ <<TimerExpires(c)>>_vars => Overdue(c)'
    BY DEF IInv, TypeOK, Waits, Overdue, TimerExpires, Forwards, IsKind
  <2>4. IInv /\ Overdue(c) /\ <<TakeResult(c) \/ Timeout(c)>>_vars => CameBack(c)'
    BY DEF IInv, TypeOK, Overdue, Waits, CameBack, TakeResult, Timeout, Return, Held
  <2>5. NobodyBlocks /\ Waits(c) => Overdue(c) \/ ENABLED <<TimerExpires(c)>>_vars
    BY DEF NobodyBlocks, Waits, Overdue
  <2>6. NobodyBlocks /\ Overdue(c) => ENABLED <<TakeResult(c) \/ Timeout(c)>>_vars
    BY DEF NobodyBlocks, Waits, Overdue
  <2>7. /\ call[c] = "waiting" /\ ~Forwards(c) => Waits(c)
        /\ CameBack(c) => call[c] # "waiting"
    BY DEF Waits, CameBack
  <2> QED
    BY <2>1, <2>2, <2>3, <2>4, <2>5, <2>6, <2>7, FairIsSafe, CallersGoOn, PTL
    DEF CallTimed, CallerGoesOn
<1>2. FairSpec /\ []NobodyBlocks => TimedCallsReturn
  BY <1>1 DEF TimedCallsReturn
<1> QED
  BY <1>2, NobodyEverBlocks, PTL DEF FairSpec

\* The goroutine of a call that has returned, in a process that lives on.
InServer(c) == Returned(c) /\ ~IsKind(c, "shell")
StillReads(c) == InServer(c) /\ scanner[c] = "scan"
StillHolds(c) == InServer(c) /\ scanner[c] \in Held
Finished(c) == scanner[c] \in {"none", "done"}

LEMMA GoroutinesOnlyEnd ==
  ASSUME TypeOK, CallsLeaveClean, [Next]_vars, NEW c \in Callers
  PROVE  /\ StillReads(c) => StillReads(c)' \/ ScannerSteps(c)
         /\ StillHolds(c) => StillHolds(c)' \/ ScannerSteps(c)
<1> DEFINE Same == UNCHANGED <<call[c], kind[c], scanner[c]>>
<1>1. ASSUME NEW e \in Callers, Caller(e), Returned(c) PROVE Same \/ ScannerSteps(c)
  <2> USE DEF TypeOK, Returned
  <2>1. CASE Issue(e) BY <1>1, <2>1 DEF Issue
  <2>2. CASE Refused(e) BY <1>1, <2>2 DEF Refused
  <2>3. CASE TakeResult(e) BY <1>1, <2>3 DEF TakeResult, Return
  <2>4. CASE TimerExpires(e) BY <2>4 DEF TimerExpires
  <2>5. CASE Timeout(e) BY <1>1, <2>5 DEF Timeout, Return
  <2>6. CASE Interrupt(e) BY <1>1, <2>6 DEF Interrupt, Return
  <2>7. CASE ScannerSteps(e) /\ e # c
    BY <2>7 DEF ScannerSteps, GivesUp, ScanLine, NextLine, Stops, ScanEnds, PutResult
  <2> QED
    BY <1>1, <2>1, <2>2, <2>3, <2>4, <2>5, <2>6, <2>7 DEF Caller
<1>2. UNCHANGED callerVars => Same
  BY DEF callerVars
<1>3. Returned(c) => Same \/ ScannerSteps(c)
  BY <1>1, <1>2, OnlyCallersMove
<1> QED
  BY <1>3 DEF StillReads, StillHolds, InServer, Returned, IsKind

LEMMA GoroutinesFinish ==
  ASSUME TypeOK, CallsLeaveClean, NEW c \in Callers, ScannerSteps(c)
  PROVE  /\ StillReads(c) => StillHolds(c)' \/ Finished(c)'
         /\ StillHolds(c) => Finished(c)'
<1> USE DEF TypeOK, CallsLeaveClean, StillReads, StillHolds, InServer, Finished, Returned, IsKind,
        Kinds, Held
<1>1. CASE GivesUp(c) BY <1>1 DEF GivesUp, Stops
<1>2. CASE ScanLine(c) BY <1>2 DEF ScanLine, Scanned, Cancelled, Forwards, Lists, Stops
<1>3. CASE ScanEnds(c) BY <1>3 DEF ScanEnds, Stops, Lists, Forwards
<1>4. CASE PutResult(c) BY <1>4 DEF PutResult
<1> QED
  BY <1>1, <1>2, <1>3, <1>4 DEF ScannerSteps

LEMMA ScannersGoOn == ASSUME NEW c \in Callers PROVE FairSpec => ScannerGoesOn(c)
BY DEF FairSpec, Fairness

\* The part of ScannersEnd for a server that goes on: whether a call returns with
\* its answer, for its timer or for a lost connection, no goroutine of InvokeTool,
\* DiscoverTools or handleConnector stays behind. That of `c2c call`, which may
\* still read what its buffer holds, ends with the process.
ServersLeakNothing == \A c \in Callers : InServer(c) ~> Finished(c)

THEOREM GoroutinesEnd == FairSpec /\ []GuardsEnable => ServersLeakNothing
<1>1. FairSpec => []TypeOK /\ []CallsLeaveClean
  BY TypeCorrect, LeavingIsClean, PTL DEF FairSpec
<1>2. ASSUME NEW c \in Callers PROVE FairSpec /\ []NobodyBlocks => (InServer(c) ~> Finished(c))
  <2>1. TypeOK /\ CallsLeaveClean /\ StillReads(c) /\ [Next]_vars
          => StillReads(c)' \/ StillHolds(c)' \/ Finished(c)'
    BY GoroutinesOnlyEnd, GoroutinesFinish
  <2>2. TypeOK /\ CallsLeaveClean /\ StillHolds(c) /\ [Next]_vars => StillHolds(c)' \/ Finished(c)'
    BY GoroutinesOnlyEnd, GoroutinesFinish
  <2>3. TypeOK /\ CallsLeaveClean /\ StillReads(c) /\ <<ScannerSteps(c)>>_vars
          => StillHolds(c)' \/ Finished(c)'
    BY GoroutinesFinish
  <2>4. TypeOK /\ CallsLeaveClean /\ StillHolds(c) /\ <<ScannerSteps(c)>>_vars => Finished(c)'
    BY GoroutinesFinish
  <2>5. NobodyBlocks /\ (StillReads(c) \/ StillHolds(c)) => ENABLED <<ScannerSteps(c)>>_vars
    BY DEF NobodyBlocks, StillReads, StillHolds, InServer
  <2>6. TypeOK /\ InServer(c) => StillReads(c) \/ StillHolds(c) \/ Finished(c)
    BY DEF TypeOK, StillReads, StillHolds, Finished
  <2> QED
    BY <1>1, <2>1, <2>2, <2>3, <2>4, <2>5, <2>6, FairIsSafe, ScannersGoOn, PTL DEF ScannerGoesOn
<1>3. FairSpec /\ []NobodyBlocks => ServersLeakNothing
  BY <1>2 DEF ServersLeakNothing
<1> QED
  BY <1>3, NobodyEverBlocks, PTL DEF FairSpec

-----------------------------------------------------------------------------
(* The end of a connection. CutEndsCall and ScannersEnd count the lines    *)
(* that are still in a buffer; what follows is each of them for no lines,  *)
(* and the step from n + 1 lines to n, for every n. The induction that     *)
(* joins them is over temporal formulas.                                   *)

\* The lines left to a goroutine that still reads, n at most.
ToRead(c, n) == scanner[c] = "scan" => Len(inbox[c]) <= n

CutOff(c) == call[c] = "waiting" /\ link[c] = "cut" /\ ~Lists(c)
CutWith(c, n) == CutOff(c) /\ ToRead(c, n)
CutReading(c, n) == CutWith(c, n) /\ scanner[c] = "scan"
CutHolding(c) == CutOff(c) /\ scanner[c] \in Held
Answered(c) == call[c] = "waiting" /\ (result[c] # "empty" \/ (c \in late /\ ~Forwards(c)))

LeftWith(c, n) == Returned(c) /\ scanner[c] = "scan" /\ Len(inbox[c]) <= n
LeftHolding(c) == Returned(c) /\ scanner[c] \in Held

\* Only the caller and its goroutine touch a call whose connection is not open.
LEMMA ApartFromOthers ==
  ASSUME TypeOK, [Next]_vars, NEW c \in Callers, link[c] \in {"cut", "closed"}
  PROVE  \/ Caller(c)
         \/ /\ link'[c] = link[c] /\ inbox'[c] = inbox[c] /\ call'[c] = call[c] /\ kind'[c] = kind[c]
            /\ scanner'[c] = scanner[c] /\ result'[c] = result[c] /\ (c \in late => c \in late')
<1> DEFINE Wire == link'[c] = link[c] /\ inbox'[c] = inbox[c]
           Self == /\ call'[c] = call[c] /\ kind'[c] = kind[c] /\ scanner'[c] = scanner[c]
                   /\ result'[c] = result[c] /\ (c \in late => c \in late')
<1>0. ~Reads(c) /\ c \in Clients /\ c \notin Consumers
  BY RpcAssumption DEF Reads, Clients
<1>1. UNCHANGED callerVars => Self
  BY DEF callerVars
<1>2. UNCHANGED wireVars \/ UNCHANGED <<link, inbox>> => Wire
  BY DEF wireVars
<1>3. ASSUME NEW e \in Callers, Caller(e), e # c PROVE Wire /\ Self
  <2> USE DEF TypeOK, Clients
  <2>1. CASE Issue(e) BY <1>3, <2>1 DEF Issue
  <2>2. CASE Refused(e) BY <1>2, <1>3, <2>2 DEF Refused
  <2>3. CASE TakeResult(e) BY <1>3, <2>3 DEF TakeResult, Return
  <2>4. CASE TimerExpires(e) BY <1>2, <1>3, <2>4 DEF TimerExpires
  <2>5. CASE Timeout(e) BY <1>3, <2>5 DEF Timeout, Return
  <2>6. CASE Interrupt(e) BY <1>3, <2>6 DEF Interrupt, Return
  <2>7. CASE GivesUp(e) BY <1>3, <2>7 DEF GivesUp, Stops
  <2>8. CASE ScanLine(e) BY <1>3, <2>8 DEF ScanLine, Scanned, NextLine, Stops
  <2>9. CASE ScanEnds(e) BY <1>3, <2>9 DEF ScanEnds, Stops
  <2>10. CASE PutResult(e) BY <1>2, <1>3, <2>10 DEF PutResult
  <2> QED
    BY <1>3, <2>1, <2>2, <2>3, <2>4, <2>5, <2>6, <2>7, <2>8, <2>9, <2>10 DEF Caller, ScannerSteps
<1>4. ASSUME NEW x \in Consumers, Consumer(x) PROVE Wire /\ Self
  BY <1>0, <1>1, <1>4 DEF Consumer, Attach, Consume, Leave, NextLine, TypeOK, Clients
<1>5. ASSUME Daemon PROVE Wire /\ Self
  <2> USE <1>0, <1>1, <1>2 DEF TypeOK
  <2>1. CASE Broadcast BY <2>1 DEF Broadcast, Receive
  <2>2. CASE Reap BY <2>2 DEF Reap
  <2>3. CASE CloseAll \/ DaemonDies BY <2>3 DEF CloseAll, DaemonDies, Cut
  <2>4. ASSUME NEW x \in Clients, Evict(x) PROVE Wire /\ Self BY <2>4 DEF Evict
  <2>5. ASSUME NEW x \in Clients, Handle(x) PROVE Wire /\ Self
    BY <2>5 DEF Handle, Deliver, Receive
  <2> QED
    BY <1>5, <2>1, <2>2, <2>3, <2>4, <2>5 DEF Daemon
<1>6. ASSUME Shim PROVE Wire /\ Self
  BY <1>1, <1>2, <1>6 DEF Shim, ShimDies, ReadCommand, ReadReply, StdinCloses, ToolEnds, MessageArrives,
    TimerFires
<1>7. UNCHANGED vars => Wire /\ Self
  BY <1>1, <1>2 DEF vars
<1> QED
  BY <1>3, <1>4, <1>5, <1>6, <1>7 DEF Next

\* What a step of its goroutine does to a call.
LEMMA ScannerMoves ==
  ASSUME TypeOK, NEW c \in Callers, ScannerSteps(c)
  PROVE  /\ call' = call /\ kind' = kind /\ link' = link /\ late' = late
         /\ scanner[c] \in Held => scanner'[c] = "done" /\ result'[c] # "empty"
         /\ scanner[c] = "scan" =>
              /\ result'[c] = result[c]
              /\ \/ scanner'[c] \in Held \cup {"done"}
                 \/ /\ scanner'[c] = "scan" /\ inbox[c] # <<>> /\ inbox'[c] = Tail(inbox[c])
<1> USE DEF TypeOK, Clients, Held, wireVars
<1>1. CASE GivesUp(c) BY <1>1 DEF GivesUp, Stops
<1>2. CASE ScanLine(c) BY <1>2 DEF ScanLine, Scanned, NextLine, Stops
<1>3. CASE ScanEnds(c) BY <1>3 DEF ScanEnds, Stops
<1>4. CASE PutResult(c) BY <1>4 DEF PutResult
<1> QED
  BY <1>1, <1>2, <1>3, <1>4 DEF ScannerSteps

LEMMA OneLineLess ==
  ASSUME TypeOK, NEW c \in Callers, NEW m \in Nat, NEW n \in Nat, m = n + 1,
         scanner[c] = "scan", Len(inbox[c]) <= m, ScannerSteps(c)
  PROVE  scanner'[c] # "scan" \/ Len(inbox'[c]) <= n
<1>1. inbox[c] \in Seq(Lines)
  BY DEF TypeOK, Clients
<1>2. inbox[c] # <<>> => Len(Tail(inbox[c])) = Len(inbox[c]) - 1 /\ Len(inbox[c]) \in Nat
  BY <1>1
<1>3. CASE scanner'[c] = "scan"
  <2>1. inbox[c] # <<>> /\ inbox'[c] = Tail(inbox[c])
    BY <1>3, ScannerMoves
  <2>2. Len(inbox'[c]) = Len(inbox[c]) - 1 /\ Len(inbox[c]) \in Nat
    BY <1>2, <2>1
  <2> QED
    BY <2>2
<1> QED
  BY <1>3

LEMMA NoLineLeft ==
  ASSUME TypeOK, NEW c \in Callers, scanner[c] = "scan", Len(inbox[c]) <= 0, ScannerSteps(c)
  PROVE  scanner'[c] # "scan"
<1>1. inbox[c] \in Seq(Lines)
  BY DEF TypeOK, Clients
<1>2. inbox[c] # <<>> => Len(inbox[c]) \in Nat /\ Len(inbox[c]) > 0
  BY <1>1
<1> QED
  BY <1>2, ScannerMoves

\* The variables of a call that has been cut off, or has returned, over a step.
LEMMA CutSteps ==
  ASSUME TypeOK, CallsLeaveClean, [Next]_vars, NEW c \in Callers, CutOff(c)
  PROVE  \/ CameBack(c)'
         \/ CutOff(c)' /\ (\/ ScannerSteps(c)
                           \/ /\ scanner'[c] = scanner[c] /\ inbox'[c] = inbox[c]
                              /\ (Answered(c) => Answered(c)'))
<1> USE DEF CutOff, CameBack, Answered, Lists, Forwards, IsKind
<1>1. CASE ~Caller(c)
  BY <1>1, ApartFromOthers
<1>2. CASE ScannerSteps(c)
  BY <1>2, ScannerMoves
<1>3. CASE Issue(c) \/ Refused(c)
  BY <1>3 DEF Issue, Refused
<1>4. CASE TakeResult(c) \/ Timeout(c) \/ Interrupt(c)
  BY <1>4 DEF TakeResult, Timeout, Interrupt, Return, TypeOK, Held
<1>5. CASE TimerExpires(c)
  BY <1>5 DEF TimerExpires, wireVars
<1> QED
  BY <1>1, <1>2, <1>3, <1>4, <1>5 DEF Caller

LEMMA LeftSteps ==
  ASSUME TypeOK, ReturnsClose, [Next]_vars, NEW c \in Callers, Returned(c), scanner[c] # "none"
  PROVE  /\ Returned(c)'
         /\ ScannerSteps(c) \/ (scanner'[c] = scanner[c] /\ inbox'[c] = inbox[c])
<1> USE DEF Returned
<1>1. CASE ~Caller(c)
  BY <1>1, ApartFromOthers DEF ReturnsClose
<1>2. CASE ScannerSteps(c)
  BY <1>2, ScannerMoves
<1>3. CASE Caller(c) /\ ~ScannerSteps(c)
  BY <1>3 DEF Caller, Issue, Refused, TakeResult, TimerExpires, Timeout, Interrupt, wireVars
<1> QED
  BY <1>1, <1>2, <1>3

\* A call cut off with m lines to read comes to have n or returns; one with none
\* returns. The same for the goroutine of a call that has returned, and its end.
CutShrinks(c, m, n) == CutWith(c, m) ~> CutWith(c, n) \/ CameBack(c)
CutReturns(c) == CutWith(c, 0) ~> CameBack(c)
LeftShrinks(c, m, n) == LeftWith(c, m) ~> LeftWith(c, n) \/ Finished(c)
LeftEnds(c) == LeftWith(c, 0) \/ LeftHolding(c) ~> Finished(c)

\* Every state the two properties begin in has some number of lines left.
LEMMA LinesAreCounted ==
  ASSUME TypeOK, NEW c \in Callers
  PROVE  /\ CutOff(c) => \E n \in Nat : CutWith(c, n)
         /\ Returned(c) => Finished(c) \/ LeftHolding(c) \/ \E n \in Nat : LeftWith(c, n)
<1>1. Len(inbox[c]) \in Nat
  BY DEF TypeOK, Clients
<1>2. Len(inbox[c]) <= Len(inbox[c])
  BY <1>1
<1> QED
  BY <1>1, <1>2 DEF TypeOK, CutWith, ToRead, LeftWith, LeftHolding, Finished

LEMMA EverythingHolds ==
  FairSpec => [](IInv /\ CallsLeaveClean /\ ReturnsClose /\ SilenceIsLate) /\ [][Next]_vars
BY FairIsSafe, LeavingIsClean, ReturningCloses, SilenceHasATimer, PTL DEF FairSpec

\* A call whose goroutine has read all it will read returns.
CutDone(c) == CutOff(c) /\ scanner[c] # "scan"

LEMMA AnsweredStays ==
  ASSUME TypeOK, CallsLeaveClean, [Next]_vars, NEW c \in Callers, CutOff(c), Answered(c)
  PROVE  (CutOff(c)' /\ Answered(c)') \/ CameBack(c)'
<1>1. CASE ~ScannerSteps(c)
  BY <1>1, CutSteps
<1>2. CASE ScannerSteps(c)
  <2>1. scanner[c] \in Held \/ scanner[c] = "scan"
    BY <1>2 DEF ScannerSteps, GivesUp, ScanLine, Scanned, ScanEnds, PutResult, Held
  <2>2. CutOff(c)' \/ CameBack(c)'
    BY CutSteps
  <2>3. result'[c] # "empty" \/ (result'[c] = result[c] /\ late' = late /\ kind' = kind)
    BY <1>2, <2>1, ScannerMoves
  <2> QED
    BY <2>2, <2>3 DEF Answered, CutOff, Forwards, IsKind
<1> QED
  BY <1>1, <1>2

LEMMA CutDoneReturns ==
  ASSUME NEW c \in Callers
  PROVE  FairSpec /\ []NobodyBlocks => (CutDone(c) ~> CameBack(c))
<1> DEFINE Inv == IInv /\ CallsLeaveClean /\ ReturnsClose /\ SilenceIsLate
           Cutting == CutOff(c) /\ Answered(c)
<1>1. Inv /\ CutHolding(c) /\ [Next]_vars => CutHolding(c)' \/ Cutting' \/ CameBack(c)'
  BY CutSteps, ScannerMoves DEF IInv, CutHolding, CutOff, Answered
<1>2. Inv /\ CutHolding(c) /\ [Next]_vars /\ <<ScannerSteps(c)>>_vars => Cutting' \/ CameBack(c)'
  BY CutSteps, ScannerMoves DEF IInv, CutHolding, CutOff, Answered
<1>3. Inv /\ Cutting /\ [Next]_vars => Cutting' \/ CameBack(c)'
  BY AnsweredStays DEF IInv
<1>4. Inv /\ Cutting /\ <<TakeResult(c) \/ Timeout(c)>>_vars => CameBack(c)'
  BY DEF IInv, TypeOK, CameBack, TakeResult, Timeout, Return, Held
<1>5. NobodyBlocks /\ CutHolding(c) => ENABLED <<ScannerSteps(c)>>_vars
  BY DEF NobodyBlocks, CutHolding
<1>6. NobodyBlocks /\ Cutting => ENABLED <<TakeResult(c) \/ Timeout(c)>>_vars
  BY DEF NobodyBlocks, Answered
<1>7. Inv /\ CutDone(c) => CutHolding(c) \/ Cutting
  BY DEF IInv, TypeOK, SilenceIsLate, CutDone, CutHolding, CutOff, Answered
<1> QED
  BY <1>1, <1>2, <1>3, <1>4, <1>5, <1>6, <1>7, EverythingHolds, ScannersGoOn, CallersGoOn, PTL
  DEF ScannerGoesOn, CallerGoesOn

LEMMA CutReadingShrinks ==
  ASSUME NEW c \in Callers, NEW m \in Nat, NEW n \in Nat, m = n + 1
  PROVE  FairSpec /\ []NobodyBlocks => CutShrinks(c, m, n)
<1> DEFINE Inv == IInv /\ CallsLeaveClean /\ ReturnsClose /\ SilenceIsLate
<1>1. Inv /\ CutReading(c, m) /\ [Next]_vars => CutReading(c, m)' \/ CutWith(c, n)' \/ CameBack(c)'
  BY CutSteps, OneLineLess DEF IInv, CutReading, CutWith, ToRead
<1>2. Inv /\ CutReading(c, m) /\ [Next]_vars /\ <<ScannerSteps(c)>>_vars => CutWith(c, n)' \/ CameBack(c)'
  BY CutSteps, OneLineLess DEF IInv, CutReading, CutWith, ToRead
<1>3. NobodyBlocks /\ CutReading(c, m) => ENABLED <<ScannerSteps(c)>>_vars
  BY DEF NobodyBlocks, CutReading, CutWith, CutOff
<1>4. CutWith(c, m) => CutReading(c, m) \/ CutWith(c, n)
  BY DEF CutWith, CutReading, ToRead
<1> QED
  BY <1>1, <1>2, <1>3, <1>4, EverythingHolds, ScannersGoOn, PTL DEF ScannerGoesOn, CutShrinks

LEMMA CutEmptyReturns ==
  ASSUME NEW c \in Callers
  PROVE  FairSpec /\ []NobodyBlocks => CutReturns(c)
<1> DEFINE Inv == IInv /\ CallsLeaveClean /\ ReturnsClose /\ SilenceIsLate
<1>1. Inv /\ CutReading(c, 0) /\ [Next]_vars => CutReading(c, 0)' \/ CutDone(c)' \/ CameBack(c)'
  BY CutSteps, NoLineLeft DEF IInv, CutReading, CutWith, CutDone, ToRead
<1>2. Inv /\ CutReading(c, 0) /\ [Next]_vars /\ <<ScannerSteps(c)>>_vars => CutDone(c)' \/ CameBack(c)'
  BY CutSteps, NoLineLeft DEF IInv, CutReading, CutWith, CutDone, ToRead
<1>3. NobodyBlocks /\ CutReading(c, 0) => ENABLED <<ScannerSteps(c)>>_vars
  BY DEF NobodyBlocks, CutReading, CutWith, CutOff
<1>4. CutWith(c, 0) => CutReading(c, 0) \/ CutDone(c)
  BY DEF CutWith, CutReading, CutDone
<1> QED
  BY <1>1, <1>2, <1>3, <1>4, EverythingHolds, ScannersGoOn, CutDoneReturns, PTL
  DEF ScannerGoesOn, CutReturns

LEMMA LeftHoldingEnds ==
  ASSUME NEW c \in Callers
  PROVE  FairSpec /\ []NobodyBlocks => (LeftHolding(c) ~> Finished(c))
<1> DEFINE Inv == IInv /\ CallsLeaveClean /\ ReturnsClose /\ SilenceIsLate
<1>1. Inv /\ LeftHolding(c) /\ [Next]_vars => LeftHolding(c)' \/ Finished(c)'
  BY LeftSteps, ScannerMoves DEF IInv, LeftHolding, Finished, Held
<1>2. Inv /\ LeftHolding(c) /\ [Next]_vars /\ <<ScannerSteps(c)>>_vars => Finished(c)'
  BY ScannerMoves DEF IInv, LeftHolding, Finished
<1>3. NobodyBlocks /\ LeftHolding(c) => ENABLED <<ScannerSteps(c)>>_vars
  BY DEF NobodyBlocks, LeftHolding
<1> QED
  BY <1>1, <1>2, <1>3, EverythingHolds, ScannersGoOn, PTL DEF ScannerGoesOn

LEMMA LeftReadingShrinks ==
  ASSUME NEW c \in Callers, NEW m \in Nat, NEW n \in Nat, m = n + 1
  PROVE  FairSpec /\ []NobodyBlocks => LeftShrinks(c, m, n)
<1> DEFINE Inv == IInv /\ CallsLeaveClean /\ ReturnsClose /\ SilenceIsLate
<1>1. Inv /\ LeftWith(c, m) /\ [Next]_vars
        => LeftWith(c, m)' \/ LeftWith(c, n)' \/ LeftHolding(c)' \/ Finished(c)'
  BY LeftSteps, ScannerMoves, OneLineLess DEF IInv, LeftWith, LeftHolding, Finished, Returned, ReturnsClose
<1>2. Inv /\ LeftWith(c, m) /\ [Next]_vars /\ <<ScannerSteps(c)>>_vars
        => LeftWith(c, n)' \/ LeftHolding(c)' \/ Finished(c)'
  BY LeftSteps, ScannerMoves, OneLineLess DEF IInv, LeftWith, LeftHolding, Finished, Returned, ReturnsClose
<1>3. NobodyBlocks /\ LeftWith(c, m) => ENABLED <<ScannerSteps(c)>>_vars
  BY DEF NobodyBlocks, LeftWith
<1> QED
  BY <1>1, <1>2, <1>3, EverythingHolds, ScannersGoOn, LeftHoldingEnds, PTL DEF ScannerGoesOn, LeftShrinks

LEMMA LeftEmptyEnds ==
  ASSUME NEW c \in Callers
  PROVE  FairSpec /\ []NobodyBlocks => LeftEnds(c)
<1> DEFINE Inv == IInv /\ CallsLeaveClean /\ ReturnsClose /\ SilenceIsLate
<1>1. Inv /\ LeftWith(c, 0) /\ [Next]_vars => LeftWith(c, 0)' \/ LeftHolding(c)' \/ Finished(c)'
  BY LeftSteps, ScannerMoves, NoLineLeft DEF IInv, LeftWith, LeftHolding, Finished, Returned, ReturnsClose
<1>2. Inv /\ LeftWith(c, 0) /\ [Next]_vars /\ <<ScannerSteps(c)>>_vars => LeftHolding(c)' \/ Finished(c)'
  BY LeftSteps, ScannerMoves, NoLineLeft DEF IInv, LeftWith, LeftHolding, Finished, Returned, ReturnsClose
<1>3. NobodyBlocks /\ LeftWith(c, 0) => ENABLED <<ScannerSteps(c)>>_vars
  BY DEF NobodyBlocks, LeftWith
<1> QED
  BY <1>1, <1>2, <1>3, EverythingHolds, ScannersGoOn, LeftHoldingEnds, PTL DEF ScannerGoesOn, LeftEnds

\* CutEndsCall but for the induction: a call whose connection the daemon has dropped
\* gets rid of the lines in its buffer one by one, and returns with its last one at
\* the latest, without any timer of its caller.
CutCallsAdvance == \A c \in Callers : CutReturns(c) /\ \A n \in Nat : CutShrinks(c, n + 1, n)

THEOREM CutCallsEnd == FairSpec /\ []GuardsEnable => CutCallsAdvance
<1>1. ASSUME NEW c \in Callers, NEW n \in Nat
      PROVE  FairSpec /\ []NobodyBlocks => CutShrinks(c, n + 1, n)
  BY CutReadingShrinks
<1>2. FairSpec /\ []NobodyBlocks => CutCallsAdvance
  BY <1>1, CutEmptyReturns DEF CutCallsAdvance
<1> QED
  BY <1>2, NobodyEverBlocks, PTL DEF FairSpec

\* ScannersEnd but for the induction: the goroutine of a returned call, that of
\* `c2c call` too, gets rid of the lines in its buffer one by one and ends.
LeftGoroutinesAdvance == \A c \in Callers : LeftEnds(c) /\ \A n \in Nat : LeftShrinks(c, n + 1, n)

THEOREM LeftGoroutinesEnd == FairSpec /\ []GuardsEnable => LeftGoroutinesAdvance
<1>1. ASSUME NEW c \in Callers, NEW n \in Nat
      PROVE  FairSpec /\ []NobodyBlocks => LeftShrinks(c, n + 1, n)
  BY LeftReadingShrinks
<1>2. FairSpec /\ []NobodyBlocks => LeftGoroutinesAdvance
  BY <1>1, LeftEmptyEnds DEF LeftGoroutinesAdvance
<1> QED
  BY <1>2, NobodyEverBlocks, PTL DEF FairSpec

=============================================================================
