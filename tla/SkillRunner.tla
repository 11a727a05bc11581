----------------------------- MODULE SkillRunner -----------------------------
(***************************************************************************)
(* One run of a skill: RunSkill (internal/executor/runner.go) and the two  *)
(* who call it, `c2c run` (cmd/run.go) and the MCP tool handler            *)
(* handleSkill (internal/mcp/server.go).                                   *)
(*                                                                         *)
(* RunSkill starts one process (tsx, or node without it) under a context   *)
(* with a deadline; that process may start another one (tsx does) which    *)
(* inherits its output pipes.  os/exec kills the process it started and no *)
(* other, and cmd.Run returns when the pipes have no writer left.          *)
(***************************************************************************)
EXTENDS Naturals

CONSTANTS
  Streams,   \* stdout and stderr, each with a limitedWriter of its own
  Limit,     \* maxOutputSize
  PipeCap,   \* what an output pipe holds
  MaxPrint   \* bound on what the skill prints on each stream

ASSUME SkillAssumption ==
  Limit \in Nat /\ PipeCap \in Nat \ {0} /\ MaxPrint \in Nat

VARIABLES
  caller,    \* who called RunSkill
  stage,     \* where it is: before cmd.Start, in Process.Wait, waiting for the
             \* pipes, or back; "died" with the process it runs in
  ctx,       \* the context: "live", "expired" or "cancelled"
  child,     \* the process started: "none", "up", or how it ended
  heir,      \* a process of the skill's own that has inherited the pipes
  killed,    \* os/exec has signalled the child on behalf of the context
  printed,   \* what has been printed on each stream
  pipe,      \* how much of it is still in the pipe
  kept,      \* what the limitedWriter has kept
  exceeded,  \* whether it has thrown something away
  outcome,   \* which of RunSkill's ends was reached
  told       \* what the caller's user, or the MCP client, is told

processVars == <<child, heir>>
outputVars == <<printed, pipe, kept, exceeded>>
resultVars == <<outcome, told>>
skillVars == <<caller, stage, ctx, killed, processVars, outputVars, resultVars>>

Callers == {"run", "mcp"}
Ended == {"ok", "error", "signal"}  \* exit code zero, another, or -1
Outcomes == {"refused", "notStarted", "exceeded", "timedOut", "returned"}
Waiting == stage \in {"wait", "drain"}
Over == stage \in {"done", "died"}

\* Processes that can still print.
Writers == child = "up" \/ heir = "up"

Init ==
  /\ caller \in Callers
  /\ stage = "start" /\ ctx = "live" /\ killed = FALSE
  /\ child = "none" /\ heir = "none"
  /\ printed = [s \in Streams |-> 0] /\ pipe = [s \in Streams |-> 0]
  /\ kept = [s \in Streams |-> 0] /\ exceeded = [s \in Streams |-> FALSE]
  /\ outcome = "none" /\ told = "none"

-----------------------------------------------------------------------------
(* Starting                                                                *)

\* What becomes of the outcome: `c2c run` looks at the exit code as well,
\* handleSkill returns whatever the skill printed.
Tell(end, code) ==
  /\ outcome' = end
  /\ told' = IF end = "returned" /\ (caller = "mcp" \/ code = "ok") THEN "success" ELSE "error"

\* CheckPermissions or IsInstalled; for `c2c run` also LoadPlugin or the type.
Refuse ==
  /\ stage = "start"
  /\ stage' = "done"
  /\ Tell("refused", "ok")
  /\ UNCHANGED <<caller, ctx, killed, processVars, outputVars>>

\* cmd.Start fails, of itself or because the context is over.
StartFails ==
  /\ stage = "start"
  /\ stage' = "done"
  /\ Tell(IF ctx = "expired" THEN "timedOut" ELSE "notStarted", "ok")
  /\ UNCHANGED <<caller, ctx, killed, processVars, outputVars>>

Start ==
  /\ stage = "start" /\ ctx = "live"
  /\ stage' = "wait"
  /\ child' = "up"
  /\ UNCHANGED <<caller, ctx, killed, heir, outputVars, resultVars>>

-----------------------------------------------------------------------------
(* The skill's processes                                                   *)

Fork ==
  /\ child = "up" /\ heir = "none"
  /\ heir' = "up"
  /\ UNCHANGED <<caller, stage, ctx, killed, child, outputVars, resultVars>>

\* A full pipe blocks the writer; one nobody reads any more kills it.
WriteOut(s) ==
  /\ Writers /\ stage # "died"
  /\ printed[s] < MaxPrint /\ pipe[s] < PipeCap
  /\ printed' = [printed EXCEPT ![s] = @ + 1]
  /\ pipe' = [pipe EXCEPT ![s] = @ + 1]
  /\ UNCHANGED <<caller, stage, ctx, killed, processVars, kept, exceeded, resultVars>>

\* The child returns, or a signal that is not RunSkill's ends it.
ChildEnds ==
  /\ child = "up"
  /\ child' \in Ended
  /\ UNCHANGED <<caller, stage, ctx, killed, heir, outputVars, resultVars>>

\* The other process ends, or goes on without its output.
HeirLetsGo ==
  /\ heir = "up"
  /\ heir' \in {"gone", "detached"}
  /\ UNCHANGED <<caller, stage, ctx, killed, child, outputVars, resultVars>>

-----------------------------------------------------------------------------
(* The context                                                             *)

Expire ==
  /\ ctx = "live" /\ ~Over
  /\ ctx' = "expired"
  /\ UNCHANGED <<caller, stage, killed, processVars, outputVars, resultVars>>

\* SIGINT or SIGTERM to `c2c mcp serve` cancels the requests under way.
Cancel ==
  /\ ctx = "live" /\ caller = "mcp" /\ ~Over
  /\ ctx' = "cancelled"
  /\ UNCHANGED <<caller, stage, killed, processVars, outputVars, resultVars>>

\* WRONG: a Cancel that asks with SIGTERM; the child may catch it and go on.
AskChild ==
  /\ stage = "wait" /\ ctx # "live" /\ ~killed
  /\ killed' = TRUE
  /\ child' \in IF child = "up" THEN {"up", "signal"} ELSE {child}
  /\ UNCHANGED <<caller, stage, ctx, heir, outputVars, resultVars>>

\* os/exec: SIGKILL to the child. A child that has ended is still there for
\* the signal until it has been waited for.
KillChild ==
  /\ stage = "wait" /\ ctx # "live" /\ ~killed
  /\ killed' = TRUE
  /\ child' = IF child = "up" THEN "signal" ELSE child
  /\ UNCHANGED <<caller, stage, ctx, heir, outputVars, resultVars>>

\* c2c itself is killed; nothing tells the skill.
CallerDies ==
  /\ ~Over
  /\ stage' = "died"
  /\ UNCHANGED <<caller, ctx, killed, processVars, outputVars, resultVars>>

-----------------------------------------------------------------------------
(* The output and the end                                                  *)

\* WRONG: the chunk that fills the buffer counts as too much.
WriteInclusive(s, n) ==
  LET remaining == Limit - kept[s]
  IN  /\ kept' = [kept EXCEPT ![s] = IF n < remaining THEN @ + n ELSE Limit]
      /\ exceeded' = [exceeded EXCEPT ![s] = @ \/ n >= remaining]

\* WRONG: the room left is looked at only once the buffer is full.
WriteUnbounded(s, n) ==
  /\ kept' = [kept EXCEPT ![s] = IF @ >= Limit THEN @ ELSE @ + n]
  /\ exceeded' = [exceeded EXCEPT ![s] = @ \/ kept[s] >= Limit]

\* limitedWriter.Write: keeps what there is room for and accepts the rest.
Write(s, n) ==
  LET remaining == Limit - kept[s]
  IN  /\ kept' = [kept EXCEPT ![s] = IF n > remaining THEN Limit ELSE @ + n]
      /\ exceeded' = [exceeded EXCEPT ![s] = @ \/ n > remaining]

\* The goroutine os/exec has for each stream.
Copy(s) ==
  /\ Waiting /\ pipe[s] > 0
  /\ \E n \in 1..pipe[s] :
       /\ pipe' = [pipe EXCEPT ![s] = @ - n]
       /\ Write(s, n)
  /\ UNCHANGED <<caller, stage, ctx, killed, processVars, printed, resultVars>>

\* Process.Wait.
Reap ==
  /\ stage = "wait" /\ child \in Ended
  /\ stage' = "drain"
  /\ UNCHANGED <<caller, ctx, killed, processVars, outputVars, resultVars>>

\* The order RunSkill looks at things in: what was thrown away, the deadline
\* (of a run that failed, or was signalled in its name), the exit code.
End ==
  IF \E s \in Streams : exceeded[s] THEN "exceeded"
  ELSE IF child = "ok" /\ ~killed THEN "returned"
  ELSE IF ctx = "expired" THEN "timedOut"
  ELSE IF child = "ok" THEN "notStarted" ELSE "returned"

\* WRONG: a WaitDelay, so that a process left behind does not hold up the run.
ReturnAfterDelay ==
  /\ stage = "drain"
  /\ stage' = "done"
  /\ Tell(End, child)
  /\ UNCHANGED <<caller, ctx, killed, processVars, outputVars>>

\* Both pipes are at their end: nobody has them open and they are empty.
Return ==
  /\ stage = "drain"
  /\ ~Writers /\ \A s \in Streams : pipe[s] = 0
  /\ stage' = "done"
  /\ Tell(End, child)
  /\ UNCHANGED <<caller, ctx, killed, processVars, outputVars>>

-----------------------------------------------------------------------------
Runner == Refuse \/ StartFails \/ Start \/ KillChild \/ Reap \/ Return \/ \E s \in Streams : Copy(s)
Skill == Fork \/ ChildEnds \/ HeirLetsGo \/ \E s \in Streams : WriteOut(s)

Next == Runner \/ Skill \/ Expire \/ Cancel \/ CallerDies

Spec == Init /\ [][Next]_skillVars

\* Time passes and RunSkill's goroutines run. A skill promises nothing.
Fairness ==
  /\ WF_skillVars(Refuse \/ StartFails \/ Start) /\ WF_skillVars(Expire)
  /\ WF_skillVars(KillChild \/ Reap) /\ WF_skillVars(Return)
  /\ \A s \in Streams : WF_skillVars(Copy(s))

FairSpec == Spec /\ Fairness

-----------------------------------------------------------------------------
TypeOK ==
  /\ caller \in Callers
  /\ stage \in {"start", "wait", "drain", "done", "died"}
  /\ ctx \in {"live", "expired", "cancelled"} /\ killed \in BOOLEAN
  /\ child \in {"none", "up"} \cup Ended
  /\ heir \in {"none", "up", "detached", "gone"}
  /\ printed \in [Streams -> 0..MaxPrint] /\ pipe \in [Streams -> 0..PipeCap]
  /\ kept \in [Streams -> 0..Limit] /\ exceeded \in [Streams -> BOOLEAN]
  /\ outcome \in {"none"} \cup Outcomes /\ told \in {"none", "success", "error"}

\* Whatever is reported as a success is all that the skill printed and all it
\* will ever print: nothing was thrown away, nothing is still in a pipe and no
\* process of the skill can add to it. `c2c run` reports one only for a skill
\* that exited with zero of itself.
SuccessIsWhole ==
  told = "success" =>
    /\ ~Writers
    /\ \A s \in Streams : kept[s] = printed[s]
    /\ caller = "run" => child = "ok" /\ ~killed

\* A run is rejected for its size exactly when a stream was longer than the
\* limit, not when it just reached it, however the chunks fell.
LimitIsExact ==
  stage = "done" /\ child # "none" =>
    (outcome = "exceeded" <=> \E s \in Streams : printed[s] > Limit)

\* Why: what the limitedWriters know of what was printed, and what each stage
\* of RunSkill can rely on.
Copied(s) == printed[s] - pipe[s]
OutputAccounted ==
  \A s \in Streams :
    /\ pipe[s] <= printed[s]
    /\ kept[s] = IF Copied(s) > Limit THEN Limit ELSE Copied(s)
    /\ exceeded[s] <=> Copied(s) > Limit

StagesInOrder ==
  /\ child = "none" => ~Writers /\ \A s \in Streams : printed[s] = 0
  /\ stage = "start" => child = "none"
  /\ stage = "wait" => child # "none"
  /\ stage = "drain" => child \in Ended
  /\ stage # "done" => outcome = "none" /\ told = "none"

DoneIsFinal ==
  stage = "done" =>
    /\ ~Writers
    /\ child = "none" => told = "error"
    /\ child # "none" => /\ outcome = End
                         /\ \A s \in Streams : pipe[s] = 0
    /\ told = "success" => outcome = "returned" /\ (caller = "run" => child = "ok")

IInv == TypeOK /\ OutputAccounted /\ StagesInOrder /\ DoneIsFinal

\* However the skill behaves, whatever it prints, a run ends, unless a process
\* the skill has left behind holds on to its output for ever: os/exec kills the
\* child alone and then waits for the pipes. Under tsx that process is the
\* skill itself, and its letting go, by then, is what the run waits for.
DeadlineEndsRun == ~Over ~> (Over \/ [](heir = "up"))

=============================================================================
