----------------------------- MODULE RemoteCall -----------------------------
(***************************************************************************)
(* What a call through a connector daemon promises its caller, whatever    *)
(* happens on the way: success is reported only for a call that was served *)
(* with success, a call is served at most once, and nothing is served that *)
(* was not asked for.  A call that fails or times out may still be served. *)
(* ShimRpc implements it.                                                  *)
(***************************************************************************)
CONSTANT Callers

VARIABLES
  call,    \* "idle", "waiting", or what the caller was told
  service  \* what became of the call at the other end

callVars == <<call, service>>

Failures == {"failed", "timeout", "unanswered"}

CallInit ==
  /\ call = [c \in Callers |-> "idle"]
  /\ service = [c \in Callers |-> "none"]

Tell(c, outcome) == call' = [call EXCEPT ![c] = outcome]
Serve(c, stage) == service' = [service EXCEPT ![c] = stage]

Issue(c) == call[c] = "idle" /\ Tell(c, "waiting") /\ UNCHANGED service

\* With no daemon to connect to, the call is refused at once.
Refuse(c) == call[c] = "idle" /\ Tell(c, "failed") /\ UNCHANGED service

\* Serving may begin long after the caller has given up.
Begin(c) ==
  /\ call[c] # "idle" /\ service[c] = "none"
  /\ Serve(c, "running") \/ Serve(c, "ok")
  /\ UNCHANGED call

End(c) ==
  /\ service[c] = "running"
  /\ Serve(c, "ok") \/ Serve(c, "failed")
  /\ UNCHANGED call

Succeed(c) ==
  /\ call[c] = "waiting" /\ service[c] = "ok"
  /\ Tell(c, "ok")
  /\ UNCHANGED service

Fail(c) ==
  /\ call[c] = "waiting"
  /\ \E f \in Failures : Tell(c, f)
  /\ UNCHANGED service

CallNext ==
  \E c \in Callers :
    \/ Issue(c) \/ Refuse(c) \/ Begin(c) \/ End(c) \/ Succeed(c) \/ Fail(c)

CallSafety == CallInit /\ [][CallNext]_callVars

=============================================================================
