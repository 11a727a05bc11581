----------------------------- MODULE DaemonLife -----------------------------
(***************************************************************************)
(* What a connector daemon promises about itself and its plugin, whatever  *)
(* the commands around it do: it ends only with the process gone that it   *)
(* started for its plugin, unless it is killed, and once it drains it does *)
(* end.  That process is a runner (tsx) with the plugin as its child: if   *)
(* the runner has to be killed, the plugin may be left behind.  It says    *)
(* nothing of files, sockets and sessions.  ConnectorLifecycle and         *)
(* DaemonIPC implement it.                                                 *)
(***************************************************************************)
CONSTANT Daemons

VARIABLES
  phase,  \* "unborn", "running", "draining", "ended" or "crashed"
  shim    \* the plugin: "none", "up", "left" without its runner, or "done"

lifeVars == <<phase, shim>>

Phases == {"unborn", "running", "draining", "ended", "crashed"}
ShimStates == {"none", "up", "left", "done"}

LifeInit ==
  /\ phase = [d \in Daemons |-> "unborn"]
  /\ shim = [d \in Daemons |-> "none"]

Become(d, p) == phase' = [phase EXCEPT ![d] = p]

Begin(d) == phase[d] = "unborn" /\ Become(d, "running") /\ UNCHANGED shim

\* The runner and the plugin are started once, and only by a running daemon.
Attach(d) ==
  /\ phase[d] = "running" /\ shim[d] = "none"
  /\ shim' = [shim EXCEPT ![d] = "up"]
  /\ UNCHANGED phase

\* The plugin may end at any time, also after its daemon; its runner ends with it.
Detach(d) ==
  /\ shim[d] \in {"up", "left"}
  /\ shim' = [shim EXCEPT ![d] = "done"]
  /\ UNCHANGED phase

\* A draining daemon may kill the runner, which leaves the plugin without one.
KillRunner(d) ==
  /\ phase[d] = "draining" /\ shim[d] = "up"
  /\ shim' = [shim EXCEPT ![d] = "left"]
  /\ UNCHANGED phase

\* Draining begins on request or because the plugin has ended.
Drain(d) ==
  /\ phase[d] = "running" /\ shim[d] # "none"
  /\ Become(d, "draining")
  /\ UNCHANGED shim

\* Giving up before draining kills the runner, if there is one.
GiveUp(d) ==
  /\ phase[d] = "running"
  /\ Become(d, "ended")
  /\ \/ shim[d] = "none" /\ UNCHANGED shim
     \/ shim[d] = "up" /\ \E rest \in {"left", "done"} : shim' = [shim EXCEPT ![d] = rest]
     \/ shim[d] = "done" /\ UNCHANGED shim

\* A daemon that has drained has seen the runner end.
End(d) ==
  /\ phase[d] = "draining" /\ shim[d] \in {"left", "done"}
  /\ Become(d, "ended")
  /\ UNCHANGED shim

Crash(d) ==
  /\ phase[d] \in {"running", "draining"}
  /\ Become(d, "crashed")
  /\ UNCHANGED shim

LifeNext ==
  \E d \in Daemons :
    \/ Begin(d) \/ Attach(d) \/ Detach(d) \/ KillRunner(d)
    \/ Drain(d) \/ GiveUp(d) \/ End(d) \/ Crash(d)

LifeSafety == LifeInit /\ [][LifeNext]_lifeVars

\* A draining daemon sees to it that its runner ends, and then ends itself.
Draining(d) == phase[d] = "draining"
Over(d) == phase[d] \in {"ended", "crashed"}
DrainEnds(d) == Draining(d) ~> Over(d)

LifeSpec == LifeSafety /\ \A d \in Daemons : DrainEnds(d)

=============================================================================
