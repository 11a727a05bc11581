------------------------------ MODULE ShimBoot ------------------------------
(***************************************************************************)
(* A connector comes up: the main function of shim/c2c-shim.js loads the   *)
(* plugin and lets it register, the plugin-sdk shim announces what the     *)
(* plugin offers in "discovery" lines, and the daemon collects them in its *)
(* tool registry (internal/registry).  It goes down again when the daemon  *)
(* is asked to stop, when the plugin fails, or both.                       *)
(*                                                                         *)
(* The pipes, sockets and goroutines of the daemon are in DaemonIPC, its   *)
(* PID and socket files in ConnectorLifecycle.                             *)
(***************************************************************************)
EXTENDS Naturals, Sequences

CONSTANTS
  Connectors,   \* connectors that are installed
  ToolNames,    \* names plugins give the tools they register
  Suffix,       \* the method whose tool's name a name ends like, if any
  Channels,     \* of each plugin: the outbound methods of a channel it may register,
  Offers,       \* the lists of tools its register() may register,
  Afterthoughts,  \* and tools it may register later
  NoMethod,     \* where there is no method
  Unknown,      \* no tool at all
  MaxTools,     \* bound on the tools one plugin registers
  MaxStarts     \* bound on the starts of each connector

\* sendText and sendMedia, by what the names of their tools end with; a tool
\* a plugin registers, of which "execute" says whether that is a function.
Methods == {"send_text", "send_media"}
Tools == [name : ToolNames, execute : BOOLEAN]

\* Lists of at most n.
UpTo(S, n) == UNION {[1..k -> S] : k \in 0..n}

ASSUME BootAssumption ==
  /\ MaxTools \in Nat /\ MaxStarts \in [Connectors -> Nat]
  /\ Channels \in [Connectors -> SUBSET SUBSET Methods]
  /\ Offers \in [Connectors -> SUBSET UpTo(Tools, MaxTools)]
  /\ Afterthoughts \in [Connectors -> SUBSET Tools]
  /\ Suffix \in [ToolNames -> Methods \cup {NoMethod}]
  /\ NoMethod \notin Methods
  /\ \A n \in ToolNames, c \in Connectors, m \in Methods : n # <<c, m>>

VARIABLES
  daemon,      \* "down" or "up"
  starts,      \* how often the connector has been started
  asked,       \* connectors whose daemon has signalled its shim to end
  shim,        \* how far main() has come
  channel,     \* registeredChannel: the methods of its outbound part
  registered,  \* registeredTools
  early,       \* history: how many there were when register() returned
  stdout,      \* discovery lines the daemon has not read
  registry     \* toolRegistry, in the daemon's memory

\* Before registerChannel.
NoChannel == {NoMethod}

pluginVars == <<channel, registered, early>>
bootVars == <<daemon, starts, asked, shim, pluginVars, stdout, registry>>

\* The tool of a channel's method has the connector's name in front of the
\* method's; the tools a plugin registers have names of their own.
Name(c, m) == <<c, m>>
Names == Connectors \X Methods \cup ToolNames

\* A schema stands for what it was made from: a method of the channel, or a
\* place in registeredTools.
Method(m) == <<"method", m>>
Tool(i) == <<"tool", i>>
Items == {Method(m) : m \in Methods} \cup {Tool(i) : i \in 1..MaxTools}
Schema(n, i) == [name |-> n, item |-> i]
Schemas == [name : Names, item : Items]

Members(s) == {s[i] : i \in 1..Len(s)}

-----------------------------------------------------------------------------
(* The daemon and its shim                                                 *)

BootInit ==
  /\ daemon = [c \in Connectors |-> "down"] /\ starts = [c \in Connectors |-> 0]
  /\ asked = {}
  /\ shim = [c \in Connectors |-> "none"]
  /\ channel = [c \in Connectors |-> NoChannel]
  /\ registered = [c \in Connectors |-> <<>>] /\ early = [c \in Connectors |-> 0]
  /\ stdout = [c \in Connectors |-> <<>>] /\ registry = [c \in Connectors |-> <<>>]

\* runDaemon, with a registry and a Node.js process that know nothing yet.
Start(c) ==
  /\ daemon[c] = "down" /\ starts[c] < MaxStarts[c]
  /\ daemon' = [daemon EXCEPT ![c] = "up"]
  /\ starts' = [starts EXCEPT ![c] = @ + 1]
  /\ shim' = [shim EXCEPT ![c] = "loading"]
  /\ UNCHANGED <<asked, pluginVars, stdout, registry>>

\* WRONG: the tools of the second line take the place of those of the first.
StoreOnly(c) ==
  /\ daemon[c] = "up" /\ stdout[c] # <<>>
  /\ registry' = [registry EXCEPT ![c] = Head(stdout[c])]
  /\ stdout' = [stdout EXCEPT ![c] = Tail(@)]
  /\ UNCHANGED <<daemon, starts, asked, shim, pluginVars>>

\* The stdout reader: registry.Get, append, registry.Store.
ReadDiscovery(c) ==
  /\ daemon[c] = "up" /\ stdout[c] # <<>>
  /\ registry' = [registry EXCEPT ![c] = @ \o Head(stdout[c])]
  /\ stdout' = [stdout EXCEPT ![c] = Tail(@)]
  /\ UNCHANGED <<daemon, starts, asked, shim, pluginVars>>

\* Node.js dies of SIGTERM until main() has set its handlers, at the end for a
\* plugin with a channel. After that nothing makes the process exit: the
\* handlers abort or resolve, and standard input, which c2c-shim.js has taken
\* back into the event loop, is still open.
Obeys(c) == shim[c] \in {"loading", "login"}

\* A signal, or a shutdown command: the daemon passes SIGTERM on.
Stop(c) ==
  /\ daemon[c] = "up" /\ c \notin asked
  /\ asked' = asked \cup {c}
  /\ shim' = IF Obeys(c) THEN [shim EXCEPT ![c] = "exited"] ELSE shim
  /\ UNCHANGED <<daemon, starts, pluginVars, stdout, registry>>

\* shimShutdownTimeout.
ForceKill(c) ==
  /\ c \in asked /\ shim[c] # "exited"
  /\ shim' = [shim EXCEPT ![c] = "exited"]
  /\ UNCHANGED <<daemon, starts, asked, pluginVars, stdout, registry>>

\* The plugin exits or crashes.
Crash(c) ==
  /\ shim[c] \notin {"none", "exited"}
  /\ shim' = [shim EXCEPT ![c] = "exited"]
  /\ UNCHANGED <<daemon, starts, asked, pluginVars, stdout, registry>>

\* pluginCmd.Wait has returned; it closes the pipe with what was not read.
DaemonExits(c) ==
  /\ daemon[c] = "up" /\ shim[c] = "exited"
  /\ daemon' = [daemon EXCEPT ![c] = "down"]
  /\ asked' = asked \ {c}
  /\ shim' = [shim EXCEPT ![c] = "none"]
  /\ channel' = [channel EXCEPT ![c] = NoChannel]
  /\ registered' = [registered EXCEPT ![c] = <<>>]
  /\ early' = [early EXCEPT ![c] = 0]
  /\ stdout' = [stdout EXCEPT ![c] = <<>>]
  /\ registry' = [registry EXCEPT ![c] = <<>>]
  /\ UNCHANGED starts

-----------------------------------------------------------------------------
(* main() of c2c-shim.js                                                   *)

\* emitDiscovery and emitToolDiscovery: a line of schemas, if there are any.
ChannelSchema(c, m) == Schema(Name(c, m), Method(m))
ChannelSchemas(c, ms) ==
  (IF "send_text" \in ms THEN <<ChannelSchema(c, "send_text")>> ELSE <<>>) \o
  (IF "send_media" \in ms THEN <<ChannelSchema(c, "send_media")>> ELSE <<>>)
ToolSchemas(ts) == [i \in 1..Len(ts) |-> Schema(ts[i].name, Tool(i))]
Emit(schemas) == IF schemas = <<>> THEN <<>> ELSE <<schemas>>

RegisterChannel(c, ms) == channel' = [channel EXCEPT ![c] = ms]

\* No module, no register(), or a module that fails to load.
LoadFails(c) ==
  /\ shim[c] = "loading"
  /\ shim' = [shim EXCEPT ![c] = "exited"]
  /\ UNCHANGED <<daemon, starts, asked, pluginVars, stdout, registry>>

\* register() throws, perhaps after it has registered a channel.
RegisterThrows(c) ==
  /\ shim[c] = "loading"
  /\ shim' = [shim EXCEPT ![c] = "exited"]
  /\ \/ UNCHANGED <<channel, stdout>>
     \/ \E ms \in Channels[c] :
          /\ RegisterChannel(c, ms)
          /\ stdout' = [stdout EXCEPT ![c] = Emit(ChannelSchemas(c, ms))]
  /\ UNCHANGED <<daemon, starts, asked, registered, early, registry>>

\* Where main() goes with the accounts the plugin lists: the gateway is started
\* (which also sets the signal handlers) unless there are none and the plugin
\* can log in. Whatever the account's start throws at once is fatal.
Accounts(c) == \E next \in {"gateway", "login", "exited"} : shim' = [shim EXCEPT ![c] = next]

\* From register() to the first await after it main() runs without a break:
\* the channel is announced as it is registered, the tools after register() has
\* returned. Without a channel it waits for a signal.
Register(c) ==
  /\ shim[c] = "loading"
  /\ \E ts \in Offers[c] :
       /\ registered' = [registered EXCEPT ![c] = ts]
       /\ early' = [early EXCEPT ![c] = Len(ts)]
       /\ \/ /\ shim' = [shim EXCEPT ![c] = "waiting"]
             /\ stdout' = [stdout EXCEPT ![c] = Emit(ToolSchemas(ts))]
             /\ UNCHANGED channel
          \/ \E ms \in Channels[c] :
               /\ Accounts(c)
               /\ RegisterChannel(c, ms)
               /\ stdout' = [stdout EXCEPT ![c] = Emit(ChannelSchemas(c, ms))
                                                  \o Emit(ToolSchemas(ts))]
  /\ UNCHANGED <<daemon, starts, asked, registry>>

\* startLogin is over, one way or the other; main() goes on with the accounts
\* there are then.
LoginEnds(c) ==
  /\ shim[c] = "login"
  /\ \E next \in {"gateway", "exited"} : shim' = [shim EXCEPT ![c] = next]
  /\ UNCHANGED <<daemon, starts, asked, pluginVars, stdout, registry>>

\* main() does not await register(): what an asynchronous one registers later
\* is kept. A channel is announced even so (no gateway is started for it), a
\* tool is not. No plugin registers two channels.
Registering(c) == shim[c] \in {"login", "waiting", "gateway"}

LateChannel(c) ==
  /\ Registering(c) /\ channel[c] = NoChannel
  /\ \E ms \in Channels[c] :
       /\ RegisterChannel(c, ms)
       /\ stdout' = [stdout EXCEPT ![c] = @ \o Emit(ChannelSchemas(c, ms))]
  /\ UNCHANGED <<daemon, starts, asked, shim, registered, early, registry>>

LateTool(c) ==
  /\ Registering(c) /\ Len(registered[c]) < MaxTools
  /\ \E t \in Afterthoughts[c] : registered' = [registered EXCEPT ![c] = Append(@, t)]
  /\ UNCHANGED <<daemon, starts, asked, shim, channel, early, stdout, registry>>

Main(c) ==
  \/ LoadFails(c) \/ RegisterThrows(c) \/ Register(c)
  \/ LoginEnds(c) \/ LateChannel(c) \/ LateTool(c)

\* What happens to a connector without anybody's asking.
BootStep(c) == Main(c) \/ Crash(c) \/ ReadDiscovery(c) \/ ForceKill(c) \/ DaemonExits(c)

-----------------------------------------------------------------------------
(* handleInvokeTool                                                        *)

Ends(n) == IF n \in ToolNames THEN Suffix[n] ELSE n[2]
Named(c, n) == {i \in 1..Len(registered[c]) : registered[c][i].name = n}

First(S) == CHOOSE i \in S : \A j \in S : i <= j

\* What a call of tool n runs: the channel's method whose name it ends with, or
\* else the first registered tool of that name, if it can be executed.
HasMethod(c, n) == channel[c] # NoChannel /\ Ends(n) \in channel[c]
Runs(c, n) ==
  IF HasMethod(c, n) THEN Method(Ends(n))
  ELSE LET found == Named(c, n) IN
       IF found # {} /\ registered[c][First(found)].execute THEN Tool(First(found))
       ELSE Unknown

-----------------------------------------------------------------------------
(* Properties                                                              *)

BootTypeOK ==
  /\ daemon \in [Connectors -> {"down", "up"}]
  /\ starts \in [Connectors -> Nat]
  /\ asked \subseteq Connectors
  /\ shim \in [Connectors -> {"none", "loading", "login", "waiting", "gateway", "exited"}]
  /\ channel \in [Connectors -> (SUBSET Methods) \cup {NoChannel}]
  /\ registered \in [Connectors -> UpTo(Tools, MaxTools)]
  /\ early \in [Connectors -> 0..MaxTools]
  /\ stdout \in [Connectors -> Seq(Seq(Schemas))]
  /\ registry \in [Connectors -> Seq(Schemas)]

\* Everything a plugin offered when its register() returned, and its channel,
\* reaches the registry whole, in whatever order tools and channel came: what
\* main() has said and the daemon has not read yet, added to what the daemon
\* has, is what the plugin offers.
Said(lines) == UNION {Members(lines[i]) : i \in 1..Len(lines)}
Announced(c) == Members(registry[c]) \cup Said(stdout[c])
OfferedByChannel(c) == {ChannelSchema(c, m) : m \in channel[c] \cap Methods}
OfferedTools(c) == {Schema(registered[c][i].name, Tool(i)) : i \in 1..early[c]}
RegistryIsWhole ==
  \A c \in Connectors : Registering(c) => Announced(c) = OfferedByChannel(c) \cup OfferedTools(c)

-----------------------------------------------------------------------------
(* The inductive invariant                                                 *)

\* A new shim knows nothing, and a daemon that is down leaves nothing.
BootIsClean ==
  \A c \in Connectors :
    /\ daemon[c] = "down" <=> shim[c] = "none"
    /\ c \in asked => daemon[c] = "up"
    /\ shim[c] \in {"none", "loading"} =>
         /\ channel[c] = NoChannel /\ registered[c] = <<>> /\ early[c] = 0
         /\ stdout[c] = <<>> /\ registry[c] = <<>>
    /\ early[c] <= Len(registered[c])

\* The plugin has what the schema of that name and that origin describes.
Backs(c, n, i) ==
  \/ \E m \in channel[c] \cap Methods : n = Name(c, m) /\ i = Method(m)
  \/ \E j \in 1..Len(registered[c]) : n = registered[c][j].name /\ i = Tool(j)

\* All that has been announced is backed, after a failed start too.
AnnouncedIsBacked ==
  \A c \in Connectors : \A x \in Announced(c) : Backs(c, x.name, x.item)

BootInv == BootTypeOK /\ BootIsClean /\ RegistryIsWhole /\ AnnouncedIsBacked
=============================================================================
