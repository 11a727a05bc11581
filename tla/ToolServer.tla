----------------------------- MODULE ToolServer -----------------------------
(***************************************************************************)
(* `c2c mcp serve` (cmd/mcp.go, internal/mcp): when it starts it makes an  *)
(* MCP tool of every plugin the user's filter lets through, asks the       *)
(* connectors among them that run for the tools they have discovered, adds *)
(* those, and serves the resulting table.  The connectors come and go as   *)
(* ShimBoot has it, before, while and after the table is made.             *)
(*                                                                         *)
(* How a request and its answer travel is in ShimRpc; here a call reaches  *)
(* the shim or fails.                                                      *)
(***************************************************************************)
EXTENDS ShimBoot

CONSTANTS
  Plugins,     \* the plugins ListPlugins finds
  Rank,        \* their order, by name
  StaticName,  \* what ManifestToTool calls each: the name in its SKILL.md, or its own
  Calls        \* calls of the MCP client

ASSUME ServerAssumption ==
  /\ Connectors \subseteq Plugins
  /\ Rank \in [Plugins -> Nat]
  /\ DOMAIN StaticName = Plugins
  /\ Unknown \notin Items

VARIABLES
  server,    \* "off", "listing", "serving" or "failed"
  admitted,  \* the plugins FilterPlugins let through
  todo,      \* connectors registerDynamicTools has still to ask
  query,     \* the start of the connector being asked, 0 if none is
  table,     \* the tools of the MCP server, by name
  call       \* each call: what it is for, or what became of it

serverVars == <<server, admitted, todo, query, table>>
vars == <<bootVars, serverVars, call>>

\* A tool of the table: the plugin and the tool its handler was made for and, as
\* history, which connector sent its schema, what that stands for and in which
\* of the connector's starts.
Entry(p, n, from, i, s) == [plugin |-> p, tool |-> n, from |-> from, item |-> i, start |-> s]
StaticEntry(p) == Entry(p, Unknown, p, Unknown, 0)
Dynamic(e) == e.item # Unknown

NoCall == [at |-> "idle"]
Sent(e) == [at |-> "sent", entry |-> e, start |-> starts[e.plugin]]
Ran(what) == [at |-> "done", ran |-> what]
Failed == [at |-> "failed"]

Init ==
  /\ BootInit
  /\ server = "off" /\ admitted = {} /\ todo = {} /\ query = 0
  /\ table = <<>>
  /\ call = [k \in Calls |-> NoCall]

-----------------------------------------------------------------------------
(* The server starts                                                       *)

\* AddTool replaces a tool of the same name: the last one stays.
LastNamed(ps) == {p \in ps : \A q \in ps : StaticName[q] = StaticName[p] => Rank[q] <= Rank[p]}
StaticTable(ps) ==
  [n \in {StaticName[p] : p \in LastNamed(ps)} |->
     StaticEntry(CHOOSE p \in LastNamed(ps) : StaticName[p] = n)]

\* FilterPlugins lets through what one of the two lists names, or everything if
\* both are empty; a plugin that cannot be loaded has been left out before.
Filtered(loaded, names) == {p \in loaded : names = {} \/ p \in names}

NothingToServe ==
  /\ server = "off"
  /\ \E loaded, names \in SUBSET Plugins : Filtered(loaded, names) = {}
  /\ server' = "failed"
  /\ UNCHANGED <<bootVars, admitted, todo, query, table, call>>

\* WRONG: whatever is admitted is asked, skills too.
ServeAnyType ==
  /\ server = "off"
  /\ server' = "listing"
  /\ \E loaded, names \in SUBSET Plugins :
       LET ps == Filtered(loaded, names) IN
       /\ ps # {}
       /\ admitted' = ps
       /\ table' = StaticTable(ps)
       /\ todo' = ps
  /\ UNCHANGED <<bootVars, query, call>>

\* WRONG: all connectors are asked, whether or not the filter names them.
ServeAll ==
  /\ server = "off"
  /\ server' = "listing"
  /\ \E loaded, names \in SUBSET Plugins :
       LET ps == Filtered(loaded, names) IN
       /\ ps # {}
       /\ admitted' = ps
       /\ table' = StaticTable(ps)
       /\ todo' = loaded \cap Connectors
  /\ UNCHANGED <<bootVars, query, call>>

Serve ==
  /\ server = "off"
  /\ server' = "listing"
  /\ \E loaded, names \in SUBSET Plugins :
       LET ps == Filtered(loaded, names) IN
       /\ ps # {}
       /\ admitted' = ps
       /\ table' = StaticTable(ps)
       /\ todo' = ps \cap Connectors
  /\ UNCHANGED <<bootVars, query, call>>

\* The loop of registerDynamicTools.
Turn(c) == server = "listing" /\ c \in todo /\ \A d \in todo : Rank[c] <= Rank[d]
Proceed(c) == todo' = todo \ {c} /\ query' = 0

\* DiscoverTools: list_tools is sent to the daemon, if there is one.
Ask(c) ==
  /\ Turn(c) /\ query = 0
  /\ \/ daemon[c] = "up" /\ query' = starts[c] /\ UNCHANGED todo
     \/ daemon[c] = "down" /\ Proceed(c)
  /\ UNCHANGED <<bootVars, server, admitted, table, call>>

LastIn(s) == {i \in 1..Len(s) : \A j \in i+1..Len(s) : s[j].name # s[i].name}
NamesIn(s) == {s[i].name : i \in LastIn(s)}
ItemIn(s, n) == s[CHOOSE i \in LastIn(s) : s[i].name = n].item

\* WRONG: the handlers share the loop's variable and call the last tool.
SharedHandlers(c, s) ==
  [n \in NamesIn(s) |-> Entry(c, s[Len(s)].name, c, ItemIn(s, n), query)]

DynamicTable(c, s) ==
  [n \in NamesIn(s) |-> Entry(c, n, c, ItemIn(s, n), query)]

\* f where it is defined, else g.
Over(f, g) == [x \in DOMAIN f \cup DOMAIN g |-> IF x \in DOMAIN f THEN f[x] ELSE g[x]]

\* The daemon answers with what its registry holds at that moment.
Answered(c) ==
  /\ Turn(c) /\ query # 0
  /\ daemon[c] = "up" /\ starts[c] = query
  /\ table' = Over(DynamicTable(c, registry[c]), table)
  /\ Proceed(c)
  /\ UNCHANGED <<bootVars, server, admitted, call>>

\* WRONG: DiscoverTools waits for its goroutine, which ends without a word when
\* the connection does.
NoTimer(c) == FALSE /\ UNCHANGED vars

\* Five seconds have passed.
AskTimesOut(c) ==
  /\ Turn(c) /\ query # 0
  /\ Proceed(c)
  /\ UNCHANGED <<bootVars, server, admitted, table, call>>

\* ServeStdio.
Listed ==
  /\ server = "listing" /\ todo = {}
  /\ server' = "serving"
  /\ UNCHANGED <<bootVars, admitted, todo, query, table, call>>

-----------------------------------------------------------------------------
(* Calls                                                                   *)

Settle(k, end) == call' = [call EXCEPT ![k] = end]

\* A skill's tool runs the skill (SkillRunner).
CallSkill(k, e) ==
  /\ e.plugin \notin Connectors
  /\ Settle(k, Ran(Unknown))
  /\ UNCHANGED bootVars

\* A connector's own tool starts it if it is down, stops it if it is up, or does
\* something that changes neither (status, an action it forwards, an error).
CallConnector(k, e) ==
  /\ e.plugin \in Connectors /\ ~Dynamic(e)
  /\ Start(e.plugin) \/ Stop(e.plugin) \/ UNCHANGED bootVars
  /\ Settle(k, Ran(Unknown))

\* InvokeTool: the request is on its way to the daemon that runs now.
CallDynamic(k, e) ==
  /\ Dynamic(e) /\ daemon[e.plugin] = "up"
  /\ call' = [call EXCEPT ![k] = Sent(e)]
  /\ UNCHANGED bootVars

CallTool(k) ==
  /\ server = "serving" /\ call[k] = NoCall
  /\ \E n \in DOMAIN table :
       CallSkill(k, table[n]) \/ CallConnector(k, table[n]) \/ CallDynamic(k, table[n])
  /\ UNCHANGED serverVars

\* handleInvokeTool, in the shim the request was sent to.
Arrives(k) ==
  LET c == call[k].entry.plugin IN
  /\ call[k].at = "sent" /\ starts[c] = call[k].start
  /\ shim[c] \notin {"none", "exited"}
  /\ Settle(k, Ran(Runs(c, call[k].entry.tool)))
  /\ UNCHANGED <<bootVars, serverVars>>

\* The connector has gone, or does not answer in time.
CallFails(k) ==
  /\ call[k].at = "sent"
  /\ Settle(k, Failed)
  /\ UNCHANGED <<bootVars, serverVars>>

-----------------------------------------------------------------------------
(* Specification                                                           *)

Boot(c) == BootStep(c) /\ UNCHANGED <<serverVars, call>>
User(c) == (Start(c) \/ Stop(c)) /\ UNCHANGED <<serverVars, call>>
Discover(c) == Ask(c) \/ Answered(c) \/ AskTimesOut(c)
Client(k) == CallTool(k) \/ Arrives(k) \/ CallFails(k)

Next ==
  \/ \E c \in Connectors : Boot(c) \/ User(c) \/ Discover(c)
  \/ NothingToServe \/ Serve \/ Listed
  \/ \E k \in Calls : Client(k)

Spec == Init /\ [][Next]_vars

\* The server's main goroutine runs on and its timers fire. Nothing says that a
\* connector ever gets anywhere.
Listing == Listed \/ \E c \in Connectors : Discover(c)

FairSpec == Spec /\ WF_vars(Listing)

-----------------------------------------------------------------------------
(* Properties                                                              *)

Entries ==
  [plugin : Plugins, tool : Names \cup {Unknown}, from : Plugins,
   item : Items \cup {Unknown}, start : Nat]

TypeOK ==
  /\ BootTypeOK
  /\ server \in {"off", "listing", "serving", "failed"}
  /\ admitted \subseteq Plugins /\ todo \subseteq Connectors /\ query \in Nat
  /\ \A n \in DOMAIN table : table[n] \in Entries
  /\ call \in [Calls -> {NoCall, Failed} \cup [at : {"sent"}, entry : Entries, start : Nat]
                          \cup [at : {"done"}, ran : Items \cup {Unknown}]]

\* Nothing reaches a plugin the filter keeps out: no tool of the server, static
\* or discovered, and so no call, is for another plugin than those admitted.
FilterHolds ==
  /\ \A n \in DOMAIN table : {table[n].plugin, table[n].from} \subseteq admitted
  /\ \A k \in Calls : call[k].at = "sent" => call[k].entry.plugin \in admitted

\* A call that arrives while the connector still runs as it did when it was
\* listed runs the very thing that was listed with the tool's name. The only
\* ways out: the plugin gave the name twice, its name ends like the tool of a
\* channel's method, or it registered something that cannot be executed.
Clear(c, n) ==
  IF n \in ToolNames
  THEN ~HasMethod(c, n) /\ \E i \in Named(c, n) : Named(c, n) = {i} /\ registered[c][i].execute
  ELSE TRUE
RunsWhatWasListed ==
  [][\A k \in Calls :
       LET e == call[k].entry IN
       /\ call[k].at = "sent" /\ call'[k] \notin {call[k], Failed}
       /\ call[k].start = e.start /\ Clear(e.from, e.tool)
       => call'[k] = Ran(e.item)]_vars

\* `c2c mcp serve` comes up whatever the connectors do while it asks them.
ServerComesUp == server = "listing" ~> server = "serving"

-----------------------------------------------------------------------------
(* The inductive invariant                                                 *)

\* A discovered tool of the server is one the connector has, as long as it has
\* not been started again.
EntryIsBacked(e) ==
  Dynamic(e) =>
    /\ e.plugin \in Connectors /\ e.from = e.plugin
    /\ e.start <= starts[e.plugin]
    /\ daemon[e.plugin] = "up" /\ e.start = starts[e.plugin] =>
         Backs(e.plugin, e.tool, e.item)

ListedIsBacked ==
  /\ \A n \in DOMAIN table : EntryIsBacked(table[n])
  /\ \A k \in Calls : call[k].at = "sent" => /\ Dynamic(call[k].entry)
                                              /\ EntryIsBacked(call[k].entry)

IInv ==
  /\ TypeOK /\ BootInv
  /\ FilterHolds /\ todo \subseteq admitted /\ (server = "off" => admitted = {})
  /\ ListedIsBacked
=============================================================================
