-------------------------- MODULE ToolServer_proofs --------------------------
(***************************************************************************)
(* ShimBoot and ToolServer for any connectors, plugins, filters and calls. *)
(* The argument: what a shim announces is what its plugin has, what the    *)
(* server lists is what a registry held, and a plugin only gains tools     *)
(* until its connector is started again.                                   *)
(***************************************************************************)
EXTENDS ToolServer, TLAPS, SequenceTheorems, WellFoundedInduction

USE BootAssumption, ServerAssumption DEF BootAssumption, ServerAssumption

-----------------------------------------------------------------------------
(* Lists and lines                                                         *)

LEMMA FunctionIsSeq ==
  ASSUME NEW S, NEW k \in Nat, NEW s \in [1..k -> S]
  PROVE  s \in Seq(S) /\ Len(s) = k
OBVIOUS

LEMMA UpToIsSeq ==
  ASSUME NEW S, NEW n \in Nat, NEW s \in UpTo(S, n)
  PROVE  /\ s \in Seq(S) /\ Len(s) \in 0..n
         /\ \A i \in 1..Len(s) : s[i] \in S
<1>1. PICK k \in 0..n : s \in [1..k -> S]
  BY DEF UpTo
<1>2. s \in Seq(S) /\ Len(s) = k
  BY <1>1
<1> QED BY <1>1, <1>2

LEMMA AppendUpTo ==
  ASSUME NEW S, NEW n \in Nat, NEW s \in UpTo(S, n), Len(s) < n, NEW x \in S
  PROVE  /\ Append(s, x) \in UpTo(S, n) /\ Len(Append(s, x)) = Len(s) + 1
         /\ \A i \in 1..Len(s) : Append(s, x)[i] = s[i]
<1>1. s \in Seq(S) /\ Len(s) \in 0..n
  BY UpToIsSeq
<1>2. /\ Append(s, x) \in Seq(S) /\ Len(Append(s, x)) = Len(s) + 1
      /\ \A i \in 1..Len(s) : Append(s, x)[i] = s[i]
  BY <1>1
<1>3. Append(s, x) \in [1..Len(s) + 1 -> S]
  <2>1. Append(s, x) \in [1..Len(Append(s, x)) -> S]
    BY <1>2, LenProperties
  <2> QED BY <2>1, <1>2
<1>4. Len(s) + 1 \in 0..n
  BY <1>1
<1> QED BY <1>2, <1>3, <1>4 DEF UpTo

LEMMA MembersOfConcat ==
  ASSUME NEW S, NEW s \in Seq(S), NEW t \in Seq(S)
  PROVE  Members(s \o t) = Members(s) \cup Members(t)
<1>1. /\ s \o t \in Seq(S) /\ Len(s \o t) = Len(s) + Len(t)
      /\ \A i \in 1..Len(s) + Len(t) :
           (s \o t)[i] = IF i <= Len(s) THEN s[i] ELSE t[i - Len(s)]
      /\ Len(s) \in Nat /\ Len(t) \in Nat
  BY ConcatProperties, LenProperties
<1>2. Members(s \o t) \subseteq Members(s) \cup Members(t)
  <2> SUFFICES ASSUME NEW i \in 1..Len(s) + Len(t)
               PROVE  (s \o t)[i] \in Members(s) \cup Members(t)
    BY <1>1 DEF Members
  <2>1. CASE i <= Len(s)
    BY <2>1, <1>1 DEF Members
  <2>2. CASE i > Len(s)
    <3>1. i - Len(s) \in 1..Len(t) /\ (s \o t)[i] = t[i - Len(s)]
      BY <2>2, <1>1
    <3> QED BY <3>1 DEF Members
  <2> QED BY <2>1, <2>2, <1>1
<1>3. Members(s) \subseteq Members(s \o t)
  BY <1>1 DEF Members
<1>4. Members(t) \subseteq Members(s \o t)
  <2>0. Members(t) = {t[i] : i \in 1..Len(t)}
    BY DEF Members
  <2> SUFFICES ASSUME NEW i \in 1..Len(t)
               PROVE  t[i] \in Members(s \o t)
    BY <2>0
  <2> DEFINE j == i + Len(s)
  <2>1. j \in 1..Len(s) + Len(t) /\ ~(j <= Len(s)) /\ j - Len(s) = i
    BY <1>1
  <2>2. (s \o t)[j] = t[i] /\ j \in 1..Len(s \o t)
    BY <2>1, <1>1
  <2> QED BY <2>2 DEF Members
<1> QED BY <1>2, <1>3, <1>4

LEMMA SaidIsUnion ==
  ASSUME NEW S, NEW s \in Seq(Seq(S))
  PROVE  Said(s) = UNION {Members(l) : l \in Members(s)}
<1>1. {Members(s[i]) : i \in 1..Len(s)} = {Members(l) : l \in {s[i] : i \in 1..Len(s)}}
  OBVIOUS
<1> QED BY <1>1 DEF Said, Members

LEMMA SaidOfConcat ==
  ASSUME NEW S, NEW s \in Seq(Seq(S)), NEW t \in Seq(Seq(S))
  PROVE  Said(s \o t) = Said(s) \cup Said(t)
<1>1. Members(s \o t) = Members(s) \cup Members(t)
  BY MembersOfConcat
<1>2. s \o t \in Seq(Seq(S))
  BY ConcatProperties
<1>3. /\ Said(s) = UNION {Members(l) : l \in Members(s)}
      /\ Said(t) = UNION {Members(l) : l \in Members(t)}
      /\ Said(s \o t) = UNION {Members(l) : l \in Members(s \o t)}
  BY <1>2, SaidIsUnion
<1> HIDE DEF Members, Said
<1> QED BY <1>1, <1>3

LEMMA SaidOfHead ==
  ASSUME NEW S, NEW s \in Seq(Seq(S)), s # <<>>
  PROVE  /\ Head(s) \in Seq(S) /\ Tail(s) \in Seq(Seq(S))
         /\ Said(s) = Members(Head(s)) \cup Said(Tail(s))
<1>1. /\ Head(s) \in Seq(S) /\ Tail(s) \in Seq(Seq(S))
      /\ Head(s) = s[1] /\ Len(s) \in Nat \ {0} /\ Len(Tail(s)) = Len(s) - 1
      /\ \A i \in 1..Len(s) - 1 : Tail(s)[i] = s[i + 1]
  BY HeadTailProperties, EmptySeq
<1>2. ASSUME NEW x PROVE x \in Said(s) <=> x \in Members(Head(s)) \cup Said(Tail(s))
  <2>1. x \in Said(s) <=> \E i \in 1..Len(s) : x \in Members(s[i])
    BY DEF Said
  <2>2. x \in Said(Tail(s)) <=> \E i \in 1..Len(s) - 1 : x \in Members(s[i + 1])
    BY <1>1 DEF Said
  <2>3. (\E i \in 1..Len(s) : x \in Members(s[i])) <=>
        (x \in Members(s[1]) \/ \E i \in 1..Len(s) - 1 : x \in Members(s[i + 1]))
    <3>1. ASSUME NEW i \in 1..Len(s), x \in Members(s[i]), x \notin Members(s[1])
          PROVE  \E j \in 1..Len(s) - 1 : x \in Members(s[j + 1])
      <4>1. i # 1 /\ i - 1 \in 1..Len(s) - 1 /\ s[(i - 1) + 1] = s[i]
        BY <3>1, <1>1
      <4> QED BY <4>1, <3>1
    <3>2. \A i \in 1..Len(s) - 1 : i + 1 \in 1..Len(s)
      BY <1>1
    <3> QED BY <3>1, <3>2, <1>1
  <2> QED BY <2>1, <2>2, <2>3, <1>1
<1> QED BY <1>1, <1>2

LEMMA SaidOfEmit ==
  ASSUME NEW S, NEW l \in Seq(S)
  PROVE  Emit(l) \in Seq(Seq(S)) /\ Said(Emit(l)) = Members(l)
<1>1. CASE l = <<>>
  BY <1>1 DEF Emit, Said, Members
<1>2. CASE l # <<>>
  <2>1. Emit(l) = <<l>> /\ <<l>> \in Seq(Seq(S)) /\ Len(<<l>>) = 1 /\ <<l>>[1] = l
    BY <1>2 DEF Emit
  <2>2. {Members(<<l>>[i]) : i \in 1..Len(<<l>>)} = {Members(l)}
    BY <2>1
  <2> QED BY <2>1, <2>2 DEF Said
<1> QED BY <1>1, <1>2

-----------------------------------------------------------------------------
(* What main() says                                                        *)

LEMMA ChannelLine ==
  ASSUME NEW c \in Connectors, NEW ms \in SUBSET Methods
  PROVE  /\ ChannelSchemas(c, ms) \in Seq(Schemas)
         /\ Members(ChannelSchemas(c, ms)) = {ChannelSchema(c, m) : m \in ms}
<1> DEFINE one(m) == IF m \in ms THEN <<ChannelSchema(c, m)>> ELSE <<>>
<1>1. ASSUME NEW m \in Methods
      PROVE  /\ one(m) \in Seq(Schemas)
             /\ Members(one(m)) = IF m \in ms THEN {ChannelSchema(c, m)} ELSE {}
  <2>1. ChannelSchema(c, m) \in Schemas
    BY DEF ChannelSchema, Schema, Schemas, Names, Name, Items, Method
  <2>2. Members(<<ChannelSchema(c, m)>>) = {ChannelSchema(c, m)}
    <3> HIDE DEF one
    <3> DEFINE x == ChannelSchema(c, m)
    <3>1. Len(<<x>>) = 1 /\ <<x>>[1] = x
      OBVIOUS
    <3> QED BY <3>1 DEF Members
  <2>3. Members(<<>>) = {}
    BY DEF Members
  <2>4. CASE m \in ms
    BY <2>1, <2>2, <2>4
  <2>5. CASE m \notin ms
    BY <2>3, <2>5
  <2> QED BY <2>4, <2>5
<1> DEFINE a == one("send_text")
           b == one("send_media")
<1>2. ChannelSchemas(c, ms) = a \o b
  BY DEF ChannelSchemas
<1>3. a \in Seq(Schemas) /\ b \in Seq(Schemas)
  BY <1>1 DEF Methods
<1> HIDE DEF a, b
<1>4. a \o b \in Seq(Schemas) /\ Members(a \o b) = Members(a) \cup Members(b)
  BY <1>3, MembersOfConcat, ConcatProperties
<1>5. /\ Members(a) = IF "send_text" \in ms THEN {ChannelSchema(c, "send_text")} ELSE {}
      /\ Members(b) = IF "send_media" \in ms THEN {ChannelSchema(c, "send_media")} ELSE {}
  BY <1>1 DEF a, b, Methods
<1>6. {ChannelSchema(c, m) : m \in ms} = Members(a) \cup Members(b)
  <2>1. \A m \in ms : m = "send_text" \/ m = "send_media"
    BY DEF Methods
  <2> QED BY <2>1, <1>5
<1> QED BY <1>2, <1>4, <1>6

LEMMA ToolLine ==
  ASSUME NEW ts \in UpTo(Tools, MaxTools)
  PROVE  /\ ToolSchemas(ts) \in Seq(Schemas)
         /\ Members(ToolSchemas(ts)) = {Schema(ts[i].name, Tool(i)) : i \in 1..Len(ts)}
<1>1. Len(ts) \in 0..MaxTools /\ \A i \in 1..Len(ts) : ts[i] \in Tools
  BY UpToIsSeq
<1>2. \A i \in 1..Len(ts) : Schema(ts[i].name, Tool(i)) \in Schemas
  BY <1>1 DEF Schema, Schemas, Names, Items, Tool, Tools
<1>3. ToolSchemas(ts) \in [1..Len(ts) -> Schemas] /\ Len(ts) \in Nat
  BY <1>1, <1>2 DEF ToolSchemas
<1>4. ToolSchemas(ts) \in Seq(Schemas) /\ Len(ToolSchemas(ts)) = Len(ts)
  BY <1>3, FunctionIsSeq
<1>5. \A i \in 1..Len(ts) : ToolSchemas(ts)[i] = Schema(ts[i].name, Tool(i))
  BY DEF ToolSchemas
<1>6. Members(ToolSchemas(ts)) = {ToolSchemas(ts)[i] : i \in 1..Len(ts)}
  BY <1>4 DEF Members
<1>7. {ToolSchemas(ts)[i] : i \in 1..Len(ts)} = {Schema(ts[i].name, Tool(i)) : i \in 1..Len(ts)}
  BY Zenon, <1>5
<1> QED BY <1>4, <1>6, <1>7

-----------------------------------------------------------------------------
(* One connector at a time                                                 *)

Clean(c) ==
  /\ daemon[c] = "down" <=> shim[c] = "none"
  /\ c \in asked => daemon[c] = "up"
  /\ shim[c] \in {"none", "loading"} =>
       /\ channel[c] = NoChannel /\ registered[c] = <<>> /\ early[c] = 0
       /\ stdout[c] = <<>> /\ registry[c] = <<>>
  /\ early[c] <= Len(registered[c])

Here(c) ==
  /\ Clean(c)
  /\ Registering(c) => Announced(c) = OfferedByChannel(c) \cup OfferedTools(c)
  /\ \A x \in Announced(c) : Backs(c, x.name, x.item)

Frame(c) ==
  \A d \in Connectors : d # c =>
    /\ daemon'[d] = daemon[d] /\ starts'[d] = starts[d] /\ shim'[d] = shim[d]
    /\ d \in asked' <=> d \in asked
    /\ channel'[d] = channel[d] /\ registered'[d] = registered[d] /\ early'[d] = early[d]
    /\ stdout'[d] = stdout[d] /\ registry'[d] = registry[d]

LEMMA EverywhereIsBootInv == BootInv <=> BootTypeOK /\ \A c \in Connectors : Here(c)
BY DEF BootInv, BootIsClean, RegistryIsWhole, AnnouncedIsBacked, Here, Clean

LEMMA OthersKeep ==
  ASSUME BootInv, NEW c \in Connectors, BootTypeOK', Frame(c), Here(c)'
  PROVE  BootInv'
<1>1. ASSUME NEW d \in Connectors, d # c
      PROVE  Here(d)'
  <2>1. Here(d)
    BY EverywhereIsBootInv
  <2>2. /\ daemon'[d] = daemon[d] /\ starts'[d] = starts[d] /\ shim'[d] = shim[d]
        /\ d \in asked' <=> d \in asked
        /\ channel'[d] = channel[d] /\ registered'[d] = registered[d] /\ early'[d] = early[d]
        /\ stdout'[d] = stdout[d] /\ registry'[d] = registry[d]
    BY <1>1 DEF Frame
  <2>3. /\ Announced(d)' = Announced(d)
        /\ OfferedByChannel(d)' = OfferedByChannel(d) /\ OfferedTools(d)' = OfferedTools(d)
        /\ Registering(d)' <=> Registering(d)
        /\ \A n, i : Backs(d, n, i)' <=> Backs(d, n, i)
    BY <2>2 DEF Announced, OfferedByChannel, OfferedTools, Registering, Backs
  <2>4. Clean(d)'
    BY <2>1, <2>2 DEF Here, Clean
  <2> QED BY <2>1, <2>3, <2>4 DEF Here
<1>2. \A d \in Connectors : Here(d)'
  BY <1>1
<1> QED BY <1>2 DEF BootInv, BootIsClean, RegistryIsWhole, AnnouncedIsBacked, Here, Clean

\* A plugin only gains while its connector runs.
Gains(c) == \A n, i : Backs(c, n, i) => Backs(c, n, i)'

\* What a step of a connector leaves intact for those who have seen its tools.
Lasts(c) ==
  /\ starts[c] <= starts'[c]
  /\ daemon'[c] = "up" /\ starts'[c] = starts[c] => daemon[c] = "up" /\ Gains(c)

-----------------------------------------------------------------------------
(* The steps of ShimBoot                                                   *)

LEMMA StartKeeps ==
  ASSUME BootInv, NEW c \in Connectors, Start(c)
  PROVE  BootInv' /\ Frame(c) /\ Lasts(c)
<1> USE DEF Start, pluginVars
<1>1. BootTypeOK'
  BY DEF BootInv, BootTypeOK
<1>2. Frame(c)
  BY DEF BootInv, BootTypeOK, Frame
<1>3. /\ daemon'[c] = "up" /\ shim'[c] = "loading" /\ shim[c] = "none"
      /\ starts'[c] = starts[c] + 1 /\ starts[c] \in Nat
  BY DEF BootInv, BootTypeOK, BootIsClean
<1>4. Here(c)'
  <2>1. Here(c)
    BY EverywhereIsBootInv
  <2>2. Announced(c)' = Announced(c) /\ \A n, i : Backs(c, n, i)' <=> Backs(c, n, i)
    BY DEF Announced, Backs
  <2>3. Clean(c)'
    BY <2>1, <1>3 DEF Here, Clean
  <2>4. ~Registering(c)'
    BY <1>3 DEF Registering
  <2> QED BY <2>1, <2>2, <2>3, <2>4 DEF Here
<1> QED BY <1>1, <1>2, <1>3, <1>4, OthersKeep DEF Lasts

\* The steps that only end a shim: what it has said stays, and is not missed.
LEMMA EndKeeps ==
  ASSUME BootInv, NEW c \in Connectors, daemon[c] = "up",
         shim' = [shim EXCEPT ![c] = "exited"],
         asked' \subseteq Connectors, \A d \in Connectors : d # c => (d \in asked' <=> d \in asked),
         UNCHANGED <<daemon, starts, pluginVars, stdout, registry>>
  PROVE  BootInv' /\ Frame(c) /\ Lasts(c)
<1> USE DEF pluginVars
<1>1. BootTypeOK'
  BY DEF BootInv, BootTypeOK
<1>2. Frame(c)
  BY DEF BootInv, BootTypeOK, Frame
<1>3. shim'[c] = "exited" /\ starts[c] \in Nat
  BY DEF BootInv, BootTypeOK
<1>4. Here(c)'
  <2>1. Here(c)
    BY EverywhereIsBootInv
  <2>2. Announced(c)' = Announced(c) /\ \A n, i : Backs(c, n, i)' <=> Backs(c, n, i)
    BY DEF Announced, Backs
  <2>3. Clean(c)' /\ ~Registering(c)'
    BY <2>1, <1>3 DEF Here, Clean, Registering
  <2> QED BY <2>1, <2>2, <2>3 DEF Here
<1>5. Lasts(c)
  BY <1>3 DEF Lasts, Gains, Backs
<1> QED BY <1>1, <1>2, <1>4, <1>5, OthersKeep

LEMMA StopKeeps ==
  ASSUME BootInv, NEW c \in Connectors, Stop(c)
  PROVE  BootInv' /\ Frame(c) /\ Lasts(c)
<1>1. CASE Obeys(c)
  <2>1. /\ daemon[c] = "up" /\ asked' = asked \cup {c}
        /\ shim' = [shim EXCEPT ![c] = "exited"]
        /\ UNCHANGED <<daemon, starts, pluginVars, stdout, registry>>
    BY <1>1 DEF Stop
  <2>2. asked' \subseteq Connectors /\ \A d \in Connectors : d # c => (d \in asked' <=> d \in asked)
    BY <2>1 DEF BootInv, BootTypeOK
  <2> QED BY <2>1, <2>2, EndKeeps
<1>2. CASE ~Obeys(c)
  <2> USE <1>2 DEF Stop, pluginVars
  <2>1. BootTypeOK' /\ Frame(c)
    BY DEF BootInv, BootTypeOK, Frame
  <2>2. Here(c)
    BY EverywhereIsBootInv
  <2>3. Here(c)'
    BY <2>2 DEF Here, Clean, Registering, Announced, OfferedByChannel, OfferedTools, Backs
  <2>4. Lasts(c)
    BY DEF Lasts, Gains, Backs, BootInv, BootTypeOK
  <2> QED BY <2>1, <2>3, <2>4, OthersKeep
<1> QED BY <1>1, <1>2

LEMMA KillOrCrashKeeps ==
  ASSUME BootInv, NEW c \in Connectors, ForceKill(c) \/ Crash(c) \/ LoadFails(c)
  PROVE  BootInv' /\ Frame(c) /\ Lasts(c)
<1>1. daemon[c] = "up"
  BY DEF ForceKill, Crash, LoadFails, BootInv, BootIsClean, BootTypeOK
<1>2. /\ shim' = [shim EXCEPT ![c] = "exited"]
      /\ UNCHANGED <<asked, daemon, starts, pluginVars, stdout, registry>>
  BY DEF ForceKill, Crash, LoadFails
<1>3. asked' \subseteq Connectors
  BY <1>2 DEF BootInv, BootTypeOK
<1> QED BY <1>1, <1>2, <1>3, EndKeeps

LEMMA DaemonExitsKeeps ==
  ASSUME BootInv, NEW c \in Connectors, DaemonExits(c)
  PROVE  BootInv' /\ Frame(c) /\ Lasts(c)
<1> USE DEF DaemonExits
<1>1. BootTypeOK'
  <2>1. <<>> \in UpTo(Tools, MaxTools) /\ <<>> \in Seq(Schemas) /\ <<>> \in Seq(Seq(Schemas))
    <3>1. <<>> \in [1..0 -> Tools] /\ 0 \in 0..MaxTools
      OBVIOUS
    <3>2. <<>> \in UpTo(Tools, MaxTools)
      BY <3>1 DEF UpTo
    <3> QED BY <3>2
  <2>2. /\ daemon' \in [Connectors -> {"down", "up"}] /\ starts' \in [Connectors -> Nat]
        /\ asked' \subseteq Connectors
        /\ shim' \in [Connectors -> {"none", "loading", "login", "waiting", "gateway", "exited"}]
        /\ channel' \in [Connectors -> (SUBSET Methods) \cup {NoChannel}]
        /\ early' \in [Connectors -> 0..MaxTools]
    <3> USE DEF BootInv, BootTypeOK
    <3>1. /\ daemon' \in [Connectors -> {"down", "up"}] /\ starts' \in [Connectors -> Nat]
          /\ asked' \subseteq Connectors
      OBVIOUS
    <3>2. shim' \in [Connectors -> {"none", "loading", "login", "waiting", "gateway", "exited"}]
      OBVIOUS
    <3>3. channel' \in [Connectors -> (SUBSET Methods) \cup {NoChannel}]
      <4> DEFINE S == (SUBSET Methods) \cup {NoChannel}
      <4>1. channel \in [Connectors -> S] /\ channel' = [channel EXCEPT ![c] = NoChannel]
        OBVIOUS
      <4>2. NoChannel \in S
        OBVIOUS
      <4> HIDE DEF S, BootInv, BootTypeOK, DaemonExits, NoChannel
      <4>3. channel' \in [Connectors -> S]
        BY <4>1, <4>2
      <4> QED BY <4>3 DEF S
    <3>4. early' \in [Connectors -> 0..MaxTools]
      OBVIOUS
    <3> QED BY <3>1, <3>2, <3>3, <3>4
  <2>3. /\ registered' \in [Connectors -> UpTo(Tools, MaxTools)]
        /\ stdout' \in [Connectors -> Seq(Seq(Schemas))]
        /\ registry' \in [Connectors -> Seq(Schemas)]
    BY <2>1 DEF BootInv, BootTypeOK
  <2> QED BY <2>2, <2>3 DEF BootTypeOK
<1>2. Frame(c)
  BY DEF BootInv, BootTypeOK, Frame
<1>3. /\ daemon'[c] = "down" /\ shim'[c] = "none" /\ c \notin asked'
      /\ channel'[c] = NoChannel /\ registered'[c] = <<>> /\ early'[c] = 0
      /\ stdout'[c] = <<>> /\ registry'[c] = <<>> /\ starts'[c] = starts[c] /\ starts[c] \in Nat
  BY DEF BootInv, BootTypeOK
<1>4. Here(c)'
  <2>1. Announced(c)' = {}
    BY <1>3 DEF Announced, Members, Said
  <2>2. Clean(c)' /\ ~Registering(c)'
    BY <1>3 DEF Clean, Registering
  <2> QED BY <2>1, <2>2 DEF Here
<1> QED BY <1>1, <1>2, <1>3, <1>4, OthersKeep DEF Lasts

LEMMA ReadDiscoveryKeeps ==
  ASSUME BootInv, NEW c \in Connectors, ReadDiscovery(c)
  PROVE  BootInv' /\ Frame(c) /\ Lasts(c)
<1> USE DEF pluginVars
<1> DEFINE said == stdout[c]
<1>1. /\ daemon[c] = "up" /\ said # <<>> /\ said \in Seq(Seq(Schemas))
      /\ registry[c] \in Seq(Schemas) /\ starts[c] \in Nat
      /\ registry' = [registry EXCEPT ![c] = @ \o Head(said)]
      /\ stdout' = [stdout EXCEPT ![c] = Tail(@)]
      /\ UNCHANGED <<daemon, starts, asked, shim, pluginVars>>
  BY DEF ReadDiscovery, BootInv, BootTypeOK
<1>2. /\ Head(said) \in Seq(Schemas) /\ Tail(said) \in Seq(Seq(Schemas))
      /\ Said(said) = Members(Head(said)) \cup Said(Tail(said))
  BY <1>1, SaidOfHead
<1>3. /\ registry[c] \o Head(said) \in Seq(Schemas)
      /\ Members(registry[c] \o Head(said)) = Members(registry[c]) \cup Members(Head(said))
  BY <1>1, <1>2, MembersOfConcat, ConcatProperties
<1>4. registry'[c] = registry[c] \o Head(said) /\ stdout'[c] = Tail(said)
  BY <1>1 DEF BootInv, BootTypeOK
<1> HIDE DEF said
<1>5. BootTypeOK'
  <2>1. registry' \in [Connectors -> Seq(Schemas)] /\ stdout' \in [Connectors -> Seq(Seq(Schemas))]
    BY <1>1, <1>2, <1>3 DEF BootInv, BootTypeOK, said
  <2> QED BY <1>1, <2>1 DEF BootInv, BootTypeOK
<1>6. Frame(c)
  BY <1>1 DEF BootInv, BootTypeOK, Frame
<1>7. Announced(c)' = Announced(c)
  <2>1. Announced(c)' = Members(registry'[c]) \cup Said(stdout'[c])
    BY DEF Announced, Said, Members
  <2>2. Announced(c) = Members(registry[c]) \cup Said(said)
    BY DEF Announced, said
  <2> QED BY <2>1, <2>2, <1>2, <1>3, <1>4
<1>8. /\ OfferedByChannel(c)' = OfferedByChannel(c) /\ OfferedTools(c)' = OfferedTools(c)
      /\ Registering(c)' <=> Registering(c)
      /\ \A n, i : Backs(c, n, i)' <=> Backs(c, n, i)
  BY <1>1 DEF OfferedByChannel, OfferedTools, Registering, Backs
<1>9. Here(c) /\ shim[c] \notin {"none", "loading"}
  BY EverywhereIsBootInv, <1>1 DEF Here, Clean, said
<1>10. Clean(c)'
  BY <1>1, <1>9 DEF Here, Clean
<1>11. Here(c)'
  BY <1>7, <1>8, <1>9, <1>10 DEF Here
<1>12. Lasts(c)
  BY <1>1, <1>8 DEF Lasts, Gains
<1> QED BY <1>5, <1>6, <1>11, <1>12, OthersKeep

\* What a plugin says first, with a channel or without.
LEMMA FirstWordsKeep ==
  ASSUME BootInv, NEW c \in Connectors, shim[c] = "loading",
         NEW ms \in (SUBSET Methods) \cup {NoChannel}, NEW ts \in UpTo(Tools, MaxTools),
         NEW lines \in Seq(Seq(Schemas)), NEW next \in {"waiting", "gateway", "login", "exited"},
         Said(lines) = {ChannelSchema(c, m) : m \in ms \cap Methods}
                       \cup {Schema(ts[i].name, Tool(i)) : i \in 1..Len(ts)},
         shim' = [shim EXCEPT ![c] = next],
         channel' = [channel EXCEPT ![c] = ms], registered' = [registered EXCEPT ![c] = ts],
         early' = [early EXCEPT ![c] = Len(ts)], stdout' = [stdout EXCEPT ![c] = lines],
         UNCHANGED <<daemon, starts, asked, registry>>
  PROVE  BootInv' /\ Frame(c) /\ Lasts(c)
<1>1. Len(ts) \in 0..MaxTools /\ Len(ts) \in Nat
  BY UpToIsSeq
<1>2. /\ shim'[c] = next /\ channel'[c] = ms /\ registered'[c] = ts
      /\ early'[c] = Len(ts) /\ stdout'[c] = lines
  BY DEF BootInv, BootTypeOK
<1>3. Here(c) /\ Clean(c) /\ daemon[c] = "up" /\ starts[c] \in Nat
  BY EverywhereIsBootInv DEF BootInv, BootTypeOK, BootIsClean, Here
<1>4. registry'[c] = <<>> /\ channel[c] = NoChannel /\ registered[c] = <<>>
  BY <1>3 DEF Clean
<1>5. BootTypeOK'
  <2>1. shim' \in [Connectors -> {"none", "loading", "login", "waiting", "gateway", "exited"}]
    BY DEF BootInv, BootTypeOK
  <2>2. channel' \in [Connectors -> (SUBSET Methods) \cup {NoChannel}]
    BY DEF BootInv, BootTypeOK
  <2>3. registered' \in [Connectors -> UpTo(Tools, MaxTools)] /\ early' \in [Connectors -> 0..MaxTools]
    BY <1>1 DEF BootInv, BootTypeOK
  <2>4. stdout' \in [Connectors -> Seq(Seq(Schemas))]
    BY DEF BootInv, BootTypeOK
  <2> QED BY <2>1, <2>2, <2>3, <2>4 DEF BootInv, BootTypeOK
<1>6. Frame(c)
  BY DEF BootInv, BootTypeOK, Frame
<1>7. Announced(c)' = {ChannelSchema(c, m) : m \in ms \cap Methods}
                      \cup {Schema(ts[i].name, Tool(i)) : i \in 1..Len(ts)}
  <2>1. Announced(c)' = Members(registry'[c]) \cup Said(stdout'[c])
    BY DEF Announced, Said, Members
  <2>2. Members(<<>>) = {}
    BY DEF Members
  <2> QED BY <2>1, <2>2, <1>2, <1>4
<1>8. /\ OfferedByChannel(c)' = {ChannelSchema(c, m) : m \in ms \cap Methods}
      /\ OfferedTools(c)' = {Schema(ts[i].name, Tool(i)) : i \in 1..Len(ts)}
  BY <1>2 DEF OfferedByChannel, OfferedTools, ChannelSchema, Schema
<1>9. \A x \in Announced(c)' : Backs(c, x.name, x.item)'
  <2>1. \A m \in ms \cap Methods : Backs(c, Name(c, m), Method(m))'
    BY <1>2 DEF Backs
  <2>2. \A i \in 1..Len(ts) : Backs(c, ts[i].name, Tool(i))'
    BY <1>2 DEF Backs
  <2> QED BY <1>7, <2>1, <2>2 DEF ChannelSchema, Schema
<1>10. Clean(c)'
  BY <1>1, <1>2, <1>3, <1>4 DEF Clean
<1>11. Here(c)'
  BY <1>7, <1>8, <1>9, <1>10 DEF Here
<1>12. Gains(c)
  BY <1>4 DEF Gains, Backs, NoChannel
<1> QED BY <1>3, <1>5, <1>6, <1>11, <1>12, OthersKeep DEF Lasts

LEMMA RegisterThrowsKeeps ==
  ASSUME BootInv, NEW c \in Connectors, RegisterThrows(c)
  PROVE  BootInv' /\ Frame(c) /\ Lasts(c)
<1>1. /\ shim[c] = "loading" /\ shim' = [shim EXCEPT ![c] = "exited"]
      /\ UNCHANGED <<daemon, starts, asked, registered, early, registry>>
  BY DEF RegisterThrows
<1>2. /\ daemon[c] = "up" /\ asked' \subseteq Connectors
      /\ registered[c] = <<>> /\ early[c] = 0
  BY <1>1 DEF BootInv, BootTypeOK, BootIsClean
<1>3. CASE UNCHANGED <<channel, stdout>>
  <2>1. UNCHANGED pluginVars
    BY <1>1, <1>3 DEF pluginVars
  <2>2. UNCHANGED <<daemon, starts, pluginVars, stdout, registry>>
    BY <2>1, <1>1, <1>3
  <2>3. \A d \in Connectors : d # c => (d \in asked' <=> d \in asked)
    BY <1>1
  <2> QED BY <2>2, <2>3, <1>1, <1>2, EndKeeps
<1>4. ASSUME NEW ms \in Channels[c], RegisterChannel(c, ms),
             stdout' = [stdout EXCEPT ![c] = Emit(ChannelSchemas(c, ms))]
      PROVE  BootInv' /\ Frame(c) /\ Lasts(c)
  <2>1. /\ ms \in SUBSET Methods /\ ms \cap Methods = ms
        /\ channel' = [channel EXCEPT ![c] = ms]
    BY <1>4 DEF RegisterChannel
  <2>2. /\ Emit(ChannelSchemas(c, ms)) \in Seq(Seq(Schemas))
        /\ Said(Emit(ChannelSchemas(c, ms))) = {ChannelSchema(c, m) : m \in ms}
    BY <2>1, ChannelLine, SaidOfEmit
  <2> DEFINE none == <<>>
  <2>3. none \in UpTo(Tools, MaxTools) /\ Len(none) = 0
    <3>1. <<>> \in [1..0 -> Tools] /\ 0 \in 0..MaxTools
      OBVIOUS
    <3> QED BY <3>1 DEF UpTo
  <2>4. /\ registered' = [registered EXCEPT ![c] = none]
        /\ early' = [early EXCEPT ![c] = Len(none)]
    BY <1>1, <1>2, <2>3 DEF BootInv, BootTypeOK
  <2>5. {Schema(none[i].name, Tool(i)) : i \in 1..Len(none)} = {}
    BY <2>3
  <2>6. Said(Emit(ChannelSchemas(c, ms))) = {ChannelSchema(c, m) : m \in ms \cap Methods}
                       \cup {Schema(none[i].name, Tool(i)) : i \in 1..Len(none)}
    BY <2>1, <2>2, <2>5
  <2> HIDE DEF none
  <2>7. UNCHANGED <<daemon, starts, asked, registry>> /\ "exited" \in {"waiting", "gateway", "login", "exited"}
    BY <1>1
  <2> QED BY <1>1, <1>4, <2>1, <2>2, <2>3, <2>4, <2>6, <2>7, FirstWordsKeep
<1> QED BY <1>3, <1>4 DEF RegisterThrows

LEMMA RegisterKeeps ==
  ASSUME BootInv, NEW c \in Connectors, Register(c)
  PROVE  BootInv' /\ Frame(c) /\ Lasts(c)
<1>1. PICK ts \in Offers[c] :
        /\ registered' = [registered EXCEPT ![c] = ts]
        /\ early' = [early EXCEPT ![c] = Len(ts)]
        /\ \/ /\ shim' = [shim EXCEPT ![c] = "waiting"]
              /\ stdout' = [stdout EXCEPT ![c] = Emit(ToolSchemas(ts))]
              /\ UNCHANGED channel
           \/ \E ms \in Channels[c] :
                /\ Accounts(c)
                /\ RegisterChannel(c, ms)
                /\ stdout' = [stdout EXCEPT ![c] = Emit(ChannelSchemas(c, ms))
                                                   \o Emit(ToolSchemas(ts))]
  BY DEF Register
<1>2. shim[c] = "loading" /\ UNCHANGED <<daemon, starts, asked, registry>>
  BY DEF Register
<1>3. /\ ts \in UpTo(Tools, MaxTools)
      /\ Emit(ToolSchemas(ts)) \in Seq(Seq(Schemas))
      /\ Said(Emit(ToolSchemas(ts))) = {Schema(ts[i].name, Tool(i)) : i \in 1..Len(ts)}
  BY <1>1, ToolLine, SaidOfEmit
<1>4. CASE /\ shim' = [shim EXCEPT ![c] = "waiting"]
           /\ stdout' = [stdout EXCEPT ![c] = Emit(ToolSchemas(ts))]
           /\ UNCHANGED channel
  <2>1. channel' = [channel EXCEPT ![c] = NoChannel]
    BY <1>2, <1>4 DEF BootInv, BootTypeOK, BootIsClean
  <2>2. NoChannel \cap Methods = {}
    BY DEF NoChannel
  <2>3. {ChannelSchema(c, m) : m \in NoChannel \cap Methods} = {}
    BY <2>2
  <2>4. Said(Emit(ToolSchemas(ts))) = {ChannelSchema(c, m) : m \in NoChannel \cap Methods}
                       \cup {Schema(ts[i].name, Tool(i)) : i \in 1..Len(ts)}
    BY <2>3, <1>3
  <2> QED BY <1>1, <1>2, <1>3, <1>4, <2>1, <2>4, FirstWordsKeep
<1>5. ASSUME NEW ms \in Channels[c], Accounts(c), RegisterChannel(c, ms),
             stdout' = [stdout EXCEPT ![c] = Emit(ChannelSchemas(c, ms)) \o Emit(ToolSchemas(ts))]
      PROVE  BootInv' /\ Frame(c) /\ Lasts(c)
  <2>1. PICK next \in {"gateway", "login", "exited"} : shim' = [shim EXCEPT ![c] = next]
    BY <1>5 DEF Accounts
  <2>2. /\ ms \in SUBSET Methods /\ ms \cap Methods = ms
        /\ channel' = [channel EXCEPT ![c] = ms]
    BY <1>5 DEF RegisterChannel
  <2>3. /\ Emit(ChannelSchemas(c, ms)) \in Seq(Seq(Schemas))
        /\ Said(Emit(ChannelSchemas(c, ms))) = {ChannelSchema(c, m) : m \in ms}
    BY <2>2, ChannelLine, SaidOfEmit
  <2> DEFINE lines == Emit(ChannelSchemas(c, ms)) \o Emit(ToolSchemas(ts))
  <2>4. /\ lines \in Seq(Seq(Schemas))
        /\ Said(lines) = {ChannelSchema(c, m) : m \in ms}
                         \cup {Schema(ts[i].name, Tool(i)) : i \in 1..Len(ts)}
    <3> DEFINE a == Emit(ChannelSchemas(c, ms))
               b == Emit(ToolSchemas(ts))
    <3>1. a \in Seq(Seq(Schemas)) /\ b \in Seq(Seq(Schemas))
      BY <1>3, <2>3
    <3>2. a \o b \in Seq(Seq(Schemas)) /\ Said(a \o b) = Said(a) \cup Said(b)
      <4> HIDE DEF a, b
      <4>1. Said(a \o b) = Said(a) \cup Said(b)
        BY <3>1, SaidOfConcat
      <4>2. a \o b \in Seq(Seq(Schemas))
        BY <3>1, ConcatProperties
      <4> QED BY <4>1, <4>2
    <3> QED BY <1>3, <2>3, <3>2
  <2> HIDE DEF lines
  <2>5. stdout' = [stdout EXCEPT ![c] = lines]
    BY <1>5 DEF lines
  <2> QED BY <1>1, <1>2, <1>3, <2>1, <2>2, <2>4, <2>5, FirstWordsKeep
<1> QED BY <1>1, <1>4, <1>5

LEMMA LoginEndsKeeps ==
  ASSUME BootInv, NEW c \in Connectors, LoginEnds(c)
  PROVE  BootInv' /\ Frame(c) /\ Lasts(c)
<1> USE DEF LoginEnds, pluginVars
<1>1. PICK next \in {"gateway", "exited"} : shim' = [shim EXCEPT ![c] = next]
  OBVIOUS
<1>2. BootTypeOK' /\ Frame(c)
  BY <1>1 DEF BootInv, BootTypeOK, Frame
<1>3. Here(c) /\ shim'[c] = next /\ starts[c] \in Nat
  BY <1>1, EverywhereIsBootInv DEF BootInv, BootTypeOK
<1>4. /\ Announced(c)' = Announced(c) /\ OfferedByChannel(c)' = OfferedByChannel(c)
      /\ OfferedTools(c)' = OfferedTools(c) /\ \A n, i : Backs(c, n, i)' <=> Backs(c, n, i)
  BY DEF Announced, OfferedByChannel, OfferedTools, Backs
<1>5. Clean(c)' /\ Registering(c)
  BY <1>3 DEF Here, Clean, Registering
<1>6. Here(c)'
  BY <1>3, <1>4, <1>5 DEF Here
<1>7. Lasts(c)
  BY <1>3, <1>4 DEF Lasts, Gains
<1> QED BY <1>2, <1>6, <1>7, OthersKeep

LEMMA LateChannelKeeps ==
  ASSUME BootInv, NEW c \in Connectors, LateChannel(c)
  PROVE  BootInv' /\ Frame(c) /\ Lasts(c)
<1>1. PICK ms \in Channels[c] :
        /\ channel' = [channel EXCEPT ![c] = ms]
        /\ stdout' = [stdout EXCEPT ![c] = @ \o Emit(ChannelSchemas(c, ms))]
  BY DEF LateChannel, RegisterChannel
<1>2. /\ Registering(c) /\ channel[c] = NoChannel
      /\ UNCHANGED <<daemon, starts, asked, shim, registered, early, registry>>
  BY DEF LateChannel
<1> DEFINE line == Emit(ChannelSchemas(c, ms))
<1>3. ms \in SUBSET Methods /\ ms \cap Methods = ms /\ NoChannel \cap Methods = {}
  BY DEF NoChannel
<1>4. line \in Seq(Seq(Schemas)) /\ Said(line) = {ChannelSchema(c, m) : m \in ms}
  BY <1>3, ChannelLine, SaidOfEmit
<1>5. stdout[c] \in Seq(Seq(Schemas)) /\ starts[c] \in Nat
  BY DEF BootInv, BootTypeOK
<1> HIDE DEF line
<1>6. Said(stdout[c] \o line) = Said(stdout[c]) \cup Said(line)
  BY <1>4, <1>5, SaidOfConcat
<1>7. stdout[c] \o line \in Seq(Seq(Schemas))
  BY <1>4, <1>5, ConcatProperties
<1>8. channel'[c] = ms /\ stdout'[c] = stdout[c] \o line /\ registry'[c] = registry[c]
  BY <1>1, <1>2 DEF BootInv, BootTypeOK, line
<1>9. BootTypeOK'
  <2>1. stdout' \in [Connectors -> Seq(Seq(Schemas))]
    BY <1>1, <1>7 DEF BootInv, BootTypeOK, line
  <2>2. channel' \in [Connectors -> (SUBSET Methods) \cup {NoChannel}]
    BY <1>1, <1>3 DEF BootInv, BootTypeOK
  <2> QED BY <1>2, <2>1, <2>2 DEF BootInv, BootTypeOK
<1>10. Frame(c)
  BY <1>1, <1>2 DEF BootInv, BootTypeOK, Frame
<1>11. Here(c)
  BY EverywhereIsBootInv
<1>12. Announced(c)' = Announced(c) \cup {ChannelSchema(c, m) : m \in ms}
  <2>1. Announced(c)' = Members(registry'[c]) \cup Said(stdout'[c])
    BY DEF Announced, Said, Members
  <2> QED BY <2>1, <1>4, <1>6, <1>8 DEF Announced
<1>13. /\ OfferedByChannel(c) = {} /\ OfferedTools(c)' = OfferedTools(c)
       /\ OfferedByChannel(c)' = {ChannelSchema(c, m) : m \in ms}
  BY <1>2, <1>3, <1>8 DEF OfferedByChannel, OfferedTools, ChannelSchema, Schema
<1>14. Gains(c)
  BY <1>2, <1>3 DEF Gains, Backs
<1>15. \A x \in Announced(c)' : Backs(c, x.name, x.item)'
  <2>1. \A m \in ms : Backs(c, Name(c, m), Method(m))'
    BY <1>3, <1>8 DEF Backs
  <2>2. \A m \in ms : LET x == ChannelSchema(c, m) IN x.name = Name(c, m) /\ x.item = Method(m)
    BY DEF ChannelSchema, Schema
  <2>3. \A x \in Announced(c) : Backs(c, x.name, x.item)'
    BY <1>11, <1>14 DEF Here, Gains
  <2> QED BY <2>1, <2>2, <2>3, <1>12
<1>16. Clean(c)'
  BY <1>2, <1>11 DEF Here, Clean, Registering
<1>17. Here(c)'
  <2>1. Announced(c)' = OfferedByChannel(c)' \cup OfferedTools(c)'
    BY <1>2, <1>11, <1>12, <1>13 DEF Here
  <2> QED BY <2>1, <1>15, <1>16 DEF Here
<1>18. Lasts(c)
  BY <1>2, <1>5, <1>14 DEF Lasts
<1> QED BY <1>9, <1>10, <1>17, <1>18, OthersKeep

LEMMA LateToolKeeps ==
  ASSUME BootInv, NEW c \in Connectors, LateTool(c)
  PROVE  BootInv' /\ Frame(c) /\ Lasts(c)
<1>1. PICK t \in Afterthoughts[c] : registered' = [registered EXCEPT ![c] = Append(@, t)]
  BY DEF LateTool
<1>2. /\ Registering(c) /\ Len(registered[c]) < MaxTools
      /\ UNCHANGED <<daemon, starts, asked, shim, channel, early, stdout, registry>>
  BY DEF LateTool
<1> DEFINE ts == registered[c]
<1>3. /\ ts \in UpTo(Tools, MaxTools) /\ early[c] \in 0..MaxTools /\ starts[c] \in Nat
      /\ registered'[c] = Append(ts, t) /\ t \in Tools
  BY <1>1 DEF BootInv, BootTypeOK
<1>4. Here(c) /\ early[c] <= Len(ts)
  BY EverywhereIsBootInv DEF Here, Clean
<1> HIDE DEF ts
<1>5. /\ Append(ts, t) \in UpTo(Tools, MaxTools) /\ Len(Append(ts, t)) = Len(ts) + 1
      /\ \A i \in 1..Len(ts) : Append(ts, t)[i] = ts[i]
  BY <1>2, <1>3, AppendUpTo DEF ts
<1>6. Len(ts) \in Nat
  BY <1>3, UpToIsSeq
<1>7. BootTypeOK'
  <2>1. registered' \in [Connectors -> UpTo(Tools, MaxTools)]
    BY <1>1, <1>5 DEF BootInv, BootTypeOK, ts
  <2> QED BY <1>2, <2>1 DEF BootInv, BootTypeOK
<1>8. Frame(c)
  BY <1>1, <1>2 DEF BootInv, BootTypeOK, Frame
<1>9. Announced(c)' = Announced(c) /\ OfferedByChannel(c)' = OfferedByChannel(c)
  BY <1>2 DEF Announced, OfferedByChannel
<1>10. OfferedTools(c)' = OfferedTools(c)
  <2>1. \A i \in 1..early[c] : registered'[c][i] = ts[i]
    BY <1>3, <1>4, <1>5, <1>6
  <2> QED BY <1>2, <2>1 DEF OfferedTools, ts
<1>11. Gains(c)
  <2>1. \A j \in 1..Len(ts) : j \in 1..Len(registered'[c]) /\ registered'[c][j] = ts[j]
    BY <1>3, <1>5, <1>6
  <2> QED BY <1>2, <2>1 DEF Gains, Backs, ts
<1>12. Clean(c)'
  BY <1>2, <1>3, <1>4, <1>5, <1>6 DEF Here, Clean, Registering
<1>13. Here(c)'
  BY <1>2, <1>4, <1>9, <1>10, <1>11, <1>12 DEF Here, Registering, Gains
<1> QED BY <1>2, <1>3, <1>7, <1>8, <1>11, <1>13, OthersKeep DEF Lasts

\* Whatever happens to a connector, or a user or a tool does to it.
Moves(c) == BootStep(c) \/ Start(c) \/ Stop(c)

LEMMA MoveKeeps ==
  ASSUME BootInv, NEW c \in Connectors, Moves(c)
  PROVE  BootInv' /\ Frame(c) /\ Lasts(c)
BY StartKeeps, StopKeeps, KillOrCrashKeeps, DaemonExitsKeeps, ReadDiscoveryKeeps,
   RegisterThrowsKeeps, RegisterKeeps, LoginEndsKeeps, LateChannelKeeps, LateToolKeeps
   DEF Moves, BootStep, Main

-----------------------------------------------------------------------------
(* What the server has listed                                              *)

ServerTypeOK ==
  /\ server \in {"off", "listing", "serving", "failed"}
  /\ admitted \subseteq Plugins /\ todo \subseteq Connectors /\ query \in Nat
  /\ \A n \in DOMAIN table : table[n] \in Entries
  /\ call \in [Calls -> {NoCall, Failed} \cup [at : {"sent"}, entry : Entries, start : Nat]
                          \cup [at : {"done"}, ran : Items \cup {Unknown}]]

ServerInv ==
  /\ ServerTypeOK
  /\ FilterHolds /\ todo \subseteq admitted /\ (server = "off" => admitted = {})
  /\ ListedIsBacked

LEMMA IInvParts == IInv <=> BootInv /\ ServerInv
BY DEF IInv, BootInv, TypeOK, ServerInv, ServerTypeOK

\* What was listed of a connector is still so after a step of any.
Kept == \A e \in Entries : EntryIsBacked(e) => EntryIsBacked(e)'

LEMMA MovesKeepEntries ==
  ASSUME BootInv, BootInv', NEW c \in Connectors, Frame(c), Lasts(c)
  PROVE  Kept
<1> SUFFICES ASSUME NEW e \in Entries, EntryIsBacked(e)
             PROVE  EntryIsBacked(e)'
  BY DEF Kept
<1> SUFFICES ASSUME Dynamic(e)
             PROVE  /\ e.plugin \in Connectors /\ e.from = e.plugin
                    /\ e.start <= starts'[e.plugin]
                    /\ daemon'[e.plugin] = "up" /\ e.start = starts'[e.plugin] =>
                         Backs(e.plugin, e.tool, e.item)'
  BY DEF EntryIsBacked, Dynamic
<1>1. /\ e.plugin \in Connectors /\ e.from = e.plugin
      /\ e.start <= starts[e.plugin]
      /\ daemon[e.plugin] = "up" /\ e.start = starts[e.plugin] =>
           Backs(e.plugin, e.tool, e.item)
  BY DEF EntryIsBacked
<1>2. CASE e.plugin # c
  <2>1. /\ daemon'[e.plugin] = daemon[e.plugin] /\ starts'[e.plugin] = starts[e.plugin]
        /\ channel'[e.plugin] = channel[e.plugin] /\ registered'[e.plugin] = registered[e.plugin]
    BY <1>1, <1>2 DEF Frame
  <2>2. Backs(e.plugin, e.tool, e.item)' <=> Backs(e.plugin, e.tool, e.item)
    BY <2>1 DEF Backs
  <2> QED BY <1>1, <2>1, <2>2
<1>3. CASE e.plugin = c
  <2>1. /\ starts[c] \in Nat /\ starts'[c] \in Nat /\ starts[c] <= starts'[c]
        /\ e.start \in Nat
    BY DEF BootInv, BootTypeOK, Lasts, Entries
  <2>2. e.start <= starts'[c] /\ (e.start = starts'[c] => starts'[c] = starts[c])
    BY <1>1, <1>3, <2>1
  <2> QED BY <1>1, <1>3, <2>2 DEF Lasts, Gains
<1> QED BY <1>2, <1>3

LEMMA StillBootInv ==
  ASSUME BootInv, UNCHANGED bootVars
  PROVE  BootInv'
<1> USE DEF bootVars, pluginVars
<1>1. BootTypeOK'
  BY DEF BootInv, BootTypeOK
<1>2. ASSUME NEW c \in Connectors
      PROVE  Here(c)'
  <2>1. /\ Announced(c)' = Announced(c) /\ OfferedByChannel(c)' = OfferedByChannel(c)
        /\ OfferedTools(c)' = OfferedTools(c)
        /\ Registering(c)' <=> Registering(c)
    BY DEF Announced, OfferedByChannel, OfferedTools, Registering
  <2>2. \A n, i : Backs(c, n, i)' <=> Backs(c, n, i)
    BY DEF Backs
  <2>3. Here(c)
    BY EverywhereIsBootInv
  <2>4. Clean(c)'
    BY <2>3 DEF Here, Clean
  <2> HIDE DEF bootVars, pluginVars
  <2>5. \A x \in Announced(c)' : Backs(c, x.name, x.item)'
    BY <2>1, <2>2, <2>3 DEF Here
  <2>6. Registering(c)' => Announced(c)' = OfferedByChannel(c)' \cup OfferedTools(c)'
    BY <2>1, <2>3 DEF Here
  <2> QED BY <2>4, <2>5, <2>6 DEF Here
<1>3. \A c \in Connectors : Here(c)'
  BY <1>2
<1> QED BY <1>1, <1>3 DEF BootInv, BootIsClean, RegistryIsWhole, AnnouncedIsBacked, Here, Clean

LEMMA StillKeepsEntries ==
  ASSUME UNCHANGED bootVars
  PROVE  Kept
BY DEF Kept, EntryIsBacked, Dynamic, Backs, bootVars, pluginVars

\* A step of the server or of a call preserves ServerInv if what it adds to the
\* table and to the calls is backed.
LEMMA ServerInvFrom ==
  ASSUME ServerInv, Kept, ServerTypeOK', FilterHolds', todo' \subseteq admitted',
         server' = "off" => admitted' = {},
         \A n \in DOMAIN table' :
           \/ n \in DOMAIN table /\ table'[n] = table[n]
           \/ EntryIsBacked(table[n])',
         \A k \in Calls : call'[k].at = "sent" =>
           \/ call[k].at = "sent" /\ call'[k].entry = call[k].entry
           \/ Dynamic(call[k].entry)' /\ EntryIsBacked(call[k].entry)'
  PROVE  ServerInv'
<1>1. ASSUME NEW n \in DOMAIN table'
      PROVE  EntryIsBacked(table[n])'
  <2>1. CASE n \in DOMAIN table /\ table'[n] = table[n]
    <3>1. table[n] \in Entries /\ EntryIsBacked(table[n])
      BY <2>1 DEF ServerInv, ServerTypeOK, ListedIsBacked
    <3>2. \A x : x \in Entries /\ EntryIsBacked(x) => EntryIsBacked(x)'
      BY DEF Kept
    <3>3. EntryIsBacked(table[n]) => \A x : x = table[n] => EntryIsBacked(x)
      BY Zenon
    <3>4. \A x : x = table'[n] => EntryIsBacked(x)'
      BY <2>1, <3>1, <3>2, <3>3
    <3>5. (\A x : x = table'[n] => EntryIsBacked(x)') => EntryIsBacked(table[n])'
      BY Zenon DEF EntryIsBacked, Dynamic, Backs
    <3> QED BY <3>4, <3>5
  <2> QED BY <1>1, <2>1
<1>2. ASSUME NEW k \in Calls, call'[k].at = "sent"
      PROVE  Dynamic(call[k].entry)' /\ EntryIsBacked(call[k].entry)'
  <2>1. CASE call[k].at = "sent" /\ call'[k].entry = call[k].entry
    <3>1. /\ call[k].entry \in Entries
          /\ Dynamic(call[k].entry) /\ EntryIsBacked(call[k].entry)
      BY <2>1 DEF ServerInv, ServerTypeOK, ListedIsBacked, NoCall, Failed
    <3>2. \A x : x \in Entries /\ EntryIsBacked(x) => EntryIsBacked(x)'
      BY DEF Kept
    <3>3. EntryIsBacked(call[k].entry) => \A x : x = call[k].entry => EntryIsBacked(x)
      BY Zenon
    <3>4. \A x : x = call'[k].entry => EntryIsBacked(x)'
      BY <2>1, <3>1, <3>2, <3>3
    <3>5. (\A x : x = call'[k].entry => EntryIsBacked(x)') => EntryIsBacked(call[k].entry)'
      BY Zenon DEF EntryIsBacked, Dynamic, Backs
    <3> QED BY <2>1, <3>1, <3>4, <3>5 DEF Dynamic
  <2> QED BY <1>2, <2>1
<1>3. ListedIsBacked'
  BY <1>1, <1>2 DEF ListedIsBacked
<1> QED BY <1>3 DEF ServerInv

LEMMA LeastExists ==
  ASSUME NEW S \in SUBSET Nat, S # {}
  PROVE  First(S) \in S
<1>1. PICK x \in S : \A y \in S : ~ (<<y, x>> \in OpToRel(<, Nat))
  BY WFMin, NatLessThanWellFounded
<1>2. \A y \in S : x <= y
  <2>1. ASSUME NEW y \in S, y < x PROVE <<y, x>> \in OpToRel(<, Nat)
    BY <2>1 DEF OpToRel
  <2>2. \A y \in S : ~ (y < x)
    BY Zenon, <1>1, <2>1
  <2> QED BY <2>2
<1> QED BY <1>2 DEF First

LEMMA WhatRuns ==
  ASSUME BootInv, NEW c \in Connectors, NEW n
  PROVE  Runs(c, n) \in Items \cup {Unknown}
<1>1. CASE HasMethod(c, n)
  <2>1. Ends(n) \in Methods
    BY <1>1 DEF HasMethod, BootInv, BootTypeOK
  <2> QED BY <1>1, <2>1 DEF Runs, Items
<1>2. CASE ~HasMethod(c, n) /\ Named(c, n) # {}
  <2>1. Len(registered[c]) \in 0..MaxTools
    BY UpToIsSeq DEF BootInv, BootTypeOK
  <2>2. Named(c, n) \in SUBSET Nat /\ \A i \in Named(c, n) : i \in 1..MaxTools
    BY <2>1 DEF Named
  <2>3. First(Named(c, n)) \in 1..MaxTools
    BY <1>2, <2>2, LeastExists
  <2>4. Tool(First(Named(c, n))) \in Items
    BY <2>3 DEF Items
  <2> QED BY <1>2, <2>4 DEF Runs
<1>3. CASE ~HasMethod(c, n) /\ Named(c, n) = {}
  BY <1>3 DEF Runs
<1> QED BY <1>1, <1>2, <1>3

LEMMA CallForms ==
  ASSUME ServerInv, NEW k \in Calls, call[k].at = "sent"
  PROVE  /\ call[k].entry \in Entries /\ call[k].start \in Nat
         /\ Dynamic(call[k].entry) /\ EntryIsBacked(call[k].entry)
BY DEF ServerInv, ServerTypeOK, ListedIsBacked, NoCall, Failed

-----------------------------------------------------------------------------
(* The steps of ToolServer                                                 *)

LEMMA ServeKeeps ==
  ASSUME BootInv, ServerInv, Serve
  PROVE  ServerInv'
<1>1. PICK loaded, names \in SUBSET Plugins :
        LET ps == Filtered(loaded, names) IN
        /\ admitted' = ps /\ table' = StaticTable(ps) /\ todo' = ps \cap Connectors
  BY DEF Serve
<1> DEFINE ps == Filtered(loaded, names)
<1>2. ps \subseteq Plugins
  BY DEF Filtered
<1>3. admitted' = ps /\ table' = StaticTable(ps) /\ todo' = ps \cap Connectors
  BY <1>1
<1> HIDE DEF ps
<1>4. server = "off" /\ server' = "listing" /\ UNCHANGED <<bootVars, query, call>>
  BY DEF Serve
<1>5. ASSUME NEW n \in DOMAIN table'
      PROVE  \E p \in ps : table'[n] = StaticEntry(p)
  <2>1. n \in {StaticName[p] : p \in LastNamed(ps)}
    BY <1>3, <1>5 DEF StaticTable
  <2>2. (CHOOSE p \in LastNamed(ps) : StaticName[p] = n) \in LastNamed(ps)
    BY <2>1
  <2>3. table'[n] = StaticEntry(CHOOSE p \in LastNamed(ps) : StaticName[p] = n)
    BY <1>3, <2>1 DEF StaticTable
  <2> QED BY <2>2, <2>3 DEF LastNamed
<1>6. \A p \in ps : StaticEntry(p) \in Entries /\ ~Dynamic(StaticEntry(p))
  BY <1>2 DEF StaticEntry, Entry, Entries, Dynamic
<1>7. ServerTypeOK'
  BY <1>2, <1>3, <1>4, <1>5, <1>6 DEF ServerInv, ServerTypeOK
<1>8. \A k \in Calls : call[k].at # "sent"
  BY <1>4 DEF ServerInv, FilterHolds
<1>9. FilterHolds'
  BY <1>3, <1>4, <1>5, <1>8 DEF FilterHolds, StaticEntry, Entry
<1>10. \A n \in DOMAIN table' : EntryIsBacked(table[n])'
  BY <1>5, <1>6 DEF EntryIsBacked, Dynamic
<1>11. Kept
  BY <1>4, StillKeepsEntries
<1> QED BY <1>3, <1>4, <1>7, <1>8, <1>9, <1>10, <1>11, ServerInvFrom

\* The registry of a daemon that answers holds what its plugin has.
LEMMA AnsweredKeeps ==
  ASSUME BootInv, ServerInv, NEW c \in Connectors, Answered(c)
  PROVE  ServerInv'
<1> DEFINE s == registry[c]
           new == DynamicTable(c, s)
<1>1. /\ server = "listing" /\ c \in todo /\ starts[c] = query
      /\ table' = Over(new, table) /\ todo' = todo \ {c} /\ query' = 0
      /\ UNCHANGED <<bootVars, server, admitted, call>>
  BY DEF Answered, Turn, Proceed
<1>2. /\ s \in Seq(Schemas) /\ query \in Nat
      /\ \A i \in 1..Len(s) : s[i] \in Schemas /\ s[i] \in Announced(c)
  BY DEF BootInv, BootTypeOK, ServerInv, ServerTypeOK, Announced, Members
<1>3. \A i \in 1..Len(s) : Backs(c, s[i].name, s[i].item)
  BY <1>2 DEF BootInv, AnnouncedIsBacked
<1>4. ASSUME NEW n \in DOMAIN new
      PROVE  /\ new[n] = Entry(c, n, c, ItemIn(s, n), query)
             /\ n \in Names /\ ItemIn(s, n) \in Items /\ Backs(c, n, ItemIn(s, n))
  <2>1. n \in NamesIn(s) /\ new[n] = Entry(c, n, c, ItemIn(s, n), query)
    BY <1>4 DEF DynamicTable
  <2>2. PICK i \in LastIn(s) : s[i].name = n
    BY <2>1 DEF NamesIn
  <2> DEFINE j == CHOOSE i_1 \in LastIn(s) : s[i_1].name = n
  <2>3. j \in LastIn(s) /\ s[j].name = n
    BY <2>2
  <2>4. ItemIn(s, n) = s[j].item
    BY DEF ItemIn
  <2> HIDE DEF j
  <2>5. j \in 1..Len(s)
    BY <2>3 DEF LastIn
  <2>6. s[j] \in Schemas
    BY <1>2, <2>5
  <2> QED BY <1>3, <2>1, <2>3, <2>4, <2>5, <2>6 DEF Schemas
<1> HIDE DEF new, s
<1>5. ASSUME NEW n \in DOMAIN table'
      PROVE  \/ n \in DOMAIN table /\ table'[n] = table[n]
             \/ n \in DOMAIN new /\ table'[n] = new[n]
  BY <1>1, <1>5 DEF Over
<1>6. ASSUME NEW n \in DOMAIN new
      PROVE  new[n] \in Entries /\ new[n].plugin = c /\ new[n].from = c
  <2>1. c \in Plugins
    OBVIOUS
  <2> QED BY <1>2, <1>4, <1>6, <2>1 DEF Entry, Entries
<1>7. ServerTypeOK'
  <2>1. \A n \in DOMAIN table' : table'[n] \in Entries
    BY <1>5, <1>6 DEF ServerInv, ServerTypeOK
  <2> QED BY <1>1, <2>1 DEF ServerInv, ServerTypeOK
<1>8. FilterHolds' /\ todo' \subseteq admitted'
  BY <1>1, <1>5, <1>6 DEF ServerInv, FilterHolds
<1>9. ASSUME NEW n \in DOMAIN new, table'[n] = new[n]
      PROVE  EntryIsBacked(table[n])'
  <2> DEFINE e == Entry(c, n, c, ItemIn(s, n), query)
  <2>1. table'[n] = e
    BY <1>4, <1>9
  <2>2. Dynamic(e) => /\ e.plugin \in Connectors /\ e.from = e.plugin
                      /\ e.start <= starts[e.plugin]
                      /\ Backs(e.plugin, e.tool, e.item)
    BY <1>1, <1>2, <1>4, <1>9 DEF Entry
  <2> HIDE DEF e
  <2>3. \A p, m, i : Backs(p, m, i) => Backs(p, m, i)'
    BY <1>1 DEF Backs, bootVars, pluginVars
  <2>4. \A x : x = e => EntryIsBacked(x)'
    BY <1>1, <2>2, <2>3 DEF EntryIsBacked, Dynamic, bootVars
  <2>5. (\A x : x = table'[n] => EntryIsBacked(x)') => EntryIsBacked(table[n])'
    BY Zenon DEF EntryIsBacked, Dynamic, Backs
  <2> QED BY <2>1, <2>4, <2>5
<1>10. Kept
  BY <1>1, StillKeepsEntries
<1>11. server' # "off"
  BY <1>1
<1>12. \A n \in DOMAIN table' :
          \/ n \in DOMAIN table /\ table'[n] = table[n]
          \/ EntryIsBacked(table[n])'
  BY <1>5, <1>9
<1>13. UNCHANGED call
  BY <1>1
<1> QED BY <1>7, <1>8, <1>10, <1>11, <1>12, <1>13, ServerInvFrom

\* The other steps of the server change neither the table nor a call.
LEMMA QuietServerKeeps ==
  ASSUME BootInv, ServerInv,
         \/ NothingToServe \/ Listed
         \/ \E c \in Connectors : Ask(c) \/ AskTimesOut(c)
  PROVE  ServerInv'
<1>1. /\ UNCHANGED <<bootVars, admitted, table, call>> /\ todo' \subseteq todo
      /\ server' \in {"off", "listing", "serving", "failed"}
      /\ server' = "off" => server = "off"
      /\ query' \in Nat
  <2>1. CASE NothingToServe \/ Listed
    BY <2>1 DEF NothingToServe, Listed, ServerInv, ServerTypeOK
  <2>2. ASSUME NEW c \in Connectors, Ask(c) \/ AskTimesOut(c)
        PROVE  /\ UNCHANGED <<bootVars, server, admitted, table, call>>
               /\ todo' \subseteq todo /\ query' \in Nat
    BY <2>2 DEF Ask, AskTimesOut, Proceed, BootInv, BootTypeOK, ServerInv, ServerTypeOK
  <2>3. server \in {"off", "listing", "serving", "failed"}
    BY DEF ServerInv, ServerTypeOK
  <2> QED BY <2>1, <2>2, <2>3
<1>2. ServerTypeOK' /\ FilterHolds' /\ todo' \subseteq admitted'
  BY <1>1 DEF ServerInv, ServerTypeOK, FilterHolds
<1>3. Kept
  BY <1>1, StillKeepsEntries
<1>4. server' = "off" => admitted' = {}
  BY <1>1 DEF ServerInv
<1> QED BY <1>1, <1>2, <1>3, <1>4, ServerInvFrom

\* So does what happens to a connector.
LEMMA ServerStays ==
  ASSUME ServerInv, Kept, UNCHANGED <<serverVars, call>>
  PROVE  ServerInv'
<1>1. UNCHANGED <<server, admitted, todo, query, table, call>>
  BY DEF serverVars
<1>2. ServerTypeOK' /\ FilterHolds' /\ todo' \subseteq admitted' /\ (server' = "off" => admitted' = {})
  BY <1>1 DEF ServerInv, ServerTypeOK, FilterHolds
<1> QED BY <1>1, <1>2, ServerInvFrom

\* A call that is over, or that sets out for a tool of the table.
LEMMA CallSettles ==
  ASSUME ServerInv, Kept, UNCHANGED serverVars, NEW k \in Calls,
         NEW end \in {Failed} \cup [at : {"done"}, ran : Items \cup {Unknown}],
         Settle(k, end)
  PROVE  ServerInv'
<1>1. /\ UNCHANGED <<server, admitted, todo, query, table>>
      /\ call' = [call EXCEPT ![k] = end] /\ end.at # "sent"
  BY DEF serverVars, Settle, Failed
<1>2. /\ call'[k] = end
      /\ \A j \in Calls : j # k => call'[j] = call[j]
  BY <1>1 DEF ServerInv, ServerTypeOK
<1>3. ServerTypeOK'
  BY <1>1 DEF ServerInv, ServerTypeOK
<1>4. FilterHolds' /\ todo' \subseteq admitted' /\ (server' = "off" => admitted' = {})
  BY <1>1, <1>2 DEF ServerInv, FilterHolds
<1>5. \A j \in Calls : call'[j].at = "sent" => call[j].at = "sent" /\ call'[j].entry = call[j].entry
  BY <1>1, <1>2
<1> QED BY <1>1, <1>3, <1>4, <1>5, ServerInvFrom

LEMMA CallSetsOut ==
  ASSUME BootInv, ServerInv, UNCHANGED bootVars, UNCHANGED serverVars,
         NEW k \in Calls, NEW n \in DOMAIN table, CallDynamic(k, table[n])
  PROVE  ServerInv'
<1> DEFINE e == table[n]
<1>1. e \in Entries /\ EntryIsBacked(e) /\ e.plugin \in admitted
  BY DEF ServerInv, ServerTypeOK, ListedIsBacked, FilterHolds
<1>2. Dynamic(e) /\ call' = [call EXCEPT ![k] = Sent(e)]
  BY DEF CallDynamic
<1>3. e.plugin \in Connectors
  BY <1>1, <1>2 DEF EntryIsBacked
<1> HIDE DEF e
<1>4. Sent(e) \in [at : {"sent"}, entry : Entries, start : Nat] /\ Sent(e).entry = e
  BY <1>1, <1>3 DEF Sent, BootInv, BootTypeOK
<1>5. UNCHANGED <<server, admitted, todo, query, table>>
  BY DEF serverVars
<1>6. /\ call'[k] = Sent(e)
      /\ \A j \in Calls : j # k => call'[j] = call[j]
  BY <1>2 DEF ServerInv, ServerTypeOK
<1>7. ServerTypeOK'
  BY <1>2, <1>4, <1>5 DEF ServerInv, ServerTypeOK
<1>8. FilterHolds' /\ todo' \subseteq admitted' /\ (server' = "off" => admitted' = {})
  BY <1>1, <1>4, <1>5, <1>6 DEF ServerInv, FilterHolds
<1>9. Kept
  BY StillKeepsEntries
<1>10. Dynamic(call[k].entry)' /\ EntryIsBacked(call[k].entry)'
  <2>1. \A x : x \in Entries /\ EntryIsBacked(x) => EntryIsBacked(x)'
    BY <1>9 DEF Kept
  <2>2. \A x : x = e => EntryIsBacked(x)'
    BY <1>1, <2>1
  <2>3. \A x : x = call'[k].entry => EntryIsBacked(x)'
    BY <1>4, <1>6, <2>2
  <2>4. (\A x : x = call'[k].entry => EntryIsBacked(x)') => EntryIsBacked(call[k].entry)'
    BY Zenon DEF EntryIsBacked, Dynamic, Backs
  <2>5. Dynamic(call[k].entry)'
    BY <1>2, <1>4, <1>6 DEF Dynamic
  <2> QED BY <2>3, <2>4, <2>5
<1>11. \A j \in Calls : call'[j].at = "sent" =>
          \/ call[j].at = "sent" /\ call'[j].entry = call[j].entry
          \/ Dynamic(call[j].entry)' /\ EntryIsBacked(call[j].entry)'
  <2> SUFFICES ASSUME NEW j \in Calls, call'[j].at = "sent", j # k
               PROVE  call[j].at = "sent" /\ call'[j].entry = call[j].entry
    BY <1>10
  <2> QED BY <1>6
<1>12. \A m \in DOMAIN table' : m \in DOMAIN table /\ table'[m] = table[m]
  BY <1>5
<1> QED BY <1>7, <1>8, <1>9, <1>11, <1>12, ServerInvFrom

LEMMA ClientKeeps ==
  ASSUME BootInv, ServerInv, NEW k \in Calls, Client(k)
  PROVE  BootInv' /\ ServerInv'
<1>1. UNCHANGED serverVars
  BY DEF Client, CallTool, Arrives, CallFails
<1>2. Ran(Unknown) \in [at : {"done"}, ran : Items \cup {Unknown}]
  BY DEF Ran
<1>3. UNCHANGED bootVars => BootInv' /\ Kept
  BY StillKeepsEntries, StillBootInv
<1>4. ASSUME NEW n \in DOMAIN table, CallSkill(k, table[n]) PROVE BootInv' /\ ServerInv'
  BY <1>1, <1>2, <1>3, <1>4, CallSettles DEF CallSkill
<1>5. ASSUME NEW n \in DOMAIN table, CallConnector(k, table[n]) PROVE BootInv' /\ ServerInv'
  <2> DEFINE c == table[n].plugin
  <2>1. c \in Connectors /\ Settle(k, Ran(Unknown))
    BY <1>5 DEF CallConnector
  <2>2. (Start(c) \/ Stop(c)) \/ UNCHANGED bootVars
    BY <1>5 DEF CallConnector
  <2> HIDE DEF c
  <2>3. BootInv' /\ Kept
    <3>1. CASE Start(c) \/ Stop(c)
      <4>1. Moves(c)
        BY <3>1 DEF Moves
      <4>2. BootInv' /\ Frame(c) /\ Lasts(c)
        BY <2>1, <4>1, MoveKeeps
      <4> QED BY <2>1, <4>2, MovesKeepEntries
    <3> QED BY <1>3, <2>2, <3>1
  <2> QED BY <1>1, <1>2, <2>1, <2>3, CallSettles
<1>6. ASSUME NEW n \in DOMAIN table, CallDynamic(k, table[n]) PROVE BootInv' /\ ServerInv'
  <2>1. UNCHANGED bootVars
    BY <1>6 DEF CallDynamic
  <2> QED BY <1>1, <1>3, <1>6, <2>1, CallSetsOut
<1>7. CASE Arrives(k)
  <2> DEFINE c == call[k].entry.plugin
             what == Runs(c, call[k].entry.tool)
  <2>1. call[k].at = "sent" /\ UNCHANGED bootVars /\ Settle(k, Ran(what))
    BY <1>7 DEF Arrives
  <2>2. c \in Connectors
    BY <2>1, CallForms DEF EntryIsBacked
  <2>3. what \in Items \cup {Unknown}
    BY <2>2, WhatRuns
  <2> HIDE DEF what
  <2>4. Ran(what) \in [at : {"done"}, ran : Items \cup {Unknown}]
    BY <2>3 DEF Ran
  <2> QED BY <1>1, <1>3, <2>1, <2>4, CallSettles
<1>8. CASE CallFails(k)
  BY <1>1, <1>3, <1>8, CallSettles DEF CallFails
<1> QED BY <1>4, <1>5, <1>6, <1>7, <1>8 DEF Client, CallTool

-----------------------------------------------------------------------------
(* Theorems                                                                *)

LEMMA InitIsGood == Init => IInv
<1> SUFFICES ASSUME Init
             PROVE  BootInv /\ ServerInv
  BY IInvParts
<1> USE DEF Init, BootInit
<1>1. <<>> \in UpTo(Tools, MaxTools)
  <2>1. <<>> \in [1..0 -> Tools] /\ 0 \in 0..MaxTools
    OBVIOUS
  <2> QED BY <2>1 DEF UpTo
<1>2. NoChannel \in (SUBSET Methods) \cup {NoChannel}
  OBVIOUS
<1>3. BootTypeOK
  BY <1>1, <1>2 DEF BootTypeOK
<1>4. ASSUME NEW c \in Connectors
      PROVE  Here(c)
  <2>1. Announced(c) = {}
    BY DEF Announced, Said, Members
  <2>2. Clean(c) /\ ~Registering(c)
    BY DEF Clean, Registering
  <2> QED BY <2>1, <2>2 DEF Here
<1>5. BootInv
  BY <1>3, <1>4, EverywhereIsBootInv
<1>6. DOMAIN table = {}
  OBVIOUS
<1>7. ServerInv
  BY <1>6 DEF ServerInv, ServerTypeOK, FilterHolds, ListedIsBacked, NoCall
<1> QED BY <1>5, <1>7

LEMMA NextKeepsIInv == IInv /\ [Next]_vars => IInv'
<1> SUFFICES ASSUME BootInv, ServerInv, [Next]_vars
             PROVE  BootInv' /\ ServerInv'
  BY DEF IInv, BootInv, TypeOK, ServerInv, ServerTypeOK
<1>1. UNCHANGED bootVars => BootInv'
  BY StillBootInv
<1>2. ASSUME NEW c \in Connectors, Boot(c) \/ User(c)
      PROVE  BootInv' /\ ServerInv'
  <2>1. Moves(c) /\ UNCHANGED <<serverVars, call>>
    BY <1>2 DEF Boot, User, Moves
  <2>2. BootInv' /\ Frame(c) /\ Lasts(c)
    BY <2>1, MoveKeeps
  <2>3. Kept
    BY <2>2, MovesKeepEntries
  <2> QED BY <2>1, <2>2, <2>3, ServerStays
<1>3. ASSUME NEW c \in Connectors, Discover(c)
      PROVE  BootInv' /\ ServerInv'
  <2>1. UNCHANGED bootVars
    BY <1>3 DEF Discover, Ask, Answered, AskTimesOut
  <2> QED BY <1>1, <1>3, <2>1, AnsweredKeeps, QuietServerKeeps DEF Discover
<1>4. CASE NothingToServe \/ Serve \/ Listed
  <2>1. UNCHANGED bootVars
    BY <1>4 DEF NothingToServe, Serve, Listed
  <2> QED BY <1>1, <1>4, <2>1, ServeKeeps, QuietServerKeeps
<1>5. ASSUME NEW k \in Calls, Client(k)
      PROVE  BootInv' /\ ServerInv'
  BY <1>5, ClientKeeps
<1>6. CASE UNCHANGED vars
  <2>1. UNCHANGED bootVars /\ UNCHANGED <<serverVars, call>>
    BY <1>6 DEF vars
  <2> QED BY <1>1, <2>1, StillKeepsEntries, ServerStays
<1> QED BY <1>2, <1>3, <1>4, <1>5, <1>6 DEF Next

\* The invariant holds from the start on.
THEOREM InductiveInvariant == Spec => []IInv
<1> QED BY InitIsGood, NextKeepsIInv, PTL DEF Spec

\* The types of ShimBoot and ToolServer.
THEOREM TypeCorrect == Spec => []TypeOK
<1>1. IInv => TypeOK
  BY DEF IInv
<1> QED BY <1>1, InductiveInvariant, PTL

\* Everything a plugin offered when its register() returned reaches the
\* registry of its daemon, or is on the way there, and nothing else does.
THEOREM RegistriesAreWhole == Spec => []RegistryIsWhole
<1>1. IInv => RegistryIsWhole
  BY DEF IInv, BootInv
<1> QED BY <1>1, InductiveInvariant, PTL

\* Whatever the filter, no tool and no call is for a plugin it keeps out.
THEOREM FilterIsKept == Spec => []FilterHolds
<1>1. IInv => FilterHolds
  BY DEF IInv
<1> QED BY <1>1, InductiveInvariant, PTL

LEMMA ListedRuns ==
  ASSUME BootInv, NEW c \in Connectors, NEW n, NEW i, Backs(c, n, i), Clear(c, n)
  PROVE  Runs(c, n) = i
<1>0. registered[c] \in UpTo(Tools, MaxTools)
  BY DEF BootInv, BootTypeOK
<1>1. CASE \E m \in channel[c] \cap Methods : n = Name(c, m) /\ i = Method(m)
  <2>1. PICK m \in channel[c] \cap Methods : n = Name(c, m) /\ i = Method(m)
    BY <1>1
  <2>2. n \notin ToolNames /\ Ends(n) = m
    BY <2>1 DEF Name, Ends
  <2>3. channel[c] # NoChannel
    BY <2>1 DEF NoChannel
  <2> QED BY <2>1, <2>2, <2>3 DEF Runs, HasMethod
<1>2. CASE \E j \in 1..Len(registered[c]) : n = registered[c][j].name /\ i = Tool(j)
  <2>1. PICK j \in 1..Len(registered[c]) : n = registered[c][j].name /\ i = Tool(j)
    BY <1>2
  <2>2. registered[c][j].name \in ToolNames
    <3>1. registered[c][j] \in Tools
      BY <1>0, <2>1, UpToIsSeq
    <3> QED BY <3>1 DEF Tools
  <2>3. PICK k \in Named(c, n) : ~HasMethod(c, n) /\ Named(c, n) = {k} /\ registered[c][k].execute
    BY <2>1, <2>2 DEF Clear
  <2>4. k = j
    BY <2>1, <2>3 DEF Named
  <2>5. First({j}) = j
    <3>1. Len(registered[c]) \in 0..MaxTools
      BY <1>0, UpToIsSeq
    <3>2. {j} \in SUBSET Nat /\ {j} # {}
      BY <2>1, <3>1
    <3>3. First({j}) \in {j}
      BY <3>2, LeastExists
    <3> QED BY <3>3
  <2> QED BY <2>1, <2>3, <2>4, <2>5 DEF Runs
<1> QED BY <1>1, <1>2 DEF Backs

\* A call that arrives before its connector is started again runs what was listed
\* with the name, unless the plugin itself has made the name mean something else.
THEOREM CallsRunWhatWasListed == Spec => RunsWhatWasListed
<1>1. ASSUME IInv, [Next]_vars, NEW k \in Calls,
             call[k].at = "sent", call'[k] \notin {call[k], Failed},
             call[k].start = call[k].entry.start,
             Clear(call[k].entry.from, call[k].entry.tool)
      PROVE  call'[k] = Ran(call[k].entry.item)
  <2> DEFINE e == call[k].entry
             c == e.plugin
  <2>1. BootInv /\ ServerInv
    BY <1>1, IInvParts
  <2>2. /\ Dynamic(e) /\ EntryIsBacked(e) /\ c \in Connectors /\ e.from = c
    BY <1>1, <2>1, CallForms DEF EntryIsBacked
  <2>3. Arrives(k)
    <3>1. call' # call
      BY <1>1
    <3>2. ASSUME NEW j \in Calls, Client(j) PROVE j = k
      <4>1. \E x : call' = [call EXCEPT ![j] = x]
        BY <3>2 DEF Client, CallTool, Arrives, CallFails, CallSkill, CallConnector, CallDynamic, Settle
      <4> QED BY <1>1, <4>1, <2>1 DEF ServerInv, ServerTypeOK
    <3>3. Client(k)
      BY <1>1, <3>1, <3>2 DEF Next, vars, Boot, User, Discover, Ask, Answered, AskTimesOut,
                              NothingToServe, Serve, Listed
    <3>4. ~CallTool(k)
      BY <1>1 DEF CallTool, NoCall
    <3>5. ~CallFails(k)
      BY <1>1, <2>1 DEF CallFails, Settle, ServerInv, ServerTypeOK
    <3> QED BY <3>3, <3>4, <3>5 DEF Client
  <2>4. /\ starts[c] = call[k].start /\ shim[c] # "none"
        /\ call'[k] = Ran(Runs(c, e.tool))
    BY <2>1, <2>3 DEF Arrives, Settle, ServerInv, ServerTypeOK
  <2>5. daemon[c] = "up"
    BY <2>1, <2>2, <2>4 DEF BootInv, BootIsClean, BootTypeOK
  <2>6. Backs(c, e.tool, e.item)
    BY <1>1, <2>2, <2>4, <2>5 DEF EntryIsBacked
  <2>7. Clear(c, e.tool)
    BY <1>1, <2>2
  <2> HIDE DEF e, c
  <2>8. Runs(c, e.tool) = e.item
    BY <2>1, <2>2, <2>6, <2>7, ListedRuns
  <2> QED BY <2>4, <2>8 DEF e
<1>2. IInv /\ [Next]_vars =>
        [\A k \in Calls :
           LET e == call[k].entry IN
           /\ call[k].at = "sent" /\ call'[k] \notin {call[k], Failed}
           /\ call[k].start = e.start /\ Clear(e.from, e.tool)
           => call'[k] = Ran(e.item)]_vars
  BY <1>1
<1> QED BY <1>2, InductiveInvariant, PTL DEF Spec, RunsWhatWasListed
=============================================================================
