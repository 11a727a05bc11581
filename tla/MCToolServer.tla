----------------------------- MODULE MCToolServer ---------------------------
(* Model values for ToolServer: two connectors with a tool of one name, and  *)
(* a skill whose SKILL.md names it so too.                                   *)
EXTENDS ToolServer

CONSTANTS chat, mail, search, lookup, my_send_text

Looks == [name |-> lookup, execute |-> TRUE]
Inert == [name |-> lookup, execute |-> FALSE]
Sends == [name |-> my_send_text, execute |-> TRUE]
MCOffers ==
  [c \in Connectors |-> IF c = chat THEN {<<>>, <<Looks, Inert>>, <<Sends>>} ELSE {<<Looks>>}]
MCAfterthoughts == [c \in Connectors |-> IF c = chat THEN {Looks} ELSE {}]
MCChannels == [c \in Connectors |-> IF c = chat THEN {{"send_text"}} ELSE {}]
MCMaxStarts == [c \in Connectors |-> IF c = chat THEN 2 ELSE 1]
MCSuffix == [n \in ToolNames |-> IF n = my_send_text THEN "send_text" ELSE NoMethod]
MCRank == [p \in Plugins |-> CASE p = chat -> 1 [] p = mail -> 2 [] p = search -> 3]
MCStaticName == [p \in Plugins |-> IF p = search THEN lookup ELSE p]
=============================================================================
