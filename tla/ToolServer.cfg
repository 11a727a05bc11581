SPECIFICATION FairSpec
CONSTANTS
  chat = chat
  mail = mail
  search = search
  lookup = lookup
  my_send_text = my_send_text
  Connectors = {chat, mail}
  Plugins = {chat, mail, search}
  ToolNames = {lookup, my_send_text}
  Calls = {k1}
  k1 = k1
  Channels <- MCChannels
  Offers <- MCOffers
  Afterthoughts <- MCAfterthoughts
  Suffix <- MCSuffix
  Rank <- MCRank
  StaticName <- MCStaticName
  MaxStarts <- MCMaxStarts
  NoMethod = NoMethod
  Unknown = Unknown
  MaxTools = 2
INVARIANTS
  TypeOK
  RegistryIsWhole
  FilterHolds
PROPERTIES
  RunsWhatWasListed
  ServerComesUp
CHECK_DEADLOCK FALSE
