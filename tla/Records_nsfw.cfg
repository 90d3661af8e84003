SPECIFICATION Spec
CONSTANTS
  ann = ann
  bob = bob
  g1 = g1
  g2 = g2
  n1 = n1
  n2 = n2
  safe = safe
  adult = adult
  h1 = h1
  h2 = h2
  NoChannel = NoChannel
  NoMessage = NoMessage
  Handlers <- TwoHandlers
  Users <- TwoUsers
  Guilds <- TwoGuilds
  Names <- TwoNames
  Channels <- TwoChannels
  NsfwChannels <- AdultChannel
  Ids <- ThreeIds
  Requests <- AllRequests
  Workloads <- TaggedWhileRead
  BulkMax = 2
PROPERTIES NsfwStaysInNsfwChannels
