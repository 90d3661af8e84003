SPECIFICATION FairSpec
CONSTANTS
  ann = ann
  bob = bob
  g1 = g1
  g2 = g2
  n1 = n1
  n2 = n2
  safe = safe
  adult = adult
  h1 = h1
  h2 = h2
  NoChannel = NoChannel
  NoMessage = NoMessage
  Handlers <- TwoHandlers
  Users <- TwoUsers
  Guilds <- TwoGuilds
  Names <- TwoNames
  Channels <- TwoChannels
  NsfwChannels <- AdultChannel
  Ids <- ThreeIds
  Requests <- AllRequests
  Workloads <- RacesAndCleanup
  BulkMax = 2
INVARIANTS TypeOK RowHasMessage NoOrphan
PROPERTIES DeletesAreConfirmed ReportCoversLeftovers EveryCommandEnds
