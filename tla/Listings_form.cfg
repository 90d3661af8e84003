SPECIFICATION Spec
CONSTANTS
  ann = ann
  adm = adm
  n1 = n1
  n2 = n2
  n3 = n3
  n4 = n4
  n5 = n5
  t1 = t1
  t2 = t2
  h1 = h1
  h2 = h2
  none = none
  short = short
  long = long
  NoDescription = none
  NoTeam = NoTeam
  Handlers <- TwoHandlers
  Interactions <- AllInteractions
  TextLimit = 12
  MaxClicks = 2
  UserOrder <- AnnThenAdm
  Names <- FiveNames
  Descriptions <- TwoDescriptions
  RecordSize <- Sizes
  StoredRows <- StoredAtStart
  RecordRequests <- AllRecordCommands
  Members <- BothUsers
  TeamOrder <- TwoTeams
  HeadSize = 1
  MemberSize <- ListSizes
  ReplyLimit = 5
  TeamRequests <- AllTeamCommands
  Workloads <- AllWorkloads
PROPERTIES FormIsAnswered
