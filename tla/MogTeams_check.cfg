SPECIFICATION Spec
CONSTANTS
  h1 = h1
  h2 = h2
  red = red
  blue = blue
  u1 = u1
  u2 = u2
  NoTeam = NoTeam
  Handlers <- TwoHandlers
  Teams <- TwoTeams
  Users <- TwoUsers
  Threads = 1
  LoadMayFail = TRUE
  Requests <- MovesOfTwo
SYMMETRY HandlerSymmetry
INVARIANTS
  TypeOK
  CacheIsPersisted
  CacheIsComplete
PROPERTIES
  OnlyAskedRemovals
