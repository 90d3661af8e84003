SPECIFICATION Spec
CONSTANTS
  h1 = h1
  guild = guild
  channel = channel
  member = member
  somebody = somebody
  everyone = everyone
  r1 = r1
  o1 = o1
  admin = admin
  send = send
  None = None
  Flags <- TwoFlags
  Administrator = admin
  Handlers = {h1}
  Guild = guild
  Channel = channel
  Member = member
  Everyone = everyone
  Roles = {r1}
  OtherRoles = {o1}
  Contents <- SmallContents
  RoleLimit = 2
  RolePurge = 1
  MaxChanges = 2
INVARIANTS
  TypeOK
  CacheIsFresh
  ComputedIsGranted
