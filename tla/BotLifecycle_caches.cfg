SPECIFICATION Spec
CONSTANTS
  optimize = optimize
  select_all = select_all
  dump_channel = dump_channel
  show_team = show_team
  show_all = show_all
  insert_guild = insert_guild
  db_insert = db_insert
  db = db
  team = team
  old_team = old_team
  Definitions <- AllDefinitions
  Versions <- AllVersions
  Setup <- SetupSeq
  Caches = dump_channel
  Attach <- AttachSeq
  Unguarded <- TeamOwners
  Guarded <- GuardedOwners
  Optimize = optimize
  JobOwner = insert_guild
  Lazy <- LazySeq
  Length <- Lengths
  MaxSessions = 3
INVARIANT
  CachesReferencesValid
CHECK_DEADLOCK FALSE
