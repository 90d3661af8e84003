SPECIFICATION Spec
CONSTANTS
  k1 = k1
  k2 = k2
  k3 = k3
  k4 = k4
  k5 = k5
  v1 = v1
  v2 = v2
  Null = Null
  Keys <- FiveKeys
  Values <- TwoValues
  PurgeLimit = 4
  PurgeCount = 2
  AutomaticDecay = TRUE
  UpdateCounts = FALSE
  MaxFrequency = 4
  Decayed <- SevenTenths
SYMMETRY KeySymmetry
INVARIANTS
  TypeOK
  IndexMatches
PROPERTIES
  EvictsLeast
  ImplementsBoundedCache
