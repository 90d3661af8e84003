SPECIFICATION Spec
CONSTANTS
  o1 = o1
  o2 = o2
  o3 = o3
  o4 = o4
  Owners <- FourOwners
  Length <- Lengths
INVARIANTS
  KeysPartition
  OwnerIsolation
  NoOrphan
