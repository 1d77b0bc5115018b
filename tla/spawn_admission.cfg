\* Four calls, two of one owner, compete for two sandboxes and a queue of two.
SPECIFICATION Spec
CONSTANTS
  c1 = c1  c2 = c2  c3 = c3  c4 = c4  o1 = o1
  Calls = {c1, c2, c3, c4}
  NoCall = NoCall
  NoOwner = NoOwner
  Owners = {o1}
  OwnerOf <- OneOwner
  MaxSandboxes = 2
  MaxPerOwner = 1
  QuotaLimits = {0, 2}
  MaxSpawnQueue = 2
  Queueing = TRUE
  Remote = {c1, c2}
  MaxTold = 2
SYMMETRY Symmetry
INVARIANTS CapacityRespected QueueAccounting
PROPERTY OwnerLimitRespected
