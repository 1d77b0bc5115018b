\* Three calls compete for one sandbox through a queue of one; quotas keep
\* their value, so saving one only notifies.
SPECIFICATION FairSpec
CONSTANTS
  Calls = {c1, c2, c3}
  NoCall = NoCall
  NoOwner = NoOwner
  Owners = {o1}
  OwnerOf <- NoOwners
  MaxSandboxes = 1
  MaxPerOwner = 0
  QuotaLimits = {0}
  MaxSpawnQueue = 1
  Queueing = TRUE
  Remote = {c1}
  MaxTold = 2
PROPERTIES QueueDrains AdmissionProgress
