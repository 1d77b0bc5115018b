\* Two sandboxes, one client and the reaper, one crash.
SPECIFICATION FairSpec
CONSTANTS
  s1 = s1  s2 = s2
  Sandboxes = {s1, s2}
  Clients = {d1}
  Reaper = Reaper
  NoSandbox = NoSandbox
  Listed = {s1}
  Volatile = {s2}
  MaxCrashes = 1
INVARIANTS RuntimeAccounted NotGivenUp CacheAgrees
PROPERTIES DestroyedForGood ExpiredDestroyed
