\* Firecracker: three spawns of one image, one crash.  The others: two callers,
\* four calls, two sandboxes, one failing step, one restart.
SPECIFICATION ProvidersSpec
CONSTANTS
  Spawns = {s1, s2, s3}
  Nobody = Nobody
  MaxCrashes = 1
  Kinds = {"docker", "firecracker", "proot", "mock", "custom", "e2b"}
  Callers = {c1, c2}
  Ids = {1, 2}
  MaxCalls = 4
  MaxBroken = 1
  Room = 1
  MaxChunks = 2
  MaxSandboxes = 1
INVARIANTS ProcessesAccounted SnapshotWhole NothingLeft AfterDestroy
PROPERTIES StreamsEnd
CHECK_DEADLOCK FALSE
