\* Two servers that migrate one database, all eleven versions and two faults;
\* then the calls of one group of methods on two identifiers, on both stores;
\* two workers and two overlapping calls on one lease, three clock ticks.
SPECIFICATION StoresSpec
CONSTANTS
  Servers = {s1, s2}
  LastVersion = 11
  MaxFailures = 2
  Ids = {1, 2}
  MaxRows = 2
  DefaultLimit = 1
  MaxLimit = 2
  Holders = {a, b}
  Calls = {c1, c2}
  NoHolder = NoHolder
  TTLs = {1, 2}
  Horizon = 3
  MaxGeneration = 3
INVARIANTS SameAnswers GenerationFences
PROPERTIES ServersStart ImplementsOwnership
CHECK_DEADLOCK FALSE
