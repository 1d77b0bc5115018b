\* One sandbox on one remote worker, one client and the reaper, two faults.
SPECIFICATION FairSpec
CONSTANTS
  s1 = s1  s2 = s2  w1 = w1
  Sandboxes = {s1}
  WorkerOrder <- BeforeLocal
  Local = Local
  Nobody = Nobody
  Clients = {d1}
  Reaper = Reaper
  MaxSandboxes = 1
  MaxFaults = 2
PROPERTIES ExpiredDestroyed
