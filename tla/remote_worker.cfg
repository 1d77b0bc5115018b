\* Two sandboxes on one remote worker with room for one, destroyed by the
\* reaper, two faults.
SPECIFICATION Spec
CONSTANTS
  s1 = s1  s2 = s2  w1 = w1
  Sandboxes = {s1, s2}
  WorkerOrder <- BeforeLocal
  Local = Local
  Nobody = Nobody
  Clients = {}
  Reaper = Reaper
  MaxSandboxes = 1
  MaxFaults = 2
SYMMETRY Symmetry
INVARIANTS RuntimeAccounted LeaseHeld WorkerCapacity
