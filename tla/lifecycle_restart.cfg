\* A row of a destroyed sandbox whose runtime is still there when the server restarts.
SPECIFICATION Spec
CONSTANTS
  s1 = s1  s2 = s2
  Sandboxes = {s1, s2}
  Clients = {d1}
  Reaper = Reaper
  NoSandbox = NoSandbox
  Listed = {s1, s2}
  Volatile = {}
  MaxCrashes = 1
SYMMETRY Symmetry
INVARIANT RestartReconciles
