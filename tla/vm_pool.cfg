\* Three logical sandboxes on at most two VMs of two users, any sandbox destroyed repeatedly.
SPECIFICATION Spec
CONSTANTS
  s1 = s1  s2 = s2  s3 = s3  v1 = v1  v2 = v2  v3 = v3  d1 = d1  d2 = d2
  Sandboxes = {s1, s2, s3}
  VMs = {v1, v2, v3}
  Destroyers = {d1, d2}
  None = None
  MaxVMs = 2
  MaxUsers = 2
  MaxSandboxes = 3
  VMsExpire = TRUE
SYMMETRY Symmetry
INVARIANTS PoolBounded NoLeakedUser UsersKeepTheirVM AdmittedWithinOne
