SPECIFICATION Spec
CONSTANTS
  Boxes = {b1, b2, b3}
  Ips = {i1}
  Mints = {m1, m2}
  MaxActive = 1
  PoolSize = 1
  PerIpMax = 2
  MintMax = 3
  MintWindow = 1
  PerIpTTL = 0
  MaxIpRecords = 1
  HardTTL = 1
  IdleTTL = 1
  IdleTight = 1
  HbVisible = 1
  HbHidden = 1
  ReclaimMinAge = 0
  PoolMaxAge = 1
  Period = 1
  MaxDue = 1
  MaxCrashes = 1
  DockerIsSlow = TRUE
  DockerMayFail = FALSE
SYMMETRY Alike
INVARIANTS HardCap
