SPECIFICATION Spec
CONSTANTS
  Boxes = {b1, b2, b3}
  Ips = {i1, i2}
  Mints = {m1}
  MaxActive = 2
  PoolSize = 1
  PerIpMax = 1
  MintMax = 2
  MintWindow = 1
  PerIpTTL = 1
  MaxIpRecords = 1
  HardTTL = 2
  IdleTTL = 1
  IdleTight = 1
  HbVisible = 1
  HbHidden = 1
  ReclaimMinAge = 1
  PoolMaxAge = 2
  Period = 1
  MaxDue = 1
  MaxCrashes = 1
  DockerIsSlow = FALSE
  DockerMayFail = TRUE
INVARIANTS ReservingIsExact SessionsEndOnTime AssignableIsYoung PerIpIsExact
SYMMETRY Alike
