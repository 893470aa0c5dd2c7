SPECIFICATION Spec
CONSTANTS
  v1 = v1
  v2 = v2
  v3 = v3
  b1 = b1
  b2 = b2
  b3 = b3
  p1 = p1
  p2 = p2
  p3 = p3
  p4 = p4
  p5 = p5
  p6 = p6
  h1 = h1
  h2 = h2
  n1 = n1
  n2 = n2
  n3 = n3
  nx = nx
  NoIp = NoIp
  NoVm = NoVm
  NoHost = NoHost
  Vms <- MCVms
  Ips <- WideIps
  Pool <- WidePool
  StaticNames <- MCStaticNames
  NameFor <- MCNameFor
  Hosts <- MCHosts
  Worlds <- MixedWorlds
  Banned <- DistinctBanned
  MaxStaticIp = 2
  BatchSize = 3
  MaxFaults = 2
SYMMETRY WideAddresses
INVARIANTS
  TypeOK
  CacheCoherent
  AllocateWithinQuota
  AnnouncedIsServed
  Converged
  NoPanic
PROPERTIES
  DropsOnlyDeadAddresses
  KeepsQuotaPromise
